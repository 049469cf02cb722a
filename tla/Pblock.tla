------------------------------- MODULE Pblock -------------------------------
(***************************************************************************)
(* The protocol blocks of a libnet context (libnet_pblock.c): a packet is  *)
(* a list of blocks, the innermost layer first, and every builder adds one *)
(* or changes the one its tag names.                                       *)
(*                                                                         *)
(* A context is a record, the list its field blocks.  pblock_end is the    *)
(* last block of the list whenever the list is not empty, so it has no     *)
(* field of its own.  Of the bytes of a block the model keeps how many     *)
(* were copied in, whether they came from whole fields of a struct, and    *)
(* the two header fields that other calls change: hl (ip_hl and th_off, in *)
(* words) and len (ip_len).  lost holds the sizes of blocks that were      *)
(* unlinked without being freed.                                           *)
(***************************************************************************)
EXTENDS Integers, Sequences, SequencesExt, FiniteSetsExt

\* h_len and the header fields are 16 bits wide.
U16 == 65536

\* Tag 0 asks a builder for a new block.
LIBNET_PTAG_INITIALIZER == 0

\* The bytes of the blocks of a list.
Bytes(blocks) == FoldLeft(LAMBDA n, b : n + b.b_len, 0, blocks)

\* A fresh context for an injection type on a device with an ethernet header
\* or one of another kind; raw contexts have no link layer.
libnet_init(injection_type, link_type) ==
    [blocks |-> <<>>, total_size |-> 0, n_pblocks |-> 0, ptag_state |-> 0,
     injection_type |-> injection_type, link_type |-> link_type, lost |-> <<>>,
     link_offset |-> IF injection_type \in {"LINK", "LINK_ADV"} THEN 14 ELSE 0]

\* The position of the block with a tag, or 0.
libnet_pblock_find(l, ptag) ==
    LET at == {i \in DOMAIN l.blocks : l.blocks[i].ptag = ptag}
    IN  IF at = {} THEN 0 ELSE Min(at)

\* A block of zeroed memory at the end of the list.
libnet_pblock_new(l, size) ==
    [l EXCEPT !.blocks = Append(@, [type |-> "none", ptag |-> 0, b_len |-> size,
                                    h_len |-> 0, copied |-> 0, ip_offset |-> 0,
                                    sum |-> FALSE, hl |-> 0, len |-> 0,
                                    packed |-> TRUE]),
              !.total_size = @ + size, !.n_pblocks = @ + 1]

\* The new block, or the old one resized; p is 0 if the tag is unknown or
\* names a block of another type.
libnet_pblock_probe(l, ptag, n, type) ==
    IF ptag = LIBNET_PTAG_INITIALIZER
    THEN [l |-> libnet_pblock_new(l, n), p |-> Len(l.blocks) + 1]
    ELSE LET i == libnet_pblock_find(l, ptag)
         IN  IF i = 0 \/ l.blocks[i].type # type THEN [l |-> l, p |-> 0]
             ELSE LET grown == n - l.blocks[i].b_len
                  IN  [l |-> [l EXCEPT !.blocks[i].h_len = (@ + grown) % U16,
                                       !.blocks[i].b_len = n,
                                       !.blocks[i].copied = 0,
                                       !.total_size = @ + grown],
                       p |-> i]

\* May len more bytes be copied into block i?
CanAppend(l, i, len) == l.blocks[i].copied + len <= l.blocks[i].b_len

libnet_pblock_append(l, i, len) == [l EXCEPT !.blocks[i].copied = @ + len]

libnet_pblock_setflags(l, i) == [l EXCEPT !.blocks[i].sum = TRUE]

\* Names a new block and gives it the next tag.
libnet_pblock_update(l, i, h, type) ==
    [l EXCEPT !.blocks[i].type = type, !.blocks[i].h_len = h % U16,
              !.blocks[i].ptag = l.ptag_state + 1, !.ptag_state = @ + 1]

\* A fault: no block is unlinked.
libnet_pblock_delete_none(l, i) == l

libnet_pblock_delete(l, i) ==
    [l EXCEPT !.blocks = RemoveAt(@, i), !.n_pblocks = @ - 1,
              !.total_size = @ - l.blocks[i].b_len]

\* Relinks block j in front of block i, i < j.  The pointers written are those
\* of two neighbours: any block between them is unlinked.
libnet_pblock_swap(l, i, j) ==
    [l EXCEPT !.blocks = SubSeq(@, 1, i - 1) \o <<@[j], @[i]>> \o SubSeq(@, j + 1, Len(@)),
              !.lost = @ \o [k \in 1 .. j - i - 1 |-> l.blocks[i + k].b_len]]

\* The last block is relinked in front of the first.
libnet_pblock_insert_before(l) ==
    [l EXCEPT !.blocks = <<Last(@)>> \o Front(@)]

\* The walk starts at pblock_end and stops in front of the next IPv4 header.
libnet_pblock_record_ip_offset(l, offset) ==
    LET end  == Len(l.blocks)
        stop == {i \in 1 .. end - 1 : l.blocks[i].type = "IPV4_H"}
        from == IF stop = {} THEN 1 ELSE Max(stop) + 1
    IN  [l EXCEPT !.blocks = [i \in DOMAIN @ |->
            IF i >= from THEN [@[i] EXCEPT !.ip_offset = offset] ELSE @[i]]]

\* Frees the blocks; the number of blocks and the last tag are left.
libnet_clear_packet(l) == [l EXCEPT !.blocks = <<>>, !.total_size = 0, !.lost = <<>>]

libnet_toggle_checksum(l, ptag, mode) ==
    LET i == libnet_pblock_find(l, ptag)
    IN  IF i = 0 THEN l ELSE [l EXCEPT !.blocks[i].sum = mode]

(***************************************************************************)
(* Coalescing: the blocks are copied from the end of the packet forward.   *)
(* A block's checksum is written when the next block that wants one (or    *)
(* the end) is reached, at the place its ip_offset names.                  *)
(***************************************************************************)
\* The protocol whose checksum rules a block type follows; "none" is the -1
\* of the default case.  ISL has a case for the size of its header, not for
\* its type.
libnet_pblock_p2p(type) ==
    CASE type = "CDP_H" -> "CDP"
      [] type \in {"ICMPV4_ECHO_H", "ICMPV4_MASK_H", "ICMPV4_UNREACH_H", "ICMPV4_TIMXCEED_H",
                   "ICMPV4_REDIRECT_H", "ICMPV4_TS_H"} -> "ICMP"
      [] type = "IGMP_H" -> "IGMP"
      [] type = "IPV4_H" -> "IP"
      [] type = "LS_SUM_H" -> "ISL"
      [] type = "OSPF_H" -> "OSPF"
      [] type = "LS_RTR_H" -> "OSPF_LSA"
      [] type = "TCP_H" -> "TCP"
      [] type = "UDP_H" -> "UDP"
      [] type = "VRRP_H" -> "VRRP"
      [] type = "GRE_H" -> "GRE"
      [] OTHER -> "none"

\* libnet_do_checksum accepts the block.
libnet_do_checksum(b) ==
    b.h_len # 0 /\ libnet_pblock_p2p(b.type) \notin {"ISL", "none"}

\* The blocks whose checksum is computed.
Summed(l) == {i \in DOMAIN l.blocks : l.blocks[i].sum}

\* A checksum computed as soon as its block is copied.
CopiedAt_once(l, i) == i

\* How many blocks have been copied when block i is summed: up to the next
\* one that wants a checksum.
CopiedAt(l, i) ==
    LET later == {j \in Summed(l) : j > i} IN IF later = {} THEN Len(l.blocks) ELSE Min(later)

\* The outermost block must suit the injection type, except in advanced mode.
OuterOK(l) ==
    LET type == Last(l.blocks).type
    IN  CASE l.injection_type = "LINK" ->
                 type \in {"TOKEN_RING_H", "FDDI_H", "ETH_H", "802_1Q_H", "ISL_H", "802_3_H"}
          [] l.injection_type = "RAW4" -> type = "IPV4_H"
          [] l.injection_type = "RAW6" -> type = "IPV6_H"
          [] OTHER -> TRUE

\* Result of libnet_pblock_coalesce: the context with the IPv4 header of a raw
\* packet flagged, and whether a packet comes out.
libnet_pblock_coalesce(l) ==
    LET raw == l.injection_type = "RAW4" /\ Last(l.blocks).type = "IPV4_H"
        c   == IF raw THEN libnet_pblock_setflags(l, Len(l.blocks)) ELSE l
    IN  [l |-> c, ok |-> OuterOK(c) /\ \A i \in Summed(c) : libnet_do_checksum(c.blocks[i])]
=============================================================================
