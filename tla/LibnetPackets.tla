---------------------------- MODULE LibnetPackets ----------------------------
(***************************************************************************)
(* A program that puts packets together with libnet, layer by layer from   *)
(* the inside out, changes headers it has built through their tags, writes *)
(* the packet and clears the context.                                      *)
(*                                                                         *)
(* The program gives true lengths, and a payload only to the innermost     *)
(* layer.  It keeps the call that made each block (calls, by tag) to make  *)
(* it again.  An inner layer that changes its size below a UDP, GRE or     *)
(* OSPF header would leave their h_len as it was, which no call can put    *)
(* right: the program only resizes a block no summed header lies above     *)
(* other than its own.                                                     *)
(***************************************************************************)
EXTENDS LibnetBuild

CONSTANTS Sizes,       \* lengths of payloads
          OptionSizes, \* lengths of options
          Contexts,    \* injection types with the link layer of the device
          MaxChanges,  \* bound: rebuilt headers in one packet
          MaxTags      \* bound: tags given before the context is used again

VARIABLES ctx,       \* the libnet context
          calls,     \* the call that made the block with a tag
          changes,   \* headers rebuilt since the packet was begun
          state,     \* "fresh"; "moved": a size changed after the place of the IPv4
                     \* header was recorded; "given up": a rebuild failed
          result     \* what the last call returned

vars == <<ctx, calls, changes, state, result>>

Types == {ctx.blocks[i].type : i \in DOMAIN ctx.blocks}
Has(types) == Types \cap types # {}

Net  == {"IPV4_H", "IPV6_H", "IPO_H", "ARP_H"}
Link == {"ETH_H", "FDDI_H", "TOKEN_RING_H", "802_1Q_H", "802_3_H", "ISL_H"}
Trans == {"TCP_H", "UDP_H", "ICMPV4_ECHO_H", "ICMPV4_MASK_H", "ICMPV4_TS_H", "ICMPV4_UNREACH_H",
          "ICMPV4_TIMXCEED_H", "ICMPV4_REDIRECT_H", "IGMP_H", "VRRP_H", "GRE_H", "OSPF_H",
          "IPSEC_AH_H", "IPSEC_ESP_HDR_H"}

\* The calls that begin a packet above the transport layer.
Applications == {"data", "bgp4_header", "bgp4_open", "bgp4_notification", "dhcpv4", "bootpv4",
    "ntp", "rip", "sebek", "ospfv2_hello", "ospfv2_dbd", "ospfv2_lsr", "ospfv2_lsu",
    "ospfv2_lsa", "ospfv2_lsa_rtr", "ospfv2_lsa_net", "ospfv2_lsa_sum", "ospfv2_lsa_as",
    "802_1x", "stp_conf", "stp_tcn", "cdp", "gre_sre", "ipsec_esp_ftr"}
\* The transports that take their data only as a payload.
Alone == {"icmpv4_echo", "icmpv4_mask", "icmpv4_timestamp", "icmpv4_timeexceed",
          "icmpv4_redirect", "vrrp"}
Shim == {"MPLS_H", "802_2_H", "802_2SNAP_H"}

Inside == ctx.total_size
Innermost == IF ctx.blocks = <<>> THEN Sizes ELSE {0}

\* A header made without a tag in the call is changed by the builder that takes one.
Again(c) == CASE c.op = "autobuild_ipv4" -> [c EXCEPT !.op = "ipv4", !.x = 0]
              [] c.op = "autobuild_arp" -> [c EXCEPT !.op = "arp", !.x = <<6, 4>>]
              [] c.op = "autobuild_ethernet" -> [c EXCEPT !.op = "ethernet", !.x = 0]
              [] c.op = "autobuild_fddi" -> [c EXCEPT !.op = "fddi", !.x = 0]
              [] c.op = "autobuild_token_ring" -> [c EXCEPT !.op = "token_ring", !.x = 0]
              [] c.op = "autobuild_link" -> [c EXCEPT !.op = "link", !.x = 0]
              [] c.op = "egre" -> [c EXCEPT !.op = "gre"]
              [] c.op = "bootpv4" -> [c EXCEPT !.op = "dhcpv4"]
              [] OTHER -> c

Made(c) ==
    \E res \in {Call(ctx, c)} :
       /\ ctx' = res.l
       /\ result' = res.r
       /\ calls' = IF res.r = -1 THEN calls ELSE (res.r :> Again(c)) @@ calls

\* A call for a new header with a payload of s bytes.
Header(op, s, len, x) == [op |-> op, a |-> [New(s) EXCEPT !.len = len], x |-> x]
Headers(ops, sizes, x) == {Header(op, s, 0, x) : op \in ops, s \in sizes}
When(condition, S) == IF condition THEN S ELSE {}

Init == /\ \E c \in Contexts : ctx = libnet_init(c[1], c[2])
        /\ calls = <<>> /\ changes = 0 /\ state = "fresh" /\ result = 0

\* Options are followed by their header.
After(types) == ctx.blocks # <<>> /\ Last(ctx.blocks).type \in types

ApplicationCalls ==
    When(ctx.blocks = <<>>,
         Headers(Applications, Sizes, 0)
           \cup {Header("dnsv4", s, 0, h_len) : s \in Sizes, h_len \in {12, 13, 14}}
           \cup {Header("rpc_call", s, 0, rm) : s \in Sizes, rm \in BOOLEAN}
           \cup {Header("bgp4_update", s, 0, <<<<s, 0, 4>>, {1, 2, 3}>>) : s \in Sizes}
           \cup Headers({"arp"}, Sizes, <<6, 4>>)
           \cup Headers({"autobuild_arp", "gre_last_sre", "snmp", "cdp_value"}, {0}, 0)
           \cup {Header("tcp_options", 0, 0, s) : s \in OptionSizes})

GreCalls ==
    {Header(op, s, Inside + s + libnet_getgre_length(v, fv), <<v, fv>>) :
        s \in Innermost, v \in {0, 1}, op \in {"gre", "egre"},
        fv \in {{}, {"CSUM"}, {"CSUM", "SEQ"}, {"KEY", "ACK"}}}

TransportCalls ==
    When(~Has(Net \cup Trans \cup Link \cup Shim),
         When(Types \subseteq {"DATA_H", "DHCPV4_H"}, {Header("udp", s, Inside + s + 8, 0) : s \in Innermost})
           \cup When(Types \subseteq {"DATA_H", "TCPO_H"},
                     {Header("tcp", s, Inside + s + 20, 0) :
                         s \in IF After({"TCPO_H"}) THEN Sizes ELSE Innermost})
           \cup When(Has({"OSPF_HELLO_H", "LS_RTR_H", "OSPF_LSA_H"}), {Header("ospfv2", 0, Inside, 0)})
           \cup When(After({"DATA_H"}), Headers({"icmpv4_unreach"}, {0}, 0))
           \cup When(After({"IPSEC_ESP_FTR_H"}), Headers({"ipsec_ah", "ipsec_esp_hdr"}, {0}, 0))
           \cup When(Types \subseteq {"GRE_SRE_H"}, GreCalls)
           \cup When(ctx.blocks = <<>>, Headers(Alone, Sizes, 0) \cup Headers({"igmp"}, {0}, 0)))

NetworkCalls ==
    When(/\ ~Has({"IPV4_H", "IPV6_H", "ARP_H"} \cup Link \cup Shim) /\ ~After({"TCPO_H"})
         /\ Types = {} \/ Has(Trans \cup {"IPO_H"}),
         {Header("ipv4", s, Inside + s + 20, 0) : s \in IF Types = {"IPO_H"} THEN Sizes ELSE Innermost}
           \cup When(Types \subseteq {"UDP_H", "IPO_H"},
                     {Header("autobuild_ipv4", 0, Inside + 20, src) : src \in BOOLEAN})
           \cup When(~After({"IPO_H"}),
                     When(Types \subseteq {"UDP_H", "TCP_H", "TCPDATA", "IGMP_H"},
                          {Header("ipv4_options", 0, 0, s) : s \in OptionSizes})
                       \cup Headers({"ipv6"}, Innermost, 0) \cup Headers({"autobuild_ipv6"}, {0}, 0)
                       \cup When(After({"UDP_H"}),
                                 Headers({"ipv6_frag", "ipv6_routing", "ipv6_destopts", "ipv6_hbhopts"},
                                         {0}, 0))))

\* Every kind of frame around data; around IP (a bound) the ones that differ in
\* how they are found out and in the shims between.
WireCalls ==
    When(~Has(Link) /\ Has({"IPV4_H", "IPV6_H", "ARP_H", "STP_CONF_H", "CDP_H", "DATA_H"}),
         Headers({"ethernet"}, {0}, 0)
           \cup When(~Has(Trans \ {"UDP_H"}),
                     {Header("autobuild_link", 0, 0, hwaddr) : hwaddr \in BOOLEAN})
           \cup When(LinkLayer(ctx) /\ ~Has(Trans \ {"UDP_H"}), Headers({"802_1q"}, {0}, 0))
           \cup When(LinkLayer(ctx) /\ ~Has(Shim) /\ After({"IPV4_H"}), Headers({"mpls"}, {0}, 0))
           \cup When(After({"STP_CONF_H"}), Headers({"802_2"}, {0}, 0))
           \cup When(After({"CDP_H"}), Headers({"802_2snap"}, {0}, 0))
           \cup When(LinkLayer(ctx) /\ After({"DATA_H", "802_2_H", "802_2SNAP_H"}),
                     Headers({"802_3", "isl", "fddi", "token_ring", "link", "autobuild_ethernet",
                              "autobuild_fddi", "autobuild_token_ring"}, {0}, TRUE)))

\* The next layer is put around the packet.
AddHeader ==
    /\ state # "given up"
    /\ \E c \in ApplicationCalls \cup TransportCalls \cup NetworkCalls \cup WireCalls : Made(c)
    /\ UNCHANGED <<changes, state>>

\* The bytes the blocks 1 to i hold.
Upto(i) == Bytes(SubSeq(ctx.blocks, 1, i))

\* The only inner blocks are the header's own data and options.
Own(i) == \A j \in 1 .. i - 1 : ctx.blocks[j].type \in
              CASE ctx.blocks[i].type = "TCP_H"  -> {"TCPO_H", "TCPDATA"}
                [] ctx.blocks[i].type = "IPV4_H" -> {"IPO_H", "IPDATA"}
                [] OTHER -> {}
SummedAbove(i) == \E j \in i + 1 .. Len(ctx.blocks) :
                      /\ ctx.blocks[j].type \in Trans \ {"IPSEC_AH_H", "IPSEC_ESP_HDR_H"}
                      /\ <<ctx.blocks[i].type, ctx.blocks[j].type>> # <<"TCPO_H", "TCP_H">>

\* Headers are changed in a complete packet; more than once (a bound) only where
\* they keep data and options in blocks of their own.  The other contexts build
\* as these two do.
Limit == IF /\ Has({"TCP_H", "IPDATA"}) /\ ~Has(Shim)
            /\ ctx.injection_type \in {"LINK", "RAW4"} THEN MaxChanges ELSE 1
Complete == Has(Link \cup {"IPV4_H", "IPV6_H"})

\* The calls that build the header at i again: as it was but with its length
\* brought up to date, or with another payload or other options.
Changes(i) ==
    LET c == calls[ctx.blocks[i].ptag]
    IN  {[c EXCEPT !.a.payload_s = s, !.a.payload = s > 0, !.x = x,
                   !.a.len = CASE c.op = "ipv4" -> Upto(i) + s - c.a.payload_s
                               [] c.op \in {"udp", "tcp", "gre"} -> @ + s - c.a.payload_s
                               [] OTHER -> @] :
            s \in IF Own(i) /\ ~SummedAbove(i) THEN Sizes ELSE {c.a.payload_s},
            x \in IF c.op \in {"tcp_options", "ipv4_options"} THEN OptionSizes ELSE {c.x}}

\* A payload passed without its length, which deletes the block.
Misuses(i) ==
    LET c == calls[ctx.blocks[i].ptag]
    IN  When(c.a.payload_s = 0 /\ c.op \notin {"tcp_options", "ipv4_options"},
             {[c EXCEPT !.a.payload = TRUE]})

ChangeHeader ==
    /\ Complete /\ state # "given up" /\ changes < Limit
    /\ \E i \in {j \in DOMAIN ctx.blocks : ctx.blocks[j].ptag \in DOMAIN calls} :
         \E c \in Changes(i) \cup Misuses(i) :
            /\ Made([c EXCEPT !.a.ptag = ctx.blocks[i].ptag])
            /\ state' = CASE result' = -1 -> "given up"
                          [] ctx'.total_size # ctx.total_size -> "moved"
                          [] c.op = "ipv4" /\ Last(ctx.blocks).type = "IPV4_H" -> "fresh"
                          [] OTHER -> state
    /\ changes' = changes + 1

toggle_checksum ==
    /\ Complete /\ changes < Limit /\ state # "given up"
    /\ \E i \in DOMAIN ctx.blocks, mode \in BOOLEAN :
          /\ libnet_pblock_p2p(ctx.blocks[i].type) # "none"
          /\ ctx' = libnet_toggle_checksum(ctx, ctx.blocks[i].ptag, mode)
    /\ changes' = changes + 1
    /\ UNCHANGED <<calls, state, result>>

\* The device takes the whole packet, or not.
libnet_write ==
    LET c == libnet_pblock_coalesce(ctx)
    IN  /\ ctx.blocks # <<>> /\ state # "given up"
        /\ ctx' = c.l
        /\ IF c.ok THEN \E n \in {-1, ctx.total_size} : result' = n ELSE result' = -1
        /\ UNCHANGED <<calls, changes, state>>

clear_packet ==
    /\ ctx.blocks # <<>> /\ ctx.ptag_state <= MaxTags
    /\ ctx' = libnet_clear_packet(ctx)
    /\ calls' = <<>> /\ changes' = 0 /\ state' = "fresh" /\ result' = 0

Next == AddHeader \/ ChangeHeader \/ toggle_checksum
        \/ libnet_write \/ clear_packet

Spec == Init /\ [][Next]_vars

-----------------------------------------------------------------------------
At(type) == {i \in DOMAIN ctx.blocks : ctx.blocks[i].type = type}
IpOf(i)  == {j \in At("IPV4_H") : j >= i}
Spanning == {i \in Summed(ctx) : ctx.blocks[i].type \in Trans \ {"IPSEC_AH_H", "IPSEC_ESP_HDR_H"}}

\* No relinking of libnet_build_ipv4 and libnet_build_tcp drops a block, and
\* total_size, from which the packet is allocated and filled from its end, is
\* the size of what is linked.  Every byte of a block was copied from an
\* argument, and the header from whole fields of its struct: no padding and no
\* stale byte goes on the wire.  However data and options were added, a header
\* has its options right before it and its data before those, and counts their
\* words in ip_hl or th_off.
PacketWellFormed ==
    /\ ctx.lost = <<>> /\ ctx.total_size = Bytes(ctx.blocks)
    /\ \A i \in DOMAIN ctx.blocks : ctx.blocks[i].copied = ctx.blocks[i].b_len /\ ctx.blocks[i].packed
    /\ state # "given up" =>
       \A k \in {IPV4, TCP} : \A i \in At(k.hdr) :
          /\ ctx.blocks[i].hl = 5 + Words(Bytes(SelectSeq(ctx.blocks, LAMBDA b : b.type = k.opt)))
          /\ \A o \in At(k.opt) : o = i - 1
          /\ \A d \in At(k.data) : d < i /\ \A j \in d + 1 .. i - 1 : ctx.blocks[j].type = k.opt

\* The bytes a transport checksum is computed over are exactly the header and
\* all that is inside it, whatever was resized; libnet_pblock_coalesce computes
\* it only once the IPv4 header around the block is in the packet, whose
\* addresses and ip_hl it reads there; and it is stored relative to the place
\* recorded for the IPv4 header, which is right until a block is resized.
Checksums ==
    /\ state # "given up" => \A i \in Spanning : ctx.blocks[i].h_len = Upto(i)
    /\ state # "given up" => \A i \in Spanning : IpOf(i) # {} => CopiedAt(ctx, i) >= Min(IpOf(i))
    /\ state = "fresh" => \A i \in Summed(ctx) : IpOf(i) # {} => ctx.blocks[i].ip_offset = Upto(Min(IpOf(i)))

\* A call that fails to add a header leaves the packet as it was.
FailedCallAddsNothing ==
    [][result' = -1 /\ state' # "given up"
         => ctx'.total_size = ctx.total_size /\ Len(ctx'.blocks) = Len(ctx.blocks)]_vars

\* Where TCP data or options change under an IPv4 header ip_len changes with
\* them.  A change of the options is added to ip_len in network order: this is
\* right only while it does not carry out of the low byte.
TcpBytes(l, types) == Bytes(SelectSeq(l.blocks, LAMBDA b : b.type \in types))
IpLens(l) == {l.blocks[i].len : i \in {j \in DOMAIN l.blocks : l.blocks[j].type = "IPV4_H"}}
IpLenFollowsTcp ==
    [][LET options == TcpBytes(ctx', {"TCPO_H"}) - TcpBytes(ctx, {"TCPO_H"})
           data    == TcpBytes(ctx', {"TCPDATA"}) - TcpBytes(ctx, {"TCPDATA"})
       IN  /\ state' # "given up" /\ ctx'.blocks # <<>> /\ (options # 0 \/ data # 0)
           /\ \A n \in IpLens(ctx) : (n % 256) + options \in 0 .. 255
           => IpLens(ctx') = {(n + options + data) % U16 : n \in IpLens(ctx)}]_vars
=============================================================================
