----------------------------- MODULE LibnetBuild -----------------------------
(***************************************************************************)
(* The packet builders of libnet (libnet_build_*.c).  A builder takes a    *)
(* context and its arguments and returns the new context and a tag, or -1. *)
(*                                                                         *)
(* Of the arguments a the model keeps the ones a size, a flag or an error  *)
(* depends on: ptag, the payload pointer (is it there) and payload_s, the  *)
(* checksum sum, and len, the length a caller writes into a header.        *)
(***************************************************************************)
EXTENDS Pblock, LibnetHeaders

\* The arguments of a call that appends a new header with s bytes of payload.
New(s) == [ptag |-> LIBNET_PTAG_INITIALIZER, payload |-> s > 0, payload_s |-> s,
           sum |-> 0, len |-> 0]

\* What most builders share: the block is the header and its payload.
Layer(type, hdr, a) ==
    [type |-> type, as |-> type, n |-> hdr.size + a.payload_s,
     copies |-> hdr.size + a.payload_s, h |-> 0, sum |-> FALSE,
     packed |-> Packed(hdr)]

\* A builder that asks libnet for the checksum when the caller gives none.
Summing(b, a, h) == [b EXCEPT !.h = h, !.sum = a.sum = 0]

Inconsistent(a) == a.payload # (a.payload_s > 0)

Fail(l) == [l |-> l, r |-> -1]

\* The block of a header with its tag, changed or new; on an error the block
\* is deleted, also the one that was there before the call.
Build(l, a, b) ==
    LET q == libnet_pblock_probe(l, a.ptag, b.n, b.type)
    IN  IF q.p = 0 THEN Fail(l)
        ELSE IF ~CanAppend(q.l, q.p, b.copies) \/ Inconsistent(a)
        THEN Fail(libnet_pblock_delete(q.l, q.p))
        ELSE LET filled == [libnet_pblock_append(q.l, q.p, b.copies) EXCEPT
                                !.blocks[q.p].packed = b.packed]
                 c == IF b.sum THEN libnet_pblock_setflags(filled, q.p) ELSE filled
             IN  IF a.ptag # LIBNET_PTAG_INITIALIZER THEN [l |-> c, r |-> a.ptag]
                 ELSE [l |-> libnet_pblock_update(c, q.p, b.h, b.as), r |-> c.ptag_state + 1]

(***************************************************************************)
(* Link layer                                                              *)
(***************************************************************************)
\* Unless the context is in advanced mode only the link layer takes these.
LinkLayer(l) == l.injection_type \in {"LINK", "LINK_ADV", "RAW4_ADV", "RAW6_ADV"}

\* The link header's length, from which the packet is aligned.
LinkOffset(res) == IF res.r = -1 THEN res ELSE [res EXCEPT !.l.link_offset = @ + 4]

libnet_build_ethernet(l, a) ==
    IF LinkLayer(l) THEN Build(l, a, Layer("ETH_H", libnet_ethernet_hdr, a)) ELSE Fail(l)
libnet_autobuild_ethernet(l, hwaddr) ==
    IF LinkLayer(l) /\ hwaddr THEN Build(l, New(0), Layer("ETH_H", libnet_ethernet_hdr, New(0)))
    ELSE Fail(l)
libnet_build_fddi(l, a) ==
    IF LinkLayer(l) THEN Build(l, a, Layer("FDDI_H", libnet_fddi_hdr, a)) ELSE Fail(l)
libnet_autobuild_fddi(l, hwaddr) ==
    IF LinkLayer(l) /\ hwaddr THEN Build(l, New(0), Layer("FDDI_H", libnet_fddi_hdr, New(0)))
    ELSE Fail(l)
libnet_build_token_ring(l, a) ==
    IF LinkLayer(l) THEN Build(l, a, Layer("TOKEN_RING_H", libnet_token_ring_hdr, a)) ELSE Fail(l)
libnet_autobuild_token_ring(l, hwaddr) ==
    IF LinkLayer(l) /\ hwaddr
    THEN Build(l, New(0), Layer("TOKEN_RING_H", libnet_token_ring_hdr, New(0)))
    ELSE Fail(l)
\* By the type of the device.
libnet_build_link(l, a) ==
    CASE l.link_type = "EN10MB"  -> libnet_build_ethernet(l, a)
      [] l.link_type = "IEEE802" -> libnet_build_token_ring(l, a)
      [] OTHER -> Fail(l)
libnet_autobuild_link(l, hwaddr) ==
    CASE l.link_type = "EN10MB"  -> libnet_autobuild_ethernet(l, hwaddr)
      [] l.link_type = "IEEE802" -> libnet_autobuild_token_ring(l, hwaddr)
      [] OTHER -> Fail(l)
libnet_build_802_1q(l, a) == LinkOffset(Build(l, a, Layer("802_1Q_H", libnet_802_1q_hdr, a)))
libnet_build_mpls(l, a) == LinkOffset(Build(l, a, Layer("MPLS_H", libnet_mpls_hdr, a)))
libnet_build_802_1x(l, a) == Build(l, a, Layer("802_1X_H", libnet_802_1x_hdr, a))
libnet_build_802_2(l, a) == Build(l, a, Layer("802_2_H", libnet_802_2_hdr, a))
libnet_build_802_2snap(l, a) == Build(l, a, Layer("802_2SNAP_H", libnet_802_2snap_hdr, a))
libnet_build_802_3(l, a) == Build(l, a, Layer("802_3_H", libnet_802_3_hdr, a))
\* Always flagged, though no checksum is known for it.
libnet_build_isl(l, a) ==
    Build(l, a, [Layer("ISL_H", libnet_isl_hdr, a) EXCEPT !.sum = TRUE, !.h = 26])
\* The 35 bytes are put together one by one.
libnet_build_stp_conf(l, a) == Build(l, a, Layer("STP_CONF_H", Hdr(35, <<octets(35)>>), a))
libnet_build_stp_tcn(l, a) == Build(l, a, Layer("STP_TCN_H", libnet_stp_tcn_hdr, a))
\* Two hardware addresses of hln bytes and two protocol addresses of pln.
libnet_build_arp(l, a, hln, pln) ==
    LET more == 2 * hln + 2 * pln
    IN  Build(l, a, [Layer("ARP_H", libnet_arp_hdr, a) EXCEPT !.n = @ + more, !.copies = @ + more])
libnet_autobuild_arp(l) ==
    IF l.link_type \in {"EN10MB", "IEEE802"} THEN libnet_build_arp(l, New(0), 6, 4) ELSE Fail(l)
\* a.len is the length of the value that follows the header.
libnet_build_cdp(l, a) ==
    LET n == libnet_cdp_hdr.size + a.len + a.payload_s
    IN  Build(l, a, [Summing(Layer("CDP_H", libnet_cdp_hdr, a), a, n) EXCEPT !.n = n, !.copies = n])
\* Appends to a block that has no room left; of the two pieces the first may
\* be copied before the second is found not to fit.
libnet_build_cdp_value(l, ptag, len) ==
    LET i == libnet_pblock_find(l, ptag)
        value == libnet_cdp_value_hdr.size
    IN  IF i = 0 \/ l.blocks[i].type # "CDP_H" THEN Fail(l)
        ELSE IF ~CanAppend(l, i, value) THEN Fail(l)
        ELSE IF ~CanAppend(l, i, value + len) THEN Fail(libnet_pblock_append(l, i, value))
        ELSE [l |-> libnet_pblock_append(l, i, value + len), r |-> 1]

(***************************************************************************)
(* Network layer                                                           *)
(***************************************************************************)
\* IPv4 and TCP keep their payload and their options in blocks of their own.
IPV4 == [hdr |-> "IPV4_H", opt |-> "IPO_H", data |-> "IPDATA"]
TCP  == [hdr |-> "TCP_H",  opt |-> "TCPO_H", data |-> "TCPDATA"]

Words(bytes) == (bytes + 3) \div 4
Nearest(S) == IF S = {} THEN 0 ELSE Max(S)

\* The data block of the header at i: the nearest one behind it, unless
\* another header of the kind comes first.
DataBlock(l, i, k) ==
    LET j == Nearest({m \in 1 .. i - 1 : l.blocks[m].type \in {k.hdr, k.data}})
    IN  IF j # 0 /\ l.blocks[j].type = k.data THEN j ELSE 0

\* The header at i gets a block for its first payload.  It is appended behind
\* the end: if that is a header of the kind it changes places with the header
\* at i, otherwise it goes to the front of a packet that starts with such a
\* header or its options, and is unlinked from any other.
NewData(l, i, s, k) ==
    LET end == Len(l.blocks)
        at  == end + 1
        d   == [libnet_pblock_update(libnet_pblock_new(l, s), at, s, k.data)
                    EXCEPT !.blocks[at].copied = s]
        h   == [d EXCEPT !.blocks[i].h_len = (@ + s) % U16]
    IN  IF l.blocks[end].type = k.hdr
        THEN LET c == libnet_pblock_swap(d, i, at)
             IN  IF i > 1 /\ c.blocks[i - 1].type = k.opt
                 THEN libnet_pblock_swap(c, i - 1, i) ELSE c
        ELSE IF l.blocks[1].type \in {k.hdr, k.opt} THEN libnet_pblock_insert_before(h)
        ELSE [h EXCEPT !.blocks = Front(@), !.lost = Append(@, s)]

\* Payload of a header that may have had another one, in the block at d.
ChangeData(l, d, s) ==
    LET q == libnet_pblock_probe(l, l.blocks[d].ptag, s, l.blocks[d].type)
    IN  libnet_pblock_append(q.l, d, s)

\* What libnet_build_ipv4 and libnet_build_tcp share: c is the context with the
\* header at p filled, old says that it was there before.
Payload(c, p, old, a, k) ==
    LET d     == IF old THEN DataBlock(c, p, k) ELSE 0
        moved == IF d = 0 THEN c
                 ELSE [c EXCEPT !.blocks[p].h_len = (@ + a.payload_s - c.blocks[d].b_len) % U16]
        tag   == c.blocks[p].ptag
        data  == CASE a.payload_s > 0 /\ d # 0 -> ChangeData(moved, d, a.payload_s)
                   [] a.payload_s > 0 /\ d = 0 -> NewData(moved, p, a.payload_s, k)
                   [] a.payload_s = 0 /\ d # 0 -> libnet_pblock_delete(moved, d)
                   [] OTHER -> moved
    IN  IF Inconsistent(a) THEN Fail(libnet_pblock_delete(moved, p))
        ELSE [l |-> IF a.sum = 0 THEN libnet_pblock_setflags(data, libnet_pblock_find(data, tag))
                    ELSE data,
              r |-> tag]

\* The header at q.p written, with hl words; a new one is given its tag and h.
HeaderWritten(q, a, k, size, hl, h) ==
    LET c == [libnet_pblock_append(q.l, q.p, size) EXCEPT !.blocks[q.p].hl = hl]
    IN  IF a.ptag = LIBNET_PTAG_INITIALIZER THEN libnet_pblock_update(c, q.p, h, k.hdr) ELSE c

\* All checksums behind a new IPv4 header refer to it.
RecordIpOffset(res) ==
    IF res.r = -1 THEN res
    ELSE [res EXCEPT !.l = libnet_pblock_record_ip_offset(@, res.l.total_size)]

libnet_build_ipv4(l, a) ==
    LET q  == libnet_pblock_probe(l, a.ptag, libnet_ipv4_hdr.size, "IPV4_H")
        hl == 5 + (IF q.p > 1 /\ q.l.blocks[q.p - 1].type = "IPO_H"
                   THEN Words(q.l.blocks[q.p - 1].b_len) ELSE 0)
        c  == [HeaderWritten(q, a, IPV4, 20, hl, 20) EXCEPT !.blocks[q.p].len = a.len]
    IN  IF a.len + a.payload_s > 65535 \/ q.p = 0 THEN Fail(l)
        ELSE RecordIpOffset(Payload(c, q.p, a.ptag # LIBNET_PTAG_INITIALIZER, a, IPV4))

\* src is whether the device has an address.
libnet_autobuild_ipv4(l, len, src) ==
    IF src THEN libnet_build_ipv4(l, [New(0) EXCEPT !.len = len]) ELSE Fail(l)

\* Options are padded to whole words.
Padded(s) == 4 * Words(s)

\* The first block of a type at i or further out; failing that the last one.
FromOn(l, i, type) ==
    LET at == {m \in i .. Len(l.blocks) : l.blocks[m].type = type}
    IN  IF at = {} THEN Len(l.blocks) ELSE Min(at)

\* A fault: only the span.
FixHeader_span(l, p, k, grown) ==
    LET i == FromOn(l, p + 1, k.hdr)
    IN  IF p = Len(l.blocks) \/ l.blocks[i].type # k.hdr THEN l
        ELSE [l EXCEPT !.blocks[i].h_len = (@ + grown) % U16]

\* The header of the options at p: its length in words, and its span.
FixHeader(l, p, k, grown) ==
    LET i == FromOn(l, p + 1, k.hdr)
    IN  IF p = Len(l.blocks) \/ l.blocks[i].type # k.hdr THEN l
        ELSE [l EXCEPT !.blocks[i].hl = Words(l.blocks[p].b_len) + 5,
                       !.blocks[i].h_len = (@ + grown) % U16]

\* The two bytes of a 16 bit number change places.
htons(n) == (n % 256) * 256 + ((n \div 256) % 256)

\* The difference is added to the number in network order without conversion.
AddToIpLen_host(l, i, grown) == [l EXCEPT !.blocks[i].len = htons((htons(@) + grown) % U16)]

\* ip_len is kept in network order and the difference is added to it as it is.
AddToIpLen(l, i, grown) ==
    LET step == htons(IF grown < 0 THEN -grown ELSE grown)
    IN  [l EXCEPT !.blocks[i].len =
            htons((htons(@) + (IF grown < 0 THEN -step ELSE step)) % U16)]

\* What a rebuild does to the headers further out: TCP's options also
\* change the length of the IPv4 header.
FixHeaders(l, p, k, grown) ==
    LET f == FixHeader(l, p, k, grown)
        i == FromOn(l, FromOn(l, p + 1, k.hdr), "IPV4_H")
    IN  IF k = TCP /\ p < Len(l.blocks) /\ l.blocks[i].type = "IPV4_H"
        THEN AddToIpLen(f, i, grown) ELSE f

\* Options are at most LIBNET_MAXOPTION_SIZE bytes.
BuildOptions(l, ptag, s, k) ==
    LET q     == libnet_pblock_probe(l, ptag, Padded(s), k.opt)
        c     == libnet_pblock_append(q.l, q.p, Padded(s))
        grown == Padded(s) - l.blocks[q.p].b_len
    IN  IF s > 40 \/ q.p = 0 THEN Fail(l)
        ELSE IF ptag = LIBNET_PTAG_INITIALIZER
        THEN [l |-> libnet_pblock_update(c, q.p, Padded(s), k.opt), r |-> c.ptag_state + 1]
        ELSE [l |-> FixHeaders(c, q.p, k, grown), r |-> ptag]

libnet_build_ipv4_options(l, ptag, options_s) == BuildOptions(l, ptag, options_s, IPV4)
libnet_build_tcp_options(l, ptag, options_s) == BuildOptions(l, ptag, options_s, TCP)

IP_MAXPACKET == 65535
Ipv6(l, a, b) == IF b.n > IP_MAXPACKET THEN Fail(l) ELSE Build(l, a, b)
libnet_build_ipv6(l, a) ==
    Ipv6(l, a, [Layer("IPV6_H", libnet_ipv6_hdr, a) EXCEPT !.h = 40])
libnet_build_ipv6_frag(l, a) == Ipv6(l, a, Layer("IPV6_FRAG_H", libnet_ipv6_frag_hdr, a))
libnet_build_ipv6_routing(l, a) == Ipv6(l, a, Layer("IPV6_ROUTING_H", libnet_ipv6_routing_hdr, a))
libnet_build_ipv6_destopts(l, a) ==
    Ipv6(l, a, Layer("IPV6_DESTOPTS_H", libnet_ipv6_destopts_hdr, a))
libnet_build_ipv6_hbhopts(l, a) == Ipv6(l, a, Layer("IPV6_HBHOPTS_H", libnet_ipv6_hbhopts_hdr, a))
\* Not implemented.
libnet_autobuild_ipv6(l) == Fail(l)
libnet_build_ipsec_esp_hdr(l, a) == Build(l, a, Layer("IPSEC_ESP_HDR_H", libnet_esp_hdr, a))
libnet_build_ipsec_esp_ftr(l, a) == Build(l, a, Layer("IPSEC_ESP_FTR_H", libnet_esp_ftr, a))
libnet_build_ipsec_ah(l, a) == Build(l, a, Layer("IPSEC_AH_H", libnet_ah_hdr, a))

(***************************************************************************)
(* Transport and application layers                                        *)
(***************************************************************************)
libnet_build_tcp(l, a) ==
    LET q    == libnet_pblock_probe(l, a.ptag, libnet_tcp_hdr.size, "TCP_H")
        old  == a.ptag # LIBNET_PTAG_INITIALIZER
        opt  == Nearest({m \in 1 .. q.p - 1 : q.l.blocks[m].type = "TCPO_H"})
        hl   == 5 + (IF opt # 0 THEN Words(q.l.blocks[opt].b_len) ELSE 0)
        c    == HeaderWritten(q, a, TCP, 20, hl, a.len)
        d    == DataBlock(c, q.p, TCP)
        more == a.payload_s - (IF d = 0 THEN 0 ELSE c.blocks[d].b_len)
        i    == FromOn(c, q.p + 1, "IPV4_H")
        longer == IF old /\ q.p < Len(c.blocks) /\ c.blocks[i].type = "IPV4_H"
                  THEN [c EXCEPT !.blocks[i].len = (@ + more) % U16] ELSE c
    IN  IF q.p = 0 THEN Fail(l) ELSE Payload(longer, q.p, old, a, TCP)

libnet_build_udp(l, a) == Build(l, a, Summing(Layer("UDP_H", libnet_udp_hdr, a), a, a.len))
IcmpQuery(l, a, type, size) ==
    Build(l, a, Summing(Layer(type, libnet_icmpv4_hdr(size), a), a, size + a.payload_s))
libnet_build_icmpv4_echo(l, a) == IcmpQuery(l, a, "ICMPV4_ECHO_H", 8)
libnet_build_icmpv4_mask(l, a) == IcmpQuery(l, a, "ICMPV4_MASK_H", 12)
libnet_build_icmpv4_timestamp(l, a) == IcmpQuery(l, a, "ICMPV4_TS_H", 20)
\* An error message quotes the packet that is already in the context.
IcmpError(l, a, type) ==
    Summing(Layer(type, libnet_icmpv4_hdr(8), a), a, 8 + a.payload_s + l.total_size)
libnet_build_icmpv4_unreach(l, a) == Build(l, a, IcmpError(l, a, "ICMPV4_UNREACH_H"))
\* These two make no room for a payload.
libnet_build_icmpv4_timeexceed(l, a) ==
    Build(l, a, [IcmpError(l, a, "ICMPV4_TIMXCEED_H") EXCEPT !.n = 8])
libnet_build_icmpv4_redirect(l, a) ==
    Build(l, a, [IcmpError(l, a, "ICMPV4_REDIRECT_H") EXCEPT !.n = 8])
libnet_build_igmp(l, a) == Build(l, a, Summing(Layer("IGMP_H", libnet_igmp_hdr, a), a, 8))
libnet_build_vrrp(l, a) ==
    Build(l, a, Summing(Layer("VRRP_H", libnet_vrrp_hdr, a), a, 8 + a.payload_s))

\* The optional fields of a GRE header, by version.
libnet_getgre_length(version, fv) ==
    4 + (IF version = 1 \/ fv \cap {"CSUM", "ROUTING"} # {} THEN 4 ELSE 0)
      + (IF (IF version = 0 THEN "KEY" ELSE "SEQ") \in fv THEN 4 ELSE 0)
      + (IF (IF version = 0 THEN "SEQ" ELSE "ACK") \in fv THEN 4 ELSE 0)
libnet_build_gre(l, a, version, fv) ==
    LET n == libnet_getgre_length(version, fv) + a.payload_s
    IN  Build(l, a, [Layer("GRE_H", libnet_gre_hdr, a) EXCEPT
                        !.n = n, !.copies = n, !.h = a.len, !.sum = "CSUM" \in fv /\ a.sum = 0])
libnet_build_egre(l, a, version, fv) == libnet_build_gre(l, a, version, fv)
\* a.len bytes of routing information.
libnet_build_gre_sre(l, a) ==
    Build(l, a, [Layer("GRE_SRE_H", libnet_gre_sre_hdr, a) EXCEPT
                    !.n = @ + a.len, !.copies = @ + a.len])
\* The block looked for is not of the type the new block is given.
libnet_build_gre_last_sre(l, ptag) ==
    Build(l, [New(0) EXCEPT !.ptag = ptag],
          [Layer("GRE_H", Hdr(4, <<u32>>), New(0)) EXCEPT !.as = "GRE_SRE_H"])

libnet_build_bgp4_header(l, a) == Build(l, a, Layer("BGP4_HEADER_H", libnet_bgp4_header_hdr, a))
\* Every field is appended by itself.
libnet_build_bgp4_open(l, a) ==
    Build(l, a, [Layer("BGP4_OPEN_H", libnet_bgp4_open_hdr, a) EXCEPT !.packed = TRUE])
\* Three lists of the given lengths, each with a pointer that may be missing.
libnet_build_bgp4_update(l, a, lens, given) ==
    LET sum(S) == FoldFunctionOnSet(LAMBDA x, y : x + y, 0, lens, S)
    IN  Build(l, a, [Layer("BGP4_UPDATE_H", Hdr(4, <<u16, u16>>), a) EXCEPT
                        !.n = @ + sum(DOMAIN lens), !.copies = @ + sum(given)])
libnet_build_bgp4_notification(l, a) ==
    Build(l, a, Layer("BGP4_NOTIFICATION_H", libnet_bgp4_notification_hdr, a))
libnet_build_data(l, a) == Build(l, a, Layer("DATA_H", Hdr(0, <<>>), a))
libnet_build_dhcpv4(l, a) == Build(l, a, Layer("DHCPV4_H", libnet_dhcpv4_hdr, a))
libnet_build_bootpv4(l, a) == libnet_build_dhcpv4(l, a)
\* Over UDP (12 bytes) the length field at the front of the struct is skipped.
libnet_build_dnsv4(l, a, h_len) ==
    IF h_len \notin {12, 14} THEN Fail(l)
    ELSE Build(l, a, Layer("DNSV4_H",
                           Hdr(h_len, SubSeq(libnet_dnsv4_hdr.fields, 8 - (h_len \div 2), 7)), a))
libnet_build_ntp(l, a) == Build(l, a, Layer("NTP_H", libnet_ntp_hdr, a))
libnet_build_rip(l, a) == Build(l, a, Layer("RIP_H", libnet_rip_hdr, a))
\* With a record mark (TCP) or without.
libnet_build_rpc_call(l, a, rm) ==
    Build(l, a, Layer("RPC_CALL_H", IF rm THEN libnet_rpc_call_tcp_hdr ELSE libnet_rpc_call_hdr, a))
libnet_build_sebek(l, a) == Build(l, a, Layer("SEBEK_H", libnet_sebek_hdr, a))
\* Not implemented.
libnet_build_snmp(l) == Fail(l)
libnet_build_ospfv2(l, a) ==
    Build(l, a, Summing(Layer("OSPF_H", libnet_ospf_hdr, a), a, 16 + a.payload_s + a.len))
libnet_build_ospfv2_hello(l, a) == Build(l, a, Layer("OSPF_HELLO_H", libnet_ospf_hello_hdr, a))
libnet_build_ospfv2_dbd(l, a) == Build(l, a, Layer("OSPF_DBD_H", libnet_dbd_hdr, a))
libnet_build_ospfv2_lsr(l, a) == Build(l, a, Layer("OSPF_LSR_H", libnet_lsr_hdr, a))
libnet_build_ospfv2_lsu(l, a) == Build(l, a, Layer("OSPF_LSU_H", libnet_lsu_hdr, a))
libnet_build_ospfv2_lsa(l, a) ==
    Build(l, a, Summing(Layer("OSPF_LSA_H", libnet_lsa_hdr, a), a, a.len + a.payload_s))
libnet_build_ospfv2_lsa_rtr(l, a) == Build(l, a, Layer("LS_RTR_H", libnet_rtr_lsa_hdr, a))
libnet_build_ospfv2_lsa_net(l, a) == Build(l, a, Layer("LS_NET_H", libnet_net_lsa_hdr, a))
libnet_build_ospfv2_lsa_sum(l, a) == Build(l, a, Layer("LS_SUM_H", libnet_sum_lsa_hdr, a))
libnet_build_ospfv2_lsa_as(l, a) == Build(l, a, Layer("LS_AS_EXT_H", libnet_as_lsa_hdr, a))

(***************************************************************************)
(* A call as data: the builder's name, its arguments, and under x what     *)
(* only some builders take.                                                *)
(***************************************************************************)
Call(l, c) ==
    CASE c.op = "arp" -> libnet_build_arp(l, c.a, c.x[1], c.x[2])
      [] c.op = "autobuild_arp" -> libnet_autobuild_arp(l)
      [] c.op = "autobuild_ethernet" -> libnet_autobuild_ethernet(l, c.x)
      [] c.op = "autobuild_fddi" -> libnet_autobuild_fddi(l, c.x)
      [] c.op = "autobuild_token_ring" -> libnet_autobuild_token_ring(l, c.x)
      [] c.op = "autobuild_link" -> libnet_autobuild_link(l, c.x)
      [] c.op = "autobuild_ipv4" -> libnet_autobuild_ipv4(l, c.a.len, c.x)
      [] c.op = "autobuild_ipv6" -> libnet_autobuild_ipv6(l)
      [] c.op = "ipv4_options" -> libnet_build_ipv4_options(l, c.a.ptag, c.x)
      [] c.op = "tcp_options" -> libnet_build_tcp_options(l, c.a.ptag, c.x)
      [] c.op = "cdp_value" -> libnet_build_cdp_value(l, c.a.ptag, c.x)
      [] c.op = "gre" -> libnet_build_gre(l, c.a, c.x[1], c.x[2])
      [] c.op = "egre" -> libnet_build_egre(l, c.a, c.x[1], c.x[2])
      [] c.op = "gre_last_sre" -> libnet_build_gre_last_sre(l, c.a.ptag)
      [] c.op = "bgp4_update" -> libnet_build_bgp4_update(l, c.a, c.x[1], c.x[2])
      [] c.op = "dnsv4" -> libnet_build_dnsv4(l, c.a, c.x)
      [] c.op = "rpc_call" -> libnet_build_rpc_call(l, c.a, c.x)
      [] c.op = "snmp" -> libnet_build_snmp(l)
      [] c.op = "toggle_checksum" -> [l |-> libnet_toggle_checksum(l, c.a.ptag, c.x),
                                      r |-> IF libnet_pblock_find(l, c.a.ptag) = 0 THEN -1 ELSE 1]
      [] c.op = "802_1q" -> libnet_build_802_1q(l, c.a)
      [] c.op = "mpls" -> libnet_build_mpls(l, c.a)
      [] c.op = "802_1x" -> libnet_build_802_1x(l, c.a)
      [] c.op = "802_2" -> libnet_build_802_2(l, c.a)
      [] c.op = "802_2snap" -> libnet_build_802_2snap(l, c.a)
      [] c.op = "802_3" -> libnet_build_802_3(l, c.a)
      [] c.op = "isl" -> libnet_build_isl(l, c.a)
      [] c.op = "stp_conf" -> libnet_build_stp_conf(l, c.a)
      [] c.op = "stp_tcn" -> libnet_build_stp_tcn(l, c.a)
      [] c.op = "cdp" -> libnet_build_cdp(l, c.a)
      [] c.op = "ethernet" -> libnet_build_ethernet(l, c.a)
      [] c.op = "fddi" -> libnet_build_fddi(l, c.a)
      [] c.op = "token_ring" -> libnet_build_token_ring(l, c.a)
      [] c.op = "link" -> libnet_build_link(l, c.a)
      [] c.op = "ipv4" -> libnet_build_ipv4(l, c.a)
      [] c.op = "ipv6" -> libnet_build_ipv6(l, c.a)
      [] c.op = "ipv6_frag" -> libnet_build_ipv6_frag(l, c.a)
      [] c.op = "ipv6_routing" -> libnet_build_ipv6_routing(l, c.a)
      [] c.op = "ipv6_destopts" -> libnet_build_ipv6_destopts(l, c.a)
      [] c.op = "ipv6_hbhopts" -> libnet_build_ipv6_hbhopts(l, c.a)
      [] c.op = "ipsec_esp_hdr" -> libnet_build_ipsec_esp_hdr(l, c.a)
      [] c.op = "ipsec_esp_ftr" -> libnet_build_ipsec_esp_ftr(l, c.a)
      [] c.op = "ipsec_ah" -> libnet_build_ipsec_ah(l, c.a)
      [] c.op = "tcp" -> libnet_build_tcp(l, c.a)
      [] c.op = "udp" -> libnet_build_udp(l, c.a)
      [] c.op = "icmpv4_echo" -> libnet_build_icmpv4_echo(l, c.a)
      [] c.op = "icmpv4_mask" -> libnet_build_icmpv4_mask(l, c.a)
      [] c.op = "icmpv4_timestamp" -> libnet_build_icmpv4_timestamp(l, c.a)
      [] c.op = "icmpv4_unreach" -> libnet_build_icmpv4_unreach(l, c.a)
      [] c.op = "icmpv4_timeexceed" -> libnet_build_icmpv4_timeexceed(l, c.a)
      [] c.op = "icmpv4_redirect" -> libnet_build_icmpv4_redirect(l, c.a)
      [] c.op = "igmp" -> libnet_build_igmp(l, c.a)
      [] c.op = "vrrp" -> libnet_build_vrrp(l, c.a)
      [] c.op = "gre_sre" -> libnet_build_gre_sre(l, c.a)
      [] c.op = "bgp4_header" -> libnet_build_bgp4_header(l, c.a)
      [] c.op = "bgp4_open" -> libnet_build_bgp4_open(l, c.a)
      [] c.op = "bgp4_notification" -> libnet_build_bgp4_notification(l, c.a)
      [] c.op = "data" -> libnet_build_data(l, c.a)
      [] c.op = "dhcpv4" -> libnet_build_dhcpv4(l, c.a)
      [] c.op = "bootpv4" -> libnet_build_bootpv4(l, c.a)
      [] c.op = "ntp" -> libnet_build_ntp(l, c.a)
      [] c.op = "rip" -> libnet_build_rip(l, c.a)
      [] c.op = "sebek" -> libnet_build_sebek(l, c.a)
      [] c.op = "ospfv2" -> libnet_build_ospfv2(l, c.a)
      [] c.op = "ospfv2_hello" -> libnet_build_ospfv2_hello(l, c.a)
      [] c.op = "ospfv2_dbd" -> libnet_build_ospfv2_dbd(l, c.a)
      [] c.op = "ospfv2_lsr" -> libnet_build_ospfv2_lsr(l, c.a)
      [] c.op = "ospfv2_lsu" -> libnet_build_ospfv2_lsu(l, c.a)
      [] c.op = "ospfv2_lsa" -> libnet_build_ospfv2_lsa(l, c.a)
      [] c.op = "ospfv2_lsa_rtr" -> libnet_build_ospfv2_lsa_rtr(l, c.a)
      [] c.op = "ospfv2_lsa_net" -> libnet_build_ospfv2_lsa_net(l, c.a)
      [] c.op = "ospfv2_lsa_sum" -> libnet_build_ospfv2_lsa_sum(l, c.a)
      [] c.op = "ospfv2_lsa_as" -> libnet_build_ospfv2_lsa_as(l, c.a)
=============================================================================
