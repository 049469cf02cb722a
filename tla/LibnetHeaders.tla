---------------------------- MODULE LibnetHeaders ----------------------------
(***************************************************************************)
(* The protocol headers of libnet-headers.h.  A builder fills a C struct   *)
(* and copies its first LIBNET_..._H bytes into the packet, so the struct  *)
(* must have that many bytes and no padding among them.  A header is the   *)
(* sequence of its fields, a field the pair of its size and its alignment; *)
(* bit fields of one byte are one field.                                   *)
(***************************************************************************)
EXTENDS Integers, Sequences, SequencesExt

u8  == <<1, 1>>
u16 == <<2, 2>>
u32 == <<4, 4>>
pointer   == <<8, 8>>
octets(n) == <<n, 1>>

\* Where the next field goes after `end' bytes.
Aligned(end, field) == ((end + field[2] - 1) \div field[2]) * field[2]

\* <<bytes used, bytes of them that are padding>> after each field in turn.
Extent(fields) ==
    FoldLeft(LAMBDA e, f : Append(e, LET at == Aligned(Last(e)[1], f)
                                     IN  <<at + f[1], Last(e)[2] + at - Last(e)[1]>>),
             <<<<0, 0>>>>, fields)

\* A header: the LIBNET_..._H constant that is copied, and the struct it is
\* copied from.
Hdr(size, fields) == [size |-> size, fields |-> fields]

\* The bytes copied are whole fields of the struct and nothing else.
Packed(hdr) == \E i \in DOMAIN Extent(hdr.fields) : Extent(hdr.fields)[i] = <<hdr.size, 0>>

libnet_802_1q_hdr == Hdr(18, <<octets(6), octets(6), u16, u16, u16>>)
libnet_802_1x_hdr == Hdr(4, <<u8, u8, u16>>)
libnet_802_2_hdr == Hdr(3, <<u8, u8, u8>>)
libnet_802_2snap_hdr == Hdr(8, <<u8, u8, u8, octets(3), u16>>)
libnet_802_3_hdr == Hdr(14, <<octets(6), octets(6), u16>>)
libnet_arp_hdr == Hdr(8, <<u16, u16, u8, u8, u16>>)
libnet_bgp4_header_hdr == Hdr(19, <<octets(16), u16, u8>>)
libnet_bgp4_open_hdr == Hdr(10, <<u8, u16, u16, u32, u8>>)
libnet_bgp4_notification_hdr == Hdr(2, <<u8, u8>>)
libnet_cdp_hdr == Hdr(8, <<u8, u8, u16, u16, u16>>)
libnet_cdp_value_hdr == Hdr(8, <<u16, u16>>)
libnet_dhcpv4_hdr == Hdr(240, <<u8, u8, u8, u8, u32, u16, u16, u32, u32, u32, u32, octets(16), octets(64), octets(128), u32>>)
libnet_dnsv4_hdr == Hdr(14, <<u16, u16, u16, u16, u16, u16, u16>>)
libnet_ethernet_hdr == Hdr(14, <<octets(6), octets(6), u16>>)
libnet_fddi_hdr == Hdr(21, <<u8, octets(6), octets(6), u8, u8, u8, octets(3), u8, u8>>)
libnet_gre_hdr == Hdr(4, <<u16, u16, u16, u16, u32, u32>>)
libnet_gre_sre_hdr == Hdr(4, <<u16, u8, u8, pointer>>)
libnet_ipv4_hdr == Hdr(20, <<u8, u8, u16, u16, u16, u8, u8, u16, u32, u32>>)
libnet_in6_addr == <<16, 4>>
libnet_ipv6_hdr == Hdr(40, <<octets(4), u16, u8, u8, libnet_in6_addr, libnet_in6_addr>>)
libnet_ipv6_frag_hdr == Hdr(8, <<u8, u8, u16, u32>>)
libnet_ipv6_routing_hdr == Hdr(4, <<u8, u8, u8, u8>>)
libnet_ipv6_destopts_hdr == Hdr(2, <<u8, u8>>)
libnet_ipv6_hbhopts_hdr == Hdr(2, <<u8, u8>>)
libnet_icmpv4_hdr(size) == Hdr(size, <<u8, u8, u16, u16, u16, u32, u32, u32>>)
libnet_igmp_hdr == Hdr(8, <<u8, u8, u16, u32>>)
libnet_esp_hdr == Hdr(12, <<u32, u32, u32>>)
libnet_esp_ftr == Hdr(2, <<u8, u8, pointer>>)
libnet_ah_hdr == Hdr(16, <<u8, u8, u16, u32, u32, u32>>)
libnet_isl_hdr == Hdr(26, <<octets(5), u8, octets(6), u16, octets(6), u16, u16, u16>>)
libnet_mpls_hdr == Hdr(4, <<u32>>)
libnet_ntp_hdr == Hdr(48, <<u8, u8, u8, u8, u16, u16, u16, u16, u32, u32, u32, u32, u32, u32, u32, u32, u32>>)
libnet_ospf_hdr == Hdr(16, <<u8, u8, u16, u32, u32, u16, u16>>)
libnet_ospf_hello_hdr == Hdr(24, <<u32, u16, u8, u8, u32, u32, u32, u32>>)
libnet_dbd_hdr == Hdr(8, <<u16, u8, u8, u32>>)
libnet_lsr_hdr == Hdr(12, <<u32, u32, u32>>)
libnet_lsu_hdr == Hdr(4, <<u32>>)
libnet_lsa_hdr == Hdr(20, <<u16, u8, u8, u32, u32, u32, u16, u16>>)
libnet_rtr_lsa_hdr == Hdr(16, <<u16, u16, u32, u32, u8, u8, u16>>)
libnet_net_lsa_hdr == Hdr(8, <<u32, u32>>)
libnet_sum_lsa_hdr == Hdr(12, <<u32, u32, u32>>)
libnet_as_lsa_hdr == Hdr(16, <<u32, u32, u32, u32>>)
libnet_rip_hdr == Hdr(24, <<u8, u8, u16, u16, u16, u32, u32, u32, u32>>)
libnet_rpc_call_hdr == Hdr(40, <<u32, u32, u32, u32, u32, u32, u32, u32, u32, u32>>)
libnet_rpc_call_tcp_hdr == Hdr(44, <<u32>> \o libnet_rpc_call_hdr.fields)
libnet_stp_tcn_hdr == Hdr(4, <<u16, u8, u8>>)
libnet_tcp_hdr == Hdr(20, <<u16, u16, u32, u32, u8, u8, u16, u16, u16>>)
libnet_token_ring_hdr == Hdr(22, <<u8, u8, octets(6), octets(6), u8, u8, u8, octets(3), u16>>)
libnet_udp_hdr == Hdr(8, <<u16, u16, u16, u16>>)
libnet_sebek_hdr == Hdr(48, <<u32, u16, u16, u32, u32, u32, u32, u32, u32, octets(12), u32>>)
libnet_vrrp_hdr == Hdr(8, <<u8, u8, u8, u8, u8, u8, u16>>)
=============================================================================
