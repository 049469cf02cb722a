--------------------------- MODULE BpfPrimitives ---------------------------
(***************************************************************************)
(* The primitives of the filter language (gencode.c): hosts, networks,     *)
(* ports, protocols, arithmetic on the packet, and the tests that move the *)
(* offsets for the rest of the expression (VLAN, MPLS, PPPoE).             *)
(*                                                                         *)
(* A primitive that changes the compiler's globals, or takes a scratch     *)
(* word, returns a pair [b, g]; the others return their tree only.  The    *)
(* build has IPv6 and not PF.  What a name stands for is looked up in the  *)
(* tables of the host and comes with the name.                             *)
(***************************************************************************)
EXTENDS BpfLinkTests

Is(b, g) == [b |-> b, g |-> g]
none == [op |-> "none"]
Linktype(g, proto) == [op |-> "linktype", g |-> g, proto |-> proto]
Proto(g, v, proto, dir) == [op |-> "proto", g |-> g, v |-> v, proto |-> proto, dir |-> dir]

-----------------------------------------------------------------------------
\* Hosts.
gen_hostop(g, addr, mask, dir, proto, src_off, dst_off) ==
    LET at(off) == And(Linktype(g, proto), gen_mcmp(g, "OR_NET", off, 4, addr, mask))
    IN  IF dir \in {"src", "dst", "and", "or", "default"} THEN Directed(dir, at(src_off), at(dst_off)) ELSE abort

gen_hostop6(g, addr, mask, dir, proto, src_off, dst_off) ==
    LET word(off, n) == gen_mcmp(g, "OR_NET", off + 4 * (n - 1), 4, addr[n], mask[n])
        at(off) == And(Linktype(g, proto),
                       And(word(off, 1), And(word(off, 2), And(word(off, 3), word(off, 4)))))
    IN  IF dir \in {"src", "dst", "and", "or", "default"} THEN Directed(dir, at(src_off), at(dst_off)) ELSE abort

\* DECnet: long and short headers, each padded or not.
Swapped(h) == (h % 256) * 256 + h \div 256
gen_dnhostop(g, addr, dir) ==
    LET is(size, v, mask, off) == And(gen_mcmp(g, "OR_NET", 2, size, v, mask),
                                      gen_cmp(g, "OR_NET", off, 2, Swapped(addr % 65536)))
        at(sh, lh) == And(Linktype(g, ETHERTYPE.DN),
                          Or(is(1, 2, 7, 2 + sh),
                             Or(is(2, 33026, 65287, 3 + sh),
                                Or(is(1, 6, 7, 2 + lh), is(2, 33030, 65287, 3 + lh)))))
    IN  CASE dir \in {"src", "dst", "and", "or", "default"} -> Directed(dir, at(3, 15), at(1, 7))
          [] OTHER -> abort

\* The parts of IS-IS are no qualifiers.
IsisNames == {"l1", "l2", "iih", "lsp", "snp", "csnp", "psnp"}

gen_host(g, addr, mask, proto, dir) ==
    LET ip   == gen_hostop(g, addr, mask, dir, ETHERTYPE.IP, 12, 16)
        rarp == gen_hostop(g, addr, mask, dir, ETHERTYPE.REVARP, 14, 24)
        arp  == gen_hostop(g, addr, mask, dir, ETHERTYPE.ARP, 14, 24)
    IN  CASE proto = "default" -> IF g.label_stack_depth = 0 THEN Or(Or(ip, arp), rarp) ELSE ip
          [] proto = "ip" -> ip
          [] proto = "rarp" -> rarp
          [] proto = "arp" -> arp
          [] proto = "decnet" -> gen_dnhostop(g, addr, dir)
          [] proto \in IsisNames \cup {"link"} -> abort
          [] OTHER -> bpf_error

gen_host6(g, addr, mask, proto, dir) ==
    CASE proto \in {"default", "ip6"} -> gen_hostop6(g, addr, mask, dir, ETHERTYPE.IPV6, 8, 24)
      [] proto \in IsisNames -> abort
      [] OTHER -> bpf_error

-----------------------------------------------------------------------------
\* Protocols.
gen_proto(g, v, proto, dir) ==
    LET ip4 == And(Linktype(g, ETHERTYPE.IP), gen_cmp(g, "OR_NET", 9, 1, v))
        ip6 == And(Linktype(g, ETHERTYPE.IPV6),
                   Or(gen_cmp(g, "OR_NET", 6, 1, v),
                      And(gen_cmp(g, "OR_NET", 6, 1, 44), gen_cmp(g, "OR_NET", 40, 1, v))))
        iso(w) == CASE g.linktype = "FRELAY" -> gen_cmp(g, "OR_LINK", 2, 2, 768 + w)
                    [] g.linktype = "C_HDLC" -> And(Linktype(g, LLCSAP.ISONS * 256 + LLCSAP.ISONS),
                                                    gen_cmp(g, "OR_NET_NOSNAP", 1, 1, w))
                    [] OTHER -> And(Linktype(g, LLCSAP.ISONS), gen_cmp(g, "OR_NET_NOSNAP", 0, 1, w))
    IN  CASE dir # "default" -> bpf_error
          [] proto = "default" -> Or(ip4, ip6)
          [] proto = "ip" -> ip4
          [] proto = "ip6" -> ip6
          [] proto = "iso" -> iso(v)
          [] proto = "isis" -> And(iso(131), gen_cmp(g, "OR_NET_NOSNAP", 4, 1, v))
          [] proto = "link" -> Linktype(g, v)
          [] proto \in IsisNames \cup {"esis", "clnp"} -> abort
          [] OTHER -> bpf_error

IPPROTO == [ICMP |-> 1, IGMP |-> 2, TCP |-> 6, IGRP |-> 9, UDP |-> 17, ESP |-> 50, AH |-> 51, ICMPV6 |-> 58,
            PIM |-> 103, VRRP |-> 112, CARP |-> 112, SCTP |-> 132]
PROTO_UNDEF == -1

BothIp == [sctp |-> IPPROTO.SCTP, tcp |-> IPPROTO.TCP, udp |-> IPPROTO.UDP, pim |-> IPPROTO.PIM, ah |-> IPPROTO.AH,
           esp |-> IPPROTO.ESP]
OnlyIp4 == [icmp |-> IPPROTO.ICMP, igmp |-> IPPROTO.IGMP, igrp |-> IPPROTO.IGRP, vrrp |-> IPPROTO.VRRP,
            carp |-> IPPROTO.CARP]
LinkProto == [ip |-> ETHERTYPE.IP, arp |-> ETHERTYPE.ARP, rarp |-> ETHERTYPE.REVARP, atalk |-> ETHERTYPE.ATALK,
              aarp |-> ETHERTYPE.AARP, decnet |-> ETHERTYPE.DN, sca |-> ETHERTYPE.SCA, lat |-> ETHERTYPE.LAT,
              mopdl |-> ETHERTYPE.MOPDL, moprc |-> ETHERTYPE.MOPRC, ip6 |-> ETHERTYPE.IPV6, iso |-> LLCSAP.ISONS,
              stp |-> LLCSAP.8021D, ipx |-> LLCSAP.IPX, netbeui |-> LLCSAP.NETBEUI]
IsoProto == [clnp |-> 129, esis |-> 130, isis |-> 131]
\* The packets of IS-IS, in the order in which the blocks are chained.
IsisTypes == [l1 |-> <<26, 24, 18, 15, 17>>, l2 |-> <<27, 25, 20, 16, 17>>, iih |-> <<17, 15, 16>>, lsp |-> <<18, 20>>,
              snp |-> <<27, 26, 24, 25>>, csnp |-> <<24, 25>>, psnp |-> <<26, 27>>]

RECURSIVE AnyOf(_)
AnyOf(bs) == IF Len(bs) = 1 THEN Head(bs) ELSE Or(Head(bs), AnyOf(Tail(bs)))

gen_proto_abbrev(g, proto) ==
    CASE proto \in DOMAIN BothIp ->
           Or(Proto(g, BothIp[proto], "ip6", "default"), Proto(g, BothIp[proto], "ip", "default"))
      [] proto \in DOMAIN OnlyIp4 -> Proto(g, OnlyIp4[proto], "ip", "default")
      [] proto = "icmp6" -> Proto(g, IPPROTO.ICMPV6, "ip6", "default")
      [] proto \in DOMAIN LinkProto -> Linktype(g, LinkProto[proto])
      [] proto \in DOMAIN IsoProto -> Proto(g, IsoProto[proto], "iso", "default")
      [] proto \in DOMAIN IsisTypes ->
           AnyOf([n \in DOMAIN IsisTypes[proto] |-> Proto(g, IsisTypes[proto][n], "isis", "default")])
      [] proto \in {"link", "radio"} -> bpf_error
      [] OTHER -> abort

-----------------------------------------------------------------------------
\* Ports.
\* A mistake: the flag of further fragments is taken for a part of the offset.
gen_ipfrag_more(g) == Not(gen_ncmp(g, "OR_NET", 6, 2, -1, "JSET", FALSE, 16383))
gen_ipfrag(g) == Not(gen_ncmp(g, "OR_NET", 6, 2, -1, "JSET", FALSE, 8191))

gen_portatom(g, off, v) == gen_cmp(g, "OR_TRAN_IPV4", off, 2, v)
gen_portatom6(g, off, v) == gen_cmp(g, "OR_TRAN_IPV6", off, 2, v)
RangeAtom(g, tran, off, v1, v2) ==
    LET low == IF v1 > v2 THEN v2 ELSE v1  high == IF v1 > v2 THEN v1 ELSE v2
    IN  And(gen_cmp_ge(g, tran, off, 2, low), gen_cmp_le(g, tran, off, 2, high))
gen_portrangeatom(g, off, v1, v2) == RangeAtom(g, "OR_TRAN_IPV4", off, v1, v2)
gen_portrangeatom6(g, off, v1, v2) == RangeAtom(g, "OR_TRAN_IPV6", off, v1, v2)

PortDirected(dir, src, dst) == IF dir \in {"src", "dst", "or", "default", "and"} THEN Directed(dir, src, dst) ELSE abort

gen_portop(g, port, proto, dir) ==
    And(And(gen_cmp(g, "OR_NET", 9, 1, proto), gen_ipfrag(g)),
        PortDirected(dir, gen_portatom(g, 0, port), gen_portatom(g, 2, port)))
gen_portop6(g, port, proto, dir) ==
    And(gen_cmp(g, "OR_NET", 6, 1, proto), PortDirected(dir, gen_portatom6(g, 0, port), gen_portatom6(g, 2, port)))
gen_portrangeop(g, port1, port2, proto, dir) ==
    And(And(gen_cmp(g, "OR_NET", 9, 1, proto), gen_ipfrag(g)),
        PortDirected(dir, gen_portrangeatom(g, 0, port1, port2), gen_portrangeatom(g, 2, port1, port2)))
gen_portrangeop6(g, port1, port2, proto, dir) ==
    And(gen_cmp(g, "OR_NET", 6, 1, proto),
        PortDirected(dir, gen_portrangeatom6(g, 0, port1, port2), gen_portrangeatom6(g, 2, port1, port2)))

\* No protocol named: any of the three that have ports.
WithPorts(ip_proto, op(_)) ==
    IF ip_proto = PROTO_UNDEF THEN Or(op(IPPROTO.SCTP), Or(op(IPPROTO.TCP), op(IPPROTO.UDP))) ELSE op(ip_proto)

gen_port(g, port, ip_proto, dir) ==
    And(Linktype(g, ETHERTYPE.IP), WithPorts(ip_proto, LAMBDA p : gen_portop(g, port, p, dir)))
gen_port6(g, port, ip_proto, dir) ==
    And(Linktype(g, ETHERTYPE.IPV6), WithPorts(ip_proto, LAMBDA p : gen_portop6(g, port, p, dir)))
gen_portrange(g, port1, port2, ip_proto, dir) ==
    And(Linktype(g, ETHERTYPE.IP), WithPorts(ip_proto, LAMBDA p : gen_portrangeop(g, port1, port2, p, dir)))
gen_portrange6(g, port1, port2, ip_proto, dir) ==
    And(Linktype(g, ETHERTYPE.IPV6), WithPorts(ip_proto, LAMBDA p : gen_portrangeop6(g, port1, port2, p, dir)))
=============================================================================
