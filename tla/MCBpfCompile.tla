---------------------------- MODULE MCBpfCompile ----------------------------
(***************************************************************************)
(* Filters and packets for BpfCompile.  The packets are a request and an   *)
(* answer in every encapsulation, and variations of the one on Ethernet:   *)
(* options, a later fragment, IPv6, ARP, tags, a group address.            *)
(***************************************************************************)
EXTENDS BpfCompile

A1 == 167772161                 \* 10.0.0.1
A2 == A1 + 1
EA == <<2, 0, 0, 0, 0, 10>>
EB == <<2, 0, 0, 0, 0, 11>>
Request == [lt |-> "EN10MB", esrc |-> EA, edst |-> EB, vlan |-> <<>>, kind |-> 0, net |-> "ip", ihl |-> 5, frag |-> 0,
            proto |-> 6, src |-> A1, dst |-> A2, sport |-> 1025, dport |-> 80]
Answer == [Request EXCEPT !.src = A2, !.dst = A1, !.sport = 80, !.dport = 1025, !.kind = 4, !.esrc = EB, !.edst = EA]
OnLink(lt) == {[Request EXCEPT !.lt = lt], [Answer EXCEPT !.lt = lt], [Request EXCEPT !.lt = lt, !.net = "ip6", !.proto = 17]}
LinkTypes == {"EN10MB", "LINUX_SLL", "PPP", "FDDI", "IEEE802_11", "IEEE802_11_RADIO", "RAW"}
Variations ==
    {[Request EXCEPT !.ihl = 6], [Request EXCEPT !.frag = 185], [Answer EXCEPT !.frag = 8192], [Request EXCEPT !.proto = 17],
     [Answer EXCEPT !.proto = 1], [Request EXCEPT !.net = "arp"], [Answer EXCEPT !.net = "rarp"], [Request EXCEPT !.vlan = <<5>>],
     [Answer EXCEPT !.vlan = <<5, 7>>], [Answer EXCEPT !.net = "ip6"],
     [Request EXCEPT !.dst = Word(57344, 1), !.edst = <<1, 0, 94, 0, 0, 1>>], [Request EXCEPT !.edst = ebroadcast, !.dst = A1 + 256]}
DescribedPackets == UNION {OnLink(lt) : lt \in LinkTypes} \cup Variations
OtherPackets ==
    {<<>>, SubSeq(Bytes(Request), 1, 13), SubSeq(Bytes(Request), 1, 24), SubSeq(Bytes(Answer), 1, 36), [n \in 1 .. 80 |-> 255],
     Zeros(64), [n \in 1 .. 64 |-> n], <<69>> \o Zeros(60)}

-----------------------------------------------------------------------------
Id(i) == [k |-> "id", id |-> i]
Head3(p, d, a, i) == [k |-> "head", q |-> [proto |-> p, dir |-> d, addr |-> a], l |-> Id(i)]
Num(v) == [k |-> "num", v |-> v]
Hid(v) == [k |-> "hid", v |-> v, len |-> 32]
Both2(l, r) == [k |-> "and", l |-> l, r |-> r]
Either(l, r) == [k |-> "or", l |-> l, r |-> r]
No(l) == [k |-> "not", l |-> l]
Paren(l) == [k |-> "paren", l |-> l]
P(p) == [k |-> "pname", p |-> p]
Load(p, at, size) == [k |-> "load", p |-> p, at |-> at, size |-> size]
Op(k, l, r) == [k |-> k, l |-> l, r |-> r]
Rel(op, l, r) == [k |-> "rel", op |-> op, l |-> l, r |-> r]
LenOf == [k |-> "len"]
Port(p, d, n) == Head3(p, d, "port", Num(n))
Host(d, a) == Head3("default", d, "host", Hid(a))
Range2(lo, hi) == [k |-> "name", ports |-> <<lo, hi>>, service |-> PROTO_UNDEF]
Vlan(v) == [k |-> "vlan", v |-> v]

\* Filters for every kind of link.
Everywhere ==
    {P("tcp"), P("ip"), Port("default", "default", 80), Host("src", A1), Both2(Host("default", A2), No(P("udp"))),
     Rel("=", Load("tcp", Num(2), 2), Num(80))}
\* More of them, on Ethernet.
OnEthernet ==
    {P("arp"), P("icmp"), P("udp"), Either(P("rarp"), P("ip6")), Port("tcp", "src", 80), Port("udp", "and", 80),
     Head3("default", "dst", "portrange", Range2(70, 90)), Either(Port("default", "src", 7), Id(Num(80))),
     Both2(Host("default", A1), Paren(Either(Port("default", "default", 80), Port("default", "default", 53)))),
     Head3("default", "default", "net", [k |-> "hid/", v |-> A1 - 1, len |-> 32, bits |-> 24]),
     Head3("ip", "dst", "net", [k |-> "hid", v |-> 2560, len |-> 16]), Head3("arp", "src", "host", Hid(A1)),
     Head3("ip", "default", "proto", Num(17)), Head3("default", "default", "proto", Num(6)),
     Head3("link", "src", "host", [k |-> "eid", a |-> EA]), Head3("link", "default", "host", [k |-> "eid", a |-> EB]),
     Head3("ip6", "dst", "host", [k |-> "hid6", a |-> <<0, 0, 0, A2>>, bits |-> 128]),
     Rel(">", Op("AND", Load("ip", Num(0), 1), Num(15)), Num(5)), Rel("!=", Op("AND", Load("ip", Num(6), 2), Num(8191)), Num(0)),
     Rel("<=", Op("SUB", Load("ip", Num(9), 1), Num(6)), Num(10)), Rel(">=", Op("MUL", LenOf, Num(2)), Op("ADD", Num(100), Num(20))),
     Rel("=", Op("DIV", Load("link", Num(12), 2), Num(8)), Num(256)), Rel("<", Load("tcp", Op("ADD", Num(1), Num(1)), 2), Num(81)),
     Rel("=", Load("tcp", Num(0), 2), Load("tcp", Num(2), 2)), Rel("=", [k |-> "neg", l |-> Load("ip", Num(8), 1)], Num(-64)),
     Rel("=", Op("LSH", Load("ip", Num(9), 1), Num(4)), Op("RSH", Num(768), Num(3))), Rel("=", Op("OR", LenOf, Num(1)), Num(55)),
     [k |-> "less", v |-> 54], [k |-> "greater", v |-> 60], [k |-> "broadcast", p |-> "link"], [k |-> "multicast", p |-> "link"],
     [k |-> "multicast", p |-> "ip"], Vlan(-1), Both2(Vlan(5), P("tcp")), Both2(Both2(Vlan(5), Vlan(7)), Port("default", "src", 80)),
     Either(Both2(P("tcp"), Rel("=", Load("ip", Num(8), 1), Num(64))), Both2(P("udp"), Rel("=", Load("ip", Num(8), 1), Num(64)))),
     Both2(Rel("=", Load("link", Num(12), 2), Num(2048)), Rel("=", Load("link", Num(23), 1), Num(6))),
     Either(Either(Port("tcp", "dst", 80), Port("tcp", "dst", 81)), Port("tcp", "dst", 82)), [k |-> "empty"]}

F0 == [e |-> P("ip"), lt |-> "EN10MB", snaplen |-> 96, active |-> TRUE, netmask |-> -256, optimize |-> TRUE, says |-> TRUE]
SaidFilters == {[F0 EXCEPT !.e = e] : e \in OnEthernet \cup Everywhere} \cup {[F0 EXCEPT !.e = e, !.lt = lt] : e \in Everywhere, lt \in LinkTypes}

\* Filters without a reference: every link type and every kind of term, and
\* what is refused.
Q(p, d, a) == [proto |-> p, dir |-> d, addr |-> a]
Named(p, d, a, n) == Head3(p, d, a, n)
Name == [k |-> "name", net |-> 10, ether |-> EA, dn |-> 5, hosts |-> <<[af |-> AF_INET, a |-> A1], [af |-> AF_INET6, a |-> <<0, 0, 0, A2>>]>>,
         ports |-> <<80>>, service |-> 6, ipproto |-> 6, etherproto |-> PROTO_UNDEF, llc |-> 66, osi |-> PROTO_UNDEF]
Ethernet(v) == [k |-> "eid", a |-> v]
Wlan(t, u) == [k |-> "wlan", type |-> t, subtype |-> u]
Atm(f, op, vs) == [k |-> "atm", field |-> f, op |-> op, vs |-> vs]
Mtp3(f, op, vs) == [k |-> "mtp3", field |-> f, op |-> op, vs |-> vs]
Kind(k, t) == [k |-> k, type |-> t]
At(lt, es) == {[F0 EXCEPT !.e = e, !.lt = lt, !.says = FALSE] : e \in es}
AnyLink == UNION {At(lt, {Port("default", "default", 80), Either(P("arp"), Either(P("iso"), Either(P("ipx"), Either(P("stp"), P("atalk")))))}) : lt \in DLTs}
Radio == UNION {At(lt, {Head3("link", "src", "host", Ethernet(EA)), Head3("link", "dst", "host", Ethernet(EB)),
                        Wlan("data", "qos_data"), Wlan("", "beacon"), Wlan("ctl", ""), [k |-> "wlandir", dir |-> "tods"],
                        [k |-> "multicast", p |-> "link"], Both2(P("tcp"), Rel("=", Load("radio", Num(2), 2), Num(10)))}) : lt \in Radios}
Ethernetlike == UNION {At(lt, {Head3("link", d, "host", Ethernet(EA)) : d \in {"src", "dst", "and", "default"}}
                         \cup {[k |-> "broadcast", p |-> "link"], [k |-> "multicast", p |-> "default"]}) : lt \in {"FDDI", "IEEE802", "IP_OVER_FC"}}
Telephone == At("SUNATM", {Kind("atmtype", t) : t \in {"metac", "lane", "llc"}} \cup {Kind("atmmulti", t) : t \in {"oam", "connectmsg", "metaconnect"}}
                  \cup {Atm("vpi", "=", <<1, 2>>), Atm("vci", ">", <<30>>), Both2(Kind("atmtype", "lane"), P("ip")),
                        Both2(Kind("atmtype", "lane"), Head3("link", "dst", "host", Ethernet(EA))), Atm("callref", "<=", <<3>>)})
             \cup UNION {At(lt, {Kind("mtp2", t) : t \in {"fisu", "lssu", "msu", "hlssu"}}
                  \cup {Mtp3("opc", "=", <<700>>), Mtp3("hdpc", "!=", <<16383>>), Mtp3("sio", "<", <<7>>), Mtp3("sls", ">=", <<16>>)}) : lt \in {"MTP2", "ERF"}}
Rest == At("EN10MB", {Named(p, "default", a, Name) : p \in {"default", "link", "ip", "tcp"}, a \in {"host", "net", "port", "portrange", "proto"}}
          \cup {Head3("ip", "default", "protochain", Num(6)), Head3("ip6", "default", "protochain", Num(17)), Head3("default", "default", "protochain", Num(51)),
                Head3("decnet", "src", "host", Num(5)), Head3("ip", "default", "gateway", Num(5)), Head3("iso", "default", "proto", Num(130)),
                Head3("isis", "default", "proto", Num(20)), P("l1"), P("decnet"), P("netbeui"), P("icmp6"), Vlan(5000), [k |-> "inbound", dir |-> 0], [k |-> "pf"], [k |-> "pppoed"],
                Both2([k |-> "mpls", v |-> 4], Both2([k |-> "mpls", v |-> -1], Port("default", "dst", 80))),
                Both2([k |-> "pppoes", v |-> 7], P("tcp")), Both2(Vlan(5), [k |-> "mpls", v |-> 9]),
                Rel("=", Load("tcp", Load("ip", Num(0), 1), 1), Load("udp", LenOf, 4)), Rel("=", Load("ip6", Num(6), 1), Num(17)),
                Rel("=", Op("DIV", LenOf, Op("SUB", LenOf, LenOf)), Num(0)), Rel("=", Op("DIV", LenOf, Num(0)), Num(0)),
                Head3("default", "default", "net", [k |-> "mask", v |-> 10, len |-> 8, m |-> 255, mlen |-> 8]),
                Head3("ip6", "src", "net", [k |-> "hid6", a |-> <<0, 0, 0, 0>>, bits |-> 96]), Head3("link", "src", "host", [k |-> "aid", a |-> <<1>>])}
          \cup {[k |-> "byte", op |-> op, at |-> 0, v |-> 2] : op \in {"=", "<", ">", "&", "|"}})
        \cup At("ARCNET", {Head3("link", "src", "host", [k |-> "aid", a |-> <<1>>]), [k |-> "broadcast", p |-> "link"]})
        \cup At("SLIP", {[k |-> "inbound", dir |-> 1]}) \cup At("JUNIPER_PPP", {[k |-> "inbound", dir |-> 0]})
        \cup At("C_HDLC", {Both2([k |-> "mpls", v |-> 3], P("ip"))})

\* Many comparisons, so that jumps reach too far for a byte.
Byte(n) == Rel("=", Op("ADD", Op("ADD", Load("link", Num(5), 1), Num(1)), Num(2)), Num(n + 3))
RECURSIVE OneOf(_, _)
OneOf(lo, hi) == IF lo = hi THEN Byte(lo)
                 ELSE LET mid == (lo + hi) \div 2 IN Either(Paren(OneOf(lo, mid)), Paren(OneOf(mid + 1, hi)))
Long == {[F0 EXCEPT !.e = Both2(Byte(11), Either(P("arp"), OneOf(1, 12))), !.optimize = o] : o \in BOOLEAN}
Plain == {[F0 EXCEPT !.e = e, !.optimize = FALSE] : e \in Everywhere}
Refusals == {[F0 EXCEPT !.active = FALSE, !.says = FALSE], [F0 EXCEPT !.snaplen = 0, !.says = FALSE]}
MCFilters == SaidFilters \cup AnyLink \cup Radio \cup Ethernetlike \cup Telephone \cup Rest \cup Long \cup Plain \cup Refusals
=============================================================================
