----------------------------- MODULE BpfMeaning -----------------------------
(***************************************************************************)
(* What a filter means, said of the packet and not of the code: the        *)
(* reference that the compiler is checked against.                         *)
(*                                                                         *)
(* A packet d is described by its link type, its link addresses, its VLAN  *)
(* tags, its network protocol with addresses, header length, fragment      *)
(* offset, transport protocol and ports; Bytes(d) is how it looks on the   *)
(* wire.                                                                   *)
(***************************************************************************)
EXTENDS BpfGrammar

Half(n) == <<n \div 256, n % 256>>
Quad(w) == Half(Hi(w)) \o Half(Lo(w))
Zeros(n) == [i \in 1 .. n |-> 0]
EtherTypeOf == [ip |-> ETHERTYPE.IP, ip6 |-> ETHERTYPE.IPV6, arp |-> ETHERTYPE.ARP, rarp |-> ETHERTYPE.REVARP]
PppOf == [ip |-> PPP.IP, ip6 |-> PPP.IPV6, arp |-> 0, rarp |-> 0]

NetBytes(d) ==
    LET ports == Half(d.sport) \o Half(d.dport) \o Zeros(16)
    IN  CASE d.net = "ip"  -> <<64 + d.ihl, 0>> \o Half(20 + 4 * d.ihl) \o <<0, 0>> \o Half(d.frag) \o <<64, d.proto, 0, 0>>
                              \o Quad(d.src) \o Quad(d.dst) \o Zeros(4 * (d.ihl - 5)) \o ports
          [] d.net = "ip6" -> <<96, 0, 0, 0, 0, 20, d.proto, 64>> \o Zeros(12) \o Quad(d.src) \o Zeros(12) \o Quad(d.dst) \o ports
          [] OTHER -> <<0, 1, 8, 0, 6, 4, 0, 1>> \o Zeros(6) \o Quad(d.src) \o Zeros(6) \o Quad(d.dst) \o Zeros(20)
TagBytes(d) == FlattenSeq([n \in DOMAIN d.vlan |-> Half(ETHERTYPE.8021Q) \o Half(d.vlan[n])])
LinkBytes(d) ==
    CASE d.lt = "EN10MB" -> d.edst \o d.esrc \o TagBytes(d) \o Half(EtherTypeOf[d.net])
      [] d.lt = "LINUX_SLL" -> Half(d.kind) \o <<0, 1, 0, 6>> \o d.esrc \o <<0, 0>> \o Half(EtherTypeOf[d.net])
      [] d.lt = "PPP" -> <<255, 3>> \o Half(PppOf[d.net])
      [] d.lt = "FDDI" -> <<80>> \o d.edst \o d.esrc \o <<170, 170, 3, 0, 0, 0>> \o Half(EtherTypeOf[d.net])
      [] d.lt = "IEEE802_11" -> <<8, 1>> \o Zeros(2) \o d.edst \o d.esrc \o d.edst \o <<0, 0>> \o <<170, 170, 3, 0, 0, 0>>
                                \o Half(EtherTypeOf[d.net])
      [] d.lt = "IEEE802_11_RADIO" -> <<0, 0, 10, 0>> \o Zeros(6) \o <<136, 1>> \o Zeros(2) \o d.edst \o d.esrc \o d.edst
                                \o <<0, 0, 0, 0>> \o <<170, 170, 3, 0, 0, 0>> \o Half(EtherTypeOf[d.net])
      [] OTHER -> <<>>
Bytes(d) == LinkBytes(d) \o NetBytes(d)

-----------------------------------------------------------------------------
Dir(dir, src, dst) ==
    CASE dir = "src" -> src [] dir = "dst" -> dst [] dir = "and" -> src /\ dst [] OTHER -> src \/ dst
Tagless(d) == d.vlan = <<>>
IsNet(d, net) == d.net = net /\ (d.lt = "EN10MB" => Tagless(d))
Transports == [tcp |-> 6, udp |-> 17, sctp |-> 132]
IsTran(d, proto) == (IsNet(d, "ip") \/ IsNet(d, "ip6")) /\ d.proto = proto

IsHost(d, v, mask, proto, dir) ==
    LET in(a) == WordAnd(a, mask) = v
    IN  \E net \in {"ip", "arp", "rarp"} : proto \in {"default", net} /\ IsNet(d, net) /\ Dir(dir, in(d.src), in(d.dst))
IsPort(d, lo, hi, proto, dir) ==
    /\ \E t \in DOMAIN Transports : proto \in {"default", t} /\ IsTran(d, Transports[t])
    /\ d.net = "ip" => d.frag % 8192 = 0
    /\ Dir(dir, d.sport \in lo .. hi, d.dport \in lo .. hi)

\* The field of a packet that an expression reads; a packet without it matches
\* no comparison.
HeaderAt(d, p) ==
    CASE p = "link" -> 0
      [] p \in {"ip", "ip6", "arp"} -> IF IsNet(d, p) THEN Len(LinkBytes(d)) ELSE -1
      [] OTHER -> IF IsNet(d, "ip") /\ d.proto = Transports[p] /\ d.frag % 8192 = 0 THEN Len(LinkBytes(d)) + 4 * d.ihl ELSE -1
NoValue == [ok |-> FALSE, v |-> 0]
Value(v) == [ok |-> TRUE, v |-> v]
RECURSIVE ValueIn(_, _)
ValueIn(a, d) ==
    CASE a.k = "num" -> Value(a.v)
      [] a.k = "len" -> Value(Len(Bytes(d)))
      [] a.k = "neg" -> LET l == ValueIn(a.l, d) IN IF l.ok THEN Value(Negative(l.v)) ELSE NoValue
      [] a.k = "load" -> LET at == ValueIn(a.at, d)
                         IN  IF at.ok /\ HeaderAt(d, a.p) >= 0 /\ Loads(Bytes(d), HeaderAt(d, a.p) + at.v, a.size)
                             THEN Value(Extract(Bytes(d), HeaderAt(d, a.p) + at.v, a.size)) ELSE NoValue
      [] OTHER -> LET l == ValueIn(a.l, d)  r == ValueIn(a.r, d)
                  IN  IF l.ok /\ r.ok /\ ~(a.k = "DIV" /\ r.v = 0) THEN Value(Alu(a.k, l.v, r.v)) ELSE NoValue
Compare(op, a, b) ==
    CASE op = "=" -> a = b [] op = "!=" -> a # b [] op = ">" -> Below(b, a) [] op = "<" -> Below(a, b)
      [] op = ">=" -> ~Below(a, b) [] op = "<=" -> ~Below(b, a)

\* A tag that was asked for is taken off for the rest of the filter.
Untagged(d) == [d EXCEPT !.vlan = Tail(@)]
TermMeans(e, d) ==
    CASE e.k = "pname" -> CASE e.p \in DOMAIN EtherTypeOf -> IsNet(d, e.p)
                            [] e.p \in DOMAIN OnlyIp4 -> IsNet(d, "ip") /\ d.proto = OnlyIp4[e.p]
                            [] OTHER -> IsTran(d, BothIp[e.p])
      [] e.k = "rel" -> LET l == ValueIn(e.l, d)  r == ValueIn(e.r, d) IN l.ok /\ r.ok /\ Compare(e.op, l.v, r.v)
      [] e.k = "less" -> Len(Bytes(d)) <= e.v
      [] e.k = "greater" -> Len(Bytes(d)) >= e.v
      [] e.k = "multicast" -> IF e.p = "ip" THEN IsNet(d, "ip") /\ ShiftRight(d.dst, 24) >= 224 ELSE d.edst[1] % 2 = 1
      [] e.k = "broadcast" -> d.edst = ebroadcast
      [] e.k = "inbound" -> (d.kind = 4) = (e.dir = 1)
      [] e.k = "vlan" -> d.vlan # <<>> /\ (e.v >= 0 => d.vlan[1] = e.v)

IdMeans(id, d, q) ==
    CASE id.k = "hid" -> IsHost(d, ShiftLeft(id.v, 32 - id.len), MaskOf(id.len), q.proto, q.dir)
      [] id.k = "hid/" -> IsHost(d, ShiftLeft(id.v, 32 - id.len), MaskOf(id.bits), q.proto, q.dir)
      [] id.k = "eid" -> Dir(q.dir, d.esrc = id.a, d.edst = id.a)
      [] id.k = "hid6" -> IsNet(d, "ip6") /\ Dir(q.dir, <<0, 0, 0, d.src>> = id.a, <<0, 0, 0, d.dst>> = id.a)
      [] id.k = "num" ->
           CASE q.addr = "port" -> IsPort(d, id.v, id.v, q.proto, q.dir)
             [] q.addr = "proto" -> IF q.proto = "default" THEN IsTran(d, id.v) ELSE IsNet(d, q.proto) /\ d.proto = id.v
             [] OTHER -> IsHost(d, id.v, -1, q.proto, q.dir)
      [] id.k = "name" -> IsPort(d, id.ports[1], id.ports[Len(id.ports)], q.proto, q.dir)

\* The meaning of a filter, the packet as the rest of the filter sees it and the
\* qualifier that is handed on.  A tag is taken off whether or not it was there.
Seen(v, d, q) == [v |-> v, d |-> d, q |-> q]
RECURSIVE Meaning(_, _, _)
Meaning(e, d, q) ==
    CASE e.k \in {"and", "or"} ->
           LET l == Meaning(e.l, d, q)
               r == Meaning(e.r, l.d, l.q)
           IN  Seen(IF e.k = "and" THEN l.v /\ r.v ELSE l.v \/ r.v, r.d, r.q)
      [] e.k = "not" -> LET l == Meaning(e.l, d, q) IN [l EXCEPT !.v = ~@]
      [] e.k = "paren" -> [Meaning(e.l, d, q) EXCEPT !.q = q]
      [] e.k = "head" -> Meaning(e.l, d, e.q)
      [] e.k = "id" -> Seen(IdMeans(e.id, d, q), d, q)
      [] e.k = "vlan" -> Seen(TermMeans(e, d), IF d.vlan = <<>> THEN d ELSE Untagged(d), qerr)
      [] OTHER -> Seen(TermMeans(e, d), d, qerr)
Matches(e, d) == Meaning(e, d, qerr).v
=============================================================================
