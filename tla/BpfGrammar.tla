----------------------------- MODULE BpfGrammar -----------------------------
(***************************************************************************)
(* The rest of the primitives and the semantic actions of grammar.y.       *)
(*                                                                         *)
(* A qualifier q has a protocol, a direction and a kind of address.  An    *)
(* identifier is what the scanner makes of it: a number, an address with   *)
(* its length in bits, a MAC address, or a name with what the tables of    *)
(* the host say of it.                                                     *)
(***************************************************************************)
EXTENDS BpfExpressions

Ethernets == {"EN10MB", "NETANALYZER", "NETANALYZER_TRANSPARENT"}
Arcnets == {"ARCNET", "ARCNET_LINUX"}
Radios == DOMAIN RadioOffsets

\* A MAC address on the link types that have them; "none" is no such link type.
LinkHost(g, addr, dir) ==
    LET lt == g.linktype
    IN  CASE lt \in Ethernets -> gen_ehostop(g, addr, dir)
          [] lt = "FDDI" -> gen_fhostop(g, addr, dir)
          [] lt = "IEEE802" -> gen_thostop(g, addr, dir)
          [] lt \in Radios -> gen_wlanhostop(g, addr, dir)
          [] lt = "IP_OVER_FC" -> gen_ipfchostop(g, addr, dir)
          [] lt = "SUNATM" /\ g.is_lane -> And(NotLaneControl(g), gen_ehostop(g, addr, dir))
          [] OTHER -> bpf_error

ebroadcast == <<255, 255, 255, 255, 255, 255>>
abroadcast == <<0>>

\* All the host bits of the destination are 0, or all are 1.
gen_broadcast(g, proto) ==
    LET hostmask == Complement(g.netmask)
    IN  CASE proto \in {"default", "link"} -> IF g.linktype \in Arcnets THEN gen_ahostop(g, abroadcast, "dst")
                                              ELSE LinkHost(g, ebroadcast, "dst")
          [] proto = "ip" ->
               IF g.netmask = -1 THEN bpf_error
               ELSE And(Linktype(g, ETHERTYPE.IP),
                        Or(gen_mcmp(g, "OR_NET", 16, 4, 0, hostmask),
                           gen_mcmp(g, "OR_NET", 16, 4, hostmask, hostmask)))
          [] OTHER -> bpf_error

gen_mac_multicast(g, offset) == Bit(g, offset, 1)
WlanMulticast(g) ==
    LET data == Or(And(Not(Bit(g, 1, 1)), gen_mac_multicast(g, 4)), And(Bit(g, 1, 1), gen_mac_multicast(g, 16)))
        mgmt == And(Not(Bit(g, 0, 8)), gen_mac_multicast(g, 4))
    IN  And(Not(Bit(g, 0, 4)), Or(mgmt, And(Bit(g, 0, 8), data)))
gen_multicast(g, proto) ==
    LET lt == g.linktype
    IN  CASE proto \in {"default", "link"} ->
               CASE lt \in Arcnets -> gen_ahostop(g, abroadcast, "dst")
                 [] lt \in Ethernets -> gen_mac_multicast(g, 0)
                 [] lt = "FDDI" -> gen_mac_multicast(g, 1)
                 [] lt \in {"IEEE802", "IP_OVER_FC"} -> gen_mac_multicast(g, 2)
                 [] lt \in Radios -> WlanMulticast(g)
                 [] lt = "SUNATM" /\ g.is_lane -> And(NotLaneControl(g), gen_mac_multicast(g, g.off_mac))
                 [] OTHER -> bpf_error
          [] proto = "ip" -> And(Linktype(g, ETHERTYPE.IP), gen_cmp_ge(g, "OR_NET", 16, 1, 224))
          [] proto = "ip6" -> And(Linktype(g, ETHERTYPE.IPV6), gen_cmp(g, "OR_NET", 24, 1, 255))
          [] OTHER -> bpf_error

\* Where nothing in the packet tells the direction, the kernel does (an offset
\* that only its own machine knows); a savefile has no kernel.
SKF_AD_PKTTYPE == -4096 + 4
DirectionByte(byte, dir) == gen_relation("JEQ", byte, gen_loadi(byte.g, 0), dir = 1)
gen_inbound(g, dir) ==
    LET lt == g.linktype
        out(b) == IF dir = 1 THEN b ELSE Not(b)
    IN  CASE lt = "SLIP" ->
               DirectionByte(gen_load("link", gen_loadi(g, 0), 1), dir)
          [] lt = "IPNET" -> Is(gen_cmp(g, "OR_LINK", 2, 2, IF dir = 1 THEN 1 ELSE 2), g)
          [] lt = "LINUX_SLL" -> Is(out(gen_cmp(g, "OR_LINK", 0, 2, 4)), g)
          [] lt \in DOMAIN JuniperOffsets \ {"BACNET_MS_TP"} ->
               Is(gen_mcmp(g, "OR_LINK", 3, 1, IF dir = 1 THEN 0 ELSE 1, 1), g)
          [] OTHER -> Is(IF g.rfile THEN bpf_error ELSE out(gen_cmp(g, "OR_LINK", SKF_AD_PKTTYPE, 2, 4)), g)

gen_pf_action == bpf_error

gen_p80211_type(g, type, mask) ==
    IF g.linktype \in Radios \ {"PPI"} THEN gen_mcmp(g, "OR_LINK", 0, 1, type, mask) ELSE bpf_error
gen_p80211_fcdir(g, fcdir) ==
    IF g.linktype \in Radios \ {"PPI"} THEN gen_mcmp(g, "OR_LINK", 1, 1, fcdir, 3) ELSE bpf_error

-----------------------------------------------------------------------------
\* What follows is behind the tag, the label or the session header.
gen_vlan(g, vlan_num) ==
    LET tag == Or(gen_cmp(g, "OR_LINK", g.off_linktype, 2, ETHERTYPE.8021Q),
                  gen_cmp(g, "OR_LINK", g.off_linktype, 2, ETHERTYPE.8021QINQ))
        num == gen_mcmp(g, "OR_MACPL", 0, 2, vlan_num, 4095)
    IN  IF g.label_stack_depth > 0 \/ g.linktype \notin Ethernets THEN Is(bpf_error, g)
        ELSE Is(IF vlan_num >= 0 THEN And(tag, num) ELSE tag,
                [g EXCEPT !.orig_nl = g.off_nl, !.off_macpl = @ + 4, !.off_linktype = @ + 4])

gen_mpls(g, label_num) ==
    LET first == CASE g.linktype \in Ethernets \cup {"C_HDLC"} -> Linktype(g, ETHERTYPE.MPLS)
                   [] g.linktype = "PPP" -> Linktype(g, PPP.MPLS_UCAST)
                   [] OTHER -> bpf_error
        stack == IF g.label_stack_depth > 0 THEN gen_mcmp(g, "OR_MACPL", g.off_nl - 2, 1, 0, 1) ELSE first
        label == gen_mcmp(g, "OR_MACPL", g.off_nl, 4, ShiftLeft(label_num, 12), -4096)
    IN  Is(IF label_num >= 0 THEN And(stack, label) ELSE stack,
           [g EXCEPT !.orig_nl = g.off_nl, !.off_nl_nosnap = @ + 4, !.off_nl = @ + 4, !.label_stack_depth = @ + 1])

gen_pppoed(g) == Linktype(g, ETHERTYPE.PPPOED)
gen_pppoes(g, sess_num) ==
    LET session == Linktype(g, ETHERTYPE.PPPOES)
        num     == gen_mcmp(g, "OR_MACPL", g.off_nl, 4, sess_num, 65535)
    IN  Is(IF sess_num >= 0 THEN And(session, num) ELSE session,
           [g EXCEPT !.orig_linktype = g.off_linktype, !.orig_nl = g.off_nl, !.is_pppoes = TRUE,
                     !.off_linktype = g.off_nl + 6, !.off_nl = 8, !.off_nl_nosnap = 8])

-----------------------------------------------------------------------------
\* Identifiers with the qualifier that stands before them.  A name comes with
\* what the tables of the host know of it: <<>>, 0 or PROTO_UNDEF is nothing.
Hosted == {"default", "host"}
WellKnown == [udp |-> IPPROTO.UDP, tcp |-> IPPROTO.TCP, sctp |-> IPPROTO.SCTP]
PortQualifiers == DOMAIN WellKnown \cup {"default"}

lookup_proto(name, proto) ==
    CASE proto \in {"default", "ip", "ip6"} -> name.ipproto
      [] proto = "link" -> IF name.etherproto # PROTO_UNDEF THEN name.etherproto ELSE name.llc
      [] proto = "iso" -> name.osi
      [] OTHER -> PROTO_UNDEF

\* A network number is moved up to the first byte that is not 0, its mask with it.
NetShift(v) == IF v = 0 THEN 0 ELSE 8 * (CHOOSE n \in 0 .. 3 : /\ ShiftRight(ShiftLeft(v, 8 * n), 24) # 0
                                                              /\ \A m \in 0 .. n - 1 : ShiftRight(ShiftLeft(v, 8 * m), 24) = 0)
Network(g, v, proto, dir) == gen_host(g, ShiftLeft(v, NetShift(v)), ShiftLeft(-1, NetShift(v)), proto, dir)

\* The addresses of a name, of the families that the qualifier allows.
HostsOf(g, name, proto, dir) ==
    LET plain == g.off_linktype = -1 /\ proto = "default"
        ok(h) == IF h.af = AF_INET THEN proto # "ip6" ELSE proto # "ip"
        one(h) == IF h.af = AF_INET THEN gen_host(g, h.a, -1, IF plain THEN "ip" ELSE proto, dir)
                  ELSE gen_host6(g, h.a, <<-1, -1, -1, -1>>, IF plain THEN "ip6" ELSE proto, dir)
        used  == SelectSeq(name.hosts, ok)
    IN  IF used = <<>> THEN bpf_error ELSE AnyOf([n \in DOMAIN used |-> one(used[n])])

\* A service is of one protocol or, with PROTO_UNDEF, of any.
ServiceOf(real, proto) ==
    IF proto = "default" THEN real ELSE IF real \in {PROTO_UNDEF, WellKnown[proto]} THEN WellKnown[proto] ELSE -2
Ports(g, lo, hi, ip_proto, dir, single) ==
    CASE ip_proto = -2 \/ lo > 65535 \/ hi > 65535 -> bpf_error
      [] single -> Or(gen_port6(g, lo, ip_proto, dir), gen_port(g, lo, ip_proto, dir))
      [] OTHER -> Or(gen_portrange6(g, lo, hi, ip_proto, dir), gen_portrange(g, lo, hi, ip_proto, dir))

gen_scode(g, name, q) ==
    CASE q.addr = "net" -> Is(IF name.net = 0 THEN bpf_error ELSE Network(g, name.net, q.proto, q.dir), g)
      [] q.addr \in Hosted ->
           Is(CASE q.proto = "link" -> IF name.ether = <<>> THEN bpf_error ELSE LinkHost(g, name.ether, q.dir)
                [] q.proto = "decnet" -> gen_host(g, name.dn, 0, "decnet", q.dir)
                [] OTHER -> HostsOf(g, name, q.proto, q.dir), g)
      [] q.addr \in {"port", "portrange"} ->
           Is(IF q.proto \notin PortQualifiers \/ name.ports = <<>> THEN bpf_error
              ELSE Ports(g, name.ports[1], name.ports[Len(name.ports)], ServiceOf(name.service, q.proto), q.dir, q.addr = "port"), g)
      [] q.addr \in {"proto", "protochain"} ->
           IF lookup_proto(name, q.proto) < 0 THEN Is(bpf_error, g)
           ELSE IF q.addr = "proto" THEN Is(Proto(g, lookup_proto(name, q.proto), q.proto, q.dir), g)
           ELSE gen_protochain(g, lookup_proto(name, q.proto), q.proto)
      [] OTHER -> Is(bpf_error, g)

gen_mcode(g, v, len, m, q) ==
    LET n == ShiftLeft(v, 32 - len)
    IN  IF WordAnd(n, Complement(m)) # 0 \/ q.addr # "net" THEN bpf_error ELSE gen_host(g, n, m, q.proto, q.dir)
MaskOf(bits) == IF bits = 0 THEN 0 ELSE ShiftLeft(-1, 32 - bits)

\* A number is dotted (len bits of it are written) or plain.
gen_ncode(g, v, len, dotted, q) ==
    CASE q.addr \in Hosted \cup {"net"} ->
           Is(CASE q.proto = "decnet" -> gen_host(g, v, 0, "decnet", q.dir)
                [] q.proto = "link" -> bpf_error
                [] ~dotted /\ q.addr = "net" -> Network(g, v, q.proto, q.dir)
                [] OTHER -> gen_host(g, ShiftLeft(v, 32 - len), ShiftLeft(-1, 32 - len), q.proto, q.dir), g)
      [] q.addr \in {"port", "portrange"} ->
           Is(IF q.proto \notin PortQualifiers \/ Below(65535, v) THEN bpf_error
              ELSE Ports(g, v, v, ServiceOf(PROTO_UNDEF, q.proto), q.dir, q.addr = "port"), g)
      [] q.addr = "proto" -> Is(Proto(g, v, q.proto, q.dir), g)
      [] q.addr = "protochain" -> gen_protochain(g, v, q.proto)
      [] OTHER -> Is(bpf_error, g)

Mask6(bits) == [n \in 1 .. 4 |-> IF bits >= 32 * n THEN -1 ELSE IF bits <= 32 * (n - 1) THEN 0 ELSE MaskOf(bits % 32)]
gen_mcode6(g, addr, bits, q) ==
    IF \/ bits > 128 \/ \E n \in 1 .. 4 : WordAnd(addr[n], Complement(Mask6(bits)[n])) # 0
       \/ ~(q.addr = "net" \/ (q.addr \in Hosted /\ bits = 128))
    THEN bpf_error ELSE gen_host6(g, addr, Mask6(bits), q.proto, q.dir)

gen_ecode(g, eaddr, q) == IF q.addr \in Hosted /\ q.proto = "link" THEN LinkHost(g, eaddr, q.dir) ELSE bpf_error
gen_acode(g, aid, q) ==
    IF g.linktype \in Arcnets /\ q.addr \in Hosted /\ q.proto = "link" THEN gen_ahostop(g, aid, q.dir) ELSE bpf_error

qerr == [proto |-> "undef", dir |-> "undef", addr |-> "undef"]
Identifier(g, id, q) ==
    CASE id.k = "name" -> gen_scode(g, id, q)
      [] id.k = "num"  -> gen_ncode(g, id.v, 32, FALSE, q)
      [] id.k = "hid"  -> IF q.addr \in {"port", "portrange", "proto", "protochain"} THEN Is(bpf_error, g)
                          ELSE gen_ncode(g, id.v, id.len, TRUE, q)
      [] id.k = "hid/" -> Is(IF id.bits > 32 THEN bpf_error ELSE gen_mcode(g, id.v, id.len, MaskOf(id.bits), q), g)
      [] id.k = "mask" -> Is(gen_mcode(g, id.v, id.len, ShiftLeft(id.m, 32 - id.mlen), q), g)
      [] id.k = "hid6" -> Is(gen_mcode6(g, id.a, id.bits, q), g)
      [] id.k = "eid"  -> Is(gen_ecode(g, id.a, q), g)
      [] id.k = "aid"  -> Is(gen_acode(g, id.a, q), g)

-----------------------------------------------------------------------------
\* Arithmetic and the comparisons of two operands.
RECURSIVE Arth(_, _)
Arth(g, a) ==
    CASE a.k = "num"  -> gen_loadi(g, a.v)
      [] a.k = "len"  -> gen_loadlen(g)
      [] a.k = "load" -> gen_load(a.p, Arth(g, a.at), a.size)
      [] a.k = "neg"  -> gen_neg(Arth(g, a.l))
      [] OTHER -> LET l == Arth(g, a.l) IN gen_arth(a.k, l, Arth(l.g, a.r))

relop == (">" :> "JGT") @@ (">=" :> "JGE") @@ ("=" :> "JEQ")
irelop == ("<=" :> "JGT") @@ ("<" :> "JGE") @@ ("!=" :> "JEQ")
JumpOf(op) == IF op \in DOMAIN relop THEN relop[op] ELSE irelop[op]
Reversed(op) == op \in DOMAIN irelop
Relation(e, l) == gen_relation(JumpOf(e.op), l, Arth(l.g, e.r), Reversed(e.op))

\* ATM and MTP3: a comparison, or a list of values; the fields have no other form.
FieldTest(g, e) ==
    LET one(v) == IF e.k = "atm" THEN gen_atmfield_code(g, e.field, v, JumpOf(e.op), Reversed(e.op))
                  ELSE gen_mtp3field_code(g, e.field, v, JumpOf(e.op), Reversed(e.op))
    IN  AnyOf([n \in DOMAIN e.vs |-> one(e.vs[n])])

\* The names of 802.11; the ones with and without a hyphen are the same.
ieee80211_types == [mgt |-> 0, ctl |-> 4, data |-> 8]
ieee80211_mgt_subtypes ==
    [assocreq |-> 0, assocresp |-> 16, reassocreq |-> 32, reassocresp |-> 48, probereq |-> 64, proberesp |-> 80,
     beacon |-> 128, atim |-> 144, disassoc |-> 160, auth |-> 176, deauth |-> 192]
ieee80211_ctl_subtypes == [ps_poll |-> 160, rts |-> 176, cts |-> 192, ack |-> 208, cf_end |-> 224, cf_end_ack |-> 240]
ieee80211_data_subtypes ==
    [data |-> 0, data_cf_ack |-> 16, data_cf_poll |-> 32, data_cf_ack_poll |-> 48, null |-> 64, cf_ack |-> 80,
     cf_poll |-> 96, cf_ack_poll |-> 112, qos_data |-> 128, qos_data_cf_ack |-> 144, qos_data_cf_poll |-> 160,
     qos_data_cf_ack_poll |-> 176, qos |-> 192, qos_cf_poll |-> 224, qos_cf_ack_poll |-> 240]
SubtypesOf(type) ==
    CASE type = 0 -> ieee80211_mgt_subtypes [] type = 4 -> ieee80211_ctl_subtypes [] OTHER -> ieee80211_data_subtypes
\* A subtype alone is the first of that name.
WlanSubtype(name) ==
    LET types == {t \in {0, 4, 8} : name \in DOMAIN SubtypesOf(t)}
        t == CHOOSE t \in types : \A u \in types : t <= u
    IN  IF types = {} THEN -1 ELSE t + SubtypesOf(t)[name]
p80211(g, e) ==
    LET type == IF e.type \in DOMAIN ieee80211_types THEN ieee80211_types[e.type] ELSE -1
    IN  CASE e.subtype = "" -> IF type < 0 THEN bpf_error ELSE gen_p80211_type(g, type, 12)
          [] e.type = "" -> IF WlanSubtype(e.subtype) < 0 THEN bpf_error ELSE gen_p80211_type(g, WlanSubtype(e.subtype), 252)
          [] OTHER -> IF type < 0 \/ e.subtype \notin DOMAIN SubtypesOf(type) THEN bpf_error
                      ELSE gen_p80211_type(g, type + SubtypesOf(type)[e.subtype], 252)
WlanDir == [nods |-> 0, tods |-> 1, fromds |-> 2, dstods |-> 3]

\* A term that has no qualifier to hand on.
Term(g, e) ==
    CASE e.k = "pname"     -> Is(gen_proto_abbrev(g, e.p), g)
      [] e.k = "rel"       -> Relation(e, Arth(g, e.l))
      [] e.k = "broadcast" -> Is(gen_broadcast(g, e.p), g)
      [] e.k = "multicast" -> Is(gen_multicast(g, e.p), g)
      [] e.k = "less"      -> Is(gen_less(e.v), g)
      [] e.k = "greater"   -> Is(gen_greater(e.v), g)
      [] e.k = "byte"      -> Is(gen_byteop(g, e.op, e.at, e.v), g)
      [] e.k = "inbound"   -> gen_inbound(g, e.dir)
      [] e.k = "vlan"      -> gen_vlan(g, e.v)
      [] e.k = "mpls"      -> gen_mpls(g, e.v)
      [] e.k = "pppoed"    -> Is(gen_pppoed(g), g)
      [] e.k = "pppoes"    -> gen_pppoes(g, e.v)
      [] e.k = "pf"        -> Is(gen_pf_action, g)
      [] e.k = "wlan"      -> Is(p80211(g, e), g)
      [] e.k = "wlandir"   -> Is(gen_p80211_fcdir(g, WlanDir[e.dir]), g)
      [] e.k = "atmtype"   -> Is(gen_atmtype_abbrev(g, e.type), AfterAtmType(g, e.type))
      [] e.k = "atmmulti"  -> Is(gen_atmmulti_abbrev(g, e.type), g)
      [] e.k = "mtp2"      -> Is(gen_mtp2type_abbrev(g, e.type), g)
      [] e.k \in {"atm", "mtp3"} -> Is(FieldTest(g, e), g)

\* expr, term and id: an identifier takes the qualifier q of what stands before
\* it, a parenthesis hands on the one before itself.
Parsed(b, q, g) == [b |-> b, q |-> q, g |-> g]
HandedOn(t, q) == Parsed(t.b, q, t.g)
Joined(op, l, r) == Parsed(IF op = "and" THEN And(l.b, r.b) ELSE Or(l.b, r.b), r.q, r.g)
Negated(t) == [t EXCEPT !.b = Not(t.b)]
RECURSIVE Expr(_, _, _)
Expr(g, e, q) ==
    CASE e.k \in {"and", "or"} -> LET l == Expr(g, e.l, q) IN Joined(e.k, l, Expr(l.g, e.r, l.q))
      [] e.k = "not"   -> Negated(Expr(g, e.l, q))
      [] e.k = "paren" -> [Expr(g, e.l, q) EXCEPT !.q = q]
      [] e.k = "head"  -> Expr(g, e.l, e.q)
      [] e.k = "id"    -> HandedOn(Identifier(g, e.id, q), q)
      [] OTHER         -> HandedOn(Term(g, e), qerr)
=============================================================================
