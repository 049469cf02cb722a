--------------------------- MODULE BpfExpressions ---------------------------
(***************************************************************************)
(* From an expression of the filter language to the tree of its blocks:    *)
(* the semantic actions of grammar.y and the functions of gencode.c that   *)
(* they call.  The globals g are handed on from left to right.             *)
(***************************************************************************)
EXTENDS BpfPrimitives

\* The scratch words: alloc_reg goes on from the word it gave out last.  A link
\* type with a variable header keeps two of them.
ScratchWords(g) == IF g.variable THEN 14 ELSE BPF_MEMWORDS
init_regs(g) == [g EXCEPT !.regused = {}, !.curreg = 0]
FreeAfter(g) == {n \in 0 .. ScratchWords(g) - 1 : (g.curreg + n) % ScratchWords(g) \notin g.regused}
alloc_reg(g) ==
    IF FreeAfter(g) = {} THEN [ok |-> FALSE, r |-> 0, g |-> g]
    ELSE LET n == CHOOSE n \in FreeAfter(g) : \A m \in FreeAfter(g) : n <= m
             r == (g.curreg + n) % ScratchWords(g)
         IN  [ok |-> TRUE, r |-> r, g |-> [g EXCEPT !.curreg = r, !.regused = @ \cup {r}]]
free_reg(g, r) == [g EXCEPT !.regused = @ \ {r}]

-----------------------------------------------------------------------------
\* protochain: a loop over the headers of IPv6, or of IP, and over AH.
AhBack(g, reg2, again) ==
    LET nl == g.off_macpl + g.off_nl
    IN  <<Txa, Ld("IND", 1, nl), St(reg2), Txa, AluK("ADD", 1), Tax, Ld("IND", 1, nl), AluK("ADD", 2),
          AluK("MUL", 4), Tax, Ld("MEM", 4, reg2), Insn("JMP", "JA", 4, FALSE, again)>>
ChainStmts(g, v, proto, reg2) ==
    LET nl == g.off_macpl + g.off_nl
    IN  IF proto = "ip6"
        THEN <<Ld("ABS", 1, nl + 6), Ldx("IMM", 4, 40), SJump("JEQ", v, 28, 1), SJump("JEQ", 59, 27, 1),
               SJump("JEQ", 0, 4, 1), SJump("JEQ", 60, 3, 1), SJump("JEQ", 43, 2, 1), SJump("JEQ", 44, 1, 10),
               Ld("IND", 1, nl), St(reg2), Ld("IND", 1, nl + 1), AluK("ADD", 1), AluK("MUL", 8), AluX("ADD"), Tax,
               Ld("MEM", 4, reg2), Insn("JMP", "JA", 4, FALSE, -15), SJump("JEQ", 51, 1, 13)>>
             \o AhBack(g, reg2, -28) \o <<AluK("ADD", 0)>>
        ELSE <<Ld("ABS", 1, nl + 9), Ldx("MSH", 1, nl), SJump("JEQ", v, 16, 1), SJump("JEQ", 59, 15, 1),
               AluK("ADD", 0), SJump("JEQ", 51, 1, 13)>>
             \o AhBack(g, reg2, -16) \o <<AluK("ADD", 0)>>

Chain(g, v, proto) ==
    LET reg2 == alloc_reg(g)
        link == Linktype(g, IF proto = "ip" THEN ETHERTYPE.IP ELSE ETHERTYPE.IPV6)
    IN  IF ~reg2.ok \/ g.variable THEN Is(bpf_error, g)
        ELSE Is(And(link, Block(ChainStmts(g, v, proto, reg2.r), "JEQ", FALSE, v)),
                [free_reg(reg2.g, reg2.r) EXCEPT !.no_optimize = TRUE])
\* Without a qualifier both, and the scratch word taken first is not given back.
gen_protochain(g, v, proto) ==
    IF proto \in {"ip", "ip6"} THEN Chain(g, v, proto)
    ELSE IF proto # "default" THEN Is(bpf_error, g)
    ELSE LET kept == alloc_reg(g)
             ip4  == Chain(kept.g, v, "ip")
             ip6  == Chain(ip4.g, v, "ip6")
         IN  Is(IF kept.ok THEN Or(ip4.b, ip6.b) ELSE bpf_error, ip6.g)

-----------------------------------------------------------------------------
\* Arithmetic.  An operand leaves its value in a scratch word; b are the tests
\* of the protocols it looks into.
Operand(s, b, regno, g) == [s |-> s, b |-> b, regno |-> regno, g |-> g]
xfer_to_x(a) == Ldx("MEM", 4, a.regno)
xfer_to_a(a) == Ld("MEM", 4, a.regno)
Both(b0, b1) == IF b0 = none THEN b1 ELSE IF b1 = none THEN b0 ELSE And(b0, b1)

Loaded(g, insn) ==
    LET reg == alloc_reg(g)
    IN  Operand(<<insn, St(reg.r)>>, IF reg.ok THEN none ELSE bpf_error, reg.r, reg.g)
gen_loadi(g, val) == Loaded(g, Ld("IMM", 4, val))
gen_loadlen(g) == Loaded(g, Ld("LEN", 4, 0))

gen_neg(a) == [a EXCEPT !.s = @ \o <<xfer_to_a(a), AluK("NEG", 0), St(a.regno)>>]

\* The tests of the second operand are dropped.
gen_arth(code, a0, a1) ==
    LET reg == alloc_reg(free_reg(free_reg(a1.g, a0.regno), a1.regno))
    IN  Operand(a0.s \o a1.s \o <<xfer_to_x(a1), xfer_to_a(a0), AluX(code), St(reg.r)>>,
                IF reg.ok THEN a0.b ELSE bpf_error, reg.r, reg.g)

NetworkLayer == {"ip", "arp", "rarp", "atalk", "decnet", "sca", "lat", "moprc", "mopdl", "ip6"}
TransportLayer == {"sctp", "tcp", "udp", "icmp", "igmp", "igrp", "pim", "vrrp", "carp"}
gen_load(proto, inst, size) ==
    LET reg == alloc_reg(inst.g)
        g   == free_reg(reg.g, inst.regno)
        indexed(prefix) == IF prefix = <<>> THEN <<xfer_to_x(inst)>> ELSE prefix \o <<xfer_to_a(inst), AluX("ADD"), Tax>>
        done(s, b) == Operand(inst.s \o s \o <<St(reg.r)>>, IF reg.ok THEN b ELSE bpf_error, reg.r, g)
    IN  CASE size \notin {1, 2, 4} -> done(<<>>, bpf_error)
          [] proto = "radio" ->
               IF g.linktype \in {"IEEE802_11_RADIO_AVS", "IEEE802_11_RADIO", "PRISM_HEADER"}
               THEN done(<<xfer_to_x(inst), Ld("IND", size, 0)>>, inst.b)
               ELSE done(<<>>, bpf_error)
          [] proto = "link" -> done(indexed(gen_llprefixlen(g)) \o <<Ld("IND", size, g.off_ll)>>, inst.b)
          [] proto \in NetworkLayer ->
               done(indexed(gen_off_macpl(g)) \o <<Ld("IND", size, g.off_macpl + g.off_nl)>>,
                    Both(inst.b, gen_proto_abbrev(g, proto)))
          [] proto \in TransportLayer ->
               done(indexed(gen_loadx_iphdrlen(g)) \o <<Ld("IND", size, g.off_macpl + g.off_nl)>>,
                    And(gen_proto_abbrev(g, "ip"), Both(inst.b, And(gen_proto_abbrev(g, proto), gen_ipfrag(g)))))
          [] OTHER -> done(<<>>, bpf_error)

gen_relation(code, a0, a1, reversed) ==
    LET s == a0.s \o a1.s \o <<xfer_to_x(a1), xfer_to_a(a0)>>
        b == IF code = "JEQ" THEN Block(s \o <<AluX("SUB")>>, "JEQ", FALSE, 0) ELSE Block(s, code, TRUE, 0)
    IN  Is(Both(Both(a0.b, a1.b), IF reversed THEN Not(b) ELSE b), free_reg(free_reg(a1.g, a0.regno), a1.regno))

gen_len(jmp, n) == Block(<<Ld("LEN", 4, 0)>>, jmp, FALSE, n)
gen_greater(n) == gen_len("JGE", n)
gen_less(n) == Not(gen_len("JGT", n))

\* & and | work on the accumulator as it is: nothing loads the byte.
gen_byteop(g, op, idx, val) ==
    CASE op = "=" -> gen_cmp(g, "OR_LINK", idx, 1, val)
      [] op = "<" -> gen_cmp_lt(g, "OR_LINK", idx, 1, val)
      [] op = ">" -> gen_cmp_gt(g, "OR_LINK", idx, 1, val)
      [] op = "|" -> Not(Block(<<AluK("OR", val)>>, "JEQ", FALSE, 0))
      [] op = "&" -> Not(Block(<<AluK("AND", val)>>, "JEQ", FALSE, 0))
=============================================================================
