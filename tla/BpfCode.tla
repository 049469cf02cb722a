------------------------------- MODULE BpfCode -------------------------------
(***************************************************************************)
(* From the tree of a filter to its blocks, and from the blocks to the     *)
(* program: the linking of gencode.c and the last part of optimize.c.      *)
(*                                                                         *)
(* h is the store of the blocks.  A block has statements s, a jump or a    *)
(* return (c, m, x, k), its two successors jt and jf (0 is none yet), the  *)
(* sense in which it is true, the head of the blocks linked to it, and     *)
(* whether it needs long jumps.  The open branches of a filter are a list  *)
(* through jt, or through jf where the sense is turned.                    *)
(***************************************************************************)
EXTENDS BpfGrammar

new_block(h, c, m, x, k, s) ==
    Append(h, [s |-> s, c |-> c, m |-> m, x |-> x, k |-> k, jt |-> 0, jf |-> 0, sense |-> FALSE,
               head |-> Len(h) + 1, longjt |-> FALSE, longjf |-> FALSE])
gen_retblk(h, v) == new_block(h, "RET", "", FALSE, v, <<>>)

Open(h, b) == IF h[b].sense THEN h[b].jf ELSE h[b].jt
Patched(h, b, target) == IF h[b].sense THEN [h EXCEPT ![b].jf = target] ELSE [h EXCEPT ![b].jt = target]

RECURSIVE backpatch(_, _, _)
backpatch(h, list, target) == IF list = 0 THEN h ELSE backpatch(Patched(h, list, target), Open(h, list), target)

RECURSIVE merge(_, _, _)
merge(h, b0, b1) == IF Open(h, b0) = 0 THEN Patched(h, b0, b1) ELSE merge(h, Open(h, b0), b1)

Flip(h, b) == [h EXCEPT ![b].sense = ~@]

gen_and(h, b0, b1) ==
    LET first  == Flip(backpatch(h, b0, h[b1].head), b0)
        merged == Flip(merge(Flip(first, b1), b1, b0), b1)
    IN  [merged EXCEPT ![b1].head = h[b0].head]
gen_or(h, b0, b1) ==
    LET first == Flip(backpatch(Flip(h, b0), b0, h[b1].head), b0)
    IN  [merge(first, b1, b0) EXCEPT ![b1].head = h[b0].head]
gen_not(h, b) == Flip(h, b)

\* The last block made stands for the filter.
Built(h, b) == [h |-> h, b |-> b]
Expanded(t) ==
    CASE t.op = "ncmp" -> Compared(t)
      [] t.op = "linktype" -> gen_linktype(t.g, t.proto)
      [] t.op = "proto" -> gen_proto(t.g, t.v, t.proto, t.dir)
Deferred == {"ncmp", "linktype", "proto"}

RECURSIVE Expand(_)
Expand(t) ==
    CASE t.op \in Deferred -> Expand(Expanded(t))
      [] t.op = "not" -> Not(Expand(t.l))
      [] t.op \in {"and", "or"} -> [t EXCEPT !.l = Expand(@), !.r = Expand(@)]
      [] OTHER -> t

Joint(op, h, b0, b1) == Built(IF op = "and" THEN gen_and(h, b0, b1) ELSE gen_or(h, b0, b1), b1)
RECURSIVE Assemble(_, _)
Assemble(h, t) ==
    CASE t.op = "block" -> Built(new_block(h, "JMP", t.m, t.x, t.k, t.s), Len(h) + 1)
      [] t.op = "not" -> LET l == Assemble(h, t.l) IN Built(gen_not(l.h, l.b), l.b)
      [] OTHER -> LET l == Assemble(h, t.l)
                      r == Assemble(l.h, t.r)
                  IN  Joint(t.op, r.h, l.b, r.b)

\* The first mistake of a filter ends its compilation.
RECURSIVE Faulty(_)
Faulty(t) == CASE t.op \in {"error", "abort", "none"} -> TRUE
               [] t.op = "block" -> FALSE
               [] t.op = "not" -> Faulty(t.l)
               [] OTHER -> Faulty(t.l) \/ Faulty(t.r)

UsesWord(h, r) == \E b \in DOMAIN h : \E n \in DOMAIN h[b].s : /\ h[b].s[n].c \in {"LD", "LDX"}
                                                              /\ h[b].s[n].m = "MEM" /\ h[b].s[n].k = r

\* The offsets that vary are computed in front of everything; then the open
\* branches are closed with the two returns.
finish_parse(h0, p, g, snaplen) ==
    LET h1  == [h0 EXCEPT ![h0[p].head].s = ComputeOffsets(g, UsesWord(h0, reg_off_ll), UsesWord(h0, reg_off_macpl)) \o @]
        ppi == Assemble(h1, gen_ppi_dlt_check)
        h2  == IF g.linktype = "PPI" THEN gen_and(ppi.h, ppi.b, p) ELSE h1
        h3  == LET h == gen_retblk(h2, snaplen) IN backpatch(h, p, Len(h))
        h4  == LET h == gen_retblk(Flip(h3, p), 0) IN backpatch(h, p, Len(h))
    IN  Built(h4, h4[p].head)

\* The jumps inside of statement lists are more than the optimizer understands.
NotOptimizable(h, g) == g.no_optimize \/ g.linktype = "PRISM_HEADER" \/ (g.variable /\ UsesWord(h, reg_off_macpl))

-----------------------------------------------------------------------------
\* icode_to_fcode: successors are laid out behind their block, the one for true
\* nearer than the one for false, from the last return to the root.
slength(s) == Len(SelectSeq(s, LAMBDA i : i.c # "NOP"))
Real(s) == SelectSeq(s, LAMBDA i : i.c # "NOP")

RECURSIVE PostOrder(_, _, _)
PostOrder(h, b, done) ==
    IF b = 0 \/ b \in Range(done) THEN done
    ELSE Append(PostOrder(h, h[b].jt, PostOrder(h, h[b].jf, done)), b)

Longs(blk) == (IF blk.longjt THEN 1 ELSE 0) + (IF blk.longjf THEN 1 ELSE 0)
SizeOf(blk) == slength(blk.s) + 1 + Longs(blk)

\* The place of every block: the root is first, the one that was finished first last.
RECURSIVE PlaceFrom(_, _, _, _)
PlaceFrom(h, order, n, at) ==
    IF n = 0 THEN <<>> ELSE (order[n] :> at) @@ PlaceFrom(h, order, n - 1, at + SizeOf(h[order[n]]))
Places(h, order) == PlaceFrom(h, order, Len(order), 0)

Distance(h, place, b, target) == place[target] - (place[b] + slength(h[b].s)) - 1
LongJump == 256

\* A jump inside of the statements; the last statement but one is taken for a
\* jump without targets.
Placed(s) ==
    [n \in DOMAIN s |-> IF s[n].c # "JMP" \/ s[n].m = "JA" THEN s[n]
                        ELSE IF n = Len(s) - 1 THEN [s[n] EXCEPT !.jt = 0, !.jf = 0]
                        ELSE [s[n] EXCEPT !.jt = @ - 1, !.jf = @ - 1]]

Ja(k) == Insn("JMP", "JA", 4, FALSE, k)
convert_code(h, place, b) ==
    LET blk  == h[b]
        jump == [Insn(blk.c, blk.m, 4, blk.x, blk.k) EXCEPT
                    !.jt = IF blk.c = "RET" \/ blk.longjt THEN 0 ELSE Distance(h, place, b, blk.jt) % 256,
                    !.jf = IF blk.c = "RET" THEN 0
                           ELSE IF blk.longjf THEN (IF blk.longjt THEN 1 ELSE 0) ELSE Distance(h, place, b, blk.jf) % 256]
        jt   == IF blk.longjt THEN <<Ja(Distance(h, place, b, blk.jt) - 1)>> ELSE <<>>
        jf   == IF blk.longjf THEN <<Ja(Distance(h, place, b, blk.jf) - 1 - Len(jt))>> ELSE <<>>
    IN  Placed(Real(blk.s)) \o <<jump>> \o jt \o jf

\* The first block found whose jump is too far; it is made long, and all is laid
\* out again.
TooFar(h, place, b) ==
    h[b].c = "JMP" /\ \/ ~h[b].longjt /\ Distance(h, place, b, h[b].jt) >= LongJump
                      \/ ~h[b].longjf /\ Distance(h, place, b, h[b].jf) >= LongJump
Lengthened(h, place, b) ==
    IF ~h[b].longjt /\ Distance(h, place, b, h[b].jt) >= LongJump THEN [h EXCEPT ![b].longjt = TRUE]
    ELSE [h EXCEPT ![b].longjf = TRUE]
FirstTooFar(h, order) ==
    LET place == Places(h, order)
        far == {n \in DOMAIN order : TooFar(h, place, order[n])}
    IN  IF far = {} THEN 0 ELSE order[CHOOSE n \in far : \A m \in far : n <= m]

RECURSIVE CodeFrom(_, _, _, _)
CodeFrom(h, place, order, n) ==
    IF n = 0 THEN <<>> ELSE convert_code(h, place, order[n]) \o CodeFrom(h, place, order, n - 1)
Program(h, order) == CodeFrom(h, Places(h, order), order, Len(order))

\* The program of a store of blocks, whatever it takes to lay it out.
RECURSIVE icode_to_fcode(_, _)
icode_to_fcode(h, root) ==
    LET order == PostOrder(h, root, <<>>)
        far   == FirstTooFar(h, order)
    IN  IF far = 0 THEN Program(h, order) ELSE icode_to_fcode(Lengthened(h, Places(h, order), far), root)
=============================================================================
