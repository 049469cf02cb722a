----------------------------- MODULE BpfOptimize -----------------------------
(***************************************************************************)
(* The optimizer of libpcap (optimize.c) on the store h of blocks.         *)
(*                                                                         *)
(* An atom is the accumulator, the index register or a scratch word.  A    *)
(* pass numbers the values that atoms hold (0 is unknown), so that equal   *)
(* numbers are equal values.  w is the state of a pass: the store, val and *)
(* oval of every block, the table of numbered values, and done, which any  *)
(* change resets so that there is another pass.                            *)
(***************************************************************************)
EXTENDS BpfCode

A_ATOM == BPF_MEMWORDS
X_ATOM == BPF_MEMWORDS + 1
Atoms == 0 .. X_ATOM
NOP == Insn("NOP", "", 0, FALSE, 0)

-----------------------------------------------------------------------------
\* Levels: the longest way to a return.  The last block found is the first of
\* its level.
RECURSIVE DepthFirst(_, _, _)
DepthFirst(h, b, done) ==
    IF b = 0 \/ b \in Range(done) THEN done
    ELSE Append(DepthFirst(h, h[b].jf, DepthFirst(h, h[b].jt, done)), b)
LevelsOf(h, found) ==
    FoldLeft(LAMBDA lv, b : (b :> IF h[b].jt = 0 THEN 0
                                  ELSE 1 + (IF lv[h[b].jt] > lv[h[b].jf] THEN lv[h[b].jt] ELSE lv[h[b].jf])) @@ lv,
             <<>>, found)
\* Every block from the root's level down to level 0, and from level 1 up.
find_levels(h, root) ==
    LET found == DepthFirst(h, root, <<>>)
        lv    == LevelsOf(h, found)
        at(i) == Reverse(SelectSeq(found, LAMBDA b : lv[b] = i))
        up    == [i \in 1 .. lv[root] |-> at(i)]
    IN  [down |-> FlattenSeq(Reverse(up)) \o at(0), up |-> FlattenSeq(up)]

\* Edges into b, the last one linked first: of the levels above 0, in their order.
InEdges(h, down, b) ==
    LET edges == FlattenSeq([n \in DOMAIN down |->
                     (IF h[down[n]].jt = b THEN <<<<down[n], "t">>>> ELSE <<>>)
                     \o (IF h[down[n]].jf = b THEN <<<<down[n], "f">>>> ELSE <<>>)])
    IN  Reverse(edges)
find_inedges(h, down) == [b \in Range(down) |-> InEdges(h, down, b)]

\* What lies on every way to a block, and the edges on every way to an edge.
Meet(sets) == {x \in UNION sets : \A s \in sets : x \in s}
find_dom(down, ins) ==
    FoldLeft(LAMBDA dom, b : (b :> ({b} \cup Meet({dom[e[1]] : e \in Range(ins[b])}))) @@ dom, <<>>, down)
find_edom(down, ins) ==
    FoldLeft(LAMBDA ed, b : LET above == Meet({ed[e] : e \in Range(ins[b])})
                            IN  (<<b, "t">> :> (above \cup {<<b, "t">>})) @@ (<<b, "f">> :> (above \cup {<<b, "f">>})) @@ ed,
             <<>>, down)

-----------------------------------------------------------------------------
\* What a statement reads and writes.
atomuse(i) ==
    CASE i.c = "RET" -> IF i.x THEN {A_ATOM} ELSE {}
      [] i.c \in {"LD", "LDX"} -> IF i.m = "IND" THEN {X_ATOM} ELSE IF i.m = "MEM" THEN {i.k} ELSE {}
      [] i.c = "ST" -> {A_ATOM}
      [] i.c \in {"STX", "TXA"} -> {X_ATOM}
      [] i.c \in {"JMP", "ALU"} -> IF i.x THEN {A_ATOM, X_ATOM} ELSE {A_ATOM}
      [] i.c = "TAX" -> {A_ATOM}
      [] OTHER -> {}
atomdef(i) ==
    CASE i.c \in {"LD", "ALU", "TXA"} -> {A_ATOM}
      [] i.c \in {"LDX", "TAX"} -> {X_ATOM}
      [] i.c \in {"ST", "STX"} -> {i.k}
      [] OTHER -> {}
JumpInsn(blk) == Insn(blk.c, blk.m, 4, blk.x, blk.k)

compute_local_ud(blk) ==
    LET step(u, i) == LET use == u.use \cup (atomuse(i) \ u.def)
                      IN  [use |-> use, kill |-> u.kill \cup (atomdef(i) \ use), def |-> u.def \cup atomdef(i)]
        u == FoldLeft(step, [use |-> {}, kill |-> {}, def |-> {}], blk.s)
    IN  IF blk.c = "JMP" THEN [u EXCEPT !.use = @ \cup (atomuse(JumpInsn(blk)) \ u.def)] ELSE u
\* The atoms that are read before they are written, from a block on and behind it.
find_ud(h, lv) ==
    LET local == [b \in Range(lv.down) |-> compute_local_ud(h[b])]
        start == [in |-> [b \in Range(lv.down) |-> local[b].use], out |-> [b \in Range(lv.down) |-> {}]]
        step(u, b) == LET out == u.in[h[b].jt] \cup u.in[h[b].jf]
                      IN  [in |-> [u.in EXCEPT ![b] = @ \cup (out \ local[b].kill)], out |-> [u.out EXCEPT ![b] = out]]
    IN  FoldLeft(step, start, lv.up).out

-----------------------------------------------------------------------------
\* The table of values: two statements that compute the same get one number.
init_val == [tbl |-> <<>>, konst |-> <<>>]
LdImm == <<"LD", "IMM", 4, FALSE>>
Known(v, code, v0, v1) == <<code, v0, v1>> \in DOMAIN v.tbl
ValueOf(v, code, v0, v1) == IF Known(v, code, v0, v1) THEN v.tbl[<<code, v0, v1>>] ELSE Cardinality(DOMAIN v.tbl) + 1
F(v, code, v0, v1) ==
    IF Known(v, code, v0, v1) THEN v
    ELSE LET n == ValueOf(v, code, v0, v1)
         IN  [tbl |-> (<<code, v0, v1>> :> n) @@ v.tbl, konst |-> IF code = LdImm THEN (n :> v0) @@ v.konst ELSE v.konst]
CodeOf(i) == <<i.c, i.m, i.s, i.x>>
IsConst(v, n) == n \in DOMAIN v.konst

\* r: the statement i, the values val, the table v and whether nothing changed.
vstore(r, atom, newval, alter) ==
    IF alter /\ r.val[atom] = newval THEN [r EXCEPT !.i = NOP] ELSE [r EXCEPT !.val[atom] = newval]
Numbered(r, atom, code, v0, v1, alter) ==
    vstore([r EXCEPT !.v = F(r.v, code, v0, v1)], atom, ValueOf(r.v, code, v0, v1), alter)
Constant(r, k) == [r EXCEPT !.i = Ld("IMM", 4, k), !.v = F(r.v, LdImm, k, 0), !.val[A_ATOM] = ValueOf(r.v, LdImm, k, 0)]
Computed(r, v1) ==
    [r EXCEPT !.v = F(r.v, CodeOf(r.i), r.val[A_ATOM], v1), !.val[A_ATOM] = ValueOf(r.v, CodeOf(r.i), r.val[A_ATOM], v1)]
WithK(r) == [r EXCEPT !.v = F(r.v, LdImm, r.i.k, 0)]
KOf(r) == ValueOf(r.v, LdImm, r.i.k, 0)

\* Constants are computed now; a division by 0 ends the compilation.
fold_op(r, a, b) ==
    IF r.i.m = "DIV" /\ b = 0 THEN [r EXCEPT !.failed = TRUE]
    ELSE [Constant(r, Alu(r.i.m, a, b)) EXCEPT !.done = FALSE]

AluWithK(r, alter) ==
    LET i == r.i  a == r.val[A_ATOM]
    IN  CASE alter /\ i.k = 0 /\ i.m \in {"ADD", "LSH", "RSH", "OR"} -> [r EXCEPT !.i = NOP]
          [] alter /\ i.k = 0 /\ i.m \in {"MUL", "AND"} -> Constant(r, 0)
          [] alter /\ IsConst(r.v, a) -> fold_op(WithK(r), r.v.konst[a], i.k)
          [] OTHER -> Computed(WithK(r), KOf(r))
AluWithX(r, alter) ==
    LET i == r.i  a == r.val[A_ATOM]  x == r.val[X_ATOM]
        immediate == [r EXCEPT !.i = AluK(i.m, r.v.konst[x]), !.done = FALSE]
    IN  CASE alter /\ IsConst(r.v, x) /\ IsConst(r.v, a) -> fold_op(r, r.v.konst[a], r.v.konst[x])
          [] alter /\ IsConst(r.v, x) -> Computed(WithK(immediate), KOf(immediate))
          [] alter /\ IsConst(r.v, a) /\ r.v.konst[a] = 0 /\ i.m \in {"ADD", "OR"} -> vstore([r EXCEPT !.i = Txa], A_ATOM, x, alter)
          [] alter /\ IsConst(r.v, a) /\ r.v.konst[a] = 0 /\ i.m \in {"MUL", "DIV", "AND", "LSH", "RSH"} ->
               Numbered([r EXCEPT !.i = Ld("IMM", 4, 0)], A_ATOM, LdImm, 0, 0, alter)
          [] OTHER -> Computed(r, x)

opt_stmt(r, alter) ==
    LET i == r.i  x == r.val[X_ATOM]
    IN  CASE i.c = "LD" /\ i.m = "IND" ->
               IF alter /\ IsConst(r.v, x)
               THEN LET abs == Ld("ABS", i.s, Plus(i.k, r.v.konst[x]))
                    IN  Numbered([r EXCEPT !.i = abs, !.done = FALSE], A_ATOM, CodeOf(abs), abs.k, 0, alter)
               ELSE Numbered(r, A_ATOM, CodeOf(i), i.k, x, alter)
          [] i.c \in {"LD", "LDX"} /\ i.m = "MEM" ->
               LET n == r.val[i.k]
                   to == IF i.c = "LD" THEN A_ATOM ELSE X_ATOM
                   imm == IF alter /\ IsConst(r.v, n)
                          THEN [r EXCEPT !.i = Insn(i.c, "IMM", 4, FALSE, r.v.konst[n]), !.done = FALSE] ELSE r
               IN  vstore(imm, to, n, alter)
          [] i.c = "LD" -> Numbered(r, A_ATOM, CodeOf(i), IF i.m = "LEN" THEN 0 ELSE i.k, 0, alter)
          [] i.c = "LDX" /\ i.m = "IMM" -> Numbered(r, X_ATOM, LdImm, i.k, 0, alter)
          [] i.c = "LDX" /\ i.m = "MSH" -> Numbered(r, X_ATOM, CodeOf(i), i.k, 0, alter)
          [] i.c = "ALU" /\ i.m = "NEG" ->
               IF alter /\ IsConst(r.v, r.val[A_ATOM]) THEN Constant(r, Negative(r.v.konst[r.val[A_ATOM]])) ELSE Computed(r, 0)
          [] i.c = "ALU" -> IF i.x THEN AluWithX(r, alter) ELSE AluWithK(r, alter)
          [] i.c = "TXA" -> vstore(r, A_ATOM, x, alter)
          [] i.c = "TAX" -> vstore(r, X_ATOM, r.val[A_ATOM], alter)
          [] i.c = "ST"  -> vstore(r, i.k, r.val[A_ATOM], alter)
          [] i.c = "STX" -> vstore(r, i.k, x, alter)
          [] OTHER -> r
Pushed(r) == [r EXCEPT !.s = Append(@, r.i)]

-----------------------------------------------------------------------------
\* opt_peep: pairs of statements and the last statement with the jump.
RECURSIVE this_op(_, _)
this_op(s, n) == IF n > Len(s) THEN 0 ELSE IF s[n].c = "NOP" THEN this_op(s, n + 1) ELSE n
IsSt(i) == i.c = "ST"
Is2(i, c, m) == i.c = c /\ i.m = m

\* The index that is computed into X and then only used by one load becomes part
\* of the load.
IndexedLoad(s, n, next, out) ==
    LET add == IF Is2(s[next], "LDX", "MSH") THEN this_op(s, next + 1) ELSE next
        tax == this_op(s, add + 1)
        ild == this_op(s, tax + 1)
    IN  IF /\ Is2(s[n], "LD", "IMM") /\ X_ATOM \notin out
           /\ add # 0 /\ Is2(s[add], "ALU", "ADD") /\ s[add].x
           /\ tax # 0 /\ s[tax].c = "TAX" /\ ild # 0 /\ Is2(s[ild], "LD", "IND")
        THEN [s EXCEPT ![ild].k = Plus(@, s[n].k), ![n] = NOP, ![add] = NOP, ![tax] = NOP]
        ELSE s
\* The statement at n with the one that follows it.
PeepAt(s, n, next, out) ==
    LET tax(t) == IF IsSt(t[n]) /\ Is2(t[next], "LDX", "MEM") /\ t[n].k = t[next].k THEN [t EXCEPT ![next] = Tax] ELSE t
        txa(t) == IF Is2(t[n], "LD", "IMM") /\ t[next].c = "TAX"
                  THEN [t EXCEPT ![n] = Ldx("IMM", 4, t[n].k), ![next] = Txa] ELSE t
    IN  IndexedLoad(txa(tax(s)), n, next, out)
RECURSIVE PeepFrom(_, _, _)
PeepFrom(p, n, out) ==
    LET next == this_op(p.s, n + 1)
    IN  IF n = 0 \/ next = 0 THEN p
        ELSE PeepFrom([s |-> PeepAt(p.s, n, next, out), last |-> next], next, out)

\* The jump takes over a subtraction or a mask that stands before it.
JumpPeep(blk, last, v, x) ==
    LET i == blk.s[last]
        drop(b) == [b EXCEPT !.s[last] = NOP]
    IN  CASE Is2(i, "ALU", "SUB") /\ i.x /\ IsConst(v, x) -> drop([blk EXCEPT !.k = Plus(@, v.konst[x])])
          [] Is2(i, "ALU", "SUB") /\ i.x /\ ~IsConst(v, x) /\ blk.k = 0 -> drop([blk EXCEPT !.x = TRUE])
          [] Is2(i, "ALU", "SUB") /\ ~i.x -> drop([blk EXCEPT !.k = Plus(@, i.k)])
          [] Is2(i, "ALU", "AND") /\ ~i.x /\ blk.k = 0 ->
               drop([blk EXCEPT !.k = i.k, !.m = "JSET", !.jt = blk.jf, !.jf = blk.jt])
          [] OTHER -> blk
Always(blk, v, a) ==
    IF IsConst(v, a) /\ ~blk.x
    THEN IF Holds(blk.m, v.konst[a], blk.k) THEN [blk EXCEPT !.jf = blk.jt] ELSE [blk EXCEPT !.jt = blk.jf]
    ELSE blk

\* The tests that are known before the packet is.
Known0(blk) ==
    IF blk.m # "JSET" \/ blk.x THEN blk
    ELSE IF blk.k = 0 THEN [blk EXCEPT !.jt = blk.jf] ELSE IF blk.k = -1 THEN [blk EXCEPT !.jf = blk.jt] ELSE blk
KnownX(blk, v, x) == IF IsConst(v, x) /\ blk.x THEN [blk EXCEPT !.x = FALSE, !.k = v.konst[x]] ELSE blk
JumpPeeped(w, b, blk, last, out) ==
    IF blk.c = "JMP" /\ blk.m = "JEQ" /\ ~blk.x /\ A_ATOM \notin out THEN JumpPeep(blk, last, w.v, w.val[b][X_ATOM]) ELSE blk
\* A mistake: a jump that is settled counts as a change each time.
Settled_restless(w, b, done, blk) ==
    [w EXCEPT !.h[b] = Always(blk, w.v, w.val[b][A_ATOM]), !.done = @ /\ done /\ ~(IsConst(w.v, w.val[b][A_ATOM]) /\ ~blk.x)]
Settled(w, b, done, blk) ==
    LET settled == Always(blk, w.v, w.val[b][A_ATOM]) IN [w EXCEPT !.h[b] = settled, !.done = @ /\ done /\ settled = blk]
Taken(w, b, p, out, old, jump) ==
    Settled(w, b, p.s = w.h[b].s /\ jump = old, KnownX(Known0(jump), w.v, w.val[b][X_ATOM]))
Peeped(w, b, p, out) ==
    LET blk == [w.h[b] EXCEPT !.s = p.s] IN Taken(w, b, p, out, blk, JumpPeeped(w, b, blk, p.last, out))
opt_peep(w, b, out) ==
    IF w.h[b].s = <<>> THEN w
    ELSE Peeped(w, b, PeepFrom([s |-> w.h[b].s, last |-> 1], this_op(w.h[b].s, 1), out), out)

\* A value that nobody reads before it is written again, or at all, is not computed.
DeadStep(s, d, n) ==
    LET read == [a \in DOMAIN d.last |-> IF a \in atomuse(s[n]) THEN 0 ELSE d.last[a]]
    IN  [dead |-> d.dead \cup {read[a] : a \in atomdef(s[n])},
         last |-> [a \in DOMAIN read |-> IF a \in atomdef(s[n]) THEN n ELSE read[a]]]
DeadIn(s) == FoldLeft(LAMBDA d, n : DeadStep(s, d, n), [dead |-> {}, last |-> [a \in Atoms |-> 0]], [n \in DOMAIN s |-> n])
Killed(w, b, dead) == [w EXCEPT !.h[b].s = [n \in DOMAIN @ |-> IF n \in dead THEN NOP ELSE @[n]], !.done = @ /\ dead = {}]
DeadWith(d, kept) == (d.dead \cup {d.last[a] : a \in Atoms \ kept}) \ {0}
\* A mistake: a scratch word counts as read inside of its block only.
opt_deadstores_local(w, b, out) == Killed(w, b, DeadWith(DeadIn(w.h[b].s \o <<JumpInsn(w.h[b])>>), out \cap {A_ATOM, X_ATOM}))
opt_deadstores(w, b, out) == Killed(w, b, DeadWith(DeadIn(w.h[b].s \o <<JumpInsn(w.h[b])>>), out))

\* The values at a block's start are those on which its predecessors agree.
StartValues(w, preds) ==
    [a \in Atoms |-> LET vs == {w.val[p][a] : p \in preds} IN IF Cardinality(vs) = 1 THEN CHOOSE n \in vs : TRUE ELSE 0]
opt_stmts(w, b, start, do_stmts) ==
    FoldLeft(LAMBDA r, i : Pushed(opt_stmt([r EXCEPT !.i = i], do_stmts)),
             [i |-> NOP, s |-> <<>>, val |-> start, v |-> w.v, done |-> w.done, failed |-> w.failed], w.h[b].s)
\* A block that changes nothing that is read later needs no statements.
Idle(start, r, out) == out = {} /\ \A a \in {A_ATOM, X_ATOM} : start[a] # 0 /\ r.val[a] = start[a]
WithOperand(w, b, x) ==
    LET k == w.h[b].k
    IN  IF w.h[b].x THEN [w EXCEPT !.oval = (b :> x) @@ @]
        ELSE [w EXCEPT !.oval = (b :> ValueOf(w.v, LdImm, k, 0)) @@ @, !.v = F(w.v, LdImm, k, 0)]
Tidied(w, b, out, all) ==
    IF all THEN [w EXCEPT !.h[b].s = <<>>, !.done = @ /\ w.h[b].s = <<>>] ELSE opt_deadstores(opt_peep(w, b, out), b, out)
AfterStmts(w, b, start, r, out, do_stmts) ==
    WithOperand(Tidied([w EXCEPT !.h[b].s = r.s, !.val = (b :> r.val) @@ @, !.v = r.v, !.done = r.done, !.failed = r.failed],
                       b, out, do_stmts /\ (Idle(start, r, out) \/ w.h[b].c = "RET")),
                b, r.val[X_ATOM])
StartingAt(w, b, start, out, do_stmts) == AfterStmts(w, b, start, opt_stmts(w, b, start, do_stmts), out, do_stmts)
opt_blk(w, b, ins, out, do_stmts) == StartingAt(w, b, StartValues(w, {e[1] : e \in Range(ins[b])}), out[b], do_stmts)

-----------------------------------------------------------------------------
\* opt_j: an edge whose target is known to jump on in one way goes there itself.
SuccOf(h, e) == IF e[2] = "t" THEN h[e[1]].jt ELSE h[e[1]].jf
Redirect(h, e, target) == IF e[2] = "t" THEN [h EXCEPT ![e[1]].jt = target] ELSE [h EXCEPT ![e[1]].jf = target]

use_conflict(w, out, b, succ) == \E a \in out[succ] : w.val[b][a] # w.val[succ][a]

SameTest(blk, pred) == blk.c = pred.c /\ blk.m = pred.m /\ blk.x = pred.x
\* A mistake: what is known on one way is taken for known on the other.
fold_edge_either(w, child, e) ==
    LET pred == w.h[e[1]]
    IN  CASE ~SameTest(w.h[child], pred) \/ w.val[child][A_ATOM] # w.val[e[1]][A_ATOM] -> 0
          [] w.oval[child] = w.oval[e[1]] -> IF e[2] = "t" THEN w.h[child].jt ELSE w.h[child].jf
          [] w.oval[child] # w.oval[e[1]] /\ pred.m = "JEQ" /\ ~pred.x -> w.h[child].jf
          [] OTHER -> 0
fold_edge(w, child, e) ==
    LET pred == w.h[e[1]]
    IN  CASE ~SameTest(w.h[child], pred) \/ w.val[child][A_ATOM] # w.val[e[1]][A_ATOM] -> 0
          [] w.oval[child] = w.oval[e[1]] -> IF e[2] = "t" THEN w.h[child].jt ELSE w.h[child].jf
          [] w.oval[child] # w.oval[e[1]] /\ e[2] = "t" /\ pred.m = "JEQ" /\ ~pred.x -> w.h[child].jf
          [] OTHER -> 0

\* The first dominating edge that tells which way the target jumps; 0 is none.
FoldTarget(w, e, out, order) ==
    LET target(d) == fold_edge(w, SuccOf(w.h, e), d)
        good(d)   == target(d) # 0 /\ ~use_conflict(w, out, e[1], target(d))
        first     == SelectInSeq(order, good)
    IN  IF first = 0 THEN 0 ELSE target(order[first])
RECURSIVE FoldEdges(_, _, _, _, _)
FoldEdges(w, e, out, order, target) ==
    IF target = 0 THEN w
    ELSE LET next == [w EXCEPT !.h = Redirect(w.h, e, target), !.done = FALSE]
         IN  IF w.h[target].jt = 0 THEN next ELSE FoldEdges(next, e, out, order, FoldTarget(next, e, out, order))
\* A target that jumps the same way in either case is passed over first.
PassOver(w, e, out, succ) ==
    LET jt == w.h[succ].jt
    IN  IF jt = w.h[succ].jf /\ ~use_conflict(w, out, e[1], jt) THEN [w EXCEPT !.h = Redirect(w.h, e, jt), !.done = FALSE] ELSE w
Folded(w, e, out, order) == FoldEdges(w, e, out, order, FoldTarget(w, e, out, order))
opt_j(w, e, out, order) ==
    IF w.h[SuccOf(w.h, e)].jt = 0 THEN w ELSE Folded(PassOver(w, e, out, SuccOf(w.h, e)), e, out, order)

-----------------------------------------------------------------------------
\* Pullups: in a chain of blocks with one target in common, side is the way on
\* along the chain.  The blocks that test a value that the block before the chain
\* holds are moved in front of the ones that do not.
Away(side) == IF side = "f" THEN "t" ELSE "f"
RECURSIVE DiffFrom(_, _, _, _, _, _)
DiffFrom(w, b, at, side, dom, val) ==
    LET d == SuccOf(w.h, at)
    IN  IF d = 0 \/ SuccOf(w.h, <<d, Away(side)>>) # SuccOf(w.h, <<b, Away(side)>>) \/ b \notin dom[d] THEN <<0, side>>
        ELSE IF w.val[d][A_ATOM] # val THEN at
        ELSE DiffFrom(w, b, <<d, side>>, side, dom, val)
RECURSIVE SameFrom(_, _, _, _, _, _)
SameFrom(w, b, at, side, dom, val) ==
    LET d == SuccOf(w.h, at)
    IN  IF d = 0 \/ SuccOf(w.h, <<d, Away(side)>>) # SuccOf(w.h, <<b, Away(side)>>) \/ b \notin dom[d] THEN <<0, side>>
        ELSE IF w.val[d][A_ATOM] = val THEN at
        ELSE SameFrom(w, b, <<d, side>>, side, dom, val)

\* pull is taken out behind samep and put in front of diff.
Pulled(w, b, side, in, start, diffp, samep, diff, pull) ==
    LET out  == Redirect(w.h, samep, SuccOf(w.h, <<pull, side>>))
        put  == Redirect(out, <<pull, side>>, diff)
        into(h, e) == Redirect(h, <<e[1], IF h[e[1]].jt = b THEN "t" ELSE "f">>, pull)
    IN  [w EXCEPT !.h = IF diffp = start THEN FoldLeft(into, put, in) ELSE Redirect(put, diffp, pull), !.done = FALSE]
PullSame(w, b, side, in, start, diffp, samep) ==
    IF samep[1] = 0 THEN w ELSE Pulled(w, b, side, in, start, diffp, samep, SuccOf(w.h, diffp), SuccOf(w.h, samep))
PullDiff(w, b, side, in, start, dom, val, diffp) ==
    IF diffp[1] = 0 THEN w
    ELSE PullSame(w, b, side, in, start, diffp, SameFrom(w, b, <<SuccOf(w.h, diffp), side>>, side, dom, val))
Pullup(w, b, side, ins, dom) ==
    LET in    == ins[b]
        val   == w.val[in[1][1]][A_ATOM]
        start == <<in[1][1], IF w.h[in[1][1]].jt = b THEN "t" ELSE "f">>
    IN  IF in = <<>> \/ (\E e \in Range(in) : w.val[e[1]][A_ATOM] # val) THEN w
        ELSE PullDiff(w, b, side, in, start, dom, val, DiffFrom(w, b, start, side, dom, val))
or_pullup(w, b, ins, dom) == Pullup(w, b, "f", ins, dom)
and_pullup(w, b, ins, dom) == Pullup(w, b, "t", ins, dom)

\* One turn of opt_loop.  The edges are tried in the order of the numbers that
\* opt_init gave to the blocks.
EdgeOrder(blocks) == [n \in DOMAIN blocks |-> <<blocks[n], "t">>] \o [n \in DOMAIN blocks |-> <<blocks[n], "f">>]
\* The blocks one after the other; a mistake ends it.
RECURSIVE EachBlock(_, _, _, _)
EachBlock(w, bs, a, do_stmts) ==
    IF w.failed \/ bs = <<>> THEN w ELSE EachBlock(opt_blk(w, Head(bs), a.ins, a.out, do_stmts), Tail(bs), a, do_stmts)
RECURSIVE EachJump(_, _, _)
EachJump(w, es, a) ==
    IF w.failed \/ es = <<>> THEN w
    ELSE EachJump(opt_j(w, Head(es), a.out, SelectSeq(a.order, LAMBDA d : d \in a.edom[Head(es)])), Tail(es), a)
RECURSIVE EachPullup(_, _, _, _)
EachPullup(w, bs, ins, dom) ==
    IF w.failed \/ bs = <<>> THEN w
    ELSE EachPullup(and_pullup(or_pullup(w, Head(bs), ins, dom), Head(bs), ins, dom), Tail(bs), ins, dom)

Dominated(h, lv, ins, order) ==
    [ins |-> ins, dom |-> find_dom(lv.down, ins), edom |-> find_edom(lv.down, ins), out |-> find_ud(h, lv), order |-> order]
BothWays(up) == FlattenSeq([n \in DOMAIN up |-> <<<<up[n], "t">>, <<up[n], "f">>>>])
Pullups(w, lv, dom) == EachPullup(w, lv.up, find_inedges(w.h, lv.down), dom)
Jumps(w, lv, a, do_stmts) == IF do_stmts THEN w ELSE Pullups(EachJump(w, BothWays(lv.up), a), lv, a.dom)
OnePass(h, lv, a, do_stmts) ==
    Jumps(EachBlock([h |-> h, val |-> <<>>, oval |-> <<>>, v |-> init_val, done |-> TRUE, failed |-> FALSE], lv.down, a, do_stmts),
          lv, a, do_stmts)
PassOf(h, lv, order, do_stmts) == OnePass(h, lv, Dominated(h, lv, find_inedges(h, lv.down), order), do_stmts)
opt_blks(h, root, blocks, do_stmts) == PassOf(h, find_levels(h, root), EdgeOrder(blocks), do_stmts)

\* opt_init: the blocks in the order of their numbers.
RECURSIVE number_blks(_, _, _)
number_blks(h, b, found) ==
    IF b = 0 \/ b \in Range(found) THEN found
    ELSE number_blks(h, h[b].jf, number_blks(h, h[b].jt, Append(found, b)))
maxval(h, blocks) == 3 * FoldLeft(LAMBDA n, b : n + slength(h[b].s) + 1, 0, blocks)

\* Equal blocks are made one, from the last to the first, until none are left.
eq_blk(x, y) == /\ SameTest(x, y) /\ x.k = y.k /\ x.jt = y.jt /\ x.jf = y.jf /\ Real(x.s) = Real(y.s)
Links(h, blocks, marked) ==
    FoldRight(LAMBDA i, link :
                  LET same == {j \in DOMAIN link : eq_blk(h[blocks[i]], h[blocks[j]])}
                      j    == CHOOSE j \in same : \A k \in same : j <= k
                  IN  IF blocks[i] \notin marked THEN link
                      ELSE IF same = {} THEN (i :> blocks[i]) @@ link ELSE (i :> link[j]) @@ link,
              [n \in DOMAIN blocks |-> n], <<>>)
RECURSIVE intern_blocks(_, _, _)
intern_blocks(h, root, blocks) ==
    LET link   == Links(h, blocks, Range(DepthFirst(h, root, <<>>)))
        to     == [b \in {blocks[i] : i \in DOMAIN link} |-> link[CHOOSE i \in DOMAIN link : blocks[i] = b]]
        new(b) == IF b \in DOMAIN to THEN to[b] ELSE b
        next   == [b \in DOMAIN h |-> [h[b] EXCEPT !.jt = new(@), !.jf = new(@)]]
    IN  IF next = h THEN h ELSE intern_blocks(next, root, blocks)

\* A first block that jumps the same way in either case is skipped; its
\* statements stay.
RECURSIVE SkipRoot(_, _)
SkipRoot(h, b) == IF h[b].c = "JMP" /\ h[b].jt = h[b].jf THEN SkipRoot(h, h[b].jt) ELSE b
opt_root(h, root) ==
    LET b == SkipRoot(h, root)
        s == IF h[b].c = "RET" THEN <<>> ELSE IF b = root THEN h[b].s ELSE h[root].s \o h[b].s
    IN  Built([h EXCEPT ![b].s = s], b)
=============================================================================
