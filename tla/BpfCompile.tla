----------------------------- MODULE BpfCompile -----------------------------
(***************************************************************************)
(* pcap_compile and what follows it: a filter is parsed into blocks,       *)
(* optimized pass by pass, laid out, checked and installed.                *)
(*                                                                         *)
(* A filter has the expression e, the link type lt, the snapshot length of *)
(* the handle and whether it is activated, the netmask, and whether it is  *)
(* to be optimized.  h is the store of blocks and root the first of them.  *)
(***************************************************************************)
EXTENDS BpfOptimize, BpfMeaning

CONSTANTS Filters,   \* the filters to compile
          Described, \* packets with a description, for the meaning of a filter
          Others     \* sequences of bytes, cut short and unusual ones among them

VARIABLES phase,     \* where pcap_compile is
          filter,    \* what it compiles
          h, root,   \* the blocks
          blocks,    \* their order in opt_init
          values,    \* how many values the last pass numbered, and how many it may
          turns,     \* the turns of its loops so far
          prog,      \* the program
          plain      \* the program of the blocks as they were parsed
vars == <<phase, filter, h, root, blocks, values, turns, prog, plain>>

NoFilter == [e |-> [k |-> "empty"], lt |-> "RAW", snaplen |-> 0, active |-> FALSE, netmask |-> 0, optimize |-> FALSE]
Init == /\ phase = "idle" /\ filter = NoFilter /\ h = <<>> /\ root = 0 /\ blocks = <<>>
        /\ values = <<0, 0>> /\ turns = 0 /\ prog = <<>> /\ plain = <<>>

Globals(f) == init_linktype(f.lt, 0) @@ [regused |-> {}, curreg |-> 0, no_optimize |-> FALSE, netmask |-> f.netmask, rfile |-> TRUE]
Refused(f) == ~f.active \/ f.snaplen = 0

\* yyparse and finish_parse: an empty filter accepts everything, an expression
\* that is wrong leaves nothing behind.
NoBlocks == [failed |-> TRUE, h |-> <<>>, b |-> 0, optimizable |-> FALSE]
Finished(t, g) == [failed |-> FALSE, h |-> t.h, b |-> t.b, optimizable |-> ~NotOptimizable(t.h, g)]
Made(f, t, g) == LET l == Assemble(<<>>, t) IN IF Faulty(t) THEN NoBlocks ELSE Finished(finish_parse(l.h, l.b, g, f.snaplen), g)
ParsedInto(f, p) == Made(f, Expand(p.b), p.g)
FrontEnd(f) ==
    IF f.e.k = "empty" THEN Finished(Built(gen_retblk(<<>>, f.snaplen), 1), Globals(f))
    ELSE ParsedInto(f, Expr(init_regs(Globals(f)), f.e, qerr))
\* It depends on nothing but the filter.
Parse == [f \in Filters |-> IF Refused(f) THEN NoBlocks ELSE FrontEnd(f)]

pcap_compile(f) ==
    /\ phase = "idle"
    /\ filter' = f
    /\ \E p \in {Parse[f]} :
          \/ /\ p.failed
             /\ phase' = "failed"
             /\ UNCHANGED <<h, root, blocks, values, turns, prog, plain>>
          \/ /\ ~p.failed
             /\ h' = p.h /\ root' = p.b
             /\ plain' = icode_to_fcode(p.h, p.b)
             /\ phase' = IF f.optimize /\ p.optimizable THEN "branches" ELSE "emit"
             /\ blocks' = number_blks(p.h, p.b, <<>>)
             /\ UNCHANGED <<values, turns, prog>>

\* A turn of opt_loop, first over the jumps and then over the statements.
OptLoop(do_stmts, this, next) ==
    /\ phase = this
    /\ \E w \in {opt_blks(h, root, blocks, do_stmts)} :
          /\ h' = w.h
          /\ values' = <<Cardinality(DOMAIN w.v.tbl), IF values[2] = 0 THEN maxval(h, blocks) ELSE values[2]>>
          /\ phase' = IF w.failed THEN "failed" ELSE IF w.done THEN next ELSE this
    /\ turns' = turns + 1
    /\ UNCHANGED <<filter, root, blocks, prog, plain>>
opt_loop_branches == OptLoop(FALSE, "branches", "statements")
opt_loop_statements == OptLoop(TRUE, "statements", "intern")

\* Equal blocks become one, the root is skipped over; a filter that nothing
\* matches is an error.
bpf_optimize ==
    /\ phase = "intern"
    /\ \E r \in {opt_root(intern_blocks(h, root, blocks), root)} :
          /\ h' = r.h /\ root' = r.b
          /\ phase' = IF r.h[r.b].c = "RET" /\ r.h[r.b].k = 0 THEN "failed" ELSE "emit"
    /\ UNCHANGED <<filter, blocks, values, turns, prog, plain>>

\* icode_to_fcode: one layout, or one jump more that is long.
emit ==
    /\ phase = "emit"
    /\ \E order \in {PostOrder(h, root, <<>>)} : \E far \in {FirstTooFar(h, order)} :
          IF far = 0 THEN /\ prog' = Program(h, order) /\ phase' = "compiled" /\ UNCHANGED h
          ELSE /\ h' = Lengthened(h, Places(h, order), far) /\ UNCHANGED <<prog, phase>>
    /\ turns' = turns + 1
    /\ UNCHANGED <<filter, root, blocks, values, plain>>

install_bpf_program ==
    /\ phase = "compiled"
    /\ phase' = IF bpf_validate(prog) THEN "installed" ELSE "invalid"
    /\ UNCHANGED <<filter, h, root, blocks, values, turns, prog, plain>>

pcap_freecode ==
    /\ phase \in {"installed", "failed", "invalid"}
    /\ phase' = "idle" /\ filter' = NoFilter /\ h' = <<>> /\ root' = 0 /\ blocks' = <<>>
    /\ values' = <<0, 0>> /\ turns' = 0 /\ prog' = <<>> /\ plain' = <<>>

Next == \/ \E f \in Filters : pcap_compile(f)
        \/ opt_loop_branches \/ opt_loop_statements \/ bpf_optimize \/ emit \/ install_bpf_program \/ pcap_freecode
Spec == Init /\ [][Next]_vars

-----------------------------------------------------------------------------
PacketsFor(f) == {d \in Described : d.lt = f.lt}
AllBytes == Others \cup {Bytes(d) : d \in Described}

\* An installed filter accepts exactly the packets that its expression describes,
\* on every link type, and returns the snapshot length for them; one that is
\* refused describes none.
FilterMeansWhatItSays ==
    phase \in {"installed", "failed"} /\ filter.says =>
        \A d \in PacketsFor(filter) :
            (IF phase = "failed" THEN 0 ELSE bpf_filter(prog, Bytes(d), Len(Bytes(d))).k) =
            IF filter.e.k = "empty" \/ Matches(filter.e, d) THEN filter.snaplen ELSE 0

\* After every pass of the optimizer the blocks return for a packet what the
\* parsed filter returns, cut short and unusual packets included.  Where the
\* parsed filter gives up at a load, the load may be one that is not needed.
OptimizerKeepsMeaning ==
    phase \in {"branches", "statements", "intern", "emit", "compiled"} =>
        \E f \in {IF phase = "compiled" THEN prog ELSE icode_to_fcode(h, root)} :
            \A p \in AllBytes : \E r \in {bpf_filter(plain, p, Len(p))} :
                r.kind # "given up" => bpf_filter(f, p, Len(p)) = r

\* What the compiler hands out passes the check of the machine, runs to a return
\* on every packet, reads no scratch word that was not written, and numbered no
\* more values than it has room for.  The one program that is refused divides by
\* the constant 0: the optimizer puts it there when the packet says the dividend.
DividesByZero(f) == \E n \in DOMAIN f : f[n].c = "ALU" /\ f[n].m = "DIV" /\ ~f[n].x /\ f[n].k = 0
ProgramSound ==
    /\ phase = "invalid" => DividesByZero(prog)
    /\ values[1] <= values[2]
    /\ phase = "installed" => \A p \in AllBytes : bpf_filter(prog, p, Len(p)).kind \in {"value", "given up"}

\* The loops of the optimizer and of the layout come to an end: a turn that is not
\* the last leaves the blocks otherwise than it found them, and there are never
\* more turns than statements and jumps to change.
LoopsEnd == turns <= values[2] + 2 * Len(blocks)
=============================================================================
