----------------------------- MODULE BpfMachine -----------------------------
(***************************************************************************)
(* The filter machine of libpcap (bpf/net/bpf_filter.c, the user-level     *)
(* build): its words, its interpreter and the check of a program.          *)
(*                                                                         *)
(* A word of 32 bits is kept as the integer from -2^31 to 2^31 - 1 that    *)
(* has its bits.  An instruction has a class c, a mode or operation m, a   *)
(* size s in bytes, the source x (X or K), an operand k and two jumps.     *)
(***************************************************************************)
EXTENDS Integers, Sequences, FiniteSets

LOCAL INSTANCE Bitwise
LOCAL INSTANCE TLC

BPF_MEMWORDS == 16

Hi(w) == (w \div 65536) % 65536
Lo(w) == w % 65536
Word(hi, lo) == (IF hi >= 32768 THEN hi - 65536 ELSE hi) * 65536 + lo

Plus(a, b) == Word((Hi(a) + Hi(b) + (Lo(a) + Lo(b)) \div 65536) % 65536, (Lo(a) + Lo(b)) % 65536)
Complement(a) == Word(65535 - Hi(a), 65535 - Lo(a))
Negative(a) == Plus(Complement(a), 1)
Minus(a, b) == Plus(a, Negative(b))
WordAnd(a, b) == Word(Hi(a) & Hi(b), Lo(a) & Lo(b))
WordOr(a, b) == Word(Hi(a) | Hi(b), Lo(a) | Lo(b))

\* The processor takes a shift modulo the width of a word.
ShiftLeft(a, n0) ==
    LET n == n0 % 32
    IN  IF n < 16 THEN Word((Hi(a) % 2^(16 - n)) * 2^n + Lo(a) \div 2^(16 - n), (Lo(a) % 2^(16 - n)) * 2^n)
        ELSE Word((Lo(a) % 2^(32 - n)) * 2^(n - 16), 0)
ShiftRight(a, n0) ==
    LET n == n0 % 32
    IN  IF n < 16 THEN Word(Hi(a) \div 2^n, (Hi(a) % 2^n) * 2^(16 - n) + Lo(a) \div 2^n)
        ELSE Word(0, Hi(a) \div 2^(n - 16))

\* Unsigned comparison, product and quotient.
Below(a, b) == IF (a < 0) = (b < 0) THEN a < b ELSE b < 0
TimesByte(a, n) == Word((Hi(a) * n + (Lo(a) * n) \div 65536) % 65536, (Lo(a) * n) % 65536)
Times(a, b) ==
    Plus(Plus(TimesByte(a, Lo(b) % 256), ShiftLeft(TimesByte(a, Lo(b) \div 256), 8)),
         Plus(ShiftLeft(TimesByte(a, Hi(b) % 256), 16), ShiftLeft(TimesByte(a, Hi(b) \div 256), 24)))
Over(a, b) ==
    IF b < 0 THEN (IF Below(a, b) THEN 0 ELSE 1)
    ELSE IF a >= 0 THEN a \div b
    ELSE LET half == ShiftLeft(ShiftRight(a, 1) \div b, 1)
         IN  IF Below(Minus(a, Times(half, b)), b) THEN half ELSE Plus(half, 1)

-----------------------------------------------------------------------------
Insn(c, m, s, x, k) == [c |-> c, m |-> m, s |-> s, x |-> x, k |-> k, jt |-> 0, jf |-> 0]

\* The bytes of a packet; a load that reaches past them rejects the packet.
Loads(p, at, size) == at >= 0 /\ at + size <= Len(p)
Extract(p, at, size) ==
    CASE size = 1 -> p[at + 1]
      [] size = 2 -> p[at + 1] * 256 + p[at + 2]
      [] OTHER    -> Word(p[at + 1] * 256 + p[at + 2], p[at + 3] * 256 + p[at + 4])

Alu(op, a, v) ==
    CASE op = "ADD" -> Plus(a, v)      [] op = "SUB" -> Minus(a, v)
      [] op = "MUL" -> Times(a, v)     [] op = "DIV" -> Over(a, v)
      [] op = "AND" -> WordAnd(a, v)   [] op = "OR"  -> WordOr(a, v)
      [] op = "LSH" -> ShiftLeft(a, v) [] op = "RSH" -> ShiftRight(a, v)

Holds(op, a, v) ==
    CASE op = "JEQ" -> a = v
      [] op = "JGT" -> Below(v, a)
      [] op = "JGE" -> ~Below(a, v)
      [] op = "JSET" -> WordAnd(a, v) # 0

\* What bpf_filter returns: the word of a RET, or 0 when it gives up at a load past
\* the end or a division by 0.  It is broken when it reads a scratch word that was
\* not written, leaves the program, or has no end in 2^StepBits instructions.
Rejected == [kind |-> "given up", k |-> 0]
Returned(k) == [kind |-> "value", k |-> k]
Broken(why) == [kind |-> why, k |-> 0]

\* One instruction: s has the program counter, A, X, the scratch memory, whose
\* domain is the words that were written, and what the program has returned.
Running == [kind |-> "running", k |-> 0]
Execute(f, p, wirelen, s) ==
    LET i    == f[s.pc]
        next == [s EXCEPT !.pc = @ + 1]
        at   == IF i.m = "IND" THEN Plus(s.X, i.k) ELSE i.k
        v    == IF i.x THEN s.X ELSE i.k
        end(r) == [s EXCEPT !.ret = r]
    IN  CASE s.pc \notin DOMAIN f -> end(Broken("off the end"))
          [] i.c = "RET" -> end(Returned(IF i.x THEN s.A ELSE i.k))
          [] i.c = "LD" /\ i.m \in {"ABS", "IND"} ->
               IF Loads(p, at, i.s) THEN [next EXCEPT !.A = Extract(p, at, i.s)] ELSE end(Rejected)
          [] i.c = "LDX" /\ i.m = "MSH" ->
               IF Loads(p, at, 1) THEN [next EXCEPT !.X = (Extract(p, at, 1) % 16) * 4] ELSE end(Rejected)
          [] i.c \in {"LD", "LDX"} /\ i.m = "MEM" ->
               IF i.k \notin DOMAIN s.mem THEN end(Broken("unset"))
               ELSE IF i.c = "LD" THEN [next EXCEPT !.A = s.mem[i.k]] ELSE [next EXCEPT !.X = s.mem[i.k]]
          [] i.c = "LD"  -> [next EXCEPT !.A = IF i.m = "LEN" THEN wirelen ELSE i.k]
          [] i.c = "LDX" -> [next EXCEPT !.X = IF i.m = "LEN" THEN wirelen ELSE i.k]
          [] i.c = "ST"  -> [next EXCEPT !.mem = (i.k :> s.A) @@ @]
          [] i.c = "STX" -> [next EXCEPT !.mem = (i.k :> s.X) @@ @]
          [] i.c = "JMP" /\ i.m = "JA" -> [next EXCEPT !.pc = @ + i.k]
          [] i.c = "JMP" -> [next EXCEPT !.pc = @ + (IF Holds(i.m, s.A, v) THEN i.jt ELSE i.jf)]
          [] i.c = "ALU" /\ i.m = "NEG" -> [next EXCEPT !.A = Negative(@)]
          [] i.c = "ALU" -> IF i.m = "DIV" /\ v = 0 THEN end(IF i.x THEN Rejected ELSE Broken("division"))
                            ELSE [next EXCEPT !.A = Alu(i.m, @, v)]
          [] i.c = "TAX" -> [next EXCEPT !.X = s.A]
          [] i.c = "TXA" -> [next EXCEPT !.A = s.X]

\* At most 2^n instructions of a program that has not returned.
RECURSIVE Steps(_, _, _, _, _)
Steps(n, f, p, wirelen, s) ==
    CASE s.ret # Running -> s
      [] n = 0 -> Execute(f, p, wirelen, s)
      [] OTHER -> Steps(n - 1, f, p, wirelen, Steps(n - 1, f, p, wirelen, s))

StepBits == 10
\* Where there is no program every packet is accepted.
bpf_filter(f, p, wirelen) ==
    IF f = <<>> THEN Returned(-1)
    ELSE Steps(StepBits, f, p, wirelen, [pc |-> 1, A |-> 0, X |-> 0, mem |-> <<>>, ret |-> Running]).ret

\* Jumps stay inside the program, scratch words exist, a constant is divided by
\* only when it is not 0, and the last instruction returns.
bpf_validate(f) ==
    /\ Len(f) >= 1
    /\ \A n \in DOMAIN f :
          LET i == f[n]
          IN  /\ (i.c \in {"ST", "STX"} \/ (i.c \in {"LD", "LDX"} /\ i.m = "MEM")) => i.k \in 0 .. BPF_MEMWORDS - 1
              /\ i.c = "ALU" /\ i.m = "DIV" /\ ~i.x => i.k # 0
              /\ i.c = "JMP" /\ i.m = "JA" => Below(Plus(n, i.k), Len(f))
              /\ i.c = "JMP" /\ i.m # "JA" => n + i.jt < Len(f) /\ n + i.jf < Len(f)
    /\ f[Len(f)].c = "RET"
=============================================================================
