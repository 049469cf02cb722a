---------------------------- MODULE FeedbackChannel ----------------------------
(***************************************************************************)
(* What the feedback list promises: results go in one at a time and come   *)
(* out in batches, each once and in the order they went in.                *)
(***************************************************************************)
EXTENDS Naturals, Sequences

CONSTANT Messages

VARIABLES
  in,     (* what went in, first to last                                    *)
  out     (* what came out                                                  *)

vars == <<in, out>>

Init == in = <<>> /\ out = <<>>

Put ==
  /\ \E r \in Messages : in' = Append(in, r)
  /\ UNCHANGED out

(* The next results, at least one, come out together.                      *)
Deliver ==
  /\ \E k \in (Len(out) + 1) .. Len(in) : out' = SubSeq(in, 1, k)
  /\ UNCHANGED in

Next == Put \/ Deliver

Spec == Init /\ [][Next]_vars
================================================================================
