------------------------------ MODULE MCLists ------------------------------
(***************************************************************************)
(* The lists of mylist.h under any sequence of calls, and the one list     *)
(* that two threads share, each explored while the other keeps its initial *)
(* state: no list of the one has an entry of the other.                    *)
(***************************************************************************)
EXTENDS ListMachine, FeedbackQueue

VARIABLE part        \* what is explored

MCInit == ListInit /\ Init /\ part \in {"lists", "feedback"}
MCNext == \/ part = "lists" /\ ListNext /\ UNCHANGED <<part, vars>>
          \/ part = "feedback" /\ Next /\ UNCHANGED <<part, machine>>

\* The fairness of FeedbackQueue, where it is explored.
Running(A) == part = "feedback" /\ A /\ UNCHANGED <<part, machine>>
all == <<machine, vars, part>>
MCSpec == /\ MCInit /\ [][MCNext]_all
          /\ WF_all(Running(PingStep)) /\ SF_all(Running(Feedback_lock))
          /\ WF_all(Running(tick)) /\ WF_all(Running(timer))
          /\ WF_all(Running(IterateStep)) /\ SF_all(Running(iterate_lock))
=============================================================================
