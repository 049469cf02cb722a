---------------------------- MODULE MCPingThread ----------------------------
(***************************************************************************)
(* The two kinds of bookkeeping of the ping thread, each explored while    *)
(* the other one keeps its initial state: what pinger decides from the     *)
(* clock does not read the counters, and the counters do not read the      *)
(* clock.                                                                  *)
(***************************************************************************)
EXTENDS PingWindow, PingPacing

VARIABLE part        \* the bookkeeping that is explored

Init == /\ WindowInit /\ PacingInit
        /\ part \in {"window", "pacing"}
        /\ part = "window" => now = UsPerSec
Next == \/ part = "window" /\ WindowNext /\ UNCHANGED <<part, bucket>>
        \/ part = "pacing" /\ PacingNext /\ UNCHANGED <<part, window>>
Spec == Init /\ [][Next]_<<window, bucket, part>>
=============================================================================
