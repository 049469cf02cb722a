--------------------------- MODULE MCNetworkTests ---------------------------
(***************************************************************************)
(* The network tests: what they build, and when their packets leave, each  *)
(* explored while the other one keeps its initial state.  The two meet in  *)
(* do_sleep only, which reads nothing of the packet but its length.        *)
(***************************************************************************)
EXTENDS StormPacing, PacketTests

VARIABLE part        \* what is explored

Init == StormInit /\ TestsInit /\ part \in {"pacing", "tests"}
Next == \/ part = "pacing" /\ StormNext /\ UNCHANGED <<part, tests>>
        \/ part = "tests" /\ TestsNext /\ UNCHANGED <<part, pacing>>

\* The thread of a test runs, and its caller waits for it.
Running_test(A) == part = "tests" /\ A /\ UNCHANGED <<part, pacing>>
vars == <<pacing, tests, part>>
Spec == Init /\ [][Next]_vars /\ WF_vars(Running_test(libnet_init)) /\ WF_vars(Running_test(Packet))
=============================================================================
