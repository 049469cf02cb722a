----------------------------- MODULE MCCapture -----------------------------
(***************************************************************************)
(* Packet capture: how handles are opened and closed, and how one that is  *)
(* open is read, each explored while the other keeps its initial state.    *)
(* The reader starts from what MapRing or PlainSocket leave: an active     *)
(* handle with a ring, or with a socket and a buffer.                      *)
(***************************************************************************)
EXTENDS CaptureRing, CaptureHandle

VARIABLE part        \* what is explored

Kind(tag, out, lo, len, vlan, bad) ==
  [tag |-> tag, out |-> out, lo |-> lo, len |-> len, vlan |-> vlan, bad |-> bad]
MC_Kinds ==
  {Kind("a", FALSE, FALSE, 90, FALSE, "room"), Kind("b", TRUE, FALSE, 60, TRUE, "no"),
   Kind("b", TRUE, TRUE, 100, FALSE, "corrupt")}
MC_Filters ==
  {[tags |-> {"a"}, reads |-> {0, 14, 20}, ret |-> 80, long |-> FALSE],
   [tags |-> {"b"}, reads |-> {6}, ret |-> 80, long |-> TRUE]}
MC_Counts == {-1, 1}
Mode(version, cooked, timeout) == [version |-> version, cooked |-> cooked, timeout |-> timeout]
MC_Modes == {Mode("V1", FALSE, 5), Mode("V2", TRUE, 0), Mode("V3", FALSE, 5),
             Mode("socket", FALSE, 0), Mode("socket", TRUE, 0)}

Option(any, promisc, rfmon, size) ==
  [any |-> any, promisc |-> promisc, rfmon |-> rfmon, buffer_size |-> size]
MC_Options ==
  {Option(FALSE, TRUE, FALSE, 100000), Option(TRUE, TRUE, FALSE, 0), Option(TRUE, FALSE, TRUE, 0),
   Option(FALSE, TRUE, TRUE, 0)}
Private(name, args) == [name |-> name, args |-> args]
System(version, limited, arptypes, isdn, privs) ==
  [version |-> version, limited |-> limited, arptypes |-> arptypes, isdn |-> isdn, privs |-> privs]
MC_Systems ==
  {System("V2", FALSE, {"IEEE80211"}, FALSE, <<Private("monitor", 1), Private("prismhdr", 0)>>),
   System("V3", TRUE, {"ETHER"}, TRUE, <<Private("monitor", 1), Private("monitor_type", 1)>>),
   System("none", TRUE, {"ETHER"}, FALSE, <<Private("monitor", 2)>>),
   System("old", TRUE, {"ETHER", "ATM"}, FALSE, <<>>)}

\* What is not explored starts in one way only.
Init == /\ CaptureInit /\ HandleInit /\ part \in {"reading", "handles"}
        /\ IF part = "reading" THEN w.sys.version = "old" ELSE how.version = "V1"
Next == \/ part = "reading" /\ CaptureNext /\ UNCHANGED <<part, w>>
        \/ part = "handles" /\ HandleNext /\ UNCHANGED <<part, capture>>

\* The reading thread runs, and so does the kernel's timer of a block.
Running_capture(A) == part = "reading" /\ A /\ UNCHANGED <<part, w>>
vars == <<capture, w, part>>
Spec == Init /\ [][Next]_vars /\ WF_vars(Running_capture(Reader)) /\ WF_vars(Running_capture(Retire))
============================================================================
