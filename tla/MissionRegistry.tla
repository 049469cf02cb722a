---------------------------- MODULE MissionRegistry ----------------------------
(***************************************************************************)
(* What the control plane of pirate promises its clients, without the      *)
(* linked list behind it: a set of listed mission types, the subset of     *)
(* them that runs, and a monitor that is started for running missions and  *)
(* dismissed when there are none.  MissionControl implements it.           *)
(***************************************************************************)
CONSTANT MissionTypes

VARIABLES
  listed,     (* types some client has posted                               *)
  running,    (* types started and not stopped since                        *)
  watched,    (* a monitor was started                                      *)
  dismissed,  (* the monitor was told to stop                               *)
  alive       (* the process runs                                           *)

vars == <<listed, running, watched, dismissed, alive>>

Init ==
  /\ listed = {} /\ running = {}
  /\ watched = FALSE /\ dismissed = FALSE
  /\ alive = TRUE

(* A mission of type t is posted; it does not run yet, and one of the same *)
(* type that runs goes on.                                                 *)
Post(t) ==
  /\ alive
  /\ listed' = listed \cup {t}
  /\ UNCHANGED <<running, watched, dismissed, alive>>

Start(t) ==
  /\ alive /\ t \in listed
  /\ running' = running \cup {t}
  /\ UNCHANGED <<listed, watched, dismissed, alive>>

Stop(t) ==
  /\ alive /\ t \in listed
  /\ running' = running \ {t}
  /\ UNCHANGED <<listed, watched, dismissed, alive>>

(* The one monitor is started, for a mission that runs.                    *)
Watch ==
  /\ alive /\ ~watched /\ running # {}
  /\ watched' = TRUE
  /\ UNCHANGED <<listed, running, dismissed, alive>>

(* The monitor is told to stop, when nothing runs.                         *)
Dismiss ==
  /\ alive /\ watched /\ running = {}
  /\ dismissed' = TRUE
  /\ UNCHANGED <<listed, running, watched, alive>>

Die ==
  /\ alive /\ alive' = FALSE
  /\ UNCHANGED <<listed, running, watched, dismissed>>

Next ==
  \/ \E t \in MissionTypes : Post(t) \/ Start(t) \/ Stop(t)
  \/ Watch \/ Dismiss \/ Die

Spec == Init /\ [][Next]_vars
================================================================================
