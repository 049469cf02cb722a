--------------------------- MODULE MCMissionControl ---------------------------
(* Small instances of MissionControl for TLC.  Three entries of two types   *)
(* make room for a duplicate in front of, between and behind other entries. *)
EXTENDS MissionControl

CONSTANTS scan, storm, a1

MCMissionTypes == {scan, storm}
MCAddresses == {a1}
===============================================================================
