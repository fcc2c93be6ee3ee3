--------------------------- MODULE MCPolkitAgent ---------------------------
(***************************************************************************)
(* The instance of PolkitAgent for TLC: three launches, so that a count    *)
(* can go up and down between its ends, an agent for each of them, and one *)
(* fault.  That launches start and end are liveness properties, so no      *)
(* symmetry is declared.                                                   *)
(***************************************************************************)
EXTENDS PolkitAgent
=============================================================================
