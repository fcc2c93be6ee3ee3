-------------------------- MODULE MCPortalIdentity --------------------------
(***************************************************************************)
(* The instance of PortalIdentity for TLC: two portal processes that       *)
(* replace each other, two registrations in flight (one of them always     *)
(* cancelled), waits nested two deep and one fault.  A stable owner is a   *)
(* liveness property, so no symmetry is declared.                          *)
(***************************************************************************)
EXTENDS PortalIdentity
=============================================================================
