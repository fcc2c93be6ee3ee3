----------------------------- MODULE MCScuHost -----------------------------
(* Instances of ScuHost for TLC.                                            *)
EXTENDS ScuHost, TLC

Symmetry == Permutations(Spaces) \cup Permutations(Leases) \cup Permutations(Clients)
=============================================================================
