---------------------------- MODULE MCCredentials ----------------------------
(* The two services that keep a user's credentials out of the space, side by *)
(* side: they share no state, so each behaviour is one of either service,    *)
(* with the other at rest in one of its initial states.                      *)
EXTENDS SecretHelper, AuthService

Init == SecretInit /\ AuthInit

AtRest ==
    \/ AuthInit /\ limit = 1
    \/ SecretInit /\ wallets = 0

Next ==
    \/ SecretNext /\ UNCHANGED authVars
    \/ AuthNext /\ UNCHANGED secretVars

Spec == Init /\ [][Next /\ AtRest']_<<secretVars, authVars>> /\ AuthFairness
====
