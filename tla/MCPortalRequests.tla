-------------------------- MODULE MCPortalRequests --------------------------
(* Instances of PortalRequests for TLC.                                     *)
EXTENDS PortalRequests, TLC

CONSTANTS Bystander  \* an application that makes one direct session first, or nothing

(* Bound on the second application: it is there to own a session, until it *)
(* leaves, while the other one calls, closes and leaves.                   *)
BystanderBound ==
    \A c \in Numbers : calls[c].app = Bystander =>
        /\ c = 1 /\ calls[c].kind = "Direct"
        /\ Len(calls) > 1 => calls[c].sess = "told"

(* Calls to the screen saver come before calls of other kinds: they share  *)
(* nothing but the owner with them, and are answered at any later time.    *)
ScreenFirst ==
    \A c, d \in Numbers : c < d /\ calls[d].kind \in Screen
                            => calls[c].kind \in Screen \/ calls[c].app = Bystander

(* A third call is made beside something that lasts: a persistent request, *)
(* an inhibition or the session of the other application.                  *)
ThirdBesideLasting ==
    Len(calls) = 3 => calls[1].kind \in {"Acquire", "Inhibit"} \/ calls[1].app = Bystander
=============================================================================
