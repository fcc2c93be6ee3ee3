----------------------------- MODULE SystemPort -----------------------------
(***************************************************************************)
(* What the system bus bridge promises the programs on both buses: a call  *)
(* is answered at most once, by the other side or by the bridge, and what  *)
(* a guest receives over one connection keeps the order in which the       *)
(* service sent it.  Nothing else is promised: signals may be lost and a   *)
(* refusal of the bridge may come at any time.                             *)
(***************************************************************************)
EXTENDS Naturals, Sequences

CONSTANTS Guests, Calls, Conns, None

VARIABLES asked,    \* calls that were made
          answers,  \* how often each call was answered
          sent,     \* messages of the service so far
          got       \* what each guest received: call, connection, place in `sent`

portVars == <<asked, answers, sent, got>>

PortInit ==
    /\ asked = {}
    /\ answers = [k \in Calls |-> 0]
    /\ sent = 0
    /\ got = [g \in Guests |-> <<>>]

Ask(k) == asked' = asked \cup {k}

Open(k) == k \in asked /\ answers[k] = 0

\* An answer that no guest's order is about: a refusal, or a callback's.
Settle(k) ==
    /\ Open(k)
    /\ answers' = [answers EXCEPT ![k] = 1]
    /\ UNCHANGED got

\* A message in its place among those the guests had over this connection;
\* place 0 is an answer the bridge made, or one that lost its place.
InOrder(g, c, n) ==
    n = 0 \/ \A i \in DOMAIN got[g] : got[g][i].conn = c => got[g][i].stamp < n

Receive(to, k, c, n) ==
    /\ n <= sent
    /\ \A g \in to : InOrder(g, c, n)
    /\ got' = [g \in Guests |-> IF g \in to
                                THEN Append(got[g], [call |-> k, conn |-> c, stamp |-> n])
                                ELSE got[g]]
    /\ IF k = None THEN UNCHANGED answers
       ELSE Open(k) /\ answers' = [answers EXCEPT ![k] = 1]

PortNext ==
    \/ \E k \in Calls : Ask(k) /\ UNCHANGED <<answers, sent, got>>
    \/ \E k \in Calls : Ask(k) /\ answers[k] = 0 /\ answers' = [answers EXCEPT ![k] = 1]
                               /\ UNCHANGED <<sent, got>>
    \/ sent' = sent + 1 /\ UNCHANGED <<asked, answers, got>>
    \/ \E k \in Calls : Settle(k) /\ UNCHANGED <<asked, sent>>
    \/ \E to \in SUBSET Guests, k \in Calls \cup {None}, c \in Conns \cup {None}, n \in 0..sent :
            Receive(to, k, c, n) /\ UNCHANGED <<asked, sent>>

PortSpec == PortInit /\ [][PortNext]_portVars
====
