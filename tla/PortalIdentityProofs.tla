------------------------ MODULE PortalIdentityProofs ------------------------
(***************************************************************************)
(* Type correctness of PortalIdentity, and the safety of the identity: a   *)
(* portal that receives a call of the space has accepted the registration  *)
(* of the very connection the call came from.                              *)
(***************************************************************************)
EXTENDS PortalIdentity, TLAPS

USE NoneAssumption, NoAttemptAssumption, BoundAssumption

-----------------------------------------------------------------------------
(* Parts of the inductive invariant.                                        *)

\* Two outstanding calls never share a cancellable.
IdsUnique == \A c, d \in calls : c.id = d.id => c = d

\* portal_registration belongs to a call to the owner the broker knows.
AttemptAddressesOwner ==
    registration # NoAttempt =>
        \E c \in calls : c.id = registration /\ c.to = portalOwner

\* An armed retry has somebody to register with.
RetryHasOwner == retry => portalOwner # None

\* A successful answer was preceded by the portal's acceptance.
OkIsAccepted == \A c \in calls : c.outcome = "ok" => <<c.to, conn>> \in accepted

\* Messages come from this or an earlier connection, and one of this
\* connection that a call still waits for goes where the call went.
MessagesMatch ==
    \A m \in msgs :
        /\ m.conn <= conn
        /\ m.conn = conn => \A c \in calls : c.id = m.id => c.to = m.to

\* A call on its way is addressed to an owner that certified the connection.
CallingIsCertified ==
    request.stage = "calling" => <<request.owner, conn>> \in accepted

\* An exited broker holds nothing.
ExitedIsEmpty ==
    status = "exited" =>
        /\ calls = {} /\ ~registered /\ request = Idle
        /\ registration = NoAttempt

\* A handler that is blocked has room for the wait that may follow.
BlockedBelowBound == request # Idle => waits < MaxWaits

IInv ==
    /\ TypeOK
    /\ IdsUnique
    /\ RetryHasOwner
    /\ AttemptAddressesOwner
    /\ OkIsAccepted
    /\ MessagesMatch
    /\ CallingIsCertified
    /\ ExitedIsEmpty
    /\ BlockedBelowBound
    /\ RegisteredIsCertified
    /\ OnlyRegisteredOwnerServes

-----------------------------------------------------------------------------

\* The doubled delay stays between 0 and the cap.
LEMMA NextDelayBounded ==
    ASSUME retryDelay \in 0..MaxDelay
    PROVE  NextDelay \in 0..MaxDelay
BY DEF NextDelay

\* Replacing outcomes keeps a set of calls a set of calls.
LEMMA CallsTyped ==
    ASSUME TypeOK, NEW m \in Message, NEW r \in {"ok", "refused"},
           NEW live
    PROVE  Answered(m, r) \subseteq Call /\ Cancelled(live) \subseteq Call
BY DEF TypeOK, Answered, Cancelled, Call, Outcomes, Message

\* A new attempt leaves typed fields.
LEMMA RegisterTyped ==
    ASSUME TypeOK, NEW owner \in Owners, NEW pending \in SUBSET Call,
           RegisterPortalIdentity(owner, pending)
    PROVE  /\ retry' \in BOOLEAN
           /\ registration' \in AttemptIds \cup {NoAttempt}
           /\ calls' \subseteq Call
           /\ msgs' \subseteq Message
<1>1. PICK id \in AttemptIds :
        /\ retry' = FALSE
        /\ registration' = id
        /\ calls' = pending \cup
               {[id |-> id, to |-> owner, outcome |-> "refused"]}
           \/ calls' = pending \cup
               {[id |-> id, to |-> owner, outcome |-> "pending"]}
        /\ \/ msgs' = msgs
           \/ msgs' = msgs \cup {[id |-> id, to |-> owner, conn |-> conn]}
  BY DEF RegisterPortalIdentity, FreshIds
<1>2. /\ [id |-> id, to |-> owner, outcome |-> "refused"] \in Call
      /\ [id |-> id, to |-> owner, outcome |-> "pending"] \in Call
      /\ [id |-> id, to |-> owner, conn |-> conn] \in Message
  BY DEF TypeOK, Call, Outcomes, Message
<1>3. QED
  BY <1>1, <1>2 DEF TypeOK

\* Notifications are appended, so the queue keeps its type.
LEMMA NotifyTyped ==
    ASSUME TypeOK, NEW o \in Owners \cup {None},
           \/ Notify(<<o>>)
           \/ Notify(<<None, o>>)
    PROVE  watchQ' \in Seq(Owners \cup {None})
<1> DEFINE S == Owners \cup {None}
<1>1. watchQ \in Seq(S) /\ <<o>> \in Seq(S) /\ <<None, o>> \in Seq(S)
  BY DEF TypeOK
<1>2. watchQ \o <<o>> \in Seq(S) /\ watchQ \o <<None, o>> \in Seq(S)
  BY <1>1
<1>3. QED
  BY <1>1, <1>2 DEF Notify

\* Every step keeps the types; the actions are taken one by one.
LEMMA TypeStep == IInv /\ [Next]_vars => TypeOK'
<1> SUFFICES ASSUME IInv, [Next]_vars PROVE TypeOK'
  OBVIOUS
<1>0. TypeOK /\ RetryHasOwner /\ BlockedBelowBound
  BY DEF IInv
<1> USE DEF busVars, identityVars, requestVars
<1>1. ASSUME NEW o \in Owners, OwnerAppears(o) PROVE TypeOK'
  <2>1. watchQ' \in Seq(Owners \cup {None})
    BY <1>0, <1>1, NotifyTyped DEF OwnerAppears
  <2>2. QED
    BY <1>0, <1>1, <2>1 DEF OwnerAppears, TypeOK
<1>2. CASE OwnerLeaves
  <2>1. watchQ' \in Seq(Owners \cup {None})
    BY <1>0, <1>2, NotifyTyped DEF OwnerLeaves
  <2>2. QED
    BY <1>0, <1>2, <2>1 DEF OwnerLeaves, TypeOK
<1>3. ASSUME NEW o \in Owners, OwnerExits(o) PROVE TypeOK'
  <2>1. calls' \subseteq Call
    BY <1>0, <1>3 DEF OwnerExits, Call, Outcomes, TypeOK
  <2>2. QED
    BY <1>0, <1>3, <2>1 DEF OwnerExits, TypeOK
<1>4. ASSUME NEW m \in msgs, PortalAccepts(m) PROVE TypeOK'
  <2>1. m \in Message /\ <<m.to, m.conn>> \in Owners \X Nat
    BY <1>0 DEF Message, TypeOK
  <2>2. QED
    BY <1>0, <1>4, <2>1, CallsTyped DEF PortalAccepts, TypeOK
<1>5. ASSUME NEW m \in msgs, PortalRefuses(m) PROVE TypeOK'
  <2>1. m \in Message
    BY <1>0 DEF TypeOK
  <2>2. faults' \in 0..MaxFaults
    BY <1>0, <1>5 DEF PortalRefuses, TypeOK
  <2>3. QED
    BY <1>0, <1>5, <2>1, <2>2, CallsTyped DEF PortalRefuses, TypeOK
<1>6. ASSUME NEW c \in calls, CallTimesOut(c) PROVE TypeOK'
  <2>1. [c EXCEPT !.outcome = "noreply"] \in Call
    BY <1>0 DEF Call, Outcomes, TypeOK
  <2>2. calls' \subseteq Call
    BY <1>0, <1>6, <2>1 DEF CallTimesOut, TypeOK
  <2>3. faults' \in 0..MaxFaults
    BY <1>0, <1>6 DEF CallTimesOut, TypeOK
  <2>4. QED
    BY <1>0, <1>6, <2>2, <2>3 DEF CallTimesOut, TypeOK
<1>7. CASE DispatchWatch
  <2>1. /\ watchQ' \in Seq(Owners \cup {None})
        /\ UNCHANGED <<busVars, accepted, conn, status, quitting, requestVars,
                       faults>>
    BY <1>0, <1>7 DEF DispatchWatch, TypeOK
  <2>2. /\ Head(watchQ) \in Owners \cup {None}
        /\ IF Head(watchQ) = None THEN PortalVanished
                                  ELSE PortalAppeared(Head(watchQ))
    BY <1>0, <1>7 DEF DispatchWatch, TypeOK
  <2>3. Cancelled(registration) \subseteq Call
    BY <1>0 DEF Cancelled, Call, Outcomes, TypeOK
  <2>4. ASSUME PortalVanished PROVE TypeOK'
    <3>1. /\ portalOwner' = None /\ registered' \in BOOLEAN
          /\ retry' \in BOOLEAN /\ retryDelay' = 1
          /\ registration' = NoAttempt
      BY <2>4 DEF PortalVanished
    <3>2. calls' \subseteq Call /\ msgs' = msgs
      BY <2>3, <2>4 DEF PortalVanished
    <3>3. QED
      BY <1>0, <2>1, <3>1, <3>2 DEF TypeOK
  <2>5. ASSUME NEW o \in Owners, PortalAppeared(o) PROVE TypeOK'
    <3>1. /\ retry' \in BOOLEAN
          /\ registration' \in AttemptIds \cup {NoAttempt}
          /\ calls' \subseteq Call
          /\ msgs' \subseteq Message
      BY <1>0, <2>3, <2>5, RegisterTyped DEF PortalAppeared
    <3>2. portalOwner' \in Owners /\ registered' \in BOOLEAN /\ retryDelay' = 1
      BY <2>5 DEF PortalAppeared
    <3>3. QED
      BY <1>0, <2>1, <3>1, <3>2 DEF TypeOK
  <2>6. QED
    BY <2>2, <2>4, <2>5
<1>8. CASE RetryRegistration
  <2>1. portalOwner \in Owners /\ calls \subseteq Call
    BY <1>0, <1>8 DEF RetryRegistration, RetryHasOwner, TypeOK
  <2>2. /\ retry' \in BOOLEAN
        /\ registration' \in AttemptIds \cup {NoAttempt}
        /\ calls' \subseteq Call
        /\ msgs' \subseteq Message
    BY <1>0, <1>8, <2>1, RegisterTyped DEF RetryRegistration
  <2>3. QED
    BY <1>0, <1>8, <2>2 DEF RetryRegistration, TypeOK
<1>9. ASSUME NEW c \in calls, PortalRegistrationDone(c) PROVE TypeOK'
  <2>1. NextDelay \in 0..MaxDelay
    BY <1>0, NextDelayBounded DEF TypeOK
  <2>2. /\ registered' \in BOOLEAN /\ retry' \in BOOLEAN
        /\ quitting' \in BOOLEAN /\ retryDelay' \in 0..MaxDelay
        /\ registration' \in AttemptIds \cup {NoAttempt}
        /\ portalOwner' = portalOwner
    BY <1>0, <1>9, <2>1 DEF PortalRegistrationDone, TypeOK, QuitsForRestart
  <2>3. calls' \subseteq Call /\ watchQ' = watchQ
    BY <1>0, <1>9 DEF PortalRegistrationDone, TypeOK
  <2>4. QED
    BY <1>0, <1>9, <2>2, <2>3 DEF PortalRegistrationDone, TypeOK
<1>10. CASE LookUpOwner
  BY <1>0, <1>10 DEF LookUpOwner, TypeOK, Request
<1>11. CASE PortalDestination
  BY <1>0, <1>11 DEF PortalDestination, TypeOK, Request, Idle
<1>12. CASE PortalServes
  <2>1. waits' \in 0..MaxWaits
    BY <1>0, <1>12 DEF PortalServes, TypeOK, BlockedBelowBound, Idle
  <2>2. served' \subseteq Owners \X Nat
    BY <1>0, <1>12 DEF PortalServes, TypeOK, Addressee
  <2>3. QED
    BY <1>0, <1>12, <2>1, <2>2 DEF PortalServes, TypeOK, Request, Idle
<1>13. CASE PortalCallFails
  BY <1>0, <1>13 DEF PortalCallFails, TypeOK, Request, Idle
<1>14. CASE WaitReturns \/ \E i \in 1..MaxWaits : WaitEnds(i)
  <2>1. waits' \in 0..MaxWaits /\ over' \subseteq 1..MaxWaits
    <3>1. /\ waits \in 0..MaxWaits /\ over \subseteq 1..MaxWaits
          /\ MaxWaits \in Nat
      BY <1>0, BoundAssumption DEF TypeOK
    <3>2. CASE WaitReturns
      BY <3>1, <3>2 DEF WaitReturns
    <3>3. ASSUME NEW i \in 1..MaxWaits, WaitEnds(i)
          PROVE  waits' \in 0..MaxWaits /\ over' \subseteq 1..MaxWaits
      BY <3>1, <3>3 DEF WaitEnds
    <3>4. QED
      BY <1>14, <3>2, <3>3
  <2>2. UNCHANGED <<busVars, accepted, msgs, watchQ, conn, status,
                    identityVars, calls, quitting, request, served, faults>>
    BY <1>14 DEF WaitEnds, WaitReturns
  <2>3. QED
    BY <1>0, <2>1, <2>2 DEF TypeOK, busVars, identityVars
<1>15. CASE Exit \/ Crash
  <2>1. ProcessEnds /\ faults' \in 0..MaxFaults
    BY <1>0, <1>15 DEF Exit, Crash, TypeOK, ProcessEnds
  <2>2. /\ portalOwner' = None /\ registered' \in BOOLEAN
        /\ registration' = NoAttempt /\ retry' \in BOOLEAN
        /\ retryDelay' = 0 /\ quitting' \in BOOLEAN
        /\ status' = "exited" /\ waits' = 0 /\ over' = {}
    BY <2>1 DEF ProcessEnds
  <2>3. /\ watchQ' \in Seq(Owners \cup {None})
        /\ calls' \subseteq Call
        /\ request' \in Request
        /\ UNCHANGED <<busVars, accepted, msgs, conn, served>>
    BY <2>1 DEF ProcessEnds, Request, Idle
  <2>4. QED
    BY <1>0, <2>1, <2>2, <2>3 DEF TypeOK
<1>16. CASE StopBroker
  BY <1>0, <1>16 DEF StopBroker, TypeOK
<1>17. CASE StartBroker
  BY <1>0, <1>17 DEF StartBroker, TypeOK
<1>18. CASE UNCHANGED vars
  BY <1>0, <1>18 DEF vars, TypeOK
<1>19. QED
  BY <1>1, <1>2, <1>3, <1>4, <1>5, <1>6, <1>7, <1>8, <1>9, <1>10, <1>11,
     <1>12, <1>13, <1>14, <1>15, <1>16, <1>17, <1>18
  DEF Next, Portal, Broker

-----------------------------------------------------------------------------
(* Preservation of the other parts.                                         *)

\* The facts about outstanding calls that depend on ids and addressees only.
CallFacts ==
    /\ IdsUnique
    /\ AttemptAddressesOwner
    /\ MessagesMatch

\* Changing outcomes touches neither ids nor addressees, so whatever was said
\* of them still holds when no message is added and no attempt begins.
LEMMA OutcomeChange ==
    ASSUME TypeOK, CallFacts,
           NEW G, NEW r \in Outcomes,
           calls' = {IF c \in G THEN [c EXCEPT !.outcome = r] ELSE c : c \in calls},
           msgs' \subseteq msgs,
           UNCHANGED <<conn, portalOwner>>,
           registration' \in {registration, NoAttempt}
    PROVE  CallFacts'
<1> DEFINE f(c) == IF c \in G THEN [c EXCEPT !.outcome = r] ELSE c
<1>1. \A c \in calls : f(c).id = c.id /\ f(c).to = c.to
  BY DEF TypeOK, Call
<1>2. calls' = {f(c) : c \in calls}
  OBVIOUS
<1> HIDE DEF f
<1>3. IdsUnique'
  BY <1>1, <1>2 DEF CallFacts, IdsUnique
<1>4. AttemptAddressesOwner'
  BY <1>1, <1>2 DEF CallFacts, AttemptAddressesOwner
<1>5. MessagesMatch'
  BY <1>1, <1>2 DEF CallFacts, MessagesMatch
<1>6. QED
  BY <1>3, <1>4, <1>5 DEF CallFacts

\* A fresh id clashes with no callback and with no unread message.
LEMMA RegisterKeepsCallFacts ==
    ASSUME TypeOK, NEW owner \in Owners, NEW pending \in SUBSET Call,
           RegisterPortalIdentity(owner, pending),
           \A c, d \in pending : c.id = d.id => c = d,
           \A m \in msgs : /\ m.conn <= conn
                           /\ m.conn = conn =>
                                \A c \in pending : c.id = m.id => c.to = m.to,
           portalOwner' = owner, conn' = conn
    PROVE  CallFacts' /\ registration' # NoAttempt /\ retry' = FALSE
<1>1. PICK id \in FreshIds(pending), call \in Call :
        /\ retry' = FALSE
        /\ registration' = id
        /\ call.id = id /\ call.to = owner
        /\ calls' = pending \cup {call}
        /\ \/ msgs' = msgs
           \/ msgs' = msgs \cup {[id |-> id, to |-> owner, conn |-> conn]}
  BY DEF RegisterPortalIdentity, FreshIds, Call, Outcomes
<1>2. /\ id \in AttemptIds
      /\ \A c \in pending : c.id # id
      /\ \A m \in msgs : m.conn = conn => m.id # id
  BY DEF FreshIds
<1>3. IdsUnique'
  BY <1>1, <1>2 DEF IdsUnique
<1>4. AttemptAddressesOwner'
  BY <1>1 DEF AttemptAddressesOwner
<1>5. MessagesMatch'
  <2> SUFFICES ASSUME NEW m \in msgs'
               PROVE  /\ m.conn <= conn
                      /\ m.conn = conn => \A c \in calls' : c.id = m.id => c.to = m.to
    BY DEF MessagesMatch
  <2>1. CASE m \in msgs
    BY <1>1, <1>2, <2>1
  <2>2. CASE m = [id |-> id, to |-> owner, conn |-> conn]
    BY <1>1, <1>2, <2>2 DEF TypeOK
  <2>3. QED
    BY <1>1, <2>1, <2>2
<1>6. QED
  BY <1>1, <1>2, <1>3, <1>4, <1>5 DEF CallFacts

\* Every step keeps the facts about ids and addressees.
LEMMA CallFactsStep == IInv /\ [Next]_vars => CallFacts'
<1> SUFFICES ASSUME IInv, [Next]_vars PROVE CallFacts'
  OBVIOUS
<1>0. TypeOK /\ CallFacts /\ RetryHasOwner /\ ExitedIsEmpty
  BY DEF IInv, CallFacts
<1> USE DEF busVars, identityVars, requestVars
<1>1. CASE UNCHANGED <<calls, msgs, conn, portalOwner, registration>>
  BY <1>0, <1>1 DEF CallFacts, IdsUnique, AttemptAddressesOwner, MessagesMatch
<1>2. ASSUME NEW o \in Owners, OwnerExits(o) PROVE CallFacts'
  <2> DEFINE G == {c \in calls : c.to = o /\ c.outcome = "pending"}
  <2>1. calls' = {IF c \in G THEN [c EXCEPT !.outcome = "noreply"] ELSE c :
                  c \in calls}
    BY <1>2 DEF OwnerExits
  <2>2. msgs' \subseteq msgs /\ UNCHANGED <<conn, portalOwner, registration>>
    BY <1>2 DEF OwnerExits
  <2>3. QED
    BY <1>0, <2>1, <2>2, OutcomeChange DEF Outcomes
<1>3. ASSUME NEW m \in msgs, NEW r \in {"ok", "refused"},
             calls' = Answered(m, r), msgs' = msgs \ {m},
             UNCHANGED <<conn, portalOwner, registration>>
      PROVE  CallFacts'
  <2> DEFINE G == {c \in calls : c.id = m.id /\ m.conn = conn
                                 /\ c.outcome = "pending"}
  <2>1. calls' = {IF c \in G THEN [c EXCEPT !.outcome = r] ELSE c : c \in calls}
    BY <1>3 DEF Answered
  <2>2. r \in Outcomes /\ msgs' \subseteq msgs
    BY <1>3 DEF Outcomes
  <2> HIDE DEF G
  <2>3. QED
    BY <1>0, <1>3, <2>1, <2>2, OutcomeChange
<1>4. ASSUME NEW c \in calls, CallTimesOut(c) PROVE CallFacts'
  <2>1. calls' = {IF d \in {c} THEN [d EXCEPT !.outcome = "noreply"] ELSE d :
                  d \in calls}
    BY <1>4 DEF CallTimesOut
  <2>2. msgs' = msgs /\ UNCHANGED <<conn, portalOwner, registration>>
    BY <1>4 DEF CallTimesOut
  <2>3. QED
    BY <1>0, <2>1, <2>2, OutcomeChange DEF Outcomes
<1>5. CASE DispatchWatch
  <2> DEFINE G == {c \in calls : c.id = registration /\ c.outcome = "pending"}
  <2>1. Cancelled(registration)
          = {IF c \in G THEN [c EXCEPT !.outcome = "cancelled"] ELSE c :
             c \in calls}
    BY DEF Cancelled
  <2>2. conn' = conn
    BY <1>5 DEF DispatchWatch
  <2>3. ASSUME PortalVanished PROVE CallFacts'
    <3>1. /\ calls' = Cancelled(registration) /\ msgs' = msgs
          /\ portalOwner' = None /\ registration' = NoAttempt
      BY <2>3 DEF PortalVanished
    <3>2. \A c \in Cancelled(registration) :
            \E d \in calls : c.id = d.id /\ c.to = d.to
      BY <1>0 DEF Cancelled, TypeOK, Call
    <3>3. \A c, d \in Cancelled(registration) : c.id = d.id => c = d
      BY <1>0 DEF Cancelled, TypeOK, Call, CallFacts, IdsUnique
    <3>4. IdsUnique' /\ AttemptAddressesOwner'
      BY <3>1, <3>3 DEF IdsUnique, AttemptAddressesOwner
    <3>5. MessagesMatch'
      BY <1>0, <2>2, <3>1, <3>2 DEF MessagesMatch, CallFacts
    <3>6. QED
      BY <3>4, <3>5 DEF CallFacts
  <2>4. ASSUME NEW o \in Owners, PortalAppeared(o) PROVE CallFacts'
    <3>1. Cancelled(registration) \in SUBSET Call
      BY <1>0 DEF Cancelled, Call, Outcomes, TypeOK
    <3>2. \A c \in Cancelled(registration) :
            \E d \in calls : c.id = d.id /\ c.to = d.to
      BY <1>0 DEF Cancelled, TypeOK, Call
    <3>3. \A c, d \in Cancelled(registration) : c.id = d.id => c = d
      BY <1>0 DEF Cancelled, TypeOK, Call, CallFacts, IdsUnique
    <3>4. \A m \in msgs :
            /\ m.conn <= conn
            /\ m.conn = conn =>
                 \A c \in Cancelled(registration) : c.id = m.id => c.to = m.to
      BY <1>0, <3>2 DEF CallFacts, MessagesMatch
    <3>5. RegisterPortalIdentity(o, Cancelled(registration)) /\ portalOwner' = o
      BY <2>4 DEF PortalAppeared
    <3>6. QED
      BY <1>0, <2>2, <3>1, <3>3, <3>4, <3>5, RegisterKeepsCallFacts
  <2>5. /\ Head(watchQ) \in Owners \cup {None}
        /\ IF Head(watchQ) = None THEN PortalVanished
                                  ELSE PortalAppeared(Head(watchQ))
    BY <1>0, <1>5 DEF DispatchWatch, TypeOK
  <2>6. QED
    BY <2>3, <2>4, <2>5
<1>6. CASE RetryRegistration
  <2>1. /\ portalOwner \in Owners /\ calls \in SUBSET Call
        /\ portalOwner' = portalOwner /\ conn' = conn
        /\ RegisterPortalIdentity(portalOwner, calls)
    BY <1>0, <1>6 DEF RetryRegistration, RetryHasOwner, TypeOK
  <2>2. QED
    BY <1>0, <2>1, RegisterKeepsCallFacts
    DEF CallFacts, IdsUnique, MessagesMatch
<1>7. ASSUME NEW c \in calls, PortalRegistrationDone(c) PROVE CallFacts'
  <2>1. /\ calls' = calls \ {c} /\ msgs' = msgs /\ conn' = conn
        /\ portalOwner' = portalOwner
        /\ \/ registration' = registration /\ registration # c.id
           \/ registration' = NoAttempt
    BY <1>7 DEF PortalRegistrationDone, Current
  <2>2. QED
    BY <1>0, <2>1
    DEF CallFacts, IdsUnique, AttemptAddressesOwner, MessagesMatch
<1>8. CASE Exit \/ Crash
  <2>1. /\ calls' = {} /\ registration' = NoAttempt /\ msgs' = msgs
        /\ conn' = conn
    BY <1>8 DEF Exit, Crash, ProcessEnds
  <2>2. QED
    BY <1>0, <2>1
    DEF CallFacts, IdsUnique, AttemptAddressesOwner, MessagesMatch
<1>9. CASE StartBroker
  <2>1. /\ calls = {} /\ registration = NoAttempt /\ calls' = calls
        /\ registration' = registration /\ msgs' = msgs /\ conn' = conn + 1
    BY <1>0, <1>9 DEF StartBroker, ExitedIsEmpty
  <2>2. \A m \in msgs : m.conn <= conn /\ m.conn \in Nat
    BY <1>0 DEF CallFacts, MessagesMatch, TypeOK, Message
  <2>3. QED
    BY <1>0, <2>1, <2>2
    DEF CallFacts, IdsUnique, AttemptAddressesOwner, MessagesMatch, TypeOK
<1>10. ASSUME NEW m \in msgs, PortalAccepts(m) \/ PortalRefuses(m)
       PROVE  CallFacts'
  BY <1>3, <1>10 DEF PortalAccepts, PortalRefuses
<1>11. QED
  BY <1>1, <1>2, <1>4, <1>5, <1>6, <1>7, <1>8, <1>9, <1>10
  DEF Next, Portal, Broker, OwnerAppears, OwnerLeaves, LookUpOwner,
      PortalDestination, PortalServes, PortalCallFails, WaitEnds,
      WaitReturns, StopBroker, vars

\* No step takes a registration back.
LEMMA AcceptedGrows == [Next]_vars => accepted \subseteq accepted'
BY DEF Next, Portal, Broker, vars, OwnerAppears, OwnerLeaves, OwnerExits,
       PortalAccepts, PortalRefuses, CallTimesOut, DispatchWatch,
       RetryRegistration, PortalRegistrationDone, LookUpOwner,
       PortalDestination, PortalServes, PortalCallFails, WaitEnds,
       WaitReturns, Exit, Crash, ProcessEnds, StopBroker, StartBroker, busVars, identityVars, requestVars

\* An answer "ok" is produced by the acceptance it reports, and survives only
\* as long as the connection.
LEMMA OkStep == IInv /\ [Next]_vars => OkIsAccepted'
<1> SUFFICES ASSUME IInv, [Next]_vars PROVE OkIsAccepted'
  OBVIOUS
<1>0. TypeOK /\ OkIsAccepted /\ MessagesMatch /\ ExitedIsEmpty
      /\ accepted \subseteq accepted'
  BY AcceptedGrows DEF IInv
<1> USE DEF busVars, identityVars, requestVars
<1>1. ASSUME conn' = conn,
             \A d \in calls' : d.outcome = "ok" => d \in calls
      PROVE  OkIsAccepted'
  BY <1>0, <1>1 DEF OkIsAccepted
<1>2. ASSUME NEW m \in msgs, PortalAccepts(m) PROVE OkIsAccepted'
  <2> SUFFICES ASSUME NEW d \in calls', d.outcome = "ok"
               PROVE  <<d.to, conn>> \in accepted'
    BY <1>2 DEF PortalAccepts, OkIsAccepted
  <2>1. PICK c \in calls :
          d = IF c.id = m.id /\ m.conn = conn /\ c.outcome = "pending"
              THEN [c EXCEPT !.outcome = "ok"] ELSE c
    BY <1>2 DEF PortalAccepts, Answered
  <2>2. CASE d = c
    BY <1>0, <2>2 DEF OkIsAccepted
  <2>3. CASE d # c
    <3>1. c.id = m.id /\ m.conn = conn /\ d.to = c.to
      BY <1>0, <2>1, <2>3 DEF TypeOK, Call
    <3>2. c.to = m.to
      BY <1>0, <3>1 DEF MessagesMatch
    <3>3. QED
      BY <1>2, <3>1, <3>2 DEF PortalAccepts
  <2>4. QED
    BY <2>2, <2>3
<1>3. ASSUME NEW m \in msgs, PortalRefuses(m) PROVE OkIsAccepted'
  BY <1>0, <1>1, <1>3 DEF PortalRefuses, Answered, TypeOK, Call
<1>4. ASSUME NEW o \in Owners, OwnerExits(o) PROVE OkIsAccepted'
  BY <1>0, <1>1, <1>4 DEF OwnerExits, TypeOK, Call
<1>5. ASSUME NEW c \in calls, CallTimesOut(c) PROVE OkIsAccepted'
  BY <1>0, <1>1, <1>5 DEF CallTimesOut, TypeOK, Call
<1>6. \A d \in Cancelled(registration) : d.outcome = "ok" => d \in calls
  BY <1>0 DEF Cancelled, TypeOK, Call
<1>7. ASSUME NEW owner, NEW pending, RegisterPortalIdentity(owner, pending),
             \A d \in pending : d.outcome = "ok" => d \in calls
      PROVE  \A d \in calls' : d.outcome = "ok" => d \in calls
  BY <1>7 DEF RegisterPortalIdentity
<1>8. CASE DispatchWatch
  <2>1. /\ conn' = conn
        /\ IF Head(watchQ) = None THEN PortalVanished
                                  ELSE PortalAppeared(Head(watchQ))
    BY <1>8 DEF DispatchWatch
  <2>2. CASE PortalVanished
    BY <1>1, <1>6, <2>1, <2>2 DEF PortalVanished
  <2>3. ASSUME NEW o, PortalAppeared(o) PROVE OkIsAccepted'
    BY <1>1, <1>6, <1>7, <2>1, <2>3 DEF PortalAppeared
  <2>4. QED
    BY <2>1, <2>2, <2>3
<1>9. CASE RetryRegistration
  <2>1. conn' = conn /\ RegisterPortalIdentity(portalOwner, calls)
    BY <1>9 DEF RetryRegistration
  <2>2. QED
    BY <1>1, <1>7, <2>1
<1>10. ASSUME NEW c \in calls, PortalRegistrationDone(c) PROVE OkIsAccepted'
  <2>1. conn' = conn /\ calls' = calls \ {c}
    BY <1>10 DEF PortalRegistrationDone
  <2>2. QED
    BY <1>1, <2>1
<1>11. CASE Exit \/ Crash
  BY <1>11 DEF Exit, Crash, ProcessEnds, OkIsAccepted
<1>12. CASE StartBroker
  BY <1>0, <1>12 DEF StartBroker, ExitedIsEmpty, OkIsAccepted
<1>13. CASE UNCHANGED <<calls, conn>>
  BY <1>1, <1>13
<1>14. QED
  BY <1>2, <1>3, <1>4, <1>5, <1>8, <1>9, <1>10, <1>11, <1>12, <1>13
  DEF Next, Portal, Broker, OwnerAppears, OwnerLeaves, LookUpOwner,
      PortalDestination, PortalServes, PortalCallFails, WaitEnds,
      WaitReturns, StopBroker, vars

\* The certified owner, the call on its way and the calls received.
IdentityFacts ==
    /\ RetryHasOwner
    /\ CallingIsCertified
    /\ ExitedIsEmpty
    /\ BlockedBelowBound
    /\ RegisteredIsCertified
    /\ OnlyRegisteredOwnerServes

\* Every step keeps them: portal_registration_done certifies only the live
\* attempt, and portal_destination lets only its owner be called.
LEMMA IdentityStep == IInv /\ [Next]_vars => IdentityFacts'
<1> SUFFICES ASSUME IInv, [Next]_vars PROVE IdentityFacts'
  OBVIOUS
<1>0. TypeOK /\ IdentityFacts /\ CallFacts /\ OkIsAccepted
      /\ accepted \subseteq accepted'
  BY AcceptedGrows DEF IInv, CallFacts, IdentityFacts
<1> USE DEF busVars, identityVars, requestVars
<1> DEFINE Facts == <<retry, portalOwner, conn, registered, request, waits,
                      served, status, calls, registration>>
<1>1. CASE UNCHANGED Facts
  BY <1>0, <1>1 DEF IdentityFacts, RetryHasOwner, CallingIsCertified,
     ExitedIsEmpty, BlockedBelowBound, RegisteredIsCertified,
     OnlyRegisteredOwnerServes
<1>2. ASSUME NEW m \in msgs, PortalAccepts(m) \/ PortalRefuses(m)
      PROVE  IdentityFacts'
  <2>1. /\ UNCHANGED <<retry, portalOwner, conn, registered, request, waits,
                       served, status, registration>>
        /\ calls' = {} \/ calls # {}
    BY <1>2 DEF PortalAccepts, PortalRefuses, Answered
  <2>2. QED
    BY <1>0, <2>1 DEF IdentityFacts, RetryHasOwner, CallingIsCertified,
       ExitedIsEmpty, BlockedBelowBound, RegisteredIsCertified,
       OnlyRegisteredOwnerServes
<1>3. ASSUME \/ \E o \in Owners : OwnerExits(o)
             \/ \E c \in calls : CallTimesOut(c)
      PROVE  IdentityFacts'
  <2>1. /\ UNCHANGED <<retry, portalOwner, conn, registered, request, waits,
                       served, status, registration>>
        /\ calls' = {} \/ calls # {}
    BY <1>3 DEF OwnerExits, CallTimesOut
  <2>2. QED
    BY <1>0, <2>1 DEF IdentityFacts, RetryHasOwner, CallingIsCertified,
       ExitedIsEmpty, BlockedBelowBound, RegisteredIsCertified,
       OnlyRegisteredOwnerServes
<1>4. ASSUME status = "running", request = Idle,
             UNCHANGED <<conn, request, waits, served, status>>,
             RetryHasOwner', RegisteredIsCertified'
      PROVE  IdentityFacts'
  BY <1>0, <1>4 DEF IdentityFacts, CallingIsCertified, ExitedIsEmpty,
     BlockedBelowBound, OnlyRegisteredOwnerServes, Idle
<1>5. CASE DispatchWatch
  <2>1. /\ status = "running" /\ request = Idle
        /\ UNCHANGED <<conn, request, waits, served, status>>
        /\ \/ PortalVanished
           \/ PortalAppeared(Head(watchQ))
    BY <1>5 DEF DispatchWatch, LoopRuns
  <2>2. registered' = FALSE /\ retry' = FALSE
    BY <2>1 DEF PortalVanished, PortalAppeared, RegisterPortalIdentity
  <2>3. RetryHasOwner' /\ RegisteredIsCertified'
    BY <2>2 DEF RetryHasOwner, RegisteredIsCertified
  <2>4. QED
    BY <1>4, <2>1, <2>3
<1>6. CASE RetryRegistration
  <2>1. /\ status = "running" /\ request = Idle /\ retry' = FALSE
        /\ UNCHANGED <<conn, request, waits, served, status, registered,
                       portalOwner>>
    BY <1>6 DEF RetryRegistration, LoopRuns, RegisterPortalIdentity
  <2>2. RetryHasOwner' /\ RegisteredIsCertified'
    BY <1>0, <2>1 DEF IdentityFacts, RetryHasOwner, RegisteredIsCertified
  <2>3. QED
    BY <1>4, <2>1, <2>2
<1>7. ASSUME NEW c \in calls, PortalRegistrationDone(c) PROVE IdentityFacts'
  <2>1. /\ status = "running" /\ request = Idle
        /\ UNCHANGED <<conn, request, waits, served, status, portalOwner,
                       accepted>>
    BY <1>7 DEF PortalRegistrationDone, LoopRuns
  <2>2. CASE registration # c.id
    <3>1. UNCHANGED <<registered, retry>>
      BY <1>7, <2>2 DEF PortalRegistrationDone, Current
    <3>2. RetryHasOwner' /\ RegisteredIsCertified'
      BY <1>0, <2>1, <3>1
      DEF IdentityFacts, RetryHasOwner, RegisteredIsCertified
    <3>3. QED
      BY <1>4, <2>1, <3>2
  <2>3. CASE registration = c.id
    <3>1. c \in Call /\ registration # NoAttempt
      BY <1>0, <2>3 DEF TypeOK, Call
    <3>2. c.to = portalOwner
      BY <1>0, <2>3, <3>1 DEF CallFacts, AttemptAddressesOwner, IdsUnique
    <3>3. portalOwner # None
      BY <3>1, <3>2 DEF Call
    <3>4. registered' => registered \/ c.outcome = "ok"
      BY <1>7 DEF PortalRegistrationDone
    <3>5. c.outcome = "ok" => <<portalOwner, conn>> \in accepted
      BY <1>0, <3>2 DEF OkIsAccepted
    <3>6. RetryHasOwner' /\ RegisteredIsCertified'
      BY <1>0, <2>1, <3>3, <3>4, <3>5
      DEF IdentityFacts, RetryHasOwner, RegisteredIsCertified
    <3>7. QED
      BY <1>4, <2>1, <3>6
  <2>4. QED
    BY <2>2, <2>3
<1>8. CASE LookUpOwner
  <2>1. /\ status = "running" /\ waits < MaxWaits
        /\ request' = [stage |-> "lookup", owner |-> nameOwner]
        /\ UNCHANGED <<retry, portalOwner, conn, registered, waits, served,
                       status, calls, registration>>
    BY <1>8 DEF LookUpOwner, LoopRuns
  <2>2. QED
    BY <1>0, <2>1 DEF IdentityFacts, RetryHasOwner, CallingIsCertified,
       ExitedIsEmpty, BlockedBelowBound, RegisteredIsCertified,
       OnlyRegisteredOwnerServes
<1>9. CASE PortalDestination
  <2>1. /\ request # Idle /\ status = "running"
        /\ UNCHANGED <<retry, portalOwner, conn, registered, waits, served,
                       status, calls, registration, accepted>>
    BY <1>0, <1>9 DEF PortalDestination, IdentityFacts, ExitedIsEmpty, Idle,
       TypeOK
  <2>2. CallingIsCertified'
    BY <1>0, <1>9, <2>1 DEF PortalDestination, MayAddress, IdentityFacts,
       RegisteredIsCertified, CallingIsCertified, Idle
  <2>3. QED
    BY <1>0, <2>1, <2>2 DEF IdentityFacts, RetryHasOwner, ExitedIsEmpty,
       BlockedBelowBound, RegisteredIsCertified, OnlyRegisteredOwnerServes
<1>10. CASE PortalServes
  <2>1. <<request.owner, conn>> \in accepted
    BY <1>0, <1>10 DEF PortalServes, IdentityFacts, CallingIsCertified
  <2>2. /\ request' = Idle /\ served' = served \cup {<<request.owner, conn>>}
        /\ UNCHANGED <<retry, portalOwner, conn, registered, status, calls,
                       registration, accepted>>
    BY <1>10 DEF PortalServes, Addressee
  <2>3. QED
    BY <1>0, <2>1, <2>2 DEF IdentityFacts, RetryHasOwner, CallingIsCertified,
       ExitedIsEmpty, BlockedBelowBound, RegisteredIsCertified,
       OnlyRegisteredOwnerServes, Idle
<1>11. CASE PortalCallFails
  BY <1>0, <1>11 DEF PortalCallFails, IdentityFacts, RetryHasOwner,
     CallingIsCertified, ExitedIsEmpty, BlockedBelowBound,
     RegisteredIsCertified, OnlyRegisteredOwnerServes, Idle
<1>12. CASE WaitReturns \/ \E i \in 1..MaxWaits : WaitEnds(i)
  BY <1>0, <1>12 DEF WaitEnds, WaitReturns, LoopRuns, IdentityFacts,
     RetryHasOwner, CallingIsCertified, ExitedIsEmpty, BlockedBelowBound,
     RegisteredIsCertified, OnlyRegisteredOwnerServes, Idle
<1>13. CASE Exit \/ Crash
  <2>1. /\ registered' = FALSE /\ retry' = FALSE
        /\ calls' = {} /\ request' = Idle /\ registration' = NoAttempt
        /\ UNCHANGED <<conn, served, accepted>>
    BY <1>13 DEF Exit, Crash, ProcessEnds
  <2>2. ~registered' /\ ~retry'
    BY <2>1
  <2>3. QED
    BY <1>0, <2>1, <2>2 DEF IdentityFacts, RetryHasOwner, CallingIsCertified,
       ExitedIsEmpty, BlockedBelowBound, RegisteredIsCertified,
       OnlyRegisteredOwnerServes, Idle
<1>14. CASE StartBroker
  <2>1. /\ ~registered /\ request = Idle
        /\ status' = "running"
        /\ UNCHANGED <<registered, request, retry, portalOwner, served,
                       accepted>>
    BY <1>0, <1>14 DEF StartBroker, IdentityFacts, ExitedIsEmpty
  <2>2. QED
    BY <1>0, <2>1 DEF IdentityFacts, RetryHasOwner, CallingIsCertified,
       ExitedIsEmpty, BlockedBelowBound, RegisteredIsCertified,
       OnlyRegisteredOwnerServes, Idle
<1>15. CASE OwnerLeaves \/ StopBroker \/ UNCHANGED vars
  BY <1>1, <1>15 DEF OwnerLeaves, StopBroker, vars
<1>16. ASSUME NEW o \in Owners, OwnerAppears(o) PROVE IdentityFacts'
  BY <1>1, <1>16 DEF OwnerAppears
<1>17. QED
  BY <1>2, <1>3, <1>5, <1>6, <1>7, <1>8, <1>9, <1>10, <1>11, <1>12, <1>13,
     <1>14, <1>15, <1>16
  DEF Next, Portal, Broker

-----------------------------------------------------------------------------
(* Register is one-shot.                                                    *)

\* No registration of this connection was sent to o, or the one that was has
\* been read and refused.
Untried(o) ==
    /\ <<o, conn>> \notin accepted
    /\ \A m \in msgs : ~(m.to = o /\ m.conn = conn)

\* A portal has one registration of a connection to read, and has then not
\* accepted one.
OneMessage ==
    \A m \in msgs :
        /\ <<m.to, m.conn>> \notin accepted
        /\ \A n \in msgs : m.to = n.to /\ m.conn = n.conn => m = n

\* Whoever was addressed has owned the name, on a connection there has been.
AddressedIsUsed ==
    /\ {nameOwner, portalOwner} \subseteq used \cup {None}
    /\ \A m \in msgs : m.to \in used
    /\ \A p \in accepted : p[1] \in used /\ p[2] <= conn

\* The notifications to come are about owners the broker has not yet tried, of
\* which each owns the name once.
WatchIsNew ==
    \A i \in DOMAIN watchQ : watchQ[i] # None =>
        /\ watchQ[i] \in used /\ watchQ[i] # portalOwner
        /\ Untried(watchQ[i])
        /\ \A j \in DOMAIN watchQ : watchQ[j] = watchQ[i] => j = i

\* A retry is armed only after a refusal.
RetryIsUntried == retry => registration = NoAttempt /\ Untried(portalOwner)

\* The current attempt is not a cancelled one, and if it was refused the
\* portal holds nothing of this connection.
CurrentAttempt ==
    \A c \in calls : c.id = registration =>
        c.outcome # "cancelled" /\ (c.outcome = "refused" => Untried(c.to))

\* An exited broker waits for nothing.
ExitedIsIdle == status = "exited" => portalOwner = None /\ ~retry /\ watchQ = <<>>

OneShot ==
    /\ OneMessage
    /\ AddressedIsUsed
    /\ WatchIsNew
    /\ RetryIsUntried
    /\ CurrentAttempt
    /\ ExitedIsIdle

\* Steps that leave messages, attempts and answers alone.
LEMMA StillOneShot ==
    ASSUME OneShot, UNCHANGED <<accepted, msgs, conn, calls, registration, retry, portalOwner>>,
           used \subseteq used', nameOwner' \in used' \cup {None}, WatchIsNew', ExitedIsIdle'
    PROVE  OneShot'
BY DEF OneShot, OneMessage, AddressedIsUsed, RetryIsUntried, CurrentAttempt, Untried

\* Steps of portals and timers: messages are read, registrations accepted by
\* whoever read them, and outcomes of pending calls decided.
LEMMA AnswersOneShot ==
    ASSUME TypeOK, MessagesMatch, OneShot, msgs' \subseteq msgs,
           \A p \in accepted' : p \in accepted \/ \E m \in msgs \ msgs' : p = <<m.to, m.conn>>,
           \A c \in calls' : \E d \in calls :
              /\ c.id = d.id /\ c.to = d.to
              /\ \/ c.outcome = d.outcome
                 \/ c.outcome \in {"ok", "noreply"}
                 \/ c.outcome = "refused" /\ Untried(c.to)',
           UNCHANGED <<used, nameOwner, watchQ, conn, status, registration, retry, portalOwner>>
    PROVE  OneShot'
<1>1. \A o : Untried(o) => Untried(o)'
  BY DEF Untried
<1>2. OneMessage'
  BY DEF OneShot, OneMessage
<1>3. AddressedIsUsed'
  <2>1. \A m \in msgs : m.to \in used /\ m.conn <= conn
    BY DEF OneShot, AddressedIsUsed, MessagesMatch
  <2>. QED
    BY <2>1 DEF OneShot, AddressedIsUsed
<1>4. WatchIsNew' /\ RetryIsUntried' /\ ExitedIsIdle'
  BY <1>1 DEF OneShot, WatchIsNew, RetryIsUntried, ExitedIsIdle
<1>5. CurrentAttempt'
  BY <1>1 DEF OneShot, CurrentAttempt
<1>. QED
  BY <1>2, <1>3, <1>4, <1>5 DEF OneShot

\* A registration of an owner that was not tried is its only one.
LEMMA RegisterOneShot ==
    ASSUME TypeOK, OneShot, NEW owner \in Owners, NEW pending \in SUBSET Call,
           RegisterPortalIdentity(owner, pending), Untried(owner), owner \in used,
           portalOwner' = owner, UNCHANGED <<used, nameOwner, accepted, conn, status>>,
           status = "running",
           \A i \in DOMAIN watchQ' :
              \E j \in DOMAIN watchQ : watchQ[j] = watchQ'[i] /\ watchQ[j] # owner,
           \A i \in DOMAIN watchQ' :
              watchQ'[i] # None => \A j \in DOMAIN watchQ' : watchQ'[j] = watchQ'[i] => j = i
    PROVE  /\ OneShot'
           /\ \A m \in msgs' \ msgs : <<m.to, m.conn>> \notin accepted
<1>1. PICK id \in FreshIds(pending), call \in Call :
        /\ retry' = FALSE
        /\ registration' = id
        /\ call.id = id /\ call.to = owner
        /\ calls' = pending \cup {call}
        /\ \/ msgs' = msgs /\ call.outcome = "refused"
           \/ /\ msgs' = msgs \cup {[id |-> id, to |-> owner, conn |-> conn]}
              /\ call.outcome = "pending"
  <2>1. PICK id \in FreshIds(pending), r \in Outcomes :
          /\ retry' = FALSE
          /\ registration' = id
          /\ calls' = pending \cup {[id |-> id, to |-> owner, outcome |-> r]}
          /\ \/ msgs' = msgs /\ r = "refused"
             \/ /\ msgs' = msgs \cup {[id |-> id, to |-> owner, conn |-> conn]}
                /\ r = "pending"
    BY DEF RegisterPortalIdentity, Outcomes
  <2>2. [id |-> id, to |-> owner, outcome |-> r] \in Call
    BY DEF FreshIds, Call
  <2>. QED
    BY <2>1, <2>2
<1>2. \A c \in pending : c.id # id
  BY DEF FreshIds
<1>3. \A o : o # owner /\ Untried(o) => Untried(o)'
  BY <1>1 DEF Untried
<1>4. OneMessage'
  <2>1. \A m \in msgs' : \/ m \in msgs
                         \/ m.to = owner /\ m.conn = conn /\ m = [id |-> id, to |-> owner, conn |-> conn]
    BY <1>1
  <2>2. \A m \in msgs : ~(m.to = owner /\ m.conn = conn)
    BY DEF Untried
  <2>. QED
    BY <2>1, <2>2 DEF OneShot, OneMessage, Untried
<1>5. AddressedIsUsed'
  BY <1>1 DEF OneShot, AddressedIsUsed
<1>6. WatchIsNew'
  BY <1>3 DEF OneShot, WatchIsNew
<1>7. RetryIsUntried' /\ ExitedIsIdle'
  BY <1>1 DEF RetryIsUntried, ExitedIsIdle
<1>8. CurrentAttempt'
  BY <1>1, <1>2 DEF CurrentAttempt, Untried
<1>. QED
  BY <1>1, <1>4, <1>5, <1>6, <1>7, <1>8 DEF OneShot, Untried

\* What the watch reports next leaves the rest of its notifications new.
LEMMA HeadIsNew ==
    ASSUME TypeOK, WatchIsNew, watchQ # <<>>, watchQ' = Tail(watchQ)
    PROVE  /\ \A i \in DOMAIN watchQ' : \E j \in DOMAIN watchQ :
                /\ watchQ[j] = watchQ'[i]
                /\ Head(watchQ) # None => watchQ[j] # Head(watchQ)
           /\ \A i \in DOMAIN watchQ' : watchQ'[i] # None =>
                \A j \in DOMAIN watchQ' : watchQ'[j] = watchQ'[i] => j = i
           /\ Head(watchQ) = watchQ[1] /\ 1 \in DOMAIN watchQ
<1>. DEFINE q == watchQ
<1>1. q \in Seq(Owners \cup {None}) /\ Len(q) \in Nat /\ Len(q) > 0 /\ DOMAIN q = 1..Len(q)
  BY DEF TypeOK
<1>2. /\ DOMAIN watchQ' = 1..(Len(q) - 1)
      /\ \A i \in 1..(Len(q) - 1) : watchQ'[i] = q[i + 1]
      /\ Head(q) = q[1]
  BY <1>1
<1>3. \A i, j \in 1..Len(q) : q[i] # None /\ q[i] = q[j] => i = j
  BY <1>1 DEF WatchIsNew
<1>. HIDE DEF q
<1>4. \A i \in 1..(Len(q) - 1) : i + 1 \in 1..Len(q) /\ i + 1 # 1
  BY <1>1
<1>5. \A i \in DOMAIN watchQ' : \E j \in 1..Len(q) :
        q[j] = watchQ'[i] /\ (Head(q) # None => q[j] # Head(q))
  BY <1>1, <1>2, <1>3, <1>4
<1>6. \A i \in DOMAIN watchQ' : watchQ'[i] # None =>
        \A j \in DOMAIN watchQ' : watchQ'[j] = watchQ'[i] => j = i
  BY <1>1, <1>2, <1>3, <1>4
<1>. QED
  BY <1>1, <1>2, <1>5, <1>6 DEF q

\* Notifications are added for owners that have not owned the name before.
LEMMA NotifyIsNew ==
    ASSUME TypeOK, OneShot, NEW o \in Owners, o \notin used, o \in used', used \subseteq used',
           UNCHANGED <<accepted, msgs, conn, portalOwner>>,
           \/ watchQ' = watchQ \/ watchQ' = watchQ \o <<None>>
           \/ watchQ' = watchQ \o <<o>> \/ watchQ' = watchQ \o <<None, o>>
    PROVE  WatchIsNew'
<1>. DEFINE q == watchQ
<1>1. q \in Seq(Owners \cup {None}) /\ Len(q) \in Nat /\ DOMAIN q = 1..Len(q)
  BY DEF TypeOK
<1>2. Untried(o)' /\ o # portalOwner
  BY DEF OneShot, AddressedIsUsed, Untried
<1>3. \A i \in 1..Len(q) : q[i] # None =>
        /\ q[i] \in used /\ q[i] # portalOwner /\ Untried(q[i])
        /\ \A j \in 1..Len(q) : q[j] = q[i] => j = i
  BY <1>1 DEF OneShot, WatchIsNew
<1>4. \A x : Untried(x) => Untried(x)'
  BY DEF Untried
<1>5. PICK n \in Nat : /\ DOMAIN watchQ' = 1..n
                       /\ \A i \in 1..n :
                            \/ i \in 1..Len(q) /\ watchQ'[i] = q[i]
                            \/ i \notin 1..Len(q) /\ watchQ'[i] \in {None, o}
                       /\ \A i, j \in 1..n : i \notin 1..Len(q) /\ j \notin 1..Len(q)
                            /\ watchQ'[i] = o /\ watchQ'[j] = o => i = j
  <2>1. CASE watchQ' = watchQ
    BY <1>1, <2>1
  <2>2. CASE watchQ' = watchQ \o <<None>>
    <3>1. /\ DOMAIN watchQ' = 1..(Len(q) + 1)
          /\ \A i \in 1..(Len(q) + 1) : watchQ'[i] = IF i <= Len(q) THEN q[i] ELSE None
      BY <1>1, <2>2
    <3>. HIDE DEF q
    <3>. QED
      BY <1>1, <3>1
  <2>3. CASE watchQ' = watchQ \o <<o>>
    <3>1. /\ DOMAIN watchQ' = 1..(Len(q) + 1)
          /\ \A i \in 1..(Len(q) + 1) : watchQ'[i] = IF i <= Len(q) THEN q[i] ELSE o
      BY <1>1, <2>3
    <3>. HIDE DEF q
    <3>. QED
      BY <1>1, <3>1
  <2>4. CASE watchQ' = watchQ \o <<None, o>>
    <3>1. /\ DOMAIN watchQ' = 1..(Len(q) + 2)
          /\ \A i \in 1..(Len(q) + 2) : watchQ'[i] = IF i <= Len(q) THEN q[i]
                                                     ELSE IF i = Len(q) + 1 THEN None ELSE o
      BY <1>1, <2>4
    <3>. HIDE DEF q
    <3>2. /\ Len(q) + 2 \in Nat
          /\ \A i \in 1..(Len(q) + 2) : \/ i \in 1..Len(q) /\ i <= Len(q)
                                        \/ i \notin 1..Len(q) /\ i = Len(q) + 1
                                        \/ i \notin 1..Len(q) /\ i = Len(q) + 2
      BY <1>1
    <3>3. \A i \in 1..(Len(q) + 2) : \/ i \in 1..Len(q) /\ watchQ'[i] = q[i]
                                     \/ i \notin 1..Len(q) /\ watchQ'[i] \in {None, o}
      BY <1>1, <3>1, <3>2
    <3>4. \A i, j \in 1..(Len(q) + 2) : i \notin 1..Len(q) /\ j \notin 1..Len(q)
                                       /\ watchQ'[i] = o /\ watchQ'[j] = o => i = j
      <4>1. watchQ'[Len(q) + 1] # o
        BY <1>1, <3>1, NoneAssumption
      <4>. QED
        BY <3>2, <4>1
    <3>. QED
      BY <3>1, <3>2, <3>3, <3>4
  <2>. QED
    BY <2>1, <2>2, <2>3, <2>4
<1>. HIDE DEF q
<1>. SUFFICES ASSUME NEW i \in 1..n, watchQ'[i] # None
              PROVE  /\ watchQ'[i] \in used' /\ watchQ'[i] # portalOwner
                     /\ Untried(watchQ[i])'
                     /\ \A j \in 1..n : watchQ'[j] = watchQ'[i] => j = i
  BY <1>5 DEF WatchIsNew
<1>6. CASE i \in 1..Len(q)
  BY <1>3, <1>4, <1>5, <1>6
<1>7. CASE i \notin 1..Len(q)
  <2>1. watchQ'[i] = o
    BY <1>5, <1>7
  <2>. QED
    BY <1>2, <1>3, <1>5, <1>7, <2>1
<1>. QED
  BY <1>6, <1>7

\* Every step keeps registrations one-shot, and sends one only where none is.
LEMMA OneShotStep ==
    ASSUME IInv, OneShot, [Next]_vars
    PROVE  OneShot' /\ \A m \in msgs' \ msgs : <<m.to, m.conn>> \notin accepted
<1>0. TypeOK /\ CallFacts /\ RetryHasOwner /\ ExitedIsEmpty
  BY DEF IInv, CallFacts
<1>. DEFINE Goal == OneShot' /\ \A m \in msgs' \ msgs : <<m.to, m.conn>> \notin accepted
<1>. USE DEF busVars, identityVars, requestVars
<1>1. ASSUME UNCHANGED <<used, nameOwner, accepted, msgs, conn, calls, registration, retry,
                         portalOwner, watchQ, status>>
      PROVE  Goal
  <2>1. WatchIsNew' /\ ExitedIsIdle'
    BY <1>1 DEF OneShot, WatchIsNew, ExitedIsIdle, Untried
  <2>2. nameOwner \in used \cup {None}
    BY DEF OneShot, AddressedIsUsed
  <2>. QED
    BY <1>1, <2>1, <2>2, StillOneShot
<1>2. ASSUME NEW o \in Owners, OwnerAppears(o)
      PROVE  Goal
  <2>1. /\ o \notin used /\ used' = used \cup {o} /\ nameOwner' = o
        /\ UNCHANGED <<accepted, msgs, conn, calls, registration, retry, portalOwner, status>>
        /\ \/ watchQ' = watchQ
           \/ status # "exited" /\ (watchQ' = watchQ \o <<o>> \/ watchQ' = watchQ \o <<None, o>>)
    BY <1>2 DEF OwnerAppears, Notify
  <2>2. WatchIsNew'
    BY <1>0, <2>1, NotifyIsNew
  <2>3. ExitedIsIdle'
    BY <2>1 DEF OneShot, ExitedIsIdle
  <2>. QED
    BY <2>1, <2>2, <2>3, StillOneShot
<1>3. ASSUME OwnerLeaves
      PROVE  Goal
  <2>1. /\ used' = used /\ nameOwner' = None
        /\ UNCHANGED <<accepted, msgs, conn, calls, registration, retry, portalOwner, status>>
        /\ \/ watchQ' = watchQ
           \/ status # "exited" /\ watchQ' = watchQ \o <<None>>
    BY <1>3 DEF OwnerLeaves, Notify
  <2>2. WatchIsNew'
    <3>1. CASE watchQ' = watchQ
      BY <2>1, <3>1 DEF OneShot, WatchIsNew, Untried
    <3>2. CASE watchQ' = watchQ \o <<None>>
      <4>1. watchQ \in Seq(Owners \cup {None}) /\ Len(watchQ) \in Nat
        BY <1>0 DEF TypeOK
      <4>2. /\ DOMAIN watchQ' = 1..(Len(watchQ) + 1) /\ DOMAIN watchQ = 1..Len(watchQ)
            /\ \A i \in DOMAIN watchQ' : watchQ'[i] # None =>
                 i \in DOMAIN watchQ /\ watchQ'[i] = watchQ[i]
        BY <3>2, <4>1
      <4>3. \A x : Untried(x) => Untried(x)'
        BY <2>1 DEF Untried
      <4>. QED
        BY <2>1, <4>2, <4>3 DEF OneShot, WatchIsNew
    <3>. QED
      BY <2>1, <3>1, <3>2
  <2>3. ExitedIsIdle'
    BY <2>1 DEF OneShot, ExitedIsIdle
  <2>. QED
    BY <2>1, <2>2, <2>3, StillOneShot
<1>4. ASSUME NEW o \in Owners, OwnerExits(o)
      PROVE  Goal
  <2>1. \A c \in calls' : \E d \in calls :
          /\ c.id = d.id /\ c.to = d.to
          /\ c.outcome = d.outcome \/ c.outcome = "noreply"
    BY <1>0, <1>4 DEF OwnerExits, TypeOK, Call
  <2>2. /\ msgs' \subseteq msgs /\ accepted' = accepted
        /\ UNCHANGED <<used, nameOwner, watchQ, conn, status, registration, retry, portalOwner>>
    BY <1>4 DEF OwnerExits
  <2>. QED
    BY <1>0, <2>1, <2>2, AnswersOneShot DEF CallFacts
<1>5. ASSUME NEW m \in msgs, PortalAccepts(m)
      PROVE  Goal
  <2>1. \A c \in calls' : \E d \in calls :
          /\ c.id = d.id /\ c.to = d.to
          /\ c.outcome = d.outcome \/ c.outcome = "ok"
    BY <1>0, <1>5 DEF PortalAccepts, Answered, TypeOK, Call
  <2>2. /\ msgs' = msgs \ {m} /\ accepted' = accepted \cup {<<m.to, m.conn>>}
        /\ UNCHANGED <<used, nameOwner, watchQ, conn, status, registration, retry, portalOwner>>
    BY <1>5 DEF PortalAccepts
  <2>. QED
    BY <1>0, <2>1, <2>2, AnswersOneShot DEF CallFacts
<1>6. ASSUME NEW m \in msgs, PortalRefuses(m)
      PROVE  Goal
  <2>1. /\ msgs' = msgs \ {m} /\ accepted' = accepted
        /\ UNCHANGED <<used, nameOwner, watchQ, conn, status, registration, retry, portalOwner>>
    BY <1>6 DEF PortalRefuses
  <2>2. m.conn = conn => Untried(m.to)'
    BY <2>1 DEF OneShot, OneMessage, Untried
  <2>3. \A c \in calls' : \E d \in calls :
          /\ c.id = d.id /\ c.to = d.to
          /\ c.outcome = d.outcome \/ (c.outcome = "refused" /\ d.id = m.id /\ m.conn = conn)
    BY <1>0, <1>6 DEF PortalRefuses, Answered, TypeOK, Call
  <2>4. \A d \in calls : d.id = m.id /\ m.conn = conn => d.to = m.to
    BY <1>0 DEF CallFacts, MessagesMatch
  <2>5. \A c \in calls' : \E d \in calls :
          /\ c.id = d.id /\ c.to = d.to
          /\ c.outcome = d.outcome \/ (c.outcome = "refused" /\ Untried(c.to)')
    BY <2>2, <2>3, <2>4
  <2>. QED
    BY <1>0, <2>1, <2>5, AnswersOneShot DEF CallFacts
<1>7. ASSUME NEW c \in calls, CallTimesOut(c)
      PROVE  Goal
  <2>1. \A e \in calls' : \E d \in calls :
          /\ e.id = d.id /\ e.to = d.to
          /\ e.outcome = d.outcome \/ e.outcome = "noreply"
    BY <1>0, <1>7 DEF CallTimesOut, TypeOK, Call
  <2>2. /\ msgs' = msgs /\ accepted' = accepted
        /\ UNCHANGED <<used, nameOwner, watchQ, conn, status, registration, retry, portalOwner>>
    BY <1>7 DEF CallTimesOut
  <2>. QED
    BY <1>0, <2>1, <2>2, AnswersOneShot DEF CallFacts
<1>8. ASSUME DispatchWatch
      PROVE  Goal
  <2>1. /\ watchQ # <<>> /\ watchQ' = Tail(watchQ) /\ status = "running"
        /\ UNCHANGED <<used, nameOwner, accepted, conn, status>>
    BY <1>8 DEF DispatchWatch, LoopRuns
  <2>2. WatchIsNew
    BY DEF OneShot
  <2>3. /\ \A i \in DOMAIN watchQ' : \E j \in DOMAIN watchQ :
             /\ watchQ[j] = watchQ'[i]
             /\ Head(watchQ) # None => watchQ[j] # Head(watchQ)
        /\ \A i \in DOMAIN watchQ' : watchQ'[i] # None =>
             \A j \in DOMAIN watchQ' : watchQ'[j] = watchQ'[i] => j = i
        /\ Head(watchQ) = watchQ[1] /\ 1 \in DOMAIN watchQ
    BY <1>0, <2>1, <2>2, HeadIsNew
  <2>4. CASE Head(watchQ) = None
    <3>1. /\ portalOwner' = None /\ registration' = NoAttempt /\ retry' = FALSE
          /\ calls' = Cancelled(registration) /\ msgs' = msgs
      BY <1>8, <2>4 DEF DispatchWatch, PortalVanished
    <3>2. \A c \in calls' : c.id # NoAttempt
      BY <1>0, <3>1 DEF Cancelled, TypeOK, Call
    <3>3. \A x : Untried(x) => Untried(x)'
      BY <2>1, <3>1 DEF Untried
    <3>4. WatchIsNew'
      BY <2>1, <2>2, <2>3, <3>1, <3>3 DEF WatchIsNew
    <3>5. OneMessage' /\ AddressedIsUsed'
      BY <2>1, <3>1 DEF OneShot, OneMessage, AddressedIsUsed
    <3>6. RetryIsUntried' /\ CurrentAttempt' /\ ExitedIsIdle'
      BY <2>1, <3>1, <3>2 DEF RetryIsUntried, CurrentAttempt, ExitedIsIdle
    <3>. QED
      BY <3>1, <3>4, <3>5, <3>6 DEF OneShot
  <2>5. CASE Head(watchQ) # None
    <3> DEFINE o == Head(watchQ)
    <3>1. o \in Owners
      BY <1>0, <2>1, <2>5 DEF TypeOK
    <3>2. o \in used /\ Untried(o)
      BY <2>2, <2>3, <2>5 DEF WatchIsNew
    <3>3. portalOwner' = o /\ RegisterPortalIdentity(o, Cancelled(registration))
      BY <1>8, <2>5 DEF DispatchWatch, PortalAppeared
    <3>4. \A i \in DOMAIN watchQ' :
            \E j \in DOMAIN watchQ : watchQ[j] = watchQ'[i] /\ watchQ[j] # o
      BY <2>3, <2>5
    <3> HIDE DEF o
    <3>5. Cancelled(registration) \in SUBSET Call
      BY <1>0 DEF Cancelled, Call, Outcomes, TypeOK
    <3>. QED
      BY <1>0, <2>1, <2>3, <3>1, <3>2, <3>3, <3>4, <3>5, RegisterOneShot
  <2>. QED
    BY <2>4, <2>5
<1>9. ASSUME RetryRegistration
      PROVE  Goal
  <2>1. /\ retry /\ portalOwner' = portalOwner /\ RegisterPortalIdentity(portalOwner, calls)
        /\ status = "running" /\ UNCHANGED <<used, nameOwner, accepted, conn, status, watchQ>>
    BY <1>9 DEF RetryRegistration, LoopRuns
  <2>2. portalOwner \in Owners /\ portalOwner \in used /\ Untried(portalOwner)
    BY <1>0, <2>1 DEF RetryHasOwner, TypeOK, OneShot, AddressedIsUsed, RetryIsUntried
  <2>3. \A i \in DOMAIN watchQ' :
          \E j \in DOMAIN watchQ : watchQ[j] = watchQ'[i] /\ watchQ[j] # portalOwner
    BY <2>1, <2>2 DEF OneShot, WatchIsNew
  <2>4. \A i \in DOMAIN watchQ' :
          watchQ'[i] # None => \A j \in DOMAIN watchQ' : watchQ'[j] = watchQ'[i] => j = i
    BY <2>1 DEF OneShot, WatchIsNew
  <2>. QED
    BY <1>0, <2>1, <2>2, <2>3, <2>4, RegisterOneShot DEF TypeOK
<1>10. ASSUME NEW c \in calls, PortalRegistrationDone(c)
       PROVE  Goal
  <2>1. /\ calls' = calls \ {c} /\ c.outcome # "pending" /\ status = "running"
        /\ UNCHANGED <<used, nameOwner, accepted, msgs, conn, watchQ, status, portalOwner>>
        /\ \/ UNCHANGED <<registration, retry>>
           \/ /\ registration = c.id /\ registration' = NoAttempt
              /\ \/ c.outcome \in {"ok", "noreply"} /\ retry' = retry
                 \/ c.outcome \notin {"ok", "noreply"} /\ retry' = TRUE
    BY <1>10 DEF PortalRegistrationDone, Current, Ambiguous, LoopRuns
  <2>2. \A x : Untried(x) => Untried(x)'
    BY <2>1 DEF Untried
  <2>3. OneMessage' /\ AddressedIsUsed' /\ ExitedIsIdle'
    BY <2>1 DEF OneShot, OneMessage, AddressedIsUsed, ExitedIsIdle
  <2>4. WatchIsNew'
    BY <2>1, <2>2 DEF OneShot, WatchIsNew
  <2>5. \A d \in calls : d.id \in AttemptIds /\ d.outcome \in Outcomes
    BY <1>0 DEF TypeOK, Call
  <2>6. CurrentAttempt'
    BY <2>1, <2>2, <2>5 DEF OneShot, CurrentAttempt
  <2>7. RetryIsUntried'
    <3>1. CASE UNCHANGED <<registration, retry>>
      BY <2>1, <2>2, <3>1 DEF OneShot, RetryIsUntried
    <3>2. CASE registration = c.id /\ registration' = NoAttempt
      <4>1. retry = FALSE
        BY <1>0, <2>5, <3>2 DEF OneShot, RetryIsUntried, TypeOK
      <4>2. c.to = portalOwner
        BY <1>0, <2>5, <3>2 DEF CallFacts, AttemptAddressesOwner, IdsUnique
      <4>3. c.outcome \notin {"ok", "noreply"} => Untried(portalOwner)
        BY <2>1, <2>5, <3>2, <4>2 DEF OneShot, CurrentAttempt, Outcomes
      <4>. QED
        BY <1>0, <2>1, <2>2, <2>5, <3>2, <4>1, <4>3 DEF RetryIsUntried
    <3>. QED
      BY <2>1, <3>1, <3>2
  <2>. QED
    BY <2>1, <2>3, <2>4, <2>6, <2>7 DEF OneShot
<1>11. ASSUME Exit \/ Crash
       PROVE  Goal
  <2>1. /\ calls' = {} /\ retry' = FALSE /\ registration' = NoAttempt /\ watchQ' = <<>>
        /\ portalOwner' = None /\ UNCHANGED <<used, nameOwner, accepted, msgs, conn>>
    BY <1>11 DEF Exit, Crash, ProcessEnds
  <2>2. OneMessage' /\ AddressedIsUsed'
    BY <2>1 DEF OneShot, OneMessage, AddressedIsUsed
  <2>3. WatchIsNew' /\ RetryIsUntried' /\ CurrentAttempt' /\ ExitedIsIdle'
    BY <2>1 DEF WatchIsNew, RetryIsUntried, CurrentAttempt, ExitedIsIdle
  <2>. QED
    BY <2>1, <2>2, <2>3 DEF OneShot
<1>12. ASSUME StartBroker
       PROVE  Goal
  <2>1. /\ status = "exited" /\ status' = "running" /\ conn' = conn + 1 /\ watchQ' = <<nameOwner>>
        /\ UNCHANGED <<used, nameOwner, accepted, msgs, calls, registration, retry, portalOwner>>
    BY <1>12 DEF StartBroker
  <2>2. calls = {} /\ portalOwner = None /\ ~retry
    BY <1>0, <2>1 DEF ExitedIsEmpty, OneShot, ExitedIsIdle
  <2>3. conn \in Nat /\ \A m \in msgs : m.conn \in Nat /\ m.conn <= conn
    BY <1>0 DEF TypeOK, Message, CallFacts, MessagesMatch
  <2>4. \A p \in accepted : p[2] \in Nat /\ p[2] <= conn
    BY <1>0 DEF TypeOK, OneShot, AddressedIsUsed
  <2>5. \A o : Untried(o)'
    BY <2>1, <2>3, <2>4 DEF Untried
  <2>6. nameOwner \in used \cup {None}
    BY DEF OneShot, AddressedIsUsed
  <2>7. WatchIsNew'
    BY <2>1, <2>2, <2>5, <2>6 DEF WatchIsNew
  <2>8. OneMessage'
    BY <2>1 DEF OneShot, OneMessage
  <2>9. AddressedIsUsed'
    BY <2>1, <2>3, <2>4 DEF OneShot, AddressedIsUsed
  <2>10. RetryIsUntried' /\ CurrentAttempt' /\ ExitedIsIdle'
    BY <2>1, <2>2 DEF RetryIsUntried, CurrentAttempt, ExitedIsIdle
  <2>. QED
    BY <2>1, <2>7, <2>8, <2>9, <2>10 DEF OneShot
<1>13. ASSUME LookUpOwner \/ PortalDestination \/ PortalServes \/ PortalCallFails
              \/ (\E i \in 1..MaxWaits : WaitEnds(i)) \/ WaitReturns \/ StopBroker
              \/ UNCHANGED vars
       PROVE  Goal
  BY <1>1, <1>13 DEF LookUpOwner, PortalDestination, PortalServes, PortalCallFails, WaitEnds,
                     WaitReturns, StopBroker, vars
<1>. QED
  BY <1>2, <1>3, <1>4, <1>5, <1>6, <1>7, <1>8, <1>9, <1>10, <1>11, <1>12, <1>13
     DEF Next, Portal, Broker

-----------------------------------------------------------------------------
(* The theorems.                                                            *)

\* The invariant holds initially and every step keeps it.
LEMMA Invariance == Spec => []IInv
<1>1. Init => IInv
  <2> SUFFICES ASSUME Init PROVE IInv
    OBVIOUS
  <2>1. /\ registered \in BOOLEAN /\ retry \in BOOLEAN /\ quitting \in BOOLEAN
        /\ ~registered /\ ~retry
    BY DEF Init
  <2>2. /\ watchQ \in Seq(Owners \cup {None}) /\ request \in Request
        /\ request = Idle
    BY DEF Init, Idle, Request
  <2>3. TypeOK
    BY <2>1, <2>2 DEF Init, TypeOK
  <2>4. QED
    BY <2>1, <2>2, <2>3
    DEF Init, IInv, IdsUnique, RetryHasOwner, AttemptAddressesOwner,
        OkIsAccepted, MessagesMatch, CallingIsCertified, ExitedIsEmpty,
        BlockedBelowBound, RegisteredIsCertified, OnlyRegisteredOwnerServes,
        Idle
<1>2. IInv /\ [Next]_vars => IInv'
  BY TypeStep, CallFactsStep, OkStep, IdentityStep
  DEF IInv, CallFacts, IdentityFacts
<1>3. QED
  BY <1>1, <1>2, PTL DEF Spec

\* Every reachable state of the broker, the bus and the portals is typed.
THEOREM TypeCorrect == Spec => []TypeOK
<1>1. IInv => TypeOK
  BY DEF IInv
<1>2. QED
  BY <1>1, Invariance, PTL

\* portal_registered is set only while the owner the broker names holds the
\* registration of the broker's own connection.
THEOREM RegistrationSound == Spec => []RegisteredIsCertified
<1>1. IInv => RegisteredIsCertified
  BY DEF IInv
<1>2. QED
  BY <1>1, Invariance, PTL

\* A portal receives calls only over connections it has accepted: a
\* replacement never inherits its predecessor's registration.
THEOREM IdentitySafe == Spec => []OnlyRegisteredOwnerServes
<1>1. IInv => OnlyRegisteredOwnerServes
  BY DEF IInv
<1>2. QED
  BY <1>1, Invariance, PTL

\* "Register is one-shot": over changes of owner, refusals, lost replies and
\* restarts, no registration is sent to a portal that holds one of the
\* connection (spaces_broker.c:146-213).
THEOREM RegistersOnce == Spec => NeverRegistersTwice
<1>1. Init => OneShot
  BY DEF Init, OneShot, OneMessage, AddressedIsUsed, WatchIsNew, RetryIsUntried, CurrentAttempt,
         ExitedIsIdle
<1>2. IInv /\ OneShot /\ [Next]_vars => OneShot'
  BY OneShotStep
<1>3. IInv /\ OneShot /\ [Next]_vars
        => [\A m \in msgs' \ msgs : <<m.to, m.conn>> \notin accepted]_vars
  BY OneShotStep
<1>4. QED
  BY <1>1, <1>2, <1>3, Invariance, PTL DEF Spec, NeverRegistersTwice

=============================================================================
