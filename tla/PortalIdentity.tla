--------------------------- MODULE PortalIdentity ---------------------------
(***************************************************************************)
(* The identity of a space at the host's desktop portal, as kept by        *)
(* native/spaces_broker.c.  A broker process owns one D-Bus connection,    *)
(* watches the portal's well-known name, registers its application id with *)
(* every unique owner that appears and forwards portal calls of the space  *)
(* only to the owner that certified the registration.  The portal, the bus *)
(* and the supervisor that replaces an exited broker are the environment.  *)
(***************************************************************************)
EXTENDS Naturals, Sequences, FiniteSets

CONSTANTS Owners,      \* unique bus names the portal's processes may have
          None,        \* no owner
          AttemptIds,  \* cancellables alive at once (bound)
          NoAttempt,   \* portal_registration == NULL
          MaxDelay,    \* the cap of the retry delay, 30 in the code
          MaxWaits,    \* nested waits for a portal response (bound)
          MaxFaults    \* refusals, lost replies and broker crashes (bound)

ASSUME NoneAssumption == None \notin Owners
ASSUME NoAttemptAssumption == NoAttempt \notin AttemptIds
ASSUME BoundAssumption ==
    MaxDelay \in Nat \ {0} /\ MaxWaits \in Nat /\ MaxFaults \in Nat

VARIABLES
    nameOwner,    \* owner of org.freedesktop.portal.Desktop on the bus
    used,         \* owners that have owned the name; none owns it twice
    exited,       \* portal processes that have left the bus
    accepted,     \* <<owner, connection>>: registrations a portal holds
    msgs,         \* Register messages no portal has handled yet
    watchQ,       \* name notifications the broker has not dispatched
    conn,         \* the broker's connection: one per broker process
    status,       \* "running" or "exited"
    portalOwner,  \* broker->portal_owner
    registered,   \* broker->portal_registered
    registration, \* broker->portal_registration
    calls,        \* asynchronous Register calls with a callback to come
    retry,        \* broker->portal_retry: the retry timer is armed
    retryDelay,   \* broker->portal_retry_delay
    quitting,     \* g_main_loop_quit(broker->loop) was called
    request,      \* the portal call a method handler is blocked on
    waits,        \* nested main loops waiting for a portal's Response
    over,         \* levels of them whose Response or timeout has come
    served,       \* <<owner, connection>>: portal calls a portal received
    faults        \* faults left

busVars == <<nameOwner, used, exited>>
identityVars == <<portalOwner, registered, registration, retry, retryDelay>>
requestVars == <<request, waits, over, served>>
vars == <<busVars, accepted, msgs, watchQ, conn, status, identityVars, calls,
          quitting, requestVars, faults>>

Outcomes == {"pending", "ok", "refused", "noreply", "cancelled"}
Call == [id : AttemptIds, to : Owners, outcome : Outcomes]
Message == [id : AttemptIds, to : Owners, conn : Nat]
Idle == [stage |-> "idle", owner |-> None]
Request == [stage : {"idle", "lookup", "calling"}, owner : Owners \cup {None}]

TypeOK ==
    /\ nameOwner \in Owners \cup {None}
    /\ used \subseteq Owners
    /\ exited \subseteq Owners
    /\ accepted \subseteq Owners \X Nat
    /\ msgs \subseteq Message
    /\ watchQ \in Seq(Owners \cup {None})
    /\ conn \in Nat
    /\ status \in {"running", "exited"}
    /\ portalOwner \in Owners \cup {None}
    /\ registered \in BOOLEAN
    /\ registration \in AttemptIds \cup {NoAttempt}
    /\ calls \subseteq Call
    /\ retry \in BOOLEAN
    /\ retryDelay \in 0..MaxDelay
    /\ quitting \in BOOLEAN
    /\ request \in Request
    /\ waits \in 0..MaxWaits
    /\ over \subseteq 1..MaxWaits
    /\ served \subseteq Owners \X Nat
    /\ faults \in 0..MaxFaults

-----------------------------------------------------------------------------
(* The broker's fields when a process starts: Broker broker = {0}.          *)

\* The watch reports the current owner first, then every change.
Init ==
    /\ nameOwner = None
    /\ used = {}
    /\ exited = {}
    /\ accepted = {}
    /\ msgs = {}
    /\ watchQ = <<None>>
    /\ conn = 1
    /\ status = "running"
    /\ portalOwner = None
    /\ registered = FALSE
    /\ registration = NoAttempt
    /\ calls = {}
    /\ retry = FALSE
    /\ retryDelay = 0
    /\ quitting = FALSE
    /\ request = Idle
    /\ waits = 0
    /\ over = {}
    /\ served = {}
    /\ faults = MaxFaults

\* The main context dispatches callbacks: no handler is blocked in a
\* synchronous call, the innermost nested loop has not been quit, and after
\* a quit of the outermost loop only nested ones still iterate.
LoopRuns ==
    /\ status = "running"
    /\ request = Idle
    /\ waits \notin over
    /\ quitting => waits > 0

-----------------------------------------------------------------------------
(* The bus and the portal's processes (external).                           *)

Notify(changes) ==
    watchQ' = IF status = "running" THEN watchQ \o changes ELSE watchQ

\* A portal process takes the name, from nobody or from a running one; the
\* watch reports a replacement as a loss followed by an appearance.
OwnerAppears(o) ==
    /\ o \notin used
    /\ used' = used \cup {o}
    /\ nameOwner' = o
    /\ Notify(IF nameOwner = None THEN <<o>> ELSE <<None, o>>)
    /\ UNCHANGED <<exited, accepted, msgs, conn, status, identityVars, calls,
                   quitting, requestVars, faults>>

OwnerLeaves ==
    /\ nameOwner # None
    /\ nameOwner' = None
    /\ Notify(<<None>>)
    /\ UNCHANGED <<used, exited, accepted, msgs, conn, status, identityVars,
                   calls, quitting, requestVars, faults>>

\* A portal that gave up the name leaves the bus, which answers its
\* outstanding calls with NoReply and drops what it had not read.
OwnerExits(o) ==
    /\ o \in used \ exited
    /\ o # nameOwner
    /\ exited' = exited \cup {o}
    /\ msgs' = {m \in msgs : m.to # o}
    /\ calls' = {IF c.to = o /\ c.outcome = "pending"
                 THEN [c EXCEPT !.outcome = "noreply"] ELSE c : c \in calls}
    /\ UNCHANGED <<nameOwner, used, accepted, watchQ, conn, status,
                   identityVars, quitting, requestVars, faults>>

\* What the answer to message m does to the call that waits for it.
Answered(m, outcome) ==
    {IF c.id = m.id /\ m.conn = conn /\ c.outcome = "pending"
     THEN [c EXCEPT !.outcome = outcome] ELSE c : c \in calls}

\* Registry.Register succeeds at most once for a connection.
PortalAccepts(m) ==
    /\ m \in msgs
    /\ <<m.to, m.conn>> \notin accepted
    /\ accepted' = accepted \cup {<<m.to, m.conn>>}
    /\ msgs' = msgs \ {m}
    /\ calls' = Answered(m, "ok")
    /\ UNCHANGED <<busVars, watchQ, conn, status, identityVars, quitting,
                   requestVars, faults>>

\* A second registration is refused; a first one may fail for a passing
\* reason.
PortalRefuses(m) ==
    /\ m \in msgs
    /\ <<m.to, m.conn>> \in accepted \/ faults > 0
    /\ faults' = IF <<m.to, m.conn>> \in accepted THEN faults ELSE faults - 1
    /\ msgs' = msgs \ {m}
    /\ calls' = Answered(m, "refused")
    /\ UNCHANGED <<busVars, accepted, watchQ, conn, status, identityVars,
                   quitting, requestVars>>

\* The 5000 ms of the call elapse: the portal may already have accepted, and
\* may still read the message.
CallTimesOut(c) ==
    /\ c \in calls /\ c.outcome = "pending"
    /\ faults > 0
    /\ faults' = faults - 1
    /\ calls' = {IF d = c THEN [d EXCEPT !.outcome = "noreply"] ELSE d :
                 d \in calls}
    /\ UNCHANGED <<busVars, accepted, msgs, watchQ, conn, status, identityVars,
                   quitting, requestVars>>

-----------------------------------------------------------------------------
(* Registration: clear_portal_identity, register_portal_identity and the    *)
(* callbacks that use them.                                                 *)

Cancelled(live) ==
    {IF c.id = live /\ c.outcome = "pending"
     THEN [c EXCEPT !.outcome = "cancelled"] ELSE c : c \in calls}

\* An id stands for the cancellable and for the serial of the call: it is
\* reused once no callback and no unread message refers to it.
FreshIds(pending) ==
    AttemptIds \ ({c.id : c \in pending}
                  \cup {m.id : m \in {n \in msgs : n.conn = conn}})

\* register_portal_identity: a Register call to the unique name of `owner`.
\* A call to a name that left the bus fails at once with ServiceUnknown.
RegisterPortalIdentity(owner, pending) ==
    \E id \in FreshIds(pending) :
        /\ retry' = FALSE
        /\ registration' = id
        /\ IF owner \in exited
           THEN /\ calls' = pending \cup
                        {[id |-> id, to |-> owner, outcome |-> "refused"]}
                /\ UNCHANGED msgs
           ELSE /\ calls' = pending \cup
                        {[id |-> id, to |-> owner, outcome |-> "pending"]}
                /\ msgs' = msgs \cup {[id |-> id, to |-> owner, conn |-> conn]}

\* clear_portal_identity(broker), then the new owner is registered.
PortalAppeared(o) ==
    /\ portalOwner' = o
    /\ registered' = FALSE
    /\ retryDelay' = 1
    /\ RegisterPortalIdentity(o, Cancelled(registration))

PortalVanished ==
    /\ portalOwner' = None
    /\ registered' = FALSE
    /\ retryDelay' = 1
    /\ registration' = NoAttempt
    /\ retry' = FALSE
    /\ calls' = Cancelled(registration)
    /\ UNCHANGED msgs

\* The name watch calls portal_appeared or portal_vanished.
DispatchWatch ==
    /\ LoopRuns
    /\ watchQ # <<>>
    /\ watchQ' = Tail(watchQ)
    /\ IF Head(watchQ) = None THEN PortalVanished
                              ELSE PortalAppeared(Head(watchQ))
    /\ UNCHANGED <<busVars, accepted, conn, status, quitting, requestVars,
                   faults>>

RetryRegistration ==
    /\ LoopRuns
    /\ retry
    /\ RegisterPortalIdentity(portalOwner, calls)
    /\ UNCHANGED <<busVars, accepted, watchQ, conn, status, portalOwner,
                   registered, retryDelay, quitting, requestVars, faults>>

\* Mutant: every callback counts.
AlwaysCurrent(c) == TRUE

\* "A reply to a cancelled attempt must not certify a replacement owner."
Current(c) == registration = c.id

\* Mutant: a timeout is retried like any other error.
NeverAmbiguous(c) == FALSE

\* Register is one-shot: an unknown outcome is never retried on this
\* connection.
Ambiguous(c) == c.outcome = "noreply"

\* Mutant: the broker goes on without an identity.
StaysUnregistered == quitting

\* g_main_loop_quit: only a fresh connection can learn the outcome.
QuitsForRestart == TRUE

NextDelay == IF retryDelay * 2 < MaxDelay THEN retryDelay * 2 ELSE MaxDelay

PortalRegistrationDone(c) ==
    /\ LoopRuns
    /\ c \in calls /\ c.outcome # "pending"
    /\ calls' = calls \ {c}
    /\ \/ /\ ~Current(c)
          /\ UNCHANGED <<identityVars, quitting>>
       \/ /\ Current(c)
          /\ registration' = NoAttempt
          /\ UNCHANGED portalOwner
          /\ \/ /\ c.outcome = "ok"
                /\ registered' = TRUE
                /\ UNCHANGED <<retry, retryDelay, quitting>>
             \/ /\ c.outcome # "ok" /\ Ambiguous(c)
                /\ quitting' = QuitsForRestart
                /\ UNCHANGED <<registered, retry, retryDelay>>
             \/ /\ c.outcome # "ok" /\ ~Ambiguous(c)
                /\ retry' = TRUE
                /\ retryDelay' = NextDelay
                /\ UNCHANGED <<registered, quitting>>
    /\ UNCHANGED <<busVars, accepted, msgs, watchQ, conn, status, requestVars,
                   faults>>

-----------------------------------------------------------------------------
(* Portal calls of the space: portal_destination, the synchronous call and  *)
(* the nested loop that waits for the Response signal.                      *)

\* A method handler asks the bus for the current owner and blocks.
LookUpOwner ==
    /\ LoopRuns
    /\ waits < MaxWaits
    /\ request' = [stage |-> "lookup", owner |-> nameOwner]
    /\ UNCHANGED <<busVars, accepted, msgs, watchQ, conn, status, identityVars,
                   calls, quitting, waits, over, served, faults>>

\* Mutant: any registration is good enough for the current owner.
MayAddressAnyOwner(owner) == owner # None /\ registered

MayAddress(owner) == owner # None /\ registered /\ owner = portalOwner

\* The rest of portal_destination: the call goes to the answered owner only
\* if it is the registered one.
PortalDestination ==
    /\ request.stage = "lookup"
    /\ request' = IF MayAddress(request.owner)
                  THEN [stage |-> "calling", owner |-> request.owner] ELSE Idle
    /\ UNCHANGED <<busVars, accepted, msgs, watchQ, conn, status, identityVars,
                   calls, quitting, waits, over, served, faults>>

\* The bus name the portal call is sent to.
Addressee == request.owner

\* The portal receives the call and returns a request path; the handler then
\* runs a nested main loop.
PortalServes ==
    /\ request.stage = "calling"
    /\ Addressee \in Owners \ exited
    /\ served' = served \cup {<<Addressee, conn>>}
    /\ request' = Idle
    /\ waits' = waits + 1
    /\ UNCHANGED <<busVars, accepted, msgs, watchQ, conn, status, identityVars,
                   calls, quitting, over, faults>>

\* The owner is gone, or answers with an error.
PortalCallFails ==
    /\ request.stage = "calling"
    /\ request' = Idle
    /\ UNCHANGED <<busVars, accepted, msgs, watchQ, conn, status, identityVars,
                   calls, quitting, waits, over, served, faults>>

\* The Response signal or the 120 s timer quits the nested loop of level i,
\* dispatched by whichever loop is innermost.
WaitEnds(i) ==
    /\ LoopRuns
    /\ i \in (1..waits) \ over
    /\ over' = over \cup {i}
    /\ UNCHANGED <<busVars, accepted, msgs, watchQ, conn, status, identityVars,
                   calls, quitting, request, waits, served, faults>>

\* The innermost loop returns: an outer wait that is over has to wait for it.
WaitReturns ==
    /\ status = "running"
    /\ request = Idle
    /\ waits \in over
    /\ waits' = waits - 1
    /\ over' = over \ {waits}
    /\ UNCHANGED <<busVars, accepted, msgs, watchQ, conn, status, identityVars,
                   calls, quitting, request, served, faults>>

-----------------------------------------------------------------------------
(* The life of a broker process.                                            *)

\* Everything the process held is gone with it.
ProcessEnds ==
    /\ status' = "exited"
    /\ watchQ' = <<>>
    /\ portalOwner' = None
    /\ registered' = FALSE
    /\ registration' = NoAttempt
    /\ retry' = FALSE
    /\ retryDelay' = 0
    /\ calls' = {}
    /\ quitting' = FALSE
    /\ request' = Idle
    /\ waits' = 0
    /\ over' = {}
    /\ UNCHANGED <<busVars, accepted, msgs, conn, served>>

\* main returns once its loop has been quit and no nested loop is left.
Exit ==
    /\ status = "running"
    /\ request = Idle
    /\ quitting /\ waits = 0
    /\ ProcessEnds
    /\ UNCHANGED faults

Crash ==
    /\ status = "running"
    /\ faults > 0
    /\ faults' = faults - 1
    /\ ProcessEnds

\* stop_broker: SIGTERM or SIGINT, dispatched by whichever loop runs.
StopBroker ==
    /\ LoopRuns
    /\ ~quitting
    /\ faults > 0
    /\ faults' = faults - 1
    /\ quitting' = TRUE
    /\ UNCHANGED <<busVars, accepted, msgs, watchQ, conn, status, identityVars,
                   calls, requestVars>>

\* The supervisor starts a new broker on a connection of its own.
StartBroker ==
    /\ status = "exited"
    /\ status' = "running"
    /\ conn' = conn + 1
    /\ watchQ' = <<nameOwner>>
    /\ UNCHANGED <<busVars, accepted, msgs, identityVars, calls, quitting,
                   requestVars, faults>>

-----------------------------------------------------------------------------

Portal ==
    \/ \E o \in Owners : OwnerAppears(o) \/ OwnerExits(o)
    \/ OwnerLeaves
    \/ \E m \in msgs : PortalAccepts(m) \/ PortalRefuses(m)

Broker ==
    \/ DispatchWatch
    \/ RetryRegistration
    \/ \E c \in calls : PortalRegistrationDone(c) \/ CallTimesOut(c)
    \/ LookUpOwner
    \/ PortalDestination
    \/ PortalServes
    \/ PortalCallFails
    \/ \E i \in 1..MaxWaits : WaitEnds(i)
    \/ WaitReturns
    \/ Exit
    \/ Crash
    \/ StopBroker
    \/ StartBroker

Next == Portal \/ Broker

Spec == Init /\ [][Next]_vars

\* A running portal reads its messages; a main loop serves every ready
\* source, however often a request blocks it in between; a blocked call and
\* a wait end by their timeouts; the supervisor replaces an exited broker.
\* Nothing obliges a portal to appear, to leave, or a space to make calls.
Fairness ==
    /\ WF_vars(\E m \in msgs : PortalAccepts(m) \/ PortalRefuses(m))
    /\ SF_vars(DispatchWatch)
    /\ SF_vars(RetryRegistration)
    /\ SF_vars(\E c \in calls : PortalRegistrationDone(c))
    /\ WF_vars(PortalDestination)
    /\ WF_vars(PortalServes \/ PortalCallFails)
    /\ \A i \in 1..MaxWaits : SF_vars(WaitEnds(i))
    /\ WF_vars(WaitReturns)
    /\ WF_vars(Exit)
    /\ WF_vars(StartBroker)

FairSpec == Spec /\ Fairness

-----------------------------------------------------------------------------
(* Properties.                                                              *)

\* portal_destination: "a replacement must never receive a call using the
\* previous owner's registration, even before its watch is dispatched".
\* A portal that received a call of a broker had accepted the registration of
\* that broker's own connection.
OnlyRegisteredOwnerServes == served \subseteq accepted

\* The broker believes in a registration only if the owner it names holds it:
\* portal_registered survives no change of owner, reply order or restart.
RegisteredIsCertified == registered => <<portalOwner, conn>> \in accepted

\* "Register is one-shot": no step sends a registration to a portal that
\* already holds one for this connection, which would be refused for ever.
NeverRegistersTwice ==
    [][\A m \in msgs' \ msgs : <<m.to, m.conn>> \notin accepted]_vars

\* Once a portal process keeps the name, the broker ends up registered with
\* it, through refusals, lost replies, crashes and nested waits.
StableOwnerIsRegistered ==
    \A o \in Owners :
        <>[](nameOwner = o) => <>[](registered /\ portalOwner = o)

=============================================================================
