------------------------------ MODULE ScuHost ------------------------------
(***************************************************************************)
(* The shared computer-use host and the controllers that lend it their     *)
(* guests' listeners: native/scu_service.h and ComputerLease in            *)
(* session.py.  A controller registers a Space's listening socket over a   *)
(* control connection (a lease) when a guest is waiting and revokes it by  *)
(* writing a byte and waiting for "released".  The host is one thread: the *)
(* GLib callbacks, which also run nested inside a desktop call, only frame *)
(* and queue requests, and the main loop executes one queued event at a    *)
(* time.  Replies time out, the executable is replaced, the host is        *)
(* stopped, crashes and is started again by socket activation.             *)
(***************************************************************************)
EXTENDS Naturals, Sequences, FiniteSets, Functions

CONSTANTS Spaces,     \* spaces with computer use, one controller each
          Leases,     \* control connections, reused once both ends are closed
          Clients,    \* connections of guests
          None,
          MaxLines,   \* requests a guest sends on one connection (bound)
          MaxPending, \* host_max_pending
          MaxClients, \* host_max_clients
          MaxLeases,  \* the 64 of host_control_accept
          MaxCancels, \* the 256 of host_line
          MaxFaults   \* timeouts, crashes, refusals and upgrades (bound)

ASSUME PoolAssumption == IsFiniteSet(Leases) /\ IsFiniteSet(Clients)
ASSUME NoneAssumption == None \notin Spaces \cup Leases \cup Clients
ASSUME BoundAssumption ==
    {MaxLines, MaxPending, MaxClients, MaxLeases, MaxCancels, MaxFaults} \subseteq Nat

VARIABLES
    host,       \* the host process: where its main loop is, and its flags
    lease,      \* HostLease of each control connection
    client,     \* HostClient of each guest connection
    events,     \* host_events
    current,    \* the event being executed: a call or a registration
    cancelled,  \* scu.cancelled
    cancelIds,  \* cancelled_ids
    held,       \* the lease for which a key or button is down
    conn,       \* what is in flight on each control connection
    ctl,        \* ComputerLease of each space
    installed,  \* the executable on disk
    faults

hostVars == <<host, lease, client, events, current, cancelled, cancelIds, held>>
vars == <<hostVars, conn, ctl, installed, faults>>

Ids == 1..MaxLines

NoLease == [known |-> FALSE, registered |-> FALSE, revoked |-> FALSE,
            acknowledged |-> FALSE, used |-> FALSE, accepting |-> FALSE]
NoClient == [at |-> None, lease |-> None, state |-> "away", sent |-> 0]
NoConn == [space |-> None, pending |-> FALSE, unread |-> "none",
           closed |-> FALSE, out |-> <<>>, hup |-> FALSE]
Closed == [pc |-> "closed", lease |-> None, attempt |-> 0, exe |-> 0,
           closing |-> FALSE]
Opened == [Closed EXCEPT !.pc = "idle"]

\* "ready" carries the identity of the executable that runs.
Reply == [ready : {TRUE}, exe : 0..MaxFaults] \cup [ready : {FALSE}]
Ready == [ready |-> TRUE, exe |-> host.exe]
ReleasedReply == [ready |-> FALSE]

Host == [phase : {"down", "loop", "call", "bind", "tail"},
         stopping : BOOLEAN, once : BOOLEAN, exe : 0..MaxFaults]
HostLease == [known : BOOLEAN, registered : BOOLEAN, revoked : BOOLEAN,
              acknowledged : BOOLEAN, used : BOOLEAN, accepting : BOOLEAN]
HostClient == [at : Spaces \cup {None}, lease : Leases \cup {None},
               state : {"away", "waiting", "open", "closed"}, sent : 0..MaxLines]
Control == [space : Spaces \cup {None}, pending : BOOLEAN,
            unread : {"none", "payload", "R"}, closed : BOOLEAN,
            out : Seq(Reply), hup : BOOLEAN]
ComputerLease == [pc : {"idle", "activating", "raising", "releasing",
                        "stopping", "restarting", "closed", "failed"},
                  lease : Leases \cup {None}, attempt : 0..1,
                  exe : 0..MaxFaults, closing : BOOLEAN]

Event == [kind : {"call"}, client : Clients, id : Ids]
         \cup [kind : {"register", "revoke"}, lease : Leases]

TypeOK ==
    /\ host \in Host
    /\ lease \in [Leases -> HostLease]
    /\ client \in [Clients -> HostClient]
    /\ events \in Seq(Event)
    /\ current \in Event \cup {None}
    /\ cancelled \in BOOLEAN
    /\ cancelIds \subseteq Clients \X Ids
    /\ held \in Leases \cup {None}
    /\ conn \in [Leases -> Control]
    /\ ctl \in [Spaces -> ComputerLease]
    /\ installed \in 0..MaxFaults
    /\ faults \in 0..MaxFaults

Init ==
    /\ host = [phase |-> "down", stopping |-> FALSE, once |-> FALSE, exe |-> 0]
    /\ lease = [l \in Leases |-> NoLease]
    /\ client = [c \in Clients |-> NoClient]
    /\ events = <<>>
    /\ current = None
    /\ cancelled = FALSE
    /\ cancelIds = {}
    /\ held = None
    /\ conn = [l \in Leases |-> NoConn]
    /\ ctl = [s \in Spaces |-> Opened]
    /\ installed = 0
    /\ faults = MaxFaults

Fault == faults > 0 /\ faults' = faults - 1

-----------------------------------------------------------------------------
(* Control connections: both ends close; the last to close frees the pair.  *)
(* A host that closes before it has read the controller's byte resets the    *)
(* stream: the byte stays "R", and the controller's recv raises.             *)

CtlClose(l) == IF conn[l].hup THEN NoConn
               ELSE [conn[l] EXCEPT !.closed = TRUE, !.out = <<>>]
HostClose(l) == IF conn[l].closed THEN NoConn
                ELSE [conn[l] EXCEPT !.hup = TRUE, !.pending = FALSE,
                                     !.unread = IF @ = "R" THEN "R" ELSE "none"]

\* send(): nothing reaches a peer that has closed.
Send(l, m) == IF conn[l].closed THEN conn[l]
              ELSE [conn[l] EXCEPT !.out = Append(@, m)]

\* select() on the controller's end.
Readable(l) == conn[l].out # <<>> \/ conn[l].hup

Waiting(s) == {c \in Clients : client[c].at = s /\ client[c].state = "waiting"}

-----------------------------------------------------------------------------
(* Guests (external).                                                       *)

GuestConnects(c) ==
    /\ client[c].state = "away"
    /\ \E s \in Spaces :
        /\ ctl[s].pc \notin {"closed", "failed"}
        /\ client' = [client EXCEPT ![c] = [NoClient EXCEPT !.at = s,
                                                            !.state = "waiting"]]
    /\ UNCHANGED <<host, lease, events, current, cancelled, cancelIds, held,
                   conn, ctl, installed, faults>>

\* The last descriptor of the listener is closed: its backlog is dropped.
ListenerGone(s) ==
    /\ ctl[s].pc \in {"closed", "failed"}
    /\ \A l \in Leases : lease[l].known => conn[l].space # s
    /\ Waiting(s) # {}
    /\ client' = [c \in Clients |-> IF c \in Waiting(s) THEN NoClient
                                                        ELSE client[c]]
    /\ UNCHANGED <<host, lease, events, current, cancelled, cancelIds, held,
                   conn, ctl, installed, faults>>

-----------------------------------------------------------------------------
(* Callbacks of the host.  They run in the main loop and, nested, whenever  *)
(* a call or a registration ticks.                                          *)

Dispatching == host.phase \in {"loop", "call", "bind"}

ControlReady(l) ==
    /\ lease[l].known /\ ~lease[l].revoked
    /\ conn[l].unread # "none" \/ conn[l].closed

AcceptReady(l, c) == lease[l].accepting /\ c \in Waiting(conn[l].space)

\* g_main_context_iteration(NULL, FALSE) is repeated until nothing is ready.
Drained ==
    /\ \A l \in Leases : ~conn[l].pending /\ ~ControlReady(l)
    /\ \A l \in Leases, c \in Clients : ~AcceptReady(l, c)

Executing(c) == current # None /\ current.kind = "call" /\ current.client = c

ForgetCancels(cs) == {e \in cancelIds : e[1] \notin cs}

\* host_client_close, for every open client in cs.
HostClientClose(cs) ==
    /\ client' = [c \in Clients |->
                    IF c \in cs /\ client[c].state = "open"
                    THEN [client[c] EXCEPT !.state = "closed"] ELSE client[c]]
    /\ cancelled' = (cancelled \/ \E c \in cs : Executing(c) /\ client[c].state = "open")
    /\ cancelIds' = ForgetCancels(cs)

ClientsOf(l) == {c \in Clients : client[c].lease = l}

\* Mutant of QueuedRevoke: the revocation is not queued for its turn.
UnqueuedRevoke(l) == events

QueuedRevoke(l) == Append(events, [kind |-> "revoke", lease |-> l])

HostRevoke(l) ==
    /\ lease' = [lease EXCEPT ![l].revoked = TRUE, ![l].accepting = FALSE]
    /\ HostClientClose(ClientsOf(l))
    /\ events' = QueuedRevoke(l)

\* host_control_accept: one lease more, unless there are too many.
HostControlAccept(l) ==
    /\ Dispatching
    /\ conn[l].pending
    /\ IF Cardinality({k \in Leases : lease[k].known}) >= MaxLeases
       THEN conn' = [conn EXCEPT ![l] = HostClose(l)] /\ UNCHANGED lease
       ELSE /\ conn' = [conn EXCEPT ![l].pending = FALSE]
            /\ lease' = [lease EXCEPT ![l] = [NoLease EXCEPT !.known = TRUE]]
    /\ UNCHANGED <<host, client, events, current, cancelled, cancelIds, held,
                   ctl, installed, faults>>

\* host_control_read: the registration, then a byte or the end of the stream.
HostControlRead(l) ==
    /\ Dispatching
    /\ ControlReady(l)
    /\ IF conn[l].unread = "payload"
       THEN /\ lease' = [lease EXCEPT ![l].registered = TRUE]
            /\ events' = Append(events, [kind |-> "register", lease |-> l])
            /\ UNCHANGED <<client, cancelled, cancelIds>>
       ELSE HostRevoke(l)
    /\ conn' = [conn EXCEPT ![l].unread = "none"]
    /\ UNCHANGED <<host, current, held, ctl, installed, faults>>

\* host_client_count.
ClientCount == Cardinality({c \in Clients : client[c].state = "open"})

HostAccept(l, c) ==
    /\ Dispatching
    /\ AcceptReady(l, c)
    /\ IF ClientCount >= MaxClients
       THEN client' = [client EXCEPT ![c] = NoClient] /\ UNCHANGED lease
       ELSE /\ client' = [client EXCEPT ![c].lease = l, ![c].state = "open"]
            /\ lease' = [lease EXCEPT ![l].used = TRUE]
    /\ UNCHANGED <<host, events, current, cancelled, cancelIds, held, conn,
                   ctl, installed, faults>>

\* host_line: a request is queued, or the queue is full and the client goes.
HostLine(c) ==
    /\ Dispatching
    /\ client[c].state = "open"
    /\ client[c].sent < MaxLines
    /\ IF Len(events) < MaxPending
       THEN /\ events' = Append(events, [kind |-> "call", client |-> c,
                                         id |-> client[c].sent + 1])
            /\ client' = [client EXCEPT ![c].sent = @ + 1]
            /\ UNCHANGED <<cancelled, cancelIds>>
       ELSE HostClientClose({c}) /\ UNCHANGED events
    /\ UNCHANGED <<host, lease, current, held, conn, ctl, installed, faults>>

\* host_line, notifications/cancelled: for the active, a queued, a finished
\* or a coming request of this client.
HostCancel(c, id) ==
    /\ Dispatching
    /\ client[c].state = "open"
    /\ cancelIds' = IF Cardinality(cancelIds) < MaxCancels
                    THEN cancelIds \cup {<<c, id>>} ELSE cancelIds
    /\ cancelled' = (cancelled \/ (Executing(c) /\ current.id = id))
    /\ UNCHANGED <<host, lease, client, events, current, held, conn, ctl,
                   installed, faults>>

\* host_read and host_write: the guest hangs up or its socket fails.
HostHangup(c) ==
    /\ Dispatching
    /\ client[c].state = "open"
    /\ HostClientClose({c})
    /\ UNCHANGED <<host, lease, events, current, held, conn, ctl, installed,
                   faults>>

-----------------------------------------------------------------------------
(* run_shared_host: the main loop.                                          *)

Phase(p) == host' = [host EXCEPT !.phase = p]

\* Mutant of AtTop: the nested dispatch of a call executes events, too.
AtTopOrNested == host.phase \in {"loop", "call"}

\* Only the main loop takes events from the queue.
AtTop == host.phase = "loop"

Pop(kind) ==
    /\ AtTop
    /\ Drained
    /\ events # <<>>
    /\ Head(events).kind = kind
    /\ events' = Tail(events)

\* handle_request, call_tool: the flag is set from the cancelled ids.
StartCall ==
    /\ Pop("call")
    /\ LET e == Head(events) IN
       IF client[e.client].state = "open"
       THEN /\ current' = e
            /\ cancelled' = (<<e.client, e.id>> \in cancelIds)
            /\ Phase("call")
       ELSE Phase("tail") /\ UNCHANGED <<current, cancelled>>
    /\ UNCHANGED <<lease, client, cancelIds, held, conn, ctl, installed, faults>>

\* scu_tick passes, and the call presses or releases something.
Input ==
    /\ host.phase = "call"
    /\ Drained
    /\ ~cancelled /\ ~host.stopping
    /\ held' \in {None, client[current.client].lease}
    /\ UNCHANGED <<host, lease, client, events, current, cancelled, cancelIds,
                   conn, ctl, installed, faults>>

\* The call is done, cancelled or past its deadline; its id is forgotten.
EndCall ==
    /\ host.phase = "call"
    /\ Drained
    /\ held' = None
    /\ cancelIds' = cancelIds \ {<<current.client, current.id>>}
    /\ current' = None
    /\ Phase("tail")
    /\ UNCHANGED <<lease, client, events, cancelled, conn, ctl, installed, faults>>

\* HOST_REGISTER: desktop_bind waits for logind; a revoked lease is skipped.
StartBind ==
    /\ Pop("register")
    /\ IF lease[Head(events).lease].revoked
       THEN Phase("tail") /\ UNCHANGED <<current, cancelled>>
       ELSE /\ current' = Head(events)
            /\ cancelled' = FALSE
            /\ Phase("bind")
    /\ UNCHANGED <<lease, client, cancelIds, held, conn, ctl, installed, faults>>

\* The lease is answered and its listener served, or it is revoked: the
\* session is not this host's, or the controller has gone.
EndBind ==
    LET l == current.lease IN
    /\ host.phase = "bind"
    /\ Drained
    /\ current' = None
    /\ \/ /\ ~conn[l].closed
          /\ conn' = [conn EXCEPT ![l] = Send(l, Ready)]
          /\ lease' = [lease EXCEPT ![l].accepting = ~lease[l].revoked]
          /\ host' = [host EXCEPT !.phase = "tail", !.once = @ \/ ~lease[l].revoked]
          /\ UNCHANGED <<client, events, cancelled, cancelIds, faults>>
       \/ /\ IF conn[l].closed \/ host.stopping THEN UNCHANGED faults ELSE Fault
          /\ IF lease[l].revoked
             THEN UNCHANGED <<lease, client, events, cancelled, cancelIds>>
             ELSE HostRevoke(l)
          /\ Phase("tail")
          /\ UNCHANGED conn
    /\ UNCHANGED <<held, ctl, installed>>

\* HOST_REVOKE: "The active call has returned and queued calls from this lease
\* are already dead.  No input can follow this acknowledgement."
Acknowledge ==
    /\ Pop("revoke")
    /\ LET l == Head(events).lease IN
       /\ conn' = [conn EXCEPT ![l] = Send(l, ReleasedReply)]
       /\ lease' = [lease EXCEPT ![l].acknowledged = TRUE]
    /\ held' = None
    /\ Phase("tail")
    /\ UNCHANGED <<client, current, cancelled, cancelIds, ctl, installed, faults>>

EndOfTurn == host.phase = "tail" \/ (host.phase = "loop" /\ Drained /\ events = <<>>)

Idle(l) ==
    /\ lease[l].known /\ lease[l].used /\ ~lease[l].revoked
    /\ \A c \in ClientsOf(l) : client[c].state # "open"

\* A lease whose guests are gone for two seconds is returned.
IdleRevoke(l) ==
    /\ EndOfTurn
    /\ Idle(l)
    /\ HostRevoke(l)
    /\ UNCHANGED <<host, current, held, conn, ctl, installed, faults>>

\* client->pending: queued calls of the client.
Pending(c) == \E i \in 1..Len(events) :
                 events[i].kind = "call" /\ events[i].client = c

\* Mutant of Collectable: queued calls are not waited for.
CollectableAtOnce(c) == client[c].state = "closed"

Collectable(c) == client[c].state = "closed" /\ ~Pending(c)

Freeable(l) ==
    /\ lease[l].acknowledged
    /\ \A c \in ClientsOf(l) : Collectable(c)

\* host_collect, and the end of the turn: the host exits with its last lease,
\* or, never registered, at its startup deadline.
HostCollect ==
    LET freed == {l \in Leases : Freeable(l)}
        last == \A l \in Leases : lease[l].known => l \in freed IN
    /\ EndOfTurn
    /\ ~host.stopping
    /\ client' = [c \in Clients |-> IF Collectable(c) THEN NoClient ELSE client[c]]
    /\ lease' = [l \in Leases |-> IF l \in freed THEN NoLease ELSE lease[l]]
    /\ conn' = [l \in Leases |-> IF l \in freed THEN HostClose(l) ELSE conn[l]]
    /\ host' \in {[host EXCEPT !.phase = "loop"]}
                 \cup IF last THEN {[host EXCEPT !.phase = "down"]}
                              ELSE {}
    /\ last /\ host.once => host'.phase = "down"
    /\ held' = IF host'.phase = "down" THEN None ELSE held
    /\ UNCHANGED <<events, current, cancelled, cancelIds, ctl, installed, faults>>

\* The process ends: its sockets close, connections it has not accepted wait
\* on in the listening socket of the unit.
Down ==
    /\ host' = [host EXCEPT !.phase = "down", !.stopping = FALSE]
    /\ lease' = [l \in Leases |-> NoLease]
    /\ client' = [c \in Clients |->
                    IF client[c].state = "waiting" THEN client[c] ELSE NoClient]
    /\ conn' = [l \in Leases |-> IF lease[l].known THEN HostClose(l) ELSE conn[l]]
    /\ events' = <<>>
    /\ current' = None
    /\ cancelIds' = {}
    /\ held' = None
    /\ UNCHANGED <<cancelled, ctl, installed>>

\* SIGTERM, or the login is no longer the active one: the loop ends.
HostStops ==
    /\ EndOfTurn
    /\ host.stopping
    /\ Down
    /\ UNCHANGED faults

HostCrashes ==
    /\ host.phase # "down"
    /\ Fault
    /\ Down

SessionEnds ==
    /\ host.phase # "down" /\ ~host.stopping
    /\ Fault
    /\ host' = [host EXCEPT !.stopping = TRUE]
    /\ UNCHANGED <<lease, client, events, current, cancelled, cancelIds, held,
                   conn, ctl, installed>>

\* Socket activation.
HostStarts ==
    /\ host.phase = "down"
    /\ \E l \in Leases : conn[l].pending
    /\ host' = [phase |-> "loop", stopping |-> FALSE, once |-> FALSE,
                exe |-> installed]
    /\ cancelled' = FALSE
    /\ UNCHANGED <<lease, client, events, current, cancelIds, held, conn, ctl,
                   installed, faults>>

\* A package upgrade replaces the executable.
Upgrade ==
    /\ Fault
    /\ installed' = installed + 1
    /\ UNCHANGED <<hostVars, conn, ctl>>

-----------------------------------------------------------------------------
(* ComputerLease.                                                           *)

Registering(s) == [NoConn EXCEPT !.space = s, !.pending = TRUE, !.unread = "payload"]

\* Mutant of Returned: a lease the host gave back is kept.
NeverReturned(l) == FALSE

\* The host released an idle listener or exited.
Returned(l) == l # None /\ Readable(l)

\* alive: a control that became readable is dropped, and with a guest waiting
\* the host is activated.
Alive(s) ==
    LET old == ctl[s].lease
        dropped == Returned(old)
        kept == IF dropped THEN [conn EXCEPT ![old] = CtlClose(old)] ELSE conn IN
    /\ ctl[s].pc = "idle"
    /\ IF (old = None \/ dropped) /\ Waiting(s) # {}
       THEN \E l \in Leases :
              /\ kept[l] = NoConn
              /\ conn' = [kept EXCEPT ![l] = Registering(s)]
              /\ ctl' = [ctl EXCEPT ![s] = [Closed EXCEPT !.pc = "activating",
                                            !.lease = l, !.exe = installed]]
       ELSE /\ dropped
            /\ conn' = kept
            /\ ctl' = [ctl EXCEPT ![s] = Opened]
    /\ UNCHANGED <<hostVars, installed, faults>>

\* _activate: "ready" with the identity of the installed executable; of
\* another executable, whose host is released first; or a rejection, which
\* "ready" and "released" read together are, too: they are not one document.
ActivateReply(s) ==
    LET l == ctl[s].lease IN
    /\ ctl[s].pc = "activating"
    /\ Readable(l)
    /\ IF Len(conn[l].out) = 1 /\ Head(conn[l].out).ready
       THEN IF Head(conn[l].out).exe = ctl[s].exe
            THEN /\ conn' = [conn EXCEPT ![l].out = Tail(@)]
                 /\ ctl' = [ctl EXCEPT ![s].pc = "idle"]
            ELSE /\ conn' = [conn EXCEPT ![l].out = Tail(@), ![l].unread =
                                IF conn[l].hup THEN "none" ELSE "R"]
                 /\ ctl' = [ctl EXCEPT ![s].pc = "releasing"]
       ELSE /\ conn' = [conn EXCEPT ![l] = CtlClose(l)]
            /\ ctl' = [ctl EXCEPT ![s] = Opened]
    /\ UNCHANGED <<hostVars, installed, faults>>

\* _computer_reply times out.
ActivateTimesOut(s) ==
    /\ ctl[s].pc = "activating"
    /\ ~Readable(ctl[s].lease)
    /\ Fault
    /\ ctl' = [ctl EXCEPT ![s].pc = "raising"]
    /\ UNCHANGED <<hostVars, conn, installed>>

\* An exception leaves _activate or _release_control: its handler closes the
\* control.  On close it becomes a failed revocation.
Raises(s) ==
    /\ ctl[s].pc = "raising"
    /\ conn' = [conn EXCEPT ![ctl[s].lease] = CtlClose(ctl[s].lease)]
    /\ ctl' = [ctl EXCEPT ![s] = IF ctl[s].closing
                                 THEN [Closed EXCEPT !.pc = "failed"]
                                 ELSE Opened]
    /\ UNCHANGED <<hostVars, installed, faults>>

\* close: nothing to release, or _release_control writes its byte.
Close(s) ==
    LET l == ctl[s].lease IN
    /\ ctl[s].pc = "idle"
    /\ IF l = None
       THEN ctl' = [ctl EXCEPT ![s] = Closed] /\ UNCHANGED conn
       ELSE /\ ctl' = [ctl EXCEPT ![s].pc = "releasing", ![s].closing = TRUE]
            /\ conn' = [conn EXCEPT ![l].unread = IF conn[l].hup THEN @ ELSE "R"]
    /\ UNCHANGED <<hostVars, installed, faults>>

\* Mutant of Answered: the byte was written, and that is enough.
AnsweredAtOnce(l) == TRUE

\* "released", or the end of the stream: the host exited.
Answered(l) == Readable(l)

LastAttempt(s) == ctl[s].attempt = 1

\* _release_control returns, to close or to _activate.
Released(s) ==
    /\ conn' = [conn EXCEPT ![ctl[s].lease] = CtlClose(ctl[s].lease)]
    /\ IF ctl[s].closing
       THEN ctl' = [ctl EXCEPT ![s] = Closed]
       ELSE IF LastAttempt(s)
       THEN ctl' = [ctl EXCEPT ![s] = Opened]
       ELSE ctl' = [ctl EXCEPT ![s].pc = "restarting", ![s].lease = None]

StopUnit == [host EXCEPT !.stopping = host.phase # "down"]

ReleaseReply(s) ==
    /\ ctl[s].pc = "releasing"
    /\ Answered(ctl[s].lease)
    /\ Released(s)
    /\ host' = IF ctl'[s].pc = "restarting" THEN StopUnit ELSE host
    /\ UNCHANGED <<lease, client, events, current, cancelled, cancelIds, held,
                   installed, faults>>

\* No answer in time: the unit is stopped, or systemctl fails or does not
\* return in time, with or without the host stopping in the end.
ReleaseTimesOut(s) ==
    /\ ctl[s].pc = "releasing"
    /\ ~Readable(ctl[s].lease)
    /\ Fault
    /\ \/ ctl' = [ctl EXCEPT ![s].pc = "stopping"] /\ host' = StopUnit
       \/ ctl' = [ctl EXCEPT ![s].pc = "raising"] /\ host' \in {host, StopUnit}
    /\ UNCHANGED <<lease, client, events, current, cancelled, cancelIds, held,
                   conn, installed>>

\* The stop job is done: the stream must end without another answer.  A late
\* answer is an error, and so is the reset of a stream whose byte was not read.
StopDone(s) ==
    LET l == ctl[s].lease IN
    /\ ctl[s].pc = "stopping"
    /\ ~host.stopping
    /\ Readable(l)
    /\ IF conn[l].out = <<>> /\ conn[l].unread # "R"
       THEN /\ Released(s)
            /\ host' = IF ctl'[s].pc = "restarting" THEN StopUnit ELSE host
       ELSE ctl' = [ctl EXCEPT ![s].pc = "raising"] /\ UNCHANGED <<host, conn>>
    /\ UNCHANGED <<lease, client, events, current, cancelled, cancelIds, held,
                   installed, faults>>

\* The unit has been restarted: the second attempt.
Reconnect(s) ==
    /\ ctl[s].pc = "restarting"
    /\ ~host.stopping
    /\ \E l \in Leases :
        /\ conn[l] = NoConn
        /\ conn' = [conn EXCEPT ![l] = Registering(s)]
        /\ ctl' = [ctl EXCEPT ![s].pc = "activating", ![s].lease = l,
                              ![s].attempt = @ + 1]
    /\ UNCHANGED <<hostVars, installed, faults>>

\* start_computer_service: a new listener.
Open(s) ==
    /\ ctl[s].pc \in {"closed", "failed"}
    /\ Waiting(s) = {}
    /\ ctl' = [ctl EXCEPT ![s] = Opened]
    /\ UNCHANGED <<hostVars, conn, installed, faults>>

-----------------------------------------------------------------------------

Callback ==
    \/ \E l \in Leases : HostControlAccept(l) \/ HostControlRead(l)
    \/ \E l \in Leases, c \in Clients : HostAccept(l, c)

Guest ==
    \/ \E c \in Clients : GuestConnects(c) \/ HostLine(c) \/ HostHangup(c)
    \/ \E c \in Clients, id \in Ids : HostCancel(c, id)

Turn == StartCall \/ StartBind \/ EndBind \/ Acknowledge \/ HostCollect

Controller(s) ==
    \/ Alive(s) \/ ActivateReply(s) \/ Raises(s)
    \/ ReleaseReply(s) \/ StopDone(s) \/ Reconnect(s)

Next ==
    \/ Callback \/ Guest \/ Turn \/ Input \/ EndCall
    \/ \E l \in Leases : IdleRevoke(l)
    \/ HostStops \/ HostCrashes \/ SessionEnds \/ HostStarts \/ Upgrade
    \/ \E s \in Spaces :
        \/ Controller(s) \/ ListenerGone(s)
        \/ ActivateTimesOut(s) \/ ReleaseTimesOut(s) \/ Close(s) \/ Open(s)

Spec == Init /\ [][Next]_vars

\* The host's loop serves every ready source and goes on; a call ends by its
\* deadline however often it is interrupted; systemd starts and stops the
\* unit; the controller's worker ticks.  Guests owe nothing, no idle lease has
\* to be returned, no space has to be closed.
Fairness ==
    /\ \A l \in Leases :
        /\ SF_vars(HostControlAccept(l))
        /\ SF_vars(HostControlRead(l))
        /\ \A c \in Clients : SF_vars(HostAccept(l, c))
    /\ SF_vars(Turn /\ UNCHANGED faults)
    /\ SF_vars(EndCall)
    /\ WF_vars(HostStops)
    /\ WF_vars(HostStarts)
    /\ \A s \in Spaces : WF_vars(Controller(s)) /\ WF_vars(ListenerGone(s))

FairSpec == Spec /\ Fairness

-----------------------------------------------------------------------------
(* Properties.                                                              *)

\* run_shared_host: "No input can follow this acknowledgement."  Once a lease
\* is acknowledged none of its guests is connected, accepted or executed, and
\* nothing is held down for it.
AcknowledgedIsOver ==
    \A l \in Leases : lease[l].acknowledged =>
        /\ ~lease[l].accepting
        /\ held # l
        /\ \A c \in ClientsOf(l) : client[c].state = "closed" /\ ~Executing(c)

\* host_collect frees nothing that is still used: queued and active events
\* name clients and leases that exist, and clients name leases that exist.
NothingDangles ==
    /\ \A e \in Range(events) \cup ({current} \ {None}) :
        IF e.kind = "call" THEN client[e.client].state \in {"open", "closed"}
                           ELSE lease[e.lease].known
    /\ \A c \in Clients :
        client[c].state \in {"open", "closed"} => lease[client[c].lease].known

\* _release_control returns only when the host has acknowledged the lease or
\* has lost it: the controller never goes on with the guest still served.
ReleaseIsAcknowledged ==
    [][\A s \in Spaces :
        ctl[s].pc \in {"releasing", "stopping"} /\ ctl'[s].lease = None
            => LET l == ctl[s].lease IN
               lease[l].known => lease[l].acknowledged]_vars

\* A guest that connects is served or turned away, through idle leases, host
\* restarts, upgrades and timeouts.
WaitingIsServed ==
    \A c \in Clients : client[c].state = "waiting" ~> client[c].state # "waiting"

\* A revocation ends, however busy the host is.
ReleaseCompletes ==
    \A s \in Spaces : ctl[s].pc = "releasing" ~> ctl[s].pc # "releasing"

=============================================================================
