---------------------------- MODULE SystemBridge ----------------------------
(***************************************************************************)
(* The system bus bridge: native/spaces_system_broker.c, one program that  *)
(* runs as the relay on a space's system bus and as the broker on the      *)
(* host's.  Each guest that calls gets a connection of its own through     *)
(* both; an observer connection carries broadcasts to the other guests.    *)
(* Each process has a main loop: GDBus worker threads queue messages as    *)
(* high-priority events in receive order, while completions of calls, name *)
(* watches and closed connections are default-priority sources.            *)
(* One proxied service stands for the three: NetworkManager, the only one  *)
(* with secret agents.                                                     *)
(***************************************************************************)
EXTENDS Naturals, FiniteSets, SequencesExt

CONSTANTS Guests,         \* unique names on the space's bus
          Observer,       \* the name of the observer's client
          None,           \* no name, no call, no connection
          Requests,       \* calls that guests make
          Callbacks,      \* calls that the service makes to secret agents
          Admin,          \* Network Admin is granted to the space
          Conns,          \* connections relay-broker-host, used once each
          MaxOutstanding, \* calls of one client (64 in the code)
          MaxQueued,      \* queued events of one process (1024 in the code)
          MaxClients,     \* clients of the relay (128 in the code)
          MaxOwners,      \* instances of the service (bound)
          Budgets         \* what the environment may do (bound): see Budget

Calls == Requests \cup Callbacks

Kinds == {"read", "write", "big", "register", "unregister"}

ASSUME CallAssumption == Requests \cap Callbacks = {} /\ None \notin Calls
ASSUME NameAssumption == Observer \notin Guests /\ None \notin Guests /\ None # Observer
ASSUME ConnAssumption ==
    /\ None \notin Conns
    /\ \A c \in Conns, k \in Calls \cup {None} : None # [conn |-> c, call |-> k]
ASSUME BoundAssumption == MaxQueued \in Nat /\ IsFiniteSet(Calls) /\ IsFiniteSet(Conns)

VARIABLES
    queue,    \* per process: events and sources, in the order they were queued
    conn,     \* clients: one record for a connection's two ends
    opening,  \* the relay waits for Open: the connection and the call behind it
    names,    \* guest_names of the relay
    present,  \* guests on the space's bus
    call,     \* Call records: who, over which connection, how far
    pending,  \* per process: pending_calls, with `delivered`
    waiting,  \* per process: calls GDBus still waits to complete
    inbox,    \* calls the service has not answered
    owner,    \* the service's instance on the host bus, 0 when it does not run
    started,  \* instances of the service so far
    sent,     \* the connections each message of the service went to
    agents,   \* connections registered with the running instance
    reowned,  \* whether the relay has taken the name again since the observer saw
              \* the service stop or start: "yes", "due", or "lost" at a full queue
    answers,  \* how often each call was answered
    got,      \* what each guest has received, in order
    budget    \* what the environment may still do

vars == <<queue, conn, opening, names, present, call, pending, waiting, inbox,
          owner, started, sent, agents, reowned, answers, got, budget>>
serviceVars == <<owner, started, sent, agents>>

\* The calls guests make, messages of the service, stops of the service,
\* observers opened, and faults: failed handshakes, lost connections, departures.
Budget == [requests : Seq(Kinds), sent : Nat, stops : Nat, observers : Nat, faults : Nat]
ASSUME BudgetAssumption == Budgets \subseteq Budget

Spend(what) ==
    budget[what] > 0 /\ budget' = [budget EXCEPT ![what] = @ - 1]

Roles == {"relay", "broker"}
Other(r) == IF r = "relay" THEN "broker" ELSE "relay"
Callback(k) == k \in Callbacks

Client == [name : Guests \cup {Observer, None}, relay : {"none", "opening", "open", "closed"},
           broker : {"none", "peer", "open", "closed"}, watch : BOOLEAN,
           owner : 0..MaxOwners, agent : BOOLEAN]
NoClient == [name |-> None, relay |-> "none", broker |-> "none", watch |-> FALSE,
             owner |-> 0, agent |-> FALSE]

\* A queued item: an event (high) or a default-priority source.
Item(high, type, c, id, val, n) ==
    [high |-> high, type |-> type, conn |-> c, id |-> id, val |-> val, stamp |-> n]
Event(type, c, id, val, n) == Item(TRUE, type, c, id, val, n)
Source(type, c, id, val, n) == Item(FALSE, type, c, id, val, n)

Init ==
    /\ queue = [r \in Roles |-> <<>>]
    /\ conn = [c \in Conns |-> NoClient]
    /\ opening = None
    /\ names = Guests
    /\ present = Guests
    /\ call = [k \in Calls |-> [guest |-> None, conn |-> None, kind |-> "callback"]]
    /\ pending = [r \in Roles |-> {}]
    /\ waiting = [r \in Roles |-> {}]
    /\ inbox = {}
    /\ owner = 1
    /\ started = 1
    /\ sent = <<>>
    /\ agents = {}
    /\ reowned = "yes"
    /\ answers = [k \in Calls |-> 0]
    /\ got = [g \in Guests |-> <<>>]
    /\ budget \in Budgets

-----------------------------------------------------------------------------
(* Queues and connections.                                                  *)

Events(s) == {i \in DOMAIN s : s[i].high}

\* queue_message: above the limit an event is dropped; a source always fits.
Full(q, r) == Cardinality(Events(q[r])) >= MaxQueued
Queued(q, r, item) ==
    IF item.high /\ Full(q, r) THEN q ELSE [q EXCEPT ![r] = Append(@, item)]

\* Several events, of which the first fit, and several sources.
Room(q, r) == IF Full(q, r) THEN 0 ELSE MaxQueued - Cardinality(Events(q[r]))
QueuedEvents(q, r, items) ==
    [q EXCEPT ![r] = @ \o SubSeq(items, 1, IF Len(items) < Room(q, r) THEN Len(items) ELSE Room(q, r))]
QueuedSources(q, r, items) == [q EXCEPT ![r] = @ \o items]

\* GLib runs a default source only when no event that was queued before it is
\* left; an event overtakes the sources before it.
Next1(r) == CHOOSE i \in Events(queue[r]) : \A j \in Events(queue[r]) : i <= j
NextEvent(r, type) ==
    /\ Events(queue[r]) # {}
    /\ queue[r][Next1(r)].type = type
AnEvent(r) == queue[r][Next1(r)]
AfterEvent(r) == [queue EXCEPT ![r] = RemoveAt(@, Next1(r))]

NextSource(r, type) ==
    /\ queue[r] # <<>>
    /\ ~Head(queue[r]).high
    /\ Head(queue[r]).type = type
AfterSource(r) == [queue EXCEPT ![r] = Tail(@)]

\* The relay's thread is in a synchronous call.
Runs(r) == r = "broker" \/ opening = None

Open(c) == conn[c].relay = "open" /\ conn[c].broker = "open"
ClientsOf(name) == {c \in Conns : conn[c].name = name /\ conn[c].relay = "open"}
Outstanding(r, c) == {p \in pending[r] : call[p.id].conn = c}

\* GDBus completes the calls that wait on a connection that has closed.
Cancelled(ids) == [i \in 1..Cardinality(ids) |->
    Source("done", None, SetToSeq(ids)[i], "none", 0)]

\* A reply reaches a process: its filter queues it as an event and GDBus
\* completes the call, unless the call has timed out.  The guest bus is not
\* filtered for replies.
Arrived(q, w, r, k, val, n) ==
    LET c == call[k].conn
        ev == IF r = "relay" /\ Callback(k) THEN q
              ELSE Queued(q, r, Event("reply", c, k, val, n))
        place == IF ev = q THEN 0 ELSE n    \* no event: no place in the order
    IN IF k \in w[r] THEN Queued(ev, r, Source("done", c, k, val, place)) ELSE ev

\* Sends an answer of process r to the origin of call k.
Answer(q, w, r, k, val, n) ==
    LET far == Other(r)
        delivered == Open(call[k].conn)
    IN IF (r = "relay") # Callback(k)
       THEN /\ answers' = [answers EXCEPT ![k] = @ + 1]
            /\ got' = IF Callback(k) THEN got
                      ELSE [got EXCEPT ![call[k].guest] =
                              Append(@, [call |-> k, conn |-> call[k].conn, stamp |-> n])]
            /\ queue' = q
            /\ waiting' = w
       ELSE /\ queue' = IF delivered THEN Arrived(q, w, far, k, val, n) ELSE q
            /\ waiting' = IF delivered THEN [w EXCEPT ![far] = @ \ {k}] ELSE w
            /\ UNCHANGED <<answers, got>>

-----------------------------------------------------------------------------
(* Forwarding.                                                              *)

DeliverReply(r, k) ==
    {IF p.id = k THEN [p EXCEPT !.delivered = TRUE] ELSE p : p \in pending[r]}

\* What deliver_reply sends: a missing or oversized reply becomes NoReply.
Reply(val) == IF val \in {"none", "big"} THEN "error" ELSE val

\* A successful Register or Unregister changes the broker's record.
AgentAfter(r, k, val) ==
    IF r = "broker" /\ val = "return" /\ call[k].kind \in {"register", "unregister"}
    THEN [conn EXCEPT ![call[k].conn].agent = call[k].kind = "register"]
    ELSE conn

\* forward: the call is tracked and sent on, or refused at the limit.
Forward(q, r, k, c) ==
    LET far == Other(r)
        tracked == [call EXCEPT ![k].conn = c]
        out == Callback(k) = (r = "relay")    \* to a bus, not to the peer
        w == [waiting EXCEPT ![r] = @ \cup {k}]
        full == ~out /\ Full(q, far)
        to == IF out THEN q
              ELSE Queued(q, far, Event(IF Callback(k) THEN "callback" ELSE "call", c, k, "none", 0))
    IN /\ call' = tracked
       /\ pending' = [pending EXCEPT ![r] = @ \cup {[id |-> k, delivered |-> FALSE]}]
       /\ inbox' = IF out THEN inbox \cup {k} ELSE inbox
       \* The peer's queue is full: LimitsExceeded comes back at once.
       /\ queue' = IF full THEN Queued(Queued(to, r, Event("reply", c, k, "error", 0)),
                                       r, Source("done", c, k, "error", 0))
                   ELSE to
       /\ waiting' = IF full THEN waiting ELSE w

\* process_event: a reply is matched with a pending call that is not answered.
ReplyEvent(r) ==
    /\ Runs(r) /\ NextEvent(r, "reply")
    /\ LET e == AnEvent(r)
           matched == [id |-> e.id, delivered |-> FALSE] \in pending[r]
                      /\ conn[e.conn][r] = "open"
       IN IF matched
          THEN /\ pending' = [pending EXCEPT ![r] = DeliverReply(r, e.id)]
               /\ conn' = AgentAfter(r, e.id, e.val)
               /\ Answer(AfterEvent(r), waiting, r, e.id, Reply(e.val), e.stamp)
          ELSE /\ queue' = AfterEvent(r)
               /\ UNCHANGED <<pending, conn, waiting, answers, got>>
    /\ UNCHANGED <<opening, names, present, call, budget, inbox, reowned, serviceVars>>

\* Mutants of Undelivered: the completion answers whatever was delivered, or
\* leaves every answer to the event.
UndeliveredAny(r, k) == TRUE
UndeliveredNever(r, k) == FALSE

Undelivered(r, k) == [id |-> k, delivered |-> FALSE] \in pending[r]

\* forward_finished: answers the call if no event did, and frees it.
ForwardFinished(r) ==
    /\ Runs(r) /\ NextSource(r, "done")
    /\ LET e == Head(queue[r])
       IN /\ pending' = [pending EXCEPT ![r] = {p \in @ : p.id # e.id}]
          /\ IF Undelivered(r, e.id)
             THEN /\ conn' = AgentAfter(r, e.id, e.val)
                  /\ Answer(AfterSource(r), waiting, r, e.id, Reply(e.val), e.stamp)
             ELSE /\ queue' = AfterSource(r)
                  /\ UNCHANGED <<conn, waiting, answers, got>>
    /\ UNCHANGED <<opening, names, present, call, budget, inbox, reowned, serviceVars>>

\* 120 s: GDBus gives a call up.
Timeout(r, k) ==
    /\ k \in waiting[r]
    /\ waiting' = [waiting EXCEPT ![r] = @ \ {k}]
    /\ queue' = Queued(queue, r, Source("done", call[k].conn, k, "none", 0))
    /\ UNCHANGED <<conn, opening, names, present, call, pending, answers, got, budget, inbox, reowned, serviceVars>>

-----------------------------------------------------------------------------
(* Guests and the relay.                                                    *)

\* A guest calls; guest_filter queues the call or refuses it.
GuestCalls(g, k) ==
    /\ g \in present /\ ~Callback(k) /\ call[k].guest = None
    /\ \A j \in Requests : call[j].guest = None => k <= j
    /\ budget.requests # <<>>
    /\ call' = [call EXCEPT ![k].guest = g, ![k].kind = Head(budget.requests)]
    /\ budget' = [budget EXCEPT !.requests = Tail(@)]
    /\ IF Full(queue, "relay")
       THEN answers' = [answers EXCEPT ![k] = @ + 1] /\ UNCHANGED queue
       ELSE queue' = Queued(queue, "relay", Event("guest", None, k, "none", 0)) /\ UNCHANGED answers
    /\ UNCHANGED <<conn, opening, names, present, pending, waiting, got, inbox, reowned, serviceVars>>

Refuse(q, k) ==
    /\ answers' = [answers EXCEPT ![k] = @ + 1]
    /\ queue' = q
    /\ UNCHANGED <<pending, call, inbox, waiting>>

\* system_call_allowed: reading methods for everyone, the others with Admin.
SystemCallAllowed(k) == call[k].kind = "read" \/ Admin

\* The rest of handle_guest_call, once the caller has its client.
RelayCall(q, k, c) ==
    IF ~SystemCallAllowed(k) \/ Cardinality(Outstanding("relay", c)) >= MaxOutstanding
    THEN Refuse(q, k)
    ELSE Forward(q, "relay", k, c) /\ UNCHANGED answers

Unused == {c \in Conns : conn[c].name = None}

\* relay_client: connects to the broker and calls Open.
StartOpening(name, k, q) ==
    \E c \in Unused :
        /\ \A d \in Unused : c <= d
        /\ conn' = [conn EXCEPT ![c].name = name, ![c].relay = "opening",
                              ![c].broker = IF Full(q, "broker") THEN "closed" ELSE "peer"]
        /\ opening' = [conn |-> c, call |-> k]
        /\ queue' = Queued(q, "broker", Event("open", c, None, "none", 0))

\* handle_guest_call: the call goes over the caller's client, which is opened
\* first when there is none.  An oversized call is refused before that.
HandleGuestCall ==
    /\ Runs("relay") /\ NextEvent("relay", "guest")
    /\ LET k == AnEvent("relay").id
           g == call[k].guest
           q == AfterEvent("relay")
           clients == {c \in Conns : conn[c].relay = "open"}
       IN IF call[k].kind = "big"
          THEN Refuse(q, k) /\ UNCHANGED <<conn, opening>>
          ELSE \/ \E c \in ClientsOf(g) : RelayCall(q, k, c) /\ UNCHANGED <<conn, opening>>
               \/ /\ ClientsOf(g) = {}
                  /\ Cardinality(clients) >= MaxClients \/ g \notin present
                  /\ Refuse(q, k)
                  /\ UNCHANGED <<conn, opening>>
               \/ /\ ClientsOf(g) = {}
                  /\ Cardinality(clients) < MaxClients /\ g \in present
                  /\ StartOpening(g, k, q)
                  /\ UNCHANGED <<pending, call, inbox, waiting, answers>>
    /\ UNCHANGED <<names, present, got, budget, reowned, serviceVars>>

\* Every second: the observer's client is opened when there is none.
ObserverTick ==
    /\ opening = None
    /\ ClientsOf(Observer) = {}
    /\ Spend("observers")
    /\ Cardinality({c \in Conns : conn[c].relay = "open"}) < MaxClients
    /\ StartOpening(Observer, None, queue)
    /\ reowned' = "yes"
    /\ UNCHANGED <<names, present, call, pending, waiting, answers, got, inbox, serviceVars>>

\* Open has answered: the filter and the client are in place and the call
\* that was waiting goes on.
RelayOpened ==
    /\ opening # None
    /\ conn[opening.conn].broker = "open"
    /\ conn' = [conn EXCEPT ![opening.conn].relay = "open"]
    /\ opening' = None
    /\ IF opening.call = None
       THEN UNCHANGED <<queue, pending, call, inbox, waiting, answers>>
       ELSE RelayCall(queue, opening.call, opening.conn)
    /\ UNCHANGED <<names, present, got, budget, reowned, serviceVars>>

\* The broker is not reachable, refuses or does not answer Open within 5 s.
RelayOpenFails ==
    /\ opening # None
    /\ \/ conn[opening.conn].broker = "closed" /\ UNCHANGED budget
       \/ Spend("faults")
    /\ conn' = [conn EXCEPT ![opening.conn].relay = "closed"]
    /\ opening' = None
    /\ LET q == IF conn[opening.conn].broker = "closed" THEN queue
                ELSE Queued(queue, "broker", Source("closed", opening.conn, None, "none", 0))
       IN IF opening.call = None
          THEN queue' = q /\ UNCHANGED <<pending, call, inbox, waiting, answers>>
          ELSE Refuse(q, opening.call)
    /\ UNCHANGED <<names, present, got, reowned, serviceVars>>

\* A guest leaves the bus.
GuestLeaves(g) ==
    /\ g \in present
    /\ Spend("faults")
    /\ present' = present \ {g}
    /\ queue' = Queued(queue, "relay", Source("left", None, None, g, 0))
    /\ UNCHANGED <<conn, opening, names, call, pending, waiting, answers, got, inbox, reowned, serviceVars>>

\* client_close in process r: the calls that wait on its connections end, and
\* the other process sees the connection close.
Closed(q, r, c) ==
    LET far == Other(r)
        mine == {k \in waiting[r] : call[k].conn = c /\ (r = "broker" \/ ~Callback(k))}
        theirs == {k \in waiting[far] : call[k].conn = c /\ (Callback(k) = (far = "broker"))}
        farOpen == conn[c][far] \in {"peer", "open"}
        q1 == QueuedSources(q, r, Cancelled(mine))
    IN /\ conn' = [conn EXCEPT ![c] = [@ EXCEPT ![r] = "closed"]]
       /\ queue' = IF farOpen
                   THEN QueuedSources(q1, far, Append(Cancelled(theirs), Source("closed", c, None, "none", 0)))
                   ELSE q1
       /\ waiting' = [waiting EXCEPT ![r] = @ \ mine, ![far] = IF farOpen THEN @ \ theirs ELSE @]

\* Mutant of LeftClients: the client of a guest that left is kept.
LeftClientsKept(g) == {}

LeftClients(g) == ClientsOf(g)

\* guest_names: the guest is forgotten and its client closed.
GuestNames ==
    /\ Runs("relay") /\ NextSource("relay", "left")
    /\ LET g == Head(queue["relay"]).val
       IN /\ names' = names \ {g}
          /\ \/ \E c \in LeftClients(g) : Closed(AfterSource("relay"), "relay", c)
             \/ LeftClients(g) = {} /\ queue' = AfterSource("relay") /\ UNCHANGED <<conn, waiting>>
    /\ UNCHANGED <<opening, present, call, pending, answers, got, budget, inbox, reowned, serviceVars>>

\* connection_closed.
ConnectionClosed(r) ==
    /\ Runs(r) /\ NextSource(r, "closed")
    /\ LET c == Head(queue[r]).conn
       IN IF conn[c][r] = "closed"
          THEN queue' = AfterSource(r) /\ UNCHANGED <<conn, waiting>>
          ELSE Closed(AfterSource(r), r, c)
    /\ UNCHANGED <<opening, names, present, call, pending, answers, got, budget, inbox, reowned, serviceVars>>

-----------------------------------------------------------------------------
(* The broker.                                                              *)

\* new_peer and open_client: the host connection is made and the service is
\* watched, or the handshake fails.
OpenClient ==
    /\ NextEvent("broker", "open")
    /\ LET c == AnEvent("broker").conn
       IN \/ /\ conn[c].broker = "peer"
             /\ conn' = [conn EXCEPT ![c].broker = "open", ![c].watch = TRUE]
             /\ UNCHANGED budget
          \/ /\ conn[c].broker = "peer"
             /\ Spend("faults")
             /\ conn' = [conn EXCEPT ![c].broker = "closed"]
          \/ /\ conn[c].broker # "peer"
             /\ UNCHANGED <<conn, budget>>
    /\ queue' = AfterEvent("broker")
    /\ UNCHANGED <<opening, names, present, call, pending, waiting, answers, got, inbox, reowned, serviceVars>>

\* handle_broker_call: the policy once more, then on to the service.
HandleBrokerCall ==
    /\ NextEvent("broker", "call")
    /\ LET e == AnEvent("broker")
           q == AfterEvent("broker")
           refused == ~SystemCallAllowed(e.id)
                      \/ Cardinality(Outstanding("broker", e.conn)) >= MaxOutstanding
       IN IF conn[e.conn].broker = "closed"
          THEN queue' = q /\ UNCHANGED <<pending, call, inbox, waiting, answers, got>>
          ELSE IF refused
          THEN Answer(q, waiting, "broker", e.id, "error", 0) /\ UNCHANGED <<pending, call, inbox>>
          ELSE Forward(q, "broker", e.id, e.conn) /\ UNCHANGED <<answers, got>>
    /\ UNCHANGED <<conn, opening, names, present, budget, reowned, serviceVars>>

\* The host bus drops a client's connection.
HostDrops(c) ==
    /\ conn[c].broker = "open"
    /\ Spend("faults")
    /\ LET ids == {k \in waiting["broker"] : call[k].conn = c /\ ~Callback(k)}
       IN /\ waiting' = [waiting EXCEPT !["broker"] = @ \ ids]
          /\ queue' = QueuedSources(queue, "broker",
                          Append(Cancelled(ids), Source("closed", c, None, "none", 0)))
    /\ UNCHANGED <<conn, opening, names, present, call, pending, answers, got, inbox, reowned, serviceVars>>

\* The name watch of a new client gets its first answer.
WatchAnswers(c) ==
    /\ conn[c].broker = "open" /\ conn[c].watch
    /\ conn' = [conn EXCEPT ![c].watch = FALSE]
    /\ queue' = Queued(queue, "broker", Source("owner", c, None, "none", owner))
    /\ UNCHANGED <<opening, names, present, call, pending, waiting, answers, got, budget, inbox, reowned, serviceVars>>

AgentOf(c, n) == n # 0 /\ conn[c].agent

\* Mutant of Tells: no client tells the relay.
TellsNobody(c) == FALSE

Tells(c) == conn[c].name = Observer /\ conn[c].relay = "open"

\* A Changed is on its way from client c to the relay.
Telling(c) ==
    \/ \E i \in DOMAIN queue["relay"] : queue["relay"][i].type = "changed"
    \/ \E i \in 2..Len(queue["broker"]) :
          queue["broker"][i].type = "owner" /\ queue["broker"][i].conn = c

\* appeared and vanished: the owner is recorded; an instance that is gone takes
\* the registration along; the observer tells the relay, unless its queue is full.
OwnerChanged ==
    /\ NextSource("broker", "owner")
    /\ LET e == Head(queue["broker"])
           c == e.conn
       IN IF conn[c].broker = "closed"
          THEN queue' = AfterSource("broker") /\ UNCHANGED <<conn, reowned>>
          ELSE /\ conn' = [conn EXCEPT ![c].owner = e.stamp, ![c].agent = AgentOf(c, e.stamp)]
               /\ queue' = IF Tells(c)
                           THEN Queued(AfterSource("broker"), "relay", Event("changed", c, None, "none", 0))
                           ELSE AfterSource("broker")
               /\ reowned' = IF reowned = "due" /\ Tells(c) /\ Full(queue, "relay") /\ ~Telling(c)
                             THEN "lost" ELSE reowned
    /\ UNCHANGED <<opening, names, present, call, pending, waiting, answers, got, budget, inbox, serviceVars>>

\* forward_host_signal: only from the recorded owner; no unicast to the observer.
ForwardHostSignal ==
    /\ NextEvent("broker", "signal")
    /\ LET e == AnEvent("broker")
           relayed == Open(e.conn) /\ conn[e.conn].owner = e.id /\ e.id # 0
       IN queue' = IF relayed
                   THEN Queued(AfterEvent("broker"), "relay", Event("signal", e.conn, None, "none", e.stamp))
                   ELSE AfterEvent("broker")
    /\ UNCHANGED <<conn, opening, names, present, call, pending, waiting, answers, got, budget, inbox, reowned, serviceVars>>

Received(c, n) == [call |-> None, conn |-> c, stamp |-> n]

\* forward_peer_signal: to the client's guest, or from the observer to every
\* guest without a client.
ForwardPeerSignal ==
    /\ Runs("relay") /\ NextEvent("relay", "signal")
    /\ LET e == AnEvent("relay")
           name == conn[e.conn].name
           to == IF conn[e.conn].relay # "open" THEN {}
                 ELSE IF name # Observer THEN {name} ELSE {g \in names : ClientsOf(g) = {}}
       IN got' = [g \in Guests |-> IF g \in to THEN Append(got[g], Received(e.conn, e.stamp)) ELSE got[g]]
    /\ queue' = AfterEvent("relay")
    /\ UNCHANGED <<conn, opening, names, present, call, pending, waiting, answers, budget, inbox, reowned, serviceVars>>

\* forward_peer_signal, for "Changed": the relay gives up and takes the name
\* again, so that libraries on the guest's bus rediscover the service.
Reown ==
    /\ Runs("relay") /\ NextEvent("relay", "changed")
    /\ reowned' = IF conn[AnEvent("relay").conn].relay = "open" THEN "yes" ELSE reowned
    /\ queue' = AfterEvent("relay")
    /\ UNCHANGED <<conn, opening, names, present, call, pending, waiting, answers, got, budget, inbox, serviceVars>>

\* handle_agent_callback: in the broker from the instance the client is
\* registered with, in the relay over an admin client.
HandleAgentCallback(r) ==
    /\ Runs(r) /\ NextEvent(r, "callback")
    /\ LET e == AnEvent(r)
           q == AfterEvent(r)
           c == e.conn
           permitted == IF r = "broker" THEN conn[c].agent /\ conn[c].owner # 0 /\ conn[c].owner = e.stamp
                        ELSE Admin
           refused == ~permitted \/ Cardinality(Outstanding(r, c)) >= MaxOutstanding
       IN IF conn[c][r] # "open"
          THEN queue' = q /\ UNCHANGED <<pending, call, inbox, waiting, answers, got>>
          ELSE IF refused
          THEN Answer(q, waiting, r, e.id, "error", 0) /\ UNCHANGED <<pending, call, inbox>>
          ELSE Forward(q, r, e.id, c) /\ UNCHANGED <<answers, got>>
    /\ UNCHANGED <<conn, opening, names, present, budget, reowned, serviceVars>>

-----------------------------------------------------------------------------
(* The service and the guest's agent (external).                            *)

\* A reply of the service or the bus reaches the broker.
HostReplies(q, k, val, n) ==
    IF conn[call[k].conn].broker = "open" THEN Arrived(q, waiting, "broker", k, val, n) ELSE q
InFlight == {k \in inbox : ~Callback(k)}

\* The service answers a call; a registration takes effect with the answer.
ServiceAnswers(k) ==
    /\ k \in InFlight /\ owner # 0 /\ Spend("sent")
    /\ inbox' = inbox \ {k}
    /\ sent' = Append(sent, {call[k].conn})
    /\ waiting' = [waiting EXCEPT !["broker"] = @ \ {k}]
    /\ \E val \in {"return", "error", "big"} :
        /\ agents' = CASE val = "error" -> agents
                       [] call[k].kind = "register" -> agents \cup {call[k].conn}
                       [] call[k].kind = "unregister" -> agents \ {call[k].conn}
                       [] OTHER -> agents
        /\ queue' = HostReplies(queue, k, val, Len(sent'))
    /\ UNCHANGED <<conn, opening, names, present, call, pending, owner, started, answers, got, reowned>>

\* The host bus answers for a service that does not run.
BusAnswers(k) ==
    /\ k \in InFlight /\ owner = 0
    /\ inbox' = inbox \ {k}
    /\ waiting' = [waiting EXCEPT !["broker"] = @ \ {k}]
    /\ queue' = HostReplies(queue, k, "error", 0)
    /\ UNCHANGED <<conn, opening, names, present, call, pending, answers, got, budget, reowned, serviceVars>>

\* The service signals: to everyone, or to a caller it is serving.
ServiceSignals ==
    /\ owner # 0 /\ Spend("sent")
    /\ LET connected == {c \in Conns : conn[c].broker = "open"}
           callers == {call[k].conn : k \in InFlight} \cap connected
       IN \E to \in {connected} \cup {{c} : c \in callers} :
            /\ sent' = Append(sent, to)
            /\ queue' = QueuedEvents(queue, "broker",
                   LET s == SetToSeq(to)
                   IN [i \in 1..Len(s) |-> Event("signal", s[i], owner, "none", Len(sent) + 1)])
    /\ UNCHANGED <<conn, opening, names, present, call, pending, waiting, inbox, owner, started, agents,
                   answers, got, reowned>>

\* The service asks a registered agent.
ServiceCallsBack(k, c) ==
    /\ Callback(k) /\ call[k].guest = None /\ c \in agents /\ conn[c].broker = "open"
    /\ call' = [call EXCEPT ![k].guest = conn[c].name, ![k].conn = c]
    /\ IF Full(queue, "broker")
       THEN answers' = [answers EXCEPT ![k] = @ + 1] /\ UNCHANGED queue
       ELSE queue' = Queued(queue, "broker", Event("callback", c, k, "none", owner)) /\ UNCHANGED answers
    /\ UNCHANGED <<conn, opening, names, present, pending, waiting, inbox, got, budget, reowned, serviceVars>>

\* The agent answers; the bus answers for a guest that has left.
AgentAnswers(k) ==
    /\ k \in inbox /\ Callback(k)
    /\ inbox' = inbox \ {k}
    /\ queue' = Arrived(queue, waiting, "relay", k, "return", 0)
    /\ waiting' = [waiting EXCEPT !["relay"] = @ \ {k}]
    /\ UNCHANGED <<conn, opening, names, present, call, pending, answers, got, budget, reowned, serviceVars>>

\* Every answered name watch learns of the new owner.
Watched(q, n) ==
    LET s == SetToSeq({c \in Conns : conn[c].broker = "open" /\ ~conn[c].watch})
    IN QueuedSources(q, "broker", [i \in 1..Len(s) |-> Source("owner", s[i], None, "none", n)])

\* An observer sees what happens to the service.
Due == IF \E c \in ClientsOf(Observer) : Open(c) /\ ~conn[c].watch THEN "due" ELSE reowned

\* The service stops: the bus tells the watches, and then fails its calls.
ServiceStops ==
    /\ owner # 0 /\ started < MaxOwners /\ Spend("stops")
    /\ queue' = Watched(queue, 0)
    /\ owner' = 0
    /\ agents' = {}
    /\ reowned' = Due
    /\ UNCHANGED <<conn, opening, names, present, call, pending, waiting, inbox, started, sent, answers, got>>

\* Another instance starts, once the bus has failed the calls of the last one.
ServiceStarts ==
    /\ owner = 0 /\ InFlight = {}
    /\ owner' = started + 1
    /\ started' = started + 1
    /\ queue' = Watched(queue, started + 1)
    /\ reowned' = Due
    /\ UNCHANGED <<conn, opening, names, present, call, pending, waiting, inbox, sent, agents,
                   answers, got, budget>>

-----------------------------------------------------------------------------

Relay == HandleGuestCall \/ RelayOpened \/ GuestNames \/ ForwardPeerSignal \/ Reown
Broker == OpenClient \/ HandleBrokerCall \/ OwnerChanged \/ ForwardHostSignal
Loop(r) == ReplyEvent(r) \/ ForwardFinished(r) \/ ConnectionClosed(r) \/ HandleAgentCallback(r)

Bus ==
    \/ \E c \in Conns : WatchAnswers(c)
    \/ \E k \in Calls : BusAnswers(k)
    \/ ServiceStarts

Environment ==
    \/ \E g \in Guests, k \in Requests : GuestCalls(g, k)
    \/ \E g \in Guests : GuestLeaves(g)
    \/ \E c \in Conns : HostDrops(c)
    \/ \E k \in Calls : ServiceAnswers(k) \/ AgentAnswers(k)
    \/ \E k \in Calls, c \in Conns : ServiceCallsBack(k, c)
    \/ ServiceSignals \/ ServiceStops

Next ==
    \/ Relay \/ Broker \/ Bus \/ Environment
    \/ RelayOpenFails \/ ObserverTick
    \/ \E r \in Roles : Loop(r)
    \/ \E r \in Roles, k \in Calls : Timeout(r, k)

\* Both main loops run; timers expire; the bus answers.  A service or an agent
\* need not answer.
Fairness ==
    /\ WF_vars(Relay \/ Loop("relay") \/ (RelayOpenFails /\ UNCHANGED budget))
    /\ WF_vars(Broker \/ Loop("broker"))
    /\ WF_vars(ObserverTick)
    /\ WF_vars(Bus)
    /\ \A r \in Roles : WF_vars(\E k \in Calls : Timeout(r, k))

Spec == Init /\ [][Next]_vars /\ Fairness

-----------------------------------------------------------------------------
(* Properties.                                                              *)

Port == INSTANCE SystemPort WITH
    asked <- {k \in Calls : call[k].guest # None},
    sent <- Len(sent)

\* The bridge is a port: whatever the order in which a reply, its timeout, the
\* end of a connection and a full queue arrive, a call is answered at most once
\* (spaces_system_broker.c:564), and no signal overtakes an earlier reply of
\* the same connection (spaces_system_broker.c:632).
ImplementsPort == Port!PortSpec

\* The relay keeps a client for a guest that has left only until it handles
\* the bus's notice (spaces_system_broker.c:670).
NoClientOutlivesGuest ==
    \A g \in Guests \ present :
        ClientsOf(g) # {} => \E i \in DOMAIN queue["relay"] : queue["relay"][i].val = g

\* Every call of a guest that stays is answered, though the service may never
\* answer and connections may close (spaces_system_broker.c:210).
EveryCallAnswered ==
    \A k \in Requests :
        (call[k].guest # None) ~> (answers[k] > 0 \/ call[k].guest \notin present)

\* Each stop and each start of the service that the observer sees makes the relay
\* take the name again after it, unless the observer is lost first
\* (spaces_system_broker.c:497) or the last Changed that could tell of it finds the
\* relay's queue full and is dropped (spaces_system_broker.c:622).
RestartNoticed ==
    reowned = "due" ~> (reowned \in {"yes", "lost"} \/ ClientsOf(Observer) = {})
====
