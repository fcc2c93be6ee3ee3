---------------------------- MODULE ScuHostProofs ----------------------------
(***************************************************************************)
(* Proofs about ScuHost, for any set of spaces, control connections and    *)
(* guests, any limits and any number of faults: no input follows the       *)
(* acknowledgement of a revocation, host_collect frees nothing that is     *)
(* used, and a controller goes on only once its lease is acknowledged or   *)
(* lost.                                                                   *)
(***************************************************************************)
EXTENDS ScuHost, SequenceTheorems, TLAPS

-----------------------------------------------------------------------------
(* The inductive invariant.                                                 *)

\* Upgrades come out of the faults: the executables have names left.
UpgradesLeft == installed + faults <= MaxFaults

\* Something is executed only inside a call or a registration, and something
\* is held down only inside a call, for the lease of its client.
LoopInv ==
    /\ current # None => host.phase \in {"call", "bind"}
    /\ host.phase = "call" => current \in Event /\ current.kind = "call"
    /\ host.phase = "bind" => current \in Event /\ current.kind = "register"
    /\ held # None => host.phase = "call" /\ held = client[current.client].lease

\* What is executed names a client and a lease that are not released.
CurrentInv ==
    /\ host.phase = "call" => LET l == client[current.client].lease IN
         l # None /\ ~lease[l].acknowledged
    /\ host.phase = "bind" => lease[current.lease].known /\ ~lease[current.lease].acknowledged

FlagsInv ==
    \A l \in Leases :
        /\ ~lease[l].known => lease[l] = NoLease
        /\ lease[l].acknowledged => lease[l].revoked
        /\ lease[l].accepting => ~lease[l].revoked

\* A client has a lease once it is accepted, and is closed when that is revoked.
ClientInv ==
    \A c \in Clients :
        /\ client[c].lease = None <=> client[c].state \in {"away", "waiting"}
        /\ client[c].lease # None =>
             /\ lease[client[c].lease].known
             /\ lease[client[c].lease].revoked => client[c].state = "closed"

\* Queued calls have a client; nothing is queued for a lease after its
\* revocation, nor once it is acknowledged.
QueueInv ==
    \A i \in 1..Len(events) :
        /\ events[i].kind = "call" => client[events[i].client].lease # None
        /\ events[i].kind # "call" => /\ lease[events[i].lease].known
                                      /\ ~lease[events[i].lease].acknowledged
        /\ events[i].kind = "revoke" =>
             /\ lease[events[i].lease].revoked
             /\ \A j \in 1..Len(events) :
                  j > i /\ events[j].kind # "call" => events[j].lease # events[i].lease

\* No "ready" is under way to the controller of l.
NoReady(l) == \A i \in 1..Len(conn[l].out) : ~conn[l].out[i].ready
NotQueued(l) == \A i \in 1..Len(events) : events[i].kind = "register" => events[i].lease # l
NotBinding(l) == host.phase = "bind" => current.lease # l

\* The two ends of a control connection: what is under way on it.
ConnInv ==
    \A l \in Leases :
        /\ conn[l].pending => /\ ~lease[l].known /\ conn[l].out = <<>>
                              /\ ~conn[l].hup /\ conn[l].space # None
        /\ lease[l].known => ~conn[l].hup /\ conn[l].space # None
        /\ \A i \in 1..Len(conn[l].out) :
             lease[l].known /\ ~conn[l].out[i].ready => lease[l].acknowledged

\* A registration is on its way, queued, executed or answered: one of these.
TokenInv ==
    /\ \A l \in Leases : conn[l].unread = "payload" => ~lease[l].registered /\ NoReady(l)
    /\ \A i \in 1..Len(events) : events[i].kind = "register" =>
         /\ lease[events[i].lease].registered
         /\ NoReady(events[i].lease)
         /\ NotBinding(events[i].lease)
         /\ \A j \in 1..Len(events) :
              j # i /\ events[j].kind = "register" => events[j].lease # events[i].lease
    /\ host.phase = "bind" => lease[current.lease].registered /\ NoReady(current.lease)

\* A controller holds the open end of its connection, and past _activate the
\* registration has been answered and the answer read.
CtlInv ==
    \A s \in Spaces :
        /\ ctl[s].lease # None =>
             /\ conn[ctl[s].lease].space = s
             /\ ~conn[ctl[s].lease].closed
             /\ ctl[s].pc \in {"idle", "releasing", "stopping"} =>
                  /\ ~conn[ctl[s].lease].pending
                  /\ conn[ctl[s].lease].unread # "payload"
                  /\ NoReady(ctl[s].lease)
                  /\ NotQueued(ctl[s].lease)
                  /\ NotBinding(ctl[s].lease)
        /\ ctl[s].pc \in {"activating", "raising", "releasing", "stopping"} =>
             ctl[s].lease # None
        /\ ctl[s].pc = "restarting" => ctl[s].attempt = 0

HostInv == LoopInv /\ CurrentInv /\ FlagsInv /\ ClientInv /\ QueueInv
PeerInv == ConnInv /\ TokenInv /\ CtlInv

IInv == TypeOK /\ UpgradesLeft /\ HostInv /\ PeerInv

-----------------------------------------------------------------------------
(* Facts about the records and the queue.                                   *)

LEMMA Values ==
    /\ NoLease \in HostLease /\ ~NoLease.known /\ ~NoLease.registered /\ ~NoLease.revoked
    /\ ~NoLease.acknowledged /\ ~NoLease.accepting
    /\ NoClient \in HostClient /\ NoClient.lease = None /\ NoClient.state = "away"
    /\ NoConn \in Control /\ NoConn.space = None /\ NoConn.out = <<>> /\ ~NoConn.pending
    /\ NoConn.unread = "none" /\ ~NoConn.hup /\ ~NoConn.closed
    /\ Closed \in ComputerLease /\ Closed.lease = None /\ Closed.pc = "closed"
    /\ Opened \in ComputerLease /\ Opened.lease = None /\ Opened.pc = "idle"
<1>1. NoLease \in HostLease /\ NoClient \in HostClient
  BY BoundAssumption DEF NoLease, HostLease, NoClient, HostClient
<1>2. NoConn \in Control
  BY DEF NoConn, Control
<1>3. Closed \in ComputerLease
  BY BoundAssumption DEF Closed, ComputerLease
<1>4. Opened \in ComputerLease /\ Opened.lease = None /\ Opened.pc = "idle"
  BY <1>3 DEF Opened, Closed, ComputerLease
<1>. QED
  BY <1>1, <1>2, <1>3, <1>4 DEF NoLease, NoClient, NoConn, Closed

\* The controller closes its end.
LEMMA CtlCloseFacts ==
    ASSUME TypeOK, NEW l \in Leases
    PROVE  /\ CtlClose(l) \in Control /\ CtlClose(l).out = <<>>
           /\ conn[l].hup => CtlClose(l) = NoConn
           /\ ~conn[l].hup => /\ CtlClose(l).closed /\ ~CtlClose(l).hup
                              /\ CtlClose(l).space = conn[l].space
                              /\ CtlClose(l).pending = conn[l].pending
                              /\ CtlClose(l).unread = conn[l].unread
                              /\ CtlClose(l) # NoConn
<1>1. conn[l] \in Control
  BY DEF TypeOK
<1>2. CASE conn[l].hup
  BY <1>2, Values DEF CtlClose
<1>3. CASE ~conn[l].hup
  <2>1. CtlClose(l) = [conn[l] EXCEPT !.closed = TRUE, !.out = <<>>] /\ <<>> \in Seq(Reply)
    BY <1>3 DEF CtlClose
  <2>2. CtlClose(l) \in Control
    BY <1>1, <2>1 DEF Control
  <2>3. CtlClose(l).closed = TRUE
    BY <1>1, <2>1 DEF Control
  <2>4. CtlClose(l) # NoConn
    BY <2>3, Values
  <2>. QED
    BY <1>1, <1>3, <2>1, <2>2, <2>3, <2>4 DEF Control
<1>. QED
  BY <1>2, <1>3

\* The host closes its end.
LEMMA HostCloseFacts ==
    ASSUME TypeOK, NEW l \in Leases
    PROVE  /\ HostClose(l) \in Control
           /\ HostClose(l).pending = FALSE /\ HostClose(l).unread # "payload"
           /\ conn[l].closed => HostClose(l) = NoConn
           /\ ~conn[l].closed => /\ HostClose(l).space = conn[l].space
                                 /\ HostClose(l).closed = conn[l].closed
                                 /\ HostClose(l).out = conn[l].out
           /\ \A i \in 1..Len(HostClose(l).out) : i \in 1..Len(conn[l].out)
                                                  /\ HostClose(l).out[i] = conn[l].out[i]
<1>1. conn[l] \in Control
  BY DEF TypeOK
<1>2. CASE conn[l].closed
  BY <1>2, Values DEF HostClose
<1>3. CASE ~conn[l].closed
  <2>1. PICK u \in {"none", "R"} :
          HostClose(l) = [conn[l] EXCEPT !.hup = TRUE, !.pending = FALSE, !.unread = u]
    <3>1. HostClose(l) = [conn[l] EXCEPT !.hup = TRUE, !.pending = FALSE, !.unread =
                              IF conn[l].unread = "R" THEN "R" ELSE "none"]
      BY <1>1, <1>3 DEF HostClose, Control
    <3>. QED
      BY <3>1
  <2>2. HostClose(l) \in Control
    BY <1>1, <2>1 DEF Control
  <2>. QED
    BY <1>1, <1>3, <2>1, <2>2 DEF Control
<1>. QED
  BY <1>2, <1>3

\* The host sends m to the controller.
LEMMA SendFacts ==
    ASSUME TypeOK, NEW l \in Leases, NEW m \in Reply
    PROVE  /\ Send(l, m) \in Control
           /\ Send(l, m).space = conn[l].space /\ Send(l, m).closed = conn[l].closed
           /\ Send(l, m).pending = conn[l].pending /\ Send(l, m).unread = conn[l].unread
           /\ Send(l, m).hup = conn[l].hup
           /\ \A i \in 1..Len(Send(l, m).out) :
                \/ i \in 1..Len(conn[l].out) /\ Send(l, m).out[i] = conn[l].out[i]
                \/ Send(l, m).out[i] = m
<1>1. conn[l] \in Control /\ conn[l].out \in Seq(Reply)
  BY DEF TypeOK, Control
<1>2. CASE conn[l].closed
  BY <1>1, <1>2 DEF Send
<1>3. CASE ~conn[l].closed
  <2>1. Send(l, m) = [conn[l] EXCEPT !.out = Append(conn[l].out, m)]
    BY <1>3 DEF Send
  <2>2. Append(conn[l].out, m) \in Seq(Reply)
    BY <1>1
  <2>3. Send(l, m) \in Control /\ Send(l, m).out = Append(conn[l].out, m)
    BY <1>1, <2>1, <2>2 DEF Control
  <2>4. \A i \in 1..Len(Append(conn[l].out, m)) :
          \/ i \in 1..Len(conn[l].out) /\ Append(conn[l].out, m)[i] = conn[l].out[i]
          \/ Append(conn[l].out, m)[i] = m
    BY <1>1
  <2>. QED
    BY <1>1, <2>1, <2>3, <2>4 DEF Control
<1>. QED
  BY <1>2, <1>3

\* One event more at the end of the queue, and one less at its head.
LEMMA Queueing ==
    ASSUME TypeOK, NEW e \in Event
    PROVE  /\ Append(events, e) \in Seq(Event)
           /\ Len(Append(events, e)) = Len(events) + 1 /\ Len(events) \in Nat
           /\ \A i \in 1..Len(events) : Append(events, e)[i] = events[i]
           /\ Append(events, e)[Len(events) + 1] = e
BY DEF TypeOK

LEMMA Popping ==
    ASSUME TypeOK, events # <<>>
    PROVE  /\ Tail(events) \in Seq(Event) /\ Head(events) \in Event
           /\ Head(events) = events[1] /\ 1 \in 1..Len(events)
           /\ Len(Tail(events)) = Len(events) - 1 /\ Len(events) \in Nat
           /\ \A i \in 1..Len(Tail(events)) : /\ i + 1 \in 1..Len(events)
                                              /\ Tail(events)[i] = events[i + 1]
BY DEF TypeOK

LEMMA EventFacts ==
    /\ \A l \in Leases : /\ [kind |-> "register", lease |-> l] \in Event
                         /\ [kind |-> "revoke", lease |-> l] \in Event
    /\ \A c \in Clients, id \in Ids : [kind |-> "call", client |-> c, id |-> id] \in Event
    /\ \A e \in Event : /\ e.kind \in {"call", "register", "revoke"}
                        /\ e.kind = "call" => e.client \in Clients /\ e.id \in Ids
                        /\ e.kind # "call" => e.lease \in Leases
    /\ \A i \in 1..Len(events) : TypeOK => events[i] \in Event
BY DEF Event, TypeOK

\* host_client_close, and host_revoke.
LEMMA ClientCloses ==
    ASSUME TypeOK, NEW cs, HostClientClose(cs)
    PROVE  /\ client' \in [Clients -> HostClient] /\ cancelled' \in BOOLEAN
           /\ cancelIds' \subseteq Clients \X Ids
           /\ \A c \in Clients :
                /\ client'[c].lease = client[c].lease
                /\ client'[c].state = IF c \in cs /\ client[c].state = "open"
                                      THEN "closed" ELSE client[c].state
<1>1. \A c \in Clients : client[c] \in HostClient
  BY DEF TypeOK
<1>2. \A c \in Clients : client'[c] = IF c \in cs /\ client[c].state = "open"
                                      THEN [client[c] EXCEPT !.state = "closed"] ELSE client[c]
  BY DEF HostClientClose
<1>3. \A c \in Clients : /\ client'[c] \in HostClient
                         /\ client'[c].lease = client[c].lease
                         /\ client'[c].state = IF c \in cs /\ client[c].state = "open"
                                               THEN "closed" ELSE client[c].state
  BY <1>1, <1>2 DEF HostClient
<1>4. client' \in [Clients -> HostClient]
  BY <1>3 DEF HostClientClose
<1>5. cancelled' \in BOOLEAN
  BY DEF HostClientClose, TypeOK
<1>6. cancelIds' \subseteq Clients \X Ids
  BY DEF HostClientClose, ForgetCancels, TypeOK
<1>. QED
  BY <1>3, <1>4, <1>5, <1>6

LEMMA Revokes ==
    ASSUME TypeOK, NEW l \in Leases, HostRevoke(l)
    PROVE  /\ lease' \in [Leases -> HostLease]
           /\ lease'[l].revoked = TRUE /\ lease'[l].accepting = FALSE
           /\ lease'[l].known = lease[l].known /\ lease'[l].registered = lease[l].registered
           /\ lease'[l].acknowledged = lease[l].acknowledged
           /\ \A k \in Leases : k # l => lease'[k] = lease[k]
           /\ events' = Append(events, [kind |-> "revoke", lease |-> l])
           /\ events' \in Seq(Event)
<1>1. lease' = [lease EXCEPT ![l] = [lease[l] EXCEPT !.revoked = TRUE, !.accepting = FALSE]]
  BY DEF HostRevoke, TypeOK
<1>2. lease[l] \in HostLease
  BY DEF TypeOK
<1>3. events' = Append(events, [kind |-> "revoke", lease |-> l])
  BY DEF HostRevoke, QueuedRevoke
<1>4. events' \in Seq(Event)
  BY <1>3, EventFacts, Queueing
<1>5. [lease[l] EXCEPT !.revoked = TRUE, !.accepting = FALSE] \in HostLease
  BY <1>2 DEF HostLease
<1>. QED
  BY <1>1, <1>2, <1>3, <1>4, <1>5 DEF TypeOK, HostLease

-----------------------------------------------------------------------------
(* Every step keeps the types.                                              *)

LEMMA CallbackTypes ==
    ASSUME TypeOK, Callback
    PROVE  TypeOK'
<1>1. ASSUME NEW l \in Leases, HostControlAccept(l)
      PROVE  TypeOK'
  <2>1. lease' \in [Leases -> HostLease]
    <3>1. [NoLease EXCEPT !.known = TRUE] \in HostLease
      BY Values DEF HostLease
    <3>. QED
      BY <1>1, <3>1 DEF HostControlAccept, TypeOK
  <2>2. conn' \in [Leases -> Control]
    <3>1. conn[l] \in Control /\ [conn[l] EXCEPT !.pending = FALSE] \in Control
      BY DEF TypeOK, Control
    <3>. QED
      BY <1>1, <3>1, HostCloseFacts DEF HostControlAccept, TypeOK
  <2>. QED
    BY <1>1, <2>1, <2>2 DEF HostControlAccept, TypeOK
<1>2. ASSUME NEW l \in Leases, HostControlRead(l)
      PROVE  TypeOK'
  <2>1. conn' \in [Leases -> Control]
    <3>1. conn[l] \in Control /\ [conn[l] EXCEPT !.unread = "none"] \in Control
      BY DEF TypeOK, Control
    <3>. QED
      BY <1>2, <3>1 DEF HostControlRead, TypeOK
  <2>2. CASE conn[l].unread = "payload"
    <3>1. lease[l] \in HostLease /\ [lease[l] EXCEPT !.registered = TRUE] \in HostLease
      BY DEF TypeOK, HostLease
    <3>2. lease' \in [Leases -> HostLease]
      BY <1>2, <2>2, <3>1 DEF HostControlRead, TypeOK
    <3>3. events' \in Seq(Event)
      BY <1>2, <2>2, EventFacts, Queueing DEF HostControlRead
    <3>. QED
      BY <1>2, <2>1, <2>2, <3>2, <3>3 DEF HostControlRead, TypeOK
  <2>3. CASE conn[l].unread # "payload"
    <3>1. HostRevoke(l)
      BY <1>2, <2>3 DEF HostControlRead
    <3>2. lease' \in [Leases -> HostLease] /\ events' \in Seq(Event)
      BY <3>1, Revokes
    <3>3. client' \in [Clients -> HostClient] /\ cancelled' \in BOOLEAN
          /\ cancelIds' \subseteq Clients \X Ids
      BY <3>1, ClientCloses DEF HostRevoke
    <3>. QED
      BY <1>2, <2>1, <3>2, <3>3 DEF HostControlRead, TypeOK
  <2>. QED
    BY <2>2, <2>3
<1>3. ASSUME NEW l \in Leases, NEW c \in Clients, HostAccept(l, c)
      PROVE  TypeOK'
  <2>1. lease[l] \in HostLease /\ [lease[l] EXCEPT !.used = TRUE] \in HostLease
    BY DEF TypeOK, HostLease
  <2>2. client[c] \in HostClient /\ [client[c] EXCEPT !.lease = l, !.state = "open"] \in HostClient
    BY DEF TypeOK, HostClient
  <2>3. lease' \in [Leases -> HostLease]
    BY <1>3, <2>1 DEF HostAccept, TypeOK
  <2>4. client' \in [Clients -> HostClient]
    BY <1>3, <2>2, Values DEF HostAccept, TypeOK
  <2>. QED
    BY <1>3, <2>3, <2>4 DEF HostAccept, TypeOK
<1>. QED
  BY <1>1, <1>2, <1>3 DEF Callback

LEMMA GuestTypes ==
    ASSUME TypeOK, Guest \/ \E s \in Spaces : ListenerGone(s)
    PROVE  TypeOK'
<1>1. ASSUME NEW c \in Clients, GuestConnects(c)
      PROVE  TypeOK'
  <2>1. \A s \in Spaces : [NoClient EXCEPT !.at = s, !.state = "waiting"] \in HostClient
    BY Values DEF HostClient
  <2>2. client' \in [Clients -> HostClient]
    BY <1>1, <2>1 DEF GuestConnects, TypeOK
  <2>. QED
    BY <1>1, <2>2 DEF GuestConnects, TypeOK
<1>2. ASSUME NEW s \in Spaces, ListenerGone(s)
      PROVE  TypeOK'
  <2>1. client' \in [Clients -> HostClient]
    BY <1>2, Values DEF ListenerGone, TypeOK
  <2>. QED
    BY <1>2, <2>1 DEF ListenerGone, TypeOK
<1>3. ASSUME NEW c \in Clients, HostLine(c)
      PROVE  TypeOK'
  <2>1. CASE Len(events) < MaxPending
    <3>1. client[c] \in HostClient /\ client[c].sent \in Nat /\ client[c].sent + 1 \in Ids
      BY <1>3, BoundAssumption DEF HostLine, TypeOK, HostClient, Ids
    <3>2. [client[c] EXCEPT !.sent = client[c].sent + 1] \in HostClient
      BY <3>1 DEF HostClient, Ids
    <3>3. client' \in [Clients -> HostClient]
      BY <1>3, <2>1, <3>2 DEF HostLine, TypeOK
    <3>4. events' \in Seq(Event)
      BY <1>3, <2>1, <3>1, EventFacts, Queueing DEF HostLine
    <3>. QED
      BY <1>3, <2>1, <3>3, <3>4 DEF HostLine, TypeOK
  <2>2. CASE ~(Len(events) < MaxPending)
    <3>1. client' \in [Clients -> HostClient] /\ cancelled' \in BOOLEAN
          /\ cancelIds' \subseteq Clients \X Ids
      BY <1>3, <2>2, ClientCloses DEF HostLine
    <3>. QED
      BY <1>3, <2>2, <3>1 DEF HostLine, TypeOK
  <2>. QED
    BY <2>1, <2>2
<1>4. ASSUME NEW c \in Clients, HostHangup(c)
      PROVE  TypeOK'
  <2>1. client' \in [Clients -> HostClient] /\ cancelled' \in BOOLEAN
        /\ cancelIds' \subseteq Clients \X Ids
    BY <1>4, ClientCloses DEF HostHangup
  <2>. QED
    BY <1>4, <2>1 DEF HostHangup, TypeOK
<1>5. ASSUME NEW c \in Clients, NEW id \in Ids, HostCancel(c, id)
      PROVE  TypeOK'
  <2>1. cancelled' \in BOOLEAN /\ cancelIds' \subseteq Clients \X Ids
    BY <1>5 DEF HostCancel, TypeOK
  <2>. QED
    BY <1>5, <2>1 DEF HostCancel, TypeOK
<1>. QED
  BY <1>1, <1>2, <1>3, <1>4, <1>5 DEF Guest

LEMMA LeaseFlags ==
    ASSUME NEW r \in HostLease, NEW b \in BOOLEAN
    PROVE  /\ [r EXCEPT !.accepting = b] \in HostLease
           /\ [r EXCEPT !.acknowledged = b] \in HostLease
<1>1. [r EXCEPT !.accepting = b] \in HostLease
  BY DEF HostLease
<1>2. [r EXCEPT !.acknowledged = b] \in HostLease
  BY DEF HostLease
<1>. QED
  BY <1>1, <1>2

LEMMA PhaseTyped ==
    ASSUME TypeOK, NEW p \in {"down", "loop", "call", "bind", "tail"}
    PROVE  /\ [host EXCEPT !.phase = p] \in Host /\ [host EXCEPT !.phase = p].phase = p
           /\ [host EXCEPT !.phase = p].stopping = host.stopping
BY DEF TypeOK, Host

\* One of the faults is used up.
LEMMA FaultTypes ==
    ASSUME TypeOK, UpgradesLeft, Fault
    PROVE  faults' \in 0..MaxFaults /\ faults' = faults - 1 /\ faults > 0
           /\ installed + 1 \in 0..MaxFaults
BY BoundAssumption DEF TypeOK, UpgradesLeft, Fault

LEMMA TurnTypes ==
    ASSUME TypeOK, UpgradesLeft, LoopInv, Turn \/ Input \/ EndCall \/ \E l \in Leases : IdleRevoke(l)
    PROVE  TypeOK' /\ installed' = installed /\ faults' \in {faults, faults - 1}
<1>1. CASE StartCall
  <2>1. events # <<>> /\ events' = Tail(events) /\ Head(events) \in Event
    BY <1>1, Popping DEF StartCall, Pop
  <2>2. host' \in Host
    BY <1>1, PhaseTyped DEF StartCall, Phase
  <2>3. current' \in Event \cup {None} /\ cancelled' \in BOOLEAN
    <3>1. \/ current' = Head(events) /\ cancelled' = (<<Head(events).client, Head(events).id>> \in cancelIds)
          \/ UNCHANGED <<current, cancelled>>
      BY <1>1 DEF StartCall
    <3>2. current' \in Event \cup {None}
      BY <2>1, <3>1 DEF TypeOK
    <3>3. cancelled' \in BOOLEAN
      <4>1. (<<Head(events).client, Head(events).id>> \in cancelIds) \in BOOLEAN
        OBVIOUS
      <4>. QED
        BY <3>1, <4>1 DEF TypeOK
    <3>. QED
      BY <3>2, <3>3
  <2>4. events' \in Seq(Event)
    BY <2>1, Popping
  <2>. QED
    BY <1>1, <2>2, <2>3, <2>4 DEF StartCall, TypeOK
<1>2. CASE StartBind
  <2>1. events # <<>> /\ events' = Tail(events) /\ Head(events) \in Event
    BY <1>2, Popping DEF StartBind, Pop
  <2>2. host' \in Host
    BY <1>2, PhaseTyped DEF StartBind, Phase
  <2>3. current' \in Event \cup {None} /\ cancelled' \in BOOLEAN
    BY <1>2, <2>1 DEF StartBind, TypeOK
  <2>4. events' \in Seq(Event)
    BY <2>1, Popping
  <2>. QED
    BY <1>2, <2>2, <2>3, <2>4 DEF StartBind, TypeOK
<1>3. CASE EndBind
  <2>. DEFINE l == current.lease
  <2>1. l \in Leases
    BY <1>3, EventFacts DEF EndBind, LoopInv
  <2>2. CASE /\ ~conn[l].closed
             /\ conn' = [conn EXCEPT ![l] = Send(l, Ready)]
             /\ lease' = [lease EXCEPT ![l].accepting = ~lease[l].revoked]
             /\ host' = [host EXCEPT !.phase = "tail", !.once = @ \/ ~lease[l].revoked]
             /\ UNCHANGED <<client, events, cancelled, cancelIds, faults>>
    <3>1. Ready \in Reply
      BY DEF Ready, Reply, TypeOK, Host
    <3>2. lease[l] \in HostLease
          /\ [lease[l] EXCEPT !.accepting = ~lease[l].revoked] \in HostLease
      <4>1. lease[l] \in HostLease
        BY <2>1 DEF TypeOK
      <4>2. (~lease[l].revoked) \in BOOLEAN
        OBVIOUS
      <4>. QED
        BY <4>1, <4>2, LeaseFlags
    <3>3. host' \in Host
      BY <2>2 DEF TypeOK, Host
    <3>4. conn' \in [Leases -> Control] /\ lease' \in [Leases -> HostLease]
      BY <2>1, <2>2, <3>1, <3>2, SendFacts DEF TypeOK
    <3>. HIDE DEF l
    <3>. QED
      BY <1>3, <2>2, <3>3, <3>4 DEF EndBind, TypeOK
  <2>3. CASE /\ IF conn[l].closed \/ host.stopping THEN UNCHANGED faults ELSE Fault
             /\ IF lease[l].revoked
                THEN UNCHANGED <<lease, client, events, cancelled, cancelIds>>
                ELSE HostRevoke(l)
             /\ Phase("tail")
             /\ UNCHANGED conn
    <3>1. host' \in Host
      BY <2>3, PhaseTyped DEF Phase
    <3>2. faults' \in 0..MaxFaults /\ faults' \in {faults, faults - 1}
      BY <2>3, FaultTypes DEF TypeOK
    <3>3. lease' \in [Leases -> HostLease] /\ events' \in Seq(Event)
      BY <2>1, <2>3, Revokes DEF TypeOK
    <3>4. client' \in [Clients -> HostClient] /\ cancelled' \in BOOLEAN
          /\ cancelIds' \subseteq Clients \X Ids
      BY <2>3, ClientCloses DEF HostRevoke, TypeOK
    <3>. HIDE DEF l
    <3>. QED
      BY <1>3, <2>3, <3>1, <3>2, <3>3, <3>4 DEF EndBind, TypeOK
  <2>. QED
    BY <1>3, <2>2, <2>3 DEF EndBind
<1>4. CASE Acknowledge
  <2>. DEFINE l == Head(events).lease
  <2>1. events # <<>> /\ events' = Tail(events) /\ l \in Leases
    BY <1>4, Popping, EventFacts DEF Acknowledge, Pop
  <2>2. ReleasedReply \in Reply
    BY DEF ReleasedReply, Reply
  <2>3. lease[l] \in HostLease /\ [lease[l] EXCEPT !.acknowledged = TRUE] \in HostLease
    BY <2>1, LeaseFlags DEF TypeOK
  <2>4. conn' \in [Leases -> Control] /\ lease' \in [Leases -> HostLease]
    BY <1>4, <2>1, <2>2, <2>3, SendFacts DEF Acknowledge, TypeOK
  <2>5. host' \in Host /\ events' \in Seq(Event)
    BY <1>4, <2>1, PhaseTyped, Popping DEF Acknowledge, Phase
  <2>. QED
    BY <1>4, <2>4, <2>5 DEF Acknowledge, TypeOK
<1>5. CASE HostCollect
  <2>1. client' \in [Clients -> HostClient]
    BY <1>5, Values DEF HostCollect, TypeOK
  <2>2. lease' \in [Leases -> HostLease]
    BY <1>5, Values DEF HostCollect, TypeOK
  <2>3. conn' \in [Leases -> Control]
    BY <1>5, HostCloseFacts DEF HostCollect, TypeOK
  <2>4. host' \in Host
    BY <1>5, PhaseTyped DEF HostCollect
  <2>. QED
    BY <1>5, <2>1, <2>2, <2>3, <2>4 DEF HostCollect, TypeOK
<1>6. CASE Input
  <2>1. client[current.client].lease \in Leases \cup {None}
    BY <1>6, EventFacts DEF Input, LoopInv, TypeOK, HostClient
  <2>. QED
    BY <1>6, <2>1 DEF Input, TypeOK
<1>7. CASE EndCall
  <2>1. host' \in Host
    BY <1>7, PhaseTyped DEF EndCall, Phase
  <2>. QED
    BY <1>7, <2>1 DEF EndCall, TypeOK
<1>8. ASSUME NEW l \in Leases, IdleRevoke(l)
      PROVE  TypeOK' /\ installed' = installed /\ faults' \in {faults, faults - 1}
  <2>1. lease' \in [Leases -> HostLease] /\ events' \in Seq(Event)
    BY <1>8, Revokes DEF IdleRevoke
  <2>2. client' \in [Clients -> HostClient] /\ cancelled' \in BOOLEAN
        /\ cancelIds' \subseteq Clients \X Ids
    BY <1>8, ClientCloses DEF IdleRevoke, HostRevoke
  <2>. QED
    BY <1>8, <2>1, <2>2 DEF IdleRevoke, TypeOK
<1>. QED
  BY <1>1, <1>2, <1>3, <1>4, <1>5, <1>6, <1>7, <1>8 DEF Turn

LEMMA ProcessTypes ==
    ASSUME TypeOK, UpgradesLeft, HostStops \/ HostCrashes \/ SessionEnds \/ HostStarts \/ Upgrade
    PROVE  TypeOK'
<1>1. CASE HostStops \/ HostCrashes
  <2>1. Down /\ faults' \in 0..MaxFaults
    BY <1>1, FaultTypes DEF HostStops, HostCrashes, TypeOK
  <2>2. host' \in Host
    BY <2>1 DEF Down, TypeOK, Host
  <2>3. lease' \in [Leases -> HostLease] /\ client' \in [Clients -> HostClient]
    BY <2>1, Values DEF Down, TypeOK
  <2>4. conn' \in [Leases -> Control]
    BY <2>1, HostCloseFacts DEF Down, TypeOK
  <2>5. events' \in Seq(Event)
    BY <2>1 DEF Down
  <2>. QED
    BY <2>1, <2>2, <2>3, <2>4, <2>5 DEF Down, TypeOK
<1>2. CASE SessionEnds
  <2>1. faults' \in 0..MaxFaults /\ host' \in Host
    BY <1>2, FaultTypes DEF SessionEnds, TypeOK, Host
  <2>. QED
    BY <1>2, <2>1 DEF SessionEnds, TypeOK
<1>3. CASE HostStarts
  <2>1. host' \in Host
    BY <1>3 DEF HostStarts, TypeOK, Host
  <2>. QED
    BY <1>3, <2>1 DEF HostStarts, TypeOK
<1>4. CASE Upgrade
  <2>1. faults' \in 0..MaxFaults /\ installed' \in 0..MaxFaults
    BY <1>4, FaultTypes DEF Upgrade
  <2>. QED
    BY <1>4, <2>1 DEF Upgrade, hostVars, TypeOK
<1>. QED
  BY <1>1, <1>2, <1>3, <1>4

\* The controllers: a record of ctl and at most two connections change.
LEMMA RegisteringTyped ==
    ASSUME NEW s \in Spaces
    PROVE  /\ Registering(s) \in Control /\ Registering(s).space = s
           /\ Registering(s).pending = TRUE /\ Registering(s).unread = "payload"
           /\ Registering(s).out = <<>> /\ ~Registering(s).hup /\ ~Registering(s).closed
BY Values DEF Registering, Control

LEMMA StopUnitTyped ==
    ASSUME TypeOK
    PROVE  StopUnit \in Host /\ StopUnit.phase = host.phase
BY DEF TypeOK, StopUnit, Host

LEMMA ReleasedTypes ==
    ASSUME TypeOK, NEW s \in Spaces, ctl[s].lease \in Leases, Released(s)
    PROVE  /\ conn' \in [Leases -> Control] /\ ctl' \in [Spaces -> ComputerLease]
           /\ ctl'[s].lease = None /\ ctl'[s].pc \in {"closed", "idle", "restarting"}
           /\ ctl'[s].pc = "restarting" => ctl'[s].attempt = 0
           /\ \A t \in Spaces : t # s => ctl'[t] = ctl[t]
<1>1. ctl[s] \in ComputerLease
  BY DEF TypeOK
<1>2. conn' \in [Leases -> Control]
  BY CtlCloseFacts DEF Released, TypeOK
<1>. DEFINE r == [ctl[s] EXCEPT !.pc = "restarting", !.lease = None]
<1>3. r \in ComputerLease /\ r.pc = "restarting" /\ r.lease = None /\ r.attempt = ctl[s].attempt
  BY <1>1 DEF ComputerLease
<1>4. \/ ctl' = [ctl EXCEPT ![s] = Closed]
      \/ ctl' = [ctl EXCEPT ![s] = Opened]
      \/ ctl' = [ctl EXCEPT ![s] = r] /\ ctl[s].attempt # 1
  BY DEF Released, LastAttempt
<1>5. ctl[s].attempt # 1 => ctl[s].attempt = 0
  BY <1>1 DEF ComputerLease
<1>. HIDE DEF r
<1>. QED
  BY <1>2, <1>3, <1>4, <1>5, Values DEF TypeOK

LEMMA ControllerTypes ==
    ASSUME TypeOK, UpgradesLeft, CtlInv, NEW s \in Spaces,
           \/ Controller(s) \/ ActivateTimesOut(s) \/ ReleaseTimesOut(s) \/ Close(s) \/ Open(s)
    PROVE  TypeOK' /\ installed' = installed /\ faults' \in {faults, faults - 1}
<1>. USE DEF hostVars
<1>. DEFINE l == ctl[s].lease
<1>1. ctl[s] \in ComputerLease /\ l \in Leases \cup {None} /\ (l # None => conn[l] \in Control)
  BY DEF TypeOK, ComputerLease
<1>2. CASE Alive(s)
  <2>1. Returned(l) => l \in Leases
    BY <1>1 DEF Returned
  <2>. DEFINE kept == IF Returned(l) THEN [conn EXCEPT ![l] = CtlClose(l)] ELSE conn
              new(k) == [Closed EXCEPT !.pc = "activating", !.lease = k, !.exe = installed]
  <2>2. kept \in [Leases -> Control]
    BY <2>1, CtlCloseFacts DEF TypeOK
  <2>3. \A k \in Leases : new(k) \in ComputerLease
    BY Values DEF ComputerLease, TypeOK
  <2>4. \/ \E k \in Leases : conn' = [kept EXCEPT ![k] = Registering(s)]
                             /\ ctl' = [ctl EXCEPT ![s] = new(k)]
        \/ conn' = kept /\ ctl' = [ctl EXCEPT ![s] = Opened]
    BY <1>2 DEF Alive
  <2>. HIDE DEF kept, new
  <2>5. conn' \in [Leases -> Control]
    BY <2>2, <2>4, RegisteringTyped
  <2>6. ctl' \in [Spaces -> ComputerLease]
    BY <2>3, <2>4, Values DEF TypeOK
  <2>. QED
    BY <1>2, <2>5, <2>6 DEF Alive, TypeOK
<1>3. CASE ActivateReply(s)
  <2>1. l \in Leases
    BY <1>1, <1>3 DEF ActivateReply, CtlInv
  <2>2. conn[l].out # <<>> => Tail(conn[l].out) \in Seq(Reply)
    BY <2>1 DEF TypeOK, Control
  <2>3. conn[l].out # <<>> => [conn[l] EXCEPT !.out = Tail(conn[l].out)] \in Control
    BY <1>1, <2>1, <2>2, NoneAssumption DEF Control
  <2>4. \A u \in {"none", "R"} : conn[l].out # <<>> =>
          [conn[l] EXCEPT !.out = Tail(conn[l].out), !.unread = u] \in Control
    BY <1>1, <2>1, <2>2, NoneAssumption DEF Control
  <2>5. \A p \in {"idle", "releasing"} : [ctl[s] EXCEPT !.pc = p] \in ComputerLease
    BY <1>1 DEF ComputerLease
  <2>6. conn' \in [Leases -> Control]
    <3>1. Len(conn[l].out) = 1 => conn[l].out # <<>>
      <4>1. Len(<<>>) # 1
        OBVIOUS
      <4>. QED
        BY <4>1
    <3>2. \/ Len(conn[l].out) = 1 /\ conn' = [conn EXCEPT ![l] = [conn[l] EXCEPT !.out = Tail(conn[l].out)]]
          \/ \E u \in {"none", "R"} : Len(conn[l].out) = 1
               /\ conn' = [conn EXCEPT ![l] = [conn[l] EXCEPT !.out = Tail(conn[l].out), !.unread = u]]
          \/ conn' = [conn EXCEPT ![l] = CtlClose(l)]
      BY <1>3, <2>1 DEF ActivateReply, TypeOK
    <3>. HIDE DEF l
    <3>. QED
      BY <2>1, <2>3, <2>4, <3>1, <3>2, CtlCloseFacts DEF TypeOK
  <2>7. ctl' \in [Spaces -> ComputerLease]
    <3>1. \/ \E p \in {"idle", "releasing"} : ctl' = [ctl EXCEPT ![s] = [ctl[s] EXCEPT !.pc = p]]
          \/ ctl' = [ctl EXCEPT ![s] = Opened]
      BY <1>3 DEF ActivateReply, TypeOK
    <3>. QED
      BY <2>5, <3>1, Values DEF TypeOK
  <2>. QED
    BY <1>3, <2>6, <2>7 DEF ActivateReply, TypeOK
<1>4. CASE Raises(s)
  <2>1. l \in Leases
    BY <1>1, <1>4 DEF Raises, CtlInv
  <2>2. [Closed EXCEPT !.pc = "failed"] \in ComputerLease
    BY Values DEF ComputerLease
  <2>3. conn' \in [Leases -> Control]
    BY <1>4, <2>1, CtlCloseFacts DEF Raises, TypeOK
  <2>4. ctl' \in [Spaces -> ComputerLease]
    BY <1>4, <2>2, Values DEF Raises, TypeOK
  <2>. QED
    BY <1>4, <2>3, <2>4 DEF Raises, TypeOK
<1>5. CASE ReleaseReply(s)
  <2>1. l \in Leases
    BY <1>1, <1>5 DEF ReleaseReply, CtlInv
  <2>2. conn' \in [Leases -> Control] /\ ctl' \in [Spaces -> ComputerLease]
    BY <1>5, <2>1, ReleasedTypes DEF ReleaseReply
  <2>3. host' \in Host
    BY <1>5, StopUnitTyped DEF ReleaseReply, TypeOK
  <2>. QED
    BY <1>5, <2>2, <2>3 DEF ReleaseReply, TypeOK
<1>6. CASE StopDone(s)
  <2>1. l \in Leases
    BY <1>1, <1>6 DEF StopDone, CtlInv
  <2>2. [ctl[s] EXCEPT !.pc = "raising"] \in ComputerLease
    BY <1>1 DEF ComputerLease
  <2>3. conn' \in [Leases -> Control] /\ ctl' \in [Spaces -> ComputerLease]
    <3>1. CASE Released(s)
      BY <2>1, <3>1, ReleasedTypes
    <3>2. CASE ~Released(s)
      <4>1. conn' = conn /\ ctl' = [ctl EXCEPT ![s] = [ctl[s] EXCEPT !.pc = "raising"]]
        BY <1>6, <3>2 DEF StopDone, TypeOK
      <4>. QED
        BY <2>2, <4>1 DEF TypeOK
    <3>. QED
      BY <3>1, <3>2
  <2>4. host' \in Host
    BY <1>6, StopUnitTyped DEF StopDone, TypeOK
  <2>. QED
    BY <1>6, <2>3, <2>4 DEF StopDone, TypeOK
<1>7. CASE Reconnect(s)
  <2>1. PICK k \in Leases :
          /\ conn' = [conn EXCEPT ![k] = Registering(s)]
          /\ ctl' = [ctl EXCEPT ![s].pc = "activating", ![s].lease = k, ![s].attempt = @ + 1]
    BY <1>7 DEF Reconnect
  <2>2. ctl[s].attempt = 0
    BY <1>7 DEF Reconnect, CtlInv
  <2>3. ctl' = [ctl EXCEPT ![s] = [ctl[s] EXCEPT !.pc = "activating", !.lease = k,
                                                 !.attempt = ctl[s].attempt + 1]]
    BY <2>1 DEF TypeOK
  <2>4. [ctl[s] EXCEPT !.pc = "activating", !.lease = k, !.attempt = ctl[s].attempt + 1]
          \in ComputerLease
    <3>1. ctl[s].attempt + 1 \in 0..1
      BY <2>2
    <3>. QED
      BY <1>1, <3>1, Zenon DEF ComputerLease
  <2>5. conn' \in [Leases -> Control] /\ ctl' \in [Spaces -> ComputerLease]
    <3>1. PICK new \in ComputerLease : ctl' = [ctl EXCEPT ![s] = new]
      BY <2>3, <2>4
    <3>2. ctl' \in [Spaces -> ComputerLease]
      BY <3>1 DEF TypeOK
    <3>3. conn' \in [Leases -> Control]
      BY <2>1, RegisteringTyped DEF TypeOK
    <3>. QED
      BY <3>2, <3>3
  <2>. QED
    BY <1>7, <2>5 DEF Reconnect, TypeOK
<1>8. CASE ActivateTimesOut(s)
  <2>1. [ctl[s] EXCEPT !.pc = "raising"] \in ComputerLease
    BY <1>1 DEF ComputerLease
  <2>2. ctl' \in [Spaces -> ComputerLease] /\ faults' \in 0..MaxFaults /\ faults' = faults - 1
    BY <1>8, <2>1, FaultTypes DEF ActivateTimesOut, TypeOK
  <2>. QED
    BY <1>8, <2>2 DEF ActivateTimesOut, TypeOK
<1>9. CASE ReleaseTimesOut(s)
  <2>1. /\ [ctl[s] EXCEPT !.pc = "stopping"] \in ComputerLease
        /\ [ctl[s] EXCEPT !.pc = "raising"] \in ComputerLease
    BY <1>1 DEF ComputerLease
  <2>2. ctl' \in [Spaces -> ComputerLease]
    BY <1>9, <2>1 DEF ReleaseTimesOut, TypeOK
  <2>3. faults' \in 0..MaxFaults /\ faults' = faults - 1
    BY <1>9, FaultTypes DEF ReleaseTimesOut, TypeOK
  <2>4. host' \in Host
    BY <1>9, StopUnitTyped DEF ReleaseTimesOut, TypeOK
  <2>. QED
    BY <1>9, <2>2, <2>3, <2>4 DEF ReleaseTimesOut, TypeOK
<1>10. CASE Close(s)
  <2>1. CASE l = None
    <3>1. ctl' \in [Spaces -> ComputerLease]
      BY <1>10, <2>1, Values DEF Close, TypeOK
    <3>. QED
      BY <1>10, <2>1, <3>1 DEF Close, TypeOK
  <2>2. CASE l # None
    <3>1. [ctl[s] EXCEPT !.pc = "releasing", !.closing = TRUE] \in ComputerLease
      BY <1>1 DEF ComputerLease
    <3>2. [conn[l] EXCEPT !.unread = IF conn[l].hup THEN conn[l].unread ELSE "R"] \in Control
      BY <1>1, <2>2 DEF Control
    <3>3. ctl' = [ctl EXCEPT ![s] = [ctl[s] EXCEPT !.pc = "releasing", !.closing = TRUE]]
          /\ conn' = [conn EXCEPT ![l] = [conn[l] EXCEPT !.unread =
                                            IF conn[l].hup THEN conn[l].unread ELSE "R"]]
      BY <1>1, <1>10, <2>2 DEF Close, TypeOK
    <3>4. ctl' \in [Spaces -> ComputerLease] /\ conn' \in [Leases -> Control]
      BY <1>1, <2>2, <3>1, <3>2, <3>3 DEF TypeOK
    <3>. QED
      BY <1>10, <3>4 DEF Close, TypeOK
  <2>. QED
    BY <2>1, <2>2
<1>11. CASE Open(s)
  <2>1. ctl' \in [Spaces -> ComputerLease]
    BY <1>11, Values DEF Open, TypeOK
  <2>. QED
    BY <1>11, <2>1 DEF Open, TypeOK
<1>. QED
  BY <1>2, <1>3, <1>4, <1>5, <1>6, <1>7, <1>8, <1>9, <1>10, <1>11 DEF Controller

-----------------------------------------------------------------------------
(* Every step keeps what holds inside the host.                             *)

LEMMA StillHost ==
    ASSUME HostInv, host'.phase = host.phase, UNCHANGED <<lease, client, events, current, held>>
    PROVE  HostInv'
BY DEF HostInv, LoopInv, CurrentInv, FlagsInv, ClientInv, QueueInv

\* The queue keeps its order when an event joins it: nothing is queued for a
\* lease that is revoked already.
LEMMA QueueGrows ==
    ASSUME TypeOK, QueueInv, NEW e \in Event, events' = Append(events, e),
           \A c \in Clients : client[c].lease # None => client'[c].lease # None,
           \A k \in Leases : lease[k].known /\ ~lease[k].acknowledged =>
             /\ lease'[k].known /\ ~lease'[k].acknowledged
             /\ lease[k].revoked => lease'[k].revoked,
           e.kind = "call" => client'[e.client].lease # None,
           e.kind # "call" => /\ lease'[e.lease].known /\ ~lease'[e.lease].acknowledged
                              /\ ~lease[e.lease].revoked,
           e.kind = "revoke" => lease'[e.lease].revoked
    PROVE  QueueInv'
<1>1. /\ Len(events') = Len(events) + 1 /\ Len(events) \in Nat
      /\ \A i \in 1..Len(events) : events'[i] = events[i]
      /\ events'[Len(events) + 1] = e
  BY Queueing
<1>2. \A i \in 1..Len(events) : /\ events[i].kind = "call" => events[i].client \in Clients
                                /\ events[i].kind # "call" => events[i].lease \in Leases
  BY EventFacts
<1>3. ASSUME NEW i \in 1..Len(events)
      PROVE  /\ events[i].kind = "call" => client'[events[i].client].lease # None
             /\ events[i].kind # "call" => /\ lease'[events[i].lease].known
                                           /\ ~lease'[events[i].lease].acknowledged
             /\ events[i].kind = "revoke" => lease'[events[i].lease].revoked
  BY <1>2 DEF QueueInv
<1>4. ASSUME NEW i \in 1..Len(events), events[i].kind = "revoke", e.kind # "call"
      PROVE  e.lease # events[i].lease
  BY <1>4 DEF QueueInv
<1>5. ASSUME NEW i \in 1..Len(events), events[i].kind = "revoke",
             NEW j \in 1..(Len(events) + 1), j > i, events'[j].kind # "call"
      PROVE  events'[j].lease # events[i].lease
  <2>1. CASE j = Len(events) + 1
    BY <1>1, <1>4, <1>5, <2>1
  <2>2. CASE j # Len(events) + 1
    <3>1. j \in 1..Len(events)
      BY <1>1, <2>2
    <3>. QED
      BY <1>1, <1>5, <3>1 DEF QueueInv
  <2>. QED
    BY <2>1, <2>2
<1>6. SUFFICES ASSUME NEW i \in 1..(Len(events) + 1)
      PROVE  /\ events'[i].kind = "call" => client'[events'[i].client].lease # None
             /\ events'[i].kind # "call" => /\ lease'[events'[i].lease].known
                                            /\ ~lease'[events'[i].lease].acknowledged
             /\ events'[i].kind = "revoke" =>
                  /\ lease'[events'[i].lease].revoked
                  /\ \A j \in 1..(Len(events) + 1) :
                       j > i /\ events'[j].kind # "call" => events'[j].lease # events'[i].lease
  BY <1>1, Zenon DEF QueueInv
<1>7. CASE i = Len(events) + 1
  BY <1>1, <1>7
<1>8. CASE i # Len(events) + 1
  <2>1. i \in 1..Len(events) /\ events'[i] = events[i]
    BY <1>1, <1>8
  <2>. QED
    BY <1>3, <1>5, <2>1
<1>. QED
  BY <1>7, <1>8

\* It keeps it when the head is taken, whatever becomes of that one's lease.
LEMMA QueueShrinks ==
    ASSUME TypeOK, QueueInv, events # <<>>, events' = Tail(events),
           client' = client,
           \A k \in Leases : lease'[k] # lease[k] =>
             Head(events).kind = "revoke" /\ Head(events).lease = k
    PROVE  QueueInv'
<1>1. /\ Head(events) = events[1] /\ 1 \in 1..Len(events)
      /\ Len(events') = Len(events) - 1 /\ Len(events) \in Nat
      /\ \A i \in 1..Len(events') : /\ i + 1 \in 1..Len(events) /\ i + 1 > 1
                                    /\ events'[i] = events[i + 1]
  BY Popping
<1>2. \A i \in 1..Len(events) : events[i].kind # "call" => events[i].lease \in Leases
  BY EventFacts
<1>3. \A i \in 1..Len(events) : i > 1 /\ events[i].kind # "call" =>
        lease'[events[i].lease] = lease[events[i].lease]
  BY <1>1, <1>2 DEF QueueInv
<1>4. ASSUME NEW i \in 1..Len(events')
      PROVE  /\ events'[i].kind = "call" => client'[events'[i].client].lease # None
             /\ events'[i].kind # "call" => /\ lease'[events'[i].lease].known
                                            /\ ~lease'[events'[i].lease].acknowledged
             /\ events'[i].kind = "revoke" =>
                  /\ lease'[events'[i].lease].revoked
                  /\ \A j \in 1..Len(events') :
                       j > i /\ events'[j].kind # "call" => events'[j].lease # events'[i].lease
  <2>1. i + 1 \in 1..Len(events) /\ i + 1 > 1 /\ events'[i] = events[i + 1]
    BY <1>1
  <2>2. ASSUME NEW j \in 1..Len(events'), j > i
        PROVE  j + 1 \in 1..Len(events) /\ j + 1 > i + 1 /\ events'[j] = events[j + 1]
    BY <1>1, <2>2
  <2>3. events[i + 1].kind # "call" => lease'[events[i + 1].lease] = lease[events[i + 1].lease]
    BY <1>3, <2>1
  <2>. QED
    BY <2>1, <2>2, <2>3 DEF QueueInv
<1>. QED
  BY <1>4, Zenon DEF QueueInv

\* It is as good when nothing is taken from its clients and leases.
LEMMA QueueStays ==
    ASSUME TypeOK, QueueInv, events' = events,
           \A i \in 1..Len(events) :
             /\ events[i].kind = "call" => client'[events[i].client].lease # None
             /\ events[i].kind # "call" =>
                  /\ lease'[events[i].lease].known = lease[events[i].lease].known
                  /\ lease'[events[i].lease].acknowledged = lease[events[i].lease].acknowledged
                  /\ lease[events[i].lease].revoked => lease'[events[i].lease].revoked
    PROVE  QueueInv'
BY DEF QueueInv

\* Clients close, come and go before they are accepted.
LEMMA ClientsHost ==
    ASSUME TypeOK, HostInv, host'.phase = host.phase, UNCHANGED <<lease, current, held>>,
           \A c \in Clients :
             /\ client'[c].lease = client[c].lease
             /\ client'[c].state \in {"away", "waiting"} <=> client[c].state \in {"away", "waiting"}
             /\ client[c].state = "closed" => client'[c].state = "closed",
           \/ events' = events
           \/ \E c \in Clients, id \in Ids : /\ client[c].lease # None
                                             /\ events' = Append(events, [kind |-> "call", client |-> c, id |-> id])
    PROVE  HostInv'
<1>1. LoopInv' /\ CurrentInv'
  <2>1. host.phase = "call" => current.client \in Clients
    BY EventFacts DEF HostInv, LoopInv
  <2>. QED
    BY <2>1 DEF HostInv, LoopInv, CurrentInv
<1>2. FlagsInv' /\ ClientInv'
  BY DEF HostInv, FlagsInv, ClientInv
<1>3. QueueInv'
  <2>1. CASE events' = events
    <3>1. \A i \in 1..Len(events) : events[i].kind = "call" => events[i].client \in Clients
      BY EventFacts
    <3>. QED
      BY <2>1, <3>1 DEF HostInv, QueueInv
  <2>2. ASSUME NEW c \in Clients, NEW id \in Ids, client[c].lease # None,
               events' = Append(events, [kind |-> "call", client |-> c, id |-> id])
        PROVE  QueueInv'
    <3>. DEFINE e == [kind |-> "call", client |-> c, id |-> id]
    <3>1. e \in Event /\ e.kind = "call" /\ e.client = c
      BY EventFacts
    <3>2. events' = Append(events, e) /\ client'[c].lease # None
      BY <2>2
    <3>. HIDE DEF e
    <3>. QED
      BY <3>1, <3>2, QueueGrows DEF HostInv
  <2>. QED
    BY <2>1, <2>2
<1>. QED
  BY <1>1, <1>2, <1>3 DEF HostInv

LEMMA GuestHost ==
    ASSUME TypeOK, HostInv, Guest \/ \E s \in Spaces : ListenerGone(s)
    PROVE  HostInv'
<1>1. ASSUME NEW c \in Clients, GuestConnects(c)
      PROVE  HostInv'
  <2>1. PICK s \in Spaces : client' = [client EXCEPT ![c] = [NoClient EXCEPT !.at = s, !.state = "waiting"]]
    BY <1>1 DEF GuestConnects
  <2>2. client'[c].lease = None /\ client'[c].state = "waiting" /\ client[c].state = "away"
        /\ \A d \in Clients : d # c => client'[d] = client[d]
    BY <1>1, <2>1, Values DEF GuestConnects, TypeOK, HostClient
  <2>3. client[c].lease = None
    BY <2>2 DEF HostInv, ClientInv
  <2>4. host' = host /\ UNCHANGED <<lease, events, current, held>>
    BY <1>1 DEF GuestConnects
  <2>. QED
    BY <2>2, <2>3, <2>4, ClientsHost
<1>2. ASSUME NEW s \in Spaces, ListenerGone(s)
      PROVE  HostInv'
  <2>1. \A c \in Clients : client'[c] = client[c] \/ (client'[c] = NoClient /\ client[c].state = "waiting")
    BY <1>2 DEF ListenerGone, Waiting
  <2>2. \A c \in Clients : client[c].state = "waiting" => client[c].lease = None
    BY DEF HostInv, ClientInv
  <2>3. host' = host /\ UNCHANGED <<lease, events, current, held>>
    BY <1>2 DEF ListenerGone
  <2>4. \A c \in Clients :
          /\ client'[c].lease = client[c].lease
          /\ client'[c].state \in {"away", "waiting"} <=> client[c].state \in {"away", "waiting"}
          /\ client[c].state = "closed" => client'[c].state = "closed"
    BY <2>1, <2>2, Values
  <2>. QED
    BY <2>3, <2>4, ClientsHost
<1>3. ASSUME NEW c \in Clients, HostLine(c)
      PROVE  HostInv'
  <2>1. host' = host /\ UNCHANGED <<lease, current, held>> /\ client[c].lease # None
    BY <1>3 DEF HostLine, HostInv, ClientInv
  <2>2. CASE Len(events) < MaxPending
    <3>1. client[c].sent + 1 \in Ids
      BY <1>3, BoundAssumption DEF HostLine, TypeOK, HostClient, Ids
    <3>2. events' = Append(events, [kind |-> "call", client |-> c, id |-> client[c].sent + 1])
      BY <1>3, <2>2 DEF HostLine
    <3>3. \A d \in Clients : client'[d].lease = client[d].lease /\ client'[d].state = client[d].state
      <4>1. client' = [client EXCEPT ![c] = [client[c] EXCEPT !.sent = client[c].sent + 1]]
        BY <1>3, <2>2 DEF HostLine
      <4>2. client[c] \in HostClient
        BY DEF TypeOK
      <4>. QED
        BY <4>1, <4>2 DEF TypeOK, HostClient
    <3>4. \E d \in Clients, id \in Ids : /\ client[d].lease # None
                                         /\ events' = Append(events, [kind |-> "call", client |-> d, id |-> id])
      BY <2>1, <3>1, <3>2
    <3>5. \A d \in Clients :
            /\ client'[d].lease = client[d].lease
            /\ client'[d].state \in {"away", "waiting"} <=> client[d].state \in {"away", "waiting"}
            /\ client[d].state = "closed" => client'[d].state = "closed"
      BY <3>3
    <3>. QED
      BY <2>1, <3>4, <3>5, ClientsHost
  <2>3. CASE ~(Len(events) < MaxPending)
    <3>1. HostClientClose({c}) /\ events' = events
      BY <1>3, <2>3 DEF HostLine
    <3>. QED
      BY <2>1, <3>1, ClientCloses, ClientsHost
  <2>. QED
    BY <2>2, <2>3
<1>4. ASSUME NEW c \in Clients, HostHangup(c)
      PROVE  HostInv'
  <2>1. HostClientClose({c}) /\ host' = host /\ UNCHANGED <<lease, events, current, held>>
    BY <1>4 DEF HostHangup
  <2>. QED
    BY <2>1, ClientCloses, ClientsHost
<1>5. ASSUME NEW c \in Clients, NEW id \in Ids, HostCancel(c, id)
      PROVE  HostInv'
  BY <1>5, StillHost DEF HostCancel
<1>. QED
  BY <1>1, <1>2, <1>3, <1>4, <1>5 DEF Guest

\* host_revoke of a lease that is not revoked yet.
LEMMA RevokeHost ==
    ASSUME TypeOK, HostInv, NEW l \in Leases, HostRevoke(l), lease[l].known, ~lease[l].revoked
    PROVE  /\ FlagsInv' /\ ClientInv' /\ QueueInv'
           /\ \A c \in Clients : client'[c].lease = client[c].lease
           /\ \A k \in Leases : /\ lease'[k].known = lease[k].known
                                /\ lease'[k].acknowledged = lease[k].acknowledged
<1>. DEFINE e == [kind |-> "revoke", lease |-> l]
<1>1. /\ lease'[l].revoked = TRUE /\ lease'[l].accepting = FALSE
      /\ lease'[l].known = lease[l].known /\ lease'[l].acknowledged = lease[l].acknowledged
      /\ \A k \in Leases : k # l => lease'[k] = lease[k]
      /\ events' = Append(events, e)
  BY Revokes
<1>2. \A c \in Clients : /\ client'[c].lease = client[c].lease
                         /\ client'[c].state = IF c \in ClientsOf(l) /\ client[c].state = "open"
                                               THEN "closed" ELSE client[c].state
  BY ClientCloses DEF HostRevoke
<1>3. ~lease[l].acknowledged
  BY DEF HostInv, FlagsInv
<1>4. FlagsInv'
  BY <1>1, <1>3 DEF HostInv, FlagsInv
<1>5. ClientInv'
  <2>1. ASSUME NEW c \in Clients
        PROVE  /\ client'[c].lease = None <=> client'[c].state \in {"away", "waiting"}
               /\ client'[c].lease # None =>
                    /\ lease'[client'[c].lease].known
                    /\ lease'[client'[c].lease].revoked => client'[c].state = "closed"
    <3>1. client[c].state \in {"away", "waiting", "open", "closed"}
          /\ client[c].lease \in Leases \cup {None}
      BY DEF TypeOK, HostClient
    <3>2. /\ client'[c].lease = client[c].lease
          /\ client'[c].state = IF client[c].lease = l /\ client[c].state = "open"
                                THEN "closed" ELSE client[c].state
      BY <1>2 DEF ClientsOf
    <3>3. /\ client[c].lease = None <=> client[c].state \in {"away", "waiting"}
          /\ client[c].lease # None =>
               /\ lease[client[c].lease].known
               /\ lease[client[c].lease].revoked => client[c].state = "closed"
      BY DEF HostInv, ClientInv
    <3>4. CASE client[c].lease = l
      BY <1>1, <3>1, <3>2, <3>3, <3>4, NoneAssumption
    <3>5. CASE client[c].lease # l
      BY <1>1, <3>1, <3>2, <3>3, <3>5
    <3>. QED
      BY <3>4, <3>5
  <2>. QED
    BY <2>1 DEF ClientInv
<1>6. QueueInv'
  <2>1. e \in Event /\ e.kind = "revoke" /\ e.lease = l
    BY EventFacts
  <2>. HIDE DEF e
  <2>. QED
    BY <1>1, <1>2, <1>3, <2>1, QueueGrows DEF HostInv
<1>7. \A k \in Leases : lease'[k].known = lease[k].known /\ lease'[k].acknowledged = lease[k].acknowledged
  BY <1>1
<1>. QED
  BY <1>2, <1>4, <1>5, <1>6, <1>7


\* What is executed is left alone by a step that takes no lease away.
LEMMA LoopStays ==
    ASSUME TypeOK, HostInv, host'.phase = host.phase, UNCHANGED <<current, held>>,
           \A c \in Clients : client[c].lease # None => client'[c].lease = client[c].lease,
           \A k \in Leases : lease[k].known => /\ lease'[k].known
                                               /\ lease'[k].acknowledged = lease[k].acknowledged
    PROVE  LoopInv' /\ CurrentInv'
<1>1. CASE host.phase = "call"
  <2>1. current.client \in Clients /\ current.kind = "call"
    BY <1>1, EventFacts DEF HostInv, LoopInv
  <2>2. client[current.client].lease # None /\ client[current.client].lease \in Leases
    BY <1>1, <2>1 DEF HostInv, CurrentInv, TypeOK, HostClient
  <2>3. client'[current.client].lease = client[current.client].lease
        /\ lease[client[current.client].lease].known
    BY <2>1, <2>2 DEF HostInv, ClientInv
  <2>. QED
    BY <1>1, <2>2, <2>3 DEF HostInv, LoopInv, CurrentInv
<1>2. CASE host.phase = "bind"
  <2>1. current.lease \in Leases
    BY <1>2, EventFacts DEF HostInv, LoopInv
  <2>. QED
    BY <1>2, <2>1 DEF HostInv, LoopInv, CurrentInv
<1>3. CASE host.phase \notin {"call", "bind"}
  BY <1>3 DEF HostInv, LoopInv, CurrentInv
<1>. QED
  BY <1>1, <1>2, <1>3

LEMMA CallbackHost ==
    ASSUME TypeOK, HostInv, ConnInv, Callback
    PROVE  HostInv'
<1>1. ASSUME NEW l \in Leases, HostControlAccept(l)
      PROVE  HostInv'
  <2>1. host' = host /\ UNCHANGED <<client, events, current, held>> /\ ~lease[l].known
    BY <1>1 DEF HostControlAccept, ConnInv
  <2>2. \/ lease' = lease
        \/ lease' = [lease EXCEPT ![l] = [NoLease EXCEPT !.known = TRUE]]
    BY <1>1 DEF HostControlAccept
  <2>3. CASE lease' = lease
    BY <2>1, <2>3, StillHost
  <2>4. CASE lease' = [lease EXCEPT ![l] = [NoLease EXCEPT !.known = TRUE]]
    <3>1. /\ lease'[l].known /\ ~lease'[l].acknowledged /\ ~lease'[l].accepting /\ ~lease'[l].revoked
          /\ \A k \in Leases : k # l => lease'[k] = lease[k]
      BY <2>4, Values DEF TypeOK, NoLease
    <3>2. LoopInv' /\ CurrentInv'
      BY <2>1, <3>1, LoopStays
    <3>3. FlagsInv'
      BY <3>1 DEF HostInv, FlagsInv
    <3>4. ClientInv'
      <4>1. \A c \in Clients : client[c].lease # None =>
              client[c].lease # l /\ client[c].lease \in Leases
        BY <2>1 DEF HostInv, ClientInv, TypeOK, HostClient
      <4>. QED
        BY <2>1, <3>1, <4>1 DEF HostInv, ClientInv
    <3>5. QueueInv'
      <4>1. \A i \in 1..Len(events) : events[i].kind # "call" =>
              events[i].lease # l /\ events[i].lease \in Leases
        BY <2>1, EventFacts DEF HostInv, QueueInv
      <4>. QED
        BY <2>1, <3>1, <4>1 DEF HostInv, QueueInv
    <3>. QED
      BY <3>2, <3>3, <3>4, <3>5 DEF HostInv
  <2>. QED
    BY <2>2, <2>3, <2>4
<1>2. ASSUME NEW l \in Leases, HostControlRead(l)
      PROVE  HostInv'
  <2>1. host' = host /\ UNCHANGED <<current, held>> /\ lease[l].known /\ ~lease[l].revoked
        /\ ~lease[l].acknowledged
    BY <1>2 DEF HostControlRead, ControlReady, HostInv, FlagsInv
  <2>2. CASE conn[l].unread = "payload"
    <3>. DEFINE e == [kind |-> "register", lease |-> l]
    <3>1. client' = client /\ events' = Append(events, e)
          /\ lease' = [lease EXCEPT ![l] = [lease[l] EXCEPT !.registered = TRUE]]
      BY <1>2, <2>2 DEF HostControlRead
    <3>2. /\ lease'[l].known = lease[l].known /\ lease'[l].acknowledged = lease[l].acknowledged
          /\ lease'[l].revoked = lease[l].revoked /\ lease'[l].accepting = lease[l].accepting
          /\ \A k \in Leases : k # l => lease'[k] = lease[k]
      BY <3>1 DEF TypeOK, HostLease
    <3>3. \A k \in Leases :
            /\ lease'[k].known = lease[k].known /\ lease'[k].acknowledged = lease[k].acknowledged
            /\ lease'[k].revoked = lease[k].revoked /\ lease'[k].accepting = lease[k].accepting
      BY <3>2
    <3>4. LoopInv' /\ CurrentInv'
      BY <2>1, <3>1, <3>3, LoopStays
    <3>5. FlagsInv'
      BY <2>1, <3>2 DEF HostInv, FlagsInv
    <3>6. ClientInv'
      BY <3>1, <3>3 DEF HostInv, ClientInv, TypeOK, HostClient
    <3>7. QueueInv'
      <4>1. e \in Event /\ e.kind = "register" /\ e.lease = l
        BY EventFacts
      <4>. HIDE DEF e
      <4>. QED
        BY <2>1, <3>1, <3>3, <4>1, QueueGrows DEF HostInv
    <3>. QED
      BY <3>4, <3>5, <3>6, <3>7 DEF HostInv
  <2>3. CASE conn[l].unread # "payload"
    <3>1. HostRevoke(l)
      BY <1>2, <2>3 DEF HostControlRead
    <3>2. /\ FlagsInv' /\ ClientInv' /\ QueueInv'
          /\ \A c \in Clients : client'[c].lease = client[c].lease
          /\ \A k \in Leases : /\ lease'[k].known = lease[k].known
                               /\ lease'[k].acknowledged = lease[k].acknowledged
      BY <2>1, <3>1, RevokeHost
    <3>3. LoopInv' /\ CurrentInv'
      BY <2>1, <3>2, LoopStays
    <3>. QED
      BY <3>2, <3>3 DEF HostInv
  <2>. QED
    BY <2>2, <2>3
<1>3. ASSUME NEW l \in Leases, NEW c \in Clients, HostAccept(l, c)
      PROVE  HostInv'
  <2>1. host' = host /\ UNCHANGED <<events, current, held>>
    BY <1>3 DEF HostAccept
  <2>2. lease[l].accepting /\ client[c].state = "waiting" /\ client[c].lease = None
    BY <1>3 DEF HostAccept, AcceptReady, Waiting, HostInv, ClientInv
  <2>3. lease[l].known /\ ~lease[l].revoked
    BY <2>2, Values DEF HostInv, FlagsInv
  <2>4. CASE client' = [client EXCEPT ![c] = NoClient] /\ lease' = lease
    <3>1. /\ client'[c].lease = None /\ client'[c].state = "away"
          /\ \A d \in Clients : d # c => client'[d] = client[d]
      BY <2>4, Values DEF TypeOK
    <3>2. \A d \in Clients :
            /\ client'[d].lease = client[d].lease
            /\ client'[d].state \in {"away", "waiting"} <=> client[d].state \in {"away", "waiting"}
            /\ client[d].state = "closed" => client'[d].state = "closed"
      BY <2>2, <3>1
    <3>. QED
      BY <2>1, <2>4, <3>2, ClientsHost
  <2>5. CASE /\ client' = [client EXCEPT ![c].lease = l, ![c].state = "open"]
             /\ lease' = [lease EXCEPT ![l].used = TRUE]
    <3>1. client[c] \in HostClient /\ lease[l] \in HostLease /\ l # None
      BY NoneAssumption DEF TypeOK
    <3>2. /\ client' = [client EXCEPT ![c] = [client[c] EXCEPT !.lease = l, !.state = "open"]]
          /\ lease' = [lease EXCEPT ![l] = [lease[l] EXCEPT !.used = TRUE]]
      BY <2>5 DEF TypeOK
    <3>3. /\ client'[c].lease = l /\ client'[c].state = "open"
          /\ \A d \in Clients : d # c => client'[d] = client[d]
      BY <3>1, <3>2 DEF TypeOK, HostClient
    <3>4. /\ lease'[l].known = lease[l].known /\ lease'[l].acknowledged = lease[l].acknowledged
          /\ lease'[l].revoked = lease[l].revoked /\ lease'[l].accepting = lease[l].accepting
          /\ \A k \in Leases : k # l => lease'[k] = lease[k]
      BY <3>1, <3>2 DEF TypeOK, HostLease
    <3>5. \A k \in Leases :
            /\ lease'[k].known = lease[k].known /\ lease'[k].acknowledged = lease[k].acknowledged
            /\ lease'[k].revoked = lease[k].revoked /\ lease'[k].accepting = lease[k].accepting
      BY <3>4
    <3>6. LoopInv' /\ CurrentInv'
      BY <2>1, <2>2, <3>3, <3>5, LoopStays
    <3>7. FlagsInv'
      BY <2>3, <3>4 DEF HostInv, FlagsInv
    <3>8. ClientInv'
      <4>1. \A d \in Clients : client[d].lease \in Leases \cup {None}
        BY DEF TypeOK, HostClient
      <4>. QED
        BY <2>3, <3>1, <3>3, <3>5, <4>1 DEF HostInv, ClientInv
    <3>9. QueueInv'
      <4>1. \A i \in 1..Len(events) :
              /\ events[i].kind = "call" => events[i].client \in Clients
              /\ events[i].kind # "call" => events[i].lease \in Leases
        BY EventFacts
      <4>2. \A d \in Clients : client[d].lease # None => client'[d].lease # None
        BY <3>1, <3>3
      <4>. QED
        BY <2>1, <3>5, <4>1, <4>2, QueueStays DEF HostInv, QueueInv
    <3>. QED
      BY <3>6, <3>7, <3>8, <3>9 DEF HostInv
  <2>. QED
    BY <1>3, <2>4, <2>5 DEF HostAccept
<1>. QED
  BY <1>1, <1>2, <1>3 DEF Callback

\* Outside a call or a registration nothing is executed and nothing is held.
LEMMA NothingRuns ==
    ASSUME HostInv, host.phase \notin {"call", "bind"}
    PROVE  current = None /\ held = None
BY DEF HostInv, LoopInv

LEMMA TurnHost ==
    ASSUME TypeOK, HostInv, Turn \/ Input \/ EndCall \/ \E l \in Leases : IdleRevoke(l)
    PROVE  HostInv'
<1>1. CASE StartCall
  <2>. DEFINE e == Head(events)
  <2>1. /\ host.phase = "loop" /\ events # <<>> /\ e.kind = "call" /\ events' = Tail(events)
        /\ UNCHANGED <<lease, client, held>>
    BY <1>1 DEF StartCall, Pop, AtTop
  <2>2. e \in Event /\ e.client \in Clients /\ client[e.client].lease # None
    BY <2>1, Popping, EventFacts DEF HostInv, QueueInv
  <2>3. current = None /\ held = None
    BY <2>1, NothingRuns
  <2>4. FlagsInv' /\ ClientInv'
    BY <2>1 DEF HostInv, FlagsInv, ClientInv
  <2>5. QueueInv'
    BY <2>1, QueueShrinks DEF HostInv
  <2>6. CASE client[e.client].state = "open"
    <3>1. current' = e /\ host'.phase = "call"
      BY <1>1, <2>6, PhaseTyped DEF StartCall, Phase
    <3>2. client[e.client].lease \in Leases /\ ~lease[client[e.client].lease].acknowledged
      BY <2>2, <2>6 DEF HostInv, ClientInv, FlagsInv, TypeOK, HostClient
    <3>. HIDE DEF e
    <3>3. LoopInv' /\ CurrentInv'
      BY <2>1, <2>2, <2>3, <3>1, <3>2 DEF LoopInv, CurrentInv
    <3>. QED
      BY <2>4, <2>5, <3>3 DEF HostInv
  <2>7. CASE client[e.client].state # "open"
    <3>1. current' = None /\ host'.phase = "tail"
      BY <1>1, <2>3, <2>7, PhaseTyped DEF StartCall, Phase
    <3>2. LoopInv' /\ CurrentInv'
      BY <2>1, <2>3, <3>1 DEF LoopInv, CurrentInv
    <3>. QED
      BY <2>4, <2>5, <3>2 DEF HostInv
  <2>. QED
    BY <2>6, <2>7
<1>2. CASE StartBind
  <2>. DEFINE e == Head(events)
  <2>1. /\ host.phase = "loop" /\ events # <<>> /\ e.kind = "register" /\ events' = Tail(events)
        /\ UNCHANGED <<lease, client, held>>
    BY <1>2 DEF StartBind, Pop, AtTop
  <2>2. e \in Event /\ lease[e.lease].known /\ ~lease[e.lease].acknowledged
    BY <2>1, Popping, EventFacts DEF HostInv, QueueInv
  <2>3. current = None /\ held = None
    BY <2>1, NothingRuns
  <2>4. FlagsInv' /\ ClientInv'
    BY <2>1 DEF HostInv, FlagsInv, ClientInv
  <2>5. QueueInv'
    BY <2>1, QueueShrinks DEF HostInv
  <2>6. \/ current' = e /\ host'.phase = "bind"
        \/ current' = None /\ host'.phase = "tail"
    BY <1>2, <2>3, PhaseTyped DEF StartBind, Phase
  <2>. HIDE DEF e
  <2>7. LoopInv' /\ CurrentInv'
    BY <2>1, <2>2, <2>3, <2>6 DEF LoopInv, CurrentInv
  <2>. QED
    BY <2>4, <2>5, <2>7 DEF HostInv
<1>3. CASE EndBind
  <2>. DEFINE l == current.lease
  <2>1. host.phase = "bind" /\ current' = None /\ held' = held
    BY <1>3 DEF EndBind
  <2>2. l \in Leases /\ lease[l].known /\ ~lease[l].acknowledged /\ held = None
    BY <2>1, EventFacts DEF HostInv, LoopInv, CurrentInv
  <2>3. host'.phase = "tail"
    <3>1. \/ host' = [host EXCEPT !.phase = "tail", !.once = host.once \/ ~lease[l].revoked]
          \/ Phase("tail")
      BY <1>3 DEF EndBind
    <3>. QED
      BY <3>1, PhaseTyped DEF Phase, TypeOK, Host
  <2>4. LoopInv' /\ CurrentInv'
    BY <2>1, <2>2, <2>3 DEF LoopInv, CurrentInv
  <2>5. FlagsInv' /\ ClientInv' /\ QueueInv'
    <3>1. CASE /\ lease' = [lease EXCEPT ![l].accepting = ~lease[l].revoked]
               /\ UNCHANGED <<client, events>>
      <4>1. lease' = [lease EXCEPT ![l] = [lease[l] EXCEPT !.accepting = ~lease[l].revoked]]
        BY <3>1
      <4>2. /\ lease'[l].known = lease[l].known /\ lease'[l].acknowledged = lease[l].acknowledged
            /\ lease'[l].revoked = lease[l].revoked /\ lease'[l].accepting = ~lease[l].revoked
            /\ \A k \in Leases : k # l => lease'[k] = lease[k]
        BY <2>2, <4>1 DEF TypeOK, HostLease
      <4>. HIDE DEF l
      <4>3. \A k \in Leases :
              /\ lease'[k].known = lease[k].known /\ lease'[k].acknowledged = lease[k].acknowledged
              /\ lease'[k].revoked = lease[k].revoked
        BY <4>2
      <4>4. FlagsInv'
        BY <2>2, <4>2 DEF HostInv, FlagsInv
      <4>5. ClientInv'
        BY <3>1, <4>3 DEF HostInv, ClientInv, TypeOK, HostClient
      <4>6. QueueInv'
        <5>1. \A i \in 1..Len(events) :
                /\ events[i].kind = "call" => events[i].client \in Clients
                /\ events[i].kind # "call" => events[i].lease \in Leases
          BY EventFacts
        <5>. QED
          BY <3>1, <4>3, <5>1, QueueStays DEF HostInv, QueueInv
      <4>. QED
        BY <4>4, <4>5, <4>6
    <3>2. CASE UNCHANGED <<lease, client, events>>
      BY <3>2 DEF HostInv, FlagsInv, ClientInv, QueueInv
    <3>3. CASE ~lease[l].revoked /\ HostRevoke(l)
      <4>. HIDE DEF l
      <4>. QED
        BY <2>2, <3>3, RevokeHost
    <3>. QED
      BY <1>3, <3>1, <3>2, <3>3 DEF EndBind
  <2>. QED
    BY <2>4, <2>5 DEF HostInv
<1>4. CASE Acknowledge
  <2>. DEFINE l == Head(events).lease
  <2>1. /\ host.phase = "loop" /\ events # <<>> /\ Head(events).kind = "revoke"
        /\ events' = Tail(events) /\ UNCHANGED <<client, current>> /\ held' = None
        /\ lease' = [lease EXCEPT ![l] = [lease[l] EXCEPT !.acknowledged = TRUE]]
    BY <1>4 DEF Acknowledge, Pop, AtTop
  <2>2. l \in Leases /\ lease[l].known /\ lease[l].revoked
    BY <2>1, Popping, EventFacts DEF HostInv, QueueInv
  <2>3. /\ lease'[l].known = lease[l].known /\ lease'[l].acknowledged
        /\ lease'[l].revoked = lease[l].revoked /\ lease'[l].accepting = lease[l].accepting
        /\ \A k \in Leases : k # l => lease'[k] = lease[k]
    BY <2>1, <2>2 DEF TypeOK, HostLease
  <2>4. QueueInv'
    BY <2>1, <2>3, QueueShrinks DEF HostInv
  <2>. HIDE DEF l
  <2>5. current' = None /\ host'.phase = "tail"
    BY <1>4, <2>1, NothingRuns, PhaseTyped DEF Acknowledge, Phase
  <2>6. LoopInv' /\ CurrentInv'
    BY <2>1, <2>5 DEF LoopInv, CurrentInv
  <2>7. FlagsInv'
    BY <2>2, <2>3 DEF HostInv, FlagsInv
  <2>8. ClientInv'
    <3>1. \A k \in Leases : lease'[k].known = lease[k].known /\ lease'[k].revoked = lease[k].revoked
      BY <2>3
    <3>. QED
      BY <2>1, <3>1 DEF HostInv, ClientInv, TypeOK, HostClient
  <2>. QED
    BY <2>4, <2>6, <2>7, <2>8 DEF HostInv
<1>5. CASE HostCollect
  <2>1. host.phase \notin {"call", "bind"} /\ UNCHANGED <<events, current>>
    BY <1>5 DEF HostCollect, EndOfTurn
  <2>2. \A c \in Clients : client'[c] = IF Collectable(c) THEN NoClient ELSE client[c]
    BY <1>5 DEF HostCollect
  <2>3. \A k \in Leases : lease'[k] = IF Freeable(k) THEN NoLease ELSE lease[k]
    BY <1>5 DEF HostCollect
  <2>4. host'.phase \in {"loop", "down"}
    <3>1. host' = [host EXCEPT !.phase = "loop"] \/ host' = [host EXCEPT !.phase = "down"]
      BY <1>5 DEF HostCollect
    <3>. QED
      BY <3>1 DEF TypeOK, Host
  <2>5. current' = None /\ held' = None
    BY <1>5, <2>1, NothingRuns DEF HostCollect
  <2>6. LoopInv' /\ CurrentInv'
    BY <2>4, <2>5 DEF LoopInv, CurrentInv
  <2>7. FlagsInv'
    BY <2>3, Values DEF HostInv, FlagsInv
  <2>8. ClientInv'
    <3>1. ASSUME NEW c \in Clients, ~Collectable(c), client[c].lease # None
          PROVE  client[c].lease \in Leases /\ lease'[client[c].lease] = lease[client[c].lease]
      <4>1. client[c].lease \in Leases
        BY <3>1 DEF TypeOK, HostClient
      <4>2. ~Freeable(client[c].lease)
        BY <3>1 DEF Freeable, ClientsOf
      <4>. QED
        BY <2>3, <4>1, <4>2
    <3>. QED
      BY <2>2, <3>1, Values DEF HostInv, ClientInv
  <2>9. QueueInv'
    <3>1. ASSUME NEW i \in 1..Len(events), events[i].kind = "call"
          PROVE  client'[events[i].client].lease # None
      <4>1. events[i].client \in Clients
        BY <3>1, EventFacts
      <4>2. ~Collectable(events[i].client)
        BY <3>1 DEF Collectable, Pending
      <4>. QED
        BY <2>2, <3>1, <4>1, <4>2 DEF HostInv, QueueInv
    <3>2. ASSUME NEW i \in 1..Len(events), events[i].kind # "call"
          PROVE  lease'[events[i].lease] = lease[events[i].lease]
      <4>1. events[i].lease \in Leases /\ ~lease[events[i].lease].acknowledged
        BY <3>2, EventFacts DEF HostInv, QueueInv
      <4>. QED
        BY <2>3, <4>1 DEF Freeable
    <3>. QED
      BY <2>1, <3>1, <3>2, QueueStays DEF HostInv
  <2>. QED
    BY <2>6, <2>7, <2>8, <2>9 DEF HostInv
<1>6. CASE Input
  <2>1. host.phase = "call" /\ held' \in {None, client[current.client].lease}
        /\ UNCHANGED <<host, lease, client, events, current>>
    BY <1>6 DEF Input
  <2>. QED
    BY <2>1 DEF HostInv, LoopInv, CurrentInv, FlagsInv, ClientInv, QueueInv
<1>7. CASE EndCall
  <2>1. held' = None /\ current' = None /\ UNCHANGED <<lease, client, events>>
        /\ host'.phase = "tail"
    BY <1>7, PhaseTyped DEF EndCall, Phase
  <2>. QED
    BY <2>1 DEF HostInv, LoopInv, CurrentInv, FlagsInv, ClientInv, QueueInv
<1>8. ASSUME NEW l \in Leases, IdleRevoke(l)
      PROVE  HostInv'
  <2>1. HostRevoke(l) /\ lease[l].known /\ ~lease[l].revoked /\ UNCHANGED <<host, current, held>>
    BY <1>8 DEF IdleRevoke, Idle
  <2>2. /\ FlagsInv' /\ ClientInv' /\ QueueInv'
        /\ \A c \in Clients : client'[c].lease = client[c].lease
        /\ \A k \in Leases : /\ lease'[k].known = lease[k].known
                             /\ lease'[k].acknowledged = lease[k].acknowledged
    BY <2>1, RevokeHost
  <2>3. LoopInv' /\ CurrentInv'
    BY <2>1, <2>2, LoopStays
  <2>. QED
    BY <2>2, <2>3 DEF HostInv
<1>. QED
  BY <1>1, <1>2, <1>3, <1>4, <1>5, <1>6, <1>7, <1>8 DEF Turn

LEMMA ProcessHost ==
    ASSUME TypeOK, HostInv, HostStops \/ HostCrashes \/ SessionEnds \/ HostStarts \/ Upgrade
    PROVE  HostInv'
<1>1. CASE Down
  <2>1. /\ host'.phase = "down" /\ current' = None /\ held' = None /\ events' = <<>>
        /\ lease' = [l \in Leases |-> NoLease]
        /\ \A c \in Clients : client'[c] = IF client[c].state = "waiting" THEN client[c] ELSE NoClient
    BY <1>1 DEF Down, TypeOK, Host
  <2>2. LoopInv' /\ CurrentInv'
    BY <2>1 DEF LoopInv, CurrentInv
  <2>3. FlagsInv'
    BY <2>1, Values DEF FlagsInv
  <2>4. ClientInv'
    BY <2>1, Values DEF HostInv, ClientInv
  <2>5. QueueInv'
    <3>1. Len(events') = 0
      BY <2>1
    <3>. QED
      BY <3>1 DEF QueueInv
  <2>. QED
    BY <2>2, <2>3, <2>4, <2>5 DEF HostInv
<1>2. CASE SessionEnds
  <2>1. host'.phase = host.phase
    BY <1>2 DEF SessionEnds, TypeOK, Host
  <2>. QED
    BY <1>2, <2>1, StillHost DEF SessionEnds
<1>3. CASE HostStarts
  <2>1. host.phase = "down" /\ host'.phase = "loop" /\ UNCHANGED <<lease, client, events, current, held>>
    BY <1>3 DEF HostStarts
  <2>2. current = None /\ held = None
    BY <2>1, NothingRuns
  <2>. QED
    BY <2>1, <2>2 DEF HostInv, LoopInv, CurrentInv, FlagsInv, ClientInv, QueueInv
<1>4. CASE Upgrade
  BY <1>4, StillHost DEF Upgrade, hostVars
<1>. QED
  BY <1>1, <1>2, <1>3, <1>4 DEF HostStops, HostCrashes

\* A controller only stops the unit, which ends the loop later.
LEMMA ControllerHost ==
    ASSUME TypeOK, HostInv, NEW s \in Spaces,
           \/ Controller(s) \/ ActivateTimesOut(s) \/ ReleaseTimesOut(s) \/ Close(s) \/ Open(s)
    PROVE  /\ HostInv' /\ host'.phase = host.phase
           /\ UNCHANGED <<lease, client, events, current, held>>
<1>1. StopUnit.phase = host.phase
  BY DEF StopUnit, TypeOK, Host
<1>2. host' = host \/ host' = StopUnit
  BY DEF Controller, Alive, ActivateReply, Raises, ReleaseReply, StopDone, Reconnect,
         ActivateTimesOut, ReleaseTimesOut, Close, Open, hostVars
<1>3. UNCHANGED <<lease, client, events, current, held>>
  BY DEF Controller, Alive, ActivateReply, Raises, ReleaseReply, StopDone, Reconnect,
         ActivateTimesOut, ReleaseTimesOut, Close, Open, hostVars
<1>. QED
  BY <1>1, <1>2, <1>3, StillHost

-----------------------------------------------------------------------------
(* Every step keeps what holds between the host and the controllers.        *)

\* The registrations that are queued after the step were queued before it.
Inherited(d) ==
    \A i \in 1..Len(events') : events'[i].kind = "register" =>
        i + d \in 1..Len(events) /\ events[i + d] = events'[i]

\* A step on connection l that starts no registration and answers none: an
\* end is closed, the host accepts it, or acknowledges its revocation.
PeerStep(l) ==
    /\ lease'[l].known =>
         /\ ~conn'[l].hup /\ conn'[l].space # None
         /\ \/ /\ lease[l].known /\ (lease[l].acknowledged => lease'[l].acknowledged)
               /\ lease'[l].registered = lease[l].registered
            \/ ~lease[l].known /\ conn'[l].out = <<>>
    /\ conn'[l].pending => /\ ~lease'[l].known /\ conn'[l].out = <<>>
                           /\ ~conn'[l].hup /\ conn'[l].space # None
    /\ conn'[l].unread = "payload" => ~lease'[l].registered
    /\ conn'[l].unread = "payload" => conn[l].unread = "payload" \/ conn'[l].out = <<>>
    /\ \A i \in 1..Len(conn'[l].out) :
         \/ \E j \in 1..Len(conn[l].out) : conn'[l].out[i] = conn[l].out[j]
         \/ ~conn'[l].out[i].ready /\ lease'[l].acknowledged

LEMMA EmptyRange == \A i \in 1..Len(<<>>) : FALSE
OBVIOUS

LEMMA PeerStays ==
    ASSUME TypeOK, HostInv, ConnInv, TokenInv, HostInv', TypeOK',
           NEW d \in {0, 1}, Inherited(d), \A l \in Leases : PeerStep(l),
           host'.phase = "bind" => host.phase = "bind" /\ current' = current
    PROVE  /\ ConnInv' /\ TokenInv'
           /\ \A l \in Leases : /\ NoReady(l) => NoReady(l)'
                                /\ NotQueued(l) => NotQueued(l)'
                                /\ NotBinding(l) => NotBinding(l)'
<1>1. ASSUME NEW l \in Leases, NoReady(l)
      PROVE  NoReady(l)'
  BY <1>1 DEF NoReady, PeerStep
<1>2. ASSUME NEW l \in Leases, NotQueued(l)
      PROVE  NotQueued(l)'
  <2>1. SUFFICES ASSUME NEW i \in 1..Len(events'), events'[i].kind = "register"
                 PROVE  events'[i].lease # l
    BY DEF NotQueued
  <2>2. i + d \in 1..Len(events) /\ events[i + d] = events'[i]
    BY <2>1 DEF Inherited
  <2>. QED
    BY <1>2, <2>1, <2>2 DEF NotQueued
<1>3. ASSUME NEW l \in Leases, NotBinding(l)
      PROVE  NotBinding(l)'
  BY <1>3 DEF NotBinding
<1>4. ConnInv'
  <2>1. ASSUME NEW l \in Leases, NEW i \in 1..Len(conn'[l].out), lease'[l].known,
               ~conn'[l].out[i].ready
        PROVE  lease'[l].acknowledged
    <3>1. CASE lease[l].known /\ (lease[l].acknowledged => lease'[l].acknowledged)
      <4>1. CASE \E j \in 1..Len(conn[l].out) : conn'[l].out[i] = conn[l].out[j]
        BY <2>1, <3>1, <4>1 DEF ConnInv
      <4>2. CASE lease'[l].acknowledged
        BY <4>2
      <4>. QED
        BY <2>1, <4>1, <4>2 DEF PeerStep
    <3>2. CASE conn'[l].out = <<>>
      BY <2>1, <3>2, EmptyRange
    <3>. QED
      BY <2>1, <3>1, <3>2 DEF PeerStep
  <2>2. ASSUME NEW l \in Leases
        PROVE  /\ conn'[l].pending => /\ ~lease'[l].known /\ conn'[l].out = <<>>
                                      /\ ~conn'[l].hup /\ conn'[l].space # None
               /\ lease'[l].known => ~conn'[l].hup /\ conn'[l].space # None
    BY DEF PeerStep
  <2>. QED
    BY <2>1, <2>2 DEF ConnInv
<1>5. ASSUME NEW l \in Leases, conn'[l].unread = "payload"
      PROVE  ~lease'[l].registered /\ NoReady(l)'
  <2>1. CASE conn[l].unread = "payload"
    BY <1>1, <1>5, <2>1 DEF TokenInv, PeerStep
  <2>2. CASE conn'[l].out = <<>>
    BY <1>5, <2>2, EmptyRange DEF PeerStep, NoReady
  <2>. QED
    BY <1>5, <2>1, <2>2 DEF PeerStep
<1>6. ASSUME NEW l \in Leases, lease[l].known, lease'[l].known
      PROVE  lease'[l].registered = lease[l].registered
  BY <1>6 DEF PeerStep
<1>7. ASSUME NEW i \in 1..Len(events'), events'[i].kind = "register"
      PROVE  /\ \E l \in Leases : /\ l = events'[i].lease
                                  /\ lease'[l].registered /\ NoReady(l)' /\ NotBinding(l)'
             /\ \A j \in 1..Len(events') :
                  j # i /\ events'[j].kind = "register" => events'[j].lease # events'[i].lease
  <2>1. i + d \in 1..Len(events) /\ events[i + d] = events'[i]
    BY <1>7 DEF Inherited
  <2>2. PICK l \in Leases : l = events[i + d].lease
    BY <1>7, <2>1, EventFacts
  <2>3. lease[l].known /\ lease'[l].known
    <3>1. lease[l].known
      BY <1>7, <2>1, <2>2 DEF HostInv, QueueInv
    <3>2. lease'[l].known
      BY <1>7, <2>1, <2>2 DEF HostInv, QueueInv
    <3>. QED
      BY <3>1, <3>2
  <2>4. lease[l].registered /\ NoReady(l) /\ NotBinding(l)
    BY <1>7, <2>1, <2>2 DEF TokenInv, NoReady, NotBinding
  <2>5. ASSUME NEW j \in 1..Len(events'), j # i, events'[j].kind = "register"
        PROVE  events'[j].lease # l
    <3>1. j + d \in 1..Len(events) /\ events[j + d] = events'[j]
      BY <2>5 DEF Inherited
    <3>2. j + d # i + d
      BY <2>5
    <3>. QED
      BY <1>7, <2>1, <2>2, <2>5, <3>1, <3>2 DEF TokenInv
  <2>6. lease'[l].registered /\ NoReady(l)' /\ NotBinding(l)'
    BY <1>1, <1>3, <1>6, <2>3, <2>4
  <2>. QED
    BY <2>1, <2>2, <2>5, <2>6
<1>8. ASSUME host'.phase = "bind"
      PROVE  \E l \in Leases : l = current'.lease /\ lease'[l].registered /\ NoReady(l)'
  <2>1. host.phase = "bind" /\ current' = current
    BY <1>8
  <2>2. PICK l \in Leases : l = current.lease
    BY <2>1, EventFacts DEF HostInv, LoopInv
  <2>3. lease[l].known /\ lease'[l].known
    BY <1>8, <2>1, <2>2 DEF HostInv, CurrentInv
  <2>4. lease[l].registered /\ NoReady(l)
    BY <2>1, <2>2 DEF TokenInv, NoReady
  <2>5. lease'[l].registered /\ NoReady(l)'
    BY <1>1, <1>6, <2>3, <2>4
  <2>. QED
    BY <2>1, <2>2, <2>5
<1>9. TokenInv'
  BY <1>5, <1>7, <1>8 DEF TokenInv, NoReady, NotBinding
<1>. QED
  BY <1>1, <1>2, <1>3, <1>4, <1>9

\* Where a step leaves the queue, or puts nothing but a call or a revocation
\* in it, or takes its head.
LEMMA Inherits ==
    ASSUME TypeOK
    PROVE  /\ events' = events => Inherited(0)
           /\ events' = <<>> => Inherited(0)
           /\ \A e \in Event : e.kind # "register" /\ events' = Append(events, e) => Inherited(0)
           /\ events # <<>> /\ events' = Tail(events) => Inherited(1)
<1>1. \A i \in 1..Len(events) : i + 0 = i
  BY DEF TypeOK
<1>2. events' = events => Inherited(0)
  BY <1>1 DEF Inherited
<1>3. events' = <<>> => Inherited(0)
  BY EmptyRange DEF Inherited
<1>4. ASSUME NEW e \in Event, e.kind # "register", events' = Append(events, e)
      PROVE  Inherited(0)
  <2>1. SUFFICES ASSUME NEW i \in 1..(Len(events) + 1), events'[i].kind = "register"
                 PROVE  i + 0 \in 1..Len(events) /\ events[i + 0] = events'[i]
    BY <1>4, Queueing DEF Inherited
  <2>2. i # Len(events) + 1
    BY <1>4, <2>1, Queueing
  <2>3. i \in 1..Len(events) /\ i + 0 = i
    BY <2>2, Queueing, <1>4
  <2>. QED
    BY <1>4, <2>3, Queueing
<1>5. events # <<>> /\ events' = Tail(events) => Inherited(1)
  BY Popping DEF Inherited
<1>. QED
  BY <1>2, <1>3, <1>4, <1>5

\* A controller keeps what it has while the host leaves its connection to it.
LEMMA CtlStays ==
    ASSUME TypeOK, CtlInv, ctl' = ctl,
           \A l \in Leases :
             /\ ~conn[l].closed => conn'[l].space = conn[l].space /\ ~conn'[l].closed
             /\ conn'[l].pending => conn[l].pending
             /\ conn'[l].unread = "payload" => conn[l].unread = "payload",
           \A l \in Leases : NoReady(l) /\ NotQueued(l) /\ NotBinding(l) =>
                               NoReady(l)' /\ NotQueued(l)' /\ NotBinding(l)'
    PROVE  CtlInv'
<1>1. ASSUME NEW s \in Spaces, NEW l \in Leases, ctl[s].lease = l
      PROVE  /\ conn'[l].space = s /\ ~conn'[l].closed
             /\ ctl[s].pc \in {"idle", "releasing", "stopping"} =>
                  /\ ~conn'[l].pending /\ conn'[l].unread # "payload"
                  /\ NoReady(l)' /\ NotQueued(l)' /\ NotBinding(l)'
  <2>1. l # None
    BY NoneAssumption
  <2>2. /\ conn[l].space = s /\ ~conn[l].closed
        /\ ctl[s].pc \in {"idle", "releasing", "stopping"} =>
             /\ ~conn[l].pending /\ conn[l].unread # "payload"
             /\ NoReady(l) /\ NotQueued(l) /\ NotBinding(l)
    BY <1>1, <2>1 DEF CtlInv, NoReady, NotQueued, NotBinding
  <2>. QED
    BY <2>2
<1>2. \A s \in Spaces : ctl[s].lease # None => ctl[s].lease \in Leases
  BY DEF TypeOK, ComputerLease
<1>3. \A s \in Spaces :
        /\ ctl[s].pc \in {"activating", "raising", "releasing", "stopping"} => ctl[s].lease # None
        /\ ctl[s].pc = "restarting" => ctl[s].attempt = 0
  BY DEF CtlInv
<1>. QED
  BY <1>1, <1>2, <1>3 DEF CtlInv, NoReady, NotQueued, NotBinding

\* A step of the host by which nothing goes over a control connection.
LEMMA QuietPeer ==
    ASSUME TypeOK, HostInv, PeerInv, TypeOK', HostInv', UNCHANGED <<conn, ctl>>,
           NEW d \in {0, 1}, Inherited(d),
           \A l \in Leases : /\ lease'[l].known = lease[l].known
                             /\ lease'[l].registered = lease[l].registered
                             /\ lease'[l].acknowledged = lease[l].acknowledged,
           host'.phase = "bind" => host.phase = "bind" /\ current' = current
    PROVE  PeerInv'
<1>1. ASSUME NEW l \in Leases
      PROVE  PeerStep(l)
  BY DEF PeerStep, PeerInv, ConnInv, TokenInv
<1>2. /\ ConnInv' /\ TokenInv'
      /\ \A l \in Leases : NoReady(l) /\ NotQueued(l) /\ NotBinding(l) =>
                             NoReady(l)' /\ NotQueued(l)' /\ NotBinding(l)'
  BY <1>1, PeerStays DEF PeerInv
<1>3. CtlInv'
  BY <1>2, CtlStays DEF PeerInv
<1>. QED
  BY <1>2, <1>3 DEF PeerInv

LEMMA GuestPeer ==
    ASSUME TypeOK, HostInv, PeerInv, TypeOK', HostInv',
           Guest \/ \E s \in Spaces : ListenerGone(s)
    PROVE  PeerInv'
<1>1. UNCHANGED <<host, lease, current, conn, ctl>>
  BY DEF Guest, GuestConnects, HostLine, HostHangup, HostCancel, ListenerGone
<1>2. Inherited(0)
  <2>1. CASE events' = events
    BY <2>1, Inherits
  <2>2. ASSUME NEW c \in Clients, HostLine(c), Len(events) < MaxPending
        PROVE  Inherited(0)
    <3>1. client[c].sent + 1 \in Ids
      BY <2>2, BoundAssumption DEF HostLine, TypeOK, HostClient, Ids
    <3>. DEFINE e == [kind |-> "call", client |-> c, id |-> client[c].sent + 1]
    <3>2. e \in Event /\ e.kind # "register" /\ events' = Append(events, e)
      BY <2>2, <3>1, EventFacts DEF HostLine
    <3>. HIDE DEF e
    <3>. QED
      BY <3>2, Inherits
  <2>. QED
    BY <2>1, <2>2 DEF Guest, GuestConnects, HostLine, HostHangup, HostCancel, ListenerGone
<1>. QED
  BY <1>1, <1>2, QuietPeer

\* host_revoke touches no control connection.
LEMMA RevokePeer ==
    ASSUME TypeOK, NEW l \in Leases, HostRevoke(l)
    PROVE  /\ Inherited(0)
           /\ \A k \in Leases : /\ lease'[k].known = lease[k].known
                                /\ lease'[k].registered = lease[k].registered
                                /\ lease'[k].acknowledged = lease[k].acknowledged
<1>1. \A k \in Leases : /\ lease'[k].known = lease[k].known
                        /\ lease'[k].registered = lease[k].registered
                        /\ lease'[k].acknowledged = lease[k].acknowledged
  BY Revokes
<1>. DEFINE e == [kind |-> "revoke", lease |-> l]
<1>2. e \in Event /\ e.kind # "register" /\ events' = Append(events, e)
  BY Revokes, EventFacts
<1>. HIDE DEF e
<1>. QED
  BY <1>1, <1>2, Inherits

LEMMA CallbackPeer ==
    ASSUME TypeOK, HostInv, PeerInv, TypeOK', HostInv', Callback
    PROVE  PeerInv'
<1>1. ASSUME NEW l \in Leases, HostControlAccept(l)
      PROVE  PeerInv'
  <2>1. UNCHANGED <<host, events, current, ctl>> /\ conn[l].pending
    BY <1>1 DEF HostControlAccept
  <2>2. ~lease[l].known /\ conn[l].out = <<>> /\ ~conn[l].hup /\ conn[l].space # None
    BY <2>1 DEF PeerInv, ConnInv
  <2>3. conn[l] \in Control /\ lease[l] = NoLease
    BY <2>2 DEF TypeOK, HostInv, FlagsInv
  <2>4. \A k \in Leases : k # l => conn'[k] = conn[k] /\ lease'[k] = lease[k]
    BY <1>1 DEF HostControlAccept, TypeOK
  <2>5. /\ ~conn'[l].pending /\ conn'[l].out = <<>>
        /\ conn'[l].unread = "payload" => conn[l].unread = "payload"
        /\ ~conn[l].closed => conn'[l].space = conn[l].space /\ ~conn'[l].closed
        /\ lease'[l].known => ~conn'[l].hup /\ conn'[l].space # None
        /\ ~lease'[l].registered
    <3>1. CASE conn' = [conn EXCEPT ![l] = HostClose(l)] /\ lease' = lease
      <4>1. conn'[l] = HostClose(l)
        BY <3>1 DEF TypeOK
      <4>2. HostClose(l).out = <<>>
        BY <2>2, HostCloseFacts, Values
      <4>. QED
        BY <2>2, <2>3, <3>1, <4>1, <4>2, HostCloseFacts, Values
    <3>2. CASE /\ conn' = [conn EXCEPT ![l] = [conn[l] EXCEPT !.pending = FALSE]]
               /\ lease' = [lease EXCEPT ![l] = [NoLease EXCEPT !.known = TRUE]]
      <4>1. conn'[l] = [conn[l] EXCEPT !.pending = FALSE]
        BY <3>2 DEF TypeOK
      <4>2. lease'[l].registered = FALSE
        BY <3>2 DEF TypeOK, NoLease
      <4>. QED
        BY <2>2, <2>3, <4>1, <4>2 DEF Control
    <3>. QED
      BY <1>1, <3>1, <3>2 DEF HostControlAccept
  <2>6. ASSUME NEW k \in Leases
        PROVE  PeerStep(k)
    <3>1. CASE k = l
      BY <2>2, <2>5, <3>1, EmptyRange DEF PeerStep
    <3>2. CASE k # l
      BY <2>4, <3>2 DEF PeerStep, PeerInv, ConnInv, TokenInv
    <3>. QED
      BY <3>1, <3>2
  <2>7. /\ ConnInv' /\ TokenInv'
        /\ \A k \in Leases : NoReady(k) /\ NotQueued(k) /\ NotBinding(k) =>
                               NoReady(k)' /\ NotQueued(k)' /\ NotBinding(k)'
    BY <2>1, <2>6, PeerStays, Inherits DEF PeerInv
  <2>8. CtlInv'
    BY <2>1, <2>4, <2>5, <2>7, CtlStays DEF PeerInv
  <2>. QED
    BY <2>7, <2>8 DEF PeerInv
<1>2. ASSUME NEW l \in Leases, HostControlRead(l), conn[l].unread # "payload"
      PROVE  PeerInv'
  <2>1. HostRevoke(l) /\ UNCHANGED <<host, current, ctl>>
        /\ conn' = [conn EXCEPT ![l] = [conn[l] EXCEPT !.unread = "none"]]
    BY <1>2 DEF HostControlRead
  <2>2. conn[l] \in Control
    BY DEF TypeOK
  <2>3. \A k \in Leases :
          /\ conn'[k].space = conn[k].space /\ conn'[k].pending = conn[k].pending
          /\ conn'[k].closed = conn[k].closed /\ conn'[k].hup = conn[k].hup
          /\ conn'[k].out = conn[k].out
          /\ conn'[k].unread = "payload" => conn[k].unread = "payload"
    BY <2>1, <2>2 DEF Control, TypeOK
  <2>4. ASSUME NEW k \in Leases
        PROVE  PeerStep(k)
    BY <2>1, <2>3, RevokePeer DEF PeerStep, PeerInv, ConnInv, TokenInv
  <2>5. Inherited(0)
    BY <2>1, RevokePeer
  <2>6. /\ ConnInv' /\ TokenInv'
        /\ \A k \in Leases : NoReady(k) /\ NotQueued(k) /\ NotBinding(k) =>
                               NoReady(k)' /\ NotQueued(k)' /\ NotBinding(k)'
    BY <2>1, <2>4, <2>5, PeerStays DEF PeerInv
  <2>7. CtlInv'
    BY <2>1, <2>3, <2>6, CtlStays DEF PeerInv
  <2>. QED
    BY <2>6, <2>7 DEF PeerInv
<1>3. ASSUME NEW l \in Leases, HostControlRead(l), conn[l].unread = "payload"
      PROVE  PeerInv'
  <2>. DEFINE e == [kind |-> "register", lease |-> l]
  <2>1. /\ UNCHANGED <<host, current, ctl>> /\ events' = Append(events, e) /\ lease[l].known
        /\ conn' = [conn EXCEPT ![l] = [conn[l] EXCEPT !.unread = "none"]]
        /\ lease' = [lease EXCEPT ![l] = [lease[l] EXCEPT !.registered = TRUE]]
    BY <1>3 DEF HostControlRead, ControlReady
  <2>2. conn[l] \in Control /\ lease[l] \in HostLease
    BY DEF TypeOK
  <2>3. \A k \in Leases :
          /\ conn'[k].space = conn[k].space /\ conn'[k].pending = conn[k].pending
          /\ conn'[k].closed = conn[k].closed /\ conn'[k].hup = conn[k].hup
          /\ conn'[k].out = conn[k].out
          /\ conn'[k].unread = "payload" => conn[k].unread = "payload" /\ k # l
    BY <2>1, <2>2 DEF Control, TypeOK
  <2>4. \A k \in Leases :
          /\ lease'[k].known = lease[k].known /\ lease'[k].acknowledged = lease[k].acknowledged
          /\ lease'[k].registered = (lease[k].registered \/ k = l)
    BY <2>1, <2>2 DEF HostLease, TypeOK
  <2>5. ~lease[l].registered /\ NoReady(l)
    BY <1>3 DEF PeerInv, TokenInv
  <2>6. NotBinding(l) /\ NotQueued(l)
    BY <2>5 DEF PeerInv, TokenInv, NotBinding, NotQueued
  <2>7. e \in Event /\ e.kind = "register" /\ e.lease = l
    BY EventFacts
  <2>8. /\ Len(events') = Len(events) + 1 /\ Len(events) \in Nat
        /\ \A i \in 1..Len(events) : events'[i] = events[i]
        /\ events'[Len(events) + 1] = e
    BY <2>1, <2>7, Queueing
  <2>9. \A i \in 1..Len(events) : events[i].kind # "call" => events[i].lease \in Leases
    BY EventFacts
  <2>. HIDE DEF e
  <2>10. ConnInv'
    BY <2>3, <2>4 DEF PeerInv, ConnInv
  <2>11. \A k \in Leases : /\ NoReady(k) => NoReady(k)'
                           /\ NotBinding(k) => NotBinding(k)'
    BY <2>1, <2>3 DEF NoReady, NotBinding
  <2>12. \A k \in Leases : k # l /\ NotQueued(k) => NotQueued(k)'
    <3>1. ASSUME NEW k \in Leases, k # l, NotQueued(k), NEW i \in 1..(Len(events) + 1),
                 events'[i].kind = "register"
          PROVE  events'[i].lease # k
      <4>1. CASE i = Len(events) + 1
        BY <2>7, <2>8, <3>1, <4>1
      <4>2. CASE i # Len(events) + 1
        <5>1. i \in 1..Len(events)
          BY <2>8, <4>2
        <5>. QED
          BY <2>8, <3>1, <5>1 DEF NotQueued
      <4>. QED
        BY <4>1, <4>2
    <3>. QED
      BY <2>8, <3>1 DEF NotQueued
  <2>13. TokenInv'
    <3>1. ASSUME NEW k \in Leases, conn'[k].unread = "payload"
          PROVE  ~lease'[k].registered /\ NoReady(k)'
      BY <2>3, <2>4, <2>11, <3>1 DEF PeerInv, TokenInv
    <3>2. ASSUME NEW i \in 1..(Len(events) + 1), events'[i].kind = "register"
          PROVE  /\ \E k \in Leases : /\ k = events'[i].lease
                                      /\ lease'[k].registered /\ NoReady(k)' /\ NotBinding(k)'
                 /\ \A j \in 1..(Len(events) + 1) :
                      j # i /\ events'[j].kind = "register" => events'[j].lease # events'[i].lease
      <4>1. CASE i = Len(events) + 1
        <5>1. lease'[l].registered /\ NoReady(l)' /\ NotBinding(l)'
          BY <2>4, <2>5, <2>6, <2>11
        <5>2. \A j \in 1..(Len(events) + 1) : j # i => j \in 1..Len(events)
          BY <2>8, <4>1
        <5>. QED
          BY <2>6, <2>7, <2>8, <4>1, <5>1, <5>2 DEF NotQueued
      <4>2. CASE i # Len(events) + 1
        <5>1. i \in 1..Len(events) /\ events'[i] = events[i]
          BY <2>8, <4>2
        <5>2. PICK k \in Leases : k = events[i].lease
          BY <2>9, <3>2, <5>1
        <5>3. lease[k].registered /\ NoReady(k) /\ NotBinding(k) /\ k # l
          BY <2>5, <3>2, <5>1, <5>2 DEF PeerInv, TokenInv, NoReady, NotBinding
        <5>4. lease'[k].registered /\ NoReady(k)' /\ NotBinding(k)'
          BY <2>4, <2>11, <5>3
        <5>5. ASSUME NEW j \in 1..(Len(events) + 1), j # i, events'[j].kind = "register"
              PROVE  events'[j].lease # k
          <6>1. CASE j = Len(events) + 1
            BY <2>7, <2>8, <5>3, <6>1
          <6>2. CASE j # Len(events) + 1
            <7>1. j \in 1..Len(events) /\ events'[j] = events[j]
              BY <2>8, <6>2
            <7>. QED
              BY <3>2, <5>1, <5>2, <5>5, <7>1 DEF PeerInv, TokenInv
          <6>. QED
            BY <6>1, <6>2
        <5>. QED
          BY <5>1, <5>2, <5>4, <5>5
      <4>. QED
        BY <4>1, <4>2
    <3>3. ASSUME host'.phase = "bind"
          PROVE  \E k \in Leases : k = current'.lease /\ lease'[k].registered /\ NoReady(k)'
      <4>1. PICK k \in Leases : k = current.lease
        BY <2>1, <3>3, EventFacts DEF HostInv, LoopInv
      <4>2. lease[k].registered /\ NoReady(k)
        BY <2>1, <3>3, <4>1 DEF PeerInv, TokenInv, NoReady
      <4>. QED
        BY <2>1, <2>4, <2>11, <4>1, <4>2
    <3>. QED
      BY <2>8, <3>1, <3>2, <3>3 DEF TokenInv, NoReady, NotBinding
  <2>14. CtlInv'
    <3>1. ASSUME NEW s \in Spaces, NEW k \in Leases, ctl[s].lease = k
          PROVE  /\ conn'[k].space = s /\ ~conn'[k].closed
                 /\ ctl[s].pc \in {"idle", "releasing", "stopping"} =>
                      /\ ~conn'[k].pending /\ conn'[k].unread # "payload"
                      /\ NoReady(k)' /\ NotQueued(k)' /\ NotBinding(k)'
      <4>1. k # None
        BY NoneAssumption
      <4>2. /\ conn[k].space = s /\ ~conn[k].closed
            /\ ctl[s].pc \in {"idle", "releasing", "stopping"} =>
                 /\ ~conn[k].pending /\ conn[k].unread # "payload"
                 /\ NoReady(k) /\ NotQueued(k) /\ NotBinding(k)
        BY <3>1, <4>1 DEF PeerInv, CtlInv, NoReady, NotQueued, NotBinding
      <4>. QED
        BY <1>3, <2>3, <2>11, <2>12, <4>2
    <3>2. \A s \in Spaces : ctl[s].lease # None => ctl[s].lease \in Leases
      BY DEF TypeOK, ComputerLease
    <3>3. \A s \in Spaces :
            /\ ctl[s].pc \in {"activating", "raising", "releasing", "stopping"} => ctl[s].lease # None
            /\ ctl[s].pc = "restarting" => ctl[s].attempt = 0
      BY DEF PeerInv, CtlInv
    <3>. QED
      BY <2>1, <3>1, <3>2, <3>3 DEF CtlInv, NoReady, NotQueued, NotBinding
  <2>. QED
    BY <2>10, <2>13, <2>14 DEF PeerInv
<1>4. ASSUME NEW l \in Leases, NEW c \in Clients, HostAccept(l, c)
      PROVE  PeerInv'
  <2>1. UNCHANGED <<host, events, current, conn, ctl>>
    BY <1>4 DEF HostAccept
  <2>2. lease' = lease \/ lease' = [lease EXCEPT ![l] = [lease[l] EXCEPT !.used = TRUE]]
    BY <1>4 DEF HostAccept
  <2>3. \A k \in Leases : /\ lease'[k].known = lease[k].known
                          /\ lease'[k].registered = lease[k].registered
                          /\ lease'[k].acknowledged = lease[k].acknowledged
    BY <2>2 DEF TypeOK, HostLease
  <2>. QED
    BY <2>1, <2>3, Inherits, QuietPeer
<1>. QED
  BY <1>1, <1>2, <1>3, <1>4 DEF Callback

\* A registration is executed: it is no longer queued.
LEMMA BindPeer ==
    ASSUME TypeOK, HostInv, PeerInv, TypeOK', HostInv', UNCHANGED <<lease, conn, ctl>>,
           events # <<>>, events' = Tail(events), Head(events).kind = "register",
           host'.phase = "bind", current' = Head(events)
    PROVE  PeerInv'
<1>1. /\ Head(events) = events[1] /\ 1 \in 1..Len(events)
      /\ \A i \in 1..Len(events') : /\ i + 1 \in 1..Len(events) /\ i + 1 # 1
                                    /\ events'[i] = events[i + 1]
  BY Popping
<1>2. PICK l \in Leases : l = events[1].lease
  BY <1>1, EventFacts
<1>3. current'.lease = l /\ lease[l].registered /\ NoReady(l)
  BY <1>1, <1>2 DEF PeerInv, TokenInv, NoReady
<1>4. \A k \in Leases : /\ NoReady(k) => NoReady(k)'
                        /\ NotQueued(k) => NotQueued(k)'
                        /\ k # l => NotBinding(k)'
  BY <1>1, <1>3 DEF NoReady, NotQueued, NotBinding
<1>5. ConnInv'
  BY DEF PeerInv, ConnInv
<1>6. TokenInv'
  <2>1. ASSUME NEW i \in 1..Len(events'), events'[i].kind = "register"
        PROVE  /\ \E k \in Leases : /\ k = events'[i].lease
                                    /\ lease'[k].registered /\ NoReady(k)' /\ NotBinding(k)'
               /\ \A j \in 1..Len(events') :
                    j # i /\ events'[j].kind = "register" => events'[j].lease # events'[i].lease
    <3>1. i + 1 \in 1..Len(events) /\ i + 1 # 1 /\ events'[i] = events[i + 1]
      BY <1>1
    <3>2. PICK k \in Leases : k = events[i + 1].lease
      BY <2>1, <3>1, EventFacts
    <3>3. lease[k].registered /\ NoReady(k) /\ k # l
      BY <1>1, <1>2, <2>1, <3>1, <3>2 DEF PeerInv, TokenInv, NoReady
    <3>4. ASSUME NEW j \in 1..Len(events'), j # i, events'[j].kind = "register"
          PROVE  events'[j].lease # k
      <4>1. j + 1 \in 1..Len(events) /\ j + 1 # i + 1 /\ events'[j] = events[j + 1]
        BY <1>1, <3>4
      <4>. QED
        BY <2>1, <3>1, <3>2, <3>4, <4>1 DEF PeerInv, TokenInv
    <3>. QED
      BY <1>4, <3>1, <3>2, <3>3, <3>4
  <2>2. \A k \in Leases : conn[k].unread = "payload" => ~lease[k].registered /\ NoReady(k)
    BY DEF PeerInv, TokenInv
  <2>. QED
    BY <1>3, <2>1, <2>2 DEF TokenInv, NoReady, NotBinding
<1>7. CtlInv'
  <2>1. \A k \in Leases : NotQueued(k) => k # l
    BY <1>1, <1>2 DEF NotQueued
  <2>. QED
    BY <1>4, <2>1, CtlStays DEF PeerInv
<1>. QED
  BY <1>5, <1>6, <1>7 DEF PeerInv

\* The registration is answered with "ready".
LEMMA ReadyPeer ==
    ASSUME TypeOK, HostInv, PeerInv, TypeOK', HostInv', UNCHANGED <<events, ctl>>,
           NEW l \in Leases, host.phase = "bind", current.lease = l, host'.phase # "bind",
           conn' = [conn EXCEPT ![l] = Send(l, Ready)],
           \A k \in Leases : /\ lease'[k].known = lease[k].known
                             /\ lease'[k].registered = lease[k].registered
                             /\ lease'[k].acknowledged = lease[k].acknowledged
    PROVE  PeerInv'
<1>1. Ready \in Reply /\ Ready.ready
  BY DEF Ready, Reply, TypeOK, Host
<1>2. lease[l].known /\ lease[l].registered /\ ~conn[l].pending /\ conn[l].unread # "payload"
  BY DEF HostInv, CurrentInv, PeerInv, TokenInv, ConnInv
<1>3. \A k \in Leases : k # l => conn'[k] = conn[k]
  BY DEF TypeOK
<1>4. conn'[l] = Send(l, Ready)
  BY DEF TypeOK
<1>5. \A k \in Leases :
        /\ conn'[k].space = conn[k].space /\ conn'[k].pending = conn[k].pending
        /\ conn'[k].closed = conn[k].closed /\ conn'[k].hup = conn[k].hup
        /\ conn'[k].unread = conn[k].unread
  BY <1>1, <1>3, <1>4, SendFacts
<1>6. \A i \in 1..Len(conn'[l].out) :
        \/ i \in 1..Len(conn[l].out) /\ conn'[l].out[i] = conn[l].out[i]
        \/ conn'[l].out[i].ready
  BY <1>1, <1>4, SendFacts
<1>7. \A k \in Leases : /\ k # l /\ NoReady(k) => NoReady(k)'
                        /\ NotQueued(k) => NotQueued(k)'
                        /\ NotBinding(k)'
  BY <1>3 DEF NoReady, NotQueued, NotBinding
<1>8. ConnInv'
  <2>1. ASSUME NEW k \in Leases, NEW i \in 1..Len(conn'[k].out), lease[k].known,
               ~conn'[k].out[i].ready
        PROVE  lease[k].acknowledged
    BY <1>3, <1>6, <2>1 DEF PeerInv, ConnInv
  <2>2. ASSUME NEW k \in Leases, conn[k].pending
        PROVE  ~lease[k].known /\ conn'[k].out = <<>> /\ ~conn[k].hup /\ conn[k].space # None
    BY <1>2, <1>3, <2>2 DEF PeerInv, ConnInv
  <2>3. \A k \in Leases : lease[k].known => ~conn[k].hup /\ conn[k].space # None
    BY DEF PeerInv, ConnInv
  <2>. QED
    BY <1>5, <2>1, <2>2, <2>3 DEF ConnInv
<1>9. TokenInv'
  <2>1. ASSUME NEW k \in Leases, conn'[k].unread = "payload"
        PROVE  ~lease'[k].registered /\ NoReady(k)'
    BY <1>2, <1>5, <1>7, <2>1 DEF PeerInv, TokenInv
  <2>2. ASSUME NEW i \in 1..Len(events), events[i].kind = "register"
        PROVE  \E k \in Leases : /\ k = events[i].lease
                                 /\ lease'[k].registered /\ NoReady(k)' /\ NotBinding(k)'
    <3>1. PICK k \in Leases : k = events[i].lease
      BY <2>2, EventFacts
    <3>2. lease[k].registered /\ NoReady(k) /\ k # l
      BY <2>2, <3>1 DEF PeerInv, TokenInv, NoReady, NotBinding
    <3>. QED
      BY <1>7, <3>1, <3>2
  <2>3. \A i, j \in 1..Len(events) :
          j # i /\ events[i].kind = "register" /\ events[j].kind = "register" =>
            events[j].lease # events[i].lease
    BY DEF PeerInv, TokenInv
  <2>. QED
    BY <2>1, <2>2, <2>3 DEF TokenInv, NoReady, NotBinding
<1>10. CtlInv'
  <2>1. ~NotBinding(l)
    BY DEF NotBinding
  <2>2. \A k \in Leases : NoReady(k) /\ NotQueued(k) /\ NotBinding(k) =>
                            NoReady(k)' /\ NotQueued(k)' /\ NotBinding(k)'
    BY <1>7, <2>1
  <2>. QED
    BY <1>5, <2>2, CtlStays DEF PeerInv
<1>. QED
  BY <1>8, <1>9, <1>10 DEF PeerInv

LEMMA TurnPeer ==
    ASSUME TypeOK, HostInv, PeerInv, TypeOK', HostInv',
           Turn \/ Input \/ EndCall \/ \E l \in Leases : IdleRevoke(l)
    PROVE  PeerInv'
<1>1. CASE StartCall
  <2>1. events # <<>> /\ events' = Tail(events) /\ UNCHANGED <<lease, conn, ctl>>
    BY <1>1 DEF StartCall, Pop
  <2>2. host'.phase # "bind"
    BY <1>1, PhaseTyped DEF StartCall, Phase
  <2>3. Inherited(1)
    BY <2>1, Inherits
  <2>. QED
    BY <2>1, <2>2, <2>3, QuietPeer
<1>2. CASE StartBind
  <2>1. /\ events # <<>> /\ events' = Tail(events) /\ UNCHANGED <<lease, conn, ctl>>
        /\ Head(events).kind = "register"
    BY <1>2 DEF StartBind, Pop
  <2>2. CASE host'.phase = "tail"
    <3>1. Inherited(1)
      BY <2>1, Inherits
    <3>. QED
      BY <2>1, <2>2, <3>1, QuietPeer
  <2>3. CASE current' = Head(events) /\ host'.phase = "bind"
    BY <2>1, <2>3, BindPeer
  <2>. QED
    BY <1>2, <2>2, <2>3, PhaseTyped DEF StartBind, Phase
<1>3. CASE EndBind
  <2>1. host.phase = "bind" /\ ctl' = ctl
    BY <1>3 DEF EndBind
  <2>2. PICK l \in Leases : l = current.lease
    BY <2>1, EventFacts DEF HostInv, LoopInv
  <2>3. host'.phase = "tail"
    <3>1. \/ host' = [host EXCEPT !.phase = "tail", !.once = host.once \/ ~lease[l].revoked]
          \/ Phase("tail")
      BY <1>3, <2>2 DEF EndBind
    <3>. QED
      BY <3>1, PhaseTyped DEF Phase, TypeOK, Host
  <2>4. CASE /\ conn' = [conn EXCEPT ![l] = Send(l, Ready)] /\ events' = events
             /\ lease' = [lease EXCEPT ![l].accepting = ~lease[l].revoked]
    <3>1. \A k \in Leases : /\ lease'[k].known = lease[k].known
                            /\ lease'[k].registered = lease[k].registered
                            /\ lease'[k].acknowledged = lease[k].acknowledged
      <4>1. lease' = [lease EXCEPT ![l] = [lease[l] EXCEPT !.accepting = ~lease[l].revoked]]
        BY <2>4
      <4>. QED
        BY <4>1 DEF TypeOK, HostLease
    <3>. QED
      BY <2>1, <2>2, <2>3, <2>4, <3>1, ReadyPeer
  <2>5. CASE UNCHANGED <<lease, events, conn>>
    BY <2>1, <2>3, <2>5, Inherits, QuietPeer
  <2>6. CASE HostRevoke(l) /\ conn' = conn
    BY <2>1, <2>3, <2>6, RevokePeer, QuietPeer
  <2>. QED
    BY <1>3, <2>2, <2>4, <2>5, <2>6 DEF EndBind
<1>4. CASE Acknowledge
  <2>1. /\ events # <<>> /\ events' = Tail(events) /\ ctl' = ctl /\ Head(events).kind = "revoke"
    BY <1>4 DEF Acknowledge, Pop
  <2>2. PICK l \in Leases : l = Head(events).lease
    BY <2>1, Popping, EventFacts
  <2>3. /\ lease' = [lease EXCEPT ![l] = [lease[l] EXCEPT !.acknowledged = TRUE]]
        /\ conn' = [conn EXCEPT ![l] = Send(l, ReleasedReply)]
    BY <1>4, <2>2 DEF Acknowledge
  <2>4. lease[l].known /\ ~conn[l].pending
    BY <2>1, <2>2, Popping DEF HostInv, QueueInv, PeerInv, ConnInv
  <2>5. ReleasedReply \in Reply /\ ~ReleasedReply.ready
    BY DEF ReleasedReply, Reply
  <2>6. lease[l] \in HostLease /\ conn'[l] = Send(l, ReleasedReply)
    BY <2>3 DEF TypeOK
  <2>7. /\ lease'[l].known = lease[l].known /\ lease'[l].acknowledged
        /\ lease'[l].registered = lease[l].registered
    BY <2>3, <2>6 DEF TypeOK, HostLease
  <2>8. \A k \in Leases : k # l => conn'[k] = conn[k] /\ lease'[k] = lease[k]
    BY <2>3 DEF TypeOK
  <2>9. /\ conn'[l].space = conn[l].space /\ conn'[l].pending = conn[l].pending
        /\ conn'[l].closed = conn[l].closed /\ conn'[l].hup = conn[l].hup
        /\ conn'[l].unread = conn[l].unread
        /\ \A i \in 1..Len(conn'[l].out) :
             \/ i \in 1..Len(conn[l].out) /\ conn'[l].out[i] = conn[l].out[i]
             \/ ~conn'[l].out[i].ready
    BY <2>5, <2>6, SendFacts
  <2>10. ASSUME NEW k \in Leases
         PROVE  PeerStep(k)
    <3>1. CASE k = l
      BY <2>4, <2>7, <2>9, <3>1 DEF PeerStep, PeerInv, ConnInv, TokenInv
    <3>2. CASE k # l
      BY <2>8, <3>2 DEF PeerStep, PeerInv, ConnInv, TokenInv
    <3>. QED
      BY <3>1, <3>2
  <2>11. host'.phase # "bind"
    BY <1>4, PhaseTyped DEF Acknowledge, Phase
  <2>12. /\ ConnInv' /\ TokenInv'
         /\ \A k \in Leases : NoReady(k) /\ NotQueued(k) /\ NotBinding(k) =>
                                NoReady(k)' /\ NotQueued(k)' /\ NotBinding(k)'
    <3>1. Inherited(1)
      BY <2>1, Inherits
    <3>. QED
      BY <2>10, <2>11, <3>1, PeerStays DEF PeerInv
  <2>13. CtlInv'
    BY <2>1, <2>8, <2>9, <2>12, CtlStays DEF PeerInv
  <2>. QED
    BY <2>12, <2>13 DEF PeerInv
<1>5. CASE HostCollect
  <2>1. UNCHANGED <<events, ctl>>
    BY <1>5 DEF HostCollect
  <2>2. \A k \in Leases :
          \/ lease'[k] = NoLease /\ conn'[k] = HostClose(k)
          \/ lease'[k] = lease[k] /\ conn'[k] = conn[k]
    BY <1>5 DEF HostCollect
  <2>3. host'.phase # "bind"
    <3>1. host' = [host EXCEPT !.phase = "loop"] \/ host' = [host EXCEPT !.phase = "down"]
      BY <1>5 DEF HostCollect
    <3>. QED
      BY <3>1 DEF TypeOK, Host
  <2>4. ASSUME NEW k \in Leases
        PROVE  /\ PeerStep(k)
               /\ ~conn[k].closed => conn'[k].space = conn[k].space /\ ~conn'[k].closed
               /\ conn'[k].pending => conn[k].pending
               /\ conn'[k].unread = "payload" => conn[k].unread = "payload"
    <3>1. CASE lease'[k] = NoLease /\ conn'[k] = HostClose(k)
      <4>1. ~lease'[k].known /\ ~lease'[k].registered
        BY <3>1, Values
      <4>2. /\ ~conn'[k].pending /\ conn'[k].unread # "payload"
            /\ \A i \in 1..Len(conn'[k].out) : i \in 1..Len(conn[k].out)
                                               /\ conn'[k].out[i] = conn[k].out[i]
            /\ ~conn[k].closed => conn'[k].space = conn[k].space /\ ~conn'[k].closed
        BY <3>1, HostCloseFacts
      <4>. QED
        BY <4>1, <4>2 DEF PeerStep
    <3>2. CASE lease'[k] = lease[k] /\ conn'[k] = conn[k]
      BY <3>2 DEF PeerStep, PeerInv, ConnInv, TokenInv
    <3>. QED
      BY <2>2, <3>1, <3>2
  <2>5. /\ ConnInv' /\ TokenInv'
        /\ \A k \in Leases : NoReady(k) /\ NotQueued(k) /\ NotBinding(k) =>
                               NoReady(k)' /\ NotQueued(k)' /\ NotBinding(k)'
    BY <2>1, <2>3, <2>4, Inherits, PeerStays DEF PeerInv
  <2>6. CtlInv'
    BY <2>1, <2>4, <2>5, CtlStays DEF PeerInv
  <2>. QED
    BY <2>5, <2>6 DEF PeerInv
<1>6. CASE Input
  <2>1. UNCHANGED <<host, lease, events, current, conn, ctl>>
    BY <1>6 DEF Input
  <2>. QED
    BY <2>1, Inherits, QuietPeer
<1>7. CASE EndCall
  <2>1. UNCHANGED <<lease, events, conn, ctl>> /\ host'.phase # "bind"
    BY <1>7, PhaseTyped DEF EndCall, Phase
  <2>. QED
    BY <2>1, Inherits, QuietPeer
<1>8. ASSUME NEW l \in Leases, IdleRevoke(l)
      PROVE  PeerInv'
  <2>1. HostRevoke(l) /\ UNCHANGED <<host, current, conn, ctl>>
    BY <1>8 DEF IdleRevoke
  <2>. QED
    BY <2>1, RevokePeer, QuietPeer
<1>. QED
  BY <1>1, <1>2, <1>3, <1>4, <1>5, <1>6, <1>7, <1>8 DEF Turn

LEMMA ProcessPeer ==
    ASSUME TypeOK, HostInv, PeerInv, TypeOK', HostInv',
           HostStops \/ HostCrashes \/ SessionEnds \/ HostStarts \/ Upgrade
    PROVE  PeerInv'
<1>1. CASE Down
  <2>1. events' = <<>> /\ ctl' = ctl /\ host'.phase # "bind"
    BY <1>1 DEF Down, TypeOK, Host
  <2>2. \A k \in Leases : /\ lease'[k] = NoLease
                          /\ conn'[k] = IF lease[k].known THEN HostClose(k) ELSE conn[k]
    BY <1>1 DEF Down
  <2>3. ASSUME NEW k \in Leases
        PROVE  /\ PeerStep(k)
               /\ ~conn[k].closed => conn'[k].space = conn[k].space /\ ~conn'[k].closed
               /\ conn'[k].pending => conn[k].pending
               /\ conn'[k].unread = "payload" => conn[k].unread = "payload"
    <3>1. CASE lease[k].known
      <4>1. ~lease'[k].known /\ ~lease'[k].registered /\ conn'[k] = HostClose(k)
        BY <2>2, <3>1, Values
      <4>2. /\ ~conn'[k].pending /\ conn'[k].unread # "payload"
            /\ \A i \in 1..Len(conn'[k].out) : i \in 1..Len(conn[k].out)
                                               /\ conn'[k].out[i] = conn[k].out[i]
            /\ ~conn[k].closed => conn'[k].space = conn[k].space /\ ~conn'[k].closed
        BY <4>1, HostCloseFacts
      <4>. QED
        BY <4>1, <4>2 DEF PeerStep
    <3>2. CASE ~lease[k].known
      BY <2>2, <3>2, Values DEF PeerStep, PeerInv, ConnInv, TokenInv
    <3>. QED
      BY <3>1, <3>2
  <2>4. /\ ConnInv' /\ TokenInv'
        /\ \A k \in Leases : NoReady(k) /\ NotQueued(k) /\ NotBinding(k) =>
                               NoReady(k)' /\ NotQueued(k)' /\ NotBinding(k)'
    BY <2>1, <2>3, Inherits, PeerStays DEF PeerInv
  <2>5. CtlInv'
    BY <2>1, <2>3, <2>4, CtlStays DEF PeerInv
  <2>. QED
    BY <2>4, <2>5 DEF PeerInv
<1>2. CASE SessionEnds
  <2>1. host'.phase = host.phase /\ UNCHANGED <<lease, events, current, conn, ctl>>
    BY <1>2 DEF SessionEnds, TypeOK, Host
  <2>. QED
    BY <2>1, Inherits, QuietPeer
<1>3. CASE HostStarts
  <2>1. host'.phase = "loop" /\ UNCHANGED <<lease, events, current, conn, ctl>>
    BY <1>3 DEF HostStarts
  <2>. QED
    BY <2>1, Inherits, QuietPeer
<1>4. CASE Upgrade
  <2>1. UNCHANGED <<host, lease, events, current, conn, ctl>>
    BY <1>4 DEF Upgrade, hostVars
  <2>. QED
    BY <2>1, Inherits, QuietPeer
<1>. QED
  BY <1>1, <1>2, <1>3, <1>4 DEF HostStops, HostCrashes

\* A controller's step on a connection: it leaves it, closes it, opens a free
\* one, or reads the one answer there is.
LEMMA CtlSteps ==
    ASSUME TypeOK, HostInv, PeerInv, lease' = lease, NEW l \in Leases, NEW s \in Spaces
    PROVE  /\ conn'[l] = conn[l] => PeerStep(l)
           /\ conn'[l] = CtlClose(l) => PeerStep(l)
           /\ conn'[l] = Registering(s) /\ ~lease[l].known => PeerStep(l)
           /\ /\ conn'[l].hup = conn[l].hup /\ conn'[l].space = conn[l].space
              /\ conn'[l].pending = conn[l].pending
              /\ conn'[l].out = <<>> \/ conn'[l].out = conn[l].out
              /\ conn'[l].unread = "payload" => conn[l].unread = "payload"
              => PeerStep(l)
<1>1. /\ lease[l].known => ~conn[l].hup /\ conn[l].space # None
      /\ conn[l].pending => /\ ~lease[l].known /\ conn[l].out = <<>>
                            /\ ~conn[l].hup /\ conn[l].space # None
      /\ conn[l].unread = "payload" => ~lease[l].registered
      /\ ~lease[l].known => ~lease[l].registered
  BY Values DEF HostInv, FlagsInv, PeerInv, ConnInv, TokenInv
<1>2. ASSUME /\ conn'[l].hup = conn[l].hup /\ conn'[l].space = conn[l].space
             /\ conn'[l].pending = conn[l].pending
             /\ conn'[l].out = <<>> \/ conn'[l].out = conn[l].out
             /\ conn'[l].unread = "payload" => conn[l].unread = "payload"
      PROVE  PeerStep(l)
  BY <1>1, <1>2, EmptyRange DEF PeerStep
<1>3. ASSUME conn'[l] = CtlClose(l)
      PROVE  PeerStep(l)
  <2>1. CASE conn[l].hup
    BY <1>1, <1>3, <2>1, CtlCloseFacts, Values, EmptyRange DEF PeerStep
  <2>2. CASE ~conn[l].hup
    <3>1. /\ conn'[l].hup = FALSE /\ conn[l].hup = FALSE
      BY <1>3, <2>2, CtlCloseFacts DEF TypeOK, Control
    <3>. QED
      BY <1>2, <1>3, <2>2, <3>1, CtlCloseFacts
  <2>. QED
    BY <2>1, <2>2
<1>4. ASSUME conn'[l] = Registering(s), ~lease[l].known
      PROVE  PeerStep(l)
  <2>1. conn'[l].out = <<>> /\ ~conn'[l].hup /\ conn'[l].space = s
    BY <1>4 DEF Registering, NoConn
  <2>. QED
    BY <1>1, <1>4, <2>1, EmptyRange, NoneAssumption DEF PeerStep
<1>. QED
  BY <1>2, <1>3, <1>4

\* What the controller of s does to its own connection, and to a free one,
\* concerns no other.
LEMMA OwnPeer ==
    ASSUME TypeOK, HostInv, PeerInv, TypeOK', HostInv', host'.phase = host.phase,
           UNCHANGED <<lease, events, current>>, NEW s \in Spaces,
           \A t \in Spaces : t # s => ctl'[t] = ctl[t],
           \A l \in Leases : PeerStep(l),
           \A l \in Leases : conn'[l] # conn[l] => conn[l].space \in {s, None},
           ctl'[s].lease # None => \E l \in Leases :
             /\ l = ctl'[s].lease /\ conn'[l].space = s /\ ~conn'[l].closed
             /\ ctl'[s].pc \in {"idle", "releasing", "stopping"} =>
                  /\ ~conn'[l].pending /\ conn'[l].unread # "payload"
                  /\ NoReady(l)' /\ NotQueued(l) /\ NotBinding(l),
           ctl'[s].pc \in {"activating", "raising", "releasing", "stopping"} =>
             ctl'[s].lease # None,
           ctl'[s].pc = "restarting" => ctl'[s].attempt = 0
    PROVE  PeerInv'
<1>1. /\ ConnInv' /\ TokenInv'
      /\ \A l \in Leases : /\ NoReady(l) => NoReady(l)'
                           /\ NotQueued(l) => NotQueued(l)'
                           /\ NotBinding(l) => NotBinding(l)'
  BY Inherits, PeerStays DEF PeerInv
<1>2. ASSUME NEW t \in Spaces, ctl'[t].lease # None
      PROVE  \E l \in Leases :
               /\ l = ctl'[t].lease /\ conn'[l].space = t /\ ~conn'[l].closed
               /\ ctl'[t].pc \in {"idle", "releasing", "stopping"} =>
                    /\ ~conn'[l].pending /\ conn'[l].unread # "payload"
                    /\ NoReady(l)' /\ NotQueued(l)' /\ NotBinding(l)'
  <2>1. CASE t = s
    BY <1>1, <1>2, <2>1
  <2>2. CASE t # s
    <3>1. PICK l \in Leases : l = ctl[t].lease
      BY <1>2, <2>2 DEF TypeOK, ComputerLease
    <3>2. ctl'[t] = ctl[t] /\ l # None
      BY <2>2, NoneAssumption
    <3>3. /\ conn[l].space = t /\ ~conn[l].closed
          /\ ctl[t].pc \in {"idle", "releasing", "stopping"} =>
               /\ ~conn[l].pending /\ conn[l].unread # "payload"
               /\ NoReady(l) /\ NotQueued(l) /\ NotBinding(l)
      BY <3>1, <3>2 DEF PeerInv, CtlInv, NoReady, NotQueued, NotBinding
    <3>4. conn'[l] = conn[l]
      BY <2>2, <3>3, NoneAssumption
    <3>. QED
      BY <1>1, <3>1, <3>2, <3>3, <3>4
  <2>. QED
    BY <2>1, <2>2
<1>3. \A t \in Spaces :
        /\ ctl'[t].pc \in {"activating", "raising", "releasing", "stopping"} => ctl'[t].lease # None
        /\ ctl'[t].pc = "restarting" => ctl'[t].attempt = 0
  BY DEF PeerInv, CtlInv
<1>4. CtlInv'
  BY <1>2, <1>3 DEF CtlInv, NoReady, NotQueued, NotBinding
<1>. QED
  BY <1>1, <1>4 DEF PeerInv

\* The controller drops its connection.
LEMMA ClosePeer ==
    ASSUME TypeOK, HostInv, PeerInv, TypeOK', HostInv', host'.phase = host.phase,
           UNCHANGED <<lease, events, current>>, NEW s \in Spaces, NEW l \in Leases,
           ctl[s].lease = l, conn' = [conn EXCEPT ![l] = CtlClose(l)],
           \A t \in Spaces : t # s => ctl'[t] = ctl[t],
           ctl'[s].lease = None, ctl'[s].pc \in {"closed", "failed", "idle", "restarting"},
           ctl'[s].pc = "restarting" => ctl'[s].attempt = 0
    PROVE  PeerInv'
<1>1. conn[l].space = s
  BY NoneAssumption DEF PeerInv, CtlInv
<1>2. conn'[l] = CtlClose(l) /\ \A k \in Leases : k # l => conn'[k] = conn[k]
  BY DEF TypeOK
<1>3. \A k \in Leases : PeerStep(k)
  BY <1>2, CtlSteps
<1>. QED
  BY <1>1, <1>2, <1>3, OwnPeer

LEMMA ControllerPeer ==
    ASSUME TypeOK, HostInv, PeerInv, TypeOK', HostInv', NEW s \in Spaces,
           \/ Controller(s) \/ ActivateTimesOut(s) \/ ReleaseTimesOut(s) \/ Close(s) \/ Open(s)
    PROVE  PeerInv'
<1>1. host'.phase = host.phase /\ UNCHANGED <<lease, events, current>>
  BY ControllerHost
<1>2. ctl[s] \in ComputerLease /\ ctl[s].lease \in Leases \cup {None}
  BY DEF TypeOK, ComputerLease
<1>3. \A l \in Leases : l # None
  BY NoneAssumption
<1>4. CtlInv
  BY DEF PeerInv
<1>5. ASSUME NEW l \in Leases, conn[l] = NoConn \/ conn[l].hup
      PROVE  ~lease[l].known
  BY <1>5, Values DEF PeerInv, ConnInv
<1>6. CASE Alive(s)
  <2>. DEFINE old == ctl[s].lease
              kept == IF Returned(old) THEN [conn EXCEPT ![old] = CtlClose(old)] ELSE conn
  <2>1. ctl[s].pc = "idle" /\ (Returned(old) => old \in Leases)
    BY <1>2, <1>6 DEF Alive, Returned
  <2>2. Returned(old) => conn[old].space = s
    BY <1>3, <1>4, <2>1 DEF CtlInv
  <2>3. /\ kept \in [Leases -> Control]
        /\ \A l \in Leases : kept[l] = conn[l] \/ (kept[l] = CtlClose(l) /\ conn[l].space = s)
    BY <2>1, <2>2, CtlCloseFacts DEF TypeOK
  <2>4. CASE conn' = kept /\ ctl' = [ctl EXCEPT ![s] = Opened]
    <3>. HIDE DEF kept
    <3>1. \A l \in Leases : /\ conn'[l] = conn[l] \/ conn'[l] = CtlClose(l)
                            /\ conn'[l] # conn[l] => conn[l].space = s
      BY <2>3, <2>4
    <3>2. \A l \in Leases : PeerStep(l)
      BY <1>1, <3>1, CtlSteps
    <3>3. /\ ctl'[s] = Opened
          /\ \A t \in Spaces : t # s => ctl'[t] = ctl[t]
      BY <2>4 DEF TypeOK
    <3>4. ctl'[s].lease = None /\ ctl'[s].pc = "idle"
      BY <3>3, Values
    <3>. QED
      BY <1>1, <3>1, <3>2, <3>3, <3>4, OwnPeer
  <2>5. ASSUME NEW k \in Leases, kept[k] = NoConn,
               conn' = [kept EXCEPT ![k] = Registering(s)],
               ctl' = [ctl EXCEPT ![s] = [Closed EXCEPT !.pc = "activating", !.lease = k,
                                                        !.exe = installed]]
        PROVE  PeerInv'
    <3>. HIDE DEF kept
    <3>1. /\ conn'[k] = Registering(s)
          /\ \A l \in Leases : l # k => conn'[l] = kept[l]
      BY <2>3, <2>5
    <3>2. ~lease[k].known /\ conn[k].space \in {s, None}
      <4>1. CASE conn[k] = NoConn
        BY <1>5, <4>1, Values
      <4>2. CASE CtlClose(k) = NoConn /\ conn[k].space = s
        <5>1. conn[k].hup
          BY <4>2, CtlCloseFacts
        <5>. QED
          BY <1>5, <4>2, <5>1
      <4>. QED
        BY <2>3, <2>5, <4>1, <4>2
    <3>3. ASSUME NEW l \in Leases
          PROVE  PeerStep(l) /\ (conn'[l] # conn[l] => conn[l].space \in {s, None})
      <4>1. CASE l = k
        BY <1>1, <3>1, <3>2, <4>1, CtlSteps
      <4>2. CASE l # k
        BY <1>1, <2>3, <3>1, <4>2, CtlSteps
      <4>. QED
        BY <4>1, <4>2
    <3>4. /\ ctl'[s] = [Closed EXCEPT !.pc = "activating", !.lease = k, !.exe = installed]
          /\ \A t \in Spaces : t # s => ctl'[t] = ctl[t]
      BY <2>5 DEF TypeOK
    <3>5. ctl'[s].lease = k /\ ctl'[s].pc = "activating"
      BY <3>4 DEF Closed
    <3>6. conn'[k].space = s /\ ~conn'[k].closed
      BY <3>1 DEF Registering, NoConn
    <3>7. \E l \in Leases :
            /\ l = ctl'[s].lease /\ conn'[l].space = s /\ ~conn'[l].closed
            /\ ctl'[s].pc \in {"idle", "releasing", "stopping"} =>
                 /\ ~conn'[l].pending /\ conn'[l].unread # "payload"
                 /\ NoReady(l)' /\ NotQueued(l) /\ NotBinding(l)
      BY <3>5, <3>6
    <3>8. ctl'[s].lease # None /\ ctl'[s].pc # "restarting"
      BY <1>3, <3>5
    <3>. QED
      BY <1>1, <3>3, <3>4, <3>7, <3>8, OwnPeer
  <2>. QED
    BY <1>6, <2>4, <2>5 DEF Alive
<1>7. CASE ActivateReply(s)
  <2>1. PICK l \in Leases : l = ctl[s].lease
    BY <1>2, <1>4, <1>7 DEF ActivateReply, CtlInv
  <2>2. conn[l].space = s /\ ~conn[l].closed /\ ctl[s].pc = "activating"
    BY <1>3, <1>4, <1>7, <2>1 DEF CtlInv, ActivateReply
  <2>3. CASE conn' = [conn EXCEPT ![l] = CtlClose(l)] /\ ctl' = [ctl EXCEPT ![s] = Opened]
    <3>1. /\ ctl'[s].lease = None /\ ctl'[s].pc = "idle"
          /\ \A t \in Spaces : t # s => ctl'[t] = ctl[t]
      BY <2>3, Values DEF TypeOK
    <3>. QED
      BY <1>1, <2>1, <2>3, <3>1, ClosePeer
  <2>4. CASE Len(conn[l].out) = 1 /\ Head(conn[l].out).ready
    <3>. DEFINE u == IF Head(conn[l].out).exe = ctl[s].exe THEN conn[l].unread
                     ELSE IF conn[l].hup THEN "none" ELSE "R"
                p == IF Head(conn[l].out).exe = ctl[s].exe THEN "idle" ELSE "releasing"
    <3>1. conn[l] \in Control /\ conn[l].out \in Seq(Reply)
      BY DEF TypeOK, Control
    <3>2. /\ conn' = [conn EXCEPT ![l] = [conn[l] EXCEPT !.out = Tail(conn[l].out), !.unread = u]]
          /\ ctl' = [ctl EXCEPT ![s] = [ctl[s] EXCEPT !.pc = p]]
      <4>1. CASE Head(conn[l].out).exe = ctl[s].exe
        <5>1. conn' = [conn EXCEPT ![l] = [conn[l] EXCEPT !.out = Tail(conn[l].out)]]
              /\ ctl' = [ctl EXCEPT ![s] = [ctl[s] EXCEPT !.pc = "idle"]]
          BY <1>7, <2>1, <2>4, <4>1 DEF ActivateReply
        <5>2. [conn[l] EXCEPT !.out = Tail(conn[l].out)]
                = [conn[l] EXCEPT !.out = Tail(conn[l].out), !.unread = conn[l].unread]
          BY <3>1 DEF Control
        <5>. QED
          BY <4>1, <5>1, <5>2
      <4>2. CASE Head(conn[l].out).exe # ctl[s].exe
        BY <1>7, <2>1, <2>4, <4>2 DEF ActivateReply, TypeOK
      <4>. QED
        BY <4>1, <4>2
    <3>3. Tail(conn[l].out) = <<>> /\ conn[l].out[1].ready /\ 1 \in 1..Len(conn[l].out)
          /\ conn[l].out # <<>>
      <4>1. /\ Head(conn[l].out) = conn[l].out[1] /\ 1 \in 1..Len(conn[l].out)
            /\ Tail(conn[l].out) \in Seq(Reply) /\ Len(Tail(conn[l].out)) = 0
            /\ conn[l].out # <<>>
        BY <2>4, <3>1
      <4>2. Tail(conn[l].out) = <<>>
        BY <4>1, EmptySeq
      <4>. QED
        BY <2>4, <4>1, <4>2
    <3>4. ~NoReady(l)
      BY <3>3 DEF NoReady
    <3>5. conn[l].unread # "payload" /\ ~conn[l].pending
      BY <3>3, <3>4 DEF PeerInv, TokenInv, ConnInv
    <3>6. NotQueued(l) /\ NotBinding(l)
      BY <3>4 DEF PeerInv, TokenInv, NotQueued, NotBinding
    <3>7. u # "payload" /\ p \in {"idle", "releasing"}
      BY <3>5
    <3>. HIDE DEF u, p
    <3>8. /\ conn'[l].out = <<>> /\ conn'[l].unread = u
          /\ conn'[l].space = conn[l].space /\ conn'[l].closed = conn[l].closed
          /\ conn'[l].hup = conn[l].hup /\ conn'[l].pending = conn[l].pending
      <4>1. conn'[l] = [conn[l] EXCEPT !.out = Tail(conn[l].out), !.unread = u]
        BY <3>2 DEF TypeOK
      <4>. QED
        BY <3>1, <3>3, <4>1 DEF Control
    <3>9. \A k \in Leases : k # l => conn'[k] = conn[k]
      BY <3>2 DEF TypeOK
    <3>10. PeerStep(l)
      BY <1>1, <3>7, <3>8, CtlSteps
    <3>11. \A k \in Leases : PeerStep(k)
      BY <1>1, <3>9, <3>10, CtlSteps
    <3>12. /\ ctl'[s].lease = l /\ ctl'[s].pc = p
           /\ \A t \in Spaces : t # s => ctl'[t] = ctl[t]
      BY <1>2, <2>1, <3>2 DEF TypeOK, ComputerLease
    <3>13. NoReady(l)'
      BY <3>8, EmptyRange DEF NoReady
    <3>14. ctl'[s].lease # None /\ ctl'[s].pc # "restarting"
      BY <1>3, <3>7, <3>12
    <3>15. \E k \in Leases :
             /\ k = ctl'[s].lease /\ conn'[k].space = s /\ ~conn'[k].closed
             /\ ctl'[s].pc \in {"idle", "releasing", "stopping"} =>
                  /\ ~conn'[k].pending /\ conn'[k].unread # "payload"
                  /\ NoReady(k)' /\ NotQueued(k) /\ NotBinding(k)
      BY <2>2, <3>5, <3>6, <3>7, <3>8, <3>12, <3>13
    <3>16. \A k \in Leases : conn'[k] # conn[k] => conn[k].space \in {s, None}
      BY <2>2, <3>9
    <3>. QED
      BY <1>1, <3>11, <3>12, <3>14, <3>15, <3>16, OwnPeer
  <2>. QED
    BY <1>7, <2>1, <2>3, <2>4 DEF ActivateReply
<1>8. CASE Raises(s)
  <2>1. PICK l \in Leases : l = ctl[s].lease
    BY <1>2, <1>4, <1>8 DEF Raises, CtlInv
  <2>2. /\ conn' = [conn EXCEPT ![l] = CtlClose(l)]
        /\ \/ ctl' = [ctl EXCEPT ![s] = [Closed EXCEPT !.pc = "failed"]]
           \/ ctl' = [ctl EXCEPT ![s] = Opened]
    BY <1>8, <2>1 DEF Raises
  <2>3. /\ ctl'[s].lease = None /\ ctl'[s].pc \in {"failed", "idle"}
        /\ \A t \in Spaces : t # s => ctl'[t] = ctl[t]
    <3>1. /\ [Closed EXCEPT !.pc = "failed"].lease = None
          /\ [Closed EXCEPT !.pc = "failed"].pc = "failed"
      BY DEF Closed
    <3>. QED
      BY <2>2, <3>1, Values DEF TypeOK
  <2>. QED
    BY <1>1, <2>1, <2>2, <2>3, ClosePeer
<1>9. ASSUME Released(s), ctl[s].pc \in {"releasing", "stopping"}
      PROVE  PeerInv'
  <2>1. PICK l \in Leases : l = ctl[s].lease
    BY <1>2, <1>4, <1>9 DEF CtlInv
  <2>2. conn' = [conn EXCEPT ![l] = CtlClose(l)]
    BY <1>9, <2>1 DEF Released
  <2>3. /\ ctl'[s].lease = None /\ ctl'[s].pc \in {"closed", "idle", "restarting"}
        /\ ctl'[s].pc = "restarting" => ctl'[s].attempt = 0
        /\ \A t \in Spaces : t # s => ctl'[t] = ctl[t]
    BY <1>9, <2>1, ReleasedTypes
  <2>. QED
    BY <1>1, <2>1, <2>2, <2>3, ClosePeer
<1>10. CASE ReleaseReply(s)
  BY <1>9, <1>10 DEF ReleaseReply
<1>11. ASSUME NEW p \in {"raising", "stopping"}, conn' = conn,
              p = "stopping" => ctl[s].pc = "releasing",
              p = "raising" => ctl[s].pc \in {"activating", "releasing", "stopping"},
              ctl' = [ctl EXCEPT ![s] = [ctl[s] EXCEPT !.pc = p]]
       PROVE  PeerInv'
  <2>1. PICK l \in Leases : l = ctl[s].lease
    BY <1>2, <1>4, <1>11 DEF CtlInv
  <2>2. /\ ctl'[s].lease = l /\ ctl'[s].pc = p
        /\ \A t \in Spaces : t # s => ctl'[t] = ctl[t]
    BY <1>2, <1>11, <2>1 DEF TypeOK, ComputerLease
  <2>3. \A k \in Leases : PeerStep(k)
    BY <1>1, <1>11, CtlSteps
  <2>4. /\ conn'[l].space = s /\ ~conn'[l].closed
        /\ p = "stopping" => /\ ~conn'[l].pending /\ conn'[l].unread # "payload"
                             /\ NoReady(l)' /\ NotQueued(l) /\ NotBinding(l)
    BY <1>3, <1>4, <1>11, <2>1 DEF CtlInv, NoReady, NotQueued, NotBinding
  <2>. QED
    BY <1>1, <1>3, <1>11, <2>2, <2>3, <2>4, OwnPeer
<1>12. CASE StopDone(s)
  <2>1. CASE Released(s)
    BY <1>9, <1>12, <2>1 DEF StopDone
  <2>2. CASE ~Released(s)
    <3>1. /\ ctl' = [ctl EXCEPT ![s] = [ctl[s] EXCEPT !.pc = "raising"]]
          /\ conn' = conn /\ ctl[s].pc = "stopping"
      BY <1>12, <2>2 DEF StopDone, TypeOK
    <3>. QED
      BY <1>11, <3>1
  <2>. QED
    BY <2>1, <2>2
<1>13. CASE Reconnect(s)
  <2>1. PICK k \in Leases :
          /\ conn[k] = NoConn
          /\ conn' = [conn EXCEPT ![k] = Registering(s)]
          /\ ctl' = [ctl EXCEPT ![s].pc = "activating", ![s].lease = k, ![s].attempt = @ + 1]
    BY <1>13 DEF Reconnect
  <2>2. ctl' = [ctl EXCEPT ![s] = [ctl[s] EXCEPT !.pc = "activating", !.lease = k,
                                                 !.attempt = ctl[s].attempt + 1]]
    BY <2>1 DEF TypeOK
  <2>3. /\ ctl'[s].lease = k /\ ctl'[s].pc = "activating"
        /\ \A t \in Spaces : t # s => ctl'[t] = ctl[t]
    BY <1>2, <2>2 DEF TypeOK, ComputerLease
  <2>4. /\ conn'[k] = Registering(s)
        /\ \A l \in Leases : l # k => conn'[l] = conn[l]
    BY <2>1 DEF TypeOK
  <2>5. ~lease[k].known /\ conn[k].space = None
    BY <1>5, <2>1, Values
  <2>6. \A l \in Leases : PeerStep(l)
    BY <1>1, <2>4, <2>5, CtlSteps
  <2>7. conn'[k].space = s /\ ~conn'[k].closed
    BY <2>4 DEF Registering, NoConn
  <2>8. \E l \in Leases :
          /\ l = ctl'[s].lease /\ conn'[l].space = s /\ ~conn'[l].closed
          /\ ctl'[s].pc \in {"idle", "releasing", "stopping"} =>
               /\ ~conn'[l].pending /\ conn'[l].unread # "payload"
               /\ NoReady(l)' /\ NotQueued(l) /\ NotBinding(l)
    BY <2>3, <2>7
  <2>9. ctl'[s].lease # None /\ ctl'[s].pc # "restarting"
    BY <1>3, <2>3
  <2>10. \A l \in Leases : conn'[l] # conn[l] => conn[l].space \in {s, None}
    BY <2>4, <2>5
  <2>. QED
    BY <1>1, <2>3, <2>6, <2>8, <2>9, <2>10, OwnPeer
<1>14. CASE ActivateTimesOut(s)
  BY <1>11, <1>14 DEF ActivateTimesOut
<1>15. CASE ReleaseTimesOut(s)
  BY <1>11, <1>15 DEF ReleaseTimesOut
<1>16. CASE Close(s)
  <2>1. CASE ctl[s].lease = None
    <3>1. conn' = conn /\ ctl' = [ctl EXCEPT ![s] = Closed]
      BY <1>16, <2>1 DEF Close
    <3>2. /\ ctl'[s].lease = None /\ ctl'[s].pc = "closed"
          /\ \A t \in Spaces : t # s => ctl'[t] = ctl[t]
      BY <3>1, Values DEF TypeOK
    <3>3. \A k \in Leases : PeerStep(k)
      BY <1>1, <3>1, CtlSteps
    <3>. QED
      BY <1>1, <3>1, <3>2, <3>3, OwnPeer
  <2>2. CASE ctl[s].lease # None
    <3>1. PICK l \in Leases : l = ctl[s].lease
      BY <1>2, <2>2
    <3>2. /\ ctl[s].pc = "idle"
          /\ ctl' = [ctl EXCEPT ![s] = [ctl[s] EXCEPT !.pc = "releasing", !.closing = TRUE]]
          /\ conn' = [conn EXCEPT ![l] = [conn[l] EXCEPT !.unread =
                                            IF conn[l].hup THEN conn[l].unread ELSE "R"]]
      BY <1>16, <2>2, <3>1 DEF Close, TypeOK
    <3>3. /\ conn[l].space = s /\ ~conn[l].closed /\ ~conn[l].pending
          /\ conn[l].unread # "payload" /\ NoReady(l) /\ NotQueued(l) /\ NotBinding(l)
      BY <1>4, <2>2, <3>1, <3>2 DEF CtlInv, NoReady, NotQueued, NotBinding
    <3>4. conn[l] \in Control
      BY DEF TypeOK
    <3>5. /\ conn'[l].out = conn[l].out /\ conn'[l].unread # "payload"
          /\ conn'[l].space = conn[l].space /\ conn'[l].closed = conn[l].closed
          /\ conn'[l].hup = conn[l].hup /\ conn'[l].pending = conn[l].pending
      BY <3>2, <3>3, <3>4 DEF Control, TypeOK
    <3>6. \A k \in Leases : k # l => conn'[k] = conn[k]
      BY <3>2 DEF TypeOK
    <3>7. PeerStep(l)
      BY <1>1, <3>5, CtlSteps
    <3>8. \A k \in Leases : PeerStep(k)
      BY <1>1, <3>6, <3>7, CtlSteps
    <3>9. /\ ctl'[s].lease = l /\ ctl'[s].pc = "releasing"
          /\ \A t \in Spaces : t # s => ctl'[t] = ctl[t]
      BY <1>2, <3>1, <3>2 DEF TypeOK, ComputerLease
    <3>10. NoReady(l)'
      BY <3>3, <3>5 DEF NoReady
    <3>11. \E k \in Leases :
             /\ k = ctl'[s].lease /\ conn'[k].space = s /\ ~conn'[k].closed
             /\ ctl'[s].pc \in {"idle", "releasing", "stopping"} =>
                  /\ ~conn'[k].pending /\ conn'[k].unread # "payload"
                  /\ NoReady(k)' /\ NotQueued(k) /\ NotBinding(k)
      BY <3>3, <3>5, <3>9, <3>10
    <3>12. ctl'[s].lease # None /\ ctl'[s].pc # "restarting"
      BY <1>3, <3>9
    <3>13. \A k \in Leases : conn'[k] # conn[k] => conn[k].space \in {s, None}
      BY <3>3, <3>6
    <3>. QED
      BY <1>1, <3>8, <3>9, <3>11, <3>12, <3>13, OwnPeer
  <2>. QED
    BY <2>1, <2>2
<1>17. CASE Open(s)
  <2>1. conn' = conn /\ ctl' = [ctl EXCEPT ![s] = Opened]
    BY <1>17 DEF Open
  <2>2. /\ ctl'[s].lease = None /\ ctl'[s].pc = "idle"
        /\ \A t \in Spaces : t # s => ctl'[t] = ctl[t]
    BY <2>1, Values DEF TypeOK
  <2>3. \A k \in Leases : PeerStep(k)
    BY <1>1, <2>1, CtlSteps
  <2>. QED
    BY <1>1, <2>1, <2>2, <2>3, OwnPeer
<1>. QED
  BY <1>6, <1>7, <1>8, <1>10, <1>12, <1>13, <1>14, <1>15, <1>16, <1>17 DEF Controller

-----------------------------------------------------------------------------
(* The invariant, and what follows from it.                                 *)

LEMMA InitInv == Init => IInv
<1>. SUFFICES ASSUME Init PROVE IInv
  OBVIOUS
<1>1. TypeOK
  <2>1. host \in Host
    BY BoundAssumption DEF Init, Host
  <2>2. /\ lease \in [Leases -> HostLease] /\ client \in [Clients -> HostClient]
        /\ conn \in [Leases -> Control] /\ ctl \in [Spaces -> ComputerLease]
    BY Values DEF Init
  <2>3. events \in Seq(Event) /\ current \in Event \cup {None} /\ cancelled \in BOOLEAN
    <3>1. <<>> \in Seq(Event)
      BY EmptySeq
    <3>2. current \in Event \cup {None} /\ cancelled \in BOOLEAN
      BY DEF Init
    <3>. QED
      BY <3>1, <3>2 DEF Init
  <2>4. cancelIds \subseteq Clients \X Ids /\ held \in Leases \cup {None}
    BY DEF Init
  <2>5. installed \in 0..MaxFaults /\ faults \in 0..MaxFaults
    BY BoundAssumption DEF Init
  <2>. QED
    BY <2>1, <2>2, <2>3, <2>4, <2>5 DEF TypeOK
<1>2. UpgradesLeft
  BY BoundAssumption DEF Init, UpgradesLeft
<1>3. Len(events) = 0 /\ \A i \in 1..Len(events) : FALSE
  BY DEF Init
<1>4. \A l \in Leases : lease[l] = NoLease /\ conn[l] = NoConn
  BY DEF Init
<1>5. \A l \in Leases : \A i \in 1..Len(conn[l].out) : FALSE
  BY <1>4, Values, EmptyRange
<1>6. LoopInv /\ CurrentInv
  BY DEF Init, LoopInv, CurrentInv
<1>7. FlagsInv /\ QueueInv
  BY <1>3, <1>4, Values DEF FlagsInv, QueueInv
<1>8. ClientInv
  BY Values DEF Init, ClientInv
<1>9. ConnInv
  BY <1>4, <1>5, Values DEF ConnInv
<1>10. TokenInv
  BY <1>3, <1>4, Values DEF TokenInv, Init
<1>11. CtlInv
  BY Values DEF Init, CtlInv
<1>. QED
  BY <1>1, <1>2, <1>6, <1>7, <1>8, <1>9, <1>10, <1>11 DEF IInv, HostInv, PeerInv

\* Upgrades and the other faults come out of one purse.
LEMMA StepUpgrades ==
    ASSUME TypeOK, UpgradesLeft,
           \/ installed' = installed /\ faults' \in {faults, faults - 1}
           \/ installed' = installed + 1 /\ faults' = faults - 1
    PROVE  UpgradesLeft'
BY BoundAssumption DEF TypeOK, UpgradesLeft

LEMMA StepInv == IInv /\ [Next]_vars => IInv'
<1>. SUFFICES ASSUME IInv, [Next]_vars PROVE IInv'
  OBVIOUS
<1>1. /\ TypeOK /\ UpgradesLeft /\ HostInv /\ PeerInv
      /\ LoopInv /\ ConnInv /\ CtlInv
  BY DEF IInv, HostInv, PeerInv
<1>2. CASE Callback
  <2>1. TypeOK'
    BY <1>1, <1>2, CallbackTypes
  <2>2. HostInv'
    BY <1>1, <1>2, CallbackHost
  <2>3. PeerInv'
    BY <1>1, <1>2, <2>1, <2>2, CallbackPeer
  <2>4. UNCHANGED <<installed, faults>>
    BY <1>2 DEF Callback, HostControlAccept, HostControlRead, HostAccept
  <2>. QED
    BY <1>1, <2>1, <2>2, <2>3, <2>4 DEF IInv, UpgradesLeft
<1>3. CASE Guest \/ \E s \in Spaces : ListenerGone(s)
  <2>1. TypeOK'
    BY <1>1, <1>3, GuestTypes
  <2>2. HostInv'
    BY <1>1, <1>3, GuestHost
  <2>3. PeerInv'
    BY <1>1, <1>3, <2>1, <2>2, GuestPeer
  <2>4. UNCHANGED <<installed, faults>>
    BY <1>3 DEF Guest, GuestConnects, HostLine, HostHangup, HostCancel, ListenerGone
  <2>. QED
    BY <1>1, <2>1, <2>2, <2>3, <2>4 DEF IInv, UpgradesLeft
<1>4. CASE Turn \/ Input \/ EndCall \/ \E l \in Leases : IdleRevoke(l)
  <2>1. TypeOK' /\ installed' = installed /\ faults' \in {faults, faults - 1}
    BY <1>1, <1>4, TurnTypes
  <2>2. HostInv'
    BY <1>1, <1>4, TurnHost
  <2>3. PeerInv'
    BY <1>1, <1>4, <2>1, <2>2, TurnPeer
  <2>. QED
    BY <1>1, <2>1, <2>2, <2>3, StepUpgrades DEF IInv
<1>5. CASE HostStops \/ HostCrashes \/ SessionEnds \/ HostStarts \/ Upgrade
  <2>1. TypeOK'
    BY <1>1, <1>5, ProcessTypes
  <2>2. HostInv'
    BY <1>1, <1>5, ProcessHost
  <2>3. PeerInv'
    BY <1>1, <1>5, <2>1, <2>2, ProcessPeer
  <2>4. \/ installed' = installed /\ faults' \in {faults, faults - 1}
        \/ installed' = installed + 1 /\ faults' = faults - 1
    BY <1>5 DEF HostStops, HostCrashes, SessionEnds, HostStarts, Upgrade, Down, Fault
  <2>. QED
    BY <1>1, <2>1, <2>2, <2>3, <2>4, StepUpgrades DEF IInv
<1>6. ASSUME NEW s \in Spaces,
             \/ Controller(s) \/ ActivateTimesOut(s) \/ ReleaseTimesOut(s) \/ Close(s) \/ Open(s)
      PROVE  IInv'
  <2>1. TypeOK' /\ installed' = installed /\ faults' \in {faults, faults - 1}
    BY <1>1, <1>6, ControllerTypes
  <2>2. HostInv'
    BY <1>1, <1>6, ControllerHost
  <2>3. PeerInv'
    BY <1>1, <1>6, <2>1, <2>2, ControllerPeer
  <2>. QED
    BY <1>1, <2>1, <2>2, <2>3, StepUpgrades DEF IInv
<1>7. CASE UNCHANGED vars
  <2>1. UNCHANGED <<host, lease, client, events, current, cancelled, cancelIds, held, conn, ctl,
                    installed, faults>>
    BY <1>7 DEF vars, hostVars
  <2>2. TypeOK' /\ UpgradesLeft'
    BY <1>1, <2>1 DEF TypeOK, UpgradesLeft
  <2>3. HostInv'
    BY <1>1, <2>1, StillHost
  <2>4. PeerInv'
    BY <1>1, <2>1, <2>2, <2>3, Inherits, QuietPeer
  <2>. QED
    BY <2>2, <2>3, <2>4 DEF IInv
<1>. QED
  BY <1>2, <1>3, <1>4, <1>5, <1>6, <1>7 DEF Next

\* The main loop, the queue, the connections and the controllers agree in
\* every reachable state.
THEOREM HostInvariant == Spec => []IInv
<1>. QED
  BY InitInv, StepInv, PTL DEF Spec

\* "No input can follow this acknowledgement" (run_shared_host): a lease that
\* is acknowledged serves nobody, executes nothing and holds nothing down.
THEOREM NoInputFollows == Spec => []AcknowledgedIsOver
<1>1. IInv => AcknowledgedIsOver
  <2>. SUFFICES ASSUME IInv, NEW l \in Leases, lease[l].acknowledged
                PROVE  /\ ~lease[l].accepting /\ held # l
                       /\ \A c \in ClientsOf(l) : client[c].state = "closed" /\ ~Executing(c)
    BY DEF AcknowledgedIsOver
  <2>1. lease[l].revoked /\ ~lease[l].accepting /\ l # None
    BY NoneAssumption DEF IInv, HostInv, FlagsInv
  <2>2. held # l
    BY <2>1 DEF IInv, HostInv, LoopInv, CurrentInv
  <2>3. ASSUME NEW c \in ClientsOf(l)
        PROVE  client[c].state = "closed" /\ ~Executing(c)
    <3>1. c \in Clients /\ client[c].lease = l
      BY DEF ClientsOf
    <3>2. client[c].state = "closed"
      BY <2>1, <3>1 DEF IInv, HostInv, ClientInv
    <3>3. Executing(c) => host.phase = "call" /\ current.client = c
      BY DEF Executing, IInv, HostInv, LoopInv
    <3>. QED
      BY <3>1, <3>2, <3>3 DEF IInv, HostInv, CurrentInv
  <2>. QED
    BY <2>1, <2>2, <2>3
<1>. QED
  BY <1>1, HostInvariant, PTL

\* host_collect frees no client and no lease that an event, the active call
\* or a client still names.
THEOREM CollectsOnlyGarbage == Spec => []NothingDangles
<1>1. IInv => NothingDangles
  <2>. SUFFICES ASSUME IInv PROVE NothingDangles
    OBVIOUS
  <2>1. \A c \in Clients : client[c].lease # None =>
          client[c].state \in {"open", "closed"} /\ lease[client[c].lease].known
    BY DEF IInv, TypeOK, HostClient, HostInv, ClientInv
  <2>2. \A c \in Clients : client[c].state \in {"open", "closed"} => client[c].lease # None
    BY DEF IInv, HostInv, ClientInv
  <2>3. ASSUME NEW e \in Range(events)
        PROVE  IF e.kind = "call" THEN client[e.client].state \in {"open", "closed"}
                                  ELSE lease[e.lease].known
    <3>1. DOMAIN events = 1..Len(events)
      BY DEF IInv, TypeOK
    <3>2. PICK i \in 1..Len(events) : e = events[i]
      BY <3>1 DEF Range
    <3>3. e \in Event
      BY <3>2, EventFacts DEF IInv
    <3>. QED
      BY <2>1, <3>2, <3>3, EventFacts DEF IInv, HostInv, QueueInv
  <2>4. ASSUME current # None
        PROVE  IF current.kind = "call" THEN client[current.client].state \in {"open", "closed"}
                                        ELSE lease[current.lease].known
    <3>1. current \in Event
      BY <2>4 DEF IInv, TypeOK
    <3>2. CASE host.phase = "call"
      BY <2>1, <3>1, <3>2, EventFacts DEF IInv, HostInv, LoopInv, CurrentInv
    <3>3. CASE host.phase = "bind"
      BY <3>3 DEF IInv, HostInv, LoopInv, CurrentInv
    <3>. QED
      BY <2>4, <3>2, <3>3 DEF IInv, HostInv, LoopInv
  <2>. QED
    BY <2>1, <2>2, <2>3, <2>4 DEF NothingDangles
<1>. QED
  BY <1>1, HostInvariant, PTL

\* _release_control returns to close or to _activate only when the host has
\* acknowledged the lease or has lost it.
THEOREM ReleaseWaits == Spec => ReleaseIsAcknowledged
<1>. DEFINE Step == \A s \in Spaces :
              ctl[s].pc \in {"releasing", "stopping"} /\ ctl'[s].lease = None
                => LET l == ctl[s].lease IN lease[l].known => lease[l].acknowledged
<1>1. IInv /\ [Next]_vars => [Step]_vars
  <2>. SUFFICES ASSUME IInv, Next, NEW s \in Spaces, ctl[s].pc \in {"releasing", "stopping"},
                       ctl'[s].lease = None, lease[ctl[s].lease].known
                PROVE  lease[ctl[s].lease].acknowledged
    OBVIOUS
  <2>1. PICK l \in Leases : l = ctl[s].lease
    BY DEF IInv, TypeOK, ComputerLease, PeerInv, CtlInv
  <2>2. NoReady(l) /\ l # None
    BY <2>1, NoneAssumption DEF IInv, PeerInv, CtlInv, NoReady
  <2>3. Readable(l) => lease[l].acknowledged
    <3>1. SUFFICES ASSUME conn[l].out # <<>> PROVE lease[l].acknowledged
      BY <2>1 DEF Readable, IInv, PeerInv, ConnInv
    <3>2. conn[l].out \in Seq(Reply)
      BY DEF IInv, TypeOK, Control
    <3>3. 1 \in 1..Len(conn[l].out)
      BY <3>1, <3>2
    <3>. QED
      BY <2>1, <2>2, <3>3 DEF NoReady, IInv, PeerInv, ConnInv
  <2>4. ctl'[s] # ctl[s]
    BY <2>1, <2>2
  <2>5. ctl \in [Spaces -> ComputerLease] /\ ctl[s] \in ComputerLease
    BY DEF IInv, TypeOK
  <2>6. \E t \in Spaces :
          \/ Controller(t) \/ ActivateTimesOut(t) \/ ReleaseTimesOut(t) \/ Close(t) \/ Open(t)
    <3>1. ctl' # ctl
      BY <2>4
    <3>. QED
      BY <3>1 DEF Next, Callback, Guest, Turn, HostControlAccept, HostControlRead, HostAccept,
                  GuestConnects, HostLine, HostHangup, HostCancel, ListenerGone, StartCall,
                  StartBind, EndBind, Acknowledge, HostCollect, Input, EndCall, IdleRevoke,
                  HostStops, HostCrashes, Down, SessionEnds, HostStarts, Upgrade
  <2>7. PICK t \in Spaces :
          \/ Controller(t) \/ ActivateTimesOut(t) \/ ReleaseTimesOut(t) \/ Close(t) \/ Open(t)
    BY <2>6
  <2>8. t = s
    BY <2>4, <2>5, <2>7 DEF Controller, Alive, ActivateReply, Raises, ReleaseReply,
         Released, StopDone, Reconnect, ActivateTimesOut, ReleaseTimesOut, Close, Open
  <2>9. ReleaseReply(s) \/ StopDone(s) \/ ReleaseTimesOut(s)
    BY <2>7, <2>8 DEF Controller, Alive, ActivateReply, Raises, Reconnect,
                      ActivateTimesOut, Close, Open
  <2>10. ~ReleaseTimesOut(s)
    <3>1. ASSUME ReleaseTimesOut(s) PROVE \E p : ctl'[s] = [ctl[s] EXCEPT !.pc = p]
      BY <2>5, <3>1 DEF ReleaseTimesOut
    <3>2. \A p : [ctl[s] EXCEPT !.pc = p].lease = ctl[s].lease
      BY <2>5 DEF ComputerLease
    <3>. QED
      BY <2>1, <2>2, <3>1, <3>2
  <2>. QED
    BY <2>1, <2>3, <2>9, <2>10 DEF ReleaseReply, Answered, StopDone
<1>. QED
  BY <1>1, HostInvariant, PTL DEF Spec, ReleaseIsAcknowledged

=============================================================================
