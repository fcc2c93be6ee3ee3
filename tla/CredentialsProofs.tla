-------------------------- MODULE CredentialsProofs --------------------------
(***************************************************************************)
(* Proofs about AuthService and SecretHelper, the two services that keep a *)
(* user's credentials out of a space, for any set of logins and helpers and*)
(* any number of slots, wallets, backup numbers and mishaps: request slots *)
(* are accounted for on every path, stop leaves no request that converses, *)
(* and no file of a wallet is destroyed or set aside without need.         *)
(***************************************************************************)
EXTENDS AuthService, SecretHelper, FiniteSetTheorems, NaturalsInduction, WellFoundedInduction, TLAPS

-----------------------------------------------------------------------------
(* The authentication service.                                              *)

RequestStates == {"none", "backlog", "closed"} \cup HasSlot

\* The requests that hold a slot.
Served == {l \in Logins : request[l] \in HasSlot}

\* The frames that a worker and the service send to the guest.
Frames == {"ready", "message", "error", "success", "failure"}

ModuleStates == {"idle", "waiting", "unavailable", "success", "failure"}

\* The types of the variables, first those of the guest's side.
GuestTypeOK ==
    /\ module \in [Logins -> ModuleStates]
    /\ toGuest \in [Logins -> Seq(Frames)]

ServiceTypeOK ==
    /\ request \in [Logins -> RequestStates]
    /\ accepting \in SUBSET Logins
    /\ shut \in SUBSET Logins
    /\ limit \in Nat
    /\ slots \in Nat
    /\ stopping \in {Steps[i] : i \in DOMAIN Steps}

\* A login that has not connected has no request.
IdleIsNew == \A l \in Logins : module[l] = "idle" => request[l] = "none"

\* A slot can only be counted while finitely many are taken.
ServedFinite == IsFiniteSet(Served)

\* The serving thread has one connection in its hands at most, and only a
\* connection that is there is accepted and not handed on.
AcceptingIsAccepted ==
    /\ \A l, m \in accepting : l = m
    /\ \A l \in Logins : request[l] = "accepted" <=> l \in accepting

\* Once the serving thread is joined it holds no connection: what stop does
\* not find then, it never finds.
JoinedIsEmpty == ~Before("joined") => accepting = {}

\* A login waits in the backlog only while the listener is open.
BacklogIsOpen == \A l \in Logins : request[l] = "backlog" => Before("closed")

\* What the service's steps keep by themselves.
Accounting ==
    /\ ServiceTypeOK
    /\ ServedFinite
    /\ SlotsAccounted
    /\ AcceptingIsAccepted
    /\ JoinedIsEmpty
    /\ BacklogIsOpen
    /\ StoppedIsSilent

AuthInv == GuestTypeOK /\ IdleIsNew /\ Accounting

-----------------------------------------------------------------------------
(* Facts about the operators.                                               *)

\* The stages of stop are numbered in their order.
LEMMA Stages ==
    /\ Stage("running") = 1 /\ Stage("closed") = 2 /\ Stage("joined") = 3
    /\ Stage("shut") = 4 /\ Stage("killed") = 5 /\ Stage("stopped") = 6
<1>1. DOMAIN Steps = 1..6
  BY DEF Steps
<1>2. /\ Steps[1] = "running" /\ Steps[2] = "closed" /\ Steps[3] = "joined"
      /\ Steps[4] = "shut" /\ Steps[5] = "killed" /\ Steps[6] = "stopped"
  BY DEF Steps
<1>3. ASSUME NEW i \in 1..6
      PROVE  Stage(Steps[i]) = i
  <2>1. \A j \in 1..6 : Steps[j] = Steps[i] => j = i
    BY <1>2
  <2>. QED
    BY <1>1, <2>1 DEF Stage
<1>. QED
  BY <1>2, <1>3

\* What has been passed on the way to each stage.
LEMMA Passed ==
    ASSUME stopping \in {Steps[i] : i \in DOMAIN Steps}
    PROVE  /\ stopping \in {"running", "closed", "joined", "shut", "killed", "stopped"}
           /\ Before("closed") <=> stopping = "running"
           /\ Before("joined") <=> stopping \in {"running", "closed"}
           /\ Before("shut") <=> stopping \in {"running", "closed", "joined"}
<1>1. stopping \in {"running", "closed", "joined", "shut", "killed", "stopped"}
  BY DEF Steps
<1>. QED
  BY <1>1, Stages DEF Before

-----------------------------------------------------------------------------
(* What the steps do to the service's state.                                *)

\* The service's part of a step: nothing that is accounted for moves.
Still == UNCHANGED <<request, accepting, shut, limit, slots, stopping>>

\* The worker, the module and the clock leave the accounting alone.
LEMMA OthersAreStill ==
    ASSUME NEW l \in Logins,
           \/ Receive(l) \/ Relay(l) \/ Worker(l) \/ WorkerTimeout(l) \/ WindowPasses
    PROVE  Still
<1>1. CASE Receive(l) \/ Relay(l)
  BY <1>1 DEF Receive, Relay, Still, serviceVars
<1>2. CASE Worker(l)
  BY <1>2 DEF Worker, Abort, Ready, Ask, Answer, Decide, Still, serviceVars, wireVars
<1>3. CASE WorkerTimeout(l) \/ WindowPasses
  BY <1>3 DEF WorkerTimeout, WindowPasses, Still, serviceVars, wireVars
<1>. QED
  BY <1>1, <1>2, <1>3

\* A request that ends gives its slot back, and its connection is shut.
LEMMA FinishReturns ==
    ASSUME Accounting, NEW l \in Logins, request[l] \in HasSlot, request[l] # "accepted",
           NEW rejected, Finish(l, rejected), UNCHANGED <<accepting, limit, stopping>>
    PROVE  Accounting'
<1>. USE DEF Accounting, ServiceTypeOK, RequestStates
<1>1. /\ request' = [request EXCEPT ![l] = "closed"]
      /\ shut' = shut \cup {l}
      /\ slots' = slots + 1
  BY DEF Finish, Released
<1>2. ServiceTypeOK'
  BY <1>1
<1>3. Served' = Served \ {l} /\ l \in Served
  BY <1>1 DEF Served, HasSlot
<1>4. /\ IsFiniteSet(Served')
      /\ Cardinality(Served') = Cardinality(Served) - 1
      /\ Cardinality(Served) \in Nat
  BY <1>3, FS_RemoveElement, FS_CardinalityType DEF ServedFinite
<1>5. ServedFinite' /\ SlotsAccounted'
  BY <1>1, <1>4 DEF ServedFinite, SlotsAccounted, Served
<1>6. AcceptingIsAccepted'
  BY <1>1 DEF AcceptingIsAccepted, HasSlot
<1>7. JoinedIsEmpty' /\ BacklogIsOpen' /\ StoppedIsSilent'
  BY <1>1 DEF JoinedIsEmpty, BacklogIsOpen, StoppedIsSilent, HasSlot, Before
<1>. QED
  BY <1>2, <1>5, <1>6, <1>7

\* A request moves on from one place at which it holds a slot to the next.
LEMMA MovesOn ==
    ASSUME Accounting, NEW l \in Logins, NEW next \in HasSlot \ {"accepted"},
           request[l] \in HasSlot,
           request' = [request EXCEPT ![l] = next],
           accepting' = accepting \ {l},
           UNCHANGED <<shut, limit, slots, stopping>>
    PROVE  Accounting'
<1>. USE DEF Accounting, ServiceTypeOK, RequestStates
<1>1. ServiceTypeOK'
  OBVIOUS
<1>2. Served' = Served
  BY DEF Served
<1>3. ServedFinite' /\ SlotsAccounted'
  BY <1>2 DEF ServedFinite, SlotsAccounted, Served
<1>4. AcceptingIsAccepted'
  BY DEF AcceptingIsAccepted
<1>5. JoinedIsEmpty' /\ BacklogIsOpen' /\ StoppedIsSilent'
  BY DEF JoinedIsEmpty, BacklogIsOpen, StoppedIsSilent, HasSlot, Before
<1>. QED
  BY <1>1, <1>3, <1>4, <1>5

-----------------------------------------------------------------------------
(* Every step keeps the invariant: one lemma per step that can disturb it.  *)

LEMMA ConnectInv ==
    ASSUME Accounting, NEW l \in Logins, request[l] = "none", Connect(l)
    PROVE  Accounting'
<1>. USE DEF Accounting, ServiceTypeOK, RequestStates
<1>1. CASE ~Before("closed")
  <2>1. Still
    BY <1>1 DEF Connect, Still, serviceVars
  <2>. QED
    BY <2>1 DEF Still, Served, ServedFinite, SlotsAccounted, AcceptingIsAccepted,
                JoinedIsEmpty, BacklogIsOpen, StoppedIsSilent, Before
<1>2. CASE Before("closed")
  <2>1. /\ request' = [request EXCEPT ![l] = "backlog"]
        /\ UNCHANGED <<accepting, shut, limit, slots, stopping>>
    BY <1>2 DEF Connect, serviceVars
  <2>2. ServiceTypeOK' /\ Served' = Served
    BY <2>1 DEF Served, HasSlot
  <2>3. ServedFinite' /\ SlotsAccounted'
    BY <2>1, <2>2 DEF ServedFinite, SlotsAccounted, Served
  <2>4. AcceptingIsAccepted' /\ JoinedIsEmpty'
    BY <2>1 DEF AcceptingIsAccepted, JoinedIsEmpty, Before
  <2>5. BacklogIsOpen' /\ StoppedIsSilent'
    BY <1>2, <2>1, Passed DEF BacklogIsOpen, StoppedIsSilent, HasSlot, Before
  <2>. QED
    BY <2>2, <2>3, <2>4, <2>5
<1>. QED
  BY <1>1, <1>2

LEMMA AcceptInv ==
    ASSUME Accounting, NEW l \in Logins, Accept(l)
    PROVE  Accounting'
<1>. USE DEF Accounting, ServiceTypeOK, RequestStates
<1>1. request[l] = "backlog" /\ Before("closed") /\ accepting = {} /\ UNCHANGED <<limit, stopping>>
  BY DEF Accept
<1>2. CASE slots = 0
  <2>1. /\ request' = [request EXCEPT ![l] = "closed"]
        /\ shut' = shut \cup {l}
        /\ UNCHANGED <<accepting, slots>>
    BY <1>2 DEF Accept
  <2>2. ServiceTypeOK' /\ Served' = Served
    BY <1>1, <2>1 DEF Served, HasSlot
  <2>3. ServedFinite' /\ SlotsAccounted'
    BY <1>1, <2>1, <2>2 DEF ServedFinite, SlotsAccounted, Served
  <2>4. AcceptingIsAccepted' /\ JoinedIsEmpty' /\ BacklogIsOpen' /\ StoppedIsSilent'
    BY <1>1, <2>1 DEF AcceptingIsAccepted, JoinedIsEmpty, BacklogIsOpen, StoppedIsSilent,
                      HasSlot, Before
  <2>. QED
    BY <2>2, <2>3, <2>4
<1>3. CASE slots # 0
  <2>1. /\ request' = [request EXCEPT ![l] = "accepted"]
        /\ accepting' = {l}
        /\ slots' = slots - 1
        /\ UNCHANGED shut
    BY <1>3 DEF Accept
  <2>2. ServiceTypeOK'
    BY <1>1, <1>3, <2>1 DEF HasSlot
  <2>3. Served' = Served \cup {l} /\ l \notin Served
    BY <1>1, <2>1 DEF Served, HasSlot
  <2>4. /\ IsFiniteSet(Served')
        /\ Cardinality(Served') = Cardinality(Served) + 1
        /\ Cardinality(Served) \in Nat
    BY <2>3, FS_AddElement, FS_CardinalityType DEF ServedFinite
  <2>5. ServedFinite' /\ SlotsAccounted'
    BY <1>1, <2>1, <2>4 DEF ServedFinite, SlotsAccounted, Served
  <2>6. AcceptingIsAccepted'
    BY <1>1, <2>1 DEF AcceptingIsAccepted
  <2>7. JoinedIsEmpty' /\ BacklogIsOpen' /\ StoppedIsSilent'
    BY <1>1, <2>1, Passed DEF JoinedIsEmpty, BacklogIsOpen, StoppedIsSilent, Before
  <2>. QED
    BY <2>2, <2>5, <2>6, <2>7
<1>. QED
  BY <1>2, <1>3

\* The other steps of a handler: each passes its slot on or returns it.
LEMMA HandlerInv ==
    ASSUME Accounting, NEW l \in Logins,
           Handle(l) \/ HandlerFails(l) \/ Admit(l) \/ StartWorker(l) \/ EnterPool(l) \/ WorkerEnded(l)
    PROVE  Accounting'
<1>. USE DEF Accounting, ServiceTypeOK
<1>1. CASE Handle(l) \/ HandlerFails(l)
  <2>1. request[l] = "accepted" /\ accepting' = accepting \ {l}
    BY <1>1 DEF Handle, HandlerFails, AcceptingIsAccepted
  <2>. QED
    BY <1>1, <2>1, MovesOn DEF Handle, HandlerFails, HasSlot, wireVars, serviceVars
<1>2. CASE Admit(l)
  <2>1. request[l] = "reading" /\ accepting' = accepting /\ accepting = accepting \ {l}
    BY <1>2 DEF Admit, AcceptingIsAccepted
  <2>2. CASE Finish(l, TRUE)
    BY <1>2, <2>1, <2>2, FinishReturns DEF Admit, HasSlot
  <2>3. CASE ~Finish(l, TRUE)
    BY <1>2, <2>1, <2>3, MovesOn DEF Admit, HasSlot
  <2>. QED
    BY <2>2, <2>3
<1>3. CASE StartWorker(l)
  <2>1. request[l] = "admitted" /\ accepting' = accepting /\ accepting = accepting \ {l}
    BY <1>3 DEF StartWorker, AcceptingIsAccepted
  <2>2. CASE Finish(l, TRUE)
    BY <1>3, <2>1, <2>2, FinishReturns DEF StartWorker, HasSlot
  <2>3. CASE ~Finish(l, TRUE)
    BY <1>3, <2>1, <2>3, MovesOn DEF StartWorker, HasSlot
  <2>. QED
    BY <2>2, <2>3
<1>4. CASE EnterPool(l)
  <2>1. request[l] = "started" /\ accepting' = accepting /\ accepting = accepting \ {l}
    BY <1>4 DEF EnterPool, AcceptingIsAccepted
  <2>. QED
    BY <1>4, <2>1, MovesOn DEF EnterPool, HasSlot, wireVars, serviceVars
<1>5. CASE WorkerEnded(l)
  BY <1>5, FinishReturns DEF WorkerEnded, HasSlot
<1>. QED
  BY <1>1, <1>2, <1>3, <1>4, <1>5

\* The four steps of stop.
LEMMA StopInv ==
    ASSUME Accounting, StopListening \/ Stop
    PROVE  Accounting'
<1>. USE DEF Accounting, ServiceTypeOK, RequestStates
<1>1. CASE StopListening
  <2>1. /\ stopping = "running" /\ stopping' = "closed"
        /\ request' = [l \in Logins |-> IF request[l] = "backlog" THEN "closed" ELSE request[l]]
        /\ shut' \in SUBSET Logins /\ shut \subseteq shut'
        /\ UNCHANGED <<accepting, limit, slots>>
    BY <1>1 DEF StopListening
  <2>2. ServiceTypeOK'
    BY <2>1 DEF Steps, HasSlot
  <2>3. Served' = Served
    BY <2>1 DEF Served, HasSlot
  <2>4. ServedFinite' /\ SlotsAccounted'
    BY <2>1, <2>3 DEF ServedFinite, SlotsAccounted, Served
  <2>5. AcceptingIsAccepted'
    BY <2>1 DEF AcceptingIsAccepted
  <2>6. (JoinedIsEmpty /\ BacklogIsOpen /\ StoppedIsSilent)'
    BY <2>1, <2>2, Stages DEF JoinedIsEmpty, BacklogIsOpen, StoppedIsSilent, Before
  <2>. QED
    BY <2>2, <2>4, <2>5, <2>6
<1>2. CASE Stop
  <2>1. UNCHANGED <<request, accepting, limit, slots>> /\ shut \subseteq shut'
        /\ shut' \in SUBSET Logins
    BY <1>2 DEF Stop, Join, ShutDown, KillWorkers, StopReturns, wireVars
  <2>2. \/ stopping = "closed" /\ stopping' = "joined" /\ accepting = {}
        \/ stopping = "joined" /\ stopping' = "shut"
           /\ \A l \in Logins : request[l] \notin {"none", "accepted"} => l \in shut'
        \/ stopping = "shut" /\ stopping' = "killed"
        \/ stopping = "killed" /\ stopping' = "stopped"
    BY <1>2 DEF Stop, Join, ShutDown, KillWorkers, StopReturns, ServeEnded
  <2>3. ServiceTypeOK'
    BY <2>1, <2>2 DEF Steps
  <2>4. ServedFinite' /\ SlotsAccounted' /\ AcceptingIsAccepted'
    BY <2>1 DEF ServedFinite, SlotsAccounted, AcceptingIsAccepted, Served
  <2>5. JoinedIsEmpty' /\ BacklogIsOpen'
    BY <2>1, <2>2, Stages DEF JoinedIsEmpty, BacklogIsOpen, Before
  <2>6. StoppedIsSilent'
    BY <2>1, <2>2, Stages
       DEF JoinedIsEmpty, AcceptingIsAccepted, StoppedIsSilent, HasSlot, Before
  <2>. QED
    BY <2>3, <2>4, <2>5, <2>6
<1>. QED
  BY <1>1, <1>2

\* Frames are put at the end of what is on the way.
LEMMA SendTypes ==
    ASSUME GuestTypeOK, NEW l \in Logins, NEW type \in Frames, Send(l, type)
    PROVE  toGuest' \in [Logins -> Seq(Frames)]
BY DEF GuestTypeOK, Send

LEMMA GuestInv ==
    ASSUME AuthInv, AuthNext
    PROVE  GuestTypeOK' /\ IdleIsNew'
<1>. USE DEF AuthInv, Accounting, ServiceTypeOK
<1>1. ASSUME NEW l \in Logins, Connect(l)
      PROVE  GuestTypeOK' /\ IdleIsNew'
  BY <1>1 DEF Connect, GuestTypeOK, IdleIsNew, ModuleStates
<1>2. ASSUME NEW l \in Logins, Receive(l)
      PROVE  GuestTypeOK' /\ IdleIsNew'
  <2>1. UNCHANGED request
    BY <1>2 DEF Receive
  <2>2. CASE toGuest[l] = <<>>
    BY <1>2, <2>1, <2>2 DEF Receive, GuestTypeOK, IdleIsNew, ModuleStates
  <2>3. CASE toGuest[l] # <<>>
    <3>1. toGuest[l] \in Seq(Frames) /\ Head(toGuest[l]) \in Frames \ {"message"}
      BY <1>2, <2>3 DEF Receive, GuestTypeOK
    <3>2. toGuest' = [toGuest EXCEPT ![l] = Tail(@)]
      BY <1>2, <2>3 DEF Receive
    <3>3. \E s \in ModuleStates \ {"idle"} : module' = [module EXCEPT ![l] = s]
      BY <1>2, <2>3, <3>1 DEF Receive, Frames, ModuleStates
    <3>. QED
      BY <2>1, <2>3, <3>1, <3>2, <3>3 DEF GuestTypeOK, IdleIsNew
  <2>. QED
    BY <2>2, <2>3
<1>3. ASSUME NEW l \in Logins, Relay(l)
      PROVE  GuestTypeOK' /\ IdleIsNew'
  <2>1. toGuest[l] \in Seq(Frames) /\ toGuest[l] # <<>>
    BY <1>3 DEF Relay, GuestTypeOK
  <2>2. Tail(toGuest[l]) \in Seq(Frames)
    BY <2>1
  <2>3. toGuest' = [toGuest EXCEPT ![l] = Tail(@)] /\ UNCHANGED request
        /\ (module' = module \/ module' = [module EXCEPT ![l] = "failure"])
    BY <1>3 DEF Relay
  <2>. QED
    BY <2>2, <2>3 DEF GuestTypeOK, IdleIsNew, ModuleStates
<1>4. ASSUME NEW l \in Logins, Handler(l) \/ HandlerFails(l)
      PROVE  GuestTypeOK' /\ IdleIsNew'
  <2>1. toGuest' = toGuest \/ Send(l, "error")
    BY <1>4 DEF Handler, Accept, Handle, HandlerFails, Admit, StartWorker, EnterPool,
                WorkerEnded, wireVars
  <2>2. UNCHANGED module /\ request[l] # "none" /\ (\E s : request' = [request EXCEPT ![l] = s])
    BY <1>4 DEF Handler, Accept, Handle, HandlerFails, Admit, StartWorker, EnterPool,
                WorkerEnded, Finish, AcceptingIsAccepted
  <2>. QED
    BY <2>1, <2>2, SendTypes DEF GuestTypeOK, IdleIsNew, Frames
<1>5. ASSUME NEW l \in Logins, Worker(l) \/ WorkerTimeout(l)
      PROVE  GuestTypeOK' /\ IdleIsNew'
  <2>1. \/ toGuest' = toGuest
        \/ \E type \in Frames : Send(l, type)
    BY <1>5 DEF Worker, Abort, Ready, Ask, Answer, Decide, WorkerTimeout, wireVars, Frames
  <2>2. UNCHANGED <<module, request>>
    BY <1>5 DEF Worker, Abort, Ready, Ask, Answer, Decide, WorkerTimeout
  <2>. QED
    BY <2>1, <2>2, SendTypes DEF GuestTypeOK, IdleIsNew
<1>6. CASE WindowPasses \/ Stop
  BY <1>6 DEF WindowPasses, Stop, Join, ShutDown, KillWorkers, StopReturns, wireVars,
              GuestTypeOK, IdleIsNew
<1>7. CASE StopListening
  BY <1>7 DEF StopListening, GuestTypeOK, IdleIsNew
<1>. QED
  BY <1>1, <1>2, <1>3, <1>4, <1>5, <1>6, <1>7 DEF AuthNext

-----------------------------------------------------------------------------
(* The theorems.                                                            *)

LEMMA AuthInitInv == AuthInit => AuthInv
<1>. SUFFICES ASSUME AuthInit PROVE AuthInv
  OBVIOUS
<1>. USE DEF AuthInit
<1>1. GuestTypeOK /\ IdleIsNew
  BY DEF GuestTypeOK, IdleIsNew, ModuleStates
<1>2. ServiceTypeOK
  BY LimitsAssumption DEF ServiceTypeOK, RequestStates, Steps
<1>3. Served = {}
  BY DEF Served, HasSlot
<1>4. IsFiniteSet(Served) /\ Cardinality(Served) = 0
  BY <1>3, FS_EmptySet
<1>5. ServedFinite /\ SlotsAccounted
  BY <1>2, <1>4 DEF ServedFinite, SlotsAccounted, Served, ServiceTypeOK
<1>6. AcceptingIsAccepted /\ JoinedIsEmpty /\ BacklogIsOpen /\ StoppedIsSilent
  BY DEF AcceptingIsAccepted, JoinedIsEmpty, BacklogIsOpen, StoppedIsSilent, HasSlot
<1>. QED
  BY <1>1, <1>2, <1>5, <1>6 DEF AuthInv, Accounting

LEMMA AuthStepInv == AuthInv /\ [AuthNext]_authVars => AuthInv'
<1>1. ASSUME AuthInv, AuthNext
      PROVE  Accounting'
  <2>. USE <1>1 DEF AuthInv
  <2>1. ASSUME Still PROVE Accounting'
    BY <2>1 DEF Still, Accounting, ServiceTypeOK, Served, ServedFinite, SlotsAccounted,
                AcceptingIsAccepted, JoinedIsEmpty, BacklogIsOpen, StoppedIsSilent, Before
  <2>2. ASSUME NEW l \in Logins, Connect(l) PROVE Accounting'
    BY <2>2, ConnectInv DEF IdleIsNew, Connect
  <2>3. ASSUME NEW l \in Logins, Handler(l) \/ HandlerFails(l) PROVE Accounting'
    BY <2>3, AcceptInv, HandlerInv DEF Handler
  <2>4. ASSUME NEW l \in Logins, Receive(l) \/ Relay(l) \/ Worker(l) \/ WorkerTimeout(l)
        PROVE  Accounting'
    BY <2>1, <2>4, OthersAreStill
  <2>5. CASE WindowPasses
    BY <2>1, <2>5 DEF WindowPasses, Still, wireVars
  <2>. QED
    BY <2>2, <2>3, <2>4, <2>5, StopInv DEF AuthNext
<1>2. CASE UNCHANGED authVars
  BY <1>2 DEF authVars, AuthInv, GuestTypeOK, IdleIsNew, Accounting, ServiceTypeOK, Served,
              ServedFinite, SlotsAccounted, AcceptingIsAccepted, JoinedIsEmpty, BacklogIsOpen,
              StoppedIsSilent, Before
<1>. QED
  BY <1>1, <1>2, GuestInv DEF AuthInv

\* The invariant holds of every behaviour of the service, whatever the threads'
\* schedule; fairness is not used.
THEOREM AuthInvariant == AuthSpec => []AuthInv
BY AuthInitInv, AuthStepInv, PTL DEF AuthSpec

\* No slot is leaked and none is returned twice, for any number of logins and of
\* slots: every path of _serve and _handle that takes one gives it back
\* (auth.py:349).
THEOREM SlotsSound == AuthSpec => []SlotsAccounted
<1>1. AuthInv => SlotsAccounted
  BY DEF AuthInv, Accounting
<1>. QED
  BY <1>1, AuthInvariant, PTL

\* Once stop has shut the recorded connections down, every request in progress
\* has its connection closed, also one whose worker stop missed (auth.py:263).
THEOREM StopSilences == AuthSpec => []StoppedIsSilent
<1>1. AuthInv => StoppedIsSilent
  BY DEF AuthInv, Accounting
<1>. QED
  BY <1>1, AuthInvariant, PTL

-----------------------------------------------------------------------------
(* The secret helper.                                                       *)

Holding == {"check", "secret", "spawn", "wait", "query", "requery", "mark", "claim",
            "backup", "rollback"}
Moving == {"backup", "rollback"}

SecretTypeOK ==
    /\ wallet \in [Files -> Nat]
    /\ saved \in [1..MaxNumber -> [Files -> Nat]]
    /\ broken \in SUBSET (Nat \ {0})
    /\ closed \in SUBSET (Nat \ {0})
    /\ wallets \in Nat
    /\ owner \in Helpers \cup {Unmanaged, Nobody}
    /\ child \in SUBSET Helpers
    /\ helper \in [Helpers -> Holding \cup Ended \cup {"new"}]
    /\ move \in [number : 0..MaxNumber, at : 0..4, files : SUBSET Files,
                 next : {"done", "spawn", "secret"}]

\* flock: a helper that has started and not ended has the turn.
OneHelper == \A h \in Helpers : helper[h] \in Holding <=> turn = h

\* A backup belongs to the helper that makes it: it has a number once it has
\* chosen one, and the places it goes through are those of the files.
MoveIsHelpers ==
    /\ (\A h \in Helpers : helper[h] \notin Moving) => move = NoMove
    /\ \A h \in Helpers :
         /\ helper[h] = "backup" => move.next # "done" /\ (move.number = 0 <=> move.at = 0)
         /\ helper[h] = "rollback" => move.number # 0 /\ move.at <= 3

\* Files the backup has yet to move have no namesake under its number.
NumberIsFree ==
    \A h \in Helpers : helper[h] = "backup" /\ move.number # 0 =>
        \A i \in DOMAIN Names : i >= move.at => saved[move.number][Names[i]] = 0

NoStrays == mishaps \cap Strays = {}

\* Without stray providers, a provider runs only as the owner of the name or
\* while the helper that started it waits for that, and none while wallets move.
ProvidersKnown ==
    NoStrays =>
        /\ owner # Unmanaged
        /\ \A c \in child : c = owner \/ (turn = c /\ helper[c] = "wait")
        /\ \A h \in Helpers :
             /\ helper[h] \in {"secret", "spawn"} \cup Moving => owner = Nobody /\ child = {}
             /\ helper[h] = "wait" => owner \in {Nobody, h}

\* Wallets that are rightly found locked.
Locked == broken \cup closed

\* Every answer is that of a managed provider.
Trusted == mishaps \cap {"unmanaged", "orphan"} = {}

\* A wallet that is about to be set aside is one that is locked.
LockedHasCause ==
    Trusted =>
        /\ owner # Unmanaged
        /\ \A h \in Helpers : helper[h] = "backup" /\ move.at <= 1 => wallet["kwl"] \in Locked

Uniform(files) == \A f, g \in Files : files[f] = files[g]

\* How many files are set aside under the number of the backup in progress.
Aside == IF \E h \in Helpers : helper[h] = "rollback" THEN move.at ELSE move.at - 1

\* Without stray providers, nothing appears where a file was moved from.
PlaceIsEmpty ==
    NoStrays /\ move.number # 0 =>
        \A i \in DOMAIN Names : i <= Aside /\ Names[i] \in move.files => wallet[Names[i]] = 0

\* The wallet that is being set aside; its first file goes first.
Going == IF Aside = 0 THEN wallet["kwl"] ELSE saved[move.number]["kwl"]

Split(w) ==
    \A i \in DOMAIN Names :
        IF i <= Aside
        THEN saved[move.number][Names[i]] = w /\ wallet[Names[i]] = 0
        ELSE saved[move.number][Names[i]] = 0 /\ wallet[Names[i]] = w

\* Without stray providers and failed renames back, every set of files is of
\* one wallet, and the one on its way is split at the place the backup is at.
OneWallet ==
    mishaps \cap (Strays \cup {"undo"}) = {} =>
        /\ \A n \in 1..MaxNumber : n # move.number => Uniform(saved[n])
        /\ move.number = 0 => Uniform(wallet)
        /\ move.number # 0 => move.files = Files /\ Going # 0 /\ Split(Going)

SecretInv ==
    /\ SecretTypeOK
    /\ OneHelper
    /\ MoveIsHelpers
    /\ NumberIsFree
    /\ ProvidersKnown
    /\ PlaceIsEmpty
    /\ LockedHasCause
    /\ SoundWalletStays
    /\ OneWallet

-----------------------------------------------------------------------------
(* Facts about the operators.                                               *)

\* The files in their order.
LEMMA NamesFacts ==
    /\ DOMAIN Names = 1..3 /\ Len(Names) = 3
    /\ Names[1] = "kwl" /\ Names[2] = "salt" /\ Names[3] = "attributes"
    /\ Files = {"kwl", "salt", "attributes"}
<1>1. DOMAIN Names = 1..3 /\ Len(Names) = 3
  BY DEF Names
<1>2. Names[1] = "kwl" /\ Names[2] = "salt" /\ Names[3] = "attributes"
  BY DEF Names
<1>. QED
  BY <1>1, <1>2 DEF Files

\* There is a first free number among the free ones.
LEMMA FirstFree ==
    ASSUME NEW S \in SUBSET Nat, S # {}
    PROVE  (CHOOSE n \in S : \A m \in S : n <= m) \in S
<1>1. \E n \in S : \A m \in S : ~(<<m, n>> \in OpToRel(<, Nat))
  BY NatLessThanWellFounded, WFMin
<1>2. \A m, n \in Nat : m < n => <<m, n>> \in OpToRel(<, Nat)
  BY Zenon DEF OpToRel
<1>3. \E n \in S : \A m \in S : ~(m < n)
  BY <1>1, <1>2, Zenon
<1>4. \E n \in S : \A m \in S : n <= m
  BY <1>3
<1>. QED
  BY <1>4

-----------------------------------------------------------------------------
(* What the steps change.                                                   *)

\* Steps that leave the files and the backup alone and have no part in one.
Plain(h) ==
    \/ Start(h) \/ Check(h) \/ RetrieveSecret(h) \/ Spawn(h) \/ WaitForOwner(h)
    \/ NoProxy(h) \/ Mark(h) \/ Claim(h)

\* Mishaps are never forgotten.
LEMMA MishapsGrow ==
    ASSUME [SecretNext]_secretVars
    PROVE  mishaps \subseteq mishaps'
<1>1. ASSUME NEW h \in Helpers, HelperStep(h) PROVE mishaps \subseteq mishaps'
  BY <1>1 DEF HelperStep, Start, Check, RetrieveSecret, Spawn, WaitForOwner, Query, NoProxy,
              Mark, Claim, ChooseNumber, Rename, BackupDone, Rollback, Kill, Mishap, Mishaps
<1>2. ASSUME NEW h \in Helpers, ProviderClaims(h) \/ HelperKilled(h)
      PROVE  mishaps \subseteq mishaps'
  BY <1>2 DEF ProviderClaims, HelperKilled, Mishap, Mishaps
<1>3. CASE \/ ProviderDies \/ UnmanagedClaims \/ SurvivorCreates \/ GuestCloses
           \/ UNCHANGED secretVars
  BY <1>3 DEF ProviderDies, UnmanagedClaims, SurvivorCreates, GuestCloses, Mishap, Mishaps,
              secretVars
<1>. QED
  BY <1>1, <1>2, <1>3 DEF SecretNext

\* kill_provider leaves owners and providers of the known kinds.
LEMMA KillTypes ==
    ASSUME SecretTypeOK, NEW h \in Helpers, NEW kinds, Kill(h, kinds)
    PROVE  /\ owner' \in {owner, Nobody}
           /\ child' \subseteq child \ {h}
BY DEF Kill

LEMMA PlainTypes ==
    ASSUME SecretTypeOK, OneHelper, NEW h \in Helpers, Plain(h)
    PROVE  /\ UNCHANGED <<fileVars, move>>
           /\ owner' \in {owner, Nobody}
           /\ child' \in SUBSET (child \cup {h})
           /\ \E w \in (Holding \ Moving) \cup Ended :
                /\ helper' = [helper EXCEPT ![h] = w]
                /\ turn' = IF w \in Ended THEN Nobody ELSE h
           /\ helper[h] \notin Moving
           /\ helper[h] \in Holding \/ (helper[h] = "new" /\ turn = Nobody)
<1>. USE DEF SecretTypeOK, Holding, Moving, Ended, Goto, End
<1>1. CASE Start(h)
  <2>1. helper[h] = "new" /\ turn = Nobody /\ turn' = h /\ helper' = [helper EXCEPT ![h] = "check"]
    BY <1>1 DEF Start
  <2>2. UNCHANGED <<fileVars, move, owner, child>>
    BY <1>1 DEF Start, processVars
  <2>3. /\ UNCHANGED <<fileVars, move>>
           /\ owner' \in {owner, Nobody}
           /\ child' \in SUBSET (child \cup {h})
    BY <2>2
  <2>4. helper[h] \notin Moving /\ (helper[h] \in Holding \/ (helper[h] = "new" /\ turn = Nobody))
    BY <2>1
  <2>5. "check" \in (Holding \ Moving) \cup Ended /\ turn' = IF "check" \in Ended THEN Nobody ELSE h
    BY <2>1
  <2>. QED
    BY <2>1, <2>3, <2>4, <2>5
<1>2. CASE Check(h)
  BY <1>2 DEF Check, processVars, OneHelper
<1>3. CASE RetrieveSecret(h)
  BY <1>3 DEF RetrieveSecret, processVars, OneHelper
<1>4. CASE Spawn(h)
  BY <1>4 DEF Spawn, OneHelper
<1>5. CASE WaitForOwner(h)
  BY <1>5, KillTypes DEF WaitForOwner, processVars, OneHelper
<1>6. CASE NoProxy(h)
  BY <1>6, KillTypes DEF NoProxy, processVars, OneHelper
<1>7. CASE Mark(h)
  BY <1>7, KillTypes DEF Mark, processVars, OneHelper
<1>8. CASE Claim(h)
  BY <1>8 DEF Claim, processVars, OneHelper
<1>. QED
  BY <1>1, <1>2, <1>3, <1>4, <1>5, <1>6, <1>7, <1>8 DEF Plain

\* While one helper has the turn, no other one is under way.
LEMMA Alone ==
    ASSUME OneHelper, NEW h \in Helpers, helper[h] \in Holding \/ turn = Nobody
    PROVE  \A g \in Helpers : g # h => helper[g] \notin Holding
BY HelperAssumption DEF OneHelper

\* What is said of the files and the backup in progress.
FileInv ==
    /\ SecretTypeOK
    /\ OneHelper
    /\ MoveIsHelpers
    /\ NumberIsFree
    /\ PlaceIsEmpty
    /\ SoundWalletStays
    /\ OneWallet

\* A step that moves no file and is not about a backup keeps what is said of them.
LEMMA StillFiles ==
    ASSUME FileInv, mishaps \subseteq mishaps', UNCHANGED <<fileVars, move>>,
           owner' \in Helpers \cup {Unmanaged, Nobody},
           child' \in SUBSET Helpers,
           helper' \in [Helpers -> Holding \cup Ended \cup {"new"}],
           \A h \in Helpers : \A w \in Moving : helper'[h] = w <=> helper[h] = w,
           OneHelper'
    PROVE  FileInv'
<1>. USE DEF FileInv, fileVars
<1>1. SecretTypeOK'
  BY DEF SecretTypeOK
<1>2. MoveIsHelpers' /\ NumberIsFree'
  BY DEF MoveIsHelpers, NumberIsFree, Moving, NoMove
<1>3. SoundWalletStays'
  BY DEF SoundWalletStays
<1>4. Aside' = Aside
  BY DEF Aside, Moving
<1>5. PlaceIsEmpty'
  BY <1>4 DEF PlaceIsEmpty, NoStrays
<1>6. OneWallet'
  BY <1>4 DEF OneWallet, Uniform, Going, Split
<1>. QED
  BY <1>1, <1>2, <1>3, <1>5, <1>6

LEMMA PlainFiles ==
    ASSUME FileInv, NEW h \in Helpers, Plain(h), mishaps \subseteq mishaps'
    PROVE  FileInv'
<1>1. SecretTypeOK /\ OneHelper
  BY DEF FileInv
<1>2. PICK w \in (Holding \ Moving) \cup Ended :
        /\ helper' = [helper EXCEPT ![h] = w]
        /\ turn' = IF w \in Ended THEN Nobody ELSE h
  BY <1>1, PlainTypes
<1>3. /\ UNCHANGED <<fileVars, move>>
      /\ owner' \in Helpers \cup {Unmanaged, Nobody}
      /\ child' \in SUBSET Helpers
      /\ helper[h] \notin Moving
      /\ helper[h] \in Holding \/ turn = Nobody
  BY <1>1, PlainTypes DEF SecretTypeOK
<1>4. \A g \in Helpers : g # h => helper[g] \notin Holding /\ g # turn
  BY <1>1, <1>3, Alone DEF OneHelper
<1>5. helper' \in [Helpers -> Holding \cup Ended \cup {"new"}]
  BY <1>1, <1>2 DEF SecretTypeOK
<1>6. w \notin Moving /\ (w \in Holding <=> w \notin Ended)
  BY DEF Holding, Moving, Ended
<1>7. OneHelper'
  BY <1>1, <1>2, <1>4, <1>6, HelperAssumption DEF OneHelper, SecretTypeOK
<1>8. \A g \in Helpers : \A v \in Moving : helper'[g] = v <=> helper[g] = v
  BY <1>1, <1>2, <1>3, <1>6 DEF SecretTypeOK
<1>. QED
  BY <1>3, <1>5, <1>7, <1>8, StillFiles

\* An answer starts a backup that has no number yet, or none.
LEMMA QueryFiles ==
    ASSUME FileInv, NEW h \in Helpers, Query(h), mishaps \subseteq mishaps'
    PROVE  FileInv'
<1>1. SecretTypeOK /\ OneHelper /\ MoveIsHelpers
  BY DEF FileInv
<1>2. /\ UNCHANGED fileVars
      /\ helper[h] \in {"query", "requery"}
      /\ owner' \in Helpers \cup {Unmanaged, Nobody}
      /\ child' \in SUBSET Helpers
  BY <1>1, KillTypes DEF Query, SecretTypeOK, processVars
<1>3. /\ \A g \in Helpers : g # h => helper[g] \notin Holding
      /\ move = NoMove /\ turn = h /\ helper[h] \notin Moving
  BY <1>1, <1>2, Alone DEF Holding, Moving, MoveIsHelpers, OneHelper
<1>4. \/ \E w \in {"mark", "claim"} : helper' = [helper EXCEPT ![h] = w] /\ UNCHANGED <<turn, move>>
      \/ helper' = [helper EXCEPT ![h] = "failed"] /\ turn' = Nobody /\ UNCHANGED move
      \/ /\ helper' = [helper EXCEPT ![h] = "backup"] /\ UNCHANGED turn
         /\ \E w \in {"spawn", "secret"} : move' = [NoMove EXCEPT !.next = w]
  BY DEF Query, Goto, End
<1>5. CASE UNCHANGED move
  <2>1. PICK w \in {"mark", "claim", "failed"} :
            /\ helper' = [helper EXCEPT ![h] = w]
            /\ turn' = IF w = "failed" THEN Nobody ELSE h
    BY <1>3, <1>4, <1>5 DEF NoMove
  <2>2. helper' \in [Helpers -> Holding \cup Ended \cup {"new"}]
    BY <1>1, <2>1 DEF SecretTypeOK, Holding, Ended
  <2>3. OneHelper'
    BY <1>1, <1>3, <2>1, HelperAssumption DEF OneHelper, SecretTypeOK, Holding
  <2>4. \A g \in Helpers : \A v \in Moving : helper'[g] = v <=> helper[g] = v
    BY <1>1, <1>3, <2>1 DEF SecretTypeOK, Moving
  <2>. QED
    BY <1>2, <1>5, <2>2, <2>3, <2>4, StillFiles
<1>6. CASE \E w \in {"spawn", "secret"} : move' = [NoMove EXCEPT !.next = w]
  <2>1. helper' = [helper EXCEPT ![h] = "backup"] /\ UNCHANGED turn
    BY <1>3, <1>4, <1>6 DEF NoMove
  <2>2. move'.number = 0 /\ move'.at = 0 /\ move'.next # "done" /\ move.number = 0 /\ move.at = 0
    BY <1>3, <1>6 DEF NoMove
  <2>3. SecretTypeOK'
    BY <1>1, <1>2, <1>6, <2>1, NumberAssumption DEF SecretTypeOK, fileVars, Holding, NoMove
  <2>4. OneHelper'
    BY <1>1, <1>3, <2>1 DEF OneHelper, SecretTypeOK, Holding
  <2>5. MoveIsHelpers' /\ NumberIsFree' /\ PlaceIsEmpty'
    BY <1>1, <1>3, <2>1, <2>2
       DEF MoveIsHelpers, NumberIsFree, PlaceIsEmpty, SecretTypeOK, Holding, Moving
  <2>6. SoundWalletStays'
    BY <1>2 DEF FileInv, SoundWalletStays, fileVars
  <2>7. OneWallet'
    BY <1>2, <2>2 DEF FileInv, OneWallet, Uniform, fileVars
  <2>. QED
    BY <2>3, <2>4, <2>5, <2>6, <2>7 DEF FileInv
<1>. QED
  BY <1>4, <1>5, <1>6

\* A number is chosen that nothing is kept under.
LEMMA ChooseNumberFiles ==
    ASSUME FileInv, NEW h \in Helpers, ChooseNumber(h)
    PROVE  FileInv'
<1>1. SecretTypeOK /\ OneHelper /\ MoveIsHelpers
  BY DEF FileInv
<1>2. UNCHANGED <<fileVars, owner, child, mishaps>> /\ helper[h] = "backup" /\ move.number = 0
  BY DEF ChooseNumber, processVars
<1>3. /\ \A g \in Helpers : g # h => helper[g] \notin Holding
      /\ turn = h
  BY <1>1, <1>2, Alone DEF Holding, OneHelper
<1>4. CASE helper' = [helper EXCEPT ![h] = "failed"] /\ turn' = Nobody /\ move' = NoMove
  <2>1. SecretTypeOK'
    BY <1>1, <1>2, <1>4, NumberAssumption DEF SecretTypeOK, fileVars, Ended, NoMove
  <2>2. OneHelper'
    BY <1>1, <1>3, <1>4, HelperAssumption DEF OneHelper, SecretTypeOK, Holding
  <2>3. MoveIsHelpers' /\ NumberIsFree' /\ PlaceIsEmpty'
    BY <1>1, <1>3, <1>4 DEF MoveIsHelpers, NumberIsFree, PlaceIsEmpty, SecretTypeOK, Holding, Moving, NoMove
  <2>4. SoundWalletStays' /\ OneWallet'
    BY <1>2, <1>4 DEF FileInv, SoundWalletStays, OneWallet, Uniform, fileVars, NoMove
  <2>. QED
    BY <2>1, <2>2, <2>3, <2>4 DEF FileInv
<1>5. CASE UNCHANGED <<helper, turn>>
  <2>. DEFINE free == {n \in 1..MaxNumber : Free(n)}
              number == CHOOSE n \in free : \A m \in free : n <= m
  <2>1. /\ wallet["kwl"] # 0 /\ free # {}
        /\ move' = [move EXCEPT !.number = number, !.files = {f \in Files : wallet[f] # 0}, !.at = 1]
    <3>1. helper'[h] = "backup"
      BY <1>2, <1>5
    <3>2. ~End(h, "failed")
      BY <1>1, <3>1 DEF End, Goto, SecretTypeOK
    <3>. QED
      BY <3>2 DEF ChooseNumber
  <2>2. number \in free
    <3>1. free \in SUBSET Nat
      BY NumberAssumption
    <3>. HIDE DEF free
    <3>. QED
      BY <2>1, <3>1, FirstFree
  <2>. HIDE DEF number
  <2>3. /\ number \in 1..MaxNumber /\ saved[number] = NoFiles
        /\ move'.number = number /\ move'.at = 1 /\ move'.next = move.next
        /\ move'.files = {f \in Files : wallet[f] # 0}
    BY <1>1, <2>1, <2>2 DEF SecretTypeOK, Free
  <2>4. SecretTypeOK'
    <3>1. move' \in [number : 0..MaxNumber, at : 0..4, files : SUBSET Files,
                     next : {"done", "spawn", "secret"}]
      <4>1. number \in 0..MaxNumber /\ 1 \in 0..4 /\ {f \in Files : wallet[f] # 0} \in SUBSET Files
        BY <2>3, NumberAssumption
      <4>2. PICK F \in SUBSET Files : move' = [move EXCEPT !.number = number, !.files = F, !.at = 1]
        BY <2>1, <4>1
      <4>3. move \in [number : 0..MaxNumber, at : 0..4, files : SUBSET Files,
                      next : {"done", "spawn", "secret"}]
        BY <1>1 DEF SecretTypeOK
      <4>. QED
        BY <4>1, <4>2, <4>3, Zenon
    <3>. QED
      BY <1>1, <1>2, <1>5, <3>1 DEF SecretTypeOK, fileVars
  <2>5. OneHelper'
    BY <1>1, <1>5 DEF OneHelper
  <2>6. MoveIsHelpers'
    BY <1>1, <1>2, <1>3, <1>5, <2>3 DEF MoveIsHelpers, SecretTypeOK, Holding, Moving
  <2>7. Aside' = 0
    BY <1>2, <1>3, <1>5, <2>3 DEF Aside, Holding
  <2>8. PlaceIsEmpty'
    BY <2>7, NamesFacts DEF PlaceIsEmpty
  <2>9. NumberIsFree'
    BY <1>2, <2>3, NamesFacts DEF NumberIsFree, NoFiles, fileVars
  <2>10. SoundWalletStays'
    BY <1>2 DEF FileInv, SoundWalletStays, fileVars
  <2>11. OneWallet'
    <3>. SUFFICES ASSUME mishaps \cap (Strays \cup {"undo"}) = {}
                  PROVE  OneWallet'
      BY <1>2 DEF OneWallet
    <3>1. Uniform(wallet) /\ \A n \in 1..MaxNumber : Uniform(saved[n])
      BY <1>2, NumberAssumption DEF FileInv, OneWallet
    <3>2. \A f \in Files : wallet[f] = wallet["kwl"]
      BY <3>1, NamesFacts DEF Uniform
    <3>3. move'.files = Files
      BY <2>1, <2>3, <3>2
    <3>5. Going' = wallet["kwl"]
      BY <1>2, <2>7 DEF Going, fileVars
    <3>6. Split(Going)'
      BY <1>2, <2>3, <2>7, <3>2, <3>5, NamesFacts DEF Split, NoFiles, fileVars
    <3>7. \A n \in 1..MaxNumber : Uniform(saved[n])'
      BY <1>2, <3>1 DEF Uniform, fileVars
    <3>. QED
      BY <2>1, <2>3, <3>3, <3>5, <3>6, <3>7, NumberAssumption DEF OneWallet
  <2>. QED
    BY <2>4, <2>5, <2>6, <2>8, <2>9, <2>10, <2>11 DEF FileInv
<1>. QED
  BY <1>4, <1>5 DEF ChooseNumber, End, Goto

\* The records that describe a backup, with another place in it.
LEMMA PlaceTypes ==
    ASSUME SecretTypeOK, NEW a \in 0..4, move' = [move EXCEPT !.at = a]
    PROVE  /\ move' \in [number : 0..MaxNumber, at : 0..4, files : SUBSET Files,
                         next : {"done", "spawn", "secret"}]
           /\ move'.at = a /\ move'.number = move.number
           /\ move'.files = move.files /\ move'.next = move.next
BY DEF SecretTypeOK

\* One file after the other is moved, or a failure leads to the rollback.
LEMMA RenameFiles ==
    ASSUME FileInv, LockedHasCause, NEW h \in Helpers, Rename(h), mishaps \subseteq mishaps'
    PROVE  FileInv'
<1>1. SecretTypeOK /\ OneHelper /\ MoveIsHelpers /\ NumberIsFree
  BY DEF FileInv
<1>2. /\ helper[h] = "backup" /\ move.at \in 1..3
      /\ UNCHANGED <<owner, child, turn>>
  BY NamesFacts DEF Rename, processVars
<1>3. /\ \A g \in Helpers : g # h => helper[g] \notin Holding
      /\ move.number \in 1..MaxNumber /\ move.number # 0
  BY <1>1, <1>2, Alone, NumberAssumption DEF Holding, MoveIsHelpers, SecretTypeOK
<1>4. Aside = move.at - 1
  BY <1>2, <1>3 DEF Aside, Holding
<1>. DEFINE f == Names[move.at]
<1>5. f \in Files /\ \A i \in 1..3 : Names[i] = f => i = move.at
  BY <1>2, NamesFacts
<1>6. CASE UNCHANGED helper /\ move' = [move EXCEPT !.at = @ + 1]
  <2>1. /\ move'.at = move.at + 1 /\ move'.number = move.number
        /\ move'.files = move.files /\ move'.next = move.next
        /\ move' \in [number : 0..MaxNumber, at : 0..4, files : SUBSET Files,
                      next : {"done", "spawn", "secret"}]
    BY <1>1, <1>2, <1>6, PlaceTypes
  <2>2. Aside' = move.at
    BY <1>2, <1>3, <1>6, <2>1 DEF Aside, Holding
  <2>3. OneHelper' /\ MoveIsHelpers'
    BY <1>1, <1>2, <1>3, <1>6, <2>1 DEF OneHelper, MoveIsHelpers, Holding, Moving
  <2>4. CASE f \in move.files
    <3>1. Moved(f, move.number) /\ wallet[f] # 0
      <4>1. ~Goto(h, "rollback")
        BY <1>1, <1>2, <1>6 DEF Goto, SecretTypeOK
      <4>. QED
        BY <2>4, <4>1 DEF Rename
    <3>2. /\ saved' = [saved EXCEPT ![move.number][f] = wallet[f]]
          /\ wallet' = [wallet EXCEPT ![f] = 0]
          /\ UNCHANGED <<broken, closed, wallets>>
      BY <3>1 DEF Moved
    <3>. HIDE DEF f
    <3>3. wallet' \in [Files -> Nat] /\ saved' \in [1..MaxNumber -> [Files -> Nat]]
      BY <1>1, <1>3, <1>5, <3>2 DEF SecretTypeOK
    <3>4. SecretTypeOK'
      BY <1>1, <1>2, <1>6, <2>1, <3>2, <3>3 DEF SecretTypeOK
    <3>5. /\ saved'[move.number][f] = wallet[f] /\ wallet'[f] = 0
          /\ \A g \in Files : g # f => saved'[move.number][g] = saved[move.number][g]
                                       /\ wallet'[g] = wallet[g]
          /\ \A n \in 1..MaxNumber : n # move.number => saved'[n] = saved[n]
      BY <1>1, <1>3, <1>5, <3>2 DEF SecretTypeOK
    <3>6. NumberIsFree'
      <4>1. ASSUME NEW i \in 1..3, i >= move.at + 1
            PROVE  saved'[move.number][Names[i]] = 0
        <5>1. Names[i] \in Files /\ Names[i] # f /\ i >= move.at
          BY <1>2, <1>5, <4>1, NamesFacts
        <5>2. saved[move.number][Names[i]] = 0
          BY <1>1, <1>2, <1>3, <5>1, NamesFacts DEF NumberIsFree
        <5>. QED
          BY <3>5, <5>1, <5>2
      <4>. QED
        BY <2>1, <4>1, NamesFacts DEF NumberIsFree
    <3>7. PlaceIsEmpty'
      <4>. SUFFICES ASSUME NoStrays, NEW i \in 1..3, i <= move.at, Names[i] \in move.files
                    PROVE  wallet'[Names[i]] = 0
        BY <2>1, <2>2, NamesFacts DEF PlaceIsEmpty, NoStrays
      <4>1. CASE i = move.at
        BY <3>5, <4>1 DEF f
      <4>2. CASE i < move.at
        <5>1. wallet[Names[i]] = 0 /\ Names[i] \in Files
          BY <1>2, <1>3, <1>4, <4>2, NamesFacts DEF FileInv, PlaceIsEmpty
        <5>. QED
          BY <3>5, <5>1
      <4>. QED
        BY <1>2, <4>1, <4>2
    <3>8. SoundWalletStays'
      <4>. SUFFICES ASSUME Trusted, NEW n \in 1..MaxNumber
                    PROVE  saved'[n]["kwl"] \in Locked \cup {0}
        BY <3>2 DEF SoundWalletStays, Trusted, Locked
      <4>1. saved[n]["kwl"] \in Locked \cup {0}
        BY DEF FileInv, SoundWalletStays, Trusted, Locked
      <4>2. CASE n = move.number /\ f = "kwl"
        <5>1. move.at = 1
          BY <1>5, <4>2, NamesFacts
        <5>2. wallet["kwl"] \in Locked
          BY <1>2, <5>1 DEF LockedHasCause
        <5>. QED
          BY <3>5, <4>2, <5>2
      <4>3. CASE ~(n = move.number /\ f = "kwl")
        BY <3>5, <4>1, <4>3, NamesFacts
      <4>. QED
        BY <4>2, <4>3
    <3>9. OneWallet'
      <4>. SUFFICES ASSUME mishaps \cap (Strays \cup {"undo"}) = {}
                    PROVE  OneWallet'
        BY DEF OneWallet
      <4>1. /\ \A n \in 1..MaxNumber : n # move.number => Uniform(saved[n])
            /\ move.files = Files /\ Going # 0 /\ Split(Going)
        BY <1>3 DEF FileInv, OneWallet
      <4>2. wallet[f] = Going
        BY <1>2, <1>4, <4>1, NamesFacts DEF Split, f
      <4>3. Going' = Going
        <5>1. Going' = saved'[move.number]["kwl"]
          BY <1>2, <2>1, <2>2 DEF Going
        <5>2. CASE move.at = 1
          BY <3>5, <4>2, <5>1, <5>2, NamesFacts DEF f
        <5>3. CASE move.at # 1
          BY <1>2, <1>4, <1>5, <3>5, <5>1, <5>3, NamesFacts DEF Going
        <5>. QED
          BY <5>2, <5>3
      <4>4. ASSUME NEW i \in 1..3
            PROVE  IF i <= move.at
                   THEN saved'[move.number][Names[i]] = Going /\ wallet'[Names[i]] = 0
                   ELSE saved'[move.number][Names[i]] = 0 /\ wallet'[Names[i]] = Going
        <5>1. CASE i = move.at
          BY <1>2, <3>5, <4>2, <5>1 DEF f
        <5>2. CASE i # move.at
          <6>1. Names[i] \in Files /\ Names[i] # f
            BY <1>5, <5>2, NamesFacts
          <6>2. IF i <= move.at - 1
                THEN saved[move.number][Names[i]] = Going /\ wallet[Names[i]] = 0
                ELSE saved[move.number][Names[i]] = 0 /\ wallet[Names[i]] = Going
            BY <1>4, <4>1, NamesFacts DEF Split
          <6>. QED
            BY <1>2, <3>5, <5>2, <6>1, <6>2
        <5>. QED
          BY <5>1, <5>2
      <4>5. Split(Going)'
        BY <2>1, <2>2, <4>3, <4>4, NamesFacts DEF Split
      <4>6. \A n \in 1..MaxNumber : n # move.number => Uniform(saved[n])'
        BY <3>5, <4>1 DEF Uniform
      <4>. QED
        BY <1>3, <2>1, <4>1, <4>3, <4>5, <4>6 DEF OneWallet
    <3>. QED
      BY <2>3, <3>4, <3>6, <3>7, <3>8, <3>9 DEF FileInv
  <2>5. CASE f \notin move.files
    <3>1. UNCHANGED fileVars
      BY <2>5 DEF Rename
    <3>2. SecretTypeOK'
      BY <1>1, <1>2, <1>6, <2>1, <3>1 DEF SecretTypeOK, fileVars
    <3>3. NumberIsFree' /\ SoundWalletStays'
      BY <1>1, <1>2, <1>6, <2>1, <3>1, NamesFacts
         DEF FileInv, NumberIsFree, SoundWalletStays, fileVars
    <3>4. PlaceIsEmpty'
      BY <1>2, <1>4, <2>1, <2>2, <2>5, <3>1, NamesFacts
         DEF FileInv, PlaceIsEmpty, NoStrays, fileVars
    <3>5. OneWallet'
      <4>1. mishaps \cap (Strays \cup {"undo"}) # {}
        BY <1>3, <1>5, <2>5 DEF FileInv, OneWallet
      <4>. QED
        BY <4>1 DEF OneWallet
    <3>. QED
      BY <2>3, <3>2, <3>3, <3>4, <3>5 DEF FileInv
  <2>. QED
    BY <2>4, <2>5
<1>7. CASE /\ helper' = [helper EXCEPT ![h] = "rollback"]
           /\ move' = [move EXCEPT !.at = @ - 1]
           /\ UNCHANGED fileVars
  <2>1. /\ move'.at = move.at - 1 /\ move'.number = move.number
        /\ move'.files = move.files /\ move'.next = move.next
        /\ move' \in [number : 0..MaxNumber, at : 0..4, files : SUBSET Files,
                      next : {"done", "spawn", "secret"}]
    BY <1>1, <1>2, <1>7, PlaceTypes
  <2>2. Aside' = Aside
    BY <1>1, <1>4, <1>7, <2>1 DEF Aside, SecretTypeOK
  <2>3. SecretTypeOK'
    BY <1>1, <1>2, <1>7, <2>1 DEF SecretTypeOK, fileVars, Holding
  <2>4. OneHelper' /\ MoveIsHelpers' /\ NumberIsFree'
    BY <1>1, <1>2, <1>3, <1>7, <2>1
       DEF OneHelper, MoveIsHelpers, NumberIsFree, SecretTypeOK, Holding, Moving
  <2>5. PlaceIsEmpty'
    BY <1>7, <2>1, <2>2 DEF FileInv, PlaceIsEmpty, NoStrays, fileVars
  <2>6. SoundWalletStays' /\ OneWallet'
    BY <1>7, <2>1, <2>2
       DEF FileInv, SoundWalletStays, OneWallet, Uniform, Going, Split, fileVars
  <2>. QED
    BY <2>3, <2>4, <2>5, <2>6 DEF FileInv
<1>. QED
  BY <1>6, <1>7 DEF Rename, Goto

\* The end of a backup, of a rollback or of a helper: the files stay.
LEMMA EndOfMove ==
    ASSUME FileInv, NEW h \in Helpers, helper[h] \in Holding,
           NEW w \in (Holding \ Moving) \cup Ended,
           helper' = [helper EXCEPT ![h] = w],
           turn' = IF w \in Ended THEN Nobody ELSE h,
           move' = NoMove, UNCHANGED <<fileVars, owner, child>>,
           mishaps \subseteq mishaps',
           mishaps' \cap (Strays \cup {"undo"}) = {} =>
               Uniform(wallet) /\ \A n \in 1..MaxNumber : Uniform(saved[n])
    PROVE  FileInv'
<1>1. SecretTypeOK /\ OneHelper
  BY DEF FileInv
<1>2. \A g \in Helpers : g # h => helper[g] \notin Holding
  BY <1>1, Alone
<1>3. SecretTypeOK'
  BY <1>1, NumberAssumption DEF SecretTypeOK, fileVars, NoMove
<1>4. w \in Holding <=> w \notin Ended
  BY DEF Holding, Ended
<1>5. OneHelper'
  BY <1>1, <1>2, <1>4, HelperAssumption DEF OneHelper, SecretTypeOK
<1>6. \A g \in Helpers : helper'[g] \notin Moving
  BY <1>1, <1>2 DEF SecretTypeOK, Holding, Moving, Ended
<1>7. MoveIsHelpers' /\ NumberIsFree' /\ PlaceIsEmpty'
  BY <1>6 DEF MoveIsHelpers, NumberIsFree, PlaceIsEmpty, Moving, NoMove
<1>8. SoundWalletStays'
  BY DEF FileInv, SoundWalletStays, fileVars
<1>9. OneWallet'
  BY DEF OneWallet, Uniform, NoMove, fileVars
<1>. QED
  BY <1>3, <1>5, <1>7, <1>8, <1>9 DEF FileInv

\* All files are set aside: what is in place is uniform, being nothing.
LEMMA BackupDoneFiles ==
    ASSUME FileInv, NEW h \in Helpers, BackupDone(h)
    PROVE  FileInv'
<1>1. SecretTypeOK /\ OneHelper /\ MoveIsHelpers
  BY DEF FileInv
<1>2. /\ helper[h] = "backup" /\ move.at = 4 /\ move.number # 0
      /\ move.next \in {"spawn", "secret"}
      /\ helper' = [helper EXCEPT ![h] = move.next] /\ move' = NoMove
      /\ UNCHANGED <<fileVars, owner, child, turn, mishaps>>
  BY <1>1, NamesFacts DEF BackupDone, Goto, processVars, MoveIsHelpers, SecretTypeOK
<1>3. turn = h /\ \A g \in Helpers : g # h => helper[g] \notin Holding
  BY <1>1, <1>2, Alone DEF OneHelper, Holding
<1>4. Aside = 3
  BY <1>2, <1>3 DEF Aside, Holding
<1>5. ASSUME mishaps \cap (Strays \cup {"undo"}) = {}
      PROVE  Uniform(wallet) /\ \A n \in 1..MaxNumber : Uniform(saved[n])
  <2>1. Split(Going) /\ \A n \in 1..MaxNumber : n # move.number => Uniform(saved[n])
    BY <1>2, <1>5 DEF FileInv, OneWallet
  <2>2. \A i \in 1..3 : saved[move.number][Names[i]] = Going /\ wallet[Names[i]] = 0
    BY <1>4, <2>1, NamesFacts DEF Split
  <2>. QED
    BY <2>1, <2>2, NamesFacts DEF Uniform
<1>. QED
  BY <1>2, <1>3, <1>5, EndOfMove DEF Holding, Moving, Ended

\* A rollback goes back over the files it moved and ends with the wallet whole.
LEMMA RollbackFiles ==
    ASSUME FileInv, NEW h \in Helpers, Rollback(h), mishaps \subseteq mishaps'
    PROVE  FileInv'
<1>1. SecretTypeOK /\ OneHelper /\ MoveIsHelpers
  BY DEF FileInv
<1>2. /\ helper[h] = "rollback" /\ move.at \in 0..3 /\ move.number \in 1..MaxNumber
      /\ move.number # 0 /\ UNCHANGED <<owner, child>>
  BY <1>1, NumberAssumption DEF Rollback, MoveIsHelpers, SecretTypeOK, processVars
<1>3. turn = h /\ \A g \in Helpers : g # h => helper[g] \notin Holding
  BY <1>1, <1>2, Alone DEF OneHelper, Holding
<1>4. Aside = move.at
  BY <1>2 DEF Aside
<1>5. CASE move.at = 0
  <2>1. /\ helper' = [helper EXCEPT ![h] = "failed"] /\ turn' = Nobody /\ move' = NoMove
        /\ UNCHANGED <<fileVars, mishaps>>
    BY <1>5 DEF Rollback, End, Goto
  <2>2. ASSUME mishaps \cap (Strays \cup {"undo"}) = {}
        PROVE  Uniform(wallet) /\ \A n \in 1..MaxNumber : Uniform(saved[n])
    <3>1. Split(Going) /\ \A n \in 1..MaxNumber : n # move.number => Uniform(saved[n])
      BY <1>2, <2>2 DEF FileInv, OneWallet
    <3>2. \A i \in 1..3 : saved[move.number][Names[i]] = 0 /\ wallet[Names[i]] = Going
      BY <1>4, <1>5, <3>1, NamesFacts DEF Split
    <3>. QED
      BY <3>1, <3>2, NamesFacts DEF Uniform
  <2>. QED
    BY <1>2, <2>1, <2>2, EndOfMove DEF Holding, Moving, Ended
<1>6. CASE move.at # 0
  <2>. DEFINE f == Names[move.at]
  <2>1. f \in Files /\ move.at \in 1..3 /\ \A i \in 1..3 : Names[i] = f => i = move.at
    BY <1>2, <1>6, NamesFacts
  <2>2. UNCHANGED <<helper, turn>> /\ move' = [move EXCEPT !.at = @ - 1]
    BY <1>6 DEF Rollback
  <2>3. /\ move'.at = move.at - 1 /\ move'.number = move.number
        /\ move'.files = move.files /\ move'.next = move.next
        /\ move' \in [number : 0..MaxNumber, at : 0..4, files : SUBSET Files,
                      next : {"done", "spawn", "secret"}]
    BY <1>1, <2>1, <2>2, PlaceTypes
  <2>4. Aside' = move.at - 1
    BY <1>2, <2>2, <2>3 DEF Aside
  <2>5. OneHelper' /\ MoveIsHelpers' /\ NumberIsFree'
    BY <1>1, <1>2, <1>3, <2>1, <2>2, <2>3
       DEF OneHelper, MoveIsHelpers, NumberIsFree, Holding, Moving
  <2>6. CASE UNCHANGED fileVars
    <3>1. SecretTypeOK'
      BY <1>1, <1>2, <2>2, <2>3, <2>6 DEF SecretTypeOK, fileVars
    <3>2. PlaceIsEmpty'
      BY <1>2, <1>4, <2>1, <2>3, <2>4, <2>6, NamesFacts
         DEF FileInv, PlaceIsEmpty, NoStrays, fileVars
    <3>3. SoundWalletStays'
      BY <2>6 DEF FileInv, SoundWalletStays, fileVars
    <3>4. OneWallet'
      <4>1. f \notin move.files \/ "undo" \in mishaps' \/ Undo(f, move.number)
        BY <1>6 DEF Rollback, Mishap, Mishaps
      <4>2. CASE f \notin move.files
        <5>1. mishaps \cap (Strays \cup {"undo"}) # {}
          BY <1>2, <2>1, <4>2 DEF FileInv, OneWallet
        <5>. QED
          BY <5>1 DEF OneWallet
      <4>3. CASE Undo(f, move.number)
        <5>1. saved[move.number][f] = 0 /\ wallet[f] = saved[move.number][f]
          <6>. HIDE DEF f
          <6>. QED
            BY <1>1, <1>2, <2>1, <2>6, <4>3 DEF Undo, SecretTypeOK, fileVars
        <5>2. mishaps \cap (Strays \cup {"undo"}) # {}
          <6>. SUFFICES ASSUME mishaps \cap (Strays \cup {"undo"}) = {} PROVE FALSE
            OBVIOUS
          <6>1. Split(Going) /\ Going # 0
            BY <1>2 DEF FileInv, OneWallet
          <6>. QED
            BY <1>4, <2>1, <5>1, <6>1, NamesFacts DEF Split
        <5>. QED
          BY <5>2 DEF OneWallet
      <4>. QED
        BY <4>1, <4>2, <4>3 DEF OneWallet
    <3>. QED
      BY <2>5, <3>1, <3>2, <3>3, <3>4 DEF FileInv
  <2>7. CASE Undo(f, move.number)
    <3>. HIDE DEF f
    <3>1. /\ wallet' = [wallet EXCEPT ![f] = saved[move.number][f]]
          /\ saved' = [saved EXCEPT ![move.number][f] = 0]
          /\ UNCHANGED <<broken, closed, wallets>>
      BY <2>7 DEF Undo
    <3>2. wallet' \in [Files -> Nat] /\ saved' \in [1..MaxNumber -> [Files -> Nat]]
      BY <1>1, <1>2, <2>1, <3>1 DEF SecretTypeOK
    <3>3. SecretTypeOK'
      BY <1>1, <1>2, <2>2, <2>3, <3>1, <3>2 DEF SecretTypeOK
    <3>4. /\ saved'[move.number][f] = 0 /\ wallet'[f] = saved[move.number][f]
          /\ \A g \in Files : g # f => saved'[move.number][g] = saved[move.number][g]
                                       /\ wallet'[g] = wallet[g]
          /\ \A n \in 1..MaxNumber : n # move.number => saved'[n] = saved[n]
      BY <1>1, <1>2, <2>1, <3>1 DEF SecretTypeOK
    <3>5. PlaceIsEmpty'
      <4>. SUFFICES ASSUME NoStrays, NEW i \in 1..3, i <= move.at - 1, Names[i] \in move.files
                    PROVE  wallet'[Names[i]] = 0
        BY <2>3, <2>4, NamesFacts DEF PlaceIsEmpty, NoStrays
      <4>1. wallet[Names[i]] = 0 /\ Names[i] \in Files /\ Names[i] # f
        BY <1>2, <1>4, <2>1, NamesFacts DEF FileInv, PlaceIsEmpty
      <4>. QED
        BY <3>4, <4>1
    <3>6. SoundWalletStays'
      BY <3>1, <3>4, NamesFacts DEF FileInv, SoundWalletStays
    <3>7. OneWallet'
      <4>. SUFFICES ASSUME mishaps \cap (Strays \cup {"undo"}) = {}
                    PROVE  OneWallet'
        BY DEF OneWallet
      <4>1. /\ \A n \in 1..MaxNumber : n # move.number => Uniform(saved[n])
            /\ move.files = Files /\ Going # 0 /\ Split(Going)
        BY <1>2 DEF FileInv, OneWallet
      <4>2. saved[move.number][f] = Going
        BY <1>4, <2>1, <4>1, NamesFacts DEF Split, f
      <4>3. Going' = Going
        <5>1. CASE move.at = 1
          BY <2>4, <3>4, <4>2, <5>1, NamesFacts DEF Going, f
        <5>2. CASE move.at # 1
          BY <1>4, <2>1, <2>3, <2>4, <3>4, <5>2, NamesFacts DEF Going
        <5>. QED
          BY <5>1, <5>2
      <4>4. ASSUME NEW i \in 1..3
            PROVE  IF i <= move.at - 1
                   THEN saved'[move.number][Names[i]] = Going /\ wallet'[Names[i]] = 0
                   ELSE saved'[move.number][Names[i]] = 0 /\ wallet'[Names[i]] = Going
        <5>1. CASE i = move.at
          BY <2>1, <3>4, <4>2, <5>1 DEF f
        <5>2. CASE i # move.at
          <6>1. Names[i] \in Files /\ Names[i] # f
            BY <2>1, <5>2, NamesFacts
          <6>2. IF i <= move.at
                THEN saved[move.number][Names[i]] = Going /\ wallet[Names[i]] = 0
                ELSE saved[move.number][Names[i]] = 0 /\ wallet[Names[i]] = Going
            BY <1>4, <4>1, NamesFacts DEF Split
          <6>. QED
            BY <2>1, <3>4, <5>2, <6>1, <6>2
        <5>. QED
          BY <5>1, <5>2
      <4>5. Split(Going)'
        BY <2>3, <2>4, <4>3, <4>4, NamesFacts DEF Split
      <4>6. \A n \in 1..MaxNumber : n # move.number => Uniform(saved[n])'
        BY <3>4, <4>1 DEF Uniform
      <4>. QED
        BY <1>2, <2>3, <4>1, <4>3, <4>5, <4>6 DEF OneWallet
    <3>. QED
      BY <2>5, <3>3, <3>5, <3>6, <3>7 DEF FileInv
  <2>. QED
    BY <1>6, <2>6, <2>7 DEF Rollback
<1>. QED
  BY <1>5, <1>6

\* A provider creates files; a known one does so only while none are moved.
LEMMA CreateFiles ==
    ASSUME FileInv, ProvidersKnown, Create, UNCHANGED <<child, helper, turn, move, mishaps>>,
           owner' \in Helpers \cup {Unmanaged, Nobody}, owner # Nobody \/ child # {}
    PROVE  FileInv'
<1>. USE DEF FileInv
<1>1. /\ saved' = saved /\ wallets' = wallets + 1
      /\ wallet' = [f \in Files |-> IF wallet[f] = 0 THEN wallets + 1 ELSE wallet[f]]
      /\ broken \subseteq broken' /\ broken' \in SUBSET (Nat \ {0}) /\ closed' = closed
  BY DEF Create, SecretTypeOK
<1>2. SecretTypeOK'
  BY <1>1 DEF SecretTypeOK
<1>3. OneHelper' /\ MoveIsHelpers' /\ NumberIsFree'
  BY <1>1 DEF OneHelper, MoveIsHelpers, NumberIsFree
<1>4. SoundWalletStays'
  BY <1>1 DEF SoundWalletStays
<1>5. NoStrays => move.number = 0
  BY DEF ProvidersKnown, MoveIsHelpers, NoMove, Moving
<1>6. PlaceIsEmpty'
  BY <1>5 DEF PlaceIsEmpty, NoStrays
<1>7. OneWallet'
  <2>. SUFFICES ASSUME mishaps \cap (Strays \cup {"undo"}) = {}
                PROVE  OneWallet'
    BY DEF OneWallet
  <2>1. move.number = 0
    BY <1>5 DEF NoStrays
  <2>2. Uniform(wallet)' /\ \A n \in 1..MaxNumber : n # move.number => Uniform(saved[n])'
    BY <1>1, <2>1 DEF OneWallet, Uniform
  <2>. QED
    BY <2>1, <2>2 DEF OneWallet
<1>. QED
  BY <1>2, <1>3, <1>4, <1>6, <1>7

LEMMA ProviderFiles ==
    ASSUME FileInv, ProvidersKnown,
           \/ \E h \in Helpers : ProviderClaims(h)
           \/ ProviderDies \/ UnmanagedClaims \/ SurvivorCreates \/ GuestCloses
    PROVE  FileInv'
<1>1. SecretTypeOK /\ OneHelper
  BY DEF FileInv
<1>2. ASSUME NEW h \in Helpers, ProviderClaims(h)
      PROVE  FileInv'
  <2>1. CASE Create
    BY <1>2, <2>1, CreateFiles DEF ProviderClaims
  <2>2. CASE UNCHANGED fileVars
    BY <1>1, <1>2, <2>2, StillFiles DEF ProviderClaims, SecretTypeOK, OneHelper
  <2>. QED
    BY <1>2, <2>1, <2>2 DEF ProviderClaims
<1>3. CASE ProviderDies
  BY <1>1, <1>3, StillFiles DEF ProviderDies, SecretTypeOK, OneHelper, Mishap, Mishaps
<1>4. CASE UnmanagedClaims
  BY <1>1, <1>4, StillFiles DEF UnmanagedClaims, SecretTypeOK, OneHelper, Mishap, Mishaps
<1>5. CASE SurvivorCreates
  BY <1>1, <1>5, CreateFiles, HelperAssumption DEF SurvivorCreates, processVars, SecretTypeOK
<1>6. CASE GuestCloses
  <2>1. /\ closed' = closed \cup {wallet["kwl"]} /\ wallet["kwl"] # 0
        /\ UNCHANGED <<wallet, saved, broken, wallets, processVars, ready, turn, helper, move,
                       backedUp, mishaps>>
    BY <1>6 DEF GuestCloses
  <2>2. closed' \in SUBSET (Nat \ {0})
    <3>1. wallet["kwl"] \in Nat
      BY <1>1, NamesFacts DEF SecretTypeOK
    <3>2. closed \in SUBSET (Nat \ {0})
      BY <1>1 DEF SecretTypeOK
    <3>. QED
      BY <2>1, <3>1, <3>2
  <2>3. SecretTypeOK'
    BY <1>1, <2>1, <2>2 DEF SecretTypeOK, processVars
  <2>4. SoundWalletStays'
    <3>1. \A n \in 1..MaxNumber : saved'[n]["kwl"] = saved[n]["kwl"]
      BY <2>1
    <3>. QED
      BY <2>1, <3>1 DEF FileInv, SoundWalletStays
  <2>5. OneHelper' /\ MoveIsHelpers' /\ NumberIsFree'
    BY <2>1 DEF FileInv, OneHelper, MoveIsHelpers, NumberIsFree
  <2>6. PlaceIsEmpty' /\ OneWallet'
    BY <2>1 DEF FileInv, PlaceIsEmpty, OneWallet, NoStrays, Aside, Going, Split, Uniform
  <2>. QED
    BY <2>3, <2>4, <2>5, <2>6 DEF FileInv
<1>. QED
  BY <1>2, <1>3, <1>4, <1>5, <1>6

LEMMA KilledFiles ==
    ASSUME FileInv, NEW h \in Helpers, HelperKilled(h)
    PROVE  FileInv'
<1>1. helper[h] \in Holding
  BY DEF FileInv, SecretTypeOK, HelperKilled
<1>2. mishaps \subseteq mishaps' /\ "kill" \in mishaps'
  BY DEF HelperKilled, Mishap, Mishaps
<1>3. mishaps' \cap (Strays \cup {"undo"}) # {}
  BY <1>2 DEF Strays
<1>4. /\ helper' = [helper EXCEPT ![h] = "killed"] /\ turn' = Nobody /\ move' = NoMove
      /\ UNCHANGED <<fileVars, owner, child>>
  BY DEF HelperKilled, End, Goto, processVars
<1>. QED
  BY <1>1, <1>2, <1>3, <1>4, EndOfMove DEF Ended

-----------------------------------------------------------------------------
(* Who runs, and which wallet is about to be set aside.                     *)

\* Without strays kill_provider leaves no provider that a helper started.
LEMMA KillClears ==
    ASSUME SecretTypeOK, ProvidersKnown, NEW h \in Helpers, turn = h, NEW kinds,
           Kill(h, kinds), NoStrays'
    PROVE  owner' = Nobody /\ child' = {}
<1>1. NoStrays
  BY DEF NoStrays, Kill, Mishaps
<1>2. "pid" \notin mishaps'
  BY DEF NoStrays, Strays
<1>3. owner' = Nobody /\ child' = child \ {owner, h}
  BY <1>2 DEF Kill, Mishaps
<1>. QED
  BY <1>1, <1>3 DEF ProvidersKnown, SecretTypeOK

LEMMA ProvidersStep ==
    ASSUME FileInv, ProvidersKnown, SecretNext, mishaps \subseteq mishaps'
    PROVE  ProvidersKnown'
<1>. USE HelperAssumption DEF FileInv
<1>. SUFFICES ASSUME NoStrays' PROVE ProvidersKnown'
  BY DEF ProvidersKnown
<1>1. NoStrays /\ "kill" \notin mishaps' /\ "unmanaged" \notin mishaps'
  BY DEF NoStrays, Strays
<1>2. /\ owner # Unmanaged
      /\ \A c \in child : c = owner \/ (turn = c /\ helper[c] = "wait")
      /\ \A h \in Helpers :
           /\ helper[h] \in {"secret", "spawn"} \cup Moving => owner = Nobody /\ child = {}
           /\ helper[h] = "wait" => owner \in {Nobody, h}
  BY <1>1 DEF ProvidersKnown
<1>3. ASSUME NEW h \in Helpers, ProviderClaims(h)
      PROVE  ProvidersKnown'
  BY <1>2, <1>3 DEF ProviderClaims, ProvidersKnown, SecretTypeOK, OneHelper, Holding, Moving
<1>4. ~UnmanagedClaims /\ \A h \in Helpers : ~HelperKilled(h)
  BY <1>1 DEF HelperKilled, UnmanagedClaims, Mishap, Mishaps
<1>5. CASE ProviderDies \/ SurvivorCreates \/ GuestCloses
  BY <1>2, <1>5 DEF ProviderDies, SurvivorCreates, GuestCloses, ProvidersKnown, processVars
<1>6. ASSUME NEW h \in Helpers, HelperStep(h)
      PROVE  ProvidersKnown'
  <2>1. CASE Start(h)
    BY <1>2, <2>1, Alone DEF Start, Goto, ProvidersKnown, SecretTypeOK, OneHelper, processVars,
                             Holding, Moving
  <2>2. helper[h] # "new" => turn = h /\ \A g \in Helpers : g # h => helper[g] \notin Holding
    BY <1>6, Alone
       DEF HelperStep, Start, Check, RetrieveSecret, Spawn, WaitForOwner, Query, NoProxy, Mark,
           Claim, ChooseNumber, Rename, BackupDone, Rollback, OneHelper, Holding
  <2>. DEFINE Others(w) == /\ helper' = [helper EXCEPT ![h] = w]
                           /\ turn' \in {turn, Nobody}
  <2>3. ASSUME helper[h] # "new", owner' = Nobody, child' = {}, NEW w, Others(w), w # "new"
        PROVE  ProvidersKnown'
    BY <2>2, <2>3 DEF ProvidersKnown, SecretTypeOK, Holding, Moving
  <2>4. ASSUME helper[h] \notin {"new", "wait"}, UNCHANGED <<owner, child>>, NEW w, Others(w),
               w \notin {"secret", "spawn", "wait"} \cup Moving
        PROVE  ProvidersKnown'
    BY <1>2, <2>2, <2>4 DEF ProvidersKnown, SecretTypeOK, OneHelper, Holding, Moving
  <2>5. CASE Check(h)
    BY <1>2, <2>2, <2>3, <2>4, <2>5
       DEF Check, Goto, End, processVars, SecretTypeOK, OneHelper, Moving
  <2>6. CASE RetrieveSecret(h)
    BY <1>2, <2>3, <2>6 DEF RetrieveSecret, Goto, End, processVars
  <2>7. CASE Spawn(h)
    <3>1. owner = Nobody /\ child = {} /\ owner' = owner
      BY <1>2, <2>7 DEF Spawn
    <3>2. CASE child' = child \cup {h} /\ Goto(h, "wait") /\ UNCHANGED turn
      BY <2>2, <2>7, <3>1, <3>2
         DEF Spawn, Goto, ProvidersKnown, SecretTypeOK, OneHelper, Holding, Moving
    <3>3. CASE End(h, "failed") /\ UNCHANGED child
      BY <2>3, <2>7, <3>1, <3>3 DEF Spawn, End, Goto
    <3>. QED
      BY <2>7, <3>2, <3>3 DEF Spawn
  <2>8. CASE WaitForOwner(h)
    <3>1. CASE owner # Nobody
      <4>1. owner = h /\ UNCHANGED <<owner, child, turn>> /\ helper' = [helper EXCEPT ![h] = "requery"]
        BY <1>2, <2>8, <3>1 DEF WaitForOwner, Goto, processVars
      <4>. QED
        BY <1>2, <2>2, <2>8, <4>1
           DEF WaitForOwner, ProvidersKnown, SecretTypeOK, OneHelper, Holding, Moving
    <3>2. CASE owner = Nobody
      BY <2>2, <2>3, <2>8, <3>2, KillClears DEF WaitForOwner, End, Goto
    <3>. QED
      BY <3>1, <3>2
  <2>9. CASE Query(h)
    <3>1. helper[h] \in {"query", "requery"} /\ turn = h
      BY <2>2, <2>9 DEF Query
    <3>2. CASE UNCHANGED processVars
      <4>1. \E w \in {"mark", "claim", "failed", "backup"} : Others(w)
        BY <2>9 DEF Query, Goto, End
      <4>2. CASE Others("backup")
        <5>1. \E kinds : Kill(h, kinds)
          BY <2>9, <3>1, <4>2 DEF Query, Goto, End, SecretTypeOK
        <5>. QED
          BY <2>3, <3>1, <4>2, <5>1, KillClears
      <4>. QED
        BY <2>4, <3>1, <3>2, <4>1, <4>2 DEF processVars, Moving
    <3>3. CASE \E kinds : Kill(h, kinds)
      <4>1. \E w \in {"mark", "claim", "failed", "backup"} : Others(w)
        BY <2>9 DEF Query, Goto, End
      <4>. QED
        BY <2>3, <3>1, <3>3, <4>1, KillClears
    <3>. QED
      BY <2>9, <3>2, <3>3 DEF Query
  <2>10. CASE NoProxy(h)
    <3>1. helper[h] \in {"query", "requery"} /\ turn = h /\ Others("failed")
      BY <2>2, <2>10 DEF NoProxy, End, Goto
    <3>. QED
      BY <2>3, <2>4, <2>10, <3>1, KillClears DEF NoProxy, processVars, Moving
  <2>11. CASE Mark(h)
    <3>1. helper[h] = "mark" /\ turn = h
      BY <2>2, <2>11 DEF Mark
    <3>. QED
      BY <2>3, <2>4, <2>11, <3>1, KillClears DEF Mark, End, Goto, processVars, Moving
  <2>12. CASE Claim(h)
    BY <2>4, <2>12 DEF Claim, End, Goto, processVars, Moving
  <2>13. CASE ChooseNumber(h) \/ Rename(h) \/ BackupDone(h) \/ Rollback(h)
    <3>1. owner = Nobody /\ child = {} /\ UNCHANGED <<owner, child>> /\ helper[h] \in Moving
      BY <1>2, <2>13 DEF ChooseNumber, Rename, BackupDone, Rollback, processVars, Moving
    <3>2. UNCHANGED <<helper, turn>> \/ \E w : Others(w) /\ w # "new"
      BY <2>13 DEF ChooseNumber, Rename, BackupDone, Rollback, End, Goto, SecretTypeOK
    <3>. QED
      BY <1>2, <2>3, <3>1, <3>2 DEF ProvidersKnown, Moving
  <2>. QED
    BY <1>6, <2>1, <2>5, <2>6, <2>7, <2>8, <2>9, <2>10, <2>11, <2>12, <2>13 DEF HelperStep
<1>. QED
  BY <1>3, <1>4, <1>5, <1>6 DEF SecretNext

\* Only a query starts a backup, and only of a wallet that a managed provider
\* rightly says is locked; until the wallet file moves nobody replaces it.
LEMMA LockedStep ==
    ASSUME FileInv, LockedHasCause, SecretNext, mishaps \subseteq mishaps'
    PROVE  LockedHasCause'
<1>. USE HelperAssumption DEF FileInv
<1>. SUFFICES ASSUME Trusted' PROVE LockedHasCause'
  BY DEF LockedHasCause
<1>1. /\ "unmanaged" \notin mishaps' /\ "orphan" \notin mishaps' /\ owner # Unmanaged
      /\ \A h \in Helpers : helper[h] = "backup" /\ move.at <= 1 => wallet["kwl"] \in Locked
  BY DEF LockedHasCause, Trusted
<1>2. "kwl" \in Files
  BY NamesFacts
<1>3. ASSUME owner' # Unmanaged, UNCHANGED move, Locked \subseteq Locked',
             wallet["kwl"] \in Locked => wallet'["kwl"] = wallet["kwl"],
             \A g \in Helpers : helper'[g] = "backup" => helper[g] = "backup"
      PROVE  LockedHasCause'
  BY <1>1, <1>3 DEF LockedHasCause
<1>4. ASSUME owner' # Unmanaged, \A g \in Helpers : helper'[g] # "backup"
      PROVE  LockedHasCause'
  BY <1>4 DEF LockedHasCause
<1>5. ASSUME Create
      PROVE  Locked \subseteq Locked' /\ (wallet["kwl"] \in Locked => wallet'["kwl"] = wallet["kwl"])
  BY <1>2, <1>5 DEF Create, SecretTypeOK, Locked
<1>6. ASSUME NEW h \in Helpers, ProviderClaims(h)
      PROVE  LockedHasCause'
  BY <1>3, <1>5, <1>6 DEF ProviderClaims, fileVars, Locked
<1>7. CASE ProviderDies
  BY <1>3, <1>7 DEF ProviderDies, fileVars, Locked
<1>8. CASE UnmanagedClaims
  BY <1>1, <1>8 DEF UnmanagedClaims, Mishap, Mishaps
<1>9. CASE SurvivorCreates
  BY <1>1, <1>3, <1>5, <1>9 DEF SurvivorCreates, processVars
<1>10. CASE GuestCloses
  BY <1>1, <1>3, <1>10 DEF GuestCloses, processVars, Locked
<1>11. ASSUME NEW h \in Helpers, HelperStep(h) \/ HelperKilled(h)
       PROVE  LockedHasCause'
  <2>1. CASE Plain(h)
    <3>1. owner' # Unmanaged /\ UNCHANGED <<wallet, broken, closed, move>>
      BY <1>1, <2>1, PlainTypes DEF fileVars
    <3>2. \A g \in Helpers : helper'[g] = "backup" => helper[g] = "backup"
      BY <2>1 DEF Plain, Start, Check, RetrieveSecret, Spawn, WaitForOwner, NoProxy, Mark, Claim,
                  Goto, End, SecretTypeOK
    <3>. QED
      BY <1>3, <3>1, <3>2 DEF Locked
  <2>2. CASE Query(h)
    <3>1. helper[h] \in Holding /\ UNCHANGED <<wallet, broken, closed>>
      BY <2>2 DEF Query, Holding, fileVars
    <3>2. \A g \in Helpers : g # h => helper[g] \notin Holding
      BY <3>1, Alone
    <3>3. owner' # Unmanaged
      BY <1>1, <2>2 DEF Query, Kill, processVars
    <3>4. \A g \in Helpers : g # h => helper'[g] # "backup"
      BY <2>2, <3>2 DEF Query, Goto, End, SecretTypeOK, Holding
    <3>5. CASE helper'[h] = "backup"
      <4>1. "closed" \in WalletStates
        BY <2>2, <3>5 DEF Query, Goto, End, Unlocks, SecretTypeOK
      <4>2. owner # Nobody
        BY <1>1, <2>2, <3>5 DEF Query, Goto, End, Kill, Mishaps, SecretTypeOK
      <4>3. wallet["kwl"] \in Locked
        BY <1>1, <4>1, <4>2 DEF WalletStates, Locked, SecretTypeOK
      <4>4. \A g \in Helpers : helper'[g] = "backup" => wallet'["kwl"] \in Locked'
        BY <3>1, <4>3 DEF Locked
      <4>. QED
        BY <3>3, <4>4 DEF LockedHasCause
    <3>6. CASE helper'[h] # "backup"
      BY <1>4, <3>3, <3>4, <3>6
    <3>. QED
      BY <3>5, <3>6
  <2>3. CASE ChooseNumber(h)
    <3>1. UNCHANGED <<wallet, broken, closed, owner>> /\ helper[h] = "backup" /\ move.number = 0
      BY <2>3 DEF ChooseNumber, fileVars, processVars
    <3>2. move.at = 0
      BY <3>1 DEF MoveIsHelpers
    <3>3. wallet["kwl"] \in Locked
      BY <1>1, <3>1, <3>2
    <3>. QED
      BY <1>1, <3>1, <3>3 DEF LockedHasCause, Locked
  <2>4. CASE Rename(h)
    <3>1. owner' = owner /\ helper[h] = "backup" /\ move.at \in 1..3
      BY <2>4, NamesFacts DEF Rename, processVars
    <3>2. \A g \in Helpers : g # h => helper[g] \notin Holding
      BY <3>1, Alone DEF Holding
    <3>3. CASE move' = [move EXCEPT !.at = @ + 1]
      <4>1. ~(move'.at <= 1)
        BY <3>1, <3>3 DEF SecretTypeOK
      <4>. QED
        BY <1>1, <3>1, <4>1 DEF LockedHasCause
    <3>4. CASE Goto(h, "rollback")
      <4>1. \A g \in Helpers : helper'[g] # "backup"
        BY <3>2, <3>4 DEF Goto, SecretTypeOK, Holding
      <4>. QED
        BY <1>1, <1>4, <3>1, <4>1
    <3>. QED
      BY <2>4, <3>3, <3>4 DEF Rename
  <2>5. CASE BackupDone(h) \/ Rollback(h) \/ HelperKilled(h)
    <3>1. helper[h] \in Holding /\ owner' = owner
      BY <2>5 DEF BackupDone, Rollback, HelperKilled, Holding, SecretTypeOK, processVars
    <3>2. \A g \in Helpers : g # h => helper[g] \notin Holding
      BY <3>1, Alone
    <3>3. \A g \in Helpers : helper'[g] # "backup"
      BY <2>5, <3>2
         DEF BackupDone, Rollback, HelperKilled, End, Goto, SecretTypeOK, Holding
    <3>. QED
      BY <1>1, <1>4, <3>1, <3>3
  <2>. QED
    BY <1>11, <2>1, <2>2, <2>3, <2>4, <2>5 DEF HelperStep, Plain
<1>. QED
  BY <1>6, <1>7, <1>8, <1>9, <1>10, <1>11 DEF SecretNext

-----------------------------------------------------------------------------
(* The invariant.                                                           *)

LEMMA SecretInitInv == SecretInit => SecretInv
<1>. SUFFICES ASSUME SecretInit PROVE SecretInv
  OBVIOUS
<1>. USE HelperAssumption, NumberAssumption, NamesFacts
<1>1. wallet \in [Files -> {0, 1}] /\ Uniform(wallet)
  BY DEF SecretInit, NoFiles, Uniform
<1>2. NoMove \in [number : 0..MaxNumber, at : 0..4, files : SUBSET Files,
                  next : {"done", "spawn", "secret"}] /\ NoMove.number = 0
  BY DEF NoMove
<1>3. wallets \in {0, 1} /\ broken \in SUBSET (Nat \ {0}) /\ closed = {}
  BY DEF SecretInit
<1>4. SecretTypeOK
  BY <1>1, <1>2, <1>3 DEF SecretInit, SecretTypeOK, NoFiles, Ended
<1>5. OneHelper /\ MoveIsHelpers /\ NumberIsFree /\ ProvidersKnown /\ LockedHasCause
  BY DEF SecretInit, OneHelper, MoveIsHelpers, NumberIsFree, ProvidersKnown, LockedHasCause,
         Holding, Moving
<1>6. PlaceIsEmpty /\ SoundWalletStays /\ OneWallet
  BY <1>1, <1>2 DEF SecretInit, PlaceIsEmpty, SoundWalletStays, OneWallet, NoFiles, Uniform
<1>. QED
  BY <1>4, <1>5, <1>6 DEF SecretInv

LEMMA SecretStepInv == SecretInv /\ [SecretNext]_secretVars => SecretInv'
<1>. SUFFICES ASSUME SecretInv, [SecretNext]_secretVars PROVE SecretInv'
  OBVIOUS
<1>1. FileInv /\ ProvidersKnown /\ LockedHasCause
  BY DEF SecretInv, FileInv
<1>2. mishaps \subseteq mishaps'
  BY MishapsGrow
<1>3. CASE SecretNext
  <2>1. ProvidersKnown' /\ LockedHasCause'
    BY <1>1, <1>2, <1>3, ProvidersStep, LockedStep
  <2>2. ASSUME NEW h \in Helpers, HelperStep(h)
        PROVE  FileInv'
    <3>1. CASE Plain(h)
      BY <1>1, <1>2, <3>1, PlainFiles
    <3>2. CASE Query(h)
      BY <1>1, <1>2, <3>2, QueryFiles
    <3>3. CASE ChooseNumber(h)
      BY <1>1, <3>3, ChooseNumberFiles
    <3>4. CASE Rename(h)
      BY <1>1, <1>2, <3>4, RenameFiles
    <3>5. CASE BackupDone(h)
      BY <1>1, <3>5, BackupDoneFiles
    <3>6. CASE Rollback(h)
      BY <1>1, <1>2, <3>6, RollbackFiles
    <3>. QED
      BY <2>2, <3>1, <3>2, <3>3, <3>4, <3>5, <3>6 DEF HelperStep, Plain
  <2>3. ASSUME NEW h \in Helpers, HelperKilled(h)
        PROVE  FileInv'
    BY <1>1, <2>3, KilledFiles
  <2>4. FileInv'
    BY <1>1, <1>3, <2>2, <2>3, ProviderFiles DEF SecretNext
  <2>. QED
    BY <2>1, <2>4 DEF SecretInv, FileInv
<1>4. CASE UNCHANGED secretVars
  BY <1>4 DEF secretVars, SecretInv, SecretTypeOK, OneHelper, MoveIsHelpers, NumberIsFree,
              ProvidersKnown, PlaceIsEmpty, LockedHasCause, Locked, Trusted,
              SoundWalletStays, OneWallet, NoStrays, Aside, Going, Split, Uniform
<1>. QED
  BY <1>3, <1>4

\* Who may write, where a backup is, and what lies under its number, in every
\* state that activations, kills, faults and other programs can reach
\* (spaces_secret_helper.c:608-1101).
THEOREM SecretInvariant == SecretSpec => []SecretInv
BY SecretInitInv, SecretStepInv, PTL DEF SecretSpec

\* A wallet is set aside only if its key does not open it or a guest program has
\* closed it, whatever hangs, times out, dies or is killed
\* (spaces_secret_helper.c:919); the answers of an unmanaged provider and of a proxy
\* without a provider are left out.
THEOREM SoundWalletsStay == SecretSpec => []SoundWalletStays
<1>1. SecretInv => SoundWalletStays
  BY DEF SecretInv
<1>. QED
  BY <1>1, SecretInvariant, PTL

\* What lies under a number is one wallet with all its files
\* (spaces_secret_helper.c:608-699).
THEOREM BackupsAreWhole == SecretSpec => []BackupWhole
<1>1. SecretInv => BackupWhole
  BY DEF SecretInv, OneWallet, BackupWhole, Uniform, NoMove
<1>. QED
  BY <1>1, SecretInvariant, PTL

\* No step destroys a file of a wallet, apart from a rollback over what a stray
\* provider has written (spaces_secret_helper.c:608-699).
THEOREM NoFileIsLost == SecretSpec => FilesKept
<1>. DEFINE Lost == mishaps \cap Strays # {} /\ \E h \in Helpers : helper[h] = "rollback"
            Kept == Everything \subseteq Everything' \/ Lost
<1>1. ASSUME UNCHANGED <<wallet, saved>> PROVE Kept
  BY <1>1 DEF Everything
<1>2. ASSUME SecretInv, Create PROVE Kept
  <2>1. \A f \in Files : wallet[f] # 0 => wallet'[f] = wallet[f]
    BY <1>2 DEF Create, SecretInv, SecretTypeOK
  <2>2. UNCHANGED saved
    BY <1>2 DEF Create
  <2>. QED
    BY <2>1, <2>2 DEF Everything
<1>3. ASSUME SecretInv, NEW f \in Files, NEW n \in 1..MaxNumber, Moved(f, n), saved[n][f] = 0
      PROVE  Kept
  <2>1. /\ \A g \in Files, m \in 1..MaxNumber : saved[m][g] # 0 => saved'[m][g] = saved[m][g]
        /\ \A g \in Files : g # f => wallet'[g] = wallet[g]
        /\ saved'[n][f] = wallet[f]
    <3>1. wallet \in [Files -> Nat] /\ saved \in [1..MaxNumber -> [Files -> Nat]]
      BY <1>3 DEF SecretInv, SecretTypeOK
    <3>2. saved'[n] = [saved[n] EXCEPT ![f] = wallet[f]]
      BY <1>3, <3>1 DEF Moved
    <3>3. \A m \in 1..MaxNumber : m # n => saved'[m] = saved[m]
      BY <1>3, <3>1 DEF Moved
    <3>4. \A g \in Files : g # f => wallet'[g] = wallet[g]
      BY <1>3, <3>1 DEF Moved
    <3>5. saved[n] \in [Files -> Nat]
      BY <3>1
    <3>. QED
      BY <1>3, <3>2, <3>3, <3>4, <3>5
  <2>2. \A g \in Files : wallet[g] # 0 => <<g, wallet[g]>> \in Everything'
    BY <2>1 DEF Everything
  <2>3. \A g \in Files, m \in 1..MaxNumber : saved[m][g] # 0 => <<g, saved[m][g]>> \in Everything'
    BY <2>1 DEF Everything
  <2>. QED
    BY <2>2, <2>3 DEF Everything
<1>4. ASSUME SecretInv, NEW f \in Files, NEW n \in 1..MaxNumber, Undo(f, n), wallet[f] = 0
      PROVE  Kept
  <2>1. /\ \A g \in Files, m \in 1..MaxNumber : <<g, m>> # <<f, n>> => saved'[m][g] = saved[m][g]
        /\ \A g \in Files : g # f => wallet'[g] = wallet[g]
        /\ wallet'[f] = saved[n][f]
    BY <1>4 DEF Undo, SecretInv, SecretTypeOK
  <2>. QED
    BY <1>4, <2>1 DEF Everything
<1>5. ASSUME SecretInv, NEW h \in Helpers, Rename(h) PROVE Kept
  <2>1. helper[h] = "backup" /\ move.at \in 1..3
    BY <1>5, NamesFacts DEF Rename
  <2>2. move.number \in 1..MaxNumber
    BY <1>5, <2>1 DEF SecretInv, SecretTypeOK, MoveIsHelpers
  <2>3. Names[move.at] \in Files /\ saved[move.number][Names[move.at]] = 0
    BY <1>5, <2>1, <2>2, NamesFacts DEF SecretInv, NumberIsFree, Files
  <2>4. Moved(Names[move.at], move.number) \/ UNCHANGED fileVars
    BY <1>5 DEF Rename
  <2>. QED
    BY <1>1, <1>3, <1>5, <2>2, <2>3, <2>4 DEF fileVars
<1>6. ASSUME SecretInv, NEW h \in Helpers, Rollback(h) PROVE Kept
  <2>1. helper[h] = "rollback" /\ move.number \in 1..MaxNumber /\ move.at \in 0..3
    BY <1>6 DEF Rollback, SecretInv, MoveIsHelpers, SecretTypeOK
  <2>2. CASE ~NoStrays
    BY <2>1, <2>2 DEF NoStrays
  <2>3. CASE UNCHANGED fileVars
    BY <1>1, <2>3 DEF fileVars
  <2>4. CASE /\ NoStrays /\ move.at # 0 /\ Names[move.at] \in move.files
             /\ Undo(Names[move.at], move.number)
    <3>1. move.at \in 1..3 /\ Aside = move.at
      BY <2>1, <2>4 DEF Aside
    <3>2. Names[move.at] \in Files
      BY <3>1, NamesFacts DEF Files
    <3>3. wallet[Names[move.at]] = 0
      BY <1>6, <2>1, <2>4, <3>1, NamesFacts DEF SecretInv, PlaceIsEmpty
    <3>. QED
      BY <1>4, <1>6, <2>1, <2>4, <3>2, <3>3
  <2>. QED
    BY <1>6, <2>2, <2>3, <2>4 DEF Rollback
<1>7. ASSUME SecretInv, SecretNext PROVE Kept
  <2>1. ASSUME NEW h \in Helpers, HelperStep(h) \/ HelperKilled(h) PROVE Kept
    <3>1. CASE Plain(h)
      BY <1>1, <1>7, <3>1, PlainTypes DEF SecretInv, fileVars
    <3>2. CASE Query(h) \/ ChooseNumber(h) \/ BackupDone(h) \/ HelperKilled(h)
      BY <1>1, <3>2 DEF Query, ChooseNumber, BackupDone, HelperKilled, fileVars
    <3>. QED
      BY <1>5, <1>6, <1>7, <2>1, <3>1, <3>2 DEF HelperStep, Plain
  <2>2. ASSUME \/ \E h \in Helpers : ProviderClaims(h)
               \/ ProviderDies \/ UnmanagedClaims \/ SurvivorCreates \/ GuestCloses
        PROVE  Kept
    BY <1>1, <1>2, <1>7, <2>2
       DEF ProviderClaims, ProviderDies, UnmanagedClaims, SurvivorCreates, GuestCloses, fileVars
  <2>. QED
    BY <1>7, <2>1, <2>2 DEF SecretNext
<1>8. SecretInv /\ [SecretNext]_secretVars => [Kept]_secretVars
  BY <1>7
<1>. QED
  BY <1>8, SecretInvariant, PTL DEF SecretSpec, FilesKept
==============================================================================
