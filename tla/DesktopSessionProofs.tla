------------------------ MODULE DesktopSessionProofs ------------------------
(***************************************************************************)
(* Proofs about DesktopSession, for any set of logins, every configuration *)
(* and any number of changes and faults: between two ticks the mounts and  *)
(* the record are those of the active desktop, and a superseded login has  *)
(* lost its grants before anything is planned for its successor.           *)
(***************************************************************************)
EXTENDS DesktopSession, TLAPS

-----------------------------------------------------------------------------
(* The inductive invariant.                                                 *)

Repairing == {"repairAcc", "repairPortal", "repairComp"}
Ending == {"failed", "finally", "stopped"}

\* One bind for a destination.
Functional(binds) == \A b, c \in binds : b.dest = c.dest => b = c

Settled == {"idle", "homes", "begin", "plan", "deactivate", "done"} \cup Repairing

Revoking == pc = "retire" /\ then \in {"plan", "deactivate"}
Removing == pc = "retire" /\ then = "refresh"
Adding == pc = "mount" /\ then = "refreshed"
TearingDown == pc = "retire" /\ then \in {"activate", "inactive"}
Activating == pc = "prepare" \/ (pc = "mount" /\ then = "publish") \/ pc = "undo"

\* The loops and what follows them, and when there is a desktop.
Phases ==
    /\ pc = "retire" => Revoking \/ Removing \/ TearingDown \/ then = "closed"
    /\ pc = "mount" => then \in {"refreshed", "publish"}
    /\ pc = "undo" => then \in {"undone", "stuck"}
    /\ pc \in Repairing => current # None /\ then \in {"idle", "done", "activated"}
    /\ Removing \/ Adding => current # None /\ plan # None
    /\ TearingDown /\ then = "activate" => current # None /\ plan # None
    /\ Activating => current = None /\ plan # None
    /\ current = None /\ pc \notin {"mount", "undo"} \cup Ending => todo = {}

\* A plan has one bind for a destination.
PlansFunctional ==
    /\ current # None => Functional(current.plan.binds)
    /\ plan # None => Functional(plan.binds)
    /\ previous # None => Functional(previous.binds)

\* What is mounted while the worker revokes, refreshes, tears down, mounts and
\* undoes.
MountsByPhase ==
    /\ pc \in Settled \cup {"prepare"} \/ Revoking \/ Removing \/ Adding => mounts = Held(current)
    /\ TearingDown => mounts = {b \in Held(current) : b.dest \in todo}
    /\ pc = "mount" /\ then = "publish" => mounts = {b \in plan.binds : b.dest \notin todo}
    /\ pc = "undo" /\ then = "undone" => \A b \in mounts : b.dest \in todo

\* What the loops still have to treat, and what a refresh leaves alone.
TodoByPhase ==
    /\ Revoking => todo \subseteq {"acc", "comp"}
    /\ Removing => /\ todo \subseteq {"portal", "settings"}
                   /\ \A b \in current.plan.binds \ plan.binds : b.dest \in todo
    /\ Adding => /\ current.plan.binds \subseteq plan.binds
                 /\ \A b \in plan.binds \ current.plan.binds : b.dest \in todo
    /\ pc = "mount" => \A d \in todo : \E b \in plan.binds : b.dest = d
    /\ Removing \/ Adding => /\ plan = [current.plan EXCEPT !.binds = plan.binds]
                             /\ plan.login = selected

Agrees ==
    /\ record.state = "active" => current # None
    /\ current # None =>
         /\ record.state = "active"
         /\ record.login = current.plan.login
         /\ record.address => current.acc.bound

\* The record is settled except while a desktop is torn down or activated.
RecordByPhase ==
    pc \in Settled \/ Revoking \/ Removing \/ Adding => Agrees

\* A superseded login loses its grants before planning; the plan fallen back to
\* has them only if its login is the selected one.
GrantsByPhase ==
    /\ SessionActive /\ current # None /\ selected # current.plan.login =>
         /\ pc = "retire" /\ then = "plan" =>
              \A d \in {"acc", "comp"} : d \in todo \/ current[d] = Off
         /\ pc = "plan" => current.acc = Off /\ current.comp = Off
         /\ pc \in Repairing /\ then # "idle" => ~current.plan.grant /\ ~current.comp.up
         /\ pc = "done" => ~current.comp.up /\ ~(current.acc.up /\ current.plan.grant)
    /\ Activating \/ (TearingDown /\ then = "activate") =>
         (plan.grant => plan.login = selected)

ByPhase ==
    /\ Phases
    /\ PlansFunctional
    /\ MountsByPhase
    /\ TodoByPhase
    /\ RecordByPhase
    /\ GrantsByPhase

IInv == TypeOK /\ ByPhase

-----------------------------------------------------------------------------
(* Facts about the operators.                                               *)

LEMMA DestFacts ==
    /\ Dests = {"agent", "display", "settings", "portal", "acc", "comp"}
    /\ Rank["agent"] = 1 /\ Rank["display"] = 2 /\ Rank["settings"] = 3
    /\ Rank["portal"] = 4 /\ Rank["acc"] = 5 /\ Rank["comp"] = 6
BY DEF Dests, Rank

\* Both loops pick a destination that is still to be treated.
LEMMA Picked ==
    ASSUME NEW S \in SUBSET Dests, S # {}
    PROVE  First(S) \in S /\ Last(S) \in S
<1>1. \E d \in S : \A e \in S : Rank[d] <= Rank[e]
  <2>1. CASE "agent" \in S
    BY <2>1, DestFacts
  <2>2. CASE "display" \in S /\ S \cap {"agent"} = {}
    BY <2>2, DestFacts
  <2>3. CASE "settings" \in S /\ S \cap {"agent", "display"} = {}
    BY <2>3, DestFacts
  <2>4. CASE "portal" \in S /\ S \cap {"agent", "display", "settings"} = {}
    BY <2>4, DestFacts
  <2>5. CASE "acc" \in S /\ S \cap {"agent", "display", "settings", "portal"} = {}
    BY <2>5, DestFacts
  <2>6. CASE "comp" \in S /\ S \cap {"agent", "display", "settings", "portal", "acc"} = {}
    BY <2>6, DestFacts
  <2>. QED
    BY <2>1, <2>2, <2>3, <2>4, <2>5, <2>6, DestFacts
<1>2. \E d \in S : \A e \in S : Rank[d] >= Rank[e]
  <2>1. CASE "comp" \in S
    BY <2>1, DestFacts
  <2>2. CASE "acc" \in S /\ S \cap {"comp"} = {}
    BY <2>2, DestFacts
  <2>3. CASE "portal" \in S /\ S \cap {"comp", "acc"} = {}
    BY <2>3, DestFacts
  <2>4. CASE "settings" \in S /\ S \cap {"comp", "acc", "portal"} = {}
    BY <2>4, DestFacts
  <2>5. CASE "display" \in S /\ S \cap {"comp", "acc", "portal", "settings"} = {}
    BY <2>5, DestFacts
  <2>6. CASE "agent" \in S /\ S \cap {"comp", "acc", "portal", "settings", "display"} = {}
    BY <2>6, DestFacts
  <2>. QED
    BY <2>1, <2>2, <2>3, <2>4, <2>5, <2>6, DestFacts
<1>. QED
  BY <1>1, <1>2 DEF First, Last

LEMMA ServiceValues ==
    /\ On \in Service /\ On.up = TRUE /\ On.bound = TRUE
    /\ Off \in Service /\ Off.up = FALSE /\ Off.bound = FALSE
BY DEF On, Off, Service

\* A service of a desktop changes.
LEMMA ServiceChanges ==
    ASSUME NEW a \in Active, NEW d \in Services, NEW s \in Service
    PROVE  LET c == [a EXCEPT ![d] = s]
           IN  /\ c \in Active /\ c.plan = a.plan /\ c[d] = s
               /\ \A e \in Services : e # d => c[e] = a[e]
BY DEF Active, Services

LEMMA ProcessChanges ==
    ASSUME NEW a \in Active, NEW d \in Services, NEW x \in BOOLEAN
    PROVE  LET c == [a EXCEPT ![d].up = x]
           IN  /\ c \in Active /\ c.plan = a.plan
               /\ c[d].up = x /\ c[d].bound = a[d].bound
               /\ \A e \in Services : e # d => c[e] = a[e]
BY DEF Active, Services, Service

\* The plan of a desktop, or the binds of it, change.
LEMMA PlanChanges ==
    ASSUME NEW a \in Active, NEW p \in Plan
    PROVE  LET c == [a EXCEPT !.plan = p]
           IN  c \in Active /\ c.plan = p /\ \A e \in Services : c[e] = a[e]
BY DEF Active, Services

LEMMA BindsChange ==
    ASSUME NEW a \in Active, NEW B \in SUBSET Bind
    PROVE  LET c == [a EXCEPT !.plan.binds = B]
           IN  /\ c \in Active /\ c.plan = [a.plan EXCEPT !.binds = B]
               /\ c.plan.binds = B /\ c.plan.login = a.plan.login
               /\ \A e \in Services : c[e] = a[e]
BY DEF Active, Services, Plan

LEMMA RecordTyped ==
    /\ Inactive \in Record
    /\ \A l \in Logins \cup {None}, x \in BOOLEAN : ActiveRecord(l, x) \in Record
BY DEF Inactive, Record, ActiveRecord

LEMMA NewPlanTyped ==
    ASSUME TypeOK
    PROVE  /\ NewPlan \in Plan /\ Functional(NewPlan.binds)
           /\ NewPlan.login = selected /\ (NewPlan.grant => NewPlan.login = selected)
<1>. DEFINE B == NewPlan.binds
<1>1. B \in SUBSET Bind
  BY DEF NewPlan
<1>2. NewPlan.login = selected /\ NewPlan.desktop \in BOOLEAN /\ NewPlan.grant \in BOOLEAN
  BY ConfigAssumption DEF NewPlan
<1>3. NewPlan \in Plan
  BY <1>1, <1>2, ConfigAssumption DEF NewPlan, Plan, TypeOK
<1>4. Functional(B)
  BY DEF NewPlan, Functional, Bind
<1>. QED
  BY <1>2, <1>3, <1>4

\* What a desktop holds: its binds and the sockets of its services.
LEMMA HeldFacts ==
    ASSUME NEW a \in Active
    PROVE  /\ Held(a) \subseteq Bind \cup {Socket(d) : d \in Services}
           /\ \A b \in Held(a) : b \in a.plan.binds \/ \E d \in Services : b = Socket(d) /\ a[d].bound
           /\ a.plan.binds \subseteq Held(a)
           /\ \A d \in Services : a[d].bound => Socket(d) \in Held(a)
           /\ \A b \in a.plan.binds : b.dest \notin Services
           /\ \A d \in Services : Socket(d).dest = d
<1>1. Held(a) = a.plan.binds \cup {Socket(d) : d \in {e \in Services : a[e].bound}}
  BY NoneAssumption DEF Held
<1>2. a.plan.binds \subseteq Bind
  BY DEF Active, Plan
<1>3. \A b \in Bind : b.dest \notin Services
  BY DEF Bind, Services
<1>4. \A d \in Services : Socket(d).dest = d
  BY DEF Socket
<1>. QED
  BY <1>1, <1>2, <1>3, <1>4

-----------------------------------------------------------------------------
(* Every step keeps the types.                                              *)

\* The parts of the desktop and its mounts that steps change.
LEMMA EverythingTyped ==
    ASSUME TypeOK, current # None
    PROVE  Everything \subseteq Dests
<1>1. current \in Active /\ current.plan.binds \subseteq Bind
  BY DEF TypeOK, Active, Plan
<1>. QED
  BY <1>1, DestFacts DEF Everything, Services, Bind

\* Retiring and closing leave a desktop.
LEMMA RetireTyped ==
    ASSUME NEW a \in Active, NEW d \in Dests
    PROVE  /\ Unbound(a, d) \in Active /\ Closed(a, d) \in Active
           /\ Dropped(Unbound(a, d), d) \in Active
           /\ [Closed(a, d) EXCEPT !.portal.up = FALSE] \in Active
<1>1. Off \in Service
  BY DEF Off, Service
<1>2. Unbound(a, d) \in Active
  BY <1>1, ServiceChanges DEF Unbound
<1>3. Closed(a, d) \in Active
  BY ProcessChanges DEF Closed
<1>4. \A c \in Active : {b \in c.plan.binds : b.dest # d} \in SUBSET Bind
  BY DEF Active, Plan
<1>5. Dropped(Unbound(a, d), d) \in Active
  BY <1>2, <1>4, BindsChange DEF Dropped
<1>6. [Closed(a, d) EXCEPT !.portal.up = FALSE] \in Active
  <2>1. "portal" \in Services
    BY DEF Services
  <2>. QED
    BY <1>3, <2>1, ProcessChanges
<1>. QED
  BY <1>2, <1>3, <1>5, <1>6

LEMMA EnvironmentTypes ==
    ASSUME TypeOK, Environment
    PROVE  TypeOK'
<1>. USE DEF hostVars, guestVars, tickVars, planVars, budget
<1>1. CASE LoginChanges
  <2>1. eligible' \in BOOLEAN /\ sessions' \subseteq Logins /\ manager' \in Logins \cup {None}
    BY <1>1 DEF LoginChanges, TypeOK
  <2>2. changes' \in 0..MaxChanges /\ faults' \in 0..MaxFaults
    BY <1>1, BoundAssumption DEF LoginChanges, Change, TypeOK
  <2>. QED
    BY <1>1, <2>1, <2>2 DEF LoginChanges, TypeOK
<1>2. ASSUME NEW d \in Replaceable, SourceReplaced(d)
      PROVE  TypeOK'
  <2>1. gen' \in [Replaceable -> 0..1] /\ changes' \in 0..MaxChanges /\ faults' \in 0..MaxFaults
    BY <1>2, BoundAssumption DEF SourceReplaced, Change, TypeOK
  <2>. QED
    BY <1>2, <2>1 DEF SourceReplaced, TypeOK
<1>3. ASSUME NEW d \in Services, ServiceDies(d)
      PROVE  TypeOK'
  <2>1. current \in Active /\ current' = [current EXCEPT ![d].up = FALSE]
    BY <1>3 DEF ServiceDies, TypeOK
  <2>2. current' \in Active
    BY <2>1, ProcessChanges
  <2>3. faults' \in 0..MaxFaults
    BY <1>3, BoundAssumption DEF ServiceDies, TypeOK
  <2>. QED
    BY <1>3, <2>2, <2>3 DEF ServiceDies, TypeOK
<1>4. CASE MachineExits
  <2>1. changes' \in 0..MaxChanges /\ faults' \in 0..MaxFaults
    BY <1>4, BoundAssumption DEF MachineExits, Change, TypeOK
  <2>. QED
    BY <1>4, <2>1 DEF MachineExits, TypeOK
<1>. QED
  BY <1>1, <1>2, <1>3, <1>4 DEF Environment

\* Commands use up faults.
LEMMA CommandTypes ==
    ASSUME TypeOK, Works \/ Fails \/ UNCHANGED budget
    PROVE  changes' \in 0..MaxChanges /\ faults' \in 0..MaxFaults
BY BoundAssumption DEF TypeOK, Works, Fails, budget

LEMMA PlainTypes ==
    ASSUME TypeOK, Phases,
           \/ TakeSnapshot \/ ReconcileHomes \/ Begin \/ PlanFails \/ PlanSucceeds
           \/ RevokedFirst \/ TornDown \/ SettingsRemoved \/ Deactivate \/ Deactivated
           \/ Done \/ Failed \/ Stop \/ Abandon \/ Close
    PROVE  TypeOK'
<1>. USE DEF hostVars, guestVars, tickVars, planVars
<1>1. CASE TakeSnapshot
  <2>1. snap' \in Snapshot
    BY <1>1 DEF TakeSnapshot, TypeOK, Snapshot
  <2>. QED
    BY <1>1, <2>1 DEF TakeSnapshot, TypeOK, Where, budget
<1>2. CASE ReconcileHomes
  <2>1. homes' \in BOOLEAN
    BY <1>2 DEF ReconcileHomes, TypeOK, Snapshot
  <2>2. changes' \in 0..MaxChanges /\ faults' \in 0..MaxFaults
    BY <1>2, CommandTypes DEF ReconcileHomes
  <2>. QED
    BY <1>2, <2>1, <2>2 DEF ReconcileHomes, TypeOK, Where
<1>3. CASE Begin
  <2>1. todo' \subseteq Dests
    BY <1>3, DestFacts DEF Begin, TypeOK, Revocable
  <2>2. selected' \in Logins \cup {None}
    BY <1>3 DEF Begin, TypeOK, Choice
  <2>. QED
    BY <1>3, <2>1, <2>2 DEF Begin, TypeOK, Where, Continuations, budget
<1>4. CASE PlanFails
  <2>1. record' \in Record
    <3>1. current # None => current.plan.login \in Logins \cup {None}
      BY DEF TypeOK, Active, Plan
    <3>. QED
      BY <1>4, <3>1 DEF PlanFails, TypeOK, Record, Inactive
  <2>2. changes' \in 0..MaxChanges /\ faults' \in 0..MaxFaults
    BY <1>4, CommandTypes DEF PlanFails
  <2>. QED
    BY <1>4, <2>1, <2>2 DEF PlanFails, TypeOK, Where
<1>5. CASE PlanSucceeds
  <2>1. plan' \in Plan
    BY <1>5, NewPlanTyped DEF PlanSucceeds
  <2>2. record' \in Record
    BY <1>5 DEF PlanSucceeds, TypeOK, Record
  <2>3. previous' = None \/ previous' \in Plan
    BY <1>5 DEF PlanSucceeds, TypeOK, Active
  <2>4. todo' \subseteq Dests
    <3>1. current # None => Without(current.plan, NewPlan) \subseteq Dests
      BY DestFacts DEF TypeOK, Active, Plan, Bind, Without
    <3>2. Dests \cap {"portal"} = {"portal"}
      BY DestFacts
    <3>. QED
      BY <1>5, <3>1, <3>2, EverythingTyped DEF PlanSucceeds, TypeOK
  <2>. QED
    BY <1>5, <2>1, <2>2, <2>3, <2>4 DEF PlanSucceeds, TypeOK, Where, Continuations, budget
<1>6. CASE RevokedFirst \/ TornDown
  BY <1>6 DEF RevokedFirst, TornDown, TypeOK, Where, budget
<1>11. CASE Done
  <2>1. last' \in Snapshot
    BY <1>11 DEF Done, TypeOK, Snapshot, NoSnapshot
  <2>. QED
    BY <1>11, <2>1 DEF Done, TypeOK, Where, Continuations, budget
<1>12. CASE Failed \/ Stop
  BY <1>12 DEF Failed, Stop, TypeOK, Where, budget
<1>7. CASE SettingsRemoved
  <2>1. plan \in Plan
    BY <1>7 DEF SettingsRemoved, Phases, Removing, TypeOK
  <2>2. todo' \subseteq Dests
    BY <1>7, <2>1, DestFacts DEF SettingsRemoved, Without, Plan, Bind
  <2>. QED
    BY <1>7, <2>2 DEF SettingsRemoved, TypeOK, Where, Continuations, budget
<1>8. CASE Deactivate \/ Close
  <2>1. record' \in Record
    BY <1>8 DEF Deactivate, Close, TypeOK, Record
  <2>2. todo' \subseteq Dests
    BY <1>8, EverythingTyped DEF Deactivate, Close, TypeOK
  <2>. QED
    BY <1>8, <2>1, <2>2 DEF Deactivate, Close, TypeOK, Where, Continuations, budget
<1>9. CASE Deactivated
  <2>1. changes' \in 0..MaxChanges /\ faults' \in 0..MaxFaults
    BY <1>9, CommandTypes DEF Deactivated
  <2>2. record' \in Record
    <3>1. record' = record \/ record' = Inactive
      BY <1>9 DEF Deactivated
    <3>. QED
      BY <3>1, RecordTyped DEF TypeOK
  <2>3. machine' \in {"running", "stopping", "exited"}
    BY <1>9 DEF Deactivated, TypeOK
  <2>. QED
    BY <1>9, <2>1, <2>2, <2>3 DEF Deactivated, TypeOK, Where
<1>10. CASE Abandon
  BY <1>10 DEF Abandon, TypeOK, Where, Inactive, Record, budget
<1>. QED
  BY <1>1, <1>2, <1>3, <1>4, <1>5, <1>6, <1>7, <1>8, <1>9, <1>10, <1>11, <1>12

\* The bind that _mount treats next.
Chosen == CHOOSE b \in plan.binds : b.dest = First(todo)

LEMMA ChosenFacts ==
    ASSUME TypeOK, Phases, TodoByPhase, pc = "mount", todo # {}
    PROVE  /\ plan \in Plan /\ Chosen \in plan.binds /\ Chosen \in Bind
           /\ Chosen.dest = First(todo) /\ First(todo) \in todo
<1>1. plan \in Plan
  BY DEF TypeOK, Phases, Adding, Activating
<1>2. First(todo) \in todo
  BY Picked DEF TypeOK
<1>3. \E b \in plan.binds : b.dest = First(todo)
  BY <1>2 DEF TodoByPhase
<1>4. Chosen \in plan.binds /\ Chosen.dest = First(todo)
  BY <1>3 DEF Chosen
<1>. QED
  BY <1>1, <1>2, <1>4 DEF Plan

LEMMA RetireTypes ==
    ASSUME TypeOK, Phases, RetireNext \/ RetireFails
    PROVE  TypeOK' /\ current \in Active /\ current' \in Active /\ Last(todo) \in todo /\ Last(todo) \in Dests
<1>. USE DEF hostVars, guestVars, tickVars, planVars
<1>. DEFINE d == Last(todo)
<1>1. d \in todo /\ d \in Dests
  BY Picked DEF RetireNext, RetireFails, TypeOK
<1>2. current \in Active
  BY DEF RetireNext, RetireFails, TypeOK, Phases, Ending
<1>3. current' \in Active
  BY <1>1, <1>2, RetireTyped DEF RetireNext, RetireFails, Dropped
<1>4. record' \in Record
  <2>1. current.plan.login \in Logins \cup {None}
    BY <1>2 DEF Active, Plan
  <2>. QED
    BY <2>1, RecordTyped DEF RetireNext, RetireFails, RecordAfter, TypeOK
<1>5. changes' \in 0..MaxChanges /\ faults' \in 0..MaxFaults
  BY CommandTypes DEF RetireNext, RetireFails
<1>6. mounts' \subseteq mounts /\ todo' \subseteq todo
  BY DEF RetireNext, RetireFails
<1>7. pc' \in Where /\ machine' \in {"running", "stopping", "exited"}
  BY DEF RetireNext, RetireFails, TypeOK, Where
<1>8. UNCHANGED <<eligible, sessions, manager, gen, homes, guestSession, snap, last, selected,
                  plan, previous, then>>
  BY DEF RetireNext, RetireFails
<1>9. ok' \in BOOLEAN
  BY DEF RetireNext, RetireFails, TypeOK
<1>. HIDE DEF d
<1>. QED
  BY <1>1, <1>2, <1>3, <1>4, <1>5, <1>6, <1>7, <1>8, <1>9 DEF TypeOK, d

LEMMA MountTypes ==
    ASSUME TypeOK, Phases, TodoByPhase,
           Prepare \/ MountNext \/ MountFails \/ SettingsRefreshed
    PROVE  TypeOK'
<1>. USE DEF hostVars, guestVars, tickVars, planVars
<1>1. CASE Prepare
  <2>1. changes' \in 0..MaxChanges /\ faults' \in 0..MaxFaults
    BY <1>1, CommandTypes DEF Prepare
  <2>2. todo' \subseteq Dests
    <3>1. plan \in Plan
      BY <1>1 DEF Prepare, TypeOK, Phases, Activating
    <3>. QED
      BY <1>1, <3>1, DestFacts DEF Prepare, Plan, Bind
  <2>3. guestSession' \in BOOLEAN
    BY <1>1 DEF Prepare, TypeOK
  <2>4. pc' \in Where /\ then' \in Continuations
    BY <1>1 DEF Prepare, Where, Continuations
  <2>5. UNCHANGED <<hostVars, machine, homes, mounts, current, record, tickVars, last,
                    planVars, ok>>
    BY <1>1 DEF Prepare
  <2>. QED
    BY <2>1, <2>2, <2>3, <2>4, <2>5 DEF TypeOK
<1>2. CASE MountNext
  <2>1. Chosen \in Bind
    BY <1>2, ChosenFacts DEF MountNext
  <2>2. /\ (Chosen \in mounts /\ UNCHANGED budget) \/ Works
        /\ mounts' = mounts \cup {Chosen}
        /\ todo' = todo \ {Chosen.dest}
        /\ current' = IF then = "refreshed"
                      THEN [current EXCEPT !.plan.binds = @ \cup {Chosen}]
                      ELSE current
    BY <1>2 DEF MountNext, Chosen
  <2>3. changes' \in 0..MaxChanges /\ faults' \in 0..MaxFaults
    BY <2>2, CommandTypes
  <2>4. current' = None \/ current' \in Active
    <3>1. CASE then = "refreshed"
      <4>1. current \in Active
        BY <1>2, <3>1 DEF MountNext, TypeOK, Phases, Adding
      <4>2. current.plan.binds \cup {Chosen} \in SUBSET Bind
        BY <2>1, <4>1 DEF Active, Plan
      <4>3. current' = [current EXCEPT !.plan.binds = current.plan.binds \cup {Chosen}]
        BY <2>2, <3>1
      <4>. QED
        BY <4>1, <4>2, <4>3, BindsChange
    <3>. QED
      BY <2>2, <3>1 DEF TypeOK
  <2>5. UNCHANGED <<eligible, sessions, manager, gen, machine, homes, guestSession, record, pc,
                    snap, selected, last, plan, previous, then, ok>>
    BY <1>2 DEF MountNext
  <2>. QED
    BY <2>1, <2>2, <2>3, <2>4, <2>5 DEF TypeOK
<1>3. CASE MountFails
  <2>1. changes' \in 0..MaxChanges /\ faults' \in 0..MaxFaults
    BY <1>3, CommandTypes DEF MountFails
  <2>2. todo' \subseteq Dests
    <3>1. plan \in Plan
      BY <1>3, ChosenFacts DEF MountFails
    <3>2. {b.dest : b \in plan.binds} \subseteq Dests
      BY <3>1, DestFacts DEF Plan, Bind
    <3>3. todo' = todo \/ todo' = {b.dest : b \in plan.binds} \ todo
      BY <1>3 DEF MountFails
    <3>. QED
      BY <3>2, <3>3 DEF TypeOK
  <2>3. pc' \in Where /\ then' \in Continuations /\ ok' \in BOOLEAN
    BY <1>3 DEF MountFails, TypeOK, Where, Continuations
  <2>4. UNCHANGED <<eligible, sessions, manager, gen, machine, homes, mounts, guestSession,
                    current, record, snap, selected, last, plan, previous>>
    BY <1>3 DEF MountFails
  <2>. QED
    BY <2>1, <2>2, <2>3, <2>4 DEF TypeOK
<1>4. CASE SettingsRefreshed
  <2>1. current \in Active /\ plan \in Plan
    BY <1>4 DEF SettingsRefreshed, TypeOK, Phases, Adding
  <2>2. current' \in Active
    BY <1>4, <2>1, PlanChanges DEF SettingsRefreshed
  <2>. QED
    BY <1>4, <2>2 DEF SettingsRefreshed, TypeOK, Where, Continuations, budget
<1>. QED
  BY <1>1, <1>2, <1>3, <1>4

LEMMA UndoTypes ==
    ASSUME TypeOK, Phases, Publish \/ PublishFails \/ UndoNext \/ UndoDone
    PROVE  TypeOK'
<1>. USE DEF hostVars, guestVars, tickVars, planVars
<1>1. CASE Publish
  <2>1. plan \in Plan /\ plan.login \in Logins \cup {None}
    BY <1>1 DEF Publish, TypeOK, Phases, Activating, Plan
  <2>2. PICK portal \in {On, Off} :
          /\ Works \/ Fails \/ UNCHANGED budget
          /\ mounts' = IF portal = On THEN mounts \cup {Socket("portal")} ELSE mounts
          /\ current' = [plan |-> plan, portal |-> portal, acc |-> Off, comp |-> Off]
    BY <1>1 DEF Publish
  <2>3. changes' \in 0..MaxChanges /\ faults' \in 0..MaxFaults
    BY <2>2, CommandTypes
  <2>4. current' \in Active
    BY <2>1, <2>2, ServiceValues DEF Active
  <2>5. mounts' \subseteq Bind \cup {Socket(d) : d \in Services}
    BY <2>2 DEF TypeOK, Services
  <2>6. record' \in Record
    BY <1>1, <2>1, RecordTyped DEF Publish
  <2>7. pc' \in Where /\ then' \in Continuations
    BY <1>1 DEF Publish, Where, Continuations
  <2>8. UNCHANGED <<eligible, sessions, manager, gen, machine, homes, guestSession, snap,
                    selected, last, plan, previous, todo, ok>>
    BY <1>1 DEF Publish
  <2>. QED
    BY <2>3, <2>4, <2>5, <2>6, <2>7, <2>8 DEF TypeOK
<1>2. CASE PublishFails
  <2>1. plan \in Plan
    BY <1>2 DEF PublishFails, TypeOK, Phases, Activating
  <2>2. mounts' \subseteq mounts \cup {Socket("portal")}
    BY <1>2 DEF PublishFails
  <2>3. todo' \subseteq {b.dest : b \in plan.binds} \cup {"portal"}
    BY <1>2 DEF PublishFails
  <2>4. mounts' \subseteq Bind \cup {Socket(d) : d \in Services}
    BY <2>2 DEF TypeOK, Services
  <2>5. todo' \subseteq Dests
    BY <2>1, <2>3, DestFacts DEF Plan, Bind
  <2>6. faults' \in 0..MaxFaults /\ pc' \in Where /\ then' \in Continuations
    BY <1>2, BoundAssumption DEF PublishFails, TypeOK, Where, Continuations
  <2>7. UNCHANGED <<eligible, sessions, manager, gen, machine, homes, guestSession, current,
                    record, snap, selected, last, plan, previous, ok, changes>>
    BY <1>2 DEF PublishFails
  <2>. QED
    BY <2>4, <2>5, <2>6, <2>7 DEF TypeOK
<1>3. CASE UndoNext
  <2>1. changes' \in 0..MaxChanges /\ faults' \in 0..MaxFaults
    BY <1>3, CommandTypes DEF UndoNext
  <2>2. mounts' \subseteq mounts /\ todo' \subseteq todo
    BY <1>3 DEF UndoNext
  <2>3. then' \in Continuations
    BY <1>3 DEF UndoNext, TypeOK, Continuations
  <2>4. UNCHANGED <<eligible, sessions, manager, gen, machine, homes, guestSession, current,
                    record, pc, snap, selected, last, plan, previous, ok>>
    BY <1>3 DEF UndoNext
  <2>. QED
    BY <2>1, <2>2, <2>3, <2>4 DEF TypeOK
<1>4. CASE UndoDone
  <2>1. record' \in Record
    BY <1>4, RecordTyped DEF UndoDone, TypeOK
  <2>2. previous # None => RollbackPlan \in Plan
    BY ConfigAssumption DEF TypeOK, RollbackPlan, Plan
  <2>3. (plan' = None \/ plan' \in Plan) /\ (previous' = None \/ previous' \in Plan)
    BY <1>4, <2>2 DEF UndoDone, TypeOK
  <2>4. pc' \in Where /\ ok' \in BOOLEAN
    BY <1>4 DEF UndoDone, Where
  <2>5. UNCHANGED <<eligible, sessions, manager, gen, machine, homes, mounts, guestSession,
                    current, snap, selected, last, todo, then, changes, faults>>
    BY <1>4 DEF UndoDone, budget
  <2>. QED
    BY <2>1, <2>3, <2>4, <2>5 DEF TypeOK
<1>. QED
  BY <1>1, <1>2, <1>3, <1>4

-----------------------------------------------------------------------------
(* What a desktop holds after a step.                                       *)

\* One service changes.
LEMMA HeldService ==
    ASSUME NEW a \in Active, NEW c \in Active, NEW d \in Services, c.plan = a.plan,
           \A e \in Services : e # d => c[e] = a[e]
    PROVE  Held(c) = {b \in Held(a) : b.dest # d}
                       \cup (IF c[d].bound THEN {Socket(d)} ELSE {})
<1>1. Held(a) = a.plan.binds \cup {Socket(e) : e \in {f \in Services : a[f].bound}}
  BY NoneAssumption DEF Held
<1>2. Held(c) = a.plan.binds \cup {Socket(e) : e \in {f \in Services : c[f].bound}}
  BY NoneAssumption DEF Held
<1>3. \A b \in a.plan.binds : b.dest # d
  BY HeldFacts
<1>4. \A e \in Services : Socket(e).dest = e
  BY DEF Socket
<1>. QED
  BY <1>1, <1>2, <1>3, <1>4

\* A service is started or given up.
LEMMA RestartFacts ==
    ASSUME TypeOK, current \in Active, NEW d \in Services, NEW outcome \in {On, Off},
           Restarted(d, outcome)
    PROVE  /\ current' \in Active /\ current'.plan = current.plan
           /\ current'[d] = outcome
           /\ \A e \in Services : e # d => current'[e] = current[e]
           /\ mounts' \subseteq Bind \cup {Socket(e) : e \in Services}
           /\ mounts = Held(current) => mounts' = Held(current')
<1>. DEFINE c == [current EXCEPT ![d] = outcome]
<1>1. outcome \in Service /\ (outcome = On <=> outcome.bound) /\ outcome.bound \in BOOLEAN
  BY ServiceValues
<1>2. c \in Active /\ c.plan = current.plan /\ c[d] = outcome
      /\ \A e \in Services : e # d => c[e] = current[e]
  BY <1>1, ServiceChanges
<1>3. current' = c /\ mounts' = {b \in mounts : b.dest # d}
                                 \cup (IF outcome = On THEN {Socket(d)} ELSE {})
  BY DEF Restarted
<1>. HIDE DEF c
<1>4. Held(c) = {b \in Held(current) : b.dest # d} \cup (IF c[d].bound THEN {Socket(d)} ELSE {})
  BY <1>2, HeldService
<1>5. Held(c) = {b \in Held(current) : b.dest # d} \cup (IF outcome = On THEN {Socket(d)} ELSE {})
  BY <1>1, <1>2, <1>4
<1>6. mounts' \subseteq mounts \cup {Socket(d)}
  BY <1>3
<1>. QED
  BY <1>2, <1>3, <1>5, <1>6 DEF TypeOK

\* Its socket cannot be unmounted.
LEMMA StuckFacts ==
    ASSUME TypeOK, current \in Active, NEW d \in Services, NEW x \in BOOLEAN, Stuck(d, x)
    PROVE  /\ current' \in Active /\ current'.plan = current.plan
           /\ current'[d].up = x /\ current'[d].bound = current[d].bound
           /\ \A e \in Services : e # d => current'[e] = current[e]
           /\ mounts' = mounts
           /\ mounts = Held(current) => mounts' = Held(current')
<1>. DEFINE c == [current EXCEPT ![d].up = x]
<1>1. c \in Active /\ c.plan = current.plan /\ c[d].up = x /\ c[d].bound = current[d].bound
      /\ \A e \in Services : e # d => c[e] = current[e]
  BY ProcessChanges
<1>2. current' = c /\ mounts' = mounts
  BY DEF Stuck
<1>. HIDE DEF c
<1>3. Held(c) = Held(current)
  <2>1. \A e \in Services : c[e].bound = current[e].bound
    BY <1>1
  <2>. QED
    BY <1>1, <2>1, NoneAssumption DEF Held
<1>. QED
  BY <1>1, <1>2, <1>3

\* Its new socket is bound in vain.
LEMMA VainFacts ==
    ASSUME TypeOK, current \in Active, NEW d \in Services, BoundInVain(d)
    PROVE  /\ current' \in Active /\ current'.plan = current.plan
           /\ current'[d].up = FALSE /\ current'[d].bound = TRUE
           /\ \A e \in Services : e # d => current'[e] = current[e]
           /\ mounts' \subseteq Bind \cup {Socket(e) : e \in Services}
           /\ mounts = Held(current) => mounts' = Held(current')
<1>. DEFINE s == [up |-> FALSE, bound |-> TRUE]
            c == [current EXCEPT ![d] = s]
<1>1. s \in Service /\ s.up = FALSE /\ s.bound = TRUE
  BY DEF Service
<1>2. current' = c /\ mounts' = mounts \cup {Socket(d)}
  BY DEF BoundInVain
<1>. HIDE DEF s
<1>3. c \in Active /\ c.plan = current.plan /\ c[d] = s
      /\ \A e \in Services : e # d => c[e] = current[e]
  BY <1>1, ServiceChanges
<1>. HIDE DEF c
<1>4. Held(c) = {b \in Held(current) : b.dest # d} \cup (IF c[d].bound THEN {Socket(d)} ELSE {})
  BY <1>3, HeldService
<1>5. \A b \in Held(current) : b.dest = d => b = Socket(d)
  BY HeldFacts
<1>6. Held(c) = Held(current) \cup {Socket(d)}
  BY <1>1, <1>3, <1>4, <1>5
<1>. QED
  BY <1>1, <1>2, <1>3, <1>6 DEF TypeOK

LEMMA RepairTypes ==
    ASSUME TypeOK, Phases, RepairAccessibility \/ RepairPortal \/ RepairComputer
    PROVE  TypeOK' /\ current \in Active
<1>. USE DEF hostVars, guestVars, tickVars, planVars
<1>1. current \in Active /\ current.portal.up \in BOOLEAN
      /\ current.plan.login \in Logins \cup {None}
  BY DEF RepairAccessibility, RepairPortal, RepairComputer, TypeOK, Phases, Repairing, Active,
         Service, Plan
<1>2. /\ current' = current /\ mounts' = mounts
      \/ \E d \in Services : \/ \E outcome \in {On, Off} : Restarted(d, outcome)
                           \/ \E x \in BOOLEAN : Stuck(d, x)
                           \/ BoundInVain(d)
  BY <1>1 DEF RepairAccessibility, RepairPortal, RepairComputer, Services
<1>3. current' \in Active /\ mounts' \subseteq Bind \cup {Socket(d) : d \in Services}
  BY <1>1, <1>2, RestartFacts, StuckFacts, VainFacts DEF TypeOK
<1>4. record' \in Record
  BY <1>1, RecordTyped DEF RepairAccessibility, RepairPortal, RepairComputer, TypeOK
<1>5. changes' \in 0..MaxChanges /\ faults' \in 0..MaxFaults
  BY CommandTypes DEF RepairAccessibility, RepairPortal, RepairComputer, Stuck, BoundInVain
<1>6. pc' \in Where
  BY DEF RepairAccessibility, RepairPortal, RepairComputer, Where
<1>7. UNCHANGED <<eligible, sessions, manager, gen, machine, homes, guestSession, snap, selected,
                  last, plan, previous, todo, then, ok>>
  BY DEF RepairAccessibility, RepairPortal, RepairComputer
<1>. QED
  BY <1>1, <1>3, <1>4, <1>5, <1>6, <1>7 DEF TypeOK

-----------------------------------------------------------------------------
(* Every step keeps the worker's phases.                                    *)

LEMMA StillByPhase ==
    ASSUME ByPhase, UNCHANGED <<mounts, current, record, pc, snap, selected, plan, previous,
                                todo, then>>
    PROVE  ByPhase'
<1>1. Held(current)' = Held(current)
  BY DEF Held
<1>. QED
  BY <1>1 DEF ByPhase, Phases, PlansFunctional, MountsByPhase, TodoByPhase, RecordByPhase,
              GrantsByPhase, Revoking, Removing, Adding, TearingDown, Activating, Agrees,
              SessionActive, Functional, Settled, Repairing, Ending

LEMMA EnvironmentPhases ==
    ASSUME TypeOK, ByPhase, Environment
    PROVE  ByPhase'
<1>. USE DEF hostVars, guestVars, tickVars, planVars, budget
<1>1. CASE LoginChanges \/ MachineExits \/ \E d \in Replaceable : SourceReplaced(d)
  BY <1>1, StillByPhase DEF LoginChanges, MachineExits, SourceReplaced
<1>2. ASSUME NEW d \in Services, ServiceDies(d)
      PROVE  ByPhase'
  <2>1. current \in Active /\ current' = [current EXCEPT ![d].up = FALSE] /\ current[d].up
    BY <1>2 DEF ServiceDies, TypeOK
  <2>2. /\ current' \in Active /\ current'.plan = current.plan
        /\ current'[d].up = FALSE /\ current'[d].bound = current[d].bound
        /\ \A e \in Services : e # d => current'[e] = current[e]
    <3>. DEFINE c == [current EXCEPT ![d].up = FALSE]
    <3>1. /\ c \in Active /\ c.plan = current.plan
          /\ c[d].up = FALSE /\ c[d].bound = current[d].bound
          /\ \A e \in Services : e # d => c[e] = current[e]
      BY <2>1, ProcessChanges
    <3>2. current' = c
      BY <2>1
    <3>. HIDE DEF c
    <3>. QED
      BY <3>1, <3>2
  <2>3. \A e \in Services : current'[e].bound = current[e].bound
    BY <2>2
  <2>4. Held(current)' = Held(current)
    BY <2>1, <2>2, <2>3, NoneAssumption DEF Held
  <2>5. current # None /\ current' # None
    BY <2>1, <2>2, NoneAssumption
  <2>6. current[d] # Off
    BY <2>1, ServiceValues
  <2>7. "acc" \in Services /\ "comp" \in Services
    BY DEF Services
  <2>8. UNCHANGED <<mounts, record, pc, snap, selected, plan, previous, todo, then>>
    BY <1>2 DEF ServiceDies
  <2>9. /\ current.acc = Off => current'.acc = Off
        /\ ~current.acc.up => ~current'.acc.up
        /\ current'.acc.bound = current.acc.bound
        /\ current.comp = Off => current'.comp = Off
        /\ ~current.comp.up => ~current'.comp.up
    BY <2>2, <2>3, <2>6, <2>7
  <2>10. Phases'
    BY <2>5, <2>8 DEF ByPhase, Phases, Revoking, Removing, Adding, TearingDown, Activating
  <2>11. PlansFunctional'
    BY <2>2, <2>5, <2>8 DEF ByPhase, PlansFunctional, Functional
  <2>12. MountsByPhase'
    BY <2>4, <2>8 DEF ByPhase, MountsByPhase, Revoking, Removing, Adding, TearingDown
  <2>13. TodoByPhase'
    BY <2>2, <2>8 DEF ByPhase, TodoByPhase, Revoking, Removing, Adding
  <2>14. RecordByPhase'
    BY <2>2, <2>5, <2>8, <2>9 DEF ByPhase, RecordByPhase, Revoking, Removing, Adding, Agrees
  <2>15. GrantsByPhase'
    BY <2>2, <2>5, <2>8, <2>9 DEF ByPhase, GrantsByPhase, Activating, TearingDown, SessionActive
  <2>. QED
    BY <2>10, <2>11, <2>12, <2>13, <2>14, <2>15 DEF ByPhase
<1>. QED
  BY <1>1, <1>2 DEF Environment

\* What the definitions by phase come down to once the place is known.
LEMMA QuietPhases ==
    ASSUME ByPhase,
           TakeSnapshot \/ ReconcileHomes \/ Failed \/ Stop \/ Abandon \/ Close
    PROVE  ByPhase'
<1>. USE DEF hostVars, guestVars, tickVars, planVars
<1>1. CASE TakeSnapshot \/ ReconcileHomes
  <2>1. /\ pc' \in {"begin", "homes", "failed"} /\ pc \in {"idle", "homes"}
        /\ UNCHANGED <<mounts, current, record, selected, plan, previous, todo, then>>
    BY <1>1 DEF TakeSnapshot, ReconcileHomes
  <2>2. Held(current)' = Held(current)
    BY <2>1
  <2>. QED
    BY <2>1, <2>2 DEF ByPhase, Phases, PlansFunctional, MountsByPhase, TodoByPhase,
         RecordByPhase, GrantsByPhase, Revoking, Removing, Adding, TearingDown, Activating,
         Agrees, Functional, Settled, Repairing, Ending
<1>2. CASE Failed \/ Stop \/ Abandon \/ Close
  <2>1. /\ pc' \in {"finally", "stopped"} \/ /\ pc' = "retire" /\ then' = "closed"
                                             /\ current' = None => todo' = {}
        /\ UNCHANGED <<plan, previous>>
        /\ current' = current \/ current' = None
    BY <1>2 DEF Failed, Stop, Abandon, Close
  <2>. QED
    BY <2>1 DEF ByPhase, Phases, PlansFunctional, MountsByPhase, TodoByPhase,
         RecordByPhase, GrantsByPhase, Revoking, Removing, Adding, TearingDown, Activating,
         Agrees, Functional, Settled, Repairing, Ending
<1>. QED
  BY <1>1, <1>2

LEMMA BeginPhases ==
    ASSUME ByPhase, Begin
    PROVE  ByPhase'
<1>. USE DEF hostVars, guestVars, tickVars, planVars
<1>1. /\ pc = "begin" /\ Held(current)' = Held(current)
      /\ UNCHANGED <<mounts, current, record, snap, plan, previous>>
  BY DEF Begin
<1>2. CASE ~SessionActive
  <2>1. pc' \in {"deactivate", "done"} /\ UNCHANGED <<selected, todo, then>> /\ ~SessionActive'
    BY <1>1, <1>2 DEF Begin, SessionActive
  <2>. QED
    BY <1>1, <2>1 DEF ByPhase, Phases, PlansFunctional, MountsByPhase, TodoByPhase,
         RecordByPhase, GrantsByPhase, Revoking, Removing, Adding, TearingDown, Activating,
         Agrees, Functional, Settled, Repairing, Ending
<1>3. CASE SessionActive
  <2>1. pc' = "retire" /\ then' \in {"deactivate", "plan"}
    BY <1>3 DEF Begin
  <2>2. todo' \subseteq {"acc", "comp"} /\ (current = None => todo' = {})
    BY <1>3 DEF Begin, Revocable
  <2>3. current # None /\ selected' # current.plan.login =>
          \A d \in {"acc", "comp"} : d \in todo' \/ current[d] = Off
    BY <1>3 DEF Begin, Revocable, Superseded
  <2>. QED
    BY <1>1, <2>1, <2>2, <2>3 DEF ByPhase, Phases, PlansFunctional, MountsByPhase, TodoByPhase,
         RecordByPhase, GrantsByPhase, Revoking, Removing, Adding, TearingDown, Activating,
         Agrees, Functional, Settled, Repairing, Ending
<1>. QED
  BY <1>2, <1>3

LEMMA PlanFailsPhases ==
    ASSUME TypeOK, ByPhase, PlanFails
    PROVE  ByPhase'
<1>. USE DEF hostVars, guestVars, tickVars, planVars
<1>1. /\ pc = "plan" /\ pc' = "done" /\ Held(current)' = Held(current)
      /\ UNCHANGED <<mounts, current, snap, selected, plan, previous, todo, then>>
  BY DEF PlanFails
<1>2. Agrees
  BY <1>1 DEF ByPhase, RecordByPhase, Settled
<1>3. Agrees'
  <2>1. CASE current = None
    BY <1>1, <2>1 DEF PlanFails, Agrees, Inactive
  <2>2. CASE current # None
    <3>1. record' = [record EXCEPT !.state = "active", !.login = current.plan.login]
      BY <2>2 DEF PlanFails
    <3>2. record'.state = "active" /\ record'.login = current.plan.login
          /\ record'.address = record.address
      BY <3>1 DEF TypeOK, Record
    <3>. QED
      BY <1>1, <1>2, <2>2, <3>2 DEF Agrees
  <2>. QED
    BY <2>1, <2>2
<1>4. SessionActive' = SessionActive
  BY <1>1 DEF SessionActive
<1>5. GrantsByPhase'
  BY <1>1, <1>4, ServiceValues DEF ByPhase, GrantsByPhase, Activating, TearingDown, Repairing
<1>. QED
  BY <1>1, <1>3, <1>5 DEF ByPhase, Phases, PlansFunctional, MountsByPhase, TodoByPhase,
       RecordByPhase, Revoking, Removing, Adding, TearingDown, Activating,
       Functional, Settled, Repairing, Ending

\* Everything a desktop holds is taken down with it.
LEMMA EverythingHeld ==
    ASSUME current \in Active
    PROVE  \A b \in Held(current) : b.dest \in Everything
<1>1. \A d \in Services : current[d].bound => current[d] # Off
  BY ServiceValues
<1>2. \A b \in Held(current) : \/ b \in current.plan.binds
                               \/ \E d \in Services : b = Socket(d) /\ current[d].bound
  BY HeldFacts
<1>3. \A d \in Services : Socket(d).dest = d
  BY HeldFacts
<1>. QED
  BY <1>1, <1>2, <1>3 DEF Everything

LEMMA PlanSucceedsPhases ==
    ASSUME TypeOK, ByPhase, PlanSucceeds
    PROVE  ByPhase'
<1>. USE DEF hostVars, guestVars, tickVars, planVars
<1>. DEFINE P == NewPlan
<1>1. /\ pc = "plan" /\ plan' = P /\ Held(current)' = Held(current)
      /\ UNCHANGED <<mounts, current, snap, selected>>
  BY DEF PlanSucceeds
<1>2. P \in Plan /\ Functional(P.binds) /\ P.login = selected
      /\ (P.grant => P.login = selected) /\ P # None
  BY NewPlanTyped, NoneAssumption
<1>3. mounts = Held(current) /\ Agrees /\ (current = None => todo = {})
      /\ (current # None => current \in Active)
  BY <1>1 DEF ByPhase, Phases, MountsByPhase, RecordByPhase, Settled, TypeOK, Ending
<1>4. PlansFunctional'
  BY <1>1, <1>2 DEF PlanSucceeds, ByPhase, PlansFunctional
<1>5. OnlySettingsDiffer(P, P)
  <2>1. [P EXCEPT !.binds = P.binds] = P
    BY <1>2 DEF Plan
  <2>2. Without(P, P) = {}
    BY DEF Without
  <2>. QED
    BY <2>1, <2>2 DEF OnlySettingsDiffer
<1>6. CASE current # None /\ current.plan = P
  <2>1. pc' = "repairAcc" /\ then' = "done" /\ record' = record
    BY <1>6, <1>5 DEF PlanSucceeds
  <2>2. Agrees'
    BY <1>1, <1>3, <2>1 DEF Agrees
  <2>. HIDE DEF P
  <2>. QED
    BY <1>1, <1>2, <1>3, <1>4, <1>6, <2>1, <2>2
       DEF ByPhase, Phases, MountsByPhase, TodoByPhase,
         RecordByPhase, GrantsByPhase, Revoking, Removing, Adding, TearingDown, Activating,
         Settled, Repairing, Ending
<1>7. CASE current # None /\ current.plan # P /\ OnlySettingsDiffer(current.plan, P)
  <2>1. /\ todo' = {d \in {"portal"} : current[d] # Off} \cup Without(current.plan, P)
        /\ pc' = "retire" /\ then' = "refresh" /\ record' = record
    BY <1>7 DEF PlanSucceeds
  <2>2. Without(current.plan, P) \subseteq {"settings"}
        /\ [P EXCEPT !.binds = current.plan.binds] = current.plan
    BY <1>7 DEF OnlySettingsDiffer
  <2>3. \A b \in current.plan.binds \ P.binds : b.dest \in todo'
    BY <2>1 DEF Without
  <2>4. P = [current.plan EXCEPT !.binds = P.binds]
    <3>1. P = [[P EXCEPT !.binds = current.plan.binds] EXCEPT !.binds = P.binds]
      BY <1>2 DEF Plan
    <3>. QED
      BY <2>2, <3>1
  <2>5. todo' \subseteq {"portal", "settings"}
    BY <2>1, <2>2
  <2>6. Agrees'
    BY <1>1, <1>3, <2>1 DEF Agrees
  <2>. HIDE DEF P
  <2>. QED
    BY <1>1, <1>2, <1>3, <1>4, <1>7, <2>1, <2>3, <2>4, <2>5, <2>6
       DEF ByPhase, Phases, MountsByPhase, TodoByPhase,
         RecordByPhase, GrantsByPhase, Revoking, Removing, Adding, TearingDown, Activating,
         Settled, Repairing, Ending
<1>8. CASE current # None /\ ~OnlySettingsDiffer(current.plan, P)
  <2>1. pc' = "retire" /\ then' = "activate" /\ todo' = Everything
    BY <1>8, <1>5 DEF PlanSucceeds
  <2>2. mounts = {b \in Held(current) : b.dest \in todo'}
    BY <1>3, <1>8, <2>1, EverythingHeld
  <2>. HIDE DEF P
  <2>. QED
    BY <1>1, <1>2, <1>4, <1>8, <2>1, <2>2
       DEF ByPhase, Phases, MountsByPhase, TodoByPhase,
         RecordByPhase, GrantsByPhase, Revoking, Removing, Adding, TearingDown, Activating,
         Settled, Repairing, Ending
<1>9. CASE current = None
  <2>1. pc' = "prepare" /\ todo' = todo /\ then' = then
    BY <1>9 DEF PlanSucceeds
  <2>. HIDE DEF P
  <2>. QED
    BY <1>1, <1>2, <1>3, <1>4, <1>9, <2>1
       DEF ByPhase, Phases, MountsByPhase, TodoByPhase,
         RecordByPhase, GrantsByPhase, Revoking, Removing, Adding, TearingDown, Activating,
         Settled, Repairing, Ending
<1>. QED
  BY <1>6, <1>7, <1>8, <1>9

\* Retiring d: its service is off, and its socket or bind is gone from what the
\* desktop holds, except for a bind that is torn down with the desktop.
LEMMA RetiredFacts ==
    ASSUME TypeOK, Phases, RetireNext
    PROVE  LET d == Last(todo) IN
           /\ current' \in Active /\ current'.plan.login = current.plan.login
           /\ \A e \in Services : current'[e] = IF e = d THEN Off ELSE current[e]
           /\ d \in Services \/ then # "refresh" => current'.plan = current.plan
           /\ d \notin Services /\ then = "refresh" =>
                current'.plan = [current.plan EXCEPT
                                   !.binds = {b \in current.plan.binds : b.dest # d}]
           /\ d \in Services \/ then = "refresh" =>
                Held(current') = {b \in Held(current) : b.dest # d}
           /\ d \notin Services /\ then # "refresh" => current' = current
<1>. DEFINE d == Last(todo)
<1>1. current \in Active /\ current' \in Active /\ d \in Dests
  BY RetireTypes
<1>2. CASE d \in Services
  <2>. DEFINE c == [current EXCEPT ![d] = Off]
  <2>1. c \in Active /\ c.plan = current.plan /\ c[d] = Off
        /\ \A e \in Services : e # d => c[e] = current[e]
    BY <1>1, <1>2, ServiceChanges, ServiceValues
  <2>2. current' = c
    BY <1>2 DEF RetireNext, Dropped, Unbound
  <2>. HIDE DEF c
  <2>3. Held(c) = {b \in Held(current) : b.dest # d} \cup (IF c[d].bound THEN {Socket(d)} ELSE {})
    BY <1>1, <1>2, <2>1, HeldService
  <2>4. Held(c) = {b \in Held(current) : b.dest # d}
    BY <2>1, <2>3, ServiceValues
  <2>. HIDE DEF d
  <2>. QED
    BY <1>1, <1>2, <2>1, <2>2, <2>4 DEF d
<1>3. CASE d \notin Services /\ then # "refresh"
  <2>1. current' = current
    BY <1>3 DEF RetireNext, Dropped, Unbound
  <2>. QED
    BY <1>1, <1>3, <2>1
<1>4. CASE d \notin Services /\ then = "refresh"
  <2>. DEFINE B == {b \in current.plan.binds : b.dest # d}
              c == [current EXCEPT !.plan.binds = B]
  <2>1. B \in SUBSET Bind
    BY <1>1 DEF Active, Plan
  <2>2. current' = c
    BY <1>4 DEF RetireNext, Dropped, Unbound
  <2>. HIDE DEF B
  <2>3. /\ c \in Active /\ c.plan = [current.plan EXCEPT !.binds = B]
        /\ c.plan.binds = B /\ c.plan.login = current.plan.login
        /\ \A e \in Services : c[e] = current[e]
    BY <1>1, <2>1, BindsChange
  <2>. HIDE DEF c
  <2>4. Held(c) = B \cup {Socket(e) : e \in {f \in Services : current[f].bound}}
    BY <2>3, NoneAssumption DEF Held
  <2>5. Held(current) = current.plan.binds \cup {Socket(e) : e \in {f \in Services : current[f].bound}}
    BY <1>1, NoneAssumption DEF Held
  <2>6. \A e \in Services : Socket(e).dest = e
    BY DEF Socket
  <2>7. Held(c) = {b \in Held(current) : b.dest # d}
    BY <1>4, <2>4, <2>5, <2>6 DEF B
  <2>. HIDE DEF d
  <2>. QED
    BY <1>1, <1>4, <2>2, <2>3, <2>7 DEF d, B
<1>. QED
  BY <1>2, <1>3, <1>4

LEMMA RetireNextPhases ==
    ASSUME TypeOK, ByPhase, RetireNext
    PROVE  ByPhase'
<1>. USE DEF hostVars, guestVars, tickVars, planVars
<1>. DEFINE d == Last(todo)
<1>1. /\ pc = "retire" /\ pc' = "retire" /\ mounts' = {b \in mounts : b.dest # d}
      /\ record' = RecordAfter(d) /\ todo' = todo \ {d}
      /\ UNCHANGED <<snap, selected, plan, previous, then>>
  BY DEF RetireNext
<1>2. current \in Active /\ current # None /\ current' # None /\ d \in todo /\ d \in Dests
  BY RetireTypes, RetiredFacts, NoneAssumption DEF ByPhase
<1>3. /\ current' \in Active /\ current'.plan.login = current.plan.login
      /\ \A e \in Services : current'[e] = IF e = d THEN Off ELSE current[e]
      /\ d \in Services \/ then # "refresh" => current'.plan = current.plan
      /\ d \notin Services /\ then = "refresh" =>
           current'.plan = [current.plan EXCEPT !.binds = {b \in current.plan.binds : b.dest # d}]
      /\ d \in Services \/ then = "refresh" =>
           Held(current') = {b \in Held(current) : b.dest # d}
      /\ d \notin Services /\ then # "refresh" => current' = current
  BY RetiredFacts DEF ByPhase
<1>. HIDE DEF d
<1>4. current.plan \in Plan /\ current'.plan \in Plan
  BY <1>2, <1>3 DEF Active
<1>5. Phases'
  BY <1>1, <1>2 DEF ByPhase, Phases, Revoking, Removing, Adding, TearingDown, Activating,
                    Repairing, Ending
<1>6. current'.plan.binds \subseteq current.plan.binds
      /\ (d \notin Services /\ then = "refresh" => \A b \in current'.plan.binds : b.dest # d)
  BY <1>3, <1>4 DEF Plan
<1>7. PlansFunctional'
  BY <1>1, <1>2, <1>6 DEF ByPhase, PlansFunctional, Functional
<1>8. MountsByPhase'
  <2>1. CASE Revoking \/ Removing
    <3>1. mounts = Held(current) /\ (d \in Services \/ then = "refresh")
      BY <1>1, <1>2, <2>1 DEF ByPhase, MountsByPhase, TodoByPhase, Revoking, Removing, Services
    <3>2. mounts' = Held(current')
      BY <1>1, <1>3, <3>1
    <3>. QED
      BY <1>1, <2>1, <3>2 DEF MountsByPhase, Revoking, Removing, TearingDown
  <2>2. CASE TearingDown
    <3>1. mounts = {b \in Held(current) : b.dest \in todo} /\ then # "refresh"
      BY <1>1, <2>2 DEF ByPhase, MountsByPhase, TearingDown
    <3>2. mounts' = {b \in Held(current') : b.dest \in todo'}
      BY <1>1, <1>3, <3>1
    <3>. QED
      BY <1>1, <2>2, <3>2 DEF MountsByPhase, Revoking, Removing, TearingDown, Adding, Settled, Repairing
  <2>3. CASE then = "closed"
    BY <1>1, <2>3 DEF MountsByPhase, Revoking, Removing, TearingDown, Adding, Settled, Repairing
  <2>. QED
    BY <1>1, <2>1, <2>2, <2>3 DEF ByPhase, Phases
<1>9. TodoByPhase'
  <2>1. CASE Removing
    <3>1. \A b \in current'.plan.binds \ plan'.binds : b.dest \in todo'
      <4>1. \A b \in current'.plan.binds : b.dest # d
        BY <1>2, <1>3, <1>6, <2>1, HeldFacts DEF Removing
      <4>. QED
        BY <1>1, <1>6, <2>1, <4>1 DEF ByPhase, TodoByPhase
    <3>2. plan = [current'.plan EXCEPT !.binds = plan.binds]
      <4>1. plan = [current.plan EXCEPT !.binds = plan.binds]
        BY <2>1 DEF ByPhase, TodoByPhase
      <4>. QED
        BY <1>3, <1>4, <4>1 DEF Plan
    <3>. QED
      BY <1>1, <2>1, <3>1, <3>2 DEF ByPhase, TodoByPhase, Removing, Revoking, Adding
  <2>2. CASE ~Removing
    BY <1>1, <2>2 DEF ByPhase, TodoByPhase, Removing, Revoking, Adding
  <2>. QED
    BY <2>1, <2>2
<1>10. RecordByPhase'
  <2>1. CASE Revoking \/ Removing
    <3>1. Agrees
      BY <2>1 DEF ByPhase, RecordByPhase
    <3>2. CASE d = "acc"
      BY <1>1, <1>2, <1>3, <3>2 DEF RecordAfter, ActiveRecord, Agrees, RecordByPhase
    <3>3. CASE d # "acc"
      <4>1. current'.acc = current.acc
        BY <1>3, <3>3 DEF Services
      <4>. QED
        BY <1>1, <1>2, <1>3, <3>1, <3>3, <4>1 DEF RecordAfter, Agrees, RecordByPhase
    <3>. QED
      BY <3>2, <3>3
  <2>2. CASE ~(Revoking \/ Removing)
    BY <1>1, <2>2 DEF RecordByPhase, Revoking, Removing, Adding, Settled, Repairing
  <2>. QED
    BY <2>1, <2>2
<1>11. GrantsByPhase'
  <2>1. \A e \in {"acc", "comp"} : current'[e] = IF e = d THEN Off ELSE current[e]
    BY <1>3 DEF Services
  <2>. QED
    BY <1>1, <1>2, <1>3, <2>1
       DEF ByPhase, GrantsByPhase, SessionActive, Activating, TearingDown, Repairing
<1>. QED
  BY <1>5, <1>7, <1>8, <1>9, <1>10, <1>11 DEF ByPhase

LEMMA RetireFailsPhases ==
    ASSUME TypeOK, ByPhase, RetireFails
    PROVE  ByPhase'
<1>. USE DEF hostVars, guestVars, tickVars, planVars
<1>. DEFINE d == Last(todo)
<1>1. /\ pc = "retire" /\ record' = RecordAfter(d)
      /\ pc' = IF then = "refresh" THEN "done" ELSE IF then = "closed" THEN "stopped" ELSE "failed"
      /\ UNCHANGED <<mounts, snap, selected, plan, previous, todo, then>>
  BY DEF RetireFails
<1>2. current \in Active /\ current # None /\ d \in todo /\ d \in Dests
      /\ current' \in Active /\ current' # None
  BY RetireTypes, NoneAssumption DEF ByPhase
<1>3. current'.plan = current.plan
  <2>1. Closed(current, d) \in Active /\ Closed(current, d).plan = current.plan
    <3>1. d \in Services => [current EXCEPT ![d].up = FALSE].plan = current.plan
      BY <1>2, ProcessChanges
    <3>. QED
      BY <1>2, <3>1, RetireTyped DEF Closed
  <2>2. [Closed(current, d) EXCEPT !.portal.up = FALSE].plan = current.plan
    BY <2>1 DEF Active
  <2>. QED
    BY <2>1, <2>2 DEF RetireFails
<1>4. PlansFunctional'
  BY <1>1, <1>2, <1>3 DEF ByPhase, PlansFunctional
<1>5. CASE then = "refresh"
  <2>1. Removing /\ d \in {"portal", "settings"} /\ mounts = Held(current) /\ Agrees
    BY <1>1, <1>2, <1>5 DEF ByPhase, TodoByPhase, MountsByPhase, RecordByPhase, Removing
  <2>2. current' = IF d = "portal" THEN [current EXCEPT !.portal.up = FALSE] ELSE current
    BY <1>5, <2>1 DEF RetireFails, Closed, Services
  <2>3. /\ current'.acc = current.acc
        /\ \A e \in Services : current'[e].bound = current[e].bound
    BY <1>2, <2>2 DEF Active, Services, Service
  <2>4. Held(current') = Held(current)
    BY <1>2, <1>3, <2>3 DEF Held
  <2>5. record' = record
    BY <1>1, <2>1 DEF RecordAfter
  <2>6. Agrees'
    BY <1>2, <1>3, <2>1, <2>3, <2>5 DEF Agrees
  <2>7. current.plan.login = selected
    BY <1>2, <2>1 DEF ByPhase, TodoByPhase, Active, Plan
  <2>. HIDE DEF d
  <2>. QED
    BY <1>1, <1>2, <1>3, <1>4, <1>5, <2>1, <2>4, <2>6, <2>7
       DEF ByPhase, Phases, MountsByPhase, TodoByPhase, RecordByPhase, GrantsByPhase, Revoking,
           Removing, Adding, TearingDown, Activating, Settled, Repairing, Ending
<1>6. CASE then # "refresh"
  <2>1. pc' \in {"stopped", "failed"}
    BY <1>1, <1>6
  <2>. QED
    BY <1>1, <1>2, <1>4, <2>1
       DEF ByPhase, Phases, MountsByPhase, TodoByPhase, RecordByPhase, GrantsByPhase, Revoking,
           Removing, Adding, TearingDown, Activating, Settled, Repairing, Ending
<1>. QED
  BY <1>5, <1>6

LEMMA LoopEndPhases ==
    ASSUME TypeOK, ByPhase, RevokedFirst \/ TornDown \/ SettingsRemoved
    PROVE  ByPhase'
<1>. USE DEF hostVars, guestVars, tickVars, planVars
<1>1. CASE RevokedFirst
  <2>1. /\ pc = "retire" /\ pc' = then /\ then \in {"plan", "deactivate"} /\ todo = {}
        /\ UNCHANGED <<mounts, current, record, snap, selected, plan, previous, todo, then>>
        /\ Held(current)' = Held(current)
    BY <1>1 DEF RevokedFirst
  <2>. QED
    BY <2>1 DEF ByPhase, Phases, PlansFunctional, MountsByPhase, TodoByPhase,
         RecordByPhase, GrantsByPhase, Revoking, Removing, Adding, TearingDown, Activating,
         Agrees, SessionActive, Functional, Settled, Repairing, Ending
<1>2. CASE TornDown
  <2>1. /\ pc = "retire" /\ pc' = "prepare" /\ then = "activate" /\ todo = {} /\ current' = None
        /\ UNCHANGED <<mounts, record, snap, selected, plan, previous, todo, then>>
    BY <1>2 DEF TornDown
  <2>2. TearingDown /\ mounts = {} /\ Held(None) = {}
    BY <2>1 DEF ByPhase, MountsByPhase, TearingDown, Held
  <2>. QED
    BY <2>1, <2>2 DEF ByPhase, Phases, PlansFunctional, MountsByPhase, TodoByPhase,
         RecordByPhase, GrantsByPhase, Revoking, Removing, Adding, TearingDown, Activating,
         Functional, Settled, Repairing, Ending
<1>3. CASE SettingsRemoved
  <2>1. /\ pc = "retire" /\ pc' = "mount" /\ then = "refresh" /\ then' = "refreshed" /\ todo = {}
        /\ todo' = Without(plan, current.plan)
        /\ UNCHANGED <<mounts, current, record, snap, selected, plan, previous>>
        /\ Held(current)' = Held(current)
    BY <1>3 DEF SettingsRemoved
  <2>2. current.plan.binds \subseteq plan.binds
    BY <2>1 DEF ByPhase, TodoByPhase, Removing
  <2>3. /\ \A b \in plan.binds \ current.plan.binds : b.dest \in todo'
        /\ \A d \in todo' : \E b \in plan.binds : b.dest = d
    BY <2>1 DEF Without
  <2>. QED
    BY <2>1, <2>2, <2>3 DEF ByPhase, Phases, PlansFunctional, MountsByPhase, TodoByPhase,
         RecordByPhase, GrantsByPhase, Revoking, Removing, Adding, TearingDown, Activating,
         Agrees, Functional, Settled, Repairing, Ending
<1>. QED
  BY <1>1, <1>2, <1>3

LEMMA DeactivatePhases ==
    ASSUME TypeOK, ByPhase, Deactivate \/ Deactivated \/ Done
    PROVE  ByPhase'
<1>. USE DEF hostVars, guestVars, tickVars, planVars
<1>1. CASE Deactivate
  <2>1. /\ pc = "deactivate" /\ pc' = "retire" /\ then' = "inactive"
        /\ current # None => todo' = Everything
        /\ current = None => todo' = todo
        /\ UNCHANGED <<mounts, current, snap, selected, plan, previous>>
        /\ Held(current)' = Held(current)
    BY <1>1 DEF Deactivate
  <2>2. mounts = Held(current) /\ (current = None => todo = {})
    BY <2>1 DEF ByPhase, Phases, MountsByPhase, Settled, Ending
  <2>3. mounts = {b \in Held(current) : b.dest \in todo'}
    BY <2>1, <2>2, EverythingHeld DEF Held, TypeOK
  <2>. QED
    BY <2>1, <2>2, <2>3 DEF ByPhase, Phases, PlansFunctional, MountsByPhase, TodoByPhase,
         RecordByPhase, GrantsByPhase, Revoking, Removing, Adding, TearingDown, Activating,
         Functional, Settled, Repairing, Ending
<1>2. CASE Deactivated
  <2>1. /\ pc = "retire" /\ todo = {} /\ current' = None
        /\ UNCHANGED <<mounts, snap, selected, plan, previous, todo, then>>
        /\ \/ pc' \in {"stopped", "failed"}
           \/ pc' = "done" /\ then = "inactive" /\ record' = Inactive
    BY <1>2 DEF Deactivated
  <2>2. then = "inactive" => mounts = {}
    BY <2>1 DEF ByPhase, MountsByPhase, TearingDown
  <2>3. Held(None) = {} /\ Inactive.state # "active"
    BY DEF Held, Inactive
  <2>. QED
    BY <2>1, <2>2, <2>3 DEF ByPhase, Phases, PlansFunctional, MountsByPhase, TodoByPhase,
         RecordByPhase, GrantsByPhase, Revoking, Removing, Adding, TearingDown, Activating,
         Agrees, Functional, Settled, Repairing, Ending
<1>3. CASE Done
  <2>1. /\ pc = "done" /\ pc' \in {"repairAcc", "idle"} /\ then' = "idle"
        /\ pc' = "repairAcc" => current # None
        /\ plan' = None /\ previous' = None
        /\ UNCHANGED <<mounts, current, record, snap, selected, todo>>
        /\ Held(current)' = Held(current)
    BY <1>3 DEF Done
  <2>. QED
    BY <2>1 DEF ByPhase, Phases, PlansFunctional, MountsByPhase, TodoByPhase,
         RecordByPhase, GrantsByPhase, Revoking, Removing, Adding, TearingDown, Activating,
         Agrees, Functional, Settled, Repairing, Ending
<1>. QED
  BY <1>1, <1>2, <1>3

LEMMA PreparePhases ==
    ASSUME TypeOK, ByPhase, Prepare
    PROVE  ByPhase'
<1>. USE DEF hostVars, guestVars, tickVars, planVars
<1>1. /\ pc = "prepare"
      /\ UNCHANGED <<mounts, current, record, snap, selected, plan, previous>>
      /\ \/ pc' = "mount" /\ then' = "publish" /\ todo' = {b.dest : b \in plan.binds}
         \/ pc' = "undo" /\ then' = "undone" /\ todo' = {}
  BY DEF Prepare
<1>2. current = None /\ mounts = {}
  BY <1>1 DEF ByPhase, Phases, MountsByPhase, Activating, Held
<1>. QED
  BY <1>1, <1>2 DEF ByPhase, Phases, PlansFunctional, MountsByPhase, TodoByPhase,
       RecordByPhase, GrantsByPhase, Revoking, Removing, Adding, TearingDown, Activating,
       Functional, Settled, Repairing, Ending

\* A desktop whose settings are refreshed gets one more bind.
LEMMA BindAdded ==
    ASSUME NEW a \in Active, NEW b \in Bind
    PROVE  LET c == [a EXCEPT !.plan.binds = @ \cup {b}]
           IN  /\ c \in Active /\ Held(c) = Held(a) \cup {b}
               /\ c.plan = [a.plan EXCEPT !.binds = a.plan.binds \cup {b}]
               /\ c.plan.binds = a.plan.binds \cup {b} /\ c.plan.login = a.plan.login
               /\ \A e \in Services : c[e] = a[e]
<1>. DEFINE B == a.plan.binds \cup {b}
            c == [a EXCEPT !.plan.binds = B]
<1>1. B \in SUBSET Bind
  BY DEF Active, Plan
<1>. HIDE DEF B
<1>2. /\ c \in Active /\ c.plan = [a.plan EXCEPT !.binds = B]
      /\ c.plan.binds = B /\ c.plan.login = a.plan.login
      /\ \A e \in Services : c[e] = a[e]
  BY <1>1, BindsChange
<1>. HIDE DEF c
<1>3. Held(c) = B \cup {Socket(e) : e \in {f \in Services : a[f].bound}}
  BY <1>2, NoneAssumption DEF Held
<1>4. Held(a) = a.plan.binds \cup {Socket(e) : e \in {f \in Services : a[f].bound}}
  BY NoneAssumption DEF Held
<1>5. Held(c) = Held(a) \cup {b}
  BY <1>3, <1>4 DEF B
<1>6. [a EXCEPT !.plan.binds = @ \cup {b}] = c
  BY DEF c, B
<1>. QED
  BY <1>2, <1>5, <1>6 DEF B

LEMMA MountNextPhases ==
    ASSUME TypeOK, ByPhase, MountNext
    PROVE  ByPhase'
<1>. USE DEF hostVars, guestVars, tickVars, planVars
<1>1. /\ pc = "mount" /\ pc' = "mount" /\ todo # {}
      /\ mounts' = mounts \cup {Chosen} /\ todo' = todo \ {Chosen.dest}
      /\ current' = IF then = "refreshed" THEN [current EXCEPT !.plan.binds = @ \cup {Chosen}]
                                          ELSE current
      /\ UNCHANGED <<record, snap, selected, plan, previous, then>>
  BY DEF MountNext, Chosen
<1>2. plan \in Plan /\ Chosen \in plan.binds /\ Chosen \in Bind /\ Chosen.dest \in todo
  BY <1>1, ChosenFacts DEF ByPhase
<1>3. CASE then = "publish"
  <2>1. Functional(plan.binds) /\ mounts = {b \in plan.binds : b.dest \notin todo}
    BY <1>1, <1>3 DEF ByPhase, PlansFunctional, MountsByPhase, Phases, Activating
  <2>2. mounts' = {b \in plan.binds : b.dest \notin todo'}
    BY <1>1, <1>2, <2>1 DEF Functional
  <2>3. \A d \in todo' : \E b \in plan.binds : b.dest = d
    BY <1>1 DEF ByPhase, TodoByPhase
  <2>. QED
    BY <1>1, <1>3, <2>2, <2>3 DEF ByPhase, Phases, PlansFunctional, MountsByPhase, TodoByPhase,
         RecordByPhase, GrantsByPhase, Revoking, Removing, Adding, TearingDown, Activating,
         Settled, Repairing, Ending
<1>4. CASE then = "refreshed"
  <2>1. Adding /\ current \in Active /\ mounts = Held(current) /\ Agrees
    BY <1>1, <1>4 DEF ByPhase, Phases, MountsByPhase, RecordByPhase, Adding, TypeOK
  <2>2. /\ current' \in Active /\ Held(current') = Held(current) \cup {Chosen}
        /\ current'.plan = [current.plan EXCEPT !.binds = current.plan.binds \cup {Chosen}]
        /\ current'.plan.binds = current.plan.binds \cup {Chosen}
        /\ current'.plan.login = current.plan.login
        /\ \A e \in Services : current'[e] = current[e]
    BY <1>1, <1>2, <1>4, <2>1, BindAdded
  <2>3. current # None /\ current' # None
    BY <2>1, <2>2, NoneAssumption
  <2>4. current'.acc = current.acc
    BY <2>2 DEF Services
  <2>5. Agrees'
    BY <1>1, <2>1, <2>2, <2>3, <2>4 DEF Agrees
  <2>6. /\ Functional(plan.binds) /\ plan # None /\ current.plan.binds \subseteq plan.binds
        /\ \A b \in plan.binds \ current.plan.binds : b.dest \in todo
        /\ \A d \in todo : \E b \in plan.binds : b.dest = d
        /\ plan = [current.plan EXCEPT !.binds = plan.binds] /\ plan.login = selected
    BY <1>1, <2>1 DEF ByPhase, Phases, PlansFunctional, TodoByPhase
  <2>7. /\ current'.plan.binds \subseteq plan.binds
        /\ Functional(current'.plan.binds)
        /\ \A b \in plan.binds \ current'.plan.binds : b.dest \in todo'
        /\ \A d \in todo' : \E b \in plan.binds : b.dest = d
    BY <1>1, <1>2, <2>2, <2>6 DEF Functional
  <2>8. plan = [current'.plan EXCEPT !.binds = plan.binds]
    BY <2>1, <2>2, <2>6 DEF Active, Plan
  <2>. QED
    BY <1>1, <1>4, <2>1, <2>2, <2>3, <2>5, <2>6, <2>7, <2>8
       DEF ByPhase, Phases, PlansFunctional, MountsByPhase, TodoByPhase,
         RecordByPhase, GrantsByPhase, Revoking, Removing, Adding, TearingDown, Activating,
         Settled, Repairing, Ending
<1>. QED
  BY <1>1, <1>3, <1>4 DEF ByPhase, Phases

LEMMA MountFailsPhases ==
    ASSUME TypeOK, ByPhase, MountFails
    PROVE  ByPhase'
<1>. USE DEF hostVars, guestVars, tickVars, planVars
<1>1. /\ pc = "mount" /\ todo # {} /\ Held(current)' = Held(current)
      /\ UNCHANGED <<mounts, current, record, snap, selected, plan, previous>>
  BY DEF MountFails
<1>2. CASE then = "refreshed"
  <2>1. pc' = "done" /\ todo' = todo /\ then' = then
    BY <1>2 DEF MountFails
  <2>2. Adding /\ current \in Active /\ current # None /\ Agrees
    BY <1>1, <1>2 DEF ByPhase, Phases, RecordByPhase, Adding, TypeOK
  <2>3. current.plan.login = selected
    BY <2>2 DEF ByPhase, TodoByPhase, Active, Plan
  <2>4. Agrees'
    BY <1>1, <2>2 DEF Agrees
  <2>. QED
    BY <1>1, <1>2, <2>1, <2>2, <2>3, <2>4
       DEF ByPhase, Phases, PlansFunctional, MountsByPhase, TodoByPhase,
         RecordByPhase, GrantsByPhase, Revoking, Removing, Adding, TearingDown, Activating,
         Functional, Settled, Repairing, Ending
<1>3. CASE then = "publish"
  <2>1. pc' = "undo" /\ then' = "undone" /\ todo' = {b.dest : b \in plan.binds} \ todo
    BY <1>3 DEF MountFails
  <2>2. \A b \in mounts : b.dest \in todo'
    BY <1>1, <1>3, <2>1 DEF ByPhase, MountsByPhase
  <2>. QED
    BY <1>1, <1>3, <2>1, <2>2
       DEF ByPhase, Phases, PlansFunctional, MountsByPhase, TodoByPhase,
         RecordByPhase, GrantsByPhase, Revoking, Removing, Adding, TearingDown, Activating,
         Functional, Settled, Repairing, Ending
<1>. QED
  BY <1>1, <1>2, <1>3 DEF ByPhase, Phases

LEMMA SettingsRefreshedPhases ==
    ASSUME TypeOK, ByPhase, SettingsRefreshed
    PROVE  ByPhase'
<1>. USE DEF hostVars, guestVars, tickVars, planVars
<1>1. /\ pc = "mount" /\ then = "refreshed" /\ todo = {} /\ pc' = "repairAcc" /\ then' = "done"
      /\ current' = [current EXCEPT !.plan = plan]
      /\ UNCHANGED <<mounts, record, snap, selected, plan, previous, todo>>
  BY DEF SettingsRefreshed
<1>2. Adding /\ current \in Active /\ current # None /\ Agrees /\ mounts = Held(current)
  BY <1>1 DEF ByPhase, Phases, RecordByPhase, MountsByPhase, Adding, TypeOK
<1>3. plan = current.plan /\ plan.login = selected
  <2>1. plan.binds = current.plan.binds /\ plan = [current.plan EXCEPT !.binds = plan.binds]
        /\ plan.login = selected
    BY <1>1, <1>2 DEF ByPhase, TodoByPhase
  <2>. QED
    BY <1>2, <2>1 DEF Active, Plan
<1>4. current' = current
  BY <1>1, <1>2, <1>3 DEF Active
<1>5. Held(current)' = Held(current) /\ Agrees'
  BY <1>1, <1>2, <1>4 DEF Agrees
<1>. QED
  BY <1>1, <1>2, <1>3, <1>4, <1>5
     DEF ByPhase, Phases, PlansFunctional, MountsByPhase, TodoByPhase,
       RecordByPhase, GrantsByPhase, Revoking, Removing, Adding, TearingDown, Activating,
       Functional, Settled, Repairing, Ending

LEMMA PublishPhases ==
    ASSUME TypeOK, ByPhase, Publish \/ PublishFails
    PROVE  ByPhase'
<1>. USE DEF hostVars, guestVars, tickVars, planVars
<1>1. /\ pc = "mount" /\ then = "publish" /\ todo = {}
      /\ UNCHANGED <<snap, selected, plan, previous>>
  BY DEF Publish, PublishFails
<1>2. /\ plan \in Plan /\ plan # None /\ current = None /\ mounts = plan.binds
      /\ Functional(plan.binds) /\ (plan.grant => plan.login = selected)
  BY <1>1 DEF ByPhase, Phases, PlansFunctional, MountsByPhase, GrantsByPhase, Activating, TypeOK
<1>3. CASE Publish
  <2>1. PICK portal \in {On, Off} :
          /\ mounts' = IF portal = On THEN mounts \cup {Socket("portal")} ELSE mounts
          /\ current' = [plan |-> plan, portal |-> portal, acc |-> Off, comp |-> Off]
    BY <1>3 DEF Publish
  <2>2. /\ pc' = "repairAcc" /\ then' = "activated" /\ todo' = todo
        /\ record' = ActiveRecord(plan.login, FALSE)
    BY <1>3 DEF Publish
  <2>3. /\ current' \in Active /\ current'.plan = plan /\ current'.portal = portal
        /\ current'.acc = Off /\ current'.comp = Off
    BY <1>2, <2>1, ServiceValues DEF Active
  <2>4. current' # None
    BY <2>3, NoneAssumption
  <2>5. {e \in Services : current'[e].bound} = IF portal = On THEN {"portal"} ELSE {}
    BY <2>3, ServiceValues DEF Services
  <2>6. Held(current') = plan.binds \cup {Socket(d) : d \in {e \in Services : current'[e].bound}}
    BY <2>3, <2>4 DEF Held
  <2>7. mounts' = Held(current')
    BY <1>2, <2>1, <2>5, <2>6
  <2>8. Agrees'
    BY <2>2, <2>3, <2>4 DEF Agrees, ActiveRecord
  <2>. QED
    BY <1>1, <1>2, <2>2, <2>3, <2>4, <2>7, <2>8, ServiceValues
       DEF ByPhase, Phases, PlansFunctional, MountsByPhase, TodoByPhase,
         RecordByPhase, GrantsByPhase, Revoking, Removing, Adding, TearingDown, Activating,
         Settled, Repairing, Ending
<1>4. CASE PublishFails
  <2>1. PICK portal \in BOOLEAN :
          /\ mounts' = IF portal THEN mounts \cup {Socket("portal")} ELSE mounts
          /\ todo' = {b.dest : b \in plan.binds} \cup (IF portal THEN {"portal"} ELSE {})
    BY <1>4 DEF PublishFails
  <2>2. pc' = "undo" /\ then' = "undone" /\ UNCHANGED <<current, record>>
    BY <1>4 DEF PublishFails
  <2>3. \A b \in mounts' : b.dest \in todo'
    BY <1>2, <2>1 DEF Socket
  <2>. QED
    BY <1>1, <1>2, <2>2, <2>3
       DEF ByPhase, Phases, PlansFunctional, MountsByPhase, TodoByPhase,
         RecordByPhase, GrantsByPhase, Revoking, Removing, Adding, TearingDown, Activating,
         Settled, Repairing, Ending
<1>. QED
  BY <1>3, <1>4

LEMMA UndoPhases ==
    ASSUME TypeOK, ByPhase, UndoNext \/ UndoDone
    PROVE  ByPhase'
<1>. USE DEF hostVars, guestVars, tickVars, planVars
<1>1. pc = "undo" /\ current = None /\ plan # None /\ then \in {"undone", "stuck"}
  BY DEF UndoNext, UndoDone, ByPhase, Phases, Activating
<1>2. CASE UndoNext
  <2>. DEFINE d == Last(todo)
  <2>1. /\ pc' = "undo" /\ todo' = todo \ {d}
        /\ \/ mounts' = {b \in mounts : b.dest # d} /\ then' = then
           \/ then' = "stuck"
        /\ UNCHANGED <<current, record, snap, selected, plan, previous>>
    BY <1>1, <1>2 DEF UndoNext
  <2>2. then' = "undone" => \A b \in mounts' : b.dest \in todo'
    BY <1>1, <2>1 DEF ByPhase, MountsByPhase
  <2>. HIDE DEF d
  <2>. QED
    BY <1>1, <2>1, <2>2
       DEF ByPhase, Phases, PlansFunctional, MountsByPhase, TodoByPhase,
         RecordByPhase, GrantsByPhase, Revoking, Removing, Adding, TearingDown, Activating,
         Functional, Settled, Repairing, Ending
<1>3. CASE UndoDone
  <2>1. todo = {} /\ UNCHANGED <<mounts, current, snap, selected, todo, then>>
        /\ Held(current)' = Held(current)
    BY <1>3 DEF UndoDone
  <2>2. then # "stuck" => mounts = {}
    BY <1>1, <2>1 DEF ByPhase, MountsByPhase
  <2>3. Held(None) = {} /\ Inactive.state # "active"
    BY DEF Held, Inactive
  <2>4. CASE then = "stuck"
    <3>1. pc' = "failed" /\ UNCHANGED <<plan, previous>>
      BY <1>3, <2>4 DEF UndoDone
    <3>. QED
      BY <1>1, <2>1, <3>1
         DEF ByPhase, Phases, PlansFunctional, MountsByPhase, TodoByPhase,
           RecordByPhase, GrantsByPhase, Revoking, Removing, Adding, TearingDown, Activating,
           Functional, Settled, Repairing, Ending
  <2>5. CASE then # "stuck" /\ previous = None
    <3>1. pc' = "done" /\ record' = Inactive /\ UNCHANGED <<plan, previous>>
      BY <1>3, <2>5 DEF UndoDone
    <3>. QED
      BY <1>1, <2>1, <2>2, <2>3, <2>5, <3>1
         DEF ByPhase, Phases, PlansFunctional, MountsByPhase, TodoByPhase,
           RecordByPhase, GrantsByPhase, Revoking, Removing, Adding, TearingDown, Activating,
           Agrees, Functional, Settled, Repairing, Ending
  <2>6. CASE then # "stuck" /\ previous # None
    <3>1. pc' = "prepare" /\ plan' = RollbackPlan /\ previous' = None /\ record' = record
      BY <1>3, <2>6 DEF UndoDone
    <3>2. /\ RollbackPlan \in Plan /\ RollbackPlan.binds = previous.binds
          /\ RollbackPlan.login = previous.login
          /\ RollbackPlan.grant => RollbackPlan.login = selected
      BY <2>6, ConfigAssumption DEF TypeOK, RollbackPlan, Plan
    <3>3. RollbackPlan # None
      BY <3>2, NoneAssumption
    <3>. QED
      BY <1>1, <2>1, <2>2, <2>3, <2>6, <3>1, <3>2, <3>3
         DEF ByPhase, Phases, PlansFunctional, MountsByPhase, TodoByPhase,
           RecordByPhase, GrantsByPhase, Revoking, Removing, Adding, TearingDown, Activating,
           Functional, Settled, Repairing, Ending
  <2>. QED
    BY <2>4, <2>5, <2>6
<1>. QED
  BY <1>2, <1>3

\* What every repair leaves alone.
LEMMA RepairFacts ==
    ASSUME TypeOK, ByPhase, NEW d \in Services,
           \/ d = "acc" /\ RepairAccessibility
           \/ d = "portal" /\ RepairPortal
           \/ d = "comp" /\ RepairComputer
    PROVE  /\ current \in Active /\ current # None /\ current' \in Active /\ current' # None
           /\ current'.plan = current.plan
           /\ \A e \in Services : e # d => current'[e] = current[e]
           /\ mounts = Held(current) /\ mounts' = Held(current') /\ Agrees
           /\ then \in {"idle", "done", "activated"}
           /\ UNCHANGED <<snap, selected, plan, previous, todo, then>>
<1>. USE DEF hostVars, guestVars, tickVars, planVars
<1>1. pc \in Repairing
  BY DEF RepairAccessibility, RepairPortal, RepairComputer, Repairing
<1>2. current \in Active /\ current # None /\ current.portal.up \in BOOLEAN
      /\ mounts = Held(current) /\ Agrees /\ then \in {"idle", "done", "activated"}
  BY <1>1 DEF ByPhase, Phases, MountsByPhase, RecordByPhase, Settled, TypeOK, Active, Service
<1>3. UNCHANGED <<snap, selected, plan, previous, todo, then>>
  BY DEF RepairAccessibility, RepairPortal, RepairComputer
<1>4. \/ current' = current /\ mounts' = mounts
      \/ \E outcome \in {On, Off} : Restarted(d, outcome)
      \/ \E x \in BOOLEAN : Stuck(d, x)
      \/ BoundInVain(d)
  BY <1>2 DEF RepairAccessibility, RepairPortal, RepairComputer
<1>5. CASE current' = current /\ mounts' = mounts
  BY <1>2, <1>3, <1>5
<1>6. ASSUME NEW outcome \in {On, Off}, Restarted(d, outcome)
      PROVE  current' \in Active /\ current'.plan = current.plan /\ mounts' = Held(current')
             /\ \A e \in Services : e # d => current'[e] = current[e]
  BY <1>2, <1>6, RestartFacts
<1>7. ASSUME NEW x \in BOOLEAN, Stuck(d, x)
      PROVE  current' \in Active /\ current'.plan = current.plan /\ mounts' = Held(current')
             /\ \A e \in Services : e # d => current'[e] = current[e]
  BY <1>2, <1>7, StuckFacts
<1>8. ASSUME BoundInVain(d)
      PROVE  current' \in Active /\ current'.plan = current.plan /\ mounts' = Held(current')
             /\ \A e \in Services : e # d => current'[e] = current[e]
  BY <1>2, <1>8, VainFacts
<1>. QED
  BY <1>2, <1>3, <1>4, <1>5, <1>6, <1>7, <1>8, NoneAssumption

LEMMA RepairAccessibilityPhases ==
    ASSUME TypeOK, ByPhase, RepairAccessibility
    PROVE  ByPhase'
<1>1. /\ current \in Active /\ current # None /\ current' \in Active /\ current' # None
      /\ current'.plan = current.plan /\ current'.comp = current.comp
      /\ mounts = Held(current) /\ mounts' = Held(current') /\ Agrees
      /\ then \in {"idle", "done", "activated"}
      /\ UNCHANGED <<snap, selected, plan, previous, todo, then>>
  BY RepairFacts DEF Services
<1>2. pc = "repairAcc" /\ pc' \in {"repairPortal", "repairComp"}
  BY DEF RepairAccessibility
<1>3. "acc" \in Services
  BY DEF Services
<1>4. Agrees'
  <2>1. CASE current' = current /\ record' = record
    BY <1>1, <2>1 DEF Agrees
  <2>2. CASE Restarted("acc", On) /\ record' = ActiveRecord(current.plan.login, TRUE)
    <3>1. current'.acc = On
      BY <1>1, <1>3, <2>2, RestartFacts
    <3>. QED
      BY <1>1, <2>2, <3>1, ServiceValues DEF Agrees, ActiveRecord
  <2>3. CASE Restarted("acc", Off) /\ record' = IF current.acc # Off
                                                THEN ActiveRecord(current.plan.login, FALSE)
                                                ELSE record
    <3>1. current.acc = Off => ~record.address
      BY <1>1, ServiceValues DEF Agrees
    <3>. QED
      BY <1>1, <2>3, <3>1 DEF Agrees, ActiveRecord
  <2>4. CASE record' = ActiveRecord(current.plan.login, FALSE)
    BY <1>1, <2>4 DEF Agrees, ActiveRecord
  <2>. QED
    BY <2>1, <2>2, <2>3, <2>4 DEF RepairAccessibility
<1>5. GrantsByPhase'
  BY <1>1, <1>2 DEF ByPhase, GrantsByPhase, SessionActive, Activating, TearingDown, Repairing
<1>. QED
  BY <1>1, <1>2, <1>4, <1>5
     DEF ByPhase, Phases, PlansFunctional, MountsByPhase, TodoByPhase,
       RecordByPhase, Revoking, Removing, Adding, TearingDown, Activating,
       Settled, Repairing, Ending

LEMMA RepairPortalPhases ==
    ASSUME TypeOK, ByPhase, RepairPortal
    PROVE  ByPhase'
<1>1. /\ current \in Active /\ current # None /\ current' \in Active /\ current' # None
      /\ current'.plan = current.plan /\ current'.comp = current.comp
      /\ current'.acc = current.acc
      /\ mounts = Held(current) /\ mounts' = Held(current') /\ Agrees
      /\ then \in {"idle", "done", "activated"}
      /\ UNCHANGED <<snap, selected, plan, previous, todo, then>>
  BY RepairFacts DEF Services
<1>2. pc = "repairPortal" /\ pc' = "repairComp" /\ record' = record
  BY DEF RepairPortal
<1>3. Agrees'
  BY <1>1, <1>2 DEF Agrees
<1>4. GrantsByPhase'
  BY <1>1, <1>2 DEF ByPhase, GrantsByPhase, SessionActive, Activating, TearingDown, Repairing
<1>. QED
  BY <1>1, <1>2, <1>3, <1>4
     DEF ByPhase, Phases, PlansFunctional, MountsByPhase, TodoByPhase,
       RecordByPhase, Revoking, Removing, Adding, TearingDown, Activating,
       Settled, Repairing, Ending

LEMMA RepairComputerPhases ==
    ASSUME TypeOK, ByPhase, RepairComputer
    PROVE  ByPhase'
<1>1. /\ current \in Active /\ current # None /\ current' \in Active /\ current' # None
      /\ current'.plan = current.plan /\ current'.acc = current.acc
      /\ mounts = Held(current) /\ mounts' = Held(current') /\ Agrees
      /\ then \in {"idle", "done", "activated"}
      /\ UNCHANGED <<snap, selected, plan, previous, todo, then>>
  BY RepairFacts DEF Services
<1>2. pc = "repairComp" /\ record' = record
      /\ pc' \in {"idle", "done", "failed"} /\ (pc' = "done" => then # "idle")
  BY DEF RepairComputer
<1>3. Agrees'
  BY <1>1, <1>2 DEF Agrees
<1>4. SessionActive' = SessionActive
  BY <1>1 DEF SessionActive
<1>5. GrantsByPhase'
  <2>1. CASE SessionActive /\ selected # current.plan.login /\ then # "idle"
    <3>1. ~current.plan.grant /\ ~current.comp.up
      BY <1>1, <1>2, <2>1 DEF ByPhase, GrantsByPhase, Repairing
    <3>2. current' = current
      BY <3>1 DEF RepairComputer, ComputerWanted
    <3>. QED
      BY <1>1, <1>2, <3>1, <3>2 DEF GrantsByPhase, Activating, TearingDown, Repairing
  <2>2. CASE ~(SessionActive /\ selected # current.plan.login /\ then # "idle")
    BY <1>1, <1>2, <1>4, <2>2 DEF GrantsByPhase, Activating, TearingDown, Repairing
  <2>. QED
    BY <2>1, <2>2
<1>. QED
  BY <1>1, <1>2, <1>3, <1>5
     DEF ByPhase, Phases, PlansFunctional, MountsByPhase, TodoByPhase,
       RecordByPhase, Revoking, Removing, Adding, TearingDown, Activating,
       Settled, Repairing, Ending

-----------------------------------------------------------------------------
(* The theorems.                                                            *)

LEMMA InitInv ==
    ASSUME Init
    PROVE  IInv
<1>1. TypeOK
  <2>1. sessions \subseteq Logins /\ gen \in [Replaceable -> 0..1]
    BY DEF Init, Replaceable
  <2>2. record \in Record
    BY DEF Init, Record
  <2>3. snap \in Snapshot /\ last \in Snapshot
    BY DEF Init, Snapshot, NoSnapshot
  <2>4. changes \in 0..MaxChanges /\ faults \in 0..MaxFaults
    BY BoundAssumption DEF Init
  <2>. QED
    BY <2>1, <2>2, <2>3, <2>4 DEF Init, TypeOK, Where, Continuations
<1>2. ByPhase
  BY DEF Init, ByPhase, Phases, PlansFunctional, MountsByPhase, TodoByPhase, RecordByPhase,
         GrantsByPhase, Revoking, Removing, Adding, TearingDown, Activating, Agrees, Held,
         Settled, Repairing, Ending
<1>. QED
  BY <1>1, <1>2 DEF IInv

LEMMA StepInv ==
    ASSUME IInv, [Next]_vars
    PROVE  IInv'
<1>1. TypeOK /\ ByPhase /\ Phases /\ TodoByPhase
  BY DEF IInv, ByPhase
<1>2. CASE Environment
  BY <1>1, <1>2, EnvironmentTypes, EnvironmentPhases DEF IInv
<1>3. CASE TakeSnapshot \/ ReconcileHomes \/ Failed \/ Stop \/ Abandon \/ Close
  BY <1>1, <1>3, PlainTypes, QuietPhases DEF IInv
<1>4. CASE Begin \/ PlanFails \/ PlanSucceeds
  BY <1>1, <1>4, PlainTypes, BeginPhases, PlanFailsPhases, PlanSucceedsPhases DEF IInv
<1>5. CASE RetireNext \/ RetireFails
  BY <1>1, <1>5, RetireTypes, RetireNextPhases, RetireFailsPhases DEF IInv
<1>6. CASE RevokedFirst \/ TornDown \/ SettingsRemoved
  BY <1>1, <1>6, PlainTypes, LoopEndPhases DEF IInv
<1>7. CASE Deactivate \/ Deactivated \/ Done
  BY <1>1, <1>7, PlainTypes, DeactivatePhases DEF IInv
<1>8. CASE Prepare \/ MountNext \/ MountFails \/ SettingsRefreshed
  BY <1>1, <1>8, MountTypes, PreparePhases, MountNextPhases, MountFailsPhases,
     SettingsRefreshedPhases DEF IInv
<1>9. CASE Publish \/ PublishFails \/ UndoNext \/ UndoDone
  BY <1>1, <1>9, UndoTypes, PublishPhases, UndoPhases DEF IInv
<1>10. CASE RepairAccessibility \/ RepairPortal \/ RepairComputer
  BY <1>1, <1>10, RepairTypes, RepairAccessibilityPhases, RepairPortalPhases,
     RepairComputerPhases DEF IInv
<1>11. CASE UNCHANGED vars
  <2>1. TypeOK'
    BY <1>1, <1>11 DEF TypeOK, vars, hostVars, guestVars, tickVars, planVars, budget
  <2>2. ByPhase'
    BY <1>1, <1>11, StillByPhase DEF vars, guestVars, tickVars, planVars
  <2>. QED
    BY <2>1, <2>2 DEF IInv
<1>. QED
  BY <1>2, <1>3, <1>4, <1>5, <1>6, <1>7, <1>8, <1>9, <1>10, <1>11 DEF Next, Worker, Ended

\* The inductive invariant of the desktop session: the types, and what is
\* mounted, recorded and granted at every place of _MountWorker, reconcile,
\* _activate and _refresh_settings.
THEOREM SessionInvariant == Spec => []IInv
<1>1. Init => IInv
  BY InitInv
<1>2. IInv /\ [Next]_vars => IInv'
  BY StepInv
<1>. QED
  BY <1>1, <1>2, PTL DEF Spec

\* For every configuration and whatever fails: when the worker waits for the
\* next tick, the mounts in the guest are those of active[uid] and no others.
THEOREM MountsFollowDesktop == Spec => []MountsMatchDesktop
<1>1. IInv => MountsMatchDesktop
  BY DEF IInv, ByPhase, MountsByPhase, Settled, MountsMatchDesktop
<1>. QED
  BY <1>1, SessionInvariant, PTL

\* When the worker waits, the status file that `spaces enter` reads says
\* "active" exactly for the login that is mounted, and announces an
\* accessibility address only while its socket is bound.
THEOREM RecordFollowsDesktop == Spec => []RecordMatchesDesktop
<1>1. IInv => RecordMatchesDesktop
  BY DEF IInv, ByPhase, RecordByPhase, Agrees, Settled, RecordMatchesDesktop
<1>. QED
  BY <1>1, SessionInvariant, PTL

\* reconcile revokes before it plans: from then to the end of the tick's
\* reconcile a superseded login has no computer use and no unrestricted
\* accessibility, also when it is mounted again by the rollback.
THEOREM SupersededIsRevoked == Spec => []RevokedBeforePlanning
<1>1. IInv => RevokedBeforePlanning
  <2>. SUFFICES ASSUME IInv, pc \in {"plan", "prepare", "mount", "undo", "done"},
                       SessionActive, current # None, selected # current.plan.login
                PROVE  ~current.comp.up /\ ~(current.acc.up /\ current.plan.grant)
    BY DEF RevokedBeforePlanning
  <2>1. CASE pc = "plan"
    BY <2>1, ServiceValues DEF IInv, ByPhase, GrantsByPhase
  <2>2. CASE pc = "done"
    BY <2>2 DEF IInv, ByPhase, GrantsByPhase
  <2>3. CASE pc \in {"prepare", "mount", "undo"}
    <3>1. Adding
      BY <2>3 DEF IInv, ByPhase, Phases, Activating, Adding
    <3>2. plan = [current.plan EXCEPT !.binds = plan.binds] /\ plan.login = selected
          /\ current \in Active
      BY <3>1 DEF IInv, ByPhase, TodoByPhase, TypeOK
    <3>. QED
      BY <3>2 DEF Active, Plan
  <2>. QED
    BY <2>1, <2>2, <2>3
<1>. QED
  BY <1>1, SessionInvariant, PTL

=============================================================================
