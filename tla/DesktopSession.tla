--------------------------- MODULE DesktopSession ---------------------------
(***************************************************************************)
(* Forwarding of one user's host login into a running space: the           *)
(* DesktopController of session.py driven by the _MountWorker of           *)
(* launch.py.  The worker takes a snapshot of the logins, plans the mounts *)
(* of the selected login, tears the previous generation down and activates *)
(* the new one, repairing the optional services on the way.  Every command *)
(* it runs may fail, host resources are replaced under it, its services    *)
(* die, and the machine may exit at any moment.                            *)
(***************************************************************************)
EXTENDS Naturals, FiniteSets

CONSTANTS Logins,         \* graphical login sessions of the user
          None,           \* no login, or no desktop
          Desktop,        \* user.desktop
          Accessibility,  \* user.accessibility
          Credentials,    \* user.credential_agents
          Portals,        \* portals_enabled
          MaxChanges,     \* logins and resources that change (bound)
          MaxFaults       \* commands that fail and services that die (bound)

ASSUME LoginAssumption == Logins # {} /\ None \notin Logins
ASSUME ConfigAssumption ==
    /\ {Desktop, Accessibility, Credentials, Portals} \subseteq BOOLEAN
    /\ Desktop \/ Credentials
ASSUME BoundAssumption == MaxChanges \in Nat /\ MaxFaults \in Nat

VARIABLES
    eligible,     \* logind: the user has a login of some kind
    sessions,     \* logind: active local graphical logins
    manager,      \* XDG_SESSION_ID of the user manager's environment
    gen,          \* identity of each replaceable source file or socket
    machine,      \* "running", "stopping" (SIGTERM sent) or "exited"
    homes,        \* the user's home mounts are in place
    mounts,       \* destination_users, destination_sources: binds in place
    guestSession, \* the PAM session held in the guest
    current,      \* active[uid]
    record,       \* the status file `spaces enter` reads
    pc,           \* where the worker is
    snap, last,   \* this tick's snapshot and _login_snapshot
    selected,     \* select_graphical_session's choice of this tick
    plan,         \* the plan to activate
    previous,     \* the plan to fall back to
    todo,         \* destinations the loop at pc has still to treat
    then,         \* what the worker does after that loop
    ok,           \* reconcile raised no DesktopSetupError
    changes, faults

hostVars == <<eligible, sessions, manager, gen>>
guestVars == <<homes, mounts, guestSession>>
tickVars == <<snap, selected>>
planVars == <<plan, previous>>
budget == <<changes, faults>>
vars == <<hostVars, machine, guestVars, current, record, pc, tickVars, last,
          planVars, todo, then, ok, budget>>

-----------------------------------------------------------------------------
(* Data.                                                                    *)

Replaceable == {"display", "settings"}
Services == {"portal", "acc", "comp"}

\* The order binds are mounted in; they are unmounted in the reverse order,
\* after the computer-use, accessibility and portal services.
Rank == [agent |-> 1, display |-> 2, settings |-> 3,
         portal |-> 4, acc |-> 5, comp |-> 6]
Dests == DOMAIN Rank

First(S) == CHOOSE d \in S : \A e \in S : Rank[d] <= Rank[e]
Last(S) == CHOOSE d \in S : \A e \in S : Rank[d] >= Rank[e]

Bind == [dest : {"agent", "display", "settings"},
         login : Logins \cup {None}, gen : 0..1]
Socket(d) == [dest |-> d, login |-> None, gen |-> 0]
Plan == [login : Logins \cup {None}, desktop : BOOLEAN, grant : BOOLEAN,
         binds : SUBSET Bind]

\* A service: its process, and its socket bound in the guest.
Service == [up : BOOLEAN, bound : BOOLEAN]
Off == [up |-> FALSE, bound |-> FALSE]
On == [up |-> TRUE, bound |-> TRUE]
Active == [plan : Plan, portal : Service, acc : Service, comp : Service]

\* active.get(uid) and a missing plan are told apart from a desktop and a plan.
ASSUME NoneAssumption == None \notin Active /\ None \notin Plan

Record == [state : {"pending", "active", "inactive"},
           login : Logins \cup {None}, address : BOOLEAN]
Inactive == [state |-> "inactive", login |-> None, address |-> FALSE]
ActiveRecord(login, address) ==
    [state |-> "active", login |-> login, address |-> address]

\* Only an eligible user's sessions are listed: NoSnapshot equals no snapshot.
Snapshot == [eligible : BOOLEAN, sessions : SUBSET Logins]
NoSnapshot == [eligible |-> FALSE, sessions |-> Logins]

Where == {"idle", "homes", "begin", "plan", "deactivate", "retire", "prepare",
          "mount", "undo", "repairAcc", "repairPortal",
          "repairComp", "done", "failed", "finally", "stopped"}
Continuations == {"idle", "done", "plan", "deactivate", "activate",
                  "inactive", "refresh", "publish", "refreshed", "activated",
                  "undone", "stuck", "closed"}

TypeOK ==
    /\ eligible \in BOOLEAN
    /\ sessions \subseteq Logins
    /\ manager \in Logins \cup {None}
    /\ gen \in [Replaceable -> 0..1]
    /\ machine \in {"running", "stopping", "exited"}
    /\ homes \in BOOLEAN /\ guestSession \in BOOLEAN /\ ok \in BOOLEAN
    /\ mounts \subseteq Bind \cup {Socket(d) : d \in Services}
    /\ current = None \/ current \in Active
    /\ record \in Record
    /\ pc \in Where
    /\ snap \in Snapshot /\ last \in Snapshot
    /\ selected \in Logins \cup {None}
    /\ plan = None \/ plan \in Plan
    /\ previous = None \/ previous \in Plan
    /\ todo \subseteq Dests
    /\ then \in Continuations
    /\ changes \in 0..MaxChanges /\ faults \in 0..MaxFaults

\* What the worker starts from, whoever is logged in: initialize_status has
\* replaced the record.
Init ==
    /\ eligible \in BOOLEAN
    /\ sessions \in IF eligible THEN SUBSET Logins ELSE {{}}
    /\ manager \in Logins \cup {None}
    /\ gen = [d \in Replaceable |-> 0]
    /\ machine = "running"
    /\ homes = FALSE
    /\ mounts = {}
    /\ guestSession = FALSE
    /\ current = None
    /\ record = [state |-> "pending", login |-> None, address |-> FALSE]
    /\ pc = "idle"
    /\ snap = NoSnapshot /\ last = NoSnapshot
    /\ selected = None
    /\ plan = None /\ previous = None
    /\ todo = {}
    /\ then = "idle"
    /\ ok = TRUE
    /\ changes = MaxChanges /\ faults = MaxFaults

-----------------------------------------------------------------------------
(* The host, the machine and the services (external).                       *)

Change == changes > 0 /\ changes' = changes - 1 /\ UNCHANGED faults

\* One of logind's answers changes: sessions are listed for eligible users.
LoginChanges ==
    /\ Change
    /\ \/ /\ eligible' = ~eligible
          /\ sessions' = IF eligible THEN {} ELSE sessions
          /\ UNCHANGED manager
       \/ \E s \in Logins :
            /\ eligible
            /\ sessions' = IF s \in sessions THEN sessions \ {s}
                                             ELSE sessions \cup {s}
            /\ UNCHANGED <<eligible, manager>>
       \/ /\ \E s \in (Logins \cup {None}) \ {manager} : manager' = s
          /\ UNCHANGED <<eligible, sessions>>
    /\ UNCHANGED <<gen, machine, guestVars, current, record, pc, tickVars,
                   last, planVars, todo, then, ok>>

\* A forwarded file or socket is replaced by a new inode.
SourceReplaced(d) ==
    /\ Change
    /\ gen' = [gen EXCEPT ![d] = 1 - @]
    /\ UNCHANGED <<eligible, sessions, manager, machine, guestVars, current,
                   record, pc, tickVars, last, planVars, todo, then, ok>>

\* A proxy, a broker or the shared computer-use host dies or is replaced.
ServiceDies(d) ==
    /\ faults > 0 /\ faults' = faults - 1
    /\ current # None
    /\ current[d].up
    /\ current' = [current EXCEPT ![d].up = FALSE]
    /\ UNCHANGED <<hostVars, machine, guestVars, record, pc, tickVars, last,
                   planVars, todo, then, ok, changes>>

\* SIGTERM ends the machine, and its namespaces; it may also end by itself.
MachineExits ==
    /\ \/ machine = "stopping" /\ UNCHANGED budget
       \/ machine = "running" /\ Change
    /\ machine' = "exited"
    /\ UNCHANGED <<hostVars, guestVars, current, record, pc, tickVars, last,
                   planVars, todo, then, ok>>

\* Whether a command run in the guest may succeed, and whether it may fail.
Works == machine # "exited" /\ UNCHANGED budget
Fails == IF machine = "running"
         THEN faults > 0 /\ faults' = faults - 1 /\ UNCHANGED changes
         ELSE UNCHANGED budget

-----------------------------------------------------------------------------
(* The tick of _MountWorker.                                                *)

\* Mutant of TakeSnapshot: nothing is done while the logins are unchanged.
TakeSnapshotOnlyIfNew ==
    /\ pc = "idle"
    /\ machine # "exited"
    /\ snap' = [eligible |-> eligible,
                sessions |-> IF Desktop /\ eligible THEN sessions ELSE {}]
    /\ ok' = TRUE
    /\ pc' = IF snap' = last THEN "idle" ELSE "homes"
    /\ UNCHANGED <<hostVars, machine, guestVars, current, record, last,
                   selected, planVars, todo, then, budget>>

\* monitor.wait returned: _login_snapshot.
TakeSnapshot ==
    /\ pc = "idle"
    /\ machine # "exited"
    /\ snap' = [eligible |-> eligible,
                sessions |-> IF Desktop /\ eligible THEN sessions ELSE {}]
    /\ ok' = TRUE
    /\ pc' = IF snap' = last THEN "begin" ELSE "homes"
    /\ UNCHANGED <<hostVars, machine, guestVars, current, record, last,
                   selected, planVars, todo, then, budget>>

\* Home mounts follow the eligible logins; an addition that fails is skipped,
\* a removal that fails stops the space.
ReconcileHomes ==
    /\ pc = "homes"
    /\ \/ /\ homes = snap.eligible
          /\ pc' = "begin"
          /\ UNCHANGED <<homes, budget>>
       \/ /\ homes # snap.eligible
          /\ Works
          /\ homes' = snap.eligible
          /\ pc' = "begin"
       \/ /\ homes # snap.eligible
          /\ Fails
          /\ UNCHANGED homes
          /\ pc' = IF homes THEN "failed" ELSE "begin"
    /\ UNCHANGED <<hostVars, machine, mounts, guestSession, current, record,
                   tickVars, last, planVars, todo, then, ok>>

\* _login_snapshot is kept only if the desktop was reconciled; a tick that
\* found nothing new ends with reconcile_portals.
Done ==
    /\ pc = "done"
    /\ last' = IF ok THEN snap ELSE NoSnapshot
    /\ pc' = IF snap = last /\ current # None THEN "repairAcc" ELSE "idle"
    /\ then' = "idle"
    /\ plan' = None /\ previous' = None
    /\ UNCHANGED <<hostVars, machine, guestVars, current, record, tickVars,
                   todo, ok, budget>>

-----------------------------------------------------------------------------
(* DesktopController.reconcile.                                             *)

\* The services that _revoke_computer and _revoke_accessibility would retire.
Revocable == {d \in {"acc", "comp"} : current # None /\ current[d] # Off}
Everything ==
    {d \in Services : current[d] # Off} \cup {b.dest : b \in current.plan.binds}

SessionActive == Credentials => snap.eligible

\* Mutant of Choice: a login that has ended is still chosen.
ManagersChoice == IF Desktop THEN manager ELSE None

\* select_graphical_session: the manager's session, if logind still lists it.
Choice == IF Desktop /\ manager \in snap.sessions THEN manager ELSE None

\* Mutant of Superseded: a login that merely ended is not superseded.
SupersededByOther(choice) ==
    current # None /\ choice # None /\ choice # current.plan.login

\* "Revoke before planning: an unrelated setup failure must never preserve
\* access to a superseded login or permission grant."
Superseded(choice) ==
    current # None /\ (choice = None \/ choice # current.plan.login)

Begin ==
    /\ pc = "begin"
    /\ \/ /\ ~SessionActive
          /\ pc' = IF current # None \/ guestSession THEN "deactivate" ELSE "done"
          /\ UNCHANGED <<selected, todo, then>>
       \/ /\ SessionActive
          /\ selected' = Choice
          /\ todo' = IF Superseded(Choice) THEN Revocable ELSE {}
          /\ pc' = "retire"
          /\ then' = IF Choice = None /\ ~Credentials THEN "deactivate"
                                                      ELSE "plan"
    /\ UNCHANGED <<hostVars, machine, guestVars, current, record, snap, last,
                   planVars, ok, budget>>

\* _plan and _credential_plan over the sources as they are now.
NewPlan ==
    [login |-> selected, desktop |-> selected # None,
     grant |-> selected # None /\ Accessibility,
     binds |-> {b \in Bind :
        \/ /\ b.dest = "agent" /\ Credentials
           /\ b.login = None /\ b.gen = 0
        \/ /\ b.dest = "display" /\ selected # None
           /\ b.login = selected /\ b.gen = gen.display
        \/ /\ b.dest = "settings" /\ selected # None
           /\ b.login = None /\ b.gen = gen.settings}]

Without(p, q) == {b.dest : b \in p.binds \ q.binds}

\* _refresh_settings applies: only appearance mounts differ.
OnlySettingsDiffer(p, q) ==
    /\ [q EXCEPT !.binds = p.binds] = p
    /\ Without(p, q) \cup Without(q, p) \subseteq {"settings"}

\* Mutant of PlanFails: the desktop that stays mounted is reported inactive.
PlanFailsForgetsPrevious ==
    /\ pc = "plan"
    /\ Fails
    /\ record' = Inactive
    /\ ok' = FALSE
    /\ pc' = "done"
    /\ UNCHANGED <<hostVars, machine, guestVars, current, tickVars, last,
                   planVars, todo, then>>

PlanFails ==
    /\ pc = "plan"
    /\ Fails
    /\ record' = IF current # None
                 THEN [record EXCEPT !.state = "active",
                                     !.login = current.plan.login]
                 ELSE Inactive
    /\ ok' = FALSE
    /\ pc' = "done"
    /\ UNCHANGED <<hostVars, machine, guestVars, current, tickVars, last,
                   planVars, todo, then>>

PlanSucceeds ==
    /\ pc = "plan"
    /\ plan' = NewPlan
    /\ \/ /\ current # None /\ current.plan = NewPlan
          /\ pc' = "repairAcc" /\ then' = "done"
          /\ UNCHANGED <<previous, record, todo>>
       \/ /\ current # None /\ current.plan # NewPlan
          /\ OnlySettingsDiffer(current.plan, NewPlan)
          /\ todo' = {d \in {"portal"} : current[d] # Off}
                        \cup Without(current.plan, NewPlan)
          /\ pc' = "retire" /\ then' = "refresh"
          /\ UNCHANGED <<previous, record>>
       \/ /\ current # None /\ ~OnlySettingsDiffer(current.plan, NewPlan)
          /\ record' = [record EXCEPT !.state = "pending"]
          /\ previous' = current.plan
          /\ todo' = Everything
          /\ pc' = "retire" /\ then' = "activate"
       \/ /\ current = None
          /\ record' = [record EXCEPT !.state = "pending"]
          /\ previous' = None
          /\ pc' = "prepare"
          /\ UNCHANGED <<todo, then>>
    /\ UNCHANGED <<hostVars, machine, guestVars, current, tickVars, last, ok,
                   budget>>

-----------------------------------------------------------------------------
(* Retiring mounts and services: _revoke_computer, _revoke_accessibility,   *)
(* _deactivate and the first half of _refresh_settings.                     *)

Mounted(d) == \E b \in mounts : b.dest = d

Closed(a, d) == IF d \in Services THEN [a EXCEPT ![d].up = FALSE] ELSE a
Unbound(a, d) == IF d \in Services THEN [a EXCEPT ![d] = Off] ELSE a

\* Mutant of Dropped: the plan is only replaced once the refresh is over.
KeepsRetired(a, d) == a

\* A retired bind leaves the plan at once while settings are refreshed.
Dropped(a, d) ==
    IF then = "refresh" /\ d \notin Services
    THEN [a EXCEPT !.plan.binds = {b \in @ : b.dest # d}] ELSE a

\* _publish_accessibility and its fallback both write an "active" record.
RecordAfter(d) ==
    IF d = "acc" THEN ActiveRecord(current.plan.login, FALSE) ELSE record

RetireNext ==
    /\ pc = "retire" /\ todo # {}
    /\ LET d == Last(todo) IN
        /\ IF Mounted(d) THEN Works ELSE UNCHANGED budget
        /\ current' = Dropped(Unbound(current, d), d)
        /\ mounts' = {b \in mounts : b.dest # d}
        /\ record' = RecordAfter(d)
        /\ todo' = todo \ {d}
    /\ UNCHANGED <<hostVars, machine, homes, guestSession, pc, tickVars, last,
                   planVars, then, ok>>

\* A mount that cannot be removed: DesktopRevocationError stops the space,
\* except in a settings refresh, which is retried, and in close().
RetireFails ==
    /\ pc = "retire" /\ todo # {}
    /\ LET d == Last(todo) IN
        /\ Mounted(d)
        /\ Fails
        /\ current' = LET a == Closed(current, d) IN
                      IF /\ then \in {"activate", "inactive", "closed"}
                         /\ d \notin {"acc", "comp"}
                      THEN [a EXCEPT !.portal.up = FALSE] ELSE a
        /\ record' = RecordAfter(d)
    /\ ok' = FALSE
    /\ pc' = CASE then = "refresh" -> "done"
               [] then = "closed" -> "stopped"
               [] OTHER -> "failed"
    /\ machine' = IF then = "closed" /\ machine = "running" THEN "stopping"
                                                            ELSE machine
    /\ UNCHANGED <<hostVars, guestVars, tickVars, last, planVars, todo, then>>

\* The revocation before planning is over.
RevokedFirst ==
    /\ pc = "retire" /\ todo = {} /\ then \in {"plan", "deactivate"}
    /\ pc' = then
    /\ UNCHANGED <<hostVars, machine, guestVars, current, record, tickVars,
                   last, planVars, todo, then, ok, budget>>

\* _deactivate is over: active.pop(uid); reconcile goes on to activate.
TornDown ==
    /\ pc = "retire" /\ todo = {} /\ then = "activate"
    /\ current' = None
    /\ pc' = "prepare"
    /\ UNCHANGED <<hostVars, machine, guestVars, record, tickVars, last,
                   planVars, todo, then, ok, budget>>

\* The settings that are no longer wanted are gone: mount the new ones.
SettingsRemoved ==
    /\ pc = "retire" /\ todo = {} /\ then = "refresh"
    /\ todo' = Without(plan, current.plan)
    /\ pc' = "mount" /\ then' = "refreshed"
    /\ UNCHANGED <<hostVars, machine, guestVars, current, record, tickVars,
                   last, planVars, ok, budget>>

\* deactivate(): a barrier for readers of the record, then _deactivate.
Deactivate ==
    /\ pc = "deactivate"
    /\ pc' = "retire" /\ then' = "inactive"
    /\ IF current # None
       THEN /\ record' = [record EXCEPT !.state = "pending"]
            /\ todo' = Everything
       ELSE UNCHANGED <<record, todo>>
    /\ UNCHANGED <<hostVars, machine, guestVars, current, tickVars, last,
                   planVars, ok, budget>>

\* The end of deactivate() and of close(): _stop_guest_session, "inactive".
Deactivated ==
    /\ pc = "retire" /\ todo = {} /\ then \in {"inactive", "closed"}
    /\ current' = None
    /\ \/ /\ IF guestSession THEN Works ELSE UNCHANGED budget
          /\ guestSession' = FALSE
          /\ record' = Inactive
          /\ pc' = IF then = "closed" THEN "stopped" ELSE "done"
          /\ UNCHANGED machine
       \/ /\ guestSession
          /\ Fails
          /\ pc' = IF then = "closed" THEN "stopped" ELSE "failed"
          /\ machine' = IF then = "closed" /\ machine = "running"
                        THEN "stopping" ELSE machine
          /\ UNCHANGED <<guestSession, record>>
    /\ UNCHANGED <<hostVars, homes, mounts, tickVars, last, planVars, todo,
                   then, ok>>

-----------------------------------------------------------------------------
(* _activate, the rollback of reconcile, and _mount.                        *)

\* _prepare_guest_root: hold a PAM session, create the mount points.
Prepare ==
    /\ pc = "prepare"
    /\ \/ /\ Works
          /\ guestSession' = TRUE
          /\ todo' = {b.dest : b \in plan.binds}
          /\ pc' = "mount" /\ then' = "publish"
       \/ /\ Fails
          /\ guestSession' \in {guestSession, TRUE}
          /\ todo' = {}
          /\ pc' = "undo" /\ then' = "undone"
    /\ UNCHANGED <<hostVars, machine, homes, mounts, current, record, tickVars,
                   last, planVars, ok>>

\* The inode pinned by the plan is still the one at the source's path.
Pinned(b) == b.dest \in Replaceable => b.gen = gen[b.dest]

MountNext ==
    /\ pc = "mount" /\ todo # {}
    /\ LET b == CHOOSE b \in plan.binds : b.dest = First(todo) IN
        /\ \/ b \in mounts /\ UNCHANGED budget
           \/ ~Mounted(b.dest) /\ Pinned(b) /\ Works
        /\ mounts' = mounts \cup {b}
        /\ todo' = todo \ {b.dest}
        /\ current' = IF then = "refreshed"
                      THEN [current EXCEPT !.plan.binds = @ \cup {b}]
                      ELSE current
    /\ UNCHANGED <<hostVars, machine, homes, guestSession, record, pc,
                   tickVars, last, planVars, then, ok>>

\* The source was replaced, the destination is taken, or machinectl failed.
MountFails ==
    /\ pc = "mount" /\ todo # {}
    /\ LET b == CHOOSE b \in plan.binds : b.dest = First(todo) IN
        /\ b \notin mounts
        /\ IF Mounted(b.dest) \/ ~Pinned(b) THEN UNCHANGED budget ELSE Fails
    /\ IF then = "refreshed"
       THEN /\ pc' = "done"
            /\ ok' = FALSE
            /\ UNCHANGED <<todo, then>>
       ELSE /\ pc' = "undo" /\ then' = "undone"
            /\ todo' = {b.dest : b \in plan.binds} \ todo
            /\ UNCHANGED ok
    /\ UNCHANGED <<hostVars, machine, guestVars, current, record, tickVars,
                   last, planVars>>

\* The second half of _refresh_settings is over; the services are repaired.
SettingsRefreshed ==
    /\ pc = "mount" /\ todo = {} /\ then = "refreshed"
    /\ current' = [current EXCEPT !.plan = plan]
    /\ pc' = "repairAcc" /\ then' = "done"
    /\ UNCHANGED <<hostVars, machine, guestVars, record, tickVars, last,
                   planVars, todo, ok, budget>>

\* All binds are in place: the portal bridge is optional, the record is not.
Publish ==
    /\ pc = "mount" /\ todo = {} /\ then = "publish"
    /\ \E portal \in {On, Off} :
        /\ \/ portal = On /\ Portals /\ plan.desktop /\ Works
           \/ portal = Off /\ Portals /\ plan.desktop /\ Fails
           \/ portal = Off /\ ~(Portals /\ plan.desktop) /\ UNCHANGED budget
        /\ mounts' = IF portal = On THEN mounts \cup {Socket("portal")}
                                    ELSE mounts
        /\ current' = [plan |-> plan, portal |-> portal, acc |-> Off,
                       comp |-> Off]
    /\ record' = ActiveRecord(plan.login, FALSE)
    /\ pc' = "repairAcc" /\ then' = "activated"
    /\ UNCHANGED <<hostVars, machine, homes, guestSession, tickVars, last,
                   planVars, todo, ok>>

\* The record cannot be written: everything mounted so far has to go.
PublishFails ==
    /\ pc = "mount" /\ todo = {} /\ then = "publish"
    /\ faults > 0 /\ faults' = faults - 1
    /\ \E portal \in BOOLEAN :
        /\ portal => Portals /\ plan.desktop /\ machine # "exited"
        /\ mounts' = IF portal THEN mounts \cup {Socket("portal")} ELSE mounts
        /\ todo' = {b.dest : b \in plan.binds}
                     \cup (IF portal THEN {"portal"} ELSE {})
    /\ pc' = "undo" /\ then' = "undone"
    /\ UNCHANGED <<hostVars, machine, homes, guestSession, current, record,
                   tickVars, last, planVars, ok, changes>>

\* The cleanup of _activate goes on after an error, which it reports.
UndoNext ==
    /\ pc = "undo" /\ todo # {}
    /\ LET d == Last(todo) IN
        /\ todo' = todo \ {d}
        /\ \/ /\ Works
              /\ mounts' = {b \in mounts : b.dest # d}
              /\ UNCHANGED then
           \/ /\ Fails
              /\ then' = "stuck"
              /\ UNCHANGED mounts
    /\ UNCHANGED <<hostVars, machine, homes, guestSession, current, record, pc,
                   tickVars, last, planVars, ok>>

\* The previous plan, with its permission only for the login that has it.
RollbackPlan ==
    [previous EXCEPT !.grant = /\ previous.grant
                               /\ Accessibility
                               /\ selected # None
                               /\ selected = previous.login]

UndoDone ==
    /\ pc = "undo" /\ todo = {}
    /\ ok' = FALSE
    /\ \/ /\ then = "stuck"
          /\ record' = Inactive
          /\ pc' = "failed"
          /\ UNCHANGED planVars
       \/ /\ then # "stuck" /\ previous # None
          /\ plan' = RollbackPlan
          /\ previous' = None
          /\ pc' = "prepare"
          /\ UNCHANGED record
       \/ /\ then # "stuck" /\ previous = None
          /\ record' = Inactive
          /\ pc' = "done"
          /\ UNCHANGED planVars
    /\ UNCHANGED <<hostVars, machine, guestVars, current, tickVars, last, todo,
                   then, budget>>

-----------------------------------------------------------------------------
(* Optional services: _repair_accessibility, _repair_portal and             *)
(* _repair_computer, after a reconcile and in reconcile_portals.            *)

\* Service d is started and its socket bound, or is left off.
Restarted(d, outcome) ==
    /\ current' = [current EXCEPT ![d] = outcome]
    /\ mounts' = {b \in mounts : b.dest # d}
                   \cup (IF outcome = On THEN {Socket(d)} ELSE {})

\* The old socket of d cannot be unmounted.
Stuck(d, process) ==
    /\ current[d].bound
    /\ Fails
    /\ current' = [current EXCEPT ![d].up = process]
    /\ UNCHANGED mounts

\* The new socket of d is bound, but cannot be announced nor unmounted again.
BoundInVain(d) ==
    /\ machine # "exited"
    /\ Fails
    /\ current' = [current EXCEPT ![d] = [up |-> FALSE, bound |-> TRUE]]
    /\ mounts' = mounts \cup {Socket(d)}

RepairAccessibility ==
    /\ pc = "repairAcc"
    /\ pc' = IF then = "activated" THEN "repairComp" ELSE "repairPortal"
    /\ \/ /\ current.acc = On \/ ~current.plan.desktop
          /\ UNCHANGED <<current, mounts, record, budget>>
       \/ /\ current.acc # On /\ current.plan.desktop
          /\ \/ /\ Works
                /\ Restarted("acc", On)
                /\ record' = ActiveRecord(current.plan.login, TRUE)
             \/ /\ Fails
                /\ Restarted("acc", Off)
                /\ record' = IF current.acc # Off
                             THEN ActiveRecord(current.plan.login, FALSE)
                             ELSE record
             \/ /\ Stuck("acc", FALSE) \/ BoundInVain("acc")
                /\ record' = ActiveRecord(current.plan.login, FALSE)
    /\ UNCHANGED <<hostVars, machine, homes, guestSession, tickVars, last,
                   planVars, todo, then, ok>>

\* A bridge whose socket cannot be unmounted is left for the next tick.
RepairPortal ==
    /\ pc = "repairPortal"
    /\ pc' = "repairComp"
    /\ \/ /\ current.portal = On \/ ~(Portals /\ current.plan.desktop)
          /\ UNCHANGED <<current, mounts, budget>>
       \/ /\ current.portal # On /\ Portals /\ current.plan.desktop
          /\ \/ Works /\ Restarted("portal", On)
             \/ Fails /\ Restarted("portal", Off)
             \/ Stuck("portal", current.portal.up)
    /\ UNCHANGED <<hostVars, machine, homes, guestSession, record, tickVars,
                   last, planVars, todo, then, ok>>

ComputerWanted ==
    Desktop /\ Accessibility /\ current.plan.desktop /\ current.plan.grant

\* A computer-use socket that cannot be unmounted stops the space.
RepairComputer ==
    /\ pc = "repairComp"
    /\ \/ /\ \/ ComputerWanted /\ current.comp = On
             \/ ~ComputerWanted /\ current.comp = Off
          /\ pc' = IF then = "idle" THEN "idle" ELSE "done"
          /\ UNCHANGED <<current, mounts, budget>>
       \/ /\ ComputerWanted /\ current.comp # On
          /\ \/ Works /\ Restarted("comp", On)
             \/ Fails /\ Restarted("comp", Off)
          /\ pc' = IF then = "idle" THEN "idle" ELSE "done"
       \/ /\ ComputerWanted /\ current.comp # On
          /\ Stuck("comp", FALSE)
          /\ pc' = "failed"
    /\ UNCHANGED <<hostVars, machine, homes, guestSession, record, tickVars,
                   last, planVars, todo, then, ok>>

-----------------------------------------------------------------------------
(* The end of the worker.                                                   *)

\* An exception ends the loop of _run and stops the machine.
Failed ==
    /\ pc = "failed"
    /\ machine' = IF machine = "running" THEN "stopping" ELSE machine
    /\ pc' = "finally"
    /\ UNCHANGED <<hostVars, guestVars, current, record, tickVars, last,
                   planVars, todo, then, ok, budget>>

\* stop(): the machine's process has ended and the launcher unwinds.
Stop ==
    /\ pc = "idle"
    /\ machine = "exited"
    /\ pc' = "finally"
    /\ UNCHANGED <<hostVars, machine, guestVars, current, record, tickVars,
                   last, planVars, todo, then, ok, budget>>

\* abandon(): the namespaces are gone; services are closed, state forgotten.
Abandon ==
    /\ pc = "finally" /\ machine = "exited"
    /\ current' = None
    /\ guestSession' = FALSE
    /\ mounts' = {}
    /\ record' = Inactive
    /\ pc' = "stopped"
    /\ UNCHANGED <<hostVars, machine, homes, tickVars, last, planVars, todo,
                   then, ok, budget>>

\* close(): the machine still runs, so the forwarding is taken down.
Close ==
    /\ pc = "finally" /\ machine # "exited"
    /\ pc' = "retire" /\ then' = "closed"
    /\ IF current # None
       THEN /\ record' = [record EXCEPT !.state = "pending"]
            /\ todo' = Everything
       ELSE /\ todo' = {}
            /\ UNCHANGED record
    /\ UNCHANGED <<hostVars, machine, guestVars, current, tickVars, last,
                   planVars, ok, budget>>

-----------------------------------------------------------------------------

Environment ==
    \/ LoginChanges
    \/ \E d \in Replaceable : SourceReplaced(d)
    \/ \E d \in Services : ServiceDies(d)
    \/ MachineExits

Worker ==
    \/ TakeSnapshot \/ ReconcileHomes \/ Begin \/ PlanFails \/ PlanSucceeds
    \/ RetireNext \/ RetireFails \/ RevokedFirst \/ TornDown \/ SettingsRemoved
    \/ Deactivate \/ Deactivated \/ Prepare \/ MountNext \/ MountFails
    \/ SettingsRefreshed \/ Publish \/ PublishFails \/ UndoNext \/ UndoDone
    \/ RepairAccessibility \/ RepairPortal \/ RepairComputer \/ Done
    \/ Failed \/ Stop \/ Abandon \/ Close

\* The worker has ended: nothing is left to do.
Ended == pc = "stopped" /\ UNCHANGED vars

Next == Environment \/ Worker \/ Ended

Spec == Init /\ [][Next]_vars

\* The worker thread wakes up every five seconds and runs on, and no command
\* has to fail for that; a machine that was sent SIGTERM ends.  Logins, files
\* and services owe nothing.
FairSpec ==
    /\ Spec
    /\ WF_vars(Worker /\ UNCHANGED faults)
    /\ WF_vars(machine = "stopping" /\ MachineExits)

-----------------------------------------------------------------------------
(* Properties.                                                              *)

Held(a) ==
    IF a = None THEN {}
    ELSE a.plan.binds \cup {Socket(d) : d \in {e \in Services : a[e].bound}}

\* Between two ticks the mounts in the guest are exactly those of the active
\* desktop, pinned sources included, whatever failed on the way: nothing of an
\* older generation is left behind and nothing of the plan is missing.
MountsMatchDesktop == pc = "idle" => mounts = Held(current)

\* Between two ticks a settled record agrees with the active desktop: `spaces
\* enter` gets the environment of the login that is mounted, or none.
RecordMatchesDesktop ==
    pc = "idle" =>
        /\ record.state = "active" => current # None
        /\ current # None =>
             /\ record.state = "active"
             /\ record.login = current.plan.login
             /\ record.address => current.acc.bound

\* From the decision that a login is superseded to the end of the tick's
\* reconcile, its computer-use and unrestricted accessibility are off, even
\* if planning, teardown or activation fails.
RevokedBeforePlanning ==
    pc \in {"plan", "prepare", "mount", "undo", "done"}
        /\ SessionActive /\ current # None /\ selected # current.plan.login
        => ~current.comp.up /\ ~(current.acc.up /\ current.plan.grant)

\* Once the user has no login any more, or the login the user manager names has
\* ended, no login's sockets stay in the guest (session.py:2473).
LogoutRevokes ==
    <>[](~eligible \/ manager \notin sessions)
        => <>[](current = None \/ current.plan.login = None \/ machine = "exited")

\* Once logins and sources are quiet and the machine stays up, the selected
\* login ends up forwarded and announced.
QuietLoginIsForwarded ==
    \A s \in Logins :
        <>[](eligible /\ manager = s /\ s \in sessions /\ machine = "running")
            => <>[](/\ current # None /\ current.plan.login = s
                    /\ record.state = "active" /\ record.login = s)

\* "Revoke before planning: an unrelated setup failure must never preserve
\* access to a superseded login or permission grant": between ticks a
\* superseded login has no computer use and no unrestricted accessibility.
SupersededStaysRevoked ==
    pc = "idle" /\ SessionActive /\ current # None /\ selected # current.plan.login
        => ~current.comp.up /\ ~(current.acc.up /\ current.plan.grant)

=============================================================================
