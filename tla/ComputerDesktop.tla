--------------------------- MODULE ComputerDesktop ---------------------------
(***************************************************************************)
(* Computer use under a screen lock: the calls of native/scu_host.c that   *)
(* send input or take pictures, and the lock state of native/scu_desktop.h.*)
(* Two independent indicators, logind's LockedHint on the system bus and   *)
(* the screen locker on the session bus, are followed by signals and read  *)
(* again at each boundary.  Every wait of a call dispatches signals, so an *)
(* answer and the signals behind it can be handled before the answer is    *)
(* used.                                                                   *)
(***************************************************************************)
EXTENDS Naturals, Sequences

CONSTANTS Chunks,   \* input chunks of one action (bound)
          Budgets   \* what happens around the host, one record per scenario

ASSUME ChunksAssumption == Chunks \in Nat

Buses == {"session", "locker"}
NoAnswer == "none"
States == {"locked", "unlocked"}

VARIABLES
    truth,    \* the indicators themselves: [Buses -> States]
    active,   \* the login session is active
    running,  \* the screen locker answers
    wire,     \* per bus: signals and answers the host has not dispatched
    answer,   \* per bus: the answer a call has received: a state or "error"
    locked,   \* desktop.locked and desktop.screen_locked
    known,    \* desktop.lock_known and desktop.screen_known
    valid,    \* desktop.valid
    stopping, \* scu.stopping
    lockSeen, \* scu.lock_seen
    monitor,  \* scu.lock_monitor
    vision,   \* scu.vision_request
    held,     \* keys or buttons are held down
    job,      \* the call being executed
    picture,  \* the pixels being encoded: none, or how the desktop was then
    images,   \* scu.images, likewise
    shown,    \* the images of the last response
    heard,    \* what each provider last said to the host
    left      \* what is left of the scenario

envVars == <<truth, active, running>>
lockVars == <<locked, known, valid, stopping, lockSeen, monitor>>
shots == <<picture, images, shown>>
callVars == <<vision, job, shots>>
desktopVars == <<envVars, wire, answer, lockVars, callVars, held, heard, left>>

Idle == [tool |-> "none", stage |-> "idle", ops |-> <<>>]
Unlocked == [b \in Buses |-> "unlocked"]

\* The boundaries of the calls, in order.
Refresh == <<"askSession", "readSession", "askLocker", "readLocker">>
Capture == <<"tick">> \o Refresh \o <<"tick">> \o Refresh \o <<"tick", "capture", "tick", "append">>

\* One chunk of an action: press_codes and click_pointer; a drag of
\* pointer_action, which holds the button over its samples; and text, which
\* type_foreground_text sends without holding anything.
Keys == <<"tick", "allowed", "press", "tick", "release">>
Drag == <<"tick", "allowed", "press", "tick", "allowed", "tick", "allowed", "release">>
Text == <<"tick", "allowed", "press", "release">>
Chunk(tool) == [keys |-> Keys, drag |-> Drag, text |-> Text][tool]

\* execute_tool and scu_visual up to the first chunk.
Enter == <<"tick">> \o Refresh \o Refresh \o <<"allowed", "tick">> \o Refresh

Repeat(s, n) == [i \in 1..(n * Len(s)) |-> s[((i - 1) % Len(s)) + 1]]

\* Mutant of Ops: the images are delivered without another look at the lock.
OpsUnchecked(tool, stage) ==
    CASE stage = "start" -> IF tool = "status" THEN Capture ELSE <<"tick">> \o Refresh \o <<"vision", "tick">>
      [] stage = "action" -> Enter \o Repeat(Chunk(tool), Chunks)
      [] stage = "observe" -> <<"unseen">> \o Refresh \o <<"allowed">> \o Capture
      [] stage = "final" -> <<>>

\* kwin_status; run_batch: what comes before the actions, an action, the
\* observation and the last look at the lock.
Ops(tool, stage) ==
    CASE stage = "start" -> IF tool = "status" THEN Capture ELSE <<"tick">> \o Refresh \o <<"vision", "tick">>
      [] stage = "action" -> Enter \o Repeat(Chunk(tool), Chunks)
      [] stage = "observe" -> <<"unseen">> \o Refresh \o <<"allowed">> \o Capture
      [] stage = "final" -> IF tool = "status" THEN Refresh
                            ELSE <<"unseen">> \o Refresh \o <<"allowed">>

Following(tool, stage) ==
    CASE stage = "start" -> IF tool = "status" THEN "final" ELSE "action"
      [] stage = "action" -> "observe"
      [] OTHER -> "final"

DesktopInit ==
    /\ truth \in [Buses -> States]
    /\ active = TRUE /\ running = TRUE
    /\ wire = [b \in Buses |-> <<>>]
    /\ answer = [b \in Buses |-> NoAnswer]
    /\ locked = [b \in Buses |-> b = "session" /\ truth[b] = "locked"]
    /\ known = [b \in Buses |-> b = "session"]
    /\ valid = TRUE /\ stopping = FALSE
    /\ lockSeen = FALSE /\ monitor = FALSE /\ vision = FALSE
    /\ held = FALSE /\ job = Idle
    /\ picture = "none" /\ images = "none" /\ shown = "none"
    /\ heard = locked
    /\ left \in Budgets

-----------------------------------------------------------------------------
(* Around the host.                                                         *)

Spend(what) == left[what] > 0 /\ left' = [left EXCEPT ![what] = @ - 1]
Item(type, value) == [type |-> type, value |-> value]
Tell(bus, item) == wire' = [wire EXCEPT ![bus] = Append(@, item)]
HostVars == <<answer, lockVars, callVars, held, heard>>

\* The desktop is locked or unlocked, as one indicator shows it.
Switch(bus) ==
    /\ Spend("switches")
    /\ bus = "locker" => running
    /\ truth' = [truth EXCEPT ![bus] = CHOOSE s \in States : s # @]
    /\ Tell(bus, Item("changed", truth'[bus]))
    /\ UNCHANGED <<active, running, HostVars>>

\* The user switches to another session.
Deactivate ==
    /\ Spend("faults")
    /\ active /\ active' = FALSE
    /\ Tell("session", Item("inactive", "none"))
    /\ UNCHANGED <<truth, running, HostVars>>

\* The screen locker leaves the bus, or comes back.
LockerRestarts ==
    /\ Spend("faults")
    /\ running' = ~running
    /\ truth' = [truth EXCEPT !["locker"] = "unlocked"]
    /\ Tell("locker", Item("owner", "none"))
    /\ UNCHANGED <<active, HostVars>>

-----------------------------------------------------------------------------
(* The lock state.                                                          *)

\* Mutant of Remember: a lock counts only while it lasts.
RememberNow(lock, on) == lock

\* scu.lock_seen, which a call never forgets.
Remember(lock, on) == lockSeen \/ (lock /\ on)

\* desktop_check_lock, with the lock state l, k and v and with lock_monitor on;
\* Clear is where it leaves the input alone.
Clear(l, k, v) == v /\ \A b \in Buses : ~l[b] /\ k[b]
CheckLock(l, k, v, on) ==
    /\ stopping' = (stopping \/ ~v)
    /\ lockSeen' = Remember(v /\ \E b \in Buses : l[b], on)

\* desktop_input_allowed.
InputAllowed(l, k, seen) == ~seen /\ \A b \in Buses : ~l[b] /\ k[b]

Op == IF job.ops = <<>> THEN "end" ELSE Head(job.ops)
Dispatching == Op \in {"tick", "askSession", "readSession", "askLocker", "readLocker"} \/ job = Idle

\* desktop_properties, desktop_session_removed, desktop_locker_changed,
\* desktop_locker_owner_changed, and bus_reply_done.
Dispatch(bus) ==
    LET item == Head(wire[bus])
    IN  /\ Dispatching /\ wire[bus] # <<>>
        /\ wire' = [wire EXCEPT ![bus] = Tail(@)]
        /\ CASE item.type = "reply" ->
                  /\ answer' = [answer EXCEPT ![bus] = item.value]
                  /\ heard' = [heard EXCEPT ![bus] = item.value = "locked"]
                  /\ UNCHANGED <<lockVars, held>>
             [] item.type = "inactive" ->
                  /\ valid' = FALSE
                  /\ UNCHANGED <<answer, locked, known, stopping, lockSeen, monitor, held, heard>>
             [] item.type = "owner" ->
                  /\ known' = [known EXCEPT !["locker"] = FALSE]
                  /\ held' = FALSE
                  /\ UNCHANGED <<answer, locked, valid, stopping, lockSeen, monitor, heard>>
             [] OTHER ->
                  /\ locked' = [locked EXCEPT ![bus] = item.value = "locked"]
                  /\ known' = [known EXCEPT ![bus] = TRUE]
                  /\ heard' = [heard EXCEPT ![bus] = item.value = "locked"]
                  /\ IF bus = "locker"
                     THEN /\ stopping' = (stopping \/ ~valid)
                          /\ lockSeen' = Remember(item.value = "locked"
                                                \/ (valid /\ \E b \in Buses : locked'[b]), monitor)
                          /\ held' = (held /\ Clear(locked', known', valid))
                     ELSE /\ lockSeen' = Remember(item.value = "locked", monitor)
                          /\ UNCHANGED <<stopping, held>>
                  /\ UNCHANGED <<answer, valid, monitor>>
        /\ UNCHANGED <<envVars, callVars, left>>

\* desktop_timer.
Timer ==
    /\ Dispatching
    /\ CheckLock(locked, known, valid, monitor)
    /\ held' = (held /\ Clear(locked, known, valid))
    /\ UNCHANGED <<envVars, wire, answer, locked, known, valid, monitor, callVars, heard, left>>

-----------------------------------------------------------------------------
(* A call.                                                                  *)

\* handle_request clears what the last call has seen.
Begin(tool) ==
    /\ job = Idle /\ ~stopping
    /\ Spend("calls")
    /\ job' = [tool |-> tool, stage |-> "start", ops |-> Ops(tool, "start")]
    /\ lockSeen' = FALSE /\ monitor' = FALSE /\ vision' = FALSE
    /\ picture' = "none" /\ images' = "none" /\ shown' = "none"
    /\ UNCHANGED <<envVars, wire, answer, locked, known, valid, stopping, held, heard>>

At(op) == Op = op
Advance == job' = [job EXCEPT !.ops = Tail(@)] /\ UNCHANGED <<vision, shots>>
NextStage ==
    LET next == Following(job.tool, job.stage)
    IN  /\ job' = [job EXCEPT !.stage = next, !.ops = Ops(job.tool, next)]
        /\ UNCHANGED <<vision, shots>>

\* The response, with or without the images.  handle_request clears lock_seen and
\* lock_monitor here, too; nothing reads them before Begin clears them again.
Respond(what) ==
    /\ job' = Idle
    /\ shown' = what
    /\ picture' = "none" /\ images' = "none" /\ vision' = FALSE

\* A failed boundary: before the actions the call fails, an action gives way to
\* the observation, an observation to the last look, and a failed last look
\* drops the images.  Input is released on the way.
Fail ==
    /\ held' = FALSE
    /\ IF job.stage \in {"start", "final"} THEN Respond("none") ELSE NextStage

\* scu_tick after its dispatching: the lock is checked, a call that sees the
\* desktop ends when it is locked, and every call when the host stops.
TickFails(seen, stop) == (vision /\ ~InputAllowed(locked, known, seen)) \/ stop

Tick ==
    /\ At("tick")
    /\ CheckLock(locked, known, valid, monitor)
    /\ IF TickFails(lockSeen', stopping') THEN Fail
       ELSE Advance /\ held' = (held /\ Clear(locked, known, valid))
    /\ UNCHANGED <<envVars, wire, answer, locked, known, valid, monitor, heard, left>>

\* bounded_call to logind or to the screen locker: the provider answers with
\* what is true when the call reaches it, behind the signals it has sent, or
\* the answer is lost.
Ask(op, bus, reply) ==
    /\ At(op)
    /\ \/ Tell(bus, Item("reply", reply)) /\ UNCHANGED left
       \/ Spend("losses") /\ UNCHANGED wire
    /\ Advance
    /\ UNCHANGED <<envVars, answer, lockVars, held, heard>>

AskSession ==
    \/ valid /\ Ask("askSession", "session", IF active THEN truth["session"] ELSE "error")
    \/ /\ At("askSession") /\ ~valid
       /\ Fail
       /\ UNCHANGED <<envVars, wire, answer, lockVars, heard, left>>
AskLocker == Ask("askLocker", "locker", IF running THEN truth["locker"] ELSE "error")

Reading(bus) == At(IF bus = "session" THEN "readSession" ELSE "readLocker")
OnWire(bus) == \E i \in DOMAIN wire[bus] : wire[bus][i].type = "reply"

\* The messages of a wire without the answer that is among them.
Dropped(s) ==
    IF \A i \in DOMAIN s : s[i].type # "reply" THEN s
    ELSE LET n == CHOOSE i \in DOMAIN s : s[i].type = "reply"
         IN  [i \in 1..(Len(s) - 1) |-> s[IF i < n THEN i ELSE i + 1]]

\* Mutant of Deadline: a call waits for its answer for ever.
DeadlineNone(bus) == FALSE

\* The deadline of bounded_call, which passes only when the answer is lost.
Deadline(bus) == answer[bus] = NoAnswer /\ ~OnWire(bus)

\* desktop_refresh_lock without an answer.
Unavailable(bus) ==
    /\ known' = IF bus = "locker" THEN [known EXCEPT !["locker"] = FALSE] ELSE known
    /\ answer' = [answer EXCEPT ![bus] = NoAnswer]
    /\ Fail
    /\ UNCHANGED <<envVars, locked, valid, monitor, heard, left>>

\* The call is cancelled: its deadline has passed or a tick fails.  An answer
\* that comes later is dropped.
CallCancelled(bus) ==
    /\ Reading(bus) /\ answer[bus] = NoAnswer
    /\ CheckLock(locked, known, valid, monitor)
    /\ TickFails(lockSeen', stopping') \/ Deadline(bus)
    /\ wire' = [wire EXCEPT ![bus] = Dropped(@)]
    /\ Unavailable(bus)

CallFailed(bus) ==
    /\ Reading(bus) /\ answer[bus] = "error"
    /\ Unavailable(bus)
    /\ UNCHANGED <<wire, stopping, lockSeen>>

\* desktop_read_session: what was answered replaces what was signalled.
ReadSession ==
    /\ At("readSession") /\ answer["session"] \in States
    /\ locked' = [locked EXCEPT !["session"] = answer["session"] = "locked"]
    /\ known' = [known EXCEPT !["session"] = TRUE]
    /\ valid' = TRUE
    /\ answer' = [answer EXCEPT !["session"] = NoAnswer]
    /\ Advance
    /\ UNCHANGED <<envVars, wire, stopping, lockSeen, monitor, held, heard, left>>

\* The rest of desktop_refresh_lock.
ReadLocker ==
    /\ At("readLocker") /\ answer["locker"] \in States
    /\ locked' = [locked EXCEPT !["locker"] = answer["locker"] = "locked"]
    /\ known' = [known EXCEPT !["locker"] = TRUE]
    /\ answer' = [answer EXCEPT !["locker"] = NoAnswer]
    /\ monitor' = TRUE
    /\ CheckLock(locked', known', valid, TRUE)
    /\ held' = (held /\ Clear(locked', known', valid))
    /\ Advance
    /\ UNCHANGED <<envVars, wire, valid, heard, left>>

\* desktop_input_allowed, also where run_batch declares its vision request, and
\* the test of lock_seen around an observation.
Allowed ==
    /\ Op \in {"allowed", "vision", "unseen"}
    /\ IF IF At("unseen") THEN ~lockSeen ELSE InputAllowed(locked, known, lockSeen)
       THEN /\ job' = [job EXCEPT !.ops = Tail(@)]
            /\ vision' = (vision \/ At("vision"))
            /\ UNCHANGED <<held, shots>>
       ELSE Fail
    /\ UNCHANGED <<envVars, wire, answer, lockVars, heard, left>>

\* press_codes, click_pointer, pointer_action and type_foreground_text send one
\* chunk and release it after a pause.
Press ==
    /\ Op \in {"press", "release"}
    /\ held' = At("press")
    /\ Advance
    /\ UNCHANGED <<envVars, wire, answer, lockVars, heard, left>>

\* The compositor takes the picture; it is kept once it is encoded and the
\* geometry has been read again.
TakePicture ==
    /\ Op \in {"capture", "append"}
    /\ IF At("capture")
       THEN /\ picture' = IF truth = Unlocked THEN "clear" ELSE "locked"
            /\ UNCHANGED images
       ELSE images' = picture /\ UNCHANGED picture
    /\ job' = [job EXCEPT !.ops = Tail(@)]
    /\ UNCHANGED <<envVars, wire, answer, lockVars, vision, shown, held, heard, left>>

\* The end of a stage, and after the last one the response.
Finish ==
    /\ At("end") /\ job # Idle
    /\ IF job.stage = "final"
       THEN Respond(IF lockSeen \/ \E b \in Buses : locked[b] THEN "none" ELSE images)
       ELSE NextStage
    /\ UNCHANGED <<envVars, wire, answer, lockVars, held, heard, left>>

Call ==
    \/ Tick \/ AskSession \/ AskLocker
    \/ \E b \in Buses : CallCancelled(b) \/ CallFailed(b)
    \/ ReadSession \/ ReadLocker \/ Allowed \/ Press \/ TakePicture \/ Finish

DesktopNext ==
    \/ \E b \in Buses : Switch(b) \/ Dispatch(b)
    \/ Deactivate \/ LockerRestarts \/ Timer
    \/ \E tool \in {"status", "keys", "drag", "text"} : Begin(tool)
    \/ Call

\* The host goes on, and its main loop dispatches what arrives.
DesktopSpec ==
    /\ DesktopInit /\ [][DesktopNext]_desktopVars
    /\ WF_desktopVars(Call)
    /\ \A b \in Buses : WF_desktopVars(Dispatch(b))

-----------------------------------------------------------------------------
(* Properties.                                                              *)

\* No input is sent after an indicator has told the host of a lock, although an
\* older answer may have overwritten what the signal said
\* (scu_desktop.h:199, scu_host.c:4015).
InputUnlocked == [][held' /\ ~held => \A b \in Buses : ~heard[b]]_desktopVars

\* No picture that was taken while the desktop was locked is in a response,
\* even when the lock came and went during the call (scu_host.c:4603).
PicturesUnlocked == shown # "locked"

\* Every call ends, with nothing held down, whatever becomes of the lock.
CallsEnd == (job # Idle) ~> (job = Idle /\ ~held)
====
