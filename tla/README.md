# Spaces: a verification project in TLA+

Spaces runs Linux distributions as systemd-nspawn machines that are integrated
with the desktop of their users: a space's applications use the host's display,
portals, secrets, devices and authentication. This project models the parts of
that integration that are hard to test, because they are made of threads,
callbacks, processes that die and messages that come late, checks them with TLC
on small instances and proves their main safety properties with TLAPS for all
sizes.

`PROJECT.json` holds the same information for tools: components, runs, mutants,
the map from definitions to source lines, findings, hazards and theorems.

## 1. The system

| component | source | state it keeps | operations | hard behaviour |
|---|---|---|---|---|
| Portal broker | `native/spaces_broker.c` | current portal owner, registration attempt, retry timer, nested waits | name watch, register, retry, forward a portal call, quit | replies of superseded attempts, owner replaced before the watch is dispatched, lost replies of a one-shot call, callbacks inside nested main loops |
| Portal router of a space | `native/spaces_portal.c` | requests, sessions, inhibitions, mirrored objects, status items | forward a call, answer it locally, close, signals back, owner loss | owners that leave while a call is in flight, a Close crossing a Response, paths used again, tables that share pointers |
| Desktop session controller | `src/spaces/session.py` (`DesktopController`) | active plan per user, mounts, services, status record | reconcile, activate, deactivate, repair, abandon, close | every command can fail, sources are replaced, services die, the record is read concurrently |
| Mount worker | `src/spaces/launch.py` (`_MountWorker`) | last login snapshot, home mounts | tick every 5 s, stop | failures retried by later ticks, revocation that cannot be carried out |
| Computer-use tools and lock state | `native/scu_host.c`, `scu_desktop.h` | two lock indicators, lock seen, images, held input | query, tick, press, capture, deliver | answers applied after newer signals, locks that come and go within a call |
| Computer-use host | `native/scu_service.h`, `scu_mcp.h`, `scu_host.c` | leases, clients, event queue, active call, cancelled ids, held input | accept, read, queue, execute, acknowledge, collect, exit | callbacks nested inside a call, revocation during a call, freeing what is still queued |
| Computer-use controller | `session.py` (`ComputerLease`) | control socket, attempt, identity of the host executable | alive, activate, release, close | timeouts racing answers, upgrade, restart by socket activation |
| Shared polkit agent | `native/spaces.c` | counted state file under flock, agent process | acquire, start, announce, release, terminate | launches that overlap or are killed, pids that are reused |
| Authentication service, PAM helpers | `src/spaces/auth.py`, `native/spaces_pam.c`, `pam_spaces.c` | slots, attempts per user, worker processes, handler threads, frames in transit | accept, authenticate, converse, stop | stop racing handlers, limits, leaked slots, a guest module without a timeout |
| System bus bridge | `native/spaces_system_broker.c`, `src/spaces/system_bus.py` | clients, outstanding calls, queues, owned names, observer | relay, forward, deliver, close, take the name again | two main loops whose events have priorities, ordering of replies and signals, limits, restarts of the service behind the relay |
| Space lifecycle | `src/spaces/priv.py`, `storage.py` | space directories, lock, info.json | create, configure, delete, start, launch | commands racing on a directory, interruption between steps |
| Device worker | `launch.py`, `devices.py` | device policy and bound nodes | add, remove, rollback | policy and nodes out of step |
| Secret helper | `native/spaces_secret_helper.c` | lock, marker, provider process, wallet files and backups | activate, start, ask, set aside, roll back | kills and failures between the renames, providers that hang, die or are replaced |
| Accounts and mounts | `launch.py` | guest passwd and group files | reconcile | id collisions |
| Shortcuts, URL opener, CLI, TUI, configuration, distribution drivers | rest | files | generation, parsing, bootstrap commands | none that a model checker reaches |

How they interact. `launch` starts the machine and the workers. The mount worker drives
one desktop controller per user, which starts the portal broker, the accessibility proxy
and the computer-use listener of a login and binds their sockets into the machine.
Inside the machine a launch (`native/spaces.c`) shares a polkit agent with the other
launches of its session; the portal front end talks to the broker over the bound bus
socket, and calls on the space's system bus go through relay and broker to the host's; a
login in the space asks the authentication service of its machine over a bound socket;
D-Bus activation runs the secret helper; an agent in the space talks to the computer-use
host over the listener that the controller has lent it. `spaces enter` reads the status
record the controller writes. A desktop controller that cannot revoke something raises
an error that makes the worker stop the machine.

## 2. Modules

| module | models | composed with |
|---|---|---|
| `PortalIdentity` | the portal broker's registration and its use | the host's portal and the bus, as environment |
| `PortalIdentityProofs` | proofs about `PortalIdentity` | |
| `DesktopSession` | one user's `DesktopController` inside the `_MountWorker` | logind, files, services and the machine, as environment |
| `DesktopSessionProofs` | proofs about `DesktopSession` | |
| `PolkitAgent` | the launches of one guest session | the kernel's processes, as environment |
| `PolkitAgentProofs` | proofs about `PolkitAgent` | |
| `ScuHost` | the computer-use host and the `ComputerLease` of every space, over the control connections between them | guests, systemd, package upgrades, as environment |
| `ScuHostProofs` | proofs about `ScuHost` | |
| `ComputerDesktop` | the boundaries of the computer-use tools under a screen lock | logind, the screen locker and the compositor, as environment |
| `ComputerDesktopProofs` | proofs about `ComputerDesktop` | |
| `SystemBridge` | relay and broker of the system bus, over the connections between them | guests, the proxied service and both buses, as environment |
| `SystemPort` | the abstract specification that `SystemBridge` implements | |
| `SystemBridgeProofs` | proofs about `SystemBridge` and its refinement of `SystemPort` | |
| `AuthService` | the authentication service, its PAM workers and the guest's PAM module, over the frames between them | users and PAM stacks, as environment |
| `SecretHelper` | the helpers of one guest session | wallet providers and files, as environment |
| `CredentialsProofs` | proofs about `AuthService` and `SecretHelper` | |
| `PortalMirrors` | mirrored media players and status items of the portal router, and the staged files of the portal broker | guest applications and the bus, as environment |
| `PortalRequests` | the requests, sessions and inhibitions of the portal router | guest applications, the host's portal and screen saver, as environment |
| `PortalRouterProofs` | proofs about `PortalMirrors` and `PortalRequests` | |
| `MC*` | the instances TLC checks | |

### PortalIdentity

The broker's fields keep their names (`portalOwner`, `registered`,
`registration`, `retry`, `retryDelay`). A registration attempt is an id that
stands for its cancellable and the call's serial; `calls` are the asynchronous
calls whose callback has yet to run, with the outcome they will report; `msgs`
are the Register messages no portal has read. `watchQ` holds the notifications
of the name watch that the main loop has not dispatched, so the broker's view
lags behind `nameOwner`. A portal call of the space is three steps (ask the bus
for the owner, compare, send) because each of the two synchronous calls blocks
while the bus moves on; after it the handler runs a nested main loop, in which
every callback can run and further calls can nest. A wait that is over returns
only when the waits nested in it have returned (`over`, `WaitReturns`).
`accepted` and `served` are the portal's side: the registrations it holds and the
connections it received calls from. A new broker process is a new connection.

Abstracted: the arguments and results of portal methods and their rewriting, which
do not affect identity.

### DesktopSession

A plan is a set of binds with the login and the generation of the source each one
pins; services (portal broker, accessibility, computer use) are a process and a
bound socket. The worker is one thread, so the model has one program counter, and
each step is one command of the code or one iteration of its loops; between any
two steps logins change, sources are replaced, services die and the machine may
exit. `then` is the continuation of the retire and mount loops, which the code
reaches from `_deactivate`, rollback, repair and close. A command that fails costs
a unit of `faults`; logins and sources that change cost a unit of `changes`.

Abstracted: which paths and environment variables a desktop consists of. Bind
destinations are three representatives with different treatment (a credential
agent that exists without a desktop, a socket that is replaced with its login, a
settings file that is refreshed in place) and the three services.

### PolkitAgent

Each launch acquires a reference, runs its application and releases it, in
critical sections under `flock`. The state file is a record of agent and count. An
agent stands for a pid with a start time; when it is gone its pid may be `taken` by
another process group. A launch that is killed while it starts the agent leaves
the lock with the agent's supervisor, which inherited the descriptor. A write of the
state file that fails has truncated it; that `ftruncate` itself fails (`spaces.c:424`) is
left out: at the last release the file would go on naming the agent that is terminated next.

### ScuHost

One thread: `host.phase` says whether the main loop dispatches, executes a call,
binds a registered listener or is at the end of a turn. The callbacks
(`HostControlAccept`, `HostControlRead`, `HostAccept`, `HostLine`, `HostCancel`,
`HostHangup`) also run inside a call, since a desktop call iterates the main context.
`conn` is a control connection: what the controller has written and the host has not
read, and the replies on their way back. `ctl` is `ComputerLease`, with a step for
every point at which it waits, and one (`raising`) for an exception on its way out of
`_activate` or `_release_control`: a timeout, an unexpected answer, a `systemctl stop` that
fails, or the reset of a stream whose last byte the host has not read. On `close` such an
exception is a failed revocation, after which the machine is stopped. The executable's
identity is a number that an upgrade increases.

Abstracted: what a desktop call does. It may press keys (`held`), lasts any
number of steps and ends. `ComputerDesktop` opens that box.

### ComputerDesktop

A call is a list of boundaries (`Ops`), in the order in which the code meets them: a
tick of the main loop, a query of an indicator and the use of its answer, a test whether
input is allowed, a chunk of input and its release, a capture, the encoded image. The
operations of key, drag and text actions and of a batch with its observation differ only in
that list. Each indicator (logind's `LockedHint`, the screen locker) has a bus on which
signals and answers queue in order; `Dispatch` handles what has arrived during every wait, so
an answer is kept (`answer`) while signals that came behind it are already handled, and used
later. `heard` is what each provider last said, `lockSeen` the code's memory of a lock
during a call. The two handlers differ: a signal of the locker checks the lock at once and
lets go of what is held (`desktop_locker_changed`, `scu_desktop.h:66`), one of logind only
records it, and what is held is let go at the next timer or test.

Abstracted: coordinates, key codes, text, window trees and accessibility batches;
cancellation and the deadline of the whole call, which are in `ScuHost`.

### SystemBridge and SystemPort

Both processes run the same program. `queue` holds what each main loop has yet to
handle: messages, which GDBus's worker thread queues at high priority in the order of
receipt, and default-priority sources (completions, name watches, closed connections), which
run when no message is left. A connection of a guest is one record with its two ends;
a `Call` of the code is followed from the guest to the service and back, or from the service
to a secret agent. One proxied service stands for the three; it is the one with the
most state (NetworkManager, with secret agents). `reowned` is `due` from the moment the
observer can see that the service stopped or started until the relay has taken its name again, and `lost` when the last
message that could tell it to met a full queue. When the service stops, the host's bus first tells
the watches and then fails the calls, one by one, before another instance starts. The guests
are on the space's bus from the start, so `GuestNames` only removes them; a client that cannot be
opened stands for every reason of the code, the limit of connections in `new_peer` included.

`SystemPort` is what programs on both buses may rely on: a call is answered at most
once, and what a guest receives over a connection keeps the order in which the service
sent it. `ImplementsPort` is the refinement: `asked` is the set of calls with a
guest, `sent` the number of messages sent; `answers` and `got` are the bridge's own. An answer
that the bridge makes, or that was held back by a full queue, has no place in the order
(stamp 0).

### AuthService

A login in the guest is a connection. The serving thread accepts it, a handler thread of its
own reads the request, takes an attempt, starts a worker and waits for it; the worker and
the guest's module exchange frames (READY, message, answer, CANCEL, RESULT, ERROR, end of
stream). `stop` is five steps (close the listener, join the serving thread, shut
connections down, kill workers, return), between which every handler moves. A worker is in
the pool only after a step of its own, as in the code, so that stop can miss it. When no
thread can be started for a connection (`HandlerFails`), the exception ends the serving
thread: the connection keeps its slot (`stranded`) and later ones wait in the backlog.

Abstracted: what frames carry, and when PAM succeeds. A frame written to a connection that
is shut down vanishes: the error or signal that the writer may get instead ends the
same conversation.

### SecretHelper

A wallet is three files, each with the number of the wallet it belongs to; `saved` holds
what is set aside under each backup number; `broken` are wallets that this session's key does
not open, `closed` those that a program of the guest has locked or closed. The helper cannot tell
the two apart: `isOpen` of KWallet 5 and the handle of KWallet 6 say that a wallet is not
open, not why, and neither tries the session's key (`WalletStates`). Helpers take turns under `flock`; every rename, the provider's start, its
claim of the name, the query and the marker are steps of their own. Mishaps (a kill, a failed
rename, a failed rename back, a provider that survives its kill, an unmanaged
provider, an answer of the KWallet 6 proxy when no provider is there) are recorded by kind, because the properties are conditional on the kinds.

Abstracted: key derivation, and the token file. A rename that must not replace a file is
atomic; the fallback of `rename_noreplace` for kernels without `renameat2` (link, then
unlink) is not modelled. A wallet has all its files at first; partial ones come from kills and failed
renames.

### PortalMirrors

The router learns of owners from `NameOwnerChanged` signals, which wait in `inbox` while
the main loop is blocked, and from `GetNameOwner`, which reads past them. `creating` is the
`create_mirror` the loop is blocked in; `mirrors` maps a name and path to its owner, the host
paths it occupies and its artwork; `retries` are the timers of players that could not be
mirrored. All mirrors are exported on one host connection, so two of them can want one path.
`files` are the staged files of the portal broker, `lost` those whose `StageFile` reply came
after the router's timeout.

Abstracted: properties and methods of the mirrored objects. An item belongs to the connection that
registers it; the code compares processes (`spaces_portal.c:2939`), of which each has one
connection here. A mirror that can be exported only in part is undone in the same step, and a
`RemoveStagedFile` that fails is not modelled.

### MCCredentials

The secret helper and the authentication service share no state. The run checks both
modules side by side: each behaviour moves one of them while the other is at rest in an
initial state.

### PortalRequests

The router is one main loop, and every action of it is one callback. Calls are
numbered; the number of a call also names the `Request` or `Session` it creates and
its object at the host, while the guest path is the owner and its token, which the
application may use again. `requests` and `sessions` are the guest tables, which own
their entries; `requestsHost` and `sessionsHost` are the sets of objects the host
tables point to. `wire` holds the signals of the host in transit and `closing` the
Close calls the router sent and does not wait for. `view` and `sess` are what the
application knows of a request and of its session, `late` marks what was in flight
when its owner left. `portal = "undefined"` is the state after freed memory was
used; nothing more is said of it.

An application is assumed not to use a token again while it expects an answer on the
object it names, and to call `FinishAcquireDevices` only after the answer to
`AcquireDevices` (the code keeps any handle it is given, `spaces_portal.c:727`); a session
token on a request that makes no session is not sent. The transit of errors and of the broker's answers is merged with the
wait for them, and the screen saver's disappearance and return are one step.

Abstracted: arguments, results, exported documents and staged files.

## 3. Runs

Each property of a passing run has a mutant of the code under which TLC finds it
violated. `TypeOK` of `PortalIdentity` and `PolkitAgent` is proved (section 4), so no run
repeats it.

| run | instance | what it shows |
|---|---|---|
| `portal` | 2 owners, 2 attempts, waits nested 2 deep, retry cap 4, 1 fault | A portal receives calls only from connections whose registration it holds; the broker believes in a registration only if it is true; no connection registers twice with one portal; a portal that stays is registered with. |
| `desktop` | 2 logins, 2 changes, 2 faults | Between ticks mounts, record and active desktop agree; a superseded login has no computer use and no unrestricted accessibility while its successor is planned and activated; a login that ends, for good, ends in revocation; a quiet login is forwarded and announced. |
| `polkit` | 3 launches, 3 agents, 1 fault | The count covers the holders, no agent that is held is signalled, none outlives its session without a fault; no launch waits for the lock for ever, unless an agent has inherited it. |
| `scu_safety` | 2 spaces, 3 control connections, 2 guests, 1 fault | After an acknowledgement no guest of the lease is connected, accepted or executing and nothing is held down; nothing freed is referenced; a controller returns from a release only when the lease is acknowledged or lost. |
| `scu_live` | 1 space, 2 connections, 1 guest, 2 faults | A waiting guest is served or turned away and a revocation ends. |
| `computer_desktop` | 2 chunks, 4 budgets | No input is sent after the host was told of a lock; no picture of a locked desktop is delivered, even if the lock came and went; every call ends with nothing held down. |
| `system_bridge` | 1 guest, 3 calls, 1 callback, 3 connections, 10 budgets | The bridge implements `SystemPort`; a call of a guest that stays is answered although the service may never answer; no connection outlives its guest; each stop and start of the service that the observer saw is shown to the space, unless the last notice of it met a full queue. |
| `credentials` | 2 logins, 1 or 2 slots, 1 attempt, 1 message; 2 helpers, 3 wallets, 3 numbers, 3 kinds of mishap | Slots are neither leaked nor returned twice, once stop has gone over the connections, no request it missed can converse, and a login never waits for the host for ever, except for what a thread that cannot be started leaves. No wallet file is destroyed; a wallet is set aside only if its key does not open it or a guest program closed it; a backup is whole. Each with the mishaps it excludes. |
| `portal_requests` | 2 applications, 1 token, 3 calls | The two tables of requests and of sessions agree; a request hears one Response at most, the one of its own call, and none after its Close; freed memory is used only after an owner left, through the two pointers named; what was opened at the host stays reachable, with the exceptions named; a lost owner leaves only what was in flight. |
| `portal_mirrors` | 2 connections, 2 players, 1 item name, 2 tries, 7 budgets | A mirror stands for the present owner or the notice is on its way; every staged file belongs to a mirror, is being removed or came too late; a player that stays is mirrored, with the exceptions named. |
| `superseded_repaired`, `owner_loss` | 1 login; 2 calls | See "Findings". |

### Bounds

Two owners are the least for a replacement; ids are reused, so two attempts (the
live one and a cancelled one whose callback is late) exhaust the combinations. The
retry delay is capped at 30 in the code; it only matters that doubling meets the cap,
which 4 does. Two logins are the least for a supersession; the initial state has any set of
logins already, and two changes allow a replacement and a replaced source, or a login that
ends and returns. Three launches let the count go from one to two
while another one leaves. Two spaces share the host so that a revocation of one
meets a call of the other; the third control connection allows an idle lease to be
returned while a new one is registered. `MaxPending`, `MaxLeases` and `MaxCancels` are
set so small that the limits are reached; the limit on clients is not reached by the
instance that the run uses, only by a larger one (three guests, two million states).
One token is enough for `PortalRequests`: a path used again is where calls meet, and
different paths share nothing but the owner. Three calls are a persistent request, its finish
and a new call on the path; a third call is made only beside something that lasts, a
persistent request, an inhibition or the other application's session
(`ThirdBesideLasting`), since any two calls already meet in every order without it. The
second application is a bystander with one direct session (`BystanderBound`), so that a
loss meets objects of another owner, and calls to the screen saver come first
(`ScreenFirst`), since they share only the owner with others.
Deadlock is not checked in this module: applications stop calling at the bound, and the
router may have quit.
`SystemBridge`, `PortalMirrors` and `ComputerDesktop` start with one of several budgets,
each a scenario with its own number of calls, messages, restarts, changes and faults: all
orders within a scenario are explored, and a scenario is named by the comment beside it in
its MC module. Limits of the code are met by making them small: 64 outstanding calls,
1024 queued messages and 128 clients become 2, 3 and 2, 64 slots become 1 or 2, 5
attempts become 1, and 20 tries become 2. Three connections let a second one be opened after
the first was lost, beside the observer's. In one budget three broadcasts of the service, which
the observer passes on, fill the relay's queue while the service restarts, so that the notices of
the restart are dropped. Two helpers are enough for one to find what the other
left behind, three wallets and numbers for a backup beside an earlier one.
Deadlock is not checked where guests, users and applications may stop calling.

Faults are counted so that liveness can be stated: after the last of them the system
must recover.

Symmetry (over spaces, connections and guests) is declared in `scu_safety` only, which has
no liveness property.

### Fairness

Fairness is given to steps of the code only, and never to a fault. `PortalIdentity`: a
main loop serves every ready source although synchronous calls block it again and
again, hence strong fairness of its callbacks; blocked calls and waits end because the
code gives them timeouts; systemd restarts the broker. The bound on nested waits also
bounds how long a space can keep an outer wait from returning: a space that opened calls
inside calls for ever would, in the code too, keep a broker that wants to exit alive.
`DesktopSession`: the worker is a
thread with a five-second timeout; a machine that got SIGTERM exits. `PolkitAgent`:
launches are processes; applications and agents owe nothing. `ScuHost`: the loop serves its
sources, a call ends by its deadline, the controller's worker ticks, systemd starts
and stops the unit. Guests owe nothing. `ComputerDesktop`: the call goes on and arrived
messages are dispatched, since every wait iterates the main context with a deadline of its own.
`SystemBridge`: both main loops run, timers expire, the bus answers; the service and secret
agents owe no answer. `AuthService`: handler threads run, a worker is killed after its 120 s, the
guest's module reads what arrives and stop goes on; users and PAM stacks owe nothing. That
stop's join of the serving thread does not run out of its 5 s is assumed. `PortalMirrors`: the
main loop runs and retry timers fire. `PortalRequests` and `SecretHelper` are checked for
safety only.

`LaunchesProceed` is stated for behaviours in which no agent has inherited the lock: a
launch that is killed between fork and announcement leaves the lock with the agent's
supervisor, for as long as that agent runs.

## 4. Proofs

`PortalIdentityProofs` (from: no owner or attempt is the null value, bounds are
naturals) proves for any set of owners and attempts and any bounds

* `TypeCorrect`: `TypeOK`,
* `RegistrationSound`: `RegisteredIsCertified`,
* `IdentitySafe`: `OnlyRegisteredOwnerServes`,
* `RegistersOnce`: the action property `NeverRegistersTwice`.

`OnlyRegisteredOwnerServes` is about the past of a portal, so it needs that a call on
its way goes to an owner that holds the registration (`CallingIsCertified`); that
rests on `RegisteredIsCertified`, which is set when a callback reports success, so it
needs that every successful outcome was accepted for this connection
(`OkIsAccepted`) and that the current attempt is addressed to the current owner
(`AttemptAddressesOwner`). The latter two need that ids of outstanding calls are unique and
match the messages they belong to, that an exited broker holds nothing, and that a
message's connection is never from the future. The invariant is the conjunction of
these parts, proved action by action. `RegistersOnce` needs one more part (`OneShot`): a
portal has one unread registration of a connection at most and then holds none, the
notifications still to be dispatched are about owners that were not tried on this connection, and a
retry is armed only after a refusal.

`PolkitAgentProofs` (from: finitely many launches; launches, agents and the null value are
distinct) proves for any number of launches, agents and faults

* `TypeCorrect`: `TypeOK`,
* `SharedAgentSurvives`: `HeldIsNotTerminated`,
* `CountSound`: `CountCoversHolders`,
* `NoAgentIsLeft`: `AgentStopsWithLastLaunch`.

The count alone is not inductive: between clearing the state file and signalling the
agent, and between forking it and writing the file, the file says nothing. The invariant
adds that whoever is in a critical section holds the lock, that the file is empty while a
launch starts or terminates an agent (`LockedIsEmpty`), that an agent whose start time is
not known yet, or that is being terminated, has one reference only (`UnknownIsAlone`,
`TerminatingIsAlone`), and that a signalled agent is in no file and no reference
(`TerminatedIsForgotten`). That the last reference is really the last one is
the cardinality argument of `LastIsAlone`. `NoAgentIsLeft` needs the converse of the count
(`Accounted`): without a fault the count is the number of the holders, and an agent that runs
is in the file, or in the hands of the launch that holds the lock.

`CredentialsProofs` (on `AuthService`, from: every limit is positive) proves for any set of logins, any
limit and any length of a conversation

* `AuthInvariant`: the inductive invariant `AuthInv`,
* `SlotsSound`: `SlotsAccounted`,
* `StopSilences`: `StoppedIsSilent`.

`SlotsAccounted` is a cardinality, so the set of the requests being served is finite
(`ServedFinite`) and each action adds or removes one login from it. `StoppedIsSilent` holds
because a connection cannot appear behind stop's back: the serving thread has at most one
in its hands (`AcceptingIsAccepted`) and none once it is joined (`JoinedIsEmpty`), and
nobody is left in the backlog of a closed listener (`BacklogIsOpen`). The connection for which
no thread could be started counts as a holder of its slot, and is shut down with the others.

`CredentialsProofs` (on `SecretHelper`, from: helpers, the unmanaged provider and nobody are distinct;
there is at least one backup number) proves for any set of helpers and any number of wallets, numbers and
mishaps

* `SecretInvariant`: the inductive invariant `SecretInv`,
* `SoundWalletsStay`: `SoundWalletStays`,
* `BackupsAreWhole`: `BackupWhole`,
* `NoFileIsLost`: the action property `FilesKept`.

A wallet is set aside in several renames, between which helpers die. The invariant says that
whoever works has the turn (`OneHelper`), that a backup in progress belongs to the helper that
makes it (`MoveIsHelpers`), that its number is free for the files that are yet to come
(`NumberIsFree`) and their old places stay empty (`PlaceIsEmpty`), which needs that without a
stray no provider runs meanwhile (`ProvidersKnown`); that what is about to go does not open
or was closed, unless a mishap spoke for it (`LockedHasCause`, `Trusted`); and where exactly the wallet on its way is split (`OneWallet`). The
attempt to prove `NoFileIsLost` showed that the set of files it speaks of counted absent
files, too; that definition was corrected.

`DesktopSessionProofs` (from: there is a login; no login, plan or desktop is the null value;
bounds are naturals) proves for any set of logins, every configuration and any number of changes
and faults

* `SessionInvariant`: the inductive invariant `IInv`,
* `MountsFollowDesktop`: `MountsMatchDesktop`,
* `RecordFollowsDesktop`: `RecordMatchesDesktop`,
* `SupersededIsRevoked`: `RevokedBeforePlanning`.

The three properties speak of the time between two ticks, or before planning; the
invariant says what holds at every program point of the reconciliation in between: which point
can follow which loop (`Phases`), what is mounted while it revokes, refreshes, tears down, mounts
and undoes (`MountsByPhase`), what the loops still have to treat (`TodoByPhase`), when the record is
settled (`RecordByPhase`) and what a superseded login may still hold (`GrantsByPhase`). Two binds of
a plan never share a destination (`PlansFunctional`), so that undoing by destination is exact.
`GrantsByPhase` was not inductive as first written: the plan that will be activated must
already be known to grant nothing to another login while the old desktop is being torn down.

`ScuHostProofs` (from: finitely many control connections and guests, none of which is the null
value; positive limits) proves for any set of spaces, any limits and any number of faults

* `HostInvariant`: the inductive invariant `IInv`, which includes `TypeOK`,
* `NoInputFollows`: `AcknowledgedIsOver`,
* `CollectsOnlyGarbage`: `NothingDangles`,
* `ReleaseWaits`: the action property `ReleaseIsAcknowledged`.

The host's part of the invariant says what the main loop is doing (`LoopInv`, `CurrentInv`), that
revoked leases accept nobody and have only closed clients (`FlagsInv`, `ClientInv`), and that the
revocation is the last event of its lease in the queue, apart from calls of clients
that are closed (`QueueInv`). The peers' part follows a registration: it is unread, queued,
executed or answered, and only one of these (`TokenInv`); an acknowledgement under way means an
acknowledged lease (`ConnInv`); and a controller past `_activate` has read its answer (`CtlInv`), so
that what it reads next on a release is the acknowledgement. `ConnInv` had to be strengthened in
the proof: a connection in the backlog has an open host end and a space.

`PortalRouterProofs` (on `PortalMirrors`, from: finitely many names; no connection is the null value, and no player
is a status item; at least one try; budgets are naturals) proves for any bus, any number of tries
and any scenario

* `MirrorInvariant`: the inductive invariant `MirrorInv`,
* `MirrorsFollowOwners`: `MirrorsOwned`,
* `FilesAreAccounted`: `StagedAccounted`.

A mirror is created in steps, between which the loop of the router does not run but the bus does.
The invariant says that the owner `create_mirror` has read still owns the name, or the signal of
its loss is queued (`CreatingStands`); nothing is taken from the queue meanwhile. The mirror it makes
is a new one (`CreatingIsNew`). For the files it says that a new file has a new number
(`FilesAreOld`), and that a file belongs to one mirror only and a lost one to none
(`ArtworkIsOwn`), so that removing a mirror removes exactly its own.

`PortalRouterProofs` (on `PortalRequests`, from: the null value is neither an application nor a token; the number of
calls is a natural) proves for any sets of applications and tokens and any number of calls

* `RequestInvariant`: the inductive invariant `RequestInv`,
* `EntriesAgree`: `TablesAgree`,
* `AnswersAreOwn`: `AnswersMatch`,
* `FreedAfterLoss`: `FreedOnlyByOwnerLoss`,
* `OpenedIsReachable`: `HostObjectsReachable`,
* `LossPurges`: `OwnerLossPurges`,
* `CloseSilences`: the action property `ClosedIsSilent`.

The invariant has three groups. The tables (`TableInv`): what a call names (`Named`), what its
application sees and which tables hold it by kind and stage (`Views`, `Entries`), that a path leads
to its own object and both tables agree while the owner is there (`Keyed`, `Twins`), and that only
late entries are left of owners that are gone (`Losses`). `broker_request_done` looks its Request up by
path, and finds the right one because the Request of a local call stays in the table until its
answer while its owner is there (`LocalIsHeld`). The answers (`AnswerInv`): a request has one
Response, under way or heard (`Signals`, `Heard`). The host's objects (`HostInv`): which calls opened
them, what ends them, and where the router has them (`Opened`, `Finishing`, `Reached`). `Opened` was
not inductive as first written: a session that is open at the host before the reply to its
`CreateSession` is handled still has its Response on the wire.

`ComputerDesktopProofs` (from: the number of chunks is a natural) proves for any number
of chunks and any scenario

* `PicturesProved`: `PicturesUnlocked`,
* `InputProved`: the action property `InputUnlocked`.

Both follow from one inductive invariant, which relates what is left of a call to the wires of both
indicators. A call's remaining operations are the end of the list of its stage (`Positioned`), so that
how many are left says where it is. An indicator has one answer under way at most, and only while the
call waits for it (`Replies`); whoever is locked has said so last (`LastNews`). For pictures, `Looked`
says what the host has of a lock at each boundary of the second look, before the capture: it is
remembered, known, still on the wire, or the answer to come will not deny it. `Noted` says that the news of
a lock under which a picture was taken are remembered or are on the wire ahead of the last look's
answers, which cannot be used without handling them. For input, `Heeded` says that from the last look
before the input what a provider said is in `lockSeen` or in `locked`, so that the test before each
chunk sees it, and that an answer that is older than the news cannot hide it once the call is monitored
(`Monitored`).

`SystemBridgeProofs` (from: requests and callbacks are distinct calls; finitely many calls and connections;
names and the null value are distinct, and the null value is no record; the queue's limit is a natural) proves for any guests, calls
and connections, any limits and any scenario

* `LeftClientsClosed`: `NoClientOutlivesGuest`,
* `BridgeIsPort`: the refinement `ImplementsPort`: initial states are `SystemPort`'s, and every step
  is one of its steps or none (`PortStep`).

The invariant has five parts besides the types. `Clients`: a guest has one client at most, an opening
client is the one the relay waits for, and for a guest that has left the bus's notice is in the relay's
queue; this includes a guest that leaves while its client is being opened. `Placed`: what a call
has reached (an inbox, a table of pending calls, a wait) it reached over the connection that it
records. `Owed` and `Itemised`: an answer is owed for a call as long as some request, undelivered
entry or callback can still produce one, and only one of these exists. That gives the first half of
the refinement. The second half is `InOrder`: in each queue the service's messages over one connection
are in their order, those in the broker's queue are younger than those in the relay's, and what a guest
has had is older than both. A completion may be handled after the signals that came behind its
reply, and is then dropped; so it has to be known that its reply is before it (`Announces`), or that
the connection is closed and no signal will pass any more. All actions that only move or
drop items go through a small set of lemmas (`Moved`, `Base`, `Derived`), in which an action is the
removal of one item of one queue and the addition of some to the ends.

The attempt to prove `InputUnlocked` showed that the model forgot a lock signalled by the locker while
the session was invalid, which the code remembers (`scu_desktop.h:66`); the one on `SystemBridge` that stopping the service failed all its calls in one step, in an
order of the model's choosing. Both actions were corrected. The queues' operators were folds, about which
the provers know nothing; they now state what the fold computed.

Only model-checked: all liveness, since the prover does not do fairness. Every invariant, action
property and refinement of the passing runs is stated by a theorem.

## 5. Findings

1. `superseded_repaired`: "an unrelated setup failure must never preserve access to a
   superseded login" (`session.py:2476`). If planning fails while the login snapshot is
   unchanged, `reconcile_portals` runs in the same tick and starts both revoked services
   again for the superseded plan.
2. `owner_loss`: "disconnecting the owner must close the associated host resources"
   (`tests/methodology.md:331`). `guest_name_changed` closes what is in the tables; the
   reply to a call that was in flight when its owner left registers the object
   afterwards (`spaces_portal.c:843`), and it stays open at the host until the router exits.

Observations without a run of their own. The first four are the exceptions that
`FreedOnlyByOwnerLoss` and `HostObjectsReachable` name:

* `chooser_done` keeps the `Request` it was started with (`spaces_portal.c:1075`) and uses
  it after its owner left while the dialog was open, when it has been freed.
* A forwarded request that is registered after its owner left, on the path of a broker
  request still in flight, is removed from `requests_guest` alone by the broker's
  answer; its Response then reaches a freed `Request` through `requests_host`.
* A session that comes with the Response to a request that was closed, or whose owner
  left, is not closed at the host.
* A session whose guest path is still registered is refused, but closed at the host only if
  it was returned directly (not in `map_response`, nor for a session in the results).
* A forwarded request that was closed stays in the table until a Response, which the
  host need not send, or until its owner leaves.
* `_release_control` treats whatever it reads after stopping
  the unit as a failed revocation (`session.py:413`); an acknowledgement that arrives
  between the timeout and the stop is such data, and takes the machine down although
  the revocation was complete.
* The same `recv` raises `ConnectionResetError` if the stopped host had never read the
  revocation byte. It is called inside an exception handler, past the clause that takes a reset
  for the end of the host (`session.py:406`): the revocation counts as failed and the machine is stopped,
  although the host is gone. A unit that cannot be stopped ends in the same way.
* `_release_control` and `_revoke_computer` promise to wait "for active work to be
  neutralized" (`session.py:2989`). An activation that timed out (`session.py:384`) leaves
  the host a lease that the controller has forgotten; `close` returns while a call of the
  space runs.
* `desktop_environment` promises to "wait through reconciliation" (`session.py:2380`), but
  revoking accessibility inside a teardown writes an active record over the pending one
  (`session.py:2858`) while binds are still replaced.
* A user with credential agents and no login keeps the initial pending record
  (`session.py:2395`), so `spaces enter` waits its full timeout for a reconciliation that
  is over.

Shared polkit agent:

* A launch that is killed between the fork of the agent and its announcement leaves the lock with
  the agent (`spaces.c:950`): later launches wait until that agent exits.
* An agent that is reaped during startup is signalled by its old number (`spaces.c:1101`).

System bus bridge:

* A `Changed` that meets a full queue (1024) at the relay is dropped (`spaces_system_broker.c:622`)
  and never sent again: the relay keeps the name through that restart, and libraries in the guest keep their
  stale objects. `RestartNoticed` excludes it (`lost`).
* A change of ownership between the reply to Open and the relay's filter is not seen on
  that connection.
* A reply that meets a full queue (1024) is put behind signals that came after it.
* An agent's registration is remembered from a reply that may be older than a stop of the
  service the watch has yet to report; the agent flag is then stale.
* Broadcasts that arrive between the observer's close and a guest's own connection are
  delivered over neither.

Credentials:

* The helper sets aside a wallet that is merely closed: a provider that runs is asked whether the wallet
  is open, and "no" is taken for "the key does not open it" (`spaces_secret_helper.c:478`, `495`, `925`). A
  program of the guest that locks the collection or closes the wallet makes the next
  activation move a sound wallet away and create an empty one.
* When the KWallet 6 proxy runs and its provider is gone, the handle the proxy returns counts
  in the same way. `SoundWalletStays` excludes it (`"orphan"`).
* `handler.start()` can raise when no thread can be started (`auth.py:360`): the connection keeps
  its slot, the exception ends the serving thread, and logins wait until `stop`; there the
  join of the thread that never started raises, and the rest of the cleanup is skipped. The model lets
  stop go on; `LoginsEnd` excludes the logins that wait (`Deserted`).
* An unmanaged provider that claims the name between the check and the start of the managed
  one is taken for it: it can be killed, and its refusal sets a sound wallet aside. The
  properties of `SecretHelper` exclude it (`"unmanaged"`).
* `stop` signals the process group of workers from a snapshot, in which one may have been
  reaped; a handler hands on a descriptor number it read before `stop` closed the connection;
  the time of an attempt is read before the lock on the attempts is taken.

Mirrors:

* All mirrors share one host connection, so a second player (one well-known path) and a
  second item on the default path cannot be exported; the player is given up after 20 tries.
* The loss of any name of a connection removes all its mirrors, and only the name that
  changed is discovered again: `PlayersMirrored` excludes it (`shed`).
* `StatusNotifierItemUnregistered` is not emitted when an item changes hands.
* A `StageFile` call that times out leaves its file until the broker exits (`lost`).

## 6. Plan

Proofs: the safety properties of the runs are proved; what a new module states is proved with it.

Models: `DeviceWorker`, policy and nodes with rollback; `SpaceLifecycle`, create and
delete on the directory lock with interruption between the steps, whose abstract
specification is a space that is absent, being created, present or broken.

## 7. Not modelled

* Computer use: window observations, accessibility trees and batches, application search,
  pointer geometry and the virtual monitor. They are computations on host data, or one
  helper process that is polled; of the monitor it can be said that a query sampled before the
  helper exits reports an output that is gone.
* Portal router and broker: the argument rewriting of single methods, notifications, game
  mode, realtime requests and the accessibility gate, which forward a call or keep one table.
* System bus: the rules of the call policy beyond reading, writing and oversized calls, and
  the supervisor `system_bus.py`, which starts the two processes.
* Device worker: one loop over udev events. The policy is widened before a bind and narrowed
  after an unbind (`_reconcile`, `launch.py:2359`), with a rollback when the bind fails.
* Space lifecycle: sequential commands under `flock`, whose intermediate states are made by
  `rm`, `mv`, package managers and systemd; what a rerun finds depends on them.
* Accounts, homes, shortcuts, URL opener, command line, terminal interface, configuration:
  files and parsing without concurrent state.
* Distribution drivers: sequences of external commands.

Some hazards of `PROJECT.json` are only named by a property as its exception, not caught by it; they
are observations above. They are the record written inside a reconciliation (`session.py:2858`), the lock
that an agent inherits (`spaces.c:950`), sessions that the router does not close
(`spaces_portal.c:758`, `886`), the use after the loss of the owner (`spaces_portal.c:1075`), and the kill
of a helper between two renames (`spaces_secret_helper.c:608`), which leaves one wallet under two
numbers, or partly in place, though no file is lost.

`PROJECT.json` lists each component with its status, and the hazards that no
property covers with the reason.
