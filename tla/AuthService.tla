----------------------------- MODULE AuthService -----------------------------
(***************************************************************************)
(* Host authentication for a space: src/spaces/auth.py serves one socket,  *)
(* a thread per request, and hands the connection to a PAM worker,         *)
(* native/spaces_pam.c, which converses with the PAM module in the guest,  *)
(* native/pam_spaces.c.  Stopping the service races requests that are      *)
(* being accepted, read, or handed to a worker.                            *)
(***************************************************************************)
EXTENDS Naturals, Sequences, FiniteSets

CONSTANTS Logins,       \* logins in the guest, each one connection
          Limits,       \* request slots to start with (64 in the code)
          MaxAttempts,  \* attempts of a user in a window (5 in the code)
          MaxMessages   \* messages of one PAM conversation (bound; 32 in a call)

ASSUME LimitsAssumption == Limits \subseteq Nat \ {0}

VARIABLES
    module,    \* pam_sm_authenticate of each login
    request,   \* the service's side of each connection
    accepting, \* connections serve has accepted and not yet handed on
    toGuest,   \* frames on the way to the guest
    toHost,    \* frames on the way to the host
    shut,      \* connections that are shut down or closed by the host
    worker,    \* the PAM worker of each connection
    pool,      \* _processes of the worker pool
    asked,     \* messages each worker has sent
    limit,     \* MAX_REQUESTS
    slots,     \* free request slots
    attempts,  \* attempts in the window
    stopping   \* how far stop has come

authVars == <<module, request, accepting, toGuest, toHost, shut, worker, pool, asked, limit,
              slots, attempts, stopping>>
wireVars == <<toGuest, toHost, shut>>
workerVars == <<worker, pool, asked>>
serviceVars == <<limit, slots, attempts, stopping>>

Steps == <<"running", "closed", "joined", "shut", "killed", "stopped">>
Stage(s) == CHOOSE i \in DOMAIN Steps : Steps[i] = s
Before(s) == Stage(stopping) < Stage(s)

AuthInit ==
    /\ module = [l \in Logins |-> "idle"]
    /\ request = [l \in Logins |-> "none"]
    /\ accepting = {}
    /\ toGuest = [l \in Logins |-> <<>>]
    /\ toHost = [l \in Logins |-> <<>>]
    /\ shut = {}
    /\ worker = [l \in Logins |-> "none"]
    /\ pool = {}
    /\ asked = [l \in Logins |-> 0]
    /\ limit \in Limits
    /\ slots = limit
    /\ attempts = 0
    /\ stopping = "running"

\* spaces_send_frame and send_frame: nothing arrives on a closed connection.
Send(l, type) == toGuest' = IF l \in shut THEN toGuest ELSE [toGuest EXCEPT ![l] = Append(@, type)]

-----------------------------------------------------------------------------
(* The guest: pam_sm_authenticate.                                          *)

\* connect_broker and the AUTHENTICATE frame; the socket may be gone.
Connect(l) ==
    /\ module[l] = "idle"
    /\ IF Before("closed")
       THEN /\ module' = [module EXCEPT ![l] = "waiting"]
            /\ request' = [request EXCEPT ![l] = "backlog"]
            /\ toHost' = [toHost EXCEPT ![l] = <<"authenticate">>]
       ELSE /\ module' = [module EXCEPT ![l] = "unavailable"]
            /\ UNCHANGED <<request, toHost>>
    /\ UNCHANGED <<accepting, toGuest, shut, workerVars, serviceVars>>

\* One frame: READY is skipped, RESULT and ERROR end the login, as does the end
\* of the stream.
Receive(l) ==
    /\ module[l] = "waiting"
    /\ \/ /\ toGuest[l] # <<>> /\ Head(toGuest[l]) # "message"
          /\ toGuest' = [toGuest EXCEPT ![l] = Tail(@)]
          /\ module' = [module EXCEPT ![l] =
                CASE Head(toGuest[l]) = "ready" -> "waiting"
                  [] Head(toGuest[l]) = "error" -> "unavailable"
                  [] OTHER -> Head(toGuest[l])]
       \/ /\ toGuest[l] = <<>> /\ l \in shut
          /\ module' = [module EXCEPT ![l] = "unavailable"]
          /\ UNCHANGED toGuest
    /\ UNCHANGED <<request, accepting, toHost, shut, workerVars, serviceVars>>

\* relay_message: the user answers, or the conversation fails and CANCEL is sent.
Relay(l) ==
    /\ module[l] = "waiting"
    /\ toGuest[l] # <<>> /\ Head(toGuest[l]) = "message"
    /\ toGuest' = [toGuest EXCEPT ![l] = Tail(@)]
    /\ \/ /\ l \notin shut
          /\ toHost' = [toHost EXCEPT ![l] = Append(@, "response")]
          /\ UNCHANGED module
       \/ /\ toHost' = IF l \in shut THEN toHost ELSE [toHost EXCEPT ![l] = Append(@, "cancel")]
          /\ module' = [module EXCEPT ![l] = "failure"]
    /\ UNCHANGED <<request, accepting, shut, workerVars, serviceVars>>

-----------------------------------------------------------------------------
(* _serve and _handle.                                                      *)

\* The serving thread has ended with an exception.
Deserted == \E l \in Logins : request[l] = "stranded"

\* accept takes a connection and a slot, or answers ERROR.
Accept(l) ==
    /\ request[l] = "backlog" /\ Before("closed") /\ accepting = {} /\ ~Deserted
    /\ IF slots = 0
       THEN /\ Send(l, "error")
            /\ shut' = shut \cup {l}
            /\ request' = [request EXCEPT ![l] = "closed"]
            /\ UNCHANGED <<accepting, slots>>
       ELSE /\ slots' = slots - 1
            /\ accepting' = {l}
            /\ request' = [request EXCEPT ![l] = "accepted"]
            /\ UNCHANGED <<toGuest, shut>>
    /\ UNCHANGED <<limit, module, toHost, workerVars, attempts, stopping>>

\* The handler and its connection are recorded and the thread starts.
Handle(l) ==
    /\ l \in accepting
    /\ accepting' = {}
    /\ request' = [request EXCEPT ![l] = "reading"]
    /\ UNCHANGED <<module, wireVars, workerVars, serviceVars>>

\* No thread can be started: the exception ends _serve, which has recorded the
\* connection and keeps its slot.
HandlerFails(l) ==
    /\ l \in accepting
    /\ accepting' = {}
    /\ request' = [request EXCEPT ![l] = "stranded"]
    /\ UNCHANGED <<module, wireVars, workerVars, serviceVars>>

\* Mutant of Released: a rejected request keeps its slot.
ReleasedOnSuccess(rejected) == IF rejected THEN slots ELSE slots + 1

Released(rejected) == slots + 1

\* The finally of _handle: close, forget, release.
Finish(l, rejected) ==
    /\ request' = [request EXCEPT ![l] = "closed"]
    /\ shut' = shut \cup {l}
    /\ slots' = Released(rejected)

\* recv_frame, the peer's cgroup and the rate limit: what cannot be read, comes
\* from outside the space or too often is rejected with ERROR.
Admit(l) ==
    /\ request[l] = "reading"
    /\ \/ /\ l \notin shut /\ attempts < MaxAttempts
          /\ toHost' = [toHost EXCEPT ![l] = Tail(@)]
          /\ attempts' = attempts + 1
          /\ request' = [request EXCEPT ![l] = "admitted"]
          /\ UNCHANGED <<toGuest, shut, slots>>
       \/ /\ Send(l, "error")
          /\ Finish(l, TRUE)
          /\ UNCHANGED <<toHost, attempts>>
    /\ UNCHANGED <<limit, module, accepting, workerVars, stopping>>

\* _run_pam up to Popen.  A connection that stop has closed has no descriptor
\* to pass on; other failures to start end the same way.
StartWorker(l) ==
    /\ request[l] = "admitted"
    /\ \/ /\ l \notin shut
          /\ worker' = [worker EXCEPT ![l] = "starting"]
          /\ request' = [request EXCEPT ![l] = "started"]
          /\ UNCHANGED <<toGuest, shut, slots>>
       \/ Send(l, "error") /\ Finish(l, TRUE) /\ UNCHANGED worker
    /\ UNCHANGED <<limit, module, accepting, toHost, pool, asked, attempts, stopping>>

\* The process is entered in the pool, after it was started.
EnterPool(l) ==
    /\ request[l] = "started"
    /\ pool' = pool \cup {l}
    /\ request' = [request EXCEPT ![l] = "waiting"]
    /\ UNCHANGED <<module, accepting, wireVars, worker, asked, serviceVars>>

\* process.wait returns, the pool forgets the process and the handler ends.
WorkerEnded(l) ==
    /\ request[l] = "waiting" /\ worker[l] = "ended"
    /\ pool' = pool \ {l}
    /\ Finish(l, FALSE)
    /\ UNCHANGED <<limit, module, accepting, toGuest, toHost, worker, asked, attempts, stopping>>

Running == {"starting", "conversing", "asking"}

\* Mutant of WorkerTimeout: the wait has no deadline.
WorkerTimeoutNever(l) == FALSE

\* 120 s: the worker is killed.
WorkerTimeout(l) ==
    /\ request[l] = "waiting" /\ worker[l] \in Running
    /\ worker' = [worker EXCEPT ![l] = "ended"]
    /\ UNCHANGED <<module, request, accepting, wireVars, pool, asked, serviceVars>>

\* The rate limit's window passes.
WindowPasses ==
    /\ attempts > 0
    /\ attempts' = attempts - 1
    /\ UNCHANGED <<limit, module, request, accepting, wireVars, workerVars, slots, stopping>>

-----------------------------------------------------------------------------
(* The PAM worker.                                                          *)

\* harden or the arguments fail: the worker ends without a word.
Abort(l) ==
    /\ worker[l] = "starting"
    /\ worker' = [worker EXCEPT ![l] = "ended"]
    /\ UNCHANGED <<module, request, accepting, wireVars, pool, asked, serviceVars>>

\* pam_start and READY.
Ready(l) ==
    /\ worker[l] = "starting"
    /\ worker' = [worker EXCEPT ![l] = "conversing"]
    /\ Send(l, "ready")
    /\ UNCHANGED <<module, request, accepting, toHost, shut, pool, asked, serviceVars>>

\* worker_conversation: a message goes out when the last one is answered; what
\* cannot be sent fails the conversation.
Ask(l) ==
    /\ worker[l] = "conversing" /\ asked[l] < MaxMessages
    /\ worker' = IF l \in shut THEN worker ELSE [worker EXCEPT ![l] = "asking"]
    /\ asked' = [asked EXCEPT ![l] = @ + 1]
    /\ Send(l, "message")
    /\ UNCHANGED <<module, request, accepting, toHost, shut, pool, serviceVars>>

\* A frame is read, after a shutdown too as long as there is one, or the stream
\* has ended on either side.  Answered or failed, the conversation returns to the
\* PAM stack.
Answer(l) ==
    /\ worker[l] = "asking"
    /\ \/ toHost[l] # <<>> /\ toHost' = [toHost EXCEPT ![l] = Tail(@)]
       \/ toHost[l] = <<>> /\ (l \in shut \/ module[l] # "waiting") /\ UNCHANGED toHost
    /\ worker' = [worker EXCEPT ![l] = "conversing"]
    /\ UNCHANGED <<module, request, accepting, toGuest, shut, pool, asked, serviceVars>>

\* pam_start fails, or pam_authenticate and pam_acct_mgmt decide; RESULT goes out
\* and the worker ends.
Decide(l) ==
    /\ \/ worker[l] = "conversing" /\ Send(l, "success")
       \/ worker[l] \in {"starting", "conversing"} /\ Send(l, "failure")
    /\ worker' = [worker EXCEPT ![l] = "ended"]
    /\ UNCHANGED <<module, request, accepting, toHost, shut, pool, asked, serviceVars>>

-----------------------------------------------------------------------------
(* stop.                                                                    *)

\* The flag is set and the listener closed: the backlog is reset.
StopListening ==
    /\ stopping = "running"
    /\ stopping' = "closed"
    /\ shut' = shut \cup {l \in Logins : request[l] = "backlog"}
    /\ request' = [l \in Logins |-> IF request[l] = "backlog" THEN "closed" ELSE request[l]]
    /\ UNCHANGED <<limit, module, accepting, toGuest, toHost, workerVars, slots, attempts>>

\* Mutant of ServeEnded: the serving thread is not waited for.
ServeEndedAny == TRUE

\* The serving thread ends once it has handed its last connection on, or failed to.
ServeEnded == accepting = {}

Join ==
    /\ stopping = "closed" /\ ServeEnded
    /\ stopping' = "joined"
    /\ UNCHANGED <<limit, module, request, accepting, wireVars, workerVars, slots, attempts>>

\* Every recorded connection is shut down and closed.
ShutDown ==
    /\ stopping = "joined"
    /\ stopping' = "shut"
    /\ shut' = shut \cup {l \in Logins : request[l] \notin {"none", "accepted"}}
    /\ UNCHANGED <<limit, module, request, accepting, toGuest, toHost, workerVars, slots, attempts>>

\* The workers in the pool are killed; one that is entered later is not.
KillWorkers ==
    /\ stopping = "shut"
    /\ stopping' = "killed"
    /\ worker' = [l \in Logins |-> IF l \in pool THEN "ended" ELSE worker[l]]
    /\ UNCHANGED <<limit, module, request, accepting, wireVars, pool, asked, slots, attempts>>

\* The handlers are joined, or 5 s pass; the join of one that was never started
\* raises.
StopReturns ==
    /\ stopping = "killed"
    /\ stopping' = "stopped"
    /\ UNCHANGED <<limit, module, request, accepting, wireVars, workerVars, slots, attempts>>

-----------------------------------------------------------------------------

Worker(l) == Abort(l) \/ Ready(l) \/ Ask(l) \/ Answer(l) \/ Decide(l)
Handler(l) ==
    \/ Accept(l) \/ Handle(l) \/ Admit(l) \/ StartWorker(l) \/ EnterPool(l) \/ WorkerEnded(l)
Stop == Join \/ ShutDown \/ KillWorkers \/ StopReturns

AuthNext ==
    \/ \E l \in Logins :
          \/ Connect(l) \/ Receive(l) \/ Relay(l) \/ Handler(l) \/ HandlerFails(l)
          \/ Worker(l) \/ WorkerTimeout(l)
    \/ WindowPasses \/ StopListening \/ Stop

\* Threads run and time passes; a PAM module may wait for ever, and a guest's
\* user need not answer.
AuthFairness ==
    /\ \A l \in Logins : WF_authVars(Handler(l)) /\ WF_authVars(WorkerTimeout(l))
    /\ \A l \in Logins : WF_authVars(Receive(l))
    /\ WF_authVars(Stop)

AuthSpec == AuthInit /\ [][AuthNext]_authVars /\ AuthFairness

-----------------------------------------------------------------------------
(* Properties.                                                              *)

HasSlot == {"accepted", "reading", "admitted", "started", "waiting", "stranded"}

\* Every slot is free or held by one connection, through every way a request can
\* be rejected, fail or be cut off by stop (auth.py:349); only the one for which
\* no thread could be started keeps its slot for good.
SlotsAccounted ==
    slots + Cardinality({l \in Logins : request[l] \in HasSlot}) = limit

\* Once stop has gone over the connections none is left open, so a worker it
\* missed cannot converse any more (auth.py:263).
StoppedIsSilent ==
    ~Before("shut") => \A l \in Logins : request[l] \in HasSlot => l \in shut

\* The module holds a message for its user.
AtPrompt(l) == toGuest[l] # <<>> /\ Head(toGuest[l]) = "message"

\* A login never waits for the host for ever: whether the service admits it, runs
\* out of slots, fails to start a worker or stops, and although a PAM stack may
\* hang and the module has no timeout of its own (pam_spaces.c:124), it comes to
\* its result or to a prompt for its user.  Only when no thread can be started for
\* a connection (auth.py:360) do it and those behind it wait for stop.
LoginsEnd ==
    \A l \in Logins :
        (module[l] = "waiting") ~>
            \/ module[l] # "waiting" \/ AtPrompt(l)
            \/ Deserted /\ request[l] \in {"backlog", "stranded"} /\ Before("closed")
====
