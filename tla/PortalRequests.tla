--------------------------- MODULE PortalRequests ---------------------------
(***************************************************************************)
(* The portal router of a Space, native/spaces_portal.c: the requests and  *)
(* sessions it opens at the host's portal for guest applications, the      *)
(* requests it answers itself (the guest's file chooser and the host       *)
(* broker), and the screen-saver inhibitions it relays.  The router is one *)
(* GLib main loop: each action of it is a callback run to its end.  Calls  *)
(* to the host are asynchronous, so between a call and its reply the owner *)
(* may close the object or leave the guest bus, and the host may close it. *)
(*                                                                         *)
(* An object path is its owner and its token; calls are numbered, and the  *)
(* number of a call also names the Request or Session it creates and the   *)
(* host object with the fresh token rewrite_options makes for it.          *)
(***************************************************************************)
EXTENDS Naturals, Sequences, FiniteSets, Functions

CONSTANTS Apps,     \* unique names on the guest bus, never used again
          Tokens,   \* handle_token and session_handle_token values
          None,
          MaxCalls  \* calls the applications make (bound)

ASSUME NoneAssumption == None \notin Apps \cup Tokens
ASSUME BoundAssumption == MaxCalls \in Nat

VARIABLES
    portal,       \* "runs", "quit", or "undefined": freed memory was used
    gone,         \* owners whose NameOwnerChanged was handled
    calls,        \* the calls, with the state of each
    open,         \* host objects that exist
    closing,      \* host objects a Close is in transit to
    wire,         \* signals of the host portal in transit
    requests,     \* requests_guest: path |-> Request
    requestsHost, \* requests_host: the Requests it points to
    sessions,     \* sessions_guest: path |-> Session
    sessionsHost, \* sessions_host
    inhibitors,   \* cookies with an owner
    responses     \* Response signals on each request: the calls they answer

vars == <<portal, gone, calls, open, closing, wire, requests, requestsHost, sessions,
          sessionsHost, inhibitors, responses>>
tables == <<requests, requestsHost, sessions, sessionsHost, inhibitors>>
world == <<open, closing, wire>>

(* Methods by what the router does with them.  Requests: out argument is a *)
(* request handle, with a session handle in the Response (CreateSession)   *)
(* or not, Acquire the persistent one of Usb.  Direct and Results return   *)
(* the session in the reply.                                               *)
Forwarded == {"Request", "CreateSession", "Acquire", "Direct", "Results", "Finish"}
ReturnsRequest == {"Request", "CreateSession", "Acquire"}
ReturnsSession == {"Direct", "Results"}
Local == {"Broker", "Chooser"}
Screen == {"Inhibit", "UnInhibit"}

Numbers == DOMAIN calls
Path(c) == <<calls[c].app, calls[c].tok>>
SessionPath(c) == <<calls[c].app, calls[c].stok>>
Req(c) == <<"request", c>>
Ses(c) == <<"session", c>>
Inh(c) == <<"inhibit", c>>
With(f, k, v) == [x \in DOMAIN f \cup {k} |-> IF x = k THEN v ELSE f[x]]
Without(f, keys) == Restrict(f, DOMAIN f \ keys)
Live == Range(requests)      \* the Requests not freed
\* The reply to a call, or the Response, is still to be handled.
InFlight(c) == calls[c].stage # "done" \/ {<<"response", c>>, <<"session", c>>} \cap wire # {}

Init ==
    /\ portal = "runs" /\ gone = {} /\ calls = <<>>
    /\ open = {} /\ closing = {} /\ wire = {}
    /\ requests = <<>> /\ requestsHost = {}
    /\ sessions = <<>> /\ sessionsHost = {} /\ inhibitors = {}
    /\ responses = [c \in 1..MaxCalls |-> <<>>]

(***************************************************************************)
(* The applications.  A token is not used again while the application      *)
(* still expects an answer on the object it names.                         *)
(***************************************************************************)
InUse(a, t) ==
    \E c \in Numbers : /\ calls[c].app = a /\ calls[c].tok = t
                       /\ calls[c].view \in {"waiting", "granted"}
SessionInUse(a, t) ==
    \E c \in Numbers : /\ calls[c].app = a /\ calls[c].stok = t
                       /\ \/ calls[c].view \in {"waiting", "granted"}
                          \/ calls[c].sess = "told"

NewCall(k, a, t, s, g, v, u) ==
    Append(calls, [kind |-> k, app |-> a, tok |-> t, stok |-> s, stage |-> g, view |-> v,
                   of |-> u, sess |-> "none", said |-> FALSE, cancelled |-> FALSE,
                   late |-> FALSE])
Calls(a) == portal = "runs" /\ a \notin gone /\ Len(calls) < MaxCalls

\* portal_method_call for a call passed on to the host's portal.
ForwardCall(a, k, t, s) ==
    /\ Calls(a) /\ k \in Forwarded \ {"Finish"}
    /\ t = None <=> k \notin ReturnsRequest
    /\ s = None <=> k \notin ReturnsSession \cup {"CreateSession"}
    /\ ~InUse(a, t) \/ t = None
    /\ ~SessionInUse(a, s) \/ s = None
    /\ calls' = NewCall(k, a, t, s, "sent", "waiting", None)
    /\ UNCHANGED <<portal, gone, tables, world, responses>>

\* FinishAcquireDevices, which an application calls once AcquireDevices was answered:
\* prepare_parameters keeps the path and sends the host's.
FinishCall(a, t) ==
    /\ Calls(a)
    /\ <<a, t>> \in DOMAIN requests
    /\ calls[requests[<<a, t>>]].kind = "Acquire" /\ calls[requests[<<a, t>>]].view = "answered"
    /\ calls' = NewCall("Finish", a, t, None, "sent", "waiting", requests[<<a, t>>])
    /\ UNCHANGED <<portal, gone, tables, world, responses>>

\* A call the router answers itself: register_request, then the asynchronous call.
LocalCall(a, k, t) ==
    /\ Calls(a) /\ ~InUse(a, t)
    /\ IF <<a, t>> \in DOMAIN requests
       THEN /\ calls' = NewCall(k, a, t, None, "done", "refused", None)
            /\ UNCHANGED requests
       ELSE /\ calls' = NewCall(k, a, t, None, "sent", "granted", None)
            /\ requests' = With(requests, <<a, t>>, Len(calls) + 1)
    /\ UNCHANGED <<portal, gone, requestsHost, sessions, sessionsHost, inhibitors, world,
                   responses>>

\* file_chooser_call, to the backend in the guest.
ChooserCall(a, t) == LocalCall(a, "Chooser", t)
\* screenshot_call, open_file_call, transformed_request_call, to the host's broker.
BrokerCall(a, t) == LocalCall(a, "Broker", t)

\* simple_bridge_call: Inhibit and Throttle, UnInhibit and UnThrottle.
InhibitCall(a) ==
    /\ Calls(a)
    /\ calls' = NewCall("Inhibit", a, None, None, "sent", "waiting", None)
    /\ UNCHANGED <<portal, gone, tables, world, responses>>
UnInhibitCall(a, c) ==
    /\ Calls(a) /\ c \in inhibitors /\ calls[c].app = a
    /\ calls' = NewCall("UnInhibit", a, None, None, "sent", "waiting", c)
    /\ UNCHANGED <<portal, gone, tables, world, responses>>

(***************************************************************************)
(* The host's services (external).  The transit of an error, or of a local *)
(* backend's or the broker's answer, is not told apart from the wait for   *)
(* it: neither has left anything at the host.                              *)
(***************************************************************************)
Runs == portal = "runs"
Made(c) ==
    CASE calls[c].kind \in ReturnsRequest -> {Req(c)}
      [] calls[c].kind \in ReturnsSession -> {Ses(c)}
      [] calls[c].kind = "Inhibit" -> {Inh(c)}
      [] OTHER -> {}
Ended(c) ==
    CASE calls[c].kind = "Finish" -> {Req(calls[c].of)}
      [] calls[c].kind = "UnInhibit" -> {Inh(calls[c].of)}
      [] OTHER -> {}

HostReplies(c) ==
    /\ Runs /\ calls[c].stage = "sent" /\ calls[c].kind \notin Local /\ Ended(c) \subseteq open
    /\ calls' = [calls EXCEPT ![c].stage = "replied"]
    /\ open' = (open \cup Made(c)) \ Ended(c)
    /\ UNCHANGED <<portal, gone, tables, closing, wire, responses>>
HostResponds(c, withSession) ==
    /\ Runs /\ Req(c) \in open /\ ~calls[c].said
    /\ withSession => calls[c].kind = "CreateSession"
    /\ calls' = [calls EXCEPT ![c].said = TRUE]
    /\ open' = (open \ (IF calls[c].kind = "Acquire" THEN {} ELSE {Req(c)}))
                   \cup (IF withSession THEN {Ses(c)} ELSE {})
    /\ wire' = wire \cup {<<IF withSession THEN "session" ELSE "response", c>>}
    /\ UNCHANGED <<portal, gone, tables, closing, responses>>
HostEndsSession(c) ==
    /\ Runs /\ Ses(c) \in open
    /\ open' = open \ {Ses(c)}
    /\ wire' = wire \cup {<<"closed", c>>}
    /\ UNCHANGED <<portal, gone, calls, tables, closing, responses>>
\* Close, UnInhibit: a session may or may not be reported as closed.
HostHandlesClose(h, reported) ==
    /\ Runs /\ h \in closing
    /\ reported => h \in open /\ h[1] = "session"
    /\ open' = open \ {h}
    /\ closing' = closing \ {h}
    /\ wire' = IF reported THEN wire \cup {<<"closed", h[2]>>} ELSE wire
    /\ UNCHANGED <<portal, gone, calls, tables, responses>>

(***************************************************************************)
(* The router.                                                             *)
(***************************************************************************)
\* close_host_object: the Close is sent and not waited for.
ClosesSessionsOnly(h) == closing' = IF h[1] = "session" THEN closing \cup {h} ELSE closing
CloseHostObject(h) == closing' = closing \cup {h}
\* g_hash_table_remove of a Request from both tables.
DropsGuestEntry(c) == requests' = Without(requests, {Path(c)}) /\ UNCHANGED requestsHost
Drop(c) == /\ requests' = Without(requests, {Path(c)})
           /\ requestsHost' = requestsHost \ {c}
Settle(c, v) == [calls EXCEPT ![c].stage = "done", ![c].view = v]
\* g_dbus_connection_emit_signal of a Response on Request o, heard by its owner.
Emit(o, c) == responses' = IF calls[o].app \in gone THEN responses
                           ELSE [responses EXCEPT ![o] = Append(@, c)]

\* forward_done and screen_call_done on an error, and forward_done of a
\* FinishAcquireDevices that is not the last.
CallFailed(c) ==
    /\ Runs /\ calls[c].stage = "sent" /\ calls[c].kind \notin Local
    /\ calls' = Settle(c, "refused")
    /\ UNCHANGED <<portal, gone, tables, world, responses>>

\* register_request and register_session, once the guest path is exported.
RegisterRequest(c) == /\ requests' = With(requests, Path(c), c)
                      /\ requestsHost' = requestsHost \cup {c}
RegisterSession(c) == /\ sessions' = With(sessions, SessionPath(c), c)
                      /\ sessionsHost' = sessionsHost \cup {c}
\* forward_done for a request handle.
ForwardedRequest(c) ==
    /\ Runs /\ calls[c].stage = "replied" /\ calls[c].kind \in ReturnsRequest
    /\ IF Path(c) \in DOMAIN requests
       THEN /\ calls' = Settle(c, "refused")
            /\ CloseHostObject(Req(c))
            /\ UNCHANGED <<requests, requestsHost>>
       ELSE /\ calls' = Settle(c, "granted")
            /\ RegisterRequest(c)
            /\ UNCHANGED closing
    /\ UNCHANGED <<portal, gone, sessions, sessionsHost, inhibitors, open, wire, responses>>
\* forward_done for a session handle: only the direct one is closed when refused.
ForwardedSession(c) ==
    /\ Runs /\ calls[c].stage = "replied" /\ calls[c].kind \in ReturnsSession
    /\ IF SessionPath(c) \in DOMAIN sessions
       THEN /\ calls' = Settle(c, "refused")
            /\ IF calls[c].kind = "Direct" THEN CloseHostObject(Ses(c)) ELSE UNCHANGED closing
            /\ UNCHANGED <<sessions, sessionsHost>>
       ELSE /\ calls' = [Settle(c, "answered") EXCEPT ![c].sess = "told"]
            /\ RegisterSession(c)
            /\ UNCHANGED closing
    /\ UNCHANGED <<portal, gone, requests, requestsHost, inhibitors, open, wire, responses>>
\* forward_done of a finished FinishAcquireDevices removes the request at the path.
ForwardedFinish(c) ==
    /\ Runs /\ calls[c].stage = "replied" /\ calls[c].kind = "Finish"
    /\ calls' = Settle(c, "answered")
    /\ IF Path(c) \in DOMAIN requests THEN Drop(requests[Path(c)])
       ELSE UNCHANGED <<requests, requestsHost>>
    /\ UNCHANGED <<portal, gone, sessions, sessionsHost, inhibitors, world, responses>>

\* chooser_done keeps the Request itself, which its owner's leaving frees.
ChooserDone(c) ==
    /\ Runs /\ calls[c].stage = "sent" /\ calls[c].kind = "Chooser"
    /\ IF c \notin Live
       THEN /\ portal' = "undefined"
            /\ UNCHANGED <<calls, requests, responses>>
       ELSE /\ requests' = Without(requests, {Path(c)})
            /\ IF calls[c].cancelled
               THEN calls' = [calls EXCEPT ![c].stage = "done"] /\ UNCHANGED responses
               ELSE calls' = Settle(c, "answered") /\ Emit(c, c)
            /\ UNCHANGED portal
    /\ UNCHANGED <<gone, requestsHost, sessions, sessionsHost, inhibitors, world>>
\* screenshot_done, broker_request_done, transformed_request_done: by path.
AnswersCancelled(c) == Path(c) \in DOMAIN requests
Answerable(c) == Path(c) \in DOMAIN requests /\ ~calls[requests[Path(c)]].cancelled
BrokerDone(c) ==
    /\ Runs /\ calls[c].stage = "sent" /\ calls[c].kind = "Broker"
    /\ requests' = Without(requests, {Path(c)})
    /\ IF Answerable(c)
       THEN /\ Emit(requests[Path(c)], c)
            /\ calls' = [calls EXCEPT ![c].stage = "done", ![requests[Path(c)]].view = "answered"]
       ELSE /\ calls' = [calls EXCEPT ![c].stage = "done"]
            /\ UNCHANGED responses
    /\ UNCHANGED <<portal, gone, requestsHost, sessions, sessionsHost, inhibitors, world>>
\* screen_call_done.
ScreenCallDone(c) ==
    /\ Runs /\ calls[c].stage = "replied" /\ calls[c].kind \in Screen
    /\ inhibitors' = IF calls[c].kind = "Inhibit" THEN inhibitors \cup {c}
                     ELSE inhibitors \ {calls[c].of}
    /\ calls' = Settle(c, "answered")
    /\ UNCHANGED <<portal, gone, requests, requestsHost, sessions, sessionsHost, world, responses>>

\* host_portal_signal and map_response for the Response signal of request c.
Response(c, withSession) ==
    LET signal == <<IF withSession THEN "session" ELSE "response", c>> IN
    /\ Runs /\ signal \in wire /\ calls[c].stage = "done"
    /\ wire' = wire \ {signal}
    /\ portal' = IF c \in requestsHost \ Live THEN "undefined" ELSE portal
    /\ IF c \notin requestsHost \cap Live
       THEN UNCHANGED <<calls, tables, responses>>
       ELSE IF calls[c].cancelled
       THEN Drop(c) /\ UNCHANGED <<calls, sessions, sessionsHost, inhibitors, responses>>
       ELSE /\ LET free == SessionPath(c) \notin DOMAIN sessions IN
               /\ IF withSession /\ free THEN RegisterSession(c)
                  ELSE UNCHANGED <<sessions, sessionsHost>>
               /\ calls' = [calls EXCEPT ![c].view = "answered",
                     ![c].sess = IF ~withSession THEN @ ELSE IF free THEN "told" ELSE "raw"]
            /\ Emit(c, c)
            /\ IF calls[c].kind = "Acquire" THEN UNCHANGED <<requests, requestsHost>> ELSE Drop(c)
            /\ UNCHANGED inhibitors
    /\ UNCHANGED <<gone, open, closing>>
\* host_portal_signal for Session.Closed; the signals of one object keep their order.
SessionClosed(c) ==
    /\ Runs /\ <<"closed", c>> \in wire /\ <<"session", c>> \notin wire /\ calls[c].stage = "done"
    /\ wire' = wire \ {<<"closed", c>>}
    /\ IF c \in sessionsHost
       THEN /\ calls' = [calls EXCEPT ![c].sess = "closed"]
            /\ sessions' = Without(sessions, {SessionPath(c)})
            /\ sessionsHost' = sessionsHost \ {c}
       ELSE UNCHANGED <<calls, sessions, sessionsHost>>
    /\ UNCHANGED <<portal, gone, requests, requestsHost, inhibitors, open, closing, responses>>

\* lifecycle_call, Close by the owner of a request or of a session; a second Close only
\* repeats the first.
RemovesOnClose(p, k) ==
    /\ Runs /\ p \in DOMAIN requests /\ p[1] \notin gone /\ calls[requests[p]].view # "closed"
    /\ calls' = [calls EXCEPT ![requests[p]].cancelled = TRUE, ![requests[p]].view = "closed"]
    /\ requests' = IF calls[requests[p]].kind = k THEN Without(requests, {p}) ELSE requests
    /\ closing' = closing \cup {Req(c) : c \in {requests[p]} \cap requestsHost}
    /\ UNCHANGED <<portal, gone, requestsHost, sessions, sessionsHost, inhibitors, open, wire,
                   responses>>
RemovesBrokerRequest(p) == RemovesOnClose(p, "Broker")
RemovesChooserRequest(p) == RemovesOnClose(p, "Chooser")
CloseRequest(p) ==
    /\ Runs /\ p \in DOMAIN requests /\ p[1] \notin gone /\ calls[requests[p]].view # "closed"
    /\ LET c == requests[p] IN
       /\ calls' = [calls EXCEPT ![c].cancelled = TRUE, ![c].view = "closed"]
       /\ IF calls[c].kind \in Local THEN UNCHANGED closing ELSE CloseHostObject(Req(c))
    /\ UNCHANGED <<portal, gone, tables, open, wire, responses>>
CloseSession(p) ==
    /\ Runs /\ p \in DOMAIN sessions /\ p[1] \notin gone /\ calls[sessions[p]].sess # "closed"
    /\ calls' = [calls EXCEPT ![sessions[p]].sess = "closed"]
    /\ CloseHostObject(Ses(sessions[p]))
    /\ UNCHANGED <<portal, gone, tables, open, wire, responses>>

\* guest_name_changed: an owner left the guest bus; other names are not in the tables.
NoCookies(a) == {}
Cookies(a) == {c \in inhibitors : calls[c].app = a}
GuestNameChanged(a) ==
    LET mine(f) == {p \in DOMAIN f : p[1] = a} IN
    /\ Runs /\ a \notin gone /\ \E c \in Numbers : calls[c].app = a
    /\ gone' = gone \cup {a}
    /\ closing' = closing
          \cup {Req(requests[p]) : p \in {q \in mine(requests) : requests[q] \in requestsHost}}
          \cup {Ses(sessions[p]) : p \in mine(sessions)}
          \cup {Inh(c) : c \in Cookies(a)}
    /\ requestsHost' = requestsHost \ {requests[p] : p \in mine(requests)}
    /\ requests' = Without(requests, mine(requests))
    /\ sessionsHost' = sessionsHost \ {sessions[p] : p \in mine(sessions)}
    /\ sessions' = Without(sessions, mine(sessions))
    /\ inhibitors' = inhibitors \ Cookies(a)
    /\ calls' = [c \in Numbers |->
                   [calls[c] EXCEPT !.late = @ \/ (calls[c].app = a /\ InFlight(c))]]
    /\ UNCHANGED <<portal, open, wire, responses>>

\* screen_saver_vanished, then screen_saver_appeared: the service restarts.  Its replies
\* come before the news on the same connection; in between, calls to it are refused and
\* there is nothing to release, so the two are one step.
ScreenSaverRestarted ==
    /\ Runs
    /\ \A c \in Numbers : calls[c].kind \in Screen => calls[c].stage # "replied"
    /\ inhibitors' = {}
    /\ calls' = [c \in Numbers |->
                   IF calls[c].kind \in Screen /\ calls[c].stage = "sent"
                   THEN [calls[c] EXCEPT !.stage = "done", !.view = "refused"] ELSE calls[c]]
    /\ open' = {h \in open : h[1] # "inhibit"}
    /\ closing' = {h \in closing : h[1] # "inhibit"}
    /\ UNCHANGED <<portal, gone, requests, requestsHost, sessions, sessionsHost, wire, responses>>

\* host_closed, host_portal_vanished, name_lost: main leaves its loop and frees the
\* tables; the host drops what belongs to the closed connection.
Quit ==
    /\ Runs
    /\ portal' = "quit"
    /\ requests' = <<>> /\ requestsHost' = {} /\ sessions' = <<>> /\ sessionsHost' = {}
    /\ inhibitors' = {} /\ open' = {} /\ closing' = {} /\ wire' = {}
    /\ gone' = {} /\ calls' = <<>>
    /\ UNCHANGED responses

Next ==
    \/ \E a \in Apps : \/ \E k \in Forwarded, t, s \in Tokens \cup {None} : ForwardCall(a, k, t, s)
                       \/ \E t \in Tokens : FinishCall(a, t)
                       \/ \E t \in Tokens : ChooserCall(a, t) \/ BrokerCall(a, t)
                       \/ InhibitCall(a)
                       \/ \E c \in inhibitors : UnInhibitCall(a, c)
                       \/ GuestNameChanged(a)
    \/ \E c \in Numbers : \/ HostReplies(c) \/ HostEndsSession(c)
                          \/ \E w \in BOOLEAN : HostResponds(c, w) \/ Response(c, w)
                          \/ CallFailed(c) \/ ForwardedRequest(c) \/ ForwardedSession(c)
                          \/ ForwardedFinish(c) \/ ChooserDone(c) \/ BrokerDone(c)
                          \/ ScreenCallDone(c) \/ SessionClosed(c)
    \/ \E h \in closing, r \in BOOLEAN : HostHandlesClose(h, r)
    \/ \E p \in DOMAIN requests : CloseRequest(p)
    \/ \E p \in DOMAIN sessions : CloseSession(p)
    \/ ScreenSaverRestarted \/ Quit

Spec == Init /\ [][Next]_vars

(***************************************************************************)
(* Properties.                                                             *)
(***************************************************************************)
CallType ==
    [kind : Forwarded \cup Local \cup Screen, app : Apps, tok : Tokens \cup {None},
     stok : Tokens \cup {None}, stage : {"sent", "replied", "done"},
     view : {"waiting", "granted", "answered", "closed", "refused"},
     of : (1..MaxCalls) \cup {None}, sess : {"none", "told", "raw", "closed"},
     said : BOOLEAN, cancelled : BOOLEAN, late : BOOLEAN]
\* Every table and signal is about a call that was made.
TypeOK ==
    /\ portal \in {"runs", "quit", "undefined"} /\ gone \subseteq Apps
    /\ calls \in Seq(CallType) /\ Len(calls) <= MaxCalls
    /\ open \cup closing \subseteq {"request", "session", "inhibit"} \X Numbers
    /\ wire \subseteq {"response", "session", "closed"} \X Numbers
    /\ DOMAIN requests \cup DOMAIN sessions \subseteq Apps \X Tokens
    /\ Range(requests) \cup Range(sessions) \subseteq Numbers
    /\ requestsHost \cup sessionsHost \cup inhibitors \subseteq Numbers
    /\ \A c \in 1..MaxCalls : Range(responses[c]) \subseteq 1..MaxCalls

\* requests_host and sessions_host own nothing: while its owner is there, each entry
\* points to the object that the guest table still holds under that object's own path, so
\* neither a signal nor a Close reaches a freed Request or Session through them
\* (register_request, host_portal_signal, forward_done, guest_name_changed).
TablesAgree ==
    LET here(S) == {c \in S : calls[c].app \notin gone} IN
    /\ \A p \in DOMAIN requests : Path(requests[p]) = p
    /\ \A p \in DOMAIN sessions : SessionPath(sessions[p]) = p
    /\ here(requestsHost) = {c \in here(Live) : calls[c].kind \notin Local}
    /\ sessionsHost = Range(sessions)

\* An application hears at most one Response on a request, and it is the outcome of the
\* call that returned the request, although broker_request_done and its siblings find the
\* request by its path, which the application may have used before.
AnswersMatch ==
    \A c \in Numbers : responses[c] \in {<<>>, <<c>>}

\* After the router accepted Close on a request, no Response arrives on it, whatever was
\* already in transit (Request.cancelled in lifecycle_call).
ClosedIsSilent ==
    [][\A c \in Numbers : calls[c].view = "closed" => responses'[c] = responses[c]]_vars

\* Freed memory is used only after its owner left, and only through the two pointers that
\* survive a Request: the one ChooserCall keeps, which guest_name_changed frees, and the
\* requests_host entry of a request registered late on a path that a broker's answer,
\* still looked up by that path, then removes from requests_guest alone.
FreedOnlyByOwnerLoss ==
    portal = "undefined" =>
        \E c \in Numbers \ Live : /\ calls[c].app \in gone
                                 /\ \/ calls[c].kind = "Chooser" /\ calls[c].stage = "sent"
                                    \/ c \in requestsHost /\ calls[c].late

Registered(h) == CASE h[1] = "request" -> h[2] \in Live
                   [] h[1] = "session" -> h[2] \in sessionsHost
                   [] OTHER -> h[2] \in inhibitors
\* What the router opened at the host stays within its reach: it is in a table, or an
\* event about it is in flight, or it is being closed.  The exceptions are what was in
\* flight when its owner left, and sessions: of a request that its owner's Close or loss
\* ended before the Response was handled, and those whose guest path was still registered,
\* which map_response and the results branch of forward_done leave open.
HostObjectsReachable ==
    portal = "runs" => \A h \in open \ closing :
        LET call == calls[h[2]] IN
        \/ Registered(h) \/ InFlight(h[2]) \/ call.late
        \/ /\ h[1] = "session"
           /\ \/ call.view \in {"closed", "refused"} \/ call.sess = "raw"
              \/ call.view = "granted" /\ call.app \in gone

\* The tables hold nothing of an owner that left, except what was still in flight then.
OwnerLossPurges ==
    \A c \in Live \cup sessionsHost \cup inhibitors : calls[c].app \in gone => calls[c].late

\* tests/methodology.md, on requests and sessions: "disconnecting the owner must close
\* the associated host resources".
OwnerLossCloses ==
    \A h \in open : calls[h[2]].app \in gone /\ ~InFlight(h[2]) => h \in closing

=============================================================================
