----------------------------- MODULE RestServer ------------------------------
(***************************************************************************)
(* HTTPServer (rest/server.go): AddService, StartHTTP with the goroutine   *)
(* that serves, StopHTTP, and the chain of handlers NewMux and StartHTTP   *)
(* put around a service: the request profiler, the identity of the caller, *)
(* the request metrics, the request log, authorization, the readiness      *)
(* check, the router.                                                      *)
(*                                                                         *)
(* net/http is external: a handler's panic ends its request only, the      *)
(* first status written is the one sent, Shutdown closes the listener the  *)
(* server serves on and waits for the requests in progress, and Serve      *)
(* returns ErrServerClosed once Shutdown was called.  The decision of      *)
(* authorization is module Authz; the heartbeat task that StartHTTP gives  *)
(* to the scheduler and that StopHTTP leaves there is a task of module     *)
(* TaskScheduler.  Heap profiles, which take no lock, headers, bodies,     *)
(* audit messages and log text are left out.                               *)
(***************************************************************************)
EXTENDS Naturals

CONSTANTS
    Services,  \* names of the services an application may add
    Requests,  \* requests of clients, each is sent at most once
    Configs,   \* [tls, profiling, authz]: how the server is configured
    None,      \* nobody holds the lock, no CPU profile is taken
    App        \* a CPU profile the application takes by itself

ASSUME NameAssumption == None \notin Requests \cup {App} /\ App \notin Requests
ASSUME ConfigAssumption == Configs \subseteq [tls : BOOLEAN, profiling : BOOLEAN, authz : BOOLEAN]

VARIABLES
    config,      \* the configuration
    services,    \* server.services
    ready,       \* what IsReady of each service answers
    closed,      \* services StopHTTP has closed
    phase,       \* where the owner is: StartHTTP, StopHTTP
    timedOut,    \* Shutdown gave up waiting
    loop,        \* where the goroutine of StartHTTP is
    serving,     \* server.serving
    listener,    \* the listening socket
    inShutdown,  \* http.Server.inShutdown
    req,         \* every request on its way through the chain
    profileLock, \* who holds requestProfiler.profileLock
    cpuProfile   \* whose CPU profile the runtime takes

setupVars == <<config, services>>
ownerVars == <<closed, phase, timedOut>>
netVars == <<listener, inShutdown>>
profVars == <<profileLock, cpuProfile>>
vars == <<setupVars, ready, ownerVars, loop, serving, netVars, req, profVars>>

OK == 200
Unauthorized == 401
NotFound == 404
Unexpected == 500
Unavailable == 503
NoStatus == 0
Statuses == {OK, Unauthorized, NotFound, Unexpected, Unavailable}

(* The status a ResponseCapture holds before the handler sets one.         *)
NewResponseCapture_Zero == NoStatus
NewResponseCapture == OK

(* A request: prof is a profile being taken, known that its caller was     *)
(* identified, asked the services IsReady has asked, sent what the client  *)
(* got, captured what both ResponseCaptures hold, late a status set when   *)
(* one was sent already, refused a service not ready.                      *)
NewRequest ==
    [pc |-> "none", prof |-> FALSE, known |-> FALSE, asked |-> {},
     sent |-> NoStatus, captured |-> NewResponseCapture, late |-> FALSE,
     refused |-> FALSE, panicked |-> FALSE, logged |-> NoStatus, counted |-> NoStatus]

(* Requests in progress, whose connections net/http counts as active.      *)
Active == {r \in Requests : req[r].pc \notin {"none", "done"}}

Init ==
    /\ config \in Configs
    /\ services = {}
    /\ ready \in [Services -> BOOLEAN]
    /\ closed = {}
    /\ phase = "new"
    /\ timedOut = FALSE
    /\ loop = "none"
    /\ serving = FALSE
    /\ listener = "none"
    /\ inShutdown = FALSE
    /\ req = [r \in Requests |-> NewRequest]
    /\ profileLock = None
    /\ cpuProfile \in IF config.profiling THEN {None, App} ELSE {None}

-----------------------------------------------------------------------------
(* The owner of the server.                                                *)

(* AddService, which an application calls before it starts the server: the *)
(* map is read without the lock from then on.                              *)
AddService(s) ==
    /\ phase = "new"
    /\ s \notin services
    /\ services' = services \cup {s}
    /\ UNCHANGED <<config, ready, ownerVars, loop, serving, netVars, req, profVars>>

(* StartHTTP: with TLS the listener is opened here, and the chain is built *)
(* before the goroutine starts.                                            *)
StartHTTP ==
    /\ phase = "new"
    /\ config.tls => listener = "none"
    /\ listener' = IF config.tls THEN "open" ELSE listener
    /\ phase' = "started"
    /\ loop' = "events"
    /\ UNCHANGED <<setupVars, ready, closed, timedOut, serving, inShutdown, req, profVars>>

(* StartHTTP returns an error, because the directory of the profiler       *)
(* cannot be made; the TLS listener stays open.  A caller may try again.   *)
StartFails ==
    /\ phase = "new"
    /\ config.profiling
    /\ config.tls => listener = "none"
    /\ listener' = IF config.tls THEN "open" ELSE listener
    /\ UNCHANGED <<setupVars, ready, ownerVars, loop, serving, inShutdown, req, profVars>>

(* StopHTTP closes the services one after the other, in map order.         *)
StopHTTP ==
    /\ phase = "started"
    /\ phase' = "closing"
    /\ UNCHANGED <<setupVars, ready, closed, timedOut, loop, serving, netVars, req, profVars>>

CloseService(s) ==
    /\ phase = "closing"
    /\ s \in services \ closed
    /\ closed' = closed \cup {s}
    /\ UNCHANGED <<setupVars, ready, phase, timedOut, loop, serving, netVars, req, profVars>>

Shutdown_Early ==
    /\ phase = "closing"
    /\ inShutdown' = TRUE
    /\ listener' = IF loop = "accept" THEN "closed" ELSE listener
    /\ phase' = "draining"
    /\ UNCHANGED <<setupVars, ready, closed, timedOut, loop, serving, req, profVars>>

(* http.Server.Shutdown is called: it closes the listener Serve is using   *)
(* and the idle connections, and then polls.                               *)
Shutdown ==
    /\ phase = "closing"
    /\ services \subseteq closed
    /\ inShutdown' = TRUE
    /\ listener' = IF loop = "accept" THEN "closed" ELSE listener
    /\ phase' = "draining"
    /\ UNCHANGED <<setupVars, ready, closed, timedOut, loop, serving, req, profVars>>

(* Shutdown returns; StopHTTP calls the handlers of ServerStoppedEvent     *)
(* and audits.                                                             *)
Drained ==
    /\ phase = "draining"
    /\ Active = {}
    /\ phase' = "stopped"
    /\ UNCHANGED <<setupVars, ready, closed, timedOut, loop, serving, netVars, req, profVars>>

(* The context of shutdownTimeout expires: Shutdown returns its error,     *)
(* which is logged, and StopHTTP ends as above.  The requests in progress  *)
(* go on.                                                                  *)
DrainTimeout ==
    /\ phase = "draining"
    /\ phase' = "stopped"
    /\ timedOut' = TRUE
    /\ UNCHANGED <<setupVars, ready, closed, loop, serving, netVars, req, profVars>>

-----------------------------------------------------------------------------
(* The goroutine of StartHTTP.                                             *)

FireStarted ==
    /\ loop = "events"
    /\ loop' = "serve"
    /\ UNCHANGED <<setupVars, ready, ownerVars, serving, netVars, req, profVars>>

SetServing_Forgotten ==
    /\ loop = "serve"
    /\ loop' = "listen"
    /\ UNCHANGED <<setupVars, ready, ownerVars, serving, netVars, req, profVars>>

SetServing ==
    /\ loop = "serve"
    /\ serving' = TRUE
    /\ loop' = "listen"
    /\ UNCHANGED <<setupVars, ready, ownerVars, netVars, req, profVars>>

(* Serve or ListenAndServe begins: after Shutdown it returns at once, and  *)
(* Serve closes the listener it was given; without TLS the address may be  *)
(* in use.                                                                 *)
Listen ==
    /\ loop = "listen"
    /\ \/ /\ inShutdown
          /\ loop' = "closed"
          /\ listener' = "closed"
       \/ /\ ~inShutdown
          /\ loop' = "accept"
          /\ listener' = "open"
       \/ /\ ~inShutdown /\ ~config.tls
          /\ loop' = "failed"
          /\ UNCHANGED listener
    /\ UNCHANGED <<setupVars, ready, ownerVars, serving, inShutdown, req, profVars>>

(* Accept returns an error: because of Shutdown, or another one.           *)
AcceptError ==
    /\ loop = "accept"
    /\ loop' = IF inShutdown THEN "closed" ELSE "failed"
    /\ listener' = "closed"
    /\ UNCHANGED <<setupVars, ready, ownerVars, serving, inShutdown, req, profVars>>

(* serve has returned its error: nobody is served any more.                *)
ServeReturned ==
    /\ loop \in {"closed", "failed"}
    /\ serving' = FALSE
    /\ loop' = IF loop = "failed" THEN "panic" ELSE "ended"
    /\ UNCHANGED <<setupVars, ready, ownerVars, netVars, req, profVars>>

(* logger.Panicf in a goroutine without recover ends the process.          *)
Panicf ==
    /\ loop = "panic"
    /\ loop' = "crashed"
    /\ UNCHANGED <<setupVars, ready, ownerVars, serving, netVars, req, profVars>>

-----------------------------------------------------------------------------
(* The chain of handlers around a service.                                 *)

requestUnchanged == <<setupVars, ready, ownerVars, loop, serving, netVars>>

At(r, pc) == req[r].pc = pc
Goto(r, pc) == req' = [req EXCEPT ![r].pc = pc]

(* WriteHeader of ResponseCapture hands the status on; net/http sends the  *)
(* first one.                                                              *)
WriteHeader(q, sc) ==
    [q EXCEPT !.captured = sc,
              !.sent = IF @ = NoStatus THEN sc ELSE @,
              !.late = @ \/ q.sent # NoStatus]

(* marshal.WriteJSON of an httperror, from inside the captures.            *)
Reject(r, sc) == req' = [req EXCEPT ![r] = [WriteHeader(@, sc) EXCEPT !.pc = "log", !.asked = {}]]

(* A connection is accepted and its request is read.  requestProfiler      *)
(* takes one with ?profile.cpu to the lock when it could make its file.    *)
Accept(r) ==
    /\ At(r, "none")
    /\ loop = "accept" /\ ~inShutdown
    /\ Goto(r, "identify") \/ (config.profiling /\ Goto(r, "lock"))
    /\ UNCHANGED <<requestUnchanged, profVars>>

(* requestProfiler.ServeHTTP, before the delegate: profiles before this    *)
(* one are waited for.                                                     *)
LockProfile(r) ==
    /\ At(r, "lock")
    /\ profileLock = None
    /\ profileLock' = r
    /\ Goto(r, "start")
    /\ UNCHANGED <<requestUnchanged, cpuProfile>>

StartCPUProfile_KeepsLock(r) ==
    /\ At(r, "start")
    /\ IF cpuProfile = None
         THEN /\ cpuProfile' = r
              /\ req' = [req EXCEPT ![r].pc = "identify", ![r].prof = TRUE]
         ELSE /\ Goto(r, "identify")
              /\ UNCHANGED cpuProfile
    /\ UNCHANGED <<requestUnchanged, profileLock>>

(* pprof.StartCPUProfile, which fails when a profile is being taken.       *)
StartCPUProfile(r) ==
    /\ At(r, "start")
    /\ IF cpuProfile = None
         THEN /\ cpuProfile' = r
              /\ req' = [req EXCEPT ![r].pc = "identify", ![r].prof = TRUE]
              /\ UNCHANGED profileLock
         ELSE /\ Goto(r, "identify")
              /\ profileLock' = None
              /\ UNCHANGED cpuProfile
    /\ UNCHANGED requestUnchanged

(* NewContextHandler: a caller the mapper refuses is answered outside the  *)
(* metrics and the log.                                                    *)
Identify(r) ==
    /\ At(r, "identify")
    /\ \/ req' = [req EXCEPT ![r].known = TRUE,
                             ![r].pc = IF config.authz THEN "authz" ELSE "ready"]
       \/ req' = [req EXCEPT ![r].sent = Unauthorized, ![r].pc = "release"]
    /\ UNCHANGED <<requestUnchanged, profVars>>

(* authHandler.ServeHTTP.                                                  *)
Authorize(r) ==
    /\ At(r, "authz")
    /\ Goto(r, "ready") \/ Reject(r, Unauthorized)
    /\ UNCHANGED <<requestUnchanged, profVars>>

(* ServiceReadyVerifier asks IsReady, which reads serving and then asks    *)
(* the services one after the other.                                       *)
CheckServing(r) ==
    /\ At(r, "ready")
    /\ IF serving THEN Goto(r, "services") ELSE Reject(r, Unavailable)
    /\ UNCHANGED <<requestUnchanged, profVars>>

AskService(r) ==
    /\ At(r, "services")
    /\ \E s \in services \ req[r].asked :
         IF ready[s]
           THEN req' = [req EXCEPT ![r].asked = @ \cup {s}]
           ELSE req' = [req EXCEPT ![r] = [WriteHeader(@, Unavailable) EXCEPT
                                      !.pc = "log", !.asked = {}, !.refused = TRUE]]
    /\ UNCHANGED <<requestUnchanged, profVars>>

(* The router finds the handler of a service, or notFoundHandler.          *)
Route(r) ==
    /\ At(r, "services")
    /\ services \subseteq req[r].asked
    /\ \/ services # {} /\ req' = [req EXCEPT ![r].pc = "handle", ![r].asked = {}]
       \/ Reject(r, NotFound)
    /\ UNCHANGED <<requestUnchanged, profVars>>

(* A service's handler sets a status of its own, writes, returns or        *)
(* panics, which cuts the connection: the client gets no whole answer.     *)
HandlerWrites(r) ==
    /\ At(r, "handle")
    /\ \/ req' = [req EXCEPT ![r] = WriteHeader(@, Unexpected)]
       \/ req' = [req EXCEPT ![r].sent = IF @ = NoStatus THEN OK ELSE @]
    /\ UNCHANGED <<requestUnchanged, profVars>>

HandlerReturns(r) ==
    /\ At(r, "handle")
    /\ Goto(r, "log")
    /\ UNCHANGED <<requestUnchanged, profVars>>

HandlerPanics(r) ==
    /\ At(r, "handle")
    /\ req' = [req EXCEPT ![r].pc = "release", ![r].panicked = TRUE, ![r].sent = NoStatus,
                          ![r].captured = NewResponseCapture, ![r].late = FALSE]
    /\ UNCHANGED <<requestUnchanged, profVars>>

(* RequestLogger.ServeHTTP and, around it, requestMetrics.ServeHTTP after  *)
(* their delegates have returned.                                          *)
Logged(q) == [q EXCEPT !.logged = q.captured]
Counted(q) == [q EXCEPT !.counted = q.captured]

Record(r) ==
    /\ At(r, "log")
    /\ req' = [req EXCEPT ![r] = [Counted(Logged(@)) EXCEPT !.pc = "release"]]
    /\ UNCHANGED <<requestUnchanged, profVars>>

(* net/http ends the response, with status 200 when none was set; the      *)
(* captures of the request are garbage.                                    *)
Finish(q) ==
    [q EXCEPT !.pc = "done", !.prof = FALSE, !.captured = NewResponseCapture,
              !.sent = IF @ = NoStatus /\ ~q.panicked THEN OK ELSE @]

(* The deferred function of requestProfiler.ServeHTTP: StopCPUProfile,     *)
(* then Unlock.  It also runs when the handler panicked.                   *)
StopCPUProfile(r) ==
    /\ At(r, "release")
    /\ IF req[r].prof
         THEN Goto(r, "unlock") /\ cpuProfile' = None
         ELSE req' = [req EXCEPT ![r] = Finish(@)] /\ UNCHANGED cpuProfile
    /\ UNCHANGED <<requestUnchanged, profileLock>>

UnlockProfile(r) ==
    /\ At(r, "unlock")
    /\ profileLock' = None
    /\ req' = [req EXCEPT ![r] = Finish(@)]
    /\ UNCHANGED <<requestUnchanged, cpuProfile>>

-----------------------------------------------------------------------------
(* The application: services become ready or not, and a CPU profile of its *)
(* own comes to an end.                                                    *)
ReadyChanges(s) ==
    /\ s \in services
    /\ ready' = [ready EXCEPT ![s] = ~@]
    /\ UNCHANGED <<setupVars, ownerVars, loop, serving, netVars, req, profVars>>

AppProfile ==
    /\ cpuProfile = App
    /\ cpuProfile' = None
    /\ UNCHANGED <<requestUnchanged, req, profileLock>>

Stopping == (\E s \in Services : CloseService(s)) \/ Shutdown \/ Drained \/ DrainTimeout
Serve == FireStarted \/ SetServing \/ Listen \/ ServeReturned \/ Panicf
    \/ (inShutdown /\ AcceptError)

(* The steps of a request the chain takes by itself.                       *)
Chain(r) ==
    \/ LockProfile(r) \/ StartCPUProfile(r) \/ Identify(r) \/ Authorize(r)
    \/ CheckServing(r) \/ AskService(r) \/ Route(r) \/ Record(r)
    \/ StopCPUProfile(r) \/ UnlockProfile(r)

Next ==
    /\ loop # "crashed"
    /\ \/ StartHTTP \/ StartFails \/ StopHTTP \/ Stopping
       \/ Serve \/ AcceptError \/ AppProfile
       \/ \E s \in Services : AddService(s) \/ ReadyChanges(s)
       \/ \E r \in Requests : Accept(r) \/ Chain(r)
                              \/ HandlerWrites(r) \/ HandlerReturns(r) \/ HandlerPanics(r)

(* Goroutines that can go on are scheduled; handlers of services may hang, *)
(* nobody has to stop the server, and Accept fails only after Shutdown.    *)
Spec ==
    /\ Init /\ [][Next]_vars
    /\ WF_vars(loop # "crashed" /\ Stopping)
    /\ WF_vars(loop # "crashed" /\ Serve)
    /\ \A r \in Requests : WF_vars(loop # "crashed" /\ Chain(r))

-----------------------------------------------------------------------------
Request ==
    [pc : {"none", "lock", "start", "identify", "authz", "ready", "services",
           "handle", "log", "release", "unlock", "done"},
     prof : BOOLEAN, known : BOOLEAN, asked : SUBSET Services,
     sent : Statuses \cup {NoStatus}, captured : Statuses, late : BOOLEAN,
     refused : BOOLEAN, panicked : BOOLEAN,
     logged : Statuses \cup {NoStatus}, counted : Statuses \cup {NoStatus}]

(* Every variable has its type: StartHTTP, StopHTTP and the chain.         *)
TypeOK ==
    /\ config \in Configs
    /\ services \subseteq Services
    /\ ready \in [Services -> BOOLEAN]
    /\ closed \subseteq services
    /\ phase \in {"new", "started", "closing", "draining", "stopped"}
    /\ timedOut \in BOOLEAN /\ serving \in BOOLEAN /\ inShutdown \in BOOLEAN
    /\ loop \in {"none", "events", "serve", "listen", "accept", "closed", "failed", "panic",
                 "ended", "crashed"}
    /\ listener \in {"none", "open", "closed"}
    /\ req \in [Requests -> Request]
    /\ profileLock \in Requests \cup {None}
    /\ cpuProfile \in Requests \cup {None, App}

(* When StopHTTP has fired ServerStoppedEvent, every service of the server *)
(* is closed and no request is in progress, now or later, unless Shutdown  *)
(* gave up: no request starts behind the drain.                            *)
StoppedIsDrained ==
    phase = "stopped" =>
        /\ services = closed
        /\ timedOut \/ Active = {}

(* A request is answered 503 by the readiness check only when a service    *)
(* said it is not ready, or the server is going down: the goroutine of     *)
(* StartHTTP sets serving before it accepts the first request.             *)
UnavailableForAReason ==
    \A r \in Requests :
        req[r].sent = Unavailable =>
            req[r].refused \/ inShutdown \/ loop \in {"panic", "crashed"}

(* The status of every finished request of a known caller, whichever       *)
(* handler of the chain answered it, is logged and counted, and it is the  *)
(* one the client got, unless the service set it after it had sent one.    *)
(* A panic of the service is neither logged nor counted.                   *)
StatusRecorded ==
    \A r \in Requests :
        LET q == req[r] IN
        q.pc = "done" /\ q.known =>
            IF q.panicked
              THEN q.logged = NoStatus /\ q.counted = NoStatus
              ELSE /\ q.logged = q.counted
                   /\ q.logged # NoStatus
                   /\ q.late \/ q.logged = q.sent

(* StopHTTP returns, even when handlers hang and services are not ready:   *)
(* the wait for the requests in progress is bounded by shutdownTimeout.    *)
StopEnds == phase = "closing" ~> (phase = "stopped" \/ loop = "crashed")

(* After StopHTTP the server is down for good, though the goroutine of     *)
(* StartHTTP may only then come to set serving and call Serve: serving is  *)
(* false and the socket closed from some point on.                         *)
StaysDown ==
    phase = "stopped" ~> ([](~serving /\ listener # "open") \/ loop = "crashed")

(* profileLock is given back, unless its holder is in the handler of a     *)
(* service: a request that could not start its profile, was turned away or *)
(* panicked has released it for the next one.                              *)
LockReleased ==
    profileLock # None ~>
        \/ profileLock = None \/ loop = "crashed"
        \/ \E r \in Requests : profileLock = r /\ At(r, "handle")

(* Neither StopHTTP nor a profiled request is left waiting for requests    *)
(* that hang, fail or panic (server.go:443, request_profiler.go:117), and  *)
(* a server that was stopped ends up down (server.go:368).                 *)
ServerProgress == StopEnds /\ LockReleased /\ StaysDown
=============================================================================
