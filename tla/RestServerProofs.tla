-------------------------- MODULE RestServerProofs ---------------------------
(***************************************************************************)
(* Proofs about RestServer, for any services, requests and configurations. *)
(*                                                                         *)
(* What a request may hold is said per request, by how far it is in the    *)
(* chain (Recorded), since other requests cannot touch it.  What the owner *)
(* and the goroutine of StartHTTP do is in ServerInv: serving is up from   *)
(* before the first request until Serve has returned, Serve returns        *)
(* ErrServerClosed only after Shutdown, and nothing is accepted behind it. *)
(***************************************************************************)
EXTENDS RestServer, TLAPS

(* Nothing has been answered, logged or counted.                           *)
Fresh(q) ==
    /\ q.sent = NoStatus /\ q.captured = OK /\ ~q.late /\ ~q.panicked
    /\ q.logged = NoStatus /\ q.counted = NoStatus

(* The captured status sc is the one the client gets.                      *)
Faithful(q, sc) == q.late \/ q.sent = sc \/ (q.sent = NoStatus /\ sc = OK)

(* A request by its place in the chain: what is captured, logged, counted. *)
Recorded(q) ==
    /\ q.pc \in {"none", "lock", "start", "identify"} => Fresh(q) /\ ~q.known
    /\ q.pc \in {"authz", "ready", "services"} => Fresh(q) /\ q.known
    /\ q.pc \in {"handle", "log"} =>
         /\ q.known /\ ~q.panicked /\ q.logged = NoStatus /\ q.counted = NoStatus
         /\ Faithful(q, q.captured)
    /\ q.pc \in {"release", "unlock"} /\ q.known =>
         IF q.panicked THEN q.logged = NoStatus /\ q.counted = NoStatus
         ELSE q.logged = q.counted /\ q.logged # NoStatus /\ Faithful(q, q.logged)
    /\ q.pc = "done" /\ q.known =>
         IF q.panicked THEN q.logged = NoStatus /\ q.counted = NoStatus
         ELSE q.logged = q.counted /\ q.logged # NoStatus /\ (q.late \/ q.logged = q.sent)

(* A 503 of the readiness check has its reason.                            *)
Excused(q) ==
    q.sent = Unavailable => q.refused \/ inShutdown \/ loop \in {"panic", "crashed"}

(* The owner and the goroutine of StartHTTP.                               *)
ServerInv ==
    /\ phase = "new" => loop = "none"
    /\ loop \in {"listen", "accept", "closed", "failed"} => serving
    /\ loop \in {"closed", "ended"} => inShutdown
    /\ loop \in {"none", "events", "serve", "listen"} => \A r \in Requests : req[r].pc = "none"
    /\ phase \in {"draining", "stopped"} => inShutdown /\ services = closed

RequestInv == \A r \in Requests : Recorded(req[r])

IInv == TypeOK /\ ServerInv /\ RequestInv /\ StoppedIsDrained /\ UnavailableForAReason

(* requestProfiler unlocks the lock it holds and stops the CPU profile it  *)
(* has started, never another's.                                           *)
ProfileOwned ==
    \A r \in Requests :
        /\ req[r].pc \in {"start", "unlock"} \/ req[r].prof => profileLock = r
        /\ req[r].prof /\ req[r].pc # "unlock" => cpuProfile = r
        /\ req[r].pc \in {"none", "lock", "start", "done"} => ~req[r].prof

-----------------------------------------------------------------------------
(* A request before it is sent.                                            *)
LEMMA NewRequestOK == NewRequest \in Request /\ Recorded(NewRequest) /\ NewRequest.pc = "none"
                      /\ NewRequest.sent # Unavailable /\ NewRequest.prof = FALSE
<1>1. NewRequest \in Request
  BY DEF NewRequest, Request, NewResponseCapture, Statuses, NoStatus, OK
<1> QED
  BY <1>1 DEF NewRequest, Recorded, Fresh, NewResponseCapture, NoStatus, Unavailable

(* A server that was not started.                                          *)
LEMMA IInvInit == Init => IInv /\ ProfileOwned
<1> SUFFICES ASSUME Init PROVE IInv /\ ProfileOwned
  OBVIOUS
<1>1. \A r \in Requests : req[r] = NewRequest
  BY DEF Init
<1>2. TypeOK
  BY NewRequestOK DEF Init, TypeOK
<1>3. ServerInv /\ RequestInv
  BY <1>1, NewRequestOK DEF Init, ServerInv, RequestInv
<1>4. StoppedIsDrained /\ UnavailableForAReason
  BY <1>1, NewRequestOK DEF Init, StoppedIsDrained, UnavailableForAReason
<1>5. ProfileOwned
  BY <1>1, NewRequestOK DEF ProfileOwned
<1> QED
  BY <1>2, <1>3, <1>4, <1>5 DEF IInv

(* A status set on a request that has none sent is the one sent.           *)
LEMMA WriteHeaderOK ==
    ASSUME NEW q \in Request, NEW sc \in Statuses
    PROVE  /\ WriteHeader(q, sc) \in Request
           /\ WriteHeader(q, sc).captured = sc
           /\ WriteHeader(q, sc).sent = IF q.sent = NoStatus THEN sc ELSE q.sent
           /\ WriteHeader(q, sc).late = (q.late \/ q.sent # NoStatus)
           /\ WriteHeader(q, sc).pc = q.pc /\ WriteHeader(q, sc).known = q.known
           /\ WriteHeader(q, sc).prof = q.prof /\ WriteHeader(q, sc).refused = q.refused
           /\ WriteHeader(q, sc).panicked = q.panicked
           /\ WriteHeader(q, sc).logged = q.logged /\ WriteHeader(q, sc).counted = q.counted
  BY DEF WriteHeader, Request

(* A request is turned away with a status, from inside the captures.       *)
LEMMA RejectOK ==
    ASSUME NEW q \in Request, Fresh(q), q.known, NEW sc \in Statuses,
           NEW p, p = [WriteHeader(q, sc) EXCEPT !.pc = "log", !.asked = {}]
    PROVE  p \in Request /\ Recorded(p) /\ p.sent = sc
<1> DEFINE w == WriteHeader(q, sc)
<1>1. /\ w \in Request /\ w.captured = sc /\ w.sent = sc /\ ~w.late /\ w.known
      /\ ~w.panicked /\ w.logged = NoStatus /\ w.counted = NoStatus
  BY WriteHeaderOK DEF Fresh
<1> HIDE DEF w
<1>2. p = [w EXCEPT !.pc = "log", !.asked = {}]
  BY DEF w
<1>3. p \in Request
  BY <1>1, <1>2 DEF Request
<1>4. /\ p.pc = "log" /\ p.captured = sc /\ p.sent = sc /\ p.known
      /\ ~p.panicked /\ p.logged = NoStatus /\ p.counted = NoStatus
  BY <1>1, <1>2 DEF Request
<1> QED
  BY <1>3, <1>4 DEF Recorded, Faithful

(* One step of a request: it ends up in a state it may be in, and a 503    *)
(* has its reason.                                                         *)
LEMMA RequestMoves ==
    ASSUME IInv, NEW r \in Requests,
           \/ Accept(r) \/ Chain(r)
           \/ HandlerWrites(r) \/ HandlerReturns(r) \/ HandlerPanics(r)
    PROVE  \E q \in Request :
               req' = [req EXCEPT ![r] = q] /\ Recorded(q) /\ Excused(q)
<1> DEFINE Moved == \E q \in Request :
                        req' = [req EXCEPT ![r] = q] /\ Recorded(q) /\ Excused(q)
           o == req[r]
<1>0. /\ req \in [Requests -> Request] /\ o \in Request /\ Recorded(o) /\ Excused(o)
      /\ services \subseteq Services
  BY DEF IInv, TypeOK, RequestInv, UnavailableForAReason, Excused
<1>a. /\ OK \in Statuses /\ Unauthorized \in Statuses /\ NotFound \in Statuses
      /\ Unexpected \in Statuses /\ Unavailable \in Statuses /\ NoStatus \notin Statuses
      /\ Unavailable \notin {OK, Unauthorized, NotFound, Unexpected, NoStatus}
  BY DEF OK, Unauthorized, NotFound, Unexpected, Unavailable, NoStatus, Statuses
<1>b. ASSUME NEW sc \in Statuses, Reject(r, sc), Fresh(o), o.known,
             sc = Unavailable => inShutdown \/ loop \in {"panic", "crashed"}
      PROVE  Moved
  <2> DEFINE p == [WriteHeader(o, sc) EXCEPT !.pc = "log", !.asked = {}]
  <2>1. p \in Request /\ Recorded(p) /\ p.sent = sc
    BY <1>0, <1>b, RejectOK
  <2>2. req' = [req EXCEPT ![r] = p]
    BY <1>b DEF Reject
  <2> HIDE DEF p
  <2> QED
    BY <1>b, <2>1, <2>2 DEF Excused
<1>1. CASE Accept(r)
  <2>1. PICK pc \in {"identify", "lock"} : req' = [req EXCEPT ![r].pc = pc]
    BY <1>1 DEF Accept, Goto
  <2> DEFINE p == [o EXCEPT !.pc = pc]
  <2>2. p \in Request /\ req' = [req EXCEPT ![r] = p]
    BY <1>0, <2>1 DEF Request
  <2>3. Recorded(p) /\ Excused(p)
    BY <1>0, <1>1 DEF Accept, At, Recorded, Fresh, Excused, Request
  <2> QED
    BY <2>2, <2>3
<1>2. CASE LockProfile(r)
  <2> DEFINE p == [o EXCEPT !.pc = "start"]
  <2>1. p \in Request /\ req' = [req EXCEPT ![r] = p]
    BY <1>0, <1>2 DEF Request, LockProfile, Goto
  <2>2. Recorded(p) /\ Excused(p)
    BY <1>0, <1>2 DEF LockProfile, At, Recorded, Fresh, Excused, Request
  <2> QED
    BY <2>1, <2>2
<1>3. CASE StartCPUProfile(r)
  <2>1. PICK b \in BOOLEAN : req' = [req EXCEPT ![r] = [o EXCEPT !.pc = "identify", !.prof = b]]
    <3>1. CASE cpuProfile = None
      BY <1>0, <1>3, <3>1 DEF StartCPUProfile, Request
    <3>2. CASE cpuProfile # None
      <4>1. req' = [req EXCEPT ![r] = [o EXCEPT !.pc = "identify"]]
        BY <1>3, <3>2 DEF StartCPUProfile, Goto
      <4>2. [o EXCEPT !.pc = "identify"] = [o EXCEPT !.pc = "identify", !.prof = o.prof]
        BY <1>0 DEF Request
      <4>3. o.prof \in BOOLEAN
        BY <1>0 DEF Request
      <4> QED
        BY <4>1, <4>2, <4>3
    <3> QED
      BY <3>1, <3>2
  <2> DEFINE p == [o EXCEPT !.pc = "identify", !.prof = b]
  <2>2. p \in Request
    BY <1>0 DEF Request
  <2>3. Recorded(p) /\ Excused(p)
    BY <1>0, <1>3 DEF StartCPUProfile, At, Recorded, Fresh, Excused, Request
  <2> QED
    BY <2>1, <2>2, <2>3
<1>4. CASE Identify(r)
  <2>1. CASE \E pc \in {"authz", "ready"} :
                req' = [req EXCEPT ![r] = [o EXCEPT !.known = TRUE, !.pc = pc]]
    <3>1. PICK pc \in {"authz", "ready"} :
              req' = [req EXCEPT ![r] = [o EXCEPT !.known = TRUE, !.pc = pc]]
      BY <2>1
    <3> DEFINE p == [o EXCEPT !.known = TRUE, !.pc = pc]
    <3>2. p \in Request
      BY <1>0 DEF Request
    <3>3. Recorded(p) /\ Excused(p)
      BY <1>0, <1>4 DEF Identify, At, Recorded, Fresh, Excused, Request
    <3> QED
      BY <3>1, <3>2, <3>3
  <2>2. CASE req' = [req EXCEPT ![r] = [o EXCEPT !.sent = Unauthorized, !.pc = "release"]]
    <3> DEFINE p == [o EXCEPT !.sent = Unauthorized, !.pc = "release"]
    <3>1. p \in Request
      BY <1>0, <1>a DEF Request
    <3>2. Recorded(p) /\ Excused(p)
      BY <1>0, <1>4, <1>a DEF Identify, At, Recorded, Fresh, Excused, Request
    <3> QED
      BY <2>2, <3>1, <3>2
  <2> QED
    BY <1>4, <2>1, <2>2 DEF Identify
<1>5. CASE Authorize(r)
  <2>1. CASE Goto(r, "ready")
    <3> DEFINE p == [o EXCEPT !.pc = "ready"]
    <3>1. p \in Request /\ req' = [req EXCEPT ![r] = p]
      BY <1>0, <2>1 DEF Request, Goto
    <3>2. Recorded(p) /\ Excused(p)
      BY <1>0, <1>5 DEF Authorize, At, Recorded, Fresh, Excused, Request
    <3> QED
      BY <3>1, <3>2
  <2>2. CASE Reject(r, Unauthorized)
    BY <1>0, <1>5, <1>a, <1>b, <2>2 DEF Authorize, At, Recorded
  <2> QED
    BY <1>5, <2>1, <2>2 DEF Authorize
<1>6. CASE CheckServing(r)
  <2>1. CASE serving
    <3> DEFINE p == [o EXCEPT !.pc = "services"]
    <3>1. p \in Request /\ req' = [req EXCEPT ![r] = p]
      BY <1>0, <1>6, <2>1 DEF CheckServing, Request, Goto
    <3>2. Recorded(p) /\ Excused(p)
      BY <1>0, <1>6 DEF CheckServing, At, Recorded, Fresh, Excused, Request
    <3> QED
      BY <3>1, <3>2
  <2>2. CASE ~serving
    <3>1. o.pc = "ready" /\ Reject(r, Unavailable)
      BY <1>6, <2>2 DEF CheckServing, At
    <3>2. inShutdown \/ loop \in {"panic", "crashed"}
      BY <2>2, <3>1 DEF IInv, ServerInv, TypeOK
    <3> QED
      BY <1>0, <1>a, <1>b, <3>1, <3>2 DEF Recorded
  <2> QED
    BY <2>1, <2>2
<1>7. CASE AskService(r)
  <2>0. Fresh(o) /\ o.known
    BY <1>0, <1>7 DEF AskService, At, Recorded
  <2>1. PICK s \in services \ o.asked :
            IF ready[s]
              THEN req' = [req EXCEPT ![r].asked = @ \cup {s}]
              ELSE req' = [req EXCEPT ![r] = [WriteHeader(@, Unavailable) EXCEPT
                                         !.pc = "log", !.asked = {}, !.refused = TRUE]]
    BY <1>7 DEF AskService
  <2>2. CASE ready[s]
    <3> DEFINE p == [o EXCEPT !.asked = @ \cup {s}]
    <3>1. req' = [req EXCEPT ![r] = p]
      BY <2>1, <2>2
    <3>2. p \in Request
      <4>1. o.asked \cup {s} \in SUBSET Services
        BY <1>0, <2>1 DEF Request
      <4> QED
        BY <1>0, <4>1 DEF Request
    <3>3. Recorded(p) /\ Excused(p)
      BY <1>0, <1>7 DEF AskService, At, Recorded, Fresh, Excused, Request
    <3> QED
      BY <3>1, <3>2, <3>3
  <2>3. CASE ~ready[s]
    <3> DEFINE w == [WriteHeader(o, Unavailable) EXCEPT !.pc = "log", !.asked = {}]
               p == [w EXCEPT !.refused = TRUE]
    <3>1. req' = [req EXCEPT ![r] = p]
      BY <2>1, <2>3
    <3>2. w \in Request /\ Recorded(w) /\ w.sent = Unavailable
      BY <1>0, <1>a, <2>0, RejectOK
    <3> HIDE DEF w
    <3>3. p \in Request
      BY <3>2 DEF Request
    <3>4. Recorded(p) /\ Excused(p)
      BY <3>2 DEF Recorded, Fresh, Faithful, Excused, Request
    <3> QED
      BY <3>1, <3>3, <3>4
  <2> QED
    BY <2>2, <2>3
<1>8. CASE Route(r)
  <2>0. Fresh(o) /\ o.known
    BY <1>0, <1>8 DEF Route, At, Recorded
  <2>1. CASE Reject(r, NotFound)
    BY <1>a, <1>b, <2>0, <2>1
  <2>2. CASE req' = [req EXCEPT ![r] = [o EXCEPT !.pc = "handle", !.asked = {}]]
    <3> DEFINE p == [o EXCEPT !.pc = "handle", !.asked = {}]
    <3>1. p \in Request
      BY <1>0 DEF Request
    <3>2. Recorded(p) /\ Excused(p)
      BY <1>0, <2>0 DEF Recorded, Fresh, Faithful, Excused, Request
    <3> QED
      BY <2>2, <3>1, <3>2
  <2> QED
    BY <1>8, <2>1, <2>2 DEF Route
<1>9. CASE HandlerWrites(r)
  <2>0. /\ o.pc = "handle" /\ o.known /\ ~o.panicked
        /\ o.logged = NoStatus /\ o.counted = NoStatus /\ Faithful(o, o.captured)
    BY <1>0, <1>9 DEF HandlerWrites, At, Recorded
  <2>1. CASE req' = [req EXCEPT ![r] = WriteHeader(o, Unexpected)]
    <3> DEFINE p == WriteHeader(o, Unexpected)
    <3>1. p \in Request
      BY <1>0, <1>a, WriteHeaderOK
    <3>2. /\ p.captured = Unexpected /\ p.pc = "handle" /\ p.known /\ ~p.panicked
          /\ p.logged = NoStatus /\ p.counted = NoStatus /\ p.refused = o.refused
          /\ p.sent = IF o.sent = NoStatus THEN Unexpected ELSE o.sent
          /\ p.late = (o.late \/ o.sent # NoStatus)
      BY ZenonT(30), <1>0, <1>a, <2>0, WriteHeaderOK
    <3> HIDE DEF p
    <3>3. Recorded(p) /\ Excused(p)
      BY <1>0, <1>a, <3>2 DEF Recorded, Faithful, Excused
    <3> QED
      BY <2>1, <3>1, <3>3 DEF p
  <2>2. CASE req' = [req EXCEPT ![r].sent = IF @ = NoStatus THEN OK ELSE @]
    <3> DEFINE st == IF o.sent = NoStatus THEN OK ELSE o.sent
               p == [o EXCEPT !.sent = st]
    <3>1. req' = [req EXCEPT ![r] = p]
      BY <2>2
    <3>2. p \in Request
      BY <1>0, <1>a DEF Request
    <3>3. /\ p.captured = o.captured /\ p.pc = "handle" /\ p.known /\ ~p.panicked
          /\ p.logged = NoStatus /\ p.counted = NoStatus /\ p.refused = o.refused
          /\ p.sent = st /\ p.late = o.late
      BY <1>0, <2>0 DEF Request
    <3> HIDE DEF p
    <3>a. Faithful(p, p.captured)
      <4>0. o.captured # NoStatus
        BY <1>0, <1>a DEF Request
      <4>1. CASE o.sent = NoStatus
        BY <2>0, <3>3, <4>0, <4>1 DEF Faithful
      <4>2. CASE o.sent # NoStatus
        BY <2>0, <3>3, <4>2 DEF Faithful
      <4> QED
        BY <4>1, <4>2
    <3>4. Recorded(p) /\ Excused(p)
      BY <1>0, <1>a, <3>3, <3>a DEF Recorded, Excused
    <3> QED
      BY <3>1, <3>2, <3>4
  <2> QED
    BY <1>9, <2>1, <2>2 DEF HandlerWrites
<1>10. CASE HandlerReturns(r)
  <2> DEFINE p == [o EXCEPT !.pc = "log"]
  <2>1. p \in Request /\ req' = [req EXCEPT ![r] = p]
    BY <1>0, <1>10 DEF Request, HandlerReturns, Goto
  <2>2. Recorded(p) /\ Excused(p)
    BY <1>0, <1>10 DEF HandlerReturns, At, Recorded, Faithful, Excused, Request
  <2> QED
    BY <2>1, <2>2
<1>11. CASE HandlerPanics(r)
  <2> DEFINE p == [o EXCEPT !.pc = "release", !.panicked = TRUE, !.sent = NoStatus,
                            !.captured = NewResponseCapture, !.late = FALSE]
  <2>1. req' = [req EXCEPT ![r] = p]
    BY <1>11 DEF HandlerPanics
  <2>2. p \in Request
    BY <1>0, <1>a DEF Request, NewResponseCapture
  <2>3. /\ p.pc = "release" /\ p.panicked /\ p.sent = NoStatus
        /\ p.logged = NoStatus /\ p.counted = NoStatus
    BY <1>0, <1>11 DEF HandlerPanics, At, Recorded, Request
  <2> HIDE DEF p
  <2>4. Recorded(p) /\ Excused(p)
    BY <1>a, <2>3 DEF Recorded, Excused
  <2> QED
    BY <2>1, <2>2, <2>4
<1>12. CASE Record(r)
  <2> DEFINE p == [Counted(Logged(o)) EXCEPT !.pc = "release"]
  <2>1. req' = [req EXCEPT ![r] = p]
    BY <1>12 DEF Record
  <2>2. p \in Request
    BY <1>0 DEF Counted, Logged, Request
  <2>3. /\ p.pc = "release" /\ p.logged = o.captured /\ p.counted = o.captured
        /\ p.sent = o.sent /\ p.late = o.late /\ p.refused = o.refused
        /\ p.panicked = o.panicked /\ o.captured \in Statuses
    BY <1>0 DEF Counted, Logged, Request
  <2> HIDE DEF p
  <2>4. Recorded(p) /\ Excused(p)
    BY <1>0, <1>12, <1>a, <2>3 DEF Record, At, Recorded, Faithful, Excused
  <2> QED
    BY <2>1, <2>2, <2>4
<1>13. CASE StopCPUProfile(r) \/ UnlockProfile(r)
  <2>0. o.pc \in {"release", "unlock"}
    BY <1>13 DEF StopCPUProfile, UnlockProfile, At
  <2>1. CASE req' = [req EXCEPT ![r].pc = "unlock"]
    <3> DEFINE p == [o EXCEPT !.pc = "unlock"]
    <3>1. p \in Request /\ req' = [req EXCEPT ![r] = p]
      BY <1>0, <2>1 DEF Request
    <3>2. Recorded(p) /\ Excused(p)
      BY <1>0, <2>0 DEF Recorded, Faithful, Excused, Request
    <3> QED
      BY <3>1, <3>2
  <2>2. CASE req' = [req EXCEPT ![r] = Finish(o)]
    <3> DEFINE st == IF o.sent = NoStatus /\ ~o.panicked THEN OK ELSE o.sent
               p == Finish(o)
    <3>1. p \in Request
      BY ZenonT(30), <1>0, <1>a DEF Finish, Request, NewResponseCapture
    <3>2. /\ p.pc = "done" /\ p.known = o.known /\ p.panicked = o.panicked /\ p.late = o.late
          /\ p.logged = o.logged /\ p.counted = o.counted /\ p.refused = o.refused
          /\ p.sent = st
      BY <1>0 DEF Finish, Request
    <3> HIDE DEF p
    <3>3. Recorded(p) /\ Excused(p)
      BY <1>0, <1>a, <2>0, <3>2 DEF Recorded, Faithful, Excused
    <3> QED
      BY <2>2, <3>1, <3>3 DEF p
  <2> QED
    BY <1>13, <2>1, <2>2 DEF StopCPUProfile, UnlockProfile, Goto
<1> QED
  BY <1>1, <1>2, <1>3, <1>4, <1>5, <1>6, <1>7, <1>8, <1>9, <1>10, <1>11, <1>12, <1>13 DEF Chain

(* A request step preserves the invariant.                                 *)
LEMMA RequestStep ==
    ASSUME IInv, NEW r \in Requests,
           \/ Accept(r) \/ Chain(r)
           \/ HandlerWrites(r) \/ HandlerReturns(r) \/ HandlerPanics(r)
    PROVE  IInv'
<1>1. PICK q \in Request : req' = [req EXCEPT ![r] = q] /\ Recorded(q) /\ Excused(q)
  BY RequestMoves
<1>2. /\ UNCHANGED <<config, services, ready, closed, phase, timedOut, loop, serving,
                     listener, inShutdown>>
      /\ profileLock' \in {profileLock, r, None} /\ cpuProfile' \in {cpuProfile, r, None}
  BY DEF Accept, Chain, LockProfile, StartCPUProfile, Identify, Authorize, CheckServing, AskService,
         Route, Record, StopCPUProfile, UnlockProfile, HandlerWrites, HandlerReturns, HandlerPanics,
         requestUnchanged, setupVars, ownerVars, netVars, profVars
<1>3. /\ req' \in [Requests -> Request] /\ req'[r] = q
      /\ \A x \in Requests \ {r} : req'[x] = req[x]
  BY <1>1 DEF IInv, TypeOK
<1>4. (loop = "accept" /\ ~inShutdown) \/ req[r].pc \notin {"none", "done"}
  BY DEF Accept, Chain, LockProfile, StartCPUProfile, Identify, Authorize, CheckServing, AskService,
         Route, Record, StopCPUProfile, UnlockProfile, HandlerWrites, HandlerReturns, HandlerPanics, At
<1>5. TypeOK'
  BY <1>2, <1>3 DEF IInv, TypeOK
<1>6. ServerInv'
  <2>1. loop \notin {"none", "events", "serve", "listen"}
    BY <1>4 DEF IInv, ServerInv
  <2> QED
    BY <1>2, <2>1 DEF IInv, ServerInv
<1>7. RequestInv'
  BY <1>1, <1>3 DEF IInv, RequestInv, Recorded, Fresh, Faithful
<1>8. StoppedIsDrained'
  <2>1. phase = "stopped" => timedOut
    <3>1. phase = "stopped" => inShutdown
      BY DEF IInv, ServerInv
    <3>2. req[r].pc \notin {"none", "done"} => Active # {}
      BY DEF Active
    <3> QED
      BY <1>4, <3>1, <3>2 DEF IInv, StoppedIsDrained
  <2> QED
    BY <1>2, <2>1 DEF IInv, StoppedIsDrained
<1>9. UnavailableForAReason'
  BY <1>1, <1>2, <1>3 DEF IInv, UnavailableForAReason, Excused
<1> QED
  BY <1>5, <1>6, <1>7, <1>8, <1>9 DEF IInv

(* A step of the owner, the goroutine of StartHTTP or the application.     *)
LEMMA ServerStep ==
    ASSUME IInv,
           \/ StartHTTP \/ StartFails \/ StopHTTP \/ Stopping
           \/ Serve \/ AcceptError \/ AppProfile
           \/ \E s \in Services : AddService(s) \/ ReadyChanges(s)
    PROVE  IInv'
<1> USE DEF IInv, setupVars, ownerVars, netVars, profVars, requestUnchanged
<1>1. req' = req /\ profileLock' = profileLock
  BY DEF StartHTTP, StartFails, StopHTTP, Stopping, CloseService, Shutdown, Drained, DrainTimeout,
         Serve, FireStarted, SetServing, Listen, ServeReturned, Panicf, AcceptError, AppProfile,
         AddService, ReadyChanges
<1>2. RequestInv'
  BY <1>1 DEF RequestInv, Recorded, Fresh, Faithful
<1>3. CASE StartHTTP \/ StartFails \/ StopHTTP
  <2>1. TypeOK'
    BY <1>1, <1>3 DEF TypeOK, StartHTTP, StartFails, StopHTTP
  <2>2. ServerInv' /\ StoppedIsDrained'
    BY <1>1, <1>3 DEF StartHTTP, StartFails, StopHTTP, ServerInv, StoppedIsDrained
  <2>3. UnavailableForAReason'
    BY <1>1, <1>3 DEF StartHTTP, StartFails, StopHTTP, ServerInv, UnavailableForAReason
  <2> QED
    BY <1>2, <2>1, <2>2, <2>3
<1>4. CASE Stopping
  <2>1. TypeOK'
    <3>1. ASSUME NEW s \in Services, CloseService(s) PROVE TypeOK'
      BY <1>1, <3>1 DEF TypeOK, CloseService
    <3>2. CASE Shutdown
      BY <1>1, <3>2 DEF TypeOK, Shutdown
    <3>3. CASE Drained
      BY <1>1, <3>3 DEF TypeOK, Drained
    <3>4. CASE DrainTimeout
      BY <1>1, <3>4 DEF TypeOK, DrainTimeout
    <3> QED
      BY <1>4, <3>1, <3>2, <3>3, <3>4 DEF Stopping
  <2>2. ServerInv'
    BY <1>1, <1>4 DEF TypeOK, ServerInv, Stopping, CloseService, Shutdown, Drained, DrainTimeout
  <2>3. StoppedIsDrained'
    BY <1>1, <1>4 DEF ServerInv, StoppedIsDrained, Stopping, CloseService, Shutdown, Drained,
                      DrainTimeout, Active
  <2>4. UnavailableForAReason'
    BY <1>1, <1>4 DEF UnavailableForAReason, Stopping, CloseService, Shutdown, Drained, DrainTimeout
  <2> QED
    BY <1>2, <2>1, <2>2, <2>3, <2>4
<1>5. CASE Serve \/ AcceptError
  <2>1. TypeOK'
    BY ZenonT(30), <1>1, <1>5 DEF TypeOK, Serve, FireStarted, SetServing, Listen, ServeReturned, Panicf, AcceptError
  <2>2. ServerInv'
    BY <1>1, <1>5 DEF TypeOK, ServerInv, Serve, FireStarted, SetServing, Listen, ServeReturned, Panicf,
                      AcceptError
  <2>3. StoppedIsDrained'
    BY <1>1, <1>5 DEF StoppedIsDrained, Active, Serve, FireStarted, SetServing, Listen, ServeReturned,
                      Panicf, AcceptError
  <2>4. UnavailableForAReason'
    BY <1>1, <1>5 DEF UnavailableForAReason, Serve, FireStarted, SetServing, Listen, ServeReturned,
                      Panicf, AcceptError
  <2> QED
    BY <1>2, <2>1, <2>2, <2>3, <2>4
<1>6. CASE AppProfile \/ \E s \in Services : AddService(s) \/ ReadyChanges(s)
  <2>1. TypeOK'
    <3>1. CASE AppProfile \/ \E s \in Services : AddService(s)
      BY <1>1, <3>1 DEF TypeOK, AppProfile, AddService
    <3>2. ASSUME NEW s \in Services, ReadyChanges(s) PROVE TypeOK'
      <4>1. ready' \in [Services -> BOOLEAN]
        BY <3>2 DEF ReadyChanges, TypeOK
      <4> QED
        BY <3>2, <4>1 DEF ReadyChanges, TypeOK
    <3> QED
      BY <1>6, <3>1, <3>2
  <2>2. ServerInv' /\ StoppedIsDrained' /\ UnavailableForAReason'
    BY <1>1, <1>6 DEF ServerInv, StoppedIsDrained, UnavailableForAReason, Active, AppProfile,
                      AddService, ReadyChanges
  <2> QED
    BY <1>2, <2>1, <2>2
<1> QED
  BY <1>3, <1>4, <1>5, <1>6

(* Any step.                                                               *)
LEMMA IInvStep == IInv /\ [Next]_vars => IInv'
<1> SUFFICES ASSUME IInv, [Next]_vars
             PROVE  IInv'
  OBVIOUS
<1>1. CASE UNCHANGED vars
  BY <1>1 DEF vars, setupVars, ownerVars, netVars, profVars, IInv, TypeOK, ServerInv, RequestInv,
              StoppedIsDrained, UnavailableForAReason, Active, Recorded, Fresh, Faithful
<1>2. CASE Next
  BY <1>2, RequestStep, ServerStep DEF Next
<1> QED
  BY <1>1, <1>2

-----------------------------------------------------------------------------
(* The profiler's lock is taken, used and given back by one request.       *)
LEMMA ProfileStep == IInv /\ ProfileOwned /\ [Next]_vars => ProfileOwned'
<1> SUFFICES ASSUME IInv, ProfileOwned, [Next]_vars
             PROVE  ProfileOwned'
  OBVIOUS
<1> USE DEF setupVars, ownerVars, netVars, profVars, requestUnchanged
<1>0. req \in [Requests -> Request] /\ \A r \in Requests : req[r] \in Request
  BY DEF IInv, TypeOK
<1>1. ASSUME NEW r \in Requests, UNCHANGED profVars,
             \A x \in Requests \ {r} : req'[x] = req[x],
             req'[r].prof = req[r].prof,
             req[r].pc # "unlock",
             req'[r].pc \notin {"none", "lock", "start", "unlock", "done"}
      PROVE  ProfileOwned'
  BY <1>1 DEF ProfileOwned
<1>2. ASSUME NEW r \in Requests, Accept(r) PROVE ProfileOwned'
  BY <1>0, <1>2 DEF Accept, At, Goto, ProfileOwned, Request
<1>3. ASSUME NEW r \in Requests, LockProfile(r) PROVE ProfileOwned'
  BY <1>0, <1>3, NameAssumption DEF LockProfile, At, Goto, ProfileOwned, Request
<1>4. ASSUME NEW r \in Requests, StartCPUProfile(r) PROVE ProfileOwned'
  BY <1>0, <1>4, NameAssumption DEF StartCPUProfile, At, Goto, ProfileOwned, Request
<1>a. ASSUME NEW r \in Requests, NEW sc \in Statuses, Reject(r, sc)
      PROVE  /\ \A x \in Requests \ {r} : req'[x] = req[x]
             /\ req'[r].prof = req[r].prof /\ req'[r].pc = "log"
  <2> DEFINE w == WriteHeader(req[r], sc)
  <2>1. w \in Request /\ w.prof = req[r].prof
    BY <1>0, WriteHeaderOK
  <2> HIDE DEF w
  <2>2. req' = [req EXCEPT ![r] = [w EXCEPT !.pc = "log", !.asked = {}]]
    BY <1>a DEF Reject, w
  <2> QED
    BY <1>0, <2>1, <2>2 DEF Request
<1>b. Unauthorized \in Statuses /\ NotFound \in Statuses /\ Unavailable \in Statuses
      /\ Unexpected \in Statuses
  BY DEF Statuses
<1>5. ASSUME NEW r \in Requests, Identify(r) \/ Authorize(r) \/ CheckServing(r) \/ Route(r)
      PROVE ProfileOwned'
  <2>1. CASE Reject(r, Unauthorized) \/ Reject(r, NotFound) \/ Reject(r, Unavailable)
    <3>1. /\ \A x \in Requests \ {r} : req'[x] = req[x]
          /\ req'[r].prof = req[r].prof /\ req'[r].pc = "log"
      BY <1>a, <1>b, <2>1
    <3>2. req[r].pc # "unlock" /\ UNCHANGED profVars
      BY <1>5 DEF Identify, Authorize, CheckServing, Route, At
    <3> QED
      BY <1>1, <3>1, <3>2
  <2>2. CASE ~(Reject(r, Unauthorized) \/ Reject(r, NotFound) \/ Reject(r, Unavailable))
    <3>1. /\ \A x \in Requests \ {r} : req'[x] = req[x]
          /\ req'[r].prof = req[r].prof
          /\ req'[r].pc \in {"authz", "ready", "release", "services", "handle"}
      BY <1>0, <1>5, <2>2 DEF Identify, Authorize, CheckServing, Route, Goto, Request
    <3>2. req[r].pc # "unlock" /\ UNCHANGED profVars
      BY <1>5 DEF Identify, Authorize, CheckServing, Route, At
    <3> QED
      BY <1>1, <3>1, <3>2
  <2> QED
    BY <2>1, <2>2
<1>6. ASSUME NEW r \in Requests, AskService(r) \/ Record(r) PROVE ProfileOwned'
  <2> DEFINE w == WriteHeader(req[r], Unavailable)
  <2>1. w \in Request /\ w.prof = req[r].prof
    BY <1>0, <1>b, WriteHeaderOK
  <2>2. CASE req' = [req EXCEPT ![r] = [w EXCEPT !.pc = "log", !.asked = {}, !.refused = TRUE]]
    <3> HIDE DEF w
    <3> QED
      BY <1>0, <1>1, <1>6, <2>1, <2>2 DEF AskService, Record, At, Request
  <2>3. CASE \E s \in services : req' = [req EXCEPT ![r].asked = @ \cup {s}]
    BY <1>0, <1>1, <1>6, <2>3 DEF AskService, Record, At, Request
  <2>4. CASE Record(r)
    BY <1>0, <1>1, <2>4 DEF Record, Counted, Logged, At, Request
  <2> QED
    BY <1>6, <2>2, <2>3, <2>4 DEF AskService
<1>7. ASSUME NEW r \in Requests, HandlerWrites(r) \/ HandlerReturns(r) \/ HandlerPanics(r)
      PROVE ProfileOwned'
  <2> DEFINE w == WriteHeader(req[r], Unexpected)
  <2>1. w \in Request /\ w.prof = req[r].prof /\ w.pc = req[r].pc
    BY <1>0, <1>b, WriteHeaderOK
  <2>2. CASE req' = [req EXCEPT ![r] = w]
    <3> HIDE DEF w
    <3> QED
      BY <1>0, <1>1, <1>7, <2>1, <2>2 DEF HandlerWrites, HandlerReturns, HandlerPanics, At
  <2>3. CASE req' # [req EXCEPT ![r] = w]
    <3>1. /\ \A x \in Requests \ {r} : req'[x] = req[x]
          /\ req'[r].prof = req[r].prof /\ req'[r].pc \in {"handle", "log", "release"}
      BY <1>0, <1>7, <2>3 DEF HandlerWrites, HandlerReturns, HandlerPanics, At, Goto, Request
    <3>2. req[r].pc # "unlock" /\ UNCHANGED profVars
      BY <1>7 DEF HandlerWrites, HandlerReturns, HandlerPanics, At
    <3> QED
      BY <1>1, <3>1, <3>2
  <2> QED
    BY <2>2, <2>3
<1>8. ASSUME NEW r \in Requests, StopCPUProfile(r) PROVE ProfileOwned'
  <2>1. CASE req[r].prof
    <3>1. /\ \A x \in Requests \ {r} : req'[x] = req[x]
          /\ req'[r].prof = req[r].prof /\ req'[r].pc = "unlock" /\ req[r].pc = "release"
          /\ profileLock' = profileLock
      BY ZenonT(30), <1>0, <1>8, <2>1 DEF StopCPUProfile, At, Goto, Request
    <3>2. \A x \in Requests \ {r} : ~req[x].prof
      BY <2>1 DEF ProfileOwned
    <3> QED
      BY <2>1, <3>1, <3>2 DEF ProfileOwned
  <2>2. CASE ~req[r].prof
    <3>1. /\ \A x \in Requests \ {r} : req'[x] = req[x]
          /\ ~req'[r].prof /\ req'[r].pc = "done"
          /\ UNCHANGED profVars
      <4>1. req' = [req EXCEPT ![r] = Finish(req[r])] /\ UNCHANGED profVars
        BY <1>8, <2>2 DEF StopCPUProfile
      <4>2. Finish(req[r]).pc = "done" /\ Finish(req[r]).prof = FALSE
        BY <1>0 DEF Finish, Request
      <4> QED
        BY <1>0, <4>1, <4>2
    <3> QED
      BY <3>1 DEF ProfileOwned
  <2> QED
    BY <2>1, <2>2
<1>9. ASSUME NEW r \in Requests, UnlockProfile(r) PROVE ProfileOwned'
  BY <1>0, <1>9, NameAssumption DEF UnlockProfile, Finish, At, Goto, ProfileOwned, Request
<1>10. CASE AppProfile
  BY <1>10, NameAssumption DEF AppProfile, ProfileOwned
<1>11. ASSUME UNCHANGED <<req, profVars>> PROVE ProfileOwned'
  BY <1>11 DEF ProfileOwned
<1>12. CASE \/ StartHTTP \/ StartFails \/ StopHTTP \/ Stopping \/ Serve \/ AcceptError
            \/ \E s \in Services : AddService(s) \/ ReadyChanges(s)
  BY <1>11, <1>12 DEF StartHTTP, StartFails, StopHTTP, Stopping, CloseService, Shutdown, Drained,
         DrainTimeout, Serve, FireStarted, SetServing, Listen, ServeReturned, Panicf, AcceptError,
         AddService, ReadyChanges
<1>13. CASE UNCHANGED vars
  BY <1>11, <1>13 DEF vars
<1> QED
  BY <1>2, <1>3, <1>4, <1>5, <1>6, <1>7, <1>8, <1>9, <1>10, <1>12, <1>13 DEF Next, Chain

-----------------------------------------------------------------------------
(* The fairness of Spec is not needed for safety.                          *)
LEMMA Inductive == Spec => []IInv
  BY IInvInit, IInvStep, PTL DEF Spec

(* The server's state, and every request on its way, keep their types.     *)
THEOREM TypeCorrect == Spec => []TypeOK
<1>1. IInv => TypeOK
  BY DEF IInv
<1> QED
  BY <1>1, Inductive, PTL

(* Once StopHTTP has returned no request is in progress and none will be,  *)
(* unless the drain timed out; every service has been closed.              *)
THEOREM DrainedOnStop == Spec => []StoppedIsDrained
<1>1. IInv => StoppedIsDrained
  BY DEF IInv
<1> QED
  BY <1>1, Inductive, PTL

(* The readiness check turns a request away only for a service that is not *)
(* ready or a server that is going down, never because it is early.        *)
THEOREM ReasonFor503 == Spec => []UnavailableForAReason
<1>1. IInv => UnavailableForAReason
  BY DEF IInv
<1> QED
  BY <1>1, Inductive, PTL

(* Whatever handler of the chain answers a request of a known caller, the  *)
(* log and the metrics have the status the client got, unless the service  *)
(* set it after it had sent one; after a panic they have none.             *)
THEOREM StatusIsRecorded == Spec => []StatusRecorded
<1>1. IInv => StatusRecorded
  BY DEF IInv, RequestInv, Recorded, StatusRecorded
<1> QED
  BY <1>1, Inductive, PTL

(* The deferred function of requestProfiler releases what its own request  *)
(* holds: profiles of requests never overlap, and that of the application  *)
(* is left alone.                                                          *)
THEOREM ProfilesDoNotOverlap == Spec => []ProfileOwned
  BY IInvInit, IInvStep, ProfileStep, PTL DEF Spec
=============================================================================
