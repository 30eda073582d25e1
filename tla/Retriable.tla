------------------------------ MODULE Retriable ------------------------------
(***************************************************************************)
(* The HTTP client of xhttp/retriable: Request and Head try the hosts in   *)
(* order (executeRequest), each with the retries the policy allows (Do,    *)
(* ShouldRetry), and hand the last response to DecodeResponse.             *)
(*                                                                         *)
(* One call is followed from start to end; what the servers answer, and    *)
(* when the caller's context is cancelled or times out, is up to the       *)
(* environment.  An answer is a status code, ConnError (a network error    *)
(* that may be retried) or FatalError (one of nonRetriableErrors); CtxError*)
(* is what the HTTP client returns once the context is done, without       *)
(* sending anything.  The payload is a reader with a position.             *)
(***************************************************************************)
EXTENDS Naturals, Sequences, FiniteSets

CONSTANTS
    Hosts,            \* how many hosts are supplied
    Answers,          \* what servers may answer
    Retries,          \* Policy.Retries: the limit for each code, 0 for errors
    TotalRetryLimit   \* Policy.TotalRetryLimit

ASSUME HostsAssumption == Hosts \in Nat
ASSUME PolicyAssumption ==
    TotalRetryLimit \in Nat /\ \A c \in DOMAIN Retries : c \in Nat /\ Retries[c] \in Nat

(* Answers that are not status codes, as small numbers.                    *)
NoAnswer == 0
ConnError == 1
FatalError == 2
CtxError == 3
ReadError == 4   \* convertRequest could not read the payload
Errors == {ConnError, FatalError, CtxError, ReadError}

ASSUME AnswersAssumption ==
    \A a \in Answers : a \in Nat /\ (a >= 100 \/ a \in {ConnError, FatalError})

VARIABLES
    pc,         \* where the call is
    host,       \* the host it is at
    retries,    \* retries at this host
    answer,     \* the last answer, an error or a status code
    cancelled,  \* the context is done
    payload,    \* what the caller sends: nothing, bytes or a file, which can be closed
    reader,     \* the caller's payload: "start", "end" or "closed"
    copy,       \* convertRequest's copy of it: "full", "empty" or "none"
    copyPos,    \* position in the copy: "start" or "end"
    bodies,     \* responses received: their host and their body's state
    many,       \* hosts with an entry in the ManyError
    sent,       \* what was sent: host and payload
    late        \* history: attempts at this host after the context was done

vars == <<pc, host, retries, answer, cancelled, payload, reader, copy, copyPos,
          bodies, many, sent, late>>

Init ==
    /\ pc = "host"
    /\ host = 1
    /\ retries = 0
    /\ answer = NoAnswer
    /\ cancelled = FALSE
    /\ payload \in {"none", "bytes", "file"}
    /\ reader = "start"
    /\ copy = "none"
    /\ copyPos = "start"
    /\ bodies = <<>>
    /\ many = {}
    /\ sent = <<>>
    /\ late = 0

IsStatus(a) == a >= 100

(* The caller cancels, or the deadline passes.                             *)
Cancel ==
    /\ ~cancelled
    /\ pc # "returned"
    /\ cancelled' = TRUE
    /\ UNCHANGED <<payload, pc, host, retries, answer, reader, copy, copyPos, bodies, many, sent, late>>

-----------------------------------------------------------------------------
(* No host, or no host left: executeRequest returns the ManyError.         *)
NoMoreHosts ==
    /\ pc = "host"
    /\ host > Hosts
    /\ pc' = "returned"
    /\ UNCHANGED <<payload, host, retries, answer, cancelled, reader, copy, copyPos, bodies, many, sent, late>>

(* doHTTP and the start of Do: convertRequest reads the payload from where *)
(* the reader is and closes it; a file cannot be read twice.               *)
Convert ==
    /\ pc = "host"
    /\ host <= Hosts
    /\ retries' = 0 /\ late' = 0
    /\ IF payload # "none" /\ reader = "closed"
       THEN /\ answer' = ReadError
            /\ pc' = "host done"
            /\ UNCHANGED <<reader, copy>>
       ELSE /\ pc' = "attempt"
            /\ reader' = IF payload = "file" THEN "closed" ELSE "end"
            /\ copy' = IF payload = "none" THEN "none"
                       ELSE IF reader = "start" THEN "full" ELSE "empty"
            /\ UNCHANGED answer
    /\ copyPos' = "start"
    /\ UNCHANGED <<payload, host, cancelled, bodies, many, sent>>

(* One round of Do's loop: the copy is rewound, the request is sent and    *)
(* answered, unless the context is done while it waits for the answer.     *)
Rewound_FirstTryOnly == IF retries = 0 THEN "start" ELSE copyPos

Rewound == "start"

Attempt ==
    /\ pc = "attempt"
    /\ ~cancelled
    /\ \E a \in Answers \cup {CtxError} :
         /\ answer' = a
         /\ cancelled' = (a = CtxError)
         /\ bodies' = IF IsStatus(a) THEN Append(bodies, [host |-> host, body |-> "open"])
                      ELSE bodies
    /\ sent' = Append(sent, [host |-> host,
                             payload |-> IF copy = "none" THEN "none"
                                         ELSE IF Rewound = "start" THEN copy ELSE "empty"])
    /\ copyPos' = "end"
    /\ pc' = "decide"
    /\ UNCHANGED <<payload, host, retries, reader, copy, many, late>>

(* The HTTP client refuses to send when the context is done.               *)
AttemptCancelled ==
    /\ pc = "attempt"
    /\ cancelled
    /\ answer' = CtxError
    /\ late' = late + 1
    /\ pc' = "decide"
    /\ UNCHANGED <<payload, host, retries, cancelled, reader, copy, copyPos, bodies, many, sent>>

-----------------------------------------------------------------------------
(* shouldRetryFactory                                                      *)
WithinLimit(code) == code \in DOMAIN Retries /\ Retries[code] >= retries

(* Policy.ShouldRetry.  A status answer is not looked at for the context.  *)
ShouldRetry_IgnoreContext(a) ==
    IF a \in Errors
    THEN a # FatalError /\ WithinLimit(0)
    ELSE /\ a >= 400 /\ a # 404
         /\ a >= 500 \/ a = 429
         /\ TotalRetryLimit > retries
         /\ WithinLimit(a)

ShouldRetry(a) ==
    IF a \in Errors
    THEN ~cancelled /\ a # FatalError /\ WithinLimit(0)
    ELSE /\ a >= 400 /\ a # 404
         /\ a >= 500 \/ a = 429
         /\ TotalRetryLimit > retries
         /\ WithinLimit(a)

(* consumeResponseBody reads the rest of the body; it does not close it.   *)
Last == Len(bodies)

Retry ==
    /\ pc = "decide"
    /\ ShouldRetry(answer)
    /\ bodies' = IF IsStatus(answer) THEN [bodies EXCEPT ![Last].body = "drained"] ELSE bodies
    /\ retries' = retries + 1
    /\ pc' = "attempt"
    /\ UNCHANGED <<payload, host, answer, cancelled, reader, copy, copyPos, many, sent, late>>

GiveUp ==
    /\ pc = "decide"
    /\ ~ShouldRetry(answer)
    /\ pc' = "host done"
    /\ UNCHANGED <<payload, host, retries, answer, cancelled, reader, copy, copyPos, bodies, many, sent, late>>

-----------------------------------------------------------------------------
(* shouldTryDifferentHost                                                  *)
TryDifferentHost == answer \in Errors \cup {500, 503, 504, 429}

(* executeRequest, the host's answer is final.                             *)
Accept ==
    /\ pc = "host done"
    /\ ~TryDifferentHost
    /\ pc' = "decode"
    /\ UNCHANGED <<payload, host, retries, answer, cancelled, reader, copy, copyPos, bodies, many, sent, late>>

(* The failure is recorded; the response is closed unless it is the last   *)
(* host's; the reader is rewound (Seek fails on a closed file, unnoticed). *)
NextHost_CloseAlways ==
    /\ pc = "host done"
    /\ TryDifferentHost
    /\ many' = many \cup {host}
    /\ bodies' = IF IsStatus(answer) THEN [bodies EXCEPT ![Last].body = "closed"] ELSE bodies
    /\ reader' = IF reader = "closed" THEN "closed" ELSE "start"
    /\ IF IsStatus(answer) /\ host = Hosts
       THEN pc' = "decode" /\ UNCHANGED host
       ELSE pc' = "host" /\ host' = host + 1
    /\ UNCHANGED <<payload, retries, answer, cancelled, copy, copyPos, sent, late>>

NextHost ==
    /\ pc = "host done"
    /\ TryDifferentHost
    /\ many' = many \cup {host}
    /\ bodies' = IF IsStatus(answer) /\ host < Hosts
                 THEN [bodies EXCEPT ![Last].body = "closed"] ELSE bodies
    /\ reader' = IF reader = "closed" THEN "closed" ELSE "start"
    /\ IF IsStatus(answer) /\ host = Hosts
       THEN pc' = "decode" /\ UNCHANGED host
       ELSE pc' = "host" /\ host' = host + 1
    /\ UNCHANGED <<payload, retries, answer, cancelled, copy, copyPos, sent, late>>

(* Request reads the response in DecodeResponse, Head its headers; both    *)
(* close it and return.                                                    *)
Decode ==
    /\ pc = "decode"
    /\ bodies' = [bodies EXCEPT ![Last].body = "closed"]
    /\ pc' = "returned"
    /\ UNCHANGED <<payload, host, retries, answer, cancelled, reader, copy, copyPos, many, sent, late>>

Next ==
    \/ Cancel \/ NoMoreHosts \/ Convert \/ Attempt \/ AttemptCancelled
    \/ Retry \/ GiveUp \/ Accept \/ NextHost \/ Decode

Spec == Init /\ [][Next]_vars

-----------------------------------------------------------------------------
(* Type invariant of a call.                                               *)
TypeOK ==
    /\ pc \in {"host", "attempt", "decide", "host done", "decode", "returned"}
    /\ host \in 1..(Hosts + 1)
    /\ retries \in Nat
    /\ answer \in Answers \cup Errors \cup {NoAnswer}
    /\ cancelled \in BOOLEAN
    /\ payload \in {"none", "bytes", "file"}
    /\ reader \in {"start", "end", "closed"}
    /\ copy \in {"none", "full", "empty"}
    /\ copyPos \in {"start", "end"}
    /\ bodies \in Seq([host : 1..Hosts, body : {"open", "drained", "closed"}])
    /\ many \in SUBSET (1..Hosts)
    /\ sent \in Seq([host : 1..Hosts, payload : {"none", "full", "empty"}])
    /\ late \in Nat

(* Every attempt at every host carries the whole payload.                  *)
FullPayloadSent ==
    payload # "none" => \A i \in DOMAIN sent : sent[i].payload = "full"

(* The response handed to DecodeResponse has its body unread and open,     *)
(* after whatever retries and failed hosts went before.                    *)
DecodesOpenBody == pc = "decode" => bodies[Last] = [host |-> host, body |-> "open"]

(* When no response is returned the error has an entry for every host      *)
(* ("The supplied hosts are tried in order until one succeeds",            *)
(* retriable.go:336).                                                      *)
Failed == pc = "returned" /\ ~IsStatus(answer)

ErrorNamesEveryHost == Failed => many = 1..Hosts

(* No host is sent the request more often than the policy allows: the      *)
(* limits of the codes share one counter.                                  *)
Attempts(h) == Cardinality({i \in DOMAIN sent : sent[i].host = h})

LimitOf(code) == IF code \in DOMAIN Retries THEN Retries[code] + 1 ELSE 0

RetriesBounded ==
    \A h \in 1..Hosts : \/ Attempts(h) <= 1 + LimitOf(0)
                        \/ Attempts(h) <= 1 + TotalRetryLimit

(* Once the context is done the request is not retried at a host: at most  *)
(* one more attempt, which the HTTP client refuses.                        *)
NoRetryAfterCancel == late <= 1

(* What the caller gets accounts for all hosts: the one response that is   *)
(* decoded is open, and a failure names every host (retriable.go:442).     *)
OutcomeOfAllHosts == DecodesOpenBody /\ ErrorNamesEveryHost

(* Retries stop: at the limits of the policy, and when the context is done *)
(* (retriable.go:524, 661).                                                *)
RetriesEnd == RetriesBounded /\ NoRetryAfterCancel
=============================================================================
