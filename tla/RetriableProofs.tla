--------------------------- MODULE RetriableProofs ---------------------------
(***************************************************************************)
(* Proofs about Retriable, for any number of hosts, any policy and any     *)
(* answers of the servers.                                                 *)
(*                                                                         *)
(* The call is sequential but for Cancel, so each part of the invariant    *)
(* says what the place in the code tells about the state left by earlier   *)
(* hosts and earlier rounds of Do's loop: where the reader stands, whose   *)
(* body is last, which hosts have failed, and how the attempts that were   *)
(* sent relate to the counter of retries.                                  *)
(***************************************************************************)
EXTENDS Retriable, FiniteSetTheorems, SequenceTheorems, TLAPS

(* convertRequest finds the reader at its start, or closed.                *)
PayloadInv ==
    /\ FullPayloadSent
    /\ pc = "host" => reader # "end"
    /\ payload # "none" /\ pc \in {"attempt", "decide"} => copy = "full"

(* An answer that is a status is that of the last body, which is untouched *)
(* until the answer has been judged.                                       *)
BodyInv ==
    /\ pc \in {"decide", "host done", "decode"} => answer # NoAnswer /\ host <= Hosts
    /\ pc \in {"decide", "host done", "decode"} /\ IsStatus(answer)
         => Last > 0 /\ bodies[Last] = [host |-> host, body |-> "open"]
    /\ pc = "decode" => IsStatus(answer)

(* The hosts before this one have failed, and no other.                    *)
ManyInv ==
    /\ pc \in {"host", "attempt", "decide", "host done"} => many = 1..(host - 1)
    /\ pc = "attempt" => host <= Hosts
    /\ ErrorNamesEveryHost

(* A counter of retries the policy allows.                                 *)
Allowed(n) == n <= LimitOf(0) \/ n <= TotalRetryLimit

(* The counter of retries bounds the attempts at this host; later hosts    *)
(* have seen none.                                                         *)
RetryInv ==
    /\ Allowed(retries)
    /\ RetriesBounded
    /\ \A h \in 1..Hosts : h > host \/ (h = host /\ pc = "host") => Attempts(h) = 0
    /\ pc = "attempt" => Attempts(host) <= retries
    /\ pc = "decide" => Attempts(host) <= retries + 1

(* An attempt with the context done is the last at its host.               *)
LateInv ==
    /\ late <= 1
    /\ pc = "attempt" => late = 0
    /\ pc = "decide" /\ late > 0 => cancelled /\ answer = CtxError

IInv == TypeOK /\ PayloadInv /\ BodyInv /\ ManyInv /\ RetryInv /\ LateInv

-----------------------------------------------------------------------------
(* One more attempt raises the count of its host and of no other.          *)
LEMMA AttemptsAppend ==
    ASSUME TypeOK, NEW e \in [host : 1..Hosts, payload : {"none", "full", "empty"}],
           sent' = Append(sent, e)
    PROVE  /\ sent' \in Seq([host : 1..Hosts, payload : {"none", "full", "empty"}])
           /\ DOMAIN sent' = (DOMAIN sent) \cup {Len(sent) + 1}
           /\ \A i \in DOMAIN sent : sent'[i] = sent[i]
           /\ sent'[Len(sent) + 1] = e
           /\ \A h \in 1..Hosts : Attempts(h)' = Attempts(h) + (IF h = e.host THEN 1 ELSE 0)
<1> DEFINE R == [host : 1..Hosts, payload : {"none", "full", "empty"}]
           n == Len(sent) + 1
<1>1. sent \in Seq(R) /\ e \in R
  BY DEF TypeOK
<1> HIDE DEF R
<1>2. /\ sent' \in Seq(R)
      /\ DOMAIN sent = 1..Len(sent) /\ Len(sent) \in Nat
      /\ DOMAIN sent' = 1..n
      /\ \A i \in 1..Len(sent) : sent'[i] = sent[i]
      /\ sent'[n] = e
  BY <1>1, AppendProperties, LenProperties
<1>3. DOMAIN sent' = (DOMAIN sent) \cup {n} /\ n \notin DOMAIN sent
  BY <1>2
<1>4. ASSUME NEW h \in 1..Hosts
      PROVE  Attempts(h)' = Attempts(h) + (IF h = e.host THEN 1 ELSE 0)
  <2> DEFINE S == {i \in DOMAIN sent : sent[i].host = h}
             T == {i \in DOMAIN sent' : sent'[i].host = h}
  <2>1. IsFiniteSet(S)
    <3>1. IsFiniteSet(1..Len(sent))
      BY <1>2, FS_Interval
    <3> QED
      BY <3>1, <1>2, FS_Subset
  <2>2. Attempts(h) = Cardinality(S) /\ Attempts(h)' = Cardinality(T)
    BY DEF Attempts
  <2>3. Cardinality(S) \in Nat
    BY <2>1, FS_CardinalityType
  <2>4. CASE h = e.host
    <3>1. T = S \cup {n} /\ n \notin S
      BY <1>2, <1>3, <2>4
    <3>2. Cardinality(S \cup {n}) = Cardinality(S) + 1
      BY <2>1, <3>1, FS_AddElement
    <3>3. Attempts(h)' = Attempts(h) + 1
      BY <2>2, <3>1, <3>2
    <3> QED
      BY <2>4, <3>3
  <2>5. CASE h # e.host
    <3>1. T = S
      BY <1>2, <1>3, <2>5
    <3>2. Attempts(h)' = Attempts(h) /\ Attempts(h) \in Nat
      BY <2>2, <2>3, <3>1
    <3>3. Attempts(h)' = Attempts(h) + 0
      BY <3>2
    <3> QED
      BY <2>5, <3>3
  <2> QED
    BY <2>4, <2>5
<1> QED
  BY <1>2, <1>3, <1>4 DEF R

(* The attempts at a host are a number.                                    *)
LEMMA AttemptsNat ==
    ASSUME TypeOK, NEW h
    PROVE  Attempts(h) \in Nat
<1> DEFINE S == {i \in DOMAIN sent : sent[i].host = h}
<1>1. DOMAIN sent = 1..Len(sent) /\ Len(sent) \in Nat
  BY LenProperties DEF TypeOK
<1>2. IsFiniteSet(1..Len(sent))
  BY <1>1, FS_Interval
<1>3. IsFiniteSet(S)
  BY <1>1, <1>2, FS_Subset
<1> QED
  BY <1>3, FS_CardinalityType DEF Attempts

(* A response changes state where it stands.                               *)
LEMMA LastBody ==
    ASSUME TypeOK, Last > 0, NEW b \in {"open", "drained", "closed"}
    PROVE  [bodies EXCEPT ![Last].body = b]
             \in Seq([host : 1..Hosts, body : {"open", "drained", "closed"}])
<1> DEFINE R == [host : 1..Hosts, body : {"open", "drained", "closed"}]
           r == [bodies[Last] EXCEPT !.body = b]
<1>1. bodies \in Seq(R) /\ Len(bodies) \in Nat /\ Last \in 1..Len(bodies)
  <2>1. bodies \in Seq(R)
    BY DEF TypeOK
  <2>2. Len(bodies) \in Nat
    BY <2>1, LenProperties
  <2> QED
    BY <2>1, <2>2 DEF Last
<1>2. bodies[Last] \in R
  BY <1>1, ElementOfSeq
<1>3. r \in R
  BY <1>2
<1> HIDE DEF R, r
<1>4. [bodies EXCEPT ![Last] = r] \in Seq(R)
  BY <1>1, <1>3, ExceptSeq
<1> QED
  BY <1>4 DEF R, r

(* An answer is a status or one of the errors; the zero value is neither.  *)
LEMMA AnswerKinds ==
    /\ \A a \in Answers : a # NoAnswer /\ a \in Nat /\ (IsStatus(a) \/ a \in Errors)
    /\ \A a \in Errors : a # NoAnswer /\ a \in Nat /\ ~IsStatus(a)
    /\ ~IsStatus(NoAnswer)
  BY AnswersAssumption DEF IsStatus, Errors, ConnError, FatalError, CtxError, ReadError, NoAnswer

(* A host number that is not past the last.                                *)
LEMMA UpTo == ASSUME NEW n \in 1..(Hosts + 1), n <= Hosts PROVE n \in 1..Hosts
  BY HostsAssumption

(* The host being tried is one of those supplied.                          *)
LEMMA HostInRange ==
    ASSUME IInv, pc \in {"attempt", "decide", "host done", "decode"}
    PROVE  host \in 1..Hosts
<1>1. host \in 1..(Hosts + 1)
  BY DEF IInv, TypeOK
<1>2. host <= Hosts
  BY DEF IInv, BodyInv, ManyInv
<1> QED
  BY <1>1, <1>2, UpTo

(* What a policy allows is told by numbers.                                *)
LEMMA LimitNat == LimitOf(0) \in Nat /\ TotalRetryLimit \in Nat
  BY PolicyAssumption DEF LimitOf

-----------------------------------------------------------------------------
(* A request has been sent to nobody when it starts.                       *)
LEMMA IInvInit == Init => IInv
<1> SUFFICES ASSUME Init PROVE IInv
  OBVIOUS
<1> USE HostsAssumption
<1>1. TypeOK
  <2>1. /\ bodies \in Seq([host : 1..Hosts, body : {"open", "drained", "closed"}])
        /\ sent \in Seq([host : 1..Hosts, payload : {"none", "full", "empty"}])
    BY DEF Init
  <2>2. host \in 1..(Hosts + 1) /\ many \in SUBSET (1..Hosts)
    BY DEF Init
  <2> QED
    BY <2>1, <2>2 DEF Init, TypeOK
<1>2. PayloadInv /\ BodyInv /\ ManyInv /\ LateInv
  <2>1. many = 1..(host - 1)
    BY DEF Init
  <2> QED
    BY <2>1 DEF Init, PayloadInv, FullPayloadSent, BodyInv, ManyInv, ErrorNamesEveryHost, Failed, LateInv
<1>3. \A h : Attempts(h) = 0
  <2>1. \A h : {i \in DOMAIN sent : sent[i].host = h} = {}
    BY DEF Init
  <2> QED
    BY <2>1, FS_EmptySet DEF Attempts
<1>4. RetryInv
  BY <1>3, LimitNat DEF Init, RetryInv, Allowed, RetriesBounded
<1> QED
  BY <1>1, <1>2, <1>4 DEF IInv

(* Every step keeps the types: a host is left for the next one only when   *)
(* it is one of Hosts.                                                     *)
LEMMA TypeStep ==
    ASSUME IInv, Next
    PROVE  TypeOK'
<1> USE HostsAssumption
<1>1. CASE Cancel
  BY <1>1 DEF IInv, TypeOK, Cancel
<1>2. CASE NoMoreHosts
  BY <1>2 DEF IInv, TypeOK, NoMoreHosts
<1>3. CASE Convert
  BY <1>3 DEF IInv, TypeOK, Convert, Errors, ReadError
<1>4. CASE Attempt
  <2> DEFINE b == [host |-> host, body |-> "open"]
             e == [host |-> host,
                   payload |-> IF copy = "none" THEN "none"
                               ELSE IF Rewound = "start" THEN copy ELSE "empty"]
  <2>1. host \in 1..Hosts
    BY <1>4 DEF IInv, TypeOK, ManyInv, Attempt
  <2>2. PICK a \in Answers \cup {CtxError} :
          /\ answer' = a /\ cancelled' = (a = CtxError)
          /\ bodies' = IF IsStatus(a) THEN Append(bodies, b) ELSE bodies
    BY <1>4 DEF Attempt
  <2>3. bodies' \in Seq([host : 1..Hosts, body : {"open", "drained", "closed"}])
    <3>1. b \in [host : 1..Hosts, body : {"open", "drained", "closed"}]
      BY <2>1
    <3> QED
      BY <2>2, <3>1, AppendProperties DEF IInv, TypeOK
  <2>4. e \in [host : 1..Hosts, payload : {"none", "full", "empty"}] /\ sent' = Append(sent, e)
    BY <1>4, <2>1 DEF IInv, TypeOK, Attempt, Rewound
  <2>5. sent' \in Seq([host : 1..Hosts, payload : {"none", "full", "empty"}])
    BY <2>4, AttemptsAppend DEF IInv
  <2>6. answer' \in Answers \cup Errors \cup {NoAnswer} /\ cancelled' \in BOOLEAN
    BY <2>2 DEF Errors
  <2> QED
    BY <1>4, <2>3, <2>5, <2>6 DEF IInv, TypeOK, Attempt
<1>5. CASE AttemptCancelled
  BY <1>5 DEF IInv, TypeOK, AttemptCancelled, Errors
<1>6. CASE Retry
  <2>1. bodies' \in Seq([host : 1..Hosts, body : {"open", "drained", "closed"}])
    BY <1>6, LastBody DEF IInv, BodyInv, TypeOK, Retry
  <2> QED
    BY <1>6, <2>1 DEF IInv, TypeOK, Retry
<1>7. CASE GiveUp
  BY <1>7 DEF IInv, TypeOK, GiveUp
<1>8. CASE Accept
  BY <1>8 DEF IInv, TypeOK, Accept
<1>9. CASE NextHost
  <2>1. bodies' \in Seq([host : 1..Hosts, body : {"open", "drained", "closed"}])
    BY <1>9, LastBody DEF IInv, BodyInv, TypeOK, NextHost
  <2>2. host \in 1..Hosts
    BY <1>9, HostInRange DEF NextHost
  <2>3. many' \in SUBSET (1..Hosts)
    BY <1>9, <2>2 DEF IInv, TypeOK, NextHost
  <2>4. host' \in 1..(Hosts + 1)
    <3>1. host' \in {host, host + 1}
      BY <1>9 DEF NextHost
    <3> QED
      BY <2>2, <3>1
  <2> QED
    BY <1>9, <2>1, <2>3, <2>4 DEF IInv, TypeOK, NextHost
<1>10. CASE Decode
  <2>1. bodies' \in Seq([host : 1..Hosts, body : {"open", "drained", "closed"}])
    BY <1>10, LastBody DEF IInv, BodyInv, Decode
  <2> QED
    BY <1>10, <2>1 DEF IInv, TypeOK, Decode
<1> QED
  BY <1>1, <1>2, <1>3, <1>4, <1>5, <1>6, <1>7, <1>8, <1>9, <1>10 DEF Next

-----------------------------------------------------------------------------
(* Rewinding the copy before each round, and the reader before each host,  *)
(* keeps the payload whole.                                                *)
LEMMA PayloadStep ==
    ASSUME IInv, Next
    PROVE  PayloadInv'
<1> USE DEF IInv, PayloadInv, FullPayloadSent
<1>1. CASE Cancel \/ NoMoreHosts \/ AttemptCancelled \/ Retry \/ GiveUp \/ Accept \/ Decode
  BY <1>1 DEF Cancel, NoMoreHosts, AttemptCancelled, Retry, GiveUp, Accept, Decode
<1>2. CASE Convert
  BY <1>2 DEF Convert, TypeOK
<1>3. CASE Attempt
  <2> DEFINE e == [host |-> host,
                   payload |-> IF copy = "none" THEN "none"
                               ELSE IF Rewound = "start" THEN copy ELSE "empty"]
  <2>1. e \in [host : 1..Hosts, payload : {"none", "full", "empty"}] /\ sent' = Append(sent, e)
    BY <1>3, HostInRange DEF TypeOK, Attempt, Rewound
  <2>2. payload # "none" => e.payload = "full"
    BY <1>3 DEF Attempt, Rewound
  <2>3. /\ DOMAIN sent' = (DOMAIN sent) \cup {Len(sent) + 1}
        /\ \A i \in DOMAIN sent : sent'[i] = sent[i]
        /\ sent'[Len(sent) + 1] = e
    <3> HIDE DEF e
    <3> QED
      BY <2>1, AttemptsAppend
  <2>4. pc' = "decide" /\ copy' = copy /\ payload' = payload /\ pc = "attempt"
    BY <1>3 DEF Attempt
  <2> HIDE DEF e
  <2> QED
    BY <2>2, <2>3, <2>4
<1>4. CASE NextHost
  BY <1>4 DEF NextHost
<1> QED
  BY <1>1, <1>2, <1>3, <1>4 DEF Next

(* The last body is touched only when its answer will not be decoded.      *)
LEMMA BodyStep ==
    ASSUME IInv, Next
    PROVE  BodyInv'
<1>0. TypeOK /\ BodyInv /\ ManyInv
  BY DEF IInv
<1>1. CASE Cancel
  BY <1>0, <1>1 DEF BodyInv, Cancel, Last, IsStatus
<1>2. CASE NoMoreHosts
  BY <1>2 DEF BodyInv, NoMoreHosts
<1>3. CASE Convert
  <2>1. ReadError # NoAnswer /\ ~IsStatus(ReadError)
    BY AnswerKinds DEF Errors
  <2>2. pc' = "attempt" \/ (pc' = "host done" /\ answer' = ReadError)
    BY <1>3 DEF Convert
  <2>3. host' = host /\ host <= Hosts
    BY <1>3 DEF Convert
  <2> QED
    BY <2>1, <2>2, <2>3 DEF BodyInv, IsStatus, NoAnswer
<1>4. CASE Attempt
  <2> DEFINE b == [host |-> host, body |-> "open"]
  <2>1. PICK a \in Answers \cup {CtxError} :
          /\ answer' = a /\ cancelled' = (a = CtxError)
          /\ bodies' = IF IsStatus(a) THEN Append(bodies, b) ELSE bodies
    BY <1>4 DEF Attempt
  <2>2. host \in 1..Hosts /\ pc' = "decide" /\ host' = host
    BY <1>4, HostInRange DEF Attempt
  <2>3. a # NoAnswer
    BY <2>1, AnswerKinds DEF Errors
  <2>4. ASSUME IsStatus(a)
        PROVE  Last' > 0 /\ bodies'[Last'] = b
    <3>1. bodies \in Seq([host : 1..Hosts, body : {"open", "drained", "closed"}])
          /\ b \in [host : 1..Hosts, body : {"open", "drained", "closed"}]
          /\ bodies' = Append(bodies, b)
      BY <1>0, <2>1, <2>2, <2>4 DEF TypeOK
    <3> HIDE DEF b
    <3>2. Len(bodies') = Len(bodies) + 1 /\ bodies'[Len(bodies) + 1] = b
      BY <3>1, AppendProperties
    <3>3. Len(bodies) \in Nat
      BY <3>1, LenProperties
    <3> QED
      BY <3>2, <3>3 DEF Last
  <2>5. host <= Hosts
    BY <2>2, HostsAssumption
  <2> QED
    BY <2>1, <2>2, <2>3, <2>4, <2>5 DEF BodyInv, IsStatus, NoAnswer
<1>5. CASE AttemptCancelled
  <2>1. pc' = "decide" /\ answer' = CtxError /\ host' = host /\ host <= Hosts
    BY <1>0, <1>5 DEF AttemptCancelled, ManyInv
  <2>2. CtxError # NoAnswer /\ ~IsStatus(CtxError)
    BY AnswerKinds DEF Errors
  <2> QED
    BY <2>1, <2>2 DEF BodyInv, NoAnswer, IsStatus
<1>6. CASE Retry
  BY <1>6 DEF BodyInv, Retry
<1>7. CASE GiveUp
  BY <1>0, <1>7 DEF BodyInv, GiveUp, Last, IsStatus
<1>8. CASE Accept
  <2>1. IsStatus(answer)
    <3>1. answer \in Answers \/ answer \in Errors \/ answer = NoAnswer
      BY <1>0 DEF TypeOK
    <3>2. answer # NoAnswer /\ answer \notin Errors
      BY ZenonT(30), <1>0, <1>8 DEF BodyInv, Accept, TryDifferentHost
    <3> QED
      BY <3>1, <3>2, AnswerKinds
  <2> QED
    BY <1>0, <1>8, <2>1 DEF BodyInv, Accept, Last, IsStatus
<1>9. CASE NextHost
  <2>1. pc' = "host" \/ (pc' = "decode" /\ IsStatus(answer) /\ host = Hosts /\ host' = host)
    BY <1>9 DEF NextHost
  <2>2. CASE pc' = "host"
    BY <2>2 DEF BodyInv
  <2>3. CASE pc' = "decode"
    <3>1. IsStatus(answer) /\ host = Hosts /\ host' = host /\ pc = "host done"
      BY <1>9, <2>1, <2>3 DEF NextHost
    <3>2. bodies' = bodies /\ answer' = answer
      <4>1. ~(host < Hosts)
        <5>1. Hosts \in Nat /\ host = Hosts
          BY <3>1, HostsAssumption
        <5> QED
          BY <5>1
      <4> QED
        BY <1>9, <4>1 DEF NextHost
    <3>3. host <= Hosts
      BY <1>0, <3>1 DEF BodyInv
    <3> QED
      BY <1>0, <2>3, <3>1, <3>2, <3>3 DEF BodyInv, Last, IsStatus
  <2> QED
    BY <2>1, <2>2, <2>3
<1>10. CASE Decode
  BY <1>10 DEF BodyInv, Decode
<1> QED
  BY <1>1, <1>2, <1>3, <1>4, <1>5, <1>6, <1>7, <1>8, <1>9, <1>10 DEF Next

-----------------------------------------------------------------------------
(* A number is in the range it ends.                                       *)
LEMMA OneMore == ASSUME NEW n \in 1..Hosts PROVE (1..(n - 1)) \cup {n} = 1..((n + 1) - 1)
  BY HostsAssumption

(* A host is left for the next one only with an entry in the ManyError.    *)
LEMMA ManyStep ==
    ASSUME IInv, Next
    PROVE  ManyInv'
<1>0. TypeOK /\ BodyInv /\ ManyInv
  BY DEF IInv
<1> USE DEF ManyInv, ErrorNamesEveryHost, Failed
<1>1. CASE Cancel \/ Retry \/ GiveUp \/ Accept
  <2>1. /\ many' = many /\ host' = host /\ answer' = answer
        /\ pc # "returned" /\ pc' # "returned"
        /\ pc' \in {"host", "attempt", "decide", "host done"}
             => pc \in {"host", "attempt", "decide", "host done"}
        /\ pc' = "attempt" => pc \in {"attempt", "decide"}
    BY <1>1 DEF Cancel, Retry, GiveUp, Accept
  <2> QED
    BY <1>0, <2>1 DEF BodyInv
<1>2. CASE NoMoreHosts
  <2>1. pc = "host" /\ many' = many /\ host' = host /\ pc' = "returned" /\ host > Hosts
    BY <1>2 DEF NoMoreHosts
  <2>2. host \in 1..(Hosts + 1)
    BY <1>0 DEF TypeOK
  <2>3. host - 1 = Hosts
    BY <2>1, <2>2, HostsAssumption
  <2> QED
    BY <1>0, <2>1, <2>3
<1>3. CASE Convert
  BY <1>0, <1>3 DEF Convert
<1>4. CASE Attempt
  <2>1. pc = "attempt" /\ pc' = "decide" /\ many' = many /\ host' = host
    BY <1>4 DEF Attempt
  <2> QED
    BY <1>0, <2>1
<1>5. CASE AttemptCancelled
  BY <1>0, <1>5 DEF AttemptCancelled
<1>6. CASE NextHost
  <2>1. host \in 1..Hosts
    BY <1>6, HostInRange DEF NextHost
  <2>2. many = 1..(host - 1) /\ many' = many \cup {host}
    BY <1>0, <1>6 DEF NextHost
  <2>3. pc' = "decode" \/ (pc' = "host" /\ host' = host + 1)
    BY <1>6 DEF NextHost
  <2>4. many' = 1..((host + 1) - 1)
    BY <2>1, <2>2, OneMore
  <2> QED
    BY <2>3, <2>4
<1>7. CASE Decode
  <2>1. pc' = "returned" /\ answer' = answer /\ IsStatus(answer)
    BY <1>0, <1>7 DEF BodyInv, Decode
  <2> QED
    BY <2>1 DEF IsStatus
<1> QED
  BY <1>1, <1>2, <1>3, <1>4, <1>5, <1>6, <1>7 DEF Next

(* One more retry is allowed when ShouldRetry says so.                     *)
LEMMA RetryAllowed ==
    ASSUME TypeOK, ShouldRetry(answer)
    PROVE  Allowed(retries + 1)
<1>1. retries \in Nat
  BY DEF TypeOK
<1>2. CASE WithinLimit(0)
  <2>1. 0 \in DOMAIN Retries /\ Retries[0] >= retries /\ Retries[0] \in Nat
    BY <1>2, PolicyAssumption DEF WithinLimit
  <2> QED
    BY <1>1, <2>1 DEF Allowed, LimitOf
<1>3. CASE TotalRetryLimit > retries
  BY <1>1, <1>3, PolicyAssumption DEF Allowed
<1> QED
  BY <1>2, <1>3 DEF ShouldRetry

(* The counter goes up between two attempts at a host and is reset when    *)
(* the next host, which has seen none, is tried.                           *)
LEMMA RetryStep ==
    ASSUME IInv, Next
    PROVE  RetryInv'
<1>0. TypeOK /\ RetryInv
  BY DEF IInv
<1>a. \A h : Attempts(h) \in Nat
  BY <1>0, AttemptsNat
<1>b. retries \in Nat
  BY <1>0 DEF TypeOK
<1>c. ASSUME sent' = sent
      PROVE  (\A h : Attempts(h)' = Attempts(h)) /\ RetriesBounded'
  BY <1>0, <1>c DEF Attempts, RetryInv, RetriesBounded
<1>1. CASE Cancel \/ NoMoreHosts \/ GiveUp \/ Accept \/ Decode
  <2>1. /\ sent' = sent /\ host' = host /\ retries' = retries
        /\ pc' = pc \/ pc' \in {"returned", "host done", "decode"}
    BY <1>1 DEF Cancel, NoMoreHosts, GiveUp, Accept, Decode
  <2>2. \A h \in 1..Hosts : h > host \/ (h = host /\ pc' = "host") => Attempts(h) = 0
    BY <1>0, <2>1 DEF RetryInv
  <2> QED
    BY <1>0, <1>c, <2>1, <2>2 DEF RetryInv, Allowed
<1>2. CASE Convert
  <2>1. /\ sent' = sent /\ host' = host /\ retries' = 0 /\ pc = "host" /\ host <= Hosts
        /\ pc' \in {"attempt", "host done"}
    BY <1>2 DEF Convert
  <2>2. host \in 1..Hosts
    BY <1>0, <2>1, UpTo DEF TypeOK
  <2>3. Attempts(host) = 0 /\ \A h \in 1..Hosts : h > host => Attempts(h) = 0
    BY <1>0, <2>1, <2>2 DEF RetryInv
  <2>4. Allowed(0)
    BY LimitNat DEF Allowed
  <2>5. \A h \in 1..Hosts : h > host' \/ (h = host' /\ pc' = "host") => Attempts(h)' = 0
    BY <1>c, <2>1, <2>3
  <2>6. Attempts(host)' <= 0
    <3>1. Attempts(host)' = 0
      BY <1>c, <2>1, <2>3
    <3> QED
      BY <3>1
  <2> QED
    BY <1>c, <2>1, <2>4, <2>5, <2>6 DEF RetryInv, Allowed
<1>3. CASE Attempt
  <2> DEFINE e == [host |-> host,
                   payload |-> IF copy = "none" THEN "none"
                               ELSE IF Rewound = "start" THEN copy ELSE "empty"]
  <2>1. host \in 1..Hosts
    BY <1>3, HostInRange DEF Attempt
  <2>2. e \in [host : 1..Hosts, payload : {"none", "full", "empty"}] /\ sent' = Append(sent, e)
    BY <1>0, <1>3, <2>1 DEF TypeOK, Attempt, Rewound
  <2>3. e.host = host
    OBVIOUS
  <2>4. \A h \in 1..Hosts : Attempts(h)' = Attempts(h) + (IF h = host THEN 1 ELSE 0)
    <3> HIDE DEF e
    <3> QED
      BY <1>0, <2>2, <2>3, AttemptsAppend
  <2>5. /\ pc = "attempt" /\ pc' = "decide" /\ host' = host /\ retries' = retries
        /\ Attempts(host) <= retries
    BY <1>0, <1>3 DEF Attempt, RetryInv
  <2>6. Attempts(host)' <= retries + 1
    <3>1. Attempts(host)' = Attempts(host) + 1
      BY <2>1, <2>4, <2>5
    <3> QED
      BY <1>a, <1>b, <2>5, <3>1
  <2>7. \A h \in 1..Hosts : h # host => Attempts(h)' = Attempts(h)
    BY <1>a, <2>4
  <2>8. \A h \in 1..Hosts : h > host => Attempts(h)' = 0
    BY <1>0, <2>1, <2>7, HostsAssumption DEF RetryInv
  <2>9. Attempts(host)' \in Nat
    BY <1>a, <2>1, <2>4, <2>5
  <2>10. RetriesBounded'
    <3>1. Attempts(host)' <= 1 + LimitOf(0) \/ Attempts(host)' <= 1 + TotalRetryLimit
      BY <1>0, <1>b, <2>6, <2>9, LimitNat DEF RetryInv, Allowed
    <3> QED
      BY <1>0, <2>5, <2>7, <3>1 DEF RetryInv, RetriesBounded
  <2> HIDE DEF e
  <2> QED
    BY <1>0, <2>5, <2>6, <2>8, <2>10 DEF RetryInv, Allowed
<1>4. CASE AttemptCancelled
  <2>1. /\ sent' = sent /\ host' = host /\ retries' = retries /\ pc = "attempt" /\ pc' = "decide"
        /\ Attempts(host) <= retries
    BY <1>0, <1>4 DEF AttemptCancelled, RetryInv
  <2>2. Attempts(host) <= retries + 1
    BY <1>a, <1>b, <2>1
  <2> QED
    BY <1>0, <1>c, <2>1, <2>2 DEF RetryInv, Allowed
<1>5. CASE Retry
  <2>1. /\ sent' = sent /\ host' = host /\ retries' = retries + 1 /\ pc' = "attempt"
        /\ Attempts(host) <= retries + 1
    BY <1>0, <1>5 DEF Retry, RetryInv
  <2>2. Allowed(retries + 1)
    BY <1>0, <1>5, RetryAllowed DEF Retry
  <2> QED
    BY <1>0, <1>c, <2>1, <2>2 DEF RetryInv, Allowed
<1>6. CASE NextHost
  <2>1. host \in 1..Hosts
    BY <1>6, HostInRange DEF NextHost
  <2>2. /\ sent' = sent /\ retries' = retries
        /\ (pc' = "decode" /\ host' = host) \/ (pc' = "host" /\ host' = host + 1)
    BY <1>6 DEF NextHost
  <2>3. \A h \in 1..Hosts : h > host' \/ (h = host' /\ pc' = "host") => h > host
    BY <2>1, <2>2, HostsAssumption
  <2>4. \A h \in 1..Hosts : h > host => Attempts(h) = 0
    BY <1>0 DEF RetryInv
  <2> QED
    BY <1>0, <1>c, <2>2, <2>3, <2>4 DEF RetryInv, Allowed
<1> QED
  BY <1>1, <1>2, <1>3, <1>4, <1>5, <1>6 DEF Next

(* The refused attempt ends in CtxError, and ShouldRetry looks at the      *)
(* context when the answer is an error.                                    *)
LEMMA LateStep ==
    ASSUME IInv, Next
    PROVE  LateInv'
<1>0. late \in Nat /\ LateInv
  BY DEF IInv, TypeOK
<1> USE DEF LateInv
<1>1. CASE Cancel \/ NoMoreHosts \/ GiveUp \/ Accept \/ NextHost \/ Decode
  <2>1. /\ late' = late
        /\ \/ pc' \notin {"attempt", "decide"}
           \/ pc' = pc /\ answer' = answer /\ (cancelled => cancelled')
    BY <1>1 DEF Cancel, NoMoreHosts, GiveUp, Accept, NextHost, Decode
  <2> QED
    BY <1>0, <2>1
<1>2. CASE Convert
  <2>1. late' = 0 /\ pc' # "decide"
    BY <1>2 DEF Convert
  <2> QED
    BY <2>1
<1>3. CASE Attempt
  <2>1. pc = "attempt" /\ late' = late /\ pc' = "decide"
    BY <1>3 DEF Attempt
  <2> QED
    BY <1>0, <2>1
<1>4. CASE AttemptCancelled
  <2>1. pc = "attempt" /\ late' = late + 1 /\ pc' = "decide" /\ answer' = CtxError /\ cancelled'
    BY <1>4 DEF AttemptCancelled
  <2>2. late' = 1
    BY <1>0, <2>1
  <2> QED
    BY <2>1, <2>2
<1>5. CASE Retry
  <2>1. pc = "decide" /\ pc' = "attempt" /\ late' = late /\ ShouldRetry(answer)
    BY <1>5 DEF Retry
  <2>2. ~(late > 0)
    BY <1>0, <2>1 DEF ShouldRetry, Errors
  <2>3. late = 0
    BY <1>0, <2>2
  <2> QED
    BY <2>1, <2>3
<1> QED
  BY <1>1, <1>2, <1>3, <1>4, <1>5 DEF Next

-----------------------------------------------------------------------------
(* The strengthened invariant holds in every reachable state.              *)
THEOREM Inductive == Spec => []IInv
<1>1. Init => IInv
  BY IInvInit
<1>2. IInv /\ [Next]_vars => IInv'
  <2> SUFFICES ASSUME IInv, [Next]_vars PROVE IInv'
    OBVIOUS
  <2>1. CASE Next
    BY <2>1, TypeStep, PayloadStep, BodyStep, ManyStep, RetryStep, LateStep DEF IInv
  <2>2. CASE UNCHANGED vars
    <3>1. \A h : Attempts(h)' = Attempts(h)
      BY <2>2 DEF vars, Attempts
    <3>2. TypeOK'
      BY ZenonT(30), <2>2 DEF vars, IInv, TypeOK
    <3>5. PayloadInv' /\ LateInv'
      BY <2>2 DEF vars, IInv, PayloadInv, FullPayloadSent, LateInv
    <3>3. BodyInv' /\ ManyInv'
      BY <2>2 DEF vars, IInv, BodyInv, Last, IsStatus, ManyInv, ErrorNamesEveryHost, Failed
    <3>4. RetryInv'
      BY <2>2, <3>1 DEF vars, IInv, RetryInv, RetriesBounded, Allowed
    <3> QED
      BY <3>2, <3>3, <3>4, <3>5 DEF IInv
  <2> QED
    BY <2>1, <2>2
<1> QED
  BY <1>1, <1>2, PTL DEF Spec

(* A call of executeRequest only takes values of its types.                *)
THEOREM TypeCorrect == Spec => []TypeOK
<1>1. IInv => TypeOK
  BY DEF IInv
<1> QED
  BY <1>1, Inductive, PTL

(* Whatever fails and is retried, at this host or an earlier one, every    *)
(* attempt carries the whole payload: Do rewinds convertRequest's copy     *)
(* before each attempt and executeRequest the caller's reader before each  *)
(* host; a reader that cannot be rewound fails the host before it is sent  *)
(* anything.                                                               *)
THEOREM PayloadIsWhole == Spec => []FullPayloadSent
<1>1. IInv => FullPayloadSent
  BY DEF IInv, PayloadInv
<1> QED
  BY <1>1, Inductive, PTL

(* DecodeResponse gets the last host's response with its body unread and   *)
(* open, and a call that returns no response has an entry in its ManyError *)
(* for each of the hosts.                                                  *)
THEOREM OutcomeNamesHosts == Spec => []OutcomeOfAllHosts
<1>1. IInv => OutcomeOfAllHosts
  BY DEF IInv, BodyInv, ManyInv, OutcomeOfAllHosts, DecodesOpenBody
<1> QED
  BY <1>1, Inductive, PTL

(* For any policy Do stops retrying: a host is sent at most one attempt    *)
(* more than the limit for errors, or than TotalRetryLimit, allows, and    *)
(* once the context is done at most one attempt is made, which the HTTP    *)
(* client refuses.                                                         *)
THEOREM RetriesStop == Spec => []RetriesEnd
<1>1. IInv => RetriesEnd
  BY DEF IInv, RetryInv, LateInv, RetriesEnd, NoRetryAfterCancel
<1> QED
  BY <1>1, Inductive, PTL
=============================================================================
