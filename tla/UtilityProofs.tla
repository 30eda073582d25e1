--------------------------- MODULE UtilityProofs -----------------------------
(***************************************************************************)
(* Proofs about five components that stand alone: the throttle, the two    *)
(* reloaders, the pools of PKCS#11 sessions and the channel writer, whose  *)
(* names have no prefix (Spec, WriterInv).  Each has its own inductive     *)
(* invariant; no fact about one is used for another.                       *)
(***************************************************************************)
EXTENDS Throttle, FileReloader, KeypairReloader, SessionPool, ChannelWriter, SequenceTheorems, TLAPS

-----------------------------------------------------------------------------
(***************************************************************************)
(* Proofs about Throttle, for any period, consumers and bounds.            *)
(*                                                                         *)
(* The rate holds because a leading throttle raises `waiting` only when a  *)
(* period has gone by, and nothing but Next, which lowers it, moves `last` *)
(* (RateInv).  With trailing set RateInv is false, and so is the rate.     *)
(***************************************************************************)

(* What lets Next return at once when it finds waiting set.                *)
RateInv == waiting => now - last > Period

ThrottleInv == ThrottleTypeOK /\ OneNextPerTrigger /\ (~trailing => RateInv)

(* The initial states satisfy the inductive invariant.                     *)
LEMMA ThrottleInvInit == ThrottleInit => ThrottleInv
<1> SUFFICES ASSUME ThrottleInit PROVE ThrottleInv
  OBVIOUS
<1>1. ThrottleTypeOK
  BY DEF ThrottleInit, ThrottleTypeOK
<1>2. OneNextPerTrigger /\ RateInv
  BY DEF ThrottleInit, OneNextPerTrigger, RateInv
<1> QED
  BY <1>1, <1>2 DEF ThrottleInv

(* One step of any actor preserves it.                                     *)
LEMMA ThrottleInvStep == ThrottleInv /\ [ThrottleNext]_throttleVars => ThrottleInv'
<1> SUFFICES ASSUME ThrottleInv, [ThrottleNext]_throttleVars
             PROVE  ThrottleInv'
  OBVIOUS
<1> USE PeriodAssumption, ThrottleBoundAssumption
<1> USE DEF ThrottleInv, OneNextPerTrigger, RateInv
<1>1. CASE TriggerNow
  BY <1>1 DEF TriggerNow, LongEnough, Broadcast, ThrottleTypeOK, Never
<1>2. CASE TriggerLater
  <2>1. last \in Nat
    BY <1>2 DEF TriggerLater, LongEnough, ThrottleTypeOK, Never
  <2>2. [at |-> last + Period, id |-> accepted] \in [at : Nat, id : Nat]
    BY <2>1 DEF ThrottleTypeOK
  <2> QED
    BY <1>2, <2>1, <2>2 DEF TriggerLater, ThrottleTypeOK
<1>3. CASE Stop
  BY <1>3 DEF Stop, Broadcast, ThrottleTypeOK, Never
<1>4. CASE TimePasses
  BY <1>4 DEF TimePasses, ThrottleTypeOK, Never
<1>5. ASSUME NEW x \in timers, Fire(x) PROVE ThrottleInv'
  BY <1>5 DEF Fire, Broadcast, ThrottleTypeOK, Never
<1>6. ASSUME NEW c \in Consumers, NextSleep(c) PROVE ThrottleInv'
  BY <1>6 DEF NextSleep, ThrottleTypeOK, Never
<1>7. ASSUME NEW c \in Consumers, NextTrue(c) PROVE ThrottleInv'
  <2>1. ThrottleTypeOK'
    BY <1>7 DEF NextTrue, ThrottleTypeOK, Never
  <2>2. OneNextPerTrigger'
    BY <1>7 DEF NextTrue, ThrottleTypeOK
  <2>3. RateInv'
    BY <1>7 DEF NextTrue
  <2> QED
    BY <2>1, <2>2, <2>3
<1>8. ASSUME NEW c \in Consumers, NextFalse(c) PROVE ThrottleInv'
  BY <1>8 DEF NextFalse, ThrottleTypeOK, Never
<1>9. CASE UNCHANGED throttleVars
  BY <1>9 DEF throttleVars, ThrottleTypeOK, Never
<1> QED
  BY <1>1, <1>2, <1>3, <1>4, <1>5, <1>6, <1>7, <1>8, <1>9
     DEF ThrottleNext, Trigger, Consume

(* WriterInv holds in every reachable state.                                    *)
THEOREM ThrottleInvariance == ThrottleSpec => []ThrottleInv
BY ThrottleInvInit, ThrottleInvStep, PTL DEF ThrottleSpec

(* Every accepted Trigger makes Next return true exactly once, for any     *)
(* number of consumers and with or without trailing.                       *)
THEOREM ExactlyOneNext == ThrottleSpec => [](ThrottleTypeOK /\ OneNextPerTrigger)
<1>1. ThrottleInv => ThrottleTypeOK /\ OneNextPerTrigger
  BY DEF ThrottleInv
<1> QED
  BY <1>1, ThrottleInvariance, PTL

(* A throttle without trailing keeps the documented rate.                  *)
THEOREM RateWithoutTrailing == ThrottleSpec => LeadingRate
<1>1. ThrottleInv /\ [ThrottleNext]_throttleVars => [served' > served /\ ~trailing => now - last >= Period]_throttleVars
  <2> SUFFICES ASSUME ThrottleInv, ThrottleNext, served' > served, ~trailing
               PROVE  now - last >= Period
    OBVIOUS
  <2>1. PICK c \in Consumers : NextTrue(c)
    BY DEF ThrottleNext, Trigger, TriggerNow, TriggerLater, Stop, TimePasses, Fire, Consume,
           NextSleep, NextFalse, ThrottleInv, ThrottleTypeOK
  <2> QED
    BY <2>1, PeriodAssumption DEF NextTrue, ThrottleInv, RateInv, ThrottleTypeOK, Never
<1> QED
  BY <1>1, ThrottleInvariance, PTL DEF ThrottleSpec, LeadingRate

-----------------------------------------------------------------------------
(***************************************************************************)
(* Proofs about FileReloader, for any clients and closers and any history  *)
(* of the file.                                                            *)
(*                                                                         *)
(* fileModifiedAt is raised before the lock is requested, so between       *)
(* Assign and LoopReload the mark is ahead of the callbacks.  MarkInv says *)
(* what holds meanwhile: until Assign the old mark is reported, and a      *)
(* time once reported stays reported when its callback runs.               *)
(***************************************************************************)

(* The mark is reported as long as the goroutine has not moved it on.      *)
MarkInv ==
    loop \in {"select", "assign", "ended"} /\ fileModifiedAt > 0 => fileModifiedAt \in Reported

ReloaderInv == ReloaderTypeOK /\ MarkInv

(* Times that have been, seen from later.                                  *)
LEMMA TimesGrow ==
    ASSUME NEW m \in Nat, NEW n \in Nat, m <= n
    PROVE  0..m \subseteq 0..n /\ Torn..m \subseteq Torn..n
  BY DEF Torn

(* The times heard after one more callback.                                *)
LEMMA HeardAppend ==
    ASSUME NEW S, NEW s \in Seq(S), NEW x \in S
    PROVE  /\ Append(s, x) \in Seq(S)
           /\ {Append(s, x)[i] : i \in DOMAIN Append(s, x)} = {s[i] : i \in DOMAIN s} \cup {x}
<1>1. /\ Append(s, x) \in Seq(S)
      /\ DOMAIN s = 1..Len(s) /\ Len(s) \in Nat
      /\ DOMAIN Append(s, x) = 1..(Len(s) + 1)
  BY AppendProperties, LenProperties
<1>2. /\ \A i \in 1..Len(s) : Append(s, x)[i] = s[i]
      /\ Append(s, x)[Len(s) + 1] = x
  BY AppendProperties
<1>3. 1..(Len(s) + 1) = (1..Len(s)) \cup {Len(s) + 1}
  BY <1>1
<1> QED
  BY <1>1, <1>2, <1>3

(* NewReloader starts with the zero time, nothing reported.                *)
LEMMA ReloaderInvInit == ReloaderInit => ReloaderInv
<1> SUFFICES ASSUME ReloaderInit PROVE ReloaderInv
  OBVIOUS
<1>1. ReloaderTypeOK
  <2>1. heard \in Seq(Torn..mtime)
    BY DEF ReloaderInit
  <2>2. mtime \in 1..MaxMTime /\ 0 \in 0..mtime /\ removes \in 0..MaxRemoves
    BY ReloaderBoundAssumption DEF ReloaderInit
  <2> QED
    BY <2>1, <2>2 DEF ReloaderInit, ReloaderTypeOK
<1>2. MarkInv
  BY DEF ReloaderInit, MarkInv
<1> QED
  BY <1>1, <1>2 DEF ReloaderInv

(* Starting a callback reports its time and forgets no other.              *)
LEMMA StartReports ==
    ASSUME ReloaderTypeOK, NEW at \in Torn..mtime, StartCallback(at), mtime' = mtime
    PROVE  /\ pending' \subseteq [id : 0..count', at : Torn..mtime'] /\ count' \in Nat
           /\ heard' \in Seq(Torn..mtime')
           /\ Reported' = Reported \cup {at}
<1>1. /\ count' = count + 1 /\ count \in Nat
      /\ pending' = pending \cup {[id |-> count, at |-> at]}
      /\ heard' = heard
  BY DEF StartCallback, ReloaderTypeOK
<1>2. \A n \in 0..count : n \in 0..(count + 1)
  BY <1>1
<1>3. [id |-> count, at |-> at] \in [id : 0..count', at : Torn..mtime']
  BY <1>1
<1>4. pending \subseteq [id : 0..count', at : Torn..mtime']
  BY <1>1, <1>2 DEF ReloaderTypeOK
<1>5. Reported' = Reported \cup {at}
  <2> DEFINE new == [id |-> count, at |-> at]
  <2>1. new.at = at /\ pending' = pending \cup {new}
    BY <1>1
  <2> HIDE DEF new
  <2>2. {x.at : x \in pending'} = {x.at : x \in pending} \cup {at}
    BY <2>1
  <2> QED
    BY <1>1, <2>2 DEF Reported
<1> QED
  BY <1>1, <1>3, <1>4, <1>5 DEF ReloaderTypeOK

(* A step of anybody but the goroutine of a callback.                      *)
LEMMA FileStep == ReloaderInv /\ (Modify \/ Remove) => ReloaderInv'
<1> SUFFICES ASSUME ReloaderInv, Modify \/ Remove PROVE ReloaderInv'
  OBVIOUS
<1> USE DEF ReloaderInv, fileVars, loopVars, lockVars, callVars
<1>1. CASE Modify
  <2>1. mtime \in Nat /\ mtime' = mtime + 1 /\ mtime' \in 1..MaxMTime
    BY <1>1, ReloaderBoundAssumption DEF Modify, ReloaderTypeOK
  <2>2. 0..mtime \subseteq 0..mtime' /\ Torn..mtime \subseteq Torn..mtime'
    BY <2>1, TimesGrow
  <2>3. heard' \in Seq(Torn..mtime')
    BY <1>1, <2>2, SeqMonotonic DEF Modify, ReloaderTypeOK
  <2>4. pending' \subseteq [id : 0..count', at : Torn..mtime']
    BY <1>1, <2>2 DEF Modify, ReloaderTypeOK
  <2>5. fileModifiedAt' \in 0..mtime' /\ stat' \in 0..mtime'
    BY <1>1, <2>2 DEF Modify, ReloaderTypeOK
  <2>6. ReloaderTypeOK'
    BY <1>1, <2>1, <2>3, <2>4, <2>5 DEF Modify, ReloaderTypeOK
  <2>7. MarkInv'
    BY <1>1 DEF Modify, MarkInv, Reported
  <2> QED
    BY <2>6, <2>7
<1>2. CASE Remove
  <2>1. removes' \in 0..MaxRemoves
    BY <1>2, ReloaderBoundAssumption DEF Remove, ReloaderTypeOK
  <2> QED
    BY <1>2, <2>1 DEF Remove, ReloaderTypeOK, MarkInv, Reported
<1> QED
  BY <1>1, <1>2

(* A step of the poller.                                                   *)
LEMMA LoopStep == ReloaderInv /\ LoopNext => ReloaderInv'
<1> SUFFICES ASSUME ReloaderInv, LoopNext PROVE ReloaderInv'
  OBVIOUS
<1> USE DEF ReloaderInv, fileVars, loopVars, lockVars, callVars
<1>1. CASE TickModified
  <2>1. mtime \in 0..mtime
    BY ReloaderBoundAssumption DEF ReloaderTypeOK
  <2>2. ReloaderTypeOK'
    BY <1>1, <2>1 DEF TickModified, ReloaderTypeOK
  <2>3. MarkInv'
    BY <1>1 DEF TickModified, MarkInv, Reported
  <2> QED
    BY <2>2, <2>3
<1>2. CASE Assign \/ LoopLock
  BY <1>2 DEF Assign, LoopLock, ReloaderTypeOK, MarkInv
<1>3. CASE LoopReload
  <2>1. fileModifiedAt \in Torn..mtime /\ mtime' = mtime /\ StartCallback(fileModifiedAt)
    BY <1>3, ReloaderBoundAssumption DEF LoopReload, ReloaderTypeOK, Torn
  <2>2. ReloaderTypeOK'
    BY <1>3, <2>1, StartReports DEF LoopReload, ReloaderTypeOK
  <2>3. fileModifiedAt' \in Reported'
    BY <1>3, <2>1, StartReports DEF LoopReload
  <2> QED
    BY <2>2, <2>3 DEF MarkInv
<1> QED
  BY <1>1, <1>2, <1>3 DEF LoopNext

(* A step of a client's Reload.                                            *)
LEMMA ClientStep ==
    ASSUME ReloaderInv, NEW c \in Clients, ClientCall(c) \/ ClientNext(c)
    PROVE  ReloaderInv'
<1> USE DEF ReloaderInv, fileVars, loopVars, lockVars, callVars
<1>1. CASE ClientCall(c) \/ ClientLock(c)
  BY <1>1 DEF ClientCall, ClientLock, ReloaderTypeOK, MarkInv, Reported
<1>2. CASE ClientReload(c)
  <2>1. PICK at \in ReadModifiedAt : StartCallback(at)
    BY <1>2 DEF ClientReload
  <2>2. at \in Torn..mtime /\ mtime' = mtime
    BY <1>2, ReloaderBoundAssumption DEF ClientReload, ReadModifiedAt, ReloaderTypeOK, Torn
  <2>3. ReloaderTypeOK'
    BY <1>2, <2>1, <2>2, StartReports DEF ClientReload, ReloaderTypeOK
  <2>4. Reported \subseteq Reported'
    BY <2>1, <2>2, StartReports
  <2>5. MarkInv'
    BY <1>2, <2>4 DEF ClientReload, MarkInv
  <2> QED
    BY <2>3, <2>5
<1> QED
  BY <1>1, <1>2 DEF ClientNext

(* A step of a Close.                                                      *)
LEMMA CloseStep ==
    ASSUME ReloaderInv, NEW c \in Closers, CloseLock(c) \/ CloseNext(c)
    PROVE  ReloaderInv'
<1> USE DEF ReloaderInv, fileVars, loopVars, lockVars, callVars
<1>1. ReloaderTypeOK'
  BY DEF CloseLock, CloseNext, CloseAgain, CloseMark, CloseStore, CloseSend, ReloaderTypeOK
<1>2. MarkInv'
  BY DEF CloseLock, CloseNext, CloseAgain, CloseMark, CloseStore, CloseSend, MarkInv, Reported
<1> QED
  BY <1>1, <1>2

(* A callback runs: what was pending is heard.                             *)
LEMMA CallbackStep ==
    ASSUME ReloaderInv, NEW x \in pending, RunCallback(x)
    PROVE  ReloaderInv'
<1> USE DEF ReloaderInv, fileVars, loopVars, lockVars, callVars
<1>1. x.at \in Torn..mtime /\ heard \in Seq(Torn..mtime) /\ heard' = Append(heard, x.at)
  BY DEF ReloaderTypeOK, RunCallback
<1>2. ReloaderTypeOK'
  <2>1. heard' \in Seq(Torn..mtime)
    BY <1>1, HeardAppend
  <2> QED
    BY <2>1 DEF RunCallback, ReloaderTypeOK
<1>3. Reported \subseteq Reported'
  <2>1. {heard'[i] : i \in DOMAIN heard'} = {heard[i] : i \in DOMAIN heard} \cup {x.at}
    BY <1>1, HeardAppend
  <2>2. pending' = pending \ {x}
    BY DEF RunCallback
  <2> QED
    BY <2>1, <2>2 DEF Reported
<1>4. MarkInv'
  BY <1>3 DEF RunCallback, MarkInv
<1> QED
  BY <1>2, <1>4

(* Any step.                                                               *)
LEMMA ReloaderInvStep == ReloaderInv /\ [ReloaderNext]_reloaderVars => ReloaderInv'
<1> SUFFICES ASSUME ReloaderInv, [ReloaderNext]_reloaderVars
             PROVE  ReloaderInv'
  OBVIOUS
<1>1. CASE UNCHANGED reloaderVars
  BY <1>1 DEF reloaderVars, fileVars, loopVars, lockVars, callVars, ReloaderInv, ReloaderTypeOK, MarkInv, Reported
<1>2. CASE ReloaderNext
  BY <1>2, FileStep, LoopStep, ClientStep, CloseStep, CallbackStep DEF ReloaderNext
<1> QED
  BY <1>1, <1>2

(* The reloader's state keeps its types; the mark is never ahead of the    *)
(* file, though a callback may be given a torn time.                       *)
THEOREM ReloaderTypeCorrect == ReloaderSpec => []ReloaderTypeOK
<1>1. ReloaderInv => ReloaderTypeOK
  BY DEF ReloaderInv
<1> QED
  BY <1>1, ReloaderInvInit, ReloaderInvStep, PTL DEF ReloaderSpec

(* A modification that will not be looked at again has been reported,      *)
(* however clients and closers compete with the poller for the lock.       *)
THEOREM NoModificationSwallowed == ReloaderSpec => []MarkedIsReported
<1>1. ReloaderInv => MarkedIsReported
  BY DEF ReloaderInv, MarkInv, MarkedIsReported
<1> QED
  BY <1>1, ReloaderInvInit, ReloaderInvStep, PTL DEF ReloaderSpec

-----------------------------------------------------------------------------
(***************************************************************************)
(* Proofs about KeypairReloader, for any clients, closers, tries and       *)
(* history of the two files.                                               *)
(*                                                                         *)
(* What is served depends on what a Reload has in its locals while others  *)
(* replace the files.  Two facts carry the proof: whoever is past Lock is  *)
(* the only one (LockInv), so the pair in use cannot change under a        *)
(* Reload; and the versions it has read are at least those in use, and     *)
(* belong together once the load has succeeded (LoadInv).                  *)
(***************************************************************************)

(* Between k.lock.Lock() and the deferred Unlock.                          *)
Inside == {"announced", "readCert", "readKey", "stat", "publish"}

(* The write lock admits one Reload.                                       *)
LockInv == \A a \in Loaders : loader[a] \in Inside => writer = a

(* The locals of a Reload, by how far it is.                               *)
LoadInv ==
    \A a \in Loaders :
        /\ loader[a] \in {"readKey", "stat", "publish"} =>
             load[a].cert >= 1 /\ load[a].cert >= keypair.cert
        /\ loader[a] \in {"stat", "publish"} =>
             Matches(load[a]) /\ load[a].key >= keypair.key

KeypairInv == KeypairTypeOK /\ LockInv /\ LoadInv /\ ServedPairMatches

(* The locals a Reload can have.                                           *)
Locals == [cert : 0..cert, key : 0..key, try : 0..(Tries - 1), old : 0..cert]

(* The numbers of versions are natural numbers.                            *)
LEMMA Versions == Len(KeyOf) \in Nat \ {0} /\ MaxKey \in Nat \ {0}
<1>1. KeyOf \in Seq(1..MaxKey) /\ Len(KeyOf) >= 1
  BY KeyOfAssumption
<1>2. Len(KeyOf) \in Nat /\ \A i \in 1..Len(KeyOf) : KeyOf[i] \in 1..MaxKey
  BY <1>1, LenProperties, ElementOfSeq
<1>3. 1 \in 1..Len(KeyOf)
  BY <1>1, <1>2
<1> QED
  BY <1>1, <1>2, <1>3, KeypairBoundAssumption

(* Before the first load.                                                  *)
LEMMA KeypairInvInit == KeypairInit => KeypairInv
<1> SUFFICES ASSUME KeypairInit PROVE KeypairInv
  OBVIOUS
<1>1. KeypairTypeOK
  <2>1. NoLoad \in Locals
    BY KeypairBoundAssumption DEF NoLoad, Locals, KeypairInit
  <2>2. load \in [Loaders -> Locals]
    BY <2>1 DEF KeypairInit
  <2>3. keypair \in [cert : 0..cert, key : 0..key] /\ used \in [reloads : 0..MaxReloads, errors : 0..MaxStatErrors]
    BY KeypairBoundAssumption DEF KeypairInit
  <2>4. /\ cert \in 1..Len(KeyOf) /\ key \in 1..MaxKey
        /\ certModifiedAt \in 0..cert /\ keyModifiedAt \in 0..key
    BY Versions DEF KeypairInit
  <2> QED
    BY <2>2, <2>3, <2>4 DEF KeypairInit, KeypairTypeOK, Locals
<1>2. LockInv /\ LoadInv
  BY DEF KeypairInit, LockInv, LoadInv, Inside
<1>3. ServedPairMatches
  BY DEF KeypairInit, ServedPairMatches, Constructed
<1> QED
  BY <1>1, <1>2, <1>3 DEF KeypairInv

(* The files change: versions only grow.                                   *)
LEMMA DiskStep == KeypairInv /\ (WriteCert \/ WriteKey) => KeypairInv'
<1> SUFFICES ASSUME KeypairInv, WriteCert \/ WriteKey PROVE KeypairInv'
  OBVIOUS
<1> USE Versions DEF KeypairInv, timeVars, pairVars, lockVars, closeVars
<1>1. cert' \in cert..Len(KeyOf) /\ key' \in key..MaxKey
  <2>1. cert \in 1..Len(KeyOf) /\ key \in 1..MaxKey
    BY DEF KeypairTypeOK
  <2>2. CASE WriteCert
    BY <2>1, <2>2 DEF WriteCert
  <2>3. CASE WriteKey
    BY <2>1, <2>3 DEF WriteKey
  <2> QED
    BY <2>2, <2>3
<1>2. UNCHANGED <<timeVars, pairVars, loader, load, lockVars, closeVars, used>>
  BY DEF WriteCert, WriteKey
<1>3. \A n \in 0..cert : n \in 0..cert'
  BY <1>1 DEF KeypairTypeOK
<1>4. \A n \in 0..key : n \in 0..key'
  BY <1>1 DEF KeypairTypeOK
<1>5. KeypairTypeOK'
  <2>1. /\ cert' \in 1..Len(KeyOf) /\ key' \in 1..MaxKey
        /\ certModifiedAt' \in 0..cert' /\ keyModifiedAt' \in 0..key'
        /\ notified' \subseteq 1..cert'
    BY <1>1, <1>2 DEF KeypairTypeOK
  <2>2. keypair' \in [cert : 0..cert', key : 0..key']
    BY <1>2, <1>3, <1>4 DEF KeypairTypeOK
  <2>3. load' \in [Loaders -> Locals']
    BY <1>2, <1>3, <1>4 DEF KeypairTypeOK, Locals
  <2> QED
    BY <1>2, <2>1, <2>2, <2>3 DEF KeypairTypeOK, Locals
<1>6. LockInv' /\ LoadInv' /\ ServedPairMatches'
  BY <1>2 DEF LockInv, LoadInv, ServedPairMatches, Matches, Constructed
<1> QED
  BY <1>5, <1>6

(* What concerns neither a load nor the pair.                              *)
LEMMA KeypairOtherStep ==
    ASSUME KeypairInv,
           \/ HourPasses \/ KeypairTick
           \/ \E a \in Clients : CallReload(a)
           \/ \E c \in Closers : KeypairCloseLock(c) \/ KeypairClose(c)
    PROVE  KeypairInv'
<1> USE DEF KeypairInv, diskVars, timeVars, pairVars, lockVars, closeVars
<1>1. Loop \in Loaders /\ Clients \subseteq Loaders
  BY DEF Loaders
<1>2. KeypairTypeOK'
  <2>1. CASE HourPasses \/ KeypairTick
    BY <1>1, <2>1 DEF KeypairTypeOK, HourPasses, KeypairTick
  <2>2. ASSUME NEW a \in Clients, CallReload(a) PROVE KeypairTypeOK'
    <3>1. used \in [reloads : 0..MaxReloads, errors : 0..MaxStatErrors]
      BY DEF KeypairTypeOK
    <3>2. used.reloads + 1 \in 0..MaxReloads
      BY <2>2, <3>1, KeypairBoundAssumption DEF CallReload
    <3>3. used' \in [reloads : 0..MaxReloads, errors : 0..MaxStatErrors]
      BY <2>2, <3>1, <3>2 DEF CallReload
    <3> QED
      BY <1>1, <2>2, <3>3 DEF KeypairTypeOK, CallReload
  <2>3. ASSUME NEW c \in Closers, KeypairCloseLock(c) \/ KeypairClose(c) PROVE KeypairTypeOK'
    BY <1>1, <2>3 DEF KeypairTypeOK, KeypairCloseLock, KeypairClose, KeypairCloseAgain, KeypairCloseMark, KeypairCloseStore, KeypairCloseSend
  <2> QED
    BY <2>1, <2>2, <2>3
<1>3. LockInv' /\ LoadInv'
  BY ZenonT(30), <1>1 DEF KeypairTypeOK, LockInv, LoadInv, Matches, Inside, HourPasses, KeypairTick, CallReload,
              KeypairCloseLock, KeypairClose, KeypairCloseAgain, KeypairCloseMark, KeypairCloseStore, KeypairCloseSend
<1>4. ServedPairMatches'
  BY DEF ServedPairMatches, Constructed, HourPasses, KeypairTick, CallReload,
         KeypairCloseLock, KeypairClose, KeypairCloseAgain, KeypairCloseMark, KeypairCloseStore, KeypairCloseSend
<1> QED
  BY <1>2, <1>3, <1>4

(* One step of a Reload.                                                   *)
LEMMA ReloadStep ==
    ASSUME KeypairInv, NEW a \in Loaders, Reload(a)
    PROVE  KeypairInv'
<1> USE Versions, KeypairBoundAssumption DEF KeypairInv, diskVars, timeVars, pairVars, lockVars, closeVars
<1>0. load \in [Loaders -> Locals] /\ load[a] \in Locals
  BY DEF KeypairTypeOK, Locals
<1>d. /\ cert \in Nat /\ cert >= 1 /\ key \in Nat
      /\ cert \in 0..cert /\ key \in 0..key
      /\ keypair.cert \in 0..cert /\ keypair.key \in 0..key
  BY DEF KeypairTypeOK
<1>a. NoLoad \in Locals
  BY DEF NoLoad, KeypairTypeOK, Locals
<1>c. UNCHANGED <<cert, key>>
  BY DEF Reload, Announce, Enter, ReadCert, LoadFails, LoadSucceeds, StatFiles, Publish
<1>b. ASSUME loader[a] \in Inside PROVE \A b \in Loaders \ {a} : loader[b] \notin Inside
  BY <1>b DEF LockInv
<1>1. CASE Announce(a)
  <2>1. KeypairTypeOK'
    BY <1>1 DEF Announce, KeypairTypeOK
  <2>2. LockInv'
    <3>1. \A b \in Loaders : loader[b] \notin Inside
      BY <1>1, ActorAssumption DEF Announce, LockInv
    <3> QED
      BY <1>1, <3>1 DEF Announce, LockInv, KeypairTypeOK
  <2>3. LoadInv' /\ ServedPairMatches'
    BY <1>1 DEF Announce, LoadInv, ServedPairMatches, Constructed, Matches, KeypairTypeOK
  <2> QED
    BY <2>1, <2>2, <2>3
<1>2. CASE Enter(a)
  <2>1. KeypairTypeOK'
    <3>1. [load[a] EXCEPT !.old = certModifiedAt] \in Locals
      BY <1>0 DEF Locals, KeypairTypeOK
    <3>2. load' \in [Loaders -> Locals]
      BY <1>0, <1>2, <3>1 DEF Enter
    <3> QED
      BY <1>2, <3>2 DEF Enter, KeypairTypeOK, Locals
  <2>2. LockInv'
    BY <1>2 DEF Enter, LockInv, Inside, KeypairTypeOK
  <2>3. LoadInv' /\ ServedPairMatches'
    BY <1>2 DEF Enter, LoadInv, ServedPairMatches, Constructed, Matches, KeypairTypeOK
  <2> QED
    BY <2>1, <2>2, <2>3
<1>3. CASE ReadCert(a)
  <2>1. KeypairTypeOK'
    <3>1. [load[a] EXCEPT !.cert = cert] \in Locals
      BY <1>0, <1>d DEF Locals
    <3>2. load' \in [Loaders -> Locals]
      BY <1>0, <1>3, <3>1 DEF ReadCert
    <3> QED
      BY <1>3, <3>2 DEF ReadCert, KeypairTypeOK, Locals
  <2>2. LockInv'
    BY <1>3 DEF ReadCert, LockInv, Inside, KeypairTypeOK
  <2>3. LoadInv' /\ ServedPairMatches'
    <3>1. loader'[a] = "readKey" /\ load'[a].cert = cert /\ keypair' = keypair
      BY <1>0, <1>3 DEF ReadCert, KeypairTypeOK, Locals
    <3>2. \A b \in Loaders \ {a} : loader'[b] = loader[b] /\ load'[b] = load[b]
      BY <1>0, <1>3 DEF ReadCert, KeypairTypeOK
    <3> QED
      BY <1>d, <3>1, <3>2 DEF LoadInv, ServedPairMatches, Constructed, Matches
  <2> QED
    BY <2>1, <2>2, <2>3
<1>4. CASE LoadFails(a)
  <2>1. KeypairTypeOK'
    <3>1. AfterMismatch(a) = "readCert" => load[a].try + 1 < Tries
      BY DEF AfterMismatch
    <3>2. AfterMismatch(a) = "readCert" => [load[a] EXCEPT !.try = @ + 1] \in Locals
      BY SMTT(30), <1>0, <3>1 DEF Locals
    <3>3. load' \in [Loaders -> Locals]
      BY <1>0, <1>4, <1>a, <3>2 DEF LoadFails
    <3>4. AfterMismatch(a) \in {"idle", "select", "readCert", "failed"}
      BY DEF AfterMismatch
    <3> QED
      BY <1>4, <3>3, <3>4 DEF LoadFails, KeypairTypeOK, Locals
  <2>2. LockInv'
    BY <1>4, <1>b DEF LoadFails, AfterMismatch, LockInv, Inside, KeypairTypeOK
  <2>3. LoadInv' /\ ServedPairMatches'
    <3>1. loader'[a] \notin {"readKey", "stat", "publish"}
      BY <1>4 DEF LoadFails, AfterMismatch, KeypairTypeOK
    <3>2. keypair' = keypair
      BY <1>4 DEF LoadFails
    <3>3. \A b \in Loaders \ {a} : loader'[b] = loader[b] /\ load'[b] = load[b]
      BY <1>0, <1>4 DEF LoadFails, KeypairTypeOK
    <3> QED
      BY <3>1, <3>2, <3>3 DEF LoadInv, ServedPairMatches, Constructed, Matches
  <2> QED
    BY <2>1, <2>2, <2>3
<1>5. CASE LoadSucceeds(a)
  <2>1. WithKey(a) \in Locals
    BY <1>0, <1>d DEF WithKey, Locals
  <2>2. KeypairTypeOK'
    <3>1. load' \in [Loaders -> Locals]
      BY <1>0, <1>5, <2>1 DEF LoadSucceeds
    <3> QED
      BY <1>5, <3>1 DEF LoadSucceeds, KeypairTypeOK, Locals
  <2>3. LockInv'
    BY <1>5 DEF LoadSucceeds, LockInv, Inside, KeypairTypeOK
  <2>4. WithKey(a).cert = load[a].cert /\ WithKey(a).key = key
    BY <1>0 DEF WithKey, Locals
  <2>5. LoadInv' /\ ServedPairMatches'
    <3>1. loader[a] = "readKey" /\ load'[a] = WithKey(a) /\ Matches(WithKey(a)) /\ keypair' = keypair
      BY <1>0, <1>5 DEF LoadSucceeds
    <3>2. \A b \in Loaders \ {a} : loader'[b] = loader[b] /\ load'[b] = load[b]
      BY <1>0, <1>5 DEF LoadSucceeds, KeypairTypeOK
    <3>3. key >= keypair.key
      BY <1>d
    <3> QED
      BY <2>4, <3>1, <3>2, <3>3 DEF LoadInv, ServedPairMatches, Constructed, Matches
  <2> QED
    BY <2>2, <2>3, <2>5
<1>6. CASE StatFiles(a)
  <2>1. KeypairTypeOK'
    <3>0. used \in [reloads : 0..MaxReloads, errors : 0..MaxStatErrors]
      BY DEF KeypairTypeOK
    <3>1. used' \in [reloads : 0..MaxReloads, errors : 0..MaxStatErrors]
      <4>1. used' = used \/ (used.errors < MaxStatErrors /\ used' = [used EXCEPT !.errors = @ + 1])
        BY <1>6 DEF StatFiles
      <4>2. used.errors < MaxStatErrors => used.errors + 1 \in 0..MaxStatErrors
        BY <3>0
      <4> QED
        BY <3>0, <4>1, <4>2
    <3>2. certModifiedAt' \in 0..cert /\ keyModifiedAt' \in 0..key
      <4>1. certModifiedAt' \in {cert, certModifiedAt} /\ keyModifiedAt' \in {key, keyModifiedAt}
        BY <1>6 DEF StatFiles
      <4>2. certModifiedAt \in 0..cert /\ keyModifiedAt \in 0..key
        BY DEF KeypairTypeOK
      <4> QED
        BY <1>d, <4>1, <4>2
    <3> QED
      BY <1>6, <3>1, <3>2 DEF StatFiles, KeypairTypeOK
  <2>2. LockInv'
    BY <1>6 DEF StatFiles, LockInv, Inside, KeypairTypeOK
  <2>3. LoadInv' /\ ServedPairMatches'
    BY <1>6 DEF StatFiles, LoadInv, ServedPairMatches, Constructed, Matches, KeypairTypeOK
  <2> QED
    BY <2>1, <2>2, <2>3
<1>7. CASE Publish(a)
  <2>1. KeypairTypeOK'
    <3>1. load' \in [Loaders -> Locals]
      BY <1>0, <1>7, <1>a DEF Publish
    <3>2. keypair' \in [cert : 0..cert, key : 0..key] /\ notified' \subseteq 1..cert
      <4>1. load[a].cert \in 1..cert /\ load[a].key \in 0..key /\ notified \subseteq 1..cert
        BY <1>0, <1>d, <1>7 DEF Publish, LoadInv, KeypairTypeOK, Locals
      <4>2. load[a].cert \in 0..cert
        BY <1>0 DEF Locals
      <4> QED
        BY <1>7, <4>1, <4>2 DEF Publish
    <3> QED
      BY <1>7, <3>1, <3>2 DEF Publish, KeypairTypeOK, Locals
  <2>2. LockInv'
    BY <1>7, <1>b DEF Publish, LockInv, Inside, KeypairTypeOK
  <2>3. \A b \in Loaders : loader'[b] \notin Inside
    BY <1>7, <1>b DEF Publish, Inside, KeypairTypeOK
  <2>4. LoadInv'
    BY <2>3 DEF LoadInv, Inside
  <2>5. ServedPairMatches'
    BY <1>7 DEF Publish, LoadInv, ServedPairMatches, Matches
  <2> QED
    BY <2>1, <2>2, <2>4, <2>5
<1> QED
  BY <1>1, <1>2, <1>3, <1>4, <1>5, <1>6, <1>7 DEF Reload

(* Any step.                                                               *)
LEMMA KeypairInvStep == KeypairInv /\ [KeypairNext]_keypairVars => KeypairInv'
<1> SUFFICES ASSUME KeypairInv, [KeypairNext]_keypairVars
             PROVE  KeypairInv'
  OBVIOUS
<1>1. CASE UNCHANGED keypairVars
  BY <1>1 DEF keypairVars, diskVars, timeVars, pairVars, lockVars, closeVars, KeypairInv, KeypairTypeOK, LockInv,
              LoadInv, ServedPairMatches, Constructed, Matches
<1>2. CASE KeypairNext
  BY <1>2, DiskStep, KeypairOtherStep, ReloadStep DEF KeypairNext
<1> QED
  BY <1>1, <1>2

(* The reloader's state keeps its types, and the times known are times the *)
(* files have had.                                                         *)
THEOREM KeypairTypeCorrect == KeypairSpec => []KeypairTypeOK
<1>1. KeypairInv => KeypairTypeOK
  BY DEF KeypairInv
<1> QED
  BY <1>1, KeypairInvInit, KeypairInvStep, PTL DEF KeypairSpec

(* Reload never installs a certificate with another certificate's key,     *)
(* whenever the files are replaced and however many callers reload.        *)
THEOREM MatchingPairServed == KeypairSpec => []ServedPairMatches
<1>1. KeypairInv => ServedPairMatches
  BY DEF KeypairInv
<1> QED
  BY <1>1, KeypairInvInit, KeypairInvStep, PTL DEF KeypairSpec

(* The pair in use only moves forward: a Reload that was overtaken between *)
(* its reads and the assignment of k.keypair cannot exist.                 *)
THEOREM ServedPairAdvances == KeypairSpec => NeverServesOlder
<1>1. KeypairInv /\ [KeypairNext]_keypairVars => [keypair'.cert >= keypair.cert /\ keypair'.key >= keypair.key]_keypairVars
  <2> SUFFICES ASSUME KeypairInv, KeypairNext
               PROVE  keypair'.cert >= keypair.cert /\ keypair'.key >= keypair.key
    OBVIOUS
  <2>0. keypair.cert \in Nat /\ keypair.key \in Nat
    BY Versions DEF KeypairInv, KeypairTypeOK
  <2>1. ASSUME NEW a \in Loaders, Publish(a)
        PROVE  keypair'.cert >= keypair.cert /\ keypair'.key >= keypair.key
    BY <2>1 DEF Publish, KeypairInv, LoadInv
  <2>2. ASSUME keypair' = keypair
        PROVE  keypair'.cert >= keypair.cert /\ keypair'.key >= keypair.key
    BY <2>0, <2>2
  <2>3. keypair' = keypair \/ \E a \in Loaders : Publish(a)
    BY DEF KeypairNext, WriteCert, WriteKey, HourPasses, KeypairTick, CallReload, Reload, Announce, Enter, ReadCert,
           LoadFails, LoadSucceeds, StatFiles, KeypairCloseLock, KeypairClose, KeypairCloseAgain, KeypairCloseMark,
           KeypairCloseStore, KeypairCloseSend, pairVars
  <2> QED
    BY <2>1, <2>2, <2>3
<1> QED
  BY <1>1, KeypairInvInit, KeypairInvStep, PTL DEF KeypairSpec, NeverServesOlder

-----------------------------------------------------------------------------
(***************************************************************************)
(* Proofs about SessionPool, for any users, slots and capacity.            *)
(*                                                                         *)
(* ExclusiveUse is inductive once it is known that a user on its way in or *)
(* out of withSession holds no session (HandsEmpty): a session is then in  *)
(* one place, and the only new handle is one nobody has seen.  NoneLost    *)
(* needs the same: taking and giving back move a session between the pool  *)
(* and a hand that is empty before and after.                              *)
(***************************************************************************)

(* Only between taking and giving back does a user hold a session.         *)
HandsEmpty ==
    /\ \A u \in Users : pc[u] \in {"idle", "select"} <=> session[u] = 0
    /\ \A u \in Users : pc[u] # "idle" => slot[u] \in Slots

PoolInv == PoolTypeOK /\ HandsEmpty /\ ExclusiveUse

(* The library is initialised with one session, in the default pool.       *)
LEMMA PoolInvInit == PoolInit => PoolInv
<1> SUFFICES ASSUME PoolInit PROVE PoolInv
  OBVIOUS
<1> USE SlotAssumption DEF PoolInit
<1>1. PoolTypeOK
  <2>1. 1..opened = {1}
    BY DEF PoolInit
  <2>2. pool \in [Slots -> SUBSET (1..opened)]
    BY <2>1
  <2>3. session \in [Users -> 0..opened]
    OBVIOUS
  <2> QED
    BY <2>2, <2>3 DEF PoolTypeOK
<1>2. HandsEmpty
  BY DEF HandsEmpty
<1>3. ExclusiveUse
  <2>1. \A u \in Users : session[u] = 0
    OBVIOUS
  <2>2. \A s \in Slots : pool[s] = IF s = Default THEN {1} ELSE {}
    OBVIOUS
  <2> QED
    BY <2>1, <2>2 DEF ExclusiveUse
<1> QED
  BY <1>1, <1>2, <1>3 DEF PoolInv

(* One step of setupSessions or of a user preserves it.                    *)
LEMMA PoolInvStep == PoolInv /\ [PoolNext]_poolVars => PoolInv'
<1> SUFFICES ASSUME PoolInv, [PoolNext]_poolVars
             PROVE  PoolInv'
  OBVIOUS
<1> USE SlotAssumption, PoolBoundAssumption DEF PoolInv, userVars
<1>1. CASE Setup
  BY <1>1 DEF Setup, SetupBegin, SetupEnd, PoolTypeOK, HandsEmpty, ExclusiveUse
<1>2. ASSUME NEW u \in Users, NEW s \in pools, Lookup(u, s) PROVE PoolInv'
  <2>1. PoolTypeOK'
    BY <1>2 DEF Lookup, PoolTypeOK
  <2>2. HandsEmpty'
    BY <1>2 DEF Lookup, PoolTypeOK, HandsEmpty
  <2>3. ExclusiveUse'
    BY <1>2 DEF Lookup, ExclusiveUse
  <2> QED
    BY <2>1, <2>2, <2>3
<1>3. ASSUME NEW u \in Users, TakePooled(u) PROVE PoolInv'
  <2>0. slot[u] \in Slots
    BY <1>3 DEF TakePooled, HandsEmpty
  <2>1. PICK x \in pool[slot[u]] :
            /\ session' = [session EXCEPT ![u] = x]
            /\ pool' = [pool EXCEPT ![slot[u]] = @ \ {x}]
    BY <1>3 DEF TakePooled
  <2>2. x \in 1..opened
    BY <2>0 DEF PoolTypeOK
  <2>3. PoolTypeOK'
    BY <1>3, <2>0, <2>1, <2>2 DEF TakePooled, PoolTypeOK
  <2>4. HandsEmpty'
    BY <1>3, <2>1 DEF TakePooled, PoolTypeOK, HandsEmpty
  <2>5. /\ session'[u] = x
        /\ \A v \in Users \ {u} : session'[v] = session[v]
        /\ pool'[slot[u]] = pool[slot[u]] \ {x}
        /\ \A t \in Slots \ {slot[u]} : pool'[t] = pool[t]
    BY <2>0, <2>1 DEF PoolTypeOK
  <2>6. \A t \in Slots : pool'[t] \subseteq pool[t] /\ x \notin pool'[t]
    BY <2>0, <2>5 DEF ExclusiveUse
  <2>7. \A v \in Users : session[v] # x
    BY <2>0 DEF ExclusiveUse
  <2>8. ExclusiveUse'
    BY <2>5, <2>6, <2>7 DEF ExclusiveUse
  <2> QED
    BY <2>3, <2>4, <2>8
<1>4. ASSUME NEW u \in Users, OpenNew(u) PROVE PoolInv'
  <2>0. opened \in Nat /\ opened' = opened + 1 /\ pool' = pool
    BY <1>4 DEF OpenNew, PoolTypeOK
  <2>1. PoolTypeOK'
    BY <1>4, <2>0 DEF OpenNew, PoolTypeOK
  <2>2. HandsEmpty'
    BY <1>4 DEF OpenNew, PoolTypeOK, HandsEmpty
  <2>3. /\ session'[u] = opened + 1
        /\ \A v \in Users \ {u} : session'[v] = session[v]
    BY <1>4 DEF OpenNew, PoolTypeOK
  <2>4. /\ \A v \in Users : session[v] # opened + 1
        /\ \A t \in Slots : opened + 1 \notin pool[t]
    BY <2>0 DEF PoolTypeOK
  <2>5. ExclusiveUse'
    BY <2>0, <2>3, <2>4 DEF ExclusiveUse
  <2> QED
    BY <2>1, <2>2, <2>5
<1>5. ASSUME NEW u \in Users, OpenFails(u) \/ Finish(u) PROVE PoolInv'
  <2>1. PoolTypeOK'
    BY <1>5 DEF OpenFails, Finish, PoolTypeOK
  <2>2. HandsEmpty'
    BY <1>5 DEF OpenFails, Finish, PoolTypeOK, HandsEmpty
  <2>3. ExclusiveUse'
    BY <1>5 DEF OpenFails, Finish, ExclusiveUse
  <2> QED
    BY <2>1, <2>2, <2>3
<1>6. ASSUME NEW u \in Users, Give(u) PROVE PoolInv'
  <2>0. slot[u] \in Slots
    BY <1>6 DEF Give, HandsEmpty
  <2>1. /\ session'[u] = 0
        /\ \A v \in Users \ {u} : session'[v] = session[v]
        /\ pool'[slot[u]] = pool[slot[u]] \cup {session[u]}
        /\ \A t \in Slots \ {slot[u]} : pool'[t] = pool[t]
    BY <1>6, <2>0 DEF Give, PoolTypeOK
  <2>2. session[u] \in 1..opened
    BY <1>6 DEF Give, PoolTypeOK, HandsEmpty
  <2>3. PoolTypeOK'
    BY <1>6, <2>0, <2>2 DEF Give, PoolTypeOK
  <2>4. HandsEmpty'
    BY <1>6, <2>1 DEF Give, PoolTypeOK, HandsEmpty
  <2>5. \A v \in Users \ {u} : session[v] # session[u]
    BY <2>2 DEF ExclusiveUse
  <2>6. \A t \in Slots : session[u] \notin pool[t] /\ 0 \notin pool[t]
    BY DEF ExclusiveUse, PoolTypeOK
  <2>7. \A t \in Slots : 0 \notin pool'[t]
    BY <2>0, <2>1, <2>2, <2>6
  <2>8. \A v \in Users, t \in Slots : session'[v] \notin pool'[t]
    BY <2>0, <2>1, <2>5, <2>7 DEF ExclusiveUse
  <2>9. \A v, w \in Users : v # w /\ session'[v] # 0 => session'[v] # session'[w]
    BY <2>1 DEF ExclusiveUse
  <2>10. \A r, t \in Slots : r # t => pool'[r] \cap pool'[t] = {}
    BY <2>0, <2>1, <2>6 DEF ExclusiveUse
  <2> QED
    BY <2>3, <2>4, <2>8, <2>9, <2>10 DEF ExclusiveUse
<1>7. CASE UNCHANGED poolVars
  BY <1>7 DEF poolVars, PoolTypeOK, HandsEmpty, ExclusiveUse
<1> QED
  BY <1>1, <1>2, <1>3, <1>4, <1>5, <1>6, <1>7 DEF PoolNext, Call, Work

(* Two operations never use one session at the same time, however many     *)
(* run and whether the pool is empty, full or missing.                     *)
THEOREM ExclusiveSessions == PoolSpec => []ExclusiveUse
<1>1. PoolInv => ExclusiveUse
  BY DEF PoolInv
<1> QED
  BY <1>1, PoolInvInit, PoolInvStep, PTL DEF PoolSpec

(* A session is in a pool or in a hand, one by one.                        *)
LEMMA Placed ==
    NoneLost <=> \A n \in 1..opened : \/ \E s \in Slots : n \in pool[s]
                                      \/ \E u \in Users : n = session[u]
  BY DEF NoneLost

(* The same after a step.                                                  *)
LEMMA PlacedNext ==
    NoneLost' <=> \A n \in 1..opened' : \/ \E s \in Slots : n \in pool'[s]
                                        \/ \E u \in Users : n = session'[u]
  BY DEF NoneLost

(* No step of withSession drops a session it has taken or opened.          *)
LEMMA NoneLostStep == PoolInv /\ NoneLost /\ [PoolNext]_poolVars => NoneLost'
<1> SUFFICES ASSUME PoolInv, NoneLost, [PoolNext]_poolVars
             PROVE  NoneLost'
  OBVIOUS
<1> USE SlotAssumption, PoolBoundAssumption DEF PoolInv, userVars
<1>1. CASE Setup
  BY <1>1 DEF Setup, SetupBegin, SetupEnd, NoneLost
<1>2. ASSUME NEW u \in Users, NEW s \in pools, Lookup(u, s) PROVE NoneLost'
  BY <1>2 DEF Lookup, NoneLost
<1>3. ASSUME NEW u \in Users, TakePooled(u) PROVE NoneLost'
  <2>1. slot[u] \in Slots /\ session[u] = 0
    BY <1>3 DEF TakePooled, HandsEmpty
  <2>2. PICK x \in pool[slot[u]] :
            /\ session' = [session EXCEPT ![u] = x]
            /\ pool' = [pool EXCEPT ![slot[u]] = @ \ {x}]
    BY <1>3 DEF TakePooled
  <2>3. /\ session'[u] = x
        /\ \A v \in Users \ {u} : session'[v] = session[v]
        /\ pool'[slot[u]] = pool[slot[u]] \ {x}
        /\ \A t \in Slots \ {slot[u]} : pool'[t] = pool[t]
    BY <2>1, <2>2 DEF PoolTypeOK
  <2>4. opened' = opened /\ opened \in Nat
    BY <1>3 DEF TakePooled, PoolTypeOK
  <2>5. ASSUME NEW n \in 1..opened
        PROVE  \/ \E s \in Slots : n \in pool'[s]
               \/ \E v \in Users : n = session'[v]
    <3>1. CASE \E s \in Slots : n \in pool[s]
      BY <2>3, <3>1
    <3>2. CASE \E v \in Users : n = session[v]
      <4>1. PICK v \in Users : n = session[v]
        BY <3>2
      <4>2. v # u
        BY <2>1, <2>4, <4>1
      <4> QED
        BY <2>3, <4>1, <4>2
    <3> QED
      BY <3>1, <3>2, Placed
  <2> QED
    BY <2>4, <2>5, PlacedNext
<1>4. ASSUME NEW u \in Users, OpenNew(u) PROVE NoneLost'
  <2>1. /\ session[u] = 0
        /\ session'[u] = opened + 1
        /\ \A v \in Users \ {u} : session'[v] = session[v]
    BY <1>4 DEF OpenNew, PoolTypeOK, HandsEmpty
  <2>2. opened \in Nat /\ opened' = opened + 1 /\ pool' = pool
    BY <1>4 DEF OpenNew, PoolTypeOK
  <2>3. ASSUME NEW n \in 1..(opened + 1)
        PROVE  \/ \E s \in Slots : n \in pool'[s]
               \/ \E v \in Users : n = session'[v]
    <3>1. CASE n = opened + 1
      BY <2>1, <3>1
    <3>2. CASE n \in 1..opened
      <4>1. \/ \E s \in Slots : n \in pool[s]
            \/ \E v \in Users : n = session[v] /\ v # u
        BY <2>1, <2>2, <3>2, Placed
      <4> QED
        BY <2>1, <2>2, <4>1
    <3> QED
      BY <2>2, <3>1, <3>2
  <2> QED
    BY <2>2, <2>3, PlacedNext
<1>5. ASSUME NEW u \in Users, OpenFails(u) \/ Finish(u) PROVE NoneLost'
  BY <1>5 DEF OpenFails, Finish, NoneLost
<1>6. ASSUME NEW u \in Users, Give(u) PROVE NoneLost'
  <2>1. slot[u] \in Slots /\ opened' = opened
    BY <1>6 DEF Give, HandsEmpty
  <2>2. /\ \A v \in Users \ {u} : session'[v] = session[v]
        /\ pool'[slot[u]] = pool[slot[u]] \cup {session[u]}
        /\ \A t \in Slots \ {slot[u]} : pool'[t] = pool[t]
    BY <1>6, <2>1 DEF Give, PoolTypeOK
  <2>3. ASSUME NEW n \in 1..opened
        PROVE  \/ \E s \in Slots : n \in pool'[s]
               \/ \E v \in Users : n = session'[v]
    <3>1. CASE \E s \in Slots : n \in pool[s]
      BY <2>1, <2>2, <3>1
    <3>2. CASE \E v \in Users : n = session[v]
      BY <2>1, <2>2, <3>2
    <3> QED
      BY <3>1, <3>2, Placed
  <2> QED
    BY <2>1, <2>3, PlacedNext
<1>7. CASE UNCHANGED poolVars
  BY <1>7 DEF poolVars, NoneLost
<1> QED
  BY <1>1, <1>2, <1>3, <1>4, <1>5, <1>6, <1>7 DEF PoolNext, Call, Work

(* No session leaks, whichever operations fail, wait or overlap: the pool  *)
(* and the users together hold every session that was ever opened.         *)
THEOREM NoSessionLost == PoolSpec => []NoneLost
<1>1. PoolInit => NoneLost
  <2> SUFFICES ASSUME PoolInit PROVE NoneLost
    OBVIOUS
  <2>1. opened = 1 /\ 1 \in pool[Default] /\ Default \in Slots
    BY SlotAssumption DEF PoolInit
  <2>2. \A n \in 1..opened : n = 1
    BY <2>1
  <2> QED
    BY <2>1, <2>2, Placed
<1> QED
  BY <1>1, PoolInvInit, PoolInvStep, NoneLostStep, PTL DEF PoolSpec

-----------------------------------------------------------------------------
(***************************************************************************)
(* Proof that ChannelWriter implements AsyncLog, for any depth of the      *)
(* channel, writers, stoppers and buffers, with and without a Flush.       *)
(*                                                                         *)
(* The log is the pipeline dest, held, queue.  Every step but Write leaves *)
(* it alone, which rests on the buffers (BufferInv): the ones on their way *)
(* are different and out of the pool, so that Write fills none of them.    *)
(* CountInv says that the pipeline is as long as the messages issued, so   *)
(* when the drain finds the channel empty everything acknowledged before   *)
(* Stop is in dest; StopInv carries that to the return of the winner.      *)
(***************************************************************************)

(* The messages in the buffers of a queue.                                 *)
Msgs(q, c) == [k \in DOMAIN q |-> c[q[k]]]

(* The message listen holds.                                               *)
InHand(h, c) == IF h = NoBuffer THEN <<>> ELSE <<c[h]>>

(* What counts as flushed: a dest without Flush keeps nothing back.        *)
OnDisk == IF CanFlush THEN flushed ELSE Len(dest)

(* The buffers on their way are all different.                             *)
BufferInv ==
    /\ \A j, k \in DOMAIN queue : queue[j] = queue[k] => j = k
    /\ \A k \in DOMAIN queue : queue[k] # held

(* Nothing issued is missing from the pipeline.                            *)
CountInv == issued = Len(dest) + (IF held = NoBuffer THEN 0 ELSE 1) + Len(queue)

(* The winner of the CompareAndSwap is the one who stops listen, and what  *)
(* was acknowledged before its call is flushed when listen has stopped.    *)
StopInv ==
    /\ winner # Nobody => stopper[winner] # "idle"
    /\ \A s \in Stoppers : stopper[s] \in {"sending", "waiting"} => winner = s
    /\ \A s \in Stoppers : due[s] <= issued
    /\ listen # "select" => winner # Nobody
    /\ listen \in {"stopped", "ended"} => held = NoBuffer /\ OnDisk >= due[winner]

WriterInv == TypeOK /\ BufferInv /\ CountInv /\ StopInv

-----------------------------------------------------------------------------
(* The messages of a queue are a sequence as long as it.                   *)
LEMMA MsgsSeq ==
    ASSUME NEW q \in Seq(Buffers), NEW c \in [Buffers -> Nat]
    PROVE  /\ Msgs(q, c) \in Seq(Nat)
           /\ Len(Msgs(q, c)) = Len(q)
           /\ \A k \in 1..Len(q) : Msgs(q, c)[k] = c[q[k]]
<1>1. Len(q) \in Nat /\ DOMAIN q = 1..Len(q)
  BY LenProperties
<1>2. \A k \in 1..Len(q) : c[q[k]] \in Nat
  BY <1>1, ElementOfSeq
<1>3. Msgs(q, c) = [k \in 1..Len(q) |-> c[q[k]]]
  BY <1>1 DEF Msgs
<1>4. Msgs(q, c) \in Seq(Nat)
  BY <1>1, <1>2, <1>3
<1>5. DOMAIN Msgs(q, c) = 1..Len(q)
  BY <1>3
<1>6. Len(Msgs(q, c)) = Len(q)
  BY <1>1, <1>4, <1>5
<1> QED
  BY <1>3, <1>4, <1>6

(* A send appends one message, if it fills no buffer that is queued.       *)
LEMMA MsgsAppend ==
    ASSUME NEW q \in Seq(Buffers), NEW c \in [Buffers -> Nat], NEW b \in Buffers, NEW m \in Nat,
           \A k \in DOMAIN q : q[k] # b
    PROVE  Msgs(Append(q, b), [c EXCEPT ![b] = m]) = Append(Msgs(q, c), m)
<1> DEFINE q2 == Append(q, b)
           c2 == [c EXCEPT ![b] = m]
           new == Msgs(q2, c2)
           old == Append(Msgs(q, c), m)
<1>1. q2 \in Seq(Buffers) /\ Len(q2) = Len(q) + 1 /\ Len(q) \in Nat /\ DOMAIN q = 1..Len(q)
  BY AppendProperties, LenProperties
<1>2. (\A k \in 1..Len(q) : q2[k] = q[k]) /\ q2[Len(q) + 1] = b
  BY AppendProperties
<1>3. c2 \in [Buffers -> Nat] /\ c2[b] = m /\ \A d \in Buffers \ {b} : c2[d] = c[d]
  OBVIOUS
<1>4. \A k \in 1..Len(q) : q[k] \in Buffers
  BY ElementOfSeq
<1>5. /\ Msgs(q, c) \in Seq(Nat) /\ Len(Msgs(q, c)) = Len(q)
      /\ \A k \in 1..Len(q) : Msgs(q, c)[k] = c[q[k]]
  BY MsgsSeq
<1>6. /\ old \in Seq(Nat) /\ Len(old) = Len(q) + 1
      /\ \A k \in 1..Len(q) : old[k] = c[q[k]]
      /\ old[Len(q) + 1] = m
  <2> DEFINE w == Msgs(q, c)
  <2>1. w \in Seq(Nat) /\ Len(w) = Len(q) /\ (\A k \in 1..Len(q) : w[k] = c[q[k]]) /\ old = Append(w, m)
    BY <1>5
  <2> HIDE DEF w, old
  <2>2. /\ old \in Seq(Nat) /\ Len(old) = Len(w) + 1
        /\ (\A k \in 1..Len(w) : old[k] = w[k]) /\ old[Len(w) + 1] = m
    BY <2>1, AppendProperties
  <2> QED
    BY <2>1, <2>2
<1> HIDE DEF q2, c2
<1>7. /\ new \in Seq(Nat) /\ Len(new) = Len(q) + 1
      /\ \A k \in 1..(Len(q) + 1) : new[k] = c2[q2[k]]
  BY SMTT(30), <1>1, <1>3, MsgsSeq
<1> HIDE DEF new, old
<1>8. ASSUME NEW k \in 1..(Len(q) + 1) PROVE new[k] = old[k]
  <2>1. CASE k = Len(q) + 1
    BY <1>2, <1>3, <1>6, <1>7, <2>1
  <2>2. CASE k \in 1..Len(q)
    <3>1. q[k] \in Buffers \ {b}
      BY <1>1, <1>4, <2>2
    <3>2. c2[q2[k]] = c[q[k]]
      BY <1>2, <1>3, <2>2, <3>1
    <3> QED
      BY <1>6, <1>7, <2>2, <3>2
  <2> QED
    BY <1>1, <2>1, <2>2
<1>9. new = old
  BY <1>6, <1>7, <1>8, SeqEqual
<1> QED
  BY <1>9 DEF new, old, q2, c2

(* A receive splits off the first message.                                 *)
LEMMA MsgsHead ==
    ASSUME NEW q \in Seq(Buffers), NEW c \in [Buffers -> Nat], q # <<>>
    PROVE  Msgs(q, c) = <<c[Head(q)]>> \o Msgs(Tail(q), c)
<1>1. /\ Len(q) \in Nat \ {0} /\ Tail(q) \in Seq(Buffers) /\ Len(Tail(q)) = Len(q) - 1
      /\ \A k \in 1..(Len(q) - 1) : Tail(q)[k] = q[k + 1]
  BY HeadTailProperties, LenProperties, EmptySeq
<1>2. Head(q) = q[1] /\ q[1] \in Buffers
  BY <1>1, ElementOfSeq
<1>3. /\ Msgs(q, c) \in Seq(Nat) /\ Len(Msgs(q, c)) = Len(q)
      /\ \A k \in 1..Len(q) : Msgs(q, c)[k] = c[q[k]]
  BY MsgsSeq
<1>4. /\ Msgs(Tail(q), c) \in Seq(Nat) /\ Len(Msgs(Tail(q), c)) = Len(q) - 1
      /\ \A k \in 1..(Len(q) - 1) : Msgs(Tail(q), c)[k] = c[q[k + 1]]
  <2> DEFINE t == Tail(q)
  <2>1. t \in Seq(Buffers) /\ Len(t) = Len(q) - 1 /\ \A k \in 1..(Len(q) - 1) : t[k] = q[k + 1]
    BY <1>1
  <2> HIDE DEF t
  <2>2. /\ Msgs(t, c) \in Seq(Nat) /\ Len(Msgs(t, c)) = Len(t)
        /\ \A k \in 1..Len(t) : Msgs(t, c)[k] = c[t[k]]
    BY <2>1, MsgsSeq
  <2>3. /\ Msgs(t, c) \in Seq(Nat) /\ Len(Msgs(t, c)) = Len(q) - 1
        /\ \A k \in 1..(Len(q) - 1) : Msgs(t, c)[k] = c[q[k + 1]]
    BY <2>1, <2>2
  <2> QED
    BY <2>3 DEF t
<1>5. <<c[Head(q)]>> \in Seq(Nat) /\ Len(<<c[Head(q)]>>) = 1 /\ <<c[Head(q)]>>[1] = c[q[1]]
  BY <1>2
<1> DEFINE r == <<c[Head(q)]>> \o Msgs(Tail(q), c)
<1>6. /\ r \in Seq(Nat) /\ Len(r) = Len(q)
      /\ \A k \in 1..Len(q) : r[k] = IF k <= 1 THEN <<c[Head(q)]>>[k] ELSE Msgs(Tail(q), c)[k - 1]
  <2> DEFINE first == <<c[Head(q)]>>
             rest == Msgs(Tail(q), c)
  <2>1. first \in Seq(Nat) /\ Len(first) = 1 /\ rest \in Seq(Nat) /\ Len(rest) = Len(q) - 1
    BY <1>4, <1>5
  <2> HIDE DEF first, rest
  <2>2. /\ first \o rest \in Seq(Nat) /\ Len(first \o rest) = Len(first) + Len(rest)
        /\ \A k \in 1..(Len(first) + Len(rest)) :
             (first \o rest)[k] = IF k <= Len(first) THEN first[k] ELSE rest[k - Len(first)]
    BY <2>1, ConcatProperties, Zenon
  <2>3. Len(first) = 1 /\ Len(first) + Len(rest) = Len(q)
    BY <1>1, <2>1
  <2> QED
    BY <2>2, <2>3 DEF first, rest
<1> HIDE DEF r
<1>7. \A k \in 1..Len(q) : Msgs(q, c)[k] = r[k]
  <2> TAKE k \in 1..Len(q)
  <2>1. CASE k = 1
    BY <1>3, <1>5, <1>6, <2>1
  <2>2. CASE k # 1
    <3>1. k - 1 \in 1..(Len(q) - 1) /\ (k - 1) + 1 = k /\ ~(k <= 1)
      BY <1>1, <2>2
    <3> QED
      BY <1>3, <1>4, <1>6, <3>1
  <2> QED
    BY <2>1, <2>2
<1>8. Msgs(q, c) = r
  BY <1>3, <1>6, <1>7, SeqEqual
<1> QED
  BY <1>8 DEF r
-----------------------------------------------------------------------------
(* A new writer is empty and nobody has stopped it.                        *)
LEMMA IInvInit == Init => WriterInv
<1> SUFFICES ASSUME Init PROVE WriterInv
  OBVIOUS
<1>1. TypeOK
  BY DEF Init, TypeOK
<1>2. BufferInv
  BY DEF Init, BufferInv
<1>3. CountInv
  BY DEF Init, CountInv
<1>4. StopInv
  BY NobodyAssumption DEF Init, StopInv
<1> QED
  BY <1>1, <1>2, <1>3, <1>4 DEF WriterInv

(* Write takes a buffer nobody else uses.                                  *)
LEMMA WriteStep ==
    ASSUME WriterInv, NEW w \in Writers, Write(w)
    PROVE  WriterInv'
<1> USE DEF WriterInv, destVars, stopVars
<1>1. PICK b \in Buffers \ inUse :
          /\ inUse' = inUse \cup {b}
          /\ content' = [content EXCEPT ![b] = issued + 1]
          /\ queue' = Append(queue, b)
  BY DEF Write
<1>2. queue \in Seq(inUse \cup {b}) /\ queue \in Seq(inUse)
  BY SeqMonotonic DEF TypeOK
<1>3. /\ queue' \in Seq(inUse') /\ Len(queue') = Len(queue) + 1 /\ Len(queue) \in Nat
      /\ DOMAIN queue = 1..Len(queue) /\ DOMAIN queue' = 1..(Len(queue) + 1)
      /\ \A k \in 1..Len(queue) : queue'[k] = queue[k]
      /\ queue'[Len(queue) + 1] = b
  BY <1>1, <1>2, AppendProperties, LenProperties
<1>4. \A k \in 1..Len(queue) : queue[k] \in inUse
  BY <1>2, ElementOfSeq
<1>5. TypeOK'
  <2>1. content' \in [Buffers -> Nat] /\ issued' \in Nat /\ mine' \in [Writers -> Nat]
    BY <1>1 DEF Write, TypeOK
  <2> QED
    BY <1>1, <1>3, <2>1 DEF Write, TypeOK
<1>6. BufferInv'
  <2>1. held' = held /\ held # b
    BY <1>1, NoBufferAssumption DEF Write, TypeOK
  <2>2. \A k \in 1..(Len(queue) + 1) : k = Len(queue) + 1 \/ k \in 1..Len(queue)
    BY <1>3
  <2> QED
    BY <1>1, <1>3, <1>4, <2>1, <2>2 DEF BufferInv
<1>7. CountInv'
  <2>1. /\ held' = held /\ dest' = dest /\ issued' = issued + 1 /\ Len(dest) \in Nat
        /\ issued \in Nat
    BY LenProperties DEF Write, TypeOK
  <2>2. Len(queue') = Len(queue) + 1 /\ Len(queue) \in Nat
    BY <1>3
  <2> DEFINE h == IF held = NoBuffer THEN 0 ELSE 1
  <2>3. h \in Nat /\ issued = Len(dest) + h + Len(queue)
    BY DEF CountInv
  <2>4. CountInv' <=> issued' = Len(dest) + h + Len(queue')
    BY <2>1 DEF CountInv
  <2> HIDE DEF h
  <2> QED
    BY <2>1, <2>2, <2>3, <2>4
<1>8. StopInv'
  <2>1. issued' = issued + 1 /\ issued \in Nat /\ due \in [Stoppers -> Nat]
    BY DEF Write, TypeOK
  <2>2. UNCHANGED <<held, dest, flushed, listen, winner, stopper, due>>
    BY DEF Write
  <2> QED
    BY <2>1, <2>2 DEF StopInv, OnDisk
<1> QED
  BY <1>5, <1>6, <1>7, <1>8

(* A receive moves a buffer from the channel into listen's hand.           *)
LEMMA ReceiveStep == WriterInv /\ Receive => WriterInv'
<1> SUFFICES ASSUME WriterInv, Receive PROVE WriterInv'
  OBVIOUS
<1> USE DEF WriterInv, stopVars
<1>1. queue \in Seq(inUse) /\ queue # <<>> /\ queue' = Tail(queue) /\ held' = Head(queue)
  BY DEF Receive, TypeOK
<1>2. /\ Len(queue) \in Nat \ {0} /\ DOMAIN queue = 1..Len(queue)
      /\ queue' \in Seq(inUse) /\ Len(queue') = Len(queue) - 1
      /\ DOMAIN queue' = 1..(Len(queue) - 1)
      /\ \A k \in 1..(Len(queue) - 1) : queue'[k] = queue[k + 1]
  BY <1>1, HeadTailProperties, LenProperties, EmptySeq
<1>3. held' = queue[1] /\ held' \in inUse /\ held' # NoBuffer
  BY <1>1, <1>2, ElementOfSeq, NoBufferAssumption DEF TypeOK
<1>4. TypeOK'
  BY <1>2, <1>3 DEF Receive, TypeOK
<1>5. BufferInv'
  <2>1. \A k \in 1..(Len(queue) - 1) : k + 1 \in 1..Len(queue) /\ k + 1 # 1
    BY <1>2
  <2> QED
    BY <1>2, <1>3, <2>1 DEF BufferInv
<1>6. CountInv'
  <2>1. held = NoBuffer /\ dest' = dest /\ issued' = issued /\ Len(dest) \in Nat
    BY DEF Receive, TypeOK
  <2> QED
    BY <1>2, <1>3, <2>1 DEF CountInv
<1>7. StopInv'
  BY DEF Receive, StopInv, OnDisk
<1> QED
  BY <1>4, <1>5, <1>6, <1>7

(* dest gets the message; only the buffer written is put back.             *)
LEMMA DestWriteStep == WriterInv /\ DestWrite => WriterInv'
<1> SUFFICES ASSUME WriterInv, DestWrite PROVE WriterInv'
  OBVIOUS
<1> USE DEF WriterInv, stopVars
<1>1. /\ held \in inUse /\ held \in Buffers /\ inUse' = inUse \ {held} /\ held' = NoBuffer
      /\ held # NoBuffer
      /\ dest' = Append(dest, content[held]) /\ content[held] \in Nat
  BY DEF DestWrite, TypeOK
<1>2. dest \in Seq(Nat) /\ Len(dest) \in Nat /\ dest' \in Seq(Nat) /\ Len(dest') = Len(dest) + 1
  BY <1>1, AppendProperties, LenProperties DEF TypeOK
<1>3. queue' = queue /\ queue \in Seq(inUse') /\ Len(queue) \in Nat
  <2>1. queue \in Seq(inUse) /\ Len(queue) \in Nat /\ DOMAIN queue = 1..Len(queue)
    BY LenProperties DEF TypeOK
  <2>2. \A k \in 1..Len(queue) : queue[k] \in inUse'
    BY <1>1, <2>1, ElementOfSeq DEF BufferInv
  <2>3. queue \in [1..Len(queue) -> inUse']
    BY <2>1, <2>2, LenProperties
  <2>4. queue \in Seq(inUse')
    BY <2>1, <2>3, SeqDef
  <2> QED
    BY <2>1, <2>4 DEF DestWrite
<1>4. TypeOK'
  BY <1>1, <1>2, <1>3 DEF DestWrite, TypeOK
<1>5. BufferInv'
  <2>1. \A k \in DOMAIN queue : queue[k] \in inUse
    BY LenProperties, ElementOfSeq DEF TypeOK
  <2> QED
    BY <1>1, <1>3, <2>1, NoBufferAssumption DEF BufferInv, TypeOK
<1>6. CountInv'
  BY <1>1, <1>2, <1>3 DEF CountInv, DestWrite
<1>7. StopInv'
  <2>1. UNCHANGED <<issued, flushed, listen, winner, stopper, due>>
    BY DEF DestWrite
  <2>2. listen \notin {"stopped", "ended"}
    BY <1>1 DEF StopInv
  <2> QED
    BY <2>1, <2>2 DEF StopInv
<1> QED
  BY <1>4, <1>5, <1>6, <1>7

(* Flushes; the drain ends with an empty channel, so dest has everything.  *)
LEMMA FlushStep == WriterInv /\ (FlushTick \/ DrainDone) => WriterInv'
<1> SUFFICES ASSUME WriterInv, FlushTick \/ DrainDone PROVE WriterInv'
  OBVIOUS
<1> USE DEF WriterInv, writeVars, stopVars
<1>1. UNCHANGED <<writeVars, held, dest, stopVars>> /\ Len(dest) \in Nat
  BY DEF FlushTick, DrainDone, TypeOK
<1>2. TypeOK'
  BY <1>1 DEF FlushTick, DrainDone, TypeOK
<1>3. BufferInv' /\ CountInv'
  BY <1>1 DEF BufferInv, CountInv
<1>4. StopInv'
  <2>1. CASE FlushTick
    BY <1>1, <2>1 DEF FlushTick, StopInv
  <2>2. CASE DrainDone
    <3>1. held = NoBuffer /\ queue = <<>> /\ listen = "drain" /\ listen' = "stopped"
      BY <2>2 DEF DrainDone
    <3>2. Len(dest) = issued
      BY <1>1, <3>1 DEF CountInv
    <3>3. OnDisk' = Len(dest)
      BY <1>1, <2>2 DEF DrainDone, OnDisk
    <3>4. winner \in Stoppers /\ due[winner] <= issued /\ due[winner] \in Nat
      BY <3>1 DEF StopInv, TypeOK
    <3> QED
      BY <1>1, <3>1, <3>2, <3>3, <3>4 DEF StopInv, TypeOK
  <2> QED
    BY <2>1, <2>2
<1> QED
  BY <1>2, <1>3, <1>4

(* What has been acknowledged lies between what dest has and what was      *)
(* issued.                                                                 *)
LEMMA AckedBounds == WriterInv => Acked \in Len(dest)..issued
<1> SUFFICES ASSUME WriterInv PROVE Acked \in Len(dest)..issued
  OBVIOUS
<1>1. Len(dest) \in Nat /\ Len(queue) \in Nat /\ issued \in Nat
  BY LenProperties DEF WriterInv, TypeOK
<1> QED
  BY <1>1, DepthAssumption DEF WriterInv, CountInv, Acked

(* A step of a Stop.                                                       *)
LEMMA StopStep ==
    ASSUME WriterInv, NEW s \in Stoppers, StopCall(s) \/ StopSend(s) \/ StopReturn(s)
    PROVE  WriterInv'
<1> USE DEF WriterInv, writeVars, destVars, stopVars
<1>1. UNCHANGED <<writeVars, destVars>>
  BY DEF StopCall, StopSend, StopReturn
<1>2. BufferInv' /\ CountInv'
  BY <1>1 DEF BufferInv, CountInv
<1>3. CASE StopCall(s)
  <2>1. Acked \in Nat /\ Acked <= issued
    BY AckedBounds DEF TypeOK
  <2>2. TypeOK'
    BY <1>1, <1>3, <2>1 DEF StopCall, TypeOK
  <2>3. StopInv'
    <3>1. winner # Nobody => winner # s
      BY <1>3 DEF StopCall, StopInv
    <3>2. OnDisk' = OnDisk
      BY <1>1 DEF OnDisk
    <3>3. /\ winner' = IF winner = Nobody THEN s ELSE winner
          /\ due' = [due EXCEPT ![s] = Acked]
          /\ stopper' = [stopper EXCEPT ![s] = IF winner = Nobody THEN "sending" ELSE "returned"]
          /\ UNCHANGED <<listen, held, issued>>
      BY <1>3 DEF StopCall
    <3>4. winner' # Nobody /\ stopper'[winner'] # "idle"
      BY <3>1, <3>3, NobodyAssumption DEF StopInv, TypeOK
    <3>5. \A t \in Stoppers : stopper'[t] \in {"sending", "waiting"} => winner' = t
      BY <3>1, <3>3, NobodyAssumption DEF StopInv, TypeOK
    <3>6. \A t \in Stoppers : due'[t] <= issued'
      BY <2>1, <3>3 DEF StopInv, TypeOK
    <3>7. listen' \in {"stopped", "ended"} => held' = NoBuffer /\ OnDisk' >= due'[winner']
      BY <3>1, <3>2, <3>3 DEF StopInv, TypeOK
    <3> QED
      BY <3>4, <3>5, <3>6, <3>7 DEF StopInv
  <2> QED
    BY <1>2, <2>2, <2>3
<1>4. CASE StopSend(s) \/ StopReturn(s)
  <2>1. TypeOK'
    BY <1>1, <1>4 DEF StopSend, StopReturn, TypeOK
  <2>2. StopInv'
    <3>1. winner = s /\ UNCHANGED <<winner, due, held, issued>> /\ s # Nobody
      BY <1>4, NobodyAssumption DEF StopSend, StopReturn, StopInv
    <3>2. OnDisk' = OnDisk
      BY <1>1 DEF OnDisk
    <3>3. \A t \in Stoppers \ {s} : stopper'[t] = stopper[t]
      BY <1>4 DEF StopSend, StopReturn, TypeOK
    <3>4. stopper'[s] # "idle"
      BY <1>4 DEF StopSend, StopReturn, TypeOK
    <3>5. listen' \in {"stopped", "ended"} => listen = "stopped"
      BY <1>4 DEF StopSend, StopReturn
    <3> QED
      BY <3>1, <3>2, <3>3, <3>4, <3>5 DEF StopInv
  <2> QED
    BY <1>2, <2>1, <2>2
<1> QED
  BY <1>3, <1>4

(* Any step.                                                               *)
LEMMA IInvStep == WriterInv /\ [Next]_vars => WriterInv'
<1> SUFFICES ASSUME WriterInv, [Next]_vars
             PROVE  WriterInv'
  OBVIOUS
<1>1. CASE UNCHANGED vars
  BY <1>1 DEF vars, writeVars, destVars, stopVars, WriterInv, TypeOK, BufferInv, CountInv, StopInv, OnDisk
<1>2. CASE Next
  BY <1>2, WriteStep, ReceiveStep, DestWriteStep, FlushStep, StopStep DEF Next
<1> QED
  BY <1>1, <1>2

-----------------------------------------------------------------------------
(* The pipeline in terms of its three parts.                               *)
LEMMA PipelineParts ==
    ASSUME WriterInv
    PROVE  /\ Pipeline = (dest \o InHand(held, content)) \o Msgs(queue, content)
           /\ dest \in Seq(Nat) /\ InHand(held, content) \in Seq(Nat)
           /\ Msgs(queue, content) \in Seq(Nat)
           /\ queue \in Seq(Buffers) /\ content \in [Buffers -> Nat]
           /\ Pipeline \in Seq(Nat) /\ Len(Pipeline) = issued
<1> DEFINE h == InHand(held, content)
           m == Msgs(queue, content)
<1>1. Pipeline = (dest \o h) \o m
  BY DEF Pipeline, InHand, Msgs
<1>2. queue \in Seq(Buffers) /\ content \in [Buffers -> Nat]
  BY SeqMonotonic DEF WriterInv, TypeOK
<1>3. m \in Seq(Nat) /\ Len(m) = Len(queue)
  BY <1>2, MsgsSeq
<1>4. h \in Seq(Nat) /\ Len(h) = IF held = NoBuffer THEN 0 ELSE 1
  <2>1. held # NoBuffer => content[held] \in Nat
    BY <1>2 DEF WriterInv, TypeOK
  <2> QED
    BY <2>1 DEF InHand
<1>5. dest \in Seq(Nat)
  BY DEF WriterInv, TypeOK
<1> HIDE DEF h, m
<1>6. dest \o h \in Seq(Nat) /\ Len(dest \o h) = Len(dest) + Len(h)
  BY <1>4, <1>5, ConcatProperties
<1>7. (dest \o h) \o m \in Seq(Nat) /\ Len((dest \o h) \o m) = Len(dest \o h) + Len(m)
  BY <1>3, <1>6, ConcatProperties
<1>8. Len(Pipeline) = issued
  BY <1>1, <1>3, <1>4, <1>6, <1>7 DEF WriterInv, CountInv
<1> QED
  BY <1>1, <1>2, <1>3, <1>4, <1>5, <1>7, <1>8 DEF h, m

(* Write accepts its message at the end of the log.                        *)
LEMMA WriteAccepts ==
    ASSUME WriterInv, NEW w \in Writers, Write(w)
    PROVE  Pipeline' = Append(Pipeline, issued + 1)
<1>1. PICK b \in Buffers \ inUse :
          /\ content' = [content EXCEPT ![b] = issued + 1]
          /\ queue' = Append(queue, b)
  BY DEF Write
<1>2. UNCHANGED <<dest, held>> /\ issued + 1 \in Nat
  BY DEF Write, destVars, WriterInv, TypeOK
<1>3. \A k \in DOMAIN queue : queue[k] # b
  BY <1>1, LenProperties, ElementOfSeq DEF WriterInv, TypeOK
<1>4. Msgs(queue', content') = Append(Msgs(queue, content), issued + 1)
  BY <1>1, <1>2, <1>3, MsgsAppend, PipelineParts
<1>5. InHand(held', content') = InHand(held, content)
  BY <1>1, <1>2 DEF InHand, WriterInv, TypeOK
<1>6. Pipeline' = (dest \o InHand(held, content)) \o Msgs(queue', content')
  BY <1>2, <1>5 DEF Pipeline, InHand, Msgs
<1> DEFINE d == dest \o InHand(held, content)
           m == Msgs(queue, content)
<1>7. d \in Seq(Nat) /\ m \in Seq(Nat)
  BY PipelineParts, ConcatProperties
<1>8. Pipeline' = d \o Append(m, issued + 1) /\ Pipeline = d \o m
  BY <1>4, <1>6, PipelineParts
<1> HIDE DEF d, m
<1>9. d \o (m \o <<issued + 1>>) = (d \o m) \o <<issued + 1>>
  <2>1. <<issued + 1>> \in Seq(Nat)
    BY <1>2
  <2> QED
    BY <1>7, <2>1, ConcatAssociative
<1>10. /\ Append(m, issued + 1) = m \o <<issued + 1>>
       /\ Append(d \o m, issued + 1) = (d \o m) \o <<issued + 1>>
  BY <1>2, <1>7, AppendIsConcat, ConcatProperties
<1> QED
  BY <1>8, <1>9, <1>10

(* Receive leaves the log alone.                                           *)
LEMMA ReceiveKeeps == WriterInv /\ Receive => Pipeline' = Pipeline
<1> SUFFICES ASSUME WriterInv, Receive PROVE Pipeline' = Pipeline
  OBVIOUS
<1>1. /\ held = NoBuffer /\ held' = Head(queue) /\ queue' = Tail(queue) /\ queue # <<>>
      /\ UNCHANGED <<content, dest>>
  BY DEF Receive
<1>2. held' # NoBuffer
  BY <1>1, HeadTailProperties, NoBufferAssumption DEF WriterInv, TypeOK
<1> DEFINE h == <<content[Head(queue)]>>
           m == Msgs(Tail(queue), content)
<1>3. Msgs(queue, content) = h \o m
  BY <1>1, MsgsHead, PipelineParts
<1>4. h \in Seq(Nat) /\ m \in Seq(Nat) /\ dest \in Seq(Nat)
  <2>1. Head(queue) \in Buffers /\ Tail(queue) \in Seq(Buffers) /\ content \in [Buffers -> Nat]
    BY <1>1, HeadTailProperties, PipelineParts
  <2>2. m \in Seq(Nat)
    BY <2>1, MsgsSeq
  <2> QED
    BY <2>1, <2>2, PipelineParts
<1>5. Pipeline' = (dest \o h) \o m
  BY <1>1, <1>2 DEF Pipeline, Msgs
<1>6. Pipeline = (dest \o <<>>) \o (h \o m)
  BY <1>1, <1>3, PipelineParts DEF InHand
<1> HIDE DEF h, m
<1>7. dest \o <<>> = dest
  BY <1>4, ConcatEmptySeq
<1> QED
  BY SMTT(30), <1>4, <1>5, <1>6, <1>7, ConcatAssociative

(* DestWrite leaves the log alone.                                         *)
LEMMA DestWriteKeeps == WriterInv /\ DestWrite => Pipeline' = Pipeline
<1> SUFFICES ASSUME WriterInv, DestWrite PROVE Pipeline' = Pipeline
  OBVIOUS
<1>1. /\ held # NoBuffer /\ held' = NoBuffer /\ dest' = Append(dest, content[held])
      /\ UNCHANGED <<content, queue>> /\ content[held] \in Nat
  BY DEF DestWrite, WriterInv, TypeOK
<1> DEFINE h == <<content[held]>>
           m == Msgs(queue, content)
<1>2. h \in Seq(Nat) /\ m \in Seq(Nat) /\ dest \in Seq(Nat)
  BY <1>1, PipelineParts
<1>3. Pipeline = (dest \o h) \o m
  BY <1>1, PipelineParts DEF InHand
<1>4. Pipeline' = (dest' \o <<>>) \o m
  BY <1>1 DEF Pipeline, Msgs
<1>5. dest' = dest \o h
  BY <1>1, <1>2, AppendIsConcat
<1> HIDE DEF h, m
<1>6. dest' \o <<>> = dest'
  BY <1>2, <1>5, ConcatProperties, ConcatEmptySeq
<1> QED
  BY <1>3, <1>4, <1>5, <1>6

(* Steps of the writer are steps of the log, or leave it as it is.         *)
LEMMA StepRefines == WriterInv /\ [Next]_vars => [Ordered!Next]_(Ordered!vars)
<1> SUFFICES ASSUME WriterInv, [Next]_vars
             PROVE  [Ordered!Next]_(Ordered!vars)
  OBVIOUS
<1> USE DEF writeVars, destVars, stopVars
<1>0. Len(dest) \in Nat /\ issued \in Nat /\ Len(Pipeline) = issued
  BY LenProperties, PipelineParts DEF WriterInv, TypeOK
<1>1. ASSUME NEW w \in Writers, Write(w) PROVE Ordered!Accept
  <2>1. Pipeline' = Append(Pipeline, issued + 1) /\ issued + 1 \in 1..MaxWrites
    <3>1. Pipeline' = Append(Pipeline, issued + 1)
      BY <1>1, WriteAccepts
    <3>2. issued < MaxWrites
      BY <1>1 DEF Write
    <3> QED
      BY <1>0, <3>1, <3>2, DepthAssumption
  <2>2. Phase' = Phase /\ UNCHANGED <<dest, flushed, winner, due>>
    BY <1>1 DEF Write, Phase
  <2> QED
    BY <2>1, <2>2 DEF Ordered!Accept
<1>2. CASE Receive
  <2>1. Pipeline' = Pipeline
    BY <1>2, ReceiveKeeps
  <2>2. Phase' = Phase /\ UNCHANGED <<dest, flushed, winner, due>>
    BY <1>2 DEF Receive, Phase
  <2> QED
    BY <2>1, <2>2 DEF Ordered!vars
<1>3. CASE DestWrite
  <2>1. Pipeline' = Pipeline
    BY <1>3, DestWriteKeeps
  <2>2. Phase' = Phase /\ UNCHANGED <<flushed, winner, due>>
    BY <1>3 DEF DestWrite, Phase
  <2>3. Len(dest') = Len(dest) + 1
    BY <1>3, AppendProperties DEF DestWrite, WriterInv, TypeOK
  <2>4. Len(dest) < Len(Pipeline)
    <3>1. held # NoBuffer /\ Len(queue) \in Nat
      BY <1>3, LenProperties DEF DestWrite, WriterInv, TypeOK
    <3> QED
      BY <1>0, <3>1 DEF WriterInv, CountInv
  <2>5. Ordered!Deliver
    BY <2>1, <2>2, <2>3, <2>4, FlagAssumption DEF Ordered!Deliver
  <2> QED
    BY <2>5 DEF Ordered!Next
<1>4. CASE FlushTick \/ DrainDone
  <2>1. Pipeline' = Pipeline /\ Phase' = Phase /\ UNCHANGED <<dest, winner, due>>
    BY <1>4 DEF FlushTick, DrainDone, Pipeline, Phase
  <2>2. CASE CanFlush
    <3>1. flushed' = Len(dest)
      BY <1>4, <2>2 DEF FlushTick, DrainDone
    <3>2. Ordered!Flush
      BY <2>1, <2>2, <3>1 DEF Ordered!Flush
    <3> QED
      BY <3>2 DEF Ordered!Next
  <2>3. CASE ~CanFlush
    BY <2>1, <2>3 DEF Ordered!vars
  <2> QED
    BY <2>2, <2>3
<1>5. ASSUME NEW s \in Stoppers, StopCall(s) PROVE [Ordered!Next]_(Ordered!vars)
  <2>1. Pipeline' = Pipeline /\ UNCHANGED <<dest, flushed>>
    BY <1>5 DEF StopCall, Pipeline
  <2>2. CASE winner = Nobody
    <3>1. winner' = s /\ due'[s] = Acked /\ stopper'[s] = "sending" /\ s # Nobody
      BY <1>5, <2>2, NobodyAssumption DEF StopCall, WriterInv, TypeOK
    <3>2. Phase = "open" /\ Phase' = "stopping"
      BY <2>2, <3>1 DEF Phase
    <3>3. Acked \in Len(dest)..Len(Pipeline)
      BY <1>0, AckedBounds
    <3>4. Ordered!BeginStop
      BY <2>1, <3>1, <3>2, <3>3 DEF Ordered!BeginStop
    <3> QED
      BY <3>4 DEF Ordered!Next
  <2>3. CASE winner # Nobody
    <3>1. winner # s /\ winner \in Stoppers
      BY <1>5, <2>3 DEF StopCall, WriterInv, StopInv, TypeOK
    <3>2. winner' = winner /\ due'[winner] = due[winner] /\ stopper'[winner] = stopper[winner]
      BY <1>5, <2>3, <3>1 DEF StopCall, WriterInv, TypeOK
    <3>3. Phase' = Phase
      BY <3>2 DEF Phase
    <3> QED
      BY <2>1, <3>2, <3>3 DEF Ordered!vars
  <2> QED
    BY <2>2, <2>3
<1>6. ASSUME NEW s \in Stoppers, StopSend(s) PROVE [Ordered!Next]_(Ordered!vars)
  <2>1. Pipeline' = Pipeline /\ UNCHANGED <<dest, flushed, winner, due>>
    BY <1>6 DEF StopSend, Pipeline
  <2>2. winner = s /\ stopper[s] = "sending" /\ stopper'[s] = "waiting"
    BY <1>6 DEF StopSend, WriterInv, StopInv, TypeOK
  <2>3. Phase' = Phase
    BY <2>1, <2>2 DEF Phase
  <2> QED
    BY <2>1, <2>3 DEF Ordered!vars
<1>7. ASSUME NEW s \in Stoppers, StopReturn(s) PROVE [Ordered!Next]_(Ordered!vars)
  <2>1. Pipeline' = Pipeline /\ UNCHANGED <<dest, flushed, winner, due>>
    BY <1>7 DEF StopReturn, Pipeline
  <2>2. winner = s /\ s # Nobody /\ stopper[s] = "waiting" /\ stopper'[s] = "returned"
    BY <1>7, NobodyAssumption DEF StopReturn, WriterInv, StopInv, TypeOK
  <2>3. Phase = "stopping" /\ Phase' = "stopped"
    BY <2>1, <2>2 DEF Phase
  <2>4. OnDisk >= due[winner]
    BY <1>7 DEF StopReturn, WriterInv, StopInv
  <2>5. Ordered!EndStop
    BY <2>1, <2>2, <2>3, <2>4 DEF Ordered!EndStop, OnDisk
  <2> QED
    BY <2>5 DEF Ordered!Next
<1>8. CASE UNCHANGED vars
  BY <1>8 DEF vars, Ordered!vars, Pipeline, Phase
<1> QED
  BY <1>1, <1>2, <1>3, <1>4, <1>5, <1>6, <1>7, <1>8 DEF Next, Ordered!Next

(* The types, and that every buffer on its way is out of the pool.         *)
THEOREM WriterTypeCorrect == Spec => []TypeOK
<1>1. WriterInv => TypeOK
  BY DEF WriterInv
<1> QED
  BY <1>1, IInvInit, IInvStep, PTL DEF Spec

(* The channel writer is the ordered log of AsyncLog: no message is lost,  *)
(* doubled, reordered or overwritten, and the Stop that wins returns when  *)
(* all that was acknowledged before it is in dest and flushed.             *)
THEOREM WriterImplementsLog == Spec => ImplementsAsyncLog
<1>1. Init => Ordered!Init
  <2> SUFFICES ASSUME Init PROVE Ordered!Init
    OBVIOUS
  <2>1. Pipeline = <<>>
    <3>1. WriterInv /\ issued = 0
      BY IInvInit DEF Init
    <3>2. Pipeline \in Seq(Nat) /\ Len(Pipeline) = 0
      BY <3>1, PipelineParts
    <3> QED
      BY <3>2, EmptySeq
  <2> QED
    BY <2>1 DEF Init, Ordered!Init, Phase
<1> QED
  BY <1>1, IInvInit, IInvStep, StepRefines, PTL DEF Spec, ImplementsAsyncLog, Ordered!Spec
=============================================================================
