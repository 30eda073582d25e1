------------------------------ MODULE Throttle -------------------------------
(***************************************************************************)
(* Package algorithms/throttle: Trigger, Next and Stop of a throttler, and *)
(* the goroutines that loop on Next as the one Func launches does.         *)
(*                                                                         *)
(* Every operation is one critical section of cond.L.  cond.Wait splits    *)
(* Next: the consumer sleeps and, once a Broadcast has woken it, contends  *)
(* for the mutex again and re-tests the condition.  time.AfterFunc is a    *)
(* timer that broadcasts when its time has come, possibly late, and with   *)
(* no mutex held.                                                          *)
(***************************************************************************)
EXTENDS Integers, FiniteSets

CONSTANTS
    Consumers,    \* goroutines that call Next
    Period,       \* the throttle's period, in units of the model's clock
    MaxTime,      \* bound: the clock saturates here
    MaxTriggers   \* bound: calls of Trigger that are accepted

ASSUME PeriodAssumption == Period \in Nat
ASSUME ThrottleBoundAssumption == MaxTime \in Nat /\ MaxTriggers \in Nat

VARIABLES
    trailing,  \* t.trailing, the argument of NewThrottle
    last,      \* t.last
    waiting,   \* t.waiting
    stop,      \* t.stop
    timers,    \* the AfterFuncs not fired yet: when, and which trigger's
    consumer,  \* where each consumer is
    now,       \* time.Now()
    accepted,  \* history: triggers that set waiting
    served     \* history: calls of Next that returned true

throttleVars == <<trailing, last, waiting, stop, timers, consumer, now, accepted, served>>

(* The zero time.Time: longer ago than any period.                         *)
Never == -(Period + 1)

ThrottleInit ==
    /\ trailing \in BOOLEAN
    /\ last = Never
    /\ waiting = FALSE
    /\ stop = FALSE
    /\ timers = {}
    /\ consumer = [c \in Consumers |-> "body"]
    /\ now = 0
    /\ accepted = 0
    /\ served = 0

-----------------------------------------------------------------------------
(* cond.Broadcast wakes the consumers asleep in cond.Wait.                 *)
Broadcast ==
    consumer' = [c \in Consumers |-> IF consumer[c] = "asleep" THEN "awake" ELSE consumer[c]]

(* Trigger when more than a period has gone by since the last Next.        *)
LongEnough_AnyDelta == now > last

LongEnough == now - last > Period

TriggerNow ==
    /\ ~waiting /\ ~stop
    /\ LongEnough
    /\ accepted < MaxTriggers
    /\ waiting' = TRUE
    /\ Broadcast
    /\ accepted' = accepted + 1
    /\ UNCHANGED <<trailing, last, stop, timers, now, served>>

(* Trigger within the period, trailing: a timer broadcasts when the period *)
(* is over.  Outside these two cases Trigger changes nothing.              *)
TriggerLater ==
    /\ ~waiting /\ ~stop
    /\ ~LongEnough
    /\ trailing
    /\ last + Period <= MaxTime
    /\ accepted < MaxTriggers
    /\ waiting' = TRUE
    /\ timers' = timers \cup {[at |-> last + Period, id |-> accepted]}
    /\ accepted' = accepted + 1
    /\ UNCHANGED <<trailing, last, stop, consumer, now, served>>

(* The loop test of Next: the consumer sleeps while there is nothing to    *)
(* do.  It is made on entry and after every wake-up.                       *)
NextSleep(c) ==
    /\ consumer[c] \in {"body", "awake"}
    /\ ~waiting /\ ~stop
    /\ consumer' = [consumer EXCEPT ![c] = "asleep"]
    /\ UNCHANGED <<trailing, last, waiting, stop, timers, now, accepted, served>>

(* Next returns true; the caller runs the throttled code.                  *)
NextTrue_NoRetest(c) ==
    /\ consumer[c] = "awake" \/ (consumer[c] = "body" /\ waiting)
    /\ ~stop
    /\ waiting' = FALSE
    /\ last' = now
    /\ consumer' = [consumer EXCEPT ![c] = "body"]
    /\ served' = served + 1
    /\ UNCHANGED <<trailing, stop, timers, now, accepted>>

NextTrue(c) ==
    /\ consumer[c] \in {"body", "awake"}
    /\ waiting /\ ~stop
    /\ waiting' = FALSE
    /\ last' = now
    /\ consumer' = [consumer EXCEPT ![c] = "body"]
    /\ served' = served + 1
    /\ UNCHANGED <<trailing, stop, timers, now, accepted>>

(* Next returns false and the consumer's loop ends.                        *)
NextFalse(c) ==
    /\ consumer[c] \in {"body", "awake"}
    /\ stop
    /\ consumer' = [consumer EXCEPT ![c] = "done"]
    /\ UNCHANGED <<trailing, last, waiting, stop, timers, now, accepted, served>>

Stop_NoBroadcast ==
    /\ stop' = TRUE
    /\ UNCHANGED <<trailing, last, waiting, timers, consumer, now, accepted, served>>

Stop ==
    /\ stop' = TRUE
    /\ Broadcast
    /\ UNCHANGED <<trailing, last, waiting, timers, now, accepted, served>>

(* A timer fires, at its time or later.                                    *)
Fire(x) ==
    /\ x.at <= now
    /\ timers' = timers \ {x}
    /\ Broadcast
    /\ UNCHANGED <<trailing, last, waiting, stop, now, accepted, served>>

TimePasses ==
    /\ now' = IF now < MaxTime THEN now + 1 ELSE now
    /\ UNCHANGED <<trailing, last, waiting, stop, timers, consumer, accepted, served>>

-----------------------------------------------------------------------------
Trigger == TriggerNow \/ TriggerLater

Consume(c) == NextSleep(c) \/ NextTrue(c) \/ NextFalse(c)

ThrottleNext ==
    \/ Trigger \/ Stop \/ TimePasses
    \/ \E x \in timers : Fire(x)
    \/ \E c \in Consumers : Consume(c)

ThrottleSpec == ThrottleInit /\ [][ThrottleNext]_throttleVars

(***************************************************************************)
(* Consumers loop on Next as Func's goroutine does, timers fire and time   *)
(* passes.  Nobody has to call Trigger or Stop.                            *)
(***************************************************************************)
ThrottleFairSpec ==
    /\ ThrottleSpec
    /\ WF_throttleVars(TimePasses)
    /\ WF_throttleVars(\E x \in timers : Fire(x))
    /\ \A c \in Consumers : WF_throttleVars(Consume(c))

-----------------------------------------------------------------------------
(* Type invariant of the throttler and its consumers.                      *)
ThrottleTypeOK ==
    /\ trailing \in BOOLEAN
    /\ last \in Nat \cup {Never}
    /\ waiting \in BOOLEAN
    /\ stop \in BOOLEAN
    /\ timers \subseteq [at : Nat, id : Nat]
    /\ consumer \in [Consumers -> {"body", "asleep", "awake", "done"}]
    /\ now \in Nat
    /\ accepted \in Nat
    /\ served \in Nat

(* Without trailing, Next returns true at most once per period, whichever  *)
(* consumers call it and whenever (throttle.go:50).  With trailing it does *)
(* not: Trigger sets waiting at once and delays only the wake-up, so that  *)
(* a consumer that is not asleep gets its next turn within the period.     *)
LeadingRate == [][served' > served /\ ~trailing => now - last >= Period]_throttleVars

(* Next returns true exactly once for every Trigger that was accepted,     *)
(* with any number of consumers, timers and wake-ups racing for it.        *)
OneNextPerTrigger == accepted = served + (IF waiting THEN 1 ELSE 0)

(* An accepted Trigger is served unless the throttle is stopped first: no  *)
(* wake-up is lost between the timer and a consumer on its way to Wait.    *)
TriggerServed == waiting ~> (~waiting \/ stop)

(* Stop makes every consumer's Next return false (throttle.go:50, "If      *)
(* false is returned the throttler has been stoped").                      *)
StopReleasesConsumers == stop ~> (\A c \in Consumers : consumer[c] = "done")

(* No consumer sleeps through a Trigger or a Stop (throttle.go:105, 130).  *)
ThrottleProgress == TriggerServed /\ StopReleasesConsumers
=============================================================================
