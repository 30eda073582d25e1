------------------------------ MODULE InmemSink ------------------------------
(***************************************************************************)
(* The in-memory sink of metrics (metrics/inmem.go): aggregates per        *)
(* interval of time.  getInterval reads the clock without a lock, looks at *)
(* the last interval under the read lock and, when it is another one,      *)
(* appends a new one under the write lock; the aggregate is updated later, *)
(* under the lock of the interval found.  Intervals are pointers: `heap`   *)
(* holds every one ever made, `intervals` the retained ones.               *)
(*                                                                         *)
(* The goroutines that take these steps are those of Metrics, which has    *)
(* their program counters; here are the data and what one step does to it. *)
(***************************************************************************)
EXTENDS MetricsBase

CONSTANTS
    Interval,      \* InmemSink.interval, in ticks of the clock
    MaxIntervals   \* retain / interval

ASSUME IntervalAssumption == Interval \in Nat \ {0} /\ MaxIntervals \in Nat \ {0}

VARIABLES
    heap,       \* the IntervalMetrics made, the n-th under number n
    intervals   \* InmemSink.intervals: numbers of heap, oldest first

inmemVars == <<heap, intervals>>

(* &AggregateSample{}: everything is zero, Min and Max too.  Sum and SumSq *)
(* are float64, and what they are depends on the order of the additions:   *)
(* the aggregate has the values in the order in which Ingest added them.   *)
ZeroSample == [Count |-> 0, added |-> <<>>, Min |-> 0, Max |-> 0]

Ingest_NoFirst(a, v) ==
    [Count |-> a.Count + 1,
     added |-> Append(a.added, v),
     Min   |-> IF v < a.Min THEN v ELSE a.Min,
     Max   |-> IF v > a.Max THEN v ELSE a.Max]

Ingest(a, v) ==
    [Count |-> a.Count + 1,
     added |-> Append(a.added, v),
     Min   |-> IF v < a.Min \/ a.Count = 0 THEN v ELSE a.Min,
     Max   |-> IF v > a.Max \/ a.Count = 0 THEN v ELSE a.Max]

NewIntervalMetrics(intv) ==
    [Interval |-> intv, Gauges |-> EmptyMap, Counters |-> EmptyMap, Samples |-> EmptyMap]

(* time.Now().Truncate(i.interval)                                         *)
Truncated(t) == t - (t % Interval)

(* The check both getExistingInterval and createInterval make: 0 is nil.   *)
LastIfCurrent(intv) ==
    IF intervals # <<>> /\ heap[Last(intervals)].Interval = intv
    THEN Last(intervals)
    ELSE 0

(* createInterval keeps the newest MaxIntervals.                           *)
Retained_Restart(s) == IF Len(s) > MaxIntervals THEN <<Last(s)>> ELSE s

Retained(s) ==
    IF Len(s) >= MaxIntervals THEN SubSeq(s, Len(s) - MaxIntervals + 1, Len(s)) ELSE s

(* The write section of createInterval.  When another goroutine has made   *)
(* the interval meanwhile nothing changes.                                 *)
createInterval(intv) ==
    IF LastIfCurrent(intv) # 0
    THEN UNCHANGED inmemVars
    ELSE /\ heap' = Append(heap, NewIntervalMetrics(intv))
         /\ intervals' = Retained(Append(intervals, Len(heap) + 1))

(* and the interval it returns.                                            *)
Created(intv) == IF LastIfCurrent(intv) # 0 THEN LastIfCurrent(intv) ELSE Len(heap) + 1

AggregateOf(m, hash) == IF hash \in DOMAIN m THEN m[hash] ELSE ZeroSample

(* SetGauge, IncrCounter and AddSample once they have the interval m.      *)
SetGauge(m, hash, val) == [m EXCEPT !.Gauges = Put(@, hash, val)]
IncrCounter(m, hash, val) == [m EXCEPT !.Counters = Put(@, hash, Ingest(AggregateOf(@, hash), val))]
AddSample(m, hash, val) == [m EXCEPT !.Samples = Put(@, hash, Ingest(AggregateOf(@, hash), val))]

SinkInto(n, kind, hash, val) ==
    /\ heap' = [heap EXCEPT ![n] = CASE kind = "gauge"   -> SetGauge(@, hash, val)
                                     [] kind = "counter" -> IncrCounter(@, hash, val)
                                     [] kind = "sample"  -> AddSample(@, hash, val)]
    /\ UNCHANGED intervals

(* The aggregate an interval has for a counter or a sample.                *)
AggregateIn(n, kind, hash) ==
    AggregateOf(IF kind = "counter" THEN heap[n].Counters ELSE heap[n].Samples, hash)

InmemInit ==
    /\ heap = <<>>
    /\ intervals = <<>>
=============================================================================
