----------------------------- MODULE StatsdSink ------------------------------
(***************************************************************************)
(* The statsd sink of metrics (metrics/statsd.go): emitters push into a    *)
(* bounded queue without blocking; one goroutine, flushMetrics, packs what *)
(* it receives into packets and sends them when they are full or on a      *)
(* tick.  After an error it throws away what it receives until it connects *)
(* again.  The socket may fail at any call (external).                     *)
(***************************************************************************)
EXTENDS MetricsBase

CONSTANTS
    QueueSize,     \* capacity of metricQueue (4096)
    StatsdMaxLen,  \* statsdMaxLen (1400)
    MaxFailures    \* bound: errors of the socket

ASSUME StatsdAssumption == QueueSize \in Nat \ {0} /\ StatsdMaxLen \in Nat \ {0}

VARIABLES
    queue,      \* metricQueue
    closed,     \* the channel is closed
    nilQueue,   \* metricQueue was set to nil
    flusher,    \* where flushMetrics is
    buf,        \* its buffer: the metrics in it
    wire,       \* the packets written
    failures,   \* errors of the socket so far
    pushed      \* history: the ids accepted into the queue, in order

statsdVars == <<queue, closed, nilQueue, flusher, buf, wire, failures, pushed>>

(* A metric is [id, len]: which emission it is and the length of its text. *)
Bytes(ms) ==
    LET sum[i \in 0..Len(ms)] == IF i = 0 THEN 0 ELSE sum[i - 1] + ms[i].len
    IN  sum[Len(ms)]

(* The text of a metric: the parts of the key and the values of the labels *)
(* joined; the length counts the parts.                                    *)
flattenKeyLabels(key, labels) == key \o [i \in 1..Len(labels) |-> labels[i].value]

(* NewStatsdSink.                                                          *)
StatsdInit ==
    /\ queue = <<>>
    /\ closed = FALSE
    /\ nilQueue = FALSE
    /\ flusher = "connect"
    /\ buf = <<>>
    /\ wire = <<>>
    /\ failures = 0
    /\ pushed = <<>>

(* A send on a closed channel panics until flushMetrics has set it to nil. *)
PushPanics == closed /\ ~nilQueue

(* pushMetric: the default branch drops the metric.                        *)
pushMetric(m) ==
    /\ ~PushPanics
    /\ IF ~nilQueue /\ Len(queue) < QueueSize
       THEN queue' = Append(queue, m) /\ pushed' = Append(pushed, m.id)
       ELSE UNCHANGED <<queue, pushed>>
    /\ UNCHANGED <<closed, nilQueue, flusher, buf, wire, failures>>

Shutdown ==
    /\ ~closed
    /\ closed' = TRUE
    /\ UNCHANGED <<queue, nilQueue, flusher, buf, wire, failures, pushed>>

(* CONNECT: a new buffer and a Dial, which may fail.                       *)
Connect ==
    /\ flusher = "connect"
    /\ buf' = <<>>
    /\ \/ flusher' = "loop" /\ failures' = failures
       \/ failures < MaxFailures /\ failures' = failures + 1 /\ flusher' = "wait"
    /\ UNCHANGED <<queue, closed, nilQueue, wire, pushed>>

(* The loop's case for a metric: the buffer goes out first if the metric   *)
(* does not fit; when that fails, buffer and metric are lost.              *)
Overflows_BufferOnly(m) == Bytes(buf) > StatsdMaxLen

Overflows(m) == m.len + Bytes(buf) > StatsdMaxLen

Receive ==
    /\ flusher = "loop" /\ queue # <<>>
    /\ queue' = Tail(queue)
    /\ \/ /\ ~Overflows(Head(queue))
          /\ buf' = Append(buf, Head(queue))
          /\ UNCHANGED <<wire, flusher, failures>>
       \/ /\ Overflows(Head(queue))
          /\ wire' = Append(wire, buf)
          /\ buf' = <<Head(queue)>>
          /\ UNCHANGED <<flusher, failures>>
       \/ /\ Overflows(Head(queue)) /\ failures < MaxFailures
          /\ failures' = failures + 1
          /\ buf' = <<>>
          /\ flusher' = "wait"
          /\ UNCHANGED wire
    /\ UNCHANGED <<closed, nilQueue, pushed>>

(* The loop's case for a tick.                                             *)
FlushTick_WhenFull ==
    /\ flusher = "loop" /\ Bytes(buf) >= StatsdMaxLen
    /\ buf' = <<>>
    /\ wire' = Append(wire, buf)
    /\ UNCHANGED <<queue, closed, nilQueue, flusher, failures, pushed>>

FlushTick ==
    /\ flusher = "loop" /\ buf # <<>>
    /\ buf' = <<>>
    /\ \/ wire' = Append(wire, buf) /\ UNCHANGED <<flusher, failures>>
       \/ /\ failures < MaxFailures
          /\ failures' = failures + 1
          /\ flusher' = "wait"
          /\ UNCHANGED wire
    /\ UNCHANGED <<queue, closed, nilQueue, pushed>>

(* WAIT: received metrics are dropped until the five seconds are over.     *)
Discard ==
    /\ flusher = "wait" /\ queue # <<>>
    /\ queue' = Tail(queue)
    /\ UNCHANGED <<closed, nilQueue, flusher, buf, wire, failures, pushed>>

WaitOver ==
    /\ flusher = "wait"
    /\ flusher' = "connect"
    /\ UNCHANGED <<queue, closed, nilQueue, buf, wire, failures, pushed>>

(* QUIT: the queue is closed and empty; the buffer goes with the function. *)
Quit ==
    /\ flusher \in {"loop", "wait"} /\ closed /\ queue = <<>>
    /\ flusher' = "quit"
    /\ nilQueue' = TRUE
    /\ buf' = <<>>
    /\ UNCHANGED <<queue, closed, wire, failures, pushed>>

flushMetrics == Connect \/ Receive \/ FlushTick \/ Discard \/ WaitOver \/ Quit

-----------------------------------------------------------------------------
Ids(ms) == [i \in 1..Len(ms) |-> ms[i].id]

(* What was pushed leaves in the order it was pushed, each metric at most  *)
(* once, across overflows, ticks, errors and reconnections; and a packet   *)
(* that has more than one metric respects the limit.                       *)
PacketsInOrder ==
    LET out == Ids(FlattenSeq(wire) \o buf \o queue)
        At(x) == CHOOSE i \in 1..Len(pushed) : pushed[i] = x
    IN  /\ Range(out) \subseteq Range(pushed)
        /\ \A i, j \in 1..Len(out) : i < j => At(out[i]) < At(out[j])
        /\ \A i \in 1..Len(wire) : Len(wire[i]) > 1 => Bytes(wire[i]) <= StatsdMaxLen

(* "Prevents stats from getting stuck in a buffer forever" (statsd.go:18): *)
(* a metric in the buffer is sent, unless the socket fails or the sink is  *)
(* shut down first.                                                        *)
NeverStuck ==
    \A id \in 1..MaxCalls :
        id \in Range(Ids(buf)) ~> (id \in Range(Ids(FlattenSeq(wire))) \/ failures > 0 \/ closed)
=============================================================================
