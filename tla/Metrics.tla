------------------------------- MODULE Metrics -------------------------------
(***************************************************************************)
(* The metrics package (metrics/metrics.go, start.go, sink.go): goroutines *)
(* emit through the global instance, whose filters may change under them,  *)
(* into a fan-out of an in-memory, a statsd, a Prometheus and a DogStatsd  *)
(* sink; a reader displays or dumps the in-memory intervals meanwhile.     *)
(*                                                                         *)
(* A key is a sequence of parts, a tag a record of name and value.  A      *)
(* request emits several metrics with ONE slice of tags (as                *)
(* requestMetrics.ServeHTTP does): `arr` is the array behind that slice,   *)
(* which filterLabels overwrites in place.                                 *)
(***************************************************************************)
EXTENDS InmemSink, StatsdSink, PrometheusSink

CONSTANTS
    Emitters,     \* goroutines that emit
    Collector,    \* the one of them that runs collectStats
    Readers,      \* goroutines that read the in-memory sink
    Signal,       \* the one of them that is InmemSignal.run
    Requests,     \* what emitters may do: [calls, tags]
    Configs,      \* what NewGlobal may be given: settings, sinks and the bounds below
    Filters,      \* what UpdateFilterAndLabels may be given
    PauseWindow   \* pauses MemStats keeps (256)

ASSUME ProcessAssumption ==
    Collector \in Emitters /\ Signal \in Readers /\ Emitters \cap Readers = {}

Tags == [name : STRING, value : STRING]
Sinks == {"inmem", "statsd", "prometheus", "dogstatsd"}

(* A request makes calls with one slice of tags; NewGlobal is given a      *)
(* fan-out that has a sink, none twice.                                    *)
ASSUME RequestAssumption ==
    \A r \in Requests :
       /\ r.calls \in Seq([op : Kinds, typ : STRING, key : Seq(STRING), val : Int])
       /\ r.calls # <<>>
       /\ r.tags \in Seq(Tags)
ASSUME ConfigAssumption ==
    \A c \in Configs :
       /\ c.fanout \in Seq(Sinks) /\ c.fanout # <<>> /\ IsInjective(c.fanout)
       /\ c.globalTags \in Seq(Tags)
ASSUME PauseAssumption == PauseWindow \in Nat \ {0}

VARIABLES
    config,   \* Config and sinks of the global instance; Blackhole before NewGlobal
    filter,   \* its filter and label sets
    lastNumGC,
    em,       \* the emitters
    rd,       \* the readers
    sig,      \* the signal channel and the stop flag of InmemSignal
    calls,    \* history: the emissions that reached the fan-out
    used      \* how much of the bounds is used

frontVars == <<config, filter, lastNumGC>>
vars == <<now, inmemVars, statsdVars, promVars, frontVars, em, rd, sig, calls, used>>

-----------------------------------------------------------------------------
(* Keys, labels and filters.                                               *)

(* The instance of init(): a zero Config, which allows nothing.  With a    *)
(* configuration go the bounds of the instance: who emits, the requests    *)
(* (collections included), filter updates, reads of the in-memory sink and *)
(* time.                                                                   *)
Blackhole == [fanout |-> <<>>, max |-> [emitters |-> Emitters, requests |-> 1, updates |-> 0,
                                        reads |-> 0, time |-> 0],
              filterDefault |-> FALSE, hostName |-> "", enableHostname |-> FALSE,
              enableHostnameLabel |-> FALSE, serviceName |-> "", enableServiceLabel |-> FALSE,
              enableTypePrefix |-> FALSE, globalPrefix |-> "", globalTags |-> <<>>]
NoFilter == [allow |-> {}, block |-> {}, allowedLabels |-> {"*"}, blockedLabels |-> {}]

Opt(s) == IF s = "" THEN <<>> ELSE <<s>>

(* prepare: the parts put before the key, innermost last,                  *)
PreparedKey(c, typ, key) ==
       Opt(c.globalPrefix)
    \o (IF c.enableServiceLabel THEN <<>> ELSE Opt(c.serviceName))
    \o (IF c.enableTypePrefix THEN <<typ>> ELSE <<>>)
    \o (IF c.enableHostname /\ ~c.enableHostnameLabel THEN Opt(c.hostName) ELSE <<>>)
    \o key

(* and the tags appended.                                                  *)
ExtraTags(c) ==
       c.globalTags
    \o (IF c.hostName # "" /\ c.enableHostnameLabel
        THEN <<[name |-> "host", value |-> c.hostName]>> ELSE <<>>)
    \o (IF c.serviceName # "" /\ c.enableServiceLabel
        THEN <<[name |-> "service", value |-> c.serviceName]>> ELSE <<>>)

(* allowMetric: the longest prefix decides; block is inserted after allow. *)
allowMetric(c, f, key) ==
    LET matching == {p \in f.allow \cup f.block : IsPrefix(p, key)}
    IN  IF matching = {}
        THEN c.filterDefault
        ELSE (CHOOSE p \in matching : \A q \in matching : Len(q) <= Len(p)) \notin f.block

(* A nil list of allowed labels ("*") allows all that are not blocked.     *)
labelIsAllowed(f, tag) ==
    /\ tag.name \notin f.blockedLabels
    /\ f.allowedLabels = {"*"} \/ tag.name \in f.allowedLabels

(* kept[i]: what the loop has kept of the first i tags.                    *)
filterLabels(f, tags) ==
    LET kept[i \in 0..Len(tags)] ==
          IF i = 0 THEN <<>>
          ELSE IF labelIsAllowed(f, tags[i]) THEN Append(kept[i - 1], tags[i])
          ELSE kept[i - 1]
    IN  kept[Len(tags)]

(* What filterLabels leaves in the array of its argument.                  *)
FilteredInPlace_Cleared(f, tags) ==
    LET kept == filterLabels(f, tags)
    IN  kept \o [i \in 1..(Len(tags) - Len(kept)) |-> [name |-> "", value |-> ""]]

FilteredInPlace(f, tags) ==
    LET kept == filterLabels(f, tags)
    IN  kept \o SubSeq(tags, Len(kept) + 1, Len(tags))

-----------------------------------------------------------------------------
(* The global instance.                                                    *)

NewGlobal(c) ==
    /\ config = Blackhole
    /\ config' = c
    /\ filter' = NoFilter
    /\ em' = [e \in Emitters |-> [em[e] EXCEPT !.steady = FALSE]]
    /\ UNCHANGED <<now, inmemVars, statsdVars, promVars, lastNumGC, rd, sig, calls, used>>

(* Both updates take the write lock; UpdateFilter keeps the label sets.    *)
SetFilter(f) ==
    /\ config # Blackhole
    /\ used.updates < config.max.updates
    /\ f # filter
    /\ filter' = f
    /\ used' = [used EXCEPT !.updates = @ + 1]
    /\ em' = [e \in Emitters |-> [em[e] EXCEPT !.steady = FALSE]]
    /\ UNCHANGED <<now, inmemVars, statsdVars, promVars, config, lastNumGC, rd, sig, calls>>

UpdateFilterAndLabels(f) == SetFilter(f)
UpdateFilter(f) ==
    SetFilter([f EXCEPT !.allowedLabels = filter.allowedLabels, !.blockedLabels = filter.blockedLabels])

-----------------------------------------------------------------------------
(* The emitters.                                                           *)

IdleEm == [pc |-> "idle", calls |-> <<>>, tags |-> <<>>, steady |-> FALSE, arr |-> <<>>,
           key |-> <<>>, labels |-> <<>>, id |-> 0, intv |-> 0, ptr |-> 0]

NoTime == -1   \* the in-memory sink has not read the clock yet
Call(e) == Head(em[e].calls)
Hash(e) == <<em[e].key, em[e].labels>>

(* A goroutine starts to emit cs with one slice of tags.                   *)
Start(e, cs, tags) ==
    /\ em[e].pc = "idle"
    /\ e \in config.max.emitters
    /\ used.requests < config.max.requests
    /\ used' = [used EXCEPT !.requests = @ + 1]
    /\ em' = [em EXCEPT ![e] = [IdleEm EXCEPT !.pc = "call", !.calls = cs, !.steady = TRUE,
                                             !.arr = tags, !.tags = tags]]
    /\ UNCHANGED <<now, inmemVars, statsdVars, promVars, config, filter, rd, sig, calls>>

Begin(e) ==
    /\ e # Collector
    /\ \E r \in Requests : Start(e, r.calls, r.tags)
    /\ UNCHANGED lastNumGC

(* emitRuntimeStats: gauges (one stands for all), then the pauses since    *)
(* the last collection, no more than MemStats keeps.                       *)
FirstPause(last, num) ==
    LET from == IF num < last THEN 0 ELSE last
    IN  IF num - from >= PauseWindow THEN num - (PauseWindow - 1) ELSE from

RuntimeCalls(last, num) ==
    <<[op |-> "gauge", typ |-> "gauge", key |-> <<"runtime">>, val |-> num]>>
    \o [i \in 1..(num - FirstPause(last, num)) |->
          [op |-> "sample", typ |-> "sample", key |-> <<"runtime">>, val |-> 1]]

CollectStats(e, num) ==
    /\ e = Collector
    /\ config # Blackhole
    /\ Start(e, RuntimeCalls(lastNumGC, num), <<>>)
    /\ lastNumGC' = num

(* The next call of the request, after the one at the head.                *)
NextCall(s) ==
    IF Len(s.calls) = 1
    THEN IdleEm
    ELSE [s EXCEPT !.pc = "call", !.calls = Tail(@), !.key = <<>>, !.labels = <<>>,
                   !.id = 0, !.intv = 0, !.ptr = 0]

FirstStep(sink) == IF sink = "inmem" THEN "clock" ELSE sink
AfterSink(s, sink) ==
    LET i == CHOOSE j \in 1..Len(config.fanout) : config.fanout[j] = sink
    IN  IF i = Len(config.fanout) THEN NextCall(s) ELSE [s EXCEPT !.pc = FirstStep(config.fanout[i + 1])]

(* SetGauge, IncrCounter, AddSample and MeasureSince up to the sink:       *)
(* prepare on the global instance.  With nothing to append the labels are  *)
(* filtered in the caller's array; append makes a new one, as no caller    *)
(* in the repository passes a slice of tags with room to spare.            *)
Prepare(e) ==
    LET key    == PreparedKey(config, Call(e).typ, Call(e).key)
        labels == filterLabels(filter, em[e].arr \o ExtraTags(config))
        arr    == IF ExtraTags(config) = <<>> THEN FilteredInPlace(filter, em[e].arr) ELSE em[e].arr
    IN
    /\ em[e].pc = "call"
    /\ IF allowMetric(config, filter, key)
       THEN /\ calls' = Append(calls, [kind |-> Call(e).op, hash |-> <<key, labels>>,
                                       val |-> Call(e).val, intv |-> NoTime])
            /\ em' = [em EXCEPT ![e].pc = FirstStep(config.fanout[1]), ![e].arr = arr, ![e].key = key,
                                ![e].labels = labels, ![e].id = Len(calls) + 1]
       ELSE /\ em' = [em EXCEPT ![e] = NextCall([em[e] EXCEPT !.arr = arr])]
            /\ UNCHANGED calls
    /\ UNCHANGED <<now, inmemVars, statsdVars, promVars, frontVars, rd, sig, used>>

(* InmemSink: getInterval, then the update.                                *)
Clock(e) ==
    /\ em[e].pc = "clock"
    /\ em' = [em EXCEPT ![e].pc = "existing", ![e].intv = Truncated(now)]
    /\ calls' = [calls EXCEPT ![em[e].id].intv = Truncated(now)]
    /\ UNCHANGED <<now, inmemVars, statsdVars, promVars, frontVars, rd, sig, used>>

Existing(e) ==
    /\ em[e].pc = "existing"
    /\ LET n == LastIfCurrent(em[e].intv)
       IN  em' = [em EXCEPT ![e].pc = IF n # 0 THEN "update" ELSE "create", ![e].ptr = n]
    /\ UNCHANGED <<now, inmemVars, statsdVars, promVars, frontVars, rd, sig, calls, used>>

Create(e) ==
    /\ em[e].pc = "create"
    /\ createInterval(em[e].intv)
    /\ em' = [em EXCEPT ![e].pc = "update", ![e].ptr = Created(em[e].intv)]
    /\ UNCHANGED <<now, statsdVars, promVars, frontVars, rd, sig, calls, used>>

Update(e) ==
    /\ em[e].pc = "update"
    /\ SinkInto(em[e].ptr, Call(e).op, Hash(e), Call(e).val)
    /\ em' = [em EXCEPT ![e] = AfterSink([em[e] EXCEPT !.intv = 0, !.ptr = 0], "inmem")]
    /\ UNCHANGED <<now, statsdVars, promVars, frontVars, rd, sig, calls, used>>

(* StatsdSink: the text of the metric has the key's parts and the values   *)
(* of the labels.  A push into the closed queue panics, which ends the     *)
(* process; here the others may go on, which only adds behaviours.         *)
Push(e) ==
    /\ em[e].pc = "statsd"
    /\ IF PushPanics
       THEN em' = [em EXCEPT ![e].pc = "panicked"] /\ UNCHANGED statsdVars
       ELSE /\ pushMetric([id |-> em[e].id, len |-> Len(flattenKeyLabels(em[e].key, em[e].labels))])
            /\ em' = [em EXCEPT ![e] = AfterSink(em[e], "statsd")]
    /\ UNCHANGED <<now, inmemVars, promVars, frontVars, rd, sig, calls, used>>

PromSink(e) ==
    /\ em[e].pc = "prometheus"
    /\ PromUpdate(Call(e).op, Hash(e), Call(e).val)
    /\ em' = [em EXCEPT ![e] = AfterSink(em[e], "prometheus")]
    /\ UNCHANGED <<now, inmemVars, statsdVars, frontVars, rd, sig, calls, used>>

(* DogStatsdSink.parseKey takes the host name out of the key in place, so  *)
(* the caller's slice keeps its length and ends with its last part twice.  *)
Spliced(key, host) ==
    LET at == {i \in 1..Len(key) : key[i] = host}
    IN  IF at = {} THEN key ELSE Append(RemoveAt(key, Min(at)), Last(key))

DogSink(e) ==
    /\ em[e].pc = "dogstatsd"
    /\ em' = [em EXCEPT ![e] = AfterSink([em[e] EXCEPT !.key = Spliced(@, config.hostName)], "dogstatsd")]
    /\ UNCHANGED <<now, inmemVars, statsdVars, promVars, frontVars, rd, sig, calls, used>>

-----------------------------------------------------------------------------
(* The readers: DisplayMetrics and InmemSignal.                            *)

IdleRd == [pc |-> "idle", intv |-> 0, data |-> <<>>, ptr |-> 0]
rdUnchanged == UNCHANGED <<now, statsdVars, promVars, frontVars, em, calls>>

(* Data begins with getInterval; for the signal's goroutine when there is  *)
(* a signal in its channel.                                                *)
ReadClock(r) ==
    /\ rd[r].pc = "idle"
    /\ used.reads < config.max.reads
    /\ r = Signal => sig.pending
    /\ sig' = IF r = Signal THEN [sig EXCEPT !.pending = FALSE] ELSE sig
    /\ rd' = [rd EXCEPT ![r] = [IdleRd EXCEPT !.pc = "existing", !.intv = Truncated(now)]]
    /\ used' = [used EXCEPT !.reads = @ + 1]
    /\ rdUnchanged /\ UNCHANGED inmemVars

ReadExisting(r) ==
    /\ rd[r].pc = "existing"
    /\ rd' = [rd EXCEPT ![r].pc = IF LastIfCurrent(rd[r].intv) # 0 THEN "copy" ELSE "create"]
    /\ rdUnchanged /\ UNCHANGED <<inmemVars, sig, used>>

ReadCreate(r) ==
    /\ rd[r].pc = "create"
    /\ createInterval(rd[r].intv)
    /\ rd' = [rd EXCEPT ![r].pc = "copy"]
    /\ rdUnchanged /\ UNCHANGED <<sig, used>>

(* The copy of the slice under the read lock.  dumpStats prints the copy;  *)
(* DisplayMetrics takes its length and indexes the sink's slice anew.      *)
DumpStats(r) ==
    /\ r = Signal /\ rd[r].pc = "copy"
    /\ rd' = [rd EXCEPT ![r] = IdleRd]
    /\ rdUnchanged /\ UNCHANGED <<inmemVars, sig, used>>

DataCopy(r) ==
    /\ r # Signal /\ rd[r].pc = "copy"
    /\ rd' = [rd EXCEPT ![r] = [IdleRd EXCEPT !.pc = "index", !.data = intervals]]
    /\ rdUnchanged /\ UNCHANGED <<inmemVars, sig, used>>

DisplayedIndex(n) == IF n = 1 THEN 1 ELSE n - 1

(* The pointer is taken without intervalLock,                              *)
Index(r) ==
    /\ rd[r].pc = "index"
    /\ rd' = [rd EXCEPT ![r].pc = "reading", ![r].ptr = intervals[DisplayedIndex(Len(rd[r].data))]]
    /\ rdUnchanged /\ UNCHANGED <<inmemVars, sig, used>>

(* and the maps are read, until here, without the interval's lock.         *)
Display(r) ==
    /\ rd[r].pc = "reading"
    /\ rd' = [rd EXCEPT ![r] = IdleRd]
    /\ rdUnchanged /\ UNCHANGED <<inmemVars, sig, used>>

(* A signal arrives: the channel has one slot, a stopped one gets none.    *)
Kill ==
    /\ ~sig.stop /\ ~sig.pending
    /\ used.reads < config.max.reads
    /\ sig' = [sig EXCEPT !.pending = TRUE]
    /\ rdUnchanged /\ UNCHANGED <<inmemVars, rd, used>>

SignalStop ==
    /\ config.max.reads > 0 /\ ~sig.stop
    /\ sig' = [sig EXCEPT !.stop = TRUE]
    /\ rdUnchanged /\ UNCHANGED <<inmemVars, rd, used>>

(* run: the stop channel is closed.                                        *)
RunReturns ==
    /\ sig.stop /\ rd[Signal].pc = "idle"
    /\ rd' = [rd EXCEPT ![Signal].pc = "returned"]
    /\ rdUnchanged /\ UNCHANGED <<inmemVars, sig, used>>

-----------------------------------------------------------------------------
Init ==
    /\ now = 0
    /\ InmemInit /\ StatsdInit /\ PromInit
    /\ config = Blackhole
    /\ filter = NoFilter
    /\ lastNumGC = 0
    /\ em = [e \in Emitters |-> IdleEm]
    /\ rd = [r \in Readers |-> IdleRd]
    /\ sig = [pending |-> FALSE, stop |-> FALSE]
    /\ calls = <<>>
    /\ used = [requests |-> 0, updates |-> 0, reads |-> 0]

Tick ==
    /\ now < config.max.time
    /\ now' = now + 1
    /\ UNCHANGED <<inmemVars, statsdVars, promVars, frontVars, em, rd, sig, calls, used>>

Has(sink) == sink \in Range(config.fanout)

Flush == Has("statsd") /\ flushMetrics /\ UNCHANGED <<now, inmemVars, promVars, frontVars, em, rd, sig, calls, used>>
ShutdownStatsd == Has("statsd") /\ Shutdown /\ UNCHANGED <<now, inmemVars, promVars, frontVars, em, rd, sig, calls, used>>
Scrape == Collect /\ UNCHANGED <<now, inmemVars, statsdVars, frontVars, em, rd, sig, calls, used>>

Next ==
    \/ \E e \in Emitters :
         \/ Begin(e)
         \/ \E num \in {0, lastNumGC + 1, lastNumGC + 2} : CollectStats(e, num)
         \/ Prepare(e) \/ Clock(e) \/ Existing(e) \/ Create(e) \/ Update(e)
         \/ Push(e) \/ PromSink(e) \/ DogSink(e)
    \/ \E r \in Readers : ReadClock(r) \/ ReadExisting(r) \/ ReadCreate(r) \/ DumpStats(r) \/ DataCopy(r)
                          \/ Index(r) \/ Display(r)
    \/ Kill \/ SignalStop \/ RunReturns
    \/ \E c \in Configs : NewGlobal(c)
    \/ \E f \in Filters : UpdateFilterAndLabels(f) \/ UpdateFilter(f)
    \/ Flush \/ ShutdownStatsd \/ Scrape \/ Tick

Spec == Init /\ [][Next]_vars

(* The flusher's goroutine is scheduled, and its ticker ticks.             *)
FairSpec == Spec /\ WF_vars(Flush)

-----------------------------------------------------------------------------
(* Properties.                                                             *)

Landed(i) ==
    /\ calls[i].intv # NoTime
    /\ ~\E e \in Emitters : em[e].id = i /\ em[e].pc \in {"existing", "create", "update"}

(* Every emission is counted once, in an interval of the time its caller   *)
(* read, whoever creates, duplicates or drops intervals meanwhile: for     *)
(* each time and series, the aggregates of all intervals of that time have *)
(* together added exactly the values emitted, each as often as it was; and *)
(* each has the count, the minimum and the maximum of its own values.      *)
Times(s, v) == Cardinality({i \in 1..Len(s) : s[i] = v})
SamplesAccounted ==
    \A c \in Range(calls) :
      LET ids == {i \in 1..Len(calls) : Landed(i) /\ calls[i].kind = c.kind
                                          /\ calls[i].hash = c.hash /\ calls[i].intv = c.intv}
          objs == {n \in 1..Len(heap) : heap[n].Interval = c.intv}
      IN IF c.kind = "gauge"
         THEN \A n \in objs : c.hash \in DOMAIN heap[n].Gauges =>
                \E i \in ids : heap[n].Gauges[c.hash] = calls[i].val
         ELSE LET Agg(n) == AggregateIn(n, c.kind, c.hash)
              IN  /\ \A v \in {calls[i].val : i \in ids} \cup UNION {Range(Agg(n).added) : n \in objs} :
                        MapThenSumSet(LAMBDA n : Times(Agg(n).added, v), objs)
                          = Cardinality({i \in ids : calls[i].val = v})
                  /\ \A n \in objs : Agg(n).added # <<>> =>
                        /\ Agg(n).Count = Len(Agg(n).added)
                        /\ Agg(n).Min = Min(Range(Agg(n).added))
                        /\ Agg(n).Max = Max(Range(Agg(n).added))

(* DisplayMetrics indexes the sink's slice anew, with the length of the    *)
(* copy it made earlier, while intervals are added and dropped: the index  *)
(* is there, the interval taken is no older than the one the copy has at   *)
(* that index, and when the copy has several it is not the last one that   *)
(* was made.  (It may be one that is still written to: DisplayMetrics      *)
(* takes no lock, inmem.go:210 and inmem_endpoint.go:60.)                  *)
DisplaysFinished ==
    \A r \in Readers :
      LET i == DisplayedIndex(Len(rd[r].data)) IN
      /\ rd[r].pc = "index" => i \in 1..Len(intervals)
      /\ rd[r].pc = "reading" => /\ rd[r].ptr >= rd[r].data[i]
                                 /\ Len(rd[r].data) > 1 => rd[r].ptr < Last(intervals)

(* The tags a metric is given: the caller's and the instance's own.        *)
Given(c, tags) == tags \o ExtraTags(c)

(* filterLabels has a slice of its own, or nothing to move in the caller's.*)
Untouched(c, f, tags) == ExtraTags(c) # <<>> \/ \A t \in Range(tags) : labelIsAllowed(f, t)

Carries(c, f, tags, labels) ==
    /\ Range(labels) = {t \in Range(tags) \cup Range(ExtraTags(c)) : labelIsAllowed(f, t)}
    /\ Untouched(c, f, tags) => labels = filterLabels(f, Given(c, tags))

(* A request's metrics carry the tags its caller gave, those that are      *)
(* allowed and the instance's own, although filterLabels overwrites the    *)
(* slice that the next metric of the request is emitted with; as long as   *)
(* the filters do not change in between.  None is lost and no other comes  *)
(* in; each is there once and in its place when the instance has tags to   *)
(* append (which makes a new slice) or blocks none of the caller's.  (When *)
(* it blocks some and appends none, not: LabelsOnce.)                      *)
LabelsKept ==
    \A e \in Emitters :
      em[e].id # 0 /\ em[e].steady => Carries(config, filter, em[e].tags, em[e].labels)

(* The doc of filterLabels: "return only allowed tags" (metrics.go:138).   *)
(* So every metric of a request would carry the allowed ones of the tags   *)
(* given, each once, while the filters stay.  With role blocked, the first *)
(* metric of a request with role and uri leaves uri, uri in the caller's   *)
(* slice, and the second carries uri twice.                                *)
LabelsOnce ==
    \A e \in Emitters :
      em[e].id # 0 /\ em[e].steady => em[e].labels = filterLabels(filter, Given(config, em[e].tags))
=============================================================================
