-------------------------------- MODULE Xlog ---------------------------------
(***************************************************************************)
(* The logging of a process: goroutines log through the loggers of         *)
(* PackageLogger; the records go through the current formatter, under the  *)
(* mutex of the global logger, to standard error or to a log rotator       *)
(* (xlog/logrotate/logrotate.go), which writes through a channel writer or *)
(* directly into a buffered file.  The channel writer is here what module  *)
(* AsyncLog says of it: an ordered queue with a listener.                  *)
(*                                                                         *)
(* A call that finds the channel full waits for room with the mutex held,  *)
(* so every other logging call waits too.                                  *)
(***************************************************************************)
EXTENDS PackageLogger

CONSTANTS
    Callers,     \* goroutines that log
    Modes,       \* how Initialize may be called: [buffered, extraSink]
    QueueSize,   \* capacity of the channel (256)
    Confs,       \* texts given to ParseLogLevelConfig
    Bounds       \* bounds: [logs, levels, derive, sets, rotators, formatters]; one is picked

FormatterKinds == {"string", "pretty", "color", "log", "stackdriver", "none"}

ASSUME ModeAssumption == Modes \subseteq [buffered : BOOLEAN, extraSink : BOOLEAN]
ASSUME ConfAssumption == Confs \subseteq Seq(Seq(STRING))
ASSUME FormatterAssumption == \A b \in Bounds : b.formatters \subseteq [kind : FormatterKinds, rot : {0}]

VARIABLES
    formatter,   \* logger.formatter: [kind, rot]; rot 0 is standard error
    stderr,      \* the level standard error last showed
    lock,        \* the goroutine that holds the logger's mutex, or NoOne
    pending,     \* the record a caller waits to write
    rots,        \* the log rotators made
    ordered,     \* history: rotators were opened and closed one at a time, the last first
    logs,        \* how many records were logged
    max          \* the bounds picked

rotVars == <<formatter, rots, stderr>>
vars == <<loggerVars, rotVars, lock, pending, ordered, logs, max>>

NoOne == "no one"
Message == 0   \* the text of a log call; the values of WithValues are positive
NoRecord == [n |-> 0]
Stderr == [kind |-> "pretty", rot |-> 0]
NilFormatter == [kind |-> "none", rot |-> 0]

(* What the formatters write of a record: all of it, its level as a        *)
(* character, as the severity of stackdriver, or not at all.               *)
severity(l) == IF l >= TRACE THEN "DEBUG" ELSE String(l)
StringFormat(rec) == [rec EXCEPT !.level = ""]
PrettyFormat(rec) == [rec EXCEPT !.level = Char(@)]
ColorFormat(rec) == [rec EXCEPT !.level = Char(@)]
LogFormat(rec) == [rec EXCEPT !.level = ""]
StackdriverFormat(rec) == [rec EXCEPT !.level = severity(@)]
Format(kind, rec) ==
    CASE kind = "string" -> StringFormat(rec)
      [] kind = "pretty" -> PrettyFormat(rec)
      [] kind = "color" -> ColorFormat(rec)
      [] kind = "log" -> LogFormat(rec)
      [] kind = "stackdriver" -> StackdriverFormat(rec)

Record(n, i, l, e) ==
    Format(formatter.kind, [n |-> n, pkg |-> loggers[i].pkg, level |-> l, entries |-> Entries(i, e)])

-----------------------------------------------------------------------------
(* The writers behind the formatter.                                       *)

(* Whether the send of ChannelWriter.Write finds room in the channel.      *)
Room(r) == Len(rots[r].queue) < QueueSize

(* Write of the channel writer, or of the buffered file.  `sent` is the    *)
(* history of what was written to the rotator.                             *)
Written(r, rec) ==
    IF rots[r].buffered
    THEN [rots EXCEPT ![r].queue = Append(@, rec), ![r].sent = Append(@, rec)]
    ELSE [rots EXCEPT ![r].buf = Append(@, rec), ![r].sent = Append(@, rec)]

(* The listener hands a record to the file's buffer;                       *)
Deliver(r) ==
    /\ rots[r].listening /\ rots[r].queue # <<>>
    /\ rots' = [rots EXCEPT ![r].buf = Append(@, Head(rots[r].queue)), ![r].queue = Tail(@)]
    /\ UNCHANGED <<loggerVars, formatter, stderr, lock, pending, ordered, logs, max>>

(* it flushes on a tick, unless the extra sink hides the buffer;           *)
FlushTick(r) ==
    /\ rots[r].listening /\ ~rots[r].extraSink
    /\ rots[r].buf # <<>>
    /\ rots' = [rots EXCEPT ![r].disk = @ \o rots[r].buf, ![r].buf = <<>>]
    /\ UNCHANGED <<loggerVars, formatter, stderr, lock, pending, ordered, logs, max>>

(* and the buffer of 8192 bytes writes to the file when it is full.        *)
Spill(r) ==
    /\ rots[r].buf # <<>>
    /\ rots' = [rots EXCEPT ![r].disk = Append(@, Head(rots[r].buf)), ![r].buf = Tail(@)]
    /\ UNCHANGED <<loggerVars, formatter, stderr, lock, pending, ordered, logs, max>>

-----------------------------------------------------------------------------
(* Logging.                                                                *)

(* internalLog and internalLogf: below the level, or without a formatter,  *)
(* nothing is written; the values may still be appended to.                *)
Log(c, i, m, e) ==
    LET rec == Record(logs + 1, i, m.level, e)
        r == formatter.rot
    IN
    /\ pending[c] = NoRecord
    /\ lock = NoOne
    /\ logs < max.logs
    /\ logs' = logs + 1
    /\ \/ /\ ~Passes(i, m.level)
          /\ UNCHANGED <<arrays, rots, stderr, lock, pending>>
       \/ /\ Passes(i, m.level)
          /\ arrays' = IF m.joined THEN JoinedArrays(i, e) ELSE EntriesArrays(i, e)
          /\ \/ /\ r = 0
                /\ stderr' = IF formatter = NilFormatter THEN stderr ELSE rec.level
                /\ UNCHANGED <<rots, lock, pending>>
             \/ /\ r # 0 /\ (rots[r].buffered => Room(r))
                /\ rots' = Written(r, rec)
                /\ UNCHANGED <<stderr, lock, pending>>
             \/ /\ r # 0 /\ rots[r].buffered /\ ~Room(r)
                /\ lock' = c
                /\ pending' = [pending EXCEPT ![c] = rec]
                /\ UNCHANGED <<rots, stderr>>
    /\ UNCHANGED <<loggers, registry, sets, given, formatter, ordered, max>>

(* KV with a key that is not a string: flatten panics inside the formatter *)
(* and the deferred Unlock releases the mutex; the values were appended to.*)
KVPanics(c, i, l) ==
    /\ pending[c] = NoRecord
    /\ lock = NoOne
    /\ logs < max.logs
    /\ Passes(i, l) /\ formatter.kind # "none"
    /\ logs' = logs + 1
    /\ arrays' = EntriesArrays(i, Message)
    /\ UNCHANGED <<loggers, registry, sets, given, rotVars, lock, pending, ordered, max>>

(* The blocked write goes through and the mutex is released.               *)
LogUnblocked(c) ==
    /\ pending[c] # NoRecord /\ Room(formatter.rot)
    /\ rots' = Written(formatter.rot, pending[c])
    /\ pending' = [pending EXCEPT ![c] = NoRecord]
    /\ lock' = NoOne
    /\ UNCHANGED <<loggerVars, formatter, stderr, ordered, logs, max>>

-----------------------------------------------------------------------------
(* Initialize and Close, called by any goroutines and in any order.        *)

(* The rotators whose Initialize has not set the formatter yet, those that *)
(* are open and those whose Close has not returned; the newest has the     *)
(* greatest number.                                                        *)
Starting == {r \in 1..Len(rots) : ~rots[r].ready}
Open == {r \in 1..Len(rots) : rots[r].ready /\ ~rots[r].closed}
Closing == {r \in 1..Len(rots) : rots[r].closed /\ ~rots[r].stopped}

(* Initialize: GetFormatter,                                               *)
InitializeBegin(mode) ==
    /\ lock = NoOne
    /\ Len(rots) < max.rotators
    /\ rots' = Append(rots, [buffered |-> mode.buffered, extraSink |-> mode.extraSink,
                             oldFormatter |-> formatter, ready |-> FALSE, closed |-> FALSE,
                             stopped |-> FALSE, listening |-> mode.buffered, queue |-> <<>>,
                             buf |-> <<>>, disk |-> <<>>, sent |-> <<>>, due |-> 0])
    /\ ordered' = (ordered /\ Starting = {})
    /\ UNCHANGED <<loggerVars, formatter, stderr, lock, pending, logs, max>>

(* then SetFormatter.                                                      *)
InitializeEnd(r) ==
    /\ r \in Starting /\ lock = NoOne
    /\ rots' = [rots EXCEPT ![r].ready = TRUE]
    /\ formatter' = [kind |-> "pretty", rot |-> r]
    /\ UNCHANGED <<loggerVars, stderr, lock, pending, ordered, logs, max>>

(* Close: the flag and SetFormatter(oldFormatter),                         *)
CloseBegin_KeepsFormatter(r) ==
    /\ r \in Open /\ lock = NoOne
    /\ rots' = [rots EXCEPT ![r].closed = TRUE, ![r].due = Len(rots[r].sent)]
    /\ ordered' = (ordered /\ Starting = {} /\ r = Max(Open))
    /\ UNCHANGED <<loggerVars, formatter, stderr, lock, pending, logs, max>>

CloseBegin(r) ==
    /\ r \in Open /\ lock = NoOne
    /\ rots' = [rots EXCEPT ![r].closed = TRUE, ![r].due = Len(rots[r].sent)]
    /\ formatter' = rots[r].oldFormatter
    /\ ordered' = (ordered /\ Starting = {} /\ r = Max(Open))
    /\ UNCHANGED <<loggerVars, stderr, lock, pending, logs, max>>

(* then the channel writer's Stop, which drains and flushes.               *)
CloseEnd_NoFlush(r) ==
    /\ r \in Closing /\ rots[r].queue = <<>>
    /\ rots' = [rots EXCEPT ![r].stopped = TRUE, ![r].listening = FALSE]
    /\ UNCHANGED <<loggerVars, formatter, stderr, lock, pending, ordered, logs, max>>

CloseEnd(r) ==
    /\ r \in Closing /\ rots[r].queue = <<>>
    /\ LET flush == rots[r].buffered /\ ~rots[r].extraSink
       IN  rots' = [rots EXCEPT ![r].stopped = TRUE, ![r].listening = FALSE,
                                ![r].disk = IF flush THEN @ \o rots[r].buf ELSE @,
                                ![r].buf = IF flush THEN <<>> ELSE @]
    /\ UNCHANGED <<loggerVars, formatter, stderr, lock, pending, ordered, logs, max>>

(* An application's own SetFormatter.                                      *)
SetFormatter(f) ==
    /\ lock = NoOne
    /\ f # formatter
    /\ formatter' = f
    /\ ordered' = (ordered /\ Starting = {} /\ Open = {})
    /\ UNCHANGED <<loggerVars, rots, stderr, lock, pending, logs, max>>

-----------------------------------------------------------------------------
(* Levels and derived loggers.                                             *)
Configure(A) == A /\ lock = NoOne /\ UNCHANGED <<rotVars, lock, pending, ordered, logs, max>>
MaySet == Len(sets) < max.sets

Register(repo, pkg) == MaySet /\ Configure(NewPackageLogger(repo, pkg))
SetGlobal(l) == MaySet /\ Configure(SetGlobalLogLevel(l))
SetRepo(repo, l) == MaySet /\ Configure(SetRepoLogLevel(repo, l))
SetPackage(repo, pkg, l) == MaySet /\ Configure(SetPackageLogLevel(repo, pkg, l))
SetConfigured(repo, conf) ==
    MaySet /\ \E m \in ParseLogLevelConfig(conf) : Configure(SetLogLevel(repo, m))
Derive(i, v) ==
    /\ Cardinality({j \in 1..Len(loggers) : loggers[j].depth > 0}) < max.derive
    /\ Configure(WithValues(i, v))

-----------------------------------------------------------------------------
Init ==
    /\ LoggerInit
    /\ formatter = Stderr /\ stderr = ""
    /\ lock = NoOne
    /\ pending = [c \in Callers |-> NoRecord]
    /\ rots = <<>>
    /\ ordered = TRUE
    /\ logs = 0
    /\ max \in Bounds

Next ==
    \/ \E c \in Callers :
         \/ \E i \in 1..Len(loggers), m \in Methods : m.level \in max.levels /\ Log(c, i, m, Message)
         \/ \E i \in 1..Len(loggers) : KVPanics(c, i, INFO)
         \/ LogUnblocked(c)
    \/ \E r \in 1..Len(rots) :
         \/ Deliver(r) \/ FlushTick(r) \/ Spill(r)
         \/ InitializeEnd(r) \/ CloseBegin(r) \/ CloseEnd(r)
    \/ \E mode \in Modes : InitializeBegin(mode)
    \/ \E f \in max.formatters : SetFormatter(f)
    \/ \E repo \in Repos, pkg \in Pkgs :
         \/ Register(repo, pkg)
         \/ \E l \in {ERROR, TRACE} : SetPackage(repo, pkg, l)
    \/ \E repo \in Repos, l \in {ERROR, TRACE} : SetRepo(repo, l)
    \/ \E l \in {ERROR, TRACE} : SetGlobal(l)
    \/ \E repo \in Repos, conf \in Confs : SetConfigured(repo, conf)
    \/ \E i \in 1..Len(loggers) : Derive(i, Len(given) + 1)

Spec == Init /\ [][Next]_vars

(* The listeners, a caller whose write has room and a Close under way are  *)
(* scheduled (for the first two rotators, all that TLC opens).             *)
FairSpec ==
    /\ Spec
    /\ \A r \in 1..2 : WF_vars(r <= Len(rots) /\ Deliver(r)) /\ WF_vars(r <= Len(rots) /\ CloseEnd(r))
    /\ \A c \in Callers : WF_vars(LogUnblocked(c))

-----------------------------------------------------------------------------
(* "Close will ensure that queued/buffered but unwritten log entries are   *)
(* flushed to disk" (logrotate.go:77): once Close has returned, all that   *)
(* was logged through a buffered rotator without an extra sink before      *)
(* Close was called is on disk, in order, whoever logs, opens and closes   *)
(* meanwhile; and all that ever is logged through it, when rotators are    *)
(* opened and closed one at a time, the last first.  (In another order a   *)
(* later Close may restore the formatter of a stopped rotator.  Without a  *)
(* channel, or with an extra sink, Close flushes nothing: the entries in   *)
(* the buffer in front of the file are lost, whatever line 77 says.)       *)
ClosedIsOnDisk ==
    \A r \in 1..Len(rots) :
      rots[r].stopped /\ rots[r].buffered /\ ~rots[r].extraSink =>
        /\ rots[r].due <= Len(rots[r].disk) /\ IsPrefix(rots[r].disk, rots[r].sent)
        /\ ordered => rots[r].disk = rots[r].sent

Stuck(c) == pending[c] # NoRecord /\ rots[formatter.rot].stopped

(* A logging call waits for ever, with the logger's mutex held, only at    *)
(* the channel of a rotator that was stopped and whose formatter came back *)
(* because rotators were not closed the last first: then every later call  *)
(* waits too.  Opened and closed one at a time and in order, rotators come *)
(* and go and every call returns.  A Close that has given the formatter    *)
(* back returns (out of order, when others cease to write to it).          *)
LoggersReturn ==
    /\ \A c \in Callers : pending[c] # NoRecord ~> pending[c] = NoRecord \/ (Stuck(c) /\ ~ordered)
    /\ \A r \in 1..2 : r \in Closing ~> r \notin Closing
=============================================================================
