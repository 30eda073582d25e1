---------------------------- MODULE FileReloader -----------------------------
(***************************************************************************)
(* Reloader (fileutil/reloader/reloader.go): a goroutine that polls the    *)
(* modification time of a file and starts a callback when it has moved on, *)
(* explicit Reload by clients, and Close.                                  *)
(*                                                                         *)
(* fileModifiedAt is assigned by the goroutine without the lock, so a      *)
(* Reload of a client may copy it half written.  inProgress is only ever   *)
(* raised and lowered inside one critical section and is left out: no      *)
(* caller can find it set.                                                 *)
(***************************************************************************)
EXTENDS ReloaderBase, Integers, Sequences, FiniteSets

CONSTANTS
    MaxMTime,   \* bound: modification times of the file
    MaxRemoves  \* bound: times the file is removed for a while

ASSUME ReloaderBoundAssumption ==
    MaxMTime \in Nat \ {0} /\ MaxReloads \in Nat /\ MaxRemoves \in Nat
ASSUME NoneAssumption == None \notin Clients \cup Closers \cup {"loop"}

VARIABLES
    mtime,           \* modification time of the file; removed files keep it
    exists,          \* the file exists
    fileModifiedAt,  \* k.fileModifiedAt; 0 is the zero time
    stat,            \* the modification time the goroutine has just read
    loop,            \* where the goroutine of NewReloader is
    client,          \* where each client is
    pending,         \* callbacks started and not run: id and modifiedAt
    heard,           \* modifiedAt of the callbacks run, in order
    count,           \* k.count
    removes          \* times the file was removed, against its bound

fileVars == <<mtime, exists, removes>>
loopVars == <<loop, stat, fileModifiedAt>>
callVars == <<pending, heard, count>>
reloaderVars == <<fileVars, loopVars, client, closer, closed, lockVars, callVars>>

(* What a reader gets of a time.Time that is being assigned, when it gets  *)
(* neither the old value nor the new one.                                  *)
Torn == -1

ReloaderInit ==
    /\ mtime = 1
    /\ exists = TRUE
    /\ fileModifiedAt = 0
    /\ stat = 0
    /\ loop = "select"
    /\ client = [c \in Clients |-> "idle"]
    /\ closer = [c \in Closers |-> "idle"]
    /\ closed = FALSE
    /\ writer = None
    /\ readers = {}
    /\ pending = {}
    /\ heard = <<>>
    /\ count = 0
    /\ removes = 0

-----------------------------------------------------------------------------
(* The file, changed by others.                                            *)
Modify ==
    /\ mtime < MaxMTime
    /\ mtime' = mtime + 1
    /\ exists' = TRUE
    /\ UNCHANGED <<removes, loopVars, client, closer, closed, lockVars, callVars>>

Remove ==
    /\ exists
    /\ removes < MaxRemoves
    /\ removes' = removes + 1
    /\ exists' = FALSE
    /\ UNCHANGED <<mtime, loopVars, client, closer, closed, lockVars, callVars>>

-----------------------------------------------------------------------------
(* fi.ModTime().After(result.fileModifiedAt)                               *)
Modified_Coarse == mtime > fileModifiedAt + 1

Modified == mtime > fileModifiedAt

(* A tick: the file has been modified.  A tick on which os.Stat fails or   *)
(* shows nothing new changes nothing.                                      *)
TickModified ==
    /\ loop = "select"
    /\ exists /\ Modified
    /\ stat' = mtime
    /\ loop' = "assign"
    /\ UNCHANGED <<fileVars, fileModifiedAt, client, closer, closed, lockVars, callVars>>

(* `result.fileModifiedAt = fi.ModTime()` is complete; Reload is called.   *)
Assign ==
    /\ loop = "assign"
    /\ fileModifiedAt' = stat
    /\ loop' = "want"
    /\ UNCHANGED <<fileVars, stat, client, closer, closed, lockVars, callVars>>

-----------------------------------------------------------------------------
(* Reload counts the load and starts the callback with the time it reads;  *)
(* the callback's goroutine is identified by the count.                    *)
StartCallback(at) ==
    /\ count' = count + 1
    /\ pending' = pending \cup {[id |-> count, at |-> at]}
    /\ UNCHANGED heard

(* What Reload of a client can read: any of old, new and torn while the    *)
(* goroutine assigns.                                                      *)
ReadModifiedAt ==
    IF loop = "assign" THEN {fileModifiedAt, stat, Torn} ELSE {fileModifiedAt}

(* k.lock.Lock() announces the writer once the previous one has left.      *)
LoopLock ==
    /\ loop = "want"
    /\ writer = None
    /\ writer' = "loop"
    /\ loop' = "locked"
    /\ UNCHANGED <<fileVars, stat, fileModifiedAt, client, closer, closed, readers, callVars>>

(* The critical section of the goroutine's Reload.                         *)
LoopReload_IfNoneQueued ==
    /\ loop = "locked"
    /\ readers = {}
    /\ IF \E c \in Clients : client[c] = "want"
       THEN UNCHANGED callVars
       ELSE StartCallback(fileModifiedAt)
    /\ writer' = None
    /\ loop' = "select"
    /\ UNCHANGED <<fileVars, stat, fileModifiedAt, client, closer, closed, readers>>

LoopReload ==
    /\ loop = "locked"
    /\ readers = {}
    /\ StartCallback(fileModifiedAt)
    /\ writer' = None
    /\ loop' = "select"
    /\ UNCHANGED <<fileVars, stat, fileModifiedAt, client, closer, closed, readers>>

(* A client calls Reload, takes the lock and goes through the section.     *)
ClientCall(c) ==
    /\ client[c] = "idle"
    /\ count < MaxReloads
    /\ client' = [client EXCEPT ![c] = "want"]
    /\ UNCHANGED <<fileVars, loopVars, closer, closed, lockVars, callVars>>

ClientLock(c) ==
    /\ client[c] = "want"
    /\ writer = None
    /\ writer' = c
    /\ client' = [client EXCEPT ![c] = "locked"]
    /\ UNCHANGED <<fileVars, loopVars, closer, closed, readers, callVars>>

ClientReload(c) ==
    /\ client[c] = "locked"
    /\ readers = {}
    /\ \E at \in ReadModifiedAt : StartCallback(at)
    /\ writer' = None
    /\ client' = [client EXCEPT ![c] = "idle"]
    /\ UNCHANGED <<fileVars, loopVars, closer, closed, readers>>

(* The goroutine of a callback runs, in no particular order.               *)
RunCallback(x) ==
    /\ pending' = pending \ {x}
    /\ heard' = Append(heard, x.at)
    /\ UNCHANGED <<fileVars, loopVars, client, closer, closed, lockVars, count>>

-----------------------------------------------------------------------------
(* Close takes the read lock, which a writer on its way keeps it from; it  *)
(* may be called again.                                                    *)
CloseLock(c) ==
    /\ closer[c] \in {"idle", "closed"}
    /\ writer = None
    /\ readers' = readers \cup {c}
    /\ closer' = [closer EXCEPT ![c] = "reading"]
    /\ UNCHANGED <<fileVars, loopVars, client, closed, writer, callVars>>

(* `if k.closed` returns the error "already closed".                       *)
CloseAgain(c) ==
    /\ closer[c] = "reading"
    /\ closed
    /\ readers' = readers \ {c}
    /\ closer' = [closer EXCEPT ![c] = "refused"]
    /\ UNCHANGED <<fileVars, loopVars, client, closed, writer, callVars>>

(* `k.closed = true`, under the read lock only: another Close may have     *)
(* tested the flag already.                                                *)
CloseMark(c) ==
    /\ closer[c] = "reading"
    /\ ~closed
    /\ closer' = [closer EXCEPT ![c] = "marking"]
    /\ UNCHANGED <<fileVars, loopVars, client, closed, lockVars, callVars>>

CloseStore(c) ==
    /\ closer[c] = "marking"
    /\ closed' = TRUE
    /\ closer' = [closer EXCEPT ![c] = "sending"]
    /\ UNCHANGED <<fileVars, loopVars, client, lockVars, callVars>>

(* `k.stopChan <- struct{}{}` meets the goroutine's select, which returns; *)
(* Close unlocks and returns nil.                                          *)
CloseSend(c) ==
    /\ closer[c] = "sending"
    /\ loop = "select"
    /\ loop' = "ended"
    /\ readers' = readers \ {c}
    /\ closer' = [closer EXCEPT ![c] = "closed"]
    /\ UNCHANGED <<fileVars, stat, fileModifiedAt, client, closed, writer, callVars>>

-----------------------------------------------------------------------------
LoopNext == TickModified \/ Assign \/ LoopLock \/ LoopReload

ClientNext(c) == ClientLock(c) \/ ClientReload(c)

CloseNext(c) == CloseAgain(c) \/ CloseMark(c) \/ CloseStore(c) \/ CloseSend(c)

ReloaderNext ==
    \/ Modify \/ Remove
    \/ LoopNext
    \/ \E c \in Clients : ClientCall(c) \/ ClientNext(c)
    \/ \E c \in Closers : CloseLock(c) \/ CloseNext(c)
    \/ \E x \in pending : RunCallback(x)

ReloaderSpec == ReloaderInit /\ [][ReloaderNext]_reloaderVars

(***************************************************************************)
(* The goroutine gets its ticks and the lock; select is fair between the   *)
(* tick and stopChan.  A callback's goroutine runs.  Closing is optional,  *)
(* finishing a Close is not.                                               *)
(***************************************************************************)
ReloaderFairSpec ==
    /\ ReloaderSpec
    /\ SF_reloaderVars(TickModified) /\ WF_reloaderVars(Assign)
    /\ SF_reloaderVars(LoopLock) /\ WF_reloaderVars(LoopReload)
    /\ \A c \in Clients : SF_reloaderVars(ClientLock(c)) /\ WF_reloaderVars(ClientReload(c))
    /\ \A c \in Closers : SF_reloaderVars(CloseNext(c))
    /\ WF_reloaderVars(\E x \in pending : RunCallback(x))

-----------------------------------------------------------------------------
(* Type invariant of the reloader, its clients and its callbacks.          *)
ReloaderTypeOK ==
    /\ mtime \in 1..MaxMTime
    /\ exists \in BOOLEAN
    /\ fileModifiedAt \in 0..mtime
    /\ stat \in 0..mtime
    /\ loop \in {"select", "assign", "want", "locked", "ended"}
    /\ client \in [Clients -> {"idle", "want", "locked"}]
    /\ closer \in [Closers -> {"idle", "reading", "marking", "sending", "closed", "refused"}]
    /\ closed \in BOOLEAN
    /\ writer \in Clients \cup {"loop", None}
    /\ readers \in SUBSET Closers
    /\ pending \subseteq [id : 0..count, at : Torn..mtime]
    /\ heard \in Seq(Torn..mtime)
    /\ count \in Nat
    /\ removes \in 0..MaxRemoves

(* The times for which a callback has been started.                        *)
Reported == {x.at : x \in pending} \cup {heard[i] : i \in DOMAIN heard}

(* A modification the goroutine has ticked off in fileModifiedAt has been  *)
(* reported, though clients' Reloads compete for the lock in between: it   *)
(* will not be looked at again.                                            *)
MarkedIsReported ==
    loop \in {"select", "ended"} /\ fileModifiedAt > 0 => fileModifiedAt \in Reported

(* "OnChangedFunc is a called when the file has been modified"             *)
(* (reloader.go:21): the callback runs for a modification that lasts,      *)
(* unless the file disappears or the reloader is closed.                   *)
ChangeHeard ==
    \A m \in 1..MaxMTime :
        (exists /\ mtime = m) ~> \/ \E i \in DOMAIN heard : heard[i] = m
                                 \/ mtime # m \/ ~exists
                                 \/ \E c \in Closers : closer[c] # "idle"
=============================================================================
