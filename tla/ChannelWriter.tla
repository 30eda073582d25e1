---------------------------- MODULE ChannelWriter ----------------------------
(***************************************************************************)
(* ChannelWriter (xlog/logrotate/channelwriter.go): Write copies its bytes *)
(* into a pooled buffer and sends it on a channel, listen receives and     *)
(* writes to dest in the background, Stop drains and flushes.              *)
(*                                                                         *)
(* `queue` is the channel together with the senders blocked on it, in      *)
(* order: the first Depth elements are buffered and their Writes have      *)
(* returned, the others belong to Writes still blocked.  A receive from an *)
(* unbuffered channel (Depth = 0) takes a blocked sender's element.        *)
(* Messages are numbered in the order their sends reach the channel.       *)
(***************************************************************************)
EXTENDS Naturals, Sequences, FiniteSets, Functions

CONSTANTS
    Writers,     \* goroutines that call Write
    Stoppers,    \* goroutines that call Stop
    Buffers,     \* memory for buffers; enough that Get never has to wait
    NoBuffer,    \* listen holds no buffer
    Nobody,      \* nobody has won the CompareAndSwap of Stop
    Depth,       \* bufferDepth
    CanFlush,    \* dest has a Flush method
    FlushTicks,  \* flushInterval > 0
    MaxWrites    \* bound: calls of Write

ASSUME NoBufferAssumption == NoBuffer \notin Buffers
ASSUME NobodyAssumption == Nobody \notin Stoppers
ASSUME DepthAssumption == Depth \in Nat /\ MaxWrites \in Nat
ASSUME FlagAssumption == CanFlush \in BOOLEAN /\ FlushTicks \in BOOLEAN

VARIABLES
    queue,     \* cw.write: buffers sent, then buffers of blocked senders
    content,   \* the message each buffer holds
    inUse,     \* the buffers that are out of buffPool
    mine,      \* the last message of each writer
    issued,    \* messages sent so far
    held,      \* the buffer listen has received
    dest,      \* the messages dest has got
    flushed,   \* how many of them are flushed
    listen,    \* where listen is
    winner,    \* who won the CompareAndSwap of cw.running: Nobody is running = 1
    stopper,   \* where each caller of Stop is
    due        \* history: Writes that had returned when each Stop was called

writeVars == <<queue, content, inUse, mine, issued>>
destVars  == <<held, dest, flushed>>
stopVars  == <<winner, stopper, due>>
vars      == <<writeVars, destVars, listen, stopVars>>

(* How many Writes have returned: all but those blocked on a full channel. *)
Acked == IF Len(queue) > Depth THEN issued - (Len(queue) - Depth) ELSE issued

(* The writer is blocked in `cw.write <- buff`.                            *)
Blocked(w) == mine[w] > Acked

Init ==
    /\ queue = <<>>
    /\ content = [b \in Buffers |-> 0]
    /\ inUse = {}
    /\ mine = [w \in Writers |-> 0]
    /\ issued = 0
    /\ held = NoBuffer
    /\ dest = <<>>
    /\ flushed = 0
    /\ listen = "select"
    /\ winner = Nobody
    /\ stopper = [s \in Stoppers |-> "idle"]
    /\ due = [s \in Stoppers |-> 0]

-----------------------------------------------------------------------------
(* Write: a buffer from the pool (or New), a copy of the bytes, the send.  *)
(* It does not look at cw.running.                                         *)
Write(w) ==
    /\ ~Blocked(w)
    /\ issued < MaxWrites
    /\ \E b \in Buffers \ inUse :
         /\ inUse' = inUse \cup {b}
         /\ content' = [content EXCEPT ![b] = issued + 1]
         /\ queue' = Append(queue, b)
    /\ issued' = issued + 1
    /\ mine' = [mine EXCEPT ![w] = issued + 1]
    /\ UNCHANGED <<destVars, listen, stopVars>>

-----------------------------------------------------------------------------
(* `b := <-cw.write`, in the main select or while draining.                *)
Receive_PutEarly ==
    /\ listen \in {"select", "drain"}
    /\ queue # <<>>
    /\ held = NoBuffer
    /\ held' = Head(queue)
    /\ queue' = Tail(queue)
    /\ inUse' = inUse \ {Head(queue)}
    /\ UNCHANGED <<content, mine, issued, dest, flushed, listen, stopVars>>

Receive ==
    /\ listen \in {"select", "drain"}
    /\ queue # <<>>
    /\ held = NoBuffer
    /\ held' = Head(queue)
    /\ queue' = Tail(queue)
    /\ UNCHANGED <<content, inUse, mine, issued, dest, flushed, listen, stopVars>>

(* `dest.Write(b)`, then the buffer goes back to the pool or, when         *)
(* draining, to the garbage collector: either way it may be used again.    *)
DestWrite ==
    /\ held # NoBuffer
    /\ dest' = Append(dest, content[held])
    /\ inUse' = inUse \ {held}
    /\ held' = NoBuffer
    /\ UNCHANGED <<queue, content, mine, issued, flushed, listen, stopVars>>

(* The flush ticker's case of the select.                                  *)
FlushTick ==
    /\ listen = "select" /\ held = NoBuffer
    /\ CanFlush /\ FlushTicks
    /\ flushed' = Len(dest)
    /\ UNCHANGED <<writeVars, held, dest, listen, stopVars>>

(* The drain loop's default case: nothing is ready to be received, nor any *)
(* sender blocked.  Flush, and on to the deferred send on cw.stopped.      *)
DrainDone ==
    /\ listen = "drain" /\ held = NoBuffer
    /\ queue = <<>>
    /\ flushed' = IF CanFlush THEN Len(dest) ELSE flushed
    /\ listen' = "stopped"
    /\ UNCHANGED <<writeVars, held, dest, stopVars>>

-----------------------------------------------------------------------------
(* Stop: the CompareAndSwap lets one caller through; for the others Stop   *)
(* returns.                                                                *)
StopCall_NoSwap(s) ==
    /\ stopper[s] = "idle"
    /\ due' = [due EXCEPT ![s] = Acked]
    /\ winner' = IF winner = Nobody THEN s ELSE winner
    /\ stopper' = [stopper EXCEPT ![s] = "sending"]
    /\ UNCHANGED <<writeVars, destVars, listen>>

StopCall(s) ==
    /\ stopper[s] = "idle"
    /\ due' = [due EXCEPT ![s] = Acked]
    /\ winner' = IF winner = Nobody THEN s ELSE winner
    /\ stopper' = [stopper EXCEPT ![s] =
                        IF winner = Nobody THEN "sending" ELSE "returned"]
    /\ UNCHANGED <<writeVars, destVars, listen>>

(* `cw.stop <- true` meets listen's select.                                *)
StopSend(s) ==
    /\ stopper[s] = "sending"
    /\ listen = "select" /\ held = NoBuffer
    /\ stopper' = [stopper EXCEPT ![s] = "waiting"]
    /\ listen' = "drain"
    /\ UNCHANGED <<writeVars, destVars, winner, due>>

(* `<-cw.stopped` meets listen's deferred send.                            *)
StopReturn(s) ==
    /\ stopper[s] = "waiting"
    /\ listen = "stopped"
    /\ stopper' = [stopper EXCEPT ![s] = "returned"]
    /\ listen' = "ended"
    /\ UNCHANGED <<writeVars, destVars, winner, due>>

-----------------------------------------------------------------------------
Next ==
    \/ Receive \/ DestWrite \/ FlushTick \/ DrainDone
    \/ \E w \in Writers : Write(w)
    \/ \E s \in Stoppers : StopCall(s) \/ StopSend(s) \/ StopReturn(s)

Spec == Init /\ [][Next]_vars

(***************************************************************************)
(* listen always goes on.  Go's select chooses at random among the cases   *)
(* that are ready, so each case of the main select is strongly fair.       *)
(***************************************************************************)
FairSpec ==
    /\ Spec
    /\ SF_vars(Receive) /\ SF_vars(FlushTick)
    /\ WF_vars(DestWrite) /\ WF_vars(DrainDone)
    /\ \A s \in Stoppers : SF_vars(StopSend(s)) /\ WF_vars(StopReturn(s))

-----------------------------------------------------------------------------
(* Type invariant of the writer, its buffers and its callers; a buffer     *)
(* that is queued or held is out of the pool.                              *)
TypeOK ==
    /\ queue \in Seq(inUse)
    /\ content \in [Buffers -> Nat]
    /\ inUse \in SUBSET Buffers
    /\ mine \in [Writers -> Nat]
    /\ issued \in Nat
    /\ held \in inUse \cup {NoBuffer}
    /\ dest \in Seq(Nat)
    /\ flushed \in Nat
    /\ listen \in {"select", "drain", "stopped", "ended"}
    /\ winner \in Stoppers \cup {Nobody}
    /\ stopper \in [Stoppers -> {"idle", "sending", "waiting", "returned"}]
    /\ due \in [Stoppers -> Nat]

(* The messages of dest, of the buffer listen holds and of the channel, in *)
(* that order.                                                             *)
Pipeline ==
    dest \o (IF held = NoBuffer THEN <<>> ELSE <<content[held]>>)
         \o [k \in DOMAIN queue |-> content[queue[k]]]

(* Only further Writes hold a Stop up: whatever has been sent by now, the  *)
(* Stops return or another Write comes.  (The drain ends when it finds the *)
(* channel empty, so writers that never pause keep Stop for ever.)         *)
Stopping == \E s \in Stoppers : stopper[s] \in {"sending", "waiting"}

StopReturns == \A n \in 0..MaxWrites :
    (Stopping /\ issued = n) ~> (~Stopping \/ issued > n)

(* A Write blocked on a full channel returns, unless the writer is being   *)
(* stopped.                                                                *)
WriteReturns == \A w \in Writers : Blocked(w) ~> (~Blocked(w) \/ winner # Nobody)

(* "we'll flush at this interval when there are no writes"                 *)
(* (channelwriter.go:43): dest catches up, until a drain begins, which     *)
(* flushes at its end.                                                     *)
FlushedInTime ==
    (CanFlush /\ FlushTicks /\ flushed < Len(dest)) ~> (flushed = Len(dest) \/ listen = "drain")

(* Callers of Write return, callers of Stop do once the writers pause, and *)
(* the disk catches up.                                                    *)
WriterProgress == StopReturns /\ WriteReturns /\ FlushedInTime

(* The channel writer implements the ordered log it stands in for: nothing *)
(* is lost, duplicated, reordered or overwritten by a buffer that is put   *)
(* back too early (channelwriter.go:114), and Stop "will block until the   *)
(* channel is drained and the output flushed" (channelwriter.go:68).       *)
Phase == IF winner = Nobody THEN "open"
         ELSE IF stopper[winner] = "returned" THEN "stopped" ELSE "stopping"

Ordered == INSTANCE AsyncLog WITH
    Messages <- 1..MaxWrites,
    Buffered <- CanFlush,
    log <- Pipeline,
    written <- Len(dest),
    flushed <- IF CanFlush THEN flushed ELSE Len(dest),
    due <- IF winner = Nobody THEN 0 ELSE due[winner],
    phase <- Phase

ImplementsAsyncLog == Ordered!Spec
=============================================================================
