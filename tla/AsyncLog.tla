------------------------------ MODULE AsyncLog -------------------------------
(***************************************************************************)
(* What a writer that defers its output promises: messages reach the       *)
(* destination in the order they were accepted, each once and unchanged,   *)
(* and a Stop returns only when everything acknowledged before it was      *)
(* called is in the destination and flushed.                               *)
(***************************************************************************)
EXTENDS Naturals, Sequences

CONSTANTS
    Messages,  \* what may be written
    Buffered   \* the destination keeps what it has got until it is flushed

VARIABLES
    log,      \* the messages accepted, in order
    written,  \* how many of them the destination has
    flushed,  \* how many of those are flushed
    due,      \* how many were acknowledged when Stop was called
    phase     \* "open", "stopping" or "stopped"

vars == <<log, written, flushed, due, phase>>

Init ==
    /\ log = <<>>
    /\ written = 0
    /\ flushed = 0
    /\ due = 0
    /\ phase = "open"

Accept ==
    /\ \E m \in Messages : log' = Append(log, m)
    /\ UNCHANGED <<written, flushed, due, phase>>

Deliver ==
    /\ written < Len(log)
    /\ written' = written + 1
    /\ flushed' = IF Buffered THEN flushed ELSE written + 1
    /\ UNCHANGED <<log, due, phase>>

Flush ==
    /\ flushed' = written
    /\ UNCHANGED <<log, written, due, phase>>

BeginStop ==
    /\ phase = "open"
    /\ phase' = "stopping"
    /\ due' \in written..Len(log)
    /\ UNCHANGED <<log, written, flushed>>

EndStop ==
    /\ phase = "stopping"
    /\ flushed >= due
    /\ phase' = "stopped"
    /\ UNCHANGED <<log, written, flushed, due>>

Next == Accept \/ Deliver \/ Flush \/ BeginStop \/ EndStop

Spec == Init /\ [][Next]_vars
=============================================================================
