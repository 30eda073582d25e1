----------------------------- MODULE MetricsBase -----------------------------
(***************************************************************************)
(* What the sinks of metrics share: the clock, the identities of the       *)
(* emissions and maps that start empty and grow.                           *)
(***************************************************************************)
EXTENDS Integers, Sequences, FiniteSets, SequencesExt, FiniteSetsExt, Functions

CONSTANTS
    MaxCalls    \* bound: calls of SetGauge, IncrCounter, AddSample that reach a sink

VARIABLE now    \* time.Now(), in ticks

Put(f, k, v) == [x \in DOMAIN f \cup {k} |-> IF x = k THEN v ELSE f[x]]
EmptyMap == [x \in {} |-> 0]

Kinds == {"gauge", "counter", "sample"}
=============================================================================
