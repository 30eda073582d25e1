------------------------------- MODULE MCXlog --------------------------------
(* The instance of Xlog for TLC.                                           *)
EXTENDS Xlog

MCModes == [buffered : BOOLEAN, extraSink : BOOLEAN]
To(kind) == [kind |-> kind, rot |-> 0]
MCConfs == {<<<<"*", "D">>, <<"p", "ERROR">>>>, <<<<"p", "1">>, <<"q", "T">>>>, <<<<"p">>>>, <<<<"p", "X">>>>}

\* Rotators under load; contexts; levels; formatters.
MCBounds == {
    [logs |-> 3, levels |-> {INFO, DEBUG}, derive |-> 0, sets |-> 0, rotators |-> 2,
     formatters |-> {NilFormatter}],
    [logs |-> 2, levels |-> {INFO}, derive |-> 5, sets |-> 0, rotators |-> 0, formatters |-> {}],
    [logs |-> 0, levels |-> {}, derive |-> 1, sets |-> 4, rotators |-> 0, formatters |-> {}],
    [logs |-> 2, levels |-> {CRITICAL, INFO, DEBUG}, derive |-> 0, sets |-> 0, rotators |-> 1,
     formatters |-> {To("string"), To("color"), To("log"), To("stackdriver")}]}
=============================================================================
