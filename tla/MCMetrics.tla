------------------------------ MODULE MCMetrics ------------------------------
(* The instance of Metrics for TLC.                                        *)
EXTENDS Metrics

Tag(n) == [name |-> n, value |-> n]
Op(op, typ, key, val) == [op |-> op, typ |-> typ, key |-> key, val |-> val]

\* A request like requestMetrics.ServeHTTP: two metrics, one slice of tags.
\* Another emits twice to the same series, other values.
Labels == <<Tag("role"), Tag("uri")>>
MCRequests == {
    [calls |-> <<Op("sample", "timer", <<"http">>, 2), Op("counter", "counter", <<"http">>, 1)>>,
     tags |-> Labels],
    [calls |-> <<Op("sample", "timer", <<"http">>, 3), Op("sample", "timer", <<"http">>, 1)>>,
     tags |-> Labels]}

CONSTANTS h1, h2, collector   \* two handlers and the runtime collector

Bounds(es, q, u, r, t) ==
    [emitters |-> es, requests |-> q, updates |-> u, reads |-> r, time |-> t]
Plain == [Blackhole EXCEPT !.filterDefault = TRUE, !.hostName = "h", !.enableHostname = TRUE]

\* Each sink by itself with room for its own interleavings, then several.
Handlers == {h1, h2}
Mixed == {h1, collector}
MCConfigs == {
    [Plain EXCEPT !.fanout = <<"inmem">>, !.max = Bounds(Handlers, 2, 0, 0, 2)],
    [Plain EXCEPT !.fanout = <<"inmem">>, !.max = Bounds(Mixed, 1, 0, 1, 2)],
    [Plain EXCEPT !.fanout = <<"statsd">>, !.max = Bounds(Handlers, 2, 0, 0, 0)],
    [Plain EXCEPT !.fanout = <<"prometheus">>, !.max = Bounds(Mixed, 2, 0, 0, 3)],
    [Plain EXCEPT !.fanout = <<"inmem", "statsd", "prometheus", "dogstatsd">>, !.max = Bounds(Mixed, 1, 1, 0, 1),
                  !.enableHostnameLabel = TRUE, !.serviceName = "s", !.enableServiceLabel = TRUE,
                  !.enableTypePrefix = TRUE, !.globalPrefix = "g"],
    [Plain EXCEPT !.fanout = <<"inmem", "prometheus", "dogstatsd">>, !.max = Bounds(Mixed, 1, 1, 0, 1)]}

MCFilters == {
    [NoFilter EXCEPT !.blockedLabels = {"role"}],
    [NoFilter EXCEPT !.allow = {<<"h", "http">>}, !.block = {<<"h">>}, !.blockedLabels = {"uri"}]}
=============================================================================
