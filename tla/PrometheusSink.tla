--------------------------- MODULE PrometheusSink ----------------------------
(***************************************************************************)
(* The Prometheus sink of metrics (metrics/prometheus.go): a series per    *)
(* kind and hash, made on first use and dropped by Collect when it was not *)
(* updated for longer than the expiration.  The times of the updates are   *)
(* kept per hash, whatever the kind.  Every call holds the mutex.          *)
(***************************************************************************)
EXTENDS MetricsBase

CONSTANTS Expiration   \* PrometheusOpts.Expiration in ticks; 0 is never

ASSUME ExpirationAssumption == Expiration \in Nat

VARIABLES
    series,    \* kind -> hash -> value: gauges, counters, summaries (sums)
    updates,   \* hash -> time of the last update
    touched    \* history: <<kind, hash>> -> time of its own last update

promVars == <<series, updates, touched>>

PromInit ==
    /\ series = [k \in Kinds |-> EmptyMap]
    /\ updates = EmptyMap
    /\ touched = EmptyMap

(* SetGauge, AddSample and IncrCounter.                                    *)
PromUpdate_OnlyNew(kind, hash, val) ==
    /\ series' = [series EXCEPT ![kind] = Put(@, hash, val)]
    /\ updates' = IF hash \in DOMAIN updates THEN updates ELSE Put(updates, hash, now)
    /\ touched' = Put(touched, <<kind, hash>>, now)

SetPromGauge(gauges, hash, val) == Put(gauges, hash, val)
AddPromSample(sums, hash, val) == Put(sums, hash, IF hash \in DOMAIN sums THEN sums[hash] + val ELSE val)
IncrPromCounter(counters, hash, val) ==
    Put(counters, hash, IF hash \in DOMAIN counters THEN counters[hash] + val ELSE val)

PromUpdate(kind, hash, val) ==
    /\ series' = [series EXCEPT ![kind] = CASE kind = "gauge"   -> SetPromGauge(@, hash, val)
                                            [] kind = "counter" -> IncrPromCounter(@, hash, val)
                                            [] kind = "sample"  -> AddPromSample(@, hash, val)]
    /\ updates' = Put(updates, hash, now)
    /\ touched' = Put(touched, <<kind, hash>>, now)

(* last.Add(p.expiration).Before(now); a hash that another kind's loop has *)
(* just deleted from updates has the zero time.                            *)
Expired(hash) ==
    /\ Expiration # 0
    /\ hash \notin DOMAIN updates \/ updates[hash] + Expiration < now

(* Collect: the loops over gauges, summaries and counters.                 *)
Collect ==
    LET gone == UNION {{h \in DOMAIN series[k] : Expired(h)} : k \in Kinds} IN
    /\ gone # {}
    /\ series' = [k \in Kinds |-> [h \in DOMAIN series[k] \ gone |-> series[k][h]]]
    /\ updates' = [h \in DOMAIN updates \ gone |-> updates[h]]
    /\ UNCHANGED touched

(* A series is dropped only when nothing was reported to it for longer     *)
(* than the expiration, although all kinds of a hash share one time stamp  *)
(* and the loops of Collect delete it under each other.                    *)
DroppedWhenStale ==
    [][\A k \in Kinds : \A h \in DOMAIN series[k] \ DOMAIN series'[k] :
          touched[<<k, h>>] + Expiration < now]_promVars
=============================================================================
