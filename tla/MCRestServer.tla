---------------------------- MODULE MCRestServer -----------------------------
(* RestServer with one service and two requests, for TLC: a TLS server     *)
(* with profiling and authorization, and a plain one.                      *)
EXTENDS RestServer

MCConfigs == {[tls |-> TRUE, profiling |-> TRUE, authz |-> TRUE],
              [tls |-> FALSE, profiling |-> FALSE, authz |-> FALSE]}
=============================================================================
