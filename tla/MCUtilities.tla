---------------------------- MODULE MCUtilities ------------------------------
(***************************************************************************)
(* The instance for TLC of three packages that stand alone: the throttle,  *)
(* the pools of PKCS#11 sessions and the keypair reloader.  They share no  *)
(* state, so their interleavings show nothing new: every behaviour is one  *)
(* of a single package, `part`, and the other two stay as they start.      *)
(***************************************************************************)
EXTENDS Throttle, SessionPool, KeypairReloader, TLC

CONSTANTS p, q   \* the slots of the token

Capacities == (p :> 3) @@ (q :> 2)

(* The second certificate renews the first one's key, the third has a key  *)
(* of its own.                                                             *)
RenewThenRekey == <<1, 1, 2>>

VARIABLE part   \* the package that runs

utilityVars == <<part, throttleVars, poolVars, keypairVars>>

Init ==
    /\ part \in {"throttle", "pool", "keypair"}
    /\ ThrottleInit /\ (part # "throttle" => ~trailing)
    /\ PoolInit
    /\ KeypairInit

InThrottle(A) == part = "throttle" /\ A /\ UNCHANGED <<part, poolVars, keypairVars>>

InPool(A) == part = "pool" /\ A /\ UNCHANGED <<part, throttleVars, keypairVars>>

InKeypair(A) == part = "keypair" /\ A /\ UNCHANGED <<part, throttleVars, poolVars>>

Next == InThrottle(ThrottleNext) \/ InPool(PoolNext) \/ InKeypair(KeypairNext)

(* The goroutines that use the pools, or that call Reload and Close.       *)
Goroutines == Loaders \cup Closers

ReloadOrClose(g) ==
    \/ g \in Loaders /\ Reload(g)
    \/ g \in Closers /\ KeypairClose(g)

(* The fairness of ThrottleFairSpec, PoolFairSpec and KeypairFairSpec,     *)
(* owed by the package that runs.  One condition may speak of two          *)
(* packages: only one of them ever runs.                                   *)
FairSpec ==
    /\ Init /\ [][Next]_utilityVars
    /\ WF_utilityVars(InThrottle(TimePasses) \/ InPool(SetupEnd) \/ InKeypair(HourPasses))
    /\ WF_utilityVars(InThrottle(\E x \in timers : Fire(x)))
    /\ \A c \in Consumers : WF_utilityVars(InThrottle(Consume(c)))
    /\ \A u \in Users : WF_utilityVars(InPool(Work(u)))
    /\ SF_utilityVars(InKeypair(KeypairTick))
    /\ \A g \in Goroutines : SF_utilityVars(InPool(Give(g)) \/ InKeypair(ReloadOrClose(g)))
=============================================================================
