----------------------------- MODULE SessionPool -----------------------------
(***************************************************************************)
(* The pools of PKCS#11 sessions of crypto11 (xpki/crypto11/sessions.go):  *)
(* every operation on a token runs inside withSession, which takes a       *)
(* session from the slot's pool or opens one, and returns it to the pool   *)
(* when the operation is over.  A pool is a channel of a given capacity;   *)
(* in which order it hands sessions out does not matter here, so it is a   *)
(* set.  A slot nobody called setupSessions for has the nil channel.       *)
(*                                                                         *)
(* setupSessions writes the map of pools under a mutex that withSession    *)
(* does not take: a lookup during the write is a concurrent map access,    *)
(* which the Go runtime may answer by ending the process.                  *)
(***************************************************************************)
EXTENDS Naturals, FiniteSets

CONSTANTS
    Users,        \* goroutines that sign, decrypt, generate keys...
    Slots,        \* token slots
    Default,      \* the slot Init opens
    Capacity,     \* capacity of the pool of each slot: max, 1024 by default
    MaxSessions,  \* bound: sessions the tokens let us open
    NoSlot        \* the user is in no operation

ASSUME SlotAssumption == Default \in Slots /\ NoSlot \notin Slots
ASSUME PoolBoundAssumption == Capacity \in [Slots -> Nat \ {0}] /\ MaxSessions \in Nat \ {0}

VARIABLES
    pools,    \* the slots in lib.sessionPools
    pool,     \* the sessions in each slot's channel
    opened,   \* how many sessions were opened; session n is the n-th
    slot,     \* the slot each user works on
    session,  \* the session each user holds; 0 is none
    pc,       \* where each user is
    writing,  \* the slot setupSessions is adding to the map, or NoSlot
    crashed   \* the runtime has detected a concurrent map access

userVars == <<slot, session, pc>>
poolVars == <<pools, pool, opened, userVars, writing, crashed>>

(* Init(config): the pool of the slot found, with the session that logged  *)
(* in.                                                                     *)
PoolInit ==
    /\ pools = {Default}
    /\ pool = [s \in Slots |-> IF s = Default THEN {1} ELSE {}]
    /\ opened = 1
    /\ slot = [u \in Users |-> NoSlot]
    /\ session = [u \in Users |-> 0]
    /\ pc = [u \in Users |-> "idle"]
    /\ writing = NoSlot
    /\ crashed = FALSE

Alive == ~crashed

-----------------------------------------------------------------------------
(* setupSessions, when the slot has no pool: the write of the map begins   *)
(* and ends; the mutex admits one at a time.                               *)
SetupBegin(s) ==
    /\ Alive
    /\ writing = NoSlot
    /\ s \notin pools
    /\ writing' = s
    /\ UNCHANGED <<pools, pool, opened, userVars, crashed>>

SetupEnd ==
    /\ Alive
    /\ writing # NoSlot
    /\ pools' = pools \cup {writing}
    /\ writing' = NoSlot
    /\ UNCHANGED <<pool, opened, userVars, crashed>>

(* withSession: `sessionPool := lib.sessionPools[slot]`.                   *)
Lookup(u, s) ==
    /\ Alive
    /\ pc[u] = "idle"
    /\ pc' = [pc EXCEPT ![u] = "select"]
    /\ slot' = [slot EXCEPT ![u] = s]
    /\ crashed' \in IF writing # NoSlot THEN BOOLEAN ELSE {FALSE}
    /\ UNCHANGED <<pools, pool, opened, session, writing>>

(* The select: a pooled session if there is one,                           *)
TakePooled_Peek(u) ==
    /\ Alive
    /\ pc[u] = "select"
    /\ \E x \in pool[slot[u]] : session' = [session EXCEPT ![u] = x]
    /\ pc' = [pc EXCEPT ![u] = "using"]
    /\ UNCHANGED <<pools, pool, opened, slot, writing, crashed>>

TakePooled(u) ==
    /\ Alive
    /\ pc[u] = "select"
    /\ \E x \in pool[slot[u]] :
         /\ session' = [session EXCEPT ![u] = x]
         /\ pool' = [pool EXCEPT ![slot[u]] = @ \ {x}]
    /\ pc' = [pc EXCEPT ![u] = "using"]
    /\ UNCHANGED <<pools, opened, slot, writing, crashed>>

(* otherwise a new one,                                                    *)
OpenNew(u) ==
    /\ Alive
    /\ pc[u] = "select"
    /\ pool[slot[u]] = {}
    /\ opened < MaxSessions
    /\ opened' = opened + 1
    /\ session' = [session EXCEPT ![u] = opened + 1]
    /\ pc' = [pc EXCEPT ![u] = "using"]
    /\ UNCHANGED <<pools, pool, slot, writing, crashed>>

(* or the error of OpenSession.                                            *)
OpenFails(u) ==
    /\ Alive
    /\ pc[u] = "select"
    /\ pool[slot[u]] = {}
    /\ pc' = [pc EXCEPT ![u] = "idle"]
    /\ slot' = [slot EXCEPT ![u] = NoSlot]
    /\ UNCHANGED <<pools, pool, opened, session, writing, crashed>>

(* f returns, with or without an error.                                    *)
Finish(u) ==
    /\ Alive
    /\ pc[u] = "using"
    /\ pc' = [pc EXCEPT ![u] = "returning"]
    /\ UNCHANGED <<pools, pool, opened, slot, session, writing, crashed>>

(* The deferred `sessionPool <- session`: a full or a nil channel blocks.  *)
Give_DropWhenFull(u) ==
    /\ Alive
    /\ pc[u] = "returning"
    /\ pool' = [pool EXCEPT ![slot[u]] =
                    IF Cardinality(@) + 1 < Capacity[slot[u]] THEN @ \cup {session[u]} ELSE @]
    /\ session' = [session EXCEPT ![u] = 0]
    /\ slot' = [slot EXCEPT ![u] = NoSlot]
    /\ pc' = [pc EXCEPT ![u] = "idle"]
    /\ UNCHANGED <<pools, opened, writing, crashed>>

Give_CapacityOne(u) ==
    /\ Alive
    /\ pc[u] = "returning"
    /\ slot[u] \in pools
    /\ pool[slot[u]] = {}
    /\ pool' = [pool EXCEPT ![slot[u]] = @ \cup {session[u]}]
    /\ session' = [session EXCEPT ![u] = 0]
    /\ slot' = [slot EXCEPT ![u] = NoSlot]
    /\ pc' = [pc EXCEPT ![u] = "idle"]
    /\ UNCHANGED <<pools, opened, writing, crashed>>

Give(u) ==
    /\ Alive
    /\ pc[u] = "returning"
    /\ slot[u] \in pools
    /\ Cardinality(pool[slot[u]]) < Capacity[slot[u]]
    /\ pool' = [pool EXCEPT ![slot[u]] = @ \cup {session[u]}]
    /\ session' = [session EXCEPT ![u] = 0]
    /\ slot' = [slot EXCEPT ![u] = NoSlot]
    /\ pc' = [pc EXCEPT ![u] = "idle"]
    /\ UNCHANGED <<pools, opened, writing, crashed>>

-----------------------------------------------------------------------------
(* Clients call setupSessions for a slot before they use it, as the key    *)
(* generators do.                                                          *)
Call(u) == \E s \in pools : Lookup(u, s)

Work(u) == TakePooled(u) \/ OpenNew(u) \/ OpenFails(u) \/ Finish(u) \/ Give(u)

Setup == SetupEnd \/ \E s \in Slots : SetupBegin(s)

PoolNext == Setup \/ \E u \in Users : Call(u) \/ Work(u)

PoolSpec == PoolInit /\ [][PoolNext]_poolVars

(* An operation on a token ends, and goroutines that can go on do.  Go     *)
(* queues the senders that wait at a full channel, and every receive lets  *)
(* the first of them in: Give is strongly fair.                            *)
PoolFairSpec ==
    /\ PoolSpec
    /\ WF_poolVars(SetupEnd)
    /\ \A u \in Users : WF_poolVars(Work(u)) /\ SF_poolVars(Give(u))

-----------------------------------------------------------------------------
(* Type invariant of the pools and their users.                            *)
PoolTypeOK ==
    /\ pools \in SUBSET Slots
    /\ pool \in [Slots -> SUBSET (1..opened)]
    /\ opened \in Nat
    /\ slot \in [Users -> Slots \cup {NoSlot}]
    /\ session \in [Users -> 0..opened]
    /\ pc \in [Users -> {"idle", "select", "using", "returning"}]
    /\ writing \in Slots \cup {NoSlot}
    /\ crashed \in BOOLEAN

(* "Each operation transiently takes a session from the pool. They have    *)
(* exclusive use of the session" (crypto11.go:36): no session is held by   *)
(* two users, or held and in a pool, or in two pools.                      *)
ExclusiveUse ==
    /\ \A u, v \in Users : u # v /\ session[u] # 0 => session[u] # session[v]
    /\ \A u \in Users, s \in Slots : session[u] \notin pool[s]
    /\ \A s, t \in Slots : s # t => pool[s] \cap pool[t] = {}

(* No session leaks: each one opened is in a pool or in somebody's hands.  *)
NoneLost ==
    1..opened \subseteq (UNION {pool[s] : s \in Slots}) \cup {session[u] : u \in Users}

(* "Consumers of the Signer interface ... expect to be able to sign from   *)
(* multiple threads without constraint" (crypto11.go:26): withSession      *)
(* returns, again and again.  The constraint there is: a pool may be full, *)
(* and then stay full for ever, when more goroutines than it has room for  *)
(* use the slot; the sessions it cannot take back block their users.       *)
Full(s) == Cardinality(pool[s]) = Capacity[s] /\ Capacity[s] < Cardinality(Users)

UserReturns ==
    \A u \in Users : \/ []<>(pc[u] = "idle" \/ crashed)
                     \/ <>[](pc[u] = "returning" /\ Full(slot[u]))
=============================================================================
