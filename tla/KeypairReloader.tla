--------------------------- MODULE KeypairReloader ---------------------------
(***************************************************************************)
(* KeypairReloader (rest/tlsconfig/reloader.go): the TLS key pair a server *)
(* or client serves, reloaded when the certificate or the key file         *)
(* changes, every hour, and on request.                                    *)
(*                                                                         *)
(* The files are written by others, one at a time, so a load may find a    *)
(* certificate and a key that do not belong together.  The n-th version of *)
(* a file has modification time n; KeyOf[n] is the version of the key that *)
(* the n-th certificate was issued for.  Reload reads the certificate,     *)
(* reads the key, and after a successful load stats both files again: each *)
(* is a step of its own, under the write lock.  k.inProgress cannot be     *)
(* observed set and is left out.                                           *)
(***************************************************************************)
EXTENDS ReloaderBase, Naturals, FiniteSets, Sequences

CONSTANTS
    KeyOf,         \* the key each certificate version belongs to
    MaxKey,        \* bound: versions of the key file
    Tries,         \* loads Reload attempts (3 in the code)
    MaxStatErrors  \* bound: failures of os.Stat

ASSUME KeyOfAssumption == KeyOf \in Seq(1..MaxKey) /\ Len(KeyOf) >= 1 /\ KeyOf[1] = 1
ASSUME KeypairBoundAssumption ==
    MaxKey \in Nat /\ Tries \in Nat \ {0} /\ MaxReloads \in Nat /\ MaxStatErrors \in Nat

Loop == "loop"
Loaders == Clients \cup {Loop}

ASSUME ActorAssumption == None \notin Loaders \cup Closers /\ Loop \notin Clients

VARIABLES
    cert,            \* version of the certificate file on disk
    key,             \* version of the key file on disk
    certModifiedAt,  \* k.certModifiedAt
    keyModifiedAt,   \* k.keyModifiedAt
    keypair,         \* k.keypair: the versions loaded; 0 before the first load
    hour,            \* more than an hour since k.loadedAt
    loader,          \* where each caller of Reload, and the goroutine, is
    load,            \* locals of each Reload: what it has read, the loads it
                     \* has attempted and oldModifiedAt
    notified,        \* versions of the certificate handlers were started with
    used             \* calls and failures so far, against their bounds

diskVars == <<cert, key>>
timeVars == <<certModifiedAt, keyModifiedAt, hour>>
pairVars == <<keypair, notified>>
closeVars == <<closer, closed>>
keypairVars == <<diskVars, timeVars, pairVars, loader, load, lockVars, closeVars, used>>

Matches(p) == KeyOf[p.cert] = p.key

(* The locals of Reload before it has read anything.                       *)
NoLoad == [cert |-> 0, key |-> 0, try |-> 0, old |-> 0]

(* The locals once the key file is read.                                   *)
WithKey(a) == [load[a] EXCEPT !.key = key]

(* NewKeypairReloaderWithLabel calls Reload before it starts the           *)
(* goroutine; the goroutine is "loop" from the start here.                 *)
KeypairInit ==
    /\ cert = 1 /\ key = 1
    /\ certModifiedAt = 0 /\ keyModifiedAt = 0
    /\ hour = FALSE
    /\ keypair = [cert |-> 0, key |-> 0]
    /\ loader = [a \in Loaders |-> IF a = Loop THEN "want" ELSE "idle"]
    /\ load = [a \in Loaders |-> NoLoad]
    /\ writer = None
    /\ readers = {}
    /\ closer = [c \in Closers |-> "idle"]
    /\ closed = FALSE
    /\ notified = {}
    /\ used = [reloads |-> 0, errors |-> 0]

(* The constructor has returned a reloader.                                *)
Constructed == keypair.cert > 0

-----------------------------------------------------------------------------
(* Somebody replaces a file.                                               *)
WriteCert ==
    /\ cert < Len(KeyOf)
    /\ cert' = cert + 1
    /\ UNCHANGED <<key, timeVars, pairVars, loader, load, lockVars, closeVars, used>>

WriteKey ==
    /\ key < MaxKey
    /\ key' = key + 1
    /\ UNCHANGED <<cert, timeVars, pairVars, loader, load, lockVars, closeVars, used>>

(* An hour goes by since the last load.                                    *)
HourPasses_Never ==
    /\ Constructed /\ ~hour
    /\ hour' = FALSE
    /\ UNCHANGED <<diskVars, certModifiedAt, keyModifiedAt, pairVars, loader, load,
                   lockVars, closeVars, used>>

HourPasses ==
    /\ Constructed /\ ~hour
    /\ hour' = TRUE
    /\ UNCHANGED <<diskVars, certModifiedAt, keyModifiedAt, pairVars, loader, load,
                   lockVars, closeVars, used>>

-----------------------------------------------------------------------------
(* A tick of the goroutine: it reloads when a file is newer than what it   *)
(* knows or an hour has gone by.  A tick that finds neither, or whose      *)
(* stats fail, changes nothing.                                            *)
KeypairTick ==
    /\ Constructed
    /\ loader[Loop] = "select"
    /\ cert > certModifiedAt \/ key > keyModifiedAt \/ hour
    /\ loader' = [loader EXCEPT ![Loop] = "want"]
    /\ UNCHANGED <<diskVars, timeVars, pairVars, load, lockVars, closeVars, used>>

(* A client calls Reload.                                                  *)
CallReload(a) ==
    /\ Constructed
    /\ loader[a] = "idle"
    /\ used.reloads < MaxReloads
    /\ used' = [used EXCEPT !.reloads = @ + 1]
    /\ loader' = [loader EXCEPT ![a] = "want"]
    /\ UNCHANGED <<diskVars, timeVars, pairVars, load, lockVars, closeVars>>

(* k.lock.Lock(): announce, then wait for the readers to leave.            *)
Announce_NoMutex(a) ==
    /\ loader[a] = "want"
    /\ writer' = a
    /\ loader' = [loader EXCEPT ![a] = "announced"]
    /\ UNCHANGED <<diskVars, timeVars, pairVars, load, readers, closeVars, used>>

Announce(a) ==
    /\ loader[a] = "want"
    /\ writer = None
    /\ writer' = a
    /\ loader' = [loader EXCEPT ![a] = "announced"]
    /\ UNCHANGED <<diskVars, timeVars, pairVars, load, readers, closeVars, used>>

Enter(a) ==
    /\ loader[a] = "announced"
    /\ readers = {}
    /\ load' = [load EXCEPT ![a].old = certModifiedAt]
    /\ loader' = [loader EXCEPT ![a] = "readCert"]
    /\ UNCHANGED <<diskVars, timeVars, pairVars, lockVars, closeVars, used>>

(* tls.LoadX509KeyPair reads the certificate file, then the key file.      *)
ReadCert(a) ==
    /\ loader[a] = "readCert"
    /\ load' = [load EXCEPT ![a].cert = cert]
    /\ loader' = [loader EXCEPT ![a] = "readKey"]
    /\ UNCHANGED <<diskVars, timeVars, pairVars, lockVars, closeVars, used>>

(* It fails when they do not belong together: next try, or the error.      *)
(* keypair and the times known stay as they are.                           *)
AfterMismatch(a) ==
    IF load[a].try + 1 < Tries THEN "readCert"
    ELSE IF a = Loop THEN (IF Constructed THEN "select" ELSE "failed")
    ELSE "idle"

LoadFails(a) ==
    /\ loader[a] = "readKey"
    /\ ~Matches(WithKey(a))
    /\ loader' = [loader EXCEPT ![a] = AfterMismatch(a)]
    /\ IF AfterMismatch(a) = "readCert"
       THEN load' = [load EXCEPT ![a].try = @ + 1] /\ UNCHANGED writer
       ELSE load' = [load EXCEPT ![a] = NoLoad] /\ writer' = None
    /\ UNCHANGED <<diskVars, timeVars, pairVars, readers, closeVars, used>>

LoadSucceeds_Unchecked(a) ==
    /\ loader[a] = "readKey"
    /\ load' = [load EXCEPT ![a] = WithKey(a)]
    /\ hour' = FALSE
    /\ loader' = [loader EXCEPT ![a] = "stat"]
    /\ UNCHANGED <<diskVars, certModifiedAt, keyModifiedAt, pairVars, lockVars,
                   closeVars, used>>

LoadSucceeds(a) ==
    /\ loader[a] = "readKey"
    /\ Matches(WithKey(a))
    /\ load' = [load EXCEPT ![a] = WithKey(a)]
    /\ hour' = FALSE
    /\ loader' = [loader EXCEPT ![a] = "stat"]
    /\ UNCHANGED <<diskVars, certModifiedAt, keyModifiedAt, pairVars, lockVars,
                   closeVars, used>>

(* os.Stat of both files, after the load; a failure leaves the time known. *)
StatFiles(a) ==
    /\ loader[a] = "stat"
    /\ \E certOK, keyOK \in BOOLEAN :
         /\ certModifiedAt' = IF certOK THEN cert ELSE certModifiedAt
         /\ keyModifiedAt' = IF keyOK THEN key ELSE keyModifiedAt
         /\ IF certOK /\ keyOK
            THEN UNCHANGED used
            ELSE /\ used.errors < MaxStatErrors
                 /\ used' = [used EXCEPT !.errors = @ + 1]
    /\ loader' = [loader EXCEPT ![a] = "publish"]
    /\ UNCHANGED <<diskVars, hour, pairVars, load, lockVars, closeVars>>

(* `k.keypair = &newCert`; the handlers are started when the time of the   *)
(* certificate file has changed; the lock is released.                     *)
Publish(a) ==
    /\ loader[a] = "publish"
    /\ keypair' = [cert |-> load[a].cert, key |-> load[a].key]
    /\ notified' = IF load[a].old # certModifiedAt THEN notified \cup {load[a].cert}
                   ELSE notified
    /\ load' = [load EXCEPT ![a] = NoLoad]
    /\ writer' = None
    /\ loader' = [loader EXCEPT ![a] = IF a = Loop THEN "select" ELSE "idle"]
    /\ UNCHANGED <<diskVars, timeVars, readers, closeVars, used>>

-----------------------------------------------------------------------------
(* Close: the read lock, the test of closed, its assignment (another Close *)
(* holding the read lock may have tested it already), and the send that    *)
(* meets the goroutine's select.  Close may be called again.               *)
KeypairCloseLock(c) ==
    /\ Constructed
    /\ closer[c] \in {"idle", "closed"}
    /\ writer = None
    /\ readers' = readers \cup {c}
    /\ closer' = [closer EXCEPT ![c] = "reading"]
    /\ UNCHANGED <<diskVars, timeVars, pairVars, loader, load, writer, closed, used>>

KeypairCloseAgain(c) ==
    /\ closer[c] = "reading"
    /\ closed
    /\ readers' = readers \ {c}
    /\ closer' = [closer EXCEPT ![c] = "refused"]
    /\ UNCHANGED <<diskVars, timeVars, pairVars, loader, load, writer, closed, used>>

KeypairCloseMark(c) ==
    /\ closer[c] = "reading"
    /\ ~closed
    /\ closer' = [closer EXCEPT ![c] = "marking"]
    /\ UNCHANGED <<diskVars, timeVars, pairVars, loader, load, lockVars, closed, used>>

KeypairCloseStore(c) ==
    /\ closer[c] = "marking"
    /\ closed' = TRUE
    /\ closer' = [closer EXCEPT ![c] = "sending"]
    /\ UNCHANGED <<diskVars, timeVars, pairVars, loader, load, lockVars, used>>

KeypairCloseSend(c) ==
    /\ closer[c] = "sending"
    /\ loader[Loop] = "select"
    /\ loader' = [loader EXCEPT ![Loop] = "ended"]
    /\ readers' = readers \ {c}
    /\ closer' = [closer EXCEPT ![c] = "closed"]
    /\ UNCHANGED <<diskVars, timeVars, pairVars, load, writer, closed, used>>

-----------------------------------------------------------------------------
Reload(a) ==
    \/ Announce(a) \/ Enter(a) \/ ReadCert(a) \/ LoadFails(a) \/ LoadSucceeds(a)
    \/ StatFiles(a) \/ Publish(a)

KeypairClose(c) ==
    \/ KeypairCloseAgain(c) \/ KeypairCloseMark(c) \/ KeypairCloseStore(c)
    \/ KeypairCloseSend(c)

KeypairNext ==
    \/ WriteCert \/ WriteKey \/ HourPasses \/ KeypairTick
    \/ \E a \in Clients : CallReload(a)
    \/ \E a \in Loaders : Reload(a)
    \/ \E c \in Closers : KeypairCloseLock(c) \/ KeypairClose(c)

KeypairSpec == KeypairInit /\ [][KeypairNext]_keypairVars

(***************************************************************************)
(* The goroutine gets its ticks, the lock is not starved, a Reload goes on *)
(* once it has the lock, hours pass.  Nobody has to write the files, to    *)
(* call Reload or to call Close.                                           *)
(***************************************************************************)
KeypairFairSpec ==
    /\ KeypairSpec
    /\ WF_keypairVars(HourPasses) /\ SF_keypairVars(KeypairTick)
    /\ \A a \in Loaders : SF_keypairVars(Reload(a))
    /\ \A c \in Closers : SF_keypairVars(KeypairClose(c))

-----------------------------------------------------------------------------
(* Type invariant; the times known are times the files have had.           *)
KeypairTypeOK ==
    /\ cert \in 1..Len(KeyOf) /\ key \in 1..MaxKey
    /\ certModifiedAt \in 0..cert /\ keyModifiedAt \in 0..key
    /\ hour \in BOOLEAN
    /\ keypair \in [cert : 0..cert, key : 0..key]
    /\ loader \in [Loaders -> {"idle", "select", "want", "announced", "readCert", "readKey",
                               "stat", "publish", "failed", "ended"}]
    /\ load \in [Loaders -> [cert : 0..cert, key : 0..key, try : 0..(Tries - 1), old : 0..cert]]
    /\ writer \in Loaders \cup {None}
    /\ readers \in SUBSET Closers
    /\ closer \in [Closers -> {"idle", "reading", "marking", "sending", "closed", "refused"}]
    /\ closed \in BOOLEAN
    /\ notified \subseteq 1..cert
    /\ used \in [reloads : 0..MaxReloads, errors : 0..MaxStatErrors]

(* The pair in use is a certificate with its own key, although the files   *)
(* are replaced one after the other while Reload reads them.               *)
ServedPairMatches == Constructed => Matches(keypair)

(* A Reload never replaces the pair in use by an older one: concurrent     *)
(* Reloads are serialised from the first read to the assignment.           *)
NeverServesOlder == [][keypair'.cert >= keypair.cert /\ keypair'.key >= keypair.key]_keypairVars

(* Once the files hold a matching pair and stay as they are, that pair is  *)
(* served, unless the reloader was closed.  The certificate file may have  *)
(* changed between the load and the stat; the hourly reload repairs that.  *)
DiskPairServed ==
    \A n \in DOMAIN KeyOf :
        (Constructed /\ cert = n /\ key = KeyOf[n])
            ~> \/ keypair = [cert |-> n, key |-> KeyOf[n]]
               \/ cert # n \/ key # KeyOf[n]
               \/ \E c \in Closers : closer[c] # "idle"
=============================================================================
