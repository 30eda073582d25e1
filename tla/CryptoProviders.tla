--------------------------- MODULE CryptoProviders ---------------------------
(***************************************************************************)
(* The crypto providers of a process (xpki/cryptoprov): PKCS#11 tokens     *)
(* (TokenKeys), AWS KMS, and keys in memory.  Providers are loaded through *)
(* the registry of loaders; a key is saved as what ExportKey returns, a    *)
(* PEM file or a PKCS#11 URI, and loaded again by LoadPrivateKey.          *)
(*                                                                         *)
(* A provider is [place, kind, man, module, serial]: where its keys are,   *)
(* the manufacturer of its configuration, the manufacturer its PKCS#11     *)
(* module reports and the serial number of its token.                      *)
(***************************************************************************)
EXTENDS TokenKeys

CONSTANT Kms  \* the stores that are KMS regions; the other ones are in memory

ASSUME KmsAssumption == Kms \subseteq Stores

(* The providers that can be configured: the ones of PKCS#11 have a slot.  *)
ProviderConfigs ==
    {p \in [place : Slots \cup Stores, kind : {"pkcs11", "kms", "inmem", "testprov"}, man : STRING, module : STRING,
            serial : STRING] : p.place \in Slots <=> p.kind = "pkcs11"}

(* What is in a place does not depend on who asks.                         *)
SamePlace(p, q) == p.place = q.place => p.kind = q.kind /\ p.module = q.module /\ p.serial = q.serial

ASSUME SetupAssumption ==
    \A s \in DOMAIN Scenarios :
       /\ Scenarios[s].setups \subseteq Seq(ProviderConfigs) /\ Scenarios[s].slots \subseteq Slots
       /\ \A setup \in Scenarios[s].setups : \A i, j \in 1..Len(setup) : SamePlace(setup[i], setup[j])

VARIABLES
    loaders,  \* manufacturers with a registered loader
    loading,  \* the configurations Load has left
    crypto,   \* Crypto: [default, by], or NoCrypto
    files,    \* saved keys: PEM files and URIs
    keys      \* the crypto.PrivateKey values that were loaded

providerVars == <<loaders, loading, crypto, files, keys>>

NoCrypto == [default |-> {}, by |-> {}]
Loaded == crypto # NoCrypto /\ loading = <<>>

(* What Manufacturer() of each kind of provider returns.                   *)
Crypto11Manufacturer(p) == p.man
KmsManufacturer(p) == p.man
InmemManufacturer == "trusty"
TestprovManufacturer == "testprov"
Manufacturer(p) ==
    CASE p.kind = "pkcs11" -> Crypto11Manufacturer(p)
      [] p.kind = "kms" -> KmsManufacturer(p)
      [] p.kind = "inmem" -> InmemManufacturer
      [] p.kind = "testprov" -> TestprovManufacturer

-----------------------------------------------------------------------------
(* The registry and Load.                                                  *)

Register(m) ==
    /\ m \notin loaders
    /\ loaders' = loaders \cup {m}
    /\ UNCHANGED <<tokenVars, loading, crypto, files, keys>>

Unregister(m) ==
    /\ m \in loaders
    /\ loaders' = loaders \ {m}
    /\ UNCHANGED <<tokenVars, loading, crypto, files, keys>>

(* New has the default provider; Add refuses a second provider of a        *)
(* manufacturer.                                                           *)
New(p) == [default |-> {p}, by |-> {}]
Duplicate(c, p) == \E q \in c.by : Manufacturer(q) = Manufacturer(p)
Add_Replaces(c, p) == [c EXCEPT !.by = {q \in @ : Manufacturer(q) # Manufacturer(p)} \cup {p}]
Add(c, p) == IF Duplicate(c, p) THEN NoCrypto ELSE [c EXCEPT !.by = @ \cup {p}]

(* The provider of a manufacturer, the default one first; {} is an error.  *)
ByManufacturer(c, m) ==
    LET named(ps) == {p \in ps : Manufacturer(p) = m}
    IN IF named(c.default) # {} THEN named(c.default) ELSE named(c.by)

(* LoadProvider: the loader registered for the manufacturer, which may     *)
(* fail (crypto11.Init finds no token of the serial number or label, or    *)
(* the login fails; the KMS client cannot be made).                        *)
LoadProvider(p) == {{p} : m \in {p.man} \cap loaders} \cup {{}}

(* Load, one provider at a time: the default one, then the others.         *)
Load ==
    /\ loading # <<>>
    /\ \E p \in LoadProvider(Head(loading)) :
          LET c == IF p = {} THEN NoCrypto
                   ELSE Add(IF crypto = NoCrypto THEN New(CHOOSE q \in p : TRUE) ELSE crypto,
                            CHOOSE q \in p : TRUE)
          IN /\ crypto' = c
             /\ loading' = IF c = NoCrypto THEN <<>> ELSE Tail(loading)
    /\ UNCHANGED <<tokenVars, loaders, files, keys>>

-----------------------------------------------------------------------------
(* The calls of each kind of provider, as their functions.                 *)

FindKeyPairOnSession == <<"private", "type", "public", "export">>

Crypto11GenerateRSAKey == <<"generate", "export", "identify">>
Crypto11GenerateECDSAKey == <<"generate", "export", "identify">>
KmsGenerateRSAKey == <<"create", "publickey">>
KmsGenerateECDSAKey == <<"create", "publickey">>
InmemGenerateRSAKey == <<"create">>
InmemGenerateECDSAKey == <<"create">>
TestprovGenerateRSAKey == <<"create">>
TestprovGenerateECDSAKey == <<"create">>
Generators ==
    [RSA |-> [pkcs11 |-> Crypto11GenerateRSAKey, kms |-> KmsGenerateRSAKey,
              inmem |-> InmemGenerateRSAKey, testprov |-> TestprovGenerateRSAKey],
     ECDSA |-> [pkcs11 |-> Crypto11GenerateECDSAKey, kms |-> KmsGenerateECDSAKey,
                inmem |-> InmemGenerateECDSAKey, testprov |-> TestprovGenerateECDSAKey]]
GenerateKey(p, typ) == Generators[KeyType(typ)][p.kind]

Crypto11GetKey == FindKeyPairOnSession
KmsGetKey == <<"describe", "publickey">>
InmemGetKey == <<"describe">>
TestprovGetKey == <<"describe">>
GetKey(p) ==
    CASE p.kind = "pkcs11" -> Crypto11GetKey
      [] p.kind = "kms" -> KmsGetKey
      [] p.kind = "inmem" -> InmemGetKey
      [] p.kind = "testprov" -> TestprovGetKey

(* ExportKey of a token makes sure that the key exists.                    *)
Crypto11ExportKey == <<"info">> \o FindKeyPairOnSession \o <<"info">>
KmsExportKey == <<"describe">>
InmemExportKey == <<"describe">>
TestprovExportKey == <<"describe">>
ExportKey(p) ==
    CASE p.kind = "pkcs11" -> Crypto11ExportKey
      [] p.kind = "kms" -> KmsExportKey
      [] p.kind = "inmem" -> InmemExportKey
      [] p.kind = "testprov" -> TestprovExportKey

(* KeyInfo, with or without the public key.                                *)
Crypto11KeyInfo(public) == <<"private", "identify">> \o IF public THEN FindKeyPairOnSession ELSE <<>>
KmsKeyInfo(public) == <<"describe">> \o IF public THEN <<"publickey">> ELSE <<>>
KeyInfo(place, public) == IF place \in Slots THEN Crypto11KeyInfo(public) ELSE KmsKeyInfo(public)

KmsDestroyKeyPairOnSlot == <<"schedule">>

-----------------------------------------------------------------------------
(* The functions of KMS and of the keys in memory, whose maps neither fail *)
(* nor forget.                                                             *)

Stored(o) == {x \in objects : x.place = o.place /\ x.id = o.id}
KmsFault(u) == op[u].place \in Kms /\ Fault(u)
KeyFault(u) == op[u].place \in Kms \cup Slots /\ Fault(u)

(* The label of a KMS key is its description, which may be empty.           *)
StoredKey(o, id) ==
    [Half(o, "key", id, made[o.place] + 1) EXCEPT !.label = IF o.place \in Kms THEN o.label ELSE @]

(* CreateKey; GenerateKey and registerKey of the providers in memory.      *)
CreateKey(u) ==
    LET o == op[u]
        id == generateKeyID(o.place)
    IN
    /\ At(u, "create")
    /\ \/ /\ NoFault
          /\ objects' = objects \cup {StoredKey(o, id)}
          /\ made' = [made EXCEPT ![o.place] = @ + 1]
          /\ Continue(u, [o EXCEPT !.id = id, !.label = NoLabel])
       \/ KmsFault(u) /\ Fail(u) /\ UNCHANGED <<objects, made>>
    /\ UNCHANGED <<gone, scenario, providerVars>>

(* DescribeKey, getKey of the map: a key that is to be deleted is there.   *)
DescribeKey(u) ==
    /\ At(u, "describe")
    /\ \/ Stored(op[u]) # {} /\ NoFault /\ Continue(u, [op[u] EXCEPT !.pub = op[u].id])
       \/ Stored(op[u]) = {} /\ NoFault /\ Fail(u)
       \/ KmsFault(u) /\ Fail(u)
    /\ UNCHANGED <<objects, made, gone, scenario, providerVars>>

(* GetPublicKey: not of a key that is to be deleted.                       *)
GetPublicKey(u) ==
    LET usable == {x \in Stored(op[u]) : x.state = "Enabled"} IN
    /\ At(u, "publickey")
    /\ \/ usable # {} /\ NoFault /\ Continue(u, [op[u] EXCEPT !.pub = op[u].id])
       \/ usable = {} /\ NoFault /\ Fail(u)
       \/ KmsFault(u) /\ Fail(u)
    /\ UNCHANGED <<objects, made, gone, scenario, providerVars>>

(* EnumKeys: the keys that are not to be deleted, whatever the prefix;     *)
(* hsm rmkey --prefix goes on to destroy them all.                         *)
KmsEnumKeys(u) ==
    LET o == op[u]
        ids == SetToSeq({x.id : x \in {y \in objects : y.place = o.place /\ y.state = "Enabled"}})
    IN
    /\ At(u, "kmslist")
    /\ \/ /\ NoFault
          /\ \/ /\ Len(o.todo) > 1 /\ ids # <<>>
                /\ Continue(u, [o EXCEPT !.id = Head(ids), !.queue = Tail(ids)])
             \/ Fail(u)
       \/ KmsFault(u) /\ Fail(u)
    /\ UNCHANGED <<objects, made, gone, scenario, providerVars>>

(* A key that is to be deleted cannot be scheduled again.                  *)
ScheduleKeyDeletion(u) ==
    LET o == op[u]
        usable == {x \in Stored(o) : x.state = "Enabled"}
    IN
    /\ At(u, "schedule")
    /\ \/ /\ usable # {} /\ NoFault
          /\ objects' = (objects \ usable) \cup {[x EXCEPT !.state = "PendingDeletion"] : x \in usable}
          /\ \/ o.queue # <<>> /\ op' = [op EXCEPT ![u].id = Head(o.queue), ![u].queue = Tail(@)]
             \/ o.queue = <<>> /\ Continue(u, o)
       \/ usable = {} /\ NoFault /\ Fail(u) /\ UNCHANGED objects
       \/ KmsFault(u) /\ Fail(u) /\ UNCHANGED objects
    /\ UNCHANGED <<made, gone, scenario, providerVars>>

-----------------------------------------------------------------------------
(* Saved keys.                                                             *)

URI(m, serial, id) == [form |-> "uri", manufacturer |-> m, serial |-> serial, id |-> id, type |-> "private", of |-> id]
Crypto11URI(p, id) == URI(p.module, p.serial, id)
KmsURI(p, id) == URI("AWSKMS", "arn", id)
TestprovURI(p, id) == URI(TestprovManufacturer, "20764350726", id)
InmemPEM(id) == [form |-> "pem", of |-> id]

Exported(p, id) ==
    CASE p.kind = "pkcs11" -> Crypto11URI(p, id)
      [] p.kind = "kms" -> KmsURI(p, id)
      [] p.kind = "testprov" -> TestprovURI(p, id)
      [] OTHER -> InmemPEM(id)

ProviderAt(place) == CHOOSE p \in crypto.default \cup crypto.by : p.place = place

(* The caller writes what ExportKey returned to a file.                    *)
Save(u) ==
    /\ At(u, "save")
    /\ files' = files \cup {Exported(ProviderAt(op[u].place), op[u].id)}
    /\ Continue(u, op[u])
    /\ UNCHANGED <<objects, made, faults, hit, gone, scenario, loaders, loading, crypto, keys>>

(* ParsePrivateKeyURI insists on the type, a serial number and an id.      *)
ParsePrivateKeyURI(f) == f.type = "private" /\ f.serial # "" /\ f.id # NoID

(* The providers LoadPrivateKey asks for the key of a file, {} for an      *)
(* error; the key of a PEM file is in the file.                            *)
Asked(f) == IF ParsePrivateKeyURI(f) THEN ByManufacturer(crypto, f.manufacturer) ELSE {}

ParsePrivateKeyPEM(f) ==
    [place |-> "memory", handle |-> 0, pub |-> f.of, typ |-> AnyType, id |-> f.of, label |-> NoLabel, file |-> f]

(* GetKey has found the key.                                               *)
Held(o) ==
    [place |-> o.place, handle |-> o.handle.private, pub |-> o.pub, typ |-> o.typ, id |-> o.id,
     label |-> o.label, file |-> o.file]

Hold(u) ==
    /\ At(u, "hold")
    /\ keys' = keys \cup {Held(op[u])}
    /\ Continue(u, op[u])
    /\ UNCHANGED <<objects, made, faults, hit, gone, scenario, loaders, loading, crypto, files>>

(* The keys a signature of k would be made with: Sign uses a session of    *)
(* the library's own slot, wherever the key was found; {} is an error.     *)
SignInit(k) ==
    {x \in objects : x.place = CurrentSlot /\ x.handle = k.handle /\ x.class = "private" /\ x.uses = "sign"}
RSASign(k) == {x.id : x \in {y \in SignInit(k) : y.typ = "RSA"}}
DSASign(k) == {x.id : x \in {y \in SignInit(k) : y.typ = "DSA"}}
ECDSASign(k) == {x.id : x \in {y \in SignInit(k) : KeyType(y.typ) = "ECDSA"}}
Crypto11Sign(k) ==
    CASE k.typ = "RSA" -> RSASign(k) [] k.typ = "DSA" -> DSASign(k) [] OTHER -> ECDSASign(k)
KmsSign(k) == {x.id : x \in {y \in Stored(k) : y.state = "Enabled" /\ y.uses = "sign"}}
MemorySign(k) == {k.pub}
SignWith(k) ==
    CASE k.place \in Slots -> Crypto11Sign(k)
      [] k.place \in Kms -> KmsSign(k)
      [] OTHER -> MemorySign(k)

ProviderInit(setup) ==
    /\ loaders = {setup[i].man : i \in 1..Len(setup)}
    /\ loading = setup
    /\ crypto = NoCrypto
    /\ files = {} /\ keys = {}

ProviderStep(u) ==
    \/ CreateKey(u) \/ DescribeKey(u) \/ GetPublicKey(u) \/ KmsEnumKeys(u) \/ ScheduleKeyDeletion(u)
    \/ Save(u) \/ Hold(u)
    \/ TokenStep(u) /\ UNCHANGED <<scenario, providerVars>>

-----------------------------------------------------------------------------

(* The key of a file is where it was made.                                 *)
Alive(f) ==
    \/ f.form = "pem"
    \/ \E x \in objects : x.id = f.id /\ x.class = "key" /\ x.state = "Enabled"
    \/ \E x, y \in objects : x.id = f.id /\ y.id = f.id /\ x.class = "private" /\ y.class = "public"

(* The URI of the token can name its provider: the token has a serial      *)
(* number and the module's manufacturer is the configured one (README).    *)
Nameable(p) ==
    /\ p.kind = "pkcs11" => p.module = p.man /\ p.serial # ""
    /\ p.kind = "kms" => p.man = "AWSKMS"

(* A saved key that still exists is found again by the process that saved  *)
(* it: LoadPrivateKey (utils.go:59) asks the very provider whose ExportKey *)
(* wrote the file.  And a key loaded from a file, or found by its id on    *)
(* the library's slot, is the key asked for and never signs with another   *)
(* one, whatever was generated and destroyed since.                        *)
ExportedKeyLoads ==
    /\ Loaded => \A f \in files : \A p \in crypto.default \cup crypto.by :
          f.form = "uri" /\ f.of[1] = p.place /\ Nameable(p) /\ Alive(f) => Asked(f) = {p}
    /\ \A k \in keys :
          /\ k.id # NoID => k.pub = k.id
          /\ k.id # NoID /\ (k.place \in Slots => k.place = CurrentSlot) => SignWith(k) \subseteq {k.pub}
=============================================================================
