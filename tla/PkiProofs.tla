------------------------------ MODULE PkiProofs ------------------------------
(***************************************************************************)
(* Proofs about Pki, for any users, tokens, stores, scenarios, faults and  *)
(* configurations of the authority.                                        *)
(***************************************************************************)
EXTENDS Pki, SequenceTheorems, FiniteSetTheorems, TLAPS

-----------------------------------------------------------------------------
(* What Sign returns.                                                      *)

(* The names of c obey the allow lists of p.                               *)
ListsObeyed(c, p) ==
    /\ "cn" \in p.lists => c.holds.cn # "bad"
    /\ SanOID \notin p.exts => \A s \in c.holds.names : s[1] \in p.lists => s[2] # "bad"

(* A name comes from the API or from a field of the request p copies.      *)
Sourced(s, p, req) ==
    IF req.san.given THEN s \in Names(req.san.sans) ELSE s \in Names(req.csr.sans) /\ Allows(p, s[1])

(* What else IssuedWithinProfile says of one certificate.                  *)
Derived(c, p) ==
    LET h == c.holds IN
    /\ h.cn \in {"", c.req.subject} \cup (IF Allows(p, "cn") THEN {c.req.csr.cn} ELSE {})
    /\ h.exts \subseteq p.exts \cup {PolicyOID, NoCheckOID}
    /\ BasicConstraintsOID \notin p.exts => h.isCA = p.isCA /\ (h.isCA => h.path = p.path)
    /\ SanOID \notin p.exts => (p.isCA => h.names = {}) /\ \A s \in h.names : Sourced(s, p, c.req)

(* The template a parsed request is turned into.                           *)
Template(p, req, x) == PopulateName(SetSAN(SafeTemplate(p, x), req.san), req.subject)

(* The names of the template come from the API or from the request.        *)
LEMMA TemplateNames ==
    ASSUME NEW p, NEW req, NEW x \in ParsePEM(req.csr)
    PROVE  /\ \A s \in Template(p, req, x).names : Sourced(s, p, req)
           /\ Template(p, req, x).cn \in
                 {"", req.subject} \cup (IF Allows(p, "cn") THEN {req.csr.cn} ELSE {})
<1> DEFINE t == SafeTemplate(p, x)
           n == IF req.san.given THEN Names(req.san.sans) ELSE t.names
<1>0. x.cn = req.csr.cn /\ x.names = Names(req.csr.sans)
  BY DEF ParsePEM, Parse
<1>1. t.names = {s \in Names(req.csr.sans) : Allows(p, s[1])} /\ t.cn = IF Allows(p, "cn") THEN req.csr.cn ELSE ""
  BY <1>0 DEF SafeTemplate
<1>2. t = [cn |-> t.cn, names |-> t.names, isCA |-> t.isCA, path |-> t.path]
  BY DEF SafeTemplate
<1> HIDE DEF t
<1>3. SetSAN(t, req.san) = [cn |-> t.cn, names |-> n, isCA |-> t.isCA, path |-> t.path]
  BY <1>2 DEF SetSAN
<1>4. ASSUME NEW v, v = [cn |-> t.cn, names |-> n, isCA |-> t.isCA, path |-> t.path]
      PROVE  /\ PopulateName(v, req.subject).names = n
             /\ PopulateName(v, req.subject).cn \in {t.cn, req.subject}
  BY <1>4 DEF PopulateName
<1>5. Template(p, req, x) = PopulateName(SetSAN(t, req.san), req.subject)
  BY DEF Template, t
<1>6. Template(p, req, x).names = n /\ Template(p, req, x).cn \in {t.cn, req.subject}
  BY <1>3, <1>4, <1>5, Zenon
<1>7. Template(p, req, x).cn \in {"", req.subject} \cup (IF Allows(p, "cn") THEN {req.csr.cn} ELSE {})
  BY <1>1, <1>6, Zenon
<1>8. ASSUME NEW s \in Template(p, req, x).names
      PROVE  Sourced(s, p, req)
  <2>1. s \in n
    BY <1>6, Zenon
  <2> QED
    BY <1>1, <2>1, Zenon DEF Sourced
<1> QED
  BY <1>7, <1>8, Zenon

(* What the certificate holds of the template: an extension takes the      *)
(* place of the names, or of the constraints, only if p allows its OID.    *)
LEMMA EncodedOf ==
    ASSUME NEW p, NEW t, NEW exts, ExtensionsAllowed(p, exts)
    PROVE  LET h == Encoded(fillTemplate(p, t, exts)) IN
           /\ h.cn = t.cn
           /\ h.exts \subseteq p.exts \cup {PolicyOID, NoCheckOID}
           /\ BasicConstraintsOID \notin p.exts => h.isCA = p.isCA /\ (h.isCA => h.path = p.path)
           /\ SanOID \notin p.exts => h.names = IF p.isCA THEN {} ELSE t.names
<1> DEFINE m == fillTemplate(p, t, exts)
<1>1. /\ m.cn = t.cn /\ m.names = (IF p.isCA THEN {} ELSE t.names) /\ m.isCA = p.isCA
      /\ m.path = (IF p.isCA THEN p.path ELSE t.path) /\ m.exts = exts
      /\ m.own \subseteq {PolicyOID, NoCheckOID}
  BY DEF fillTemplate
<1> HIDE DEF m
<1>2. \A e \in exts : e.oid \in p.exts
  BY DEF ExtensionsAllowed, IsAllowedExtention
<1>3. \A oid : oid \notin p.exts => ~Replaced(m, oid)
  BY <1>1, <1>2 DEF Replaced
<1> DEFINE h == Encoded(m)
<1>4. h.cn = m.cn /\ h.exts = {e.oid : e \in m.exts} \cup m.own
  BY DEF Encoded
<1>5. BasicConstraintsOID \notin p.exts => h.isCA = m.isCA /\ h.path = m.path
  BY <1>3 DEF Encoded
<1>6. SanOID \notin p.exts => h.names = m.names
  BY <1>3 DEF Encoded
<1> HIDE DEF h
<1>7. /\ h.cn = t.cn
      /\ h.exts \subseteq p.exts \cup {PolicyOID, NoCheckOID}
      /\ BasicConstraintsOID \notin p.exts => h.isCA = p.isCA /\ (h.isCA => h.path = p.path)
      /\ SanOID \notin p.exts => h.names = IF p.isCA THEN {} ELSE t.names
  BY <1>1, <1>2, <1>4, <1>5, <1>6
<1> QED
  BY <1>7, Zenon DEF h, m

(* Every certificate of Sign is made for its request, by a profile of the  *)
(* issuer, and within that profile if it is compiled.                      *)
LEMMA SignedWithin ==
    ASSUME NEW issuer, NEW k, NEW req, NEW signed, NEW c \in Sign(issuer, k, req, signed)
    PROVE  /\ c.profile \in issuer.profiles
           /\ c.profile \in k.compiled => ListsObeyed(c, k.config.profiles[c.profile])
           /\ Derived(c, k.config.profiles[c.profile])
<1> DEFINE name == IF req.profile = "" THEN "default" ELSE req.profile
           p == k.config.profiles[name]
           t(x) == Template(p, req, x)
           h(x) == Encoded(fillTemplate(p, t(x), req.exts))
<1>1. PICK x \in ParsePEM(req.csr) :
         /\ name \in issuer.profiles
         /\ c = [profile |-> name, issuer |-> issuer.label, pub |-> req.csr.pub, by |-> issuer.key.pub,
                 authority |-> issuer.cert, holds |-> h(x), req |-> req]
         /\ NamesAllowed(p, name \in k.compiled, t(x))
         /\ ExtensionsAllowed(p, req.exts)
  BY DEF Sign, Template
<1>2. c.profile = name /\ c.req = req /\ c.holds = h(x)
  BY <1>1
<1>3. /\ \A s \in t(x).names : Sourced(s, p, req)
      /\ t(x).cn \in {"", req.subject} \cup (IF Allows(p, "cn") THEN {req.csr.cn} ELSE {})
  BY TemplateNames
<1> HIDE DEF name, p, t
<1>4. /\ h(x).cn = t(x).cn
      /\ h(x).exts \subseteq p.exts \cup {PolicyOID, NoCheckOID}
      /\ BasicConstraintsOID \notin p.exts => h(x).isCA = p.isCA /\ (h(x).isCA => h(x).path = p.path)
      /\ SanOID \notin p.exts => h(x).names = IF p.isCA THEN {} ELSE t(x).names
  BY <1>1, EncodedOf
<1> HIDE DEF h
<1>6. Derived(c, p)
  BY <1>2, <1>3, <1>4 DEF Derived
<1>7. name \in k.compiled => ListsObeyed(c, p)
  BY <1>1, <1>2, <1>4 DEF ListsObeyed, NamesAllowed
<1> QED
  BY <1>1, <1>2, <1>6, <1>7 DEF p

-----------------------------------------------------------------------------
(* The inductive invariant.                                                *)

(* The functions of calls that issue no certificate of the authority.      *)
Plain ==
    {"generate", "export", "identify", "create", "publickey", "describe", "private", "type", "public",
     "info", "save", "hold", "request", "list", "enum", "kmslist", "schedule", "rmprivate", "rmpublic",
     "signer", "sign", "selfsign", "write"}

(* Every issuer entered so far has profiles of the configuration k only.   *)
AuthorityOK(a, k) ==
    /\ {"ready", "issuers", "byProfile"} \subseteq DOMAIN a
    /\ \A l \in DOMAIN a.issuers : a.issuers[l].profiles \subseteq DOMAIN k.config.profiles
    /\ \A n \in DOMAIN a.byProfile : a.byProfile[n].profiles \subseteq DOMAIN k.config.profiles

(* A call of NewRoot or NewAuthority is made when k is loaded; the second  *)
(* has the issuers made so far with it.                                    *)
OpOK(o, k) ==
    /\ {"todo", "job"} \subseteq DOMAIN o
    /\ \/ o.todo \in Seq(Plain)
       \/ k.loaded /\ o.todo \in Seq(Plain \cup {"root"})
       \/ /\ k.loaded /\ o.todo \in Seq(Plain \cup {"issuer", "next"})
          /\ 2 \in DOMAIN o.job /\ AuthorityOK(o.job[2], k)

CallsInv ==
    /\ DOMAIN op = Users
    /\ \A u \in Users : OpOK(op[u], conf) /\ (op[u].todo # <<>> => Loaded)

(* There is a default provider as soon as there is one at all.             *)
ProvidersOK(c) ==
    /\ c = [default |-> c.default, by |-> c.by]
    /\ c.default \cup c.by \subseteq ProviderConfigs
    /\ c # NoCrypto => c.default # {}

CryptoInv == loading \in Seq(ProviderConfigs) /\ ProvidersOK(crypto)

(* When every issuer label is known, Validate has compiled all profiles.   *)
ConfInv ==
    /\ conf.loaded \in BOOLEAN
    /\ conf.loaded /\ Dangling(conf.config) = {} => DOMAIN conf.config.profiles \subseteq conf.compiled
    /\ certs # {} => conf.loaded
    /\ ca.ready => conf.loaded /\ AuthorityOK(ca, conf)

IInv == CallsInv /\ CryptoInv /\ ConfInv /\ IssuedWithinProfile

(* What happens to a configuration that is loaded: more is compiled.       *)
ConfKept ==
    /\ conf'.loaded = conf.loaded /\ conf'.config = conf.config
    /\ conf.compiled \subseteq conf'.compiled

(* The invariants are about a configuration that only grows.               *)
LEMMA KeptOK ==
    ASSUME ConfKept
    PROVE  /\ \A a : AuthorityOK(a, conf) => AuthorityOK(a, conf')
           /\ \A o : OpOK(o, conf) => OpOK(o, conf')
<1>1. \A a : AuthorityOK(a, conf) => AuthorityOK(a, conf')
  BY DEF ConfKept, AuthorityOK
<1> QED
  BY <1>1, Zenon DEF ConfKept, OpOK

LEMMA SameConf == UNCHANGED conf => ConfKept
  BY DEF ConfKept

LEMMA AgainKept == \A ok : conf.loaded = TRUE /\ ValidateAgain(ok) => ConfKept
<1> SUFFICES ASSUME NEW ok, conf.loaded = TRUE, ValidateAgain(ok) PROVE ConfKept
  OBVIOUS
<1>1. PICK v : conf' = [loaded |-> TRUE, config |-> conf.config, compiled |-> conf.compiled \cup v.compiled]
  BY Zenon DEF ValidateAgain
<1> QED
  BY <1>1 DEF ConfKept

-----------------------------------------------------------------------------
(* What the functions do to the call of their user.                        *)

SameJob(j, k) == DOMAIN k = DOMAIN j /\ (2 \in DOMAIN j => k[2] = j[2])
SameCall(o, q) == DOMAIN q = DOMAIN o /\ q.todo = o.todo /\ SameJob(o.job, q.job)

(* The call returns, goes on, or turns to the next key to be destroyed.    *)
Ran(o, n) ==
    \/ n = Idle
    \/ /\ DOMAIN n = DOMAIN o /\ SameJob(o.job, n.job)
       /\ n.todo \in {o.todo, Tail(o.todo), DestroyKeyPairOnSlot}

(* Only the call of u changes, to n.                                       *)
Becomes(u, n) == DOMAIN op' = DOMAIN op /\ op'[u] = n /\ \A v \in Users \ {u} : op'[v] = op[v]
Runs(u) == \E n : Becomes(u, n) /\ Ran(op[u], n)

(* The fields the functions of a provider assign.                          *)
LEMMA Assigned ==
    \A o, class, a, b, c : {"todo", "job"} \subseteq DOMAIN o =>
       /\ SameCall(o, o)
       /\ SameCall(o, [o EXCEPT !.handle[class] = a])
       /\ SameCall(o, [o EXCEPT !.handle = a])
       /\ SameCall(o, [o EXCEPT !.typ = a])
       /\ SameCall(o, [o EXCEPT !.pub = a])
       /\ SameCall(o, [o EXCEPT !.list = a])
       /\ SameCall(o, [o EXCEPT !.list = a, !.queue = b])
       /\ SameCall(o, [o EXCEPT !.id = a, !.label = b])
       /\ SameCall(o, [o EXCEPT !.id = a, !.queue = b])
       /\ SameCall(o, [o EXCEPT !.id = a, !.label = b, !.lenient = c])
       /\ SameCall(o, [o EXCEPT !.job[1].cert = a])
  BY DEF SameCall, SameJob

(* An assignment to the whole call.                                        *)
LEMMA Assign == \A n : \A u \in Users : DOMAIN op = Users /\ op' = [op EXCEPT ![u] = n] => Becomes(u, n)
  BY DEF Becomes

(* The call returns with an error.                                         *)
LEMMA Failed == \A u \in Users : DOMAIN op = Users /\ Fail(u) => Runs(u)
  BY Assign DEF Fail, Runs, Ran

(* The call goes on with q.                                                *)
LEMMA Continued ==
    \A q : \A u \in Users :
       DOMAIN op = Users /\ {"todo", "job"} \subseteq DOMAIN op[u] /\ SameCall(op[u], q) /\ Continue(u, q) => Runs(u)
<1> SUFFICES ASSUME NEW u \in Users, NEW q, DOMAIN op = Users, {"todo", "job"} \subseteq DOMAIN op[u],
                    SameCall(op[u], q), Continue(u, q)
             PROVE  Runs(u)
  OBVIOUS
<1> DEFINE r == [q EXCEPT !.todo = Tail(@)]
<1>1. DOMAIN r = DOMAIN op[u] /\ r.todo = Tail(op[u].todo) /\ r.job = q.job
  BY DEF SameCall
<1>2. Ran(op[u], Idle) /\ Ran(op[u], r)
  BY <1>1 DEF Ran, SameCall
<1>3. \E n \in {Idle, r} : op' = [op EXCEPT ![u] = n]
  BY DEF Continue
<1> HIDE DEF r
<1> QED
  BY <1>2, <1>3, Assign DEF Runs

(* destroyKeys goes on with another key.                                   *)
LEMMA Destroyed ==
    \A u \in Users :
       DOMAIN op = Users /\ {"todo", "job"} \subseteq DOMAIN op[u] /\ op' = [op EXCEPT ![u] = DestroyNext(op[u])]
          => Runs(u)
<1> SUFFICES ASSUME NEW u \in Users, DOMAIN op = Users, {"todo", "job"} \subseteq DOMAIN op[u],
                    op' = [op EXCEPT ![u] = DestroyNext(op[u])]
             PROVE  Runs(u)
  OBVIOUS
<1>1. \A o : {"todo", "job"} \subseteq DOMAIN o => Ran(o, DestroyNext(o))
  BY DEF Ran, DestroyNext, SameJob
<1> QED
  BY <1>1, Assign DEF Runs

(* The functions of a token.                                               *)
LEMMA TokenRuns ==
    ASSUME NEW u \in Users, DOMAIN op = Users, {"todo", "job"} \subseteq DOMAIN op[u], TokenStep(u)
    PROVE  Runs(u)
<1> DEFINE o == op[u]
<1>c. \A q : SameCall(op[u], q) /\ Continue(u, q) => Runs(u)
  BY Continued
<1>f. Fail(u) => Runs(u)
  BY Failed
<1>a. SameCall(op[u], op[u])
  BY Assigned, Zenon
<1>1. CASE \E class \in {"private", "public"} : findKey(u, class)
  <2>1. NotFound(u) => Runs(u)
    BY <1>a, <1>c, <1>f, Zenon DEF NotFound
  <2>2. \A class, h : SameCall(op[u], [op[u] EXCEPT !.handle[class] = h])
    BY Assigned, Zenon
  <2>3. (\E class, h : Continue(u, [op[u] EXCEPT !.handle[class] = h])) \/ NotFound(u)
    BY <1>1, Zenon DEF findKey
  <2> QED
    BY <1>c, <2>1, <2>2, <2>3, Zenon
<1>2. CASE \E class \in {"private", "public"} : DestroyObject(u, class)
  <2>1. (\E class : HalfDestroyed(u, class)) \/ Fail(u)
    BY <1>2, Zenon DEF DestroyObject
  <2>2. ASSUME NEW class, HalfDestroyed(u, class)
        PROVE  op' = [op EXCEPT ![u] = DestroyNext(op[u])] \/ Continue(u, op[u])
    BY <2>2, Zenon DEF HalfDestroyed
  <2> QED
    BY <1>a, <1>c, <1>f, <2>1, <2>2, Destroyed, Zenon
<1>3. CASE GetKeyType(u)
  <2>1. \A t : SameCall(op[u], [op[u] EXCEPT !.typ = t])
    BY Assigned, Zenon
  <2> QED
    BY <1>3, <1>c, <1>f, <2>1, Zenon DEF GetKeyType
<1>4. CASE ExportPublicKey(u)
  <2>1. \A p : SameCall(op[u], [op[u] EXCEPT !.pub = p])
    BY Assigned, Zenon
  <2> QED
    BY <1>4, <1>c, <1>f, <2>1, Zenon DEF ExportPublicKey
<1>5. CASE GenerateKeyPair(u)
  <2>1. \A h : SameCall(op[u], [op[u] EXCEPT !.handle = h])
    BY Assigned, Zenon
  <2>2. (\E h : Continue(u, [op[u] EXCEPT !.handle = h])) \/ Fail(u)
    BY <1>5, Zenon DEF GenerateKeyPair
  <2> QED
    BY <1>c, <1>f, <2>1, <2>2, Zenon
<1>6. CASE Identify(u)
  <2>1. \A i, l, b : SameCall(op[u], [op[u] EXCEPT !.id = i, !.label = l, !.lenient = b])
    BY Assigned, Zenon
  <2>2. (\E i, l, b : Continue(u, [op[u] EXCEPT !.id = i, !.label = l, !.lenient = b])) \/ Fail(u)
    BY <1>6, Zenon DEF Identify
  <2> QED
    BY <1>c, <1>f, <2>1, <2>2, Zenon
<1>7. CASE GetInfo(u)
  BY <1>7, <1>a, <1>c, <1>f, Zenon DEF GetInfo
<1>8. CASE ListKeys(u)
  <2>1. \A l : SameCall(op[u], [op[u] EXCEPT !.list = l])
    BY Assigned, Zenon
  <2>2. (\E l : Continue(u, [op[u] EXCEPT !.list = l])) \/ Fail(u)
    BY <1>8, Zenon DEF ListKeys
  <2> QED
    BY <1>c, <1>f, <2>1, <2>2, Zenon
<1>9. CASE EnumKeys(u)
  <2>1. CASE \E x : op' = [op EXCEPT ![u].list = Tail(@),
                                     ![u].queue = IF HasPrefix(x.label, op[u].label) THEN Append(@, x.id) ELSE @]
    <3>1. PICK x : op' = [op EXCEPT ![u].list = Tail(@),
                                    ![u].queue = IF HasPrefix(x.label, op[u].label) THEN Append(@, x.id) ELSE @]
      BY <2>1
    <3>2. DOMAIN op' = DOMAIN op /\ \A v \in Users \ {u} : op'[v] = op[v]
      BY <3>1
    <3>3. DOMAIN op'[u] = DOMAIN op[u] /\ op'[u].todo = op[u].todo /\ op'[u].job = op[u].job
      BY <3>1
    <3> QED
      BY <3>2, <3>3 DEF Runs, Becomes, Ran, SameJob
  <2> QED
    BY <1>9, <1>f, <2>1, Zenon DEF EnumKeys
<1>10. CASE Listed(u)
  BY <1>10, <1>f, Destroyed, Zenon DEF Listed
<1> QED
  BY <1>1, <1>2, <1>3, <1>4, <1>5, <1>6, <1>7, <1>8, <1>9, <1>10, Zenon DEF TokenStep

(* The functions of KMS and of the keys in memory.                         *)
LEMMA ProviderRuns ==
    ASSUME NEW u \in Users, DOMAIN op = Users, {"todo", "job"} \subseteq DOMAIN op[u], ProviderStep(u)
    PROVE  Runs(u)
<1>c. \A q : SameCall(op[u], q) /\ Continue(u, q) => Runs(u)
  BY Continued
<1>f. Fail(u) => Runs(u)
  BY Failed
<1>a. SameCall(op[u], op[u]) /\ \A p : SameCall(op[u], [op[u] EXCEPT !.pub = p])
  BY Assigned, Zenon
<1>1. CASE CreateKey(u)
  <2>1. \A i, l : SameCall(op[u], [op[u] EXCEPT !.id = i, !.label = l])
    BY Assigned, Zenon
  <2>2. (\E i, l : Continue(u, [op[u] EXCEPT !.id = i, !.label = l])) \/ Fail(u)
    BY <1>1, Zenon DEF CreateKey
  <2> QED
    BY <1>c, <1>f, <2>1, <2>2, Zenon
<1>2. CASE DescribeKey(u)
  BY <1>2, <1>a, <1>c, <1>f, Zenon DEF DescribeKey
<1>3. CASE GetPublicKey(u)
  BY <1>3, <1>a, <1>c, <1>f, Zenon DEF GetPublicKey
<1>4. CASE KmsEnumKeys(u)
  <2>1. \A i, q : SameCall(op[u], [op[u] EXCEPT !.id = i, !.queue = q])
    BY Assigned, Zenon
  <2>2. (\E i, q : Continue(u, [op[u] EXCEPT !.id = i, !.queue = q])) \/ Fail(u)
    BY <1>4, Zenon DEF KmsEnumKeys
  <2> QED
    BY <1>c, <1>f, <2>1, <2>2, Zenon
<1>5. CASE ScheduleKeyDeletion(u)
  <2>1. CASE op' = [op EXCEPT ![u].id = Head(op[u].queue), ![u].queue = Tail(@)]
    <3>1. DOMAIN op' = DOMAIN op /\ \A v \in Users \ {u} : op'[v] = op[v]
      BY <2>1
    <3>2. DOMAIN op'[u] = DOMAIN op[u] /\ op'[u].todo = op[u].todo /\ op'[u].job = op[u].job
      BY <2>1
    <3> QED
      BY <3>1, <3>2 DEF Runs, Becomes, Ran, SameJob
  <2> QED
    BY <1>5, <1>a, <1>c, <1>f, <2>1, Zenon DEF ScheduleKeyDeletion
<1>6. CASE Save(u) \/ Hold(u)
  BY <1>6, <1>a, <1>c, Zenon DEF Save, Hold
<1> QED
  BY <1>1, <1>2, <1>3, <1>4, <1>5, <1>6, TokenRuns, Zenon DEF ProviderStep

(* The other functions that only go on.                                    *)
LEMMA CommandRuns ==
    ASSUME NEW u \in Users, DOMAIN op = Users, {"todo", "job"} \subseteq DOMAIN op[u],
           MakeRequest(u) \/ SignRoot(u) \/ LocalSign(u) \/ SelfSign(u) \/ WriteFiles(u)
    PROVE  Runs(u)
<1>c. \A q : SameCall(op[u], q) /\ Continue(u, q) => Runs(u)
  BY Continued
<1>f. Fail(u) => Runs(u)
  BY Failed
<1>a. SameCall(op[u], op[u]) /\ \A c : SameCall(op[u], [op[u] EXCEPT !.job[1].cert = c])
  BY Assigned, Zenon
<1>1. CASE MakeRequest(u)
  BY <1>1, <1>a, <1>c, <1>f, Zenon DEF MakeRequest
<1>2. CASE SignRoot(u)
  BY <1>2, <1>a, <1>c, <1>f, Zenon DEF SignRoot
<1>3. CASE LocalSign(u)
  BY <1>3, <1>a, <1>c, <1>f, Zenon DEF LocalSign
<1>4. CASE SelfSign(u)
  BY <1>4, <1>a, <1>c, <1>f, Zenon DEF SelfSign
<1>5. CASE WriteFiles(u)
  BY <1>5, <1>a, <1>c, Zenon DEF WriteFiles
<1> QED
  BY <1>1, <1>2, <1>3, <1>4, <1>5, Zenon

-----------------------------------------------------------------------------
(* The invariant of the calls.                                             *)

(* No call, and the next key to be destroyed.                              *)
LEMMA PlainCalls ==
    /\ \A k : OpOK(Idle, k)
    /\ Idle.todo = <<>>
    /\ DestroyKeyPairOnSlot \in Seq(Plain)
<1>1. <<>> \in Seq(Plain)
  BY EmptySeq
<1>2. {"todo", "job"} \subseteq DOMAIN Idle /\ Idle.todo = <<>>
  BY DEF Idle, Call
<1>3. {"private", "public", "rmprivate", "rmpublic"} \subseteq Plain
  BY DEF Plain
<1>4. DestroyKeyPairOnSlot \in Seq(Plain)
  BY <1>3 DEF DestroyKeyPairOnSlot
<1> QED
  BY <1>1, <1>2, <1>4, Zenon DEF OpOK

(* A call that runs stays what it is.                                      *)
LEMMA RanOK == \A o, n, k : OpOK(o, k) /\ o.todo # <<>> /\ Ran(o, n) => OpOK(n, k)
<1> SUFFICES ASSUME NEW o, NEW n, NEW k, OpOK(o, k), o.todo # <<>>, Ran(o, n), n # Idle
             PROVE  OpOK(n, k)
  BY PlainCalls, Zenon
<1>1. DOMAIN n = DOMAIN o /\ SameJob(o.job, n.job) /\ n.todo \in {o.todo, Tail(o.todo), DestroyKeyPairOnSlot}
  BY DEF Ran
<1>2. \A S : o.todo \in Seq(S) => Tail(o.todo) \in Seq(S)
  BY HeadTailProperties
<1>3. DestroyKeyPairOnSlot \in Seq(Plain)
  BY PlainCalls
<1>4. CASE n.todo = DestroyKeyPairOnSlot
  BY <1>1, <1>3, <1>4 DEF OpOK
<1>5. CASE n.todo \in {o.todo, Tail(o.todo)}
  BY <1>1, <1>2, <1>5, Zenon DEF OpOK, SameJob
<1> QED
  BY <1>1, <1>4, <1>5

(* One call changes.                                                       *)
LEMMA CallStep ==
    ASSUME CallsInv, NEW u \in Users, NEW n, Becomes(u, n), OpOK(n, conf), Loaded,
           ConfKept, UNCHANGED <<crypto, loading>>
    PROVE  CallsInv'
<1>1. \A o : OpOK(o, conf) => OpOK(o, conf')
  BY KeptOK
<1>2. \A v \in Users : OpOK(op'[v], conf)
  BY DEF CallsInv, Becomes
<1>3. (DOMAIN op)' = Users /\ \A v \in Users : OpOK(op[v], conf)'
  BY <1>1, <1>2 DEF CallsInv, Becomes, OpOK, AuthorityOK, Plain
<1>4. Loaded'
  BY DEF Loaded, NoCrypto
<1> QED
  BY <1>3, <1>4 DEF CallsInv

(* One call runs.                                                          *)
LEMMA RunStep ==
    ASSUME CallsInv, NEW u \in Users, op[u].todo # <<>>, Runs(u), UNCHANGED <<conf, crypto, loading>>
    PROVE  CallsInv'
<1>1. PICK n : Becomes(u, n) /\ Ran(op[u], n)
  BY DEF Runs
<1>2. OpOK(op[u], conf) /\ Loaded
  BY DEF CallsInv
<1>3. OpOK(n, conf)
  BY <1>1, <1>2, RanOK, Zenon
<1> QED
  BY <1>1, <1>2, <1>3, SameConf, CallStep

-----------------------------------------------------------------------------
(* The calls that commands begin.                                          *)

(* Longer calls are made of shorter ones.                                  *)
LEMMA PlainConcat == \A a, b \in Seq(Plain) : a \o b \in Seq(Plain)
  BY ConcatProperties

(* The calls of one function.                                              *)
LEMMA OneFunction ==
    /\ <<"request">> \in Seq(Plain) /\ <<"save">> \in Seq(Plain) /\ <<"hold">> \in Seq(Plain)
    /\ <<"write">> \in Seq(Plain) /\ <<"signer">> \in Seq(Plain) /\ <<"kmslist">> \in Seq(Plain)
    /\ <<"describe">> \in Seq(Plain) /\ <<"publickey">> \in Seq(Plain) /\ <<"info">> \in Seq(Plain)
    /\ <<"create">> \in Seq(Plain) /\ <<"schedule">> \in Seq(Plain)
<1>1. \A x \in Plain : <<x>> \in Seq(Plain)
  OBVIOUS
<1>2. {"request", "save", "hold", "write", "signer", "kmslist", "describe", "publickey", "info", "create",
       "schedule"} \subseteq Plain
  BY DEF Plain
<1> QED
  BY <1>1, <1>2

(* The calls of two and more functions.                                    *)
LEMMA MoreFunctions ==
    /\ <<"generate", "export">> \in Seq(Plain) /\ <<"generate", "export", "identify">> \in Seq(Plain)
    /\ <<"create", "publickey">> \in Seq(Plain) /\ <<"describe", "publickey">> \in Seq(Plain)
    /\ <<"private", "identify">> \in Seq(Plain) /\ <<"list", "enum">> \in Seq(Plain)
    /\ <<"kmslist", "schedule">> \in Seq(Plain) /\ <<"selfsign", "write">> \in Seq(Plain)
    /\ <<"sign", "write">> \in Seq(Plain) /\ FindKeyPairOnSession \in Seq(Plain)
<1>1. \A x, y, z, w \in Plain : <<x, y>> \in Seq(Plain) /\ <<x, y, z>> \in Seq(Plain) /\ <<x, y, z, w>> \in Seq(Plain)
  OBVIOUS
<1>2. {"generate", "export", "identify", "create", "publickey", "describe", "private", "list", "enum", "kmslist",
       "schedule", "selfsign", "sign", "write", "type", "public"} \subseteq Plain
  BY DEF Plain
<1> QED
  BY <1>1, <1>2 DEF FindKeyPairOnSession

(* What the providers do for each of their functions.                      *)
LEMMA ProviderCalls ==
    ASSUME NEW p \in ProviderConfigs
    PROVE  /\ \A kr : GenerateKey(p, TypeOf(kr)) \in Seq(Plain)
           /\ GetKey(p) \in Seq(Plain)
           /\ ExportKey(p) \in Seq(Plain)
<1>1. p.kind \in {"pkcs11", "kms", "inmem", "testprov"}
  BY DEF ProviderConfigs
<1>2. ASSUME NEW kr PROVE GenerateKey(p, TypeOf(kr)) \in Seq(Plain)
  <2>1. KeyType(TypeOf(kr)) \in {"RSA", "ECDSA"}
    BY DEF KeyType, TypeOf
  <2>2. GenerateKey(p, TypeOf(kr)) \in {<<"generate", "export", "identify">>, <<"create", "publickey">>, <<"create">>}
    BY <1>1, <2>1 DEF GenerateKey, Generators, Crypto11GenerateRSAKey, Crypto11GenerateECDSAKey, KmsGenerateRSAKey,
       KmsGenerateECDSAKey, InmemGenerateRSAKey, InmemGenerateECDSAKey, TestprovGenerateRSAKey,
       TestprovGenerateECDSAKey
  <2> QED
    BY <2>2, OneFunction, MoreFunctions, Zenon
<1>3. GetKey(p) \in {FindKeyPairOnSession, <<"describe", "publickey">>, <<"describe">>}
  BY <1>1 DEF GetKey, Crypto11GetKey, KmsGetKey, InmemGetKey, TestprovGetKey
<1>4. ExportKey(p) \in {Crypto11ExportKey, <<"describe">>}
  BY <1>1 DEF ExportKey, KmsExportKey, InmemExportKey, TestprovExportKey
<1>5. Crypto11ExportKey \in Seq(Plain)
  BY OneFunction, MoreFunctions, PlainConcat, Zenon DEF Crypto11ExportKey
<1> QED
  BY <1>2, <1>3, <1>4, <1>5, OneFunction, MoreFunctions, Zenon

(* n is a call of the functions t for the job j.                           *)
CallOf(n, t, j) == {"todo", "job"} \subseteq DOMAIN n /\ n.todo = t /\ n.job = j

(* The calls of commands.                                                  *)
LEMMA CallFields ==
    \A t, w, a, b, c :
       /\ CallOf([Call(t, w) EXCEPT !.typ = a, !.uses = b, !.label = c], t, <<>>)
       /\ CallOf([Call(t, w) EXCEPT !.typ = a, !.uses = b], t, <<>>)
       /\ CallOf([Call(t, w) EXCEPT !.typ = a, !.label = b], t, <<>>)
       /\ CallOf([Call(t, w) EXCEPT !.id = a, !.label = b], t, <<>>)
       /\ CallOf([Call(t, w) EXCEPT !.id = a, !.lenient = b], t, <<>>)
       /\ CallOf([Call(t, w) EXCEPT !.label = a], t, <<>>)
       /\ CallOf([Call(t, w) EXCEPT !.id = a, !.file = b], t, <<>>)
       /\ CallOf([Call(t, w) EXCEPT !.typ = a, !.uses = b, !.job = c], t, c)
       /\ CallOf([Call(t, w) EXCEPT !.typ = a, !.job = c], t, c)
       /\ CallOf([Call(t, w) EXCEPT !.job = c], t, c)
  BY DEF CallOf, Call

(* The calls made of others.                                               *)
LEMMA CallAgain ==
    \A o, t, w, a, b, c, j : CallOf(o, t, j) =>
       /\ CallOf([o EXCEPT !.todo = w, !.place = a, !.pub = b, !.id = b, !.file = c], w, j)
       /\ CallOf([o EXCEPT !.todo = w, !.place = a, !.id = b, !.file = c, !.typ = AnyType], w, j)
  BY DEF CallOf

(* The jobs of the csr commands.                                           *)
LEMMA IdleJobs ==
    \A j, t, b :
       /\ CallOf([Idle EXCEPT !.job = j], <<>>, j)
       /\ CallOf([Idle EXCEPT !.todo = t, !.job = j, !.pub = b], t, j)
  BY DEF CallOf, Idle, Call

(* A call that issues nothing.                                             *)
LEMMA PlainOK == \A n, t, j, k : CallOf(n, t, j) /\ t \in Seq(Plain) => OpOK(n, k)
  BY DEF CallOf, OpOK

(* The providers there are.                                                *)
LEMMA ProvidersThere ==
    ASSUME CryptoInv
    PROVE  /\ Loaded => Default \in ProviderConfigs
           /\ Providers \subseteq ProviderConfigs
           /\ \A f : Asked(f) \subseteq ProviderConfigs
<1>1. Providers \subseteq ProviderConfigs
  BY DEF CryptoInv, ProvidersOK, Providers
<1>2. Loaded => Default \in crypto.default
  BY DEF Loaded, CryptoInv, ProvidersOK, Default
<1>3. ASSUME NEW f PROVE Asked(f) \subseteq Providers
  BY Zenon DEF Asked, ByManufacturer, Providers
<1> QED
  BY <1>1, <1>2, <1>3 DEF Providers

(* A command begins n.                                                     *)
LEMMA BeginStep ==
    \A n, c : \A u \in Users : CallsInv /\ Loaded /\ OpOK(n, conf) /\ Begin(u, c, n) /\ ConfKept => CallsInv'
<1> SUFFICES ASSUME NEW n, NEW c, NEW u \in Users, CallsInv, Loaded, OpOK(n, conf), Begin(u, c, n), ConfKept
             PROVE  CallsInv'
  OBVIOUS
<1>1. op' = [op EXCEPT ![u] = n] /\ UNCHANGED <<crypto, loading>>
  BY DEF Begin, providerVars
<1>2. Becomes(u, n)
  BY <1>1, Assign DEF CallsInv
<1> QED
  BY <1>1, <1>2, CallStep

(* The signer of a key file, for the functions that follow.                *)
LEMMA SignerCalls ==
    ASSUME CryptoInv, NEW o, NEW j, CallOf(o, o.todo, j), NEW f, NEW rest, NEW n \in NewSignerFromPEM(o, f, rest)
    PROVE  \E s \in Seq(Plain) : CallOf(n, s \o rest, j) \/ CallOf(n, rest, j)
<1>1. CASE f.form = "pem"
  <2>1. n = [o EXCEPT !.todo = rest, !.place = "memory", !.pub = f.of, !.id = f.of, !.file = f]
    BY <1>1 DEF NewSignerFromPEM
  <2>2. CallOf(n, rest, j)
    BY <2>1, CallAgain, Zenon
  <2>3. <<>> \in Seq(Plain)
    BY EmptySeq
  <2> QED
    BY <2>2, <2>3
<1>2. CASE f.form # "pem"
  <2>1. PICK p \in Asked(f) : n = [o EXCEPT !.todo = GetKey(p) \o rest, !.place = p.place, !.id = f.id, !.file = f,
                                            !.typ = AnyType]
    BY <1>2 DEF NewSignerFromPEM
  <2>2. GetKey(p) \in Seq(Plain)
    BY ProvidersThere, ProviderCalls, Zenon
  <2>3. CallOf(n, GetKey(p) \o rest, j)
    BY <2>1, CallAgain, Zenon
  <2> QED
    BY <2>2, <2>3
<1> QED
  BY <1>1, <1>2

(* The commands that make a key.                                           *)
LEMMA MakingCommands ==
    ASSUME ConfKept, CallsInv, CryptoInv, Loaded, NEW u \in Users, NEW kr, NEW label, NEW root, NEW p \in Providers,
           HsmGenKey(u, kr, label) \/ CreateRequestAndExportKey(u, p, kr) \/ NewRoot(u, p, kr, root)
    PROVE  CallsInv'
<1>1. p \in ProviderConfigs /\ Default \in ProviderConfigs
  BY ProvidersThere
<1>2. \A q \in ProviderConfigs : GenerateKey(q, TypeOf(kr)) \in Seq(Plain) /\ ExportKey(q) \in Seq(Plain)
  BY ProviderCalls
<1>3. CASE HsmGenKey(u, kr, label)
  <2> DEFINE t == GenerateKey(Default, TypeOf(kr)) \o ExportKey(Default) \o <<"save">>
             n == [Call(t, Default.place) EXCEPT !.typ = TypeOf(kr), !.uses = kr.uses, !.label = label]
  <2>1. t \in Seq(Plain)
    BY <1>1, <1>2, PlainConcat, OneFunction, Zenon
  <2>2. CallOf(n, t, <<>>)
    BY CallFields, Zenon
  <2>3. Begin(u, "genkey", n)
    BY <1>3, Zenon DEF HsmGenKey
  <2> QED
    BY <2>1, <2>2, <2>3, PlainOK, BeginStep, Zenon
<1>4. CASE CreateRequestAndExportKey(u, p, kr)
  <2> DEFINE t == GenerateKey(p, TypeOf(kr)) \o <<"request">> \o ExportKey(p) \o <<"save">>
             n == [Call(t, p.place) EXCEPT !.typ = TypeOf(kr), !.uses = kr.uses]
  <2>1. t \in Seq(Plain)
    BY <1>1, <1>2, PlainConcat, OneFunction, Zenon
  <2>2. CallOf(n, t, <<>>)
    BY CallFields, Zenon
  <2>3. Begin(u, "request", n)
    BY <1>4, Zenon DEF CreateRequestAndExportKey
  <2> QED
    BY <2>1, <2>2, <2>3, PlainOK, BeginStep, Zenon
<1>5. CASE NewRoot(u, p, kr, root)
  <2> DEFINE s == GenerateKey(p, TypeOf(kr)) \o <<"request">> \o ExportKey(p)
             t == s \o <<"root">>
             n == [Call(t, p.place) EXCEPT !.typ = TypeOf(kr), !.uses = kr.uses, !.job = <<root>>]
  <2>1. s \in Seq(Plain)
    BY <1>1, <1>2, PlainConcat, OneFunction, Zenon
  <2>2. CallOf(n, t, <<root>>)
    BY CallFields, Zenon
  <2>3. Begin(u, "root", n) /\ conf.loaded
    BY <1>5, Zenon DEF NewRoot
  <2> HIDE DEF s
  <2>4. t \in Seq(Plain \cup {"root"})
    BY <2>1
  <2> HIDE DEF t, n
  <2>5. OpOK(n, conf)
    BY <2>2, <2>3, <2>4 DEF CallOf, OpOK
  <2> QED
    BY <2>3, <2>5, BeginStep, Zenon
<1> QED
  BY <1>3, <1>4, <1>5

(* The commands about keys there are.                                      *)
LEMMA KeyCommands ==
    ASSUME ConfKept, CallsInv, CryptoInv, Loaded, NEW u \in Users, NEW slot, NEW typ, NEW label, NEW id, NEW public \in BOOLEAN,
           \/ GenerateOnSlot(u, slot, typ, label) \/ FindOnSlot(u, slot, id, label) \/ HsmKeyInfo(u, id, public)
           \/ HsmRmKey(u, id) \/ HsmKeys(u, label) \/ HsmRmKeys(u, label)
    PROVE  CallsInv'
<1>1. \A n, c, t, j : t \in Seq(Plain) /\ CallOf(n, t, j) /\ Begin(u, c, n) => CallsInv'
  BY PlainOK, BeginStep, Zenon
<1>2. CASE GenerateOnSlot(u, slot, typ, label)
  BY <1>1, <1>2, CallFields, MoreFunctions, Zenon DEF GenerateOnSlot
<1>3. CASE FindOnSlot(u, slot, id, label)
  <2>1. FindKeyPairOnSession \o <<"hold">> \in Seq(Plain)
    BY OneFunction, MoreFunctions, PlainConcat, Zenon
  <2> QED
    BY <1>1, <1>3, <2>1, CallFields, Zenon DEF FindOnSlot
<1>4. CASE HsmKeyInfo(u, id, public)
  <2>1. <<>> \in Seq(Plain)
    BY EmptySeq
  <2>2. Crypto11KeyInfo(public) \in Seq(Plain)
    BY <2>1, OneFunction, MoreFunctions, PlainConcat, Zenon DEF Crypto11KeyInfo
  <2>3. KmsKeyInfo(public) \in Seq(Plain)
    BY <2>1, OneFunction, MoreFunctions, PlainConcat, Zenon DEF KmsKeyInfo
  <2>4. KeyInfo(Default.place, public) \in Seq(Plain)
    BY <2>2, <2>3, Zenon DEF KeyInfo
  <2> QED
    BY <1>1, <1>4, <2>4, CallFields, Zenon DEF HsmKeyInfo
<1>5. CASE HsmRmKey(u, id)
  <2> DEFINE t == IF Default.kind = "kms" THEN KmsDestroyKeyPairOnSlot ELSE DestroyKeyPairOnSlot
  <2>1. t \in Seq(Plain)
    BY OneFunction, PlainCalls, Zenon DEF KmsDestroyKeyPairOnSlot
  <2> QED
    BY <1>1, <1>5, <2>1, CallFields, Zenon DEF HsmRmKey
<1>6. CASE HsmKeys(u, label)
  <2> DEFINE t == IF Default.kind = "kms" THEN <<"kmslist">> ELSE <<"list", "enum">>
  <2>1. t \in Seq(Plain)
    BY OneFunction, MoreFunctions, Zenon
  <2> QED
    BY <1>1, <1>6, <2>1, CallFields, Zenon DEF HsmKeys
<1>7. CASE HsmRmKeys(u, label)
  <2> DEFINE t == IF Default.kind = "kms" THEN <<"kmslist", "schedule">> ELSE <<"list", "enum">> \o DestroyKeyPairOnSlot
  <2>1. t \in Seq(Plain)
    BY MoreFunctions, PlainCalls, PlainConcat, Zenon
  <2> QED
    BY <1>1, <1>7, <2>1, CallFields, Zenon DEF HsmRmKeys
<1> QED
  BY <1>2, <1>3, <1>4, <1>5, <1>6, <1>7

(* The calls of csrprov for a request.                                     *)
LEMMA RequestCalls ==
    ASSUME CryptoInv, Loaded, NEW req, NEW job, NEW rest \in Seq(Plain), NEW k
    PROVE  OpOK(ForRequest(req, job, rest), k)
<1>1. GenerateKey(Default, TypeOf(req.kr)) \in Seq(Plain) /\ ExportKey(Default) \in Seq(Plain)
  BY ProvidersThere, ProviderCalls
<1> DEFINE t == ProcessCsrRequest(Default, req.kr) \o rest
<1>2. t \in Seq(Plain)
  BY <1>1, PlainConcat, OneFunction, Zenon DEF ProcessCsrRequest, ParseCsrRequest
<1>3. CallOf(ForRequest(req, job, rest), t, job)
  BY CallFields, Zenon DEF ForRequest
<1> QED
  BY <1>2, <1>3, PlainOK, Zenon

(* A signer that is made for a csr command.                                *)
LEMMA CsrSigner ==
    ASSUME CryptoInv, NEW j, NEW f, NEW n \in NewSignerFromPEM([Idle EXCEPT !.job = j], f, <<"signer">>), NEW k
    PROVE  OpOK(n, k)
<1>1. \A o : o = [Idle EXCEPT !.job = j] => CallOf(o, o.todo, j)
  BY DEF CallOf, Idle, Call
<1>2. PICK s \in Seq(Plain) : CallOf(n, s \o <<"signer">>, j) \/ CallOf(n, <<"signer">>, j)
  BY <1>1, SignerCalls, Zenon
<1>3. s \o <<"signer">> \in Seq(Plain) /\ <<"signer">> \in Seq(Plain)
  BY PlainConcat, OneFunction, Zenon
<1> QED
  BY <1>2, <1>3, PlainOK, Zenon

(* The csr commands, and NewLocalCASigner that goes on with one.           *)
LEMMA CsrCommands ==
    ASSUME ConfKept, CallsInv, CryptoInv, Loaded, NEW u \in Users, NEW req, NEW f, NEW cacert, NEW w,
           CsrGenKey(u, req) \/ CsrNewRoot(u, req) \/ GenCert(u, req, f, cacert) \/ SignCert(u, w, f, cacert)
    PROVE  CallsInv'
<1>1. \A n, c : OpOK(n, conf) /\ Begin(u, c, n) => CallsInv'
  BY BeginStep, Zenon
<1>2. CASE CsrGenKey(u, req)
  <2>1. OpOK(ForRequest(req, Job(req, <<>>), <<"write">>), conf)
    BY RequestCalls, OneFunction, Zenon
  <2> QED
    BY <1>1, <1>2, <2>1, Zenon DEF CsrGenKey
<1>3. CASE CsrNewRoot(u, req)
  <2>1. OpOK(ForRequest(req, Job(req, <<>>), <<"selfsign", "write">>), conf)
    BY RequestCalls, MoreFunctions, Zenon
  <2> QED
    BY <1>1, <1>3, <2>1, Zenon DEF CsrNewRoot
<1>4. CASE GenCert(u, req, f, cacert) \/ SignCert(u, w, f, cacert)
  BY <1>1, <1>4, CsrSigner, Zenon DEF GenCert, SignCert
<1> QED
  BY <1>2, <1>3, <1>4

(* The signer of csr gencert and signcert.                                 *)
LEMMA SignerStep ==
    ASSUME CallsInv, CryptoInv, NEW u \in Users, op[u].todo # <<>>, NewLocalCASigner(u)
    PROVE  CallsInv'
<1> DEFINE job == [op[u].job EXCEPT ![1].key = Held(op[u])]
           req == op[u].job[1].csr
<1>1. Loaded /\ DOMAIN op = Users
  BY DEF CallsInv
<1>2. UNCHANGED <<conf, crypto, loading>>
  BY DEF NewLocalCASigner, providerVars, authVars
<1>3. \/ op' = [op EXCEPT ![u] = ForRequest(req, job, <<"sign", "write">>)]
      \/ op' = [op EXCEPT ![u] = Idle]
      \/ op' = [op EXCEPT ![u] = [Idle EXCEPT !.todo = <<"sign", "write">>, !.job = job, !.pub = req.pub]]
  BY Zenon DEF NewLocalCASigner, Fail
<1> HIDE DEF job, req
<1>4. <<"sign", "write">> \in Seq(Plain)
  BY MoreFunctions
<1>5. /\ OpOK(ForRequest(req, job, <<"sign", "write">>), conf)
      /\ OpOK(Idle, conf)
      /\ OpOK([Idle EXCEPT !.todo = <<"sign", "write">>, !.job = job, !.pub = req.pub], conf)
  <2>1. CallOf([Idle EXCEPT !.todo = <<"sign", "write">>, !.job = job, !.pub = req.pub], <<"sign", "write">>, job)
    BY IdleJobs
  <2>2. OpOK([Idle EXCEPT !.todo = <<"sign", "write">>, !.job = job, !.pub = req.pub], conf)
    BY <1>4, <2>1, PlainOK, Zenon
  <2>3. OpOK(ForRequest(req, job, <<"sign", "write">>), conf)
    BY <1>1, <1>4, RequestCalls, Zenon
  <2> QED
    BY <2>2, <2>3, PlainCalls, Zenon
<1>6. PICK n : OpOK(n, conf) /\ op' = [op EXCEPT ![u] = n]
  BY <1>3, <1>5, Zenon
<1> QED
  BY <1>1, <1>2, <1>6, Assign, SameConf, CallStep

-----------------------------------------------------------------------------
(* The authority.                                                          *)

(* Who is about to sign a root, and who makes an authority.                *)
LEMMA AtAuthority ==
    ASSUME NEW o, NEW k, OpOK(o, k), o.todo # <<>>
    PROVE  /\ Head(o.todo) = "root" => k.loaded
           /\ Head(o.todo) \in {"issuer", "next"} =>
                 k.loaded /\ o.todo \in Seq(Plain \cup {"issuer", "next"})
                 /\ 2 \in DOMAIN o.job /\ AuthorityOK(o.job[2], k)
<1>1. \A S : o.todo \in Seq(S) => Head(o.todo) \in S
  BY HeadTailProperties
<1>2. "root" \notin Plain \cup {"issuer", "next"} /\ "issuer" \notin Plain \cup {"root"} /\ "next" \notin Plain \cup {"root"}
  BY DEF Plain
<1> QED
  BY <1>1, <1>2 DEF OpOK

(* An issuer is entered with the profiles LoadConfig gives to it.          *)
LEMMA EnteredOK ==
    ASSUME NEW a, NEW iss, NEW key, NEW cert, AuthorityOK(a, conf)
    PROVE  AuthorityOK(Entered(a, iss, CreateIssuer(iss, key, cert)), conf)
<1> DEFINE i == CreateIssuer(iss, key, cert)
           ps == IssuerProfiles(conf.config, iss)
           e == Entered(a, iss, i)
<1>1. i.profiles = ps /\ ps \subseteq DOMAIN conf.config.profiles
  BY DEF CreateIssuer, IssuerProfiles
<1> HIDE DEF i, ps
<1>2. /\ e.issuers = EnterAt(a.issuers, {iss.label}, i)
      /\ e.byProfile = EnterAt(a.byProfile, ps, i)
      /\ DOMAIN e = {"ready", "issuers", "byProfile"}
  BY DEF Entered, ps
<1> HIDE DEF e
<1>3. ASSUME NEW l \in DOMAIN e.issuers PROVE e.issuers[l] = i \/ (l \in DOMAIN a.issuers /\ e.issuers[l] = a.issuers[l])
  BY <1>2, <1>3 DEF EnterAt
<1>4. ASSUME NEW n \in DOMAIN e.byProfile
      PROVE  e.byProfile[n] = i \/ (n \in DOMAIN a.byProfile /\ e.byProfile[n] = a.byProfile[n])
  BY <1>2, <1>4 DEF EnterAt
<1>5. \A l \in DOMAIN e.issuers : e.issuers[l].profiles \subseteq DOMAIN conf.config.profiles
  BY <1>1, <1>3, Zenon DEF AuthorityOK
<1>6. \A n \in DOMAIN e.byProfile : e.byProfile[n].profiles \subseteq DOMAIN conf.config.profiles
  BY <1>1, <1>4, Zenon DEF AuthorityOK
<1> QED
  BY <1>2, <1>5, <1>6 DEF AuthorityOK, e, i

(* The authority that begins has no issuer.                                *)
LEMMA AuthorityBegins ==
    ASSUME ConfKept, CallsInv, Loaded, NEW u \in Users, NewAuthority(u)
    PROVE  CallsInv'
<1> DEFINE j == <<conf.config.issuers, NoAuthority>>
           n == [Call(<<"next">>, CurrentSlot) EXCEPT !.job = j]
<1>1. AuthorityOK(NoAuthority, conf)
  BY DEF AuthorityOK, NoAuthority
<1>2. 2 \in DOMAIN j /\ j[2] = NoAuthority
  OBVIOUS
<1>3. CallOf(n, <<"next">>, j)
  BY CallFields, Zenon
<1>4. <<"next">> \in Seq(Plain \cup {"issuer", "next"})
  OBVIOUS
<1>5. conf.loaded /\ Begin(u, "authority", n)
  BY Zenon DEF NewAuthority
<1> HIDE DEF n, j
<1>6. OpOK(n, conf)
  BY <1>1, <1>2, <1>3, <1>4, <1>5 DEF OpOK, CallOf
<1> QED
  BY <1>5, <1>6, BeginStep, Zenon

(* NewAuthority turns to the next issuer or returns.                       *)
LEMMA NextIssuerStep ==
    ASSUME CallsInv, CryptoInv, NEW u \in Users, op[u].todo # <<>>, NextIssuer(u)
    PROVE  CallsInv' /\ (ca' = ca \/ (conf.loaded /\ AuthorityOK(ca', conf)))
<1>1. /\ Loaded /\ DOMAIN op = Users /\ OpOK(op[u], conf)
      /\ {"todo", "job"} \subseteq DOMAIN op[u]
  BY DEF CallsInv, OpOK
<1>2. UNCHANGED <<conf, crypto, loading>> /\ Head(op[u].todo) = "next"
  BY DEF NextIssuer, providerVars, At
<1>3. /\ conf.loaded /\ 2 \in DOMAIN op[u].job
      /\ AuthorityOK(op[u].job[2], conf)
  BY <1>1, <1>2, AtAuthority
<1>4. CASE ca' = [op[u].job[2] EXCEPT !.ready = TRUE] /\ Continue(u, op[u])
  <2>1. \A a : AuthorityOK(a, conf) => AuthorityOK([a EXCEPT !.ready = TRUE], conf)
    BY DEF AuthorityOK
  <2>2. AuthorityOK(ca', conf)
    BY <1>3, <1>4, <2>1, Zenon
  <2>3. Runs(u)
    BY <1>1, <1>4, Continued, Assigned, Zenon
  <2> QED
    BY <1>2, <1>3, <2>2, <2>3, RunStep
<1>5. CASE op' = [op EXCEPT ![u].job[1] = Tail(@)] /\ ca' = ca
  <2>1. DOMAIN op' = DOMAIN op /\ \A v \in Users \ {u} : op'[v] = op[v]
    BY <1>5
  <2>2. DOMAIN op'[u] = DOMAIN op[u] /\ op'[u].todo = op[u].todo /\ SameJob(op[u].job, op'[u].job)
    BY <1>1, <1>5 DEF SameJob
  <2>3. Runs(u)
    BY <2>1, <2>2 DEF Runs, Becomes, Ran
  <2> QED
    BY <1>2, <1>5, <2>3, RunStep
<1>6. CASE Fail(u) /\ ca' = ca
  <2>1. Runs(u)
    BY <1>1, <1>6, Failed
  <2> QED
    BY <1>2, <1>6, <2>1, RunStep
<1>7. CASE (\E f \in files : \E call \in LoadIssuerKey(op[u], f) : op' = [op EXCEPT ![u] = call]) /\ ca' = ca
  <2>0. PICK f \in files : \E call \in LoadIssuerKey(op[u], f) : op' = [op EXCEPT ![u] = call]
    BY <1>7
  <2>1. PICK n \in LoadIssuerKey(op[u], f) : op' = [op EXCEPT ![u] = n]
    BY <2>0
  <2> DEFINE r == <<"issuer", "next">>
             S == Plain \cup {"issuer", "next"}
  <2>2. CallOf(op[u], op[u].todo, op[u].job)
    BY <1>1 DEF CallOf
  <2>3. PICK s \in Seq(Plain) : CallOf(n, s \o r, op[u].job) \/ CallOf(n, r, op[u].job)
    BY <2>1, <2>2, SignerCalls, Zenon DEF LoadIssuerKey
  <2>4. r \in Seq(S)
    OBVIOUS
  <2>5. s \in Seq(S)
    BY <2>3
  <2>6. s \o r \in Seq(S)
    BY <2>4, <2>5, ConcatProperties
  <2> HIDE DEF r
  <2>7. OpOK(n, conf)
    BY <1>3, <2>3, <2>4, <2>6, Zenon DEF OpOK, CallOf
  <2>8. Becomes(u, n)
    BY <1>1, <2>1, Assign
  <2> QED
    BY <1>1, <1>2, <1>7, <2>7, <2>8, SameConf, CallStep
<1> QED
  BY <1>4, <1>5, <1>6, <1>7, Zenon DEF NextIssuer

(* An issuer is made.                                                      *)
LEMMA NewIssuerStep ==
    ASSUME CallsInv, NEW u \in Users, op[u].todo # <<>>, NewIssuer(u)
    PROVE  CallsInv'
<1>1. /\ Loaded /\ DOMAIN op = Users /\ OpOK(op[u], conf)
      /\ {"todo", "job"} \subseteq DOMAIN op[u]
  BY DEF CallsInv, OpOK
<1>2. UNCHANGED <<conf, crypto, loading>> /\ Head(op[u].todo) = "issuer"
  BY DEF NewIssuer, providerVars, authVars, At
<1>3. /\ conf.loaded /\ op[u].todo \in Seq(Plain \cup {"issuer", "next"})
      /\ AuthorityOK(op[u].job[2], conf)
  BY <1>1, <1>2, AtAuthority
<1>4. CASE Fail(u)
  BY <1>1, <1>2, <1>4, Failed, RunStep
<1>5. ASSUME NEW c, NEW iss, NEW q,
             q = [op[u] EXCEPT !.job = <<Tail(@[1]), Entered(@[2], iss, CreateIssuer(iss, Held(op[u]), c.pub))>>],
             Continue(u, q)
      PROVE  CallsInv'
  <2> DEFINE e == Entered(op[u].job[2], iss, CreateIssuer(iss, Held(op[u]), c.pub))
             r == [q EXCEPT !.todo = Tail(@)]
  <2>1. AuthorityOK(e, conf)
    BY <1>3, EnteredOK
  <2> HIDE DEF e
  <2>2. q = [op[u] EXCEPT !.job = <<Tail(op[u].job[1]), e>>]
    BY <1>5 DEF e
  <2>3. {"todo", "job"} \subseteq DOMAIN q /\ q.todo = op[u].todo /\ q.job = <<Tail(op[u].job[1]), e>>
    BY <1>1, <2>2
  <2>4. DOMAIN r = DOMAIN q /\ r.todo = Tail(op[u].todo) /\ r.job = <<Tail(op[u].job[1]), e>>
    BY <2>3
  <2>5. Tail(op[u].todo) \in Seq(Plain \cup {"issuer", "next"})
    BY <1>3, HeadTailProperties
  <2> HIDE DEF r
  <2>6. 2 \in DOMAIN r.job /\ r.job[2] = e
    BY <2>4
  <2>7. OpOK(r, conf) /\ OpOK(Idle, conf)
    BY <1>3, <2>1, <2>3, <2>4, <2>5, <2>6, PlainCalls DEF OpOK
  <2>8. PICK n \in {Idle, r} : op' = [op EXCEPT ![u] = n]
    BY <1>5 DEF Continue, r
  <2>9. Becomes(u, n) /\ OpOK(n, conf)
    BY <1>1, <2>7, <2>8, Assign
  <2> QED
    BY <1>1, <1>2, <2>9, SameConf, CallStep
<1> QED
  BY <1>4, <1>5, Zenon DEF NewIssuer

-----------------------------------------------------------------------------
(* The steps.                                                              *)

(* What the functions of the providers leave alone.                        *)
LEMMA ProviderKeeps == \A u : ProviderStep(u) => UNCHANGED <<crypto, loading>>
<1> SUFFICES ASSUME NEW u, ProviderStep(u)
             PROVE  UNCHANGED <<crypto, loading>>
  OBVIOUS
<1>1. CASE CreateKey(u) \/ DescribeKey(u) \/ GetPublicKey(u) \/ KmsEnumKeys(u) \/ ScheduleKeyDeletion(u)
  BY <1>1 DEF CreateKey, DescribeKey, GetPublicKey, KmsEnumKeys, ScheduleKeyDeletion, providerVars
<1>2. CASE Save(u) \/ Hold(u)
  BY <1>2 DEF Save, Hold
<1>3. CASE UNCHANGED providerVars
  BY <1>3 DEF providerVars
<1> QED
  BY <1>1, <1>2, <1>3, Zenon DEF ProviderStep, providerVars

(* A step of a call: the certificates are made by SignRoot, the authority  *)
(* by NextIssuer.                                                          *)
LEMMA StepsStep ==
    ASSUME CallsInv, CryptoInv, NEW u \in Users, op[u].todo # <<>>, Steps(u)
    PROVE  /\ CallsInv' /\ UNCHANGED <<crypto, loading, conf>>
           /\ ca' = ca \/ (conf.loaded /\ AuthorityOK(ca', conf))
           /\ certs' = certs \/ SignRoot(u)
<1>1. DOMAIN op = Users /\ {"todo", "job"} \subseteq DOMAIN op[u]
  BY DEF CallsInv, OpOK
<1>2. CASE ProviderStep(u) /\ UNCHANGED <<authVars, calls>>
  <2>1. UNCHANGED <<crypto, loading, conf, ca, certs>>
    BY <1>2, ProviderKeeps DEF authVars
  <2>2. Runs(u)
    BY <1>1, <1>2, ProviderRuns
  <2> QED
    BY <2>1, <2>2, RunStep
<1>3. CASE MakeRequest(u) \/ LocalSign(u) \/ SelfSign(u) \/ WriteFiles(u)
  <2>1. UNCHANGED <<crypto, loading, conf, ca, certs>>
    BY <1>3 DEF MakeRequest, LocalSign, SelfSign, WriteFiles, providerVars, authVars
  <2>2. Runs(u)
    BY <1>1, <1>3, CommandRuns
  <2> QED
    BY <2>1, <2>2, RunStep
<1>4. CASE SignRoot(u)
  <2>1. UNCHANGED <<crypto, loading, conf, ca>>
    BY <1>4 DEF SignRoot
  <2>2. Runs(u)
    BY <1>1, <1>4, CommandRuns
  <2> QED
    BY <1>4, <2>1, <2>2, RunStep
<1>5. CASE NextIssuer(u)
  <2>1. UNCHANGED <<crypto, loading, conf, certs>>
    BY <1>5 DEF NextIssuer, providerVars
  <2> QED
    BY <1>5, <2>1, NextIssuerStep
<1>6. CASE NewIssuer(u) \/ NewLocalCASigner(u)
  <2>1. UNCHANGED <<crypto, loading, conf, ca, certs>>
    BY <1>6 DEF NewIssuer, NewLocalCASigner, providerVars, authVars
  <2> QED
    BY <1>6, <2>1, NewIssuerStep, SignerStep
<1> QED
  BY <1>2, <1>3, <1>4, <1>5, <1>6, Zenon DEF Steps

(* LoadPrivateKey.                                                         *)
LEMMA LoadKeyStep ==
    ASSUME ConfKept, CallsInv, CryptoInv, Loaded, NEW u \in Users, NEW f, LoadPrivateKey(u, f)
    PROVE  CallsInv' /\ UNCHANGED <<crypto, loading, ca, certs>>
<1>1. CASE UNCHANGED <<tokenVars, loaders, loading, crypto, files, ca, certs, outputs>>
  <2>1. DOMAIN op = Users /\ \A v \in Users : OpOK(op[v], conf')
    BY KeptOK DEF CallsInv
  <2>2. UNCHANGED <<op, crypto, loading, ca, certs>> /\ Loaded'
    BY <1>1 DEF tokenVars, Loaded, NoCrypto
  <2>3. \A v \in Users : OpOK(op[v], conf)'
    BY <2>1, <2>2 DEF OpOK, AuthorityOK, Plain
  <2> QED
    BY <2>1, <2>2, <2>3 DEF CallsInv
<1>2. CASE \E p \in Asked(f) : Begin(u, "load", [Call(GetKey(p) \o <<"hold">>, p.place) EXCEPT !.id = f.id, !.file = f])
  <2>1. PICK p \in Asked(f) : Begin(u, "load", [Call(GetKey(p) \o <<"hold">>, p.place) EXCEPT !.id = f.id, !.file = f])
    BY <1>2
  <2>2. GetKey(p) \o <<"hold">> \in Seq(Plain)
    BY ProvidersThere, ProviderCalls, OneFunction, PlainConcat, Zenon
  <2> DEFINE n == [Call(GetKey(p) \o <<"hold">>, p.place) EXCEPT !.id = f.id, !.file = f]
  <2>n. CallOf(n, GetKey(p) \o <<"hold">>, <<>>)
    BY CallFields, Zenon
  <2>o. OpOK(n, conf)
    BY <2>2, <2>n, PlainOK, Zenon
  <2>3. CallsInv'
    BY <2>1, <2>o, BeginStep, Zenon
  <2>4. UNCHANGED <<crypto, loading, ca, certs>>
    BY <2>1 DEF Begin, providerVars
  <2> QED
    BY <2>3, <2>4
<1> QED
  BY <1>1, <1>2, Zenon DEF LoadPrivateKey

(* What every command that begins a call leaves alone.                     *)
LEMMA BeginKeeps == \A u, c, n : Begin(u, c, n) => UNCHANGED <<crypto, loading, ca, certs>>
  BY DEF Begin, providerVars

(* A command.                                                              *)
LEMMA CommandsStep ==
    ASSUME CallsInv, CryptoInv, Loaded, NEW u \in Users, Commands(u), conf.loaded \in BOOLEAN
    PROVE  CallsInv' /\ ConfKept /\ UNCHANGED <<crypto, loading, ca, certs>>
<1>0. ConfKept
  BY SameConf, AgainKept DEF Commands, NewRoot
<1>1. ASSUME NEW kr, NEW label, HsmGenKey(u, kr, label)
      PROVE  CallsInv' /\ UNCHANGED <<crypto, loading, ca, certs>>
  <2>1. Default \in Providers
    BY DEF Default, Providers, Loaded, CryptoInv, ProvidersOK
  <2>2. CallsInv'
    BY <1>0, <1>1, <2>1, MakingCommands, Zenon
  <2> QED
    BY <1>1, <2>2, BeginKeeps, Zenon DEF HsmGenKey
<1>2. ASSUME NEW p \in Providers, NEW kr, NEW root, CreateRequestAndExportKey(u, p, kr) \/ NewRoot(u, p, kr, root)
      PROVE  CallsInv' /\ UNCHANGED <<crypto, loading, ca, certs>>
  <2>1. CallsInv'
    BY <1>0, <1>2, MakingCommands, Zenon
  <2> QED
    BY <1>2, <2>1, BeginKeeps, Zenon DEF CreateRequestAndExportKey, NewRoot
<1>3. ASSUME NEW slot, NEW typ, NEW label, NEW id, NEW public \in BOOLEAN,
             \/ GenerateOnSlot(u, slot, typ, label) \/ FindOnSlot(u, slot, id, label) \/ HsmKeyInfo(u, id, public)
             \/ HsmRmKey(u, id) \/ HsmKeys(u, label) \/ HsmRmKeys(u, label)
      PROVE  CallsInv' /\ UNCHANGED <<crypto, loading, ca, certs>>
  <2>1. CallsInv'
    BY <1>0, <1>3, KeyCommands, Zenon
  <2> QED
    BY <1>3, <2>1, BeginKeeps, Zenon DEF GenerateOnSlot, FindOnSlot, HsmKeyInfo, HsmRmKey, HsmKeys, HsmRmKeys
<1>4. ASSUME NEW f, LoadPrivateKey(u, f)
      PROVE  CallsInv' /\ UNCHANGED <<crypto, loading, ca, certs>>
  BY <1>0, <1>4, LoadKeyStep
<1>5. ASSUME NewAuthority(u)
      PROVE  CallsInv' /\ UNCHANGED <<crypto, loading, ca, certs>>
  <2>1. CallsInv'
    BY <1>0, <1>5, AuthorityBegins
  <2> QED
    BY <1>5, <2>1, BeginKeeps, Zenon DEF NewAuthority
<1>6. ASSUME NEW req, NEW f, NEW cacert, NEW w,
             CsrGenKey(u, req) \/ CsrNewRoot(u, req) \/ GenCert(u, req, f, cacert) \/ SignCert(u, w, f, cacert)
      PROVE  CallsInv' /\ UNCHANGED <<crypto, loading, ca, certs>>
  <2>1. CallsInv'
    BY <1>0, <1>6, CsrCommands, Zenon
  <2> QED
    BY <1>6, <2>1, BeginKeeps, Zenon DEF CsrGenKey, CsrNewRoot, GenCert, SignCert
<1>7. TRUE \in BOOLEAN
  OBVIOUS
<1> QED
  BY <1>0, <1>1, <1>2, <1>3, <1>4, <1>5, <1>6, <1>7, Zenon DEF Commands, OtherCommands

(* Load keeps the default provider it has loaded first.                    *)
LEMMA LoadStep ==
    ASSUME CallsInv, CryptoInv, Load, UNCHANGED <<conf, op>>
    PROVE  CallsInv' /\ CryptoInv'
<1>1. \A u \in Users : op[u].todo = <<>>
  BY DEF Load, CallsInv, Loaded
<1>2. CallsInv'
  BY <1>1 DEF CallsInv
<1>3. Head(loading) \in ProviderConfigs /\ Tail(loading) \in Seq(ProviderConfigs)
  BY HeadTailProperties DEF Load, CryptoInv
<1>4. ProvidersOK(NoCrypto) /\ <<>> \in Seq(ProviderConfigs)
  BY EmptySeq DEF ProvidersOK, NoCrypto
<1>5. ASSUME NEW x \in ProviderConfigs
      PROVE  ProvidersOK(New(x)) /\ New(x).default # {}
  BY <1>5 DEF ProvidersOK, New
<1>6. ASSUME NEW c, ProvidersOK(c), c.default # {}, NEW x \in ProviderConfigs
      PROVE  ProvidersOK(Add(c, x))
  <2>1. CASE Duplicate(c, x)
    BY <1>4, <2>1 DEF Add
  <2>2. CASE ~Duplicate(c, x)
    <3>1. Add(c, x) = [default |-> c.default, by |-> c.by \cup {x}]
      BY <1>6, <2>2 DEF Add, ProvidersOK
    <3> QED
      BY <1>6, <3>1 DEF ProvidersOK
  <2> QED
    BY <2>1, <2>2
<1>7. PICK p \in LoadProvider(Head(loading)) :
         LET c == IF p = {} THEN NoCrypto
                  ELSE Add(IF crypto = NoCrypto THEN New(CHOOSE q \in p : TRUE) ELSE crypto, CHOOSE q \in p : TRUE)
         IN crypto' = c /\ loading' = IF c = NoCrypto THEN <<>> ELSE Tail(loading)
  BY Zenon DEF Load
<1> DEFINE x == CHOOSE q \in p : TRUE
           b == IF crypto = NoCrypto THEN New(x) ELSE crypto
<1>8. p # {} => x \in ProviderConfigs
  BY <1>3 DEF LoadProvider
<1> HIDE DEF x
<1>9. p # {} => ProvidersOK(b) /\ b.default # {}
  BY <1>5, <1>8 DEF CryptoInv, ProvidersOK
<1> HIDE DEF b
<1>10. p # {} => ProvidersOK(Add(b, x))
  BY <1>6, <1>8, <1>9
<1>11. crypto' = (IF p = {} THEN NoCrypto ELSE Add(b, x))
  BY <1>7 DEF b, x
<1>12. ProvidersOK(crypto)'
  <2>1. ProvidersOK(crypto')
    BY <1>4, <1>10, <1>11, Zenon
  <2> QED
    BY <2>1 DEF ProvidersOK, ProviderConfigs, NoCrypto
<1>13. loading' \in Seq(ProviderConfigs)
  BY <1>3, <1>4, <1>7
<1> QED
  BY <1>2, <1>12, <1>13 DEF CryptoInv, ProviderConfigs

(* When no issuer label is unknown, Validate returns without an error only *)
(* after it has compiled all profiles.                                     *)
LEMMA ValidateCompiles ==
    ASSUME NEW c, NEW k \in LoadConfig(c), Dangling(k.config) = {}
    PROVE  DOMAIN k.config.profiles \subseteq k.compiled
<1> DEFINE d == [c EXCEPT !.profiles = @ @@ ("default" :> DefaultCertProfile)]
<1>1. PICK v \in Validate(d) : v.ok /\ k = [loaded |-> TRUE, config |-> d, compiled |-> v.compiled]
  BY DEF LoadConfig
<1> HIDE DEF d
<1>2. k.config = d /\ k.compiled = v.compiled
  BY <1>1
<1> DEFINE names == DOMAIN d.profiles
           invalid == {n \in names : ~ProfileValid(d.profiles[n])}
<1>3. Dangling(d) = {}
  BY <1>2
<1>4. CASE invalid = {}
  <2>1. v = [ok |-> TRUE, compiled |-> names]
    BY <1>1, <1>3, <1>4 DEF Validate
  <2> QED
    BY <1>2, <2>1
<1>5. CASE invalid # {}
  <2>1. \E n \in invalid, before \in SUBSET (names \ invalid) :
           v = [ok |-> n \notin invalid, compiled |-> before \cup ({n} \ invalid)]
    BY <1>1, <1>3, <1>5 DEF Validate
  <2> HIDE DEF invalid
  <2>2. PICK n \in invalid : \E before : v = [ok |-> n \notin invalid, compiled |-> before \cup ({n} \ invalid)]
    BY <2>1
  <2>3. v.ok = (n \notin invalid)
    BY <2>2
  <2> QED
    BY <1>1, <2>2, <2>3
<1> QED
  BY <1>4, <1>5

(* The configuration is loaded when no call depends on it yet.             *)
LEMMA ConfigurationStep ==
    ASSUME IInv, NEW c, LoadConfiguration(c)
    PROVE  IInv'
<1>1. ~conf.loaded /\ conf' \in LoadConfig(c) /\ UNCHANGED <<op, crypto, loading, ca, certs>>
  BY DEF LoadConfiguration, tokenVars, providerVars
<1>2. conf'.loaded = TRUE /\ (Dangling(conf'.config) = {} => DOMAIN conf'.config.profiles \subseteq conf'.compiled)
  <2>1. conf'.loaded = TRUE
    BY <1>1 DEF LoadConfig
  <2> QED
    BY <1>1, <2>1, ValidateCompiles, Zenon
<1>3. certs = {} /\ ~ca.ready
  BY <1>1 DEF IInv, ConfInv
<1>4. ConfInv'
  <2>1. certs' = {} /\ ~ca'.ready
    BY <1>1, <1>3
  <2> QED
    BY <1>2, <2>1 DEF ConfInv, Dangling, Labels
<1>5. IssuedWithinProfile'
  BY <1>1, <1>3 DEF IssuedWithinProfile
<1>6. CryptoInv'
  BY <1>1 DEF IInv, CryptoInv, ProvidersOK, NoCrypto, ProviderConfigs
<1>7. CallsInv'
  <2>1. \A o, k : OpOK(o, conf) => OpOK(o, k)
    BY <1>1 DEF OpOK
  <2> QED
    BY <1>1, <2>1 DEF IInv, CallsInv, Loaded, NoCrypto
<1> QED
  BY <1>4, <1>5, <1>6, <1>7 DEF IInv

-----------------------------------------------------------------------------
(* The certificates.                                                       *)

(* What an issuer with profiles of the configuration signs is within them. *)
LEMMA SignedOK ==
    ASSUME ConfInv, conf.loaded, NEW issuer, issuer.profiles \subseteq DOMAIN conf.config.profiles,
           NEW req, NEW signed, NEW c \in Sign(issuer, conf, req, signed)
    PROVE  WithinProfile(c, conf)
<1>1. /\ c.profile \in issuer.profiles
      /\ c.profile \in conf.compiled => ListsObeyed(c, conf.config.profiles[c.profile])
      /\ Derived(c, conf.config.profiles[c.profile])
  BY SignedWithin
<1>2. Dangling(conf.config) = {} => DOMAIN conf.config.profiles \subseteq conf.compiled
  BY DEF ConfInv
<1>3. Dangling(conf.config) = {} => ListsObeyed(c, conf.config.profiles[c.profile])
  BY <1>1, <1>2
<1> QED
  BY <1>1, <1>3, Zenon DEF WithinProfile, ListsObeyed, Derived, Sourced

(* SignRoot and SignRequest add certificates within their profiles.        *)
LEMMA CertificatesStep ==
    ASSUME IInv, conf' = conf, NEW new, \A c \in new : WithinProfile(c, conf), certs' \subseteq certs \cup new
    PROVE  IssuedWithinProfile'
  BY Zenon DEF IInv, IssuedWithinProfile

(* No certificate is made.                                                 *)
LEMMA CertificatesKept == IInv /\ ConfKept /\ UNCHANGED certs => IssuedWithinProfile'
  BY Zenon DEF IInv, IssuedWithinProfile, WithinProfile, ConfKept

(* A root has a profile of the configuration.                              *)
LEMMA RootStep ==
    ASSUME IInv, NEW u \in Users, SignRoot(u)
    PROVE  conf.loaded /\ IssuedWithinProfile'
<1>1. conf.loaded
  BY AtAuthority DEF IInv, CallsInv, SignRoot, At
<1> DEFINE issuer == RootIssuer(op[u])
           root == Sign(issuer, conf, RootRequest(op[u].job[1], op[u].pub), SignWith(Held(op[u])))
<1>2. issuer.profiles = DOMAIN conf.config.profiles
  BY DEF RootIssuer
<1>3. conf' = conf /\ certs' \in {certs, certs \cup root}
  BY Zenon DEF SignRoot
<1> HIDE DEF issuer
<1>4. \A c \in root : WithinProfile(c, conf)
  BY <1>1, <1>2, SignedOK DEF IInv
<1> HIDE DEF root
<1> QED
  BY <1>1, <1>3, <1>4, CertificatesStep

(* An issuer of the authority has profiles of the configuration.           *)
LEMMA RequestStep ==
    ASSUME IInv, NEW req, SignRequest(req)
    PROVE  conf.loaded /\ IssuedWithinProfile'
<1>1. conf.loaded /\ AuthorityOK(ca, conf) /\ conf' = conf
  BY DEF SignRequest, IInv, ConfInv
<1>2. PICK issuer \in GetIssuerByProfile(req.profile) \cup UNION {GetIssuerByLabel(l) : l \in DOMAIN ca.issuers} :
         \E c \in Sign(issuer, conf, req, SignWith(issuer.key)) : certs' = certs \cup {c}
  BY Zenon DEF SignRequest
<1>3. issuer.profiles \subseteq DOMAIN conf.config.profiles
  BY <1>1, <1>2 DEF AuthorityOK, GetIssuerByProfile, GetIssuerByLabel
<1>4. PICK c \in Sign(issuer, conf, req, SignWith(issuer.key)) : certs' = certs \cup {c}
  BY <1>2
<1>5. WithinProfile(c, conf)
  BY <1>1, <1>3, <1>4, SignedOK DEF IInv
<1> DEFINE new == {c}
<1>6. (\A x \in new : WithinProfile(x, conf)) /\ certs' \subseteq certs \cup new
  BY <1>4, <1>5
<1> HIDE DEF new
<1> QED
  BY <1>1, <1>6, CertificatesStep

-----------------------------------------------------------------------------
(* The theorem.                                                            *)

(* The parts of the invariant that only follow their variables.            *)
LEMMA PartsKept ==
    ASSUME IInv, ConfKept, UNCHANGED <<crypto, loading>>,
           ca' = ca \/ (conf.loaded /\ AuthorityOK(ca', conf)), certs' = certs \/ conf.loaded
    PROVE  CryptoInv' /\ ConfInv'
<1>1. CryptoInv'
  BY DEF IInv, CryptoInv, ProvidersOK, NoCrypto, ProviderConfigs
<1>2. conf'.loaded /\ Dangling(conf'.config) = {} => DOMAIN conf'.config.profiles \subseteq conf'.compiled
  BY DEF IInv, ConfInv, ConfKept
<1>3. ca'.ready => conf'.loaded /\ AuthorityOK(ca', conf')
  BY KeptOK DEF IInv, ConfInv, ConfKept
<1>4. conf'.loaded \in BOOLEAN /\ (certs' # {} => conf'.loaded)
  BY DEF IInv, ConfInv, ConfKept
<1>5. ConfInv'
  BY <1>2, <1>3, <1>4 DEF ConfInv, AuthorityOK, Dangling, Labels
<1> QED
  BY <1>1, <1>5

(* The invariant holds when nothing is loaded.                             *)
LEMMA InitInv == Init => IInv
<1> SUFFICES ASSUME Init PROVE IInv
  OBVIOUS
<1>1. PICK setup \in max.setups : ProviderInit(setup)
  BY DEF Init
<1>2. setup \in Seq(ProviderConfigs)
  BY <1>1, SetupAssumption DEF Init, max
<1>3. CryptoInv
  BY <1>1, <1>2 DEF CryptoInv, ProviderInit, ProvidersOK, NoCrypto
<1>4. CallsInv
  <2>1. op = [u \in Users |-> Idle]
    BY DEF Init, TokenInit
  <2> QED
    BY <2>1, PlainCalls DEF CallsInv
<1>5. ConfInv /\ IssuedWithinProfile
  BY DEF Init, NoConf, NoAuthority, ConfInv, IssuedWithinProfile
<1> QED
  BY <1>3, <1>4, <1>5 DEF IInv

(* Every step keeps the invariant.                                         *)
LEMMA NextInv == IInv /\ [Next]_vars => IInv'
<1> SUFFICES ASSUME IInv, [Next]_vars PROVE IInv'
  OBVIOUS
<1> USE DEF IInv
<1>1. CASE \E u \in Users : (Free(u) /\ Commands(u)) \/ (op[u].todo # <<>> /\ Steps(u))
  <2>1. PICK u \in Users : (Free(u) /\ Commands(u)) \/ (op[u].todo # <<>> /\ Steps(u))
    BY <1>1
  <2>2. CASE Free(u) /\ Commands(u)
    <3>1. CallsInv' /\ ConfKept /\ UNCHANGED <<crypto, loading, ca, certs>>
      BY <2>2, CommandsStep DEF Free, ConfInv
    <3>2. IssuedWithinProfile'
      BY <3>1, CertificatesKept
    <3> QED
      BY <3>1, <3>2, PartsKept
  <2>3. CASE op[u].todo # <<>> /\ Steps(u)
    <3>1. /\ CallsInv' /\ UNCHANGED <<crypto, loading, conf>>
          /\ ca' = ca \/ (conf.loaded /\ AuthorityOK(ca', conf))
          /\ certs' = certs \/ SignRoot(u)
      BY <2>3, StepsStep
    <3>2. CASE certs' = certs
      <4>1. IssuedWithinProfile'
        BY <3>1, <3>2, SameConf, CertificatesKept
      <4> QED
        BY <3>1, <3>2, <4>1, SameConf, PartsKept
    <3>3. CASE SignRoot(u)
      <4>1. conf.loaded /\ IssuedWithinProfile'
        BY <3>3, RootStep
      <4> QED
        BY <3>1, <4>1, SameConf, PartsKept
    <3> QED
      BY <3>1, <3>2, <3>3
  <2> QED
    BY <2>1, <2>2, <2>3
<1>2. CASE Load /\ UNCHANGED <<authVars, calls>>
  <2>1. UNCHANGED <<op, conf, ca, certs>>
    BY <1>2 DEF Load, tokenVars, authVars
  <2>2. CallsInv' /\ CryptoInv'
    BY <1>2, <2>1, LoadStep
  <2>3. IssuedWithinProfile'
    BY <2>1, SameConf, CertificatesKept
  <2>4. ConfInv'
    BY <2>1 DEF ConfInv, AuthorityOK, Dangling, Labels
  <2> QED
    BY <2>2, <2>3, <2>4
<1>3. CASE \E c \in max.configs : LoadConfiguration(c)
  BY <1>3, ConfigurationStep
<1>4. CASE \E req \in max.requests : SignRequest(req)
  <2>1. conf.loaded /\ IssuedWithinProfile'
    BY <1>4, RequestStep
  <2>2. UNCHANGED <<op, crypto, loading, conf, ca>>
    BY <1>4 DEF SignRequest, tokenVars, providerVars
  <2>3. CallsInv'
    BY <2>2 DEF CallsInv, Loaded, NoCrypto
  <2> QED
    BY <2>1, <2>2, <2>3, SameConf, PartsKept
<1>5. CASE UNCHANGED <<op, crypto, loading, conf, ca, certs>>
  <2>1. IssuedWithinProfile'
    BY <1>5, SameConf, CertificatesKept
  <2>2. CallsInv'
    BY <1>5 DEF CallsInv, Loaded, NoCrypto
  <2> QED
    BY <1>5, <2>1, <2>2, SameConf, PartsKept
<1>6. CASE \E i \in 1..Len(loading) :
              (Register(loading[i].man) \/ Unregister(loading[i].man)) /\ UNCHANGED <<authVars, calls>>
  <2>1. UNCHANGED <<op, crypto, loading, conf, ca, certs>>
    BY <1>6 DEF Register, Unregister, tokenVars, authVars
  <2> QED
    BY <1>5, <2>1
<1>8. CASE Loaded /\ \E kr \in max.keyRequests, root \in max.roots : RefuseRoot(kr, root)
  <2>1. UNCHANGED <<op, crypto, loading, ca, certs>>
    BY <1>8 DEF RefuseRoot, tokenVars, providerVars
  <2>2. ConfKept
    BY <1>8, AgainKept DEF RefuseRoot, ConfInv
  <2>3. IssuedWithinProfile'
    BY <2>1, <2>2, CertificatesKept
  <2>4. \A o : OpOK(o, conf) => OpOK(o, conf')
    BY <2>2, KeptOK
  <2>5. CallsInv'
    BY <2>1, <2>4 DEF CallsInv, Loaded, NoCrypto, OpOK, AuthorityOK, Plain
  <2> QED
    BY <2>1, <2>2, <2>3, <2>5, PartsKept
<1>7. CASE UNCHANGED vars
  <2>1. UNCHANGED <<op, crypto, loading, conf, ca, certs>>
    BY <1>7 DEF vars, tokenVars, providerVars, authVars
  <2> QED
    BY <1>5, <2>1
<1> QED
  BY <1>1, <1>2, <1>3, <1>4, <1>6, <1>7, <1>8, Zenon DEF Next

(* Whatever the commands of several users do and however they interleave   *)
(* with the loading of providers and of the configuration, every           *)
(* certificate NewRoot or an issuer of the authority signs is within its   *)
(* profile.                                                                *)
THEOREM CertificatesWithinProfile == Spec => []IssuedWithinProfile
<1>1. IInv => IssuedWithinProfile
  BY DEF IInv
<1> QED
  BY <1>1, InitInv, NextInv, PTL DEF Spec

-----------------------------------------------------------------------------
(***************************************************************************)
(* Key pairs stay whole.                                                   *)
(***************************************************************************)

(* The ids of the keys made when m[p] keys were made in each place p.      *)
Places == Slots \cup Stores
OldIDs(m) == {i \in Places \X Nat : i[2] \in 1..m[i[1]]}
KnownIDs(m) == OldIDs(m) \cup {NoID}

HandleOf(class, n) == IF class = "private" THEN 2 * n - 1 ELSE 2 * n

ObjectFields == {"place", "handle", "class", "id"}

(* An object on a slot is a half, and its handle is that of its key.       *)
ObjectOK(x, m) ==
    /\ ObjectFields \subseteq DOMAIN x
    /\ x.place \in Places /\ x.id \in OldIDs(m) /\ x.id[1] = x.place
    /\ x.place \in Slots => x.class \in {"private", "public"} /\ x.handle = HandleOf(x.class, x.id[2])

ObjectsOK ==
    /\ made \in [Places -> Nat]
    /\ IsFiniteSet(objects)
    /\ \A x \in objects : ObjectOK(x, made)
    /\ \A x, y \in objects : x.place \in Slots /\ x.place = y.place /\ x.handle = y.handle => x = y

FileOK(f, m) == f.of \in KnownIDs(m) /\ (f.form # "pem" => f.id \in KnownIDs(m))

IdsOK ==
    /\ \A f \in files : FileOK(f, made)
    /\ \A g \in gone : g[2] \in KnownIDs(made)

(* Among the objects S, the key of the call has no such half.              *)
Absent(S, o, class) == \A x \in S : x.place = o.place /\ x.id = o.id => x.class # class

(* findKey has given the handle of the half, or there is none, or the      *)
(* token failed.                                                           *)
Seen(S, h, o, class) ==
    \/ o.handle[class] = 0 /\ (o.id \in h \/ Absent(S, o, class))
    \/ o.id[1] = o.place /\ o.handle[class] = HandleOf(class, o.id[2])

Destroy1 == <<"public", "rmprivate", "rmpublic">>
Destroy2 == <<"rmprivate", "rmpublic">>
Destroy3 == <<"rmpublic">>

(* A call of DestroyKeyPairOnSlot, by what is left of it.                  *)
Destroying(S, h, o) ==
    /\ o.id # NoID /\ o.label = NoLabel /\ o.lenient
    /\ \/ o.todo = DestroyKeyPairOnSlot /\ o.handle["private"] = 0 /\ o.handle["public"] = 0
       \/ o.todo = Destroy1 /\ Seen(S, h, o, "private") /\ o.handle["public"] = 0
       \/ o.todo = Destroy2 /\ Seen(S, h, o, "private") /\ Seen(S, h, o, "public")
       \/ o.todo = Destroy3 /\ Seen(S, h, o, "public") /\ (o.id \in h \/ Absent(S, o, "private"))

Listing == {<<"list", "enum">>, <<"enum">>}
ListingToDestroy == {<<"list", "enum">> \o DestroyKeyPairOnSlot, <<"enum">> \o DestroyKeyPairOnSlot}

(* The functions of a call on a slot that does not list and not destroy;   *)
(* and the ones that may be called with a key in memory.                   *)
OnSlot ==
    {"generate", "export", "identify", "publickey", "describe", "private", "type", "public", "info", "save",
     "hold", "request", "signer", "sign", "selfsign", "write", "root", "issuer", "next"}
Anywhere == {"signer", "issuer", "next"}

Ordinary(o) ==
    \/ o.place \in Slots /\ (o.todo \in Seq(OnSlot) \/ o.todo \in Listing)
    \/ o.place \in Stores
    \/ o.todo \in Seq(Anywhere)

Removal(S, h, o) ==
    o.place \in Slots /\ o.typ = AnyType /\ (o.todo \in ListingToDestroy \/ Destroying(S, h, o))

KeyCall(S, h, o) == Ordinary(o) \/ Removal(S, h, o)

CallType(o, m) ==
    /\ DOMAIN o = DOMAIN Idle /\ DOMAIN o.handle = {"private", "public"}
    /\ o.id \in KnownIDs(m) /\ o.queue \in Seq(OldIDs(m))

PairCalls ==
    /\ DOMAIN op = Users
    /\ \A u \in Users : CallType(op[u], made) /\ KeyCall(objects, hit, op[u])

PairInv == ObjectsOK /\ IdsOK /\ PairCalls /\ PairsWhole

(* Ids stay known when keys are made.                                      *)
LEMMA KnownGrow ==
    ASSUME NEW m \in [Places -> Nat], NEW k \in [Places -> Nat], \A p \in Places : m[p] <= k[p]
    PROVE  OldIDs(m) \subseteq OldIDs(k) /\ KnownIDs(m) \subseteq KnownIDs(k)
<1>1. OldIDs(m) \subseteq OldIDs(k)
  BY DEF OldIDs
<1> QED
  BY <1>1 DEF KnownIDs

(* The id of a new key is new.                                             *)
OneMore(m, p) == [m EXCEPT ![p] = m[p] + 1]
NewIDOf(m, p) == <<p, m[p] + 1>>

LEMMA NewID ==
    ASSUME NEW m \in [Places -> Nat], NEW p \in Places
    PROVE  /\ OneMore(m, p) \in [Places -> Nat] /\ (\A q \in Places : m[q] <= OneMore(m, p)[q])
           /\ NewIDOf(m, p) \in OldIDs(OneMore(m, p)) /\ NewIDOf(m, p) \notin OldIDs(m)
           /\ NewIDOf(m, p) \notin KnownIDs(m)
<1>1. OneMore(m, p) \in [Places -> Nat] /\ (\A q \in Places : m[q] <= OneMore(m, p)[q])
  BY DEF OneMore
<1>2. NewIDOf(m, p) \in OldIDs(OneMore(m, p)) /\ NewIDOf(m, p) \notin OldIDs(m)
  BY DEF OldIDs, OneMore, NewIDOf
<1>3. NewIDOf(m, p) # <<>>
  BY DEF NewIDOf
<1> QED
  BY <1>1, <1>2, <1>3 DEF KnownIDs, NoID

(* NoID is not the id of a key.                                            *)
LEMMA NoOldID == \A m : NoID \notin OldIDs(m)
<1>1. \A i \in Places \X Nat : i # <<>>
  OBVIOUS
<1> QED
  BY <1>1 DEF OldIDs, NoID

(* A handle on a slot belongs to one half of one key.                      *)
LEMMA HandleDecides ==
    ASSUME NEW m \in [Places -> Nat], NEW x, NEW i \in OldIDs(m), NEW class \in {"private", "public"},
           ObjectOK(x, m), x.place \in Slots, i[1] = x.place, x.handle = HandleOf(class, i[2])
    PROVE  x.class = class /\ x.id = i
<1>1. x.id \in Places \X Nat /\ i \in Places \X Nat /\ x.id[1] = i[1]
  BY DEF ObjectOK, OldIDs
<1>2. x.id[2] \in Nat /\ i[2] \in Nat
  BY <1>1
<1>3. x.class \in {"private", "public"} /\ x.handle = HandleOf(x.class, x.id[2])
  BY DEF ObjectOK
<1>4. x.class = class /\ x.id[2] = i[2]
  BY <1>2, <1>3 DEF HandleOf
<1> QED
  BY <1>1, <1>4

(* What others have seen stays true when objects are destroyed, when new   *)
(* ones come with new ids, and in other places than slots.                 *)
LEMMA CallKept ==
    ASSUME NEW m, NEW S, NEW T, NEW h, NEW k, NEW o, CallType(o, m), KeyCall(S, h, o), h \subseteq k,
           \A x \in T : x \in S \/ x.place \notin Slots \/ x.id \notin OldIDs(m)
    PROVE  KeyCall(T, k, o)
<1> SUFFICES ASSUME Removal(S, h, o), Destroying(S, h, o) PROVE Destroying(T, k, o)
  BY Zenon DEF KeyCall, Removal
<1>1. o.place \in Slots /\ o.id \in OldIDs(m)
  BY DEF Removal, Destroying, CallType, KnownIDs
<1>2. \A class : Absent(S, o, class) => Absent(T, o, class)
  BY <1>1, Zenon DEF Absent
<1>3. \A class : Seen(S, h, o, class) => Seen(T, k, o, class)
  BY <1>2 DEF Seen
<1> QED
  BY <1>2, <1>3 DEF Destroying

(* The files and the ids that are gone.                                    *)
IdsStep ==
    /\ \A f \in files' : f \in files \/ FileOK(f, made')
    /\ \A g \in gone' : g \in gone \/ g[2] \in KnownIDs(made')

(* The number of keys made does not shrink.                                *)
MadeStep == made' \in [Places -> Nat] /\ \A p \in Places : made[p] <= made'[p]

(* The objects on slots are the same and the call of u becomes n.          *)
SlotsSame == \A x : x.place \in Slots => (x \in objects <=> x \in objects')

(* The ids that are known, and the calls of the others.                    *)
LEMMA OthersKept ==
    ASSUME PairInv, NEW u \in Users, NEW n, Becomes(u, n), CallType(n, made'), KeyCall(objects', hit', n),
           MadeStep, IdsStep, hit \subseteq hit',
           \A x \in objects' : x \in objects \/ x.place \notin Slots \/ x.id \notin OldIDs(made)
    PROVE  IdsOK' /\ PairCalls'
<1>1. OldIDs(made) \subseteq OldIDs(made') /\ KnownIDs(made) \subseteq KnownIDs(made')
  BY KnownGrow DEF MadeStep, PairInv, ObjectsOK
<1>2. ASSUME NEW v \in Users
      PROVE  CallType(op'[v], made') /\ KeyCall(objects', hit', op'[v])
  <2>1. CASE v = u
    BY <2>1 DEF Becomes
  <2>2. CASE v # u
    <3>1. op'[v] = op[v] /\ CallType(op[v], made) /\ KeyCall(objects, hit, op[v])
      BY <2>2 DEF Becomes, PairInv, PairCalls
    <3>2. KeyCall(objects', hit', op[v])
      BY <3>1, CallKept
    <3>3. CallType(op[v], made')
      <4>1. op[v].queue \in Seq(OldIDs(made'))
        BY <1>1, <3>1 DEF CallType
      <4> QED
        BY <1>1, <3>1, <4>1 DEF CallType
    <3> QED
      BY <3>1, <3>2, <3>3
  <2> QED
    BY <2>1, <2>2
<1>3. PairCalls'
  <2>1. DOMAIN op' = Users
    BY DEF Becomes, PairInv, PairCalls
  <2> QED
    BY <1>2, <2>1 DEF PairCalls, CallType, KeyCall, Removal, Ordinary, Destroying, Seen, Absent, Idle, Call
<1>4. IdsOK'
  <2>1. \A f : FileOK(f, made) => FileOK(f, made')
    BY <1>1 DEF FileOK
  <2>2. (\A f \in files' : FileOK(f, made')) /\ (\A g \in gone' : g[2] \in KnownIDs(made'))
    BY <1>1, <2>1 DEF IdsStep, PairInv, IdsOK
  <2> QED
    BY <2>2 DEF IdsOK, FileOK
<1> QED
  BY <1>3, <1>4

(* Nothing changes on the slots, and if u was destroying a public half the *)
(* token has failed.                                                       *)
LEMMA SlotsKept ==
    ASSUME PairInv, NEW u \in Users, NEW n, Becomes(u, n), CallType(n, made'), KeyCall(objects', hit', n),
           MadeStep, IdsStep, hit \subseteq hit', SlotsSame,
           IsFiniteSet(objects'), \A x \in objects' : ObjectOK(x, made'),
           \A g \in gone' : g \in gone \/ g[1] \notin Slots,
           \A x \in objects : x.place \in Slots /\ Removing(u, x) => x.id \in hit'
    PROVE  PairInv'
<1>1. IdsOK' /\ PairCalls'
  BY OthersKept DEF SlotsSame
<1>2. ObjectsOK'
  <2>1. \A x, y \in objects' : x.place \in Slots /\ x.place = y.place /\ x.handle = y.handle => x = y
    BY DEF SlotsSame, PairInv, ObjectsOK
  <2> QED
    BY <2>1 DEF ObjectsOK, MadeStep, ObjectOK
<1>3. ASSUME NEW x \in objects', x.place \in Slots, x.id \notin hit'
      PROVE  /\ <<x.place, x.id>> \notin gone'
             /\ \/ \E y \in objects' : y.id = x.id /\ y.class # x.class
                \/ x.class = "public" /\ \E v \in Users : Removing(v, x)'
  <2>1. x \in objects /\ x.id \notin hit
    BY <1>3 DEF SlotsSame
  <2>2. /\ <<x.place, x.id>> \notin gone
        /\ \/ \E y \in objects : y.id = x.id /\ y.class # x.class
           \/ x.class = "public" /\ \E v \in Users : Removing(v, x)
    BY <1>3, <2>1 DEF PairInv, PairsWhole
  <2>3. <<x.place, x.id>> \notin gone'
    BY <1>3, <2>2
  <2>4. ASSUME NEW y \in objects, y.id = x.id
        PROVE  y \in objects'
    <3>1. y.place = x.place
      BY <2>1, <2>4 DEF PairInv, ObjectsOK, ObjectOK
    <3> QED
      BY <1>3, <3>1 DEF SlotsSame
  <2>5. ASSUME NEW v \in Users, Removing(v, x)
        PROVE  Removing(v, x)'
    <3>1. v # u
      BY <1>3, <2>1, <2>5
    <3>2. op'[v] = op[v]
      BY <3>1 DEF Becomes
    <3> QED
      BY <2>5, <3>2 DEF Removing, At
  <2> QED
    BY <2>2, <2>3, <2>4, <2>5
<1>4. PairsWhole'
  BY <1>3, Zenon DEF PairsWhole
<1> QED
  BY <1>1, <1>2, <1>4 DEF PairInv

(* C_GenerateKeyPair has made both halves of a new key on a slot.          *)
LEMMA PairMade ==
    ASSUME PairInv, NEW u \in Users, NEW n, Becomes(u, n), CallType(n, made'), KeyCall(objects', hit', n),
           NEW p \in Slots, made' = OneMore(made, p), UNCHANGED <<gone, hit, files>>,
           NEW a, NEW b, objects' = objects \cup {a, b}, ObjectFields \subseteq DOMAIN a, ObjectFields \subseteq DOMAIN b,
           a.place = p, b.place = p, a.id = NewIDOf(made, p), b.id = NewIDOf(made, p),
           a.class = "private", b.class = "public",
           a.handle = HandleOf("private", made[p] + 1), b.handle = HandleOf("public", made[p] + 1),
           ~At(u, "rmpublic")
    PROVE  PairInv'
<1> DEFINE id == NewIDOf(made, p)
<1>1. made \in [Places -> Nat] /\ p \in Places
  BY DEF PairInv, ObjectsOK, Places
<1>2. /\ MadeStep
      /\ id \in OldIDs(made') /\ id \notin OldIDs(made) /\ id \notin KnownIDs(made)
  BY <1>1, NewID DEF MadeStep
<1>3. id[1] = p /\ id[2] = made[p] + 1
  BY DEF NewIDOf
<1> HIDE DEF id
<1>i. a.id = id /\ b.id = id
  BY DEF id
<1>4. ObjectOK(a, made') /\ ObjectOK(b, made')
  BY <1>1, <1>2, <1>3, <1>i DEF ObjectOK
<1>5. \A x \in objects : ObjectOK(x, made')
  <2>1. OldIDs(made) \subseteq OldIDs(made')
    BY <1>1, <1>2, KnownGrow DEF MadeStep
  <2> QED
    BY <2>1 DEF PairInv, ObjectsOK, ObjectOK
<1>6. ASSUME NEW x \in objects, x.place = p
      PROVE  x.handle # HandleOf("private", made[p] + 1) /\ x.handle # HandleOf("public", made[p] + 1)
  <2>1. x.id # id
    BY <1>2 DEF PairInv, ObjectsOK, ObjectOK
  <2> QED
    BY <1>1, <1>2, <1>3, <1>5, <1>6, <2>1, HandleDecides DEF MadeStep
<1>7. IdsOK' /\ PairCalls'
  <2>1. \A x \in objects' : x \in objects \/ x.id \notin OldIDs(made)
    BY <1>2, <1>i
  <2> QED
    BY <1>2, <2>1, OthersKept DEF IdsStep
<1>8. ObjectsOK'
  <2>1. IsFiniteSet(objects')
    <3>1. IsFiniteSet(objects \cup {a})
      BY FS_AddElement DEF PairInv, ObjectsOK
    <3>2. IsFiniteSet((objects \cup {a}) \cup {b})
      BY <3>1, FS_AddElement
    <3> QED
      BY <3>2
  <2>2. a.handle # b.handle
    BY <1>1 DEF HandleOf
  <2>3. \A x, y \in objects' : x.place \in Slots /\ x.place = y.place /\ x.handle = y.handle => x = y
    BY <1>6, <2>2 DEF PairInv, ObjectsOK
  <2>4. \A x \in objects' : ObjectOK(x, made')
    BY <1>4, <1>5
  <2> QED
    BY <1>2, <2>1, <2>3, <2>4 DEF ObjectsOK, MadeStep, ObjectOK
<1>9. ASSUME NEW x \in objects', x.place \in Slots, x.id \notin hit'
      PROVE  /\ <<x.place, x.id>> \notin gone'
             /\ \/ \E y \in objects' : y.id = x.id /\ y.class # x.class
                \/ x.class = "public" /\ \E v \in Users : Removing(v, x)'
  <2>1. CASE x \in objects
    <3>1. /\ <<x.place, x.id>> \notin gone
          /\ \/ \E y \in objects : y.id = x.id /\ y.class # x.class
             \/ x.class = "public" /\ \E v \in Users : Removing(v, x)
      BY <1>9, <2>1 DEF PairInv, PairsWhole
    <3>2. ASSUME NEW v \in Users, Removing(v, x)
          PROVE  Removing(v, x)'
      <4>1. v # u
        BY <3>2 DEF Removing
      <4>2. op'[v] = op[v]
        BY <4>1 DEF Becomes
      <4> QED
        BY <3>2, <4>2 DEF Removing, At
    <3> QED
      BY <3>1, <3>2
  <2>2. CASE x \in {a, b}
    <3>1. \A g \in gone : g[2] # id
      BY <1>2 DEF PairInv, IdsOK
    <3>2. <<x.place, x.id>>[2] = id
      BY <1>i, <2>2
    <3>3. <<x.place, x.id>> \notin gone'
      BY <3>1, <3>2
    <3>4. \E y \in objects' : y.id = x.id /\ y.class # x.class
      BY <1>i, <2>2
    <3> QED
      BY <3>3, <3>4
  <2> QED
    BY <2>1, <2>2
<1>10. PairsWhole'
  BY <1>9, Zenon DEF PairsWhole
<1> QED
  BY <1>7, <1>8, <1>10 DEF PairInv

(* A half x of the key of u is destroyed, or found to be gone already (S   *)
(* is {} then), and its key is on the way out: the private half goes when  *)
(* u is about to destroy the public one, which goes last.                  *)
LEMMA HalfGone ==
    ASSUME PairInv, NEW u \in Users, NEW n, Becomes(u, n), CallType(n, made), KeyCall(objects', hit, n),
           NEW id \in OldIDs(made), NEW p \in Slots, NEW S, objects' = objects \ S,
           \A x \in S : x.place = p /\ x.id = id,
           UNCHANGED <<made, hit, files>>,
           \A g \in gone' : g \in gone \/ g = <<p, id>>,
           \/ id \in hit
           \/ /\ gone' = gone
              /\ \A x \in objects' : x.place = p /\ x.id = id => x.class = "public" /\ Removing(u, x)'
           \/ \A x \in objects' : x.place = p => x.id # id,
           \A x \in objects : x.place \in Slots /\ Removing(u, x) => x.place = p /\ x.id = id
    PROVE  PairInv'
<1>1. MadeStep /\ IdsStep
  <2>1. \A g : g = <<p, id>> => g[2] = id
    OBVIOUS
  <2> QED
    BY <2>1 DEF MadeStep, IdsStep, PairInv, ObjectsOK, KnownIDs
<1>2. IdsOK' /\ PairCalls'
  BY <1>1, OthersKept
<1>3. ObjectsOK'
  <2>1. IsFiniteSet(objects')
    BY FS_Subset DEF PairInv, ObjectsOK
  <2>2. \A x \in objects' : ObjectOK(x, made')
    BY DEF PairInv, ObjectsOK
  <2>3. \A x, y \in objects' : x.place \in Slots /\ x.place = y.place /\ x.handle = y.handle => x = y
    BY DEF PairInv, ObjectsOK
  <2> QED
    BY <1>1, <2>1, <2>2, <2>3 DEF ObjectsOK, MadeStep, ObjectOK
<1>4. ASSUME NEW x \in objects', x.place \in Slots, x.id \notin hit'
      PROVE  /\ <<x.place, x.id>> \notin gone'
             /\ \/ \E y \in objects' : y.id = x.id /\ y.class # x.class
                \/ x.class = "public" /\ \E v \in Users : Removing(v, x)'
  <2>1. x \in objects /\ ObjectOK(x, made) /\ x.id \notin hit
    BY <1>4 DEF PairInv, ObjectsOK
  <2>2. /\ <<x.place, x.id>> \notin gone
        /\ \/ \E y \in objects : y.id = x.id /\ y.class # x.class
           \/ x.class = "public" /\ \E v \in Users : Removing(v, x)
    BY <1>4, <2>1 DEF PairInv, PairsWhole
  <2>3. CASE x.place = p /\ x.id = id
    BY <1>4, <2>1, <2>2, <2>3
  <2>4. CASE ~(x.place = p /\ x.id = id)
    <3>1. <<x.place, x.id>> \notin gone'
      BY <2>2, <2>4
    <3>2. ASSUME NEW y \in objects, y.id = x.id
          PROVE  y \in objects'
      <4>1. y.place = x.place
        BY <2>1, <3>2 DEF PairInv, ObjectsOK, ObjectOK
      <4> QED
        BY <2>4, <3>2, <4>1
    <3>3. ASSUME NEW v \in Users, Removing(v, x)
          PROVE  Removing(v, x)'
      <4>1. v # u
        BY <1>4, <2>1, <2>4, <3>3
      <4>2. op'[v] = op[v]
        BY <4>1 DEF Becomes
      <4> QED
        BY <3>3, <4>2 DEF Removing, At
    <3> QED
      BY <2>2, <3>1, <3>2, <3>3
  <2> QED
    BY <2>3, <2>4
<1>5. PairsWhole'
  BY <1>4, Zenon DEF PairsWhole
<1> QED
  BY <1>2, <1>3, <1>5 DEF PairInv

-----------------------------------------------------------------------------
(* The calls that destroy nothing on a slot.                               *)

(* No call.                                                                *)
LEMMA IdlePair == Ordinary(Idle) /\ \A m : CallType(Idle, m)
<1>1. Idle.todo = <<>> /\ Idle.place = CurrentSlot /\ Idle.id = NoID /\ Idle.queue = <<>>
      /\ DOMAIN Idle.handle = {"private", "public"}
  BY DEF Idle, Call
<1>2. \A S : <<>> \in Seq(S)
  BY EmptySeq
<1> QED
  BY <1>1, <1>2, SlotsAssumption DEF Ordinary, CallType, KnownIDs

(* What is left of such a call is such a call.                             *)
LEMMA OrdinaryFollows ==
    ASSUME NEW o, NEW n, Ordinary(o), o.todo # <<>>, n.place = o.place, n.todo \in {o.todo, Tail(o.todo)}
    PROVE  Ordinary(n)
<1>1. \A S : o.todo \in Seq(S) => Tail(o.todo) \in Seq(S)
  BY HeadTailProperties
<1>2. CASE o.todo \in Listing
  <2>1. Tail(<<"list", "enum">>) = <<"enum">> /\ Tail(<<"enum">>) = <<>> /\ <<>> \in Seq(OnSlot)
    BY EmptySeq
  <2> QED
    BY <1>1, <1>2, <2>1 DEF Ordinary, Listing
<1>3. CASE o.todo \notin Listing
  BY <1>1, <1>3 DEF Ordinary
<1> QED
  BY <1>2, <1>3

(* Where its next function may be called.                                  *)
LEMMA OrdinaryHead ==
    ASSUME NEW o, Ordinary(o), o.todo # <<>>
    PROVE  \/ o.place \in Slots /\ Head(o.todo) \in OnSlot
           \/ o.place \in Slots /\ o.todo \in Listing /\ Head(o.todo) \in {"list", "enum"}
           \/ o.place \in Stores
           \/ Head(o.todo) \in Anywhere
<1>1. \A S : o.todo \in Seq(S) => Head(o.todo) \in S
  BY HeadTailProperties
<1>2. Head(<<"list", "enum">>) = "list" /\ Head(<<"enum">>) = "enum"
  OBVIOUS
<1> QED
  BY <1>1, <1>2 DEF Ordinary, Listing

(* The fields of a call.                                                   *)
LEMMA CallDomain ==
    {"todo", "place", "id", "label", "typ", "uses", "handle", "pub", "lenient", "list", "queue", "file", "job"} = DOMAIN Idle
  BY DEF Idle, Call

(* q differs from o in what does not matter here.                          *)
SameKeys(o, q, m) == CallType(q, m) /\ q.place = o.place /\ q.todo = o.todo

(* The fields the functions assign.                                        *)
LEMMA AssignedKeys ==
    \A o, m, class, a, b, c : CallType(o, m) =>
       /\ SameKeys(o, o, m)
       /\ SameKeys(o, [o EXCEPT !.handle[class] = a], m)
       /\ SameKeys(o, [o EXCEPT !.handle = [private |-> a, public |-> b]], m)
       /\ SameKeys(o, [o EXCEPT !.typ = a], m)
       /\ SameKeys(o, [o EXCEPT !.pub = a], m)
       /\ SameKeys(o, [o EXCEPT !.list = a], m)
       /\ SameKeys(o, [o EXCEPT !.job = a], m)
       /\ SameKeys(o, [o EXCEPT !.job[1].cert = a], m)
       /\ a \in KnownIDs(m) => SameKeys(o, [o EXCEPT !.id = a, !.label = b], m)
       /\ a \in KnownIDs(m) => SameKeys(o, [o EXCEPT !.id = a, !.label = b, !.lenient = c], m)
       /\ a \in KnownIDs(m) /\ b \in Seq(OldIDs(m)) => SameKeys(o, [o EXCEPT !.id = a, !.queue = b], m)
       /\ b \in Seq(OldIDs(m)) => SameKeys(o, [o EXCEPT !.list = a, !.queue = b], m)
<1> SUFFICES ASSUME NEW o, NEW m, NEW class, NEW a, NEW b, NEW c, CallType(o, m)
             PROVE  /\ SameKeys(o, o, m)
                    /\ SameKeys(o, [o EXCEPT !.handle[class] = a], m)
                    /\ SameKeys(o, [o EXCEPT !.handle = [private |-> a, public |-> b]], m)
                    /\ SameKeys(o, [o EXCEPT !.typ = a], m)
                    /\ SameKeys(o, [o EXCEPT !.pub = a], m)
                    /\ SameKeys(o, [o EXCEPT !.list = a], m)
                    /\ SameKeys(o, [o EXCEPT !.job = a], m)
                    /\ SameKeys(o, [o EXCEPT !.job[1].cert = a], m)
                    /\ a \in KnownIDs(m) => SameKeys(o, [o EXCEPT !.id = a, !.label = b], m)
                    /\ a \in KnownIDs(m) => SameKeys(o, [o EXCEPT !.id = a, !.label = b, !.lenient = c], m)
                    /\ a \in KnownIDs(m) /\ b \in Seq(OldIDs(m)) => SameKeys(o, [o EXCEPT !.id = a, !.queue = b], m)
                    /\ b \in Seq(OldIDs(m)) => SameKeys(o, [o EXCEPT !.list = a, !.queue = b], m)
  BY Zenon
<1>1. {"todo", "place", "id", "handle", "queue", "job", "typ", "pub", "list", "label", "lenient"} \subseteq DOMAIN o
      /\ DOMAIN o = DOMAIN Idle /\ DOMAIN o.handle = {"private", "public"} /\ o.id \in KnownIDs(m)
      /\ o.queue \in Seq(OldIDs(m))
  BY CallDomain DEF CallType
<1>2. /\ SameKeys(o, o, m)
      /\ SameKeys(o, [o EXCEPT !.handle[class] = a], m)
      /\ SameKeys(o, [o EXCEPT !.handle = [private |-> a, public |-> b]], m)
  BY <1>1 DEF SameKeys, CallType
<1>3. /\ SameKeys(o, [o EXCEPT !.typ = a], m)
      /\ SameKeys(o, [o EXCEPT !.pub = a], m)
      /\ SameKeys(o, [o EXCEPT !.list = a], m)
      /\ SameKeys(o, [o EXCEPT !.job = a], m)
      /\ SameKeys(o, [o EXCEPT !.job[1].cert = a], m)
  BY <1>1 DEF SameKeys, CallType
<1>4. /\ a \in KnownIDs(m) => SameKeys(o, [o EXCEPT !.id = a, !.label = b], m)
      /\ a \in KnownIDs(m) => SameKeys(o, [o EXCEPT !.id = a, !.label = b, !.lenient = c], m)
  BY <1>1 DEF SameKeys, CallType
<1>5. /\ a \in KnownIDs(m) /\ b \in Seq(OldIDs(m)) => SameKeys(o, [o EXCEPT !.id = a, !.queue = b], m)
      /\ b \in Seq(OldIDs(m)) => SameKeys(o, [o EXCEPT !.list = a, !.queue = b], m)
  BY <1>1 DEF SameKeys, CallType
<1> QED
  BY <1>2, <1>3, <1>4, <1>5, Zenon

(* The call of u goes on as such a call.                                   *)
GoesOn(u) == \E n : Becomes(u, n) /\ CallType(n, made') /\ Ordinary(n)

(* It returns with an error.                                               *)
LEMMA FailsOn == \A u \in Users : DOMAIN op = Users /\ Fail(u) => GoesOn(u)
  BY Assign, IdlePair DEF Fail, GoesOn

(* It continues.                                                           *)
LEMMA ContinuesOn ==
    \A q : \A u \in Users :
       DOMAIN op = Users /\ Ordinary(op[u]) /\ op[u].todo # <<>> /\ SameKeys(op[u], q, made') /\ Continue(u, q)
          => GoesOn(u)
<1> SUFFICES ASSUME NEW q, NEW u \in Users, DOMAIN op = Users, Ordinary(op[u]), op[u].todo # <<>>,
                    SameKeys(op[u], q, made'), Continue(u, q)
             PROVE  GoesOn(u)
  OBVIOUS
<1> DEFINE r == [q EXCEPT !.todo = Tail(@)]
<1>1. {"todo", "place", "id", "handle", "queue"} \subseteq DOMAIN q
  BY CallDomain DEF SameKeys, CallType
<1>2. /\ DOMAIN r = DOMAIN q /\ r.todo = Tail(op[u].todo) /\ r.place = op[u].place
      /\ r.id = q.id /\ r.queue = q.queue /\ r.handle = q.handle
  BY <1>1 DEF SameKeys
<1>3. \E n \in {Idle, r} : op' = [op EXCEPT ![u] = n]
  BY DEF Continue
<1> HIDE DEF r
<1>4. CallType(r, made')
  BY <1>2 DEF SameKeys, CallType
<1>5. Ordinary(r)
  BY <1>2, OrdinaryFollows
<1> QED
  BY <1>3, <1>4, <1>5, Assign, IdlePair DEF GoesOn

(* Such a call removes no public half from a slot.                         *)
LEMMA NotRemoving ==
    ASSUME NEW u \in Users, Ordinary(op[u]), NEW x, x.place \in Slots
    PROVE  ~Removing(u, x)
<1> SUFFICES ASSUME At(u, "rmpublic"), op[u].place \in Slots PROVE FALSE
  BY Zenon DEF Removing
<1>1. op[u].todo # <<>> /\ Head(op[u].todo) = "rmpublic"
  BY DEF At
<1>2. op[u].place \notin Stores
  BY SlotsAssumption
<1>3. Head(op[u].todo) \in OnSlot \cup {"list", "enum"} \cup Anywhere
  BY <1>1, <1>2, OrdinaryHead
<1> QED
  BY <1>1, <1>3 DEF OnSlot, Anywhere

(* A step that leaves the keys alone.                                      *)
LEMMA QuietStep ==
    ASSUME PairInv, NEW u \in Users, Ordinary(op[u]),
           NEW n, Becomes(u, n), CallType(n, made), KeyCall(objects, hit, n),
           UNCHANGED <<objects, made, gone>>, hit \subseteq hit',
           \A f \in files' : f \in files \/ FileOK(f, made)
    PROVE  PairInv'
<1>1. MadeStep /\ IdsStep /\ SlotsSame
  BY DEF MadeStep, IdsStep, SlotsSame, PairInv, ObjectsOK
<1>2. KeyCall(objects', hit', n)
  BY CallKept
<1>3. CallType(n, made') /\ IsFiniteSet(objects') /\ \A x \in objects' : ObjectOK(x, made')
  BY DEF PairInv, ObjectsOK
<1>4. \A x \in objects : x.place \in Slots /\ Removing(u, x) => x.id \in hit'
  BY NotRemoving
<1>5. \A g \in gone' : g \in gone \/ g[1] \notin Slots
  OBVIOUS
<1> QED
  BY <1>1, <1>2, <1>3, <1>4, <1>5, SlotsKept

(* A step in a store.                                                      *)
LEMMA StoreStep ==
    ASSUME PairInv, NEW u \in Users, Ordinary(op[u]), GoesOn(u), MadeStep, IdsStep, SlotsSame, hit \subseteq hit',
           IsFiniteSet(objects'), \A x \in objects' : ObjectOK(x, made'),
           \A g \in gone' : g \in gone \/ g[1] \notin Slots
    PROVE  PairInv'
<1>1. PICK n : Becomes(u, n) /\ CallType(n, made') /\ Ordinary(n)
  BY DEF GoesOn
<1>2. KeyCall(objects', hit', n)
  BY <1>1 DEF KeyCall
<1>3. \A x \in objects : x.place \in Slots /\ Removing(u, x) => x.id \in hit'
  BY NotRemoving
<1> QED
  BY <1>1, <1>2, <1>3, SlotsKept

(* The functions that only read keys.                                      *)
Reading(u) ==
    /\ UNCHANGED <<objects, made, gone>> /\ hit \subseteq hit'
    /\ \A f \in files' : f \in files \/ FileOK(f, made)
    /\ GoesOn(u)

(* They keep the invariant.                                                *)
LEMMA ReadingStep == \A u \in Users : PairInv /\ Ordinary(op[u]) /\ Reading(u) => PairInv'
<1> SUFFICES ASSUME NEW u \in Users, PairInv, Ordinary(op[u]), Reading(u) PROVE PairInv'
  OBVIOUS
<1>1. PICK n : Becomes(u, n) /\ CallType(n, made') /\ Ordinary(n)
  BY DEF GoesOn, Reading
<1>2. CallType(n, made) /\ KeyCall(objects, hit, n)
  BY <1>1 DEF KeyCall, Reading
<1> QED
  BY <1>1, <1>2, QuietStep DEF Reading

(* The token works or fails.                                               *)
LEMMA HitGrows == \A u : NoFault \/ Fault(u) \/ KmsFault(u) \/ KeyFault(u) => hit \subseteq hit'
  BY DEF NoFault, Fault, KmsFault, KeyFault

(* EnumKeys has read the attributes of one more key.                       *)
EnumNext(u) ==
    /\ Becomes(u, op'[u]) /\ CallType(op'[u], made)
    /\ op'[u].todo = op[u].todo /\ op'[u].place = op[u].place /\ op'[u].typ = op[u].typ

(* That, or an error, is a step of EnumKeys.                               *)
LEMMA EnumeratedNext ==
    ASSUME PairInv, NEW u \in Users, EnumKeys(u)
    PROVE  EnumNext(u) \/ Fail(u)
<1>1. DOMAIN op = Users /\ CallType(op[u], made)
  BY DEF PairInv, PairCalls
<1>2. Fail(u) \/ \E x \in objects :
         op' = [op EXCEPT ![u].list = Tail(@),
                          ![u].queue = IF HasPrefix(x.label, op[u].label) THEN Append(@, x.id) ELSE @]
  BY Zenon DEF EnumKeys, Object
<1>3. ASSUME NEW x \in objects,
             op' = [op EXCEPT ![u].list = Tail(@),
                              ![u].queue = IF HasPrefix(x.label, op[u].label) THEN Append(@, x.id) ELSE @]
      PROVE  EnumNext(u)
  <2>1. DOMAIN op' = DOMAIN op /\ \A v \in Users \ {u} : op'[v] = op[v]
    BY <1>1, <1>3
  <2>2. {"list", "queue", "todo", "place", "typ", "id", "handle"} \subseteq DOMAIN op[u]
    BY <1>1, CallDomain DEF CallType
  <2>3. /\ DOMAIN op'[u] = DOMAIN op[u] /\ op'[u].todo = op[u].todo /\ op'[u].place = op[u].place
        /\ op'[u].typ = op[u].typ /\ op'[u].id = op[u].id /\ op'[u].handle = op[u].handle
        /\ op'[u].queue \in {op[u].queue, Append(op[u].queue, x.id)}
    BY <1>1, <1>3, <2>2
  <2>4. x.id \in OldIDs(made)
    BY DEF PairInv, ObjectsOK, ObjectOK
  <2>5. Append(op[u].queue, x.id) \in Seq(OldIDs(made)) /\ op[u].queue \in Seq(OldIDs(made))
    BY <1>1, <2>4 DEF CallType
  <2> QED
    BY <1>1, <2>1, <2>3, <2>5 DEF EnumNext, Becomes, CallType
<1> QED
  BY <1>2, <1>3

(* The functions of a token that read.                                     *)
LEMMA TokenReads ==
    ASSUME PairInv, NEW u \in Users, Ordinary(op[u]), op[u].todo # <<>>, files' = files,
           \/ \E class \in {"private", "public"} : findKey(u, class)
           \/ GetKeyType(u) \/ ExportPublicKey(u) \/ Identify(u) \/ GetInfo(u) \/ ListKeys(u) \/ EnumKeys(u)
    PROVE  PairInv'
<1>1. DOMAIN op = Users /\ CallType(op[u], made)
  BY DEF PairInv, PairCalls
<1>2. UNCHANGED <<objects, made, gone>>
  BY Zenon DEF findKey, GetKeyType, ExportPublicKey, Identify, GetInfo, ListKeys, EnumKeys
<1>m. made' = made
  BY <1>2
<1>c. \A q : SameKeys(op[u], q, made) /\ Continue(u, q) => GoesOn(u)
  BY <1>1, <1>m, ContinuesOn
<1>f. Fail(u) => GoesOn(u)
  BY <1>1, FailsOn
<1>a. /\ SameKeys(op[u], op[u], made)
      /\ \A class, a : SameKeys(op[u], [op[u] EXCEPT !.handle[class] = a], made)
      /\ \A a : SameKeys(op[u], [op[u] EXCEPT !.typ = a], made)
      /\ \A a : SameKeys(op[u], [op[u] EXCEPT !.pub = a], made)
      /\ \A a : SameKeys(op[u], [op[u] EXCEPT !.list = a], made)
      /\ \A a \in KnownIDs(made) : \A b, c : SameKeys(op[u], [op[u] EXCEPT !.id = a, !.label = b, !.lenient = c], made)
  BY <1>1, AssignedKeys, Zenon
<1>x. \A x \in objects : x.id \in OldIDs(made) /\ x.id \in KnownIDs(made)
  BY DEF PairInv, ObjectsOK, ObjectOK, KnownIDs
<1>h. \A class : Lost(u, class) => NoFault \/ Fault(u)
  BY DEF Lost
<1>3. CASE \E class \in {"private", "public"} : findKey(u, class)
  <2>1. (\E class, h : Continue(u, [op[u] EXCEPT !.handle[class] = h])) \/ NotFound(u)
    BY <1>3, Zenon DEF findKey
  <2>2. NoFault \/ Fault(u)
    BY <1>3, Zenon DEF findKey
  <2>3. GoesOn(u)
    BY <1>a, <1>c, <1>f, <2>1, Zenon DEF NotFound
  <2> QED
    BY <1>2, <2>2, <2>3, HitGrows, ReadingStep DEF Reading
<1>4. CASE GetKeyType(u)
  <2>1. (\E t : Continue(u, [op[u] EXCEPT !.typ = t])) \/ Fail(u)
    BY <1>4, Zenon DEF GetKeyType
  <2>2. NoFault \/ Fault(u)
    BY <1>4, <1>h, Zenon DEF GetKeyType
  <2>3. GoesOn(u)
    BY <1>a, <1>c, <1>f, <2>1, Zenon
  <2> QED
    BY <1>2, <2>2, <2>3, HitGrows, ReadingStep DEF Reading
<1>5. CASE ExportPublicKey(u)
  <2>1. (\E p : Continue(u, [op[u] EXCEPT !.pub = p])) \/ Fail(u)
    BY <1>5, Zenon DEF ExportPublicKey
  <2>2. NoFault \/ Fault(u)
    BY <1>5, <1>h, Zenon DEF ExportPublicKey
  <2>3. GoesOn(u)
    BY <1>a, <1>c, <1>f, <2>1, Zenon
  <2> QED
    BY <1>2, <2>2, <2>3, HitGrows, ReadingStep DEF Reading
<1>6. CASE Identify(u)
  <2>1. (\E i \in KnownIDs(made) : Continue(u, [op[u] EXCEPT !.id = i, !.label = NoLabel, !.lenient = FALSE])) \/ Fail(u)
    <3>1. (\E x \in objects : Continue(u, [op[u] EXCEPT !.id = x.id, !.label = NoLabel, !.lenient = FALSE])) \/ Fail(u)
      BY <1>6, Zenon DEF Identify, Object
    <3> QED
      BY <1>x, <3>1, Zenon
  <2>2. NoFault \/ Fault(u)
    BY <1>6, <1>h, Zenon DEF Identify
  <2>3. GoesOn(u)
    BY <1>a, <1>c, <1>f, <2>1, Zenon
  <2> QED
    BY <1>2, <2>2, <2>3, HitGrows, ReadingStep DEF Reading
<1>7. CASE GetInfo(u)
  <2>1. (Continue(u, op[u]) \/ Fail(u)) /\ (NoFault \/ Fault(u))
    BY <1>7, Zenon DEF GetInfo
  <2>2. GoesOn(u)
    BY <1>a, <1>c, <1>f, <2>1, Zenon
  <2> QED
    BY <1>2, <2>1, <2>2, HitGrows, ReadingStep DEF Reading
<1>8. CASE ListKeys(u)
  <2>1. (\E l : Continue(u, [op[u] EXCEPT !.list = l])) \/ Fail(u)
    BY <1>8, Zenon DEF ListKeys
  <2>2. NoFault \/ Fault(u)
    BY <1>8, Zenon DEF ListKeys
  <2>3. GoesOn(u)
    BY <1>a, <1>c, <1>f, <2>1, Zenon
  <2> QED
    BY <1>2, <2>2, <2>3, HitGrows, ReadingStep DEF Reading
<1>9. CASE EnumKeys(u)
  <2>1. NoFault \/ Fault(u)
    BY <1>9, Zenon DEF EnumKeys
  <2>2. Fail(u) \/ EnumNext(u)
    BY <1>9, EnumeratedNext
  <2>3. EnumNext(u) => GoesOn(u)
    BY <1>1, <1>m, OrdinaryFollows, Zenon DEF EnumNext, GoesOn
  <2>4. GoesOn(u)
    BY <1>f, <2>2, <2>3
  <2> QED
    BY <1>2, <2>1, <2>4, HitGrows, ReadingStep DEF Reading
<1> QED
  BY <1>3, <1>4, <1>5, <1>6, <1>7, <1>8, <1>9

(* Calls know as much when keys are made.                                  *)
LEMMA TypeGrows ==
    ASSUME NEW m \in [Places -> Nat], NEW k \in [Places -> Nat], \A p \in Places : m[p] <= k[p],
           NEW o, CallType(o, m)
    PROVE  CallType(o, k)
<1>1. OldIDs(m) \subseteq OldIDs(k) /\ KnownIDs(m) \subseteq KnownIDs(k)
  BY KnownGrow
<1>2. o.queue \in Seq(OldIDs(k))
  BY <1>1 DEF CallType
<1> QED
  BY <1>1, <1>2 DEF CallType

(* Keys are made in a store.                                               *)
LEMMA MadeInStore ==
    ASSUME PairInv, NEW u \in Users, Ordinary(op[u]), GoesOn(u), NEW p \in Stores, made' = OneMore(made, p),
           NEW N, IsFiniteSet(N), objects' = objects \cup N,
           \A x \in N : ObjectFields \subseteq DOMAIN x /\ x.place = p /\ x.id = NewIDOf(made, p),
           UNCHANGED <<gone, hit, files>>
    PROVE  PairInv'
<1>1. made \in [Places -> Nat] /\ p \in Places /\ p \notin Slots
  BY SlotsAssumption DEF PairInv, ObjectsOK, Places
<1>2. MadeStep /\ NewIDOf(made, p) \in OldIDs(made')
  BY <1>1, NewID DEF MadeStep
<1>3. NewIDOf(made, p)[1] = p
  BY DEF NewIDOf
<1>4. IsFiniteSet(objects')
  BY FS_Union DEF PairInv, ObjectsOK
<1>5. OldIDs(made) \subseteq OldIDs(made')
  BY <1>1, <1>2, KnownGrow DEF MadeStep
<1>6. \A x \in objects : ObjectOK(x, made')
  BY <1>5 DEF PairInv, ObjectsOK, ObjectOK
<1>7. \A x \in N : ObjectOK(x, made')
  BY <1>1, <1>2, <1>3 DEF ObjectOK
<1>8. SlotsSame /\ IdsStep
  BY <1>1 DEF SlotsSame, IdsStep
<1>9. \A x \in objects' : ObjectOK(x, made')
  BY <1>6, <1>7
<1> QED
  BY <1>2, <1>4, <1>8, <1>9, StoreStep

(* C_GenerateKeyPair.                                                      *)
LEMMA GenerateStep ==
    ASSUME PairInv, NEW u \in Users, Ordinary(op[u]), op[u].todo # <<>>, files' = files, GenerateKeyPair(u)
    PROVE  PairInv'
<1> DEFINE o == op[u]
           p == op[u].place
           n == made[p] + 1
           id == generateKeyID(p)
           a == Half(o, "private", id, 2 * n - 1)
           b == Half(o, "public", id, 2 * n)
           h == [private |-> 2 * n - 1, public |-> 2 * n]
<1>1. DOMAIN op = Users /\ CallType(op[u], made) /\ made \in [Places -> Nat]
  BY DEF PairInv, PairCalls, ObjectsOK
<1>2. gone' = gone /\ Head(op[u].todo) = "generate"
  BY DEF GenerateKeyPair, At
<1>3. p \in Places
  BY <1>2, OrdinaryHead DEF Places, Anywhere
<1>4. CASE Fail(u) /\ UNCHANGED <<objects, made>> /\ hit \subseteq hit'
  <2>1. GoesOn(u)
    BY <1>1, <1>4, FailsOn
  <2> QED
    BY <1>2, <1>4, <2>1, ReadingStep DEF Reading
<1>5. CASE /\ NoFault /\ objects' = objects \cup {a, b} /\ made' = [made EXCEPT ![p] = n]
           /\ Continue(u, [o EXCEPT !.handle = h])
  <2>1. made' = OneMore(made, p) /\ id = NewIDOf(made, p)
    BY <1>5 DEF OneMore, NewIDOf, generateKeyID
  <2>2. MadeStep
    BY <1>1, <1>3, <2>1, NewID DEF MadeStep
  <2>3. CallType(op[u], made')
    BY <1>1, <2>2, TypeGrows DEF MadeStep
  <2>4. SameKeys(op[u], [op[u] EXCEPT !.handle = h], made')
    BY <2>3, AssignedKeys, Zenon
  <2>5. GoesOn(u)
    BY <1>1, <1>5, <2>4, ContinuesOn, Zenon
  <2>6. /\ a.place = p /\ b.place = p /\ a.id = id /\ b.id = id /\ a.class = "private" /\ b.class = "public"
        /\ a.handle = 2 * n - 1 /\ b.handle = 2 * n
        /\ ObjectFields \subseteq DOMAIN a /\ ObjectFields \subseteq DOMAIN b
    BY DEF Half, ObjectFields
  <2>7. objects' = objects \cup {a, b} /\ hit' = hit
    BY <1>5 DEF NoFault
  <2>8. ~At(u, "rmpublic")
    BY <1>2 DEF At
  <2>9. a.handle = HandleOf("private", made[p] + 1) /\ b.handle = HandleOf("public", made[p] + 1)
    BY <2>6 DEF HandleOf
  <2> HIDE DEF a, b, id
  <2>10. CASE p \in Slots
    <3>1. PICK q : Becomes(u, q) /\ CallType(q, made') /\ Ordinary(q)
      BY <2>5 DEF GoesOn
    <3>2. KeyCall(objects', hit', q)
      BY <3>1 DEF KeyCall
    <3> QED
      BY <1>2, <2>1, <2>6, <2>7, <2>8, <2>9, <2>10, <3>1, <3>2, PairMade
  <2>11. CASE p \in Stores
    <3> DEFINE N == {a, b}
    <3>1. IsFiniteSet(N)
      <4>1. IsFiniteSet({a}) /\ {a} \cup {b} = N
        BY FS_Singleton
      <4> QED
        BY <4>1, FS_AddElement
    <3>2. objects' = objects \cup N
          /\ \A x \in N : ObjectFields \subseteq DOMAIN x /\ x.place = p /\ x.id = NewIDOf(made, p)
      BY <2>1, <2>6, <2>7
    <3> HIDE DEF N
    <3> QED
      BY <1>2, <2>1, <2>5, <2>7, <2>11, <3>1, <3>2, MadeInStore
  <2> QED
    BY <1>3, <2>10, <2>11 DEF Places
<1> QED
  <2>1. (Fail(u) /\ UNCHANGED <<objects, made>> /\ (NoFault \/ Fault(u))) \/
        (NoFault /\ objects' = objects \cup {a, b} /\ made' = [made EXCEPT ![p] = n] /\ Continue(u, [o EXCEPT !.handle = h]))
    BY Zenon DEF GenerateKeyPair
  <2> QED
    BY <1>4, <1>5, <2>1, HitGrows, Zenon

(* The call n turns from o to the next key to be destroyed.                *)
TurnsTo(o, n, m) ==
    /\ CallType(n, m) /\ n.place = o.place /\ n.typ = o.typ /\ n.todo = DestroyKeyPairOnSlot
    /\ n.id \in OldIDs(m) /\ n.id # NoID /\ n.label = NoLabel /\ n.lenient
    /\ n.handle = [private |-> 0, public |-> 0]

(* So does destroyKeys.                                                    *)
LEMMA NextCall == \A o, m : CallType(o, m) /\ o.queue # <<>> => TurnsTo(o, DestroyNext(o), m)
<1> SUFFICES ASSUME NEW m, NEW o, CallType(o, m), o.queue # <<>>, NEW n, n = DestroyNext(o)
             PROVE  TurnsTo(o, n, m)
  BY Zenon
<1>1. {"todo", "place", "id", "handle", "queue", "typ", "label", "lenient"} \subseteq DOMAIN o
  BY CallDomain DEF CallType
<1>2. /\ DOMAIN n = DOMAIN o /\ n.todo = DestroyKeyPairOnSlot /\ n.id = Head(o.queue) /\ n.queue = Tail(o.queue)
      /\ n.label = NoLabel /\ n.lenient /\ n.handle = [private |-> 0, public |-> 0]
      /\ n.place = o.place /\ n.typ = o.typ
  BY <1>1 DEF DestroyNext
<1>3. Head(o.queue) \in OldIDs(m) /\ Tail(o.queue) \in Seq(OldIDs(m))
  BY HeadTailProperties DEF CallType
<1>4. DOMAIN n.handle = {"private", "public"}
  BY <1>2
<1>5. CallType(n, m)
  BY <1>2, <1>3, <1>4 DEF CallType, KnownIDs
<1> QED
  BY <1>2, <1>3, <1>5, NoOldID DEF TurnsTo

(* destroyKeys in a store.                                                 *)
LEMMA NextInStore ==
    \A u \in Users :
       /\ DOMAIN op = Users /\ CallType(op[u], made) /\ made' = made /\ op[u].place \in Stores /\ op[u].queue # <<>>
       /\ op' = [op EXCEPT ![u] = DestroyNext(op[u])]
       => GoesOn(u)
<1> SUFFICES ASSUME NEW u \in Users, DOMAIN op = Users, CallType(op[u], made), made' = made, op[u].place \in Stores,
                    op[u].queue # <<>>, op' = [op EXCEPT ![u] = DestroyNext(op[u])]
             PROVE  GoesOn(u)
  OBVIOUS
<1>1. TurnsTo(op[u], DestroyNext(op[u]), made) /\ Becomes(u, DestroyNext(op[u]))
  BY NextCall, Assign, Zenon
<1>2. \A n : TurnsTo(op[u], n, made) => CallType(n, made') /\ Ordinary(n)
  BY DEF TurnsTo, Ordinary
<1> QED
  BY <1>1, <1>2, Zenon DEF GoesOn

(* The list of keys is complete.                                           *)
LEMMA ListedStep ==
    ASSUME PairInv, NEW u \in Users, Ordinary(op[u]), op[u].todo # <<>>, files' = files, Listed(u)
    PROVE  PairInv'
<1>1. DOMAIN op = Users /\ CallType(op[u], made)
  BY DEF PairInv, PairCalls
<1>2. UNCHANGED <<objects, made, gone>> /\ hit \subseteq hit' /\ Head(op[u].todo) = "enum"
  BY HitGrows DEF Listed, At
<1>3. CASE Fail(u)
  <2>1. GoesOn(u)
    BY <1>1, <1>3, FailsOn
  <2> QED
    BY <1>2, <2>1, ReadingStep DEF Reading
<1>4. CASE Len(op[u].todo) > 1 /\ op[u].queue # <<>> /\ op' = [op EXCEPT ![u] = DestroyNext(op[u])]
  <2>1. op[u].todo \notin Listing
    <3>1. op[u].todo # <<"list", "enum">>
      BY <1>2
    <3>2. \A t : t = <<"enum">> => ~(Len(t) > 1)
      OBVIOUS
    <3> QED
      BY <1>4, <3>1, <3>2, Zenon DEF Listing
  <2>2. op[u].place \in Stores
    BY <1>2, <2>1, OrdinaryHead DEF OnSlot, Anywhere
  <2>3. GoesOn(u)
    BY <1>1, <1>2, <1>4, <2>2, NextInStore
  <2> QED
    BY <1>2, <2>3, ReadingStep DEF Reading
<1> QED
  BY <1>3, <1>4 DEF Listed

(* C_DestroyObject in a store.                                             *)
LEMMA StoreDestroyStep ==
    ASSUME PairInv, NEW u \in Users, Ordinary(op[u]), op[u].todo # <<>>, files' = files,
           NEW class \in {"private", "public"}, DestroyObject(u, class)
    PROVE  PairInv'
<1> DEFINE o == op[u]
<1>1. DOMAIN op = Users /\ CallType(op[u], made) /\ made' = made
  BY DEF PairInv, PairCalls, DestroyObject
<1>2. Head(op[u].todo) \in {"rmprivate", "rmpublic"}
  BY DEF DestroyObject, At, RmStep
<1>3. op[u].place \in Stores
  BY <1>2, OrdinaryHead DEF OnSlot, Anywhere
<1>4. op[u].place \notin Slots
  BY <1>3, SlotsAssumption
<1>5. /\ HalfDestroyed(u, class) \/ (Fail(u) /\ gone' = gone)
      /\ objects' = objects \/ \E x \in objects : x.place = op[u].place /\ objects' = objects \ {x}
      /\ NoFault \/ Fault(u)
  BY Zenon DEF DestroyObject, Lost, Object
<1>c. Continue(u, op[u]) => GoesOn(u)
  <2>1. SameKeys(op[u], op[u], made')
    BY <1>1, AssignedKeys, Zenon
  <2> QED
    BY <1>1, <2>1, ContinuesOn, Zenon
<1>6. GoesOn(u)
  <2>1. Fail(u) => GoesOn(u)
    BY <1>1, FailsOn
  <2>2. op[u].queue # <<>> /\ op' = [op EXCEPT ![u] = DestroyNext(op[u])] => GoesOn(u)
    BY <1>1, <1>3, NextInStore
  <2> QED
    BY <1>5, <1>c, <2>1, <2>2, Zenon DEF HalfDestroyed
<1>7. gone' = gone \/ gone' = gone \cup {<<op[u].place, op[u].id>>}
  BY <1>5, Zenon DEF HalfDestroyed
<1>8. op[u].id \in KnownIDs(made')
  BY <1>1 DEF CallType
<1>9. \A g : g = <<op[u].place, op[u].id>> => g[1] = op[u].place /\ g[2] = op[u].id
  OBVIOUS
<1>10. (\A g \in gone' : g \in gone \/ g[1] \notin Slots) /\ IdsStep
  BY <1>4, <1>7, <1>8, <1>9 DEF IdsStep
<1>11. SlotsSame /\ objects' \subseteq objects
  BY <1>4, <1>5 DEF SlotsSame
<1>12. IsFiniteSet(objects') /\ (\A x \in objects' : ObjectOK(x, made')) /\ MadeStep
  <2>1. IsFiniteSet(objects')
    BY <1>11, FS_Subset DEF PairInv, ObjectsOK
  <2> QED
    BY <1>1, <1>11, <2>1 DEF PairInv, ObjectsOK, MadeStep
<1>13. hit \subseteq hit'
  BY <1>5, HitGrows
<1> QED
  BY <1>6, <1>10, <1>11, <1>12, <1>13, StoreStep

(* Every function of a token.                                              *)
LEMMA OrdinaryTokenStep ==
    ASSUME PairInv, NEW u \in Users, Ordinary(op[u]), op[u].todo # <<>>, files' = files, TokenStep(u)
    PROVE  PairInv'
  BY TokenReads, GenerateStep, ListedStep, StoreDestroyStep, Zenon DEF TokenStep

(* The listing of a finite set.                                            *)
LEMMA ListOfSet == ASSUME NEW S, IsFiniteSet(S) PROVE SetToSeq(S) \in Seq(S)
<1>1. Cardinality(S) \in Nat /\ ExistsBijection(1..Cardinality(S), S)
  BY FS_CardinalityType
<1>2. PICK f : f \in Bijection(1..Cardinality(S), S)
  BY <1>1 DEF ExistsBijection
<1>3. f \in [1..Cardinality(S) -> S] /\ IsInjective(f)
  BY <1>2 DEF Bijection, Injection
<1>4. SetToSeq(S) \in [1..Cardinality(S) -> S]
  BY <1>3 DEF SetToSeq
<1> QED
  BY <1>1, <1>4

(* The ids of some of the objects.                                         *)
LEMMA ListOfIds ==
    ASSUME PairInv, NEW T \in SUBSET objects
    PROVE  SetToSeq({x.id : x \in T}) \in Seq(OldIDs(made))
<1> DEFINE S == {x.id : x \in T}
<1>1. IsFiniteSet(T)
  BY FS_Subset DEF PairInv, ObjectsOK
<1>2. [x \in T |-> x.id] \in Surjection(T, S)
  BY DEF Surjection
<1>3. IsFiniteSet(S)
  BY <1>1, <1>2, FS_Surjection
<1>4. S \subseteq OldIDs(made)
  BY DEF PairInv, ObjectsOK, ObjectOK
<1> HIDE DEF S
<1>5. SetToSeq(S) \in Seq(S)
  BY <1>3, ListOfSet
<1>6. SetToSeq(S) \in Seq(OldIDs(made))
  BY <1>4, <1>5
<1> QED
  BY <1>6 DEF S

(* CreateKey.                                                              *)
LEMMA CreateStep ==
    ASSUME PairInv, NEW u \in Users, Ordinary(op[u]), op[u].todo # <<>>, CreateKey(u)
    PROVE  PairInv'
<1> DEFINE p == op[u].place
           id == generateKeyID(p)
           k == StoredKey(op[u], id)
<1>1. DOMAIN op = Users /\ CallType(op[u], made) /\ made \in [Places -> Nat]
  BY DEF PairInv, PairCalls, ObjectsOK
<1>2. UNCHANGED <<gone, files>> /\ Head(op[u].todo) = "create"
  BY DEF CreateKey, At, providerVars
<1>3. p \in Stores
  BY <1>2, OrdinaryHead DEF OnSlot, Anywhere
<1>4. CASE KmsFault(u) /\ Fail(u) /\ UNCHANGED <<objects, made>>
  <2>1. GoesOn(u) /\ hit \subseteq hit'
    BY <1>1, <1>4, FailsOn, HitGrows
  <2> QED
    BY <1>2, <1>4, <2>1, ReadingStep DEF Reading
<1>5. CASE /\ NoFault /\ objects' = objects \cup {k} /\ made' = [made EXCEPT ![p] = @ + 1]
           /\ Continue(u, [op[u] EXCEPT !.id = id, !.label = NoLabel])
  <2>1. made' = OneMore(made, p) /\ id = NewIDOf(made, p)
    BY <1>5 DEF OneMore, NewIDOf, generateKeyID
  <2>2. MadeStep /\ id \in KnownIDs(made')
    <3>1. p \in Places
      BY <1>3 DEF Places
    <3>2. MadeStep /\ NewIDOf(made, p) \in OldIDs(made')
      BY <1>1, <2>1, <3>1, NewID DEF MadeStep
    <3> QED
      BY <2>1, <3>2 DEF KnownIDs
  <2>3. CallType(op[u], made')
    BY <1>1, <2>2, TypeGrows DEF MadeStep
  <2>4. SameKeys(op[u], [op[u] EXCEPT !.id = id, !.label = NoLabel], made')
    BY <2>2, <2>3, AssignedKeys, Zenon
  <2>5. GoesOn(u)
    BY <1>1, <1>5, <2>4, ContinuesOn, Zenon
  <2>6. ObjectFields \subseteq DOMAIN k /\ k.place = p /\ k.id = id
    BY DEF StoredKey, Half, ObjectFields
  <2>7. objects' = objects \cup {k} /\ hit' = hit
    BY <1>5 DEF NoFault
  <2> HIDE DEF k, id
  <2> DEFINE N == {k}
  <2>8. /\ IsFiniteSet(N) /\ objects' = objects \cup N
        /\ \A x \in N : ObjectFields \subseteq DOMAIN x /\ x.place = p /\ x.id = NewIDOf(made, p)
    BY <2>1, <2>6, <2>7, FS_Singleton
  <2> HIDE DEF N
  <2> QED
    BY <1>2, <1>3, <2>1, <2>5, <2>7, <2>8, MadeInStore
<1> QED
  BY <1>4, <1>5, Zenon DEF CreateKey

(* DescribeKey and GetPublicKey.                                           *)
LEMMA DescribeStep ==
    ASSUME PairInv, NEW u \in Users, Ordinary(op[u]), op[u].todo # <<>>, DescribeKey(u) \/ GetPublicKey(u)
    PROVE  PairInv'
<1>1. DOMAIN op = Users /\ CallType(op[u], made)
  BY DEF PairInv, PairCalls
<1>2. UNCHANGED <<objects, made, gone, files>>
  BY DEF DescribeKey, GetPublicKey, providerVars
<1>3. /\ Continue(u, [op[u] EXCEPT !.pub = op[u].id]) \/ Fail(u)
      /\ NoFault \/ KmsFault(u)
  BY Zenon DEF DescribeKey, GetPublicKey
<1>4. SameKeys(op[u], [op[u] EXCEPT !.pub = op[u].id], made)
  BY <1>1, AssignedKeys, Zenon
<1>5. SameKeys(op[u], [op[u] EXCEPT !.pub = op[u].id], made')
  BY <1>2, <1>4
<1>6. GoesOn(u)
  BY <1>1, <1>3, <1>5, ContinuesOn, FailsOn, Zenon
<1> QED
  BY <1>2, <1>3, <1>6, HitGrows, ReadingStep DEF Reading

(* EnumKeys of KMS.                                                        *)
LEMMA KmsEnumStep ==
    ASSUME PairInv, NEW u \in Users, Ordinary(op[u]), op[u].todo # <<>>, KmsEnumKeys(u)
    PROVE  PairInv'
<1> DEFINE T == {y \in objects : y.place = op[u].place /\ y.state = "Enabled"}
           ids == SetToSeq({x.id : x \in T})
<1>1. DOMAIN op = Users /\ CallType(op[u], made)
  BY DEF PairInv, PairCalls
<1>2. UNCHANGED <<objects, made, gone, files>>
  BY DEF KmsEnumKeys, providerVars
<1>3. /\ (ids # <<>> /\ Continue(u, [op[u] EXCEPT !.id = Head(ids), !.queue = Tail(ids)])) \/ Fail(u)
      /\ NoFault \/ KmsFault(u)
  BY Zenon DEF KmsEnumKeys
<1>4. ids \in Seq(OldIDs(made))
  BY ListOfIds
<1> HIDE DEF ids
<1>5. ids # <<>> => Head(ids) \in KnownIDs(made) /\ Tail(ids) \in Seq(OldIDs(made))
  BY <1>4, HeadTailProperties DEF KnownIDs
<1>6. ids # <<>> => SameKeys(op[u], [op[u] EXCEPT !.id = Head(ids), !.queue = Tail(ids)], made)
  BY <1>1, <1>5, AssignedKeys, Zenon
<1>7. ids # <<>> => SameKeys(op[u], [op[u] EXCEPT !.id = Head(ids), !.queue = Tail(ids)], made')
  BY <1>2, <1>6
<1>8. GoesOn(u)
  BY <1>1, <1>3, <1>7, ContinuesOn, FailsOn, Zenon
<1> QED
  BY <1>2, <1>3, <1>8, HitGrows, ReadingStep DEF Reading

(* ScheduleKeyDeletion marks keys of a store.                              *)
LEMMA ScheduleStep ==
    ASSUME PairInv, NEW u \in Users, Ordinary(op[u]), op[u].todo # <<>>, ScheduleKeyDeletion(u)
    PROVE  PairInv'
<1> DEFINE p == op[u].place
           usable == {x \in Stored(op[u]) : x.state = "Enabled"}
           marked == {[x EXCEPT !.state = "PendingDeletion"] : x \in usable}
<1>1. DOMAIN op = Users /\ CallType(op[u], made)
  BY DEF PairInv, PairCalls
<1>2. UNCHANGED <<made, gone, files>> /\ Head(op[u].todo) = "schedule"
  BY DEF ScheduleKeyDeletion, At, providerVars
<1>3. p \in Stores /\ p \notin Slots
  BY <1>2, OrdinaryHead, SlotsAssumption DEF OnSlot, Anywhere
<1>4. /\ objects' = objects \/ objects' = (objects \ usable) \cup marked
      /\ NoFault \/ KmsFault(u)
      /\ \/ op[u].queue # <<>> /\ op' = [op EXCEPT ![u].id = Head(op[u].queue), ![u].queue = Tail(@)]
         \/ Continue(u, op[u])
         \/ Fail(u)
  BY Zenon DEF ScheduleKeyDeletion
<1>5. GoesOn(u)
  <2>1. CASE op[u].queue # <<>> /\ op' = [op EXCEPT ![u].id = Head(op[u].queue), ![u].queue = Tail(@)]
    <3>1. DOMAIN op' = DOMAIN op /\ \A v \in Users \ {u} : op'[v] = op[v]
      BY <1>1, <2>1
    <3>2. {"queue", "todo", "place", "id", "handle"} \subseteq DOMAIN op[u]
      BY <1>1, CallDomain DEF CallType
    <3>3. /\ DOMAIN op'[u] = DOMAIN op[u] /\ op'[u].place = op[u].place /\ op'[u].handle = op[u].handle
          /\ op'[u].id = Head(op[u].queue) /\ op'[u].queue = Tail(op[u].queue)
      BY <1>1, <2>1, <3>2
    <3>4. Head(op[u].queue) \in OldIDs(made) /\ Tail(op[u].queue) \in Seq(OldIDs(made))
      BY <1>1, <2>1, HeadTailProperties DEF CallType
    <3>5. CallType(op'[u], made')
      BY <1>1, <1>2, <3>3, <3>4 DEF CallType, KnownIDs
    <3>6. Ordinary(op'[u])
      BY <1>3, <3>3 DEF Ordinary
    <3> QED
      BY <3>1, <3>5, <3>6 DEF GoesOn, Becomes
  <2>2. SameKeys(op[u], op[u], made')
    BY <1>1, <1>2, AssignedKeys
  <2> QED
    BY <1>1, <1>4, <2>1, <2>2, ContinuesOn, FailsOn, Zenon
<1>6. usable \subseteq objects /\ \A x \in usable : x.place = p
  BY DEF Stored
<1> HIDE DEF usable
<1>7. \A x : ObjectOK(x, made) =>
         ObjectOK([x EXCEPT !.state = "PendingDeletion"], made) /\ [x EXCEPT !.state = "PendingDeletion"].place = x.place
  BY DEF ObjectOK, ObjectFields
<1>8. \A x \in marked : ObjectOK(x, made) /\ x.place = p
  BY <1>6, <1>7 DEF PairInv, ObjectsOK
<1>9. IsFiniteSet(marked)
  <2>1. IsFiniteSet(usable)
    BY <1>6, FS_Subset DEF PairInv, ObjectsOK
  <2>2. [x \in usable |-> [x EXCEPT !.state = "PendingDeletion"]] \in Surjection(usable, marked)
    BY DEF Surjection
  <2> QED
    BY <2>1, <2>2, FS_Surjection
<1> HIDE DEF marked
<1>10. IsFiniteSet(objects')
  <2>1. IsFiniteSet(objects) /\ IsFiniteSet(objects \ usable)
    BY FS_Subset DEF PairInv, ObjectsOK
  <2>2. IsFiniteSet((objects \ usable) \cup marked)
    BY <1>9, <2>1, FS_Union
  <2> QED
    BY <1>4, <2>1, <2>2
<1>11. \A x \in objects' : ObjectOK(x, made')
  BY <1>2, <1>4, <1>8 DEF PairInv, ObjectsOK
<1>12. SlotsSame
  BY <1>3, <1>4, <1>6, <1>8 DEF SlotsSame
<1>13. MadeStep /\ IdsStep /\ hit \subseteq hit'
  BY <1>2, <1>4, HitGrows DEF MadeStep, IdsStep, PairInv, ObjectsOK
<1> QED
  BY <1>2, <1>5, <1>10, <1>11, <1>12, <1>13, StoreStep

(* What is saved names a key that was made.                                *)
LEMMA ExportedOK == \A p, m : \A id \in KnownIDs(m) : FileOK(Exported(p, id), m)
<1>1. \A a, b, i, m : i \in KnownIDs(m) => FileOK(URI(a, b, i), m) /\ FileOK(InmemPEM(i), m)
  BY DEF FileOK, URI, InmemPEM
<1>2. ASSUME NEW p, NEW i
      PROVE  (\E a, b : Exported(p, i) = URI(a, b, i)) \/ Exported(p, i) = InmemPEM(i)
  <2>1. CASE p.kind = "pkcs11"
    BY <2>1 DEF Exported, Crypto11URI
  <2>2. CASE p.kind = "kms"
    BY <2>2 DEF Exported, KmsURI
  <2>3. CASE p.kind = "testprov"
    BY <2>3 DEF Exported, TestprovURI
  <2>4. CASE p.kind \notin {"pkcs11", "kms", "testprov"}
    BY <2>4 DEF Exported
  <2> QED
    BY <2>1, <2>2, <2>3, <2>4
<1> QED
  BY <1>1, <1>2, Zenon

(* The functions that save and keep keys, and the ones that sign.          *)
LEMMA SavingStep ==
    ASSUME PairInv, NEW u \in Users, Ordinary(op[u]), op[u].todo # <<>>,
           \/ Save(u) \/ Hold(u) \/ MakeRequest(u) \/ SignRoot(u) \/ LocalSign(u) \/ SelfSign(u) \/ WriteFiles(u)
    PROVE  PairInv'
<1>1. DOMAIN op = Users /\ CallType(op[u], made) /\ op[u].id \in KnownIDs(made)
  BY DEF PairInv, PairCalls, CallType
<1>a. SameKeys(op[u], op[u], made) /\ \A c : SameKeys(op[u], [op[u] EXCEPT !.job[1].cert = c], made)
  BY <1>1, AssignedKeys, Zenon
<1>c. \A q : SameKeys(op[u], q, made) /\ made' = made /\ Continue(u, q) => GoesOn(u)
  BY <1>1, ContinuesOn
<1>f. Fail(u) => GoesOn(u)
  BY <1>1, FailsOn
<1>e. \A p : FileOK(Exported(p, op[u].id), made)
  BY <1>1, ExportedOK
<1>2. CASE Save(u)
  <2>1. /\ UNCHANGED <<objects, made, gone, hit>> /\ Continue(u, op[u])
        /\ files' = files \cup {Exported(ProviderAt(op[u].place), op[u].id)}
    BY <1>2, Zenon DEF Save
  <2>2. GoesOn(u)
    BY <1>a, <1>c, <2>1, Zenon
  <2> QED
    BY <1>e, <2>1, <2>2, ReadingStep DEF Reading
<1>3. CASE Hold(u)
  <2>1. UNCHANGED <<objects, made, gone, hit, files>> /\ Continue(u, op[u])
    BY <1>3, Zenon DEF Hold
  <2>2. GoesOn(u)
    BY <1>a, <1>c, <2>1, Zenon
  <2> QED
    BY <2>1, <2>2, ReadingStep DEF Reading
<1>4. CASE MakeRequest(u)
  <2>1. UNCHANGED <<objects, made, gone, files>>
    BY <1>4 DEF MakeRequest, providerVars
  <2>2. (Continue(u, op[u]) \/ Fail(u)) /\ (NoFault \/ KeyFault(u))
    BY <1>4, Zenon DEF MakeRequest
  <2>3. GoesOn(u)
    BY <1>a, <1>c, <1>f, <2>1, <2>2, Zenon
  <2> QED
    BY <2>1, <2>2, <2>3, HitGrows, ReadingStep DEF Reading
<1>5. CASE SignRoot(u)
  <2>1. UNCHANGED <<objects, made, gone>> /\ (Continue(u, op[u]) \/ Fail(u)) /\ (NoFault \/ KeyFault(u))
        /\ (files' = files \/ files' = files \cup {Exported(ProviderAt(op[u].place), op[u].id)})
    BY <1>5, Zenon DEF SignRoot
  <2>2. GoesOn(u)
    BY <1>a, <1>c, <1>f, <2>1, Zenon
  <2>3. \A f \in files' : f \in files \/ FileOK(f, made)
    BY <1>e, <2>1
  <2> QED
    BY <2>1, <2>2, <2>3, HitGrows, ReadingStep DEF Reading
<1>6. CASE LocalSign(u)
  <2>1. UNCHANGED <<objects, made, gone, files, hit>>
    BY <1>6 DEF LocalSign, providerVars
  <2>2. Continue(u, op[u]) \/ \E c : Continue(u, [op[u] EXCEPT !.job[1].cert = c])
    BY <1>6, Zenon DEF LocalSign
  <2>3. GoesOn(u)
    BY <1>a, <1>c, <2>1, <2>2, Zenon
  <2> QED
    BY <2>1, <2>3, ReadingStep DEF Reading
<1>7. CASE SelfSign(u)
  <2>1. UNCHANGED <<objects, made, gone, files>>
    BY <1>7 DEF SelfSign, providerVars
  <2>2. ((\E c : Continue(u, [op[u] EXCEPT !.job[1].cert = c])) \/ Fail(u)) /\ (NoFault \/ KeyFault(u))
    BY <1>7, Zenon DEF SelfSign
  <2>3. GoesOn(u)
    BY <1>a, <1>c, <1>f, <2>1, <2>2, Zenon
  <2> QED
    BY <2>1, <2>2, <2>3, HitGrows, ReadingStep DEF Reading
<1>8. CASE WriteFiles(u)
  <2> DEFINE key == IF "kr" \in DOMAIN op[u].job[1].csr THEN Exported(ProviderAt(op[u].place), op[u].id) ELSE NoFile
  <2>1. UNCHANGED <<objects, made, gone, hit>> /\ Continue(u, op[u]) /\ files' = files \cup ({key} \ {NoFile})
    BY <1>8, Zenon DEF WriteFiles
  <2>2. key = NoFile \/ FileOK(key, made)
    BY <1>e, Zenon
  <2>3. GoesOn(u)
    BY <1>a, <1>c, <2>1, Zenon
  <2> HIDE DEF key
  <2>4. \A f \in files' : f \in files \/ FileOK(f, made)
    BY <2>1, <2>2
  <2> QED
    BY <2>1, <2>3, <2>4, ReadingStep DEF Reading
<1> QED
  BY <1>2, <1>3, <1>4, <1>5, <1>6, <1>7, <1>8

-----------------------------------------------------------------------------
(* The calls that begin.                                                   *)

(* n is a new call of the functions t in the place w about the key i.      *)
NewCall(n, t, w, i) ==
    /\ DOMAIN n = DOMAIN Idle /\ n.todo = t /\ n.place = w /\ n.id = i
    /\ n.queue = <<>> /\ n.handle = [private |-> 0, public |-> 0]

(* The calls of commands.                                                  *)
LEMMA NewCalls ==
    \A t, w, a, b, c :
       /\ NewCall([Call(t, w) EXCEPT !.typ = a, !.uses = b, !.label = c], t, w, NoID)
       /\ NewCall([Call(t, w) EXCEPT !.typ = a, !.uses = b], t, w, NoID)
       /\ NewCall([Call(t, w) EXCEPT !.typ = a, !.label = b], t, w, NoID)
       /\ NewCall([Call(t, w) EXCEPT !.id = a, !.label = b], t, w, a)
       /\ NewCall([Call(t, w) EXCEPT !.id = a, !.lenient = b], t, w, a)
       /\ NewCall([Call(t, w) EXCEPT !.label = a], t, w, NoID)
       /\ NewCall([Call(t, w) EXCEPT !.id = a, !.file = b], t, w, a)
       /\ NewCall([Call(t, w) EXCEPT !.typ = a, !.uses = b, !.job = c], t, w, NoID)
       /\ NewCall([Call(t, w) EXCEPT !.typ = a, !.job = c], t, w, NoID)
       /\ NewCall([Call(t, w) EXCEPT !.job = c], t, w, NoID)
       /\ NewCall([Idle EXCEPT !.job = a], <<>>, CurrentSlot, NoID)
       /\ NewCall([Idle EXCEPT !.todo = t, !.job = b, !.pub = c], t, CurrentSlot, NoID)
<1>1. DOMAIN Idle = {"todo", "place", "id", "label", "typ", "uses", "handle", "pub", "lenient", "list", "queue", "file", "job"}
  BY CallDomain
<1> QED
  BY <1>1 DEF NewCall, Call, Idle

(* They know what they may.                                                *)
LEMMA NewCallType == \A n, t, w, m : \A i \in KnownIDs(m) : NewCall(n, t, w, i) => CallType(n, m)
<1>1. \A m : <<>> \in Seq(OldIDs(m))
  BY EmptySeq
<1> QED
  BY <1>1 DEF NewCall, CallType

(* On a slot they list nothing and destroy nothing.                        *)
LEMMA OrdinaryCall ==
    \A n, t, w : n.todo = t /\ n.place = w /\ w \in Places /\ (w \in Slots => t \in Seq(OnSlot)) => Ordinary(n)
  BY DEF Ordinary, Places

(* Longer calls are made of shorter ones.                                  *)
LEMMA SlotConcat == \A a, b \in Seq(OnSlot) : a \o b \in Seq(OnSlot)
  BY ConcatProperties

(* The calls of a few functions.                                           *)
LEMMA SlotFunctions ==
    /\ <<"request">> \in Seq(OnSlot) /\ <<"save">> \in Seq(OnSlot) /\ <<"hold">> \in Seq(OnSlot)
    /\ <<"write">> \in Seq(OnSlot) /\ <<"info">> \in Seq(OnSlot) /\ <<"root">> \in Seq(OnSlot)
    /\ <<"next">> \in Seq(OnSlot) /\ <<"describe">> \in Seq(OnSlot) /\ <<"publickey">> \in Seq(OnSlot)
    /\ <<"generate", "export">> \in Seq(OnSlot) /\ <<"generate", "export", "identify">> \in Seq(OnSlot)
    /\ <<"private", "identify">> \in Seq(OnSlot) /\ <<"selfsign", "write">> \in Seq(OnSlot)
    /\ <<"sign", "write">> \in Seq(OnSlot) /\ FindKeyPairOnSession \in Seq(OnSlot)
    /\ <<"signer">> \in Seq(Anywhere) /\ <<"issuer", "next">> \in Seq(Anywhere)
    /\ \A s \in Seq(Anywhere) : s \in Seq(OnSlot)
<1>1. \A x, y, z, w \in OnSlot : /\ <<x>> \in Seq(OnSlot) /\ <<x, y>> \in Seq(OnSlot) /\ <<x, y, z>> \in Seq(OnSlot)
                                 /\ <<x, y, z, w>> \in Seq(OnSlot)
  OBVIOUS
<1>2. {"request", "save", "hold", "write", "info", "root", "next", "describe", "publickey", "generate", "export",
       "identify", "private", "selfsign", "sign", "type", "public"} \subseteq OnSlot
  BY DEF OnSlot
<1>3. \A x, y \in Anywhere : <<x>> \in Seq(Anywhere) /\ <<x, y>> \in Seq(Anywhere)
  OBVIOUS
<1>4. {"signer", "issuer", "next"} \subseteq Anywhere /\ Anywhere \subseteq OnSlot
  BY DEF Anywhere, OnSlot
<1>5. \A s \in Seq(Anywhere) : s \in Seq(OnSlot)
  BY <1>4
<1> QED
  BY <1>1, <1>2, <1>3, <1>4, <1>5 DEF FindKeyPairOnSession

(* What providers do on slots.                                             *)
LEMMA SlotProviders ==
    ASSUME NEW p \in ProviderConfigs
    PROVE  /\ p.place \in Places
           /\ p.place \in Slots <=> p.kind = "pkcs11"
           /\ p.place \in Slots => /\ \A kr : GenerateKey(p, TypeOf(kr)) \in Seq(OnSlot)
                                   /\ GetKey(p) \in Seq(OnSlot)
                                   /\ ExportKey(p) \in Seq(OnSlot)
<1>1. p.place \in Places /\ (p.place \in Slots <=> p.kind = "pkcs11")
  BY DEF ProviderConfigs, Places
<1>2. ASSUME p.kind = "pkcs11", NEW kr
      PROVE  GenerateKey(p, TypeOf(kr)) = <<"generate", "export", "identify">>
  <2>1. KeyType(TypeOf(kr)) \in {"RSA", "ECDSA"}
    BY DEF KeyType, TypeOf
  <2> QED
    BY <1>2, <2>1 DEF GenerateKey, Generators, Crypto11GenerateRSAKey, Crypto11GenerateECDSAKey
<1>3. p.kind = "pkcs11" => GetKey(p) = FindKeyPairOnSession /\ ExportKey(p) = Crypto11ExportKey
  BY DEF GetKey, Crypto11GetKey, ExportKey
<1>4. Crypto11ExportKey \in Seq(OnSlot)
  BY SlotFunctions, SlotConcat, Zenon DEF Crypto11ExportKey
<1> QED
  BY <1>1, <1>2, <1>3, <1>4, SlotFunctions, Zenon

(* n is the call o turned to the functions t in the place w, about key i.  *)
Turned(o, n, t, w, i) ==
    /\ DOMAIN n = DOMAIN o /\ n.todo = t /\ n.place = w /\ n.id = i
    /\ n.queue = o.queue /\ n.handle = o.handle

(* The calls made of others.                                               *)
LEMMA TurnedCalls ==
    \A o, m, t, w, a, b, c : CallType(o, m) =>
       /\ Turned(o, [o EXCEPT !.todo = t, !.place = w, !.pub = a, !.id = b, !.file = c], t, w, b)
       /\ Turned(o, [o EXCEPT !.todo = t, !.place = w, !.id = b, !.file = c, !.typ = AnyType], t, w, b)
<1> SUFFICES ASSUME NEW o, NEW m, NEW t, NEW w, NEW a, NEW b, NEW c, CallType(o, m)
             PROVE  /\ Turned(o, [o EXCEPT !.todo = t, !.place = w, !.pub = a, !.id = b, !.file = c], t, w, b)
                    /\ Turned(o, [o EXCEPT !.todo = t, !.place = w, !.id = b, !.file = c, !.typ = AnyType], t, w, b)
  BY Zenon
<1>1. {"todo", "place", "pub", "id", "file", "typ", "queue", "handle"} \subseteq DOMAIN o
  BY CallDomain DEF CallType
<1> QED
  BY <1>1 DEF Turned

(* The signer of a key file.                                               *)
LEMMA SignerPair ==
    ASSUME CryptoInv, NEW m, NEW o, CallType(o, m), NEW f, FileOK(f, m), NEW rest \in Seq(Anywhere),
           NEW n \in NewSignerFromPEM(o, f, rest)
    PROVE  CallType(n, m) /\ Ordinary(n)
<1>0. \A t, w, i : Turned(o, n, t, w, i) /\ i \in KnownIDs(m) => CallType(n, m)
  BY DEF Turned, CallType
<1>1. CASE f.form = "pem"
  <2>1. n = [o EXCEPT !.todo = rest, !.place = "memory", !.pub = f.of, !.id = f.of, !.file = f]
    BY <1>1 DEF NewSignerFromPEM
  <2>2. Turned(o, n, rest, "memory", f.of)
    BY <2>1, TurnedCalls, Zenon
  <2>3. f.of \in KnownIDs(m)
    BY DEF FileOK
  <2> QED
    BY <1>0, <2>2, <2>3 DEF Ordinary, Turned
<1>2. CASE f.form # "pem"
  <2>1. PICK p \in Asked(f) : n = [o EXCEPT !.todo = GetKey(p) \o rest, !.place = p.place, !.id = f.id, !.file = f,
                                            !.typ = AnyType]
    BY <1>2 DEF NewSignerFromPEM
  <2>2. p \in ProviderConfigs
    BY ProvidersThere
  <2>3. Turned(o, n, GetKey(p) \o rest, p.place, f.id)
    BY <2>1, TurnedCalls, Zenon
  <2>4. f.id \in KnownIDs(m)
    BY <1>2 DEF FileOK
  <2>5. p.place \in Places /\ (p.place \in Slots => GetKey(p) \in Seq(OnSlot)) /\ rest \in Seq(OnSlot)
    BY <2>2, SlotProviders, SlotFunctions
  <2>6. p.place \in Slots => GetKey(p) \o rest \in Seq(OnSlot)
    BY <2>5, SlotConcat
  <2>7. Ordinary(n)
    BY <2>3, <2>5, <2>6, OrdinaryCall, Zenon DEF Turned
  <2> QED
    BY <1>0, <2>3, <2>4, <2>7, Zenon
<1> QED
  BY <1>1, <1>2

(* The calls of csrprov for a request.                                     *)
LEMMA RequestPair ==
    ASSUME CryptoInv, Loaded, NEW m, NEW req, NEW job, NEW rest \in Seq(OnSlot)
    PROVE  CallType(ForRequest(req, job, rest), m) /\ Ordinary(ForRequest(req, job, rest))
<1> DEFINE p == Default
           t == ProcessCsrRequest(p, req.kr) \o rest
           n == ForRequest(req, job, rest)
<1>1. p \in ProviderConfigs
  BY ProvidersThere
<1>2. NewCall(n, t, p.place, NoID)
  BY NewCalls, Zenon DEF ForRequest
<1>3. p.place \in Slots => GenerateKey(p, TypeOf(req.kr)) \in Seq(OnSlot) /\ ExportKey(p) \in Seq(OnSlot)
  BY <1>1, SlotProviders
<1>4. p.place \in Slots => t \in Seq(OnSlot)
  BY <1>3, SlotConcat, SlotFunctions, Zenon DEF ProcessCsrRequest, ParseCsrRequest
<1>5. p.place \in Places
  BY <1>1, SlotProviders
<1> HIDE DEF n, t, p
<1>6. CallType(n, m)
  <2>1. NoID \in KnownIDs(m)
    BY DEF KnownIDs
  <2> QED
    BY <1>2, <2>1, NewCallType, Zenon
<1>7. Ordinary(n)
  BY <1>2, <1>4, <1>5, OrdinaryCall, Zenon DEF NewCall
<1> QED
  BY <1>6, <1>7 DEF n

(* The functions of the authority and NewLocalCASigner.                    *)
LEMMA IssuerPairStep ==
    ASSUME PairInv, CryptoInv, Loaded, NEW u \in Users, Ordinary(op[u]), op[u].todo # <<>>,
           NextIssuer(u) \/ NewIssuer(u) \/ NewLocalCASigner(u)
    PROVE  PairInv'
<1>1. DOMAIN op = Users /\ CallType(op[u], made)
  BY DEF PairInv, PairCalls
<1>2. UNCHANGED <<objects, made, gone, hit, files>>
  BY DEF NextIssuer, NewIssuer, NewLocalCASigner, providerVars
<1>m. made' = made
  BY <1>2
<1>c. \A q : SameKeys(op[u], q, made) /\ Continue(u, q) => GoesOn(u)
  BY <1>1, <1>m, ContinuesOn
<1>f. Fail(u) => GoesOn(u)
  BY <1>1, FailsOn
<1>a. SameKeys(op[u], op[u], made) /\ \A j : SameKeys(op[u], [op[u] EXCEPT !.job = j], made)
  BY <1>1, AssignedKeys, Zenon
<1>n. \A n : op' = [op EXCEPT ![u] = n] /\ CallType(n, made) /\ Ordinary(n) => GoesOn(u)
  BY <1>1, <1>m, Assign DEF GoesOn
<1>3. CASE NextIssuer(u)
  <2>1. ASSUME op' = [op EXCEPT ![u].job[1] = Tail(@)]
        PROVE  GoesOn(u)
    <3>1. DOMAIN op' = DOMAIN op /\ \A v \in Users \ {u} : op'[v] = op[v]
      BY <1>1, <2>1
    <3>2. {"queue", "todo", "place", "id", "handle"} \subseteq DOMAIN op[u]
      BY <1>1, CallDomain DEF CallType
    <3>3. /\ DOMAIN op'[u] = DOMAIN op[u] /\ op'[u].place = op[u].place /\ op'[u].handle = op[u].handle
          /\ op'[u].id = op[u].id /\ op'[u].queue = op[u].queue /\ op'[u].todo = op[u].todo
      BY <1>1, <2>1, <3>2
    <3>4. CallType(op'[u], made') /\ Ordinary(op'[u])
      BY <1>1, <1>m, <3>3, OrdinaryFollows DEF CallType
    <3> QED
      BY <3>1, <3>4 DEF GoesOn, Becomes
  <2>2. ASSUME \E f \in files : \E call \in LoadIssuerKey(op[u], f) : op' = [op EXCEPT ![u] = call]
        PROVE  GoesOn(u)
    <3>1. PICK f \in files : \E call \in LoadIssuerKey(op[u], f) : op' = [op EXCEPT ![u] = call]
      BY <2>2
    <3>2. PICK n \in LoadIssuerKey(op[u], f) : op' = [op EXCEPT ![u] = n]
      BY <3>1
    <3>3. FileOK(f, made) /\ <<"issuer", "next">> \in Seq(Anywhere)
      BY SlotFunctions DEF PairInv, IdsOK
    <3>4. CallType(n, made) /\ Ordinary(n)
      BY <1>1, <3>3, SignerPair, Zenon DEF LoadIssuerKey
    <3> QED
      BY <1>n, <3>2, <3>4
  <2>3. GoesOn(u)
    BY <1>3, <1>a, <1>c, <1>f, <2>1, <2>2, Zenon DEF NextIssuer
  <2> QED
    BY <1>2, <2>3, ReadingStep DEF Reading
<1>4. CASE NewIssuer(u)
  <2>1. (\E j : Continue(u, [op[u] EXCEPT !.job = j])) \/ Fail(u)
    BY <1>4, Zenon DEF NewIssuer
  <2>2. GoesOn(u)
    BY <1>a, <1>c, <1>f, <2>1, Zenon
  <2> QED
    BY <1>2, <2>2, ReadingStep DEF Reading
<1>5. CASE NewLocalCASigner(u)
  <2> DEFINE job == [op[u].job EXCEPT ![1].key = Held(op[u])]
             req == op[u].job[1].csr
             t == <<"sign", "write">>
             n == [Idle EXCEPT !.todo = t, !.job = job, !.pub = req.pub]
  <2>1. op' = [op EXCEPT ![u] = ForRequest(req, job, t)] \/ Fail(u) \/ op' = [op EXCEPT ![u] = n]
    BY <1>5, Zenon DEF NewLocalCASigner
  <2>2. NewCall(n, t, CurrentSlot, NoID) /\ NoID \in KnownIDs(made) /\ t \in Seq(OnSlot)
    BY NewCalls, SlotFunctions DEF KnownIDs
  <2> HIDE DEF job, req, t, n
  <2>3. CallType(n, made)
    BY <2>2, NewCallType, Zenon
  <2>4. Ordinary(n)
    <3>1. CurrentSlot \in Slots
      BY SlotsAssumption
    <3> QED
      BY <2>2, <3>1 DEF NewCall, Ordinary
  <2>5. CallType(ForRequest(req, job, t), made) /\ Ordinary(ForRequest(req, job, t))
    BY <2>2, RequestPair, Zenon
  <2>6. GoesOn(u)
    BY <1>f, <1>n, <2>1, <2>3, <2>4, <2>5, Zenon
  <2> QED
    BY <1>2, <2>6, ReadingStep DEF Reading
<1> QED
  BY <1>3, <1>4, <1>5

-----------------------------------------------------------------------------
(* The calls that destroy keys of a slot.                                  *)

(* What is left of such a call.                                            *)
LEMMA RemovalForms ==
    ASSUME NEW S, NEW h, NEW o, Removal(S, h, o), o.todo # <<>>
    PROVE  \/ o.todo = <<"list", "enum">> \o DestroyKeyPairOnSlot /\ Head(o.todo) = "list"
           \/ o.todo = <<"enum">> \o DestroyKeyPairOnSlot /\ Head(o.todo) = "enum"
           \/ o.todo = DestroyKeyPairOnSlot /\ Head(o.todo) = "private" /\ Destroying(S, h, o)
           \/ o.todo = Destroy1 /\ Head(o.todo) = "public" /\ Destroying(S, h, o)
           \/ o.todo = Destroy2 /\ Head(o.todo) = "rmprivate" /\ Destroying(S, h, o)
           \/ o.todo = Destroy3 /\ Head(o.todo) = "rmpublic" /\ Destroying(S, h, o)
<1>1. /\ Head(<<"list", "enum">> \o DestroyKeyPairOnSlot) = "list"
      /\ Head(<<"enum">> \o DestroyKeyPairOnSlot) = "enum"
      /\ Head(DestroyKeyPairOnSlot) = "private"
  BY DEF DestroyKeyPairOnSlot
<1>2. Head(Destroy1) = "public" /\ Head(Destroy2) = "rmprivate" /\ Head(Destroy3) = "rmpublic"
  BY DEF Destroy1, Destroy2, Destroy3
<1>3. o.todo \in ListingToDestroy \/ Destroying(S, h, o)
  BY DEF Removal
<1>4. Destroying(S, h, o) => o.todo \in {DestroyKeyPairOnSlot, Destroy1, Destroy2, Destroy3}
  BY DEF Destroying
<1> QED
  BY <1>1, <1>2, <1>3, <1>4 DEF ListingToDestroy

(* And what follows.                                                       *)
LEMMA RemovalTails ==
    /\ Tail(<<"list", "enum">> \o DestroyKeyPairOnSlot) = <<"enum">> \o DestroyKeyPairOnSlot
    /\ Tail(DestroyKeyPairOnSlot) = Destroy1 /\ Tail(Destroy1) = Destroy2 /\ Tail(Destroy2) = Destroy3
    /\ Len(<<"list", "enum">> \o DestroyKeyPairOnSlot) # 1 /\ Len(DestroyKeyPairOnSlot) # 1
    /\ Len(Destroy1) # 1 /\ Len(Destroy2) # 1 /\ Len(Destroy3) = 1
  BY DEF DestroyKeyPairOnSlot, Destroy1, Destroy2, Destroy3

(* Nothing changes on the slots, and u does not leave a public half alone. *)
LEMMA KeysUnmoved ==
    ASSUME PairInv, NEW u \in Users, NEW n, Becomes(u, n), CallType(n, made), KeyCall(objects, hit', n),
           UNCHANGED <<objects, made, gone, files>>, hit \subseteq hit',
           \A x \in objects : x.place \in Slots /\ Removing(u, x) => x.id \in hit'
    PROVE  PairInv'
<1>1. MadeStep /\ IdsStep /\ SlotsSame
  BY DEF MadeStep, IdsStep, SlotsSame, PairInv, ObjectsOK
<1>2. KeyCall(objects', hit', n) /\ CallType(n, made')
  OBVIOUS
<1>3. IsFiniteSet(objects') /\ \A x \in objects' : ObjectOK(x, made')
  BY DEF PairInv, ObjectsOK
<1>4. \A g \in gone' : g \in gone \/ g[1] \notin Slots
  OBVIOUS
<1> QED
  BY <1>1, <1>2, <1>3, <1>4, SlotsKept

(* An error returns from such a call.                                      *)
LEMMA GivesUp ==
    ASSUME PairInv, NEW u \in Users, Fail(u), UNCHANGED <<objects, made, gone, files>>, hit \subseteq hit',
           \A x \in objects : x.place \in Slots /\ Removing(u, x) => x.id \in hit'
    PROVE  PairInv'
<1>1. Becomes(u, Idle)
  BY Assign DEF Fail, PairInv, PairCalls
<1>2. CallType(Idle, made) /\ KeyCall(objects, hit', Idle)
  BY IdlePair DEF KeyCall
<1> QED
  BY <1>1, <1>2, KeysUnmoved

(* n is what is left of the call q after its next function.                *)
Advanced(q, n, m) ==
    /\ CallType(n, m) /\ n.todo = Tail(q.todo) /\ n.place = q.place /\ n.id = q.id /\ n.handle = q.handle
    /\ n.label = q.label /\ n.typ = q.typ /\ n.lenient = q.lenient /\ n.queue = q.queue

(* The call goes on with q, which is not at its end.                       *)
LEMMA Advances ==
    \A q : \A u \in Users :
       DOMAIN op = Users /\ CallType(q, made) /\ Len(q.todo) # 1 /\ Continue(u, q)
          => \E n : Becomes(u, n) /\ Advanced(q, n, made)
<1> SUFFICES ASSUME NEW q, NEW u \in Users, DOMAIN op = Users, CallType(q, made), Len(q.todo) # 1, Continue(u, q)
             PROVE  \E n : Becomes(u, n) /\ Advanced(q, n, made)
  OBVIOUS
<1> DEFINE r == [q EXCEPT !.todo = Tail(@)]
<1>1. {"todo", "place", "id", "handle", "queue", "label", "typ", "lenient"} \subseteq DOMAIN q
  BY CallDomain DEF CallType
<1>2. op' = [op EXCEPT ![u] = r]
  BY DEF Continue
<1>3. /\ DOMAIN r = DOMAIN q /\ r.todo = Tail(q.todo) /\ r.place = q.place /\ r.id = q.id /\ r.handle = q.handle
      /\ r.label = q.label /\ r.typ = q.typ /\ r.lenient = q.lenient /\ r.queue = q.queue
  BY <1>1
<1> HIDE DEF r
<1>4. Advanced(q, r, made)
  BY <1>3 DEF Advanced, CallType
<1>5. Becomes(u, r)
  BY <1>2, Assign
<1> QED
  BY <1>4, <1>5

(* The next key to be destroyed.                                           *)
LEMMA NextRemoval ==
    \A o, n, m, S, h : o.place \in Slots /\ o.typ = AnyType /\ TurnsTo(o, n, m) => CallType(n, m) /\ Removal(S, h, n)
  BY DEF TurnsTo, Removal, Destroying

(* The call of u is about a key of a slot.                                 *)
LEMMA RemovedKey ==
    ASSUME PairInv, NEW u \in Users, Removal(objects, hit, op[u])
    PROVE  /\ DOMAIN op = Users /\ CallType(op[u], made) /\ op[u].place \in Slots /\ op[u].typ = AnyType
           /\ Destroying(objects, hit, op[u]) => op[u].id \in OldIDs(made)
  BY DEF PairInv, PairCalls, Removal, Destroying, CallType, KnownIDs

(* hsm rmkey --prefix lists the keys.                                      *)
LEMMA RemovalLists ==
    ASSUME PairInv, NEW u \in Users, Removal(objects, hit, op[u]), op[u].todo # <<>>, files' = files,
           ListKeys(u) \/ EnumKeys(u) \/ Listed(u)
    PROVE  PairInv'
<1>1. DOMAIN op = Users /\ CallType(op[u], made) /\ op[u].place \in Slots /\ op[u].typ = AnyType
  BY RemovedKey
<1>2. UNCHANGED <<objects, made, gone, files>> /\ Head(op[u].todo) \in {"list", "enum"}
  BY DEF ListKeys, EnumKeys, Listed, At
<1>3. NoFault \/ Fault(u)
  BY Zenon DEF ListKeys, EnumKeys, Listed
<1>4. hit \subseteq hit'
  BY <1>3, HitGrows
<1>5. \A x \in objects : ~Removing(u, x)
  BY <1>2 DEF Removing, At
<1>f. Fail(u) => PairInv'
  BY <1>2, <1>4, <1>5, GivesUp
<1>n. \A n : Becomes(u, n) /\ CallType(n, made) /\ Removal(objects, hit', n) => PairInv'
  BY <1>2, <1>4, <1>5, KeysUnmoved DEF KeyCall
<1>6. CASE ListKeys(u)
  <2>1. (\E l : Continue(u, [op[u] EXCEPT !.list = l])) \/ Fail(u)
    BY <1>6, Zenon DEF ListKeys
  <2>2. ASSUME NEW l, NEW q, q = [op[u] EXCEPT !.list = l], Continue(u, q)
        PROVE  PairInv'
    <3>1. {"todo", "place", "typ"} \subseteq DOMAIN op[u]
      BY <1>1, CallDomain DEF CallType
    <3>2. q.todo = op[u].todo /\ q.place = op[u].place /\ q.typ = op[u].typ
      BY <2>2, <3>1
    <3>3. CallType(q, made)
      BY <1>1, <2>2, AssignedKeys, Zenon DEF SameKeys
    <3>4. Head(op[u].todo) = "list"
      BY <1>6 DEF ListKeys, At
    <3>5. q.todo = <<"list", "enum">> \o DestroyKeyPairOnSlot
      BY <3>2, <3>4, RemovalForms
    <3>6. Len(q.todo) # 1 /\ Tail(q.todo) = <<"enum">> \o DestroyKeyPairOnSlot
      BY <3>5, RemovalTails
    <3>7. PICK n : Becomes(u, n) /\ Advanced(q, n, made)
      BY <1>1, <2>2, <3>3, <3>6, Advances
    <3>8. CallType(n, made) /\ Removal(objects, hit', n)
      BY <1>1, <3>2, <3>6, <3>7 DEF Advanced, Removal, ListingToDestroy
    <3> QED
      BY <1>n, <3>7, <3>8
  <2> QED
    BY <1>f, <2>1, <2>2, Zenon
<1>7. CASE EnumKeys(u)
  <2>1. EnumNext(u) \/ Fail(u)
    BY <1>7, EnumeratedNext
  <2>2. Head(op[u].todo) = "enum"
    BY <1>7 DEF EnumKeys, At
  <2>3. op[u].todo = <<"enum">> \o DestroyKeyPairOnSlot
    BY <2>2, RemovalForms
  <2>4. ASSUME EnumNext(u)
        PROVE  Becomes(u, op'[u]) /\ CallType(op'[u], made) /\ Removal(objects, hit', op'[u])
    BY <1>1, <2>3, <2>4 DEF EnumNext, Removal, ListingToDestroy
  <2> QED
    BY <1>f, <1>n, <2>1, <2>4, Zenon
<1>8. CASE Listed(u)
  <2>1. (op[u].queue # <<>> /\ op' = [op EXCEPT ![u] = DestroyNext(op[u])]) \/ Fail(u)
    BY <1>8, Zenon DEF Listed
  <2>2. ASSUME op[u].queue # <<>>, op' = [op EXCEPT ![u] = DestroyNext(op[u])]
        PROVE  PairInv'
    <3>1. TurnsTo(op[u], DestroyNext(op[u]), made) /\ Becomes(u, DestroyNext(op[u]))
      BY <1>1, <2>2, NextCall, Assign, Zenon
    <3> QED
      BY <1>1, <1>n, <3>1, NextRemoval, Zenon
  <2> QED
    BY <1>f, <2>1, <2>2, Zenon
<1> QED
  BY <1>6, <1>7, <1>8

(* What findKey finds is a half of the key asked for.                      *)
LEMMA FoundHalf ==
    ASSUME PairInv, NEW u \in Users, Removal(objects, hit, op[u]), Destroying(objects, hit, op[u]),
           NEW class \in {"private", "public"}
    PROVE  /\ \A x \in Matches(op[u], class) :
                 op[u].id[1] = op[u].place /\ x.handle = HandleOf(class, op[u].id[2])
           /\ Matches(op[u], class) = {} => Absent(objects, op[u], class)
<1>1. op[u].id # NoID /\ op[u].label = NoLabel /\ op[u].typ = AnyType /\ op[u].place \in Slots
  BY DEF Destroying, Removal
<1>2. \A x : x \in Matches(op[u], class) <=> x \in objects /\ x.place = op[u].place /\ x.class = class /\ x.id = op[u].id
  BY <1>1 DEF Matches
<1>3. \A x \in objects : ObjectOK(x, made)
  BY DEF PairInv, ObjectsOK
<1> QED
  BY <1>1, <1>2, <1>3 DEF ObjectOK, Absent

(* findKey for DestroyKeyPairOnSlot.                                       *)
LEMMA RemovalFinds ==
    ASSUME PairInv, NEW u \in Users, Removal(objects, hit, op[u]), op[u].todo # <<>>, files' = files,
           NEW class \in {"private", "public"}, findKey(u, class)
    PROVE  PairInv'
<1> DEFINE o == op[u]
<1>1. /\ DOMAIN op = Users /\ CallType(op[u], made) /\ op[u].place \in Slots /\ op[u].typ = AnyType
  BY RemovedKey
<1>2. UNCHANGED <<objects, made, gone, files>> /\ Head(op[u].todo) = class
  BY DEF findKey, At
<1>3. /\ Destroying(objects, hit, o)
      /\ (class = "private" /\ o.todo = DestroyKeyPairOnSlot) \/ (class = "public" /\ o.todo = Destroy1)
  BY <1>2, RemovalForms
<1>4. o.id # NoID /\ o.label = NoLabel /\ o.lenient /\ o.handle[class] = 0
  BY <1>3 DEF Destroying, DestroyKeyPairOnSlot, Destroy1, Destroy2, Destroy3
<1>5. \E q : /\ Continue(u, q)
             /\ \/ NoFault /\ \E x \in Matches(o, class) : q = [o EXCEPT !.handle[class] = x.handle]
                \/ NoFault /\ Matches(o, class) = {} /\ q = o
                \/ Fault(u) /\ q = o
  BY <1>4, Zenon DEF findKey, NotFound
<1>6. PICK q : /\ Continue(u, q)
               /\ \/ NoFault /\ \E x \in Matches(o, class) : q = [o EXCEPT !.handle[class] = x.handle]
                  \/ NoFault /\ Matches(o, class) = {} /\ q = o
                  \/ Fault(u) /\ q = o
  BY <1>5
<1>7. hit \subseteq hit'
  BY <1>6, HitGrows
<1>8. CallType(q, made) /\ q.todo = o.todo
  <2>1. SameKeys(op[u], op[u], made) /\ \A c, h : SameKeys(op[u], [op[u] EXCEPT !.handle[c] = h], made)
    BY <1>1, AssignedKeys, Zenon
  <2>2. ASSUME NEW x, q = [o EXCEPT !.handle[class] = x.handle]
        PROVE  SameKeys(op[u], q, made)
    <3>1. SameKeys(op[u], [op[u] EXCEPT !.handle[class] = x.handle], made)
      BY <2>1, Zenon
    <3> QED
      BY <2>2, <3>1, Zenon
  <2>3. SameKeys(op[u], q, made)
    BY <1>6, <2>1, <2>2, Zenon
  <2> QED
    BY <2>3 DEF SameKeys
<1>9. Len(q.todo) # 1
  BY <1>3, <1>8, RemovalTails
<1>10. PICK n : Becomes(u, n) /\ Advanced(q, n, made)
  BY <1>1, <1>6, <1>8, <1>9, Advances
<1>11. /\ n.place = o.place /\ n.id = o.id /\ n.label = o.label /\ n.typ = o.typ /\ n.lenient = o.lenient
       /\ \A c \in {"private", "public"} \ {class} : n.handle[c] = o.handle[c]
       /\ \A x : q = [o EXCEPT !.handle[class] = x.handle] => n.handle[class] = x.handle
  <2>1. {"place", "id", "label", "typ", "lenient", "handle"} \subseteq DOMAIN o /\ DOMAIN o.handle = {"private", "public"}
    BY <1>1, CallDomain DEF CallType
  <2>2. ASSUME NEW x, q = [o EXCEPT !.handle[class] = x.handle]
        PROVE  /\ q.place = o.place /\ q.id = o.id /\ q.label = o.label /\ q.typ = o.typ /\ q.lenient = o.lenient
               /\ q.handle[class] = x.handle
               /\ \A c \in {"private", "public"} \ {class} : q.handle[c] = o.handle[c]
    BY <2>1, <2>2
  <2>3. /\ q.place = o.place /\ q.id = o.id /\ q.label = o.label /\ q.typ = o.typ /\ q.lenient = o.lenient
        /\ \A c \in {"private", "public"} \ {class} : q.handle[c] = o.handle[c]
    BY <1>6, <2>2, Zenon
  <2> QED
    BY <1>10, <2>2, <2>3, Zenon DEF Advanced
<1>12. Seen(objects, hit', n, class)
  <2>1. /\ \A x \in Matches(o, class) : o.id[1] = o.place /\ x.handle = HandleOf(class, o.id[2])
        /\ Matches(o, class) = {} => Absent(objects, o, class)
    BY <1>3, FoundHalf
  <2>2. CASE \E x \in Matches(o, class) : q = [o EXCEPT !.handle[class] = x.handle]
    <3>1. \E x \in Matches(o, class) : n.handle[class] = x.handle
      BY <1>11, <2>2, Zenon
    <3> QED
      BY <1>11, <2>1, <3>1 DEF Seen
  <2>3. CASE q = o /\ NoFault /\ Matches(o, class) = {}
    <3>1. Absent(objects, n, class)
      BY <1>11, <2>1, <2>3 DEF Absent
    <3>2. n.handle[class] = 0
      BY <1>4, <1>10, <2>3 DEF Advanced
    <3> QED
      BY <3>1, <3>2 DEF Seen
  <2>4. CASE q = o /\ Fault(u)
    <3>1. n.id \in hit'
      BY <1>11, <2>4 DEF Fault
    <3>2. n.handle[class] = 0
      BY <1>4, <1>10, <2>4 DEF Advanced
    <3> QED
      BY <3>1, <3>2 DEF Seen
  <2> QED
    BY <1>6, <2>2, <2>3, <2>4, Zenon
<1>13. Destroying(objects, hit', n)
  <2>1. CASE class = "private" /\ o.todo = DestroyKeyPairOnSlot
    <3>1. n.todo = Destroy1
      BY <1>8, <1>10, <2>1, RemovalTails DEF Advanced
    <3>2. o.handle["public"] = 0
      BY <1>3, <2>1 DEF Destroying, DestroyKeyPairOnSlot, Destroy1, Destroy2, Destroy3
    <3>3. n.handle["public"] = 0
      BY <1>11, <2>1, <3>2
    <3> QED
      BY <1>4, <1>11, <1>12, <2>1, <3>1, <3>3 DEF Destroying
  <2>2. CASE class = "public" /\ o.todo = Destroy1
    <3>1. n.todo = Destroy2
      BY <1>8, <1>10, <2>2, RemovalTails DEF Advanced
    <3>2. Seen(objects, hit, o, "private")
      BY <1>3, <2>2 DEF Destroying, DestroyKeyPairOnSlot, Destroy1, Destroy2, Destroy3
    <3>3. n.handle["private"] = o.handle["private"] /\ n.id = o.id /\ n.place = o.place
      BY <1>11, <2>2
    <3>4. Seen(objects, hit', n, "private")
      BY <1>7, <3>2, <3>3 DEF Seen, Absent
    <3> QED
      BY <1>4, <1>11, <1>12, <2>2, <3>1, <3>4 DEF Destroying
  <2> QED
    BY <1>3, <2>1, <2>2
<1>14. KeyCall(objects, hit', n) /\ CallType(n, made)
  BY <1>1, <1>10, <1>11, <1>13 DEF KeyCall, Removal, Advanced
<1>15. \A x \in objects : ~Removing(u, x)
  BY <1>2 DEF Removing, At
<1> QED
  BY <1>2, <1>7, <1>10, <1>14, <1>15, KeysUnmoved

(* The handle a call has seen is that of a half of its key.                *)
LEMMA SeenHandle ==
    ASSUME PairInv, NEW o, o.place \in Slots, o.id \in OldIDs(made), NEW class \in {"private", "public"},
           Seen(objects, hit, o, class)
    PROVE  /\ o.handle[class] = 0 => o.id \in hit \/ Absent(objects, o, class)
           /\ \A x \in objects : x.place = o.place /\ x.handle = o.handle[class] => x.class = class /\ x.id = o.id
           /\ \A x \in objects : x.place = o.place /\ x.id = o.id /\ x.class = class =>
                 x.handle = o.handle[class] \/ o.id \in hit
<1>1. made \in [Places -> Nat] /\ \A x \in objects : ObjectOK(x, made)
  BY DEF PairInv, ObjectsOK
<1>2. \A i \in OldIDs(made) : \A c \in {"private", "public"} : HandleOf(c, i[2]) # 0
  BY DEF OldIDs, HandleOf
<1>3. o.handle[class] = 0 => o.id \in hit \/ Absent(objects, o, class)
  BY <1>2 DEF Seen
<1>4. ASSUME NEW x \in objects, x.place = o.place, x.handle = o.handle[class]
      PROVE  x.class = class /\ x.id = o.id
  <2>1. ObjectOK(x, made)
    BY <1>1
  <2>2. x.handle # 0
    BY <1>2, <1>4, <2>1 DEF ObjectOK
  <2>3. o.id[1] = o.place /\ o.handle[class] = HandleOf(class, o.id[2])
    BY <1>4, <2>2 DEF Seen
  <2> QED
    BY <1>1, <1>4, <2>1, <2>3, HandleDecides
<1>5. ASSUME NEW x \in objects, x.place = o.place, x.id = o.id, x.class = class
      PROVE  x.handle = o.handle[class] \/ o.id \in hit
  <2>1. ObjectOK(x, made)
    BY <1>1
  <2>2. CASE o.handle[class] = 0
    BY <1>3, <1>5, <2>2 DEF Absent
  <2>3. CASE o.handle[class] # 0
    BY <1>5, <2>1, <2>3 DEF Seen, ObjectOK
  <2> QED
    BY <2>2, <2>3
<1> QED
  BY <1>3, <1>4, <1>5

(* The private half is destroyed.                                          *)
LEMMA PrivateGone ==
    ASSUME PairInv, NEW u \in Users, Removal(objects, hit, op[u]), op[u].todo # <<>>, files' = files,
           DestroyObject(u, "private")
    PROVE  PairInv'
<1> DEFINE o == op[u]
           p == op[u].place
           id == op[u].id
<1>1. DOMAIN op = Users /\ CallType(op[u], made) /\ p \in Slots /\ op[u].typ = AnyType /\ made' = made
  BY RemovedKey DEF DestroyObject
<1>2. Head(op[u].todo) = "rmprivate"
  BY DEF DestroyObject, At, RmStep
<1>3. op[u].todo = Destroy2 /\ Destroying(objects, hit, op[u])
  BY <1>2, RemovalForms
<1>4. /\ id # NoID /\ op[u].label = NoLabel /\ op[u].lenient
      /\ Seen(objects, hit, op[u], "private") /\ Seen(objects, hit, op[u], "public")
  BY <1>3 DEF Destroying, DestroyKeyPairOnSlot, Destroy1, Destroy2, Destroy3
<1>5. id \in OldIDs(made)
  BY <1>3, RemovedKey
<1>6. \A x \in objects : ~Removing(u, x)
  BY <1>2 DEF Removing, At
<1>7. CASE (Fault(u) \/ NoFault) /\ Fail(u) /\ UNCHANGED <<objects, gone>>
  <2>1. hit \subseteq hit'
    BY <1>7, HitGrows
  <2> QED
    BY <1>1, <1>6, <1>7, <2>1, GivesUp
<1>8. ASSUME NoFault, HalfDestroyed(u, "private"), NEW S, objects' = objects \ S,
             \A x \in S : x.place = p /\ x.id = id,
             id \in hit \/ Absent(objects', op[u], "private")
      PROVE  PairInv'
  <2>1. Continue(u, op[u]) /\ gone' = gone /\ hit' = hit
    BY <1>8 DEF HalfDestroyed, NoFault
  <2>2. Len(op[u].todo) # 1
    BY <1>3, RemovalTails
  <2>3. PICK n : Becomes(u, n) /\ Advanced(op[u], n, made)
    BY <1>1, <2>1, <2>2, Advances
  <2>4. /\ n.todo = Destroy3 /\ n.place = p /\ n.id = id /\ n.handle = op[u].handle /\ n.label = NoLabel
        /\ n.lenient /\ n.typ = AnyType /\ CallType(n, made)
    BY <1>1, <1>3, <1>4, <2>3, RemovalTails DEF Advanced
  <2>5. Seen(objects', hit, n, "public")
    BY <1>4, <1>8, <2>4 DEF Seen, Absent
  <2>6. id \in hit \/ Absent(objects', n, "private")
    BY <1>8, <2>4 DEF Absent
  <2>7. KeyCall(objects', hit, n)
    BY <1>1, <1>4, <2>4, <2>5, <2>6 DEF KeyCall, Removal, Destroying
  <2>8. ASSUME id \notin hit, NEW x \in objects', x.place = p, x.id = id
        PROVE  x.class = "public" /\ Removing(u, x)'
    <3>1. x \in objects
      BY <1>8
    <3>2. x.class \in {"private", "public"}
      BY <1>1, <2>8, <3>1 DEF PairInv, ObjectsOK, ObjectOK
    <3>3. x.class = "public"
      BY <1>8, <2>8, <3>2 DEF Absent
    <3>4. x.handle = op[u].handle["public"]
      BY <1>1, <1>4, <1>5, <2>8, <3>1, <3>3, SeenHandle
    <3>5. op'[u] = n
      BY <2>3 DEF Becomes
    <3>6. Destroy3 # <<>> /\ Head(Destroy3) = "rmpublic"
      BY DEF Destroy3
    <3> QED
      BY <2>4, <2>8, <3>3, <3>4, <3>5, <3>6 DEF Removing, At
  <2>9. \/ id \in hit
        \/ /\ gone' = gone
           /\ \A x \in objects' : x.place = p /\ x.id = id => x.class = "public" /\ Removing(u, x)'
        \/ \A x \in objects' : x.place = p => x.id # id
    BY <2>1, <2>8
  <2>10. UNCHANGED <<made, hit, files>> /\ \A g \in gone' : g \in gone \/ g = <<p, id>>
    BY <1>1, <2>1
  <2>11. \A x \in objects : x.place \in Slots /\ Removing(u, x) => x.place = p /\ x.id = id
    BY <1>6
  <2> HIDE DEF p, id
  <2> QED
    <3>1. PairInv /\ u \in Users /\ Becomes(u, n) /\ CallType(n, made) /\ KeyCall(objects', hit, n)
      BY <2>3, <2>4, <2>7
    <3>2. id \in OldIDs(made) /\ p \in Slots /\ objects' = objects \ S /\ \A x \in S : x.place = p /\ x.id = id
      BY <1>1, <1>5, <1>8
    <3> QED
      BY <2>9, <2>10, <2>11, <3>1, <3>2, HalfGone
<1>9. CASE NoFault /\ HalfDestroyed(u, "private") /\ op[u].handle["private"] = 0 /\ UNCHANGED objects
  <2>1. id \in hit \/ Absent(objects, op[u], "private")
    BY <1>1, <1>4, <1>5, <1>9, SeenHandle
  <2> DEFINE S == {}
  <2>2. /\ objects' = objects \ S /\ (\A x \in S : x.place = p /\ x.id = id)
        /\ id \in hit \/ Absent(objects', op[u], "private")
    BY <1>9, <2>1
  <2> HIDE DEF S
  <2> QED
    BY <1>8, <1>9, <2>2
<1>10. CASE NoFault /\ \E x \in Object(op[u], "private") : objects' = objects \ {x} /\ HalfDestroyed(u, "private")
  <2>1. PICK x \in Object(op[u], "private") : objects' = objects \ {x} /\ HalfDestroyed(u, "private")
    BY <1>10
  <2>2. x \in objects /\ x.place = p /\ x.handle = op[u].handle["private"]
    BY <2>1 DEF Object
  <2>3. x.id = id
    BY <1>1, <1>4, <1>5, <2>2, SeenHandle
  <2>4. ASSUME id \notin hit, NEW y \in objects', y.place = p, y.id = id
        PROVE  y.class # "private"
    <3>1. y \in objects /\ y # x
      BY <2>1
    <3>2. y.class = "private" => y.handle = op[u].handle["private"]
      BY <1>1, <1>4, <1>5, <2>4, <3>1, SeenHandle
    <3> QED
      BY <1>1, <2>2, <2>4, <3>1, <3>2 DEF PairInv, ObjectsOK
  <2>5. id \in hit \/ Absent(objects', op[u], "private")
    BY <2>4 DEF Absent
  <2> DEFINE S == {x}
  <2>6. objects' = objects \ S /\ \A y \in S : y.place = p /\ y.id = id
    BY <2>1, <2>2, <2>3
  <2> HIDE DEF S
  <2> QED
    BY <1>8, <1>10, <2>1, <2>5, <2>6
<1> QED
  BY <1>7, <1>9, <1>10, Zenon DEF DestroyObject, Lost

(* The public half is destroyed, and with it the key.                      *)
LEMMA PublicGone ==
    ASSUME PairInv, NEW u \in Users, Removal(objects, hit, op[u]), op[u].todo # <<>>, files' = files,
           DestroyObject(u, "public")
    PROVE  PairInv'
<1> DEFINE p == op[u].place
           id == op[u].id
<1>1. DOMAIN op = Users /\ CallType(op[u], made) /\ p \in Slots /\ op[u].typ = AnyType /\ made' = made
  BY RemovedKey DEF DestroyObject
<1>2. Head(op[u].todo) = "rmpublic"
  BY DEF DestroyObject, At, RmStep
<1>3. op[u].todo = Destroy3 /\ Destroying(objects, hit, op[u])
  BY <1>2, RemovalForms
<1>4. /\ Seen(objects, hit, op[u], "public")
      /\ id \in hit \/ Absent(objects, op[u], "private")
  BY <1>3 DEF Destroying, DestroyKeyPairOnSlot, Destroy1, Destroy2, Destroy3
<1>5. id \in OldIDs(made)
  BY <1>3, RemovedKey
<1>6. \A x \in objects : Removing(u, x) => x.place = p /\ x.handle = op[u].handle["public"] /\ x.id = id
  <2>1. \A x \in objects : x.place = p /\ x.handle = op[u].handle["public"] => x.id = id
    BY <1>1, <1>4, <1>5, SeenHandle
  <2> QED
    BY <2>1 DEF Removing
<1>7. CASE Fault(u) /\ Fail(u) /\ UNCHANGED <<objects, gone>>
  <2>1. hit \subseteq hit' /\ id \in hit'
    BY <1>7 DEF Fault
  <2> QED
    BY <1>1, <1>6, <1>7, <2>1, GivesUp
<1>8. CASE Object(op[u], "public") = {} /\ NoFault /\ Fail(u) /\ UNCHANGED <<objects, gone>>
  <2>1. \A x \in objects : ~Removing(u, x)
    BY <1>6, <1>8 DEF Object
  <2>2. hit \subseteq hit'
    BY <1>8, HitGrows
  <2> QED
    BY <1>1, <1>8, <2>1, <2>2, GivesUp
<1>9. ASSUME NoFault, HalfDestroyed(u, "public"), NEW S, objects' = objects \ S,
             \A x \in S : x.place = p /\ x.id = id,
             id \in hit \/ Absent(objects', op[u], "public")
      PROVE  PairInv'
  <2>1. /\ gone' = gone \cup {<<p, id>>} /\ hit' = hit
        /\ (op[u].queue # <<>> /\ op' = [op EXCEPT ![u] = DestroyNext(op[u])]) \/ Continue(u, op[u])
    BY <1>9 DEF HalfDestroyed, NoFault
  <2>2. \E n : Becomes(u, n) /\ CallType(n, made) /\ KeyCall(objects', hit, n)
    <3>1. CASE op[u].queue # <<>> /\ op' = [op EXCEPT ![u] = DestroyNext(op[u])]
      <4>1. TurnsTo(op[u], DestroyNext(op[u]), made) /\ Becomes(u, DestroyNext(op[u]))
        BY <1>1, <3>1, NextCall, Assign, Zenon
      <4>2. CallType(DestroyNext(op[u]), made) /\ Removal(objects', hit, DestroyNext(op[u]))
        BY <1>1, <4>1, NextRemoval, Zenon
      <4> QED
        BY <4>1, <4>2, Zenon DEF KeyCall
    <3>2. CASE Continue(u, op[u])
      <4>1. op' = [op EXCEPT ![u] = Idle]
        BY <1>3, <3>2, RemovalTails DEF Continue
      <4>2. Becomes(u, Idle) /\ CallType(Idle, made) /\ KeyCall(objects', hit, Idle)
        BY <1>1, <4>1, Assign, IdlePair DEF KeyCall
      <4> QED
        BY <4>2
    <3> QED
      BY <2>1, <3>1, <3>2
  <2>3. PICK n : Becomes(u, n) /\ CallType(n, made) /\ KeyCall(objects', hit, n)
    BY <2>2
  <2>4. ASSUME id \notin hit, NEW x \in objects', x.place = p
        PROVE  x.id # id
    <3>1. x \in objects
      BY <1>9
    <3>2. x.class \in {"private", "public"}
      BY <1>1, <2>4, <3>1 DEF PairInv, ObjectsOK, ObjectOK
    <3> QED
      BY <1>4, <1>9, <2>4, <3>1, <3>2 DEF Absent
  <2>5. \/ id \in hit
        \/ /\ gone' = gone
           /\ \A x \in objects' : x.place = p /\ x.id = id => x.class = "public" /\ Removing(u, x)'
        \/ \A x \in objects' : x.place = p => x.id # id
    BY <2>4
  <2>6. UNCHANGED <<made, hit, files>> /\ \A g \in gone' : g \in gone \/ g = <<p, id>>
    BY <1>1, <2>1
  <2>7. \A x \in objects : x.place \in Slots /\ Removing(u, x) => x.place = p /\ x.id = id
    BY <1>6
  <2> HIDE DEF p, id
  <2>8. PairInv /\ u \in Users /\ Becomes(u, n) /\ CallType(n, made) /\ KeyCall(objects', hit, n)
    BY <2>3
  <2>9. id \in OldIDs(made) /\ p \in Slots /\ objects' = objects \ S /\ \A x \in S : x.place = p /\ x.id = id
    BY <1>1, <1>5, <1>9
  <2> QED
    BY <2>5, <2>6, <2>7, <2>8, <2>9, HalfGone
<1>10. CASE NoFault /\ HalfDestroyed(u, "public") /\ op[u].handle["public"] = 0 /\ UNCHANGED objects
  <2>1. id \in hit \/ Absent(objects, op[u], "public")
    BY <1>1, <1>4, <1>5, <1>10, SeenHandle
  <2> DEFINE S == {}
  <2>2. /\ objects' = objects \ S /\ (\A x \in S : x.place = p /\ x.id = id)
        /\ id \in hit \/ Absent(objects', op[u], "public")
    BY <1>10, <2>1
  <2> HIDE DEF S
  <2> QED
    BY <1>9, <1>10, <2>2
<1>11. CASE NoFault /\ \E x \in Object(op[u], "public") : objects' = objects \ {x} /\ HalfDestroyed(u, "public")
  <2>1. PICK x \in Object(op[u], "public") : objects' = objects \ {x} /\ HalfDestroyed(u, "public")
    BY <1>11
  <2>2. x \in objects /\ x.place = p /\ x.handle = op[u].handle["public"]
    BY <2>1 DEF Object
  <2>3. x.id = id
    BY <1>1, <1>4, <1>5, <2>2, SeenHandle
  <2>4. ASSUME id \notin hit, NEW y \in objects', y.place = p, y.id = id
        PROVE  y.class # "public"
    <3>1. y \in objects /\ y # x
      BY <2>1
    <3>2. y.class = "public" => y.handle = op[u].handle["public"]
      BY <1>1, <1>4, <1>5, <2>4, <3>1, SeenHandle
    <3> QED
      BY <1>1, <2>2, <2>4, <3>1, <3>2 DEF PairInv, ObjectsOK
  <2>5. id \in hit \/ Absent(objects', op[u], "public")
    BY <2>4 DEF Absent
  <2> DEFINE S == {x}
  <2>6. objects' = objects \ S /\ \A y \in S : y.place = p /\ y.id = id
    BY <2>1, <2>2, <2>3
  <2> HIDE DEF S
  <2> QED
    BY <1>9, <1>11, <2>1, <2>5, <2>6
<1> QED
  BY <1>7, <1>8, <1>10, <1>11, Zenon DEF DestroyObject, Lost

(* Every function of such a call.                                          *)
LEMMA RemovalTokenStep ==
    ASSUME PairInv, NEW u \in Users, Removal(objects, hit, op[u]), op[u].todo # <<>>, files' = files, TokenStep(u)
    PROVE  PairInv'
<1>1. Head(op[u].todo) \in {"list", "enum", "private", "public", "rmprivate", "rmpublic"}
  BY RemovalForms
<1>2. ~(GetKeyType(u) \/ ExportPublicKey(u) \/ GenerateKeyPair(u) \/ Identify(u) \/ GetInfo(u))
  BY <1>1 DEF GetKeyType, ExportPublicKey, GenerateKeyPair, Identify, GetInfo, At
<1>3. ASSUME NEW class \in {"private", "public"}, DestroyObject(u, class)
      PROVE  PairInv'
  BY <1>3, PrivateGone, PublicGone
<1> QED
  BY <1>2, <1>3, RemovalLists, RemovalFinds, Zenon DEF TokenStep

-----------------------------------------------------------------------------
(* The steps.                                                              *)

(* A step of a call.                                                       *)
LEMMA PairSteps ==
    ASSUME PairInv, CryptoInv, Loaded, NEW u \in Users, op[u].todo # <<>>, Steps(u)
    PROVE  PairInv'
<1>1. Ordinary(op[u]) \/ Removal(objects, hit, op[u])
  BY DEF PairInv, PairCalls, KeyCall
<1>2. Removal(objects, hit, op[u]) =>
         Head(op[u].todo) \in {"list", "enum", "private", "public", "rmprivate", "rmpublic"}
  BY RemovalForms
<1>3. CASE TokenStep(u) /\ UNCHANGED <<scenario, providerVars>>
  <2>1. files' = files
    BY <1>3 DEF providerVars
  <2> QED
    BY <1>1, <1>3, <2>1, OrdinaryTokenStep, RemovalTokenStep
<1>4. CASE CreateKey(u) \/ DescribeKey(u) \/ GetPublicKey(u) \/ KmsEnumKeys(u) \/ ScheduleKeyDeletion(u)
  <2>1. Ordinary(op[u])
    BY <1>1, <1>2, <1>4 DEF CreateKey, DescribeKey, GetPublicKey, KmsEnumKeys, ScheduleKeyDeletion, At
  <2> QED
    BY <1>4, <2>1, CreateStep, DescribeStep, KmsEnumStep, ScheduleStep
<1>5. CASE Save(u) \/ Hold(u) \/ MakeRequest(u) \/ SignRoot(u) \/ LocalSign(u) \/ SelfSign(u) \/ WriteFiles(u)
  <2>1. Ordinary(op[u])
    BY <1>1, <1>2, <1>5 DEF Save, Hold, MakeRequest, SignRoot, LocalSign, SelfSign, WriteFiles, At
  <2> QED
    BY <1>5, <2>1, SavingStep
<1>6. CASE NextIssuer(u) \/ NewIssuer(u) \/ NewLocalCASigner(u)
  <2>1. Ordinary(op[u])
    BY <1>1, <1>2, <1>6 DEF NextIssuer, NewIssuer, NewLocalCASigner, At
  <2> QED
    BY <1>6, <2>1, IssuerPairStep
<1> QED
  BY <1>3, <1>4, <1>5, <1>6, Zenon DEF Steps, ProviderStep

(* The ids users may know are those of keys that were made.                *)
LEMMA KnownWereMade == PairInv => Known \subseteq KnownIDs(made)
<1> SUFFICES ASSUME PairInv PROVE Known \subseteq KnownIDs(made)
  OBVIOUS
<1>1. \A x \in objects : x.id \in KnownIDs(made)
  BY DEF PairInv, ObjectsOK, ObjectOK, KnownIDs
<1>2. \A f \in files : f.of \in KnownIDs(made)
  BY DEF PairInv, IdsOK, FileOK
<1>3. \A g \in gone : g[2] \in KnownIDs(made)
  BY DEF PairInv, IdsOK
<1> QED
  BY <1>1, <1>2, <1>3 DEF Known

(* A command begins n.                                                     *)
LEMMA BeginPair ==
    \A n, c : \A u \in Users :
       /\ PairInv /\ op[u].todo = <<>> /\ Begin(u, c, n)
       /\ CallType(n, made) /\ (Ordinary(n) \/ Removal(objects, hit, n))
       => PairInv'
<1> SUFFICES ASSUME NEW n, NEW c, NEW u \in Users, PairInv, op[u].todo = <<>>, Begin(u, c, n),
                    CallType(n, made), Ordinary(n) \/ Removal(objects, hit, n)
             PROVE  PairInv'
  BY Zenon
<1>1. op' = [op EXCEPT ![u] = n] /\ UNCHANGED <<objects, made, gone, files, hit>>
  BY DEF Begin, providerVars
<1>2. Becomes(u, n)
  BY <1>1, Assign DEF PairInv, PairCalls
<1>3. KeyCall(objects, hit', n)
  BY <1>1 DEF KeyCall
<1>4. \A x \in objects : ~Removing(u, x)
  BY DEF Removing, At
<1> QED
  BY <1>1, <1>2, <1>3, <1>4, KeysUnmoved

(* A new call that destroys nothing on a slot.                             *)
LEMMA BeginOrdinary ==
    \A n, c, t, w : \A i \in KnownIDs(made) : \A u \in Users :
       /\ PairInv /\ op[u].todo = <<>> /\ Begin(u, c, n)
       /\ NewCall(n, t, w, i) /\ w \in Places /\ (w \in Slots => t \in Seq(OnSlot))
       => PairInv'
<1>1. \A n, t, w : \A i \in KnownIDs(made) :
         NewCall(n, t, w, i) /\ w \in Places /\ (w \in Slots => t \in Seq(OnSlot)) => CallType(n, made) /\ Ordinary(n)
  BY NewCallType, OrdinaryCall, Zenon DEF NewCall
<1> QED
  BY <1>1, BeginPair, Zenon

(* The commands that make a key.                                           *)
LEMMA MakingPair ==
    ASSUME PairInv, CryptoInv, Loaded, NEW u \in Users, op[u].todo = <<>>, NEW kr, NEW label, NEW root,
           NEW p \in Providers,
           HsmGenKey(u, kr, label) \/ CreateRequestAndExportKey(u, p, kr) \/ NewRoot(u, p, kr, root)
    PROVE  PairInv'
<1>1. p \in ProviderConfigs /\ Default \in ProviderConfigs
  BY ProvidersThere
<1>2. \A q \in ProviderConfigs :
         /\ q.place \in Places
         /\ q.place \in Slots => GenerateKey(q, TypeOf(kr)) \in Seq(OnSlot) /\ ExportKey(q) \in Seq(OnSlot)
  BY SlotProviders
<1>3. NoID \in KnownIDs(made)
  BY DEF KnownIDs
<1>4. CASE HsmGenKey(u, kr, label)
  <2> DEFINE t == GenerateKey(Default, TypeOf(kr)) \o ExportKey(Default) \o <<"save">>
             n == [Call(t, Default.place) EXCEPT !.typ = TypeOf(kr), !.uses = kr.uses, !.label = label]
  <2>1. Default.place \in Slots => t \in Seq(OnSlot)
    BY <1>1, <1>2, SlotConcat, SlotFunctions, Zenon
  <2>2. NewCall(n, t, Default.place, NoID)
    BY NewCalls, Zenon
  <2>3. Begin(u, "genkey", n)
    BY <1>4, Zenon DEF HsmGenKey
  <2> HIDE DEF t, n
  <2> QED
    BY <1>1, <1>2, <1>3, <2>1, <2>2, <2>3, BeginOrdinary, Zenon
<1>5. CASE CreateRequestAndExportKey(u, p, kr)
  <2> DEFINE t == GenerateKey(p, TypeOf(kr)) \o <<"request">> \o ExportKey(p) \o <<"save">>
             n == [Call(t, p.place) EXCEPT !.typ = TypeOf(kr), !.uses = kr.uses]
  <2>1. p.place \in Slots => t \in Seq(OnSlot)
    BY <1>1, <1>2, SlotConcat, SlotFunctions, Zenon
  <2>2. NewCall(n, t, p.place, NoID)
    BY NewCalls, Zenon
  <2>3. Begin(u, "request", n)
    BY <1>5, Zenon DEF CreateRequestAndExportKey
  <2> HIDE DEF t, n
  <2> QED
    BY <1>1, <1>2, <1>3, <2>1, <2>2, <2>3, BeginOrdinary, Zenon
<1>6. CASE NewRoot(u, p, kr, root)
  <2> DEFINE t == GenerateKey(p, TypeOf(kr)) \o <<"request">> \o ExportKey(p) \o <<"root">>
             n == [Call(t, p.place) EXCEPT !.typ = TypeOf(kr), !.uses = kr.uses, !.job = <<root>>]
  <2>1. p.place \in Slots => t \in Seq(OnSlot)
    BY <1>1, <1>2, SlotConcat, SlotFunctions, Zenon
  <2>2. NewCall(n, t, p.place, NoID)
    BY NewCalls, Zenon
  <2>3. Begin(u, "root", n)
    BY <1>6, Zenon DEF NewRoot
  <2> HIDE DEF t, n
  <2> QED
    BY <1>1, <1>2, <1>3, <2>1, <2>2, <2>3, BeginOrdinary, Zenon
<1> QED
  BY <1>4, <1>5, <1>6

(* The commands that read keys there are, or make one on a slot.           *)
LEMMA ReadingPair ==
    ASSUME PairInv, CryptoInv, Loaded, NEW u \in Users, op[u].todo = <<>>, NEW slot \in Slots, NEW typ, NEW label,
           NEW id \in KnownIDs(made), NEW public \in BOOLEAN,
           GenerateOnSlot(u, slot, typ, label) \/ FindOnSlot(u, slot, id, label) \/ HsmKeyInfo(u, id, public)
    PROVE  PairInv'
<1>1. slot \in Places /\ NoID \in KnownIDs(made)
  BY DEF Places, KnownIDs
<1>2. CASE GenerateOnSlot(u, slot, typ, label)
  <2> DEFINE t == <<"generate", "export">>
             n == [Call(t, slot) EXCEPT !.typ = typ, !.label = label]
  <2>1. NewCall(n, t, slot, NoID) /\ t \in Seq(OnSlot)
    BY NewCalls, SlotFunctions, Zenon
  <2>2. Begin(u, "generate", n)
    BY <1>2, Zenon DEF GenerateOnSlot
  <2> HIDE DEF t, n
  <2> QED
    BY <1>1, <2>1, <2>2, BeginOrdinary, Zenon
<1>3. CASE FindOnSlot(u, slot, id, label)
  <2> DEFINE t == FindKeyPairOnSession \o <<"hold">>
             n == [Call(t, slot) EXCEPT !.id = id, !.label = label]
  <2>1. NewCall(n, t, slot, id) /\ t \in Seq(OnSlot)
    BY NewCalls, SlotFunctions, SlotConcat, Zenon
  <2>2. Begin(u, "find", n)
    BY <1>3, Zenon DEF FindOnSlot
  <2> HIDE DEF t, n
  <2> QED
    BY <1>1, <2>1, <2>2, BeginOrdinary, Zenon
<1>4. CASE HsmKeyInfo(u, id, public)
  <2> DEFINE w == Default.place
             t == KeyInfo(w, public)
             n == [Call(t, w) EXCEPT !.id = id, !.lenient = TRUE]
  <2>1. w \in Places
    BY ProvidersThere, SlotProviders
  <2>2. <<>> \in Seq(OnSlot)
    BY EmptySeq
  <2>3. Crypto11KeyInfo(public) \in Seq(OnSlot)
    BY <2>2, SlotFunctions, SlotConcat, Zenon DEF Crypto11KeyInfo
  <2>4. w \in Slots => t \in Seq(OnSlot)
    BY <2>3, Zenon DEF KeyInfo
  <2>5. NewCall(n, t, w, id)
    BY NewCalls, Zenon
  <2>6. Begin(u, "keyinfo", n)
    BY <1>4, Zenon DEF HsmKeyInfo
  <2> HIDE DEF w, t, n
  <2> QED
    BY <2>1, <2>4, <2>5, <2>6, BeginOrdinary, Zenon
<1> QED
  BY <1>2, <1>3, <1>4

(* The commands that list keys or destroy them.                            *)
LEMMA RemovingPair ==
    ASSUME PairInv, CryptoInv, Loaded, NEW u \in Users, op[u].todo = <<>>, NEW label, NEW id \in KnownIDs(made),
           HsmKeys(u, label) \/ HsmRmKey(u, id) \/ HsmRmKeys(u, label)
    PROVE  PairInv'
<1> DEFINE w == Default.place
           kms == Default.kind = "kms"
<1>1. NoID \in KnownIDs(made)
  BY DEF KnownIDs
<1>2. Default \in ProviderConfigs
  BY ProvidersThere
<1>3. (kms => w \in Stores) /\ (Manager(Default) /\ ~kms => w \in Slots)
  BY <1>2, SlotProviders DEF Manager, Places
<1>4. CASE HsmKeys(u, label)
  <2> DEFINE t == IF kms THEN <<"kmslist">> ELSE <<"list", "enum">>
             n == [Call(t, w) EXCEPT !.label = label]
  <2>1. NewCall(n, t, w, NoID)
    BY NewCalls, Zenon
  <2>2. Begin(u, "lskey", n) /\ Manager(Default)
    BY <1>4, Zenon DEF HsmKeys
  <2>3. ~kms => t \in Listing
    BY DEF Listing
  <2> HIDE DEF t, n, w, kms
  <2>4. CallType(n, made)
    BY <1>1, <2>1, NewCallType, Zenon
  <2>5. Ordinary(n)
    BY <1>3, <2>1, <2>2, <2>3, Zenon DEF Ordinary, NewCall
  <2> QED
    BY <2>2, <2>4, <2>5, BeginPair, Zenon
<1>5. CASE HsmRmKey(u, id)
  <2> DEFINE t == IF kms THEN KmsDestroyKeyPairOnSlot ELSE DestroyKeyPairOnSlot
             n == [Call(t, w) EXCEPT !.id = id, !.lenient = TRUE]
  <2>1. NewCall(n, t, w, id)
    BY NewCalls, Zenon
  <2>2. Begin(u, "rmkey", n) /\ Manager(Default) /\ id # NoID
    BY <1>5, Zenon DEF HsmRmKey
  <2>3. ~kms => t = DestroyKeyPairOnSlot
    OBVIOUS
  <2>4. n.label = NoLabel /\ n.lenient /\ n.typ = AnyType
    BY DEF Call
  <2> HIDE DEF t, n, w, kms
  <2>5. CallType(n, made)
    BY <2>1, NewCallType, Zenon
  <2>6. n.handle["private"] = 0 /\ n.handle["public"] = 0 /\ n.todo = t /\ n.place = w /\ n.id = id
    BY <2>1 DEF NewCall
  <2>7. ~kms => Removal(objects, hit, n)
    BY <1>3, <2>2, <2>3, <2>4, <2>6, Zenon DEF Removal, Destroying
  <2>8. kms => Ordinary(n)
    BY <1>3, <2>6, Zenon DEF Ordinary
  <2> QED
    BY <2>2, <2>5, <2>7, <2>8, BeginPair, Zenon
<1>6. CASE HsmRmKeys(u, label)
  <2> DEFINE t == IF kms THEN <<"kmslist", "schedule">> ELSE <<"list", "enum">> \o DestroyKeyPairOnSlot
             n == [Call(t, w) EXCEPT !.label = label]
  <2>1. NewCall(n, t, w, NoID)
    BY NewCalls, Zenon
  <2>2. Begin(u, "rmkeys", n) /\ Manager(Default)
    BY <1>6, Zenon DEF HsmRmKeys
  <2>3. ~kms => t \in ListingToDestroy
    BY DEF ListingToDestroy
  <2>4. n.typ = AnyType
    BY DEF Call
  <2> HIDE DEF t, n, w, kms
  <2>5. CallType(n, made)
    BY <1>1, <2>1, NewCallType, Zenon
  <2>6. n.todo = t /\ n.place = w
    BY <2>1 DEF NewCall
  <2>7. ~kms => Removal(objects, hit, n)
    BY <1>3, <2>2, <2>3, <2>4, <2>6, Zenon DEF Removal
  <2>8. kms => Ordinary(n)
    BY <1>3, <2>6, Zenon DEF Ordinary
  <2> QED
    BY <2>2, <2>5, <2>7, <2>8, BeginPair, Zenon
<1> QED
  BY <1>4, <1>5, <1>6

(* What the invariant is about.                                            *)
pairVars == <<objects, made, op, hit, gone, files>>

(* Steps that are not about keys.                                          *)
LEMMA PairKept == PairInv /\ UNCHANGED pairVars => PairInv'
<1> SUFFICES ASSUME PairInv, UNCHANGED pairVars PROVE PairInv'
  OBVIOUS
<1>1. UNCHANGED <<objects, made, op, hit, gone, files>>
  BY DEF pairVars
<1>2. ObjectsOK'
  BY <1>1 DEF PairInv, ObjectsOK, ObjectOK, OldIDs
<1>3. IdsOK'
  BY <1>1 DEF PairInv, IdsOK, FileOK, KnownIDs, OldIDs
<1>4. PairCalls'
  BY <1>1, Zenon DEF PairInv, PairCalls
<1>5. PairsWhole'
  BY <1>1 DEF PairInv, PairsWhole, Removing, At
<1> QED
  BY <1>2, <1>3, <1>4, <1>5 DEF PairInv

(* A key file is loaded.                                                   *)
LEMMA LoadPair ==
    ASSUME PairInv, CryptoInv, NEW u \in Users, op[u].todo = <<>>, NEW f \in files, LoadPrivateKey(u, f)
    PROVE  PairInv'
<1>1. CASE UNCHANGED pairVars
  BY <1>1, PairKept
<1>2. ASSUME f.form = "uri", NEW p \in Asked(f),
             Begin(u, "load", [Call(GetKey(p) \o <<"hold">>, p.place) EXCEPT !.id = f.id, !.file = f])
      PROVE  PairInv'
  <2> DEFINE t == GetKey(p) \o <<"hold">>
             n == [Call(t, p.place) EXCEPT !.id = f.id, !.file = f]
  <2>1. p \in ProviderConfigs
    BY ProvidersThere
  <2>2. p.place \in Places /\ (p.place \in Slots => GetKey(p) \in Seq(OnSlot))
    BY <2>1, SlotProviders
  <2>3. p.place \in Slots => t \in Seq(OnSlot)
    BY <2>2, SlotConcat, SlotFunctions, Zenon
  <2>4. f.id \in KnownIDs(made)
    BY <1>2 DEF PairInv, IdsOK, FileOK
  <2>5. NewCall(n, t, p.place, f.id)
    BY NewCalls, Zenon
  <2>6. Begin(u, "load", n)
    BY <1>2
  <2> HIDE DEF t, n
  <2> QED
    BY <2>2, <2>3, <2>4, <2>5, <2>6, BeginOrdinary, Zenon
<1>3. \/ UNCHANGED pairVars
      \/ f.form = "uri" /\ \E p \in Asked(f) :
            Begin(u, "load", [Call(GetKey(p) \o <<"hold">>, p.place) EXCEPT !.id = f.id, !.file = f])
  <2>1. CASE f.form = "pem" /\ UNCHANGED <<tokenVars, loaders, loading, crypto, files, ca, certs, outputs>>
    BY <2>1 DEF tokenVars, pairVars
  <2>2. CASE \E p \in IF f.form = "uri" THEN Asked(f) ELSE {} :
               Begin(u, "load", [Call(GetKey(p) \o <<"hold">>, p.place) EXCEPT !.id = f.id, !.file = f])
    BY <2>2, Zenon
  <2> QED
    BY <2>1, <2>2, Zenon DEF LoadPrivateKey
<1> QED
  BY <1>1, <1>2, <1>3, Zenon

(* The commands about certificates.                                        *)
LEMMA CertificatePair ==
    ASSUME PairInv, CryptoInv, Loaded, NEW u \in Users, op[u].todo = <<>>, NEW req, NEW f, NEW cacert, NEW w,
           \/ NewAuthority(u) \/ CsrGenKey(u, req) \/ CsrNewRoot(u, req)
           \/ f \in files /\ (GenCert(u, req, f, cacert) \/ SignCert(u, w, f, cacert))
    PROVE  PairInv'
<1>1. \A n, c : CallType(n, made) /\ Ordinary(n) /\ Begin(u, c, n) => PairInv'
  BY BeginPair, Zenon
<1>2. CASE NewAuthority(u)
  <2> DEFINE n == [Call(<<"next">>, CurrentSlot) EXCEPT !.job = <<conf.config.issuers, NoAuthority>>]
  <2>1. NewCall(n, <<"next">>, CurrentSlot, NoID)
    BY NewCalls, Zenon
  <2>2. Begin(u, "authority", n)
    BY <1>2, Zenon DEF NewAuthority
  <2>3. <<"next">> \in Seq(OnSlot) /\ CurrentSlot \in Places /\ NoID \in KnownIDs(made)
    BY SlotFunctions, SlotsAssumption DEF Places, KnownIDs
  <2> HIDE DEF n
  <2> QED
    BY <2>1, <2>2, <2>3, BeginOrdinary, Zenon
<1>3. CASE CsrGenKey(u, req)
  <2>1. <<"write">> \in Seq(OnSlot)
    BY SlotFunctions
  <2>2. CallType(ForRequest(req, Job(req, <<>>), <<"write">>), made) /\ Ordinary(ForRequest(req, Job(req, <<>>), <<"write">>))
    BY <2>1, RequestPair, Zenon
  <2> QED
    BY <1>1, <1>3, <2>2, Zenon DEF CsrGenKey
<1>4. CASE CsrNewRoot(u, req)
  <2> DEFINE n == ForRequest(req, Job(req, <<>>), <<"selfsign", "write">>)
  <2>1. <<"selfsign", "write">> \in Seq(OnSlot)
    BY SlotFunctions
  <2>2. CallType(n, made) /\ Ordinary(n)
    BY <2>1, RequestPair, Zenon
  <2> QED
    BY <1>1, <1>4, <2>2, Zenon DEF CsrNewRoot
<1>5. CASE f \in files /\ (GenCert(u, req, f, cacert) \/ SignCert(u, w, f, cacert))
  <2>1. FileOK(f, made) /\ NoID \in KnownIDs(made)
    BY <1>5 DEF PairInv, IdsOK, KnownIDs
  <2>2. ASSUME NEW j, NEW n \in NewSignerFromPEM([Idle EXCEPT !.job = j], f, <<"signer">>)
        PROVE  CallType(n, made) /\ Ordinary(n)
    <3>1. NewCall([Idle EXCEPT !.job = j], <<>>, CurrentSlot, NoID)
      BY NewCalls, Zenon
    <3>2. CallType([Idle EXCEPT !.job = j], made)
      BY <2>1, <3>1, NewCallType, Zenon
    <3>3. <<"signer">> \in Seq(Anywhere)
      BY SlotFunctions
    <3> DEFINE o == [Idle EXCEPT !.job = j]
    <3>4. CallType(o, made) /\ n \in NewSignerFromPEM(o, f, <<"signer">>)
      BY <2>2, <3>2
    <3> HIDE DEF o
    <3> QED
      BY <2>1, <3>3, <3>4, SignerPair
  <2> QED
    BY <1>1, <1>5, <2>2, Zenon DEF GenCert, SignCert
<1> QED
  BY <1>2, <1>3, <1>4, <1>5

(* A command.                                                              *)
LEMMA CommandsPair ==
    ASSUME PairInv, CryptoInv, Loaded, scenario \in DOMAIN Scenarios, NEW u \in Users, op[u].todo = <<>>, Commands(u)
    PROVE  PairInv'
<1>1. max.slots \subseteq Slots /\ CurrentSlot \in Slots /\ NoID \in KnownIDs(made) /\ TRUE \in BOOLEAN
  BY SetupAssumption, SlotsAssumption DEF max, KnownIDs
<1>2. Known \subseteq KnownIDs(made)
  BY KnownWereMade
<1>3. Default \in Providers
  BY DEF Default, Providers, Loaded, CryptoInv, ProvidersOK
<1>4. ASSUME NEW p \in Providers, NEW kr, NEW label, NEW root,
             HsmGenKey(u, kr, label) \/ CreateRequestAndExportKey(u, p, kr) \/ NewRoot(u, p, kr, root)
      PROVE  PairInv'
  BY <1>4, MakingPair, Zenon
<1>5. ASSUME NEW slot \in Slots, NEW typ, NEW label, NEW id \in KnownIDs(made), NEW public \in BOOLEAN,
             GenerateOnSlot(u, slot, typ, label) \/ FindOnSlot(u, slot, id, label) \/ HsmKeyInfo(u, id, public)
      PROVE  PairInv'
  BY <1>5, ReadingPair, Zenon
<1>6. ASSUME NEW label, NEW id \in KnownIDs(made), HsmKeys(u, label) \/ HsmRmKey(u, id) \/ HsmRmKeys(u, label)
      PROVE  PairInv'
  BY <1>6, RemovingPair, Zenon
<1>7. ASSUME NEW f \in files, LoadPrivateKey(u, f) PROVE PairInv'
  BY <1>7, LoadPair, Zenon
<1>8. ASSUME NEW req, NEW f, NEW cacert, NEW w,
             \/ NewAuthority(u) \/ CsrGenKey(u, req) \/ CsrNewRoot(u, req)
             \/ f \in files /\ (GenCert(u, req, f, cacert) \/ SignCert(u, w, f, cacert))
      PROVE  PairInv'
  BY <1>8, CertificatePair, Zenon
<1>9. \/ \E p \in Providers : \E kr, label, root :
            HsmGenKey(u, kr, label) \/ CreateRequestAndExportKey(u, p, kr) \/ NewRoot(u, p, kr, root)
      \/ \E slot \in Slots : \E id \in KnownIDs(made) : \E public \in BOOLEAN : \E typ, label :
            GenerateOnSlot(u, slot, typ, label) \/ FindOnSlot(u, slot, id, label) \/ HsmKeyInfo(u, id, public)
      \/ \E id \in KnownIDs(made) : \E label : HsmKeys(u, label) \/ HsmRmKey(u, id) \/ HsmRmKeys(u, label)
      \/ \E f \in files : LoadPrivateKey(u, f)
      \/ \E req, f, cacert, w :
            \/ NewAuthority(u) \/ CsrGenKey(u, req) \/ CsrNewRoot(u, req)
            \/ f \in files /\ (GenCert(u, req, f, cacert) \/ SignCert(u, w, f, cacert))
  BY <1>1, <1>2, <1>3, Zenon DEF Commands, OtherCommands
<1> QED
  BY <1>4, <1>5, <1>6, <1>7, <1>8, <1>9, Zenon

-----------------------------------------------------------------------------
(* The scenario is picked once.                                            *)

(* No step of a call picks another one.                                    *)
LEMMA StepsKeepScenario == \A u : Steps(u) => scenario' = scenario
<1> SUFFICES ASSUME NEW u, Steps(u) PROVE scenario' = scenario
  BY Zenon
<1>1. CreateKey(u) \/ DescribeKey(u) \/ GetPublicKey(u) \/ KmsEnumKeys(u) => scenario' = scenario
  BY Zenon DEF CreateKey, DescribeKey, GetPublicKey, KmsEnumKeys
<1>2. ScheduleKeyDeletion(u) \/ Save(u) \/ Hold(u) => scenario' = scenario
  BY Zenon DEF ScheduleKeyDeletion, Save, Hold
<1>3. MakeRequest(u) \/ SignRoot(u) \/ NextIssuer(u) \/ NewIssuer(u) => scenario' = scenario
  BY Zenon DEF MakeRequest, SignRoot, NextIssuer, NewIssuer
<1>4. NewLocalCASigner(u) \/ LocalSign(u) \/ SelfSign(u) \/ WriteFiles(u) => scenario' = scenario
  BY Zenon DEF NewLocalCASigner, LocalSign, SelfSign, WriteFiles
<1> QED
  BY <1>1, <1>2, <1>3, <1>4, Zenon DEF Steps, ProviderStep

(* Nor does a command.                                                     *)
LEMMA CommandsKeepScenario == \A u : Commands(u) => scenario' = scenario
<1>1. \A u, c, n : Begin(u, c, n) => scenario' = scenario
  BY DEF Begin
<1>2. \A u, f : LoadPrivateKey(u, f) => scenario' = scenario
  BY <1>1, Zenon DEF LoadPrivateKey, tokenVars
<1>3. \A u, kr, label : HsmGenKey(u, kr, label) => scenario' = scenario
  BY <1>1, Zenon DEF HsmGenKey
<1>4. \A u, p, kr : CreateRequestAndExportKey(u, p, kr) => scenario' = scenario
  BY <1>1, Zenon DEF CreateRequestAndExportKey
<1>5. \A u, p, kr, root : NewRoot(u, p, kr, root) => scenario' = scenario
  BY <1>1, Zenon DEF NewRoot
<1>6. \A u, slot, typ, label : GenerateOnSlot(u, slot, typ, label) => scenario' = scenario
  BY <1>1, Zenon DEF GenerateOnSlot
<1>7. \A u, slot, id, label : FindOnSlot(u, slot, id, label) => scenario' = scenario
  BY <1>1, Zenon DEF FindOnSlot
<1>8. \A u, id, public : HsmKeyInfo(u, id, public) => scenario' = scenario
  BY <1>1, Zenon DEF HsmKeyInfo
<1>9. \A u, id : HsmRmKey(u, id) => scenario' = scenario
  BY <1>1, Zenon DEF HsmRmKey
<1>10. \A u, label : HsmKeys(u, label) \/ HsmRmKeys(u, label) => scenario' = scenario
  BY <1>1, Zenon DEF HsmKeys, HsmRmKeys
<1>11. \A u : NewAuthority(u) => scenario' = scenario
  BY <1>1, Zenon DEF NewAuthority
<1>12. \A u, req : CsrGenKey(u, req) \/ CsrNewRoot(u, req) => scenario' = scenario
  BY <1>1, Zenon DEF CsrGenKey, CsrNewRoot
<1>13. \A u, req, f, cacert : GenCert(u, req, f, cacert) \/ SignCert(u, req, f, cacert) => scenario' = scenario
  BY <1>1, Zenon DEF GenCert, SignCert
<1> QED
  BY <1>2, <1>3, <1>4, <1>5, <1>6, <1>7, <1>8, <1>9, <1>10, <1>11, <1>12, <1>13, Zenon DEF Commands, OtherCommands

KeysInv == IInv /\ PairInv /\ scenario \in DOMAIN Scenarios

(* Nothing is on the tokens at first.                                      *)
LEMMA InitPair == Init => KeysInv
<1> SUFFICES ASSUME Init PROVE KeysInv
  OBVIOUS
<1>1. /\ objects = {} /\ made = [p \in Places |-> 0] /\ op = [u \in Users |-> Idle] /\ hit = {} /\ gone = {}
      /\ scenario \in DOMAIN Scenarios
  BY DEF Init, TokenInit, Places
<1>2. files = {}
  BY DEF Init, ProviderInit
<1>3. IsFiniteSet(objects)
  BY <1>1, FS_EmptySet
<1>4. made \in [Places -> Nat]
  BY <1>1
<1>5. ObjectsOK
  BY <1>1, <1>3, <1>4 DEF ObjectsOK
<1>6. IdsOK
  BY <1>1, <1>2 DEF IdsOK
<1>7. PairCalls
  <2>1. DOMAIN op = Users /\ \A u \in Users : op[u] = Idle
    BY <1>1
  <2> QED
    BY <2>1, IdlePair, Zenon DEF PairCalls, KeyCall
<1>8. PairsWhole
  BY <1>1 DEF PairsWhole
<1> QED
  BY <1>1, <1>5, <1>6, <1>7, <1>8, InitInv DEF KeysInv, PairInv

(* Every step keeps the pairs whole.                                       *)
LEMMA NextPair == KeysInv /\ [Next]_vars => KeysInv'
<1> SUFFICES ASSUME KeysInv, [Next]_vars PROVE PairInv' /\ scenario' = scenario
  BY NextInv, Zenon DEF KeysInv
<1>0. IInv /\ PairInv /\ CryptoInv /\ CallsInv /\ scenario \in DOMAIN Scenarios
  BY DEF KeysInv, IInv
<1>1. CASE \E u \in Users : (Free(u) /\ Commands(u)) \/ (op[u].todo # <<>> /\ Steps(u))
  <2>1. PICK u \in Users : (Free(u) /\ Commands(u)) \/ (op[u].todo # <<>> /\ Steps(u))
    BY <1>1
  <2>2. CASE Free(u) /\ Commands(u)
    <3>1. Loaded /\ op[u].todo = <<>>
      BY <2>2 DEF Free
    <3> QED
      BY <1>0, <2>2, <3>1, CommandsPair, CommandsKeepScenario
  <2>3. CASE op[u].todo # <<>> /\ Steps(u)
    <3>1. Loaded
      BY <1>0, <2>3 DEF CallsInv
    <3> QED
      BY <1>0, <2>3, <3>1, PairSteps, StepsKeepScenario
  <2> QED
    BY <2>1, <2>2, <2>3
<1>2. CASE UNCHANGED <<tokenVars, files>>
  <2>1. UNCHANGED pairVars /\ scenario' = scenario
    BY <1>2 DEF tokenVars, pairVars
  <2> QED
    BY <1>0, <2>1, PairKept
<1>3. CASE \/ Load
           \/ \E i \in 1..Len(loading) : Register(loading[i].man) \/ Unregister(loading[i].man)
           \/ \E c : LoadConfiguration(c)
           \/ \E kr, root : RefuseRoot(kr, root)
           \/ \E req : SignRequest(req)
           \/ UNCHANGED vars
  <2>1. UNCHANGED <<tokenVars, files>>
    BY <1>3 DEF Load, Register, Unregister, LoadConfiguration, RefuseRoot, SignRequest, vars, providerVars
  <2> QED
    BY <1>2, <2>1
<1> QED
  BY <1>1, <1>3, Zenon DEF Next

(* However the calls of several users interleave, whatever the token       *)
(* refuses and however many keys, slots and users there are: a private     *)
(* half has its public half, a public half without its private one is      *)
(* being destroyed, and nothing is left of a pair DestroyKeyPairOnSlot     *)
(* returned nil for, unless the token failed in a call about this key.     *)
THEOREM PairsStayWhole == Spec => []PairsWhole
<1>1. KeysInv => PairsWhole
  BY DEF KeysInv, PairInv
<1> QED
  BY <1>1, InitPair, NextPair, PTL DEF Spec

-----------------------------------------------------------------------------
(***************************************************************************)
(* Saved keys load again.                                                  *)
(***************************************************************************)

(* Of each manufacturer one provider is loaded, the default one among them.*)
Registry(c, l) ==
    /\ c.default \subseteq c.by
    /\ \A p, q \in c.by : Manufacturer(p) = Manufacturer(q) => p = q
    /\ \A p, q \in c.by \cup {l[i] : i \in 1..Len(l)} : SamePlace(p, q)

(* A URI is that of a key, written by the provider of its place.           *)
FileNamed(f, m, c) ==
    f.form = "uri" => f.of \in OldIDs(m) /\ \E p \in c.by : p.place = f.of[1] /\ f = Exported(p, f.of)

(* A key in use is the one of its id.                                      *)
KeyOK(k) ==
    k.id # NoID =>
       /\ k.pub = k.id
       /\ k.id \in Places \X Nat
       /\ k.place \in Slots => k.handle = 0 \/ (k.id[1] = k.place /\ k.handle = HandleOf("private", k.id[2]))

(* The functions of calls that neither save, nor hold, nor sign for csr.   *)
QuietSteps == (Plain \cup {"issuer", "next"}) \ {"save", "hold", "signer", "sign", "selfsign", "write"}

(* The functions that make a key and save it, and the ones that find one.  *)
SaveSteps ==
    {"generate", "export", "identify", "create", "publickey", "describe", "private", "type", "public", "info",
     "request", "sign", "selfsign", "save", "root", "write"}
FindSteps == {"private", "type", "public", "export", "describe", "publickey", "signer"}

Identified(o, m) == o.id \in OldIDs(m) /\ o.id[1] = o.place
Identifies(t) ==
    \E i \in 1..Len(t) : t[i] \in {"identify", "create"} /\ \A j \in 1..(i - 1) : t[j] \notin {"save", "root", "write"}

(* The call makes a key of a provider, and knows its id or will, in time.  *)
Saving(o, m, c) ==
    /\ o.todo \in Seq(SaveSteps)
    /\ \E p \in c.by : p.place = o.place
    /\ Identified(o, m) \/ Identifies(o.todo)

(* The job of a csr command; a request that was written has no key.        *)
JobOK(j) ==
    /\ 1 \in DOMAIN j /\ {"csr", "key", "cert"} \subseteq DOMAIN j[1]
    /\ "pub" \in DOMAIN j[1].csr => "kr" \notin DOMAIN j[1].csr

Signing(o) ==
    /\ JobOK(o.job)
    /\ \/ o.todo \in Seq(FindSteps)
       \/ o.todo \in {<<"sign", "write">>, <<"write">>} /\ "kr" \notin DOMAIN o.job[1].csr

(* The handle of the half is that of the key that was asked for.           *)
Found(o, class) == o.id # NoID => o.id[1] = o.place /\ o.handle[class] = HandleOf(class, o.id[2])
Got(o) == o.id # NoID => o.pub = o.id

(* A call that finds a key to use it, by what is left of it.               *)
Holding(o) ==
    \/ /\ o.place \in Slots /\ ~o.lenient
       /\ \/ o.todo = <<"private", "type", "public", "export", "hold">>
          \/ o.todo \in {<<"type", "public", "export", "hold">>, <<"public", "export", "hold">>} /\ Found(o, "private")
          \/ o.todo = <<"export", "hold">> /\ Found(o, "private") /\ Found(o, "public")
          \/ o.todo = <<"hold">> /\ Found(o, "private") /\ Got(o)
    \/ /\ o.place \in Stores
       /\ \/ o.todo \in {<<"describe", "publickey", "hold">>, <<"describe", "hold">>, <<"publickey", "hold">>}
          \/ o.todo = <<"hold">> /\ Got(o)

LoadCall(o, m, c) == o.todo \in Seq(QuietSteps) \/ Saving(o, m, c) \/ Signing(o) \/ Holding(o)

LoadInv ==
    /\ Registry(crypto, loading)
    /\ \A f \in files : Loaded /\ FileNamed(f, made, crypto)
    /\ \A k \in keys : KeyOK(k)
    /\ \A u \in Users : LoadCall(op[u], made, crypto)
    /\ \A w \in outputs : "kr" \notin DOMAIN w

(* What a URI says of the provider that wrote it.                          *)
LEMMA URIFields ==
    ASSUME NEW p \in ProviderConfigs, NEW m, NEW id \in OldIDs(m), NEW f, f = Exported(p, id), f.form = "uri", Nameable(p)
    PROVE  f.of = id /\ ParsePrivateKeyURI(f) /\ f.manufacturer = Manufacturer(p)
<1>1. p.kind \in {"pkcs11", "kms", "inmem", "testprov"} /\ id # NoID
  BY NoOldID DEF ProviderConfigs
<1>2. CASE p.kind = "pkcs11"
  BY <1>1, <1>2 DEF Exported, Crypto11URI, URI, ParsePrivateKeyURI, Nameable, Manufacturer, Crypto11Manufacturer
<1>3. CASE p.kind = "kms"
  BY <1>1, <1>3 DEF Exported, KmsURI, URI, ParsePrivateKeyURI, Nameable, Manufacturer, KmsManufacturer
<1>4. CASE p.kind = "testprov"
  BY <1>1, <1>4 DEF Exported, TestprovURI, URI, ParsePrivateKeyURI, Manufacturer, TestprovManufacturer
<1>5. CASE p.kind = "inmem"
  BY <1>5 DEF Exported, InmemPEM
<1> QED
  BY <1>1, <1>2, <1>3, <1>4, <1>5

(* A URI is the same whoever of a place writes it.                         *)
LEMMA SameURI == \A p, q, id : p.place = q.place /\ SamePlace(p, q) => Exported(p, id) = Exported(q, id)
  BY DEF SamePlace, Exported, Crypto11URI, KmsURI, TestprovURI

(* The manufacturer decides.                                               *)
LEMMA OneProvider ==
    ASSUME NEW c, NEW l, Registry(c, l), NEW p \in c.by
    PROVE  ByManufacturer(c, Manufacturer(p)) = {p}
<1> DEFINE named(ps) == {q \in ps : Manufacturer(q) = Manufacturer(p)}
<1>1. named(c.by) = {p}
  BY DEF Registry
<1>2. named(c.default) \subseteq {p}
  BY <1>1 DEF Registry
<1> QED
  BY <1>1, <1>2 DEF ByManufacturer

(* The first part: the URI of a key asks the provider that wrote it.       *)
LEMMA URIAsks ==
    ASSUME CryptoInv, LoadInv, Loaded, NEW f \in files, NEW p \in crypto.default \cup crypto.by, f.form = "uri",
           f.of[1] = p.place, Nameable(p)
    PROVE  Asked(f) = {p}
<1>1. p \in crypto.by /\ p \in ProviderConfigs
  BY DEF LoadInv, Registry, CryptoInv, ProvidersOK
<1>2. PICK q \in crypto.by : f.of \in OldIDs(made) /\ q.place = f.of[1] /\ f = Exported(q, f.of)
  BY DEF LoadInv, FileNamed
<1>3. SamePlace(q, p)
  BY <1>1 DEF LoadInv, Registry
<1>4. f = Exported(p, f.of)
  BY <1>2, <1>3, SameURI, Zenon
<1>5. ParsePrivateKeyURI(f) /\ f.manufacturer = Manufacturer(p)
  BY <1>1, <1>2, <1>4, URIFields
<1>6. ByManufacturer(crypto, Manufacturer(p)) = {p}
  BY <1>1, OneProvider DEF LoadInv
<1> QED
  BY <1>5, <1>6 DEF Asked

(* The second part: a key signs with no other key.                         *)
LEMMA SignsItself ==
    ASSUME PairInv, NEW k, KeyOK(k), k.id # NoID, k.place \in Slots => k.place = CurrentSlot
    PROVE  SignWith(k) \subseteq {k.pub}
<1>1. k.pub = k.id
  BY DEF KeyOK
<1>2. CASE k.place \in Slots
  <2>1. k.place = CurrentSlot
    BY <1>2
  <2>2. ASSUME NEW x \in SignInit(k) PROVE x.id = k.pub
    <3>1. x \in objects /\ x.place = k.place /\ x.handle = k.handle /\ x.class = "private"
      BY <2>1 DEF SignInit
    <3>2. ObjectOK(x, made) /\ x.id \in Places \X Nat /\ x.id[2] \in 1..made[x.id[1]] /\ made[x.id[1]] \in Nat
      BY <3>1 DEF PairInv, ObjectsOK, ObjectOK, OldIDs
    <3>3. x.handle = HandleOf("private", x.id[2]) /\ x.id[1] = k.place /\ x.id[2] \in Nat \ {0}
      BY <1>2, <3>1, <3>2 DEF ObjectOK
    <3>4. k.handle # 0
      BY <3>1, <3>3 DEF HandleOf
    <3>5. k.id[1] = k.place /\ k.handle = HandleOf("private", k.id[2])
      BY <1>2, <3>4 DEF KeyOK
    <3>6. k.id \in Places \X Nat /\ k.id[2] \in Nat
      BY DEF KeyOK
    <3>7. x.id[2] = k.id[2]
      <4>1. HandleOf("private", x.id[2]) = HandleOf("private", k.id[2])
        BY <3>1, <3>3, <3>5
      <4>2. \A i, j \in Nat : HandleOf("private", i) = HandleOf("private", j) => i = j
        BY DEF HandleOf
      <4> QED
        BY <3>3, <3>6, <4>1, <4>2
    <3> QED
      BY <1>1, <3>2, <3>3, <3>5, <3>6, <3>7
  <2>3. SignWith(k) \subseteq {x.id : x \in SignInit(k)}
    <3>1. k.place \notin Kms
      BY <1>2, SlotsAssumption, KmsAssumption
    <3>2. SignWith(k) = Crypto11Sign(k)
      BY <1>2, <3>1 DEF SignWith
    <3>3. /\ RSASign(k) \subseteq {x.id : x \in SignInit(k)} /\ DSASign(k) \subseteq {x.id : x \in SignInit(k)}
          /\ ECDSASign(k) \subseteq {x.id : x \in SignInit(k)}
      BY Zenon DEF RSASign, DSASign, ECDSASign
    <3>4. Crypto11Sign(k) \in {RSASign(k), DSASign(k), ECDSASign(k)}
      BY DEF Crypto11Sign
    <3> QED
      BY <3>2, <3>3, <3>4
  <2> QED
    BY <2>2, <2>3
<1>3. CASE k.place \notin Slots /\ k.place \in Kms
  BY <1>1, <1>3 DEF SignWith, KmsSign, Stored
<1>4. CASE k.place \notin Slots /\ k.place \notin Kms
  BY <1>4 DEF SignWith, MemorySign
<1> QED
  BY <1>2, <1>3, <1>4

(* Load registers one provider of each manufacturer.                       *)
LEMMA LoadRegistry ==
    ASSUME CryptoInv, Registry(crypto, loading), Load
    PROVE  Registry(crypto', loading')
<1>1. loading # <<>> /\ loading \in Seq(ProviderConfigs)
  BY DEF Load, CryptoInv
<1> DEFINE h == Head(loading)
<1>2. PICK p \in LoadProvider(h) :
         LET c == IF p = {} THEN NoCrypto
                  ELSE Add(IF crypto = NoCrypto THEN New(CHOOSE q \in p : TRUE) ELSE crypto, CHOOSE q \in p : TRUE)
         IN crypto' = c /\ loading' = IF c = NoCrypto THEN <<>> ELSE Tail(loading)
  BY Zenon DEF Load
<1>3. p = {} \/ p = {h}
  BY DEF LoadProvider
<1>4. p # {} => (CHOOSE q \in p : TRUE) = h
  BY <1>3
<1> DEFINE b == IF crypto = NoCrypto THEN New(h) ELSE crypto
<1>5. CASE crypto' = NoCrypto
  <2>1. loading' = <<>>
    BY <1>2, <1>5
  <2> QED
    BY <1>5, <2>1 DEF Registry, NoCrypto
<1>6. CASE crypto' # NoCrypto
  <2>1. crypto' = Add(b, h) /\ loading' = Tail(loading) /\ ~Duplicate(b, h)
    BY <1>2, <1>4, <1>6 DEF Add
  <2>2. /\ b = [default |-> b.default, by |-> b.by] /\ b.default \subseteq b.by \cup {h}
        /\ b.by \subseteq crypto.by
    BY DEF New, NoCrypto, CryptoInv, ProvidersOK, Registry
  <2>3. crypto'.default = b.default /\ crypto'.by = b.by \cup {h}
    BY <2>1, <2>2 DEF Add
  <2> HIDE DEF b
  <2>4. \A q \in b.by : Manufacturer(q) # Manufacturer(h)
    BY <2>1 DEF Duplicate
  <2>5. \A q, r \in crypto'.by : Manufacturer(q) = Manufacturer(r) => q = r
    BY <2>2, <2>3, <2>4, Zenon DEF Registry
  <2>6. {Tail(loading)[i] : i \in 1..Len(Tail(loading))} \cup {h} \subseteq {loading[i] : i \in 1..Len(loading)}
    <3>1. h = loading[1] /\ 1 \in 1..Len(loading)
      BY <1>1
    <3>2. \A i \in 1..Len(Tail(loading)) : Tail(loading)[i] = loading[i + 1] /\ i + 1 \in 1..Len(loading)
      BY <1>1
    <3> QED
      BY <3>1, <3>2
  <2> HIDE DEF h
  <2>7. crypto'.by \cup {Tail(loading)[i] : i \in 1..Len(Tail(loading))} \subseteq
        crypto.by \cup {loading[i] : i \in 1..Len(loading)}
    BY <2>2, <2>3, <2>6
  <2>8. \A q, r \in crypto'.by \cup {Tail(loading)[i] : i \in 1..Len(Tail(loading))} : SamePlace(q, r)
    BY <2>7 DEF Registry
  <2>9. crypto'.default \subseteq crypto'.by
    BY <2>2, <2>3
  <2>10. Registry(crypto', Tail(loading))
    BY <2>5, <2>8, <2>9, Zenon DEF Registry
  <2> QED
    BY <2>1, <2>10, Zenon
<1> QED
  BY <1>5, <1>6

(* The registry before Load.                                               *)
LEMMA InitRegistry == Init => Registry(crypto, loading)
<1> SUFFICES ASSUME Init PROVE Registry(crypto, loading)
  OBVIOUS
<1>1. PICK setup \in max.setups : ProviderInit(setup)
  BY DEF Init
<1>2. \A i, j \in 1..Len(setup) : SamePlace(setup[i], setup[j])
  BY <1>1, SetupAssumption DEF Init, max
<1>3. crypto.default = {} /\ crypto.by = {} /\ loading = setup
  BY <1>1 DEF ProviderInit, NoCrypto
<1> QED
  BY <1>2, <1>3 DEF Registry

(* The provider of a place that has one.                                   *)
LEMMA AtPlace ==
    \A w : (\E p \in crypto.by : p.place = w) /\ crypto.default \subseteq crypto.by
              => ProviderAt(w) \in crypto.by /\ ProviderAt(w).place = w
  BY DEF ProviderAt

(* A key that is saved where it was made.                                  *)
LEMMA SavedNamed ==
    ASSUME LoadInv, NEW o, Saving(o, made, crypto), Identified(o, made)
    PROVE  FileNamed(Exported(ProviderAt(o.place), o.id), made, crypto)
<1> DEFINE p == ProviderAt(o.place)
<1>1. p \in crypto.by /\ p.place = o.place
  BY AtPlace DEF Saving, LoadInv, Registry
<1>2. Exported(p, o.id).of = o.id
  BY DEF Exported, Crypto11URI, KmsURI, TestprovURI, URI, InmemPEM
<1> QED
  BY <1>1, <1>2 DEF FileNamed, Identified

-----------------------------------------------------------------------------
(* What the steps of a call save and hold.                                 *)

SavedBy(o) == Exported(ProviderAt(o.place), o.id)

(* Only three functions save a key, one holds it.                          *)
LEMMA StepEffects ==
    ASSUME NEW u, Steps(u)
    PROVE  /\ \/ files' = files
              \/ At(u, "save") /\ files' = files \cup {SavedBy(op[u])}
              \/ At(u, "root") /\ files' = files \cup {SavedBy(op[u])}
              \/ At(u, "write") /\ "kr" \in DOMAIN op[u].job[1].csr /\ files' = files \cup ({SavedBy(op[u])} \ {NoFile})
           /\ keys' = keys \/ (At(u, "hold") /\ keys' = keys \cup {Held(op[u])})
           /\ \A w \in outputs' : w \in outputs \/ "kr" \notin DOMAIN w
<1>1. CASE UNCHANGED <<files, keys, outputs>>
  BY <1>1
<1>2. CASE ProviderStep(u) /\ UNCHANGED <<authVars, calls>>
  <2>1. outputs' = outputs
    BY <1>2 DEF authVars
  <2>2. CASE TokenStep(u) /\ UNCHANGED <<scenario, providerVars>>
    BY <1>1, <2>1, <2>2 DEF providerVars
  <2>3. CASE CreateKey(u) \/ DescribeKey(u) \/ GetPublicKey(u) \/ KmsEnumKeys(u) \/ ScheduleKeyDeletion(u)
    <3>1. UNCHANGED <<files, keys>>
      BY <2>3 DEF CreateKey, DescribeKey, GetPublicKey, KmsEnumKeys, ScheduleKeyDeletion, providerVars
    <3> QED
      BY <1>1, <2>1, <3>1
  <2>4. CASE Save(u)
    BY <2>1, <2>4, Zenon DEF Save, SavedBy
  <2>5. CASE Hold(u)
    BY <2>1, <2>5, Zenon DEF Hold
  <2> QED
    BY <1>2, <2>2, <2>3, <2>4, <2>5, Zenon DEF ProviderStep
<1>3. CASE MakeRequest(u) \/ NewIssuer(u) \/ NewLocalCASigner(u) \/ LocalSign(u) \/ SelfSign(u)
  <2>1. UNCHANGED <<files, keys, outputs>>
    BY <1>3 DEF MakeRequest, NewIssuer, NewLocalCASigner, LocalSign, SelfSign, providerVars, authVars
  <2> QED
    BY <1>1, <2>1
<1>4. CASE NextIssuer(u)
  <2>1. UNCHANGED <<files, keys, outputs>>
    BY <1>4 DEF NextIssuer, providerVars
  <2> QED
    BY <1>1, <2>1
<1>5. CASE SignRoot(u)
  BY <1>5, Zenon DEF SignRoot, SavedBy
<1>6. CASE WriteFiles(u)
  <2> DEFINE key == IF "kr" \in DOMAIN op[u].job[1].csr THEN SavedBy(op[u]) ELSE NoFile
  <2>1. /\ At(u, "write") /\ keys' = keys /\ files' = files \cup ({key} \ {NoFile})
        /\ outputs' = outputs \cup {[pub |-> op[u].pub, cert |-> op[u].job[1].cert, key |-> key]}
    BY <1>6, Zenon DEF WriteFiles, SavedBy
  <2>2. "kr" \in DOMAIN op[u].job[1].csr => key = SavedBy(op[u])
    OBVIOUS
  <2>3. "kr" \notin DOMAIN op[u].job[1].csr => key = NoFile
    OBVIOUS
  <2> HIDE DEF key
  <2>4. "kr" \notin DOMAIN op[u].job[1].csr => files' = files
    BY <2>1, <2>3
  <2>5. "kr" \notin DOMAIN [pub |-> op[u].pub, cert |-> op[u].job[1].cert, key |-> key]
    OBVIOUS
  <2> QED
    BY <2>1, <2>2, <2>4, <2>5
<1> QED
  BY <1>2, <1>3, <1>4, <1>5, <1>6, Zenon DEF Steps

(* No key is forgotten.                                                    *)
LEMMA MadeGrows ==
    ASSUME PairInv, PairInv', NEW u \in Users, Steps(u)
    PROVE  OldIDs(made) \subseteq OldIDs(made')
<1>0. made \in [Places -> Nat] /\ made' \in [Places -> Nat]
  BY DEF PairInv, ObjectsOK
<1>1. made' = made \/ \E p : made' = [made EXCEPT ![p] = made[p] + 1]
  <2>1. CASE CreateKey(u)
    BY <2>1, Zenon DEF CreateKey
  <2>2. CASE TokenStep(u)
    <3>1. CASE GenerateKeyPair(u)
      BY <3>1, Zenon DEF GenerateKeyPair
    <3>2. CASE \E class \in {"private", "public"} : findKey(u, class) \/ DestroyObject(u, class)
      BY <3>2, Zenon DEF findKey, DestroyObject
    <3>3. CASE GetKeyType(u) \/ ExportPublicKey(u) \/ Identify(u) \/ GetInfo(u)
      BY <3>3, Zenon DEF GetKeyType, ExportPublicKey, Identify, GetInfo
    <3>4. CASE ListKeys(u) \/ EnumKeys(u) \/ Listed(u)
      BY <3>4, Zenon DEF ListKeys, EnumKeys, Listed
    <3> QED
      BY <2>2, <3>1, <3>2, <3>3, <3>4, Zenon DEF TokenStep
  <2>3. CASE DescribeKey(u) \/ GetPublicKey(u) \/ KmsEnumKeys(u) \/ ScheduleKeyDeletion(u) \/ Save(u) \/ Hold(u)
    BY <2>3, Zenon DEF DescribeKey, GetPublicKey, KmsEnumKeys, ScheduleKeyDeletion, Save, Hold
  <2>4. CASE MakeRequest(u) \/ SignRoot(u) \/ NextIssuer(u) \/ NewIssuer(u)
    BY <2>4, Zenon DEF MakeRequest, SignRoot, NextIssuer, NewIssuer
  <2>5. CASE NewLocalCASigner(u) \/ LocalSign(u) \/ SelfSign(u) \/ WriteFiles(u)
    BY <2>5, Zenon DEF NewLocalCASigner, LocalSign, SelfSign, WriteFiles
  <2> QED
    BY <2>1, <2>2, <2>3, <2>4, <2>5, Zenon DEF Steps, ProviderStep
<1>2. \A p \in Places : made[p] <= made'[p]
  BY <1>0, <1>1
<1> QED
  BY <1>0, <1>2, KnownGrow

(* What holds of calls and files goes on when keys are made.               *)
LEMMA LoadGrows ==
    \A m, k, c : OldIDs(m) \subseteq OldIDs(k) =>
       /\ \A o : LoadCall(o, m, c) => LoadCall(o, k, c)
       /\ \A f : FileNamed(f, m, c) => FileNamed(f, k, c)
  BY Zenon DEF LoadCall, Saving, Identified, FileNamed

(* The call of u becomes n.                                                *)
LEMMA CallLoads ==
    ASSUME LoadInv, Loaded, NEW u \in Users, NEW n, Becomes(u, n), LoadCall(n, made', crypto),
           OldIDs(made) \subseteq OldIDs(made'), UNCHANGED <<crypto, loading>>,
           \A f \in files' : f \in files \/ FileNamed(f, made', crypto),
           \A k \in keys' : k \in keys \/ KeyOK(k),
           \A w \in outputs' : w \in outputs \/ "kr" \notin DOMAIN w
    PROVE  LoadInv'
<1>1. Registry(crypto', loading')
  BY Zenon DEF LoadInv
<1>2. Loaded'
  BY DEF Loaded, NoCrypto
<1>3. \A f \in files' : FileNamed(f, made', crypto')
  BY LoadGrows, Zenon DEF LoadInv
<1>4. \A v \in Users : LoadCall(op'[v], made', crypto')
  <2>1. \A v \in Users \ {u} : LoadCall(op[v], made', crypto')
    BY LoadGrows, Zenon DEF LoadInv
  <2> QED
    BY <2>1, Zenon DEF Becomes
<1>5. (\A k \in keys' : KeyOK(k)) /\ (\A w \in outputs' : "kr" \notin DOMAIN w)
  BY DEF LoadInv
<1> QED
  BY <1>1, <1>2, <1>3, <1>4, <1>5, Zenon DEF LoadInv

(* Calls that neither save nor hold.                                       *)
LEMMA QuietCalls ==
    /\ Idle.todo \in Seq(QuietSteps) /\ DestroyKeyPairOnSlot \in Seq(QuietSteps)
    /\ <<"issuer", "next">> \in Seq(QuietSteps) /\ FindKeyPairOnSession \in Seq(QuietSteps)
    /\ <<"describe", "publickey">> \in Seq(QuietSteps) /\ <<"describe">> \in Seq(QuietSteps)
    /\ <<"publickey">> \in Seq(QuietSteps) /\ <<"list", "enum">> \in Seq(QuietSteps)
    /\ <<"generate", "export">> \in Seq(QuietSteps) /\ <<"private", "identify">> \in Seq(QuietSteps)
    /\ <<"kmslist">> \in Seq(QuietSteps) /\ <<"kmslist", "schedule">> \in Seq(QuietSteps)
    /\ <<"schedule">> \in Seq(QuietSteps) /\ <<"next">> \in Seq(QuietSteps)
<1>1. \A x, y, z, w \in QuietSteps : /\ <<x>> \in Seq(QuietSteps) /\ <<x, y>> \in Seq(QuietSteps)
                                     /\ <<x, y, z, w>> \in Seq(QuietSteps)
  OBVIOUS
<1>2. {"private", "public", "rmprivate", "rmpublic", "issuer", "next", "type", "export", "describe", "publickey",
       "list", "enum", "generate", "identify", "kmslist", "schedule"} \subseteq QuietSteps
  BY DEF QuietSteps, Plain
<1>3. Idle.todo \in Seq(QuietSteps)
  BY EmptySeq DEF Idle, Call
<1> QED
  BY <1>1, <1>2, <1>3 DEF DestroyKeyPairOnSlot, FindKeyPairOnSession

(* Longer ones are made of shorter ones.                                   *)
LEMMA QuietConcat == \A a, b \in Seq(QuietSteps) : a \o b \in Seq(QuietSteps)
  BY ConcatProperties

(* What GetKey of a provider does.                                         *)
LEMMA GetKeyCalls ==
    ASSUME NEW p \in ProviderConfigs
    PROVE  GetKey(p) \in {FindKeyPairOnSession, <<"describe", "publickey">>, <<"describe">>}
<1>1. p.kind \in {"pkcs11", "kms", "inmem", "testprov"}
  BY DEF ProviderConfigs
<1> QED
  BY <1>1 DEF GetKey, Crypto11GetKey, KmsGetKey, InmemGetKey, TestprovGetKey

(* They stay what they are.                                                *)
LEMMA QuietRuns ==
    ASSUME CallsInv, CryptoInv, NEW u \in Users, op[u].todo # <<>>, op[u].todo \in Seq(QuietSteps), Steps(u)
    PROVE  \E n : Becomes(u, n) /\ n.todo \in Seq(QuietSteps)
<1>1. DOMAIN op = Users /\ {"todo", "job"} \subseteq DOMAIN op[u]
  BY DEF CallsInv, OpOK
<1>2. Head(op[u].todo) \in QuietSteps /\ Tail(op[u].todo) \in Seq(QuietSteps)
  BY HeadTailProperties
<1>3. \A n : Ran(op[u], n) => n.todo \in Seq(QuietSteps)
  BY <1>2, QuietCalls, Zenon DEF Ran
<1>4. CASE Runs(u)
  BY <1>3, <1>4, Zenon DEF Runs
<1>5. CASE ProviderStep(u)
  BY <1>1, <1>4, <1>5, ProviderRuns
<1>6. CASE MakeRequest(u) \/ SignRoot(u) \/ LocalSign(u) \/ SelfSign(u) \/ WriteFiles(u)
  BY <1>1, <1>4, <1>6, CommandRuns
<1>7. CASE NewLocalCASigner(u)
  BY <1>2, <1>7 DEF NewLocalCASigner, At, QuietSteps
<1>8. CASE NewIssuer(u)
  <2>1. Fail(u) \/ \E j : Continue(u, [op[u] EXCEPT !.job = j])
    BY <1>8, Zenon DEF NewIssuer
  <2>2. ASSUME NEW j, Continue(u, [op[u] EXCEPT !.job = j])
        PROVE  \E n : Becomes(u, n) /\ n.todo \in Seq(QuietSteps)
    <3> DEFINE q == [op[u] EXCEPT !.job = j]
               r == [q EXCEPT !.todo = Tail(@)]
    <3>1. r.todo = Tail(op[u].todo)
      BY <1>1
    <3>2. \E n \in {Idle, r} : op' = [op EXCEPT ![u] = n]
      BY <2>2 DEF Continue
    <3> HIDE DEF r
    <3> QED
      BY <1>1, <1>2, <3>1, <3>2, Assign, QuietCalls
  <2> QED
    BY <1>1, <1>4, <2>1, <2>2, Failed
<1>9. CASE NextIssuer(u)
  <2>1. \/ Fail(u) \/ Continue(u, op[u]) \/ op' = [op EXCEPT ![u].job[1] = Tail(@)]
        \/ \E f \in files : \E call \in LoadIssuerKey(op[u], f) : op' = [op EXCEPT ![u] = call]
    BY <1>9, Zenon DEF NextIssuer
  <2>2. CASE op' = [op EXCEPT ![u].job[1] = Tail(@)]
    <3>1. DOMAIN op' = DOMAIN op /\ \A v \in Users \ {u} : op'[v] = op[v]
      BY <2>2
    <3>2. op'[u].todo = op[u].todo
      BY <1>1, <2>2
    <3> QED
      BY <3>1, <3>2 DEF Becomes
  <2>3. ASSUME NEW f \in files, NEW n \in LoadIssuerKey(op[u], f), op' = [op EXCEPT ![u] = n]
        PROVE  \E k : Becomes(u, k) /\ k.todo \in Seq(QuietSteps)
    <3>1. CallOf(op[u], op[u].todo, op[u].job)
      BY <1>1 DEF CallOf
    <3>2. n.todo = <<"issuer", "next">> \/ \E p \in Asked(f) : n.todo = GetKey(p) \o <<"issuer", "next">>
      <4>1. CASE f.form = "pem"
        <5>1. n = [op[u] EXCEPT !.todo = <<"issuer", "next">>, !.place = "memory", !.pub = f.of, !.id = f.of, !.file = f]
          BY <4>1 DEF LoadIssuerKey, NewSignerFromPEM
        <5> QED
          BY <3>1, <5>1, CallAgain, Zenon DEF CallOf
      <4>2. CASE f.form # "pem"
        <5>1. PICK p \in Asked(f) : n = [op[u] EXCEPT !.todo = GetKey(p) \o <<"issuer", "next">>, !.place = p.place,
                                                      !.id = f.id, !.file = f, !.typ = AnyType]
          BY <4>2 DEF LoadIssuerKey, NewSignerFromPEM
        <5> QED
          BY <3>1, <5>1, CallAgain, Zenon DEF CallOf
      <4> QED
        BY <4>1, <4>2
    <3>3. \A p \in Asked(f) : GetKey(p) \in Seq(QuietSteps)
      BY ProvidersThere, GetKeyCalls, QuietCalls, Zenon
    <3>4. n.todo \in Seq(QuietSteps)
      <4>1. <<"issuer", "next">> \in Seq(QuietSteps)
        BY QuietCalls
      <4>2. CASE n.todo = <<"issuer", "next">>
        BY <4>1, <4>2, Zenon
      <4>3. ASSUME NEW p \in Asked(f), n.todo = GetKey(p) \o <<"issuer", "next">>
            PROVE  n.todo \in Seq(QuietSteps)
        <5>1. GetKey(p) \in Seq(QuietSteps)
          BY <3>3, Zenon
        <5>2. GetKey(p) \o <<"issuer", "next">> \in Seq(QuietSteps)
          BY <4>1, <5>1, QuietConcat, Zenon
        <5> QED
          BY <4>3, <5>2, Zenon
      <4> QED
        BY <3>2, <4>2, <4>3, Zenon
    <3> QED
      BY <1>1, <2>3, <3>4, Assign
  <2>4. Continue(u, op[u]) => Runs(u)
    BY <1>1, Continued, Assigned, Zenon
  <2> QED
    BY <1>1, <1>4, <2>1, <2>2, <2>3, <2>4, Failed
<1> QED
  BY <1>5, <1>6, <1>7, <1>8, <1>9, Zenon DEF Steps

(* The job is that of before, but for the certificate.                     *)
JobKept(j, k) == k = j \/ \E a : k = [j EXCEPT ![1].cert = a]

(* The call goes on with q, and is n then.                                 *)
Kept(o, q) == DOMAIN q = DOMAIN o /\ q.todo = o.todo /\ q.place = o.place /\ q.id = o.id /\ JobKept(o.job, q.job)
Went(o, n, m) ==
    \/ n = Idle
    \/ /\ n.todo = Tail(o.todo) /\ n.place = o.place /\ JobKept(o.job, n.job)
       /\ Identified(n, m) \/ (n.id = o.id /\ Head(o.todo) \notin {"identify", "create"})
Goes(u) == \E n : Becomes(u, n) /\ Went(op[u], n, made')

(* A job stays one.                                                        *)
LEMMA JobsKept == \A j, k : JobOK(j) /\ JobKept(j, k) => JobOK(k) /\ k[1].csr = j[1].csr
<1> SUFFICES ASSUME NEW j, NEW k, JobOK(j), JobKept(j, k) PROVE JobOK(k) /\ k[1].csr = j[1].csr
  BY Zenon
<1>2. CASE k = j
  BY <1>2
<1>3. ASSUME NEW a, k = [j EXCEPT ![1].cert = a] PROVE JobOK(k) /\ k[1].csr = j[1].csr
  BY <1>3 DEF JobOK
<1> QED
  BY <1>2, <1>3 DEF JobKept

(* The fields the functions assign.                                        *)
LEMMA KeptFields ==
    \A o, m, class, a : CallType(o, m) =>
       /\ Kept(o, o)
       /\ Kept(o, [o EXCEPT !.handle[class] = a])
       /\ Kept(o, [o EXCEPT !.handle = a])
       /\ Kept(o, [o EXCEPT !.typ = a])
       /\ Kept(o, [o EXCEPT !.pub = a])
       /\ Kept(o, [o EXCEPT !.job[1].cert = a])
<1> SUFFICES ASSUME NEW o, NEW m, NEW class, NEW a, CallType(o, m)
             PROVE  /\ Kept(o, o)
                    /\ Kept(o, [o EXCEPT !.handle[class] = a])
                    /\ Kept(o, [o EXCEPT !.handle = a])
                    /\ Kept(o, [o EXCEPT !.typ = a])
                    /\ Kept(o, [o EXCEPT !.pub = a])
                    /\ Kept(o, [o EXCEPT !.job[1].cert = a])
  BY Zenon
<1>1. {"todo", "place", "id", "handle", "job", "typ", "pub"} \subseteq DOMAIN o
  BY CallDomain DEF CallType
<1>2. /\ Kept(o, o) /\ Kept(o, [o EXCEPT !.handle[class] = a]) /\ Kept(o, [o EXCEPT !.handle = a])
      /\ Kept(o, [o EXCEPT !.typ = a]) /\ Kept(o, [o EXCEPT !.pub = a])
  BY <1>1 DEF Kept, JobKept
<1>3. Kept(o, [o EXCEPT !.job[1].cert = a])
  <2> DEFINE q == [o EXCEPT !.job[1].cert = a]
  <2>1. DOMAIN q = DOMAIN o /\ q.todo = o.todo /\ q.place = o.place /\ q.id = o.id
    BY <1>1
  <2>2. q.job = [o.job EXCEPT ![1].cert = a]
    BY <1>1
  <2> HIDE DEF q
  <2>3. Kept(o, q)
    BY <2>1, <2>2, Zenon DEF Kept, JobKept
  <2> QED
    BY <2>3 DEF q
<1> QED
  BY <1>2, <1>3

(* The call q without its first function.                                  *)
LeftOf(q, n) ==
    /\ n.todo = Tail(q.todo) /\ n.place = q.place /\ n.id = q.id /\ n.job = q.job
    /\ n.handle = q.handle /\ n.pub = q.pub /\ n.lenient = q.lenient
Resumes(u, q) == Becomes(u, Idle) \/ \E n : Becomes(u, n) /\ LeftOf(q, n)
Resumable(u, q, m) == DOMAIN op = Users /\ CallType(op[u], m) /\ DOMAIN q = DOMAIN op[u]

(* What is left of q.                                                      *)
LEMMA Left == \A q, m : \A u \in Users : Resumable(u, q, m) /\ Continue(u, q) => Resumes(u, q)
<1> SUFFICES ASSUME NEW u \in Users, NEW q, NEW m, Resumable(u, q, m), Continue(u, q)
             PROVE  Resumes(u, q)
  BY Zenon
<1> DEFINE r == [q EXCEPT !.todo = Tail(@)]
<1>1. {"todo", "place", "id", "handle", "job", "pub", "lenient"} \subseteq DOMAIN q
  BY CallDomain DEF CallType, Resumable
<1>2. LeftOf(q, r)
  BY <1>1 DEF LeftOf
<1>3. op' = [op EXCEPT ![u] = Idle] \/ op' = [op EXCEPT ![u] = r]
  BY DEF Continue
<1> HIDE DEF r
<1>4. Becomes(u, Idle) \/ Becomes(u, r)
  BY <1>3, Assign, Zenon DEF Resumable
<1> QED
  BY <1>2, <1>4, Zenon DEF Resumes

(* The call goes on or returns.                                            *)
LEMMA KeptGoes ==
    \A q, m : \A u \in Users :
       DOMAIN op = Users /\ CallType(op[u], m) /\ Kept(op[u], q) /\ Head(op[u].todo) \notin {"identify", "create"}
       /\ Continue(u, q) => Goes(u)
<1> SUFFICES ASSUME NEW u \in Users, NEW q, NEW m, DOMAIN op = Users, CallType(op[u], m), Kept(op[u], q),
                    Head(op[u].todo) \notin {"identify", "create"}, Continue(u, q)
             PROVE  Goes(u)
  BY Zenon
<1>1. Resumable(u, q, m)
  BY DEF Resumable, Kept
<1>2. Resumes(u, q)
  BY <1>1, Left, Zenon
<1>3. \A n : LeftOf(q, n) => Went(op[u], n, made')
  BY Zenon DEF LeftOf, Went, Kept
<1>4. Went(op[u], Idle, made')
  BY DEF Went
<1> QED
  BY <1>2, <1>3, <1>4, Zenon DEF Goes, Resumes

(* It fails.                                                               *)
LEMMA FailGoes == \A u \in Users : DOMAIN op = Users /\ Fail(u) => Goes(u)
  BY Assign, Zenon DEF Fail, Goes, Went

(* The functions that find keys and read them.                             *)
LEMMA ReadGoes ==
    ASSUME PairInv, NEW u \in Users, op[u].todo # <<>>,
           \/ \E class \in {"private", "public"} : findKey(u, class)
           \/ GetKeyType(u) \/ ExportPublicKey(u) \/ GenerateKeyPair(u) \/ GetInfo(u)
           \/ DescribeKey(u) \/ GetPublicKey(u)
    PROVE  Goes(u)
<1>1. DOMAIN op = Users /\ CallType(op[u], made)
  BY DEF PairInv, PairCalls
<1>f. Fail(u) => Goes(u)
  BY <1>1, FailGoes
<1>c. \A q : Kept(op[u], q) /\ Head(op[u].todo) \notin {"identify", "create"} /\ Continue(u, q) => Goes(u)
  BY <1>1, KeptGoes
<1>a. /\ Kept(op[u], op[u])
      /\ \A class, a : Kept(op[u], [op[u] EXCEPT !.handle[class] = a])
      /\ \A a : Kept(op[u], [op[u] EXCEPT !.handle = a])
      /\ \A a : Kept(op[u], [op[u] EXCEPT !.typ = a])
      /\ \A a : Kept(op[u], [op[u] EXCEPT !.pub = a])
  BY <1>1, KeptFields, Zenon
<1>2. ASSUME NEW class \in {"private", "public"}, findKey(u, class) PROVE Goes(u)
  <2>1. Head(op[u].todo) \notin {"identify", "create"}
    BY <1>2 DEF findKey, At
  <2>2. (\E a : Continue(u, [op[u] EXCEPT !.handle[class] = a])) \/ Continue(u, op[u]) \/ Fail(u)
    BY <1>2, Zenon DEF findKey, NotFound
  <2> QED
    BY <1>f, <1>c, <1>a, <2>1, <2>2, Zenon
<1>3. CASE GetKeyType(u)
  <2>1. Head(op[u].todo) \notin {"identify", "create"}
    BY <1>3 DEF GetKeyType, At
  <2>2. (\E a : Continue(u, [op[u] EXCEPT !.typ = a])) \/ Fail(u)
    BY <1>3, Zenon DEF GetKeyType
  <2> QED
    BY <1>f, <1>c, <1>a, <2>1, <2>2, Zenon
<1>4. CASE ExportPublicKey(u)
  <2>1. Head(op[u].todo) \notin {"identify", "create"}
    BY <1>4 DEF ExportPublicKey, At
  <2>2. (\E a : Continue(u, [op[u] EXCEPT !.pub = a])) \/ Fail(u)
    BY <1>4, Zenon DEF ExportPublicKey
  <2> QED
    BY <1>f, <1>c, <1>a, <2>1, <2>2, Zenon
<1>5. CASE GenerateKeyPair(u)
  <2>1. Head(op[u].todo) \notin {"identify", "create"}
    BY <1>5 DEF GenerateKeyPair, At
  <2>2. (\E a : Continue(u, [op[u] EXCEPT !.handle = a])) \/ Fail(u)
    BY <1>5, Zenon DEF GenerateKeyPair
  <2> QED
    BY <1>f, <1>c, <1>a, <2>1, <2>2, Zenon
<1>6. CASE GetInfo(u)
  <2>1. Head(op[u].todo) \notin {"identify", "create"}
    BY <1>6 DEF GetInfo, At
  <2> QED
    BY <1>6, <1>f, <1>c, <1>a, <2>1, Zenon DEF GetInfo
<1>7. CASE DescribeKey(u)
  <2>1. Head(op[u].todo) \notin {"identify", "create"}
    BY <1>7 DEF DescribeKey, At
  <2> QED
    BY <1>7, <1>f, <1>c, <1>a, <2>1, Zenon DEF DescribeKey
<1>8. CASE GetPublicKey(u)
  <2>1. Head(op[u].todo) \notin {"identify", "create"}
    BY <1>8 DEF GetPublicKey, At
  <2> QED
    BY <1>8, <1>f, <1>c, <1>a, <2>1, Zenon DEF GetPublicKey
<1> QED
  BY <1>2, <1>3, <1>4, <1>5, <1>6, <1>7, <1>8

(* The functions that make requests, sign and save.                        *)
LEMMA WriteGoes ==
    ASSUME PairInv, NEW u \in Users, op[u].todo # <<>>,
           Save(u) \/ MakeRequest(u) \/ SignRoot(u) \/ LocalSign(u) \/ SelfSign(u) \/ WriteFiles(u)
    PROVE  Goes(u)
<1>1. DOMAIN op = Users /\ CallType(op[u], made)
  BY DEF PairInv, PairCalls
<1>f. Fail(u) => Goes(u)
  BY <1>1, FailGoes
<1>c. \A q : Kept(op[u], q) /\ Head(op[u].todo) \notin {"identify", "create"} /\ Continue(u, q) => Goes(u)
  BY <1>1, KeptGoes
<1>a. Kept(op[u], op[u]) /\ \A a : Kept(op[u], [op[u] EXCEPT !.job[1].cert = a])
  BY <1>1, KeptFields, Zenon
<1>2. Head(op[u].todo) \in {"save", "request", "root", "sign", "selfsign", "write"}
  BY DEF Save, MakeRequest, SignRoot, LocalSign, SelfSign, WriteFiles, At
<1>3. Head(op[u].todo) \notin {"identify", "create"}
  BY <1>2
<1>4. Continue(u, op[u]) \/ Fail(u) \/ \E a : Continue(u, [op[u] EXCEPT !.job[1].cert = a])
  <2>1. CASE Save(u)
    BY <2>1, Zenon DEF Save
  <2>2. CASE MakeRequest(u)
    BY <2>2, Zenon DEF MakeRequest
  <2>3. CASE SignRoot(u)
    BY <2>3, Zenon DEF SignRoot
  <2>4. CASE LocalSign(u)
    BY <2>4, Zenon DEF LocalSign
  <2>5. CASE SelfSign(u)
    BY <2>5, Zenon DEF SelfSign
  <2>6. CASE WriteFiles(u)
    BY <2>6, Zenon DEF WriteFiles
  <2> QED
    BY <2>1, <2>2, <2>3, <2>4, <2>5, <2>6
<1> QED
  BY <1>f, <1>c, <1>a, <1>3, <1>4, Zenon

(* The key of a handle has the id of the object.                           *)
LEMMA IdentifyGoes ==
    ASSUME PairInv, NEW u \in Users, op[u].todo # <<>>, Identify(u)
    PROVE  Goes(u)
<1>1. DOMAIN op = Users /\ CallType(op[u], made)
  BY DEF PairInv, PairCalls
<1>2. Fail(u) => Goes(u)
  BY <1>1, FailGoes
<1>3. made' = made
  BY DEF Identify
<1>4. ASSUME NEW x \in Object(op[u], "private"),
             Continue(u, [op[u] EXCEPT !.id = x.id, !.label = NoLabel, !.lenient = FALSE])
      PROVE  Goes(u)
  <2> DEFINE q == [op[u] EXCEPT !.id = x.id, !.label = NoLabel, !.lenient = FALSE]
  <2>1. {"todo", "place", "id", "job"} \subseteq DOMAIN op[u]
    BY <1>1, CallDomain DEF CallType
  <2>2. DOMAIN q = DOMAIN op[u] /\ q.todo = op[u].todo /\ q.place = op[u].place /\ q.id = x.id /\ q.job = op[u].job
    BY <2>1
  <2>3. Resumable(u, q, made)
    BY <1>1, <2>2 DEF Resumable
  <2>4. Continue(u, q)
    BY <1>4
  <2> HIDE DEF q
  <2>5. Resumes(u, q)
    BY <2>3, <2>4, Left, Zenon
  <2>6. x.place = op[u].place /\ x.id \in OldIDs(made) /\ x.id[1] = x.place
    BY DEF Object, PairInv, ObjectsOK, ObjectOK
  <2>7. ASSUME NEW n, LeftOf(q, n) PROVE Went(op[u], n, made')
    BY <1>3, <2>2, <2>6, <2>7 DEF LeftOf, Went, JobKept, Identified
  <2>8. Went(op[u], Idle, made')
    BY DEF Went
  <2> QED
    BY <2>5, <2>7, <2>8, Zenon DEF Goes, Resumes
<1> QED
  BY <1>2, <1>4, Zenon DEF Identify

(* A new key has a new id.                                                 *)
LEMMA CreateGoes ==
    ASSUME PairInv, NEW u \in Users, op[u].todo # <<>>, op[u].place \in Places, CreateKey(u)
    PROVE  Goes(u)
<1>1. DOMAIN op = Users /\ CallType(op[u], made) /\ made \in [Places -> Nat]
  BY DEF PairInv, PairCalls, ObjectsOK
<1>2. Fail(u) => Goes(u)
  BY <1>1, FailGoes
<1> DEFINE o == op[u]
           q == [op[u] EXCEPT !.id = generateKeyID(o.place), !.label = NoLabel]
<1>3. Fail(u) \/ (Continue(u, q) /\ made' = [made EXCEPT ![o.place] = @ + 1])
  BY Zenon DEF CreateKey
<1>4. ASSUME Continue(u, q), made' = [made EXCEPT ![o.place] = @ + 1]
      PROVE  Goes(u)
  <2>1. {"todo", "place", "id", "job"} \subseteq DOMAIN op[u]
    BY <1>1, CallDomain DEF CallType
  <2>2. /\ DOMAIN q = DOMAIN op[u] /\ q.todo = op[u].todo /\ q.place = op[u].place /\ q.id = <<op[u].place, made[op[u].place] + 1>>
        /\ q.job = op[u].job
    BY <2>1 DEF generateKeyID
  <2>3. Resumable(u, q, made)
    BY <1>1, <2>2 DEF Resumable
  <2>4. made' = OneMore(made, op[u].place)
    BY <1>1, <1>4 DEF OneMore
  <2>5. q.id \in OldIDs(made') /\ q.id[1] = op[u].place
    BY <1>1, <2>2, <2>4, NewID DEF NewIDOf
  <2>6. Continue(u, q)
    BY <1>4
  <2> HIDE DEF q
  <2>7. Resumes(u, q)
    BY <2>3, <2>6, Left, Zenon
  <2>8. ASSUME NEW n, LeftOf(q, n) PROVE Went(op[u], n, made')
    BY <2>2, <2>5, <2>8 DEF LeftOf, Went, JobKept, Identified
  <2>9. Went(op[u], Idle, made')
    BY DEF Went
  <2> QED
    BY <2>7, <2>8, <2>9, Zenon DEF Goes, Resumes
<1> QED
  BY <1>2, <1>3, <1>4, Zenon

(* A call that makes and saves a key, and one that finds it.               *)
LEMMA SaveGoes ==
    ASSUME PairInv, NEW u \in Users, op[u].todo # <<>>, Head(op[u].todo) \in SaveSteps, Steps(u),
           At(u, "create") => op[u].place \in Places
    PROVE  Goes(u)
<1>h. \A s : s \notin SaveSteps => ~At(u, s)
  BY DEF At
<1>1. CASE TokenStep(u)
  <2>1. ASSUME NEW class \in {"private", "public"} PROVE ~DestroyObject(u, class)
    BY <1>h, <2>1 DEF DestroyObject, RmStep, SaveSteps
  <2>2. ~ListKeys(u) /\ ~EnumKeys(u) /\ ~Listed(u)
    BY <1>h DEF ListKeys, EnumKeys, Listed, SaveSteps
  <2> QED
    BY <1>1, <2>1, <2>2, ReadGoes, IdentifyGoes, Zenon DEF TokenStep
<1>2. CASE CreateKey(u)
  BY <1>2, CreateGoes DEF CreateKey
<1>3. ~KmsEnumKeys(u) /\ ~ScheduleKeyDeletion(u) /\ ~Hold(u)
  BY <1>h DEF KmsEnumKeys, ScheduleKeyDeletion, Hold, SaveSteps
<1>4. ~NextIssuer(u) /\ ~NewIssuer(u) /\ ~NewLocalCASigner(u)
  BY <1>h DEF NextIssuer, NewIssuer, NewLocalCASigner, SaveSteps
<1>5. CASE DescribeKey(u) \/ GetPublicKey(u)
  BY <1>5, ReadGoes
<1>6. CASE Save(u) \/ MakeRequest(u) \/ SignRoot(u) \/ LocalSign(u) \/ SelfSign(u) \/ WriteFiles(u)
  BY <1>6, WriteGoes
<1> QED
  BY <1>1, <1>2, <1>3, <1>4, <1>5, <1>6, Zenon DEF Steps, ProviderStep

-----------------------------------------------------------------------------
(* How each kind of call goes on.                                          *)

LoadsOn(u) == \E n : Becomes(u, n) /\ LoadCall(n, made', crypto)

(* No call.                                                                *)
LEMMA IdleLoads == \A m, c : LoadCall(Idle, m, c)
  BY QuietCalls, Zenon DEF LoadCall

(* The id is known before the key is saved.                                *)
LEMMA IdentifiesLater ==
    ASSUME NEW t \in Seq(SaveSteps), t # <<>>, Identifies(t)
    PROVE  /\ Head(t) \notin {"save", "root", "write"}
           /\ Head(t) \notin {"identify", "create"} => Identifies(Tail(t))
<1>1. PICK i \in 1..Len(t) : t[i] \in {"identify", "create"} /\ \A j \in 1..(i - 1) : t[j] \notin {"save", "root", "write"}
  BY DEF Identifies
<1>2. Head(t) = t[1] /\ Len(t) \in Nat
  OBVIOUS
<1>3. CASE i = 1
  BY <1>1, <1>2, <1>3
<1>4. CASE i # 1
  <2>1. 1 \in 1..(i - 1)
    BY <1>1, <1>2, <1>4
  <2>2. Head(t) \notin {"save", "root", "write"}
    BY <1>1, <1>2, <2>1
  <2>3. Len(Tail(t)) = Len(t) - 1 /\ \A j \in 1..(Len(t) - 1) : Tail(t)[j] = t[j + 1]
    OBVIOUS
  <2>4. i - 1 \in 1..Len(Tail(t)) /\ Tail(t)[i - 1] = t[i]
    BY <1>1, <1>2, <1>4, <2>3
  <2>5. ASSUME NEW j \in 1..((i - 1) - 1) PROVE Tail(t)[j] \notin {"save", "root", "write"}
    <3>1. Tail(t)[j] = t[j + 1] /\ j + 1 \in 1..(i - 1)
      BY <1>2, <2>3, <2>5
    <3> QED
      BY <1>1, <3>1
  <2>6. Identifies(Tail(t))
    BY <1>1, <2>4, <2>5 DEF Identifies
  <2> QED
    BY <2>2, <2>6
<1> QED
  BY <1>3, <1>4

(* A call that saves a key, made or to be made.                            *)
LEMMA SavingRuns ==
    ASSUME PairInv, CryptoInv, NEW u \in Users, op[u].todo # <<>>, Saving(op[u], made, crypto), Steps(u),
           OldIDs(made) \subseteq OldIDs(made')
    PROVE  LoadsOn(u)
<1>1. op[u].todo \in Seq(SaveSteps) /\ Head(op[u].todo) \in SaveSteps /\ Tail(op[u].todo) \in Seq(SaveSteps)
  BY HeadTailProperties DEF Saving
<1>2. PICK p \in crypto.by : p.place = op[u].place
  BY DEF Saving
<1>3. op[u].place \in Places
  BY <1>2, SlotProviders DEF CryptoInv, ProvidersOK
<1>4. PICK n : Becomes(u, n) /\ Went(op[u], n, made')
  BY <1>1, <1>3, SaveGoes DEF Goes
<1>5. CASE n = Idle
  BY <1>4, <1>5, IdleLoads DEF LoadsOn
<1>6. CASE n # Idle
  <2>1. /\ n.todo \in Seq(SaveSteps) /\ n.place = op[u].place /\ n.todo = Tail(op[u].todo)
        /\ Identified(n, made') \/ (n.id = op[u].id /\ Head(op[u].todo) \notin {"identify", "create"})
    BY <1>1, <1>4, <1>6 DEF Went
  <2>2. Identified(n, made') \/ Identifies(n.todo)
    <3>1. CASE Identified(op[u], made)
      <4>1. Identified(op[u], made')
        BY <3>1 DEF Identified
      <4> QED
        BY <2>1, <4>1 DEF Identified
    <3>2. CASE Identifies(op[u].todo)
      BY <1>1, <2>1, <3>2, IdentifiesLater
    <3> QED
      BY <3>1, <3>2 DEF Saving
  <2>3. Saving(n, made', crypto)
    BY <1>2, <2>1, <2>2 DEF Saving
  <2> QED
    BY <1>4, <2>3 DEF LoadsOn, LoadCall
<1> QED
  BY <1>5, <1>6

(* It stays known.                                                         *)
LEMMA IdentifiesMore ==
    ASSUME NEW g \in Seq(SaveSteps), NEW r \in Seq(SaveSteps), Identifies(g)
    PROVE  g \o r \in Seq(SaveSteps) /\ Identifies(g \o r)
<1>1. PICK i \in 1..Len(g) : g[i] \in {"identify", "create"} /\ \A j \in 1..(i - 1) : g[j] \notin {"save", "root", "write"}
  BY DEF Identifies
<1>2. g \o r \in Seq(SaveSteps) /\ Len(g \o r) = Len(g) + Len(r) /\ \A j \in 1..Len(g) : (g \o r)[j] = g[j]
  BY ConcatProperties
<1>3. i \in 1..Len(g \o r) /\ \A j \in 1..(i - 1) : j \in 1..Len(g)
  BY <1>2
<1>4. (g \o r)[i] \in {"identify", "create"} /\ \A j \in 1..(i - 1) : (g \o r)[j] \notin {"save", "root", "write"}
  BY <1>1, <1>2, <1>3
<1>5. Identifies(g \o r)
  BY <1>3, <1>4, Zenon DEF Identifies
<1> QED
  BY <1>2, <1>5

(* The generators of keys identify them.                                   *)
LEMMA GeneratorsIdentify ==
    ASSUME NEW p \in ProviderConfigs, NEW kr
    PROVE  GenerateKey(p, TypeOf(kr)) \in Seq(SaveSteps) /\ Identifies(GenerateKey(p, TypeOf(kr)))
<1>1. p.kind \in {"pkcs11", "kms", "inmem", "testprov"} /\ KeyType(TypeOf(kr)) \in {"RSA", "ECDSA"}
  BY DEF ProviderConfigs, KeyType, TypeOf
<1>2. GenerateKey(p, TypeOf(kr)) \in {<<"generate", "export", "identify">>, <<"create", "publickey">>, <<"create">>}
  BY <1>1 DEF GenerateKey, Generators, Crypto11GenerateRSAKey, Crypto11GenerateECDSAKey, KmsGenerateRSAKey,
     KmsGenerateECDSAKey, InmemGenerateRSAKey, InmemGenerateECDSAKey, TestprovGenerateRSAKey, TestprovGenerateECDSAKey
<1>3. {"generate", "export", "identify", "create", "publickey"} \subseteq SaveSteps
  BY DEF SaveSteps
<1>4. <<"generate", "export", "identify">> \in Seq(SaveSteps) /\ Identifies(<<"generate", "export", "identify">>)
  <2> DEFINE g == <<"generate", "export", "identify">>
  <2>1. g \in Seq(SaveSteps) /\ 3 \in 1..Len(g) /\ g[3] \in {"identify", "create"}
        /\ \A j \in 1..(3 - 1) : g[j] \notin {"save", "root", "write"}
    BY <1>3
  <2> HIDE DEF g
  <2>2. Identifies(g)
    BY <2>1, Zenon DEF Identifies
  <2> QED
    BY <2>1, <2>2 DEF g
<1>5. <<"create">> \in Seq(SaveSteps) /\ Identifies(<<"create">>)
  <2> DEFINE g == <<"create">>
  <2>1. g \in Seq(SaveSteps) /\ 1 \in 1..Len(g) /\ g[1] \in {"identify", "create"}
        /\ \A j \in 1..(1 - 1) : g[j] \notin {"save", "root", "write"}
    BY <1>3
  <2> HIDE DEF g
  <2>2. Identifies(g)
    BY <2>1, Zenon DEF Identifies
  <2> QED
    BY <2>1, <2>2 DEF g
<1>6. <<"create", "publickey">> \in Seq(SaveSteps) /\ Identifies(<<"create", "publickey">>)
  <2> DEFINE g == <<"create", "publickey">>
  <2>1. g \in Seq(SaveSteps) /\ 1 \in 1..Len(g) /\ g[1] \in {"identify", "create"}
        /\ \A j \in 1..(1 - 1) : g[j] \notin {"save", "root", "write"}
    BY <1>3
  <2> HIDE DEF g
  <2>2. Identifies(g)
    BY <2>1, Zenon DEF Identifies
  <2> QED
    BY <2>1, <2>2 DEF g
<1> QED
  BY <1>2, <1>4, <1>5, <1>6, Zenon

(* Calls that make a key and go on with the rest.                          *)
LEMMA SaveFunctions ==
    /\ <<"request">> \in Seq(SaveSteps) /\ <<"save">> \in Seq(SaveSteps) /\ <<"root">> \in Seq(SaveSteps)
    /\ <<"write">> \in Seq(SaveSteps) /\ <<"sign", "write">> \in Seq(SaveSteps)
    /\ <<"selfsign", "write">> \in Seq(SaveSteps)
    /\ \A p \in ProviderConfigs : ExportKey(p) \in Seq(SaveSteps)
<1>1. \A x, y, z, w \in SaveSteps : /\ <<x>> \in Seq(SaveSteps) /\ <<x, y>> \in Seq(SaveSteps)
                                    /\ <<x, y, z, w>> \in Seq(SaveSteps)
  OBVIOUS
<1>2. {"request", "save", "root", "write", "sign", "selfsign", "info", "private", "type", "public", "export",
       "describe"} \subseteq SaveSteps
  BY DEF SaveSteps
<1>3. <<"info">> \in Seq(SaveSteps) /\ FindKeyPairOnSession \in Seq(SaveSteps) /\ <<"describe">> \in Seq(SaveSteps)
  BY <1>1, <1>2 DEF FindKeyPairOnSession
<1>4. Crypto11ExportKey \in Seq(SaveSteps)
  <2>1. \A a, b \in Seq(SaveSteps) : a \o b \in Seq(SaveSteps)
    BY ConcatProperties
  <2> QED
    BY <1>3, <2>1, Zenon DEF Crypto11ExportKey
<1>5. ASSUME NEW p \in ProviderConfigs PROVE ExportKey(p) \in Seq(SaveSteps)
  <2>1. p.kind \in {"pkcs11", "kms", "inmem", "testprov"}
    BY DEF ProviderConfigs
  <2>2. ExportKey(p) \in {Crypto11ExportKey, <<"describe">>}
    BY <2>1 DEF ExportKey, KmsExportKey, InmemExportKey, TestprovExportKey
  <2> QED
    BY <1>3, <1>4, <2>2, Zenon
<1> QED
  BY <1>1, <1>2, <1>5

(* Such a call, in the place of a provider.                                *)
LEMMA SavingCalls ==
    \A t, n, m, c : \A p \in c.by :
       t \in Seq(SaveSteps) /\ Identifies(t) /\ n.todo = t /\ n.place = p.place => LoadCall(n, m, c)
  BY DEF LoadCall, Saving

(* The functions of a request.                                             *)
LEMMA RequestIdentifies ==
    ASSUME NEW p \in ProviderConfigs, NEW kr, NEW rest \in Seq(SaveSteps)
    PROVE  /\ ProcessCsrRequest(p, kr) \o rest \in Seq(SaveSteps) /\ Identifies(ProcessCsrRequest(p, kr) \o rest)
           /\ GenerateKey(p, TypeOf(kr)) \o ExportKey(p) \o rest \in Seq(SaveSteps)
           /\ Identifies(GenerateKey(p, TypeOf(kr)) \o ExportKey(p) \o rest)
<1> DEFINE g == GenerateKey(p, TypeOf(kr))
           e == ExportKey(p)
<1>1. g \in Seq(SaveSteps) /\ Identifies(g) /\ e \in Seq(SaveSteps) /\ <<"request">> \in Seq(SaveSteps)
  BY GeneratorsIdentify, SaveFunctions
<1> HIDE DEF g, e
<1>2. g \o <<"request">> \in Seq(SaveSteps) /\ Identifies(g \o <<"request">>)
  BY <1>1, IdentifiesMore
<1>3. g \o <<"request">> \o e \in Seq(SaveSteps) /\ Identifies(g \o <<"request">> \o e)
  BY <1>1, <1>2, IdentifiesMore
<1>4. g \o <<"request">> \o e \o rest \in Seq(SaveSteps) /\ Identifies(g \o <<"request">> \o e \o rest)
  BY <1>3, IdentifiesMore
<1>5. g \o e \in Seq(SaveSteps) /\ Identifies(g \o e)
  BY <1>1, IdentifiesMore
<1>6. g \o e \o rest \in Seq(SaveSteps) /\ Identifies(g \o e \o rest)
  BY <1>5, IdentifiesMore
<1> QED
  BY <1>4, <1>6, Zenon DEF g, e, ProcessCsrRequest, ParseCsrRequest

(* The default provider is one of the providers.                           *)
LEMMA DefaultThere ==
    ASSUME CryptoInv, LoadInv, Loaded
    PROVE  Default \in crypto.by /\ Default \in ProviderConfigs /\ Providers \subseteq crypto.by
<1>1. Default \in crypto.default
  BY DEF Loaded, CryptoInv, ProvidersOK, Default
<1>2. crypto.default \subseteq crypto.by
  BY DEF LoadInv, Registry
<1> QED
  BY <1>1, <1>2, ProvidersThere DEF Providers

(* The call of csrprov for a request.                                      *)
LEMMA RequestLoads ==
    ASSUME CryptoInv, LoadInv, Loaded, NEW m, NEW req, NEW job, NEW rest \in Seq(SaveSteps)
    PROVE  LoadCall(ForRequest(req, job, rest), m, crypto)
<1> DEFINE t == ProcessCsrRequest(Default, req.kr) \o rest
           n == ForRequest(req, job, rest)
<1>1. Default \in crypto.by /\ Default \in ProviderConfigs
  BY DefaultThere
<1>2. NewCall(n, t, Default.place, NoID)
  BY NewCalls, Zenon DEF ForRequest
<1>3. t \in Seq(SaveSteps) /\ Identifies(t)
  BY <1>1, RequestIdentifies
<1> HIDE DEF t, n
<1>4. n.todo = t /\ n.place = Default.place
  BY <1>2, Zenon DEF NewCall
<1>5. LoadCall(n, m, crypto)
  BY <1>1, <1>3, <1>4, SavingCalls, Zenon
<1> QED
  BY <1>5 DEF n

(* The signer of csr gencert and signcert.                                 *)
LEMMA SignerLoads ==
    ASSUME PairInv, CryptoInv, LoadInv, Loaded, NEW u \in Users, JobOK(op[u].job), NewLocalCASigner(u)
    PROVE  LoadsOn(u)
<1> DEFINE job == [op[u].job EXCEPT ![1].key = Held(op[u])]
           req == op[u].job[1].csr
           t == <<"sign", "write">>
           n == [Idle EXCEPT !.todo = t, !.job = job, !.pub = req.pub]
<1>1. DOMAIN op = Users
  BY DEF PairInv, PairCalls
<1>2. op' = [op EXCEPT ![u] = ForRequest(req, job, t)] \/ Fail(u) \/ ("pub" \in DOMAIN req /\ op' = [op EXCEPT ![u] = n])
  BY Zenon DEF NewLocalCASigner
<1>3. JobOK(job) /\ job[1].csr = req
  BY DEF JobOK
<1>4. n.todo = t /\ n.job = job
  BY DEF Idle, Call
<1>5. "pub" \in DOMAIN req => "kr" \notin DOMAIN req
  BY DEF JobOK
<1>6. t \in Seq(SaveSteps)
  BY SaveFunctions
<1> HIDE DEF req, job, n
<1>7. "pub" \in DOMAIN req => LoadCall(n, made', crypto)
  BY <1>3, <1>4, <1>5 DEF LoadCall, Signing
<1> HIDE DEF t
<1>8. LoadCall(ForRequest(req, job, t), made', crypto)
  BY <1>6, RequestLoads, Zenon
<1>9. \E k : op' = [op EXCEPT ![u] = k] /\ LoadCall(k, made', crypto)
  BY <1>2, <1>7, <1>8, IdleLoads, Zenon DEF Fail
<1> QED
  BY <1>1, <1>9, Assign, Zenon DEF LoadsOn

(* The function a call is at decides the step.                             *)
LEMMA StepAt ==
    ASSUME NEW u, Steps(u)
    PROVE  /\ \A class \in {"private", "public"} : At(u, class) => findKey(u, class)
           /\ At(u, "type") => GetKeyType(u)
           /\ At(u, "export") => ExportPublicKey(u)
           /\ At(u, "describe") => DescribeKey(u)
           /\ At(u, "publickey") => GetPublicKey(u)
           /\ At(u, "hold") => Hold(u)
           /\ At(u, "signer") => NewLocalCASigner(u)
<1> DEFINE Those == {"private", "public", "type", "export", "describe", "publickey", "hold", "signer"}
<1>0. \A s, r : At(u, s) /\ At(u, r) => s = r
  BY DEF At
<1>1. \/ findKey(u, "private") \/ findKey(u, "public") \/ GetKeyType(u) \/ ExportPublicKey(u) \/ DescribeKey(u)
      \/ GetPublicKey(u) \/ Hold(u) \/ NewLocalCASigner(u)
      \/ \E s : s \notin Those /\ At(u, s)
  <2>1. CASE TokenStep(u)
    <3>1. ASSUME NEW class \in {"private", "public"}, DestroyObject(u, class) PROVE \E s : s \notin Those /\ At(u, s)
      <4>1. At(u, RmStep[class])
        BY <3>1 DEF DestroyObject
      <4>2. RmStep[class] \notin Those
        BY <3>1 DEF RmStep
      <4> QED
        BY <4>1, <4>2, Zenon
    <3>2. CASE GenerateKeyPair(u) \/ Identify(u) \/ GetInfo(u)
      BY <3>2 DEF GenerateKeyPair, Identify, GetInfo
    <3>3. CASE ListKeys(u) \/ EnumKeys(u) \/ Listed(u)
      BY <3>3 DEF ListKeys, EnumKeys, Listed
    <3> QED
      BY <2>1, <3>1, <3>2, <3>3 DEF TokenStep
  <2>2. CASE CreateKey(u) \/ KmsEnumKeys(u) \/ ScheduleKeyDeletion(u) \/ Save(u)
    BY <2>2 DEF CreateKey, KmsEnumKeys, ScheduleKeyDeletion, Save
  <2>3. CASE MakeRequest(u) \/ SignRoot(u) \/ NextIssuer(u) \/ NewIssuer(u)
    BY <2>3 DEF MakeRequest, SignRoot, NextIssuer, NewIssuer
  <2>4. CASE LocalSign(u) \/ SelfSign(u) \/ WriteFiles(u)
    BY <2>4 DEF LocalSign, SelfSign, WriteFiles
  <2> QED
    BY <2>1, <2>2, <2>3, <2>4, Zenon DEF Steps, ProviderStep
<1>2. /\ \A class : findKey(u, class) => At(u, class)
      /\ GetKeyType(u) => At(u, "type")
      /\ ExportPublicKey(u) => At(u, "export")
      /\ DescribeKey(u) => At(u, "describe")
      /\ GetPublicKey(u) => At(u, "publickey")
      /\ Hold(u) => At(u, "hold")
      /\ NewLocalCASigner(u) => At(u, "signer")
  BY Zenon DEF findKey, GetKeyType, ExportPublicKey, DescribeKey, GetPublicKey, Hold, NewLocalCASigner
<1> QED
  BY <1>0, <1>1, <1>2

(* A call that signs a request.                                            *)
LEMMA SigningRuns ==
    ASSUME PairInv, CryptoInv, LoadInv, Loaded, NEW u \in Users, op[u].todo # <<>>, Signing(op[u]), Steps(u)
    PROVE  LoadsOn(u)
<1>1. CASE At(u, "signer")
  <2>1. NewLocalCASigner(u)
    BY <1>1, StepAt
  <2> QED
    BY <2>1, SignerLoads DEF Signing
<1>2. CASE ~At(u, "signer")
  <2>1. \/ op[u].todo \in Seq(FindSteps) /\ Head(op[u].todo) \in FindSteps /\ Tail(op[u].todo) \in Seq(FindSteps)
        \/ /\ "kr" \notin DOMAIN op[u].job[1].csr
           /\ \/ Head(op[u].todo) = "sign" /\ Tail(op[u].todo) = <<"write">>
              \/ Head(op[u].todo) = "write" /\ Tail(op[u].todo) = <<>>
    <3>1. CASE op[u].todo \in Seq(FindSteps)
      BY <3>1, HeadTailProperties
    <3>2. CASE op[u].todo \in {<<"sign", "write">>, <<"write">>} /\ "kr" \notin DOMAIN op[u].job[1].csr
      <4>1. Head(<<"sign", "write">>) = "sign" /\ Tail(<<"sign", "write">>) = <<"write">>
        OBVIOUS
      <4>2. Head(<<"write">>) = "write" /\ Tail(<<"write">>) = <<>>
        OBVIOUS
      <4> QED
        BY <3>2, <4>1, <4>2, Zenon
    <3> QED
      BY <3>1, <3>2 DEF Signing
  <2>2. Head(op[u].todo) \in SaveSteps \ {"create"}
    BY <1>2, <2>1 DEF FindSteps, SaveSteps, At
  <2>3. PICK n : Becomes(u, n) /\ Went(op[u], n, made')
    BY <2>2, SaveGoes DEF Goes, At
  <2>4. CASE n = Idle
    BY <2>3, <2>4, IdleLoads DEF LoadsOn
  <2>5. CASE n # Idle
    <3>1. n.todo = Tail(op[u].todo) /\ JobKept(op[u].job, n.job) /\ JobOK(op[u].job)
      BY <2>3, <2>5 DEF Went, Signing
    <3>2. JobOK(n.job) /\ n.job[1].csr = op[u].job[1].csr
      BY <3>1, JobsKept
    <3>3. <<>> \in Seq(QuietSteps)
      BY EmptySeq
    <3>4. LoadCall(n, made', crypto)
      BY <2>1, <3>1, <3>2, <3>3 DEF LoadCall, Signing
    <3> QED
      BY <2>3, <3>4 DEF LoadsOn
  <2> QED
    BY <2>4, <2>5
<1> QED
  BY <1>1, <1>2

-----------------------------------------------------------------------------
(* The calls that hold a key.                                              *)

(* The call goes on about the same key.                                    *)
Same(o, n) == n.todo = Tail(o.todo) /\ n.place = o.place /\ n.lenient = o.lenient /\ n.id = o.id
SameHandles(o, n) == n.handle["private"] = o.handle["private"] /\ n.handle["public"] = o.handle["public"]

(* One half is found, the other one stays.                                 *)
Finds(o, n, class) ==
    Same(o, n) /\ Found(n, class) /\ (class = "public" => n.handle["private"] = o.handle["private"])

(* findKey gives the handle of the key.                                    *)
LEMMA FindKeyFinds ==
    ASSUME PairInv, NEW u \in Users, NEW class \in {"private", "public"}, op[u].place \in Slots, ~op[u].lenient,
           findKey(u, class)
    PROVE  Becomes(u, Idle) \/ \E n : Becomes(u, n) /\ Finds(op[u], n, class)
<1>1. DOMAIN op = Users /\ CallType(op[u], made) /\ made \in [Places -> Nat]
  BY DEF PairInv, PairCalls, ObjectsOK
<1>2. Fail(u) \/ \E x \in Matches(op[u], class) : Continue(u, [op[u] EXCEPT !.handle[class] = x.handle])
  BY Zenon DEF findKey, NotFound
<1>3. Fail(u) => Becomes(u, Idle)
  BY <1>1, Assign DEF Fail
<1>4. ASSUME NEW x \in Matches(op[u], class), Continue(u, [op[u] EXCEPT !.handle[class] = x.handle])
      PROVE  Becomes(u, Idle) \/ \E n : Becomes(u, n) /\ Finds(op[u], n, class)
  <2> DEFINE q == [op[u] EXCEPT !.handle[class] = x.handle]
  <2>1. {"todo", "place", "id", "handle", "lenient"} \subseteq DOMAIN op[u] /\ DOMAIN op[u].handle = {"private", "public"}
    BY <1>1, CallDomain DEF CallType
  <2>2. DOMAIN q = DOMAIN op[u] /\ q.todo = op[u].todo /\ q.place = op[u].place /\ q.lenient = op[u].lenient /\ q.id = op[u].id
    BY <2>1
  <2>3. q.handle[class] = x.handle /\ (class = "public" => q.handle["private"] = op[u].handle["private"])
    BY <2>1
  <2>4. Resumable(u, q, made) /\ Continue(u, q)
    BY <1>1, <1>4, <2>2 DEF Resumable
  <2> HIDE DEF q
  <2>5. Resumes(u, q)
    BY <2>4, Left, Zenon
  <2>6. /\ ObjectOK(x, made) /\ x.place = op[u].place /\ x.class = class
        /\ op[u].id # NoID => x.id = op[u].id
    BY DEF Matches, PairInv, ObjectsOK
  <2>7. op[u].id # NoID => op[u].id[1] = op[u].place /\ x.handle = HandleOf(class, op[u].id[2])
    BY <2>6 DEF ObjectOK
  <2>8. ASSUME NEW n, LeftOf(q, n) PROVE Finds(op[u], n, class)
    BY <2>2, <2>3, <2>7, <2>8 DEF LeftOf, Finds, Same, Found
  <2> QED
    BY <2>5, <2>8, Zenon DEF Resumes
<1> QED
  BY <1>2, <1>3, <1>4, Zenon

(* GetKeyType reads the type.                                              *)
LEMMA TypeReads ==
    ASSUME PairInv, NEW u \in Users, GetKeyType(u)
    PROVE  Becomes(u, Idle) \/ \E n : Becomes(u, n) /\ Same(op[u], n) /\ SameHandles(op[u], n)
<1>1. DOMAIN op = Users /\ CallType(op[u], made)
  BY DEF PairInv, PairCalls
<1>2. Fail(u) \/ \E a : Continue(u, [op[u] EXCEPT !.typ = a])
  BY Zenon DEF GetKeyType
<1>3. Fail(u) => Becomes(u, Idle)
  BY <1>1, Assign DEF Fail
<1>4. ASSUME NEW a, Continue(u, [op[u] EXCEPT !.typ = a])
      PROVE  Becomes(u, Idle) \/ \E n : Becomes(u, n) /\ Same(op[u], n) /\ SameHandles(op[u], n)
  <2> DEFINE q == [op[u] EXCEPT !.typ = a]
  <2>1. {"todo", "place", "id", "handle", "lenient"} \subseteq DOMAIN op[u]
    BY <1>1, CallDomain DEF CallType
  <2>2. /\ DOMAIN q = DOMAIN op[u] /\ q.todo = op[u].todo /\ q.place = op[u].place /\ q.lenient = op[u].lenient
        /\ q.id = op[u].id /\ q.handle = op[u].handle
    BY <2>1
  <2>3. Resumable(u, q, made) /\ Continue(u, q)
    BY <1>1, <1>4, <2>2 DEF Resumable
  <2> HIDE DEF q
  <2>4. Resumes(u, q)
    BY <2>3, Left, Zenon
  <2>5. ASSUME NEW n, LeftOf(q, n) PROVE Same(op[u], n) /\ SameHandles(op[u], n)
    BY <2>2, <2>5 DEF LeftOf, Same, SameHandles
  <2> QED
    BY <2>4, <2>5, Zenon DEF Resumes
<1> QED
  BY <1>2, <1>3, <1>4, Zenon

(* A public key that is read is that of the handle.                        *)
LEMMA PublicReads ==
    ASSUME PairInv, NEW u \in Users, NEW a, Continue(u, [op[u] EXCEPT !.pub = a])
    PROVE  Becomes(u, Idle) \/ \E n : Becomes(u, n) /\ Same(op[u], n) /\ SameHandles(op[u], n) /\ n.pub = a
<1>1. DOMAIN op = Users /\ CallType(op[u], made)
  BY DEF PairInv, PairCalls
<1> DEFINE q == [op[u] EXCEPT !.pub = a]
<1>2. {"todo", "place", "id", "handle", "lenient", "pub"} \subseteq DOMAIN op[u]
  BY <1>1, CallDomain DEF CallType
<1>3. /\ DOMAIN q = DOMAIN op[u] /\ q.todo = op[u].todo /\ q.place = op[u].place /\ q.lenient = op[u].lenient
      /\ q.id = op[u].id /\ q.handle = op[u].handle /\ q.pub = a
  BY <1>2
<1>4. Resumable(u, q, made) /\ Continue(u, q)
  BY <1>1, <1>3 DEF Resumable
<1> HIDE DEF q
<1>5. Resumes(u, q)
  BY <1>4, Left, Zenon
<1>6. ASSUME NEW n, LeftOf(q, n) PROVE Same(op[u], n) /\ SameHandles(op[u], n) /\ n.pub = a
  BY <1>3, <1>6 DEF LeftOf, Same, SameHandles
<1> QED
  BY <1>5, <1>6, Zenon DEF Resumes

(* The public half that was found is that of the key.                      *)
LEMMA ExportReads ==
    ASSUME PairInv, NEW u \in Users, op[u].place \in Slots, Found(op[u], "public"), ExportPublicKey(u)
    PROVE  Becomes(u, Idle) \/ \E n : Becomes(u, n) /\ Same(op[u], n) /\ SameHandles(op[u], n) /\ Got(n)
<1>1. DOMAIN op = Users /\ CallType(op[u], made) /\ made \in [Places -> Nat]
  BY DEF PairInv, PairCalls, ObjectsOK
<1>2. Fail(u) \/ \E x \in Object(op[u], "public") : Continue(u, [op[u] EXCEPT !.pub = x.id])
  BY Zenon DEF ExportPublicKey
<1>3. Fail(u) => Becomes(u, Idle)
  BY <1>1, Assign DEF Fail
<1>4. ASSUME NEW x \in Object(op[u], "public"), Continue(u, [op[u] EXCEPT !.pub = x.id])
      PROVE  Becomes(u, Idle) \/ \E n : Becomes(u, n) /\ Same(op[u], n) /\ SameHandles(op[u], n) /\ Got(n)
  <2>1. Becomes(u, Idle) \/ \E n : Becomes(u, n) /\ Same(op[u], n) /\ SameHandles(op[u], n) /\ n.pub = x.id
    BY <1>4, PublicReads, Zenon
  <2>2. op[u].id # NoID => x.id = op[u].id
    <3> SUFFICES ASSUME op[u].id # NoID PROVE x.id = op[u].id
      OBVIOUS
    <3>1. op[u].id \in OldIDs(made)
      BY <1>1 DEF CallType, KnownIDs
    <3>2. ObjectOK(x, made) /\ x.place = op[u].place /\ x.handle = op[u].handle["public"]
      BY DEF Object, PairInv, ObjectsOK
    <3>3. op[u].id[1] = x.place /\ x.handle = HandleOf("public", op[u].id[2])
      BY <3>2 DEF Found
    <3> QED
      BY <1>1, <3>1, <3>2, <3>3, HandleDecides
  <2> QED
    BY <2>1, <2>2, Zenon DEF Same, Got
<1> QED
  BY <1>2, <1>3, <1>4, Zenon

(* KMS and the keys in memory return the key of the id.                    *)
LEMMA StoreReads ==
    ASSUME PairInv, NEW u \in Users, DescribeKey(u) \/ GetPublicKey(u)
    PROVE  Becomes(u, Idle) \/ \E n : Becomes(u, n) /\ Same(op[u], n) /\ Got(n)
<1>1. DOMAIN op = Users
  BY DEF PairInv, PairCalls
<1>2. Fail(u) \/ Continue(u, [op[u] EXCEPT !.pub = op[u].id])
  BY Zenon DEF DescribeKey, GetPublicKey
<1>3. Fail(u) => Becomes(u, Idle)
  BY <1>1, Assign DEF Fail
<1>4. Continue(u, [op[u] EXCEPT !.pub = op[u].id])
         => Becomes(u, Idle) \/ \E n : Becomes(u, n) /\ Same(op[u], n) /\ SameHandles(op[u], n) /\ n.pub = op[u].id
  BY PublicReads, Zenon
<1> QED
  BY <1>2, <1>3, <1>4, Zenon DEF Same, Got

(* The call has used the key.                                              *)
LEMMA HoldEnds ==
    ASSUME PairInv, NEW u \in Users, Hold(u), op[u].todo = <<"hold">>
    PROVE  Becomes(u, Idle)
<1>1. DOMAIN op = Users
  BY DEF PairInv, PairCalls
<1>2. op' = [op EXCEPT ![u] = Idle]
  BY DEF Hold, Continue
<1> QED
  BY <1>1, <1>2, Assign

(* What is left of the calls.                                              *)
LEMMA HoldTails ==
    /\ Tail(<<"private", "type", "public", "export", "hold">>) = <<"type", "public", "export", "hold">>
    /\ Tail(<<"type", "public", "export", "hold">>) = <<"public", "export", "hold">>
    /\ Tail(<<"public", "export", "hold">>) = <<"export", "hold">>
    /\ Tail(<<"export", "hold">>) = <<"hold">>
    /\ Tail(<<"describe", "publickey", "hold">>) = <<"publickey", "hold">>
    /\ Tail(<<"describe", "hold">>) = <<"hold">> /\ Tail(<<"publickey", "hold">>) = <<"hold">>
    /\ Head(<<"private", "type", "public", "export", "hold">>) = "private"
    /\ Head(<<"type", "public", "export", "hold">>) = "type"
    /\ Head(<<"public", "export", "hold">>) = "public" /\ Head(<<"export", "hold">>) = "export"
    /\ Head(<<"describe", "publickey", "hold">>) = "describe" /\ Head(<<"describe", "hold">>) = "describe"
    /\ Head(<<"publickey", "hold">>) = "publickey" /\ Head(<<"hold">>) = "hold"
<1>1. /\ Tail(<<"private", "type", "public", "export", "hold">>) = <<"type", "public", "export", "hold">>
      /\ Tail(<<"type", "public", "export", "hold">>) = <<"public", "export", "hold">>
  OBVIOUS
<1>2. /\ Tail(<<"public", "export", "hold">>) = <<"export", "hold">>
      /\ Tail(<<"export", "hold">>) = <<"hold">>
  OBVIOUS
<1>3. /\ Tail(<<"describe", "publickey", "hold">>) = <<"publickey", "hold">>
      /\ Tail(<<"describe", "hold">>) = <<"hold">> /\ Tail(<<"publickey", "hold">>) = <<"hold">>
  OBVIOUS
<1>4. /\ Head(<<"private", "type", "public", "export", "hold">>) = "private"
      /\ Head(<<"type", "public", "export", "hold">>) = "type"
      /\ Head(<<"public", "export", "hold">>) = "public" /\ Head(<<"export", "hold">>) = "export"
  OBVIOUS
<1>5. /\ Head(<<"describe", "publickey", "hold">>) = "describe" /\ Head(<<"describe", "hold">>) = "describe"
      /\ Head(<<"publickey", "hold">>) = "publickey" /\ Head(<<"hold">>) = "hold"
  OBVIOUS
<1> QED
  BY <1>1, <1>2, <1>3, <1>4, <1>5

(* On a slot, and elsewhere.                                               *)
LEMMA HoldingRuns ==
    ASSUME PairInv, NEW u \in Users, op[u].todo # <<>>, Holding(op[u]), Steps(u)
    PROVE  LoadsOn(u)
<1> DEFINE o == op[u]
<1>i. Becomes(u, Idle) => LoadsOn(u)
  BY IdleLoads, Zenon DEF LoadsOn
<1>n. \A n : Becomes(u, n) /\ Holding(n) => LoadsOn(u)
  BY Zenon DEF LoadsOn, LoadCall
<1>1. CASE o.todo = <<"hold">>
  <2>1. At(u, "hold")
    BY <1>1, HoldTails DEF At
  <2> QED
    BY <1>1, <1>i, <2>1, StepAt, HoldEnds
<1>2. CASE o.place \in Slots /\ ~o.lenient /\ o.todo = <<"private", "type", "public", "export", "hold">>
  <2>1. At(u, "private")
    BY <1>2, HoldTails DEF At
  <2>2. Becomes(u, Idle) \/ \E n : Becomes(u, n) /\ Finds(o, n, "private")
    BY <1>2, <2>1, StepAt, FindKeyFinds
  <2>3. ASSUME NEW n, Finds(o, n, "private") PROVE Holding(n)
    BY <1>2, <2>3, HoldTails, Zenon DEF Finds, Same, Holding
  <2> QED
    BY <1>i, <1>n, <2>2, <2>3, Zenon
<1>3. CASE o.place \in Slots /\ ~o.lenient /\ o.todo = <<"type", "public", "export", "hold">> /\ Found(o, "private")
  <2>1. At(u, "type")
    BY <1>3, HoldTails DEF At
  <2>2. Becomes(u, Idle) \/ \E n : Becomes(u, n) /\ Same(o, n) /\ SameHandles(o, n)
    BY <2>1, StepAt, TypeReads
  <2>3. ASSUME NEW n, Same(o, n) /\ SameHandles(o, n) PROVE Holding(n)
    <3>1. Found(n, "private")
      BY <1>3, <2>3 DEF Same, SameHandles, Found
    <3> QED
      BY <1>3, <2>3, <3>1, HoldTails, Zenon DEF Same, Holding
  <2> QED
    BY <1>i, <1>n, <2>2, <2>3, Zenon
<1>4. CASE o.place \in Slots /\ ~o.lenient /\ o.todo = <<"public", "export", "hold">> /\ Found(o, "private")
  <2>1. At(u, "public")
    BY <1>4, HoldTails DEF At
  <2>2. Becomes(u, Idle) \/ \E n : Becomes(u, n) /\ Finds(o, n, "public")
    BY <1>4, <2>1, StepAt, FindKeyFinds
  <2>3. ASSUME NEW n, Finds(o, n, "public") PROVE Holding(n)
    <3>1. Found(n, "private")
      BY <1>4, <2>3 DEF Finds, Same, Found
    <3> QED
      BY <1>4, <2>3, <3>1, HoldTails, Zenon DEF Finds, Same, Holding
  <2> QED
    BY <1>i, <1>n, <2>2, <2>3, Zenon
<1>5. CASE o.place \in Slots /\ ~o.lenient /\ o.todo = <<"export", "hold">> /\ Found(o, "private") /\ Found(o, "public")
  <2>1. At(u, "export")
    BY <1>5, HoldTails DEF At
  <2>2. Becomes(u, Idle) \/ \E n : Becomes(u, n) /\ Same(o, n) /\ SameHandles(o, n) /\ Got(n)
    BY <1>5, <2>1, StepAt, ExportReads
  <2>3. ASSUME NEW n, Same(o, n) /\ SameHandles(o, n) /\ Got(n) PROVE Holding(n)
    <3>1. Found(n, "private")
      BY <1>5, <2>3 DEF Same, SameHandles, Found
    <3> QED
      BY <1>5, <2>3, <3>1, HoldTails, Zenon DEF Same, Holding
  <2> QED
    BY <1>i, <1>n, <2>2, <2>3, Zenon
<1>6. CASE /\ o.place \in Stores
           /\ o.todo \in {<<"describe", "publickey", "hold">>, <<"describe", "hold">>, <<"publickey", "hold">>}
  <2>1. At(u, "describe") \/ At(u, "publickey")
    BY <1>6, HoldTails, Zenon DEF At
  <2>2. Becomes(u, Idle) \/ \E n : Becomes(u, n) /\ Same(o, n) /\ Got(n)
    BY <2>1, StepAt, StoreReads
  <2>3. Tail(o.todo) \in {<<"publickey", "hold">>, <<"hold">>}
    BY <1>6, HoldTails, Zenon
  <2>4. ASSUME NEW n, Same(o, n) /\ Got(n) PROVE Holding(n)
    BY <1>6, <2>3, <2>4, Zenon DEF Same, Holding
  <2> QED
    BY <1>i, <1>n, <2>2, <2>4, Zenon
<1> QED
  BY <1>1, <1>2, <1>3, <1>4, <1>5, <1>6, Zenon DEF Holding

(* The key that is held is that of its id.                                 *)
LEMMA HeldOK ==
    ASSUME PairInv, NEW u \in Users, Holding(op[u]), At(u, "hold")
    PROVE  KeyOK(Held(op[u]))
<1> DEFINE o == op[u]
           k == Held(o)
<1>1. CallType(o, made)
  BY DEF PairInv, PairCalls
<1>2. k.id = o.id /\ k.pub = o.pub /\ k.place = o.place /\ k.handle = o.handle.private
  BY DEF Held
<1>3. o.todo = <<"hold">>
  <2>1. Head(o.todo) = "hold"
    BY DEF At
  <2> QED
    BY <2>1, HoldTails DEF Holding
<1>4. Got(o) /\ (o.place \in Slots => Found(o, "private"))
  <2>1. /\ <<"hold">> # <<"private", "type", "public", "export", "hold">> /\ <<"hold">> # <<"type", "public", "export", "hold">>
        /\ <<"hold">> # <<"public", "export", "hold">> /\ <<"hold">> # <<"export", "hold">>
        /\ <<"hold">> # <<"describe", "publickey", "hold">> /\ <<"hold">> # <<"describe", "hold">>
        /\ <<"hold">> # <<"publickey", "hold">>
    OBVIOUS
  <2>2. o.place \in Stores => o.place \notin Slots
    BY SlotsAssumption
  <2> QED
    BY <1>3, <2>1, <2>2 DEF Holding
<1> HIDE DEF k
<1>5. o.id # NoID => o.id \in Places \X Nat
  BY <1>1 DEF CallType, KnownIDs, OldIDs
<1>6. KeyOK(k)
  BY <1>2, <1>4, <1>5 DEF KeyOK, Got, Found
<1> QED
  BY <1>6 DEF k

-----------------------------------------------------------------------------
(* Steps, commands and the rest.                                           *)

(* Only a call that has identified its key saves it.                       *)
LEMMA SavedInTime ==
    ASSUME LoadInv, NEW u \in Users, op[u].todo # <<>>,
           \/ At(u, "save") \/ At(u, "root")
           \/ At(u, "write") /\ "kr" \in DOMAIN op[u].job[1].csr
    PROVE  FileNamed(SavedBy(op[u]), made, crypto)
<1>1. Head(op[u].todo) \in {"save", "root", "write"}
  BY DEF At
<1>2. LoadCall(op[u], made, crypto)
  BY DEF LoadInv
<1>3. op[u].todo \notin Seq(QuietSteps)
  <2>1. op[u].todo \in Seq(QuietSteps) => Head(op[u].todo) \in QuietSteps
    BY HeadTailProperties
  <2>2. {"save", "root", "write"} \cap QuietSteps = {}
    BY DEF QuietSteps, Plain
  <2> QED
    BY <1>1, <2>1, <2>2
<1>4. ~Holding(op[u])
  BY <1>1, HoldTails DEF Holding
<1>5. ~Signing(op[u])
  <2>1. op[u].todo \in Seq(FindSteps) => Head(op[u].todo) \in FindSteps
    BY HeadTailProperties
  <2>2. {"save", "root", "write"} \cap FindSteps = {}
    BY DEF FindSteps
  <2>3. Head(<<"sign", "write">>) = "sign" /\ Head(<<"write">>) = "write"
    OBVIOUS
  <2>4. CASE op[u].todo \in {<<"sign", "write">>, <<"write">>} /\ "kr" \notin DOMAIN op[u].job[1].csr
    <3>1. ~At(u, "save") /\ ~At(u, "root")
      BY <2>3, <2>4 DEF At
    <3> QED
      BY <2>4, <3>1
  <2> QED
    BY <1>1, <2>1, <2>2, <2>4 DEF Signing
<1>6. Saving(op[u], made, crypto)
  BY <1>2, <1>3, <1>4, <1>5 DEF LoadCall
<1>7. ~Identifies(op[u].todo)
  <2>1. op[u].todo \in Seq(SaveSteps)
    BY <1>6 DEF Saving
  <2> QED
    BY <1>1, <2>1, IdentifiesLater
<1>8. Identified(op[u], made)
  BY <1>6, <1>7 DEF Saving
<1> QED
  BY <1>6, <1>8, SavedNamed, Zenon DEF SavedBy

(* Only a call that has found its key holds it.                            *)
LEMMA HeldInTime ==
    ASSUME PairInv, LoadInv, NEW u \in Users, At(u, "hold")
    PROVE  KeyOK(Held(op[u]))
<1>1. op[u].todo # <<>> /\ Head(op[u].todo) = "hold"
  BY DEF At
<1>2. LoadCall(op[u], made, crypto)
  BY DEF LoadInv
<1>3. \A S : op[u].todo \in Seq(S) => "hold" \in S
  BY <1>1, HeadTailProperties
<1>4. "hold" \notin QuietSteps /\ "hold" \notin FindSteps /\ "hold" \notin SaveSteps
  BY DEF QuietSteps, FindSteps, SaveSteps
<1>5. ~Signing(op[u])
  <2>1. Head(<<"sign", "write">>) = "sign" /\ Head(<<"write">>) = "write"
    OBVIOUS
  <2> QED
    BY <1>1, <1>3, <1>4, <2>1 DEF Signing
<1>6. Holding(op[u])
  BY <1>2, <1>3, <1>4, <1>5 DEF LoadCall, Saving
<1> QED
  BY <1>6, HeldOK

(* The steps of calls.                                                     *)
LEMMA StepsLoad ==
    ASSUME CallsInv, CryptoInv, PairInv, PairInv', LoadInv, NEW u \in Users, op[u].todo # <<>>, Steps(u)
    PROVE  LoadInv'
<1>1. Loaded /\ UNCHANGED <<crypto, loading>>
  <2>1. Loaded
    BY DEF CallsInv
  <2>2. CASE ProviderStep(u)
    BY <2>1, <2>2, ProviderKeeps
  <2>3. CASE MakeRequest(u) \/ SignRoot(u) \/ NextIssuer(u) \/ NewIssuer(u)
    BY <2>1, <2>3 DEF MakeRequest, SignRoot, NextIssuer, NewIssuer, providerVars
  <2>4. CASE NewLocalCASigner(u) \/ LocalSign(u) \/ SelfSign(u) \/ WriteFiles(u)
    BY <2>1, <2>4 DEF NewLocalCASigner, LocalSign, SelfSign, WriteFiles, providerVars
  <2> QED
    BY <2>2, <2>3, <2>4, Zenon DEF Steps
<1>2. OldIDs(made) \subseteq OldIDs(made')
  BY MadeGrows
<1>3. LoadsOn(u)
  <2>1. CASE op[u].todo \in Seq(QuietSteps)
    BY <2>1, QuietRuns, Zenon DEF LoadsOn, LoadCall
  <2>2. CASE Saving(op[u], made, crypto)
    BY <1>2, <2>2, SavingRuns
  <2>3. CASE Signing(op[u])
    BY <1>1, <2>3, SigningRuns
  <2>4. CASE Holding(op[u])
    BY <2>4, HoldingRuns
  <2> QED
    BY <2>1, <2>2, <2>3, <2>4 DEF LoadInv, LoadCall
<1>4. \A f \in files' : f \in files \/ FileNamed(f, made', crypto)
  <2>1. ASSUME NEW f \in files', f \notin files PROVE FileNamed(f, made, crypto)
    <3>1. /\ f = SavedBy(op[u])
          /\ At(u, "save") \/ At(u, "root") \/ (At(u, "write") /\ "kr" \in DOMAIN op[u].job[1].csr)
      BY <2>1, StepEffects
    <3> QED
      BY <3>1, SavedInTime
  <2> QED
    BY <1>2, <2>1, LoadGrows, Zenon
<1>5. \A k \in keys' : k \in keys \/ KeyOK(k)
  <2>1. ASSUME NEW k \in keys', k \notin keys PROVE KeyOK(k)
    <3>1. At(u, "hold") /\ k = Held(op[u])
      BY <2>1, StepEffects
    <3> QED
      BY <3>1, HeldInTime
  <2> QED
    BY <2>1
<1>6. \A w \in outputs' : w \in outputs \/ "kr" \notin DOMAIN w
  BY StepEffects
<1>7. PICK n : Becomes(u, n) /\ LoadCall(n, made', crypto)
  BY <1>3 DEF LoadsOn
<1> QED
  BY <1>1, <1>2, <1>4, <1>5, <1>6, <1>7, CallLoads

(* A command begins n.                                                     *)
LEMMA BeginLoads ==
    \A n, c : \A u \in Users :
       PairInv /\ LoadInv /\ Loaded /\ LoadCall(n, made, crypto) /\ Begin(u, c, n) => LoadInv'
<1> SUFFICES ASSUME NEW n, NEW c, NEW u \in Users, PairInv, LoadInv, Loaded, LoadCall(n, made, crypto), Begin(u, c, n)
             PROVE  LoadInv'
  BY Zenon
<1>1. op' = [op EXCEPT ![u] = n] /\ UNCHANGED <<made, crypto, loading, files, keys, outputs>>
  BY DEF Begin, providerVars, authVars
<1>2. Becomes(u, n)
  BY <1>1, Assign DEF PairInv, PairCalls
<1>3. LoadCall(n, made', crypto) /\ OldIDs(made) \subseteq OldIDs(made')
  BY <1>1
<1> QED
  BY <1>1, <1>2, <1>3, CallLoads

(* n makes a key in the place of the provider p.                           *)
LEMMA MakingLoads ==
    ASSUME CryptoInv, PairInv, LoadInv, Loaded, NEW u \in Users, NEW kr, NEW label, NEW root, NEW p \in Providers,
           HsmGenKey(u, kr, label) \/ CreateRequestAndExportKey(u, p, kr) \/ NewRoot(u, p, kr, root)
    PROVE  LoadInv'
<1>1. p \in crypto.by /\ p \in ProviderConfigs /\ Default \in crypto.by /\ Default \in ProviderConfigs
  BY DefaultThere, ProvidersThere
<1>2. <<"save">> \in Seq(SaveSteps) /\ <<"root">> \in Seq(SaveSteps)
  BY SaveFunctions
<1>3. \A n, c, t, i : \A q \in crypto.by : t \in Seq(SaveSteps) /\ Identifies(t) /\ NewCall(n, t, q.place, i) /\ Begin(u, c, n) => LoadInv'
  BY SavingCalls, BeginLoads, Zenon DEF NewCall
<1>4. CASE HsmGenKey(u, kr, label)
  <2> DEFINE t == GenerateKey(Default, TypeOf(kr)) \o ExportKey(Default) \o <<"save">>
             n == [Call(t, Default.place) EXCEPT !.typ = TypeOf(kr), !.uses = kr.uses, !.label = label]
  <2>1. t \in Seq(SaveSteps) /\ Identifies(t)
    BY <1>1, <1>2, RequestIdentifies
  <2>2. NewCall(n, t, Default.place, NoID)
    BY NewCalls, Zenon
  <2>3. Begin(u, "genkey", n)
    BY <1>4, Zenon DEF HsmGenKey
  <2> HIDE DEF t, n
  <2> QED
    BY <1>1, <1>3, <2>1, <2>2, <2>3, Zenon
<1>5. CASE CreateRequestAndExportKey(u, p, kr)
  <2> DEFINE t == GenerateKey(p, TypeOf(kr)) \o <<"request">> \o ExportKey(p) \o <<"save">>
             n == [Call(t, p.place) EXCEPT !.typ = TypeOf(kr), !.uses = kr.uses]
  <2>1. t \in Seq(SaveSteps) /\ Identifies(t)
    BY <1>1, <1>2, RequestIdentifies DEF ProcessCsrRequest, ParseCsrRequest
  <2>2. NewCall(n, t, p.place, NoID)
    BY NewCalls, Zenon
  <2>3. Begin(u, "request", n)
    BY <1>5, Zenon DEF CreateRequestAndExportKey
  <2> HIDE DEF t, n
  <2> QED
    BY <1>1, <1>3, <2>1, <2>2, <2>3, Zenon
<1>6. CASE NewRoot(u, p, kr, root)
  <2> DEFINE t == GenerateKey(p, TypeOf(kr)) \o <<"request">> \o ExportKey(p) \o <<"root">>
             n == [Call(t, p.place) EXCEPT !.typ = TypeOf(kr), !.uses = kr.uses, !.job = <<root>>]
  <2>1. t \in Seq(SaveSteps) /\ Identifies(t)
    BY <1>1, <1>2, RequestIdentifies DEF ProcessCsrRequest, ParseCsrRequest
  <2>2. NewCall(n, t, p.place, NoID)
    BY NewCalls, Zenon
  <2>3. Begin(u, "root", n)
    BY <1>6, Zenon DEF NewRoot
  <2> HIDE DEF t, n
  <2> QED
    BY <1>1, <1>3, <2>1, <2>2, <2>3, Zenon
<1> QED
  BY <1>4, <1>5, <1>6

(* The commands that neither save nor hold.                                *)
LEMMA QuietCommands ==
    ASSUME PairInv, LoadInv, Loaded, NEW u \in Users, NEW slot, NEW typ, NEW label, NEW id, NEW public \in BOOLEAN,
           \/ GenerateOnSlot(u, slot, typ, label) \/ HsmKeyInfo(u, id, public)
           \/ HsmRmKey(u, id) \/ HsmKeys(u, label) \/ HsmRmKeys(u, label) \/ NewAuthority(u)
    PROVE  LoadInv'
<1>1. \A n, c, t, j : t \in Seq(QuietSteps) /\ CallOf(n, t, j) /\ Begin(u, c, n) => LoadInv'
  BY BeginLoads, Zenon DEF CallOf, LoadCall
<1>2. CASE GenerateOnSlot(u, slot, typ, label)
  BY <1>1, <1>2, CallFields, QuietCalls, Zenon DEF GenerateOnSlot
<1>3. CASE HsmKeyInfo(u, id, public)
  <2>1. <<>> \in Seq(QuietSteps)
    BY EmptySeq
  <2>2. Crypto11KeyInfo(public) \in Seq(QuietSteps)
    BY <2>1, QuietCalls, QuietConcat, Zenon DEF Crypto11KeyInfo
  <2>3. KmsKeyInfo(public) \in Seq(QuietSteps)
    BY <2>1, QuietCalls, QuietConcat, Zenon DEF KmsKeyInfo
  <2>4. KeyInfo(Default.place, public) \in Seq(QuietSteps)
    BY <2>2, <2>3, Zenon DEF KeyInfo
  <2> QED
    BY <1>1, <1>3, <2>4, CallFields, Zenon DEF HsmKeyInfo
<1>4. CASE HsmRmKey(u, id)
  <2> DEFINE t == IF Default.kind = "kms" THEN KmsDestroyKeyPairOnSlot ELSE DestroyKeyPairOnSlot
  <2>1. t \in Seq(QuietSteps)
    BY QuietCalls, Zenon DEF KmsDestroyKeyPairOnSlot
  <2> QED
    BY <1>1, <1>4, <2>1, CallFields, Zenon DEF HsmRmKey
<1>5. CASE HsmKeys(u, label)
  <2> DEFINE t == IF Default.kind = "kms" THEN <<"kmslist">> ELSE <<"list", "enum">>
  <2>1. t \in Seq(QuietSteps)
    BY QuietCalls, Zenon
  <2> QED
    BY <1>1, <1>5, <2>1, CallFields, Zenon DEF HsmKeys
<1>6. CASE HsmRmKeys(u, label)
  <2> DEFINE t == IF Default.kind = "kms" THEN <<"kmslist", "schedule">> ELSE <<"list", "enum">> \o DestroyKeyPairOnSlot
  <2>1. t \in Seq(QuietSteps)
    BY QuietCalls, QuietConcat, Zenon
  <2> QED
    BY <1>1, <1>6, <2>1, CallFields, Zenon DEF HsmRmKeys
<1>7. CASE NewAuthority(u)
  BY <1>1, <1>7, CallFields, QuietCalls, Zenon DEF NewAuthority
<1> QED
  BY <1>2, <1>3, <1>4, <1>5, <1>6, <1>7

(* One more element.                                                       *)
LEMMA OneMoreElement ==
    ASSUME NEW S, NEW n \in Nat, NEW s \in Seq(S), NEW t \in Seq(S), NEW v \in Seq(S), Len(s) = n, Len(t) = 1,
           Len(v) = n + 1, t[1] = v[n + 1], \A i \in 1..n : s[i] = v[i]
    PROVE  s \o t = v
<1>1. /\ s \o t \in Seq(S) /\ Len(s \o t) = Len(s) + Len(t)
      /\ \A i \in 1..(Len(s) + Len(t)) : (s \o t)[i] = IF i <= Len(s) THEN s[i] ELSE t[i - Len(s)]
  BY ConcatProperties, Zenon
<1>2. ASSUME NEW i \in 1..(n + 1) PROVE (s \o t)[i] = v[i]
  <2>1. (s \o t)[i] = IF i <= n THEN s[i] ELSE t[i - n]
    BY <1>1, <1>2
  <2>2. CASE i <= n
    BY <1>2, <2>1, <2>2
  <2>3. CASE i = n + 1
    BY <1>2, <2>1, <2>3
  <2>4. i <= n \/ i = n + 1
    BY <1>2
  <2> QED
    BY <2>2, <2>3, <2>4
<1>3. Len(s \o t) = Len(v) /\ \A i \in 1..Len(s \o t) : (s \o t)[i] = v[i]
  BY <1>1, <1>2
<1> QED
  BY <1>1, <1>3, SeqEqual, Zenon

(* One more function.                                                      *)
Longer(a, b, c, d, x) ==
    /\ <<a, b, c, d>> \o <<x>> = <<a, b, c, d, x>>
    /\ <<a, b>> \o <<x>> = <<a, b, x>>
    /\ <<a>> \o <<x>> = <<a, x>>

(* It is the last of the longer call.                                      *)
LEMMA OneMoreFunction == \A a, b, c, d, x : Longer(a, b, c, d, x)
<1> SUFFICES ASSUME NEW a, NEW b, NEW c, NEW d, NEW x
             PROVE  Longer(a, b, c, d, x)
  OBVIOUS
<1> DEFINE S == {a, b, c, d, x}
<1>0. a \in S /\ b \in S /\ c \in S /\ d \in S /\ x \in S
  OBVIOUS
<1> HIDE DEF S
<1>1. <<a, b, c, d>> \o <<x>> = <<a, b, c, d, x>>
  <2> DEFINE s == <<a, b, c, d>>
             t == <<x>>
             v == <<a, b, c, d, x>>
  <2>1. s \in Seq(S) /\ t \in Seq(S) /\ v \in Seq(S)
    BY <1>0
  <2>2. Len(s) = 4 /\ Len(t) = 1 /\ Len(v) = 4 + 1 /\ t[1] = v[4 + 1] /\ \A i \in 1..4 : s[i] = v[i]
    OBVIOUS
  <2> HIDE DEF s, t, v
  <2>3. s \o t = v
    BY <2>1, <2>2, OneMoreElement
  <2> QED
    BY <2>3 DEF s, t, v
<1>2. <<a, b>> \o <<x>> = <<a, b, x>>
  <2> DEFINE s == <<a, b>>
             t == <<x>>
             v == <<a, b, x>>
  <2>1. s \in Seq(S) /\ t \in Seq(S) /\ v \in Seq(S)
    BY <1>0
  <2>2. Len(s) = 2 /\ Len(t) = 1 /\ Len(v) = 2 + 1 /\ t[1] = v[2 + 1] /\ \A i \in 1..2 : s[i] = v[i]
    OBVIOUS
  <2> HIDE DEF s, t, v
  <2>3. s \o t = v
    BY <2>1, <2>2, OneMoreElement
  <2> QED
    BY <2>3 DEF s, t, v
<1>3. <<a>> \o <<x>> = <<a, x>>
  <2> DEFINE s == <<a>>
             t == <<x>>
             v == <<a, x>>
  <2>1. s \in Seq(S) /\ t \in Seq(S) /\ v \in Seq(S)
    BY <1>0
  <2>2. Len(s) = 1 /\ Len(t) = 1 /\ Len(v) = 1 + 1 /\ t[1] = v[1 + 1] /\ \A i \in 1..1 : s[i] = v[i]
    OBVIOUS
  <2> HIDE DEF s, t, v
  <2>3. s \o t = v
    BY <2>1, <2>2, OneMoreElement
  <2> QED
    BY <2>3 DEF s, t, v
<1> QED
  BY <1>1, <1>2, <1>3, Zenon DEF Longer

(* What finds a key to hold it.                                            *)
LEMMA FindHold ==
    /\ FindKeyPairOnSession \o <<"hold">> = <<"private", "type", "public", "export", "hold">>
    /\ <<"describe", "publickey">> \o <<"hold">> = <<"describe", "publickey", "hold">>
    /\ <<"describe">> \o <<"hold">> = <<"describe", "hold">>
<1>1. Longer("private", "type", "public", "export", "hold") /\ Longer("describe", "publickey", "", "", "hold")
  BY OneMoreFunction
<1> QED
  BY <1>1 DEF Longer, FindKeyPairOnSession

(* The calls of FindKeyPairOnSlot and of LoadPrivateKey.                   *)
FreshCall(n, t, w) == n.todo = t /\ n.place = w /\ ~n.lenient

(* They report a key that is not found.                                    *)
LEMMA FreshCalls ==
    \A t, w, a, b : /\ FreshCall([Call(t, w) EXCEPT !.id = a, !.label = b], t, w)
                    /\ FreshCall([Call(t, w) EXCEPT !.id = a, !.file = b], t, w)
  BY DEF FreshCall, Call

(* FindKeyPairOnSlot.                                                      *)
LEMMA FindLoads ==
    ASSUME PairInv, LoadInv, Loaded, NEW u \in Users, NEW slot \in Slots, NEW id, NEW label, FindOnSlot(u, slot, id, label)
    PROVE  LoadInv'
<1> DEFINE t == FindKeyPairOnSession \o <<"hold">>
           n == [Call(t, slot) EXCEPT !.id = id, !.label = label]
<1>1. FreshCall(n, t, slot)
  BY FreshCalls, Zenon
<1>2. Begin(u, "find", n)
  BY Zenon DEF FindOnSlot
<1>3. t = <<"private", "type", "public", "export", "hold">>
  BY FindHold
<1> HIDE DEF t, n
<1>4. LoadCall(n, made, crypto)
  BY <1>1, <1>3, Zenon DEF FreshCall, LoadCall, Holding
<1> QED
  BY <1>2, <1>4, BeginLoads, Zenon

(* LoadPrivateKey.                                                         *)
LEMMA LoadKeyLoads ==
    ASSUME CryptoInv, PairInv, LoadInv, Loaded, NEW u \in Users, NEW f \in files, LoadPrivateKey(u, f)
    PROVE  LoadInv'
<1>1. CASE /\ keys' = keys \cup {ParsePrivateKeyPEM(f)}
           /\ UNCHANGED <<tokenVars, loaders, loading, crypto, files, ca, certs, outputs>>
  <2>1. f.of \in KnownIDs(made)
    BY DEF PairInv, IdsOK, FileOK
  <2>2. KeyOK(ParsePrivateKeyPEM(f))
    BY <2>1 DEF KeyOK, ParsePrivateKeyPEM, KnownIDs, OldIDs
  <2>3. UNCHANGED <<op, made, loading, crypto, files, outputs>>
    BY <1>1 DEF tokenVars, authVars
  <2>4. Becomes(u, op[u]) /\ LoadCall(op[u], made', crypto) /\ OldIDs(made) \subseteq OldIDs(made')
    BY <2>3 DEF Becomes, LoadInv
  <2> QED
    BY <1>1, <2>2, <2>3, <2>4, CallLoads
<1>2. ASSUME NEW p \in Asked(f), Begin(u, "load", [Call(GetKey(p) \o <<"hold">>, p.place) EXCEPT !.id = f.id, !.file = f])
      PROVE  LoadInv'
  <2> DEFINE t == GetKey(p) \o <<"hold">>
             n == [Call(t, p.place) EXCEPT !.id = f.id, !.file = f]
  <2>1. p \in ProviderConfigs
    BY ProvidersThere
  <2>2. FreshCall(n, t, p.place)
    BY FreshCalls, Zenon
  <2>3. Begin(u, "load", n)
    BY <1>2
  <2>4. \/ p.place \in Slots /\ t = <<"private", "type", "public", "export", "hold">>
        \/ p.place \in Stores /\ t \in {<<"describe", "publickey", "hold">>, <<"describe", "hold">>}
    <3>1. /\ p.kind \in {"pkcs11", "kms", "inmem", "testprov"} /\ p.place \in Slots \cup Stores
          /\ p.place \in Slots <=> p.kind = "pkcs11"
      BY <2>1 DEF ProviderConfigs
    <3>2. p.kind = "pkcs11" => GetKey(p) = FindKeyPairOnSession
      BY DEF GetKey, Crypto11GetKey
    <3>3. p.kind # "pkcs11" => GetKey(p) \in {<<"describe", "publickey">>, <<"describe">>}
      BY <3>1 DEF GetKey, KmsGetKey, InmemGetKey, TestprovGetKey
    <3> QED
      BY <3>1, <3>2, <3>3, FindHold, Zenon
  <2> HIDE DEF t, n
  <2>5. LoadCall(n, made, crypto)
    BY <2>2, <2>4, Zenon DEF FreshCall, LoadCall, Holding
  <2> QED
    BY <2>3, <2>5, BeginLoads, Zenon
<1> QED
  BY <1>1, <1>2, Zenon DEF LoadPrivateKey

(* A signer for a csr command.                                             *)
LEMMA CsrSignerLoads ==
    ASSUME CryptoInv, NEW req, NEW cacert, "pub" \in DOMAIN req => "kr" \notin DOMAIN req, NEW f, NEW m,
           NEW n \in NewSignerFromPEM([Idle EXCEPT !.job = Job(req, cacert)], f, <<"signer">>)
    PROVE  LoadCall(n, m, crypto)
<1> DEFINE j == Job(req, cacert)
           o == [Idle EXCEPT !.job = j]
<1>1. CallOf(o, o.todo, j)
  BY IdleJobs DEF CallOf
<1>2. JobOK(j)
  BY DEF JobOK, Job
<1>3. {"private", "type", "public", "export", "describe", "publickey", "signer"} \subseteq FindSteps
  BY DEF FindSteps
<1>4. <<"signer">> \in Seq(FindSteps)
  BY <1>3
<1> HIDE DEF j, o
<1>5. \A t : CallOf(n, t, j) /\ t \in Seq(FindSteps) => LoadCall(n, m, crypto)
  BY <1>2, Zenon DEF CallOf, LoadCall, Signing
<1>6. n \in NewSignerFromPEM(o, f, <<"signer">>)
  BY DEF o, j
<1>7. CASE f.form = "pem"
  <2>1. n = [o EXCEPT !.todo = <<"signer">>, !.place = "memory", !.pub = f.of, !.id = f.of, !.file = f]
    BY <1>6, <1>7 DEF NewSignerFromPEM
  <2>2. CallOf(n, <<"signer">>, j)
    BY <1>1, <2>1, CallAgain, Zenon
  <2> QED
    BY <1>4, <1>5, <2>2, Zenon
<1>8. CASE f.form # "pem"
  <2>1. PICK p \in Asked(f) : n = [o EXCEPT !.todo = GetKey(p) \o <<"signer">>, !.place = p.place, !.id = f.id, !.file = f,
                                            !.typ = AnyType]
    BY <1>6, <1>8 DEF NewSignerFromPEM
  <2>2. CallOf(n, GetKey(p) \o <<"signer">>, j)
    BY <1>1, <2>1, CallAgain, Zenon
  <2>3. GetKey(p) \in {FindKeyPairOnSession, <<"describe", "publickey">>, <<"describe">>}
    BY ProvidersThere, GetKeyCalls
  <2>4. /\ FindKeyPairOnSession \in Seq(FindSteps) /\ <<"describe", "publickey">> \in Seq(FindSteps)
        /\ <<"describe">> \in Seq(FindSteps)
    <3>1. \A x, y, z, w \in FindSteps : /\ <<x>> \in Seq(FindSteps) /\ <<x, y>> \in Seq(FindSteps)
                                        /\ <<x, y, z, w>> \in Seq(FindSteps)
      OBVIOUS
    <3> QED
      BY <1>3, <3>1 DEF FindKeyPairOnSession
  <2>5. GetKey(p) \in Seq(FindSteps)
    BY <2>3, <2>4, Zenon
  <2>6. GetKey(p) \o <<"signer">> \in Seq(FindSteps)
    BY <1>4, <2>5, ConcatProperties
  <2> QED
    BY <1>5, <2>2, <2>6, Zenon
<1> QED
  BY <1>7, <1>8

(* The csr commands.                                                       *)
LEMMA CsrLoads ==
    ASSUME CryptoInv, PairInv, LoadInv, Loaded, scenario \in DOMAIN Scenarios, NEW u \in Users, NEW req \in max.csrs,
           NEW f, NEW cacert,
           CsrGenKey(u, req) \/ CsrNewRoot(u, req) \/ GenCert(u, req, f, cacert)
    PROVE  LoadInv'
<1>1. \A n, c : LoadCall(n, made, crypto) /\ Begin(u, c, n) => LoadInv'
  BY BeginLoads, Zenon
<1>2. <<"write">> \in Seq(SaveSteps) /\ <<"selfsign", "write">> \in Seq(SaveSteps)
  BY SaveFunctions
<1>3. CASE CsrGenKey(u, req)
  <2>1. LoadCall(ForRequest(req, Job(req, <<>>), <<"write">>), made, crypto)
    BY <1>2, RequestLoads, Zenon
  <2> QED
    BY <1>1, <1>3, <2>1, Zenon DEF CsrGenKey
<1>4. CASE CsrNewRoot(u, req)
  <2>1. LoadCall(ForRequest(req, Job(req, <<>>), <<"selfsign", "write">>), made, crypto)
    BY <1>2, RequestLoads, Zenon
  <2> QED
    BY <1>1, <1>4, <2>1, Zenon DEF CsrNewRoot
<1>5. CASE GenCert(u, req, f, cacert)
  <2>1. "pub" \notin DOMAIN req
    BY CsrsAssumption, Zenon DEF max
  <2>2. PICK n \in NewSignerFromPEM([Idle EXCEPT !.job = Job(req, cacert)], f, <<"signer">>) : Begin(u, "gencert", n)
    BY <1>5, Zenon DEF GenCert
  <2>3. LoadCall(n, made, crypto)
    BY <2>1, CsrSignerLoads
  <2> QED
    BY <1>1, <2>2, <2>3, Zenon
<1> QED
  BY <1>3, <1>4, <1>5

(* csr signcert.                                                           *)
LEMMA SignCertLoads ==
    ASSUME CryptoInv, PairInv, LoadInv, Loaded, NEW u \in Users, NEW w \in outputs, NEW f, NEW cacert,
           SignCert(u, w, f, cacert)
    PROVE  LoadInv'
<1>1. PICK n \in NewSignerFromPEM([Idle EXCEPT !.job = Job(w, cacert)], f, <<"signer">>) : Begin(u, "signcert", n)
  BY Zenon DEF SignCert
<1>2. "kr" \notin DOMAIN w
  BY DEF LoadInv
<1>3. LoadCall(n, made, crypto)
  BY <1>2, CsrSignerLoads
<1> QED
  BY <1>1, <1>3, BeginLoads, Zenon

(* Every command.                                                          *)
LEMMA CommandsLoad ==
    ASSUME CryptoInv, PairInv, LoadInv, Loaded, scenario \in DOMAIN Scenarios, NEW u \in Users, Commands(u)
    PROVE  LoadInv'
<1>1. CASE \E kr \in max.keyRequests, label \in max.labels : HsmGenKey(u, kr, label)
  <2>1. Default \in Providers
    BY DefaultThere DEF Providers
  <2> QED
    BY <1>1, <2>1, MakingLoads
<1>2. CASE \E p \in Providers, kr \in max.keyRequests : CreateRequestAndExportKey(u, p, kr)
  BY <1>2, MakingLoads
<1>3. CASE \E p \in Providers, kr \in max.keyRequests, root \in max.roots : NewRoot(u, p, kr, root)
  BY <1>3, MakingLoads
<1>4. CASE \/ \E slot \in max.slots, typ \in max.types, label \in max.labels : GenerateOnSlot(u, slot, typ, label)
           \/ \E id \in Known, public \in BOOLEAN : HsmKeyInfo(u, id, public)
           \/ \E id \in Known : HsmRmKey(u, id)
           \/ \E prefix \in max.labels : HsmKeys(u, prefix)
           \/ \E prefix \in max.labels \ {NoLabel} : HsmRmKeys(u, prefix)
           \/ NewAuthority(u)
  BY <1>4, QuietCommands
<1>5. CASE \E id \in Known : FindOnSlot(u, CurrentSlot, id, NoLabel)
  BY <1>5, FindLoads, SlotsAssumption
<1>6. CASE \E slot \in max.slots, label \in max.labels \ {NoLabel} : FindOnSlot(u, slot, NoID, label)
  <2>1. max.slots \subseteq Slots
    BY SetupAssumption DEF max
  <2> QED
    BY <1>6, <2>1, FindLoads
<1>7. CASE \E f \in files : LoadPrivateKey(u, f)
  BY <1>7, LoadKeyLoads
<1>8. CASE \E req \in max.csrs : CsrGenKey(u, req) \/ CsrNewRoot(u, req)
  BY <1>8, CsrLoads
<1>9. CASE \E f \in files, cacert \in CACerts : \E req \in max.csrs : GenCert(u, req, f, cacert)
  BY <1>9, CsrLoads
<1>10. CASE \E f \in files, cacert \in CACerts : \E w \in outputs : SignCert(u, w, f, cacert)
  BY <1>10, SignCertLoads
<1> QED
  BY <1>1, <1>2, <1>3, <1>4, <1>5, <1>6, <1>7, <1>8, <1>9, <1>10, Zenon DEF Commands, OtherCommands

-----------------------------------------------------------------------------
(* The theorem.                                                            *)

LoadedKeysInv == KeysInv /\ LoadInv

(* Nothing is saved at first.                                              *)
LEMMA InitLoads == Init => LoadedKeysInv
<1> SUFFICES ASSUME Init PROVE LoadInv
  BY InitPair, Zenon DEF LoadedKeysInv
<1>1. op = [u \in Users |-> Idle] /\ files = {} /\ keys = {} /\ outputs = {}
  BY DEF Init, TokenInit, ProviderInit
<1>2. \A u \in Users : LoadCall(op[u], made, crypto)
  BY <1>1, IdleLoads
<1> QED
  BY <1>1, <1>2, InitRegistry DEF LoadInv

(* What others do about providers and certificates.                        *)
LEMMA OthersLoad ==
    ASSUME LoadInv, UNCHANGED <<op, made, files, keys, outputs, crypto, loading>>
    PROVE  LoadInv'
  BY Zenon DEF LoadInv, Loaded, NoCrypto

(* Load is over when there are calls and files.                            *)
LEMMA LoadsFirst ==
    ASSUME CryptoInv, CallsInv, LoadInv, Load, outputs' = outputs
    PROVE  LoadInv'
<1>1. loading # <<>> /\ UNCHANGED <<op, made, files, keys>>
  BY DEF Load, tokenVars
<1>2. ~Loaded
  BY <1>1 DEF Loaded
<1>3. files = {} /\ \A u \in Users : op[u].todo = <<>>
  BY <1>2 DEF LoadInv, CallsInv
<1>4. Registry(crypto', loading')
  BY LoadRegistry DEF LoadInv
<1>5. <<>> \in Seq(QuietSteps)
  BY EmptySeq
<1>6. \A u \in Users : LoadCall(op'[u], made', crypto')
  BY <1>1, <1>3, <1>5 DEF LoadCall
<1>7. (\A f \in files' : Loaded' /\ FileNamed(f, made', crypto')) /\ \A k \in keys' : KeyOK(k)
  BY <1>1, <1>3 DEF LoadInv
<1> QED
  BY <1>4, <1>6, <1>7 DEF LoadInv

(* Every step.                                                             *)
LEMMA NextLoads == LoadedKeysInv /\ [Next]_vars => LoadedKeysInv'
<1> SUFFICES ASSUME LoadedKeysInv, [Next]_vars PROVE LoadInv'
  BY NextPair, Zenon DEF LoadedKeysInv
<1>0. PairInv /\ CryptoInv /\ CallsInv /\ LoadInv /\ scenario \in DOMAIN Scenarios
  BY DEF LoadedKeysInv, KeysInv, IInv
<1>1. PairInv'
  BY NextPair DEF LoadedKeysInv, KeysInv
<1>2. CASE \E u \in Users : (Free(u) /\ Commands(u)) \/ (op[u].todo # <<>> /\ Steps(u))
  <2>1. PICK u \in Users : (Free(u) /\ Commands(u)) \/ (op[u].todo # <<>> /\ Steps(u))
    BY <1>2
  <2>2. CASE Free(u) /\ Commands(u)
    <3>1. Loaded
      BY <2>2 DEF Free
    <3> QED
      BY <1>0, <2>2, <3>1, CommandsLoad
  <2>3. CASE op[u].todo # <<>> /\ Steps(u)
    BY <1>0, <1>1, <2>3, StepsLoad
  <2> QED
    BY <2>1, <2>2, <2>3
<1>3. CASE Load /\ UNCHANGED <<authVars, calls>>
  <2>1. outputs' = outputs
    BY <1>3 DEF authVars
  <2> QED
    BY <1>0, <1>3, <2>1, LoadsFirst
<1>4. CASE \/ \E i \in 1..Len(loading) : (Register(loading[i].man) \/ Unregister(loading[i].man)) /\ UNCHANGED <<authVars, calls>>
           \/ \E c : LoadConfiguration(c)
           \/ \E kr, root : RefuseRoot(kr, root)
           \/ \E req : SignRequest(req)
           \/ UNCHANGED vars
  <2>1. UNCHANGED <<op, made, files, keys, outputs, crypto, loading>>
    BY <1>4 DEF Register, Unregister, LoadConfiguration, RefuseRoot, SignRequest, vars, tokenVars, providerVars, authVars
  <2> QED
    BY <1>0, <2>1, OthersLoad
<1> QED
  BY <1>2, <1>3, <1>4, Zenon DEF Next

(* Whatever providers are loaded, however many users, slots and keys there *)
(* are and however their calls interleave: LoadPrivateKey asks for a saved *)
(* key the very provider whose ExportKey wrote the file, as long as the    *)
(* URI can name it; and a key that was loaded, or found by its id, is the  *)
(* one asked for and signs as no other one.                                *)
THEOREM SavedKeysLoad == Spec => []ExportedKeyLoads
<1>1. LoadedKeysInv => ExportedKeyLoads
  <2> SUFFICES ASSUME LoadedKeysInv PROVE ExportedKeyLoads
    OBVIOUS
  <2>0. PairInv /\ CryptoInv /\ LoadInv
    BY DEF LoadedKeysInv, KeysInv, IInv
  <2>1. ASSUME Loaded, NEW f \in files, NEW p \in crypto.default \cup crypto.by, f.form = "uri", f.of[1] = p.place, Nameable(p)
        PROVE  Asked(f) = {p}
    BY <2>0, <2>1, URIAsks
  <2>2. ASSUME NEW k \in keys, k.id # NoID PROVE k.pub = k.id
    BY <2>0, <2>2 DEF LoadInv, KeyOK
  <2>3. ASSUME NEW k \in keys, k.id # NoID, k.place \in Slots => k.place = CurrentSlot
        PROVE  SignWith(k) \subseteq {k.pub}
    BY <2>0, <2>3, SignsItself DEF LoadInv
  <2> QED
    BY <2>1, <2>2, <2>3, Zenon DEF ExportedKeyLoads
<1> QED
  BY <1>1, InitLoads, NextLoads, PTL DEF Spec
=============================================================================
