--------------------------------- MODULE Pki ---------------------------------
(***************************************************************************)
(* Keys, providers and the certificate authority together: the commands of *)
(* dollypki (cmd/dollypki) and the library calls that make, list, load and *)
(* destroy keys, NewRoot, NewAuthority and the signing of requests, by     *)
(* users that run at the same time.                                        *)
(***************************************************************************)
EXTENDS CryptoProviders, Authority

(* A scenario is [commands, calls, faults, made, certs] and the inputs it  *)
(* uses: [setups, slots, keyRequests, types, labels, csrs, configs, roots, *)
(* requests].  A csr is what genkey and gencert read, and not what they    *)
(* wrote.                                                                  *)
ASSUME CsrsAssumption ==
    \A s \in DOMAIN Scenarios : \A req \in Scenarios[s].csrs : "pub" \notin DOMAIN req

VARIABLES
    conf,    \* what LoadConfig returned: [loaded, config, compiled]
    ca,      \* the Authority: [ready, issuers, byProfile]
    certs,   \* the certificates issued by the authority
    outputs, \* what the csr commands wrote: [pub, cert, key]
    calls    \* how many calls were started

authVars == <<conf, ca, certs, outputs>>
vars == <<tokenVars, providerVars, authVars, calls>>

NoConf == [loaded |-> FALSE]
NoAuthority == [ready |-> FALSE, issuers |-> <<>>, byProfile |-> <<>>]

-----------------------------------------------------------------------------
(* Calls.                                                                  *)

Free(u) == Loaded /\ op[u].todo = <<>> /\ calls < max.calls

(* A call begins; what NewRoot does to the configuration is said there.    *)
Begin(u, command, o) ==
    /\ command \in max.commands
    /\ calls' = calls + 1
    /\ op' = [op EXCEPT ![u] = o]
    /\ UNCHANGED <<objects, made, faults, hit, gone, scenario, providerVars, ca, certs, outputs>>

Default == CHOOSE p \in crypto.default : TRUE
Manager(p) == p.kind \in {"pkcs11", "kms"}

(* The key requests of csrprov and of csr allow different RSA sizes.       *)
Curve(kr) == kr.algo = "ECDSA" /\ kr.size \in {256, 384, 521}
CsrprovValid(kr) == (kr.algo = "RSA" /\ kr.size \in 2048..8192) \/ Curve(kr)
CsrValid(kr) == (kr.algo = "RSA" /\ kr.size \in 2048..4096) \/ Curve(kr)
TypeOf(kr) == IF kr.algo = "RSA" THEN "RSA" ELSE "P-256"

(* hsm genkey: Generate, IdentifyKey, ExportKey and the file.              *)
HsmGenKey(u, kr, label) ==
    LET p == Default IN
    /\ CsrprovValid(kr) /\ made[p.place] < max.made
    /\ Begin(u, "genkey", [Call(GenerateKey(p, TypeOf(kr)) \o ExportKey(p) \o <<"save">>, p.place) EXCEPT
                    !.typ = TypeOf(kr), !.uses = kr.uses, !.label = label])

(* The request is made between the key and its export: csr genkey with     *)
(* ProcessCsrRequest, and CreateRequestAndExportKey of csr.                *)
CreateRequestAndExportKey(u, p, kr) ==
    /\ CsrValid(kr) /\ made[p.place] < max.made
    /\ Begin(u, "request", [Call(GenerateKey(p, TypeOf(kr)) \o <<"request">> \o ExportKey(p) \o <<"save">>, p.place) EXCEPT
                    !.typ = TypeOf(kr), !.uses = kr.uses])

(* GenerateKeyPairOnSlot of the library, on any slot and of any type.      *)
GenerateOnSlot(u, slot, typ, label) ==
    /\ made[slot] < max.made
    /\ Begin(u, "generate", [Call(<<"generate", "export">>, slot) EXCEPT !.typ = typ, !.label = label])

(* FindKeyPairOnSlot by id or by label.                                    *)
FindOnSlot(u, slot, id, label) ==
    Begin(u, "find", [Call(FindKeyPairOnSession \o <<"hold">>, slot) EXCEPT !.id = id, !.label = label])

(* hsm keyinfo, hsm lskey, hsm rmkey --id and hsm rmkey --prefix.          *)
HsmKeyInfo(u, id, public) ==
    /\ Manager(Default)
    /\ Begin(u, "keyinfo", [Call(KeyInfo(Default.place, public), Default.place) EXCEPT !.id = id, !.lenient = TRUE])

HsmKeys(u, prefix) ==
    /\ Manager(Default)
    /\ Begin(u, "lskey", [Call(IF Default.kind = "kms" THEN <<"kmslist">> ELSE <<"list", "enum">>, Default.place) EXCEPT
                    !.label = prefix])

HsmRmKey(u, id) ==
    /\ Manager(Default) /\ id # NoID
    /\ Begin(u, "rmkey", [Call(IF Default.kind = "kms" THEN KmsDestroyKeyPairOnSlot ELSE DestroyKeyPairOnSlot,
                      Default.place) EXCEPT !.id = id, !.lenient = TRUE])

HsmRmKeys(u, prefix) ==
    /\ Manager(Default)
    /\ Begin(u, "rmkeys", [Call(IF Default.kind = "kms" THEN <<"kmslist", "schedule">> ELSE <<"list", "enum">> \o DestroyKeyPairOnSlot,
                      Default.place) EXCEPT !.label = prefix])

(* LoadPrivateKey, by itself or inside LoadTLSKeyPair.                     *)
LoadPrivateKey(u, f) ==
    \/ /\ f.form = "pem" /\ "load" \in max.commands
       /\ calls' = calls + 1
       /\ keys' = keys \cup {ParsePrivateKeyPEM(f)}
       /\ UNCHANGED <<tokenVars, loaders, loading, crypto, files, ca, certs, outputs>>
    \/ \E p \in IF f.form = "uri" THEN Asked(f) ELSE {} :
          Begin(u, "load", [Call(GetKey(p) \o <<"hold">>, p.place) EXCEPT !.id = f.id, !.file = f])

-----------------------------------------------------------------------------
(* Certificates.                                                           *)

LoadConfiguration(c) ==
    /\ ~conf.loaded
    /\ conf' \in LoadConfig(c)
    /\ UNCHANGED <<tokenVars, providerVars, ca, certs, outputs, calls>>

(* CreateCertificateRequest signs with the new key.                        *)
MakeRequest(u) ==
    /\ At(u, "request")
    /\ \/ SignWith(Held(op[u])) = {op[u].pub} /\ NoFault /\ Continue(u, op[u])
       \/ SignWith(Held(op[u])) # {op[u].pub} /\ NoFault /\ Fail(u)
       \/ KeyFault(u) /\ Fail(u)
    /\ UNCHANGED <<objects, made, gone, scenario, providerVars, authVars, calls>>

(* NewRoot of the authority: validate the request and, once more, the      *)
(* configuration, make the key and the request, export the key, and sign   *)
(* with all profiles of the configuration.  The SANs of a root parse.      *)
ValidateRequest(root) == root.cn # "" \/ "" \notin root.names

(* Validate may compile profiles that LoadConfig did not come to, and find *)
(* one of them invalid.                                                    *)
ValidateAgain(ok) ==
    \E v \in Validate(conf.config) :
       /\ v.ok = ok
       /\ conf' = [loaded |-> TRUE, config |-> conf.config, compiled |-> conf.compiled \cup v.compiled]

NewRoot(u, p, kr, root) ==
    /\ conf.loaded /\ ValidateRequest(root) /\ ValidateAgain(TRUE)
    /\ CsrValid(kr) /\ made[p.place] < max.made
    /\ Cardinality(certs) < max.certs
    /\ Begin(u, "root", [Call(GenerateKey(p, TypeOf(kr)) \o <<"request">> \o ExportKey(p) \o <<"root">>, p.place) EXCEPT
                    !.typ = TypeOf(kr), !.uses = kr.uses, !.job = <<root>>])

(* NewRoot returns an error before it makes a key.                         *)
RefuseRoot(kr, root) ==
    /\ conf.loaded /\ ValidateRequest(root)
    /\ ValidateAgain(FALSE) \/ (ValidateAgain(TRUE) /\ ~CsrValid(kr))
    /\ "root" \in max.commands /\ calls < max.calls
    /\ calls' = calls + 1
    /\ UNCHANGED <<tokenVars, providerVars, ca, certs, outputs>>

RootIssuer(o) ==
    [label |-> "", profiles |-> DOMAIN conf.config.profiles, key |-> Held(o), cert |-> <<>>]

SignRoot(u) ==
    LET o == op[u]
        root == Sign(RootIssuer(o), conf, RootRequest(o.job[1], o.pub), SignWith(Held(o)))
    IN
    /\ At(u, "root")
    /\ \/ /\ NoFault /\ root # {}
          /\ certs' = certs \cup root
          /\ files' = files \cup {Exported(ProviderAt(o.place), o.id)}
          /\ Continue(u, o)
       \/ ((root = {} /\ NoFault) \/ KeyFault(u)) /\ Fail(u) /\ UNCHANGED <<certs, files>>
    /\ UNCHANGED <<objects, made, gone, scenario, loaders, loading, crypto, keys, conf, ca, outputs, calls>>

-----------------------------------------------------------------------------
(* The csr commands of dollypki, which use csrprov and the signer of cfssl.*)
(* job[1] is [csr, ca, key, cert]: the profile of the request (or Nil), the*)
(* CA certificate, the CA key and the certificate made, if any.            *)

(* The call o after LoadPrivateKey of f, a key that can sign.              *)
NewSignerFromPEM(o, f, rest) ==
    IF f.form = "pem"
    THEN {[o EXCEPT !.todo = rest, !.place = "memory", !.pub = f.of, !.id = f.of, !.file = f]}
    ELSE {[o EXCEPT !.todo = GetKey(p) \o rest, !.place = p.place, !.id = f.id, !.file = f,
                    !.typ = AnyType] : p \in Asked(f)}

Job(req, cacert) == <<[csr |-> req, ca |-> cacert, key |-> <<>>, cert |-> {}]>>

ValidateCSR(req) == req.cn # "" \/ (req.names # {} /\ "" \notin req.names)
MakeCAPolicy(req) == req.ca # "malformed"

ParseCsrRequest(p, kr) == GenerateKey(p, TypeOf(kr)) \o <<"request">>
ProcessCsrRequest(p, kr) == ParseCsrRequest(p, kr) \o ExportKey(p)
Requestable(req) == ValidateCSR(req) /\ CsrprovValid(req.kr)

(* The call that makes the key of a request and goes on with the rest.     *)
ForRequest(req, job, rest) ==
    [Call(ProcessCsrRequest(Default, req.kr) \o rest, Default.place) EXCEPT !.typ = TypeOf(req.kr), !.job = job]

(* csr genkey, without and with --initca.                                  *)
CsrGenKey(u, req) ==
    /\ req.ca = "none" /\ Requestable(req) /\ made[Default.place] < max.made
    /\ Begin(u, "csr genkey", ForRequest(req, Job(req, <<>>), <<"write">>))

CsrNewRoot(u, req) ==
    /\ MakeCAPolicy(req) /\ Requestable(req) /\ made[Default.place] < max.made
    /\ Begin(u, "csr genkey", ForRequest(req, Job(req, <<>>), <<"selfsign", "write">>))

(* csr gencert makes the signer first, then the key and the request.       *)
GenCert(u, req, f, cacert) ==
    /\ req.ca = "none"
    /\ \E o \in NewSignerFromPEM([Idle EXCEPT !.job = Job(req, cacert)], f, <<"signer">>) : Begin(u, "gencert", o)

(* csr signcert, for the request of an earlier command.                    *)
SignCert(u, w, f, cacert) ==
    \E o \in NewSignerFromPEM([Idle EXCEPT !.job = Job(w, cacert)], f, <<"signer">>) : Begin(u, "signcert", o)

NewLocalCASigner(u) ==
    LET o == op[u]
        job == [o.job EXCEPT ![1].key = Held(o)]
        req == o.job[1].csr
    IN
    /\ At(u, "signer")
    /\ \/ /\ "kr" \in DOMAIN req /\ Requestable(req) /\ made[Default.place] < max.made
          /\ op' = [op EXCEPT ![u] = ForRequest(req, job, <<"sign", "write">>)]
       \/ "kr" \in DOMAIN req /\ ~Requestable(req) /\ Fail(u)
       \/ "pub" \in DOMAIN req /\ op' = [op EXCEPT ![u] = [Idle EXCEPT !.todo = <<"sign", "write">>, !.job = job, !.pub = req.pub]]
    /\ UNCHANGED <<objects, made, faults, hit, gone, scenario, providerVars, authVars, calls>>

(* The signer of cfssl, whose policy may refuse: gencert and signcert go   *)
(* on without a certificate then.                                          *)
LocalSign(u) ==
    LET o == op[u]
        j == o.job[1]
    IN
    /\ At(u, "sign")
    /\ \/ /\ CreateCertificate([key |-> j.key, cert |-> j.ca], SignWith(j.key))
          /\ Continue(u, [o EXCEPT !.job[1].cert = {[pub |-> o.pub, by |-> j.key.pub, ca |-> j.ca, isCA |-> FALSE]}])
       \/ Continue(u, o)
    /\ UNCHANGED <<objects, made, faults, hit, gone, scenario, providerVars, authVars, calls>>

(* NewRoot of csrprov reports the error.                                   *)
SelfSign(u) ==
    LET o == op[u] IN
    /\ At(u, "selfsign")
    /\ \/ /\ SignWith(Held(o)) = {o.pub} /\ NoFault
          /\ Continue(u, [o EXCEPT !.job[1].cert = {[pub |-> o.pub, by |-> o.pub, ca |-> o.pub, isCA |-> TRUE]}])
       \/ SignWith(Held(o)) # {o.pub} /\ NoFault /\ Fail(u)
       \/ KeyFault(u) /\ Fail(u)
    /\ UNCHANGED <<objects, made, gone, scenario, providerVars, authVars, calls>>

(* The files: the certificate or nothing, the request and the key.         *)
WriteFiles(u) ==
    LET o == op[u]
        key == IF "kr" \in DOMAIN o.job[1].csr THEN Exported(ProviderAt(o.place), o.id) ELSE NoFile
    IN
    /\ At(u, "write")
    /\ outputs' = outputs \cup {[pub |-> o.pub, cert |-> o.job[1].cert, key |-> key]}
    /\ files' = files \cup ({key} \ {NoFile})
    /\ Continue(u, o)
    /\ UNCHANGED <<objects, made, faults, hit, gone, scenario, loaders, loading, crypto, keys, conf, ca, certs, calls>>

-----------------------------------------------------------------------------
(* The authority.                                                          *)

(* NewAuthority makes the issuers one after the other; op[u].job holds the *)
(* configurations left and the Authority so far.                           *)
NewAuthority(u) ==
    /\ conf.loaded /\ ~ca.ready
    /\ Begin(u, "authority", [Call(<<"next">>, CurrentSlot) EXCEPT !.job = <<conf.config.issuers, NoAuthority>>])

(* The key file of the next issuer that is not disabled is loaded; it may  *)
(* be any of the saved keys.                                               *)
LoadIssuerKey(o, f) == NewSignerFromPEM(o, f, <<"issuer", "next">>)

NextIssuer(u) ==
    LET o == op[u]
        rest == o.job[1]
        iss == Head(rest)
    IN
    /\ At(u, "next")
    /\ \/ rest = <<>> /\ ca' = [o.job[2] EXCEPT !.ready = TRUE] /\ Continue(u, o)
       \/ /\ rest # <<>> /\ GetDisabled(iss)
          /\ op' = [op EXCEPT ![u].job[1] = Tail(@)]
          /\ UNCHANGED ca
       \/ /\ rest # <<>> /\ ~GetDisabled(iss)
          /\ \/ ~AIAPanics(conf.config, iss) /\ \E f \in files : \E call \in LoadIssuerKey(o, f) : op' = [op EXCEPT ![u] = call]
             \/ Fail(u)  \* no key file, no provider for its key, or a panic
          /\ UNCHANGED ca
    /\ UNCHANGED <<objects, made, faults, hit, gone, scenario, providerVars, conf, certs, outputs, calls>>

(* CreateIssuer: a bundle that is not trusted gives a nil issuer and no    *)
(* error.                                                                  *)
CreateIssuer(iss, key, cert) ==
    [label |-> iss.label, nil |-> ~iss.trusted, profiles |-> IssuerProfiles(conf.config, iss),
     key |-> key, cert |-> cert]

(* The issuer is entered under its label and under its profiles.           *)
EnterAt(m, names, issuer) == [n \in DOMAIN m \cup names |-> IF n \in names THEN issuer ELSE m[n]]
Entered(a, iss, issuer) ==
    [ready |-> FALSE,
     issuers |-> EnterAt(a.issuers, {iss.label}, issuer),
     byProfile |-> EnterAt(a.byProfile, IssuerProfiles(conf.config, iss), issuer)]

NewIssuer(u) ==
    LET o == op[u]
        iss == Head(o.job[1])
    IN
    /\ At(u, "issuer")
    /\ \/ \E c \in {x \in certs : x.holds.isCA} :
             Continue(u, [o EXCEPT !.job = <<Tail(@[1]), Entered(@[2], iss, CreateIssuer(iss, Held(o), c.pub))>>])
       \/ Fail(u)  \* a file cannot be read
    /\ UNCHANGED <<objects, made, faults, hit, gone, scenario, providerVars, authVars, calls>>

GetIssuerByProfile(n) == {ca.byProfile[m] : m \in {n} \cap DOMAIN ca.byProfile}
GetIssuerByLabel(l) == {ca.issuers[m] : m \in {l} \cap DOMAIN ca.issuers}

(* A request is signed by the issuer of its profile, or by one asked for   *)
(* by its label; a nil issuer panics.                                      *)
SignRequest(req) ==
    /\ ca.ready
    /\ Cardinality(certs) < max.certs
    /\ \E issuer \in GetIssuerByProfile(req.profile) \cup UNION {GetIssuerByLabel(l) : l \in DOMAIN ca.issuers} :
          /\ ~issuer.nil
          /\ \E c \in Sign(issuer, conf, req, SignWith(issuer.key)) :
                c \notin certs /\ certs' = certs \cup {c}
    /\ UNCHANGED <<tokenVars, providerVars, conf, ca, outputs, calls>>

-----------------------------------------------------------------------------

Init ==
    /\ TokenInit
    /\ scenario \in DOMAIN Scenarios
    /\ \E setup \in max.setups : ProviderInit(setup)
    /\ conf = NoConf /\ ca = NoAuthority
    /\ certs = {} /\ outputs = {} /\ calls = 0

(* The ids users may know.                                                 *)
Known == {x.id : x \in objects} \cup {f.of : f \in files} \cup {g[2] : g \in gone}
Providers == crypto.default \cup crypto.by
CACerts == {c.pub : c \in {x \in UNION {w.cert : w \in outputs} : x.isCA}}

(* The commands and calls that leave the configuration alone.              *)
OtherCommands(u) ==
    \/ \E kr \in max.keyRequests, label \in max.labels : HsmGenKey(u, kr, label)
    \/ \E p \in Providers, kr \in max.keyRequests : CreateRequestAndExportKey(u, p, kr)
    \/ \E slot \in max.slots, typ \in max.types, label \in max.labels : GenerateOnSlot(u, slot, typ, label)
    \/ \E id \in Known : FindOnSlot(u, CurrentSlot, id, NoLabel)
    \/ \E slot \in max.slots, label \in max.labels \ {NoLabel} : FindOnSlot(u, slot, NoID, label)
    \/ \E f \in files : LoadPrivateKey(u, f)
    \/ \E id \in Known, public \in BOOLEAN : HsmKeyInfo(u, id, public)
    \/ \E id \in Known : HsmRmKey(u, id)
    \/ \E prefix \in max.labels : HsmKeys(u, prefix)
    \/ \E prefix \in max.labels \ {NoLabel} : HsmRmKeys(u, prefix)
    \/ NewAuthority(u)
    \/ \E req \in max.csrs : CsrGenKey(u, req) \/ CsrNewRoot(u, req)
    \/ \E f \in files, cacert \in CACerts :
          \/ \E req \in max.csrs : GenCert(u, req, f, cacert)
          \/ \E w \in outputs : SignCert(u, w, f, cacert)

Commands(u) ==
    \/ OtherCommands(u) /\ UNCHANGED conf
    \/ \E p \in Providers, kr \in max.keyRequests, root \in max.roots : NewRoot(u, p, kr, root)

Steps(u) ==
    \/ ProviderStep(u) /\ UNCHANGED <<authVars, calls>>
    \/ MakeRequest(u) \/ SignRoot(u)
    \/ NextIssuer(u) \/ NewIssuer(u)
    \/ NewLocalCASigner(u) \/ LocalSign(u) \/ SelfSign(u) \/ WriteFiles(u)

Next ==
    \/ Load /\ UNCHANGED <<authVars, calls>>
    \/ \E i \in 1..Len(loading) :
          (Register(loading[i].man) \/ Unregister(loading[i].man)) /\ UNCHANGED <<authVars, calls>>
    \/ \E c \in max.configs : LoadConfiguration(c)
    \/ \E u \in Users :
          \/ Free(u) /\ Commands(u)
          \/ op[u].todo # <<>> /\ Steps(u)
    \/ Loaded /\ \E kr \in max.keyRequests, root \in max.roots : RefuseRoot(kr, root)
    \/ \E req \in max.requests : SignRequest(req)

Spec == Init /\ [][Next]_vars

-----------------------------------------------------------------------------
(* What certificates promise.                                              *)

Profile(c) == conf.config.profiles[c.profile]

(* The certificate c, under the configuration k.                           *)
WithinProfile(c, k) ==
    LET p == k.config.profiles[c.profile]
        r == c.req
        h == c.holds
        known == Dangling(k.config) = {}
    IN
    /\ known /\ "cn" \in p.lists => h.cn # "bad"
    /\ h.cn \in {"", r.subject} \cup (IF Allows(p, "cn") THEN {r.csr.cn} ELSE {})
    /\ h.exts \subseteq p.exts \cup {PolicyOID, NoCheckOID}
    /\ BasicConstraintsOID \notin p.exts => h.isCA = p.isCA /\ (h.isCA => h.path = p.path)
    /\ SanOID \notin p.exts =>
          /\ p.isCA => h.names = {}
          /\ \A s \in h.names :
                /\ known /\ s[1] \in p.lists => s[2] # "bad"
                /\ IF r.san.given THEN s \in Names(r.san.sans) ELSE s \in Names(r.csr.sans) /\ Allows(p, s[1])

(* A certificate holds only what its profile allows, although the request, *)
(* the API and the profile are merged in several steps (issuer.go:232):    *)
(* the names obey the allow lists, they come from the API or from a field  *)
(* of the request the profile copies, the extensions are allowed ones or   *)
(* the profile's own, and it is a CA, with the path length of the profile  *)
(* and without names, exactly when the profile says so, also if the        *)
(* request asks for a CA.  The allow lists count when every issuer label   *)
(* of the configuration is known (README, on Validate).  A profile that    *)
(* allows the raw extension of the names, or of the constraints, leaves    *)
(* those to the caller of the API, so nothing is said of them then.        *)
IssuedWithinProfile == \A c \in certs : WithinProfile(c, conf)

(* Each certificate of the authority verifies under the CA certificate of  *)
(* its issuer, an issuer that is configured, enabled and trusted and that  *)
(* the profile names or is the only one there (authority.go:21,            *)
(* config.go:311); a root verifies under its own key.  The key may have    *)
(* been destroyed and others generated since the issuer was made.  And a   *)
(* certificate csr gencert or signcert wrote verifies under the CA it was  *)
(* given, is for the request, and the key written beside it is its own     *)
(* (gencert.go:118-139).                                                   *)
IssuerForProfile ==
    /\ \A w \in outputs : \A c \in w.cert :
          c.by = c.ca /\ c.pub = w.pub /\ (w.key # NoFile => w.key.of = c.pub)
    /\ \A c \in certs :
          \/ c.issuer = "" /\ c.by = c.pub /\ c.holds.isCA
          \/ \E i \in 1..Len(conf.config.issuers) :
                LET iss == conf.config.issuers[i] IN
                /\ iss.label = c.issuer /\ iss.trusted /\ ~GetDisabled(iss)
                /\ \/ Profile(c).label = iss.label
                   \/ Profile(c).label = "" /\ Len(conf.config.issuers) = 1
                /\ c.authority = c.by
                /\ \E root \in certs : root.holds.isCA /\ root.pub = c.by
=============================================================================
