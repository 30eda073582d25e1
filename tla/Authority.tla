------------------------------ MODULE Authority ------------------------------
(***************************************************************************)
(* The certificate authority (xpki/authority) and the certificate requests *)
(* it signs (xpki/csr): the configuration and its validation, and the      *)
(* signing of a request under a profile.  The operators here are functions *)
(* of their arguments; module Pki runs them over the keys.                 *)
(*                                                                         *)
(* A name is "good" when the allow list of its kind matches it and "bad"   *)
(* when it does not; "" is no name.  A URI that does not parse is Nil, the *)
(* nil URL of the code.                                                    *)
(***************************************************************************)
EXTENDS Naturals, Sequences, FiniteSets, TLC

Nil == "nil"
PolicyOID == "2.5.29.32"
NoCheckOID == "1.3.6.1.5.5.7.48.1.5"
BasicConstraintsOID == "2.5.29.19"
SanOID == "2.5.29.17"

-----------------------------------------------------------------------------
(* The configuration: [aia, issuers, profiles].                            *)

DefaultCertProfile ==
    [label |-> "", expiry |-> TRUE, usages |-> "known", lists |-> {}, fields |-> {Nil}, isCA |-> FALSE, path |-> "0", exts |-> {},
     policies |-> "none", noCheck |-> FALSE]

(* Usages: "known", "none", or some of them "unknown".  Validate of a      *)
(* profile lets a policy qualifier without a type through.                 *)
Usages(p) == p.usages
ProfileValid(p) == p.expiry /\ Usages(p) = "known" /\ p.policies # "unknown"

Labels(c) == {c.issuers[i].label : i \in 1..Len(c.issuers)}
Dangling(c) == {n \in DOMAIN c.profiles : c.profiles[n].label \notin Labels(c) \cup {""}}

(* Validate of the configuration visits the profiles in the order of a map *)
(* iteration, which is any.  It stops at an invalid profile with an error, *)
(* and at one whose issuer is unknown with WithMessagef of a nil error,    *)
(* that is with success: the profiles it has not reached are not compiled. *)
Validate(c) ==
    LET names == DOMAIN c.profiles
        invalid == {n \in names : ~ProfileValid(c.profiles[n])}
        stops == invalid \cup Dangling(c)
    IN IF stops = {} THEN {[ok |-> TRUE, compiled |-> names]}
       ELSE {[ok |-> n \notin invalid, compiled |-> before \cup ({n} \ invalid)] :
                n \in stops, before \in SUBSET (names \ stops)}

(* The profiles LoadConfig gives to an issuer, if there is a default AIA.  *)
IssuerProfiles_AnyUnlabelled(c, iss) ==
    {n \in DOMAIN c.profiles : c.aia /\ c.profiles[n].label \in {"", iss.label}}

IssuerProfiles(c, iss) ==
    {n \in DOMAIN c.profiles :
        /\ c.aia
        /\ \/ c.profiles[n].label = iss.label
           \/ c.profiles[n].label = "" /\ Len(c.issuers) = 1}

(* LoadConfig: there are profiles, and the default one is added; the       *)
(* configurations it may return, with the profiles that are compiled.      *)
LoadConfig(c) ==
    LET d == [c EXCEPT !.profiles = @ @@ ("default" :> DefaultCertProfile)]
    IN {[loaded |-> TRUE, config |-> d, compiled |-> v.compiled] :
           v \in {w \in Validate(d) : w.ok /\ DOMAIN c.profiles # {}}}

(* NewAuthority uses the default AIA of an issuer that lacks one or lacks  *)
(* one of its URLs; without a default it panics.                           *)
AIAPanics(c, iss) == ~c.aia /\ iss.aia # "full"
GetDisabled(iss) == iss.disabled

-----------------------------------------------------------------------------
(* Certificate requests.                                                   *)

(* The kind of a SAN by its form, tried in this order.                     *)
SanKind(form) ==
    CASE form = "://" -> "uri"
      [] form = "address" -> "ip"
      [] form = "@" -> "email"
      [] OTHER -> "dns"

Names(sans) == {<<SanKind(s[1]), s[2]>> : s \in sans}

(* A template: the common name, the alternative names by kind, and whether *)
(* it asks for a CA, with which path length ("none" is no limit).  `basic` *)
(* holds the BasicConstraints extension of the request, if it has one; one *)
(* that does not decode, or leaves bytes over, is an error, and so is a    *)
(* request not signed with its own key.                                    *)
Parse(csr) ==
    IF csr.signed /\ \A b \in csr.basic : b.decodes
    THEN {[cn |-> csr.cn, names |-> Names(csr.sans),
           isCA |-> \E b \in csr.basic : b.ca,
           path |-> IF csr.basic = {} THEN "none" ELSE (CHOOSE b \in csr.basic : TRUE).path]}
    ELSE {}

ParsePEM(csr) == IF csr.block = "request" THEN Parse(csr) ELSE {}

(* Only the fields the profile allows are copied from the request, and all *)
(* of them, BasicConstraints too, if it lists none.                        *)
FieldOf == [cn |-> "subject", dns |-> "dns", email |-> "email", uri |-> "uri", ip |-> "ip"]
Allows(p, kind) == p.fields = {Nil} \/ FieldOf[kind] \in p.fields
SafeTemplate(p, t) ==
    [cn |-> IF Allows(p, "cn") THEN t.cn ELSE "",
     names |-> {s \in t.names : Allows(p, s[1])},
     isCA |-> p.fields = {Nil} /\ t.isCA,
     path |-> IF p.fields = {Nil} THEN t.path ELSE "none"]

(* SetSAN replaces the names of every kind when SANs are given.            *)
SetSAN(t, san) ==
    IF san.given THEN [t EXCEPT !.names = Names(san.sans)] ELSE t

PopulateName(t, subject) ==
    IF subject \in {Nil, ""} THEN t ELSE [t EXCEPT !.cn = subject]

(* The compiled allow lists.  A nil URL panics when it is looked up.       *)
NamesAllowed(p, compiled, t) ==
    compiled =>
       /\ "cn" \in p.lists => t.cn # "bad"
       /\ \A s \in t.names : s[1] \in p.lists => s[2] \notin {"bad", Nil}

IsAllowedExtention(p, oid) == oid \in p.exts
ExtensionsAllowed(p, exts) == \A e \in exts : IsAllowedExtention(p, e.oid) /\ e.hex

(* addPolicies refuses the qualifier type "" that Validate lets through.   *)
addPolicies(p) == p.policies \notin {"untyped", "unknown"}
Fillable(p, req) == (p.expiry \/ req.notAfter) /\ Usages(p) # "none" /\ addPolicies(p)

(* fillTemplate: what the profile adds.  It decides on the CA, whatever    *)
(* the request asked for; names of a CA are dropped.                       *)
fillTemplate_AsksCA(p, t, exts) ==
    [cn |-> t.cn,
     names |-> IF p.isCA \/ t.isCA THEN {} ELSE t.names,
     isCA |-> p.isCA \/ t.isCA,
     path |-> IF p.isCA THEN p.path ELSE t.path,
     exts |-> exts,
     own |-> (IF p.policies = "none" THEN {} ELSE {PolicyOID}) \cup (IF p.noCheck THEN {NoCheckOID} ELSE {})]

fillTemplate(p, t, exts) ==
    [cn |-> t.cn,
     names |-> IF p.isCA THEN {} ELSE t.names,
     isCA |-> p.isCA,
     path |-> IF p.isCA THEN p.path ELSE t.path,
     exts |-> exts,
     own |-> (IF p.policies = "none" THEN {} ELSE {PolicyOID}) \cup (IF p.noCheck THEN {NoCheckOID} ELSE {})]

(* x509.CreateCertificate checks the signer against the parent and the     *)
(* signature against the signer's public key.                              *)
CreateCertificate(issuer, signed) == issuer.key.pub = issuer.cert /\ signed = {issuer.cert}

(* What x509.CreateCertificate encodes: an extension of the template under *)
(* the OID of the names or of the constraints takes their place.  Its      *)
(* value is a set of names, or <<"ca" or "leaf", path length>>.            *)
Raw(t, oid) == UNION {e.value : e \in {x \in t.exts : x.oid = oid}}
Replaced(t, oid) == \E e \in t.exts : e.oid = oid
Encoded(t) ==
    [cn |-> t.cn,
     names |-> IF Replaced(t, SanOID) THEN Raw(t, SanOID) ELSE t.names,
     isCA |-> IF Replaced(t, BasicConstraintsOID) THEN \E b \in Raw(t, BasicConstraintsOID) : b[1] = "ca" ELSE t.isCA,
     path |-> IF Replaced(t, BasicConstraintsOID) THEN (CHOOSE b \in Raw(t, BasicConstraintsOID) : TRUE)[2] ELSE t.path,
     exts |-> {e.oid : e \in t.exts} \cup t.own]

(* sign: without a bundle the certificate is signed with its own key, and  *)
(* must be a CA.  A nil URL panics when it is encoded.                     *)
sign(issuer, t, signed) ==
    /\ <<"uri", Nil>> \notin Encoded(t).names
    /\ IF issuer.cert = <<>> THEN t.isCA /\ signed = {issuer.key.pub} ELSE CreateCertificate(issuer, signed)

(* Sign of an issuer: the certificate, or {} for an error or a panic.      *)
(* `signed` is the key the signer's signature is made with, {} if it fails.*)
Sign(issuer, conf, req, signed) ==
    LET name == IF req.profile = "" THEN "default" ELSE req.profile
        p == conf.config.profiles[name]
        t(x) == PopulateName(SetSAN(SafeTemplate(p, x), req.san), req.subject)
        made(x) == fillTemplate(p, t(x), req.exts)
    IN
    IF name \notin issuer.profiles THEN {}
    ELSE {[profile |-> name, issuer |-> issuer.label, pub |-> req.csr.pub, by |-> issuer.key.pub, authority |-> issuer.cert,
           holds |-> Encoded(made(x)), req |-> req] :
             x \in {y \in ParsePEM(req.csr) :
                      /\ NamesAllowed(p, name \in conf.compiled, t(y))
                      /\ ExtensionsAllowed(p, req.exts)
                      /\ Fillable(p, req)
                      /\ sign(issuer, made(y), signed)}}

(* The request of NewRoot, for the key just made.                          *)
RootRequest(root, pub) ==
    [profile |-> root.profile, subject |-> root.cn, exts |-> {}, notAfter |-> FALSE,
     san |-> [given |-> root.sans # {}, sans |-> root.sans],
     csr |-> [cn |-> root.cn, sans |-> root.sans, basic |-> {}, block |-> "request", signed |-> TRUE, pub |-> pub]]
=============================================================================
