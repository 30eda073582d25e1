-------------------------------- MODULE MCPki --------------------------------
(* The instance of Pki for TLC: scenarios of key handling and of issuing.  *)
EXTENDS Pki

Symmetry == Permutations(Users)

SoftHSM == [place |-> "slot1", kind |-> "pkcs11", man |-> "SoftHSM", module |-> "SoftHSM", serial |-> "1"]
KMS == [place |-> "kms", kind |-> "kms", man |-> "AWSKMS", module |-> "", serial |-> ""]
KMS2 == [KMS EXCEPT !.place = "kms2"]
Inmem == [place |-> "inmem", kind |-> "inmem", man |-> "inmem", module |-> "", serial |-> ""]
Testprov == [place |-> "testprov", kind |-> "testprov", man |-> "testprov", module |-> "", serial |-> ""]

L == <<"l">>
RSA == [algo |-> "RSA", size |-> 2048, uses |-> "sign"]
EncryptRSA == [RSA EXCEPT !.uses = "decrypt"]
Weak == [RSA EXCEPT !.size = 1024]
P256 == [algo |-> "ECDSA", size |-> 256, uses |-> "sign"]

Nothing ==
    [commands |-> {}, calls |-> 0, faults |-> 0, made |-> 0, certs |-> 0, setups |-> {<<SoftHSM>>}, slots |-> {"slot1"},
     keyRequests |-> {}, types |-> {}, labels |-> {NoLabel}, csrs |-> {}, configs |-> {}, roots |-> {}, requests |-> {}]

\* The profiles, issuers and requests of the authority.
P == DefaultCertProfile
RootProfile == [P EXCEPT !.isCA = TRUE, !.policies = "cps"]
Server == [P EXCEPT !.label = "A", !.lists = {"cn", "dns", "email"}, !.fields = {"subject", "dns"}, !.exts = {"1.2"},
                    !.noCheck = TRUE]
Client == [P EXCEPT !.label = "B", !.lists = {"uri"}]
RawExts == [P EXCEPT !.label = "A", !.lists = {"dns"}, !.exts = {BasicConstraintsOID, SanOID}]
Issuer(l) == [label |-> l, disabled |-> FALSE, aia |-> "full", trusted |-> TRUE]
Conf1 == [aia |-> TRUE, issuers |-> <<Issuer("A"), [Issuer("B") EXCEPT !.disabled = TRUE]>>,
          profiles |-> ("root" :> RootProfile) @@ ("server" :> Server) @@ ("client" :> Client)
                       @@ ("raw" :> RawExts)]
Conf2 == [Conf1 EXCEPT !.issuers = <<[Issuer("A") EXCEPT !.aia = "none"], Issuer("B")>>]
Conf3 == [Conf1 EXCEPT !.issuers = <<[Issuer("A") EXCEPT !.trusted = FALSE, !.aia = "partial"], Issuer("B")>>, !.aia = FALSE]
Conf4 == [Conf1 EXCEPT !.issuers = <<Issuer("A")>>, !.profiles = [@ EXCEPT !["root"].expiry = FALSE]]
Conf5 == [Conf2 EXCEPT !.issuers[2].trusted = FALSE]
Conf7 == [Conf1 EXCEPT !.profiles = <<>>]
Conf6 == [Conf1 EXCEPT !.profiles = [@ EXCEPT !["client"].label = "C"]]

San(s) == [given |-> TRUE, sans |-> s]
NoSan == [given |-> FALSE, sans |-> {}]
Csr == [cn |-> "good", sans |-> {<<"", "good">>, <<"@", "bad">>, <<"://", "good">>}, basic |-> {}, block |-> "request",
        signed |-> TRUE, pub |-> <<"client", 1>>]
AskCA == [ca |-> TRUE, path |-> "1", decodes |-> TRUE]
Ext(o, v) == [oid |-> o, hex |-> TRUE, value |-> v]
Req == [profile |-> "server", subject |-> Nil, san |-> NoSan, exts |-> {}, notAfter |-> FALSE, csr |-> Csr]
MCRequests == {
    Req,
    [Req EXCEPT !.subject = "bad"],
    [Req EXCEPT !.san = San({<<"", "bad">>})],
    [Req EXCEPT !.csr.cn = "bad", !.subject = "good", !.exts = {Ext("1.2", {})}],
    [Req EXCEPT !.exts = {Ext("1.3", {})}],
    [Req EXCEPT !.profile = "client", !.san = San({<<"address", "good">>, <<"://", "good">>})],
    [Req EXCEPT !.profile = "client", !.csr.sans = {<<"://", "bad">>}],
    [Req EXCEPT !.profile = "default", !.csr.signed = FALSE],
    [Req EXCEPT !.profile = "client", !.csr.basic = {AskCA}],
    [Req EXCEPT !.csr.basic = {AskCA}],
    [Req EXCEPT !.csr.basic = {[AskCA EXCEPT !.decodes = FALSE]}],
    [Req EXCEPT !.profile = "client", !.san = San({<<"://", Nil>>})],
    [Req EXCEPT !.profile = "raw", !.san = San({<<"://", Nil>>})],
    [Req EXCEPT !.profile = "raw", !.exts = {Ext(BasicConstraintsOID, {<<"ca", "none">>})}],
    [Req EXCEPT !.profile = "raw", !.csr.block = "other"],
    [Req EXCEPT !.profile = "raw", !.exts = {Ext(SanOID, {<<"dns", "bad">>})}],
    [Req EXCEPT !.profile = "default"]}

Root == [profile |-> "root", cn |-> "good", names |-> {}, sans |-> {<<"", "good">>}]

ServerCsr == [cn |-> "good", names |-> {}, ca |-> "none", kr |-> P256]
RootCsr == [ServerCsr EXCEPT !.ca = "ca", !.kr = RSA]
BadCsrs == {[ServerCsr EXCEPT !.cn = "", !.names = {""}], [ServerCsr EXCEPT !.kr = Weak], [ServerCsr EXCEPT !.ca = "malformed"]}

MCScenarios ==
    "csr" :> [Nothing EXCEPT !.commands = {"csr genkey", "gencert", "signcert", "rmkey"}, !.calls = 3, !.made = 2,
                             !.faults = 1, !.csrs = {ServerCsr, RootCsr} \cup BadCsrs, !.setups = {<<SoftHSM>>, <<Inmem>>}] @@
    "destroy" :> [Nothing EXCEPT !.commands = {"generate", "rmkey", "rmkeys"}, !.calls = 5, !.made = 3,
                                 !.faults = 1, !.types = {"RSA"}, !.labels = {NoLabel, L}] @@
    "find" :> [Nothing EXCEPT !.commands = {"generate", "find", "rmkey"}, !.calls = 4, !.made = 2,
                              !.slots = {"slot1", "slot2"}, !.types = {"RSA", "DSA"}, !.labels = {L}] @@
    "load" :> [Nothing EXCEPT !.commands = {"genkey", "request", "load", "rmkey", "rmkeys"}, !.calls = 3, !.made = 2,
                              !.faults = 1, !.labels = {L}, !.keyRequests = {RSA, Weak},
                              !.setups = {<<SoftHSM, Inmem>>, <<KMS, KMS2>>, <<KMS, Testprov>>}] @@
    "show" :> [Nothing EXCEPT !.commands = {"generate", "request", "root", "lskey", "keyinfo"}, !.calls = 2, !.made = 1,
                              !.certs = 1, !.configs = {Conf1}, !.roots = {Root}, !.types = {"P-192", "Curve25519"}, !.faults = 1, !.keyRequests = {P256, EncryptRSA},
                              !.setups = {<<SoftHSM>>, <<KMS>>}] @@
    "issue" :> [Nothing EXCEPT !.commands = {"root", "authority", "rmkey"}, !.calls = 3, !.made = 2, !.certs = 3,
                               !.keyRequests = {P256, Weak}, !.configs = {Conf1, Conf2, Conf3, Conf4, Conf5, Conf6, Conf7},
                               !.roots = {Root},
                               !.requests = MCRequests, !.setups = {<<SoftHSM>>, <<Inmem>>}]
=============================================================================
