------------------------------ MODULE TokenKeys ------------------------------
(***************************************************************************)
(* Asymmetric keys on PKCS#11 tokens (xpki/crypto11): every call of the    *)
(* library is a sequence of C_ functions, and the calls of several users   *)
(* of a token interleave between them.  op[u].todo names the functions a   *)
(* call of u still has to make.                                            *)
(*                                                                         *)
(* A key pair is two objects, its private and its public half, made by one *)
(* C_GenerateKeyPair with one random id.  An id stands here for the key    *)
(* material as well: <<place, n>> is the n-th key made in a place.  A      *)
(* token is taken not to give the handle of a destroyed object to another. *)
(***************************************************************************)
EXTENDS Naturals, Sequences, FiniteSets, SequencesExt

CONSTANTS
    Users,        \* goroutines or processes that use the keys
    Slots,        \* slots with a token
    CurrentSlot,  \* lib.Slot.id
    Stores,       \* the other places that keep keys (module CryptoProviders)
    MaxListed,    \* how many objects C_FindObjects is asked for (100)
    Scenarios     \* by name, the bounds of a scenario and the calls it makes

ASSUME SlotsAssumption == CurrentSlot \in Slots /\ Slots \cap Stores = {}
ASSUME MaxListedAssumption == MaxListed \in Nat \ {0}

VARIABLES
    objects,  \* the objects in every place
    made,     \* how many keys were made in each place
    op,       \* the call each user has in progress
    faults,   \* how many functions of the token have failed
    hit,      \* history: the ids calls were about when such a function failed
    gone,     \* history: the places and ids DestroyKeyPairOnSlot returned nil for
    scenario  \* the name of the scenario picked

tokenVars == <<objects, made, op, faults, hit, gone, scenario>>

max == Scenarios[scenario]

NoID == <<>>          \* ""
NoLabel == <<>>       \* labels are 1-tuples; a random label is the new id
AnyType == "any"      \* ^uint(0)
NoFile == [form |-> "none", of |-> NoID]

(* A call: what it has left to do and the variables of its functions.      *)
Call(todo, place) ==
    [todo |-> todo, place |-> place, id |-> NoID, label |-> NoLabel, typ |-> AnyType, uses |-> "sign",
     handle |-> [private |-> 0, public |-> 0], pub |-> NoID, lenient |-> FALSE,
     list |-> <<>>, queue |-> <<>>, file |-> NoFile, job |-> <<>>]

Idle == Call(<<>>, CurrentSlot)
At(u, step) == op[u].todo # <<>> /\ Head(op[u].todo) = step

(* The call goes on with the next function, or returns after the last one; *)
(* an error returns from the call at once.                                 *)
Continue(u, o) == op' = [op EXCEPT ![u] = IF Len(o.todo) = 1 THEN Idle ELSE [o EXCEPT !.todo = Tail(@)]]
Fail(u) == op' = [op EXCEPT ![u] = Idle]

(* A function of the token may fail at any time.                           *)
NoFault == UNCHANGED <<faults, hit>>
Fault(u) ==
    /\ faults < max.faults
    /\ faults' = faults + 1
    /\ hit' = hit \cup {op[u].id}

-----------------------------------------------------------------------------
(* Key types.  CKK_ECDSA stands for every curve; a curve may have an OID   *)
(* and no implementation, so that a key on it can be made and not exported.*)

CurvesWithOID == {"P-256", "P-192"}
CurvesImplemented == {"P-256"}
KeyType(typ) == IF typ \in {"RSA", "DSA"} THEN typ ELSE "ECDSA"

exportRSAPublicKey(x) == x.typ = "RSA"
exportECDSAPublicKey(x) == x.typ \in CurvesImplemented
exportDSAPublicKey(x) == x.typ = "DSA"

(* marshalEcParams: a curve that is not listed is refused before the token *)
(* is asked.                                                               *)
marshalEcParams(typ) == KeyType(typ) = "ECDSA" => typ \in CurvesWithOID

(* What the private half of a new key may be used for: RSA keys have one   *)
(* purpose, the others sign.                                               *)
RSAUses(o) == o.uses
ECDSAUses(o) == "sign"
DSAUses(o) == "sign"
Uses(o) == CASE o.typ = "RSA" -> RSAUses(o) [] o.typ = "DSA" -> DSAUses(o) [] OTHER -> ECDSAUses(o)

(* The random label and id, new with every key.                            *)
generateKeyLabel(o, id) == IF o.label = NoLabel THEN id ELSE o.label
generateKeyID(place) == <<place, made[place] + 1>>

Half(o, class, id, n) ==
    [place |-> o.place, handle |-> n, class |-> class, id |-> id, label |-> generateKeyLabel(o, id),
     typ |-> o.typ, uses |-> Uses(o), state |-> "Enabled"]

-----------------------------------------------------------------------------
(* The functions.                                                          *)

(* The objects the template of findKey matches; an empty id or label is    *)
(* left out of the template and matches everything.                        *)
Matches(o, class) ==
    {x \in objects :
        /\ x.place = o.place /\ x.class = class
        /\ class = "public" /\ o.typ # AnyType => KeyType(x.typ) = KeyType(o.typ)
        /\ o.id # NoID => x.id = o.id
        /\ o.label # NoLabel => x.label = o.label}

Object(o, class) == {x \in objects : x.place = o.place /\ x.handle = o.handle[class]}

(* The object is not there any more, or the token fails.                   *)
Lost(u, class) == (Object(op[u], class) = {} /\ NoFault) \/ Fault(u)

(* Destroy and KeyInfo log an error of findKey and go on with handle 0.    *)
NotFound(u) ==
    \/ op[u].lenient /\ Continue(u, op[u])
    \/ ~op[u].lenient /\ Fail(u)

findKey(u, class) ==
    LET found == Matches(op[u], class) IN
    /\ At(u, class)
    /\ \/ \E x \in found : NoFault /\ Continue(u, [op[u] EXCEPT !.handle[class] = x.handle])
       \/ found = {} /\ NoFault /\ NotFound(u)
       \/ Fault(u) /\ NotFound(u)
    /\ UNCHANGED <<objects, made, gone>>

(* C_GetAttributeValue of the type of the private half.                    *)
GetKeyType(u) ==
    /\ At(u, "type")
    /\ \/ \E x \in Object(op[u], "private") : NoFault /\ Continue(u, [op[u] EXCEPT !.typ = KeyType(x.typ)])
       \/ Lost(u, "private") /\ Fail(u)
    /\ UNCHANGED <<objects, made, gone>>

(* C_GetAttributeValue of the public key.                                  *)
ExportPublicKey(u) ==
    /\ At(u, "export")
    /\ \/ \E x \in Object(op[u], "public") :
             /\ NoFault
             /\ \/ /\ exportRSAPublicKey(x) \/ exportECDSAPublicKey(x) \/ exportDSAPublicKey(x)
                   /\ Continue(u, [op[u] EXCEPT !.pub = x.id])
                \/ /\ KeyType(x.typ) = "ECDSA" /\ ~exportECDSAPublicKey(x)
                   /\ Fail(u)
       \/ Lost(u, "public") /\ Fail(u)
    /\ UNCHANGED <<objects, made, gone>>

(* C_GenerateKeyPair makes both halves or none.                            *)
GenerateKeyPair(u) ==
    LET o == op[u]
        n == made[o.place] + 1
        id == generateKeyID(o.place)
    IN
    /\ At(u, "generate")
    /\ \/ /\ marshalEcParams(o.typ)
          /\ NoFault
          /\ objects' = objects \cup {Half(o, "private", id, 2 * n - 1), Half(o, "public", id, 2 * n)}
          /\ made' = [made EXCEPT ![o.place] = n]
          /\ Continue(u, [o EXCEPT !.handle = [private |-> 2 * n - 1, public |-> 2 * n]])
       \/ /\ (~marshalEcParams(o.typ) /\ NoFault) \/ Fault(u)
          /\ Fail(u)
          /\ UNCHANGED <<objects, made>>
    /\ UNCHANGED gone

(* Identify, and the attributes KeyInfo reads: the id and the label.       *)
Identify(u) ==
    /\ At(u, "identify")
    /\ \/ \E x \in Object(op[u], "private") :
             /\ NoFault
             /\ Continue(u, [op[u] EXCEPT !.id = x.id, !.label = NoLabel, !.lenient = FALSE])
       \/ Lost(u, "private") /\ Fail(u)
    /\ UNCHANGED <<objects, made, gone>>

(* C_GetInfo and C_GetTokenInfo.                                           *)
GetInfo(u) ==
    /\ At(u, "info")
    /\ \/ NoFault /\ Continue(u, op[u])
       \/ Fault(u) /\ Fail(u)
    /\ UNCHANGED <<objects, made, gone>>

RmStep == [private |-> "rmprivate", public |-> "rmpublic"]
DestroyKeyPairOnSlot_PublicFirst == <<"private", "public", "rmpublic", "rmprivate">>
DestroyKeyPairOnSlot == <<"private", "public", "rmprivate", "rmpublic">>

(* destroyKeys: the next of the ids that were listed.                      *)
DestroyNext(o) ==
    [o EXCEPT !.todo = DestroyKeyPairOnSlot, !.id = Head(o.queue), !.queue = Tail(@), !.label = NoLabel,
              !.handle = [private |-> 0, public |-> 0], !.lenient = TRUE]

(* One half is gone: on to the next function, or to the next key.          *)
HalfDestroyed(u, class) ==
    LET o == op[u] IN
    \/ /\ class = "public"
       /\ gone' = gone \cup {<<o.place, o.id>>}
       /\ \/ o.queue # <<>> /\ op' = [op EXCEPT ![u] = DestroyNext(o)]
          \/ o.queue = <<>> /\ Continue(u, o)
    \/ class = "private" /\ Continue(u, o) /\ UNCHANGED gone

(* A half that was not found is left out.                                  *)
DestroyObject(u, class) ==
    /\ At(u, RmStep[class])
    /\ \/ /\ op[u].handle[class] = 0
          /\ NoFault /\ HalfDestroyed(u, class)
          /\ UNCHANGED objects
       \/ /\ op[u].handle[class] # 0
          /\ \/ \E x \in Object(op[u], class) : NoFault /\ objects' = objects \ {x} /\ HalfDestroyed(u, class)
             \/ Lost(u, class) /\ Fail(u) /\ UNCHANGED <<objects, gone>>
    /\ UNCHANGED made

-----------------------------------------------------------------------------
(* Listing.                                                                *)

(* ListKeys asks for a bounded number of the private keys.                 *)
ListKeys(u) ==
    LET all == {x.handle : x \in Matches([op[u] EXCEPT !.label = NoLabel], "private")}
        n == IF Cardinality(all) < MaxListed THEN Cardinality(all) ELSE MaxListed
    IN
    /\ At(u, "list")
    /\ \/ \E hs \in kSubset(n, all) : NoFault /\ Continue(u, [op[u] EXCEPT !.list = SetToSeq(hs)])
       \/ Fault(u) /\ Fail(u)
    /\ UNCHANGED <<objects, made, gone>>

HasPrefix(label, prefix) == prefix = NoLabel \/ label = prefix

(* EnumKeys reads the attributes of one key after the other; a key that    *)
(* was destroyed meanwhile is an error.                                    *)
EnumKeys(u) ==
    LET o == op[u] IN
    /\ At(u, "enum") /\ o.list # <<>>
    /\ LET h == [o EXCEPT !.handle.private = Head(o.list)] IN
       \/ \E x \in Object(h, "private") :
             /\ NoFault
             /\ op' = [op EXCEPT ![u].list = Tail(@),
                                 ![u].queue = IF HasPrefix(x.label, o.label) THEN Append(@, x.id) ELSE @]
       \/ ((Object(h, "private") = {} /\ NoFault) \/ Fault(u)) /\ Fail(u)
    /\ UNCHANGED <<objects, made, gone>>

(* The list is complete: hsm lskey returns, hsm rmkey --prefix destroys    *)
(* the keys listed, if there are any and the user confirms.                *)
Listed(u) ==
    LET o == op[u] IN
    /\ At(u, "enum") /\ o.list = <<>>
    /\ \/ Len(o.todo) > 1 /\ o.queue # <<>> /\ op' = [op EXCEPT ![u] = DestroyNext(o)]
       \/ Fail(u)
    /\ NoFault
    /\ UNCHANGED <<objects, made, gone>>

TokenInit ==
    /\ objects = {}
    /\ made = [p \in Slots \cup Stores |-> 0]
    /\ op = [u \in Users |-> Idle]
    /\ faults = 0 /\ hit = {} /\ gone = {}

TokenStep(u) ==
    \/ \E class \in {"private", "public"} : findKey(u, class) \/ DestroyObject(u, class)
    \/ GetKeyType(u) \/ ExportPublicKey(u) \/ GenerateKeyPair(u) \/ Identify(u) \/ GetInfo(u)
    \/ ListKeys(u) \/ EnumKeys(u) \/ Listed(u)

-----------------------------------------------------------------------------
(* What users rely on.                                                     *)

(* The user is about to destroy the public half x, whose private half it   *)
(* has destroyed or has seen gone.                                         *)
Removing(u, x) == At(u, "rmpublic") /\ op[u].place = x.place /\ op[u].handle.public = x.handle

(* However the calls of several users interleave (util.go:130), a key pair *)
(* is on the token as a whole: a private half always has its public half,  *)
(* a public half without its private one is being destroyed, and nothing   *)
(* is left of a pair when DestroyKeyPairOnSlot has returned nil, unless    *)
(* the token failed in a call about this very key.                         *)
PairsWhole ==
    \A x \in objects : x.place \in Slots =>
        \/ x.id \in hit
        \/ /\ <<x.place, x.id>> \notin gone
           /\ \/ \E y \in objects : y.id = x.id /\ y.class # x.class
              \/ x.class = "public" /\ \E u \in Users : Removing(u, x)
=============================================================================
