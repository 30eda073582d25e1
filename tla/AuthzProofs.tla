----------------------------- MODULE AuthzProofs -----------------------------
(***************************************************************************)
(* Proofs about Authz, for any finite set of paths closed under prefixes,  *)
(* any roles, callers and mappers, and any number of calls and handlers.   *)
(*                                                                         *)
(* A provider's tree is a function of the set of calls made (TreeOf): its  *)
(* nodes are the prefixes of the calls' paths, and every node holds what   *)
(* the calls for that very path say.  Neither is inductive without the     *)
(* other: a call for a path no node exists for finds a new node, which     *)
(* agrees with the calls only because no earlier call was for that path.   *)
(***************************************************************************)
EXTENDS Authz, SequenceTheorems, WellFoundedInduction, TLAPS

Segments == UNION {Range(p) : p \in Paths}

-----------------------------------------------------------------------------
(* Prefixes.                                                               *)

(* The prefixes of a sequence are the sequences IsPrefix says they are.    *)
LEMMA PrefixesAre ==
  ASSUME NEW S, NEW p \in Seq(S), NEW q \in Seq(S)
  PROVE  q \in Prefixes(p) <=> IsPrefix(q, p)
<1>1. SubSeq(q, 1, Len(q)) = q
  BY SubSeqFull
<1>2. ASSUME q \in Prefixes(p) PROVE IsPrefix(q, p)
  <2>1. PICK l \in 0..Len(p) : q = SubSeq(p, 1, l)
    BY <1>2 DEF Prefixes
  <2>2. Len(q) = l
    BY <2>1, LenProperties, SubSeqProperties
  <2> QED
    BY <1>1, <2>1, <2>2, LenProperties DEF IsPrefix
<1>3. ASSUME IsPrefix(q, p) PROVE q \in Prefixes(p)
  <2>1. q = SubSeq(p, 1, Len(q)) /\ Len(q) \in 0..Len(p)
    BY <1>1, <1>3, LenProperties DEF IsPrefix
  <2> QED
    BY <2>1 DEF Prefixes
<1> QED
  BY <1>2, <1>3

(* A path is a prefix of itself, the root of every path, and the prefixes  *)
(* of a path of the model are paths of the model.                          *)
LEMMA PathPrefixes ==
  ASSUME NEW p \in Paths
  PROVE  /\ p \in Seq(Segments)
         /\ p \in Prefixes(p)
         /\ <<>> \in Prefixes(p)
         /\ Prefixes(p) \subseteq Paths
         /\ \A q \in Prefixes(p) : q \in Seq(Segments) /\ Len(q) \in 0..Len(p)
<1>1. p \in Seq(Segments) /\ Prefixes(p) \subseteq Paths /\ Paths \subseteq Seq(Segments)
  BY PathAssumption DEF Segments
<1>2. Len(p) \in Nat
  BY <1>1, LenProperties
<1>3. SubSeq(p, 1, Len(p)) = p
  BY <1>1, SubSeqFull
<1>4. SubSeq(p, 1, 0) = <<>>
  BY <1>1, SubSeqEmpty
<1>5. p \in Prefixes(p) /\ <<>> \in Prefixes(p)
  <2>1. 0 \in 0..Len(p) /\ Len(p) \in 0..Len(p)
    BY <1>2
  <2> QED
    BY <2>1, <1>3, <1>4, Zenon DEF Prefixes
<1>6. ASSUME NEW q \in Prefixes(p) PROVE q \in Seq(Segments) /\ Len(q) \in 0..Len(p)
  <2>1. q \in Seq(Segments)
    BY <1>1
  <2>2. IsPrefix(q, p)
    BY <1>1, <2>1, PrefixesAre
  <2> QED
    BY <1>2, <2>1, <2>2, LenProperties DEF IsPrefix
<1> QED
  BY <1>1, <1>5, <1>6

(* The only prefix of the root is the root.                                *)
LEMMA RootPrefixes == Prefixes(<<>>) = {<<>>}
<1>1. Len(<<>>) = 0 /\ SubSeq(<<>>, 1, 0) = <<>>
  BY SubSeqEmpty, EmptySeq
<1>2. 0..Len(<<>>) = {0}
  BY <1>1
<1> QED
  BY <1>1, <1>2, Zenon DEF Prefixes

(* A nonempty set of numbers below a bound has a greatest member.          *)
LEMMA BoundedHasMax ==
  ASSUME NEW n \in Nat, NEW T, T \subseteq 0..n, T # {}
  PROVE  \E x \in T : \A y \in T : y <= x
<1> DEFINE gap == {n - x : x \in T}
<1>1. gap \subseteq Nat /\ gap # {}
  <2>1. ASSUME NEW x \in T PROVE n - x \in Nat
    <3>1. x \in 0..n
      OBVIOUS
    <3> QED
      BY <3>1
  <2> QED
    BY <2>1
<1>2. PICK d \in gap : \A e \in gap : ~(<<e, d>> \in OpToRel(<, Nat))
  BY <1>1, NatLessThanWellFounded, WFMin
<1>3. \A e \in gap : ~(e < d)
  BY <1>1, <1>2 DEF OpToRel
<1>4. PICK x \in T : d = n - x
  OBVIOUS
<1>5. ASSUME NEW y \in T PROVE y <= x
  <2>1. ~(n - y < n - x)
    BY <1>3, <1>4
  <2>2. y \in 0..n /\ x \in 0..n
    OBVIOUS
  <2> QED
    BY <2>1, <2>2
<1> QED
  BY <1>5

(* A set of prefixes of a path that is not empty has a longest member.     *)
LEMMA LongestExists ==
  ASSUME NEW p \in Paths, NEW D, D \subseteq Prefixes(p), D # {}
  PROVE  \E q \in D : \A r \in D : Len(r) <= Len(q)
<1> DEFINE lens == {Len(q) : q \in D}
<1>1. lens \subseteq 0..Len(p) /\ lens # {}
  BY PathPrefixes
<1>2. Len(p) \in Nat
  BY PathPrefixes, LenProperties
<1>3. PICK x \in lens : \A y \in lens : y <= x
  <2> HIDE DEF lens
  <2> QED
    BY <1>1, <1>2, BoundedHasMax
<1> QED
  BY <1>3

-----------------------------------------------------------------------------
(* The invariant.                                                          *)

Trees == UNION {[D -> Node] : D \in SUBSET Paths}
Provider == [tree : Trees, mapper : Mappers \cup {NoMapper},
             grpcMapper : Mappers \cup {NoMapper}, calls : SUBSET Calls]

Touched(calls) == UNION {Prefixes(c.path) : c \in calls}

(* A node holds what the calls for its path say.  AllowAny clears anyRole, *)
(* which no longer matters then.                                           *)
NodeOf(node, calls, q) ==
    /\ node.any <=> \E c \in calls : c.path = q /\ c.op = "AllowAny"
    /\ node.any \/ (node.anyRole <=> \E c \in calls : c.path = q /\ c.op = "AllowAnyRole")
    /\ \A r \in AnyRoleName \ {NoRole} :
         r \in node.roles <=> \E c \in calls : c.path = q /\ c.op = "Allow" /\ c.role = r

(* A call through an interceptor may have made the root alone.             *)
TreeOf(tree, calls) ==
    /\ Touched(calls) \subseteq DOMAIN tree
    /\ DOMAIN tree \subseteq Touched(calls) \cup {<<>>}
    /\ \A q \in DOMAIN tree : NodeOf(tree[q], calls, q)

(* The providers of handlers are copies, those of interceptors the first.  *)
GuardsOK ==
    /\ guards \subseteq [kind : {"http", "grpc"}, ref : 1..Len(objs)]
    /\ \A g \in guards : IF g.kind = "http" THEN g.ref # 1 /\ objs[g.ref].mapper # NoMapper
                                            ELSE g.ref = 1

IInv ==
    /\ objs \in Seq(Provider) /\ Len(objs) >= 1
    /\ \A i \in 1..Len(objs) : TreeOf(objs[i].tree, objs[i].calls)
    /\ GuardsOK
    /\ answer \in {"none", "delegated", "denied"}

-----------------------------------------------------------------------------
(* What a call does to a tree.                                             *)

(* walkPath adds the nodes of a path, new ones where there were none.      *)
LEMMA Walked ==
  ASSUME NEW tree \in Trees, NEW path \in Paths
  PROVE  /\ walkPath(tree, path) \in Trees
         /\ DOMAIN walkPath(tree, path) = DOMAIN tree \cup Prefixes(path)
         /\ \A q \in DOMAIN tree : walkPath(tree, path)[q] = tree[q]
         /\ \A q \in Prefixes(path) \ DOMAIN tree : walkPath(tree, path)[q] = newPathNode
<1>1. PICK D \in SUBSET Paths : tree \in [D -> Node]
  BY DEF Trees
<1>2. D \cup Prefixes(path) \in SUBSET Paths
  BY PathPrefixes
<1>3. newPathNode \in Node
  BY DEF newPathNode, Node
<1>4. walkPath(tree, path) \in [D \cup Prefixes(path) -> Node]
  BY <1>1, <1>3 DEF walkPath
<1> QED
  BY <1>1, <1>2, <1>4, Zenon DEF walkPath, Trees

(* A path no call is for has a node that grants nothing.                   *)
LEMMA NewNode ==
  ASSUME NEW calls, NEW q, \A c \in calls : c.path # q
  PROVE  NodeOf(newPathNode, calls, q)
BY DEF NodeOf, newPathNode

(* The node a call marks agrees with the calls so far.                     *)
LEMMA TargetNode ==
  ASSUME NEW tree \in Trees, NEW calls \in SUBSET Calls, TreeOf(tree, calls),
         NEW path \in Paths, NEW q \in DOMAIN walkPath(tree, path)
  PROVE  walkPath(tree, path)[q] \in Node /\ NodeOf(walkPath(tree, path)[q], calls, q)
<1>1. walkPath(tree, path)[q] \in Node
  <2>0. walkPath(tree, path) \in Trees
    BY Walked
  <2>1. PICK D \in SUBSET Paths : walkPath(tree, path) \in [D -> Node]
    BY <2>0 DEF Trees
  <2> QED
    BY <2>1
<1>2. CASE q \in DOMAIN tree
  BY <1>1, <1>2, Walked DEF TreeOf
<1>3. CASE q \notin DOMAIN tree
  <2>1. q \in Prefixes(path) /\ walkPath(tree, path)[q] = newPathNode
    BY <1>3, Walked
  <2>2. ASSUME NEW c \in calls PROVE c.path # q
    <3>1. c.path \in Paths
      BY DEF Calls
    <3>2. c.path \in Prefixes(c.path)
      BY <3>1, PathPrefixes
    <3>3. c.path \in DOMAIN tree
      BY <3>2 DEF TreeOf, Touched
    <3> QED
      BY <1>3, <3>3
  <2> QED
    BY <1>1, <2>1, <2>2, NewNode
<1> QED
  BY <1>2, <1>3

(* A call that marks its node as the calls with it ask keeps the tree.     *)
LEMMA ConfiguredTree ==
  ASSUME NEW tree \in Trees, NEW calls \in SUBSET Calls, TreeOf(tree, calls),
         NEW call \in Calls, NEW node \in Node, NodeOf(node, calls \cup {call}, call.path)
  PROVE  LET t == [walkPath(tree, call.path) EXCEPT ![call.path] = node]
         IN  t \in Trees /\ TreeOf(t, calls \cup {call})
<1> DEFINE w == walkPath(tree, call.path)
           t == [w EXCEPT ![call.path] = node]
<1>1. call.path \in Paths
  BY DEF Calls
<1>2. call.path \in Prefixes(call.path) /\ <<>> \in Prefixes(call.path)
  BY <1>1, PathPrefixes
<1>3. w \in Trees /\ DOMAIN w = DOMAIN tree \cup Prefixes(call.path)
  BY <1>1, Walked
<1>4. \A q \in DOMAIN w : NodeOf(w[q], calls, q)
  BY <1>1, TargetNode
<1> HIDE DEF w
<1>5. t \in Trees /\ DOMAIN t = DOMAIN w
  BY <1>3 DEF Trees
<1>6. Touched(calls \cup {call}) = Touched(calls) \cup Prefixes(call.path)
  BY Zenon DEF Touched
<1>7. ASSUME NEW q \in DOMAIN t PROVE NodeOf(t[q], calls \cup {call}, q)
  <2>1. CASE q = call.path
    <3>1. t[q] = node
      BY <1>5, <2>1
    <3> QED
      BY <2>1, <3>1
  <2>2. CASE q # call.path
    <3>1. t[q] = w[q] /\ NodeOf(w[q], calls, q)
      BY <1>4, <1>5, <2>2
    <3> QED
      BY <2>2, <3>1 DEF NodeOf
  <2> QED
    BY <2>1, <2>2
<1>8. TreeOf(t, calls \cup {call})
  BY <1>2, <1>3, <1>5, <1>6, <1>7 DEF TreeOf
<1> QED
  BY <1>5, <1>8 DEF w

(* Making the root changes nothing the calls say.                          *)
LEMMA RootedTree ==
  ASSUME NEW tree \in Trees, NEW calls \in SUBSET Calls, TreeOf(tree, calls), Paths # {}
  PROVE  /\ rootCreated(tree) \in Trees /\ TreeOf(rootCreated(tree), calls)
         /\ DOMAIN rootCreated(tree) = Touched(calls) \cup {<<>>}
<1>1. <<>> \in Paths
  BY PathPrefixes
<1>2. /\ rootCreated(tree) \in Trees
      /\ DOMAIN rootCreated(tree) = DOMAIN tree \cup {<<>>}
  BY <1>1, Walked, RootPrefixes DEF rootCreated
<1>3. \A q \in DOMAIN rootCreated(tree) : NodeOf(rootCreated(tree)[q], calls, q)
  BY <1>1, TargetNode DEF rootCreated
<1> QED
  BY <1>2, <1>3 DEF TreeOf

-----------------------------------------------------------------------------
(* What a provider decides.                                                *)

(* The deepest node that a path matches is the one its calls name.         *)
LEMMA DeepestIs ==
  ASSUME NEW tree \in Trees, NEW calls \in SUBSET Calls, TreeOf(tree, calls),
         NEW path \in Paths, NEW met,
         met = {q \in Prefixes(path) : q = <<>> \/ \E c \in calls : IsPrefix(q, c.path)}
  PROVE  /\ DOMAIN rootCreated(tree) \cap Prefixes(path) = met
         /\ deepest(rootCreated(tree), path) = CHOOSE q \in met : \A r \in met : Len(r) <= Len(q)
         /\ deepest(rootCreated(tree), path) \in met
<1>1. DOMAIN rootCreated(tree) = Touched(calls) \cup {<<>>}
  BY RootedTree
<1>2. ASSUME NEW q \in Prefixes(path), NEW c \in calls
      PROVE  q \in Prefixes(c.path) <=> IsPrefix(q, c.path)
  <2>1. c.path \in Paths
    BY DEF Calls
  <2>2. c.path \in Seq(Segments) /\ q \in Seq(Segments)
    BY <2>1, PathPrefixes
  <2> QED
    BY <2>2, PrefixesAre
<1>3. DOMAIN rootCreated(tree) \cap Prefixes(path) = met
  BY <1>1, <1>2 DEF Touched
<1>4. deepest(rootCreated(tree), path) = CHOOSE q \in met : \A r \in met : Len(r) <= Len(q)
  BY <1>3, Zenon DEF deepest
<1>5. met \subseteq Prefixes(path) /\ <<>> \in met
  BY PathPrefixes
<1>6. \E q \in met : \A r \in met : Len(r) <= Len(q)
  BY <1>5, LongestExists
<1> QED
  BY <1>3, <1>4, <1>6

(* A node that holds what the calls for its path say grants what they say. *)
LEMMA NodeGrants ==
  ASSUME NEW node, NEW calls, NEW q, NodeOf(node, calls, q), NEW role \in AnyRoleName
  PROVE  (node.any \/ allowRole(node, role)) <=> Grants(calls, q, role)
<1>1. node.any <=> \E c \in calls : c.path = q /\ c.op = "AllowAny"
  BY DEF NodeOf
<1>2. node.any \/ (node.anyRole <=> \E c \in calls : c.path = q /\ c.op = "AllowAnyRole")
  BY DEF NodeOf
<1>3. role # NoRole =>
        (role \in node.roles <=> \E c \in calls : c.path = q /\ c.op = "Allow" /\ c.role = role)
  BY DEF NodeOf
<1> QED
  BY <1>1, <1>2, <1>3, Zenon DEF Grants, allowRole

(* What a provider that agrees with its calls decides is what they say.    *)
LEMMA Decided == IInv => DecidedByCalls
<1> SUFFICES ASSUME IInv, NEW i \in DOMAIN objs, NEW path \in Paths, NEW role \in AnyRoleName
             PROVE  LET met == {q \in Prefixes(path) :
                                  q = <<>> \/ \E c \in objs[i].calls : IsPrefix(q, c.path)}
                        node == CHOOSE q \in met : \A r \in met : Len(r) <= Len(q)
                    IN isAllowed(objs[i].tree, path, role) <=> Grants(objs[i].calls, node, role)
  BY DEF DecidedByCalls
<1> DEFINE calls == objs[i].calls
           tree == objs[i].tree
           root == rootCreated(tree)
           met == {q \in Prefixes(path) : q = <<>> \/ \E c \in calls : IsPrefix(q, c.path)}
           node == CHOOSE q \in met : \A r \in met : Len(r) <= Len(q)
<1>1. tree \in Trees /\ calls \in SUBSET Calls /\ TreeOf(tree, calls)
  <2>1. i \in 1..Len(objs) /\ objs[i] \in Provider
    BY LenProperties, ElementOfSeq DEF IInv
  <2> QED
    BY <2>1 DEF IInv, Provider
<1>2. TreeOf(root, calls)
  BY <1>1, RootedTree
<1> HIDE DEF calls, tree
<1>3. /\ DOMAIN root \cap Prefixes(path) = met
      /\ deepest(root, path) = node
      /\ deepest(root, path) \in met
  BY <1>1, DeepestIs
<1>4. node \in DOMAIN root
  BY <1>3
<1> HIDE DEF met, node, root
<1>5. NodeOf(root[node], calls, node)
  BY <1>2, <1>4 DEF TreeOf
<1>6. isAllowed(tree, path, role) <=> (root[node].any \/ allowRole(root[node], role))
  BY <1>3 DEF isAllowed, root
<1>7. isAllowed(tree, path, role) <=> Grants(calls, node, role)
  BY <1>5, <1>6, NodeGrants
<1> QED
  BY <1>7 DEF met, node, calls, tree

-----------------------------------------------------------------------------
(* The steps.                                                              *)

(* The initial states satisfy the invariant.                               *)
LEMMA IInvInit == Init => IInv
<1> SUFFICES ASSUME Init PROVE IInv
  OBVIOUS
<1> DEFINE empty == [p \in {} |-> newPathNode]
<1>1. PICK m \in Mappers : objs = << [tree |-> empty, mapper |-> m, grpcMapper |-> m, calls |-> {}] >>
  BY DEF Init
<1>2. empty \in Trees
  <2>1. empty \in [{} -> Node]
    OBVIOUS
  <2> QED
    BY <2>1, Zenon DEF Trees
<1>3. TreeOf(empty, {})
  BY DEF TreeOf, Touched
<1> HIDE DEF empty
<1>4. objs \in Seq(Provider) /\ Len(objs) = 1 /\ objs[1].tree = empty /\ objs[1].calls = {}
  BY <1>1, <1>2 DEF Provider
<1>5. ASSUME NEW i \in 1..Len(objs) PROVE TreeOf(objs[i].tree, objs[i].calls)
  <2>1. i = 1
    BY <1>4
  <2> QED
    BY <1>3, <1>4, <2>1
<1>6. GuardsOK /\ answer = "none"
  BY DEF GuardsOK, Init
<1>7. Len(objs) >= 1
  BY <1>4
<1> QED
  BY <1>4, <1>5, <1>6, <1>7 DEF IInv

(* Replacing the first provider by one that agrees with its calls.         *)
LEMMA FirstReplaced ==
  ASSUME IInv, NEW p \in Provider, TreeOf(p.tree, p.calls),
         objs' = [objs EXCEPT ![1] = p], UNCHANGED guards, answer' \in {"none", "delegated", "denied"}
  PROVE  IInv'
<1>1. 1 \in 1..Len(objs) /\ objs' \in Seq(Provider) /\ Len(objs') = Len(objs)
  BY LenProperties, ExceptSeq DEF IInv
<1>2. objs'[1] = p /\ \A i \in 1..Len(objs) : i # 1 => objs'[i] = objs[i]
  BY <1>1, LenProperties DEF IInv
<1>3. \A i \in 1..Len(objs') : TreeOf(objs'[i].tree, objs'[i].calls)
  BY <1>1, <1>2 DEF IInv
<1>4. GuardsOK'
  BY <1>1, <1>2 DEF IInv, GuardsOK
<1> QED
  BY <1>1, <1>3, <1>4 DEF IInv

(* The first provider.                                                     *)
LEMMA First ==
  ASSUME IInv
  PROVE  /\ objs[1] \in Provider /\ TreeOf(objs[1].tree, objs[1].calls)
         /\ objs[1].tree \in Trees /\ objs[1].calls \in SUBSET Calls
<1>1. 1 \in 1..Len(objs)
  BY LenProperties DEF IInv
<1>2. objs[1] \in Provider
  BY <1>1, ElementOfSeq DEF IInv
<1> QED
  BY <1>1, <1>2 DEF IInv, Provider

(* The calls that configure paths: it is enough that the node they mark    *)
(* agrees with the calls made and the new one.                             *)
LEMMA ConfigureStep ==
  ASSUME IInv, NEW call \in Calls, NEW node \in Node, Configure(call, node),
         NodeOf(node, objs[1].calls \cup {call}, call.path)
  PROVE  IInv'
<1> DEFINE t == [walkPath(objs[1].tree, call.path) EXCEPT ![call.path] = node]
           cs == objs[1].calls \cup {call}
           p == [objs[1] EXCEPT !.tree = t, !.calls = cs]
<1>1. t \in Trees /\ TreeOf(t, cs)
  BY First, ConfiguredTree
<1>2. cs \in SUBSET Calls
  BY First
<1>3. 1 \in 1..Len(objs) /\ objs[1] \in Provider
  BY First, LenProperties DEF IInv
<1>4. objs' = [objs EXCEPT ![1].tree = t, ![1].calls = cs]
  BY DEF Configure
<1> HIDE DEF t, cs
<1>5. p \in Provider /\ p.tree = t /\ p.calls = cs
  BY <1>1, <1>2, <1>3 DEF Provider
<1>6. objs' = [objs EXCEPT ![1] = p]
  BY <1>3, <1>4 DEF IInv
<1> HIDE DEF p
<1>7. UNCHANGED <<guards, answer>>
  BY DEF Configure
<1> QED
  BY <1>1, <1>5, <1>6, <1>7, FirstReplaced DEF IInv

(* The node of a path, as a call finds it.                                 *)
LEMMA Target ==
  ASSUME IInv, NEW path \in Paths
  PROVE  target(path) \in Node /\ NodeOf(target(path), objs[1].calls, path)
<1>1. path \in DOMAIN walkPath(objs[1].tree, path)
  <2>1. DOMAIN walkPath(objs[1].tree, path) = DOMAIN objs[1].tree \cup Prefixes(path)
    BY First, Walked
  <2> QED
    BY <2>1, PathPrefixes
<1> QED
  BY <1>1, First, TargetNode DEF target

(* AllowAny marks its node for everybody.                                  *)
LEMMA AllowAnyStep == ASSUME IInv, NEW path \in Paths, AllowAny(path) PROVE IInv'
<1> DEFINE call == [op |-> "AllowAny", path |-> path, role |-> NoRole]
           node == [target(path) EXCEPT !.any = TRUE, !.anyRole = FALSE]
<1>1. call \in Calls /\ call.path = path /\ call.op = "AllowAny"
  BY DEF Calls
<1>2. node \in Node /\ node.any = TRUE /\ node.roles = target(path).roles
  BY Target DEF Node
<1>3. Configure(call, node)
  BY DEF AllowAny
<1> HIDE DEF call, node
<1>4. NodeOf(node, objs[1].calls \cup {call}, path)
  BY <1>1, <1>2, Target DEF NodeOf
<1> QED
  BY <1>1, <1>2, <1>3, <1>4, ConfigureStep

(* AllowAnyRole marks its node for every role.                             *)
LEMMA AllowAnyRoleStep == ASSUME IInv, NEW path \in Paths, AllowAnyRole(path) PROVE IInv'
<1> DEFINE call == [op |-> "AllowAnyRole", path |-> path, role |-> NoRole]
           node == [target(path) EXCEPT !.anyRole = TRUE]
<1>1. call \in Calls /\ call.path = path /\ call.op = "AllowAnyRole"
  BY DEF Calls
<1>2. node \in Node /\ node.anyRole = TRUE /\ node.any = target(path).any /\ node.roles = target(path).roles
  BY Target DEF Node
<1>3. Configure(call, node)
  BY DEF AllowAnyRole
<1> HIDE DEF call, node
<1>4. NodeOf(node, objs[1].calls \cup {call}, path)
  BY <1>1, <1>2, Target DEF NodeOf
<1> QED
  BY <1>1, <1>2, <1>3, <1>4, ConfigureStep

(* Allow adds a role to its node; the empty role adds nothing.             *)
LEMMA AllowStep ==
  ASSUME IInv, NEW path \in Paths, NEW role \in AnyRoleName, Allow(path, role) PROVE IInv'
<1> DEFINE call == [op |-> "Allow", path |-> path, role |-> role]
           node == [target(path) EXCEPT !.roles = @ \cup ({role} \ {NoRole})]
<1>1. call \in Calls /\ call.path = path /\ call.op = "Allow" /\ call.role = role
  BY DEF Calls
<1>2. /\ node \in Node /\ node.any = target(path).any /\ node.anyRole = target(path).anyRole
      /\ node.roles = target(path).roles \cup ({role} \ {NoRole})
  BY Target DEF Node
<1>3. Configure(call, node)
  BY DEF Allow
<1> HIDE DEF call, node
<1>4. NodeOf(node, objs[1].calls \cup {call}, path)
  BY <1>1, <1>2, Target DEF NodeOf
<1> QED
  BY <1>1, <1>2, <1>3, <1>4, ConfigureStep

(* The role mappers say nothing of the trees.                              *)
LEMMA MapperStep ==
  ASSUME IInv, NEW m \in Mappers \cup {NoMapper}, SetRoleMapper(m) \/ SetGRPCRoleMapper(m)
  PROVE  IInv'
<1>1. 1 \in 1..Len(objs)
  BY LenProperties DEF IInv
<1>2. CASE SetRoleMapper(m)
  <2> DEFINE p == [objs[1] EXCEPT !.mapper = m]
  <2>1. p \in Provider /\ p.tree = objs[1].tree /\ p.calls = objs[1].calls
    BY First DEF Provider
  <2>2. objs' = [objs EXCEPT ![1] = p]
    BY <1>1, <1>2 DEF SetRoleMapper
  <2> QED
    BY <1>2, <2>1, <2>2, First, FirstReplaced DEF SetRoleMapper, IInv
<1>3. CASE SetGRPCRoleMapper(m)
  <2> DEFINE p == [objs[1] EXCEPT !.grpcMapper = m]
  <2>1. p \in Provider /\ p.tree = objs[1].tree /\ p.calls = objs[1].calls
    BY First DEF Provider
  <2>2. objs' = [objs EXCEPT ![1] = p]
    BY <1>1, <1>3 DEF SetGRPCRoleMapper
  <2> QED
    BY <1>3, <2>1, <2>2, First, FirstReplaced DEF SetGRPCRoleMapper, IInv
<1> QED
  BY <1>2, <1>3

(* A handler's copy keeps what the provider was, and has a mapper.         *)
LEMMA HandlerStep == ASSUME IInv, NewHandler PROVE IInv'
<1>1. /\ objs' = Append(objs, objs[1]) /\ objs[1].mapper # NoMapper
      /\ guards' = guards \cup {[kind |-> "http", ref |-> Len(objs) + 1]}
      /\ answer' = answer
  BY DEF NewHandler, Clone
<1>2. objs \in Seq(Provider) /\ Len(objs) \in Nat /\ Len(objs) >= 1
  BY LenProperties DEF IInv
<1>3. /\ objs' \in Seq(Provider) /\ Len(objs') = Len(objs) + 1
      /\ objs'[Len(objs) + 1] = objs[1]
      /\ \A i \in 1..Len(objs) : objs'[i] = objs[i]
  BY <1>1, <1>2, First, AppendProperties
<1>4. ASSUME NEW i \in 1..Len(objs') PROVE TreeOf(objs'[i].tree, objs'[i].calls)
  <2>1. i \in 1..Len(objs) \/ i = Len(objs) + 1
    BY <1>2, <1>3
  <2> QED
    BY <1>3, <2>1, First DEF IInv
<1>5. GuardsOK'
  <2>1. ASSUME NEW g \in guards
        PROVE  /\ g \in [kind : {"http", "grpc"}, ref : 1..Len(objs')]
               /\ IF g.kind = "http" THEN g.ref # 1 /\ objs'[g.ref].mapper # NoMapper ELSE g.ref = 1
    <3>1. g \in [kind : {"http", "grpc"}, ref : 1..Len(objs)]
      BY DEF IInv, GuardsOK
    <3>2. g.ref \in 1..Len(objs) /\ g.ref \in 1..Len(objs') /\ g.kind \in {"http", "grpc"}
      BY <1>2, <1>3, <3>1
    <3>3. g \in [kind : {"http", "grpc"}, ref : 1..Len(objs')]
      BY <3>1, <3>2
    <3> QED
      BY <1>3, <3>2, <3>3 DEF IInv, GuardsOK
  <2> DEFINE h == [kind |-> "http", ref |-> Len(objs) + 1]
  <2>2. /\ h \in [kind : {"http", "grpc"}, ref : 1..Len(objs')]
        /\ h.kind = "http" /\ h.ref # 1 /\ objs'[h.ref].mapper # NoMapper
    BY <1>1, <1>2, <1>3
  <2> HIDE DEF h
  <2>3. \A g \in guards' : g \in guards \/ g = h
    BY <1>1 DEF h
  <2> QED
    BY <2>1, <2>2, <2>3 DEF GuardsOK
<1> QED
  BY <1>1, <1>2, <1>3, <1>4, <1>5 DEF IInv

(* An interceptor refers to the provider itself.                           *)
LEMMA InterceptorStep == ASSUME IInv, NewUnaryInterceptor PROVE IInv'
<1>1. 1 \in 1..Len(objs)
  BY LenProperties DEF IInv
<1>2. GuardsOK'
  BY <1>1 DEF NewUnaryInterceptor, IInv, GuardsOK
<1> QED
  BY <1>2 DEF NewUnaryInterceptor, IInv

(* A call through an interceptor may make the root of the first provider.  *)
LEMMA InterceptStep ==
  ASSUME IInv, NEW g \in guards, NEW c \in Callers, NEW path \in Paths, Intercept(g, c, path)
  PROVE  IInv'
<1>1. g.ref = 1
  BY DEF Intercept, IInv, GuardsOK
<1>2. 1 \in 1..Len(objs)
  BY LenProperties DEF IInv
<1> DEFINE t == rootCreated(objs[1].tree)
           p == [objs[1] EXCEPT !.tree = t]
<1>3. t \in Trees /\ TreeOf(t, objs[1].calls)
  BY First, RootedTree
<1>4. objs' = [objs EXCEPT ![1].tree = t]
  BY <1>1 DEF Intercept
<1> HIDE DEF t
<1>5. p \in Provider /\ p.tree = t /\ p.calls = objs[1].calls
  BY <1>3, First DEF Provider
<1>6. objs' = [objs EXCEPT ![1] = p]
  BY <1>2, <1>4
<1> HIDE DEF p
<1>7. UNCHANGED guards /\ answer' \in {"none", "delegated", "denied"}
  BY DEF Intercept
<1> QED
  BY <1>3, <1>5, <1>6, <1>7, FirstReplaced

(* Every step preserves the invariant.                                     *)
LEMMA IInvStep == IInv /\ [Next]_vars => IInv'
<1> SUFFICES ASSUME IInv, [Next]_vars PROVE IInv'
  OBVIOUS
<1>1. ASSUME NEW g \in guards, NEW c \in Callers, NEW p \in Paths, NEW o \in BOOLEAN, ServeHTTP(g, c, p, o)
      PROVE  IInv'
  BY <1>1 DEF ServeHTTP, IInv, GuardsOK
<1>2. CASE UNCHANGED vars
  BY <1>2 DEF vars, IInv, GuardsOK
<1> QED
  BY <1>1, <1>2, AllowAnyStep, AllowAnyRoleStep, AllowStep, MapperStep, HandlerStep,
     InterceptorStep, InterceptStep DEF Next

-----------------------------------------------------------------------------
(* The theorems.                                                           *)

(* The trees of all providers agree with the calls made on them, in every  *)
(* reachable state.                                                        *)
THEOREM Invariance == Spec => []IInv
BY IInvInit, IInvStep, PTL DEF Spec

(* The heap of providers keeps its type: in every tree, each node but the  *)
(* root hangs below another.                                               *)
THEOREM TypeCorrect == Spec => []TypeOK
<1>1. IInv => TypeOK
  <2> SUFFICES ASSUME IInv PROVE TypeOK
    OBVIOUS
  <2>1. objs \in Seq(Provider) /\ DOMAIN objs = 1..Len(objs)
    BY LenProperties DEF IInv
  <2>2. ASSUME NEW i \in DOMAIN objs
        PROVE  /\ objs[i] \in Provider /\ TreeOf(objs[i].tree, objs[i].calls)
               /\ objs[i].tree \in Trees /\ objs[i].calls \in SUBSET Calls
               /\ {objs[i].mapper, objs[i].grpcMapper} \subseteq Mappers \cup {NoMapper}
    <3>1. objs[i] \in Provider
      BY <2>1, ElementOfSeq
    <3>2. TreeOf(objs[i].tree, objs[i].calls)
      BY <2>1 DEF IInv
    <3> QED
      BY <3>1, <3>2 DEF Provider
  <2>3. ASSUME NEW i \in DOMAIN objs, NEW q \in DOMAIN objs[i].tree
        PROVE  q \in Paths /\ objs[i].tree[q] \in Node
    <3>1. PICK D \in SUBSET Paths : objs[i].tree \in [D -> Node]
      BY <2>2 DEF Trees
    <3> QED
      BY <3>1
  <2>4. ASSUME NEW i \in DOMAIN objs, NEW q \in DOMAIN objs[i].tree, q # <<>>
        PROVE  Front(q) \in DOMAIN objs[i].tree
    <3>1. PICK c \in objs[i].calls : q \in Prefixes(c.path)
      BY <2>2, <2>4 DEF TreeOf, Touched
    <3>2. c.path \in Paths
      BY <2>2 DEF Calls
    <3>3. PICK l \in 0..Len(c.path) : q = SubSeq(c.path, 1, l)
      BY <3>1 DEF Prefixes
    <3>4. c.path \in Seq(Segments) /\ Len(c.path) \in Nat
      BY <3>2, PathPrefixes, LenProperties
    <3>5. l # 0 /\ Len(q) = l
      BY <2>4, <3>3, <3>4, SubSeqEmpty, SubSeqProperties
    <3>6. Front(q) = SubSeq(c.path, 1, l - 1)
      BY <3>3, <3>4, <3>5 DEF Front
    <3>7. l - 1 \in 0..Len(c.path)
      BY <3>4, <3>5
    <3>8. Front(q) \in Prefixes(c.path)
      BY <3>6, <3>7 DEF Prefixes
    <3> QED
      BY <2>2, <3>8 DEF TreeOf, Touched
  <2> QED
    BY <2>1, <2>2, <2>3, <2>4 DEF TypeOK, IInv, GuardsOK
<1> QED
  BY <1>1, Invariance, PTL

(* What a provider or a handler decides is what the set of calls made says *)
(* of the deepest matching path, whatever the order of the calls.          *)
THEOREM AccessDecidedByCalls == Spec => []DecidedByCalls
BY Decided, Invariance, PTL

(* No step changes what an existing handler decides: the configuring calls *)
(* reach the first provider only, and so do the interceptors.              *)
THEOREM HandlersKeepTheirAccess == Spec => HandlersFrozen
<1>1. ASSUME IInv, Next, NEW g \in guards, g.kind = "http"
      PROVE  /\ objs'[g.ref].tree = objs[g.ref].tree
             /\ objs'[g.ref].mapper = objs[g.ref].mapper
             /\ objs[g.ref].mapper # NoMapper
  <2>1. g.ref \in 1..Len(objs) /\ g.ref # 1 /\ objs[g.ref].mapper # NoMapper
    BY <1>1 DEF IInv, GuardsOK
  <2>2. ASSUME NEW call, NEW node, Configure(call, node) PROVE objs'[g.ref] = objs[g.ref]
    BY <1>1, <2>1, <2>2, LenProperties DEF Configure, IInv
  <2>3. ASSUME NEW m, SetRoleMapper(m) \/ SetGRPCRoleMapper(m) PROVE objs'[g.ref] = objs[g.ref]
    BY <1>1, <2>1, <2>3, LenProperties DEF SetRoleMapper, SetGRPCRoleMapper, IInv
  <2>4. ASSUME NewHandler PROVE objs'[g.ref] = objs[g.ref]
    BY <1>1, <2>1, <2>4, First, AppendProperties DEF NewHandler, Clone, IInv
  <2>5. ASSUME NEW h \in guards, NEW c, NEW p, Intercept(h, c, p) PROVE objs'[g.ref] = objs[g.ref]
    <3>1. h.ref = 1
      BY <1>1, <2>5 DEF Intercept, IInv, GuardsOK
    <3> QED
      BY <1>1, <2>1, <2>5, <3>1, LenProperties DEF Intercept, IInv
  <2>6. objs'[g.ref] = objs[g.ref]
    BY <1>1, <2>2, <2>3, <2>4, <2>5
       DEF Next, AllowAny, AllowAnyRole, Allow, NewUnaryInterceptor, ServeHTTP
  <2> QED
    BY <2>1, <2>6
<1>2. IInv /\ [Next]_vars =>
        [\A g \in guards, c \in Callers, p \in Paths : g.kind = "http" =>
            /\ objs[g.ref].mapper # NoMapper
            /\ objs'[g.ref].mapper # NoMapper
            /\ isAllowed(objs[g.ref].tree, p, roleOf(objs[g.ref].mapper, c))
                 <=> isAllowed(objs'[g.ref].tree, p, roleOf(objs'[g.ref].mapper, c))]_vars
  BY <1>1, Zenon
<1> QED
  BY <1>2, Invariance, PTL DEF Spec, HandlersFrozen
=============================================================================
