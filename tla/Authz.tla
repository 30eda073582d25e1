-------------------------------- MODULE Authz --------------------------------
(***************************************************************************)
(* Authorization by path and role (xhttp/authz/authz.go).  A Provider is a *)
(* tree of path segments; Allow, AllowAny and AllowAnyRole mark a node and *)
(* create the nodes above it; the deepest node a request's path matches    *)
(* decides.  NewHandler takes a copy of the provider, an interceptor of    *)
(* NewUnaryInterceptor keeps a pointer to it.                              *)
(*                                                                         *)
(* A tree is a function on the paths that have a node; a path is the       *)
(* sequence of its segments, so "/" is <<>> and "/a/" is "/a".  objs is    *)
(* the heap of providers: the first is the one being configured, the       *)
(* others are the handlers' copies.  The lists of a Config are applied by  *)
(* New with the calls below, in one of the orders the model allows.        *)
(* Logging is left out.                                                    *)
(***************************************************************************)
EXTENDS Naturals, Sequences, SequencesExt, FiniteSets, FiniteSetsExt

CONSTANTS
    Paths,       \* paths that are configured and requested
    Roles,       \* roles other than the two below
    Guest,       \* identity.GuestRoleName
    NoRole,      \* the empty role
    Callers,     \* who sends a request
    Mappers,     \* role mappers: functions from callers to roles
    NoMapper,    \* a nil role mapper
    MaxCalls,    \* bound: calls that configure paths
    MaxHandlers  \* bound: handlers made

AnyRoleName == Roles \cup {Guest, NoRole}

ASSUME RoleAssumption == Guest \notin Roles /\ NoRole \notin Roles /\ Guest # NoRole
ASSUME PathAssumption ==
    /\ IsFiniteSet(Paths)
    /\ Paths \subseteq Seq(UNION {Range(p) : p \in Paths})
    /\ \A p \in Paths : Prefixes(p) \subseteq Paths
ASSUME MapperAssumption == Mappers \subseteq [Callers -> AnyRoleName] /\ NoMapper \notin Mappers
ASSUME BoundAssumption == MaxCalls \in Nat /\ MaxHandlers \in Nat

VARIABLES
    objs,    \* the heap of providers, objs[1] is the one New returned
    guards,  \* what protects the server: [kind, ref to a provider]
    answer   \* what the last request got

vars == <<objs, guards, answer>>

(* A pathNode without its children: newPathNode.                           *)
newPathNode == [any |-> FALSE, anyRole |-> FALSE, roles |-> {}]

Calls == [op : {"AllowAny", "AllowAnyRole"}, path : Paths, role : {NoRole}]
    \cup [op : {"Allow"}, path : Paths, role : AnyRoleName]

Node == [any : BOOLEAN, anyRole : BOOLEAN, roles : SUBSET AnyRoleName]

(* New(&Config{}).                                                         *)
Init ==
    /\ \E m \in Mappers :   \* pathRoot is nil; calls remembers what configures the tree
         objs = << [tree |-> [p \in {} |-> newPathNode], mapper |-> m,
                    grpcMapper |-> m, calls |-> {}] >>
    /\ guards = {}
    /\ answer = "none"

-----------------------------------------------------------------------------
(* walkPath with create: the node of the path and all above it exist.      *)
walkPath(tree, path) ==
    [q \in DOMAIN tree \cup Prefixes(path) |->
        IF q \in DOMAIN tree THEN tree[q] ELSE newPathNode]

(* walkPath without create: the root exists, the deepest match is found.   *)
rootCreated(tree) == walkPath(tree, <<>>)

deepest(tree, path) ==
    CHOOSE q \in DOMAIN tree \cap Prefixes(path) :
        \A r \in DOMAIN tree \cap Prefixes(path) : Len(r) <= Len(q)

allowRole(node, role) ==
    /\ role \notin {NoRole, Guest}
    /\ node.anyRole \/ role \in node.roles

isAllowed(tree, path, role) ==
    LET node == rootCreated(tree)[deepest(rootCreated(tree), path)]
    IN node.any \/ allowRole(node, role)

(* The role a request is checked with: an empty one is the guest's.        *)
roleOf(mapper, caller) == IF mapper[caller] = NoRole THEN Guest ELSE mapper[caller]

-----------------------------------------------------------------------------
(* The node a configuring call marks: walkPath makes it if need be.        *)
target(path) == walkPath(objs[1].tree, path)[path]

(* The calls that configure the provider; they mark the node of the path.  *)
Configure(call, node) ==
    /\ Cardinality(objs[1].calls) < MaxCalls
    /\ objs' = [objs EXCEPT ![1].tree = [walkPath(@, call.path) EXCEPT ![call.path] = node],
                            ![1].calls = @ \cup {call}]
    /\ UNCHANGED <<guards, answer>>

AllowAny(path) ==
    Configure([op |-> "AllowAny", path |-> path, role |-> NoRole],
              [target(path) EXCEPT !.any = TRUE, !.anyRole = FALSE])

AllowAnyRole(path) ==
    Configure([op |-> "AllowAnyRole", path |-> path, role |-> NoRole],
              [target(path) EXCEPT !.anyRole = TRUE])

Allow_Replace(path, role) ==
    Configure([op |-> "Allow", path |-> path, role |-> role],
              [target(path) EXCEPT !.roles = {role}])

(* Allow of several roles is as many calls.                                *)
Allow(path, role) ==
    Configure([op |-> "Allow", path |-> path, role |-> role],
              [target(path) EXCEPT !.roles = @ \cup ({role} \ {NoRole})])

SetRoleMapper(m) ==
    /\ objs' = [objs EXCEPT ![1].mapper = m]
    /\ UNCHANGED <<guards, answer>>

SetGRPCRoleMapper(m) ==
    /\ objs' = [objs EXCEPT ![1].grpcMapper = m]
    /\ UNCHANGED <<guards, answer>>

(* Clone: a deep copy of the provider, another object.                     *)
Clone == Append(objs, objs[1])

(* NewHandler: refused without a role mapper or a path; else the handler   *)
(* works on a clone.                                                       *)
NewHandler_NoClone ==
    /\ objs[1].mapper # NoMapper
    /\ DOMAIN objs[1].tree # {}
    /\ guards' = guards \cup {[kind |-> "http", ref |-> 1]}
    /\ UNCHANGED <<objs, answer>>

NewHandler ==
    /\ Len(objs) <= MaxHandlers
    /\ objs[1].mapper # NoMapper
    /\ DOMAIN objs[1].tree # {}
    /\ objs' = Clone
    /\ guards' = guards \cup {[kind |-> "http", ref |-> Len(objs) + 1]}
    /\ UNCHANGED answer

(* NewUnaryInterceptor: the closure keeps the provider itself.             *)
NewUnaryInterceptor ==
    /\ guards' = guards \cup {[kind |-> "grpc", ref |-> 1]}
    /\ UNCHANGED <<objs, answer>>

-----------------------------------------------------------------------------
(* ServeHTTP: OPTIONS goes through, the rest as checkAccess says.          *)
ServeHTTP(g, caller, path, options) ==
    /\ g.kind = "http"
    /\ LET p == objs[g.ref]
       IN answer' = IF options \/ isAllowed(p.tree, path, roleOf(p.mapper, caller))
                      THEN "delegated" ELSE "denied"
    /\ UNCHANGED <<objs, guards>>

(* A call through an interceptor; walkPath makes the root if there is      *)
(* none.  A nil mapper panics, which is not modelled.                      *)
Intercept(g, caller, path) ==
    /\ g.kind = "grpc"
    /\ objs[g.ref].grpcMapper # NoMapper
    /\ LET p == objs[g.ref]
       IN answer' = IF isAllowed(p.tree, path, roleOf(p.grpcMapper, caller))
                      THEN "delegated" ELSE "denied"
    /\ objs' = [objs EXCEPT ![g.ref].tree = rootCreated(@)]
    /\ UNCHANGED guards

-----------------------------------------------------------------------------
Next ==
    \/ \E p \in Paths : AllowAny(p) \/ AllowAnyRole(p) \/ \E r \in AnyRoleName : Allow(p, r)
    \/ \E m \in Mappers \cup {NoMapper} : SetRoleMapper(m) \/ SetGRPCRoleMapper(m)
    \/ NewHandler \/ NewUnaryInterceptor
    \/ \E g \in guards, c \in Callers, p \in Paths :
         Intercept(g, c, p) \/ \E o \in BOOLEAN : ServeHTTP(g, c, p, o)

Spec == Init /\ [][Next]_vars

-----------------------------------------------------------------------------
(* Type invariant of the heap of providers and of what points into it; a   *)
(* tree is a tree: every node but the root hangs below another.            *)
TypeOK ==
    /\ \A i \in DOMAIN objs :
         /\ \A q \in DOMAIN objs[i].tree :
              /\ q \in Paths
              /\ objs[i].tree[q] \in Node
              /\ q = <<>> \/ Front(q) \in DOMAIN objs[i].tree
         /\ {objs[i].mapper, objs[i].grpcMapper} \subseteq Mappers \cup {NoMapper}
         /\ objs[i].calls \subseteq Calls
    /\ guards \subseteq [kind : {"http", "grpc"}, ref : DOMAIN objs]
    /\ answer \in {"none", "delegated", "denied"}

(* Whether a set of calls grants a node to a role.                         *)
Grants(calls, node, role) ==
    \/ \E c \in calls : c.path = node /\ c.op = "AllowAny"
    \/ /\ role \notin {NoRole, Guest}
       /\ \E c \in calls : /\ c.path = node
                           /\ c.op = "AllowAnyRole" \/ (c.op = "Allow" /\ c.role = role)

(* "Access is based on the deepest matching path, not the accumulated      *)
(* paths", "AllowAny, allowAnyRole always overrides any matching Allow     *)
(* regardless of the order of calls", "multiple calls to Allow for the     *)
(* same resource are cumulative" (authz.go:10-19): what a provider decides *)
(* depends on the set of calls made, not on their order, and is what the   *)
(* calls for the deepest part of the path that any call went through say.  *)
(* That part may be an inner node which no call names and which therefore  *)
(* lets nobody in, see AccessAsDocumented.                                 *)
DecidedByCalls ==
    \A i \in DOMAIN objs, path \in Paths, role \in AnyRoleName :
        LET met == {q \in Prefixes(path) : q = <<>> \/ \E c \in objs[i].calls : IsPrefix(q, c.path)}
            node == CHOOSE q \in met : \A r \in met : Len(r) <= Len(q)
        IN isAllowed(objs[i].tree, path, role) <=> Grants(objs[i].calls, node, role)

(* "Allow will allow the specified roles access to this path and its       *)
(* children [unless a specific Allow/AllowAny is called for a child path]" *)
(* (authz.go:329): the calls for the deepest part of the path that a call  *)
(* was made for decide.  The code does not do this: Allow("/a/b") makes an *)
(* empty node for "/a", which shuts out what Allow("/") let in there.      *)
AccessAsDocumented ==
    \A i \in DOMAIN objs, path \in Paths, role \in AnyRoleName :
        LET named == {q \in Prefixes(path) : q = <<>> \/ \E c \in objs[i].calls : q = c.path}
            node == CHOOSE q \in named : \A r \in named : Len(r) <= Len(q)
        IN isAllowed(objs[i].tree, path, role) <=> Grants(objs[i].calls, node, role)

(* "changes to the Provider after calling NewHandler won't affect          *)
(* previously created Handlers" (authz.go:69): no step changes what an     *)
(* existing handler decides, for any caller and path.                      *)
HandlersFrozen ==
    [][\A g \in guards, c \in Callers, p \in Paths : g.kind = "http" =>
          /\ objs[g.ref].mapper # NoMapper
          /\ objs'[g.ref].mapper # NoMapper
          /\ isAllowed(objs[g.ref].tree, p, roleOf(objs[g.ref].mapper, c))
               <=> isAllowed(objs'[g.ref].tree, p, roleOf(objs'[g.ref].mapper, c))]_vars
=============================================================================
