-------------------------- MODULE CapabilityEngine --------------------------
(***************************************************************************)
(* The capability engine of packages/permissions: capabilities with a      *)
(* window of time and a set of operations, delegated from one principal to *)
(* another, revoked, and evaluated for requests.                           *)
(*                                                                         *)
(* The other dimensions of a capability (purposes, graph types, entities,  *)
(* resource prefixes, sensitivity, conditions) are restricted and checked  *)
(* the way operations are, each by a check of its own, and are left out:   *)
(* nothing here says how a list of resource prefixes compares with         *)
(* another.  So is the workspace, which a delegated capability shares with *)
(* its parent.                                                             *)
(***************************************************************************)
EXTENDS Naturals, FiniteSets, SequencesExt, OpaqueIds

CONSTANTS
  Capabilities,    \* numbers
  Principals,
  Operations,
  NoParent,
  Offers,          \* the capabilities to try to register, see Capability
  MaxTime,         \* bound: the instants 0 .. MaxTime
  MaxDepth,        \* bound: the delegation depths a capability may state
  RevocationTimes, \* bound: the instants revocations may name
  MaxRoots         \* bound: the capabilities that are not delegated

VARIABLES
  capabilities,    \* the registered capabilities, by identifier
  revocations      \* the instants of the revocations, by identifier

grants == <<capabilities, revocations>>

Instants == 0..MaxTime

\* What defineCapability lets through.  The issuer of a root is never read, so
\* its principal stands for it.
Capability ==
  {c \in [principal : Principals, issuer : Principals,
          operations : SUBSET Operations \ {{}},
          validFrom : Instants, expiresAt : Instants,
          canDelegate : BOOLEAN, parent : Capabilities \cup {NoParent},
          depth : 0..MaxDepth, maxDepth : 0..MaxDepth] :
     /\ c.validFrom < c.expiresAt
     /\ c.depth <= c.maxDepth
     /\ c.parent = NoParent <=> c.depth = 0
     /\ c.parent = NoParent => c.issuer = c.principal}

OffersAssumption == Offers \subseteq Capability

-----------------------------------------------------------------------------
StrictlyNarrows(child, parent) ==
  \/ child.validFrom > parent.validFrom
  \/ child.expiresAt < parent.expiresAt
  \/ child.operations # parent.operations

\* Mutant: a delegation may outlive what it was delegated from.
StartsWithin(child, parent) == child.validFrom >= parent.validFrom

WithinWindow(child, parent) ==
  child.validFrom >= parent.validFrom /\ child.expiresAt <= parent.expiresAt

ValidDelegation(child) ==
  /\ child.parent \in DOMAIN capabilities
  /\ LET parent == capabilities[child.parent]
     IN /\ parent.canDelegate
        /\ child.issuer = parent.principal
        /\ parent.depth < parent.maxDepth
        /\ child.depth = parent.depth + 1
        /\ child.maxDepth <= parent.maxDepth
        /\ WithinWindow(child, parent)
        /\ child.operations \subseteq parent.operations
        /\ StrictlyNarrows(child, parent)

Register(id, c) ==
  /\ id \notin DOMAIN capabilities
  /\ IF c.parent # NoParent THEN ValidDelegation(c)
     ELSE Cardinality({r \in DOMAIN capabilities :
                         capabilities[r].parent = NoParent}) < MaxRoots
  /\ capabilities' = (id :> c) @@ capabilities
  /\ UNCHANGED revocations

Revoke(id, at) ==
  /\ id \in DOMAIN capabilities \ DOMAIN revocations
  /\ revocations' = (id :> at) @@ revocations
  /\ UNCHANGED capabilities

\* Whether a capability passes the evaluation of a request.
Passes(id, p, operation, at) ==
  LET c == capabilities[id]
  IN /\ c.principal = p
     /\ id \in DOMAIN revocations => at < revocations[id]
     /\ c.validFrom <= at /\ at < c.expiresAt
     /\ operation \in c.operations

Init == capabilities = <<>> /\ revocations = <<>>

Next ==
  \E id \in Offered(Capabilities, DOMAIN capabilities) :
    \/ \E c \in Offers : Register(id, c)
    \/ \E at \in RevocationTimes : Revoke(id, at)

Spec == Init /\ [][Next]_grants

-----------------------------------------------------------------------------
\* Capabilities and revocations are well formed, and a parent is registered.
TypeOK ==
  /\ \A id \in DOMAIN capabilities :
       /\ capabilities[id] \in Capability
       /\ capabilities[id].parent \in DOMAIN capabilities \cup {NoParent}
  /\ DOMAIN revocations \subseteq DOMAIN capabilities
  /\ \A id \in DOMAIN revocations : revocations[id] \in RevocationTimes

\* The capabilities a capability was delegated from.
Ancestors(id) ==
  LET Up(S) == {capabilities[i].parent : i \in S} \ {NoParent}
  IN UNION {FoldLeft(LAMBDA S, k : Up(S), {id}, [k \in 1..n |-> k]) :
              n \in 1..Cardinality(Capabilities)}

\* However long the chain of delegations: a request a capability grants lies
\* within the operations and the window of every capability it comes from,
\* the chain is no longer than its root allows, and every link was made by a
\* principal who held the capability above.
GrantsWithinRoots ==
  \A id \in DOMAIN capabilities :
    /\ id \notin Ancestors(id)
    /\ capabilities[id].depth = Cardinality(Ancestors(id))
    /\ \A a \in Ancestors(id) :
         /\ capabilities[a].canDelegate
         /\ capabilities[id].depth <= capabilities[a].maxDepth
         /\ \A p \in Principals, operation \in Operations, at \in Instants :
              Passes(id, p, operation, at) =>
                /\ operation \in capabilities[a].operations
                /\ capabilities[a].validFrom <= at /\ at < capabilities[a].expiresAt
=============================================================================
