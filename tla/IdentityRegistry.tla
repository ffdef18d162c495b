-------------------------- MODULE IdentityRegistry --------------------------
(***************************************************************************)
(* The identity registry of packages/identity: entities with aliases,      *)
(* proposed matches, merges of one entity into another and the splits that *)
(* undo them.                                                              *)
(*                                                                         *)
(* Unlike the registries of work and workspaces, this one is given whole   *)
(* operations by its caller, with the identifier and the transaction time  *)
(* the caller chose, and sorts its history by that time and, between equal *)
(* times, by the identifier: the stamp of an operation is its place in     *)
(* that order, a number of its own, and operations may be applied in any   *)
(* order of their stamps.  The stamp also stands for the identifier.       *)
(* Provenance, authority, scores and rationales are left out; the merge    *)
(* history of an entity is the merges and splits among the operations.     *)
(***************************************************************************)
EXTENDS Naturals, FiniteSets, SequencesExt, OpaqueIds

CONSTANTS
  Entities,        \* numbers
  Aliases,
  NoProposal,      \* a merge that confirms no proposal
  Stamps           \* bound: numbers, the places operations can take

VARIABLE identity

New == [entities |-> {}, aliases |-> {}, proposals |-> {}, confirmed |-> {},
        mergedInto |-> <<>>, operations |-> <<>>]

-----------------------------------------------------------------------------
\* The entity an entity resolves to: follow mergedInto until it ends.  The
\* walk of the code throws when it meets an entity twice; as many steps as
\* there are entities are enough to end or to meet one.
Canonical(reg, e) ==
  FoldLeft(LAMBDA at, step : IF at \in DOMAIN reg.mergedInto
                             THEN reg.mergedInto[at] ELSE at,
           e, [k \in 1..Cardinality(Entities) |-> k])

CycleAt(reg, e) == Canonical(reg, e) \in DOMAIN reg.mergedInto

\* Mutant: two different entities may be merged, whatever they resolve to.
AcceptsMergeOfTwo(reg, op) ==
  /\ {op.canonical, op.merged} \subseteq reg.entities
  /\ op.canonical # op.merged
  /\ op.proposal \in reg.proposals \cup {NoProposal}

AcceptsMerge(reg, op) ==
  /\ {op.canonical, op.merged} \subseteq reg.entities
  /\ ~CycleAt(reg, op.canonical) /\ ~CycleAt(reg, op.merged)
  /\ Canonical(reg, op.canonical) # Canonical(reg, op.merged)
  /\ op.proposal \in reg.proposals \cup {NoProposal}

Accepts(reg, op) ==
  /\ \A k \in DOMAIN reg.operations : reg.operations[k].stamp # op.stamp
  /\ CASE op.kind = "entity.created" -> op.entity \notin reg.entities
       [] op.kind = "alias.added" -> op.entity \in reg.entities
       [] op.kind = "match.proposed" -> {op.left, op.right} \subseteq reg.entities
       [] op.kind = "entities.merged" -> AcceptsMerge(reg, op)
       [] op.kind = "entity.split" -> op.entity \in reg.entities \cap DOMAIN reg.mergedInto

\* A merge overwrites an earlier one of the same entity.
ApplyMerge(reg, op) ==
  [reg EXCEPT !.mergedInto = (op.merged :> op.canonical) @@ @,
              !.confirmed = @ \cup ({op.proposal} \ {NoProposal})]

ApplySplit(reg, op) ==
  [reg EXCEPT !.mergedInto = Restrict(@, DOMAIN @ \ {op.entity})]

Apply(reg, op) ==
  LET changed ==
        CASE op.kind = "entity.created" -> [reg EXCEPT !.entities = @ \cup {op.entity}]
          [] op.kind = "alias.added" ->
               [reg EXCEPT !.aliases = @ \cup {<<op.alias, op.entity>>}]
          [] op.kind = "match.proposed" -> [reg EXCEPT !.proposals = @ \cup {op.stamp}]
          [] op.kind = "entities.merged" -> ApplyMerge(reg, op)
          [] op.kind = "entity.split" -> ApplySplit(reg, op)
  IN [changed EXCEPT !.operations = Append(@, op)]

-----------------------------------------------------------------------------
(* History and replay. *)

Precedes(a, b) == a.stamp < b.stamp

History(reg) == SortSeq(reg.operations, Precedes)

Refused == [New EXCEPT !.operations = <<[kind |-> "refused"]>>]

\* The registry replay builds from a history; Refused when it throws.
Replay(history) ==
  FoldLeft(LAMBDA reg, op : IF reg # Refused /\ Accepts(reg, op)
                            THEN Apply(reg, op) ELSE Refused,
           New, history)

-----------------------------------------------------------------------------
(* The calls: apply, with an operation of each kind. *)

Submit(op) == Accepts(identity, op) /\ identity' = Apply(identity, op)

CreateEntity(e, t) ==
  Submit([kind |-> "entity.created", stamp |-> t, entity |-> e])

AddAlias(e, alias, t) ==
  Submit([kind |-> "alias.added", stamp |-> t, entity |-> e, alias |-> alias])

ProposeMatch(l, r, t) ==
  Submit([kind |-> "match.proposed", stamp |-> t, left |-> l, right |-> r])

MergeEntities(c, m, p, t) ==
  Submit([kind |-> "entities.merged", stamp |-> t, canonical |-> c, merged |-> m,
          proposal |-> p])

SplitEntity(e, t) ==
  Submit([kind |-> "entity.split", stamp |-> t, entity |-> e])

Init == identity = New

Next ==
  \E t \in Stamps, e \in Offered(Entities, identity.entities) :
    \/ CreateEntity(e, t)
    \/ \E alias \in Aliases : AddAlias(e, alias, t)
    \/ \E f \in identity.entities :
         \/ ProposeMatch(e, f, t)
         \/ \E p \in identity.proposals \cup {NoProposal} : MergeEntities(e, f, p, t)
    \/ SplitEntity(e, t)

Spec == Init /\ [][Next]_identity

-----------------------------------------------------------------------------
\* Merges, aliases and confirmations are about entities and proposals that
\* exist.
TypeOK ==
  /\ DOMAIN identity.mergedInto \subseteq identity.entities
  /\ \A e \in DOMAIN identity.mergedInto : identity.mergedInto[e] \in identity.entities
  /\ identity.confirmed \subseteq identity.proposals
  /\ identity.aliases \subseteq Aliases \X identity.entities

\* Whatever is merged, overwritten and split, in whatever order: resolution
\* ends, so resolveAlias never throws "identity merge cycle detected".
ResolutionEnds == \A e \in identity.entities : ~CycleAt(identity, e)

\* When the operations were applied in the order of their times and
\* identifiers, replay accepts the history and rebuilds the registry.  When
\* they were not, replay may refuse it or resolve entities otherwise, but a
\* history it accepts never yields other entities, aliases, proposals or
\* confirmations.
ReplayAgrees ==
  LET ops == identity.operations
      inOrder == \A k \in 2..Len(ops) : Precedes(ops[k-1], ops[k])
      replayed == Replay(History(identity))
  IN /\ inOrder => replayed = identity
     /\ replayed # Refused =>
          [replayed EXCEPT !.mergedInto = <<>>, !.operations = <<>>]
            = [identity EXCEPT !.mergedInto = <<>>, !.operations = <<>>]
=============================================================================
