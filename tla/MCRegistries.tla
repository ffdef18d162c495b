---------------------------- MODULE MCRegistries ----------------------------
(***************************************************************************)
(* The registries and engines that answer at once: a call of theirs is one *)
(* step.  They share no state and do not call each other, so a behaviour   *)
(* of this module exercises one of them, chosen at the start: what the run *)
(* covers is their state spaces side by side.                              *)
(***************************************************************************)
EXTENDS Integers, Sequences, FiniteSets, TLC

CONSTANTS
  Participants, Holders, READ, AMEND, MaxWork, MaxSpaces, MaxStamps,
  MaxRecords, MaxUpdates, MaxStored,
  MaxClaimTime, MaxChanges, MaxReceived, MaxVerifications, MaxOutcomes

VARIABLES
  subject,
  work, spaces, identity, capabilities, revocations,
  repository, clock, answers,
  packages, instances,
  records,
  policy, changes, received,
  evaluators, today, knowledge, writtenFor, offered, given,
  definitions, bindings, execution, policies,
  remembered, now, granted, seen, promised

grants == <<capabilities, revocations>>
memory == <<repository, clock, answers>>
limiter == <<remembered, now, granted, seen, promised>>
apps == <<packages, instances>>
sync == <<policy, changes, received>>
context == <<evaluators, today, knowledge, writtenFor, offered, given>>

-----------------------------------------------------------------------------
Work == INSTANCE WorkRegistry
  WITH Workspaces <- 1..2, Instances <- 1..2, Episodes <- {1}, Activities <- {1},
       Assignments <- 1..2, Outcomes <- {"o1"}, Principals <- Participants,
       Nobody <- "nobody", MaxOperations <- MaxWork

Spaces == INSTANCE WorkspaceRegistry
  WITH Workspaces <- 1..2, Principals <- 1..3, Accounts <- 1..2, Organizations <- 1..2,
       Memberships <- 1..3, MaxOperations <- MaxSpaces

Identity == INSTANCE IdentityRegistry
  WITH Entities <- 1..3, Aliases <- {"a1"}, NoProposal <- 0, Stamps <- 1..MaxStamps

(* A root, which no other capability delegates, and what claims to come from *)
(* another capability, rightly or not.                                       *)
CapabilityOf(principals, issuers, parents, depths) ==
  {c \in [principal : principals, issuer : issuers, operations : SUBSET {READ, AMEND} \ {{}},
          validFrom : 0..1, expiresAt : 1..2, canDelegate : BOOLEAN,
          parent : parents, depth : depths, maxDepth : 0..2] :
     c.validFrom < c.expiresAt /\ c.depth <= c.maxDepth}
CapabilityOffers ==
  UNION {CapabilityOf({h}, {h}, {0}, {0}) : h \in Holders}
    \cup CapabilityOf(Holders, Holders, 1..3, 1..2)

Grants == INSTANCE CapabilityEngine
  WITH Capabilities <- 1..3, Principals <- Holders, Operations <- {READ, AMEND},
       NoParent <- 0, Offers <- CapabilityOffers,
       MaxTime <- 2, MaxDepth <- 2, RevocationTimes <- {1}, MaxRoots <- 1

-----------------------------------------------------------------------------
(* One procedure; three lessons of its success and one of its failure when *)
(* it rained.  Who may see one record only may not see failures.           *)
Success == [id |-> 1, failureId |-> 1, validFrom |-> 0,
            procedure |-> "p1", episode |-> "e1", outcome |-> "succeeded",
            applicability |-> {[key |-> "rain", operator |-> "not-equals", value |-> "heavy"]},
            failure |-> {}, sensitivity |-> 1, trust |-> 80, raw |-> FALSE]
Failure == [Success EXCEPT !.id = 3, !.failureId = 4, !.outcome = "failed", !.trust = 55,
            !.failure = {[key |-> "rain", operator |-> "present", value |-> "none"]}]
Lessons ==
  {Success, [Success EXCEPT !.id = 2, !.validFrom = 1], [Success EXCEPT !.id = 5, !.sensitivity = 0],
   Failure, [Success EXCEPT !.id = 6, !.raw = TRUE]}
MemoryRequests ==
  {[episode |-> "none", categories |-> {"procedural", "failure"}, ceiling |-> 1,
    validAt |-> at, transactionAt |-> at, limit |-> limit] : at \in 0..1, limit \in {1, 9}}
ReadLevel(request, record) ==
  IF record.category = "failure" /\ request.limit = 1 THEN -1 ELSE record.trust
Relevance(request, record) == IF record.category = "failure" THEN 90 ELSE 10

Memory == INSTANCE GovernedMemory
  WITH Ids <- 1..6, Procedures <- {"p1"}, Episodes <- {"e1"}, Keys <- {"rain"},
       Values <- {"light", "heavy"}, Requests <- MemoryRequests, MaxTime <- 1

-----------------------------------------------------------------------------
(* Three versions of a package, the second with two contents. *)
Package(version, blueprint) ==
  [id |-> "garden", version |-> version, blueprintRef |-> blueprint, minInclusive |-> 1,
   maxExclusive |-> 9, compatibleFrom |-> 1..version - 1,
   migrations |-> IF version = 3 THEN {[id |-> "m1", from |-> 2, to |-> 3]} ELSE {}]
Packages == {Package(1, "b1"), Package(2, "b1"), Package(2, "b2"), Package(3, "b3"),
             [Package(3, "b2") EXCEPT !.minInclusive = 8]}

Installer == INSTANCE ApplicationInstaller
  WITH Instances <- {"i1", "i2"}, Names <- {"garden"}, Blueprints <- {"b1", "b2", "b3"},
       Migrations <- {"m1"}, PlatformVersion <- 2, MaxHistory <- MaxUpdates

-----------------------------------------------------------------------------
(* Two verified claims, and a provisional one of more authority, valid later. *)
Claims ==
  {[validFrom |-> 0, validTo |-> MaxClaimTime + 1, lifecycle |-> "verified", level |-> 1,
    confidence |-> 50, value |-> 1],
   [validFrom |-> 0, validTo |-> MaxClaimTime + 1, lifecycle |-> "verified", level |-> 1,
    confidence |-> 80, value |-> 2],
   [validFrom |-> 1, validTo |-> MaxClaimTime + 1, lifecycle |-> "provisional", level |-> 2,
    confidence |-> 50, value |-> 2]}

Projection == INSTANCE ClaimProjection
  WITH ClaimIds <- {1, 2}, TransitionIds <- {3, 4}, MaxTime <- MaxClaimTime

(* A value changes early, or late and on this device only. *)
KeyChanges ==
  {[key |-> "a", at |-> 0, policy |-> [locality |-> "cloud-allowed", expiresAt |-> 2]],
   [key |-> "a", at |-> 1, policy |-> [locality |-> "local-only", expiresAt |-> 2]]}

Sync == INSTANCE SyncEngine
  WITH Policies <- {"mergeable-map", "authoritative"}, Changes <- KeyChanges,
       operations <- changes, MaxOperations <- MaxChanges

(* Two episodes; what may be read in one may not be in the other, and who   *)
(* may write may not always read.                                          *)
Segment(id, scope, validFrom, until) ==
  [id |-> id, scope |-> scope, sensitive |-> FALSE, validFrom |-> validFrom, validTo |-> 3,
   until |-> until]
Segments ==
  {Segment(1, "e1", 0, 3), Segment(2, "e1", 1, 2), Segment(2, "e2", 0, 3),
   [Segment(3, "e1", 0, 3) EXCEPT !.sensitive = TRUE]}
ContextRequests ==
  {[scope |-> scope, validAt |-> validAt, transactionAt |-> transactionAt] :
     scope \in {"e1"}, validAt \in {1}, transactionAt \in 0..2}
DecisionOn(evaluator, request, id) ==
  CASE id = 1 -> "allowed"
    [] id = 2 /\ evaluator = "read" /\ request.transactionAt = 1 -> "throws"
    [] OTHER -> IF evaluator = "applicability" THEN "denied" ELSE "allowed"

Context == INSTANCE ContextGateway
  WITH Scopes <- {"e1", "e2"}, Drafts <- Segments, Candidates <- {Segment(1, "e1", 0, 2)},
       Requests <- ContextRequests, Decision <- DecisionOn, MaxTime <- 2, MaxOffered <- 1,
       Configurations <- {{"applicability", "read", "write"}, {"write"}},
       clock <- today, answers <- given

(* Two minor versions that add kinds, one that takes some away, and a major *)
(* one; the types change their order.                                      *)
NodeTypes == <<[id |-> 1, kinds |-> {"claim"}], [id |-> 2, kinds |-> {"event"}]>>
Definition(major, minor, nodeTypes, kinds) ==
  [major |-> major, minor |-> minor, nodeTypes |-> nodeTypes,
   edgeTypes |-> <<[id |-> 3, kinds |-> kinds]>>]
MCDefinitions ==
  {Definition(1, 0, NodeTypes, {"likes"}),
   Definition(1, 1, <<NodeTypes[2], [id |-> 1, kinds |-> {"claim", "event"}]>>, {"likes", "owns"}),
   Definition(1, 2, NodeTypes, {"owns"}), Definition(1, 2, <<NodeTypes[1]>>, {"likes", "owns"}),
   Definition(1, 3, NodeTypes \o <<[id |-> 4, kinds |-> {"relationship"}]>>, {"likes", "owns"}),
   Definition(2, 0, <<NodeTypes[2]>>, {"owns"})}

(* A cycle of three, a way out of it that ends, one recorded later, and the *)
(* way back.                                                               *)
Binding(id, from, to, validTo, recordedAt) ==
  [id |-> id, from |-> from, to |-> to, validFrom |-> 0, validTo |-> validTo,
   recordedAt |-> recordedAt]
MCBindings ==
  {Binding(1, 1, 2, 2, 0), Binding(2, 2, 3, 2, 0), Binding(3, 3, 1, 2, 0),
   Binding(4, 2, 4, 1, 0), Binding(5, 3, 4, 2, 1), Binding(6, 4, 1, 2, 0)}

Graph == INSTANCE GraphsAndBindings
  WITH Kinds <- {"claim", "event", "relationship", "likes", "owns"}, Definitions <- MCDefinitions,
       GraphRecords <- [kind : {"claim", "event", "relationship"},
                        relationship : {"likes", "owns"}, complete : BOOLEAN],
       MaxDefinitions <- 4,
       References <- 1..4, Bindings <- MCBindings, Depths <- 0..3, Instants <- 0..1

(* A semantic and an external effect; one piece of evidence. *)
Evidence == {"photo"}
Good == [verifier |-> "verifier", status |-> "VERIFIED", claimsIndependent |-> TRUE,
         evidence |-> Evidence, attempt |-> 1, amount |-> 1, ownCurrency |-> TRUE,
         stopConditionMet |-> TRUE]

(* A good verification, and those that deviate from it in a point. *)
Verifications ==
  {Good, [Good EXCEPT !.verifier = "provider"],
   [Good EXCEPT !.evidence = {}, !.claimsIndependent = FALSE]}
VerificationContracts ==
  {[requiredEvidence |-> Evidence, independentVerifierRequired |-> TRUE,
    maximumCost |-> 1, maximumAttempts |-> 1]}

Governed == INSTANCE GovernedExecution
  WITH Effects <- {"semantic", "external"},
       Class <- [semantic |-> "SEMANTIC", external |-> "EXTERNAL"],
       Contracts <- VerificationContracts, Parties <- {"provider", "verifier"}

(* An advisory model, an executive when approved, and one who is distrusted. *)
Policy(id, principal, level, conditions, to) ==
  [id |-> id, principals |-> {principal}, predicates |-> {"launch"}, purposes |-> {"govern"},
   conditions |-> conditions, level |-> level, from |-> 0, to |-> to]
MCPolicies ==
  {Policy(1, "model", 10, {}, 2), Policy(2, "model", 5, {}, 1), Policy(3, "board", 90, {"approved"}, 2),
   Policy(4, "board", -5, {}, 2), Policy(4, "rival", 10, {}, 1), Policy(5, "model", 20, {"approved"}, 2)}

Authority == INSTANCE AuthorityEngine
  WITH Policies <- MCPolicies,
       Candidates <- {[id |-> 1, principal |-> "model", confidence |-> 9],
                      [id |-> 2, principal |-> "board", confidence |-> 7],
                      [id |-> 3, principal |-> "rival", confidence |-> 9]},
       Requests <- [predicate : {"launch"}, purpose : {"govern", "tell"},
                    context : SUBSET {"approved"}, at : 0..1]

(* One caller more than the limiter remembers. *)
Limiter == INSTANCE RateLimiter
  WITH Callers <- 1..3, MaximumRequests <- 2, WindowLength <- 2, MaximumKeys <- 2,
       MaxSeconds <- 5, MaxGrants <- 5

ASSUME Limiter!LimitsAssumption
ASSUME Governed!ClassAssumption /\ Governed!InputsAssumption
ASSUME Authority!PoliciesAssumption
ASSUME Context!InputsAssumption
ASSUME Graph!DefinitionsAssumption /\ Graph!BindingsAssumption
ASSUME Grants!OffersAssumption
ASSUME Memory!InputsAssumption
ASSUME Installer!PackagesAssumption
ASSUME Projection!IdsAssumption
ASSUME Sync!ChangesAssumption /\ Sync!PoliciesAssumption

-----------------------------------------------------------------------------
Init ==
  /\ subject \in {"work", "spaces", "identity", "grants", "memory", "apps",
                  "projection", "sync", "context",
                  "graph", "bindings", "effects", "authority", "limiter"}
  /\ Work!Init /\ Spaces!Init /\ Identity!Init /\ Grants!Init
  /\ Memory!Init /\ Installer!Init /\ Projection!Init
  /\ IF subject = "sync" THEN Sync!Init
     ELSE policy = "mergeable-map" /\ changes = <<>> /\ received = [d \in Sync!Devices |-> <<>>]
  /\ IF subject = "context" THEN Context!Init ELSE Context!InitWith({})
  /\ Graph!Init /\ Governed!Init /\ Authority!Init /\ Limiter!Init

Next ==
  /\ UNCHANGED subject
  /\ \/ /\ subject = "work" /\ Work!Next
        /\ UNCHANGED <<spaces, identity, grants, memory, apps, records, sync, context,
                      definitions, bindings, execution, policies, limiter>>
     \/ /\ subject = "spaces" /\ Spaces!Next
        /\ UNCHANGED <<work, identity, grants, memory, apps, records, sync, context,
                      definitions, bindings, execution, policies, limiter>>
     \/ /\ subject = "identity" /\ Identity!Next
        /\ UNCHANGED <<work, spaces, grants, memory, apps, records, sync, context, definitions,
                      bindings, execution, policies, limiter>>
     \/ /\ subject = "grants" /\ Grants!Next
        /\ UNCHANGED <<work, spaces, identity, memory, apps, records, sync, context,
                      definitions, bindings, execution, policies, limiter>>
     \/ /\ subject = "memory" /\ Memory!Next
        /\ UNCHANGED <<work, spaces, identity, grants, apps, records, sync, context,
                      definitions, bindings, execution, policies, limiter>>
     \/ /\ subject = "apps" /\ Installer!Next
        /\ UNCHANGED <<work, spaces, identity, grants, memory, records, sync, context,
                      definitions, bindings, execution, policies, limiter>>
     \/ /\ subject = "projection" /\ Projection!Next
        /\ UNCHANGED <<work, spaces, identity, grants, memory, apps, sync, context,
                      definitions, bindings, execution, policies, limiter>>
     \/ /\ subject = "sync" /\ Sync!Next
        /\ UNCHANGED <<work, spaces, identity, grants, memory, apps, records, context,
                      definitions, bindings, execution, policies, limiter>>
     \/ /\ subject = "context" /\ Context!Next
        /\ UNCHANGED <<work, spaces, identity, grants, memory, apps, records, sync,
                      definitions, bindings, execution, policies, limiter>>
     \/ /\ \/ subject = "graph" /\ Graph!NextDefinition
           \/ subject = "bindings" /\ Graph!NextBinding
        /\ UNCHANGED <<work, spaces, identity, grants, memory, apps, records, sync, context,
                      execution, policies, limiter>>
     \/ /\ subject = "effects" /\ Governed!Next
        /\ UNCHANGED <<work, spaces, identity, grants, memory, apps, records, sync, context,
                      definitions, bindings, policies, limiter>>
     \/ /\ subject = "authority" /\ Authority!Next
        /\ UNCHANGED <<work, spaces, identity, grants, memory, apps, records, sync, context,
                      definitions, bindings, execution, limiter>>
     \/ /\ subject = "limiter" /\ Limiter!Next
        /\ UNCHANGED <<work, spaces, identity, grants, memory, apps, records, sync, context,
                      definitions, bindings, execution, policies>>

Spec ==
  Init /\ [][Next]_<<subject, work, spaces, identity, grants, memory, apps, records, sync,
                     context, definitions, bindings, execution, policies, limiter>>

-----------------------------------------------------------------------------
\* The history of a registry rebuilds it, and a replay of the claims knows
\* what was known (WorkRegistry, WorkspaceRegistry, IdentityRegistry,
\* ClaimProjection; see each for what exactly is rebuilt).
ReplayRebuilds ==
  /\ Work!ReplayRebuilds /\ Spaces!ReplayRebuilds /\ Identity!ReplayAgrees
  /\ Projection!ReplayProjects

\* Assignments are chains of hand-offs, and the status of an activity is the
\* status of one of its assignments (WorkRegistry).
WorkIsAccountedFor == Work!AssignmentsChain /\ Work!ActivityStatusJustified

\* Access to a workspace was given by somebody who had it, a delegated
\* capability grants nothing its ancestors do not, and no policy takes away
\* authority that another gave (WorkspaceRegistry, CapabilityEngine,
\* AuthorityEngine).
AuthorityIsGiven ==
  /\ Spaces!AccessIsGiven /\ Grants!GrantsWithinRoots
  /\ subject = "authority" => Authority!AuthorityAccumulates

\* A commit is earned by what was recorded and verified (GovernedExecution).
CommitsAreEarned == Governed!CommitsAreEarned

\* No sequence of calls leads where there is no way on: merges and splits make
\* no cycle, so that every resolution ends (IdentityRegistry), and every
\* instance can be taken back through its history (ApplicationInstaller).
NoDeadEnd == Identity!ResolutionEnds /\ Installer!RollbackPossible

\* What was retrieved or reconstructed as of a past instant is found again, a
\* known failure outweighs any number of successes, and what was written for
\* an episode is in its context (GovernedMemory, ContextGateway).
MemoryIsFaithful ==
  /\ subject = "memory" => Memory!AsOfIsRepeatable /\ Memory!FailureOutweighs
  /\ Context!AsOfIsRepeatable /\ Context!WrittenIsReconstructed

\* No window grants more than its limit, and who waits as told is let in
\* (RateLimiter).
RatesAreKept == Limiter!RateKept /\ Limiter!RetryIsGranted

\* Devices with the same operations have the same state (SyncEngine).
Converges == Sync!Converges

\* A graph keeps its nodes and edges within a major version, bindings are
\* followed along every path one may see and both ways (GraphsAndBindings).
GraphsAreFollowed ==
  /\ Graph!RebuildKeeps
  /\ subject = "bindings" => Graph!TraversalUnfolds /\ Graph!ThereAndBack

Symmetric == Permutations(Participants) \cup Permutations(Holders) \cup Permutations({READ, AMEND})
=============================================================================
