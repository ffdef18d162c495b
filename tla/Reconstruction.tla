---------------------------- MODULE Reconstruction ----------------------------
(***************************************************************************)
(* The reconstruction of what a principal needs to know for a request      *)
(* (packages/reconstruction) over the fused retrieval of the records       *)
(* (packages/search): plan, check the permission, ask all the retrieval    *)
(* providers of the modalities at once, fuse and cut what they return,     *)
(* drop what the principal may not see, and assemble the rest.             *)
(*                                                                         *)
(* Planning, every provider and assembling are awaited.  Meanwhile the     *)
(* permission and the visibility of records change, and providers are      *)
(* registered.  A provider returns its best records, at most as many as    *)
(* it is asked for, or fails; scores and weights are small integers.       *)
(***************************************************************************)
EXTENDS Integers, FiniteSets, FiniteSetsExt

CONSTANTS
  Records,     \* identifiers, in their order
  Providers,
  ModalityOf,  \* [Providers -> modalities]
  Tables,      \* what the providers know: [Providers -> [Records -> score]]
  Requests,    \* [limit, weights]: the weight of each modality asked for
  MaxChanges   \* bound on the changes of permission and visibility

VARIABLES
  scores,      \* what the providers know
  registered,
  permitted,   \* may the principal reconstruct?
  visible,     \* the records the principal may see
  phase,
  request,
  asked,       \* the providers asked
  replies,     \* [provider -> the records it returned], of those that answered
  recordIds,   \* what is assembled
  present,     \* the providers registered when the request was made
  changes,
  moved        \* what changed meanwhile: records, and Permission

reconstruction ==
  <<scores, registered, permitted, visible, phase, request, asked, replies, recordIds,
    present, changes, moved>>
rights == <<permitted, visible, changes, moved>>
world == <<scores, registered, rights>>

Permission == 0
NoRequest == [limit |-> 1, weights |-> <<>>]

InputsAssumption ==
  /\ Records \subseteq Nat \ {Permission} /\ IsFiniteSet(Records)
  /\ Tables \subseteq [Providers -> [Records -> Nat]]
  /\ \A r \in Requests : r.limit \in Nat \ {0} /\ \A m \in DOMAIN r.weights : r.weights[m] \in Nat

Asked(r, among) == {p \in among : ModalityOf[p] \in DOMAIN r.weights}

\* The first of a set of records by a score, then by identifier.
Best(records, limit, score) ==
  {r \in records :
     Cardinality({s \in records : score[s] > score[r] \/ (score[s] = score[r] /\ s < r)}) < limit}

-----------------------------------------------------------------------------
(* Fusion. *)

\* Mutant: the average of the contributions.
FusedAverage(r) ==
  LET from == {p \in asked : r \in replies[p]}
  IN  (MapThenSumSet(LAMBDA p : request.weights[ModalityOf[p]] * scores[p][r], from)
                       * 6) \div Cardinality(from)

Fused(r) ==
  LET from == {p \in asked : r \in replies[p]}
  IN  MapThenSumSet(LAMBDA p : request.weights[ModalityOf[p]] * scores[p][r], from)

Candidates ==
  LET found == UNION {replies[p] : p \in asked}
  IN  Best(found, request.limit, [r \in found |-> Fused(r)])

-----------------------------------------------------------------------------
(* A reconstruction. *)

Plan(r) ==
  /\ phase = "idle"
  /\ phase' = "planning" /\ request' = r /\ present' = registered
  /\ UNCHANGED <<world, asked, replies, recordIds>>

\* The permission is checked once, before anything is retrieved.
Authorize ==
  /\ phase = "planning"
  /\ IF permitted
       THEN phase' = "retrieving" /\ asked' = Asked(request, registered)
       ELSE phase' = "rejected" /\ UNCHANGED asked
  /\ UNCHANGED <<world, request, replies, recordIds, present>>

Answer(p) ==
  LET known == {r \in Records : scores[p][r] > 0} IN
  /\ phase = "retrieving" /\ p \in asked \ DOMAIN replies
  /\ replies' = [q \in DOMAIN replies \cup {p} |->
                   IF q = p THEN Best(known, request.limit, scores[p]) ELSE replies[q]]
  /\ UNCHANGED <<world, phase, request, asked, recordIds, present>>

\* Mutant: a provider that fails has found nothing.
FailsSilently(p) ==
  /\ phase = "retrieving" /\ p \in asked \ DOMAIN replies
  /\ replies' = [q \in DOMAIN replies \cup {p} |-> IF q = p THEN {} ELSE replies[q]]
  /\ UNCHANGED <<world, phase, request, asked, recordIds, present>>

\* One provider that fails fails the retrieval.
Fails(p) ==
  /\ phase = "retrieving" /\ p \in asked \ DOMAIN replies
  /\ phase' = "rejected"
  /\ UNCHANGED <<world, request, asked, replies, recordIds, present>>

\* Mutant: every candidate is assembled.
FilterNothing ==
  /\ phase = "retrieving" /\ DOMAIN replies = asked
  /\ phase' = "assembling" /\ recordIds' = Candidates
  /\ UNCHANGED <<world, request, asked, replies, present>>

\* What may be seen is looked at after the cut, so hidden records take places.
Filter ==
  /\ phase = "retrieving" /\ DOMAIN replies = asked
  /\ phase' = "assembling" /\ recordIds' = Candidates \cap visible
  /\ UNCHANGED <<world, request, asked, replies, present>>

Assemble ==
  /\ phase = "assembling" /\ phase' = "done"
  /\ UNCHANGED <<world, request, asked, replies, recordIds, present>>

\* The intent is not resolved, or what was assembled is refused.
PortFails ==
  /\ phase \in {"planning", "assembling"} /\ phase' = "rejected"
  /\ UNCHANGED <<world, request, asked, replies, recordIds, present>>

-----------------------------------------------------------------------------
Register(p) ==
  /\ p \notin registered
  /\ registered' = registered \cup {p}
  /\ UNCHANGED <<scores, rights, phase, request, asked, replies, recordIds, present>>

\* Elsewhere, a permission or a record's visibility changes.
Change(what) ==
  /\ phase \notin {"done", "rejected"} /\ changes < MaxChanges
  /\ changes' = changes + 1
  /\ moved' = IF phase = "idle" THEN moved ELSE moved \cup {what}
  /\ IF what = Permission
       THEN permitted' = ~permitted /\ UNCHANGED visible
       ELSE UNCHANGED permitted /\ visible' = IF what \in visible THEN visible \ {what}
                                              ELSE visible \cup {what}
  /\ UNCHANGED <<scores, registered, phase, request, asked, replies, recordIds, present>>

InitWith(table) ==
  /\ scores = table /\ registered = {} /\ permitted = TRUE /\ visible = Records
  /\ phase = "idle" /\ request = NoRequest
  /\ asked = {} /\ replies = <<>> /\ recordIds = {} /\ present = {}
  /\ changes = 0 /\ moved = {}

Init == \E table \in Tables : InitWith(table)

Next ==
  \/ \E r \in Requests : Plan(r)
  \/ Authorize \/ Filter \/ Assemble \/ PortFails
  \/ \E p \in Providers : Register(p) \/ Answer(p) \/ Fails(p)
  \/ \E what \in Records \cup {Permission} : Change(what)

Spec == Init /\ [][Next]_reconstruction

-----------------------------------------------------------------------------
Outranks(r, s) == \A p \in Asked(request, Providers) : scores[p][r] > scores[p][s]

Known == {r \in Records : \E p \in Asked(request, present) : scores[p][r] > 0}

\* Whatever order the answers come in and whoever is registered meanwhile, a
\* workspace is for one who was permitted to have it, of records that may be
\* seen, as long as that does not change during the call; no record is passed
\* over for one that every modality finds worse, and when there are no more
\* than asked for, all that the providers there at the start know are in it
\* (ReconstructionEngine.reconstruct, RetrievalOrchestrator.retrieve).
WorkspaceIsJust ==
  phase = "done" =>
    /\ permitted \/ Permission \in moved
    /\ recordIds \subseteq visible \cup moved
    /\ \A r \in visible \ moved, s \in recordIds : Outranks(r, s) => r \in recordIds
    /\ Cardinality({r \in Records : \E p \in Providers : scores[p][r] > 0}) <= request.limit
         => Known \cap visible \subseteq recordIds \cup moved
=============================================================================
