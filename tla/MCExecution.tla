----------------------------- MODULE MCExecution -----------------------------
(***************************************************************************)
(* What waits while it works on somebody's behalf: the leased compute      *)
(* nodes, the hosted compute node, the provider gateway, connectors and    *)
(* the ingestion fabric, the personal runtime over its directory, the      *)
(* deletion of sources, the actions of agents, the selection of a harness, *)
(* verification and reconstruction, in calls that overlap and fail in      *)
(* their middle.  They share no state, so a behaviour of this module       *)
(* exercises one of them, chosen at the start.                             *)
(***************************************************************************)
EXTENDS Naturals, Sequences, FiniteSets

CONSTANTS
  MaxTime, MaxVersion, MaxExecutions,
  Machines, Leases, Capabilities, Workloads, ComputeKeys, ComputeRequests,
  Keys, Bodies, MaxSessions, MaxHeartbeats, MaxRuns,
  MaxRegistrations, MaxOperations,
  Providers, Contracts, Principals, GatewayKeys, Bindings, GatewayRequests,
  SourceKeys, Contents, MaxItems, MaxPolls, MaxFailures,
  Owners, Packages, Compatible, MaxSeeds, MaxOpens,
  MaxNodes, MaxDeletions,
  MaxActions

VARIABLES
  subject,
  nodes, leases, idempotency, workloads, calls,
  session, connects, heartbeats, runs, executions, published,
  toolContracts, providers, bindings, remembered, operations, events,
  source, cursor, delivered, receipts, objects, ledger, announced, polls, failures,
  manifest, ledgerFile, stateObjects, seeds, opened,
  derivedFrom, invalidated, indexed, stored, deletionRecords, deletions, deletionEvents,
  mayAct, mayExecute, actions, toolRuns, appended,
  configured, opinions, asked, place, taken, outcome, turns, moved,
  verifiers, called, strategy, todo, outcomes, present, replies,
  scores, registered, permitted, visible, phase, sought, consulted, returned, recordIds,
  known, shifts, shifted

compute == <<nodes, leases, idempotency, workloads, calls>>
hosted == <<session, connects, heartbeats, runs, executions, published>>
gateway == <<toolContracts, providers, bindings, remembered, operations, events>>
ingestion == <<source, cursor, delivered, receipts, objects, ledger, announced, polls, failures>>
personal == <<manifest, ledgerFile, stateObjects, seeds, opened>>
deletion == <<derivedFrom, invalidated, indexed, stored, deletionRecords, deletions, deletionEvents>>
agents == <<mayAct, mayExecute, actions, toolRuns, appended>>
selection == <<configured, opinions, asked, place, taken, outcome, turns, moved>>
verification == <<verifiers, called, strategy, todo, outcomes, present, replies>>
reconstruction == <<scores, registered, permitted, visible, phase, sought, consulted, returned,
                    recordIds, known, shifts, shifted>>

-----------------------------------------------------------------------------
(* Two workloads, one of which two keys ask for. *)
MCComputeRequests ==
  {[workload |-> "w1", key |-> "k1", lease |-> 1, startedAt |-> 2, withinLimits |-> TRUE],
   [workload |-> "w1", key |-> "k2", lease |-> 2, startedAt |-> 2, withinLimits |-> TRUE],
   [workload |-> "w2", key |-> "k1", lease |-> 1, startedAt |-> 0, withinLimits |-> FALSE]}

Compute == INSTANCE ComputeNodes
  WITH Nodes <- Machines, Keys <- ComputeKeys, Requests <- ComputeRequests, MaxCalls <- MaxExecutions

Hosted == INSTANCE HostedComputeNode

(* One key, used for two principals. *)
MCGatewayRequests ==
  {[key |-> "k1", binding |-> 1, contract |-> "t1", principal |-> "ada"],
   [key |-> "k1", binding |-> 1, contract |-> "t1", principal |-> "bob"]}

Gateway == INSTANCE ProviderGateway
  WITH Keys <- GatewayKeys, Requests <- GatewayRequests,
       idempotency <- remembered, MaxCalls <- MaxOperations

Connectors == INSTANCE ConnectorIngestion
  WITH Keys <- SourceKeys

Personal == INSTANCE PersonalRuntime
  WITH ledger <- ledgerFile, objects <- stateObjects

Deletion == INSTANCE SourceDeletion
  WITH N <- MaxNodes, records <- deletionRecords, announced <- deletionEvents

Agents == INSTANCE AgentActions
  WITH Operations <- <<"open", "water">>, MaxCalls <- MaxActions, calls <- actions

-----------------------------------------------------------------------------
(* Two candidates: one more relevant, one that works everywhere; a request *)
(* that overrides a binding, one that does not, and one too poor.          *)
MCDefine ==
  LET first == [relevance |-> 80, jurisdictions |-> {"ng"}, providers |-> {"p1"},
                defaults |-> [model |-> "m1"], requirements |-> [model |-> {"m1", "m2"}],
                estimate |-> [currency |-> "usd", amount |-> 2, duration |-> 1, tokens |-> 1],
                risk |-> 10]
  IN  <<first, [first EXCEPT !.relevance = 50, !.jurisdictions = {"*"}, !.providers = {},
                             !.requirements = [model |-> {"m1"}], !.estimate.amount = 1]>>
MCRequest(override, amount) ==
  [jurisdiction |-> "ng", providers |-> {"p1"}, app |-> [model |-> "none"],
   work |-> [model |-> "m1"], overrides |-> [model |-> override], requiredKeys |-> {"model"},
   budget |-> [currency |-> "usd", amount |-> amount, duration |-> 1, tokens |-> 1],
   maxRisk |-> 10]
MCVerdicts ==
  {[allowed |-> TRUE, score |-> 80], [allowed |-> FALSE, score |-> 40],
   [allowed |-> TRUE, score |-> 101]}

Harness == INSTANCE HarnessSelection
  WITH Candidates <- 1..2, Define <- MCDefine, Verdicts <- MCVerdicts,
       Requests <- {MCRequest("none", 2), MCRequest("m2", 2), MCRequest("none", 1)},
       Configurations <- {{"memory", "authority", "budget", "risk"},
                          {"memory", "authority", "budget"}},
       MaxChanges <- 2, answers <- opinions, request <- asked, changes <- turns

Verification == INSTANCE VerificationEngine
  WITH Verifiers <- 1..3, KindOf <- <<"schema", "schema", "human">>,
       Strategies <- {"schema", "human"},
       Requests <- {<<>>, <<"schema">>, <<"schema", "human">>, <<"schema", "schema">>},
       request <- called, at <- strategy

(* Three records; modalities that agree, and ones that do not. *)
MCTables ==
  {[text |-> <<7, 6, 0>>, graph |-> <<2, 1, 4>>, time |-> <<2, 1, 3>>],
   [text |-> <<5, 0, 0>>, graph |-> <<0, 3, 0>>, time |-> <<0, 3, 0>>],
   [text |-> <<4, 4, 2>>, graph |-> <<3, 5, 1>>, time |-> <<2, 4, 1>>]}

Rebuilding == INSTANCE Reconstruction
  WITH Records <- 1..3, Providers <- {"text", "graph", "time"},
       ModalityOf <- [text |-> "lexical", graph |-> "graph", time |-> "graph"],
       Tables <- MCTables,
       Requests <- {[limit |-> 1, weights |-> [lexical |-> 1]],
                    [limit |-> 2, weights |-> [lexical |-> 1, graph |-> 2]]},
       MaxChanges <- 2, request <- sought, asked <- consulted, replies <- returned,
       present <- known, changes <- shifts, moved <- shifted

ASSUME Rebuilding!InputsAssumption
ASSUME Harness!InputsAssumption /\ Verification!InputsAssumption
ASSUME ComputeAssumption == Compute!RequestsAssumption
ASSUME GatewayAssumption == Gateway!RequestsAssumption
ASSUME PersonalAssumption == Personal!CompatibleAssumption
ASSUME Deletion!NAssumption
ASSUME Agents!OperationsAssumption

-----------------------------------------------------------------------------
Init ==
  /\ subject \in {"compute", "hosted", "gateway", "connectors", "personal", "deletion", "agents",
                  "harness", "verification", "reconstruction"}
  /\ Compute!Init /\ Hosted!Init /\ Gateway!Init /\ Connectors!Init
  /\ IF subject = "personal" THEN Personal!Init
     ELSE /\ manifest = (CHOOSE content \in Packages : TRUE) /\ ledgerFile = "none" /\ stateObjects = {}
          /\ seeds = <<>> /\ opened = <<>>
  /\ IF subject = "deletion" THEN Deletion!Init
     ELSE /\ derivedFrom = [n \in 1..MaxNodes |-> {}] /\ invalidated = {}
          /\ indexed = 1..MaxNodes /\ stored = 1..MaxNodes
          /\ deletionRecords = <<>> /\ deletions = <<>> /\ deletionEvents = {}
  /\ IF subject = "agents" THEN Agents!Init
     ELSE /\ mayAct = FALSE /\ mayExecute = FALSE
          /\ actions = <<>> /\ toolRuns = <<>> /\ appended = <<>>
  /\ IF subject = "harness" THEN Harness!Init
     ELSE Harness!InitWith({}, MCRequest("none", 1), [c \in 1..2 |-> [allowed |-> FALSE, score |-> 40]])
  /\ IF subject = "verification" THEN Verification!Init ELSE Verification!InitWith(<<>>)
  /\ IF subject = "reconstruction" THEN Rebuilding!Init
     ELSE Rebuilding!InitWith([p \in {"text", "graph", "time"} |-> <<0, 0, 0>>])

Next ==
  /\ UNCHANGED subject
  /\ \/ /\ subject = "compute" /\ Compute!Next
        /\ UNCHANGED <<hosted, gateway, ingestion, personal, deletion, agents, selection,
                      verification, reconstruction>>
     \/ /\ subject = "hosted" /\ Hosted!Next
        /\ UNCHANGED <<compute, gateway, ingestion, personal, deletion, agents, selection,
                      verification, reconstruction>>
     \/ /\ subject = "gateway" /\ Gateway!Next
        /\ UNCHANGED <<compute, hosted, ingestion, personal, deletion, agents, selection,
                      verification, reconstruction>>
     \/ /\ subject = "connectors" /\ Connectors!Next
        /\ UNCHANGED <<compute, hosted, gateway, personal, deletion, agents, selection,
                      verification, reconstruction>>
     \/ /\ subject = "personal" /\ Personal!Next
        /\ UNCHANGED <<compute, hosted, gateway, ingestion, deletion, agents, selection,
                      verification, reconstruction>>
     \/ /\ subject = "deletion" /\ Deletion!Next
        /\ UNCHANGED <<compute, hosted, gateway, ingestion, personal, agents, selection,
                      verification, reconstruction>>
     \/ /\ subject = "agents" /\ Agents!Next
        /\ UNCHANGED <<compute, hosted, gateway, ingestion, personal, deletion, selection,
                      verification, reconstruction>>
     \/ /\ subject = "harness" /\ Harness!Next
        /\ UNCHANGED <<compute, hosted, gateway, ingestion, personal, deletion, agents,
                      verification, reconstruction>>
     \/ /\ subject = "verification" /\ Verification!Next
        /\ UNCHANGED <<compute, hosted, gateway, ingestion, personal, deletion, agents,
                      selection, reconstruction>>
     \/ /\ subject = "reconstruction" /\ Rebuilding!Next
        /\ UNCHANGED <<compute, hosted, gateway, ingestion, personal, deletion, agents,
                      selection, verification>>

\* Fair are the calls in progress, and those of three subjects only.
Spec ==
  /\ Init
  /\ [][Next]_<<subject, compute, hosted, gateway, ingestion, personal, deletion, agents,
               selection, verification, reconstruction>>
  /\ Compute!Fairness /\ Hosted!Fairness /\ Gateway!Fairness

-----------------------------------------------------------------------------
\* However often it is asked for and whatever fails: a workload is executed
\* once and a lease used once (ComputeNodes), the work of a key runs once
\* (HostedComputeNode), an adapter is invoked once for a key and within its
\* binding (ProviderGateway), and an item of a source is neither lost nor
\* accepted twice (ConnectorIngestion).
DoneOnce ==
  /\ Compute!ExecutedOnce /\ Hosted!WorkRunsOnce
  /\ Gateway!InvokedOncePerKey /\ Connectors!IngestedOnce

\* What was seeded is there at every start (PersonalRuntime).
SeedSurvives == Personal!SeedSurvives

\* Who is told of a deletion finds it done (SourceDeletion).
DeletionIsComplete == Deletion!DeletionIsComplete

\* The record of an action tells what the tools did for it (AgentActions).
RecordsTellTheRuns == Agents!RecordsTellTheRuns

\* The harness judges a candidate by what the evaluators say of it, what is
\* verified was verified by everyone asked, and what is reconstructed is what
\* the principal may see of what is best known (HarnessSelection,
\* VerificationEngine, Reconstruction).
JudgementIsJust ==
  /\ Harness!SelectionIsJust /\ Verification!VerdictIsUnanimous
  /\ Rebuilding!WorkspaceIsJust

\* No provider gets a receipt for what an earlier one did (ProviderGateway).
ReceiptsAreCurrent == Gateway!ReceiptsAreCurrent

\* Every runNext and operation ends.
CallsEnd == Compute!ExecutionsEnd /\ Hosted!RunsEnd /\ Gateway!OperationsEnd
=============================================================================
