-------------------------- MODULE GovernedExecution --------------------------
(***************************************************************************)
(* One execution of the governed execution engine of packages/effects:     *)
(* a manifest with its plan, decisions and verification contract, then the *)
(* receipt, observations, reconciliations, evidence, verifications and     *)
(* compensations that callers record in any order, and the decisions.      *)
(* Executions of different manifests share nothing.                        *)
(*                                                                         *)
(* Every record has an identifier of its own that is refused when used     *)
(* twice; a decision reads only which observations and evidence exist, the *)
(* latest reconciliation of each effect and the verifications in order, so *)
(* that is what is kept.  The journal has one entry per record, appended   *)
(* with it; its order shows here in the verifications and outcomes only.   *)
(***************************************************************************)
EXTENDS Naturals, SequencesExt

CONSTANTS
  Effects,          \* the effects of the plan
  Class,            \* the class of each effect
  Evidence,
  Parties,          \* providers and verifiers
  Contracts,        \* the verification contracts to try
  Verifications,    \* what verifiers may report, see Report
  MaxVerifications, \* bound
  MaxOutcomes       \* bound

ClassAssumption == Class \in [Effects -> {"RUNTIME", "SEMANTIC", "EXTERNAL"}]

VARIABLE execution

Unknown == "UNKNOWN"      \* nothing recorded yet

Contract == [requiredEvidence : SUBSET Evidence, independentVerifierRequired : BOOLEAN,
             maximumCost : Nat, maximumAttempts : Nat \ {0}]

\* A cost is in the currency of the contract or in another one.
Report == [verifier : Parties, status : {"VERIFIED", "REJECTED"},
           claimsIndependent : BOOLEAN, evidence : SUBSET Evidence,
           attempt : Nat \ {0}, amount : Nat, ownCurrency : BOOLEAN,
           stopConditionMet : BOOLEAN]

InputsAssumption == Contracts \subseteq Contract /\ Verifications \subseteq Report

-----------------------------------------------------------------------------
(* The acceptance decision. *)

Spent(e) ==
  FoldSeq(LAMBDA v, total : IF v.ownCurrency THEN total + v.amount ELSE total,
          0, e.verifications)

\* Mutant: only the cost of each verification by itself is limited.
WithinBudgetEach(e) == TRUE

WithinBudget(e) == Spent(e) <= e.contract.maximumCost

Acceptable(e, v) ==
  /\ v.status = "VERIFIED"
  /\ e.contract.independentVerifierRequired => v.independent
  /\ v.attempt <= e.contract.maximumAttempts
  /\ v.ownCurrency /\ v.amount <= e.contract.maximumCost
  /\ v.stopConditionMet
  /\ e.contract.requiredEvidence \subseteq v.evidence

\* The latest acceptable verification, by its position; 0 when there is none.
SelectVerification(e) ==
  IF WithinBudget(e)
  THEN Max({0} \cup {k \in DOMAIN e.verifications : Acceptable(e, e.verifications[k])})
  ELSE 0

EffectsReconciled(e) ==
  \A f \in Effects : f \in e.observed /\ e.reconciled[f] = "CONFIRMED"

Accepted(e) ==
  /\ e.commits = <<>>
  /\ e.status = "AUTHORIZED"
  /\ e.receipt.status = "SUCCEEDED"
  /\ EffectsReconciled(e)
  /\ e.contract.requiredEvidence \subseteq e.evidence
  /\ SelectVerification(e) # 0

\* An uncertain external effect asks for a review.
ReviewRequired(e) ==
  \E f \in Effects : Class[f] = "EXTERNAL" /\ e.reconciled[f] = "UNCERTAIN"

-----------------------------------------------------------------------------
(* The operations. *)

NoReceipt == [status |-> "NONE", provider |-> Unknown]

\* Authorized when all four control decisions allow it.
CreateManifest(contract, allowed) ==
  /\ execution = <<>>
  /\ execution' =
       [status |-> IF allowed THEN "AUTHORIZED" ELSE "BLOCKED", contract |-> contract,
        receipt |-> NoReceipt, observed |-> {},
        reconciled |-> [f \in Effects |-> Unknown], evidence |-> {},
        verifications |-> <<>>, compensated |-> {}, outcomes |-> <<>>, commits |-> <<>>]

RecordReceipt(provider, status) ==
  /\ execution.status = "AUTHORIZED"
  /\ execution.receipt = NoReceipt
  /\ execution' = [execution EXCEPT !.receipt = [status |-> status, provider |-> provider]]

ObserveEffect(f) ==
  execution' = [execution EXCEPT !.observed = @ \cup {f}]

Reconcile(f, status) ==
  /\ f \in execution.observed
  /\ execution' = [execution EXCEPT !.reconciled[f] = status]

AttachEvidence(x) ==
  /\ x \notin execution.evidence
  /\ execution' = [execution EXCEPT !.evidence = @ \cup {x}]

\* Only a verifier that is not the provider of the receipt is independent, and
\* before the receipt nobody is.
Independent(report) ==
  /\ report.claimsIndependent
  /\ execution.receipt # NoReceipt
  /\ execution.receipt.provider # report.verifier

RecordVerification(report) ==
  /\ Len(execution.verifications) < MaxVerifications
  /\ execution' = [execution EXCEPT !.verifications = Append(@,
       [verifier |-> report.verifier, status |-> report.status,
        independent |-> Independent(report), evidence |-> report.evidence,
        attempt |-> report.attempt, amount |-> report.amount,
        ownCurrency |-> report.ownCurrency,
        stopConditionMet |-> report.stopConditionMet])]

RecordCompensation(f) ==
  /\ Class[f] = "EXTERNAL"
  /\ execution' = [execution EXCEPT !.compensated = @ \cup {f}]

Outcome(e) ==
  [status |-> IF Accepted(e) THEN "ACCEPTED" ELSE "REJECTED",
   review |-> ReviewRequired(e), verification |-> SelectVerification(e),
   spent |-> Spent(e)]

Commit(e) ==
  [outcome |-> Len(e.outcomes) + 1, verification |-> SelectVerification(e),
   evidence |-> e.evidence, effects |-> {f \in Effects : Class[f] = "SEMANTIC"}]

\* The outcome is stored before the identifier of the commit is looked at: a
\* malformed one throws after an accepted outcome.
Decide(commitIdOk) ==
  /\ Len(execution.outcomes) < MaxOutcomes
  /\ execution' =
       [execution EXCEPT
          !.outcomes = Append(@, Outcome(execution)),
          !.commits = IF Accepted(execution) /\ commitIdOk
                      THEN Append(@, Commit(execution)) ELSE @]

Init == execution = <<>>

Next ==
  \/ \E contract \in Contracts, allowed \in BOOLEAN : CreateManifest(contract, allowed)
  \/ /\ execution # <<>>
     /\ \/ \E p \in Parties, status \in {"SUCCEEDED", "FAILED"} : RecordReceipt(p, status)
        \/ \E f \in Effects :
             \/ ObserveEffect(f)
             \/ \E status \in {"CONFIRMED", "DIVERGED", "UNCERTAIN"} : Reconcile(f, status)
             \/ RecordCompensation(f)
        \/ \E x \in Evidence : AttachEvidence(x)
        \/ \E report \in Verifications : RecordVerification(report)
        \/ \E commitIdOk \in BOOLEAN : Decide(commitIdOk)

Spec == Init /\ [][Next]_execution

-----------------------------------------------------------------------------
\* A commit is earned, whatever was recorded in which order and how often it
\* was decided (ADR 0003): there is one at most, of an accepted outcome; the
\* manifest was authorized and its execution succeeded; every effect was
\* observed; the required evidence is attached and was seen by the
\* verification that is named, which under a contract that asks for
\* independence is nobody's who provided the execution; and the
\* verifications recorded until then cost no more than the contract allows.
CommitsAreEarned ==
  execution # <<>> =>
    /\ Len(execution.commits) <= 1
    /\ \A k \in DOMAIN execution.commits :
         LET commit == execution.commits[k]
             outcome == execution.outcomes[commit.outcome]
             verification == execution.verifications[commit.verification]
             contract == execution.contract
         IN /\ outcome.status = "ACCEPTED"
            /\ outcome.verification = commit.verification
            /\ outcome.spent <= contract.maximumCost
            /\ execution.status = "AUTHORIZED"
            /\ execution.receipt.status = "SUCCEEDED"
            /\ execution.observed = Effects
            /\ contract.requiredEvidence \subseteq commit.evidence \cap verification.evidence
            /\ contract.independentVerifierRequired =>
                 verification.verifier # execution.receipt.provider
            /\ \A j \in DOMAIN execution.outcomes :
                 j > commit.outcome => execution.outcomes[j].status = "REJECTED"
=============================================================================
