--------------------------- MODULE HarnessSelection ---------------------------
(***************************************************************************)
(* The harness selects a skill, procedure, model, agent, tool or provider  *)
(* for an episode of work (packages/harness).  It evaluates the candidates *)
(* one after another; for each it asks, and awaits, four evaluators: is it *)
(* applicable by what is remembered, authorized, within the budget, and of *)
(* acceptable risk.  An evaluator may be missing, and its answer may       *)
(* change while the selection waits for another.                           *)
(*                                                                         *)
(* Scores are in percent.  Costs, durations and tokens are small numbers.  *)
(***************************************************************************)
EXTENDS Integers, Sequences

CONSTANTS
  Candidates,  \* identifiers, in their order: 1, 2, ...
  Define,      \* what defines each
  Requests,
  Configurations,  \* the evaluators a harness may be constructed with
  Verdicts,    \* what an evaluator may answer
  MaxChanges   \* bound on the changes of an answer

VARIABLES
  configured,   \* the evaluators that are there
  answers,      \* what each would answer about a candidate at present
  request,      \* of the selection
  place,        \* <<candidate, gate>> asked next
  taken,        \* the answers so far
  outcome,      \* Undecided, Nobody, or who was selected
  changes,
  moved         \* candidates about whom an answer changed meanwhile

selection == <<configured, answers, request, place, taken, outcome, changes, moved>>

None == "none"
Nobody == 0
Undecided == -1
Gates == <<"memory", "authority", "budget", "risk">>
GateNames == {"memory", "authority", "budget", "risk"}

\* A score out of range is refused, as is an evaluator that throws.
Throws == [allowed |-> TRUE, score |-> 101]
Refusal == [allowed |-> FALSE, score |-> 0]

InputsAssumption ==
  /\ Candidates = 1..Len(Define)
  /\ \A c \in Candidates : Define[c].relevance \in 0..100 /\ Define[c].risk \in 0..100
  /\ Verdicts \subseteq [allowed : BOOLEAN, score : 0..100] \cup {Throws}
  /\ Configurations \subseteq SUBSET GateNames
  /\ \A r \in Requests : r.requiredKeys \subseteq DOMAIN r.app /\ r.requiredKeys # {}

-----------------------------------------------------------------------------
(* What needs no evaluator. *)

\* Overrides before work before application before defaults.
EffectiveBindings(c, r) ==
  [key \in DOMAIN r.app |->
     CASE r.overrides[key] # None -> r.overrides[key]
       [] r.overrides[key] = None /\ r.work[key] # None -> r.work[key]
       [] r.overrides[key] = None /\ r.work[key] = None /\ r.app[key] # None -> r.app[key]
       [] OTHER -> Define[c].defaults[key]]

Structural(c, r) ==
  /\ r.jurisdiction \in Define[c].jurisdictions \/ "*" \in Define[c].jurisdictions
  /\ Define[c].providers \subseteq r.providers
  /\ \A key \in r.requiredKeys : EffectiveBindings(c, r)[key] # None
  /\ \A key \in DOMAIN Define[c].requirements :
       EffectiveBindings(c, r)[key] \in Define[c].requirements[key]

WithinBudget(c, r) ==
  LET estimate == Define[c].estimate IN
  /\ estimate.currency = r.budget.currency
  /\ estimate.amount <= r.budget.amount
  /\ estimate.duration <= r.budget.duration
  /\ estimate.tokens <= r.budget.tokens

-----------------------------------------------------------------------------
(* A selection. *)

\* Mutant: an evaluator that is missing has no objection.
OpenAnswer(gate, c) ==
  LET answer == answers[gate][c] IN
  CASE gate \notin configured -> [allowed |-> TRUE, score |-> 0]
    [] answer = Throws -> Refusal
    [] gate # "memory" /\ ~answer.allowed -> Refusal
    [] OTHER -> answer

\* Missing, throwing or malformed denies; the memory alone keeps its score
\* when it denies.
Answer(gate, c) ==
  LET answer == answers[gate][c] IN
  CASE gate \notin configured \/ answer = Throws -> Refusal
    [] gate # "memory" /\ ~answer.allowed -> Refusal
    [] OTHER -> answer

\* Every evaluator is asked, also about a candidate already refused.
Evaluate ==
  /\ place[1] \in Candidates
  /\ taken' = [taken EXCEPT ![place[1]][Gates[place[2]]] = Answer(Gates[place[2]], place[1])]
  /\ place' = IF place[2] < 4 THEN <<place[1], place[2] + 1>> ELSE <<place[1] + 1, 1>>
  /\ UNCHANGED <<configured, answers, request, outcome, changes, moved>>

Applicable(c) ==
  /\ Structural(c, request) /\ WithinBudget(c, request)
  /\ Define[c].risk <= request.maxRisk
  /\ \A gate \in GateNames : taken[c][gate].allowed

Total(c) ==
  35 * Define[c].relevance + 25 * taken[c]["memory"].score + 20 * taken[c]["authority"].score
    + 10 * taken[c]["budget"].score + 10 * taken[c]["risk"].score

\* Total, authority, memory, relevance, identifier.
Before(left, right) ==
  LET key(c) == <<-Total(c), -taken[c]["authority"].score, -taken[c]["memory"].score,
                  -Define[c].relevance, c>>
      first == CHOOSE i \in 1..5 : /\ i = 5 \/ key(left)[i] # key(right)[i]
                                   /\ \A j \in 1..(i - 1) : key(left)[j] = key(right)[j]
  IN key(left)[first] < key(right)[first]

Select ==
  /\ outcome = Undecided /\ place[1] \notin Candidates
  /\ LET applicable == {c \in Candidates : Applicable(c)} IN
     outcome' = IF applicable = {} THEN Nobody
                ELSE CHOOSE c \in applicable : \A d \in applicable \ {c} : Before(c, d)
  /\ UNCHANGED <<configured, answers, request, place, taken, changes, moved>>

\* Elsewhere, a grant is revoked or given, a lesson learned, an allowance spent.
Change(gate, c, answer) ==
  /\ outcome = Undecided /\ changes < MaxChanges
  /\ answers[gate][c] # answer
  /\ answers' = [answers EXCEPT ![gate][c] = answer]
  /\ changes' = changes + 1
  /\ moved' = moved \cup {c}
  /\ UNCHANGED <<configured, request, place, taken, outcome>>

-----------------------------------------------------------------------------
InitWith(there, r, verdicts) ==
  /\ configured = there
  /\ answers = [gate \in GateNames |-> verdicts]
  /\ request = r /\ place = <<1, 1>> /\ outcome = Undecided
  /\ taken = [c \in Candidates |-> [gate \in GateNames |-> Refusal]]
  /\ changes = 0 /\ moved = {}

Init ==
  \E there \in Configurations, r \in Requests, verdicts \in [Candidates -> Verdicts] :
    InitWith(there, r, verdicts)

Next ==
  \/ Evaluate
  \/ Select
  \/ \E gate \in GateNames, c \in Candidates, answer \in Verdicts : Change(gate, c, answer)

Spec == Init /\ [][Next]_selection

-----------------------------------------------------------------------------
\* What every evaluator says of a candidate, and what it needs.
Fit(c) ==
  /\ Structural(c, request) /\ WithinBudget(c, request) /\ Define[c].risk <= request.maxRisk
  /\ \A gate \in GateNames : /\ gate \in configured
                             /\ answers[gate][c].allowed /\ answers[gate][c] # Throws

Merit(c) ==
  35 * Define[c].relevance + 25 * answers["memory"][c].score
    + 20 * answers["authority"][c].score + 10 * answers["budget"][c].score
    + 10 * answers["risk"][c].score

\* As long as nobody changes their mind about a candidate, it is judged by what
\* they say: it is selected only if it is fit, and passed over, when it is, only
\* for a candidate of no less merit (Harness.select; whether what changed while
\* others were asked still holds at the end is not looked at).
SelectionIsJust ==
  outcome # Undecided =>
    \A c \in Candidates \ moved :
      /\ outcome = c => Fit(c)
      /\ Fit(c) => /\ outcome # Nobody
                   /\ outcome \in Candidates \ moved => Merit(outcome) >= Merit(c)
=============================================================================
