-------------------------- MODULE VerificationEngine --------------------------
(***************************************************************************)
(* The verification of a subject: for each strategy asked for, in order,   *)
(* the verifiers of its kind are asked one after another, and awaited      *)
(* (packages/verification).  Verifiers may be registered meanwhile.  What  *)
(* a verifier answers is its own affair, each time it is asked; it may     *)
(* throw.                                                                  *)
(***************************************************************************)
EXTENDS Naturals, Sequences, FiniteSets

CONSTANTS
  Verifiers,   \* identifiers, in their order
  KindOf,      \* [Verifiers -> Strategies]
  Strategies,
  Requests     \* sequences of strategies; one may be named twice

VARIABLES
  verifiers,   \* those registered
  request,
  at,          \* the strategy whose verifiers are asked, 0 before the first
  todo,        \* those still to ask, as they were when the strategy came up
  outcomes,    \* what was recorded: <<place of the strategy, verifier, status>>
  present,     \* the verifiers there were at the start
  replies      \* what was answered: <<place, verifier, reply>>

verification == <<verifiers, request, at, todo, outcomes, present, replies>>

Missing == 0
Replies == {"verified", "rejected", "inconclusive", "throws"}

InputsAssumption ==
  /\ Verifiers \subseteq Nat \ {Missing} /\ KindOf \in [Verifiers -> Strategies]
  /\ Requests \subseteq Seq(Strategies)

-----------------------------------------------------------------------------
Register(v) ==
  /\ v \notin verifiers
  /\ verifiers' = verifiers \cup {v}
  /\ UNCHANGED <<request, at, todo, outcomes, present, replies>>

\* Mutant: a strategy without a verifier leaves nothing behind.
MatchingOrNothing(place) ==
  /\ todo' = {v \in verifiers : KindOf[v] = request[place]}
  /\ UNCHANGED outcomes

\* The verifiers of a strategy; without one, an error is its outcome.
Matching(place) ==
  /\ todo' = {v \in verifiers : KindOf[v] = request[place]}
  /\ outcomes' = IF todo' = {} THEN outcomes \cup {<<place, Missing, "error">>} ELSE outcomes

NextStrategy ==
  /\ todo = {} /\ at < Len(request)
  /\ at' = at + 1
  /\ Matching(at')
  /\ present' = IF at = 0 THEN verifiers ELSE present
  /\ UNCHANGED <<verifiers, request, replies>>

Ask(v, reply) ==
  /\ v \in todo /\ \A w \in todo : v <= w
  /\ todo' = todo \ {v}
  /\ replies' = replies \cup {<<at, v, reply>>}
  /\ outcomes' = outcomes \cup {<<at, v, IF reply = "throws" THEN "error" ELSE reply>>}
  /\ UNCHANGED <<verifiers, request, at, present>>

Decided == at = Len(request) /\ todo = {}

\* Mutant: an error is not a rejection.
StatusLenient ==
  LET statuses == {o[3] : o \in outcomes} IN
  CASE "rejected" \in statuses -> "rejected"
    [] "rejected" \notin statuses /\ "verified" \in statuses -> "verified"
    [] OTHER -> "inconclusive"

Status ==
  LET statuses == {o[3] : o \in outcomes} IN
  CASE statuses \cap {"rejected", "error"} # {} -> "rejected"
    [] statuses = {"verified"} -> "verified"
    [] OTHER -> "inconclusive"

-----------------------------------------------------------------------------
InitWith(r) ==
  /\ verifiers = {} /\ request = r /\ at = 0 /\ todo = {}
  /\ outcomes = {} /\ present = {} /\ replies = {}

Init == \E r \in Requests : InitWith(r)

Next ==
  \/ \E v \in Verifiers : Register(v) \/ \E reply \in Replies : Ask(v, reply)
  \/ NextStrategy

Spec == Init /\ [][Next]_verification

-----------------------------------------------------------------------------
\* Verified means unanimous: every strategy asked for was answered by somebody,
\* by everyone there was at the start, and by nobody otherwise; rejected means
\* that somebody objected or failed, or that a strategy had no verifier when
\* the decision began (one may have been registered since).
VerdictIsUnanimous ==
  Decided =>
    LET asked(place) == {v \in Verifiers : KindOf[v] = request[place]} IN
    /\ Status = "verified" =>
         /\ request # <<>>
         /\ \A place \in DOMAIN request :
              /\ \E v \in asked(place) : <<place, v, "verified">> \in replies
              /\ \A v \in asked(place) \cap present : <<place, v, "verified">> \in replies
         /\ \A r \in replies : r[3] = "verified"
    /\ Status = "rejected" =>
         \/ \E r \in replies : r[3] \in {"rejected", "throws"}
         \/ \E place \in DOMAIN request : asked(place) \cap present = {}
=============================================================================
