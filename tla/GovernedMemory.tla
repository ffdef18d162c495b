---------------------------- MODULE GovernedMemory ----------------------------
(***************************************************************************)
(* Governed memory: procedure outcomes are learned into a repository,      *)
(* retrieved as of an instant for what a principal may read, ranked and    *)
(* cut to a limit, and weighed to assess whether a procedure applies.      *)
(*                                                                         *)
(* The repository is a port: it appends, returns all it has, and its       *)
(* records may be ended, that is revoked, invalidated or given an end of   *)
(* their transaction time.  Who learns or ends says so as of the present,  *)
(* never in the past.  Instants are months; scores are in percent; there   *)
(* is one workspace.                                                       *)
(* The authority to read and the relevance of a record do not change with  *)
(* time: both are callbacks, of the request and the record.                *)
(***************************************************************************)
EXTENDS Integers, FiniteSets, SequencesExt

CONSTANTS
  Ids, Procedures, Episodes, Keys, Values,
  Lessons,          \* what to learn: the parts of a record its learner chooses
  Requests,
  ReadLevel(_, _),  \* the authority level for a request and a record, or Denied
  Relevance(_, _),  \* of a record to a request
  MaxRecords, MaxTime

VARIABLES repository, clock, answers

memory == <<repository, clock, answers>>

Denied == -1
None == "none"
Never == MaxTime + 1
Trusts == {100, 80, 55, 30, 0}     \* authoritative .. untrusted
Sensitivities == 0..3              \* public .. restricted

Condition == [key : Keys, operator : {"equals", "not-equals"}, value : Values]
             \cup [key : Keys, operator : {"present", "absent"}, value : {None}]

\* What a learner chooses; raw: the text holds a secret, credential or grant.
Lesson == [id : Ids, failureId : Ids, validFrom : 0..MaxTime,
           procedure : Procedures, episode : Episodes, outcome : {"succeeded", "failed"},
           applicability : SUBSET Condition \ {{}}, failure : SUBSET Condition,
           sensitivity : Sensitivities, trust : Trusts, raw : BOOLEAN]

Request == [episode : Episodes \cup {None}, categories : SUBSET {"procedural", "failure"} \ {{}},
            ceiling : Sensitivities, validAt : 0..MaxTime, transactionAt : 0..MaxTime,
            limit : Nat \ {0}]

InputsAssumption ==
  Lessons \subseteq Lesson /\ Requests \subseteq Request /\ Trusts \subseteq 0..100

-----------------------------------------------------------------------------
(* Learning. *)

RecordOf(lesson, id, category, conditions) ==
  [id |-> id, category |-> category, procedure |-> lesson.procedure,
   episode |-> lesson.episode, outcome |-> lesson.outcome, conditions |-> conditions,
   sensitivity |-> lesson.sensitivity, trust |-> lesson.trust, raw |-> FALSE,
   validFrom |-> lesson.validFrom, recordedAt |-> clock, endedAt |-> Never]

\* A failed outcome needs conditions of its failure and a second identifier,
\* which nothing compares with the first or with those already used.
LearnProcedureOutcome(lesson, authorized) ==
  /\ authorized
  /\ ~lesson.raw
  /\ lesson.outcome = "failed" => lesson.failure # {}
  /\ Len(repository) < MaxRecords
  /\ LET procedure == RecordOf(lesson, lesson.id, "procedural", lesson.applicability)
         failure == RecordOf(lesson, lesson.failureId, "failure", lesson.failure)
     IN repository' = repository \o IF lesson.outcome = "failed"
                                    THEN <<procedure, failure>> ELSE <<procedure>>
  /\ UNCHANGED <<clock, answers>>

\* The keeper of the repository revokes or invalidates a record.
End(k) ==
  /\ repository[k].endedAt = Never
  /\ repository' = [repository EXCEPT ![k].endedAt = clock]
  /\ UNCHANGED <<clock, answers>>

-----------------------------------------------------------------------------
(* Retrieval. *)

\* Mutant: what has ended has ended for every instant.
EndedAtAll(record, transactionAt) == record.endedAt # Never

Ended(record, transactionAt) == record.endedAt <= transactionAt

\* Whether there is no static reason to exclude the record.
Eligible(record, request) ==
  /\ record.category \in request.categories
  /\ request.episode # None => record.episode = request.episode
  /\ ~Ended(record, request.transactionAt)
  /\ record.validFrom <= request.validAt
  /\ record.recordedAt <= request.transactionAt
  /\ record.sensitivity <= request.ceiling
  /\ ~record.raw

\* A record recorded a month ago is half as fresh.
Freshness(record, request) == 100 \div (1 + request.transactionAt - record.recordedAt)

Authority(record, request) ==
  IF ReadLevel(request, record) > 100 THEN 100 ELSE ReadLevel(request, record)

Total(record, request) ==
  55 * Relevance(request, record) + 25 * Authority(record, request)
    + 15 * record.trust + 5 * Freshness(record, request)

\* The order of the ranking: total, authority, trust, relevance, identifier.
Before(request, left, right) ==
  LET key(r) == <<-Total(r, request), -ReadLevel(request, r), -r.trust,
                  -Relevance(request, r), r.id>>
      first == CHOOSE i \in 1..5 :
                 /\ i = 5 \/ key(left)[i] # key(right)[i]
                 /\ \A j \in 1..(i - 1) : key(left)[j] = key(right)[j]
  IN key(left)[first] < key(right)[first]

\* Two records of one identifier: every retrieval throws.
Ambiguous == \E j, k \in DOMAIN repository : j # k /\ repository[j].id = repository[k].id

Readable(request) ==
  {record \in Range(repository) : Eligible(record, request)
                                   /\ ReadLevel(request, record) >= 0}

Retrieved(request) ==
  LET ranked == SetToSortSeq(Readable(request), LAMBDA l, r : Before(request, l, r))
  IN SubSeq(ranked, 1, IF Len(ranked) < request.limit THEN Len(ranked) ELSE request.limit)

\* A retrieval of the past; what it answers first is remembered here.
Retrieve(request) ==
  /\ ~Ambiguous
  /\ request.transactionAt < clock
  /\ request \notin DOMAIN answers
  /\ answers' = (request :> [k \in DOMAIN Retrieved(request) |-> Retrieved(request)[k].id])
                @@ answers
  /\ UNCHANGED <<repository, clock>>

-----------------------------------------------------------------------------
(* The applicability of a procedure. *)

Holds(condition, actual) ==
  CASE condition.operator = "equals" -> actual[condition.key] = condition.value
    [] condition.operator = "not-equals" -> actual[condition.key] # condition.value
    [] condition.operator = "present" -> actual[condition.key] # None
    [] condition.operator = "absent" -> actual[condition.key] = None

ConditionsMatch(conditions, actual) == \A c \in conditions : Holds(c, actual)

\* The limit does not apply to an assessment.
Matching(request, procedure, category, actual) ==
  {record \in Readable([request EXCEPT !.categories = {"procedural", "failure"}]) :
     /\ record.category = category
     /\ record.procedure = procedure
     /\ category = "procedural" => record.outcome = "succeeded"
     /\ ConditionsMatch(record.conditions, actual)}

AtMost(bound, n) == IF n > bound THEN bound ELSE n

\* Mutant: every success counts.
SupportUncapped(n) == 15 * n

Support(n) == AtMost(30, 15 * n)
Penalty(n) == AtMost(80, 40 * n)

Score(request, procedure, actual, base) ==
  LET raw == base + Support(Cardinality(Matching(request, procedure, "procedural", actual)))
                  - Penalty(Cardinality(Matching(request, procedure, "failure", actual)))
  IN IF raw < 0 THEN 0 ELSE AtMost(100, raw)

-----------------------------------------------------------------------------
Init == repository = <<>> /\ clock = 0 /\ answers = <<>>

Tick == clock < MaxTime /\ clock' = clock + 1 /\ UNCHANGED <<repository, answers>>

Next ==
  \/ Tick
  \/ \E lesson \in Lessons, authorized \in BOOLEAN : LearnProcedureOutcome(lesson, authorized)
  \/ \E k \in DOMAIN repository : End(k)
  \/ \E request \in Requests : Retrieve(request)

Spec == Init /\ [][Next]_memory

-----------------------------------------------------------------------------
\* What was retrieved as of a past instant is retrieved again later, in the
\* same order, whatever has been learned and ended since.
AsOfIsRepeatable ==
  ~Ambiguous =>
    \A request \in DOMAIN answers :
      [k \in DOMAIN Retrieved(request) |-> Retrieved(request)[k].id] = answers[request]

\* A known failure that matches and may be read keeps the score of a procedure
\* below its base, or at zero, however many successes were learned as well.
FailureOutweighs ==
  ~Ambiguous =>
    \A request \in Requests, procedure \in Procedures, actual \in [Keys -> Values \cup {None}],
       base \in {0, 50, 100} :
      Matching(request, procedure, "failure", actual) # {} =>
        \/ Score(request, procedure, actual, base) < base
        \/ Score(request, procedure, actual, base) = 0
=============================================================================
