---------------------------- MODULE ClaimProjection ----------------------------
(***************************************************************************)
(* The claim ledger of packages/state: claims and transitions of their     *)
(* lifecycle are appended, projected to the state at an instant of the     *)
(* world as it was known at another instant, and replayed from their       *)
(* canonical records.                                                      *)
(*                                                                         *)
(* Claims of one subject and predicate; instants are numbers, as their     *)
(* callers choose them.  Identifiers are numbers in their order: a claim's *)
(* sorts before a transition's, as their prefixes do.                      *)
(***************************************************************************)
EXTENDS Naturals, FiniteSets, SequencesExt

CONSTANTS
  ClaimIds, TransitionIds,
  Claims,        \* the claims to append, but for their identifier
  MaxTime        \* bound: instants 0 .. MaxTime

IdsAssumption == \A c \in ClaimIds, t \in TransitionIds : c \in Nat /\ t \in Nat /\ c < t

VARIABLE records

Instants == 0..MaxTime
Open == MaxTime + 1            \* the end of an interval that has none
Lifecycles == {"proposed", "provisional", "verified", "superseded", "retracted"}

Claim == [id : ClaimIds, kind : {"claim"}, from : Instants, to : 0..Open,
          validFrom : Instants, validTo : 0..Open,
          lifecycle : Lifecycles, level : Nat, confidence : Nat, value : Nat]
Transition == [id : TransitionIds, kind : {"transition"}, from : Instants,
               target : ClaimIds, status : Lifecycles]

ClaimsIn(set) == {r \in set : r.kind = "claim"}

-----------------------------------------------------------------------------
AppendClaim(claim) ==
  /\ \A r \in records : r.id # claim.id
  /\ records' = records \cup {claim}

AppendLifecycleTransition(transition) ==
  /\ \A r \in records : r.id # transition.id
  /\ \E c \in ClaimsIn(records) : c.id = transition.target
  /\ records' = records \cup {transition}

\* The canonical order of records.
Before(r, s) == r.from < s.from \/ (r.from = s.from /\ r.id < s.id)

-----------------------------------------------------------------------------
(* Projection. *)

Within(from, to, instant) == from <= instant /\ instant < to

\* The status a claim was last given, as far as it was known then.
EffectiveLifecycle(set, claim, recordedAt) ==
  LET applicable == {r \in set : /\ r.kind = "transition" /\ r.target = claim.id
                                 /\ r.from <= recordedAt}
  IN IF applicable = {} THEN claim.lifecycle
     ELSE (CHOOSE r \in applicable : \A s \in applicable \ {r} : Before(s, r)).status

LifecycleRank(status) ==
  CASE status = "verified" -> 2 [] status = "provisional" -> 1 [] OTHER -> 0

Governing(set, validAt, recordedAt) ==
  {c \in ClaimsIn(set) : /\ Within(c.from, c.to, recordedAt)
                         /\ Within(c.validFrom, c.validTo, validAt)
                         /\ LifecycleRank(EffectiveLifecycle(set, c, recordedAt)) > 0}

\* The claim that governs: by lifecycle, authority, valid time, transaction
\* time, confidence, identifier.
Prior(set, recordedAt, c, d) ==
  LET rank(x) == LifecycleRank(EffectiveLifecycle(set, x, recordedAt))
  IN \/ rank(c) > rank(d)
     \/ /\ rank(c) = rank(d)
        /\ \/ c.level > d.level
           \/ /\ c.level = d.level
              /\ \/ c.validFrom > d.validFrom
                 \/ /\ c.validFrom = d.validFrom
                    /\ \/ c.from > d.from
                       \/ /\ c.from = d.from
                          /\ \/ c.confidence > d.confidence
                             \/ c.confidence = d.confidence /\ c.id < d.id

\* The selected claim, if any, and those that contradict it.
ProjectAt(set, validAt, recordedAt) ==
  LET governing == Governing(set, validAt, recordedAt)
      selected == {c \in governing : \A d \in governing \ {c} : Prior(set, recordedAt, c, d)}
  IN [selected |-> selected, candidates |-> governing,
      conflicts |-> {d \in governing : \A c \in selected : c.value # d.value}]

-----------------------------------------------------------------------------
(* Replay. *)

\* Mutant: the instant of the cutoff is left out.
KnownBefore(until) == {r \in records : r.from < until}

KnownUntil(until) == {r \in records : r.from <= until}

\* Replay appends in canonical order, and throws at a transition that comes
\* before its claim.
Refused(until) ==
  \E t \in KnownUntil(until) :
    /\ t.kind = "transition"
    /\ ~\E c \in ClaimsIn(KnownUntil(until)) : c.id = t.target /\ Before(c, t)

Replay(until) == KnownUntil(until)

-----------------------------------------------------------------------------
Init == records = {}

Next ==
  \/ \E id \in ClaimIds, claim \in Claims, from \in Instants :
       AppendClaim([id |-> id, kind |-> "claim", from |-> from, to |-> Open,
                    validFrom |-> claim.validFrom, validTo |-> claim.validTo,
                    lifecycle |-> claim.lifecycle, level |-> claim.level,
                    confidence |-> claim.confidence, value |-> claim.value])
  \/ \E transition \in Transition : AppendLifecycleTransition(transition)

Spec == Init /\ [][Next]_records

-----------------------------------------------------------------------------
\* What was known at an instant is what a replay up to that instant or a later
\* one knows of it: the same claim governs and the same claims contradict it.
\* A replay is refused only when a transition was dated before its claim.
\* There is one governing claim at most, and one if anything is a candidate.
ReplayProjects ==
  \A until \in Instants :
    IF Refused(until)
    THEN \E t \in records, c \in records :
           t.kind = "transition" /\ c.id = t.target /\ t.from < c.from
    ELSE \A validAt \in Instants, recordedAt \in 0..until :
           LET live == ProjectAt(records, validAt, recordedAt)
           IN /\ ProjectAt(Replay(until), validAt, recordedAt) = live
              /\ Cardinality(live.selected) <= 1
              /\ live.candidates # {} => live.selected # {}
=============================================================================
