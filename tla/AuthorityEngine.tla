---------------------------- MODULE AuthorityEngine ----------------------------
(***************************************************************************)
(* Who may say what: policies give principals a level of authority over    *)
(* predicates, for purposes, under conditions and for a time, and          *)
(* candidates are ranked by it (packages/authority).                       *)
(***************************************************************************)
EXTENDS Integers, FiniteSetsExt

CONSTANTS
  Policies,    \* [id, principals, predicates, purposes, conditions, level, from, to]
  Candidates,  \* [id, principal, confidence]
  Requests     \* [predicate, purpose, context, at]

VARIABLE policies  \* those registered

PoliciesAssumption ==
  \A p \in Policies : /\ p.principals # {} /\ p.predicates # {} /\ p.purposes # {}
                      /\ p.level \in Int /\ p.from < p.to

-----------------------------------------------------------------------------
\* An identifier is registered once.
Register(policy) ==
  /\ \A p \in policies : p.id # policy.id
  /\ policies' = policies \cup {policy}

\* A predicate is in scope by one of the prefixes; predicates stands for the
\* predicates that have one of them.  Conditions and context are sets of facts.
Matches(policy, candidate, request) ==
  /\ candidate.principal \in policy.principals
  /\ request.predicate \in policy.predicates /\ request.purpose \in policy.purposes
  /\ policy.from <= request.at /\ request.at < policy.to
  /\ policy.conditions \subseteq request.context

Matched(registered, candidate, request) ==
  {p \in registered : Matches(p, candidate, request)}

\* Mutant: the first policy governs, whatever its level.
FirstLevel(registered, candidate, request) ==
  LET matched == Matched(registered, candidate, request)
  IN  IF matched = {} THEN 0
      ELSE (CHOOSE p \in matched : \A q \in matched : p.id <= q.id).level

\* Without a policy the level is zero, which is more than a negative one.
Level(registered, candidate, request) ==
  LET matched == Matched(registered, candidate, request)
  IN  IF matched = {} THEN 0
      ELSE Max({p.level : p \in matched})

Before(registered, c, d, request) ==
  LET level(e) == Level(registered, e, request) IN
  \/ level(c) > level(d)
  \/ level(c) = level(d) /\ c.confidence > d.confidence
  \/ level(c) = level(d) /\ c.confidence = d.confidence /\ c.id < d.id

Selected(registered, request) ==
  CHOOSE c \in Candidates : \A d \in Candidates \ {c} : Before(registered, c, d, request)

-----------------------------------------------------------------------------
Init == policies = {}

Next == \E policy \in Policies : Register(policy)

Spec == Init /\ [][Next]_policies

-----------------------------------------------------------------------------
\* Policies that come later do not take authority away: a candidate's level
\* falls only from the zero of having had no policy, and the candidate that was
\* selected under a policy loses its place only to one whose level rose.
AuthorityAccumulates ==
  \A before \in SUBSET policies, request \in Requests :
    LET rose(c) == Level(policies, c, request) > Level(before, c, request)
        was == Selected(before, request)
        is == Selected(policies, request) IN
    /\ \A c \in Candidates :
         Matched(before, c, request) # {} => Level(policies, c, request) >= Level(before, c, request)
    /\ Matched(before, was, request) # {} /\ is # was => rose(is)
=============================================================================
