---------------------------- MODULE ContextGateway ----------------------------
(***************************************************************************)
(* The context of an episode of work: which capabilities apply to it, and  *)
(* which segments of knowledge an agent may see, as of an instant.         *)
(*                                                                         *)
(* Both come from ports.  The gateway filters what they return by scope,   *)
(* by time and for secrets, asks a callback about what is left, and writes *)
(* segments under the same checks.  A port keeps everything it was given;  *)
(* its keeper revokes at the present, and what is recorded is recorded at  *)
(* the present.  The callbacks may be missing or throw, which denies; they *)
(* answer the same at every time.                                          *)
(***************************************************************************)
EXTENDS Naturals, Sequences

CONSTANTS
  Scopes,              \* workspace, instance of work and episode, as one
  Drafts,              \* segments to write
  Candidates,          \* capabilities the source may offer
  Requests,            \* [scope, validAt, transactionAt]
  Decision(_, _, _),   \* of a callback, on a request and an identifier
  Configurations,      \* the callbacks a gateway may be constructed with
  MaxStored, MaxOffered, MaxTime

VARIABLES
  evaluators,  \* the callbacks the gateway was constructed with
  clock,
  knowledge,   \* the segments, in the order they were appended
  writtenFor,  \* the requests under which they were written
  offered,     \* the capabilities
  answers      \* at most one, as of an instant that was past

context == <<evaluators, clock, knowledge, writtenFor, offered, answers>>

Never == MaxTime + 1
Evaluators == {"applicability", "read", "write"}

\* What the caller chooses; sensitive: a secret, grant or credential in it.
Draft == [id : Nat, scope : Scopes, sensitive : BOOLEAN, validFrom : 0..MaxTime,
          validTo : 1..Never, until : 1..Never]
Request == [scope : Scopes, validAt : 0..MaxTime, transactionAt : 0..MaxTime]

InputsAssumption ==
  /\ Drafts \cup Candidates \subseteq {d \in Draft : d.validFrom < d.validTo}
  /\ Requests \subseteq Request /\ Configurations \subseteq SUBSET Evaluators
  /\ \A e \in Evaluators, r \in Requests, d \in Drafts \cup Candidates :
       Decision(e, r, d.id) \in {"allowed", "denied", "throws"}

-----------------------------------------------------------------------------
(* Exclusion. *)

\* Mutant: what is revoked was never there.
OutsideOnceRevoked(value, request) ==
  \/ request.validAt < value.validFrom \/ request.validAt >= value.validTo
  \/ value.from > request.transactionAt
  \/ request.transactionAt >= value.until
  \/ value.revokedAt # Never

Outside(value, request) ==
  \/ request.validAt < value.validFrom \/ request.validAt >= value.validTo
  \/ value.from > request.transactionAt
  \/ request.transactionAt >= value.until
  \/ value.revokedAt <= request.transactionAt

Excluded(value, request) ==
  value.scope # request.scope \/ Outside(value, request) \/ value.sensitive

\* A callback that is missing, or that throws, denies.
Allowed(evaluator, request, value) ==
  /\ evaluator \in evaluators
  /\ Decision(evaluator, request, value.id) = "allowed"

\* One identifier twice in what a port returns: the request throws.
Ambiguous(values) == \E j, k \in DOMAIN values : j # k /\ values[j].id = values[k].id

Included(values, evaluator, request) ==
  {k \in DOMAIN values : /\ ~Excluded(values[k], request)
                         /\ Allowed(evaluator, request, values[k])}

-----------------------------------------------------------------------------
Recorded(draft) ==
  [id |-> draft.id, scope |-> draft.scope, sensitive |-> draft.sensitive,
   validFrom |-> draft.validFrom, validTo |-> draft.validTo, until |-> draft.until,
   from |-> clock, revokedAt |-> Never]

\* Mutant: a segment is written without a look at its times.
WriteAtAnyTime(request, draft) ==
  /\ Len(knowledge) < MaxStored /\ draft.until > clock
  /\ draft.scope = request.scope
  /\ ~draft.sensitive
  /\ Allowed("write", request, Recorded(draft))
  /\ knowledge' = Append(knowledge, Recorded(draft))
  /\ writtenFor' = Append(writtenFor, request)
  /\ UNCHANGED <<evaluators, clock, offered, answers>>

WriteContextSegment(request, draft) ==
  /\ Len(knowledge) < MaxStored /\ draft.until > clock
  /\ ~Excluded(Recorded(draft), request)
  /\ Allowed("write", request, Recorded(draft))
  /\ knowledge' = Append(knowledge, Recorded(draft))
  /\ writtenFor' = Append(writtenFor, request)
  /\ UNCHANGED <<evaluators, clock, offered, answers>>

Remember(domain, request, places) ==
  /\ request.transactionAt < clock
  /\ answers = {}
  /\ answers' = {[domain |-> domain, request |-> request, places |-> places]}
  /\ UNCHANGED <<evaluators, clock, knowledge, writtenFor, offered>>

ReconstructAgentKnowledgeWorkspace(request) ==
  /\ ~Ambiguous(knowledge)
  /\ Remember("knowledge", request, Included(knowledge, "read", request))

BuildEpisodeCapabilityContext(request) ==
  /\ ~Ambiguous(offered)
  /\ Remember("capability", request, Included(offered, "applicability", request))

-----------------------------------------------------------------------------
(* The ports' keepers, and time. *)

Offer(candidate) ==
  /\ Len(offered) < MaxOffered /\ candidate.until > clock
  /\ offered' = Append(offered, Recorded(candidate))
  /\ UNCHANGED <<evaluators, clock, knowledge, writtenFor, answers>>

Revoke(k) ==
  /\ \/ /\ k \in DOMAIN knowledge /\ knowledge[k].revokedAt = Never
        /\ knowledge' = [knowledge EXCEPT ![k].revokedAt = clock]
        /\ UNCHANGED offered
     \/ /\ k \in DOMAIN offered /\ offered[k].revokedAt = Never
        /\ offered' = [offered EXCEPT ![k].revokedAt = clock]
        /\ UNCHANGED knowledge
  /\ UNCHANGED <<evaluators, clock, writtenFor, answers>>

Tick ==
  /\ clock < MaxTime
  /\ clock' = clock + 1
  /\ UNCHANGED <<evaluators, knowledge, writtenFor, offered, answers>>

InitWith(configured) ==
  /\ evaluators = configured /\ clock = 0
  /\ knowledge = <<>> /\ writtenFor = <<>> /\ offered = <<>> /\ answers = {}

Init == \E configured \in Configurations : InitWith(configured)

Next ==
  \/ Tick
  \/ \E request \in Requests :
       \/ \E draft \in Drafts : WriteContextSegment(request, draft)
       \/ ReconstructAgentKnowledgeWorkspace(request)
       \/ BuildEpisodeCapabilityContext(request)
  \/ \E candidate \in Candidates : Offer(candidate)
  \/ \E k \in 1..MaxStored : Revoke(k)

Spec == Init /\ [][Next]_context

-----------------------------------------------------------------------------
\* What was answered as of a past instant is answered again, whatever was
\* written, offered and revoked since (packages/context-gateway).
AsOfIsRepeatable ==
  \A a \in answers :
    IF a.domain = "knowledge"
      THEN Ambiguous(knowledge) \/ Included(knowledge, "read", a.request) = a.places
      ELSE Ambiguous(offered) \/ Included(offered, "applicability", a.request) = a.places

\* A segment that was written under a request is reconstructed under it, when
\* reading it is allowed, until it is revoked.
WrittenIsReconstructed ==
  \A k \in DOMAIN knowledge :
    LET request == writtenFor[k]
    IN  knowledge[k].revokedAt > request.transactionAt
          => \/ k \in Included(knowledge, "read", request)
             \/ ~Allowed("read", request, knowledge[k])
=============================================================================
