--------------------------- MODULE HostedComputeNode ---------------------------
(***************************************************************************)
(* The runtime of a hosted compute node (services/compute-node): it        *)
(* connects to a state port, sends heartbeats, and each runNext asks for   *)
(* the next lease, has it authorized, executes its envelope or joins the   *)
(* execution of the same idempotency key, and publishes the observation.   *)
(*                                                                         *)
(* Every call is cut at its awaits; what a call read before an await it    *)
(* keeps.  The state port answers as it likes, or throws: it may hand out  *)
(* the envelope of a key again, after a lost answer or to another lease.   *)
(* An envelope is its key and what its fingerprint covers; instants are    *)
(* numbers.  A lease for another node or session than the call read, for   *)
(* another workspace, expired, or beyond what the node can do or may spend *)
(* is refused, and the call ends as if the port had thrown.                *)
(***************************************************************************)
EXTENDS Naturals, FiniteSets, SequencesExt, OpaqueIds

CONSTANTS
  Keys, Bodies,    \* an envelope is a key and a body
  MaxTime,         \* bound: instants 0 .. MaxTime
  MaxSessions,     \* bound: the calls of connect
  MaxHeartbeats,   \* bound: the calls of heartbeat
  MaxRuns          \* bound: the calls of runNext

VARIABLES
  session,         \* the current session, or NoSession
  connects,        \* the calls of connect, by number
  heartbeats,      \* the calls of heartbeat, by number
  runs,            \* the calls of runNext, by number
  executions,      \* key -> the remembered execution
  published        \* the observations given to the port, with their run

hosted == <<session, connects, heartbeats, runs, executions, published>>

Instants == 0..MaxTime
NoSession == [id |-> 0, expires |-> 0]
Envelopes == Keys \X Bodies

-----------------------------------------------------------------------------
(* Sessions. *)

Connect ==
  /\ session = NoSession
  /\ Len(connects) < MaxSessions
  /\ connects' = Append(connects, "registering")
  /\ UNCHANGED <<session, heartbeats, runs, executions, published>>

\* The port accepts the registration, or the call fails.  Nothing is looked at
\* again: the last of several connections wins.
Registered(c, expires) ==
  /\ connects[c] = "registering"
  /\ connects' = [connects EXCEPT ![c] = "done"]
  /\ session' = [id |-> c, expires |-> expires]
  /\ UNCHANGED <<heartbeats, runs, executions, published>>

RegistrationFails(c) ==
  /\ connects[c] = "registering"
  /\ connects' = [connects EXCEPT ![c] = "done"]
  /\ UNCHANGED <<session, heartbeats, runs, executions, published>>

Heartbeat(at) ==
  /\ session # NoSession
  /\ at <= session.expires
  /\ Len(heartbeats) < MaxHeartbeats
  /\ heartbeats' = Append(heartbeats, [session |-> session.id, phase |-> "sent"])
  /\ UNCHANGED <<session, connects, runs, executions, published>>

\* The answer replaces the session, whatever the session is by then.
HeartbeatAnswered(h, expires) ==
  /\ heartbeats[h].phase = "sent"
  /\ heartbeats' = [heartbeats EXCEPT ![h].phase = "done"]
  /\ session' = [id |-> heartbeats[h].session, expires |-> expires]
  /\ UNCHANGED <<connects, runs, executions, published>>

HeartbeatFails(h) ==
  /\ heartbeats[h].phase = "sent"
  /\ heartbeats' = [heartbeats EXCEPT ![h].phase = "done"]
  /\ UNCHANGED <<session, connects, runs, executions, published>>

-----------------------------------------------------------------------------
(* Work. *)

Moves(r, phase) == runs' = [runs EXCEPT ![r].phase = phase]

RunNext(at) ==
  /\ session # NoSession
  /\ at <= session.expires
  /\ Len(runs) < MaxRuns
  /\ runs' = Append(runs, [phase |-> "leasing", envelope |-> <<>>, authorized |-> FALSE])
  /\ UNCHANGED <<session, connects, heartbeats, executions, published>>

\* The port has nothing, throws, or hands out what the node must refuse.
NothingLeased(r) ==
  /\ runs[r].phase = "leasing"
  /\ Moves(r, "ended")
  /\ UNCHANGED <<session, connects, heartbeats, executions, published>>

Leased(r, envelope) ==
  /\ runs[r].phase = "leasing"
  /\ runs' = [runs EXCEPT ![r].phase = "authorizing", ![r].envelope = envelope]
  /\ UNCHANGED <<session, connects, heartbeats, executions, published>>

Denied(r) ==
  /\ runs[r].phase = "authorizing"
  /\ Moves(r, "ended")
  /\ UNCHANGED <<session, connects, heartbeats, executions, published>>

\* Mutant: an execution is remembered when it is done.
AuthorizedRemembersLate(r) ==
  LET key == runs[r].envelope[1]
      known == key \in DOMAIN executions /\ executions[key].status # "running"
  IN /\ runs[r].phase = "authorizing"
     /\ runs' = [runs EXCEPT ![r].authorized = TRUE, ![r].phase = "waiting"]
     /\ executions' = IF known THEN executions
                      ELSE Put(executions, key,
                             [body |-> runs[r].envelope[2], by |-> r,
                              count |-> 1 + IF key \in DOMAIN executions
                                            THEN executions[key].count ELSE 0,
                              status |-> "running"])
     /\ UNCHANGED <<session, connects, heartbeats, published>>

\* The authority allows it: from here to the call of the workload provider
\* there is no await.
Authorized(r) ==
  LET key == runs[r].envelope[1]
      body == runs[r].envelope[2]
      conflict == key \in DOMAIN executions /\ executions[key].body # body
  IN /\ runs[r].phase = "authorizing"
     /\ runs' = [runs EXCEPT ![r].authorized = TRUE,
                   ![r].phase = IF conflict THEN "ended" ELSE "waiting"]
     /\ executions' = IF key \in DOMAIN executions THEN executions
                      ELSE Put(executions, key,
                             [body |-> body, by |-> r, count |-> 1, status |-> "running"])
     /\ UNCHANGED <<session, connects, heartbeats, published>>

\* The workload provider answers, or throws; a failed execution is remembered
\* as well, for as long as the process lives.
ProviderAnswers(key, status) ==
  /\ executions[key].status = "running"
  /\ executions' = [executions EXCEPT ![key].status = status]
  /\ UNCHANGED <<session, connects, heartbeats, runs, published>>

Settled(r) == runs[r].phase = "waiting" /\ executions[runs[r].envelope[1]].status # "running"

\* Mutant: who waits is told of observations only.
PublishObservedOnly(r) ==
  /\ Settled(r)
  /\ executions[runs[r].envelope[1]].status = "observed"
  /\ Moves(r, "publishing")
  /\ UNCHANGED <<session, connects, heartbeats, executions, published>>

Publish(r) ==
  /\ Settled(r)
  /\ IF executions[runs[r].envelope[1]].status = "observed"
     THEN Moves(r, "publishing") ELSE Moves(r, "ended")
  /\ UNCHANGED <<session, connects, heartbeats, executions, published>>

PublicationEnds(r, ok) ==
  /\ runs[r].phase = "publishing"
  /\ Moves(r, "ended")
  /\ published' = IF ok THEN published \cup {<<r, runs[r].envelope[1]>>} ELSE published
  /\ UNCHANGED <<session, connects, heartbeats, executions>>

-----------------------------------------------------------------------------
Init == /\ session = NoSession /\ connects = <<>> /\ heartbeats = <<>>
        /\ runs = <<>> /\ executions = <<>> /\ published = {}

Answer ==
  \/ \E c \in DOMAIN connects :
       (\E expires \in Instants \ {0} : Registered(c, expires)) \/ RegistrationFails(c)
  \/ \E h \in DOMAIN heartbeats :
       (\E expires \in Instants \ {0} : HeartbeatAnswered(h, expires)) \/ HeartbeatFails(h)

RunStep(r) ==
  \/ NothingLeased(r)
  \/ \E envelope \in Envelopes : Leased(r, envelope)
  \/ Denied(r)
  \/ Authorized(r)
  \/ Publish(r)
  \/ \E ok \in BOOLEAN : PublicationEnds(r, ok)

ProviderStep ==
  \E key \in DOMAIN executions, status \in {"observed", "failed"} :
    ProviderAnswers(key, status)

Next ==
  \/ Connect
  \/ \E at \in Instants : Heartbeat(at) \/ RunNext(at)
  \/ Answer
  \/ \E r \in DOMAIN runs : RunStep(r)
  \/ ProviderStep

Fairness == /\ \A r \in 1..MaxRuns : WF_hosted(r \in DOMAIN runs /\ RunStep(r))
            /\ WF_hosted(ProviderStep)

Spec == Init /\ [][Next]_hosted /\ Fairness

-----------------------------------------------------------------------------
\* The work of an idempotency key runs once in the life of the process,
\* however many leases carry its envelope at a time or one after another, and
\* whatever became of it; it was authorized for the run that started it, and
\* every run that publishes it had an authority of its own for the same body.
WorkRunsOnce ==
  /\ \A key \in DOMAIN executions :
       /\ executions[key].count = 1
       /\ runs[executions[key].by].authorized
       /\ runs[executions[key].by].envelope = <<key, executions[key].body>>
  /\ \A p \in published :
       /\ executions[p[2]].status = "observed"
       /\ runs[p[1]].authorized
       /\ runs[p[1]].envelope = <<p[2], executions[p[2]].body>>

\* Every runNext ends.
RunsEnd ==
  \A r \in 1..MaxRuns : (r \in DOMAIN runs) ~> (r \in DOMAIN runs /\ runs[r].phase = "ended")
=============================================================================
