-------------------------- MODULE CollaborationHub --------------------------
(***************************************************************************)
(* CollaborationHub of packages/realtime/src/index.ts over a durable event *)
(* port (EventBus).  Publications are chained on one promise: when its     *)
(* turn comes, each checks its session and its authority, reads the        *)
(* version of the WorkInstance from the port, and appends an envelope with *)
(* the next one if that is the version its caller expected.  receive reads *)
(* what the session's subscription has not seen and commits the cursor of  *)
(* the subscription after every envelope; the caller gets them all when    *)
(* the last one is committed.  Sessions and presence live in memory.       *)
(*                                                                         *)
(* Sessions are named by the identifiers their clients choose.  A session  *)
(* is the object connect returned: a name with the number of the           *)
(* connection.  An envelope is known by its position in the port.  The     *)
(* port is LocalEventBus: an append puts an envelope into the file and the *)
(* Map before publish resolves, a commit does the same for a cursor.       *)
(***************************************************************************)
EXTENDS Naturals, Sequences

CONSTANTS
  Sessions,         \* session identifiers, each for one principal, work and visibility
  Works,            \* WorkInstances, each as the set of the sessions that are about it
  Public,           \* identifiers of public sessions; the others are internal
  Publishers, Receivers,  \* calls of publish and of receive that may be in progress
  MaxPublications, MaxConnections,  \* bounds on the calls
  FaultSets         \* sets of "append", "commit", "crash", "authority": what may happen together

ASSUME SessionsAssumption ==
  /\ Sessions # {} /\ Public \subseteq Sessions
  /\ Works \subseteq SUBSET Sessions
  /\ \A s \in Sessions : \E w \in Works : {v \in Works : s \in v} = {w}
ASSUME BoundsAssumption == MaxPublications \in Nat /\ MaxConnections \in Nat

\* The work of each session.
WorkOf == [s \in Sessions |-> CHOOSE w \in Works : s \in w]

VARIABLES
  faults,      \* what may happen in this execution: one of FaultSets, never changed
  session,     \* the connection each identifier names, 0 for none
  connections, \* connections so far, of all identifiers
  authorized,  \* sessions that the authority port allows at present
  presence,    \* identifiers that have a presence entry
  log,         \* envelopes in the port: [work, version, public]
  cursor,      \* committed cursor of each session's subscription
  queue,       \* #publishQueue: publications that wait or run
  pub,         \* publish calls: [phase, s, n, expected, public, actual]
  recv,        \* receive calls: [phase, s, todo, got]
  published,   \* publications so far
  returned     \* envelopes that receive has returned, of each session identifier

vars == <<faults, session, connections, authorized, presence, log, cursor,
          queue, pub, recv, published, returned>>

inSessions == <<session, connections, presence>>
inPublish  == <<queue, pub, published>>
inReceive  == <<cursor, recv, returned>>

NoPub  == [phase |-> "idle", s |-> CHOOSE s \in Sessions : TRUE, n |-> 0,
           expected |-> 0, public |-> FALSE, actual |-> 0]
NoRecv == [phase |-> "idle", s |-> CHOOSE s \in Sessions : TRUE, todo |-> <<>>, got |-> {}]

-----------------------------------------------------------------------------
(* Sessions                                                                *)

\* An identifier in use is taken over; its presence entry stays.
Connect(s) ==
  /\ s \in authorized
  /\ connections < MaxConnections
  /\ connections' = connections + 1
  /\ session' = [session EXCEPT ![s] = connections + 1]
  /\ UNCHANGED <<faults, authorized, presence, log, inPublish, inReceive>>

Disconnect(s) ==
  /\ session[s] # 0
  /\ session' = [session EXCEPT ![s] = 0]
  /\ presence' = presence \ {s}
  /\ UNCHANGED <<faults, connections, authorized, log, inPublish, inReceive>>

UpdatePresence(s) ==
  /\ session[s] # 0
  /\ s \in authorized
  /\ presence' = presence \union {s}
  /\ UNCHANGED <<faults, session, connections, authorized, log, inPublish, inReceive>>

\* The authority port changes its mind.
Authorize(s) ==
  /\ "authority" \in faults
  /\ authorized' = IF s \in authorized THEN authorized \ {s} ELSE authorized \union {s}
  /\ UNCHANGED <<faults, log, inSessions, inPublish, inReceive>>

-----------------------------------------------------------------------------
(* publish                                                                 *)

Of(w) == {p \in DOMAIN log : log[p].work = w}

\* #currentVersion finds v: the highest version among the envelopes of a work.
IsVersion(w, v) ==
  /\ \A p \in Of(w) : log[p].version <= v
  /\ v = 0 \/ \E p \in Of(w) : log[p].version = v

\* publish, called with the session of the present connection, waits.
Publish(k, s, expected, public) ==
  /\ pub[k].phase = "idle"
  /\ session[s] # 0
  /\ published < MaxPublications
  /\ published' = published + 1
  /\ queue' = Append(queue, k)
  /\ pub' = [pub EXCEPT ![k] = [phase |-> "queued", s |-> s, n |-> session[s],
                                expected |-> expected, public |-> public, actual |-> 0]]
  /\ UNCHANGED <<faults, authorized, log, inSessions, inReceive>>

\* A publication that does not wait for those before it.
TurnOfAny(k) == \E i \in DOMAIN queue : queue[i] = k

Turn(k) == queue # <<>> /\ Head(queue) = k

\* A publication settles and the next one has its turn, or the caller's
\* rejection is the end of the chain.
SettlesAlone(k) ==
  /\ pub' = [pub EXCEPT ![k] = NoPub]
  /\ queue' = IF pub[k].phase = "appended" THEN Tail(queue) ELSE queue

Settles(k) ==
  /\ pub' = [pub EXCEPT ![k] = NoPub]
  /\ queue' = Tail(queue)

Admitted(k) ==
  LET s == pub[k].s
  IN  /\ session[s] = pub[k].n
      /\ s \in authorized
      /\ s \in Public => pub[k].public

\* Its turn has come: checks, and the reading of the version.
Start(k) ==
  /\ Turn(k)
  /\ pub[k].phase = "queued"
  /\ IF Admitted(k)
       THEN /\ \E v \in 0..Len(log) :
                 /\ IsVersion(WorkOf[pub[k].s], v)
                 /\ pub' = [pub EXCEPT ![k].phase = "read", ![k].actual = v]
            /\ queue' = queue
       ELSE Settles(k)
  /\ UNCHANGED <<faults, authorized, log, published, inSessions, inReceive>>

\* The envelope is in the port, where others find it before publish resolves.
AppendEnvelope(k) ==
  /\ pub[k].phase = "read"
  /\ pub[k].expected = pub[k].actual
  /\ log' = Append(log, [work |-> WorkOf[pub[k].s], version |-> pub[k].actual + 1,
                         public |-> pub[k].public])
  /\ pub' = [pub EXCEPT ![k].phase = "appended"]
  /\ UNCHANGED <<faults, authorized, queue, published, inSessions, inReceive>>

\* The append resolves; or the version is in conflict, or the append fails.
EndPublish(k) ==
  /\ \/ pub[k].phase = "appended"
     \/ pub[k].phase = "read" /\ (pub[k].expected # pub[k].actual \/ "append" \in faults)
  /\ Settles(k)
  /\ UNCHANGED <<faults, authorized, log, published, inSessions, inReceive>>

-----------------------------------------------------------------------------
(* receive                                                                 *)

\* receive checks the session, and the port takes its snapshot.
Receive(r, s) ==
  /\ recv[r].phase = "idle"
  /\ session[s] # 0
  /\ s \in authorized
  /\ recv' = [recv EXCEPT ![r] =
       [phase |-> "consuming", s |-> s, got |-> {},
        todo |-> [i \in 1..(Len(log) - cursor[s]) |-> cursor[s] + i]]]
  /\ UNCHANGED <<faults, authorized, log, cursor, returned, inSessions, inPublish>>

\* What the handler of receive keeps.
Wanted(s, p) == log[p].work = WorkOf[s] /\ (s \in Public => log[p].public)

\* The handler takes the next envelope; its cursor is being committed.
Deliver(r) ==
  /\ recv[r].phase = "consuming"
  /\ recv[r].todo # <<>>
  /\ LET p == Head(recv[r].todo)
         s == recv[r].s
     IN  recv' = [recv EXCEPT ![r].phase = "committing",
                              ![r].got = IF Wanted(s, p) THEN @ \union {p} ELSE @]
  /\ UNCHANGED <<faults, authorized, log, cursor, returned, inSessions, inPublish>>

Commit(r) ==
  /\ recv[r].phase = "committing"
  /\ cursor' = [cursor EXCEPT ![recv[r].s] = Head(recv[r].todo)]
  /\ recv' = [recv EXCEPT ![r].phase = "consuming", ![r].todo = Tail(@)]
  /\ UNCHANGED <<faults, authorized, log, returned, inSessions, inPublish>>

\* The commit fails, and receive rejects.
CommitFails(r) ==
  /\ "commit" \in faults
  /\ recv[r].phase = "committing"
  /\ recv' = [recv EXCEPT ![r] = NoRecv]
  /\ UNCHANGED <<faults, authorized, log, cursor, returned, inSessions, inPublish>>

\* A result that only a session still connected gets.
ReturnIfConnected(r) ==
  /\ recv[r].phase = "consuming"
  /\ recv[r].todo = <<>>
  /\ returned' = IF session[recv[r].s] = 0 THEN returned
                 ELSE [returned EXCEPT ![recv[r].s] = @ \union recv[r].got]
  /\ recv' = [recv EXCEPT ![r] = NoRecv]
  /\ UNCHANGED <<faults, authorized, log, cursor, inSessions, inPublish>>

Return(r) ==
  /\ recv[r].phase = "consuming"
  /\ recv[r].todo = <<>>
  /\ returned' = [returned EXCEPT ![recv[r].s] = @ \union recv[r].got]
  /\ recv' = [recv EXCEPT ![r] = NoRecv]
  /\ UNCHANGED <<faults, authorized, log, cursor, inSessions, inPublish>>

-----------------------------------------------------------------------------

\* The process dies, and a new one opens the port.
Crash ==
  /\ "crash" \in faults
  /\ session' = [s \in Sessions |-> 0]
  /\ presence' = {}
  /\ queue' = <<>>
  /\ pub' = [k \in Publishers |-> NoPub]
  /\ recv' = [r \in Receivers |-> NoRecv]
  /\ UNCHANGED <<faults, connections, authorized, log, cursor, published, returned>>

Init ==
  /\ faults \in FaultSets
  /\ session = [s \in Sessions |-> 0]
  /\ connections = 0
  /\ authorized = Sessions
  /\ presence = {}
  /\ log = <<>>
  /\ cursor = [s \in Sessions |-> 0]
  /\ queue = <<>>
  /\ pub = [k \in Publishers |-> NoPub]
  /\ recv = [r \in Receivers |-> NoRecv]
  /\ published = 0
  /\ returned = [s \in Sessions |-> {}]

ContinuePublish(k) == Start(k) \/ AppendEnvelope(k) \/ EndPublish(k)
ContinueReceive(r) == Deliver(r) \/ Commit(r) \/ CommitFails(r) \/ Return(r)

Next ==
  \/ \E s \in Sessions :
       \/ Connect(s) \/ Disconnect(s) \/ UpdatePresence(s) \/ Authorize(s)
       \/ \E k \in Publishers, e \in 0..Len(log), public \in BOOLEAN : Publish(k, s, e, public)
       \/ \E r \in Receivers : Receive(r, s)
  \/ \E k \in Publishers : ContinuePublish(k)
  \/ \E r \in Receivers : ContinueReceive(r)
  \/ Crash

Spec == Init /\ [][Next]_vars

\* Appends and commits settle.
FairSpec ==
  /\ Spec
  /\ \A k \in Publishers : WF_vars(ContinuePublish(k))
  /\ \A r \in Receivers : WF_vars(ContinueReceive(r))

-----------------------------------------------------------------------------
(* Properties                                                              *)

TypeOK ==
  /\ faults \in FaultSets
  /\ session \in [Sessions -> 0..MaxConnections]
  /\ connections \in 0..MaxConnections
  /\ authorized \subseteq Sessions
  /\ presence \subseteq {s \in Sessions : session[s] # 0}
  /\ log \in Seq([work : Works, version : Nat \ {0}, public : BOOLEAN])
  /\ cursor \in [Sessions -> 0..Len(log)]
  /\ queue \in Seq(Publishers)
  /\ pub \in [Publishers -> [phase : {"idle", "queued", "read", "appended"}, s : Sessions,
                             n : 0..MaxConnections, expected : Nat, public : BOOLEAN,
                             actual : Nat]]
  /\ recv \in [Receivers -> [phase : {"idle", "consuming", "committing"}, s : Sessions,
                             todo : Seq(DOMAIN log), got : SUBSET DOMAIN log]]
  /\ published \in 0..MaxPublications
  /\ returned \in [Sessions -> SUBSET DOMAIN log]

\* implementation-status.md, "optimistic Work versions": the envelopes of a
\* work are numbered 1, 2, 3, ... in their order in the port (each version is
\* above the earlier ones, and 1 or the successor of one), so no two
\* publications that expected the same version are both accepted, whatever
\* waits, fails, is refused or dies between reading a version and using it.
VersionsConsecutive ==
  \A p \in DOMAIN log :
    /\ \A q \in 1..(p - 1) :
         log[q].work = log[p].work => log[q].version < log[p].version
    /\ \/ log[p].version = 1
       \/ \E q \in 1..(p - 1) :
            log[q].work = log[p].work /\ log[q].version + 1 = log[p].version

\* implementation-status.md, "resumable collaboration envelopes": when commits
\* do not fail and the process does not die, no envelope is lost between the
\* receive calls of a subscription, even if the session is disconnected or its
\* name taken over while one of them waits.  Every envelope for a session up to
\* the cursor of its subscription was returned by receive, or will be by one in
\* progress.
EnvelopesReturned ==
  faults \subseteq {"append", "authority"} =>
    \A s \in Sessions : \A p \in 1..cursor[s] : Wanted(s, p) =>
      p \in returned[s] \/ \E r \in Receivers : recv[r].s = s /\ p \in recv[r].got

\* Every publication and every receive ends, whatever became of those before it.
CallsEnd ==
  /\ \A k \in Publishers : pub[k].phase # "idle" ~> pub[k].phase = "idle"
  /\ \A r \in Receivers : recv[r].phase # "idle" ~> recv[r].phase = "idle"
=============================================================================
