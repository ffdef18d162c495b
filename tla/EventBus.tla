------------------------------ MODULE EventBus ------------------------------
(***************************************************************************)
(* LocalEventBus of packages/event-bus/src/index.ts: events are appended   *)
(* to a canonical ledger; a consume call takes a snapshot of the events    *)
(* after its subscription's cursor, and for each of them in turn awaits    *)
(* the handler and then the durable commit of the cursor.  Commits of all  *)
(* subscriptions replace one file and run one at a time (#cursorQueue).    *)
(* Several consume calls of one subscription may run at once, a handler or *)
(* a write may fail, and the process may crash at any await.               *)
(*                                                                         *)
(* Events carry no workspace, so all share one sequence: an event is its   *)
(* position in the log.  Publishing is one step here; CanonicalLedger is   *)
(* the model of what is inside.                                            *)
(***************************************************************************)
EXTENDS Naturals, Sequences

CONSTANTS
  Topics,       \* topics of events
  Subs,         \* subscription identifiers
  Wants,        \* [Subs -> SUBSET Topics]: the topics their prefixes match
  Calls,        \* consume calls, each made again and again
  SubOf,        \* [Calls -> Subs]
  MaxEvents,    \* bound on the events published
  MaxFailures   \* bound on crashes, failed handlers and failed writes

ASSUME WantsAssumption == Wants \in [Subs -> SUBSET Topics]
ASSUME SubOfAssumption == SubOf \in [Calls -> Subs]
ASSUME BoundsAssumption == MaxEvents \in Nat /\ MaxFailures \in Nat

VARIABLES
  log,         \* topics of the events in the ledger
  up,          \* is a process running with the bus open?
  cursors,     \* #cursors: position each subscription has reached, 0 at first
  cursorFile,  \* the content of cursors.json
  call,        \* consume calls: [phase, todo, at, snapshot]
  queue,       \* #cursorQueue: calls whose commit waits or runs, in order
  handled,     \* positions each subscription's handler has finished
  failures     \* failures so far

vars == <<log, up, cursors, cursorFile, call, queue, handled, failures>>

NoCursors == [s \in Subs |-> 0]

\* idle: not consuming; handling: the handler of the first event to do runs;
\* committing: the commit of position at waits; written: the file has it.
Phases == {"idle", "handling", "committing", "written"}

Idle == [phase |-> "idle", todo |-> {}, at |-> 0]

\* Events the handler of a subscription is called for.
Matching(s) == {p \in DOMAIN log : log[p] \in Wants[s]}

\* pending(subscription): strictly after the cursor.
Pending(s) == {p \in Matching(s) : p > cursors[s]}

Publish(t) ==
  /\ up
  /\ Len(log) < MaxEvents
  /\ log' = Append(log, t)
  /\ UNCHANGED <<up, cursors, cursorFile, call, queue, handled, failures>>

\* consume: take the snapshot; with nothing pending it returns at once.
Consume(c) ==
  /\ up
  /\ call[c].phase = "idle"
  /\ Pending(SubOf[c]) # {}
  /\ call' = [call EXCEPT ![c] = [phase |-> "handling", todo |-> Pending(SubOf[c]), at |-> 0]]
  /\ UNCHANGED <<log, up, cursors, cursorFile, queue, handled, failures>>

\* The cursor is committed before the handler has finished.
CommitThenHandle(c) ==
  \E p \in call[c].todo :
    /\ up
    /\ call[c].phase = "handling"
    /\ \A q \in call[c].todo : p <= q
    /\ call' = [call EXCEPT ![c] = [phase |-> "committing", todo |-> @.todo \ {p}, at |-> p]]
    /\ queue' = Append(queue, c)
    /\ handled' = [handled EXCEPT ![SubOf[c]] = @ \union {q \in DOMAIN log : q < p}]
    /\ UNCHANGED <<log, up, cursors, cursorFile, failures>>

\* await handler(item): done, and the commit of its position is queued.
Handle(c) ==
  \E p \in call[c].todo :
    /\ up
    /\ call[c].phase = "handling"
    /\ \A q \in call[c].todo : p <= q
    /\ handled' = [handled EXCEPT ![SubOf[c]] = @ \union {p}]
    /\ call' = [call EXCEPT ![c] = [phase |-> "committing", todo |-> @.todo \ {p}, at |-> p]]
    /\ queue' = Append(queue, c)
    /\ UNCHANGED <<log, up, cursors, cursorFile, failures>>

\* The handler throws: consume rejects, the cursor stays.
HandlerFails(c) ==
  /\ up
  /\ call[c].phase = "handling"
  /\ failures < MaxFailures
  /\ failures' = failures + 1
  /\ call' = [call EXCEPT ![c] = Idle]
  /\ UNCHANGED <<log, up, cursors, cursorFile, queue, handled>>

Committing(c) == up /\ queue # <<>> /\ c = Head(queue)

\* #commitCursor: the Map, with this subscription's cursor, becomes the file.
CommitWrite(c) ==
  /\ Committing(c)
  /\ call[c].phase = "committing"
  /\ cursorFile' = [cursors EXCEPT ![SubOf[c]] = call[c].at]
  /\ call' = [call EXCEPT ![c].phase = "written"]
  /\ UNCHANGED <<log, up, cursors, queue, handled, failures>>

\* A failed write that still moves the cursor in the Map.
CommitFailsButMoves(c) ==
  /\ Committing(c)
  /\ call[c].phase = "committing"
  /\ failures < MaxFailures
  /\ failures' = failures + 1
  /\ cursors' = [cursors EXCEPT ![SubOf[c]] = call[c].at]
  /\ call' = [call EXCEPT ![c] = Idle]
  /\ queue' = Tail(queue)
  /\ UNCHANGED <<log, up, cursorFile, handled>>

\* A failed write that is left at the head of the chain: nothing runs after it.
CommitFailsForGood(c) ==
  /\ Committing(c)
  /\ call[c].phase = "committing"
  /\ failures < MaxFailures
  /\ failures' = failures + 1
  /\ call' = [call EXCEPT ![c] = Idle]
  /\ UNCHANGED <<log, up, cursors, cursorFile, queue, handled>>

\* The write fails: consume rejects, the Map stays.
CommitFails(c) ==
  /\ Committing(c)
  /\ call[c].phase = "committing"
  /\ failures < MaxFailures
  /\ failures' = failures + 1
  /\ call' = [call EXCEPT ![c] = Idle]
  /\ queue' = Tail(queue)
  /\ UNCHANGED <<log, up, cursors, cursorFile, handled>>

\* The commit resolves: on to the next event of the snapshot, or done.
CommitSettles(c) ==
  /\ Committing(c)
  /\ call[c].phase = "written"
  /\ cursors' = [cursors EXCEPT ![SubOf[c]] = call[c].at]
  /\ call' = [call EXCEPT ![c] = IF @.todo = {} THEN Idle ELSE [@ EXCEPT !.phase = "handling"]]
  /\ queue' = Tail(queue)
  /\ UNCHANGED <<log, up, cursorFile, handled, failures>>

Crash ==
  /\ up
  /\ failures < MaxFailures
  /\ failures' = failures + 1
  /\ up' = FALSE
  /\ cursors' = NoCursors
  /\ call' = [c \in Calls |-> Idle]
  /\ queue' = <<>>
  /\ UNCHANGED <<log, cursorFile, handled>>

\* LocalEventBus.open
Open ==
  /\ ~up
  /\ up' = TRUE
  /\ cursors' = cursorFile
  /\ UNCHANGED <<log, cursorFile, call, queue, handled, failures>>

Init ==
  /\ log = <<>>
  /\ up = FALSE
  /\ cursors = NoCursors
  /\ cursorFile = NoCursors
  /\ call = [c \in Calls |-> Idle]
  /\ queue = <<>>
  /\ handled = [s \in Subs |-> {}]
  /\ failures = 0

Next ==
  \/ \E t \in Topics : Publish(t)
  \/ \E c \in Calls :
       \/ Consume(c) \/ Handle(c) \/ HandlerFails(c)
       \/ CommitWrite(c) \/ CommitFails(c) \/ CommitSettles(c)
  \/ Crash \/ Open

\* A subscriber asks again as long as events are pending, handlers and
\* writes end, and the process is restarted.
Fairness ==
  /\ \A c \in Calls :
       /\ WF_vars(Consume(c))
       /\ WF_vars(Handle(c) \/ HandlerFails(c))
       /\ WF_vars(CommitWrite(c) \/ CommitFails(c))
       /\ WF_vars(CommitSettles(c))
  /\ WF_vars(Open)

Spec == Init /\ [][Next]_vars
FairSpec == Spec /\ Fairness

-----------------------------------------------------------------------------
(* Properties                                                              *)

TypeOK ==
  /\ log \in Seq(Topics)
  /\ up \in BOOLEAN
  /\ cursors \in [Subs -> Nat] /\ cursorFile \in [Subs -> Nat]
  /\ call \in [Calls -> [phase : Phases, todo : SUBSET Nat, at : Nat]]
  /\ queue \in Seq(Calls)
  /\ handled \in [Subs -> SUBSET Nat]
  /\ failures \in 0..MaxFailures

\* At-least-once: the cursor of a subscription, in memory or in the file,
\* never passes an event its handler has not finished, however many calls
\* consume the subscription, whatever fails and whenever the process dies.
NothingSkipped ==
  \A s \in Subs, p \in DOMAIN log :
    /\ p \in Matching(s)
    /\ p <= cursors[s] \/ p <= cursorFile[s]
    => p \in handled[s]

\* A cursor that a restart would take back is never used: but for the commit
\* between its two steps, the file says what the Map says.
CursorsDurable ==
  up /\ (\A c \in Calls : call[c].phase # "written") => cursors = cursorFile

\* Every event a subscription asks for is handled in the end.
EverythingHandled ==
  \A s \in Subs, p \in 1..MaxEvents :
    p \in Matching(s) ~> p \in handled[s]
=============================================================================
