----------------------------- MODULE MCEventBus -----------------------------
(***************************************************************************)
(* The two ways to read the ledger: subscriptions of the event bus, with   *)
(* two calls that consume one of them and a third that consumes another,   *)
(* and the paged reads over HTTP of a ledger with one workspace.  They     *)
(* share no state of the process, so a behaviour of this module exercises  *)
(* one of them, chosen at the start.                                       *)
(***************************************************************************)
EXTENDS EventBus, TLC

CONSTANTS claim, work, s1, s2, c1, c2, c3, Limit, MaxEntries

VARIABLES reader, entries, feed, cursor, got, owed, phase

pages == <<entries, feed, cursor, got, owed, phase>>

MCWants == (s1 :> {claim, work}) @@ (s2 :> {work})
MCSubOf == (c1 :> s1) @@ (c2 :> s1) @@ (c3 :> s2)

Feed == INSTANCE EventFeed WITH log <- entries, Workspaces <- {1}

ASSUME PageAssumption == Feed!LimitAssumption

\* The one that is not exercised is at rest: no step of it is enabled that
\* fairness would ask for.
BusAtRest ==
  /\ log = <<>> /\ up = TRUE /\ cursors = NoCursors /\ cursorFile = NoCursors
  /\ call = [c \in Calls |-> Idle] /\ queue = <<>>
  /\ handled = [s \in Subs |-> {}] /\ failures = 0
FeedAtRest ==
  /\ entries = <<<<>>>> /\ feed = "state" /\ cursor = 0
  /\ got = {} /\ owed = {} /\ phase = "idle"

MCInit ==
  \/ reader = "bus" /\ Init /\ FeedAtRest
  \/ reader = "feed" /\ Feed!Init /\ BusAtRest

MCNext ==
  /\ UNCHANGED reader
  /\ \/ reader = "bus" /\ Next /\ UNCHANGED pages
     \/ reader = "feed" /\ Feed!Next /\ UNCHANGED vars

MCSpec == MCInit /\ [][MCNext]_<<reader, vars, pages>> /\ Fairness /\ Feed!Fairness

\* A reader that follows nextCursor misses nothing (EventFeed).
SweepComplete == Feed!SweepComplete

\* Every event a subscription wants is handled by it (EventBus), and following
\* nextCursor ends (EventFeed).
ReadersArrive == EverythingHandled /\ Feed!SweepEnds
=============================================================================
