------------------------------ MODULE EventFeed ------------------------------
(***************************************************************************)
(* Paged reads of the ledger over HTTP: handleSubscribe returns platform   *)
(* events and entityState the other records about an entity, page by page  *)
(* (services/platform-api/src/main.ts).  A reader starts without a cursor, *)
(* asks for pages of at most Limit entries, passes the nextCursor of each  *)
(* page to the next request, and stops at a page without one.  Meanwhile   *)
(* records are appended.                                                   *)
(*                                                                         *)
(* The ledger is one sequence of entries per workspace; the place of an    *)
(* entry in it is its ledgerSequence.  An entry is an event or a record of *)
(* the entity; the rest of the ledger is never a candidate.                *)
(***************************************************************************)
EXTENDS Naturals, Sequences, FiniteSets

CONSTANTS
  Workspaces,  \* workspaces whose records share the ledger, numbered in the order
               \* localeCompare gives their identifiers
  Limit,       \* entries on a page
  MaxEntries   \* bound on the entries of a workspace

LimitAssumption == Workspaces \subseteq Nat /\ Limit \in Nat \ {0} /\ MaxEntries \in Nat

VARIABLES
  log,     \* [Workspaces -> Seq(Kinds)]: the ledger
  feed,    \* what the reader reads: "subscription" or "state"
  cursor,  \* the cursor of the next request, 0 for none
  got,     \* places of the entries the reader has been given
  owed,    \* places of the entries the ledger held when the reader began
  phase    \* "idle", "reading" or "done"

vars == <<log, feed, cursor, got, owed, phase>>

Kinds == {"event", "record"}

Places == {<<w, n>> : w \in Workspaces, n \in 1..MaxEntries}

KindAt(p) == log[p[1]][p[2]]

\* Entries of the feed's kind in the ledger.
Wanted ==
  {p \in Places : /\ p[2] \in DOMAIN log[p[1]]
                  /\ KindAt(p) = IF feed = "subscription" THEN "event" ELSE "record"}

\* Entries strictly after the cursor, whatever their workspace.
Candidates == {p \in Wanted : p[2] > cursor}

\* The order of a response: query sorts by workspace and then by sequence,
\* entityState sorts that again, stably, by sequence alone.
Before(p, q) ==
  IF feed = "subscription"
    THEN p[1] < q[1] \/ (p[1] = q[1] /\ p[2] < q[2])
    ELSE p[2] < q[2] \/ (p[2] = q[2] /\ p[1] < q[1])

\* slice(0, limit)
Page == {p \in Candidates : Cardinality({q \in Candidates : Before(q, p)}) < Limit}

\* The sequence of the first entry that did not fit on the page.
NextCursorBeyond ==
  LET rest == Candidates \ Page
  IN  IF rest = {} THEN {} ELSE {(CHOOSE p \in rest : \A q \in rest : p = q \/ Before(p, q))[2]}

\* A cursor as long as the page is not the whole feed.
NextCursorByTotal ==
  IF Wanted = Page THEN {}
  ELSE IF Page = {} THEN {cursor}
  ELSE {(CHOOSE p \in Page : \A q \in Page : p = q \/ Before(q, p))[2]}

\* page.at(-1).ledgerSequence when there are more candidates, else null.
NextCursor ==
  IF Candidates = Page THEN {}
  ELSE {(CHOOSE p \in Page : \A q \in Page : p = q \/ Before(q, p))[2]}

Append1(w, kind) ==
  /\ Len(log[w]) < MaxEntries
  /\ log' = [log EXCEPT ![w] = Append(@, kind)]
  /\ UNCHANGED <<feed, cursor, got, owed, phase>>

\* A reader begins; what the ledger holds now is what it must see.
Begin ==
  /\ phase = "idle"
  /\ phase' = "reading"
  /\ owed' = Wanted
  /\ UNCHANGED <<log, feed, cursor, got>>

\* One request and its response.
ReadPage ==
  /\ phase = "reading"
  /\ got' = got \union Page
  /\ phase' = IF NextCursor = {} THEN "done" ELSE "reading"
  /\ cursor' \in IF NextCursor = {} THEN {cursor} ELSE NextCursor
  /\ UNCHANGED <<log, feed, owed>>

Init ==
  /\ log = [w \in Workspaces |-> <<>>]
  /\ feed \in {"subscription", "state"}
  /\ cursor = 0
  /\ got = {}
  /\ owed = {}
  /\ phase = "idle"

Next ==
  \/ \E w \in Workspaces, kind \in Kinds : Append1(w, kind)
  \/ Begin
  \/ ReadPage

Spec == Init /\ [][Next]_vars

\* A reader that has begun asks for the next page.
Fairness == WF_vars(ReadPage)

-----------------------------------------------------------------------------
(* Properties                                                              *)

\* ADR 0006: a cursor means "strictly after ledger sequence".  A reader that
\* follows nextCursor to the end has been given everything the ledger held
\* when it began, although records are appended between its requests.
SweepComplete == phase = "done" => owed \subseteq got

\* Following nextCursor ends.
SweepEnds == phase = "reading" ~> phase = "done"
=============================================================================
