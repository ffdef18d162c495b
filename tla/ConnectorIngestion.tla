-------------------------- MODULE ConnectorIngestion --------------------------
(***************************************************************************)
(* A connector that is polled (packages/connector-sdk) and delivers what   *)
(* it pulls to the ingestion fabric (packages/ingestion).                  *)
(*                                                                         *)
(* The source is a log of items; a cursor is a position in it.  An item    *)
(* has an external identifier, which is its idempotency key, and may come  *)
(* again later with another content.  Polls overlap.  What the runner's    *)
(* port does with a delivery is in its caller's hands; here it ingests it, *)
(* as the two interfaces suggest.  The ports of the fabric, that is the    *)
(* object store, the ledger and the bus, may fail having done their work   *)
(* or not; a ledger that refuses an identifier is such a failure.          *)
(***************************************************************************)
EXTENDS Naturals, FiniteSets, SequencesExt, OpaqueIds

CONSTANTS
  Keys, Contents,
  MaxItems,        \* bound: the length of the source
  MaxPolls,        \* bound: the calls of poll
  MaxFailures      \* bound: the failures of ports

VARIABLES
  source,                       \* the items of the external system
  cursor, delivered,            \* the runner
  receipts,                     \* the fabric: key -> the item accepted for it
  objects, ledger, announced,   \* behind its ports
  polls,
  failures                      \* the keys whose ingestion failed, in order

ingestion == <<source, cursor, delivered, receipts, objects, ledger, announced, polls, failures>>

Item == [key : Keys, content : Contents]
Ingesting == {"put", "append", "publish"}

Current(p) == polls[p].items[polls[p].at]

InFlight(key) == \E p \in DOMAIN polls : polls[p].phase \in Ingesting /\ Current(p).key = key

Moves(p, phase) == polls' = [polls EXCEPT ![p].phase = phase]

-----------------------------------------------------------------------------
(* The runner. *)

Poll ==
  /\ Len(polls) < MaxPolls
  /\ polls' = Append(polls, [phase |-> "pulling", cursor |-> cursor, next |-> cursor,
                             items |-> <<>>, at |-> 1])
  /\ UNCHANGED <<source, cursor, delivered, receipts, objects, ledger, announced, failures>>

\* A pull answers with items after its cursor, not always with all of them.
PullAnswers(p, next) ==
  /\ polls[p].phase = "pulling"
  /\ polls[p].cursor <= next
  /\ polls' = [polls EXCEPT ![p].phase = "items", ![p].next = next,
                            ![p].items = SubSeq(source, polls[p].cursor + 1, next)]
  /\ UNCHANGED <<source, cursor, delivered, receipts, objects, ledger, announced, failures>>

\* Mutant: an item that is being ingested is ingested again.
IngestAnyway(p) == "put"

\* An ingestion of its key that is in progress is waited for.
Ingest(p) ==
  LET key == Current(p).key
  IN IF key \in DOMAIN receipts THEN "accepted"
     ELSE IF InFlight(key) THEN "joining"
     ELSE "put"

\* The next item that has not been delivered is.
Deliver(p) ==
  /\ polls[p].phase = "items"
  /\ polls[p].at <= Len(polls[p].items)
  /\ IF Current(p).key \in delivered
     THEN polls' = [polls EXCEPT ![p].at = @ + 1]
     ELSE Moves(p, Ingest(p))
  /\ UNCHANGED <<source, cursor, delivered, receipts, objects, ledger, announced, failures>>

Delivered(p) ==
  /\ polls[p].phase = "accepted"
  /\ delivered' = delivered \cup {Current(p).key}
  /\ polls' = [polls EXCEPT ![p].phase = "items", ![p].at = @ + 1]
  /\ UNCHANGED <<source, cursor, receipts, objects, ledger, announced, failures>>

\* A poll that took long may put the cursor back.
MoveCursor(p) ==
  /\ polls[p].phase = "items"
  /\ polls[p].at > Len(polls[p].items)
  /\ cursor' = polls[p].next
  /\ Moves(p, "done")
  /\ UNCHANGED <<source, delivered, receipts, objects, ledger, announced, failures>>

PullFails(p) ==
  /\ polls[p].phase = "pulling"
  /\ Moves(p, "failed")
  /\ UNCHANGED <<source, cursor, delivered, receipts, objects, ledger, announced, failures>>

-----------------------------------------------------------------------------
(* The fabric. *)

\* Who has waited for an ingestion shares its outcome.
Settled(p, phase) ==
  LET waiting == {q \in DOMAIN polls : polls[q].phase = "joining"
                                        /\ Current(q).key = Current(p).key}
  IN polls' = [q \in DOMAIN polls |-> IF q \in waiting \cup {p}
                                      THEN [polls[q] EXCEPT !.phase = phase] ELSE polls[q]]

PutObject(p) == objects' = objects \cup {Current(p).content} /\ UNCHANGED <<ledger, announced>>
AppendEnvelope(p) == ledger' = Append(ledger, Current(p)) /\ UNCHANGED <<objects, announced>>
PublishAccepted(p) == announced' = announced \cup {Current(p).key} /\ UNCHANGED <<objects, ledger>>

PortWorks(p) ==
  \/ polls[p].phase = "put" /\ PutObject(p)
  \/ polls[p].phase = "append" /\ AppendEnvelope(p)
  \/ polls[p].phase = "publish" /\ PublishAccepted(p)

IngestStep(p) ==
  /\ PortWorks(p)
  /\ \/ polls[p].phase = "put" /\ Moves(p, "append") /\ UNCHANGED receipts
     \/ polls[p].phase = "append" /\ Moves(p, "publish") /\ UNCHANGED receipts
     \/ /\ polls[p].phase = "publish"
        /\ receipts' = Put(receipts, Current(p).key, Current(p))
        /\ Settled(p, "accepted")
  /\ UNCHANGED <<source, cursor, delivered, failures>>

\* The poll ends with the delivery that failed.
IngestFails(p, done) ==
  /\ polls[p].phase \in Ingesting
  /\ Len(failures) < MaxFailures
  /\ IF done THEN PortWorks(p) ELSE UNCHANGED <<objects, ledger, announced>>
  /\ Settled(p, "failed")
  /\ failures' = Append(failures, Current(p).key)
  /\ UNCHANGED <<source, cursor, delivered, receipts>>

-----------------------------------------------------------------------------
ItemAppears(item) ==
  /\ Len(source) < MaxItems
  /\ source' = Append(source, item)
  /\ UNCHANGED <<cursor, delivered, receipts, objects, ledger, announced, polls, failures>>

Init ==
  /\ source = <<>> /\ cursor = 0 /\ delivered = {} /\ receipts = <<>>
  /\ objects = {} /\ ledger = <<>> /\ announced = {} /\ polls = <<>> /\ failures = <<>>

Next ==
  \/ \E item \in Item : ItemAppears(item)
  \/ Poll
  \/ \E p \in DOMAIN polls :
       \/ PullFails(p)
       \/ \E next \in 0..Len(source) : PullAnswers(p, next)
       \/ Deliver(p) \/ Delivered(p) \/ MoveCursor(p)
       \/ IngestStep(p)
       \/ \E done \in BOOLEAN : IngestFails(p, done)

Spec == Init /\ [][Next]_ingestion

-----------------------------------------------------------------------------
\* However polls overlap, fail and are repeated, an item is neither lost nor
\* ingested twice: whatever lies behind the cursor has been accepted for its
\* key, that is stored, put on the ledger and announced; and the ledger holds
\* one envelope for a key, and one more at most for each failed ingestion.
IngestedOnce ==
  /\ \A k \in 1..cursor : source[k].key \in DOMAIN receipts
  /\ \A key \in DOMAIN receipts :
       /\ receipts[key].content \in objects
       /\ receipts[key] \in Range(ledger)
       /\ key \in announced
  /\ \A key \in Keys :
       Cardinality({n \in DOMAIN ledger : ledger[n].key = key})
         <= 1 + Cardinality({n \in DOMAIN failures : failures[n] = key})
=============================================================================
