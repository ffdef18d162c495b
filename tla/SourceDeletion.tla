---------------------------- MODULE SourceDeletion ----------------------------
(***************************************************************************)
(* The deletion of a source: the coordinator of packages/lifecycle over    *)
(* the provenance graph of packages/provenance and its ports, the indexes, *)
(* the object store, the ledger and the event bus.                         *)
(*                                                                         *)
(* A deletion invalidates the source in the graph, then waits for the      *)
(* indexes, for the objects if they are to be erased, for the ledger and   *)
(* for the bus.  A port that fails ends it there; the caller may delete    *)
(* the source again.  Deletions overlap.  Nodes are numbers in the order   *)
(* of their identifiers.                                                   *)
(***************************************************************************)
EXTENDS Naturals, SequencesExt

CONSTANTS
  N,               \* the nodes are 1 .. N
  MaxDeletions     \* bound: the calls of deleteSource

NAssumption == N \in Nat

VARIABLES
  derivedFrom,     \* the graph: node -> its direct sources
  invalidated,     \* the sources invalidated in the graph
  indexed, stored, \* the nodes in the indexes, the sources in the object store
  records,         \* the appended records
  deletions,       \* the calls of deleteSource, in order
  announced        \* the published events

deletion == <<derivedFrom, invalidated, indexed, stored, records, deletions, announced>>

Nodes == 1..N

-----------------------------------------------------------------------------
(* The provenance graph. *)

\* The nodes in a topological order: of the nodes whose sources have all been
\* placed the first comes next.  Shorter than N when there is a cycle.
Topological(parents) ==
  LET place[k \in 0..N] ==
        IF k = 0 THEN <<>>
        ELSE LET before == place[k - 1]
                 ready == {n \in Nodes : n \notin Range(before) /\ parents[n] \subseteq Range(before)}
             IN IF ready = {} THEN before
                ELSE Append(before, CHOOSE n \in ready : \A m \in ready : n <= m)
  IN place[N]

Buildable(parents) == Len(Topological(parents)) = N

\* Mutant: only what was derived directly.
TraceDownstreamOnce(id) == {n \in Nodes : id \in derivedFrom[n]}

\* Everything derived from a node, breadth first.
TraceDownstream(id) ==
  LET within[k \in 0..N] ==
        IF k = 0 THEN {}
        ELSE within[k - 1] \cup {n \in Nodes : derivedFrom[n] \cap (within[k - 1] \cup {id}) # {}}
  IN within[N]

TraceUpstream(id) ==
  LET within[k \in 0..N] ==
        IF k = 0 THEN {}
        ELSE within[k - 1] \cup UNION {derivedFrom[n] : n \in within[k - 1] \cup {id}}
  IN within[N]

Supported(id) == (TraceUpstream(id) \cup {id}) \cap invalidated = {}

\* Told directly, the graph invalidates the source before it looks at the
\* reason and the time it is given.
Invalidate(source) ==
  /\ invalidated' = invalidated \cup {source}
  /\ UNCHANGED <<derivedFrom, indexed, stored, records, deletions, announced>>

-----------------------------------------------------------------------------
(* The coordinator. *)

\* Mode: what the retention policy says of the source.
DeleteSource(source, permitted, mode) ==
  /\ permitted
  /\ Len(deletions) < MaxDeletions
  /\ invalidated' = invalidated \cup {source}
  /\ deletions' = Append(deletions,
       [source |-> source, mode |-> mode, affected |-> TraceDownstream(source),
        phase |-> "indexes"])
  /\ UNCHANGED <<derivedFrom, indexed, stored, records, announced>>

Moves(d, phase) == deletions' = [deletions EXCEPT ![d].phase = phase]

RemoveFromIndexes(d) ==
  /\ deletions[d].phase = "indexes"
  /\ indexed' = indexed \ (deletions[d].affected \cup {deletions[d].source})
  /\ Moves(d, IF deletions[d].mode = "physical-erasure" THEN "objects" ELSE "ledger")
  /\ UNCHANGED <<derivedFrom, invalidated, stored, records, announced>>

DeleteObject(d) ==
  /\ deletions[d].phase = "objects"
  /\ stored' = stored \ {deletions[d].source}
  /\ Moves(d, "ledger")
  /\ UNCHANGED <<derivedFrom, invalidated, indexed, records, announced>>

Record(d) == [source |-> deletions[d].source, mode |-> deletions[d].mode,
              affected |-> deletions[d].affected]

AppendRecord(d) ==
  /\ deletions[d].phase = "ledger"
  /\ records' = Append(records, Record(d))
  /\ Moves(d, "bus")
  /\ UNCHANGED <<derivedFrom, invalidated, indexed, stored, announced>>

Announcement(d) == [source |-> deletions[d].source, affected |-> deletions[d].affected]

Publish(d) ==
  /\ deletions[d].phase = "bus"
  /\ announced' = announced \cup {Announcement(d)}
  /\ Moves(d, "done")
  /\ UNCHANGED <<derivedFrom, invalidated, indexed, stored, records>>

\* A port throws, having done its work or not, or the policy gave no rationale
\* for the record; the call ends there.
PortFails(d, done) ==
  LET phase == deletions[d].phase
  IN /\ phase \in {"indexes", "objects", "ledger", "bus"}
     /\ Moves(d, "failed")
     /\ indexed' = IF done /\ phase = "indexes"
                   THEN indexed \ (deletions[d].affected \cup {deletions[d].source}) ELSE indexed
     /\ stored' = IF done /\ phase = "objects" THEN stored \ {deletions[d].source} ELSE stored
     /\ records' = IF done /\ phase = "ledger" THEN Append(records, Record(d)) ELSE records
     /\ announced' = IF done /\ phase = "bus" THEN announced \cup {Announcement(d)}
                     ELSE announced
     /\ UNCHANGED <<derivedFrom, invalidated>>

-----------------------------------------------------------------------------
Init == /\ derivedFrom \in {g \in [Nodes -> SUBSET Nodes] : Buildable(g)}
        /\ invalidated = {} /\ indexed = Nodes /\ stored = Nodes
        /\ records = <<>> /\ deletions = <<>> /\ announced = {}

Step(d) == \/ RemoveFromIndexes(d) \/ DeleteObject(d) \/ AppendRecord(d) \/ Publish(d)
           \/ \E done \in BOOLEAN : PortFails(d, done)

Next ==
  \/ \E source \in Nodes : Invalidate(source)
  \/ \E source \in Nodes, permitted \in BOOLEAN,
        mode \in {"logical-invalidation", "physical-erasure"} :
       DeleteSource(source, permitted, mode)
  \/ \E d \in DOMAIN deletions : Step(d)

Spec == Init /\ [][Next]_deletion

-----------------------------------------------------------------------------
\* Whatever fails, is repeated or overlaps: nothing leaves the indexes or the
\* object store unless it has lost its support; who is told of a deletion
\* finds the indexes free of everything that lost its support with the
\* source, the object erased if it had to be, and the deletion on record.
DeletionIsComplete ==
  /\ \A n \in Nodes : n \notin indexed \cap stored => ~Supported(n)
  /\ \A event \in announced :
       /\ \A n \in Nodes : event.source \in TraceUpstream(n) \cup {n} => n \notin indexed
       /\ \E k \in DOMAIN records :
            /\ records[k].source = event.source
            /\ records[k].mode = "physical-erasure" => event.source \notin stored
=============================================================================
