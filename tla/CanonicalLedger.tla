--------------------------- MODULE CanonicalLedger ---------------------------
(***************************************************************************)
(* LocalCanonicalLedger of packages/storage/src/index.ts: the durable      *)
(* ledger behind the Platform API, the event bus and the personal runtime. *)
(* One process holds a Map of records and a counter per workspace; callers *)
(* append batches concurrently; a promise chain (#writeQueue) runs one     *)
(* batch at a time; each run replaces the whole JSON file (write a         *)
(* temporary file, rename it over the old one) and only then updates the   *)
(* Map.  The process may crash between any two awaited steps and reopen    *)
(* the file.                                                               *)
(*                                                                         *)
(* The file is abstracted to the set of its entries: runs write it sorted  *)
(* by workspace and sequence (compareRecords), so its order is a function  *)
(* of the entries.  A legacy file, written before sequences existed, holds *)
(* entries with no sequence (NoSeq) in an order of its own; what the       *)
(* constructor reads of that order is each entry's rank among the entries  *)
(* of its workspace, the constant LegacyRank.                              *)
(***************************************************************************)
EXTENDS Naturals, Sequences, FiniteSets

CONSTANTS
  Ids,         \* record identifiers
  Workspaces,  \* workspaces (workspaceScope of a record)
  Calls,       \* appendBatch calls, each made at most once
  Batches,     \* the batches a caller may pass: sequences of records
  Legacy,      \* the legacy entries the file may hold at first
  LegacyRank   \* rank of a legacy entry among those of its workspace

NoSeq == 0                       \* ledgerSequence === undefined

Record == [id : Ids, ws : Workspaces, seq : Nat]

ASSUME BatchesAssumption == Batches \subseteq Seq(Record)

\* Legacy entries have distinct ids, carry no sequence, and their ranks
\* number the entries of each workspace.
ASSUME LegacyAssumption ==
  /\ Legacy \subseteq [id : Ids, ws : Workspaces, seq : {NoSeq}]
  /\ LegacyRank \in [Ids -> Nat \ {0}]
  /\ \A e, f \in Legacy :
        e.id = f.id \/ (e.ws = f.ws /\ LegacyRank[e.id] = LegacyRank[f.id]) => e = f

VARIABLES
  disk,     \* the entries of the file at #path
  up,       \* is a process running with the ledger open?
  records,  \* #records: the entries the process knows
  nextSeq,  \* #nextSequenceByWorkspace
  queue,    \* #writeQueue: the calls waiting for their run, in order
  status,   \* what became of each call
  batch,    \* the records each call was given
  plan      \* what the run in progress will store: [entries, counters]

vars == <<disk, up, records, nextSeq, queue, status, batch, plan>>

Status == {"idle", "queued", "writing", "renamed", "ok", "failed", "lost"}

NoPlan == [entries |-> {}, counters |-> [w \in Workspaces |-> 0]]

-----------------------------------------------------------------------------
(* Opening a file                                                          *)

\* An entry as the constructor reads it: a legacy entry receives the next
\* sequence of its workspace.
Sequenced(e) == [e EXCEPT !.seq = IF @ = NoSeq THEN LegacyRank[e.id] ELSE @]

Opened(file) == {Sequenced(e) : e \in file}

\* The constructor throws unless ids are unique and, in file order, each
\* workspace's sequences are positive and strictly increasing.
Openable(file) ==
  \A e, f \in Opened(file) :
    /\ e.seq >= 1
    /\ e.id = f.id \/ (e.ws = f.ws /\ e.seq = f.seq) => e = f

\* The counter of a workspace after the constructor's loop: its last
\* sequence, 0 when it has no entry.
Counters(entries) ==
  {n \in [Workspaces -> {0} \union {e.seq : e \in entries}] :
     \A w \in Workspaces :
       LET own == {e \in entries : e.ws = w}
       IN  /\ \A e \in own : e.seq <= n[w]
           /\ (own = {}) = (n[w] = 0)
           /\ n[w] # 0 => \E e \in own : e.seq = n[w]}

-----------------------------------------------------------------------------
(* appendBatch                                                             *)

\* A run that forgets the records of its own batch when it numbers one.
AssignedOnce(b, i) == nextSeq[b[i].ws] + 1

\* The sequence the run assigns to the i-th record of a batch b.
Assigned(b, i) ==
  nextSeq[b[i].ws] + Cardinality({j \in 1..i : b[j].ws = b[i].ws})

Stored(b) == {[b[i] EXCEPT !.seq = Assigned(b, i)] : i \in DOMAIN b}

AdvancedCounters(b) ==
  [w \in Workspaces |-> nextSeq[w] + Cardinality({j \in DOMAIN b : b[j].ws = w})]

\* A run that compares a batch with itself but not with the Map.
RejectedForItself(b) ==
  \/ \E i \in DOMAIN b : b[i].seq # NoSeq
  \/ \E i, j \in DOMAIN b : i # j /\ b[i].id = b[j].id

\* A run throws before writing: a record came with a sequence, an id is
\* known already, or the batch holds an id twice.
Rejected(b) ==
  \/ \E i \in DOMAIN b : b[i].seq # NoSeq
  \/ \E i \in DOMAIN b : \E e \in records : e.id = b[i].id
  \/ \E i, j \in DOMAIN b : i # j /\ b[i].id = b[j].id

Running == {c \in Calls : status[c] \in {"writing", "renamed"}}

\* appendBatch(records): the run is chained behind the earlier ones.
Call(c, b) ==
  /\ up
  /\ status[c] = "idle"
  /\ status' = [status EXCEPT ![c] = "queued"]
  /\ batch' = [batch EXCEPT ![c] = b]
  /\ queue' = Append(queue, c)
  /\ UNCHANGED <<disk, up, records, nextSeq, plan>>

\* A waiting run starts when the chain reaches it.
Turn(c) ==
  /\ up
  /\ Running = {}
  /\ queue # <<>> /\ c = Head(queue)
  /\ queue' = Tail(queue)

\* The rejection of a run that is lost: its caller waits for ever.
RejectsNobody(c) ==
  /\ Turn(c)
  /\ Rejected(batch[c])
  /\ UNCHANGED <<disk, up, records, nextSeq, status, batch, plan>>

\* The run throws before it writes; the chain goes on (result.catch).
Reject(c) ==
  /\ Turn(c)
  /\ Rejected(batch[c])
  /\ status' = [status EXCEPT ![c] = "failed"]
  /\ UNCHANGED <<disk, up, records, nextSeq, batch, plan>>

\* An empty batch resolves at once.
AppendNothing(c) ==
  /\ Turn(c)
  /\ batch[c] = <<>>
  /\ status' = [status EXCEPT ![c] = "ok"]
  /\ UNCHANGED <<disk, up, records, nextSeq, batch, plan>>

\* The synchronous head of run: number the records, check them, and build
\* the new content of the file.
StartWrite(c) ==
  /\ Turn(c)
  /\ ~Rejected(batch[c])
  /\ batch[c] # <<>>
  /\ status' = [status EXCEPT ![c] = "writing"]
  /\ plan' = [entries  |-> Stored(batch[c]),
              counters |-> AdvancedCounters(batch[c])]
  /\ UNCHANGED <<disk, up, records, nextSeq, batch>>

\* atomicWriteJson up to its last step: the temporary file replaces the old
\* one.  The file now holds the known records and the new ones.
Rename(c) ==
  /\ up
  /\ status[c] = "writing"
  /\ disk' = records \union plan.entries
  /\ status' = [status EXCEPT ![c] = "renamed"]
  /\ UNCHANGED <<up, records, nextSeq, queue, batch, plan>>

\* Three ways to mishandle a failed write: update the Map before the file,
\* return the caught chain in place of the run, keep the counters.
FailureKeepsRecords(c) ==
  /\ up
  /\ status[c] = "writing"
  /\ status' = [status EXCEPT ![c] = "failed"]
  /\ records' = records \union plan.entries
  /\ plan' = NoPlan
  /\ UNCHANGED <<disk, up, nextSeq, queue, batch>>

FailureResolves(c) ==
  /\ up
  /\ status[c] = "writing"
  /\ status' = [status EXCEPT ![c] = "ok"]
  /\ plan' = NoPlan
  /\ UNCHANGED <<disk, up, records, nextSeq, queue, batch>>

FailureKeepsCounters(c) ==
  /\ up
  /\ status[c] = "writing"
  /\ status' = [status EXCEPT ![c] = "failed"]
  /\ nextSeq' = plan.counters
  /\ plan' = NoPlan
  /\ UNCHANGED <<disk, up, records, queue, batch>>

\* mkdir, writeFile or rename fails: the run rejects, the file is as it was,
\* and the chain goes on (result.catch).
WriteFails(c) ==
  /\ up
  /\ status[c] = "writing"
  /\ status' = [status EXCEPT ![c] = "failed"]
  /\ plan' = NoPlan
  /\ UNCHANGED <<disk, up, records, nextSeq, queue, batch>>

\* The tail of run: the Map and the counters catch up with the file, and
\* the call resolves.
Settle(c) ==
  /\ up
  /\ status[c] = "renamed"
  /\ records' = records \union plan.entries
  /\ nextSeq' = plan.counters
  /\ status' = [status EXCEPT ![c] = "ok"]
  /\ plan' = NoPlan
  /\ UNCHANGED <<disk, up, queue, batch>>

-----------------------------------------------------------------------------
(* The process                                                             *)

\* The process dies: the Map, the counters and the waiting runs are gone,
\* and their callers never hear of them.
Crash ==
  /\ up
  /\ up' = FALSE
  /\ records' = {}
  /\ nextSeq' = [w \in Workspaces |-> 0]
  /\ queue' = <<>>
  /\ plan' = NoPlan
  /\ status' = [c \in Calls |->
                  IF status[c] \in {"queued", "writing", "renamed"}
                    THEN "lost" ELSE status[c]]
  /\ UNCHANGED <<disk, batch>>

\* LocalCanonicalLedger.open: it throws, and nothing changes, when the file
\* is not openable.
Open ==
  /\ ~up
  /\ Openable(disk)
  /\ up' = TRUE
  /\ records' = Opened(disk)
  /\ nextSeq' \in Counters(Opened(disk))
  /\ UNCHANGED <<disk, queue, status, batch, plan>>

-----------------------------------------------------------------------------

Init ==
  /\ disk = Legacy
  /\ up = FALSE
  /\ records = {}
  /\ nextSeq = [w \in Workspaces |-> 0]
  /\ queue = <<>>
  /\ status = [c \in Calls |-> "idle"]
  /\ batch = [c \in Calls |-> <<>>]
  /\ plan = NoPlan

Next ==
  \/ \E c \in Calls, b \in Batches : Call(c, b)
  \/ \E c \in Calls :
       \/ Reject(c) \/ AppendNothing(c) \/ StartWrite(c)
       \/ Rename(c) \/ WriteFails(c) \/ Settle(c)
  \/ Crash
  \/ Open

\* Promises settle and the runtime drains its queue of continuations; a
\* process supervisor restarts the process.
Fairness ==
  /\ \A c \in Calls :
       /\ WF_vars(Reject(c) \/ AppendNothing(c) \/ StartWrite(c))
       /\ WF_vars(Rename(c) \/ WriteFails(c))
       /\ WF_vars(Settle(c))
  /\ WF_vars(Open)

Spec == Init /\ [][Next]_vars
FairSpec == Spec /\ Fairness

-----------------------------------------------------------------------------
(* Properties                                                              *)

TypeOK ==
  /\ disk \subseteq Record
  /\ up \in BOOLEAN
  /\ records \subseteq Record
  /\ nextSeq \in [Workspaces -> Nat]
  /\ queue \in Seq(Calls)
  /\ status \in [Calls -> Status]
  /\ batch \in [Calls -> Seq(Record)]
  /\ plan \in [entries : SUBSET Record, counters : [Workspaces -> Nat]]

\* Whatever moment the process dies at, the file it leaves can be opened
\* again: the constructor's checks on ids and sequences never refuse what
\* appendBatch wrote, a legacy file rewritten by an append included.
AlwaysOpenable == Openable(disk)

\* get and query never show a record that a crash could take back: what is
\* in the Map is in the file, with the same sequence.
NoPhantomRead == records \subseteq Opened(disk)

\* S holds the records of a batch b, in the order of the batch.
Holds(S, b) ==
  \A i, j \in DOMAIN b :
    \E e, f \in S :
      /\ e.id = b[i].id /\ e.ws = b[i].ws
      /\ f.id = b[j].id /\ f.ws = b[j].ws
      /\ i < j /\ e.ws = f.ws => e.seq < f.seq

\* The records of an acknowledged append are in the file, in one workspace
\* order and in the order of the batch, through any later crash, failed
\* write or append.
AckedDurable == \A c \in Calls : status[c] = "ok" => Holds(Opened(disk), batch[c])

\* ADR 0006: a sequence is immutable.  No step of any process removes an
\* entry or changes its sequence, nor does reopening a legacy file that an
\* append rewrote.
AppendOnly == [][Opened(disk) \subseteq Opened(disk')]_vars

\* An append that is waiting ends, whatever happens to the writes before it:
\* it resolves, rejects, or is lost with its process.
EveryCallEnds ==
  \A c \in Calls : status[c] = "queued" ~> status[c] \in {"ok", "failed", "lost"}

\* The records whose append resolved.
Acknowledged ==
  UNION {{batch[c][i].id : i \in DOMAIN batch[c]} : c \in {d \in Calls : status[d] = "ok"}}

\* The file-based ledger implements the abstract one.
Abstract == INSTANCE AppendOnlyLedger WITH
  log   <- Opened(disk),
  acked <- Acknowledged

\* Every step of the file-based ledger publishes one whole batch at the end
\* of its workspaces' orders, acknowledges one call, or changes nothing an
\* observer of the log can see.
ImplementsAppendOnlyLedger == Abstract!Spec
=============================================================================
