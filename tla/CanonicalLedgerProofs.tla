------------------------ MODULE CanonicalLedgerProofs ------------------------
(***************************************************************************)
(* Proofs about CanonicalLedger, for any number of callers, workspaces,    *)
(* batches and any legacy file.                                            *)
(***************************************************************************)
EXTENDS CanonicalLedger, FiniteSetTheorems, TLAPS

\* Every entry of S has a sequence.
Numbered(S) == \A e \in S : e.seq >= 1

\* No two entries of S share an identifier, nor a place in a workspace.
Unambiguous(S) ==
  \A e, f \in S : e.id = f.id \/ (e.ws = f.ws /\ e.seq = f.seq) => e = f

\* The chain holds each waiting call once.
QueueInv ==
  /\ \A i \in DOMAIN queue : status[queue[i]] = "queued"
  /\ \A i, j \in DOMAIN queue : queue[i] = queue[j] => i = j

\* The Map shows the file, but for the run that has replaced the file and
\* not settled yet.
MapInv ==
  /\ ~up => records = {} /\ queue = <<>> /\ Running = {}
  /\ up /\ (\A c \in Calls : status[c] # "renamed") => records = Opened(disk)
  /\ \A c \in Calls : status[c] = "renamed" => Opened(disk) = records \union plan.entries
  /\ Numbered(records)
  /\ \A e \in records : e.seq <= nextSeq[e.ws]

\* The run in progress, if any, is alone, and what it stores fits behind
\* what the Map holds.
PlanInv ==
  /\ \A c, d \in Running : c = d
  /\ \A c \in Running :
       /\ \A e \in plan.entries : nextSeq[e.ws] < e.seq /\ e.seq <= plan.counters[e.ws]
       /\ \A w \in Workspaces : nextSeq[w] <= plan.counters[w]
       /\ \A e \in plan.entries, f \in records : e.id # f.id
       /\ Unambiguous(plan.entries)
       /\ Holds(plan.entries, batch[c])

\* The inductive invariant.
IInv ==
  /\ TypeOK
  /\ Openable(disk)
  /\ QueueInv
  /\ MapInv
  /\ PlanInv
  /\ AckedDurable

-----------------------------------------------------------------------------
(* The file                                                                *)

\* Reading an entry leaves its identifier and workspace alone, and its
\* sequence when it has one.
LEMMA SequencedEntry ==
  ASSUME NEW e \in Record
  PROVE  /\ Sequenced(e) \in Record
         /\ Sequenced(e).id = e.id
         /\ Sequenced(e).ws = e.ws
         /\ e.seq >= 1 => Sequenced(e) = e
  BY LegacyAssumption DEF Sequenced, Record, NoSeq

\* A file of numbered entries reads as it is.
LEMMA OpenedNumbered ==
  ASSUME NEW S \in SUBSET Record, Numbered(S)
  PROVE  Opened(S) = S
  BY SequencedEntry DEF Opened, Numbered

LEMMA OpenedType ==
  ASSUME NEW S \in SUBSET Record
  PROVE  Opened(S) \in SUBSET Record
  BY SequencedEntry DEF Opened

\* Such a file can be opened when no entry doubles another.
LEMMA OpenableNumbered ==
  ASSUME NEW S \in SUBSET Record, Numbered(S), Unambiguous(S)
  PROVE  Openable(S)
  BY OpenedNumbered DEF Openable, Numbered, Unambiguous

LEMMA OpenableLegacy == Openable(Legacy)
  <1>1. Legacy \subseteq Record
    BY LegacyAssumption DEF Record, NoSeq
  <1> SUFFICES ASSUME NEW x \in Legacy, NEW y \in Legacy
               PROVE  /\ Sequenced(x).seq >= 1
                      /\ \/ Sequenced(x).id = Sequenced(y).id
                         \/ /\ Sequenced(x).ws = Sequenced(y).ws
                            /\ Sequenced(x).seq = Sequenced(y).seq
                         => Sequenced(x) = Sequenced(y)
    BY DEF Openable, Opened
  <1>2. Sequenced(x).seq = LegacyRank[x.id] /\ Sequenced(y).seq = LegacyRank[y.id]
    BY LegacyAssumption DEF Sequenced, NoSeq
  <1>3. x.id \in Ids /\ LegacyRank[x.id] \in Nat \ {0}
    BY LegacyAssumption
  <1> QED
    BY <1>1, <1>2, <1>3, SequencedEntry, LegacyAssumption

-----------------------------------------------------------------------------
(* The numbers a run assigns                                               *)

\* The places 1..i of a batch whose record goes to workspace w.
Places(b, w, i) == {j \in 1..i : b[j].ws = w}

LEMMA PlacesFinite ==
  ASSUME NEW b, NEW w, NEW i \in Nat
  PROVE  IsFiniteSet(Places(b, w, i)) /\ Cardinality(Places(b, w, i)) \in Nat
  <1>1. IsFiniteSet(1..i)
    BY FS_Interval
  <1>2. Places(b, w, i) \in SUBSET (1..i)
    BY DEF Places
  <1>3. IsFiniteSet(Places(b, w, i))
    BY <1>1, <1>2, FS_Subset
  <1> QED
    BY <1>3, FS_CardinalityType

\* More places hold at least as many records of w, and one more when the
\* last of them does.
LEMMA PlacesGrow ==
  ASSUME NEW b, NEW w, NEW i \in Nat, NEW j \in Nat, i <= j
  PROVE  /\ Cardinality(Places(b, w, i)) <= Cardinality(Places(b, w, j))
         /\ i < j /\ b[j].ws = w =>
              Cardinality(Places(b, w, i)) < Cardinality(Places(b, w, j))
  <1>1. Places(b, w, i) \in SUBSET Places(b, w, j)
    BY DEF Places
  <1>2. IsFiniteSet(Places(b, w, j))
    BY PlacesFinite
  <1>3. /\ Cardinality(Places(b, w, i)) <= Cardinality(Places(b, w, j))
        /\ Cardinality(Places(b, w, j)) = Cardinality(Places(b, w, i))
             => Places(b, w, j) = Places(b, w, i)
    BY <1>1, <1>2, FS_Subset
  <1>4. i < j /\ b[j].ws = w => j \in Places(b, w, j) /\ j \notin Places(b, w, i)
    BY DEF Places
  <1>5. Cardinality(Places(b, w, i)) \in Nat /\ Cardinality(Places(b, w, j)) \in Nat
    BY PlacesFinite
  <1> QED
    BY <1>3, <1>4, <1>5

\* A record gets a sequence after every sequence its workspace has, up to
\* the advanced counter, and after those of the records before it.
LEMMA AssignedInOrder ==
  ASSUME nextSeq \in [Workspaces -> Nat], NEW b \in Seq(Record), NEW i \in DOMAIN b
  PROVE  /\ Assigned(b, i) \in Nat
         /\ nextSeq[b[i].ws] < Assigned(b, i)
         /\ Assigned(b, i) <= AdvancedCounters(b)[b[i].ws]
         /\ \A j \in DOMAIN b : i < j /\ b[i].ws = b[j].ws => Assigned(b, i) < Assigned(b, j)
  <1> DEFINE w == b[i].ws
  <1>1. /\ DOMAIN b = 1..Len(b) /\ Len(b) \in Nat
        /\ i \in Nat /\ 1 <= i /\ i <= Len(b)
        /\ w \in Workspaces /\ nextSeq[w] \in Nat
    <2>1. DOMAIN b = 1..Len(b) /\ Len(b) \in Nat
      OBVIOUS
    <2>2. b[i] \in Record
      OBVIOUS
    <2> QED
      BY <2>1, <2>2 DEF Record
  <1>2. \A j \in DOMAIN b : b[j].ws = w => Assigned(b, j) = nextSeq[w] + Cardinality(Places(b, w, j))
    BY DEF Assigned, Places
  <1>3. AdvancedCounters(b)[w] = nextSeq[w] + Cardinality(Places(b, w, Len(b)))
    BY <1>1 DEF AdvancedCounters, Places
  <1>4. Cardinality(Places(b, w, 0)) < Cardinality(Places(b, w, i))
    BY <1>1, PlacesGrow
  <1>5. Cardinality(Places(b, w, i)) <= Cardinality(Places(b, w, Len(b)))
    BY <1>1, PlacesGrow
  <1>6. /\ Cardinality(Places(b, w, 0)) \in Nat
        /\ Cardinality(Places(b, w, i)) \in Nat
        /\ Cardinality(Places(b, w, Len(b))) \in Nat
    BY <1>1, PlacesFinite
  <1>7. ASSUME NEW j \in DOMAIN b, i < j, b[i].ws = b[j].ws
        PROVE  Assigned(b, i) < Assigned(b, j)
    <2>1. j \in Nat
      BY <1>1
    <2>2. Cardinality(Places(b, w, i)) < Cardinality(Places(b, w, j))
      BY <1>1, <1>7, <2>1, PlacesGrow
    <2>3. Cardinality(Places(b, w, j)) \in Nat
      BY <2>1, PlacesFinite
    <2> HIDE DEF w
    <2>4. b[i].ws = w /\ b[j].ws = w
      BY <1>7 DEF w
    <2> QED
      BY <1>1, <1>2, <1>6, <1>7, <2>2, <2>3, <2>4
  <1> QED
    BY <1>1, <1>2, <1>3, <1>4, <1>5, <1>6, <1>7

LEMMA StoredFits ==
  ASSUME TypeOK, NEW b \in Seq(Record), ~Rejected(b)
  PROVE  /\ Stored(b) \subseteq Record
         /\ AdvancedCounters(b) \in [Workspaces -> Nat]
         /\ \A w \in Workspaces : nextSeq[w] <= AdvancedCounters(b)[w]
         /\ \A e \in Stored(b) : nextSeq[e.ws] < e.seq /\ e.seq <= AdvancedCounters(b)[e.ws]
         /\ \A e \in Stored(b), f \in records : e.id # f.id
         /\ Unambiguous(Stored(b))
         /\ Holds(Stored(b), b)
  <1> DEFINE put(i) == [b[i] EXCEPT !.seq = Assigned(b, i)]
  <1>1. DOMAIN b = 1..Len(b) /\ Len(b) \in Nat
    OBVIOUS
  <1>2. nextSeq \in [Workspaces -> Nat]
    BY DEF TypeOK
  <1>3. ASSUME NEW i \in DOMAIN b
        PROVE  /\ put(i) \in Record
               /\ put(i).id = b[i].id
               /\ put(i).ws = b[i].ws
               /\ put(i).seq = Assigned(b, i)
    <2>1. b[i] \in Record
      OBVIOUS
    <2>2. Assigned(b, i) \in Nat
      BY <1>2, AssignedInOrder
    <2> QED
      BY <2>1, <2>2 DEF Record
  <1>4. Stored(b) = {put(i) : i \in DOMAIN b}
    BY DEF Stored
  <1> HIDE DEF put
  <1>5. Stored(b) \subseteq Record
    BY <1>3, <1>4
  <1>6. /\ AdvancedCounters(b) \in [Workspaces -> Nat]
        /\ \A w \in Workspaces : nextSeq[w] <= AdvancedCounters(b)[w]
    <2>1. \A w \in Workspaces :
            /\ AdvancedCounters(b)[w] = nextSeq[w] + Cardinality(Places(b, w, Len(b)))
            /\ Cardinality(Places(b, w, Len(b))) \in Nat
      BY <1>1, PlacesFinite DEF AdvancedCounters, Places
    <2>2. DOMAIN AdvancedCounters(b) = Workspaces
      BY DEF AdvancedCounters
    <2>3. \A w \in Workspaces :
            AdvancedCounters(b)[w] \in Nat /\ nextSeq[w] <= AdvancedCounters(b)[w]
      BY <1>2, <2>1
    <2>4. AdvancedCounters(b) = [w \in Workspaces |-> AdvancedCounters(b)[w]]
      BY <2>2 DEF AdvancedCounters
    <2> QED
      BY <2>3, <2>4
  <1>7. \A e \in Stored(b) : nextSeq[e.ws] < e.seq /\ e.seq <= AdvancedCounters(b)[e.ws]
    BY <1>2, <1>3, <1>4, AssignedInOrder
  <1>8. \A e \in Stored(b), f \in records : e.id # f.id
    BY <1>3, <1>4 DEF Rejected
  <1>9. Unambiguous(Stored(b))
    <2> SUFFICES ASSUME NEW i \in DOMAIN b, NEW j \in DOMAIN b,
                        \/ put(i).id = put(j).id
                        \/ put(i).ws = put(j).ws /\ put(i).seq = put(j).seq
                 PROVE  i = j
      BY <1>4 DEF Unambiguous
    <2>1. CASE put(i).id = put(j).id
      BY <2>1, <1>3 DEF Rejected
    <2>2. CASE put(i).ws = put(j).ws /\ put(i).seq = put(j).seq
      <3>1. b[i].ws = b[j].ws /\ Assigned(b, i) = Assigned(b, j)
        BY <1>3, <2>2
      <3>2. /\ Assigned(b, i) \in Nat /\ Assigned(b, j) \in Nat
            /\ i < j => Assigned(b, i) < Assigned(b, j)
            /\ j < i => Assigned(b, j) < Assigned(b, i)
        BY <1>2, <3>1, AssignedInOrder
      <3> QED
        BY <1>1, <3>1, <3>2
    <2> QED
      BY <2>1, <2>2
  <1>10. Holds(Stored(b), b)
    <2> SUFFICES ASSUME NEW i \in DOMAIN b, NEW j \in DOMAIN b
                 PROVE  \E e, f \in Stored(b) :
                          /\ e.id = b[i].id /\ e.ws = b[i].ws
                          /\ f.id = b[j].id /\ f.ws = b[j].ws
                          /\ i < j /\ e.ws = f.ws => e.seq < f.seq
      BY DEF Holds
    <2>1. put(i) \in Stored(b) /\ put(j) \in Stored(b)
      BY <1>4
    <2>2. i < j /\ b[i].ws = b[j].ws => Assigned(b, i) < Assigned(b, j)
      BY <1>2, AssignedInOrder
    <2> QED
      BY <1>3, <2>1, <2>2
  <1> QED
    BY <1>5, <1>6, <1>7, <1>8, <1>9, <1>10

-----------------------------------------------------------------------------
(* Type correctness                                                        *)

\* The initial state has the declared types.
LEMMA InitType == Init => TypeOK
  <1> SUFFICES ASSUME Init PROVE TypeOK
    OBVIOUS
  <1>1. disk \subseteq Record
    BY LegacyAssumption DEF Init, Record, NoSeq
  <1>2. batch \in [Calls -> Seq(Record)] /\ queue \in Seq(Calls)
    BY DEF Init
  <1>3. status \in [Calls -> Status]
    BY DEF Init, Status
  <1>4. plan \in [entries : SUBSET Record, counters : [Workspaces -> Nat]]
    BY DEF Init, NoPlan
  <1> QED
    BY <1>1, <1>2, <1>3, <1>4 DEF Init, TypeOK

\* Every step keeps the declared types.
LEMMA StepType == TypeOK /\ [Next]_vars => TypeOK'
  <1> SUFFICES ASSUME TypeOK, [Next]_vars PROVE TypeOK'
    OBVIOUS
  <1> USE DEF TypeOK
  <1>0. NoPlan \in [entries : SUBSET Record, counters : [Workspaces -> Nat]]
    BY DEF NoPlan
  <1>1. CASE UNCHANGED vars
    BY <1>1 DEF vars
  <1>2. ASSUME NEW c \in Calls, NEW b \in Batches, Call(c, b) PROVE TypeOK'
    <2>1. b \in Seq(Record)
      BY BatchesAssumption
    <2>2. queue' \in Seq(Calls)
      BY <1>2 DEF Call
    <2>3. status' \in [Calls -> Status]
      BY <1>2 DEF Call, Status
    <2> QED
      BY <1>2, <2>1, <2>2, <2>3 DEF Call
  <1>3. ASSUME NEW c \in Calls, Turn(c) PROVE queue' \in Seq(Calls)
    BY <1>3 DEF Turn
  <1>4. ASSUME NEW c \in Calls, Reject(c) PROVE TypeOK'
    BY <1>3, <1>4 DEF Reject, Turn, Status
  <1>5. ASSUME NEW c \in Calls, AppendNothing(c) PROVE TypeOK'
    BY <1>3, <1>5 DEF AppendNothing, Turn, Status
  <1>6. ASSUME NEW c \in Calls, StartWrite(c) PROVE TypeOK'
    <2>1. ~Rejected(batch[c]) /\ batch[c] \in Seq(Record)
      BY <1>6 DEF StartWrite
    <2>2. /\ Stored(batch[c]) \subseteq Record
          /\ AdvancedCounters(batch[c]) \in [Workspaces -> Nat]
      BY <2>1, StoredFits
    <2>3. status' \in [Calls -> Status]
      BY <1>6 DEF StartWrite, Status
    <2>4. queue' \in Seq(Calls)
      BY <1>3, <1>6 DEF StartWrite
    <2> QED
      BY <1>6, <2>2, <2>3, <2>4 DEF StartWrite
  <1>7. ASSUME NEW c \in Calls, Rename(c) PROVE TypeOK'
    BY <1>7 DEF Rename, Status
  <1>8. ASSUME NEW c \in Calls, WriteFails(c) PROVE TypeOK'
    BY <1>0, <1>8 DEF WriteFails, Status
  <1>9. ASSUME NEW c \in Calls, Settle(c) PROVE TypeOK'
    BY <1>0, <1>9 DEF Settle, Status
  <1>10. CASE Crash
    <2>1. status' \in [Calls -> Status]
      BY <1>10 DEF Crash, Status
    <2>2. nextSeq' \in [Workspaces -> Nat]
      BY <1>10 DEF Crash
    <2>3. queue' \in Seq(Calls) /\ records' \subseteq Record
      BY <1>10 DEF Crash
    <2> QED
      BY <1>0, <1>10, <2>1, <2>2, <2>3 DEF Crash
  <1>11. CASE Open
    <2>1. Opened(disk) \in SUBSET Record
      BY OpenedType
    <2>2. nextSeq' \in [Workspaces -> {0} \union {e.seq : e \in Opened(disk)}]
      BY <1>11 DEF Open, Counters
    <2>3. {0} \union {e.seq : e \in Opened(disk)} \subseteq Nat
      BY <2>1 DEF Record
    <2>4. nextSeq' \in [Workspaces -> Nat]
      BY <2>2, <2>3
    <2> QED
      BY <1>11, <2>1, <2>4 DEF Open
  <1> QED
    BY <1>1, <1>2, <1>4, <1>5, <1>6, <1>7, <1>8, <1>9, <1>10, <1>11 DEF Next

\* Every reachable state has the declared types.
THEOREM TypeCorrect == Spec => []TypeOK
  BY InitType, StepType, PTL DEF Spec

-----------------------------------------------------------------------------
(* Safety                                                                  *)

\* What holds a batch in order keeps holding it as it grows.
LEMMA HoldsMore ==
  ASSUME NEW S, NEW T, S \subseteq T, NEW b, Holds(S, b)
  PROVE  Holds(T, b)
  BY DEF Holds

LEMMA InitInv == Init => IInv
  <1> SUFFICES ASSUME Init PROVE IInv
    OBVIOUS
  <1>1. TypeOK
    BY InitType
  <1>2. Openable(disk)
    BY OpenableLegacy DEF Init
  <1>3. \A c \in Calls : status[c] = "idle"
    BY DEF Init
  <1>4. Running = {}
    BY <1>3 DEF Running
  <1>5. QueueInv
    BY DEF Init, QueueInv
  <1>6. MapInv
    BY <1>3, <1>4 DEF Init, MapInv, Numbered
  <1> QED
    BY <1>1, <1>2, <1>3, <1>4, <1>5, <1>6 DEF IInv, PlanInv, AckedDurable

\* A step that leaves the file's reading alone and acknowledges no call that
\* the file does not hold keeps the acknowledged batches durable.
LEMMA KeepsDurable ==
  ASSUME AckedDurable, Opened(disk) \subseteq Opened(disk'),
         \A c \in Calls : status'[c] = "ok" =>
           /\ batch'[c] = batch[c]
           /\ status[c] = "ok" \/ Holds(Opened(disk), batch[c])
  PROVE  AckedDurable'
  BY HoldsMore DEF AckedDurable

\* A run that ends or fails before it writes leaves the queue in order.
LEMMA TurnQueue ==
  ASSUME TypeOK, QueueInv, NEW c \in Calls, Turn(c),
         \A d \in Calls : d # c => status'[d] = status[d]
  PROVE  QueueInv' /\ status[c] = "queued"
  <1>1. /\ queue \in Seq(Calls) /\ queue # <<>> /\ c = queue[1]
        /\ queue' = Tail(queue)
    BY DEF Turn, TypeOK
  <1>2. /\ DOMAIN queue = 1..Len(queue) /\ Len(queue) \in Nat /\ 1 <= Len(queue)
        /\ 1 \in DOMAIN queue
    BY <1>1
  <1>3. /\ DOMAIN queue' = 1..(Len(queue) - 1)
        /\ \A i \in DOMAIN queue' : queue'[i] = queue[i+1] /\ i + 1 \in DOMAIN queue /\ i + 1 # 1
    BY <1>1, <1>2
  <1>4. \A i \in DOMAIN queue' : queue'[i] # c /\ queue'[i] \in Calls /\ status[queue'[i]] = "queued"
    BY <1>1, <1>2, <1>3 DEF QueueInv
  <1>5. \A i, j \in DOMAIN queue' : queue'[i] = queue'[j] => i = j
    BY <1>2, <1>3 DEF QueueInv
  <1>6. status[c] = "queued"
    BY <1>1, <1>2 DEF QueueInv
  <1> QED
    BY <1>4, <1>5, <1>6 DEF QueueInv

\* Every step of the ledger keeps the invariant and every entry of the file.
LEMMA StepInv == IInv /\ [Next]_vars => IInv' /\ Opened(disk) \subseteq Opened(disk')
  <1> SUFFICES ASSUME IInv, [Next]_vars
               PROVE  IInv' /\ Opened(disk) \subseteq Opened(disk')
    OBVIOUS
  <1>0. TypeOK /\ TypeOK'
    BY StepType DEF IInv
  <1> DEFINE Goal == IInv' /\ Opened(disk) \subseteq Opened(disk')
  <1>a. ASSUME disk' = disk PROVE Opened(disk') = Opened(disk) /\ Openable(disk')
    BY <1>a DEF IInv
  <1>1. CASE UNCHANGED vars
    <2>1. Running' = Running /\ Opened(disk') = Opened(disk)
      BY <1>1 DEF vars, Running
    <2>2. QueueInv' /\ AckedDurable'
      BY <1>1, <2>1 DEF vars, IInv, QueueInv, AckedDurable
    <2>3. MapInv'
      BY <1>1, <2>1 DEF vars, IInv, MapInv
    <2>4. PlanInv'
      BY <1>1, <2>1 DEF vars, IInv, PlanInv
    <2> QED
      BY <1>0, <1>1, <1>a, <2>1, <2>2, <2>3, <2>4 DEF vars, IInv
  <1>2. ASSUME NEW c \in Calls, NEW b \in Batches, Call(c, b) PROVE Goal
    <2>1. /\ status[c] = "idle" /\ status'[c] = "queued"
          /\ \A d \in Calls : d # c => status'[d] = status[d] /\ batch'[d] = batch[d]
      BY <1>0, <1>2 DEF Call, TypeOK
    <2>2. Running' = Running /\ \A d \in Running : batch'[d] = batch[d]
      BY <2>1 DEF Running
    <2>3. QueueInv'
      <3>1. /\ DOMAIN queue' = 1..(Len(queue) + 1) /\ Len(queue) \in Nat
            /\ DOMAIN queue = 1..Len(queue)
            /\ \A i \in DOMAIN queue : queue'[i] = queue[i] /\ queue[i] \in Calls
            /\ queue'[Len(queue) + 1] = c
        BY <1>0, <1>2 DEF Call, TypeOK
      <3>2. \A i \in DOMAIN queue : queue[i] # c /\ status[queue[i]] = "queued"
        BY <2>1 DEF IInv, QueueInv
      <3> QED
        BY <2>1, <3>1, <3>2 DEF IInv, QueueInv
    <2>4. MapInv'
      <3>1. \A d \in Calls : status'[d] = "renamed" <=> status[d] = "renamed"
        BY <2>1
      <3> QED
        BY <1>2, <1>a, <2>2, <3>1 DEF Call, IInv, MapInv
    <2>5. PlanInv'
      BY <1>2, <2>2 DEF Call, IInv, PlanInv
    <2>6. AckedDurable'
      BY <1>2, <1>a, <2>1 DEF Call, IInv, AckedDurable
    <2> QED
      BY <1>0, <1>2, <1>a, <2>3, <2>4, <2>5, <2>6 DEF Call, IInv
  <1>3. ASSUME NEW c \in Calls, Reject(c) \/ AppendNothing(c) PROVE Goal
    <2>1. /\ Turn(c)
          /\ status'[c] \in {"failed", "ok"}
          /\ status'[c] = "ok" => batch[c] = <<>>
          /\ \A d \in Calls : d # c => status'[d] = status[d]
          /\ UNCHANGED <<disk, up, records, nextSeq, batch, plan>>
      BY <1>0, <1>3 DEF Reject, AppendNothing, TypeOK
    <2>2. QueueInv' /\ status[c] = "queued"
      BY <1>0, <2>1, TurnQueue DEF IInv
    <2>3. Running = {} /\ Running' = {}
      BY <2>1, <2>2 DEF Turn, Running
    <2>4. MapInv'
      <3>1. \A d \in Calls : status'[d] = "renamed" <=> status[d] = "renamed"
        BY <2>1, <2>2
      <3> QED
        BY <1>a, <2>1, <2>3, <3>1 DEF Turn, IInv, MapInv
    <2>5. PlanInv'
      BY <2>3 DEF PlanInv
    <2>6. AckedDurable'
      <3>1. Holds(Opened(disk), <<>>)
        BY DEF Holds
      <3> QED
        BY <1>a, <2>1, <3>1, KeepsDurable DEF IInv
    <2> QED
      BY <1>0, <1>a, <2>1, <2>2, <2>4, <2>5, <2>6 DEF IInv
  <1>4. ASSUME NEW c \in Calls, StartWrite(c) PROVE Goal
    <2>1. /\ Turn(c) /\ ~Rejected(batch[c])
          /\ status'[c] = "writing"
          /\ \A d \in Calls : d # c => status'[d] = status[d]
          /\ plan'.entries = Stored(batch[c])
          /\ plan'.counters = AdvancedCounters(batch[c])
          /\ UNCHANGED <<disk, up, records, nextSeq, batch>>
      BY <1>0, <1>4 DEF StartWrite, TypeOK
    <2>2. QueueInv' /\ status[c] = "queued"
      BY <1>0, <2>1, TurnQueue DEF IInv
    <2>3. Running = {} /\ Running' = {c}
      BY <2>1, <2>2 DEF Turn, Running
    <2>4. MapInv'
      <3>1. \A d \in Calls : status'[d] # "renamed" /\ status[d] # "renamed"
        BY <2>1, <2>2, <2>3 DEF Running
      <3> QED
        BY <1>a, <2>1, <2>3, <3>1 DEF Turn, IInv, MapInv
    <2>5. PlanInv'
      <3>1. batch[c] \in Seq(Record)
        BY <1>0 DEF TypeOK
      <3>2. batch'[c] = batch[c]
        BY <2>1
      <3> QED
        BY <1>0, <2>1, <2>3, <3>1, <3>2, StoredFits DEF PlanInv
    <2>6. AckedDurable'
      BY <1>a, <2>1, KeepsDurable DEF IInv
    <2> QED
      BY <1>0, <1>a, <2>1, <2>2, <2>4, <2>5, <2>6 DEF IInv
  <1>5. ASSUME NEW c \in Calls, Rename(c) PROVE Goal
    <2>1. /\ up /\ status[c] = "writing" /\ status'[c] = "renamed"
          /\ \A d \in Calls : d # c => status'[d] = status[d]
          /\ disk' = records \union plan.entries
          /\ UNCHANGED <<up, records, nextSeq, queue, batch, plan>>
      BY <1>0, <1>5 DEF Rename, TypeOK
    <2>2. Running = {c} /\ Running' = {c}
      BY <2>1 DEF IInv, PlanInv, Running
    <2>3. records = Opened(disk)
      BY <2>1, <2>2 DEF IInv, MapInv, Running
    <2>4. /\ disk' \in SUBSET Record
          /\ Numbered(disk')
      <3>1. Numbered(plan.entries)
        BY <1>0, <2>2 DEF TypeOK, IInv, PlanInv, Numbered, Record
      <3> QED
        BY <1>0, <2>1, <3>1 DEF TypeOK, IInv, MapInv, Numbered
    <2>5. Opened(disk') = disk'
      BY <2>4, OpenedNumbered
    <2>6. Unambiguous(disk')
      <3>1. Unambiguous(records)
        BY <2>3 DEF IInv, Openable, Unambiguous
      <3>2. \A e \in records, f \in plan.entries :
              e.id # f.id /\ (e.ws = f.ws => e.seq # f.seq)
        <4> SUFFICES ASSUME NEW e \in records, NEW f \in plan.entries
                     PROVE  e.id # f.id /\ (e.ws = f.ws => e.seq # f.seq)
          OBVIOUS
        <4>1. e.id # f.id /\ e.seq <= nextSeq[e.ws] /\ nextSeq[f.ws] < f.seq
          BY <2>2 DEF IInv, MapInv, PlanInv
        <4>2. e \in Record /\ f \in Record
          BY <1>0 DEF TypeOK
        <4>3. e.seq \in Nat /\ f.seq \in Nat /\ e.ws \in Workspaces
          BY <4>2 DEF Record
        <4>4. nextSeq[e.ws] \in Nat
          BY <1>0, <4>3 DEF TypeOK
        <4> QED
          BY <4>1, <4>3, <4>4
      <3>3. Unambiguous(plan.entries)
        BY <2>2 DEF IInv, PlanInv
      <3> QED
        BY <2>1, <3>1, <3>2, <3>3 DEF Unambiguous
    <2>7. Openable(disk')
      BY <2>4, <2>6, OpenableNumbered
    <2>8. Opened(disk) \subseteq Opened(disk')
      BY <2>1, <2>3, <2>5
    <2>9. QueueInv'
      <3>1. \A i \in DOMAIN queue : queue[i] # c /\ queue[i] \in Calls
        BY <1>0, <2>1 DEF IInv, QueueInv, TypeOK
      <3> QED
        BY <2>1, <3>1 DEF IInv, QueueInv
    <2>10. MapInv'
      <3>1. \A d \in Calls : status'[d] = "renamed" <=> d = c
        BY <2>1, <2>2 DEF Running
      <3> QED
        BY <2>1, <2>2, <2>5, <3>1 DEF IInv, MapInv
    <2>11. PlanInv'
      BY <2>1, <2>2 DEF IInv, PlanInv
    <2>12. AckedDurable'
      BY <2>1, <2>8, KeepsDurable DEF IInv
    <2> QED
      BY <1>0, <2>7, <2>8, <2>9, <2>10, <2>11, <2>12 DEF IInv
  <1>6. ASSUME NEW c \in Calls, WriteFails(c) PROVE Goal
    <2>1. /\ up /\ status[c] = "writing" /\ status'[c] = "failed"
          /\ \A d \in Calls : d # c => status'[d] = status[d]
          /\ UNCHANGED <<disk, up, records, nextSeq, queue, batch>>
      BY <1>0, <1>6 DEF WriteFails, TypeOK
    <2>2. Running = {c} /\ Running' = {}
      BY <2>1 DEF IInv, PlanInv, Running
    <2>3. QueueInv'
      <3>1. \A i \in DOMAIN queue : queue[i] # c /\ queue[i] \in Calls
        BY <1>0, <2>1 DEF IInv, QueueInv, TypeOK
      <3> QED
        BY <2>1, <3>1 DEF IInv, QueueInv
    <2>4. MapInv'
      <3>1. \A d \in Calls : status'[d] # "renamed" /\ status[d] # "renamed"
        BY <2>1, <2>2 DEF Running
      <3> QED
        BY <1>a, <2>1, <2>2, <3>1 DEF IInv, MapInv
    <2>5. PlanInv'
      BY <2>2 DEF PlanInv
    <2>6. AckedDurable'
      BY <1>a, <2>1, KeepsDurable DEF IInv
    <2> QED
      BY <1>0, <1>a, <2>1, <2>3, <2>4, <2>5, <2>6 DEF IInv
  <1>7. ASSUME NEW c \in Calls, Settle(c) PROVE Goal
    <2>1. /\ up /\ status[c] = "renamed" /\ status'[c] = "ok"
          /\ \A d \in Calls : d # c => status'[d] = status[d]
          /\ records' = records \union plan.entries
          /\ nextSeq' = plan.counters
          /\ UNCHANGED <<disk, up, queue, batch>>
      BY <1>0, <1>7 DEF Settle, TypeOK
    <2>2. Running = {c} /\ Running' = {}
      BY <2>1 DEF IInv, PlanInv, Running
    <2>3. Opened(disk) = records \union plan.entries
      BY <2>1 DEF IInv, MapInv
    <2>4. QueueInv'
      <3>1. \A i \in DOMAIN queue : queue[i] # c /\ queue[i] \in Calls
        BY <1>0, <2>1 DEF IInv, QueueInv, TypeOK
      <3> QED
        BY <2>1, <3>1 DEF IInv, QueueInv
    <2>5. MapInv'
      <3>1. \A d \in Calls : status'[d] # "renamed"
        BY <2>2 DEF Running
      <3>2. Numbered(records')
        BY <2>1, <2>3 DEF IInv, Openable, Numbered
      <3>3. ASSUME NEW e \in records PROVE e.seq <= nextSeq'[e.ws]
        <4>1. e.seq <= nextSeq[e.ws]
          BY DEF IInv, MapInv
        <4>2. e \in Record
          BY <1>0 DEF TypeOK
        <4>3. e.seq \in Nat /\ e.ws \in Workspaces
          BY <4>2 DEF Record
        <4>4. nextSeq[e.ws] <= plan.counters[e.ws]
          BY <2>2, <4>3 DEF IInv, PlanInv
        <4>5. nextSeq[e.ws] \in Nat /\ nextSeq'[e.ws] \in Nat
          BY <1>0, <4>3 DEF TypeOK
        <4> QED
          BY <2>1, <4>1, <4>3, <4>4, <4>5
      <3>4. \A e \in plan.entries : e.seq <= nextSeq'[e.ws]
        BY <2>1, <2>2 DEF IInv, PlanInv
      <3> QED
        BY <1>a, <2>1, <2>2, <2>3, <3>1, <3>2, <3>3, <3>4 DEF MapInv
    <2>6. PlanInv'
      BY <2>2 DEF PlanInv
    <2>7. AckedDurable'
      <3>1. Holds(plan.entries, batch[c])
        BY <2>2 DEF IInv, PlanInv
      <3>2. Holds(Opened(disk), batch[c])
        BY <2>3, <3>1, HoldsMore
      <3> QED
        BY <1>a, <2>1, <3>2, KeepsDurable DEF IInv
    <2> QED
      BY <1>0, <1>a, <2>1, <2>4, <2>5, <2>6, <2>7 DEF IInv
  <1>8. CASE Crash
    <2>1. /\ \A d \in Calls : status'[d] \notin {"queued", "writing", "renamed"}
          /\ \A d \in Calls : status'[d] = "ok" => status[d] = "ok"
      BY <1>0, <1>8 DEF Crash, TypeOK
    <2>2. Running' = {}
      BY <2>1 DEF Running
    <2>3. /\ ~up' /\ records' = {} /\ queue' = <<>>
          /\ UNCHANGED <<disk, batch>>
      BY <1>8 DEF Crash
    <2>4. QueueInv'
      BY <2>3 DEF QueueInv
    <2>5. MapInv'
      BY <2>1, <2>2, <2>3 DEF MapInv, Numbered
    <2>6. PlanInv'
      BY <2>2 DEF PlanInv
    <2>7. AckedDurable'
      BY <1>a, <2>1, <2>3, KeepsDurable DEF IInv
    <2> QED
      BY <1>0, <1>a, <2>3, <2>4, <2>5, <2>6, <2>7 DEF IInv
  <1>9. CASE Open
    <2>1. /\ ~up /\ up' /\ Openable(disk)
          /\ records' = Opened(disk)
          /\ nextSeq' \in Counters(Opened(disk))
          /\ UNCHANGED <<disk, queue, status, batch, plan>>
      BY <1>9 DEF Open
    <2>2. Running = {} /\ Running' = {}
      BY <2>1 DEF IInv, MapInv, Running
    <2>3. QueueInv'
      BY <2>1 DEF IInv, QueueInv
    <2>4. MapInv'
      <3>1. Numbered(records')
        BY <2>1 DEF Openable, Numbered
      <3>2. \A w \in Workspaces : \A e \in records' : e.ws = w => e.seq <= nextSeq'[w]
        BY <2>1 DEF Counters
      <3>3. \A e \in records' : e.seq <= nextSeq'[e.ws]
        BY <1>0, <3>2 DEF TypeOK, Record
      <3>4. \A d \in Calls : status'[d] # "renamed"
        BY <2>2 DEF Running
      <3> QED
        BY <1>a, <2>1, <3>1, <3>3, <3>4 DEF MapInv
    <2>5. PlanInv'
      BY <2>2 DEF PlanInv
    <2>6. AckedDurable'
      BY <1>a, <2>1, KeepsDurable DEF IInv
    <2> QED
      BY <1>0, <1>a, <2>1, <2>3, <2>4, <2>5, <2>6 DEF IInv
  <1> QED
    BY <1>1, <1>2, <1>3, <1>4, <1>5, <1>6, <1>7, <1>8, <1>9 DEF Next

\* IInv holds in every reachable state.
LEMMA Invariance == Spec => []IInv
  BY InitInv, StepInv, PTL DEF Spec

\* The invariant says that the Map never shows more than the file.
LEMMA InvNoPhantom == IInv => NoPhantomRead
  <1> SUFFICES ASSUME IInv PROVE records \subseteq Opened(disk)
    BY DEF NoPhantomRead
  <1>1. CASE ~up
    BY <1>1 DEF IInv, MapInv
  <1>2. CASE up /\ \A c \in Calls : status[c] # "renamed"
    BY <1>2 DEF IInv, MapInv
  <1>3. CASE \E c \in Calls : status[c] = "renamed"
    BY <1>3 DEF IInv, MapInv
  <1> QED
    BY <1>1, <1>2, <1>3

\* Whatever moment the process dies at, the file it leaves can be opened
\* again by the constructor (storage/src/index.ts 107-121).
THEOREM FileAlwaysOpenable == Spec => []AlwaysOpenable
  <1>1. IInv => AlwaysOpenable
    BY DEF IInv, AlwaysOpenable
  <1> QED
    BY <1>1, Invariance, PTL

\* get and query never show a record that a crash could take back.
THEOREM NeverPhantom == Spec => []NoPhantomRead
  BY InvNoPhantom, Invariance, PTL

\* A batch whose append resolved is in the file, whole and in its order,
\* through any later crash, failed write or append.
THEOREM AcknowledgedIsDurable == Spec => []AckedDurable
  <1>1. IInv => AckedDurable
    BY DEF IInv
  <1> QED
    BY <1>1, Invariance, PTL

\* No step removes an entry of the file or changes its sequence, not even
\* the rewriting of a legacy file.
THEOREM FileAppendOnly == Spec => AppendOnly
  <1>1. IInv /\ [Next]_vars => [Opened(disk) \subseteq Opened(disk')]_vars
    BY StepInv
  <1> QED
    BY <1>1, Invariance, PTL DEF Spec, AppendOnly

-----------------------------------------------------------------------------
(* Refinement                                                              *)

\* What the file holds has the types and the uniqueness of the abstract log.
LEMMA LogType ==
  ASSUME TypeOK, Openable(disk)
  PROVE  /\ Opened(disk) \subseteq Abstract!Entry
         /\ Abstract!WellOrdered(Opened(disk))
  <1>1. Opened(disk) \in SUBSET Record
    BY OpenedType DEF TypeOK
  <1> QED
    BY <1>1 DEF Openable, Record, Abstract!Entry, Abstract!WellOrdered

\* The initial file is an initial log.
LEMMA InitRefines == Init => Abstract!Init
  <1> SUFFICES ASSUME Init PROVE Abstract!Init
    OBVIOUS
  <1>1. IInv
    BY InitInv
  <1>2. {d \in Calls : status[d] = "ok"} = {}
    BY DEF Init
  <1>3. Acknowledged = {}
    BY <1>2 DEF Acknowledged
  <1> QED
    BY <1>1, <1>3, LogType DEF IInv, Abstract!Init

\* A step that neither changes the reading of the file, nor the batch of an
\* acknowledged call, nor its status, is an acknowledgement or a stutter.
LEMMA QuietStep ==
  ASSUME IInv, IInv', Opened(disk') = Opened(disk),
         \A c \in Calls : status[c] = "ok" => status'[c] = "ok" /\ batch'[c] = batch[c]
  PROVE  Abstract!Next
  <1>1. Acknowledged \subseteq Acknowledged'
    BY DEF Acknowledged
  <1>2. Acknowledged' \subseteq {e.id : e \in Opened(disk)}
    <2>1. ASSUME NEW c \in Calls, status'[c] = "ok", NEW i \in DOMAIN batch'[c]
          PROVE  \E e \in Opened(disk') : e.id = batch'[c][i].id
      BY <2>1 DEF IInv, AckedDurable, Holds
    <2> QED
      BY <2>1 DEF Acknowledged
  <1> QED
    BY <1>1, <1>2 DEF Abstract!Next, Abstract!Acknowledge

\* Every step publishes a batch, acknowledges a call, or changes nothing
\* that an observer of the log sees.
LEMMA StepRefines == IInv /\ [Next]_vars => [Abstract!Next]_Abstract!logVars
  <1> SUFFICES ASSUME IInv, [Next]_vars PROVE [Abstract!Next]_Abstract!logVars
    OBVIOUS
  <1>0. IInv' /\ TypeOK /\ TypeOK'
    BY StepInv, StepType DEF IInv
  <1>1. CASE UNCHANGED vars
    BY <1>1 DEF vars, Abstract!logVars, Acknowledged
  <1>2. ASSUME NEW c \in Calls, NEW b \in Batches, Call(c, b) PROVE Abstract!Next
    BY <1>0, <1>2, QuietStep DEF Call, TypeOK
  <1>3. ASSUME NEW c \in Calls, Reject(c) \/ AppendNothing(c) \/ StartWrite(c)
        PROVE  Abstract!Next
    <2>1. /\ disk' = disk /\ batch' = batch /\ Turn(c)
          /\ \A d \in Calls : d # c => status'[d] = status[d]
      BY <1>0, <1>3 DEF Reject, AppendNothing, StartWrite, TypeOK
    <2>2. status[c] = "queued"
      BY <1>0, <2>1, TurnQueue DEF IInv
    <2> QED
      BY <1>0, <2>1, <2>2, QuietStep
  <1>4. ASSUME NEW c \in Calls, WriteFails(c) \/ Settle(c) PROVE Abstract!Next
    BY <1>0, <1>4, QuietStep DEF WriteFails, Settle, TypeOK
  <1>5. CASE Crash
    BY <1>0, <1>5, QuietStep DEF Crash, TypeOK
  <1>6. CASE Open
    BY <1>0, <1>6, QuietStep DEF Open
  <1>7. ASSUME NEW c \in Calls, Rename(c) PROVE Abstract!Next
    <2>1. /\ up /\ status[c] = "writing" /\ status'[c] = "renamed"
          /\ \A d \in Calls : d # c => status'[d] = status[d]
          /\ disk' = records \union plan.entries
          /\ UNCHANGED <<records, batch, plan>>
      BY <1>0, <1>7 DEF Rename, TypeOK
    <2>2. c \in Running /\ \A d \in Calls : status[d] # "renamed"
      BY <2>1 DEF IInv, PlanInv, Running
    <2>3. Opened(disk) = records
      BY <2>1, <2>2 DEF IInv, MapInv
    <2>4. Opened(disk') = records \union plan.entries
      BY <1>0, <2>1 DEF IInv, MapInv
    <2>5. Acknowledged' = Acknowledged
      <3>1. {d \in Calls : status'[d] = "ok"} = {d \in Calls : status[d] = "ok"}
        BY <2>1
      <3> QED
        BY <2>1, <3>1 DEF Acknowledged
    <2>6. /\ Opened(disk') \subseteq Abstract!Entry
          /\ Abstract!WellOrdered(Opened(disk'))
      <3>1. disk' \in SUBSET Record /\ Openable(disk')
        BY <1>0 DEF IInv, TypeOK
      <3>2. Opened(disk') \in SUBSET Record
        BY <3>1, OpenedType
      <3> QED
        BY <3>1, <3>2 DEF Openable, Record, Abstract!Entry, Abstract!WellOrdered
    <2>7. ASSUME NEW e \in records, NEW f \in plan.entries, e.ws = f.ws
          PROVE  e.seq < f.seq
      <3>1. e.seq <= nextSeq[e.ws] /\ nextSeq[f.ws] < f.seq
        BY <2>2 DEF IInv, MapInv, PlanInv
      <3>2. e \in Record /\ f \in Record
        BY <1>0 DEF TypeOK
      <3>3. e.seq \in Nat /\ f.seq \in Nat /\ e.ws \in Workspaces
        BY <3>2 DEF Record
      <3>4. nextSeq[e.ws] \in Nat
        BY <1>0, <3>3 DEF TypeOK
      <3> QED
        BY <2>7, <3>1, <3>3, <3>4
    <2>8. Abstract!Publish
      BY <2>3, <2>4, <2>5, <2>6, <2>7 DEF Abstract!Publish
    <2> QED
      BY <2>8 DEF Abstract!Next
  <1> QED
    BY <1>1, <1>2, <1>3, <1>4, <1>5, <1>6, <1>7 DEF Next

\* The file-based ledger implements the abstract append-only ledger.
THEOREM LedgerRefinement == Spec => ImplementsAppendOnlyLedger
  BY InitRefines, StepRefines, Invariance, PTL
     DEF Spec, ImplementsAppendOnlyLedger, Abstract!Spec
=============================================================================
