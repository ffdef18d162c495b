------------------------ MODULE PlatformRequestsProofs ------------------------
(***************************************************************************)
(* Proofs about PlatformRequests, for any requests, keys, bodies, records  *)
(* and setups: an accepted request is in the files whole, once, under      *)
(* identifiers of its own; one key is accepted for one body; and repeating *)
(* an accepted ingestion is never answered with a conflict.  The crash,    *)
(* the failed writes and the lost responses are those of the model.        *)
(***************************************************************************)
EXTENDS PlatformRequests, TLAPS

-----------------------------------------------------------------------------
(* The inductive invariant                                                 *)

Phases == {"idle", "sent", "joined", "ok", "failed"}
Call == [phase : Phases, tries : Nat, error : Errors]
Execution == [step : Steps, body : Bodies, written : BOOLEAN]
Result == [key : Keys, body : Bodies]

\* Entries as they are in the file.
StoredRecord(x, b) == [kind |-> "record", id |-> x, content |-> b, stamped |-> TRUE]
StoredEvent(x, k)  == [kind |-> "event", id |-> x, content |-> k, stamped |-> TRUE]
StoredReceipt(k, b) == [kind |-> "receipt", id |-> k, content |-> b, stamped |-> TRUE]

StoredEntry ==
  [kind : {"record"}, id : Ids, content : Bodies, stamped : {TRUE}]
    \union [kind : {"event"}, id : Ids, content : Keys, stamped : {TRUE}]
    \union [kind : {"receipt"}, id : Keys, content : Bodies, stamped : {TRUE}]

\* The records and events of a body under a key, and what a step appends.
StoredRecords(b) == {StoredRecord(x, b) : x \in RecordsOf[b]}
StoredEvents(k, b) == {StoredEvent(x, k) : x \in RecordsOf[b]}
Whole(k, b) == StoredRecords(b) \union StoredEvents(k, b)

Adds(step, k, b) ==
  CASE step = "batch"  -> Whole(k, b) \union {StoredReceipt(k, b)}
    [] step = "record" -> StoredRecords(b)
    [] OTHER -> StoredEvents(k, b)

Lands(k) == Adds(run[k].step, k, run[k].body)

\* An execution that waits for an append, and one whose append, or result, is
\* in the file while the Map does not know it yet.
Queued(k) == run[k].step \in {"batch", "record", "event"}
Landed(k) == Queued(k) /\ run[k].written
PutLanded(k) == run[k].step = "put" /\ run[k].written

\* The type invariant.
Typed ==
  /\ setup \in Setups
  /\ client \in [Requests -> Call]
  /\ up \in BOOLEAN
  /\ run \in [Keys -> Execution]
  /\ chain \in Seq(Keys)
  /\ file \subseteq StoredEntry
  /\ map \subseteq file
  /\ store \subseteq Result
  /\ storeMap \subseteq store

StepOfFamily(k) ==
  /\ run[k].step = "batch" => Family[k] = "ingest"
  /\ run[k].step \in {"record", "event"} => Family[k] = "transition"
  /\ run[k].step = "put" => Family[k] # "ingest"

\* A key is in the queue at most once, while it waits for an append; only the
\* first one may have its entries in the file; a dead process executes nothing.
QueueInv ==
  /\ \A i \in 1..Len(chain) : Queued(chain[i])
  /\ \A i, j \in 1..Len(chain) : chain[i] = chain[j] => i = j
  /\ \A k \in Keys : Landed(k) => chain # <<>> /\ Head(chain) = k
  /\ \A k \in Keys : StepOfFamily(k)
  /\ ~up => chain = <<>> /\ \A k \in Keys : run[k].step = "none"

\* The Map lags behind the file by the append that has landed.  A receipt is
\* there with all that it is the receipt of, an event of an ingestion with a
\* receipt about it, and of a key whose batch is not settled the Map holds no
\* receipt.
FileInv ==
  /\ UniqueIds
  /\ up => \A e \in file : e \in map \/ \E k \in Keys : Landed(k) /\ e \in Lands(k)
  /\ \A k \in Keys : Landed(k) => Lands(k) \subseteq file
  /\ \A e \in file : e.kind = "receipt" =>
       Family[e.id] = "ingest" /\ Whole(e.id, e.content) \subseteq file
  /\ \A e \in file : e.kind = "event" /\ Family[e.content] = "ingest" =>
       \E b \in Bodies : e.id \in RecordsOf[b] /\ StoredReceipt(e.content, b) \in file
  /\ \A k \in Keys : run[k].step = "batch" => \A e \in map : ~(e.kind = "receipt" /\ e.id = k)

\* The store lags behind its file by the result that is being put.  A result
\* of a transition is there after its records and events, and of a key that
\* executes the process remembers none.
StoreInv ==
  /\ \A e, f \in store : e.key = f.key => e = f
  /\ \A e \in store : Family[e.key] # "ingest"
  /\ \A e \in store : Family[e.key] = "transition" => Whole(e.key, e.body) \subseteq file
  /\ up => \A e \in store : e \in storeMap \/ (PutLanded(e.key) /\ run[e.key].body = e.body)
  /\ \A k \in Keys : PutLanded(k) => [key |-> k, body |-> run[k].body] \in store
  /\ \A k \in Keys : run[k].step # "none" => \A e \in storeMap : e.key # k
  /\ \A k \in Keys : run[k].step = "event" => StoredRecords(run[k].body) \subseteq file
  /\ \A k \in Keys : run[k].step = "put" /\ Family[k] = "transition" =>
       Whole(k, run[k].body) \subseteq file

\* Who has joined waits for an execution of the body it sent.
JoinedInv ==
  \A r \in Requests : client[r].phase = "joined" =>
    run[KeyOf[r]].step # "none" /\ run[KeyOf[r]].body = BodyOf[r]

\* Who was told so is accepted: the receipt, or the result, is in its file.
Accepted(k, b) ==
  IF Family[k] = "ingest" THEN StoredReceipt(k, b) \in file
  ELSE [key |-> k, body |-> b] \in store

BackedInv == \A r \in Requests : client[r].phase = "ok" => Accepted(KeyOf[r], BodyOf[r])

IInv == Typed /\ QueueInv /\ FileInv /\ StoreInv /\ JoinedInv /\ BackedInv

-----------------------------------------------------------------------------
(* The operators of the model                                              *)

\* The stamp changes nothing else of an entry.
LEMMA StampIs ==
  ASSUME NEW K, NEW I, NEW C, NEW e \in [kind : K, id : I, content : C, stamped : BOOLEAN]
  PROVE  [e EXCEPT !.stamped = TRUE]
           = [kind |-> e.kind, id |-> e.id, content |-> e.content, stamped |-> TRUE]
<1> DEFINE f == [e EXCEPT !.stamped = TRUE]
<1>1. f \in [kind : K, id : I, content : C, stamped : BOOLEAN]
  OBVIOUS
<1>2. f.kind = e.kind /\ f.id = e.id /\ f.content = e.content /\ f.stamped = TRUE
  OBVIOUS
<1>3. f = [kind |-> f.kind, id |-> f.id, content |-> f.content, stamped |-> f.stamped]
  <2> HIDE DEF f
  <2> QED
    BY <1>1
<1> QED
  BY <1>2, <1>3

\* What the stamp makes of one entry a request builds, and of all it builds.
LEMMA StampsAre ==
  ASSUME NEW x, NEW k, NEW b
  PROVE  /\ [RecordEntry(x, b) EXCEPT !.stamped = TRUE] = StoredRecord(x, b)
         /\ [EventEntry(x, k) EXCEPT !.stamped = TRUE] = StoredEvent(x, k)
         /\ [Receipt(k, b) EXCEPT !.stamped = TRUE] = StoredReceipt(k, b)
<1>1. [RecordEntry(x, b) EXCEPT !.stamped = TRUE] = StoredRecord(x, b)
  <2>1. /\ RecordEntry(x, b) \in [kind : {"record"}, id : {x}, content : {b}, stamped : BOOLEAN]
        /\ RecordEntry(x, b).kind = "record" /\ RecordEntry(x, b).id = x /\ RecordEntry(x, b).content = b
    BY DEF RecordEntry
  <2>2. [RecordEntry(x, b) EXCEPT !.stamped = TRUE]
          = [kind |-> RecordEntry(x, b).kind, id |-> RecordEntry(x, b).id,
             content |-> RecordEntry(x, b).content, stamped |-> TRUE]
    BY <2>1, StampIs
  <2> QED
    BY <2>1, <2>2, Zenon DEF StoredRecord
<1>2. [EventEntry(x, k) EXCEPT !.stamped = TRUE] = StoredEvent(x, k)
  <2>1. /\ EventEntry(x, k) \in [kind : {"event"}, id : {x}, content : {k}, stamped : BOOLEAN]
        /\ EventEntry(x, k).kind = "event" /\ EventEntry(x, k).id = x /\ EventEntry(x, k).content = k
    BY DEF EventEntry
  <2>2. [EventEntry(x, k) EXCEPT !.stamped = TRUE]
          = [kind |-> EventEntry(x, k).kind, id |-> EventEntry(x, k).id,
             content |-> EventEntry(x, k).content, stamped |-> TRUE]
    BY <2>1, StampIs
  <2> QED
    BY <2>1, <2>2, Zenon DEF StoredEvent
<1>3. [Receipt(k, b) EXCEPT !.stamped = TRUE] = StoredReceipt(k, b)
  <2>1. /\ Receipt(k, b) \in [kind : {"receipt"}, id : {k}, content : {b}, stamped : BOOLEAN]
        /\ Receipt(k, b).kind = "receipt" /\ Receipt(k, b).id = k /\ Receipt(k, b).content = b
    BY DEF Receipt
  <2>2. [Receipt(k, b) EXCEPT !.stamped = TRUE]
          = [kind |-> Receipt(k, b).kind, id |-> Receipt(k, b).id,
             content |-> Receipt(k, b).content, stamped |-> TRUE]
    BY <2>1, StampIs
  <2> QED
    BY <2>1, <2>2, Zenon DEF StoredReceipt
<1> QED
  BY <1>1, <1>2, <1>3

LEMMA StampedForms ==
  ASSUME NEW k, NEW b
  PROVE  /\ Stamped(RecordsAndEvents(k, b)) = Whole(k, b)
         /\ Stamped({Receipt(k, b)}) = {StoredReceipt(k, b)}
         /\ Stamped(RecordsAndEvents(k, b) \union {Receipt(k, b)})
              = Whole(k, b) \union {StoredReceipt(k, b)}
         /\ \A x : Stamped({RecordEntry(x, b)}) = {StoredRecord(x, b)}
         /\ Stamped({RecordEntry(x, b) : x \in RecordsOf[b]}) = StoredRecords(b)
         /\ Stamped({EventEntry(x, k) : x \in RecordsOf[b]}) = StoredEvents(k, b)
<1>2. \A S, T : Stamped(S \union T) = Stamped(S) \union Stamped(T)
  BY DEF Stamped
<1>3. /\ Stamped({RecordEntry(x, b) : x \in RecordsOf[b]}) = StoredRecords(b)
      /\ Stamped({EventEntry(x, k) : x \in RecordsOf[b]}) = StoredEvents(k, b)
      /\ Stamped({Receipt(k, b)}) = {StoredReceipt(k, b)}
      /\ \A x : Stamped({RecordEntry(x, b)}) = {StoredRecord(x, b)}
  <2> DEFINE G(e) == [e EXCEPT !.stamped = TRUE]
  <2>1. \A S : Stamped(S) = {G(e) : e \in S}
    BY DEF Stamped
  <2>2. \A x : /\ G(RecordEntry(x, b)) = StoredRecord(x, b)
               /\ G(EventEntry(x, k)) = StoredEvent(x, k)
               /\ G(Receipt(k, b)) = StoredReceipt(k, b)
    BY StampsAre, Zenon
  <2> HIDE DEF G
  <2>3. Stamped({RecordEntry(x, b) : x \in RecordsOf[b]}) = StoredRecords(b)
    BY <2>1, <2>2 DEF StoredRecords
  <2>4. Stamped({EventEntry(x, k) : x \in RecordsOf[b]}) = StoredEvents(k, b)
    BY <2>1, <2>2 DEF StoredEvents
  <2>5. \A e : Stamped({e}) = {G(e)}
    BY <2>1
  <2> QED
    BY <2>2, <2>3, <2>4, <2>5
<1>4. Stamped(RecordsAndEvents(k, b)) = Whole(k, b)
  <2>1. RecordsAndEvents(k, b)
          = {RecordEntry(x, b) : x \in RecordsOf[b]} \union {EventEntry(x, k) : x \in RecordsOf[b]}
    BY DEF RecordsAndEvents
  <2> QED
    BY <2>1, <1>2, <1>3 DEF Whole
<1> QED
  BY <1>2, <1>3, <1>4

\* What an append puts into the file.
LEMMA StampedAppends ==
  ASSUME NEW k \in Keys, Queued(k)
  PROVE  Stamped(Appends(k)) = Lands(k)
<1>1. CASE run[k].step = "batch"
  BY <1>1, StampedForms DEF Appends, Lands, Adds
<1>2. CASE run[k].step = "record"
  BY <1>2, StampedForms DEF Appends, Lands, Adds
<1>3. CASE run[k].step = "event"
  BY <1>3, StampedForms DEF Appends, Lands, Adds
<1> QED
  BY <1>1, <1>2, <1>3 DEF Queued

\* The entries of one append, by their kinds.
LEMMA AddsAre ==
  ASSUME NEW step \in {"batch", "record", "event"}, NEW k \in Keys, NEW b \in Bodies
  PROVE  /\ Adds(step, k, b) \subseteq StoredEntry
         /\ \A e, f \in Adds(step, k, b) : SameId(e, f) => e = f
         /\ \A e \in Adds(step, k, b) : e.kind = "receipt" =>
              step = "batch" /\ e = StoredReceipt(k, b)
         /\ \A e \in Adds(step, k, b) : e.kind = "event" => e.content = k /\ e.id \in RecordsOf[b]
         /\ step = "batch" => StoredReceipt(k, b) \in Adds(step, k, b)
         /\ step = "batch" => Whole(k, b) \subseteq Adds(step, k, b)
         /\ step = "record" => StoredRecords(b) \subseteq Adds(step, k, b)
         /\ step = "event" => StoredEvents(k, b) \subseteq Adds(step, k, b)
<1>1. RecordsOf[b] \subseteq Ids
  BY BodiesAssumption
<1>2. \A e \in Adds(step, k, b) :
        \/ \E x \in RecordsOf[b] : e = StoredRecord(x, b)
        \/ \E x \in RecordsOf[b] : e = StoredEvent(x, k)
        \/ step = "batch" /\ e = StoredReceipt(k, b)
  BY DEF Adds, Whole, StoredRecords, StoredEvents
<1>3. Adds(step, k, b) \subseteq StoredEntry
  <2>1. \A x \in Ids : StoredRecord(x, b) \in StoredEntry
    BY DEF StoredEntry, StoredRecord
  <2>2. \A x \in Ids : StoredEvent(x, k) \in StoredEntry
    BY DEF StoredEntry, StoredEvent
  <2>3. StoredReceipt(k, b) \in StoredEntry
    BY DEF StoredEntry, StoredReceipt
  <2> QED
    BY <1>1, <1>2, <2>1, <2>2, <2>3
<1>4. \A e, f \in Adds(step, k, b) : SameId(e, f) => e = f
  <2>1. \A x : /\ StoredRecord(x, b).kind = "record" /\ StoredRecord(x, b).id = x
               /\ StoredEvent(x, k).kind = "event" /\ StoredEvent(x, k).id = x
    BY DEF StoredRecord, StoredEvent
  <2>2. StoredReceipt(k, b).kind = "receipt"
    BY DEF StoredReceipt
  <2> QED
    BY <1>2, <2>1, <2>2 DEF SameId
<1>5. \A e \in Adds(step, k, b) :
        /\ e.kind = "receipt" => step = "batch" /\ e = StoredReceipt(k, b)
        /\ e.kind = "event" => e.content = k /\ e.id \in RecordsOf[b]
  BY <1>2 DEF StoredRecord, StoredEvent, StoredReceipt
<1> QED
  BY <1>3, <1>4, <1>5 DEF Adds, Whole

\* An append that finds none of its identifiers in the Map does not after the
\* stamp either.
LEMMA StampKeepsIds ==
  ASSUME NEW S, NEW T, \A e \in S, f \in T : ~SameId(e, f),
         \A e \in S : \E K, I, C, B : e = [kind |-> K, id |-> I, content |-> C, stamped |-> B]
  PROVE  \A e \in Stamped(S), f \in T : ~SameId(e, f)
<1>1. \A e \in S : LET g == [e EXCEPT !.stamped = TRUE] IN g.kind = e.kind /\ g.id = e.id
  OBVIOUS
<1> QED
  BY <1>1 DEF Stamped, SameId

\* An answer leaves a call with a result, or to be sent again.
LEMMA ToldIs ==
  ASSUME NEW c \in Call, NEW code \in Errors, Retries \in Nat
  PROVE  /\ Told(c, code) \in Call
         /\ Told(c, code).phase # "joined"
         /\ Told(c, code).phase = "ok" => code = "none"
         /\ Told(c, code).phase # "ok" => Told(c, code).error = code
         /\ Told(c, code).phase = "ok" => Told(c, code).tries = c.tries
<1>1. CASE code = "none"
  <2> DEFINE d == [c EXCEPT !.phase = "ok"]
  <2>1. Told(c, code) = d
    BY <1>1, Zenon DEF Told
  <2>2. d \in Call /\ d.phase = "ok" /\ d.tries = c.tries
    BY DEF Call, Phases
  <2> HIDE DEF d
  <2> QED
    BY <1>1, <2>1, <2>2
<1>2. CASE code # "none" /\ c.tries < Retries
  <2> DEFINE n == c.tries + 1
             d == [c EXCEPT !.phase = "sent", !.tries = n, !.error = code]
  <2>1. Told(c, code) = d
    BY <1>2, Zenon DEF Told
  <2>3. n \in Nat
    BY DEF Call
  <2> HIDE DEF n
  <2>2. d \in Call /\ d.phase = "sent" /\ d.error = code
    <3>1. d \in Call
      BY <2>3 DEF Call, Phases
    <3>2. d.phase = "sent" /\ d.error = code
      BY DEF Call, Phases
    <3> QED
      BY <3>1, <3>2
  <2> HIDE DEF d
  <2> QED
    BY <1>2, <2>1, <2>2
<1>3. CASE code # "none" /\ ~(c.tries < Retries)
  <2> DEFINE d == [c EXCEPT !.phase = "failed", !.error = code]
  <2>1. Told(c, code) = d
    BY <1>3, Zenon DEF Told
  <2>2. d \in Call /\ d.phase = "failed" /\ d.error = code
    BY DEF Call, Phases
  <2> HIDE DEF d
  <2> QED
    BY <1>3, <2>1, <2>2
<1> QED
  BY <1>1, <1>2, <1>3

\* What the setup of an execution says.
LEMMA SetupTypes ==
  ASSUME setup \in Setups
  PROVE  /\ KeyOf \in [Requests -> Keys]
         /\ BodyOf \in [Requests -> Bodies]
         /\ Family \in [Keys -> {"ingest", "transition", "proposal"}]
         /\ Retries \in Nat
  BY SetupsAssumption DEF KeyOf, BodyOf, Family, Retries

\* It never changes.
LEMMA SetupStays ==
  ASSUME [Next]_vars
  PROVE  /\ setup' = setup /\ KeyOf' = KeyOf /\ BodyOf' = BodyOf
         /\ Family' = Family /\ Retries' = Retries
<1>1. setup' = setup
  BY DEF Next, vars, Send, LoseConnection, Arrive, ArriveKnown, ArriveInFlight, BeginIngest,
         BeginTransition, BeginProposal, Begin, AppendTurn, AppendRefused, Write, WriteFails,
         Settle, PutWrite, PutFails, PutSettles, Crash, Restart
<1> QED
  BY <1>1 DEF KeyOf, BodyOf, Family, Retries

\* What an execution is when it is over.
LEMMA EndedIs == Ended \in Execution /\ Ended.step = "none" /\ Ended.written = FALSE
<1>1. (CHOOSE b \in Bodies : TRUE) \in Bodies
  BY BodiesAssumption
<1> QED
  BY <1>1 DEF Ended, Execution, Steps

\* The queue when a key is added, and when the first one leaves.
LEMMA QueueGrows ==
  ASSUME NEW q \in Seq(Keys), NEW k \in Keys
  PROVE  /\ Append(q, k) \in Seq(Keys) /\ Append(q, k) # <<>>
         /\ Len(Append(q, k)) = Len(q) + 1 /\ Len(q) \in Nat
         /\ \A i \in 1..Len(q) : Append(q, k)[i] = q[i]
         /\ Append(q, k)[Len(q) + 1] = k
         /\ q # <<>> => Head(Append(q, k)) = Head(q)
<1>1. /\ Append(q, k) \in Seq(Keys) /\ Len(Append(q, k)) = Len(q) + 1 /\ Len(q) \in Nat
      /\ \A i \in 1..Len(q) : Append(q, k)[i] = q[i]
      /\ Append(q, k)[Len(q) + 1] = k
  OBVIOUS
<1>2. Append(q, k) # <<>>
  <2>1. Len(<<>>) = 0
    OBVIOUS
  <2> QED
    BY <1>1, <2>1
<1>3. ASSUME q # <<>> PROVE Head(Append(q, k)) = Head(q)
  <2>1. 1 \in 1..Len(q) /\ Head(q) = q[1]
    BY <1>3
  <2>2. Head(Append(q, k)) = Append(q, k)[1]
    BY <1>1, <1>2
  <2> QED
    BY <1>1, <2>1, <2>2
<1> QED
  BY <1>1, <1>2, <1>3

LEMMA QueueShrinks ==
  ASSUME NEW q \in Seq(Keys), q # <<>>
  PROVE  /\ Tail(q) \in Seq(Keys) /\ Len(Tail(q)) = Len(q) - 1 /\ Len(q) \in Nat
         /\ \A i \in 1..Len(Tail(q)) : Tail(q)[i] = q[i + 1] /\ i + 1 \in 1..Len(q) /\ i + 1 # 1
         /\ Head(q) = q[1] /\ 1 \in 1..Len(q) /\ Head(q) \in Keys
  OBVIOUS

SameSetup ==
  /\ setup' = setup /\ KeyOf' = KeyOf /\ BodyOf' = BodyOf
  /\ Family' = Family /\ Retries' = Retries

-----------------------------------------------------------------------------
(* Every step keeps the invariant: requests                                *)

\* A step that only changes what a client knows.
LEMMA QuietKeeps ==
  ASSUME IInv, SameSetup, UNCHANGED <<up, run, chain, file, map, store, storeMap>>,
         client' \in [Requests -> Call],
         \A r \in Requests : client'[r].phase = "joined" =>
           \/ client[r].phase = "joined"
           \/ run[KeyOf[r]].step # "none" /\ run[KeyOf[r]].body = BodyOf[r],
         \A r \in Requests : client'[r].phase = "ok" =>
           client[r].phase = "ok" \/ Accepted(KeyOf[r], BodyOf[r])
  PROVE  IInv'
<1>1. Typed'
  BY DEF IInv, Typed, SameSetup
<1>2. QueueInv'
  BY DEF IInv, QueueInv, SameSetup, Queued, Landed, StepOfFamily
<1>3. FileInv'
  BY DEF IInv, FileInv, SameSetup, Queued, Landed, Lands, UniqueIds
<1>4. StoreInv'
  BY DEF IInv, StoreInv, SameSetup, PutLanded
<1>5. JoinedInv'
  BY DEF IInv, JoinedInv, SameSetup
<1>6. BackedInv'
  BY DEF IInv, BackedInv, SameSetup, Accepted
<1> QED
  BY <1>1, <1>2, <1>3, <1>4, <1>5, <1>6 DEF IInv

\* Any answer but acceptance, and acceptance of what is accepted.
LEMMA AnswerKeeps ==
  ASSUME IInv, SameSetup, UNCHANGED <<up, run, chain, file, map, store, storeMap>>,
         NEW r \in Requests, NEW code \in Errors, Answer(r, code),
         code = "none" => Accepted(KeyOf[r], BodyOf[r])
  PROVE  IInv'
<1>1. client \in [Requests -> Call] /\ Retries \in Nat
  BY SetupTypes DEF IInv, Typed
<1>2. /\ client' = [client EXCEPT ![r] = Told(client[r], code)]
      /\ Told(client[r], code) \in Call
      /\ Told(client[r], code).phase # "joined"
      /\ Told(client[r], code).phase = "ok" => code = "none"
  BY <1>1, ToldIs DEF Answer
<1>3. /\ client' \in [Requests -> Call]
      /\ client'[r] = Told(client[r], code)
      /\ \A q \in Requests : q # r => client'[q] = client[q]
  BY <1>1, <1>2
<1> QED
  BY <1>2, <1>3, QuietKeeps

\* A body the process remembers is accepted.
LEMMA RememberedIsAccepted ==
  ASSUME IInv, NEW k \in Keys, NEW b \in Remembered(k)
  PROVE  Accepted(k, b)
<1>1. CASE Family[k] = "ingest"
  <2>1. PICK e \in map : e.kind = "receipt" /\ e.id = k /\ e.content = b
    BY <1>1 DEF Remembered
  <2>2. e \in file /\ e \in StoredEntry
    BY <2>1 DEF IInv, Typed
  <2>3. e = StoredReceipt(k, b)
    BY <2>1, <2>2 DEF StoredEntry, StoredReceipt
  <2> QED
    BY <1>1, <2>2, <2>3 DEF Accepted
<1>2. CASE Family[k] # "ingest"
  <2>1. PICK e \in storeMap : e.key = k /\ e.body = b
    BY <1>2 DEF Remembered
  <2>2. e \in store /\ e \in Result
    BY <2>1 DEF IInv, Typed
  <2>3. e = [key |-> k, body |-> b]
    BY <2>1, <2>2 DEF Result
  <2> QED
    BY <1>2, <2>2, <2>3 DEF Accepted
<1> QED
  BY <1>1, <1>2

\* A client joins an execution of its body.
LEMMA JoinKeeps ==
  ASSUME IInv, SameSetup, UNCHANGED <<up, run, chain, file, map, store, storeMap>>,
         NEW r \in Requests, Join(r), run[KeyOf[r]].step # "none", run[KeyOf[r]].body = BodyOf[r]
  PROVE  IInv'
<1>1. client \in [Requests -> Call]
  BY DEF IInv, Typed
<1>2. /\ client' \in [Requests -> Call]
      /\ client'[r].phase = "joined"
      /\ \A q \in Requests : q # r => client'[q] = client[q]
  BY <1>1 DEF Join, Call, Phases
<1> QED
  BY <1>2, QuietKeeps

\* Requests that start no execution.
LEMMA RequestKeeps ==
  ASSUME IInv, SameSetup, NEW r \in Requests,
         Send(r) \/ LoseConnection(r) \/ ArriveKnown(r) \/ ArriveInFlight(r)
  PROVE  IInv'
<1>1. client \in [Requests -> Call] /\ KeyOf[r] \in Keys
  BY SetupTypes DEF IInv, Typed
<1>2. CASE Send(r)
  <2>1. /\ client' \in [Requests -> Call]
        /\ client'[r].phase = "sent"
        /\ \A q \in Requests : q # r => client'[q] = client[q]
    BY <1>1, <1>2 DEF Send, Call, Phases
  <2> QED
    BY <1>2, <2>1, QuietKeeps DEF Send
<1>3. CASE LoseConnection(r)
  BY <1>3, AnswerKeeps DEF LoseConnection, Errors
<1>4. CASE ArriveKnown(r)
  <2>1. PICK code \in Errors : Answer(r, code) /\ (code = "none" => BodyOf[r] \in Remembered(KeyOf[r]))
    BY <1>4 DEF ArriveKnown, Errors
  <2>2. code = "none" => Accepted(KeyOf[r], BodyOf[r])
    BY <1>1, <2>1, RememberedIsAccepted
  <2> QED
    BY <1>4, <2>1, <2>2, AnswerKeeps DEF ArriveKnown
<1>5. CASE ArriveInFlight(r)
  <2>1. CASE run[KeyOf[r]].body = BodyOf[r]
    BY <1>5, <2>1, JoinKeeps DEF ArriveInFlight, Idle
  <2>2. CASE run[KeyOf[r]].body # BodyOf[r]
    BY <1>5, <2>2, AnswerKeeps DEF ArriveInFlight, Errors
  <2> QED
    BY <2>1, <2>2
<1> QED
  BY <1>2, <1>3, <1>4, <1>5

\* A request starts an execution: nothing of its key is remembered, and none
\* is under way.
LEMMA BeginKeeps ==
  ASSUME IInv, SameSetup, NEW r \in Requests, NEW step \in {"batch", "record", "put"},
         ArriveNew(r), Begin(r, step),
         step = "batch" => Family[KeyOf[r]] = "ingest",
         step = "record" => Family[KeyOf[r]] = "transition",
         step = "put" => Family[KeyOf[r]] = "proposal"
  PROVE  IInv'
<1> DEFINE k == KeyOf[r]
           x == [step |-> step, body |-> BodyOf[r], written |-> FALSE]
<1>1. /\ client \in [Requests -> Call] /\ run \in [Keys -> Execution] /\ chain \in Seq(Keys)
      /\ k \in Keys /\ BodyOf[r] \in Bodies /\ Family \in [Keys -> {"ingest", "transition", "proposal"}]
      /\ store \subseteq Result /\ storeMap \subseteq store
  BY SetupTypes DEF IInv, Typed
<1>2. /\ up /\ run[k].step = "none" /\ Remembered(k) = {}
      /\ client' = [client EXCEPT ![r].phase = "joined"]
      /\ run' = [run EXCEPT ![k] = x]
      /\ chain' = IF step = "put" THEN chain ELSE Append(chain, k)
      /\ UNCHANGED <<up, file, map, store, storeMap>>
  BY DEF ArriveNew, Arrives, Idle, Begin, Join
<1>3. /\ x \in Execution /\ x.step = step /\ x.body = BodyOf[r] /\ x.written = FALSE
  BY <1>1 DEF Execution, Steps
<1>4. /\ run' \in [Keys -> Execution] /\ run'[k] = x
      /\ \A j \in Keys : j # k => run'[j] = run[j]
  <2> HIDE DEF x
  <2> QED
    BY <1>1, <1>2, <1>3
<1>5. /\ client' \in [Requests -> Call]
      /\ \A q \in Requests : q # r => client'[q] = client[q]
      /\ client'[r].phase = "joined"
  BY <1>1, <1>2 DEF Call, Phases
<1> HIDE DEF k, x
<1>6. ~Queued(k) /\ ~PutLanded(k)
  BY <1>2 DEF Queued, PutLanded
<1>7. \A j \in Keys :
        /\ Landed(j)' => j # k /\ Landed(j)
        /\ Landed(j) => Landed(j)' /\ Lands(j)' = Lands(j)
        /\ PutLanded(j)' <=> PutLanded(j)
        /\ PutLanded(j) => j # k /\ run'[j] = run[j]
  BY <1>3, <1>4, <1>6 DEF Landed, Queued, PutLanded, Lands
<1>8. Typed'
  <2>1. chain' \in Seq(Keys)
    BY <1>1, <1>2, QueueGrows
  <2> QED
    BY <1>2, <1>4, <1>5, <2>1 DEF IInv, Typed, SameSetup
<1>9. QueueInv'
  <2>1. \A i \in 1..Len(chain) : chain[i] \in Keys /\ Queued(chain[i]) /\ chain[i] # k
    BY <1>1, <1>6 DEF IInv, QueueInv
  <2>2. step # "put" => run'[k].step \in {"batch", "record", "event"}
    BY <1>3, <1>4
  <2>3. \A i \in 1..Len(chain) : run'[chain[i]].step \in {"batch", "record", "event"}
    BY <1>4, <2>1 DEF Queued
  <2>4. \A i \in 1..Len(chain') : run'[chain'[i]].step \in {"batch", "record", "event"}
    BY <1>1, <1>2, <2>2, <2>3, QueueGrows
  <2>5. \A i, j \in 1..Len(chain') : chain'[i] = chain'[j] => i = j
    BY <1>1, <1>2, <2>1, QueueGrows DEF IInv, QueueInv
  <2>6. \A j \in Keys : Landed(j)' => chain' # <<>> /\ Head(chain') = j
    BY <1>1, <1>2, <1>7, QueueGrows DEF IInv, QueueInv
  <2>7. \A j \in Keys : StepOfFamily(j)'
    BY <1>1, <1>3, <1>4 DEF IInv, QueueInv, StepOfFamily, SameSetup, k
  <2> QED
    BY <1>2, <2>4, <2>5, <2>6, <2>7 DEF QueueInv, Queued
<1>10. FileInv'
  <2>1. Family[k] = "ingest" => \A e \in map : ~(e.kind = "receipt" /\ e.id = k)
    BY <1>2 DEF Remembered
  <2>2. \A j \in Keys : run'[j].step = "batch" => \A e \in map : ~(e.kind = "receipt" /\ e.id = j)
    BY <1>3, <1>4, <2>1 DEF IInv, FileInv, k
  <2> QED
    BY <1>2, <1>7, <2>2 DEF IInv, FileInv, SameSetup, UniqueIds
<1>11. StoreInv'
  <2>1. \A e \in storeMap : e.key # k
    <3>1. Family[k] # "ingest" => \A e \in storeMap : e.key # k
      BY <1>2 DEF Remembered
    <3>2. \A e \in store : Family[e.key] # "ingest"
      BY DEF IInv, StoreInv
    <3> QED
      BY <1>1, <3>1, <3>2
  <2>2. \A j \in Keys : run'[j].step # "none" => \A e \in storeMap : e.key # j
    BY <1>4, <2>1 DEF IInv, StoreInv
  <2>3. \A e \in store : e.key \in Keys
    BY <1>1 DEF Result
  <2>4. \A e \in store : e \in storeMap \/ (PutLanded(e.key)' /\ run'[e.key].body = e.body)
    BY <1>2, <1>7, <2>3 DEF IInv, StoreInv
  <2>5. \A j \in Keys : PutLanded(j)' => [key |-> j, body |-> run'[j].body] \in store
    BY <1>7 DEF IInv, StoreInv
  <2>6. \A j \in Keys : run'[j].step = "event" => StoredRecords(run'[j].body) \subseteq file
    BY <1>3, <1>4 DEF IInv, StoreInv
  <2>7. \A j \in Keys : run'[j].step = "put" /\ Family[j] = "transition" =>
          Whole(j, run'[j].body) \subseteq file
    BY <1>3, <1>4 DEF IInv, StoreInv, k
  <2> QED
    BY <1>2, <2>2, <2>4, <2>5, <2>6, <2>7 DEF IInv, StoreInv, SameSetup
<1>12. JoinedInv'
  <2>1. ASSUME NEW q \in Requests, client'[q].phase = "joined"
        PROVE  run'[KeyOf[q]].step # "none" /\ run'[KeyOf[q]].body = BodyOf[q]
    <3>1. KeyOf[q] \in Keys
      BY SetupTypes DEF IInv, Typed
    <3>2. CASE q = r
      BY <1>3, <1>4, <3>2 DEF k
    <3>3. CASE q # r
      BY <1>2, <1>4, <1>5, <2>1, <3>1, <3>3 DEF IInv, JoinedInv, k
    <3> QED
      BY <3>2, <3>3
  <2> QED
    BY <2>1 DEF JoinedInv, SameSetup
<1>13. BackedInv'
  BY <1>2, <1>5 DEF IInv, BackedInv, Accepted, SameSetup
<1> QED
  BY <1>8, <1>9, <1>10, <1>11, <1>12, <1>13 DEF IInv

\* The other requests that arrive.
LEMMA ArrivalKeeps ==
  ASSUME IInv, SameSetup, NEW r \in Requests,
         BeginIngest(r) \/ BeginTransition(r) \/ BeginProposal(r)
  PROVE  IInv'
<1>1. CASE BeginIngest(r)
  BY <1>1, BeginKeeps, AnswerKeeps DEF BeginIngest, Errors
<1>2. CASE BeginTransition(r)
  <2>1. \/ \E code \in {"404", "RECORD_CONFLICT"} :
             Answer(r, code) /\ UNCHANGED <<setup, up, run, chain, file, map, store, storeMap>>
        \/ Begin(r, "record")
    BY <1>2 DEF BeginTransition
  <2> QED
    BY <1>2, <2>1, BeginKeeps, AnswerKeeps DEF BeginTransition, Errors
<1>3. CASE BeginProposal(r)
  BY <1>3, BeginKeeps DEF BeginProposal
<1> QED
  BY <1>1, <1>2, <1>3

-----------------------------------------------------------------------------
(* Every step keeps the invariant: executions                              *)

\* Who waits for an execution is answered when it ends.
LEMMA AnswerAllIs ==
  ASSUME Typed, NEW k \in Keys, NEW code \in Errors, AnswerAll(k, code)
  PROVE  /\ client' \in [Requests -> Call]
         /\ \A r \in Requests : client'[r].phase = "joined" =>
              client[r].phase = "joined" /\ KeyOf[r] # k
         /\ \A r \in Requests : client'[r].phase = "ok" =>
              client[r].phase = "ok" \/ (client[r].phase = "joined" /\ KeyOf[r] = k /\ code = "none")
<1>1. client \in [Requests -> Call] /\ Retries \in Nat
  BY SetupTypes DEF Typed
<1>2. client' = [r \in Requests |->
        IF KeyOf[r] = k /\ client[r].phase = "joined" THEN Told(client[r], code) ELSE client[r]]
  BY DEF AnswerAll
<1>3. \A r \in Requests :
        /\ Told(client[r], code) \in Call
        /\ Told(client[r], code).phase # "joined"
        /\ Told(client[r], code).phase = "ok" => code = "none"
  BY <1>1, ToldIs
<1> QED
  BY <1>1, <1>2, <1>3

\* An execution ends: its append leaves the queue, or its put is over; what
\* it has in the files is known to the process, and nothing else changes.
LEMMA EndKeeps ==
  ASSUME IInv, SameSetup, NEW k \in Keys, NEW code \in Errors, Finish(k, code),
         up, up' = up, file' = file, store' = store,
         \/ Appending(k) /\ chain' = Tail(chain)
         \/ run[k].step = "put" /\ chain' = chain,
         map \subseteq map', map' \subseteq file, storeMap \subseteq storeMap', storeMap' \subseteq store,
         Landed(k) => Lands(k) \subseteq map',
         \A e \in map' : e \in map \/ (Landed(k) /\ e \in Lands(k)),
         PutLanded(k) => [key |-> k, body |-> run[k].body] \in storeMap',
         \A e \in storeMap' : e \in storeMap \/ e.key = k,
         code = "none" => Accepted(k, run[k].body)
  PROVE  IInv'
<1>1. /\ client \in [Requests -> Call] /\ run \in [Keys -> Execution] /\ chain \in Seq(Keys)
      /\ Family \in [Keys -> {"ingest", "transition", "proposal"}]
      /\ KeyOf \in [Requests -> Keys] /\ BodyOf \in [Requests -> Bodies]
      /\ store \subseteq Result
  BY SetupTypes DEF IInv, Typed
<1>2. /\ run' = [run EXCEPT ![k] = Ended]
      /\ Ended \in Execution /\ Ended.step = "none" /\ Ended.written = FALSE
      /\ AnswerAll(k, code)
  BY EndedIs DEF Finish
<1>3. /\ run' \in [Keys -> Execution] /\ run'[k] = Ended
      /\ \A j \in Keys : j # k => run'[j] = run[j]
  BY <1>1, <1>2
<1>4. \A j \in Keys :
        /\ Landed(j)' <=> (j # k /\ Landed(j))
        /\ Landed(j)' => Lands(j)' = Lands(j)
        /\ PutLanded(j)' <=> (j # k /\ PutLanded(j))
        /\ PutLanded(j)' => run'[j] = run[j]
  BY <1>2, <1>3 DEF Landed, Queued, PutLanded, Lands
<1>5. Typed'
  <2>1. chain' \in Seq(Keys)
    BY <1>1, QueueShrinks DEF Appending
  <2> QED
    BY <1>2, <1>3, <2>1, AnswerAllIs DEF IInv, Typed, SameSetup
<1>6. QueueInv'
  <2>1. CASE Appending(k) /\ chain' = Tail(chain)
    <3>1. chain # <<>> /\ Head(chain) = k
      BY <2>1 DEF Appending
    <3>2. \A i \in 1..Len(chain') :
            /\ chain'[i] = chain[i + 1] /\ i + 1 \in 1..Len(chain)
            /\ chain[i + 1] # k /\ chain[i + 1] \in Keys
      BY <1>1, <2>1, <3>1, QueueShrinks DEF IInv, QueueInv
    <3>3. \A i \in 1..Len(chain') : run'[chain'[i]].step \in {"batch", "record", "event"}
      BY <1>3, <3>2 DEF IInv, QueueInv, Queued
    <3>4. \A i, j \in 1..Len(chain') : chain'[i] = chain'[j] => i = j
      <4>1. \A i, j \in 1..Len(chain) : chain[i] = chain[j] => i = j
        BY DEF IInv, QueueInv
      <4> SUFFICES ASSUME NEW i \in 1..Len(chain'), NEW j \in 1..Len(chain'),
                          chain'[i] = chain'[j]
                   PROVE  i = j
        OBVIOUS
      <4>2. i + 1 = j + 1
        BY <3>2, <4>1
      <4> QED
        BY <4>2
    <3>5. \A j \in Keys : ~Landed(j)'
      BY <1>4, <3>1 DEF IInv, QueueInv
    <3>6. \A j \in Keys : StepOfFamily(j)'
      BY <1>2, <1>3 DEF IInv, QueueInv, StepOfFamily, SameSetup
    <3> QED
      BY <3>3, <3>4, <3>5, <3>6 DEF QueueInv, Queued
  <2>2. CASE run[k].step = "put" /\ chain' = chain
    <3>1. \A i \in 1..Len(chain) :
            /\ chain[i] \in Keys /\ chain[i] # k
            /\ run'[chain[i]].step \in {"batch", "record", "event"}
      BY <1>1, <1>3, <2>2 DEF IInv, QueueInv, Queued
    <3>2. \A j \in Keys : Landed(j)' => chain' # <<>> /\ Head(chain') = j
      BY <1>4, <2>2 DEF IInv, QueueInv
    <3>3. \A j \in Keys : StepOfFamily(j)'
      BY <1>2, <1>3 DEF IInv, QueueInv, StepOfFamily, SameSetup
    <3> QED
      BY <2>2, <3>1, <3>2, <3>3 DEF IInv, QueueInv, Queued
  <2> QED
    BY <2>1, <2>2
<1>7. FileInv'
  <2>1. \A e \in file : e \in map' \/ \E j \in Keys : Landed(j)' /\ e \in Lands(j)'
    BY <1>4 DEF IInv, FileInv
  <2>2. \A j \in Keys : Landed(j)' => Lands(j)' \subseteq file
    BY <1>4 DEF IInv, FileInv
  <2>3. \A j \in Keys : run'[j].step = "batch" => \A e \in map' : ~(e.kind = "receipt" /\ e.id = j)
    <3> SUFFICES ASSUME NEW j \in Keys, run'[j].step = "batch", NEW e \in map',
                        e.kind = "receipt", e.id = j
                 PROVE  FALSE
      OBVIOUS
    <3>1. j # k /\ run[j].step = "batch"
      BY <1>2, <1>3
    <3>2. Landed(k) /\ e \in Lands(k)
      BY <3>1 DEF IInv, FileInv
    <3>3. /\ run[k].step \in {"batch", "record", "event"} /\ run[k].body \in Bodies
      BY <1>1, <3>2 DEF Landed, Queued, Execution
    <3>4. e = StoredReceipt(k, run[k].body)
      BY <3>2, <3>3, AddsAre DEF Lands
    <3>5. e.id = k
      BY <3>4 DEF StoredReceipt
    <3> QED
      BY <3>1, <3>5
  <2> QED
    BY <2>1, <2>2, <2>3 DEF IInv, FileInv, SameSetup, UniqueIds
<1>8. StoreInv'
  <2>1. \A e \in store : e.key \in Keys /\ e = [key |-> e.key, body |-> e.body]
    BY <1>1 DEF Result
  <2>2. \A e \in store : e \in storeMap' \/ (PutLanded(e.key)' /\ run'[e.key].body = e.body)
    BY <1>4, <2>1 DEF IInv, StoreInv
  <2>3. \A j \in Keys : PutLanded(j)' => [key |-> j, body |-> run'[j].body] \in store
    BY <1>4 DEF IInv, StoreInv
  <2>4. \A j \in Keys : run'[j].step # "none" => \A e \in storeMap' : e.key # j
    BY <1>2, <1>3 DEF IInv, StoreInv
  <2>5. \A j \in Keys : run'[j].step = "event" => StoredRecords(run'[j].body) \subseteq file
    BY <1>2, <1>3 DEF IInv, StoreInv
  <2>6. \A j \in Keys : run'[j].step = "put" /\ Family[j] = "transition" =>
          Whole(j, run'[j].body) \subseteq file
    BY <1>2, <1>3 DEF IInv, StoreInv
  <2> QED
    BY <2>2, <2>3, <2>4, <2>5, <2>6 DEF IInv, StoreInv, SameSetup
<1>9. JoinedInv'
  <2>1. \A r \in Requests : client'[r].phase = "joined" => client[r].phase = "joined" /\ KeyOf[r] # k
    BY <1>2, AnswerAllIs DEF IInv
  <2> QED
    BY <1>1, <1>3, <2>1 DEF IInv, JoinedInv, SameSetup
<1>10. BackedInv'
  <2>1. \A r \in Requests : client'[r].phase = "ok" =>
          client[r].phase = "ok" \/ (client[r].phase = "joined" /\ KeyOf[r] = k /\ code = "none")
    BY <1>2, AnswerAllIs DEF IInv
  <2>2. \A r \in Requests : client'[r].phase = "ok" => Accepted(KeyOf[r], BodyOf[r])
    BY <2>1 DEF IInv, JoinedInv, BackedInv
  <2> QED
    BY <2>2 DEF BackedInv, Accepted, SameSetup
<1> QED
  BY <1>5, <1>6, <1>7, <1>8, <1>9, <1>10 DEF IInv

\* An append, or a put, is refused or fails before the file changes.
LEMMA RefusalKeeps ==
  ASSUME IInv, SameSetup, NEW k \in Keys, AppendRefused(k) \/ WriteFails(k) \/ PutFails(k)
  PROVE  IInv'
<1>1. /\ Finish(k, "500") /\ UNCHANGED <<up, file, map, store, storeMap>> /\ up
      /\ ~Landed(k) /\ ~PutLanded(k)
      /\ \/ Appending(k) /\ chain' = Tail(chain)
         \/ run[k].step = "put" /\ chain' = chain
  <2>1. CASE AppendRefused(k) \/ WriteFails(k)
    BY <2>1 DEF AppendRefused, WriteFails, Appending, Landed, PutLanded
  <2>2. CASE PutFails(k)
    BY <2>2 DEF PutFails, Putting, Landed, PutLanded
  <2> QED
    BY <2>1, <2>2
<1>2. map \subseteq file /\ storeMap \subseteq store
  BY DEF IInv, Typed
<1> QED
  BY <1>1, <1>2, EndKeeps DEF Errors

\* The result of an execution is stored and the process knows it.
LEMMA PutSettlesKeeps ==
  ASSUME IInv, SameSetup, NEW k \in Keys, PutSettles(k)
  PROVE  IInv'
<1> DEFINE e == [key |-> k, body |-> run[k].body]
<1>1. /\ Finish(k, "none") /\ UNCHANGED <<up, chain, file, map, store>> /\ up
      /\ PutLanded(k) /\ run[k].step = "put" /\ storeMap' = storeMap \union {e}
  BY DEF PutSettles, Putting, PutLanded
<1>2. map \subseteq file /\ storeMap \subseteq store
  BY DEF IInv, Typed
<1>3. e \in store /\ Family[k] # "ingest"
  BY <1>1 DEF IInv, StoreInv, QueueInv, StepOfFamily
<1>4. Accepted(k, run[k].body)
  BY <1>3 DEF Accepted
<1>5. ~Landed(k)
  BY <1>1 DEF Landed, Queued
<1>6. e.key = k
  OBVIOUS
<1> HIDE DEF e
<1>7. PutLanded(k) => e \in storeMap'
  BY <1>1
<1> QED
  BY <1>1, <1>2, <1>3, <1>4, <1>5, <1>6, <1>7, EndKeeps DEF Errors, e

\* The one append that has landed.
LEMMA AppendingIs ==
  ASSUME IInv, NEW k \in Keys, Appending(k)
  PROVE  /\ Queued(k) /\ up /\ chain # <<>> /\ Head(chain) = k
         /\ \A j \in Keys : Landed(j) => j = k
         /\ run[k].step \in {"batch", "record", "event"} /\ run[k].body \in Bodies
         /\ run[k] \in Execution /\ run \in [Keys -> Execution] /\ chain \in Seq(Keys)
         /\ Stamped(Appends(k)) = Lands(k)
<1>1. run \in [Keys -> Execution] /\ chain \in Seq(Keys) /\ chain # <<>> /\ up /\ Head(chain) = k
  BY DEF IInv, Typed, Appending
<1>2. Queued(k)
  BY <1>1, QueueShrinks DEF IInv, QueueInv
<1>3. Stamped(Appends(k)) = Lands(k)
  BY <1>2, StampedAppends
<1> QED
  BY <1>1, <1>2, <1>3 DEF IInv, QueueInv, Queued, Execution

\* A settled append of an ingestion, or of a transition whose event has an
\* identifier that is taken.
LEMMA SettleEndKeeps ==
  ASSUME IInv, SameSetup, NEW k \in Keys, Appending(k), run[k].written,
         map' = map \union Stamped(Appends(k)), chain' = Tail(chain),
         NEW code \in Errors, Finish(k, code), code = "none" => run[k].step = "batch",
         UNCHANGED <<up, file, store, storeMap>>
  PROVE  IInv'
<1>1. /\ Landed(k) /\ up /\ map' = map \union Lands(k)
      /\ run[k].step \in {"batch", "record", "event"} /\ run[k].body \in Bodies
  BY AppendingIs DEF Landed
<1>2. Lands(k) \subseteq file /\ map \subseteq file /\ storeMap \subseteq store
  BY <1>1 DEF IInv, FileInv, Typed
<1>3. ~PutLanded(k)
  BY <1>1 DEF PutLanded
<1>4. code = "none" => Accepted(k, run[k].body)
  BY <1>1, <1>2, AddsAre DEF Lands, Accepted, IInv, QueueInv, StepOfFamily
<1> QED
  BY <1>1, <1>2, <1>3, <1>4, EndKeeps

\* A transition goes on: from its records to its event, and from its event to
\* its result.
LEMMA MoveOnKeeps ==
  ASSUME IInv, SameSetup, NEW k \in Keys, Appending(k), run[k].written,
         map' = map \union Stamped(Appends(k)), NEW next,
         \/ run[k].step = "record" /\ next = "event" /\ chain' = Append(Tail(chain), k)
         \/ run[k].step = "event" /\ next = "put" /\ chain' = Tail(chain),
         run' = [run EXCEPT ![k].step = next, ![k].written = FALSE],
         UNCHANGED <<client, up, file, store, storeMap>>
  PROVE  IInv'
<1> DEFINE x == [run[k] EXCEPT !.step = next, !.written = FALSE]
<1>1. /\ Landed(k) /\ up /\ map' = map \union Lands(k)
      /\ run[k].step \in {"batch", "record", "event"} /\ run[k].body \in Bodies
      /\ run[k] \in Execution /\ run \in [Keys -> Execution] /\ chain \in Seq(Keys)
      /\ chain # <<>> /\ Head(chain) = k
      /\ \A j \in Keys : Landed(j) => j = k
  BY AppendingIs DEF Landed
<1>2. /\ Family[k] = "transition" /\ next \in {"event", "put"}
      /\ KeyOf \in [Requests -> Keys]
  BY <1>1, SetupTypes DEF IInv, QueueInv, StepOfFamily, Typed
<1>3. x \in Execution /\ x.step = next /\ x.written = FALSE /\ x.body = run[k].body
  BY <1>1, <1>2 DEF Execution, Steps
<1>4. run' = [run EXCEPT ![k] = x]
  OBVIOUS
<1> HIDE DEF x
<1>5. /\ run' \in [Keys -> Execution] /\ run'[k] = x
      /\ \A j \in Keys : j # k => run'[j] = run[j]
  BY <1>1, <1>3, <1>4
<1>6. \A j \in Keys : ~Landed(j)' /\ (PutLanded(j)' <=> j # k /\ PutLanded(j))
  BY <1>1, <1>3, <1>5 DEF Landed, Queued, PutLanded
<1>7. Lands(k) \subseteq file /\ map' \subseteq file /\ ~PutLanded(k)
  BY <1>1 DEF IInv, FileInv, Typed, PutLanded
<1>8. Typed'
  <2>1. Tail(chain) \in Seq(Keys)
    BY <1>1, QueueShrinks
  <2>2. chain' \in Seq(Keys)
    BY <2>1, QueueGrows
  <2> QED
    BY <1>5, <1>7, <2>2 DEF IInv, Typed, SameSetup
<1>9. QueueInv'
  <2> DEFINE q == Tail(chain)
  <2>1. q \in Seq(Keys) /\ Len(q) \in Nat /\ Len(q) = Len(chain) - 1
    BY <1>1, QueueShrinks
  <2>2. \A i \in 1..Len(q) :
          /\ q[i] = chain[i + 1] /\ i + 1 \in 1..Len(chain)
          /\ chain[i + 1] # k /\ chain[i + 1] \in Keys
    <3>1. \A i \in 1..Len(q) : q[i] = chain[i + 1] /\ i + 1 \in 1..Len(chain) /\ i + 1 # 1
      BY <1>1, QueueShrinks
    <3>2. k = chain[1] /\ 1 \in 1..Len(chain)
      BY <1>1, QueueShrinks
    <3>3. \A i \in 1..Len(chain) : chain[i] = k => i = 1
      BY <3>2 DEF IInv, QueueInv
    <3> QED
      BY <1>1, <3>1, <3>3
  <2>3. \A i \in 1..Len(q) : run'[q[i]].step \in {"batch", "record", "event"} /\ q[i] # k
    BY <1>5, <2>2 DEF IInv, QueueInv, Queued
  <2>4. \A i, j \in 1..Len(q) : q[i] = q[j] => i = j
    BY <2>2 DEF IInv, QueueInv
  <2>5. /\ \A i \in 1..Len(chain') : run'[chain'[i]].step \in {"batch", "record", "event"}
        /\ \A i, j \in 1..Len(chain') : chain'[i] = chain'[j] => i = j
    <3> HIDE DEF q
    <3>1. CASE next = "event" /\ chain' = Append(q, k)
      <4>1. run'[k].step = "event"
        BY <1>3, <1>5, <3>1
      <4>2. \A i \in 1..Len(chain') :
              (i \in 1..Len(q) /\ chain'[i] = q[i]) \/ (i = Len(q) + 1 /\ chain'[i] = k)
        BY <2>1, <3>1, QueueGrows
      <4> QED
        BY <2>3, <2>4, <4>1, <4>2
    <3>2. CASE chain' = q
      BY <2>3, <2>4, <3>2
    <3> QED
      BY <3>1, <3>2 DEF q
  <2>6. \A j \in Keys : StepOfFamily(j)'
    BY <1>2, <1>3, <1>5 DEF IInv, QueueInv, StepOfFamily, SameSetup
  <2> QED
    BY <1>1, <1>6, <2>5, <2>6 DEF QueueInv, Queued
<1>10. FileInv'
  <2>1. \A e \in file : e \in map'
    BY <1>1 DEF IInv, FileInv
  <2>2. \A e \in Lands(k) : e.kind # "receipt"
    BY <1>1, AddsAre DEF Lands
  <2>3. \A j \in Keys : run'[j].step = "batch" => \A e \in map' : ~(e.kind = "receipt" /\ e.id = j)
    BY <1>1, <1>2, <1>3, <1>5, <2>2 DEF IInv, FileInv
  <2> QED
    BY <1>6, <2>1, <2>3 DEF IInv, FileInv, SameSetup, UniqueIds
<1>11. StoreInv'
  <2>1. \A e \in store : e.key \in Keys
    BY DEF IInv, Typed, Result
  <2>2. \A e \in store : e \in storeMap \/ (PutLanded(e.key)' /\ run'[e.key].body = e.body)
    BY <1>1, <1>5, <1>6, <1>7, <2>1 DEF IInv, StoreInv
  <2>3. \A j \in Keys : PutLanded(j)' => [key |-> j, body |-> run'[j].body] \in store
    BY <1>5, <1>6 DEF IInv, StoreInv
  <2>4. \A j \in Keys : run'[j].step # "none" => \A e \in storeMap : e.key # j
    BY <1>1, <1>5 DEF IInv, StoreInv
  <2>5. \A j \in Keys : run'[j].step = "event" => StoredRecords(run'[j].body) \subseteq file
    <3>1. next = "event" => StoredRecords(run[k].body) \subseteq file
      BY <1>1, <1>7, AddsAre DEF Lands
    <3> QED
      BY <1>3, <1>5, <3>1 DEF IInv, StoreInv
  <2>6. \A j \in Keys : run'[j].step = "put" /\ Family[j] = "transition" =>
          Whole(j, run'[j].body) \subseteq file
    <3>1. next = "put" => StoredEvents(k, run[k].body) \subseteq file
      BY <1>1, <1>7, AddsAre DEF Lands
    <3>2. next = "put" => StoredRecords(run[k].body) \subseteq file
      BY DEF IInv, StoreInv
    <3> QED
      BY <1>3, <1>5, <3>1, <3>2 DEF IInv, StoreInv, Whole
  <2> QED
    BY <2>2, <2>3, <2>4, <2>5, <2>6 DEF IInv, StoreInv, SameSetup
<1>12. JoinedInv'
  BY <1>2, <1>3, <1>5 DEF IInv, JoinedInv, SameSetup
<1>13. BackedInv'
  BY DEF IInv, BackedInv, Accepted, SameSetup
<1> QED
  BY <1>8, <1>9, <1>10, <1>11, <1>12, <1>13 DEF IInv

\* The promise of an append resolves.
LEMMA SettleKeeps ==
  ASSUME IInv, SameSetup, NEW k \in Keys, Settle(k)
  PROVE  IInv'
<1> DEFINE taken == run[k].step = "record" /\ Conflicting({EventEntry(x, k) : x \in RecordsOf[run[k].body]})
           next  == IF run[k].step = "record" THEN "event" ELSE "put"
<1>1. /\ Appending(k) /\ run[k].written /\ map' = map \union Stamped(Appends(k))
      /\ UNCHANGED <<up, file, store, storeMap>>
      /\ run[k].step \in {"batch", "record", "event"}
  BY AppendingIs DEF Settle
<1>2. CASE run[k].step = "batch" \/ taken
  <2>1. Finish(k, IF taken THEN "RECORD_CONFLICT" ELSE "none") /\ chain' = Tail(chain)
    BY <1>2, Zenon DEF Settle
  <2>2. taken => run[k].step = "record"
    OBVIOUS
  <2> HIDE DEF taken
  <2>3. PICK code \in Errors : Finish(k, code) /\ (code = "none" => run[k].step = "batch")
    BY <1>2, <2>1, <2>2 DEF Errors
  <2> QED
    BY <1>1, <2>1, <2>3, SettleEndKeeps
<1>3. CASE ~(run[k].step = "batch" \/ taken)
  <2>1. /\ run' = [run EXCEPT ![k].step = next, ![k].written = FALSE]
        /\ chain' = IF next = "event" THEN Append(Tail(chain), k) ELSE Tail(chain)
        /\ client' = client
    BY <1>3, Zenon DEF Settle
  <2>2. \/ run[k].step = "record" /\ next = "event"
        \/ run[k].step = "event" /\ next = "put"
    BY <1>1, <1>3
  <2> HIDE DEF taken, next
  <2> QED
    BY <1>1, <2>1, <2>2, MoveOnKeeps
<1> QED
  BY <1>2, <1>3

\* The entries of an append reach the file: none of their identifiers is in
\* the Map, which at this moment is the whole file.
LEMMA WriteKeeps ==
  ASSUME IInv, SameSetup, NEW k \in Keys, Write(k)
  PROVE  IInv'
<1> DEFINE x == [run[k] EXCEPT !.written = TRUE]
<1>1. /\ Appending(k) /\ ~run[k].written
      /\ \A e \in Appends(k), f \in map : ~SameId(e, f)
      /\ file' = file \union Stamped(Appends(k))
      /\ run' = [run EXCEPT ![k] = x]
      /\ UNCHANGED <<client, up, chain, map, store, storeMap>>
  BY DEF Write
<1>2. /\ Queued(k) /\ up /\ chain # <<>> /\ Head(chain) = k
      /\ \A j \in Keys : ~Landed(j)
      /\ run[k].step \in {"batch", "record", "event"} /\ run[k].body \in Bodies
      /\ run[k] \in Execution /\ run \in [Keys -> Execution] /\ chain \in Seq(Keys)
      /\ Stamped(Appends(k)) = Lands(k)
  BY <1>1, AppendingIs DEF Landed
<1>3. x \in Execution /\ x.step = run[k].step /\ x.body = run[k].body /\ x.written = TRUE
  BY <1>2 DEF Execution
<1> HIDE DEF x
<1>4. /\ run' \in [Keys -> Execution] /\ run'[k] = x
      /\ \A j \in Keys : j # k => run'[j] = run[j]
      /\ \A j \in Keys : run'[j].step = run[j].step /\ run'[j].body = run[j].body
  BY <1>1, <1>2, <1>3
<1>5. file = map
  BY <1>2 DEF IInv, FileInv, Typed
<1>6. \A e \in Lands(k), f \in file : ~SameId(e, f)
  <2>1. \A e \in Appends(k) :
          \E K, I, C, B : e = [kind |-> K, id |-> I, content |-> C, stamped |-> B]
    <3>1. \A e \in Appends(k) :
            \/ \E y : e = RecordEntry(y, run[k].body)
            \/ \E y : e = EventEntry(y, k)
            \/ e = Receipt(k, run[k].body)
      BY DEF Appends, RecordsAndEvents
    <3> QED
      BY <3>1, Zenon DEF RecordEntry, EventEntry, Receipt
  <2>2. \A e \in Stamped(Appends(k)), f \in map : ~SameId(e, f)
    BY <1>1, <2>1, StampKeepsIds
  <2> QED
    BY <1>2, <1>5, <2>2
<1>7. /\ file' = file \union Lands(k)
      /\ \A j \in Keys : Landed(j)' <=> j = k
      /\ Lands(k)' = Lands(k)
      /\ \A j \in Keys : PutLanded(j)' <=> PutLanded(j)
  BY <1>1, <1>2, <1>3, <1>4 DEF Landed, Queued, PutLanded, Lands
<1>8. /\ Lands(k) \subseteq StoredEntry
      /\ \A e, f \in Lands(k) : SameId(e, f) => e = f
      /\ \A e \in Lands(k) : e.kind = "receipt" =>
           run[k].step = "batch" /\ e = StoredReceipt(k, run[k].body)
      /\ \A e \in Lands(k) : e.kind = "event" => e.content = k /\ e.id \in RecordsOf[run[k].body]
      /\ run[k].step = "batch" =>
           StoredReceipt(k, run[k].body) \in Lands(k) /\ Whole(k, run[k].body) \subseteq Lands(k)
  BY <1>2, AddsAre DEF Lands
<1>9. StepOfFamily(k) /\ KeyOf \in [Requests -> Keys]
  BY SetupTypes DEF IInv, QueueInv, Typed
<1>10. Typed'
  BY <1>1, <1>4, <1>7, <1>8 DEF IInv, Typed, SameSetup
<1>11. QueueInv'
  <2>1. \A i \in 1..Len(chain) : chain[i] \in Keys
    BY <1>2
  <2> QED
    BY <1>1, <1>2, <1>4, <1>7, <2>1 DEF IInv, QueueInv, Queued, StepOfFamily, SameSetup
<1>12. FileInv'
  <2>1. UniqueIds'
    <3>1. \A e, f : SameId(e, f) => SameId(f, e)
      BY DEF SameId
    <3> QED
      BY <1>6, <1>7, <1>8, <3>1 DEF IInv, FileInv, UniqueIds
  <2>2. \A e \in file' : e \in map' \/ \E j \in Keys : Landed(j)' /\ e \in Lands(j)'
    BY <1>1, <1>5, <1>7
  <2>3. \A j \in Keys : Landed(j)' => Lands(j)' \subseteq file'
    BY <1>7
  <2>4. \A e \in file' : e.kind = "receipt" =>
          Family[e.id] = "ingest" /\ Whole(e.id, e.content) \subseteq file'
    <3>1. run[k].step = "batch" => Family[StoredReceipt(k, run[k].body).id] = "ingest"
            /\ Whole(StoredReceipt(k, run[k].body).id, StoredReceipt(k, run[k].body).content)
                 \subseteq Lands(k)
      BY <1>8, <1>9 DEF StepOfFamily, StoredReceipt
    <3> QED
      BY <1>7, <1>8, <3>1 DEF IInv, FileInv
  <2>5. \A e \in file' : e.kind = "event" /\ Family[e.content] = "ingest" =>
          \E b \in Bodies : e.id \in RecordsOf[b] /\ StoredReceipt(e.content, b) \in file'
    <3>1. Family[k] = "ingest" => run[k].step = "batch"
      BY <1>2, <1>9 DEF StepOfFamily
    <3>2. ASSUME NEW e \in Lands(k), e.kind = "event", Family[e.content] = "ingest"
          PROVE  e.id \in RecordsOf[run[k].body] /\ StoredReceipt(e.content, run[k].body) \in file'
      BY <1>7, <1>8, <3>1, <3>2
    <3> QED
      BY <1>2, <1>7, <3>2 DEF IInv, FileInv
  <2>6. \A j \in Keys : run'[j].step = "batch" => \A e \in map' : ~(e.kind = "receipt" /\ e.id = j)
    BY <1>1, <1>4 DEF IInv, FileInv
  <2> QED
    BY <2>1, <2>2, <2>3, <2>4, <2>5, <2>6 DEF FileInv, SameSetup
<1>13. StoreInv'
  <2>1. \A e \in store : e.key \in Keys
    BY DEF IInv, Typed, Result
  <2> QED
    BY <1>1, <1>4, <1>7, <2>1 DEF IInv, StoreInv, SameSetup
<1>14. JoinedInv'
  BY <1>1, <1>4, <1>9 DEF IInv, JoinedInv, SameSetup
<1>15. BackedInv'
  BY <1>1, <1>7 DEF IInv, BackedInv, Accepted, SameSetup
<1> QED
  BY <1>10, <1>11, <1>12, <1>13, <1>14, <1>15 DEF IInv

\* A result reaches the file of the store, where there is none of its key.
LEMMA PutWriteKeeps ==
  ASSUME IInv, SameSetup, NEW k \in Keys, PutWrite(k)
  PROVE  IInv'
<1> DEFINE x == [run[k] EXCEPT !.written = TRUE]
           res == [key |-> k, body |-> run[k].body]
<1>1. /\ up /\ run[k].step = "put" /\ \A j \in Keys : ~PutLanded(j)
      /\ store' = store \union {res}
      /\ run' = [run EXCEPT ![k] = x]
      /\ UNCHANGED <<client, up, chain, file, map, storeMap>>
  BY DEF PutWrite, Putting, PutLanded
<1>2. /\ run \in [Keys -> Execution] /\ run[k] \in Execution /\ run[k].body \in Bodies
      /\ chain \in Seq(Keys) /\ KeyOf \in [Requests -> Keys] /\ store \subseteq Result
      /\ StepOfFamily(k)
  BY SetupTypes DEF IInv, Typed, QueueInv, Execution
<1>3. x \in Execution /\ x.step = "put" /\ x.body = run[k].body /\ x.written = TRUE
  BY <1>1, <1>2 DEF Execution
<1>4. res \in Result /\ res.key = k /\ res.body = run[k].body
  BY <1>2 DEF Result
<1> HIDE DEF x, res
<1>5. /\ run' \in [Keys -> Execution] /\ run'[k] = x
      /\ \A j \in Keys : j # k => run'[j] = run[j]
      /\ \A j \in Keys : run'[j].step = run[j].step /\ run'[j].body = run[j].body
  BY <1>1, <1>2, <1>3
<1>6. /\ \A j \in Keys : (Landed(j)' <=> Landed(j)) /\ Lands(j)' = Lands(j)
      /\ \A j \in Keys : PutLanded(j)' <=> j = k
  BY <1>1, <1>3, <1>5 DEF Landed, Queued, PutLanded, Lands
<1>7. \A e \in store : e \in storeMap /\ e.key # k /\ e.key \in Keys
  BY <1>1, <1>2 DEF IInv, StoreInv, Result
<1>8. Typed'
  BY <1>1, <1>4, <1>5 DEF IInv, Typed, SameSetup
<1>9. QueueInv'
  <2>1. \A i \in 1..Len(chain) : chain[i] \in Keys
    BY <1>2
  <2> QED
    BY <1>1, <1>5, <1>6, <2>1 DEF IInv, QueueInv, Queued, StepOfFamily, SameSetup
<1>10. FileInv'
  BY <1>1, <1>5, <1>6 DEF IInv, FileInv, UniqueIds, SameSetup
<1>11. StoreInv'
  <2>1. \A e, f \in store' : e.key = f.key => e = f
    BY <1>1, <1>4, <1>7 DEF IInv, StoreInv
  <2>2. \A e \in store' : Family[e.key] # "ingest"
    BY <1>1, <1>2, <1>4 DEF IInv, StoreInv, StepOfFamily
  <2>3. \A e \in store' : Family[e.key] = "transition" => Whole(e.key, e.body) \subseteq file
    BY <1>1, <1>4 DEF IInv, StoreInv
  <2>4. \A e \in store' : e \in storeMap \/ (PutLanded(e.key)' /\ run'[e.key].body = e.body)
    BY <1>1, <1>3, <1>4, <1>5, <1>6, <1>7
  <2>5. \A j \in Keys : PutLanded(j)' => [key |-> j, body |-> run'[j].body] \in store'
    BY <1>1, <1>3, <1>5, <1>6 DEF res
  <2> QED
    BY <1>1, <1>5, <2>1, <2>2, <2>3, <2>4, <2>5 DEF IInv, StoreInv, SameSetup
<1>12. JoinedInv'
  BY <1>1, <1>2, <1>5 DEF IInv, JoinedInv, SameSetup
<1>13. BackedInv'
  BY <1>1 DEF IInv, BackedInv, Accepted, SameSetup
<1> QED
  BY <1>8, <1>9, <1>10, <1>11, <1>12, <1>13 DEF IInv

-----------------------------------------------------------------------------
(* Every step keeps the invariant: the process                             *)

\* A crash leaves the files as they are, and nobody waits any more.
LEMMA CrashKeeps == ASSUME IInv, SameSetup, Crash PROVE IInv'
<1>1. /\ client \in [Requests -> Call] /\ Retries \in Nat /\ KeyOf \in [Requests -> Keys]
  BY SetupTypes DEF IInv, Typed
<1>2. /\ up' = FALSE /\ run' = [k \in Keys |-> Ended] /\ chain' = <<>> /\ map' = {}
      /\ storeMap' = {} /\ file' = file /\ store' = store
      /\ client' = [r \in Requests |->
           IF client[r].phase = "joined" THEN Told(client[r], "network") ELSE client[r]]
  BY DEF Crash
<1>3. \A r \in Requests :
        /\ Told(client[r], "network") \in Call
        /\ Told(client[r], "network").phase \notin {"joined", "ok"}
  BY <1>1, ToldIs DEF Errors
<1>4. /\ client' \in [Requests -> Call]
      /\ \A r \in Requests : client'[r].phase # "joined"
      /\ \A r \in Requests : client'[r].phase = "ok" => client[r].phase = "ok"
  BY <1>1, <1>2, <1>3
<1>5. /\ run' \in [Keys -> Execution]
      /\ \A k \in Keys : run'[k].step = "none" /\ run'[k].written = FALSE
  BY <1>2, EndedIs
<1>6. \A k \in Keys : ~Landed(k)' /\ ~PutLanded(k)'
  BY <1>5 DEF Landed, PutLanded
<1>7. Typed'
  <2>1. chain' \in Seq(Keys)
    BY <1>2
  <2> QED
    BY <1>2, <1>4, <1>5, <2>1 DEF IInv, Typed, SameSetup
<1>8. QueueInv'
  <2>1. chain' = <<>> /\ 1..Len(chain') = {}
    BY <1>2
  <2>2. \A k \in Keys : StepOfFamily(k)'
    BY <1>5 DEF StepOfFamily
  <2> QED
    BY <1>5, <1>6, <2>1, <2>2 DEF QueueInv
<1>9. FileInv'
  BY <1>2, <1>5, <1>6 DEF IInv, FileInv, UniqueIds, SameSetup
<1>10. StoreInv'
  BY <1>2, <1>5, <1>6 DEF IInv, StoreInv, SameSetup
<1>11. JoinedInv'
  BY <1>4 DEF JoinedInv
<1>12. BackedInv'
  BY <1>2, <1>4 DEF IInv, BackedInv, Accepted, SameSetup
<1> QED
  BY <1>7, <1>8, <1>9, <1>10, <1>11, <1>12 DEF IInv

\* A process that starts reads both files.
LEMMA RestartKeeps == ASSUME IInv, SameSetup, Restart PROVE IInv'
<1>1. /\ ~up /\ up' = TRUE /\ map' = file /\ storeMap' = store
      /\ UNCHANGED <<client, run, chain, file, store>>
      /\ KeyOf \in [Requests -> Keys] /\ run \in [Keys -> Execution]
  BY SetupTypes DEF Restart, IInv, Typed
<1>2. \A k \in Keys : run[k].step = "none" /\ ~Landed(k) /\ ~PutLanded(k)
  BY <1>1 DEF IInv, QueueInv, Landed, Queued, PutLanded
<1>3. Typed'
  BY <1>1 DEF IInv, Typed, SameSetup
<1>4. QueueInv'
  BY <1>1 DEF IInv, QueueInv, Landed, Queued, StepOfFamily, SameSetup
<1>5. FileInv'
  BY <1>1, <1>2 DEF IInv, FileInv, UniqueIds, Landed, Queued, SameSetup
<1>6. StoreInv'
  BY <1>1, <1>2 DEF IInv, StoreInv, PutLanded, SameSetup
<1>7. JoinedInv'
  BY <1>1 DEF IInv, JoinedInv, SameSetup
<1>8. BackedInv'
  BY <1>1 DEF IInv, BackedInv, Accepted, SameSetup
<1> QED
  BY <1>3, <1>4, <1>5, <1>6, <1>7, <1>8 DEF IInv

-----------------------------------------------------------------------------
(* The theorems                                                            *)

LEMMA InitInv == Init => IInv
<1> SUFFICES ASSUME Init PROVE IInv
  OBVIOUS
<1>1. /\ setup \in Setups /\ up = TRUE /\ chain = <<>> /\ map = file /\ store = {} /\ storeMap = {}
      /\ run = [k \in Keys |-> Ended]
      /\ client = [r \in Requests |-> [phase |-> "idle", tries |-> 0, error |-> "none"]]
      /\ file = Stamped({RecordEntry(r.id, r.content) : r \in Stored0})
  BY DEF Init
<1>2. /\ run \in [Keys -> Execution]
      /\ \A k \in Keys : run[k].step = "none" /\ ~Landed(k) /\ ~PutLanded(k)
  BY <1>1, EndedIs DEF Landed, Queued, PutLanded
<1>3. /\ client \in [Requests -> Call]
      /\ \A r \in Requests : client[r].phase = "idle"
  BY <1>1 DEF Call, Phases, Errors
<1>4. \A e \in file : \E r \in Stored0 : e = StoredRecord(r.id, r.content)
  <2> DEFINE G(e) == [e EXCEPT !.stamped = TRUE]
  <2>2. file = {G(e) : e \in {RecordEntry(r.id, r.content) : r \in Stored0}}
    BY <1>1 DEF Stamped
  <2>3. \A x, b : G(RecordEntry(x, b)) = StoredRecord(x, b)
    BY StampsAre, Zenon
  <2> HIDE DEF G
  <2> QED
    BY <2>2, <2>3
<1>5. \A r \in Stored0 :
        /\ StoredRecord(r.id, r.content) \in StoredEntry
        /\ StoredRecord(r.id, r.content).kind = "record"
        /\ StoredRecord(r.id, r.content).id = r.id
        /\ r = [id |-> r.id, content |-> r.content]
  BY StoredAssumption DEF StoredRecord, StoredEntry
<1>6. Typed
  BY <1>1, <1>2, <1>3, <1>4, <1>5 DEF Typed
<1>7. QueueInv
  <2>1. 1..Len(chain) = {}
    BY <1>1
  <2> QED
    BY <1>1, <1>2, <2>1 DEF QueueInv, StepOfFamily
<1>8. FileInv
  <2>1. \A e \in file : e.kind = "record"
    BY <1>4, <1>5
  <2>2. UniqueIds
    BY <1>4, <1>5, StoredAssumption DEF UniqueIds, SameId
  <2> QED
    BY <1>1, <1>2, <2>1, <2>2 DEF FileInv
<1>9. StoreInv /\ JoinedInv /\ BackedInv
  BY <1>1, <1>2, <1>3 DEF StoreInv, JoinedInv, BackedInv
<1> QED
  BY <1>6, <1>7, <1>8, <1>9 DEF IInv

LEMMA NextInv == IInv /\ [Next]_vars => IInv'
<1> SUFFICES ASSUME IInv, [Next]_vars PROVE IInv'
  OBVIOUS
<1>1. SameSetup
  BY SetupStays DEF SameSetup
<1>2. CASE UNCHANGED vars
  <2>1. client \in [Requests -> Call]
    BY DEF IInv, Typed
  <2> QED
    BY <1>1, <1>2, <2>1, QuietKeeps DEF vars
<1>3. ASSUME NEW r \in Requests, Send(r) \/ LoseConnection(r) \/ Arrive(r) PROVE IInv'
  BY <1>1, <1>3, RequestKeeps, ArrivalKeeps DEF Arrive
<1>4. ASSUME NEW k \in Keys, AppendTurn(k) \/ PutWrite(k) \/ PutFails(k) \/ PutSettles(k) PROVE IInv'
  BY <1>1, <1>4, RefusalKeeps, WriteKeeps, SettleKeeps, PutWriteKeeps, PutSettlesKeeps DEF AppendTurn
<1>5. CASE Crash
  BY <1>1, <1>5, CrashKeeps
<1>6. CASE Restart
  BY <1>1, <1>6, RestartKeeps
<1> QED
  BY <1>2, <1>3, <1>4, <1>5, <1>6 DEF Next

THEOREM InductiveInvariant == Spec => []IInv
  BY InitInv, NextInv, PTL DEF Spec

\* The type invariant.
THEOREM TypeCorrect == Spec => []Typed
<1>1. IInv => Typed
  BY DEF IInv
<1> QED
  BY <1>1, InductiveInvariant, PTL

LEMMA AcceptedIsWhole ==
  ASSUME IInv
  PROVE  AcceptedIsStored
<1>1. /\ KeyOf \in [Requests -> Keys] /\ BodyOf \in [Requests -> Bodies]
      /\ Family \in [Keys -> {"ingest", "transition", "proposal"}]
      /\ file \subseteq StoredEntry
  BY SetupTypes DEF IInv, Typed
<1>2. ASSUME NEW r \in Requests, client[r].phase = "ok"
      PROVE  /\ Family[KeyOf[r]] = "ingest" =>
                  Stamped(RecordsAndEvents(KeyOf[r], BodyOf[r]) \union {Receipt(KeyOf[r], BodyOf[r])})
                    \subseteq file
             /\ Family[KeyOf[r]] = "transition" =>
                  Stamped(RecordsAndEvents(KeyOf[r], BodyOf[r])) \subseteq file
             /\ Family[KeyOf[r]] # "ingest" => [key |-> KeyOf[r], body |-> BodyOf[r]] \in store
  <2> DEFINE k == KeyOf[r]
             b == BodyOf[r]
  <2>1. Accepted(k, b) /\ k \in Keys
    BY <1>1, <1>2 DEF IInv, BackedInv
  <2>2. CASE Family[k] = "ingest"
    <3>1. StoredReceipt(k, b) \in file
      BY <2>1, <2>2 DEF Accepted
    <3>2. /\ StoredReceipt(k, b).kind = "receipt" /\ StoredReceipt(k, b).id = k
          /\ StoredReceipt(k, b).content = b
      BY DEF StoredReceipt
    <3>3. Whole(k, b) \subseteq file
      BY <3>1, <3>2 DEF IInv, FileInv
    <3>4. Stamped(RecordsAndEvents(k, b) \union {Receipt(k, b)})
            = Whole(k, b) \union {StoredReceipt(k, b)}
      BY StampedForms
    <3> HIDE DEF k, b
    <3>5. Stamped(RecordsAndEvents(k, b) \union {Receipt(k, b)}) \subseteq file
      BY <3>1, <3>3, <3>4
    <3> QED
      BY <2>2, <3>5 DEF k, b
  <2>3. CASE Family[k] # "ingest"
    <3>1. [key |-> k, body |-> b] \in store
      BY <2>1, <2>3 DEF Accepted
    <3>2. Family[k] = "transition" => Whole(k, b) \subseteq file
      BY <3>1 DEF IInv, StoreInv
    <3> QED
      BY <2>3, <3>1, <3>2, StampedForms
  <2> QED
    BY <2>2, <2>3
<1>3. AnswersAreBacked
  BY <1>2 DEF AnswersAreBacked
<1>4. ASSUME NEW e \in file, e.kind = "event", Family[e.content] = "ingest"
      PROVE  \E b \in Bodies :
        /\ {f.content : f \in {g \in file : g.kind = "receipt" /\ g.id = e.content}} = {b}
        /\ {f.id : f \in {g \in file : g.kind = "event" /\ g.content = e.content}} = RecordsOf[b]
        /\ \A x \in RecordsOf[b] : Stamped({RecordEntry(x, b)}) \subseteq file
  <2> DEFINE k == e.content
  <2>1. PICK b \in Bodies : e.id \in RecordsOf[b] /\ StoredReceipt(k, b) \in file
    BY <1>4 DEF IInv, FileInv
  <2>2. /\ StoredReceipt(k, b).kind = "receipt" /\ StoredReceipt(k, b).id = k
        /\ StoredReceipt(k, b).content = b
    BY DEF StoredReceipt
  <2>3. \A g \in file : g.kind = "receipt" /\ g.id = k => g = StoredReceipt(k, b)
    BY <2>1, <2>2 DEF IInv, FileInv, UniqueIds, SameId
  <2>4. {f.content : f \in {g \in file : g.kind = "receipt" /\ g.id = k}} = {b}
    BY <2>1, <2>2, <2>3
  <2>5. Whole(k, b) \subseteq file
    BY <2>1, <2>2 DEF IInv, FileInv
  <2>6. \A x : /\ StoredEvent(x, k).kind = "event" /\ StoredEvent(x, k).id = x
               /\ StoredEvent(x, k).content = k
    BY DEF StoredEvent
  <2>7. \A c : StoredReceipt(k, c) \in file => c = b
    <3>1. \A c : /\ StoredReceipt(k, c).kind = "receipt" /\ StoredReceipt(k, c).id = k
                 /\ StoredReceipt(k, c).content = c
      BY DEF StoredReceipt
    <3> QED
      BY <2>2, <2>3, <3>1
  <2>8. \A g \in file : g.kind = "event" /\ g.content = k => g.id \in RecordsOf[b]
    BY <1>4, <2>7 DEF IInv, FileInv
  <2>9. \A x \in RecordsOf[b] : StoredEvent(x, k) \in file /\ StoredRecord(x, b) \in file
    BY <2>5 DEF Whole, StoredRecords, StoredEvents
  <2>10. {f.id : f \in {g \in file : g.kind = "event" /\ g.content = k}} = RecordsOf[b]
    BY <2>6, <2>8, <2>9
  <2>11. \A x \in RecordsOf[b] : Stamped({RecordEntry(x, b)}) \subseteq file
    <3>1. \A x : Stamped({RecordEntry(x, b)}) = {StoredRecord(x, b)}
      BY StampedForms
    <3> QED
      BY <2>9, <3>1
  <2> QED
    BY <2>4, <2>10, <2>11
<1>5. IngestAllOrNothing
  BY <1>4 DEF IngestAllOrNothing
<1> QED
  BY <1>3, <1>5 DEF AcceptedIsStored, IInv, FileInv

\* A request the client saw accepted is in the files with its content, under
\* identifiers nobody else used, and no part of an ingestion is there without
\* the rest, whatever crashed, failed, raced or was retried (handleIngest and
\* handleControl of the platform API, PlatformClient of the SDK).
THEOREM AcceptedRequestsAreStored == Spec => []AcceptedIsStored
<1>1. IInv => AcceptedIsStored
  BY AcceptedIsWhole
<1> QED
  BY <1>1, InductiveInvariant, PTL

\* One key is never accepted for two bodies: an ingestion is known by its
\* receipt, a control request by its result, and there is one of each.
THEOREM OneBodyAccepted == Spec => []OneBodyPerKey
<1>1. IInv => OneBodyPerKey
  <2> SUFFICES ASSUME IInv, NEW r \in Requests, NEW s \in Requests,
                      client[r].phase = "ok", client[s].phase = "ok", KeyOf[r] = KeyOf[s]
               PROVE  BodyOf[r] = BodyOf[s]
    BY DEF OneBodyPerKey
  <2> DEFINE k == KeyOf[r]
  <2>1. Accepted(k, BodyOf[r]) /\ Accepted(k, BodyOf[s])
    BY DEF IInv, BackedInv
  <2>2. CASE Family[k] = "ingest"
    <3>1. StoredReceipt(k, BodyOf[r]) \in file /\ StoredReceipt(k, BodyOf[s]) \in file
      BY <2>1, <2>2 DEF Accepted
    <3>2. \A c : /\ StoredReceipt(k, c).kind = "receipt" /\ StoredReceipt(k, c).id = k
                 /\ StoredReceipt(k, c).content = c
      BY DEF StoredReceipt
    <3>3. StoredReceipt(k, BodyOf[r]) = StoredReceipt(k, BodyOf[s])
      BY <3>1, <3>2 DEF IInv, FileInv, UniqueIds, SameId
    <3> QED
      BY <3>2, <3>3
  <2>3. CASE Family[k] # "ingest"
    <3>1. [key |-> k, body |-> BodyOf[r]] \in store /\ [key |-> k, body |-> BodyOf[s]] \in store
      BY <2>1, <2>3 DEF Accepted
    <3>2. [key |-> k, body |-> BodyOf[r]] = [key |-> k, body |-> BodyOf[s]]
      BY <3>1 DEF IInv, StoreInv
    <3> QED
      BY <3>2
  <2> QED
    BY <2>2, <2>3
<1> QED
  BY <1>1, InductiveInvariant, PTL

-----------------------------------------------------------------------------
(* Retries                                                                 *)

Conflicts == {"RECORD_CONFLICT", "IDEMPOTENCY_CONFLICT"}

\* A conflict is answered to the request the step is about.
LEMMA ConflictIsOwn ==
  ASSUME IInv, NEW r \in Requests, ConflictAnswered(r), NEW q \in Requests, NEW code \in Errors,
         Answer(q, code)
  PROVE  q = r /\ code \in Conflicts
<1>1. client \in [Requests -> Call] /\ Retries \in Nat
  BY SetupTypes DEF IInv, Typed
<1>2. client' = [client EXCEPT ![q] = Told(client[q], code)]
  BY DEF Answer
<1>3. client'[r] # client[r]
  BY DEF ConflictAnswered
<1>4. q = r /\ client'[r] = Told(client[r], code)
  BY <1>1, <1>2, <1>3
<1>5. /\ client'[r].phase = "ok" => client'[r].tries = client[r].tries
      /\ client'[r].phase # "ok" => client'[r].error = code
  BY <1>1, <1>4, ToldIs
<1> QED
  BY <1>4, <1>5 DEF ConflictAnswered, Conflicts

LEMMA ConflictOfAll ==
  ASSUME IInv, NEW r \in Requests, ConflictAnswered(r), NEW k \in Keys, NEW code \in Errors,
         AnswerAll(k, code)
  PROVE  KeyOf[r] = k /\ code \in Conflicts
<1>1. client \in [Requests -> Call] /\ Retries \in Nat
  BY SetupTypes DEF IInv, Typed
<1>2. client'[r] # client[r]
  BY DEF ConflictAnswered
<1>3. KeyOf[r] = k /\ client'[r] = Told(client[r], code)
  BY <1>2 DEF AnswerAll
<1>4. /\ client'[r].phase = "ok" => client'[r].tries = client[r].tries
      /\ client'[r].phase # "ok" => client'[r].error = code
  BY <1>1, <1>3, ToldIs
<1> QED
  BY <1>3, <1>4 DEF ConflictAnswered, Conflicts

\* Where the receipt of a request can be: the process remembers it, or the
\* execution that wrote it, of the same body, is about to settle.
LEMMA ReceiptIsKnown ==
  ASSUME IInv, up, NEW k \in Keys, NEW b \in Bodies, Family[k] = "ingest",
         StoredReceipt(k, b) \in file
  PROVE  \/ b \in Remembered(k)
         \/ Remembered(k) = {} /\ run[k].step # "none" /\ run[k].body = b
<1>1. /\ \A c : /\ StoredReceipt(k, c).kind = "receipt" /\ StoredReceipt(k, c).id = k
                /\ StoredReceipt(k, c).content = c
      /\ map \subseteq file /\ run \in [Keys -> Execution]
  BY DEF StoredReceipt, IInv, Typed
<1>2. Remembered(k) = {e.content : e \in {f \in map : f.kind = "receipt" /\ f.id = k}}
  BY DEF Remembered
<1>3. CASE StoredReceipt(k, b) \in map
  BY <1>1, <1>2, <1>3
<1>4. CASE StoredReceipt(k, b) \notin map
  <2>1. PICK j \in Keys : Landed(j) /\ StoredReceipt(k, b) \in Lands(j)
    BY <1>4 DEF IInv, FileInv
  <2>2. run[j].step \in {"batch", "record", "event"} /\ run[j].body \in Bodies
    BY <1>1, <2>1 DEF Landed, Queued, Execution
  <2>3. StoredReceipt(k, b) = StoredReceipt(j, run[j].body)
    BY <1>1, <2>1, <2>2, AddsAre DEF Lands
  <2>4. j = k /\ run[j].body = b
    <3>1. \A i, c : StoredReceipt(i, c).id = i /\ StoredReceipt(i, c).content = c
      BY DEF StoredReceipt
    <3> QED
      BY <2>3, <3>1
  <2>5. \A e \in map : e.kind = "receipt" /\ e.id = k => e = StoredReceipt(k, b)
    BY <1>1 DEF IInv, FileInv, UniqueIds, SameId
  <2>6. Remembered(k) = {}
    BY <1>2, <1>4, <2>5
  <2> QED
    BY <2>2, <2>4, <2>6
<1> QED
  BY <1>3, <1>4

LEMMA NoConflictOfReceipt ==
  ASSUME IInv, [Next]_vars, NEW r \in Requests, Family[KeyOf[r]] = "ingest",
         Stamped({Receipt(KeyOf[r], BodyOf[r])}) \subseteq file
  PROVE  ~ConflictAnswered(r)
<1> SUFFICES ASSUME ConflictAnswered(r) PROVE FALSE
  OBVIOUS
<1>1. /\ client \in [Requests -> Call] /\ KeyOf[r] \in Keys /\ BodyOf[r] \in Bodies
      /\ client'[r] # client[r] /\ Retries \in Nat
  BY SetupTypes DEF IInv, Typed, ConflictAnswered
<1>2. StoredReceipt(KeyOf[r], BodyOf[r]) \in file
  <2>1. Stamped({Receipt(KeyOf[r], BodyOf[r])}) = {StoredReceipt(KeyOf[r], BodyOf[r])}
    BY StampedForms
  <2> QED
    BY <2>1
<1>3. up => \/ BodyOf[r] \in Remembered(KeyOf[r])
            \/ /\ Remembered(KeyOf[r]) = {}
               /\ run[KeyOf[r]].step # "none" /\ run[KeyOf[r]].body = BodyOf[r]
  BY <1>1, <1>2, ReceiptIsKnown
<1>4. ASSUME NEW q \in Requests, Join(q) PROVE FALSE
  <2>1. client' = [client EXCEPT ![q].phase = "joined"]
    BY <1>4 DEF Join
  <2>2. q = r
    BY <1>1, <2>1
  <2>3. client'[r].tries = client[r].tries /\ client'[r].phase = "joined"
    BY <1>1, <2>1, <2>2 DEF Call
  <2> QED
    BY <2>3 DEF ConflictAnswered
<1>5. ASSUME NEW q \in Requests, Send(q) \/ LoseConnection(q) \/ Arrive(q) PROVE FALSE
  <2>1. CASE Send(q)
    <3>1. q # r => client'[r] = client[r]
      BY <1>1, <2>1 DEF Send
    <3> QED
      BY <1>1, <2>1, <3>1 DEF Send, ConflictAnswered
  <2>2. CASE LoseConnection(q)
    BY <2>2, ConflictIsOwn DEF LoseConnection, Errors, Conflicts
  <2>3. CASE ArriveKnown(q)
    <3>1. PICK code \in Errors :
            /\ Answer(q, code) /\ up /\ Remembered(KeyOf[q]) # {}
            /\ BodyOf[q] \in Remembered(KeyOf[q]) => code = "none"
      BY <2>3 DEF ArriveKnown, Arrives, Errors
    <3>2. q = r /\ code \in Conflicts
      BY <3>1, ConflictIsOwn
    <3> QED
      BY <1>3, <3>1, <3>2 DEF Conflicts
  <2>4. CASE ArriveInFlight(q)
    <3>1. /\ up /\ Remembered(KeyOf[q]) = {}
          /\ Join(q) \/ (run[KeyOf[q]].body # BodyOf[q] /\ Answer(q, "IDEMPOTENCY_CONFLICT"))
      BY <2>4 DEF ArriveInFlight, Arrives
    <3>2. Answer(q, "IDEMPOTENCY_CONFLICT") => q = r
      BY ConflictIsOwn DEF Errors
    <3> QED
      BY <1>3, <1>4, <3>1, <3>2
  <2>5. CASE BeginIngest(q) \/ BeginTransition(q) \/ BeginProposal(q)
    <3>1. up /\ Remembered(KeyOf[q]) = {} /\ run[KeyOf[q]].step = "none"
      BY <2>5 DEF BeginIngest, BeginTransition, BeginProposal, ArriveNew, Arrives, Idle
    <3>2. Join(q) \/ \E code \in Errors : Answer(q, code)
      BY <2>5 DEF BeginIngest, BeginTransition, BeginProposal, Begin, Errors
    <3>3. q = r
      BY <1>4, <3>2, ConflictIsOwn
    <3> QED
      BY <1>3, <3>1, <3>3
  <2> QED
    BY <1>5, <2>1, <2>2, <2>3, <2>4, <2>5 DEF Arrive
<1>6. ASSUME NEW k \in Keys, AppendTurn(k) \/ PutWrite(k) \/ PutFails(k) \/ PutSettles(k)
      PROVE  FALSE
  <2>1. \A code \in {"none", "500"} : ~Finish(k, code)
    BY ConflictOfAll DEF Finish, Errors, Conflicts
  <2>2. CASE Settle(k)
    <3>1. run[k].step = "record"
      <4>1. client' # client
        BY <1>1
      <4>2. \/ run[k].step = "record"
            \/ Finish(k, "none")
            \/ client' = client
        BY <2>2 DEF Settle
      <4> QED
        BY <2>1, <4>1, <4>2
    <3>2. Family[k] = "transition"
      BY <3>1 DEF IInv, QueueInv, StepOfFamily
    <3>3. PICK code \in Errors : AnswerAll(k, code)
      <4>1. \/ \E code \in {"RECORD_CONFLICT", "none"} : Finish(k, code)
            \/ client' = client
        BY <2>2 DEF Settle
      <4> QED
        BY <1>1, <4>1 DEF Finish, Errors
    <3> QED
      BY <3>2, <3>3, ConflictOfAll
  <2>3. CASE AppendRefused(k) \/ WriteFails(k) \/ PutFails(k) \/ PutSettles(k)
    BY <2>1, <2>3 DEF AppendRefused, WriteFails, PutFails, PutSettles
  <2>4. CASE Write(k) \/ PutWrite(k)
    BY <1>1, <2>4 DEF Write, PutWrite
  <2> QED
    BY <1>6, <2>2, <2>3, <2>4 DEF AppendTurn
<1>7. CASE Crash
  <2>1. client'[r] = Told(client[r], "network")
    BY <1>1, <1>7 DEF Crash
  <2>2. /\ client'[r].phase = "ok" => client'[r].tries = client[r].tries
        /\ client'[r].phase # "ok" => client'[r].error = "network"
    BY <1>1, <2>1, ToldIs DEF Errors
  <2> QED
    BY <2>2 DEF ConflictAnswered
<1>8. CASE Restart \/ UNCHANGED vars
  BY <1>1, <1>8 DEF Restart, vars
<1> QED
  BY <1>5, <1>6, <1>7, <1>8 DEF Next

\* Repeating an accepted ingestion returns its receipt and is never refused,
\* in the same process, while the first one is still in progress, or after a
\* restart (idempotentInLedger and the retries of PlatformClient).
THEOREM RetriesAreAnswered == Spec => IngestRetryAnswered
<1>1. IInv /\ [Next]_vars =>
        \A r \in Requests :
          /\ Family[KeyOf[r]] = "ingest"
          /\ Stamped({Receipt(KeyOf[r], BodyOf[r])}) \subseteq file
          => ~ConflictAnswered(r)
  BY NoConflictOfReceipt
<1> QED
  BY <1>1, InductiveInvariant, PTL DEF Spec, IngestRetryAnswered
=============================================================================
