-------------------------- MODULE PlatformRequests --------------------------
(***************************************************************************)
(* Ingestion and control requests from the SDK client to the ledger:       *)
(* PlatformClient (packages/sdk-typescript/src/index.ts) retries a request *)
(* under one idempotency key; the platform API (services/platform-api/src/ *)
(* main.ts) answers a key it knows, joins a request of the same key that   *)
(* is in progress, or executes the request.  An ingestion appends its      *)
(* records, their events and its receipt in one batch; a control request   *)
(* appends a lifecycle transition, then its event, then puts its result in *)
(* the idempotency store: three durable writes in a row.  The process may  *)
(* crash between any two of them, a write may fail, and a response may be  *)
(* lost.                                                                   *)
(*                                                                         *)
(* An append is two steps: the file changes (Write), then the Map and the  *)
(* caller hear of it (Settle).  CanonicalLedger models what is inside.     *)
(* A body stands for the fingerprint of a request and, for all records it  *)
(* creates, for their content; the content of an event is the key that     *)
(* caused it.                                                              *)
(***************************************************************************)
EXTENDS Naturals, Sequences, SequencesExt

CONSTANTS
  Requests,   \* requests a client makes, each sent up to Retries + 1 times
  Keys,       \* idempotency keys, with the principal and the family they are used in
  Bodies,     \* request bodies
  Ids,        \* record identifiers
  RecordsOf,  \* [Bodies -> SUBSET Ids]: the records a body creates
  Stored0,    \* the records [id, content] the ledger holds at first
  Setups      \* what clients may set out to do, see below

\* A body creates records under given identifiers; the ledger file that is
\* there at first is one the ledger opens, without an identifier twice.
ASSUME BodiesAssumption == Bodies # {} /\ RecordsOf \in [Bodies -> SUBSET Ids]
ASSUME StoredAssumption ==
  /\ Stored0 \subseteq [id : Ids, content : Bodies]
  /\ \A r, s \in Stored0 : r.id = s.id => r = s

VARIABLES
  setup,    \* what they do in this execution: one of Setups, never changed
  client,   \* what each client call is doing: [phase, tries, error]
  up,       \* is the API process running?
  run,      \* inFlight: the execution of each key [step, body, written]
  chain,    \* #writeQueue of the ledger: keys whose append waits or runs
  file,     \* entries of the ledger file
  map,      \* #records: the entries the process knows
  store,    \* entries [key, body] of the idempotency file
  storeMap  \* #entries: those the process knows

vars == <<setup, client, up, run, chain, file, map, store, storeMap>>

Asked   == setup.asked    \* the requests that are made
KeyOf   == setup.keyOf    \* [Requests -> Keys]
BodyOf  == setup.bodyOf   \* [Requests -> Bodies]
Family  == setup.family   \* [Keys -> {"ingest", "transition", "proposal"}]
Target  == setup.target   \* identifier of the record the transitions are about
Retries == setup.retries  \* #retries of the client

\* A request has one key and one body, and a key one family (scopeKey).
ASSUME SetupsAssumption ==
  \A s \in Setups :
    /\ s.keyOf \in [Requests -> Keys]
    /\ s.bodyOf \in [Requests -> Bodies]
    /\ s.family \in [Keys -> {"ingest", "transition", "proposal"}]
    /\ s.retries \in Nat

Steps == {"none", "batch", "record", "event", "put"}
Errors == {"none", "network", "500", "404", "RECORD_CONFLICT", "IDEMPOTENCY_CONFLICT"}

Entry == [kind : {"record", "event", "receipt"}, id : Ids \union Keys,
          content : Bodies \union Keys, stamped : BOOLEAN]

\* Entries as a request builds them; the ledger stamps a sequence on each.
RecordEntry(x, b) == [kind |-> "record", id |-> x, content |-> b, stamped |-> FALSE]
EventEntry(x, k)  == [kind |-> "event", id |-> x, content |-> k, stamped |-> FALSE]
Receipt(k, b)     == [kind |-> "receipt", id |-> k, content |-> b, stamped |-> FALSE]

Stamped(S) == {[e EXCEPT !.stamped = TRUE] : e \in S}

SameId(e, f) == e.kind = f.kind /\ e.id = f.id

RecordsAndEvents(k, b) ==
  {RecordEntry(x, b) : x \in RecordsOf[b]} \union {EventEntry(x, k) : x \in RecordsOf[b]}

\* What each step of an execution appends.
Appends(k) ==
  CASE run[k].step = "batch"  -> RecordsAndEvents(k, run[k].body) \union {Receipt(k, run[k].body)}
    [] run[k].step = "record" -> {RecordEntry(x, run[k].body) : x \in RecordsOf[run[k].body]}
    [] run[k].step = "event"  -> {EventEntry(x, k) : x \in RecordsOf[run[k].body]}
    [] OTHER -> {}

\* stableJson(prior) !== stableJson(record), for a record whose id is taken.
Conflicting(S) == \E e \in S, prior \in map : SameId(e, prior) /\ e # prior

-----------------------------------------------------------------------------
(* The client                                                              *)

\* A response ends the call, or has it sent again while tries are left.
Told(c, code) ==
  IF code = "none" THEN [c EXCEPT !.phase = "ok"]
  ELSE IF c.tries < Retries THEN [c EXCEPT !.phase = "sent", !.tries = @ + 1, !.error = code]
  ELSE [c EXCEPT !.phase = "failed", !.error = code]

\* The answer to one request, and to all that wait for an execution.
Answer(r, code) == client' = [client EXCEPT ![r] = Told(@, code)]

AnswerAll(k, code) ==
  client' = [r \in Requests |->
    IF KeyOf[r] = k /\ client[r].phase = "joined" THEN Told(client[r], code) ELSE client[r]]

Send(r) ==
  /\ r \in Asked
  /\ client[r].phase = "idle"
  /\ client' = [client EXCEPT ![r].phase = "sent"]
  /\ UNCHANGED <<setup, up, run, chain, file, map, store, storeMap>>

\* The connection breaks, or is refused while the process is down; the
\* execution it started, if any, goes on.
LoseConnection(r) ==
  /\ client[r].phase = "joined" \/ (client[r].phase = "sent" /\ ~up)
  /\ Answer(r, "network")
  /\ UNCHANGED <<setup, up, run, chain, file, map, store, storeMap>>

-----------------------------------------------------------------------------
(* Arrival of a request                                                    *)

Idle(k) == run[k].step = "none"

Arrives(r) == up /\ client[r].phase = "sent"

Join(r) == client' = [client EXCEPT ![r].phase = "joined"]

\* A request that starts an execution at the given step.
Begin(r, step) ==
  /\ Join(r)
  /\ run' = [run EXCEPT ![KeyOf[r]] = [step |-> step, body |-> BodyOf[r], written |-> FALSE]]
  /\ chain' = IF step = "put" THEN chain ELSE Append(chain, KeyOf[r])
  /\ UNCHANGED <<setup, up, file, map, store, storeMap>>

\* Ingestion results kept, as those of control requests, in the store.
RememberedByStore(k) == {e.body : e \in {f \in storeMap : f.key = k}}

\* What the process remembers of the bodies answered under a key.
Remembered(k) ==
  IF Family[k] = "ingest"
    THEN {e.content : e \in {f \in map : f.kind = "receipt" /\ f.id = k}}
    ELSE {e.body : e \in {f \in storeMap : f.key = k}}

\* A key the process remembers: the stored result, or a conflict.
ArriveKnown(r) ==
  LET k == KeyOf[r]
  IN  /\ Arrives(r)
      /\ Remembered(k) # {}
      /\ Answer(r, IF BodyOf[r] \in Remembered(k) THEN "none" ELSE "IDEMPOTENCY_CONFLICT")
      /\ UNCHANGED <<setup, up, run, chain, file, map, store, storeMap>>

\* A request that waits for any execution of its key.
JoinAnyBody(r) ==
  /\ Arrives(r)
  /\ Remembered(KeyOf[r]) = {}
  /\ ~Idle(KeyOf[r])
  /\ Join(r)
  /\ UNCHANGED <<setup, up, run, chain, file, map, store, storeMap>>

\* A key in progress: wait for the same execution, or a conflict.
ArriveInFlight(r) ==
  LET k == KeyOf[r]
  IN  /\ Arrives(r)
      /\ Remembered(k) = {}
      /\ ~Idle(k)
      /\ IF run[k].body = BodyOf[r] THEN Join(r) ELSE Answer(r, "IDEMPOTENCY_CONFLICT")
      /\ UNCHANGED <<setup, up, run, chain, file, map, store, storeMap>>

ArriveNew(r) == Arrives(r) /\ Remembered(KeyOf[r]) = {} /\ Idle(KeyOf[r])

\* idempotentInLedger: the new records, those the ledger does not hold yet,
\* are appended with the events and the receipt, in one batch.
BeginIngest(r) ==
  /\ ArriveNew(r)
  /\ Family[KeyOf[r]] = "ingest"
  /\ IF Conflicting(RecordsAndEvents(KeyOf[r], BodyOf[r]))
       THEN /\ Answer(r, "RECORD_CONFLICT")
            /\ UNCHANGED <<setup, up, run, chain, file, map, store, storeMap>>
       ELSE Begin(r, "batch")

\* handleControl for verify, supersede and retract.
BeginTransition(r) ==
  LET b == BodyOf[r]
      target == \E e \in map : e.kind = "record" /\ e.id = Target
      clash == Conflicting({RecordEntry(x, b) : x \in RecordsOf[b]})
  IN  /\ ArriveNew(r)
      /\ Family[KeyOf[r]] = "transition"
      /\ IF ~target \/ clash
           THEN /\ Answer(r, IF target THEN "RECORD_CONFLICT" ELSE "404")
                /\ UNCHANGED <<setup, up, run, chain, file, map, store, storeMap>>
           ELSE Begin(r, "record")

\* handleControl for the other actions: nothing is appended.
BeginProposal(r) ==
  /\ ArriveNew(r)
  /\ Family[KeyOf[r]] = "proposal"
  /\ Begin(r, "put")

-----------------------------------------------------------------------------
(* Executions                                                              *)

Ended == [step |-> "none", body |-> CHOOSE b \in Bodies : TRUE, written |-> FALSE]

\* The promise of an execution settles: everyone who waits is answered, and
\* the key leaves inFlight.
Finish(k, code) ==
  /\ AnswerAll(k, code)
  /\ run' = [run EXCEPT ![k] = Ended]

Appending(k) == up /\ chain # <<>> /\ Head(chain) = k

\* The append reaches its turn.  It throws when an id was taken meanwhile;
\* or the file is replaced; or the write fails.
AppendRefused(k) ==
  /\ Appending(k)
  /\ ~run[k].written
  /\ \E e \in Appends(k), f \in map : SameId(e, f)
  /\ chain' = Tail(chain)
  /\ Finish(k, "500")
  /\ UNCHANGED <<setup, up, file, map, store, storeMap>>

\* An append of the records that keeps the receipt for later.
WriteWithoutReceipt(k) ==
  /\ Appending(k)
  /\ ~run[k].written
  /\ \A e \in Appends(k), f \in map : ~SameId(e, f)
  /\ file' = file \union Stamped({e \in Appends(k) : e.kind # "receipt"})
  /\ run' = [run EXCEPT ![k].written = TRUE]
  /\ UNCHANGED <<setup, client, up, chain, map, store, storeMap>>

\* An append that trusts the check made when the request arrived.
WriteUnchecked(k) ==
  /\ Appending(k)
  /\ ~run[k].written
  /\ file' = file \union Stamped(Appends(k))
  /\ run' = [run EXCEPT ![k].written = TRUE]
  /\ UNCHANGED <<setup, client, up, chain, map, store, storeMap>>

Write(k) ==
  /\ Appending(k)
  /\ ~run[k].written
  /\ \A e \in Appends(k), f \in map : ~SameId(e, f)
  /\ file' = file \union Stamped(Appends(k))
  /\ run' = [run EXCEPT ![k].written = TRUE]
  /\ UNCHANGED <<setup, client, up, chain, map, store, storeMap>>

\* A failed append whose rejection reaches nobody.
WriteFailsSilently(k) ==
  /\ Appending(k)
  /\ ~run[k].written
  /\ chain' = Tail(chain)
  /\ UNCHANGED <<setup, client, run, up, file, map, store, storeMap>>

WriteFails(k) ==
  /\ Appending(k)
  /\ ~run[k].written
  /\ chain' = Tail(chain)
  /\ Finish(k, "500")
  /\ UNCHANGED <<setup, up, file, map, store, storeMap>>

\* The append resolves.  An ingestion is done; a transition goes on to
\* append its event, unless one with that id exists, then to the store.
Settle(k) ==
  /\ Appending(k)
  /\ run[k].written
  /\ map' = map \union Stamped(Appends(k))
  /\ LET events == {EventEntry(x, k) : x \in RecordsOf[run[k].body]}
         taken  == run[k].step = "record" /\ Conflicting(events)
         next   == IF run[k].step = "record" THEN "event" ELSE "put"
     IN  IF run[k].step = "batch" \/ taken
           THEN /\ Finish(k, IF taken THEN "RECORD_CONFLICT" ELSE "none")
                /\ chain' = Tail(chain)
           ELSE /\ run' = [run EXCEPT ![k].step = next, ![k].written = FALSE]
                /\ chain' = IF next = "event" THEN Append(Tail(chain), k) ELSE Tail(chain)
                /\ client' = client
  /\ UNCHANGED <<setup, up, file, store, storeMap>>

\* LocalIdempotencyStore.put, one at a time: the file is replaced, then the
\* Map.  The Map holds no entry of the key: the execution began without one,
\* and a key has one execution.
Putting(k) == up /\ run[k].step = "put"

PutWrite(k) ==
  /\ Putting(k)
  /\ \A j \in Keys : run[j].step = "put" => ~run[j].written
  /\ store' = store \union {[key |-> k, body |-> run[k].body]}
  /\ run' = [run EXCEPT ![k].written = TRUE]
  /\ UNCHANGED <<setup, client, up, chain, file, map, storeMap>>

\* A result that is returned although it was not stored.
PutFailsSilently(k) ==
  /\ Putting(k)
  /\ \A j \in Keys : run[j].step = "put" => ~run[j].written
  /\ Finish(k, "none")
  /\ UNCHANGED <<setup, up, chain, file, map, store, storeMap>>

PutFails(k) ==
  /\ Putting(k)
  /\ \A j \in Keys : run[j].step = "put" => ~run[j].written
  /\ Finish(k, "500")
  /\ UNCHANGED <<setup, up, chain, file, map, store, storeMap>>

PutSettles(k) ==
  /\ Putting(k)
  /\ run[k].written
  /\ storeMap' = storeMap \union {[key |-> k, body |-> run[k].body]}
  /\ Finish(k, "none")
  /\ UNCHANGED <<setup, up, chain, file, map, store>>

-----------------------------------------------------------------------------
(* The process                                                             *)

Crash ==
  /\ up
  /\ up' = FALSE
  /\ run' = [k \in Keys |-> Ended]
  /\ chain' = <<>>
  /\ map' = {}
  /\ storeMap' = {}
  /\ client' = [r \in Requests |->
       IF client[r].phase = "joined" THEN Told(client[r], "network") ELSE client[r]]
  /\ UNCHANGED <<setup, file, store>>

Restart ==
  /\ ~up
  /\ up' = TRUE
  /\ map' = file
  /\ storeMap' = store
  /\ UNCHANGED <<setup, client, run, chain, file, store>>

Init ==
  /\ setup \in Setups
  /\ client = [r \in Requests |-> [phase |-> "idle", tries |-> 0, error |-> "none"]]
  /\ up = TRUE
  /\ run = [k \in Keys |-> Ended]
  /\ chain = <<>>
  /\ file = Stamped({RecordEntry(r.id, r.content) : r \in Stored0})
  /\ map = file
  /\ store = {}
  /\ storeMap = {}

\* Steps that the processes owe, and those they may take.
Arrive(r) ==
  \/ client[r].phase = "sent" /\ LoseConnection(r)
  \/ ArriveKnown(r) \/ ArriveInFlight(r)
  \/ BeginIngest(r) \/ BeginTransition(r) \/ BeginProposal(r)

AppendTurn(k) == AppendRefused(k) \/ Write(k) \/ WriteFails(k) \/ Settle(k)

Next ==
  \/ \E r \in Requests : Send(r) \/ LoseConnection(r) \/ Arrive(r)
  \/ \E k \in Keys : AppendTurn(k) \/ PutWrite(k) \/ PutFails(k) \/ PutSettles(k)
  \/ Crash \/ Restart

\* A request that is sent arrives or finds nobody listening, promises
\* settle, and the process is restarted after a crash.
Fairness ==
  /\ \A r \in Requests :
       /\ WF_vars(Send(r))
       /\ WF_vars(Arrive(r))
  /\ \A k \in Keys :
       /\ WF_vars(AppendTurn(k))
       /\ WF_vars(PutWrite(k) \/ PutFails(k))
       /\ WF_vars(PutSettles(k))
  /\ WF_vars(Restart)

Spec == Init /\ [][Next]_vars
FairSpec == Spec /\ Fairness

-----------------------------------------------------------------------------
(* Properties                                                              *)

\* What an accepted request is in the files: records, events and receipt of an
\* ingestion; transition, event and remembered result of a control request.
AnswersAreBacked ==
  \A r \in Requests : client[r].phase = "ok" =>
    LET k == KeyOf[r]
        b == BodyOf[r]
    IN  /\ Family[k] = "ingest" =>
             Stamped(RecordsAndEvents(k, b) \union {Receipt(k, b)}) \subseteq file
        /\ Family[k] = "transition" => Stamped(RecordsAndEvents(k, b)) \subseteq file
        /\ Family[k] # "ingest" => [key |-> k, body |-> b] \in store

\* ADR 0006: an ingestion happens whole or not at all, once for its key.  An
\* event in the ledger comes with the receipt of its key, the one body that
\* receipt is about, all records of that body and all their events.
IngestAllOrNothing ==
  \A e \in file : e.kind = "event" /\ Family[e.content] = "ingest" =>
    \E b \in Bodies :
      /\ {f.content : f \in {g \in file : g.kind = "receipt" /\ g.id = e.content}} = {b}
      /\ {f.id : f \in {g \in file : g.kind = "event" /\ g.content = e.content}} = RecordsOf[b]
      /\ \A x \in RecordsOf[b] : Stamped({RecordEntry(x, b)}) \subseteq file

\* Two requests that race for an identifier never both store it, although
\* each checked that it was free before it waited for its append.
UniqueIds == \A e, f \in file : SameId(e, f) => e = f

\* A request the client saw accepted is in the files, with the content the
\* client sent, under identifiers nobody else used, and no part of an
\* ingestion is there without the rest, whatever crashed, failed, raced for
\* an identifier or was retried on the way.
AcceptedIsStored == AnswersAreBacked /\ IngestAllOrNothing /\ UniqueIds

\* One key is never accepted for two bodies.
OneBodyPerKey ==
  \A r, s \in Requests :
    /\ client[r].phase = "ok" /\ client[s].phase = "ok" /\ KeyOf[r] = KeyOf[s]
    => BodyOf[r] = BodyOf[s]

\* A step answers r with a conflict.
ConflictAnswered(r) ==
  /\ client[r].phase \in {"sent", "joined"}
  /\ client'[r] # client[r]
  /\ client'[r].error \in {"RECORD_CONFLICT", "IDEMPOTENCY_CONFLICT"}
  /\ client'[r].tries # client[r].tries \/ client'[r].phase = "failed"

\* ADR 0006: repeating an accepted ingestion, in the same process or after a
\* restart, returns its receipt and is never refused, even if the accepting
\* process died before it answered.
IngestRetryAnswered ==
  [][\A r \in Requests :
       /\ Family[KeyOf[r]] = "ingest"
       /\ Stamped({Receipt(KeyOf[r], BodyOf[r])}) \subseteq file
       => ~ConflictAnswered(r)]_vars

\* The same of a control request whose transition is in the ledger under its
\* own content: what http-contract.json means by "idempotent", and what the
\* text of RECORD_CONFLICT ("already exists with different content") says.
ControlRetryAnswered ==
  [][\A r \in Requests :
       /\ Family[KeyOf[r]] = "transition"
       /\ Stamped({RecordEntry(x, BodyOf[r]) : x \in RecordsOf[BodyOf[r]]}) \subseteq file
       => ~ConflictAnswered(r)]_vars

\* Every request ends, accepted or refused.
EveryRequestEnds ==
  \A r \in Requests : client[r].phase = "sent" ~> client[r].phase \in {"ok", "failed"}
=============================================================================
