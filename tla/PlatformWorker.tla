--------------------------- MODULE PlatformWorker ---------------------------
(***************************************************************************)
(* PlatformWorker and LocalJobStore of services/runtime/src/index.ts.      *)
(* Jobs are saved synchronously, one atomic file replacement each, so the  *)
(* file and the Map never differ between two steps.  runNext takes the     *)
(* first runnable job, saves it as running, and then awaits three times:   *)
(* the publication of "job.started", the handler, and the publication of   *)
(* the outcome.  Publications and saves may fail and the process may crash *)
(* at an await; what has been saved stays.                                 *)
(*                                                                         *)
(* Jobs are numbered in the order nextRunnable looks at them (createdAt,   *)
(* then id), which is not the order in which they are enqueued.            *)
(***************************************************************************)
EXTENDS Naturals

CONSTANTS
  NJobs,        \* jobs
  Keys,         \* idempotency keys
  KeyOf,        \* [Jobs -> Keys]
  MaxAttempts,  \* [Jobs -> Nat \ {0}]: maxAttempts of each job
  Runners,      \* concurrent callers of runNext
  Handled,      \* jobs whose type has a handler
  FaultSets     \* sets of "publish", "save" and "crash": what may go wrong together

Jobs == 1..NJobs

ASSUME JobsAssumption == NJobs \in Nat /\ KeyOf \in [Jobs -> Keys]
ASSUME FaultsAssumption == \A F \in FaultSets : F \subseteq {"publish", "save", "crash"}
ASSUME AttemptsAssumption == MaxAttempts \in [Jobs -> Nat \ {0}]

VARIABLES
  faults,     \* what may go wrong in this execution: one of FaultSets, never changed
  jobs,       \* the job store: [status, attempts]
  up,         \* is a worker process running?
  run,        \* runNext calls: [phase, job, attempt]
  succeeded   \* how often the handler of each job has returned

vars == <<faults, jobs, up, run, succeeded>>

Statuses == {"absent", "queued", "running", "retryable", "completed", "failed"}

\* What a runNext call awaits.
Phases == {"idle", "starting", "handling", "completing", "failing"}

NoRun == [phase |-> "idle", job |-> 0, attempt |-> 0]

\* Jobs left running by a process that died are runnable, too.
RunnableOrRunning == {j \in Jobs : jobs[j].status \in {"queued", "retryable", "running"}}

Runnable == {j \in Jobs : jobs[j].status \in {"queued", "retryable"}}

\* The status of a job whose attempt has failed.
Outcome(r) == IF run[r].attempt < MaxAttempts[run[r].job] THEN "retryable" ELSE "failed"

\* save({ ...running, status })
Save(r, status) ==
  jobs' = [jobs EXCEPT ![run[r].job] = [status |-> status, attempts |-> run[r].attempt]]

Goto(r, phase) == run' = [run EXCEPT ![r].phase = phase]

\* Only the identifier of a job is looked at.
EnqueueById(j) ==
  /\ up
  /\ jobs[j].status = "absent"
  /\ jobs' = [jobs EXCEPT ![j].status = "queued"]
  /\ UNCHANGED <<faults, up, run, succeeded>>

\* enqueue: a known key returns its job, a known id is refused; neither
\* changes anything.  "job.queued" is published when the job is stored.
Enqueue(j) ==
  /\ up
  /\ \A i \in Jobs : jobs[i].status # "absent" => i # j /\ KeyOf[i] # KeyOf[j]
  /\ jobs' = [jobs EXCEPT ![j].status = "queued"]
  /\ UNCHANGED <<faults, up, run, succeeded>>

\* runNext, up to the publication of "job.started".  Without a handler for
\* the first runnable job it throws, and the jobs behind it wait.
Take(r) ==
  /\ up
  /\ run[r].phase = "idle"
  /\ \E j \in Runnable \intersect Handled :
       LET n == jobs[j].attempts + 1
       IN  /\ \A i \in Runnable : j <= i
           /\ jobs' = [jobs EXCEPT ![j] = [status |-> "running", attempts |-> n]]
           /\ run' = [run EXCEPT ![r] = [phase |-> "starting", job |-> j, attempt |-> n]]
  /\ UNCHANGED <<faults, up, succeeded>>

\* A publication resolves.
Published(r) ==
  /\ run[r].phase \in {"starting", "completing", "failing"}
  /\ run' = [run EXCEPT ![r] = IF @.phase = "starting" THEN [@ EXCEPT !.phase = "handling"] ELSE NoRun]
  /\ UNCHANGED <<faults, jobs, up, succeeded>>

Returned(r) == succeeded' = [succeeded EXCEPT ![run[r].job] = @ + 1]

HandlerReturns(r) ==
  /\ run[r].phase = "handling"
  /\ Returned(r)
  /\ Save(r, "completed")
  /\ Goto(r, "completing")
  /\ UNCHANGED <<faults, up>>

\* An error that leaves the job to nobody.
HandlerThrowsUnsaved(r) ==
  /\ run[r].phase = "handling"
  /\ run' = [run EXCEPT ![r] = NoRun]
  /\ UNCHANGED <<faults, jobs, up, succeeded>>

HandlerThrows(r) ==
  /\ run[r].phase = "handling"
  /\ Save(r, Outcome(r))
  /\ Goto(r, "failing")
  /\ UNCHANGED <<faults, up, succeeded>>

\* A publication throws.  That of "job.started" is outside the try: the call
\* rejects.  That of "job.completed" is inside: the catch saves a failure.
PublishFails(r) ==
  /\ "publish" \in faults
  /\ UNCHANGED <<faults, up, succeeded>>
  /\ \/ /\ run[r].phase \in {"starting", "failing"}
        /\ run' = [run EXCEPT ![r] = NoRun]
        /\ UNCHANGED jobs
     \/ /\ run[r].phase = "completing"
        /\ Save(r, Outcome(r))
        /\ Goto(r, "failing")

\* The save of a completed job throws, inside the try.
SaveFails(r) ==
  /\ "save" \in faults
  /\ run[r].phase = "handling"
  /\ Returned(r)
  /\ Save(r, Outcome(r))
  /\ Goto(r, "failing")
  /\ UNCHANGED <<faults, up>>

\* The save of a failed job throws: the call rejects.
CatchFails(r) ==
  /\ "save" \in faults
  /\ run[r].phase \in {"handling", "completing"}
  /\ run' = [run EXCEPT ![r] = NoRun]
  /\ UNCHANGED <<faults, jobs, up, succeeded>>

Crash ==
  /\ "crash" \in faults
  /\ up
  /\ up' = FALSE
  /\ run' = [r \in Runners |-> NoRun]
  /\ UNCHANGED <<faults, jobs, succeeded>>

\* A process that puts every unfinished job back into the queue.
OpenRequeueing ==
  /\ ~up
  /\ up' = TRUE
  /\ jobs' = [j \in Jobs |->
       IF jobs[j].status = "absent" THEN jobs[j] ELSE [jobs[j] EXCEPT !.status = "queued"]]
  /\ UNCHANGED <<faults, run, succeeded>>

\* LocalJobStore.open, in a new process.
Open ==
  /\ ~up
  /\ up' = TRUE
  /\ UNCHANGED <<faults, jobs, run, succeeded>>

Init ==
  /\ faults \in FaultSets
  /\ jobs = [j \in Jobs |-> [status |-> "absent", attempts |-> 0]]
  /\ up = TRUE
  /\ run = [r \in Runners |-> NoRun]
  /\ succeeded = [j \in Jobs |-> 0]

\* What a runner awaits settles, well or badly.
Settles(r) == Published(r) \/ PublishFails(r)
Handles(r) == HandlerReturns(r) \/ HandlerThrows(r) \/ SaveFails(r) \/ CatchFails(r)

Next ==
  \/ \E j \in Jobs : Enqueue(j)
  \/ \E r \in Runners : Take(r) \/ Settles(r) \/ Handles(r)
  \/ Crash \/ Open

Spec == Init /\ [][Next]_vars

\* The timer of worker-main.ts calls runNext again and again; handlers and
\* publications end; a process that died is started again.
FairSpec ==
  /\ Spec
  /\ \A r \in Runners :
       WF_vars(Take(r)) /\ WF_vars(Settles(r) \/ Handles(r))
  /\ WF_vars(Open)

-----------------------------------------------------------------------------
(* Properties                                                              *)

TypeOK ==
  /\ faults \in FaultSets
  /\ jobs \in [Jobs -> [status : Statuses, attempts : Nat]]
  /\ \A j \in Jobs : jobs[j].attempts <= MaxAttempts[j]
  /\ up \in BOOLEAN
  /\ run \in [Runners -> [phase : Phases, job : Nat, attempt : Nat]]
  /\ \A r \in Runners : run[r].phase # "idle" =>
       run[r].job \in Jobs /\ run[r].attempt \in 1..MaxAttempts[run[r].job]
  /\ succeeded \in [Jobs -> Nat]

Owns(r) == run[r].phase \in {"starting", "handling", "completing"}

\* Two attempts of one job never run at once, and the record a runner will
\* overwrite is the one it saved itself, whatever was enqueued, taken,
\* retried or lost at its awaits.
RunnerOwnsJob ==
  \A r \in Runners : Owns(r) =>
    /\ jobs[run[r].job].status = IF run[r].phase = "completing" THEN "completed" ELSE "running"
    /\ jobs[run[r].job].attempts = run[r].attempt
    /\ \A s \in Runners : Owns(s) /\ run[s].job = run[r].job => s = r

\* Platform-threat-model.md, "Durable job state, bounded retries": a job is
\* given up when its attempts are exhausted and never before, and one that
\* waits for another attempt has one left.
RetriesUsed ==
  \A j \in Jobs :
    /\ jobs[j].status = "failed" => jobs[j].attempts = MaxAttempts[j]
    /\ jobs[j].status = "retryable" => jobs[j].attempts \in 1..(MaxAttempts[j] - 1)
    /\ jobs[j].status \in {"absent", "queued"} => jobs[j].attempts = 0

\* The work of a key was done at most once.
DoneOnce ==
  \A i, j \in Jobs : KeyOf[i] = KeyOf[j] /\ succeeded[i] > 0 /\ succeeded[j] > 0 =>
    i = j /\ succeeded[i] = 1

\* prd.json, "Jobs are idempotent": with whatever key and id it is enqueued
\* again, however often it is retried and whenever the process dies, the work
\* of a key is done at most once, as long as publications and saves succeed.
OncePerKey == faults \subseteq {"crash"} => DoneOnce

AcceptedJobsEnd ==
  \A j \in Jobs : jobs[j].status = "queued" ~> jobs[j].status \in {"completed", "failed"}

\* Where nothing but handlers fails, every job that was accepted is completed
\* or given up: jobs with an earlier createdAt that arrive or are retried do
\* not starve it.
JobEnds == faults = {} => AcceptedJobsEnd

\* progress.txt, the worker "survives reopen": the same when it may die.
JobSurvives == faults \subseteq {"crash"} => AcceptedJobsEnd
=============================================================================
