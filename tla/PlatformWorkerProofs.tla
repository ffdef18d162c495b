------------------------ MODULE PlatformWorkerProofs ------------------------
(***************************************************************************)
(* Safety of PlatformWorker for any number of jobs, keys, attempts and     *)
(* runners.  The inductive invariant is the conjunction of the three       *)
(* properties: that a runner's job is as the runner saved it (RunnerOwns-  *)
(* Job) bounds the attempts a failed attempt writes back (TypeOK), and     *)
(* both decide which outcome is written (RetriesUsed).  OncePerKey needs   *)
(* more: that a key has one job, and that a success is final.              *)
(***************************************************************************)
EXTENDS PlatformWorker, TLAPS

IInv == TypeOK /\ RunnerOwnsJob /\ RetriesUsed

\* The initial states satisfy the invariant.
LEMMA InitIInv == Init => IInv
<1> SUFFICES ASSUME Init PROVE IInv
  OBVIOUS
<1>1. TypeOK
  BY JobsAssumption, AttemptsAssumption DEF Init, TypeOK, Statuses, Phases, NoRun, Jobs
<1>2. RunnerOwnsJob
  BY DEF Init, RunnerOwnsJob, Owns, NoRun
<1>3. RetriesUsed
  BY JobsAssumption, AttemptsAssumption DEF Init, RetriesUsed, Jobs
<1> QED
  BY <1>1, <1>2, <1>3 DEF IInv

\* An attempt within its bound ends as retryable or failed.
LEMMA OutcomeFits ==
  ASSUME IInv, NEW r \in Runners, run[r].phase # "idle"
  PROVE  /\ Outcome(r) \in {"retryable", "failed"}
         /\ Outcome(r) = "failed" => run[r].attempt = MaxAttempts[run[r].job]
         /\ Outcome(r) = "retryable" => run[r].attempt < MaxAttempts[run[r].job]
         /\ run[r].attempt > 0 /\ run[r].attempt \in Nat
         /\ run[r].attempt <= MaxAttempts[run[r].job]
         /\ MaxAttempts[run[r].job] \in Nat
         /\ run[r].job \in Jobs
<1>1. /\ run[r].job \in Jobs
      /\ run[r].attempt \in 1..MaxAttempts[run[r].job]
  BY DEF IInv, TypeOK
<1>2. MaxAttempts[run[r].job] \in Nat \ {0}
  BY <1>1, AttemptsAssumption
<1> QED
  BY <1>1, <1>2 DEF Outcome

\* A save by the runner that owns the job, with a status that fits the
\* attempt, keeps the store typed and its retries used.
LEMMA SaveKeeps ==
  ASSUME IInv, NEW r \in Runners, Owns(r), NEW status \in {"completed", "retryable", "failed"},
         status = "completed" \/ status = Outcome(r), Save(r, status)
  PROVE  /\ jobs' \in [Jobs -> [status : Statuses, attempts : Nat]]
         /\ \A j \in Jobs : jobs'[j].attempts <= MaxAttempts[j]
         /\ RetriesUsed'
         /\ \A j \in Jobs : j # run[r].job => jobs'[j] = jobs[j]
         /\ jobs'[run[r].job] = [status |-> status, attempts |-> run[r].attempt]
<1> DEFINE k == run[r].job
<1>1. run[r].phase # "idle"
  BY DEF Owns
<1>2. /\ Outcome(r) = "failed" => run[r].attempt = MaxAttempts[k]
      /\ Outcome(r) = "retryable" => run[r].attempt < MaxAttempts[k]
      /\ run[r].attempt > 0 /\ run[r].attempt \in Nat
      /\ run[r].attempt <= MaxAttempts[k]
      /\ MaxAttempts[k] \in Nat
      /\ k \in Jobs
  BY <1>1, OutcomeFits
<1>3. jobs \in [Jobs -> [status : Statuses, attempts : Nat]]
  BY DEF IInv, TypeOK
<1>4. jobs' = [jobs EXCEPT ![k] = [status |-> status, attempts |-> run[r].attempt]]
  BY DEF Save
<1>5. /\ \A j \in Jobs : j # k => jobs'[j] = jobs[j]
      /\ jobs'[k] = [status |-> status, attempts |-> run[r].attempt]
  BY <1>2, <1>3, <1>4
<1>6. [status |-> status, attempts |-> run[r].attempt] \in [status : Statuses, attempts : Nat]
  BY <1>2 DEF Statuses
<1>7. jobs' \in [Jobs -> [status : Statuses, attempts : Nat]]
  BY <1>3, <1>4, <1>6
<1>8. \A j \in Jobs : jobs'[j].attempts <= MaxAttempts[j]
  BY <1>2, <1>5 DEF IInv, TypeOK
<1>9. RetriesUsed'
  <2>1. status = "retryable" => run[r].attempt \in 1..(MaxAttempts[k] - 1)
    BY <1>2
  <2>2. status = "failed" => run[r].attempt = MaxAttempts[k]
    BY <1>2
  <2> QED
    BY <1>2, <1>5, <2>1, <2>2 DEF IInv, RetriesUsed
<1> QED
  BY <1>5, <1>7, <1>8, <1>9

\* A step of a runner that only moves it on keeps the types of all runs.
LEMMA GotoKeeps ==
  ASSUME IInv, NEW r \in Runners, run[r].phase # "idle", NEW phase \in Phases,
         run' = [run EXCEPT ![r].phase = phase] \/ run' = [run EXCEPT ![r] = NoRun]
  PROVE  /\ run' \in [Runners -> [phase : Phases, job : Nat, attempt : Nat]]
         /\ \A s \in Runners : run'[s].phase # "idle" =>
              run'[s].job \in Jobs /\ run'[s].attempt \in 1..MaxAttempts[run'[s].job]
         /\ \A s \in Runners : s # r => run'[s] = run[s]
         /\ run'[r] = NoRun \/ run'[r] = [run[r] EXCEPT !.phase = phase]
<1>1. /\ run \in [Runners -> [phase : Phases, job : Nat, attempt : Nat]]
      /\ \A s \in Runners : run[s].phase # "idle" =>
           run[s].job \in Jobs /\ run[s].attempt \in 1..MaxAttempts[run[s].job]
  BY DEF IInv, TypeOK
<1>2. CASE run' = [run EXCEPT ![r].phase = phase]
  BY <1>1, <1>2
<1>3. CASE run' = [run EXCEPT ![r] = NoRun]
  BY <1>1, <1>3 DEF NoRun, Phases
<1> QED
  BY <1>2, <1>3

\* Every step keeps the invariant.
LEMMA NextIInv == IInv /\ [Next]_vars => IInv'
<1> SUFFICES ASSUME IInv, [Next]_vars PROVE IInv'
  OBVIOUS
<1> USE JobsAssumption, AttemptsAssumption
<1>0. TypeOK /\ RunnerOwnsJob /\ RetriesUsed
  BY DEF IInv
<1>1. ASSUME NEW j \in Jobs, Enqueue(j) PROVE IInv'
  <2>1. jobs[j].status = "absent"
    BY <1>1, <1>0 DEF Enqueue, TypeOK
  <2>2. /\ jobs' = [jobs EXCEPT ![j].status = "queued"]
        /\ UNCHANGED <<faults, up, run, succeeded>>
    BY <1>1 DEF Enqueue
  <2>3. jobs' \in [Jobs -> [status : Statuses, attempts : Nat]]
    BY <2>2, <1>0 DEF TypeOK, Statuses
  <2> QED
    BY <2>1, <2>2, <2>3, <1>0
  DEF IInv, TypeOK, RunnerOwnsJob, RetriesUsed, Owns, Statuses
<1>2. ASSUME NEW r \in Runners, Take(r) PROVE IInv'
  <2>1. PICK j \in Runnable \intersect Handled :
          /\ jobs' = [jobs EXCEPT ![j] = [status |-> "running", attempts |-> jobs[j].attempts + 1]]
          /\ run' = [run EXCEPT ![r] =
               [phase |-> "starting", job |-> j, attempt |-> jobs[j].attempts + 1]]
    BY <1>2 DEF Take
  <2>2. UNCHANGED <<faults, up, succeeded>>
    BY <1>2 DEF Take
  <2>3. j \in Jobs /\ jobs[j].status \in {"queued", "retryable"}
    BY <2>1 DEF Runnable
  <2>4. jobs[j].attempts \in Nat /\ jobs[j].attempts + 1 \in 1..MaxAttempts[j]
    <3>1. jobs[j].attempts \in Nat /\ MaxAttempts[j] \in Nat \ {0}
      BY <2>3, <1>0 DEF TypeOK
    <3>2. jobs[j].attempts < MaxAttempts[j]
      BY <2>3, <3>1, <1>0 DEF RetriesUsed
    <3> QED
      BY <3>1, <3>2
  <2>5. /\ \A i \in Jobs : i # j => jobs'[i] = jobs[i]
        /\ jobs'[j] = [status |-> "running", attempts |-> jobs[j].attempts + 1]
        /\ jobs' \in [Jobs -> [status : Statuses, attempts : Nat]]
    BY <2>1, <2>3, <2>4, <1>0 DEF TypeOK, Statuses
  <2>6. /\ \A s \in Runners : s # r => run'[s] = run[s]
        /\ run'[r] = [phase |-> "starting", job |-> j, attempt |-> jobs[j].attempts + 1]
        /\ run' \in [Runners -> [phase : Phases, job : Nat, attempt : Nat]]
    BY <2>1, <2>3, <2>4, <1>0 DEF TypeOK, Phases, Jobs
  <2>7. TypeOK'
    <3>1. \A i \in Jobs : jobs'[i].attempts <= MaxAttempts[i]
      <4>1. jobs'[j].attempts <= MaxAttempts[j]
        BY <2>3, <2>4, <2>5
      <4> QED
        BY <4>1, <2>5, <1>0 DEF TypeOK
    <3>2. \A s \in Runners : run'[s].phase # "idle" =>
            run'[s].job \in Jobs /\ run'[s].attempt \in 1..MaxAttempts[run'[s].job]
      <4>1. run'[r].job \in Jobs /\ run'[r].attempt \in 1..MaxAttempts[run'[r].job]
        BY <2>3, <2>4, <2>6
      <4> QED
        BY <4>1, <2>6, <1>0 DEF TypeOK
    <3> QED
      BY <2>2, <2>5, <2>6, <3>1, <3>2, <1>0 DEF TypeOK
  <2>8. \A s \in Runners : Owns(s) => run[s].job # j
    BY <2>3, <1>0 DEF RunnerOwnsJob
  <2>9. RunnerOwnsJob'
    <3> SUFFICES ASSUME NEW s \in Runners, Owns(s)'
                 PROVE  /\ jobs'[run'[s].job].status
                             = IF run'[s].phase = "completing" THEN "completed" ELSE "running"
                        /\ jobs'[run'[s].job].attempts = run'[s].attempt
                        /\ \A t \in Runners : Owns(t)' /\ run'[t].job = run'[s].job => t = s
      BY DEF RunnerOwnsJob
    <3>1. \A t \in Runners : t # r /\ Owns(t)' => Owns(t) /\ run'[t] = run[t] /\ run[t].job # j
      BY <2>6, <2>8 DEF Owns
    <3>2. CASE s = r
      BY <3>1, <3>2, <2>5, <2>6
    <3>3. CASE s # r
      <4>1. jobs'[run[s].job] = jobs[run[s].job]
        BY <3>1, <3>3, <2>5, <1>0 DEF TypeOK, Owns
      <4> QED
        BY <4>1, <3>1, <3>3, <2>6, <1>0 DEF RunnerOwnsJob
    <3> QED
      BY <3>2, <3>3
  <2>10. RetriesUsed'
    BY <2>5, <1>0 DEF RetriesUsed
  <2> QED
    BY <2>7, <2>9, <2>10 DEF IInv
<1>3. ASSUME NEW r \in Runners, run[r].phase # "idle", UNCHANGED <<faults, jobs, up, succeeded>>,
             \/ run' = [run EXCEPT ![r] = NoRun]
             \/ run[r].phase = "starting" /\ run' = [run EXCEPT ![r].phase = "handling"]
      PROVE  IInv'
  <2>1. "handling" \in Phases
    BY DEF Phases
  <2>2. /\ run' \in [Runners -> [phase : Phases, job : Nat, attempt : Nat]]
        /\ \A s \in Runners : run'[s].phase # "idle" =>
             run'[s].job \in Jobs /\ run'[s].attempt \in 1..MaxAttempts[run'[s].job]
        /\ \A s \in Runners : s # r => run'[s] = run[s]
        /\ run'[r] = NoRun \/ run'[r] = [run[r] EXCEPT !.phase = "handling"]
    BY <1>3, <2>1, GotoKeeps
  <2>3. TypeOK'
    BY <1>3, <2>2, <1>0 DEF TypeOK
  <2>4. RetriesUsed'
    BY <1>3, <1>0 DEF RetriesUsed
  <2>5. \A s \in Runners : Owns(s)' =>
          /\ Owns(s) /\ run'[s].job = run[s].job /\ run'[s].attempt = run[s].attempt
          /\ run'[s].phase = "completing" <=> run[s].phase = "completing"
    <3> SUFFICES ASSUME NEW s \in Runners, Owns(s)'
                 PROVE  /\ Owns(s) /\ run'[s].job = run[s].job /\ run'[s].attempt = run[s].attempt
                        /\ run'[s].phase = "completing" <=> run[s].phase = "completing"
      OBVIOUS
    <3>1. CASE s # r
      BY <3>1, <2>2 DEF Owns
    <3>2. CASE s = r /\ run' = [run EXCEPT ![r] = NoRun]
      BY <3>2, <1>0 DEF Owns, NoRun, TypeOK
    <3>3. CASE s = r /\ run[r].phase = "starting" /\ run' = [run EXCEPT ![r].phase = "handling"]
      BY <3>3, <1>0 DEF Owns, TypeOK
    <3> QED
      BY <1>3, <3>1, <3>2, <3>3
  <2>6. RunnerOwnsJob'
    BY <2>5, <1>3, <1>0 DEF RunnerOwnsJob
  <2> QED
    BY <2>3, <2>4, <2>6 DEF IInv
<1>4. ASSUME NEW r \in Runners, Owns(r), NEW status \in {"completed", "retryable", "failed"},
             status = "completed" \/ status = Outcome(r), Save(r, status),
             NEW phase \in {"completing", "failing"}, Goto(r, phase),
             phase = "completing" => status = "completed",
             UNCHANGED <<faults, up>>, succeeded' = succeeded \/ Returned(r)
      PROVE  IInv'
  <2>1. run[r].phase # "idle" /\ phase \in Phases
    BY <1>4 DEF Owns, Phases
  <2>2. /\ jobs' \in [Jobs -> [status : Statuses, attempts : Nat]]
        /\ \A j \in Jobs : jobs'[j].attempts <= MaxAttempts[j]
        /\ RetriesUsed'
        /\ \A j \in Jobs : j # run[r].job => jobs'[j] = jobs[j]
        /\ jobs'[run[r].job] = [status |-> status, attempts |-> run[r].attempt]
    BY <1>4, SaveKeeps
  <2>3. /\ run' \in [Runners -> [phase : Phases, job : Nat, attempt : Nat]]
        /\ \A s \in Runners : run'[s].phase # "idle" =>
             run'[s].job \in Jobs /\ run'[s].attempt \in 1..MaxAttempts[run'[s].job]
        /\ \A s \in Runners : s # r => run'[s] = run[s]
    BY <1>4, <2>1, GotoKeeps DEF Goto
  <2>4. run'[r] = [run[r] EXCEPT !.phase = phase]
    BY <1>4, <1>0 DEF Goto, TypeOK
  <2>5. succeeded' \in [Jobs -> Nat]
    BY <1>4, <1>0 DEF Returned, TypeOK
  <2>6. TypeOK'
    BY <1>4, <2>2, <2>3, <2>5, <1>0 DEF TypeOK
  <2>7. run[r].job \in Jobs
    BY <2>1, <1>0 DEF TypeOK
  <2>8. \A s \in Runners : s # r /\ Owns(s) => run[s].job # run[r].job
    BY <1>4, <1>0 DEF RunnerOwnsJob
  <2>9. RunnerOwnsJob'
    <3> SUFFICES ASSUME NEW s \in Runners, Owns(s)'
                 PROVE  /\ jobs'[run'[s].job].status
                             = IF run'[s].phase = "completing" THEN "completed" ELSE "running"
                        /\ jobs'[run'[s].job].attempts = run'[s].attempt
                        /\ \A t \in Runners : Owns(t)' /\ run'[t].job = run'[s].job => t = s
      BY DEF RunnerOwnsJob
    <3>1. \A t \in Runners : Owns(t)' => Owns(t) /\ run'[t].job = run[t].job /\ run'[t].attempt = run[t].attempt
      BY <1>4, <2>3, <2>4 DEF Owns
    <3>2. CASE s = r
      BY <3>1, <3>2, <2>2, <2>4, <2>8, <1>4 DEF Owns
    <3>3. CASE s # r
      <4>1. jobs'[run[s].job] = jobs[run[s].job]
        BY <3>1, <3>3, <2>2, <2>8, <1>0 DEF TypeOK, Owns
      <4> QED
        BY <4>1, <3>1, <3>3, <2>3, <2>8, <1>0 DEF RunnerOwnsJob
    <3> QED
      BY <3>2, <3>3
  <2> QED
    BY <2>2, <2>6, <2>9 DEF IInv
<1>5. ASSUME NEW r \in Runners, Published(r) PROVE IInv'
  <2>1. run[r].phase \in {"starting", "completing", "failing"} /\ UNCHANGED <<faults, jobs, up, succeeded>>
    BY <1>5 DEF Published
  <2>2. \/ run' = [run EXCEPT ![r].phase = "handling"] /\ run[r].phase = "starting"
        \/ run' = [run EXCEPT ![r] = NoRun]
    BY <1>5, <1>0 DEF Published, TypeOK
  <2> QED
    BY <2>1, <2>2, <1>3
<1>6. ASSUME NEW r \in Runners, Handles(r) \/ PublishFails(r) PROVE IInv'
  <2>1. CASE HandlerReturns(r)
    BY <2>1, <1>4 DEF HandlerReturns, Owns
  <2>2. CASE HandlerThrows(r)
    <3>1. Owns(r) /\ Outcome(r) \in {"completed", "retryable", "failed"}
      BY <2>2 DEF HandlerThrows, Owns, Outcome
    <3> QED
      BY <2>2, <3>1, <1>4 DEF HandlerThrows
  <2>3. CASE SaveFails(r)
    <3>1. Owns(r) /\ Outcome(r) \in {"completed", "retryable", "failed"}
      BY <2>3 DEF SaveFails, Owns, Outcome
    <3> QED
      BY <2>3, <3>1, <1>4 DEF SaveFails
  <2>4. CASE CatchFails(r)
    BY <2>4, <1>3 DEF CatchFails
  <2>5. CASE PublishFails(r)
    <3>1. UNCHANGED <<faults, up, succeeded>>
      BY <2>5 DEF PublishFails
    <3>2. CASE run[r].phase \in {"starting", "failing"} /\ run' = [run EXCEPT ![r] = NoRun] /\ UNCHANGED jobs
      BY <3>1, <3>2, <1>3
    <3>3. CASE run[r].phase = "completing" /\ Save(r, Outcome(r)) /\ Goto(r, "failing")
      <4>1. Owns(r) /\ Outcome(r) \in {"completed", "retryable", "failed"}
        BY <3>3 DEF Owns, Outcome
      <4> QED
        BY <3>1, <3>3, <4>1, <1>4
    <3> QED
      BY <2>5, <3>2, <3>3 DEF PublishFails
  <2> QED
    BY <1>6, <2>1, <2>2, <2>3, <2>4, <2>5 DEF Handles, Settles
<1>7. CASE Crash
  BY <1>7, <1>0 DEF Crash, IInv, TypeOK, RunnerOwnsJob, RetriesUsed, Owns, NoRun, Phases
<1>8. CASE Open
  BY <1>8, <1>0 DEF Open, IInv, TypeOK, RunnerOwnsJob, RetriesUsed, Owns
<1>9. CASE UNCHANGED vars
  BY <1>9, <1>0 DEF vars, IInv, TypeOK, RunnerOwnsJob, RetriesUsed, Owns
<1> QED
  BY <1>1, <1>2, <1>5, <1>6, <1>7, <1>8, <1>9 DEF Next, Settles

\* The invariant of the specification.
LEMMA Invariance == Spec => []IInv
  BY InitIInv, NextIInv, PTL DEF Spec

\* Every reachable state has the declared types; no job is ever given more
\* attempts than its maxAttempts.
THEOREM TypeCorrect == Spec => []TypeOK
<1>1. IInv => TypeOK
  BY DEF IInv
<1> QED
  BY <1>1, Invariance, PTL

\* No two attempts of a job run at once, and no runner overwrites what
\* another one saved.
THEOREM AttemptsOwned == Spec => []RunnerOwnsJob
<1>1. IInv => RunnerOwnsJob
  BY DEF IInv
<1> QED
  BY <1>1, Invariance, PTL

\* A job fails for good exactly when its attempts are used up.
THEOREM RetriesBounded == Spec => []RetriesUsed
<1>1. IInv => RetriesUsed
  BY DEF IInv
<1> QED
  BY <1>1, Invariance, PTL

-----------------------------------------------------------------------------
(* The work of a key is done once.                                         *)

\* A key has one job in the store, and a job that has succeeded is there.
KeysUsedOnce ==
  /\ \A i, j \in Jobs :
       jobs[i].status # "absent" /\ jobs[j].status # "absent" /\ KeyOf[i] = KeyOf[j] => i = j
  /\ \A j \in Jobs : succeeded[j] > 0 => jobs[j].status # "absent"

\* While publications and saves succeed, a job that has succeeded once stays
\* completed, so that no runner can take it again.
SuccessIsFinal ==
  faults \subseteq {"crash"} =>
    \A j \in Jobs : succeeded[j] > 0 => succeeded[j] = 1 /\ jobs[j].status = "completed"

OnceInv == KeysUsedOnce /\ SuccessIsFinal

\* A save by the runner that handles a job keeps both parts, when it saves a
\* success as completed or when something that may fail has failed.
LEMMA SaveKeepsOnce ==
  ASSUME IInv, OnceInv, NEW r \in Runners, Owns(r), NEW status \in Statuses \ {"absent"},
         Save(r, status), UNCHANGED faults,
         \/ succeeded' = succeeded
         \/ Returned(r) /\ run[r].phase = "handling",
         \/ ~(faults \subseteq {"crash"})
         \/ run[r].phase = "handling" /\ (status = "completed" \/ succeeded' = succeeded)
  PROVE  OnceInv'
<1> DEFINE k == run[r].job
<1>1. /\ jobs \in [Jobs -> [status : Statuses, attempts : Nat]]
      /\ succeeded \in [Jobs -> Nat]
      /\ k \in Jobs
  BY DEF IInv, TypeOK, Owns
<1>2. /\ \A j \in Jobs : j # k => jobs'[j] = jobs[j]
      /\ jobs'[k].status = status
      /\ jobs[k].status # "absent"
  BY <1>1 DEF Save, IInv, RunnerOwnsJob
<1>3. /\ \A j \in Jobs : j # k => succeeded'[j] = succeeded[j]
      /\ succeeded'[k] = succeeded[k] \/ succeeded'[k] = succeeded[k] + 1
      /\ succeeded[k] \in Nat
  BY <1>1 DEF Returned
<1>4. \A j \in Jobs : jobs'[j].status # "absent" <=> jobs[j].status # "absent"
  BY <1>1, <1>2
<1>5. KeysUsedOnce'
  BY <1>2, <1>3, <1>4 DEF OnceInv, KeysUsedOnce
<1>6. SuccessIsFinal'
  <2> SUFFICES ASSUME faults \subseteq {"crash"}
               PROVE  \A j \in Jobs : succeeded'[j] > 0 =>
                        succeeded'[j] = 1 /\ jobs'[j].status = "completed"
    BY DEF SuccessIsFinal
  <2>1. run[r].phase = "handling"
    OBVIOUS
  <2>2. jobs[k].status = "running"
    BY <2>1 DEF IInv, RunnerOwnsJob
  <2>3. ~(succeeded[k] > 0)
    BY <1>1, <2>2 DEF OnceInv, SuccessIsFinal
  <2>4. succeeded[k] = 0
    BY <1>3, <2>3
  <2>5. succeeded'[k] > 0 => succeeded'[k] = 1 /\ jobs'[k].status = "completed"
    BY <1>2, <1>3, <2>4
  <2> QED
    BY <1>2, <1>3, <2>5 DEF OnceInv, SuccessIsFinal
<1> QED
  BY <1>5, <1>6 DEF OnceInv

\* Every step keeps the work of a key single.
LEMMA NextOnceInv == IInv /\ OnceInv /\ [Next]_vars => OnceInv'
<1> SUFFICES ASSUME IInv, OnceInv, [Next]_vars PROVE OnceInv'
  OBVIOUS
<1>0. /\ jobs \in [Jobs -> [status : Statuses, attempts : Nat]]
      /\ succeeded \in [Jobs -> Nat]
  BY DEF IInv, TypeOK
<1>1. ASSUME NEW j \in Jobs, Enqueue(j) PROVE OnceInv'
  <2>1. /\ \A i \in Jobs : jobs[i].status # "absent" => i # j /\ KeyOf[i] # KeyOf[j]
        /\ jobs' = [jobs EXCEPT ![j].status = "queued"]
        /\ UNCHANGED <<faults, succeeded>>
    BY <1>1 DEF Enqueue
  <2>2. /\ \A i \in Jobs : i # j => jobs'[i] = jobs[i]
        /\ jobs'[j].status = "queued" /\ jobs[j].status = "absent"
    BY <2>1, <1>0
  <2> QED
    BY <2>1, <2>2 DEF OnceInv, KeysUsedOnce, SuccessIsFinal
<1>2. ASSUME NEW r \in Runners, Take(r) PROVE OnceInv'
  <2>1. PICK j \in Runnable \intersect Handled :
          jobs' = [jobs EXCEPT ![j] = [status |-> "running", attempts |-> jobs[j].attempts + 1]]
    BY <1>2 DEF Take
  <2>2. UNCHANGED <<faults, succeeded>>
    BY <1>2 DEF Take
  <2>3. /\ \A i \in Jobs : i # j => jobs'[i] = jobs[i]
        /\ j \in Jobs /\ jobs'[j].status = "running"
        /\ jobs[j].status \in {"queued", "retryable"}
    BY <2>1, <1>0 DEF Runnable
  <2> QED
    BY <2>2, <2>3 DEF OnceInv, KeysUsedOnce, SuccessIsFinal
<1>3. ASSUME NEW r \in Runners, HandlerReturns(r) PROVE OnceInv'
  BY <1>3, SaveKeepsOnce DEF HandlerReturns, Owns, Statuses
<1>4. ASSUME NEW r \in Runners, HandlerThrows(r) PROVE OnceInv'
  BY <1>4, SaveKeepsOnce DEF HandlerThrows, Owns, Statuses, Outcome
<1>5. ASSUME NEW r \in Runners, SaveFails(r) PROVE OnceInv'
  BY <1>5, SaveKeepsOnce DEF SaveFails, Owns, Statuses, Outcome
<1>6. ASSUME NEW r \in Runners, PublishFails(r) PROVE OnceInv'
  <2>1. CASE UNCHANGED jobs
    BY <1>6, <2>1 DEF PublishFails, OnceInv, KeysUsedOnce, SuccessIsFinal
  <2>2. CASE run[r].phase = "completing" /\ Save(r, Outcome(r))
    BY <1>6, <2>2, SaveKeepsOnce DEF PublishFails, Owns, Statuses, Outcome
  <2> QED
    BY <1>6, <2>1, <2>2 DEF PublishFails
<1>7. CASE UNCHANGED <<faults, jobs, succeeded>>
  BY <1>7 DEF OnceInv, KeysUsedOnce, SuccessIsFinal
<1> QED
  BY <1>1, <1>2, <1>3, <1>4, <1>5, <1>6, <1>7
  DEF Next, Settles, Handles, Published, CatchFails, Crash, Open, vars

\* However a key is enqueued again, retried or interrupted by crashes, its
\* work is done at most once while publications and saves succeed.
THEOREM WorkDoneOnce == Spec => []OncePerKey
<1>1. Init => OnceInv
  BY DEF Init, OnceInv, KeysUsedOnce, SuccessIsFinal
<1>2. IInv /\ OnceInv => OncePerKey
  <2> SUFFICES ASSUME IInv, OnceInv, faults \subseteq {"crash"}, NEW i \in Jobs, NEW j \in Jobs,
                      KeyOf[i] = KeyOf[j], succeeded[i] > 0, succeeded[j] > 0
               PROVE  i = j /\ succeeded[i] = 1
    BY DEF OncePerKey, DoneOnce
  <2> QED
    BY DEF OnceInv, KeysUsedOnce, SuccessIsFinal
<1> QED
  BY <1>1, <1>2, NextOnceInv, Invariance, PTL DEF Spec
=============================================================================
