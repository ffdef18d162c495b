----------------------------- MODULE ComputeNodes -----------------------------
(***************************************************************************)
(* The compute package: the registry of nodes with their heartbeats and    *)
(* the leases of their capacity (ComputeNodeRegistry), and the provider    *)
(* that executes workloads on leased nodes (LocalComputeProvider).         *)
(*                                                                         *)
(* The registry is synchronous.  An execution waits twice, for the         *)
(* authority and for the executor; what it found out about its lease       *)
(* before the first wait is checked again after it.  Instants are numbers  *)
(* the callers supply, in any order.  One workspace: everything is scoped  *)
(* to it.  A request is what the fingerprint of an idempotency key covers. *)
(***************************************************************************)
EXTENDS Naturals, FiniteSets, SequencesExt, OpaqueIds

CONSTANTS
  Nodes, Leases, Capabilities, Workloads, Keys,
  Requests,        \* the calls of execute to try
  MaxTime,         \* bound: instants 0 .. MaxTime
  MaxVersion,      \* bound: the heartbeats of a node
  MaxCalls         \* bound: the calls of execute

Instants == 0..MaxTime

\* A workload, the lease and key it is to run with, and whether its budget and
\* capabilities are within those of the lease.
Request == [workload : Workloads, key : Keys, lease : Leases, startedAt : Instants,
            withinLimits : BOOLEAN]

RequestsAssumption == Requests \subseteq Request

VARIABLES
  nodes,           \* the registered nodes
  leases,          \* the leases, with the call that consumed each
  idempotency,     \* key -> the call whose promise is remembered
  workloads,       \* workload -> the key it is executed under
  calls            \* the calls of execute that started a run

compute == <<nodes, leases, idempotency, workloads, calls>>

Unconsumed == 0

-----------------------------------------------------------------------------
(* The registry. *)

Register(n, capabilities, at, ttl) ==
  /\ n \notin DOMAIN nodes
  /\ nodes' = Put(nodes, n, [capabilities |-> capabilities, version |-> 1,
                             lastHeartbeatAt |-> at, heartbeatExpiresAt |-> at + ttl])
  /\ UNCHANGED <<leases, idempotency, workloads, calls>>

\* A heartbeat names the version its node read, and may shorten the time the
\* node is trusted.
Heartbeat(n, expectedVersion, at, ttl) ==
  /\ nodes[n].version = expectedVersion /\ expectedVersion < MaxVersion
  /\ nodes[n].lastHeartbeatAt <= at /\ at <= nodes[n].heartbeatExpiresAt
  /\ nodes' = [nodes EXCEPT ![n] = [@ EXCEPT !.version = @ + 1,
                 !.lastHeartbeatAt = at, !.heartbeatExpiresAt = at + ttl]]
  /\ UNCHANGED <<leases, idempotency, workloads, calls>>

Lease(l, n, workload, required, at, ttl) ==
  /\ l \notin DOMAIN leases
  /\ at <= nodes[n].heartbeatExpiresAt
  /\ required \subseteq nodes[n].capabilities
  /\ leases' = Put(leases, l, [node |-> n, workload |-> workload, required |-> required,
                               expiresAt |-> at + ttl, consumedBy |-> Unconsumed])
  /\ UNCHANGED <<nodes, idempotency, workloads, calls>>

\* Whether inspectLease and consume find the lease usable.
Allocatable(request) ==
  /\ request.lease \in DOMAIN leases
  /\ LET lease == leases[request.lease]
     IN /\ lease.workload = request.workload
        /\ request.startedAt <= lease.expiresAt
        /\ lease.consumedBy = Unconsumed
        /\ request.startedAt <= nodes[lease.node].heartbeatExpiresAt
        /\ lease.required \subseteq nodes[lease.node].capabilities

-----------------------------------------------------------------------------
(* The provider. *)

\* Mutant: another key executes the workload again.
ExecuteUnderAnyKey(request) ==
  /\ Len(calls) < MaxCalls
  /\ request.key \notin DOMAIN idempotency
  /\ idempotency' = Put(idempotency, request.key, Len(calls) + 1)
  /\ workloads' = Put(workloads, request.workload, request.key)
  /\ calls' = Append(calls,
       [request |-> request, executed |-> FALSE,
        phase |-> IF request.withinLimits /\ Allocatable(request)
                  THEN "authorizing" ELSE "rejected"])
  /\ UNCHANGED <<nodes, leases>>

\* A call that finds its key remembered returns the remembered promise, or is
\* refused for another fingerprint, and changes nothing; so is one whose
\* workload is being executed, or was, under another key.
Execute(request) ==
  /\ Len(calls) < MaxCalls
  /\ request.key \notin DOMAIN idempotency
  /\ request.workload \notin DOMAIN workloads
  /\ idempotency' = Put(idempotency, request.key, Len(calls) + 1)
  /\ workloads' = Put(workloads, request.workload, request.key)
  /\ calls' = Append(calls,
       [request |-> request, executed |-> FALSE,
        phase |-> IF request.withinLimits /\ Allocatable(request)
                  THEN "authorizing" ELSE "rejected"])
  /\ UNCHANGED <<nodes, leases>>

\* The authority answers, or throws, which is an answer in the negative.
Authorize(c, authorized) ==
  /\ calls[c].phase = "authorizing"
  /\ IF authorized /\ Allocatable(calls[c].request)
     THEN /\ leases' = [leases EXCEPT ![calls[c].request.lease].consumedBy = c]
          /\ calls' = [calls EXCEPT ![c].phase = "executing", ![c].executed = TRUE]
     ELSE /\ calls' = [calls EXCEPT ![c].phase = "rejected"]
          /\ UNCHANGED leases
  /\ UNCHANGED <<nodes, idempotency, workloads>>

\* The executor answers within the budget or beyond it, or throws.
Finish(c, outcome) ==
  /\ calls[c].phase = "executing"
  /\ calls' = [calls EXCEPT ![c].phase = outcome]
  /\ UNCHANGED <<nodes, leases, idempotency, workloads>>

Outcomes == {"succeeded", "failed", "budget-exceeded", "rejected"}

\* The handler of a rejection forgets the key and the workload, a turn later.
Forget(c) ==
  /\ calls[c].phase = "rejected"
  /\ calls' = [calls EXCEPT ![c].phase = "forgotten"]
  /\ idempotency' = IF calls[c].request.key \in DOMAIN idempotency
                       /\ idempotency[calls[c].request.key] = c
                    THEN Restrict(idempotency, DOMAIN idempotency \ {calls[c].request.key})
                    ELSE idempotency
  /\ workloads' = IF calls[c].request.workload \in DOMAIN workloads
                     /\ workloads[calls[c].request.workload] = calls[c].request.key
                  THEN Restrict(workloads, DOMAIN workloads \ {calls[c].request.workload})
                  ELSE workloads
  /\ UNCHANGED <<nodes, leases>>

-----------------------------------------------------------------------------
Init == /\ nodes = <<>> /\ leases = <<>> /\ idempotency = <<>>
        /\ workloads = <<>> /\ calls = <<>>

Step(c) ==
  \/ \E authorized \in BOOLEAN : Authorize(c, authorized)
  \/ \E outcome \in Outcomes : Finish(c, outcome)
  \/ Forget(c)

Next ==
  \/ \E n \in Nodes, capabilities \in SUBSET Capabilities \ {{}},
        at \in Instants, ttl \in Instants \ {0} : Register(n, capabilities, at, ttl)
  \/ \E n \in DOMAIN nodes, at \in Instants, ttl \in Instants \ {0} :
       \/ Heartbeat(n, nodes[n].version, at, ttl)
       \/ \E l \in Offered(Leases, DOMAIN leases), r \in Requests,
             required \in SUBSET Capabilities \ {{}} :
            Lease(l, n, r.workload, required, at, ttl)
  \/ \E request \in Requests : Execute(request)
  \/ \E c \in DOMAIN calls : Step(c)

Fairness == \A c \in 1..MaxCalls : WF_compute(c \in DOMAIN calls /\ Step(c))

Spec == Init /\ [][Next]_compute /\ Fairness

-----------------------------------------------------------------------------
\* However executions of a workload or with a lease overlap and fail: a lease
\* is used by one execution at most, the one it names, and of all executions
\* of a workload at most one is running or has given its receipt; one that
\* was rejected by the executor may be followed by another, with a new lease.
\* For that, what is remembered is never of an execution that was forgotten,
\* and no workload stays behind without its key.
ExecutedOnce ==
  /\ \A c \in DOMAIN calls :
       calls[c].executed <=> \E l \in DOMAIN leases :
                               l = calls[c].request.lease /\ leases[l].consumedBy = c
  /\ \A c, d \in DOMAIN calls :
       LET live(x) == calls[x].executed /\ calls[x].phase \notin {"rejected", "forgotten"}
       IN c # d /\ calls[c].request.workload = calls[d].request.workload
            => ~(live(c) /\ live(d))
  /\ \A k \in DOMAIN idempotency : calls[idempotency[k]].phase # "forgotten"
  /\ \A w \in DOMAIN workloads : workloads[w] \in DOMAIN idempotency

\* Every execution ends, whatever authority and executor answer.
ExecutionsEnd ==
  \A c \in 1..MaxCalls :
    (c \in DOMAIN calls /\ calls[c].phase \in {"authorizing", "executing"})
      ~> (c \in DOMAIN calls /\ calls[c].phase \in Outcomes \cup {"forgotten"})
=============================================================================
