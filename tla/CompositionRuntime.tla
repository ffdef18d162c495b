------------------------- MODULE CompositionRuntime -------------------------
(***************************************************************************)
(* CompositionRuntime of packages/composition-runtime/src/index.ts.        *)
(* Components wait for providers of the capabilities they need.  Three     *)
(* operations reconcile them: registering a component, registering a       *)
(* provider and withdrawing one.  Each operation awaits evaluators,        *)
(* acquirers, disposers and the sink of every transition in the middle of  *)
(* its work, and nothing but its callers keeps two of them apart.          *)
(*                                                                         *)
(* Components are numbered in the order of their ids, providers in the     *)
(* order compareProviders gives them.  An instance of a provider is the    *)
(* provider with the number of the operation that registered it; the lease *)
(* an activation acquires is its component with the number of the          *)
(* operation.  A component acquires one lease.                             *)
(***************************************************************************)
EXTENDS Naturals, FiniteSets

CONSTANTS
  NComponents, NProviders,  \* how many there are
  Capabilities,
  Needs,        \* [Components -> SUBSET Capabilities]: requirements
  Offers,       \* [Providers -> Capabilities]
  Sees,         \* [Components -> SUBSET Providers]: in scope and compatible
  Calls,        \* callers of the runtime
  MaxOps,       \* bound on the numbers of operations
  Environments  \* records [running, sink, ops]: how many operations may be in
                \* progress at once, may the transition sink throw, and the
                \* bound on the operations

Components == 1..NComponents
Providers == 1..NProviders

ASSUME NumbersAssumption == NComponents \in Nat /\ NProviders \in Nat /\ MaxOps \in Nat
ASSUME NeedsAssumption ==
  /\ Needs \in [Components -> SUBSET Capabilities]
  /\ Offers \in [Providers -> Capabilities]
  /\ Sees \in [Components -> SUBSET Providers]

ASSUME EnvironmentsAssumption == Environments \subseteq [running : Nat, sink : BOOLEAN, ops : 0..MaxOps]

VARIABLES
  env,        \* the environment of this execution: one of Environments, never changed
  providers,  \* #providers: number of the instance registered, 0 for none
  state,      \* lifecycle state of each component, "absent" before it is registered
  bindings,   \* instances each component is bound to
  leases,     \* leases in each component's entry
  call,       \* operations in progress
  ops,        \* operations begun so far
  held,       \* leases acquired and not disposed
  reported    \* leases whose disposer failed

vars == <<env, providers, state, bindings, leases, call, ops, held, reported>>

\* DEGRADED and DISPOSED are declared, and never entered.
States == {"absent", "PENDING", "LOADING", "ACTIVE", "SUSPENDED", "UNLOADING", "FAILED"}

\* What an operation waits for: an evaluator, the acquirer, a disposer, its
\* turn to look at the next component, or the sink of its last transition.
AtSink == {"registered", "refused", "loading", "activated", "failed",
           "suspended", "unloading", "unloaded"}
Phases == {"idle", "next", "evaluate", "authorize", "acquire", "dispose"} \union AtSink

Instances == Providers \X (1..MaxOps)
Leases == Components \X (1..MaxOps)

Idle == [op |-> "component", n |-> 0, id |-> 0, phase |-> "idle",
         comp |-> 0, todo |-> {}, bind |-> {}, owned |-> {}]

Least(S) == CHOOSE x \in S : \A y \in S : x <= y

-----------------------------------------------------------------------------
(* Resolution                                                              *)

\* Candidates of any scope.
CandidatesAnywhere(c, cap, P) == {p \in Providers : Offers[p] = cap /\ P[p] # 0}

Candidates(c, cap, P) == {p \in Sees[c] : Offers[p] = cap /\ P[p] # 0}

Resolvable(c, P) == \A cap \in Needs[c] : Candidates(c, cap, P) # {}

\* #resolveBindings: the first candidate of each requirement.
Resolved(c, P) ==
  {<<p, P[p]>> : p \in {Least(Candidates(c, cap, P)) : cap \in Needs[c]}}

\* The start of #reconcile, up to its first await.
Reconciling(r, c, P) ==
  IF state[c] = "PENDING" /\ Resolvable(c, P)
    THEN [r EXCEPT !.phase = "evaluate", !.comp = c, !.bind = Resolved(c, P)]
    ELSE [r EXCEPT !.phase = "next"]

\* A loop that goes on to the first component again.
LoopingOverAll(r, P) ==
  IF r.todo = {} THEN Idle ELSE Reconciling(r, Least(r.todo), P)

\* The loop of registerProvider goes on to the next component.
Looping(r, P) ==
  IF r.todo = {} THEN Idle
  ELSE Reconciling([r EXCEPT !.todo = @ \ {Least(@)}], Least(r.todo), P)

Registered == {c \in Components : state[c] # "absent"}

BoundTo(c, p) == \E b \in bindings[c] : b[1] = p

-----------------------------------------------------------------------------
(* Operations                                                              *)

\* A caller begins an operation.
Begins(k) ==
  /\ call[k].phase = "idle"
  /\ Cardinality({j \in Calls : call[j].phase # "idle"}) < env.running
  /\ ops < env.ops
  /\ ops' = ops + 1

RegisterComponent(k, c) ==
  /\ Begins(k)
  /\ state[c] = "absent"
  /\ state' = [state EXCEPT ![c] = "PENDING"]
  /\ call' = [call EXCEPT ![k] = [Idle EXCEPT !.n = ops', !.comp = c, !.phase = "registered"]]
  /\ UNCHANGED <<env, providers, bindings, leases, held, reported>>

RegisterProvider(k, p) ==
  /\ Begins(k)
  /\ providers[p] = 0
  /\ providers' = [providers EXCEPT ![p] = ops']
  /\ call' = [call EXCEPT ![k] =
       Looping([Idle EXCEPT !.op = "provider", !.n = ops', !.todo = Registered], providers')]
  /\ UNCHANGED <<env, state, bindings, leases, held, reported>>

\* A loop that ends with the first component bound to the provider.
SuspendFirst(k, r) ==
  LET bound == {c \in r.todo : BoundTo(c, r.id)}
      c     == Least(bound)
  IN  IF bound = {}
        THEN call' = [call EXCEPT ![k] = Idle] /\ state' = state
        ELSE /\ call' = [call EXCEPT ![k] = [r EXCEPT !.comp = c, !.todo = {}, !.phase = "suspended"]]
             /\ state' = [state EXCEPT ![c] = "SUSPENDED"]

\* The loop of unregisterProvider goes on to the next component bound to the
\* provider, and suspends it.
SuspendNext(k, r) ==
  LET bound == {c \in r.todo : BoundTo(c, r.id)}
      c     == Least(bound)
  IN  IF bound = {}
        THEN call' = [call EXCEPT ![k] = Idle] /\ state' = state
        ELSE /\ call' = [call EXCEPT ![k] =
                  [r EXCEPT !.comp = c, !.todo = {d \in @ : d > c}, !.phase = "suspended"]]
             /\ state' = [state EXCEPT ![c] = "SUSPENDED"]

UnregisterProvider(k, p) ==
  /\ Begins(k)
  /\ providers[p] # 0
  /\ providers' = [providers EXCEPT ![p] = 0]
  /\ SuspendNext(k, [Idle EXCEPT !.op = "withdraw", !.n = ops', !.id = p, !.todo = Registered])
  /\ UNCHANGED <<env, bindings, leases, held, reported>>

-----------------------------------------------------------------------------
(* #reconcile and the loop of unregisterProvider, from await to await      *)

At(k, phase) == call[k].phase = phase

\* A transition of the component at hand; its sink is awaited.
Transition(k, to, phase) ==
  /\ state' = [state EXCEPT ![call[k].comp] = to]
  /\ call' = [call EXCEPT ![k].phase = phase]

Entries == <<bindings, leases, held, reported>>

TakeNext(k) ==
  /\ At(k, "next")
  /\ call' = [call EXCEPT ![k] = IF @.op = "provider" THEN Looping(@, providers) ELSE Idle]
  /\ UNCHANGED <<env, providers, state, ops, Entries>>

Applicable(k) ==
  /\ At(k, "evaluate")
  /\ call' = [call EXCEPT ![k].phase = "authorize"]
  /\ UNCHANGED <<env, providers, state, ops, Entries>>

\* Not applicable, or not authorized.
Refused(k) ==
  /\ At(k, "evaluate") \/ At(k, "authorize")
  /\ Transition(k, "PENDING", "refused")
  /\ UNCHANGED <<env, providers, ops, Entries>>

\* An evaluator throws: the operation rejects where it is.
EvaluatorThrows(k) ==
  /\ At(k, "evaluate") \/ At(k, "authorize")
  /\ call' = [call EXCEPT ![k] = Idle]
  /\ UNCHANGED <<env, providers, state, ops, Entries>>

Authorized(k) ==
  /\ At(k, "authorize")
  /\ Transition(k, "LOADING", "loading")
  /\ UNCHANGED <<env, providers, ops, Entries>>

Acquired(k) ==
  LET c == call[k].comp
      l == <<c, call[k].n>>
  IN  /\ At(k, "acquire")
      /\ leases' = [leases EXCEPT ![c] = {l}]
      /\ held' = held \union {l}
      /\ Transition(k, "ACTIVE", "activated")
      /\ UNCHANGED <<env, providers, bindings, ops, reported>>

\* The catch of #reconcile: bindings and leases are dropped.
Failing(k) ==
  /\ bindings' = [bindings EXCEPT ![call[k].comp] = {}]
  /\ leases' = [leases EXCEPT ![call[k].comp] = {}]
  /\ Transition(k, "FAILED", "failed")
  /\ UNCHANGED <<env, providers, ops, held, reported>>

\* A failed activation that keeps its bindings.
AcquireFailsBound(k) ==
  /\ At(k, "acquire")
  /\ Transition(k, "FAILED", "failed")
  /\ UNCHANGED <<env, providers, ops, bindings, leases, held, reported>>

AcquireFails(k) == At(k, "acquire") /\ Failing(k)

\* The sink of the last transition resolves.
SinkResolves(k) ==
  LET r == call[k]
      c == r.comp
  IN  \/ /\ At(k, "registered")
         /\ call' = [call EXCEPT ![k] = Reconciling(@, c, providers)]
         /\ UNCHANGED <<env, providers, state, ops, Entries>>
      \/ /\ r.phase \in {"refused", "activated", "failed"}
         /\ call' = [call EXCEPT ![k].phase = "next"]
         /\ UNCHANGED <<env, providers, state, ops, Entries>>
      \/ /\ At(k, "loading")
         /\ bindings' = [bindings EXCEPT ![c] = r.bind]
         /\ call' = [call EXCEPT ![k].phase = "acquire"]
         /\ UNCHANGED <<env, providers, state, ops, leases, held, reported>>
      \/ /\ At(k, "suspended")
         /\ Transition(k, "UNLOADING", "unloading")
         /\ UNCHANGED <<env, providers, ops, Entries>>
      \/ /\ At(k, "unloading")
         /\ leases[c] # {}
         /\ call' = [call EXCEPT ![k].phase = "dispose", ![k].owned = leases[c]]
         /\ UNCHANGED <<env, providers, state, ops, Entries>>
      \/ /\ At(k, "unloaded")
         /\ SuspendNext(k, r)
         /\ UNCHANGED <<env, providers, ops, Entries>>

\* The component's entry is emptied and goes back to waiting.
Unload(k) ==
  /\ leases' = [leases EXCEPT ![call[k].comp] = {}]
  /\ bindings' = [bindings EXCEPT ![call[k].comp] = {}]
  /\ Transition(k, "PENDING", "unloaded")
  /\ UNCHANGED <<env, providers, ops>>

\* An entry that drops its leases without disposing them.
UnloadOnly(k) ==
  /\ At(k, "dispose")
  /\ Unload(k)
  /\ UNCHANGED <<env, held, reported>>

NothingToDispose(k) ==
  /\ At(k, "unloading")
  /\ leases[call[k].comp] = {}
  /\ Unload(k)
  /\ UNCHANGED <<env, held, reported>>

Disposed(k) ==
  /\ At(k, "dispose")
  /\ held' = held \ call[k].owned
  /\ Unload(k)
  /\ UNCHANGED reported

\* The disposer throws: the failure is recorded, the unloading goes on.
DisposeFails(k) ==
  /\ At(k, "dispose")
  /\ reported' = reported \union call[k].owned
  /\ Unload(k)
  /\ UNCHANGED held

\* The sink throws: the activation fails, any other operation rejects.
SinkThrows(k) ==
  /\ env.sink
  /\ call[k].phase \in AtSink
  /\ IF At(k, "activated")
       THEN Failing(k)
       ELSE /\ call' = [call EXCEPT ![k] = Idle]
            /\ UNCHANGED <<env, providers, state, ops, Entries>>

Init ==
  /\ env \in Environments
  /\ providers = [p \in Providers |-> 0]
  /\ state = [c \in Components |-> "absent"]
  /\ bindings = [c \in Components |-> {}]
  /\ leases = [c \in Components |-> {}]
  /\ call = [k \in Calls |-> Idle]
  /\ ops = 0
  /\ held = {}
  /\ reported = {}

Begin(k) ==
  \/ \E c \in Components : RegisterComponent(k, c)
  \/ \E p \in Providers : RegisterProvider(k, p) \/ UnregisterProvider(k, p)

Continue(k) ==
  \/ TakeNext(k) \/ Applicable(k) \/ Refused(k) \/ EvaluatorThrows(k) \/ Authorized(k)
  \/ Acquired(k) \/ AcquireFails(k) \/ SinkResolves(k) \/ SinkThrows(k)
  \/ NothingToDispose(k) \/ Disposed(k) \/ DisposeFails(k)

Next == \E k \in Calls : Begin(k) \/ Continue(k)

Spec == Init /\ [][Next]_vars

\* What an operation awaits settles.
FairSpec == Spec /\ \A k \in Calls : WF_vars(Continue(k))

-----------------------------------------------------------------------------
(* Properties                                                              *)

Quiescent == \A k \in Calls : call[k].phase = "idle"

\* The bindings of an active component are registered, and enough.
Supported(c) ==
  /\ \A b \in bindings[c] : providers[b[1]] = b[2]
  /\ \A cap \in Needs[c] : \E b \in bindings[c] : Offers[b[1]] = cap

ActiveSupported == Quiescent => \A c \in Components : state[c] = "ACTIVE" => Supported(c)

\* A component that has leases or bindings is active, its providers registered.
Released ==
  Quiescent => \A c \in Components : bindings[c] # {} \/ leases[c] # {} =>
    state[c] = "ACTIVE" /\ \A b \in bindings[c] : providers[b[1]] = b[2]

\* Callers that wait for one operation before they begin the next.
OneAtATime == env.running = 1

\* ADR 0004, "Providers and effect leases cannot escape their declared ... scope":
\* whatever runs at once and whatever fails, a component is bound to visible
\* and compatible providers only, one for each requirement at most.
ScopedBindings ==
  \A c \in Components :
    /\ \A b \in bindings[c] : b[1] \in Sees[c] /\ Offers[b[1]] \in Needs[c]
    /\ \A a, b \in bindings[c] : Offers[a[1]] = Offers[b[1]] => a = b

\* ADR 0004, "null and stale provider injection are forbidden": between
\* operations that do not overlap and whose sink does not throw, an active
\* component is bound, for every requirement, to a registered provider instance;
\* and no component ever leaves its scope.
ActiveIsSupported ==
  ScopedBindings /\ (OneAtATime /\ ~env.sink => ActiveSupported)

\* ADR 0004, "Provider loss suspends or unloads dependents, disposes their
\* owned runtime effects": the same of everything a component holds.
LossReleases == OneAtATime /\ ~env.sink => Released

\* The same, with a sink that may throw.
LossReleasesAlways == OneAtATime => Released

\* A lease that was acquired is disposed, is reported as a disposer failure,
\* or is in its component's entry, where the next loss of a provider finds it.
NoLeaseLost ==
  OneAtATime /\ ~env.sink => \A l \in held : l \in leases[l[1]] \/ l \in reported

\* Every operation ends, although the registries change under its loop.
OperationsEnd == \A k \in Calls : call[k].phase # "idle" ~> call[k].phase = "idle"
=============================================================================
