----------------------- MODULE CompositionRuntimeProofs -----------------------
(***************************************************************************)
(* Proofs about CompositionRuntime, for any components, providers and      *)
(* callers: bindings never leave their scope, whatever runs at once; and   *)
(* between operations that do not overlap and whose sink does not throw,   *)
(* active components are supported, a loss releases what was held, and no  *)
(* lease is lost.                                                          *)
(***************************************************************************)
EXTENDS CompositionRuntime, FiniteSetTheorems, WellFoundedInduction, TLAPS

-----------------------------------------------------------------------------
(* The inductive invariant                                                 *)

Activating == {"registered", "next", "evaluate", "authorize", "refused", "loading",
               "acquire", "activated", "failed"}
Withdrawing == {"suspended", "unloading", "dispose", "unloaded"}

Operation == [op : {"component", "provider", "withdraw"}, n : 0..MaxOps, id : 0..NProviders,
              phase : Phases, comp : 0..NComponents, todo : SUBSET Components,
              bind : SUBSET Instances, owned : SUBSET Leases]

\* What an operation in progress works on.
WellFormed(r) ==
  /\ r.phase # "idle" => r.n \in 1..MaxOps
  /\ r.phase \notin {"idle", "next"} => r.comp \in Components
  /\ r.phase \in Activating => r.op # "withdraw"
  /\ r.phase \in Withdrawing => r.op = "withdraw"

\* The type invariant.
Typed ==
  /\ env \in Environments
  /\ providers \in [Providers -> 0..MaxOps]
  /\ state \in [Components -> States]
  /\ bindings \in [Components -> SUBSET Instances]
  /\ leases \in [Components -> SUBSET Leases]
  /\ call \in [Calls -> Operation]
  /\ ops \in 0..MaxOps
  /\ held \subseteq Leases
  /\ reported \subseteq Leases
  /\ \A k \in Calls : WellFormed(call[k])

\* Bindings within the scope of a component, one for a requirement at most.
InScope(c, B) ==
  /\ \A b \in B : b[1] \in Sees[c] /\ Offers[b[1]] \in Needs[c]
  /\ \A a, b \in B : Offers[a[1]] = Offers[b[1]] => a = b

\* Those a component has, and those an operation is about to give it.
ScopeInv ==
  /\ \A c \in Components : InScope(c, bindings[c])
  /\ \A k \in Calls : call[k].phase \in {"evaluate", "authorize", "loading"} =>
       InScope(call[k].comp, call[k].bind)

\* Bindings to registered instances, one for each requirement.
FitTo(P, c, B) ==
  /\ \A b \in B : P[b[1]] = b[2]
  /\ \A cap \in Needs[c] : \E b \in B : Offers[b[1]] = cap

\* What holds of a component that no operation works on.
Settled(c) ==
  /\ state[c] = "ACTIVE" => FitTo(providers, c, bindings[c])
  /\ bindings[c] # {} \/ leases[c] # {} => state[c] = "ACTIVE"

\* A component that is being activated or unloaded, or waits for the loop of
\* the withdrawal of a provider it is bound to.
ExcusedBy(r, c) ==
  \/ r.comp = c /\ r.phase \in {"acquire", "suspended", "unloading", "dispose"}
  \/ r.phase \in Withdrawing /\ c \in r.todo /\ BoundTo(c, r.id)

\* How far the activation or the unloading of a component has come.
Prepared(r) ==
  /\ r.phase \in {"evaluate", "authorize"} =>
       state[r.comp] = "PENDING" /\ FitTo(providers, r.comp, r.bind)
  /\ r.phase = "loading" => state[r.comp] = "LOADING" /\ FitTo(providers, r.comp, r.bind)
  /\ r.phase = "acquire" =>
       leases[r.comp] = {} /\ FitTo(providers, r.comp, bindings[r.comp])
  /\ r.phase = "dispose" => r.owned = leases[r.comp]

\* One operation at a time: every other component is settled.
SerialInv ==
  /\ \A j, k \in Calls : call[j].phase # "idle" /\ call[k].phase # "idle" => j = k
  /\ \A c \in Components : Settled(c) \/ \E k \in Calls : ExcusedBy(call[k], c)
  /\ \A k \in Calls : Prepared(call[k])
  /\ \A c \in Components : \A l \in leases[c] : l[1] = c
  /\ \A l \in held : l \in leases[l[1]] \/ l \in reported

\* The callers wait for one operation before the next; the sink does not throw.
Serial == OneAtATime /\ ~env.sink

IInv == Typed /\ ScopeInv /\ (Serial => SerialInv)

-----------------------------------------------------------------------------
(* The operators of the model                                              *)

\* A nonempty set of numbers has a least one.
LEMMA LeastIs ==
  ASSUME NEW S, S \subseteq Nat, S # {}
  PROVE  Least(S) \in S /\ \A y \in S : Least(S) <= y
<1> DEFINE R == OpToRel(<, Nat)
<1>1. \A x, y \in Nat : x < y => <<x, y>> \in R
  BY DEF OpToRel
<1>2. IsWellFoundedOn(R, Nat)
  BY NatLessThanWellFounded, Zenon
<1> HIDE DEF R
<1>3. PICK x \in S : \A y \in S : <<y, x>> \notin R
  BY <1>2, WFMin
<1>4. ASSUME NEW y \in S PROVE x <= y
  <2>1. x \in Nat /\ y \in Nat
    OBVIOUS
  <2>2. ~(y < x)
    BY <1>1, <1>3, <2>1
  <2> QED
    BY <2>1, <2>2
<1> QED
  BY <1>3, <1>4 DEF Least

\* The candidate a requirement is resolved to.
LEMMA CandidateIs ==
  ASSUME NEW c \in Components, NEW P, NEW cap, Candidates(c, cap, P) # {}
  PROVE  LET p == Least(Candidates(c, cap, P))
         IN  p \in Sees[c] /\ p \in Providers /\ Offers[p] = cap /\ P[p] # 0
<1>1. Candidates(c, cap, P) \subseteq Sees[c] /\ Sees[c] \subseteq Providers
  BY NeedsAssumption DEF Candidates
<1>2. Providers \subseteq Nat
  BY NumbersAssumption DEF Providers
<1>3. Least(Candidates(c, cap, P)) \in Candidates(c, cap, P)
  BY <1>1, <1>2, LeastIs
<1> QED
  BY <1>1, <1>3 DEF Candidates

\* What resolveBindings gives a component: instances that are registered, of
\* providers in its scope, one for each requirement.
LEMMA ResolvedIs ==
  ASSUME NEW c \in Components, NEW P \in [Providers -> 0..MaxOps], Resolvable(c, P)
  PROVE  /\ Resolved(c, P) \subseteq Instances
         /\ InScope(c, Resolved(c, P))
         /\ FitTo(P, c, Resolved(c, P))
<1> DEFINE pick(cap) == Least(Candidates(c, cap, P))
<1>1. \A cap \in Needs[c] :
        /\ pick(cap) \in Sees[c] /\ pick(cap) \in Providers
        /\ Offers[pick(cap)] = cap /\ P[pick(cap)] # 0
  BY CandidateIs DEF Resolvable
<1>2. Resolved(c, P) = {<<p, P[p]>> : p \in {pick(cap) : cap \in Needs[c]}}
  BY DEF Resolved
<1> HIDE DEF pick
<1>3. \A b \in Resolved(c, P) : \E cap \in Needs[c] : b = <<pick(cap), P[pick(cap)]>>
  BY <1>2
<1>4. \A cap \in Needs[c] : <<pick(cap), P[pick(cap)]>> \in Resolved(c, P)
  BY <1>2
<1>5. \A p \in Providers : P[p] # 0 => P[p] \in 1..MaxOps
  BY NumbersAssumption
<1>6. Resolved(c, P) \subseteq Instances
  BY <1>1, <1>3, <1>5 DEF Instances
<1>7. InScope(c, Resolved(c, P))
  BY <1>1, <1>3 DEF InScope
<1>8. \A b \in Resolved(c, P) : P[b[1]] = b[2]
  BY <1>3
<1>9. \A cap \in Needs[c] : \E b \in Resolved(c, P) : Offers[b[1]] = cap
  BY <1>1, <1>4
<1> QED
  BY <1>6, <1>7, <1>8, <1>9 DEF FitTo

LEMMA IdleIs ==
  /\ Idle \in Operation /\ WellFormed(Idle)
  /\ Idle.phase = "idle" /\ Idle.todo = {} /\ Idle.op = "component" /\ Idle.comp = 0
<1>1. 0 \in 0..MaxOps /\ 0 \in 0..NProviders /\ 0 \in 0..NComponents
  BY NumbersAssumption
<1>2. Idle \in Operation
  BY <1>1 DEF Idle, Operation, Phases
<1>3. Idle.phase = "idle" /\ Idle.todo = {} /\ Idle.op = "component" /\ Idle.comp = 0
  BY DEF Idle
<1> QED
  BY <1>2, <1>3 DEF WellFormed, Activating, Withdrawing

\* An operation whose next component is at hand: what it is about to bind it
\* to is in scope, and fits the providers of this moment.
About(q, P) ==
  /\ q \in Operation /\ WellFormed(q)
  /\ q.phase \in {"idle", "next", "evaluate"}
  /\ q.phase = "evaluate" =>
       state[q.comp] = "PENDING" /\ InScope(q.comp, q.bind) /\ FitTo(P, q.comp, q.bind)

LEMMA ReconcilingIs ==
  ASSUME NEW r \in Operation, NEW c \in Components, NEW P \in [Providers -> 0..MaxOps],
         r.op # "withdraw", r.n \in 1..MaxOps
  PROVE  About(Reconciling(r, c, P), P)
<1> DEFINE e == [r EXCEPT !.phase = "evaluate", !.comp = c, !.bind = Resolved(c, P)]
           n == [r EXCEPT !.phase = "next"]
<1>1. c \in 0..NComponents
  BY NumbersAssumption DEF Components
<1>2. CASE state[c] = "PENDING" /\ Resolvable(c, P)
  <2>1. Reconciling(r, c, P) = e
    BY <1>2, Zenon DEF Reconciling
  <2>2. Resolved(c, P) \subseteq Instances /\ InScope(c, Resolved(c, P)) /\ FitTo(P, c, Resolved(c, P))
    BY <1>2, ResolvedIs
  <2>3. /\ e \in Operation /\ e.phase = "evaluate" /\ e.comp = c /\ e.bind = Resolved(c, P)
        /\ e.op = r.op /\ e.n = r.n
    BY <1>1, <2>2 DEF Operation, Phases
  <2> HIDE DEF e
  <2>4. WellFormed(e)
    BY <2>3 DEF WellFormed, Activating, Withdrawing
  <2> QED
    BY <1>2, <2>1, <2>2, <2>3, <2>4 DEF About
<1>3. CASE ~(state[c] = "PENDING" /\ Resolvable(c, P))
  <2>1. Reconciling(r, c, P) = n
    BY <1>3, Zenon DEF Reconciling
  <2>2. n \in Operation /\ n.phase = "next" /\ n.op = r.op /\ n.n = r.n
    BY DEF Operation, Phases
  <2> HIDE DEF n
  <2>3. WellFormed(n)
    BY <2>2 DEF WellFormed, Activating, Withdrawing
  <2> QED
    BY <2>1, <2>2, <2>3 DEF About
<1> QED
  BY <1>2, <1>3

LEMMA LoopingIs ==
  ASSUME NEW r \in Operation, NEW P \in [Providers -> 0..MaxOps],
         r.op # "withdraw", r.n \in 1..MaxOps
  PROVE  About(Looping(r, P), P)
<1>1. CASE r.todo = {}
  BY <1>1, IdleIs DEF Looping, About
<1>2. CASE r.todo # {}
  <2> DEFINE c == Least(r.todo)
             q == [r EXCEPT !.todo = r.todo \ {c}]
  <2>1. r.todo \subseteq Components /\ Components \subseteq Nat
    BY NumbersAssumption DEF Operation, Components
  <2>2. c \in Components
    BY <1>2, <2>1, LeastIs
  <2>3. q \in Operation /\ q.op = r.op /\ q.n = r.n
    BY <2>1 DEF Operation
  <2>4. Looping(r, P) = Reconciling(q, c, P)
    BY <1>2, Zenon DEF Looping
  <2> HIDE DEF c, q
  <2> QED
    BY <2>2, <2>3, <2>4, ReconcilingIs
<1> QED
  BY <1>1, <1>2

\* What the loop of a withdrawal does next.
LEMMA SuspendNextIs ==
  ASSUME NEW k \in Calls, NEW r \in Operation, r.op = "withdraw", r.n \in 1..MaxOps,
         SuspendNext(k, r)
  PROVE  \/ /\ call' = [call EXCEPT ![k] = Idle] /\ state' = state
            /\ \A c \in r.todo : ~BoundTo(c, r.id)
         \/ \E q \in Operation :
              /\ call' = [call EXCEPT ![k] = q]
              /\ state' = [state EXCEPT ![q.comp] = "SUSPENDED"]
              /\ WellFormed(q) /\ q.phase = "suspended" /\ q.id = r.id
              /\ \A c \in r.todo : BoundTo(c, r.id) => c = q.comp \/ c \in q.todo
<1> DEFINE bound == {c \in r.todo : BoundTo(c, r.id)}
           c == Least(bound)
           q == [r EXCEPT !.comp = c, !.todo = {d \in r.todo : d > c}, !.phase = "suspended"]
<1>1. CASE bound = {}
  BY <1>1 DEF SuspendNext
<1>2. CASE bound # {}
  <2>1. /\ r.todo \subseteq Components /\ Components \subseteq Nat
        /\ Components \subseteq 0..NComponents
    BY NumbersAssumption DEF Operation, Components
  <2>2. c \in bound /\ \A d \in bound : c <= d
    BY <1>2, <2>1, LeastIs
  <2>3. call' = [call EXCEPT ![k] = q] /\ state' = [state EXCEPT ![c] = "SUSPENDED"]
    BY <1>2, Zenon DEF SuspendNext
  <2>4. c \in r.todo /\ c \in Components
    BY <2>1, <2>2
  <2>5. \A d \in r.todo : BoundTo(d, r.id) => d = c \/ d \in {e \in r.todo : e > c}
    <3>1. c \in Nat /\ \A d \in bound : d \in Nat /\ c <= d
      BY <2>1, <2>2
    <3> HIDE DEF c
    <3>2. \A d \in bound : d = c \/ d > c
      BY <3>1
    <3> QED
      BY <3>2
  <2> HIDE DEF c
  <2>6. /\ q \in Operation /\ q.phase = "suspended" /\ q.id = r.id /\ q.op = r.op /\ q.n = r.n
        /\ q.comp = c /\ q.todo = {d \in r.todo : d > c}
    BY <2>1, <2>4 DEF Operation, Phases, AtSink
  <2> HIDE DEF q
  <2>7. WellFormed(q)
    BY <2>4, <2>6 DEF WellFormed, Activating, Withdrawing
  <2> QED
    BY <2>3, <2>5, <2>6, <2>7
<1> QED
  BY <1>1, <1>2

-----------------------------------------------------------------------------
(* Every step keeps the invariant                                          *)

\* A step of one caller, whose operation it leaves as q.
LEMMA StepKeeps ==
  ASSUME IInv, NEW k \in Calls, NEW q \in Operation, WellFormed(q),
         env' = env, call' = [call EXCEPT ![k] = q],
         providers' \in [Providers -> 0..MaxOps], state' \in [Components -> States],
         bindings' \in [Components -> SUBSET Instances],
         leases' \in [Components -> SUBSET Leases], ops' \in 0..MaxOps,
         held' \subseteq Leases, reported' \subseteq Leases,
         \A c \in Components : InScope(c, bindings'[c]),
         q.phase \in {"evaluate", "authorize", "loading"} => InScope(q.comp, q.bind),
         Serial /\ SerialInv =>
           /\ \A j \in Calls : j # k => call[j].phase = "idle"
           /\ \A c \in Components : Settled(c)' \/ ExcusedBy(q, c)'
           /\ Prepared(q)'
           /\ \A c \in Components : \A l \in leases'[c] : l[1] = c
           /\ \A l \in held' : l \in leases'[l[1]] \/ l \in reported'
  PROVE  IInv'
<1>1. call \in [Calls -> Operation]
  BY DEF IInv, Typed
<1>2. /\ call' \in [Calls -> Operation] /\ call'[k] = q
      /\ \A j \in Calls : j # k => call'[j] = call[j]
  BY <1>1
<1>3. Typed'
  BY <1>2 DEF IInv, Typed, WellFormed
<1>4. ScopeInv'
  BY <1>2 DEF IInv, ScopeInv, InScope
<1>5. ASSUME Serial, SerialInv PROVE SerialInv'
  <2>1. \A j \in Calls : j # k => call'[j].phase = "idle"
    BY <1>2, <1>5
  <2>2. \A j \in Calls : Prepared(call[j])'
    <3>1. \A j \in Calls : j # k => Prepared(call[j])'
      BY <2>1 DEF Prepared
    <3>2. Prepared(call[k])'
      BY <1>2, <1>5 DEF Prepared
    <3> QED
      BY <3>1, <3>2
  <2>3. \A c \in Components : Settled(c)' \/ ExcusedBy(call[k], c)'
    BY <1>2, <1>5 DEF ExcusedBy, BoundTo
  <2> QED
    BY <1>5, <2>1, <2>2, <2>3 DEF SerialInv
<1>6. Serial' => Serial
  BY DEF Serial, OneAtATime
<1> QED
  BY <1>3, <1>4, <1>5, <1>6 DEF IInv

\* What one operation at a time means while k is in progress.
LEMMA AloneIs ==
  ASSUME SerialInv, NEW k \in Calls, call[k].phase # "idle"
  PROVE  /\ \A j \in Calls : j # k => call[j].phase = "idle"
         /\ \A c \in Components : Settled(c) \/ ExcusedBy(call[k], c)
         /\ Prepared(call[k])
<1>1. \A j \in Calls : j # k => call[j].phase = "idle"
  BY DEF SerialInv
<1>2. \A j \in Calls : j # k => \A c \in Components : ~ExcusedBy(call[j], c)
  BY <1>1 DEF ExcusedBy, Withdrawing
<1> QED
  BY <1>1, <1>2 DEF SerialInv

\* And before an operation begins: nothing is in progress.
LEMMA QuietBefore ==
  ASSUME IInv, Serial, SerialInv, NEW k \in Calls, Begins(k)
  PROVE  /\ \A j \in Calls : call[j].phase = "idle"
         /\ \A c \in Components : Settled(c)
<1> DEFINE Busy == {j \in Calls : call[j].phase # "idle"}
<1>1. Cardinality(Busy) < 1
  BY DEF Begins, Serial, OneAtATime
<1>2. IsFiniteSet(Busy)
  <2>1. CASE Busy = {}
    BY <2>1, FS_EmptySet
  <2>2. CASE Busy # {}
    <3>1. PICK j \in Calls : j \in Busy
      BY <2>2
    <3>2. Busy = {j}
      BY <3>1 DEF SerialInv
    <3> QED
      BY <3>2, FS_Singleton
  <2> QED
    BY <2>1, <2>2
<1>3. Busy = {}
  <2> HIDE DEF Busy
  <2>1. Cardinality(Busy) \in Nat
    BY <1>2, FS_CardinalityType
  <2>2. Cardinality(Busy) = 0
    BY <1>1, <2>1
  <2> QED
    BY <1>2, <2>2, FS_EmptySet
<1>4. \A j \in Calls : call[j].phase = "idle"
  BY <1>3
<1>5. \A j \in Calls, c \in Components : ~ExcusedBy(call[j], c)
  BY <1>4 DEF ExcusedBy, Withdrawing
<1> QED
  BY <1>4, <1>5 DEF SerialInv

\* The number of an operation that begins.
LEMMA BeginsIs ==
  ASSUME IInv, NEW k \in Calls, Begins(k)
  PROVE  ops' \in 1..MaxOps /\ ops' \in 0..MaxOps /\ MaxOps \in Nat
<1>1. ops \in 0..MaxOps /\ MaxOps \in Nat
  BY NumbersAssumption DEF IInv, Typed
<1>2. env.ops \in 0..MaxOps
  BY EnvironmentsAssumption DEF IInv, Typed
<1>3. ops < env.ops /\ ops' = ops + 1
  BY DEF Begins
<1> QED
  BY <1>1, <1>2, <1>3

LEMMA RegisterComponentKeeps ==
  ASSUME IInv, NEW k \in Calls, NEW c \in Components, RegisterComponent(k, c)
  PROVE  IInv'
<1>1. PICK q : q = [Idle EXCEPT !.n = ops', !.comp = c, !.phase = "registered"]
  OBVIOUS
<1>2. /\ Begins(k) /\ state[c] = "absent" /\ state' = [state EXCEPT ![c] = "PENDING"]
      /\ call' = [call EXCEPT ![k] = q]
      /\ UNCHANGED <<env, providers, bindings, leases, held, reported>>
  BY <1>1 DEF RegisterComponent
<1>3. ops' \in 1..MaxOps /\ ops' \in 0..MaxOps /\ c \in 0..NComponents
  BY <1>2, BeginsIs, NumbersAssumption DEF Components
<1>4. q \in Operation /\ q.phase = "registered" /\ q.comp = c /\ q.n = ops' /\ q.op = "component"
  BY <1>1, <1>3, IdleIs DEF Operation, Phases, AtSink
<1>5. WellFormed(q)
  BY <1>3, <1>4 DEF WellFormed, Activating, Withdrawing
<1>6. /\ state' \in [Components -> States]
      /\ state'[c] = "PENDING" /\ \A d \in Components : d # c => state'[d] = state[d]
  BY <1>2 DEF IInv, Typed, States
<1>7. Prepared(q)'
  BY <1>4 DEF Prepared
<1>8. ASSUME Serial, SerialInv
      PROVE  /\ \A j \in Calls : call[j].phase = "idle"
             /\ \A d \in Components : Settled(d)'
  <2>1. (\A j \in Calls : call[j].phase = "idle") /\ \A d \in Components : Settled(d)
    BY <1>2, <1>8, QuietBefore
  <2>2. \A d \in Components : Settled(d)'
    BY <1>2, <1>6, <2>1 DEF Settled
  <2> QED
    BY <2>1, <2>2
<1>9. /\ \A d \in Components : InScope(d, bindings'[d])
      /\ SerialInv => /\ \A d \in Components : \A l \in leases'[d] : l[1] = d
                      /\ \A l \in held' : l \in leases'[l[1]] \/ l \in reported'
  BY <1>2 DEF IInv, ScopeInv, SerialInv
<1> QED
  BY <1>2, <1>3, <1>4, <1>5, <1>6, <1>7, <1>8, <1>9, StepKeeps DEF IInv, Typed

LEMMA RegisterProviderKeeps ==
  ASSUME IInv, NEW k \in Calls, NEW p \in Providers, RegisterProvider(k, p)
  PROVE  IInv'
<1>1. PICK r : r = [Idle EXCEPT !.op = "provider", !.n = ops', !.todo = Registered]
  OBVIOUS
<1>2. PICK q : q = Looping(r, providers')
  OBVIOUS
<1>3. /\ Begins(k) /\ providers[p] = 0 /\ providers' = [providers EXCEPT ![p] = ops']
      /\ call' = [call EXCEPT ![k] = q]
      /\ UNCHANGED <<env, state, bindings, leases, held, reported>>
  BY <1>1, <1>2 DEF RegisterProvider
<1>4. /\ ops' \in 1..MaxOps /\ ops' \in 0..MaxOps
      /\ Registered \subseteq Components
      /\ providers \in [Providers -> 0..MaxOps]
  BY <1>3, BeginsIs DEF Registered, IInv, Typed
<1>5. r \in Operation /\ r.op = "provider" /\ r.n = ops'
  BY <1>1, <1>4, IdleIs DEF Operation
<1>6. /\ providers' \in [Providers -> 0..MaxOps]
      /\ \A s \in Providers : s # p => providers'[s] = providers[s]
  BY <1>3, <1>4
<1>7. About(q, providers')
  BY <1>2, <1>4, <1>5, <1>6, LoopingIs
<1>8. Prepared(q)'
  BY <1>3, <1>7 DEF Prepared, About
<1>9. ASSUME Serial, SerialInv
      PROVE  /\ \A j \in Calls : call[j].phase = "idle"
             /\ \A d \in Components : Settled(d)'
  <2>1. (\A j \in Calls : call[j].phase = "idle") /\ \A d \in Components : Settled(d)
    BY <1>3, <1>9, QuietBefore
  <2>2. \A d \in Components : \A b \in bindings[d] :
          providers[b[1]] = b[2] => b[1] \in Providers /\ b[1] # p
    <3>1. \A d \in Components : \A b \in bindings[d] : b[1] \in Providers /\ b[2] # 0
      BY NumbersAssumption DEF IInv, Typed, Instances
    <3> QED
      BY <1>3, <3>1
  <2>3. \A d \in Components : Settled(d)'
    BY <1>3, <1>6, <2>1, <2>2 DEF Settled, FitTo
  <2> QED
    BY <2>1, <2>3
<1>10. /\ \A d \in Components : InScope(d, bindings'[d])
       /\ SerialInv => /\ \A d \in Components : \A l \in leases'[d] : l[1] = d
                       /\ \A l \in held' : l \in leases'[l[1]] \/ l \in reported'
  BY <1>3 DEF IInv, ScopeInv, SerialInv
<1>11. /\ q \in Operation /\ WellFormed(q)
       /\ q.phase \in {"evaluate", "authorize", "loading"} => InScope(q.comp, q.bind)
  BY <1>7 DEF About
<1> QED
  BY <1>3, <1>4, <1>6, <1>8, <1>9, <1>10, <1>11, StepKeeps DEF IInv, Typed

\* The loop of a withdrawal goes on, or ends: whoever is bound to the provider
\* is suspended now or waits for the loop.
LEMMA SuspendKeeps ==
  ASSUME IInv, NEW k \in Calls, NEW r \in Operation, r.op = "withdraw", r.n \in 1..MaxOps,
         SuspendNext(k, r),
         UNCHANGED <<env, bindings, leases, held, reported>>,
         providers' \in [Providers -> 0..MaxOps], ops' \in 0..MaxOps,
         Serial /\ SerialInv =>
           /\ \A j \in Calls : j # k => call[j].phase = "idle"
           /\ \A c \in Components :
                \/ /\ state[c] = "ACTIVE" => FitTo(providers', c, bindings[c])
                   /\ bindings[c] # {} \/ leases[c] # {} => state[c] = "ACTIVE"
                \/ c \in r.todo /\ BoundTo(c, r.id)
  PROVE  IInv'
<1>1. /\ \A d \in Components : InScope(d, bindings'[d])
      /\ SerialInv => /\ \A d \in Components : \A l \in leases'[d] : l[1] = d
                      /\ \A l \in held' : l \in leases'[l[1]] \/ l \in reported'
      /\ state \in [Components -> States]
  BY DEF IInv, ScopeInv, SerialInv, Typed
<1>2. CASE /\ call' = [call EXCEPT ![k] = Idle] /\ state' = state
           /\ \A c \in r.todo : ~BoundTo(c, r.id)
  <2>1. Serial /\ SerialInv => \A c \in Components : Settled(c)'
    BY <1>2 DEF Settled
  <2>2. Prepared(Idle)'
    BY IdleIs DEF Prepared
  <2> QED
    BY <1>1, <1>2, <2>1, <2>2, IdleIs, StepKeeps DEF IInv, Typed
<1>3. ASSUME NEW q \in Operation,
             call' = [call EXCEPT ![k] = q],
             state' = [state EXCEPT ![q.comp] = "SUSPENDED"],
             WellFormed(q), q.phase = "suspended", q.id = r.id,
             \A c \in r.todo : BoundTo(c, r.id) => c = q.comp \/ c \in q.todo
      PROVE  IInv'
  <2>1. q.comp \in Components
    BY <1>3 DEF WellFormed
  <2>2. /\ state' \in [Components -> States]
        /\ \A c \in Components : c # q.comp => state'[c] = state[c]
    BY <1>1, <1>3, <2>1 DEF States
  <2>3. Serial /\ SerialInv => \A c \in Components : Settled(c)' \/ ExcusedBy(q, c)'
    <3>1. \A c \in Components : BoundTo(c, r.id)' <=> BoundTo(c, r.id)
      BY DEF BoundTo
    <3>2. ExcusedBy(q, q.comp)'
      BY <1>3 DEF ExcusedBy
    <3> QED
      BY <1>3, <2>2, <3>1, <3>2 DEF Settled, ExcusedBy, Withdrawing
  <2>4. Prepared(q)'
    BY <1>3 DEF Prepared
  <2> QED
    BY <1>1, <1>3, <2>2, <2>3, <2>4, StepKeeps DEF IInv, Typed
<1> QED
  BY <1>2, <1>3, SuspendNextIs

LEMMA UnregisterProviderKeeps ==
  ASSUME IInv, NEW k \in Calls, NEW p \in Providers, UnregisterProvider(k, p)
  PROVE  IInv'
<1> DEFINE r == [Idle EXCEPT !.op = "withdraw", !.n = ops', !.id = p, !.todo = Registered]
<1>1. /\ Begins(k) /\ providers' = [providers EXCEPT ![p] = 0] /\ SuspendNext(k, r)
      /\ UNCHANGED <<env, bindings, leases, held, reported>>
  BY DEF UnregisterProvider
<1>2. /\ ops' \in 1..MaxOps /\ ops' \in 0..MaxOps /\ p \in 0..NProviders
      /\ providers \in [Providers -> 0..MaxOps]
      /\ Registered \subseteq Components
  BY <1>1, BeginsIs, NumbersAssumption DEF Providers, Registered, IInv, Typed
<1>3. /\ r \in Operation /\ r.op = "withdraw" /\ r.n = ops' /\ r.id = p /\ r.todo = Registered
  BY <1>2, IdleIs DEF Operation
<1> HIDE DEF r
<1>4. /\ providers' \in [Providers -> 0..MaxOps]
      /\ \A s \in Providers : s # p => providers'[s] = providers[s]
  <2>1. 0 \in 0..MaxOps
    BY NumbersAssumption
  <2> QED
    BY <1>1, <1>2, <2>1
<1>5. ASSUME Serial, SerialInv
      PROVE  /\ \A j \in Calls : j # k => call[j].phase = "idle"
             /\ \A c \in Components :
                  \/ /\ state[c] = "ACTIVE" => FitTo(providers', c, bindings[c])
                     /\ bindings[c] # {} \/ leases[c] # {} => state[c] = "ACTIVE"
                  \/ c \in r.todo /\ BoundTo(c, r.id)
  <2>1. (\A j \in Calls : call[j].phase = "idle") /\ \A c \in Components : Settled(c)
    BY <1>1, <1>5, QuietBefore
  <2>2. ASSUME NEW c \in Components, BoundTo(c, p) PROVE c \in Registered
    BY <2>1, <2>2 DEF BoundTo, Settled, Registered
  <2>3. ASSUME NEW c \in Components, ~BoundTo(c, p), state[c] = "ACTIVE"
        PROVE  FitTo(providers', c, bindings[c])
    <3>1. \A b \in bindings[c] : b[1] \in Providers /\ b[1] # p
      BY <2>3 DEF BoundTo, IInv, Typed, Instances
    <3> QED
      BY <1>4, <2>1, <2>3, <3>1 DEF Settled, FitTo
  <2> QED
    BY <1>3, <2>1, <2>2, <2>3 DEF Settled
<1> QED
  BY <1>1, <1>2, <1>3, <1>4, <1>5, SuspendKeeps

\* An operation that moves to another phase and keeps the rest.
Moved(r, phase) == [r EXCEPT !.phase = phase]

LEMMA PhaseIs ==
  ASSUME IInv, NEW k \in Calls, NEW phase \in Phases, call[k].phase # "idle",
         call[k].phase # "next",
         phase \in Activating => call[k].phase \in Activating,
         phase \in Withdrawing => call[k].phase \in Withdrawing,
         NEW q, q = Moved(call[k], phase)
  PROVE  /\ q \in Operation /\ WellFormed(q) /\ q.phase = phase
         /\ q.op = call[k].op /\ q.n = call[k].n /\ q.id = call[k].id /\ q.comp = call[k].comp
         /\ q.todo = call[k].todo /\ q.bind = call[k].bind /\ q.owned = call[k].owned
         /\ q.comp \in Components
<1>1. call[k] \in Operation /\ WellFormed(call[k])
  BY DEF IInv, Typed
<1>2. /\ q \in Operation /\ q.phase = phase
      /\ q.op = call[k].op /\ q.n = call[k].n /\ q.id = call[k].id /\ q.comp = call[k].comp
      /\ q.todo = call[k].todo /\ q.bind = call[k].bind /\ q.owned = call[k].owned
  BY <1>1 DEF Operation, Moved
<1>3. WellFormed(q) /\ q.comp \in Components
  BY <1>1, <1>2 DEF WellFormed, Activating, Withdrawing
<1> QED
  BY <1>2, <1>3

\* A component that is not being activated or unloaded is settled.
LEMMA ActivatingIs ==
  ASSUME SerialInv, NEW k \in Calls, call[k].phase \in Activating, call[k].phase # "acquire"
  PROVE  /\ \A j \in Calls : j # k => call[j].phase = "idle"
         /\ \A c \in Components : Settled(c)
         /\ Prepared(call[k])
<1>1. \A c \in Components : ~ExcusedBy(call[k], c)
  BY DEF ExcusedBy, Activating, Withdrawing
<1> QED
  BY <1>1, AloneIs DEF Activating

\* A step that only moves an operation on.
LEMMA CallKeeps ==
  ASSUME IInv, NEW k \in Calls, call[k].phase # "idle", NEW q \in Operation, WellFormed(q),
         call' = [call EXCEPT ![k] = q],
         UNCHANGED <<env, providers, state, ops, Entries>>,
         q.phase \in {"evaluate", "authorize", "loading"} => InScope(q.comp, q.bind),
         Serial /\ SerialInv =>
           /\ \A c \in Components : ExcusedBy(call[k], c) => ExcusedBy(q, c)
           /\ Prepared(q)
  PROVE  IInv'
<1>1. UNCHANGED <<bindings, leases, held, reported>>
  BY DEF Entries
<1>2. /\ \A d \in Components : InScope(d, bindings'[d])
      /\ SerialInv => /\ \A d \in Components : \A l \in leases'[d] : l[1] = d
                      /\ \A l \in held' : l \in leases'[l[1]] \/ l \in reported'
  BY <1>1 DEF IInv, ScopeInv, SerialInv
<1>3. ASSUME Serial, SerialInv
      PROVE  /\ \A j \in Calls : j # k => call[j].phase = "idle"
             /\ \A c \in Components : Settled(c)' \/ ExcusedBy(q, c)'
             /\ Prepared(q)'
  <2>1. /\ \A j \in Calls : j # k => call[j].phase = "idle"
        /\ \A c \in Components : Settled(c) \/ ExcusedBy(call[k], c)
    BY <1>3, AloneIs
  <2>2. \A c \in Components : Settled(c) => Settled(c)'
    BY <1>1 DEF Settled
  <2>3. \A c \in Components : ExcusedBy(q, c) => ExcusedBy(q, c)'
    BY <1>1 DEF ExcusedBy, BoundTo
  <2>4. Prepared(q)'
    BY <1>1, <1>3 DEF Prepared
  <2> QED
    BY <1>3, <2>1, <2>2, <2>3, <2>4
<1> QED
  BY <1>1, <1>2, <1>3, StepKeeps DEF IInv, Typed

LEMMA TakeNextKeeps ==
  ASSUME IInv, NEW k \in Calls, TakeNext(k)
  PROVE  IInv'
<1>1. PICK q : q = IF call[k].op = "provider" THEN Looping(call[k], providers) ELSE Idle
  OBVIOUS
<1>2. /\ call[k].phase = "next" /\ call' = [call EXCEPT ![k] = q]
      /\ UNCHANGED <<env, providers, state, ops, Entries>>
  BY <1>1 DEF TakeNext, At
<1>3. call[k] \in Operation /\ WellFormed(call[k]) /\ providers \in [Providers -> 0..MaxOps]
  BY DEF IInv, Typed
<1>4. About(q, providers)
  <2>1. CASE call[k].op = "provider"
    <3>1. call[k].n \in 1..MaxOps
      BY <1>2, <1>3 DEF WellFormed
    <3> QED
      BY <1>1, <1>3, <2>1, <3>1, LoopingIs
  <2>2. CASE call[k].op # "provider"
    BY <1>1, <2>2, IdleIs DEF About
  <2> QED
    BY <2>1, <2>2
<1>5. \A c \in Components : ~ExcusedBy(call[k], c)
  BY <1>2 DEF ExcusedBy, Withdrawing
<1>6. Prepared(q)
  BY <1>4 DEF Prepared, About
<1>7. /\ q \in Operation /\ WellFormed(q)
      /\ q.phase \in {"evaluate", "authorize", "loading"} => InScope(q.comp, q.bind)
  BY <1>4 DEF About
<1> QED
  BY <1>2, <1>5, <1>6, <1>7, CallKeeps

LEMMA ApplicableKeeps ==
  ASSUME IInv, NEW k \in Calls, Applicable(k)
  PROVE  IInv'
<1>1. PICK q : q = Moved(call[k], "authorize")
  OBVIOUS
<1>2. /\ call[k].phase = "evaluate" /\ call' = [call EXCEPT ![k] = q]
      /\ UNCHANGED <<env, providers, state, ops, Entries>>
  BY <1>1 DEF Applicable, At, Moved
<1>3. /\ q \in Operation /\ WellFormed(q) /\ q.phase = "authorize"
      /\ q.comp = call[k].comp /\ q.bind = call[k].bind
  <2>1. /\ "authorize" \in Phases /\ call[k].phase # "idle" /\ call[k].phase # "next"
        /\ call[k].phase \in Activating /\ "authorize" \notin Withdrawing
    BY <1>2 DEF Activating, Withdrawing, Phases, AtSink
  <2> QED
    BY <1>1, <1>2, <2>1, PhaseIs
<1>4. InScope(q.comp, q.bind)
  BY <1>2, <1>3 DEF IInv, ScopeInv
<1>5. \A c \in Components : ~ExcusedBy(call[k], c)
  BY <1>2 DEF ExcusedBy, Withdrawing
<1>6. SerialInv => Prepared(q)
  BY <1>2, <1>3 DEF SerialInv, Prepared
<1> QED
  BY <1>2, <1>3, <1>4, <1>5, <1>6, CallKeeps

LEMMA EvaluatorThrowsKeeps ==
  ASSUME IInv, NEW k \in Calls, EvaluatorThrows(k)
  PROVE  IInv'
<1>1. /\ call[k].phase \in {"evaluate", "authorize"} /\ call' = [call EXCEPT ![k] = Idle]
      /\ UNCHANGED <<env, providers, state, ops, Entries>>
  BY DEF EvaluatorThrows, At
<1>2. \A c \in Components : ~ExcusedBy(call[k], c)
  BY <1>1 DEF ExcusedBy, Withdrawing
<1>3. Prepared(Idle)
  BY IdleIs DEF Prepared
<1> QED
  BY <1>1, <1>2, <1>3, IdleIs, CallKeeps

\* A step that moves the component at hand to another lifecycle state, and
\* leaves every entry alone.
LEMMA TransitionKeeps ==
  ASSUME IInv, NEW k \in Calls, NEW q \in Operation, WellFormed(q),
         NEW to \in States, NEW c \in Components, q.comp = c,
         call' = [call EXCEPT ![k] = q], state' = [state EXCEPT ![c] = to],
         UNCHANGED <<env, providers, ops, Entries>>,
         q.phase \in {"evaluate", "authorize", "loading"} => InScope(c, q.bind),
         Serial /\ SerialInv =>
           /\ \A j \in Calls : j # k => call[j].phase = "idle"
           /\ \A d \in Components : d # c => Settled(d) \/ ExcusedBy(q, d)
           /\ Settled(c)' \/ ExcusedBy(q, c)
           /\ Prepared(q)'
  PROVE  IInv'
<1>1. UNCHANGED <<bindings, leases, held, reported>>
  BY DEF Entries
<1>2. /\ \A d \in Components : InScope(d, bindings'[d])
      /\ SerialInv => /\ \A d \in Components : \A l \in leases'[d] : l[1] = d
                      /\ \A l \in held' : l \in leases'[l[1]] \/ l \in reported'
  BY <1>1 DEF IInv, ScopeInv, SerialInv
<1>3. /\ state' \in [Components -> States]
      /\ \A d \in Components : d # c => state'[d] = state[d]
  BY DEF IInv, Typed
<1>4. ASSUME Serial, SerialInv
      PROVE  /\ \A j \in Calls : j # k => call[j].phase = "idle"
             /\ \A d \in Components : Settled(d)' \/ ExcusedBy(q, d)'
             /\ Prepared(q)'
  <2>1. \A d \in Components : d # c /\ Settled(d) => Settled(d)'
    BY <1>1, <1>3 DEF Settled
  <2>2. \A d \in Components : ExcusedBy(q, d) => ExcusedBy(q, d)'
    BY <1>1 DEF ExcusedBy, BoundTo
  <2> QED
    BY <1>4, <2>1, <2>2
<1> QED
  BY <1>1, <1>2, <1>3, <1>4, StepKeeps DEF IInv, Typed

LEMMA RefusedKeeps ==
  ASSUME IInv, NEW k \in Calls, Refused(k)
  PROVE  IInv'
<1>1. PICK q : q = Moved(call[k], "refused")
  OBVIOUS
<1>2. /\ call[k].phase \in {"evaluate", "authorize"} /\ call' = [call EXCEPT ![k] = q]
      /\ state' = [state EXCEPT ![call[k].comp] = "PENDING"]
      /\ UNCHANGED <<env, providers, ops, Entries>>
  BY <1>1 DEF Refused, At, Transition, Moved
<1>3. /\ q \in Operation /\ WellFormed(q) /\ q.phase = "refused"
      /\ q.comp = call[k].comp /\ q.comp \in Components
  <2>1. /\ "refused" \in Phases /\ call[k].phase # "idle" /\ call[k].phase # "next"
        /\ call[k].phase \in Activating /\ "refused" \notin Withdrawing
    BY <1>2 DEF Activating, Withdrawing, Phases, AtSink
  <2> QED
    BY <1>1, <1>2, <2>1, PhaseIs
<1>4. Prepared(q)'
  BY <1>3 DEF Prepared
<1>5. ASSUME Serial, SerialInv
      PROVE  /\ \A j \in Calls : j # k => call[j].phase = "idle"
             /\ \A d \in Components : Settled(d)
             /\ Settled(q.comp)'
  <2>1. /\ \A j \in Calls : j # k => call[j].phase = "idle"
        /\ \A d \in Components : Settled(d)
        /\ Prepared(call[k])
    BY <1>2, <1>5, ActivatingIs DEF Activating
  <2>2. state[q.comp] = "PENDING"
    BY <1>2, <1>3, <2>1 DEF Prepared
  <2>3. state' = state /\ UNCHANGED <<bindings, leases, providers>>
    BY <1>2, <1>3, <2>2 DEF IInv, Typed, Entries
  <2>4. Settled(q.comp)'
    BY <1>3, <2>1, <2>3 DEF Settled
  <2> QED
    BY <2>1, <2>4
<1>6. "PENDING" \in States
  BY DEF States
<1> QED
  BY <1>2, <1>3, <1>4, <1>5, <1>6, TransitionKeeps

LEMMA AuthorizedKeeps ==
  ASSUME IInv, NEW k \in Calls, Authorized(k)
  PROVE  IInv'
<1>1. PICK q : q = Moved(call[k], "loading")
  OBVIOUS
<1>2. /\ call[k].phase = "authorize" /\ call' = [call EXCEPT ![k] = q]
      /\ state' = [state EXCEPT ![call[k].comp] = "LOADING"]
      /\ UNCHANGED <<env, providers, ops, Entries>>
  BY <1>1 DEF Authorized, At, Transition, Moved
<1>3. /\ q \in Operation /\ WellFormed(q) /\ q.phase = "loading"
      /\ q.comp = call[k].comp /\ q.bind = call[k].bind /\ q.comp \in Components
  <2>1. /\ "loading" \in Phases /\ call[k].phase # "idle" /\ call[k].phase # "next"
        /\ call[k].phase \in Activating /\ "loading" \notin Withdrawing
    BY <1>2 DEF Activating, Withdrawing, Phases, AtSink
  <2> QED
    BY <1>1, <1>2, <2>1, PhaseIs
<1>4. InScope(q.comp, q.bind)
  BY <1>2, <1>3 DEF IInv, ScopeInv
<1>5. state'[q.comp] = "LOADING" /\ UNCHANGED <<bindings, leases, providers>>
  BY <1>2, <1>3 DEF IInv, Typed, Entries
<1>6. ASSUME Serial, SerialInv
      PROVE  /\ \A j \in Calls : j # k => call[j].phase = "idle"
             /\ \A d \in Components : Settled(d)
             /\ Settled(q.comp)' /\ Prepared(q)'
  <2>1. /\ \A j \in Calls : j # k => call[j].phase = "idle"
        /\ \A d \in Components : Settled(d)
        /\ Prepared(call[k])
    BY <1>2, <1>6, ActivatingIs DEF Activating
  <2>2. state[q.comp] = "PENDING" /\ FitTo(providers, q.comp, q.bind)
    BY <1>2, <1>3, <2>1 DEF Prepared
  <2>3. Settled(q.comp)'
    BY <1>3, <1>5, <2>1, <2>2 DEF Settled
  <2>4. Prepared(q)'
    BY <1>3, <1>5, <2>2 DEF Prepared
  <2> QED
    BY <2>1, <2>3, <2>4
<1>7. "LOADING" \in States
  BY DEF States
<1> QED
  BY <1>2, <1>3, <1>4, <1>6, <1>7, TransitionKeeps

\* A step that gives the component at hand another entry.
LEMMA EntryKeeps ==
  ASSUME IInv, NEW k \in Calls, NEW q \in Operation, WellFormed(q),
         NEW to \in States, NEW c \in Components, q.comp = c,
         NEW B \in SUBSET Instances, NEW L \in SUBSET Leases, InScope(c, B),
         call' = [call EXCEPT ![k] = q], state' = [state EXCEPT ![c] = to],
         bindings' = [bindings EXCEPT ![c] = B], leases' = [leases EXCEPT ![c] = L],
         UNCHANGED <<env, providers, ops>>, held' \subseteq Leases, reported' \subseteq Leases,
         q.phase \notin {"evaluate", "authorize", "loading"},
         Serial /\ SerialInv =>
           /\ \A j \in Calls : j # k => call[j].phase = "idle"
           /\ \A d \in Components : d # c => Settled(d) \/ ExcusedBy(q, d)
           /\ Settled(c)' \/ ExcusedBy(q, c)'
           /\ Prepared(q)'
           /\ \A l \in L : l[1] = c
           /\ \A l \in held' : l \in L \/ l \in reported' \/ (l[1] # c /\ l \in leases[l[1]])
  PROVE  IInv'
<1>1. /\ state \in [Components -> States] /\ bindings \in [Components -> SUBSET Instances]
      /\ leases \in [Components -> SUBSET Leases]
  BY DEF IInv, Typed
<1>2. /\ state' \in [Components -> States] /\ bindings' \in [Components -> SUBSET Instances]
      /\ leases' \in [Components -> SUBSET Leases]
      /\ bindings'[c] = B /\ leases'[c] = L
      /\ \A d \in Components : d # c =>
           state'[d] = state[d] /\ bindings'[d] = bindings[d] /\ leases'[d] = leases[d]
  BY <1>1
<1>3. \A d \in Components : InScope(d, bindings'[d])
  BY <1>2 DEF IInv, ScopeInv
<1>4. ASSUME Serial, SerialInv
      PROVE  /\ \A j \in Calls : j # k => call[j].phase = "idle"
             /\ \A d \in Components : Settled(d)' \/ ExcusedBy(q, d)'
             /\ Prepared(q)'
             /\ \A d \in Components : \A l \in leases'[d] : l[1] = d
             /\ \A l \in held' : l \in leases'[l[1]] \/ l \in reported'
  <2>1. \A d \in Components : d # c /\ Settled(d) => Settled(d)'
    BY <1>2 DEF Settled
  <2>2. \A d \in Components : d # c /\ ExcusedBy(q, d) => ExcusedBy(q, d)'
    BY <1>2 DEF ExcusedBy, BoundTo
  <2>3. \A d \in Components : \A l \in leases'[d] : l[1] = d
    BY <1>2, <1>4 DEF SerialInv
  <2>4. \A l \in held' : l \in leases'[l[1]] \/ l \in reported'
    <3>1. \A l \in held' : l[1] \in Components
      BY DEF Leases
    <3> QED
      BY <1>2, <1>4, <3>1
  <2> QED
    BY <1>4, <2>1, <2>2, <2>3, <2>4
<1> QED
  BY <1>2, <1>3, <1>4, StepKeeps DEF IInv, Typed

\* Where the leases held are, seen from one component.
LEMMA HeldIs ==
  ASSUME SerialInv, NEW c
  PROVE  \A m \in held :
           m \in leases[c] \/ m \in reported \/ (m[1] # c /\ m \in leases[m[1]])
<1> SUFFICES ASSUME NEW m \in held
             PROVE  m \in leases[c] \/ m \in reported \/ (m[1] # c /\ m \in leases[m[1]])
  OBVIOUS
<1>1. m \in leases[m[1]] \/ m \in reported
  BY DEF SerialInv
<1>2. m[1] = c => leases[m[1]] = leases[c]
  OBVIOUS
<1> QED
  BY <1>1, <1>2

LEMMA AcquiredKeeps ==
  ASSUME IInv, NEW k \in Calls, Acquired(k)
  PROVE  IInv'
<1>1. PICK q : q = Moved(call[k], "activated")
  OBVIOUS
<1>2. PICK c : c = call[k].comp
  OBVIOUS
<1>3. PICK l : l = <<c, call[k].n>>
  OBVIOUS
<1>4. /\ call[k].phase = "acquire" /\ call' = [call EXCEPT ![k] = q]
      /\ state' = [state EXCEPT ![c] = "ACTIVE"]
      /\ leases' = [leases EXCEPT ![c] = {l}] /\ held' = held \union {l}
      /\ UNCHANGED <<env, providers, bindings, ops, reported>>
  BY <1>1, <1>2, <1>3 DEF Acquired, At, Transition, Moved
<1>5. q \in Operation /\ WellFormed(q) /\ q.phase = "activated" /\ q.comp = c /\ c \in Components
  <2>1. /\ "activated" \in Phases /\ call[k].phase # "idle" /\ call[k].phase # "next"
        /\ call[k].phase \in Activating /\ "activated" \notin Withdrawing
    BY <1>4 DEF Activating, Withdrawing, Phases, AtSink
  <2> QED
    BY <1>1, <1>2, <2>1, PhaseIs
<1>6. l \in Leases /\ l[1] = c
  <2>1. call[k].n \in 1..MaxOps
    BY <1>4 DEF IInv, Typed, WellFormed
  <2> QED
    BY <1>3, <1>5, <2>1 DEF Leases
<1>7. /\ bindings[c] \in SUBSET Instances /\ InScope(c, bindings[c])
      /\ bindings' = [bindings EXCEPT ![c] = bindings[c]]
      /\ held' \subseteq Leases /\ reported' \subseteq Leases
      /\ state'[c] = "ACTIVE"
  BY <1>4, <1>5, <1>6 DEF IInv, Typed, ScopeInv
<1>8. ASSUME Serial, SerialInv
      PROVE  /\ \A j \in Calls : j # k => call[j].phase = "idle"
             /\ \A d \in Components : d # c => Settled(d)
             /\ Settled(c)'
             /\ \A m \in held' : m \in {l} \/ m \in reported' \/ (m[1] # c /\ m \in leases[m[1]])
  <2>1. /\ \A j \in Calls : j # k => call[j].phase = "idle"
        /\ \A d \in Components : Settled(d) \/ ExcusedBy(call[k], d)
        /\ Prepared(call[k])
    BY <1>4, <1>8, AloneIs
  <2>2. \A d \in Components : d # c => ~ExcusedBy(call[k], d)
    BY <1>2, <1>4 DEF ExcusedBy, Withdrawing
  <2>3. leases[c] = {} /\ FitTo(providers, c, bindings[c])
    BY <1>2, <1>4, <2>1 DEF Prepared
  <2>4. Settled(c)'
    BY <1>4, <1>7, <2>3 DEF Settled
  <2>5. \A m \in held : m \in reported \/ (m[1] # c /\ m \in leases[m[1]])
    BY <1>8, <2>3, HeldIs
  <2>6. \A m \in held' : m \in {l} \/ m \in reported' \/ (m[1] # c /\ m \in leases[m[1]])
    BY <1>4, <2>5
  <2> QED
    BY <2>1, <2>2, <2>4, <2>6
<1>9. Prepared(q)'
  BY <1>5 DEF Prepared
<1>10. "ACTIVE" \in States /\ {l} \in SUBSET Leases
  BY <1>6 DEF States
<1> QED
  BY <1>4, <1>5, <1>6, <1>7, <1>8, <1>9, <1>10, EntryKeeps

\* The catch of #reconcile: while it acquires, and while an activation that has
\* acquired awaits the sink; the latter only with a sink that may throw.
LEMMA FailingKeeps ==
  ASSUME IInv, NEW k \in Calls, Failing(k),
         call[k].phase = "acquire" \/ (call[k].phase = "activated" /\ ~Serial)
  PROVE  IInv'
<1>1. PICK q : q = Moved(call[k], "failed")
  OBVIOUS
<1>2. PICK c : c = call[k].comp
  OBVIOUS
<1>3. /\ call' = [call EXCEPT ![k] = q] /\ state' = [state EXCEPT ![c] = "FAILED"]
      /\ bindings' = [bindings EXCEPT ![c] = {}] /\ leases' = [leases EXCEPT ![c] = {}]
      /\ UNCHANGED <<env, providers, ops, held, reported>>
  BY <1>1, <1>2 DEF Failing, Transition, Moved
<1>4. q \in Operation /\ WellFormed(q) /\ q.phase = "failed" /\ q.comp = c /\ c \in Components
  <2>1. /\ "failed" \in Phases /\ call[k].phase # "idle" /\ call[k].phase # "next"
        /\ call[k].phase \in Activating /\ "failed" \notin Withdrawing
    BY DEF Activating, Withdrawing, Phases, AtSink
  <2> QED
    BY <1>1, <1>2, <2>1, PhaseIs
<1>5. InScope(c, {}) /\ {} \in SUBSET Instances /\ {} \in SUBSET Leases /\ "FAILED" \in States
  BY DEF InScope, States
<1>6. /\ held' \subseteq Leases /\ reported' \subseteq Leases
      /\ state'[c] = "FAILED" /\ bindings'[c] = {} /\ leases'[c] = {}
  BY <1>3, <1>4 DEF IInv, Typed
<1>7. ASSUME Serial, SerialInv
      PROVE  /\ \A j \in Calls : j # k => call[j].phase = "idle"
             /\ \A d \in Components : d # c => Settled(d)
             /\ Settled(c)'
             /\ \A m \in held' : m \in reported' \/ (m[1] # c /\ m \in leases[m[1]])
  <2>1. /\ call[k].phase = "acquire"
        /\ \A j \in Calls : j # k => call[j].phase = "idle"
        /\ \A d \in Components : Settled(d) \/ ExcusedBy(call[k], d)
        /\ Prepared(call[k])
    BY <1>7, AloneIs
  <2>2. \A d \in Components : d # c => ~ExcusedBy(call[k], d)
    BY <1>2, <2>1 DEF ExcusedBy, Withdrawing
  <2>3. leases[c] = {}
    BY <1>2, <2>1 DEF Prepared
  <2>4. Settled(c)'
    BY <1>6 DEF Settled
  <2>5. \A m \in held : m \in reported \/ (m[1] # c /\ m \in leases[m[1]])
    BY <1>7, <2>3, HeldIs
  <2> QED
    BY <1>3, <2>1, <2>2, <2>4, <2>5
<1>8. Prepared(q)'
  BY <1>4 DEF Prepared
<1> QED
  BY <1>3, <1>4, <1>5, <1>6, <1>7, <1>8, EntryKeeps

LEMMA SinkThrowsKeeps ==
  ASSUME IInv, NEW k \in Calls, SinkThrows(k)
  PROVE  IInv'
<1>1. call[k].phase \in AtSink /\ ~Serial
  BY DEF SinkThrows, Serial
<1>2. CASE call[k].phase = "activated"
  BY <1>1, <1>2, FailingKeeps DEF SinkThrows, At
<1>3. CASE call[k].phase # "activated"
  <2>1. /\ call' = [call EXCEPT ![k] = Idle] /\ call[k].phase # "idle"
        /\ UNCHANGED <<env, providers, state, ops, Entries>>
    BY <1>1, <1>3 DEF SinkThrows, At, AtSink
  <2> QED
    BY <1>1, <2>1, IdleIs, CallKeeps
<1> QED
  BY <1>2, <1>3

\* The sink of a registration resolves: the component is reconciled.
LEMMA RegisteredKeeps ==
  ASSUME IInv, NEW k \in Calls, call[k].phase = "registered",
         call' = [call EXCEPT ![k] = Reconciling(call[k], call[k].comp, providers)],
         UNCHANGED <<env, providers, state, ops, Entries>>
  PROVE  IInv'
<1>1. PICK q : q = Reconciling(call[k], call[k].comp, providers)
  OBVIOUS
<1>2. call[k] \in Operation /\ WellFormed(call[k]) /\ providers \in [Providers -> 0..MaxOps]
  BY DEF IInv, Typed
<1>3. call[k].comp \in Components /\ call[k].op # "withdraw" /\ call[k].n \in 1..MaxOps
  BY <1>2 DEF WellFormed, Activating
<1>4. About(q, providers)
  BY <1>1, <1>2, <1>3, ReconcilingIs
<1>5. \A c \in Components : ~ExcusedBy(call[k], c)
  BY DEF ExcusedBy, Withdrawing
<1>6. Prepared(q)
  BY <1>4 DEF Prepared, About
<1>7. /\ q \in Operation /\ WellFormed(q)
      /\ q.phase \in {"evaluate", "authorize", "loading"} => InScope(q.comp, q.bind)
  BY <1>4 DEF About
<1> QED
  BY <1>1, <1>5, <1>6, <1>7, CallKeeps

\* The sink of the last transition of an activation resolves.
LEMMA EndedKeeps ==
  ASSUME IInv, NEW k \in Calls, call[k].phase \in {"refused", "activated", "failed"},
         call' = [call EXCEPT ![k].phase = "next"],
         UNCHANGED <<env, providers, state, ops, Entries>>
  PROVE  IInv'
<1>1. PICK q : q = Moved(call[k], "next")
  OBVIOUS
<1>2. call' = [call EXCEPT ![k] = q]
  BY <1>1 DEF Moved
<1>3. q \in Operation /\ WellFormed(q) /\ q.phase = "next"
  <2>1. /\ "next" \in Phases /\ call[k].phase # "idle" /\ call[k].phase # "next"
        /\ call[k].phase \in Activating /\ "next" \notin Withdrawing
    BY DEF Activating, Withdrawing, Phases
  <2> QED
    BY <1>1, <2>1, PhaseIs
<1>4. \A c \in Components : ~ExcusedBy(call[k], c)
  BY DEF ExcusedBy, Withdrawing
<1>5. Prepared(q)
  BY <1>3 DEF Prepared
<1> QED
  BY <1>2, <1>3, <1>4, <1>5, CallKeeps

\* A component is bound to what it was resolved to, and acquires.
LEMMA BoundKeeps ==
  ASSUME IInv, NEW k \in Calls, call[k].phase = "loading",
         bindings' = [bindings EXCEPT ![call[k].comp] = call[k].bind],
         call' = [call EXCEPT ![k].phase = "acquire"],
         UNCHANGED <<env, providers, state, ops, leases, held, reported>>
  PROVE  IInv'
<1>1. PICK q : q = Moved(call[k], "acquire")
  OBVIOUS
<1>2. PICK c : c = call[k].comp
  OBVIOUS
<1>3. PICK B : B = call[k].bind
  OBVIOUS
<1>4. call' = [call EXCEPT ![k] = q] /\ bindings' = [bindings EXCEPT ![c] = B]
  BY <1>1, <1>2, <1>3 DEF Moved
<1>5. q \in Operation /\ WellFormed(q) /\ q.phase = "acquire" /\ q.comp = c /\ c \in Components
  <2>1. /\ "acquire" \in Phases /\ call[k].phase # "idle" /\ call[k].phase # "next"
        /\ call[k].phase \in Activating /\ "acquire" \notin Withdrawing
    BY DEF Activating, Withdrawing, Phases
  <2> QED
    BY <1>1, <1>2, <2>1, PhaseIs
<1>6. /\ bindings \in [Components -> SUBSET Instances] /\ B \in SUBSET Instances
      /\ InScope(c, B)
  <2>1. bindings \in [Components -> SUBSET Instances] /\ call[k] \in Operation
    BY DEF IInv, Typed
  <2>2. B \in SUBSET Instances
    BY <1>3, <2>1 DEF Operation
  <2>3. InScope(c, B)
    BY <1>2, <1>3 DEF IInv, ScopeInv
  <2> QED
    BY <2>1, <2>2, <2>3
<1>7. /\ bindings' \in [Components -> SUBSET Instances] /\ bindings'[c] = B
      /\ \A d \in Components : d # c => bindings'[d] = bindings[d]
  BY <1>4, <1>5, <1>6
<1>8. \A d \in Components : InScope(d, bindings'[d])
  BY <1>6, <1>7 DEF IInv, ScopeInv
<1>9. ASSUME Serial, SerialInv
      PROVE  /\ \A j \in Calls : j # k => call[j].phase = "idle"
             /\ \A d \in Components : Settled(d)' \/ ExcusedBy(q, d)'
             /\ Prepared(q)'
             /\ \A d \in Components : \A l \in leases'[d] : l[1] = d
             /\ \A l \in held' : l \in leases'[l[1]] \/ l \in reported'
  <2>1. /\ \A j \in Calls : j # k => call[j].phase = "idle"
        /\ \A d \in Components : Settled(d)
        /\ Prepared(call[k])
    BY <1>9, ActivatingIs DEF Activating
  <2>2. state[c] = "LOADING" /\ FitTo(providers, c, B)
    BY <1>2, <1>3, <2>1 DEF Prepared
  <2>3. leases[c] = {}
    BY <1>5, <2>1, <2>2 DEF Settled
  <2>4. Prepared(q)'
    BY <1>5, <1>7, <2>2, <2>3 DEF Prepared
  <2>5. ExcusedBy(q, c)'
    BY <1>5 DEF ExcusedBy
  <2>6. \A d \in Components : d # c => Settled(d)'
    BY <1>7, <2>1 DEF Settled
  <2> QED
    BY <1>9, <2>1, <2>4, <2>5, <2>6 DEF SerialInv
<1> QED
  BY <1>4, <1>5, <1>7, <1>8, <1>9, StepKeeps DEF IInv, Typed

\* A suspended component begins to unload.
LEMMA UnloadingKeeps ==
  ASSUME IInv, NEW k \in Calls, call[k].phase = "suspended",
         Transition(k, "UNLOADING", "unloading"),
         UNCHANGED <<env, providers, ops, Entries>>
  PROVE  IInv'
<1>1. PICK q : q = Moved(call[k], "unloading")
  OBVIOUS
<1>2. PICK c : c = call[k].comp
  OBVIOUS
<1>3. call' = [call EXCEPT ![k] = q] /\ state' = [state EXCEPT ![c] = "UNLOADING"]
  BY <1>1, <1>2 DEF Transition, Moved
<1>4. /\ q \in Operation /\ WellFormed(q) /\ q.phase = "unloading" /\ q.comp = c
      /\ c \in Components /\ q.todo = call[k].todo /\ q.id = call[k].id
  <2>1. /\ "unloading" \in Phases /\ call[k].phase # "idle" /\ call[k].phase # "next"
        /\ call[k].phase \in Withdrawing /\ "unloading" \notin Activating
    BY DEF Activating, Withdrawing, Phases, AtSink
  <2> QED
    BY <1>1, <1>2, <2>1, PhaseIs
<1>5. ASSUME Serial, SerialInv
      PROVE  /\ \A j \in Calls : j # k => call[j].phase = "idle"
             /\ \A d \in Components : d # c => Settled(d) \/ ExcusedBy(q, d)
  <2>1. /\ \A j \in Calls : j # k => call[j].phase = "idle"
        /\ \A d \in Components : Settled(d) \/ ExcusedBy(call[k], d)
    BY <1>5, AloneIs
  <2>2. \A d \in Components : d # c /\ ExcusedBy(call[k], d) => ExcusedBy(q, d)
    BY <1>2, <1>4 DEF ExcusedBy, Withdrawing
  <2> QED
    BY <2>1, <2>2
<1>6. ExcusedBy(q, c) /\ Prepared(q)' /\ "UNLOADING" \in States
  BY <1>4 DEF ExcusedBy, Prepared, States
<1>7. q.phase \notin {"evaluate", "authorize", "loading"}
  BY <1>4
<1> QED
  BY <1>3, <1>4, <1>5, <1>6, <1>7, TransitionKeeps

\* Its leases are taken to be disposed.
LEMMA DisposingKeeps ==
  ASSUME IInv, NEW k \in Calls, call[k].phase = "unloading",
         call' = [call EXCEPT ![k].phase = "dispose", ![k].owned = leases[call[k].comp]],
         UNCHANGED <<env, providers, state, ops, Entries>>
  PROVE  IInv'
<1>1. PICK q : q = [call[k] EXCEPT !.phase = "dispose", !.owned = leases[call[k].comp]]
  OBVIOUS
<1>2. call' = [call EXCEPT ![k] = q]
  BY <1>1
<1>3. call[k] \in Operation /\ WellFormed(call[k]) /\ leases \in [Components -> SUBSET Leases]
  BY DEF IInv, Typed
<1>4. call[k].comp \in Components
  BY <1>3 DEF WellFormed
<1>5. /\ q \in Operation /\ q.phase = "dispose" /\ q.comp = call[k].comp
      /\ q.owned = leases[call[k].comp] /\ q.todo = call[k].todo /\ q.id = call[k].id
      /\ q.op = call[k].op /\ q.n = call[k].n
  BY <1>1, <1>3, <1>4 DEF Operation, Phases
<1>6. WellFormed(q)
  BY <1>3, <1>5 DEF WellFormed, Activating, Withdrawing
<1>7. \A c \in Components : ExcusedBy(call[k], c) => ExcusedBy(q, c)
  BY <1>5 DEF ExcusedBy, Withdrawing
<1>8. Prepared(q)
  BY <1>5 DEF Prepared
<1>9. q.phase \notin {"evaluate", "authorize", "loading"}
  BY <1>5
<1> QED
  BY <1>2, <1>5, <1>6, <1>7, <1>8, <1>9, CallKeeps

\* The entry is emptied: what it held is disposed or reported.
LEMMA UnloadKeeps ==
  ASSUME IInv, NEW k \in Calls, call[k].phase \in {"unloading", "dispose"}, Unload(k), env' = env,
         held' \subseteq held, reported' \in SUBSET Leases, reported \subseteq reported',
         Serial /\ SerialInv => \A l \in held' : l \in leases[call[k].comp] => l \in reported'
  PROVE  IInv'
<1>1. PICK q : q = Moved(call[k], "unloaded")
  OBVIOUS
<1>2. PICK c : c = call[k].comp
  OBVIOUS
<1>3. /\ call' = [call EXCEPT ![k] = q] /\ state' = [state EXCEPT ![c] = "PENDING"]
      /\ bindings' = [bindings EXCEPT ![c] = {}] /\ leases' = [leases EXCEPT ![c] = {}]
      /\ UNCHANGED <<env, providers, ops>>
  BY <1>1, <1>2 DEF Unload, Transition, Moved
<1>4. /\ q \in Operation /\ WellFormed(q) /\ q.phase = "unloaded" /\ q.comp = c
      /\ c \in Components /\ q.todo = call[k].todo /\ q.id = call[k].id
  <2>1. /\ "unloaded" \in Phases /\ call[k].phase # "idle" /\ call[k].phase # "next"
        /\ call[k].phase \in Withdrawing /\ "unloaded" \notin Activating
    BY DEF Activating, Withdrawing, Phases, AtSink
  <2> QED
    BY <1>1, <1>2, <2>1, PhaseIs
<1>5. /\ InScope(c, {}) /\ {} \in SUBSET Instances /\ {} \in SUBSET Leases /\ "PENDING" \in States
      /\ q.phase \notin {"evaluate", "authorize", "loading"}
  BY <1>4 DEF InScope, States
<1>6. /\ held' \subseteq Leases /\ reported' \subseteq Leases
      /\ state'[c] = "PENDING" /\ bindings'[c] = {} /\ leases'[c] = {}
  BY <1>3, <1>4 DEF IInv, Typed
<1>7. Settled(c)' /\ Prepared(q)'
  BY <1>4, <1>6 DEF Settled, Prepared
<1>8. ASSUME Serial, SerialInv
      PROVE  /\ \A j \in Calls : j # k => call[j].phase = "idle"
             /\ \A d \in Components : d # c => Settled(d) \/ ExcusedBy(q, d)
             /\ \A l \in held' : l \in reported' \/ (l[1] # c /\ l \in leases[l[1]])
  <2>1. /\ \A j \in Calls : j # k => call[j].phase = "idle"
        /\ \A d \in Components : Settled(d) \/ ExcusedBy(call[k], d)
    BY <1>8, AloneIs
  <2>2. \A d \in Components : d # c /\ ExcusedBy(call[k], d) => ExcusedBy(q, d)
    BY <1>2, <1>4 DEF ExcusedBy, Withdrawing
  <2>3. \A l \in held :
          l \in leases[c] \/ l \in reported \/ (l[1] # c /\ l \in leases[l[1]])
    BY <1>8, HeldIs
  <2>4. \A l \in held' : l \in reported' \/ (l[1] # c /\ l \in leases[l[1]])
    BY <1>2, <1>8, <2>3
  <2> QED
    BY <2>1, <2>2, <2>4
<1> QED
  BY <1>3, <1>4, <1>5, <1>6, <1>7, <1>8, EntryKeeps

LEMMA DisposalKeeps ==
  ASSUME IInv, NEW k \in Calls, NothingToDispose(k) \/ Disposed(k) \/ DisposeFails(k)
  PROVE  IInv'
<1> DEFINE L == leases[call[k].comp]
<1>1. call[k] \in Operation /\ held \subseteq Leases /\ reported \subseteq Leases
  BY DEF IInv, Typed
<1>2. CASE NothingToDispose(k)
  <2>1. /\ call[k].phase = "unloading" /\ L = {} /\ Unload(k) /\ env' = env
        /\ held' = held /\ reported' = reported
    BY <1>2 DEF NothingToDispose, At
  <2> QED
    BY <1>1, <2>1, UnloadKeeps
<1>3. CASE Disposed(k)
  <2>1. /\ call[k].phase = "dispose" /\ Unload(k) /\ env' = env
        /\ held' = held \ call[k].owned /\ reported' = reported
    BY <1>3 DEF Disposed, At, Unload
  <2>2. SerialInv => call[k].owned = L
    BY <2>1 DEF SerialInv, Prepared
  <2> QED
    BY <1>1, <2>1, <2>2, UnloadKeeps
<1>4. CASE DisposeFails(k)
  <2>1. /\ call[k].phase = "dispose" /\ Unload(k) /\ env' = env
        /\ held' = held /\ reported' = reported \union call[k].owned
    BY <1>4 DEF DisposeFails, At, Unload
  <2>2. SerialInv => call[k].owned = L
    BY <2>1 DEF SerialInv, Prepared
  <2>3. call[k].owned \subseteq Leases
    BY <1>1 DEF Operation
  <2> QED
    BY <1>1, <2>1, <2>2, <2>3, UnloadKeeps
<1> QED
  BY <1>2, <1>3, <1>4

LEMMA SinkResolvesKeeps ==
  ASSUME IInv, NEW k \in Calls, SinkResolves(k)
  PROVE  IInv'
<1>1. CASE /\ At(k, "registered")
           /\ call' = [call EXCEPT ![k] = Reconciling(@, call[k].comp, providers)]
           /\ UNCHANGED <<env, providers, state, ops, Entries>>
  BY <1>1, RegisteredKeeps DEF At
<1>2. CASE /\ call[k].phase \in {"refused", "activated", "failed"}
           /\ call' = [call EXCEPT ![k].phase = "next"]
           /\ UNCHANGED <<env, providers, state, ops, Entries>>
  BY <1>2, EndedKeeps
<1>3. CASE /\ At(k, "loading")
           /\ bindings' = [bindings EXCEPT ![call[k].comp] = call[k].bind]
           /\ call' = [call EXCEPT ![k].phase = "acquire"]
           /\ UNCHANGED <<env, providers, state, ops, leases, held, reported>>
  BY <1>3, BoundKeeps DEF At
<1>4. CASE /\ At(k, "suspended")
           /\ Transition(k, "UNLOADING", "unloading")
           /\ UNCHANGED <<env, providers, ops, Entries>>
  BY <1>4, UnloadingKeeps DEF At
<1>5. CASE /\ At(k, "unloading")
           /\ call' = [call EXCEPT ![k].phase = "dispose", ![k].owned = leases[call[k].comp]]
           /\ UNCHANGED <<env, providers, state, ops, Entries>>
  BY <1>5, DisposingKeeps DEF At
<1>6. CASE /\ At(k, "unloaded")
           /\ SuspendNext(k, call[k])
           /\ UNCHANGED <<env, providers, ops, Entries>>
  <2>1. call[k].phase = "unloaded" /\ UNCHANGED <<env, bindings, leases, held, reported>>
    BY <1>6 DEF At, Entries
  <2>2. /\ call[k] \in Operation /\ WellFormed(call[k])
        /\ providers' \in [Providers -> 0..MaxOps] /\ ops' \in 0..MaxOps
    BY <1>6 DEF IInv, Typed
  <2>3. call[k].op = "withdraw" /\ call[k].n \in 1..MaxOps
    BY <2>1, <2>2 DEF WellFormed, Withdrawing
  <2>4. ASSUME Serial, SerialInv
        PROVE  /\ \A j \in Calls : j # k => call[j].phase = "idle"
               /\ \A c \in Components :
                    \/ /\ state[c] = "ACTIVE" => FitTo(providers', c, bindings[c])
                       /\ bindings[c] # {} \/ leases[c] # {} => state[c] = "ACTIVE"
                    \/ c \in call[k].todo /\ BoundTo(c, call[k].id)
    <3>1. /\ \A j \in Calls : j # k => call[j].phase = "idle"
          /\ \A c \in Components : Settled(c) \/ ExcusedBy(call[k], c)
      BY <2>1, <2>4, AloneIs
    <3> QED
      BY <1>6, <2>1, <3>1 DEF Settled, ExcusedBy
  <2> QED
    BY <1>6, <2>1, <2>2, <2>3, <2>4, SuspendKeeps
<1> QED
  BY <1>1, <1>2, <1>3, <1>4, <1>5, <1>6 DEF SinkResolves

-----------------------------------------------------------------------------
(* The theorems                                                            *)

LEMMA InitInv ==
  ASSUME Init
  PROVE  IInv
<1>1. /\ env \in Environments
      /\ providers = [p \in Providers |-> 0] /\ state = [c \in Components |-> "absent"]
      /\ bindings = [c \in Components |-> {}] /\ leases = [c \in Components |-> {}]
      /\ call = [k \in Calls |-> Idle] /\ ops = 0 /\ held = {} /\ reported = {}
  BY DEF Init
<1>2. \A k \in Calls : call[k] = Idle
  BY <1>1
<1>3. 0 \in 0..MaxOps
  BY NumbersAssumption
<1>4. Typed
  <2>1. call \in [Calls -> Operation]
    BY <1>1, IdleIs
  <2> QED
    BY <1>1, <1>2, <1>3, <2>1, IdleIs DEF Typed, States
<1>5. ScopeInv
  BY <1>1, <1>2, IdleIs DEF ScopeInv, InScope
<1>6. SerialInv
  <2>1. \A c \in Components : Settled(c)
    BY <1>1 DEF Settled
  <2>2. \A k \in Calls : Prepared(call[k])
    BY <1>2, IdleIs DEF Prepared
  <2> QED
    BY <1>1, <1>2, <2>1, <2>2, IdleIs DEF SerialInv
<1> QED
  BY <1>4, <1>5, <1>6 DEF IInv

LEMMA NextInv ==
  ASSUME IInv, [Next]_vars
  PROVE  IInv'
<1>1. CASE UNCHANGED vars
  BY <1>1 DEF vars, IInv, Typed, WellFormed, ScopeInv, InScope, Serial, OneAtATime,
              SerialInv, Settled, ExcusedBy, BoundTo, Prepared, FitTo
<1>2. ASSUME NEW k \in Calls, Begin(k) PROVE IInv'
  BY <1>2, RegisterComponentKeeps, RegisterProviderKeeps, UnregisterProviderKeeps DEF Begin
<1>3. ASSUME NEW k \in Calls, Continue(k) PROVE IInv'
  <2>1. CASE TakeNext(k)
    BY <2>1, TakeNextKeeps
  <2>2. CASE Applicable(k)
    BY <2>2, ApplicableKeeps
  <2>3. CASE Refused(k)
    BY <2>3, RefusedKeeps
  <2>4. CASE EvaluatorThrows(k)
    BY <2>4, EvaluatorThrowsKeeps
  <2>5. CASE Authorized(k)
    BY <2>5, AuthorizedKeeps
  <2>6. CASE Acquired(k)
    BY <2>6, AcquiredKeeps
  <2>7. CASE AcquireFails(k)
    BY <2>7, FailingKeeps DEF AcquireFails, At
  <2>8. CASE SinkResolves(k)
    BY <2>8, SinkResolvesKeeps
  <2>9. CASE SinkThrows(k)
    BY <2>9, SinkThrowsKeeps
  <2>10. CASE NothingToDispose(k) \/ Disposed(k) \/ DisposeFails(k)
    BY <2>10, DisposalKeeps
  <2> QED
    BY <1>3, <2>1, <2>2, <2>3, <2>4, <2>5, <2>6, <2>7, <2>8, <2>9, <2>10 DEF Continue
<1> QED
  BY <1>1, <1>2, <1>3 DEF Next

\* The invariant holds of every execution of the runtime.
THEOREM InductiveInvariant == Spec => []IInv
<1>1. Init => IInv
  BY InitInv
<1>2. IInv /\ [Next]_vars => IInv'
  BY NextInv
<1> QED
  BY <1>1, <1>2, PTL DEF Spec

\* The maps and operations of CompositionRuntime keep their types, and an
\* operation in progress knows its component (packages/composition-runtime).
THEOREM TypeCorrect == Spec => []Typed
<1>1. IInv => Typed
  BY DEF IInv
<1> QED
  BY <1>1, InductiveInvariant, PTL

\* Whatever runs at once and whatever fails, #resolveBindings binds components
\* to visible and compatible providers only, one for each requirement at most.
THEOREM BindingsStayInScope == Spec => []ScopedBindings
<1>1. IInv => ScopedBindings
  BY DEF IInv, ScopeInv, InScope, ScopedBindings
<1> QED
  BY <1>1, InductiveInvariant, PTL

\* Between operations nothing is excused: every component is settled.
LEMMA QuietIsSettled ==
  ASSUME SerialInv, Quiescent
  PROVE  \A c \in Components : Settled(c)
  BY DEF SerialInv, Quiescent, ExcusedBy, Withdrawing

\* Between operations that do not overlap and whose sink does not throw, an
\* ACTIVE component is bound to a registered instance for every requirement;
\* and no binding ever leaves its scope.
THEOREM ActiveComponentsAreSupported == Spec => []ActiveIsSupported
<1>1. IInv => ActiveIsSupported
  <2> SUFFICES ASSUME IInv, OneAtATime, ~env.sink, Quiescent,
                      NEW c \in Components, state[c] = "ACTIVE"
               PROVE  Supported(c)
    BY DEF IInv, ScopeInv, InScope, ScopedBindings, ActiveIsSupported, ActiveSupported
  <2>1. SerialInv
    BY DEF IInv, Serial
  <2> QED
    BY <2>1, QuietIsSettled DEF Settled, FitTo, Supported
<1> QED
  BY <1>1, InductiveInvariant, PTL

\* What the loop of unregisterProvider leaves behind: a component with bindings
\* or leases is ACTIVE, and the instances it is bound to are registered.
THEOREM LossReleasesDependents == Spec => []LossReleases
<1>1. IInv => LossReleases
  <2> SUFFICES ASSUME IInv, OneAtATime, ~env.sink, Quiescent,
                      NEW c \in Components, bindings[c] # {} \/ leases[c] # {}
               PROVE  state[c] = "ACTIVE" /\ \A b \in bindings[c] : providers[b[1]] = b[2]
    BY DEF LossReleases, Released
  <2>1. SerialInv
    BY DEF IInv, Serial
  <2> QED
    BY <2>1, QuietIsSettled DEF Settled, FitTo
<1> QED
  BY <1>1, InductiveInvariant, PTL

\* A lease an acquirer gave is disposed, recorded as a disposer failure, or in
\* the entry of its component.
THEOREM LeasesAreAccountedFor == Spec => []NoLeaseLost
<1>1. IInv => NoLeaseLost
  BY DEF IInv, Serial, SerialInv, NoLeaseLost
<1> QED
  BY <1>1, InductiveInvariant, PTL
=============================================================================
