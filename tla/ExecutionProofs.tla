---------------------------- MODULE ExecutionProofs ----------------------------
(***************************************************************************)
(* Proofs about the parts of MCExecution that do work for others, for any  *)
(* nodes, keys, requests, providers, items and owners: what is asked for   *)
(* twice is done once, no provider gets a receipt for what an earlier one  *)
(* did, and what was seeded survives.  Each part has an inductive          *)
(* invariant of its own; the steps of the others leave it alone.           *)
(***************************************************************************)
EXTENDS MCExecution, FiniteSetTheorems, TLAPS

all == <<subject, compute, hosted, gateway, ingestion, personal, deletion, agents,
         selection, verification, reconstruction>>

\* Whatever moves, each part takes a step of its own or none.
LEMMA PartSteps ==
  ASSUME [Next]_all
  PROVE  /\ [Compute!Next]_compute /\ [Hosted!Next]_hosted /\ [Gateway!Next]_gateway
         /\ [Connectors!Next]_ingestion /\ [Personal!Next]_personal
BY DEF Next, all, compute, hosted, gateway, ingestion, personal

\* A sequence of records one of which changes.
LEMMA SeqReplace ==
  ASSUME NEW S, NEW s \in Seq(S), NEW i \in 1..Len(s), NEW x \in S
  PROVE  /\ [s EXCEPT ![i] = x] \in Seq(S)
         /\ Len([s EXCEPT ![i] = x]) = Len(s) /\ DOMAIN [s EXCEPT ![i] = x] = 1..Len(s)
         /\ [s EXCEPT ![i] = x][i] = x
         /\ \A j \in 1..Len(s) : j # i => [s EXCEPT ![i] = x][j] = s[j]
OBVIOUS

\* A sequence and what is appended to it.
LEMMA SeqAppend ==
  ASSUME NEW S, NEW s \in Seq(S), NEW x
  PROVE  /\ Len(Append(s, x)) = Len(s) + 1 /\ DOMAIN Append(s, x) = 1..(Len(s) + 1)
         /\ 1..(Len(s) + 1) = 1..Len(s) \cup {Len(s) + 1} /\ Len(s) + 1 \notin 1..Len(s)
         /\ Append(s, x)[Len(s) + 1] = x
         /\ \A j \in 1..Len(s) : Append(s, x)[j] = s[j]
         /\ x \in S => Append(s, x) \in Seq(S)
<1>1. s \in Seq(S \cup {x}) /\ x \in S \cup {x} /\ Len(s) \in Nat
  OBVIOUS
<1>2. Append(s, x) \in Seq(S \cup {x})
  BY <1>1
<1>3. /\ Len(Append(s, x)) = Len(s) + 1
      /\ Append(s, x)[Len(s) + 1] = x
      /\ \A j \in 1..Len(s) : Append(s, x)[j] = s[j]
  BY <1>1
<1> QED
  BY <1>1, <1>2, <1>3

-----------------------------------------------------------------------------
(* The provider gateway                                                    *)

Provider == [registration : Nat, contracts : SUBSET Contracts]
ProviderBinding == [provider : Providers, contracts : SUBSET Contracts,
                    principals : SUBSET Principals, credential : BOOLEAN]
Operation == [request : Gateway!Envelope, invoked : BOOLEAN, registration : Nat,
              phase : {"authorizing", "resolving", "invoking", "observed", "rejected", "ended"}]

GatewayTypes ==
  /\ toolContracts \subseteq Contracts
  /\ DOMAIN providers \subseteq Providers /\ providers \in [DOMAIN providers -> Provider]
  /\ DOMAIN bindings \subseteq Bindings /\ bindings \in [DOMAIN bindings -> ProviderBinding]
  /\ DOMAIN remembered \subseteq GatewayKeys /\ remembered \in [DOMAIN remembered -> Nat]
  /\ operations \in Seq(Operation)
  /\ events \in Seq([provider : Providers, availability : {"AVAILABLE", "UNAVAILABLE"}])

\* No listener has heard of a registered provider since it was registered.
Undisturbed ==
  \A p \in DOMAIN providers :
    /\ providers[p].registration \in 1..Len(events)
    /\ \A k \in 1..Len(events) :
         k > providers[p].registration => events[k].provider # p

\* An operation that has not ended, or whose adapter was invoked, is the one
\* its key remembers, and within the scope of its binding unless it was refused.
Remembered(o) ==
  LET request == operations[o].request
  IN /\ operations[o].phase # "ended" \/ operations[o].invoked =>
          request.key \in DOMAIN remembered /\ remembered[request.key] = o
     /\ operations[o].phase \notin {"rejected", "ended"} \/ operations[o].invoked =>
          /\ request.binding \in DOMAIN bindings
          /\ request.principal \in bindings[request.binding].principals
          /\ request.contract \in bindings[request.binding].contracts

GatewayInv == GatewayTypes /\ Undisturbed /\ \A o \in DOMAIN operations : Remembered(o)

\* An operation that is neither begun nor ended stays with its key.
LEMMA GatewayStep ==
  ASSUME GatewayInv, [Gateway!Next]_gateway
  PROVE  GatewayInv'
<1> DEFINE N == Len(operations)
<1>0. /\ GatewayTypes /\ Undisturbed /\ N \in Nat /\ DOMAIN operations = 1..N
      /\ Len(events) \in Nat /\ DOMAIN events = 1..Len(events)
      /\ \A o \in 1..N : operations[o] \in Operation /\ Remembered(o)
  BY DEF GatewayInv, GatewayTypes
<1>1. ASSUME NEW t \in Contracts, Gateway!RegisterToolContract(t) PROVE GatewayInv'
  BY <1>1 DEF Gateway!RegisterToolContract, GatewayInv, GatewayTypes, Undisturbed, Remembered
<1>2. ASSUME NEW p \in Providers, NEW contracts \in SUBSET Contracts, Gateway!RegisterProvider(p, contracts)
      PROVE  GatewayInv'
  <2> DEFINE r == [registration |-> Len(events) + 1, contracts |-> contracts]
             e == [provider |-> p, availability |-> "AVAILABLE"]
  <2>1. /\ p \notin DOMAIN providers
        /\ providers' = [x \in DOMAIN providers \cup {p} |-> IF x = p THEN r ELSE providers[x]]
        /\ events' = Append(events, e)
        /\ UNCHANGED <<toolContracts, bindings, remembered, operations>>
    BY <1>2 DEF Gateway!RegisterProvider, Gateway!Put, Gateway!PublishAvailability
  <2>2. r \in Provider /\ e \in [provider : Providers, availability : {"AVAILABLE", "UNAVAILABLE"}]
    BY <1>0 DEF Provider
  <2>3. GatewayTypes'
    BY <1>0, <2>1, <2>2 DEF GatewayTypes
  <2>4. /\ Len(events') = Len(events) + 1 /\ events'[Len(events) + 1] = e
        /\ \A k \in 1..Len(events) : events'[k] = events[k]
    BY <1>0, <2>1, <2>2 DEF GatewayTypes
  <2>5. /\ DOMAIN providers' = DOMAIN providers \cup {p} /\ providers'[p] = r
        /\ \A q \in DOMAIN providers : providers'[q] = providers[q] /\ q # p
    BY <2>1
  <2>6. ASSUME NEW q \in DOMAIN providers'
        PROVE  /\ providers'[q].registration \in 1..Len(events')
               /\ \A k \in 1..Len(events') : k > providers'[q].registration => events'[k].provider # q
    <3>1. CASE q = p
      BY <1>0, <2>4, <2>5, <3>1
    <3>2. CASE q \in DOMAIN providers
      <4>1. q # p /\ providers'[q] = providers[q]
        BY <2>5, <3>2
      <4>2. /\ providers[q].registration \in 1..Len(events)
            /\ \A k \in 1..Len(events) : k > providers[q].registration => events[k].provider # q
        BY <1>0, <3>2 DEF Undisturbed
      <4>3. e.provider = p
        OBVIOUS
      <4> HIDE DEF e
      <4> QED
        BY <1>0, <2>4, <4>1, <4>2, <4>3
    <3> QED
      BY <2>5, <3>1, <3>2
  <2>7. \A o \in DOMAIN operations : Remembered(o)'
    BY <1>0, <2>1 DEF Remembered
  <2> QED
    BY <2>1, <2>3, <2>6, <2>7 DEF GatewayInv, Undisturbed
<1>3. ASSUME NEW p \in Providers, NEW reasonGiven \in BOOLEAN, Gateway!UnregisterProvider(p, reasonGiven)
      PROVE  GatewayInv'
  <2> DEFINE e == [provider |-> p, availability |-> "UNAVAILABLE"]
  <2>1. /\ providers' = [x \in DOMAIN providers \ {p} |-> providers[x]]
        /\ events' = Append(events, e) \/ events' = events
        /\ UNCHANGED <<toolContracts, bindings, remembered, operations>>
    BY <1>3 DEF Gateway!UnregisterProvider, Gateway!Restrict, Gateway!PublishAvailability
  <2>2. e \in [provider : Providers, availability : {"AVAILABLE", "UNAVAILABLE"}]
    OBVIOUS
  <2>3. GatewayTypes'
    <3>1. DOMAIN providers' \subseteq Providers /\ providers' \in [DOMAIN providers' -> Provider]
      BY <1>0, <2>1 DEF GatewayTypes
    <3>2. events' \in Seq([provider : Providers, availability : {"AVAILABLE", "UNAVAILABLE"}])
      <4>1. CASE events' = events
        BY <1>0, <4>1 DEF GatewayTypes
      <4>2. CASE events' = Append(events, e)
        BY <1>0, <2>2, <4>2, SeqAppend DEF GatewayTypes
      <4> QED
        BY <2>1, <4>1, <4>2
    <3> QED
      BY <1>0, <2>1, <3>1, <3>2 DEF GatewayTypes
  <2>4. /\ Len(events') \in Nat /\ Len(events') >= Len(events)
        /\ \A k \in 1..Len(events) : events'[k] = events[k]
        /\ \A k \in 1..Len(events') : k > Len(events) => events'[k] = e
    BY <1>0, <2>1, <2>2 DEF GatewayTypes
  <2>5. e.provider = p
    OBVIOUS
  <2> HIDE DEF e
  <2>6. ASSUME NEW q \in DOMAIN providers'
        PROVE  /\ providers'[q].registration \in 1..Len(events')
               /\ \A k \in 1..Len(events') : k > providers'[q].registration => events'[k].provider # q
    <3>1. q \in DOMAIN providers /\ q # p /\ providers'[q] = providers[q]
      BY <2>1
    <3>2. /\ providers[q].registration \in 1..Len(events)
          /\ \A k \in 1..Len(events) : k > providers[q].registration => events[k].provider # q
      BY <1>0, <3>1 DEF Undisturbed
    <3> QED
      BY <1>0, <2>4, <2>5, <3>1, <3>2
  <2>7. \A o \in DOMAIN operations : Remembered(o)'
    BY <1>0, <2>1 DEF Remembered
  <2> QED
    BY <2>1, <2>3, <2>6, <2>7 DEF GatewayInv, Undisturbed
<1>4. ASSUME NEW b \in Bindings, NEW p \in Providers, NEW contracts \in SUBSET Contracts,
             NEW principals \in SUBSET Principals, NEW credential \in BOOLEAN,
             Gateway!BindProvider(b, p, contracts, principals, credential)
      PROVE  GatewayInv'
  <2> DEFINE r == [provider |-> p, contracts |-> contracts,
                   principals |-> principals, credential |-> credential]
  <2>1. /\ b \notin DOMAIN bindings
        /\ bindings' = [x \in DOMAIN bindings \cup {b} |-> IF x = b THEN r ELSE bindings[x]]
        /\ UNCHANGED <<toolContracts, providers, remembered, operations, events>>
    BY <1>4 DEF Gateway!BindProvider, Gateway!Put
  <2>2. r \in ProviderBinding
    BY DEF ProviderBinding
  <2> HIDE DEF r
  <2>3. GatewayTypes'
    BY <1>0, <2>1, <2>2 DEF GatewayTypes
  <2>4. \A x \in DOMAIN bindings : x \in DOMAIN bindings' /\ bindings'[x] = bindings[x]
    BY <2>1
  <2>5. \A o \in DOMAIN operations : Remembered(o)'
    BY <1>0, <2>1, <2>4 DEF Remembered
  <2> QED
    BY <1>0, <2>1, <2>3, <2>5 DEF GatewayInv, Undisturbed
<1>5. ASSUME NEW request \in GatewayRequests, Gateway!Execute(request) PROVE GatewayInv'
  <2>1. PICK r : r = [request |-> request, invoked |-> FALSE,
                      phase |-> IF Gateway!InScope(request) THEN "authorizing" ELSE "rejected",
                      registration |-> IF Gateway!InScope(request)
                                       THEN providers[bindings[request.binding].provider].registration
                                       ELSE 0]
    OBVIOUS
  <2>2. /\ request.key \notin DOMAIN remembered
        /\ remembered' = [x \in DOMAIN remembered \cup {request.key} |->
                            IF x = request.key THEN N + 1 ELSE remembered[x]]
        /\ operations' = Append(operations, r)
        /\ UNCHANGED <<toolContracts, providers, bindings, events>>
    BY <1>5, <2>1 DEF Gateway!Execute, Gateway!Put
  <2>3. request \in Gateway!Envelope /\ request.key \in GatewayKeys
    BY GatewayAssumption DEF Gateway!RequestsAssumption, Gateway!Envelope
  <2>4. Gateway!InScope(request) =>
          /\ request.binding \in DOMAIN bindings
          /\ request.principal \in bindings[request.binding].principals
          /\ request.contract \in bindings[request.binding].contracts
          /\ bindings[request.binding].provider \in DOMAIN providers
    BY DEF Gateway!InScope
  <2>5. /\ r \in Operation /\ r.request = request /\ ~r.invoked
        /\ r.phase = IF Gateway!InScope(request) THEN "authorizing" ELSE "rejected"
    BY <1>0, <2>1, <2>3, <2>4 DEF GatewayTypes, Operation, Provider
  <2>6. GatewayTypes'
    BY <1>0, <2>2, <2>3, <2>5 DEF GatewayTypes
  <2>7. /\ DOMAIN operations' = 1..(N + 1) /\ operations'[N + 1] = r
        /\ \A o \in 1..N : operations'[o] = operations[o]
    BY <1>0, <2>2, <2>5, SeqAppend DEF GatewayTypes
  <2>8. ASSUME NEW n, n = N + 1 PROVE Remembered(n)'
    <3>1. /\ operations'[n].request = request /\ ~operations'[n].invoked
          /\ operations'[n].phase \notin {"rejected", "ended"} => Gateway!InScope(request)
      BY <2>5, <2>7, <2>8
    <3>2. request.key \in DOMAIN remembered' /\ remembered'[request.key] = n
      BY <2>2, <2>8
    <3> QED
      BY <2>2, <2>4, <3>1, <3>2 DEF Remembered
  <2>9. \A o \in 1..N : Remembered(o)'
    BY <1>0, <2>2, <2>7 DEF Remembered
  <2>10. 1..(N + 1) = 1..N \cup {N + 1}
    BY <1>0
  <2>11. Undisturbed'
    BY <1>0, <2>2 DEF Undisturbed
  <2>12. \A o \in DOMAIN operations' : Remembered(o)'
    BY <2>7, <2>8, <2>9, <2>10
  <2> QED
    BY <2>6, <2>11, <2>12 DEF GatewayInv
<1>6. ASSUME NEW o \in 1..N, NEW to \in {"resolving", "invoking", "observed", "rejected"},
             operations[o].phase \notin {"rejected", "ended"}, Gateway!Moves(o, to)
      PROVE  GatewayInv'
  <2>1. /\ operations' = [operations EXCEPT ![o].phase = to, ![o].invoked = @ \/ to = "invoking"]
        /\ UNCHANGED <<toolContracts, providers, bindings, remembered, events>>
    BY <1>6 DEF Gateway!Moves
  <2>2. /\ operations' \in Seq(Operation) /\ DOMAIN operations' = 1..N
        /\ \A q \in 1..N : operations'[q].request = operations[q].request
        /\ \A q \in 1..N : q # o => operations'[q] = operations[q]
    <3>1. PICK x : x = [operations[o] EXCEPT !.phase = to, !.invoked = @ \/ to = "invoking"]
      OBVIOUS
    <3>2. operations' = [operations EXCEPT ![o] = x]
      BY <2>1, <3>1
    <3>3. x \in Operation /\ x.request = operations[o].request
      BY <1>0, <3>1 DEF Operation
    <3> QED
      BY <1>0, <3>2, <3>3, SeqReplace DEF GatewayTypes
  <2>3. \A q \in 1..N : Remembered(q)'
    BY <1>0, <1>6, <2>1, <2>2 DEF Remembered
  <2> QED
    BY <1>0, <2>1, <2>2, <2>3 DEF GatewayInv, GatewayTypes, Undisturbed
<1>7. ASSUME NEW o \in 1..N, Gateway!Forget(o) PROVE GatewayInv'
  <2> DEFINE key == operations[o].request.key
             forgets == ~operations[o].invoked /\ remembered[key] = o
  <2>1. /\ operations[o].phase = "rejected"
        /\ operations' = [operations EXCEPT ![o].phase = "ended"]
        /\ forgets => remembered' = [x \in DOMAIN remembered \ {key} |-> remembered[x]]
        /\ ~forgets => remembered' = remembered
        /\ UNCHANGED <<toolContracts, providers, bindings, events>>
    BY <1>7 DEF Gateway!Forget, Gateway!MayForget, Gateway!Restrict
  <2>2. /\ operations' \in Seq(Operation) /\ DOMAIN operations' = 1..N
        /\ \A q \in 1..N : /\ operations'[q].request = operations[q].request
                           /\ operations'[q].invoked = operations[q].invoked
        /\ operations'[o].phase = "ended"
        /\ \A q \in 1..N : q # o => operations'[q] = operations[q]
    <3>1. PICK x : x = [operations[o] EXCEPT !.phase = "ended"]
      OBVIOUS
    <3>2. operations' = [operations EXCEPT ![o] = x]
      BY <2>1, <3>1
    <3>3. /\ x \in Operation /\ x.phase = "ended"
          /\ x.request = operations[o].request /\ x.invoked = operations[o].invoked
      BY <1>0, <3>1 DEF Operation
    <3> QED
      BY <1>0, <3>2, <3>3, SeqReplace DEF GatewayTypes
  <2>3. key \in DOMAIN remembered /\ remembered[key] = o
    BY <1>0, <2>1 DEF Remembered
  <2>4. GatewayTypes'
    BY <1>0, <2>1, <2>2 DEF GatewayTypes
  <2>5. ASSUME NEW q \in 1..N PROVE Remembered(q)'
    <3>1. CASE q = o /\ operations[o].invoked
      BY <1>0, <2>1, <2>2, <3>1 DEF Remembered
    <3>2. CASE q = o /\ ~operations[o].invoked
      BY <2>1, <2>2, <3>2 DEF Remembered
    <3>3. CASE q # o
      <4>1. operations'[q] = operations[q]
        BY <2>2, <3>3
      <4>2. operations[q].phase # "ended" \/ operations[q].invoked =>
              /\ operations[q].request.key \in DOMAIN remembered'
              /\ remembered'[operations[q].request.key] = q
        BY <1>0, <2>1, <2>3, <3>3 DEF Remembered
      <4> QED
        BY <1>0, <2>1, <4>1, <4>2 DEF Remembered
    <3> QED
      BY <3>1, <3>2, <3>3
  <2> QED
    BY <1>0, <2>1, <2>2, <2>4, <2>5 DEF GatewayInv, Undisturbed
<1>8. ASSUME NEW o \in DOMAIN operations, NEW answer \in BOOLEAN,
             \/ Gateway!Authorize(o, answer)
             \/ Gateway!ResolveCredential(o, answer)
             \/ Gateway!AdapterAnswers(o, answer)
      PROVE  GatewayInv'
  <2>1. \E to \in {"resolving", "invoking", "observed", "rejected"} :
          operations[o].phase \notin {"rejected", "ended"} /\ Gateway!Moves(o, to)
    BY <1>8 DEF Gateway!Authorize, Gateway!ResolveCredential, Gateway!AdapterAnswers
  <2> QED
    BY <1>0, <1>6, <2>1
<1>9. CASE UNCHANGED gateway
  BY <1>9 DEF gateway, GatewayInv, GatewayTypes, Undisturbed, Remembered
<1> QED
  BY <1>0, <1>1, <1>2, <1>3, <1>4, <1>5, <1>7, <1>8, <1>9 DEF Gateway!Next, Gateway!Step

LEMMA GatewayInitial == Gateway!Init => GatewayInv
BY DEF Gateway!Init, GatewayInv, GatewayTypes, Undisturbed, Remembered

LEMMA GatewayInvariance == Spec => []GatewayInv
<1>1. Init => GatewayInv
  BY GatewayInitial DEF Init
<1>2. GatewayInv /\ [Next]_all => GatewayInv'
  BY GatewayStep, PartSteps
<1> QED
  BY <1>1, <1>2, PTL DEF Spec, all

LEMMA GatewayOnce == GatewayInv => Gateway!InvokedOncePerKey
<1> SUFFICES ASSUME GatewayInv, NEW o \in DOMAIN operations, operations[o].invoked
             PROVE  /\ operations[o].request.principal
                         \in bindings[operations[o].request.binding].principals
                    /\ operations[o].request.contract
                         \in bindings[operations[o].request.binding].contracts
                    /\ \A q \in DOMAIN operations :
                         q # o /\ operations[q].request.key = operations[o].request.key
                           => ~operations[q].invoked
  BY DEF Gateway!InvokedOncePerKey
<1> QED
  BY DEF GatewayInv, Remembered

\* A step that gives a receipt is taken while the provider that was checked
\* and invoked is registered, and has been all the time (AdapterAnswers).
THEOREM ReceiptsStayCurrent == Spec => ReceiptsAreCurrent
<1>1. GatewayInv /\ [Next]_all =>
        [\A o \in DOMAIN operations :
           operations[o].phase # "observed" /\ operations'[o].phase = "observed" =>
             LET p == bindings[operations[o].request.binding].provider
             IN /\ p \in DOMAIN providers
                /\ \A k \in (operations[o].registration + 1)..Len(events) :
                     events[k].provider # p]_(Gateway!gateway)
  <2> SUFFICES ASSUME GatewayInv, Gateway!Next, NEW o \in DOMAIN operations,
                      operations[o].phase # "observed", operations'[o].phase = "observed"
               PROVE  LET p == bindings[operations[o].request.binding].provider
                      IN /\ p \in DOMAIN providers
                         /\ \A k \in (operations[o].registration + 1)..Len(events) :
                              events[k].provider # p
    BY PartSteps DEF gateway, Gateway!gateway
  <2>0. /\ operations \in Seq(Operation) /\ Len(events) \in Nat
        /\ DOMAIN operations = 1..Len(operations) /\ Len(operations) \in Nat
    BY DEF GatewayInv, GatewayTypes
  <2> DEFINE Moved(q, to) ==
               \/ operations' = [operations EXCEPT ![q].phase = to]
               \/ operations' = [operations EXCEPT ![q].phase = to, ![q].invoked = @ \/ to = "invoking"]
  <2>1. ASSUME NEW q \in DOMAIN operations, NEW to, Moved(q, to)
        PROVE  q = o /\ to = "observed"
    <3>1. PICK y : /\ \/ y = [operations[q] EXCEPT !.phase = to]
                      \/ y = [operations[q] EXCEPT !.phase = to, !.invoked = @ \/ to = "invoking"]
                   /\ operations' = [operations EXCEPT ![q] = y]
      BY <2>1
    <3>2. y.phase = to
      <4>1. operations[q] \in Operation
        BY <2>0
      <4>2. CASE y = [operations[q] EXCEPT !.phase = to]
        BY <4>1, <4>2 DEF Operation
      <4>3. CASE y = [operations[q] EXCEPT !.phase = to, !.invoked = @ \/ to = "invoking"]
        <5>1. PICK b : b = (operations[q].invoked \/ to = "invoking")
          OBVIOUS
        <5>2. y = [operations[q] EXCEPT !.phase = to, !.invoked = b]
          BY <4>3, <5>1, Zenon
        <5> QED
          BY <4>1, <5>2 DEF Operation
      <4> QED
        BY <3>1, <4>2, <4>3
    <3> HIDE DEF Moved
    <3>3. operations'[q] = y /\ (o # q => operations'[o] = operations[o])
      BY <2>0, <3>1
    <3> QED
      BY <3>2, <3>3
  <2>2. ASSUME NEW request \in GatewayRequests PROVE ~Gateway!Execute(request)
    BY <2>0, SeqAppend DEF Gateway!Execute
  <2>3. PICK q \in DOMAIN operations : Gateway!Step(q)
    BY <2>2 DEF Gateway!Next, Gateway!RegisterToolContract, Gateway!RegisterProvider,
       Gateway!UnregisterProvider, Gateway!BindProvider
  <2>4. ASSUME NEW answer \in BOOLEAN
        PROVE  ~Gateway!Authorize(q, answer) /\ ~Gateway!ResolveCredential(q, answer)
    <3>1. Gateway!Authorize(q, answer) \/ Gateway!ResolveCredential(q, answer) =>
            \E to \in {"resolving", "invoking", "rejected"} : Gateway!Moves(q, to)
      BY DEF Gateway!Authorize, Gateway!ResolveCredential
    <3>2. \A to : Gateway!Moves(q, to) => Moved(q, to)
      BY DEF Gateway!Moves
    <3> HIDE DEF Moved
    <3> QED
      BY <2>1, <3>1, <3>2
  <2>5. ~Gateway!Forget(q)
    <3>1. Gateway!Forget(q) => Moved(q, "ended")
      BY DEF Gateway!Forget
    <3> HIDE DEF Moved
    <3> QED
      BY <2>1, <3>1
  <2>6. PICK ok \in BOOLEAN : Gateway!AdapterAnswers(q, ok)
    BY <2>3, <2>4, <2>5 DEF Gateway!Step
  <2>7. q = o /\ Gateway!Current(q)
    <3>1. PICK to : /\ Gateway!Moves(q, to)
                    /\ to = IF ok /\ Gateway!StillCurrent(q) THEN "observed" ELSE "rejected"
      BY <2>6 DEF Gateway!AdapterAnswers
    <3>2. Moved(q, to)
      BY <3>1 DEF Gateway!Moves
    <3> HIDE DEF Moved
    <3>3. q = o /\ to = "observed"
      BY <2>1, <3>2
    <3> QED
      BY <3>1, <3>3 DEF Gateway!StillCurrent
  <2> QED
    BY <2>0, <2>7 DEF Gateway!Current, GatewayInv, Undisturbed, Operation
<1> QED
  BY <1>1, GatewayInvariance, PTL DEF Spec, all, ReceiptsAreCurrent, Gateway!ReceiptsAreCurrent

-----------------------------------------------------------------------------
(* The compute nodes                                                       *)

ComputeCall == [request : Compute!Request, executed : BOOLEAN,
                phase : {"authorizing", "executing", "forgotten"} \cup Compute!Outcomes]

ComputeTypes ==
  /\ DOMAIN nodes \subseteq Machines
  /\ DOMAIN leases \subseteq Leases
  /\ leases \in [DOMAIN leases -> [node : Machines, workload : Workloads, required : SUBSET Capabilities,
                                   expiresAt : Nat, consumedBy : 0..Len(calls)]]
  /\ idempotency \in [DOMAIN idempotency -> 1..Len(calls)]
  /\ workloads \in [DOMAIN workloads -> DOMAIN idempotency]
  /\ calls \in Seq(ComputeCall)

\* A call is known by its key and its workload until it is forgotten; it was
\* executed exactly when its lease says so.
Accounted(c) ==
  LET request == calls[c].request
  IN /\ calls[c].phase # "forgotten" =>
          /\ request.key \in DOMAIN idempotency /\ idempotency[request.key] = c
          /\ request.workload \in DOMAIN workloads /\ workloads[request.workload] = request.key
     /\ calls[c].executed <=>
          request.lease \in DOMAIN leases /\ leases[request.lease].consumedBy = c

ComputeInv ==
  /\ ComputeTypes
  /\ \A c \in DOMAIN calls : Accounted(c)
  /\ \A k \in DOMAIN idempotency :
       calls[idempotency[k]].request.key = k /\ calls[idempotency[k]].phase # "forgotten"
  /\ \A w \in DOMAIN workloads : calls[idempotency[workloads[w]]].request.workload = w

\* Whatever the registry, an execution and its executor do next.
LEMMA ComputeStep ==
  ASSUME ComputeInv, [Compute!Next]_compute
  PROVE  ComputeInv'
<1> DEFINE N == Len(calls)
<1>0. /\ ComputeTypes /\ N \in Nat /\ DOMAIN calls = 1..N /\ calls \in Seq(ComputeCall)
      /\ \A c \in 1..N : calls[c] \in ComputeCall /\ Accounted(c)
      /\ \A k \in DOMAIN idempotency : /\ idempotency[k] \in 1..N
                                       /\ calls[idempotency[k]].request.key = k
                                       /\ calls[idempotency[k]].phase # "forgotten"
      /\ \A w \in DOMAIN workloads : /\ workloads[w] \in DOMAIN idempotency
                                     /\ calls[idempotency[workloads[w]]].request.workload = w
      /\ \A l \in DOMAIN leases : leases[l].consumedBy \in 0..N
  BY DEF ComputeInv, ComputeTypes
<1>1. ASSUME DOMAIN nodes' \subseteq Machines, UNCHANGED <<leases, idempotency, workloads, calls>>
      PROVE  ComputeInv'
  BY <1>1 DEF ComputeInv, ComputeTypes, Accounted
<1>2. ASSUME NEW n \in DOMAIN nodes, NEW l \in Leases, NEW w \in Workloads,
             NEW required \in SUBSET Capabilities, NEW at \in Compute!Instants,
             NEW ttl \in Compute!Instants, Compute!Lease(l, n, w, required, at, ttl)
      PROVE  ComputeInv'
  <2>1. PICK r : r = [node |-> n, workload |-> w, required |-> required,
                      expiresAt |-> at + ttl, consumedBy |-> 0]
    OBVIOUS
  <2>2. /\ l \notin DOMAIN leases
        /\ leases' = [x \in DOMAIN leases \cup {l} |-> IF x = l THEN r ELSE leases[x]]
        /\ UNCHANGED <<nodes, idempotency, workloads, calls>>
    BY <1>2, <2>1 DEF Compute!Lease, Compute!Put, Compute!Unconsumed
  <2>3. /\ r \in [node : Machines, workload : Workloads, required : SUBSET Capabilities,
                   expiresAt : Nat, consumedBy : 0..N]
        /\ r.consumedBy = 0
    BY <1>0, <1>2, <2>1 DEF ComputeTypes, Compute!Instants
  <2>4. ComputeTypes'
    BY <1>0, <2>2, <2>3 DEF ComputeTypes
  <2>5. \A c \in 1..N : Accounted(c)'
    BY <1>0, <2>2, <2>3 DEF Accounted
  <2> QED
    BY <1>0, <2>2, <2>4, <2>5 DEF ComputeInv
<1>3. ASSUME NEW request \in ComputeRequests, Compute!Execute(request) PROVE ComputeInv'
  <2>1. PICK r : r = [request |-> request, executed |-> FALSE,
                      phase |-> IF request.withinLimits /\ Compute!Allocatable(request)
                                THEN "authorizing" ELSE "rejected"]
    OBVIOUS
  <2>2. /\ request.key \notin DOMAIN idempotency /\ request.workload \notin DOMAIN workloads
        /\ idempotency' = [x \in DOMAIN idempotency \cup {request.key} |->
                             IF x = request.key THEN N + 1 ELSE idempotency[x]]
        /\ workloads' = [x \in DOMAIN workloads \cup {request.workload} |->
                           IF x = request.workload THEN request.key ELSE workloads[x]]
        /\ calls' = Append(calls, r) /\ UNCHANGED <<nodes, leases>>
    BY <1>3, <2>1 DEF Compute!Execute, Compute!Put
  <2>3. /\ request \in Compute!Request /\ r \in ComputeCall /\ r.request = request
        /\ ~r.executed /\ r.phase # "forgotten"
    BY <2>1, ComputeAssumption DEF Compute!RequestsAssumption, ComputeCall, Compute!Outcomes
  <2>4. /\ DOMAIN calls' = 1..(N + 1) /\ 1..(N + 1) = 1..N \cup {N + 1} /\ Len(calls') = N + 1
        /\ calls'[N + 1] = r /\ calls' \in Seq(ComputeCall)
        /\ \A c \in 1..N : calls'[c] = calls[c]
    BY <1>0, <2>2, <2>3, SeqAppend
  <2>5. /\ DOMAIN idempotency' = DOMAIN idempotency \cup {request.key}
        /\ idempotency'[request.key] = N + 1
        /\ \A k \in DOMAIN idempotency : k # request.key /\ idempotency'[k] = idempotency[k]
        /\ DOMAIN workloads' = DOMAIN workloads \cup {request.workload}
        /\ workloads'[request.workload] = request.key
        /\ \A w \in DOMAIN workloads : w # request.workload /\ workloads'[w] = workloads[w]
    BY <2>2
  <2>6. ComputeTypes'
    <3>1. /\ idempotency' \in [DOMAIN idempotency' -> 1..Len(calls')]
          /\ workloads' \in [DOMAIN workloads' -> DOMAIN idempotency']
      BY <1>0, <2>2, <2>4, <2>5
    <3>2. /\ DOMAIN leases' \subseteq Leases
          /\ leases' \in [DOMAIN leases' -> [node : Machines, workload : Workloads,
                            required : SUBSET Capabilities, expiresAt : Nat,
                            consumedBy : 0..Len(calls')]]
      <4>1. 0..N \subseteq 0..Len(calls')
        BY <1>0, <2>4
      <4> QED
        BY <1>0, <2>2, <4>1 DEF ComputeTypes
    <3> QED
      BY <1>0, <2>2, <2>4, <3>1, <3>2 DEF ComputeTypes
  <2>7. ASSUME NEW n, n = N + 1 PROVE Accounted(n)'
    <3>1. \A l \in DOMAIN leases : leases[l].consumedBy # n
      BY <1>0, <2>7
    <3> QED
      BY <2>2, <2>3, <2>4, <2>5, <2>7, <3>1 DEF Accounted
  <2>8. ASSUME NEW c \in 1..N PROVE Accounted(c)'
    BY <1>0, <2>2, <2>4, <2>5 DEF Accounted
  <2>9. \A k \in DOMAIN idempotency' :
          calls'[idempotency'[k]].request.key = k /\ calls'[idempotency'[k]].phase # "forgotten"
    BY <1>0, <2>3, <2>4, <2>5
  <2>10. \A w \in DOMAIN workloads' : calls'[idempotency'[workloads'[w]]].request.workload = w
    BY <1>0, <2>3, <2>4, <2>5
  <2>11. \A c \in DOMAIN calls' : Accounted(c)'
    BY <2>4, <2>7, <2>8
  <2> QED
    BY <2>6, <2>9, <2>10, <2>11 DEF ComputeInv
<1>4. ASSUME NEW c \in 1..N, NEW x \in ComputeCall, calls' = [calls EXCEPT ![c] = x],
             x.request = calls[c].request, x.executed = calls[c].executed,
             calls[c].phase # "forgotten", x.phase # "forgotten",
             UNCHANGED <<nodes, leases, idempotency, workloads>>
      PROVE  ComputeInv'
  <2>1. /\ calls' \in Seq(ComputeCall) /\ Len(calls') = N /\ DOMAIN calls' = 1..N
        /\ \A d \in 1..N : /\ calls'[d].request = calls[d].request
                           /\ calls'[d].executed = calls[d].executed
                           /\ calls'[d].phase # "forgotten" <=> calls[d].phase # "forgotten"
    BY <1>0, <1>4, SeqReplace
  <2>2. ComputeTypes'
    BY <1>0, <1>4, <2>1 DEF ComputeTypes
  <2>3. \A d \in 1..N : Accounted(d)'
    BY <1>0, <1>4, <2>1 DEF Accounted
  <2> QED
    BY <1>0, <1>4, <2>1, <2>2, <2>3 DEF ComputeInv
<1>5. ASSUME NEW c \in 1..N, NEW authorized \in BOOLEAN, Compute!Authorize(c, authorized)
      PROVE  ComputeInv'
  <2> DEFINE l == calls[c].request.lease
  <2>1. CASE authorized /\ Compute!Allocatable(calls[c].request)
    <3>1. PICK x, y : /\ x = [calls[c] EXCEPT !.phase = "executing", !.executed = TRUE]
                      /\ y = [leases[l] EXCEPT !.consumedBy = c]
      OBVIOUS
    <3>2. /\ calls' = [calls EXCEPT ![c] = x] /\ leases' = [leases EXCEPT ![l] = y]
          /\ calls[c].phase = "authorizing" /\ UNCHANGED <<nodes, idempotency, workloads>>
          /\ l \in DOMAIN leases /\ leases[l].consumedBy = 0
      BY <1>5, <2>1, <3>1 DEF Compute!Authorize, Compute!Allocatable, Compute!Unconsumed
    <3>3. x \in ComputeCall /\ x.request = calls[c].request /\ x.executed /\ x.phase = "executing"
      BY <1>0, <3>1 DEF ComputeCall
    <3>4. /\ calls' \in Seq(ComputeCall) /\ Len(calls') = N /\ DOMAIN calls' = 1..N
          /\ calls'[c] = x /\ \A d \in 1..N : d # c => calls'[d] = calls[d]
      BY <1>0, <3>2, <3>3, SeqReplace
    <3>5. /\ DOMAIN leases' = DOMAIN leases /\ leases'[l] = y
          /\ \A m \in DOMAIN leases : m # l => leases'[m] = leases[m]
      BY <3>2
    <3>6. /\ y \in [node : Machines, workload : Workloads, required : SUBSET Capabilities,
                    expiresAt : Nat, consumedBy : 0..N]
          /\ y.consumedBy = c
      <4>1. leases[l] \in [node : Machines, workload : Workloads, required : SUBSET Capabilities,
                           expiresAt : Nat, consumedBy : 0..N]
        BY <1>0, <3>2 DEF ComputeTypes
      <4>2. c \in 0..N
        BY <1>0
      <4> HIDE DEF N
      <4> QED
        BY <3>1, <4>1, <4>2
    <3>7. ComputeTypes'
      BY <1>0, <3>2, <3>4, <3>6 DEF ComputeTypes
    <3>8. ASSUME NEW d \in 1..N PROVE Accounted(d)'
      <4>1. CASE d = c
        BY <1>0, <3>2, <3>3, <3>4, <3>5, <3>6, <4>1 DEF Accounted
      <4>2. CASE d # c /\ calls[d].request.lease = l
        BY <1>0, <3>2, <3>4, <3>5, <3>6, <4>2 DEF Accounted
      <4>3. CASE d # c /\ calls[d].request.lease # l
        BY <1>0, <3>2, <3>4, <3>5, <4>3 DEF Accounted
      <4> QED
        BY <4>1, <4>2, <4>3
    <3>9. \A d \in 1..N : /\ calls'[d].request = calls[d].request
                          /\ calls[d].phase # "forgotten" => calls'[d].phase # "forgotten"
      BY <3>3, <3>4
    <3> QED
      BY <1>0, <3>2, <3>4, <3>7, <3>8, <3>9 DEF ComputeInv
  <2>2. CASE ~(authorized /\ Compute!Allocatable(calls[c].request))
    <3>1. PICK x : x = [calls[c] EXCEPT !.phase = "rejected"]
      OBVIOUS
    <3>2. /\ calls' = [calls EXCEPT ![c] = x] /\ calls[c].phase = "authorizing"
          /\ UNCHANGED <<nodes, leases, idempotency, workloads>>
      BY <1>5, <2>2, <3>1 DEF Compute!Authorize
    <3>3. /\ x \in ComputeCall /\ x.request = calls[c].request
          /\ x.executed = calls[c].executed /\ x.phase = "rejected"
      BY <1>0, <3>1 DEF ComputeCall, Compute!Outcomes
    <3> QED
      BY <1>4, <3>2, <3>3
  <2> QED
    BY <2>1, <2>2
<1>6. ASSUME NEW c \in 1..N, NEW end \in Compute!Outcomes, Compute!Finish(c, end)
      PROVE  ComputeInv'
  <2>1. PICK x : x = [calls[c] EXCEPT !.phase = end]
    OBVIOUS
  <2>2. /\ calls' = [calls EXCEPT ![c] = x] /\ calls[c].phase = "executing"
        /\ UNCHANGED <<nodes, leases, idempotency, workloads>>
    BY <1>6, <2>1 DEF Compute!Finish
  <2>3. /\ x \in ComputeCall /\ x.request = calls[c].request
        /\ x.executed = calls[c].executed /\ x.phase # "forgotten"
    BY <1>0, <2>1 DEF ComputeCall, Compute!Outcomes
  <2> QED
    BY <1>4, <2>2, <2>3
<1>7. ASSUME NEW c \in 1..N, Compute!Forget(c) PROVE ComputeInv'
  <2> DEFINE k == calls[c].request.key
             w == calls[c].request.workload
  <2>1. PICK x : x = [calls[c] EXCEPT !.phase = "forgotten"]
    OBVIOUS
  <2>2. calls[c].phase = "rejected" /\ calls' = [calls EXCEPT ![c] = x]
        /\ UNCHANGED <<nodes, leases>>
    BY <1>7, <2>1 DEF Compute!Forget
  <2>3. /\ k \in DOMAIN idempotency /\ idempotency[k] = c
        /\ w \in DOMAIN workloads /\ workloads[w] = k
    BY <1>0, <2>2 DEF Accounted
  <2>4. /\ idempotency' = [y \in DOMAIN idempotency \ {k} |-> idempotency[y]]
        /\ workloads' = [y \in DOMAIN workloads \ {w} |-> workloads[y]]
    BY <1>7, <2>3 DEF Compute!Forget, Compute!Restrict
  <2>5. /\ x \in ComputeCall /\ x.request = calls[c].request
        /\ x.executed = calls[c].executed /\ x.phase = "forgotten"
    BY <1>0, <2>1 DEF ComputeCall
  <2>6. /\ calls' \in Seq(ComputeCall) /\ Len(calls') = N /\ DOMAIN calls' = 1..N
        /\ calls'[c] = x /\ \A d \in 1..N : d # c => calls'[d] = calls[d]
    BY <1>0, <2>2, <2>5, SeqReplace
  <2>7. \A v \in DOMAIN workloads : v # w => workloads[v] # k
    BY <1>0, <2>3
  <2>8. ComputeTypes'
    <3>1. idempotency' \in [DOMAIN idempotency' -> 1..N]
      BY <1>0, <2>4
    <3>2. workloads' \in [DOMAIN workloads' -> DOMAIN idempotency']
      BY <1>0, <2>4, <2>7
    <3> QED
      BY <1>0, <2>2, <2>6, <3>1, <3>2 DEF ComputeTypes
  <2>9. ASSUME NEW d \in 1..N PROVE Accounted(d)'
    <3>1. CASE d = c
      BY <1>0, <2>2, <2>5, <2>6, <3>1 DEF Accounted
    <3>2. CASE d # c
      <4>1. calls'[d] = calls[d]
        BY <2>6, <3>2
      <4>2. calls[d].phase # "forgotten" =>
              /\ calls[d].request.key \in DOMAIN idempotency'
              /\ idempotency'[calls[d].request.key] = d
              /\ calls[d].request.workload \in DOMAIN workloads'
              /\ workloads'[calls[d].request.workload] = calls[d].request.key
        BY <1>0, <2>3, <2>4, <3>2 DEF Accounted
      <4> QED
        BY <1>0, <2>2, <4>1, <4>2 DEF Accounted
    <3> QED
      BY <3>1, <3>2
  <2>10. \A j \in DOMAIN idempotency' : idempotency'[j] = idempotency[j] /\ idempotency[j] # c
    BY <1>0, <2>4
  <2>11. \A j \in DOMAIN idempotency' :
           calls'[idempotency'[j]].request.key = j /\ calls'[idempotency'[j]].phase # "forgotten"
    BY <1>0, <2>4, <2>6, <2>10
  <2>12. \A v \in DOMAIN workloads' : calls'[idempotency'[workloads'[v]]].request.workload = v
    BY <1>0, <2>4, <2>6, <2>7, <2>10
  <2> QED
    BY <2>6, <2>8, <2>9, <2>11, <2>12 DEF ComputeInv
<1>8. CASE UNCHANGED compute
  BY <1>0, <1>1, <1>8 DEF compute, ComputeTypes
<1>9. ASSUME NEW n \in Machines, NEW capabilities, NEW at, NEW ttl,
             \/ Compute!Register(n, capabilities, at, ttl)
             \/ n \in DOMAIN nodes /\ Compute!Heartbeat(n, nodes[n].version, at, ttl)
      PROVE  ComputeInv'
  <2>1. DOMAIN nodes' \subseteq Machines /\ UNCHANGED <<leases, idempotency, workloads, calls>>
    BY <1>0, <1>9 DEF ComputeTypes, Compute!Register, Compute!Heartbeat, Compute!Put
  <2> QED
    BY <1>1, <2>1
<1>10. \A request \in ComputeRequests : request.workload \in Workloads
  BY ComputeAssumption DEF Compute!RequestsAssumption, Compute!Request
<1>11. Compute!Offered(Leases, DOMAIN leases) \subseteq Leases /\ DOMAIN nodes \subseteq Machines
  BY <1>0 DEF ComputeTypes, Compute!Offered
<1>12. ASSUME NEW n \in DOMAIN nodes, NEW at \in Compute!Instants, NEW ttl \in Compute!Instants,
              NEW l \in Compute!Offered(Leases, DOMAIN leases), NEW r \in ComputeRequests,
              NEW required \in SUBSET Capabilities,
              Compute!Lease(l, n, r.workload, required, at, ttl)
       PROVE  ComputeInv'
  BY <1>2, <1>10, <1>11, <1>12
<1>13. ASSUME NEW c \in 1..N, Compute!Step(c) PROVE ComputeInv'
  BY <1>5, <1>6, <1>7, <1>13 DEF Compute!Step
<1> QED
  BY <1>0, <1>3, <1>8, <1>9, <1>11, <1>12, <1>13 DEF Compute!Next

LEMMA ComputeInitial == Compute!Init => ComputeInv
BY DEF Compute!Init, ComputeInv, ComputeTypes, Accounted

LEMMA ComputeOnce == ComputeInv => Compute!ExecutedOnce
<1> SUFFICES ASSUME ComputeInv PROVE Compute!ExecutedOnce
  OBVIOUS
<1>1. \A c \in DOMAIN calls :
        calls[c].executed <=> \E l \in DOMAIN leases :
                                l = calls[c].request.lease /\ leases[l].consumedBy = c
  BY DEF ComputeInv, Accounted
<1>2. ASSUME NEW c \in DOMAIN calls, NEW d \in DOMAIN calls, c # d,
             calls[c].request.workload = calls[d].request.workload,
             calls[c].phase # "forgotten", calls[d].phase # "forgotten"
      PROVE  FALSE
  BY <1>2 DEF ComputeInv, Accounted
<1>3. \A k \in DOMAIN idempotency : calls[idempotency[k]].phase # "forgotten"
  BY DEF ComputeInv
<1>4. \A w \in DOMAIN workloads : workloads[w] \in DOMAIN idempotency
  BY DEF ComputeInv, ComputeTypes
<1> QED
  BY <1>1, <1>2, <1>3, <1>4 DEF Compute!ExecutedOnce

-----------------------------------------------------------------------------
(* The hosted compute node                                                 *)

Run == [phase : {"leasing", "authorizing", "waiting", "publishing", "ended"},
        envelope : {<<>>} \cup Hosted!Envelopes, authorized : BOOLEAN]
Execution == [body : Bodies, by : Nat, count : {1}, status : {"running", "observed", "failed"}]

HostedTypes ==
  /\ runs \in Seq(Run)
  /\ executions \in [DOMAIN executions -> Execution]
  /\ DOMAIN executions \subseteq Keys

\* What is remembered under a key was authorized for the run that started it.
Started(key) ==
  /\ executions[key].by \in DOMAIN runs
  /\ runs[executions[key].by].authorized
  /\ runs[executions[key].by].envelope = <<key, executions[key].body>>

\* A run holds an envelope from the lease on; once it may, it waits for the
\* execution of its own envelope, and publishes what was observed.
Holds(r) ==
  /\ runs[r].phase \in {"authorizing", "waiting", "publishing"} =>
       runs[r].envelope \in Hosted!Envelopes
  /\ runs[r].authorized => runs[r].phase \in {"waiting", "publishing", "ended"}
  /\ runs[r].phase \in {"waiting", "publishing"} =>
       /\ runs[r].authorized
       /\ runs[r].envelope[1] \in DOMAIN executions
       /\ runs[r].envelope = <<runs[r].envelope[1], executions[runs[r].envelope[1]].body>>
  /\ runs[r].phase = "publishing" => executions[runs[r].envelope[1]].status = "observed"

\* What was published is the observation of an execution, for a run that had
\* an authority of its own for it.
Told(p) ==
  /\ p[1] \in DOMAIN runs /\ p[2] \in DOMAIN executions
  /\ executions[p[2]].status = "observed"
  /\ runs[p[1]].authorized
  /\ runs[p[1]].envelope = <<p[2], executions[p[2]].body>>

HostedInv ==
  /\ HostedTypes
  /\ \A key \in DOMAIN executions : Started(key)
  /\ \A r \in DOMAIN runs : Holds(r)
  /\ \A p \in published : Told(p)

\* Whatever the node, its port and its provider do next.
LEMMA HostedStep ==
  ASSUME HostedInv, [Hosted!Next]_hosted
  PROVE  HostedInv'
<1> DEFINE N == Len(runs)
<1>0. /\ HostedTypes /\ N \in Nat /\ DOMAIN runs = 1..N /\ runs \in Seq(Run)
      /\ \A r \in 1..N : runs[r] \in Run /\ Holds(r)
      /\ \A key \in DOMAIN executions : executions[key] \in Execution /\ key \in Keys /\ Started(key)
      /\ \A p \in published : Told(p)
  BY DEF HostedInv, HostedTypes
\* A run moves on; what is remembered and published stays.
<1>1. ASSUME NEW r \in 1..N, NEW x \in Run, runs' = [runs EXCEPT ![r] = x],
             runs[r].authorized => x.authorized /\ x.envelope = runs[r].envelope,
             UNCHANGED <<executions, published>>,
             x.phase \in {"authorizing", "waiting", "publishing"} => x.envelope \in Hosted!Envelopes,
             x.authorized => x.phase \in {"waiting", "publishing", "ended"},
             x.phase \in {"waiting", "publishing"} =>
               /\ x.authorized /\ x.envelope[1] \in DOMAIN executions
               /\ x.envelope = <<x.envelope[1], executions[x.envelope[1]].body>>,
             x.phase = "publishing" => executions[x.envelope[1]].status = "observed"
      PROVE  HostedInv'
  <2>1. /\ runs' \in Seq(Run) /\ DOMAIN runs' = 1..N /\ runs'[r] = x
        /\ \A q \in 1..N : q # r => runs'[q] = runs[q]
    BY <1>0, <1>1, SeqReplace
  <2>2. \A q \in 1..N : runs[q].authorized =>
          runs'[q].authorized /\ runs'[q].envelope = runs[q].envelope
    BY <1>1, <2>1
  <2>3. HostedTypes'
    BY <1>0, <1>1, <2>1 DEF HostedTypes
  <2>4. \A key \in DOMAIN executions' : Started(key)'
    BY <1>0, <1>1, <2>1, <2>2 DEF Started
  <2>5. ASSUME NEW q \in 1..N PROVE Holds(q)'
    <3>1. CASE q = r
      BY <1>1, <2>1, <3>1 DEF Holds
    <3>2. CASE q # r
      <4>1. runs'[q] = runs[q]
        BY <2>1, <3>2
      <4> QED
        BY <1>0, <1>1, <4>1 DEF Holds
    <3> QED
      BY <3>1, <3>2
  <2>6. \A p \in published' : Told(p)'
    BY <1>0, <1>1, <2>1, <2>2 DEF Told
  <2> QED
    BY <2>1, <2>3, <2>4, <2>5, <2>6 DEF HostedInv
<1>2. ASSUME NEW at, Hosted!RunNext(at) PROVE HostedInv'
  <2>1. PICK x : x = [phase |-> "leasing", envelope |-> <<>>, authorized |-> FALSE]
    OBVIOUS
  <2>2. runs' = Append(runs, x) /\ UNCHANGED <<executions, published>>
    BY <1>2, <2>1 DEF Hosted!RunNext
  <2>3. x \in Run /\ x.phase = "leasing" /\ ~x.authorized
    BY <2>1 DEF Run
  <2>4. /\ runs' \in Seq(Run) /\ DOMAIN runs' = 1..(N + 1) /\ 1..(N + 1) = 1..N \cup {N + 1}
        /\ runs'[N + 1] = x /\ \A q \in 1..N : runs'[q] = runs[q]
    BY <1>0, <2>2, <2>3, SeqAppend
  <2>5. HostedTypes'
    BY <1>0, <2>2, <2>4 DEF HostedTypes
  <2>6. \A key \in DOMAIN executions' : Started(key)'
    BY <1>0, <2>2, <2>4 DEF Started
  <2>7. \A q \in 1..N : Holds(q)'
    BY <1>0, <2>2, <2>4 DEF Holds
  <2>8. ASSUME NEW n, n = N + 1 PROVE Holds(n)'
    BY <2>3, <2>4, <2>8 DEF Holds
  <2>9. \A p \in published' : Told(p)'
    BY <1>0, <2>2, <2>4 DEF Told
  <2> QED
    BY <2>4, <2>5, <2>6, <2>7, <2>8, <2>9 DEF HostedInv
<1>3. ASSUME NEW r \in 1..N, Hosted!NothingLeased(r) \/ Hosted!Denied(r) PROVE HostedInv'
  <2>1. PICK x : x = [runs[r] EXCEPT !.phase = "ended"]
    OBVIOUS
  <2>2. runs' = [runs EXCEPT ![r] = x] /\ UNCHANGED <<executions, published>>
    BY <1>3, <2>1 DEF Hosted!NothingLeased, Hosted!Denied, Hosted!Moves
  <2>3. /\ x \in Run /\ x.phase = "ended" /\ x.envelope = runs[r].envelope
        /\ x.authorized = runs[r].authorized
    BY <1>0, <2>1 DEF Run
  <2> QED
    BY <1>1, <2>2, <2>3
<1>4. ASSUME NEW r \in 1..N, NEW envelope \in Hosted!Envelopes, Hosted!Leased(r, envelope)
      PROVE  HostedInv'
  <2>1. PICK x : x = [runs[r] EXCEPT !.phase = "authorizing", !.envelope = envelope]
    OBVIOUS
  <2>2. /\ runs' = [runs EXCEPT ![r] = x] /\ UNCHANGED <<executions, published>>
        /\ runs[r].phase = "leasing"
    BY <1>4, <2>1 DEF Hosted!Leased
  <2>3. /\ x \in Run /\ x.phase = "authorizing" /\ x.envelope = envelope
        /\ x.authorized = runs[r].authorized
    BY <1>0, <2>1 DEF Run
  <2>4. ~runs[r].authorized
    BY <1>0, <2>2 DEF Holds
  <2> QED
    BY <1>1, <2>2, <2>3, <2>4
<1>5. ASSUME NEW r \in 1..N, Hosted!Authorized(r) PROVE HostedInv'
  <2>1. PICK key, body : key = runs[r].envelope[1] /\ body = runs[r].envelope[2]
    OBVIOUS
  <2>2. /\ runs[r].phase = "authorizing" /\ key \in Keys /\ body \in Bodies
        /\ runs[r].envelope = <<key, body>> /\ runs[r].envelope \in Hosted!Envelopes
    BY <1>0, <1>5, <2>1 DEF Hosted!Authorized, Holds, Hosted!Envelopes
  <2>3. PICK x : x = [runs[r] EXCEPT !.authorized = TRUE,
                        !.phase = IF key \in DOMAIN executions /\ executions[key].body # body
                                  THEN "ended" ELSE "waiting"]
    OBVIOUS
  <2>4. runs' = [runs EXCEPT ![r] = x] /\ UNCHANGED published
    BY <1>5, <2>1, <2>3 DEF Hosted!Authorized
  <2>5. /\ x \in Run /\ x.authorized /\ x.envelope = <<key, body>> /\ x.phase \in {"ended", "waiting"}
        /\ x.phase = "waiting" /\ key \in DOMAIN executions => executions[key].body = body
    BY <1>0, <2>2, <2>3 DEF Run
  <2>6. CASE key \in DOMAIN executions
    <3>1. UNCHANGED executions
      BY <1>5, <2>1, <2>6 DEF Hosted!Authorized
    <3>2. ~runs[r].authorized
      BY <1>0, <2>2 DEF Holds
    <3>3. /\ x.envelope = runs[r].envelope /\ x.envelope[1] = key /\ x.envelope \in Hosted!Envelopes
          /\ x.phase = "waiting" =>
               x.envelope = <<x.envelope[1], executions[x.envelope[1]].body>>
      BY <2>2, <2>5, <2>6
    <3> QED
      BY <1>1, <2>4, <2>5, <2>6, <3>1, <3>2, <3>3
  <2>7. CASE key \notin DOMAIN executions
    <3>1. PICK y : y = [body |-> body, by |-> r, count |-> 1, status |-> "running"]
      OBVIOUS
    <3>2. executions' = [k \in DOMAIN executions \cup {key} |-> IF k = key THEN y ELSE executions[k]]
      BY <1>5, <2>1, <2>7, <3>1 DEF Hosted!Authorized, Hosted!Put
    <3>3. y \in Execution /\ y.by = r /\ y.body = body
      BY <1>0, <2>2, <3>1 DEF Execution
    <3>4. /\ DOMAIN executions' = DOMAIN executions \cup {key} /\ executions'[key] = y
          /\ \A k \in DOMAIN executions : executions'[k] = executions[k]
      BY <2>7, <3>2
    <3>5. /\ runs' \in Seq(Run) /\ DOMAIN runs' = 1..N /\ runs'[r] = x
          /\ \A q \in 1..N : q # r => runs'[q] = runs[q]
      BY <1>0, <2>4, <2>5, SeqReplace
    <3>6. \A q \in 1..N : runs[q].authorized => q # r
      BY <1>0, <2>2 DEF Holds
    <3>7. HostedTypes'
      BY <1>0, <2>2, <3>2, <3>3, <3>4, <3>5 DEF HostedTypes
    <3>8. ASSUME NEW k \in DOMAIN executions' PROVE Started(k)'
      <4>1. CASE k = key
        BY <2>5, <3>3, <3>4, <3>5, <4>1 DEF Started
      <4>2. CASE k \in DOMAIN executions
        BY <1>0, <3>4, <3>5, <3>6, <4>2 DEF Started
      <4> QED
        BY <3>4, <4>1, <4>2
    <3>9. ASSUME NEW q \in 1..N PROVE Holds(q)'
      <4>1. CASE q = r
        <5>1. x.envelope[1] = key
          BY <2>5
        <5> QED
          BY <2>2, <2>5, <3>3, <3>4, <3>5, <4>1, <5>1 DEF Holds
      <4>2. CASE q # r
        <5>1. runs'[q] = runs[q]
          BY <3>5, <4>2
        <5> QED
          BY <1>0, <3>4, <5>1 DEF Holds
      <4> QED
        BY <4>1, <4>2
    <3>10. \A p \in published' : Told(p)'
      BY <1>0, <2>4, <3>4, <3>5, <3>6 DEF Told
    <3> QED
      BY <3>5, <3>7, <3>8, <3>9, <3>10 DEF HostedInv
  <2> QED
    BY <2>6, <2>7
<1>6. ASSUME NEW key \in DOMAIN executions, NEW status \in {"observed", "failed"},
             Hosted!ProviderAnswers(key, status)
      PROVE  HostedInv'
  <2>1. PICK y : y = [executions[key] EXCEPT !.status = status]
    OBVIOUS
  <2>2. /\ executions[key].status = "running" /\ executions' = [executions EXCEPT ![key] = y]
        /\ UNCHANGED <<runs, published>>
    BY <1>6, <2>1 DEF Hosted!ProviderAnswers
  <2>3. y \in Execution /\ y.body = executions[key].body /\ y.by = executions[key].by
    BY <1>0, <2>1 DEF Execution
  <2>4. /\ DOMAIN executions' = DOMAIN executions /\ executions' \in [DOMAIN executions -> Execution]
        /\ \A k \in DOMAIN executions : /\ executions'[k].body = executions[k].body
                                        /\ executions'[k].by = executions[k].by
                                        /\ k # key => executions'[k] = executions[k]
    BY <1>0, <2>2, <2>3 DEF HostedTypes
  <2>5. \A k \in DOMAIN executions :
          executions[k].status = "observed" => executions'[k].status = "observed"
    BY <2>2, <2>4
  <2>6. HostedTypes'
    BY <1>0, <2>2, <2>4 DEF HostedTypes
  <2>7. \A k \in DOMAIN executions' : Started(k)'
    BY <1>0, <2>2, <2>4 DEF Started
  <2>8. ASSUME NEW q \in 1..N PROVE Holds(q)'
    BY <1>0, <2>2, <2>4, <2>5 DEF Holds
  <2>9. \A p \in published' : Told(p)'
    BY <1>0, <2>2, <2>4, <2>5 DEF Told
  <2> QED
    BY <1>0, <2>2, <2>6, <2>7, <2>8, <2>9 DEF HostedInv
<1>7. ASSUME NEW r \in 1..N, Hosted!Publish(r) PROVE HostedInv'
  <2>1. PICK x : x = [runs[r] EXCEPT !.phase =
                        IF executions[runs[r].envelope[1]].status = "observed"
                        THEN "publishing" ELSE "ended"]
    OBVIOUS
  <2>2. /\ runs' = [runs EXCEPT ![r] = x] /\ UNCHANGED <<executions, published>>
        /\ runs[r].phase = "waiting"
    BY <1>7, <2>1 DEF Hosted!Publish, Hosted!Settled, Hosted!Moves
  <2>3. /\ x \in Run /\ x.envelope = runs[r].envelope /\ x.authorized = runs[r].authorized
        /\ x.phase \in {"publishing", "ended"}
        /\ x.phase = "publishing" => executions[x.envelope[1]].status = "observed"
    BY <1>0, <2>1 DEF Run
  <2>4. Holds(r)
    BY <1>0
  <2> QED
    BY <1>1, <2>2, <2>3, <2>4 DEF Holds
<1>8. ASSUME NEW r \in 1..N, NEW ok \in BOOLEAN, Hosted!PublicationEnds(r, ok) PROVE HostedInv'
  <2>1. PICK x : x = [runs[r] EXCEPT !.phase = "ended"]
    OBVIOUS
  <2>2. /\ runs' = [runs EXCEPT ![r] = x] /\ UNCHANGED executions /\ runs[r].phase = "publishing"
        /\ published' \subseteq published \cup {<<r, runs[r].envelope[1]>>}
    BY <1>8, <2>1 DEF Hosted!PublicationEnds, Hosted!Moves
  <2>3. /\ x \in Run /\ x.phase = "ended" /\ x.envelope = runs[r].envelope
        /\ x.authorized = runs[r].authorized
    BY <1>0, <2>1 DEF Run
  <2>4. /\ runs' \in Seq(Run) /\ DOMAIN runs' = 1..N /\ runs'[r] = x
        /\ \A q \in 1..N : q # r => runs'[q] = runs[q]
    BY <1>0, <2>2, <2>3, SeqReplace
  <2>5. HostedTypes'
    BY <1>0, <2>2, <2>4 DEF HostedTypes
  <2>6. \A k \in DOMAIN executions' : Started(k)'
    BY <1>0, <2>2, <2>3, <2>4 DEF Started
  <2>7. ASSUME NEW q \in 1..N PROVE Holds(q)'
    <3>1. CASE q = r
      BY <2>3, <2>4, <3>1 DEF Holds
    <3>2. CASE q # r
      <4>1. runs'[q] = runs[q]
        BY <2>4, <3>2
      <4> QED
        BY <1>0, <2>2, <4>1 DEF Holds
    <3> QED
      BY <3>1, <3>2
  <2>8. ASSUME NEW p \in published' PROVE Told(p)'
    <3>1. CASE p \in published
      BY <1>0, <2>2, <2>3, <2>4, <3>1 DEF Told
    <3>2. CASE p = <<r, runs[r].envelope[1]>>
      <4>1. p[1] = r /\ p[2] = runs[r].envelope[1]
        BY <3>2
      <4>2. Holds(r)
        BY <1>0
      <4> QED
        BY <2>2, <2>3, <2>4, <4>1, <4>2 DEF Told, Holds
    <3> QED
      BY <2>2, <3>1, <3>2
  <2> QED
    BY <2>4, <2>5, <2>6, <2>7, <2>8 DEF HostedInv
<1>9. ASSUME UNCHANGED <<runs, executions, published>> PROVE HostedInv'
  BY <1>9 DEF HostedInv, HostedTypes, Started, Holds, Told
<1>10. ASSUME NEW r \in 1..N, Hosted!RunStep(r) PROVE HostedInv'
  BY <1>3, <1>4, <1>5, <1>7, <1>8, <1>10 DEF Hosted!RunStep
<1>11. CASE Hosted!Connect \/ Hosted!Answer \/ (\E at \in Hosted!Instants : Hosted!Heartbeat(at))
  BY <1>9, <1>11 DEF Hosted!Connect, Hosted!Answer, Hosted!Heartbeat, Hosted!Registered,
     Hosted!RegistrationFails, Hosted!HeartbeatAnswered, Hosted!HeartbeatFails
<1>12. CASE UNCHANGED hosted
  BY <1>9, <1>12 DEF hosted
<1> QED
  BY <1>0, <1>2, <1>6, <1>10, <1>11, <1>12 DEF Hosted!Next, Hosted!ProviderStep

LEMMA HostedInitial == Hosted!Init => HostedInv
BY DEF Hosted!Init, HostedInv, HostedTypes

LEMMA HostedOnce == HostedInv => Hosted!WorkRunsOnce
<1> SUFFICES ASSUME HostedInv PROVE Hosted!WorkRunsOnce
  OBVIOUS
<1>1. \A key \in DOMAIN executions : executions[key].count = 1
  BY DEF HostedInv, HostedTypes, Execution
<1> QED
  BY <1>1 DEF HostedInv, Started, Told, Hosted!WorkRunsOnce

-----------------------------------------------------------------------------
(* The personal runtime                                                    *)

SeededState == {Personal!NotSeeded} \cup Personal!State

Seed == [owner : Owners, state : SeededState,
         phase : {"reading", "storing", "appending", "seeded", "unanswered", "failed"}]

Done == {s \in DOMAIN seeds : seeds[s].phase \in {"seeded", "unanswered"}}

\* What is in the ledger file, and what any session is of, was seeded by a
\* call that got through; and its object was stored before.
PersonalInv ==
  /\ seeds \in Seq(Seed) /\ opened \in Seq(SeededState) /\ ledgerFile \in SeededState
  /\ \A s \in DOMAIN seeds :
       seeds[s].phase \in {"appending", "seeded", "unanswered"} => seeds[s].state \in stateObjects
  /\ ledgerFile # Personal!NotSeeded \/ Done # {} => \E s \in Done : seeds[s].state = ledgerFile
  /\ \A k \in DOMAIN opened : \E s \in Done : seeds[s].state = opened[k]

\* Whatever a process that seeds or opens the directory does next.
LEMMA PersonalStep ==
  ASSUME PersonalInv, [Personal!Next]_personal
  PROVE  PersonalInv'
<1> DEFINE N == Len(seeds)
<1>0. /\ N \in Nat /\ DOMAIN seeds = 1..N /\ seeds \in Seq(Seed)
      /\ \A s \in 1..N : seeds[s] \in Seed
      /\ opened \in Seq(SeededState) /\ ledgerFile \in SeededState
  BY DEF PersonalInv
\* A call that has not got through moves on; when it does get through, the
\* ledger file is its own.
<1>1. ASSUME NEW s \in 1..N, NEW x \in Seed, seeds' = [seeds EXCEPT ![s] = x],
             seeds[s].phase \in {"reading", "storing", "appending"},
             stateObjects \subseteq stateObjects', opened' = opened,
             x.phase \in {"appending", "seeded", "unanswered"} => x.state \in stateObjects',
             \/ ledgerFile' = ledgerFile /\ x.phase \notin {"seeded", "unanswered"}
             \/ ledgerFile' = x.state /\ x.phase \in {"seeded", "unanswered"}
      PROVE  PersonalInv'
  <2>1. /\ seeds' \in Seq(Seed) /\ DOMAIN seeds' = 1..N /\ seeds'[s] = x
        /\ \A q \in 1..N : q # s => seeds'[q] = seeds[q]
    BY <1>0, <1>1, SeqReplace
  <2>2. \A q \in Done : q # s /\ q \in Done' /\ seeds'[q] = seeds[q]
    BY <1>0, <1>1, <2>1 DEF Done
  <2>3. ledgerFile' \in SeededState
    BY <1>0, <1>1 DEF Seed
  <2>4. \A q \in 1..N : seeds'[q].phase \in {"appending", "seeded", "unanswered"} =>
                          seeds'[q].state \in stateObjects'
    BY <1>0, <1>1, <2>1 DEF PersonalInv
  <2>5. ledgerFile' # Personal!NotSeeded \/ Done' # {} =>
          \E q \in Done' : seeds'[q].state = ledgerFile'
    <3>1. CASE ledgerFile' = ledgerFile /\ x.phase \notin {"seeded", "unanswered"}
      <4>1. Done' = Done
        BY <1>0, <1>1, <2>1, <2>2, <3>1 DEF Done
      <4> QED
        BY <2>2, <3>1, <4>1 DEF PersonalInv
    <3>2. CASE ledgerFile' = x.state /\ x.phase \in {"seeded", "unanswered"}
      <4>1. s \in Done'
        BY <2>1, <3>2 DEF Done
      <4> QED
        BY <2>1, <3>2, <4>1
    <3> QED
      BY <1>1, <3>1, <3>2
  <2>6. \A k \in DOMAIN opened' : \E q \in Done' : seeds'[q].state = opened'[k]
    BY <1>1, <2>2 DEF PersonalInv
  <2> QED
    BY <1>0, <1>1, <2>1, <2>3, <2>4, <2>5, <2>6 DEF PersonalInv
<1>2. ASSUME NEW owner \in Owners, Personal!Begin(owner) PROVE PersonalInv'
  <2>1. PICK x : x = [owner |-> owner, phase |-> "reading", state |-> Personal!NotSeeded]
    OBVIOUS
  <2>2. seeds' = Append(seeds, x) /\ UNCHANGED <<ledgerFile, stateObjects, opened>>
    BY <1>2, <2>1 DEF Personal!Begin
  <2>3. x \in Seed /\ x.phase = "reading"
    BY <2>1 DEF Seed, SeededState
  <2>4. /\ seeds' \in Seq(Seed) /\ DOMAIN seeds' = 1..(N + 1) /\ 1..(N + 1) = 1..N \cup {N + 1}
        /\ seeds'[N + 1] = x /\ \A q \in 1..N : seeds'[q] = seeds[q]
    BY <1>0, <2>2, <2>3, SeqAppend
  <2>5. Done' = Done
    BY <1>0, <2>3, <2>4 DEF Done
  <2>6. \A q \in Done : seeds'[q] = seeds[q]
    BY <1>0, <2>4 DEF Done
  <2>7. \A q \in DOMAIN seeds' : seeds'[q].phase \in {"appending", "seeded", "unanswered"} =>
                                   seeds'[q].state \in stateObjects'
    BY <1>0, <2>2, <2>3, <2>4 DEF PersonalInv
  <2> QED
    BY <1>0, <2>2, <2>4, <2>5, <2>6, <2>7 DEF PersonalInv
<1>3. ASSUME NEW s \in 1..N, Personal!ReadPackage(s) PROVE PersonalInv'
  <2>1. CASE manifest \in Compatible
    <3>1. PICK x : x = [seeds[s] EXCEPT !.phase = "storing", !.state = <<seeds[s].owner, manifest>>]
      OBVIOUS
    <3>2. /\ seeds[s].phase = "reading" /\ seeds' = [seeds EXCEPT ![s] = x]
          /\ UNCHANGED <<ledgerFile, stateObjects, opened>>
      BY <1>3, <2>1, <3>1 DEF Personal!ReadPackage
    <3>3. <<seeds[s].owner, manifest>> \in SeededState
      BY <1>0, <2>1 DEF Seed, SeededState, Personal!State
    <3>4. x \in Seed /\ x.phase = "storing"
      BY <1>0, <3>1, <3>3 DEF Seed
    <3> QED
      BY <1>1, <3>2, <3>4
  <2>2. CASE manifest \notin Compatible
    <3>1. PICK x : x = [seeds[s] EXCEPT !.phase = "failed"]
      OBVIOUS
    <3>2. /\ seeds[s].phase = "reading" /\ seeds' = [seeds EXCEPT ![s] = x]
          /\ UNCHANGED <<ledgerFile, stateObjects, opened>>
      BY <1>3, <2>2, <3>1 DEF Personal!ReadPackage, Personal!Moves
    <3>3. x \in Seed /\ x.phase = "failed"
      BY <1>0, <3>1 DEF Seed
    <3> QED
      BY <1>1, <3>2, <3>3
  <2> QED
    BY <2>1, <2>2
<1>4. ASSUME NEW s \in 1..N, Personal!PutObject(s) PROVE PersonalInv'
  <2>1. PICK x : x = [seeds[s] EXCEPT !.phase = "appending"]
    OBVIOUS
  <2>2. /\ seeds[s].phase = "storing" /\ seeds' = [seeds EXCEPT ![s] = x]
        /\ stateObjects' = stateObjects \cup {seeds[s].state} /\ UNCHANGED <<ledgerFile, opened>>
    BY <1>4, <2>1 DEF Personal!PutObject, Personal!Moves
  <2>3. x \in Seed /\ x.phase = "appending" /\ x.state = seeds[s].state
    BY <1>0, <2>1 DEF Seed
  <2> QED
    BY <1>1, <2>2, <2>3
<1>5. ASSUME NEW s \in 1..N, Personal!AppendArtifact(s) PROVE PersonalInv'
  <2>1. PICK x : x = [seeds[s] EXCEPT !.phase = "seeded"]
    OBVIOUS
  <2>2. /\ seeds[s].phase = "appending" /\ seeds' = [seeds EXCEPT ![s] = x]
        /\ ledgerFile' = seeds[s].state /\ UNCHANGED <<stateObjects, opened>>
    BY <1>5, <2>1 DEF Personal!AppendArtifact, Personal!Moves
  <2>3. x \in Seed /\ x.phase = "seeded" /\ x.state = seeds[s].state
    BY <1>0, <2>1 DEF Seed
  <2>4. seeds[s].state \in stateObjects
    BY <1>0, <2>2 DEF PersonalInv
  <2> QED
    BY <1>1, <2>2, <2>3, <2>4
<1>6. ASSUME NEW s \in 1..N, NEW written \in BOOLEAN, Personal!Stop(s, written) PROVE PersonalInv'
  <2>0. seeds[s].phase \in {"reading", "storing", "appending"} /\ opened' = opened
    BY <1>6 DEF Personal!Stop
  <2>1. CASE written /\ seeds[s].phase = "appending"
    <3>1. PICK x : x = [seeds[s] EXCEPT !.phase = "unanswered"]
      OBVIOUS
    <3>2. /\ seeds' = [seeds EXCEPT ![s] = x] /\ ledgerFile' = seeds[s].state
          /\ stateObjects' = stateObjects
      BY <1>6, <2>1, <3>1 DEF Personal!Stop, Personal!Moves
    <3>3. x \in Seed /\ x.phase = "unanswered" /\ x.state = seeds[s].state
      BY <1>0, <3>1 DEF Seed
    <3>4. seeds[s].state \in stateObjects
      BY <1>0, <2>1 DEF PersonalInv
    <3> QED
      BY <1>1, <2>0, <3>2, <3>3, <3>4
  <2>2. CASE ~(written /\ seeds[s].phase = "appending")
    <3>1. PICK x : x = [seeds[s] EXCEPT !.phase = "failed"]
      OBVIOUS
    <3>2. /\ seeds' = [seeds EXCEPT ![s] = x] /\ ledgerFile' = ledgerFile
          /\ stateObjects \subseteq stateObjects'
      BY <1>6, <2>2, <3>1 DEF Personal!Stop, Personal!Moves
    <3>3. x \in Seed /\ x.phase = "failed"
      BY <1>0, <3>1 DEF Seed
    <3> QED
      BY <1>1, <2>0, <3>2, <3>3
  <2> QED
    BY <2>1, <2>2
<1>7. ASSUME Personal!Open PROVE PersonalInv'
  <2> DEFINE M == Len(opened)
  <2>1. /\ opened' = Append(opened, ledgerFile) /\ ledgerFile # Personal!NotSeeded
        /\ UNCHANGED <<ledgerFile, stateObjects, seeds>>
    BY <1>7 DEF Personal!Open, Personal!Restore
  <2>2. /\ opened' \in Seq(SeededState) /\ DOMAIN opened = 1..M
        /\ DOMAIN opened' = 1..(M + 1) /\ 1..(M + 1) = 1..M \cup {M + 1}
        /\ opened'[M + 1] = ledgerFile /\ \A k \in 1..M : opened'[k] = opened[k]
    BY <1>0, <2>1, SeqAppend
  <2>3. Done' = Done
    BY <2>1 DEF Done
  <2>4. \A k \in DOMAIN opened' : \E q \in Done' : seeds'[q].state = opened'[k]
    BY <2>1, <2>2, <2>3 DEF PersonalInv
  <2> QED
    BY <1>0, <2>1, <2>2, <2>3, <2>4 DEF PersonalInv
<1>8. ASSUME UNCHANGED <<ledgerFile, stateObjects, seeds, opened>> PROVE PersonalInv'
  BY <1>8 DEF PersonalInv, Done
<1>9. ASSUME NEW content, Personal!PackageChanges(content) PROVE PersonalInv'
  BY <1>8, <1>9 DEF Personal!PackageChanges
<1>10. CASE UNCHANGED personal
  BY <1>8, <1>10 DEF personal
<1> QED
  BY <1>0, <1>2, <1>3, <1>4, <1>5, <1>6, <1>7, <1>9, <1>10 DEF Personal!Next

LEMMA PersonalInitial ==
  ledgerFile = "none" /\ stateObjects = {} /\ seeds = <<>> /\ opened = <<>> => PersonalInv
<1> SUFFICES ASSUME ledgerFile = "none", stateObjects = {}, seeds = <<>>, opened = <<>>
             PROVE  PersonalInv
  OBVIOUS
<1>1. Done = {}
  BY DEF Done
<1>2. ledgerFile \in SeededState /\ ledgerFile = Personal!NotSeeded
  BY DEF SeededState, Personal!NotSeeded
<1> QED
  BY <1>1, <1>2 DEF PersonalInv

LEMMA PersonalInvariance == Spec => []PersonalInv
<1>1. Init => PersonalInv
  BY PersonalInitial DEF Init, Personal!Init, Personal!NotSeeded
<1>2. PersonalInv /\ [Next]_all => PersonalInv'
  BY PersonalStep, PartSteps
<1> QED
  BY <1>1, <1>2, PTL DEF Spec, all

\* A directory that is seeded can be opened, every session is of what a call
\* that got through seeded, and when only one did, of what that one seeded
\* (seedPersonalRuntime, openPersonalRuntime), whichever processes stop or
\* overlap.
THEOREM SeedsSurvive == Spec => []SeedSurvives
<1>1. PersonalInv => SeedSurvives
  <2> SUFFICES ASSUME PersonalInv PROVE SeedSurvives
    OBVIOUS
  <2>1. ledgerFile # Personal!NotSeeded => ledgerFile \in stateObjects
    BY DEF PersonalInv, Done
  <2>2. \A k \in DOMAIN opened : \E s \in Done : seeds[s].state = opened[k]
    BY DEF PersonalInv
  <2>3. \A s \in Done : Done = {s} => ledgerFile = seeds[s].state
    BY DEF PersonalInv
  <2> QED
    BY <2>1, <2>2, <2>3 DEF Done, SeedSurvives, Personal!SeedSurvives
<1> QED
  BY <1>1, PersonalInvariance, PTL

-----------------------------------------------------------------------------
(* Connectors and the ingestion fabric                                     *)

PollPhase ==
  {"pulling", "items", "put", "append", "publish", "joining", "accepted", "done", "failed"}
Poll == [phase : PollPhase,
         cursor : Nat, next : Nat, items : Seq(Connectors!Item), at : Nat]

Now(poll) == poll.items[poll.at]
Busy(poll) == poll.phase \in Connectors!Ingesting

ConnectorTypes ==
  /\ source \in Seq(Connectors!Item) /\ cursor \in 0..Len(source)
  /\ receipts \in [DOMAIN receipts -> Connectors!Item] /\ DOMAIN receipts \subseteq SourceKeys
  /\ ledger \in Seq(Connectors!Item) /\ failures \in Seq(SourceKeys)
  /\ polls \in Seq(Poll)

\* A poll has the items of the log between its cursor and the next one, and
\* all before its place are accepted; what the ports have done for the item
\* at its place is done.
Pulled(poll, log, keys, stock, entries) ==
  /\ poll.cursor <= poll.next /\ poll.next <= Len(log)
  /\ Len(poll.items) = poll.next - poll.cursor
  /\ \A i \in 1..Len(poll.items) : poll.items[i] = log[poll.cursor + i]
  /\ poll.at \in 1..(Len(poll.items) + 1)
  /\ poll.phase = "pulling" => poll.at = 1
  /\ poll.phase \in {"put", "append", "publish", "joining", "accepted"} => poll.at <= Len(poll.items)
  /\ \A k \in 1..(poll.cursor + poll.at - 1) : log[k].key \in keys
  /\ poll.phase = "accepted" => Now(poll).key \in keys
  /\ poll.phase \in {"append", "publish"} => Now(poll).content \in stock
  /\ poll.phase = "publish" => Now(poll) \in entries

\* The key of an item that is being ingested has no receipt, and no other
\* poll is ingesting one of its key.
Alone(p) ==
  Busy(polls[p]) =>
    /\ Now(polls[p]).key \notin DOMAIN receipts
    /\ \A q \in DOMAIN polls : Busy(polls[q]) /\ Now(polls[q]).key = Now(polls[p]).key => q = p

Entries(key) == {n \in DOMAIN ledger : ledger[n].key = key}
Failed(key) == {n \in DOMAIN failures : failures[n] = key}

\* Of the entries of a key, all but the last are of ingestions that failed.
\* Also the last, unless it is of the one in progress, or of the accepted one.
Paid(key) ==
  \/ key \in DOMAIN receipts
  \/ \E p \in DOMAIN polls : polls[p].phase = "publish" /\ Now(polls[p]).key = key
Counted(key) ==
  /\ Cardinality(Entries(key)) <= Cardinality(Failed(key)) + 1
  /\ ~Paid(key) => Cardinality(Entries(key)) <= Cardinality(Failed(key))

Kept ==
  \A key \in DOMAIN receipts :
    /\ receipts[key].content \in objects
    /\ receipts[key] \in Connectors!Range(ledger)
    /\ key \in announced

ConnectorInv ==
  /\ ConnectorTypes
  /\ \A k \in 1..cursor : source[k].key \in DOMAIN receipts
  /\ delivered \subseteq DOMAIN receipts
  /\ \A p \in DOMAIN polls :
       Pulled(polls[p], source, DOMAIN receipts, objects, Connectors!Range(ledger))
  /\ \A p \in DOMAIN polls : Alone(p)
  /\ Kept
  /\ \A key \in SourceKeys : Counted(key)

\* What was pulled and done stays so while everything grows.
LEMMA PulledStays ==
  ASSUME NEW poll \in Poll, NEW log \in Seq(Connectors!Item), NEW log2 \in Seq(Connectors!Item),
         NEW keys, NEW keys2, NEW stock, NEW stock2, NEW entries, NEW entries2,
         Len(log) <= Len(log2), \A k \in 1..Len(log) : log2[k] = log[k],
         keys \subseteq keys2, stock \subseteq stock2, entries \subseteq entries2,
         Pulled(poll, log, keys, stock, entries)
  PROVE  Pulled(poll, log2, keys2, stock2, entries2)
<1>1. /\ Len(log) \in Nat /\ Len(log2) \in Nat /\ poll.cursor \in Nat /\ poll.next \in Nat
      /\ poll.at \in Nat /\ Len(poll.items) \in Nat
  BY DEF Poll
<1>2. /\ poll.cursor <= poll.next /\ poll.next <= Len(log)
      /\ Len(poll.items) = poll.next - poll.cursor
      /\ poll.at \in 1..(Len(poll.items) + 1)
  BY DEF Pulled
<1>3. \A i \in 1..Len(poll.items) : poll.items[i] = log2[poll.cursor + i]
  <2> TAKE i \in 1..Len(poll.items)
  <2>1. poll.cursor + i \in 1..Len(log)
    BY <1>1, <1>2
  <2> QED
    BY <2>1 DEF Pulled
<1>4. \A k \in 1..(poll.cursor + poll.at - 1) : log2[k].key \in keys2
  <2> TAKE k \in 1..(poll.cursor + poll.at - 1)
  <2>1. k \in 1..Len(log)
    BY <1>1, <1>2
  <2> QED
    BY <2>1 DEF Pulled
<1>5. poll.next <= Len(log2)
  BY <1>1, <1>2
<1> QED
  BY <1>2, <1>3, <1>4, <1>5 DEF Pulled

\* The phase of a poll changes, and its obligations are those of the new one.
LEMMA PulledMoves ==
  ASSUME NEW poll \in Poll, NEW to \in PollPhase \ {"pulling"}, NEW x,
         x = [poll EXCEPT !.phase = to],
         NEW log, NEW keys, NEW stock, NEW entries, Pulled(poll, log, keys, stock, entries),
         to \in {"put", "append", "publish", "joining", "accepted"} => poll.at <= Len(poll.items),
         to = "accepted" => Now(poll).key \in keys,
         to \in {"append", "publish"} => Now(poll).content \in stock,
         to = "publish" => Now(poll) \in entries
  PROVE  /\ x \in Poll /\ x.phase = to /\ Now(x) = Now(poll)
         /\ x.next = poll.next /\ Pulled(x, log, keys, stock, entries)
<1>1. /\ x \in Poll /\ x.phase = to /\ x.cursor = poll.cursor /\ x.next = poll.next
      /\ x.items = poll.items /\ x.at = poll.at
  BY DEF Poll, PollPhase
<1>2. Now(x) = Now(poll)
  BY <1>1 DEF Now
<1> QED
  BY <1>1, <1>2 DEF Pulled

\* The item at the place of a poll is accepted, and the poll goes to the next.
LEMMA PulledNext ==
  ASSUME NEW poll \in Poll, NEW x \in Poll, x.phase = "items", x.cursor = poll.cursor,
         x.next = poll.next, x.items = poll.items, x.at = poll.at + 1,
         NEW log, NEW keys, NEW stock, NEW entries, Pulled(poll, log, keys, stock, entries),
         poll.at <= Len(poll.items), Now(poll).key \in keys
  PROVE  Pulled(x, log, keys, stock, entries)
<1>1. /\ poll.cursor \in Nat /\ poll.next \in Nat /\ poll.at \in Nat /\ Len(poll.items) \in Nat
      /\ poll.at \in 1..Len(poll.items)
  BY DEF Poll, Pulled
<1>2. log[poll.cursor + poll.at].key \in keys
  BY <1>1 DEF Pulled, Now
<1>3. ASSUME NEW k \in 1..(x.cursor + x.at - 1) PROVE log[k].key \in keys
  <2>1. k \in 1..(poll.cursor + poll.at - 1) \/ k = poll.cursor + poll.at
    BY <1>1
  <2> QED
    BY <1>2, <2>1 DEF Pulled
<1>4. x.at \in 1..(Len(x.items) + 1)
  BY <1>1
<1> QED
  BY <1>3, <1>4 DEF Pulled

\* What a pull reads of the log.
LEMMA SubSeqIs ==
  ASSUME NEW S, NEW s \in Seq(S), NEW m \in Nat, NEW n \in 0..Len(s), m <= n
  PROVE  /\ SubSeq(s, m + 1, n) \in Seq(S) /\ Len(SubSeq(s, m + 1, n)) = n - m
         /\ \A i \in 1..(n - m) : SubSeq(s, m + 1, n)[i] = s[m + i]
<1>1. Len(SubSeq(s, m + 1, n)) = n - m
  OBVIOUS
<1>2. \A i \in 1..(n - m) : SubSeq(s, m + 1, n)[i] = s[m + i]
  OBVIOUS
<1>3. SubSeq(s, m + 1, n) \in Seq(S)
  OBVIOUS
<1> QED
  BY <1>1, <1>2, <1>3

\* A set of numbers, and one more than there were.
LEMMA CountNext ==
  ASSUME NEW n \in Nat, NEW A \in SUBSET (1..n)
  PROVE  /\ Cardinality(A) \in Nat
         /\ Cardinality(A \cup {n + 1}) = Cardinality(A) + 1
<1>0. IsFiniteSet(1..n)
  BY FS_Interval
<1>1. IsFiniteSet(A)
  BY <1>0, FS_Subset
<1> QED
  BY <1>1, FS_CardinalityType, FS_AddElement

\* What appending to the ledger, or to the failures, does to their counts.
LEMMA CountAppend ==
  ASSUME ConnectorTypes
  PROVE  /\ \A key : Cardinality(Entries(key)) \in Nat /\ Cardinality(Failed(key)) \in Nat
         /\ \A key : \A item \in Connectors!Item :
              ledger' = Append(ledger, item) =>
                Cardinality(Entries(key)')
                  = Cardinality(Entries(key)) + IF item.key = key THEN 1 ELSE 0
         /\ \A key : \A other \in SourceKeys :
              failures' = Append(failures, other) =>
                Cardinality(Failed(key)') = Cardinality(Failed(key)) + IF other = key THEN 1 ELSE 0
<1>0. /\ ledger \in Seq(Connectors!Item) /\ Len(ledger) \in Nat /\ DOMAIN ledger = 1..Len(ledger)
      /\ failures \in Seq(SourceKeys) /\ Len(failures) \in Nat /\ DOMAIN failures = 1..Len(failures)
  BY DEF ConnectorTypes
<1>1. \A key : Entries(key) \in SUBSET (1..Len(ledger)) /\ Failed(key) \in SUBSET (1..Len(failures))
  BY <1>0 DEF Entries, Failed
<1>2. \A key : Cardinality(Entries(key)) \in Nat /\ Cardinality(Failed(key)) \in Nat
  BY <1>0, <1>1, CountNext
<1>3. ASSUME NEW item \in Connectors!Item, NEW key, ledger' = Append(ledger, item)
      PROVE  Cardinality(Entries(key)')
               = Cardinality(Entries(key)) + IF item.key = key THEN 1 ELSE 0
  <2>1. /\ DOMAIN ledger' = 1..Len(ledger) \cup {Len(ledger) + 1}
        /\ Len(ledger) + 1 \notin 1..Len(ledger) /\ ledger'[Len(ledger) + 1] = item
        /\ \A n \in 1..Len(ledger) : ledger'[n] = ledger[n]
    BY <1>0, <1>3, SeqAppend
  <2>2. CASE item.key = key
    <3>1. Entries(key)' = Entries(key) \cup {Len(ledger) + 1}
      BY <1>0, <2>1, <2>2 DEF Entries
    <3> QED
      BY <1>0, <1>1, <2>2, <3>1, CountNext
  <2>3. CASE item.key # key
    <3>1. Entries(key)' = Entries(key)
      BY <1>0, <2>1, <2>3 DEF Entries
    <3> QED
      BY <1>2, <2>3, <3>1
  <2> QED
    BY <2>2, <2>3
<1>4. ASSUME NEW other \in SourceKeys, NEW key, failures' = Append(failures, other)
      PROVE  Cardinality(Failed(key)') = Cardinality(Failed(key)) + IF other = key THEN 1 ELSE 0
  <2>1. /\ DOMAIN failures' = 1..Len(failures) \cup {Len(failures) + 1}
        /\ Len(failures) + 1 \notin 1..Len(failures) /\ failures'[Len(failures) + 1] = other
        /\ \A n \in 1..Len(failures) : failures'[n] = failures[n]
    BY <1>0, <1>4, SeqAppend
  <2>2. CASE other = key
    <3>1. Failed(key)' = Failed(key) \cup {Len(failures) + 1}
      BY <1>0, <2>1, <2>2 DEF Failed
    <3> QED
      BY <1>0, <1>1, <2>2, <3>1, CountNext
  <2>3. CASE other # key
    <3>1. Failed(key)' = Failed(key)
      BY <1>0, <2>1, <2>3 DEF Failed
    <3> QED
      BY <1>2, <2>3, <3>1
  <2> QED
    BY <2>2, <2>3
<1> QED
  BY <1>2, <1>3, <1>4

\* Whatever the polls, the source and the ports do next.
LEMMA ConnectorStep ==
  ASSUME ConnectorInv, [Connectors!Next]_ingestion
  PROVE  ConnectorInv'
<1> DEFINE N == Len(polls)
           Known == DOMAIN receipts
           Lines == Connectors!Range(ledger)
<1>0. /\ ConnectorTypes /\ N \in Nat /\ DOMAIN polls = 1..N /\ polls \in Seq(Poll)
      /\ source \in Seq(Connectors!Item) /\ Len(source) \in Nat /\ cursor \in 0..Len(source)
      /\ \A p \in 1..N : /\ polls[p] \in Poll /\ Alone(p)
                         /\ Pulled(polls[p], source, Known, objects, Lines)
      /\ \A k \in 1..cursor : source[k].key \in Known
      /\ delivered \subseteq Known /\ Kept
      /\ \A key \in SourceKeys : Counted(key)
  BY DEF ConnectorInv, ConnectorTypes
<1>a. ASSUME NEW p \in 1..N, polls[p].phase \in {"put", "append", "publish", "joining", "accepted"}
                             \/ polls[p].at <= Len(polls[p].items)
      PROVE  /\ polls[p].at \in 1..Len(polls[p].items) /\ Now(polls[p]) \in Connectors!Item
             /\ Now(polls[p]).key \in SourceKeys /\ Connectors!Current(p) = Now(polls[p])
  <2>1. polls[p] \in Poll /\ Pulled(polls[p], source, Known, objects, Lines)
    BY <1>0
  <2>2. polls[p].at \in 1..Len(polls[p].items)
    BY <1>a, <2>1 DEF Pulled, Poll
  <2>3. Now(polls[p]) \in Connectors!Item
    BY <2>1, <2>2 DEF Now, Poll
  <2> QED
    BY <2>2, <2>3 DEF Connectors!Item, Connectors!Current, Now
\* One poll moves on and nothing is ingested.
<1>1. ASSUME NEW p \in 1..N, NEW x \in Poll, polls' = [polls EXCEPT ![p] = x],
             UNCHANGED <<source, receipts, objects, ledger, announced, failures>>,
             Pulled(x, source, Known, objects, Lines),
             ~Busy(polls[p]), x.phase \notin {"append", "publish"},
             x.phase = "put" => /\ Now(x).key \notin Known
                                /\ \A q \in 1..N : Busy(polls[q]) => Now(polls[q]).key # Now(x).key,
             cursor' \in 0..Len(source), \A k \in 1..cursor' : source[k].key \in Known,
             delivered' \subseteq Known
      PROVE  ConnectorInv'
  <2>1. /\ polls' \in Seq(Poll) /\ DOMAIN polls' = 1..N /\ polls'[p] = x
        /\ \A q \in 1..N : q # p => polls'[q] = polls[q]
    BY <1>0, <1>1, SeqReplace
  <2>2. ConnectorTypes'
    BY <1>0, <1>1, <2>1 DEF ConnectorTypes
  <2>3. ASSUME NEW q \in 1..N
        PROVE  Pulled(polls'[q], source', DOMAIN receipts', objects', Connectors!Range(ledger)')
    <3>1. Connectors!Range(ledger)' = Lines
      BY <1>1 DEF Connectors!Range
    <3>2. polls'[q] = x \/ polls'[q] = polls[q]
      BY <2>1
    <3> HIDE DEF Lines
    <3> QED
      BY <1>0, <1>1, <3>1, <3>2
  <2>4. ASSUME NEW q \in 1..N PROVE Alone(q)'
    <3>1. CASE q = p
      <4>1. Busy(x) => x.phase = "put"
        BY <1>1 DEF Busy, Connectors!Ingesting
      <4> QED
        BY <1>1, <2>1, <3>1, <4>1 DEF Alone, Busy
    <3>2. CASE q # p
      <4>1. polls'[q] = polls[q] /\ Alone(q)
        BY <1>0, <2>1, <3>2
      <4>2. Busy(x) => x.phase = "put"
        BY <1>1 DEF Busy, Connectors!Ingesting
      <4> QED
        BY <1>1, <2>1, <4>1, <4>2 DEF Alone, Busy
    <3> QED
      BY <3>1, <3>2
  <2>5. Kept'
    BY <1>0, <1>1 DEF Kept, Connectors!Range
  <2>6. ASSUME NEW key \in SourceKeys PROVE Counted(key)'
    <3>1. Entries(key)' = Entries(key) /\ Failed(key)' = Failed(key)
      BY <1>1 DEF Entries, Failed
    <3>2. Paid(key) => Paid(key)'
      <4>1. polls[p].phase # "publish"
        BY <1>1 DEF Busy, Connectors!Ingesting
      <4> QED
        BY <1>0, <1>1, <2>1, <4>1 DEF Paid
    <3>3. Counted(key)
      BY <1>0
    <3> QED
      BY <3>1, <3>2, <3>3 DEF Counted
  <2>7. \A q \in DOMAIN polls' :
          /\ Pulled(polls'[q], source', DOMAIN receipts', objects', Connectors!Range(ledger)')
          /\ Alone(q)'
    BY <2>1, <2>3, <2>4
  <2> QED
    BY <1>1, <2>2, <2>5, <2>6, <2>7 DEF ConnectorInv
\* An ingestion moves on or ends, and with it who waited for it.
<1>2. ASSUME NEW p \in 1..N, NEW W \in SUBSET (1..N), NEW to \in PollPhase \ {"pulling"},
             Busy(polls[p]), p \notin W,
             \A q \in W : polls[q].phase = "joining" /\ Now(polls[q]).key = Now(polls[p]).key,
             polls' = [q \in 1..N |-> IF q \in W \cup {p} THEN [polls[q] EXCEPT !.phase = to]
                                      ELSE polls[q]],
             UNCHANGED <<source, cursor, delivered>>,
             receipts' \in [DOMAIN receipts' -> Connectors!Item], Known \subseteq DOMAIN receipts',
             DOMAIN receipts' \subseteq Known \cup {Now(polls[p]).key},
             ledger' \in Seq(Connectors!Item), Lines \subseteq Connectors!Range(ledger)',
             failures' \in Seq(SourceKeys), objects \subseteq objects',
             to \in Connectors!Ingesting => W = {} /\ UNCHANGED receipts,
             to = "accepted" => Now(polls[p]).key \in DOMAIN receipts',
             to \in {"append", "publish"} => Now(polls[p]).content \in objects',
             to = "publish" => Now(polls[p]) \in Connectors!Range(ledger)',
             Kept', \A key \in SourceKeys : Counted(key)'
      PROVE  ConnectorInv'
  <2> DEFINE k == Now(polls[p]).key
  <2>0. ASSUME NEW poll \in Poll, Pulled(poll, source, Known, objects, Lines)
        PROVE  Pulled(poll, source', DOMAIN receipts', objects', Connectors!Range(ledger)')
    <3>1. /\ source' = source /\ Len(source) <= Len(source') /\ \A n \in 1..Len(source) : source'[n] = source[n]
          /\ source' \in Seq(Connectors!Item)
      BY <1>0, <1>2
    <3>2. /\ Known \subseteq DOMAIN receipts' /\ objects \subseteq objects'
          /\ Lines \subseteq Connectors!Range(ledger)'
      BY <1>2
    <3> HIDE DEF Lines, Known
    <3> QED
      BY <1>0, <2>0, <3>1, <3>2, PulledStays
  <2>1. ASSUME NEW q \in W \cup {p}
        PROVE  /\ polls'[q] \in Poll /\ polls'[q].phase = to /\ Now(polls'[q]) = Now(polls[q])
               /\ Now(polls[q]).key = k
               /\ Pulled(polls'[q], source', DOMAIN receipts', objects', Connectors!Range(ledger)')
    <3>1. PICK x : x = [polls[q] EXCEPT !.phase = to]
      OBVIOUS
    <3>2. polls'[q] = x /\ q \in 1..N
      BY <1>2, <3>1
    <3>3. polls[q] \in Poll /\ Pulled(polls[q], source, Known, objects, Lines)
      BY <1>0, <3>2
    <3>4. polls[q].phase \in {"put", "append", "publish", "joining"} /\ Now(polls[q]).key = k
      BY <1>2 DEF Busy, Connectors!Ingesting
    <3>5. polls[q].at <= Len(polls[q].items)
      BY <3>3, <3>4 DEF Pulled
    <3>6. Pulled(polls[q], source', DOMAIN receipts', objects', Connectors!Range(ledger)')
      BY <2>0, <3>3
    <3>7. to \in {"append", "publish"} => q = p
      BY <1>2 DEF Connectors!Ingesting
    <3>8. /\ to = "accepted" => k \in DOMAIN receipts'
          /\ to \in {"append", "publish"} => Now(polls[q]).content \in objects'
          /\ to = "publish" => Now(polls[q]) \in Connectors!Range(ledger)'
      BY <1>2, <3>7
    <3>9. /\ x \in Poll /\ x.phase = to /\ Now(x) = Now(polls[q])
          /\ Pulled(x, source', DOMAIN receipts', objects', Connectors!Range(ledger)')
      BY <3>1, <3>3, <3>4, <3>5, <3>6, <3>8, PulledMoves
    <3> QED
      BY <3>2, <3>4, <3>9
  <2>2. ASSUME NEW q \in (1..N) \ (W \cup {p})
        PROVE  /\ polls'[q] = polls[q] /\ polls'[q] \in Poll
               /\ Pulled(polls'[q], source', DOMAIN receipts', objects', Connectors!Range(ledger)')
    <3>1. polls'[q] = polls[q] /\ polls[q] \in Poll /\ Pulled(polls[q], source, Known, objects, Lines)
      BY <1>0, <1>2
    <3> QED
      BY <2>0, <3>1
  <2>3. DOMAIN polls' = 1..N /\ polls' \in Seq(Poll)
    <3>1. polls' \in [1..N -> Poll]
      BY <1>2, <2>1, <2>2
    <3> QED
      BY <1>0, <3>1
  <2>4. ConnectorTypes'
    <3>1. k \in SourceKeys
      BY <1>2, <1>a DEF Busy, Connectors!Ingesting
    <3> QED
      BY <1>0, <1>2, <2>3, <3>1 DEF ConnectorTypes
  <2>5. \A q \in 1..N : Busy(polls'[q]) =>
          /\ Busy(polls[q]) /\ Now(polls'[q]) = Now(polls[q])
          /\ q = p => UNCHANGED receipts
    <3>1. \A q \in W : ~Busy(polls'[q])
      BY <1>2, <2>1 DEF Busy
    <3>2. Busy(polls'[p]) => to \in Connectors!Ingesting
      BY <2>1 DEF Busy
    <3> QED
      BY <1>2, <2>1, <2>2, <3>1, <3>2
  <2>6. ASSUME NEW q \in 1..N PROVE Alone(q)'
    <3>1. CASE Busy(polls'[q])
      <4>1. Alone(q) /\ Alone(p) /\ Busy(polls[q]) /\ Now(polls'[q]) = Now(polls[q])
        BY <1>0, <2>5, <3>1
      <4>2. Now(polls[q]).key \notin DOMAIN receipts'
        <5>1. CASE q = p
          BY <2>5, <3>1, <4>1, <5>1 DEF Alone
        <5>2. CASE q # p
          <6>1. Now(polls[q]).key # k
            BY <1>0, <1>2, <4>1, <5>2 DEF Alone
          <6> QED
            BY <1>2, <4>1, <6>1 DEF Alone
        <5> QED
          BY <5>1, <5>2
      <4>3. \A r \in 1..N : Busy(polls'[r]) /\ Now(polls'[r]).key = Now(polls'[q]).key => r = q
        BY <1>0, <2>5, <4>1 DEF Alone
      <4> QED
        BY <2>3, <4>1, <4>2, <4>3 DEF Alone, Busy
    <3>2. CASE ~Busy(polls'[q])
      BY <3>2 DEF Alone, Busy
    <3> QED
      BY <3>1, <3>2
  <2>7. \A q \in DOMAIN polls' :
          /\ Pulled(polls'[q], source', DOMAIN receipts', objects', Connectors!Range(ledger)')
          /\ Alone(q)'
    BY <2>1, <2>2, <2>3, <2>6
  <2>8. (\A n \in 1..cursor' : source'[n].key \in DOMAIN receipts') /\ delivered' \subseteq DOMAIN receipts'
    BY <1>0, <1>2
  <2> QED
    BY <1>2, <2>4, <2>7, <2>8 DEF ConnectorInv
\* Then who publishes an item of another key still does.
<1>3. ASSUME NEW p \in 1..N, DOMAIN polls' = 1..N,
             \A q \in 1..N : polls'[q] = polls[q] \/ Now(polls[q]).key = Now(polls[p]).key,
             Known \subseteq DOMAIN receipts',
             NEW key, key # Now(polls[p]).key, Paid(key)
      PROVE  Paid(key)'
  BY <1>0, <1>3 DEF Paid
\* Before a step that leaves the ingestion of its item, or goes on with it.
<1>4. ASSUME NEW p \in 1..N, Busy(polls[p])
      PROVE  /\ Now(polls[p]) \in Connectors!Item /\ Now(polls[p]).key \in SourceKeys
             /\ Now(polls[p]).key \notin Known /\ Connectors!Current(p) = Now(polls[p])
             /\ polls[p].phase \in {"append", "publish"} => Now(polls[p]).content \in objects
             /\ polls[p].phase = "publish" => Now(polls[p]) \in Lines /\ Paid(Now(polls[p]).key)
             /\ polls[p].phase # "publish" => ~Paid(Now(polls[p]).key)
  <2>1. /\ Now(polls[p]) \in Connectors!Item /\ Now(polls[p]).key \in SourceKeys
        /\ Connectors!Current(p) = Now(polls[p])
    BY <1>4, <1>a DEF Busy, Connectors!Ingesting
  <2>2. Pulled(polls[p], source, Known, objects, Lines) /\ Alone(p)
    BY <1>0
  <2>3. polls[p].phase # "publish" => ~Paid(Now(polls[p]).key)
    BY <1>0, <1>4, <2>2 DEF Paid, Alone, Busy, Connectors!Ingesting
  <2>4. polls[p].phase = "publish" => Paid(Now(polls[p]).key)
    BY <1>0 DEF Paid
  <2> QED
    BY <1>4, <2>1, <2>2, <2>3, <2>4 DEF Pulled, Alone
<1>5. \A key \in SourceKeys :
        /\ Counted(key) /\ Cardinality(Entries(key)) \in Nat /\ Cardinality(Failed(key)) \in Nat
  BY <1>0, CountAppend
<1>6. ASSUME ledger' = ledger PROVE \A key : Entries(key)' = Entries(key)
  BY <1>6 DEF Entries
<1>7. ASSUME failures' = failures PROVE \A key : Failed(key)' = Failed(key)
  BY <1>7 DEF Failed
<1>8. ASSUME NEW item \in Connectors!Item, ledger' = Append(ledger, item)
      PROVE  /\ ledger' \in Seq(Connectors!Item)
             /\ Lines \subseteq Connectors!Range(ledger)' /\ item \in Connectors!Range(ledger)'
  <2>1. /\ ledger \in Seq(Connectors!Item) /\ DOMAIN ledger = 1..Len(ledger)
        /\ DOMAIN ledger' = 1..Len(ledger) \cup {Len(ledger) + 1}
        /\ ledger'[Len(ledger) + 1] = item /\ \A n \in 1..Len(ledger) : ledger'[n] = ledger[n]
        /\ ledger' \in Seq(Connectors!Item)
    BY <1>0, <1>8, SeqAppend DEF ConnectorTypes
  <2> QED
    BY <2>1 DEF Connectors!Range
\* Moves is a move of one poll alone.
<1>9. ASSUME NEW p \in 1..N, NEW to, Connectors!Moves(p, to)
      PROVE  \E W \in SUBSET (1..N) :
               /\ W = {}
               /\ polls' = [q \in 1..N |-> IF q \in W \cup {p} THEN [polls[q] EXCEPT !.phase = to]
                                           ELSE polls[q]]
  <2>1. polls' = [q \in 1..N |-> IF q \in {} \cup {p} THEN [polls[q] EXCEPT !.phase = to]
                                 ELSE polls[q]]
    BY <1>0, <1>9 DEF Connectors!Moves
  <2> QED
    BY <2>1, Zenon
<1>10. ASSUME NEW p \in 1..N, NEW to, Busy(polls[p]), Connectors!Settled(p, to)
       PROVE  \E W \in SUBSET (1..N) :
                /\ p \notin W
                /\ \A q \in W : polls[q].phase = "joining" /\ Now(polls[q]).key = Now(polls[p]).key
                /\ polls' = [q \in 1..N |-> IF q \in W \cup {p} THEN [polls[q] EXCEPT !.phase = to]
                                            ELSE polls[q]]
  <2> DEFINE W == {q \in DOMAIN polls : /\ polls[q].phase = "joining"
                                        /\ Connectors!Current(q).key = Connectors!Current(p).key}
  <2>1. polls' = [q \in DOMAIN polls |-> IF q \in W \cup {p} THEN [polls[q] EXCEPT !.phase = to]
                                         ELSE polls[q]]
    BY <1>10 DEF Connectors!Settled
  <2>2. p \notin W /\ W \in SUBSET (1..N)
    BY <1>0, <1>10 DEF Busy, Connectors!Ingesting
  <2>3. \A q \in W : polls[q].phase = "joining" /\ Now(polls[q]).key = Now(polls[p]).key
    BY DEF Now, Connectors!Current
  <2> HIDE DEF W
  <2> QED
    BY <1>0, <2>1, <2>2, <2>3
<1>11. ASSUME NEW p \in 1..N, Connectors!IngestStep(p) PROVE ConnectorInv'
  <2> DEFINE k == Now(polls[p]).key
  <2>1. Busy(polls[p]) /\ UNCHANGED <<source, cursor, delivered, failures>>
    BY <1>11 DEF Connectors!IngestStep, Busy, Connectors!Ingesting
  <2>2. /\ Now(polls[p]) \in Connectors!Item /\ k \in SourceKeys /\ k \notin Known
        /\ Connectors!Current(p) = Now(polls[p])
    BY <1>4, <2>1
  <2>3. failures' \in Seq(SourceKeys) /\ \A key : Failed(key)' = Failed(key)
    BY <1>0, <1>7, <2>1 DEF ConnectorTypes
  <2>4. receipts \in [DOMAIN receipts -> Connectors!Item]
    BY <1>0 DEF ConnectorTypes
  <2>5. CASE polls[p].phase = "put"
    <3>1. /\ Connectors!Moves(p, "append") /\ UNCHANGED <<receipts, ledger, announced>>
          /\ objects' = objects \cup {Now(polls[p]).content}
      BY <1>11, <2>2, <2>5 DEF Connectors!IngestStep, Connectors!PortWorks, Connectors!PutObject
    <3>2. Kept' /\ Connectors!Range(ledger)' = Lines
      BY <1>0, <3>1 DEF Kept, Connectors!Range
    <3>3. PICK W \in SUBSET (1..N) :
            /\ W = {}
            /\ polls' = [q \in 1..N |-> IF q \in W \cup {p} THEN [polls[q] EXCEPT !.phase = "append"]
                                        ELSE polls[q]]
      BY <1>9, <3>1
    <3>4. DOMAIN polls' = 1..N /\ \A q \in 1..N : polls'[q] = polls[q] \/ q = p
      BY <3>3
    <3>5. ASSUME NEW key \in SourceKeys PROVE Counted(key)'
      <4>1. Entries(key)' = Entries(key)
        BY <1>6, <3>1
      <4>2. key # k /\ Paid(key) => Paid(key)'
        BY <1>3, <3>1, <3>4
      <4>3. ~Paid(k)
        BY <1>4, <2>1, <2>5
      <4> QED
        BY <1>5, <2>3, <4>1, <4>2, <4>3 DEF Counted
    <3>6. "append" \in PollPhase \ {"pulling"} /\ ledger' \in Seq(Connectors!Item)
      BY <1>0, <3>1 DEF PollPhase, ConnectorTypes
    <3> HIDE DEF Lines
    <3> QED
      BY <1>2, <2>1, <2>3, <2>4, <3>1, <3>2, <3>3, <3>5, <3>6
  <2>6. CASE polls[p].phase = "append"
    <3>1. /\ Connectors!Moves(p, "publish") /\ UNCHANGED <<receipts, objects, announced>>
          /\ ledger' = Append(ledger, Now(polls[p]))
      BY <1>11, <2>2, <2>6 DEF Connectors!IngestStep, Connectors!PortWorks, Connectors!AppendEnvelope
    <3>2. /\ ledger' \in Seq(Connectors!Item) /\ Lines \subseteq Connectors!Range(ledger)'
          /\ Now(polls[p]) \in Connectors!Range(ledger)'
      BY <1>8, <2>2, <3>1
    <3>3. PICK W \in SUBSET (1..N) :
            /\ W = {}
            /\ polls' = [q \in 1..N |-> IF q \in W \cup {p} THEN [polls[q] EXCEPT !.phase = "publish"]
                                        ELSE polls[q]]
      BY <1>9, <3>1
    <3>4. DOMAIN polls' = 1..N /\ \A q \in 1..N : polls'[q] = polls[q] \/ q = p
      BY <3>3
    <3>5. ASSUME NEW key \in SourceKeys PROVE Counted(key)'
      <4>1. Cardinality(Entries(key)') = Cardinality(Entries(key)) + IF k = key THEN 1 ELSE 0
        BY <1>0, <2>2, <3>1, CountAppend
      <4>2. CASE key = k
        <5>1. ~Paid(k)
          BY <1>4, <2>1, <2>6
        <5>2. Paid(key)'
          <6>1. p \in DOMAIN polls' /\ polls'[p] = [polls[p] EXCEPT !.phase = "publish"]
            BY <3>3
          <6>2. polls'[p].phase = "publish" /\ Now(polls'[p]) = Now(polls[p])
            BY <1>0, <6>1 DEF Poll, Now
          <6> QED
            BY <4>2, <6>1, <6>2 DEF Paid
        <5> QED
          BY <1>5, <2>3, <4>1, <4>2, <5>1, <5>2 DEF Counted
      <4>3. CASE key # k
        <5>1. Paid(key) => Paid(key)'
          BY <1>3, <3>1, <3>4, <4>3
        <5> QED
          BY <1>5, <2>3, <4>1, <4>3, <5>1 DEF Counted
      <4> QED
        BY <4>2, <4>3
    <3>6. "publish" \in PollPhase \ {"pulling"} /\ Now(polls[p]).content \in objects'
      BY <1>4, <2>1, <2>6, <3>1 DEF PollPhase
    <3>7. Kept'
      BY <1>0, <3>1, <3>2 DEF Kept
    <3> HIDE DEF Lines
    <3> QED
      BY <1>2, <2>1, <2>3, <2>4, <3>1, <3>2, <3>3, <3>5, <3>6, <3>7
  <2>7. CASE polls[p].phase = "publish"
    <3>1. /\ Connectors!Settled(p, "accepted") /\ UNCHANGED <<ledger, objects>>
          /\ announced' = announced \cup {k}
          /\ receipts' = [x \in Known \cup {k} |-> IF x = k THEN Now(polls[p]) ELSE receipts[x]]
      BY <1>11, <2>2, <2>7 DEF Connectors!IngestStep, Connectors!PortWorks, Connectors!PublishAccepted,
         Connectors!Put
    <3>2. ledger' \in Seq(Connectors!Item) /\ Connectors!Range(ledger)' = Lines
      BY <1>0, <3>1 DEF ConnectorTypes, Connectors!Range
    <3>3. PICK W \in SUBSET (1..N) :
            /\ p \notin W
            /\ \A q \in W : polls[q].phase = "joining" /\ Now(polls[q]).key = Now(polls[p]).key
            /\ polls' = [q \in 1..N |-> IF q \in W \cup {p} THEN [polls[q] EXCEPT !.phase = "accepted"]
                                        ELSE polls[q]]
      BY <1>10, <2>1, <3>1
    <3>4. /\ DOMAIN receipts' = Known \cup {k} /\ receipts'[k] = Now(polls[p])
          /\ \A x \in Known : x # k /\ receipts'[x] = receipts[x]
          /\ receipts' \in [DOMAIN receipts' -> Connectors!Item]
      BY <2>2, <2>4, <3>1
    <3>5. ASSUME NEW key \in SourceKeys PROVE Counted(key)'
      <4>1. Entries(key)' = Entries(key)
        BY <1>6, <3>1
      <4>2. key # k /\ Paid(key) => Paid(key)'
        <5>1. DOMAIN polls' = 1..N /\ \A q \in 1..N : polls'[q] = polls[q]
                                                      \/ Now(polls[q]).key = k
          BY <3>3
        <5> QED
          BY <1>3, <3>4, <5>1
      <4>3. key = k => Paid(key)'
        BY <3>4 DEF Paid
      <4> QED
        BY <1>5, <2>3, <4>1, <4>2, <4>3 DEF Counted
    <3>6. Kept'
      <4>1. Now(polls[p]).content \in objects /\ Now(polls[p]) \in Lines
        BY <1>4, <2>1, <2>7
      <4> HIDE DEF Lines
      <4>2. \A x \in Known : receipts[x].content \in objects /\ receipts[x] \in Lines /\ x \in announced
        BY <1>0 DEF Kept, Lines
      <4> QED
        BY <3>1, <3>2, <3>4, <4>1, <4>2 DEF Kept
    <3>7. "accepted" \in PollPhase \ {"pulling"} /\ "accepted" \notin Connectors!Ingesting
      BY DEF PollPhase, Connectors!Ingesting
    <3> HIDE DEF Lines
    <3> QED
      BY <1>2, <2>1, <2>3, <3>1, <3>2, <3>3, <3>4, <3>5, <3>6, <3>7
  <2> QED
    BY <2>1, <2>5, <2>6, <2>7 DEF Busy, Connectors!Ingesting
<1>12. ASSUME NEW p \in 1..N, NEW done \in BOOLEAN, Connectors!IngestFails(p, done) PROVE ConnectorInv'
  <2> DEFINE k == Now(polls[p]).key
  <2>1. /\ Busy(polls[p]) /\ UNCHANGED <<source, cursor, delivered, receipts>>
        /\ Connectors!Settled(p, "failed")
    BY <1>12 DEF Connectors!IngestFails, Busy
  <2>2. /\ Now(polls[p]) \in Connectors!Item /\ k \in SourceKeys /\ k \notin Known
        /\ Connectors!Current(p) = Now(polls[p])
    BY <1>4, <2>1
  <2>3. failures' = Append(failures, k)
    BY <1>12, <2>2 DEF Connectors!IngestFails
  <2>4. failures' \in Seq(SourceKeys)
    BY <1>0, <2>2, <2>3, SeqAppend DEF ConnectorTypes
  <2>5. /\ objects \subseteq objects' /\ announced \subseteq announced'
        /\ \/ ledger' = ledger
           \/ polls[p].phase = "append" /\ ledger' = Append(ledger, Now(polls[p]))
    BY <1>12, <2>2 DEF Connectors!IngestFails, Connectors!PortWorks, Connectors!PutObject,
       Connectors!AppendEnvelope, Connectors!PublishAccepted
  <2>6. ledger' \in Seq(Connectors!Item) /\ Lines \subseteq Connectors!Range(ledger)'
    <3>1. ledger' = ledger => ledger' \in Seq(Connectors!Item) /\ Connectors!Range(ledger)' = Lines
      BY <1>0 DEF ConnectorTypes, Connectors!Range
    <3> HIDE DEF Lines
    <3> QED
      BY <1>8, <2>2, <2>5, <3>1
  <2>7. PICK W \in SUBSET (1..N) :
          /\ p \notin W
          /\ \A q \in W : polls[q].phase = "joining" /\ Now(polls[q]).key = Now(polls[p]).key
          /\ polls' = [q \in 1..N |-> IF q \in W \cup {p} THEN [polls[q] EXCEPT !.phase = "failed"]
                                      ELSE polls[q]]
    BY <1>10, <2>1
  <2>8. ASSUME NEW key \in SourceKeys PROVE Counted(key)'
    <3>1. Cardinality(Failed(key)') = Cardinality(Failed(key)) + IF k = key THEN 1 ELSE 0
      BY <1>0, <2>2, <2>3, CountAppend
    <3>2. \/ Entries(key)' = Entries(key)
          \/ /\ polls[p].phase = "append"
             /\ Cardinality(Entries(key)') = Cardinality(Entries(key)) + IF k = key THEN 1 ELSE 0
      BY <1>0, <1>6, <2>2, <2>5, CountAppend
    <3>3. polls[p].phase = "append" => ~Paid(k)
      BY <1>4, <2>1
    <3>4. key # k /\ Paid(key) => Paid(key)'
      <4>1. DOMAIN polls' = 1..N /\ \A q \in 1..N : polls'[q] = polls[q]
                                                    \/ Now(polls[q]).key = k
        BY <2>7
      <4> QED
        BY <1>3, <2>1, <4>1
    <3> QED
      BY <1>5, <3>1, <3>2, <3>3, <3>4 DEF Counted
  <2>9. Kept'
    <3>1. \A x \in Known : receipts[x].content \in objects /\ receipts[x] \in Lines /\ x \in announced
      BY <1>0 DEF Kept
    <3> HIDE DEF Lines
    <3> QED
      BY <2>1, <2>5, <2>6, <3>1 DEF Kept
  <2>10. /\ "failed" \in PollPhase \ {"pulling"} /\ "failed" \notin Connectors!Ingesting
         /\ receipts' \in [DOMAIN receipts' -> Connectors!Item]
    BY <1>0, <2>1 DEF PollPhase, Connectors!Ingesting, ConnectorTypes
  <2> HIDE DEF Lines
  <2> QED
    BY <1>2, <2>1, <2>4, <2>5, <2>6, <2>7, <2>8, <2>9, <2>10
\* Nothing moves in the fabric, and no poll.
<1>13. ASSUME NEW item \in Connectors!Item, Connectors!ItemAppears(item) PROVE ConnectorInv'
  <2>1. /\ source' = Append(source, item)
        /\ UNCHANGED <<cursor, delivered, receipts, objects, ledger, announced, polls, failures>>
    BY <1>13 DEF Connectors!ItemAppears
  <2>2. /\ source' \in Seq(Connectors!Item) /\ Len(source') = Len(source) + 1
        /\ \A n \in 1..Len(source) : source'[n] = source[n]
    BY <1>0, <2>1, SeqAppend
  <2>3. ConnectorTypes'
    BY <1>0, <2>1, <2>2 DEF ConnectorTypes
  <2>4. \A n \in 1..cursor' : source'[n].key \in DOMAIN receipts'
    BY <1>0, <2>1, <2>2
  <2>5. ASSUME NEW q \in 1..N
        PROVE  Pulled(polls'[q], source', DOMAIN receipts', objects', Connectors!Range(ledger)')
    <3>1. /\ polls'[q] = polls[q] /\ DOMAIN receipts' = Known /\ objects' = objects
          /\ Connectors!Range(ledger)' = Lines /\ Len(source) <= Len(source')
      BY <1>0, <2>1, <2>2 DEF Connectors!Range
    <3>2. polls[q] \in Poll /\ Pulled(polls[q], source, Known, objects, Lines)
      BY <1>0
    <3> HIDE DEF Lines
    <3> QED
      BY <1>0, <2>2, <3>1, <3>2, PulledStays
  <2>6. \A q \in 1..N : Alone(q)'
    BY <1>0, <2>1 DEF Alone, Busy
  <2>7. Kept' /\ \A key \in SourceKeys : Counted(key)'
    BY <1>0, <2>1 DEF Kept, Connectors!Range, Counted, Paid, Entries, Failed
  <2> QED
    BY <1>0, <2>1, <2>3, <2>4, <2>5, <2>6, <2>7 DEF ConnectorInv
<1>14. ASSUME Connectors!Poll PROVE ConnectorInv'
  <2>1. PICK x : x = [phase |-> "pulling", cursor |-> cursor, next |-> cursor, items |-> <<>>, at |-> 1]
    OBVIOUS
  <2>2. /\ polls' = Append(polls, x)
        /\ UNCHANGED <<source, cursor, delivered, receipts, objects, ledger, announced, failures>>
    BY <1>14, <2>1 DEF Connectors!Poll
  <2>3. /\ x \in Poll /\ x.phase = "pulling" /\ Pulled(x, source, Known, objects, Lines)
        /\ ~Busy(x)
    <3>1. cursor \in Nat
      BY <1>0
    <3>2. /\ x \in Poll /\ x.phase = "pulling" /\ x.cursor = cursor /\ x.next = cursor
          /\ x.items = <<>> /\ x.at = 1 /\ Len(x.items) = 0
      BY <2>1, <3>1 DEF Poll, PollPhase
    <3>3. x.cursor + x.at - 1 = cursor
      BY <3>1, <3>2
    <3> HIDE DEF Lines, Known
    <3>4. Pulled(x, source, Known, objects, Lines)
      BY <1>0, <3>1, <3>2, <3>3 DEF Pulled
    <3> QED
      BY <3>2, <3>4 DEF Busy, Connectors!Ingesting
  <2>4. /\ polls' \in Seq(Poll) /\ DOMAIN polls' = 1..(N + 1) /\ 1..(N + 1) = 1..N \cup {N + 1}
        /\ polls'[N + 1] = x /\ \A q \in 1..N : polls'[q] = polls[q]
    BY <1>0, <2>2, <2>3, SeqAppend
  <2>5. ConnectorTypes'
    BY <1>0, <2>2, <2>4 DEF ConnectorTypes
  <2>6. ASSUME NEW q \in DOMAIN polls'
        PROVE  Pulled(polls'[q], source', DOMAIN receipts', objects', Connectors!Range(ledger)')
    <3>1. Connectors!Range(ledger)' = Lines
      BY <2>2 DEF Connectors!Range
    <3> HIDE DEF Lines
    <3> QED
      BY <1>0, <2>2, <2>3, <2>4, <3>1
  <2>7. ASSUME NEW q \in DOMAIN polls' PROVE Alone(q)'
    <3>1. CASE q \in 1..N
      BY <1>0, <2>2, <2>3, <2>4, <3>1 DEF Alone, Busy
    <3>2. CASE q = N + 1
      BY <2>3, <2>4, <3>2 DEF Alone, Busy
    <3> QED
      BY <2>4, <3>1, <3>2
  <2>8. Kept'
    BY <1>0, <2>2 DEF Kept, Connectors!Range
  <2>9. ASSUME NEW key \in SourceKeys PROVE Counted(key)'
    <3>1. Entries(key)' = Entries(key) /\ Failed(key)' = Failed(key)
      BY <2>2 DEF Entries, Failed
    <3>2. Paid(key) => Paid(key)'
      BY <1>0, <2>2, <2>4 DEF Paid
    <3> QED
      BY <1>5, <3>1, <3>2 DEF Counted
  <2> QED
    BY <1>0, <2>2, <2>5, <2>6, <2>7, <2>8, <2>9 DEF ConnectorInv
<1>15. ASSUME NEW p \in 1..N, Connectors!PullFails(p) PROVE ConnectorInv'
  <2>1. PICK x : x = [polls[p] EXCEPT !.phase = "failed"]
    OBVIOUS
  <2>2. /\ polls[p].phase = "pulling" /\ polls' = [polls EXCEPT ![p] = x]
        /\ UNCHANGED <<source, cursor, delivered, receipts, objects, ledger, announced, failures>>
    BY <1>15, <2>1 DEF Connectors!PullFails, Connectors!Moves
  <2>3. "failed" \in PollPhase \ {"pulling"} /\ ~Busy(polls[p])
    BY <2>2 DEF PollPhase, Busy, Connectors!Ingesting
  <2>4. x \in Poll /\ x.phase = "failed" /\ Pulled(x, source, Known, objects, Lines)
    <3> HIDE DEF Known, Lines
    <3> QED
      BY <1>0, <2>1, <2>3, PulledMoves
  <2> QED
    BY <1>0, <1>1, <2>2, <2>3, <2>4
<1>16. ASSUME NEW p \in 1..N, NEW to \in 0..Len(source), Connectors!PullAnswers(p, to)
       PROVE  ConnectorInv'
  <2> DEFINE pulled == SubSeq(source, polls[p].cursor + 1, to)
  <2>1. PICK x : x = [polls[p] EXCEPT !.phase = "items", !.next = to, !.items = pulled]
    OBVIOUS
  <2>2. /\ polls[p].phase = "pulling" /\ polls[p].cursor <= to /\ polls' = [polls EXCEPT ![p] = x]
        /\ UNCHANGED <<source, cursor, delivered, receipts, objects, ledger, announced, failures>>
    BY <1>16, <2>1 DEF Connectors!PullAnswers
  <2>3. polls[p] \in Poll /\ Pulled(polls[p], source, Known, objects, Lines) /\ polls[p].cursor \in Nat
    BY <1>0 DEF Poll
  <2>4. /\ pulled \in Seq(Connectors!Item) /\ Len(pulled) = to - polls[p].cursor
        /\ \A i \in 1..Len(pulled) : pulled[i] = source[polls[p].cursor + i]
    <3>1. polls[p].cursor \in Nat /\ polls[p].cursor <= to
      BY <2>2, <2>3
    <3>2. /\ pulled \in Seq(Connectors!Item) /\ Len(pulled) = to - polls[p].cursor
          /\ \A i \in 1..(to - polls[p].cursor) : pulled[i] = source[polls[p].cursor + i]
      BY <1>0, <3>1, SubSeqIs
    <3> HIDE DEF pulled
    <3> QED
      BY <3>2
  <2> HIDE DEF pulled
  <2>5. /\ x \in Poll /\ x.phase = "items" /\ x.cursor = polls[p].cursor /\ x.next = to
        /\ x.items = pulled /\ x.at = 1
    <3>1. polls[p].at = 1
      BY <2>2, <2>3 DEF Pulled
    <3>2. to \in Nat /\ "items" \in PollPhase
      BY <1>0 DEF PollPhase
    <3> QED
      BY <2>1, <2>3, <2>4, <3>1, <3>2 DEF Poll
  <2>6. Pulled(x, source, Known, objects, Lines)
    <3>1. \A k \in 1..(x.cursor + x.at - 1) : source[k].key \in Known
      BY <2>2, <2>3, <2>5 DEF Pulled
    <3>2. x.at \in 1..(Len(x.items) + 1)
      BY <1>0, <2>2, <2>3, <2>4, <2>5
    <3> QED
      BY <1>0, <2>2, <2>4, <2>5, <3>1, <3>2 DEF Pulled
  <2>7. ~Busy(polls[p])
    BY <2>2 DEF Busy, Connectors!Ingesting
  <2> HIDE DEF Known, Lines
  <2> QED
    BY <1>0, <1>1, <2>2, <2>5, <2>6, <2>7
<1>17. ASSUME NEW p \in 1..N, Connectors!Deliver(p) PROVE ConnectorInv'
  <2>1. /\ polls[p].phase = "items" /\ polls[p].at <= Len(polls[p].items) /\ ~Busy(polls[p])
        /\ UNCHANGED <<source, cursor, delivered, receipts, objects, ledger, announced, failures>>
    BY <1>17 DEF Connectors!Deliver, Busy, Connectors!Ingesting
  <2>2. /\ Connectors!Current(p) = Now(polls[p]) /\ polls[p] \in Poll
        /\ Pulled(polls[p], source, Known, objects, Lines)
    BY <1>0, <1>a, <2>1
  <2>3. CASE Now(polls[p]).key \in delivered
    <3>1. PICK x : x = [polls[p] EXCEPT !.at = @ + 1]
      OBVIOUS
    <3>2. polls' = [polls EXCEPT ![p] = x]
      BY <1>17, <2>2, <2>3, <3>1 DEF Connectors!Deliver
    <3>3. /\ x \in Poll /\ x.phase = "items" /\ x.cursor = polls[p].cursor /\ x.next = polls[p].next
          /\ x.items = polls[p].items /\ x.at = polls[p].at + 1
      BY <2>1, <2>2, <3>1 DEF Poll
    <3>4. Now(polls[p]).key \in Known
      BY <1>0, <2>3
    <3> HIDE DEF Known, Lines
    <3>5. Pulled(x, source, Known, objects, Lines)
      BY <2>1, <2>2, <3>3, <3>4, PulledNext
    <3> QED
      BY <1>0, <1>1, <2>1, <3>2, <3>3, <3>5
  <2>4. CASE Now(polls[p]).key \notin delivered
    <3>1. PICK to \in {"accepted", "joining", "put"} :
            /\ Connectors!Moves(p, to)
            /\ to = "accepted" => Now(polls[p]).key \in Known
            /\ to = "put" => Now(polls[p]).key \notin Known /\ ~Connectors!InFlight(Now(polls[p]).key)
      BY <1>17, <2>2, <2>4 DEF Connectors!Deliver, Connectors!Ingest
    <3>2. PICK x : x = [polls[p] EXCEPT !.phase = to]
      OBVIOUS
    <3>3. polls' = [polls EXCEPT ![p] = x] /\ to \in PollPhase \ {"pulling"}
      BY <3>1, <3>2 DEF Connectors!Moves, PollPhase
    <3>4. /\ x \in Poll /\ x.phase = to /\ Now(x) = Now(polls[p])
          /\ Pulled(x, source, Known, objects, Lines)
      <4> HIDE DEF Known, Lines
      <4> QED
        BY <2>1, <2>2, <3>1, <3>2, <3>3, PulledMoves
    <3>5. to = "put" => \A q \in 1..N : Busy(polls[q]) => Now(polls[q]).key # Now(x).key
      BY <1>0, <3>1, <3>4 DEF Connectors!InFlight, Connectors!Current, Busy, Now
    <3> HIDE DEF Known, Lines
    <3> QED
      BY <1>0, <1>1, <2>1, <3>1, <3>3, <3>4, <3>5
  <2> QED
    BY <2>3, <2>4
<1>18. ASSUME NEW p \in 1..N, Connectors!Delivered(p) PROVE ConnectorInv'
  <2>1. PICK x : x = [polls[p] EXCEPT !.phase = "items", !.at = @ + 1]
    OBVIOUS
  <2>2. /\ polls[p].phase = "accepted" /\ polls' = [polls EXCEPT ![p] = x] /\ ~Busy(polls[p])
        /\ UNCHANGED <<source, cursor, receipts, objects, ledger, announced, failures>>
    BY <1>18, <2>1 DEF Connectors!Delivered, Busy, Connectors!Ingesting
  <2>3. /\ Connectors!Current(p) = Now(polls[p]) /\ polls[p] \in Poll
        /\ Pulled(polls[p], source, Known, objects, Lines)
    BY <1>0, <1>a, <2>2
  <2>4. polls[p].at <= Len(polls[p].items) /\ Now(polls[p]).key \in Known
    BY <2>2, <2>3 DEF Pulled
  <2>5. /\ x \in Poll /\ x.phase = "items" /\ x.cursor = polls[p].cursor /\ x.next = polls[p].next
        /\ x.items = polls[p].items /\ x.at = polls[p].at + 1
    <3>1. polls[p].at + 1 \in Nat /\ "items" \in PollPhase
      BY <2>3 DEF Poll, PollPhase
    <3>2. PICK further : further = polls[p].at + 1
      OBVIOUS
    <3>3. x = [polls[p] EXCEPT !.phase = "items", !.at = further]
      BY <2>1, <3>2, Zenon
    <3> QED
      BY <2>3, <3>1, <3>2, <3>3 DEF Poll
  <2>6. delivered' \subseteq Known
    BY <1>0, <1>18, <2>3, <2>4 DEF Connectors!Delivered
  <2> HIDE DEF Known, Lines
  <2>7. Pulled(x, source, Known, objects, Lines)
    BY <2>3, <2>4, <2>5, PulledNext
  <2> QED
    BY <1>0, <1>1, <2>2, <2>5, <2>6, <2>7
<1>19. ASSUME NEW p \in 1..N, Connectors!MoveCursor(p) PROVE ConnectorInv'
  <2>1. PICK x : x = [polls[p] EXCEPT !.phase = "done"]
    OBVIOUS
  <2>2. /\ polls[p].phase = "items" /\ polls[p].at > Len(polls[p].items) /\ ~Busy(polls[p])
        /\ polls' = [polls EXCEPT ![p] = x] /\ cursor' = polls[p].next
        /\ UNCHANGED <<source, delivered, receipts, objects, ledger, announced, failures>>
    BY <1>19, <2>1 DEF Connectors!MoveCursor, Connectors!Moves, Busy, Connectors!Ingesting
  <2>3. polls[p] \in Poll /\ Pulled(polls[p], source, Known, objects, Lines)
    BY <1>0
  <2>4. cursor' \in 0..Len(source) /\ \A k \in 1..cursor' : source[k].key \in Known
    <3>1. /\ polls[p].next \in Nat /\ polls[p].cursor \in Nat /\ polls[p].at \in Nat
          /\ Len(polls[p].items) \in Nat /\ Len(polls[p].items) = polls[p].next - polls[p].cursor
          /\ polls[p].at \in 1..(Len(polls[p].items) + 1) /\ polls[p].next <= Len(source)
      BY <2>3 DEF Pulled, Poll
    <3>2. polls[p].next = polls[p].cursor + polls[p].at - 1
      BY <2>2, <3>1
    <3> QED
      BY <1>0, <2>2, <2>3, <3>1, <3>2 DEF Pulled
  <2>5. "done" \in PollPhase \ {"pulling"}
    BY DEF PollPhase
  <2> HIDE DEF Known, Lines
  <2>6. x \in Poll /\ x.phase = "done" /\ Pulled(x, source, Known, objects, Lines)
    BY <2>1, <2>3, <2>5, PulledMoves
  <2> QED
    BY <1>0, <1>1, <2>2, <2>4, <2>6
<1>20. CASE UNCHANGED ingestion
  <2>1. UNCHANGED <<source, cursor, delivered, receipts, objects, ledger, announced, polls, failures>>
    BY <1>20 DEF ingestion
  <2>2. ConnectorTypes' /\ Kept'
    BY <1>0, <2>1 DEF ConnectorTypes, Kept, Connectors!Range
  <2>3. \A p \in DOMAIN polls' :
          /\ Pulled(polls'[p], source', DOMAIN receipts', objects', Connectors!Range(ledger)')
          /\ Alone(p)'
    <3>1. Connectors!Range(ledger)' = Lines
      BY <2>1 DEF Connectors!Range
    <3>2. \A p \in 1..N : Alone(p)'
      BY <1>0, <2>1 DEF Alone, Busy
    <3> HIDE DEF Lines
    <3> QED
      BY <1>0, <2>1, <3>1, <3>2
  <2>4. ASSUME NEW key \in SourceKeys PROVE Counted(key)'
    BY <1>0, <2>1 DEF Counted, Paid, Entries, Failed
  <2> QED
    BY <1>0, <2>1, <2>2, <2>3, <2>4 DEF ConnectorInv
<1> QED
  BY <1>0, <1>11, <1>12, <1>13, <1>14, <1>15, <1>16, <1>17, <1>18, <1>19, <1>20 DEF Connectors!Next

LEMMA ConnectorInitial == Connectors!Init => ConnectorInv
<1> SUFFICES ASSUME Connectors!Init PROVE ConnectorInv
  OBVIOUS
<1>1. /\ source = <<>> /\ cursor = 0 /\ delivered = {} /\ receipts = <<>>
      /\ ledger = <<>> /\ polls = <<>> /\ failures = <<>>
  BY DEF Connectors!Init
<1>2. ConnectorTypes
  BY <1>1 DEF ConnectorTypes
<1>3. \A key : Entries(key) = {} /\ Failed(key) = {}
  BY <1>1 DEF Entries, Failed
<1>4. Cardinality({}) = 0
  BY FS_EmptySet
<1>5. \A key : Counted(key)
  BY <1>3, <1>4 DEF Counted
<1> QED
  BY <1>1, <1>2, <1>5 DEF ConnectorInv, Kept

LEMMA ConnectorOnce == ConnectorInv => Connectors!IngestedOnce
<1> SUFFICES ASSUME ConnectorInv PROVE Connectors!IngestedOnce
  OBVIOUS
<1>1. \A S : Connectors!Cardinality(S) = Cardinality(S)
  BY Zenon DEF Connectors!Cardinality, Cardinality
<1>2. ASSUME NEW key \in SourceKeys
      PROVE  Cardinality({n \in DOMAIN ledger : ledger[n].key = key})
               <= 1 + Cardinality({n \in DOMAIN failures : failures[n] = key})
  <2>1. /\ Cardinality(Entries(key)) \in Nat /\ Cardinality(Failed(key)) \in Nat
        /\ Cardinality(Entries(key)) <= Cardinality(Failed(key)) + 1
    BY CountAppend DEF ConnectorInv, Counted
  <2>2. Cardinality(Entries(key)) <= 1 + Cardinality(Failed(key))
    BY <2>1
  <2> QED
    BY <2>2 DEF Entries, Failed
<1>3. /\ \A k \in 1..cursor : source[k].key \in DOMAIN receipts
      /\ \A key \in DOMAIN receipts : /\ receipts[key].content \in objects
                                      /\ receipts[key] \in Connectors!Range(ledger)
                                      /\ key \in announced
  BY DEF ConnectorInv, Kept
<1> QED
  BY <1>1, <1>2, <1>3, Zenon DEF Connectors!IngestedOnce

-----------------------------------------------------------------------------
\* However often it is asked for and whatever fails meanwhile: a workload is
\* executed once and a lease used once (LocalComputeProvider.execute), the work
\* of a key runs once (HostedComputeNode.runNext), an adapter is invoked once
\* for a key (ProviderGateway.execute), and an item of a source is neither lost
\* nor accepted twice (ConnectorRunner.poll, IngestionFabric.ingest).
THEOREM WorkIsDoneOnce == Spec => []DoneOnce
<1> DEFINE Inv == ComputeInv /\ HostedInv /\ GatewayInv /\ ConnectorInv
<1>1. Init => Inv
  BY ComputeInitial, HostedInitial, GatewayInitial, ConnectorInitial DEF Init
<1>2. Inv /\ [Next]_all => Inv'
  BY PartSteps, ComputeStep, HostedStep, GatewayStep, ConnectorStep
<1>3. Inv => DoneOnce
  BY ComputeOnce, HostedOnce, GatewayOnce, ConnectorOnce DEF DoneOnce
<1> QED
  BY <1>1, <1>2, <1>3, PTL DEF Spec, all

=============================================================================
