---------------------------- MODULE ProviderGateway ----------------------------
(***************************************************************************)
(* The provider gateway: contracts, providers, bindings of providers for   *)
(* principals, and operations executed through a binding by the adapter of *)
(* its provider, once per idempotency key.                                 *)
(*                                                                         *)
(* An operation is checked, then waits for the authority, for the          *)
(* credential if its binding has one, and for the adapter.  Providers come *)
(* and go meanwhile; a provider registered again is another object, which  *)
(* its registration number tells apart.                                    *)
(*                                                                         *)
(* Kinds, versions and effect classes of contracts are checked when they   *)
(* are registered or used and otherwise left alone: a contract here is an  *)
(* identifier, and an envelope is well formed.  One workspace and one      *)
(* application.                                                            *)
(***************************************************************************)
EXTENDS Naturals, FiniteSets, SequencesExt, OpaqueIds

CONSTANTS
  Providers, Contracts, Principals, Bindings, Keys,
  Requests,          \* the envelopes to try
  MaxRegistrations,  \* bound: the availability events
  MaxCalls           \* bound: the operations that were not remembered

\* What of an envelope its fingerprint and the checks tell apart.
Envelope == [key : Keys, binding : Bindings, contract : Contracts, principal : Principals]

RequestsAssumption == Requests \subseteq Envelope

VARIABLES
  toolContracts,     \* the registered contracts
  providers,         \* the registered providers: registration and contracts
  bindings,
  idempotency,       \* key -> the operation whose promise is remembered
  operations,        \* the operations begun
  events             \* the availability events told to a listener

gateway == <<toolContracts, providers, bindings, idempotency, operations, events>>

-----------------------------------------------------------------------------
(* Registration. *)

RegisterToolContract(t) ==
  /\ t \notin toolContracts
  /\ toolContracts' = toolContracts \cup {t}
  /\ UNCHANGED <<providers, bindings, idempotency, operations, events>>

PublishAvailability(p, availability) ==
  events' = Append(events, [provider |-> p, availability |-> availability])

RegisterProvider(p, contracts) ==
  /\ p \notin DOMAIN providers
  /\ contracts \subseteq toolContracts
  /\ Len(events) < MaxRegistrations
  /\ providers' = Put(providers, p, [registration |-> Len(events) + 1, contracts |-> contracts])
  /\ PublishAvailability(p, "AVAILABLE")
  /\ UNCHANGED <<toolContracts, bindings, idempotency, operations>>

\* Without a reason the call throws when the provider is gone, and no listener
\* hears of it.
UnregisterProvider(p, reasonGiven) ==
  /\ p \in DOMAIN providers
  /\ Len(events) < MaxRegistrations
  /\ providers' = Restrict(providers, DOMAIN providers \ {p})
  /\ IF reasonGiven THEN PublishAvailability(p, "UNAVAILABLE") ELSE UNCHANGED events
  /\ UNCHANGED <<toolContracts, bindings, idempotency, operations>>

BindProvider(b, p, contracts, principals, credential) ==
  /\ b \notin DOMAIN bindings
  /\ p \in DOMAIN providers
  /\ contracts \subseteq providers[p].contracts
  /\ bindings' = Put(bindings, b, [provider |-> p, contracts |-> contracts,
                                   principals |-> principals, credential |-> credential])
  /\ UNCHANGED <<toolContracts, providers, idempotency, operations, events>>

-----------------------------------------------------------------------------
(* Operations. *)

\* What is checked before the first await.
InScope(request) ==
  /\ request.binding \in DOMAIN bindings
  /\ LET binding == bindings[request.binding]
     IN /\ request.principal \in binding.principals
        /\ request.contract \in binding.contracts
        /\ binding.provider \in DOMAIN providers
        /\ request.contract \in providers[binding.provider].contracts

\* A call whose key is remembered gets the remembered promise, or is refused
\* for another fingerprint; neither changes anything.
Execute(request) ==
  /\ Len(operations) < MaxCalls
  /\ request.key \notin DOMAIN idempotency
  /\ idempotency' = Put(idempotency, request.key, Len(operations) + 1)
  /\ operations' = Append(operations,
       [request |-> request, invoked |-> FALSE,
        phase |-> IF InScope(request) THEN "authorizing" ELSE "rejected",
        registration |-> IF InScope(request)
                         THEN providers[bindings[request.binding].provider].registration
                         ELSE 0])
  /\ UNCHANGED <<toolContracts, providers, bindings, events>>

Moves(o, phase) ==
  /\ operations' = [operations EXCEPT ![o].phase = phase,
                                      ![o].invoked = @ \/ phase = "invoking"]
  /\ UNCHANGED <<toolContracts, providers, bindings, idempotency, events>>

\* The authority allows the operation, or does not, or throws.
Authorize(o, allowed) ==
  /\ operations[o].phase = "authorizing"
  /\ Moves(o, IF ~allowed THEN "rejected"
              ELSE IF bindings[operations[o].request.binding].credential
                   THEN "resolving" ELSE "invoking")

ResolveCredential(o, resolved) ==
  /\ operations[o].phase = "resolving"
  /\ Moves(o, IF resolved THEN "invoking" ELSE "rejected")

Current(o) ==
  LET p == bindings[operations[o].request.binding].provider
  IN p \in DOMAIN providers /\ providers[p].registration = operations[o].registration

\* Mutant: a provider of that name is enough.
CurrentByName(o) ==
  bindings[operations[o].request.binding].provider \in DOMAIN providers

StillCurrent(o) == Current(o)

\* The adapter answers, or throws; its answer counts when the provider is
\* still the one that was chosen before the awaits.
AdapterAnswers(o, ok) ==
  /\ operations[o].phase = "invoking"
  /\ Moves(o, IF ok /\ StillCurrent(o) THEN "observed" ELSE "rejected")

\* Mutant: every rejection is forgotten.
MayForgetAny(o) == TRUE

\* An operation whose adapter was invoked is remembered even when it failed.
MayForget(o) == ~operations[o].invoked

Forget(o) ==
  /\ operations[o].phase = "rejected"
  /\ operations' = [operations EXCEPT ![o].phase = "ended"]
  /\ idempotency' = IF MayForget(o) /\ idempotency[operations[o].request.key] = o
                    THEN Restrict(idempotency, DOMAIN idempotency \ {operations[o].request.key})
                    ELSE idempotency
  /\ UNCHANGED <<toolContracts, providers, bindings, events>>

-----------------------------------------------------------------------------
Init == /\ toolContracts = {} /\ providers = <<>> /\ bindings = <<>>
        /\ idempotency = <<>> /\ operations = <<>> /\ events = <<>>

Step(o) ==
  \/ \E answer \in BOOLEAN :
       Authorize(o, answer) \/ ResolveCredential(o, answer) \/ AdapterAnswers(o, answer)
  \/ Forget(o)

Next ==
  \/ \E t \in Contracts : RegisterToolContract(t)
  \/ \E p \in Providers, contracts \in SUBSET Contracts \ {{}} : RegisterProvider(p, contracts)
  \/ \E p \in Providers, reasonGiven \in BOOLEAN : UnregisterProvider(p, reasonGiven)
  \/ \E b \in Bindings, p \in Providers, contracts \in SUBSET Contracts \ {{}},
        principals \in SUBSET Principals \ {{}}, credential \in BOOLEAN :
       BindProvider(b, p, contracts, principals, credential)
  \/ \E request \in Requests : Execute(request)
  \/ \E o \in DOMAIN operations : Step(o)

Fairness == \A o \in 1..MaxCalls : WF_gateway(o \in DOMAIN operations /\ Step(o))

Spec == Init /\ [][Next]_gateway /\ Fairness

-----------------------------------------------------------------------------
\* An adapter is invoked at most once for an idempotency key, although
\* refused, failed and lost operations are tried again, and although providers
\* are withdrawn and restored (ADR 0003: restoring a provider may not replay
\* an effect); and always within the scope of the binding the key named.
InvokedOncePerKey ==
  \A o \in DOMAIN operations :
    operations[o].invoked =>
      /\ operations[o].request.principal \in bindings[operations[o].request.binding].principals
      /\ operations[o].request.contract \in bindings[operations[o].request.binding].contracts
      /\ \A q \in DOMAIN operations :
           q # o /\ operations[q].request.key = operations[o].request.key
             => ~operations[q].invoked

\* A step that gives a receipt is taken while the provider that was checked
\* and invoked is registered, and has been all the time: no provider is
\* credited with what an earlier one of its name did.
ReceiptsAreCurrent ==
  [][\A o \in DOMAIN operations :
       operations[o].phase # "observed" /\ operations'[o].phase = "observed" =>
         LET p == bindings[operations[o].request.binding].provider
         IN /\ p \in DOMAIN providers
            /\ \A k \in (operations[o].registration + 1)..Len(events) : events[k].provider # p]_gateway

\* Every operation ends, whatever happens to its provider meanwhile.
OperationsEnd ==
  \A o \in 1..MaxCalls :
    (o \in DOMAIN operations) ~>
      (o \in DOMAIN operations /\ operations[o].phase \in {"observed", "ended"})
=============================================================================
