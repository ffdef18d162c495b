------------------------------ MODULE SyncEngine ------------------------------
(***************************************************************************)
(* The synchronisation of one object by packages/sync: replicas record     *)
(* operations that name their parents, operations reach a device in any    *)
(* order, late or twice, and the device merges what its storage policy     *)
(* lets it keep.                                                           *)
(*                                                                         *)
(* The clocks of replicas differ: the instant of an operation is any.      *)
(* Identifiers are numbers in their order; an operation changes one key.   *)
(***************************************************************************)
EXTENDS Naturals, FiniteSets, SequencesExt

CONSTANTS
  Policies,        \* the ways in which kinds of objects merge
  Changes,         \* what an operation may change, when, under which policy
  MaxOperations,   \* bound: the operations recorded
  MaxReceived      \* bound: the deliveries to a device

\* The localities and expiries of a storage policy; that it also lists devices,
\* regions and agents adds reasons of the same kind and is left out.
StoragePolicy == [locality : {"local-only", "cloud-allowed", "cloud-required", "ephemeral"},
                  expiresAt : Nat]

Change == [key : STRING, at : Nat, policy : StoragePolicy]

ChangesAssumption == \A c \in Changes : c \in Change

PoliciesAssumption == Policies \subseteq {"mergeable-map", "authoritative"}

VARIABLES
  policy,          \* how the object merges
  operations,      \* the operations recorded, by identifier
  received         \* the deliveries to each of two devices

sync == <<policy, operations, received>>

Devices == {"desk", "phone"}
Target(device) == [kind |-> IF device = "desk" THEN "local" ELSE "cloud", at |-> 1]

\* An operation follows operations that its replica knew.
CreateSyncOperation(parents, change) ==
  /\ Len(operations) < MaxOperations
  /\ operations' = Append(operations, [parents |-> parents, key |-> change.key, at |-> change.at,
                                       policy |-> change.policy])
  /\ UNCHANGED <<policy, received>>

Deliver(device, id) ==
  /\ Len(received[device]) < MaxReceived
  /\ received' = [received EXCEPT ![device] = Append(@, id)]
  /\ UNCHANGED <<policy, operations>>

-----------------------------------------------------------------------------
Denied(storagePolicy, target) ==
  \/ storagePolicy.locality = "local-only" /\ target.kind = "cloud"
  \/ storagePolicy.locality = "cloud-required" /\ target.kind = "local"
  \/ storagePolicy.locality = "ephemeral" /\ target.kind = "cloud"
  \/ target.at >= storagePolicy.expiresAt

\* Mutant: operations of one instant stay as they came.
BeforeByTime(i, j) == operations[i].at < operations[j].at

Before(i, j) ==
  operations[i].at < operations[j].at \/ (operations[i].at = operations[j].at /\ i < j)

\* A stable sort of the deliveries.
Sorted(ids) ==
  FoldSeq(LAMBDA id, done :
            LET place == Cardinality({k \in DOMAIN done : ~Before(id, done[k])})
            IN SubSeq(done, 1, place) \o <<id>> \o SubSeq(done, place + 1, Len(done)),
          <<>>, ids)

Accepted(ids, target) == SelectSeq(ids, LAMBDA id : ~Denied(operations[id].policy, target))

Heads(ids) == {i \in Range(ids) : \A j \in Range(ids) : i \notin operations[j].parents}

\* The positions of the heads: one delivered twice is twice a head.
AuthoritativeHeads(ids) == {k \in DOMAIN ids : ids[k] \in Heads(ids)}

\* The merged state, key by key the operation whose value it is; or a conflict.
Synchronize(ids, target) ==
  LET accepted == Accepted(Sorted(ids), target)
      last(key) == CHOOSE i \in {accepted[k] : k \in DOMAIN accepted} :
                     /\ operations[i].key = key
                     /\ \E k \in DOMAIN accepted :
                          /\ accepted[k] = i
                          /\ \A j \in (k + 1)..Len(accepted) : operations[accepted[j]].key # key
  IN IF policy = "authoritative" /\ Cardinality(AuthoritativeHeads(accepted)) > 1
     THEN [conflict |-> TRUE, candidates |-> Heads(accepted), state |-> <<>>]
     ELSE [conflict |-> FALSE, candidates |-> {},
           state |-> [key \in {operations[i].key : i \in Range(accepted)} |-> last(key)]]

-----------------------------------------------------------------------------
Init == policy \in Policies /\ operations = <<>> /\ received = [d \in Devices |-> <<>>]

Next ==
  \/ \E parents \in SUBSET DOMAIN operations, change \in Changes :
       CreateSyncOperation(parents, change)
  \/ \E device \in Devices, id \in DOMAIN operations : Deliver(device, id)

Spec == Init /\ [][Next]_sync

-----------------------------------------------------------------------------
Ancestors(i) ==
  LET within[k \in 0..MaxOperations] ==
        IF k = 0 THEN {i}
        ELSE within[k - 1] \cup UNION {operations[j].parents : j \in within[k - 1]}
  IN within[MaxOperations]

\* Devices that have the same operations have the same state, however these
\* were ordered and whether or not some came again, unless a repetition makes
\* a conflict of a single head; and the state of an authoritative object is
\* that of one history: everything in it leads to one operation.
Converges ==
  LET ids(d) == received[d]
      merged(d) == Synchronize(ids(d), Target("desk"))
  IN /\ Range(ids("desk")) = Range(ids("phone")) =>
          \/ merged("desk") = merged("phone")
          \/ \E d \in Devices : merged(d).conflict /\ Cardinality(merged(d).candidates) = 1
     /\ \A d \in Devices :
          LET merge == Synchronize(ids(d), Target(d))
              kept == Range(Accepted(ids(d), Target(d)))
          IN policy = "authoritative" /\ ~merge.conflict /\ kept # {} =>
               \E head \in kept : kept \subseteq Ancestors(head)
=============================================================================
