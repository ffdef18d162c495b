------------------------- MODULE MCPlatformRequests -------------------------
(***************************************************************************)
(* Instances of PlatformRequests.  b1 and b2 are two ingestions that share *)
(* the record x; b3 is a transition that creates the record z; b4 is a     *)
(* control request that stores nothing but its result.  The ledger holds   *)
(* the record t.                                                           *)
(***************************************************************************)
EXTENDS PlatformRequests

CONSTANTS r1, r2, r3, k1, k2, b1, b2, b3, b4, x, y, z, t

MCBodies == {b1, b2, b3, b4}
MCIds == {x, y, z, t}
MCRecordsOf == (b1 :> {x, y}) @@ (b2 :> {x}) @@ (b3 :> {z}) @@ (b4 :> {})
MCStored0 == {[id |-> t, content |-> b1]}

Keyed(keys) == (r1 :> keys[1]) @@ (r2 :> keys[2]) @@ (r3 :> keys[3])
OfFamily(f, g) == (k1 :> f) @@ (k2 :> g)

\* Three ingestions: two bodies under one key, and another key.
Ingestions ==
  [asked |-> {r1, r2, r3}, keyOf |-> Keyed(<<k1, k1, k2>>), bodyOf |-> Keyed(<<b1, b2, b2>>),
   family |-> OfFamily("ingest", "ingest"), target |-> t, retries |-> 2]

\* The same control request from two clients, and a proposal.
Controls ==
  [asked |-> {r1, r2, r3}, keyOf |-> Keyed(<<k1, k1, k2>>), bodyOf |-> Keyed(<<b3, b3, b4>>),
   family |-> OfFamily("transition", "proposal"), target |-> t, retries |-> 2]

\* An ingestion sent twice, and a transition of the record y it creates.
Mixture ==
  [asked |-> {r1, r2, r3}, keyOf |-> Keyed(<<k1, k2, k1>>), bodyOf |-> Keyed(<<b1, b3, b1>>),
   family |-> OfFamily("ingest", "transition"), target |-> y, retries |-> 2]

AllSetups == {Ingestions, Controls, Mixture}
RetriedControl == {[Controls EXCEPT !.asked = {r1, r2}, !.retries = 2]}
=============================================================================
