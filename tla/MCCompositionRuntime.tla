------------------------ MODULE MCCompositionRuntime ------------------------
(***************************************************************************)
(* Component 1 needs a store; component 2 a store and a model.  Providers  *)
(* 1 and 2 offer stores, 2 only within the scope of component 2; provider  *)
(* 3 offers models.                                                        *)
(***************************************************************************)
EXTENDS CompositionRuntime, TLC

CONSTANTS store, model

MCNeeds == (1 :> {store}) @@ (2 :> {store, model})
MCOffers == (1 :> store) @@ (2 :> store) @@ (3 :> model)
MCSees == (1 :> {1, 3}) @@ (2 :> {1, 2, 3})

AllEnvironments ==
  {[running |-> 1, sink |-> FALSE, ops |-> 7],
   [running |-> 2, sink |-> TRUE, ops |-> 4]}
Throwing == {[running |-> 1, sink |-> TRUE, ops |-> 5]}
=============================================================================
