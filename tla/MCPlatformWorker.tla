-------------------------- MODULE MCPlatformWorker --------------------------
(* Four jobs, two of them with one idempotency key.                         *)
EXTENDS PlatformWorker, TLC

CONSTANTS k1, k2, k3

MCKeyOf == (1 :> k1) @@ (2 :> k2) @@ (3 :> k1) @@ (4 :> k3)
MCMaxAttempts == (1 :> 2) @@ (2 :> 1) @@ (3 :> 3) @@ (4 :> 2)

AllFaults == SUBSET {"publish", "save", "crash"}
MayCrash == {{"crash"}}
=============================================================================
