-------------------------- MODULE MCCanonicalLedger --------------------------
(***************************************************************************)
(* An instance of CanonicalLedger: two workspaces, a legacy file of two    *)
(* entries in one of them and one in the other, and batches that append to *)
(* one or both workspaces, repeat an id, or carry a sequence of their own. *)
(***************************************************************************)
EXTENDS CanonicalLedger

CONSTANTS a, b, l1, l2, l3, W1, W2

Rec(id, ws) == [id |-> id, ws |-> ws, seq |-> NoSeq]

MCIds == {a, b, l1, l2, l3}
MCWorkspaces == {W1, W2}

MCBatches ==
  { <<Rec(a, W1), Rec(b, W2)>>,          \* one batch, two workspaces
    <<Rec(b, W1), Rec(a, W1)>>,          \* one batch, one workspace
    <<Rec(a, W2), Rec(a, W1)>>,          \* the same id twice
    <<Rec(l1, W1)>>,                     \* an id the legacy file may hold
    <<[Rec(b, W2) EXCEPT !.seq = 1]>>,   \* the caller supplies a sequence
    <<>> }

MCLegacy == {Rec(l1, W1), Rec(l2, W2), Rec(l3, W1)}
MCLegacyRank == [i \in MCIds |-> IF i = l3 THEN 2 ELSE 1]
=============================================================================
