-------------------------- MODULE AppendOnlyLedger --------------------------
(***************************************************************************)
(* What a canonical ledger promises to the rest of the platform            *)
(* (DurableLedgerPort, packages/storage/src/index.ts, and ADR 0006): one   *)
(* log of records per workspace, that grows by whole batches, in which a   *)
(* record never moves and never changes, and which holds every batch whose *)
(* append was acknowledged.  Files, queues, processes and crashes do not   *)
(* appear here: CanonicalLedger is shown to implement this module.         *)
(***************************************************************************)
EXTENDS Naturals

CONSTANTS Ids,         \* record identifiers
          Workspaces   \* workspaces, each with a causal order of its own

VARIABLES log,    \* the entries [id, ws, seq] of the ledger
          acked   \* the identifiers of acknowledged records

logVars == <<log, acked>>

Entry == [id : Ids, ws : Workspaces, seq : Nat \ {0}]

\* No two entries share an identifier, nor a place in a workspace's order.
WellOrdered(S) ==
  \A e, f \in S : e.id = f.id \/ (e.ws = f.ws /\ e.seq = f.seq) => e = f

Init ==
  /\ log \subseteq Entry
  /\ WellOrdered(log)
  /\ acked = {}

\* A batch is published in one step, after everything its workspaces hold.
Publish ==
  LET batch == log' \ log
  IN  /\ log \subseteq log'
      /\ batch \subseteq Entry
      /\ \A e \in log, f \in batch : e.ws = f.ws => e.seq < f.seq
      /\ WellOrdered(log')
      /\ acked' = acked

\* Only records the log holds are acknowledged, and none is forgotten.
Acknowledge ==
  /\ log' = log
  /\ acked \subseteq acked'
  /\ acked' \subseteq {e.id : e \in log}

Next == Publish \/ Acknowledge

Spec == Init /\ [][Next]_logVars
=============================================================================
