----------------------------- MODULE AgentActions -----------------------------
(***************************************************************************)
(* What agents do: the gateway of packages/agent-sdk, which lets them      *)
(* propose and act, and the procedure engine of packages/procedures, which *)
(* carries an action out with tools.                                       *)
(*                                                                         *)
(* The gateway reaches the engine, the verifier and the ledger through     *)
(* ports; here its executeProcedure is the engine, and every status but    *)
(* succeeded is a failed result.  Permissions are read when a call begins, *)
(* the gateway's first and the engine's in the same turn, and may change   *)
(* while the call waits.  Reads change nothing and are left out.           *)
(***************************************************************************)
EXTENDS Naturals, SequencesExt

CONSTANTS
  Operations,     \* the operations of the procedure, in order
  MaxCalls        \* bound: the calls of propose and act

OperationsAssumption == Operations \in Seq(STRING) /\ Operations # <<>>

VARIABLES
  mayAct,         \* whether the gateway lets agents act
  mayExecute,     \* whether the engine lets them execute the procedure
  calls,
  toolRuns,       \* what the tools did: [call, operation, ok], in order
  appended        \* the records of proposals and actions

agents == <<mayAct, mayExecute, calls, toolRuns, appended>>

-----------------------------------------------------------------------------
Propose(valid, requireVerification) ==
  /\ valid
  /\ Len(calls) < MaxCalls
  /\ calls' = Append(calls,
       [kind |-> "proposal", steps |-> <<>>, verified |-> "not asked",
        status |-> "provisional",
        phase |-> IF requireVerification THEN "verifying" ELSE "appending"])
  /\ UNCHANGED <<mayAct, mayExecute, toolRuns, appended>>

Lifecycle(answer) ==
  IF answer \in {"verified", "rejected"} THEN answer ELSE "provisional"

ProposalVerified(c, answer) ==
  /\ calls[c].kind = "proposal" /\ calls[c].phase = "verifying"
  /\ calls' = [calls EXCEPT ![c].phase = "appending", ![c].verified = answer,
                            ![c].status = Lifecycle(answer)]
  /\ UNCHANGED <<mayAct, mayExecute, toolRuns, appended>>

\* Denied by the engine, or without a precondition, the action is on record
\* as failed.
Act(preconditionsHold) ==
  /\ mayAct
  /\ Len(calls) < MaxCalls
  /\ calls' = Append(calls,
       [kind |-> "action", steps |-> <<>>, verified |-> "not asked",
        status |-> IF ~mayExecute THEN "denied"
                   ELSE IF ~preconditionsHold THEN "precondition-failed" ELSE "running",
        phase |-> IF mayExecute /\ preconditionsHold THEN "invoking" ELSE "appending"])
  /\ UNCHANGED <<mayAct, mayExecute, toolRuns, appended>>

\* Mutant: a failed operation does not end the execution.
AfterStepAlways(c, ok) ==
  IF Len(calls[c].steps) + 1 = Len(Operations) THEN "verifying" ELSE "invoking"

\* An operation that fails ends the execution.
AfterStep(c, ok) ==
  IF ~ok THEN "appending"
  ELSE IF Len(calls[c].steps) + 1 = Len(Operations) THEN "verifying" ELSE "invoking"

InvokeTool(c, ok) ==
  /\ calls[c].phase = "invoking"
  /\ LET operation == Operations[Len(calls[c].steps) + 1]
     IN toolRuns' = Append(toolRuns, [call |-> c, operation |-> operation, ok |-> ok])
  /\ calls' = [calls EXCEPT
       ![c].steps = Append(@, ok), ![c].phase = AfterStep(c, ok),
       ![c].status = IF AfterStep(c, ok) = "appending" THEN "failed" ELSE @]
  /\ UNCHANGED <<mayAct, mayExecute, appended>>

ExecutionVerified(c, passed) ==
  /\ calls[c].kind = "action" /\ calls[c].phase = "verifying"
  /\ calls' = [calls EXCEPT
       ![c].phase = "appending", ![c].verified = IF passed THEN "verified" ELSE "rejected",
       ![c].status = IF passed THEN "succeeded" ELSE "verification-failed"]
  /\ UNCHANGED <<mayAct, mayExecute, toolRuns, appended>>

Record(c) == [call |-> c, kind |-> calls[c].kind, status |-> calls[c].status]

AppendRecord(c) ==
  /\ calls[c].phase = "appending"
  /\ appended' = Append(appended, Record(c))
  /\ calls' = [calls EXCEPT ![c].phase = "done"]
  /\ UNCHANGED <<mayAct, mayExecute, toolRuns>>

\* A tool, the verifier or the ledger throws: the call ends without a record.
\* The tool or the ledger may have done its work by then.
PortThrows(c, done) ==
  /\ calls[c].phase \in {"invoking", "verifying", "appending"}
  /\ calls' = [calls EXCEPT ![c].phase = "threw"]
  /\ toolRuns' = IF done /\ calls[c].phase = "invoking"
                 THEN Append(toolRuns, [call |-> c, ok |-> FALSE,
                                        operation |-> Operations[Len(calls[c].steps) + 1]])
                 ELSE toolRuns
  /\ appended' = IF done /\ calls[c].phase = "appending" THEN Append(appended, Record(c))
                 ELSE appended
  /\ UNCHANGED <<mayAct, mayExecute>>

PermissionsChange ==
  /\ \E act, execute \in BOOLEAN : mayAct' = act /\ mayExecute' = execute
  /\ UNCHANGED <<calls, toolRuns, appended>>

-----------------------------------------------------------------------------
Init == /\ mayAct \in BOOLEAN /\ mayExecute \in BOOLEAN
        /\ calls = <<>> /\ toolRuns = <<>> /\ appended = <<>>

Next ==
  \/ \E valid, requireVerification \in BOOLEAN : Propose(valid, requireVerification)
  \/ \E preconditionsHold \in BOOLEAN : Act(preconditionsHold)
  \/ \E c \in DOMAIN calls :
       \/ \E answer \in {"verified", "rejected", "inconclusive"} : ProposalVerified(c, answer)
       \/ \E ok \in BOOLEAN :
            InvokeTool(c, ok) \/ ExecutionVerified(c, ok) \/ PortThrows(c, ok)
       \/ AppendRecord(c)
  \/ PermissionsChange

Spec == Init /\ [][Next]_agents

-----------------------------------------------------------------------------
\* The record of an action tells what the tools did for it, however calls
\* overlap: they ran the operations of the procedure in order and stopped at
\* the first that failed; they ran nothing for what was denied; and an action
\* that is recorded as succeeded ran them all and was verified afterwards.
\* No record is written twice, and none calls verified what no verifier did.
RecordsTellTheRuns ==
  /\ \A c \in DOMAIN calls :
       LET runs == SelectSeq(toolRuns, LAMBDA run : run.call = c)
       IN /\ Len(runs) <= Len(Operations)
          /\ \A k \in DOMAIN runs : /\ runs[k].operation = Operations[k]
                                     /\ k < Len(runs) => runs[k].ok
  /\ \A k \in DOMAIN appended :
       LET record == appended[k]
           runs == SelectSeq(toolRuns, LAMBDA run : run.call = record.call)
       IN /\ record.kind = "proposal" \/ record.status \in {"denied", "precondition-failed"}
               => runs = <<>>
          /\ record.status = "succeeded" =>
               /\ Len(runs) = Len(Operations) /\ runs[Len(runs)].ok
               /\ calls[record.call].verified = "verified"
          /\ record.status = "verified" => calls[record.call].verified = "verified"
          /\ \A j \in DOMAIN appended : appended[j].call = record.call => j = k
=============================================================================
