---------------------------- MODULE WorkRegistry ----------------------------
(***************************************************************************)
(* The work registry of packages/work: work instances with their episodes, *)
(* activities, assignments and outcomes, all kept in memory and all        *)
(* changed by one journal of operations.                                   *)
(*                                                                         *)
(* A registry is a value: the record New, or what Apply makes of a         *)
(* registry and an operation it Accepts.  An operation that is not         *)
(* accepted throws before anything is assigned.  The registry of a running *)
(* program is the variable work; Replay computes the registry that         *)
(* WorkRegistry.replay builds from a history.                              *)
(*                                                                         *)
(* Identifiers are opaque.  The caller supplies the operation's identifier *)
(* (a fresh one: OperationId counts downward, so that the order of the     *)
(* identifiers says nothing about the order of the operations) and the     *)
(* registry its ledger sequence.  A workspace is a number, because the     *)
(* history is sorted by workspace first.  Texts, contexts, timestamps and  *)
(* the role bindings (checked once, at creation) are left out; the kind of *)
(* a participant is part of its identity.                                  *)
(***************************************************************************)
EXTENDS Naturals, FiniteSets, SequencesExt, OpaqueIds

CONSTANTS
  Workspaces, Instances, Episodes, Activities, Assignments,   \* numbers
  Outcomes,
  Principals,
  Nobody,          \* no previous assignee
  MaxOperations    \* bound: the operations of a history

VARIABLE work

Changes == {"activity.handed-off", "activity.taken-over",
            "activity.given-back", "activity.suspended", "activity.resumed"}

New ==
  [instances |-> <<>>, episodes |-> <<>>, activities |-> <<>>,
   assignments |-> <<>>, streams |-> <<>>, operations |-> <<>>]

-----------------------------------------------------------------------------
(* What the registry checks before an operation. *)

NextLedgerSequence(reg, w) ==
  1 + Max({0} \cup {reg.operations[k].ledgerSequence :
                      k \in {j \in DOMAIN reg.operations :
                               reg.operations[j].workspace = w}})

Fresh(reg, op) ==
  \A k \in DOMAIN reg.operations :
    /\ reg.operations[k].id # op.id
    /\ \/ reg.operations[k].workspace # op.workspace
       \/ reg.operations[k].ledgerSequence # op.ledgerSequence

\* The instance exists in the workspace, at the version the caller expects,
\* and the caller takes part in it.
Current(reg, op) ==
  /\ op.instance \in DOMAIN reg.instances
  /\ LET instance == reg.instances[op.instance]
     IN /\ instance.workspace = op.workspace
        /\ instance.version = op.expectedVersion
        /\ op.actor \in instance.participants

AcceptsEpisode(reg, op) == op.episode \notin DOMAIN reg.episodes

AcceptsActivity(reg, op) ==
  /\ op.activity \notin DOMAIN reg.activities
  /\ op.episode \in DOMAIN reg.episodes
  /\ reg.episodes[op.episode] = op.instance

\* Mutant: an activity of any instance.
AcceptsAssignmentAnywhere(reg, op) ==
  /\ op.assignment \notin DOMAIN reg.assignments
  /\ op.to \in reg.instances[op.instance].participants
  /\ op.activity \in DOMAIN reg.activities

AcceptsAssignment(reg, op) ==
  /\ op.assignment \notin DOMAIN reg.assignments
  /\ op.to \in reg.instances[op.instance].participants
  /\ op.activity \in DOMAIN reg.activities
  /\ reg.activities[op.activity].instance = op.instance

\* Mutant: whoever held it before may as well.
MayChangeAsPrevious(assignment, op) ==
  op.kind # "activity.taken-over" =>
    op.actor \in {assignment.assignee, assignment.previous}

\* Only the assignee changes an assignment; anybody may take it over.
MayChange(assignment, op) ==
  op.kind # "activity.taken-over" => op.actor = assignment.assignee

AcceptsChange(reg, op) ==
  /\ op.assignment \in DOMAIN reg.assignments
  /\ LET assignment == reg.assignments[op.assignment]
     IN /\ assignment.instance = op.instance
        /\ MayChange(assignment, op)
        /\ op.kind \in {"activity.handed-off", "activity.taken-over"}
             => op.to \in reg.instances[op.instance].participants
        /\ op.kind = "activity.given-back" => assignment.previous # Nobody
        /\ op.kind = "activity.suspended" => assignment.status = "active"
        /\ op.kind = "activity.resumed" => assignment.status = "suspended"

AcceptsOutcome(reg, op) == op.outcome \notin reg.instances[op.instance].outcomes

Accepts(reg, op) ==
  /\ Fresh(reg, op)
  /\ \/ /\ op.kind = "work-instance.created"
        /\ op.instance \notin DOMAIN reg.instances
     \/ /\ op.kind # "work-instance.created"
        /\ Current(reg, op)
        /\ op.kind = "work-episode.started" => AcceptsEpisode(reg, op)
        /\ op.kind = "activity.added" => AcceptsActivity(reg, op)
        /\ op.kind = "activity.assigned" => AcceptsAssignment(reg, op)
        /\ op.kind \in Changes => AcceptsChange(reg, op)
        /\ op.kind = "outcome.recorded" => AcceptsOutcome(reg, op)

-----------------------------------------------------------------------------
(* What an accepted operation changes. *)

ApplyCreated(reg, op) ==
  [reg EXCEPT !.instances = (op.instance :>
     [workspace |-> op.workspace, version |-> 1, outcomes |-> {},
      participants |-> op.participants]) @@ @]

Advance(reg, op) == [reg EXCEPT !.instances[op.instance].version = @ + 1]

ApplyEpisode(reg, op) ==
  [Advance(reg, op) EXCEPT !.episodes = (op.episode :> op.instance) @@ @]

ApplyActivity(reg, op) ==
  [Advance(reg, op) EXCEPT !.activities =
     (op.activity :> [instance |-> op.instance, status |-> "planned"]) @@ @]

Assigned(op) ==
  op.assignment :>
    [instance |-> op.instance, activity |-> op.activity,
     assignee |-> op.to, previous |-> Nobody, status |-> "active",
     transitions |-> <<[kind |-> op.kind, actor |-> op.actor,
                        from |-> Nobody, to |-> op.to]>>]

\* Mutant: the activity stays as it was.
ApplyAssignmentOnly(reg, op) ==
  [Advance(reg, op) EXCEPT !.assignments = Assigned(op) @@ @]

ApplyAssignment(reg, op) ==
  [Advance(reg, op) EXCEPT !.activities[op.activity].status = "active",
                           !.assignments = Assigned(op) @@ @]

ApplyChange(reg, op) ==
  LET old == reg.assignments[op.assignment]
      moves == op.kind \in {"activity.handed-off", "activity.taken-over",
                            "activity.given-back"}
      assignee == CASE op.kind = "activity.given-back" -> old.previous
                    [] op.kind \in {"activity.suspended",
                                    "activity.resumed"} -> old.assignee
                    [] OTHER -> op.to
      status == IF op.kind = "activity.suspended" THEN "suspended" ELSE "active"
  IN [Advance(reg, op) EXCEPT
        !.activities[old.activity].status = status,
        !.assignments[op.assignment] =
           [@ EXCEPT !.assignee = assignee, !.status = status,
                     !.previous = IF moves THEN old.assignee ELSE @,
                     !.transitions = Append(@,
                        [kind |-> op.kind, actor |-> op.actor, to |-> assignee,
                         from |-> IF old.assignee = assignee THEN Nobody
                                  ELSE old.assignee])]]

ApplyOutcome(reg, op) ==
  [Advance(reg, op) EXCEPT !.instances[op.instance].outcomes = @ \cup {op.outcome}]

Entry(reg, op) ==
  LET stream == IF op.instance \in DOMAIN reg.streams
                THEN reg.streams[op.instance] ELSE <<>>
  IN Append(stream, [id |-> op.id, sequence |-> Len(stream) + 1, kind |-> op.kind])

Apply(reg, op) ==
  LET changed ==
        CASE op.kind = "work-instance.created" -> ApplyCreated(reg, op)
          [] op.kind = "work-episode.started" -> ApplyEpisode(reg, op)
          [] op.kind = "activity.added" -> ApplyActivity(reg, op)
          [] op.kind = "activity.assigned" -> ApplyAssignment(reg, op)
          [] op.kind \in Changes -> ApplyChange(reg, op)
          [] op.kind = "outcome.recorded" -> ApplyOutcome(reg, op)
  IN [changed EXCEPT !.streams = (op.instance :> Entry(reg, op)) @@ @,
                     !.operations = Append(@, op)]

-----------------------------------------------------------------------------
(* History and replay. *)

\* Mutant: identifiers decide.
PrecedesById(a, b) ==
  \/ a.workspace < b.workspace
  \/ a.workspace = b.workspace /\ a.id < b.id

Precedes(a, b) ==
  \/ a.workspace < b.workspace
  \/ a.workspace = b.workspace /\ a.ledgerSequence < b.ledgerSequence

History(reg) == SortSeq(reg.operations, Precedes)

Refused == [New EXCEPT !.operations = <<[kind |-> "refused"]>>]

\* The registry replay builds from a history; Refused when it throws.
Replay(history) ==
  FoldLeft(LAMBDA reg, op : IF reg # Refused /\ Accepts(reg, op)
                            THEN Apply(reg, op) ELSE Refused,
           New, history)

-----------------------------------------------------------------------------
(* The calls. *)

OperationId == MaxOperations - Len(work.operations)

Submit(operation) ==
  /\ Len(work.operations) < MaxOperations
  /\ Accepts(work, operation)
  /\ work' = Apply(work, operation)

CreateWorkInstance(i, w, participants, p) ==
  /\ p \in participants
  /\ Submit([kind |-> "work-instance.created", workspace |-> w, instance |-> i,
             actor |-> p, participants |-> participants, id |-> OperationId,
             ledgerSequence |-> NextLedgerSequence(work, w)])

\* A call on an existing instance, at the version the caller read some time
\* before; what the operation is about depends on its kind.
Call(kind, i, p, v, about) ==
  LET w == work.instances[i].workspace
      of(field) == IF field \in DOMAIN about THEN about[field] ELSE Nobody
  IN Submit([kind |-> kind, workspace |-> w, instance |-> i, actor |-> p,
             expectedVersion |-> v, id |-> OperationId,
             ledgerSequence |-> NextLedgerSequence(work, w),
             episode |-> of("episode"), activity |-> of("activity"),
             assignment |-> of("assignment"), to |-> of("to"),
             outcome |-> of("outcome")])

StartEpisode(i, p, v, e) == Call("work-episode.started", i, p, v, [episode |-> e])

AddActivity(i, p, v, e, a) ==
  Call("activity.added", i, p, v, [episode |-> e, activity |-> a])

AssignActivity(i, p, v, a, s, q) ==
  Call("activity.assigned", i, p, v, [activity |-> a, assignment |-> s, to |-> q])

HandoffActivity(i, p, v, s, q) ==
  Call("activity.handed-off", i, p, v, [assignment |-> s, to |-> q])

TakeOverActivity(i, p, v, s) ==
  Call("activity.taken-over", i, p, v, [assignment |-> s, to |-> p])

GiveBackActivity(i, p, v, s) == Call("activity.given-back", i, p, v, [assignment |-> s])

SuspendActivity(i, p, v, s) == Call("activity.suspended", i, p, v, [assignment |-> s])

ResumeActivity(i, p, v, s) == Call("activity.resumed", i, p, v, [assignment |-> s])

RecordOutcome(i, p, v, o) == Call("outcome.recorded", i, p, v, [outcome |-> o])

Init == work = New

\* A caller may expect any version; the calls that expect another than the
\* current one are refused, so only that one is offered.
Next ==
  \/ \E i \in Offered(Instances, DOMAIN work.instances), w \in Workspaces,
        ps \in SUBSET Principals, p \in Principals : CreateWorkInstance(i, w, ps, p)
  \/ \E i \in DOMAIN work.instances, p \in Principals :
      \E v \in {work.instances[i].version} :
       \/ \E e \in Offered(Episodes, DOMAIN work.episodes) :
            \/ StartEpisode(i, p, v, e)
            \/ \E a \in Offered(Activities, DOMAIN work.activities) :
                 AddActivity(i, p, v, e, a)
       \/ \E s \in Offered(Assignments, DOMAIN work.assignments) :
            \/ \E a \in DOMAIN work.activities, q \in Principals :
                 AssignActivity(i, p, v, a, s, q)
            \/ \E q \in Principals : HandoffActivity(i, p, v, s, q)
            \/ TakeOverActivity(i, p, v, s)
            \/ GiveBackActivity(i, p, v, s)
            \/ SuspendActivity(i, p, v, s)
            \/ ResumeActivity(i, p, v, s)
       \/ \E o \in Outcomes : RecordOutcome(i, p, v, o)

Spec == Init /\ [][Next]_work

-----------------------------------------------------------------------------
\* Every record of the registry refers to records of its own instance, and
\* every instance is one version per operation old.
TypeOK ==
  /\ \A i \in DOMAIN work.instances :
       /\ work.instances[i].workspace \in Workspaces
       /\ work.instances[i].version = Len(work.streams[i])
  /\ \A e \in DOMAIN work.episodes : work.episodes[e] \in DOMAIN work.instances
  /\ \A a \in DOMAIN work.activities :
       work.activities[a].instance \in DOMAIN work.instances
  /\ \A s \in DOMAIN work.assignments :
       LET assignment == work.assignments[s]
       IN /\ work.activities[assignment.activity].instance = assignment.instance
          /\ {assignment.assignee, assignment.previous} \subseteq
               {Nobody} \cup work.instances[assignment.instance].participants
          /\ assignment.status \in {"active", "suspended"}

\* A history replays: sorting it by workspace and ledger sequence (WorkRegistry.
\* history and replay) interleaves nothing that belongs together, so replay
\* accepts every operation and rebuilds the registry, although operations of
\* several workspaces were applied in another order.  The replayed registry
\* differs in the order of its journal only.
ReplayRebuilds ==
  LET replayed == Replay(History(work))
  IN [replayed EXCEPT !.operations = work.operations] = work
     /\ History(replayed) = History(work)

\* The transitions of an assignment form a chain: it starts with the
\* assignment, each later one is made by whoever held the work then, except a
\* take-over, which its new holder makes; the last one names the assignee; and
\* work is only ever given back to somebody who held it before.
AssignmentsChain ==
  \A s \in DOMAIN work.assignments :
    LET t == work.assignments[s].transitions
    IN /\ t[1].kind = "activity.assigned"
       /\ t[Len(t)].to = work.assignments[s].assignee
       /\ \A k \in 2..Len(t) :
            /\ t[k].actor =
                 IF t[k].kind = "activity.taken-over" THEN t[k].to ELSE t[k-1].to
            /\ t[k].from # Nobody => t[k].from = t[k-1].to
            /\ t[k].kind = "activity.given-back" =>
                 \E j \in 1..(k-1) : t[j].to = t[k].to

\* The status of an activity is never out of the air: planned as long as
\* nobody was assigned, and afterwards the status of one of its assignments
\* (with two of them, of the one changed last).
ActivityStatusJustified ==
  \A a \in DOMAIN work.activities :
    LET of == {s \in DOMAIN work.assignments : work.assignments[s].activity = a}
    IN IF of = {} THEN work.activities[a].status = "planned"
       ELSE \E s \in of : work.assignments[s].status = work.activities[a].status
=============================================================================
