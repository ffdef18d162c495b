-------------------------- MODULE WorkspaceRegistry --------------------------
(***************************************************************************)
(* The workspace registry of packages/workspace: principals, accounts with *)
(* their personal workspaces, organizations with theirs, and memberships   *)
(* that are invited by a member and accepted by the invited.               *)
(*                                                                         *)
(* As in WorkRegistry, a registry is a value: New, or what Apply makes of  *)
(* a registry and an operation it Accepts; an operation that is not        *)
(* accepted throws before anything is assigned.  Timestamps are left out,  *)
(* and so is the comparison of the identifiers inside one operation        *)
(* (account and workspace, organization and membership): every call of the *)
(* registry builds them from one argument.                                 *)
(***************************************************************************)
EXTENDS Naturals, FiniteSets, SequencesExt, OpaqueIds

CONSTANTS
  Principals, Accounts, Organizations, Workspaces, Memberships,   \* numbers
  MaxOperations    \* bound: the operations of a history

VARIABLE spaces

New == [principals |-> <<>>, accounts |-> <<>>, organizations |-> <<>>,
        workspaces |-> <<>>, memberships |-> <<>>, operations |-> <<>>]

-----------------------------------------------------------------------------
(* What the registry checks before an operation. *)

NextLedgerSequence(reg) ==
  1 + Max({0} \cup {reg.operations[k].ledgerSequence : k \in DOMAIN reg.operations})

Fresh(reg, op) ==
  \A k \in DOMAIN reg.operations :
    /\ reg.operations[k].id # op.id
    /\ reg.operations[k].ledgerSequence # op.ledgerSequence

IsHuman(reg, p) == p \in DOMAIN reg.principals /\ reg.principals[p] = "human"

\* Mutant: an invitation is enough to invite.
IsMember(reg, p, o) ==
  \E m \in DOMAIN reg.memberships :
    reg.memberships[m].organization = o /\ reg.memberships[m].principal = p

IsActiveMember(reg, p, o) ==
  \E m \in DOMAIN reg.memberships :
    /\ reg.memberships[m].organization = o
    /\ reg.memberships[m].principal = p
    /\ reg.memberships[m].status = "active"

NewMembership(reg, op) ==
  /\ op.membership \notin DOMAIN reg.memberships
  /\ \A m \in DOMAIN reg.memberships :
       \/ reg.memberships[m].organization # op.organization
       \/ reg.memberships[m].principal # op.principal

AcceptsAccount(reg, op) ==
  /\ op.account \notin DOMAIN reg.accounts
  /\ \A a \in DOMAIN reg.accounts : reg.accounts[a].owner # op.principal
  /\ IsHuman(reg, op.principal)
  /\ op.workspace \notin DOMAIN reg.workspaces

AcceptsOrganization(reg, op) ==
  /\ op.organization \notin DOMAIN reg.organizations
  /\ IsHuman(reg, op.principal)
  /\ op.workspace \notin DOMAIN reg.workspaces
  /\ NewMembership(reg, op)

AcceptsInvitation(reg, op) ==
  /\ {op.principal, op.invitedBy} \subseteq DOMAIN reg.principals
  /\ op.organization \in DOMAIN reg.organizations
  /\ reg.organizations[op.organization] = op.workspace
  /\ IsActiveMember(reg, op.invitedBy, op.organization)
  /\ NewMembership(reg, op)

AcceptsAcceptance(reg, op) ==
  /\ op.principal \in DOMAIN reg.principals
  /\ op.membership \in DOMAIN reg.memberships
  /\ reg.memberships[op.membership].principal = op.principal
  /\ reg.memberships[op.membership].status = "invited"

Accepts(reg, op) ==
  /\ Fresh(reg, op)
  /\ CASE op.kind = "principal.registered" -> op.principal \notin DOMAIN reg.principals
       [] op.kind = "account.created" -> AcceptsAccount(reg, op)
       [] op.kind = "organization.created" -> AcceptsOrganization(reg, op)
       [] op.kind = "membership.invited" -> AcceptsInvitation(reg, op)
       [] op.kind = "membership.accepted" -> AcceptsAcceptance(reg, op)

-----------------------------------------------------------------------------
(* What an accepted operation changes. *)

ApplyAccount(reg, op) ==
  [reg EXCEPT
     !.accounts = (op.account :> [owner |-> op.principal, workspace |-> op.workspace]) @@ @,
     !.workspaces = (op.workspace :> [kind |-> "personal", of |-> op.account]) @@ @]

Member(op, inviter, status) ==
  op.membership :> [organization |-> op.organization, workspace |-> op.workspace,
                    principal |-> op.principal, invitedBy |-> inviter,
                    status |-> status]

ApplyOrganization(reg, op) ==
  [reg EXCEPT
     !.organizations = (op.organization :> op.workspace) @@ @,
     !.workspaces = (op.workspace :> [kind |-> "organization", of |-> op.organization]) @@ @,
     !.memberships = Member(op, op.principal, "active") @@ @]

ApplyInvitation(reg, op) ==
  [reg EXCEPT !.memberships = Member(op, op.invitedBy, "invited") @@ @]

ApplyAcceptance(reg, op) ==
  [reg EXCEPT !.memberships[op.membership].status = "active"]

Apply(reg, op) ==
  LET changed ==
        CASE op.kind = "principal.registered" ->
               [reg EXCEPT !.principals = (op.principal :> op.principalKind) @@ @]
          [] op.kind = "account.created" -> ApplyAccount(reg, op)
          [] op.kind = "organization.created" -> ApplyOrganization(reg, op)
          [] op.kind = "membership.invited" -> ApplyInvitation(reg, op)
          [] op.kind = "membership.accepted" -> ApplyAcceptance(reg, op)
  IN [changed EXCEPT !.operations = Append(@, op)]

-----------------------------------------------------------------------------
(* Reads. *)

\* Whom workspaceFor and switchWorkspace let in.
CanAccess(reg, p, w) ==
  /\ w \in DOMAIN reg.workspaces
  /\ LET workspace == reg.workspaces[w]
     IN IF workspace.kind = "personal"
        THEN reg.accounts[workspace.of].owner = p
        ELSE IsActiveMember(reg, p, workspace.of)

History(reg) == SortSeq(reg.operations,
                        LAMBDA a, b : a.ledgerSequence < b.ledgerSequence)

Refused == [New EXCEPT !.operations = <<[kind |-> "refused"]>>]

\* The registry replay builds from a history; Refused when it throws.
Replay(history) ==
  FoldLeft(LAMBDA reg, op : IF reg # Refused /\ Accepts(reg, op)
                            THEN Apply(reg, op) ELSE Refused,
           New, history)

-----------------------------------------------------------------------------
(* The calls. *)

Submit(operation) ==
  /\ Len(spaces.operations) < MaxOperations
  /\ Accepts(spaces, operation)
  /\ spaces' = Apply(spaces, operation)

OperationId == MaxOperations - Len(spaces.operations)

RegisterPrincipal(p, kind) ==
  Submit([kind |-> "principal.registered", principal |-> p, principalKind |-> kind,
          id |-> OperationId, ledgerSequence |-> NextLedgerSequence(spaces)])

CreateAccount(a, p, w) ==
  Submit([kind |-> "account.created", account |-> a, principal |-> p, workspace |-> w,
          id |-> OperationId, ledgerSequence |-> NextLedgerSequence(spaces)])

CreateOrganization(o, w, m, p) ==
  Submit([kind |-> "organization.created", organization |-> o, workspace |-> w,
          membership |-> m, principal |-> p,
          id |-> OperationId, ledgerSequence |-> NextLedgerSequence(spaces)])

InviteMember(m, o, p, inviter) ==
  /\ o \in DOMAIN spaces.organizations
  /\ Submit([kind |-> "membership.invited", membership |-> m, organization |-> o,
             workspace |-> spaces.organizations[o], principal |-> p,
             invitedBy |-> inviter,
             id |-> OperationId, ledgerSequence |-> NextLedgerSequence(spaces)])

AcceptInvitation(m, p) ==
  Submit([kind |-> "membership.accepted", membership |-> m, principal |-> p,
          id |-> OperationId, ledgerSequence |-> NextLedgerSequence(spaces)])

Init == spaces = New

Next ==
  \/ \E p \in Offered(Principals, DOMAIN spaces.principals), kind \in {"human", "agent"} :
       RegisterPrincipal(p, kind)
  \/ \E p \in DOMAIN spaces.principals,
        w \in Offered(Workspaces, DOMAIN spaces.workspaces),
        m \in Offered(Memberships, DOMAIN spaces.memberships) :
       \/ \E a \in Offered(Accounts, DOMAIN spaces.accounts) : CreateAccount(a, p, w)
       \/ \E o \in Offered(Organizations, DOMAIN spaces.organizations) :
            \/ CreateOrganization(o, w, m, p)
            \/ \E q \in DOMAIN spaces.principals : InviteMember(m, o, p, q)
       \/ AcceptInvitation(m, p)

Spec == Init /\ [][Next]_spaces

-----------------------------------------------------------------------------
\* Every workspace belongs to the account or the organization that names it.
TypeOK ==
  /\ \A p \in DOMAIN spaces.principals : spaces.principals[p] \in {"human", "agent"}
  /\ \A w \in DOMAIN spaces.workspaces :
       LET of == spaces.workspaces[w].of
       IN CASE spaces.workspaces[w].kind = "personal" ->
                 spaces.accounts[of].workspace = w
            [] spaces.workspaces[w].kind = "organization" ->
                 spaces.organizations[of] = w
  /\ \A m \in DOMAIN spaces.memberships :
       spaces.memberships[m].status \in {"invited", "active"}

\* A restart loses nothing: replay accepts the sorted history and rebuilds
\* the registry it was taken from.
ReplayRebuilds == Replay(History(spaces)) = spaces

\* Who can enter the workspace of an organization founded it, or accepted an
\* invitation that somebody made who could enter it at that time; and every
\* personal workspace admits its owner, a human, and nobody else.
AccessIsGiven ==
  LET ops == spaces.operations
      Entered(p, o, before) ==
        \E j \in 1..before :
          /\ ops[j].kind \in {"organization.created", "membership.accepted"}
          /\ ops[j].principal = p
          /\ spaces.memberships[ops[j].membership].organization = o
  IN \A w \in DOMAIN spaces.workspaces, p \in Principals :
       CanAccess(spaces, p, w) =>
         IF spaces.workspaces[w].kind = "personal"
         THEN /\ spaces.principals[p] = "human"
              /\ \A v \in DOMAIN spaces.workspaces \ {w} :
                   spaces.workspaces[v].kind = "personal" => ~CanAccess(spaces, p, v)
         ELSE LET o == spaces.workspaces[w].of
              IN \E k \in DOMAIN ops :
                   /\ ops[k].principal = p
                   /\ \/ ops[k].kind = "organization.created" /\ ops[k].organization = o
                      \/ /\ ops[k].kind = "membership.accepted"
                         /\ \E j \in 1..(k - 1) :
                              /\ ops[j].kind = "membership.invited"
                              /\ ops[j].membership = ops[k].membership
                              /\ ops[j].organization = o
                              /\ ops[j].principal = p
                              /\ Entered(ops[j].invitedBy, o, j - 1)
=============================================================================
