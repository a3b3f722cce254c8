------------------------------ MODULE VisitRules ------------------------------
(***************************************************************************)
(* The rules of one row of visit_requests, as app/services/                *)
(* visit_request_service.py applies them: who an authenticated user is in  *)
(* the context of a visit, whose turn it is, and what each operation       *)
(* writes to the row.  Nothing here has state: VisitNegotiation applies    *)
(* the rules to committed rows, one request at a time.                     *)
(*                                                                         *)
(* A slot (date, start and end time) is one opaque value: _validate_slot   *)
(* has accepted every slot that reaches these rules.                       *)
(***************************************************************************)
EXTENDS Rows

(***************************************************************************)
(* Enumerations of app/models/visit_request.py and the roles a user can    *)
(* have active (app/models/user.py).                                       *)
(***************************************************************************)
VisitStatus   == {"PENDING", "NEGOTIATING", "CONFIRMED",
                  "APPOINTMENT_SCHEDULED", "COMPLETED", "CANCELLED", "REJECTED"}
VisitResult   == {"PENDING", "APPROVED", "REJECTED"}
ProposalRole  == {"TENANT", "MANAGER", "SUPER_ADMIN"}
Response      == {"PENDING", "ACCEPTED", "REJECTED", "SUPERSEDED"}
UserRole      == {"TENANT", "OWNER", "MANAGER", "SUPER_ADMIN"}

StaffRole     == {"MANAGER", "SUPER_ADMIN"}

\* The statuses create_visit_request counts as "active" ...
ActiveStatus  == {"PENDING", "NEGOTIATING", "CONFIRMED", "APPOINTMENT_SCHEDULED"}
\* ... and those propose and cancel refuse as finalized.
ClosedStatus  == {"COMPLETED", "CANCELLED", "REJECTED"}
\* The statuses after which the whole stakeholder set is told.
FanOutStatus  == {"CONFIRMED", "REJECTED", "CANCELLED", "COMPLETED"}

-----------------------------------------------------------------------------
(***************************************************************************)
(* Mutations a careless edit of the rules could introduce.  Each has the   *)
(* signature of the rule it stands in for.                                 *)
(***************************************************************************)
ActorRoleByActiveRole(row, u, active) ==
    IF active \in StaffRole THEN active
    ELSE IF u = row.tenant_id THEN "TENANT" ELSE NULL

ActorRoleAnyActive(row, u, active) ==
    IF u = row.tenant_id THEN "TENANT" ELSE active

ActorMatchesAnyTurn(role, pending) == role \in ProposalRole

FlipSideNever(role, counterparty) == role

AcceptedKeepingSchedule(row, u, role, slot) ==
    [row EXCEPT !.status = "CONFIRMED",
                !.pending_with = NULL,
                !.manager_id = IF role \in StaffRole THEN u ELSE @]

CompletedWithoutResult(row, approve) == [row EXCEPT !.status = "COMPLETED"]

CanProposeUnlessCompleted(row, role) == row.status # "COMPLETED" /\ role # NULL

-----------------------------------------------------------------------------
(***************************************************************************)
(* Who is acting.                                                          *)
(***************************************************************************)

\* _resolve_actor_role: the visit's tenant is always TENANT, whatever role is
\* active; a manager counts even when not assigned; NULL is PermissionError.
ActorRole(row, u, active) ==
    IF u = row.tenant_id THEN "TENANT"
    ELSE IF active \in StaffRole THEN active ELSE NULL

\* _actor_matches_pending: a super-admin may also take a manager's turn.
ActorMatchesPending(role, pending) ==
    \/ role = pending
    \/ role = "SUPER_ADMIN" /\ pending \in StaffRole

\* _flip_side: the counterparty moves after the tenant, the tenant after staff.
FlipSide(role, counterparty) ==
    IF role = "TENANT" THEN counterparty ELSE "TENANT"

\* The turn check shared by propose, accept and reject: with no turn pending
\* every party passes it.
HasTurn(row, role) ==
    /\ role # NULL
    /\ row.pending_with = NULL \/ ActorMatchesPending(role, row.pending_with)

-----------------------------------------------------------------------------
(***************************************************************************)
(* What each operation requires of the row it loaded.                      *)
(***************************************************************************)
CanPropose(row, role) == row.status \notin ClosedStatus /\ HasTurn(row, role)

\* response is that of the row's current proposal.  There is no status check.
CanAccept(row, role, response) == HasTurn(row, role) /\ response = "PENDING"

CanReject(row, role) == HasTurn(row, role)

CanReschedule(row, role) == row.status = "CONFIRMED" /\ role # NULL

CanCancel(row, role) == row.status \notin ClosedStatus /\ role # NULL

CanComplete(row, role) ==
    /\ row.status \in {"CONFIRMED", "APPOINTMENT_SCHEDULED"}
    /\ role \in StaffRole

-----------------------------------------------------------------------------
(***************************************************************************)
(* What each operation writes to the row.                                  *)
(***************************************************************************)
NewVisit(tenant, p, counterparty) ==
    [tenant_id |-> tenant, status |-> "NEGOTIATING", visit_result |-> "PENDING",
     pending_with |-> counterparty, current_proposal_id |-> p,
     manager_id |-> NULL, scheduled |-> NULL]

NewProposal(v, u, role, slot) ==
    [visit_request_id |-> v, proposed_by |-> u, proposed_by_role |-> role,
     slot |-> slot, response |-> "PENDING", responded_by |-> NULL]

Answered(prow, answer, u) ==
    [prow EXCEPT !.response = answer, !.responded_by = u]

Rescheduled(row, role, p, counterparty) ==
    [row EXCEPT !.current_proposal_id = p,
                !.status = "NEGOTIATING",
                !.pending_with = FlipSide(role, counterparty)]

\* As Rescheduled, and the row remembers which staff member is engaged.
Proposed(row, u, role, p, counterparty) ==
    [row EXCEPT !.current_proposal_id = p,
                !.status = "NEGOTIATING",
                !.pending_with = FlipSide(role, counterparty),
                !.manager_id = IF role \in StaffRole THEN u ELSE @]

Accepted(row, u, role, slot) ==
    [row EXCEPT !.status = "CONFIRMED",
                !.scheduled = slot,
                !.pending_with = NULL,
                !.manager_id = IF role \in StaffRole THEN u ELSE @]

Rejected(row)  == [row EXCEPT !.status = "REJECTED",  !.pending_with = NULL]

\* The open proposal is left PENDING.
Cancelled(row) == [row EXCEPT !.status = "CANCELLED", !.pending_with = NULL]

Completed(row, approve) ==
    [row EXCEPT !.status = "COMPLETED",
                !.visit_result = IF approve THEN "APPROVED" ELSE "REJECTED"]
=============================================================================
