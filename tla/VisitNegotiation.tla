--------------------------- MODULE VisitNegotiation ---------------------------
(***************************************************************************)
(* Visit requests on one property: the propose / counter-propose / accept  *)
(* / reject / reschedule / cancel / complete negotiation between a tenant  *)
(* and the property's managers (or the super-admins while it has none),    *)
(* app/services/visit_request_service.py behind                            *)
(* app/api/v1/visit_requests.py.                                           *)
(*                                                                         *)
(* An action is a whole committed request: the visit row, its proposals,   *)
(* the onboarding workflow row, the agreement an approval generates, and   *)
(* the notifications inserted.  A request that raises is rolled back by    *)
(* get_db and changes nothing, so it is no action.                         *)
(***************************************************************************)
EXTENDS VisitRules, OnboardingRules, LeaseRules

CONSTANTS Tenants, Managers, SuperAdmins,  \* users holding that role; they may overlap
          Owner,                           \* the property's owner
          Assignable,                      \* users that get assigned as its managers
          Slots,                           \* date and time slots that pass _validate_slot
          Visits, Proposals, Agreements,   \* identifiers: a bound on how many are made
          Payments                         \* identifiers; none is made here

Users == Tenants \cup Managers \cup SuperAdmins \cup {Owner}

VARIABLES
    visit,       \* visit_requests: id -> row, NULL when not inserted
    proposal,    \* visit_request_proposals: id -> row, NULL when not inserted
    workflow,    \* property_onboarding_workflows: tenant -> row or NULL
    agreement,   \* agreements: id -> row, NULL when not inserted
    managers,    \* property_managers: the users assigned to the property
    activeRole,  \* users.active_role
    notified     \* recipients of the notifications the last request inserted

vars == <<visit, proposal, workflow, agreement, managers, activeRole, notified>>

-----------------------------------------------------------------------------
(***************************************************************************)
(* Rows and types.                                                         *)
(***************************************************************************)
VisitRow ==
    [tenant_id: Users, status: VisitStatus, visit_result: VisitResult,
     pending_with: ProposalRole \cup {NULL},
     current_proposal_id: Proposals \cup {NULL},
     manager_id: Users \cup {NULL}, scheduled: Slots \cup {NULL}]

ProposalRow ==
    [visit_request_id: Visits, proposed_by: Users, proposed_by_role: ProposalRole,
     slot: Slots, response: Response, responded_by: Users \cup {NULL}]

WorkflowRow == WorkflowRows(Visits, Agreements)

AgreementRow == AgreementRows(Users, Payments)

\* Nobody checks that a user assigned as manager holds the role.
ASSUME AssignableUsers == Assignable \subseteq Users

\* NULL is no identifier, user, slot, role, status or row, nor an offer (OfferOf).
ASSUME NullIsNoValue ==
    /\ NULL \notin Users \cup Slots \cup Visits \cup Proposals
    /\ NULL \notin Agreements \cup Payments
    /\ NULL \notin UserRole
    /\ NULL \notin VisitStatus
    /\ NULL \notin VisitRow
    /\ NULL \notin ProposalRow
    /\ NULL \notin WorkflowRow
    /\ NULL \notin AgreementRow
    /\ NULL \notin [slot: Slots, by: {"TENANT", "STAFF"}]

TypeOK ==
    /\ visit \in [Visits -> VisitRow \cup {NULL}]
    /\ proposal \in [Proposals -> ProposalRow \cup {NULL}]
    /\ workflow \in [Users -> WorkflowRow \cup {NULL}]
    /\ agreement \in [Agreements -> AgreementRow \cup {NULL}]
    /\ managers \subseteq Users
    /\ activeRole \in [Users -> UserRole]
    /\ notified \subseteq Users

\* user_roles: the roles switch_role lets the user take.
HeldRoles(u) ==
       {r \in {"TENANT"} : u \in Tenants} \cup {r \in {"MANAGER"} : u \in Managers}
  \cup {r \in {"SUPER_ADMIN"} : u \in SuperAdmins} \cup {r \in {"OWNER"} : u = Owner}

-----------------------------------------------------------------------------
(***************************************************************************)
(* Who is on the other side and who is told (app/services/property_scope   *)
(* and notification_service).                                              *)
(***************************************************************************)
ActiveSuperAdmins == {u \in Users : activeRole[u] = "SUPER_ADMIN"}

\* _resolve_counterparty
Counterparty == IF managers # {} THEN "MANAGER" ELSE "SUPER_ADMIN"

\* _notify_counterparty
CounterpartyRecipients(counterparty, actor) ==
    (IF counterparty = "MANAGER" THEN managers ELSE ActiveSuperAdmins) \ {actor}

\* get_property_stakeholders, minus the actor (notify_property_stakeholders)
Stakeholders(actor) ==
    ({Owner} \cup (IF managers # {} THEN managers ELSE ActiveSuperAdmins)) \ {actor}

\* Mutation: the tenant is told only once the visit is settled.
RecipientsOnSettledOnly(row, actor) ==
    {u \in Stakeholders(actor) \cup ({row.tenant_id} \ {actor}) :
        row.status \in FanOutStatus}

\* _notify_after_state_change: the side whose turn it is; once the visit is
\* settled also every stakeholder and the tenant.
Recipients(row, actor) ==
    LET turn == IF row.pending_with = "TENANT" THEN {row.tenant_id} \ {actor}
                ELSE IF row.pending_with \in StaffRole
                     THEN CounterpartyRecipients(row.pending_with, actor) ELSE {}
        settled == IF row.status \in FanOutStatus
                   THEN Stakeholders(actor) \cup ({row.tenant_id} \ {actor}) ELSE {}
    IN  turn \cup settled

-----------------------------------------------------------------------------
(***************************************************************************)
(* Reading and answering proposals, finding the tenant's rows.             *)
(***************************************************************************)
RoleIn(v, u) == ActorRole(visit[v], u, activeRole[u])

Current(v) == visit[v].current_proposal_id

\* Mutation: the superseded proposal is forgotten about.
LeavePending(p, answer, u) == proposal

\* The proposal table once u has answered p, if p is still PENDING.
Answer(p, answer, u) ==
    [q \in Proposals |->
        IF q = p /\ proposal[q] # NULL /\ proposal[q].response = "PENDING"
        THEN Answered(proposal[q], answer, u) ELSE proposal[q]]

\* The rows create_visit_request's duplicate check selects.
ActiveVisitsOf(t) ==
    {v \in Visits : visit[v] # NULL /\ visit[v].tenant_id = t
                    /\ visit[v].status \in ActiveStatus}

\* The rows auto_generate_agreement's duplicate check selects.
BlockingAgreementsOf(t) ==
    {g \in Agreements : agreement[g] # NULL /\ agreement[g].tenant_id = t
                        /\ Blocks(agreement[g])}

-----------------------------------------------------------------------------
Init ==
    /\ visit = [v \in Visits |-> NULL]
    /\ proposal = [p \in Proposals |-> NULL]
    /\ workflow = [u \in Users |-> NULL]
    /\ agreement = [g \in Agreements |-> NULL]
    /\ managers \in SUBSET Assignable
    /\ activeRole \in [Users -> UserRole]
    /\ \A u \in Users : activeRole[u] \in HeldRoles(u)
    /\ notified = {}

\* create_visit_request: more than one active row fails the check as well
\* (scalar_one_or_none raises).
Create(t, v, p, s) ==
    /\ activeRole[t] = "TENANT"
    /\ ActiveVisitsOf(t) = {}
    /\ visit[v] = NULL
    /\ proposal[p] = NULL
    /\ visit' = [visit EXCEPT ![v] = NewVisit(t, p, Counterparty)]
    /\ proposal' = [proposal EXCEPT ![p] = NewProposal(v, t, "TENANT", s)]
    /\ workflow' = [workflow EXCEPT ![t] = MarkVisitBooked(GetOrCreate(@), v)]
    /\ notified' = CounterpartyRecipients(Counterparty, t)
    /\ UNCHANGED <<agreement, managers, activeRole>>

Propose(u, v, p, s) ==
    /\ visit[v] # NULL
    /\ CanPropose(visit[v], RoleIn(v, u))
    /\ proposal[p] = NULL
    /\ visit' = [visit EXCEPT ![v] = Proposed(@, u, RoleIn(v, u), p, Counterparty)]
    /\ proposal' = [Answer(Current(v), "SUPERSEDED", u)
                        EXCEPT ![p] = NewProposal(v, u, RoleIn(v, u), s)]
    /\ notified' = Recipients(visit'[v], u)
    /\ UNCHANGED <<workflow, agreement, managers, activeRole>>

Accept(u, v) ==
    /\ visit[v] # NULL
    /\ Current(v) # NULL
    /\ CanAccept(visit[v], RoleIn(v, u), proposal[Current(v)].response)
    /\ visit' = [visit EXCEPT ![v] =
                    Accepted(@, u, RoleIn(v, u), proposal[Current(v)].slot)]
    /\ proposal' = Answer(Current(v), "ACCEPTED", u)
    /\ workflow' = [workflow EXCEPT ![visit[v].tenant_id] =
                        MarkVisitScheduled(GetOrCreate(@), v)]
    /\ notified' = Recipients(visit'[v], u)
    /\ UNCHANGED <<agreement, managers, activeRole>>

Reject(u, v) ==
    /\ visit[v] # NULL
    /\ CanReject(visit[v], RoleIn(v, u))
    /\ visit' = [visit EXCEPT ![v] = Rejected(@)]
    /\ proposal' = Answer(Current(v), "REJECTED", u)
    /\ notified' = Recipients(visit'[v], u)
    /\ UNCHANGED <<workflow, agreement, managers, activeRole>>

Reschedule(u, v, p, s) ==
    /\ visit[v] # NULL
    /\ CanReschedule(visit[v], RoleIn(v, u))
    /\ proposal[p] = NULL
    /\ visit' = [visit EXCEPT ![v] = Rescheduled(@, RoleIn(v, u), p, Counterparty)]
    /\ proposal' = [proposal EXCEPT ![p] = NewProposal(v, u, RoleIn(v, u), s)]
    /\ notified' = Recipients(visit'[v], u)
    /\ UNCHANGED <<workflow, agreement, managers, activeRole>>

Cancel(u, v) ==
    /\ visit[v] # NULL
    /\ CanCancel(visit[v], RoleIn(v, u))
    /\ visit' = [visit EXCEPT ![v] = Cancelled(@)]
    /\ notified' = Recipients(visit'[v], u)
    /\ UNCHANGED <<proposal, workflow, agreement, managers, activeRole>>

\* complete(approve = False): a rejection reason was given.
CompleteRejecting(u, v) ==
    /\ visit[v] # NULL
    /\ CanComplete(visit[v], RoleIn(v, u))
    /\ visit' = [visit EXCEPT ![v] = Completed(@, FALSE)]
    /\ workflow' = [workflow EXCEPT ![visit[v].tenant_id] =
                        MarkVisitResult(GetOrCreate(@), v, FALSE)]
    /\ notified' = {visit[v].tenant_id}
    /\ UNCHANGED <<proposal, agreement, managers, activeRole>>

\* complete(approve = True) with auto_generate_agreement succeeding.
CompleteApproving(u, v, g) ==
    LET t == visit[v].tenant_id IN
    /\ visit[v] # NULL
    /\ CanComplete(visit[v], RoleIn(v, u))
    /\ BlockingAgreementsOf(t) = {}
    /\ agreement[g] = NULL
    /\ visit' = [visit EXCEPT ![v] = Completed(@, TRUE)]
    /\ agreement' = [agreement EXCEPT ![g] = NewAgreement(t)]
    /\ workflow' = [workflow EXCEPT ![t] =
                        MarkAgreementGenerated(MarkVisitResult(
                            MarkAgreementGenerated(GetOrCreate(@), g), v, TRUE), g)]
    /\ notified' = {t} \cup Stakeholders(u)
    /\ UNCHANGED <<proposal, managers, activeRole>>

\* Mutation: the second approval marks the tracker as the first one does.
CompleteApprovingAgainMarked(u, v) ==
    /\ visit[v] # NULL
    /\ CanComplete(visit[v], RoleIn(v, u))
    /\ \E g \in Agreements : BlockingAgreementsOf(visit[v].tenant_id) = {g}
    /\ visit' = [visit EXCEPT ![v] = Completed(@, TRUE)]
    /\ workflow' = [workflow EXCEPT ![visit[v].tenant_id] =
                        MarkVisitResult(GetOrCreate(@), v, TRUE)]
    /\ notified' = {visit[v].tenant_id}
    /\ UNCHANGED <<proposal, agreement, managers, activeRole>>

\* complete(approve = True) when the tenant already has a blocking agreement:
\* the ValueError is caught, the visit is approved and the tracker is not
\* marked.  With two blocking agreements the check itself fails the request.
CompleteApprovingAgain(u, v) ==
    /\ visit[v] # NULL
    /\ CanComplete(visit[v], RoleIn(v, u))
    /\ \E g \in Agreements : BlockingAgreementsOf(visit[v].tenant_id) = {g}
    /\ visit' = [visit EXCEPT ![v] = Completed(@, TRUE)]
    /\ notified' = {visit[v].tenant_id}
    /\ UNCHANGED <<proposal, workflow, agreement, managers, activeRole>>

-----------------------------------------------------------------------------
(***************************************************************************)
(* The rest of the service changes who the counterparty is: managers are   *)
(* assigned and removed (property_service.py), users switch their active   *)
(* role (user_service.py).                                                 *)
(***************************************************************************)
HasAuthority(u) ==
    \/ activeRole[u] = "SUPER_ADMIN"
    \/ activeRole[u] = "MANAGER" /\ u \in managers

AssignManagers(u, ms) ==
    /\ HasAuthority(u)
    /\ ~ ms \subseteq managers
    /\ managers' = managers \cup ms
    /\ notified' = {}
    /\ UNCHANGED <<visit, proposal, workflow, agreement, activeRole>>

RemoveManager(u, m) ==
    /\ HasAuthority(u)
    /\ m \in managers
    /\ managers' = managers \ {m}
    /\ notified' = {}
    /\ UNCHANGED <<visit, proposal, workflow, agreement, activeRole>>

\* Updating the property replaces all of its managers.
ReplaceManagers(u, ms) ==
    /\ u = Owner \/ HasAuthority(u)
    /\ managers' = ms
    /\ notified' = {}
    /\ UNCHANGED <<visit, proposal, workflow, agreement, activeRole>>

SwitchRole(u, r) ==
    /\ r \in HeldRoles(u) \ {activeRole[u]}
    /\ activeRole' = [activeRole EXCEPT ![u] = r]
    /\ notified' = {}
    /\ UNCHANGED <<visit, proposal, workflow, agreement, managers>>

NegotiationStep ==
    \/ \E t \in Users, v \in Visits, p \in Proposals, s \in Slots : Create(t, v, p, s)
    \/ \E u \in Users, v \in Visits, p \in Proposals, s \in Slots :
            Propose(u, v, p, s) \/ Reschedule(u, v, p, s)
    \/ \E u \in Users, v \in Visits :
            \/ Accept(u, v) \/ Reject(u, v) \/ Cancel(u, v)
            \/ CompleteRejecting(u, v) \/ CompleteApprovingAgain(u, v)
    \/ \E u \in Users, v \in Visits, g \in Agreements : CompleteApproving(u, v, g)

StaffingStep ==
    \/ \E u \in Users, ms \in SUBSET Assignable :
            AssignManagers(u, ms) \/ ReplaceManagers(u, ms)
    \/ \E u \in Users, m \in Assignable : RemoveManager(u, m)
    \/ \E u \in Users, r \in UserRole : SwitchRole(u, r)

Next == NegotiationStep \/ StaffingStep

Spec == Init /\ [][Next]_vars

-----------------------------------------------------------------------------
(***************************************************************************)
(* Safety.                                                                 *)
(***************************************************************************)
Made(v) == visit[v] # NULL

\* A manager and a super-admin sit on the same side of the table.
SideOf(role) == IF role \in StaffRole THEN "STAFF" ELSE role

\* A turn is pending exactly while the visit is being negotiated, the proposal
\* on the table is then unanswered, and the turn is with the side that did not
\* make it (visit_request_service: propose, reschedule, accept, _flip_side).
TurnIsOtherSides ==
    \A v \in Visits : Made(v) =>
        /\ visit[v].pending_with # NULL <=> visit[v].status = "NEGOTIATING"
        /\ visit[v].status = "NEGOTIATING" =>
             /\ proposal[Current(v)].response = "PENDING"
             /\ SideOf(proposal[Current(v)].proposed_by_role)
                    # SideOf(visit[v].pending_with)

\* A visit's current proposal is one of its own, and no other proposal of the
\* visit is still open: everything proposed earlier has been answered or
\* superseded (propose, "Supersede the current open proposal").
OnlyCurrentIsOpen ==
    /\ \A v \in Visits : Made(v) =>
         /\ Current(v) # NULL
         /\ proposal[Current(v)] # NULL
         /\ proposal[Current(v)].visit_request_id = v
    /\ \A p \in Proposals : proposal[p] # NULL =>
         /\ Made(proposal[p].visit_request_id)
         /\ proposal[p].response = "PENDING" =>
                Current(proposal[p].visit_request_id) = p

\* What the status tells of the past, although accept and reject never look at
\* it: a result is recorded only on a visit that was completed and at most
\* rejected since, a rejected visit has nothing left to accept, and the
\* statuses kept for older rows are never entered.
StatusReflectsHistory ==
    \A v \in Visits : Made(v) =>
        /\ visit[v].status \notin {"PENDING", "APPOINTMENT_SCHEDULED"}
        /\ visit[v].visit_result # "PENDING" =>
               visit[v].status \in {"COMPLETED", "REJECTED"}
        /\ visit[v].status = "REJECTED" => proposal[Current(v)].response # "PENDING"

\* A confirmed or completed visit takes place at the slot of an accepted
\* proposal, the current one: no reschedule leaves an older appointment behind
\* (accept writes scheduled_* from the proposal it accepts).
AppointmentIsAccepted ==
    \A v \in Visits :
        Made(v) /\ visit[v].status \in {"CONFIRMED", "COMPLETED"} =>
            /\ proposal[Current(v)].response = "ACCEPTED"
            /\ visit[v].scheduled = proposal[Current(v)].slot

\* An approved tenant has an agreement for the property, whichever branch of
\* complete approved the visit, and the tracker points at it.
ApprovedHasAgreement ==
    \A v \in Visits :
        Made(v) /\ visit[v].visit_result = "APPROVED" =>
            LET w == workflow[visit[v].tenant_id] IN
            /\ w # NULL
            /\ w.agreement_id # NULL
            /\ agreement[w.agreement_id] # NULL
            /\ agreement[w.agreement_id].tenant_id = visit[v].tenant_id

\* The tracker exists for every tenant with a visit and points at a visit of
\* that tenant (create_visit_request bootstraps it, "so the tracker shows step
\* 1"), and VISIT_SCHEDULED is only shown for a visit that was once accepted.
TrackerFollowsVisit ==
    \A v \in Visits : Made(v) =>
        LET w == workflow[visit[v].tenant_id] IN
        /\ w # NULL
        /\ w.visit_request_id # NULL
        /\ Made(w.visit_request_id)
        /\ visit[w.visit_request_id].tenant_id = visit[v].tenant_id
        /\ w.state = "VISIT_SCHEDULED" => visit[w.visit_request_id].scheduled # NULL

\* The tenant of a visit never counts as staff, whatever role is active: every
\* proposal a tenant makes on an own visit is recorded as the tenant's, no other
\* is, and no tenant is the staff member who conducts the visit
\* (_resolve_actor_role).
TenantNeverActsAsStaff ==
    \A p \in Proposals : proposal[p] # NULL =>
        LET row == visit[proposal[p].visit_request_id] IN
        /\ proposal[p].proposed_by = row.tenant_id <=>
               proposal[p].proposed_by_role = "TENANT"
        /\ row.manager_id # row.tenant_id

-----------------------------------------------------------------------------
(***************************************************************************)
(* What no step may do.                                                    *)
(***************************************************************************)

\* Unless the visit had been cancelled, it is confirmed by the side that did
\* not make the proposal ("Both sides are now agreed").
ConfirmedByOtherSide ==
    [][\A v \in Visits :
        /\ Made(v)
        /\ visit[v].status \notin {"CONFIRMED", "CANCELLED"}
        /\ visit'[v].status = "CONFIRMED"
        => LET p == proposal'[visit'[v].current_proposal_id] IN
           (p.proposed_by = visit[v].tenant_id) # (p.responded_by = visit[v].tenant_id)
      ]_vars

\* A rejected visit stays rejected; a completed visit can at most be rejected;
\* neither is ever negotiated or confirmed again, although accept, reject and
\* the turn check do not look at the status.
SettledStaysSettled ==
    [][\A v \in Visits : Made(v) =>
        /\ visit[v].status = "REJECTED" => visit'[v].status = "REJECTED"
        /\ visit[v].status = "COMPLETED" => visit'[v].status \in {"COMPLETED", "REJECTED"}
        /\ visit[v].status \in ClosedStatus => visit'[v].status # "NEGOTIATING"
        /\ visit[v].visit_result # "PENDING" =>
               visit'[v].visit_result = visit[v].visit_result
      ]_vars

\* The users a turn is with; the tenant never answers for the staff side.
TurnHolders(row) ==
    CASE row.pending_with = "TENANT"      -> {row.tenant_id}
      [] row.pending_with = "MANAGER"     -> managers \ {row.tenant_id}
      [] row.pending_with = "SUPER_ADMIN" -> ActiveSuperAdmins \ {row.tenant_id}
      [] OTHER                            -> {}

\* Whenever a request hands the turn to somebody, somebody it is now with is
\* notified: nobody is left waiting because the other side was never told,
\* although recipients are resolved anew each time and exclude the actor
\* (_notify_after_state_change, _notify_counterparty).
TurnHandedOverIsAnnounced ==
    [][\A v \in Visits :
        /\ visit'[v] # NULL
        /\ visit'[v] # visit[v]
        /\ TurnHolders(visit'[v]) # {}
        => notified' \cap TurnHolders(visit'[v]) # {}
      ]_vars

\* Confirming a visit never moves the tracker back ("we never regress past
\* VISIT_APPROVED / AGREEMENT_GENERATED", mark_visit_scheduled).
ConfirmNeverRegressesTracker ==
    [][\A v \in Visits :
        Made(v) /\ visit[v].status # "CONFIRMED" /\ visit'[v].status = "CONFIRMED" =>
            LET t == visit[v].tenant_id IN
            workflow[t].state \notin EarlyState =>
                workflow'[t].state = workflow[t].state
      ]_vars

-----------------------------------------------------------------------------
(***************************************************************************)
(* What the rows stand for.                                                *)
(***************************************************************************)
PhaseOf(v) == IF Made(v) THEN visit[v].status ELSE NULL

\* The slot on the table, whoever has put it there.
OfferOf(v) ==
    IF Made(v) /\ proposal[Current(v)].response = "PENDING"
    THEN [slot |-> proposal[Current(v)].slot,
          by   |-> SideOf(proposal[Current(v)].proposed_by_role)]
    ELSE NULL

\* The appointment and the two sides it rests on.
MeetingOf(v) ==
    IF Made(v) /\ visit[v].status \in {"CONFIRMED", "COMPLETED"}
    THEN [slot    |-> visit[v].scheduled,
          offered |-> SideOf(proposal[Current(v)].proposed_by_role),
          agreed  |-> IF proposal[Current(v)].responded_by = visit[v].tenant_id
                      THEN "TENANT" ELSE "STAFF"]
    ELSE NULL

Promise == INSTANCE Appointment
            WITH phase   <- [v \in Visits |-> PhaseOf(v)],
                 offer   <- [v \in Visits |-> OfferOf(v)],
                 meeting <- [v \in Visits |-> MeetingOf(v)]

\* However rows, turns, roles and managers change, what the two sides see is an
\* Appointment: each request concerns one visit, offers alternate, a meeting is
\* the slot one side offered and the other one agreed to, and nothing but a new
\* offer, a cancellation or a rejection undoes it.
AppointmentImplemented == Promise!Spec

-----------------------------------------------------------------------------
(***************************************************************************)
(* What comments of the repository claim and the code does not keep.       *)
(***************************************************************************)

\* "Block duplicate active requests for the same tenant+property."
\* (create_visit_request): a tenant has at most one active visit.
NoDuplicateActiveRequest ==
    \A v1, v2 \in Visits :
        /\ Made(v1) /\ Made(v2)
        /\ visit[v1].tenant_id = visit[v2].tenant_id
        /\ visit[v1].status \in ActiveStatus
        /\ visit[v2].status \in ActiveStatus
        => v1 = v2

\* "Accept the current open proposal. Both sides are now agreed." (accept): a
\* confirmed visit rests on a proposal the other side accepted.
BothSidesAgreed ==
    \A v \in Visits : Made(v) /\ visit[v].status = "CONFIRMED" =>
        LET p == proposal[Current(v)] IN
        (p.proposed_by = visit[v].tenant_id) # (p.responded_by = visit[v].tenant_id)
=============================================================================
