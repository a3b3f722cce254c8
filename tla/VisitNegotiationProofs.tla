------------------------ MODULE VisitNegotiationProofs ------------------------
(***************************************************************************)
(* Proofs about VisitNegotiation, for every set of users, slots and        *)
(* identifiers.                                                            *)
(***************************************************************************)
EXTENDS VisitNegotiation, TLAPS

-----------------------------------------------------------------------------
(***************************************************************************)
(* What the row operators return.  These lemmas are all the later proofs   *)
(* know of them.                                                           *)
(***************************************************************************)
LEMMA NewProposalRow ==
    ASSUME NEW v \in Visits, NEW u \in Users, NEW role \in ProposalRole, NEW s \in Slots
    PROVE  LET new == NewProposal(v, u, role, s) IN
           /\ new \in ProposalRow
           /\ new.visit_request_id = v
           /\ new.proposed_by = u
           /\ new.proposed_by_role = role
           /\ new.response = "PENDING"
BY DEF NewProposal, ProposalRow, Response

LEMMA AnsweredRow ==
    ASSUME NEW prow \in ProposalRow, NEW a \in Response, NEW u \in Users
    PROVE  LET new == Answered(prow, a, u) IN
           /\ new \in ProposalRow
           /\ new.response = a
           /\ new.responded_by = u
           /\ new.visit_request_id = prow.visit_request_id
           /\ new.proposed_by = prow.proposed_by
           /\ new.proposed_by_role = prow.proposed_by_role
           /\ new.slot = prow.slot
BY DEF Answered, ProposalRow

LEMMA NewVisitRow ==
    ASSUME NEW t \in Users, NEW p \in Proposals, NEW c \in ProposalRole
    PROVE  LET new == NewVisit(t, p, c) IN
           /\ new \in VisitRow
           /\ new.tenant_id = t
           /\ new.status = "NEGOTIATING"
           /\ new.visit_result = "PENDING"
           /\ new.pending_with = c
           /\ new.current_proposal_id = p
           /\ new.manager_id = NULL
BY DEF NewVisit, VisitRow, VisitStatus, VisitResult

LEMMA FlipSideTyped ==
    ASSUME NEW role \in ProposalRole, NEW c \in StaffRole
    PROVE  /\ FlipSide(role, c) \in ProposalRole
           /\ SideOf(FlipSide(role, c)) # SideOf(role)
BY DEF FlipSide, ProposalRole, StaffRole, SideOf

LEMMA RescheduledRow ==
    ASSUME NEW row \in VisitRow, NEW role \in ProposalRole,
           NEW p \in Proposals, NEW c \in StaffRole
    PROVE  LET new == Rescheduled(row, role, p, c) IN
           /\ new \in VisitRow
           /\ new.tenant_id = row.tenant_id
           /\ new.status = "NEGOTIATING"
           /\ new.visit_result = row.visit_result
           /\ new.pending_with = FlipSide(role, c)
           /\ new.current_proposal_id = p
           /\ new.manager_id = row.manager_id
           /\ new.scheduled = row.scheduled
BY FlipSideTyped DEF Rescheduled, VisitRow, VisitStatus

LEMMA ProposedRow ==
    ASSUME NEW row \in VisitRow, NEW u \in Users, NEW role \in ProposalRole,
           NEW p \in Proposals, NEW c \in StaffRole
    PROVE  LET new == Proposed(row, u, role, p, c) IN
           /\ new \in VisitRow
           /\ new.tenant_id = row.tenant_id
           /\ new.status = "NEGOTIATING"
           /\ new.visit_result = row.visit_result
           /\ new.pending_with = FlipSide(role, c)
           /\ new.current_proposal_id = p
           /\ new.manager_id = IF role \in StaffRole THEN u ELSE row.manager_id
           /\ new.scheduled = row.scheduled
BY FlipSideTyped DEF Proposed, VisitRow, VisitStatus

LEMMA AcceptedRow ==
    ASSUME NEW row \in VisitRow, NEW u \in Users, NEW role \in ProposalRole,
           NEW s \in Slots
    PROVE  LET new == Accepted(row, u, role, s) IN
           /\ new \in VisitRow
           /\ new.tenant_id = row.tenant_id
           /\ new.status = "CONFIRMED"
           /\ new.visit_result = row.visit_result
           /\ new.pending_with = NULL
           /\ new.current_proposal_id = row.current_proposal_id
           /\ new.manager_id = IF role \in StaffRole THEN u ELSE row.manager_id
           /\ new.scheduled = s
BY DEF Accepted, VisitRow, VisitStatus

LEMMA RejectedRow ==
    ASSUME NEW row \in VisitRow
    PROVE  LET new == Rejected(row) IN
           /\ new \in VisitRow
           /\ new.tenant_id = row.tenant_id
           /\ new.status = "REJECTED"
           /\ new.visit_result = row.visit_result
           /\ new.pending_with = NULL
           /\ new.current_proposal_id = row.current_proposal_id
           /\ new.manager_id = row.manager_id
           /\ new.scheduled = row.scheduled
BY DEF Rejected, VisitRow, VisitStatus

LEMMA CancelledRow ==
    ASSUME NEW row \in VisitRow
    PROVE  LET new == Cancelled(row) IN
           /\ new \in VisitRow
           /\ new.tenant_id = row.tenant_id
           /\ new.status = "CANCELLED"
           /\ new.visit_result = row.visit_result
           /\ new.pending_with = NULL
           /\ new.current_proposal_id = row.current_proposal_id
           /\ new.manager_id = row.manager_id
           /\ new.scheduled = row.scheduled
BY DEF Cancelled, VisitRow, VisitStatus

LEMMA CompletedRow ==
    ASSUME NEW row \in VisitRow, NEW approve \in BOOLEAN
    PROVE  LET new == Completed(row, approve) IN
           /\ new \in VisitRow
           /\ new.tenant_id = row.tenant_id
           /\ new.status = "COMPLETED"
           /\ new.visit_result # "PENDING"
           /\ approve \/ new.visit_result = "REJECTED"
           /\ new.pending_with = row.pending_with
           /\ new.current_proposal_id = row.current_proposal_id
           /\ new.manager_id = row.manager_id
           /\ new.scheduled = row.scheduled
BY DEF Completed, VisitRow, VisitStatus, VisitResult

-----------------------------------------------------------------------------
LEMMA GetOrCreateRow ==
    ASSUME NEW w \in WorkflowRow \cup {NULL}
    PROVE  GetOrCreate(w) \in WorkflowRow
BY DEF GetOrCreate, NewWorkflow, WorkflowRow, WorkflowRows, WorkflowState, ChecklistStatus

LEMMA BookedRow ==
    ASSUME NEW w \in WorkflowRow, NEW v \in Visits
    PROVE  LET new == MarkVisitBooked(w, v) IN
           /\ new \in WorkflowRow
           /\ new.visit_request_id = v
           /\ new.agreement_id = w.agreement_id
           /\ new.state = "VISIT_REQUESTED"
BY DEF MarkVisitBooked, WorkflowRow, WorkflowRows, WorkflowState

LEMMA ScheduledRow ==
    ASSUME NEW w \in WorkflowRow, NEW v \in Visits
    PROVE  LET new == MarkVisitScheduled(w, v) IN
           /\ new \in WorkflowRow
           /\ new.visit_request_id = v
           /\ new.agreement_id = w.agreement_id
           /\ w.state \notin EarlyState => new.state = w.state
BY DEF MarkVisitScheduled, WorkflowRow, WorkflowRows, WorkflowState

LEMMA ResultRow ==
    ASSUME NEW w \in WorkflowRow, NEW v \in Visits, NEW ok \in BOOLEAN
    PROVE  LET new == MarkVisitResult(w, v, ok) IN
           /\ new \in WorkflowRow
           /\ new.visit_request_id = v
           /\ new.agreement_id = w.agreement_id
           /\ new.state # "VISIT_SCHEDULED"
BY DEF MarkVisitResult, WorkflowRow, WorkflowRows, WorkflowState

LEMMA GeneratedRow ==
    ASSUME NEW w \in WorkflowRow, NEW g \in Agreements
    PROVE  LET new == MarkAgreementGenerated(w, g) IN
           /\ new \in WorkflowRow
           /\ new.visit_request_id = w.visit_request_id
           /\ new.agreement_id = g
           /\ new.state # "VISIT_SCHEDULED"
BY DEF MarkAgreementGenerated, WorkflowRow, WorkflowRows, WorkflowState

-----------------------------------------------------------------------------
(***************************************************************************)
(* What the state-dependent operators return.                              *)
(***************************************************************************)
LEMMA RoleInTyped ==
    ASSUME TypeOK, NEW v \in Visits, visit[v] # NULL, NEW u \in Users
    PROVE  /\ RoleIn(v, u) \in ProposalRole \cup {NULL}
           /\ u = visit[v].tenant_id <=> RoleIn(v, u) = "TENANT"
BY NullIsNoValue DEF RoleIn, ActorRole, StaffRole, ProposalRole, UserRole

LEMMA CounterpartyTyped == Counterparty \in StaffRole
BY DEF Counterparty, StaffRole

LEMMA StaffAreParties == StaffRole \subseteq ProposalRole
BY DEF StaffRole, ProposalRole

\* Answer changes the response and the respondent of an open p, nothing else.
LEMMA AnswerEffect ==
    ASSUME TypeOK, NEW p \in Proposals, NEW a \in Response, NEW u \in Users
    PROVE  /\ Answer(p, a, u) \in [Proposals -> ProposalRow \cup {NULL}]
           /\ \A q \in Proposals \ {p} : Answer(p, a, u)[q] = proposal[q]
           /\ proposal[p] = NULL => Answer(p, a, u)[p] = NULL
           /\ proposal[p] # NULL =>
                LET new == Answer(p, a, u)[p] IN
                /\ new # NULL
                /\ new.visit_request_id = proposal[p].visit_request_id
                /\ new.proposed_by = proposal[p].proposed_by
                /\ new.proposed_by_role = proposal[p].proposed_by_role
                /\ new.slot = proposal[p].slot
                /\ proposal[p].response = "PENDING" =>
                        new.response = a /\ new.responded_by = u
                /\ proposal[p].response # "PENDING" => new = proposal[p]
<1>1. \A q \in Proposals : proposal[q] \in ProposalRow \cup {NULL}
  BY DEF TypeOK
<1>2. NULL \notin ProposalRow
  BY NullIsNoValue
<1>3. \A q \in Proposals :
        Answer(p, a, u)[q] =
            IF q = p /\ proposal[q] # NULL /\ proposal[q].response = "PENDING"
            THEN Answered(proposal[q], a, u) ELSE proposal[q]
  BY DEF Answer
<1>4. \A q \in Proposals : Answer(p, a, u)[q] \in ProposalRow \cup {NULL}
  BY <1>1, <1>3, AnsweredRow
<1>5. Answer(p, a, u) \in [Proposals -> ProposalRow \cup {NULL}]
  BY <1>4 DEF Answer
<1>6. CASE proposal[p] = NULL
  BY <1>3, <1>5, <1>6
<1>7. CASE proposal[p] # NULL
  <2>1. proposal[p] \in ProposalRow
    BY <1>1, <1>7
  <2> QED BY <1>2, <1>3, <1>5, <1>7, <2>1, AnsweredRow
<1> QED BY <1>6, <1>7

LEMMA RecipientsTyped ==
    ASSUME TypeOK, NEW row \in VisitRow, NEW u \in Users
    PROVE  /\ Recipients(row, u) \subseteq Users
           /\ Stakeholders(u) \subseteq Users
           /\ CounterpartyRecipients(Counterparty, u) \subseteq Users
BY DEF TypeOK, Recipients, Stakeholders, CounterpartyRecipients, ActiveSuperAdmins,
       Users, VisitRow

-----------------------------------------------------------------------------
(***************************************************************************)
(* Types are kept.                                                         *)
(***************************************************************************)
LEMMA TypeInit == Init => TypeOK
<1> SUFFICES ASSUME Init PROVE TypeOK
  OBVIOUS
<1>1. managers \subseteq Users
  BY AssignableUsers DEF Init
<1> QED BY <1>1 DEF Init, TypeOK

LEMMA TypeCreate ==
    ASSUME TypeOK, NEW t \in Users, NEW v \in Visits, NEW p \in Proposals,
           NEW s \in Slots, Create(t, v, p, s)
    PROVE  TypeOK'
<1>1. NewVisit(t, p, Counterparty) \in VisitRow
  BY NewVisitRow, CounterpartyTyped, StaffAreParties
<1>2. NewProposal(v, t, "TENANT", s) \in ProposalRow
  BY NewProposalRow DEF ProposalRole
<1>3. MarkVisitBooked(GetOrCreate(workflow[t]), v) \in WorkflowRow
  BY GetOrCreateRow, BookedRow DEF TypeOK
<1>4. notified' \subseteq Users
  BY <1>1, RecipientsTyped DEF Create
<1> QED BY <1>1, <1>2, <1>3, <1>4 DEF TypeOK, Create

LEMMA TypePropose ==
    ASSUME TypeOK, NEW u \in Users, NEW v \in Visits, NEW p \in Proposals,
           NEW s \in Slots, Propose(u, v, p, s), Current(v) # NULL
    PROVE  TypeOK'
<1>1. /\ visit[v] \in VisitRow
      /\ visit[v] # NULL
      /\ Current(v) \in Proposals
  BY DEF TypeOK, Propose, Current, VisitRow
<1>2. RoleIn(v, u) \in ProposalRole
  BY <1>1, RoleInTyped DEF Propose, CanPropose, HasTurn
<1>3. Proposed(visit[v], u, RoleIn(v, u), p, Counterparty) \in VisitRow
  BY <1>1, <1>2, ProposedRow, CounterpartyTyped
<1>4. NewProposal(v, u, RoleIn(v, u), s) \in ProposalRow
  BY <1>2, NewProposalRow
<1>5. Answer(Current(v), "SUPERSEDED", u) \in [Proposals -> ProposalRow \cup {NULL}]
  BY <1>1, AnswerEffect DEF Response
<1>6. visit'[v] \in VisitRow
  BY <1>3 DEF TypeOK, Propose
<1>7. notified' \subseteq Users
  BY <1>6, RecipientsTyped DEF Propose
<1> QED BY <1>3, <1>4, <1>5, <1>7 DEF TypeOK, Propose

LEMMA TypeReschedule ==
    ASSUME TypeOK, NEW u \in Users, NEW v \in Visits, NEW p \in Proposals,
           NEW s \in Slots, Reschedule(u, v, p, s)
    PROVE  TypeOK'
<1>1. visit[v] \in VisitRow /\ visit[v] # NULL
  BY DEF TypeOK, Reschedule
<1>2. RoleIn(v, u) \in ProposalRole
  BY <1>1, RoleInTyped DEF Reschedule, CanReschedule
<1>3. Rescheduled(visit[v], RoleIn(v, u), p, Counterparty) \in VisitRow
  BY <1>1, <1>2, RescheduledRow, CounterpartyTyped
<1>4. NewProposal(v, u, RoleIn(v, u), s) \in ProposalRow
  BY <1>2, NewProposalRow
<1>5. visit'[v] \in VisitRow
  BY <1>3 DEF TypeOK, Reschedule
<1>6. notified' \subseteq Users
  BY <1>5, RecipientsTyped DEF Reschedule
<1> QED BY <1>3, <1>4, <1>6 DEF TypeOK, Reschedule

LEMMA TypeAccept ==
    ASSUME TypeOK, NEW u \in Users, NEW v \in Visits, Accept(u, v),
           proposal[Current(v)] # NULL
    PROVE  TypeOK'
<1>1. /\ visit[v] \in VisitRow
      /\ visit[v] # NULL
      /\ Current(v) \in Proposals
      /\ visit[v].tenant_id \in Users
  BY DEF TypeOK, Accept, Current, VisitRow
<1>2. RoleIn(v, u) \in ProposalRole
  BY <1>1, RoleInTyped DEF Accept, CanAccept, HasTurn
<1>3. proposal[Current(v)] \in ProposalRow /\ proposal[Current(v)].slot \in Slots
  BY <1>1 DEF TypeOK, ProposalRow
<1>4. Accepted(visit[v], u, RoleIn(v, u), proposal[Current(v)].slot) \in VisitRow
  BY <1>1, <1>2, <1>3, AcceptedRow
<1>5. Answer(Current(v), "ACCEPTED", u) \in [Proposals -> ProposalRow \cup {NULL}]
  BY <1>1, AnswerEffect DEF Response
<1>6. MarkVisitScheduled(GetOrCreate(workflow[visit[v].tenant_id]), v) \in WorkflowRow
  BY <1>1, GetOrCreateRow, ScheduledRow DEF TypeOK
<1>7. visit'[v] \in VisitRow
  BY <1>4 DEF TypeOK, Accept
<1>8. notified' \subseteq Users
  BY <1>7, RecipientsTyped DEF Accept
<1> QED BY <1>4, <1>5, <1>6, <1>8 DEF TypeOK, Accept

LEMMA TypeReject ==
    ASSUME TypeOK, NEW u \in Users, NEW v \in Visits, Reject(u, v), Current(v) # NULL
    PROVE  TypeOK'
<1>1. visit[v] \in VisitRow /\ Current(v) \in Proposals
  BY DEF TypeOK, Reject, Current, VisitRow
<1>2. Rejected(visit[v]) \in VisitRow
  BY <1>1, RejectedRow
<1>3. Answer(Current(v), "REJECTED", u) \in [Proposals -> ProposalRow \cup {NULL}]
  BY <1>1, AnswerEffect DEF Response
<1>4. visit'[v] \in VisitRow
  BY <1>2 DEF TypeOK, Reject
<1>5. notified' \subseteq Users
  BY <1>4, RecipientsTyped DEF Reject
<1> QED BY <1>2, <1>3, <1>5 DEF TypeOK, Reject

LEMMA TypeCancel ==
    ASSUME TypeOK, NEW u \in Users, NEW v \in Visits, Cancel(u, v)
    PROVE  TypeOK'
<1>1. Cancelled(visit[v]) \in VisitRow
  BY CancelledRow DEF TypeOK, Cancel
<1>2. visit'[v] \in VisitRow
  BY <1>1 DEF TypeOK, Cancel
<1>3. notified' \subseteq Users
  BY <1>2, RecipientsTyped DEF Cancel
<1> QED BY <1>1, <1>3 DEF TypeOK, Cancel

LEMMA TypeComplete ==
    ASSUME TypeOK, NEW u \in Users, NEW v \in Visits,
           CompleteRejecting(u, v) \/ CompleteApprovingAgain(u, v)
               \/ \E g \in Agreements : CompleteApproving(u, v, g)
    PROVE  TypeOK'
<1> DEFINE t == visit[v].tenant_id
<1>1. visit[v] \in VisitRow /\ t \in Users
  BY DEF TypeOK, VisitRow, CompleteRejecting, CompleteApprovingAgain, CompleteApproving
<1>2. \A ok \in BOOLEAN : Completed(visit[v], ok) \in VisitRow
  BY <1>1, CompletedRow
<1>3. GetOrCreate(workflow[t]) \in WorkflowRow
  BY <1>1, GetOrCreateRow DEF TypeOK
<1>4. CASE CompleteRejecting(u, v)
  <2>1. MarkVisitResult(GetOrCreate(workflow[t]), v, FALSE) \in WorkflowRow
    BY <1>3, ResultRow
  <2> QED BY <1>1, <1>2, <1>4, <2>1 DEF TypeOK, CompleteRejecting
<1>5. CASE CompleteApprovingAgain(u, v)
  BY <1>1, <1>2, <1>5 DEF TypeOK, CompleteApprovingAgain
<1>6. ASSUME NEW g \in Agreements, CompleteApproving(u, v, g) PROVE TypeOK'
  <2> DEFINE row == MarkAgreementGenerated(MarkVisitResult(
                        MarkAgreementGenerated(GetOrCreate(workflow[t]), g), v, TRUE), g)
  <2>1. row \in WorkflowRow
    BY <1>3, ResultRow, GeneratedRow
  <2>2. NewAgreement(t) \in AgreementRow
    BY <1>1 DEF NewAgreement, AgreementRow, AgreementRows, AgreementStatus
  <2>3. notified' \subseteq Users
    BY <1>1, <1>6, RecipientsTyped DEF CompleteApproving
  <2> QED BY <1>1, <1>2, <1>6, <2>1, <2>2, <2>3 DEF TypeOK, CompleteApproving
<1> QED BY <1>4, <1>5, <1>6

LEMMA TypeStaffing == TypeOK /\ StaffingStep => TypeOK'
BY AssignableUsers
   DEF TypeOK, StaffingStep, AssignManagers, ReplaceManagers, RemoveManager, SwitchRole

-----------------------------------------------------------------------------
(***************************************************************************)
(* The inductive invariant.  Consistent relates a visit to the proposal on *)
(* the table; it is about two rows, so that each operation's effect on it  *)
(* is a lemma without state.                                               *)
(***************************************************************************)
Consistent(row, prow) ==
    /\ row.pending_with # NULL <=> row.status = "NEGOTIATING"
    /\ row.status = "NEGOTIATING" =>
         /\ prow.response = "PENDING"
         /\ SideOf(prow.proposed_by_role) # SideOf(row.pending_with)
    /\ row.status \notin {"PENDING", "APPOINTMENT_SCHEDULED"}
    /\ row.visit_result # "PENDING" => row.status \in {"COMPLETED", "REJECTED"}
    /\ row.status = "REJECTED" => prow.response # "PENDING"
    /\ row.status \in {"CONFIRMED", "COMPLETED"} =>
         /\ prow.response = "ACCEPTED"
         /\ row.scheduled = prow.slot

AllConsistent ==
    \A v \in Visits : Made(v) => Consistent(visit[v], proposal[Current(v)])

IInv == TypeOK /\ OnlyCurrentIsOpen /\ AllConsistent

LEMMA ConsistentMeans ==
    AllConsistent <=> TurnIsOtherSides /\ StatusReflectsHistory /\ AppointmentIsAccepted
BY DEF AllConsistent, Consistent, TurnIsOtherSides, StatusReflectsHistory,
       AppointmentIsAccepted

\* A visit just proposed for, on behalf of role, is consistent with the proposal.
LEMMA ProposedConsistent ==
    ASSUME NEW row \in VisitRow, NEW prow \in ProposalRow, NEW c \in StaffRole,
           row.status = "NEGOTIATING", row.visit_result = "PENDING",
           prow.response = "PENDING",
           row.pending_with = FlipSide(prow.proposed_by_role, c)
    PROVE  Consistent(row, prow)
<1>1. prow.proposed_by_role \in ProposalRole
  BY DEF ProposalRow
<1>2. row.pending_with \in ProposalRole
  BY <1>1, FlipSideTyped
<1>3. row.pending_with # NULL
  BY <1>2, NullIsNoValue DEF ProposalRole, UserRole
<1>4. SideOf(prow.proposed_by_role) # SideOf(row.pending_with)
  BY <1>1, FlipSideTyped
<1> QED BY <1>3, <1>4 DEF Consistent

\* A step that rewrites visit v, and of the proposals only its own, keeps the
\* invariant if it leaves v consistent with the one proposal still open.
LEMMA OneVisitStep ==
    ASSUME IInv, TypeOK',
           NEW v \in Visits,
           \A w \in Visits \ {v} : visit'[w] = visit[w],
           visit'[v] # NULL,
           NEW p \in Proposals,
           visit'[v].current_proposal_id = p,
           proposal'[p] # NULL,
           proposal'[p].visit_request_id = v,
           Consistent(visit'[v], proposal'[p]),
           \A q \in Proposals : proposal'[q] # proposal[q] =>
                /\ proposal'[q] # NULL
                /\ proposal'[q].visit_request_id = v
                /\ proposal[q] # NULL => proposal[q].visit_request_id = v,
           \A q \in Proposals \ {p} :
                proposal'[q] # NULL /\ proposal'[q].visit_request_id = v
                    => proposal'[q].response # "PENDING"
    PROVE  IInv'
<1>0. p # NULL
  BY NullIsNoValue
<1>1. ASSUME NEW w \in Visits, w # v, Made(w)'
      PROVE  /\ Made(w)
             /\ Current(w)' = Current(w)
             /\ Current(w) \in Proposals
             /\ proposal[Current(w)] # NULL
             /\ proposal[Current(w)].visit_request_id = w
             /\ proposal'[Current(w)] = proposal[Current(w)]
  <2>1. visit'[w] = visit[w]
    BY <1>1
  <2>2. Made(w) /\ Current(w)' = Current(w)
    BY <1>1, <2>1 DEF Made, Current
  <2>3. Current(w) # NULL /\ proposal[Current(w)] # NULL
            /\ proposal[Current(w)].visit_request_id = w
    BY <2>2 DEF IInv, OnlyCurrentIsOpen
  <2>4. Current(w) \in Proposals
    BY <2>2, <2>3 DEF IInv, TypeOK, Made, Current, VisitRow
  <2> QED BY <1>1, <2>2, <2>3, <2>4
<1>2. AllConsistent'
  <2> SUFFICES ASSUME NEW w \in Visits, Made(w)'
               PROVE  Consistent(visit'[w], proposal'[Current(w)'])
    BY DEF AllConsistent
  <2>1. CASE w = v
    BY <2>1 DEF Current
  <2>2. CASE w # v
    BY <1>1, <2>2 DEF IInv, AllConsistent
  <2> QED BY <2>1, <2>2
<1>3. ASSUME NEW w \in Visits, Made(w)'
      PROVE  /\ Current(w)' # NULL
             /\ proposal'[Current(w)'] # NULL
             /\ proposal'[Current(w)'].visit_request_id = w
  <2>1. CASE w = v
    BY <1>0, <2>1 DEF Current
  <2>2. CASE w # v
    BY <1>1, <1>3, <2>2, NullIsNoValue
  <2> QED BY <2>1, <2>2
<1>4. ASSUME NEW q \in Proposals, proposal'[q] # NULL
      PROVE  /\ visit'[proposal'[q].visit_request_id] # NULL
             /\ proposal'[q].response = "PENDING" =>
                  visit'[proposal'[q].visit_request_id].current_proposal_id = q
  <2>1. CASE proposal'[q].visit_request_id = v
    BY <1>4, <2>1 DEF Made, Current
  <2>2. CASE proposal'[q].visit_request_id # v
    <3>1. proposal'[q] = proposal[q]
      BY <2>2
    <3> DEFINE w == proposal[q].visit_request_id
    <3>2. w \in Visits /\ Made(w)
              /\ (proposal[q].response = "PENDING" => Current(w) = q)
      BY <1>4, <3>1 DEF IInv, TypeOK, ProposalRow, OnlyCurrentIsOpen
    <3>3. visit'[w] = visit[w]
      BY <2>2, <3>1, <3>2
    <3> QED BY <3>1, <3>2, <3>3 DEF Made, Current
  <2> QED BY <2>1, <2>2
<1>5. OnlyCurrentIsOpen'
  BY <1>3, <1>4 DEF OnlyCurrentIsOpen, Made, Current
<1> QED BY <1>2, <1>5 DEF IInv

LEMMA InvInit == Init => IInv
<1> SUFFICES ASSUME Init PROVE IInv
  OBVIOUS
<1>1. TypeOK
  BY TypeInit
<1>2. \A v \in Visits : ~ Made(v)
  BY DEF Init, Made
<1>3. \A p \in Proposals : proposal[p] = NULL
  BY DEF Init
<1> QED BY <1>1, <1>2, <1>3 DEF IInv, OnlyCurrentIsOpen, AllConsistent

\* What IInv says of one visit.
LEMMA OfOneVisit ==
    ASSUME IInv, NEW v \in Visits, visit[v] # NULL
    PROVE  /\ visit[v] \in VisitRow
           /\ Current(v) = visit[v].current_proposal_id
           /\ Current(v) \in Proposals
           /\ Current(v) # NULL
           /\ proposal[Current(v)] # NULL
           /\ proposal[Current(v)] \in ProposalRow
           /\ proposal[Current(v)].visit_request_id = v
           /\ Consistent(visit[v], proposal[Current(v)])
           /\ \A q \in Proposals \ {Current(v)} :
                proposal[q] # NULL /\ proposal[q].visit_request_id = v
                    => proposal[q].response # "PENDING"
<1>1. visit[v] \in VisitRow /\ Made(v)
  BY DEF IInv, TypeOK, Made
<1>2. /\ Current(v) # NULL
      /\ proposal[Current(v)] # NULL
      /\ proposal[Current(v)].visit_request_id = v
  BY <1>1 DEF IInv, OnlyCurrentIsOpen
<1>3. Current(v) \in Proposals
  BY <1>1, <1>2 DEF Current, VisitRow
<1>4. proposal[Current(v)] \in ProposalRow
  BY <1>2, <1>3 DEF IInv, TypeOK
<1>5. Consistent(visit[v], proposal[Current(v)])
  BY <1>1 DEF IInv, AllConsistent
<1>6. \A q \in Proposals \ {Current(v)} :
        proposal[q] # NULL /\ proposal[q].visit_request_id = v
            => proposal[q].response # "PENDING"
  BY DEF IInv, OnlyCurrentIsOpen
<1> QED BY <1>1, <1>2, <1>3, <1>4, <1>5, <1>6 DEF Current

-----------------------------------------------------------------------------
(***************************************************************************)
(* One lemma per operation: it is a OneVisitStep.                          *)
(***************************************************************************)
LEMMA InvCreate ==
    ASSUME IInv, NEW t \in Users, NEW v \in Visits, NEW p \in Proposals,
           NEW s \in Slots, Create(t, v, p, s)
    PROVE  IInv'
<1> DEFINE row  == NewVisit(t, p, Counterparty)
           prow == NewProposal(v, t, "TENANT", s)
<1>1. TypeOK /\ TypeOK'
  BY TypeCreate DEF IInv
<1>2. /\ row \in VisitRow
      /\ row.status = "NEGOTIATING"
      /\ row.visit_result = "PENDING"
      /\ row.pending_with = Counterparty
      /\ row.current_proposal_id = p
  BY NewVisitRow, CounterpartyTyped, StaffAreParties
<1>3. /\ prow \in ProposalRow
      /\ prow.visit_request_id = v
      /\ prow.proposed_by_role = "TENANT"
      /\ prow.response = "PENDING"
  BY NewProposalRow DEF ProposalRole
<1>4. Consistent(row, prow)
  BY <1>2, <1>3, ProposedConsistent, CounterpartyTyped DEF FlipSide
<1>5. /\ visit' = [visit EXCEPT ![v] = row]
      /\ proposal' = [proposal EXCEPT ![p] = prow]
      /\ visit[v] = NULL
      /\ proposal[p] = NULL
  BY DEF Create
<1>6. /\ visit'[v] = row
      /\ proposal'[p] = prow
      /\ row # NULL
      /\ prow # NULL
      /\ \A w \in Visits \ {v} : visit'[w] = visit[w]
      /\ \A q \in Proposals \ {p} : proposal'[q] = proposal[q]
  BY <1>1, <1>2, <1>3, <1>5, NullIsNoValue DEF TypeOK
<1>7. \A q \in Proposals : proposal[q] # NULL => proposal[q].visit_request_id # v
  BY <1>5 DEF IInv, OnlyCurrentIsOpen, Made
<1> HIDE DEF row, prow
<1> QED BY <1>1, <1>2, <1>3, <1>4, <1>5, <1>6, <1>7, OneVisitStep

LEMMA InvPropose ==
    ASSUME IInv, NEW u \in Users, NEW v \in Visits, NEW p \in Proposals,
           NEW s \in Slots, Propose(u, v, p, s)
    PROVE  IInv'
<1> DEFINE role == RoleIn(v, u)
           c    == Current(v)
           row  == Proposed(visit[v], u, role, p, Counterparty)
           prow == NewProposal(v, u, role, s)
           old  == Answer(c, "SUPERSEDED", u)
<1>1. /\ visit[v] # NULL
      /\ CanPropose(visit[v], role)
      /\ proposal[p] = NULL
      /\ visit' = [visit EXCEPT ![v] = row]
      /\ proposal' = [old EXCEPT ![p] = prow]
  BY DEF Propose
<1>2. /\ visit[v] \in VisitRow
      /\ c \in Proposals
      /\ c # NULL
      /\ proposal[c] # NULL
      /\ proposal[c].visit_request_id = v
      /\ Consistent(visit[v], proposal[c])
      /\ \A q \in Proposals \ {c} :
            proposal[q] # NULL /\ proposal[q].visit_request_id = v
                => proposal[q].response # "PENDING"
  BY <1>1, OfOneVisit
<1>3. TypeOK /\ TypeOK'
  BY <1>2, TypePropose DEF IInv
<1>4. role \in ProposalRole /\ visit[v].status \notin ClosedStatus
  BY <1>1, <1>3, RoleInTyped DEF CanPropose, HasTurn
<1>5. /\ row \in VisitRow
      /\ row.status = "NEGOTIATING"
      /\ row.visit_result = "PENDING"
      /\ row.pending_with = FlipSide(role, Counterparty)
      /\ row.current_proposal_id = p
  BY <1>2, <1>4, ProposedRow, CounterpartyTyped DEF Consistent, ClosedStatus
<1>6. /\ prow \in ProposalRow
      /\ prow.visit_request_id = v
      /\ prow.proposed_by_role = role
      /\ prow.response = "PENDING"
  BY <1>4, NewProposalRow
<1>7. Consistent(row, prow)
  BY <1>5, <1>6, ProposedConsistent, CounterpartyTyped
<1>8. /\ old \in [Proposals -> ProposalRow \cup {NULL}]
      /\ \A q \in Proposals \ {c} : old[q] = proposal[q]
      /\ old[c] # NULL
      /\ old[c].visit_request_id = v
      /\ old[c].response # "PENDING"
  BY <1>2, <1>3, AnswerEffect DEF Response
<1>9. /\ visit'[v] = row
      /\ proposal'[p] = prow
      /\ row # NULL
      /\ prow # NULL
      /\ \A w \in Visits \ {v} : visit'[w] = visit[w]
      /\ \A q \in Proposals \ {p} : proposal'[q] = old[q]
  BY <1>1, <1>3, <1>5, <1>6, <1>8, NullIsNoValue DEF TypeOK
<1> HIDE DEF role, c, row, prow, old
<1>10. \A q \in Proposals : proposal'[q] # proposal[q] =>
                /\ proposal'[q] # NULL
                /\ proposal'[q].visit_request_id = v
                /\ proposal[q] # NULL => proposal[q].visit_request_id = v
  BY <1>1, <1>2, <1>6, <1>8, <1>9
<1>11. \A q \in Proposals \ {p} :
                proposal'[q] # NULL /\ proposal'[q].visit_request_id = v
                    => proposal'[q].response # "PENDING"
  BY <1>2, <1>8, <1>9
<1> QED BY <1>3, <1>5, <1>6, <1>7, <1>9, <1>10, <1>11, OneVisitStep

LEMMA InvReschedule ==
    ASSUME IInv, NEW u \in Users, NEW v \in Visits, NEW p \in Proposals,
           NEW s \in Slots, Reschedule(u, v, p, s)
    PROVE  IInv'
<1> DEFINE role == RoleIn(v, u)
           c    == Current(v)
           row  == Rescheduled(visit[v], role, p, Counterparty)
           prow == NewProposal(v, u, role, s)
<1>1. /\ visit[v] # NULL
      /\ CanReschedule(visit[v], role)
      /\ proposal[p] = NULL
      /\ visit' = [visit EXCEPT ![v] = row]
      /\ proposal' = [proposal EXCEPT ![p] = prow]
  BY DEF Reschedule
<1>2. /\ visit[v] \in VisitRow
      /\ Consistent(visit[v], proposal[c])
      /\ \A q \in Proposals \ {c} :
            proposal[q] # NULL /\ proposal[q].visit_request_id = v
                => proposal[q].response # "PENDING"
  BY <1>1, OfOneVisit
<1>3. TypeOK /\ TypeOK'
  BY TypeReschedule DEF IInv
<1>4. role \in ProposalRole /\ visit[v].status = "CONFIRMED"
  BY <1>1, <1>3, RoleInTyped DEF CanReschedule
<1>5. /\ row \in VisitRow
      /\ row.status = "NEGOTIATING"
      /\ row.visit_result = "PENDING"
      /\ row.pending_with = FlipSide(role, Counterparty)
      /\ row.current_proposal_id = p
  BY <1>2, <1>4, RescheduledRow, CounterpartyTyped DEF Consistent
<1>6. /\ prow \in ProposalRow
      /\ prow.visit_request_id = v
      /\ prow.proposed_by_role = role
      /\ prow.response = "PENDING"
  BY <1>4, NewProposalRow
<1>7. Consistent(row, prow)
  BY <1>5, <1>6, ProposedConsistent, CounterpartyTyped
<1>8. proposal[c].response # "PENDING"
  BY <1>2, <1>4 DEF Consistent
<1>9. /\ visit'[v] = row
      /\ proposal'[p] = prow
      /\ row # NULL
      /\ prow # NULL
      /\ \A w \in Visits \ {v} : visit'[w] = visit[w]
      /\ \A q \in Proposals \ {p} : proposal'[q] = proposal[q]
  BY <1>1, <1>3, <1>5, <1>6, NullIsNoValue DEF TypeOK
<1> HIDE DEF role, c, row, prow
<1>10. \A q \in Proposals \ {p} :
                proposal'[q] # NULL /\ proposal'[q].visit_request_id = v
                    => proposal'[q].response # "PENDING"
  BY <1>2, <1>8, <1>9
<1> QED BY <1>1, <1>3, <1>5, <1>6, <1>7, <1>9, <1>10, OneVisitStep

\* The operations that answer the current proposal, or leave it, and make no
\* other: new is the visit's row after it.
LEMMA AnswerStep ==
    ASSUME IInv, TypeOK', NEW v \in Visits, NEW a \in Response, NEW u \in Users,
           visit[v] # NULL, NEW new \in VisitRow,
           visit' = [visit EXCEPT ![v] = new],
           new.current_proposal_id = Current(v),
           \/ proposal' = proposal
           \/ a # "PENDING" /\ proposal' = Answer(Current(v), a, u),
           Consistent(new, proposal'[Current(v)])
    PROVE  IInv'
<1> DEFINE c == Current(v)
<1>1. /\ c \in Proposals
      /\ proposal[c] # NULL
      /\ proposal[c].visit_request_id = v
      /\ \A q \in Proposals \ {c} :
            proposal[q] # NULL /\ proposal[q].visit_request_id = v
                => proposal[q].response # "PENDING"
  BY OfOneVisit
<1>2. TypeOK
  BY DEF IInv
<1>3. /\ visit'[v] = new
      /\ new # NULL
      /\ \A w \in Visits \ {v} : visit'[w] = visit[w]
  BY <1>2, NullIsNoValue DEF TypeOK
<1>4. /\ \A q \in Proposals \ {c} : proposal'[q] = proposal[q]
      /\ proposal'[c] # NULL
      /\ proposal'[c].visit_request_id = v
  BY <1>1, <1>2, AnswerEffect
<1> HIDE DEF c
<1>5. \A q \in Proposals \ {c} :
            proposal'[q] # NULL /\ proposal'[q].visit_request_id = v
                => proposal'[q].response # "PENDING"
  BY <1>1, <1>4
<1>6. \A q \in Proposals : proposal'[q] # proposal[q] =>
                /\ proposal'[q] # NULL
                /\ proposal'[q].visit_request_id = v
                /\ proposal[q] # NULL => proposal[q].visit_request_id = v
  BY <1>1, <1>4
<1>7. new.current_proposal_id = c /\ Consistent(new, proposal'[c])
  BY DEF c
<1> QED BY <1>1, <1>3, <1>4, <1>5, <1>6, <1>7, OneVisitStep

LEMMA InvAccept ==
    ASSUME IInv, NEW u \in Users, NEW v \in Visits, Accept(u, v)
    PROVE  IInv'
<1> DEFINE role == RoleIn(v, u)
           c    == Current(v)
           row  == Accepted(visit[v], u, role, proposal[c].slot)
           prow == Answer(c, "ACCEPTED", u)[c]
<1>1. /\ visit[v] # NULL
      /\ CanAccept(visit[v], role, proposal[c].response)
      /\ visit' = [visit EXCEPT ![v] = row]
      /\ proposal' = Answer(c, "ACCEPTED", u)
  BY DEF Accept
<1>2. /\ visit[v] \in VisitRow
      /\ visit[v].current_proposal_id = c
      /\ c \in Proposals
      /\ proposal[c] # NULL
      /\ proposal[c] \in ProposalRow
      /\ Consistent(visit[v], proposal[c])
  BY <1>1, OfOneVisit
<1>3. TypeOK /\ TypeOK'
  BY <1>2, TypeAccept DEF IInv
<1>4. role \in ProposalRole /\ proposal[c].response = "PENDING"
  BY <1>1, <1>3, RoleInTyped DEF CanAccept, HasTurn
<1>5. /\ row \in VisitRow
      /\ row.status = "CONFIRMED"
      /\ row.visit_result = visit[v].visit_result
      /\ row.pending_with = NULL
      /\ row.current_proposal_id = c
      /\ row.scheduled = proposal[c].slot
  BY <1>2, <1>4, AcceptedRow DEF ProposalRow
<1>6. /\ prow.response = "ACCEPTED"
      /\ prow.slot = proposal[c].slot
  BY <1>2, <1>3, <1>4, AnswerEffect DEF Response
<1>7. visit[v].visit_result = "PENDING"
  BY <1>2, <1>4 DEF Consistent
<1>8. Consistent(row, prow)
  BY <1>5, <1>6, <1>7 DEF Consistent
<1>9. "ACCEPTED" \in Response
  BY DEF Response
<1> HIDE DEF role, row
<1> QED BY <1>1, <1>3, <1>5, <1>8, <1>9, AnswerStep

LEMMA InvReject ==
    ASSUME IInv, NEW u \in Users, NEW v \in Visits, Reject(u, v)
    PROVE  IInv'
<1> DEFINE c    == Current(v)
           row  == Rejected(visit[v])
           prow == Answer(c, "REJECTED", u)[c]
<1>1. /\ visit[v] # NULL
      /\ visit' = [visit EXCEPT ![v] = row]
      /\ proposal' = Answer(c, "REJECTED", u)
  BY DEF Reject
<1>2. /\ visit[v] \in VisitRow
      /\ visit[v].current_proposal_id = c
      /\ c \in Proposals
      /\ c # NULL
      /\ proposal[c] # NULL
  BY <1>1, OfOneVisit
<1>3. TypeOK /\ TypeOK'
  BY <1>2, TypeReject DEF IInv
<1>4. /\ row \in VisitRow
      /\ row.status = "REJECTED"
      /\ row.pending_with = NULL
      /\ row.current_proposal_id = c
  BY <1>2, RejectedRow
<1>5. prow.response # "PENDING"
  BY <1>2, <1>3, AnswerEffect DEF Response
<1>6. Consistent(row, prow)
  BY <1>4, <1>5 DEF Consistent
<1>7. "REJECTED" \in Response
  BY DEF Response
<1> HIDE DEF row
<1> QED BY <1>1, <1>3, <1>4, <1>6, <1>7, AnswerStep

LEMMA InvCancel ==
    ASSUME IInv, NEW u \in Users, NEW v \in Visits, Cancel(u, v)
    PROVE  IInv'
<1> DEFINE c   == Current(v)
           row == Cancelled(visit[v])
<1>1. /\ visit[v] # NULL
      /\ visit[v].status \notin ClosedStatus
      /\ visit' = [visit EXCEPT ![v] = row]
      /\ proposal' = proposal
  BY DEF Cancel, CanCancel
<1>2. /\ visit[v] \in VisitRow
      /\ visit[v].current_proposal_id = c
      /\ Consistent(visit[v], proposal[c])
  BY <1>1, OfOneVisit
<1>3. TypeOK'
  BY TypeCancel DEF IInv
<1>4. /\ row \in VisitRow
      /\ row.status = "CANCELLED"
      /\ row.visit_result = "PENDING"
      /\ row.pending_with = NULL
      /\ row.current_proposal_id = c
  BY <1>1, <1>2, CancelledRow DEF Consistent, ClosedStatus
<1>5. Consistent(row, proposal[c])
  BY <1>4 DEF Consistent
<1>6. "PENDING" \in Response
  BY DEF Response
<1> HIDE DEF row
<1> QED BY <1>1, <1>3, <1>4, <1>5, <1>6, AnswerStep

LEMMA InvComplete ==
    ASSUME IInv, NEW u \in Users, NEW v \in Visits,
           CompleteRejecting(u, v) \/ CompleteApprovingAgain(u, v)
               \/ \E g \in Agreements : CompleteApproving(u, v, g)
    PROVE  IInv'
<1> DEFINE c == Current(v)
<1>1. PICK ok \in BOOLEAN :
        /\ visit[v] # NULL
        /\ CanComplete(visit[v], RoleIn(v, u))
        /\ visit' = [visit EXCEPT ![v] = Completed(visit[v], ok)]
        /\ proposal' = proposal
  BY DEF CompleteRejecting, CompleteApprovingAgain, CompleteApproving
<1> DEFINE row == Completed(visit[v], ok)
<1>2. /\ visit[v] \in VisitRow
      /\ visit[v].current_proposal_id = c
      /\ Consistent(visit[v], proposal[c])
  BY <1>1, OfOneVisit
<1>3. TypeOK'
  BY TypeComplete DEF IInv
<1>4. visit[v].status = "CONFIRMED"
  BY <1>1, <1>2 DEF CanComplete, Consistent
<1>5. /\ row \in VisitRow
      /\ row.status = "COMPLETED"
      /\ row.pending_with = visit[v].pending_with
      /\ row.current_proposal_id = c
      /\ row.scheduled = visit[v].scheduled
  BY <1>2, CompletedRow
<1>6. Consistent(row, proposal[c])
  BY <1>2, <1>4, <1>5 DEF Consistent
<1>7. "PENDING" \in Response
  BY DEF Response
<1> HIDE DEF row
<1> QED BY <1>1, <1>3, <1>5, <1>6, <1>7, AnswerStep DEF row

\* Steps that touch neither visits nor proposals.
LEMMA InvFrame ==
    ASSUME IInv, TypeOK', UNCHANGED <<visit, proposal>>
    PROVE  IInv'
BY DEF IInv, OnlyCurrentIsOpen, AllConsistent, Made, Current

LEMMA InvNext == IInv /\ [Next]_vars => IInv'
<1> SUFFICES ASSUME IInv, [Next]_vars PROVE IInv'
  OBVIOUS
<1>1. CASE NegotiationStep
  <2>1. ASSUME NEW t \in Users, NEW v \in Visits, NEW p \in Proposals, NEW s \in Slots,
               Create(t, v, p, s) \/ Propose(t, v, p, s) \/ Reschedule(t, v, p, s)
        PROVE  IInv'
    BY <2>1, InvCreate, InvPropose, InvReschedule
  <2>2. ASSUME NEW u \in Users, NEW v \in Visits,
               Accept(u, v) \/ Reject(u, v) \/ Cancel(u, v)
        PROVE  IInv'
    BY <2>2, InvAccept, InvReject, InvCancel
  <2>3. ASSUME NEW u \in Users, NEW v \in Visits,
               CompleteRejecting(u, v) \/ CompleteApprovingAgain(u, v)
                   \/ \E g \in Agreements : CompleteApproving(u, v, g)
        PROVE  IInv'
    BY <2>3, InvComplete
  <2> QED BY <1>1, <2>1, <2>2, <2>3 DEF NegotiationStep
<1>2. CASE StaffingStep
  <2>1. UNCHANGED <<visit, proposal>>
    BY <1>2 DEF StaffingStep, AssignManagers, ReplaceManagers, RemoveManager, SwitchRole
  <2> QED BY <1>2, <2>1, TypeStaffing, InvFrame DEF IInv
<1>3. CASE UNCHANGED vars
  <2>1. TypeOK'
    BY <1>3 DEF vars, IInv, TypeOK
  <2> QED BY <1>3, <2>1, InvFrame DEF vars
<1> QED BY <1>1, <1>2, <1>3 DEF Next

-----------------------------------------------------------------------------
(***************************************************************************)
(* The theorems.                                                           *)
(***************************************************************************)
LEMMA Invariance == Spec => []IInv
BY InvInit, InvNext, PTL DEF Spec

\* Every row the service ever commits has the columns its model declares.
THEOREM TypeCorrect == Spec => []TypeOK
BY Invariance, PTL DEF IInv

\* A negotiation in progress always has exactly one side to move, and that is
\* not the side that made the proposal on the table.
THEOREM TurnCorrect == Spec => []TurnIsOtherSides
<1>1. IInv => TurnIsOtherSides
  BY ConsistentMeans DEF IInv
<1> QED BY <1>1, Invariance, PTL

\* However many proposals are exchanged, at most the current one is open.
THEOREM OneOpenProposal == Spec => []OnlyCurrentIsOpen
BY Invariance, PTL DEF IInv

\* A confirmed or completed visit is at the slot of an accepted proposal.
THEOREM AppointmentCorrect == Spec => []AppointmentIsAccepted
<1>1. IInv => AppointmentIsAccepted
  BY ConsistentMeans DEF IInv
<1> QED BY <1>1, Invariance, PTL

\* The status tells what happened before, which accept and reject rely on
\* without looking.
THEOREM HistoryCorrect == Spec => []StatusReflectsHistory
<1>1. IInv => StatusReflectsHistory
  BY ConsistentMeans DEF IInv
<1> QED BY <1>1, Invariance, PTL

-----------------------------------------------------------------------------
(***************************************************************************)
(* Settled visits.                                                         *)
(***************************************************************************)
KeepsSettled(old, new) ==
    /\ old.status = "REJECTED" => new.status = "REJECTED"
    /\ old.status = "COMPLETED" => new.status \in {"COMPLETED", "REJECTED"}
    /\ old.status \in ClosedStatus => new.status # "NEGOTIATING"
    /\ old.visit_result # "PENDING" => new.visit_result = old.visit_result

LEMMA KeepsSettledByOperation ==
    ASSUME IInv, NEW u \in Users, NEW v \in Visits, visit[v] # NULL
    PROVE  /\ \A p \in Proposals, s \in Slots :
                Propose(u, v, p, s) \/ Reschedule(u, v, p, s)
                    => KeepsSettled(visit[v], visit'[v])
           /\ Accept(u, v) => KeepsSettled(visit[v], visit'[v])
           /\ Reject(u, v) => KeepsSettled(visit[v], visit'[v])
           /\ Cancel(u, v) => KeepsSettled(visit[v], visit'[v])
           /\ CompleteRejecting(u, v) \/ CompleteApprovingAgain(u, v)
                   \/ (\E g \in Agreements : CompleteApproving(u, v, g))
                => KeepsSettled(visit[v], visit'[v])
<1> USE DEF KeepsSettled, ClosedStatus
<1>1. /\ visit[v] \in VisitRow
      /\ Consistent(visit[v], proposal[Current(v)])
      /\ proposal[Current(v)] \in ProposalRow
      /\ TypeOK
  BY OfOneVisit DEF IInv
<1>2. ASSUME NEW p \in Proposals, NEW s \in Slots, Propose(u, v, p, s)
      PROVE  KeepsSettled(visit[v], visit'[v])
  <2>1. RoleIn(v, u) \in ProposalRole /\ visit[v].status \notin ClosedStatus
    BY <1>1, <1>2, RoleInTyped DEF Propose, CanPropose, HasTurn
  <2>2. visit'[v] = Proposed(visit[v], u, RoleIn(v, u), p, Counterparty)
    BY <1>1, <1>2 DEF Propose, TypeOK
  <2> QED BY <1>1, <2>1, <2>2, ProposedRow, CounterpartyTyped
<1>3. ASSUME NEW p \in Proposals, NEW s \in Slots, Reschedule(u, v, p, s)
      PROVE  KeepsSettled(visit[v], visit'[v])
  <2>1. RoleIn(v, u) \in ProposalRole /\ visit[v].status = "CONFIRMED"
    BY <1>1, <1>3, RoleInTyped DEF Reschedule, CanReschedule
  <2>2. visit'[v] = Rescheduled(visit[v], RoleIn(v, u), p, Counterparty)
    BY <1>1, <1>3 DEF Reschedule, TypeOK
  <2> QED BY <1>1, <2>1, <2>2, RescheduledRow, CounterpartyTyped
<1>4. ASSUME Accept(u, v) PROVE KeepsSettled(visit[v], visit'[v])
  <2>1. RoleIn(v, u) \in ProposalRole /\ proposal[Current(v)].response = "PENDING"
    BY <1>1, <1>4, RoleInTyped DEF Accept, CanAccept, HasTurn
  <2>2. visit[v].status \notin {"REJECTED", "COMPLETED"}
    BY <1>1, <2>1 DEF Consistent
  <2>3. visit'[v] = Accepted(visit[v], u, RoleIn(v, u), proposal[Current(v)].slot)
    BY <1>1, <1>4 DEF Accept, TypeOK
  <2>4. proposal[Current(v)].slot \in Slots
    BY <1>1 DEF ProposalRow
  <2> QED BY <1>1, <2>1, <2>2, <2>3, <2>4, AcceptedRow
<1>5. ASSUME Reject(u, v) PROVE KeepsSettled(visit[v], visit'[v])
  <2>1. visit'[v] = Rejected(visit[v])
    BY <1>1, <1>5 DEF Reject, TypeOK
  <2> QED BY <1>1, <2>1, RejectedRow
<1>6. ASSUME Cancel(u, v) PROVE KeepsSettled(visit[v], visit'[v])
  <2>1. visit'[v] = Cancelled(visit[v]) /\ visit[v].status \notin ClosedStatus
    BY <1>1, <1>6 DEF Cancel, CanCancel, TypeOK
  <2> QED BY <1>1, <2>1, CancelledRow
<1>7. ASSUME CompleteRejecting(u, v) \/ CompleteApprovingAgain(u, v)
                 \/ \E g \in Agreements : CompleteApproving(u, v, g)
      PROVE  KeepsSettled(visit[v], visit'[v])
  <2>1. PICK ok \in BOOLEAN :
            /\ visit'[v] = Completed(visit[v], ok)
            /\ CanComplete(visit[v], RoleIn(v, u))
    BY <1>1, <1>7 DEF CompleteRejecting, CompleteApprovingAgain, CompleteApproving, TypeOK
  <2>2. visit[v].status = "CONFIRMED" /\ visit[v].visit_result = "PENDING"
    BY <1>1, <2>1 DEF CanComplete, Consistent
  <2> QED BY <1>1, <2>1, <2>2, CompletedRow
<1> QED BY <1>2, <1>3, <1>4, <1>5, <1>6, <1>7

\* Every operation rewrites the row of one visit.
LEMMA OtherVisitsKept ==
    ASSUME TypeOK, NEW u \in Users, NEW v \in Visits, NEW w \in Visits, w # v
    PROVE  /\ \A p \in Proposals, s \in Slots :
                Create(u, v, p, s) \/ Propose(u, v, p, s) \/ Reschedule(u, v, p, s)
                    => visit'[w] = visit[w]
           /\ Accept(u, v) \/ Reject(u, v) \/ Cancel(u, v) => visit'[w] = visit[w]
           /\ CompleteRejecting(u, v) \/ CompleteApprovingAgain(u, v)
                   \/ (\E g \in Agreements : CompleteApproving(u, v, g))
                => visit'[w] = visit[w]
<1>1. \A row : [visit EXCEPT ![v] = row][w] = visit[w]
  BY DEF TypeOK
<1> QED BY <1>1 DEF Create, Propose, Reschedule, Accept, Reject, Cancel,
                   CompleteRejecting, CompleteApprovingAgain, CompleteApproving

LEMMA SettledStep ==
    ASSUME IInv, [Next]_vars, NEW w \in Visits, visit[w] # NULL
    PROVE  KeepsSettled(visit[w], visit'[w])
<1>0. TypeOK
  BY DEF IInv
<1>1. CASE visit'[w] = visit[w]
  BY <1>1 DEF KeepsSettled, ClosedStatus
<1>2. CASE visit'[w] # visit[w]
  <2>1. NegotiationStep
    BY <1>2 DEF Next, StaffingStep, AssignManagers, ReplaceManagers, RemoveManager, SwitchRole, vars
  <2>2. ASSUME NEW u \in Users, NEW v \in Visits, NEW p \in Proposals, NEW s \in Slots,
               Create(u, v, p, s) \/ Propose(u, v, p, s) \/ Reschedule(u, v, p, s)
        PROVE  KeepsSettled(visit[w], visit'[w])
    <3>1. w = v
      BY <1>0, <1>2, <2>2, OtherVisitsKept
    <3>2. ~ Create(u, v, p, s)
      BY <3>1 DEF Create
    <3> QED BY <2>2, <3>1, <3>2, KeepsSettledByOperation
  <2>3. ASSUME NEW u \in Users, NEW v \in Visits,
               Accept(u, v) \/ Reject(u, v) \/ Cancel(u, v)
        PROVE  KeepsSettled(visit[w], visit'[w])
    <3>1. w = v
      BY <1>0, <1>2, <2>3, OtherVisitsKept
    <3> QED BY <2>3, <3>1, KeepsSettledByOperation
  <2>4. ASSUME NEW u \in Users, NEW v \in Visits,
               CompleteRejecting(u, v) \/ CompleteApprovingAgain(u, v)
                   \/ \E g \in Agreements : CompleteApproving(u, v, g)
        PROVE  KeepsSettled(visit[w], visit'[w])
    <3>1. w = v
      BY <1>0, <1>2, <2>4, OtherVisitsKept
    <3> QED BY <2>4, <3>1, KeepsSettledByOperation
  <2> QED BY <2>1, <2>2, <2>3, <2>4 DEF NegotiationStep
<1> QED BY <1>1, <1>2

\* No request, in whatever order, reopens a rejected or a completed visit, or
\* changes a result once it is recorded.
THEOREM SettledForGood == Spec => SettledStaysSettled
<1>1. IInv /\ [Next]_vars =>
        [\A v \in Visits : Made(v) =>
            /\ visit[v].status = "REJECTED" => visit'[v].status = "REJECTED"
            /\ visit[v].status = "COMPLETED" => visit'[v].status \in {"COMPLETED", "REJECTED"}
            /\ visit[v].status \in ClosedStatus => visit'[v].status # "NEGOTIATING"
            /\ visit[v].visit_result # "PENDING" =>
                   visit'[v].visit_result = visit[v].visit_result]_vars
  BY SettledStep DEF KeepsSettled, Made
<1> QED BY <1>1, Invariance, PTL DEF Spec, SettledStaysSettled

-----------------------------------------------------------------------------
(***************************************************************************)
(* Who proposed and who answered.                                          *)
(***************************************************************************)

\* No visit is conducted by its own tenant.
NotSelfConducted ==
    \A v \in Visits : Made(v) => visit[v].manager_id # visit[v].tenant_id

\* The proposals of the tenant, and only those, are recorded as the tenant's.
AttributedRight(p) ==
    proposal[p].proposed_by = visit[proposal[p].visit_request_id].tenant_id
        <=> proposal[p].proposed_by_role = "TENANT"

SidesInv == NotSelfConducted /\ \A p \in Proposals : proposal[p] # NULL => AttributedRight(p)

LEMMA SidesMeans == IInv /\ SidesInv => TenantNeverActsAsStaff
BY DEF IInv, TypeOK, ProposalRow, OnlyCurrentIsOpen, SidesInv, NotSelfConducted,
       AttributedRight, TenantNeverActsAsStaff

\* A step keeps SidesInv if it keeps the tenants, the engaged staff is not the
\* tenant, and the only new proposal is attributed right.
LEMMA SidesStep ==
    ASSUME IInv, IInv', SidesInv,
           \A w \in Visits : visit'[w] # NULL =>
                \/ visit'[w].manager_id = visit[w].manager_id /\ visit[w] # NULL
                \/ visit'[w].manager_id # visit'[w].tenant_id,
           \A w \in Visits : visit[w] # NULL => visit'[w].tenant_id = visit[w].tenant_id,
           \A q \in Proposals : proposal'[q] # NULL =>
                \/ /\ proposal[q] # NULL
                   /\ proposal'[q].visit_request_id = proposal[q].visit_request_id
                   /\ proposal'[q].proposed_by = proposal[q].proposed_by
                   /\ proposal'[q].proposed_by_role = proposal[q].proposed_by_role
                \/ AttributedRight(q)'
    PROVE  SidesInv'
<1>1. NotSelfConducted'
  BY DEF SidesInv, NotSelfConducted, Made
<1>2. ASSUME NEW q \in Proposals, proposal'[q] # NULL PROVE AttributedRight(q)'
  <2>1. CASE /\ proposal[q] # NULL
             /\ proposal'[q].visit_request_id = proposal[q].visit_request_id
             /\ proposal'[q].proposed_by = proposal[q].proposed_by
             /\ proposal'[q].proposed_by_role = proposal[q].proposed_by_role
    <3> DEFINE w == proposal[q].visit_request_id
    <3>1. w \in Visits /\ visit[w] # NULL
      BY <2>1 DEF IInv, TypeOK, ProposalRow, OnlyCurrentIsOpen, Made
    <3>2. visit'[w].tenant_id = visit[w].tenant_id
      BY <3>1
    <3>3. AttributedRight(q)
      BY <2>1 DEF SidesInv
    <3> QED BY <2>1, <3>2, <3>3 DEF AttributedRight
  <2> QED BY <1>2, <2>1
<1> QED BY <1>1, <1>2 DEF SidesInv

LEMMA SidesCreate ==
    ASSUME IInv, IInv', SidesInv, NEW t \in Users, NEW v \in Visits,
           NEW p \in Proposals, NEW s \in Slots, Create(t, v, p, s)
    PROVE  SidesInv'
<1> DEFINE row  == NewVisit(t, p, Counterparty)
           prow == NewProposal(v, t, "TENANT", s)
<1>1. TypeOK
  BY DEF IInv
<1>2. /\ visit'[v] = row
      /\ proposal'[p] = prow
      /\ \A w \in Visits \ {v} : visit'[w] = visit[w]
      /\ \A q \in Proposals \ {p} : proposal'[q] = proposal[q]
      /\ visit[v] = NULL
  BY <1>1 DEF Create, TypeOK
<1>3. row.tenant_id = t /\ row.manager_id # t
  BY NewVisitRow, CounterpartyTyped, StaffAreParties, NullIsNoValue
<1>4. /\ prow.visit_request_id = v
      /\ prow.proposed_by = t
      /\ prow.proposed_by_role = "TENANT"
  BY NewProposalRow DEF ProposalRole
<1>5. AttributedRight(p)'
  BY <1>2, <1>3, <1>4 DEF AttributedRight
<1> HIDE DEF row, prow
<1> QED BY <1>2, <1>3, <1>5, SidesStep

LEMMA SidesPropose ==
    ASSUME IInv, IInv', SidesInv, NEW u \in Users, NEW v \in Visits,
           NEW p \in Proposals, NEW s \in Slots,
           Propose(u, v, p, s) \/ Reschedule(u, v, p, s)
    PROVE  SidesInv'
<1> DEFINE role == RoleIn(v, u)
           prow == NewProposal(v, u, role, s)
           old  == IF Propose(u, v, p, s) THEN Answer(Current(v), "SUPERSEDED", u)
                   ELSE proposal
<1>1. TypeOK /\ visit[v] # NULL
  BY DEF IInv, Propose, Reschedule
<1>2. /\ visit[v] \in VisitRow
      /\ Current(v) \in Proposals
  BY <1>1, OfOneVisit
<1>3. /\ role \in ProposalRole
      /\ u = visit[v].tenant_id <=> role = "TENANT"
  BY <1>1, RoleInTyped DEF Propose, CanPropose, HasTurn, Reschedule, CanReschedule
<1>4. /\ visit'[v].tenant_id = visit[v].tenant_id
      /\ visit'[v].manager_id \in
            {visit[v].manager_id} \cup {x \in {u} : role \in StaffRole}
  <2>1. CASE Propose(u, v, p, s)
    <3>1. visit'[v] = Proposed(visit[v], u, role, p, Counterparty)
      BY <1>1, <2>1 DEF Propose, TypeOK
    <3> QED BY <1>2, <1>3, <3>1, ProposedRow, CounterpartyTyped
  <2>2. CASE Reschedule(u, v, p, s)
    <3>1. visit'[v] = Rescheduled(visit[v], role, p, Counterparty)
      BY <1>1, <2>2 DEF Reschedule, TypeOK
    <3> QED BY <1>2, <1>3, <3>1, RescheduledRow, CounterpartyTyped
  <2> QED BY <2>1, <2>2
<1>5. u # visit[v].tenant_id \/ role \notin StaffRole
  BY <1>3 DEF StaffRole
<1>6. /\ prow.visit_request_id = v
      /\ prow.proposed_by = u
      /\ prow.proposed_by_role = role
  BY <1>3, NewProposalRow
<1>7. /\ proposal'[p] = prow
      /\ \A q \in Proposals \ {p} : proposal'[q] = old[q]
  BY <1>1, <1>2, AnswerEffect DEF Propose, Reschedule, TypeOK, Response
<1>8. \A q \in Proposals : old[q] # NULL =>
        /\ proposal[q] # NULL
        /\ old[q].visit_request_id = proposal[q].visit_request_id
        /\ old[q].proposed_by = proposal[q].proposed_by
        /\ old[q].proposed_by_role = proposal[q].proposed_by_role
  BY <1>1, <1>2, AnswerEffect DEF Response
<1>9. \A w \in Visits \ {v} : visit'[w] = visit[w]
  BY <1>1, OtherVisitsKept
<1>10. AttributedRight(p)'
  BY <1>3, <1>4, <1>6, <1>7 DEF AttributedRight
<1> HIDE DEF role, prow, old
<1> QED BY <1>1, <1>4, <1>5, <1>7, <1>8, <1>9, <1>10, SidesStep

LEMMA SidesRest ==
    ASSUME IInv, IInv', SidesInv, NEW u \in Users, NEW v \in Visits,
           \/ Accept(u, v) \/ Reject(u, v) \/ Cancel(u, v)
           \/ CompleteRejecting(u, v) \/ CompleteApprovingAgain(u, v)
           \/ \E g \in Agreements : CompleteApproving(u, v, g)
    PROVE  SidesInv'
<1> DEFINE role == RoleIn(v, u)
<1>1. TypeOK /\ visit[v] # NULL
  BY DEF IInv, Accept, Reject, Cancel, CompleteRejecting, CompleteApprovingAgain,
         CompleteApproving
<1>2. /\ visit[v] \in VisitRow
      /\ Current(v) \in Proposals
      /\ proposal[Current(v)] \in ProposalRow
  BY <1>1, OfOneVisit
<1>3. /\ visit'[v].tenant_id = visit[v].tenant_id
      /\ \/ visit'[v].manager_id = visit[v].manager_id
         \/ visit'[v].manager_id = u /\ role \in StaffRole
  <2>1. CASE Accept(u, v)
    <3>1. visit'[v] = Accepted(visit[v], u, role, proposal[Current(v)].slot)
      BY <1>1, <2>1 DEF Accept, TypeOK
    <3>2. role \in ProposalRole
      BY <1>1, <2>1, RoleInTyped DEF Accept, CanAccept, HasTurn
    <3>3. proposal[Current(v)].slot \in Slots
      BY <1>2 DEF ProposalRow
    <3> QED BY <1>2, <3>1, <3>2, <3>3, AcceptedRow
  <2>2. CASE Reject(u, v)
    BY <1>1, <1>2, <2>2, RejectedRow DEF Reject, TypeOK
  <2>3. CASE Cancel(u, v)
    BY <1>1, <1>2, <2>3, CancelledRow DEF Cancel, TypeOK
  <2>4. CASE \/ CompleteRejecting(u, v) \/ CompleteApprovingAgain(u, v)
             \/ \E g \in Agreements : CompleteApproving(u, v, g)
    <3>1. PICK ok \in BOOLEAN : visit'[v] = Completed(visit[v], ok)
      BY <1>1, <2>4 DEF CompleteRejecting, CompleteApprovingAgain, CompleteApproving, TypeOK
    <3> QED BY <1>2, <3>1, CompletedRow
  <2> QED BY <2>1, <2>2, <2>3, <2>4
<1>4. u # visit[v].tenant_id \/ role \notin StaffRole
  BY <1>1, RoleInTyped DEF StaffRole
<1>5. \A w \in Visits \ {v} : visit'[w] = visit[w]
  BY <1>1, OtherVisitsKept
<1>6. \A q \in Proposals : proposal'[q] # NULL =>
        /\ proposal[q] # NULL
        /\ proposal'[q].visit_request_id = proposal[q].visit_request_id
        /\ proposal'[q].proposed_by = proposal[q].proposed_by
        /\ proposal'[q].proposed_by_role = proposal[q].proposed_by_role
  <2>1. CASE proposal' = proposal
    BY <2>1
  <2>2. CASE \E a \in Response : proposal' = Answer(Current(v), a, u)
    BY <1>1, <1>2, <2>2, AnswerEffect
  <2> QED BY <2>1, <2>2 DEF Accept, Reject, Cancel, CompleteRejecting,
             CompleteApprovingAgain, CompleteApproving, Response
<1> HIDE DEF role
<1> QED BY <1>1, <1>3, <1>4, <1>5, <1>6, SidesStep

LEMMA SidesNext == IInv /\ SidesInv /\ [Next]_vars => SidesInv'
<1> SUFFICES ASSUME IInv, SidesInv, [Next]_vars PROVE SidesInv'
  OBVIOUS
<1>1. IInv'
  BY InvNext
<1>2. CASE UNCHANGED <<visit, proposal>>
  BY <1>2 DEF SidesInv, NotSelfConducted, AttributedRight, Made
<1>3. CASE NegotiationStep
  BY <1>1, <1>3, SidesCreate, SidesPropose, SidesRest DEF NegotiationStep
<1> QED BY <1>2, <1>3 DEF Next, StaffingStep, AssignManagers, ReplaceManagers, RemoveManager, SwitchRole, vars

LEMMA SidesInvariance == Spec => [](IInv /\ SidesInv)
<1>1. Init => SidesInv
  BY DEF Init, SidesInv, NotSelfConducted, Made
<1> QED BY <1>1, InvInit, InvNext, SidesNext, PTL DEF Spec

\* Whatever role is active, the tenant of a visit negotiates it as the tenant:
\* no visit is conducted, and no proposal made for the staff, by its tenant.
THEOREM SidesCorrect == Spec => []TenantNeverActsAsStaff
BY SidesInvariance, SidesMeans, PTL

-----------------------------------------------------------------------------
(***************************************************************************)
(* Who confirms.                                                           *)
(***************************************************************************)
AgreedBySides(v) ==
    LET p == proposal'[visit'[v].current_proposal_id] IN
    (p.proposed_by = visit[v].tenant_id) # (p.responded_by = visit[v].tenant_id)

LEMMA AcceptedByOtherSide ==
    ASSUME IInv, SidesInv, NEW u \in Users, NEW v \in Visits, Accept(u, v),
           visit[v].status # "CANCELLED"
    PROVE  AgreedBySides(v)
<1> DEFINE role == RoleIn(v, u)
           c    == Current(v)
           t    == visit[v].tenant_id
<1>1. TypeOK /\ visit[v] # NULL
  BY DEF IInv, Accept
<1>2. /\ visit[v] \in VisitRow
      /\ visit[v].current_proposal_id = c
      /\ c \in Proposals
      /\ proposal[c] # NULL
      /\ proposal[c] \in ProposalRow
      /\ proposal[c].visit_request_id = v
      /\ Consistent(visit[v], proposal[c])
  BY <1>1, OfOneVisit
<1>3. HasTurn(visit[v], role) /\ proposal[c].response = "PENDING"
  BY DEF Accept, CanAccept
<1>4. visit[v].status = "NEGOTIATING"
  BY <1>2, <1>3 DEF Consistent, VisitRow, VisitStatus
<1>5. SideOf(role) # SideOf(proposal[c].proposed_by_role)
  <2>1. SideOf(proposal[c].proposed_by_role) # SideOf(visit[v].pending_with)
    BY <1>2, <1>4 DEF Consistent
  <2>2. visit[v].pending_with # NULL
    BY <1>2, <1>4 DEF Consistent
  <2>3. SideOf(role) = SideOf(visit[v].pending_with)
    BY <1>3, <2>2 DEF HasTurn, ActorMatchesPending, SideOf, StaffRole
  <2> QED BY <2>1, <2>3
<1>6. (role = "TENANT") # (proposal[c].proposed_by_role = "TENANT")
  <2>1. role \in ProposalRole /\ proposal[c].proposed_by_role \in ProposalRole
    BY <1>1, <1>2, <1>3, RoleInTyped DEF HasTurn, ProposalRow
  <2> QED BY <1>5, <2>1 DEF SideOf, StaffRole, ProposalRole
<1>7. (proposal[c].proposed_by = t) <=> (proposal[c].proposed_by_role = "TENANT")
  BY <1>2 DEF SidesInv, AttributedRight
<1>8. u = t <=> role = "TENANT"
  BY <1>1, RoleInTyped
<1>9. /\ proposal'[c].proposed_by = proposal[c].proposed_by
      /\ proposal'[c].responded_by = u
  BY <1>1, <1>2, <1>3, AnswerEffect DEF Accept, Response
<1>10. visit'[v].current_proposal_id = c
  <2>1. visit'[v] = Accepted(visit[v], u, role, proposal[c].slot)
    BY <1>1 DEF Accept, TypeOK
  <2>2. role \in ProposalRole /\ proposal[c].slot \in Slots
    BY <1>1, <1>2, <1>3, RoleInTyped DEF HasTurn, ProposalRow
  <2> QED BY <1>2, <2>1, <2>2, AcceptedRow
<1> HIDE DEF role, c, t
<1>11. (proposal'[c].proposed_by = t) # (proposal'[c].responded_by = t)
  BY <1>6, <1>7, <1>8, <1>9
<1> QED BY <1>10, <1>11 DEF AgreedBySides, t

\* Accept is the only operation that confirms.
LEMMA OnlyAcceptConfirms ==
    ASSUME IInv, [Next]_vars, NEW w \in Visits, visit[w] # NULL,
           visit[w].status # "CONFIRMED", visit'[w].status = "CONFIRMED"
    PROVE  \E u \in Users : Accept(u, w)
<1>1. TypeOK /\ visit'[w] # visit[w] /\ visit[w] \in VisitRow
  BY DEF IInv, TypeOK
<1>2. NegotiationStep
  BY <1>1 DEF Next, StaffingStep, AssignManagers, ReplaceManagers, RemoveManager, SwitchRole, vars
<1>3. ASSUME NEW u \in Users, NEW v \in Visits, NEW p \in Proposals, NEW s \in Slots,
             Create(u, v, p, s) \/ Propose(u, v, p, s) \/ Reschedule(u, v, p, s)
      PROVE  FALSE
  <2>1. w = v
    BY <1>1, <1>3, OtherVisitsKept
  <2>2. CASE Create(u, v, p, s)
    BY <2>1, <2>2 DEF Create
  <2>3. CASE Propose(u, v, p, s)
    <3>1. RoleIn(v, u) \in ProposalRole
      BY <1>1, <2>1, <2>3, RoleInTyped DEF Propose, CanPropose, HasTurn
    <3>2. visit'[w] = Proposed(visit[w], u, RoleIn(v, u), p, Counterparty)
      BY <1>1, <2>1, <2>3 DEF Propose, TypeOK
    <3> QED BY <1>1, <3>1, <3>2, ProposedRow, CounterpartyTyped
  <2>4. CASE Reschedule(u, v, p, s)
    <3>1. RoleIn(v, u) \in ProposalRole
      BY <1>1, <2>1, <2>4, RoleInTyped DEF Reschedule, CanReschedule
    <3>2. visit'[w] = Rescheduled(visit[w], RoleIn(v, u), p, Counterparty)
      BY <1>1, <2>1, <2>4 DEF Reschedule, TypeOK
    <3> QED BY <1>1, <3>1, <3>2, RescheduledRow, CounterpartyTyped
  <2> QED BY <1>3, <2>2, <2>3, <2>4
<1>4. ASSUME NEW u \in Users, NEW v \in Visits,
             \/ Accept(u, v) \/ Reject(u, v) \/ Cancel(u, v)
             \/ CompleteRejecting(u, v) \/ CompleteApprovingAgain(u, v)
             \/ \E g \in Agreements : CompleteApproving(u, v, g)
      PROVE  Accept(u, w)
  <2>1. w = v
    BY <1>1, <1>4, OtherVisitsKept
  <2>2. CASE Reject(u, v)
    BY <1>1, <2>1, <2>2, RejectedRow DEF Reject, TypeOK
  <2>3. CASE Cancel(u, v)
    BY <1>1, <2>1, <2>3, CancelledRow DEF Cancel, TypeOK
  <2>4. CASE \/ CompleteRejecting(u, v) \/ CompleteApprovingAgain(u, v)
             \/ \E g \in Agreements : CompleteApproving(u, v, g)
    <3>1. PICK ok \in BOOLEAN : visit'[w] = Completed(visit[w], ok)
      BY <1>1, <2>1, <2>4
      DEF CompleteRejecting, CompleteApprovingAgain, CompleteApproving, TypeOK
    <3> QED BY <1>1, <3>1, CompletedRow
  <2> QED BY <1>4, <2>1, <2>2, <2>3, <2>4
<1> QED BY <1>2, <1>3, <1>4 DEF NegotiationStep

\* A visit that was not cancelled is confirmed only by the side that did not
\* propose the slot: nobody confirms an own proposal.
THEOREM ConfirmationIsMutual == Spec => ConfirmedByOtherSide
<1>1. IInv /\ SidesInv /\ [Next]_vars =>
        [\A v \in Visits :
            /\ Made(v)
            /\ visit[v].status \notin {"CONFIRMED", "CANCELLED"}
            /\ visit'[v].status = "CONFIRMED"
            => LET p == proposal'[visit'[v].current_proposal_id] IN
               (p.proposed_by = visit[v].tenant_id)
                   # (p.responded_by = visit[v].tenant_id)]_vars
  BY OnlyAcceptConfirms, AcceptedByOtherSide DEF AgreedBySides, Made
<1> QED BY <1>1, SidesInvariance, PTL DEF Spec, ConfirmedByOtherSide

-----------------------------------------------------------------------------
(***************************************************************************)
(* The tracker.  An approval finds a blocking agreement or makes one;      *)
(* either way the tracker has an agreement only because every agreement    *)
(* there is has put itself on its tenant's tracker.                        *)
(***************************************************************************)

\* The tracker row w of tenant t points at rows of t.
PointsRight(t, w, V, A) ==
    /\ w.visit_request_id # NULL
    /\ V[w.visit_request_id] # NULL
    /\ V[w.visit_request_id].tenant_id = t
    /\ w.state = "VISIT_SCHEDULED" => V[w.visit_request_id].scheduled # NULL
    /\ w.agreement_id # NULL =>
         A[w.agreement_id] # NULL /\ A[w.agreement_id].tenant_id = t

\* The tracker w knows of an agreement.
Knows(w) == w # NULL /\ w.agreement_id # NULL

VisitTracked(row, W) ==
    /\ W[row.tenant_id] # NULL
    /\ row.visit_result = "APPROVED" => Knows(W[row.tenant_id])

Tracked(W, V, A) ==
    /\ \A t \in Users : W[t] # NULL => PointsRight(t, W[t], V, A)
    /\ \A v \in Visits : V[v] # NULL => VisitTracked(V[v], W)
    /\ \A g \in Agreements : A[g] # NULL => Knows(W[A[g].tenant_id])

TrackInv == Tracked(workflow, visit, agreement)

LEMMA TrackMeans == IInv /\ TrackInv => TrackerFollowsVisit /\ ApprovedHasAgreement
<1> SUFFICES ASSUME IInv, TrackInv, NEW v \in Visits, Made(v)
             PROVE  LET w == workflow[visit[v].tenant_id] IN
                    /\ w # NULL /\ PointsRight(visit[v].tenant_id, w, visit, agreement)
                    /\ visit[v].visit_result = "APPROVED" => w.agreement_id # NULL
  BY DEF TrackerFollowsVisit, ApprovedHasAgreement, PointsRight, Made
<1>1. visit[v].tenant_id \in Users
  BY DEF IInv, TypeOK, Made, VisitRow
<1> QED BY <1>1 DEF TrackInv, Tracked, VisitTracked, Knows, Made

\* The visit row new follows old: of the same tenant, and as scheduled as before.
Follows(new, old) ==
    /\ new # NULL
    /\ new.tenant_id = old.tenant_id
    /\ old.scheduled # NULL => new.scheduled # NULL

\* X, Y and B are the tables after a step that writes visit v of tenant t, that
\* tenant's tracker, and maybe inserts an agreement.
Advanced(W, V, A, X, Y, B, v, t) ==
    /\ \A w \in Visits \ {v} : Y[w] = V[w]
    /\ Y[v] # NULL /\ Y[v].tenant_id = t
    /\ V[v] # NULL => Follows(Y[v], V[v])
    /\ \A s \in Users \ {t} : X[s] = W[s]
    /\ X[t] # NULL /\ PointsRight(t, X[t], Y, B)
    /\ Knows(W[t]) => Knows(X[t])
    /\ Y[v].visit_result = "APPROVED" => Knows(X[t])
    /\ \A g \in Agreements : A[g] # NULL => B[g] = A[g]
    /\ \A g \in Agreements : A[g] = NULL /\ B[g] # NULL => B[g].tenant_id = t /\ Knows(X[t])

LEMMA TrackedStep ==
    ASSUME NEW W, NEW V, NEW A, Tracked(W, V, A),
           \A s \in Users : W[s] # NULL => W[s] \in WorkflowRow,
           \A w \in Visits : V[w] # NULL => V[w].tenant_id \in Users,
           \A g \in Agreements : A[g] # NULL => A[g].tenant_id \in Users,
           NEW X, NEW Y, NEW B, NEW v \in Visits, NEW t \in Users,
           Advanced(W, V, A, X, Y, B, v, t)
    PROVE  Tracked(X, Y, B)
<1> USE DEF Advanced
<1>1. ASSUME NEW s \in Users, X[s] # NULL PROVE PointsRight(s, X[s], Y, B)
  <2>1. CASE s = t
    BY <2>1
  <2>2. CASE s # t
    <3>1. X[s] = W[s] /\ W[s] \in WorkflowRow /\ PointsRight(s, W[s], V, A)
      BY <1>1, <2>2 DEF Tracked
    <3>2. W[s].visit_request_id \in Visits
      BY <3>1 DEF PointsRight, WorkflowRow, WorkflowRows
    <3>3. W[s].agreement_id # NULL => W[s].agreement_id \in Agreements
      BY <3>1 DEF WorkflowRow, WorkflowRows
    <3>4. Follows(Y[W[s].visit_request_id], V[W[s].visit_request_id])
      BY <3>1, <3>2 DEF Follows, PointsRight
    <3> QED BY <3>1, <3>3, <3>4 DEF Follows, PointsRight
  <2> QED BY <2>1, <2>2
<1>2. ASSUME NEW w \in Visits, Y[w] # NULL PROVE VisitTracked(Y[w], X)
  <2>1. CASE w = v
    BY <2>1 DEF VisitTracked
  <2>2. CASE w # v
    <3>1. VisitTracked(V[w], W) /\ Y[w] = V[w] /\ V[w].tenant_id \in Users
      BY <1>2, <2>2 DEF Tracked
    <3> QED BY <3>1 DEF VisitTracked
  <2> QED BY <2>1, <2>2
<1>3. ASSUME NEW g \in Agreements, B[g] # NULL PROVE Knows(X[B[g].tenant_id])
  <2>1. CASE A[g] = NULL
    BY <1>3, <2>1
  <2>2. CASE A[g] # NULL
    BY <2>2 DEF Tracked
  <2> QED BY <2>1, <2>2
<1> QED BY <1>1, <1>2, <1>3 DEF Tracked

\* The tables as TrackedStep takes them.
LEMMA TrackedTables ==
    ASSUME IInv
    PROVE  /\ TypeOK
           /\ \A s \in Users : workflow[s] # NULL => workflow[s] \in WorkflowRow
           /\ \A w \in Visits : visit[w] # NULL => visit[w].tenant_id \in Users
           /\ \A g \in Agreements : agreement[g] # NULL => agreement[g].tenant_id \in Users
BY DEF IInv, TypeOK, VisitRow, AgreementRow, AgreementRows

\* What a visit's operations leave on the tracker they start from.
LEMMA StartRow ==
    ASSUME IInv, NEW t \in Users
    PROVE  LET w == GetOrCreate(workflow[t]) IN
           /\ w \in WorkflowRow
           /\ Knows(workflow[t]) => w = workflow[t]
           /\ w.agreement_id # NULL => w = workflow[t] /\ workflow[t] # NULL
<1>1. workflow[t] \in WorkflowRow \cup {NULL}
  BY DEF IInv, TypeOK
<1>2. CASE workflow[t] = NULL
  BY <1>1, <1>2, GetOrCreateRow DEF GetOrCreate, Knows, NewWorkflow
<1>3. CASE workflow[t] # NULL
  BY <1>1, <1>3, GetOrCreateRow DEF GetOrCreate
<1> QED BY <1>2, <1>3

LEMMA TrackCreate ==
    ASSUME IInv, TrackInv, NEW t \in Users, NEW v \in Visits, NEW p \in Proposals,
           NEW s \in Slots, Create(t, v, p, s)
    PROVE  TrackInv'
<1> DEFINE row == NewVisit(t, p, Counterparty)
           w   == GetOrCreate(workflow[t])
           new == MarkVisitBooked(w, v)
<1>1. /\ visit[v] = NULL /\ visit'[v] = row /\ workflow'[t] = new /\ agreement' = agreement
      /\ \A x \in Visits \ {v} : visit'[x] = visit[x]
      /\ \A x \in Users \ {t} : workflow'[x] = workflow[x]
  BY TrackedTables DEF Create, TypeOK
<1>2. row # NULL /\ row.tenant_id = t /\ row.visit_result = "PENDING"
  BY NewVisitRow, CounterpartyTyped, StaffAreParties, NullIsNoValue
<1>3. /\ w \in WorkflowRow
      /\ Knows(workflow[t]) => w = workflow[t]
      /\ w.agreement_id # NULL => w = workflow[t] /\ workflow[t] # NULL
  BY StartRow
<1>4. /\ new # NULL /\ new.visit_request_id = v /\ new.state = "VISIT_REQUESTED"
      /\ new.agreement_id = w.agreement_id
  BY <1>3, BookedRow, NullIsNoValue
<1>5. workflow[t] # NULL => PointsRight(t, workflow[t], visit, agreement)
  BY DEF TrackInv, Tracked
<1> HIDE DEF row, w, new
<1>6. PointsRight(t, new, visit', agreement')
  BY <1>1, <1>2, <1>3, <1>4, <1>5, NullIsNoValue DEF PointsRight
<1>7. Knows(workflow[t]) => Knows(new)
  BY <1>3, <1>4 DEF Knows
<1>8. Advanced(workflow, visit, agreement, workflow', visit', agreement', v, t)
  BY <1>1, <1>2, <1>4, <1>6, <1>7 DEF Advanced
<1> QED BY <1>8, TrackedTables, TrackedStep DEF TrackInv

\* A request on visit v that leaves tracker and agreements alone.
LEMMA TrackAlone ==
    ASSUME IInv, TrackInv, NEW v \in Visits, visit[v] # NULL,
           UNCHANGED <<workflow, agreement>>,
           \A x \in Visits \ {v} : visit'[x] = visit[x],
           Follows(visit'[v], visit[v]),
           visit'[v].visit_result = "APPROVED" =>
               visit[v].visit_result = "APPROVED" \/ Knows(workflow[visit[v].tenant_id])
    PROVE  TrackInv'
<1> DEFINE t == visit[v].tenant_id
<1>1. t \in Users
  BY TrackedTables
<1>2. workflow[t] # NULL /\ (visit'[v].visit_result = "APPROVED" => Knows(workflow[t]))
  BY DEF TrackInv, Tracked, VisitTracked
<1>3. workflow[t] \in WorkflowRow /\ PointsRight(t, workflow[t], visit, agreement)
  BY <1>1, <1>2 DEF TrackInv, Tracked, IInv, TypeOK
<1>4. visit'[v] # NULL /\ visit'[v].tenant_id = t
  BY DEF Follows
<1> HIDE DEF t
<1>5. workflow[t].visit_request_id \in Visits
  BY <1>3 DEF PointsRight, WorkflowRow, WorkflowRows
<1>6. Follows(visit'[workflow[t].visit_request_id], visit[workflow[t].visit_request_id])
  BY <1>3, <1>5 DEF Follows, PointsRight
<1>7. PointsRight(t, workflow[t], visit', agreement)
  BY <1>3, <1>5, <1>6 DEF PointsRight, Follows
<1>8. Advanced(workflow, visit, agreement, workflow', visit', agreement', v, t)
  BY <1>2, <1>4, <1>7 DEF Advanced
<1> QED BY <1>1, <1>8, TrackedTables, TrackedStep DEF TrackInv

LEMMA TrackNegotiated ==
    ASSUME IInv, TrackInv, NEW u \in Users, NEW v \in Visits,
           \/ \E p \in Proposals, s \in Slots : Propose(u, v, p, s) \/ Reschedule(u, v, p, s)
           \/ Reject(u, v) \/ Cancel(u, v) \/ CompleteApprovingAgain(u, v)
    PROVE  TrackInv'
<1>1. TypeOK /\ visit[v] # NULL /\ UNCHANGED <<workflow, agreement>>
  BY DEF IInv, Propose, Reschedule, Reject, Cancel, CompleteApprovingAgain
<1>2. visit[v] \in VisitRow
  BY <1>1, OfOneVisit
<1>3. \A x \in Visits \ {v} : visit'[x] = visit[x]
  BY <1>1, OtherVisitsKept
<1>4. ASSUME NEW p \in Proposals, NEW s \in Slots, Propose(u, v, p, s)
      PROVE  Follows(visit'[v], visit[v]) /\ visit'[v].visit_result = visit[v].visit_result
  <2>1. visit'[v] = Proposed(visit[v], u, RoleIn(v, u), p, Counterparty)
    BY <1>1, <1>4 DEF Propose, TypeOK
  <2>2. RoleIn(v, u) \in ProposalRole
    BY <1>1, <1>4, RoleInTyped DEF Propose, CanPropose, HasTurn
  <2> QED BY <1>2, <2>1, <2>2, ProposedRow, CounterpartyTyped, NullIsNoValue DEF Follows
<1>5. ASSUME NEW p \in Proposals, NEW s \in Slots, Reschedule(u, v, p, s)
      PROVE  Follows(visit'[v], visit[v]) /\ visit'[v].visit_result = visit[v].visit_result
  <2>1. visit'[v] = Rescheduled(visit[v], RoleIn(v, u), p, Counterparty)
    BY <1>1, <1>5 DEF Reschedule, TypeOK
  <2>2. RoleIn(v, u) \in ProposalRole
    BY <1>1, <1>5, RoleInTyped DEF Reschedule, CanReschedule
  <2> QED BY <1>2, <2>1, <2>2, RescheduledRow, CounterpartyTyped, NullIsNoValue DEF Follows
<1>6. ASSUME Reject(u, v) \/ Cancel(u, v)
      PROVE  Follows(visit'[v], visit[v]) /\ visit'[v].visit_result = visit[v].visit_result
  <2>1. visit'[v] \in {Rejected(visit[v]), Cancelled(visit[v])}
    BY <1>1, <1>6 DEF Reject, Cancel, TypeOK
  <2> QED BY <1>2, <2>1, RejectedRow, CancelledRow, NullIsNoValue DEF Follows
<1>7. ASSUME CompleteApprovingAgain(u, v)
      PROVE  Follows(visit'[v], visit[v]) /\ Knows(workflow[visit[v].tenant_id])
  <2>1. visit'[v] = Completed(visit[v], TRUE)
    BY <1>1, <1>7 DEF CompleteApprovingAgain, TypeOK
  <2>2. PICK g \in Agreements : BlockingAgreementsOf(visit[v].tenant_id) = {g}
    BY <1>7 DEF CompleteApprovingAgain
  <2>3. agreement[g] # NULL /\ agreement[g].tenant_id = visit[v].tenant_id
    BY <2>2 DEF BlockingAgreementsOf
  <2>4. Knows(workflow[visit[v].tenant_id])
    BY <2>3 DEF TrackInv, Tracked
  <2>5. /\ visit'[v] \in VisitRow
        /\ visit'[v].tenant_id = visit[v].tenant_id
        /\ visit'[v].scheduled = visit[v].scheduled
    BY <1>2, <2>1 DEF Completed, VisitRow, VisitStatus, VisitResult
  <2> QED BY <2>4, <2>5, NullIsNoValue DEF Follows
<1> QED BY <1>1, <1>3, <1>4, <1>5, <1>6, <1>7, TrackAlone

LEMMA NewAgreementRow ==
    ASSUME NEW t \in Users
    PROVE  NewAgreement(t) \in AgreementRow /\ NewAgreement(t).tenant_id = t
BY DEF NewAgreement, AgreementRow, AgreementRows, AgreementStatus

\* A request that marks the tracker of the visit's tenant, maybe with a new agreement.
LEMMA TrackMarked ==
    ASSUME IInv, TrackInv, NEW v \in Visits, visit[v] # NULL,
           \A x \in Visits \ {v} : visit'[x] = visit[x],
           Follows(visit'[v], visit[v]),
           NEW t \in Users, t = visit[v].tenant_id,
           NEW new \in WorkflowRow, workflow' = [workflow EXCEPT ![t] = new],
           new.visit_request_id = v,
           new.state = "VISIT_SCHEDULED" => visit'[v].scheduled # NULL,
           visit'[v].visit_result = "APPROVED" => Knows(new),
           \/ /\ agreement' = agreement
              /\ new.agreement_id = GetOrCreate(workflow[t]).agreement_id
           \/ \E g \in Agreements :
                /\ new.agreement_id = g /\ agreement[g] = NULL
                /\ agreement' = [agreement EXCEPT ![g] = NewAgreement(t)]
    PROVE  TrackInv'
<1>1. TypeOK
  BY DEF IInv
<1>2. /\ workflow'[t] = new
      /\ \A x \in Users \ {t} : workflow'[x] = workflow[x]
  BY <1>1 DEF TypeOK
<1>3. new # NULL /\ v # NULL
  BY NullIsNoValue
<1>4. workflow[t] # NULL /\ PointsRight(t, workflow[t], visit, agreement)
  BY DEF TrackInv, Tracked, VisitTracked
<1>5. /\ Knows(workflow[t]) => Knows(new)
      /\ new.agreement_id # NULL =>
            agreement'[new.agreement_id] # NULL /\ agreement'[new.agreement_id].tenant_id = t
      /\ \A g \in Agreements : agreement[g] # NULL => agreement'[g] = agreement[g]
      /\ \A g \in Agreements : agreement[g] = NULL /\ agreement'[g] # NULL =>
                agreement'[g].tenant_id = t /\ Knows(new)
  <2>1. CASE /\ agreement' = agreement
             /\ new.agreement_id = GetOrCreate(workflow[t]).agreement_id
    BY <1>3, <1>4, <2>1 DEF Knows, GetOrCreate, PointsRight
  <2>2. ASSUME NEW g \in Agreements, new.agreement_id = g, agreement[g] = NULL,
               agreement' = [agreement EXCEPT ![g] = NewAgreement(t)]
        PROVE  /\ Knows(new)
               /\ agreement'[g] # NULL /\ agreement'[g].tenant_id = t
               /\ \A h \in Agreements \ {g} : agreement'[h] = agreement[h]
    <3>1. NewAgreement(t) # NULL /\ NewAgreement(t).tenant_id = t
      BY NewAgreementRow, NullIsNoValue
    <3>2. Knows(new)
      BY <1>3, <2>2, NullIsNoValue DEF Knows
    <3> QED BY <1>1, <2>2, <3>1, <3>2 DEF TypeOK
  <2> QED BY <2>1, <2>2
<1>6. PointsRight(t, new, visit', agreement')
  BY <1>3, <1>5 DEF PointsRight, Follows
<1>7. visit'[v] # NULL /\ visit'[v].tenant_id = t
  BY DEF Follows
<1>8. Advanced(workflow, visit, agreement, workflow', visit', agreement', v, t)
  BY <1>2, <1>3, <1>5, <1>6, <1>7 DEF Advanced
<1> QED BY <1>8, TrackedTables, TrackedStep DEF TrackInv

LEMMA TrackAccept ==
    ASSUME IInv, TrackInv, NEW u \in Users, NEW v \in Visits, Accept(u, v)
    PROVE  TrackInv'
<1> DEFINE t    == visit[v].tenant_id
           slot == proposal[Current(v)].slot
           w    == GetOrCreate(workflow[t])
           new  == MarkVisitScheduled(w, v)
<1>1. TypeOK /\ visit[v] # NULL /\ agreement' = agreement
  BY DEF IInv, Accept
<1>2. /\ visit[v] \in VisitRow /\ proposal[Current(v)] \in ProposalRow
      /\ Consistent(visit[v], proposal[Current(v)])
      /\ proposal[Current(v)].response = "PENDING"
  BY <1>1, OfOneVisit DEF Accept, CanAccept
<1>3. t \in Users /\ slot \in Slots
  BY <1>1, <1>2, TrackedTables DEF ProposalRow
<1>4. /\ visit'[v] \in VisitRow /\ visit'[v].tenant_id = t /\ visit'[v].scheduled = slot
      /\ visit'[v].visit_result = "PENDING"
  <2>1. visit'[v] = Accepted(visit[v], u, RoleIn(v, u), slot)
    BY <1>1 DEF Accept, TypeOK
  <2>2. RoleIn(v, u) \in ProposalRole
    BY <1>1, RoleInTyped DEF Accept, CanAccept, HasTurn
  <2>3. visit[v].visit_result = "PENDING"
    BY <1>2 DEF Consistent
  <2> QED BY <1>2, <1>3, <2>1, <2>2, <2>3, AcceptedRow
<1>5. \A x \in Visits \ {v} : visit'[x] = visit[x]
  BY <1>1, OtherVisitsKept
<1>6. w \in WorkflowRow
  BY <1>3, StartRow
<1>7. new \in WorkflowRow /\ new.visit_request_id = v /\ new.agreement_id = w.agreement_id
  BY <1>6, ScheduledRow
<1>8. workflow' = [workflow EXCEPT ![t] = new]
  BY DEF Accept
<1>9. Follows(visit'[v], visit[v]) /\ visit'[v].scheduled # NULL
  BY <1>3, <1>4, NullIsNoValue DEF Follows
<1> HIDE DEF new, slot
<1> QED BY <1>1, <1>3, <1>4, <1>5, <1>7, <1>8, <1>9, TrackMarked

LEMMA TrackComplete ==
    ASSUME IInv, TrackInv, NEW u \in Users, NEW v \in Visits,
           CompleteRejecting(u, v) \/ \E g \in Agreements : CompleteApproving(u, v, g)
    PROVE  TrackInv'
<1> DEFINE t == visit[v].tenant_id
           w == GetOrCreate(workflow[t])
<1>1. TypeOK /\ visit[v] # NULL
  BY DEF IInv, CompleteRejecting, CompleteApproving
<1>2. visit[v] \in VisitRow /\ t \in Users
  BY <1>1, OfOneVisit, TrackedTables
<1>3. \A x \in Visits \ {v} : visit'[x] = visit[x]
  BY <1>1, OtherVisitsKept
<1>4. w \in WorkflowRow
  BY <1>2, StartRow
<1>5. PICK ok \in BOOLEAN :
        /\ visit'[v] = Completed(visit[v], ok)
        /\ CompleteRejecting(u, v) => ok = FALSE
  <2>1. CASE CompleteRejecting(u, v)
    BY <1>1, <2>1 DEF CompleteRejecting, TypeOK
  <2>2. CASE ~ CompleteRejecting(u, v)
    BY <1>1, <2>2 DEF CompleteApproving, TypeOK
  <2> QED BY <2>1, <2>2
<1>8. /\ Follows(visit'[v], visit[v])
      /\ CompleteRejecting(u, v) => visit'[v].visit_result = "REJECTED"
  BY <1>2, <1>5, CompletedRow, NullIsNoValue DEF Follows
<1>6. CASE CompleteRejecting(u, v)
  <2> DEFINE new == MarkVisitResult(w, v, FALSE)
  <2>1. /\ new \in WorkflowRow /\ new.visit_request_id = v
        /\ new.agreement_id = w.agreement_id /\ new.state # "VISIT_SCHEDULED"
    BY <1>4, ResultRow
  <2>2. workflow' = [workflow EXCEPT ![t] = new] /\ agreement' = agreement
    BY <1>6 DEF CompleteRejecting
  <2>3. visit'[v].visit_result # "APPROVED"
    BY <1>8, <1>6
  <2> HIDE DEF new
  <2> QED BY <1>1, <1>2, <1>3, <1>8, <2>1, <2>2, <2>3, TrackMarked
<1>7. ASSUME NEW g \in Agreements, CompleteApproving(u, v, g) PROVE TrackInv'
  <2> DEFINE marked == MarkAgreementGenerated(w, g)
             result == MarkVisitResult(marked, v, TRUE)
             new    == MarkAgreementGenerated(result, g)
  <2>1. marked \in WorkflowRow
    BY <1>4, GeneratedRow
  <2>2. result \in WorkflowRow /\ result.visit_request_id = v
    BY <2>1, ResultRow
  <2>3. workflow' = [workflow EXCEPT ![t] = new]
    BY <1>7 DEF CompleteApproving
  <2> HIDE DEF marked, result
  <2>4. /\ new \in WorkflowRow /\ new.visit_request_id = v
        /\ new.agreement_id = g /\ new.state # "VISIT_SCHEDULED"
    BY <2>2, GeneratedRow
  <2>5. agreement[g] = NULL /\ agreement' = [agreement EXCEPT ![g] = NewAgreement(t)]
    BY <1>7 DEF CompleteApproving
  <2> HIDE DEF new
  <2>6. Knows(new)
    BY <2>4, NullIsNoValue DEF Knows
  <2> QED BY <1>1, <1>2, <1>3, <1>8, <2>3, <2>4, <2>5, <2>6, TrackMarked
<1> QED BY <1>6, <1>7

LEMMA TrackNext == IInv /\ TrackInv /\ [Next]_vars => TrackInv'
<1> SUFFICES ASSUME IInv, TrackInv, [Next]_vars PROVE TrackInv'
  OBVIOUS
<1>1. CASE UNCHANGED <<visit, workflow, agreement>>
  BY <1>1 DEF TrackInv
<1>2. CASE NegotiationStep
  BY <1>2, TrackCreate, TrackNegotiated, TrackAccept, TrackComplete DEF NegotiationStep
<1> QED BY <1>1, <1>2 DEF Next, StaffingStep, AssignManagers, ReplaceManagers, RemoveManager, SwitchRole, vars

LEMMA TrackInvariance == Spec => [](IInv /\ TrackInv)
<1>1. Init => TrackInv
  BY DEF Init, TrackInv, Tracked
<1> QED BY <1>1, InvInit, InvNext, TrackNext, PTL DEF Spec

\* Every tenant with a visit has a tracker that points at a visit of that tenant,
\* and shows VISIT_SCHEDULED only with one that was accepted.
THEOREM TrackerCorrect == Spec => []TrackerFollowsVisit
BY TrackInvariance, TrackMeans, PTL

\* Whether an approval made an agreement or found one, the approved tenant's
\* tracker points at an agreement of that tenant.
THEOREM ApprovalCorrect == Spec => []ApprovedHasAgreement
BY TrackInvariance, TrackMeans, PTL

-----------------------------------------------------------------------------
(***************************************************************************)
(* What an acceptance does to the tracker, and who hears of a turn.        *)
(***************************************************************************)

\* Accepting finds the tracker row there already, and advances it from its early
\* states only.
LEMMA ConfirmedKeepsTracker ==
    ASSUME IInv, TrackInv, [Next]_vars, NEW v \in Visits, Made(v),
           visit[v].status # "CONFIRMED", visit'[v].status = "CONFIRMED",
           workflow[visit[v].tenant_id].state \notin EarlyState
    PROVE  workflow'[visit[v].tenant_id].state = workflow[visit[v].tenant_id].state
<1> DEFINE t == visit[v].tenant_id
<1>1. PICK u \in Users : Accept(u, v)
  BY OnlyAcceptConfirms DEF Made
<1>2. t \in Users /\ workflow \in [Users -> WorkflowRow \cup {NULL}]
  BY OfOneVisit DEF Made, VisitRow, IInv, TypeOK
<1>3. workflow[t] # NULL /\ workflow[t] \in WorkflowRow
  BY <1>2 DEF TrackInv, Tracked, VisitTracked, Made
<1>4. workflow'[t] = MarkVisitScheduled(workflow[t], v)
  BY <1>1, <1>2, <1>3 DEF Accept, GetOrCreate
<1> QED BY <1>3, <1>4, ScheduledRow

\* An accepted visit never moves the tracker of its tenant back.
THEOREM TrackerNotMovedBack == Spec => ConfirmNeverRegressesTracker
<1>1. IInv /\ TrackInv /\ [Next]_vars =>
        [\A v \in Visits :
            Made(v) /\ visit[v].status # "CONFIRMED" /\ visit'[v].status = "CONFIRMED" =>
                LET t == visit[v].tenant_id IN
                workflow[t].state \notin EarlyState =>
                    workflow'[t].state = workflow[t].state]_vars
  BY ConfirmedKeepsTracker
<1> QED BY <1>1, TrackInvariance, PTL DEF Spec, ConfirmNeverRegressesTracker

\* Whoever hands a turn over is on the other side, so that leaving the actor out
\* leaves out nobody the turn is with.
LEMMA TurnReaches ==
    ASSUME TypeOK, NEW row \in VisitRow, NEW u \in Users, NEW role \in ProposalRole,
           u = row.tenant_id <=> role = "TENANT",
           row.pending_with = FlipSide(role, Counterparty)
    PROVE  TurnHolders(row) \subseteq Recipients(row, u)
<1>1. CASE role = "TENANT"
  <2>1. row.pending_with = Counterparty /\ u = row.tenant_id
    BY <1>1 DEF FlipSide
  <2>2. CASE Counterparty = "MANAGER"
    BY <2>1, <2>2 DEF TurnHolders, Recipients, CounterpartyRecipients, StaffRole
  <2>3. CASE Counterparty = "SUPER_ADMIN"
    BY <2>1, <2>3 DEF TurnHolders, Recipients, CounterpartyRecipients, StaffRole
  <2> QED BY <2>2, <2>3, CounterpartyTyped DEF StaffRole
<1>2. CASE role # "TENANT"
  BY <1>2 DEF FlipSide, TurnHolders, Recipients
<1> QED BY <1>1, <1>2

LEMMA NobodysTurn ==
    ASSUME NEW row, row.pending_with = NULL
    PROVE  TurnHolders(row) = {}
BY NullIsNoValue DEF TurnHolders, UserRole

LEMMA AnnouncedStep ==
    ASSUME IInv, [Next]_vars, NEW w \in Visits, visit'[w] # NULL, visit'[w] # visit[w]
    PROVE  TurnHolders(visit'[w]) \subseteq notified'
<1>0. TypeOK
  BY DEF IInv
<1>1. NegotiationStep
  BY DEF Next, StaffingStep, AssignManagers, ReplaceManagers, RemoveManager, SwitchRole, vars
<1>2. ASSUME NEW t \in Users, NEW v \in Visits, NEW p \in Proposals, NEW s \in Slots,
             Create(t, v, p, s)
      PROVE  TurnHolders(visit'[w]) \subseteq notified'
  <2>1. w = v
    BY <1>0, <1>2, OtherVisitsKept
  <2>2. visit'[w] = NewVisit(t, p, Counterparty)
    BY <1>0, <1>2, <2>1 DEF Create, TypeOK
  <2>3. visit'[w].pending_with = Counterparty /\ visit'[w].tenant_id = t
    BY <2>2 DEF NewVisit
  <2>4. notified' = CounterpartyRecipients(Counterparty, t)
    BY <1>2 DEF Create
  <2>5. CASE Counterparty = "MANAGER"
    BY <2>3, <2>4, <2>5 DEF TurnHolders, CounterpartyRecipients
  <2>6. CASE Counterparty = "SUPER_ADMIN"
    BY <2>3, <2>4, <2>6 DEF TurnHolders, CounterpartyRecipients
  <2> QED BY <2>5, <2>6, CounterpartyTyped DEF StaffRole
<1>3. ASSUME NEW u \in Users, NEW v \in Visits, NEW p \in Proposals, NEW s \in Slots,
             Propose(u, v, p, s) \/ Reschedule(u, v, p, s)
      PROVE  TurnHolders(visit'[w]) \subseteq notified'
  <2> DEFINE role == RoleIn(v, u)
  <2>1. w = v
    BY <1>0, <1>3, OtherVisitsKept
  <2>2. /\ visit[v] # NULL /\ visit[v] \in VisitRow
        /\ role \in ProposalRole
        /\ u = visit[v].tenant_id <=> role = "TENANT"
    BY <1>0, <1>3, RoleInTyped
    DEF Propose, CanPropose, HasTurn, Reschedule, CanReschedule, TypeOK
  <2>3. \/ visit'[v] = Proposed(visit[v], u, role, p, Counterparty)
        \/ visit'[v] = Rescheduled(visit[v], role, p, Counterparty)
    BY <1>0, <1>3 DEF Propose, Reschedule, TypeOK
  <2> HIDE DEF role
  <2>4. /\ visit'[v] \in VisitRow
        /\ visit'[v].tenant_id = visit[v].tenant_id
        /\ visit'[v].pending_with = FlipSide(role, Counterparty)
    BY <2>2, <2>3, ProposedRow, RescheduledRow, CounterpartyTyped
  <2>5. notified' = Recipients(visit'[v], u)
    BY <1>3 DEF Propose, Reschedule
  <2> QED BY <1>0, <2>1, <2>2, <2>4, <2>5, TurnReaches
<1>4. ASSUME NEW u \in Users, NEW v \in Visits,
             \/ Accept(u, v) \/ Reject(u, v) \/ Cancel(u, v)
             \/ CompleteRejecting(u, v) \/ CompleteApprovingAgain(u, v)
             \/ \E g \in Agreements : CompleteApproving(u, v, g)
      PROVE  TurnHolders(visit'[w]) \subseteq notified'
  <2>1. w = v
    BY <1>0, <1>4, OtherVisitsKept
  <2>2. visit[v] # NULL
    BY <1>4 DEF Accept, Reject, Cancel, CompleteRejecting, CompleteApprovingAgain,
       CompleteApproving
  <2>3. visit[v] \in VisitRow /\ Consistent(visit[v], proposal[Current(v)])
    BY <2>2, OfOneVisit
  <2>4. CASE Accept(u, v) \/ Reject(u, v) \/ Cancel(u, v)
    <3>1. visit'[v].pending_with = NULL
      BY <1>0, <2>2, <2>3, <2>4
      DEF Accept, Accepted, Reject, Rejected, Cancel, Cancelled, TypeOK, VisitRow
    <3> QED BY <2>1, <3>1, NobodysTurn
  <2>5. CASE \/ CompleteRejecting(u, v) \/ CompleteApprovingAgain(u, v)
             \/ \E g \in Agreements : CompleteApproving(u, v, g)
    <3>1. PICK ok \in BOOLEAN : visit'[v] = Completed(visit[v], ok)
      BY <1>0, <2>5
      DEF CompleteRejecting, CompleteApprovingAgain, CompleteApproving, TypeOK
    <3>2. visit[v].status # "NEGOTIATING"
      BY <2>5 DEF CompleteRejecting, CompleteApprovingAgain, CompleteApproving, CanComplete
    <3>3. visit'[v].pending_with = NULL
      BY <2>3, <3>1, <3>2, CompletedRow DEF Consistent
    <3> QED BY <2>1, <3>3, NobodysTurn
  <2> QED BY <1>4, <2>4, <2>5
<1> QED BY <1>1, <1>2, <1>3, <1>4 DEF NegotiationStep

\* Whenever a turn is handed over and there is somebody to take it, all of them
\* are told, whoever has handed it over and whoever else that user is.
THEOREM TurnsAreAnnounced == Spec => TurnHandedOverIsAnnounced
<1>1. IInv /\ [Next]_vars =>
        [\A v \in Visits :
            /\ visit'[v] # NULL
            /\ visit'[v] # visit[v]
            /\ TurnHolders(visit'[v]) # {}
            => notified' \cap TurnHolders(visit'[v]) # {}]_vars
  BY AnnouncedStep
<1> QED BY <1>1, Invariance, PTL DEF Spec, TurnHandedOverIsAnnounced
=============================================================================
