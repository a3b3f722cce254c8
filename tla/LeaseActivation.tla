--------------------------- MODULE LeaseActivation ---------------------------
(***************************************************************************)
(* From an approved visit to a tenant living in the property: the          *)
(* agreement (app/services/agreement_service.py), its advance payment      *)
(* (payment_service.py), the onboarding tracker with its document          *)
(* checklist (onboarding_workflow_service.py) and the property's tenant    *)
(* with the occupancy history (property_service.py), for one property.     *)
(*                                                                         *)
(* Visits appear only as the marks they leave on the tracker and the       *)
(* agreement an approval generates (VisitStep).  Onboarding runs them      *)
(* together with the visits themselves and shows that those leave no other *)
(* marks.                                                                  *)
(*                                                                         *)
(* An action is a whole committed request; one that raises is rolled back. *)
(* Which manager or super-admin acts for the staff makes no difference.    *)
(***************************************************************************)
EXTENDS OnboardingRules, LeaseRules, Naturals

CONSTANTS Users, Tenants,       \* all users, and those with the tenant role
          Owner,                \* the property's owner
          Visits, Agreements, Payments,
          Documents,            \* the checklist documents handled
          MaxStays              \* bound on a user's open occupancy records

ASSUME LeaseConstants ==
    /\ Tenants \subseteq Users
    /\ Documents \subseteq {"police", "original"}
    /\ MaxStays \in Nat

VARIABLES
    workflow,    \* property_onboarding_workflows: tenant -> row or NULL
    agreement,   \* agreements: id -> row, NULL when not inserted
    payment,     \* payments, the advances: id -> row, NULL when not inserted
    occupant,    \* properties.tenant_id
    openStays    \* property_occupancy_history: user -> records without end_date

vars == <<workflow, agreement, payment, occupant, openStays>>

WorkflowRow  == WorkflowRows(Visits, Agreements)
AgreementRow == AgreementRows(Users, Payments)
PaymentRow   == PaymentRows(Users)

\* NULL is no identifier, user or row.
ASSUME LeaseNullIsNoValue ==
    /\ NULL \notin Users \cup Visits \cup Agreements \cup Payments
    /\ NULL \notin WorkflowRow
    /\ NULL \notin AgreementRow
    /\ NULL \notin PaymentRow

TypeOK ==
    /\ workflow \in [Users -> WorkflowRow \cup {NULL}]
    /\ agreement \in [Agreements -> AgreementRow \cup {NULL}]
    /\ payment \in [Payments -> PaymentRow \cup {NULL}]
    /\ occupant \in Users \cup {NULL}
    /\ openStays \in [Users -> 0..MaxStays]

-----------------------------------------------------------------------------
(***************************************************************************)
(* Looking rows up.                                                        *)
(***************************************************************************)
BlockingAgreementsOf(t) ==
    {g \in Agreements : agreement[g] # NULL /\ agreement[g].tenant_id = t
                        /\ Blocks(agreement[g])}

\* Mutation: the tenant's tracker is marked, whichever agreement it points at.
TrackedByTenant(g) ==
    {t \in Users : workflow[t] # NULL /\ t = agreement[g].tenant_id}

\* _get_by_agreement: the tracker rows that point at agreement g.
TrackedBy(g) == {t \in Users : workflow[t] # NULL /\ workflow[t].agreement_id = g}

\* The agreements whose deposit is payment p.
DepositOf(p) ==
    {g \in Agreements : agreement[g] # NULL /\ agreement[g].deposit_payment_id = p}

\* scalar_one_or_none raises on more than one row.
OneOrNone(S) == \A a, b \in S : a = b

-----------------------------------------------------------------------------
Init ==
    /\ workflow = [t \in Users |-> NULL]
    /\ agreement = [g \in Agreements |-> NULL]
    /\ payment = [p \in Payments |-> NULL]
    /\ occupant = NULL
    /\ openStays = [t \in Users |-> 0]

(***************************************************************************)
(* What the visits leave behind.                                           *)
(***************************************************************************)
VisitBooked(t, v) ==
    /\ workflow' = [workflow EXCEPT ![t] = MarkVisitBooked(GetOrCreate(@), v)]
    /\ UNCHANGED <<agreement, payment, occupant, openStays>>

VisitConfirmed(t, v) ==
    /\ workflow[t] # NULL
    /\ workflow' = [workflow EXCEPT ![t] = MarkVisitScheduled(@, v)]
    /\ UNCHANGED <<agreement, payment, occupant, openStays>>

VisitTurnedDown(t, v) ==
    /\ workflow[t] # NULL
    /\ workflow' = [workflow EXCEPT ![t] = MarkVisitResult(@, v, FALSE)]
    /\ UNCHANGED <<agreement, payment, occupant, openStays>>

VisitApproved(t, v, g) ==
    /\ workflow[t] # NULL
    /\ BlockingAgreementsOf(t) = {}
    /\ agreement[g] = NULL
    /\ agreement' = [agreement EXCEPT ![g] = NewAgreement(t)]
    /\ workflow' = [workflow EXCEPT ![t] =
                        MarkAgreementGenerated(MarkVisitResult(
                            MarkAgreementGenerated(@, g), v, TRUE), g)]
    /\ UNCHANGED <<payment, occupant, openStays>>

VisitStep ==
    \E t \in Tenants, v \in Visits :
        \/ VisitBooked(t, v) \/ VisitConfirmed(t, v) \/ VisitTurnedDown(t, v)
        \/ \E g \in Agreements : VisitApproved(t, v, g)

-----------------------------------------------------------------------------
(***************************************************************************)
(* Signing and paying.                                                     *)
(***************************************************************************)

\* sign_agreement by the owner, before the tenant.
SignFirst(u, g) ==
    /\ agreement[g] # NULL
    /\ CanSign(agreement[g], u, Owner)
    /\ ~ Signed(agreement[g], u).tenant_signature
    /\ agreement' = [agreement EXCEPT ![g] = Signed(@, u)]
    /\ UNCHANGED <<workflow, payment, occupant, openStays>>

\* sign_agreement that leaves the tenant's signature: the advance p is owed.
SignAndOwe(u, g, p) ==
    /\ agreement[g] # NULL
    /\ CanSign(agreement[g], u, Owner)
    /\ Signed(agreement[g], u).tenant_signature
    /\ payment[p] = NULL
    /\ OneOrNone(TrackedBy(g))
    /\ agreement' = [agreement EXCEPT ![g] = Owing(Signed(@, u), p)]
    /\ payment' = [payment EXCEPT ![p] = NewAdvance(agreement[g].tenant_id)]
    /\ workflow' = [t \in Users |-> IF t \in TrackedBy(g)
                        THEN MarkTenantSigned(workflow[t]) ELSE workflow[t]]
    /\ UNCHANGED <<occupant, openStays>>

\* tenant_upload_receipt
UploadReceipt(p) ==
    /\ payment[p] # NULL
    /\ CanUpload(payment[p])
    /\ payment' = [payment EXCEPT ![p] = PaymentNow(@, "AWAITING_VERIFICATION")]
    /\ workflow' = [t \in Users |-> IF t = payment[p].tenant_id /\ workflow[t] # NULL
                        THEN MarkAdvanceSubmitted(workflow[t]) ELSE workflow[t]]
    /\ UNCHANGED <<agreement, occupant, openStays>>

\* What activating agreement g writes, besides the payment.
Activate(g) ==
    /\ OneOrNone(TrackedBy(g))
    /\ agreement' = [agreement EXCEPT ![g] = Activated(@)]
    /\ occupant' = agreement[g].tenant_id
    /\ workflow' = [t \in Users |-> IF t \in TrackedBy(g)
                        THEN MarkAdvanceApproved(workflow[t]) ELSE workflow[t]]

\* The agreement _activate_agreement_for_payment has still to activate.
ToActivate(p) == {g \in DepositOf(p) : agreement[g].status = "AWAITING_PAYMENT"}

\* admin_verify_payment(approve = True): any payment, whatever its status.
VerifyPayment(p) ==
    /\ payment[p] # NULL
    /\ OneOrNone(DepositOf(p))
    /\ payment' = [payment EXCEPT ![p] = PaymentNow(@, "PAID")]
    /\ \/ ToActivate(p) = {} /\ UNCHANGED <<agreement, occupant, workflow>>
       \/ \E g \in ToActivate(p) : Activate(g)
    /\ UNCHANGED openStays

\* admin_verify_payment(approve = False): any payment, whatever its status.
RejectReceipt(p) ==
    /\ payment[p] # NULL
    /\ payment' = [payment EXCEPT ![p] = PaymentNow(@, "REJECTED")]
    /\ UNCHANGED <<workflow, agreement, occupant, openStays>>

\* admin_mark_paid on its own: the agreement is not looked at.
MarkPaid(p) ==
    /\ payment[p] # NULL
    /\ CanMarkPaid(payment[p])
    /\ payment' = [payment EXCEPT ![p] = PaymentNow(@, "PAID")]
    /\ UNCHANGED <<workflow, agreement, occupant, openStays>>

\* Mutation: the advance is confirmed without being recorded as paid.
ConfirmAdvanceUnpaid(g) ==
    /\ agreement[g] # NULL
    /\ agreement[g].status = "AWAITING_PAYMENT"
    /\ Activate(g)
    /\ UNCHANGED <<payment, openStays>>

\* admin_confirm_advance: fails as a whole when the deposit is paid already.
ConfirmAdvance(g) ==
    /\ agreement[g] # NULL
    /\ agreement[g].status = "AWAITING_PAYMENT"
    /\ LET p == agreement[g].deposit_payment_id IN
       \/ p = NULL /\ UNCHANGED payment
       \/ /\ p # NULL
          /\ CanMarkPaid(payment[p])
          /\ payment' = [payment EXCEPT ![p] = PaymentNow(@, "PAID")]
    /\ Activate(g)
    /\ UNCHANGED openStays

-----------------------------------------------------------------------------
(***************************************************************************)
(* The document checklist, cancelling, and the tenancy itself.             *)
(***************************************************************************)
Submit(t, doc) ==
    /\ workflow[t] # NULL
    /\ workflow' = [workflow EXCEPT ![t] =
                        IF doc = "police" THEN SubmitPolice(@) ELSE SubmitOriginal(@)]
    /\ UNCHANGED <<agreement, payment, occupant, openStays>>

\* The review asks for a document, not for a submission still open.
Review(t, doc, approve) ==
    /\ workflow[t] # NULL
    /\ IF doc = "police" THEN workflow[t].police_doc ELSE workflow[t].original_doc
    /\ workflow' = [workflow EXCEPT ![t] =
                        IF doc = "police" THEN ReviewPolice(@, approve)
                        ELSE ReviewOriginal(@, approve)]
    /\ UNCHANGED <<agreement, payment, occupant, openStays>>

CancelOnboarding(t) ==
    /\ workflow[t] # NULL
    /\ CanCancelWorkflow(workflow[t])
    /\ workflow' = [workflow EXCEPT ![t] = CancelWorkflow(@)]
    /\ UNCHANGED <<agreement, payment, occupant, openStays>>

\* Nobody checks that the user assigned holds the tenant role.
AssignTenant(u) ==
    /\ occupant = NULL
    /\ openStays[u] < MaxStays
    /\ occupant' = u
    /\ openStays' = [openStays EXCEPT ![u] = @ + 1]
    /\ UNCHANGED <<workflow, agreement, payment>>

\* The open occupancy record is closed, if there is one; two make it fail.
RemoveTenant ==
    /\ occupant # NULL
    /\ openStays[occupant] <= 1
    /\ occupant' = NULL
    /\ openStays' = [openStays EXCEPT ![occupant] = 0]
    /\ UNCHANGED <<workflow, agreement, payment>>

LeaseStep ==
    \/ \E u \in Users, g \in Agreements :
            SignFirst(u, g) \/ \E p \in Payments : SignAndOwe(u, g, p)
    \/ \E p \in Payments :
            UploadReceipt(p) \/ VerifyPayment(p) \/ RejectReceipt(p) \/ MarkPaid(p)
    \/ \E g \in Agreements : ConfirmAdvance(g)
    \/ \E t \in Tenants, doc \in Documents :
            Submit(t, doc) \/ \E approve \in BOOLEAN : Review(t, doc, approve)
    \/ \E t \in Tenants : CancelOnboarding(t)
    \/ \E u \in Users : AssignTenant(u)
    \/ RemoveTenant

Next == VisitStep \/ LeaseStep

Spec == Init /\ [][Next]_vars

-----------------------------------------------------------------------------
(***************************************************************************)
(* Safety.                                                                 *)
(***************************************************************************)

\* Agreements and advances correspond: an agreement the tenant has signed, and
\* only such, has an advance; every advance is the deposit of one agreement, of
\* the same tenant.  Signing twice, or the owner signing late, would break it
\* (sign_agreement creates a payment on every call that gets so far).
AdvancePerSignedAgreement ==
    /\ \A g \in Agreements : agreement[g] # NULL =>
         /\ agreement[g].tenant_signature <=> agreement[g].deposit_payment_id # NULL
         /\ agreement[g].tenant_signature
                <=> agreement[g].status \in {"AWAITING_PAYMENT", "ACTIVE"}
    /\ \A p \in Payments : payment[p] # NULL =>
         \E g \in Agreements :
            /\ DepositOf(p) = {g}
            /\ agreement[g].tenant_id = payment[p].tenant_id

\* The tracker's advance gate, which no operation closes again, is true of the
\* agreement the tracker points at, although another approval may repoint it:
\* that agreement is the tenant's and is active.
GateMatchesAgreement ==
    \A t \in Users : workflow[t] # NULL =>
        LET w == workflow[t] IN
        /\ w.agreement_id # NULL =>
             /\ agreement[w.agreement_id] # NULL
             /\ agreement[w.agreement_id].tenant_id = t
        /\ w.advance_approved =>
             /\ w.agreement_id # NULL
             /\ agreement[w.agreement_id].status = "ACTIVE"

\* What the tracker displays is so, although six services overwrite its state:
\* AGREEMENT_GENERATED means there is one for the tenant to sign, TENANT_SIGNED
\* that it is signed, ADVANCE_APPROVED that it is active, TENANT_ACTIVATED that
\* the advance gate is open.
TrackerTellsTruth ==
    \A t \in Users : workflow[t] # NULL =>
        LET w == workflow[t]
            a == agreement[w.agreement_id] IN
        /\ w.state = "AGREEMENT_GENERATED" =>
               w.agreement_id # NULL /\ ~ a.tenant_signature
        /\ w.state = "TENANT_SIGNED" =>
               w.agreement_id # NULL /\ a.tenant_signature
        /\ w.state \in {"ADVANCE_APPROVED", "TENANT_ACTIVATED"} =>
               w.agreement_id # NULL /\ a.status = "ACTIVE"

\* Whichever of the three approvals comes last activates the tenant: no tracker
\* is left with every gate approved and the tenant never activated ("Whichever
\* of {advance, police, original-agreement} is approved last is the one that
\* completes the workflow", mark_advance_approved).
LastApprovalActivates ==
    \A t \in Users : workflow[t] # NULL =>
        LET w == workflow[t] IN
        w.advance_approved /\ w.police = "APPROVED" /\ w.original = "APPROVED"
            => w.tenant_activated

\* An agreement the tenant has yet to sign is the one the tenant's tracker points
\* at, so there never are two to sign, however many visits are approved and
\* whatever became of the earlier agreements (the check in
\* auto_generate_agreement, made once per approval).
OneAgreementToSign ==
    \A g \in Agreements :
        agreement[g] # NULL /\ ~ agreement[g].tenant_signature =>
            LET w == workflow[agreement[g].tenant_id] IN
            w # NULL /\ w.agreement_id = g

\* An agreement becomes active only in the request that finds its advance paid
\* or makes it so, and with it the tenant is the property's.
ActivationIsPaid ==
    [][\A g \in Agreements :
        /\ agreement'[g] # agreement[g]
        /\ agreement'[g] # NULL
        /\ agreement'[g].status = "ACTIVE"
        => /\ payment'[agreement'[g].deposit_payment_id].status = "PAID"
           /\ occupant' = agreement'[g].tenant_id
      ]_vars

-----------------------------------------------------------------------------
(***************************************************************************)
(* What texts of the repository say and the code does not keep.            *)
(***************************************************************************)

\* "Property already has a tenant. Remove the current tenant first."
\* (assign_tenant): a tenant is never replaced by another without removal.
TenantIsRemovedFirst ==
    [][occupant # NULL /\ occupant' # NULL => occupant' = occupant]_vars

\* "Remove the current tenant and close the occupancy history record."
\* (remove_tenant): there is at most one to close, so removal does not fail.
OneRecordToClose == occupant # NULL => openStays[occupant] <= 1
=============================================================================
