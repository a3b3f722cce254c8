------------------------- MODULE LeaseActivationProofs -------------------------
(***************************************************************************)
(* Proofs about LeaseActivation, for every set of users, visits,           *)
(* agreements and payments.  Rows and tables are parameters of the         *)
(* definitions below, so that one definition serves before and after a     *)
(* step.                                                                   *)
(***************************************************************************)
EXTENDS LeaseActivation, TLAPS

\* A user, visit, agreement, payment or row is not NULL.
LEMMA NotNull ==
    /\ NULL \notin Users /\ NULL \notin Visits
    /\ NULL \notin Agreements /\ NULL \notin Payments
    /\ NULL \notin WorkflowRow /\ NULL \notin AgreementRow /\ NULL \notin PaymentRow
BY LeaseNullIsNoValue

-----------------------------------------------------------------------------
(***************************************************************************)
(* What the marks do to a tracker row.                                     *)
(***************************************************************************)

\* The states that say something of the agreement.
Telling == {"AGREEMENT_GENERATED", "TENANT_SIGNED", "ADVANCE_APPROVED", "TENANT_ACTIVATED"}

\* x is w after a mark that says nothing of the agreement and approves nothing.
Quiet(w, x) ==
    /\ x \in WorkflowRow
    /\ x.agreement_id = w.agreement_id
    /\ x.advance_approved = w.advance_approved
    /\ x.tenant_activated = w.tenant_activated
    /\ x.police = w.police \/ x.police # "APPROVED"
    /\ x.original = w.original \/ x.original # "APPROVED"
    /\ x.state = w.state \/ x.state \notin Telling

LEMMA QuietVisitMarks ==
    ASSUME NEW w \in WorkflowRow, NEW v \in Visits
    PROVE  /\ Quiet(w, MarkVisitBooked(w, v))
           /\ Quiet(w, MarkVisitScheduled(w, v))
           /\ Quiet(w, MarkVisitResult(w, v, FALSE))
<1>1. Quiet(w, MarkVisitBooked(w, v))
  BY DEF Quiet, Telling, MarkVisitBooked, WorkflowRow, WorkflowRows, WorkflowState
<1>2. Quiet(w, MarkVisitScheduled(w, v))
  BY DEF Quiet, Telling, MarkVisitScheduled, WorkflowRow, WorkflowRows, WorkflowState
<1>3. Quiet(w, MarkVisitResult(w, v, FALSE))
  BY DEF Quiet, Telling, MarkVisitResult, WorkflowRow, WorkflowRows, WorkflowState
<1>4. QED
  BY <1>1, <1>2, <1>3

LEMMA QuietLeaseMarks ==
    ASSUME NEW w \in WorkflowRow
    PROVE  /\ Quiet(w, MarkAdvanceSubmitted(w))
           /\ Quiet(w, SubmitPolice(w)) /\ Quiet(w, SubmitOriginal(w))
           /\ Quiet(w, ReviewPolice(w, FALSE)) /\ Quiet(w, ReviewOriginal(w, FALSE))
           /\ Quiet(w, CancelWorkflow(w))
<1> USE DEF Quiet, Telling, WorkflowRow, WorkflowRows
<1>1. Quiet(w, MarkAdvanceSubmitted(w))
  BY DEF MarkAdvanceSubmitted, WorkflowState
<1>2. Quiet(w, SubmitPolice(w)) /\ Quiet(w, SubmitOriginal(w))
  BY DEF SubmitPolice, SubmitOriginal, ChecklistStatus
<1>3. Quiet(w, ReviewPolice(w, FALSE)) /\ Quiet(w, ReviewOriginal(w, FALSE))
  BY DEF ReviewPolice, ReviewOriginal, ChecklistStatus
<1>4. Quiet(w, CancelWorkflow(w))
  BY DEF CancelWorkflow, WorkflowState
<1>5. QED
  BY <1>1, <1>2, <1>3, <1>4

LEMMA NewWorkflowRow ==
    /\ NewWorkflow \in WorkflowRow
    /\ NewWorkflow.agreement_id = NULL
    /\ NewWorkflow.advance_approved = FALSE
    /\ NewWorkflow.state = "VISIT_REQUESTED"
BY DEF NewWorkflow, WorkflowRow, WorkflowRows, WorkflowState, ChecklistStatus

\* All three gates are approved.
Gates(w) == w.advance_approved /\ w.police = "APPROVED" /\ w.original = "APPROVED"

LEMMA TryActivateRow ==
    ASSUME NEW w \in WorkflowRow
    PROVE  LET new == TryActivateTenant(w) IN
           /\ new \in WorkflowRow
           /\ new.agreement_id = w.agreement_id
           /\ new.advance_approved = w.advance_approved
           /\ Gates(new) => new.tenant_activated
           /\ \/ new.state = w.state
              \/ new.state = "TENANT_ACTIVATED" /\ w.advance_approved
<1>1. CASE Gates(w)
  <2>1. TryActivateTenant(w) = [w EXCEPT !.state = "TENANT_ACTIVATED", !.tenant_activated = TRUE]
    BY <1>1 DEF TryActivateTenant, Gates
  <2>2. QED
    BY <1>1, <2>1 DEF Gates, WorkflowRow, WorkflowRows, WorkflowState
<1>2. CASE ~ Gates(w)
  <2>1. TryActivateTenant(w) = w
    BY <1>2 DEF TryActivateTenant, Gates
  <2>2. ~ Gates(TryActivateTenant(w))
    BY <1>2, <2>1
  <2>3. QED
    BY <2>1, <2>2
<1>3. QED
  BY <1>1, <1>2

\* x is w after the approval of a document.
Approving(w, x) ==
    /\ x \in WorkflowRow
    /\ x.agreement_id = w.agreement_id
    /\ x.advance_approved = w.advance_approved
    /\ Gates(x) => x.tenant_activated
    /\ x.state \in Telling => x.state = "TENANT_ACTIVATED" /\ w.advance_approved

LEMMA ReviewRow ==
    ASSUME NEW w \in WorkflowRow
    PROVE  Approving(w, ReviewPolice(w, TRUE)) /\ Approving(w, ReviewOriginal(w, TRUE))
<1>1. Approving(w, ReviewPolice(w, TRUE))
  <2> DEFINE mid == [w EXCEPT !.police = "APPROVED", !.state = "POLICE_VERIFICATION_COMPLETED"]
  <2>1. /\ mid \in WorkflowRow /\ mid.agreement_id = w.agreement_id
        /\ mid.advance_approved = w.advance_approved
        /\ mid.state = "POLICE_VERIFICATION_COMPLETED"
    BY DEF WorkflowRow, WorkflowRows, WorkflowState, ChecklistStatus
  <2>2. ReviewPolice(w, TRUE) = TryActivateTenant(mid)
    BY DEF ReviewPolice
  <2> HIDE DEF mid
  <2>3. QED
    BY <2>1, <2>2, TryActivateRow DEF Approving, Telling
<1>2. Approving(w, ReviewOriginal(w, TRUE))
  <2> DEFINE mid == [w EXCEPT !.original = "APPROVED", !.state = "ORIGINAL_AGREEMENT_UPLOADED"]
  <2>1. /\ mid \in WorkflowRow /\ mid.agreement_id = w.agreement_id
        /\ mid.advance_approved = w.advance_approved
        /\ mid.state = "ORIGINAL_AGREEMENT_UPLOADED"
    BY DEF WorkflowRow, WorkflowRows, WorkflowState, ChecklistStatus
  <2>2. ReviewOriginal(w, TRUE) = TryActivateTenant(mid)
    BY DEF ReviewOriginal
  <2> HIDE DEF mid
  <2>3. QED
    BY <2>1, <2>2, TryActivateRow DEF Approving, Telling
<1>3. QED
  BY <1>1, <1>2

LEMMA AdvanceApprovedRow ==
    ASSUME NEW w \in WorkflowRow
    PROVE  LET new == MarkAdvanceApproved(w) IN
           /\ new \in WorkflowRow
           /\ new.agreement_id = w.agreement_id
           /\ Gates(new) => new.tenant_activated
           /\ new.state \in {"ADVANCE_APPROVED", "TENANT_ACTIVATED"}
<1> DEFINE mid == [w EXCEPT !.state = "ADVANCE_APPROVED", !.advance_approved = TRUE]
<1>1. /\ mid \in WorkflowRow /\ mid.agreement_id = w.agreement_id
      /\ mid.state = "ADVANCE_APPROVED"
  BY DEF WorkflowRow, WorkflowRows, WorkflowState
<1>2. MarkAdvanceApproved(w) = TryActivateTenant(mid)
  BY DEF MarkAdvanceApproved
<1> HIDE DEF mid
<1>3. QED
  BY <1>1, <1>2, TryActivateRow

LEMMA TenantSignedRow ==
    ASSUME NEW w \in WorkflowRow
    PROVE  LET new == MarkTenantSigned(w) IN
           /\ new \in WorkflowRow
           /\ new.agreement_id = w.agreement_id
           /\ new.advance_approved = w.advance_approved
           /\ new.tenant_activated = w.tenant_activated
           /\ new.police = w.police /\ new.original = w.original
           /\ new.state = "TENANT_SIGNED"
BY DEF MarkTenantSigned, WorkflowRow, WorkflowRows, WorkflowState

LEMMA ApprovedRow ==
    ASSUME NEW w \in WorkflowRow, NEW v \in Visits, NEW g \in Agreements
    PROVE  LET new == MarkAgreementGenerated(MarkVisitResult(
                        MarkAgreementGenerated(w, g), v, TRUE), g) IN
           /\ new \in WorkflowRow
           /\ new.agreement_id = g
           /\ new.advance_approved = w.advance_approved
           /\ new.tenant_activated = w.tenant_activated
           /\ new.police = w.police /\ new.original = w.original
           /\ new.state = "AGREEMENT_GENERATED"
BY DEF MarkAgreementGenerated, MarkVisitResult, WorkflowRow, WorkflowRows, WorkflowState

-----------------------------------------------------------------------------
(***************************************************************************)
(* What signing, paying and activating do to agreements and payments.      *)
(***************************************************************************)
LEMMA NewAgreementRow ==
    ASSUME NEW t \in Users
    PROVE  LET new == NewAgreement(t) IN
           /\ new \in AgreementRow
           /\ new.tenant_id = t
           /\ new.status = "AWAITING_SIGNATURE"
           /\ new.tenant_signature = FALSE
           /\ new.deposit_payment_id = NULL
BY DEF NewAgreement, AgreementRow, AgreementRows, AgreementStatus

\* The owner signs first.
LEMMA SignedFirstRow ==
    ASSUME NEW row \in AgreementRow, NEW u \in Users,
           CanSign(row, u, Owner), ~ Signed(row, u).tenant_signature
    PROVE  LET new == Signed(row, u) IN
           /\ new \in AgreementRow
           /\ new.tenant_id = row.tenant_id
           /\ new.status = row.status /\ new.status \in {"AWAITING_SIGNATURE", "SIGNED"}
           /\ new.tenant_signature = row.tenant_signature
           /\ new.deposit_payment_id = row.deposit_payment_id
BY DEF CanSign, Signed, AgreementRow, AgreementRows, AgreementStatus

\* With the tenant's signature.
LEMMA OwingRow ==
    ASSUME NEW row \in AgreementRow, NEW u \in Users, NEW p \in Payments,
           CanSign(row, u, Owner), Signed(row, u).tenant_signature
    PROVE  LET new == Owing(Signed(row, u), p) IN
           /\ row.status \in {"AWAITING_SIGNATURE", "SIGNED"}
           /\ new \in AgreementRow
           /\ new.tenant_id = row.tenant_id
           /\ new.status = "AWAITING_PAYMENT"
           /\ new.tenant_signature = TRUE
           /\ new.deposit_payment_id = p
BY DEF CanSign, Signed, Owing, AgreementRow, AgreementRows, AgreementStatus

LEMMA ActivatedRow ==
    ASSUME NEW row \in AgreementRow
    PROVE  LET new == Activated(row) IN
           /\ new \in AgreementRow
           /\ new.tenant_id = row.tenant_id
           /\ new.status = "ACTIVE"
           /\ new.tenant_signature = row.tenant_signature
           /\ new.deposit_payment_id = row.deposit_payment_id
BY DEF Activated, AgreementRow, AgreementRows, AgreementStatus

LEMMA NewAdvanceRow ==
    ASSUME NEW t \in Users
    PROVE  NewAdvance(t) \in PaymentRow /\ NewAdvance(t).tenant_id = t
BY DEF NewAdvance, PaymentRow, PaymentRows, PaymentStatus

LEMMA PaymentNowRow ==
    ASSUME NEW row \in PaymentRow, NEW status \in PaymentStatus
    PROVE  LET new == PaymentNow(row, status) IN
           /\ new \in PaymentRow
           /\ new.tenant_id = row.tenant_id
           /\ new.status = status
BY DEF PaymentNow, PaymentRow, PaymentRows

-----------------------------------------------------------------------------
(***************************************************************************)
(* The invariant.  W, A and P are the tables workflow, agreement and       *)
(* payment.  Besides the properties it says that a deposit exists: without *)
(* that, a payment inserted could be the deposit of an older agreement.    *)
(***************************************************************************)

\* The tracker row w of tenant t is true: GateMatchesAgreement,
\* TrackerTellsTruth and LastApprovalActivates, of one row.
Linked(t, w, A) ==
    /\ w.agreement_id # NULL =>
         A[w.agreement_id] # NULL /\ A[w.agreement_id].tenant_id = t
    /\ w.advance_approved =>
         w.agreement_id # NULL /\ A[w.agreement_id].status = "ACTIVE"

Told(w, A) ==
    /\ w.state = "AGREEMENT_GENERATED" =>
         w.agreement_id # NULL /\ ~ A[w.agreement_id].tenant_signature
    /\ w.state = "TENANT_SIGNED" =>
         w.agreement_id # NULL /\ A[w.agreement_id].tenant_signature
    /\ w.state \in {"ADVANCE_APPROVED", "TENANT_ACTIVATED"} =>
         w.agreement_id # NULL /\ A[w.agreement_id].status = "ACTIVE"

RowTrue(t, w, A) == Linked(t, w, A) /\ Told(w, A) /\ (Gates(w) => w.tenant_activated)

TrackersTrue(W, A) == \A t \in Users : W[t] # NULL => RowTrue(t, W[t], A)

AgreementsTrue(A) ==
    \A g \in Agreements : A[g] # NULL =>
        /\ A[g].tenant_signature <=> A[g].deposit_payment_id # NULL
        /\ A[g].tenant_signature <=> A[g].status \in {"AWAITING_PAYMENT", "ACTIVE"}

Deposits(A, p) == {g \in Agreements : A[g] # NULL /\ A[g].deposit_payment_id = p}

AdvancesTrue(A, P) ==
    \A p \in Payments : P[p] # NULL =>
        \E g \in Agreements : Deposits(A, p) = {g} /\ A[g].tenant_id = P[p].tenant_id

DepositsExist(A, P) ==
    \A g \in Agreements :
        A[g] # NULL /\ A[g].deposit_payment_id # NULL => P[A[g].deposit_payment_id] # NULL

OneToSign(A, W) ==
    \A g \in Agreements :
        A[g] # NULL /\ ~ A[g].tenant_signature =>
            W[A[g].tenant_id] # NULL /\ W[A[g].tenant_id].agreement_id = g

Workflows  == [Users -> WorkflowRow \cup {NULL}]
AllAgreements == [Agreements -> AgreementRow \cup {NULL}]
AllPayments == [Payments -> PaymentRow \cup {NULL}]

\* What the three tables of a lease are like.
TablesTrue(W, A, P) ==
    /\ W \in Workflows /\ A \in AllAgreements /\ P \in AllPayments
    /\ TrackersTrue(W, A)
    /\ AgreementsTrue(A)
    /\ AdvancesTrue(A, P)
    /\ DepositsExist(A, P)
    /\ OneToSign(A, W)

Tenancy == occupant \in Users \cup {NULL} /\ openStays \in [Users -> 0..MaxStays]

IInv == TablesTrue(workflow, agreement, payment)

LEMMA IInvMeans ==
    ASSUME IInv
    PROVE  /\ GateMatchesAgreement
           /\ TrackerTellsTruth
           /\ LastApprovalActivates
           /\ AdvancePerSignedAgreement
           /\ OneAgreementToSign
<1>1. TrackersTrue(workflow, agreement) /\ AgreementsTrue(agreement)
      /\ AdvancesTrue(agreement, payment) /\ OneToSign(agreement, workflow)
  BY DEF IInv, TablesTrue
<1>2. GateMatchesAgreement
  BY <1>1 DEF GateMatchesAgreement, TrackersTrue, RowTrue, Linked
<1>3. TrackerTellsTruth
  BY <1>1 DEF TrackerTellsTruth, TrackersTrue, RowTrue, Told
<1>4. LastApprovalActivates
  BY <1>1 DEF LastApprovalActivates, TrackersTrue, RowTrue, Gates
<1>5. AdvancePerSignedAgreement
  BY <1>1 DEF AdvancePerSignedAgreement, AgreementsTrue, AdvancesTrue, Deposits, DepositOf
<1>6. OneAgreementToSign
  BY <1>1 DEF OneAgreementToSign, OneToSign
<1>7. QED
  BY <1>2, <1>3, <1>4, <1>5, <1>6

-----------------------------------------------------------------------------
(***************************************************************************)
(* Rows stay true.                                                         *)
(***************************************************************************)
LEMMA QuietTrue ==
    ASSUME NEW t, NEW w, NEW x, NEW A, RowTrue(t, w, A), Quiet(w, x)
    PROVE  RowTrue(t, x, A)
<1>1. Linked(t, x, A)
  BY DEF RowTrue, Linked, Quiet
<1>2. Told(x, A)
  BY DEF RowTrue, Told, Quiet, Telling
<1>3. Gates(x) => x.tenant_activated
  BY DEF RowTrue, Gates, Quiet
<1>4. QED
  BY <1>1, <1>2, <1>3 DEF RowTrue

LEMMA ApprovingTrue ==
    ASSUME NEW t, NEW w, NEW x, NEW A, RowTrue(t, w, A), Approving(w, x)
    PROVE  RowTrue(t, x, A)
<1>1. Linked(t, x, A)
  BY DEF RowTrue, Linked, Approving
<1>2. Told(x, A)
  BY DEF RowTrue, Linked, Told, Approving, Telling
<1>3. QED
  BY <1>1, <1>2 DEF RowTrue, Approving

\* B is A with some agreements inserted, signed or activated.
Grown(A, B) ==
    \A g \in Agreements : A[g] # NULL =>
        /\ B[g] # NULL
        /\ B[g].tenant_id = A[g].tenant_id
        /\ A[g].tenant_signature => B[g].tenant_signature
        /\ A[g].status = "ACTIVE" => B[g].status = "ACTIVE"

LEMMA GrownTrue ==
    ASSUME NEW t, NEW w \in WorkflowRow, NEW A, NEW B, RowTrue(t, w, A), Grown(A, B),
           w.state = "AGREEMENT_GENERATED" =>
               B[w.agreement_id].tenant_signature = A[w.agreement_id].tenant_signature
    PROVE  RowTrue(t, w, B)
<1>1. w.agreement_id \in Agreements \cup {NULL}
  BY DEF WorkflowRow, WorkflowRows
<1>2. Linked(t, w, B)
  BY <1>1 DEF RowTrue, Linked, Grown
<1>3. Told(w, B)
  BY <1>1 DEF RowTrue, Linked, Told, Grown
<1>4. QED
  BY <1>2, <1>3 DEF RowTrue

-----------------------------------------------------------------------------
(***************************************************************************)
(* Tables stay true.                                                       *)
(***************************************************************************)

\* Trackers that point where they did, and are true.
LEMMA TrackersReplaced ==
    ASSUME NEW W, NEW V, NEW A, NEW P, TablesTrue(W, A, P), V \in Workflows,
           TrackersTrue(V, A),
           \A t \in Users : W[t] # NULL =>
                V[t] # NULL /\ V[t].agreement_id = W[t].agreement_id
    PROVE  TablesTrue(V, A, P)
<1>1. ASSUME NEW g \in Agreements, A[g] # NULL, ~ A[g].tenant_signature
      PROVE  V[A[g].tenant_id] # NULL /\ V[A[g].tenant_id].agreement_id = g
  <2>1. A[g].tenant_id \in Users
    BY <1>1 DEF TablesTrue, AllAgreements, AgreementRow, AgreementRows
  <2>2. W[A[g].tenant_id] # NULL /\ W[A[g].tenant_id].agreement_id = g
    BY <1>1 DEF TablesTrue, OneToSign
  <2>3. QED
    BY <2>1, <2>2
<1>2. OneToSign(A, V)
  BY <1>1 DEF OneToSign
<1>3. QED
  BY <1>2 DEF TablesTrue

\* One tracker row after a mark that changes no agreement.
LEMMA OneMarkTrue ==
    ASSUME NEW W, NEW A, NEW P, TablesTrue(W, A, P), NEW t \in Users, NEW x,
           \/ W[t] # NULL /\ (Quiet(W[t], x) \/ Approving(W[t], x))
           \/ W[t] = NULL /\ Quiet(NewWorkflow, x)
    PROVE  TablesTrue([W EXCEPT ![t] = x], A, P)
<1> DEFINE V == [W EXCEPT ![t] = x]
<1>1. x \in WorkflowRow /\ x # NULL
  BY NotNull DEF Quiet, Approving
<1>2. V \in Workflows /\ \A s \in Users : V[s] = IF s = t THEN x ELSE W[s]
  BY <1>1 DEF TablesTrue, Workflows
<1>3. RowTrue(t, x, A)
  <2>1. CASE W[t] # NULL
    BY <2>1, QuietTrue, ApprovingTrue DEF TablesTrue, TrackersTrue
  <2>2. CASE W[t] = NULL
    <3>1. RowTrue(t, NewWorkflow, A)
      BY NewWorkflowRow DEF RowTrue, Linked, Told, Gates
    <3>2. QED
      BY <2>2, <3>1, QuietTrue
  <2>3. QED
    BY <2>1, <2>2
<1> HIDE DEF V
<1>4. TrackersTrue(V, A)
  BY <1>2, <1>3 DEF TablesTrue, TrackersTrue
<1>5. W[t] # NULL => x.agreement_id = W[t].agreement_id
  BY DEF Quiet, Approving
<1>6. \A s \in Users : W[s] # NULL =>
            V[s] # NULL /\ V[s].agreement_id = W[s].agreement_id
  BY <1>1, <1>2, <1>5
<1>7. TablesTrue(V, A, P)
  BY <1>2, <1>4, <1>6, TrackersReplaced
<1>8. QED
  BY <1>7 DEF V

\* Payments that stay the same tenants' (their status is free).
LEMMA PaymentsTrue ==
    ASSUME NEW W, NEW A, NEW P, NEW Q, TablesTrue(W, A, P), Q \in AllPayments,
           \A p \in Payments : Q[p] = NULL <=> P[p] = NULL,
           \A p \in Payments : P[p] # NULL => Q[p].tenant_id = P[p].tenant_id
    PROVE  TablesTrue(W, A, Q)
<1>1. AdvancesTrue(A, Q)
  BY DEF TablesTrue, AdvancesTrue
<1>2. DepositsExist(A, Q)
  <2> SUFFICES ASSUME NEW g \in Agreements, A[g] # NULL, A[g].deposit_payment_id # NULL
               PROVE  Q[A[g].deposit_payment_id] # NULL
    BY DEF DepositsExist
  <2>1. A[g].deposit_payment_id \in Payments
    BY DEF TablesTrue, AllAgreements, AgreementRow, AgreementRows
  <2>2. P[A[g].deposit_payment_id] # NULL
    BY DEF TablesTrue, DepositsExist
  <2>3. QED
    BY <2>1, <2>2
<1>3. QED
  BY <1>1, <1>2 DEF TablesTrue

\* One payment gets another status.
LEMMA OnePaymentTrue ==
    ASSUME NEW W, NEW A, NEW P, NEW Q, TablesTrue(W, A, P),
           NEW p \in Payments, P[p] # NULL, NEW status \in PaymentStatus,
           Q = [P EXCEPT ![p] = PaymentNow(P[p], status)]
    PROVE  TablesTrue(W, A, Q)
<1>1. P[p] \in PaymentRow
  BY DEF TablesTrue, AllPayments
<1>2. /\ PaymentNow(P[p], status) \in PaymentRow
      /\ PaymentNow(P[p], status).tenant_id = P[p].tenant_id
  BY <1>1, PaymentNowRow
<1>3. Q \in AllPayments
  BY <1>2 DEF TablesTrue, AllPayments
<1>4. \A q \in Payments : Q[q] = IF q = p THEN PaymentNow(P[p], status) ELSE P[q]
  BY DEF TablesTrue, AllPayments
<1>5. PaymentNow(P[p], status) # NULL
  BY <1>2, NotNull
<1>6. \A q \in Payments : Q[q] = NULL <=> P[q] = NULL
  BY <1>4, <1>5
<1>7. \A q \in Payments : P[q] # NULL => Q[q].tenant_id = P[q].tenant_id
  BY <1>2, <1>4
<1>8. QED
  BY <1>3, <1>6, <1>7, PaymentsTrue

\* Agreements with the same tenants, deposits and signatures, some of them activated.
LEMMA ActivatedTrue ==
    ASSUME NEW W, NEW A, NEW B, NEW P, TablesTrue(W, A, P), B \in AllAgreements,
           \A g \in Agreements : B[g] = NULL <=> A[g] = NULL,
           \A g \in Agreements : A[g] # NULL =>
                /\ B[g].tenant_id = A[g].tenant_id
                /\ B[g].tenant_signature = A[g].tenant_signature
                /\ B[g].deposit_payment_id = A[g].deposit_payment_id
                /\ \/ B[g].status = A[g].status
                   \/ A[g].status \in {"AWAITING_SIGNATURE", "SIGNED"}
                      /\ B[g].status \in {"AWAITING_SIGNATURE", "SIGNED"}
                   \/ A[g].status = "AWAITING_PAYMENT" /\ B[g].status = "ACTIVE"
    PROVE  TablesTrue(W, B, P)
<1>1. Grown(A, B)
  BY DEF Grown
<1>2. TrackersTrue(W, B)
  <2> SUFFICES ASSUME NEW t \in Users, W[t] # NULL PROVE RowTrue(t, W[t], B)
    BY DEF TrackersTrue
  <2>1. W[t] \in WorkflowRow /\ RowTrue(t, W[t], A)
    BY DEF TablesTrue, Workflows, TrackersTrue
  <2>2. W[t].agreement_id \in Agreements \cup {NULL}
    BY <2>1 DEF WorkflowRow, WorkflowRows
  <2>3. W[t].state = "AGREEMENT_GENERATED" =>
            B[W[t].agreement_id].tenant_signature = A[W[t].agreement_id].tenant_signature
    BY <2>1, <2>2 DEF RowTrue, Linked, Told
  <2>4. QED
    BY <1>1, <2>1, <2>3, GrownTrue
<1>3. AgreementsTrue(B)
  BY DEF TablesTrue, AgreementsTrue
<1>4. ASSUME NEW p \in Payments PROVE Deposits(B, p) = Deposits(A, p)
  BY DEF Deposits
<1>5. AdvancesTrue(B, P)
  <2> SUFFICES ASSUME NEW p \in Payments, P[p] # NULL
               PROVE  \E g \in Agreements :
                        Deposits(B, p) = {g} /\ B[g].tenant_id = P[p].tenant_id
    BY DEF AdvancesTrue
  <2>1. PICK g \in Agreements : Deposits(A, p) = {g} /\ A[g].tenant_id = P[p].tenant_id
    BY DEF TablesTrue, AdvancesTrue
  <2>2. A[g] # NULL
    BY <2>1 DEF Deposits
  <2>3. QED
    BY <1>4, <2>1, <2>2
<1>6. DepositsExist(B, P) /\ OneToSign(B, W)
  BY DEF TablesTrue, DepositsExist, OneToSign
<1>7. QED
  BY <1>2, <1>3, <1>5, <1>6 DEF TablesTrue

-----------------------------------------------------------------------------
(***************************************************************************)
(* The three requests that change agreements.                              *)
(***************************************************************************)

\* An approval: the tenant has nothing to sign or active, so that the tracker
\* may be pointed at the new agreement.
LEMMA ApprovalTrue ==
    ASSUME NEW W, NEW V, NEW A, NEW B, NEW P, TablesTrue(W, A, P),
           NEW t \in Users, NEW v \in Visits, NEW g \in Agreements,
           W[t] # NULL, A[g] = NULL,
           \A h \in Agreements : A[h] # NULL /\ A[h].tenant_id = t => ~ Blocks(A[h]),
           B = [A EXCEPT ![g] = NewAgreement(t)],
           V = [W EXCEPT ![t] = MarkAgreementGenerated(MarkVisitResult(
                                    MarkAgreementGenerated(W[t], g), v, TRUE), g)]
    PROVE  TablesTrue(V, B, P)
<1> DEFINE x == V[t]
<1>0. /\ W \in Workflows /\ A \in AllAgreements /\ W[t] \in WorkflowRow
      /\ TrackersTrue(W, A) /\ AgreementsTrue(A)
  BY DEF TablesTrue, Workflows
<1>1. /\ x \in WorkflowRow /\ x # NULL
      /\ x.agreement_id = g /\ x.state = "AGREEMENT_GENERATED"
      /\ x.advance_approved = W[t].advance_approved
  <2> DEFINE row == MarkAgreementGenerated(MarkVisitResult(
                        MarkAgreementGenerated(W[t], g), v, TRUE), g)
  <2>1. x = row
    BY <1>0 DEF Workflows
  <2>2. /\ row \in WorkflowRow
        /\ row.agreement_id = g /\ row.state = "AGREEMENT_GENERATED"
        /\ row.advance_approved = W[t].advance_approved
    BY <1>0, ApprovedRow
  <2> HIDE DEF row, x
  <2>3. QED
    BY <2>1, <2>2, NotNull
<1>2. /\ V \in Workflows
      /\ \A s \in Users \ {t} : V[s] = W[s]
  BY <1>0, <1>1 DEF Workflows
<1>3. /\ B[g] \in AgreementRow /\ B[g] # NULL
      /\ B[g].tenant_id = t /\ B[g].status = "AWAITING_SIGNATURE"
      /\ B[g].tenant_signature = FALSE /\ B[g].deposit_payment_id = NULL
  <2>1. B[g] = NewAgreement(t)
    BY <1>0 DEF AllAgreements
  <2>2. QED
    BY <2>1, NewAgreementRow, NotNull
<1>4. /\ B \in AllAgreements
      /\ \A h \in Agreements \ {g} : B[h] = A[h]
  BY <1>0, <1>3 DEF AllAgreements
<1> HIDE DEF x
<1>5. Grown(A, B)
  BY <1>4 DEF Grown
<1>6. ~ W[t].advance_approved
  <2> SUFFICES ASSUME W[t].advance_approved PROVE FALSE
    OBVIOUS
  <2>1. /\ W[t].agreement_id # NULL
        /\ A[W[t].agreement_id] # NULL
        /\ A[W[t].agreement_id].tenant_id = t
        /\ A[W[t].agreement_id].status = "ACTIVE"
    BY <1>0 DEF TrackersTrue, RowTrue, Linked
  <2>2. W[t].agreement_id \in Agreements
    BY <1>0, <2>1 DEF WorkflowRow, WorkflowRows
  <2>3. QED
    BY <2>1, <2>2 DEF Blocks
<1>7. TrackersTrue(V, B)
  <2> SUFFICES ASSUME NEW s \in Users, V[s] # NULL PROVE RowTrue(s, V[s], B)
    BY DEF TrackersTrue
  <2>1. CASE s = t
    <3>1. Linked(t, x, B) /\ Told(x, B) /\ ~ Gates(x)
      BY <1>1, <1>3, <1>6, NotNull DEF Linked, Told, Gates
    <3>2. QED
      BY <2>1, <3>1 DEF RowTrue, x
  <2>2. CASE s # t
    <3>1. V[s] = W[s] /\ W[s] \in WorkflowRow /\ RowTrue(s, W[s], A)
      BY <1>0, <1>2, <2>2 DEF Workflows, TrackersTrue
    <3>2. W[s].state = "AGREEMENT_GENERATED" =>
            W[s].agreement_id \in Agreements \ {g}
      BY <3>1 DEF RowTrue, Linked, Told, WorkflowRow, WorkflowRows
    <3>3. QED
      BY <1>4, <1>5, <3>1, <3>2, GrownTrue
  <2>3. QED
    BY <2>1, <2>2
<1>8. AgreementsTrue(B)
  BY <1>0, <1>3, <1>4 DEF AgreementsTrue
<1>9. AdvancesTrue(B, P)
  <2> SUFFICES ASSUME NEW p \in Payments, P[p] # NULL
               PROVE  \E h \in Agreements :
                        Deposits(B, p) = {h} /\ B[h].tenant_id = P[p].tenant_id
    BY DEF AdvancesTrue
  <2>1. Deposits(B, p) = Deposits(A, p)
    BY <1>3, <1>4, NotNull DEF Deposits
  <2>2. PICK h \in Agreements : Deposits(A, p) = {h} /\ A[h].tenant_id = P[p].tenant_id
    BY DEF TablesTrue, AdvancesTrue
  <2>3. h # g
    BY <2>2 DEF Deposits
  <2>4. QED
    BY <1>4, <2>1, <2>2, <2>3
<1>10. DepositsExist(B, P)
  BY <1>3, <1>4 DEF TablesTrue, DepositsExist
<1>11. OneToSign(B, V)
  <2> SUFFICES ASSUME NEW h \in Agreements, B[h] # NULL, ~ B[h].tenant_signature
               PROVE  V[B[h].tenant_id] # NULL /\ V[B[h].tenant_id].agreement_id = h
    BY DEF OneToSign
  <2>1. CASE h = g
    BY <1>1, <1>3, <2>1 DEF x
  <2>2. CASE h # g
    <3>1. B[h] = A[h] /\ A[h] # NULL /\ A[h] \in AgreementRow
      BY <1>0, <1>4, <2>2 DEF AllAgreements
    <3>2. Blocks(A[h])
      BY <1>0, <3>1 DEF AgreementsTrue, Blocks, AgreementRow, AgreementRows, AgreementStatus
    <3>3. A[h].tenant_id \in Users \ {t}
      BY <3>1, <3>2 DEF AgreementRow, AgreementRows
    <3>4. W[A[h].tenant_id] # NULL /\ W[A[h].tenant_id].agreement_id = h
      BY <3>1 DEF TablesTrue, OneToSign
    <3>5. QED
      BY <1>2, <3>1, <3>3, <3>4
  <2>3. QED
    BY <2>1, <2>2
<1>12. QED
  BY <1>2, <1>4, <1>7, <1>8, <1>9, <1>10, <1>11 DEF TablesTrue

\* The trackers a signature or an activation marks.
Tracking(W, g) == {t \in Users : W[t] # NULL /\ W[t].agreement_id = g}

\* A signature by which the advance is owed.
Owes(W, V, A, B, P, Q, u, g, p) ==
    /\ A[g] # NULL /\ CanSign(A[g], u, Owner) /\ Signed(A[g], u).tenant_signature
    /\ P[p] = NULL
    /\ B = [A EXCEPT ![g] = Owing(Signed(A[g], u), p)]
    /\ Q = [P EXCEPT ![p] = NewAdvance(A[g].tenant_id)]
    /\ V = [t \in Users |-> IF t \in Tracking(W, g) THEN MarkTenantSigned(W[t]) ELSE W[t]]

LEMMA OweTrue ==
    ASSUME NEW W, NEW V, NEW A, NEW B, NEW P, NEW Q, TablesTrue(W, A, P),
           NEW u \in Users, NEW g \in Agreements, NEW p \in Payments,
           Owes(W, V, A, B, P, Q, u, g, p)
    PROVE  TablesTrue(V, B, Q)
<1> USE DEF Owes
<1>0. /\ W \in Workflows /\ A \in AllAgreements /\ P \in AllPayments
      /\ A[g] \in AgreementRow
      /\ TrackersTrue(W, A) /\ AgreementsTrue(A)
  BY DEF TablesTrue, AllAgreements
<1>1. /\ A[g].status \in {"AWAITING_SIGNATURE", "SIGNED"}
      /\ B[g] \in AgreementRow /\ B[g] # NULL
      /\ B[g].tenant_id = A[g].tenant_id /\ B[g].status = "AWAITING_PAYMENT"
      /\ B[g].tenant_signature = TRUE /\ B[g].deposit_payment_id = p
  <2> DEFINE row == Owing(Signed(A[g], u), p)
  <2>1. B[g] = row
    BY <1>0 DEF AllAgreements
  <2>2. /\ A[g].status \in {"AWAITING_SIGNATURE", "SIGNED"}
        /\ row \in AgreementRow
        /\ row.tenant_id = A[g].tenant_id /\ row.status = "AWAITING_PAYMENT"
        /\ row.tenant_signature = TRUE /\ row.deposit_payment_id = p
    BY <1>0, OwingRow
  <2> HIDE DEF row
  <2>3. QED
    BY <2>1, <2>2, NotNull
<1>2. /\ B \in AllAgreements
      /\ \A h \in Agreements \ {g} : B[h] = A[h]
  BY <1>0, <1>1 DEF AllAgreements
<1>3. A[g].deposit_payment_id = NULL /\ A[g].status # "ACTIVE"
  BY <1>0, <1>1 DEF AgreementsTrue
<1>4. A[g].tenant_id \in Users
  BY <1>0 DEF AgreementRow, AgreementRows
<1>5. Q[p] \in PaymentRow /\ Q[p] # NULL /\ Q[p].tenant_id = A[g].tenant_id
  <2>1. Q[p] = NewAdvance(A[g].tenant_id)
    BY <1>0 DEF AllPayments
  <2>2. QED
    BY <1>4, <2>1, NewAdvanceRow, NotNull
<1>6. /\ Q \in AllPayments
      /\ \A q \in Payments \ {p} : Q[q] = P[q]
  BY <1>0, <1>5 DEF AllPayments
<1>7. \A h \in Agreements : A[h] # NULL => A[h].deposit_payment_id # p
  BY NotNull DEF TablesTrue, DepositsExist
<1>8. ASSUME NEW t \in Users, V[t] # NULL
      PROVE  /\ V[t] \in WorkflowRow /\ W[t] # NULL
             /\ V[t].agreement_id = W[t].agreement_id
             /\ RowTrue(t, V[t], B)
  <2>1. CASE t \in Tracking(W, g)
    <3>1. /\ W[t] # NULL /\ W[t] \in WorkflowRow /\ W[t].agreement_id = g
          /\ RowTrue(t, W[t], A)
      BY <1>0, <2>1 DEF Tracking, Workflows, TrackersTrue
    <3>2. V[t] = MarkTenantSigned(W[t])
      BY <2>1
    <3>3. /\ V[t] \in WorkflowRow /\ V[t].agreement_id = g
          /\ V[t].advance_approved = W[t].advance_approved
          /\ V[t].state = "TENANT_SIGNED"
      BY <3>1, <3>2, TenantSignedRow
    <3>4. ~ W[t].advance_approved /\ A[g].tenant_id = t
      BY <1>3, <3>1, NotNull DEF RowTrue, Linked
    <3>5. Linked(t, V[t], B) /\ Told(V[t], B) /\ ~ Gates(V[t])
      BY <1>1, <3>3, <3>4, NotNull DEF Linked, Told, Gates
    <3>6. QED
      BY <3>1, <3>3, <3>5 DEF RowTrue
  <2>2. CASE t \notin Tracking(W, g)
    <3>1. V[t] = W[t]
      BY <2>2
    <3>2. W[t] \in WorkflowRow /\ W[t].agreement_id # g /\ RowTrue(t, W[t], A)
      BY <1>0, <1>8, <2>2, <3>1 DEF Tracking, Workflows, TrackersTrue
    <3>3. W[t].state = "AGREEMENT_GENERATED" => W[t].agreement_id \in Agreements \ {g}
      BY <3>2 DEF RowTrue, Linked, Told, WorkflowRow, WorkflowRows
    <3>4. Grown(A, B)
      BY <1>1, <1>2, <1>3 DEF Grown
    <3>5. W[t].state = "AGREEMENT_GENERATED" =>
            B[W[t].agreement_id].tenant_signature = A[W[t].agreement_id].tenant_signature
      BY <1>2, <3>3
    <3>6. RowTrue(t, W[t], B)
      BY <3>2, <3>4, <3>5, GrownTrue
    <3>7. QED
      BY <1>8, <3>1, <3>2, <3>6
  <2>3. QED
    BY <2>1, <2>2
<1>9. V \in Workflows /\ TrackersTrue(V, B)
  BY <1>0, <1>8 DEF Workflows, TrackersTrue
<1>10. AgreementsTrue(B)
  BY <1>0, <1>1, <1>2, NotNull DEF AgreementsTrue
<1>11. AdvancesTrue(B, Q)
  <2> SUFFICES ASSUME NEW q \in Payments, Q[q] # NULL
               PROVE  \E h \in Agreements :
                        Deposits(B, q) = {h} /\ B[h].tenant_id = Q[q].tenant_id
    BY DEF AdvancesTrue
  <2>1. CASE q = p
    <3>1. Deposits(B, p) = {g}
      BY <1>1, <1>2, <1>7 DEF Deposits
    <3>2. QED
      BY <1>1, <1>5, <2>1, <3>1
  <2>2. CASE q # p
    <3>1. Deposits(B, q) = Deposits(A, q)
      BY <1>1, <1>2, <1>3, <2>2, NotNull DEF Deposits
    <3>2. PICK h \in Agreements : Deposits(A, q) = {h} /\ A[h].tenant_id = P[q].tenant_id
      BY <1>6, <2>2 DEF TablesTrue, AdvancesTrue
    <3>3. B[h].tenant_id = A[h].tenant_id
      BY <1>1, <1>2
    <3>4. QED
      BY <1>6, <2>2, <3>1, <3>2, <3>3
  <2>3. QED
    BY <2>1, <2>2
<1>12. DepositsExist(B, Q)
  BY <1>1, <1>2, <1>5, <1>6 DEF TablesTrue, DepositsExist, AllAgreements, AgreementRow, AgreementRows
<1>13. OneToSign(B, V)
  <2> SUFFICES ASSUME NEW h \in Agreements, B[h] # NULL, ~ B[h].tenant_signature
               PROVE  V[B[h].tenant_id] # NULL /\ V[B[h].tenant_id].agreement_id = h
    BY DEF OneToSign
  <2>1. h # g /\ B[h] = A[h] /\ A[h] \in AgreementRow
    BY <1>0, <1>1, <1>2 DEF AllAgreements
  <2>2. PICK t \in Users : t = A[h].tenant_id
    BY <2>1 DEF AgreementRow, AgreementRows
  <2>3. W[t] # NULL /\ W[t].agreement_id = h
    BY <2>1, <2>2 DEF TablesTrue, OneToSign
  <2>4. t \notin Tracking(W, g)
    BY <2>1, <2>3 DEF Tracking
  <2>5. QED
    BY <2>1, <2>2, <2>3, <2>4
<1>14. QED
  BY <1>2, <1>6, <1>9, <1>10, <1>11, <1>12, <1>13 DEF TablesTrue

\* An activation.
LEMMA ActivateTrue ==
    ASSUME NEW W, NEW V, NEW A, NEW B, NEW P, TablesTrue(W, A, P),
           NEW g \in Agreements, A[g] # NULL, A[g].status = "AWAITING_PAYMENT",
           B = [A EXCEPT ![g] = Activated(A[g])],
           V = [t \in Users |-> IF t \in Tracking(W, g)
                                THEN MarkAdvanceApproved(W[t]) ELSE W[t]]
    PROVE  TablesTrue(V, B, P)
<1>0. A \in AllAgreements /\ A[g] \in AgreementRow /\ W \in Workflows
  BY DEF TablesTrue, AllAgreements
<1>1. /\ B[g] \in AgreementRow /\ B[g] # NULL
      /\ B[g].tenant_id = A[g].tenant_id /\ B[g].status = "ACTIVE"
      /\ B[g].tenant_signature = A[g].tenant_signature
      /\ B[g].deposit_payment_id = A[g].deposit_payment_id
  <2>1. B[g] = Activated(A[g])
    BY <1>0 DEF AllAgreements
  <2>2. QED
    BY <1>0, <2>1, ActivatedRow, NotNull
<1>2. /\ B \in AllAgreements
      /\ \A h \in Agreements \ {g} : B[h] = A[h]
  BY <1>0, <1>1 DEF AllAgreements
<1>3. \A h \in Agreements : B[h] = NULL <=> A[h] = NULL
  BY <1>1, <1>2
<1>4. \A h \in Agreements : A[h] # NULL =>
                /\ B[h].tenant_id = A[h].tenant_id
                /\ B[h].tenant_signature = A[h].tenant_signature
                /\ B[h].deposit_payment_id = A[h].deposit_payment_id
                /\ \/ B[h].status = A[h].status
                   \/ A[h].status = "AWAITING_PAYMENT" /\ B[h].status = "ACTIVE"
  BY <1>1, <1>2
<1>5. TablesTrue(W, B, P)
  BY <1>2, <1>3, <1>4, ActivatedTrue
<1>6. ASSUME NEW t \in Users, W[t] # NULL
      PROVE  /\ V[t] \in WorkflowRow /\ V[t] # NULL
             /\ V[t].agreement_id = W[t].agreement_id
             /\ RowTrue(t, V[t], B)
  <2>0. W[t] \in WorkflowRow /\ RowTrue(t, W[t], B)
    BY <1>0, <1>5, <1>6 DEF Workflows, TablesTrue, TrackersTrue
  <2>1. CASE t \in Tracking(W, g)
    <3>1. W[t].agreement_id = g /\ V[t] = MarkAdvanceApproved(W[t])
      BY <2>1 DEF Tracking
    <3>2. /\ V[t] \in WorkflowRow /\ V[t].agreement_id = g
          /\ Gates(V[t]) => V[t].tenant_activated
          /\ V[t].state \in {"ADVANCE_APPROVED", "TENANT_ACTIVATED"}
      BY <2>0, <3>1, AdvanceApprovedRow
    <3>3. B[g].tenant_id = t
      BY <2>0, <3>1, NotNull DEF RowTrue, Linked
    <3>4. Linked(t, V[t], B) /\ Told(V[t], B)
      BY <1>1, <3>2, <3>3, NotNull DEF Linked, Told
    <3>5. QED
      BY <3>1, <3>2, <3>4, NotNull DEF RowTrue
  <2>2. CASE t \notin Tracking(W, g)
    BY <1>6, <2>0, <2>2
  <2>3. QED
    BY <2>1, <2>2
<1>7. ASSUME NEW t \in Users, W[t] = NULL PROVE V[t] = NULL
  BY <1>7 DEF Tracking
<1>8. V \in Workflows /\ TrackersTrue(V, B)
  BY <1>6, <1>7 DEF Workflows, TrackersTrue
<1>9. QED
  BY <1>5, <1>6, <1>8, TrackersReplaced

-----------------------------------------------------------------------------
(***************************************************************************)
(* Every step keeps the invariant.                                         *)
(***************************************************************************)
LEMMA InvInit == Init => IInv
<1> SUFFICES ASSUME Init PROVE TablesTrue(workflow, agreement, payment)
  BY DEF IInv
<1>1. /\ \A t \in Users : workflow[t] = NULL
      /\ \A g \in Agreements : agreement[g] = NULL
      /\ \A p \in Payments : payment[p] = NULL
  BY DEF Init
<1>2. workflow \in Workflows /\ agreement \in AllAgreements /\ payment \in AllPayments
  BY DEF Init, Workflows, AllAgreements, AllPayments
<1>3. QED
  BY <1>1, <1>2 DEF TablesTrue, TrackersTrue, AgreementsTrue, AdvancesTrue, DepositsExist,
                    OneToSign

LEMMA TenantsAreUsers == \A t \in Tenants : t \in Users
BY LeaseConstants

LEMMA VisitStepTrue ==
    ASSUME IInv, VisitStep
    PROVE  TablesTrue(workflow', agreement', payment')
<1>0. TablesTrue(workflow, agreement, payment)
  BY DEF IInv
<1>1. PICK t \in Tenants, v \in Visits :
        \/ VisitBooked(t, v) \/ VisitConfirmed(t, v) \/ VisitTurnedDown(t, v)
        \/ \E g \in Agreements : VisitApproved(t, v, g)
  BY DEF VisitStep
<1>2. t \in Users /\ (workflow[t] # NULL => workflow[t] \in WorkflowRow)
  BY <1>0, TenantsAreUsers DEF TablesTrue, Workflows
<1>3. ASSUME VisitBooked(t, v) PROVE TablesTrue(workflow', agreement', payment')
  <2> DEFINE x == MarkVisitBooked(GetOrCreate(workflow[t]), v)
  <2>1. /\ workflow' = [workflow EXCEPT ![t] = x]
        /\ agreement' = agreement /\ payment' = payment
    BY <1>3 DEF VisitBooked
  <2>2. \/ workflow[t] # NULL /\ Quiet(workflow[t], x)
        \/ workflow[t] = NULL /\ Quiet(NewWorkflow, x)
    BY <1>2, NewWorkflowRow, QuietVisitMarks DEF GetOrCreate
  <2> HIDE DEF x
  <2>3. QED
    BY <1>0, <1>2, <2>1, <2>2, OneMarkTrue
<1>4. ASSUME VisitConfirmed(t, v) PROVE TablesTrue(workflow', agreement', payment')
  <2>1. Quiet(workflow[t], MarkVisitScheduled(workflow[t], v))
    BY <1>2, <1>4, QuietVisitMarks DEF VisitConfirmed
  <2>2. QED
    BY <1>0, <1>2, <1>4, <2>1, OneMarkTrue DEF VisitConfirmed
<1>5. ASSUME VisitTurnedDown(t, v) PROVE TablesTrue(workflow', agreement', payment')
  <2>1. Quiet(workflow[t], MarkVisitResult(workflow[t], v, FALSE))
    BY <1>2, <1>5, QuietVisitMarks DEF VisitTurnedDown
  <2>2. QED
    BY <1>0, <1>2, <1>5, <2>1, OneMarkTrue DEF VisitTurnedDown
<1>6. ASSUME NEW g \in Agreements, VisitApproved(t, v, g)
      PROVE  TablesTrue(workflow', agreement', payment')
  <2>1. \A h \in Agreements :
            agreement[h] # NULL /\ agreement[h].tenant_id = t => ~ Blocks(agreement[h])
    BY <1>6 DEF VisitApproved, BlockingAgreementsOf
  <2>2. QED
    BY <1>0, <1>2, <1>6, <2>1, ApprovalTrue DEF VisitApproved
<1>7. QED
  BY <1>1, <1>3, <1>4, <1>5, <1>6

LEMMA SignFirstTrue ==
    ASSUME IInv, NEW u \in Users, NEW g \in Agreements, SignFirst(u, g)
    PROVE  TablesTrue(workflow', agreement', payment')
<1>0. /\ TablesTrue(workflow, agreement, payment)
      /\ agreement \in AllAgreements
      /\ agreement[g] # NULL /\ agreement[g] \in AgreementRow
  BY DEF IInv, TablesTrue, AllAgreements, SignFirst
<1> DEFINE new == Signed(agreement[g], u)
<1>1. /\ new \in AgreementRow /\ new # NULL
      /\ new.tenant_id = agreement[g].tenant_id
      /\ new.status = agreement[g].status
      /\ new.tenant_signature = agreement[g].tenant_signature
      /\ new.deposit_payment_id = agreement[g].deposit_payment_id
  BY <1>0, SignedFirstRow, NotNull DEF SignFirst
<1>2. agreement' = [agreement EXCEPT ![g] = new] /\ workflow' = workflow /\ payment' = payment
  BY DEF SignFirst
<1> HIDE DEF new
<1>3. /\ agreement' \in AllAgreements
      /\ \A h \in Agreements : agreement'[h] = IF h = g THEN new ELSE agreement[h]
  BY <1>0, <1>1, <1>2 DEF AllAgreements
<1>4. \A h \in Agreements : agreement'[h] = NULL <=> agreement[h] = NULL
  BY <1>0, <1>1, <1>3
<1>5. \A h \in Agreements : agreement[h] # NULL =>
            /\ agreement'[h].tenant_id = agreement[h].tenant_id
            /\ agreement'[h].tenant_signature = agreement[h].tenant_signature
            /\ agreement'[h].deposit_payment_id = agreement[h].deposit_payment_id
            /\ agreement'[h].status = agreement[h].status
  BY <1>1, <1>3
<1>6. TablesTrue(workflow, agreement', payment)
  BY <1>0, <1>3, <1>4, <1>5, ActivatedTrue
<1>7. QED
  BY <1>2, <1>6

LEMMA UploadTrue ==
    ASSUME IInv, NEW p \in Payments, UploadReceipt(p)
    PROVE  TablesTrue(workflow', agreement', payment')
<1> DEFINE t == payment[p].tenant_id
<1>0. /\ TablesTrue(workflow, agreement, payment)
      /\ payment[p] # NULL /\ payment[p] \in PaymentRow
      /\ workflow \in Workflows
  BY DEF IInv, TablesTrue, AllPayments, UploadReceipt
<1>1. t \in Users
  BY <1>0 DEF PaymentRow, PaymentRows
<1>2. TablesTrue(workflow, agreement, payment')
  BY <1>0, OnePaymentTrue DEF UploadReceipt, PaymentStatus
<1>3. agreement' = agreement
      /\ workflow' = [s \in Users |-> IF s = t /\ workflow[s] # NULL
                        THEN MarkAdvanceSubmitted(workflow[s]) ELSE workflow[s]]
  BY DEF UploadReceipt
<1> HIDE DEF t
<1>4. CASE workflow[t] = NULL
  <2>1. workflow' = workflow
    BY <1>0, <1>3, <1>4 DEF Workflows
  <2>2. QED
    BY <1>2, <1>3, <2>1
<1>5. CASE workflow[t] # NULL
  <2>1. workflow' = [workflow EXCEPT ![t] = MarkAdvanceSubmitted(workflow[t])]
    BY <1>0, <1>1, <1>3, <1>5 DEF Workflows
  <2>2. Quiet(workflow[t], MarkAdvanceSubmitted(workflow[t]))
    BY <1>0, <1>1, <1>5, QuietLeaseMarks DEF Workflows
  <2>3. TablesTrue(workflow', agreement, payment')
    BY <1>1, <1>2, <1>5, <2>1, <2>2, OneMarkTrue
  <2>4. QED
    BY <1>3, <2>3
<1>6. QED
  BY <1>4, <1>5

LEMMA TrackedByTracking ==
    ASSUME NEW g \in Agreements
    PROVE  TrackedBy(g) = Tracking(workflow, g)
BY DEF TrackedBy, Tracking

\* Activating comes with a payment that gets another status, or none.
LEMMA ActivationTrue ==
    ASSUME NEW Q, TablesTrue(workflow, agreement, Q), NEW g \in Agreements,
           agreement[g] # NULL, agreement[g].status = "AWAITING_PAYMENT", Activate(g)
    PROVE  TablesTrue(workflow', agreement', Q)
BY ActivateTrue, TrackedByTracking DEF Activate

LEMMA VerifyTrue ==
    ASSUME IInv, NEW p \in Payments, VerifyPayment(p)
    PROVE  TablesTrue(workflow', agreement', payment')
<1>1. TablesTrue(workflow, agreement, payment')
  BY OnePaymentTrue DEF IInv, VerifyPayment, PaymentStatus
<1>2. CASE UNCHANGED <<agreement, occupant, workflow>>
  BY <1>1, <1>2
<1>3. ASSUME NEW g \in ToActivate(p), Activate(g)
      PROVE  TablesTrue(workflow', agreement', payment')
  <2>1. g \in Agreements /\ agreement[g] # NULL /\ agreement[g].status = "AWAITING_PAYMENT"
    BY <1>3 DEF ToActivate, DepositOf
  <2>2. QED
    BY <1>1, <1>3, <2>1, ActivationTrue
<1>4. QED
  BY <1>2, <1>3 DEF VerifyPayment

\* An agreement that awaits its payment has a deposit.
LEMMA DepositOwed ==
    ASSUME IInv, NEW g \in Agreements, agreement[g] # NULL,
           agreement[g].status = "AWAITING_PAYMENT"
    PROVE  /\ agreement[g].deposit_payment_id \in Payments
           /\ payment[agreement[g].deposit_payment_id] # NULL
<1>1. agreement[g].deposit_payment_id # NULL
  BY DEF IInv, TablesTrue, AgreementsTrue
<1>2. agreement[g] \in AgreementRow
  BY DEF IInv, TablesTrue, AllAgreements
<1>3. agreement[g].deposit_payment_id \in Payments
  BY <1>1, <1>2 DEF AgreementRow, AgreementRows
<1>4. QED
  BY <1>1, <1>3 DEF IInv, TablesTrue, DepositsExist

LEMMA ConfirmTrue ==
    ASSUME IInv, NEW g \in Agreements, ConfirmAdvance(g)
    PROVE  TablesTrue(workflow', agreement', payment')
<1> DEFINE p == agreement[g].deposit_payment_id
<1>1. agreement[g] # NULL /\ agreement[g].status = "AWAITING_PAYMENT" /\ Activate(g)
  BY DEF ConfirmAdvance
<1>2. p \in Payments /\ p # NULL /\ payment[p] # NULL
  BY <1>1, DepositOwed, NotNull
<1>3. payment' = [payment EXCEPT ![p] = PaymentNow(payment[p], "PAID")]
  BY <1>2 DEF ConfirmAdvance
<1> HIDE DEF p
<1>4. TablesTrue(workflow, agreement, payment')
  BY <1>2, <1>3, OnePaymentTrue DEF IInv, PaymentStatus
<1>5. QED
  BY <1>1, <1>4, ActivationTrue

LEMMA ChecklistTrue ==
    ASSUME IInv, NEW t \in Tenants, NEW doc,
           Submit(t, doc) \/ (\E approve \in BOOLEAN : Review(t, doc, approve))
                \/ CancelOnboarding(t)
    PROVE  TablesTrue(workflow', agreement', payment')
<1>0. /\ TablesTrue(workflow, agreement, payment)
      /\ t \in Users /\ workflow[t] # NULL /\ workflow[t] \in WorkflowRow
      /\ agreement' = agreement /\ payment' = payment
  BY TenantsAreUsers DEF IInv, TablesTrue, Workflows, Submit, Review, CancelOnboarding
<1> DEFINE w == workflow[t]
<1>1. PICK x : workflow' = [workflow EXCEPT ![t] = x] /\ (Quiet(w, x) \/ Approving(w, x))
  <2>1. CASE Submit(t, doc)
    <3>1. PICK x \in {SubmitPolice(w), SubmitOriginal(w)} :
            workflow' = [workflow EXCEPT ![t] = x]
      BY <2>1 DEF Submit
    <3>2. QED
      BY <1>0, <3>1, QuietLeaseMarks
  <2>2. ASSUME NEW approve \in BOOLEAN, Review(t, doc, approve)
        PROVE  \E x : workflow' = [workflow EXCEPT ![t] = x] /\ (Quiet(w, x) \/ Approving(w, x))
    <3>1. PICK x \in {ReviewPolice(w, approve), ReviewOriginal(w, approve)} :
            workflow' = [workflow EXCEPT ![t] = x]
      BY <2>2 DEF Review
    <3>2. CASE approve = TRUE
      BY <1>0, <3>1, <3>2, ReviewRow
    <3>3. CASE approve = FALSE
      BY <1>0, <3>1, <3>3, QuietLeaseMarks
    <3>4. QED
      BY <3>2, <3>3
  <2>3. CASE CancelOnboarding(t)
    <3>1. workflow' = [workflow EXCEPT ![t] = CancelWorkflow(w)]
      BY <2>3 DEF CancelOnboarding
    <3>2. QED
      BY <1>0, <3>1, QuietLeaseMarks
  <2>4. QED
    BY <2>1, <2>2, <2>3
<1>2. QED
  BY <1>0, <1>1, OneMarkTrue

LEMMA SignAndOweTrue ==
    ASSUME IInv, NEW u \in Users, NEW g \in Agreements, NEW p \in Payments, SignAndOwe(u, g, p)
    PROVE  TablesTrue(workflow', agreement', payment')
<1>1. Owes(workflow, workflow', agreement, agreement', payment, payment', u, g, p)
  BY TrackedByTracking DEF SignAndOwe, Owes
<1>2. QED
  BY <1>1, OweTrue DEF IInv

LEMMA StatusTrue ==
    ASSUME IInv, NEW p \in Payments, RejectReceipt(p) \/ MarkPaid(p)
    PROVE  TablesTrue(workflow', agreement', payment')
<1>1. PICK status \in PaymentStatus : payment' = [payment EXCEPT ![p] = PaymentNow(payment[p], status)]
  BY DEF RejectReceipt, MarkPaid, PaymentStatus
<1>2. payment[p] # NULL /\ workflow' = workflow /\ agreement' = agreement
  BY DEF RejectReceipt, MarkPaid
<1>3. TablesTrue(workflow, agreement, payment')
  BY <1>1, <1>2, OnePaymentTrue DEF IInv
<1>4. QED
  BY <1>2, <1>3

LEMMA LeaseStepTrue ==
    ASSUME IInv, LeaseStep
    PROVE  TablesTrue(workflow', agreement', payment')
<1>1. ASSUME NEW u \in Users, NEW g \in Agreements,
             SignFirst(u, g) \/ (\E p \in Payments : SignAndOwe(u, g, p))
      PROVE  TablesTrue(workflow', agreement', payment')
  BY <1>1, SignFirstTrue, SignAndOweTrue
<1>2. ASSUME NEW p \in Payments,
             UploadReceipt(p) \/ VerifyPayment(p) \/ RejectReceipt(p) \/ MarkPaid(p)
      PROVE  TablesTrue(workflow', agreement', payment')
  BY <1>2, UploadTrue, VerifyTrue, StatusTrue
<1>3. ASSUME NEW g \in Agreements, ConfirmAdvance(g)
      PROVE  TablesTrue(workflow', agreement', payment')
  BY <1>3, ConfirmTrue
<1>4. ASSUME NEW t \in Tenants, NEW doc,
             Submit(t, doc) \/ (\E approve \in BOOLEAN : Review(t, doc, approve))
                \/ CancelOnboarding(t)
      PROVE  TablesTrue(workflow', agreement', payment')
  BY <1>4, ChecklistTrue
<1>5. ASSUME (\E u \in Users : AssignTenant(u)) \/ RemoveTenant
      PROVE  TablesTrue(workflow', agreement', payment')
  BY <1>5 DEF AssignTenant, RemoveTenant, IInv
<1>6. QED
  BY <1>1, <1>2, <1>3, <1>4, <1>5 DEF LeaseStep

LEMMA InvNext == IInv /\ [Next]_vars => IInv'
<1> SUFFICES ASSUME IInv, [Next]_vars PROVE TablesTrue(workflow', agreement', payment')
  BY DEF IInv
<1>1. CASE Next
  BY <1>1, VisitStepTrue, LeaseStepTrue DEF Next
<1>2. CASE UNCHANGED vars
  BY <1>2 DEF vars, IInv
<1>3. QED
  BY <1>1, <1>2

LEMMA Invariance == Spec => []IInv
BY InvInit, InvNext, PTL DEF Spec

\* The tenancy's own state has its type; with AssignTenant and RemoveTenant only
\* an activation writes it, the agreement's tenant.
LEMMA TenancyNext == IInv /\ Tenancy /\ [Next]_vars => Tenancy'
<1> SUFFICES ASSUME IInv, Tenancy, [Next]_vars PROVE Tenancy'
  OBVIOUS
<1>1. ASSUME NEW g \in Agreements, agreement[g] # NULL
      PROVE  agreement[g].tenant_id \in Users
  BY <1>1 DEF IInv, TablesTrue, AllAgreements, AgreementRow, AgreementRows
<1>2. CASE occupant' = occupant /\ openStays' = openStays
  BY <1>2 DEF Tenancy
<1>3. ASSUME NEW g \in Agreements, agreement[g] # NULL, Activate(g), openStays' = openStays
      PROVE  Tenancy'
  BY <1>1, <1>3 DEF Activate, Tenancy
<1>4. CASE VisitStep
  BY <1>2, <1>4 DEF VisitStep, VisitBooked, VisitConfirmed, VisitTurnedDown, VisitApproved
<1>5. CASE LeaseStep
  <2>1. ASSUME NEW u \in Users, NEW g \in Agreements,
               SignFirst(u, g) \/ (\E p \in Payments : SignAndOwe(u, g, p))
        PROVE  Tenancy'
    BY <1>2, <2>1 DEF SignFirst, SignAndOwe
  <2>2. ASSUME NEW p \in Payments, UploadReceipt(p) \/ RejectReceipt(p) \/ MarkPaid(p)
        PROVE  Tenancy'
    BY <1>2, <2>2 DEF UploadReceipt, RejectReceipt, MarkPaid
  <2>3. ASSUME NEW p \in Payments, VerifyPayment(p) PROVE Tenancy'
    BY <1>2, <1>3, <2>3 DEF VerifyPayment, ToActivate, DepositOf
  <2>4. ASSUME NEW g \in Agreements, ConfirmAdvance(g) PROVE Tenancy'
    BY <1>3, <2>4 DEF ConfirmAdvance
  <2>5. ASSUME NEW t \in Tenants, NEW doc,
               Submit(t, doc) \/ (\E approve \in BOOLEAN : Review(t, doc, approve))
                    \/ CancelOnboarding(t)
        PROVE  Tenancy'
    BY <1>2, <2>5 DEF Submit, Review, CancelOnboarding
  <2>6. ASSUME NEW u \in Users, AssignTenant(u) PROVE Tenancy'
    <3>1. openStays[u] + 1 \in 0..MaxStays
      BY <2>6, LeaseConstants DEF AssignTenant, Tenancy
    <3>2. QED
      BY <2>6, <3>1 DEF AssignTenant, Tenancy
  <2>7. CASE RemoveTenant
    BY <2>7, LeaseConstants DEF RemoveTenant, Tenancy
  <2>8. QED
    BY <1>5, <2>1, <2>2, <2>3, <2>4, <2>5, <2>6, <2>7 DEF LeaseStep
<1>6. CASE UNCHANGED vars
  BY <1>2, <1>6 DEF vars
<1>7. QED
  BY <1>4, <1>5, <1>6 DEF Next

LEMMA TenancyInit == Init => Tenancy
BY LeaseConstants DEF Init, Tenancy

-----------------------------------------------------------------------------
(***************************************************************************)
(* What the requests of a lease leave to the visits.                       *)
(***************************************************************************)

\* A mark of the lease changes neither of a tracker row's links, and never shows
\* a visit as scheduled.
LinksKept(w, x) ==
    /\ x \in WorkflowRow
    /\ x.visit_request_id = w.visit_request_id
    /\ x.agreement_id = w.agreement_id
    /\ x.state = "VISIT_SCHEDULED" => w.state = "VISIT_SCHEDULED"

LEMMA TryActivateKeepsLinks ==
    ASSUME NEW w \in WorkflowRow
    PROVE  LinksKept(w, TryActivateTenant(w))
BY DEF LinksKept, TryActivateTenant, WorkflowRow, WorkflowRows, WorkflowState

LEMMA MarksKeepLinks ==
    ASSUME NEW w \in WorkflowRow
    PROVE  /\ LinksKept(w, MarkTenantSigned(w))
           /\ LinksKept(w, MarkAdvanceSubmitted(w))
           /\ LinksKept(w, MarkAdvanceApproved(w))
           /\ LinksKept(w, SubmitPolice(w)) /\ LinksKept(w, SubmitOriginal(w))
           /\ LinksKept(w, CancelWorkflow(w))
<1>1. /\ LinksKept(w, MarkTenantSigned(w))
      /\ LinksKept(w, MarkAdvanceSubmitted(w))
      /\ LinksKept(w, CancelWorkflow(w))
  BY DEF LinksKept, MarkTenantSigned, MarkAdvanceSubmitted, CancelWorkflow,
         WorkflowRow, WorkflowRows, WorkflowState
<1>2. LinksKept(w, SubmitPolice(w)) /\ LinksKept(w, SubmitOriginal(w))
  BY DEF LinksKept, SubmitPolice, SubmitOriginal, WorkflowRow, WorkflowRows, ChecklistStatus
<1>3. LinksKept(w, MarkAdvanceApproved(w))
  <2> DEFINE x == [w EXCEPT !.state = "ADVANCE_APPROVED", !.advance_approved = TRUE]
  <2>1. LinksKept(w, x)
    BY DEF LinksKept, WorkflowRow, WorkflowRows, WorkflowState
  <2>2. MarkAdvanceApproved(w) = TryActivateTenant(x)
    BY DEF MarkAdvanceApproved
  <2> HIDE DEF x
  <2>3. LinksKept(x, TryActivateTenant(x))
    BY <2>1, TryActivateKeepsLinks DEF LinksKept
  <2>4. QED
    BY <2>1, <2>2, <2>3 DEF LinksKept
<1>4. QED
  BY <1>1, <1>2, <1>3

LEMMA ReviewsKeepLinks ==
    ASSUME NEW w \in WorkflowRow, NEW approve \in BOOLEAN
    PROVE  LinksKept(w, ReviewPolice(w, approve)) /\ LinksKept(w, ReviewOriginal(w, approve))
<1> DEFINE x == [w EXCEPT !.police = "APPROVED", !.state = "POLICE_VERIFICATION_COMPLETED"]
           y == [w EXCEPT !.original = "APPROVED", !.state = "ORIGINAL_AGREEMENT_UPLOADED"]
<1>1. LinksKept(w, x) /\ LinksKept(w, y)
  BY DEF LinksKept, WorkflowRow, WorkflowRows, WorkflowState, ChecklistStatus
<1>2. CASE approve = TRUE
  <2>1. ReviewPolice(w, approve) = TryActivateTenant(x)
        /\ ReviewOriginal(w, approve) = TryActivateTenant(y)
    BY <1>2 DEF ReviewPolice, ReviewOriginal
  <2> HIDE DEF x, y
  <2>2. LinksKept(x, TryActivateTenant(x)) /\ LinksKept(y, TryActivateTenant(y))
    BY <1>1, TryActivateKeepsLinks DEF LinksKept
  <2>3. QED
    BY <1>1, <2>1, <2>2 DEF LinksKept
<1>3. CASE approve = FALSE
  BY <1>3 DEF LinksKept, ReviewPolice, ReviewOriginal, WorkflowRow, WorkflowRows, ChecklistStatus
<1>4. QED
  BY <1>2, <1>3

\* From one state of a table to a later one: no row comes or goes.
TrackersKept(W, X) ==
    \A t \in Users : \/ W[t] = NULL /\ X[t] = NULL
                     \/ W[t] # NULL /\ LinksKept(W[t], X[t])

AgreementsKept(A, B) ==
    \A g \in Agreements :
        /\ A[g] = NULL <=> B[g] = NULL
        /\ A[g] # NULL => B[g].tenant_id = A[g].tenant_id

LEMMA SameKept ==
    ASSUME IInv
    PROVE  TrackersKept(workflow, workflow) /\ AgreementsKept(agreement, agreement)
BY DEF IInv, TablesTrue, Workflows, TrackersKept, AgreementsKept, LinksKept

\* Each request of a lease leaves every tracker row and every agreement there,
\* with the links and the tenant they have.
LEMMA LeaseKeeps ==
    ASSUME IInv, LeaseStep
    PROVE  TrackersKept(workflow, workflow') /\ AgreementsKept(agreement, agreement')
<1>0. /\ workflow \in Workflows
      /\ \A t \in Users : workflow[t] # NULL =>
            /\ workflow[t] \in WorkflowRow
            /\ LinksKept(workflow[t], workflow[t])
      /\ \A g \in Agreements : agreement[g] # NULL => agreement[g] \in AgreementRow
      /\ agreement \in AllAgreements
  BY DEF IInv, TablesTrue, Workflows, AllAgreements, LinksKept
<1>1. ASSUME NEW g \in Agreements, NEW new \in AgreementRow, agreement[g] # NULL,
             new.tenant_id = agreement[g].tenant_id,
             agreement' = [agreement EXCEPT ![g] = new]
      PROVE  AgreementsKept(agreement, agreement')
  BY <1>0, <1>1, NotNull DEF AgreementsKept, AllAgreements
<1>2. ASSUME \A t \in Users :
                \/ workflow'[t] = workflow[t]
                \/ workflow[t] # NULL /\ LinksKept(workflow[t], workflow'[t])
      PROVE  TrackersKept(workflow, workflow')
  BY <1>0, <1>2 DEF TrackersKept
<1>3. UNCHANGED workflow => TrackersKept(workflow, workflow')
  BY SameKept
<1>4. UNCHANGED agreement => AgreementsKept(agreement, agreement')
  BY SameKept
<1>5. ASSUME NEW g \in Agreements, agreement[g] # NULL, Activate(g)
      PROVE  TrackersKept(workflow, workflow') /\ AgreementsKept(agreement, agreement')
  <2>1. Activated(agreement[g]) \in AgreementRow
        /\ Activated(agreement[g]).tenant_id = agreement[g].tenant_id
    BY <1>0, <1>5, ActivatedRow
  <2>2. AgreementsKept(agreement, agreement')
    BY <1>1, <1>5, <2>1 DEF Activate
  <2>3. \A t \in Users : workflow'[t] = IF t \in TrackedBy(g)
                            THEN MarkAdvanceApproved(workflow[t]) ELSE workflow[t]
    BY <1>5 DEF Activate
  <2>4. \A t \in TrackedBy(g) : workflow[t] # NULL
    BY DEF TrackedBy
  <2>5. TrackersKept(workflow, workflow')
    BY <1>0, <1>2, <2>3, <2>4, MarksKeepLinks
  <2>6. QED
    BY <2>2, <2>5
<1>6. ASSUME NEW u \in Users, NEW g \in Agreements, SignFirst(u, g)
      PROVE  TrackersKept(workflow, workflow') /\ AgreementsKept(agreement, agreement')
  <2>1. Signed(agreement[g], u) \in AgreementRow
        /\ Signed(agreement[g], u).tenant_id = agreement[g].tenant_id
    BY <1>0, <1>6, SignedFirstRow DEF SignFirst
  <2>2. QED
    BY <1>1, <1>3, <1>6, <2>1 DEF SignFirst
<1>7. ASSUME NEW u \in Users, NEW g \in Agreements, NEW p \in Payments, SignAndOwe(u, g, p)
      PROVE  TrackersKept(workflow, workflow') /\ AgreementsKept(agreement, agreement')
  <2>1. Owing(Signed(agreement[g], u), p) \in AgreementRow
        /\ Owing(Signed(agreement[g], u), p).tenant_id = agreement[g].tenant_id
    BY <1>0, <1>7, OwingRow DEF SignAndOwe
  <2>2. AgreementsKept(agreement, agreement')
    BY <1>1, <1>7, <2>1 DEF SignAndOwe
  <2>3. \A t \in Users : workflow'[t] = IF t \in TrackedBy(g)
                            THEN MarkTenantSigned(workflow[t]) ELSE workflow[t]
    BY <1>7 DEF SignAndOwe
  <2>4. \A t \in TrackedBy(g) : workflow[t] # NULL
    BY DEF TrackedBy
  <2>5. TrackersKept(workflow, workflow')
    BY <1>0, <1>2, <2>3, <2>4, MarksKeepLinks
  <2>6. QED
    BY <2>2, <2>5
<1>8. ASSUME NEW p \in Payments, UploadReceipt(p)
      PROVE  TrackersKept(workflow, workflow') /\ AgreementsKept(agreement, agreement')
  <2>1. \A t \in Users : workflow'[t] = IF t = payment[p].tenant_id /\ workflow[t] # NULL
                            THEN MarkAdvanceSubmitted(workflow[t]) ELSE workflow[t]
    BY <1>8 DEF UploadReceipt
  <2>2. TrackersKept(workflow, workflow')
    BY <1>0, <1>2, <2>1, MarksKeepLinks
  <2>3. QED
    BY <1>4, <1>8, <2>2 DEF UploadReceipt
<1>9. ASSUME NEW p \in Payments, VerifyPayment(p) \/ RejectReceipt(p) \/ MarkPaid(p)
      PROVE  TrackersKept(workflow, workflow') /\ AgreementsKept(agreement, agreement')
  BY <1>3, <1>4, <1>5, <1>9 DEF VerifyPayment, ToActivate, DepositOf, RejectReceipt, MarkPaid
<1>10. ASSUME NEW g \in Agreements, ConfirmAdvance(g)
       PROVE  TrackersKept(workflow, workflow') /\ AgreementsKept(agreement, agreement')
  BY <1>5, <1>10 DEF ConfirmAdvance
<1>11. ASSUME NEW t \in Tenants, NEW doc,
              Submit(t, doc) \/ (\E approve \in BOOLEAN : Review(t, doc, approve))
                   \/ CancelOnboarding(t)
       PROVE  TrackersKept(workflow, workflow') /\ AgreementsKept(agreement, agreement')
  <2>1. t \in Users /\ workflow[t] # NULL /\ UNCHANGED agreement
    BY <1>11, TenantsAreUsers DEF Submit, Review, CancelOnboarding
  <2>2. PICK x : workflow' = [workflow EXCEPT ![t] = x] /\ LinksKept(workflow[t], x)
    <3>1. CASE Submit(t, doc)
      BY <1>0, <2>1, <3>1, MarksKeepLinks DEF Submit
    <3>2. ASSUME NEW approve \in BOOLEAN, Review(t, doc, approve)
          PROVE  \E x : workflow' = [workflow EXCEPT ![t] = x] /\ LinksKept(workflow[t], x)
      BY <1>0, <2>1, <3>2, ReviewsKeepLinks DEF Review
    <3>3. CASE CancelOnboarding(t)
      BY <1>0, <2>1, <3>3, MarksKeepLinks DEF CancelOnboarding
    <3>4. QED
      BY <1>11, <3>1, <3>2, <3>3
  <2>3. TrackersKept(workflow, workflow')
    BY <1>0, <1>2, <2>1, <2>2 DEF Workflows
  <2>4. QED
    BY <1>4, <2>1, <2>3
<1>12. CASE (\E u \in Users : AssignTenant(u)) \/ RemoveTenant
  BY <1>3, <1>4, <1>12 DEF AssignTenant, RemoveTenant
<1>13. QED
  BY <1>6, <1>7, <1>8, <1>9, <1>10, <1>11, <1>12 DEF LeaseStep

-----------------------------------------------------------------------------
(***************************************************************************)
(* Results.                                                                *)
(***************************************************************************)

\* Every table has its columns' types, and the occupant is a user or nobody,
\* whatever the order of visits, signatures, payments and reviews.
THEOREM TypeCorrect == Spec => []TypeOK
<1>1. IInv /\ Tenancy => TypeOK
  BY DEF IInv, Tenancy, TypeOK, TablesTrue, Workflows, AllAgreements, AllPayments
<1>2. QED
  BY Invariance, TenancyInit, TenancyNext, <1>1, PTL DEF Spec

\* An open advance gate is that of an active agreement of the same tenant, even
\* after an approval has repointed the tracker.
THEOREM GateCorrect == Spec => []GateMatchesAgreement
<1>1. IInv => GateMatchesAgreement
  BY IInvMeans
<1>2. QED
  BY Invariance, <1>1, PTL

\* The tracker's state is never about an agreement that is not so far, although
\* six services write it.
THEOREM TrackerCorrect == Spec => []TrackerTellsTruth
<1>1. IInv => TrackerTellsTruth
  BY IInvMeans
<1>2. QED
  BY Invariance, <1>1, PTL

\* Whichever of the three approvals comes last activates the tenant.
THEOREM LastApprovalCorrect == Spec => []LastApprovalActivates
<1>1. IInv => LastApprovalActivates
  BY IInvMeans
<1>2. QED
  BY Invariance, <1>1, PTL

\* Every agreement the tenant has signed has one advance, and every advance is
\* the deposit of one agreement.
THEOREM AdvancesCorrect == Spec => []AdvancePerSignedAgreement
<1>1. IInv => AdvancePerSignedAgreement
  BY IInvMeans
<1>2. QED
  BY Invariance, <1>1, PTL

\* A tenant never has two agreements to sign, and has the tracker point at the one.
THEOREM OneToSignCorrect == Spec => []OneAgreementToSign
<1>1. IInv => OneAgreementToSign
  BY IInvMeans
<1>2. QED
  BY Invariance, <1>1, PTL

\* One agreement's part of ActivationIsPaid.
Paid(g) ==
    /\ agreement'[g] # agreement[g]
    /\ agreement'[g] # NULL
    /\ agreement'[g].status = "ACTIVE"
    => /\ payment'[agreement'[g].deposit_payment_id].status = "PAID"
       /\ occupant' = agreement'[g].tenant_id

LEMMA ActivatingPaid ==
    ASSUME IInv, NEW g \in Agreements, agreement[g] # NULL, Activate(g),
           NEW p \in Payments, agreement[g].deposit_payment_id = p, payment[p] # NULL,
           payment' = [payment EXCEPT ![p] = PaymentNow(payment[p], "PAID")],
           NEW h \in Agreements
    PROVE  Paid(h)
<1>1. agreement \in AllAgreements /\ payment \in AllPayments
  BY DEF IInv, TablesTrue
<1>2. agreement[g] \in AgreementRow /\ payment[p] \in PaymentRow
  BY <1>1 DEF AllAgreements, AllPayments
<1>3. CASE h # g
  BY <1>1, <1>3 DEF Activate, AllAgreements, Paid
<1>4. CASE h = g
  <2>1. agreement'[g] = Activated(agreement[g])
    BY <1>1 DEF Activate, AllAgreements
  <2>2. /\ agreement'[g].deposit_payment_id = p
        /\ agreement'[g].tenant_id = agreement[g].tenant_id
    BY <1>2, <2>1, ActivatedRow
  <2>3. payment'[p] = PaymentNow(payment[p], "PAID")
    BY <1>1 DEF AllPayments
  <2>4. payment'[p].status = "PAID"
    BY <1>2, <2>3 DEF PaymentNow, PaymentRow, PaymentRows
  <2>5. QED
    BY <1>4, <2>2, <2>4 DEF Activate, Paid
<1>5. QED
  BY <1>3, <1>4

\* A row that is written without being activated.
LEMMA UnpaidRow ==
    ASSUME IInv, NEW g \in Agreements, NEW row, row.status # "ACTIVE",
           agreement' = [agreement EXCEPT ![g] = row], NEW h \in Agreements
    PROVE  Paid(h)
<1>1. agreement \in AllAgreements
  BY DEF IInv, TablesTrue
<1>2. agreement'[h] = IF h = g THEN row ELSE agreement[h]
  BY <1>1 DEF AllAgreements
<1>3. QED
  BY <1>2 DEF Paid

LEMMA StepPaid ==
    ASSUME IInv, [Next]_vars, NEW h \in Agreements
    PROVE  Paid(h)
<1>1. CASE UNCHANGED agreement
  BY <1>1 DEF Paid
<1>2. CASE VisitStep
  <2>1. ASSUME NEW t \in Tenants, NEW v \in Visits, NEW g \in Agreements, VisitApproved(t, v, g)
        PROVE  Paid(h)
    <3>1. NewAgreement(t).status # "ACTIVE"
      BY DEF NewAgreement
    <3>2. QED
      BY <2>1, <3>1, UnpaidRow DEF VisitApproved
  <2>2. QED
    BY <1>1, <1>2, <2>1 DEF VisitStep, VisitBooked, VisitConfirmed, VisitTurnedDown
<1>3. CASE LeaseStep
  <2>1. ASSUME NEW u \in Users, NEW g \in Agreements, SignFirst(u, g)
        PROVE  Paid(h)
    <3>1. agreement[g] \in AgreementRow
      BY <2>1 DEF IInv, TablesTrue, AllAgreements, SignFirst
    <3>2. Signed(agreement[g], u).status # "ACTIVE"
      BY <2>1, <3>1, SignedFirstRow DEF SignFirst, CanSign
    <3>3. QED
      BY <2>1, <3>2, UnpaidRow DEF SignFirst
  <2>2. ASSUME NEW u \in Users, NEW g \in Agreements, NEW p \in Payments, SignAndOwe(u, g, p)
        PROVE  Paid(h)
    <3>1. agreement[g] \in AgreementRow
      BY <2>2 DEF IInv, TablesTrue, AllAgreements, SignAndOwe
    <3>2. Owing(Signed(agreement[g], u), p).status # "ACTIVE"
      BY <2>2, <3>1, OwingRow DEF SignAndOwe
    <3>3. QED
      BY <2>2, <3>2, UnpaidRow DEF SignAndOwe
  <2>3. ASSUME NEW p \in Payments, NEW g \in ToActivate(p), VerifyPayment(p), Activate(g)
        PROVE  Paid(h)
    <3>1. g \in Agreements /\ agreement[g] # NULL /\ agreement[g].deposit_payment_id = p
      BY <2>3 DEF ToActivate, DepositOf
    <3>2. QED
      BY <2>3, <3>1, ActivatingPaid DEF VerifyPayment
  <2>4. ASSUME NEW g \in Agreements, ConfirmAdvance(g)
        PROVE  Paid(h)
    <3>1. agreement[g] # NULL /\ agreement[g].status = "AWAITING_PAYMENT" /\ Activate(g)
      BY <2>4 DEF ConfirmAdvance
    <3>2. PICK p \in Payments : p = agreement[g].deposit_payment_id /\ payment[p] # NULL
      BY <3>1, DepositOwed
    <3>3. payment' = [payment EXCEPT ![p] = PaymentNow(payment[p], "PAID")]
      BY <2>4, <3>2, NotNull DEF ConfirmAdvance
    <3>4. QED
      BY <3>1, <3>2, <3>3, ActivatingPaid
  <2>5. ASSUME NEW p \in Payments,
               UploadReceipt(p) \/ VerifyPayment(p) \/ RejectReceipt(p) \/ MarkPaid(p)
        PROVE  Paid(h)
    BY <1>1, <2>3, <2>5 DEF UploadReceipt, VerifyPayment, RejectReceipt, MarkPaid
  <2>6. ASSUME NEW t \in Tenants, NEW doc,
               Submit(t, doc) \/ (\E approve \in BOOLEAN : Review(t, doc, approve))
                    \/ CancelOnboarding(t)
        PROVE  Paid(h)
    BY <1>1, <2>6 DEF Submit, Review, CancelOnboarding
  <2>7. CASE (\E u \in Users : AssignTenant(u)) \/ RemoveTenant
    BY <1>1, <2>7 DEF AssignTenant, RemoveTenant
  <2>8. QED
    BY <1>3, <2>1, <2>2, <2>4, <2>5, <2>6, <2>7 DEF LeaseStep
<1>4. CASE UNCHANGED vars
  BY <1>1, <1>4 DEF vars
<1>5. QED
  BY <1>2, <1>3, <1>4 DEF Next

\* An agreement becomes active only in the request that has its advance paid, and
\* the property gets that agreement's tenant in the same request.
THEOREM ActivationPaid == Spec => ActivationIsPaid
<1>1. IInv /\ [Next]_vars =>
        [\A g \in Agreements :
            /\ agreement'[g] # agreement[g]
            /\ agreement'[g] # NULL
            /\ agreement'[g].status = "ACTIVE"
            => /\ payment'[agreement'[g].deposit_payment_id].status = "PAID"
               /\ occupant' = agreement'[g].tenant_id]_vars
  BY StepPaid DEF Paid
<1>2. QED
  BY Invariance, <1>1, PTL DEF Spec, ActivationIsPaid
=============================================================================
