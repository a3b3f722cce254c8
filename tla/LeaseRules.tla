----------------------------- MODULE LeaseRules -----------------------------
(***************************************************************************)
(* The rows of agreements and payments, and what app/services/             *)
(* agreement_service.py and payment_service.py require of them and write   *)
(* to them.  The columns kept are those some service reads back; a         *)
(* signature is kept as whether there is one.                              *)
(*                                                                         *)
(* Of the statuses in app/models/agreement.py and app/models/payment.py    *)
(* only those some code path writes or tests are listed: no code sets      *)
(* DRAFT, SIGNED, TERMINATED, EXPIRED or RENEWAL_PENDING, nor OVERDUE; two *)
(* of these are tested and therefore kept.                                 *)
(***************************************************************************)
EXTENDS Rows

AgreementStatus == {"AWAITING_SIGNATURE", "SIGNED", "AWAITING_PAYMENT", "ACTIVE"}
PaymentStatus   == {"PENDING", "OVERDUE", "AWAITING_VERIFICATION", "PAID", "REJECTED"}

AgreementRows(users, payments) ==
    [tenant_id: users, status: AgreementStatus, tenant_signature: BOOLEAN,
     owner_signature: BOOLEAN, deposit_payment_id: payments \cup {NULL}]

\* Advance payments; the other types are no part of the lease.
PaymentRows(users) == [tenant_id: users, status: PaymentStatus]

-----------------------------------------------------------------------------
(***************************************************************************)
(* Mutations a careless edit could introduce.                              *)
(***************************************************************************)
CanSignAnytime(row, u, owner) ==
    IF u = row.tenant_id THEN ~ row.tenant_signature
    ELSE u = owner /\ ~ row.owner_signature

BlocksWhenActiveOnly(row) == row.status = "ACTIVE"

BlocksWhileSigning(row) == row.status \in {"AWAITING_SIGNATURE", "SIGNED"}

-----------------------------------------------------------------------------
\* auto_generate_agreement's duplicate check: a row that keeps the tenant from
\* getting another agreement for the property.
Blocks(row) == row.status \in {"AWAITING_SIGNATURE", "SIGNED", "ACTIVE"}

NewAgreement(tenant) ==
    [tenant_id |-> tenant, status |-> "AWAITING_SIGNATURE", tenant_signature |-> FALSE,
     owner_signature |-> FALSE, deposit_payment_id |-> NULL]

\* sign_agreement: who may sign, when.
CanSign(row, u, owner) ==
    /\ row.status \in {"AWAITING_SIGNATURE", "SIGNED"}
    /\ IF u = row.tenant_id THEN ~ row.tenant_signature
       ELSE u = owner /\ ~ row.owner_signature

Signed(row, u) ==
    IF u = row.tenant_id THEN [row EXCEPT !.tenant_signature = TRUE]
    ELSE [row EXCEPT !.owner_signature = TRUE]

\* With the tenant's signature on it the advance p is owed.
Owing(row, p) == [row EXCEPT !.status = "AWAITING_PAYMENT", !.deposit_payment_id = p]

NewAdvance(tenant) == [tenant_id |-> tenant, status |-> "PENDING"]

CanUpload(pay) == pay.status \in {"PENDING", "OVERDUE", "REJECTED"}

CanMarkPaid(pay) == pay.status # "PAID"

PaymentNow(pay, status) == [pay EXCEPT !.status = status]

Activated(row) == [row EXCEPT !.status = "ACTIVE"]
=============================================================================
