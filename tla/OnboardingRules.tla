--------------------------- MODULE OnboardingRules ---------------------------
(***************************************************************************)
(* The tracker row property_onboarding_workflows, one per property and     *)
(* tenant, and the marks app/services/onboarding_workflow_service.py puts  *)
(* on it.  Visits, agreements, payments and the document checklist all     *)
(* write the same row; every mark is an operator from the row before to    *)
(* the row after.                                                          *)
(*                                                                         *)
(* Timestamps are kept only where code reads them back: advance_approved   *)
(* and tenant_activated stand for advance_approved_at and                  *)
(* tenant_activated_at being set.  A document URL is kept as whether there *)
(* is one.                                                                 *)
(***************************************************************************)
EXTENDS Rows

WorkflowState ==
    {"INTERESTED", "VISIT_REQUESTED", "VISIT_SCHEDULED", "VISIT_APPROVED",
     "VISIT_REJECTED", "AGREEMENT_GENERATED", "TENANT_SIGNED",
     "ADVANCE_SUBMITTED", "ADVANCE_APPROVED", "POLICE_VERIFICATION_COMPLETED",
     "ORIGINAL_AGREEMENT_UPLOADED", "TENANT_ACTIVATED", "CANCELLED"}
ChecklistStatus == {"NOT_SUBMITTED", "SUBMITTED", "APPROVED", "REJECTED"}

\* The stages mark_visit_scheduled is allowed to advance from.
EarlyState == {"INTERESTED", "VISIT_REQUESTED"}

NewWorkflow ==
    [state |-> "VISIT_REQUESTED", visit_request_id |-> NULL, agreement_id |-> NULL,
     advance_approved |-> FALSE, tenant_activated |-> FALSE,
     police |-> "NOT_SUBMITTED", police_doc |-> FALSE,
     original |-> "NOT_SUBMITTED", original_doc |-> FALSE]

WorkflowRows(visits, agreements) ==
    [state: WorkflowState, visit_request_id: visits \cup {NULL},
     agreement_id: agreements \cup {NULL},
     advance_approved: BOOLEAN, tenant_activated: BOOLEAN,
     police: ChecklistStatus, police_doc: BOOLEAN,
     original: ChecklistStatus, original_doc: BOOLEAN]

-----------------------------------------------------------------------------
(***************************************************************************)
(* Mutations a careless edit could introduce.                              *)
(***************************************************************************)
MarkVisitScheduledAlways(w, v) ==
    [w EXCEPT !.visit_request_id = v, !.state = "VISIT_SCHEDULED"]

MarkAgreementGeneratedKeepingLink(w, g) ==
    [w EXCEPT !.state = "AGREEMENT_GENERATED"]

MarkAdvanceApprovedOnly(w) ==
    [w EXCEPT !.state = "ADVANCE_APPROVED", !.advance_approved = TRUE]

SubmitPoliceAsReceipt(w) ==
    [w EXCEPT !.police = "AWAITING_VERIFICATION", !.police_doc = TRUE]

MarkVisitBookedKeepingLink(w, v) == [w EXCEPT !.state = "VISIT_REQUESTED"]

-----------------------------------------------------------------------------
\* _get_or_create_workflow on the row found for the property and tenant.
GetOrCreate(w) == IF w = NULL THEN NewWorkflow ELSE w

\* mark_visit_booked sets the state whatever it was.
MarkVisitBooked(w, v) ==
    [w EXCEPT !.visit_request_id = v, !.state = "VISIT_REQUESTED"]

\* mark_visit_scheduled only advances a row still in an early stage.
MarkVisitScheduled(w, v) ==
    [w EXCEPT !.visit_request_id = v,
              !.state = IF @ \in EarlyState THEN "VISIT_SCHEDULED" ELSE @]

MarkVisitResult(w, v, approved) ==
    [w EXCEPT !.visit_request_id = v,
              !.state = IF approved THEN "VISIT_APPROVED" ELSE "VISIT_REJECTED"]

MarkAgreementGenerated(w, g) ==
    [w EXCEPT !.agreement_id = g, !.state = "AGREEMENT_GENERATED"]

MarkTenantSigned(w) == [w EXCEPT !.state = "TENANT_SIGNED"]

MarkAdvanceSubmitted(w) == [w EXCEPT !.state = "ADVANCE_SUBMITTED"]

\* _try_activate_tenant: all three gates approved completes the onboarding.
TryActivateTenant(w) ==
    IF w.advance_approved /\ w.police = "APPROVED" /\ w.original = "APPROVED"
    THEN [w EXCEPT !.state = "TENANT_ACTIVATED", !.tenant_activated = TRUE]
    ELSE w

MarkAdvanceApproved(w) ==
    TryActivateTenant([w EXCEPT !.state = "ADVANCE_APPROVED",
                                !.advance_approved = TRUE])

-----------------------------------------------------------------------------
(***************************************************************************)
(* The document checklist and cancellation.                                *)
(***************************************************************************)
SubmitPolice(w)   == [w EXCEPT !.police = "SUBMITTED", !.police_doc = TRUE]

SubmitOriginal(w) == [w EXCEPT !.original = "SUBMITTED", !.original_doc = TRUE]

ReviewPolice(w, approve) ==
    IF approve
    THEN TryActivateTenant([w EXCEPT !.police = "APPROVED",
                                     !.state = "POLICE_VERIFICATION_COMPLETED"])
    ELSE [w EXCEPT !.police = "REJECTED"]

ReviewOriginal(w, approve) ==
    IF approve
    THEN TryActivateTenant([w EXCEPT !.original = "APPROVED",
                                     !.state = "ORIGINAL_AGREEMENT_UPLOADED"])
    ELSE [w EXCEPT !.original = "REJECTED"]

CanCancelWorkflow(w) == w.state \notin {"CANCELLED", "TENANT_ACTIVATED"}

CancelWorkflow(w) == [w EXCEPT !.state = "CANCELLED"]
=============================================================================
