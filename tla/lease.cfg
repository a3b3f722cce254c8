SPECIFICATION Spec
CONSTANTS
    NULL = NULL
    Users = {t1, o1}
    Tenants = {t1}
    Owner = o1
    Visits = {v1}
    Agreements = {g1, g2}
    Payments = {p1, p2}
    Documents = {"police", "original"}
    MaxStays = 2
SYMMETRY RowSymmetry
INVARIANTS TypeOK GateMatchesAgreement TrackerTellsTruth LastApprovalActivates AdvancePerSignedAgreement OneAgreementToSign
PROPERTIES ActivationIsPaid
CHECK_DEADLOCK FALSE
