SPECIFICATION OnboardingSpec
CONSTANTS
    NULL = NULL
    Tenants = {t1, t2}
    Managers = {}
    SuperAdmins = {s1}
    Owner = o1
    Assignable = {}
    Slots = {a, b}
    Visits = {v1, v2}
    Proposals = {p1, p2}
    Agreements = {g1, g2}
    Payments = {q1}
    Documents = {}
    MaxStays = 0
SYMMETRY RowSymmetry
INVARIANTS AppointmentIsAccepted TrackerFollowsVisit ApprovedHasAgreement AgreementsFollowApprovals
PROPERTIES AppointmentImplemented LeaseImplemented ConfirmNeverRegressesTracker
CHECK_DEADLOCK FALSE
