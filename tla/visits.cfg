SPECIFICATION Spec
CONSTANTS
    NULL = NULL
    Tenants = {x}
    Managers = {x, s1}
    SuperAdmins = {s1}
    Owner = o1
    Assignable = {x, s1}
    Slots = {a}
    Visits = {v1, v2}
    Proposals = {p1, p2, p3}
    Agreements = {g1}
    Payments = {}
SYMMETRY RowSymmetry
INVARIANTS TypeOK TurnIsOtherSides OnlyCurrentIsOpen
    StatusReflectsHistory TenantNeverActsAsStaff
PROPERTIES ConfirmedByOtherSide SettledStaysSettled TurnHandedOverIsAnnounced
CHECK_DEADLOCK FALSE
