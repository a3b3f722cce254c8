SPECIFICATION Spec
CONSTANTS
    NULL = NULL
    Tenants = {x}
    Managers = {x, m1}
    SuperAdmins = {s1}
    Owner = o1
    Assignable = {x, m1}
    Slots = {a, b}
    Visits = {v1, v2}
    Proposals = {p1, p2, p3}
    Agreements = {g1}
    Payments = {}
SYMMETRY RowSymmetry
INVARIANT NoDuplicateActiveRequest
CHECK_DEADLOCK FALSE
