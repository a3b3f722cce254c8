SPECIFICATION Spec
CONSTANTS
    NULL = NULL
    Requests = {r1, r2}
    Roles = {q1, q2}
    Codes = {c1, c2}
    MaxId = 3
SYMMETRY PermissionSymmetry
INVARIANT RoleHoldsWhatWasSet
