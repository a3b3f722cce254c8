SPECIFICATION Spec
CONSTANTS
    Requests = {r1, r2}
    Tenants = {t1, t2}
    Copies = {c1, c2}
    Months = 2
SYMMETRY RentSymmetry
INVARIANTS BilledByOverlapOnly NobodyIsForgotten
