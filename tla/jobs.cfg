SPECIFICATION JobSpec
CONSTANTS
    NULL = NULL
    Requests = {r1, r2}
    Providers = {p1, p2}
SYMMETRY JobSymmetry
INVARIANT ClosedIsDated
PROPERTY ReportIsAssignees
