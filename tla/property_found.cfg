SPECIFICATION Spec
CONSTANTS
    NULL = NULL
    Requests = {r1, r2}
    Fields = {f1, f2}
    Tenants = {t1, t2}
SYMMETRY ListingSymmetry
INVARIANT NeverSurfacesOccupied
