SPECIFICATION Spec
CONSTANTS
    NULL = NULL
    Requests = {r1, r2}
    Tokens = {k1, k2, k3}
    AccessLife = 2
    RefreshLife = 3
    BlacklistTtl = 1
SYMMETRY TokenSymmetry
PROPERTIES LoggedOutStaysOut ExchangedStaysUsed
