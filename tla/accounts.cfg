SPECIFICATION AccountSpec
CONSTANTS
    NULL = NULL
    Instances = {i1, i2}
    Requests = {r1, r2}
    RoleIds = {1, 2}
    OwnerRole = 2
    CacheTtl = 2
INVARIANTS ActiveRoleHeld SomeRoleHeld
PROPERTIES SuspendedNotTakenUp SuspensionTakesEffect
