SPECIFICATION Spec
CONSTANTS
    None = None
    AreaLen = 1
    Half = 1
    Clients = {c1, c2}
    Ids = {u1, u2}
    Spawns <- AxisSpawns
    Steps <- AxisSteps
    Radii = {4, 7}
    MaxAoeRadius = 4
    MaxMoney = 1
    Scopes <- OffAxisScopes
INVARIANTS
    LoggedInHasUser
CHECK_DEADLOCK FALSE
