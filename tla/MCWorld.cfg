SPECIFICATION Spec
CONSTANTS
    None = None
    AreaLen = 2
    Half = 3
    Clients = {c1, c2}
    Ids = {u1, u2}
    Spawns <- OffAxisSpawns
    Steps <- OffAxisSteps
    Radii = {4, 7}
    MaxAoeRadius = 4
    MaxMoney = 1
    Scopes <- OffAxisScopes
SYMMETRY Users
INVARIANTS
    TypeOK
    Placed
    Single
    Mirrored
    QueryExact
    LoggedInHasUser
    NoPanic
PROPERTIES
    AoeFair
    MoneyKept
CHECK_DEADLOCK FALSE
