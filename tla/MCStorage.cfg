SPECIFICATION Spec
CONSTANTS
    DB_CONNS = 4
    MaxId = 4
    MaxDates = 2
INVARIANT IdsFresh
INVARIANT HandlesKept
INVARIANT OpenOnTop
INVARIANT RefusedGone
INVARIANT RegisteredStored
INVARIANT ListOK
