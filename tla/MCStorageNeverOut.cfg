SPECIFICATION Spec
CONSTANTS
    DB_CONNS = 3
    MaxId = 3
    MaxDates = 2
INVARIANT NeverOut
