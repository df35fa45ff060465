SPECIFICATION Spec
CONSTANTS
    Procs = {p1, p2}
    Spaces = {s1, s2}
    NULL = NULL
    MaxId = 2
SYMMETRY Symmetry
INVARIANT OneOwner
INVARIANT Separate
INVARIANT RowsOK
INVARIANT EventsLoad
