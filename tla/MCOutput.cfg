SPECIFICATION Spec
CONSTANTS
    Conns = {c1, c2}
    NULL = NULL
    Room = 2
    MaxLen = 3
    MaxMsgs = 2
    Width = 8
\* The clients may send no more.
CHECK_DEADLOCK FALSE
INVARIANT NoGap
INVARIANT KeptUpIsWhole
PROPERTY OutReturns
