SPECIFICATION Spec
CONSTANTS
    Messages <- SmallMessages
    MaxMsgs = 2
\* The connection ends, and is idle for good when all has been sent.
CHECK_DEADLOCK FALSE
INVARIANT NoMixture
INVARIANT InOrder
INVARIANT FramingOK
