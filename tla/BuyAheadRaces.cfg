\* One instrument, no assumption about the speed of anybody.
CONSTANTS
    Instruments = {i1}
    Scripts <- AllSessions
    MaxLeases = 3
    Slow = {}

SPECIFICATION Spec

INVARIANT NobodyOversleeps

\* The sessions come to an end.
CHECK_DEADLOCK FALSE
