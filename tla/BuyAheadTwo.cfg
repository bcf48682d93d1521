\* Two instruments at once, and a broker that may be as fast as the threads.
CONSTANTS
    Instruments = {i1, i2}
    Scripts <- ShortSessions
    MaxLeases = 1
    Slow = {"instrument"}

SPECIFICATION Spec

INVARIANT AnswersMatch
PROPERTY NoFrameOverwritten

\* The sessions come to an end.
CHECK_DEADLOCK FALSE
