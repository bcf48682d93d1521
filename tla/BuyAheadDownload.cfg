\* Downloads of one instrument over a slow line and a slow broker.
CONSTANTS
    Instruments = {i1}
    Scripts <- Downloads
    MaxLeases = 3
    Slow = {"instrument", "broker"}

SPECIFICATION FairSpec

INVARIANT TypeOK
PROPERTY BehavesLikeDirectLine

\* The sessions come to an end.
CHECK_DEADLOCK FALSE
