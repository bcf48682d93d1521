\* Two servers and two instruments that may move from one to the other, or one.
SPECIFICATION MCSpec
CONSTANTS
  Servers = {s1, s2, elsewhere}
  Instruments = {i1, i2}
  First = s1
  Elsewhere = elsewhere
  Other = i2
  Nothing = nothing
  MaxChanges = 2
  MaxQueue = 4
INVARIANT NoOrphan
\* The world stops changing.
CHECK_DEADLOCK FALSE
PROPERTY InstrumentIsSeenAgain
PROPERTY GoneIsForgotten
PROPERTY GhostIsRemoved
