\* Nothing changes, but the client is not the only one.
SPECIFICATION ContendedSpec
CONSTANTS
  Servers = {s1, elsewhere}
  Instruments = {i1}
  First = s1
  Elsewhere = elsewhere
  Other = i1
  Nothing = nothing
  MaxChanges = 0
  MaxQueue = 4
PROPERTY InstrumentIsSeen
CHECK_DEADLOCK FALSE
