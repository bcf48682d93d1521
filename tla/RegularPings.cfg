\* Nothing but timers matters here: the same server and instruments.
SPECIFICATION FairSpec
CONSTANTS
  Scans = {scan1}
  i1 = i1
  i2 = i2
  Instruments <- TwoInstruments
  NoInstrument = none
  MaxChanges = 2
\* The Registrar may shut the system down.
CHECK_DEADLOCK FALSE
INVARIANT PingsGoOn
