\* Two instruments of one server, in a white list or announced by mDNS.
SPECIFICATION FairSpec
CONSTANTS
  Scans = {scan1}
  i1 = i1
  i2 = i2
  Instruments <- TwoInstruments
  NoInstrument = none
  MaxChanges = 2
INVARIANT HostIsCreatedOnce
PROPERTY InstrumentGetsActor
PROPERTY UnreachableIsEmptied
PROPERTY OfflineIsShown
\* The Registrar may shut the system down.
CHECK_DEADLOCK FALSE
