SPECIFICATION FairSpec
CONSTANTS
  MaxRequests = 2
  Kinds <- LiveKinds
  Owners = {a}
  NoOwner = nobody
  RedirectOwners = {a}
  SyncKinds <- AnsweredAtOnce
  LateReplies = TRUE
  LateTimers = TRUE
  ExternalUpdates = TRUE
  Renewals = TRUE
INVARIANTS
  TypeOK
  AtMostOneLocked
  TimerGuardsRequest
PROPERTIES
  LockIsReleased
CHECK_DEADLOCK FALSE
