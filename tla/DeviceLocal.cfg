\* Two owners, and a backend that answers within 20 s or not at all.  Nobody renews a
\* reservation while another request to reserve is being served.
SPECIFICATION MCSpec
CONSTANTS
  MaxRequests = 3
  Kinds <- LeaseKinds
  a = a
  b = b
  Owners <- TwoOwners
  NoOwner = nobody
  RedirectOwners = {}
  SyncKinds = {}
  LateReplies = FALSE
  LateTimers = FALSE
  ExternalUpdates = FALSE
  Renewals = FALSE
INVARIANTS
  QueueInOrder
  RetryMeetsHead
  IdsInOrder
  SteadyQueueOrLock
  KillAnswersEverybody
PROPERTIES
  ReservationIsLease
  OnlyWaitingGoToBackend
  SteadyAnswered
CHECK_DEADLOCK FALSE
