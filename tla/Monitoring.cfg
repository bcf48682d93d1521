SPECIFICATION Spec
CONSTANT MaxRequests = 4
CHECK_DEADLOCK FALSE
INVARIANT TypeOK
INVARIANT StartIsPending
INVARIANT ValuesKeepComing
PROPERTY MonitoringResumes
