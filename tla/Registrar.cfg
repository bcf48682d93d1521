SPECIFICATION FairSpec
CONSTANTS
    a1 = a1
    a2 = a2
    a3 = a3
    Addr = {a1, a2, a3}
    Ids <- AllIds
    Virgin = {}
    Persistent = {"mdns_scheduler"}
    Switched = {"mqtt_scheduler"}
    Casts <- AllCasts
    FaultyCasts <- Faulty
    NoAddr = NoAddr
CHECK_DEADLOCK FALSE
INVARIANT TypeOK
INVARIANT DictsAgree
INVARIANT NoOrphan
INVARIANT OnePerInstrument
INVARIANT NoFalseAlarm
INVARIANT ViewsAgree
PROPERTY GoneIsForgotten
