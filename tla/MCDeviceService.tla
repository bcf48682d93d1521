--------------------------- MODULE MCDeviceService ---------------------------
(* Values of the constants of DeviceService for TLC: the kinds of requests that *)
(* are about the reservation, and two owners.  Nothing tells the owners apart,  *)
(* so the first to reserve may be called a.                                     *)
EXTENDS DeviceService
CONSTANTS a, b
LeaseKinds == {"Reserve", "Free", "GetRecentValue"}
TwoOwners == {a, b}
MCInit ==
    /\ Init
    /\ \A r \in Requests :
        reqs[r].owner = b => \E s \in 1 .. r - 1 : reqs[s].owner = a
MCSpec == MCInit /\ [][Next]_vars /\ Fairness
=============================================================================
