--------------------------- MODULE DeviceService -----------------------------
(***************************************************************************)
(* What the clients of a device actor may rely on: every request answered, *)
(* no request forgotten, the reservation an exclusive lease.  A device     *)
(* actor keeps these promises when its reservations need no redirector, no *)
(* one else changes its reservation and its backend answers within 20 s or *)
(* not at all (RedirectOwners = {}, ExternalUpdates and LateReplies =      *)
(* FALSE: an Instrument Server whose instruments are reserved by the MQTT  *)
(* scheduler).  For the answers it must also handle its timers in time     *)
(* (LateTimers = FALSE), for the lease no owner may renew its reservation  *)
(* while another request to reserve is being served (Renewals = FALSE).    *)
(***************************************************************************)
EXTENDS DeviceActor

Waiting(r) == r <= dev.arrived /\ dev.ans[r] = "none"

\* Either in the queue or in the lock, and the lock knows whom to answer.
Placed(r) ==
    \/ r \in InQueue(dev) /\ \A k \in dev.locked : dev.req[k] # r
    \/ /\ r \notin InQueue(dev)
       /\ Kind(r) \in dev.locked
       /\ dev.req[Kind(r)] = r
       /\ dev.sender[Kind(r)] = r

\* The handlers of the other kinds answer a new request at once and meddle with
\* the one that holds the lock: Reserve, GetDeviceStatus and StartMonitoring
\* overwrite its sender, Reserve and StopMonitoring release its lock.
SteadyKinds == {"Free", "GetRecentValue", "SetRtc"}
Steady(r) == Kind(r) \in SteadyKinds

\* "Every request shall either be in the queue or in the lock"
\* (device_actor.py, _lock_request): no client waits for a request that the
\* actor has lost sight of, for the kinds whose senders are never overwritten.
SteadyQueueOrLock == \A r \in Requests : Waiting(r) /\ Steady(r) => Placed(r)

\* _kill_myself leaves none of these clients without an answer.
KillAnswersEverybody == dev.onKill => \A r \in Requests : Waiting(r) => ~Steady(r)

\* As long as the device is not being killed a handler never asks the backend
\* for a request that is still in the queue, nor for one whose client was given
\* an answer before: a timed out request is not executed afterwards.
OnlyWaitingGoToBackend ==
    [][~dev.onKill => \A r \in dev'.jobs \ dev.jobs :
                         dev.ans[r] = "none" /\ r \notin InQueue(dev')]_vars

\* The abstract lease of the reservation, seen through the actor's attributes.
Lease ==
    INSTANCE ReservationLease
        WITH Claims <- Requests, Nobody <- NoOwner,
             claimant <- [r \in Requests |-> Owner(r)],
             holder <- IF Reserved(dev) THEN dev.rsv.owner ELSE NoOwner,
             verdict <- [r \in Requests |->
                            IF Kind(r) # "Reserve" THEN "none"
                            ELSE CASE dev.ans[r] = "none" -> "none"
                                   [] dev.ans[r] \in Successes -> "granted"
                                   [] dev.ans[r] = "OCCUPIED" -> "refused"
                                   [] OTHER -> "failed"]

\* The device actor implements the lease: see ReservationLease.
ReservationIsLease == Lease!LeaseSpec

\* Whoever is told that it has the reservation has it: the ReservationStatusMsg
\* tells "the result of the ReserveDeviceMsg" (actor_messages.py).  It does not
\* hold when owners renew their reservations.
GrantedHasReservation ==
    [][\A r \in Requests :
          Kind(r) = "Reserve" /\ dev.ans[r] = "none" /\ dev'.ans[r] \in Successes
             => Reserved(dev') /\ dev'.rsv.owner = Owner(r)]_vars

\* Every client of these kinds gets an answer in the end, though the backend may
\* be silent for ever.
SteadyAnswered == \A r \in Requests : Waiting(r) /\ Steady(r) ~> ~Waiting(r)

=============================================================================
