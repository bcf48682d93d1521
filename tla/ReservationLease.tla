--------------------------- MODULE ReservationLease ---------------------------
(***************************************************************************)
(* What a device actor promises about the reservation of its instrument:   *)
(* it belongs to at most one owner at a time, passes from one owner to     *)
(* another only after it was given back, and a client that is told it has  *)
(* the reservation does have it at that moment.                            *)
(***************************************************************************)
CONSTANTS Claims,   \* the requests of clients, reservation requests or others
          Owners,   \* the identities a reservation request names
          Nobody    \* the value that is no owner

VARIABLES claimant,  \* claimant[c]: for whom claim c asks
          holder,    \* the owner that has the reservation, or Nobody
          verdict    \* verdict[c]: what the client of claim c was told

leaseVars == <<claimant, holder, verdict>>

Verdicts == {"none", "granted", "refused", "failed"}

LeaseInit ==
    /\ claimant \in [Claims -> Owners \cup {Nobody}]
    /\ holder = Nobody
    /\ verdict = [c \in Claims |-> "none"]

Undecided == {c \in Claims : verdict[c] = "none"}

\* The clients of the claims in S are told v, those in F that they failed.
Tell(S, v, F) ==
    verdict' = [c \in Claims |-> IF c \in S THEN v
                                 ELSE IF c \in F THEN "failed" ELSE verdict[c]]

\* The reservation is with o, or free for o to take.
OpenTo(o) == holder \in {Nobody, o}

\* Claim c gets the reservation; any other claims may fail in the same step.
Grant(c) ==
    /\ OpenTo(claimant[c])
    /\ claimant[c] \in Owners
    /\ holder' = claimant[c]
    /\ \E F \in SUBSET (Undecided \ {c}) : Tell({c}, "granted", F)

\* Claim c is refused since another owner has the reservation.
Refuse(c) ==
    /\ ~OpenTo(claimant[c])
    /\ UNCHANGED holder
    /\ Tell({c}, "refused", {})

\* The reservation is given back, or is taken by an owner whose client no
\* longer listens, or stays; any claims may fail in the same step.
GiveBackTakeOrKeep ==
    /\ holder' = holder \/ holder' = Nobody \/ \E o \in Owners : OpenTo(o) /\ holder' = o
    /\ \E F \in SUBSET Undecided : Tell({}, "none", F)

LeaseNext ==
    /\ UNCHANGED claimant
    /\ \/ \E c \in Undecided : Grant(c) \/ Refuse(c)
       \/ GiveBackTakeOrKeep

LeaseSpec == LeaseInit /\ [][LeaseNext]_leaseVars

=============================================================================
