-------------------------- MODULE DeviceActor_proofs --------------------------
(***************************************************************************)
(* Proofs about the device actor for every number of requests, every set   *)
(* of kinds and owners and every kind of backend: type correctness, the    *)
(* mutex of the request locks, the order of the queue, and that every      *)
(* request the actor has accepted is guarded by a timer until it leaves    *)
(* the queue and the locks.                                                *)
(***************************************************************************)
EXTENDS DeviceActor, TLAPS, SequenceTheorems

-----------------------------------------------------------------------------
(* The discipline of the queue and the locks, the inductive invariant.     *)

\* At most one lock is held, by a request that arrived before all that wait.
LocksSound(d) ==
    /\ \A k, l \in d.locked : k = l
    /\ \A k \in AllKinds : d.req[k] <= d.arrived
    /\ \A k \in d.locked : /\ d.req[k] \in d.timers
                           /\ \A i \in 1 .. Len(d.queue) : d.req[k] < d.queue[i]

\* The queue holds requests in the order of arrival, with ascending ids.
QueueSound(d) ==
    /\ \A i, j \in 1 .. Len(d.queue) :
          i < j => /\ d.queue[i] < d.queue[j]
                   /\ d.id[d.queue[i]] < d.id[d.queue[j]]
    /\ \A i \in 1 .. Len(d.queue) : /\ d.queue[i] <= d.arrived
                                    /\ d.queue[i] \in d.timers
                                    /\ d.id[d.queue[i]] <= d.lastId

\* Only the head of the queue can be waiting for a retry.
RetriesSound(d) ==
    \A r \in d.retries : /\ r <= d.arrived
                         /\ \A i \in 1 .. Len(d.queue) : r = d.queue[i] => i = 1

Sound(d) ==
    /\ d \in DeviceState
    /\ LocksSound(d)
    /\ QueueSound(d)
    /\ RetriesSound(d)

\* What a reply, a refusal or the kill of the device does to queue and locks:
\* it may release locks and touches nothing else of them.
Releases(d, e) ==
    /\ e \in DeviceState
    /\ e.arrived = d.arrived
    /\ e.queue = d.queue
    /\ e.id = d.id
    /\ e.lastId = d.lastId
    /\ e.req = d.req
    /\ e.timers = d.timers
    /\ e.retries = d.retries
    /\ e.locked \subseteq d.locked

LEMMA ReleasesSound ==
    ASSUME NEW d, NEW e, Sound(d), Releases(d, e)
    PROVE  Sound(e)
BY DEF Sound, Releases, LocksSound, QueueSound, RetriesSound

LEMMA ReleasesReflexive ==
    ASSUME NEW d \in DeviceState
    PROVE  Releases(d, d)
BY DEF Releases

LEMMA ReleasesTransitive ==
    ASSUME NEW d, NEW e, NEW f, Releases(d, e), Releases(e, f)
    PROVE  Releases(d, f)
BY DEF Releases

-----------------------------------------------------------------------------
(* The replies only release locks. *)

Clients == 0 .. MaxRequests

Answers == [Requests -> Status \cup {"none", "POISON"}]

LEMMA NewAnswers ==
    ASSUME NEW d \in DeviceState, NEW a \in Answers
    PROVE  Releases(d, [d EXCEPT !.ans = a])
<1>1. [d EXCEPT !.ans = a] \in DeviceState
  BY DEF DeviceState, Answers
<1>2. QED
  BY <1>1 DEF Releases, DeviceState

LEMMA AnswerReleases ==
    ASSUME NEW d \in DeviceState, NEW to \in Clients, NEW st \in Status \cup {"POISON"}
    PROVE  Releases(d, Answer(d, to, st))
<1>1. CASE to # NoReq /\ d.ans[to] = "none"
  <2>1. to \in Requests
    BY <1>1 DEF Clients, NoReq, Requests
  <2>2. PICK a \in Answers : Answer(d, to, st) = [d EXCEPT !.ans = a]
    BY <1>1, <2>1 DEF Answer, DeviceState, Answers
  <2>3. QED
    BY <2>2, NewAnswers
<1>2. CASE ~(to # NoReq /\ d.ans[to] = "none")
  BY <1>2, ReleasesReflexive DEF Answer
<1>3. QED
  BY <1>1, <1>2

LEMMA UnlockAndReturn ==
    ASSUME NEW d \in DeviceState, NEW L \in SUBSET d.locked, NEW st \in Status \cup {"None"}
    PROVE  Releases(d, [d EXCEPT !.locked = L, !.ret = st])
<1>1. L \in SUBSET AllKinds
  BY DEF DeviceState
<1>2. [d EXCEPT !.locked = L, !.ret = st] \in DeviceState
  BY <1>1 DEF DeviceState
<1>3. QED
  BY <1>2 DEF Releases, DeviceState

LEMMA SendReservationStatusReleases ==
    ASSUME NEW d \in DeviceState, NEW to \in Clients
    PROVE  Releases(d, SendReservationStatus(d, to))
<1>1. CASE d.ret = "None"
  BY <1>1, ReleasesReflexive DEF SendReservationStatus
<1>2. CASE d.ret # "None"
  <2>1. d.ret \in Status
    BY <1>2 DEF DeviceState
  <2> DEFINE e == Answer(d, to, d.ret)
             L == IF d.ret = "OCCUPIED" THEN e.locked ELSE e.locked \ {"Reserve"}
  <2>2. Releases(d, e) /\ e \in DeviceState
    BY <2>1, AnswerReleases DEF Releases
  <2>3. SendReservationStatus(d, to) = [e EXCEPT !.locked = L, !.ret = "None"]
    BY <1>2 DEF SendReservationStatus
  <2> HIDE DEF e
  <2>4. Releases(e, [e EXCEPT !.locked = L, !.ret = "None"])
    BY <2>2, UnlockAndReturn
  <2>5. QED
    BY <2>2, <2>3, <2>4, ReleasesTransitive
<1>3. QED
  BY <1>1, <1>2

LEMMA SendFreeStatusReleases ==
    ASSUME NEW d \in DeviceState, NEW to \in Clients
    PROVE  Releases(d, SendFreeStatus(d, to))
<1>1. CASE d.ret = "None"
  BY <1>1, ReleasesReflexive DEF SendFreeStatus
<1>2. CASE d.ret # "None"
  <2>1. d.ret \in Status
    BY <1>2 DEF DeviceState
  <2> DEFINE e == Answer(d, to, d.ret)
             L == IF d.ret = "OK_SKIPPED" THEN e.locked ELSE e.locked \ {"Free"}
  <2>2. Releases(d, e) /\ e \in DeviceState
    BY <2>1, AnswerReleases DEF Releases
  <2>3. SendFreeStatus(d, to) = [e EXCEPT !.locked = L, !.ret = "None"]
    BY <1>2 DEF SendFreeStatus
  <2> HIDE DEF e
  <2>4. Releases(e, [e EXCEPT !.locked = L, !.ret = "None"])
    BY <2>2, UnlockAndReturn
  <2>5. QED
    BY <2>2, <2>3, <2>4, ReleasesTransitive
<1>3. QED
  BY <1>1, <1>2

ReqsOK == reqs \in [Requests -> Demands]

LEMMA OwnerType ==
    ASSUME ReqsOK, NEW m \in Clients
    PROVE  Owner(m) \in Owners \cup {NoOwner}
BY DEF ReqsOK, Clients, Owner, NoReq, Requests, Demands

LEMMA KindType ==
    ASSUME ReqsOK, NEW r \in Requests
    PROVE  Kind(r) \in AllKinds
BY DeviceActorAssumption DEF ReqsOK, Kind, Demands

LEMMA NewReservation ==
    ASSUME NEW d \in DeviceState, NEW v \in Reservation
    PROVE  Releases(d, [d EXCEPT !.rsv = v])
<1>1. [d EXCEPT !.rsv = v] \in DeviceState
  BY DEF DeviceState
<1>2. QED
  BY <1>1 DEF Releases, DeviceState

LEMMA NewReturn ==
    ASSUME NEW d \in DeviceState, NEW st \in Status \cup {"None"}
    PROVE  Releases(d, [d EXCEPT !.ret = st])
<1>1. [d EXCEPT !.ret = st] \in DeviceState
  BY DEF DeviceState
<1>2. QED
  BY <1>1 DEF Releases, DeviceState

LEMMA WriteReservationReleases ==
    ASSUME ReqsOK, NEW d \in DeviceState, NEW port \in BOOLEAN
    PROVE  Releases(d, WriteReservation(d, port))
<1>1. d.msg \in Clients
  BY DEF DeviceState, Clients
<1>2. [active |-> TRUE, owner |-> Owner(d.msg), port |-> port] \in Reservation
  BY <1>1, OwnerType DEF Reservation
<1>3. QED
  BY <1>2, NewReservation DEF WriteReservation

LEMMA RedirectorReleases ==
    ASSUME NEW d \in DeviceState
    PROVE  /\ Releases(d, CreateRedirector(d))
           /\ Releases(d, KillRedirector(d))
<1>1. CreateRedirector(d) \in DeviceState
  BY DEF DeviceState, CreateRedirector
<1>2. (d.child # "none") \in BOOLEAN
  OBVIOUS
<1>3. \A b \in BOOLEAN : Releases(d, [d EXCEPT !.kill = b])
  <2>1. \A b \in BOOLEAN : [d EXCEPT !.kill = b] \in DeviceState
    BY DEF DeviceState
  <2>2. QED
    BY <2>1 DEF Releases, DeviceState
<1>4. Releases(d, KillRedirector(d))
  BY <1>2, <1>3, Zenon DEF KillRedirector
<1>5. Releases(d, CreateRedirector(d))
  BY <1>1 DEF Releases, CreateRedirector, DeviceState
<1>6. QED
  BY <1>4, <1>5

LEMMA ReserveGrantedReleases ==
    ASSUME ReqsOK, NEW d \in DeviceState, NEW to \in Clients
    PROVE  Releases(d, ReserveGranted(d, to))
<1> DEFINE occupied == [d EXCEPT !.ret = "OCCUPIED"]
           ok == [d EXCEPT !.ret = "OK"]
           e == IF Reserved(d) THEN ok ELSE d
<1>1. Releases(d, occupied) /\ Releases(d, ok)
  <2>1. {"OCCUPIED", "OK"} \subseteq Status
    BY DEF Status, Successes
  <2>2. QED
    BY <2>1, NewReturn
<1>2. Releases(d, SendReservationStatus(occupied, to))
  <2>1. occupied \in DeviceState
    BY <1>1 DEF Releases
  <2> HIDE DEF occupied
  <2>2. QED
    BY <1>1, <2>1, SendReservationStatusReleases, ReleasesTransitive
<1>3. Releases(d, e)
  BY <1>1, ReleasesReflexive
<1>4. e \in DeviceState
  BY <1>3 DEF Releases
<1> HIDE DEF e
<1>5. Releases(d, WriteReservation(e, FALSE))
  BY <1>3, <1>4, WriteReservationReleases, ReleasesTransitive
<1>6. Releases(d, SendReservationStatus(WriteReservation(e, FALSE), to))
  <2>1. WriteReservation(e, FALSE) \in DeviceState
    BY <1>5 DEF Releases
  <2>2. QED
    BY <1>5, <2>1, SendReservationStatusReleases, ReleasesTransitive
<1>7. Releases(d, CreateRedirector(e))
  BY <1>3, <1>4, RedirectorReleases, ReleasesTransitive
<1>8. Releases(d, SendReservationStatus(e, to))
  BY <1>3, <1>4, SendReservationStatusReleases, ReleasesTransitive
<1>9. QED
  BY <1>2, <1>6, <1>7, <1>8 DEF ReserveGranted, e

LEMMA ReserveReplyReleases ==
    ASSUME ReqsOK, NEW d \in DeviceState, NEW st \in Status, NEW to \in Clients
    PROVE  Releases(d, ReserveReply(d, st, to))
<1> DEFINE L == IF st = "OCCUPIED" THEN d.locked ELSE d.locked \ {"Reserve"}
           e == [d EXCEPT !.locked = L, !.ret = st]
<1>1. Releases(d, e)
  BY UnlockAndReturn
<1>2. e \in DeviceState
  BY <1>1 DEF Releases
<1>3. ReserveReply(d, st, to) = CASE st \in Successes -> ReserveGranted(e, to)
                                  [] st \in Failures -> SendReservationStatus(e, to)
                                  [] OTHER -> e
  BY DEF ReserveReply
<1> HIDE DEF e
<1>4. Releases(d, ReserveGranted(e, to)) /\ Releases(d, SendReservationStatus(e, to))
  BY <1>1, <1>2, ReserveGrantedReleases, SendReservationStatusReleases, ReleasesTransitive
<1>5. Successes \cap Failures = {}
  BY DEF Successes, Failures
<1>6. QED
  BY <1>1, <1>3, <1>4, <1>5

LEMMA FreeReplyReleases ==
    ASSUME ReqsOK, NEW d \in DeviceState, NEW st \in Status, NEW to \in Clients
    PROVE  Releases(d, FreeReply(d, st, to))
<1> DEFINE freed == st \in Successes
           L == IF st = "OK_SKIPPED" THEN d.locked ELSE d.locked \ {"Free"}
           v == IF freed THEN [d.rsv EXCEPT !.active = FALSE] ELSE d.rsv
           ret == IF freed /\ ~(d.rsv.owner # NoOwner) THEN "OK_SKIPPED" ELSE st
           e == [d EXCEPT !.locked = L, !.rsv = v, !.ret = ret]
<1>1. L \in SUBSET d.locked /\ L \in SUBSET AllKinds
  BY DEF DeviceState
<1>2. v \in Reservation
  BY DEF DeviceState, Reservation
<1>3. ret \in Status \cup {"None"}
  BY DEF Status, Successes
<1>4. FreeReply(d, st, to) = IF d.child # "none" THEN KillRedirector(e) ELSE SendFreeStatus(e, to)
  <2>1. e.child = d.child
    BY DEF DeviceState
  <2>2. QED
    BY <2>1 DEF FreeReply
<1> HIDE DEF L, v, ret
<1>5. e \in DeviceState
  BY <1>1, <1>2, <1>3 DEF DeviceState
<1>6. Releases(d, e)
  BY <1>1, <1>5 DEF Releases, DeviceState
<1> HIDE DEF e
<1>7. QED
  BY <1>4, <1>5, <1>6, RedirectorReleases, SendFreeStatusReleases, ReleasesTransitive

LEMMA SimpleReplyReleases ==
    ASSUME NEW d \in DeviceState, NEW k \in AllKinds, NEW st \in Status, NEW to \in Clients
    PROVE  Releases(d, SimpleReply(d, k, st, to))
<1>1. Releases(d, [d EXCEPT !.poison = TRUE])
  <2>1. [d EXCEPT !.poison = TRUE] \in DeviceState
    BY DEF DeviceState
  <2>2. QED
    BY <2>1 DEF Releases, DeviceState
<1> DEFINE e == Answer(d, to, st)
<1>2. Releases(d, e)
  BY AnswerReleases
<1>3. e \in DeviceState
  BY <1>2 DEF Releases
<1> HIDE DEF e
<1>4. \A L \in SUBSET e.locked : Releases(e, [e EXCEPT !.locked = L])
  <2> TAKE L \in SUBSET e.locked
  <2>1. L \in SUBSET AllKinds
    BY <1>3 DEF DeviceState
  <2>2. [e EXCEPT !.locked = L] \in DeviceState
    BY <1>3, <2>1 DEF DeviceState
  <2>3. QED
    BY <1>3, <2>2 DEF Releases, DeviceState
<1> DEFINE L == IF st = "OCCUPIED" THEN e.locked ELSE e.locked \ {k}
<1>5. Releases(d, [e EXCEPT !.locked = L])
  BY <1>2, <1>4, ReleasesTransitive
<1>6. SimpleReply(d, k, st, to) = IF Raises(d, k) THEN [d EXCEPT !.poison = TRUE]
                                  ELSE [e EXCEPT !.locked = L]
  BY DEF SimpleReply, e
<1>7. QED
  BY <1>1, <1>5, <1>6

LEMMA ReplyReleases ==
    ASSUME ReqsOK, NEW d \in DeviceState, NEW k \in AllKinds, NEW st \in Status,
           NEW to \in Clients
    PROVE  Releases(d, Reply(d, k, st, to))
BY ReserveReplyReleases, FreeReplyReleases, SimpleReplyReleases DEF Reply

LEMMA KillMyselfReleases ==
    ASSUME NEW d \in DeviceState
    PROVE  Releases(d, KillMyself(d)) /\ (~d.onKill => KillMyself(d).locked = {})
<1> DEFINE a == [r \in Requests |-> IF r \in ToldOnKill(d) /\ d.ans[r] = "none"
                                     THEN "NOT_FOUND" ELSE d.ans[r]]
           x == IF d.child = "none" THEN "requested" ELSE d.exit
           b == d.child # "none"
           m == ReturnMessageOnKill(d)
           e == [d EXCEPT !.ans = a, !.ret = m, !.locked = {}, !.onKill = TRUE,
                          !.kill = b, !.exit = x]
<1>1. KillMyself(d) = IF d.onKill THEN d ELSE e
  BY Zenon DEF KillMyself
<1>2. a \in Answers
  BY DEF Answers, DeviceState, Status, Failures
<1>3. m \in Status \cup {"None"}
  <2>1. m = d.ret \/ m = "NOT_FOUND" \/ m = "None"
    BY Zenon DEF ReturnMessageOnKill
  <2>2. QED
    BY <2>1 DEF DeviceState, Status, Failures
<1>4. x \in {"no", "requested", "done"}
  BY DEF DeviceState
<1>5. b \in BOOLEAN
  OBVIOUS
<1> HIDE DEF a, x, b, m
<1>6. e \in DeviceState
  BY <1>2, <1>3, <1>4, <1>5 DEF DeviceState, Answers
<1>7. Releases(d, e) /\ e.locked = {}
  BY <1>6 DEF Releases, DeviceState
<1>8. QED
  BY <1>1, <1>7, ReleasesReflexive

-----------------------------------------------------------------------------
(* The workers keep the discipline. *)

\* From d to e no request has entered the queue, and only requests that were
\* in the queue have taken locks.
Advances(d, e) ==
    /\ e.arrived = d.arrived
    /\ e.id = d.id
    /\ e.timers = d.timers
    /\ \A i \in 1 .. Len(e.queue) : \E j \in 1 .. Len(d.queue) : e.queue[i] = d.queue[j]
    /\ \A k \in e.locked : \/ k \in d.locked /\ e.req[k] = d.req[k]
                           \/ \E j \in 1 .. Len(d.queue) : e.req[k] = d.queue[j]

LEMMA ReleasesAdvances ==
    ASSUME NEW d, NEW e, Releases(d, e)
    PROVE  Advances(d, e)
BY DEF Releases, Advances

LEMMA AdvancesTransitive ==
    ASSUME NEW d, NEW e, NEW f, Advances(d, e), Advances(e, f)
    PROVE  Advances(d, f)
<1>1. /\ f.arrived = d.arrived /\ f.id = d.id /\ f.timers = d.timers
      /\ \A i \in 1 .. Len(f.queue) : \E j \in 1 .. Len(d.queue) : f.queue[i] = d.queue[j]
  BY DEF Advances
<1>2. ASSUME NEW k \in f.locked
      PROVE  \/ k \in d.locked /\ f.req[k] = d.req[k]
             \/ \E j \in 1 .. Len(d.queue) : f.req[k] = d.queue[j]
  BY <1>2 DEF Advances
<1>3. QED
  BY <1>1, <1>2 DEF Advances

LEMMA InQueueIndex ==
    ASSUME NEW d \in DeviceState, NEW r
    PROVE  r \in InQueue(d) <=> \E i \in 1 .. Len(d.queue) : d.queue[i] = r
<1>1. DOMAIN d.queue = 1 .. Len(d.queue)
  BY DEF DeviceState
<1>2. QED
  BY <1>1 DEF InQueue, ToSet

\* A worker that finds a lock held leaves the queue as it is.
LEMMA BlockedSound ==
    ASSUME NEW d, Sound(d), d.queue # << >>, NEW r, r = Head(d.queue)
    PROVE  LET e == Blocked(d, r)
           IN  Sound(e) /\ Advances(d, e) /\ e.queue = d.queue /\ e.locked \subseteq d.locked
<1>1. d \in DeviceState
  BY DEF Sound
<1>2. CASE Old(Holder(d))
  <2>1. Blocked(d, r) = KillMyself(d)
    BY <1>2 DEF Blocked
  <2>2. Releases(d, KillMyself(d))
    BY <1>1, KillMyselfReleases
  <2>3. QED
    BY <2>1, <2>2, ReleasesSound, ReleasesAdvances DEF Releases
<1>3. CASE ~Old(Holder(d))
  <2> DEFINE e == [d EXCEPT !.retries = d.retries \cup {r}]
  <2>1. Blocked(d, r) = e
    BY <1>3 DEF Blocked
  <2>2. /\ 1 \in 1 .. Len(d.queue)
        /\ r = d.queue[1]
        /\ r \in Requests
    BY <1>1 DEF DeviceState
  <2>3. d.retries \cup {r} \in SUBSET Requests
    BY <1>1, <2>2 DEF DeviceState
  <2>4. /\ e \in DeviceState
        /\ e.retries = d.retries \cup {r}
        /\ e.queue = d.queue /\ e.locked = d.locked /\ e.arrived = d.arrived
        /\ e.req = d.req /\ e.timers = d.timers /\ e.id = d.id /\ e.lastId = d.lastId
    BY <1>1, <2>3 DEF DeviceState
  <2> HIDE DEF e
  <2>5. LocksSound(e) /\ QueueSound(e)
    BY <2>4 DEF Sound, LocksSound, QueueSound
  <2>6. r <= d.arrived
    BY <2>2 DEF Sound, QueueSound
  <2>7. ASSUME NEW i \in 1 .. Len(d.queue), r = d.queue[i]
        PROVE  i = 1
    <3>1. \A j \in 1 .. Len(d.queue) : 1 < j => d.queue[1] < d.queue[j]
      BY <2>2 DEF Sound, QueueSound
    <3>2. QED
      BY <1>1, <2>2, <2>7, <3>1 DEF DeviceState, Requests
  <2>8. RetriesSound(e)
    BY <2>4, <2>6, <2>7 DEF Sound, RetriesSound
  <2>9. QED
    BY <2>1, <2>4, <2>5, <2>8 DEF Sound, Advances
<1>4. QED
  BY <1>2, <1>3

LEMMA FifoHeldSound ==
    ASSUME NEW d, Sound(d)
    PROVE  LET e == FifoHeld(d)
           IN  Sound(e) /\ Advances(d, e) /\ e.queue = d.queue /\ e.locked \subseteq d.locked
BY BlockedSound DEF FifoHeld, Advances

\* The request that _lock_request pops is the one that takes the lock, and no
\* retry of another one is left behind.
LEMMA TakeLockSound ==
    ASSUME ReqsOK, NEW d, Sound(d), d.locked = {}, d.queue # << >>, NEW r, r = Head(d.queue)
    PROVE  LET e == TakeLock(d, r)
           IN  /\ Sound(e)
               /\ Advances(d, e)
               /\ e.queue = Tail(d.queue)
               /\ e.locked = {Kind(r)}
<1> DEFINE q == Tail(d.queue)
           n == IF Len(d.queue) = 1 THEN 0 ELSE d.lastId
           k == Kind(r)
           f == [d.req EXCEPT ![k] = r]
           g == [d.sender EXCEPT ![k] = r]
           e == [d EXCEPT !.queue = q, !.lastId = n, !.locked = {k}, !.req = f, !.sender = g]
<1>1. d \in DeviceState /\ d.queue \in Seq(Requests)
  BY DEF Sound, DeviceState
<1>2. /\ 1 \in 1 .. Len(d.queue)
      /\ r = d.queue[1]
      /\ r \in Requests
  BY <1>1
<1>3. k \in AllKinds
  BY <1>2, KindType
<1>4. /\ q \in Seq(Requests)
      /\ Len(q) = Len(d.queue) - 1
      /\ \A i \in 1 .. Len(q) : i + 1 \in 1 .. Len(d.queue) /\ q[i] = d.queue[i + 1]
  BY <1>1
<1>5. n \in Nat
  BY <1>1 DEF DeviceState
<1>6. /\ f \in [AllKinds -> 0 .. MaxRequests]
      /\ g \in [AllKinds -> 0 .. MaxRequests]
      /\ f[k] = r
      /\ \A l \in AllKinds : l # k => f[l] = d.req[l]
  BY <1>1, <1>2, <1>3 DEF DeviceState, Requests
<1>7. d.locked \cup {k} = {k}
  OBVIOUS
<1>8. TakeLock(d, r) = e
  <2>1. TakeLock(d, r) = [d EXCEPT !.queue = q, !.lastId = n, !.locked = {k},
                                   !.req = f, !.sender = g]
    BY <1>1, <1>7 DEF TakeLock, DeviceState
  <2>2. QED
    BY <2>1
<1> HIDE DEF q, n, f, g
<1>9. /\ e \in DeviceState
      /\ e.queue = q /\ e.lastId = n /\ e.locked = {k} /\ e.req = f
      /\ e.arrived = d.arrived /\ e.id = d.id /\ e.timers = d.timers /\ e.retries = d.retries
  BY <1>1, <1>3, <1>4, <1>5, <1>6 DEF DeviceState
<1> HIDE DEF e
<1>10. r <= d.arrived /\ r \in d.timers
  BY <1>2 DEF Sound, QueueSound
<1>11. \A i \in 1 .. Len(q) : r < q[i] /\ q[i] # r
  <2>1. \A j \in 1 .. Len(d.queue) : 1 < j => d.queue[1] < d.queue[j]
    BY <1>2 DEF Sound, QueueSound
  <2>2. QED
    BY <1>1, <1>2, <1>4, <2>1 DEF Requests
<1>12. LocksSound(e)
  BY <1>3, <1>6, <1>9, <1>10, <1>11 DEF Sound, LocksSound
<1>13. QueueSound(e)
  <2>1. ASSUME NEW i \in 1 .. Len(q), NEW j \in 1 .. Len(q), i < j
        PROVE  q[i] < q[j] /\ d.id[q[i]] < d.id[q[j]]
    BY <1>4, <2>1 DEF Sound, QueueSound
  <2>2. ASSUME NEW i \in 1 .. Len(q)
        PROVE  q[i] <= d.arrived /\ q[i] \in d.timers /\ d.id[q[i]] <= n
    BY <1>4, <2>2 DEF Sound, QueueSound, n
  <2>3. QED
    BY <1>9, <2>1, <2>2 DEF QueueSound
<1>14. RetriesSound(e)
  <2>1. ASSUME NEW s \in d.retries, NEW i \in 1 .. Len(q), s = q[i]
        PROVE  FALSE
    BY <1>4, <2>1 DEF Sound, RetriesSound
  <2>2. QED
    BY <1>9, <2>1 DEF Sound, RetriesSound
<1>15. Advances(d, e)
  <2>1. \A l \in e.locked : e.req[l] = d.queue[1]
    BY <1>2, <1>6, <1>9
  <2>2. QED
    BY <1>2, <1>4, <1>9, <2>1 DEF Advances
<1>16. QED
  BY <1>8, <1>9, <1>12, <1>13, <1>14, <1>15 DEF Sound, q

LEMMA CallBackendSound ==
    ASSUME ReqsOK, NEW d, Sound(d), NEW r \in Requests
    PROVE  LET e == CallBackend(d, r)
           IN  Sound(e) /\ Advances(d, e) /\ e.queue = d.queue /\ e.locked \subseteq d.locked
<1>1. r \in Clients /\ Kind(r) \in AllKinds
  BY KindType DEF Clients, Requests
<1>2. CASE Kind(r) \in SyncKinds
  <2> DEFINE f == FifoHeld(d)
  <2>1. Sound(f) /\ Advances(d, f) /\ f.queue = d.queue /\ f.locked \subseteq d.locked
    BY FifoHeldSound
  <2> HIDE DEF f
  <2>2. Releases(f, Reply(f, Kind(r), "OK", r))
    BY <1>1, <2>1, ReplyReleases DEF Sound, Status, Successes
  <2>3. CallBackend(d, r) = Reply(f, Kind(r), "OK", r)
    BY <1>2 DEF CallBackend, f
  <2>4. /\ Sound(Reply(f, Kind(r), "OK", r))
        /\ Advances(d, Reply(f, Kind(r), "OK", r))
    BY <2>1, <2>2, ReleasesSound, ReleasesAdvances, AdvancesTransitive
  <2>5. QED
    BY <2>1, <2>2, <2>3, <2>4 DEF Releases
<1>3. CASE Kind(r) \notin SyncKinds
  <2> DEFINE J == d.jobs \cup {r}
             m == IF Kind(r) = "Reserve" THEN r ELSE d.msg
             e == [d EXCEPT !.jobs = J, !.msg = m]
  <2>1. d \in DeviceState
    BY DEF Sound
  <2>2. J \in SUBSET Requests /\ m \in 0 .. MaxRequests
    BY <1>1, <2>1 DEF DeviceState, Clients
  <2>3. CallBackend(d, r) = e
    BY <1>3 DEF CallBackend
  <2> HIDE DEF J, m
  <2>4. e \in DeviceState
    BY <2>1, <2>2 DEF DeviceState
  <2>5. Releases(d, e) /\ e.locked \subseteq d.locked /\ e.queue = d.queue
    BY <2>1, <2>4 DEF Releases, DeviceState
  <2>6. QED
    BY <2>3, <2>5, ReleasesSound, ReleasesAdvances
<1>4. QED
  BY <1>2, <1>3

\* A worker runs for the head of the queue: it leaves the queue as it is, or it
\* moves the head into the lock of its kind.
LEMMA WorkerSound ==
    ASSUME ReqsOK, NEW d, Sound(d), NEW r, r \in InQueue(d) => r = Head(d.queue)
    PROVE  LET e == Worker(d, r)
           IN  /\ Sound(e)
               /\ Advances(d, e)
               /\ d.locked # {} \/ r \notin InQueue(d)
                     => e.queue = d.queue /\ e.locked \subseteq d.locked
               /\ d.locked = {} /\ r \in InQueue(d)
                     => e.queue = Tail(d.queue) /\ e.locked \subseteq {Kind(r)}
<1>1. d \in DeviceState /\ d.queue \in Seq(Requests)
  BY DEF Sound, DeviceState
<1>2. CASE r \notin InQueue(d)
  BY <1>2, <1>1, ReleasesReflexive, ReleasesAdvances DEF Worker
<1>3. CASE r \in InQueue(d)
  <2>1. d.queue # << >> /\ r = Head(d.queue) /\ r \in Requests
    BY <1>1, <1>3, InQueueIndex
  <2>2. CASE d.locked # {}
    BY <1>3, <2>1, <2>2, BlockedSound DEF Worker
  <2>3. CASE d.locked = {}
    <3> DEFINE f == TakeLock(d, r)
    <3>1. Sound(f) /\ Advances(d, f) /\ f.queue = Tail(d.queue) /\ f.locked = {Kind(r)}
      BY <2>1, <2>3, TakeLockSound
    <3>2. Worker(d, r) = CallBackend(f, r)
      BY <1>3, <2>3 DEF Worker
    <3> HIDE DEF f
    <3>3. LET e == CallBackend(f, r)
          IN  Sound(e) /\ Advances(f, e) /\ e.queue = f.queue /\ e.locked \subseteq f.locked
      BY <2>1, <3>1, CallBackendSound
    <3>4. Advances(d, CallBackend(f, r))
      BY <3>1, <3>3, AdvancesTransitive
    <3>5. QED
      BY <1>3, <2>3, <3>1, <3>2, <3>3, <3>4
  <2>4. QED
    BY <2>2, <2>3
<1>4. QED
  BY <1>2, <1>3

LEMMA FifoSound ==
    ASSUME ReqsOK, NEW d, Sound(d)
    PROVE  LET e == Fifo(d)
           IN  /\ Sound(e)
               /\ Advances(d, e)
               /\ d.locked # {} \/ d.queue = << >>
                     => e.queue = d.queue /\ e.locked \subseteq d.locked
               /\ d.locked = {} /\ d.queue # << >>
                     => e.queue = Tail(d.queue) /\ e.locked \subseteq {Kind(Head(d.queue))}
<1>1. d \in DeviceState /\ d.queue \in Seq(Requests)
  BY DEF Sound, DeviceState
<1>2. CASE d.queue = << >>
  BY <1>1, <1>2, ReleasesReflexive, ReleasesAdvances DEF Fifo
<1>3. CASE d.queue # << >>
  <2>1. Head(d.queue) \in InQueue(d)
    <3>1. 1 \in 1 .. Len(d.queue) /\ d.queue[1] = Head(d.queue)
      BY <1>1, <1>3
    <3>2. QED
      BY <1>1, <3>1, InQueueIndex
  <2>2. Fifo(d) = Worker(d, Head(d.queue))
    BY <1>3 DEF Fifo
  <2>3. QED
    BY <1>3, <2>1, <2>2, WorkerSound
<1>4. QED
  BY <1>2, <1>3

LEMMA FifoFirstSound ==
    ASSUME ReqsOK, NEW d, Sound(d), NEW k
    PROVE  Sound(FifoFirst(d, k)) /\ Advances(d, FifoFirst(d, k))
<1> DEFINE e == Fifo(d)
<1>1. Sound(e) /\ Advances(d, e)
  BY FifoSound
<1>2. FifoFirst(d, k) = IF Raises(e, k) THEN Fifo(e) ELSE e
  BY DEF FifoFirst
<1> HIDE DEF e
<1>3. Sound(Fifo(e)) /\ Advances(d, Fifo(e))
  BY <1>1, FifoSound, AdvancesTransitive
<1>4. QED
  BY <1>1, <1>2, <1>3

LEMMA HandleReplySound ==
    ASSUME ReqsOK, NEW d, Sound(d), NEW k \in AllKinds, NEW st \in Status, NEW to \in Clients
    PROVE  Sound(HandleReply(d, k, st, to)) /\ Advances(d, HandleReply(d, k, st, to))
<1> DEFINE e == FifoFirst(d, k)
<1>1. Sound(e) /\ Advances(d, e)
  BY FifoFirstSound
<1>2. HandleReply(d, k, st, to) = Reply(e, k, st, to)
  BY DEF HandleReply
<1> HIDE DEF e
<1>3. Releases(e, Reply(e, k, st, to))
  BY <1>1, ReplyReleases DEF Sound
<1>4. QED
  BY <1>1, <1>2, <1>3, ReleasesSound, ReleasesAdvances, AdvancesTransitive

-----------------------------------------------------------------------------
(* Receiving a request keeps the discipline. *)

LEMMA Numbers ==
    ASSUME NEW d \in DeviceState
    PROVE  /\ d.arrived \in Nat
           /\ \A k \in AllKinds : d.req[k] \in Nat
           /\ \A i \in 1 .. Len(d.queue) : d.queue[i] \in Requests /\ d.queue[i] \in Nat
           /\ \A r \in d.retries : r \in Nat
<1>1. d.queue \in Seq(Requests) /\ d.retries \in SUBSET Requests
  BY DEF DeviceState
<1>2. \A r \in Requests : r \in Nat
  BY DEF Requests
<1>3. \A i \in 1 .. Len(d.queue) : d.queue[i] \in Requests
  BY <1>1
<1>4. d.arrived \in Nat /\ \A k \in AllKinds : d.req[k] \in Nat
  BY DEF DeviceState
<1>5. QED
  BY <1>1, <1>2, <1>3, <1>4

\* A message arrives that changes neither the queue nor takes a lock.
LEMMA ArrivalSound ==
    ASSUME NEW d, Sound(d), NEW e \in DeviceState,
           e.arrived >= d.arrived, e.queue = d.queue, e.id = d.id, e.lastId = d.lastId,
           e.req = d.req, e.timers = d.timers, e.retries = d.retries,
           e.locked \subseteq d.locked
    PROVE  Sound(e)
<1>1. /\ d.arrived \in Nat /\ e.arrived \in Nat
      /\ \A k \in AllKinds : d.req[k] \in Nat
      /\ \A i \in 1 .. Len(d.queue) : d.queue[i] \in Nat
      /\ \A r \in d.retries : r \in Nat
  BY Numbers DEF Sound
<1>2. LocksSound(e)
  BY <1>1 DEF Sound, LocksSound
<1>3. QueueSound(e)
  BY <1>1 DEF Sound, QueueSound
<1>4. RetriesSound(e)
  BY <1>1 DEF Sound, RetriesSound
<1>5. QED
  BY <1>2, <1>3, <1>4 DEF Sound

LEMMA ArrivedSound ==
    ASSUME NEW d, Sound(d), NEW r \in Requests, r >= d.arrived
    PROVE  Sound([d EXCEPT !.arrived = r])
<1> DEFINE e == [d EXCEPT !.arrived = r]
<1>1. d \in DeviceState /\ r \in 0 .. MaxRequests
  BY DEF Sound, Requests
<1>2. e \in DeviceState
  BY <1>1 DEF DeviceState
<1>3. /\ e.arrived = r /\ e.queue = d.queue /\ e.id = d.id /\ e.lastId = d.lastId
      /\ e.req = d.req /\ e.timers = d.timers /\ e.retries = d.retries /\ e.locked = d.locked
  BY <1>1 DEF DeviceState
<1> HIDE DEF e
<1>4. e.arrived >= d.arrived /\ e.locked \subseteq d.locked
  BY <1>3
<1>5. QED
  BY <1>2, <1>3, <1>4, ArrivalSound DEF e

LEMMA WithIdSound ==
    ASSUME NEW d, Sound(d), NEW r \in Requests, r >= d.arrived,
           \A i \in 1 .. Len(d.queue) : d.queue[i] # r
    PROVE  LET e == WithId(d, r)
           IN  /\ Sound(e)
               /\ e.arrived = r /\ e.queue = d.queue /\ e.timers = d.timers
               /\ e.locked = d.locked /\ e.req = d.req
               /\ e.id[r] = e.lastId /\ e.lastId > d.lastId
               /\ \A s \in Requests : s # r => e.id[s] = d.id[s]
               /\ e.retries = d.retries
<1> DEFINE f == [d.id EXCEPT ![r] = d.lastId + 1]
           n == d.lastId + 1
           e == [d EXCEPT !.arrived = r, !.lastId = n, !.id = f]
<1>1. d \in DeviceState /\ r \in 0 .. MaxRequests /\ d.queue \in Seq(Requests)
  BY DEF Sound, Requests, DeviceState
<1>2. /\ n \in Nat /\ n > d.lastId /\ d.lastId \in Nat
      /\ f \in [Requests -> Nat]
      /\ f[r] = n
      /\ \A s \in Requests : s # r => f[s] = d.id[s]
      /\ \A s \in Requests : d.id[s] \in Nat
  BY <1>1 DEF DeviceState
<1>3. WithId(d, r) = e
  BY <1>1 DEF WithId, DeviceState
<1> HIDE DEF f, n
<1>4. /\ e \in DeviceState
      /\ e.arrived = r /\ e.queue = d.queue /\ e.id = f /\ e.lastId = n
      /\ e.req = d.req /\ e.timers = d.timers /\ e.retries = d.retries /\ e.locked = d.locked
  BY <1>1, <1>2 DEF DeviceState
<1> HIDE DEF e
<1>5. \A i \in 1 .. Len(d.queue) : d.queue[i] \in Requests /\ f[d.queue[i]] = d.id[d.queue[i]]
  <2>1. \A i \in 1 .. Len(d.queue) : d.queue[i] \in Requests
    BY <1>1
  <2>2. QED
    BY <1>2, <2>1
<1>6. /\ d.arrived \in Int /\ r \in Int
      /\ \A k \in AllKinds : d.req[k] \in Int
      /\ \A s \in d.retries : s \in Int
      /\ \A i \in 1 .. Len(d.queue) : d.queue[i] \in Int
  <2>1. Requests \subseteq Int /\ 0 .. MaxRequests \subseteq Int
    BY DeviceActorAssumption DEF Requests
  <2>2. /\ d.arrived \in Int /\ r \in Int
        /\ \A k \in AllKinds : d.req[k] \in Int
    BY <1>1, <2>1 DEF DeviceState
  <2>3. \A s \in d.retries : s \in Int
    BY <1>1, <2>1 DEF DeviceState
  <2>4. QED
    BY <1>5, <2>1, <2>2, <2>3
<1>7. LocksSound(e)
  BY <1>4, <1>6 DEF Sound, LocksSound
<1>8. QueueSound(e)
  <2>1. ASSUME NEW i \in 1 .. Len(d.queue), NEW j \in 1 .. Len(d.queue), i < j
        PROVE  d.queue[i] < d.queue[j] /\ f[d.queue[i]] < f[d.queue[j]]
    BY <1>5, <2>1 DEF Sound, QueueSound
  <2>2. ASSUME NEW i \in 1 .. Len(d.queue)
        PROVE  d.queue[i] <= r /\ d.queue[i] \in d.timers /\ f[d.queue[i]] <= n
    <3>1. d.queue[i] <= d.arrived /\ d.queue[i] \in d.timers /\ d.id[d.queue[i]] <= d.lastId
      BY DEF Sound, QueueSound
    <3>2. QED
      BY <1>2, <1>5, <1>6, <3>1
  <2>3. QED
    BY <1>4, <2>1, <2>2 DEF QueueSound
<1>9. RetriesSound(e)
  BY <1>4, <1>6 DEF Sound, RetriesSound
<1>10. QED
  BY <1>2, <1>3, <1>4, <1>7, <1>8, <1>9 DEF Sound

\* The new request has its id, its timer and the last place in the queue.
Queued(d, r) == [WithId(d, r) EXCEPT !.queue = Append(@, r), !.timers = @ \cup {r}]

LEMMA QueuedSound ==
    ASSUME NEW d, Sound(d), NEW r \in Requests, r > d.arrived
    PROVE  /\ Sound(Queued(d, r))
           /\ Queued(d, r).arrived = r
           /\ Queued(d, r).queue = Append(d.queue, r)
<1> DEFINE f == WithId(d, r)
<1>1. d \in DeviceState /\ d.queue \in Seq(Requests) /\ r \in Int /\ d.arrived \in Int
  BY DEF Sound, DeviceState, Requests
<1>2. \A i \in 1 .. Len(d.queue) : d.queue[i] # r /\ d.queue[i] < r
  <2>1. \A i \in 1 .. Len(d.queue) : d.queue[i] \in Requests /\ d.queue[i] <= d.arrived
    BY <1>1 DEF Sound, QueueSound
  <2>2. \A i \in 1 .. Len(d.queue) : d.queue[i] \in Nat
    BY <1>1, Numbers
  <2>3. QED
    BY <1>1, <2>1, <2>2
<1>3. /\ Sound(f)
      /\ f.arrived = r /\ f.queue = d.queue
      /\ f.locked = d.locked /\ f.req = d.req
      /\ f.id[r] = f.lastId /\ f.lastId > d.lastId
      /\ \A s \in Requests : s # r => f.id[s] = d.id[s]
      /\ f.retries = d.retries
  BY <1>1, <1>2, WithIdSound
<1>4. Queued(d, r) = [f EXCEPT !.queue = Append(@, r), !.timers = @ \cup {r}]
  BY DEF Queued
<1> HIDE DEF f
<1> DEFINE q == Append(d.queue, r)
           T == f.timers \cup {r}
           e == [f EXCEPT !.queue = q, !.timers = T]
<1>5. /\ q \in Seq(Requests)
      /\ Len(q) = Len(d.queue) + 1
      /\ Len(d.queue) \in Nat
      /\ q[Len(q)] = r
      /\ \A i \in 1 .. Len(q) : i < Len(q) => i \in 1 .. Len(d.queue) /\ q[i] = d.queue[i]
  BY <1>1
<1>6. f \in DeviceState /\ T \in SUBSET Requests
  BY <1>3 DEF Sound, DeviceState
<1>7. e = [f EXCEPT !.queue = Append(@, r), !.timers = @ \cup {r}]
  BY <1>3, <1>6 DEF DeviceState
<1> HIDE DEF q
<1>8. /\ e \in DeviceState
      /\ e.arrived = r /\ e.queue = q /\ e.id = f.id /\ e.lastId = f.lastId
      /\ e.req = d.req /\ e.timers = T /\ e.retries = d.retries /\ e.locked = d.locked
  BY <1>3, <1>5, <1>6 DEF DeviceState
<1> HIDE DEF e
<1>9. LocksSound(e)
  <2>1. \A k \in AllKinds : d.req[k] <= d.arrived /\ d.req[k] \in Int
    BY <1>1 DEF Sound, LocksSound, DeviceState
  <2>2. \A k \in AllKinds : d.req[k] < r
    BY <1>1, <2>1
  <2>3. ASSUME NEW k \in d.locked
        PROVE  /\ k \in AllKinds
               /\ d.req[k] \in T
               /\ \A i \in 1 .. Len(q) : d.req[k] < q[i]
    <3>1. k \in AllKinds /\ f.req[k] \in f.timers
      BY <1>1, <1>3 DEF Sound, LocksSound, DeviceState
    <3>2. \A i \in 1 .. Len(d.queue) : d.req[k] < d.queue[i]
      BY DEF Sound, LocksSound
    <3>3. QED
      BY <1>3, <1>5, <2>2, <3>1, <3>2
  <2>4. \A k \in AllKinds : d.req[k] <= r
    BY <1>1, <2>1, <2>2
  <2>5. \A k, l \in d.locked : k = l
    BY DEF Sound, LocksSound
  <2>6. QED
    BY <1>8, <2>3, <2>4, <2>5 DEF LocksSound
<1>10. QueueSound(e)
  <2>1. ASSUME NEW i \in 1 .. Len(d.queue)
        PROVE  /\ d.queue[i] \in Requests
               /\ d.queue[i] <= r
               /\ d.queue[i] \in f.timers
               /\ f.id[d.queue[i]] = d.id[d.queue[i]]
               /\ f.id[d.queue[i]] < f.lastId
    <3>1. d.queue[i] \in Requests /\ d.queue[i] # r
      BY <1>1, <1>2
    <3>2. f.queue[i] <= r /\ f.queue[i] \in f.timers
      BY <1>3 DEF Sound, QueueSound
    <3>3. d.id[d.queue[i]] <= d.lastId
      BY DEF Sound, QueueSound
    <3>4. d.id[d.queue[i]] \in Nat /\ d.lastId \in Nat /\ f.lastId \in Nat
      BY <1>1, <1>6, <3>1 DEF DeviceState
    <3>5. QED
      BY <1>3, <3>1, <3>2, <3>3, <3>4
  <2>2. ASSUME NEW i \in 1 .. Len(q), NEW j \in 1 .. Len(q), i < j
        PROVE  q[i] < q[j] /\ f.id[q[i]] < f.id[q[j]]
    <3>1. i \in 1 .. Len(d.queue) /\ q[i] = d.queue[i]
      BY <1>5, <2>2
    <3>2. CASE j = Len(q)
      BY <1>2, <1>3, <1>5, <2>1, <3>1, <3>2
    <3>3. CASE j # Len(q)
      <4>1. j \in 1 .. Len(d.queue) /\ q[j] = d.queue[j]
        BY <1>5, <3>3
      <4>2. d.queue[i] < d.queue[j] /\ d.id[d.queue[i]] < d.id[d.queue[j]]
        BY <2>2, <3>1, <4>1 DEF Sound, QueueSound
      <4>3. QED
        BY <2>1, <3>1, <4>1, <4>2
    <3>4. QED
      BY <3>2, <3>3
  <2>3. ASSUME NEW i \in 1 .. Len(q)
        PROVE  q[i] <= r /\ q[i] \in T /\ f.id[q[i]] <= f.lastId
    <3>1. CASE i = Len(q)
      BY <1>1, <1>3, <1>5, <1>6, <3>1 DEF DeviceState
    <3>2. CASE i # Len(q)
      <4>1. i \in 1 .. Len(d.queue) /\ q[i] = d.queue[i]
        BY <1>5, <3>2
      <4>2. f.id[q[i]] \in Nat /\ f.lastId \in Nat
        BY <1>6, <2>1, <4>1 DEF DeviceState
      <4>3. QED
        BY <2>1, <4>1, <4>2
    <3>3. QED
      BY <3>1, <3>2
  <2>4. QED
    BY <1>8, <2>2, <2>3 DEF QueueSound
<1>11. RetriesSound(e)
  <2>1. ASSUME NEW s \in d.retries
        PROVE  /\ s < r
               /\ \A i \in 1 .. Len(q) : s = q[i] => i = 1
    <3>1. s <= d.arrived /\ s \in Int
      BY <1>1 DEF Sound, RetriesSound, DeviceState, Requests
    <3>2. s < r
      BY <1>1, <3>1
    <3>3. \A i \in 1 .. Len(d.queue) : s = d.queue[i] => i = 1
      BY DEF Sound, RetriesSound
    <3>4. ASSUME NEW i \in 1 .. Len(q), s = q[i]
          PROVE  i = 1
      <4>1. CASE i = Len(q)
        BY <1>5, <3>1, <3>2, <3>4, <4>1
      <4>2. CASE i # Len(q)
        BY <1>5, <3>3, <3>4, <4>2
      <4>3. QED
        BY <4>1, <4>2
    <3>5. QED
      BY <3>2, <3>4
  <2>2. \A s \in d.retries : s <= r
    BY <1>1, <2>1 DEF DeviceState, Requests
  <2>3. QED
    BY <1>8, <2>1, <2>2 DEF RetriesSound
<1>12. Sound(e)
  BY <1>8, <1>9, <1>10, <1>11 DEF Sound
<1>13. QED
  BY <1>4, <1>7, <1>8, <1>12 DEF q

LEMMA EnqueueSound ==
    ASSUME ReqsOK, NEW d, Sound(d), NEW r \in Requests, r > d.arrived
    PROVE  Sound(Enqueue(d, r))
BY QueuedSound, FifoSound DEF Enqueue, Queued

LEMMA AcceptSound ==
    ASSUME ReqsOK, NEW d, Sound(d), NEW r \in Requests, r = d.arrived + 1
    PROVE  Sound(Accept(d, r))
<1>1. d \in DeviceState /\ r > d.arrived /\ r >= d.arrived
  BY Numbers DEF Sound
<1>2. CASE ~d.onKill
  BY <1>1, <1>2, EnqueueSound DEF Accept
<1>3. CASE d.onKill
  <2>1. \A i \in 1 .. Len(d.queue) : d.queue[i] # r
    <3>1. \A i \in 1 .. Len(d.queue) : d.queue[i] <= d.arrived /\ d.queue[i] \in Nat
      BY <1>1, Numbers DEF Sound, QueueSound
    <3>2. QED
      BY <1>1, <3>1, Numbers
  <2> DEFINE e == WithId(d, r)
             f == WithId(e, r)
  <2>2. Sound(e) /\ e.arrived = r /\ e.queue = d.queue
    BY <1>1, <2>1, WithIdSound
  <2> HIDE DEF e
  <2>3. r >= e.arrived
    BY <2>2 DEF Requests
  <2>4. Sound(f)
    BY <2>1, <2>2, <2>3, WithIdSound
  <2> HIDE DEF f
  <2>5. r \in Clients /\ Kind(r) \in AllKinds
    BY KindType DEF Clients, Requests
  <2>6. Sound(Poisoned(f, r))
    BY <2>4, <2>5, AnswerReleases, ReleasesSound DEF Sound, Poisoned
  <2>7. Sound(Reply(e, Kind(r), "NOT_FOUND", r))
    BY <2>2, <2>5, ReplyReleases, ReleasesSound DEF Sound, Status, Failures
  <2>8. Accept(d, r) = IF Raises(e, Kind(r)) THEN Poisoned(f, r)
                       ELSE Reply(e, Kind(r), "NOT_FOUND", r)
    BY <1>3 DEF Accept, RefuseOnKill, e, f
  <2>9. QED
    BY <2>6, <2>7, <2>8
<1>4. QED
  BY <1>2, <1>3

LEMMA AnswerAtOnceSound ==
    ASSUME ReqsOK, NEW d, Sound(d), NEW r \in Requests, r = d.arrived + 1,
           NEW k \in AllKinds, NEW st \in Status
    PROVE  Sound(AnswerAtOnce(d, k, st, r))
<1> DEFINE a == [d EXCEPT !.arrived = r]
           e == FifoFirst(a, k)
<1>1. Sound(a)
  <2>1. r >= d.arrived
    BY Numbers DEF Sound
  <2>2. QED
    BY <2>1, ArrivedSound
<1>2. AnswerAtOnce(d, k, st, r) = IF Raises(e, k) THEN Poisoned(e, r) ELSE Reply(e, k, st, r)
  BY DEF AnswerAtOnce
<1> HIDE DEF a
<1>3. Sound(e)
  BY <1>1, FifoFirstSound
<1> HIDE DEF e
<1>4. r \in Clients
  BY DEF Clients, Requests
<1>5. Sound(Poisoned(e, r))
  BY <1>3, <1>4, AnswerReleases, ReleasesSound DEF Sound, Poisoned
<1>6. Sound(Reply(e, k, st, r))
  BY <1>3, <1>4, ReplyReleases, ReleasesSound DEF Sound
<1>7. QED
  BY <1>2, <1>5, <1>6

-----------------------------------------------------------------------------
(* Every action keeps the discipline. *)

IInv ==
    /\ ReqsOK
    /\ aged \in 0 .. MaxRequests
    /\ Sound(dev)

LEMMA NewSender ==
    ASSUME NEW d, Sound(d), NEW k \in AllKinds, NEW r \in Requests
    PROVE  /\ Sound([d EXCEPT !.sender[k] = r])
           /\ [d EXCEPT !.sender[k] = r].arrived = d.arrived
<1> DEFINE g == [d.sender EXCEPT ![k] = r]
           e == [d EXCEPT !.sender = g]
<1>1. d \in DeviceState /\ g \in [AllKinds -> 0 .. MaxRequests]
  BY DEF Sound, DeviceState, Requests
<1>2. [d EXCEPT !.sender[k] = r] = e
  BY <1>1 DEF DeviceState
<1> HIDE DEF g
<1>3. e \in DeviceState
  BY <1>1 DEF DeviceState
<1>4. Releases(d, e) /\ e.arrived = d.arrived
  BY <1>1, <1>3 DEF Releases, DeviceState
<1>5. QED
  BY <1>2, <1>4, ReleasesSound

LEMMA ReceiveReserveSound ==
    ASSUME IInv, NEW r \in Requests, ReceiveReserve(r)
    PROVE  Sound(dev')
<1> DEFINE st == IF dev.rsv.owner = Owner(r) THEN "OK_UPDATED" ELSE "OCCUPIED"
           g == [dev.sender EXCEPT !["Reserve"] = r]
           e == [dev EXCEPT !.arrived = r, !.sender = g, !.ret = st]
           a == [dev EXCEPT !.arrived = r]
<1>1. /\ ReqsOK /\ Sound(dev) /\ dev \in DeviceState
      /\ r = dev.arrived + 1 /\ r \in Clients /\ r > dev.arrived /\ r >= dev.arrived
  BY Numbers DEF IInv, Sound, ReceiveReserve, Arrives, Clients, Requests
<1>2. CASE Reserved(dev)
  <2>1. dev' = SendReservationStatus(e, r)
    <3>1. e = [dev EXCEPT !.arrived = r, !.sender["Reserve"] = r,
                          !.ret = IF dev.rsv.owner = Owner(r) THEN "OK_UPDATED" ELSE "OCCUPIED"]
      BY <1>1 DEF DeviceState
    <3>2. QED
      BY <1>2, <3>1 DEF ReceiveReserve
  <2>2. /\ st \in Status \cup {"None"}
        /\ g \in [AllKinds -> 0 .. MaxRequests]
    BY <1>1 DEF Status, Successes, DeviceState, AllKinds, Clients
  <2> HIDE DEF st, g
  <2>3. /\ e \in DeviceState
        /\ e.arrived = r /\ e.queue = dev.queue /\ e.id = dev.id /\ e.lastId = dev.lastId
        /\ e.req = dev.req /\ e.timers = dev.timers /\ e.retries = dev.retries
        /\ e.locked = dev.locked
    BY <1>1, <2>2 DEF DeviceState, Clients
  <2> HIDE DEF e
  <2>4. e.arrived >= dev.arrived /\ e.locked \subseteq dev.locked
    BY <1>1, <2>3
  <2>5. Sound(e)
    BY <1>1, <2>3, <2>4, ArrivalSound
  <2>6. QED
    BY <1>1, <2>1, <2>5, SendReservationStatusReleases, ReleasesSound DEF Sound
<1>3. CASE ~Reserved(dev) /\ dev.onKill
  <2>1. dev' = ReserveReply(a, "NOT_FOUND", r)
    BY <1>3 DEF ReceiveReserve
  <2>2. Sound(a)
    BY <1>1, ArrivedSound
  <2> HIDE DEF a
  <2>3. Releases(a, ReserveReply(a, "NOT_FOUND", r))
    BY <1>1, <2>2, ReserveReplyReleases DEF Sound, Status, Failures
  <2>4. QED
    BY <2>1, <2>2, <2>3, ReleasesSound
<1>4. CASE ~Reserved(dev) /\ ~dev.onKill
  <2>1. dev' = Enqueue(dev, r)
    BY <1>4 DEF ReceiveReserve
  <2>2. QED
    BY <1>1, <2>1, EnqueueSound
<1>5. QED
  BY <1>2, <1>3, <1>4

LEMMA ReceiveFreeSound ==
    ASSUME IInv, NEW r \in Requests, ReceiveFree(r)
    PROVE  Sound(dev')
<1> DEFINE e == [dev EXCEPT !.ret = "OK_SKIPPED"]
<1>1. ReqsOK /\ Sound(dev) /\ dev \in DeviceState /\ r = dev.arrived + 1
  BY DEF IInv, Sound, ReceiveFree, Arrives
<1>2. Releases(dev, e)
  BY <1>1, NewReturn DEF Status, Successes
<1>3. dev' = IF Reserved(dev) THEN Accept(dev, r) ELSE AnswerAtOnce(e, "Free", "OK_SKIPPED", r)
  BY DEF ReceiveFree
<1> HIDE DEF e
<1>4. Sound(e) /\ r = e.arrived + 1
  BY <1>1, <1>2, ReleasesSound DEF Releases
<1>5. Sound(AnswerAtOnce(e, "Free", "OK_SKIPPED", r))
  BY <1>1, <1>4, AnswerAtOnceSound DEF AllKinds, Status, Successes
<1>6. QED
  BY <1>1, <1>3, <1>5, AcceptSound

\* The handlers of the requests that need the instrument to be free, or to be
\* reserved, differ only in the answer they give at once.
LEMMA ReceiveOtherSound ==
    ASSUME IInv, NEW r \in Requests,
           \/ ReceiveGetRecentValue(r)
           \/ ReceiveGetDeviceStatus(r)
           \/ ReceiveStartMonitoring(r)
           \/ ReceiveStopMonitoring(r)
           \/ ReceiveSetRtc(r)
    PROVE  Sound(dev')
<1>1. ReqsOK /\ Sound(dev) /\ r = dev.arrived + 1
  BY DEF IInv, ReceiveGetRecentValue, ReceiveGetDeviceStatus, ReceiveStartMonitoring,
         ReceiveStopMonitoring, ReceiveSetRtc, Arrives
<1>2. Sound(Accept(dev, r))
  BY <1>1, AcceptSound
<1>3. /\ {"GetRecentValue", "GetDeviceStatus", "StartMonitoring", "StopMonitoring"} \subseteq AllKinds
      /\ {"OCCUPIED", "OK_SKIPPED"} \subseteq Status
  BY DEF AllKinds, Status, Successes
<1>4. \A k \in AllKinds, st \in Status : Sound(AnswerAtOnce(dev, k, st, r))
  BY <1>1, AnswerAtOnceSound
<1>5. \A k \in AllKinds, st \in Status :
         Sound(AnswerAtOnce([dev EXCEPT !.sender[k] = r], k, st, r))
  BY <1>1, NewSender, AnswerAtOnceSound
<1>6. CASE ReceiveGetRecentValue(r)
  BY <1>2, <1>3, <1>4, <1>6 DEF ReceiveGetRecentValue
<1>7. CASE ReceiveGetDeviceStatus(r)
  BY <1>2, <1>3, <1>5, <1>7 DEF ReceiveGetDeviceStatus
<1>8. CASE ReceiveStartMonitoring(r)
  BY <1>2, <1>3, <1>5, <1>8 DEF ReceiveStartMonitoring
<1>9. CASE ReceiveStopMonitoring(r)
  BY <1>2, <1>3, <1>4, <1>9 DEF ReceiveStopMonitoring
<1>10. CASE ReceiveSetRtc(r)
  BY <1>2, <1>10 DEF ReceiveSetRtc
<1>11. QED
  BY <1>6, <1>7, <1>8, <1>9, <1>10

-----------------------------------------------------------------------------
(* The timeouts keep the discipline, and the request whose timer fires is   *)
(* neither in the queue nor in a lock afterwards.                           *)

LEMMA RemoveAtElements ==
    ASSUME NEW S, NEW q \in Seq(S), NEW m \in 1 .. Len(q)
    PROVE  LET p == RemoveAt(q, m)
           IN  /\ p \in Seq(S)
               /\ Len(p) = Len(q) - 1
               /\ \A i \in 1 .. Len(p) : p[i] = IF i < m THEN q[i] ELSE q[i + 1]
<1> DEFINE a == SubSeq(q, 1, m - 1)
           b == SubSeq(q, m + 1, Len(q))
<1>1. /\ a \in Seq(S) /\ Len(a) = m - 1
      /\ \A i \in 1 .. m - 1 : a[i] = q[i]
  OBVIOUS
<1>2. /\ b \in Seq(S) /\ Len(b) = Len(q) - m
      /\ \A i \in 1 .. Len(q) - m : b[i] = q[i + m]
  OBVIOUS
<1>3. RemoveAt(q, m) = a \o b
  BY DEF RemoveAt
<1> HIDE DEF a, b
<1>4. /\ a \o b \in Seq(S)
      /\ Len(a \o b) = Len(q) - 1
      /\ \A i \in 1 .. Len(q) - 1 : (a \o b)[i] = IF i < m THEN a[i] ELSE b[i - (m - 1)]
  <2>1. /\ a \o b \in Seq(S)
        /\ Len(a \o b) = Len(a) + Len(b)
        /\ \A i \in 1 .. Len(a) + Len(b) :
              (a \o b)[i] = IF i <= Len(a) THEN a[i] ELSE b[i - Len(a)]
    BY <1>1, <1>2, ConcatProperties
  <2>2. Len(a) + Len(b) = Len(q) - 1
    BY <1>1, <1>2
  <2>3. \A i \in 1 .. Len(q) - 1 : i <= Len(a) <=> i < m
    BY <1>1
  <2>4. QED
    BY <1>1, <2>1, <2>2, <2>3
<1>5. \A i \in 1 .. Len(q) - 1 : (a \o b)[i] = IF i < m THEN q[i] ELSE q[i + 1]
  BY <1>1, <1>2, <1>4
<1>6. QED
  BY <1>3, <1>4, <1>5

LEMMA RemoveFirstIs ==
    ASSUME NEW S, NEW q \in Seq(S), NEW m \in 1 .. Len(q),
           \A i \in 1 .. Len(q) : q[i] = q[m] => i = m
    PROVE  RemoveFirst(q, q[m]) = RemoveAt(q, m)
<1> DEFINE I == {i \in 1 .. Len(q) : q[i] = q[m]}
<1>1. I = {m}
  OBVIOUS
<1>2. Min({m}) = m
  BY DEF Min
<1>3. SelectInSeq(q, LAMBDA v : v = q[m]) = m
  BY <1>1, <1>2 DEF SelectInSeq
<1>4. QED
  BY <1>3 DEF RemoveFirst

\* Dropping any request from the queue keeps the discipline.
LEMMA DropSound ==
    ASSUME NEW d, Sound(d), NEW r
    PROVE  LET e == [d EXCEPT !.queue = RemoveFirst(@, r)]
           IN  Sound(e) /\ Advances(d, e) /\ e.locked = d.locked /\ r \notin InQueue(e)
<1> DEFINE q == d.queue
           p == RemoveFirst(d.queue, r)
           e == [d EXCEPT !.queue = p]
<1>1. d \in DeviceState /\ q \in Seq(Requests)
  BY DEF Sound, DeviceState
<1>2. e = [d EXCEPT !.queue = RemoveFirst(@, r)]
  BY <1>1 DEF DeviceState
<1>3. CASE \A i \in 1 .. Len(q) : q[i] # r
  <2>1. p = q
    BY <1>3 DEF RemoveFirst
  <2>2. e = d
    BY <1>1, <2>1 DEF DeviceState
  <2>3. r \notin InQueue(d)
    BY <1>1, <1>3, InQueueIndex
  <2>4. QED
    BY <1>1, <1>2, <2>2, <2>3, ReleasesReflexive, ReleasesAdvances
<1>4. ASSUME NEW m \in 1 .. Len(q), q[m] = r
      PROVE  Sound(e) /\ Advances(d, e) /\ e.locked = d.locked /\ r \notin InQueue(e)
  <2>1. /\ \A i, j \in 1 .. Len(q) : i < j => q[i] < q[j] /\ d.id[q[i]] < d.id[q[j]]
        /\ \A i \in 1 .. Len(q) : q[i] \in Nat
    BY <1>1, Numbers DEF Sound, QueueSound
  <2>2. \A i \in 1 .. Len(q) : q[i] = q[m] => i = m
    BY <2>1
  <2>3. p = RemoveAt(q, m)
    BY <1>1, <1>4, <2>2, RemoveFirstIs
  <2>4. /\ p \in Seq(Requests)
        /\ Len(p) = Len(q) - 1
        /\ \A i \in 1 .. Len(p) : p[i] = IF i < m THEN q[i] ELSE q[i + 1]
    BY <1>1, <2>3, RemoveAtElements
  <2> DEFINE at(i) == IF i < m THEN i ELSE i + 1
  <2>5. \A i \in 1 .. Len(p) : at(i) \in 1 .. Len(q) /\ at(i) # m /\ p[i] = q[at(i)]
    BY <1>1, <2>4
  <2>6. \A i, j \in 1 .. Len(p) : i < j => at(i) < at(j)
    BY <2>4
  <2> HIDE DEF p
  <2>7. /\ e \in DeviceState
        /\ e.queue = p /\ e.arrived = d.arrived /\ e.id = d.id /\ e.lastId = d.lastId
        /\ e.req = d.req /\ e.timers = d.timers /\ e.retries = d.retries
        /\ e.locked = d.locked
    BY <1>1, <2>4 DEF DeviceState
  <2> HIDE DEF e
  <2> HIDE DEF at
  <2>8. LocksSound(e)
    BY <2>5, <2>7 DEF Sound, LocksSound
  <2>9. QueueSound(e)
    <3>1. ASSUME NEW i \in 1 .. Len(p), NEW j \in 1 .. Len(p), i < j
          PROVE  p[i] < p[j] /\ d.id[p[i]] < d.id[p[j]]
      BY <2>1, <2>5, <2>6, <3>1
    <3>2. ASSUME NEW i \in 1 .. Len(p)
          PROVE  p[i] <= d.arrived /\ p[i] \in d.timers /\ d.id[p[i]] <= d.lastId
      BY <2>5 DEF Sound, QueueSound
    <3>3. QED
      BY <2>7, <3>1, <3>2 DEF QueueSound
  <2>10. RetriesSound(e)
    <3>1. ASSUME NEW s \in d.retries, NEW i \in 1 .. Len(p), s = p[i]
          PROVE  i = 1
      <4>1. at(i) = 1
        BY <2>5, <3>1 DEF Sound, RetriesSound
      <4>2. QED
        BY <4>1 DEF at
    <3>2. QED
      BY <2>7, <3>1 DEF Sound, RetriesSound
  <2>11. Advances(d, e)
    BY <2>5, <2>7 DEF Advances
  <2>12. r \notin InQueue(e)
    <3>1. \A i \in 1 .. Len(p) : p[i] # r
      BY <1>4, <2>2, <2>5
    <3>2. QED
      BY <2>7, <3>1, InQueueIndex
  <2>13. QED
    BY <2>7, <2>8, <2>9, <2>10, <2>11, <2>12 DEF Sound
<1>5. QED
  BY <1>2, <1>3, <1>4

\* A timeout handler releases the lock of its kind.
LEMMA BusyTimeoutUnlocks ==
    ASSUME ReqsOK, NEW d \in DeviceState, NEW k \in AllKinds, NEW to \in Clients, ~Raises(d, k)
    PROVE  k \notin Reply(d, k, "BUSY_TIMEOUT", to).locked
<1>1. /\ "BUSY_TIMEOUT" \in Failures /\ "BUSY_TIMEOUT" \notin Successes
      /\ "BUSY_TIMEOUT" \in Status
  BY DEF Failures, Successes, Status
<1>2. CASE k = "Reserve"
  <2> DEFINE e == [d EXCEPT !.locked = d.locked \ {"Reserve"}, !.ret = "BUSY_TIMEOUT"]
  <2>1. Releases(d, e) /\ "Reserve" \notin e.locked
    BY <1>1, UnlockAndReturn DEF DeviceState
  <2>2. Reply(d, k, "BUSY_TIMEOUT", to) = SendReservationStatus(e, to)
    BY <1>1, <1>2 DEF Reply, ReserveReply
  <2> HIDE DEF e
  <2>3. Releases(e, SendReservationStatus(e, to))
    BY <2>1, SendReservationStatusReleases DEF Releases
  <2>4. QED
    BY <1>2, <2>1, <2>2, <2>3 DEF Releases
<1>3. CASE k = "Free"
  <2> DEFINE e == [d EXCEPT !.locked = d.locked \ {"Free"}, !.ret = "BUSY_TIMEOUT"]
  <2>1. Releases(d, e) /\ "Free" \notin e.locked /\ e.child = d.child
    BY <1>1, UnlockAndReturn DEF DeviceState
  <2>2. Reply(d, k, "BUSY_TIMEOUT", to) =
          IF d.child # "none" THEN KillRedirector(e) ELSE SendFreeStatus(e, to)
    <3>1. e = [d EXCEPT !.locked = d.locked \ {"Free"}, !.rsv = d.rsv, !.ret = "BUSY_TIMEOUT"]
      BY DEF DeviceState
    <3>2. QED
      BY <1>1, <1>3, <2>1, <3>1 DEF Reply, FreeReply
  <2> HIDE DEF e
  <2>3. Releases(e, KillRedirector(e)) /\ Releases(e, SendFreeStatus(e, to))
    BY <2>1, SendFreeStatusReleases, RedirectorReleases DEF Releases
  <2>4. QED
    BY <1>3, <2>1, <2>2, <2>3 DEF Releases
<1>4. CASE k \notin {"Reserve", "Free"}
  <2> DEFINE e == Answer(d, to, "BUSY_TIMEOUT")
  <2>1. e \in DeviceState
    BY <1>1, AnswerReleases DEF Releases
  <2>2. Reply(d, k, "BUSY_TIMEOUT", to) = [e EXCEPT !.locked = e.locked \ {k}]
    BY <1>4 DEF Reply, SimpleReply
  <2> HIDE DEF e
  <2>3. QED
    BY <2>1, <2>2 DEF DeviceState
<1>5. QED
  BY <1>2, <1>3, <1>4

LEMMA TimeoutLocksSound ==
    ASSUME ReqsOK, NEW d, Sound(d)
    PROVE  LET e == TimeoutLocks(d)
           IN  /\ Sound(e)
               /\ Advances(d, e)
               /\ d.locked = {} => e = d
               /\ d.locked # {} /\ Old(Holder(d)) => e.locked = {}
<1>1. d \in DeviceState
  BY DEF Sound
<1>2. CASE d.locked = {} \/ ~Old(Holder(d))
  BY <1>1, <1>2, ReleasesReflexive, ReleasesAdvances DEF TimeoutLocks
<1>3. CASE d.locked # {} /\ Old(Holder(d))
  <2> DEFINE k == CHOOSE l \in d.locked : TRUE
             f == Fifo(d)
             g == HandleReply(d, k, "BUSY_TIMEOUT", d.sender[k])
             L == g.locked \ {k}
             e == [g EXCEPT !.locked = L]
  <2>1. k \in AllKinds /\ d.locked = {k} /\ d.sender[k] \in Clients
    BY <1>1, <1>3 DEF Sound, LocksSound, DeviceState, Clients
  <2>2. TimeoutLocks(d) = e
    BY <1>3 DEF TimeoutLocks, Release
  <2> HIDE DEF k
  <2>3. Sound(f) /\ f.locked \subseteq {k}
    BY <2>1, FifoSound
  <2>4. Sound(g) /\ Advances(d, g)
    BY <2>1, HandleReplySound DEF Status, Failures
  <2>5. g.locked \subseteq {k}
    <3>1. ~Raises(f, k)
      BY <2>3 DEF Raises
    <3>2. g = Reply(f, k, "BUSY_TIMEOUT", d.sender[k])
      BY <3>1 DEF HandleReply, FifoFirst
    <3>3. Releases(f, g)
      BY <2>1, <2>3, <3>2, ReplyReleases DEF Sound, Status, Failures
    <3>4. QED
      BY <2>3, <3>3 DEF Releases
  <2> HIDE DEF g
  <2>6. g \in DeviceState /\ L \in SUBSET AllKinds /\ L = {}
    BY <2>4, <2>5 DEF Sound, DeviceState
  <2> HIDE DEF L
  <2>7. e \in DeviceState
    BY <2>6 DEF DeviceState
  <2>8. Releases(g, e) /\ e.locked = {}
    BY <2>6, <2>7 DEF Releases, DeviceState
  <2>9. QED
    BY <1>3, <2>2, <2>4, <2>8, ReleasesSound, ReleasesAdvances, AdvancesTransitive
<1>4. QED
  BY <1>2, <1>3

LEMMA TimeoutQueueSound ==
    ASSUME ReqsOK, NEW d, Sound(d), NEW n
    PROVE  Sound(TimeoutQueue(d, n)) /\ Advances(d, TimeoutQueue(d, n))
<1> DEFINE due == {q \in InQueue(d) : Old(q) /\ d.id[q] = n}
           r == CHOOSE q \in due : TRUE
           e == HandleReply(d, Kind(r), "BUSY_TIMEOUT", r)
<1>1. TimeoutQueue(d, n) = IF due = {} THEN d ELSE [e EXCEPT !.queue = RemoveFirst(@, r)]
  BY DEF TimeoutQueue
<1>2. CASE due = {}
  BY <1>1, <1>2, ReleasesReflexive, ReleasesAdvances DEF Sound
<1>3. CASE due # {}
  <2>1. r \in InQueue(d)
    BY <1>3
  <2>2. r \in Requests
    BY <2>1, InQueueIndex, Numbers DEF Sound
  <2> HIDE DEF r
  <2>3. Kind(r) \in AllKinds /\ r \in Clients /\ "BUSY_TIMEOUT" \in Status
    BY <2>2, KindType DEF Status, Failures, Clients, Requests
  <2>4. Sound(e) /\ Advances(d, e)
    BY <2>3, HandleReplySound
  <2> HIDE DEF e
  <2>5. QED
    BY <1>1, <1>3, <2>4, DropSound, AdvancesTransitive
<1>4. QED
  BY <1>2, <1>3

\* The timer of the head of the queue times out exactly that request, which the
\* worker at the start of the handler has popped already.
LEMMA TimeoutQueueIs ==
    ASSUME ReqsOK, NEW d, Sound(d), d.locked = {}, d.queue # << >>, Old(Head(d.queue))
    PROVE  LET r == Head(d.queue)
               f == Fifo(d)
               g == Reply(f, Kind(r), "BUSY_TIMEOUT", r)
           IN  /\ r \in Requests
               /\ Sound(f) /\ f.queue = Tail(d.queue) /\ f.locked \subseteq {Kind(r)}
               /\ ~Raises(f, Kind(r))
               /\ TimeoutQueue(d, d.id[r]) = [g EXCEPT !.queue = RemoveFirst(@, r)]
<1> DEFINE r == Head(d.queue)
           k == Kind(r)
           due == {q \in InQueue(d) : Old(q) /\ d.id[q] = d.id[r]}
           f == Fifo(d)
           g == HandleReply(d, k, "BUSY_TIMEOUT", r)
<1>1. /\ d \in DeviceState
      /\ 1 \in 1 .. Len(d.queue)
      /\ r = d.queue[1]
      /\ r \in Requests
      /\ r \in InQueue(d)
  <2>1. d \in DeviceState /\ d.queue \in Seq(Requests)
    BY DEF Sound, DeviceState
  <2>2. 1 \in 1 .. Len(d.queue) /\ r = d.queue[1] /\ r \in Requests
    BY <2>1
  <2>3. QED
    BY <2>1, <2>2, InQueueIndex
<1>2. due = {r}
  <2>1. r \in due
    BY <1>1
  <2>2. ASSUME NEW q \in due
        PROVE  q = r
    <3>1. PICK i \in 1 .. Len(d.queue) : d.queue[i] = q
      BY <1>1, InQueueIndex
    <3>2. 1 < i => d.id[d.queue[1]] < d.id[d.queue[i]]
      BY <1>1 DEF Sound, QueueSound
    <3>3. d.id[r] \in Nat
      BY <1>1 DEF DeviceState
    <3>4. i = 1
      BY <1>1, <2>2, <3>1, <3>2, <3>3
    <3>5. QED
      BY <1>1, <3>1, <3>4
  <2>3. QED
    BY <2>1, <2>2
<1>3. (CHOOSE q \in due : TRUE) = r
  BY <1>2
<1>4. TimeoutQueue(d, d.id[r]) = [g EXCEPT !.queue = RemoveFirst(@, r)]
  BY <1>2, <1>3 DEF TimeoutQueue
<1>5. Sound(f) /\ f.queue = Tail(d.queue) /\ f.locked \subseteq {k}
  BY FifoSound
<1>6. ~Raises(f, k)
  BY <1>5 DEF Raises
<1>7. g = Reply(f, k, "BUSY_TIMEOUT", r)
  BY <1>6 DEF HandleReply, FifoFirst
<1>8. QED
  BY <1>1, <1>4, <1>5, <1>6, <1>7

LEMMA TimeoutQueueClears ==
    ASSUME ReqsOK, NEW d, Sound(d), d.locked = {}, d.queue # << >>, Old(Head(d.queue))
    PROVE  LET e == TimeoutQueue(d, d.id[Head(d.queue)])
           IN  e.locked = {} /\ Head(d.queue) \notin InQueue(e)
<1> DEFINE r == Head(d.queue)
           k == Kind(r)
           f == Fifo(d)
           g == Reply(f, k, "BUSY_TIMEOUT", r)
<1>1. /\ r \in Requests
      /\ Sound(f) /\ f.locked \subseteq {k}
      /\ ~Raises(f, k)
      /\ TimeoutQueue(d, d.id[r]) = [g EXCEPT !.queue = RemoveFirst(@, r)]
  BY TimeoutQueueIs
<1> HIDE DEF r
<1>2. k \in AllKinds /\ r \in Clients /\ "BUSY_TIMEOUT" \in Status
  BY <1>1, KindType DEF Status, Failures, Clients, Requests
<1>3. Releases(f, g) /\ k \notin g.locked
  BY <1>1, <1>2, ReplyReleases, BusyTimeoutUnlocks DEF Sound
<1>4. g.locked = {} /\ Sound(g)
  BY <1>1, <1>3, ReleasesSound DEF Releases
<1> HIDE DEF g
<1>5. LET e == [g EXCEPT !.queue = RemoveFirst(@, r)]
      IN  e.locked = g.locked /\ r \notin InQueue(e)
  BY <1>4, DropSound
<1>6. QED
  BY <1>1, <1>4, <1>5 DEF r

\* The first timer to fire belongs to the head of the queue, and nobody holds a
\* lock, or to nobody in the queue.
LEMMA TimerMeetsHead ==
    ASSUME NEW d, Sound(d), NEW r \in d.timers, \A q \in d.timers : r <= q, r \in InQueue(d)
    PROVE  d.queue # << >> /\ r = Head(d.queue) /\ d.locked = {}
<1>1. d \in DeviceState /\ d.queue \in Seq(Requests) /\ r \in Requests
  BY DEF Sound, DeviceState
<1>2. PICK i \in 1 .. Len(d.queue) : d.queue[i] = r
  BY <1>1, InQueueIndex
<1>3. /\ 1 \in 1 .. Len(d.queue)
      /\ d.queue # << >>
      /\ Head(d.queue) = d.queue[1]
  BY <1>1, <1>2
<1>4. d.queue[1] \in d.timers /\ (1 < i => d.queue[1] < d.queue[i])
  BY <1>3 DEF Sound, QueueSound
<1>5. r = Head(d.queue)
  <2>1. r <= d.queue[1] /\ d.queue[1] \in Nat
    BY <1>1, <1>3, <1>4, Numbers
  <2>2. i = 1
    BY <1>1, <1>2, <1>4, <2>1 DEF Requests
  <2>3. QED
    BY <1>2, <1>3, <2>2
<1>6. ASSUME NEW k \in d.locked
      PROVE  FALSE
  <2>1. k \in AllKinds
    BY <1>1 DEF DeviceState
  <2>2. d.req[k] \in d.timers /\ d.req[k] < r /\ d.req[k] \in Nat
    BY <1>1, <1>2, <2>1, Numbers DEF Sound, LocksSound
  <2>3. QED
    BY <1>1, <2>2 DEF Requests
<1>7. QED
  BY <1>3, <1>5, <1>6

LEMMA TimeoutWakeupSound ==
    ASSUME IInv, NEW r \in Requests, TimeoutWakeup(r)
    PROVE  Sound(dev')
<1> DEFINE d1 == TimeoutLocks(dev)
           d2 == TimeoutQueue(d1, dev.id[r])
           T == d2.timers \ {r}
           e == [d2 EXCEPT !.timers = T]
<1>1. /\ ReqsOK /\ Sound(dev) /\ dev \in DeviceState
      /\ r \in dev.timers /\ Old(r)
      /\ \A q \in dev.timers : r <= q
  BY DEF IInv, Sound, TimeoutWakeup
<1>2. /\ Sound(d1) /\ Advances(dev, d1)
      /\ dev.locked = {} => d1 = dev
      /\ dev.locked # {} /\ Old(Holder(dev)) => d1.locked = {}
  BY <1>1, TimeoutLocksSound
<1>3. dev' = e
  BY DEF TimeoutWakeup
<1> HIDE DEF d1
<1>4. Sound(d2) /\ Advances(d1, d2)
  BY <1>1, <1>2, TimeoutQueueSound
<1>5. r \notin InQueue(d2) /\ \A k \in d2.locked : d2.req[k] # r
  <2>1. CASE r \in InQueue(dev)
    <3>1. dev.queue # << >> /\ r = Head(dev.queue) /\ dev.locked = {}
      BY <1>1, <2>1, TimerMeetsHead
    <3>2. d1 = dev
      BY <1>2, <3>1
    <3>3. d2.locked = {} /\ r \notin InQueue(d2)
      BY <1>1, <3>1, <3>2, TimeoutQueueClears
    <3>4. QED
      BY <3>3
  <2>2. CASE r \notin InQueue(dev)
    <3>1. \A i \in 1 .. Len(dev.queue) : dev.queue[i] # r
      BY <1>1, <2>2, InQueueIndex
    <3>2. \A i \in 1 .. Len(d1.queue) : d1.queue[i] # r
      BY <1>2, <3>1 DEF Advances
    <3>3. \A k \in d1.locked : d1.req[k] # r
      <4>1. CASE \E k \in dev.locked : dev.req[k] = r
        <5>1. PICK k \in dev.locked : dev.req[k] = r
          BY <4>1
        <5>2. dev.locked = {k}
          BY <1>1 DEF Sound, LocksSound
        <5>3. Holder(dev) = r
          BY <5>1, <5>2 DEF Holder
        <5>4. d1.locked = {}
          BY <1>1, <1>2, <5>2, <5>3
        <5>5. QED
          BY <5>4
      <4>2. CASE \A k \in dev.locked : dev.req[k] # r
        BY <1>2, <3>1, <4>2 DEF Advances
      <4>3. QED
        BY <4>1, <4>2
    <3>4. \A i \in 1 .. Len(d2.queue) : d2.queue[i] # r
      BY <1>4, <3>2 DEF Advances
    <3>5. \A k \in d2.locked : d2.req[k] # r
      BY <1>4, <3>2, <3>3 DEF Advances
    <3>6. QED
      BY <1>4, <3>4, <3>5, InQueueIndex DEF Sound
  <2>3. QED
    BY <2>1, <2>2
<1> HIDE DEF d2
<1>6. d2 \in DeviceState /\ T \in SUBSET Requests
  BY <1>4 DEF Sound, DeviceState
<1>7. /\ e \in DeviceState
      /\ e.queue = d2.queue /\ e.arrived = d2.arrived /\ e.id = d2.id /\ e.lastId = d2.lastId
      /\ e.req = d2.req /\ e.timers = T /\ e.retries = d2.retries /\ e.locked = d2.locked
  BY <1>6 DEF DeviceState
<1>8. \A i \in 1 .. Len(d2.queue) : d2.queue[i] # r
  BY <1>5, <1>6, InQueueIndex
<1> HIDE DEF e
<1>9. LocksSound(e)
  BY <1>4, <1>5, <1>7 DEF Sound, LocksSound
<1>10. QueueSound(e)
  BY <1>4, <1>7, <1>8 DEF Sound, QueueSound
<1>11. RetriesSound(e)
  BY <1>4, <1>7 DEF Sound, RetriesSound
<1>12. QED
  BY <1>3, <1>7, <1>9, <1>10, <1>11 DEF Sound

LEMMA BackendSound ==
    ASSUME IInv, NEW r \in Requests,
           \/ \E st \in Outcomes : BackendReply(r, st)
           \/ LoseReply(r)
           \/ RetryWakeup(r)
    PROVE  Sound(dev')
<1>1. /\ ReqsOK /\ Sound(dev) /\ dev \in DeviceState
      /\ Kind(r) \in AllKinds /\ dev.sender[Kind(r)] \in Clients
  BY KindType DEF IInv, Sound, DeviceState, Clients
<1> DEFINE J == dev.jobs \ {r}
           e == [dev EXCEPT !.jobs = J]
<1>2. Sound(e)
  <2>1. J \in SUBSET Requests
    BY <1>1 DEF DeviceState
  <2> HIDE DEF J
  <2>2. e \in DeviceState
    BY <1>1, <2>1 DEF DeviceState
  <2>3. Releases(dev, e)
    BY <1>1, <2>2 DEF Releases, DeviceState
  <2>4. QED
    BY <1>1, <2>3, ReleasesSound
<1>3. ASSUME NEW st \in Outcomes, BackendReply(r, st)
      PROVE  Sound(dev')
  <2>1. dev' = HandleReply(e, Kind(r), st, dev.sender[Kind(r)])
    BY <1>3 DEF BackendReply
  <2>2. st \in Status
    BY DEF Outcomes, Status, Successes, Failures
  <2> HIDE DEF e
  <2>3. QED
    BY <1>1, <1>2, <2>1, <2>2, HandleReplySound
<1>4. CASE LoseReply(r)
  BY <1>2, <1>4 DEF LoseReply
<1>5. CASE RetryWakeup(r)
  <2> DEFINE R == dev.retries \ {r}
             f == [dev EXCEPT !.retries = R]
  <2>1. dev' = Worker(f, r) /\ r \in dev.retries
    BY <1>5 DEF RetryWakeup
  <2>2. R \in SUBSET Requests /\ R \subseteq dev.retries
    BY <1>1 DEF DeviceState
  <2> HIDE DEF R
  <2>3. /\ f \in DeviceState
        /\ f.queue = dev.queue /\ f.arrived = dev.arrived /\ f.id = dev.id
        /\ f.lastId = dev.lastId /\ f.req = dev.req /\ f.timers = dev.timers
        /\ f.retries = R /\ f.locked = dev.locked
    BY <1>1, <2>2 DEF DeviceState
  <2> HIDE DEF f
  <2>4. LocksSound(f) /\ QueueSound(f) /\ RetriesSound(f)
    BY <1>1, <2>2, <2>3 DEF Sound, LocksSound, QueueSound, RetriesSound
  <2>5. Sound(f)
    BY <2>3, <2>4 DEF Sound
  <2>6. r \in InQueue(f) => r = Head(f.queue)
    <3>1. ASSUME r \in InQueue(f)
          PROVE  r = Head(f.queue)
      <4>1. PICK i \in 1 .. Len(f.queue) : f.queue[i] = r
        BY <2>3, <3>1, InQueueIndex
      <4>2. i = 1
        BY <1>1, <2>1, <2>3, <4>1 DEF Sound, RetriesSound
      <4>3. f.queue \in Seq(Requests)
        BY <2>3 DEF DeviceState
      <4>4. QED
        BY <4>1, <4>2, <4>3
    <3>2. QED
      BY <3>1
  <2>7. QED
    BY <1>1, <2>1, <2>5, <2>6, WorkerSound
<1>6. QED
  BY <1>3, <1>4, <1>5

LEMMA StatusAndEndSound ==
    ASSUME IInv,
           \/ \E o \in Owners, a \in BOOLEAN : SetDeviceStatus(o, a)
           \/ Kill
           \/ ActorExit
    PROVE  Sound(dev')
<1>1. Sound(dev) /\ dev \in DeviceState
  BY DEF IInv, Sound
<1>2. ASSUME NEW o \in Owners, NEW a \in BOOLEAN, SetDeviceStatus(o, a)
      PROVE  Sound(dev')
  <2>1. PICK v \in Reservation : dev' = [dev EXCEPT !.rsv = v]
    BY <1>1, <1>2 DEF SetDeviceStatus, DeviceState, Reservation
  <2>2. QED
    BY <1>1, <2>1, NewReservation, ReleasesSound
<1>3. CASE Kill
  BY <1>1, <1>3, KillMyselfReleases, ReleasesSound DEF Kill
<1>4. CASE ActorExit
  <2>1. dev' = [dev EXCEPT !.exit = "done"]
    BY <1>4 DEF ActorExit
  <2>2. dev' \in DeviceState
    BY <1>1, <2>1 DEF DeviceState
  <2>3. Releases(dev, dev')
    BY <1>1, <2>1, <2>2 DEF Releases, DeviceState
  <2>4. QED
    BY <1>1, <2>3, ReleasesSound
<1>5. QED
  BY <1>2, <1>3, <1>4

LEMMA AfterRedirectorReleases ==
    ASSUME NEW d \in DeviceState
    PROVE  Releases(d, AfterRedirector(d))
<1> DEFINE v == [d.rsv EXCEPT !.port = FALSE]
           e == [d EXCEPT !.rsv = v]
<1>1. v \in Reservation /\ d.sender["Free"] \in Clients
  BY DEF DeviceState, Reservation, Clients, AllKinds
<1>2. AfterRedirector(d) = IF d.rsv.owner = NoOwner THEN d ELSE SendFreeStatus(e, d.sender["Free"])
  BY DEF AfterRedirector
<1> HIDE DEF v
<1>3. Releases(d, e)
  BY <1>1, NewReservation
<1>4. Releases(e, SendFreeStatus(e, d.sender["Free"]))
  BY <1>1, <1>3, SendFreeStatusReleases DEF Releases
<1>5. QED
  BY <1>2, <1>3, <1>4, ReleasesReflexive, ReleasesTransitive

LEMMA RedirectorSound ==
    ASSUME IInv, Redirector
    PROVE  Sound(dev')
<1>1. /\ ReqsOK /\ Sound(dev) /\ dev \in DeviceState
      /\ dev.sender["Reserve"] \in Clients
  BY DEF IInv, Sound, DeviceState, Clients, AllKinds
<1>2. \A c \in {"none", "starting", "open", "mute", "exiting"},
        s \in {"none", "OK", "UNKNOWN_PORT"} :
         Releases(dev, [dev EXCEPT !.child = c, !.sock = s])
  <2> TAKE c \in {"none", "starting", "open", "mute", "exiting"},
           s \in {"none", "OK", "UNKNOWN_PORT"}
  <2>1. [dev EXCEPT !.child = c, !.sock = s] \in DeviceState
    BY <1>1 DEF DeviceState
  <2>2. QED
    BY <1>1, <2>1 DEF Releases, DeviceState
<1>3. CASE RedirectorSetup
  BY <1>1, <1>2, <1>3, ReleasesSound DEF RedirectorSetup
<1>4. CASE RedirectorKilled \/ SocketClosed
  <2>1. dev' = [dev EXCEPT !.child = "exiting", !.sock = dev.sock]
    BY <1>1, <1>4 DEF RedirectorKilled, SocketClosed, DeviceState
  <2>2. dev.sock \in {"none", "OK", "UNKNOWN_PORT"}
    BY <1>1 DEF DeviceState
  <2>3. QED
    BY <1>1, <1>2, <2>1, <2>2, ReleasesSound
<1>5. CASE ReceiveSocketMsg
  <2> DEFINE d == [dev EXCEPT !.sock = "none"]
             w == WriteReservation(d, TRUE)
             u == [d EXCEPT !.ret = dev.sock]
  <2>1. dev' = IF dev.sock = "OK" THEN SendReservationStatus(w, dev.sender["Reserve"])
               ELSE SendReservationStatus(u, dev.sender["Reserve"])
    BY <1>5 DEF ReceiveSocketMsg
  <2>2. dev.sock \in Status
    BY <1>1, <1>5 DEF ReceiveSocketMsg, DeviceState, Status, Successes
  <2>3. d \in DeviceState
    BY <1>1 DEF DeviceState
  <2>4. Releases(dev, d)
    BY <1>1, <2>3 DEF Releases, DeviceState
  <2> HIDE DEF d
  <2>5. Releases(d, w) /\ Releases(d, u)
    BY <1>1, <2>2, <2>3, WriteReservationReleases, NewReturn
  <2> HIDE DEF w, u
  <2>6. /\ Releases(w, SendReservationStatus(w, dev.sender["Reserve"]))
        /\ Releases(u, SendReservationStatus(u, dev.sender["Reserve"]))
    BY <1>1, <2>5, SendReservationStatusReleases DEF Releases
  <2>7. QED
    BY <1>1, <2>1, <2>4, <2>5, <2>6, ReleasesSound
<1>6. CASE ReceiveChildActorExited \/ ReceiveChildActorExitedAgain
  <2> DEFINE d == AfterRedirector(dev)
  <2>1. Releases(dev, d) /\ d \in DeviceState
    BY <1>1, AfterRedirectorReleases DEF Releases
  <2>2. \E c \in {"none", "starting", "open", "mute", "exiting"},
          x \in {"no", "requested", "done"}, n \in Nat :
           dev' = [d EXCEPT !.child = c, !.stale = n, !.exit = x]
    <3>1. CASE ReceiveChildActorExited
      <4>1. /\ d.stale + 1 \in Nat
            /\ (IF dev.onKill THEN "requested" ELSE d.exit) \in {"no", "requested", "done"}
        BY <2>1 DEF DeviceState
      <4>2. QED
        BY <3>1, <4>1 DEF ReceiveChildActorExited
    <3>2. CASE ReceiveChildActorExitedAgain
      <4>1. d.stale = dev.stale
        <5>1. \A e \in DeviceState, to \in Clients : SendFreeStatus(e, to).stale = e.stale
          BY DEF SendFreeStatus, Answer, DeviceState
        <5>2. dev.sender["Free"] \in Clients
          BY <1>1 DEF DeviceState, Clients, AllKinds
        <5>3. /\ [dev EXCEPT !.rsv.port = FALSE] \in DeviceState
              /\ [dev EXCEPT !.rsv.port = FALSE].stale = dev.stale
          BY <1>1 DEF DeviceState, Reservation
        <5>4. QED
          BY <5>1, <5>2, <5>3 DEF AfterRedirector
      <4>2. /\ d.stale - 1 \in Nat
            /\ d.child \in {"none", "starting", "open", "mute", "exiting"}
            /\ d.exit \in {"no", "requested", "done"}
        BY <1>1, <2>1, <3>2, <4>1 DEF ReceiveChildActorExitedAgain, DeviceState
      <4>3. dev' = [d EXCEPT !.child = d.child, !.stale = d.stale - 1, !.exit = d.exit]
        BY <2>1, <3>2 DEF ReceiveChildActorExitedAgain, DeviceState
      <4>4. QED
        BY <4>2, <4>3
    <3>3. QED
      BY <1>6, <3>1, <3>2
  <2> HIDE DEF d
  <2>3. PICK c \in {"none", "starting", "open", "mute", "exiting"},
            x \in {"no", "requested", "done"}, n \in Nat :
           dev' = [d EXCEPT !.child = c, !.stale = n, !.exit = x]
    BY <2>2
  <2>4. [d EXCEPT !.child = c, !.stale = n, !.exit = x] \in DeviceState
    BY <2>1 DEF DeviceState
  <2>5. Releases(d, [d EXCEPT !.child = c, !.stale = n, !.exit = x])
    BY <2>1, <2>4 DEF Releases, DeviceState
  <2>6. QED
    BY <1>1, <2>1, <2>3, <2>5, ReleasesSound
<1>7. QED
  BY <1>3, <1>4, <1>5, <1>6 DEF Redirector

-----------------------------------------------------------------------------
(* The theorems. *)

LEMMA InitSound == Init => IInv
<1> SUFFICES ASSUME Init PROVE IInv
  OBVIOUS
<1> DEFINE zero == [r \in Requests |-> 0]
           none == [k \in AllKinds |-> NoReq]
           noAnswer == [r \in Requests |-> "none"]
<1>1. /\ zero \in [Requests -> Nat]
      /\ none \in [AllKinds -> 0 .. MaxRequests]
      /\ \A k \in AllKinds : none[k] = 0
      /\ noAnswer \in Answers
      /\ NoReservation \in Reservation
      /\ NoReq \in 0 .. MaxRequests
      /\ 0 \in 0 .. MaxRequests
  BY DeviceActorAssumption DEF NoReq, Answers, NoReservation, Reservation
<1> HIDE DEF zero, none, noAnswer
<1>2. dev = [arrived |-> 0, queue |-> <<>>,
              id |-> zero, lastId |-> 0,
              locked |-> {}, req |-> none,
              sender |-> none,
              rsv |-> NoReservation, msg |-> NoReq, ret |-> "None",
              onKill |-> FALSE, exit |-> "no", poison |-> FALSE,
              jobs |-> {}, timers |-> {}, retries |-> {},
              ans |-> noAnswer,
              child |-> "none", kill |-> FALSE, sock |-> "none", stale |-> 0]
  BY DEF Init, zero, none, noAnswer
<1>3. dev \in DeviceState
  BY <1>1, <1>2 DEF DeviceState, Answers
<1>4. LocksSound(dev) /\ QueueSound(dev) /\ RetriesSound(dev)
  BY <1>1, <1>2 DEF LocksSound, QueueSound, RetriesSound
<1>5. ReqsOK /\ aged \in 0 .. MaxRequests
  BY <1>1 DEF Init, ReqsOK
<1>6. QED
  BY <1>3, <1>4, <1>5 DEF IInv, Sound

LEMMA StepSound == IInv /\ [Next]_vars => IInv'
<1> SUFFICES ASSUME IInv, [Next]_vars PROVE IInv'
  OBVIOUS
<1>1. ReqsOK /\ Sound(dev) /\ aged \in 0 .. MaxRequests
  BY DEF IInv
<1>2. reqs' = reqs
  BY DEF Next, vars, Receive, ReceiveReserve, ReceiveFree, ReceiveGetRecentValue,
         ReceiveGetDeviceStatus, ReceiveStartMonitoring, ReceiveStopMonitoring, ReceiveSetRtc,
         Arrives, BackendReply, LoseReply, RetryWakeup, TimeoutWakeup, SetDeviceStatus, Tick,
         Kill, ActorExit, Redirector, RedirectorSetup, RedirectorKilled, SocketClosed,
         ReceiveSocketMsg, ReceiveChildActorExited, ReceiveChildActorExitedAgain
<1>3. aged' \in 0 .. MaxRequests
  <2>1. CASE Tick
    <3>1. dev.arrived \in 0 .. MaxRequests
      BY <1>1 DEF Sound, DeviceState
    <3>2. QED
      BY <1>1, <2>1, <3>1, DeviceActorAssumption DEF Tick
  <2>2. CASE aged' = aged
    BY <1>1, <2>2
  <2>3. QED
    BY <2>1, <2>2
       DEF Next, vars, Receive, ReceiveReserve, ReceiveFree, ReceiveGetRecentValue,
         ReceiveGetDeviceStatus, ReceiveStartMonitoring, ReceiveStopMonitoring, ReceiveSetRtc,
         Arrives, BackendReply, LoseReply, RetryWakeup, TimeoutWakeup, SetDeviceStatus,
         Kill, ActorExit, Redirector, RedirectorSetup, RedirectorKilled, SocketClosed,
         ReceiveSocketMsg, ReceiveChildActorExited, ReceiveChildActorExitedAgain
<1>4. Sound(dev')
  <2>1. ASSUME NEW r \in Requests, Receive(r)
        PROVE  Sound(dev')
    BY <2>1, ReceiveReserveSound, ReceiveFreeSound, ReceiveOtherSound DEF Receive
  <2>2. ASSUME NEW r \in Requests,
               \/ \E st \in Outcomes : BackendReply(r, st)
               \/ LoseReply(r)
               \/ RetryWakeup(r)
        PROVE  Sound(dev')
    BY <2>2, BackendSound
  <2>3. ASSUME NEW r \in Requests, TimeoutWakeup(r)
        PROVE  Sound(dev')
    BY <2>3, TimeoutWakeupSound
  <2>4. CASE \/ \E o \in Owners, a \in BOOLEAN : SetDeviceStatus(o, a)
             \/ Kill
             \/ ActorExit
    BY <2>4, StatusAndEndSound
  <2>5. CASE Redirector
    BY <2>5, RedirectorSound
  <2>6. CASE Tick \/ UNCHANGED vars
    BY <1>1, <2>6 DEF Tick, vars
  <2>7. QED
    BY <2>1, <2>2, <2>3, <2>4, <2>5, <2>6 DEF Next
<1>5. QED
  BY <1>1, <1>2, <1>3, <1>4 DEF IInv, ReqsOK

\* The queue discipline holds in every reachable state.
THEOREM Discipline == Spec => []IInv
BY InitSound, StepSound, PTL DEF Spec

\* Every attribute of the device actor keeps its type, whatever messages it
\* receives in whatever order.
THEOREM TypeCorrect == Spec => []TypeOK
<1>1. IInv => TypeOK
  BY DEF IInv, Sound, TypeOK, ReqsOK
<1>2. QED
  BY <1>1, Discipline, PTL

\* The seven request locks of _lock_request are together one mutex.
THEOREM OneMutex == Spec => []AtMostOneLocked
<1>1. IInv => AtMostOneLocked
  BY DEF IInv, Sound, LocksSound, AtMostOneLocked
<1>2. QED
  BY <1>1, Discipline, PTL

\* Requests are served in the order of their arrival: the holder of a lock is
\* older than all that wait in request_queue, and those are in order.
THEOREM ServedInOrder == Spec => []QueueInOrder
<1>1. IInv => QueueInOrder
  <2> SUFFICES ASSUME IInv PROVE QueueInOrder
    OBVIOUS
  <2>1. \A r \in InQueue(dev) : \E i \in 1 .. Len(dev.queue) : dev.queue[i] = r
    BY InQueueIndex DEF IInv, Sound
  <2>2. QED
    BY <2>1 DEF IInv, Sound, LocksSound, QueueSound, QueueInOrder
<1>2. QED
  BY <1>1, Discipline, PTL

\* request_queue.pop(0) in _lock_request removes the request that retries.
THEOREM RetriesAtHead == Spec => []RetryMeetsHead
<1>1. IInv => RetryMeetsHead
  <2> SUFFICES ASSUME IInv, NEW r \in dev.retries, r \in InQueue(dev)
               PROVE  r = Head(dev.queue)
    BY DEF RetryMeetsHead
  <2>1. dev \in DeviceState /\ dev.queue \in Seq(Requests)
    BY DEF IInv, Sound, DeviceState
  <2>2. PICK i \in 1 .. Len(dev.queue) : dev.queue[i] = r
    BY <2>1, InQueueIndex
  <2>3. i = 1
    BY <2>2 DEF IInv, Sound, RetriesSound
  <2>4. QED
    BY <2>1, <2>2, <2>3
<1>2. QED
  BY <1>1, Discipline, PTL

\* Although last_request_id restarts when the queue runs empty, no two requests
\* in the queue share an id, so a timeout drops one request only.
THEOREM IdsAscend == Spec => []IdsInOrder
<1>1. IInv => IdsInOrder
  <2> SUFFICES ASSUME IInv PROVE IdsInOrder
    OBVIOUS
  <2>1. \A r \in InQueue(dev) : \E i \in 1 .. Len(dev.queue) : dev.queue[i] = r
    BY InQueueIndex DEF IInv, Sound
  <2>2. QED
    BY <2>1 DEF IInv, Sound, QueueSound, IdsInOrder
<1>2. QED
  BY <1>1, Discipline, PTL

\* Each request in the queue or in a lock has a 20 s timer that has not fired:
\* no request is stuck for ever, whatever the backend does.
THEOREM NoRequestStuck == Spec => []TimerGuardsRequest
<1>1. IInv => TimerGuardsRequest
  <2> SUFFICES ASSUME IInv PROVE TimerGuardsRequest
    OBVIOUS
  <2>1. \A r \in InQueue(dev) : \E i \in 1 .. Len(dev.queue) : dev.queue[i] = r
    BY InQueueIndex DEF IInv, Sound
  <2>2. QED
    BY <2>1 DEF IInv, Sound, LocksSound, QueueSound, TimerGuardsRequest
<1>2. QED
  BY <1>1, Discipline, PTL

=============================================================================
