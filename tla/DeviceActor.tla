------------------------------ MODULE DeviceActor ------------------------------
(***************************************************************************)
(* DeviceBaseActor (src/src/regserver/modules/device_actor.py): the actor  *)
(* that owns one instrument.  It serialises the requests of all clients    *)
(* through one queue and one lock per request kind, forwards them to a     *)
(* backend that answers later or never, bounds each by a 20 s timeout,     *)
(* keeps the reservation of the instrument and the redirector actor        *)
(* through which the reserving application talks to the instrument.        *)
(*                                                                         *)
(* One action is one actor message handled to its end.  A handler calls    *)
(* several methods that change the attributes of the actor one after the   *)
(* other, so each method is an operator from the actor's attributes, the   *)
(* record dev, to its attributes.                                          *)
(***************************************************************************)
EXTENDS Naturals, FiniteSets, SequencesExt

CONSTANTS
    MaxRequests,      \* number of requests the clients send in a behaviour
    Kinds,            \* the request kinds they send, some of AllKinds
    Owners,           \* (App, User, Host) identities that reserve the instrument
    NoOwner,          \* a device status without a Reservation section
    RedirectOwners,   \* owners that ask for a redirector (REST API) ...
                      \* ... the others do not (MQTT scheduler)
    SyncKinds,        \* kinds the backend answers inside the worker
    LateReplies,      \* may a backend answer a request 20 s old or older?
    LateTimers,       \* may a timer be handled when younger requests are 20 s old?
    ExternalUpdates,  \* may SetDeviceStatusMsg change the reservation?
    Renewals          \* may an owner reserve again while another request to
                      \* reserve is being served?

AllKinds == {"Reserve", "Free", "GetRecentValue", "GetDeviceStatus",
             "StartMonitoring", "StopMonitoring", "SetRtc"}

ASSUME DeviceActorAssumption ==
    /\ MaxRequests \in Nat
    /\ Kinds \subseteq AllKinds
    /\ NoOwner \notin Owners
    /\ RedirectOwners \subseteq Owners
    /\ SyncKinds \subseteq AllKinds \ {"Reserve"}
    /\ LateReplies \in BOOLEAN
    /\ LateTimers \in BOOLEAN
    /\ ExternalUpdates \in BOOLEAN
    /\ Renewals \in BOOLEAN

\* What a client asks for; only a ReserveDeviceMsg says who the client is.
Demands == [kind : Kinds \ {"Reserve"}, owner : {NoOwner}]
           \cup [kind : Kinds \cap {"Reserve"}, owner : Owners]

\* A request is named by its place in the order of arrival; 0 stands for none.
Requests == 1 .. MaxRequests
NoReq == 0

\* Messages whose class has no attribute "client".
NoClient == {"Reserve", "Free", "GetDeviceStatus"}

Successes == {"OK", "OK_SKIPPED", "OK_UPDATED"}
Failures == {"BUSY_TIMEOUT", "NOT_FOUND", "IS_NOT_FOUND", "ERROR"}
Status == Successes \cup Failures \cup {"OCCUPIED", "UNKNOWN_PORT"}

\* What a backend may report for any kind of request.
Outcomes == {"OK", "OK_SKIPPED", "OCCUPIED", "NOT_FOUND"}

VARIABLES
    reqs,   \* what request r asks for
    aged,   \* requests 1 .. aged were received 20 s ago or earlier
    dev     \* the attributes of the device actor and the messages it has sent

vars == <<reqs, aged, dev>>

Kind(r) == reqs[r].kind

\* The message that __init__ puts into reserve_device_msg names nobody.
Owner(r) == IF r = NoReq THEN NoOwner ELSE reqs[r].owner
WantsRedirector(r) == Owner(r) \in RedirectOwners

\* datetime.now() - request.time >= REQUEST_TIMEOUT
Old(r) == r <= aged

-----------------------------------------------------------------------------
(* The state of the actor. *)

Reservation == [active : BOOLEAN, owner : Owners \cup {NoOwner}, port : BOOLEAN]
NoReservation == [active |-> FALSE, owner |-> NoOwner, port |-> FALSE]

DeviceState ==
    [arrived : 0 .. MaxRequests,           \* requests received so far
     queue   : Seq(Requests),              \* request_queue
     id      : [Requests -> Nat],          \* ActionRequest.id
     lastId  : Nat,                        \* last_request_id
     locked  : SUBSET AllKinds,            \* request_locks[k].locked
     req     : [AllKinds -> 0 .. MaxRequests],   \* request_locks[k].request
     sender  : [AllKinds -> 0 .. MaxRequests],   \* ... and its .sender
     rsv     : Reservation,                \* device_status["Reservation"]
     msg     : 0 .. MaxRequests,           \* reserve_device_msg
     ret     : Status \cup {"None"},       \* return_message
     onKill  : BOOLEAN,                    \* on_kill
     exit    : {"no", "requested", "done"},      \* ActorExitRequest to itself
     poison  : BOOLEAN,                    \* PoisonMessage to a server actor
     jobs    : SUBSET Requests,            \* requests the backend works on
     timers  : SUBSET Requests,            \* WakeupMessages after 20 s
     retries : SUBSET Requests,            \* WakeupMessages after 0.5 s
     ans     : [Requests -> Status \cup {"none", "POISON"}],   \* first answer
     child   : {"none", "starting", "open", "mute", "exiting"},  \* redirector
     kill    : BOOLEAN,                    \* KillMsg under way to it
     sock    : {"none", "OK", "UNKNOWN_PORT"},   \* its SocketMsg under way
     stale   : Nat]         \* late ChildActorExited of former redirectors

Init ==
    /\ reqs \in [Requests -> Demands]
    /\ aged = 0
    /\ dev = [arrived |-> 0, queue |-> <<>>,
              id |-> [r \in Requests |-> 0], lastId |-> 0,
              locked |-> {}, req |-> [k \in AllKinds |-> NoReq],
              sender |-> [k \in AllKinds |-> NoReq],
              rsv |-> NoReservation, msg |-> NoReq, ret |-> "None",
              onKill |-> FALSE, exit |-> "no", poison |-> FALSE,
              jobs |-> {}, timers |-> {}, retries |-> {},
              ans |-> [r \in Requests |-> "none"],
              child |-> "none", kill |-> FALSE, sock |-> "none", stale |-> 0]

-----------------------------------------------------------------------------
(* Helpers. *)

InQueue(d) == ToSet(d.queue)

Reserved(d) == d.rsv.active

\* The request whose lock is found locked first.
Holder(d) == d.req[CHOOSE k \in d.locked : TRUE]

Release(d, k) == [d EXCEPT !.locked = @ \ {k}]

\* A client asks from a private actor address: it takes the first answer.
Answer(d, to, st) ==
    IF to # NoReq /\ d.ans[to] = "none" THEN [d EXCEPT !.ans[to] = st] ELSE d

\* Mutant: without the test that there is a return_message.
SendReservationStatusUnchecked(d, to) ==
    [Answer(d, to, d.ret) EXCEPT
        !.locked = IF d.ret = "OCCUPIED" THEN @ ELSE @ \ {"Reserve"},
        !.ret = "None"]

SendReservationStatus(d, to) ==
    IF d.ret = "None" THEN d
    ELSE [Answer(d, to, d.ret) EXCEPT
             !.locked = IF d.ret = "OCCUPIED" THEN @ ELSE @ \ {"Reserve"},
             !.ret = "None"]

SendFreeStatus(d, to) ==
    IF d.ret = "None" THEN d
    ELSE [Answer(d, to, d.ret) EXCEPT
             !.locked = IF d.ret = "OK_SKIPPED" THEN @ ELSE @ \ {"Free"},
             !.ret = "None"]

CreateRedirector(d) == [d EXCEPT !.child = "starting", !.kill = FALSE]

KillRedirector(d) == [d EXCEPT !.kill = (d.child # "none")]

-----------------------------------------------------------------------------
(* Replies of the backend, without the leading self._fifo(None). *)

\* self.device_status["Reservation"] is written for the owner of reserve_device_msg.
WriteReservation(d, port) ==
    [d EXCEPT !.rsv = [active |-> TRUE, owner |-> Owner(d.msg), port |-> port]]

\* Mutant: without the comparison with the present owner.
ReserveGrantedToAnyone(d, to) ==
    IF ~WantsRedirector(d.msg)
    THEN SendReservationStatus(WriteReservation(d, FALSE), to)
    ELSE IF d.child = "none" THEN CreateRedirector(d) ELSE SendReservationStatus(d, to)

ReserveGranted(d, to) ==
    IF Reserved(d) /\ d.rsv.owner # Owner(d.msg)
    THEN SendReservationStatus([d EXCEPT !.ret = "OCCUPIED"], to)        \* A
    ELSE LET e == IF Reserved(d) THEN [d EXCEPT !.ret = "OK"] ELSE d
         IN  IF ~WantsRedirector(d.msg)
             THEN SendReservationStatus(WriteReservation(e, FALSE), to)  \* C
             ELSE IF d.child = "none"
                  THEN CreateRedirector(e)
                  ELSE SendReservationStatus(e, to)                      \* F

ReserveReply(d, st, to) ==
    LET e == [d EXCEPT !.locked = IF st = "OCCUPIED" THEN @ ELSE @ \ {"Reserve"},
                       !.ret = st]
    IN  CASE st \in Successes -> ReserveGranted(e, to)
          [] st \in Failures -> SendReservationStatus(e, to)
          [] OTHER -> e

FreeReply(d, st, to) ==
    LET freed == st \in Successes
        known == d.rsv.owner # NoOwner
        e == [d EXCEPT
                !.locked = IF st = "OK_SKIPPED" THEN @ ELSE @ \ {"Free"},
                !.rsv = IF freed THEN [@ EXCEPT !.active = FALSE] ELSE @,
                !.ret = IF freed /\ ~known THEN "OK_SKIPPED" ELSE st]
    IN  IF d.child # "none" THEN KillRedirector(e) ELSE SendFreeStatus(e, to)

\* All replies but those to NoClient look up the client in the request that
\* holds a lock: an AttributeError when the class of that one has no "client".
Raises(d, k) == k \notin NoClient /\ d.locked \cap NoClient # {}

SimpleReply(d, k, st, to) ==
    IF Raises(d, k)
    THEN [d EXCEPT !.poison = TRUE]
    ELSE [Answer(d, to, st) EXCEPT
             !.locked = IF st = "OCCUPIED" THEN @ ELSE @ \ {k}]

Reply(d, k, st, to) ==
    CASE k = "Reserve" -> ReserveReply(d, st, to)
      [] k = "Free"    -> FreeReply(d, st, to)
      [] OTHER         -> SimpleReply(d, k, st, to)

-----------------------------------------------------------------------------
(* _kill_myself: whoever waits in a lock or in the queue is told NOT_FOUND. *)
(* The queue keeps its requests.                                            *)

WaitsForRedirector(d, k) == k = "Free" /\ d.child # "none"

\* Mutant: the queue is forgotten.
ToldOnKillInLocks(d) ==
    {d.sender[k] : k \in {l \in d.locked : ~WaitsForRedirector(d, l)}}

ToldOnKill(d) ==
    {r \in InQueue(d) : ~WaitsForRedirector(d, Kind(r))}
    \cup {d.sender[k] : k \in {l \in d.locked : ~WaitsForRedirector(d, l)}}

\* The kinds that use return_message, in the order of their on_kill handlers.
ReturnMessageUsers(d) ==
    LET uses(k) == k \in {"Reserve", "Free"}
        ofLocks == IF "Reserve" \in d.locked THEN <<"Reserve">>
                   ELSE IF "Free" \in d.locked THEN <<"Free">> ELSE <<>>
        ofQueue == [i \in 1 .. Len(d.queue) |-> Kind(d.queue[i])]
    IN  SelectSeq(ofLocks \o ofQueue, uses)

ReturnMessageOnKill(d) ==
    LET users == ReturnMessageUsers(d)
    IN  IF users = <<>> THEN d.ret
        ELSE IF WaitsForRedirector(d, users[Len(users)]) THEN "NOT_FOUND" ELSE "None"

KillMyself(d) ==
    IF d.onKill THEN d
    ELSE [d EXCEPT
             !.ans = [r \in Requests |->
                         IF r \in ToldOnKill(d) /\ d.ans[r] = "none"
                         THEN "NOT_FOUND" ELSE d.ans[r]],
             !.ret = ReturnMessageOnKill(d),
             !.locked = {},
             !.onKill = TRUE,
             !.kill = (d.child # "none"),
             !.exit = IF d.child = "none" THEN "requested" ELSE @]

-----------------------------------------------------------------------------
(* The queue and the locks. *)

\* A worker that finds a lock locked waits 0.5 s, or gives the device up.
Blocked(d, r) ==
    IF Old(Holder(d)) THEN KillMyself(d) ELSE [d EXCEPT !.retries = @ \cup {r}]

\* self._fifo(None) while a lock is held.
FifoHeld(d) == IF d.queue = <<>> THEN d ELSE Blocked(d, Head(d.queue))

\* Mutant: the request is not popped.
TakeLockWithoutPop(d, r) ==
    [d EXCEPT !.lastId = IF Len(d.queue) = 1 THEN 0 ELSE @,
              !.locked = @ \cup {Kind(r)},
              !.req[Kind(r)] = r,
              !.sender[Kind(r)] = r]

\* Mutant: the ids restart with every request that leaves the queue.
TakeLockRestartsIds(d, r) ==
    [d EXCEPT !.queue = Tail(@),
              !.lastId = 0,
              !.locked = @ \cup {Kind(r)},
              !.req[Kind(r)] = r,
              !.sender[Kind(r)] = r]

\* _lock_request pops the first request of the queue, whichever that is.
TakeLock(d, r) ==
    [d EXCEPT !.queue = Tail(@),
              !.lastId = IF Len(d.queue) = 1 THEN 0 ELSE @,
              !.locked = @ \cup {Kind(r)},
              !.req[Kind(r)] = r,
              !.sender[Kind(r)] = r]

\* The call to the backend, _request_..._at_is.
CallBackend(d, r) ==
    IF Kind(r) \in SyncKinds
    THEN Reply(FifoHeld(d), Kind(r), "OK", r)
    ELSE [d EXCEPT !.jobs = @ \cup {r},
                   !.msg = IF Kind(r) = "Reserve" THEN r ELSE @]

\* Mutant: a worker looks at the lock of its own kind only.
WorkerOwnLock(d, r) ==
    IF r \notin InQueue(d) THEN d
    ELSE IF Kind(r) \in d.locked THEN Blocked(d, r)
    ELSE CallBackend(TakeLock(d, r), r)

\* Mutant: the request is popped before the locks are examined.
WorkerPopsFirst(d, r) ==
    IF r \notin InQueue(d) THEN d
    ELSE IF d.locked # {} THEN Blocked([d EXCEPT !.queue = Tail(@)], r)
    ELSE CallBackend(TakeLock(d, r), r)

Worker(d, r) ==
    IF r \notin InQueue(d) THEN d
    ELSE IF d.locked # {} THEN Blocked(d, r)
    ELSE CallBackend(TakeLock(d, r), r)

\* Mutant: the youngest request is served first.
FifoLast(d) == IF d.queue = <<>> THEN d ELSE Worker(d, d.queue[Len(d.queue)])

\* self._fifo(None)
Fifo(d) == IF d.queue = <<>> THEN d ELSE Worker(d, Head(d.queue))

\* self._fifo(None) at the start of a reply handler.  The actor system delivers
\* a message again, once, when its handler raises an exception.
FifoFirst(d, k) == IF Raises(Fifo(d), k) THEN Fifo(Fifo(d)) ELSE Fifo(d)

HandleReply(d, k, st, to) == Reply(FifoFirst(d, k), k, st, to)

-----------------------------------------------------------------------------
(* Receiving a request. *)

Running == dev.exit # "done"

\* The next request arrives, of kind k.
Arrives(r, k) ==
    /\ Running
    /\ r = dev.arrived + 1
    /\ r \in Requests
    /\ Kind(r) = k
    /\ UNCHANGED <<reqs, aged>>

\* last_request_id is incremented even when the request is refused on kill.
WithId(d, r) ==
    [d EXCEPT !.arrived = r, !.lastId = @ + 1, !.id[r] = d.lastId + 1]

\* Mutant: a new request goes to the front of the queue.
EnqueueInFront(d, r) ==
    Fifo([WithId(d, r) EXCEPT !.queue = <<r>> \o @, !.timers = @ \cup {r}])

\* Mutant: no timer is started.
EnqueueWithoutTimer(d, r) == Fifo([WithId(d, r) EXCEPT !.queue = Append(@, r)])

Enqueue(d, r) ==
    Fifo([WithId(d, r) EXCEPT !.queue = Append(@, r), !.timers = @ \cup {r}])

\* A handler that raises an exception twice costs the requester its answer: it
\* gets a PoisonMessage.
Poisoned(d, r) == Answer(d, r, "POISON")

\* The on_kill handlers of all kinds, for a request that was never queued.
RefuseOnKill(d, r) ==
    LET e == WithId(d, r)
    IN  IF Raises(e, Kind(r)) THEN Poisoned(WithId(e, r), r)
        ELSE Reply(e, Kind(r), "NOT_FOUND", r)

Accept(d, r) == IF d.onKill THEN RefuseOnKill(d, r) ELSE Enqueue(d, r)

\* The actor answers without asking the backend.
AnswerAtOnce(d, k, st, r) ==
    LET e == FifoFirst([d EXCEPT !.arrived = r], k)
    IN  IF Raises(e, k) THEN Poisoned(e, r) ELSE Reply(e, k, st, r)

\* Its own answer, OK_UPDATED, releases the lock that the other one holds.
MeetsAnother(r) ==
    Reserved(dev) /\ dev.rsv.owner = Owner(r) /\ "Reserve" \in dev.locked

ReceiveReserve(r) ==
    /\ Arrives(r, "Reserve")
    /\ Renewals \/ ~MeetsAnother(r)
    /\ IF Reserved(dev)
       THEN dev' = SendReservationStatus(
                     [dev EXCEPT !.arrived = r, !.sender["Reserve"] = r,
                                 !.ret = IF dev.rsv.owner = Owner(r)
                                         THEN "OK_UPDATED" ELSE "OCCUPIED"], r)
       ELSE IF dev.onKill
       THEN dev' = ReserveReply([dev EXCEPT !.arrived = r], "NOT_FOUND", r)
       ELSE dev' = Enqueue(dev, r)

ReceiveFree(r) ==
    /\ Arrives(r, "Free")
    /\ dev' = IF Reserved(dev) THEN Accept(dev, r)
              ELSE AnswerAtOnce([dev EXCEPT !.ret = "OK_SKIPPED"], "Free",
                                "OK_SKIPPED", r)

ReceiveGetRecentValue(r) ==
    /\ Arrives(r, "GetRecentValue")
    /\ dev' = IF Reserved(dev)
              THEN AnswerAtOnce(dev, "GetRecentValue", "OCCUPIED", r)
              ELSE Accept(dev, r)

\* These two also make r the sender of the request in the lock.
ReceiveGetDeviceStatus(r) ==
    /\ Arrives(r, "GetDeviceStatus")
    /\ dev' = IF Reserved(dev)
              THEN AnswerAtOnce([dev EXCEPT !.sender["GetDeviceStatus"] = r],
                                "GetDeviceStatus", "OCCUPIED", r)
              ELSE Accept(dev, r)

ReceiveStartMonitoring(r) ==
    /\ Arrives(r, "StartMonitoring")
    /\ dev' = IF Reserved(dev)
              THEN AnswerAtOnce([dev EXCEPT !.sender["StartMonitoring"] = r],
                                "StartMonitoring", "OCCUPIED", r)
              ELSE Accept(dev, r)

ReceiveStopMonitoring(r) ==
    /\ Arrives(r, "StopMonitoring")
    /\ dev' = IF Reserved(dev) THEN Accept(dev, r)
              ELSE AnswerAtOnce(dev, "StopMonitoring", "OK_SKIPPED", r)

ReceiveSetRtc(r) ==
    /\ Arrives(r, "SetRtc")
    /\ dev' = Accept(dev, r)

-----------------------------------------------------------------------------
(* The backend, time and the timers. *)

\* The backend answers request r; the answer goes to the sender of the request
\* that holds, or last held, the lock of this kind.
BackendReply(r, st) ==
    /\ Running
    /\ r \in dev.jobs
    /\ LateReplies \/ ~Old(r)
    /\ dev' = HandleReply([dev EXCEPT !.jobs = @ \ {r}], Kind(r), st,
                          dev.sender[Kind(r)])
    /\ UNCHANGED <<reqs, aged>>

\* The answer is lost: a broken connection, an unreachable broker or host.
LoseReply(r) ==
    /\ r \in dev.jobs
    /\ dev' = [dev EXCEPT !.jobs = @ \ {r}]
    /\ UNCHANGED <<reqs, aged>>

\* 20 s have passed since request aged + 1.  An actor that is busy handles the
\* timers of the requests before it later than that.
Tick ==
    /\ aged < dev.arrived
    /\ LateTimers \/ \A r \in dev.timers : ~Old(r)
    /\ aged' = aged + 1
    /\ UNCHANGED <<reqs, dev>>

RetryWakeup(r) ==
    /\ Running
    /\ r \in dev.retries
    /\ dev' = Worker([dev EXCEPT !.retries = @ \ {r}], r)
    /\ UNCHANGED <<reqs, aged>>

\* Mutant: the lock is released, its requester is not told.
TimeoutLocksSilently(d) ==
    IF d.locked = {} \/ ~Old(Holder(d)) THEN d ELSE [d EXCEPT !.locked = {}]

\* Mutant: only the lock for reservations is examined.
TimeoutReserveLock(d) ==
    IF "Reserve" \notin d.locked \/ ~Old(Holder(d)) THEN d
    ELSE Release(HandleReply(d, "Reserve", "BUSY_TIMEOUT", d.sender["Reserve"]), "Reserve")

\* Every locked lock whose request is old.
TimeoutLocks(d) ==
    IF d.locked = {} \/ ~Old(Holder(d)) THEN d
    ELSE LET k == CHOOSE l \in d.locked : TRUE
         IN  Release(HandleReply(d, k, "BUSY_TIMEOUT", d.sender[k]), k)

\* The old request in the queue whose id is the one in the wakeup.  When the
\* handler itself has popped it, request_queue.remove raises a ValueError; the
\* repeated handler then finds nothing to do.
TimeoutQueue(d, id) ==
    LET due == {q \in InQueue(d) : Old(q) /\ d.id[q] = id}
        r == CHOOSE q \in due : TRUE
        e == HandleReply(d, Kind(r), "BUSY_TIMEOUT", r)
    IN  IF due = {} THEN d ELSE [e EXCEPT !.queue = RemoveFirst(@, r)]

\* The actor system fires timers in the order in which they expire.
TimeoutWakeup(r) ==
    /\ Running
    /\ r \in dev.timers
    /\ Old(r)
    /\ \A q \in dev.timers : r <= q
    /\ dev' = [TimeoutQueue(TimeoutLocks(dev), dev.id[r]) EXCEPT !.timers = @ \ {r}]
    /\ UNCHANGED <<reqs, aged>>

-----------------------------------------------------------------------------
(* Reservation changes from outside, and the end of the actor. *)

\* SetDeviceStatusMsg from the actor that created this one: another Instrument
\* Server or another host has reserved or freed the instrument.
SetDeviceStatus(o, active) ==
    /\ ExternalUpdates
    /\ Running
    /\ dev' = [dev EXCEPT !.rsv.active = active, !.rsv.owner = o]
    /\ UNCHANGED <<reqs, aged>>

\* KillMsg from the parent, or _kill_myself after a failure of the backend.
Kill ==
    /\ Running
    /\ ~dev.onKill
    /\ dev' = KillMyself(dev)
    /\ UNCHANGED <<reqs, aged>>

ActorExit ==
    /\ dev.exit = "requested"
    /\ dev' = [dev EXCEPT !.exit = "done"]
    /\ UNCHANGED <<reqs, aged>>

-----------------------------------------------------------------------------
(* The redirector actor (redirect_actor.py) and what it sends. *)

RedirectorSetup ==
    /\ dev.child = "starting"
    /\ \/ dev' = [dev EXCEPT !.child = "open", !.sock = "OK"]
       \/ dev' = [dev EXCEPT !.child = "mute", !.sock = "UNKNOWN_PORT"]
    /\ UNCHANGED <<reqs, aged>>

\* It handles the KillMsg of the device actor.
RedirectorKilled ==
    /\ dev.child \in {"open", "mute"}
    /\ dev.kill
    /\ dev' = [dev EXCEPT !.child = "exiting"]
    /\ UNCHANGED <<reqs, aged>>

\* The application that uses the instrument has closed the socket.
SocketClosed ==
    /\ dev.child = "open"
    /\ dev.sock = "none"
    /\ dev' = [dev EXCEPT !.child = "exiting"]
    /\ UNCHANGED <<reqs, aged>>

ReceiveSocketMsg ==
    /\ Running
    /\ dev.sock # "none"
    /\ LET d == [dev EXCEPT !.sock = "none"]
       IN  dev' = IF dev.sock = "OK"
                  THEN SendReservationStatus(WriteReservation(d, TRUE),
                                             dev.sender["Reserve"])
                  ELSE SendReservationStatus([d EXCEPT !.ret = dev.sock],
                                             dev.sender["Reserve"])
    /\ UNCHANGED <<reqs, aged>>

\* What the device actor adds to the handling of ChildActorExited.
AfterRedirector(d) ==
    LET e == [d EXCEPT !.rsv.port = FALSE]
    IN  IF d.rsv.owner = NoOwner THEN d ELSE SendFreeStatus(e, d.sender["Free"])

\* The redirector's own message, and then the one of the actor system.
ReceiveChildActorExited ==
    /\ Running
    /\ dev.child = "exiting"
    /\ dev.sock = "none"
    /\ dev' = [AfterRedirector(dev) EXCEPT
                  !.child = "none",
                  !.stale = @ + 1,
                  !.exit = IF dev.onKill THEN "requested" ELSE @]
    /\ UNCHANGED <<reqs, aged>>

ReceiveChildActorExitedAgain ==
    /\ Running
    /\ dev.stale > 0
    /\ dev' = [AfterRedirector(dev) EXCEPT !.stale = @ - 1]
    /\ UNCHANGED <<reqs, aged>>

-----------------------------------------------------------------------------

Receive(r) ==
    \/ ReceiveReserve(r)
    \/ ReceiveFree(r)
    \/ ReceiveGetRecentValue(r)
    \/ ReceiveGetDeviceStatus(r)
    \/ ReceiveStartMonitoring(r)
    \/ ReceiveStopMonitoring(r)
    \/ ReceiveSetRtc(r)

Redirector ==
    \/ RedirectorSetup
    \/ RedirectorKilled
    \/ SocketClosed
    \/ ReceiveSocketMsg
    \/ ReceiveChildActorExited
    \/ ReceiveChildActorExitedAgain

Next ==
    \/ \E r \in Requests : Receive(r)
    \/ \E r \in Requests, st \in Outcomes : BackendReply(r, st)
    \/ \E r \in Requests : LoseReply(r)
    \/ \E r \in Requests : RetryWakeup(r)
    \/ \E r \in Requests : TimeoutWakeup(r)
    \/ \E o \in Owners, a \in BOOLEAN : SetDeviceStatus(o, a)
    \/ Tick
    \/ Kill
    \/ ActorExit
    \/ Redirector

Spec == Init /\ [][Next]_vars

\* Time passes, timers fire and messages are delivered; a backend may be silent
\* for ever, a client need not send, nothing need kill the device.
Fairness ==
    /\ WF_vars(Tick)
    /\ WF_vars(ActorExit)
    /\ WF_vars(ReceiveSocketMsg)
    /\ WF_vars(ReceiveChildActorExited)
    /\ WF_vars(ReceiveChildActorExitedAgain)
    /\ WF_vars(RedirectorSetup)
    /\ WF_vars(RedirectorKilled)
    /\ \A r \in Requests : WF_vars(RetryWakeup(r)) /\ WF_vars(TimeoutWakeup(r))

FairSpec == Spec /\ Fairness

-----------------------------------------------------------------------------
(* Properties of every device actor. *)

TypeOK ==
    /\ reqs \in [Requests -> Demands]
    /\ aged \in 0 .. MaxRequests
    /\ dev \in DeviceState

\* At most one request at a time holds a lock, whichever kind it is of: the
\* seven locks together are one mutex for the instrument (_lock_request).
AtMostOneLocked == \A k, l \in dev.locked : k = l

\* The request in a lock is older than every request in the queue, and the
\* queue is in the order of arrival.
QueueInOrder ==
    /\ \A i, j \in 1 .. Len(dev.queue) : i < j => dev.queue[i] < dev.queue[j]
    /\ \A k \in dev.locked : \A r \in InQueue(dev) : dev.req[k] < r

\* A retry that finds its request in the queue finds it at the head: the
\* request that request_queue.pop(0) removes is the one that takes the lock.
RetryMeetsHead ==
    \A r \in dev.retries \cap InQueue(dev) : r = Head(dev.queue)

\* Ids are reused when the queue runs empty, yet within the queue they are
\* distinct and ascending: a timeout never hits two requests at once.
IdsInOrder ==
    /\ \A i, j \in 1 .. Len(dev.queue) :
          i < j => dev.id[dev.queue[i]] < dev.id[dev.queue[j]]
    /\ \A r \in InQueue(dev) : dev.id[r] <= dev.lastId

\* Every request in the queue or in a lock still has its 20 s timer: whatever
\* the backend does, it will be dropped or answered.
TimerGuardsRequest ==
    /\ InQueue(dev) \subseteq dev.timers
    /\ \A k \in dev.locked : dev.req[k] \in dev.timers

\* A lock is not held for ever, even when the backend never answers or the
\* redirector dies.
LockIsReleased == \A k \in Kinds : k \in dev.locked ~> k \notin dev.locked \/ ~Running

=============================================================================
