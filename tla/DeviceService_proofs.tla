------------------------- MODULE DeviceService_proofs -------------------------
(***************************************************************************)
(* Proofs about what the clients of a device actor may rely on, for every  *)
(* number of requests and every set of owners: first that none of them is  *)
(* forgotten, then that its reservation is a lease.                        *)
(***************************************************************************)
EXTENDS DeviceService, DeviceActor_proofs

-----------------------------------------------------------------------------
(* What a reply changes.                                                   *)

\* From d to e a reply handler for kind k has run that answers "to": it tells
\* nobody else and releases no other lock, and it creates a redirector only for
\* an owner that wants one.
Replies(d, e, k, to) ==
    /\ Releases(d, e)
    /\ e.sender = d.sender
    /\ e.jobs = d.jobs
    /\ e.msg = d.msg
    /\ e.onKill = d.onKill
    /\ e.sock = d.sock
    /\ e.stale = d.stale
    /\ RedirectOwners = {} => e.child = d.child
    /\ d.locked \subseteq e.locked \cup {k}
    /\ \A r \in Requests : r # to \/ d.ans[r] # "none" => e.ans[r] = d.ans[r]

LEMMA RepliesTransitive ==
    ASSUME NEW k, NEW to, NEW d, NEW e, NEW f, Replies(d, e, k, to), Replies(e, f, k, to)
    PROVE  Replies(d, f, k, to)
<1>1. Releases(d, f)
  BY ReleasesTransitive DEF Replies
<1>2. ASSUME NEW r \in Requests, r # to \/ d.ans[r] # "none"
      PROVE  f.ans[r] = d.ans[r]
  BY <1>2 DEF Replies
<1> QED
  BY <1>1, <1>2 DEF Replies

LEMMA RepliesReflexive ==
    ASSUME NEW k, NEW to, NEW d \in DeviceState
    PROVE  Replies(d, d, k, to)
BY ReleasesReflexive DEF Replies

LEMMA AnswerReplies ==
    ASSUME NEW k, NEW d \in DeviceState, NEW to \in Clients, NEW st \in Status \cup {"POISON"}
    PROVE  /\ Replies(d, Answer(d, to, st), k, to)
           /\ Answer(d, to, st).locked = d.locked
           /\ Answer(d, to, st).rsv = d.rsv
           /\ Answer(d, to, st).child = d.child
           /\ to \in Requests => Answer(d, to, st).ans[to] # "none"
           /\ to \in Requests /\ d.ans[to] = "none" => Answer(d, to, st).ans[to] = st
<1>1. Releases(d, Answer(d, to, st))
  BY AnswerReleases
<1>2. \A r \in Requests : r # NoReq
  BY DEF Requests, NoReq
<1>3. st # "none"
  BY DEF Status, Successes, Failures
<1>4. CASE to # NoReq /\ d.ans[to] = "none"
  <2>1. Answer(d, to, st) = [d EXCEPT !.ans[to] = st] /\ to \in Requests
    BY <1>4 DEF Answer, Clients, Requests, NoReq
  <2>2. d.ans \in [Requests -> Status \cup {"none", "POISON"}]
    BY DEF DeviceState
  <2> DEFINE a == [d.ans EXCEPT ![to] = st]
             e == [d EXCEPT !.ans = a]
  <2>3. Answer(d, to, st) = e
    BY <2>1, Zenon
  <2>4. a[to] = st /\ \A r \in Requests : r # to => a[r] = d.ans[r]
    BY <2>1, <2>2
  <2> HIDE DEF a
  <2>5. e.ans = a /\ e.sender = d.sender /\ e.jobs = d.jobs /\ e.msg = d.msg
        /\ e.onKill = d.onKill /\ e.locked = d.locked /\ e.rsv = d.rsv /\ e.child = d.child
        /\ e.sock = d.sock /\ e.stale = d.stale
    BY DEF DeviceState
  <2> HIDE DEF e
  <2>6. Replies(d, e, k, to)
    BY <1>1, <1>4, <2>3, <2>4, <2>5 DEF Replies
  <2> QED
    BY <1>3, <1>4, <2>3, <2>4, <2>5, <2>6
<1>5. CASE ~(to # NoReq /\ d.ans[to] = "none")
  BY <1>2, <1>5, RepliesReflexive DEF Answer
<1> QED
  BY <1>4, <1>5

\* What the reply handlers write besides: return value, lock, reservation, and
\* messages to the redirector.
LEMMA WritesReply ==
    ASSUME NEW k, NEW to, NEW d \in DeviceState, NEW e, Releases(d, e),
           e.sender = d.sender, e.jobs = d.jobs, e.msg = d.msg, e.onKill = d.onKill,
           e.sock = d.sock, e.stale = d.stale, RedirectOwners = {} => e.child = d.child,
           e.ans = d.ans, d.locked \subseteq e.locked \cup {k}
    PROVE  Replies(d, e, k, to)
BY DEF Replies

\* What _send_reservation_status_msg and _send_free_status_msg do when there is a
\* return_message.
StatusSent(d, to, k, keep) ==
    [Answer(d, to, d.ret) EXCEPT !.locked = IF keep THEN @ ELSE @ \ {k}, !.ret = "None"]

LEMMA StatusReplies ==
    ASSUME NEW k, NEW d \in DeviceState, NEW to \in Clients, d.ret # "None",
           NEW keep \in BOOLEAN
    PROVE  LET e == StatusSent(d, to, k, keep)
           IN  /\ Replies(d, e, k, to)
               /\ keep => e.locked = d.locked
               /\ e.rsv = d.rsv /\ e.child = d.child
               /\ to \in Requests => e.ans[to] # "none"
               /\ to \in Requests /\ d.ans[to] = "none" => e.ans[to] = d.ret
<1> DEFINE a == Answer(d, to, d.ret)
           L == IF keep THEN a.locked ELSE a.locked \ {k}
           e == StatusSent(d, to, k, keep)
<1>1. d.ret \in Status
  BY DEF DeviceState
<1>2. /\ Replies(d, a, k, to)
      /\ a.locked = d.locked /\ a.rsv = d.rsv /\ a.child = d.child
      /\ to \in Requests => a.ans[to] # "none"
      /\ to \in Requests /\ d.ans[to] = "none" => a.ans[to] = d.ret
  BY <1>1, AnswerReplies
<1>3. a \in DeviceState
  BY <1>2 DEF Replies, Releases
<1>4. e = [a EXCEPT !.locked = L, !.ret = "None"]
  BY DEF StatusSent
<1> HIDE DEF a
<1>5. L \in SUBSET AllKinds
  BY <1>3 DEF DeviceState
<1>6. /\ a.locked \subseteq L \cup {k}
      /\ L \subseteq a.locked
      /\ keep => L = a.locked
  OBVIOUS
<1> HIDE DEF L, e
<1>7. e \in DeviceState
  BY <1>3, <1>4, <1>5 DEF DeviceState
<1>8. /\ e.locked = L /\ e.rsv = a.rsv /\ e.child = a.child /\ e.ans = a.ans
      /\ e.sock = a.sock /\ e.stale = a.stale
      /\ e.sender = a.sender /\ e.jobs = a.jobs /\ e.msg = a.msg /\ e.onKill = a.onKill
      /\ e.arrived = a.arrived /\ e.queue = a.queue /\ e.id = a.id /\ e.lastId = a.lastId
      /\ e.req = a.req /\ e.timers = a.timers /\ e.retries = a.retries
  BY <1>3, <1>4 DEF DeviceState
<1>9. Releases(a, e)
  BY <1>6, <1>7, <1>8 DEF Releases
<1>10. Replies(a, e, k, to)
  BY <1>3, <1>6, <1>8, <1>9, WritesReply
<1>11. Replies(d, e, k, to)
  BY <1>2, <1>10, RepliesTransitive
<1> QED
  BY <1>2, <1>6, <1>8, <1>11 DEF a, e

LEMMA SendReservationStatusReplies ==
    ASSUME NEW d \in DeviceState, NEW to \in Clients
    PROVE  LET e == SendReservationStatus(d, to)
           IN  /\ Replies(d, e, "Reserve", to)
               /\ e.rsv = d.rsv /\ e.child = d.child
               /\ to \in Requests /\ d.ret # "None" => e.ans[to] # "none"
               /\ to \in Requests /\ d.ret # "None" /\ d.ans[to] = "none" => e.ans[to] = d.ret
<1>1. CASE d.ret = "None"
  BY <1>1, RepliesReflexive DEF SendReservationStatus
<1>2. CASE d.ret # "None"
  <2> DEFINE keep == d.ret = "OCCUPIED"
  <2>1. keep \in BOOLEAN
    OBVIOUS
  <2>2. SendReservationStatus(d, to) = StatusSent(d, to, "Reserve", keep)
    BY <1>2 DEF SendReservationStatus, StatusSent
  <2> HIDE DEF keep
  <2> QED
    BY <1>2, <2>1, <2>2, StatusReplies
<1> QED
  BY <1>1, <1>2

LEMMA SendFreeStatusReplies ==
    ASSUME NEW d \in DeviceState, NEW to \in Clients
    PROVE  LET e == SendFreeStatus(d, to)
           IN  /\ Replies(d, e, "Free", to)
               /\ d.ret = "OK_SKIPPED" => e.locked = d.locked
               /\ e.rsv = d.rsv /\ e.child = d.child
               /\ to \in Requests /\ d.ret # "None" => e.ans[to] # "none"
<1>1. CASE d.ret = "None"
  BY <1>1, RepliesReflexive DEF SendFreeStatus
<1>2. CASE d.ret # "None"
  <2> DEFINE keep == d.ret = "OK_SKIPPED"
  <2>1. keep \in BOOLEAN
    OBVIOUS
  <2>2. SendFreeStatus(d, to) = StatusSent(d, to, "Free", keep)
    BY <1>2 DEF SendFreeStatus, StatusSent
  <2>3. d.ret = "OK_SKIPPED" => keep
    OBVIOUS
  <2> HIDE DEF keep
  <2> QED
    BY <1>2, <2>1, <2>2, <2>3, StatusReplies
<1> QED
  BY <1>1, <1>2

\* A reply handler sets return value and reservation and releases the lock.
Unlocked(d, L, v, st) == [d EXCEPT !.locked = L, !.rsv = v, !.ret = st]

LEMMA UnlockReplies ==
    ASSUME NEW k, NEW to, NEW d \in DeviceState, NEW L \in SUBSET AllKinds,
           L \subseteq d.locked, d.locked \subseteq L \cup {k},
           NEW v \in Reservation, NEW st \in Status \cup {"None"}
    PROVE  LET e == Unlocked(d, L, v, st)
           IN  /\ Replies(d, e, k, to)
               /\ e \in DeviceState
               /\ e.locked = L /\ e.rsv = v /\ e.ret = st /\ e.child = d.child /\ e.ans = d.ans
               /\ e.msg = d.msg
<1> DEFINE e == Unlocked(d, L, v, st)
<1>1. e \in DeviceState
  BY DEF DeviceState, Unlocked
<1>2. /\ e.locked = L /\ e.rsv = v /\ e.ret = st /\ e.child = d.child /\ e.ans = d.ans
      /\ e.sender = d.sender /\ e.jobs = d.jobs /\ e.msg = d.msg /\ e.onKill = d.onKill
      /\ e.arrived = d.arrived /\ e.queue = d.queue /\ e.id = d.id /\ e.lastId = d.lastId
      /\ e.req = d.req /\ e.timers = d.timers /\ e.retries = d.retries
      /\ e.sock = d.sock /\ e.stale = d.stale
  BY DEF DeviceState, Unlocked
<1> HIDE DEF e
<1>3. Releases(d, e)
  BY <1>1, <1>2 DEF Releases
<1> QED
  BY <1>1, <1>2, <1>3, WritesReply DEF e

LEMMA RedirectorReplies ==
    ASSUME NEW k, NEW to, NEW d \in DeviceState
    PROVE  /\ Replies(d, KillRedirector(d), k, to)
           /\ RedirectOwners # {} => Replies(d, CreateRedirector(d), k, to)
<1>1. Releases(d, KillRedirector(d)) /\ Releases(d, CreateRedirector(d))
  BY RedirectorReleases
<1>2. ASSUME NEW e, e = KillRedirector(d) \/ e = CreateRedirector(d)
      PROVE  /\ e.sender = d.sender /\ e.jobs = d.jobs /\ e.msg = d.msg /\ e.onKill = d.onKill
             /\ e.sock = d.sock /\ e.stale = d.stale /\ e.ans = d.ans /\ e.locked = d.locked
             /\ e = KillRedirector(d) => e.child = d.child
  BY <1>2 DEF KillRedirector, CreateRedirector, DeviceState
<1> QED
  BY <1>1, <1>2, WritesReply

LEMMA ReserveGrantedReplies ==
    ASSUME ReqsOK, NEW d \in DeviceState, NEW to \in Clients
    PROVE  Replies(d, ReserveGranted(d, to), "Reserve", to)
<1> DEFINE occupied == Unlocked(d, d.locked, d.rsv, "OCCUPIED")
           ok == Unlocked(d, d.locked, d.rsv, "OK")
           e == IF Reserved(d) THEN ok ELSE d
           v == [active |-> TRUE, owner |-> Owner(e.msg), port |-> FALSE]
           w == Unlocked(e, e.locked, v, e.ret)
<1>1. /\ d.rsv \in Reservation /\ d.locked \in SUBSET AllKinds
      /\ {"OCCUPIED", "OK"} \subseteq Status
  BY DEF DeviceState, Status, Successes
<1>2. /\ Replies(d, occupied, "Reserve", to) /\ occupied \in DeviceState
      /\ Replies(d, ok, "Reserve", to) /\ ok \in DeviceState
  BY <1>1, UnlockReplies
<1>3. /\ [d EXCEPT !.ret = "OCCUPIED"] = occupied
      /\ [d EXCEPT !.ret = "OK"] = ok
  BY DEF DeviceState, Unlocked
<1> HIDE DEF occupied, ok
<1>4. Replies(d, e, "Reserve", to) /\ e \in DeviceState
  BY <1>2, RepliesReflexive
<1> HIDE DEF e
<1>5. v \in Reservation /\ e.locked \in SUBSET AllKinds /\ e.ret \in Status \cup {"None"}
  <2>1. e.msg \in Clients
    BY <1>4 DEF DeviceState, Clients
  <2> QED
    BY <1>4, <2>1, OwnerType DEF Reservation, DeviceState
<1>6. WriteReservation(e, FALSE) = w
  BY <1>4 DEF WriteReservation, DeviceState, Unlocked
<1> HIDE DEF v
<1>7. Replies(e, w, "Reserve", to) /\ w \in DeviceState
  BY <1>4, <1>5, UnlockReplies
<1> HIDE DEF w
<1>8. Replies(d, SendReservationStatus(occupied, to), "Reserve", to)
  BY <1>2, SendReservationStatusReplies, RepliesTransitive
<1>9. Replies(d, SendReservationStatus(w, to), "Reserve", to)
  BY <1>4, <1>7, SendReservationStatusReplies, RepliesTransitive
<1>10. Replies(d, SendReservationStatus(e, to), "Reserve", to)
  BY <1>4, SendReservationStatusReplies, RepliesTransitive
<1>11. RedirectOwners # {} => Replies(d, CreateRedirector(e), "Reserve", to)
  BY <1>4, RedirectorReplies, RepliesTransitive
<1>12. WantsRedirector(d.msg) => RedirectOwners # {}
  BY DEF WantsRedirector
<1>13. ReserveGranted(d, to) =
         IF Reserved(d) /\ d.rsv.owner # Owner(d.msg) THEN SendReservationStatus(occupied, to)
         ELSE IF ~WantsRedirector(d.msg) THEN SendReservationStatus(w, to)
         ELSE IF d.child = "none" THEN CreateRedirector(e)
         ELSE SendReservationStatus(e, to)
  BY <1>3, <1>6 DEF ReserveGranted, e
<1> QED
  BY <1>8, <1>9, <1>10, <1>11, <1>12, <1>13

LEMMA ReserveReplyReplies ==
    ASSUME ReqsOK, NEW d \in DeviceState, NEW st \in Status, NEW to \in Clients
    PROVE  Replies(d, ReserveReply(d, st, to), "Reserve", to)
<1> DEFINE L == IF st = "OCCUPIED" THEN d.locked ELSE d.locked \ {"Reserve"}
           e == Unlocked(d, L, d.rsv, st)
<1>1. /\ d.rsv \in Reservation /\ L \in SUBSET AllKinds /\ st \in Status \cup {"None"}
      /\ L \subseteq d.locked /\ d.locked \subseteq L \cup {"Reserve"}
  BY DEF DeviceState
<1>2. e = [d EXCEPT !.locked = L, !.ret = st]
  BY DEF DeviceState, Unlocked
<1>3. ReserveReply(d, st, to) = CASE st \in Successes -> ReserveGranted(e, to)
                                  [] st \in Failures -> SendReservationStatus(e, to)
                                  [] OTHER -> e
  BY <1>2 DEF ReserveReply
<1> HIDE DEF L
<1>4. Replies(d, e, "Reserve", to) /\ e \in DeviceState
  BY <1>1, UnlockReplies
<1> HIDE DEF e
<1>5. /\ Replies(d, ReserveGranted(e, to), "Reserve", to)
      /\ Replies(d, SendReservationStatus(e, to), "Reserve", to)
  BY <1>4, ReserveGrantedReplies, SendReservationStatusReplies, RepliesTransitive
<1>6. Successes \cap Failures = {}
  BY DEF Successes, Failures
<1> QED
  BY <1>3, <1>4, <1>5, <1>6

LEMMA FreeReplyReplies ==
    ASSUME ReqsOK, NEW d \in DeviceState, NEW st \in Status, NEW to \in Clients
    PROVE  LET e == FreeReply(d, st, to)
           IN  /\ Replies(d, e, "Free", to)
               /\ st = "OK_SKIPPED" => e.locked = d.locked
               /\ st \notin Successes => e.rsv = d.rsv
               /\ st \in Successes => e.rsv = [d.rsv EXCEPT !.active = FALSE]
               /\ to \in Requests /\ d.child = "none" => e.ans[to] # "none"
<1> DEFINE freed == st \in Successes
           L == IF st = "OK_SKIPPED" THEN d.locked ELSE d.locked \ {"Free"}
           v == IF freed THEN [d.rsv EXCEPT !.active = FALSE] ELSE d.rsv
           ret == IF freed /\ ~(d.rsv.owner # NoOwner) THEN "OK_SKIPPED" ELSE st
           e == Unlocked(d, L, v, ret)
<1>1. /\ L \in SUBSET AllKinds /\ L \subseteq d.locked /\ d.locked \subseteq L \cup {"Free"}
      /\ st = "OK_SKIPPED" => L = d.locked
  BY DEF DeviceState
<1>2. v \in Reservation
  BY DEF DeviceState, Reservation
<1>3. /\ ret \in Status \cup {"None"} /\ ret # "None"
      /\ st = "OK_SKIPPED" => ret = "OK_SKIPPED"
  BY DEF Status, Successes, Failures
<1>4. FreeReply(d, st, to) = IF d.child # "none" THEN KillRedirector(e) ELSE SendFreeStatus(e, to)
  <2>1. e.child = d.child
    BY DEF DeviceState, Unlocked
  <2> QED
    BY <2>1 DEF FreeReply, Unlocked
<1>5. /\ ~freed => v = d.rsv
      /\ freed => v = [d.rsv EXCEPT !.active = FALSE]
  OBVIOUS
<1> HIDE DEF L, v, ret
<1>6. /\ Replies(d, e, "Free", to) /\ e \in DeviceState
      /\ e.locked = L /\ e.rsv = v /\ e.ret = ret
  BY <1>1, <1>2, <1>3, UnlockReplies
<1> HIDE DEF e
<1>7. Replies(d, KillRedirector(e), "Free", to)
  BY <1>6, RedirectorReplies, RepliesTransitive
<1>8. KillRedirector(e).rsv = e.rsv /\ KillRedirector(e).locked = e.locked
  BY <1>6 DEF KillRedirector, DeviceState
<1>9. /\ Replies(d, SendFreeStatus(e, to), "Free", to)
      /\ ret = "OK_SKIPPED" => SendFreeStatus(e, to).locked = L
      /\ SendFreeStatus(e, to).rsv = v
      /\ to \in Requests => SendFreeStatus(e, to).ans[to] # "none"
  BY <1>3, <1>6, SendFreeStatusReplies, RepliesTransitive
<1> QED
  BY <1>1, <1>3, <1>4, <1>5, <1>6, <1>7, <1>8, <1>9

LEMMA SimpleReplyReplies ==
    ASSUME NEW d \in DeviceState, NEW k \in AllKinds, NEW st \in Status, NEW to \in Clients
    PROVE  LET e == SimpleReply(d, k, st, to)
           IN  /\ Replies(d, e, k, to)
               /\ st = "OCCUPIED" => e.locked = d.locked
               /\ e.rsv = d.rsv
               /\ to \in Requests /\ ~Raises(d, k) => e.ans[to] # "none"
<1> DEFINE p == [d EXCEPT !.poison = TRUE]
           a == Answer(d, to, st)
           L == IF st = "OCCUPIED" THEN a.locked ELSE a.locked \ {k}
           v == a.rsv
           m == a.ret
           e == Unlocked(a, L, v, m)
<1>1. Replies(d, p, k, to) /\ p.rsv = d.rsv /\ p.locked = d.locked
  <2>1. p \in DeviceState
    BY DEF DeviceState
  <2>2. /\ p.locked = d.locked /\ p.rsv = d.rsv /\ p.child = d.child /\ p.ans = d.ans
        /\ p.sender = d.sender /\ p.jobs = d.jobs /\ p.msg = d.msg /\ p.onKill = d.onKill
        /\ p.arrived = d.arrived /\ p.queue = d.queue /\ p.id = d.id /\ p.lastId = d.lastId
        /\ p.req = d.req /\ p.timers = d.timers /\ p.retries = d.retries
        /\ p.sock = d.sock /\ p.stale = d.stale
    BY DEF DeviceState
  <2> HIDE DEF p
  <2>3. Releases(d, p)
    BY <2>1, <2>2 DEF Releases
  <2> QED
    BY <2>2, <2>3, WritesReply
<1>2. /\ Replies(d, a, k, to) /\ a.rsv = d.rsv /\ a.locked = d.locked
      /\ to \in Requests => a.ans[to] # "none"
  BY AnswerReplies
<1>3. a \in DeviceState
  BY <1>2 DEF Replies, Releases
<1>4. SimpleReply(d, k, st, to) = IF Raises(d, k) THEN p ELSE e
  <2>1. SimpleReply(d, k, st, to) = IF Raises(d, k) THEN p ELSE [a EXCEPT !.locked = L]
    BY DEF SimpleReply
  <2>2. [a EXCEPT !.locked = L] = e
    BY <1>3 DEF DeviceState, Unlocked
  <2> QED
    BY <2>1, <2>2
<1> HIDE DEF p, a
<1>5. /\ L \in SUBSET AllKinds /\ L \subseteq a.locked /\ a.locked \subseteq L \cup {k}
      /\ st = "OCCUPIED" => L = a.locked
      /\ v \in Reservation /\ m \in Status \cup {"None"}
      /\ v = a.rsv
  BY <1>3 DEF DeviceState
<1> HIDE DEF L, v, m
<1>6. Replies(a, e, k, to) /\ e.locked = L /\ e.rsv = v /\ e.ans = a.ans
  BY <1>3, <1>5, UnlockReplies
<1> HIDE DEF e
<1>7. Replies(d, e, k, to)
  BY <1>2, <1>6, RepliesTransitive
<1> QED
  BY <1>1, <1>2, <1>4, <1>5, <1>6, <1>7

LEMMA ReplyReplies ==
    ASSUME ReqsOK, NEW d \in DeviceState, NEW k \in AllKinds, NEW st \in Status,
           NEW to \in Clients
    PROVE  Replies(d, Reply(d, k, st, to), k, to)
<1>1. CASE k = "Reserve"
  BY <1>1, ReserveReplyReplies DEF Reply
<1>2. CASE k = "Free"
  BY <1>2, FreeReplyReplies DEF Reply
<1>3. CASE k \notin {"Reserve", "Free"}
  BY <1>3, SimpleReplyReplies DEF Reply
<1> QED
  BY <1>1, <1>2, <1>3

\* The reply to a request of these kinds reaches its client, and the answers that
\* the actor gives at once leave the lock to whoever holds it.
LEMMA SteadyReply ==
    ASSUME ReqsOK, NEW d \in DeviceState, NEW k \in SteadyKinds, NEW st \in Status,
           NEW to \in Clients, d.child = "none", ~Raises(d, k)
    PROVE  LET e == Reply(d, k, st, to)
           IN  /\ to \in Requests => e.ans[to] # "none"
               /\ st = (IF k = "Free" THEN "OK_SKIPPED" ELSE "OCCUPIED") => e.locked = d.locked
<1>1. k \in AllKinds /\ k # "Reserve"
  BY DEF SteadyKinds, AllKinds
<1>2. CASE k = "Free"
  <2> DEFINE e == FreeReply(d, st, to)
  <2>1. Reply(d, k, st, to) = e
    BY <1>2 DEF Reply
  <2>2. to \in Requests => e.ans[to] # "none"
    BY FreeReplyReplies, ZenonT(30)
  <2>3. st = "OK_SKIPPED" => e.locked = d.locked
    BY FreeReplyReplies
  <2> HIDE DEF e
  <2> QED
    BY <1>2, <2>1, <2>2, <2>3
<1>3. CASE k # "Free"
  <2> DEFINE e == SimpleReply(d, k, st, to)
  <2>1. Reply(d, k, st, to) = e
    BY <1>1, <1>3 DEF Reply
  <2>2. /\ to \in Requests => e.ans[to] # "none"
        /\ st = "OCCUPIED" => e.locked = d.locked
    BY <1>1, SimpleReplyReplies
  <2> HIDE DEF e
  <2> QED
    BY <1>3, <2>1, <2>2
<1> QED
  BY <1>2, <1>3

-----------------------------------------------------------------------------
(* Who is handed to the backend: the requests that were in the queue, and as *)
(* long as the device is not being killed nobody in the queue was answered.  *)

Handed(d) ==
    /\ \A k \in AllKinds : /\ d.sender[k] <= d.arrived
                           /\ \A i \in 1 .. Len(d.queue) : d.sender[k] # d.queue[i]
    /\ \A j \in d.jobs : j <= d.arrived /\ \A i \in 1 .. Len(d.queue) : j < d.queue[i]
    /\ d.onKill \/ \A i \in 1 .. Len(d.queue) : d.ans[d.queue[i]] = "none"
    /\ \A r \in Requests : r > d.arrived => d.ans[r] = "none"

\* From d to e methods of the actor have run that may let workers start, reply
\* and kill the device.
Works(d, e) ==
    /\ Sound(e)
    /\ Handed(e)
    /\ Advances(d, e)
    /\ e.jobs \subseteq d.jobs \cup InQueue(d)
    /\ e.sock = d.sock
    /\ e.stale = d.stale
    /\ RedirectOwners = {} => e.child = d.child
    /\ d.onKill => e.onKill
    /\ \A r \in Requests : d.ans[r] # "none" => e.ans[r] = d.ans[r]

LEMMA WorksReflexive ==
    ASSUME NEW d, Sound(d), Handed(d)
    PROVE  Works(d, d)
BY ReleasesReflexive, ReleasesAdvances DEF Works, Sound

LEMMA WorksTransitive ==
    ASSUME NEW d, Sound(d), NEW e, NEW f, Works(d, e), Works(e, f)
    PROVE  Works(d, f)
<1>1. Advances(d, f)
  BY AdvancesTransitive DEF Works
<1>2. InQueue(e) \subseteq InQueue(d)
  BY InQueueIndex DEF Works, Advances, Sound
<1>3. \A r \in Requests : d.ans[r] # "none" => f.ans[r] = d.ans[r]
  BY DEF Works
<1> QED
  BY <1>1, <1>2, <1>3 DEF Works

LEMMA RepliesWorks ==
    ASSUME NEW d, Sound(d), Handed(d), NEW e, NEW k, NEW to \in Clients, Replies(d, e, k, to),
           to <= d.arrived, \A i \in 1 .. Len(d.queue) : to # d.queue[i]
    PROVE  Works(d, e)
<1>1. Sound(e) /\ Advances(d, e)
  BY ReleasesSound, ReleasesAdvances DEF Replies
<1>2. /\ d \in DeviceState /\ e \in DeviceState /\ d.arrived \in Nat
      /\ e.queue = d.queue /\ e.arrived = d.arrived /\ e.sender = d.sender /\ e.jobs = d.jobs
      /\ e.onKill = d.onKill
  BY <1>1, Numbers DEF Sound, Replies, Releases
<1>3. \A i \in 1 .. Len(d.queue) : d.queue[i] \in Requests /\ e.ans[d.queue[i]] = d.ans[d.queue[i]]
  BY <1>2, Numbers DEF Replies
<1>4. \A r \in Requests : r > d.arrived => e.ans[r] = d.ans[r]
  <2>1. \A r \in Requests : r > d.arrived => r # to
    BY <1>2 DEF Clients, Requests
  <2> QED
    BY <2>1 DEF Replies
<1>5. Handed(e)
  BY <1>2, <1>3, <1>4 DEF Handed
<1> QED
  BY <1>1, <1>2, <1>5 DEF Works, Replies

LEMMA KillMyselfTells ==
    ASSUME NEW d \in DeviceState
    PROVE  LET e == KillMyself(d)
           IN  /\ e.sender = d.sender /\ e.jobs = d.jobs /\ e.msg = d.msg /\ e.rsv = d.rsv
               /\ e.sock = d.sock /\ e.stale = d.stale /\ e.child = d.child
               /\ e.onKill
               /\ \A r \in Requests :
                     \/ e.ans[r] = d.ans[r]
                     \/ /\ d.ans[r] = "none" /\ e.ans[r] = "NOT_FOUND"
                        /\ r \in InQueue(d) \/ \E k \in d.locked : r = d.sender[k]
               /\ ~d.onKill /\ d.child = "none" =>
                     \A r \in Requests :
                        r \in InQueue(d) \/ (\E k \in d.locked : r = d.sender[k]) => e.ans[r] # "none"
<1> DEFINE a == [r \in Requests |-> IF r \in ToldOnKill(d) /\ d.ans[r] = "none"
                                     THEN "NOT_FOUND" ELSE d.ans[r]]
           x == IF d.child = "none" THEN "requested" ELSE d.exit
           b == d.child # "none"
           m == ReturnMessageOnKill(d)
           e == [d EXCEPT !.ans = a, !.ret = m, !.locked = {}, !.onKill = TRUE,
                          !.kill = b, !.exit = x]
<1>1. KillMyself(d) = IF d.onKill THEN d ELSE e
  BY Zenon DEF KillMyself
<1>2. \A r \in Requests : a[r] = IF r \in ToldOnKill(d) /\ d.ans[r] = "none"
                                 THEN "NOT_FOUND" ELSE d.ans[r]
  OBVIOUS
<1>3. \A r \in ToldOnKill(d) : r \in InQueue(d) \/ \E k \in d.locked : r = d.sender[k]
  BY DEF ToldOnKill
<1>4. d.child = "none" => \A r : r \in InQueue(d) \/ (\E k \in d.locked : r = d.sender[k])
                                    => r \in ToldOnKill(d)
  BY DEF ToldOnKill, WaitsForRedirector
<1> HIDE DEF a, x, b, m
<1>5. /\ e.sender = d.sender /\ e.jobs = d.jobs /\ e.msg = d.msg /\ e.rsv = d.rsv
      /\ e.sock = d.sock /\ e.stale = d.stale /\ e.child = d.child
      /\ e.onKill /\ e.ans = a
  BY DEF DeviceState
<1> HIDE DEF e
<1> QED
  BY <1>1, <1>2, <1>3, <1>4, <1>5

LEMMA KillMyselfWorks ==
    ASSUME NEW d, Sound(d), Handed(d)
    PROVE  Works(d, KillMyself(d)) /\ KillMyself(d).onKill
<1> DEFINE e == KillMyself(d)
<1>1. d \in DeviceState
  BY DEF Sound
<1>2. Releases(d, e)
  BY <1>1, KillMyselfReleases
<1>3. /\ e.sender = d.sender /\ e.jobs = d.jobs /\ e.onKill
      /\ e.sock = d.sock /\ e.stale = d.stale /\ e.child = d.child
      /\ \A r \in Requests :
            \/ e.ans[r] = d.ans[r]
            \/ /\ d.ans[r] = "none"
               /\ r \in InQueue(d) \/ \E k \in d.locked : r = d.sender[k]
  BY <1>1, KillMyselfTells
<1> HIDE DEF e
<1>4. Sound(e) /\ Advances(d, e)
  BY <1>2, ReleasesSound, ReleasesAdvances
<1>5. \A r \in Requests : r > d.arrived => e.ans[r] = d.ans[r]
  <2>1. \A r \in InQueue(d) : r <= d.arrived /\ r \in Nat
    BY <1>1, InQueueIndex, Numbers DEF Sound, QueueSound
  <2>2. \A k \in d.locked : d.sender[k] <= d.arrived /\ d.sender[k] \in Nat
    BY <1>1 DEF Handed, DeviceState
  <2>3. d.arrived \in Nat
    BY <1>1, Numbers
  <2> QED
    BY <1>3, <2>1, <2>2, <2>3
<1>6. Handed(e)
  BY <1>2, <1>3, <1>5 DEF Handed, Releases
<1> QED
  BY <1>3, <1>4, <1>6 DEF Works, e

LEMMA BlockedWorks ==
    ASSUME NEW d, Sound(d), Handed(d), d.queue # << >>
    PROVE  Works(d, Blocked(d, Head(d.queue)))
<1> DEFINE r == Head(d.queue)
           R == d.retries \cup {r}
           e == [d EXCEPT !.retries = R]
<1>1. d \in DeviceState
  BY DEF Sound
<1>2. Sound(Blocked(d, r)) /\ Advances(d, Blocked(d, r))
  BY BlockedSound
<1>3. CASE Old(Holder(d))
  BY <1>3, KillMyselfWorks DEF Blocked
<1>4. CASE ~Old(Holder(d))
  <2>1. Blocked(d, r) = e
    BY <1>4 DEF Blocked
  <2> HIDE DEF r, R
  <2>2. /\ e.sender = d.sender /\ e.jobs = d.jobs /\ e.onKill = d.onKill /\ e.ans = d.ans
        /\ e.sock = d.sock /\ e.stale = d.stale /\ e.child = d.child
        /\ e.arrived = d.arrived /\ e.queue = d.queue
    BY <1>1 DEF DeviceState
  <2> HIDE DEF e
  <2>3. Handed(e)
    BY <2>2 DEF Handed
  <2>4. Works(d, e)
    BY <1>2, <2>1, <2>2, <2>3 DEF Works
  <2> QED
    BY <2>1, <2>4 DEF r
<1> QED
  BY <1>3, <1>4

LEMMA FifoHeldWorks ==
    ASSUME NEW d, Sound(d), Handed(d)
    PROVE  Works(d, FifoHeld(d))
BY BlockedWorks, WorksReflexive DEF FifoHeld

\* The request that is popped is older than all that stay in the queue.
LEMMA HeadIsFirst ==
    ASSUME NEW d, Sound(d), d.queue # << >>
    PROVE  /\ Head(d.queue) \in Requests
           /\ Head(d.queue) \in Nat
           /\ Head(d.queue) <= d.arrived
           /\ Head(d.queue) \in InQueue(d)
           /\ \E i \in 1 .. Len(d.queue) : Head(d.queue) = d.queue[i]
           /\ Tail(d.queue) \in Seq(Requests)
           /\ \A i \in 1 .. Len(Tail(d.queue)) : /\ Head(d.queue) < Tail(d.queue)[i]
                                                 /\ \E j \in 1 .. Len(d.queue) :
                                                       Tail(d.queue)[i] = d.queue[j]
<1>1. d \in DeviceState /\ d.queue \in Seq(Requests)
  BY DEF Sound, DeviceState
<1>2. 1 \in 1 .. Len(d.queue) /\ Head(d.queue) = d.queue[1]
  BY <1>1
<1>3. d.queue[1] \in InQueue(d) /\ d.queue[1] \in Requests /\ d.queue[1] \in Nat
  BY <1>1, <1>2, InQueueIndex, Numbers
<1>4. Tail(d.queue) \in Seq(Requests)
  BY <1>1
<1>5. ASSUME NEW i \in 1 .. Len(Tail(d.queue))
      PROVE  i + 1 \in 1 .. Len(d.queue) /\ 1 < i + 1 /\ Tail(d.queue)[i] = d.queue[i + 1]
  BY <1>1
<1>6. \A j \in 1 .. Len(d.queue) : 1 < j => d.queue[1] < d.queue[j]
  BY <1>2 DEF Sound, QueueSound
<1> QED
  BY <1>2, <1>3, <1>4, <1>5, <1>6 DEF Sound, QueueSound

LEMMA TakeLockFields ==
    ASSUME ReqsOK, NEW d, Sound(d), d.queue # << >>, d.locked = {}
    PROVE  LET r == Head(d.queue)
               e == TakeLock(d, r)
           IN  /\ e.locked = {Kind(r)}
               /\ e.queue = Tail(d.queue)
               /\ e.req[Kind(r)] = r /\ e.sender[Kind(r)] = r
               /\ \A k \in AllKinds : k # Kind(r) => /\ e.req[k] = d.req[k]
                                                     /\ e.sender[k] = d.sender[k]
               /\ e.arrived = d.arrived /\ e.jobs = d.jobs /\ e.onKill = d.onKill
               /\ e.ans = d.ans /\ e.msg = d.msg /\ e.rsv = d.rsv
               /\ e.sock = d.sock /\ e.stale = d.stale /\ e.child = d.child
<1> DEFINE r == Head(d.queue)
           k == Kind(r)
           q == Tail(d.queue)
           n == IF Len(d.queue) = 1 THEN 0 ELSE d.lastId
           f == [d.req EXCEPT ![k] = r]
           g == [d.sender EXCEPT ![k] = r]
           e == [d EXCEPT !.queue = q, !.lastId = n, !.locked = {k}, !.req = f, !.sender = g]
<1>1. d \in DeviceState
  BY DEF Sound
<1>2. k \in AllKinds
  BY HeadIsFirst, KindType
<1>3. /\ f[k] = r /\ g[k] = r
      /\ \A l \in AllKinds : l # k => f[l] = d.req[l] /\ g[l] = d.sender[l]
  BY <1>1, <1>2 DEF DeviceState
<1>4. TakeLock(d, r) = e
  BY <1>1 DEF TakeLock, DeviceState
<1> HIDE DEF q, n, f, g, k
<1>5. /\ e.queue = q /\ e.locked = {k} /\ e.req = f /\ e.sender = g
      /\ e.arrived = d.arrived /\ e.jobs = d.jobs /\ e.onKill = d.onKill
      /\ e.ans = d.ans /\ e.msg = d.msg /\ e.rsv = d.rsv
      /\ e.sock = d.sock /\ e.stale = d.stale /\ e.child = d.child
  BY <1>1 DEF DeviceState
<1> HIDE DEF e
<1> QED
  BY <1>3, <1>4, <1>5 DEF q, k

LEMMA TakeLockWorks ==
    ASSUME ReqsOK, NEW d, Sound(d), Handed(d), d.queue # << >>, d.locked = {}
    PROVE  Works(d, TakeLock(d, Head(d.queue)))
<1> DEFINE r == Head(d.queue)
           q == Tail(d.queue)
           e == TakeLock(d, r)
<1>1. /\ e.queue = q
      /\ \A k \in AllKinds : e.sender[k] = r \/ e.sender[k] = d.sender[k]
      /\ e.arrived = d.arrived /\ e.jobs = d.jobs /\ e.onKill = d.onKill /\ e.ans = d.ans
      /\ e.sock = d.sock /\ e.stale = d.stale /\ e.child = d.child
  BY TakeLockFields
<1>2. Sound(e) /\ Advances(d, e)
  BY TakeLockSound
<1>3. /\ r \in Nat /\ r <= d.arrived
      /\ q \in Seq(Requests)
      /\ \A i \in 1 .. Len(q) : r < q[i] /\ \E j \in 1 .. Len(d.queue) : q[i] = d.queue[j]
  BY HeadIsFirst
<1>4. \A i \in 1 .. Len(q) : r # q[i]
  <2>1. \A i \in 1 .. Len(q) : q[i] \in Requests
    BY <1>3
  <2>2. \A s \in Requests : s \in Nat
    BY DEF Requests
  <2> QED
    BY <1>3, <2>1, <2>2
<1> HIDE DEF r, q, e
<1>5. /\ \A k \in AllKinds : /\ e.sender[k] <= e.arrived
                              /\ \A i \in 1 .. Len(e.queue) : e.sender[k] # e.queue[i]
      /\ \A j \in e.jobs : j <= e.arrived /\ \A i \in 1 .. Len(e.queue) : j < e.queue[i]
      /\ e.onKill \/ \A i \in 1 .. Len(e.queue) : e.ans[e.queue[i]] = "none"
      /\ \A s \in Requests : s > e.arrived => e.ans[s] = "none"
  <2>1. \A i \in 1 .. Len(q) : \E j \in 1 .. Len(d.queue) : q[i] = d.queue[j]
    BY <1>3
  <2>2. \A k \in AllKinds : e.sender[k] <= e.arrived
    BY <1>1, <1>3 DEF Handed
  <2>3. \A k \in AllKinds : \A i \in 1 .. Len(e.queue) : e.sender[k] # e.queue[i]
    BY <1>1, <1>4, <2>1 DEF Handed
  <2>4. \A j \in e.jobs : j <= e.arrived /\ \A i \in 1 .. Len(e.queue) : j < e.queue[i]
    BY <1>1, <2>1 DEF Handed
  <2>5. e.onKill \/ \A i \in 1 .. Len(e.queue) : e.ans[e.queue[i]] = "none"
    BY <1>1, <2>1 DEF Handed
  <2>6. \A s \in Requests : s > e.arrived => e.ans[s] = "none"
    BY <1>1 DEF Handed
  <2> QED
    BY <2>2, <2>3, <2>4, <2>5, <2>6
<1> QED
  BY <1>1, <1>2, <1>5 DEF Works, Handed, e, r

\* The backend is asked for the request that has just been popped.
LEMMA CallBackendWorks ==
    ASSUME ReqsOK, NEW d, Sound(d), Handed(d), NEW r \in Requests, r <= d.arrived,
           \A i \in 1 .. Len(d.queue) : r < d.queue[i]
    PROVE  LET e == CallBackend(d, r)
           IN  /\ Sound(e) /\ Handed(e) /\ Advances(d, e)
               /\ e.jobs \subseteq d.jobs \cup InQueue(d) \cup {r}
               /\ e.sock = d.sock /\ e.stale = d.stale
               /\ RedirectOwners = {} => e.child = d.child
               /\ d.onKill => e.onKill
               /\ \A s \in Requests : d.ans[s] # "none" => e.ans[s] = d.ans[s]
<1>1. /\ d \in DeviceState /\ r \in Clients /\ r \in Nat /\ Kind(r) \in AllKinds
      /\ d.arrived \in Nat
      /\ \A i \in 1 .. Len(d.queue) : d.queue[i] \in Nat
  BY KindType, Numbers DEF Sound, Clients, Requests
<1>2. Sound(CallBackend(d, r)) /\ Advances(d, CallBackend(d, r))
  BY CallBackendSound
<1>3. CASE Kind(r) \in SyncKinds
  <2> DEFINE f == FifoHeld(d)
             e == Reply(f, Kind(r), "OK", r)
  <2>1. CallBackend(d, r) = e
    BY <1>3 DEF CallBackend
  <2>2. Works(d, f) /\ f.queue = d.queue
    BY FifoHeldWorks, FifoHeldSound
  <2> HIDE DEF f
  <2>3. Replies(f, e, Kind(r), r)
    BY <1>1, <2>2, ReplyReplies DEF Works, Sound, Status, Successes
  <2> HIDE DEF e
  <2>4. r <= f.arrived /\ \A i \in 1 .. Len(f.queue) : r # f.queue[i]
    BY <1>1, <2>2 DEF Works, Advances
  <2>5. Works(f, e)
    BY <1>1, <2>2, <2>3, <2>4, RepliesWorks DEF Works
  <2>6. Works(d, e)
    BY <2>2, <2>5, WorksTransitive
  <2> QED
    BY <2>1, <2>6 DEF Works
<1>4. CASE Kind(r) \notin SyncKinds
  <2> DEFINE J == d.jobs \cup {r}
             m == IF Kind(r) = "Reserve" THEN r ELSE d.msg
             e == [d EXCEPT !.jobs = J, !.msg = m]
  <2>1. CallBackend(d, r) = e
    BY <1>4 DEF CallBackend
  <2> HIDE DEF J, m
  <2>2. /\ e.sender = d.sender /\ e.jobs = J /\ e.onKill = d.onKill /\ e.ans = d.ans
        /\ e.sock = d.sock /\ e.stale = d.stale /\ e.child = d.child
        /\ e.arrived = d.arrived /\ e.queue = d.queue
    BY <1>1 DEF DeviceState
  <2> HIDE DEF e
  <2>3. Handed(e)
    BY <2>2 DEF Handed, J
  <2> QED
    BY <1>2, <2>1, <2>2, <2>3 DEF J
<1> QED
  BY <1>3, <1>4

LEMMA WorkerWorks ==
    ASSUME ReqsOK, NEW d, Sound(d), Handed(d), NEW r, r \in InQueue(d) => r = Head(d.queue)
    PROVE  Works(d, Worker(d, r))
<1>1. CASE r \notin InQueue(d)
  BY <1>1, WorksReflexive DEF Worker
<1>2. CASE r \in InQueue(d)
  <2>1. d \in DeviceState /\ d.queue # << >> /\ r = Head(d.queue)
    <3>1. \E i \in 1 .. Len(d.queue) : d.queue[i] = r
      BY <1>2, InQueueIndex DEF Sound
    <3> QED
      BY <1>2, <3>1 DEF Sound
  <2>2. CASE d.locked # {}
    BY <1>2, <2>1, <2>2, BlockedWorks DEF Worker
  <2>3. CASE d.locked = {}
    <3> DEFINE f == TakeLock(d, r)
    <3>1. Works(d, f) /\ f.queue = Tail(d.queue)
      BY <2>1, <2>3, TakeLockWorks, TakeLockFields
    <3>2. /\ r \in Requests /\ r <= f.arrived
          /\ \A i \in 1 .. Len(f.queue) : r < f.queue[i]
      BY <2>1, <3>1, HeadIsFirst DEF Works, Advances
    <3>3. Worker(d, r) = CallBackend(f, r)
      BY <1>2, <2>3 DEF Worker
    <3> HIDE DEF f
    <3> DEFINE e == CallBackend(f, r)
    <3>4. /\ Sound(e) /\ Handed(e) /\ Advances(f, e)
          /\ e.jobs \subseteq f.jobs \cup InQueue(f) \cup {r}
          /\ e.sock = f.sock /\ e.stale = f.stale
          /\ RedirectOwners = {} => e.child = f.child
          /\ f.onKill => e.onKill
          /\ \A s \in Requests : f.ans[s] # "none" => e.ans[s] = f.ans[s]
      BY <3>1, <3>2, CallBackendWorks DEF Works
    <3> HIDE DEF e
    <3>5. InQueue(f) \subseteq InQueue(d)
      <4>1. f \in DeviceState /\ f.queue = Tail(d.queue)
        BY <3>1 DEF Works, Sound
      <4>2. \A i \in 1 .. Len(f.queue) : f.queue[i] = d.queue[i + 1] /\ i + 1 \in 1 .. Len(d.queue)
        <5>1. d.queue \in Seq(Requests)
          BY <2>1 DEF DeviceState
        <5> QED
          BY <2>1, <4>1, <5>1
      <4>3. \A q \in InQueue(f) : \E i \in 1 .. Len(f.queue) : f.queue[i] = q
        BY <4>1, InQueueIndex
      <4>4. \A i \in 1 .. Len(d.queue) : d.queue[i] \in InQueue(d)
        BY <2>1, InQueueIndex
      <4> QED
        BY <4>2, <4>3, <4>4
    <3>6. Advances(d, e)
      BY <3>1, <3>4, AdvancesTransitive DEF Works
    <3>7. e.jobs \subseteq d.jobs \cup InQueue(d)
      BY <1>2, <3>1, <3>4, <3>5 DEF Works
    <3>8. \A s \in Requests : d.ans[s] # "none" => e.ans[s] = d.ans[s]
      BY <3>1, <3>4 DEF Works
    <3> QED
      BY <3>1, <3>3, <3>4, <3>6, <3>7, <3>8 DEF Works, e
  <2> QED
    BY <2>2, <2>3
<1> QED
  BY <1>1, <1>2

LEMMA FifoWorks ==
    ASSUME ReqsOK, NEW d, Sound(d), Handed(d)
    PROVE  Works(d, Fifo(d))
BY WorkerWorks, WorksReflexive DEF Fifo

LEMMA FifoFirstWorks ==
    ASSUME ReqsOK, NEW d, Sound(d), Handed(d), NEW k
    PROVE  Works(d, FifoFirst(d, k))
<1> DEFINE e == Fifo(d)
<1>1. Works(d, e)
  BY FifoWorks
<1>2. FifoFirst(d, k) = IF Raises(e, k) THEN Fifo(e) ELSE e
  BY DEF FifoFirst
<1> HIDE DEF e
<1>3. Works(d, Fifo(e))
  BY <1>1, FifoWorks, WorksTransitive DEF Works
<1> QED
  BY <1>1, <1>2, <1>3

\* Whoever is told is not in the queue.
LEMMA HandleReplyWorks ==
    ASSUME ReqsOK, NEW d, Sound(d), Handed(d), NEW k \in AllKinds, NEW st \in Status,
           NEW to \in Clients, to <= d.arrived, \A i \in 1 .. Len(d.queue) : to # d.queue[i]
    PROVE  Works(d, HandleReply(d, k, st, to))
<1> DEFINE e == FifoFirst(d, k)
           f == Reply(e, k, st, to)
<1>1. Works(d, e)
  BY FifoFirstWorks
<1>2. HandleReply(d, k, st, to) = f
  BY DEF HandleReply
<1> HIDE DEF e
<1>3. Replies(e, f, k, to)
  BY <1>1, ReplyReplies DEF Works, Sound
<1> HIDE DEF f
<1>4. to <= e.arrived /\ \A i \in 1 .. Len(e.queue) : to # e.queue[i]
  BY <1>1 DEF Works, Advances
<1>5. Works(e, f)
  BY <1>1, <1>3, <1>4, RepliesWorks DEF Works
<1> QED
  BY <1>1, <1>2, <1>5, WorksTransitive

LEMMA PoisonedWorks ==
    ASSUME NEW d, Sound(d), Handed(d), NEW r \in Requests, r <= d.arrived,
           \A i \in 1 .. Len(d.queue) : r # d.queue[i]
    PROVE  Works(d, Poisoned(d, r))
<1>1. d \in DeviceState /\ r \in Clients
  BY DEF Sound, Clients, Requests
<1>2. Replies(d, Poisoned(d, r), "Free", r)
  BY <1>1, AnswerReplies DEF Poisoned
<1> QED
  BY <1>1, <1>2, RepliesWorks

\* A request arrives: its handler notes it, and perhaps its sender and what to
\* return to it.
Arrived(d, r, g, st) == [d EXCEPT !.arrived = r, !.sender = g, !.ret = st]

LEMMA ArrivedHanded ==
    ASSUME NEW d, Sound(d), Handed(d), NEW r \in Requests, r = d.arrived + 1,
           NEW k \in AllKinds, NEW g, g = d.sender \/ g = [d.sender EXCEPT ![k] = r],
           NEW st \in Status \cup {"None"}
    PROVE  LET a == Arrived(d, r, g, st)
           IN  /\ Sound(a) /\ Handed(a)
               /\ a.arrived = r /\ a.sender = g /\ a.ret = st
               /\ a.queue = d.queue /\ a.jobs = d.jobs /\ a.onKill = d.onKill /\ a.ans = d.ans
               /\ a.locked = d.locked /\ a.req = d.req /\ a.rsv = d.rsv /\ a.msg = d.msg
               /\ a.child = d.child /\ a.sock = d.sock /\ a.stale = d.stale
               /\ a.timers = d.timers
               /\ \A i \in 1 .. Len(a.queue) : r # a.queue[i]
               /\ d.ans[r] = "none"
<1> DEFINE a == Arrived(d, r, g, st)
<1>1. /\ d \in DeviceState /\ r \in 0 .. MaxRequests /\ r > d.arrived /\ d.arrived \in Nat
      /\ \A i \in 1 .. Len(d.queue) : d.queue[i] \in Nat /\ d.queue[i] < r
  <2>1. d \in DeviceState /\ d.arrived \in Nat
    BY Numbers DEF Sound
  <2>2. \A i \in 1 .. Len(d.queue) : d.queue[i] \in Nat /\ d.queue[i] <= d.arrived
    BY <2>1, Numbers DEF Sound, QueueSound
  <2> QED
    BY <2>1, <2>2 DEF Requests
<1>2. g \in [AllKinds -> 0 .. MaxRequests] /\ \A l \in AllKinds : g[l] = r \/ g[l] = d.sender[l]
  <2>1. d.sender \in [AllKinds -> 0 .. MaxRequests]
    BY <1>1 DEF DeviceState
  <2>2. g \in [AllKinds -> 0 .. MaxRequests]
    BY <1>1, <2>1
  <2> QED
    BY <2>1, <2>2
<1>3. a \in DeviceState
  BY <1>1, <1>2 DEF DeviceState, Arrived
<1>4. /\ a.arrived = r /\ a.sender = g /\ a.ret = st
      /\ a.queue = d.queue /\ a.jobs = d.jobs /\ a.onKill = d.onKill /\ a.ans = d.ans
      /\ a.locked = d.locked /\ a.req = d.req /\ a.rsv = d.rsv /\ a.msg = d.msg
      /\ a.child = d.child /\ a.sock = d.sock /\ a.stale = d.stale
      /\ a.id = d.id /\ a.lastId = d.lastId /\ a.timers = d.timers /\ a.retries = d.retries
  BY <1>1 DEF DeviceState, Arrived
<1> HIDE DEF a
<1>5. Sound(a)
  BY <1>1, <1>3, <1>4, ArrivalSound
<1>6. \A l \in AllKinds : /\ d.sender[l] <= d.arrived /\ d.sender[l] \in Nat
                          /\ \A i \in 1 .. Len(d.queue) : d.sender[l] # d.queue[i]
  <2>1. \A l \in AllKinds : d.sender[l] \in Nat
    BY <1>1 DEF DeviceState
  <2> QED
    BY <2>1 DEF Handed
<1>7. \A j \in d.jobs : /\ j <= d.arrived /\ j \in Nat
                       /\ \A i \in 1 .. Len(d.queue) : j < d.queue[i]
  BY <1>1 DEF Handed, DeviceState, Requests
<1>8. \A l \in AllKinds : g[l] <= r /\ \A i \in 1 .. Len(d.queue) : g[l] # d.queue[i]
  <2> TAKE l \in AllKinds
  <2>1. CASE g[l] = r
    BY <1>1, <2>1
  <2>2. CASE g[l] = d.sender[l]
    BY <1>1, <1>6, <2>2
  <2> QED
    BY <1>2, <2>1, <2>2
<1>9. \A j \in d.jobs : j <= r
  BY <1>1, <1>7
<1>10. \A s \in Requests : s > r => d.ans[s] = "none"
  BY <1>1 DEF Handed, Requests
<1>11. Handed(a)
  BY <1>4, <1>7, <1>8, <1>9, <1>10 DEF Handed
<1>12. d.ans[r] = "none"
  BY <1>1 DEF Handed
<1> QED
  BY <1>1, <1>4, <1>5, <1>11, <1>12 DEF a

LEMMA WithIdHanded ==
    ASSUME NEW d, Sound(d), Handed(d), NEW r \in Requests, r = d.arrived + 1 \/ r = d.arrived,
           \A i \in 1 .. Len(d.queue) : r # d.queue[i]
    PROVE  LET e == WithId(d, r)
           IN  /\ Sound(e) /\ Handed(e)
               /\ e.arrived = r
               /\ e.queue = d.queue /\ e.jobs = d.jobs /\ e.onKill = d.onKill /\ e.ans = d.ans
               /\ e.locked = d.locked /\ e.req = d.req /\ e.rsv = d.rsv /\ e.msg = d.msg
               /\ e.child = d.child /\ e.sock = d.sock /\ e.stale = d.stale
               /\ e.sender = d.sender /\ e.timers = d.timers
<1> DEFINE e == WithId(d, r)
           n == d.lastId + 1
           f == [d.id EXCEPT ![r] = n]
<1>1. /\ d \in DeviceState /\ d.arrived \in Nat /\ r \in Nat /\ r >= d.arrived
      /\ \A i \in 1 .. Len(d.queue) : d.queue[i] # r
  BY Numbers DEF Sound, Requests
<1>2. /\ Sound(e) /\ e.arrived = r /\ e.queue = d.queue /\ e.locked = d.locked /\ e.req = d.req
      /\ e.timers = d.timers
  BY <1>1, WithIdSound
<1>3. e = [d EXCEPT !.arrived = r, !.lastId = n, !.id = f]
  BY <1>1 DEF WithId, DeviceState
<1> HIDE DEF n, f
<1>4. /\ e.jobs = d.jobs /\ e.onKill = d.onKill /\ e.ans = d.ans
      /\ e.rsv = d.rsv /\ e.msg = d.msg /\ e.sender = d.sender
      /\ e.child = d.child /\ e.sock = d.sock /\ e.stale = d.stale
  BY <1>1, <1>3 DEF DeviceState
<1> HIDE DEF e
<1>5. \A l \in AllKinds : d.sender[l] <= r
  BY <1>1 DEF Handed, DeviceState
<1>6. \A j \in d.jobs : j <= r
  BY <1>1 DEF Handed, DeviceState, Requests
<1>7. \A s \in Requests : s > r => d.ans[s] = "none"
  BY <1>1 DEF Handed, Requests
<1>8. Handed(e)
  BY <1>2, <1>4, <1>5, <1>6, <1>7 DEF Handed
<1> QED
  BY <1>2, <1>4, <1>8 DEF e

LEMMA QueuedHanded ==
    ASSUME NEW d, Sound(d), Handed(d), NEW r \in Requests, r = d.arrived + 1
    PROVE  LET e == Queued(d, r)
           IN  /\ Sound(e) /\ Handed(e)
               /\ e.arrived = r
               /\ e.queue = Append(d.queue, r)
               /\ e.jobs = d.jobs /\ e.onKill = d.onKill /\ e.ans = d.ans
               /\ e.locked = d.locked /\ e.req = d.req /\ e.rsv = d.rsv /\ e.msg = d.msg
               /\ e.child = d.child /\ e.sock = d.sock /\ e.stale = d.stale
               /\ e.sender = d.sender /\ e.timers = d.timers \cup {r}
               /\ InQueue(e) = InQueue(d) \cup {r}
               /\ d.ans[r] = "none"
<1> DEFINE e == Queued(d, r)
           f == WithId(d, r)
           q == Append(d.queue, r)
           T == d.timers \cup {r}
<1>1. /\ d \in DeviceState /\ d.arrived \in Nat /\ r > d.arrived /\ d.queue \in Seq(Requests)
      /\ \A i \in 1 .. Len(d.queue) : /\ d.queue[i] \in Nat /\ d.queue[i] < r
                                       /\ r # d.queue[i]
  <2>1. d \in DeviceState /\ d.arrived \in Nat /\ d.queue \in Seq(Requests)
    BY Numbers DEF Sound, DeviceState
  <2>2. \A i \in 1 .. Len(d.queue) : d.queue[i] \in Nat /\ d.queue[i] <= d.arrived
    BY <2>1, Numbers DEF Sound, QueueSound
  <2> QED
    BY <2>1, <2>2 DEF Requests
<1>2. Sound(e) /\ e.arrived = r /\ e.queue = q
  BY <1>1, QueuedSound
<1>3. /\ Handed(f) /\ f \in DeviceState
      /\ f.arrived = r /\ f.queue = d.queue /\ f.jobs = d.jobs /\ f.onKill = d.onKill
      /\ f.ans = d.ans /\ f.locked = d.locked /\ f.req = d.req /\ f.rsv = d.rsv
      /\ f.msg = d.msg /\ f.child = d.child /\ f.sock = d.sock /\ f.stale = d.stale
      /\ f.sender = d.sender /\ f.timers = d.timers
  BY <1>1, WithIdHanded DEF Sound
<1>4. e = [f EXCEPT !.queue = q, !.timers = T]
  BY <1>3 DEF Queued, DeviceState
<1> HIDE DEF f, T
<1>5. /\ Len(q) = Len(d.queue) + 1 /\ q[Len(q)] = r /\ Len(q) \in 1 .. Len(q)
      /\ \A i \in 1 .. Len(q) : i = Len(q) \/ (i \in 1 .. Len(d.queue) /\ q[i] = d.queue[i])
      /\ \A i \in 1 .. Len(d.queue) : i \in 1 .. Len(q) /\ q[i] = d.queue[i]
  <2>1. Len(d.queue) \in Nat /\ Len(q) = Len(d.queue) + 1
    BY <1>1
  <2>2. q[Len(d.queue) + 1] = r /\ \A i \in 1 .. Len(d.queue) : q[i] = d.queue[i]
    BY <1>1
  <2> HIDE DEF q
  <2>3. /\ \A i \in 1 .. Len(q) : i = Len(q) \/ i \in 1 .. Len(d.queue)
        /\ \A i \in 1 .. Len(d.queue) : i \in 1 .. Len(q)
        /\ Len(q) \in 1 .. Len(q)
    BY <2>1
  <2> QED
    BY <2>1, <2>2, <2>3
<1> HIDE DEF q
<1>6. /\ e.jobs = d.jobs /\ e.onKill = d.onKill
      /\ e.ans = d.ans /\ e.locked = d.locked /\ e.req = d.req /\ e.rsv = d.rsv
      /\ e.msg = d.msg /\ e.child = d.child /\ e.sock = d.sock /\ e.stale = d.stale
      /\ e.sender = d.sender /\ e.timers = T
  <2>1. /\ e.jobs = f.jobs /\ e.onKill = f.onKill
        /\ e.ans = f.ans /\ e.locked = f.locked /\ e.req = f.req /\ e.rsv = f.rsv
    BY <1>3, <1>4 DEF DeviceState
  <2>2. /\ e.msg = f.msg /\ e.child = f.child /\ e.sock = f.sock /\ e.stale = f.stale
        /\ e.sender = f.sender /\ e.timers = T
    BY <1>3, <1>4 DEF DeviceState
  <2> QED
    BY <1>3, <2>1, <2>2
<1> HIDE DEF e
<1>7. \A l \in AllKinds : d.sender[l] \in Nat /\ d.sender[l] <= d.arrived /\ d.sender[l] # r
  BY <1>1 DEF Handed, DeviceState
<1>8. \A j \in d.jobs : j \in Nat /\ j <= d.arrived /\ j < r
  BY <1>1 DEF Handed, DeviceState, Requests
<1>9. d.ans[r] = "none"
  BY <1>1 DEF Handed
<1>10. Handed(e)
  <2>1. \A l \in AllKinds : e.sender[l] <= r /\ \A i \in 1 .. Len(q) : e.sender[l] # q[i]
    BY <1>1, <1>5, <1>6, <1>7 DEF Handed
  <2>2. \A j \in e.jobs : j <= r /\ \A i \in 1 .. Len(q) : j < q[i]
    <3>1. ASSUME NEW j \in d.jobs, NEW i \in 1 .. Len(q)
          PROVE  j < q[i]
      <4>1. j < r
        BY <1>8
      <4>2. i \in 1 .. Len(d.queue) => j < d.queue[i]
        BY DEF Handed
      <4> QED
        BY <1>5, <4>1, <4>2
    <3>2. \A j \in d.jobs : j <= r
      BY <1>1, <1>8
    <3> QED
      BY <1>6, <3>1, <3>2
  <2>3. e.onKill \/ \A i \in 1 .. Len(q) : e.ans[q[i]] = "none"
    BY <1>5, <1>6, <1>9 DEF Handed
  <2>4. \A s \in Requests : s > r => e.ans[s] = "none"
    BY <1>1, <1>6 DEF Handed, Requests
  <2> QED
    BY <1>2, <2>1, <2>2, <2>3, <2>4 DEF Handed
<1>11. InQueue(e) = InQueue(d) \cup {r}
  <2>1. ASSUME NEW s
        PROVE  (\E i \in 1 .. Len(q) : q[i] = s) <=> (s = r \/ \E i \in 1 .. Len(d.queue) : d.queue[i] = s)
    BY <1>5
  <2>2. \A s : s \in InQueue(e) <=> \E i \in 1 .. Len(q) : q[i] = s
    <3>1. e \in DeviceState
      BY <1>2 DEF Sound
    <3> QED
      BY <1>2, <3>1, InQueueIndex
  <2>3. \A s : s \in InQueue(d) <=> \E i \in 1 .. Len(d.queue) : d.queue[i] = s
    BY <1>1, InQueueIndex
  <2>4. \A s : s \in InQueue(e) <=> s \in InQueue(d) \cup {r}
    BY <2>1, <2>2, <2>3
  <2> QED
    BY <2>4
<1> QED
  BY <1>2, <1>6, <1>9, <1>10, <1>11 DEF e, q, T

\* What the actor works on after a step was waiting before it, or has just come.
Starts(d, e) == \A s \in e.jobs \ d.jobs : s \in InQueue(d) \/ s > d.arrived

StepHanded(d, e) == Handed(e) /\ Starts(d, e)

\* Request r is the one that has come, if any has: nobody else gets a timer.
Comes(d, e, r) == StepHanded(d, e) /\ e.arrived = r /\ e.timers \subseteq d.timers \cup {r}

NobodyComes(d, e) ==
    StepHanded(d, e) /\ e.arrived = d.arrived /\ e.timers \subseteq d.timers

LEMMA AnswerAtOnceWorks ==
    ASSUME ReqsOK, NEW d, NEW r \in Requests, NEW k \in AllKinds, NEW st \in Status,
           Sound([d EXCEPT !.arrived = r]), Handed([d EXCEPT !.arrived = r]),
           [d EXCEPT !.arrived = r].arrived = r,
           \A i \in 1 .. Len([d EXCEPT !.arrived = r].queue) :
              r # [d EXCEPT !.arrived = r].queue[i]
    PROVE  Works([d EXCEPT !.arrived = r], AnswerAtOnce(d, k, st, r))
<1> DEFINE a == [d EXCEPT !.arrived = r]
           e == FifoFirst(a, k)
<1>1. AnswerAtOnce(d, k, st, r) = IF Raises(e, k) THEN Poisoned(e, r) ELSE Reply(e, k, st, r)
  BY DEF AnswerAtOnce
<1> HIDE DEF a
<1>2. /\ Sound(a) /\ Handed(a) /\ r <= a.arrived /\ r \in Clients /\ r \in Nat
      /\ \A i \in 1 .. Len(a.queue) : r # a.queue[i]
  BY DEF a, Clients, Requests
<1>3. Works(a, e)
  BY <1>2, FifoFirstWorks
<1> HIDE DEF e
<1>4. /\ Sound(e) /\ Handed(e) /\ r <= e.arrived
      /\ \A i \in 1 .. Len(e.queue) : r # e.queue[i]
  BY <1>2, <1>3 DEF Works, Advances
<1>5. Works(e, Poisoned(e, r))
  BY <1>4, PoisonedWorks
<1>6. Works(e, Reply(e, k, st, r))
  <2>1. Replies(e, Reply(e, k, st, r), k, r)
    BY <1>2, <1>4, ReplyReplies DEF Sound
  <2> QED
    BY <1>2, <1>4, <2>1, RepliesWorks
<1> QED
  BY <1>1, <1>2, <1>3, <1>5, <1>6, WorksTransitive DEF a

LEMMA EnqueueWorks ==
    ASSUME ReqsOK, NEW d, Sound(d), Handed(d), NEW r \in Requests, r = d.arrived + 1
    PROVE  Works(Queued(d, r), Enqueue(d, r))
BY QueuedHanded, FifoWorks DEF Enqueue, Queued

LEMMA EnqueueHanded ==
    ASSUME ReqsOK, NEW d, Sound(d), Handed(d), NEW r \in Requests, r = d.arrived + 1
    PROVE  Comes(d, Enqueue(d, r), r)
<1>1. Works(Queued(d, r), Enqueue(d, r))
  BY EnqueueWorks
<1>2. /\ Queued(d, r).jobs = d.jobs /\ InQueue(Queued(d, r)) = InQueue(d) \cup {r}
      /\ Queued(d, r).arrived = r /\ Queued(d, r).timers = d.timers \cup {r}
  BY QueuedHanded
<1>3. r > d.arrived
  BY Numbers DEF Sound, Requests
<1> QED
  BY <1>1, <1>2, <1>3 DEF Works, Advances, Comes, StepHanded, Starts

LEMMA RefuseOnKillWorks ==
    ASSUME ReqsOK, NEW d, Sound(d), Handed(d), NEW r \in Requests, r = d.arrived + 1
    PROVE  LET e == WithId(d, r)
               f == WithId(e, r)
           IN  /\ e.queue = d.queue /\ e.jobs = d.jobs /\ e.arrived = r /\ e.timers = d.timers
               /\ f.queue = d.queue /\ f.jobs = d.jobs /\ f.arrived = r /\ f.timers = d.timers
               /\ \/ Works(e, RefuseOnKill(d, r))
                  \/ Works(f, RefuseOnKill(d, r))
<1> DEFINE e == WithId(d, r)
           f == WithId(e, r)
           k == Kind(r)
<1>1. /\ r \in Nat /\ r \in Clients /\ k \in AllKinds /\ "NOT_FOUND" \in Status
      /\ \A i \in 1 .. Len(d.queue) : r # d.queue[i]
  <2>1. d \in DeviceState /\ d.arrived \in Nat
    BY Numbers DEF Sound
  <2>2. \A i \in 1 .. Len(d.queue) : d.queue[i] \in Nat /\ d.queue[i] <= d.arrived
    BY <2>1, Numbers DEF Sound, QueueSound
  <2> QED
    BY <2>1, <2>2, KindType DEF Requests, Clients, Status, Failures
<1>2. /\ Sound(e) /\ Handed(e) /\ e.arrived = r /\ e.queue = d.queue /\ e.jobs = d.jobs
      /\ e.timers = d.timers
  BY <1>1, WithIdHanded
<1>3. RefuseOnKill(d, r) = IF Raises(e, k) THEN Poisoned(f, r) ELSE Reply(e, k, "NOT_FOUND", r)
  BY DEF RefuseOnKill
<1> HIDE DEF e, k
<1>4. /\ Sound(f) /\ Handed(f) /\ f.arrived = r /\ f.queue = d.queue /\ f.jobs = d.jobs
      /\ f.timers = d.timers
  BY <1>1, <1>2, WithIdHanded
<1> HIDE DEF f
<1>5. Works(f, Poisoned(f, r))
  BY <1>1, <1>4, PoisonedWorks
<1>6. Works(e, Reply(e, k, "NOT_FOUND", r))
  <2>1. Replies(e, Reply(e, k, "NOT_FOUND", r), k, r)
    BY <1>1, <1>2, ReplyReplies DEF Sound
  <2> QED
    BY <1>1, <1>2, <2>1, RepliesWorks
<1> QED
  BY <1>2, <1>3, <1>4, <1>5, <1>6 DEF e, f

LEMMA AcceptHanded ==
    ASSUME ReqsOK, NEW d, Sound(d), Handed(d), NEW r \in Requests, r = d.arrived + 1
    PROVE  Comes(d, Accept(d, r), r)
<1>1. CASE ~d.onKill
  BY <1>1, EnqueueHanded DEF Accept
<1>2. CASE d.onKill
  <2>1. PICK e : /\ Works(e, RefuseOnKill(d, r))
                 /\ e.queue = d.queue /\ e.jobs = d.jobs /\ e.arrived = r
                 /\ e.timers = d.timers
    BY RefuseOnKillWorks
  <2>2. Accept(d, r) = RefuseOnKill(d, r)
    BY <1>2 DEF Accept
  <2>3. InQueue(e) = InQueue(d)
    BY <2>1 DEF InQueue
  <2> QED
    BY <2>1, <2>2, <2>3 DEF Works, Advances, Comes, StepHanded, Starts
<1> QED
  BY <1>1, <1>2

LEMMA AnswerAtOnceHanded ==
    ASSUME ReqsOK, NEW d, Sound(d), Handed(d), NEW r \in Requests, r = d.arrived + 1,
           NEW l \in AllKinds, NEW g, g = d.sender \/ g = [d.sender EXCEPT ![l] = r],
           NEW m \in Status \cup {"None"},
           NEW b, [b EXCEPT !.arrived = r] = Arrived(d, r, g, m),
           NEW k \in AllKinds, NEW st \in Status
    PROVE  /\ Works(Arrived(d, r, g, m), AnswerAtOnce(b, k, st, r))
           /\ Comes(d, AnswerAtOnce(b, k, st, r), r)
<1> DEFINE a == Arrived(d, r, g, m)
<1>1. /\ Sound(a) /\ Handed(a) /\ a.arrived = r
      /\ a.queue = d.queue /\ a.jobs = d.jobs /\ a.timers = d.timers
      /\ \A i \in 1 .. Len(a.queue) : r # a.queue[i]
  <2>1. Sound(a) /\ Handed(a) /\ a.arrived = r
    BY ArrivedHanded
  <2>2. a.queue = d.queue /\ a.jobs = d.jobs /\ a.timers = d.timers
    BY ArrivedHanded
  <2>3. \A i \in 1 .. Len(a.queue) : r # a.queue[i]
    BY ArrivedHanded
  <2> QED
    BY <2>1, <2>2, <2>3
<1> HIDE DEF a
<1>2. [b EXCEPT !.arrived = r] = a
  BY DEF a
<1>3. Works(a, AnswerAtOnce(b, k, st, r))
  BY <1>1, <1>2, AnswerAtOnceWorks
<1>4. InQueue(a) = InQueue(d)
  BY <1>1 DEF InQueue
<1> DEFINE e == AnswerAtOnce(b, k, st, r)
<1> HIDE DEF e
<1>5. /\ Handed(e) /\ e.jobs \subseteq a.jobs \cup InQueue(a)
      /\ e.arrived = a.arrived /\ e.timers \subseteq a.timers \cup {a.arrived}
  BY <1>3 DEF e, Works, Advances
<1>6. Comes(d, e, r)
  BY <1>1, <1>4, <1>5 DEF Comes, StepHanded, Starts
<1> QED
  BY <1>3, <1>6 DEF a, e

LEMMA ReceiveReserveHanded ==
    ASSUME IInv, Handed(dev), NEW r \in Requests, ReceiveReserve(r)
    PROVE  Comes(dev, dev', r)
<1> DEFINE st == IF dev.rsv.owner = Owner(r) THEN "OK_UPDATED" ELSE "OCCUPIED"
           g == [dev.sender EXCEPT !["Reserve"] = r]
           a == Arrived(dev, r, g, st)
           b == Arrived(dev, r, dev.sender, dev.ret)
<1>1. /\ ReqsOK /\ Sound(dev) /\ dev \in DeviceState
      /\ r = dev.arrived + 1 /\ r \in Clients /\ r <= r
      /\ "Reserve" \in AllKinds
  BY DEF IInv, Sound, ReceiveReserve, Arrives, Clients, Requests, AllKinds
<1>2. CASE Reserved(dev)
  <2>1. dev' = SendReservationStatus(a, r)
    <3>1. a = [dev EXCEPT !.arrived = r, !.sender["Reserve"] = r,
                          !.ret = IF dev.rsv.owner = Owner(r) THEN "OK_UPDATED" ELSE "OCCUPIED"]
      BY <1>1 DEF DeviceState, Arrived
    <3> QED
      BY <1>2, <3>1 DEF ReceiveReserve
  <2>2. st \in Status \cup {"None"}
    BY DEF Status, Successes
  <2> HIDE DEF st
  <2>3. /\ Sound(a) /\ Handed(a) /\ a.arrived = r /\ a.queue = dev.queue /\ a.jobs = dev.jobs
        /\ a.timers = dev.timers
        /\ \A i \in 1 .. Len(a.queue) : r # a.queue[i]
    BY <1>1, <2>2, ArrivedHanded
  <2> HIDE DEF a
  <2>4. Replies(a, dev', "Reserve", r)
    BY <1>1, <2>1, <2>3, SendReservationStatusReplies DEF Sound
  <2>5. Works(a, dev')
    BY <1>1, <2>3, <2>4, RepliesWorks
  <2> QED
    BY <2>3, <2>4, <2>5 DEF Replies, Works, Advances, Comes, StepHanded, Starts
<1>3. CASE ~Reserved(dev) /\ dev.onKill
  <2>1. dev' = ReserveReply(b, "NOT_FOUND", r)
    <3>1. b = [dev EXCEPT !.arrived = r]
      BY <1>1 DEF DeviceState, Arrived
    <3> QED
      BY <1>3, <3>1 DEF ReceiveReserve
  <2>2. dev.ret \in Status \cup {"None"} /\ "NOT_FOUND" \in Status
    BY <1>1 DEF DeviceState, Status, Failures
  <2>3. /\ Sound(b) /\ Handed(b) /\ b.arrived = r /\ b.queue = dev.queue /\ b.jobs = dev.jobs
        /\ b.timers = dev.timers
        /\ \A i \in 1 .. Len(b.queue) : r # b.queue[i]
    BY <1>1, <2>2, ArrivedHanded
  <2> HIDE DEF b
  <2>4. Replies(b, dev', "Reserve", r)
    BY <1>1, <2>1, <2>2, <2>3, ReserveReplyReplies DEF Sound
  <2>5. Works(b, dev')
    BY <1>1, <2>3, <2>4, RepliesWorks
  <2> QED
    BY <2>3, <2>4, <2>5 DEF Replies, Works, Advances, Comes, StepHanded, Starts
<1>4. CASE ~Reserved(dev) /\ ~dev.onKill
  BY <1>1, <1>4, EnqueueHanded DEF ReceiveReserve
<1> QED
  BY <1>2, <1>3, <1>4

LEMMA ReceiveOtherHanded ==
    ASSUME IInv, Handed(dev), NEW r \in Requests,
           \/ ReceiveFree(r)
           \/ ReceiveGetRecentValue(r)
           \/ ReceiveGetDeviceStatus(r)
           \/ ReceiveStartMonitoring(r)
           \/ ReceiveStopMonitoring(r)
           \/ ReceiveSetRtc(r)
    PROVE  Comes(dev, dev', r)
<1>1. /\ ReqsOK /\ Sound(dev) /\ dev \in DeviceState /\ r = dev.arrived + 1
      /\ dev.ret \in Status \cup {"None"}
      /\ {"OK_SKIPPED", "OCCUPIED"} \subseteq Status
      /\ {"Free", "GetRecentValue", "GetDeviceStatus", "StartMonitoring", "StopMonitoring"}
            \subseteq AllKinds
  BY DEF IInv, Sound, ReceiveFree, ReceiveGetRecentValue, ReceiveGetDeviceStatus,
         ReceiveStartMonitoring, ReceiveStopMonitoring, ReceiveSetRtc, Arrives, DeviceState,
         Status, Successes, AllKinds
<1>2. Comes(dev, Accept(dev, r), r)
  BY <1>1, AcceptHanded
<1>3. ASSUME NEW k \in {"GetDeviceStatus", "StartMonitoring"}
      PROVE  Comes(dev, AnswerAtOnce([dev EXCEPT !.sender[k] = r], k, "OCCUPIED", r), r)
  <2> DEFINE g == [dev.sender EXCEPT ![k] = r]
             b == [dev EXCEPT !.sender[k] = r]
  <2>1. [b EXCEPT !.arrived = r] = Arrived(dev, r, g, dev.ret)
    BY <1>1 DEF DeviceState, Arrived
  <2> HIDE DEF b
  <2>2. k \in AllKinds
    BY <1>1
  <2>3. Comes(dev, AnswerAtOnce(b, k, "OCCUPIED", r), r)
    BY <1>1, <2>1, <2>2, AnswerAtOnceHanded
  <2> QED
    BY <2>3 DEF b
<1>4. ASSUME NEW k \in {"GetRecentValue", "StopMonitoring"}, NEW st \in Status
      PROVE  Comes(dev, AnswerAtOnce(dev, k, st, r), r)
  <2>1. [dev EXCEPT !.arrived = r] = Arrived(dev, r, dev.sender, dev.ret)
    BY <1>1 DEF DeviceState, Arrived
  <2> QED
    BY <1>1, <2>1, AnswerAtOnceHanded
<1>5. Comes(dev, AnswerAtOnce([dev EXCEPT !.ret = "OK_SKIPPED"], "Free", "OK_SKIPPED", r), r)
  <2> DEFINE b == [dev EXCEPT !.ret = "OK_SKIPPED"]
  <2>1. [b EXCEPT !.arrived = r] = Arrived(dev, r, dev.sender, "OK_SKIPPED")
    BY <1>1 DEF DeviceState, Arrived
  <2> HIDE DEF b
  <2>2. Comes(dev, AnswerAtOnce(b, "Free", "OK_SKIPPED", r), r)
    BY <1>1, <2>1, AnswerAtOnceHanded
  <2> QED
    BY <2>2 DEF b
<1> QED
  BY <1>1, <1>2, <1>3, <1>4, <1>5
     DEF ReceiveFree, ReceiveGetRecentValue, ReceiveGetDeviceStatus,
         ReceiveStartMonitoring, ReceiveStopMonitoring, ReceiveSetRtc

\* From d to e nothing has changed but jobs and retries (fewer), timers, exit or
\* the messages of the redirector.
Quiet(d, e) ==
    /\ e.arrived = d.arrived /\ e.queue = d.queue /\ e.locked = d.locked /\ e.req = d.req
    /\ e.sender = d.sender /\ e.ans = d.ans /\ e.onKill = d.onKill /\ e.msg = d.msg
    /\ e.rsv = d.rsv /\ e.child = d.child /\ e.sock = d.sock /\ e.stale = d.stale
    /\ e.jobs \subseteq d.jobs /\ e.timers \subseteq d.timers

LEMMA QuietHanded ==
    ASSUME NEW d, Handed(d), NEW e, Quiet(d, e)
    PROVE  Handed(e) /\ NobodyComes(d, e)
BY DEF Handed, Quiet, NobodyComes, StepHanded, Starts

LEMMA JobTakenQuiet ==
    ASSUME NEW d, Sound(d), NEW r
    PROVE  LET e == [d EXCEPT !.jobs = @ \ {r}]
           IN  Sound(e) /\ Quiet(d, e) /\ e.jobs = d.jobs \ {r}
<1> DEFINE J == d.jobs \ {r}
           e == [d EXCEPT !.jobs = J]
<1>1. d \in DeviceState /\ J \in SUBSET Requests /\ J \subseteq d.jobs
  BY DEF Sound, DeviceState
<1>2. [d EXCEPT !.jobs = @ \ {r}] = e
  BY <1>1 DEF DeviceState
<1> HIDE DEF J
<1>3. e \in DeviceState
  BY <1>1 DEF DeviceState
<1>4. Releases(d, e) /\ Quiet(d, e) /\ e.jobs = J
  BY <1>1, <1>3 DEF Releases, Quiet, DeviceState
<1> HIDE DEF e
<1> QED
  BY <1>2, <1>4, ReleasesSound DEF J

LEMMA RetryTakenQuiet ==
    ASSUME NEW d, Sound(d), NEW r \in d.retries
    PROVE  LET e == [d EXCEPT !.retries = @ \ {r}]
           IN  /\ Sound(e) /\ Quiet(d, e) /\ e.jobs = d.jobs
               /\ r \in InQueue(e) => r = Head(e.queue)
<1> DEFINE R == d.retries \ {r}
           e == [d EXCEPT !.retries = R]
<1>1. d \in DeviceState /\ R \in SUBSET Requests /\ R \subseteq d.retries
  BY DEF Sound, DeviceState
<1>2. [d EXCEPT !.retries = @ \ {r}] = e
  BY <1>1 DEF DeviceState
<1> HIDE DEF R
<1>3. /\ e \in DeviceState
      /\ e.queue = d.queue /\ e.arrived = d.arrived /\ e.id = d.id
      /\ e.lastId = d.lastId /\ e.req = d.req /\ e.timers = d.timers
      /\ e.retries = R /\ e.locked = d.locked /\ e.jobs = d.jobs
      /\ e.sender = d.sender /\ e.ans = d.ans /\ e.onKill = d.onKill /\ e.msg = d.msg
      /\ e.rsv = d.rsv /\ e.child = d.child /\ e.sock = d.sock /\ e.stale = d.stale
  BY <1>1 DEF DeviceState
<1> HIDE DEF e
<1>4. LocksSound(e) /\ QueueSound(e) /\ RetriesSound(e)
  BY <1>1, <1>3 DEF Sound, LocksSound, QueueSound, RetriesSound
<1>5. r \in InQueue(e) => r = Head(e.queue)
  <2>1. ASSUME r \in InQueue(e)
        PROVE  r = Head(e.queue)
    <3>1. PICK i \in 1 .. Len(e.queue) : e.queue[i] = r
      BY <1>3, <2>1, InQueueIndex
    <3>2. i = 1
      BY <1>3, <3>1 DEF Sound, RetriesSound
    <3>3. e.queue \in Seq(Requests)
      BY <1>3 DEF DeviceState
    <3> QED
      BY <3>1, <3>2, <3>3
  <2> QED
    BY <2>1
<1> QED
  BY <1>2, <1>3, <1>4, <1>5 DEF Sound, Quiet, e

LEMMA WorksHanded ==
    ASSUME NEW d, NEW e, NEW f, Quiet(d, e), Works(e, f)
    PROVE  NobodyComes(d, f)
<1>1. InQueue(e) = InQueue(d)
  BY DEF InQueue, Quiet
<1> QED
  BY <1>1 DEF Works, Advances, Quiet, NobodyComes, StepHanded, Starts

LEMMA BackendHanded ==
    ASSUME IInv, Handed(dev), NEW r \in Requests,
           \/ \E st \in Outcomes : BackendReply(r, st)
           \/ LoseReply(r)
           \/ RetryWakeup(r)
    PROVE  NobodyComes(dev, dev')
<1>1. ReqsOK /\ Sound(dev)
  BY DEF IInv
<1> DEFINE k == Kind(r)
           e == [dev EXCEPT !.jobs = @ \ {r}]
           f == [dev EXCEPT !.retries = @ \ {r}]
<1>2. Sound(e) /\ Quiet(dev, e) /\ Handed(e) /\ NobodyComes(dev, e)
  BY <1>1, JobTakenQuiet, QuietHanded
<1>3. ASSUME NEW st \in Outcomes, BackendReply(r, st)
      PROVE  NobodyComes(dev, dev')
  <2>1. dev' = HandleReply(e, k, st, e.sender[k])
    BY <1>2, <1>3 DEF BackendReply, Quiet
  <2> HIDE DEF e, k
  <2>2. st \in Status /\ k \in AllKinds
    BY KindType, <1>1 DEF Outcomes, Status, Successes, Failures, k
  <2>3. /\ e.sender[k] \in Clients /\ e.sender[k] <= e.arrived
        /\ \A i \in 1 .. Len(e.queue) : e.sender[k] # e.queue[i]
    BY <1>2, <2>2 DEF Handed, Sound, DeviceState, Clients
  <2>4. Works(e, dev')
    BY <1>1, <1>2, <2>1, <2>2, <2>3, HandleReplyWorks
  <2> QED
    BY <1>2, <2>4, WorksHanded
<1>4. CASE LoseReply(r)
  BY <1>2, <1>4 DEF LoseReply
<1>5. CASE RetryWakeup(r)
  <2>1. dev' = Worker(f, r) /\ r \in dev.retries
    BY <1>5 DEF RetryWakeup
  <2>2. Sound(f) /\ Quiet(dev, f) /\ (r \in InQueue(f) => r = Head(f.queue))
    BY <1>1, <2>1, RetryTakenQuiet
  <2> HIDE DEF f
  <2>3. Works(f, dev')
    BY <1>1, <2>1, <2>2, QuietHanded, WorkerWorks
  <2> QED
    BY <2>2, <2>3, WorksHanded
<1> QED
  BY <1>3, <1>4, <1>5

\* The timed out request is told and leaves the queue.
LEMMA DropWorks ==
    ASSUME NEW d, Sound(d), Handed(d), NEW e, NEW k, NEW r \in Requests, Replies(d, e, k, r),
           r <= d.arrived
    PROVE  Works(d, [e EXCEPT !.queue = RemoveFirst(@, r)])
<1> DEFINE p == RemoveFirst(e.queue, r)
           f == [e EXCEPT !.queue = p]
<1>1. /\ Sound(e) /\ Advances(d, e) /\ e \in DeviceState /\ d \in DeviceState
      /\ d.arrived \in Nat
      /\ e.queue = d.queue /\ e.arrived = d.arrived
      /\ e.sender = d.sender /\ e.jobs = d.jobs /\ e.onKill = d.onKill
      /\ e.sock = d.sock /\ e.stale = d.stale /\ (RedirectOwners = {} => e.child = d.child)
      /\ \A s \in Requests : s # r \/ d.ans[s] # "none" => e.ans[s] = d.ans[s]
  BY ReleasesSound, ReleasesAdvances, Numbers DEF Replies, Releases, Sound
<1>2. f = [e EXCEPT !.queue = RemoveFirst(@, r)]
  BY <1>1 DEF DeviceState
<1>3. Sound(f) /\ Advances(e, f) /\ r \notin InQueue(f)
  BY <1>1, <1>2, DropSound
<1> HIDE DEF p
<1>4. /\ f.arrived = e.arrived /\ f.sender = e.sender /\ f.jobs = e.jobs
      /\ f.onKill = e.onKill /\ f.sock = e.sock /\ f.stale = e.stale /\ f.child = e.child
      /\ f.ans = e.ans
  BY <1>1 DEF DeviceState
<1> HIDE DEF f
<1>5. Advances(d, f)
  BY <1>1, <1>3, AdvancesTransitive
<1>6. \A i \in 1 .. Len(f.queue) : /\ f.queue[i] # r
                                   /\ \E j \in 1 .. Len(d.queue) : f.queue[i] = d.queue[j]
  BY <1>3, <1>5, InQueueIndex DEF Advances, Sound
<1>7. \A j \in 1 .. Len(d.queue) : d.queue[j] \in Requests /\ d.queue[j] \in Nat
  BY <1>1, Numbers
<1>8. Handed(f)
  <2>1. \A l \in AllKinds : /\ f.sender[l] <= f.arrived
                            /\ \A i \in 1 .. Len(f.queue) : f.sender[l] # f.queue[i]
    BY <1>1, <1>4, <1>6 DEF Handed
  <2>2. \A j \in f.jobs : j <= f.arrived /\ \A i \in 1 .. Len(f.queue) : j < f.queue[i]
    <3>1. ASSUME NEW j \in d.jobs, NEW i \in 1 .. Len(f.queue)
          PROVE  j < f.queue[i]
      <4>1. PICK n \in 1 .. Len(d.queue) : f.queue[i] = d.queue[n]
        BY <1>6
      <4>2. j < d.queue[n]
        BY DEF Handed
      <4> QED
        BY <4>1, <4>2
    <3>2. \A j \in d.jobs : j <= d.arrived
      BY DEF Handed
    <3> QED
      BY <1>1, <1>4, <3>1, <3>2
  <2>3. f.onKill \/ \A i \in 1 .. Len(f.queue) : f.ans[f.queue[i]] = "none"
    <3>1. ASSUME ~f.onKill, NEW i \in 1 .. Len(f.queue)
          PROVE  f.ans[f.queue[i]] = "none"
      <4>1. PICK j \in 1 .. Len(d.queue) : f.queue[i] = d.queue[j]
        BY <1>6
      <4>2. d.ans[d.queue[j]] = "none"
        BY <1>1, <1>4, <3>1 DEF Handed
      <4> QED
        BY <1>1, <1>4, <1>6, <1>7, <4>1, <4>2
    <3> QED
      BY <3>1
  <2>4. \A s \in Requests : s > f.arrived => f.ans[s] = "none"
    <3>1. \A s \in Requests : s > d.arrived => s # r
      BY <1>1 DEF Requests
    <3> QED
      BY <1>1, <1>4, <3>1 DEF Handed
  <2> QED
    BY <2>1, <2>2, <2>3, <2>4 DEF Handed
<1> QED
  BY <1>1, <1>2, <1>3, <1>4, <1>5, <1>8 DEF Works

LEMMA TimeoutLocksWorks ==
    ASSUME ReqsOK, NEW d, Sound(d), Handed(d)
    PROVE  Works(d, TimeoutLocks(d))
<1>1. d \in DeviceState
  BY DEF Sound
<1>2. CASE d.locked = {} \/ ~Old(Holder(d))
  BY <1>2, WorksReflexive DEF TimeoutLocks
<1>3. CASE d.locked # {} /\ Old(Holder(d))
  <2> DEFINE k == CHOOSE l \in d.locked : TRUE
             g == HandleReply(d, k, "BUSY_TIMEOUT", d.sender[k])
             L == g.locked \ {k}
             e == [g EXCEPT !.locked = L]
  <2>1. k \in AllKinds /\ d.sender[k] \in Clients
    BY <1>1, <1>3 DEF DeviceState, Clients
  <2>2. TimeoutLocks(d) = e
    BY <1>3 DEF TimeoutLocks, Release
  <2> HIDE DEF k
  <2>3. /\ d.sender[k] <= d.arrived
        /\ \A i \in 1 .. Len(d.queue) : d.sender[k] # d.queue[i]
    BY <2>1 DEF Handed
  <2>4. Works(d, g)
    BY <2>1, <2>3, HandleReplyWorks DEF Status, Failures
  <2> HIDE DEF g
  <2>5. g \in DeviceState /\ L \in SUBSET AllKinds /\ L \subseteq g.locked
    BY <2>4 DEF Works, Sound, DeviceState
  <2> HIDE DEF L
  <2>6. e \in DeviceState
    BY <2>5 DEF DeviceState
  <2>7. Releases(g, e) /\ Quiet(g, [e EXCEPT !.locked = g.locked])
    BY <2>5, <2>6 DEF Releases, Quiet, DeviceState
  <2>8. /\ e.arrived = g.arrived /\ e.queue = g.queue /\ e.sender = g.sender
        /\ e.jobs = g.jobs /\ e.onKill = g.onKill /\ e.ans = g.ans
        /\ e.sock = g.sock /\ e.stale = g.stale /\ e.child = g.child
    BY <2>5 DEF DeviceState
  <2> HIDE DEF e
  <2>9. Sound(e) /\ Advances(g, e)
    BY <2>4, <2>7, ReleasesSound, ReleasesAdvances DEF Works
  <2>10. Handed(e)
    BY <2>4, <2>8 DEF Works, Handed
  <2>11. Works(g, e)
    BY <2>8, <2>9, <2>10 DEF Works
  <2> QED
    BY <2>2, <2>4, <2>11, WorksTransitive
<1> QED
  BY <1>2, <1>3

LEMMA TimeoutQueueWorks ==
    ASSUME ReqsOK, NEW d, Sound(d), Handed(d), NEW n
    PROVE  Works(d, TimeoutQueue(d, n))
<1> DEFINE due == {q \in InQueue(d) : Old(q) /\ d.id[q] = n}
           r == CHOOSE q \in due : TRUE
           k == Kind(r)
           e == FifoFirst(d, k)
           f == Reply(e, k, "BUSY_TIMEOUT", r)
<1>1. CASE due = {}
  BY <1>1, WorksReflexive DEF TimeoutQueue
<1>2. CASE due # {}
  <2>1. r \in InQueue(d)
    BY <1>2
  <2>2. TimeoutQueue(d, n) = [f EXCEPT !.queue = RemoveFirst(@, r)]
    BY <1>2 DEF TimeoutQueue, HandleReply
  <2> HIDE DEF r
  <2>3. d \in DeviceState
    BY DEF Sound
  <2>4. PICK i \in 1 .. Len(d.queue) : d.queue[i] = r
    BY <2>1, <2>3, InQueueIndex
  <2>5. r \in Requests /\ r <= d.arrived
    BY <2>3, <2>4, Numbers DEF Sound, QueueSound
  <2>6. k \in AllKinds /\ r \in Clients /\ "BUSY_TIMEOUT" \in Status
    BY <2>5, KindType DEF Status, Failures, Clients, Requests
  <2> HIDE DEF k
  <2>7. Works(d, e)
    BY FifoFirstWorks
  <2> HIDE DEF e
  <2>8. Replies(e, f, k, r)
    BY <2>6, <2>7, ReplyReplies DEF Works, Sound
  <2> HIDE DEF f
  <2>9. r <= e.arrived
    BY <2>5, <2>7 DEF Works, Advances
  <2>10. Works(e, [f EXCEPT !.queue = RemoveFirst(@, r)])
    BY <2>5, <2>7, <2>8, <2>9, DropWorks DEF Works
  <2> QED
    BY <2>2, <2>7, <2>10, WorksTransitive
<1> QED
  BY <1>1, <1>2

LEMMA TimeoutWakeupHanded ==
    ASSUME IInv, Handed(dev), NEW r \in Requests, TimeoutWakeup(r)
    PROVE  NobodyComes(dev, dev')
<1> DEFINE e == TimeoutLocks(dev)
           f == TimeoutQueue(e, dev.id[r])
           T == f.timers \ {r}
<1>1. ReqsOK /\ Sound(dev)
  BY DEF IInv
<1>2. Works(dev, e)
  BY <1>1, TimeoutLocksWorks
<1>3. Works(e, f)
  BY <1>1, <1>2, TimeoutQueueWorks DEF Works
<1>4. dev' = [f EXCEPT !.timers = T]
  BY DEF TimeoutWakeup
<1> HIDE DEF e, f
<1>5. Works(dev, f)
  BY <1>1, <1>2, <1>3, WorksTransitive
<1>6. f \in DeviceState
  BY <1>5 DEF Works, Sound
<1>7. Quiet(f, dev') /\ dev'.jobs = f.jobs
  BY <1>4, <1>6 DEF Quiet, DeviceState
<1>8. Handed(dev')
  BY <1>5, <1>7, QuietHanded DEF Works
<1> QED
  BY <1>5, <1>7, <1>8 DEF Works, Advances, Quiet, NobodyComes, StepHanded, Starts

LEMMA StatusAndEndHanded ==
    ASSUME IInv, Handed(dev),
           \/ \E o \in Owners, a \in BOOLEAN : SetDeviceStatus(o, a)
           \/ Kill
           \/ ActorExit
    PROVE  NobodyComes(dev, dev')
<1>1. Sound(dev) /\ dev \in DeviceState
  BY DEF IInv, Sound
<1>2. ASSUME NEW o \in Owners, NEW a \in BOOLEAN, SetDeviceStatus(o, a)
      PROVE  NobodyComes(dev, dev')
  <2>1. PICK v \in Reservation : dev' = [dev EXCEPT !.rsv = v]
    BY <1>1, <1>2 DEF SetDeviceStatus, DeviceState, Reservation
  <2> QED
    BY <1>1, <2>1 DEF NobodyComes, StepHanded, Starts, Handed, DeviceState
<1>3. CASE Kill
  <2>1. Works(dev, dev')
    BY <1>1, <1>3, KillMyselfWorks DEF Kill
  <2> QED
    BY <2>1 DEF Works, Advances, NobodyComes, StepHanded, Starts
<1>4. CASE ActorExit
  <2>1. Quiet(dev, dev')
    BY <1>1, <1>4 DEF ActorExit, Quiet, DeviceState
  <2> QED
    BY <1>1, <2>1, QuietHanded
<1> QED
  BY <1>2, <1>3, <1>4

\* The redirector's messages change reservation, return value and the redirector,
\* and then answer the sender that a lock remembers.
LEMMA TellSenderHanded ==
    ASSUME NEW d, Sound(d), Handed(d), NEW w, Releases(d, w),
           w.sender = d.sender, w.jobs = d.jobs, w.onKill = d.onKill, w.ans = d.ans,
           NEW k \in AllKinds, NEW e, Replies(w, e, k, d.sender[k])
    PROVE  Sound(e) /\ StepHanded(d, e)
<1>1. Sound(w) /\ w.arrived = d.arrived /\ w.queue = d.queue
  BY ReleasesSound DEF Releases
<1>2. Handed(w)
  BY <1>1 DEF Handed
<1>3. d.sender[k] \in Clients
  BY DEF Sound, DeviceState, Clients
<1>4. /\ d.sender[k] <= w.arrived
      /\ \A i \in 1 .. Len(w.queue) : d.sender[k] # w.queue[i]
  BY <1>1 DEF Handed
<1>5. Works(w, e)
  BY <1>1, <1>2, <1>3, <1>4, RepliesWorks
<1> QED
  BY <1>5 DEF Works, Replies, StepHanded, Starts

LEMMA ReceiveSocketMsgHanded ==
    ASSUME IInv, Handed(dev), ReceiveSocketMsg
    PROVE  StepHanded(dev, dev')
<1>1. /\ ReqsOK /\ Sound(dev) /\ dev \in DeviceState /\ "Reserve" \in AllKinds
      /\ dev.sender["Reserve"] \in Clients
  BY DEF IInv, Sound, DeviceState, Clients, AllKinds
<1> DEFINE d == [dev EXCEPT !.sock = "none"]
           w == WriteReservation(d, TRUE)
           u == [d EXCEPT !.ret = dev.sock]
           to == dev.sender["Reserve"]
<1>2. dev' = IF dev.sock = "OK" THEN SendReservationStatus(w, to)
             ELSE SendReservationStatus(u, to)
  BY DEF ReceiveSocketMsg
<1>3. dev.sock \in Status
  BY <1>1 DEF ReceiveSocketMsg, DeviceState, Status, Successes
<1>4. d \in DeviceState
  BY <1>1 DEF DeviceState
<1>5. /\ Releases(dev, d)
      /\ d.sender = dev.sender /\ d.jobs = dev.jobs /\ d.onKill = dev.onKill /\ d.ans = dev.ans
  BY <1>1, <1>4 DEF Releases, DeviceState
<1> HIDE DEF d
<1>6. Releases(d, w) /\ Releases(d, u)
  BY <1>1, <1>3, <1>4, WriteReservationReleases, NewReturn
<1>7. /\ w.sender = d.sender /\ w.jobs = d.jobs /\ w.onKill = d.onKill /\ w.ans = d.ans
      /\ u.sender = d.sender /\ u.jobs = d.jobs /\ u.onKill = d.onKill /\ u.ans = d.ans
  BY <1>4 DEF WriteReservation, DeviceState
<1> HIDE DEF w, u, to
<1>8. Releases(dev, w) /\ Releases(dev, u) /\ w \in DeviceState /\ u \in DeviceState
  BY <1>5, <1>6, ReleasesTransitive DEF Releases
<1>9. /\ Replies(w, SendReservationStatus(w, to), "Reserve", to)
      /\ Replies(u, SendReservationStatus(u, to), "Reserve", to)
  BY <1>1, <1>8, SendReservationStatusReplies DEF to
<1>10. /\ StepHanded(dev, SendReservationStatus(w, to))
       /\ StepHanded(dev, SendReservationStatus(u, to))
  BY <1>1, <1>5, <1>7, <1>8, <1>9, TellSenderHanded DEF to
<1> QED
  BY <1>2, <1>10

LEMMA AfterRedirectorHanded ==
    ASSUME IInv, Handed(dev)
    PROVE  Sound(AfterRedirector(dev)) /\ StepHanded(dev, AfterRedirector(dev))
<1> DEFINE v == [dev.rsv EXCEPT !.port = FALSE]
           e == [dev EXCEPT !.rsv = v]
           to == dev.sender["Free"]
<1>1. /\ Sound(dev) /\ dev \in DeviceState /\ "Free" \in AllKinds
      /\ v \in Reservation /\ to \in Clients
  BY DEF IInv, Sound, DeviceState, Reservation, Clients, AllKinds
<1>2. AfterRedirector(dev) = IF dev.rsv.owner = NoOwner THEN dev ELSE SendFreeStatus(e, to)
  BY DEF AfterRedirector
<1> HIDE DEF v
<1>3. Releases(dev, e)
  BY <1>1, NewReservation
<1>4. e.sender = dev.sender /\ e.jobs = dev.jobs /\ e.onKill = dev.onKill /\ e.ans = dev.ans
  BY <1>1 DEF DeviceState
<1> HIDE DEF e, to
<1>5. Replies(e, SendFreeStatus(e, to), "Free", to)
  BY <1>1, <1>3, SendFreeStatusReplies DEF Releases
<1>6. Sound(SendFreeStatus(e, to)) /\ StepHanded(dev, SendFreeStatus(e, to))
  BY <1>1, <1>3, <1>4, <1>5, TellSenderHanded DEF to
<1> QED
  BY <1>1, <1>2, <1>6 DEF StepHanded, Starts

LEMMA RedirectorHanded ==
    ASSUME IInv, Handed(dev), Redirector
    PROVE  StepHanded(dev, dev')
<1>1. Sound(dev) /\ dev \in DeviceState
  BY DEF IInv, Sound
<1>2. CASE RedirectorSetup \/ RedirectorKilled \/ SocketClosed
  <2>0. \/ dev' = [dev EXCEPT !.child = "open", !.sock = "OK"]
        \/ dev' = [dev EXCEPT !.child = "mute", !.sock = "UNKNOWN_PORT"]
        \/ dev' = [dev EXCEPT !.child = "exiting"]
    BY <1>2 DEF RedirectorSetup, RedirectorKilled, SocketClosed
  <2>1. dev'.arrived = dev.arrived /\ dev'.queue = dev.queue /\ dev'.sender = dev.sender
    BY <1>1, <2>0 DEF DeviceState
  <2>2. dev'.jobs = dev.jobs /\ dev'.onKill = dev.onKill /\ dev'.ans = dev.ans
    BY <1>1, <2>0 DEF DeviceState
  <2> QED
    BY <2>1, <2>2 DEF StepHanded, Starts, Handed
<1>3. CASE ReceiveSocketMsg
  BY <1>3, ReceiveSocketMsgHanded
<1>4. CASE ReceiveChildActorExited \/ ReceiveChildActorExitedAgain
  <2> DEFINE e == AfterRedirector(dev)
  <2>1. Sound(e) /\ e \in DeviceState /\ StepHanded(dev, e)
    BY AfterRedirectorHanded DEF Sound
  <2>2. \/ dev' = [e EXCEPT !.child = "none", !.stale = @ + 1,
                            !.exit = IF dev.onKill THEN "requested" ELSE @]
        \/ dev' = [e EXCEPT !.stale = @ - 1]
    BY <1>4 DEF ReceiveChildActorExited, ReceiveChildActorExitedAgain
  <2> HIDE DEF e
  <2>3. /\ dev'.arrived = e.arrived /\ dev'.queue = e.queue /\ dev'.sender = e.sender
        /\ dev'.jobs = e.jobs /\ dev'.onKill = e.onKill /\ dev'.ans = e.ans
    BY <2>1, <2>2 DEF DeviceState
  <2> QED
    BY <2>1, <2>3 DEF StepHanded, Starts, Handed
<1> QED
  BY <1>2, <1>3, <1>4 DEF Redirector

LEMMA InitHanded == Init => Handed(dev)
<1> SUFFICES ASSUME Init PROVE Handed(dev)
  OBVIOUS
<1>1. /\ dev.arrived = 0 /\ dev.queue = << >> /\ dev.jobs = {}
      /\ dev.sender = [k \in AllKinds |-> NoReq] /\ dev.ans = [r \in Requests |-> "none"]
  BY DEF Init
<1>2. /\ \A k \in AllKinds : dev.sender[k] = 0
      /\ \A r \in Requests : dev.ans[r] = "none"
      /\ Len(dev.queue) = 0
  BY <1>1 DEF NoReq
<1> QED
  BY <1>1, <1>2 DEF Handed

LEMMA NextHanded ==
    ASSUME IInv, Handed(dev), [Next]_vars
    PROVE  StepHanded(dev, dev')
<1>1. CASE \E r \in Requests : Receive(r)
  BY <1>1, ReceiveReserveHanded, ReceiveOtherHanded DEF Receive, Comes
<1>2. CASE \E r \in Requests : \/ \E st \in Outcomes : BackendReply(r, st)
                              \/ LoseReply(r)
                              \/ RetryWakeup(r)
  BY <1>2, BackendHanded DEF NobodyComes
<1>3. CASE \E r \in Requests : TimeoutWakeup(r)
  BY <1>3, TimeoutWakeupHanded DEF NobodyComes
<1>4. CASE \/ \E o \in Owners, a \in BOOLEAN : SetDeviceStatus(o, a)
           \/ Kill
           \/ ActorExit
  BY <1>4, StatusAndEndHanded DEF NobodyComes
<1>5. CASE Redirector
  BY <1>5, RedirectorHanded
<1>6. CASE Tick \/ UNCHANGED vars
  BY <1>6 DEF Tick, vars, StepHanded, Starts
<1> QED
  BY <1>1, <1>2, <1>3, <1>4, <1>5, <1>6 DEF Next

\* As long as the device is not being killed, a step starts the backend only for
\* requests that were still waiting, and takes them out of the queue.
LEMMA NextStartsWaiting ==
    ASSUME IInv, Handed(dev), [Next]_vars, IInv', ~dev.onKill, NEW r \in dev'.jobs \ dev.jobs
    PROVE  dev.ans[r] = "none" /\ r \notin InQueue(dev')
<1>1. /\ StepHanded(dev, dev') /\ Sound(dev) /\ Sound(dev')
  BY NextHanded DEF IInv
<1>2. dev \in DeviceState /\ dev' \in DeviceState /\ r \in Requests /\ r \in Nat
  <2>1. dev \in DeviceState /\ dev' \in DeviceState
    BY <1>1 DEF Sound
  <2>2. dev'.jobs \subseteq Requests
    BY <2>1 DEF DeviceState
  <2> QED
    BY <2>1, <2>2 DEF Requests
<1>3. dev.ans[r] = "none"
  <2>1. CASE r \in InQueue(dev)
    BY <1>1, <1>2, <2>1, InQueueIndex DEF Handed
  <2>2. CASE r > dev.arrived
    BY <1>2, <2>2 DEF Handed
  <2> QED
    BY <1>1, <2>1, <2>2 DEF StepHanded, Starts
<1>4. \A i \in 1 .. Len(dev'.queue) : dev'.queue[i] # r
  BY <1>1, <1>2, Numbers DEF StepHanded, Handed
<1>5. r \notin InQueue(dev')
  BY <1>2, <1>4, InQueueIndex
<1> QED
  BY <1>3, <1>5

\* Nobody in the queue has an answer (but from a kill), and whom the backend works for has left
\* the queue.
THEOREM QueueIsUnanswered == Spec => [](IInv /\ Handed(dev))
<1>1. Init => IInv /\ Handed(dev)
  BY InitSound, InitHanded
<1>2. IInv /\ Handed(dev) /\ [Next]_vars => (IInv /\ Handed(dev))'
  BY StepSound, NextHanded DEF StepHanded
<1> QED
  BY <1>1, <1>2, PTL DEF Spec

\* Before a kill the backend is never asked for a request that was answered, above
\* all for one that has timed out, nor for one that stays in the queue.
THEOREM BackendServesWaiting == Spec => OnlyWaitingGoToBackend
<1> DEFINE A == ~dev.onKill => \A r \in dev'.jobs \ dev.jobs :
                                 dev.ans[r] = "none" /\ r \notin InQueue(dev')
<1>1. IInv /\ Handed(dev) /\ [Next]_vars => [A]_vars
  BY StepSound, NextStartsWaiting
<1> QED
  BY <1>1, QueueIsUnanswered, PTL DEF Spec, OnlyWaitingGoToBackend

-----------------------------------------------------------------------------
(* Nobody is forgotten: a steady request that has come and has no answer is  *)
(* in the queue or in the lock of its kind, whose sender it is.              *)

InLock(d, r) == Kind(r) \in d.locked /\ d.req[Kind(r)] = r

\* S are the requests whose handlers have come to their end, or to the worker.
Tended(d, S) ==
    /\ d.child = "none" /\ d.sock = "none" /\ d.stale = 0
    /\ \A k \in SteadyKinds : d.sender[k] = d.req[k]
    /\ \A r \in S : Steady(r) /\ d.ans[r] = "none"
                      => ~d.onKill /\ (r \in InQueue(d) \/ InLock(d, r))
    /\ d.onKill \/ \A r \in d.jobs : Steady(r) /\ ~Old(r) => InLock(d, r)

\* A reply releases the lock of a steady kind only for its holder, who gets the
\* answer and for whom the backend works no more.
LEMMA RepliesTended ==
    ASSUME RedirectOwners = {}, NEW S \in SUBSET Requests, NEW d \in DeviceState, Tended(d, S),
           NEW e, NEW k, NEW to, Replies(d, e, k, to),
           \/ d.onKill \/ k \notin SteadyKinds \/ k \in e.locked
           \/ \A r \in Requests : InLock(d, r) /\ Kind(r) = k =>
                 e.ans[r] # "none" /\ (r \notin d.jobs \/ Old(r))
    PROVE  Tended(e, S)
<1>1. /\ e.child = d.child /\ e.sock = d.sock /\ e.stale = d.stale
      /\ e.sender = d.sender /\ e.req = d.req /\ e.onKill = d.onKill /\ d.jobs \subseteq Requests
      /\ e.jobs = d.jobs /\ e.queue = d.queue /\ d.locked \subseteq e.locked \cup {k}
      /\ \A r \in Requests : d.ans[r] # "none" => e.ans[r] = d.ans[r]
  BY DEF Replies, Releases, DeviceState
<1>2. InQueue(e) = InQueue(d)
  BY <1>1 DEF InQueue
<1>3. ASSUME NEW r \in S, Steady(r), e.ans[r] = "none"
      PROVE  ~e.onKill /\ (r \in InQueue(e) \/ InLock(e, r))
  <2>1. d.ans[r] = "none"
    BY <1>1, <1>3
  <2>2. ~d.onKill /\ (r \in InQueue(d) \/ InLock(d, r))
    BY <1>3, <2>1 DEF Tended
  <2>3. ASSUME InLock(d, r), Kind(r) \notin e.locked
        PROVE  FALSE
    BY <1>1, <1>3, <2>2, <2>3 DEF InLock, Steady
  <2> QED
    BY <1>1, <1>2, <2>2, <2>3 DEF InLock
<1>4. ASSUME ~e.onKill, NEW r \in e.jobs, Steady(r), ~Old(r)
      PROVE  InLock(e, r)
  <2>1. InLock(d, r)
    BY <1>1, <1>4 DEF Tended
  <2>2. Kind(r) \in e.locked
    BY <1>1, <1>4, <2>1 DEF InLock, Steady
  <2> QED
    BY <1>1, <2>1, <2>2 DEF InLock
<1>5. \A l \in SteadyKinds : e.sender[l] = e.req[l]
  BY <1>1 DEF Tended
<1> QED
  BY <1>1, <1>3, <1>4, <1>5 DEF Tended

LEMMA KillMyselfTended ==
    ASSUME NEW S \in SUBSET Requests, NEW d \in DeviceState, Tended(d, S)
    PROVE  Tended(KillMyself(d), S)
<1> DEFINE e == KillMyself(d)
<1>1. CASE d.onKill
  BY <1>1 DEF KillMyself
<1>2. CASE ~d.onKill
  <2>1. /\ e.sender = d.sender /\ e.child = d.child /\ e.onKill
        /\ e.sock = d.sock /\ e.stale = d.stale
        /\ \A r \in Requests : e.ans[r] = d.ans[r] \/ e.ans[r] = "NOT_FOUND"
        /\ \A r \in Requests :
              r \in InQueue(d) \/ (\E k \in d.locked : r = d.sender[k]) => e.ans[r] # "none"
    BY <1>2, KillMyselfTells DEF Tended
  <2>2. e.req = d.req
    BY KillMyselfReleases DEF Releases
  <2> HIDE DEF e
  <2>3. ASSUME NEW r \in S, Steady(r)
        PROVE  e.ans[r] # "none"
    <3>1. CASE d.ans[r] = "none"
      <4>1. r \in InQueue(d) \/ InLock(d, r)
        BY <2>3, <3>1 DEF Tended
      <4>2. InLock(d, r) => \E k \in d.locked : r = d.sender[k]
        BY <2>3 DEF InLock, Steady, Tended
      <4> QED
        BY <2>1, <4>1, <4>2
    <3>2. CASE d.ans[r] # "none"
      BY <2>1, <3>2
    <3> QED
      BY <3>1, <3>2
  <2>4. Tended(e, S)
    BY <2>1, <2>2, <2>3 DEF Tended
  <2> QED
    BY <2>4 DEF e
<1> QED
  BY <1>1, <1>2

\* What does not matter to the requests of the clients.
LEMMA QuietTended ==
    ASSUME NEW S \in SUBSET Requests, NEW d, Tended(d, S), NEW e, Quiet(d, e)
    PROVE  Tended(e, S)
<1>1. InQueue(e) = InQueue(d)
  BY DEF InQueue, Quiet
<1> QED
  BY <1>1 DEF Tended, Quiet, InLock

LEMMA BlockedTended ==
    ASSUME NEW S \in SUBSET Requests, NEW d \in DeviceState, Tended(d, S), NEW r
    PROVE  /\ Tended(Blocked(d, r), S)
           /\ ~Old(Holder(d)) => Quiet(d, Blocked(d, r))
           /\ Blocked(d, r).req = d.req /\ Blocked(d, r).jobs = d.jobs
           /\ d.onKill => Blocked(d, r).onKill
<1>1. CASE Old(Holder(d))
  BY <1>1, KillMyselfTended, KillMyselfTells, KillMyselfReleases DEF Blocked, Releases
<1>2. CASE ~Old(Holder(d))
  <2>1. /\ Quiet(d, Blocked(d, r)) /\ Blocked(d, r).req = d.req /\ Blocked(d, r).jobs = d.jobs
        /\ Blocked(d, r).onKill = d.onKill
    BY <1>2 DEF Blocked, Quiet, DeviceState
  <2> QED
    BY <1>2, <2>1, QuietTended
<1> QED
  BY <1>1, <1>2

LEMMA TakeLockTended ==
    ASSUME ReqsOK, NEW S \in SUBSET Requests, NEW d, Sound(d), d.queue # << >>, d.locked = {},
           Tended(d, S)
    PROVE  LET e == TakeLock(d, Head(d.queue))
           IN  /\ Tended(e, S)
               /\ e.onKill \/ \A s \in e.jobs : Steady(s) => Old(s)
<1> DEFINE r == Head(d.queue)
           e == TakeLock(d, r)
<1>1. /\ e.locked = {Kind(r)}
      /\ e.queue = Tail(d.queue)
      /\ e.req[Kind(r)] = r /\ e.sender[Kind(r)] = r
      /\ \A k \in AllKinds : k # Kind(r) => e.req[k] = d.req[k] /\ e.sender[k] = d.sender[k]
      /\ e.jobs = d.jobs /\ e.onKill = d.onKill /\ e.ans = d.ans
      /\ e.child = d.child /\ e.sock = d.sock /\ e.stale = d.stale
  BY TakeLockFields
<1>2. d \in DeviceState /\ d.queue \in Seq(Requests) /\ e \in DeviceState
  BY TakeLockSound DEF Sound, DeviceState
<1>3. \A s \in InQueue(d) : s = r \/ s \in InQueue(e)
  <2>1. ASSUME NEW s \in InQueue(d), s # r
        PROVE  s \in InQueue(e)
    <3>1. PICK i \in 1 .. Len(d.queue) : d.queue[i] = s
      BY <1>2, InQueueIndex
    <3>2. i # 1
      BY <1>2, <2>1, <3>1
    <3>3. /\ Len(Tail(d.queue)) = Len(d.queue) - 1 /\ Len(d.queue) \in Nat
          /\ \A m \in 1 .. Len(Tail(d.queue)) : Tail(d.queue)[m] = d.queue[m + 1]
      BY <1>2
    <3>4. /\ i - 1 \in 1 .. Len(Tail(d.queue)) /\ (i - 1) + 1 = i
      BY <3>1, <3>2, <3>3
    <3>5. Tail(d.queue)[i - 1] = s
      BY <3>1, <3>3, <3>4
    <3> QED
      BY <1>1, <1>2, <3>4, <3>5, InQueueIndex
  <2> QED
    BY <2>1
<1> HIDE DEF r, e
<1>4. \A k \in SteadyKinds : e.sender[k] = e.req[k]
  BY <1>1 DEF Tended, SteadyKinds, AllKinds
<1>5. ASSUME NEW s \in S, Steady(s), e.ans[s] = "none"
      PROVE  ~e.onKill /\ (s \in InQueue(e) \/ InLock(e, s))
  <2>1. ~d.onKill /\ s \in InQueue(d)
    BY <1>1, <1>5 DEF Tended, InLock
  <2>2. s = r => InLock(e, s)
    BY <1>1 DEF InLock
  <2> QED
    BY <1>1, <1>3, <2>1, <2>2
<1>6. e.onKill \/ \A s \in e.jobs : Steady(s) => Old(s)
  BY <1>1 DEF Tended, InLock
<1> QED
  BY <1>1, <1>4, <1>5, <1>6 DEF Tended, e, r

LEMMA FifoHeldTended ==
    ASSUME NEW S \in SUBSET Requests, NEW d \in DeviceState, Tended(d, S)
    PROVE  /\ Tended(FifoHeld(d), S)
           /\ FifoHeld(d).req = d.req /\ FifoHeld(d).jobs = d.jobs
           /\ d.onKill => FifoHeld(d).onKill
BY BlockedTended DEF FifoHeld

\* A lock that is alone does not keep a reply of its own kind from being sent.
LEMMA AloneDoesNotRaise ==
    ASSUME NEW d, NEW k, d.locked \subseteq {k}
    PROVE  ~Raises(d, k)
BY DEF Raises

LEMMA CallBackendTended ==
    ASSUME ReqsOK, RedirectOwners = {}, NEW S \in SUBSET Requests, NEW d, Sound(d), Tended(d, S),
           NEW r \in Requests, d.locked = {Kind(r)}, d.req[Kind(r)] = r,
           d.onKill \/ \A s \in d.jobs : Steady(s) => Old(s)
    PROVE  Tended(CallBackend(d, r), S) /\ CallBackend(d, r).req = d.req
<1> DEFINE k == Kind(r)
<1>1. d \in DeviceState /\ k \in AllKinds /\ r \in Clients
  BY KindType DEF Sound, Clients, Requests
<1>2. CASE k \in SyncKinds
  <2> DEFINE f == FifoHeld(d)
             e == Reply(f, k, "OK", r)
  <2>1. CallBackend(d, r) = e
    BY <1>2 DEF CallBackend
  <2>2. /\ Tended(f, S) /\ f.req = d.req /\ f.jobs = d.jobs /\ (d.onKill => f.onKill)
        /\ f \in DeviceState /\ f.locked \subseteq {k}
    BY <1>1, FifoHeldTended, FifoHeldSound DEF Sound
  <2> HIDE DEF f
  <2>3. Replies(f, e, k, r)
    BY <1>1, <2>2, ReplyReplies DEF Status, Successes
  <2>4. k \in SteadyKinds => e.ans[r] # "none"
    <3>1. ~Raises(f, k) /\ f.child = "none"
      BY <2>2, AloneDoesNotRaise DEF Tended
    <3> QED
      BY <1>1, <2>2, <3>1, SteadyReply DEF Status, Successes
  <2> HIDE DEF e
  <2>5. \/ f.onKill \/ k \notin SteadyKinds
        \/ \A s \in Requests : InLock(f, s) /\ Kind(s) = k =>
              e.ans[s] # "none" /\ (s \notin f.jobs \/ Old(s))
    BY <2>2, <2>4 DEF InLock, Steady
  <2>6. Tended(e, S)
    BY <2>2, <2>3, <2>5, RepliesTended
  <2>7. e.req = d.req
    BY <2>2, <2>3 DEF Replies, Releases
  <2> QED
    BY <2>1, <2>6, <2>7
<1>3. CASE k \notin SyncKinds
  <2> DEFINE J == d.jobs \cup {r}
             m == IF k = "Reserve" THEN r ELSE d.msg
             e == [d EXCEPT !.jobs = J, !.msg = m]
  <2>1. CallBackend(d, r) = e
    BY <1>3 DEF CallBackend
  <2> HIDE DEF J, m, k
  <2>2. /\ e.jobs = J /\ e.sender = d.sender /\ e.onKill = d.onKill /\ e.ans = d.ans
        /\ e.sock = d.sock /\ e.stale = d.stale /\ e.child = d.child
        /\ e.arrived = d.arrived /\ e.queue = d.queue /\ e.locked = d.locked /\ e.req = d.req
    BY <1>1 DEF DeviceState
  <2> HIDE DEF e
  <2>3. InQueue(e) = InQueue(d) /\ \A s : InLock(e, s) <=> InLock(d, s)
    BY <2>2 DEF InQueue, InLock
  <2>4. InLock(e, r)
    BY <2>2 DEF InLock
  <2>5. e.onKill \/ \A s \in e.jobs : Steady(s) /\ ~Old(s) => InLock(e, s)
    BY <2>2, <2>4 DEF J
  <2>6. Tended(e, S)
    BY <2>2, <2>3, <2>5 DEF Tended
  <2> QED
    BY <2>1, <2>2, <2>6
<1> QED
  BY <1>2, <1>3

LEMMA WorkerTended ==
    ASSUME ReqsOK, RedirectOwners = {}, NEW S \in SUBSET Requests, NEW d, Sound(d), Tended(d, S),
           NEW r, r \in InQueue(d) => r = Head(d.queue)
    PROVE  /\ Tended(Worker(d, r), S)
           /\ d.locked # {} => Worker(d, r).req = d.req
           /\ d.locked # {} /\ ~Old(Holder(d)) => Quiet(d, Worker(d, r))
           /\ d.locked = {} /\ r \in InQueue(d) => Worker(d, r).req[Kind(r)] = r
<1>1. d \in DeviceState
  BY DEF Sound
<1>2. CASE r \notin InQueue(d)
  BY <1>2 DEF Worker, Quiet
<1>3. CASE r \in InQueue(d) /\ d.locked # {}
  BY <1>1, <1>3, BlockedTended DEF Worker
<1>4. CASE r \in InQueue(d) /\ d.locked = {}
  <2> DEFINE e == TakeLock(d, r)
  <2>1. r = Head(d.queue) /\ d.queue # << >>
    BY <1>1, <1>4, InQueueIndex
  <2>2. /\ Tended(e, S)
        /\ e.onKill \/ \A s \in e.jobs : Steady(s) => Old(s)
    BY <1>4, <2>1, TakeLockTended
  <2>3. Sound(e) /\ e.locked = {Kind(r)} /\ e.req[Kind(r)] = r /\ r \in Requests
    BY <1>4, <2>1, TakeLockSound, TakeLockFields, HeadIsFirst
  <2>4. Worker(d, r) = CallBackend(e, r)
    BY <1>4 DEF Worker
  <2> HIDE DEF e
  <2>5. Tended(CallBackend(e, r), S) /\ CallBackend(e, r).req = e.req
    BY <2>2, <2>3, CallBackendTended
  <2> QED
    BY <1>4, <2>3, <2>4, <2>5
<1> QED
  BY <1>2, <1>3, <1>4

LEMMA FifoTended ==
    ASSUME ReqsOK, RedirectOwners = {}, NEW S \in SUBSET Requests, NEW d, Sound(d), Tended(d, S)
    PROVE  /\ Tended(Fifo(d), S)
           /\ d.locked # {} => Fifo(d).req = d.req
           /\ d.locked # {} /\ ~Old(Holder(d)) => Quiet(d, Fifo(d))
           /\ d.locked = {} /\ d.queue # << >> => Fifo(d).req[Kind(Head(d.queue))] = Head(d.queue)
<1>1. CASE d.queue = << >>
  BY <1>1 DEF Fifo, Quiet
<1>2. CASE d.queue # << >>
  <2>1. Fifo(d) = Worker(d, Head(d.queue)) /\ Head(d.queue) \in InQueue(d)
    BY <1>2, HeadIsFirst DEF Fifo
  <2> QED
    BY <1>2, <2>1, WorkerTended
<1> QED
  BY <1>1, <1>2

LEMMA FifoFirstTended ==
    ASSUME ReqsOK, RedirectOwners = {}, NEW S \in SUBSET Requests, NEW d, Sound(d), Tended(d, S),
           NEW k
    PROVE  Tended(FifoFirst(d, k), S)
<1> DEFINE e == Fifo(d)
<1>1. Sound(e) /\ Tended(e, S)
  BY FifoSound, FifoTended
<1>2. FifoFirst(d, k) = IF Raises(e, k) THEN Fifo(e) ELSE e
  BY DEF FifoFirst
<1> HIDE DEF e
<1> QED
  BY <1>1, <1>2, FifoTended

\* The replies of the other kinds leave the locks of the steady ones alone.
LEMMA OtherReplyTended ==
    ASSUME ReqsOK, RedirectOwners = {}, NEW S \in SUBSET Requests, NEW d, Sound(d), Tended(d, S),
           NEW k \in AllKinds \ SteadyKinds, NEW st \in Status, NEW to \in Clients
    PROVE  Tended(Reply(d, k, st, to), S) /\ Tended(HandleReply(d, k, st, to), S)
<1>1. \A e : Sound(e) /\ Tended(e, S) => Tended(Reply(e, k, st, to), S)
  BY ReplyReplies, RepliesTended DEF Sound
<1>2. Sound(FifoFirst(d, k)) /\ Tended(FifoFirst(d, k), S)
  BY FifoFirstSound, FifoFirstTended
<1> QED
  BY <1>1, <1>2 DEF HandleReply

\* A backend in time answers the request whose lock is held: no worker starts
\* before the reply, and the reply reaches the client.
LEMMA BackendReplyTended ==
    ASSUME ReqsOK, RedirectOwners = {}, NEW S \in SUBSET Requests, NEW d, Sound(d), Handed(d),
           Tended(d, S), NEW r \in d.jobs, ~Old(r), NEW st \in Status
    PROVE  LET e == [d EXCEPT !.jobs = @ \ {r}]
           IN  Tended(HandleReply(e, Kind(r), st, e.sender[Kind(r)]), S)
<1> DEFINE e == [d EXCEPT !.jobs = @ \ {r}]
           k == Kind(r)
           f == FifoFirst(e, k)
           g == Reply(f, k, st, e.sender[k])
<1>1. d \in DeviceState /\ r \in Requests
  BY DEF Sound, DeviceState
<1>2. k \in AllKinds /\ r \in Clients
  BY <1>1, KindType DEF Clients, Requests
<1>3. Sound(e) /\ Quiet(d, e) /\ e.jobs = d.jobs \ {r} /\ Tended(e, S) /\ e \in DeviceState
  BY JobTakenQuiet, QuietTended DEF Sound
<1> HIDE DEF e
<1>4. e.sender[k] \in Clients
  BY <1>2, <1>3 DEF DeviceState, Clients
<1>5. HandleReply(e, k, st, e.sender[k]) = g
  BY DEF HandleReply
<1>6. Sound(f) /\ Tended(f, S) /\ f \in DeviceState /\ (e.onKill => f.onKill)
  <2>1. Sound(f) /\ Tended(f, S)
    BY <1>3, FifoFirstSound, FifoFirstTended
  <2>2. Works(e, f)
    BY <1>3, QuietHanded, FifoFirstWorks
  <2> HIDE DEF f
  <2> QED
    BY <2>1, <2>2 DEF Sound, Works
<1> HIDE DEF f
<1>7. ASSUME k \notin SteadyKinds
      PROVE  Tended(HandleReply(e, k, st, e.sender[k]), S)
  BY <1>2, <1>3, <1>4, <1>7, OtherReplyTended
<1>8. ASSUME k \in SteadyKinds
      PROVE  Tended(HandleReply(e, k, st, e.sender[k]), S)
  <2>1. Replies(f, g, k, e.sender[k])
    BY <1>2, <1>4, <1>6, ReplyReplies
  <2> HIDE DEF g
  <2>2. CASE e.onKill
    <3>1. Tended(g, S)
      BY <1>6, <2>1, <2>2, RepliesTended
    <3> QED
      BY <1>5, <3>1
  <2>3. CASE ~e.onKill
    <3>2. InLock(d, r)
      BY <1>3, <1>8, <2>3 DEF Tended, Steady, Quiet
    <3>3. e.locked = {k} /\ e.req[k] = r /\ Holder(e) = r /\ e.sender[k] = r
      <4>1. e.locked = {k}
        BY <1>3, <3>2 DEF InLock, Quiet, Sound, LocksSound
      <4> QED
        BY <1>3, <1>8, <3>2, <4>1 DEF InLock, Quiet, Holder, Tended
    <3>4. Quiet(e, Fifo(e))
      BY <1>3, <3>3, FifoTended
    <3>5. f = Fifo(e)
      BY <3>3, <3>4, AloneDoesNotRaise DEF FifoFirst, Quiet, f
    <3>6. f.locked = {k} /\ f.req[k] = r /\ r \notin f.jobs /\ ~Raises(f, k) /\ f.child = "none"
      BY <1>3, <1>6, <3>3, <3>4, <3>5, AloneDoesNotRaise DEF Quiet, Tended
    <3>7. g.ans[r] # "none"
      BY <1>1, <1>2, <1>6, <1>8, <3>3, <3>6, SteadyReply DEF g
    <3>8. \A s \in Requests : InLock(f, s) /\ Kind(s) = k => s = r
      BY <3>6 DEF InLock
    <3>9. \A s \in Requests : InLock(f, s) /\ Kind(s) = k =>
             g.ans[s] # "none" /\ (s \notin f.jobs \/ Old(s))
      BY <3>6, <3>7, <3>8
    <3>10. Tended(g, S)
      BY <1>6, <2>1, <3>9, RepliesTended
    <3> QED
      BY <1>5, <3>10
  <2> QED
    BY <2>2, <2>3
<1> QED
  BY <1>7, <1>8 DEF e

LEMMA TimeoutLocksTended ==
    ASSUME ReqsOK, RedirectOwners = {}, NEW S \in SUBSET Requests, NEW d, Sound(d), Tended(d, S)
    PROVE  Tended(TimeoutLocks(d), S)
<1>1. d \in DeviceState
  BY DEF Sound
<1>2. CASE d.locked = {} \/ ~Old(Holder(d))
  BY <1>2 DEF TimeoutLocks
<1>3. CASE d.locked # {} /\ Old(Holder(d))
  <2> DEFINE k == CHOOSE l \in d.locked : TRUE
             to == d.sender[k]
             f == Fifo(d)
             g == Reply(f, k, "BUSY_TIMEOUT", to)
             L == g.locked \ {k}
  <2>1. /\ k \in AllKinds /\ to \in Clients /\ d.locked = {k} /\ Old(d.req[k])
        /\ "BUSY_TIMEOUT" \in Status
    BY <1>1, <1>3 DEF DeviceState, Clients, Sound, LocksSound, Holder, Status, Failures
  <2>2. TimeoutLocks(d) = [HandleReply(d, k, "BUSY_TIMEOUT", to) EXCEPT !.locked = @ \ {k}]
    BY <1>3 DEF TimeoutLocks, Release
  <2> HIDE DEF k, to
  <2>3. /\ Sound(f) /\ f \in DeviceState /\ f.locked \subseteq {k}
        /\ Tended(f, S) /\ f.req = d.req
    BY <1>3, <2>1, FifoSound, FifoTended DEF Sound
  <2>4. ~Raises(f, k) /\ f.child = "none"
    BY <2>3, AloneDoesNotRaise DEF Tended
  <2>5. HandleReply(d, k, "BUSY_TIMEOUT", to) = g
    BY <2>4 DEF HandleReply, FifoFirst
  <2> HIDE DEF f
  <2>6. Replies(f, g, k, to) /\ g \in DeviceState
    BY <2>1, <2>3, ReplyReplies DEF Replies, Releases
  <2>7. k \notin g.locked
    BY <2>1, <2>3, <2>4, BusyTimeoutUnlocks
  <2>8. k \in SteadyKinds => to = d.req[k] /\ (to \in Requests => g.ans[to] # "none")
    BY <2>1, <2>3, <2>4, SteadyReply DEF Tended, to
  <2> HIDE DEF g
  <2>9. \/ k \notin SteadyKinds
        \/ \A r \in Requests : InLock(f, r) /\ Kind(r) = k =>
              g.ans[r] # "none" /\ (r \notin f.jobs \/ Old(r))
    BY <2>1, <2>3, <2>8 DEF InLock
  <2>10. Tended(g, S)
    BY <2>3, <2>6, <2>9, RepliesTended
  <2>11. [g EXCEPT !.locked = @ \ {k}] = g
    BY <2>6, <2>7 DEF DeviceState
  <2> QED
    BY <2>2, <2>5, <2>10, <2>11
<1> QED
  BY <1>2, <1>3

LEMMA TimeoutQueueTended ==
    ASSUME ReqsOK, RedirectOwners = {}, NEW S \in SUBSET Requests, NEW d, Sound(d), Tended(d, S),
           d.locked = {}, d.queue # << >>, Old(Head(d.queue))
    PROVE  Tended(TimeoutQueue(d, d.id[Head(d.queue)]), S)
<1> DEFINE r == Head(d.queue)
           k == Kind(r)
           f == Fifo(d)
           g == Reply(f, k, "BUSY_TIMEOUT", r)
<1>1. /\ r \in Requests
      /\ Sound(f) /\ f.queue = Tail(d.queue) /\ f.locked \subseteq {k}
      /\ ~Raises(f, k)
      /\ TimeoutQueue(d, d.id[r]) = [g EXCEPT !.queue = RemoveFirst(@, r)]
  BY TimeoutQueueIs
<1>2. Tended(f, S) /\ f.req[k] = r /\ f \in DeviceState
  BY <1>1, FifoTended DEF Sound
<1>3. \A i \in 1 .. Len(Tail(d.queue)) : r # Tail(d.queue)[i]
  <2>1. d.queue \in Seq(Requests)
    BY DEF Sound, DeviceState
  <2>2. \A i \in 1 .. Len(Tail(d.queue)) : /\ Head(d.queue) < Tail(d.queue)[i]
                                           /\ Tail(d.queue)[i] \in Requests
    BY <2>1, HeadIsFirst
  <2> QED
    BY <2>2 DEF Requests
<1>4. Old(r)
  OBVIOUS
<1> HIDE DEF f, r
<1>5. k \in AllKinds /\ r \in Clients /\ "BUSY_TIMEOUT" \in Status
  BY <1>1, KindType DEF Status, Failures, Clients, Requests
<1>6. Replies(f, g, k, r) /\ g.queue = f.queue /\ g \in DeviceState
  BY <1>2, <1>5, ReplyReplies DEF Replies, Releases
<1>7. k \in SteadyKinds => g.ans[r] # "none"
  BY <1>1, <1>2, <1>5, SteadyReply DEF Tended
<1> HIDE DEF g
<1>8. \A s \in Requests : InLock(f, s) /\ Kind(s) = k => s = r
  BY <1>2 DEF InLock
<1>9. Tended(g, S)
  BY <1>2, <1>4, <1>6, <1>7, <1>8, RepliesTended
<1>10. RemoveFirst(g.queue, r) = g.queue
  BY <1>1, <1>3, <1>6 DEF RemoveFirst
<1>11. [g EXCEPT !.queue = RemoveFirst(@, r)] = g
  BY <1>6, <1>10 DEF DeviceState
<1> QED
  BY <1>1, <1>9, <1>11 DEF r

\* A timer that is handled in time belongs to the request that has just become
\* 20 s old: the others in the queue are younger.
LEMMA TimeoutWakeupTended ==
    ASSUME IInv, RedirectOwners = {}, \A q \in dev.timers : aged <= q,
           NEW S \in SUBSET Requests, Tended(dev, S), NEW r \in Requests, TimeoutWakeup(r)
    PROVE  Tended(dev', S)
<1> DEFINE e == TimeoutLocks(dev)
           n == dev.id[r]
           f == TimeoutQueue(e, n)
           T == f.timers \ {r}
<1>1. /\ ReqsOK /\ Sound(dev) /\ dev \in DeviceState /\ aged \in Nat
      /\ r \in dev.timers /\ Old(r) /\ \A q \in dev.timers : r <= q
      /\ dev' = [f EXCEPT !.timers = T]
  BY DEF IInv, Sound, TimeoutWakeup
<1>2. Sound(e) /\ Advances(dev, e) /\ Tended(e, S) /\ (dev.locked = {} => e = dev)
  BY <1>1, TimeoutLocksSound, TimeoutLocksTended
<1>3. Sound(f) /\ f \in DeviceState
  BY <1>1, <1>2, TimeoutQueueSound DEF Sound
<1>4. Tended(f, S)
  <2>1. CASE r \in InQueue(dev)
    <3>1. dev.queue # << >> /\ r = Head(dev.queue) /\ dev.locked = {}
      BY <1>1, <2>1, TimerMeetsHead
    <3> QED
      BY <1>1, <1>2, <3>1, TimeoutQueueTended
  <2>2. CASE r \notin InQueue(dev)
    <3> HIDE DEF e, n
    <3>1. ASSUME NEW q \in InQueue(e), Old(q)
          PROVE  q = r /\ q \in InQueue(dev)
      <4>1. PICK i \in 1 .. Len(e.queue) : e.queue[i] = q
        BY <1>2, InQueueIndex DEF Sound
      <4>2. PICK j \in 1 .. Len(dev.queue) : dev.queue[j] = q
        BY <1>2, <4>1 DEF Advances
      <4>3. q \in dev.timers /\ q \in Nat
        BY <1>1, <4>2, Numbers DEF Sound, QueueSound
      <4> QED
        BY <1>1, <3>1, <4>2, <4>3, InQueueIndex DEF Old, Requests
    <3>2. {q \in InQueue(e) : Old(q) /\ e.id[q] = n} = {}
      BY <2>2, <3>1
    <3>3. f = e
      BY <3>2 DEF TimeoutQueue
    <3> QED
      BY <1>2, <3>3
  <2> QED
    BY <2>1, <2>2
<1> HIDE DEF f
<1>5. Quiet(f, dev')
  BY <1>1, <1>3 DEF Quiet, DeviceState
<1> QED
  BY <1>4, <1>5, QuietTended

\* One more request has come, and is in the queue or answered or not steady.
LEMMA OneMoreTended ==
    ASSUME NEW S \in SUBSET Requests, NEW d, Tended(d, S), NEW r \in Requests,
           ~Steady(r) \/ d.ans[r] # "none"
    PROVE  Tended(d, S \cup {r})
BY DEF Tended

LEMMA ArrivedTended ==
    ASSUME NEW S \in SUBSET Requests, NEW d, Sound(d), Handed(d), Tended(d, S),
           NEW r \in Requests, r = d.arrived + 1,
           NEW k \in AllKinds, NEW g,
           g = d.sender \/ (k \notin SteadyKinds /\ g = [d.sender EXCEPT ![k] = r]),
           NEW st \in Status \cup {"None"}
    PROVE  Tended(Arrived(d, r, g, st), S)
<1> DEFINE a == Arrived(d, r, g, st)
<1>1. /\ a.queue = d.queue /\ a.jobs = d.jobs /\ a.onKill = d.onKill /\ a.ans = d.ans
      /\ a.locked = d.locked /\ a.req = d.req /\ a.sender = g
      /\ a.child = d.child /\ a.sock = d.sock /\ a.stale = d.stale
  BY ArrivedHanded
<1> HIDE DEF a
<1>2. \A l \in SteadyKinds : g[l] = d.sender[l]
  <2>1. d.sender \in [AllKinds -> 0 .. MaxRequests]
    BY DEF Sound, DeviceState
  <2> QED
    BY <2>1 DEF SteadyKinds, AllKinds
<1>3. InQueue(a) = InQueue(d)
  BY <1>1 DEF InQueue
<1>4. Tended(a, S)
  BY <1>1, <1>2, <1>3 DEF Tended, InLock
<1> QED
  BY <1>4 DEF a

LEMMA QueuedTended ==
    ASSUME NEW S \in SUBSET Requests, NEW d, Sound(d), Handed(d), Tended(d, S), ~d.onKill,
           NEW r \in Requests, r = d.arrived + 1
    PROVE  Tended(Queued(d, r), S \cup {r})
<1> DEFINE e == Queued(d, r)
<1>1. /\ e.jobs = d.jobs /\ e.onKill = d.onKill /\ e.ans = d.ans
      /\ e.locked = d.locked /\ e.req = d.req /\ e.sender = d.sender
      /\ e.child = d.child /\ e.sock = d.sock /\ e.stale = d.stale
      /\ InQueue(e) = InQueue(d) \cup {r}
  BY QueuedHanded
<1> HIDE DEF e
<1>2. Tended(e, S \cup {r})
  BY <1>1 DEF Tended, InLock
<1> QED
  BY <1>2 DEF e

LEMMA EnqueueTended ==
    ASSUME ReqsOK, RedirectOwners = {}, NEW S \in SUBSET Requests, NEW d, Sound(d), Handed(d),
           Tended(d, S), ~d.onKill, NEW r \in Requests, r = d.arrived + 1
    PROVE  Tended(Enqueue(d, r), S \cup {r})
<1>1. Sound(Queued(d, r)) /\ Tended(Queued(d, r), S \cup {r})
  BY QueuedHanded, QueuedTended
<1>2. Enqueue(d, r) = Fifo(Queued(d, r))
  BY DEF Enqueue, Queued
<1> QED
  BY <1>1, <1>2, FifoTended

LEMMA AnswerAtOnceTended ==
    ASSUME ReqsOK, RedirectOwners = {}, NEW S \in SUBSET Requests,
           NEW a, Sound(a), Handed(a), Tended(a, S), NEW r \in Requests,
           NEW b, [b EXCEPT !.arrived = r] = a,
           NEW k \in AllKinds, k = Kind(r), NEW st \in Status,
           k \in SteadyKinds => st = (IF k = "Free" THEN "OK_SKIPPED" ELSE "OCCUPIED")
    PROVE  Tended(AnswerAtOnce(b, k, st, r), S \cup {r})
<1> DEFINE e == FifoFirst(a, k)
           p == Poisoned(e, r)
           g == Reply(e, k, st, r)
<1>1. AnswerAtOnce(b, k, st, r) = IF Raises(e, k) THEN p ELSE g
  BY DEF AnswerAtOnce
<1>2. Sound(e) /\ Tended(e, S)
  BY FifoFirstSound, FifoFirstTended
<1> HIDE DEF e
<1>3. e \in DeviceState /\ r \in Clients /\ e.child = "none"
  BY <1>2 DEF Sound, Clients, Requests, Tended
<1>4. Tended(p, S \cup {r})
  <2>1. Replies(e, p, "Reserve", r) /\ p.ans[r] # "none"
    BY <1>3, AnswerReplies DEF Poisoned
  <2> HIDE DEF p
  <2>2. Tended(p, S)
    BY <1>2, <1>3, <2>1, RepliesTended DEF SteadyKinds
  <2> QED
    BY <2>1, <2>2, OneMoreTended
<1>5. ~Raises(e, k) => Tended(g, S \cup {r})
  <2> SUFFICES ASSUME ~Raises(e, k) PROVE Tended(g, S \cup {r})
    OBVIOUS
  <2>1. Replies(e, g, k, r)
    BY <1>3, ReplyReplies
  <2>2. k \in SteadyKinds => g.ans[r] # "none" /\ g.locked = e.locked
    BY <1>3, SteadyReply
  <2> HIDE DEF g
  <2>3. Tended(g, S)
    <3>1. CASE k \in SteadyKinds
      <4>1. \A s : InLock(e, s) /\ Kind(s) = k => k \in g.locked
        BY <2>2, <3>1 DEF InLock
      <4>2. k \in g.locked \/ \A s \in Requests : InLock(e, s) /\ Kind(s) = k =>
                               g.ans[s] # "none" /\ (s \notin e.jobs \/ Old(s))
        BY <4>1
      <4> QED
        BY <1>2, <1>3, <2>1, <4>2, RepliesTended
    <3>2. CASE k \notin SteadyKinds
      BY <1>2, <1>3, <2>1, <3>2, RepliesTended
    <3> QED
      BY <3>1, <3>2
  <2> QED
    BY <2>2, <2>3, OneMoreTended DEF Steady
<1> QED
  BY <1>1, <1>4, <1>5

LEMMA RefuseOnKillTended ==
    ASSUME ReqsOK, RedirectOwners = {}, NEW S \in SUBSET Requests, NEW d, Sound(d), Handed(d),
           Tended(d, S), d.onKill, NEW r \in Requests, r = d.arrived + 1
    PROVE  Tended(RefuseOnKill(d, r), S \cup {r})
<1> DEFINE e == WithId(d, r)
           f == WithId(e, r)
           k == Kind(r)
           p == Poisoned(f, r)
           g == Reply(e, k, "NOT_FOUND", r)
<1>1. /\ r \in Clients /\ k \in AllKinds /\ "NOT_FOUND" \in Status
      /\ \A i \in 1 .. Len(d.queue) : r # d.queue[i]
  <2>1. d \in DeviceState /\ d.arrived \in Nat
    BY Numbers DEF Sound
  <2>2. \A i \in 1 .. Len(d.queue) : d.queue[i] \in Nat /\ d.queue[i] <= d.arrived
    BY <2>1, Numbers DEF Sound, QueueSound
  <2> QED
    BY <2>1, <2>2, KindType DEF Requests, Clients, Status, Failures
<1>2. RefuseOnKill(d, r) = IF Raises(e, k) THEN p ELSE g
  BY DEF RefuseOnKill
<1>3. /\ Sound(e) /\ Handed(e) /\ e.arrived = r /\ e.queue = d.queue
      /\ e.jobs = d.jobs /\ e.onKill = d.onKill /\ e.ans = d.ans
      /\ e.locked = d.locked /\ e.req = d.req /\ e.sender = d.sender
      /\ e.child = d.child /\ e.sock = d.sock /\ e.stale = d.stale
  <2>1. Sound(e) /\ Handed(e) /\ e.arrived = r /\ e.queue = d.queue
    BY <1>1, WithIdHanded
  <2>2. e.jobs = d.jobs /\ e.onKill = d.onKill /\ e.ans = d.ans
    BY <1>1, WithIdHanded, ZenonT(30)
  <2>3. /\ e.locked = d.locked /\ e.req = d.req /\ e.sender = d.sender
        /\ e.child = d.child /\ e.sock = d.sock /\ e.stale = d.stale
    BY <1>1, WithIdHanded
  <2> QED
    BY <2>1, <2>2, <2>3
<1>4. Tended(e, S) /\ e.onKill
  <2> HIDE DEF e
  <2>1. e.onKill
    BY <1>3
  <2> QED
    BY <1>3, <2>1 DEF Tended, InLock, InQueue
<1> HIDE DEF e
<1>5. Sound(f) /\ Tended(f, S) /\ f.onKill
  <2>0. /\ r = e.arrived + 1 \/ r = e.arrived
        /\ \A i \in 1 .. Len(e.queue) : r # e.queue[i]
    BY <1>1, <1>3
  <2>1. Sound(f) /\ f.queue = e.queue /\ f.jobs = e.jobs /\ f.onKill = e.onKill
    BY <1>3, <2>0, WithIdHanded, ZenonT(30)
  <2>2. f.ans = e.ans /\ f.locked = e.locked /\ f.req = e.req
    BY <1>3, <2>0, WithIdHanded
  <2>3. /\ f.sender = e.sender
        /\ f.child = e.child /\ f.sock = e.sock /\ f.stale = e.stale
    BY <1>3, <2>0, WithIdHanded
  <2> HIDE DEF f
  <2> QED
    BY <1>4, <2>1, <2>2, <2>3 DEF Tended, InLock, InQueue
<1> HIDE DEF f, k
<1>6. Tended(p, S \cup {r})
  <2>1. Replies(f, p, "Reserve", r) /\ p.ans[r] # "none"
    BY <1>1, <1>5, AnswerReplies DEF Poisoned, Sound
  <2> HIDE DEF p
  <2>2. Tended(p, S)
    BY <1>5, <2>1, RepliesTended DEF Sound
  <2> QED
    BY <2>1, <2>2, OneMoreTended
<1>7. ~Raises(e, k) => Tended(g, S \cup {r})
  <2> SUFFICES ASSUME ~Raises(e, k) PROVE Tended(g, S \cup {r})
    OBVIOUS
  <2>1. Replies(e, g, k, r)
    BY <1>1, <1>3, ReplyReplies DEF Sound
  <2>2. k \in SteadyKinds => g.ans[r] # "none"
    BY <1>1, <1>3, <1>4, SteadyReply DEF Sound, Tended
  <2> HIDE DEF g
  <2>3. Tended(g, S)
    BY <1>3, <1>4, <2>1, RepliesTended DEF Sound
  <2> QED
    BY <2>2, <2>3, OneMoreTended DEF Steady, k
<1> QED
  BY <1>2, <1>6, <1>7

LEMMA AcceptTended ==
    ASSUME ReqsOK, RedirectOwners = {}, NEW S \in SUBSET Requests, NEW d, Sound(d), Handed(d),
           Tended(d, S), NEW r \in Requests, r = d.arrived + 1
    PROVE  Tended(Accept(d, r), S \cup {r})
BY EnqueueTended, RefuseOnKillTended DEF Accept

LEMMA ReceiveReserveTended ==
    ASSUME IInv, Handed(dev), RedirectOwners = {}, NEW S \in SUBSET Requests, Tended(dev, S),
           NEW r \in Requests, ReceiveReserve(r)
    PROVE  Tended(dev', S \cup {r})
<1> DEFINE st == IF dev.rsv.owner = Owner(r) THEN "OK_UPDATED" ELSE "OCCUPIED"
           g == [dev.sender EXCEPT !["Reserve"] = r]
           a == Arrived(dev, r, g, st)
           b == Arrived(dev, r, dev.sender, dev.ret)
<1>1. /\ ReqsOK /\ Sound(dev) /\ dev \in DeviceState
      /\ r = dev.arrived + 1 /\ r \in Clients /\ ~Steady(r)
      /\ "Reserve" \in AllKinds /\ "Reserve" \notin SteadyKinds
      /\ dev.ret \in Status \cup {"None"} /\ "NOT_FOUND" \in Status
  <2>1. /\ ReqsOK /\ Sound(dev) /\ dev \in DeviceState /\ r \in Clients
        /\ r = dev.arrived + 1 /\ Kind(r) = "Reserve"
    BY DEF IInv, Sound, ReceiveReserve, Arrives, Clients, Requests
  <2>2. dev.ret \in Status \cup {"None"}
    BY <2>1 DEF DeviceState
  <2> QED
    BY <2>1, <2>2 DEF AllKinds, SteadyKinds, Steady, Status, Failures
<1>2. CASE Reserved(dev)
  <2>1. dev' = SendReservationStatus(a, r)
    <3>1. a = [dev EXCEPT !.arrived = r, !.sender["Reserve"] = r,
                          !.ret = IF dev.rsv.owner = Owner(r) THEN "OK_UPDATED" ELSE "OCCUPIED"]
      BY <1>1 DEF DeviceState, Arrived
    <3> QED
      BY <1>2, <3>1 DEF ReceiveReserve
  <2>2. st \in Status \cup {"None"}
    BY DEF Status, Successes
  <2> HIDE DEF st
  <2>3. Sound(a) /\ Tended(a, S)
    BY <1>1, <2>2, ArrivedHanded, ArrivedTended
  <2> HIDE DEF a
  <2>4. Replies(a, dev', "Reserve", r)
    BY <1>1, <2>1, <2>3, SendReservationStatusReplies DEF Sound
  <2>5. Tended(dev', S)
    BY <1>1, <2>3, <2>4, RepliesTended DEF Sound
  <2> QED
    BY <1>1, <2>5, OneMoreTended
<1>3. CASE ~Reserved(dev) /\ dev.onKill
  <2>1. dev' = ReserveReply(b, "NOT_FOUND", r)
    <3>1. b = [dev EXCEPT !.arrived = r]
      BY <1>1 DEF DeviceState, Arrived
    <3> QED
      BY <1>3, <3>1 DEF ReceiveReserve
  <2>2. Sound(b) /\ Tended(b, S)
    <3>1. Sound(b)
      BY <1>1, ArrivedHanded
    <3>2. Tended(b, S)
      BY <1>1, ArrivedTended
    <3> QED
      BY <3>1, <3>2
  <2> HIDE DEF b
  <2>3. Replies(b, dev', "Reserve", r)
    BY <1>1, <2>1, <2>2, ReserveReplyReplies DEF Sound
  <2>4. Tended(dev', S)
    BY <1>1, <2>2, <2>3, RepliesTended DEF Sound
  <2> QED
    BY <1>1, <2>4, OneMoreTended
<1>4. CASE ~Reserved(dev) /\ ~dev.onKill
  BY <1>1, <1>4, EnqueueTended DEF ReceiveReserve
<1> QED
  BY <1>2, <1>3, <1>4

LEMMA ReceiveOtherTended ==
    ASSUME IInv, Handed(dev), RedirectOwners = {}, NEW S \in SUBSET Requests, Tended(dev, S),
           NEW r \in Requests,
           \/ ReceiveFree(r)
           \/ ReceiveGetRecentValue(r)
           \/ ReceiveGetDeviceStatus(r)
           \/ ReceiveStartMonitoring(r)
           \/ ReceiveStopMonitoring(r)
           \/ ReceiveSetRtc(r)
    PROVE  Tended(dev', S \cup {r})
<1>1. /\ ReqsOK /\ Sound(dev) /\ dev \in DeviceState /\ r = dev.arrived + 1
      /\ dev.ret \in Status \cup {"None"}
      /\ {"OK_SKIPPED", "OCCUPIED"} \subseteq Status
      /\ {"Free", "GetRecentValue", "GetDeviceStatus", "StartMonitoring", "StopMonitoring"}
            \subseteq AllKinds
  BY DEF IInv, Sound, ReceiveFree, ReceiveGetRecentValue, ReceiveGetDeviceStatus,
         ReceiveStartMonitoring, ReceiveStopMonitoring, ReceiveSetRtc, Arrives, DeviceState,
         Status, Successes, AllKinds
<1>2. Tended(Accept(dev, r), S \cup {r})
  BY <1>1, AcceptTended
<1>3. ASSUME NEW k \in {"GetDeviceStatus", "StartMonitoring"}, Kind(r) = k
      PROVE  Tended(AnswerAtOnce([dev EXCEPT !.sender[k] = r], k, "OCCUPIED", r), S \cup {r})
  <2> DEFINE g == [dev.sender EXCEPT ![k] = r]
             a == Arrived(dev, r, g, dev.ret)
             b == [dev EXCEPT !.sender[k] = r]
  <2>1. [b EXCEPT !.arrived = r] = a
    BY <1>1 DEF DeviceState, Arrived
  <2>2. k \in AllKinds /\ k \notin SteadyKinds
    BY <1>1 DEF SteadyKinds
  <2> HIDE DEF b, g
  <2>3. g = [dev.sender EXCEPT ![k] = r]
    BY DEF g
  <2>4. Sound(a) /\ Handed(a)
    BY <1>1, <2>2, <2>3, ArrivedHanded
  <2>5. Tended(a, S)
    BY <1>1, <2>2, <2>3, ArrivedTended
  <2> HIDE DEF a
  <2>6. Tended(AnswerAtOnce(b, k, "OCCUPIED", r), S \cup {r})
    BY <1>1, <1>3, <2>1, <2>2, <2>4, <2>5, AnswerAtOnceTended
  <2> QED
    BY <2>6 DEF b
<1>4. ASSUME NEW k \in {"GetRecentValue", "StopMonitoring"}, Kind(r) = k,
             NEW st \in Status, k = "GetRecentValue" => st = "OCCUPIED"
      PROVE  Tended(AnswerAtOnce(dev, k, st, r), S \cup {r})
  <2> DEFINE a == Arrived(dev, r, dev.sender, dev.ret)
  <2>1. [dev EXCEPT !.arrived = r] = a
    BY <1>1 DEF DeviceState, Arrived
  <2>2. Sound(a) /\ Handed(a)
    BY <1>1, ArrivedHanded
  <2>3. Tended(a, S)
    BY <1>1, ArrivedTended
  <2> HIDE DEF a
  <2>4. k \in AllKinds /\ (k \in SteadyKinds => st = (IF k = "Free" THEN "OK_SKIPPED" ELSE "OCCUPIED"))
    BY <1>1, <1>4 DEF SteadyKinds
  <2> QED
    BY <1>1, <1>4, <2>1, <2>2, <2>3, <2>4, AnswerAtOnceTended
<1>5. ASSUME Kind(r) = "Free"
      PROVE  Tended(AnswerAtOnce([dev EXCEPT !.ret = "OK_SKIPPED"], "Free", "OK_SKIPPED", r),
                    S \cup {r})
  <2> DEFINE a == Arrived(dev, r, dev.sender, "OK_SKIPPED")
             b == [dev EXCEPT !.ret = "OK_SKIPPED"]
  <2>1. [b EXCEPT !.arrived = r] = a
    BY <1>1 DEF DeviceState, Arrived
  <2>2. Sound(a) /\ Handed(a) /\ Tended(a, S)
    <3>1. Sound(a) /\ Handed(a)
      BY <1>1, ArrivedHanded
    <3>2. Tended(a, S)
      BY <1>1, ArrivedTended
    <3> QED
      BY <3>1, <3>2
  <2> HIDE DEF a, b
  <2>3. Tended(AnswerAtOnce(b, "Free", "OK_SKIPPED", r), S \cup {r})
    BY <1>1, <1>5, <2>1, <2>2, AnswerAtOnceTended
  <2> QED
    BY <2>3 DEF b
<1> QED
  BY <1>1, <1>2, <1>3, <1>4, <1>5
     DEF ReceiveFree, ReceiveGetRecentValue, ReceiveGetDeviceStatus,
         ReceiveStartMonitoring, ReceiveStopMonitoring, ReceiveSetRtc, Arrives

\* The timers are handled in time: requests older than all pending timers only
\* have turned 20 s old.
Punctual == aged <= dev.arrived /\ \A q \in dev.timers : aged <= q

Attentive ==
    /\ IInv
    /\ Handed(dev)
    /\ Tended(dev, 1 .. dev.arrived)
    /\ Punctual

LEMMA InitAttentive ==
    ASSUME Init
    PROVE  Attentive
<1>1. IInv /\ Handed(dev)
  BY InitSound, InitHanded
<1>2. /\ aged = 0 /\ dev.arrived = 0 /\ dev.timers = {} /\ dev.jobs = {}
      /\ dev.child = "none" /\ dev.sock = "none" /\ dev.stale = 0
      /\ dev.sender = dev.req
  BY DEF Init
<1>3. Tended(dev, 1 .. dev.arrived)
  BY <1>2 DEF Tended
<1> QED
  BY <1>1, <1>2, <1>3 DEF Attentive, Punctual

LEMMA SameTimeTended ==
    ASSUME Tended(dev', 1 .. dev'.arrived), UNCHANGED <<reqs, aged>>
    PROVE  Tended(dev, 1 .. dev.arrived)'
BY DEF Tended, Steady, Kind, Old, InLock

\* A request comes.
LEMMA ReceiveAttentive ==
    ASSUME RedirectOwners = {}, Attentive, NEW r \in Requests, Receive(r)
    PROVE  (Tended(dev, 1 .. dev.arrived) /\ Punctual)'
<1> DEFINE S == 1 .. dev.arrived
<1>1. /\ IInv /\ Handed(dev) /\ Tended(dev, S) /\ dev.arrived \in Nat /\ S \subseteq Requests
      /\ aged \in Nat /\ r = dev.arrived + 1 /\ UNCHANGED <<reqs, aged>>
  <2>1. dev.arrived \in 0 .. MaxRequests /\ aged \in 0 .. MaxRequests
    BY DEF Attentive, IInv, Sound, DeviceState
  <2>2. r = dev.arrived + 1 /\ UNCHANGED <<reqs, aged>>
    BY DEF Receive, ReceiveReserve, ReceiveFree, ReceiveGetRecentValue, ReceiveGetDeviceStatus,
           ReceiveStartMonitoring, ReceiveStopMonitoring, ReceiveSetRtc, Arrives
  <2> QED
    BY <2>1, <2>2, DeviceActorAssumption DEF Attentive, Requests
<1>2. Comes(dev, dev', r) /\ Tended(dev', S \cup {r})
  BY <1>1, ReceiveReserveHanded, ReceiveOtherHanded, ReceiveReserveTended, ReceiveOtherTended
     DEF Receive
<1>3. dev'.arrived = r /\ S \cup {r} = 1 .. r
  BY <1>1, <1>2 DEF Comes
<1>4. Tended(dev, 1 .. dev.arrived)'
  BY <1>1, <1>2, <1>3, SameTimeTended
<1>5. Punctual'
  BY <1>1, <1>2, <1>3 DEF Attentive, Punctual, Comes
<1> QED
  BY <1>4, <1>5

\* Nobody comes and no time passes.
LEMMA WorkAttentive ==
    ASSUME RedirectOwners = {}, LateReplies = FALSE, Attentive,
           \/ \E r \in Requests : \/ \E st \in Outcomes : BackendReply(r, st)
                                  \/ LoseReply(r)
                                  \/ RetryWakeup(r)
                                  \/ TimeoutWakeup(r)
           \/ \E o \in Owners, a \in BOOLEAN : SetDeviceStatus(o, a)
           \/ Kill
           \/ ActorExit
    PROVE  (Tended(dev, 1 .. dev.arrived) /\ Punctual)'
<1> DEFINE S == 1 .. dev.arrived
<1>1. /\ IInv /\ Handed(dev) /\ Tended(dev, S) /\ S \subseteq Requests
      /\ ReqsOK /\ Sound(dev) /\ dev \in DeviceState /\ Punctual
      /\ UNCHANGED <<reqs, aged>>
  <2>1. dev.arrived \in 0 .. MaxRequests
    BY DEF Attentive, IInv, Sound, DeviceState
  <2>2. UNCHANGED <<reqs, aged>>
    BY DEF BackendReply, LoseReply, RetryWakeup, TimeoutWakeup, SetDeviceStatus, Kill, ActorExit
  <2> QED
    BY <2>1, <2>2, DeviceActorAssumption DEF Attentive, Requests, IInv, Sound
<1> HIDE DEF S
<1>2. NobodyComes(dev, dev')
  BY <1>1, BackendHanded, TimeoutWakeupHanded, StatusAndEndHanded
<1>3. Tended(dev', S)
  <2>1. ASSUME NEW r \in Requests, NEW st \in Outcomes, BackendReply(r, st)
        PROVE  Tended(dev', S)
    <3> DEFINE e == [dev EXCEPT !.jobs = @ \ {r}]
    <3>1. /\ r \in dev.jobs /\ ~Old(r) /\ st \in Status
          /\ dev' = HandleReply(e, Kind(r), st, dev.sender[Kind(r)])
      BY <2>1 DEF BackendReply, Outcomes, Status, Successes, Failures
    <3>2. e.sender = dev.sender
      BY <1>1, JobTakenQuiet DEF Quiet
    <3> QED
      BY <1>1, <3>1, <3>2, BackendReplyTended
  <2>2. ASSUME NEW r \in Requests, LoseReply(r)
      PROVE  Tended(dev', S)
    BY <1>1, <2>2, JobTakenQuiet, QuietTended DEF LoseReply
  <2>3. ASSUME NEW r \in Requests, RetryWakeup(r)
      PROVE  Tended(dev', S)
    <3> DEFINE f == [dev EXCEPT !.retries = @ \ {r}]
    <3>1. dev' = Worker(f, r) /\ r \in dev.retries
      BY <2>3 DEF RetryWakeup
    <3>2. Sound(f) /\ Quiet(dev, f) /\ (r \in InQueue(f) => r = Head(f.queue))
      BY <1>1, <3>1, RetryTakenQuiet
    <3> HIDE DEF f
    <3>3. Tended(f, S)
      BY <1>1, <3>2, QuietTended
    <3> QED
      BY <1>1, <3>1, <3>2, <3>3, WorkerTended
  <2>4. ASSUME NEW r \in Requests, TimeoutWakeup(r)
      PROVE  Tended(dev', S)
    BY <1>1, <2>4, TimeoutWakeupTended DEF Punctual
  <2>5. ASSUME NEW o \in Owners, NEW a \in BOOLEAN, SetDeviceStatus(o, a)
        PROVE  Tended(dev', S)
    <3>1. PICK v \in Reservation : dev' = [dev EXCEPT !.rsv = v]
      BY <1>1, <2>5 DEF SetDeviceStatus, DeviceState, Reservation
    <3>2. /\ dev'.queue = dev.queue /\ dev'.jobs = dev.jobs /\ dev'.onKill = dev.onKill
          /\ dev'.ans = dev.ans /\ dev'.locked = dev.locked /\ dev'.req = dev.req
          /\ dev'.sender = dev.sender /\ dev'.child = dev.child /\ dev'.sock = dev.sock
          /\ dev'.stale = dev.stale
      BY <1>1, <3>1 DEF DeviceState
    <3> QED
      BY <1>1, <3>2 DEF Tended, InLock, InQueue
  <2>6. CASE Kill
    BY <1>1, <2>6, KillMyselfTended DEF Kill
  <2>7. CASE ActorExit
    <3>1. Quiet(dev, dev')
      BY <1>1, <2>7 DEF ActorExit, Quiet, DeviceState
    <3> QED
      BY <1>1, <3>1, QuietTended
  <2> QED
    BY <2>1, <2>2, <2>3, <2>4, <2>5, <2>6, <2>7
<1>4. Tended(dev, 1 .. dev.arrived)'
  BY <1>1, <1>2, <1>3, SameTimeTended DEF NobodyComes, S
<1>5. Punctual'
  BY <1>1, <1>2 DEF Punctual, NobodyComes
<1> QED
  BY <1>4, <1>5

LEMMA TickAttentive ==
    ASSUME LateTimers = FALSE, Attentive, Tick
    PROVE  (Tended(dev, 1 .. dev.arrived) /\ Punctual)'
<1>1. /\ aged' = aged + 1 /\ UNCHANGED <<reqs, dev>> /\ aged < dev.arrived
      /\ \A q \in dev.timers : q \in Nat /\ aged < q
      /\ aged \in Nat /\ dev.arrived \in Nat
      /\ \A j \in dev.jobs : j \in Nat
  <2>1. dev \in DeviceState /\ aged \in Nat
    BY DEF Attentive, IInv, Sound
  <2>2. dev.timers \subseteq Requests /\ dev.jobs \subseteq Requests /\ dev.arrived \in Nat
    BY <2>1 DEF DeviceState
  <2> QED
    BY <2>1, <2>2 DEF Tick, Old, Requests
<1>2. Punctual'
  BY <1>1 DEF Punctual
<1>3. \A j \in dev.jobs : j <= aged => j <= aged + 1
  BY <1>1
<1>4. Tended(dev, 1 .. dev.arrived)
  BY DEF Attentive
<1>5. Tended(dev, 1 .. dev.arrived)'
  BY <1>1, <1>3, <1>4 DEF Tended, Steady, Kind, Old, InLock
<1> QED
  BY <1>2, <1>5

LEMMA NextAttentive ==
    ASSUME RedirectOwners = {}, LateReplies = FALSE, LateTimers = FALSE, Attentive, [Next]_vars
    PROVE  Attentive'
<1>1. IInv' /\ Handed(dev)'
  BY StepSound, NextHanded DEF Attentive, StepHanded
<1>2. (Tended(dev, 1 .. dev.arrived) /\ Punctual)'
  <2>1. CASE \E r \in Requests : Receive(r)
    BY <2>1, ReceiveAttentive
  <2>2. CASE \E r \in Requests : \/ \E st \in Outcomes : BackendReply(r, st)
                                \/ LoseReply(r)
                                \/ RetryWakeup(r)
                                \/ TimeoutWakeup(r)
    BY <2>2, WorkAttentive
  <2>3. CASE \/ \E o \in Owners, a \in BOOLEAN : SetDeviceStatus(o, a)
             \/ Kill
             \/ ActorExit
    BY <2>3, WorkAttentive
  <2>4. CASE Tick
    BY <2>4, TickAttentive
  <2>5. CASE Redirector
    <3>1. dev.child = "none" /\ dev.sock = "none" /\ dev.stale = 0
      BY DEF Attentive, Tended
    <3> QED
      BY <2>5, <3>1 DEF Redirector, RedirectorSetup, RedirectorKilled, SocketClosed,
                        ReceiveSocketMsg, ReceiveChildActorExited, ReceiveChildActorExitedAgain
  <2>6. CASE UNCHANGED vars
    <3>1. Tended(dev, 1 .. dev.arrived) /\ UNCHANGED <<reqs, aged, dev>>
      BY <2>6 DEF Attentive, vars
    <3>2. Tended(dev, 1 .. dev.arrived)'
      BY <3>1 DEF Tended, Steady, Kind, Old, InLock
    <3> QED
      BY <3>1, <3>2 DEF Attentive, Punctual
  <2> QED
    BY <2>1, <2>2, <2>3, <2>4, <2>5, <2>6 DEF Next
<1> QED
  BY <1>1, <1>2 DEF Attentive

\* The invariant of a device actor whose reservations need no redirector, whose
\* backend answers in time or not at all, and whose timers are handled in time.
THEOREM AttentiveAlways ==
    ASSUME RedirectOwners = {}, LateReplies = FALSE, LateTimers = FALSE
    PROVE  Spec => []Attentive
<1>1. Init => Attentive
  BY InitAttentive
<1>2. Attentive /\ [Next]_vars => Attentive'
  BY NextAttentive
<1> QED
  BY <1>1, <1>2, PTL DEF Spec

LEMMA AttentivePlaces == Attentive => SteadyQueueOrLock
<1> SUFFICES ASSUME Attentive, NEW r \in Requests, Waiting(r), Steady(r)
             PROVE  Placed(r)
  BY DEF SteadyQueueOrLock
<1>1. /\ Tended(dev, 1 .. dev.arrived) /\ Sound(dev) /\ dev \in DeviceState
      /\ r \in 1 .. dev.arrived /\ dev.ans[r] = "none"
  <2>1. Tended(dev, 1 .. dev.arrived) /\ Sound(dev) /\ dev \in DeviceState
    BY DEF Attentive, IInv, Sound
  <2> QED
    BY <2>1, Numbers DEF Waiting, Requests
<1>2. r \in InQueue(dev) \/ InLock(dev, r)
  BY <1>1 DEF Tended
<1>3. ASSUME NEW k \in dev.locked, r \in InQueue(dev)
      PROVE  dev.req[k] # r
  <2>1. PICK i \in 1 .. Len(dev.queue) : dev.queue[i] = r
    BY <1>1, <1>3, InQueueIndex
  <2>2. k \in AllKinds
    BY <1>1 DEF DeviceState
  <2>3. dev.req[k] < r /\ dev.req[k] \in Nat
    BY <1>1, <2>1, <2>2, Numbers DEF Sound, LocksSound
  <2> QED
    BY <2>3 DEF Requests
<1>4. InLock(dev, r) => dev.sender[Kind(r)] = r
  BY <1>1 DEF InLock, Tended, Steady
<1> QED
  BY <1>2, <1>3, <1>4 DEF Placed, InLock

\* No client of these kinds is forgotten: as long as it waits, its request is in
\* the queue or in the lock, and the lock knows whom to answer.
THEOREM NobodyForgotten ==
    ASSUME RedirectOwners = {}, LateReplies = FALSE, LateTimers = FALSE
    PROVE  Spec => []SteadyQueueOrLock
BY AttentiveAlways, AttentivePlaces, PTL

LEMMA AttentiveTellsAll == Attentive => KillAnswersEverybody
<1> SUFFICES ASSUME Attentive, dev.onKill, NEW r \in Requests, Waiting(r)
             PROVE  ~Steady(r)
  BY DEF KillAnswersEverybody
<1>1. /\ Tended(dev, 1 .. dev.arrived) /\ r \in 1 .. dev.arrived /\ dev.ans[r] = "none"
  <2>1. Tended(dev, 1 .. dev.arrived) /\ dev \in DeviceState
    BY DEF Attentive, IInv, Sound
  <2> QED
    BY <2>1, Numbers DEF Waiting, Requests
<1> QED
  BY <1>1 DEF Tended

\* A device that is being killed leaves no client of these kinds without answer.
THEOREM NobodyLeftOnKill ==
    ASSUME RedirectOwners = {}, LateReplies = FALSE, LateTimers = FALSE
    PROVE  Spec => []KillAnswersEverybody
BY AttentiveAlways, AttentiveTellsAll, PTL

(***************************************************************************)
(* The lease.  A device actor implements the abstract lease of its           *)
(* reservation, for every number of requests and every set of owners, when   *)
(* reservations need no redirector, nobody else changes them, the backend    *)
(* answers within 20 s or not at all, and nobody renews a reservation while  *)
(* another request to reserve is being served.                               *)
(***************************************************************************)

(* What a step does to the reservation and to the clients that ask for it. *)

Asks(r) == Kind(r) = "Reserve"

Failed == Status \ (Successes \cup {"OCCUPIED"})

\* Some clients in R that ask for the reservation are told that this failed.
OnlyFails(d, e, R) ==
    \A r \in R : Asks(r) => \/ e.ans[r] = d.ans[r]
                            \/ d.ans[r] = "none" /\ e.ans[r] \in Failed

Meanwhile(d, e) ==
    /\ e.rsv = d.rsv
    /\ d.msg \in Requests => e.msg \in Requests
    /\ OnlyFails(d, e, Requests)

\* The reservation is given back, or is taken, or stays, and nobody is told that
\* it has the reservation.
Returns(d, e) ==
    /\ OnlyFails(d, e, Requests)
    /\ \/ e.rsv = d.rsv
       \/ ~Reserved(e)
       \/ e.rsv.owner \in Owners /\ (Reserved(d) => d.rsv.owner = e.rsv.owner)

Grants(d, e, c) ==
    /\ Asks(c)
    /\ d.ans[c] = "none"
    /\ e.ans[c] \in Successes
    /\ Reserved(e) /\ e.rsv.owner = Owner(c)
    /\ Reserved(d) => d.rsv.owner = Owner(c)
    /\ OnlyFails(d, e, Requests \ {c})

Refuses(d, e, c) ==
    /\ Asks(c)
    /\ d.ans[c] = "none"
    /\ e.ans[c] = "OCCUPIED"
    /\ e.rsv = d.rsv
    /\ Reserved(d) /\ d.rsv.owner \notin {NoOwner, Owner(c)}
    /\ \A r \in Requests \ {c} : Asks(r) => e.ans[r] = d.ans[r]

LeaseStep(d, e) ==
    \/ Returns(d, e)
    \/ \E c \in Requests : Grants(d, e, c) \/ Refuses(d, e, c)

\* The state functions that the lease is seen through.
Lessee(d) == IF Reserved(d) THEN d.rsv.owner ELSE NoOwner

Told(a) == CASE a = "none" -> "none"
             [] a \in Successes -> "granted"
             [] a = "OCCUPIED" -> "refused"
             [] OTHER -> "failed"

Verdict(d, r) == IF Asks(r) THEN Told(d.ans[r]) ELSE "none"

LEMMA ToldValues ==
    /\ Told("none") = "none"
    /\ Told("OCCUPIED") = "refused"
    /\ \A a \in Successes : Told(a) = "granted"
    /\ \A a \in Failed : Told(a) = "failed"
BY DEF Told, Successes, Failures, Status, Failed

LEMMA LeaseInits ==
    ASSUME Init
    PROVE  Lease!LeaseInit
<1>1. /\ ReqsOK
      /\ \A r \in Requests : dev.ans[r] = "none"
      /\ ~Reserved(dev)
  BY DEF Init, ReqsOK, Reserved, NoReservation
<1>2. \A r \in Requests : Owner(r) \in Owners \cup {NoOwner}
  BY <1>1, OwnerType DEF Clients, Requests
<1>3. [r \in Requests |-> Owner(r)] \in [Requests -> Owners \cup {NoOwner}]
  BY <1>2
<1>4. [r \in Requests |-> IF Kind(r) # "Reserve" THEN "none"
                          ELSE CASE dev.ans[r] = "none" -> "none"
                                 [] dev.ans[r] \in Successes -> "granted"
                                 [] dev.ans[r] = "OCCUPIED" -> "refused"
                                 [] OTHER -> "failed"] = [r \in Requests |-> "none"]
  BY <1>1 DEF Successes
<1> QED
  BY <1>1, <1>3, <1>4 DEF Lease!LeaseInit

LEMMA OwnerOfAsks ==
    ASSUME ReqsOK, NEW r \in Requests, Asks(r)
    PROVE  Owner(r) \in Owners
<1>1. reqs[r] \in Demands /\ reqs[r].kind = "Reserve" /\ r # NoReq
  BY DEF ReqsOK, Asks, Kind, Requests, NoReq
<1>2. reqs[r].owner \in Owners
  BY <1>1 DEF Demands
<1> QED
  BY <1>1, <1>2 DEF Owner

\* Claims that are not told anything keep their verdict, the others failed.
LEMMA FailsTell ==
    ASSUME NEW d \in DeviceState, NEW e \in DeviceState, NEW R \in SUBSET Requests,
           OnlyFails(d, e, R)
    PROVE  \E F \in SUBSET {r \in R : Verdict(d, r) = "none"} :
              \A r \in R : Verdict(e, r) = IF r \in F THEN "failed" ELSE Verdict(d, r)
<1> DEFINE F == {r \in R : Asks(r) /\ d.ans[r] = "none" /\ e.ans[r] # "none"}
<1>1. \A r \in F : Verdict(d, r) = "none" /\ Verdict(e, r) = "failed"
  BY ToldValues DEF Verdict, OnlyFails
<1>2. \A r \in R \ F : Verdict(e, r) = Verdict(d, r)
  BY DEF Verdict, OnlyFails, Failed, Status, Successes, Failures
<1>3. F \in SUBSET {r \in R : Verdict(d, r) = "none"}
  BY <1>1
<1> HIDE DEF F
<1> QED
  BY <1>1, <1>2, <1>3

\* A step of these forms is a step of the lease.
LEMMA LeaseStepRefines ==
    ASSUME ReqsOK, dev \in DeviceState, dev' \in DeviceState, UNCHANGED reqs,
           LeaseStep(dev, dev')
    PROVE  Lease!LeaseNext
<1> DEFINE claimant == [r \in Requests |-> Owner(r)]
           V == [r \in Requests |-> Verdict(dev, r)]
           W == [r \in Requests |-> Verdict(dev', r)]
<1>1. /\ claimant' = claimant
      /\ \A r \in Requests : claimant[r] = Owner(r)
  BY DEF Owner
<1>2. V = [r \in Requests |-> IF Kind(r) # "Reserve" THEN "none"
                              ELSE CASE dev.ans[r] = "none" -> "none"
                                     [] dev.ans[r] \in Successes -> "granted"
                                     [] dev.ans[r] = "OCCUPIED" -> "refused"
                                     [] OTHER -> "failed"]
  BY DEF Verdict, Asks, Told
<1>3. W = [r \in Requests |-> IF Kind(r) # "Reserve" THEN "none"
                              ELSE CASE dev.ans[r] = "none" -> "none"
                                     [] dev.ans[r] \in Successes -> "granted"
                                     [] dev.ans[r] = "OCCUPIED" -> "refused"
                                     [] OTHER -> "failed"]'
  BY DEF Verdict, Asks, Told, Kind
<1>4. Lessee(dev') = (IF Reserved(dev) THEN dev.rsv.owner ELSE NoOwner)'
  BY DEF Lessee, Reserved
<1>5. \A r \in Requests : V[r] = Verdict(dev, r) /\ W[r] = Verdict(dev', r)
  OBVIOUS
<1>6. CASE Returns(dev, dev')
  <2>1. PICK F \in SUBSET {r \in Requests : Verdict(dev, r) = "none"} :
               \A r \in Requests : Verdict(dev', r) = IF r \in F THEN "failed" ELSE Verdict(dev, r)
    BY <1>6, FailsTell DEF Returns
  <2>2. W = [r \in Requests |-> IF r \in {} THEN "none"
                                ELSE IF r \in F THEN "failed" ELSE V[r]]
    BY <1>5, <2>1
  <2>3. F \in SUBSET {r \in Requests : V[r] = "none"}
    BY <1>5, <2>1
  <2>4. \/ Lessee(dev') = Lessee(dev)
        \/ Lessee(dev') = NoOwner
        \/ \E o \in Owners : Lessee(dev) \in {NoOwner, o} /\ Lessee(dev') = o
    BY <1>6 DEF Returns, Lessee, Reserved
  <2>5. Lease!Tell({}, "none", F)
    BY <1>2, <1>3, <2>2 DEF Lease!Tell
  <2>6. F \in SUBSET Lease!Undecided
    BY <1>2, <2>3 DEF Lease!Undecided
  <2>7. Lease!GiveBackTakeOrKeep
    BY <1>4, <2>4, <2>5, <2>6 DEF Lease!GiveBackTakeOrKeep, Lease!OpenTo, Lessee
  <2> QED
    BY <1>1, <2>7 DEF Lease!LeaseNext
<1>7. ASSUME NEW c \in Requests, Grants(dev, dev', c)
      PROVE  Lease!LeaseNext
  <2>1. PICK F \in SUBSET {r \in Requests \ {c} : Verdict(dev, r) = "none"} :
               \A r \in Requests \ {c} :
                  Verdict(dev', r) = IF r \in F THEN "failed" ELSE Verdict(dev, r)
    BY <1>7, FailsTell DEF Grants
  <2>2. Verdict(dev, c) = "none" /\ Verdict(dev', c) = "granted"
    BY <1>7, ToldValues DEF Grants, Verdict
  <2>3. W = [r \in Requests |-> IF r \in {c} THEN "granted"
                                ELSE IF r \in F THEN "failed" ELSE V[r]]
    BY <1>5, <2>1, <2>2
  <2>4. F \in SUBSET {r \in Requests \ {c} : V[r] = "none"}
    BY <1>5, <2>1
  <2>5. Lease!Tell({c}, "granted", F)
    BY <1>2, <1>3, <2>3 DEF Lease!Tell
  <2>6. c \in Lease!Undecided /\ F \in SUBSET (Lease!Undecided \ {c})
    <3>1. c \in {r \in Requests : V[r] = "none"}
          /\ F \in SUBSET ({r \in Requests : V[r] = "none"} \ {c})
      BY <1>5, <2>2, <2>4
    <3> HIDE DEF V
    <3> QED
      BY <1>2, <3>1 DEF Lease!Undecided
  <2>7. /\ Owner(c) \in Owners
        /\ Lessee(dev') = Owner(c)
        /\ Lessee(dev) \in {NoOwner, Owner(c)}
    <3>1. Owner(c) \in Owners
      BY <1>7, OwnerOfAsks DEF Grants
    <3> QED
      BY <1>7, <3>1 DEF Grants, Lessee, Reserved
  <2>8. Lease!Grant(c)
    BY <1>1, <1>4, <2>5, <2>6, <2>7 DEF Lease!Grant, Lease!OpenTo, Lessee
  <2> QED
    BY <1>1, <2>6, <2>8 DEF Lease!LeaseNext
<1>8. ASSUME NEW c \in Requests, Refuses(dev, dev', c)
      PROVE  Lease!LeaseNext
  <2>1. Verdict(dev, c) = "none" /\ Verdict(dev', c) = "refused"
    BY <1>8, ToldValues DEF Refuses, Verdict
  <2>2. \A r \in Requests \ {c} : Verdict(dev', r) = Verdict(dev, r)
    BY <1>8 DEF Refuses, Verdict
  <2>3. W = [r \in Requests |-> IF r \in {c} THEN "refused"
                                ELSE IF r \in {} THEN "failed" ELSE V[r]]
    BY <1>5, <2>1, <2>2
  <2>4. Lease!Tell({c}, "refused", {})
    BY <1>2, <1>3, <2>3 DEF Lease!Tell
  <2>5. c \in Lease!Undecided
    <3>1. c \in {r \in Requests : V[r] = "none"}
      BY <1>5, <2>1
    <3> HIDE DEF V
    <3> QED
      BY <1>2, <3>1 DEF Lease!Undecided
  <2>6. /\ Lessee(dev') = Lessee(dev)
        /\ Lessee(dev) \notin {NoOwner, Owner(c)}
    BY <1>8 DEF Refuses, Lessee, Reserved
  <2>7. Lease!Refuse(c)
    BY <1>1, <1>4, <2>4, <2>6 DEF Lease!Refuse, Lease!OpenTo, Lessee
  <2> QED
    BY <1>1, <2>5, <2>7 DEF Lease!LeaseNext
<1> QED
  BY <1>6, <1>7, <1>8 DEF LeaseStep

-----------------------------------------------------------------------------
(* The invariant: the request to reserve that the backend works on is the one *)
(* that holds the lock and the one that reserve_device_msg names, and nobody  *)
(* else will be told the answer.                                              *)

Claimed(d) == {j \in d.jobs : Asks(j) /\ ~Old(j)}

\* Who would be told is j, or has been answered before.
Serves(d, j) ==
    /\ d.msg \in Requests
    /\ d.onKill \/ (InLock(d, j) /\ d.msg = j)
    /\ LET s == d.sender["Reserve"]
       IN  s \in Requests /\ d.ans[s] = "none" => s = j /\ ~d.onKill

Leased(d) ==
    /\ d.child = "none" /\ d.sock = "none" /\ d.stale = 0
    /\ Reserved(d) => d.rsv.owner \in Owners
    /\ \A k \in AllKinds : d.sender[k] \in Requests => Kind(d.sender[k]) = k
    /\ d.msg \in Requests => Asks(d.msg)
    /\ d.onKill => \A i \in 1 .. Len(d.queue) : d.ans[d.queue[i]] # "none"
    /\ \A j \in Claimed(d) : Serves(d, j)

LEMMA MeanwhileReflexive ==
    ASSUME NEW d
    PROVE  Meanwhile(d, d)
BY DEF Meanwhile, OnlyFails

LEMMA NotFailed == "none" \notin Failed /\ Successes \cap Failed = {} /\ "OCCUPIED" \notin Failed
BY DEF Failed, Status, Successes, Failures

LEMMA MeanwhileTransitive ==
    ASSUME NEW d, NEW e, NEW f, Meanwhile(d, e), Meanwhile(e, f)
    PROVE  Meanwhile(d, f)
BY NotFailed DEF Meanwhile, OnlyFails

\* What comes first changes nothing about a grant.
LEMMA MeanwhileThen ==
    ASSUME NEW d, NEW e, NEW f, Meanwhile(d, e)
    PROVE  /\ Returns(e, f) => Returns(d, f)
           /\ \A c \in Requests : Grants(e, f, c) => Grants(d, f, c)
<1>1. ASSUME NEW R \in SUBSET Requests, OnlyFails(e, f, R)
      PROVE  OnlyFails(d, f, R)
  BY <1>1, NotFailed DEF Meanwhile, OnlyFails
<1>2. Reserved(d) = Reserved(e) /\ d.rsv = e.rsv
  BY DEF Meanwhile, Reserved
<1>3. ASSUME NEW c \in Requests, Asks(c), e.ans[c] = "none"
      PROVE  d.ans[c] = "none"
  BY <1>3, NotFailed DEF Meanwhile, OnlyFails
<1> QED
  BY <1>1, <1>2, <1>3 DEF Returns, Grants

LEMMA MeanwhileReturns ==
    ASSUME NEW d, NEW e, Meanwhile(d, e)
    PROVE  Returns(d, e)
BY DEF Meanwhile, Returns

\* A reply keeps the invariant unless it releases the lock of a request to
\* reserve that the backend is still expected to answer.
LEMMA RepliesLeased ==
    ASSUME RedirectOwners = {}, NEW d \in DeviceState, Leased(d),
           NEW e, NEW k, NEW to, Replies(d, e, k, to), Reserved(e) => e.rsv.owner \in Owners,
           k # "Reserve" \/ d.onKill \/ k \in e.locked \/ Claimed(d) = {}
    PROVE  Leased(e)
<1>1. /\ e.child = d.child /\ e.sock = d.sock /\ e.stale = d.stale
      /\ e.sender = d.sender /\ e.req = d.req /\ e.onKill = d.onKill /\ d.jobs \subseteq Requests
      /\ e.jobs = d.jobs /\ e.queue = d.queue /\ d.locked \subseteq e.locked \cup {k}
      /\ e.msg = d.msg
      /\ \A r \in Requests : d.ans[r] # "none" => e.ans[r] = d.ans[r]
  BY DEF Replies, Releases, DeviceState
<1>2. Claimed(e) = Claimed(d)
  BY <1>1 DEF Claimed
<1>3. ASSUME NEW j \in Claimed(e)
      PROVE  Serves(e, j)
  <2>1. Serves(d, j) /\ Asks(j)
    BY <1>2 DEF Leased, Claimed
  <2>2. InLock(d, j) => InLock(e, j) \/ d.onKill
    BY <1>1, <1>2, <2>1 DEF InLock, Asks
  <2> QED
    BY <1>1, <2>1, <2>2 DEF Serves
<1>4. e.onKill => \A i \in 1 .. Len(e.queue) : e.ans[e.queue[i]] # "none"
  <2>1. \A i \in 1 .. Len(d.queue) : d.queue[i] \in Requests
    BY DEF DeviceState
  <2> QED
    BY <1>1, <2>1 DEF Leased
<1> QED
  BY <1>1, <1>3, <1>4 DEF Leased

\* It tells nobody else.
LEMMA RepliesMeanwhile ==
    ASSUME NEW d, NEW e, NEW k, NEW to, Replies(d, e, k, to), e.rsv = d.rsv,
           to \in Requests /\ Asks(to) /\ d.ans[to] = "none" => e.ans[to] \in Failed \cup {"none"}
    PROVE  Meanwhile(d, e)
BY DEF Replies, Meanwhile, OnlyFails

LEMMA QuietLeased ==
    ASSUME NEW d, Leased(d), NEW e, Quiet(d, e)
    PROVE  Leased(e) /\ Meanwhile(d, e)
<1>1. Claimed(e) \subseteq Claimed(d)
  BY DEF Claimed, Quiet
<1>2. ASSUME NEW j \in Claimed(e)
      PROVE  Serves(e, j)
  <2>1. Serves(d, j)
    BY <1>1 DEF Leased
  <2> QED
    BY <2>1 DEF Serves, Quiet, InLock
<1>3. Leased(e)
  BY <1>2 DEF Leased, Quiet, Reserved
<1> QED
  BY <1>3 DEF Quiet, Meanwhile, OnlyFails

LEMMA KillMyselfLeased ==
    ASSUME NEW d \in DeviceState, Leased(d)
    PROVE  Leased(KillMyself(d)) /\ Meanwhile(d, KillMyself(d))
<1> DEFINE e == KillMyself(d)
<1>1. CASE d.onKill
  BY <1>1, MeanwhileReflexive DEF KillMyself
<1>2. CASE ~d.onKill
  <2>1. /\ e.sender = d.sender /\ e.jobs = d.jobs /\ e.msg = d.msg /\ e.rsv = d.rsv
        /\ e.child = d.child /\ e.onKill /\ e.sock = d.sock /\ e.stale = d.stale
        /\ \A r \in Requests : \/ e.ans[r] = d.ans[r]
                               \/ d.ans[r] = "none" /\ e.ans[r] = "NOT_FOUND"
        /\ \A r \in Requests :
              r \in InQueue(d) \/ (\E k \in d.locked : r = d.sender[k]) => e.ans[r] # "none"
    BY <1>2, KillMyselfTells DEF Leased
  <2>2. e.queue = d.queue
    BY KillMyselfReleases DEF Releases
  <2> HIDE DEF e
  <2>3. Meanwhile(d, e)
    BY <2>1 DEF Meanwhile, OnlyFails, Failed, Status, Successes, Failures
  <2>4. \A i \in 1 .. Len(e.queue) : e.ans[e.queue[i]] # "none"
    <3>1. ASSUME NEW i \in 1 .. Len(d.queue)
          PROVE  d.queue[i] \in Requests /\ d.queue[i] \in InQueue(d)
      <4>1. d.queue[i] \in InQueue(d) <=> \E j \in 1 .. Len(d.queue) : d.queue[j] = d.queue[i]
        BY InQueueIndex
      <4> QED
        BY <4>1 DEF DeviceState
    <3> QED
      BY <2>1, <2>2, <3>1
  <2>5. ASSUME NEW j \in Claimed(e)
        PROVE  Serves(e, j)
    <3>1. j \in Claimed(d) /\ Asks(j)
      BY <2>1, <2>5 DEF Claimed
    <3>2. Serves(d, j) /\ InLock(d, j)
      BY <1>2, <3>1 DEF Leased, Serves
    <3>3. "Reserve" \in d.locked
      BY <3>1, <3>2 DEF InLock, Asks
    <3> QED
      BY <2>1, <3>2, <3>3 DEF Serves
  <2>6. Leased(e)
    BY <2>1, <2>4, <2>5 DEF Leased, Reserved
  <2> QED
    BY <2>3, <2>6 DEF e
<1> QED
  BY <1>1, <1>2

LEMMA BlockedLeased ==
    ASSUME NEW d \in DeviceState, Leased(d), NEW r
    PROVE  /\ Leased(Blocked(d, r)) /\ Meanwhile(d, Blocked(d, r))
           /\ ~Old(Holder(d)) => Quiet(d, Blocked(d, r))
<1>1. CASE Old(Holder(d))
  BY <1>1, KillMyselfLeased DEF Blocked
<1>2. CASE ~Old(Holder(d))
  <2>1. Quiet(d, Blocked(d, r))
    BY <1>2 DEF Blocked, Quiet, DeviceState
  <2> QED
    BY <1>2, <2>1, QuietLeased
<1> QED
  BY <1>1, <1>2

LEMMA FifoHeldLeased ==
    ASSUME NEW d \in DeviceState, Leased(d)
    PROVE  Leased(FifoHeld(d)) /\ Meanwhile(d, FifoHeld(d))
BY BlockedLeased, MeanwhileReflexive DEF FifoHeld

-----------------------------------------------------------------------------
(* The workers. *)

\* A lock is free to be taken only when the backend works on no young request to
\* reserve, or the device is being killed.
LEMMA TakeLockLeased ==
    ASSUME ReqsOK, NEW d, Sound(d), d.queue # << >>, d.locked = {}, Leased(d)
    PROVE  LET r == Head(d.queue)
               e == TakeLock(d, r)
           IN  /\ Leased(e) /\ Meanwhile(d, e)
               /\ e.onKill => e.ans[r] # "none"
               /\ e.onKill \/ Claimed(e) = {}
<1> DEFINE r == Head(d.queue)
           e == TakeLock(d, r)
<1>1. /\ e.locked = {Kind(r)}
      /\ e.queue = Tail(d.queue)
      /\ e.req[Kind(r)] = r /\ e.sender[Kind(r)] = r
      /\ \A k \in AllKinds : k # Kind(r) => e.req[k] = d.req[k] /\ e.sender[k] = d.sender[k]
      /\ e.jobs = d.jobs /\ e.onKill = d.onKill /\ e.ans = d.ans
      /\ e.msg = d.msg /\ e.rsv = d.rsv
      /\ e.child = d.child /\ e.sock = d.sock /\ e.stale = d.stale
  BY TakeLockFields
<1>2. /\ \E i \in 1 .. Len(d.queue) : r = d.queue[i]
      /\ \A i \in 1 .. Len(Tail(d.queue)) :
            \E j \in 1 .. Len(d.queue) : Tail(d.queue)[i] = d.queue[j]
      /\ "Reserve" \in AllKinds
  BY HeadIsFirst DEF AllKinds
<1> HIDE DEF r, e
<1>3. Meanwhile(d, e)
  BY <1>1 DEF Meanwhile, OnlyFails
<1>4. e.onKill => e.ans[r] # "none" /\ \A i \in 1 .. Len(e.queue) : e.ans[e.queue[i]] # "none"
  BY <1>1, <1>2 DEF Leased
<1>5. \A k \in AllKinds : e.sender[k] \in Requests => Kind(e.sender[k]) = k
  BY <1>1 DEF Leased
<1>6. Claimed(e) = Claimed(d)
  BY <1>1 DEF Claimed
<1>7. \A j : ~InLock(d, j)
  BY DEF InLock
<1>8. e.onKill \/ Claimed(e) = {}
  BY <1>1, <1>6, <1>7 DEF Leased, Serves
<1>9. ASSUME NEW j \in Claimed(e)
      PROVE  Serves(e, j)
  <2>1. Serves(d, j) /\ e.onKill
    BY <1>6, <1>8 DEF Leased
  <2>2. e.sender["Reserve"] = r \/ e.sender["Reserve"] = d.sender["Reserve"]
    BY <1>1, <1>2
  <2> QED
    BY <1>1, <1>4, <2>1, <2>2 DEF Serves
<1>10. Leased(e)
  BY <1>1, <1>4, <1>5, <1>9 DEF Leased, Reserved
<1> QED
  BY <1>3, <1>4, <1>8, <1>10 DEF e, r

LEMMA CallBackendLeased ==
    ASSUME ReqsOK, RedirectOwners = {}, "Free" \notin SyncKinds,
           NEW d, Sound(d), Leased(d), NEW r \in Requests,
           d.locked = {Kind(r)}, d.req[Kind(r)] = r, d.sender[Kind(r)] = r,
           d.onKill => d.ans[r] # "none", d.onKill \/ Claimed(d) = {}
    PROVE  Leased(CallBackend(d, r)) /\ Meanwhile(d, CallBackend(d, r))
<1> DEFINE k == Kind(r)
<1>1. d \in DeviceState /\ k \in AllKinds /\ r \in Clients
  BY KindType DEF Sound, Clients, Requests
<1>2. CASE k \in SyncKinds
  <2> DEFINE f == FifoHeld(d)
             e == Reply(f, k, "OK", r)
  <2>1. CallBackend(d, r) = e
    BY <1>2 DEF CallBackend
  <2>2. k # "Reserve" /\ k # "Free"
    BY <1>2, DeviceActorAssumption
  <2>3. Leased(f) /\ Meanwhile(d, f) /\ f \in DeviceState
    BY <1>1, FifoHeldLeased, FifoHeldSound DEF Sound
  <2> HIDE DEF f
  <2>4. Replies(f, e, k, r) /\ e.rsv = f.rsv
    BY <1>1, <2>2, <2>3, SimpleReplyReplies DEF Reply, Status, Successes
  <2> HIDE DEF e
  <2>5. Leased(e)
    BY <2>2, <2>3, <2>4, RepliesLeased DEF Leased, Reserved
  <2>6. Meanwhile(f, e)
    BY <2>2, <2>4, RepliesMeanwhile DEF Asks
  <2> QED
    BY <2>1, <2>3, <2>5, <2>6, MeanwhileTransitive
<1>3. CASE k \notin SyncKinds
  <2> DEFINE J == d.jobs \cup {r}
             m == IF k = "Reserve" THEN r ELSE d.msg
             e == [d EXCEPT !.jobs = J, !.msg = m]
  <2>1. CallBackend(d, r) = e
    BY <1>3 DEF CallBackend
  <2>2. /\ Asks(r) => m = r
        /\ ~Asks(r) => m = d.msg
    BY DEF Asks
  <2>3. Asks(r) => d.sender["Reserve"] = r /\ InLock(d, r)
    BY DEF Asks, InLock
  <2> HIDE DEF J, m, k
  <2>4. /\ e.jobs = J /\ e.msg = m /\ e.sender = d.sender /\ e.onKill = d.onKill
        /\ e.ans = d.ans /\ e.rsv = d.rsv
        /\ e.sock = d.sock /\ e.stale = d.stale /\ e.child = d.child
        /\ e.queue = d.queue /\ e.locked = d.locked /\ e.req = d.req
    BY <1>1 DEF DeviceState
  <2> HIDE DEF e
  <2>5. Meanwhile(d, e)
    BY <2>2, <2>4 DEF Meanwhile, OnlyFails, Asks
  <2>6. ASSUME NEW j \in Claimed(e)
        PROVE  Serves(e, j)
    <3>1. j \in Claimed(d) \/ (j = r /\ Asks(r))
      BY <2>4, <2>6 DEF Claimed, J, Asks
    <3>2. CASE Asks(r)
      <4>1. d.onKill \/ (j = r /\ InLock(e, j) /\ e.msg = j)
        BY <2>2, <2>3, <2>4, <3>1, <3>2 DEF InLock
      <4> QED
        BY <2>2, <2>3, <2>4, <3>2, <4>1 DEF Serves
    <3>3. CASE ~Asks(r)
      <4>1. Serves(d, j)
        BY <3>1, <3>3 DEF Leased
      <4> QED
        BY <2>2, <2>4, <3>3, <4>1 DEF Serves, InLock
    <3> QED
      BY <3>2, <3>3
  <2>7. Leased(e)
    BY <2>2, <2>4, <2>6 DEF Leased, Reserved
  <2> QED
    BY <2>1, <2>5, <2>7
<1> QED
  BY <1>2, <1>3

LEMMA WorkerLeased ==
    ASSUME ReqsOK, RedirectOwners = {}, "Free" \notin SyncKinds,
           NEW d, Sound(d), Leased(d), NEW r, r \in InQueue(d) => r = Head(d.queue)
    PROVE  /\ Leased(Worker(d, r)) /\ Meanwhile(d, Worker(d, r))
           /\ d.locked # {} /\ ~Old(Holder(d)) => Quiet(d, Worker(d, r))
<1>1. d \in DeviceState
  BY DEF Sound
<1>2. CASE r \notin InQueue(d)
  BY <1>2, MeanwhileReflexive DEF Worker, Quiet
<1>3. CASE r \in InQueue(d) /\ d.locked # {}
  BY <1>1, <1>3, BlockedLeased DEF Worker
<1>4. CASE r \in InQueue(d) /\ d.locked = {}
  <2> DEFINE e == TakeLock(d, r)
  <2>1. r = Head(d.queue) /\ d.queue # << >>
    BY <1>1, <1>4, InQueueIndex
  <2>2. /\ Leased(e) /\ Meanwhile(d, e)
        /\ e.onKill => e.ans[r] # "none"
        /\ e.onKill \/ Claimed(e) = {}
    BY <1>4, <2>1, TakeLockLeased
  <2>3. /\ Sound(e) /\ e.locked = {Kind(r)} /\ r \in Requests
        /\ e.req[Kind(r)] = r /\ e.sender[Kind(r)] = r
    BY <1>4, <2>1, TakeLockSound, TakeLockFields, HeadIsFirst
  <2>4. Worker(d, r) = CallBackend(e, r)
    BY <1>4 DEF Worker
  <2> HIDE DEF e
  <2>5. Leased(CallBackend(e, r)) /\ Meanwhile(e, CallBackend(e, r))
    BY <2>2, <2>3, CallBackendLeased
  <2> QED
    BY <1>4, <2>2, <2>4, <2>5, MeanwhileTransitive
<1> QED
  BY <1>2, <1>3, <1>4

LEMMA FifoLeased ==
    ASSUME ReqsOK, RedirectOwners = {}, "Free" \notin SyncKinds, NEW d, Sound(d), Leased(d)
    PROVE  /\ Leased(Fifo(d)) /\ Meanwhile(d, Fifo(d))
           /\ d.locked # {} /\ ~Old(Holder(d)) => Quiet(d, Fifo(d))
<1>1. CASE d.queue = << >>
  BY <1>1, MeanwhileReflexive DEF Fifo, Quiet
<1>2. CASE d.queue # << >>
  <2>1. Fifo(d) = Worker(d, Head(d.queue))
    BY <1>2 DEF Fifo
  <2> QED
    BY <1>2, <2>1, WorkerLeased
<1> QED
  BY <1>1, <1>2

LEMMA FifoFirstLeased ==
    ASSUME ReqsOK, RedirectOwners = {}, "Free" \notin SyncKinds, NEW d, Sound(d), Leased(d),
           NEW k
    PROVE  LET e == FifoFirst(d, k)
           IN  Sound(e) /\ Leased(e) /\ Meanwhile(d, e)
<1> DEFINE e == Fifo(d)
<1>1. Sound(e) /\ Leased(e) /\ Meanwhile(d, e)
  BY FifoSound, FifoLeased
<1>2. FifoFirst(d, k) = IF Raises(e, k) THEN Fifo(e) ELSE e
  BY DEF FifoFirst
<1> HIDE DEF e
<1>3. Sound(Fifo(e)) /\ Leased(Fifo(e)) /\ Meanwhile(d, Fifo(e))
  BY <1>1, FifoSound, FifoLeased, MeanwhileTransitive
<1> QED
  BY <1>1, <1>2, <1>3

\* A worker asks the backend for the head of the queue only, and only when no
\* lock is held.
LEMMA BlockedJobs ==
    ASSUME NEW d \in DeviceState, NEW r
    PROVE  Blocked(d, r).jobs = d.jobs
<1>1. KillMyself(d).jobs = d.jobs
  BY KillMyselfTells
<1>2. [d EXCEPT !.retries = @ \cup {r}].jobs = d.jobs
  BY DEF DeviceState
<1> QED
  BY <1>1, <1>2 DEF Blocked

LEMMA FifoJobs ==
    ASSUME ReqsOK, NEW d, Sound(d)
    PROVE  /\ d.locked # {} => Fifo(d).jobs = d.jobs
           /\ d.queue = << >> => Fifo(d).jobs = d.jobs
           /\ Fifo(d).jobs \subseteq d.jobs \cup {Head(d.queue)}
<1> DEFINE r == Head(d.queue)
           k == Kind(r)
           e == TakeLock(d, r)
           f == FifoHeld(e)
<1>1. CASE d.queue = << >>
  BY <1>1 DEF Fifo
<1>2. CASE d.queue # << >>
  <2>1. d \in DeviceState /\ r \in InQueue(d) /\ r \in Requests
    BY <1>2, HeadIsFirst DEF Sound
  <2>2. CASE d.locked # {}
    BY <1>2, <2>1, <2>2, BlockedJobs DEF Fifo, Worker
  <2>3. CASE d.locked = {}
    <3>1. Sound(e) /\ e \in DeviceState /\ e.jobs = d.jobs
      BY <1>2, <2>3, TakeLockSound, TakeLockFields DEF Sound
    <3>2. Fifo(d) = CallBackend(e, r)
      BY <1>2, <2>1, <2>3 DEF Fifo, Worker
    <3> HIDE DEF r, e
    <3>3. f \in DeviceState /\ f.jobs = e.jobs
      BY <3>1, BlockedJobs, FifoHeldSound DEF FifoHeld, Sound
    <3> HIDE DEF f
    <3>4. k \in AllKinds /\ r \in Clients
      BY <2>1, KindType DEF Clients, Requests
    <3>5. Replies(f, Reply(f, k, "OK", r), k, r)
      BY <3>3, <3>4, ReplyReplies DEF Status, Successes
    <3>6. CASE k \in SyncKinds
      <4>1. CallBackend(e, r) = Reply(f, k, "OK", r)
        BY <3>6 DEF CallBackend, f
      <4> QED
        BY <1>2, <2>3, <3>1, <3>2, <3>3, <3>5, <4>1 DEF Replies, r
    <3>7. CASE k \notin SyncKinds
      <4>1. CallBackend(e, r).jobs = e.jobs \cup {r}
        BY <3>1, <3>7 DEF CallBackend, DeviceState
      <4> QED
        BY <1>2, <2>3, <3>1, <3>2, <4>1 DEF r
    <3> QED
      BY <3>6, <3>7
  <2> QED
    BY <2>2, <2>3
<1> QED
  BY <1>1, <1>2

-----------------------------------------------------------------------------
(* The replies. *)

\* The lock is released before the outcome is looked at.
LEMMA ReserveReplyIs ==
    ASSUME NEW d \in DeviceState, NEW st \in Successes \cup Failures, NEW to
    PROVE  LET u == Unlocked(d, d.locked \ {"Reserve"}, d.rsv, st)
           IN  /\ st \in Successes => ReserveReply(d, st, to) = ReserveGranted(u, to)
               /\ st \in Failures => ReserveReply(d, st, to) = SendReservationStatus(u, to)
<1> DEFINE L == d.locked \ {"Reserve"}
           M == IF st = "OCCUPIED" THEN d.locked ELSE d.locked \ {"Reserve"}
           u == Unlocked(d, L, d.rsv, st)
<1>1. Successes \cap Failures = {} /\ st # "OCCUPIED"
  BY DEF Successes, Failures
<1>2. [d EXCEPT !.locked = M, !.ret = st] = u
  BY <1>1 DEF DeviceState, Unlocked
<1>3. ReserveReply(d, st, to) = CASE st \in Successes -> ReserveGranted(u, to)
                                  [] st \in Failures -> SendReservationStatus(u, to)
                                  [] OTHER -> u
  BY <1>2 DEF ReserveReply
<1> HIDE DEF u
<1>4. /\ st \in Successes => ReserveReply(d, st, to) = ReserveGranted(u, to)
      /\ st \in Failures => ReserveReply(d, st, to) = SendReservationStatus(u, to)
  BY <1>1, <1>3
<1> QED
  BY <1>4 DEF u

LEMMA ReserveFails ==
    ASSUME NEW d \in DeviceState, NEW st \in Failures, NEW to \in Clients
    PROVE  LET e == ReserveReply(d, st, to)
           IN  e.rsv = d.rsv /\ (to \in Requests /\ d.ans[to] = "none" => e.ans[to] = st)
<1> DEFINE L == d.locked \ {"Reserve"}
           e == Unlocked(d, L, d.rsv, st)
<1>1. /\ d.rsv \in Reservation /\ L \in SUBSET AllKinds /\ st \in Status \cup {"None"}
      /\ L \subseteq d.locked /\ d.locked \subseteq L \cup {"Reserve"} /\ st # "None"
  BY DEF DeviceState, Status, Failures
<1>2. ReserveReply(d, st, to) = SendReservationStatus(e, to)
  BY ReserveReplyIs
<1> HIDE DEF L
<1>3. /\ Replies(d, e, "Reserve", to)
      /\ e \in DeviceState /\ e.rsv = d.rsv /\ e.ret = st /\ e.ans = d.ans
  BY <1>1, UnlockReplies
<1> HIDE DEF e
<1> QED
  BY <1>1, <1>2, <1>3, SendReservationStatusReplies

\* An instrument that is occupied is left to whom it belongs.
LEMMA ReserveOccupied ==
    ASSUME NEW d \in DeviceState, NEW to \in Clients
    PROVE  LET e == ReserveReply(d, "OCCUPIED", to)
           IN  Replies(d, e, "Reserve", to) /\ e.rsv = d.rsv /\ e.ans = d.ans
<1> DEFINE L == d.locked
           e == Unlocked(d, L, d.rsv, "OCCUPIED")
<1>1. /\ d.rsv \in Reservation /\ L \in SUBSET AllKinds /\ "OCCUPIED" \in Status \cup {"None"}
      /\ L \subseteq d.locked /\ d.locked \subseteq L \cup {"Reserve"}
  BY DEF DeviceState, Status
<1>2. ReserveReply(d, "OCCUPIED", to) = e
  BY DEF ReserveReply, Unlocked, DeviceState, Successes, Failures
<1> HIDE DEF L
<1>3. /\ Replies(d, e, "Reserve", to)
      /\ e.rsv = d.rsv /\ e.ans = d.ans
  BY <1>1, UnlockReplies
<1> HIDE DEF e
<1> QED
  BY <1>2, <1>3

\* A reply that reports a failure.
LEMMA FailureReply ==
    ASSUME ReqsOK, RedirectOwners = {}, NEW d \in DeviceState, Leased(d), NEW k \in AllKinds,
           NEW st \in {"BUSY_TIMEOUT", "NOT_FOUND"},
           NEW to \in Clients, to \in Requests => Kind(to) = k,
           k # "Reserve" \/ d.onKill \/ Claimed(d) = {}
    PROVE  Leased(Reply(d, k, st, to)) /\ Meanwhile(d, Reply(d, k, st, to))
<1> DEFINE e == Reply(d, k, st, to)
<1>1. st \in Status /\ st \in Failures /\ st \notin Successes /\ st # "OCCUPIED" /\ st # "None"
      /\ st \in Failed
  BY DEF Status, Failures, Successes, Failed
<1>2. Replies(d, e, k, to)
  BY <1>1, ReplyReplies
<1>3. e.rsv = d.rsv /\ (to \in Requests /\ Asks(to) /\ d.ans[to] = "none" => e.ans[to] = st)
  <2>1. CASE k = "Reserve"
    BY <1>1, <2>1, ReserveFails DEF Reply
  <2>2. CASE k = "Free"
    <3>1. ~(to \in Requests /\ Asks(to))
      BY <2>2 DEF Asks
    <3> QED
      BY <1>1, <2>2, <3>1, FreeReplyReplies DEF Reply
  <2>3. CASE k \notin {"Reserve", "Free"}
    <3>1. ~(to \in Requests /\ Asks(to))
      BY <2>3 DEF Asks
    <3> QED
      BY <1>1, <2>3, <3>1, SimpleReplyReplies DEF Reply
  <2> QED
    BY <2>1, <2>2, <2>3
<1> HIDE DEF e
<1>4. Leased(e)
  BY <1>2, <1>3, RepliesLeased DEF Leased, Reserved
<1>5. Meanwhile(d, e)
  BY <1>1, <1>2, <1>3, RepliesMeanwhile
<1> QED
  BY <1>4, <1>5 DEF e

\* A reply to a request of another kind tells nobody who asks for the reservation
\* and may give it back.
LEMMA OtherReply ==
    ASSUME ReqsOK, RedirectOwners = {}, NEW d \in DeviceState, Leased(d),
           NEW k \in AllKinds \ {"Reserve"}, NEW st \in Status,
           NEW to \in Clients, to \in Requests => Kind(to) = k
    PROVE  Leased(Reply(d, k, st, to)) /\ Returns(d, Reply(d, k, st, to))
<1> DEFINE e == Reply(d, k, st, to)
<1>1. Replies(d, e, k, to)
  BY ReplyReplies
<1>2. e.rsv = d.rsv \/ ~e.rsv.active
  <2>1. CASE k = "Free"
    <3>1. ~[d.rsv EXCEPT !.active = FALSE].active
      BY DEF DeviceState, Reservation
    <3>2. e = FreeReply(d, st, to)
      BY <2>1 DEF Reply
    <3> HIDE DEF e
    <3>3. e.rsv = d.rsv \/ e.rsv = [d.rsv EXCEPT !.active = FALSE]
      BY <3>2, FreeReplyReplies
    <3> QED
      BY <3>1, <3>3
  <2>2. CASE k # "Free"
    BY <2>2, SimpleReplyReplies DEF Reply
  <2> QED
    BY <2>1, <2>2
<1>3. ~(to \in Requests /\ Asks(to))
  BY DEF Asks
<1> HIDE DEF e
<1>4. Leased(e)
  BY <1>1, <1>2, RepliesLeased DEF Leased, Reserved
<1>5. OnlyFails(d, e, Requests)
  BY <1>1, <1>3 DEF OnlyFails, Replies
<1> QED
  BY <1>2, <1>4, <1>5 DEF e, Returns, Reserved

\* The backend reports success to who asks for the reservation: the owner that
\* reserve_device_msg names gets it, or another one has it.  Who is told is the
\* client of that message, or nobody who still waits.
LEMMA SuccessReply ==
    ASSUME ReqsOK, RedirectOwners = {}, NEW d \in DeviceState, Leased(d),
           NEW st \in Successes, NEW to \in Clients,
           d.msg \in Requests,
           to \in Requests /\ d.ans[to] = "none" => to = d.msg,
           d.onKill \/ Claimed(d) = {}
    PROVE  LET e == Reply(d, "Reserve", st, to)
           IN  /\ Leased(e)
               /\ to \in Requests /\ d.ans[to] = "none" => Grants(d, e, to) \/ Refuses(d, e, to)
               /\ ~(to \in Requests /\ d.ans[to] = "none") => Returns(d, e)
<1> DEFINE e == Reply(d, "Reserve", st, to)
           L == d.locked \ {"Reserve"}
           o == Owner(d.msg)
           open == Reserved(d) => d.rsv.owner = o
           v == IF open THEN [active |-> TRUE, owner |-> o, port |-> FALSE] ELSE d.rsv
           m == IF ~open THEN "OCCUPIED" ELSE IF Reserved(d) THEN "OK" ELSE st
           u == Unlocked(d, L, v, m)
<1>1. Asks(d.msg) /\ o \in Owners /\ o # NoOwner
  BY OwnerOfAsks, DeviceActorAssumption DEF Leased
<1>2. /\ L \in SUBSET AllKinds /\ L \subseteq d.locked /\ d.locked \subseteq L \cup {"Reserve"}
      /\ d.rsv \in Reservation
  BY DEF DeviceState
<1>3. v \in Reservation /\ (open => v.owner = o /\ v.active) /\ (~open => v = d.rsv)
  BY <1>1, <1>2 DEF Reservation
<1>4. /\ m \in Status \cup {"None"} /\ m # "None"
      /\ open => m \in Successes
      /\ ~open => m = "OCCUPIED"
  BY DEF Status, Successes, Failures
<1>5. e = SendReservationStatus(u, to)
  <2> DEFINE w == Unlocked(d, L, d.rsv, st)
             x == IF Reserved(w) THEN [w EXCEPT !.ret = "OK"] ELSE w
  <2>1. w = [d EXCEPT !.locked = L, !.ret = st] /\ w.rsv = d.rsv /\ w.msg = d.msg
    BY <1>2 DEF DeviceState, Unlocked
  <2>2. e = ReserveGranted(w, to)
    BY ReserveReplyIs DEF Reply
  <2>3. ~WantsRedirector(d.msg)
    BY DEF WantsRedirector
  <2>4. CASE open
    <3>1. e = SendReservationStatus(WriteReservation(x, FALSE), to)
      BY <2>1, <2>2, <2>3, <2>4 DEF ReserveGranted, Reserved, DeviceState
    <3>2. WriteReservation(x, FALSE) = u
      BY <2>1, <2>4 DEF WriteReservation, Unlocked, DeviceState, Reserved
    <3> QED
      BY <3>1, <3>2
  <2>5. CASE ~open
    <3>1. e = SendReservationStatus([w EXCEPT !.ret = "OCCUPIED"], to)
      BY <2>1, <2>2, <2>5 DEF ReserveGranted, Reserved
    <3>2. [w EXCEPT !.ret = "OCCUPIED"] = u
      BY <2>1, <2>5 DEF Unlocked, DeviceState
    <3> QED
      BY <3>1, <3>2
  <2> QED
    BY <2>4, <2>5
<1> HIDE DEF e, L, v, m
<1>6. /\ Replies(d, u, "Reserve", to)
      /\ u \in DeviceState /\ u.rsv = v /\ u.ret = m /\ u.ans = d.ans
  BY <1>2, <1>3, <1>4, UnlockReplies
<1> HIDE DEF u
<1>7. /\ Replies(u, e, "Reserve", to) /\ e.rsv = v
      /\ to \in Requests /\ d.ans[to] = "none" => e.ans[to] = m
  BY <1>4, <1>5, <1>6, SendReservationStatusReplies
<1>8. Replies(d, e, "Reserve", to)
  BY <1>6, <1>7, RepliesTransitive
<1>9. \A r \in Requests : r # to \/ d.ans[r] # "none" => e.ans[r] = d.ans[r]
  BY <1>8 DEF Replies
<1>10. Leased(e)
  <2>1. Reserved(e) => e.rsv.owner \in Owners
    BY <1>1, <1>3, <1>7 DEF Reserved, Leased
  <2> QED
    BY <1>8, <2>1, RepliesLeased
<1>11. ASSUME to \in Requests, d.ans[to] = "none"
       PROVE  Grants(d, e, to) \/ Refuses(d, e, to)
  <2>1. Asks(to) /\ o = Owner(to) /\ e.ans[to] = m
    BY <1>1, <1>7, <1>11
  <2>2. \A r \in Requests \ {to} : e.ans[r] = d.ans[r]
    BY <1>9
  <2>3. CASE open
    BY <1>3, <1>4, <1>7, <1>11, <2>1, <2>2, <2>3 DEF Grants, OnlyFails, Reserved
  <2>4. CASE ~open
    <3>1. Reserved(d) /\ d.rsv.owner # o /\ d.rsv.owner # NoOwner
      BY <2>4, DeviceActorAssumption DEF Leased
    <3> QED
      BY <1>3, <1>4, <1>7, <1>11, <2>1, <2>2, <2>4, <3>1 DEF Refuses
  <2> QED
    BY <2>3, <2>4
<1>12. ASSUME ~(to \in Requests /\ d.ans[to] = "none")
       PROVE  Returns(d, e)
  <2>1. OnlyFails(d, e, Requests)
    BY <1>9, <1>12 DEF OnlyFails
  <2> QED
    BY <1>1, <1>3, <1>7, <2>1 DEF Returns
<1> QED
  BY <1>10, <1>11, <1>12 DEF e

-----------------------------------------------------------------------------
(* The answers of the backend and the timeouts. *)

LEMMA QuietThen ==
    ASSUME NEW d, NEW e, NEW f, Quiet(d, e), LeaseStep(e, f)
    PROVE  LeaseStep(d, f)
<1>1. d.ans = e.ans /\ d.rsv = e.rsv
  BY DEF Quiet
<1> QED
  BY <1>1 DEF LeaseStep, Returns, Grants, Refuses, OnlyFails, Reserved

LEMMA HolderIs ==
    ASSUME NEW d, Sound(d), NEW k \in d.locked
    PROVE  Holder(d) = d.req[k] /\ d.locked = {k}
<1>1. \A l \in d.locked : l = k
  BY DEF Sound, LocksSound
<1>2. (CHOOSE l \in d.locked : TRUE) = k
  BY <1>1
<1> QED
  BY <1>1, <1>2 DEF Holder

\* The backend answers the request to reserve that it works on.
LEMMA ReservedLeased ==
    ASSUME ReqsOK, RedirectOwners = {}, "Free" \notin SyncKinds,
           NEW d, Sound(d), Handed(d), Leased(d),
           NEW r \in d.jobs, ~Old(r), Kind(r) = "Reserve", NEW st \in Outcomes
    PROVE  LET e == [d EXCEPT !.jobs = @ \ {r}]
               g == Reply(Fifo(e), "Reserve", st, d.sender["Reserve"])
           IN  Leased(g) /\ LeaseStep(d, g)
<1> DEFINE e == [d EXCEPT !.jobs = @ \ {r}]
           f == Fifo(e)
           to == d.sender["Reserve"]
           g == Reply(f, "Reserve", st, to)
<1>1. /\ Sound(e) /\ Quiet(d, e) /\ e.jobs = d.jobs \ {r}
      /\ r \in Requests /\ "Reserve" \in AllKinds
      /\ to \in Clients /\ (to \in Requests => Asks(to))
  <2>1. Sound(e) /\ Quiet(d, e) /\ e.jobs = d.jobs \ {r}
    BY JobTakenQuiet
  <2>2. r \in Requests /\ "Reserve" \in AllKinds /\ to \in Clients
    BY DEF Sound, DeviceState, Clients, AllKinds
  <2>3. to \in Requests => Asks(to)
    BY <2>2 DEF Leased, Asks
  <2> QED
    BY <2>1, <2>2, <2>3
<1> HIDE DEF e
<1>2. Leased(e) /\ Handed(e)
  BY <1>1, QuietLeased, QuietHanded
<1>3. /\ Sound(f) /\ Leased(f) /\ Meanwhile(e, f)
      /\ e.locked # {} /\ ~Old(Holder(e)) => Quiet(e, f)
      /\ e.onKill => f.onKill
      /\ f \in DeviceState
  BY <1>1, <1>2, FifoSound, FifoLeased, FifoWorks DEF Works, Sound
<1>4. Serves(d, r)
  BY <1>1 DEF Leased, Claimed, Asks
<1>5. ~d.onKill => Quiet(e, f) /\ Claimed(f) = {}
  <2>1. CASE ~d.onKill
    <3>1. InLock(d, r) /\ d.req["Reserve"] = r /\ "Reserve" \in e.locked
          /\ e.req["Reserve"] = r
      BY <1>1, <1>4, <2>1 DEF Serves, InLock, Quiet
    <3>2. Quiet(e, f)
      BY <1>1, <1>3, <3>1, HolderIs
    <3>3. Claimed(f) \subseteq Claimed(d) \ {r}
      BY <1>1, <3>2 DEF Claimed, Quiet
    <3>4. \A j \in Claimed(d) : j = r
      BY <2>1, <3>1 DEF Leased, Serves, InLock, Claimed, Asks
    <3> QED
      BY <3>2, <3>3, <3>4
  <2> QED
    BY <2>1
<1> HIDE DEF f
<1>6. /\ f.msg \in Requests
      /\ f.onKill \/ Claimed(f) = {}
      /\ to \in Requests /\ f.ans[to] = "none" => ~d.onKill /\ to = f.msg
  <2>1. f.msg \in Requests
    BY <1>1, <1>3, <1>4 DEF Serves, Quiet, Meanwhile
  <2>2. f.onKill \/ Claimed(f) = {}
    BY <1>1, <1>3, <1>5 DEF Quiet
  <2>3. ASSUME to \in Requests, f.ans[to] = "none"
        PROVE  ~d.onKill /\ to = f.msg
    <3>1. d.ans[to] = "none"
      BY <1>1, <1>3, <2>3, NotFailed DEF Meanwhile, OnlyFails, Quiet
    <3>2. to = r /\ ~d.onKill /\ d.msg = r
      BY <1>4, <2>3, <3>1 DEF Serves
    <3> QED
      BY <1>1, <1>5, <3>2 DEF Quiet
  <2> QED
    BY <2>1, <2>2, <2>3
<1>7. ASSUME Leased(g), Returns(f, g)
      PROVE  Leased(g) /\ LeaseStep(d, g)
  <2>1. LeaseStep(e, g)
    BY <1>3, <1>7, MeanwhileThen DEF LeaseStep
  <2> QED
    BY <1>1, <1>7, <2>1, QuietThen
<1>8. ASSUME st = "NOT_FOUND"
      PROVE  Leased(g) /\ LeaseStep(d, g)
  <2> HIDE DEF to
  <2>1. Leased(g) /\ Meanwhile(f, g)
    BY <1>1, <1>3, <1>6, <1>8, FailureReply DEF Asks
  <2> HIDE DEF g
  <2> QED
    BY <1>7, <2>1, MeanwhileReturns
<1>9. ASSUME st = "OCCUPIED"
      PROVE  Leased(g) /\ LeaseStep(d, g)
  <2>1. Replies(f, g, "Reserve", to) /\ g.rsv = f.rsv /\ g.ans = f.ans
    BY <1>1, <1>3, <1>9, ReserveOccupied DEF Reply
  <2> HIDE DEF g, to
  <2>2. Leased(g)
    BY <1>3, <1>6, <2>1, RepliesLeased DEF Leased, Reserved
  <2>3. Returns(f, g)
    BY <2>1 DEF Returns, OnlyFails
  <2> QED
    BY <1>7, <2>2, <2>3
<1>10. ASSUME st \in Successes
      PROVE  Leased(g) /\ LeaseStep(d, g)
  <2> HIDE DEF to
  <2>1. /\ Leased(g)
        /\ to \in Requests /\ f.ans[to] = "none" => Grants(f, g, to) \/ Refuses(f, g, to)
        /\ ~(to \in Requests /\ f.ans[to] = "none") => Returns(f, g)
    BY <1>1, <1>3, <1>6, <1>10, SuccessReply
  <2> HIDE DEF g
  <2>2. CASE to \in Requests /\ f.ans[to] = "none"
    <3>1. LeaseStep(f, g) /\ Quiet(e, f)
      BY <1>5, <1>6, <2>1, <2>2 DEF LeaseStep
    <3> QED
      BY <1>1, <2>1, <3>1, QuietThen
  <2>3. CASE ~(to \in Requests /\ f.ans[to] = "none")
    BY <1>7, <2>1, <2>3
  <2> QED
    BY <2>2, <2>3
<1>11. Leased(g) /\ LeaseStep(d, g)
  BY <1>8, <1>9, <1>10 DEF Outcomes, Successes
<1> QED
  BY <1>11 DEF e, f, g, to

LEMMA BackendReplyLeased ==
    ASSUME ReqsOK, RedirectOwners = {}, "Free" \notin SyncKinds,
           NEW d, Sound(d), Handed(d), Leased(d),
           NEW r \in d.jobs, ~Old(r), NEW st \in Outcomes
    PROVE  LET e == [d EXCEPT !.jobs = @ \ {r}]
               g == HandleReply(e, Kind(r), st, d.sender[Kind(r)])
           IN  Leased(g) /\ LeaseStep(d, g)
<1> DEFINE e == [d EXCEPT !.jobs = @ \ {r}]
           k == Kind(r)
           to == d.sender[k]
           f == FifoFirst(e, k)
           g == Reply(f, k, st, to)
<1>1. /\ Sound(e) /\ Quiet(d, e) /\ r \in Requests
  BY JobTakenQuiet DEF Sound, DeviceState
<1>2. k \in AllKinds
  BY <1>1, KindType
<1>3. to \in Clients /\ (to \in Requests => Kind(to) = k) /\ st \in Status
  BY <1>2 DEF Sound, DeviceState, Clients, Leased, Outcomes, Status, Successes, Failures
<1>4. HandleReply(e, k, st, to) = g
  BY DEF HandleReply
<1>5. CASE k = "Reserve"
  <2>1. f = Fifo(e)
    BY <1>5 DEF FifoFirst, Raises, NoClient
  <2> QED
    BY <1>4, <1>5, <2>1, ReservedLeased
<1>6. CASE k # "Reserve"
  <2> HIDE DEF e, to, k
  <2>1. Leased(e)
    BY <1>1, QuietLeased
  <2>2. Sound(f) /\ Leased(f) /\ Meanwhile(e, f)
    BY <1>1, <2>1, FifoFirstLeased
  <2> HIDE DEF f
  <2>3. f \in DeviceState
    BY <2>2 DEF Sound
  <2>4. Leased(g) /\ Returns(f, g)
    BY <1>2, <1>3, <1>6, <2>2, <2>3, OtherReply
  <2> HIDE DEF g
  <2>5. LeaseStep(e, g)
    BY <2>2, <2>4, MeanwhileThen DEF LeaseStep
  <2>6. Leased(g) /\ LeaseStep(d, g)
    BY <1>1, <2>4, <2>5, QuietThen
  <2> QED
    BY <1>4, <2>6 DEF e, to, k
<1> QED
  BY <1>5, <1>6

LEMMA TimeoutLocksLeased ==
    ASSUME ReqsOK, RedirectOwners = {}, "Free" \notin SyncKinds,
           NEW d, Sound(d), Handed(d), Leased(d)
    PROVE  Leased(TimeoutLocks(d)) /\ Meanwhile(d, TimeoutLocks(d))
<1>1. CASE d.locked = {} \/ ~Old(Holder(d))
  BY <1>1, MeanwhileReflexive DEF TimeoutLocks
<1>2. CASE d.locked # {} /\ Old(Holder(d))
  <2> DEFINE k == CHOOSE l \in d.locked : TRUE
             f == Fifo(d)
             to == d.sender[k]
             g == Reply(f, k, "BUSY_TIMEOUT", to)
  <2>1. k \in d.locked
    BY <1>2
  <2>2. /\ d.locked = {k} /\ Holder(d) = d.req[k]
    BY <2>1, HolderIs
  <2>3. k \in AllKinds /\ to \in Clients /\ (to \in Requests => Kind(to) = k)
    BY <2>1 DEF Sound, DeviceState, Clients, Leased
  <2>4. /\ Sound(f) /\ Leased(f) /\ Meanwhile(d, f) /\ f.locked \subseteq {k}
        /\ f.jobs = d.jobs /\ (d.onKill => f.onKill)
    BY <1>2, <2>2, FifoSound, FifoLeased, FifoJobs, FifoWorks DEF Works
  <2> HIDE DEF f
  <2>5. ~Raises(f, k) /\ f \in DeviceState
    BY <2>4, AloneDoesNotRaise DEF Sound
  <2>6. HandleReply(d, k, "BUSY_TIMEOUT", to) = g
    BY <2>5 DEF HandleReply, FifoFirst, f
  <2>7. k # "Reserve" \/ f.onKill \/ Claimed(f) = {}
    <3>1. ASSUME k = "Reserve", ~d.onKill, NEW j \in Claimed(f)
          PROVE  FALSE
      <4>1. j \in Claimed(d)
        BY <2>4 DEF Claimed
      <4>2. Serves(d, j)
        BY <4>1 DEF Leased
      <4>3. d.req["Reserve"] = j /\ ~Old(j)
        BY <3>1, <4>1, <4>2 DEF Serves, InLock, Claimed, Asks
      <4> QED
        BY <1>2, <2>2, <3>1, <4>3
    <3> QED
      BY <2>4, <3>1
  <2> HIDE DEF to, k
  <2>8. Leased(g) /\ Meanwhile(f, g)
    BY <2>3, <2>4, <2>5, <2>7, FailureReply
  <2>9. k \notin g.locked /\ g \in DeviceState
    <3>1. k \notin g.locked
      BY <2>3, <2>5, BusyTimeoutUnlocks
    <3>2. Releases(f, g)
      BY <2>3, <2>5, ReplyReleases DEF Status, Failures
    <3> QED
      BY <3>1, <3>2 DEF Releases
  <2> HIDE DEF g
  <2>10. Release(g, k) = g
    <3>1. g.locked \ {k} = g.locked
      BY <2>9
    <3> QED
      BY <2>9, <3>1 DEF Release, DeviceState
  <2>11. TimeoutLocks(d) = g
    BY <1>2, <2>6, <2>10 DEF TimeoutLocks, k, to
  <2> QED
    BY <2>4, <2>8, <2>11, MeanwhileTransitive
<1> QED
  BY <1>1, <1>2

LEMMA DropLeased ==
    ASSUME NEW d, Sound(d), Leased(d), NEW r
    PROVE  LET e == [d EXCEPT !.queue = RemoveFirst(@, r)]
           IN  Leased(e) /\ Meanwhile(d, e)
<1> DEFINE e == [d EXCEPT !.queue = RemoveFirst(@, r)]
<1>1. Advances(d, e)
  BY DropSound
<1>2. /\ e.locked = d.locked /\ e.req = d.req /\ e.sender = d.sender /\ e.jobs = d.jobs
      /\ e.onKill = d.onKill /\ e.msg = d.msg /\ e.ans = d.ans /\ e.rsv = d.rsv
      /\ e.child = d.child /\ e.sock = d.sock /\ e.stale = d.stale
  BY DEF Sound, DeviceState
<1> HIDE DEF e
<1>3. e.onKill => \A i \in 1 .. Len(e.queue) : e.ans[e.queue[i]] # "none"
  BY <1>1, <1>2 DEF Advances, Leased
<1>4. Claimed(e) = Claimed(d) /\ \A j \in Claimed(d) : Serves(d, j) => Serves(e, j)
  BY <1>2 DEF Claimed, Serves, InLock
<1>5. Leased(e)
  BY <1>2, <1>3, <1>4 DEF Leased, Reserved
<1> QED
  BY <1>2, <1>5 DEF Meanwhile, OnlyFails, e

\* A request to reserve that times out in the queue is the youngest that the
\* backend may be working on.
LEMMA TimeoutQueueLeased ==
    ASSUME ReqsOK, RedirectOwners = {}, "Free" \notin SyncKinds, aged \in Nat,
           NEW d, Sound(d), Handed(d), Leased(d), NEW n
    PROVE  Leased(TimeoutQueue(d, n)) /\ Meanwhile(d, TimeoutQueue(d, n))
<1> DEFINE due == {q \in InQueue(d) : Old(q) /\ d.id[q] = n}
           r == CHOOSE q \in due : TRUE
           k == Kind(r)
           f == FifoFirst(d, k)
           g == Reply(f, k, "BUSY_TIMEOUT", r)
<1>1. CASE due = {}
  BY <1>1, MeanwhileReflexive DEF TimeoutQueue
<1>2. CASE due # {}
  <2>1. r \in InQueue(d) /\ Old(r)
    BY <1>2
  <2>2. TimeoutQueue(d, n) = [g EXCEPT !.queue = RemoveFirst(@, r)]
    BY <1>2 DEF TimeoutQueue, HandleReply
  <2> HIDE DEF r
  <2>3. d \in DeviceState
    BY DEF Sound
  <2>4. PICK i \in 1 .. Len(d.queue) : d.queue[i] = r
    BY <2>1, <2>3, InQueueIndex
  <2>5. r \in Requests /\ r \in Clients /\ r \in Nat /\ k \in AllKinds
    BY <2>3, <2>4, Numbers, KindType DEF Clients, Requests
  <2>6. Sound(f) /\ Leased(f) /\ Meanwhile(d, f) /\ f \in DeviceState
    BY FifoFirstLeased DEF Sound
  <2>7. ASSUME k = "Reserve", NEW j \in Claimed(f)
        PROVE  FALSE
    <3>1. f = Fifo(d)
      BY <2>7 DEF FifoFirst, Raises, NoClient
    <3>2. j \in d.jobs \/ (d.queue # << >> /\ j = Head(d.queue))
      BY <3>1, FifoJobs DEF Claimed
    <3>3. j \in d.jobs => j <= r
      <4>1. \A s \in d.jobs : s \in Nat /\ s < d.queue[i]
        BY <2>3 DEF Handed, DeviceState, Requests
      <4> QED
        BY <2>4, <2>5, <4>1
    <3>4. d.queue # << >> => Head(d.queue) \in Nat /\ Head(d.queue) <= r
      <4>1. i = 1 \/ d.queue[1] < d.queue[i]
        BY <2>3, <2>4 DEF Sound, QueueSound, DeviceState
      <4>2. d.queue # << >> => Head(d.queue) = d.queue[1] /\ Head(d.queue) \in Nat
        BY <2>3, HeadIsFirst DEF DeviceState
      <4> QED
        BY <2>4, <2>5, <4>1, <4>2
    <3>5. j \in Nat /\ j <= r
      BY <2>3, <3>2, <3>3, <3>4 DEF DeviceState, Requests
    <3>6. Old(j)
      BY <2>1, <2>5, <3>5 DEF Old
    <3> QED
      BY <2>7, <3>6 DEF Claimed
  <2> HIDE DEF f
  <2>8. Leased(g) /\ Meanwhile(f, g)
    <3>1. k # "Reserve" \/ f.onKill \/ Claimed(f) = {}
      BY <2>7
    <3> QED
      BY <2>5, <2>6, <3>1, FailureReply
  <2>9. Sound(g)
    <3>1. Releases(f, g)
      BY <2>5, <2>6, ReplyReleases DEF Status, Failures
    <3> QED
      BY <2>6, <3>1, ReleasesSound
  <2> HIDE DEF g
  <2>10. Leased([g EXCEPT !.queue = RemoveFirst(@, r)])
         /\ Meanwhile(g, [g EXCEPT !.queue = RemoveFirst(@, r)])
    BY <2>8, <2>9, DropLeased
  <2> QED
    BY <2>2, <2>6, <2>8, <2>10, MeanwhileTransitive
<1> QED
  BY <1>1, <1>2

-----------------------------------------------------------------------------
(* Every step keeps the invariant and is a step of the lease. *)

StepLeased(d, e) == Leased(e) /\ LeaseStep(d, e)

LEMMA MeanwhileSteps ==
    ASSUME NEW d, NEW e, Leased(e), Meanwhile(d, e)
    PROVE  StepLeased(d, e)
BY MeanwhileReturns DEF StepLeased, LeaseStep

LEMMA QuietSteps ==
    ASSUME NEW d, NEW e, Leased(d), Quiet(d, e)
    PROVE  StepLeased(d, e)
BY QuietLeased, MeanwhileSteps

LEMMA TimeoutWakeupLeased ==
    ASSUME IInv, Handed(dev), Leased(dev), RedirectOwners = {}, "Free" \notin SyncKinds,
           NEW r \in Requests, TimeoutWakeup(r)
    PROVE  StepLeased(dev, dev')
<1> DEFINE d == TimeoutLocks(dev)
           e == TimeoutQueue(d, dev.id[r])
<1>1. ReqsOK /\ Sound(dev) /\ aged \in Nat
  BY DEF IInv
<1>2. Sound(d) /\ Handed(d) /\ Leased(d) /\ Meanwhile(dev, d)
  BY <1>1, TimeoutLocksWorks, TimeoutLocksLeased DEF Works
<1>3. dev' = [e EXCEPT !.timers = @ \ {r}]
  BY DEF TimeoutWakeup
<1> HIDE DEF d
<1>4. Leased(e) /\ Meanwhile(d, e) /\ e \in DeviceState
  BY <1>1, <1>2, TimeoutQueueLeased, TimeoutQueueSound DEF Sound
<1> HIDE DEF e
<1>5. Quiet(e, dev')
  BY <1>3, <1>4 DEF Quiet, DeviceState
<1> QED
  BY <1>2, <1>4, <1>5, QuietLeased, MeanwhileTransitive, MeanwhileSteps

\* Nobody comes and no time passes.
LEMMA WorkLeased ==
    ASSUME IInv, Handed(dev), Leased(dev), RedirectOwners = {}, "Free" \notin SyncKinds,
           LateReplies = FALSE, ExternalUpdates = FALSE,
           \/ \E r \in Requests : \/ \E st \in Outcomes : BackendReply(r, st)
                                  \/ LoseReply(r)
                                  \/ RetryWakeup(r)
                                  \/ TimeoutWakeup(r)
           \/ \E o \in Owners, a \in BOOLEAN : SetDeviceStatus(o, a)
           \/ Kill
           \/ ActorExit
           \/ Redirector
    PROVE  StepLeased(dev, dev')
<1>1. ReqsOK /\ Sound(dev) /\ dev \in DeviceState
  BY DEF IInv, Sound
<1>2. ASSUME NEW r \in Requests, NEW st \in Outcomes, BackendReply(r, st)
      PROVE  StepLeased(dev, dev')
  <2> DEFINE e == [dev EXCEPT !.jobs = @ \ {r}]
  <2>1. /\ r \in dev.jobs /\ ~Old(r)
        /\ dev' = HandleReply(e, Kind(r), st, dev.sender[Kind(r)])
    BY <1>2 DEF BackendReply
  <2> QED
    BY <1>1, <2>1, BackendReplyLeased DEF StepLeased
<1>3. ASSUME NEW r \in Requests, LoseReply(r)
      PROVE  StepLeased(dev, dev')
  BY <1>1, <1>3, JobTakenQuiet, QuietSteps DEF LoseReply
<1>4. ASSUME NEW r \in Requests, RetryWakeup(r)
      PROVE  StepLeased(dev, dev')
  <2> DEFINE f == [dev EXCEPT !.retries = @ \ {r}]
  <2>1. dev' = Worker(f, r) /\ r \in dev.retries
    BY <1>4 DEF RetryWakeup
  <2>2. Sound(f) /\ Quiet(dev, f) /\ (r \in InQueue(f) => r = Head(f.queue))
    BY <1>1, <2>1, RetryTakenQuiet
  <2> HIDE DEF f
  <2>3. Leased(f) /\ Meanwhile(dev, f)
    BY <2>2, QuietLeased
  <2>4. Leased(Worker(f, r)) /\ Meanwhile(f, Worker(f, r))
    BY <1>1, <2>2, <2>3, WorkerLeased
  <2> QED
    BY <2>1, <2>3, <2>4, MeanwhileTransitive, MeanwhileSteps
<1>5. ASSUME NEW r \in Requests, TimeoutWakeup(r)
      PROVE  StepLeased(dev, dev')
  BY <1>5, TimeoutWakeupLeased
<1>6. CASE Kill
  BY <1>1, <1>6, KillMyselfLeased, MeanwhileSteps DEF Kill
<1>7. CASE ActorExit
  <2>1. Quiet(dev, dev')
    BY <1>1, <1>7 DEF ActorExit, Quiet, DeviceState
  <2> QED
    BY <2>1, QuietSteps
<1>8. CASE Redirector
  BY <1>8 DEF Leased, Redirector, RedirectorSetup, RedirectorKilled, SocketClosed,
              ReceiveSocketMsg, ReceiveChildActorExited, ReceiveChildActorExitedAgain
<1> QED
  BY <1>2, <1>3, <1>4, <1>5, <1>6, <1>7, <1>8 DEF SetDeviceStatus

\* A request has come and its handler has not done more than note it.
LEMMA NotedLeased ==
    ASSUME NEW d, Leased(d), NEW e,
           e.queue = d.queue \/ ~d.onKill, e.jobs = d.jobs, e.onKill = d.onKill,
           e.ans = d.ans, e.locked = d.locked, e.req = d.req, e.rsv = d.rsv, e.msg = d.msg,
           e.child = d.child, e.sock = d.sock, e.stale = d.stale,
           e.sender["Reserve"] = d.sender["Reserve"],
           \A l \in AllKinds : e.sender[l] \in Requests => Kind(e.sender[l]) = l
    PROVE  Leased(e) /\ Meanwhile(d, e)
<1>1. Claimed(e) = Claimed(d) /\ \A j \in Claimed(d) : Serves(d, j) => Serves(e, j)
  BY DEF Claimed, Serves, InLock
<1>2. Leased(e)
  BY <1>1 DEF Leased, Reserved
<1> QED
  BY <1>2 DEF Meanwhile, OnlyFails

LEMMA ArrivedLeased ==
    ASSUME NEW d, Sound(d), Handed(d), Leased(d), NEW r \in Requests, r = d.arrived + 1,
           NEW k \in AllKinds \ {"Reserve"}, NEW g,
           g = d.sender \/ (Kind(r) = k /\ g = [d.sender EXCEPT ![k] = r]),
           NEW st \in Status \cup {"None"}
    PROVE  LET a == Arrived(d, r, g, st)
           IN  Sound(a) /\ Leased(a) /\ Meanwhile(d, a)
<1> DEFINE a == Arrived(d, r, g, st)
<1>1. /\ Sound(a)
      /\ a.queue = d.queue /\ a.jobs = d.jobs /\ a.onKill = d.onKill /\ a.ans = d.ans
      /\ a.locked = d.locked /\ a.req = d.req /\ a.sender = g /\ a.rsv = d.rsv /\ a.msg = d.msg
      /\ a.child = d.child /\ a.sock = d.sock /\ a.stale = d.stale
  BY ArrivedHanded
<1> HIDE DEF a
<1>2. \A l \in AllKinds : g[l] = d.sender[l] \/ (l = k /\ Kind(r) = k /\ g[l] = r)
  <2>1. d.sender \in [AllKinds -> 0 .. MaxRequests]
    BY DEF Sound, DeviceState
  <2> QED
    BY <2>1
<1>3. g["Reserve"] = d.sender["Reserve"]
  BY <1>2 DEF AllKinds
<1>4. \A l \in AllKinds : g[l] \in Requests => Kind(g[l]) = l
  BY <1>2 DEF Leased
<1>5. Leased(a) /\ Meanwhile(d, a)
  BY <1>1, <1>3, <1>4, NotedLeased
<1> QED
  BY <1>1, <1>5 DEF a

LEMMA EnqueueLeased ==
    ASSUME ReqsOK, RedirectOwners = {}, "Free" \notin SyncKinds,
           NEW d, Sound(d), Handed(d), Leased(d), ~d.onKill,
           NEW r \in Requests, r = d.arrived + 1
    PROVE  StepLeased(d, Enqueue(d, r))
<1> DEFINE e == Queued(d, r)
<1>1. /\ Sound(e) /\ e.jobs = d.jobs /\ e.onKill = d.onKill /\ e.ans = d.ans
      /\ e.locked = d.locked /\ e.req = d.req /\ e.rsv = d.rsv /\ e.msg = d.msg
      /\ e.child = d.child /\ e.sock = d.sock /\ e.stale = d.stale
      /\ e.sender = d.sender
  BY QueuedHanded
<1>2. Enqueue(d, r) = Fifo(e)
  BY DEF Enqueue, Queued
<1> HIDE DEF e
<1>3. \A l \in AllKinds : d.sender[l] \in Requests => Kind(d.sender[l]) = l
  BY DEF Leased
<1>4. Leased(e) /\ Meanwhile(d, e)
  BY <1>1, <1>3, NotedLeased
<1>5. Leased(Fifo(e)) /\ Meanwhile(e, Fifo(e))
  BY <1>1, <1>4, FifoLeased
<1> QED
  BY <1>2, <1>4, <1>5, MeanwhileTransitive, MeanwhileSteps

\* The requester of another kind is answered, or gets a PoisonMessage.
LEMMA PoisonedLeased ==
    ASSUME RedirectOwners = {}, NEW d \in DeviceState, Leased(d),
           NEW r \in Requests, Kind(r) # "Reserve"
    PROVE  Leased(Poisoned(d, r)) /\ Returns(d, Poisoned(d, r))
<1> DEFINE p == Poisoned(d, r)
<1>1. r \in Clients
  BY DEF Clients, Requests
<1>2. Replies(d, p, "Free", r) /\ p.rsv = d.rsv
  BY <1>1, AnswerReplies DEF Poisoned
<1> HIDE DEF p
<1>3. Leased(p)
  BY <1>2, RepliesLeased DEF Leased, Reserved
<1>4. Meanwhile(d, p)
  BY <1>2, RepliesMeanwhile DEF Asks
<1> QED
  BY <1>3, <1>4, MeanwhileReturns DEF p

LEMMA RefuseOnKillLeased ==
    ASSUME ReqsOK, RedirectOwners = {}, NEW d, Sound(d), Handed(d), Leased(d),
           NEW r \in Requests, r = d.arrived + 1, Kind(r) # "Reserve"
    PROVE  StepLeased(d, RefuseOnKill(d, r))
<1> DEFINE e == WithId(d, r)
           f == WithId(e, r)
           k == Kind(r)
           p == Poisoned(f, r)
           g == Reply(e, k, "NOT_FOUND", r)
<1>1. /\ r \in Clients /\ k \in AllKinds \ {"Reserve"} /\ "NOT_FOUND" \in Status
      /\ \A i \in 1 .. Len(d.queue) : r # d.queue[i]
  <2>1. d \in DeviceState /\ d.arrived \in Nat
    BY Numbers DEF Sound
  <2>2. \A i \in 1 .. Len(d.queue) : d.queue[i] \in Nat /\ d.queue[i] <= d.arrived
    BY <2>1, Numbers DEF Sound, QueueSound
  <2> QED
    BY <2>1, <2>2, KindType DEF Requests, Clients, Status, Failures
<1>2. RefuseOnKill(d, r) = IF Raises(e, k) THEN p ELSE g
  BY DEF RefuseOnKill
<1>3. Sound(e) /\ Handed(e) /\ e.arrived = r /\ e.queue = d.queue
  BY <1>1, WithIdHanded
<1>4. Leased(e) /\ Meanwhile(d, e)
  <2>1. /\ e.jobs = d.jobs /\ e.onKill = d.onKill /\ e.ans = d.ans
        /\ e.locked = d.locked /\ e.req = d.req /\ e.rsv = d.rsv /\ e.msg = d.msg
        /\ e.child = d.child /\ e.sock = d.sock /\ e.stale = d.stale
        /\ e.sender = d.sender
    BY <1>1, WithIdHanded
  <2>2. \A l \in AllKinds : d.sender[l] \in Requests => Kind(d.sender[l]) = l
    BY DEF Leased
  <2> HIDE DEF e
  <2> QED
    BY <1>3, <2>1, <2>2, NotedLeased
<1> HIDE DEF e
<1>5. Sound(f) /\ Leased(f) /\ Meanwhile(d, f)
  <2>1. /\ Sound(f) /\ f.queue = e.queue /\ f.jobs = e.jobs /\ f.onKill = e.onKill
        /\ f.ans = e.ans /\ f.locked = e.locked /\ f.req = e.req /\ f.sender = e.sender
        /\ f.rsv = e.rsv /\ f.msg = e.msg
        /\ f.child = e.child /\ f.sock = e.sock /\ f.stale = e.stale
    BY <1>1, <1>3, WithIdHanded
  <2>2. \A l \in AllKinds : e.sender[l] \in Requests => Kind(e.sender[l]) = l
    BY <1>4 DEF Leased
  <2> HIDE DEF f
  <2>3. Leased(f) /\ Meanwhile(e, f)
    BY <1>4, <2>1, <2>2, NotedLeased
  <2> QED
    BY <1>4, <2>1, <2>3, MeanwhileTransitive
<1> HIDE DEF f
<1>6. StepLeased(d, p)
  <2>1. Leased(p) /\ Returns(f, p)
    BY <1>5, PoisonedLeased DEF Sound
  <2> HIDE DEF p
  <2> QED
    BY <1>5, <2>1, MeanwhileThen DEF StepLeased, LeaseStep
<1>7. StepLeased(d, g)
  <2>1. Leased(g) /\ Returns(e, g)
    BY <1>1, <1>3, <1>4, OtherReply DEF Sound
  <2> HIDE DEF g
  <2> QED
    BY <1>4, <2>1, MeanwhileThen DEF StepLeased, LeaseStep
<1> QED
  BY <1>2, <1>6, <1>7

LEMMA AnswerAtOnceLeased ==
    ASSUME ReqsOK, RedirectOwners = {}, "Free" \notin SyncKinds,
           NEW d, NEW a, Sound(a), Leased(a), Meanwhile(d, a), NEW r \in Requests,
           NEW b, [b EXCEPT !.arrived = r] = a,
           NEW k \in AllKinds \ {"Reserve"}, k = Kind(r), NEW st \in Status
    PROVE  StepLeased(d, AnswerAtOnce(b, k, st, r))
<1> DEFINE e == FifoFirst(a, k)
           p == Poisoned(e, r)
           g == Reply(e, k, st, r)
<1>1. AnswerAtOnce(b, k, st, r) = IF Raises(e, k) THEN p ELSE g
  BY DEF AnswerAtOnce
<1>2. Sound(e) /\ Leased(e) /\ Meanwhile(d, e)
  BY FifoFirstLeased, MeanwhileTransitive
<1> HIDE DEF e
<1>3. e \in DeviceState /\ r \in Clients
  BY <1>2 DEF Sound, Clients, Requests
<1>4. Leased(p) /\ Returns(e, p)
  BY <1>2, <1>3, PoisonedLeased
<1>5. Leased(g) /\ Returns(e, g)
  BY <1>2, <1>3, OtherReply
<1> HIDE DEF p, g
<1> QED
  BY <1>1, <1>2, <1>4, <1>5, MeanwhileThen DEF StepLeased, LeaseStep

LEMMA ReceiveOtherLeased ==
    ASSUME IInv, Handed(dev), Leased(dev), RedirectOwners = {}, "Free" \notin SyncKinds,
           NEW r \in Requests,
           \/ ReceiveFree(r)
           \/ ReceiveGetRecentValue(r)
           \/ ReceiveGetDeviceStatus(r)
           \/ ReceiveStartMonitoring(r)
           \/ ReceiveStopMonitoring(r)
           \/ ReceiveSetRtc(r)
    PROVE  StepLeased(dev, dev')
<1>1. /\ ReqsOK /\ Sound(dev) /\ dev \in DeviceState /\ r = dev.arrived + 1
      /\ dev.ret \in Status \cup {"None"}
      /\ {"OK_SKIPPED", "OCCUPIED"} \subseteq Status
      /\ {"Free", "GetRecentValue", "GetDeviceStatus", "StartMonitoring", "StopMonitoring"}
            \subseteq AllKinds \ {"Reserve"}
      /\ Kind(r) # "Reserve"
  BY DEF IInv, Sound, ReceiveFree, ReceiveGetRecentValue, ReceiveGetDeviceStatus,
         ReceiveStartMonitoring, ReceiveStopMonitoring, ReceiveSetRtc, Arrives, DeviceState,
         Status, Successes, AllKinds
<1>2. StepLeased(dev, Accept(dev, r))
  BY <1>1, EnqueueLeased, RefuseOnKillLeased DEF Accept
<1>3. ASSUME NEW k \in {"GetDeviceStatus", "StartMonitoring"}, Kind(r) = k
      PROVE  StepLeased(dev, AnswerAtOnce([dev EXCEPT !.sender[k] = r], k, "OCCUPIED", r))
  <2> DEFINE g == [dev.sender EXCEPT ![k] = r]
             a == Arrived(dev, r, g, dev.ret)
             b == [dev EXCEPT !.sender[k] = r]
  <2>1. [b EXCEPT !.arrived = r] = a
    BY <1>1 DEF DeviceState, Arrived
  <2>2. k \in AllKinds \ {"Reserve"}
    BY <1>1
  <2> HIDE DEF b, g
  <2>3. Sound(a) /\ Leased(a) /\ Meanwhile(dev, a)
    BY <1>1, <1>3, <2>2, ArrivedLeased DEF g
  <2> HIDE DEF a
  <2>4. StepLeased(dev, AnswerAtOnce(b, k, "OCCUPIED", r))
    BY <1>1, <1>3, <2>1, <2>2, <2>3, AnswerAtOnceLeased
  <2> QED
    BY <2>4 DEF b
<1>4. ASSUME NEW k \in {"GetRecentValue", "StopMonitoring"}, Kind(r) = k, NEW st \in Status
      PROVE  StepLeased(dev, AnswerAtOnce(dev, k, st, r))
  <2> DEFINE a == Arrived(dev, r, dev.sender, dev.ret)
  <2>1. [dev EXCEPT !.arrived = r] = a
    BY <1>1 DEF DeviceState, Arrived
  <2>2. k \in AllKinds \ {"Reserve"}
    BY <1>1
  <2>3. Sound(a) /\ Leased(a) /\ Meanwhile(dev, a)
    BY <1>1, <2>2, ArrivedLeased
  <2> HIDE DEF a
  <2> QED
    BY <1>1, <1>4, <2>1, <2>2, <2>3, AnswerAtOnceLeased
<1>5. ASSUME Kind(r) = "Free"
      PROVE  StepLeased(dev, AnswerAtOnce([dev EXCEPT !.ret = "OK_SKIPPED"], "Free", "OK_SKIPPED", r))
  <2> DEFINE b == [dev EXCEPT !.ret = "OK_SKIPPED"]
             a == Arrived(dev, r, dev.sender, "OK_SKIPPED")
  <2>1. [b EXCEPT !.arrived = r] = a
    BY <1>1 DEF DeviceState, Arrived
  <2> HIDE DEF b
  <2>2. Sound(a) /\ Leased(a) /\ Meanwhile(dev, a)
    BY <1>1, ArrivedLeased
  <2> HIDE DEF a
  <2>3. StepLeased(dev, AnswerAtOnce(b, "Free", "OK_SKIPPED", r))
    BY <1>1, <1>5, <2>1, <2>2, AnswerAtOnceLeased
  <2> QED
    BY <2>3 DEF b
<1> QED
  BY <1>1, <1>2, <1>3, <1>4, <1>5
     DEF ReceiveFree, ReceiveGetRecentValue, ReceiveGetDeviceStatus,
         ReceiveStartMonitoring, ReceiveStopMonitoring, ReceiveSetRtc, Arrives

\* The actor itself decides about a request to reserve what is reserved.  Its own
\* OK_UPDATED may release the lock only when no request to reserve holds it.
LEMMA ReservedAlreadyLeased ==
    ASSUME IInv, Handed(dev), Leased(dev), RedirectOwners = {}, Renewals = FALSE,
           NEW r \in Requests, ReceiveReserve(r), Reserved(dev)
    PROVE  StepLeased(dev, dev')
<1> DEFINE o == Owner(r)
           st == IF dev.rsv.owner = o THEN "OK_UPDATED" ELSE "OCCUPIED"
           g == [dev.sender EXCEPT !["Reserve"] = r]
           a == Arrived(dev, r, g, st)
<1>1. /\ ReqsOK /\ Sound(dev) /\ dev \in DeviceState
      /\ r = dev.arrived + 1 /\ r \in Clients /\ Asks(r)
      /\ "Reserve" \in AllKinds /\ o \in Owners
  BY OwnerOfAsks DEF IInv, Sound, ReceiveReserve, Arrives, Clients, Requests, AllKinds, Asks
<1>2. dev' = SendReservationStatus(a, r)
  <2>1. a = [dev EXCEPT !.arrived = r, !.sender["Reserve"] = r,
                        !.ret = IF dev.rsv.owner = Owner(r) THEN "OK_UPDATED" ELSE "OCCUPIED"]
    BY <1>1 DEF DeviceState, Arrived
  <2> QED
    BY <2>1 DEF ReceiveReserve
<1>3. dev.rsv.owner = o => "Reserve" \notin dev.locked
  BY DEF ReceiveReserve, MeetsAnother
<1>4. /\ st \in Status /\ st # "None"
      /\ dev.rsv.owner = o => st \in Successes
      /\ dev.rsv.owner # o => st = "OCCUPIED"
  BY DEF Status, Successes, Failures
<1>5. /\ g["Reserve"] = r
      /\ \A k \in AllKinds : k # "Reserve" => g[k] = dev.sender[k]
  BY <1>1 DEF DeviceState
<1> HIDE DEF st
<1>6. /\ Sound(a)
      /\ a.sender = g /\ a.ret = st
      /\ a.queue = dev.queue /\ a.jobs = dev.jobs /\ a.onKill = dev.onKill /\ a.ans = dev.ans
      /\ a.locked = dev.locked /\ a.req = dev.req /\ a.rsv = dev.rsv /\ a.msg = dev.msg
      /\ a.child = dev.child /\ a.sock = dev.sock /\ a.stale = dev.stale
      /\ dev.ans[r] = "none"
  BY <1>1, <1>4, ArrivedHanded
<1> HIDE DEF a, g
<1>7. /\ Replies(a, dev', "Reserve", r) /\ dev'.rsv = a.rsv /\ dev'.ans[r] = st
  BY <1>1, <1>2, <1>4, <1>6, SendReservationStatusReplies DEF Sound
<1>8. dev.rsv.owner # o => dev'.locked = a.locked
  <2>1. CASE dev.rsv.owner # o
    <3>1. dev' = StatusSent(a, r, "Reserve", TRUE)
      BY <1>2, <1>4, <1>6, <2>1 DEF SendReservationStatus, StatusSent
    <3>2. a \in DeviceState
      BY <1>6 DEF Sound
    <3>3. a.ret # "None"
      BY <1>4, <1>6
    <3>4. r \in Clients /\ TRUE \in BOOLEAN
      BY <1>1
    <3>5. StatusSent(a, r, "Reserve", TRUE).locked = a.locked
      BY <3>2, <3>3, <3>4, StatusReplies, ZenonT(30)
    <3> QED
      BY <3>1, <3>5
  <2> QED
    BY <2>1
<1>9. /\ dev'.sender = g /\ dev'.req = dev.req /\ dev'.onKill = dev.onKill
      /\ dev'.jobs = dev.jobs /\ dev'.queue = dev.queue /\ dev'.msg = dev.msg
      /\ dev'.child = dev.child /\ dev'.sock = dev.sock /\ dev'.stale = dev.stale
      /\ dev'.rsv = dev.rsv
      /\ \A s \in Requests : s # r \/ dev.ans[s] # "none" => dev'.ans[s] = dev.ans[s]
  BY <1>6, <1>7 DEF Replies, Releases, Leased
<1>10. Leased(dev')
  <2>1. ASSUME NEW j \in Claimed(dev')
        PROVE  Serves(dev', j)
    <3>1. Serves(dev, j) /\ Asks(j)
      BY <1>9 DEF Claimed, Leased
    <3>2. dev.onKill \/ InLock(dev', j)
      BY <1>3, <1>6, <1>8, <1>9, <3>1 DEF Serves, InLock, Asks
    <3>3. dev'.ans[r] # "none"
      BY <1>4, <1>7 DEF Status, Successes, Failures
    <3> QED
      BY <1>5, <1>9, <3>1, <3>2, <3>3 DEF Serves
  <2>2. \A k \in AllKinds : dev'.sender[k] \in Requests => Kind(dev'.sender[k]) = k
    BY <1>1, <1>5, <1>9 DEF Leased, Asks
  <2>3. dev'.onKill => \A i \in 1 .. Len(dev'.queue) : dev'.ans[dev'.queue[i]] # "none"
    <3>1. \A i \in 1 .. Len(dev.queue) : dev.queue[i] \in Requests
      BY <1>1 DEF DeviceState
    <3> QED
      BY <1>9, <3>1 DEF Leased
  <2> QED
    BY <1>9, <2>1, <2>2, <2>3 DEF Leased, Reserved
<1>11. LeaseStep(dev, dev')
  <2>1. \A s \in Requests \ {r} : dev'.ans[s] = dev.ans[s]
    BY <1>9
  <2>2. CASE dev.rsv.owner = o
    <3>1. Grants(dev, dev', r)
      BY <1>1, <1>4, <1>6, <1>7, <1>9, <2>1, <2>2 DEF Grants, OnlyFails, Reserved
    <3> QED
      BY <3>1 DEF LeaseStep
  <2>3. CASE dev.rsv.owner # o
    <3>1. dev.rsv.owner # NoOwner
      BY DeviceActorAssumption DEF Leased
    <3>2. Refuses(dev, dev', r)
      BY <1>1, <1>4, <1>6, <1>7, <1>9, <2>1, <2>3, <3>1 DEF Refuses
    <3> QED
      BY <3>2 DEF LeaseStep
  <2> QED
    BY <2>2, <2>3
<1> QED
  BY <1>10, <1>11 DEF StepLeased

LEMMA ReceiveReserveLeased ==
    ASSUME IInv, Handed(dev), Leased(dev), RedirectOwners = {}, "Free" \notin SyncKinds,
           Renewals = FALSE, NEW r \in Requests, ReceiveReserve(r)
    PROVE  StepLeased(dev, dev')
<1> DEFINE b == Arrived(dev, r, dev.sender, dev.ret)
<1>1. /\ ReqsOK /\ Sound(dev) /\ dev \in DeviceState
      /\ r = dev.arrived + 1 /\ r \in Clients /\ Kind(r) = "Reserve"
      /\ {"Reserve", "Free"} \subseteq AllKinds
      /\ dev.ret \in Status \cup {"None"}
  <2>1. ReqsOK /\ Sound(dev) /\ dev \in DeviceState
    BY DEF IInv, Sound
  <2>2. r = dev.arrived + 1 /\ r \in Clients /\ Kind(r) = "Reserve"
    BY DEF ReceiveReserve, Arrives, Clients, Requests
  <2>3. dev.ret \in Status \cup {"None"} /\ {"Reserve", "Free"} \subseteq AllKinds
    BY <2>1 DEF DeviceState, AllKinds
  <2> QED
    BY <2>1, <2>2, <2>3
<1>2. CASE Reserved(dev)
  BY <1>2, ReservedAlreadyLeased
<1>3. CASE ~Reserved(dev) /\ dev.onKill
  <2>1. dev' = Reply(b, "Reserve", "NOT_FOUND", r)
    <3>1. b = [dev EXCEPT !.arrived = r]
      BY <1>1 DEF DeviceState, Arrived
    <3> QED
      BY <1>3, <3>1 DEF ReceiveReserve, Reply
  <2>2. Sound(b) /\ Leased(b) /\ Meanwhile(dev, b)
    BY <1>1, ArrivedLeased
  <2>3. b.onKill
    BY <1>3, <1>1 DEF Arrived, DeviceState
  <2> HIDE DEF b
  <2>4. Leased(dev') /\ Meanwhile(b, dev')
    BY <1>1, <2>1, <2>2, <2>3, FailureReply DEF Sound
  <2> QED
    BY <2>2, <2>4, MeanwhileTransitive, MeanwhileSteps
<1>4. CASE ~Reserved(dev) /\ ~dev.onKill
  <2>1. dev' = Enqueue(dev, r)
    BY <1>4 DEF ReceiveReserve
  <2> QED
    BY <1>1, <1>4, <2>1, EnqueueLeased
<1> QED
  BY <1>2, <1>3, <1>4

\* What the theorem supposes.
LeaseConditions ==
    /\ RedirectOwners = {}
    /\ ExternalUpdates = FALSE
    /\ LateReplies = FALSE
    /\ Renewals = FALSE
    /\ "Free" \notin SyncKinds

LInv == IInv /\ Handed(dev) /\ Leased(dev)

LEMMA InitLeased == Init => LInv
<1> SUFFICES ASSUME Init PROVE LInv
  OBVIOUS
<1>1. IInv /\ Handed(dev)
  BY InitSound, InitHanded
<1>2. /\ dev.child = "none" /\ dev.sock = "none" /\ dev.stale = 0
      /\ ~Reserved(dev) /\ \A k \in AllKinds : dev.sender[k] = 0
      /\ dev.msg = 0 /\ ~dev.onKill /\ dev.jobs = {}
  BY DEF Init, Reserved, NoReservation, NoReq
<1>3. Leased(dev)
  BY <1>2 DEF Leased, Claimed, Requests
<1> QED
  BY <1>1, <1>3 DEF LInv

\* As time passes the backend is expected to answer fewer requests.
LEMMA TickLeased ==
    ASSUME IInv, Leased(dev), Tick
    PROVE  Leased(dev)' /\ LeaseStep(dev, dev')
<1>1. /\ dev' = dev /\ reqs' = reqs /\ aged' = aged + 1 /\ aged \in Nat
      /\ dev.jobs \subseteq Nat
  BY DEF Tick, IInv, Sound, DeviceState, Requests
<1>2. Claimed(dev)' \subseteq Claimed(dev)
  BY <1>1 DEF Claimed, Old, Asks, Kind
<1>3. Leased(dev)'
  BY <1>1, <1>2 DEF Leased, Serves, InLock, Asks, Kind, Reserved
<1>4. LeaseStep(dev, dev')
  BY <1>1, MeanwhileReflexive, MeanwhileReturns DEF LeaseStep
<1> QED
  BY <1>3, <1>4

LEMMA SameTimeLeased ==
    ASSUME Leased(dev'), UNCHANGED <<reqs, aged>>
    PROVE  Leased(dev)'
BY DEF Leased, Claimed, Serves, InLock, Asks, Kind, Old, Reserved

LEMMA NextLeased ==
    ASSUME LeaseConditions, LInv, Next
    PROVE  Leased(dev)' /\ LeaseStep(dev, dev') /\ UNCHANGED reqs
<1> USE DEF LeaseConditions, LInv
<1>1. CASE Tick
  BY <1>1, TickLeased DEF Tick
<1>2. ASSUME NEW r \in Requests, Receive(r)
      PROVE  StepLeased(dev, dev') /\ UNCHANGED <<reqs, aged>>
  <2>1. UNCHANGED <<reqs, aged>>
    BY <1>2 DEF Receive, ReceiveReserve, ReceiveFree, ReceiveGetRecentValue,
           ReceiveGetDeviceStatus, ReceiveStartMonitoring, ReceiveStopMonitoring,
           ReceiveSetRtc, Arrives
  <2> QED
    BY <1>2, <2>1, ReceiveReserveLeased, ReceiveOtherLeased DEF Receive
<1>3. ASSUME \/ \E r \in Requests : \/ \E st \in Outcomes : BackendReply(r, st)
                                    \/ LoseReply(r)
                                    \/ RetryWakeup(r)
                                    \/ TimeoutWakeup(r)
             \/ \E o \in Owners, a \in BOOLEAN : SetDeviceStatus(o, a)
             \/ Kill
             \/ ActorExit
             \/ Redirector
      PROVE  StepLeased(dev, dev') /\ UNCHANGED <<reqs, aged>>
  <2>1. UNCHANGED <<reqs, aged>>
    BY <1>3 DEF BackendReply, LoseReply, RetryWakeup, TimeoutWakeup, SetDeviceStatus, Kill,
           ActorExit, Redirector, RedirectorSetup, RedirectorKilled, SocketClosed,
           ReceiveSocketMsg, ReceiveChildActorExited, ReceiveChildActorExitedAgain
  <2> QED
    BY <1>3, <2>1, WorkLeased
<1> QED
  BY <1>1, <1>2, <1>3, SameTimeLeased DEF Next, StepLeased

LEMMA StepRefines ==
    ASSUME LeaseConditions, LInv, [Next]_vars
    PROVE  LInv' /\ [Lease!LeaseNext]_Lease!leaseVars
<1>1. IInv' /\ Handed(dev)'
  BY StepSound, NextHanded DEF LInv, StepHanded
<1>2. CASE Next
  <2>1. Leased(dev)' /\ LeaseStep(dev, dev') /\ UNCHANGED reqs
    BY <1>2, NextLeased
  <2>2. ReqsOK /\ dev \in DeviceState /\ dev' \in DeviceState
    BY <1>1 DEF LInv, IInv, Sound
  <2> QED
    BY <1>1, <2>1, <2>2, LeaseStepRefines DEF LInv
<1>3. CASE UNCHANGED vars
  <2>1. Leased(dev)'
    BY <1>3, SameTimeLeased DEF LInv, vars
  <2>2. UNCHANGED Lease!leaseVars
    BY <1>3 DEF vars, Lease!leaseVars, Reserved, Owner, Kind
  <2> QED
    BY <1>1, <2>1, <2>2 DEF LInv
<1> QED
  BY <1>2, <1>3

\* The reservation is an exclusive lease: it has one owner at a time, goes to
\* another one only after it was given back, and whoever is told OK has it at
\* that moment (on_receive_ReserveDeviceMsg, _handle_reserve_reply_from_is).  It
\* holds for any number of requests and owners when no redirector is needed,
\* nobody else changes the reservation, the backend answers within 20 s or not at
\* all, freeing is not answered inside the worker, and no owner renews its
\* reservation while another request to reserve is being served.
THEOREM ReservationKept ==
    ASSUME RedirectOwners = {}, ExternalUpdates = FALSE, LateReplies = FALSE,
           Renewals = FALSE, "Free" \notin SyncKinds
    PROVE  Spec => ReservationIsLease
<1>1. Init => LInv /\ Lease!LeaseInit
  BY InitLeased, LeaseInits
<1>2. LInv /\ [Next]_vars => LInv' /\ [Lease!LeaseNext]_Lease!leaseVars
  BY StepRefines DEF LeaseConditions
<1> QED
  BY <1>1, <1>2, PTL DEF Spec, ReservationIsLease, Lease!LeaseSpec

LEMMA StepGrants ==
    ASSUME LeaseConditions, LInv, Next, NEW r \in Requests, Asks(r),
           dev.ans[r] = "none", dev'.ans[r] \in Successes
    PROVE  Reserved(dev') /\ dev'.rsv.owner = Owner(r)
<1>1. LeaseStep(dev, dev')
  BY NextLeased
<1>2. dev'.ans[r] # dev.ans[r] /\ dev'.ans[r] \notin Failed /\ dev'.ans[r] # "OCCUPIED"
  BY NotFailed DEF Successes
<1> QED
  BY <1>1, <1>2 DEF LeaseStep, Returns, Grants, Refuses, OnlyFails

\* Whoever is told OK has the reservation, also where the actor answers itself
\* (_send_reservation_status_msg): under the same conditions the
\* promise that renewals break is kept.
THEOREM GrantsHold ==
    ASSUME RedirectOwners = {}, ExternalUpdates = FALSE, LateReplies = FALSE,
           Renewals = FALSE, "Free" \notin SyncKinds
    PROVE  Spec => GrantedHasReservation
<1> DEFINE A == \A r \in Requests :
                  Kind(r) = "Reserve" /\ dev.ans[r] = "none" /\ dev'.ans[r] \in Successes
                     => Reserved(dev') /\ dev'.rsv.owner = Owner(r)
<1>1. Init => LInv
  BY InitLeased
<1>2. LInv /\ [Next]_vars => LInv'
  BY StepRefines DEF LeaseConditions
<1>3. LInv /\ [Next]_vars => [A]_vars
  BY StepGrants DEF LeaseConditions, Asks
<1> QED
  BY <1>1, <1>2, <1>3, PTL DEF Spec, GrantedHasReservation

=============================================================================
