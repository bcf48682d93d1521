----------------------------- MODULE Monitoring -----------------------------
(***************************************************************************)
(* The monitoring mode of a USB device actor (usb_actor.py): an instrument   *)
(* is started and its values are fetched at intervals.  The mode reserves the *)
(* instrument, is suspended when somebody frees it, and resumes when nobody    *)
(* else has it.  Whatever talks to the instrument runs in one inner thread;    *)
(* a thread that finds another one alive tries again half a second later.      *)
(* Requests wait for the lock of a reservation that is under way, as in        *)
(* module DeviceActor.  Operators that stand for methods take the state of the *)
(* actor and return the one they leave, for they call each other.              *)
(***************************************************************************)
EXTENDS Naturals, Sequences

CONSTANT MaxRequests \* bound: requests of clients

ASSUME BoundAssumption == MaxRequests \in Nat

Starts == {"Start", "StartLater"}
Kinds == Starts \cup {"Reserve", "Free", "Stop", "SetRtc"}
Apps == {"app", "monitoring", "set-rtc"}
Threads == {"setup", "check", "poll", "startmon", "fetch", "missed"}
Configs == {"active", "inactive", "wrong", "no cycle"}

VARIABLES
    config,    \* the section [monitoring], with one value that has an interval
    requests,  \* how many there were
    actor      \* the device actor
vars == <<config, requests, actor>>

ActorStates ==
    [alive    : BOOLEAN,                \* not on_kill
     owner    : Apps \cup {"none"},     \* the app of an active Reservation
     msg      : Apps \cup {"none"},     \* the app of reserve_device_msg
     lock     : BOOLEAN,                \* the lock Reserve; no other outlives its handler
     queue    : Seq(Kinds),             \* request_queue
     shall    : BOOLEAN,                \* monitoring_shall_be_active
     active   : BOOLEAN,                \* monitoring_active
     missed   : BOOLEAN,                \* _missed_monitoring_values is not empty
     rtc      : BOOLEAN,                \* _set_rtc_pending
     thread   : Threads \cup {"setup2", "reading", "none"}, \* inner_thread, how far it is
     waiting  : [Threads -> Nat],       \* how many threads of a kind try again
     starts   : Nat,                    \* timers "start_monitoring"
     resumes  : Nat,                    \* timers "resume_monitoring"
     fetches  : Nat,                    \* timers for the next value
     \* History, which no guard reads:
     cut      : BOOLEAN, \* the last start has ended suspended, and no timer fetches values
     crossed  : BOOLEAN] \* reserve_device_msg was overwritten while an application's check ran

Init ==
    /\ config \in Configs
    /\ requests = 0
    /\ actor = [alive |-> TRUE, owner |-> "none", msg |-> "none", lock |-> FALSE, queue |-> <<>>,
                shall |-> FALSE, active |-> FALSE, missed |-> FALSE, rtc |-> FALSE,
                thread |-> "setup", waiting |-> [t \in Threads |-> 0],
                starts |-> 0, resumes |-> 0, fetches |-> 0, cut |-> FALSE, crossed |-> FALSE]

(***************************************************************************)
(* Methods.                                                                 *)
(***************************************************************************)
\* _start_thread; the thread of a timer that runs down counts as waiting.
StartThread(t, s) ==
    IF s.thread = "none" THEN [s EXCEPT !.thread = t] ELSE [s EXCEPT !.waiting[t] = @ + 1]
Alive(t, s) == s.thread = t \/ s.waiting[t] > 0
Chain(s) == s.fetches > 0 \/ Alive("fetch", s)

\* reserve_device_msg, which a reply reads that may come much later.
Write(app, s) ==
    [s EXCEPT !.msg = app, !.crossed = @ \/ (app # "app" /\ Alive("check", s))]

\* _handle_reserve_reply_from_is after _fifo: the lock is released in any case,
\* and who has the instrument keeps it.
Granted(s) == [s EXCEPT !.lock = FALSE, !.owner = IF @ = "none" THEN s.msg ELSE @]

\* _request_free_at_is, with the suspension of the monitoring mode.
FreeAndForget(s) == \* mutant: nobody thinks of resuming
    [s EXCEPT !.owner = "none", !.active = @ /\ ~s.shall]
Freed(s) ==
    IF s.shall /\ s.active
    THEN [s EXCEPT !.owner = "none", !.active = FALSE, !.resumes = @ + 1]
    ELSE [s EXCEPT !.owner = "none"]

\* _request_reserve_at_is: while the clock waits to be set the lock stays until
\* the request has timed out.
Reserve(s) ==
    CASE s.rtc -> [Write("set-rtc", s) EXCEPT !.lock = TRUE]
      [] ~s.rtc /\ s.owner # "none" -> Granted(Write("app", s))
      [] OTHER -> StartThread("check", [Write("app", s) EXCEPT !.lock = TRUE])

\* _request_stop_monitoring_at_is.
StopAndCancel(s) == \* mutant: takes back a start timer, whether there is one or not
    [s EXCEPT !.shall = FALSE, !.starts = @ - 1]
Stop(s) ==
    IF s.owner # "none" /\ s.active
    THEN [s EXCEPT !.shall = FALSE, !.active = FALSE, !.owner = "none"]
    ELSE [s EXCEPT !.shall = FALSE]

Other(kind, s) ==
    CASE kind = "Reserve" -> Reserve(s)
      [] kind = "Free" -> Freed(s)
      [] kind = "Stop" -> Stop(s)
      [] kind = "SetRtc" -> [s EXCEPT !.rtc = TRUE] \* at the next full minute

\* _fifo(None) with anything but a start at the head of the queue.
ServeOther(s) ==
    IF s.lock \/ s.queue = <<>> \/ Head(s.queue) \in Starts
    THEN s
    ELSE Other(Head(s.queue), [s EXCEPT !.queue = Tail(@)])

\* _request_start_monitoring_at_is once it has reserved.  An error in the
\* configuration frees the instrument, and the lock is released by then: the next
\* request is served first.  (A start that comes next is left to Serve, which
\* takes it up with the same result.)
Begin(later, s) ==
    CASE config = "wrong" -> Freed(ServeOther([s EXCEPT !.shall = FALSE]))
      [] config # "wrong" /\ later -> [s EXCEPT !.shall = (config # "inactive"), !.starts = @ + 1]
      [] OTHER -> StartThread("startmon", [s EXCEPT !.shall = (config # "inactive")])
Start(later, s) == Begin(later, Granted(Write("monitoring", s)))

Work(kind, s) ==
    IF kind \in Starts THEN Start(kind = "StartLater", s) ELSE Other(kind, s)

\* _fifo(None): the worker of the request at the head finds the lock or works.
Fifo(s) ==
    IF s.lock \/ s.queue = <<>>
    THEN s
    ELSE Work(Head(s.queue), [s EXCEPT !.queue = Tail(@)])

\* _kill_myself.
Killed(s) == [s EXCEPT !.alive = FALSE, !.active = FALSE]

Step(s) == actor.alive /\ actor' = s /\ UNCHANGED <<config, requests>>

(***************************************************************************)
(* Requests.                                                                *)
(***************************************************************************)
\* Requests that are answered when they arrive, and change nothing.
Refused(kind) ==
    \/ kind \in {"Reserve", "Start", "StartLater"} /\ actor.owner # "none"
    \/ kind = "Stop" /\ actor.owner = "none"

\* To free what nobody has serves the queue first, and frees what that reserved.
Receive(kind) ==
    /\ actor.alive /\ requests < MaxRequests /\ ~Refused(kind)
    /\ requests' = requests + 1
    /\ actor' = IF kind = "Free" /\ actor.owner = "none"
                THEN [Fifo(actor) EXCEPT !.owner = "none"]
                ELSE Fifo([actor EXCEPT !.queue = Append(@, kind)])
    /\ UNCHANGED config

\* The next request in the queue, after a retry or the refusal of another.
Serve == ~actor.lock /\ actor.queue # <<>> /\ Step(Fifo(actor))

\* The 20 s of a request are over.  A request that waits behind it finds that the
\* lock is too old, and ends the actor.
LockTimeout ==
    /\ actor.lock
    /\ Step(IF actor.queue = <<>> THEN [actor EXCEPT !.lock = FALSE] ELSE Killed(actor))

(***************************************************************************)
(* Threads.                                                                 *)
(***************************************************************************)
\* receiveMsg_WakeupMessage with a thread as payload.
StartWaiting(t) ==
    /\ actor.waiting[t] > 0 /\ actor.thread = "none"
    /\ Step([actor EXCEPT !.thread = t, !.waiting[t] = @ - 1])

Exit(s) == Step([s EXCEPT !.thread = "none"])

\* _setup reads the configuration, may set the clock, and starts the mode if that
\* is still wanted.  No lock is held, so the queue moves at each reply.
SetupReads ==
    /\ actor.thread = "setup"
    /\ LET s == [actor EXCEPT !.thread = "setup2", !.shall = (config # "inactive")]
       IN  Step(s) \/ Step(Fifo([s EXCEPT !.rtc = TRUE]))
SetupEnds ==
    /\ actor.thread = "setup2"
    /\ Exit(IF actor.shall
            THEN Begin(FALSE, Fifo(Granted(Fifo(Write("monitoring", actor)))))
            ELSE actor)

\* _check_connection and _finish_reserve: the instrument answers, or it is gone.
CheckEnds ==
    actor.thread = "check" /\ (Exit(Granted(Fifo(actor))) \/ Exit(Killed(actor)))

\* The regular check, for an instrument nobody has reserved, and _finish_poll.
Poll ==
    /\ actor.owner = "none" /\ actor.thread = "none"
    /\ Step([actor EXCEPT !.thread = "poll"])
PollEnds ==
    actor.thread = "poll" /\ (Exit(actor) \/ Exit(Killed(actor)))

\* _start_monitoring_function sets clock and cycle; without a cycle it frees the
\* instrument and that is all.
StartMonitoring ==
    /\ actor.thread = "startmon"
    /\ IF config = "no cycle"
       THEN Exit(Freed(Fifo([actor EXCEPT !.active = FALSE])))
       ELSE Step([actor EXCEPT !.active = TRUE, !.thread = "reading"])

\* Then it reads from the instrument what the value is about, and sets the first
\* timer unless the mode has been suspended meanwhile.
StartMonitoringEnds ==
    /\ actor.thread = "reading"
    /\ \/ Exit(IF actor.active
               THEN [actor EXCEPT !.fetches = @ + 1, !.cut = FALSE]
               ELSE [actor EXCEPT !.cut = ~Chain(actor)])
       \/ ~actor.rtc /\ Exit(Killed(actor))

\* _get_recent_value_for_monitoring: the next timer first, then the value.
Fetched(t, next) ==
    /\ actor.thread = t
    /\ Exit([actor EXCEPT !.fetches = IF t = "fetch" THEN @ + next ELSE @,
                          !.missed = @ \/ ~actor.active])
FetchOnlyWhenActive(t) == Fetched(t, IF actor.active THEN 1 ELSE 0) \* mutant: no timer when suspended
FetchEnds(t) == Fetched(t, 1)
\* No answer: the instrument is gone.
FetchFails(t) == actor.thread = t /\ actor.active /\ ~actor.rtc /\ Exit(Killed(actor))

(***************************************************************************)
(* Timers.                                                                  *)
(***************************************************************************)
StartTimer ==
    actor.starts > 0 /\ Step(StartThread("startmon", [actor EXCEPT !.starts = @ - 1]))

FetchTimer ==
    actor.fetches > 0 /\ Step(StartThread("fetch", [actor EXCEPT !.fetches = @ - 1]))

\* "resume_monitoring": the actor reserves for itself, which moves the queue,
\* releases the lock of an application and gives the instrument to whom
\* reserve_device_msg names by then; the mode is active whatever came out.
Resumed(s) ==
    LET r == [Granted(Fifo(Write("monitoring", s))) EXCEPT !.active = TRUE]
    IN  [IF s.missed THEN StartThread("missed", r) ELSE r
         EXCEPT !.missed = FALSE, !.resumes = @ - 1]

\* The timer is set again unless the mode is resumed or not wanted any more, also
\* when it is active.
ResumeOnce == \* mutant: the timer is not set again while an application has reserved
    /\ actor.resumes > 0
    /\ Step(IF actor.shall /\ ~actor.active /\ actor.owner = "none"
            THEN Resumed(actor) ELSE [actor EXCEPT !.resumes = @ - 1])
Resume ==
    /\ actor.resumes > 0
    /\ Step(CASE ~actor.shall -> [actor EXCEPT !.resumes = @ - 1]
              [] actor.shall /\ ~actor.active /\ actor.owner = "none" -> Resumed(actor)
              [] OTHER -> actor)

\* "set_rtc", and "request_set_rtc_at_is" once a week.
RtcTimer == actor.rtc /\ Step([actor EXCEPT !.rtc = FALSE])
RtcWeekly == actor.thread # "setup" /\ Step(Fifo([actor EXCEPT !.rtc = TRUE]))

ThreadEnds ==
    \/ SetupReads \/ SetupEnds \/ CheckEnds \/ PollEnds \/ StartMonitoring \/ StartMonitoringEnds
    \/ \E t \in {"fetch", "missed"} : FetchEnds(t) \/ FetchFails(t)

Next ==
    \/ \E kind \in Kinds : Receive(kind)
    \/ Serve \/ LockTimeout
    \/ \E t \in Threads : StartWaiting(t)
    \/ ThreadEnds \/ Poll
    \/ StartTimer \/ FetchTimer \/ Resume \/ RtcTimer \/ RtcWeekly

\* Threads end, timers run down, and a thread that tries twice a second finds a
\* gap between the others, which come at intervals of seconds.
Fairness ==
    /\ WF_vars(ThreadEnds) /\ \A t \in Threads : SF_vars(StartWaiting(t))
    /\ WF_vars(StartTimer) /\ WF_vars(FetchTimer) /\ WF_vars(Resume) /\ WF_vars(RtcTimer)
    /\ WF_vars(Serve) /\ WF_vars(LockTimeout)
Spec == Init /\ [][Next]_vars /\ Fairness

(***************************************************************************)
(* Properties.                                                              *)
(***************************************************************************)
TypeOK == config \in Configs /\ requests \in 0..MaxRequests /\ actor \in ActorStates

\* A monitoring mode that is wanted and not active will be: the start or the
\* attempt to resume is under way, whatever was reserved, freed, started and
\* stopped in between.  (Not without a cycle in the configuration, which
\* _start_monitoring_function finds too late.)
Pending(s) ==
    s.alive /\ s.shall /\ ~s.active /\ config # "no cycle" =>
        s.resumes > 0 \/ s.starts > 0 \/ Alive("startmon", s) \/ s.thread = "setup2"
StartIsPending == Pending(actor)

\* While the mode is active the next value is waited for or fetched, or the start
\* has yet to begin with it; a suspension does not break the chain.  (The one
\* that falls into the start itself does, and the mode is resumed without values.)
Unbroken(s) == s.alive /\ s.active /\ ~s.cut => Chain(s) \/ s.thread = "reading"
ValuesKeepComing == Unbroken(actor)

\* A mode that is wanted is active again and again, or an application has the
\* instrument, or it is gone.  (Not without a cycle; and the reply to an
\* application whose reservation was overtaken by the mode's own may reserve in
\* the name of a mode that has been suspended since.)
MonitoringResumes ==
    []<>(\/ actor.active \/ ~actor.shall \/ actor.owner = "app" \/ ~actor.alive
         \/ config = "no cycle" \/ actor.crossed)
=============================================================================
