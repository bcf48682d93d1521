--------------------------- MODULE Monitoring_proofs ---------------------------
(***************************************************************************)
(* Proofs about the monitoring mode of a USB device actor for any number of  *)
(* requests: a mode that is wanted is active or about to be, and the chain    *)
(* of timers and threads that fetches the values is broken by nothing but a    *)
(* suspension during the start.                                              *)
(***************************************************************************)
EXTENDS Monitoring, TLAPS, SequenceTheorems

\* Also a mode that waits to be resumed has its chain, which StartMonitoringEnds
\* has begun and no suspension ends.
Kept(s) == s.alive /\ (s.active \/ s.resumes > 0) /\ ~s.cut => Chain(s) \/ s.thread = "reading"

Good(s) == s \in ActorStates /\ Pending(s) /\ Kept(s)
Sound == config \in Configs /\ requests \in 0..MaxRequests /\ Good(actor)

LEMMA InitSound == Init => Sound
<1> SUFFICES ASSUME Init PROVE Sound
    OBVIOUS
<1>1. config \in Configs /\ requests \in 0..MaxRequests
    BY BoundAssumption DEF Init
<1>2. actor \in ActorStates
    BY DEF Init, ActorStates, Threads
<1>3. Pending(actor) /\ Kept(actor)
    BY DEF Init, Pending, Kept
<1> QED
    BY <1>1, <1>2, <1>3 DEF Sound, Good

(***************************************************************************)
(* Methods leave a good state behind, a thread that is alive in its place, and  *)
(* timers that are to resume the mode.                                        *)
(***************************************************************************)
Leaves(s, r) ==
    /\ Good(r)
    /\ s.thread # "none" => r.thread = s.thread
    /\ s.resumes > 0 => r.resumes > 0

\* What the invariant does not look at.
SameMode(s, r) ==
    /\ r \in ActorStates
    /\ r.thread = s.thread /\ r.alive = s.alive /\ r.shall = s.shall /\ r.active = s.active
    /\ r.resumes = s.resumes /\ r.starts = s.starts /\ r.fetches = s.fetches /\ r.cut = s.cut
    /\ r.waiting = s.waiting

LEMMA SameGood ==
    ASSUME NEW s, Good(s), NEW r, SameMode(s, r)
    PROVE  Leaves(s, r)
BY DEF SameMode, Leaves, Good, Pending, Kept, Chain, Alive

LEMMA TypesOfSets ==
    /\ "none" \notin Threads /\ "setup2" \notin Threads /\ "reading" \notin Threads
    /\ \A t \in {"setup", "check", "poll", "startmon", "fetch", "missed"} : t \in Threads
    /\ \A k \in {"Start", "StartLater", "Reserve", "Free", "Stop", "SetRtc"} : k \in Kinds
BY DEF Threads, Kinds, Starts

\* A thread that is to be started is alive from then on, like the others.
LEMMA StartThreadGood ==
    ASSUME NEW s, Good(s), NEW t \in Threads
    PROVE  Leaves(s, StartThread(t, s)) /\ Alive(t, StartThread(t, s))
<1> DEFINE r == StartThread(t, s)
<1>1. CASE s.thread = "none"
    <2>1. r = [s EXCEPT !.thread = t]
        BY <1>1 DEF StartThread
    <2> QED
        BY <1>1, <2>1, TypesOfSets DEF Leaves, Good, ActorStates, Pending, Kept, Chain, Alive
<1>2. CASE s.thread # "none"
    <2>1. r = [s EXCEPT !.waiting = [s.waiting EXCEPT ![t] = @ + 1]]
        BY <1>2 DEF StartThread, Good, ActorStates
    <2>2. [s.waiting EXCEPT ![t] = @ + 1] \in [Threads -> Nat]
        BY DEF Good, ActorStates
    <2>3. r \in ActorStates
        BY <2>1, <2>2 DEF Good, ActorStates
    <2>4. \A u \in Threads : Alive(u, s) => Alive(u, r)
        BY <2>1 DEF Good, ActorStates, Alive
    <2>5. Alive(t, r)
        BY <2>1 DEF Good, ActorStates, Alive
    <2>6. /\ r.thread = s.thread /\ r.alive = s.alive /\ r.shall = s.shall /\ r.active = s.active
          /\ r.resumes = s.resumes /\ r.starts = s.starts /\ r.fetches = s.fetches /\ r.cut = s.cut
        BY <2>1 DEF Good, ActorStates
    <2> QED
        BY <2>3, <2>4, <2>5, <2>6, TypesOfSets DEF Leaves, Good, Pending, Kept, Chain
<1> QED
    BY <1>1, <1>2

LEMMA WriteGood ==
    ASSUME NEW s, Good(s), NEW app \in Apps
    PROVE  Leaves(s, Write(app, s))
<1>1. SameMode(s, Write(app, s))
    BY DEF SameMode, Write, Good, ActorStates
<1> QED
    BY <1>1, SameGood

LEMMA GrantedGood ==
    ASSUME NEW s, Good(s)
    PROVE  Leaves(s, Granted(s))
<1>1. SameMode(s, Granted(s))
    BY DEF SameMode, Granted, Good, ActorStates
<1> QED
    BY <1>1, SameGood

\* The attributes without a part in it.
LEMMA SetGood ==
    ASSUME NEW s, Good(s), NEW b \in BOOLEAN
    PROVE  /\ Leaves(s, [s EXCEPT !.lock = b]) /\ Leaves(s, [s EXCEPT !.rtc = b])
           /\ Leaves(s, [s EXCEPT !.owner = "none"])
<1>1. SameMode(s, [s EXCEPT !.lock = b])
    BY DEF SameMode, Good, ActorStates
<1>2. SameMode(s, [s EXCEPT !.rtc = b])
    BY DEF SameMode, Good, ActorStates
<1>3. SameMode(s, [s EXCEPT !.owner = "none"])
    BY DEF SameMode, Good, ActorStates
<1> QED
    BY <1>1, <1>2, <1>3, SameGood

\* A suspended mode has its timer, and the chain it had.
LEMMA FreedGood ==
    ASSUME NEW s, Good(s)
    PROVE  Leaves(s, Freed(s))
<1>1. CASE s.shall /\ s.active
    <2> DEFINE n == s.resumes + 1
               r == [s EXCEPT !.owner = "none", !.active = FALSE, !.resumes = n]
    <2>1. Freed(s) = r
        BY <1>1 DEF Freed, Good, ActorStates
    <2>0. n \in Nat /\ n > 0
        BY DEF Good, ActorStates
    <2> HIDE DEF n
    <2>2. r \in ActorStates
        BY <2>0 DEF Good, ActorStates
    <2>3. /\ r.thread = s.thread /\ r.alive = s.alive /\ r.resumes > 0
          /\ r.fetches = s.fetches /\ r.cut = s.cut /\ r.waiting = s.waiting
        BY <2>0 DEF Good, ActorStates
    <2> QED
        BY <1>1, <2>1, <2>2, <2>3 DEF Leaves, Good, Pending, Kept, Chain, Alive
<1>2. CASE ~(s.shall /\ s.active)
    BY <1>2, SetGood DEF Freed
<1> QED
    BY <1>1, <1>2

LEMMA ReserveGood ==
    ASSUME NEW s, Good(s)
    PROVE  Leaves(s, Reserve(s))
<1>1. "app" \in Apps /\ "set-rtc" \in Apps /\ "check" \in Threads
    BY DEF Apps, Threads
<1>2. ASSUME NEW r, Leaves(s, r) PROVE Leaves(s, [r EXCEPT !.lock = TRUE])
    BY <1>2, SetGood DEF Leaves
<1>3. CASE s.rtc
    BY <1>1, <1>2, <1>3, WriteGood DEF Reserve
<1>4. CASE ~s.rtc /\ s.owner # "none"
    BY <1>1, <1>4, WriteGood, GrantedGood DEF Reserve, Leaves
<1>5. CASE ~s.rtc /\ s.owner = "none"
    <2> DEFINE r == [Write("app", s) EXCEPT !.lock = TRUE]
    <2>1. Leaves(s, r)
        BY <1>1, <1>2, WriteGood
    <2>2. Reserve(s) = StartThread("check", r)
        BY <1>5 DEF Reserve
    <2> HIDE DEF r
    <2> QED
        BY <1>1, <2>1, <2>2, StartThreadGood DEF Leaves
<1> QED
    BY <1>3, <1>4, <1>5

LEMMA OtherGood ==
    ASSUME NEW s, Good(s), NEW kind \in Kinds \ Starts
    PROVE  Leaves(s, Other(kind, s))
<1>1. Leaves(s, Stop(s))
    <2>1. Stop(s) \in ActorStates
        BY DEF Stop, Good, ActorStates
    <2>2. /\ Stop(s).thread = s.thread /\ Stop(s).alive = s.alive /\ Stop(s).resumes = s.resumes
          /\ Stop(s).fetches = s.fetches /\ Stop(s).cut = s.cut /\ Stop(s).waiting = s.waiting
          /\ Stop(s).shall = FALSE /\ (Stop(s).active => s.active)
        BY DEF Stop, Good, ActorStates
    <2> QED
        BY <2>1, <2>2 DEF Leaves, Good, Pending, Kept, Chain, Alive
<1>2. kind \in {"Reserve", "Free", "Stop", "SetRtc"}
    BY DEF Kinds
<1> QED
    BY <1>1, <1>2, ReserveGood, FreedGood, SetGood DEF Other

\* What is at the head of the queue is a request, and the rest is a queue.
LEMMA TakenGood ==
    ASSUME NEW s, Good(s), s.queue # <<>>
    PROVE  Head(s.queue) \in Kinds /\ Leaves(s, [s EXCEPT !.queue = Tail(@)])
<1>1. Head(s.queue) \in Kinds /\ Tail(s.queue) \in Seq(Kinds)
    BY HeadTailProperties DEF Good, ActorStates
<1>2. SameMode(s, [s EXCEPT !.queue = Tail(@)])
    BY <1>1 DEF SameMode, Good, ActorStates
<1> QED
    BY <1>1, <1>2, SameGood

LEMMA ServeOtherGood ==
    ASSUME NEW s, Good(s)
    PROVE  Leaves(s, ServeOther(s))
<1>1. Leaves(s, s)
    BY DEF Leaves
<1> QED
    BY <1>1, TakenGood, OtherGood DEF ServeOther, Leaves

\* A mode that is not wanted is not wanted after other requests than a start.
LEMMA NotWantedStays ==
    ASSUME NEW s, Good(s), s.shall = FALSE
    PROVE  ServeOther(s).shall = FALSE /\ Freed(s).shall = FALSE
<1>1. ASSUME NEW r, Good(r), r.shall = FALSE, NEW kind \in Kinds \ Starts
      PROVE  Other(kind, r).shall = FALSE
    <2>1. kind \in {"Reserve", "Free", "Stop", "SetRtc"}
        BY DEF Kinds
    <2>2. Reserve(r).shall = FALSE
        BY <1>1 DEF Reserve, Write, Granted, StartThread, Good, ActorStates
    <2>3. Freed(r).shall = FALSE /\ Stop(r).shall = FALSE /\ [r EXCEPT !.rtc = TRUE].shall = FALSE
        BY <1>1 DEF Freed, Stop, Good, ActorStates
    <2> QED
        BY <2>1, <2>2, <2>3 DEF Other
<1>2. CASE s.lock \/ s.queue = <<>> \/ Head(s.queue) \in Starts
    BY <1>2 DEF ServeOther, Freed, Good, ActorStates
<1>3. CASE ~(s.lock \/ s.queue = <<>> \/ Head(s.queue) \in Starts)
    <2>1. /\ Head(s.queue) \in Kinds \ Starts
          /\ Good([s EXCEPT !.queue = Tail(@)]) /\ [s EXCEPT !.queue = Tail(@)].shall = FALSE
        BY <1>3, TakenGood DEF Leaves, Good, ActorStates
    <2> QED
        BY <1>1, <1>3, <2>1 DEF ServeOther, Freed, Good, ActorStates
<1> QED
    BY <1>2, <1>3

\* After a start the thread is on its way or its timer is, or the mode is not wanted.
LEMMA BeginGood ==
    ASSUME NEW s, Good(s), config \in Configs, NEW later \in BOOLEAN
    PROVE  /\ Leaves(s, Begin(later, s))
           /\ \/ Begin(later, s).shall = FALSE
              \/ Begin(later, s).starts > 0 \/ Alive("startmon", Begin(later, s))
<1>1. CASE config = "wrong"
    <2> DEFINE q == [s EXCEPT !.shall = FALSE]
    <2>1. Leaves(s, q) /\ q.shall = FALSE
        <3>1. q \in ActorStates
            BY DEF Good, ActorStates
        <3>2. /\ q.thread = s.thread /\ q.alive = s.alive /\ q.resumes = s.resumes
              /\ q.fetches = s.fetches /\ q.cut = s.cut /\ q.waiting = s.waiting
              /\ q.shall = FALSE /\ q.active = s.active
            BY DEF Good, ActorStates
        <3> QED
            BY <3>1, <3>2 DEF Leaves, Good, Pending, Kept, Chain, Alive
    <2>2. Begin(later, s) = Freed(ServeOther(q))
        BY <1>1 DEF Begin
    <2> HIDE DEF q
    <2>3. Leaves(q, ServeOther(q)) /\ ServeOther(q).shall = FALSE
        BY <2>1, ServeOtherGood, NotWantedStays DEF Leaves
    <2>4. Leaves(ServeOther(q), Freed(ServeOther(q))) /\ Freed(ServeOther(q)).shall = FALSE
        BY <2>3, FreedGood, NotWantedStays DEF Leaves
    <2> QED
        BY <2>1, <2>2, <2>3, <2>4 DEF Leaves
<1>2. CASE config # "wrong" /\ later
    <2> DEFINE n == s.starts + 1
               w == (config # "inactive")
               r == [s EXCEPT !.shall = w, !.starts = n]
    <2>1. Begin(later, s) = r
        BY <1>2 DEF Begin, Good, ActorStates
    <2>0. n \in Nat /\ n > 0 /\ w \in BOOLEAN
        BY DEF Good, ActorStates
    <2> HIDE DEF n, w
    <2>2. r \in ActorStates
        BY <2>0 DEF Good, ActorStates
    <2>3. /\ r.thread = s.thread /\ r.alive = s.alive /\ r.resumes = s.resumes /\ r.active = s.active
          /\ r.fetches = s.fetches /\ r.cut = s.cut /\ r.waiting = s.waiting /\ r.starts > 0
        BY <2>0 DEF Good, ActorStates
    <2> QED
        BY <2>1, <2>2, <2>3 DEF Leaves, Good, Pending, Kept, Chain, Alive
<1>3. CASE config # "wrong" /\ ~later
    <2> DEFINE w == (config # "inactive")
               q == StartThread("startmon", s)
               r == [q EXCEPT !.shall = w]
    <2>1. Begin(later, s) = r
        BY <1>3 DEF Begin, StartThread, Good, ActorStates
    <2>2. Leaves(s, q) /\ Alive("startmon", q)
        BY StartThreadGood, TypesOfSets
    <2>3. w \in BOOLEAN
        OBVIOUS
    <2> HIDE DEF w, q
    <2>4. r \in ActorStates
        BY <2>2, <2>3 DEF Leaves, Good, ActorStates
    <2>5. /\ r.thread = q.thread /\ r.alive = q.alive /\ r.resumes = q.resumes /\ r.active = q.active
          /\ r.fetches = q.fetches /\ r.cut = q.cut /\ r.waiting = q.waiting
        BY <2>2, <2>3 DEF Leaves, Good, ActorStates
    <2> HIDE DEF r
    <2> QED
        BY <2>1, <2>2, <2>4, <2>5 DEF Leaves, Good, Pending, Kept, Chain, Alive
<1> QED
    BY <1>1, <1>2, <1>3

LEMMA WorkGood ==
    ASSUME NEW s, Good(s), config \in Configs, NEW kind \in Kinds
    PROVE  Leaves(s, Work(kind, s))
<1>1. Leaves(s, Granted(Write("monitoring", s)))
    BY WriteGood, GrantedGood DEF Apps, Leaves
<1>2. Leaves(s, Start(kind = "StartLater", s))
    BY <1>1, BeginGood DEF Start, Leaves
<1> QED
    BY <1>2, OtherGood DEF Work

LEMMA FifoGood ==
    ASSUME NEW s, Good(s), config \in Configs
    PROVE  Leaves(s, Fifo(s))
<1>1. Leaves(s, s)
    BY DEF Leaves
<1> QED
    BY <1>1, TakenGood, WorkGood DEF Fifo, Leaves

LEMMA KilledGood ==
    ASSUME NEW s, Good(s)
    PROVE  Leaves(s, Killed(s)) /\ ~Killed(s).alive
<1>1. /\ Killed(s) \in ActorStates /\ Killed(s).alive = FALSE /\ Killed(s).thread = s.thread
      /\ Killed(s).resumes = s.resumes
    BY DEF Killed, Good, ActorStates
<1> QED
    BY <1>1 DEF Leaves, Good, Pending, Kept

(***************************************************************************)
(* Steps.                                                                   *)
(***************************************************************************)
LEMMA StepSound ==
    ASSUME Sound, NEW s, Good(s), Step(s)
    PROVE  Sound'
<1>1. actor' = s /\ config' = config /\ requests' = requests
    BY DEF Step
<1>2. Good(actor')
    BY <1>1
<1>3. Good(actor)'
    BY <1>1, <1>2 DEF Good, Pending, Kept, Chain, Alive
<1> QED
    BY <1>1, <1>3 DEF Sound

LEMMA RequestSound ==
    ASSUME Sound,
           (\E kind \in Kinds : Receive(kind)) \/ Serve \/ LockTimeout
    PROVE  Sound'
<1> USE DEF Sound
<1>1. ASSUME NEW kind \in Kinds, Receive(kind) PROVE Sound'
    <2>1. requests' \in 0..MaxRequests /\ config' = config
        BY <1>1, BoundAssumption DEF Receive
    <2>2. Good([Fifo(actor) EXCEPT !.owner = "none"])
        BY FifoGood, SetGood DEF Leaves
    <2>3. Good(Fifo([actor EXCEPT !.queue = Append(@, kind)]))
        <3>1. Append(actor.queue, kind) \in Seq(Kinds)
            BY AppendProperties DEF Good, ActorStates
        <3>2. SameMode(actor, [actor EXCEPT !.queue = Append(@, kind)])
            BY <3>1 DEF SameMode, Good, ActorStates
        <3> QED
            BY <3>2, SameGood, FifoGood DEF Leaves
    <2>4. Good(actor')
        BY <1>1, <2>2, <2>3 DEF Receive
    <2>5. Good(actor)'
        BY <2>1, <2>4 DEF Good, Pending, Kept, Chain, Alive
    <2> QED
        BY <2>1, <2>5
<1>2. CASE Serve
    BY <1>2, FifoGood, StepSound DEF Serve, Leaves
<1>3. CASE LockTimeout
    BY <1>3, SetGood, KilledGood, StepSound DEF LockTimeout, Leaves
<1> QED
    BY <1>1, <1>2, <1>3

\* The end of a thread is missed only if it was to start the mode or to fetch.
LEMMA ExitGood ==
    ASSUME NEW s, Good(s),
           s.alive => s.thread \notin {"startmon", "fetch", "setup2", "reading"}
    PROVE  Good([s EXCEPT !.thread = "none"])
<1> DEFINE r == [s EXCEPT !.thread = "none"]
<1>1. r \in ActorStates
    BY DEF Good, ActorStates
<1>2. /\ r.thread = "none" /\ r.alive = s.alive /\ r.shall = s.shall /\ r.active = s.active
      /\ r.resumes = s.resumes /\ r.starts = s.starts /\ r.fetches = s.fetches /\ r.cut = s.cut
      /\ r.waiting = s.waiting
    BY DEF Good, ActorStates
<1> QED
    BY <1>1, <1>2 DEF Good, Pending, Kept, Chain, Alive

LEMMA KilledSound ==
    ASSUME Sound, Exit(Killed(actor))
    PROVE  Sound'
BY KilledGood, ExitGood, StepSound DEF Sound, Exit, Leaves

LEMMA SetupSound ==
    ASSUME Sound, SetupReads \/ SetupEnds
    PROVE  Sound'
<1> USE DEF Sound
<1>1. CASE SetupReads
    <2> DEFINE s == [actor EXCEPT !.thread = "setup2", !.shall = (config # "inactive")]
    <2>1. Good(s)
        <3>1. s \in ActorStates
            BY DEF Good, ActorStates
        <3>2. /\ s.thread = "setup2" /\ s.alive = actor.alive /\ s.active = actor.active
              /\ s.resumes = actor.resumes /\ s.fetches = actor.fetches /\ s.cut = actor.cut
              /\ s.waiting = actor.waiting /\ actor.thread = "setup"
            BY <1>1 DEF Good, ActorStates, SetupReads
        <3> QED
            BY <3>1, <3>2 DEF Good, Pending, Kept, Chain, Alive
    <2>2. Step(s) \/ Step(Fifo([s EXCEPT !.rtc = TRUE]))
        BY <1>1 DEF SetupReads
    <2> HIDE DEF s
    <2>3. Good(Fifo([s EXCEPT !.rtc = TRUE]))
        BY <2>1, SetGood, FifoGood DEF Leaves
    <2> QED
        BY <2>1, <2>2, <2>3, StepSound
<1>2. CASE SetupEnds
    <2> DEFINE q == Fifo(Granted(Fifo(Write("monitoring", actor))))
               s == IF actor.shall THEN Begin(FALSE, q) ELSE actor
    <2>1. Leaves(actor, q) /\ actor.thread = "setup2"
        BY <1>2, WriteGood, FifoGood, GrantedGood DEF Leaves, SetupEnds, Apps
    <2>2. Exit(s)
        BY <1>2 DEF SetupEnds
    <2> HIDE DEF q
    <2>3. /\ Good(s) /\ s.thread = "setup2"
          /\ s.shall = FALSE \/ s.starts > 0 \/ Alive("startmon", s)
        <3>1. CASE actor.shall
            <4>1. s = Begin(FALSE, q) /\ Good(q) /\ q.thread = "setup2"
                BY <2>1, <3>1 DEF Leaves
            <4>2. /\ Leaves(q, Begin(FALSE, q))
                  /\ \/ Begin(FALSE, q).shall = FALSE
                     \/ Begin(FALSE, q).starts > 0 \/ Alive("startmon", Begin(FALSE, q))
                BY <4>1, BeginGood
            <4> HIDE DEF s
            <4> QED
                BY <4>1, <4>2 DEF Leaves
        <3>2. CASE ~actor.shall
            <4>1. s = actor /\ actor.shall = FALSE
                BY <3>2 DEF Good, ActorStates
            <4> HIDE DEF s
            <4> QED
                BY <2>1, <4>1
        <3> QED
            BY <3>1, <3>2
    <2> HIDE DEF s
    <2>4. Good([s EXCEPT !.thread = "none"])
        <3> DEFINE r == [s EXCEPT !.thread = "none"]
        <3>1. r \in ActorStates
            BY <2>3 DEF Good, ActorStates
        <3>2. /\ r.thread = "none" /\ r.alive = s.alive /\ r.shall = s.shall /\ r.active = s.active
              /\ r.resumes = s.resumes /\ r.starts = s.starts /\ r.fetches = s.fetches
              /\ r.cut = s.cut /\ r.waiting = s.waiting
            BY <2>3 DEF Good, ActorStates
        <3> QED
            BY <2>3, <3>1, <3>2 DEF Good, Pending, Kept, Chain, Alive
    <2> QED
        BY <2>2, <2>4, StepSound DEF Exit
<1> QED
    BY <1>1, <1>2

\* The thread that starts the mode: it sets the mode active, and its second half
\* begins the chain.
LEMMA StartMonitoringSound ==
    ASSUME Sound, StartMonitoring \/ StartMonitoringEnds
    PROVE  Sound'
<1> USE DEF Sound
<1>1. CASE StartMonitoring /\ config = "no cycle"
    <2> DEFINE q == [actor EXCEPT !.active = FALSE]
               s == Freed(Fifo(q))
    <2>1. Good(q) /\ q.thread = "startmon"
        <3>1. q \in ActorStates
            BY DEF Good, ActorStates
        <3>2. /\ q.thread = "startmon" /\ actor.thread = "startmon" /\ q.alive = actor.alive
              /\ q.resumes = actor.resumes /\ q.fetches = actor.fetches
              /\ q.active = FALSE /\ q.cut = actor.cut /\ q.waiting = actor.waiting
            BY <1>1 DEF Good, ActorStates, StartMonitoring
        <3> QED
            BY <1>1, <3>1, <3>2 DEF Good, Pending, Kept, Chain, Alive
    <2>2. Exit(s)
        BY <1>1 DEF StartMonitoring
    <2> HIDE DEF q
    <2>3. Good(s) /\ s.thread = "startmon"
        BY <2>1, FifoGood, FreedGood DEF Leaves
    <2> HIDE DEF s
    <2>4. Good([s EXCEPT !.thread = "none"])
        <3> DEFINE r == [s EXCEPT !.thread = "none"]
        <3>1. r \in ActorStates
            BY <2>3 DEF Good, ActorStates
        <3>2. /\ r.thread = "none" /\ r.alive = s.alive /\ r.active = s.active
              /\ r.resumes = s.resumes /\ r.fetches = s.fetches
              /\ r.cut = s.cut /\ r.waiting = s.waiting
            BY <2>3 DEF Good, ActorStates
        <3> QED
            BY <1>1, <2>3, <3>1, <3>2 DEF Good, Pending, Kept, Chain, Alive
    <2> QED
        BY <2>2, <2>4, StepSound DEF Exit
<1>2. CASE StartMonitoring /\ config # "no cycle"
    <2> DEFINE r == [actor EXCEPT !.active = TRUE, !.thread = "reading"]
    <2>1. Step(r)
        BY <1>2 DEF StartMonitoring
    <2>2. r \in ActorStates /\ r.active = TRUE /\ r.thread = "reading"
        BY DEF Good, ActorStates
    <2>3. Good(r)
        BY <2>2 DEF Good, Pending, Kept
    <2> QED
        BY <2>1, <2>3, StepSound
<1>3. CASE StartMonitoringEnds
    <2> DEFINE s == IF actor.active
                    THEN [actor EXCEPT !.fetches = @ + 1, !.cut = FALSE]
                    ELSE [actor EXCEPT !.cut = ~Chain(actor)]
               r == [s EXCEPT !.thread = "none"]
    <2>1. CASE Exit(s)
        <3>1. /\ s \in ActorStates /\ s.thread = actor.thread /\ s.alive = actor.alive
              /\ s.shall = actor.shall /\ s.active = actor.active /\ s.resumes = actor.resumes
              /\ s.starts = actor.starts /\ s.waiting = actor.waiting
              /\ s.cut \/ s.fetches > 0 \/ (s.fetches = actor.fetches /\ Chain(actor))
            <4>1. CASE actor.active
                <5> DEFINE n == actor.fetches + 1
                <5>1. n \in Nat /\ n > 0 /\ s = [actor EXCEPT !.fetches = n, !.cut = FALSE]
                    BY <4>1 DEF Good, ActorStates
                <5> HIDE DEF n, s
                <5> QED
                    BY <5>1 DEF Good, ActorStates
            <4>2. CASE ~actor.active
                <5> DEFINE c == ~Chain(actor)
                <5>1. c \in BOOLEAN /\ (c \/ Chain(actor)) /\ s = [actor EXCEPT !.cut = c]
                    BY <4>2
                <5> HIDE DEF c, s
                <5> QED
                    BY <5>1 DEF Good, ActorStates
            <4> QED
                BY <4>1, <4>2
        <3>2. actor.thread = "reading"
            BY <1>3 DEF StartMonitoringEnds
        <3> HIDE DEF s
        <3>3. r \in ActorStates
            BY <3>1 DEF ActorStates
        <3>4. /\ r.thread = "none" /\ r.alive = s.alive /\ r.shall = s.shall /\ r.active = s.active
              /\ r.resumes = s.resumes /\ r.starts = s.starts /\ r.fetches = s.fetches
              /\ r.cut = s.cut /\ r.waiting = s.waiting
            BY <3>1 DEF ActorStates
        <3> HIDE DEF r
        <3>5. Pending(r)
            BY <3>1, <3>2, <3>4 DEF Good, Pending, Alive
        <3>6. Kept(r)
            BY <3>1, <3>2, <3>4 DEF Kept, Chain, Alive
        <3>7. Step(r)
            BY <2>1 DEF Exit, r
        <3> QED
            BY <3>3, <3>5, <3>6, <3>7, StepSound DEF Good
    <2>2. CASE Exit(Killed(actor))
        BY <2>2, KilledSound
    <2> QED
        BY <1>3, <2>1, <2>2 DEF StartMonitoringEnds
<1> QED
    BY <1>1, <1>2, <1>3

LEMMA FetchSound ==
    ASSUME Sound, NEW t \in {"fetch", "missed"}, FetchEnds(t) \/ FetchFails(t)
    PROVE  Sound'
<1> USE DEF Sound
<1>1. CASE FetchEnds(t)
    <2> DEFINE s == [actor EXCEPT !.fetches = IF t = "fetch" THEN @ + 1 ELSE @,
                                  !.missed = @ \/ ~actor.active]
               r == [s EXCEPT !.thread = "none"]
    <2>1. /\ s \in ActorStates /\ s.thread = actor.thread /\ s.alive = actor.alive
          /\ s.shall = actor.shall /\ s.active = actor.active /\ s.resumes = actor.resumes
          /\ s.starts = actor.starts /\ s.waiting = actor.waiting /\ s.cut = actor.cut
          /\ s.fetches >= actor.fetches /\ (t = "fetch" => s.fetches > 0)
        <3> DEFINE n == IF t = "fetch" THEN actor.fetches + 1 ELSE actor.fetches
                   m == actor.missed \/ ~actor.active
        <3>1. /\ n \in Nat /\ n >= actor.fetches /\ (t = "fetch" => n > 0) /\ m \in BOOLEAN
              /\ s = [actor EXCEPT !.fetches = n, !.missed = m]
            BY DEF Good, ActorStates
        <3> HIDE DEF n, m, s
        <3> QED
            BY <3>1 DEF Good, ActorStates
    <2>2. actor.thread = t /\ Exit(s)
        BY <1>1 DEF FetchEnds, Fetched
    <2> HIDE DEF s
    <2>3. r \in ActorStates
        BY <2>1 DEF ActorStates
    <2>4. /\ r.thread = "none" /\ r.alive = s.alive /\ r.shall = s.shall /\ r.active = s.active
          /\ r.resumes = s.resumes /\ r.starts = s.starts /\ r.fetches = s.fetches
          /\ r.cut = s.cut /\ r.waiting = s.waiting
        BY <2>1 DEF ActorStates
    <2>5. actor.fetches \in Nat /\ s.fetches \in Nat
        BY <2>1 DEF Good, ActorStates
    <2> HIDE DEF r
    <2>6. Pending(r)
        BY <2>1, <2>2, <2>4 DEF Good, Pending, Alive
    <2>7. Kept(r)
        BY <2>1, <2>2, <2>4, <2>5 DEF Good, Kept, Chain, Alive
    <2>8. Step(r)
        BY <2>2 DEF Exit, r
    <2> QED
        BY <2>3, <2>6, <2>7, <2>8, StepSound DEF Good
<1>2. CASE FetchFails(t)
    BY <1>2, KilledSound DEF FetchFails
<1> QED
    BY <1>1, <1>2

LEMMA ThreadSound ==
    ASSUME Sound, ThreadEnds
    PROVE  Sound'
<1> USE DEF Sound
<1>1. CASE CheckEnds
    <2>1. CASE Exit(Granted(Fifo(actor)))
        <3>1. Leaves(actor, Granted(Fifo(actor))) /\ actor.thread = "check"
            BY <1>1, FifoGood, GrantedGood DEF CheckEnds, Leaves
        <3> QED
            BY <2>1, <3>1, ExitGood, StepSound DEF Exit, Leaves
    <2> QED
        BY <1>1, <2>1, KilledSound DEF CheckEnds
<1>2. CASE PollEnds
    BY <1>2, ExitGood, KilledSound, StepSound DEF PollEnds, Exit
<1> QED
    BY <1>1, <1>2, SetupSound, StartMonitoringSound, FetchSound DEF ThreadEnds

\* A thread that waited runs, and the other threads wait as before.
LEMMA WaitingSound ==
    ASSUME Sound, (\E t \in Threads : StartWaiting(t)) \/ Poll
    PROVE  Sound'
<1> USE DEF Sound
<1>1. ASSUME NEW t \in Threads, StartWaiting(t) PROVE Sound'
    <2> DEFINE w == [actor.waiting EXCEPT ![t] = @ - 1]
               r == [actor EXCEPT !.thread = t, !.waiting = w]
    <2>1. Step(r) /\ actor.waiting[t] > 0 /\ actor.thread = "none"
        BY <1>1 DEF StartWaiting, Good, ActorStates
    <2>2. w \in [Threads -> Nat] /\ \A u \in Threads \ {t} : w[u] = actor.waiting[u]
        BY <2>1 DEF Good, ActorStates
    <2> HIDE DEF w
    <2>3. r \in ActorStates
        BY <2>2 DEF Good, ActorStates
    <2>4. /\ r.thread = t /\ r.alive = actor.alive /\ r.shall = actor.shall
          /\ r.active = actor.active /\ r.resumes = actor.resumes /\ r.starts = actor.starts
          /\ r.fetches = actor.fetches /\ r.cut = actor.cut /\ r.waiting = w
        BY <2>2 DEF Good, ActorStates
    <2> HIDE DEF r
    <2>5. \A u \in Threads : Alive(u, actor) => Alive(u, r)
        BY <2>1, <2>2, <2>4, TypesOfSets DEF Alive
    <2>6. Pending(r) /\ Kept(r)
        BY <2>1, <2>4, <2>5, TypesOfSets DEF Good, Pending, Kept, Chain
    <2> QED
        BY <2>1, <2>3, <2>6, StepSound DEF Good
<1>2. CASE Poll
    <2>1. Step(StartThread("poll", actor))
        BY <1>2 DEF Poll, StartThread
    <2> QED
        BY <2>1, StartThreadGood, StepSound, TypesOfSets DEF Leaves
<1> QED
    BY <1>1, <1>2

\* A timer that has run down is followed by its thread.
LEMMA StartTimerSound ==
    ASSUME Sound, StartTimer \/ FetchTimer
    PROVE  Sound'
<1> USE DEF Sound
<1>1. CASE StartTimer
    <2> DEFINE q == StartThread("startmon", actor)
               n == actor.starts - 1
               r == [q EXCEPT !.starts = n]
    <2>1. Step(r) /\ n \in Nat
        <3>1. actor.starts > 0 /\ Step(StartThread("startmon", [actor EXCEPT !.starts = n]))
            BY <1>1 DEF StartTimer, Good, ActorStates
        <3>2. n \in Nat
            BY <3>1 DEF Good, ActorStates
        <3> HIDE DEF n
        <3>3. StartThread("startmon", [actor EXCEPT !.starts = n]) = r
            BY DEF StartThread, Good, ActorStates
        <3> QED
            BY <3>1, <3>2, <3>3
    <2>2. Good(q) /\ Alive("startmon", q)
        BY StartThreadGood, TypesOfSets DEF Leaves
    <2> HIDE DEF q, n
    <2>3. r \in ActorStates
        BY <2>1, <2>2 DEF Good, ActorStates
    <2>4. /\ r.thread = q.thread /\ r.alive = q.alive /\ r.active = q.active
          /\ r.resumes = q.resumes /\ r.fetches = q.fetches /\ r.cut = q.cut
          /\ r.waiting = q.waiting
        BY <2>2 DEF Good, ActorStates
    <2> HIDE DEF r
    <2> QED
        BY <2>1, <2>2, <2>3, <2>4, StepSound DEF Good, Pending, Kept, Chain, Alive
<1>2. CASE FetchTimer
    <2> DEFINE q == StartThread("fetch", actor)
               n == actor.fetches - 1
               r == [q EXCEPT !.fetches = n]
    <2>1. Step(r) /\ n \in Nat
        <3>1. actor.fetches > 0 /\ Step(StartThread("fetch", [actor EXCEPT !.fetches = n]))
            BY <1>2 DEF FetchTimer, Good, ActorStates
        <3>2. n \in Nat
            BY <3>1 DEF Good, ActorStates
        <3> HIDE DEF n
        <3>3. StartThread("fetch", [actor EXCEPT !.fetches = n]) = r
            BY DEF StartThread, Good, ActorStates
        <3> QED
            BY <3>1, <3>2, <3>3
    <2>2. Good(q) /\ Alive("fetch", q)
        BY StartThreadGood, TypesOfSets DEF Leaves
    <2> HIDE DEF q, n
    <2>3. r \in ActorStates
        BY <2>1, <2>2 DEF Good, ActorStates
    <2>4. /\ r.thread = q.thread /\ r.alive = q.alive /\ r.active = q.active
          /\ r.shall = q.shall /\ r.starts = q.starts
          /\ r.resumes = q.resumes /\ r.cut = q.cut /\ r.waiting = q.waiting
        BY <2>2 DEF Good, ActorStates
    <2> HIDE DEF r
    <2> QED
        BY <2>1, <2>2, <2>3, <2>4, StepSound DEF Good, Pending, Kept, Chain, Alive
<1> QED
    BY <1>1, <1>2

\* Whatever the queue held, the mode that is resumed is active, and the timer has
\* had its chain.
LEMMA ResumeSound ==
    ASSUME Sound, Resume
    PROVE  Sound'
<1> USE DEF Sound
<1>0. actor.resumes > 0 /\ actor.alive /\ actor.resumes \in Nat
    BY DEF Resume, Step, Good, ActorStates
<1>1. CASE ~actor.shall
    <2> DEFINE n == actor.resumes - 1
               r == [actor EXCEPT !.resumes = n]
    <2>1. Step(r) /\ n \in Nat
        BY <1>0, <1>1 DEF Resume, Good, ActorStates
    <2> HIDE DEF n
    <2>2. r \in ActorStates
        BY <2>1 DEF Good, ActorStates
    <2>3. /\ r.thread = actor.thread /\ r.alive = actor.alive /\ r.active = actor.active
          /\ r.shall = actor.shall /\ r.fetches = actor.fetches
          /\ r.cut = actor.cut /\ r.waiting = actor.waiting
        BY DEF Good, ActorStates
    <2> HIDE DEF r
    <2> QED
        BY <1>0, <1>1, <2>1, <2>2, <2>3, StepSound DEF Good, Pending, Kept, Chain, Alive
<1>2. CASE actor.shall /\ ~actor.active /\ actor.owner = "none"
    <2> DEFINE w == Write("monitoring", actor)
               g == Granted(Fifo(w))
               a == [g EXCEPT !.active = TRUE]
               m == IF actor.missed THEN StartThread("missed", a) ELSE a
    <2>1. Step(Resumed(actor))
        BY <1>2 DEF Resume
    <2>2. Good(w)
        BY WriteGood DEF Leaves, Apps
    <2>3. Good(g) /\ g.resumes > 0
        <3>1. w.resumes = actor.resumes
            BY DEF Write, Good, ActorStates
        <3> HIDE DEF w
        <3> QED
            BY <1>0, <2>2, <3>1, FifoGood, GrantedGood DEF Leaves
    <2> DEFINE b == [m EXCEPT !.missed = FALSE]
               n == m.resumes - 1
               r == [b EXCEPT !.resumes = n]
    <2>4. Resumed(actor) = r
        BY DEF Resumed
    <2> HIDE DEF w, g
    <2>5. Good(a) /\ a.active = TRUE /\ a.resumes > 0
        <3>1. a \in ActorStates
            BY <2>3 DEF Good, ActorStates
        <3>2. /\ a.thread = g.thread /\ a.alive = g.alive /\ a.active = TRUE
              /\ a.resumes = g.resumes /\ a.fetches = g.fetches
              /\ a.cut = g.cut /\ a.waiting = g.waiting
            BY <2>3 DEF Good, ActorStates
        <3> HIDE DEF a
        <3> QED
            BY <2>3, <3>1, <3>2 DEF Good, Pending, Kept, Chain, Alive
    <2> HIDE DEF a
    <2>6. Good(m) /\ m.active = TRUE /\ m.resumes > 0
        <3>1. CASE actor.missed
            <4>1. StartThread("missed", a).active = TRUE
                BY <2>5 DEF StartThread, Good, ActorStates
            <4> QED
                BY <2>5, <3>1, <4>1, StartThreadGood, TypesOfSets DEF Leaves
        <3>2. CASE ~actor.missed
            BY <2>5, <3>2
        <3> QED
            BY <3>1, <3>2
    <2> HIDE DEF m
    <2>7. SameMode(m, b)
        BY <2>6 DEF SameMode, Good, ActorStates
    <2>8. Good(b) /\ b.active = TRUE /\ n \in Nat
        <3>1. n \in Nat
            BY <2>6 DEF Good, ActorStates
        <3> HIDE DEF b, n
        <3> QED
            BY <2>6, <2>7, <3>1, SameGood DEF SameMode, Leaves
    <2> HIDE DEF b, n
    <2>9. Good(r)
        <3>1. r \in ActorStates
            BY <2>8 DEF Good, ActorStates
        <3>2. /\ r.thread = b.thread /\ r.alive = b.alive /\ r.active = TRUE
              /\ r.fetches = b.fetches /\ r.cut = b.cut /\ r.waiting = b.waiting
            BY <2>8 DEF Good, ActorStates
        <3> HIDE DEF r
        <3> QED
            BY <2>8, <3>1, <3>2 DEF Good, Pending, Kept, Chain, Alive
    <2> QED
        BY <2>1, <2>4, <2>9, StepSound
<1>3. CASE actor.shall /\ ~(~actor.active /\ actor.owner = "none")
    <2>1. Step(actor)
        BY <1>3 DEF Resume
    <2> QED
        BY <2>1, StepSound
<1> QED
    BY <1>1, <1>2, <1>3

LEMMA NextSound == Sound /\ [Next]_vars => Sound'
<1>1. ASSUME Sound, RtcTimer \/ RtcWeekly PROVE Sound'
    BY <1>1, SetGood, FifoGood, StepSound DEF Sound, RtcTimer, RtcWeekly, Leaves
<1>2. Sound /\ Next => Sound'
    BY <1>1, RequestSound, ThreadSound, WaitingSound, StartTimerSound, ResumeSound DEF Next
<1>3. Sound /\ UNCHANGED vars => Sound'
    BY DEF Sound, Good, Pending, Kept, Chain, Alive, vars
<1> QED
    BY <1>2, <1>3

\* The monitoring mode is sound at every moment.
THEOREM MonitoringSound == Spec => []Sound
BY InitSound, NextSound, PTL DEF Spec

\* Owner, queue, threads and timers keep their types: among others, no number of
\* timers or of threads that wait falls below zero.
THEOREM TypeCorrect == Spec => []TypeOK
<1>1. Sound => TypeOK
    BY DEF Sound, Good, TypeOK
<1> QED
    BY <1>1, MonitoringSound, PTL

\* A mode that is wanted and not active has its start or its resumption under
\* way, whatever was requested in between and however long threads wait, if its
\* configuration has a cycle.
THEOREM WantedIsPending == Spec => []StartIsPending
<1>1. Sound => StartIsPending
    BY DEF Sound, Good, StartIsPending
<1> QED
    BY <1>1, MonitoringSound, PTL

\* While the mode is active the chain that fetches the values is not broken, but
\* by a suspension that fell into its start.
THEOREM ChainUnbroken == Spec => []ValuesKeepComing
<1>1. Sound => ValuesKeepComing
    BY DEF Sound, Good, Kept, Unbroken, ValuesKeepComing
<1> QED
    BY <1>1, MonitoringSound, PTL
=============================================================================
