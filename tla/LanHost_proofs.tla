---------------------------- MODULE LanHost_proofs ----------------------------
(***************************************************************************)
(* Proofs, for any number of instruments, announcements and scan threads:    *)
(* the host creator makes one host actor for a host and no second; the        *)
(* pings of the host follow one another, and end in two ways only; and when    *)
(* the device actors of an instrument cannot collide.                          *)
(***************************************************************************)
EXTENDS LanHost, TLAPS, FiniteSetTheorems

(***************************************************************************)
(* Types.                                                                   *)
(***************************************************************************)
Thread == [pc : {"idle", "post", "kill", "fetch", "create", "prune"},
           todo : SUBSET Instruments, list : SUBSET Instruments, size : Nat, old : BOOLEAN]

WorldTyped ==
    /\ whitelist \in BOOLEAN /\ online \in BOOLEAN /\ listed \subseteq Instruments /\ changes \in Nat
CreatorTyped ==
    /\ created \in Nat /\ known \in BOOLEAN
    /\ \/ pending = <<>>
       \/ whitelist /\ pending = <<NoInstrument>>
       \/ ~whitelist /\ \E i \in Instruments : pending = <<i>>
    /\ delayed \subseteq Instruments /\ inbox \subseteq Instruments /\ (whitelist => inbox = {})
ChildrenTyped ==
    /\ child \in [Instruments -> {"none", "alive", "dying"}]
    /\ making \in [Makers -> Instruments \cup {NoInstrument}] /\ down \in BOOLEAN
HostTyped == state \in 0..2 /\ shown \in 0..2 /\ infos \subseteq 1..2
TimersTyped == pings \in 0..2 /\ scans \in Nat
ThreadsTyped == worker \in [Workers -> Thread] /\ current \in Scans

Typed == WorldTyped /\ CreatorTyped /\ ChildrenTyped /\ HostTyped /\ TimersTyped /\ ThreadsTyped

LEMMA InitTyped == Init => Typed
<1> SUFFICES ASSUME Init PROVE Typed
    OBVIOUS
<1>1. WorldTyped /\ ChildrenTyped /\ HostTyped
    <2>1. WorldTyped
        BY DEF Init, WorldTyped
    <2>2. ChildrenTyped
        BY DEF Init, ChildrenTyped
    <2>3. HostTyped
        BY DEF Init, HostTyped
    <2> QED
        BY <2>1, <2>2, <2>3
<1>2. created \in 0..1 /\ CreatorTyped
    <2>1. /\ created = (IF whitelist THEN 1 ELSE 0) /\ known = FALSE
          /\ pending = (IF whitelist THEN <<NoInstrument>> ELSE <<>>)
          /\ delayed = {} /\ inbox = {}
        BY DEF Init
    <2>2. created \in 0..1
        BY <2>1
    <2>3. pending = <<>> \/ (whitelist /\ pending = <<NoInstrument>>)
        BY <2>1
    <2> QED
        BY <2>1, <2>2, <2>3 DEF CreatorTyped
<1>3. Idle \in Thread
    BY DEF Idle, Thread
<1>4. TimersTyped /\ ThreadsTyped
    BY <1>2, <1>3 DEF Init, TimersTyped, ThreadsTyped
<1> QED
    BY <1>1, <1>2, <1>4 DEF Typed

\* What the threads' own steps do to the threads.
LEMMA MembersCounted == Cardinality(Members) \in Nat
<1>1. Members \subseteq Instruments
    BY DEF Members
<1> QED
    BY <1>1, InstrumentAssumption, FS_Subset, FS_CardinalityType

LEMMA ThreadChanged ==
    ASSUME ThreadsTyped, NEW w \in Workers, NEW t \in Thread,
           worker' = [worker EXCEPT ![w] = t], current' \in Scans
    PROVE  ThreadsTyped'
BY DEF ThreadsTyped

LEMMA EnterTyped ==
    ASSUME ThreadsTyped, NEW w \in Workers, NEW pc \in {"post", "kill", "prune"},
           NEW todo \in SUBSET Instruments, Enter(w, pc, todo), UNCHANGED current
    PROVE  ThreadsTyped'
<1> DEFINE t == [worker[w] EXCEPT !.pc = pc, !.todo = todo, !.list = {}, !.size = Cardinality(Members)]
<1>1. t \in Thread
    BY MembersCounted DEF ThreadsTyped, Thread
<1>2. worker' = [worker EXCEPT ![w] = t]
    BY DEF Enter, ThreadsTyped, Thread
<1> QED
    BY <1>1, <1>2, ThreadChanged DEF ThreadsTyped

LEMMA EndTyped ==
    ASSUME ThreadsTyped, NEW w \in Workers, End(w), UNCHANGED current
    PROVE  ThreadsTyped'
BY ThreadChanged DEF End, Idle, Thread, ThreadsTyped

LEMMA TellTyped ==
    ASSUME ThreadsTyped, ChildrenTyped, NEW w \in Workers, NEW i \in Instruments, Tell(w, i),
           UNCHANGED <<making, down, current>>
    PROVE  ThreadsTyped' /\ ChildrenTyped'
<1>1. ChildrenTyped'
    BY DEF Tell, ChildrenTyped
<1> DEFINE t == [worker[w] EXCEPT !.todo = @ \ {i}]
<1>2. t \in Thread
    BY DEF ThreadsTyped, Thread
<1>3. worker' = [worker EXCEPT ![w] = t]
    BY DEF Tell, ThreadsTyped, Thread
<1> QED
    BY <1>1, <1>2, <1>3, ThreadChanged DEF ThreadsTyped

\* A new scan.
LEMMA WithScanTyped ==
    ASSUME ThreadsTyped, NEW s \in Scans
    PROVE  WithScan(s) \in [Workers -> Thread]
BY DEF WithScan, ThreadsTyped, Thread, Workers

LEMMA NextPingTyped ==
    ASSUME NEW threadsThen \in [Workers -> Thread], NextPing([threadsThen EXCEPT !["ping"] = Idle]),
           current' \in Scans
    PROVE  ThreadsTyped' /\ pings' = 1
<1> DEFINE t == [threadsThen EXCEPT !["ping"] = Idle]
<1>1. t \in [Workers -> Thread]
    BY DEF Idle, Thread
<1>2. \A w \in Workers : [t[w] EXCEPT !.old = @ \/ t[w].pc # "idle"] \in Thread
    BY <1>1 DEF Thread
<1> QED
    BY <1>1, <1>2 DEF NextPing, ThreadsTyped

LEMMA NextTyped == Typed /\ [Next]_vars => Typed'
<1> SUFFICES ASSUME Typed, [Next]_vars PROVE Typed'
    OBVIOUS
<1> USE DEF Typed
<1>1. CASE Toggle
    BY <1>1 DEF Toggle, Change, WorldTyped, creator, children, host, timers, threads,
       CreatorTyped, ChildrenTyped, HostTyped, TimersTyped, ThreadsTyped
<1>2. CASE Order
    BY <1>2 DEF Order, Change, WorldTyped, creator, host, timers, threads,
       CreatorTyped, ChildrenTyped, HostTyped, TimersTyped, ThreadsTyped
<1>3. ASSUME NEW i \in Instruments, Unplug(i) \/ Plug(i) \/ GiveUp(i) \/ Wakeup(i) PROVE Typed'
    <2>1. HostTyped' /\ TimersTyped' /\ ThreadsTyped'
        BY <1>3 DEF Unplug, Plug, GiveUp, Wakeup, host, timers, threads, HostTyped, TimersTyped,
           ThreadsTyped
    <2>2. WorldTyped'
        BY <1>3 DEF Unplug, Plug, GiveUp, Wakeup, Change, world, WorldTyped
    <2>3. CreatorTyped'
        BY <1>3 DEF Unplug, Plug, GiveUp, Wakeup, world, creator, CreatorTyped
    <2>4. ChildrenTyped'
        BY <1>3 DEF Unplug, Plug, GiveUp, Wakeup, children, ChildrenTyped
    <2> QED
        BY <2>1, <2>2, <2>3, <2>4
<1>4. ASSUME NEW i \in Instruments, Announce(i) PROVE Typed'
    <2>1. WorldTyped' /\ ChildrenTyped' /\ HostTyped' /\ ThreadsTyped'
        BY <1>4 DEF Announce, Change, WorldTyped, ChildrenTyped, HostTyped, ThreadsTyped, children,
           host, threads
    <2>2. CreatorTyped' /\ TimersTyped'
        BY <1>4 DEF Announce, SetupLanDevice, CreateHost, CreatorTyped, TimersTyped
    <2> QED
        BY <2>1, <2>2
<1>5. CASE HostSubscribed
    <2>1. WorldTyped' /\ ChildrenTyped' /\ ThreadsTyped'
        BY <1>5 DEF HostSubscribed, world, children, threads, WorldTyped, ChildrenTyped, ThreadsTyped
    <2>2. CreatorTyped'
        BY <1>5 DEF HostSubscribed, world, CreatorTyped, WorldTyped
    <2>3. HostTyped' /\ TimersTyped'
        BY <1>5 DEF HostSubscribed, SetupHostActor, AskHostInfo, HostTyped, TimersTyped
    <2> QED
        BY <2>1, <2>2, <2>3
<1>6. ASSUME NEW i \in Instruments, SetDeviceStatus(i) PROVE Typed'
    <2>1. WorldTyped' /\ CreatorTyped' /\ HostTyped' /\ TimersTyped' /\ ThreadsTyped'
        BY <1>6 DEF SetDeviceStatus, world, creator, host, timers, threads, WorldTyped, CreatorTyped,
           HostTyped, TimersTyped, ThreadsTyped
    <2>2. ChildrenTyped'
        BY <1>6 DEF SetDeviceStatus, children, FindMissing, ChildrenTyped
    <2> QED
        BY <2>1, <2>2
<1>7. ASSUME NEW i \in Instruments, ChildExited(i) PROVE Typed'
    <2>1. WorldTyped' /\ CreatorTyped' /\ TimersTyped' /\ ThreadsTyped'
        BY <1>7 DEF ChildExited, world, creator, timers, threads, WorldTyped, CreatorTyped,
           TimersTyped, ThreadsTyped
    <2>2. ChildrenTyped'
        BY <1>7 DEF ChildExited, ChildrenTyped
    <2>3. Min({state, 1}) \in 0..2
        BY DEF HostTyped, Min
    <2>4. HostTyped'
        BY <1>7, <2>3 DEF ChildExited, Show, HostTyped
    <2> QED
        BY <2>1, <2>2, <2>4
<1>8. ASSUME NEW m \in Makers, CreateDevice(m) PROVE Typed'
    <2>1. WorldTyped' /\ CreatorTyped' /\ TimersTyped' /\ ThreadsTyped'
        BY <1>8 DEF CreateDevice, world, creator, timers, threads, WorldTyped, CreatorTyped,
           TimersTyped, ThreadsTyped
    <2>2. ChildrenTyped' /\ HostTyped'
        BY <1>8 DEF CreateDevice, AskHostInfo, ChildrenTyped, HostTyped
    <2> QED
        BY <2>1, <2>2
<1>9. ASSUME NEW w \in Workers, KillNext(w) PROVE Typed'
    <2>1. WorldTyped' /\ CreatorTyped' /\ HostTyped' /\ TimersTyped'
        BY <1>9 DEF KillNext, world, creator, host, timers, WorldTyped, CreatorTyped,
           HostTyped, TimersTyped
    <2>2. PICK i \in worker[w].todo : Tell(w, i)
        BY <1>9 DEF KillNext
    <2>3. i \in Instruments
        BY <2>2 DEF ThreadsTyped, Thread
    <2> QED
        BY <1>9, <2>1, <2>2, <2>3, TellTyped DEF KillNext
<1>10. ASSUME NEW w \in Workers, KillEnds(w) PROVE Typed'
    BY <1>10, EndTyped DEF KillEnds, world, creator, children, host, timers, WorldTyped, CreatorTyped,
       ChildrenTyped, HostTyped, TimersTyped
<1>11. CASE Ping
    <2>1. WorldTyped' /\ CreatorTyped' /\ ChildrenTyped' /\ HostTyped' /\ TimersTyped'
        BY <1>11 DEF Ping, world, creator, children, host, WorldTyped, CreatorTyped, ChildrenTyped,
           HostTyped, TimersTyped
    <2>2. "ping" \in Workers
        BY DEF Workers
    <2>3. CASE UNCHANGED worker
        BY <1>11, <2>1, <2>3 DEF Ping, ThreadsTyped
    <2>4. CASE Enter("ping", "post", {})
        BY <1>11, <2>1, <2>2, <2>4, EnterTyped DEF Ping
    <2> QED
        BY <1>11, <2>3, <2>4 DEF Ping
<1>12. CASE PingAnswered
    <2>1. WorldTyped' /\ CreatorTyped' /\ ChildrenTyped' /\ HostTyped' /\ scans' = scans
        BY <1>12 DEF PingAnswered, Show, world, creator, children, WorldTyped, CreatorTyped,
           ChildrenTyped, HostTyped
    <2>2. ThreadsTyped' /\ pings' = 1
        <3>1. CASE UNCHANGED current /\ NextPing([worker EXCEPT !["ping"] = Idle])
            BY <3>1, NextPingTyped DEF ThreadsTyped
        <3>2. ASSUME NEW s \in Scans, current' = s, NextPing([WithScan(s) EXCEPT !["ping"] = Idle])
              PROVE  ThreadsTyped' /\ pings' = 1
            BY <3>2, WithScanTyped, NextPingTyped
        <3> QED
            BY <1>12, <3>1, <3>2 DEF PingAnswered
    <2> QED
        BY <2>1, <2>2 DEF TimersTyped
<1>13. CASE PingFails
    <2>1. WorldTyped' /\ CreatorTyped' /\ ChildrenTyped' /\ HostTyped' /\ TimersTyped'
        BY <1>13 DEF PingFails, world, creator, children, timers, WorldTyped, CreatorTyped,
           ChildrenTyped, HostTyped, TimersTyped
    <2>2. "ping" \in Workers /\ Members \in SUBSET Instruments
        BY DEF Workers, Members
    <2> QED
        BY <1>13, <2>1, <2>2, EnterTyped DEF PingFails
<1>14. CASE PingFailed
    <2>1. WorldTyped' /\ CreatorTyped' /\ ChildrenTyped' /\ HostTyped' /\ scans' = scans
        BY <1>14 DEF PingFailed, Show, world, creator, children, WorldTyped, CreatorTyped,
           ChildrenTyped, HostTyped
    <2>2. NextPing([worker EXCEPT !["ping"] = Idle]) /\ current' = current
        BY <1>14 DEF PingFailed
    <2>3. ThreadsTyped' /\ pings' = 1
        BY <2>2, NextPingTyped DEF ThreadsTyped
    <2> QED
        BY <2>1, <2>3 DEF TimersTyped
<1>15. CASE ScanTimer
    <2>1. WorldTyped' /\ CreatorTyped' /\ ChildrenTyped' /\ HostTyped' /\ TimersTyped'
        BY <1>15 DEF ScanTimer, world, creator, children, host, WorldTyped, CreatorTyped, ChildrenTyped,
           HostTyped, TimersTyped
    <2> QED
        BY <1>15, <2>1, WithScanTyped DEF ScanTimer, ThreadsTyped
<1>16. ASSUME NEW s \in Scans, ScanFails(s) \/ ScanAnswered(s) \/ ScanPrunes(s) \/ ScanEnds(s) PROVE Typed'
    <2>1. WorldTyped' /\ CreatorTyped' /\ ChildrenTyped' /\ HostTyped' /\ TimersTyped' /\ current' = current
        BY <1>16 DEF ScanFails, ScanAnswered, ScanPrunes, ScanEnds, world, creator, children, host, timers,
           WorldTyped, CreatorTyped, ChildrenTyped, HostTyped, TimersTyped
    <2>2. s \in Workers /\ Members \in SUBSET Instruments
        BY DEF Workers, Members
    <2>3. CASE ScanAnswered(s)
        <3> DEFINE t == [worker[s] EXCEPT !.pc = "create", !.list = listed, !.todo = listed]
        <3>1. t \in Thread
            BY <2>2 DEF ThreadsTyped, Thread, WorldTyped
        <3>2. worker' = [worker EXCEPT ![s] = t]
            BY <2>2, <2>3 DEF ScanAnswered, ThreadsTyped, Thread
        <3> QED
            BY <2>1, <2>2, <3>1, <3>2, ThreadChanged DEF ThreadsTyped
    <2>4. CASE ScanFails(s)
        BY <2>1, <2>2, <2>4, EnterTyped DEF ScanFails
    <2>5. CASE ScanPrunes(s)
        <3>1. Members \ worker[s].list \in SUBSET Instruments
            BY <2>2
        <3> QED
            BY <2>1, <2>2, <2>5, <3>1, EnterTyped DEF ScanPrunes
    <2>6. CASE ScanEnds(s)
        BY <2>1, <2>2, <2>6, EndTyped DEF ScanEnds
    <2> QED
        BY <1>16, <2>3, <2>4, <2>5, <2>6
<1>17. ASSUME NEW s \in Scans, NEW i \in Instruments, ScanCreates(s, i) PROVE Typed'
    <2>1. WorldTyped' /\ CreatorTyped' /\ HostTyped' /\ TimersTyped' /\ current' = current
        BY <1>17 DEF ScanCreates, world, creator, host, timers,
           WorldTyped, CreatorTyped, HostTyped, TimersTyped
    <2>2. ChildrenTyped'
        BY <1>17 DEF ScanCreates, children, FindMissing, ChildrenTyped, Makers
    <2> DEFINE t == [worker[s] EXCEPT !.todo = @ \ {i}]
    <2>3. s \in Workers
        BY DEF Workers
    <2>4. t \in Thread
        BY <2>3 DEF ThreadsTyped, Thread
    <2>5. worker' = [worker EXCEPT ![s] = t]
        BY <1>17, <2>3 DEF ScanCreates, ThreadsTyped, Thread
    <2> QED
        BY <2>1, <2>2, <2>3, <2>4, <2>5, ThreadChanged DEF ThreadsTyped
<1>18. ASSUME NEW s \in Scans, NEW i \in Instruments, Prune(s, i) PROVE Typed'
    <2>1. WorldTyped' /\ CreatorTyped' /\ HostTyped' /\ TimersTyped'
        BY <1>18 DEF Prune, world, creator, host, timers, WorldTyped, CreatorTyped,
           HostTyped, TimersTyped
    <2> QED
        BY <1>18, <2>1, TellTyped DEF Prune, Workers
<1>19. ASSUME NEW v \in 1..2, InfoEnds(v) PROVE Typed'
    <2>1. WorldTyped' /\ CreatorTyped' /\ ChildrenTyped' /\ TimersTyped' /\ ThreadsTyped'
        BY <1>19 DEF InfoEnds, world, creator, children, timers, threads, WorldTyped, CreatorTyped,
           ChildrenTyped, TimersTyped, ThreadsTyped
    <2>2. HostTyped'
        BY <1>19 DEF InfoEnds, Show, HostTyped
    <2> QED
        BY <2>1, <2>2
<1>20. CASE UNCHANGED vars
    BY <1>20 DEF vars, world, creator, children, host, timers, threads, WorldTyped, CreatorTyped,
       ChildrenTyped, HostTyped, TimersTyped, ThreadsTyped
<1> QED
    BY <1>1, <1>2, <1>3, <1>4, <1>5, <1>6, <1>7, <1>8, <1>9, <1>10, <1>11, <1>12, <1>13, <1>14, <1>15,
       <1>16, <1>17, <1>18, <1>19, <1>20 DEF Next

\* Every attribute, timer and thread of the creator and the host actor keeps its
\* type; in particular what is sent to the host actor after its creation is an
\* announced instrument, and nothing is sent for a host of the white list.
THEOREM TypeCorrect == Spec => []Typed
BY InitTyped, NextTyped, PTL DEF Spec

(***************************************************************************)
(* One host actor.                                                          *)
(***************************************************************************)
\* The inductive invariant: a host that has been created is in pending until it
\* is in the actor dictionary, where it stays.
OneHost ==
    /\ created \in 0..1
    /\ created = 1 => known \/ pending # <<>>

LEMMA InitOneHost == Init => OneHost
<1> SUFFICES ASSUME Init PROVE OneHost
    OBVIOUS
<1>1. <<NoInstrument>> # <<>>
    OBVIOUS
<1> QED
    BY <1>1 DEF Init, OneHost

\* Wherever an announcement meets the creation: before it, while it is pending,
\* or after it.
LEMMA AnnounceOneHost ==
    ASSUME OneHost, NEW i \in Instruments, Announce(i)
    PROVE  OneHost'
<1>1. known' = known
    BY DEF Announce
<1>2. CASE UNCHANGED <<created, pending>>
    BY <1>1, <1>2 DEF OneHost
<1>3. CASE ~known /\ pending = <<>> /\ CreateHost /\ pending' = <<i>>
    <2>1. created = 0 /\ created' = 1
        BY <1>3 DEF OneHost, CreateHost
    <2>2. pending' # <<>>
        BY <1>3
    <2> QED
        BY <2>1, <2>2 DEF OneHost
<1> QED
    BY <1>2, <1>3 DEF Announce, SetupLanDevice

LEMMA SubscribedOneHost == OneHost /\ HostSubscribed => OneHost'
BY DEF OneHost, HostSubscribed

\* The world, the device actors and the host actor's threads and timers.
LEMMA OthersUntouched ==
    ASSUME \/ Toggle \/ Order
           \/ \E i \in Instruments : Unplug(i) \/ Plug(i) \/ GiveUp(i) \/ Wakeup(i)
           \/ \E i \in Instruments : SetDeviceStatus(i) \/ ChildExited(i)
           \/ \E m \in Makers : CreateDevice(m)
           \/ \E v \in 1..2 : InfoEnds(v)
    PROVE  UNCHANGED <<created, known, pending>>
BY DEF Toggle, Order, Unplug, Plug, GiveUp, Wakeup, SetDeviceStatus, ChildExited,
       CreateDevice, InfoEnds, creator

LEMMA ThreadsUntouched ==
    ASSUME \/ \E w \in Workers : KillNext(w) \/ KillEnds(w)
           \/ Ping \/ PingAnswered \/ PingFails \/ PingFailed \/ ScanTimer
           \/ \E s \in Scans :
               \/ ScanFails(s) \/ ScanAnswered(s) \/ ScanPrunes(s) \/ ScanEnds(s)
               \/ \E i \in Instruments : ScanCreates(s, i) \/ Prune(s, i)
    PROVE  UNCHANGED <<created, known, pending>>
BY DEF KillNext, KillEnds, Ping, PingAnswered, PingFails, PingFailed, ScanTimer, ScanFails,
       ScanAnswered, ScanPrunes, ScanEnds, ScanCreates, Prune, creator

LEMMA NextOneHost == OneHost /\ [Next]_vars => OneHost'
<1>1. ASSUME OneHost, Next PROVE OneHost'
    <2>1. UNCHANGED <<created, known, pending>> => OneHost'
        BY <1>1 DEF OneHost
    <2>2. \/ \E i \in Instruments : Announce(i)
          \/ HostSubscribed
          \/ UNCHANGED <<created, known, pending>>
        BY <1>1, OthersUntouched, ThreadsUntouched DEF Next
    <2> QED
        BY <1>1, <2>1, <2>2, AnnounceOneHost, SubscribedOneHost
<1>2. OneHost /\ UNCHANGED vars => OneHost'
    BY DEF OneHost, vars, creator
<1> QED
    BY <1>1, <1>2

\* One host actor per host: the pending list holds an announcement back from the
\* moment the host actor is created to the moment it can be found.
THEOREM CreatedOnce == Spec => []HostIsCreatedOnce
<1>1. OneHost => HostIsCreatedOnce
    BY DEF OneHost, HostIsCreatedOnce
<1> QED
    BY <1>1, InitOneHost, NextOneHost, PTL DEF Spec

(***************************************************************************)
(* The pings of the host, and what they tell the Registrar.                 *)
(***************************************************************************)
\* No ping falls due while another one is under way.
OnePing == pings > 0 => worker["ping"].pc = "idle"

\* While the next ping is waited for, the Registrar shows what the host actor
\* holds the state of the host to be.
ShownBetweenPings == pings = 1 => shown = state

\* There is a next ping, or one is under way.
PingDue == pings > 0 \/ worker["ping"].pc # "idle"

\* A ping that finds a scan under way, and one whose loop over the device actors
\* meets one that comes or goes, are the last.
LastPing ==
    \/ pings > 0 /\ worker[current].pc # "idle"
    \/ worker["ping"].pc = "kill" /\ Broken("ping")
PingsEnd == PingDue /\ ~PingDue' => LastPing

Pinged ==
    /\ Typed /\ OneHost /\ OnePing /\ ShownBetweenPings
    /\ created = 0 => pings = 0 /\ worker["ping"].pc = "idle"

\* What a step does to the ping: nothing, or it writes the state and shows it.
PingUntouched ==
    /\ UNCHANGED <<created, pings>> /\ worker'["ping"].pc = worker["ping"].pc
    /\ UNCHANGED <<state, shown>> \/ shown' = state'

LEMMA PingIsThread == "ping" \in Workers /\ \A s \in Scans : s # "ping" /\ s \in Workers
BY ThreadAssumption DEF Workers

LEMMA InitPinged == Init => Pinged
<1> SUFFICES ASSUME Init PROVE Pinged
    OBVIOUS
<1>1. worker["ping"].pc = "idle"
    BY PingIsThread DEF Init, Idle
<1>2. pings = 2 * created /\ created \in 0..1
    BY DEF Init
<1>3. pings # 1 /\ (created = 0 => pings = 0)
    BY <1>2
<1> QED
    BY <1>1, <1>3, InitTyped, InitOneHost DEF Pinged, OnePing, ShownBetweenPings

\* The steps that have to do with something else.
LEMMA NotThePing ==
    ASSUME Typed,
           \/ Toggle \/ Order \/ HostSubscribed
           \/ \E i \in Instruments : Unplug(i) \/ Plug(i) \/ GiveUp(i) \/ Wakeup(i)
           \/ \E i \in Instruments : SetDeviceStatus(i) \/ ChildExited(i)
           \/ \E m \in Makers : CreateDevice(m)
           \/ \E v \in 1..2 : InfoEnds(v)
           \/ UNCHANGED vars
    PROVE  PingUntouched
<1>1. UNCHANGED <<created, pings, worker>>
    BY DEF Toggle, Order, HostSubscribed, Unplug, Plug, GiveUp, Wakeup, SetDeviceStatus, ChildExited,
       CreateDevice, InfoEnds, vars, creator, timers, threads
<1>2. UNCHANGED <<state, shown>> \/ shown' = state'
    BY DEF Toggle, Order, HostSubscribed, Unplug, Plug, GiveUp, Wakeup, SetDeviceStatus, ChildExited,
       CreateDevice, InfoEnds, vars, host, Show
<1> QED
    BY <1>1, <1>2 DEF PingUntouched

\* The scan threads, and the loop that sends the device actors away.
LEMMA OtherThread ==
    ASSUME ThreadsTyped, NEW w \in Workers,
           w # "ping" \/ \E i \in Instruments : Tell(w, i),
           \/ \E pc \in {"post", "kill", "prune"}, todo \in SUBSET Instruments : Enter(w, pc, todo)
           \/ End(w) \/ \E i \in Instruments : Tell(w, i)
    PROVE  worker'["ping"].pc = worker["ping"].pc
<1>1. CASE \E i \in Instruments : Tell(w, i)
    BY <1>1, PingIsThread DEF Tell, ThreadsTyped, Thread
<1>2. CASE w # "ping" /\ ~\E i \in Instruments : Tell(w, i)
    BY <1>2, PingIsThread DEF Enter, End, ThreadsTyped, Thread
<1> QED
    BY <1>1, <1>2

LEMMA ThreadsNotThePing ==
    ASSUME Typed,
           \/ \E w \in Workers : KillNext(w) \/ (KillEnds(w) /\ w # "ping")
           \/ ScanTimer
           \/ \E s \in Scans :
               \/ ScanFails(s) \/ ScanAnswered(s) \/ ScanPrunes(s) \/ ScanEnds(s)
               \/ \E i \in Instruments : ScanCreates(s, i) \/ Prune(s, i)
    PROVE  PingUntouched
<1>1. UNCHANGED <<created, pings, state, shown>>
    BY DEF KillNext, KillEnds, ScanTimer, ScanFails, ScanAnswered, ScanPrunes, ScanEnds, ScanCreates,
       Prune, creator, host, timers
<1>2. ThreadsTyped
    BY DEF Typed
<1>3. worker'["ping"].pc = worker["ping"].pc
    <2>1. ASSUME NEW w \in Workers, KillNext(w) PROVE worker'["ping"].pc = worker["ping"].pc
        <3>1. PICK i \in worker[w].todo : Tell(w, i)
            BY <2>1 DEF KillNext
        <3>2. i \in Instruments
            BY <1>2, <3>1 DEF ThreadsTyped, Thread
        <3> QED
            BY <1>2, <3>1, <3>2, OtherThread
    <2>2. ASSUME NEW w \in Workers, KillEnds(w), w # "ping" PROVE worker'["ping"].pc = worker["ping"].pc
        BY <1>2, <2>2, OtherThread DEF KillEnds
    <2>3. CASE ScanTimer
        BY <1>2, <2>3, PingIsThread DEF ScanTimer, WithScan, ThreadsTyped, Thread
    <2>4. ASSUME NEW s \in Scans, ScanFails(s) \/ ScanPrunes(s) PROVE worker'["ping"].pc = worker["ping"].pc
        <3>1. Members \in SUBSET Instruments /\ Members \ worker[s].list \in SUBSET Instruments
            BY DEF Members
        <3>2. PICK pc \in {"post", "kill", "prune"}, todo \in SUBSET Instruments : Enter(s, pc, todo)
            BY <2>4, <3>1 DEF ScanFails, ScanPrunes
        <3> QED
            BY <1>2, <3>2, OtherThread, PingIsThread
    <2>5. ASSUME NEW s \in Scans, ScanEnds(s) PROVE worker'["ping"].pc = worker["ping"].pc
        BY <1>2, <2>5, OtherThread, PingIsThread DEF ScanEnds
    <2>6. ASSUME NEW s \in Scans, ScanAnswered(s) PROVE worker'["ping"].pc = worker["ping"].pc
        BY <1>2, <2>6, PingIsThread DEF ScanAnswered, ThreadsTyped
    <2>7. ASSUME NEW s \in Scans, NEW i \in Instruments, ScanCreates(s, i)
          PROVE  worker'["ping"].pc = worker["ping"].pc
        BY <1>2, <2>7, PingIsThread DEF ScanCreates, ThreadsTyped
    <2>8. ASSUME NEW s \in Scans, NEW i \in Instruments, Prune(s, i)
          PROVE  worker'["ping"].pc = worker["ping"].pc
        BY <1>2, <2>8, OtherThread, PingIsThread DEF Prune
    <2> QED
        BY <2>1, <2>2, <2>3, <2>4, <2>5, <2>6, <2>7, <2>8
<1> QED
    BY <1>1, <1>3 DEF PingUntouched

\* An announcement creates the host actor only when there has been none.
LEMMA AnnouncePings ==
    ASSUME Pinged, NEW i \in Instruments, Announce(i)
    PROVE  Pinged' /\ PingsEnd
<1>1. Typed' /\ OneHost'
    BY NextTyped, AnnounceOneHost DEF Pinged, Next
<1>2. UNCHANGED <<worker, state, shown, known, current>>
    BY DEF Announce, host, threads
<1>3. CASE UNCHANGED <<created, pings>>
    BY <1>1, <1>2, <1>3 DEF Pinged, OnePing, ShownBetweenPings, PingsEnd, PingDue
<1>4. CASE ~known /\ pending = <<>> /\ CreateHost
    <2>1. created = 0
        BY <1>4 DEF Pinged, OneHost
    <2>2. worker["ping"].pc = "idle" /\ pings = 0 /\ pings' = 2 /\ created' = 1
        BY <1>4, <2>1 DEF Pinged, CreateHost
    <2> QED
        BY <1>1, <1>2, <2>2 DEF Pinged, OnePing, ShownBetweenPings, PingsEnd, PingDue
<1> QED
    BY <1>3, <1>4 DEF Announce, SetupLanDevice

\* The ping itself.
LEMMA NextPingSets ==
    ASSUME NEW threadsThen \in [Workers -> Thread], NextPing([threadsThen EXCEPT !["ping"] = Idle])
    PROVE  pings' = 1 /\ worker'["ping"].pc = "idle"
BY PingIsThread DEF NextPing, Idle, Thread

LEMMA PingAnsweredSets == ThreadsTyped /\ PingAnswered => pings' = 1 /\ worker'["ping"].pc = "idle"
BY NextPingSets, WithScanTyped DEF PingAnswered, ThreadsTyped

LEMMA PingFailedSets == ThreadsTyped /\ PingFailed => pings' = 1 /\ worker'["ping"].pc = "idle"
BY NextPingSets DEF PingFailed, ThreadsTyped

LEMMA PingSteps ==
    ASSUME Pinged, Ping \/ PingAnswered \/ PingFails \/ PingFailed \/ KillEnds("ping")
    PROVE  Pinged' /\ PingsEnd
<1>1. Typed' /\ OneHost' /\ created' = created
    <2>1. Next
        BY PingIsThread DEF Next
    <2> QED
        BY <2>1, NextTyped, NextOneHost
        DEF Pinged, Ping, PingAnswered, PingFails, PingFailed, KillEnds, creator
<1>2. ThreadsTyped /\ pings \in 0..2 /\ (created = 0 => pings = 0 /\ worker["ping"].pc = "idle")
    BY DEF Pinged, Typed, TimersTyped
<1>3. CASE Ping
    <2>1. pings > 0 /\ pings' = 0 /\ created # 0
        BY <1>2, <1>3 DEF Ping
    <2>2. ~PingDue' => worker[current].pc # "idle"
        <3>1. worker["ping"].pc = "idle"
            BY <2>1 DEF Pinged, OnePing
        <3>2. CASE worker[current].pc = "idle"
            <4>1. Enter("ping", "post", {})
                BY <1>3, <3>1, <3>2 DEF Ping
            <4>2. worker'["ping"].pc = "post"
                BY <1>2, <4>1, PingIsThread DEF Enter, ThreadsTyped, Thread
            <4> QED
                BY <4>2 DEF PingDue
        <3> QED
            BY <3>2
    <2> QED
        BY <1>1, <2>1, <2>2 DEF Pinged, OnePing, ShownBetweenPings, PingsEnd, LastPing
<1>4. CASE PingAnswered
    <2>1. shown' = state' /\ created # 0
        BY <1>2, <1>4 DEF PingAnswered, Show
    <2> QED
        BY <1>1, <1>2, <1>4, <2>1, PingAnsweredSets
        DEF Pinged, OnePing, ShownBetweenPings, PingsEnd, PingDue
<1>5. CASE PingFails
    <2>1. worker["ping"].pc = "post" /\ pings' = pings /\ Enter("ping", "kill", Members)
        BY <1>5 DEF PingFails, timers
    <2>2. pings = 0 /\ created # 0
        BY <1>2, <2>1 DEF Pinged, OnePing
    <2>3. worker'["ping"].pc = "kill"
        BY <1>2, <2>1, PingIsThread DEF Enter, ThreadsTyped, Thread
    <2> QED
        BY <1>1, <2>1, <2>2, <2>3 DEF Pinged, OnePing, ShownBetweenPings, PingsEnd, PingDue
<1>6. CASE PingFailed
    <2>1. shown' = state' /\ created # 0
        BY <1>2, <1>6 DEF PingFailed, Show
    <2> QED
        BY <1>1, <1>2, <1>6, <2>1, PingFailedSets
        DEF Pinged, OnePing, ShownBetweenPings, PingsEnd, PingDue
<1>7. CASE KillEnds("ping")
    <2>1. worker["ping"].pc = "kill" /\ pings' = pings /\ Broken("ping")
        BY <1>7 DEF KillEnds, timers
    <2>2. pings = 0 /\ created # 0
        BY <1>2, <2>1 DEF Pinged, OnePing
    <2> QED
        BY <1>1, <2>1, <2>2 DEF Pinged, OnePing, ShownBetweenPings, PingsEnd, LastPing
<1> QED
    BY <1>3, <1>4, <1>5, <1>6, <1>7

LEMMA NextPinged == Pinged /\ [Next]_vars => Pinged' /\ PingsEnd
<1> SUFFICES ASSUME Pinged, [Next]_vars PROVE Pinged' /\ PingsEnd
    OBVIOUS
<1>1. CASE PingUntouched
    <2>1. Typed' /\ OneHost'
        BY NextTyped, NextOneHost DEF Pinged
    <2> QED
        BY <1>1, <2>1 DEF PingUntouched, Pinged, OnePing, ShownBetweenPings, PingsEnd, PingDue
<1>2. \/ PingUntouched
      \/ \E i \in Instruments : Announce(i)
      \/ Ping \/ PingAnswered \/ PingFails \/ PingFailed \/ KillEnds("ping")
    BY NotThePing, ThreadsNotThePing DEF Next, Pinged
<1> QED
    BY <1>1, <1>2, AnnouncePings, PingSteps

\* However pings, scans, orders and information threads interleave, a ping falls due
\* only when the last one has ended, and from then on the Registrar shows the state
\* that the host actor has.
THEOREM PingsFollowOneAnother == Spec => [](OnePing /\ ShownBetweenPings)
<1>1. Pinged => OnePing /\ ShownBetweenPings
    BY DEF Pinged
<1> QED
    BY <1>1, InitPinged, NextPinged, PTL DEF Spec

\* The pings of a host that has been created end in two ways and no other: a ping
\* finds a scan under way, for which no timer is set again, or a device actor comes
\* or goes in the loop that sends them away.
THEOREM PingsEndInTwoWays == Spec => [][PingsEnd]_vars
BY InitPinged, NextPinged, PTL DEF Spec

(***************************************************************************)
(* Hosts of the white list.                                                 *)
(***************************************************************************)
\* A host of the white list is scanned for ever, by two chains of timers; one that
\* is announced, once and when a ping finds it without device actors.
ScannedForEver == IF whitelist THEN scans = (IF known THEN 2 ELSE 0) ELSE scans \in 0..1

\* One scan is over before the next begins.
OneScan == \A s, t \in Scans : s = t

\* No instrument gets two device actors, for which the Registrar would shut down.
NoCollision == whitelist /\ OneScan => ~down

\* The timers of the scans are set once, when the host actor is found.
Scheduled ==
    /\ known => pending = <<>>
    /\ ~known => scans = 0
    /\ ScannedForEver

LEMMA InitScheduled == Init => Scheduled
BY DEF Init, Scheduled, ScannedForEver

LEMMA NextScheduled == Typed /\ Scheduled /\ [Next]_vars => Scheduled'
<1> SUFFICES ASSUME Typed, Scheduled, [Next]_vars PROVE Scheduled'
    OBVIOUS
<1>1. whitelist \in BOOLEAN /\ known \in BOOLEAN /\ scans \in Nat
    BY DEF Typed, WorldTyped, CreatorTyped, TimersTyped
<1>2. ASSUME UNCHANGED <<whitelist, known, pending, scans>> PROVE Scheduled'
    BY <1>2 DEF Scheduled, ScannedForEver
<1>3. ASSUME NEW i \in Instruments, Announce(i) PROVE Scheduled'
    <2>1. UNCHANGED <<whitelist, known, scans>> /\ (pending' = pending \/ ~known)
        BY <1>3 DEF Announce, SetupLanDevice
    <2> QED
        BY <2>1 DEF Scheduled, ScannedForEver
<1>4. CASE HostSubscribed
    <2>1. ~known /\ scans = 0
        BY <1>1, <1>4 DEF HostSubscribed, Scheduled
    <2>2. known' /\ pending' = <<>> /\ whitelist' = whitelist /\ scans' = (IF whitelist THEN 2 ELSE 1)
        BY <1>4, <2>1 DEF HostSubscribed, SetupHostActor, world
    <2> QED
        BY <1>1, <2>2 DEF Scheduled, ScannedForEver
<1>5. CASE ScanTimer
    <2>1. UNCHANGED <<whitelist, known, pending>> /\ scans > 0
          /\ scans' = (IF whitelist THEN scans ELSE scans - 1)
        BY <1>5 DEF ScanTimer, world, creator
    <2> QED
        BY <1>1, <2>1 DEF Scheduled, ScannedForEver
<1>6. \/ Toggle \/ Order
      \/ \E i \in Instruments : Unplug(i) \/ Plug(i) \/ GiveUp(i) \/ Wakeup(i)
      \/ \E i \in Instruments : SetDeviceStatus(i) \/ ChildExited(i)
      \/ \E m \in Makers : CreateDevice(m)
      \/ \E v \in 1..2 : InfoEnds(v)
      => UNCHANGED <<whitelist, scans>>
    BY DEF Toggle, Order, Unplug, Plug, GiveUp, Wakeup, SetDeviceStatus, ChildExited,
       CreateDevice, InfoEnds, world, timers
<1>7. \/ \E w \in Workers : KillNext(w) \/ KillEnds(w)
      \/ Ping \/ PingAnswered \/ PingFails \/ PingFailed
      \/ \E s \in Scans :
          \/ ScanFails(s) \/ ScanAnswered(s) \/ ScanPrunes(s) \/ ScanEnds(s)
          \/ \E i \in Instruments : ScanCreates(s, i) \/ Prune(s, i)
      => UNCHANGED <<whitelist, scans>>
    BY DEF KillNext, KillEnds, Ping, PingAnswered, PingFails, PingFailed, ScanFails,
       ScanAnswered, ScanPrunes, ScanEnds, ScanCreates, Prune, world, timers
<1>8. CASE UNCHANGED vars
    BY <1>2, <1>8 DEF vars, world, creator, timers
<1> QED
    BY <1>2, <1>3, <1>4, <1>5, <1>6, <1>7, <1>8, OthersUntouched, ThreadsUntouched DEF Next

\* Nobody creates a device actor that is there.
Apart ==
    whitelist /\ OneScan =>
        /\ ~down
        /\ \A m \in Makers : making[m] # NoInstrument => m \in Scans /\ child[making[m]] = "none"

\* Whoever only sends device actors away makes none.
LEMMA NothingMade ==
    ASSUME Apart, UNCHANGED <<whitelist, making, down>>,
           \A i \in Instruments : child[i] = "none" => child'[i] = "none",
           ChildrenTyped
    PROVE  Apart'
BY DEF Apart, OneScan, ChildrenTyped

LEMMA NextApart == Typed /\ Apart /\ [Next]_vars => Apart'
<1> SUFFICES ASSUME Typed, Apart, [Next]_vars PROVE Apart'
    OBVIOUS
<1>1. ChildrenTyped /\ (whitelist => inbox = {})
    BY DEF Typed, CreatorTyped
<1>2. ASSUME UNCHANGED <<whitelist, children>> PROVE Apart'
    BY <1>1, <1>2, NothingMade DEF children
<1>3. ASSUME NEW i \in Instruments, SetDeviceStatus(i) PROVE Apart'
    BY <1>1, <1>3 DEF SetDeviceStatus, world, Apart
<1>4. ASSUME NEW m \in Makers, CreateDevice(m) PROVE Apart'
    <2>1. whitelist' = whitelist /\ making[m] # NoInstrument
          /\ making' = [making EXCEPT ![m] = NoInstrument] /\ down' = (making[m] \in Members)
        BY <1>4 DEF CreateDevice, world
    <2> SUFFICES ASSUME whitelist, OneScan
                 PROVE  ~down' /\ \A n \in Makers : making'[n] = NoInstrument
        BY <2>1 DEF Apart
    <2>2. m \in Scans /\ child[making[m]] = "none"
        BY <2>1 DEF Apart
    <2>3. ASSUME NEW n \in Makers PROVE making'[n] = NoInstrument
        <3>1. n # m => making[n] = NoInstrument
            BY <2>2 DEF Apart, OneScan
        <3> QED
            BY <1>1, <2>1, <3>1 DEF ChildrenTyped
    <2> QED
        BY <2>1, <2>2, <2>3 DEF Members
<1>5. ASSUME NEW s \in Scans, NEW i \in Instruments, ScanCreates(s, i) PROVE Apart'
    <2>1. CASE UNCHANGED children
        BY <1>2, <1>5, <2>1 DEF ScanCreates, world
    <2>2. CASE i \notin Members /\ FindMissing(s, i)
        <3>1. UNCHANGED <<whitelist, child, down>> /\ making' = [making EXCEPT ![s] = i] /\ child[i] = "none"
            BY <1>5, <2>2 DEF ScanCreates, world, FindMissing, Members
        <3>2. ASSUME whitelist, OneScan, NEW m \in Makers, making'[m] # NoInstrument
              PROVE  m \in Scans /\ child[making'[m]] = "none"
            <4>1. CASE m = s
                BY <1>1, <3>1, <4>1 DEF ChildrenTyped, Makers
            <4>2. CASE m # s
                BY <1>1, <3>1, <3>2, <4>2 DEF ChildrenTyped, Apart
            <4> QED
                BY <4>1, <4>2
        <3> QED
            BY <3>1, <3>2 DEF Apart
    <2> QED
        BY <1>5, <2>1, <2>2 DEF ScanCreates
<1>6. ASSUME NEW i \in Instruments, Unplug(i) \/ Plug(i) \/ GiveUp(i) \/ Wakeup(i) \/ Announce(i) PROVE Apart'
    <2>1. UNCHANGED <<whitelist, making, down>>
        <3>1. whitelist' = whitelist
            BY <1>6 DEF Unplug, Plug, GiveUp, Wakeup, Announce, world
        <3>2. UNCHANGED <<making, down>>
            BY <1>6 DEF Unplug, Plug, GiveUp, Wakeup, Announce, children
        <3> QED
            BY <3>1, <3>2
    <2>2. child' = child \/ (child' = [child EXCEPT ![i] = "dying"] /\ child[i] = "alive")
        <3>1. CASE Unplug(i)
            BY <3>1 DEF Unplug
        <3>2. CASE GiveUp(i)
            BY <3>2 DEF GiveUp
        <3>3. CASE Plug(i) \/ Wakeup(i) \/ Announce(i)
            BY <3>3 DEF Plug, Wakeup, Announce, children
        <3> QED
            BY <1>6, <3>1, <3>2, <3>3
    <2> QED
        BY <1>1, <2>1, <2>2, NothingMade DEF ChildrenTyped
<1>7. ASSUME NEW i \in Instruments, ChildExited(i) PROVE Apart'
    BY <1>1, <1>7, NothingMade DEF ChildExited, world, ChildrenTyped
<1>8. ASSUME NEW w \in Workers, NEW i, Tell(w, i), UNCHANGED <<whitelist, making, down>> PROVE Apart'
    BY <1>1, <1>8, NothingMade DEF Tell, ChildrenTyped
<1>9. CASE Order
    BY <1>1, <1>9, NothingMade DEF Order, ChildrenTyped
<1>10. Toggle \/ HostSubscribed \/ (\E v \in 1..2 : InfoEnds(v)) \/ UNCHANGED vars
       => UNCHANGED <<whitelist, children>>
    BY DEF Toggle, HostSubscribed, InfoEnds, vars, world
<1>11. \/ \E w \in Workers : KillEnds(w)
       \/ Ping \/ PingAnswered \/ PingFails \/ PingFailed \/ ScanTimer
       \/ \E s \in Scans : ScanFails(s) \/ ScanAnswered(s) \/ ScanPrunes(s) \/ ScanEnds(s)
       => UNCHANGED <<whitelist, children>>
    BY DEF KillEnds, Ping, PingAnswered, PingFails, PingFailed, ScanTimer, ScanFails,
       ScanAnswered, ScanPrunes, ScanEnds, world
<1>12. ASSUME NEW w \in Workers, KillNext(w) PROVE Apart'
    BY <1>8, <1>12 DEF KillNext, world
<1>13. ASSUME NEW s \in Scans, NEW i \in Instruments, Prune(s, i) PROVE Apart'
    BY <1>8, <1>13 DEF Prune, world, Workers
<1> QED
    BY <1>2, <1>3, <1>4, <1>5, <1>6, <1>7, <1>9, <1>10, <1>11, <1>12, <1>13 DEF Next

\* The scans of a host of the white list never end, whatever its pings and threads
\* come to; that is what repairs the list of device actors after a failure.
THEOREM ScansGoOn == Spec => []ScannedForEver
<1>1. Scheduled => ScannedForEver
    BY DEF Scheduled
<1> QED
    BY <1>1, InitTyped, NextTyped, InitScheduled, NextScheduled, PTL DEF Spec

\* The device actors of a host of the white list never collide, as long as no two
\* scans are under way at a time: test and entry are two steps, but nobody else
\* creates one between them.
THEOREM NobodyCollides == Spec => []NoCollision
<1>1. Init => Apart
    BY DEF Init, Apart
<1>2. Apart => NoCollision
    BY DEF Apart, NoCollision
<1> QED
    BY <1>1, <1>2, InitTyped, NextTyped, NextApart, PTL DEF Spec
=============================================================================
