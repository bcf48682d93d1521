------------------------------- MODULE LanHost -------------------------------
(***************************************************************************)
(* The LAN backend up to the device actors: the host creator                 *)
(* (lan_host_creator.py) makes one host actor for a remote server, and the    *)
(* host actor (host_actor.py) makes one device actor for each instrument the  *)
(* server lists.  Either the hosts stand in a white list and are scanned at   *)
(* intervals, or the mDNS listener announces their instruments one by one.    *)
(* The host actor talks to the server in threads that share its attributes     *)
(* with the actor's own handlers.  One host, and its instruments.              *)
(***************************************************************************)
EXTENDS Naturals, FiniteSets, FiniteSetsExt

CONSTANTS
    Scans,         \* bound: scan threads at a time
    Instruments,
    NoInstrument,
    MaxChanges     \* bound: changes at the server, announcements, orders

ASSUME InstrumentAssumption ==
    IsFiniteSet(Instruments) /\ NoInstrument \notin Instruments

ASSUME ThreadAssumption == "ping" \notin Scans

Workers == Scans \cup {"ping"}
Makers == Scans \cup {"actor"}

VARIABLES
    whitelist,    \* the host stands in HOSTS_WHITELIST, nothing is announced
    online,       \* the server answers
    listed,       \* the instruments it lists
    changes,      \* how often the world has changed
    down,         \* the Registrar has shut everything down
    created,      \* host actors created for the host
    known,        \* the host is in the creator's actor_dict, base_url is set
    pending,      \* pending[host]: <<>> or <<instrument of the message>>
    delayed,      \* messages that wait in a wakeup of the creator
    inbox,        \* SetDeviceStatusMsg under way to the host actor
    child,        \* instrument -> what becomes of its device actor
    making,       \* who has found a device actor missing and is creating it
    state,        \* host.state: 0 off line, 1 no instruments, 2 functional
    shown,        \* the state the Registrar knows
    pings,        \* timers of _ping; 2: the first, which comes before any scan
    scans,        \* timers of _scan
    worker,       \* threads
    current,      \* scan_thread: the one started last
    infos         \* get_host_info threads, by the state they start with
world == <<whitelist, online, listed, changes>>
creator == <<created, known, pending, delayed>>
children == <<child, making, down>>
host == <<state, shown, infos>>
timers == <<pings, scans>>
threads == <<worker, current>>
vars == <<world, creator, inbox, children, host, timers, threads>>

Idle == [pc |-> "idle", todo |-> {}, list |-> {}, size |-> 0, old |-> FALSE]
Members == {i \in Instruments : child[i] # "none"}  \* child_actors

Init ==
    /\ whitelist \in BOOLEAN /\ online = TRUE /\ listed = Instruments /\ changes = 0
    /\ created = (IF whitelist THEN 1 ELSE 0) /\ known = FALSE
    /\ pending = (IF whitelist THEN <<NoInstrument>> ELSE <<>>)
    /\ delayed = {} /\ inbox = {}
    /\ child = [i \in Instruments |-> "none"] /\ making = [m \in Makers |-> NoInstrument]
    /\ down = FALSE
    /\ state = 1 /\ shown = 0 /\ infos = {}
    /\ pings = 2 * created /\ scans = 0
    /\ worker = [w \in Workers |-> Idle] /\ current \in Scans

(***************************************************************************)
(* The server and the network.                                              *)
(***************************************************************************)
Change == ~down /\ changes < MaxChanges /\ changes' = changes + 1

Toggle ==
    /\ Change /\ online' = ~online
    /\ UNCHANGED <<whitelist, listed, creator, inbox, children, host, timers, threads>>

\* remove_service of the mDNS listener: the device actor is told to go.
Unplug(i) ==
    /\ Change /\ listed' = listed \ {i} /\ i \in listed
    /\ child' = IF ~whitelist /\ child[i] = "alive"
                THEN [child EXCEPT ![i] = "dying"] ELSE child
    /\ UNCHANGED <<whitelist, online, creator, inbox, making, down, host, timers, threads>>

Plug(i) ==
    /\ Change /\ i \notin listed /\ listed' = listed \cup {i}
    /\ UNCHANGED <<whitelist, online, creator, inbox, children, host, timers, threads>>

\* A device actor that cannot reach its instrument kills itself.
GiveUp(i) ==
    /\ ~down /\ child[i] = "alive" /\ (~online \/ i \notin listed)
    /\ child' = [child EXCEPT ![i] = "dying"]
    /\ UNCHANGED <<world, creator, inbox, making, down, host, timers, threads>>

(***************************************************************************)
(* HostCreatorActor.                                                        *)
(***************************************************************************)
CreateHost == created' = created + 1 /\ pings' = 2

\* mutant: pending is not looked at
AnnounceAnyway(i) ==
    IF known
    THEN inbox' = inbox \cup {i} /\ UNCHANGED <<created, pings, pending, delayed>>
    ELSE CreateHost /\ pending' = <<i>> /\ UNCHANGED <<inbox, delayed>>

\* receiveMsg_SetupLanDeviceMsg.
SetupLanDevice(i) ==
    \/ /\ known
       /\ inbox' = inbox \cup {i}
       /\ UNCHANGED <<created, pings, pending, delayed>>
    \/ /\ ~known /\ pending # <<>>
       /\ delayed' = delayed \cup {i}
       /\ UNCHANGED <<created, pings, pending, inbox>>
    \/ /\ ~known /\ pending = <<>>
       /\ CreateHost /\ pending' = <<i>>
       /\ UNCHANGED <<inbox, delayed>>

\* add_service, update_service of the mDNS listener.
Announce(i) ==
    /\ Change /\ ~whitelist /\ online /\ i \in listed
    /\ SetupLanDevice(i)
    /\ UNCHANGED <<whitelist, online, listed, known, children, host, scans, threads>>

\* receiveMsg_WakeupMessage tests the class of the wakeup, not of its payload:
\* the message is lost.
Wakeup(i) ==
    /\ ~down /\ i \in delayed /\ delayed' = delayed \ {i}
    /\ UNCHANGED <<world, created, known, pending, inbox, children, host, timers, threads>>

\* HostInfoMsg: what the Registrar knows of the host.
Show(value) == shown' = value

\* A thread of _get_host_info starts with the state that child_actors suggests.
AskHostInfo(members) == infos' = infos \cup {IF members = {} THEN 1 ELSE 2}

\* receiveMsg_SetupHostActorMsg: the first scan comes in 3 s; in a white list the
\* host is scanned for ever, by two chains of timers.
SetupHostActor == scans' = scans + (IF whitelist THEN 2 ELSE 1)

\* receiveMsg_UpdateActorDictMsg: the host actor has subscribed and is set up.  The
\* Registrar asks for its host information.
HostSubscribed ==
    /\ ~down /\ pending # <<>> /\ created > 0
    /\ known' = TRUE /\ pending' = <<>>
    /\ SetupHostActor
    /\ IF whitelist THEN UNCHANGED inbox
       ELSE inbox' = inbox \cup {pending[1]}
    /\ AskHostInfo(Members) /\ UNCHANGED <<state, shown>>
    /\ UNCHANGED <<world, created, delayed, children, pings, threads>>

(***************************************************************************)
(* Device actors.  The test of child_actors and the entry in it are two      *)
(* steps, in the actor and in the scan threads.                              *)
(***************************************************************************)
ActorFree == ~down /\ making["actor"] = NoInstrument

FindMissing(m, i) == making' = [making EXCEPT ![m] = i] /\ UNCHANGED <<child, down>>

\* receiveMsg_SetDeviceStatusMsg; an actor that is there gets the new status.
SetDeviceStatus(i) ==
    /\ ActorFree /\ i \in inbox /\ inbox' = inbox \ {i}
    /\ IF i \in Members THEN UNCHANGED children ELSE FindMissing("actor", i)
    /\ UNCHANGED <<world, creator, host, timers, threads>>

\* The rest of _set_device_status.  Two actors of one id: the Registrar shuts down.
CreateDevice(m) ==
    LET i == making[m] IN
    /\ ~down /\ i # NoInstrument
    /\ making' = [making EXCEPT ![m] = NoInstrument]
    /\ down' = (i \in Members)
    /\ child' = [child EXCEPT ![i] = "alive"]
    /\ AskHostInfo(Members \cup {i})
    /\ UNCHANGED <<world, creator, inbox, state, shown, timers, threads>>

\* receiveMsg_ChildActorExited.
ChildExited(i) ==
    /\ ActorFree /\ child[i] = "dying" /\ child' = [child EXCEPT ![i] = "none"]
    /\ IF Members = {i}
       THEN state' = Min({state, 1}) /\ Show(state')
       ELSE UNCHANGED <<state, shown>>
    /\ UNCHANGED <<world, creator, inbox, making, down, infos, timers, threads>>

(***************************************************************************)
(* Threads that tell all children to go.                                    *)
(***************************************************************************)
Enter(w, pc, todo) ==
    worker' = [worker EXCEPT ![w].pc = pc, ![w].todo = todo, ![w].list = {}, ![w].size = Cardinality(Members)]
End(w) == worker' = [worker EXCEPT ![w] = Idle]

\* A loop over child_actors ends with an exception when somebody has added or
\* removed a child meanwhile.
Broken(w) == worker[w].size # Cardinality(Members)

Tell(w, i) ==
    /\ child' = [child EXCEPT ![i] = IF @ = "alive" THEN "dying" ELSE @]
    /\ worker' = [worker EXCEPT ![w].todo = @ \ {i}]

\* One round of _forward_to_children(KillMsg).
KillNext(w) ==
    /\ ~down /\ worker[w].pc = "kill" /\ ~Broken(w)
    /\ \E i \in worker[w].todo : Tell(w, i)
    /\ UNCHANGED <<world, creator, inbox, making, down, host, timers, current>>

\* The end of the loop, or of the thread; for "ping" see PingFailed.
KillEnds(w) ==
    /\ ~down /\ worker[w].pc = "kill" /\ (Broken(w) \/ (w # "ping" /\ worker[w].todo = {}))
    /\ End(w)
    /\ UNCHANGED <<world, creator, inbox, children, host, timers, current>>

(***************************************************************************)
(* _ping.                                                                   *)
(***************************************************************************)
\* The timer of the next ping is set; it runs for five minutes, longer than the
\* scans that are under way then.
NextPing(threadsThen) ==
    /\ pings' = 1
    /\ worker' = [w \in Workers |-> [threadsThen[w] EXCEPT !.old = @ \/ threadsThen[w].pc # "idle"]]

\* The timer runs down.  While a scan is under way there is no ping, and no
\* other timer either.
Ping ==
    /\ ActorFree /\ pings > 0 /\ pings' = 0 /\ \A s \in Scans : ~worker[s].old
    /\ IF worker["ping"].pc = "idle" /\ worker[current].pc = "idle"
       THEN Enter("ping", "post", {})
       ELSE UNCHANGED worker
    /\ UNCHANGED <<world, creator, inbox, children, host, scans, current>>

\* _scan: a new thread, whatever the others do.
WithScan(s) == [worker EXCEPT ![s].pc = "fetch"]

\* The server answers: without children there is a scan.
PingAnswered ==
    /\ ~down /\ worker["ping"].pc = "post" /\ online /\ known
    /\ state' = (IF state = 0 THEN 1 ELSE state) /\ Show(state')
    /\ \/ /\ Members # {} /\ UNCHANGED current
          /\ NextPing([worker EXCEPT !["ping"] = Idle])
       \/ \E s \in Scans :
          /\ Members = {} /\ worker[s].pc = "idle" /\ current' = s
          /\ NextPing([WithScan(s) EXCEPT !["ping"] = Idle])
    /\ UNCHANGED <<world, creator, inbox, children, infos, scans>>

\* mutant: the state stays
PingUnanswered ==
    /\ ~down /\ worker["ping"].pc = "post" /\ ~(online /\ known)
    /\ Enter("ping", "kill", Members)
    /\ UNCHANGED <<world, creator, inbox, children, host, timers, current>>

PingFails ==
    /\ ~down /\ worker["ping"].pc = "post" /\ ~(online /\ known)
    /\ state' = 0 /\ Enter("ping", "kill", Members)
    /\ UNCHANGED <<world, creator, inbox, children, shown, infos, timers, current>>

PingFailed ==
    /\ ~down /\ worker["ping"].pc = "kill" /\ worker["ping"].todo = {} /\ ~Broken("ping")
    /\ Show(state) /\ NextPing([worker EXCEPT !["ping"] = Idle])
    /\ UNCHANGED <<world, creator, inbox, children, state, infos, scans, current>>

(***************************************************************************)
(* _scan.                                                                   *)
(***************************************************************************)

\* mutant: one scan after the setup and no other
ScanOnce ==
    /\ ActorFree /\ scans > 0 /\ pings # 2 /\ scans' = scans - 1
    /\ \E s \in Scans : worker[s].pc = "idle" /\ current' = s /\ worker' = WithScan(s)
    /\ UNCHANGED <<world, creator, inbox, children, host, pings>>

ScanTimer ==
    /\ ActorFree /\ scans > 0 /\ pings # 2
    /\ scans' = (IF whitelist THEN scans ELSE scans - 1)
    /\ \E s \in Scans : worker[s].pc = "idle" /\ current' = s /\ worker' = WithScan(s)
    /\ UNCHANGED <<world, creator, inbox, children, host, pings>>

\* mutant: a scan without an answer has no consequence
ScanIgnored(s) ==
    /\ ~down /\ worker[s].pc = "fetch" /\ ~online
    /\ End(s)
    /\ UNCHANGED <<world, creator, inbox, children, host, timers, current>>

ScanFails(s) ==
    /\ ~down /\ worker[s].pc = "fetch" /\ ~online
    /\ Enter(s, "kill", Members)
    /\ UNCHANGED <<world, creator, inbox, children, host, timers, current>>

ScanAnswered(s) ==
    /\ ~down /\ worker[s].pc = "fetch" /\ online
    /\ worker' = [worker EXCEPT ![s].pc = "create", ![s].list = listed, ![s].todo = listed]
    /\ UNCHANGED <<world, creator, inbox, children, host, timers, current>>

\* The next instrument of the list.
ScanCreates(s, i) ==
    /\ ~down /\ worker[s].pc = "create" /\ making[s] = NoInstrument /\ i \in worker[s].todo
    /\ worker' = [worker EXCEPT ![s].todo = @ \ {i}]
    /\ IF i \in Members THEN UNCHANGED children ELSE FindMissing(s, i)
    /\ UNCHANGED <<world, creator, inbox, host, timers, current>>

\* Instruments that are no longer in the list.
ScanPrunes(s) ==
    /\ ~down /\ worker[s].pc = "create" /\ making[s] = NoInstrument /\ worker[s].todo = {}
    /\ Enter(s, "prune", Members \ worker[s].list)
    /\ UNCHANGED <<world, creator, inbox, children, host, timers, current>>

\* Each is looked for in a loop of its own; one that is gone is not found.
Prune(s, i) ==
    /\ ~down /\ worker[s].pc = "prune" /\ i \in worker[s].todo
    /\ Tell(s, i)
    /\ UNCHANGED <<world, creator, inbox, making, down, host, timers, current>>

ScanEnds(s) ==
    /\ ~down /\ worker[s].pc = "prune" /\ (worker[s].todo = {} \/ Broken(s))
    /\ End(s)
    /\ UNCHANGED <<world, creator, inbox, children, host, timers, current>>

(***************************************************************************)
(* Orders and host information.                                             *)
(***************************************************************************)
\* receiveMsg_RescanMsg, receiveMsg_ShutdownMsg with the threads they start: an
\* order that cannot be delivered, or that the server refuses, sends the children
\* away, here at one stroke.
Order ==
    /\ Change /\ ActorFree /\ known
    /\ child' = [i \in Instruments |-> IF child[i] = "alive" THEN "dying" ELSE child[i]]
    /\ UNCHANGED <<whitelist, online, listed, creator, inbox, making, down, host, timers, threads>>

\* _get_host_info_function.  The server's own state, or, when it does not know the
\* request, the one the thread has started with, or none: the server is gone.
InfoEnds(v) ==
    /\ ~down /\ known /\ v \in infos /\ infos' = infos \ {v}
    /\ \/ online /\ state' = (IF listed = {} THEN 1 ELSE 2)
       \/ state' = (IF online THEN v ELSE 0)
    /\ Show(state')
    /\ UNCHANGED <<world, creator, inbox, children, timers, threads>>

Next ==
    \/ Toggle \/ Order
    \/ \E i \in Instruments : Unplug(i) \/ Plug(i) \/ GiveUp(i) \/ Announce(i) \/ Wakeup(i)
    \/ HostSubscribed
    \/ \E i \in Instruments : SetDeviceStatus(i) \/ ChildExited(i)
    \/ \E m \in Makers : CreateDevice(m)
    \/ \E w \in Workers : KillNext(w) \/ KillEnds(w)
    \/ Ping \/ PingAnswered \/ PingFails \/ PingFailed
    \/ ScanTimer
    \/ \E s \in Scans :
        \/ ScanFails(s) \/ ScanAnswered(s) \/ ScanPrunes(s) \/ ScanEnds(s)
        \/ \E i \in Instruments : ScanCreates(s, i) \/ Prune(s, i)
    \/ \E v \in 1..2 : InfoEnds(v)

\* Threads go on, timers run down, messages arrive.  A scan that is due while
\* two are under way starts when one of them has ended.
Fairness ==
    /\ WF_vars(HostSubscribed) /\ \A i \in Instruments : WF_vars(Wakeup(i))
    /\ \A i \in Instruments : WF_vars(SetDeviceStatus(i)) /\ WF_vars(ChildExited(i))
    /\ \A m \in Makers : WF_vars(CreateDevice(m))
    /\ \A w \in Workers : WF_vars(KillNext(w) \/ KillEnds(w))
    /\ WF_vars(Ping) /\ SF_vars(PingAnswered) /\ WF_vars(PingFails) /\ WF_vars(PingFailed)
    /\ SF_vars(ScanTimer)
    /\ \A s \in Scans :
        /\ WF_vars(ScanFails(s) \/ ScanAnswered(s))
        /\ WF_vars(\E i \in Instruments : ScanCreates(s, i)) /\ WF_vars(ScanPrunes(s))
        /\ WF_vars(ScanEnds(s) \/ \E i \in Instruments : Prune(s, i))
    /\ \A v \in 1..2 : WF_vars(InfoEnds(v))

Spec == Init /\ [][Next]_vars
FairSpec == Spec /\ Fairness

(***************************************************************************)
(* Properties.                                                              *)
(***************************************************************************)

\* However its announcements meet the creation of the host actor, a host gets
\* one host actor and no second.
HostIsCreatedOnce == created <= 1

\* An instrument that stays with a server of the white list gets a device
\* actor and keeps it: whatever the threads have done to each other before, a
\* later scan repairs it.
InstrumentGetsActor ==
    \A i \in Instruments :
        <>[](whitelist /\ online /\ i \in listed) => <>[](child[i] = "alive" \/ down)

\* The device actors of a server of the white list that has gone go, although
\* their own host actor may have stopped to send pings.
UnreachableIsEmptied == <>[](whitelist /\ ~online) => <>[](Members = {} \/ down)

\* As long as pings go on, a server that stays off line is shown so, whatever
\* threads that have asked it before still write into the host's state.
OfflineIsShown == ([]<>(worker["ping"].pc = "post") /\ <>[]~online) => <>[](shown = 0 \/ down)

\* The host is pinged regularly: there is always a next ping.
PingsGoOn == created > 0 /\ ~down => pings > 0 \/ worker["ping"].pc # "idle"
=============================================================================
