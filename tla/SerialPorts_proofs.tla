-------------------------- MODULE SerialPorts_proofs --------------------------
(***************************************************************************)
(* Proofs about the COM actors for any set of ports: the polling loop is     *)
(* never left without a timer, whatever the cluster actor, the listener, the  *)
(* REST API, the detection threads and the device actors do to each other.    *)
(***************************************************************************)
EXTENDS SerialPorts, TLAPS, SequenceTheorems

\* The part of a COM actor the polling loop is about.
PollTyped ==
    /\ com \in [Port -> {"none", "run", "dying", "exited"}]
    /\ polling \in [Port -> BOOLEAN]
    /\ wakeups \in [Port -> Nat]

Sound == PollTyped /\ PollingHasTimer

LEMMA InitSound == Init => Sound
BY DEF Init, Sound, PollTyped, PollingHasTimer

LEMMA UntouchedSound ==
    ASSUME Sound, UNCHANGED <<com, polling, wakeups>>
    PROVE  Sound'
BY DEF Sound, PollTyped, PollingHasTimer

\* A new COM actor starts without the flag, the others are left alone.
LEMMA NewActorsSound ==
    ASSUME PollTyped, PollingHasTimer,
           NEW coms \in [Port -> {"none", "run", "dying", "exited"}],
           \A p \in Port : coms[p] = "run" => com[p] = "run",
           NEW new \in SUBSET Port,
           com' = [p \in Port |-> IF p \in new THEN "run" ELSE coms[p]],
           polling' = [p \in Port |-> IF p \in new THEN FALSE ELSE polling[p]],
           wakeups' = [p \in Port |-> IF p \in new THEN 0 ELSE wakeups[p]]
    PROVE  Sound'
<1>1. PollTyped'
    BY DEF PollTyped
<1>2. ASSUME NEW p \in Port, com'[p] = "run", polling'[p] PROVE wakeups'[p] > 0
    <2>1. p \notin new
        BY <1>2
    <2>2. com[p] = "run" /\ polling[p] /\ wakeups'[p] = wakeups[p]
        BY <1>2, <2>1
    <2> QED
        BY <2>2 DEF PollingHasTimer
<1> QED
    BY <1>1, <1>2 DEF Sound, PollingHasTimer

LEMMA RescanSound ==
    ASSUME Sound, NEW coms \in [Port -> {"none", "run", "dying", "exited"}], NEW loop,
           \A p \in Port : coms[p] = "run" => com[p] = "run",
           Rescan(coms, loop)
    PROVE  Sound'
<1> DEFINE new == {p \in active_ports(loop) : coms[p] = "none"} \cap Port
<1>1. /\ com' = [p \in Port |-> IF p \in new THEN "run" ELSE coms[p]]
      /\ polling' = [p \in Port |-> IF p \in new THEN FALSE ELSE polling[p]]
      /\ wakeups' = [p \in Port |-> IF p \in new THEN 0 ELSE wakeups[p]]
    BY DEF Rescan
<1> QED
    BY <1>1, NewActorsSound DEF Sound

LEMMA ClusterSound ==
    ASSUME Sound,
           \/ InstrAddedOrRemoved \/ RescanMsg
           \/ \E p \in Port : ComActorExited(p) \/ AddPortToLoop(p) \/ RemovePortFromLoop(p)
    PROVE  Sound'
<1>1. CASE InstrAddedOrRemoved
    BY <1>1, RescanSound DEF InstrAddedOrRemoved, Sound, PollTyped
<1>2. CASE RescanMsg
    <2> DEFINE new == {p \in active_ports(loop_ports) : com[p] = "none"} \cap Port
    <2>1. /\ com' = [p \in Port |-> IF p \in new THEN "run" ELSE com[p]]
          /\ polling' = [p \in Port |-> IF p \in new THEN FALSE ELSE polling[p]]
          /\ wakeups' = [p \in Port |-> IF p \in new THEN 0 ELSE wakeups[p]]
        BY <1>2 DEF RescanMsg
    <2> QED
        BY <2>1, NewActorsSound DEF Sound, PollTyped
<1>3. ASSUME NEW p \in Port, ComActorExited(p) PROVE Sound'
    <2> DEFINE coms == [com EXCEPT ![p] = "none"]
    <2>1. /\ coms \in [Port -> {"none", "run", "dying", "exited"}]
          /\ \A q \in Port : coms[q] = "run" => com[q] = "run"
        BY DEF Sound, PollTyped
    <2>2. Rescan(coms, loop_ports)
        BY <1>3 DEF ComActorExited
    <2> HIDE DEF coms
    <2> QED
        BY <2>1, <2>2, RescanSound
<1>4. ASSUME NEW p \in Port, AddPortToLoop(p) \/ RemovePortFromLoop(p) PROVE Sound'
    <2>1. Rescan(com, loop_ports')
        BY <1>4 DEF AddPortToLoop, RemovePortFromLoop
    <2> QED
        BY <2>1, RescanSound DEF Sound, PollTyped
<1> QED
    BY <1>1, <1>2, <1>3, <1>4

\* A COM actor that runs stays as it was or ends; nobody gets the flag without a
\* timer, and nobody loses the last timer with the flag set.
LEMMA OnePortSound ==
    ASSUME Sound, NEW p \in Port, PollTyped',
           \A q \in Port \ {p} : /\ com'[q] = com[q] /\ polling'[q] = polling[q]
                                 /\ wakeups'[q] = wakeups[q],
           com'[p] = "run" /\ polling'[p] => wakeups'[p] > 0
    PROVE  Sound'
BY DEF Sound, PollingHasTimer

LEMMA StartPollingSound ==
    ASSUME PollTyped, NEW p \in Port, com[p] = "run" /\ polling[p] => wakeups[p] > 0,
           com[p] = "run", StartPolling(p)
    PROVE  /\ polling' \in [Port -> BOOLEAN] /\ wakeups' \in [Port -> Nat]
           /\ (polling'[p] => wakeups'[p] > 0)
           /\ \A q \in Port \ {p} : polling'[q] = polling[q] /\ wakeups'[q] = wakeups[q]
<1>1. CASE stopped
    BY <1>1 DEF StartPolling, PollTyped
<1>2. CASE ~stopped
    <2>1. /\ polling' = [polling EXCEPT ![p] = TRUE]
          /\ wakeups' = [wakeups EXCEPT ![p] = IF polling[p] THEN @ ELSE @ + 1]
        BY <1>2 DEF StartPolling
    <2> QED
        BY <2>1 DEF PollTyped
<1> QED
    BY <1>1, <1>2

LEMMA ComSound ==
    ASSUME Sound, NEW p \in Port,
           \/ ComActor(p) \/ DeviceActor(p) \/ Wakeup(p) \/ Thread(p)
    PROVE  Sound'
<1> USE DEF Sound
<1>1. com[p] = "run" /\ polling[p] => wakeups[p] > 0
    BY DEF PollingHasTimer
<1>2. CASE ReceiveSetup(p)
    <2>1. com' = com
        BY <1>2 DEF ReceiveSetup
    <2>2. CASE UNCHANGED <<polling, wakeups>>
        BY <2>1, <2>2, UntouchedSound
    <2>3. CASE StartPolling(p)
        <3>1. CASE stopped
            BY <2>1, <2>3, <3>1, UntouchedSound DEF StartPolling
        <3>2. CASE ~stopped
            <4> /\ polling' = [polling EXCEPT ![p] = TRUE]
                /\ wakeups' = [wakeups EXCEPT ![p] = IF polling[p] THEN @ ELSE @ + 1]
                BY <2>3, <3>2 DEF StartPolling
            <4>1. PollTyped' /\ (wakeups'[p] > 0 \/ com[p] = "dying")
                BY <1>1, <1>2, <2>1 DEF ReceiveSetup, PollTyped
            <4>2. \A q \in Port \ {p} : polling'[q] = polling[q] /\ wakeups'[q] = wakeups[q]
                BY <2>3, <3>2 DEF StartPolling, PollTyped
            <4> QED
                BY <2>1, <4>1, <4>2, OnePortSound
        <3> QED
            BY <3>1, <3>2
    <2> QED
        BY <1>2, <2>2, <2>3 DEF ReceiveSetup
<1>3. CASE ReceiveKill(p)
    <2>1. PollTyped' /\ com'[p] # "run"
        BY <1>3 DEF ReceiveKill, PollTyped
    <2>2. \A q \in Port \ {p} : /\ com'[q] = com[q] /\ polling'[q] = polling[q]
                                /\ wakeups'[q] = wakeups[q]
        BY <1>3 DEF ReceiveKill, PollTyped
    <2> QED
        BY <2>1, <2>2, OnePortSound
<1>4. CASE DeviceLost(p)
    BY <1>4, UntouchedSound DEF DeviceLost
<1>5. CASE DeviceActorExited(p)
    <2>1. CASE com[p] = "dying"
        <3>1. PollTyped' /\ com'[p] # "run"
            BY <1>5, <2>1 DEF DeviceActorExited, PollTyped
        <3>2. \A q \in Port \ {p} : /\ com'[q] = com[q] /\ polling'[q] = polling[q]
                                    /\ wakeups'[q] = wakeups[q]
            BY <1>5, <2>1 DEF DeviceActorExited, PollTyped
        <3> QED
            BY <3>1, <3>2, OnePortSound
    <2>2. CASE com[p] = "run"
        <3>1. com' = com /\ StartPolling(p)
            BY <1>5, <2>2 DEF DeviceActorExited
        <3>2. /\ PollTyped' /\ (polling'[p] => wakeups'[p] > 0)
              /\ \A q \in Port \ {p} : polling'[q] = polling[q] /\ wakeups'[q] = wakeups[q]
            BY <1>1, <2>2, <3>1, StartPollingSound DEF PollTyped
        <3> QED
            BY <3>1, <3>2, OnePortSound
    <2> QED
        BY <1>5, <2>1, <2>2 DEF DeviceActorExited
<1>6. CASE Wakeup(p)
    <2>1. com' = com
        BY <1>6 DEF Wakeup
    <2>2. CASE UNCHANGED <<polling, wakeups>>
        BY <2>1, <2>2, UntouchedSound
    <2>3. CASE /\ wakeups' = [wakeups EXCEPT ![p] = @ - 1]
               /\ polling' = [polling EXCEPT ![p] = FALSE]
        <3>1. PollTyped' /\ ~polling'[p]
            BY <1>6, <2>1, <2>3 DEF Wakeup, PollTyped
        <3>2. \A q \in Port \ {p} : polling'[q] = polling[q] /\ wakeups'[q] = wakeups[q]
            BY <2>3 DEF PollTyped
        <3> QED
            BY <2>1, <3>1, <3>2, OnePortSound
    <2> QED
        BY <1>6, <2>2, <2>3 DEF Wakeup
<1>7. CASE Detect(p) \/ Found(p) \/ NotFound(p)
    BY <1>7, UntouchedSound DEF Detect, Found, NotFound
<1>8. CASE NotAccessible(p)
    <2>1. PollTyped' /\ com'[p] # "run"
        BY <1>8 DEF NotAccessible, PollTyped
    <2>2. \A q \in Port \ {p} : /\ com'[q] = com[q] /\ polling'[q] = polling[q]
                                /\ wakeups'[q] = wakeups[q]
        BY <1>8 DEF NotAccessible, PollTyped
    <2> QED
        BY <2>1, <2>2, OnePortSound
<1>9. CASE StopPolling(p)
    <2>1. PollTyped' /\ ~polling'[p]
        BY <1>9 DEF StopPolling, PollTyped
    <2>2. \A q \in Port \ {p} : /\ com'[q] = com[q] /\ polling'[q] = polling[q]
                                /\ wakeups'[q] = wakeups[q]
        BY <1>9 DEF StopPolling, PollTyped
    <2> QED
        BY <2>1, <2>2, OnePortSound
<1> QED
    BY <1>2, <1>3, <1>4, <1>5, <1>6, <1>7, <1>8, <1>9 DEF ComActor, DeviceActor, Thread

LEMMA WorldSound ==
    ASSUME Sound, NEW p \in Port, Plug(p) \/ Unplug(p) \/ Attach(p) \/ DeviceFails(p)
    PROVE  Sound'
BY UntouchedSound DEF Plug, Unplug, Attach, DeviceFails, comVars

LEMMA NextSound == Sound /\ [Next]_vars => Sound'
<1>1. Sound /\ Next => Sound'
    BY ClusterSound, ComSound, WorldSound DEF Next, Outside
<1>2. Sound /\ UNCHANGED vars => Sound'
    BY UntouchedSound DEF vars, comVars
<1> QED
    BY <1>1, <1>2

\* The loops of all COM actors are sound at every moment.
THEOREM PollingSound == Spec => []Sound
BY InitSound, NextSound, PTL DEF Spec

\* A COM actor whose flag says that it polls has a timer under way: it is never
\* stuck with a flag that keeps _start_polling from starting the loop.
THEOREM LoopHasTimer == Spec => []PollingHasTimer
<1>1. Sound => PollingHasTimer
    BY DEF Sound
<1> QED
    BY <1>1, PollingSound, PTL
-----------------------------------------------------------------------------
(* The ports and their COM actors.                                           *)

ComTyped ==
    /\ com \in [Port -> {"none", "run", "dying", "exited"}]
    /\ inbox \in [Port -> Seq({Setup(TRUE), Setup(FALSE), Kill})]
    /\ events \in Nat

Told(messages) == \E k \in DOMAIN messages : messages[k] = Kill

\* A COM actor whose port is gone has been told, and a port without a COM actor
\* gets one, or there is news the cluster actor has not handled yet.
Attended(p) ==
    /\ com[p] = "run" /\ p \notin active_ports(loop_ports) => events > 0 \/ Told(inbox[p])
    /\ com[p] = "none" /\ p \in active_ports(loop_ports) => events > 0

Served == ComTyped /\ \A p \in Port : Attended(p)

LEMMA SetupTyped == \A loop \in BOOLEAN : Setup(loop) \in {Setup(TRUE), Setup(FALSE), Kill}
<1> TAKE loop \in BOOLEAN
<1>1. CASE loop = TRUE
    BY <1>1
<1>2. CASE loop = FALSE
    BY <1>2
<1> QED
    BY <1>1, <1>2, Zenon

LEMMA SingletonTyped == ASSUME NEW S, NEW e \in S PROVE <<e>> \in Seq(S)
OBVIOUS

\* After a rescan there is nothing left to do, whatever was open before.
LEMMA RescanServes ==
    ASSUME ComTyped, NEW coms \in [Port -> {"none", "run", "dying", "exited"}],
           Rescan(coms, loop_ports'), plugged' = plugged, events' \in Nat
    PROVE  Served'
<1> DEFINE active == active_ports(loop_ports')
           new == {p \in active : coms[p] = "none"}
           gone == {p \in Port \ active : coms[p] \in {"run", "dying"}}
<1>1. active_ports(loop_ports)' = active
    BY DEF active_ports
<1>2. /\ com' = [p \in Port |-> IF p \in new THEN "run" ELSE coms[p]]
      /\ inbox' = [p \in Port |-> IF p \in new THEN <<Setup(p \in loop_ports')>>
                                  ELSE IF p \in gone THEN Append(inbox[p], Kill) ELSE inbox[p]]
    BY DEF Rescan
<1> HIDE DEF active
<1>3. ASSUME NEW p \in Port
      PROVE  inbox'[p] \in Seq({Setup(TRUE), Setup(FALSE), Kill})
    <2>1. <<Setup(p \in loop_ports')>> \in Seq({Setup(TRUE), Setup(FALSE), Kill})
        <3>1. (p \in loop_ports') \in BOOLEAN
            OBVIOUS
        <3>2. Setup(p \in loop_ports') \in {Setup(TRUE), Setup(FALSE), Kill}
            BY <3>1, SetupTyped, Zenon
        <3> QED
            BY <3>2, SingletonTyped, Zenon
    <2>2. /\ inbox[p] \in Seq({Setup(TRUE), Setup(FALSE), Kill})
          /\ Append(inbox[p], Kill) \in Seq({Setup(TRUE), Setup(FALSE), Kill})
        BY AppendProperties DEF ComTyped
    <2> QED
        BY <1>2, <2>1, <2>2
<1>4. ComTyped'
    <2>1. com' \in [Port -> {"none", "run", "dying", "exited"}]
        BY <1>2
    <2>2. inbox' \in [Port -> Seq({Setup(TRUE), Setup(FALSE), Kill})]
        BY <1>2, <1>3
    <2> QED
        BY <2>1, <2>2 DEF ComTyped
<1>5. ASSUME NEW p \in Port PROVE Attended(p)'
    <2>1. CASE p \in active
        BY <1>1, <1>2, <2>1 DEF Attended
    <2>2. CASE p \notin active
        <3>1. com'[p] = coms[p]
            BY <1>2, <2>2
        <3>2. coms[p] = "run" => Told(inbox'[p])
            <4> SUFFICES ASSUME coms[p] = "run" PROVE Told(inbox'[p])
                OBVIOUS
            <4>1. inbox'[p] = Append(inbox[p], Kill) /\ inbox[p] \in Seq({Setup(TRUE), Setup(FALSE), Kill})
                BY <1>2, <2>2 DEF ComTyped
            <4>2. /\ inbox'[p][Len(inbox[p]) + 1] = Kill
                  /\ Len(inbox[p]) + 1 \in DOMAIN inbox'[p]
                BY <4>1, AppendProperties
            <4> QED
                BY <4>2 DEF Told
        <3> QED
            BY <1>1, <2>2, <3>1, <3>2 DEF Attended
    <2> QED
        BY <2>1, <2>2
<1> QED
    BY <1>4, <1>5 DEF Served

LEMMA RescanMsgServes ==
    ASSUME ComTyped, RescanMsg
    PROVE  Served'
<1> DEFINE active == active_ports(loop_ports)
           new == {p \in active : com[p] = "none"}
           gone == {p \in Port \ active : com[p] \in {"run", "dying"}}
           told(p) == com[p] \in {"run", "dying"} \/ p \in new
           first(p) == IF p \in new THEN <<Setup(p \in loop_ports)>> ELSE inbox[p]
           kill(p) == IF p \in gone THEN <<Kill>> ELSE <<>>
           again(p) == IF told(p) THEN <<Setup(p \in loop_ports)>> ELSE <<>>
<1>1. active_ports(loop_ports)' = active /\ events' = events
    BY DEF RescanMsg, active_ports
<1>2. /\ com' = [p \in Port |-> IF p \in new THEN "run" ELSE com[p]]
      /\ inbox' = [p \in Port |-> first(p) \o kill(p) \o again(p)]
    BY DEF RescanMsg
<1> HIDE DEF active
<1>3. ASSUME NEW p \in Port
      PROVE  /\ first(p) \in Seq({Setup(TRUE), Setup(FALSE), Kill})
             /\ kill(p) \in Seq({Setup(TRUE), Setup(FALSE), Kill})
             /\ again(p) \in Seq({Setup(TRUE), Setup(FALSE), Kill})
    <2>1. <<Setup(p \in loop_ports)>> \in Seq({Setup(TRUE), Setup(FALSE), Kill})
        <3>1. (p \in loop_ports) \in BOOLEAN
            OBVIOUS
        <3>2. Setup(p \in loop_ports) \in {Setup(TRUE), Setup(FALSE), Kill}
            BY <3>1, SetupTyped, Zenon
        <3> QED
            BY <3>2, SingletonTyped, Zenon
    <2>2. <<Kill>> \in Seq({Setup(TRUE), Setup(FALSE), Kill})
        BY SingletonTyped
    <2>3. <<>> \in Seq({Setup(TRUE), Setup(FALSE), Kill})
        OBVIOUS
    <2>4. inbox[p] \in Seq({Setup(TRUE), Setup(FALSE), Kill})
        BY DEF ComTyped
    <2> QED
        BY <2>1, <2>2, <2>3, <2>4, Zenon
<1> HIDE DEF first, again
<1>4. ComTyped'
    <2>1. com' \in [Port -> {"none", "run", "dying", "exited"}]
        BY <1>2 DEF ComTyped
    <2>2. inbox' \in [Port -> Seq({Setup(TRUE), Setup(FALSE), Kill})]
        BY <1>2, <1>3, ConcatProperties
    <2> QED
        BY <1>1, <2>1, <2>2 DEF ComTyped
<1>5. ASSUME NEW p \in Port PROVE Attended(p)'
    <2>1. CASE p \in active
        BY <1>1, <1>2, <2>1 DEF Attended
    <2>2. CASE p \notin active
        <3>1. com'[p] = com[p]
            BY <1>2, <2>2
        <3>2. com[p] = "run" => Told(inbox'[p])
            <4> SUFFICES ASSUME com[p] = "run" PROVE Told(inbox'[p])
                OBVIOUS
            <4>1. inbox'[p] = first(p) \o <<Kill>> \o again(p)
                BY <1>2, <2>2
            <4>2. /\ inbox'[p][Len(first(p)) + 1] = Kill
                  /\ Len(first(p)) + 1 \in DOMAIN inbox'[p]
                BY <1>3, <4>1, ConcatProperties
            <4> QED
                BY <4>2 DEF Told
        <3> QED
            BY <1>1, <2>2, <3>1, <3>2 DEF Attended
    <2> QED
        BY <2>1, <2>2
<1> QED
    BY <1>4, <1>5 DEF Served

LEMMA InitServed == Init => Served
<1> SUFFICES ASSUME Init PROVE Served
    OBVIOUS
<1>1. <<>> \in Seq({Setup(TRUE), Setup(FALSE), Kill})
    OBVIOUS
<1> QED
    BY <1>1 DEF Init, Served, ComTyped, Attended

LEMMA UntouchedServed ==
    ASSUME Served, UNCHANGED <<com, inbox, events, plugged, loop_ports>>
    PROVE  Served'
BY DEF Served, ComTyped, Attended, active_ports

\* A COM actor that takes a message which is no KillMsg, or that ends.
LEMMA OneActorServed ==
    ASSUME Served, NEW p \in Port, ComTyped', UNCHANGED <<events, plugged, loop_ports>>,
           \A q \in Port \ {p} : com'[q] = com[q] /\ inbox'[q] = inbox[q],
           \/ com'[p] \in {"dying", "exited"}
           \/ com'[p] = com[p] /\ (Told(inbox[p]) => Told(inbox'[p]))
    PROVE  Served'
BY DEF Served, Attended, active_ports

LEMMA WorldServed ==
    ASSUME Served, NEW p \in Port,
           Plug(p) \/ Unplug(p) \/ Attach(p) \/ DeviceFails(p) \/ DeviceLost(p)
    PROVE  Served'
<1>1. CASE Plug(p) \/ Unplug(p)
    <2>1. UNCHANGED <<com, inbox>> /\ events' = events + 1
        BY <1>1 DEF Plug, Unplug, comVars
    <2>2. events \in Nat /\ ComTyped
        BY DEF Served, ComTyped
    <2>3. events' \in Nat /\ events' > 0
        BY <2>1, <2>2
    <2>4. ComTyped'
        BY <2>1, <2>2, <2>3 DEF ComTyped
    <2> QED
        BY <2>3, <2>4 DEF Served, Attended
<1>2. CASE Attach(p) \/ DeviceFails(p) \/ DeviceLost(p)
    BY <1>2, UntouchedServed DEF Attach, DeviceFails, DeviceLost, comVars, world
<1> QED
    BY <1>1, <1>2

LEMMA ClusterServed ==
    ASSUME Served,
           \/ InstrAddedOrRemoved \/ RescanMsg
           \/ \E p \in Port : ComActorExited(p) \/ AddPortToLoop(p) \/ RemovePortFromLoop(p)
    PROVE  Served'
<1> USE DEF Served
<1>1. CASE InstrAddedOrRemoved
    <2>1. /\ Rescan(com, loop_ports) /\ loop_ports' = loop_ports /\ plugged' = plugged
          /\ events' \in Nat /\ com \in [Port -> {"none", "run", "dying", "exited"}]
        BY <1>1 DEF InstrAddedOrRemoved, world, ComTyped
    <2> QED
        BY <2>1, RescanServes
<1>2. CASE RescanMsg
    BY <1>2, RescanMsgServes
<1>3. ASSUME NEW p \in Port, ComActorExited(p) PROVE Served'
    <2> DEFINE coms == [com EXCEPT ![p] = "none"]
    <2>1. coms \in [Port -> {"none", "run", "dying", "exited"}]
        BY DEF ComTyped
    <2>2. /\ Rescan(coms, loop_ports) /\ loop_ports' = loop_ports /\ plugged' = plugged
          /\ events' \in Nat
        BY <1>3 DEF ComActorExited, world, ComTyped
    <2> HIDE DEF coms
    <2> QED
        BY <2>1, <2>2, RescanServes
<1>4. ASSUME NEW p \in Port, AddPortToLoop(p) \/ RemovePortFromLoop(p) PROVE Served'
    <2>1. /\ Rescan(com, loop_ports') /\ plugged' = plugged /\ events' \in Nat
          /\ com \in [Port -> {"none", "run", "dying", "exited"}]
        BY <1>4 DEF AddPortToLoop, RemovePortFromLoop, ComTyped
    <2> QED
        BY <2>1, RescanServes
<1> QED
    BY <1>1, <1>2, <1>3, <1>4

LEMMA ComServed ==
    ASSUME Served, NEW p \in Port,
           ComActor(p) \/ DeviceActorExited(p) \/ Wakeup(p) \/ Thread(p)
    PROVE  Served'
<1>1. CASE ReceiveSetup(p)
    <2> DEFINE first == Head(inbox[p])
    <2>a. first.type = "SetupComActorMsg"
        BY <1>1 DEF ReceiveSetup
    <2>b. Kill.type = "KillMsg"
        BY DEF Kill
    <2>c. first # Kill
        BY <2>a, <2>b
    <2>d. /\ inbox' = [inbox EXCEPT ![p] = Tail(@)] /\ inbox[p] # <<>>
          /\ UNCHANGED <<com, events, plugged, loop_ports>>
        BY <1>1 DEF ReceiveSetup, world
    <2>1. /\ inbox[p] \in Seq({Setup(TRUE), Setup(FALSE), Kill}) /\ inbox[p] # <<>>
          /\ inbox' = [inbox EXCEPT ![p] = Tail(@)]
          /\ UNCHANGED <<com, events, plugged, loop_ports>>
          /\ Head(inbox[p]) # Kill
        BY <2>c, <2>d DEF Served, ComTyped
    <2>2. ComTyped'
        BY <2>1, HeadTailProperties DEF Served, ComTyped
    <2>3. Told(inbox[p]) => Told(Tail(inbox[p]))
        <3> SUFFICES ASSUME NEW k \in DOMAIN inbox[p], inbox[p][k] = Kill
                     PROVE  Told(Tail(inbox[p]))
            BY DEF Told
        <3>1. k # 1 /\ k \in 1 .. Len(inbox[p])
            BY <2>1
        <3>2. k - 1 \in DOMAIN Tail(inbox[p]) /\ Tail(inbox[p])[k - 1] = inbox[p][k]
            BY <2>1, <3>1, HeadTailProperties
        <3> QED
            BY <3>2 DEF Told
    <2>4. \A q \in Port \ {p} : com'[q] = com[q] /\ inbox'[q] = inbox[q]
        BY <2>1 DEF Served, ComTyped
    <2>5. com'[p] = com[p] /\ inbox'[p] = Tail(inbox[p])
        BY <2>1 DEF Served, ComTyped
    <2> QED
        BY <2>1, <2>2, <2>3, <2>4, <2>5, OneActorServed
<1>2. CASE ReceiveKill(p)
    <2>1. /\ inbox[p] \in Seq({Setup(TRUE), Setup(FALSE), Kill}) /\ inbox[p] # <<>>
          /\ inbox' = [inbox EXCEPT ![p] = Tail(@)]
          /\ com' = [com EXCEPT ![p] = IF device[p] = "none" THEN "exited" ELSE "dying"]
          /\ UNCHANGED <<events, plugged, loop_ports>>
        BY <1>2 DEF ReceiveKill, Served, ComTyped, world
    <2>2. ComTyped'
        BY <2>1, HeadTailProperties DEF Served, ComTyped
    <2>3. /\ \A q \in Port \ {p} : com'[q] = com[q] /\ inbox'[q] = inbox[q]
          /\ com'[p] \in {"dying", "exited"}
        BY <2>1 DEF Served, ComTyped
    <2> QED
        BY <2>1, <2>2, <2>3, OneActorServed
<1>3. CASE DeviceActorExited(p) \/ NotAccessible(p)
    <2>1. /\ com' = [com EXCEPT ![p] = "exited"] \/ com' = com
          /\ UNCHANGED <<inbox, events, plugged, loop_ports>>
        BY <1>3 DEF DeviceActorExited, NotAccessible, world, StartPolling
    <2>2. CASE com' = com
        BY <2>1, <2>2, UntouchedServed
    <2>3. CASE com' = [com EXCEPT ![p] = "exited"]
        <3>1. ComTyped' /\ com'[p] = "exited"
            BY <2>1, <2>3 DEF Served, ComTyped
        <3>2. \A q \in Port \ {p} : com'[q] = com[q] /\ inbox'[q] = inbox[q]
            BY <2>1, <2>3 DEF Served, ComTyped
        <3> QED
            BY <2>1, <3>1, <3>2, OneActorServed
    <2> QED
        BY <2>1, <2>2, <2>3
<1>4. CASE Wakeup(p) \/ Detect(p) \/ Found(p) \/ NotFound(p) \/ StopPolling(p)
    BY <1>4, UntouchedServed DEF Wakeup, Detect, Found, NotFound, StopPolling, world
<1> QED
    BY <1>1, <1>2, <1>3, <1>4 DEF ComActor, Thread

LEMMA NextServed == Served /\ [Next]_vars => Served'
<1>1. Served /\ Next => Served'
    BY ClusterServed, ComServed, WorldServed DEF Next, Outside, DeviceActor
<1>2. Served /\ UNCHANGED vars => Served'
    BY UntouchedServed DEF vars, comVars, world
<1> QED
    BY <1>1, <1>2

LEMMA ServedPorts == Served => PortsServed
<1> SUFFICES ASSUME Served, events = 0, NEW p \in Port,
                    inbox[p] = <<>>, com[p] \notin {"dying", "exited"}
             PROVE  com[p] = "run" <=> p \in active_ports(loop_ports)
    BY DEF PortsServed
<1>1. ~Told(inbox[p])
    BY DEF Told
<1>2. com[p] \in {"none", "run"}
    BY DEF Served, ComTyped
<1> QED
    BY <1>1, <1>2 DEF Served, Attended

\* When all messages are handled, the COM actors are those of the ports there are,
\* for any set of ports and however often they have come and gone.
THEOREM EveryPortServed == Spec => []PortsServed
BY InitServed, NextServed, ServedPorts, PTL DEF Spec
=============================================================================
