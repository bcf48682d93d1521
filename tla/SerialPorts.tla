----------------------------- MODULE SerialPorts -----------------------------
(***************************************************************************)
(* How instruments on serial ports are found and lost: the cluster actor    *)
(* (cluster_actor.py) keeps one COM actor (com_actor.py) per port, told by   *)
(* the listener for USB events (unix_listener.py), by its own children when   *)
(* they exit, and by the REST API.  A COM actor looks for an instrument in a   *)
(* thread of its own, once or in a polling loop, creates the device actor      *)
(* from that thread, and starts to poll when the device actor has exited.      *)
(*                                                                             *)
(* A port carries one instrument (no RS-485 bus with several addresses).       *)
(***************************************************************************)
EXTENDS Naturals, Sequences

CONSTANTS
    Port,
    Usb,          \* ports that come and go together with their instrument
    PollPorts,    \* POLL_SERIAL_PORTS
    RestPorts,    \* ports the REST API adds to the polling loop and removes
    SlowChildren, \* a device actor lives longer than its creator needs to return
    MaxChanges    \* bound: how often something happens from outside

ASSUME PortAssumption ==
    /\ Usb \subseteq Port /\ PollPorts \subseteq Port /\ RestPorts \subseteq Port
    /\ SlowChildren \in BOOLEAN /\ MaxChanges \in Nat

VARIABLES
    plugged,    \* ports the operating system lists
    attached,   \* ports with an instrument that answers
    changes,    \* how much has happened from outside
    stopped,    \* the flag file is gone: the program is about to end
    events,     \* messages on their way to the cluster actor that make it rescan
    loop_ports, \* ports the cluster actor wants to be polled
    com,        \* port -> "none", "run", "dying" or "exited": its COM actor
    inbox,      \* port -> messages of the cluster actor for the COM actor
    permanent,  \* port -> is there a permanent polling interval
    polling,    \* port -> polling_loop_running
    wakeups,    \* port -> timers under way
    thread,     \* port -> "none", "sleep", "probe" or "created": detect_instr_thread
    device      \* port -> "none", "run", "polled" or "dying": child actor
world == <<plugged, attached, changes, stopped>>
comVars == <<inbox, permanent, polling, wakeups, thread, device>>
vars == <<world, events, loop_ports, com, comVars>>

Setup(loop) == [type |-> "SetupComActorMsg", loop |-> loop]
Kill == [type |-> "KillMsg", loop |-> FALSE]

Init ==
    /\ plugged \in SUBSET Port /\ Port \ Usb \subseteq plugged
    /\ attached \in SUBSET plugged /\ plugged \cap Usb \subseteq attached
    /\ changes = 0 /\ stopped = FALSE
    /\ events = 1 \* the SetupMsg
    /\ loop_ports = PollPorts
    /\ com = [p \in Port |-> "none"]
    /\ inbox = [p \in Port |-> <<>>]
    /\ permanent = [p \in Port |-> FALSE] /\ polling = [p \in Port |-> FALSE]
    /\ wakeups = [p \in Port |-> 0]
    /\ thread = [p \in Port |-> "none"]
    /\ device = [p \in Port |-> "none"]

(***************************************************************************)
(* The outside.                                                             *)
(***************************************************************************)
Happens == changes < MaxChanges /\ changes' = changes + 1
Change == Happens /\ UNCHANGED stopped

\* usb_device_event: the cluster actor is told that something has changed.
Plug(p) ==
    /\ Change /\ p \in Usb \ plugged
    /\ plugged' = plugged \cup {p} /\ attached' = attached \cup {p}
    /\ events' = events + 1
    /\ UNCHANGED <<loop_ports, com, comVars>>
Unplug(p) ==
    /\ Change /\ p \in Usb \cap plugged
    /\ plugged' = plugged \ {p} /\ attached' = attached \ {p}
    /\ events' = events + 1
    /\ UNCHANGED <<loop_ports, com, comVars>>

\* An instrument on an RS-232 interface: nobody is told.
Attach(p) ==
    /\ Change /\ p \in Port \ Usb
    /\ attached' = IF p \in attached THEN attached \ {p} ELSE attached \cup {p}
    /\ UNCHANGED <<plugged, events, loop_ports, com, comVars>>

\* A device actor gives up, whether its instrument is there or not.
DeviceFails(p) ==
    /\ Change /\ device[p] \in {"run", "polled"}
    /\ device' = [device EXCEPT ![p] = "dying"]
    /\ UNCHANGED <<plugged, attached, events, loop_ports, com,
                   inbox, permanent, polling, wakeups, thread>>

\* A device actor that polls its instrument notices that it is gone.
DeviceLost(p) ==
    /\ device[p] = "polled" /\ p \notin attached
    /\ device' = [device EXCEPT ![p] = "dying"]
    /\ UNCHANGED <<world, events, loop_ports, com, inbox, permanent, polling, wakeups, thread>>

(***************************************************************************)
(* Cluster actor.                                                           *)
(***************************************************************************)
active_ports(loop) == plugged \cup loop

RescanNew(coms, loop) == \* mutant: gone ports are not looked for
    LET new == {p \in active_ports(loop) : coms[p] = "none"}
        fresh(f, value) == [p \in Port |-> IF p \in new THEN value ELSE f[p]]
    IN /\ com' = fresh(coms, "run")
       /\ inbox' = [p \in Port |-> IF p \in new THEN <<Setup(p \in loop)>> ELSE inbox[p]]
       /\ permanent' = fresh(permanent, FALSE) /\ polling' = fresh(polling, FALSE)
       /\ wakeups' = fresh(wakeups, 0)
       /\ thread' = fresh(thread, "none") /\ device' = fresh(device, "none")

\* _rescan: a COM actor for every new port, a KillMsg for every gone one.
Rescan(coms, loop) ==
    LET new == {p \in active_ports(loop) : coms[p] = "none"}
        gone == {p \in Port \ active_ports(loop) : coms[p] \in {"run", "dying"}}
        fresh(f, value) == [p \in Port |-> IF p \in new THEN value ELSE f[p]]
    IN /\ com' = fresh(coms, "run")
       /\ inbox' = [p \in Port |-> IF p \in new THEN <<Setup(p \in loop)>>
                                   ELSE IF p \in gone THEN Append(inbox[p], Kill) ELSE inbox[p]]
       /\ permanent' = fresh(permanent, FALSE) /\ polling' = fresh(polling, FALSE)
       /\ wakeups' = fresh(wakeups, 0)
       /\ thread' = fresh(thread, "none") /\ device' = fresh(device, "none")

\* receiveMsg_SetupMsg, receiveMsg_InstrAddedMsg, receiveMsg_InstrRemovedMsg.
InstrAddedOrRemoved ==
    /\ events > 0 /\ events' = events - 1
    /\ Rescan(com, loop_ports)
    /\ UNCHANGED <<world, loop_ports>>

ComActorForgotten(p) == \* mutant: without the rescan
    /\ com[p] = "exited"
    /\ com' = [com EXCEPT ![p] = "none"]
    /\ UNCHANGED <<world, events, loop_ports, comVars>>

\* receiveMsg_ChildActorExited.
ComActorExited(p) ==
    /\ com[p] = "exited"
    /\ Rescan([com EXCEPT ![p] = "none"], loop_ports)
    /\ UNCHANGED <<world, events, loop_ports>>

\* receiveMsg_AddPortToLoopMsg, receiveMsg_RemovePortFromLoopMsg.
AddPortToLoop(p) ==
    /\ Change /\ p \in RestPorts \cap active_ports(loop_ports)
    /\ loop_ports' = loop_ports \cup {p}
    /\ Rescan(com, loop_ports')
    /\ UNCHANGED <<plugged, attached, events>>
RemovePortFromLoop(p) ==
    /\ Change /\ p \in RestPorts \cap loop_ports
    /\ loop_ports' = loop_ports \ {p}
    /\ Rescan(com, loop_ports')
    /\ UNCHANGED <<plugged, attached, events>>

\* receiveMsg_RescanMsg: _rescan and _update, which tells every COM actor again
\* what it was told at its creation.  One that has exited meanwhile may miss it:
\* the dead letter is none of the harmless ones (base_actor.py), and ends the program.
RescanMsg ==
    LET new == {p \in active_ports(loop_ports) : com[p] = "none"}
        gone == {p \in Port \ active_ports(loop_ports) : com[p] \in {"run", "dying"}}
        told(p) == com[p] \in {"run", "dying"} \/ p \in new
        fresh(f, value) == [p \in Port |-> IF p \in new THEN value ELSE f[p]]
    IN /\ Happens
       /\ \/ UNCHANGED stopped
          \/ (\E p \in Port : com[p] = "exited") /\ stopped' = TRUE
       /\ com' = fresh(com, "run")
       /\ inbox' = [p \in Port |->
                      (IF p \in new THEN <<Setup(p \in loop_ports)>> ELSE inbox[p])
                      \o (IF p \in gone THEN <<Kill>> ELSE <<>>)
                      \o (IF told(p) THEN <<Setup(p \in loop_ports)>> ELSE <<>>)]
       /\ permanent' = fresh(permanent, FALSE) /\ polling' = fresh(polling, FALSE)
       /\ wakeups' = fresh(wakeups, 0)
       /\ thread' = fresh(thread, "none") /\ device' = fresh(device, "none")
       /\ UNCHANGED <<plugged, attached, events, loop_ports>>

(***************************************************************************)
(* COM actor.                                                               *)
(***************************************************************************)
\* _do_loop: a detection thread, unless one is alive.
DoLoop(p) == IF thread[p] = "none" THEN "sleep" ELSE thread[p]

\* _start_polling: a timer chain, unless there is one according to the flag.
StartPolling(p) ==
    IF stopped THEN UNCHANGED <<polling, wakeups>>
    ELSE /\ polling' = [polling EXCEPT ![p] = TRUE]
         /\ wakeups' = [wakeups EXCEPT ![p] = IF polling[p] THEN @ ELSE @ + 1]

\* receiveMsg_SetupComActorMsg.
ReceiveSetup(p) ==
    /\ com[p] \in {"run", "dying"} /\ inbox[p] # <<>> /\ Head(inbox[p]).type = "SetupComActorMsg"
    /\ inbox' = [inbox EXCEPT ![p] = Tail(@)]
    /\ permanent' = [permanent EXCEPT ![p] = Head(inbox[p]).loop]
    /\ IF device[p] # "none"
       THEN /\ device' = [device EXCEPT ![p] = "dying"]
            /\ UNCHANGED <<polling, wakeups, thread>>
       ELSE /\ thread' = [thread EXCEPT ![p] = DoLoop(p)]
            /\ IF Head(inbox[p]).loop THEN StartPolling(p) ELSE UNCHANGED <<polling, wakeups>>
            /\ UNCHANGED device
    /\ UNCHANGED <<world, events, loop_ports, com>>

\* receiveMsg_KillMsg: at once, or after the device actor.
ReceiveKill(p) ==
    /\ com[p] \in {"run", "dying"} /\ inbox[p] # <<>> /\ Head(inbox[p]).type = "KillMsg"
    /\ inbox' = [inbox EXCEPT ![p] = Tail(@)]
    /\ com' = [com EXCEPT ![p] = IF device[p] = "none" THEN "exited" ELSE "dying"]
    /\ device' = [device EXCEPT ![p] = IF @ = "none" THEN @ ELSE "dying"]
    /\ UNCHANGED <<world, events, loop_ports, permanent, polling, wakeups, thread>>

\* receiveMsg_ChildActorExited.
DeviceActorGone(p) == \* mutant: polling is not started
    /\ device[p] = "dying" /\ com[p] \in {"run", "dying"}
    /\ SlowChildren => thread[p] # "created"
    /\ device' = [device EXCEPT ![p] = "none"]
    /\ com' = [com EXCEPT ![p] = IF @ = "dying" THEN "exited" ELSE @]
    /\ UNCHANGED <<world, events, loop_ports, inbox, permanent, polling, wakeups, thread>>
DeviceActorExited(p) ==
    /\ device[p] = "dying" /\ com[p] \in {"run", "dying"}
    /\ SlowChildren => thread[p] # "created"
    /\ device' = [device EXCEPT ![p] = "none"]
    /\ IF com[p] = "dying"
       THEN com' = [com EXCEPT ![p] = "exited"] /\ UNCHANGED <<polling, wakeups>>
       ELSE StartPolling(p) /\ UNCHANGED com
    /\ UNCHANGED <<world, events, loop_ports, inbox, permanent, thread>>

\* receiveMsg_WakeupMessage: the next turn of a timer chain, or its end.
WakeupOnce(p) == \* mutant: the timer is not set again
    /\ com[p] \in {"run", "dying"} /\ wakeups[p] > 0
    /\ wakeups' = [wakeups EXCEPT ![p] = @ - 1]
    /\ thread' = [thread EXCEPT ![p] = IF com[p] = "run" /\ polling[p] THEN DoLoop(p) ELSE @]
    /\ UNCHANGED <<world, events, loop_ports, com, inbox, permanent, polling, device>>
Wakeup(p) ==
    /\ com[p] \in {"run", "dying"} /\ wakeups[p] > 0
    /\ IF com[p] = "run" /\ polling[p]
       THEN thread' = [thread EXCEPT ![p] = DoLoop(p)] /\ UNCHANGED <<polling, wakeups>>
       ELSE /\ wakeups' = [wakeups EXCEPT ![p] = @ - 1]
            /\ polling' = [polling EXCEPT ![p] = FALSE]
            /\ UNCHANGED thread
    /\ UNCHANGED <<world, events, loop_ports, com, inbox, permanent, device>>

\* _detect_instr, in the thread: after some seconds it looks at child_actors ...
Detect(p) ==
    /\ thread[p] = "sleep" /\ com[p] \in {"run", "dying"}
    /\ thread' = [thread EXCEPT ![p] = IF device[p] = "none" THEN "probe" ELSE "none"]
    /\ UNCHANGED <<world, events, loop_ports, com, inbox, permanent, polling, wakeups, device>>

\* ... then it talks to the port: _get_instrument finds an instrument, for which
\* it creates the device actor, ...
Found(p) ==
    /\ thread[p] = "probe" /\ com[p] = "run" /\ p \in attached
    /\ device' = [device EXCEPT ![p] = IF permanent[p] THEN "polled" ELSE "run"]
    /\ thread' = [thread EXCEPT ![p] = "created"]
    /\ UNCHANGED <<world, events, loop_ports, com, inbox, permanent, polling, wakeups>>
\* ... or nothing, ...
NotFound(p) ==
    /\ thread[p] = "probe" /\ com[p] = "run" /\ p \in plugged \ attached
    /\ thread' = [thread EXCEPT ![p] = "none"]
    /\ UNCHANGED <<world, events, loop_ports, com, inbox, permanent, polling, wakeups, device>>
\* ... or the port is not accessible, because it is gone or for another reason,
\* and the actor kills itself.
NotAccessible(p) ==
    /\ thread[p] = "probe" /\ com[p] = "run"
    /\ \/ p \notin plugged /\ UNCHANGED <<changes, stopped>>
       \/ Change
    /\ thread' = [thread EXCEPT ![p] = "none"]
    /\ com' = [com EXCEPT ![p] = "exited"]
    /\ UNCHANGED <<plugged, attached, events, loop_ports, inbox, permanent, polling, wakeups, device>>

\* _stop_polling, the last step of the thread.
StopPolling(p) ==
    /\ thread[p] = "created" /\ com[p] \in {"run", "dying"}
    /\ thread' = [thread EXCEPT ![p] = "none"]
    /\ polling' = [polling EXCEPT ![p] = FALSE]
    /\ UNCHANGED <<world, events, loop_ports, com, inbox, permanent, wakeups, device>>

DeviceActor(p) == DeviceLost(p) \/ DeviceActorExited(p)
ComActor(p) == ReceiveSetup(p) \/ ReceiveKill(p)
Thread(p) == Detect(p) \/ Found(p) \/ NotFound(p) \/ NotAccessible(p) \/ StopPolling(p)
Outside(p) ==
    \/ Plug(p) \/ Unplug(p) \/ Attach(p) \/ DeviceFails(p)
    \/ AddPortToLoop(p) \/ RemovePortFromLoop(p)

Next ==
    \/ \E p \in Port : \/ Outside(p) \/ ComActorExited(p) \/ DeviceActor(p) \/ ComActor(p)
                       \/ Wakeup(p) \/ Thread(p)
    \/ InstrAddedOrRemoved \/ RescanMsg

\* Actors handle their messages, timers run down, and threads come to an end.
Fairness ==
    /\ WF_vars(InstrAddedOrRemoved)
    /\ \A p \in Port : /\ WF_vars(ComActorExited(p)) /\ WF_vars(DeviceActor(p))
                       /\ WF_vars(ComActor(p)) /\ WF_vars(Wakeup(p)) /\ WF_vars(Thread(p))
Spec == Init /\ [][Next]_vars /\ Fairness

(***************************************************************************)
(* Properties.                                                              *)
(***************************************************************************)

\* When the messages are handled, the child actors of the cluster actor are those
\* of the ports there are, however often a port came and went while its COM actor
\* was starting, looking for an instrument or waiting for its device actor.
PortsServed ==
    events = 0 /\ (\A p \in Port : inbox[p] = <<>> /\ com[p] \notin {"dying", "exited"})
    => \A p \in Port : com[p] = "run" <=> p \in active_ports(loop_ports)

\* The flag polling_loop_running is set only when a timer is under way: otherwise
\* _start_polling would never start the loop again.
PollingHasTimer == \A p \in Port : com[p] = "run" /\ polling[p] => wakeups[p] > 0

\* An instrument that stays on its port, which is one of those that are polled or
\* announce themselves, gets a device actor again and again, though COM actors and
\* device actors may fail and the port may have come and gone, unless a rescan
\* order has met a COM actor that had just exited, which ends the program.
InstrumentIsFound ==
    \A p \in Port :
        <>[](p \in attached /\ p \in Usb \cup loop_ports) => []<>(device[p] # "none" \/ stopped)

\* A port that has gone for good keeps neither a COM actor nor a device actor.
GoneIsRemoved ==
    \A p \in Port : <>[](p \notin active_ports(loop_ports)) => <>[](com[p] = "none" /\ device[p] = "none")
=============================================================================
