------------------------------ MODULE MqttLink ------------------------------
(***************************************************************************)
(* How instruments become known over MQTT: instrument servers with their       *)
(* MQTT frontend (mqtt_scheduler.py), the broker, and the client actor of a      *)
(* registration server (mqtt_client_actor.py) that makes a device actor for     *)
(* each instrument.  The state of a server is retained by the broker, the meta   *)
(* data of its instruments are not: the client asks for them with the command     *)
(* "update", which a server obeys once a second at most.                         *)
(*                                                                              *)
(* The servers have persistent sessions, the client has clean ones.  A device     *)
(* actor that the client has told to go is gone before the next message of the    *)
(* broker is handled; one that gives up takes its time.  All messages of a server *)
(* come in order, so that none has an older start time ("Since") than the last.    *)
(***************************************************************************)
EXTENDS Naturals, FiniteSets, SequencesExt

CONSTANTS
    Servers,      \* is_ids
    Instruments,
    Nothing,      \* no server, no instrument
    MaxChanges    \* bound: servers, instruments and connections that change, orders

ASSUME NothingAssumption == Nothing \notin Servers \cup Instruments
ASSUME FiniteAssumption == IsFiniteSet(Servers) /\ IsFiniteSet(Instruments)

Orders == {"scan", "shutdown"}
NoState == 9

VARIABLES
    changes,
    \* servers
    up,           \* connected to the broker
    at,           \* instrument -> the server whose Registrar has it
    reservations, \* the instruments a server has published
    recent,       \* last_update is less than a second ago
    asked,        \* GetDeviceStatusesMsg under way to the server's Registrar
    \* broker
    retained,     \* server -> state in its retained meta message
    cmd,          \* server -> commands that wait for it
    queue,        \* messages under way to the client
    \* client
    connected,
    subscribed,   \* servers whose instruments it has subscribed to
    hosts,        \* _hosts: the servers that are known
    rescan_lock,  \* servers whose answer to a scan is awaited
    timers,       \* server -> order -> timeouts that run
    child_host,   \* instrument -> child_actors[...]["host"], Nothing when there is none
    prepared,     \* the server the device actor has its topics from
    leaving,      \* instruments whose device actor has given up and has not exited yet
    resurrect,    \* resurrect_msg: the server to ask when a device actor has exited
    shown,        \* server -> state the Registrar knows
    unheard       \* instruments that were asked for in vain: too soon after another
                  \* update, of the wrong server, or when their actor was still there
server == <<up, at, reservations, recent, asked>>
device == <<child_host, prepared, leaving, resurrect>>
vars == <<changes, server, retained, cmd, queue, connected, subscribed, hosts,
          rescan_lock, timers, device, shown, unheard>>

Meta(s, i, state) == [is |-> s, instr |-> i, state |-> state]
IsMeta(s, published) == Meta(s, Nothing, IF published = {} THEN 1 ELSE 2)

Init ==
    /\ changes = 0
    /\ up \in [Servers -> BOOLEAN] /\ at \in [Instruments -> Servers]
    /\ reservations = [s \in Servers |-> {}]
    /\ recent = [s \in Servers |-> FALSE] /\ asked = [s \in Servers |-> FALSE]
    \* The retained message of a server that was lost together with the broker stays.
    /\ \E ghosts \in SUBSET Servers :
        retained = [s \in Servers |-> IF up[s] THEN 1 ELSE IF s \in ghosts THEN 2 ELSE NoState]
    /\ cmd = [s \in Servers |-> {}] /\ queue = <<>>
    /\ connected = FALSE /\ subscribed = {} /\ hosts = {} /\ rescan_lock = {}
    /\ timers = [s \in Servers |-> [o \in Orders |-> 0]]
    /\ child_host = [i \in Instruments |-> Nothing] /\ prepared = child_host
    /\ leaving = {} /\ resurrect = Nothing
    /\ shown = [s \in Servers |-> NoState] /\ unheard = {}

Change == changes < MaxChanges /\ changes' = changes + 1

(***************************************************************************)
(* Instrument servers.                                                      *)
(***************************************************************************)
\* Every message about an instrument is followed by one about its server; another
\* one of these may come at the end.
Alternate(instrs, states) ==
    [k \in 1 .. Len(instrs) + Len(states) |->
        IF k % 2 = 1 /\ k < 2 * Len(instrs) THEN instrs[(k + 1) \div 2]
                                            ELSE states[(k + 1) \div 2]]

\* What a server publishes reaches a client that is connected; what it publishes of
\* its instruments, one that has subscribed to them.
Publish(s, instrs, states) ==
    /\ queue' = CASE ~connected -> queue
                  [] connected /\ s \in subscribed -> queue \o Alternate(instrs, states)
                  [] OTHER -> queue \o states
    /\ retained' = IF states = <<>> THEN retained
                   ELSE [retained EXCEPT ![s] = Last(states).state]

client == <<connected, subscribed, hosts, rescan_lock, timers, device, shown>>
ServerOnly == UNCHANGED <<client, unheard>>

\* on_connect, with the session of the last connection.
Comes(s) ==
    /\ Change /\ ~up[s] /\ up' = [up EXCEPT ![s] = TRUE]
    /\ Publish(s, <<>>, <<IsMeta(s, reservations[s])>>)
    /\ UNCHANGED <<at, reservations, recent, asked, cmd>> /\ ServerOnly

\* The broker publishes the last will.
IsLost(s) ==
    /\ Change /\ up[s] /\ up' = [up EXCEPT ![s] = FALSE]
    /\ Publish(s, <<>>, <<Meta(s, Nothing, 0)>>)
    /\ UNCHANGED <<at, reservations, recent, asked, cmd>> /\ ServerOnly

\* _remove_instrument for some instruments, one after the other.
Removed(s, order) == [k \in DOMAIN order |-> Meta(s, order[k], 0)]
Remaining(s, order) ==
    [k \in DOMAIN order |-> IsMeta(s, reservations[s] \ {order[j] : j \in 1 .. k})]

\* receiveMsg_KillMsg, and the end of the process.
Stops(s) ==
    /\ up[s] /\ up' = [up EXCEPT ![s] = FALSE]
    /\ \E order \in SetToSeqs(reservations[s]) :
        Publish(s, Removed(s, order), Append(Remaining(s, order), Meta(s, Nothing, 0)))
    /\ reservations' = [reservations EXCEPT ![s] = {}]
    /\ asked' = [asked EXCEPT ![s] = FALSE] /\ recent' = [recent EXCEPT ![s] = FALSE]

IsStopped(s) == Change /\ Stops(s) /\ UNCHANGED <<at, cmd>> /\ ServerOnly

\* An instrument is connected to another server; back to one that is on line only
\* after this has told that it had gone.
Moves(i, s) ==
    /\ Change /\ at[i] # s /\ (up[s] => i \notin reservations[s]) /\ at' = [at EXCEPT ![i] = s]
    /\ UNCHANGED <<up, reservations, recent, asked, retained, cmd, queue>> /\ ServerOnly

\* _update_device_status of a set of instruments.
Announce(s, found) ==
    /\ \E order \in SetToSeqs(found) :
        Publish(s, [k \in DOMAIN order |-> Meta(s, order[k], 2)],
                   [k \in DOMAIN order |-> Meta(s, Nothing, 2)])
    /\ reservations' = [reservations EXCEPT ![s] = @ \cup found]

\* receiveMsg_UpdateActorDictMsg, receiveMsg_UpdateDeviceStatusMsg: a new one.
Sees(s, i) ==
    /\ up[s] /\ at[i] = s /\ i \notin reservations[s]
    /\ Announce(s, {i})
    /\ UNCHANGED <<changes, up, at, recent, asked, cmd>> /\ ServerOnly

\* receiveMsg_UpdateActorDictMsg: one that has gone.
Forgets(s, i) ==
    /\ up[s] /\ at[i] # s /\ i \in reservations[s]
    /\ Publish(s, Removed(s, <<i>>), Remaining(s, <<i>>))
    /\ reservations' = [reservations EXCEPT ![s] = @ \ {i}]
    /\ UNCHANGED <<changes, up, at, recent, asked, cmd>> /\ ServerOnly

\* _update_reservations.
Update(s) ==
    /\ ~recent[s] /\ recent' = [recent EXCEPT ![s] = TRUE]
    /\ asked' = [asked EXCEPT ![s] = TRUE]

\* on_host_cmd.
ObeysUpdate(s) ==
    /\ up[s] /\ "update" \in cmd[s] /\ cmd' = [cmd EXCEPT ![s] = @ \ {"update"}]
    /\ IF recent[s]
       THEN /\ unheard' = unheard \cup {i \in Instruments : at[i] = s /\ child_host[i] # s}
            /\ UNCHANGED <<recent, asked>>
       ELSE Update(s) /\ UNCHANGED unheard
    /\ UNCHANGED <<changes, up, at, reservations, retained, queue, client>>

\* The "update" of another client; not in Next.
OtherClient(s) ==
    /\ up[s] /\ Update(s)
    /\ UNCHANGED <<changes, up, at, reservations, retained, cmd, queue>> /\ ServerOnly

\* The scan, its RescanAckMsg and the message that this has published.
ObeysScan(s) ==
    /\ up[s] /\ "scan" \in cmd[s] /\ cmd' = [cmd EXCEPT ![s] = @ \ {"scan"}]
    /\ Publish(s, <<>>, <<IsMeta(s, reservations[s])>>)
    /\ UNCHANGED <<changes, up, at, reservations, recent, asked>> /\ ServerOnly

ObeysShutdown(s) ==
    /\ "shutdown" \in cmd[s] /\ cmd' = [cmd EXCEPT ![s] = @ \ {"shutdown"}]
    /\ Stops(s)
    /\ UNCHANGED <<changes, at>> /\ ServerOnly

\* receiveMsg_UpdateDeviceStatusesMsg.
Answers(s) ==
    /\ up[s] /\ asked[s] /\ asked' = [asked EXCEPT ![s] = FALSE]
    /\ Announce(s, {i \in Instruments : at[i] = s})
    /\ UNCHANGED <<changes, up, at, recent, cmd>> /\ ServerOnly

\* A second has gone by.
Second(s) ==
    /\ recent[s] /\ ~asked[s] /\ recent' = [recent EXCEPT ![s] = FALSE]
    /\ UNCHANGED <<changes, up, at, reservations, asked, retained, cmd, queue>> /\ ServerOnly

(***************************************************************************)
(* The client.                                                              *)
(***************************************************************************)
\* The next report of an exit, of whichever device actor, has the server asked that
\* was last named in a ResurrectMsg (receiveMsg_ChildActorExited).
AskToResurrect ==
    /\ resurrect' = Nothing
    /\ cmd' = [s \in Servers |-> IF s = resurrect THEN cmd[s] \cup {"update"} ELSE cmd[s]]

\* Device actors end.
End(ended) ==
    /\ child_host' = [i \in Instruments |-> IF i \in ended THEN Nothing ELSE child_host[i]]
    /\ prepared' = [i \in Instruments |-> IF i \in ended THEN Nothing ELSE prepared[i]]
    /\ leaving' = leaving \ ended
    /\ IF ended = {} THEN UNCHANGED <<resurrect, cmd>> ELSE AskToResurrect

\* mutant: whoever says that the instrument has gone is believed
RemoveInstrAnywhere(s, i) == End({j \in {i} : child_host[j] # Nothing})

\* _rm_instr with device_id_2: the server must be the one the actor belongs to.
RemoveInstr(s, i) == End({j \in {i} : child_host[j] = s})

\* mutant: the device actors of the server stay
RemoveHostOnly(lost) ==
    /\ hosts' = hosts \ lost /\ rescan_lock' = rescan_lock \ lost
    /\ shown' = [s \in Servers |-> IF s \in hosts \cap lost THEN 0 ELSE shown[s]]
    /\ End({})

\* _rm_host of some servers.
RemoveHosts(lost) ==
    /\ hosts' = hosts \ lost /\ rescan_lock' = rescan_lock \ lost
    /\ shown' = [s \in Servers |-> IF s \in hosts \cap lost THEN 0 ELSE shown[s]]
    /\ End({i \in Instruments : child_host[i] \in hosts \cap lost})

ClientOnly == UNCHANGED <<server, unheard>>

\* on_connect: the retained messages of all servers come.
Connect ==
    /\ ~connected /\ connected' = TRUE
    /\ \E order \in SetToSeqs({s \in Servers : retained[s] # NoState}) :
        queue' = [k \in 1..Len(order) |-> Meta(order[k], Nothing, retained[order[k]])]
    /\ UNCHANGED <<changes, retained, cmd, subscribed, hosts, rescan_lock, timers, device, shown>>
    /\ ClientOnly

\* on_disconnect; the session and its messages are lost.
Disconnect ==
    /\ Change /\ connected /\ connected' = FALSE
    /\ queue' = <<>> /\ subscribed' = {}
    /\ RemoveHosts(hosts)
    /\ UNCHANGED <<retained, timers>> /\ ClientOnly

Receive(m) == queue # <<>> /\ m = Head(queue) /\ queue' = Tail(queue)

\* _add_host, or _update_host.
AddHost(s, state) == hosts' = hosts \cup {s} /\ shown' = [shown EXCEPT ![s] = state]

\* on_is_meta, on line: the server is added or updated, and gets the command "update".
ServerOnLine ==
    \E m \in {Head(queue) : q \in {queue} \ {<<>>}} :
        /\ Receive(m) /\ m.instr = Nothing /\ m.state # 0
        /\ AddHost(m.is, m.state) /\ subscribed' = subscribed \cup {m.is}
        /\ rescan_lock' = rescan_lock \ {m.is}
        /\ cmd' = [cmd EXCEPT ![m.is] = @ \cup {"update"}]
        /\ UNCHANGED <<changes, retained, connected, timers, device>> /\ ClientOnly

\* on_is_meta, off line.
ServerOffLine ==
    \E m \in {Head(queue) : q \in {queue} \ {<<>>}} :
        /\ Receive(m) /\ m.instr = Nothing /\ m.state = 0
        /\ RemoveHosts({m.is})
        /\ subscribed' = IF m.is \in hosts THEN subscribed \ {m.is} ELSE subscribed
        /\ UNCHANGED <<changes, retained, connected, timers>>
        /\ ClientOnly

\* _add_instr: a device actor with the topics of the server.
AddInstr(s, i) ==
    /\ child_host' = [child_host EXCEPT ![i] = s]
    /\ prepared' = [prepared EXCEPT ![i] = s]

\* _update_instr: the device actor keeps the topics it has.
UpdateInstr(s, i) == child_host' = [child_host EXCEPT ![i] = s] /\ UNCHANGED prepared

\* on_instr_meta, there.
InstrumentThere ==
    \E m \in {Head(queue) : q \in {queue} \ {<<>>}} :
        /\ Receive(m) /\ m.instr # Nothing /\ m.state # 0
        /\ IF m.is \in hosts
           THEN /\ IF child_host[m.instr] = Nothing
                   THEN AddInstr(m.is, m.instr) ELSE UpdateInstr(m.is, m.instr)
                /\ unheard' = unheard \ {m.instr}
           ELSE UNCHANGED <<child_host, prepared, unheard>>
        /\ UNCHANGED <<changes, retained, cmd, connected, subscribed, hosts, rescan_lock,
                       timers, shown, leaving, resurrect>> /\ UNCHANGED server

\* on_instr_meta, gone.
InstrumentGone ==
    \E m \in {Head(queue) : q \in {queue} \ {<<>>}} :
        /\ Receive(m) /\ m.instr # Nothing /\ m.state = 0
        /\ RemoveInstr(m.is, m.instr)
        /\ UNCHANGED <<changes, retained, connected, subscribed, hosts, rescan_lock,
                       timers, shown>> /\ ClientOnly

\* A request has timed out: the device actor asks to be resurrected by the server it
\* was made for, in the place of whoever has asked before, and kills itself.
GivesUp(i) ==
    /\ Change /\ child_host[i] # Nothing /\ i \notin leaving
    /\ resurrect' = prepared[i] /\ leaving' = leaving \cup {i}
    /\ UNCHANGED <<retained, cmd, queue, connected, subscribed, hosts, rescan_lock, timers,
                   child_host, prepared, shown>> /\ ClientOnly

\* It has exited (receiveMsg_ChildActorExited).  Its own request may have been
\* replaced, or sent when another one exited, and it may belong elsewhere by now.
Exits(i) ==
    /\ i \in leaving /\ End({i})
    /\ unheard' = IF resurrect = child_host[i] THEN unheard ELSE unheard \cup {i}
    /\ UNCHANGED <<changes, retained, queue, connected, subscribed, hosts, rescan_lock,
                   timers, shown>> /\ UNCHANGED server

\* An exit is reported twice, by the actor and by the actor system.  The second
\* report finds no child; it may come when another actor has asked already.
ReportedAgain ==
    /\ resurrect # Nothing /\ AskToResurrect
    /\ UNCHANGED <<changes, retained, queue, connected, subscribed, hosts, rescan_lock,
                   timers, child_host, prepared, leaving, shown>> /\ ClientOnly

\* receiveMsg_RescanMsg, receiveMsg_ShutdownMsg.
Order(s, o) ==
    /\ Change /\ s \in hosts
    /\ cmd' = [cmd EXCEPT ![s] = @ \cup {o}]
    /\ timers' = [timers EXCEPT ![s][o] = @ + 1]
    /\ rescan_lock' = IF o = "scan" THEN rescan_lock \cup {s} ELSE rescan_lock
    /\ UNCHANGED <<retained, queue, connected, subscribed, hosts, device, shown>> /\ ClientOnly

\* The answer to an order, if there is one, comes in less than 7 s.
Answered(s) ==
    /\ up[s] => cmd[s] \cap Orders = {}
    /\ \A k \in DOMAIN queue : queue[k].is # s \/ queue[k].instr # Nothing

\* mutant: the timeout is not acted upon
TimeoutIgnored(s, o) ==
    /\ timers[s][o] > 0 /\ timers' = [timers EXCEPT ![s][o] = @ - 1]
    /\ UNCHANGED <<changes, retained, cmd, queue, connected, subscribed, hosts, rescan_lock, device, shown>>
    /\ ClientOnly

\* receiveMsg_WakeupMessage.  Both timeouts look at rescan_lock; a timer does not
\* know which request has set it.
Timeout(s, o) ==
    /\ timers[s][o] > 0 /\ timers' = [timers EXCEPT ![s][o] = @ - 1]
    /\ (timers[s]["scan"] + timers[s]["shutdown"] = 1 => Answered(s))
    /\ IF s \in rescan_lock
       THEN /\ RemoveHosts({s}) /\ subscribed' = subscribed \ {s}
            /\ retained' = [retained EXCEPT ![s] = NoState]
       ELSE UNCHANGED <<hosts, rescan_lock, shown, cmd, device, subscribed, retained>>
    /\ UNCHANGED <<changes, queue, connected>> /\ ClientOnly

Next ==
    \/ \E s \in Servers :
        \/ Comes(s) \/ IsLost(s) \/ IsStopped(s)
        \/ ObeysUpdate(s) \/ ObeysScan(s) \/ ObeysShutdown(s) \/ Answers(s) \/ Second(s)
        \/ \E o \in Orders : Order(s, o) \/ Timeout(s, o)
        \/ \E i \in Instruments : Moves(i, s) \/ Sees(s, i) \/ Forgets(s, i)
    \/ Connect \/ Disconnect
    \/ ServerOnLine \/ ServerOffLine \/ InstrumentThere \/ InstrumentGone
    \/ \E i \in Instruments : GivesUp(i) \/ Exits(i)
    \/ ReportedAgain

\* Messages arrive, actors handle them and exit, timers run down, a client that has lost
\* its connection connects again.
Fairness ==
    /\ \A s \in Servers :
        /\ WF_vars(ObeysUpdate(s)) /\ WF_vars(ObeysScan(s)) /\ WF_vars(ObeysShutdown(s))
        /\ WF_vars(Answers(s)) /\ WF_vars(Second(s))
        /\ \A o \in Orders : WF_vars(Timeout(s, o))
        /\ \A i \in Instruments : WF_vars(Sees(s, i)) /\ WF_vars(Forgets(s, i))
    /\ \A i \in Instruments : WF_vars(Exits(i))
    /\ WF_vars(Connect)
    /\ WF_vars(ServerOnLine \/ ServerOffLine \/ InstrumentThere \/ InstrumentGone)
Spec == Init /\ [][Next]_vars /\ Fairness

(***************************************************************************)
(* Properties.                                                              *)
(***************************************************************************)

\* A device actor belongs to a server that is known, subscribed to and not shown
\* off line; its removal takes the device actors along, however the messages of
\* two servers about one instrument were mixed.
NoOrphan ==
    \A i \in Instruments : child_host[i] # Nothing =>
        child_host[i] \in hosts \cap subscribed /\ shown[child_host[i]] \in {1, 2}

\* An instrument of a server that stays on line, with its state at the broker,
\* has a device actor in the end, and for this server.
InstrumentIsSeen ==
    \A i \in Instruments : \A s \in Servers :
        <>[](up[s] /\ at[i] = s /\ connected /\ retained[s] # NoState)
            => <>[](child_host[i] = s)

\* The same, whatever was lost while the client, the server or another server of
\* the instrument came and went and device actors gave up, but for an instrument
\* that was asked for in vain and has not been spoken of since.
InstrumentIsSeenAgain ==
    \A i \in Instruments : \A s \in Servers :
        <>[](up[s] /\ at[i] = s /\ connected /\ retained[s] # NoState
             /\ i \notin unheard)
            => <>[](child_host[i] = s)

\* A server that has gone for good has no device actors in the end and is not
\* shown on line, unless its retained message was left behind.
GoneIsForgotten ==
    \A s \in Servers :
        <>[](~up[s] /\ retained[s] \in {0, NoState}) =>
            <>[](shown[s] \in {0, NoState}
                 /\ \A i \in Instruments : child_host[i] # s)

\* A server that is only known from a retained message that was left behind does
\* not stay in the list of hosts after a scan was asked of it.
GhostIsRemoved ==
    \A s \in Servers : (s \in rescan_lock /\ ~up[s]) ~> (up[s] \/ s \notin hosts)
=============================================================================
