------------------------------ MODULE Registrar ------------------------------
(***************************************************************************)
(* The Registrar (registrar.py) and what every other actor does with it    *)
(* (base_actor.py): subscribe, answer the watchdog, unsubscribe and exit.   *)
(* The Registrar keeps the actor dictionary and the statuses of the         *)
(* instruments, decides which of several device actors of one instrument    *)
(* stays, sends the dictionary to its subscribers, and shuts the server     *)
(* down when it finds something wrong.                                      *)
(*                                                                          *)
(* An actor is named by its address; an address is used once.  Its id is a  *)
(* pair <<name, class>>: for a device actor the short id of the instrument   *)
(* and the transport technology, for the others the name and "SERVICE".     *)
(* Messages between two actors keep their order.                            *)
(***************************************************************************)
EXTENDS Naturals, Sequences, FiniteSets

CONSTANTS
    Addr,           \* addresses of the actors other than the Registrar
    Ids,            \* actor ids that occur
    Virgin,         \* names of instruments without a serial number (65535)
    Persistent,     \* services that must run all the time
    Switched,       \* services ControlFunctionalityMsg switches on and off
    Casts,          \* who takes part: functions from addresses to ids
    FaultyCasts, \* casts in which processes die or hang and the watchdog runs
    NoAddr

\* Transport technologies of instruments whose device actors compete.
Competing == {"LOCAL", "LAN", "MQTT", "IS1"}
Technologies == Competing \cup {"ZIGBEE"}
IsDevice(id) == id[2] \in Technologies

ASSUME AddrAssumption == /\ NoAddr \notin Addr
                         /\ Addr \cap {"absent", "empty"} = {}
ASSUME IdsAssumption == IsFiniteSet(Ids)
ASSUME CastAssumption == Casts \subseteq [Addr -> Ids] /\ FaultyCasts \subseteq Casts

VARIABLES
    actor_dict,      \* id -> its address, or NoAddr when not in the dictionary
    get_updates,     \* id -> does it get the dictionary when it changes
    is_alive,        \* id -> has it answered since the last round
    device_statuses, \* id -> "absent", "empty", or the actor whose status it is
    watchdog,        \* "wait" for the next round, or "check" after it
    stop,            \* why system_shutdown was called first, or "no"
    ident,           \* address -> id given to the actor at its creation
    phase,           \* address -> "unused", "run", "dying", "gone"
    mute,            \* address -> its process hangs or died without a message
    toReg,           \* address -> messages from the actor to the Registrar
    fromReg,         \* address -> messages from the Registrar to the actor
    deadLetters,     \* addresses the Registrar tells itself to unsubscribe
    view             \* address -> instruments the actor knows of
regVars == <<actor_dict, get_updates, is_alive, device_statuses, watchdog, stop>>
actorVars == <<ident, phase, mute, view>>
netVars == <<toReg, fromReg, deadLetters>>
vars == <<regVars, actorVars, netVars>>

Running == stop = "no"
Registered(id) == actor_dict[id] # NoAddr
Known(id) == device_statuses[id] # "absent"
Instruments == {id \in Ids : Registered(id) /\ IsDevice(id)}

Kill(register) == [type |-> "KillMsg", register |-> register]
KeepAlive == [type |-> "KeepAliveMsg"]
SubscribeStatus == [type |-> "SubscribeToDeviceStatusMsg"]
UpdateActorDict(instruments) == [type |-> "UpdateActorDictMsg", instruments |-> instruments]
\* Classes of messages whose dead letter makes the Registrar forget the
\* addressee; any other class ends the server.
Harmless == {"KillMsg", "KeepAliveMsg", "SubscribeToDeviceStatusMsg", "UpdateActorDictMsg"}

\* Messages leave in the order in which the handler sends them.
Send(out) == fromReg' = [a \in Addr |-> fromReg[a] \o out[a]]
Nothing == [a \in Addr |-> <<>>]
Unread(a) == {fromReg[a][i] : i \in 1..Len(fromReg[a])}
Repeat(m, n) == [i \in 1..n |-> m]
SubscribersOf(dict, gets) == {dict[id] : id \in {i \in Ids : dict[i] # NoAddr /\ gets[i]}}
\* The new dictionary for everyone who wants it.
Updates(dict, gets) ==
    LET instruments == {id \in Ids : dict[id] # NoAddr /\ IsDevice(id)}
    IN [a \in Addr |-> IF a \in SubscribersOf(dict, gets)
                       THEN <<UpdateActorDict(instruments)>> ELSE <<>>]

\* system_shutdown: the flag file is written once, by whoever comes first.
Shutdown(why) == stop' = IF Running THEN why ELSE stop

Init ==
    /\ actor_dict = [id \in Ids |-> NoAddr]
    /\ get_updates = [id \in Ids |-> FALSE]
    /\ is_alive = [id \in Ids |-> FALSE]
    /\ device_statuses = [id \in Ids |-> "absent"]
    /\ watchdog = "wait" /\ stop = "no"
    /\ ident \in Casts
    /\ phase = [a \in Addr |-> "unused"]
    /\ mute = [a \in Addr |-> FALSE]
    /\ toReg = [a \in Addr |-> <<>>] /\ fromReg = [a \in Addr |-> <<>>]
    /\ deadLetters = {}
    /\ view = [a \in Addr |-> {}]

(***************************************************************************)
(* Actors.                                                                  *)
(***************************************************************************)

\* What an actor says to the Registrar.
Say(a, messages) == toReg' = [toReg EXCEPT ![a] = @ \o messages]

\* createActor and receiveMsg_SetupMsg, after which nobody knows the actor but
\* its parent; a frontend asks for the dictionary as well.
Create(a) ==
    /\ phase[a] = "unused"
    /\ phase' = [phase EXCEPT ![a] = "run"]
    /\ Say(a, IF IsDevice(ident[a]) THEN <<"SubscribeMsg">>
              ELSE <<"SubscribeMsg", "SubscribeToActorDictMsg">>)
    /\ UNCHANGED <<regVars, ident, mute, view, fromReg, deadLetters>>

\* A backend finds an instrument.
CreateDevice(a) == IsDevice(ident[a]) /\ Create(a)

\* The Registrar creates the persistent services at its own start.
CreateService(a) ==
    /\ ident[a][1] \in Persistent
    /\ \A b \in Addr : ident[b] = ident[a] => phase[b] = "unused"
    /\ Create(a)

\* _kill_myself: the watchdog is answered, then the actor waits for its
\* children or goes at once.
Dies(a, register, children, rest) ==
    IF phase[a] = "dying"
    THEN phase' = phase /\ Say(a, <<"keep alive">>)
    ELSE LET last == IF ~children /\ register THEN <<"UnsubscribeMsg">> ELSE <<>>
         IN /\ phase' = [phase EXCEPT ![a] = IF children THEN "dying" ELSE "gone"]
            /\ Say(a, <<"keep alive">> \o rest \o last)

Leaves(a) == IF IsDevice(ident[a]) THEN <<>> ELSE <<"UnSubscribeFromActorDictMsg">>

Acting(a) == phase[a] \in {"run", "dying"} /\ ~mute[a]

\* The next message of the Registrar for a.
ReceiveFromReg(a) ==
    /\ Acting(a) /\ fromReg[a] # <<>>
    /\ LET m == Head(fromReg[a]) IN
       /\ CASE m.type = "KillMsg" ->
                 \E children \in BOOLEAN : Dies(a, m.register, children, Leaves(a)) /\ view' = view
            [] m.type = "KeepAliveMsg" ->
                 Say(a, <<"keep alive">>) /\ UNCHANGED <<phase, view>>
            [] m.type = "SubscribeToDeviceStatusMsg" ->
                 Say(a, <<"UpdateDeviceStatusMsg">>) /\ UNCHANGED <<phase, view>>
            [] m.type = "UpdateActorDictMsg" ->
                 /\ view' = [view EXCEPT ![a] = m.instruments]
                 /\ UNCHANGED <<phase, toReg>>
            [] OTHER -> UNCHANGED <<phase, toReg, view>>
       /\ fromReg' = [fromReg EXCEPT ![a] = Tail(@)]
    /\ UNCHANGED <<regVars, ident, mute, deadLetters>>

\* The backend or the actor itself finds the instrument gone.
Remove(a) ==
    /\ phase[a] = "run" /\ ~mute[a] /\ IsDevice(ident[a])
    /\ \E children \in BOOLEAN : Dies(a, TRUE, children, <<>>)
    /\ UNCHANGED <<regVars, ident, mute, view, fromReg, deadLetters>>

\* receiveMsg_ChildActorExited of an actor that waited for its last child.
LastChildExited(a) ==
    /\ phase[a] = "dying" /\ ~mute[a]
    /\ phase' = [phase EXCEPT ![a] = "gone"]
    /\ Say(a, <<"UnsubscribeMsg">>)
    /\ UNCHANGED <<regVars, ident, mute, view, fromReg, deadLetters>>

\* The process hangs in a blocking call, or dies without a message.
Hang(a) ==
    /\ ident \in FaultyCasts /\ Acting(a)
    /\ mute' = [mute EXCEPT ![a] = TRUE]
    /\ \/ phase' = phase
       \/ phase' = [phase EXCEPT ![a] = "gone"]
    /\ UNCHANGED <<regVars, netVars, ident, view>>

IgnoreDeadEnvelope(a) == \* mutant: dead letters are dropped
    /\ phase[a] = "gone" /\ fromReg[a] # <<>>
    /\ fromReg' = [fromReg EXCEPT ![a] = Tail(@)]
    /\ UNCHANGED <<regVars, actorVars, toReg, deadLetters>>
\* receiveMsg_DeadEnvelope for a message to an actor that is gone.
DeadEnvelope(a) ==
    /\ phase[a] = "gone" /\ fromReg[a] # <<>>
    /\ IF Head(fromReg[a]).type \in Harmless
       THEN deadLetters' = deadLetters \cup {a} /\ UNCHANGED stop
       ELSE Shutdown("dead letter") /\ UNCHANGED deadLetters
    /\ fromReg' = [fromReg EXCEPT ![a] = Tail(@)]
    /\ UNCHANGED <<actor_dict, get_updates, is_alive, device_statuses, watchdog,
                   actorVars, toReg>>

(***************************************************************************)
(* Handlers of the Registrar.                                               *)
(***************************************************************************)

\* a's next message is m; the handler takes it from the channel.
Next1(a, m) == toReg[a] # <<>> /\ Head(toReg[a]) = m /\ toReg' = [toReg EXCEPT ![a] = Tail(@)]

\* Other device actors of the same instrument, and who of the two has to go.
RivalsAtHome(id) == \* mutant: the other transport technologies are overlooked
    {old \in Ids : Known(old) /\ old # id /\ old[1] = id[1] /\ old[2] = "LOCAL"}
Rivals(id) ==
    {old \in Ids : Known(old) /\ old # id /\ old[1] = id[1] /\ old[2] \in Competing}
NewWins(new, old) ==
    \/ new[2] = "LOCAL"
    \/ new[2] = "IS1" /\ old[2] = "MQTT"

\* _handle_existing_actor refuses the newcomer.
FirstComeFirstServed(id) == id[2] = "LAN" /\ id[1] \notin Virgin

\* receiveMsg_SubscribeMsg with _handle_existing_actor and _handle_device_actor.
\* The statuses are gone through in the order of the dictionary: whether the
\* newcomer is asked for its status depends on the rival met last.
Subscribe(a) ==
    LET id == ident[a]
        beaten == {old \in Rivals(id) : NewWins(id, old)}
        stay == Rivals(id) \ beaten
        dict == [actor_dict EXCEPT ![id] = a]
        gets == [get_updates EXCEPT ![id] = FALSE]
        register(subscribes) ==
            /\ actor_dict' = dict
            /\ get_updates' = gets
            /\ is_alive' = [is_alive EXCEPT ![id] = TRUE]
            /\ device_statuses' = IF IsDevice(id) /\ ~Known(id)
                                  THEN [device_statuses EXCEPT ![id] = "empty"]
                                  ELSE device_statuses
            /\ Send([b \in Addr |->
                 (IF Registered(id) /\ actor_dict[id] = b THEN <<Kill(TRUE)>> ELSE <<>>)
                 \o (IF \E old \in beaten : dict[old] = b THEN <<Kill(TRUE)>> ELSE <<>>)
                 \o (IF b = a /\ IsDevice(id)
                     THEN Repeat(Kill(TRUE), Cardinality(stay))
                          \o (IF subscribes THEN <<SubscribeStatus>> ELSE <<>>)
                     ELSE <<>>)
                 \o Updates(dict, gets)[b]])
            /\ UNCHANGED stop
    IN /\ Next1(a, "SubscribeMsg")
       /\ IF ~Registered(id)
          THEN \E subscribes \in BOOLEAN :
                 /\ stay = {} => subscribes
                 /\ beaten = {} /\ stay # {} => ~subscribes
                 /\ register(subscribes)
          ELSE IF ~IsDevice(id)
          THEN /\ Shutdown("duplicate")
               /\ UNCHANGED <<actor_dict, get_updates, is_alive, device_statuses, fromReg>>
          ELSE IF FirstComeFirstServed(id)
          THEN /\ Send([Nothing EXCEPT ![a] = <<Kill(FALSE)>>])
               /\ UNCHANGED <<actor_dict, get_updates, is_alive, device_statuses, stop>>
          ELSE \E subscribes \in BOOLEAN :
                 /\ stay = {} => subscribes
                 /\ beaten = {} /\ stay # {} => ~subscribes
                 /\ register(subscribes)
       /\ UNCHANGED <<watchdog, actorVars, deadLetters>>

\* receiveMsg_SubscribeMsg with keep_alive, _is_alive: by id, not by address.
IsAlive(a) ==
    /\ Next1(a, "keep alive")
    /\ is_alive' = [is_alive EXCEPT ![ident[a]] = @ \/ Registered(ident[a])]
    /\ UNCHANGED <<actor_dict, get_updates, device_statuses, watchdog, stop,
                   actorVars, fromReg, deadLetters>>

UpdateAnyStatus(a) == \* mutant: without looking whether the instrument is there
    /\ Next1(a, "UpdateDeviceStatusMsg")
    /\ device_statuses' = [device_statuses EXCEPT ![ident[a]] = a]
    /\ UNCHANGED <<actor_dict, get_updates, is_alive, watchdog, stop,
                   actorVars, fromReg, deadLetters>>
UpdateRegisteredStatus(a) == \* mutant: filed under the address of the dictionary
    /\ Next1(a, "UpdateDeviceStatusMsg")
    /\ device_statuses' = [device_statuses EXCEPT ![ident[a]] = actor_dict[ident[a]]]
    /\ UNCHANGED <<actor_dict, get_updates, is_alive, watchdog, stop,
                   actorVars, fromReg, deadLetters>>

\* receiveMsg_UpdateDeviceStatusMsg: by id, not by address.
UpdateDeviceStatus(a) ==
    /\ Next1(a, "UpdateDeviceStatusMsg")
    /\ device_statuses' = IF Known(ident[a]) THEN [device_statuses EXCEPT ![ident[a]] = a]
                                            ELSE device_statuses
    /\ UNCHANGED <<actor_dict, get_updates, is_alive, watchdog, stop,
                   actorVars, fromReg, deadLetters>>

SubscribeWithoutAnswer(a) == \* mutant: the new subscriber waits for the next change
    /\ Next1(a, "SubscribeToActorDictMsg")
    /\ IF Registered(ident[a])
       THEN get_updates' = [get_updates EXCEPT ![ident[a]] = TRUE] ELSE UNCHANGED get_updates
    /\ UNCHANGED <<actor_dict, is_alive, device_statuses, watchdog, stop,
                   actorVars, fromReg, deadLetters>>
\* receiveMsg_SubscribeToActorDictMsg and receiveMsg_UnSubscribeFromActorDictMsg.
SubscribeToActorDict(a) ==
    /\ Next1(a, "SubscribeToActorDictMsg")
    /\ IF Registered(ident[a])
       THEN /\ get_updates' = [get_updates EXCEPT ![ident[a]] = TRUE]
            /\ Send(Updates(actor_dict, get_updates'))
       ELSE UNCHANGED <<get_updates, fromReg>>
    /\ UNCHANGED <<actor_dict, is_alive, device_statuses, watchdog, stop, actorVars, deadLetters>>

UnSubscribeFromActorDict(a) ==
    /\ Next1(a, "UnSubscribeFromActorDictMsg")
    /\ get_updates' = [get_updates EXCEPT ![ident[a]] = FALSE]
    /\ UNCHANGED <<actor_dict, is_alive, device_statuses, watchdog, stop,
                   actorVars, fromReg, deadLetters>>

ForgetById(a) == \* mutant: by id, like the other handlers
    LET id == ident[a]
        dict == [actor_dict EXCEPT ![id] = NoAddr]
    IN /\ actor_dict' = dict
       /\ device_statuses' = [device_statuses EXCEPT ![id] = "absent"]
       /\ is_alive' = [is_alive EXCEPT ![id] = FALSE]
       /\ get_updates' = [get_updates EXCEPT ![id] = FALSE]
       /\ Send(Updates(dict, get_updates'))
       /\ IF id[1] \in Persistent THEN Shutdown("persistency") ELSE UNCHANGED stop
\* receiveMsg_UnsubscribeMsg with _check_persistency: by address.
Forget(a) ==
    IF \E id \in Ids : actor_dict[id] = a
    THEN LET id == CHOOSE i \in Ids : actor_dict[i] = a
             dict == [actor_dict EXCEPT ![id] = NoAddr]
         IN /\ actor_dict' = dict
            /\ device_statuses' = [device_statuses EXCEPT ![id] = "absent"]
            /\ is_alive' = [is_alive EXCEPT ![id] = FALSE]
            /\ get_updates' = [get_updates EXCEPT ![id] = FALSE]
            /\ Send(Updates(dict, get_updates'))
            /\ IF id[1] \in Persistent THEN Shutdown("persistency") ELSE UNCHANGED stop
    ELSE UNCHANGED <<actor_dict, get_updates, is_alive, device_statuses, fromReg, stop>>

Unsubscribe(a) ==
    /\ Next1(a, "UnsubscribeMsg")
    /\ Forget(a)
    /\ UNCHANGED <<watchdog, actorVars, deadLetters>>

UnsubscribeDead(a) ==
    /\ a \in deadLetters
    /\ deadLetters' = deadLetters \ {a}
    /\ Forget(a)
    /\ UNCHANGED <<watchdog, actorVars, toReg>>

\* receiveMsg_ControlFunctionalityMsg: a device actor wants a frontend.  The
\* dictionary is asked, so that a frontend that was created a moment ago and has
\* not subscribed yet is created a second time.
ControlOn(a) ==
    /\ ident[a][1] \in Switched
    /\ ~Registered(ident[a])
    /\ Create(a)

ControlOff(id) ==
    /\ id[1] \in Switched /\ Registered(id)
    /\ Kill(TRUE) \notin Unread(actor_dict[id]) /\ phase[actor_dict[id]] = "run" \* bound: once
    /\ Send([Nothing EXCEPT ![actor_dict[id]] = <<Kill(TRUE)>>])
    /\ UNCHANGED <<regVars, actorVars, toReg, deadLetters>>

\* receiveMsg_WakeupMessage, "keep alive": a new round of the watchdog.  Of the
\* messages that pile up before a process that hangs the first stands for all.
KeepAliveRound ==
    /\ ident \in FaultyCasts /\ watchdog = "wait"
    /\ watchdog' = "check"
    /\ is_alive' = [id \in Ids |-> FALSE]
    /\ Send([a \in Addr |-> IF /\ \E id \in Ids : actor_dict[id] = a
                               /\ mute[a] /\ phase[a] # "gone" => KeepAlive \notin Unread(a)
                            THEN <<KeepAlive>> ELSE <<>>])
    /\ UNCHANGED <<actor_dict, get_updates, device_statuses, stop, actorVars, toReg, deadLetters>>

\* WAIT_BEFORE_CHECK is long enough for whatever is not mute to answer.
Answered ==
    /\ deadLetters = {}
    /\ \A a \in Addr : /\ toReg[a] = <<>>
                       /\ fromReg[a] # <<>> => mute[a] /\ phase[a] # "gone"

CheckEverybody == \* mutant: IS1 instruments are not put up with
    /\ watchdog = "check" /\ Answered
    /\ IF \E id \in Ids : Registered(id) /\ ~is_alive[id]
       THEN Shutdown("watchdog") /\ UNCHANGED watchdog
       ELSE watchdog' = "wait" /\ UNCHANGED stop
    /\ UNCHANGED <<actor_dict, get_updates, is_alive, device_statuses, actorVars, netVars>>

\* "check": an IS1 instrument that keeps silent is put up with.
Check ==
    /\ watchdog = "check" /\ Answered
    /\ IF \E id \in Ids : Registered(id) /\ ~is_alive[id] /\ id[2] # "IS1"
       THEN Shutdown("watchdog") /\ UNCHANGED watchdog
       ELSE watchdog' = "wait" /\ UNCHANGED stop
    /\ UNCHANGED <<actor_dict, get_updates, is_alive, device_statuses, actorVars, netVars>>

\* receiveMsg_GetDeviceStatusesMsg with _check_integrity.
Integrity == \A id \in Ids : Known(id) <=> Registered(id) /\ IsDevice(id)
GetDeviceStatuses ==
    /\ IF Integrity THEN UNCHANGED stop ELSE Shutdown("integrity")
    /\ UNCHANGED <<actor_dict, get_updates, is_alive, device_statuses, watchdog, actorVars, netVars>>

Actor(a) ==
    \/ ReceiveFromReg(a) \/ LastChildExited(a) \/ DeadEnvelope(a)

Handler(a) ==
    \/ Subscribe(a) \/ IsAlive(a) \/ UpdateDeviceStatus(a)
    \/ SubscribeToActorDict(a) \/ UnSubscribeFromActorDict(a)
    \/ Unsubscribe(a) \/ UnsubscribeDead(a)

Environment(a) ==
    \/ CreateDevice(a) \/ CreateService(a) \/ ControlOn(a) \/ Remove(a) \/ Hang(a)

Next ==
    /\ Running
    /\ \/ \E a \in Addr : Actor(a) \/ Handler(a) \/ Environment(a)
       \/ \E id \in Ids : ControlOff(id)
       \/ KeepAliveRound \/ Check \/ GetDeviceStatuses

Spec == Init /\ [][Next]_vars

\* Actors and Registrar handle what they are sent; the watchdog goes round.
Fairness ==
    /\ \A a \in Addr : WF_vars(Running /\ Actor(a)) /\ WF_vars(Running /\ Handler(a))
    /\ WF_vars(Running /\ KeepAliveRound) /\ WF_vars(Running /\ Check)
FairSpec == Spec /\ Fairness

(***************************************************************************)
(* Properties.                                                              *)
(***************************************************************************)
Messages == [type : {"KillMsg"}, register : BOOLEAN]
    \cup [type : {"KeepAliveMsg", "SubscribeToDeviceStatusMsg"}]
    \cup [type : {"UpdateActorDictMsg"}, instruments : SUBSET Ids]
Sayings == {"SubscribeMsg", "keep alive", "UpdateDeviceStatusMsg", "UnsubscribeMsg",
            "SubscribeToActorDictMsg", "UnSubscribeFromActorDictMsg"}
Reasons == {"no", "duplicate", "watchdog", "dead letter", "integrity", "persistency"}

TypeOK ==
    /\ actor_dict \in [Ids -> Addr \cup {NoAddr}]
    /\ get_updates \in [Ids -> BOOLEAN] /\ is_alive \in [Ids -> BOOLEAN]
    /\ device_statuses \in [Ids -> Addr \cup {"absent", "empty"}]
    /\ watchdog \in {"wait", "check"} /\ stop \in Reasons
    /\ ident \in [Addr -> Ids]
    /\ phase \in [Addr -> {"unused", "run", "dying", "gone"}]
    /\ mute \in [Addr -> BOOLEAN]
    /\ toReg \in [Addr -> Seq(Sayings)] /\ fromReg \in [Addr -> Seq(Messages)]
    /\ deadLetters \in SUBSET Addr
    /\ view \in [Addr -> SUBSET Ids]

\* What _check_integrity looks for, and what _handle_device_actor takes for
\* granted when it reads actor_dict[old_device_id]: the instruments of the actor
\* dictionary are those of the statuses, whatever subscribes, dies or is replaced,
\* and the address kept for an id is that of an actor of this id.
DictsAgree ==
    \A id \in Ids : /\ Known(id) <=> Registered(id) /\ IsDevice(id)
                    /\ Registered(id) => ident[actor_dict[id]] = id

\* Nobody has anything to do any more.
Quiet ==
    /\ Running /\ Answered
    /\ \A a \in Addr : phase[a] = "dying" => mute[a]

\* When the messages of arrivals and departures are handled, every device actor
\* that still runs can be reached: it is the one in the dictionary.
NoOrphan ==
    Quiet => \A a \in Addr : phase[a] = "run" /\ ~mute[a] => actor_dict[ident[a]] = a

\* When the messages are handled, of several ways to one instrument a single one
\* is left, in whatever order the device actors came and were told to go.
OnePerInstrument ==
    Quiet => \A id, jd \in Instruments :
               /\ id[1] = jd[1] /\ id[2] \in Competing /\ jd[2] \in Competing
               /\ ~mute[actor_dict[id]] /\ ~mute[actor_dict[jd]]
               => id = jd

\* The watchdog shuts the server down for a process that hangs or died only,
\* and never for an actor that is being replaced or is on its way out.
NoFalseAlarm ==
    stop = "watchdog" => \E a \in Addr : mute[a] /\ ident[a][2] # "IS1"

\* When the messages are handled, a frontend that runs shows the instruments of
\* the dictionary, neither one that has gone nor one fewer.  (A frontend that is
\* created while its predecessor of the same id is on its way out may miss the
\* updates: get_updates is set and reset by id.)
ViewsAgree ==
    Quiet => \A a \in Addr :
               /\ phase[a] = "run" /\ ~mute[a] /\ ~IsDevice(ident[a])
               /\ \A b \in Addr \ {a} : ident[b] # ident[a]
               => view[a] = Instruments

\* An actor that has gone is forgotten in the end, also when it died without a
\* word, or the watchdog has shut the server down.
GoneIsForgotten ==
    \A a \in Addr :
        phase[a] = "gone" ~> (~Running \/ \A id \in Ids : actor_dict[id] # a)
=============================================================================
