--------------------------- MODULE Registrar_proofs ---------------------------
(***************************************************************************)
(* Proofs about the Registrar for every set of actors, ids and casts: its   *)
(* two dictionaries agree at every moment, so that _handle_device_actor may *)
(* look up in one what it found in the other, and _check_integrity never    *)
(* finds anything; the watchdog raises no false alarm; and when the messages *)
(* of arrivals and departures are handled, every actor that runs is the one  *)
(* in the dictionary, one way to an instrument is left, and the frontends    *)
(* show the instruments of the dictionary.                                   *)
(***************************************************************************)
EXTENDS Registrar, TLAPS, FiniteSetTheorems, SequenceTheorems

\* The part of the state DictsAgree is about.
dictVars == <<actor_dict, device_statuses, ident>>

DictsOK ==
    /\ actor_dict \in [Ids -> Addr \cup {NoAddr}]
    /\ device_statuses \in [Ids -> Addr \cup {"absent", "empty"}]
    /\ ident \in [Addr -> Ids]

\* The inductive invariant.
Sound == DictsOK /\ DictsAgree

LEMMA InitSound == Init => Sound
<1> SUFFICES ASSUME Init PROVE Sound
    OBVIOUS
<1>1. DictsOK
    BY CastAssumption DEF Init, DictsOK
<1>2. DictsAgree
    BY DEF Init, DictsAgree, Known, Registered
<1> QED
    BY <1>1, <1>2 DEF Sound

\* Whoever touches none of the dictionaries.
LEMMA UntouchedSound ==
    ASSUME Sound, UNCHANGED dictVars
    PROVE  Sound'
BY DEF Sound, DictsOK, DictsAgree, dictVars, Known, Registered, IsDevice

\* The newcomer gets both entries of its id, or none.
LEMMA SubscribeSound ==
    ASSUME Sound, NEW a \in Addr, Subscribe(a)
    PROVE  Sound'
<1> DEFINE id == ident[a]
<1>1. id \in Ids /\ ident' = ident
    BY DEF Sound, DictsOK, Subscribe, actorVars
<1>2. CASE UNCHANGED <<actor_dict, device_statuses>>
    BY <1>1, <1>2, UntouchedSound DEF dictVars
<1>3. CASE /\ actor_dict' = [actor_dict EXCEPT ![id] = a]
           /\ device_statuses' = IF IsDevice(id) /\ ~Known(id)
                                 THEN [device_statuses EXCEPT ![id] = "empty"]
                                 ELSE device_statuses
    <2>1. DictsOK'
        BY <1>1, <1>3 DEF Sound, DictsOK
    <2>2. ASSUME NEW other \in Ids \ {id}
          PROVE  /\ actor_dict'[other] = actor_dict[other]
                 /\ device_statuses'[other] = device_statuses[other]
        BY <1>1, <1>3 DEF Sound, DictsOK
    <2>3. actor_dict'[id] = a /\ a # NoAddr
        BY <1>1, <1>3, AddrAssumption DEF Sound, DictsOK
    <2>4. device_statuses'[id] # "absent" <=> IsDevice(id)
        BY <1>1, <1>3 DEF Sound, DictsOK, DictsAgree, Known
    <2>5. DictsAgree'
        BY <1>1, <2>2, <2>3, <2>4 DEF Sound, DictsAgree, Known, Registered, IsDevice
    <2> QED
        BY <2>1, <2>5 DEF Sound
<1> QED
    BY <1>2, <1>3 DEF Subscribe

\* A status is filed for an id that has one.
LEMMA UpdateSound ==
    ASSUME Sound, NEW a \in Addr, UpdateDeviceStatus(a)
    PROVE  Sound'
<1>1. ident[a] \in Ids /\ ident' = ident /\ actor_dict' = actor_dict
    BY DEF Sound, DictsOK, UpdateDeviceStatus, actorVars
<1>2. CASE ~Known(ident[a])
    BY <1>1, <1>2, UntouchedSound DEF UpdateDeviceStatus, dictVars
<1>3. CASE Known(ident[a])
    <2>1. device_statuses' = [device_statuses EXCEPT ![ident[a]] = a]
        BY <1>3 DEF UpdateDeviceStatus
    <2>2. DictsOK'
        BY <1>1, <2>1 DEF Sound, DictsOK
    <2>3. \A id \in Ids : device_statuses'[id] # "absent" <=> Known(id)
        BY <1>1, <1>3, <2>1, AddrAssumption DEF Sound, DictsOK, Known
    <2>4. DictsAgree'
        BY <1>1, <2>3 DEF Sound, DictsAgree, Known, Registered, IsDevice
    <2> QED
        BY <2>2, <2>4 DEF Sound
<1> QED
    BY <1>2, <1>3

\* Both entries of an id go together, and only when they are those of a.
LEMMA ForgetSound ==
    ASSUME Sound, NEW a \in Addr, Forget(a), UNCHANGED actorVars
    PROVE  Sound'
<1>1. ident' = ident
    BY DEF actorVars
<1>2. CASE ~ \E id \in Ids : actor_dict[id] = a
    BY <1>1, <1>2, UntouchedSound DEF Forget, dictVars
<1>3. CASE \E id \in Ids : actor_dict[id] = a
    <2> DEFINE gone == CHOOSE i \in Ids : actor_dict[i] = a
    <2>1. gone \in Ids
        BY <1>3
    <2>2. /\ actor_dict' = [actor_dict EXCEPT ![gone] = NoAddr]
          /\ device_statuses' = [device_statuses EXCEPT ![gone] = "absent"]
        BY <1>3 DEF Forget
    <2> HIDE DEF gone
    <2>3. DictsOK'
        BY <1>1, <2>1, <2>2 DEF Sound, DictsOK
    <2>4. DictsAgree'
        BY <1>1, <2>1, <2>2 DEF Sound, DictsOK, DictsAgree, Known, Registered, IsDevice
    <2> QED
        BY <2>3, <2>4 DEF Sound
<1> QED
    BY <1>2, <1>3

\* What actors do, and the handlers that are about something else.
LEMMA ActorsUntouched ==
    ASSUME NEW a \in Addr, Actor(a) \/ Environment(a)
    PROVE  UNCHANGED dictVars
BY DEF Actor, Environment, ReceiveFromReg, LastChildExited, DeadEnvelope, CreateDevice,
       CreateService, ControlOn, Create, Remove, Hang, dictVars, regVars, actorVars

LEMMA WatchdogUntouched ==
    ASSUME (\E id \in Ids : ControlOff(id)) \/ KeepAliveRound \/ Check \/ GetDeviceStatuses
    PROVE  UNCHANGED dictVars
BY DEF ControlOff, KeepAliveRound, Check, GetDeviceStatuses, dictVars, regVars, actorVars

LEMMA HandlerSound ==
    ASSUME Sound, NEW a \in Addr, Handler(a)
    PROVE  Sound'
<1>1. CASE Subscribe(a)
    BY <1>1, SubscribeSound
<1>2. CASE UpdateDeviceStatus(a)
    BY <1>2, UpdateSound
<1>3. CASE Unsubscribe(a) \/ UnsubscribeDead(a)
    BY <1>3, ForgetSound DEF Unsubscribe, UnsubscribeDead
<1>4. CASE IsAlive(a) \/ SubscribeToActorDict(a) \/ UnSubscribeFromActorDict(a)
    BY <1>4, UntouchedSound DEF IsAlive, SubscribeToActorDict, UnSubscribeFromActorDict,
                                dictVars, actorVars
<1> QED
    BY <1>1, <1>2, <1>3, <1>4 DEF Handler

LEMMA NextSound == Sound /\ [Next]_vars => Sound'
<1> SUFFICES ASSUME Sound, [Next]_vars PROVE Sound'
    OBVIOUS
<1>1. ASSUME NEW a \in Addr, Actor(a) \/ Environment(a) PROVE Sound'
    BY <1>1, ActorsUntouched, UntouchedSound
<1>2. ASSUME NEW a \in Addr, Handler(a) PROVE Sound'
    BY <1>2, HandlerSound
<1>3. CASE (\E id \in Ids : ControlOff(id)) \/ KeepAliveRound \/ Check \/ GetDeviceStatuses
    BY <1>3, WatchdogUntouched, UntouchedSound
<1>4. CASE UNCHANGED vars
    BY <1>4, UntouchedSound DEF vars, regVars, actorVars, dictVars
<1> QED
    BY <1>1, <1>2, <1>3, <1>4 DEF Next

\* The dictionaries of the Registrar are sound at every moment.
THEOREM DictsSound == Spec => []Sound
BY InitSound, NextSound, PTL DEF Spec

\* Actor dictionary and device statuses have the same instruments, each under
\* the address of an actor of its id, whatever the actors do and in whatever
\* order their messages are handled.
THEOREM DictionariesAgree == Spec => []DictsAgree
<1>1. Sound => DictsAgree
    BY DEF Sound
<1> QED
    BY <1>1, DictsSound, PTL
-----------------------------------------------------------------------------
(* The check that _check_integrity makes before every answer to             *)
(* GetDeviceStatusesMsg never shuts the server down.                         *)

LEMMA IntegrityHolds == Sound => Integrity
BY DEF Sound, DictsAgree, Integrity

NoIntegrityAlarm == stop # "integrity"

LEMMA StopsForOtherReasons ==
    ASSUME Sound, NoIntegrityAlarm, Next
    PROVE  NoIntegrityAlarm'
<1>1. ASSUME NEW a \in Addr, Actor(a) \/ Environment(a) PROVE NoIntegrityAlarm'
    BY <1>1 DEF NoIntegrityAlarm, Actor, Environment, ReceiveFromReg, LastChildExited,
                DeadEnvelope, CreateDevice, CreateService, ControlOn, Create, Remove, Hang,
                Shutdown, regVars
<1>2. ASSUME NEW a \in Addr, Forget(a) PROVE NoIntegrityAlarm'
    BY <1>2 DEF NoIntegrityAlarm, Forget, Shutdown
<1>3. ASSUME NEW a \in Addr, Handler(a) PROVE NoIntegrityAlarm'
    BY <1>2, <1>3 DEF NoIntegrityAlarm, Handler, Subscribe, IsAlive, UpdateDeviceStatus,
                      SubscribeToActorDict, UnSubscribeFromActorDict, Unsubscribe,
                      UnsubscribeDead, Shutdown
<1>4. CASE (\E id \in Ids : ControlOff(id)) \/ KeepAliveRound \/ Check \/ GetDeviceStatuses
    BY <1>4, IntegrityHolds DEF NoIntegrityAlarm, ControlOff, KeepAliveRound, Check,
                                GetDeviceStatuses, Shutdown, regVars
<1> QED
    BY <1>1, <1>3, <1>4 DEF Next

\* _check_integrity never calls system_shutdown: what it looks for cannot happen,
\* whatever the other actors do.
THEOREM IntegrityNeverFails == Spec => []NoIntegrityAlarm
<1>1. Init => NoIntegrityAlarm
    BY DEF Init, NoIntegrityAlarm
<1>2. Sound /\ NoIntegrityAlarm /\ [Next]_vars => NoIntegrityAlarm'
    BY StopsForOtherReasons DEF vars, regVars, NoIntegrityAlarm
<1> QED
    BY <1>1, <1>2, DictsSound, PTL DEF Spec
-----------------------------------------------------------------------------
(* Types.                                                                    *)

LEMMA MessagesExist ==
    /\ \A register \in BOOLEAN : Kill(register) \in Messages
    /\ KeepAlive \in Messages /\ SubscribeStatus \in Messages
    /\ \A instruments \in SUBSET Ids : UpdateActorDict(instruments) \in Messages
BY DEF Messages, Kill, KeepAlive, SubscribeStatus, UpdateActorDict

LEMMA SayingsExist ==
    /\ <<>> \in Seq(Sayings)
    /\ \A m \in Sayings : <<m>> \in Seq(Sayings)
    /\ \A m, n \in Sayings : <<m, n>> \in Seq(Sayings)
OBVIOUS

LEMMA SingletonTyped ==
    ASSUME NEW S, NEW e \in S
    PROVE  <<e>> \in Seq(S)
OBVIOUS

LEMMA RepeatTyped ==
    ASSUME NEW S, NEW e \in S, NEW n \in Nat
    PROVE  Repeat(e, n) \in Seq(S)
BY DEF Repeat

LEMMA SendTyped ==
    ASSUME TypeOK, NEW out, \A b \in Addr : out[b] \in Seq(Messages), Send(out)
    PROVE  fromReg' \in [Addr -> Seq(Messages)]
BY ConcatProperties DEF TypeOK, Send

\* Messages are only appended to what is under way from the Registrar.
Grown == \A b \in Addr : \E more \in Seq(Messages) : fromReg'[b] = fromReg[b] \o more

LEMMA SendGrows ==
    ASSUME TypeOK, NEW out, \A b \in Addr : out[b] \in Seq(Messages), Send(out)
    PROVE  Grown
BY DEF TypeOK, Send, Grown

LEMMA StillGrows ==
    ASSUME TypeOK, UNCHANGED fromReg
    PROVE  Grown
<1>1. \A b \in Addr : fromReg[b] = fromReg[b] \o <<>> /\ <<>> \in Seq(Messages)
    BY ConcatEmptySeq DEF TypeOK
<1> QED
    BY <1>1 DEF Grown

LEMMA UpdatesTyped ==
    ASSUME NEW dict, NEW gets, NEW b \in Addr
    PROVE  Updates(dict, gets)[b] \in Seq(Messages)
<1> DEFINE instruments == {id \in Ids : dict[id] # NoAddr /\ IsDevice(id)}
<1>1. UpdateActorDict(instruments) \in Messages
    BY MessagesExist
<1>2. <<UpdateActorDict(instruments)>> \in Seq(Messages) /\ <<>> \in Seq(Messages)
    BY <1>1
<1> QED
    BY <1>2 DEF Updates

LEMMA SayTyped ==
    ASSUME TypeOK, NEW a \in Addr, NEW messages \in Seq(Sayings), Say(a, messages)
    PROVE  toReg' \in [Addr -> Seq(Sayings)]
BY ConcatProperties DEF TypeOK, Say

LEMMA Next1Typed ==
    ASSUME TypeOK, NEW a \in Addr, NEW m, Next1(a, m)
    PROVE  toReg' \in [Addr -> Seq(Sayings)]
BY HeadTailProperties DEF TypeOK, Next1

LEMMA ReadTyped ==
    ASSUME TypeOK, NEW a \in Addr, fromReg[a] # <<>>,
           fromReg' = [fromReg EXCEPT ![a] = Tail(@)]
    PROVE  fromReg' \in [Addr -> Seq(Messages)]
BY HeadTailProperties DEF TypeOK

LEMMA HeadTyped ==
    ASSUME TypeOK, NEW a \in Addr, fromReg[a] # <<>>
    PROVE  Head(fromReg[a]) \in Messages
BY HeadTailProperties DEF TypeOK

LEMMA DiesTyped ==
    ASSUME TypeOK, NEW a \in Addr, NEW register \in BOOLEAN, NEW children \in BOOLEAN,
           NEW rest \in Seq(Sayings), Dies(a, register, children, rest)
    PROVE  /\ phase' \in [Addr -> {"unused", "run", "dying", "gone"}]
           /\ toReg' \in [Addr -> Seq(Sayings)]
<1> DEFINE last == IF ~children /\ register THEN <<"UnsubscribeMsg">> ELSE <<>>
<1>1. <<"keep alive">> \in Seq(Sayings) /\ last \in Seq(Sayings)
    <2>1. "keep alive" \in Sayings /\ "UnsubscribeMsg" \in Sayings
        BY DEF Sayings
    <2> QED
        BY <2>1, SayingsExist
<1>2. <<"keep alive">> \o rest \o last \in Seq(Sayings)
    BY <1>1, ConcatProperties
<1> HIDE DEF last
<1>3. CASE phase[a] = "dying"
    BY <1>1, <1>3, SayTyped DEF Dies, TypeOK
<1>4. CASE phase[a] # "dying"
    <2>1. /\ phase' = [phase EXCEPT ![a] = IF children THEN "dying" ELSE "gone"]
          /\ Say(a, <<"keep alive">> \o rest \o last)
        BY <1>4 DEF Dies, last
    <2> QED
        BY <1>2, <2>1, SayTyped DEF TypeOK
<1> QED
    BY <1>3, <1>4

LEMMA CreateTyped ==
    ASSUME TypeOK, NEW a \in Addr, Create(a)
    PROVE  TypeOK'
<1> DEFINE greeting == IF IsDevice(ident[a]) THEN <<"SubscribeMsg">>
                       ELSE <<"SubscribeMsg", "SubscribeToActorDictMsg">>
<1>1. greeting \in Seq(Sayings)
    <2>1. "SubscribeMsg" \in Sayings /\ "SubscribeToActorDictMsg" \in Sayings
        BY DEF Sayings
    <2> QED
        BY <2>1, SayingsExist
<1> HIDE DEF greeting
<1>2. Say(a, greeting)
    BY DEF Create, greeting
<1>3. toReg' \in [Addr -> Seq(Sayings)]
    BY <1>1, <1>2, SayTyped
<1> QED
    BY <1>3 DEF Create, TypeOK, regVars

LEMMA ReceiveFromRegTyped ==
    ASSUME TypeOK, NEW a \in Addr, ReceiveFromReg(a)
    PROVE  TypeOK'
<1> DEFINE m == Head(fromReg[a])
<1>1. m \in Messages /\ fromReg' \in [Addr -> Seq(Messages)]
    BY HeadTyped, ReadTyped DEF ReceiveFromReg
<1>2. /\ UNCHANGED <<regVars, ident, mute, deadLetters>>
      /\ CASE m.type = "KillMsg" ->
                \E children \in BOOLEAN : Dies(a, m.register, children, Leaves(a)) /\ view' = view
           [] m.type = "KeepAliveMsg" ->
                Say(a, <<"keep alive">>) /\ UNCHANGED <<phase, view>>
           [] m.type = "SubscribeToDeviceStatusMsg" ->
                Say(a, <<"UpdateDeviceStatusMsg">>) /\ UNCHANGED <<phase, view>>
           [] m.type = "UpdateActorDictMsg" ->
                /\ view' = [view EXCEPT ![a] = m.instruments]
                /\ UNCHANGED <<phase, toReg>>
           [] OTHER -> UNCHANGED <<phase, toReg, view>>
    BY DEF ReceiveFromReg
<1> HIDE DEF m
<1> DEFINE goal == /\ phase' \in [Addr -> {"unused", "run", "dying", "gone"}]
                   /\ toReg' \in [Addr -> Seq(Sayings)]
                   /\ view' \in [Addr -> SUBSET Ids]
<1>3. CASE m.type = "KillMsg"
    <2>1. m.register \in BOOLEAN
        BY <1>1, <1>3 DEF Messages
    <2>2. Leaves(a) \in Seq(Sayings)
        <3>1. "UnSubscribeFromActorDictMsg" \in Sayings
            BY DEF Sayings
        <3> QED
            BY <3>1, SayingsExist DEF Leaves
    <2>3. PICK children \in BOOLEAN : Dies(a, m.register, children, Leaves(a)) /\ view' = view
        BY <1>2, <1>3
    <2>4. goal
        BY <2>1, <2>2, <2>3, DiesTyped DEF TypeOK
    <2> QED
        BY <1>1, <1>2, <2>4 DEF TypeOK, regVars
<1>4. CASE m.type = "KeepAliveMsg" \/ m.type = "SubscribeToDeviceStatusMsg"
    <2>1. <<"keep alive">> \in Seq(Sayings) /\ <<"UpdateDeviceStatusMsg">> \in Seq(Sayings)
        BY DEF Sayings
    <2>2. /\ Say(a, <<"keep alive">>) \/ Say(a, <<"UpdateDeviceStatusMsg">>)
          /\ UNCHANGED <<phase, view>>
        BY <1>2, <1>4
    <2>3. goal
        BY <2>1, <2>2, SayTyped DEF TypeOK
    <2> QED
        BY <1>1, <1>2, <2>3 DEF TypeOK, regVars
<1>5. CASE m.type = "UpdateActorDictMsg"
    <2>1. m.instruments \in SUBSET Ids
        BY <1>1, <1>5 DEF Messages
    <2>2. goal
        BY <1>2, <1>5, <2>1 DEF TypeOK
    <2> QED
        BY <1>1, <1>2, <2>2 DEF TypeOK, regVars
<1>6. m.type \in {"KillMsg", "KeepAliveMsg", "SubscribeToDeviceStatusMsg", "UpdateActorDictMsg"}
    BY <1>1 DEF Messages
<1> QED
    BY <1>3, <1>4, <1>5, <1>6

LEMMA ActorTyped ==
    ASSUME TypeOK, NEW a \in Addr, Actor(a) \/ Environment(a)
    PROVE  TypeOK'
<1>1. CASE ReceiveFromReg(a)
    BY <1>1, ReceiveFromRegTyped
<1>2. CASE LastChildExited(a)
    <2>1. <<"UnsubscribeMsg">> \in Seq(Sayings)
        BY DEF Sayings
    <2>2. toReg' \in [Addr -> Seq(Sayings)]
        BY <1>2, <2>1, SayTyped DEF LastChildExited
    <2> QED
        BY <1>2, <2>2 DEF LastChildExited, TypeOK, regVars
<1>3. CASE DeadEnvelope(a)
    <2>1. fromReg' \in [Addr -> Seq(Messages)]
        BY <1>3, ReadTyped DEF DeadEnvelope
    <2>2. deadLetters' \in SUBSET Addr /\ stop' \in Reasons
        BY <1>3 DEF DeadEnvelope, TypeOK, Shutdown, Reasons
    <2> QED
        BY <1>3, <2>1, <2>2 DEF DeadEnvelope, TypeOK, actorVars
<1>4. CASE CreateDevice(a) \/ CreateService(a) \/ ControlOn(a)
    BY <1>4, CreateTyped DEF CreateDevice, CreateService, ControlOn
<1>5. CASE Remove(a)
    <2>1. PICK children \in BOOLEAN : Dies(a, TRUE, children, <<>>)
        BY <1>5 DEF Remove
    <2>2. <<>> \in Seq(Sayings)
        OBVIOUS
    <2>3. /\ phase' \in [Addr -> {"unused", "run", "dying", "gone"}]
          /\ toReg' \in [Addr -> Seq(Sayings)]
        BY <2>1, <2>2, DiesTyped
    <2> QED
        BY <1>5, <2>3 DEF Remove, TypeOK, regVars
<1>6. CASE Hang(a)
    BY <1>6 DEF Hang, TypeOK, regVars, netVars
<1> QED
    BY <1>1, <1>2, <1>3, <1>4, <1>5, <1>6 DEF Actor, Environment
LEMMA SubscribeTyped ==
    ASSUME TypeOK, NEW a \in Addr, Subscribe(a)
    PROVE  TypeOK' /\ Grown
<1> DEFINE id == ident[a]
           beaten == {old \in Rivals(id) : NewWins(id, old)}
           stay == Rivals(id) \ beaten
           dict == [actor_dict EXCEPT ![id] = a]
           gets == [get_updates EXCEPT ![id] = FALSE]
           out(subscribes) == [b \in Addr |->
                 (IF Registered(id) /\ actor_dict[id] = b THEN <<Kill(TRUE)>> ELSE <<>>)
                 \o (IF \E old \in beaten : dict[old] = b THEN <<Kill(TRUE)>> ELSE <<>>)
                 \o (IF b = a /\ IsDevice(id)
                     THEN Repeat(Kill(TRUE), Cardinality(stay))
                          \o (IF subscribes THEN <<SubscribeStatus>> ELSE <<>>)
                     ELSE <<>>)
                 \o Updates(dict, gets)[b]]
<1>1. /\ id \in Ids /\ toReg' \in [Addr -> Seq(Sayings)]
      /\ UNCHANGED <<watchdog, actorVars, deadLetters>>
    BY Next1Typed DEF Subscribe, TypeOK
<1>2. \/ /\ actor_dict' = dict /\ get_updates' = gets
         /\ is_alive' = [is_alive EXCEPT ![id] = TRUE]
         /\ device_statuses' = IF IsDevice(id) /\ ~Known(id)
                               THEN [device_statuses EXCEPT ![id] = "empty"]
                               ELSE device_statuses
         /\ \E subscribes \in BOOLEAN : Send(out(subscribes))
         /\ UNCHANGED stop
      \/ /\ Shutdown("duplicate")
         /\ UNCHANGED <<actor_dict, get_updates, is_alive, device_statuses, fromReg>>
      \/ /\ Send([Nothing EXCEPT ![a] = <<Kill(FALSE)>>])
         /\ UNCHANGED <<actor_dict, get_updates, is_alive, device_statuses, stop>>
    BY DEF Subscribe
<1>3. /\ <<Kill(TRUE)>> \in Seq(Messages) /\ <<Kill(FALSE)>> \in Seq(Messages)
      /\ <<SubscribeStatus>> \in Seq(Messages) /\ <<>> \in Seq(Messages)
    <2>1. Kill(TRUE) \in Messages /\ Kill(FALSE) \in Messages /\ SubscribeStatus \in Messages
        BY MessagesExist
    <2>2. <<>> \in Seq(Messages)
        OBVIOUS
    <2> QED
        BY <2>1, <2>2, SingletonTyped
<1>4. Repeat(Kill(TRUE), Cardinality(stay)) \in Seq(Messages)
    <2>1. stay \subseteq Ids
        BY DEF Rivals
    <2>2. Cardinality(stay) \in Nat
        BY <2>1, IdsAssumption, FS_Subset, FS_CardinalityType
    <2> HIDE DEF stay
    <2>3. Kill(TRUE) \in Messages
        BY MessagesExist
    <2> QED
        BY <2>2, <2>3, RepeatTyped
<1> HIDE DEF beaten, stay, dict, gets
<1>5. ASSUME NEW subscribes \in BOOLEAN, NEW b \in Addr
      PROVE  out(subscribes)[b] \in Seq(Messages)
    <2> DEFINE replaced == IF Registered(id) /\ actor_dict[id] = b THEN <<Kill(TRUE)>> ELSE <<>>
               loser == IF \E old \in beaten : dict[old] = b THEN <<Kill(TRUE)>> ELSE <<>>
               asked == IF subscribes THEN <<SubscribeStatus>> ELSE <<>>
               newcomer == IF b = a /\ IsDevice(id)
                           THEN Repeat(Kill(TRUE), Cardinality(stay)) \o asked ELSE <<>>
    <2>1. replaced \in Seq(Messages) /\ loser \in Seq(Messages) /\ asked \in Seq(Messages)
        BY <1>3
    <2> HIDE DEF replaced, loser, asked
    <2>2. newcomer \in Seq(Messages)
        BY <1>3, <1>4, <2>1, ConcatProperties
    <2> HIDE DEF newcomer
    <2>3. Updates(dict, gets)[b] \in Seq(Messages)
        BY UpdatesTyped
    <2>4. replaced \o loser \o newcomer \o Updates(dict, gets)[b] \in Seq(Messages)
        BY <2>1, <2>2, <2>3, ConcatProperties
    <2> QED
        BY <2>4 DEF replaced, loser, newcomer, asked
<1>6. CASE /\ actor_dict' = dict /\ get_updates' = gets
           /\ is_alive' = [is_alive EXCEPT ![id] = TRUE]
           /\ device_statuses' = IF IsDevice(id) /\ ~Known(id)
                                 THEN [device_statuses EXCEPT ![id] = "empty"]
                                 ELSE device_statuses
           /\ \E subscribes \in BOOLEAN : Send(out(subscribes))
           /\ UNCHANGED stop
    <2>1. fromReg' \in [Addr -> Seq(Messages)] /\ Grown
        <3> HIDE DEF out
        <3> QED
            BY <1>5, <1>6, SendTyped, SendGrows
    <2>2. actor_dict' \in [Ids -> Addr \cup {NoAddr}] /\ get_updates' \in [Ids -> BOOLEAN]
        BY <1>1, <1>6 DEF TypeOK, dict, gets
    <2> QED
        BY <1>1, <1>6, <2>1, <2>2 DEF TypeOK, actorVars
<1>7. CASE /\ Shutdown("duplicate")
           /\ UNCHANGED <<actor_dict, get_updates, is_alive, device_statuses, fromReg>>
    <2>1. stop' \in Reasons /\ Grown
        BY <1>7, StillGrows DEF TypeOK, Shutdown, Reasons
    <2> QED
        BY <1>1, <1>7, <2>1 DEF TypeOK, actorVars
<1>8. CASE /\ Send([Nothing EXCEPT ![a] = <<Kill(FALSE)>>])
           /\ UNCHANGED <<actor_dict, get_updates, is_alive, device_statuses, stop>>
    <2>1. \A b \in Addr : [Nothing EXCEPT ![a] = <<Kill(FALSE)>>][b] \in Seq(Messages)
        BY <1>3 DEF Nothing
    <2>2. fromReg' \in [Addr -> Seq(Messages)] /\ Grown
        BY <1>8, <2>1, SendTyped, SendGrows
    <2> QED
        BY <1>1, <1>8, <2>2 DEF TypeOK, actorVars
<1> QED
    BY <1>2, <1>6, <1>7, <1>8

LEMMA ForgetTyped ==
    ASSUME TypeOK, NEW a \in Addr, Forget(a)
    PROVE  /\ actor_dict' \in [Ids -> Addr \cup {NoAddr}]
           /\ get_updates' \in [Ids -> BOOLEAN] /\ is_alive' \in [Ids -> BOOLEAN]
           /\ device_statuses' \in [Ids -> Addr \cup {"absent", "empty"}]
           /\ stop' \in Reasons /\ fromReg' \in [Addr -> Seq(Messages)] /\ Grown
<1>1. CASE ~ \E id \in Ids : actor_dict[id] = a
    BY <1>1, StillGrows DEF Forget, TypeOK
<1>2. CASE \E id \in Ids : actor_dict[id] = a
    <2> DEFINE gone == CHOOSE i \in Ids : actor_dict[i] = a
               dict == [actor_dict EXCEPT ![gone] = NoAddr]
    <2>1. gone \in Ids
        BY <1>2
    <2>2. /\ actor_dict' = dict
          /\ device_statuses' = [device_statuses EXCEPT ![gone] = "absent"]
          /\ is_alive' = [is_alive EXCEPT ![gone] = FALSE]
          /\ get_updates' = [get_updates EXCEPT ![gone] = FALSE]
          /\ Send(Updates(dict, get_updates'))
          /\ IF gone[1] \in Persistent THEN Shutdown("persistency") ELSE UNCHANGED stop
        BY <1>2 DEF Forget
    <2>3. fromReg' \in [Addr -> Seq(Messages)] /\ Grown
        BY <2>2, UpdatesTyped, SendTyped, SendGrows
    <2>4. stop' \in Reasons
        BY <2>2 DEF TypeOK, Shutdown, Reasons
    <2> QED
        BY <2>1, <2>2, <2>3, <2>4 DEF TypeOK
<1> QED
    BY <1>1, <1>2

LEMMA HandlerTyped ==
    ASSUME TypeOK, NEW a \in Addr, Handler(a)
    PROVE  TypeOK' /\ Grown
<1>1. CASE Subscribe(a)
    BY <1>1, SubscribeTyped
<1>2. CASE IsAlive(a) \/ UpdateDeviceStatus(a) \/ UnSubscribeFromActorDict(a)
    <2>1. toReg' \in [Addr -> Seq(Sayings)] /\ ident[a] \in Ids
        BY <1>2, Next1Typed DEF IsAlive, UpdateDeviceStatus, UnSubscribeFromActorDict, TypeOK
    <2>2. is_alive' \in [Ids -> BOOLEAN] /\ get_updates' \in [Ids -> BOOLEAN]
        BY <1>2, <2>1 DEF IsAlive, UpdateDeviceStatus, UnSubscribeFromActorDict, TypeOK,
                          Registered
    <2> QED
        BY <1>2, <2>1, <2>2, StillGrows DEF IsAlive, UpdateDeviceStatus,
                                            UnSubscribeFromActorDict, TypeOK, actorVars
<1>3. CASE SubscribeToActorDict(a)
    <2>1. toReg' \in [Addr -> Seq(Sayings)] /\ ident[a] \in Ids
        BY <1>3, Next1Typed DEF SubscribeToActorDict, TypeOK
    <2>2. get_updates' \in [Ids -> BOOLEAN]
        BY <1>3, <2>1 DEF SubscribeToActorDict, TypeOK
    <2>3. fromReg' \in [Addr -> Seq(Messages)] /\ Grown
        BY <1>3, UpdatesTyped, SendTyped, SendGrows, StillGrows
        DEF SubscribeToActorDict, TypeOK
    <2> QED
        BY <1>3, <2>1, <2>2, <2>3 DEF SubscribeToActorDict, TypeOK, actorVars
<1>4. CASE Unsubscribe(a)
    <2>1. toReg' \in [Addr -> Seq(Sayings)]
        BY <1>4, Next1Typed DEF Unsubscribe
    <2> QED
        BY <1>4, <2>1, ForgetTyped DEF Unsubscribe, TypeOK, actorVars
<1>5. CASE UnsubscribeDead(a)
    BY <1>5, ForgetTyped DEF UnsubscribeDead, TypeOK, actorVars
<1> QED
    BY <1>1, <1>2, <1>3, <1>4, <1>5 DEF Handler

LEMMA WatchdogTyped ==
    ASSUME TypeOK,
           (\E id \in Ids : ControlOff(id)) \/ KeepAliveRound \/ Check \/ GetDeviceStatuses
    PROVE  TypeOK' /\ Grown
<1>1. ASSUME NEW id \in Ids, ControlOff(id) PROVE TypeOK' /\ Grown
    <2> DEFINE out == [Nothing EXCEPT ![actor_dict[id]] = <<Kill(TRUE)>>]
    <2>1. <<Kill(TRUE)>> \in Seq(Messages) /\ <<>> \in Seq(Messages)
        <3>1. Kill(TRUE) \in Messages
            BY MessagesExist
        <3>2. <<>> \in Seq(Messages)
            OBVIOUS
        <3> QED
            BY <3>1, <3>2, SingletonTyped
    <2>2. \A b \in Addr : out[b] \in Seq(Messages)
        BY <2>1 DEF Nothing
    <2>3. fromReg' \in [Addr -> Seq(Messages)] /\ Grown
        BY <1>1, <2>2, SendTyped, SendGrows DEF ControlOff
    <2> QED
        BY <1>1, <2>3 DEF ControlOff, TypeOK, regVars, actorVars
<1>2. CASE KeepAliveRound
    <2> DEFINE out == [a \in Addr |->
                          IF /\ \E id \in Ids : actor_dict[id] = a
                             /\ mute[a] /\ phase[a] # "gone" => KeepAlive \notin Unread(a)
                          THEN <<KeepAlive>> ELSE <<>>]
    <2>1. <<KeepAlive>> \in Seq(Messages) /\ <<>> \in Seq(Messages)
        <3>1. KeepAlive \in Messages
            BY MessagesExist
        <3>2. <<>> \in Seq(Messages)
            OBVIOUS
        <3> QED
            BY <3>1, <3>2, SingletonTyped
    <2>2. \A b \in Addr : out[b] \in Seq(Messages)
        BY <2>1
    <2>3. fromReg' \in [Addr -> Seq(Messages)] /\ Grown
        <3>1. Send(out)
            BY <1>2 DEF KeepAliveRound
        <3> HIDE DEF out
        <3> QED
            BY <2>2, <3>1, SendTyped, SendGrows
    <2> QED
        BY <1>2, <2>3 DEF KeepAliveRound, TypeOK, actorVars
<1>3. CASE Check \/ GetDeviceStatuses
    BY <1>3, StillGrows DEF Check, GetDeviceStatuses, Shutdown, TypeOK, actorVars, netVars,
                            Reasons
<1> QED
    BY <1>1, <1>2, <1>3

LEMMA InitTyped == Init => TypeOK
<1> SUFFICES ASSUME Init PROVE TypeOK
    OBVIOUS
<1>1. <<>> \in Seq(Sayings) /\ <<>> \in Seq(Messages)
    OBVIOUS
<1> QED
    BY <1>1, CastAssumption DEF Init, TypeOK, Reasons

\* The Registrar's attributes, the actors' states and the messages under way
\* keep their types: among others, every address in the dictionary is that of an
\* actor, and every message comes from and goes to one.
THEOREM TypeCorrect == Spec => []TypeOK
<1>1. ASSUME TypeOK, Next PROVE TypeOK'
    BY <1>1, ActorTyped, HandlerTyped, WatchdogTyped DEF Next
<1>2. TypeOK /\ UNCHANGED vars => TypeOK'
    BY DEF TypeOK, vars, regVars, actorVars, netVars
<1> QED
    BY <1>1, <1>2, InitTyped, PTL DEF Spec
-----------------------------------------------------------------------------
(* The watchdog.  Between a round and its check every actor of the           *)
(* dictionary that has not answered yet is excused: its answer, its good-bye,*)
(* the question or the dead letter it came back as is still under way; only   *)
(* for a process that hangs or died nothing is.  The check waits until         *)
(* nothing is under way.                                                       *)

Has(s, e) == \E i \in 1..Len(s) : s[i] = e

Excused(a) ==
    \/ mute[a] \/ a \in deadLetters
    \/ Has(toReg[a], "keep alive") \/ Has(toReg[a], "UnsubscribeMsg")
    \/ Has(fromReg[a], KeepAlive)

\* The inductive invariant.
SilentIsExcused ==
    watchdog = "check" =>
        \A id \in Ids : Registered(id) /\ ~is_alive[id] => Excused(actor_dict[id])

\* Nothing gets lost from a mailbox but its head.
LEMMA HasAppended ==
    ASSUME NEW S, NEW s \in Seq(S), NEW t \in Seq(S), NEW e
    PROVE  Has(s, e) \/ Has(t, e) => Has(s \o t, e)
<1>1. /\ s \o t \in Seq(S) /\ Len(s \o t) = Len(s) + Len(t)
      /\ \A i \in 1..Len(s \o t) : (s \o t)[i] = IF i <= Len(s) THEN s[i] ELSE t[i - Len(s)]
      /\ Len(s) \in Nat /\ Len(t) \in Nat
    BY ConcatProperties, LenProperties
<1>2. ASSUME NEW i \in 1..Len(s), s[i] = e PROVE Has(s \o t, e)
    <2>1. i \in 1..Len(s \o t) /\ (s \o t)[i] = e
        BY <1>1, <1>2
    <2> QED
        BY <2>1 DEF Has
<1>3. ASSUME NEW i \in 1..Len(t), t[i] = e PROVE Has(s \o t, e)
    <2>1. /\ i + Len(s) \in 1..Len(s \o t) /\ ~(i + Len(s) <= Len(s))
          /\ (i + Len(s)) - Len(s) = i
        BY <1>1
    <2>2. (s \o t)[i + Len(s)] = e
        BY <1>1, <1>3, <2>1
    <2> QED
        BY <2>1, <2>2 DEF Has
<1> QED
    BY <1>2, <1>3 DEF Has

LEMMA HasInTail ==
    ASSUME NEW S, NEW s \in Seq(S), s # <<>>, NEW e, Has(s, e), Head(s) # e
    PROVE  Has(Tail(s), e)
<1>1. PICK i \in 1..Len(s) : s[i] = e
    BY DEF Has
<1>2. /\ Head(s) = s[1] /\ Len(Tail(s)) = Len(s) - 1
      /\ \A j \in 1..Len(Tail(s)) : Tail(s)[j] = s[j + 1]
      /\ Len(s) \in Nat
    BY HeadTailProperties, LenProperties
<1>3. i - 1 \in 1..Len(Tail(s)) /\ (i - 1) + 1 = i
    BY <1>1, <1>2
<1> QED
    BY <1>1, <1>2, <1>3 DEF Has

LEMMA HasFirst ==
    ASSUME NEW S, NEW e \in S, NEW t \in Seq(S)
    PROVE  Has(<<e>>, e) /\ Has(<<e>> \o t, e)
<1>1. <<e>> \in Seq(S) /\ Has(<<e>>, e)
    BY DEF Has
<1> QED
    BY <1>1, HasAppended

LEMMA SayKeeps ==
    ASSUME TypeOK, NEW a \in Addr, NEW messages \in Seq(Sayings), Say(a, messages)
    PROVE  /\ \A b \in Addr, m \in Sayings : Has(toReg[b], m) => Has(toReg'[b], m)
           /\ \A m \in Sayings : Has(messages, m) => Has(toReg'[a], m)
<1>1. /\ toReg'[a] = toReg[a] \o messages /\ toReg[a] \in Seq(Sayings)
      /\ \A b \in Addr \ {a} : toReg'[b] = toReg[b]
    BY DEF TypeOK, Say
<1>2. \A m \in Sayings : Has(toReg[a], m) \/ Has(messages, m) => Has(toReg'[a], m)
    BY <1>1, HasAppended
<1>3. \A b \in Addr \ {a}, m \in Sayings : Has(toReg[b], m) => Has(toReg'[b], m)
    BY <1>1
<1> QED
    BY <1>2, <1>3

LEMMA GrownKeeps ==
    ASSUME TypeOK, Grown, NEW b \in Addr, Has(fromReg[b], KeepAlive)
    PROVE  Has(fromReg'[b], KeepAlive)
<1>1. PICK more \in Seq(Messages) : fromReg'[b] = fromReg[b] \o more
    BY DEF Grown
<1> QED
    BY <1>1, HasAppended DEF TypeOK

\* Whoever lets every excuse stand.
StillExcused == \A b \in Addr : Excused(b) => Excused(b)'

LEMMA ExcusesStand ==
    ASSUME TypeOK, SilentIsExcused, StillExcused, UNCHANGED <<actor_dict, is_alive, watchdog>>
    PROVE  SilentIsExcused'
BY DEF TypeOK, SilentIsExcused, StillExcused, Registered

LEMMA ReadKeeps ==
    ASSUME TypeOK, NEW a \in Addr, fromReg[a] # <<>>, Head(fromReg[a]) # KeepAlive,
           fromReg' = [fromReg EXCEPT ![a] = Tail(@)]
    PROVE  \A b \in Addr : Has(fromReg[b], KeepAlive) => Has(fromReg'[b], KeepAlive)
<1>1. fromReg[a] \in Seq(Messages) /\ fromReg'[a] = Tail(fromReg[a])
    BY DEF TypeOK
<1>2. Has(fromReg[a], KeepAlive) => Has(fromReg'[a], KeepAlive)
    BY <1>1, HasInTail
<1>3. \A b \in Addr \ {a} : fromReg'[b] = fromReg[b]
    BY DEF TypeOK
<1> QED
    BY <1>2, <1>3

LEMMA Next1Keeps ==
    ASSUME TypeOK, NEW a \in Addr, NEW m, Next1(a, m)
    PROVE  /\ \A b \in Addr \ {a} : toReg'[b] = toReg[b]
           /\ \A n \in Sayings \ {m} : Has(toReg[a], n) => Has(toReg'[a], n)
<1>1. /\ toReg[a] \in Seq(Sayings) /\ toReg[a] # <<>> /\ Head(toReg[a]) = m
      /\ toReg'[a] = Tail(toReg[a]) /\ \A b \in Addr \ {a} : toReg'[b] = toReg[b]
    BY DEF TypeOK, Next1
<1>2. \A n \in Sayings \ {m} : Has(toReg[a], n) => Has(toReg'[a], n)
    BY <1>1, HasInTail
<1> QED
    BY <1>1, <1>2

\* Actors.
LEMMA ExcusesSaid == "keep alive" \in Sayings /\ "UnsubscribeMsg" \in Sayings
BY DEF Sayings

LEMMA SpeakerExcuses ==
    ASSUME TypeOK, NEW a \in Addr, NEW messages \in Seq(Sayings), Say(a, messages),
           UNCHANGED <<mute, deadLetters>>,
           \/ UNCHANGED fromReg
           \/ /\ fromReg[a] # <<>> /\ fromReg' = [fromReg EXCEPT ![a] = Tail(@)]
              /\ Head(fromReg[a]) # KeepAlive \/ Has(messages, "keep alive")
    PROVE  StillExcused
<1>1. /\ \A b \in Addr, m \in Sayings : Has(toReg[b], m) => Has(toReg'[b], m)
      /\ \A m \in Sayings : Has(messages, m) => Has(toReg'[a], m)
    BY SayKeeps
<1>2. CASE UNCHANGED fromReg
    BY <1>1, <1>2, ExcusesSaid DEF StillExcused, Excused
<1>3. CASE /\ fromReg[a] # <<>> /\ fromReg' = [fromReg EXCEPT ![a] = Tail(@)]
           /\ Head(fromReg[a]) # KeepAlive
    <2>1. \A b \in Addr : Has(fromReg[b], KeepAlive) => Has(fromReg'[b], KeepAlive)
        BY <1>3, ReadKeeps
    <2> QED
        BY <1>1, <2>1, ExcusesSaid DEF StillExcused, Excused
<1>4. CASE /\ fromReg' = [fromReg EXCEPT ![a] = Tail(@)]
           /\ Has(messages, "keep alive")
    <2>1. \A b \in Addr \ {a} : fromReg'[b] = fromReg[b]
        BY <1>4 DEF TypeOK
    <2>2. Excused(a)'
        BY <1>1, <1>4, ExcusesSaid DEF Excused
    <2> QED
        BY <1>1, <2>1, <2>2, ExcusesSaid DEF StillExcused, Excused
<1> QED
    BY <1>2, <1>3, <1>4

LEMMA DyingExcuses ==
    ASSUME TypeOK, NEW a \in Addr, NEW register \in BOOLEAN, NEW children \in BOOLEAN,
           NEW rest \in Seq(Sayings), Dies(a, register, children, rest)
    PROVE  \E messages \in Seq(Sayings) : Say(a, messages) /\ Has(messages, "keep alive")
<1> DEFINE last == IF ~children /\ register THEN <<"UnsubscribeMsg">> ELSE <<>>
<1>1. last \in Seq(Sayings) /\ <<"keep alive">> \in Seq(Sayings)
    BY ExcusesSaid, SayingsExist
<1> HIDE DEF last
<1>2. <<"keep alive">> \o rest \o last \in Seq(Sayings)
    BY <1>1, ConcatProperties
<1>3. /\ Has(<<"keep alive">>, "keep alive")
      /\ Has(<<"keep alive">> \o rest \o last, "keep alive")
    <2>1. /\ Has(<<"keep alive">>, "keep alive") /\ Has(<<"keep alive">> \o rest, "keep alive")
          /\ <<"keep alive">> \o rest \in Seq(Sayings)
        BY <1>1, HasFirst, ExcusesSaid, ConcatProperties
    <2> QED
        BY <1>1, <2>1, HasAppended
<1>4. \/ Say(a, <<"keep alive">>)
      \/ Say(a, <<"keep alive">> \o rest \o last)
    BY DEF Dies, last
<1> QED
    BY <1>1, <1>2, <1>3, <1>4

LEMMA ReceiveExcuses ==
    ASSUME TypeOK, NEW a \in Addr, ReceiveFromReg(a)
    PROVE  StillExcused
<1> DEFINE m == Head(fromReg[a])
<1>1. /\ m \in Messages /\ fromReg[a] # <<>> /\ fromReg' = [fromReg EXCEPT ![a] = Tail(@)]
      /\ UNCHANGED <<mute, deadLetters>>
    BY HeadTyped DEF ReceiveFromReg
<1>2. CASE m.type \in {"KeepAliveMsg", "SubscribeToDeviceStatusMsg"}
    <2>1. /\ <<"keep alive">> \in Seq(Sayings) /\ <<"UpdateDeviceStatusMsg">> \in Seq(Sayings)
          /\ Has(<<"keep alive">>, "keep alive")
        <3>1. "UpdateDeviceStatusMsg" \in Sayings /\ <<>> \in Seq(Sayings)
            BY DEF Sayings
        <3> QED
            BY <3>1, ExcusesSaid, SayingsExist, HasFirst
    <2>2. CASE m.type = "KeepAliveMsg"
        <3>1. Say(a, <<"keep alive">>)
            BY <2>2 DEF ReceiveFromReg
        <3> QED
            BY <1>1, <2>1, <3>1, SpeakerExcuses
    <2>3. CASE m.type = "SubscribeToDeviceStatusMsg"
        <3>1. Say(a, <<"UpdateDeviceStatusMsg">>) /\ m # KeepAlive
            BY <2>3 DEF ReceiveFromReg, KeepAlive
        <3> QED
            BY <1>1, <2>1, <3>1, SpeakerExcuses
    <2> QED
        BY <1>2, <2>2, <2>3
<1>3. CASE m.type = "KillMsg"
    <2>1. Leaves(a) \in Seq(Sayings) /\ m.register \in BOOLEAN
        <3>1. "UnSubscribeFromActorDictMsg" \in Sayings
            BY DEF Sayings
        <3> QED
            BY <1>1, <1>3, <3>1, SayingsExist DEF Leaves, Messages
    <2>2. PICK children \in BOOLEAN : Dies(a, m.register, children, Leaves(a))
        BY <1>3 DEF ReceiveFromReg
    <2> HIDE DEF m
    <2>3. PICK messages \in Seq(Sayings) : Say(a, messages) /\ Has(messages, "keep alive")
        BY <2>1, <2>2, DyingExcuses
    <2> QED
        BY <1>1, <2>3, SpeakerExcuses DEF m
<1>4. CASE m.type = "UpdateActorDictMsg"
    <2>1. m # KeepAlive /\ toReg' = toReg
        BY <1>4 DEF ReceiveFromReg, KeepAlive
    <2>2. \A b \in Addr : Has(fromReg[b], KeepAlive) => Has(fromReg'[b], KeepAlive)
        BY <1>1, <2>1, ReadKeeps
    <2> QED
        BY <1>1, <2>1, <2>2 DEF StillExcused, Excused
<1>5. m.type \in {"KillMsg", "KeepAliveMsg", "SubscribeToDeviceStatusMsg", "UpdateActorDictMsg"}
    BY <1>1 DEF Messages
<1> QED
    BY <1>2, <1>3, <1>4, <1>5

LEMMA DeadEnvelopeExcuses ==
    ASSUME TypeOK, NEW a \in Addr, DeadEnvelope(a)
    PROVE  StillExcused
<1>1. /\ fromReg[a] # <<>> /\ fromReg' = [fromReg EXCEPT ![a] = Tail(@)]
      /\ UNCHANGED <<mute, toReg>>
    BY DEF DeadEnvelope, actorVars
<1>2. CASE Head(fromReg[a]).type \in Harmless
    <2>1. deadLetters' = deadLetters \cup {a}
        BY <1>2 DEF DeadEnvelope
    <2>2. \A b \in Addr \ {a} : fromReg'[b] = fromReg[b]
        BY <1>1 DEF TypeOK
    <2> QED
        BY <1>1, <2>1, <2>2 DEF StillExcused, Excused
<1>3. CASE Head(fromReg[a]).type \notin Harmless
    <2>1. Head(fromReg[a]) # KeepAlive /\ deadLetters' = deadLetters
        <3>1. KeepAlive.type \in Harmless
            BY DEF KeepAlive, Harmless
        <3>2. deadLetters' = deadLetters
            BY <1>3 DEF DeadEnvelope
        <3> QED
            BY <1>3, <3>1, <3>2
    <2>2. \A b \in Addr : Has(fromReg[b], KeepAlive) => Has(fromReg'[b], KeepAlive)
        BY <1>1, <2>1, ReadKeeps
    <2> QED
        BY <1>1, <2>1, <2>2 DEF StillExcused, Excused
<1> QED
    BY <1>2, <1>3

LEMMA ActorExcuses ==
    ASSUME TypeOK, NEW a \in Addr, Actor(a) \/ Environment(a)
    PROVE  StillExcused /\ UNCHANGED <<actor_dict, is_alive, watchdog>>
<1>1. UNCHANGED <<actor_dict, is_alive, watchdog>>
    BY DEF Actor, Environment, ReceiveFromReg, LastChildExited, DeadEnvelope, CreateDevice,
           CreateService, ControlOn, Create, Remove, Hang, regVars
<1>2. CASE ReceiveFromReg(a)
    BY <1>1, <1>2, ReceiveExcuses
<1>3. CASE DeadEnvelope(a)
    BY <1>1, <1>3, DeadEnvelopeExcuses
<1>4. CASE LastChildExited(a)
    <2>1. <<"UnsubscribeMsg">> \in Seq(Sayings)
        BY ExcusesSaid, SayingsExist
    <2> QED
        BY <1>1, <1>4, <2>1, SpeakerExcuses DEF LastChildExited
<1>5. CASE CreateDevice(a) \/ CreateService(a) \/ ControlOn(a)
    <2>1. "SubscribeMsg" \in Sayings /\ "SubscribeToActorDictMsg" \in Sayings
        BY DEF Sayings
    <2>2. /\ <<"SubscribeMsg">> \in Seq(Sayings)
          /\ <<"SubscribeMsg", "SubscribeToActorDictMsg">> \in Seq(Sayings)
        BY <2>1, SayingsExist
    <2>3. /\ UNCHANGED <<mute, deadLetters, fromReg>>
          /\ \/ Say(a, <<"SubscribeMsg">>)
             \/ Say(a, <<"SubscribeMsg", "SubscribeToActorDictMsg">>)
        BY <1>5 DEF CreateDevice, CreateService, ControlOn, Create
    <2> QED
        BY <1>1, <2>2, <2>3, SpeakerExcuses
<1>6. CASE Remove(a)
    <2>1. PICK children \in BOOLEAN : Dies(a, TRUE, children, <<>>)
        BY <1>6 DEF Remove
    <2>2. <<>> \in Seq(Sayings)
        OBVIOUS
    <2>3. PICK messages \in Seq(Sayings) : Say(a, messages)
        BY <2>1, <2>2, DyingExcuses
    <2> QED
        BY <1>1, <1>6, <2>3, SpeakerExcuses DEF Remove
<1>7. CASE Hang(a)
    <2>1. /\ UNCHANGED <<toReg, fromReg, deadLetters>>
          /\ \A b \in Addr : mute[b] => mute'[b]
        BY <1>7 DEF Hang, netVars, TypeOK
    <2> QED
        BY <1>1, <2>1 DEF StillExcused, Excused
<1> QED
    BY <1>1, <1>2, <1>3, <1>4, <1>5, <1>6, <1>7 DEF Actor, Environment

\* Handlers.
LEMMA NeutralExcuses ==
    ASSUME TypeOK, Grown, NEW a \in Addr, NEW m, Next1(a, m),
           m \notin {"keep alive", "UnsubscribeMsg"}, UNCHANGED <<mute, deadLetters>>
    PROVE  StillExcused
<1>1. \A b \in Addr : Has(fromReg[b], KeepAlive) => Has(fromReg'[b], KeepAlive)
    BY GrownKeeps
<1>2. \A b \in Addr, n \in Sayings \ {m} : Has(toReg[b], n) => Has(toReg'[b], n)
    BY Next1Keeps
<1>3. "keep alive" \in Sayings \ {m} /\ "UnsubscribeMsg" \in Sayings \ {m}
    BY ExcusesSaid
<1> QED
    BY <1>1, <1>2, <1>3 DEF StillExcused, Excused

LEMMA OthersExcused ==
    ASSUME TypeOK, Grown, NEW a \in Addr, \A b \in Addr \ {a} : toReg'[b] = toReg[b],
           deadLetters \ {a} \subseteq deadLetters', UNCHANGED mute
    PROVE  \A b \in Addr \ {a} : Excused(b) => Excused(b)'
<1>1. \A b \in Addr : Has(fromReg[b], KeepAlive) => Has(fromReg'[b], KeepAlive)
    BY GrownKeeps
<1> QED
    BY <1>1 DEF Excused

\* A newcomer counts as alive.
LEMMA SubscribeExcuses ==
    ASSUME TypeOK, SilentIsExcused, NEW a \in Addr, Subscribe(a)
    PROVE  SilentIsExcused'
<1>1. /\ ident[a] \in Ids /\ Next1(a, "SubscribeMsg")
      /\ UNCHANGED <<mute, deadLetters, watchdog>>
    BY DEF TypeOK, Subscribe, actorVars
<1>2. StillExcused
    BY <1>1, SubscribeTyped, NeutralExcuses
<1>3. \/ UNCHANGED <<actor_dict, is_alive>>
      \/ /\ actor_dict' = [actor_dict EXCEPT ![ident[a]] = a]
         /\ is_alive' = [is_alive EXCEPT ![ident[a]] = TRUE]
    BY DEF Subscribe
<1>4. CASE UNCHANGED <<actor_dict, is_alive>>
    BY <1>1, <1>2, <1>4, ExcusesStand
<1>5. CASE /\ actor_dict' = [actor_dict EXCEPT ![ident[a]] = a]
           /\ is_alive' = [is_alive EXCEPT ![ident[a]] = TRUE]
    <2>1. \A id \in Ids \ {ident[a]} :
             actor_dict'[id] = actor_dict[id] /\ is_alive'[id] = is_alive[id]
        BY <1>5 DEF TypeOK
    <2>2. is_alive'[ident[a]]
        BY <1>1, <1>5 DEF TypeOK
    <2>3. ASSUME watchdog = "check", NEW id \in Ids, Registered(id)', ~is_alive'[id]
          PROVE  Excused(actor_dict[id])'
        <3>1. id # ident[a] /\ Registered(id) /\ ~is_alive[id]
            BY <2>1, <2>2, <2>3 DEF Registered
        <3>2. PICK b \in Addr : b = actor_dict[id]
            BY <3>1 DEF Registered, TypeOK
        <3>3. Excused(b)
            BY <2>3, <3>1, <3>2 DEF SilentIsExcused
        <3>4. Excused(b)' /\ actor_dict'[id] = b
            BY <1>2, <2>1, <3>1, <3>2, <3>3 DEF StillExcused
        <3> QED
            BY <3>4 DEF Excused
    <2> QED
        BY <1>1, <2>3 DEF SilentIsExcused
<1> QED
    BY <1>3, <1>4, <1>5

\* An answer counts for its id, which in the dictionary is that of its sender.
LEMMA IsAliveExcuses ==
    ASSUME TypeOK, DictsAgree, SilentIsExcused, NEW a \in Addr, IsAlive(a)
    PROVE  SilentIsExcused'
<1>1. /\ ident[a] \in Ids /\ Next1(a, "keep alive")
      /\ is_alive' = [is_alive EXCEPT ![ident[a]] = @ \/ Registered(ident[a])]
      /\ UNCHANGED <<mute, deadLetters, watchdog, actor_dict, fromReg>>
    BY DEF TypeOK, IsAlive, actorVars
<1>2. \A b \in Addr \ {a} : Excused(b) => Excused(b)'
    BY <1>1, Next1Keeps DEF Excused
<1>3. ASSUME watchdog = "check", NEW id \in Ids, Registered(id), ~is_alive'[id]
      PROVE  Excused(actor_dict[id])'
    <2>1. id # ident[a] /\ ~is_alive[id]
        BY <1>1, <1>3 DEF TypeOK
    <2>2. actor_dict[id] \in Addr \ {a}
        BY <1>3, <2>1 DEF DictsAgree, Registered, TypeOK
    <2> QED
        BY <1>1, <1>2, <1>3, <2>1, <2>2 DEF SilentIsExcused
<1> QED
    BY <1>1, <1>3 DEF SilentIsExcused, Registered

\* Whoever says good-bye leaves the dictionary.
LEMMA ForgetExcuses ==
    ASSUME TypeOK, DictsAgree, SilentIsExcused, NEW a \in Addr,
           Unsubscribe(a) \/ UnsubscribeDead(a)
    PROVE  SilentIsExcused'
<1>1. Forget(a) /\ UNCHANGED <<mute, ident, watchdog>>
    BY DEF Unsubscribe, UnsubscribeDead, actorVars
<1>2. /\ \A b \in Addr \ {a} : toReg'[b] = toReg[b]
      /\ deadLetters \ {a} \subseteq deadLetters'
    BY Next1Keeps DEF Unsubscribe, UnsubscribeDead
<1>3. \A b \in Addr \ {a} : Excused(b) => Excused(b)'
    BY <1>1, <1>2, ForgetTyped, OthersExcused
<1>4. \A id \in Ids : actor_dict'[id] # NoAddr =>
         /\ actor_dict'[id] = actor_dict[id] /\ is_alive'[id] = is_alive[id]
         /\ actor_dict[id] \in Addr \ {a}
    <2>1. CASE ~ \E id \in Ids : actor_dict[id] = a
        BY <1>1, <2>1 DEF Forget, TypeOK
    <2>2. CASE \E id \in Ids : actor_dict[id] = a
        <3> DEFINE gone == CHOOSE i \in Ids : actor_dict[i] = a
        <3>1. gone \in Ids /\ actor_dict[gone] = a
            BY <2>2
        <3>2. /\ actor_dict' = [actor_dict EXCEPT ![gone] = NoAddr]
              /\ is_alive' = [is_alive EXCEPT ![gone] = FALSE]
            BY <1>1, <2>2 DEF Forget
        <3> HIDE DEF gone
        <3>3. \A id \in Ids : actor_dict[id] = a => id = gone
            BY <3>1, AddrAssumption DEF DictsAgree, Registered
        <3> QED
            BY <3>1, <3>2, <3>3 DEF TypeOK
    <2> QED
        BY <2>1, <2>2
<1> QED
    BY <1>1, <1>3, <1>4 DEF SilentIsExcused, Registered

LEMMA HandlerExcuses ==
    ASSUME TypeOK, DictsAgree, SilentIsExcused, NEW a \in Addr, Handler(a)
    PROVE  SilentIsExcused'
<1>1. CASE Subscribe(a)
    BY <1>1, SubscribeExcuses
<1>2. CASE IsAlive(a)
    BY <1>2, IsAliveExcuses
<1>3. CASE Unsubscribe(a) \/ UnsubscribeDead(a)
    BY <1>3, ForgetExcuses
<1>4. CASE UpdateDeviceStatus(a) \/ SubscribeToActorDict(a) \/ UnSubscribeFromActorDict(a)
    <2>1. UNCHANGED <<mute, deadLetters, actor_dict, is_alive, watchdog>>
        BY <1>4 DEF UpdateDeviceStatus, SubscribeToActorDict, UnSubscribeFromActorDict, actorVars
    <2>2. PICK m \in {"UpdateDeviceStatusMsg", "SubscribeToActorDictMsg",
                      "UnSubscribeFromActorDictMsg"} : Next1(a, m)
        BY <1>4 DEF UpdateDeviceStatus, SubscribeToActorDict, UnSubscribeFromActorDict
    <2>3. m \notin {"keep alive", "UnsubscribeMsg"}
        BY <2>2
    <2>4. StillExcused
        BY <2>1, <2>2, <2>3, HandlerTyped, NeutralExcuses
    <2> QED
        BY <2>1, <2>4, ExcusesStand
<1> QED
    BY <1>1, <1>2, <1>3, <1>4 DEF Handler

\* The round asks everybody in the dictionary.
LEMMA RoundExcuses ==
    ASSUME TypeOK, KeepAliveRound
    PROVE  SilentIsExcused'
<1> DEFINE out == [a \in Addr |->
                      IF /\ \E id \in Ids : actor_dict[id] = a
                         /\ mute[a] /\ phase[a] # "gone" => KeepAlive \notin Unread(a)
                      THEN <<KeepAlive>> ELSE <<>>]
<1>1. Send(out) /\ UNCHANGED <<actor_dict, mute>>
    BY DEF KeepAliveRound, actorVars
<1>2. ASSUME NEW id \in Ids, Registered(id), ~mute[actor_dict[id]]
      PROVE  Has(fromReg'[actor_dict[id]], KeepAlive)
    <2>1. actor_dict[id] \in Addr
        BY <1>2 DEF TypeOK, Registered
    <2>2. out[actor_dict[id]] = <<KeepAlive>>
        BY <1>2, <2>1
    <2>3. fromReg'[actor_dict[id]] = fromReg[actor_dict[id]] \o <<KeepAlive>>
        <3> HIDE DEF out
        <3> QED
            BY <1>1, <2>1, <2>2 DEF Send
    <2>4. <<KeepAlive>> \in Seq(Messages) /\ Has(<<KeepAlive>>, KeepAlive)
        <3>1. KeepAlive \in Messages /\ <<>> \in Seq(Messages)
            BY MessagesExist
        <3> QED
            BY <3>1, SingletonTyped, HasFirst
    <2>5. fromReg[actor_dict[id]] \in Seq(Messages)
        BY <2>1 DEF TypeOK
    <2>6. Has(fromReg[actor_dict[id]] \o <<KeepAlive>>, KeepAlive)
        BY <2>4, <2>5, HasAppended
    <2> QED
        BY <2>3, <2>6
<1> QED
    BY <1>1, <1>2 DEF SilentIsExcused, Excused, Registered

LEMMA WatchdogExcuses ==
    ASSUME TypeOK, SilentIsExcused,
           (\E id \in Ids : ControlOff(id)) \/ KeepAliveRound \/ Check \/ GetDeviceStatuses
    PROVE  SilentIsExcused'
<1>1. CASE \E id \in Ids : ControlOff(id)
    <2>1. UNCHANGED <<mute, deadLetters, toReg, actor_dict, is_alive, watchdog>>
        BY <1>1 DEF ControlOff, regVars, actorVars
    <2>2. \A b \in Addr : Has(fromReg[b], KeepAlive) => Has(fromReg'[b], KeepAlive)
        BY <1>1, WatchdogTyped, GrownKeeps
    <2>3. StillExcused
        BY <2>1, <2>2 DEF StillExcused, Excused
    <2> QED
        BY <2>1, <2>3, ExcusesStand
<1>2. CASE KeepAliveRound
    BY <1>2, RoundExcuses
<1>3. CASE Check \/ GetDeviceStatuses
    <2>1. /\ UNCHANGED <<mute, deadLetters, toReg, fromReg, actor_dict, is_alive>>
          /\ watchdog' = "check" => watchdog = "check"
        BY <1>3 DEF Check, GetDeviceStatuses, actorVars, netVars
    <2> QED
        BY <2>1 DEF SilentIsExcused, Excused, Registered
<1> QED
    BY <1>1, <1>2, <1>3

LEMMA NextExcuses ==
    ASSUME TypeOK, DictsAgree, SilentIsExcused, [Next]_vars
    PROVE  SilentIsExcused'
<1>1. ASSUME NEW a \in Addr, Actor(a) \/ Environment(a) PROVE SilentIsExcused'
    BY <1>1, ActorExcuses, ExcusesStand
<1>2. ASSUME NEW a \in Addr, Handler(a) PROVE SilentIsExcused'
    BY <1>2, HandlerExcuses
<1>3. CASE (\E id \in Ids : ControlOff(id)) \/ KeepAliveRound \/ Check \/ GetDeviceStatuses
    BY <1>3, WatchdogExcuses
<1>4. CASE UNCHANGED vars
    BY <1>4 DEF vars, regVars, actorVars, netVars, SilentIsExcused, Excused, Registered
<1> QED
    BY <1>1, <1>2, <1>3, <1>4 DEF Next

LEMMA OnlyTheCheckAlarms ==
    ASSUME Next, stop' = "watchdog"
    PROVE  Check
<1>1. stop = "no"
    BY DEF Next, Running
<1>2. ASSUME NEW a \in Addr, Actor(a) \/ Environment(a) PROVE FALSE
    BY <1>1, <1>2 DEF Actor, Environment, ReceiveFromReg, LastChildExited, DeadEnvelope,
                      CreateDevice, CreateService, ControlOn, Create, Remove, Hang, Shutdown,
                      regVars
<1>3. ASSUME NEW a \in Addr, Handler(a) PROVE FALSE
    BY <1>1, <1>3 DEF Handler, Subscribe, IsAlive, UpdateDeviceStatus, SubscribeToActorDict,
                      UnSubscribeFromActorDict, Unsubscribe, UnsubscribeDead, Forget, Shutdown
<1>4. CASE (\E id \in Ids : ControlOff(id)) \/ KeepAliveRound \/ GetDeviceStatuses
    BY <1>1, <1>4 DEF ControlOff, KeepAliveRound, GetDeviceStatuses, Shutdown, regVars
<1> QED
    BY <1>2, <1>3, <1>4 DEF Next

\* Whom the check finds silent is mute, since nothing is under way any more.
LEMMA CheckIsRight ==
    ASSUME TypeOK, DictsAgree, SilentIsExcused, Check, stop = "no", stop' = "watchdog"
    PROVE  \E a \in Addr : mute[a] /\ ident[a][2] # "IS1"
<1>1. PICK id \in Ids : Registered(id) /\ ~is_alive[id] /\ id[2] # "IS1"
    BY DEF Check
<1>2. actor_dict[id] \in Addr /\ ident[actor_dict[id]] = id
    BY <1>1 DEF DictsAgree, Registered, TypeOK
<1>3. Excused(actor_dict[id]) /\ Answered
    BY <1>1 DEF Check, SilentIsExcused
<1>4. ~Has(<<>>, "keep alive") /\ ~Has(<<>>, "UnsubscribeMsg") /\ ~Has(<<>>, KeepAlive)
    BY DEF Has
<1>5. mute[actor_dict[id]]
    BY <1>2, <1>3, <1>4 DEF Excused, Answered
<1> QED
    BY <1>1, <1>2, <1>5

LEMMA NextAlarms ==
    ASSUME TypeOK, DictsAgree, SilentIsExcused, NoFalseAlarm, [Next]_vars
    PROVE  NoFalseAlarm'
<1>1. CASE UNCHANGED vars
    BY <1>1 DEF vars, regVars, actorVars, NoFalseAlarm
<1>2. ASSUME Next, stop' = "watchdog" PROVE \E a \in Addr : mute'[a] /\ ident'[a][2] # "IS1"
    <2>1. Check /\ stop = "no"
        BY <1>2, OnlyTheCheckAlarms DEF Next, Running
    <2>2. UNCHANGED <<mute, ident>>
        BY <2>1 DEF Check, actorVars
    <2> QED
        BY <1>2, <2>1, <2>2, CheckIsRight
<1> QED
    BY <1>1, <1>2 DEF NoFalseAlarm

\* The watchdog shuts the server down for a process that hangs or died only, never
\* for an actor that is slow, is being replaced, is on its way out or has just come,
\* although it keeps its books by id and the answers come from addresses.
THEOREM WatchdogIsRight == Spec => []NoFalseAlarm
<1>1. Init => SilentIsExcused /\ NoFalseAlarm
    BY DEF Init, SilentIsExcused, NoFalseAlarm
<1>2. TypeOK /\ DictsAgree /\ SilentIsExcused /\ NoFalseAlarm /\ [Next]_vars
          => SilentIsExcused' /\ NoFalseAlarm'
    BY NextExcuses, NextAlarms
<1> QED
    BY <1>1, <1>2, TypeCorrect, DictionariesAgree, PTL DEF Spec
-----------------------------------------------------------------------------
(* Arrivals and departures.  Between an arrival and its end an actor is in    *)
(* the dictionary, or its subscription is still under way, or it is doomed:    *)
(* told to go, on its way out, or mute.  This is what is left of "every actor *)
(* is in the dictionary" while messages are under way.                         *)

Told(a) == Has(fromReg[a], Kill(TRUE)) \/ Has(fromReg[a], Kill(FALSE))
Leaving(a) == phase[a] \in {"dying", "gone"}
Doomed(a) == mute[a] \/ Leaving(a) \/ Told(a)
Arrives(a) == Has(toReg[a], "SubscribeMsg")
InDictionary(a) == actor_dict[ident[a]] = a
OnlyFirst(s, e) == \A i \in 1..Len(s) : s[i] = e => i = 1

\* An actor subscribes once, before it says anything else; who is refused is not
\* in the dictionary.
ArrivesOnce(a) ==
    /\ phase[a] = "unused" => toReg[a] = <<>>
    /\ OnlyFirst(toReg[a], "SubscribeMsg")
    /\ InDictionary(a) => ~Arrives(a) /\ phase[a] # "unused"
    /\ Has(fromReg[a], Kill(FALSE)) => ~InDictionary(a) /\ ~Arrives(a) /\ phase[a] # "unused"

\* Who has gone has said so, or its dead letters will, unless nobody knows it.
SaysGoodBye(a) ==
    /\ Has(toReg[a], "UnsubscribeMsg") \/ a \in deadLetters => phase[a] = "gone"
    /\ Has(toReg[a], "UnSubscribeFromActorDictMsg") => Leaving(a)
    /\ phase[a] = "gone" /\ ~mute[a] /\ Arrives(a) => Has(toReg[a], "UnsubscribeMsg")
    /\ phase[a] = "gone" /\ ~mute[a] /\ InDictionary(a)
          => Has(toReg[a], "UnsubscribeMsg") \/ a \in deadLetters

Placed(a) ==
    stop = "no" /\ phase[a] = "run" => InDictionary(a) \/ Arrives(a) \/ Doomed(a)

\* The inductive invariant.
Presence(a) == ArrivesOnce(a) /\ SaysGoodBye(a) /\ Placed(a)
AllPresent == \A a \in Addr : Presence(a)

\* Mailboxes.
LEMMA HasConcat ==
    ASSUME NEW S, NEW s \in Seq(S), NEW t \in Seq(S), NEW e
    PROVE  Has(s \o t, e) <=> Has(s, e) \/ Has(t, e)
<1>1. /\ s \o t \in Seq(S) /\ Len(s \o t) = Len(s) + Len(t)
      /\ \A i \in 1..Len(s \o t) : (s \o t)[i] = IF i <= Len(s) THEN s[i] ELSE t[i - Len(s)]
      /\ Len(s) \in Nat /\ Len(t) \in Nat
    BY ConcatProperties, LenProperties
<1>2. ASSUME NEW i \in 1..Len(s \o t), (s \o t)[i] = e PROVE Has(s, e) \/ Has(t, e)
    <2>1. CASE i <= Len(s)
        <3>1. i \in 1..Len(s) /\ s[i] = e
            BY <1>1, <1>2, <2>1
        <3> QED
            BY <3>1 DEF Has
    <2>2. CASE ~(i <= Len(s))
        <3>1. i - Len(s) \in 1..Len(t) /\ t[i - Len(s)] = e
            BY <1>1, <1>2, <2>2
        <3> QED
            BY <3>1 DEF Has
    <2> QED
        BY <2>1, <2>2
<1>3. Has(s \o t, e) => Has(s, e) \/ Has(t, e)
    BY <1>2 DEF Has
<1> QED
    BY <1>3, HasAppended

LEMMA HasShort ==
    ASSUME NEW e
    PROVE  /\ ~Has(<<>>, e)
           /\ \A f : Has(<<f>>, e) <=> f = e
           /\ \A f, g : Has(<<f, g>>, e) <=> f = e \/ g = e
<1>1. ASSUME NEW f PROVE Has(<<f>>, e) <=> f = e
    <2>1. Len(<<f>>) = 1 /\ <<f>>[1] = f
        OBVIOUS
    <2> QED
        BY <2>1 DEF Has
<1>2. ASSUME NEW f, NEW g PROVE Has(<<f, g>>, e) <=> f = e \/ g = e
    <2>1. Len(<<f, g>>) = 2 /\ <<f, g>>[1] = f /\ <<f, g>>[2] = g
        OBVIOUS
    <2> QED
        BY <2>1 DEF Has
<1> QED
    BY <1>1, <1>2 DEF Has

LEMMA HasTail ==
    ASSUME NEW S, NEW s \in Seq(S), s # <<>>, NEW e
    PROVE  Has(s, e) <=> Head(s) = e \/ Has(Tail(s), e)
<1>1. /\ Head(s) = s[1] /\ Len(Tail(s)) = Len(s) - 1
      /\ \A j \in 1..Len(Tail(s)) : Tail(s)[j] = s[j + 1]
      /\ Len(s) \in Nat /\ Len(s) >= 1
    BY HeadTailProperties, LenProperties, EmptySeq
<1>2. ASSUME NEW i \in 1..Len(Tail(s)), Tail(s)[i] = e PROVE Has(s, e)
    <2>1. i + 1 \in 1..Len(s) /\ s[i + 1] = e
        BY <1>1, <1>2
    <2> QED
        BY <2>1 DEF Has
<1>3. Head(s) = e => Has(s, e)
    BY <1>1 DEF Has
<1> QED
    BY <1>2, <1>3, HasInTail DEF Has

LEMMA OnlyFirstKeeps ==
    ASSUME NEW S, NEW s \in Seq(S), NEW e, OnlyFirst(s, e)
    PROVE  /\ \A t \in Seq(S) : ~Has(t, e) => OnlyFirst(s \o t, e)
           /\ s # <<>> => ~Has(Tail(s), e)
<1>1. ASSUME NEW t \in Seq(S), ~Has(t, e), NEW i \in 1..Len(s \o t), (s \o t)[i] = e
      PROVE  i = 1
    <2>1. /\ Len(s \o t) = Len(s) + Len(t) /\ Len(s) \in Nat /\ Len(t) \in Nat
          /\ (s \o t)[i] = IF i <= Len(s) THEN s[i] ELSE t[i - Len(s)]
        BY ConcatProperties, LenProperties
    <2>2. CASE i <= Len(s)
        BY <1>1, <2>1, <2>2 DEF OnlyFirst
    <2>3. CASE ~(i <= Len(s))
        <3>1. i - Len(s) \in 1..Len(t) /\ t[i - Len(s)] = e
            BY <1>1, <2>1, <2>3
        <3> QED
            BY <1>1, <3>1 DEF Has
    <2> QED
        BY <2>2, <2>3
<1>2. ASSUME s # <<>>, NEW i \in 1..Len(Tail(s)), Tail(s)[i] = e PROVE FALSE
    <2>1. /\ Len(Tail(s)) = Len(s) - 1 /\ Tail(s)[i] = s[i + 1] /\ Len(s) \in Nat
        BY <1>2, HeadTailProperties, LenProperties
    <2>2. i + 1 \in 1..Len(s) /\ i + 1 # 1
        BY <1>2, <2>1
    <2> QED
        BY <1>2, <2>1, <2>2 DEF OnlyFirst
<1> QED
    BY <1>1, <1>2 DEF OnlyFirst, Has

\* What an actor does leaves the others alone.
Elsewhere(a) ==
    /\ \A b \in Addr \ {a} :
          /\ phase'[b] = phase[b] /\ mute'[b] = mute[b] /\ view'[b] = view[b]
          /\ toReg'[b] = toReg[b] /\ fromReg'[b] = fromReg[b]
          /\ b \in deadLetters' <=> b \in deadLetters
    /\ UNCHANGED <<actor_dict, get_updates, is_alive, device_statuses, watchdog, ident>>
    /\ stop' = "no" => stop = "no"

Read(a) == fromReg[a] # <<>> /\ fromReg' = [fromReg EXCEPT ![a] = Tail(@)]
Remains(a) == phase'[a] = phase[a] /\ mute'[a] = mute[a] /\ deadLetters' = deadLetters
SaysHello(a) ==
    /\ phase[a] = "unused" /\ phase'[a] = "run" /\ mute' = mute
    /\ UNCHANGED <<fromReg, deadLetters, view>>
    /\ \/ IsDevice(ident[a]) /\ Say(a, <<"SubscribeMsg">>)
       \/ ~IsDevice(ident[a]) /\ Say(a, <<"SubscribeMsg", "SubscribeToActorDictMsg">>)
Departs(a) ==
    /\ phase[a] \in {"run", "dying"} /\ Leaving(a)' /\ mute' = mute
    /\ UNCHANGED <<deadLetters, view>>
    /\ UNCHANGED fromReg \/ Read(a)
    /\ \E messages \in Seq(Sayings) :
          /\ Say(a, messages) /\ ~Has(messages, "SubscribeMsg")
          /\ Has(messages, "UnsubscribeMsg") => phase'[a] = "gone"
          /\ phase'[a] = "gone" =>
                Has(messages, "UnsubscribeMsg") \/ Has(fromReg[a], Kill(FALSE))
Hangs(a) ==
    /\ UNCHANGED netVars /\ view' = view /\ mute'[a]
    /\ \/ phase'[a] = phase[a]
       \/ phase[a] # "unused" /\ phase'[a] = "gone"
Answers(a) ==
    /\ phase[a] \in {"run", "dying"} /\ Remains(a)
    /\ Read(a) /\ Head(fromReg[a]).type # "KillMsg"
    /\ \/ UNCHANGED toReg
       \/ Say(a, <<"keep alive">>) \/ Say(a, <<"UpdateDeviceStatusMsg">>)
    /\ view'[a] = IF Head(fromReg[a]).type = "UpdateActorDictMsg"
                  THEN Head(fromReg[a]).instruments ELSE view[a]
Returns(a) ==
    /\ phase[a] = "gone" /\ Read(a)
    /\ deadLetters' \in {deadLetters, deadLetters \cup {a}}
    /\ UNCHANGED <<phase, mute, toReg, view>>

LEMMA DiesDeparts ==
    ASSUME TypeOK, NEW a \in Addr, NEW register \in BOOLEAN, NEW children \in BOOLEAN,
           NEW rest \in Seq(Sayings), ~Has(rest, "SubscribeMsg"), ~Has(rest, "UnsubscribeMsg"),
           phase[a] \in {"run", "dying"}, Dies(a, register, children, rest)
    PROVE  /\ Leaving(a)'
           /\ \A b \in Addr \ {a} : phase'[b] = phase[b]
           /\ \E messages \in Seq(Sayings) :
                 /\ Say(a, messages) /\ ~Has(messages, "SubscribeMsg")
                 /\ Has(messages, "UnsubscribeMsg") => phase'[a] = "gone"
                 /\ phase'[a] = "gone" => Has(messages, "UnsubscribeMsg") \/ ~register
<1> DEFINE last == IF ~children /\ register THEN <<"UnsubscribeMsg">> ELSE <<>>
<1>1. last \in Seq(Sayings) /\ <<"keep alive">> \in Seq(Sayings)
    BY ExcusesSaid, SayingsExist
<1>2. /\ ~Has(<<"keep alive">>, "SubscribeMsg") /\ ~Has(<<"keep alive">>, "UnsubscribeMsg")
      /\ ~Has(last, "SubscribeMsg")
      /\ Has(last, "UnsubscribeMsg") <=> ~children /\ register
    BY HasShort
<1>3. CASE phase[a] = "dying"
    BY <1>1, <1>2, <1>3 DEF Dies, Leaving
<1>4. CASE phase[a] # "dying"
    <2>1. /\ phase' = [phase EXCEPT ![a] = IF children THEN "dying" ELSE "gone"]
          /\ Say(a, <<"keep alive">> \o rest \o last)
        BY <1>4 DEF Dies
    <2> HIDE DEF last
    <2>2. /\ <<"keep alive">> \o rest \in Seq(Sayings)
          /\ <<"keep alive">> \o rest \o last \in Seq(Sayings)
        BY <1>1, ConcatProperties
    <2>3. ASSUME NEW m
          PROVE  Has(<<"keep alive">> \o rest \o last, m)
                    <=> Has(<<"keep alive">>, m) \/ Has(rest, m) \/ Has(last, m)
        <3>1. Has(<<"keep alive">> \o rest, m) <=> Has(<<"keep alive">>, m) \/ Has(rest, m)
            BY <1>1, HasConcat
        <3> DEFINE start == <<"keep alive">> \o rest
        <3>2. start \in Seq(Sayings)
            BY <2>2
        <3> HIDE DEF start
        <3>3. Has(start \o last, m) <=> Has(start, m) \/ Has(last, m)
            BY <1>1, <3>2, HasConcat
        <3> QED
            BY <3>1, <3>3 DEF start
    <2>4. /\ Leaving(a)' /\ \A b \in Addr \ {a} : phase'[b] = phase[b]
          /\ phase'[a] = "gone" <=> ~children
        BY <2>1 DEF TypeOK, Leaving
    <2> QED
        BY <1>2, <2>1, <2>2, <2>3, <2>4
<1> QED
    BY <1>3, <1>4

LEMMA KillIs ==
    ASSUME NEW m \in Messages, m.type = "KillMsg"
    PROVE  m.register \in BOOLEAN /\ m = Kill(m.register)
BY DEF Messages, Kill

LEMMA SpeaksAlone ==
    ASSUME TypeOK, NEW a \in Addr, NEW messages \in Seq(Sayings), Say(a, messages)
    PROVE  \A b \in Addr \ {a} : toReg'[b] = toReg[b]
BY DEF TypeOK, Say

LEMMA ReadsAlone ==
    ASSUME TypeOK, NEW a \in Addr, Read(a)
    PROVE  \A b \in Addr \ {a} : fromReg'[b] = fromReg[b]
BY DEF TypeOK, Read

LEMMA ReceiveEffect ==
    ASSUME TypeOK, NEW a \in Addr, ReceiveFromReg(a)
    PROVE  Elsewhere(a) /\ (Departs(a) \/ Answers(a))
<1> DEFINE m == Head(fromReg[a])
<1>1. /\ m \in Messages /\ Read(a) /\ phase[a] \in {"run", "dying"}
      /\ UNCHANGED <<regVars, ident, mute, deadLetters>>
    BY HeadTyped DEF ReceiveFromReg, Read, Acting
<1>2. \A b \in Addr \ {a} : fromReg'[b] = fromReg[b]
    BY <1>1, ReadsAlone
<1>3. CASE m.type = "KillMsg"
    <2>1. /\ Leaves(a) \in Seq(Sayings) /\ m.register \in BOOLEAN
          /\ ~Has(Leaves(a), "SubscribeMsg") /\ ~Has(Leaves(a), "UnsubscribeMsg")
        <3>1. "UnSubscribeFromActorDictMsg" \in Sayings
            BY DEF Sayings
        <3> QED
            BY <1>1, <1>3, <3>1, SayingsExist, KillIs, HasShort DEF Leaves
    <2>2. PICK children \in BOOLEAN : Dies(a, m.register, children, Leaves(a)) /\ view' = view
        BY <1>3 DEF ReceiveFromReg
    <2>3. ~m.register => Has(fromReg[a], Kill(FALSE))
        <3>1. fromReg[a] \in Seq(Messages) /\ fromReg[a] # <<>>
            BY <1>1 DEF TypeOK, Read
        <3>2. Has(fromReg[a], m)
            BY <3>1, HasTail
        <3>3. ~m.register => m = Kill(FALSE)
            BY <1>1, <1>3, KillIs
        <3> QED
            BY <3>2, <3>3
    <2> HIDE DEF m
    <2>4. /\ Leaving(a)'
          /\ \A b \in Addr \ {a} : phase'[b] = phase[b]
          /\ \E messages \in Seq(Sayings) :
                 /\ Say(a, messages) /\ ~Has(messages, "SubscribeMsg")
                 /\ Has(messages, "UnsubscribeMsg") => phase'[a] = "gone"
                 /\ phase'[a] = "gone" => Has(messages, "UnsubscribeMsg") \/ ~m.register
        BY <1>1, <2>1, <2>2, DiesDeparts
    <2>5. \A b \in Addr \ {a} : toReg'[b] = toReg[b]
        BY <2>4, SpeaksAlone
    <2>6. Departs(a)
        BY <1>1, <2>2, <2>3, <2>4 DEF Departs
    <2>7. Elsewhere(a)
        BY <1>1, <1>2, <2>2, <2>4, <2>5 DEF Elsewhere, regVars
    <2> QED
        BY <2>6, <2>7
<1>4. CASE m.type # "KillMsg"
    <2>1. m.type \in {"KeepAliveMsg", "SubscribeToDeviceStatusMsg", "UpdateActorDictMsg"}
        BY <1>1, <1>4 DEF Messages
    <2>2. /\ phase' = phase
          /\ UNCHANGED toReg \/ Say(a, <<"keep alive">>) \/ Say(a, <<"UpdateDeviceStatusMsg">>)
          /\ view' = IF m.type = "UpdateActorDictMsg"
                     THEN [view EXCEPT ![a] = m.instruments] ELSE view
        BY <2>1 DEF ReceiveFromReg
    <2>3. \A b \in Addr \ {a} : toReg'[b] = toReg[b]
        <3>1. <<"keep alive">> \in Seq(Sayings) /\ <<"UpdateDeviceStatusMsg">> \in Seq(Sayings)
            BY DEF Sayings
        <3> QED
            BY <2>2, <3>1, SpeaksAlone
    <2>4. /\ \A b \in Addr \ {a} : view'[b] = view[b]
          /\ view'[a] = IF m.type = "UpdateActorDictMsg" THEN m.instruments ELSE view[a]
        BY <2>2 DEF TypeOK
    <2>5. Answers(a)
        BY <1>1, <1>4, <2>2, <2>4 DEF Answers, Remains
    <2>6. Elsewhere(a)
        BY <1>1, <1>2, <2>2, <2>3, <2>4 DEF Elsewhere, regVars
    <2> QED
        BY <2>5, <2>6
<1> QED
    BY <1>3, <1>4

LEMMA CreateEffect ==
    ASSUME TypeOK, NEW a \in Addr, Create(a)
    PROVE  Elsewhere(a) /\ SaysHello(a)
<1>1. /\ <<"SubscribeMsg">> \in Seq(Sayings)
      /\ <<"SubscribeMsg", "SubscribeToActorDictMsg">> \in Seq(Sayings)
    <2>1. "SubscribeMsg" \in Sayings /\ "SubscribeToActorDictMsg" \in Sayings
        BY DEF Sayings
    <2> QED
        BY <2>1, SayingsExist
<1>2. /\ UNCHANGED <<regVars, ident, mute, view, fromReg, deadLetters>>
      /\ \/ IsDevice(ident[a]) /\ Say(a, <<"SubscribeMsg">>)
         \/ ~IsDevice(ident[a]) /\ Say(a, <<"SubscribeMsg", "SubscribeToActorDictMsg">>)
      /\ phase[a] = "unused" /\ phase' = [phase EXCEPT ![a] = "run"]
    BY DEF Create
<1>3. \A b \in Addr \ {a} : toReg'[b] = toReg[b] /\ phase'[b] = phase[b]
    BY <1>1, <1>2, SpeaksAlone DEF TypeOK
<1>4. SaysHello(a)
    BY <1>2 DEF SaysHello, TypeOK
<1>5. Elsewhere(a)
    BY <1>2, <1>3 DEF Elsewhere, regVars
<1> QED
    BY <1>4, <1>5

\* Every step of an actor is one of these.
LEMMA ActorEffect ==
    ASSUME TypeOK, NEW a \in Addr, Actor(a) \/ Environment(a)
    PROVE  /\ Elsewhere(a)
           /\ SaysHello(a) \/ Departs(a) \/ Hangs(a) \/ Answers(a) \/ Returns(a)
<1>1. CASE ReceiveFromReg(a)
    BY <1>1, ReceiveEffect
<1>2. CASE CreateDevice(a) \/ CreateService(a) \/ ControlOn(a)
    BY <1>2, CreateEffect DEF CreateDevice, CreateService, ControlOn
<1>3. CASE LastChildExited(a)
    <2>1. /\ <<"UnsubscribeMsg">> \in Seq(Sayings) /\ ~Has(<<"UnsubscribeMsg">>, "SubscribeMsg")
          /\ Has(<<"UnsubscribeMsg">>, "UnsubscribeMsg")
        BY ExcusesSaid, SayingsExist, HasShort
    <2>2. /\ UNCHANGED <<regVars, ident, mute, view, fromReg, deadLetters>>
          /\ Say(a, <<"UnsubscribeMsg">>) /\ phase[a] = "dying" /\ phase'[a] = "gone"
          /\ \A b \in Addr \ {a} : phase'[b] = phase[b]
        BY <1>3 DEF LastChildExited, TypeOK
    <2>3. Elsewhere(a)
        BY <2>1, <2>2, SpeaksAlone DEF Elsewhere, regVars
    <2>4. Departs(a)
        BY <2>1, <2>2 DEF Departs, Leaving
    <2> QED
        BY <2>3, <2>4
<1>4. CASE Remove(a)
    <2>1. PICK children \in BOOLEAN : Dies(a, TRUE, children, <<>>)
        BY <1>4 DEF Remove
    <2>2. /\ <<>> \in Seq(Sayings) /\ ~Has(<<>>, "SubscribeMsg") /\ ~Has(<<>>, "UnsubscribeMsg")
          /\ phase[a] \in {"run", "dying"}
        BY <1>4, HasShort DEF Remove
    <2>3. /\ Leaving(a)' /\ \A b \in Addr \ {a} : phase'[b] = phase[b]
          /\ \E messages \in Seq(Sayings) :
                 /\ Say(a, messages) /\ ~Has(messages, "SubscribeMsg")
                 /\ Has(messages, "UnsubscribeMsg") => phase'[a] = "gone"
                 /\ phase'[a] = "gone" => Has(messages, "UnsubscribeMsg")
        BY <2>1, <2>2, DiesDeparts
    <2>4. Elsewhere(a)
        BY <1>4, <2>3, SpeaksAlone DEF Remove, Elsewhere, regVars
    <2>5. Departs(a)
        BY <1>4, <2>2, <2>3 DEF Departs, Remove
    <2> QED
        BY <2>4, <2>5
<1>5. CASE Hang(a)
    <2>1. /\ UNCHANGED <<regVars, netVars, ident, view>>
          /\ phase[a] # "unused" /\ mute' = [mute EXCEPT ![a] = TRUE]
          /\ phase' = phase \/ phase' = [phase EXCEPT ![a] = "gone"]
        BY <1>5 DEF Hang, Acting
    <2>2. \A b \in Addr \ {a} : phase'[b] = phase[b] /\ mute'[b] = mute[b]
        BY <2>1 DEF TypeOK
    <2>3. Elsewhere(a)
        BY <2>1, <2>2 DEF Elsewhere, regVars, netVars
    <2>4. Hangs(a)
        BY <2>1 DEF Hangs, TypeOK
    <2> QED
        BY <2>3, <2>4
<1>6. CASE DeadEnvelope(a)
    <2>1. /\ Read(a) /\ deadLetters' \in {deadLetters, deadLetters \cup {a}}
          /\ stop' = "no" => stop = "no"
        BY <1>6 DEF DeadEnvelope, Read, Shutdown, Running
    <2>2. Elsewhere(a)
        BY <1>6, <2>1, ReadsAlone DEF Elsewhere, DeadEnvelope, actorVars
    <2>3. Returns(a)
        BY <1>6, <2>1 DEF Returns, DeadEnvelope, actorVars
    <2> QED
        BY <2>2, <2>3
<1> QED
    BY <1>1, <1>2, <1>3, <1>4, <1>5, <1>6 DEF Actor, Environment


\* A mailbox that is read loses its head only.
LEMMA ReadHas ==
    ASSUME TypeOK, NEW a \in Addr, Read(a)
    PROVE  /\ \A m : Has(fromReg'[a], m) => Has(fromReg[a], m)
           /\ \A m : Has(fromReg[a], m) => m = Head(fromReg[a]) \/ Has(fromReg'[a], m)
<1>1. /\ fromReg[a] \in Seq(Messages) /\ fromReg[a] # <<>>
      /\ fromReg'[a] = Tail(fromReg[a])
    BY DEF TypeOK, Read
<1> QED
    BY <1>1, HasTail

LEMMA SayHas ==
    ASSUME TypeOK, NEW a \in Addr, NEW messages \in Seq(Sayings), Say(a, messages)
    PROVE  /\ toReg'[a] = toReg[a] \o messages
           /\ \A m : Has(toReg'[a], m) <=> Has(toReg[a], m) \/ Has(messages, m)
<1>1. toReg'[a] = toReg[a] \o messages /\ toReg[a] \in Seq(Sayings)
    BY DEF TypeOK, Say
<1> QED
    BY <1>1, HasConcat

\* Who is doomed stays doomed.
LEMMA ActorDooms ==
    ASSUME TypeOK, NEW a \in Addr, Actor(a) \/ Environment(a)
    PROVE  \A b \in Addr : Doomed(b) => Doomed(b)'
<1>1. /\ Elsewhere(a)
      /\ SaysHello(a) \/ Departs(a) \/ Hangs(a) \/ Answers(a) \/ Returns(a)
    BY ActorEffect
<1>2. \A b \in Addr \ {a} : Doomed(b) => Doomed(b)'
    BY <1>1 DEF Elsewhere, Doomed, Leaving, Told
<1>3. Doomed(a) => Doomed(a)'
    <2>1. CASE SaysHello(a)
        BY <2>1 DEF SaysHello, Doomed, Leaving, Told
    <2>2. CASE Departs(a)
        BY <2>2 DEF Departs, Doomed
    <2>3. CASE Hangs(a)
        BY <2>3 DEF Hangs, Doomed
    <2>4. CASE Answers(a)
        <3>1. Head(fromReg[a]) # Kill(TRUE) /\ Head(fromReg[a]) # Kill(FALSE) /\ Read(a)
            <4>1. Kill(TRUE).type = "KillMsg" /\ Kill(FALSE).type = "KillMsg"
                BY DEF Kill
            <4> QED
                BY <2>4, <4>1 DEF Answers
        <3>2. Told(a) => Told(a)'
            BY <3>1, ReadHas DEF Told
        <3> QED
            BY <2>4, <3>2 DEF Answers, Remains, Doomed, Leaving
    <2>5. CASE Returns(a)
        BY <2>5 DEF Returns, Doomed, Leaving
    <2> QED
        BY <1>1, <2>1, <2>2, <2>3, <2>4, <2>5
<1> QED
    BY <1>2, <1>3

LEMMA HelloPresent ==
    ASSUME TypeOK, NEW a \in Addr, Presence(a), Elsewhere(a), SaysHello(a)
    PROVE  Presence(a)'
<1>1. PICK messages \in Seq(Sayings) :
         /\ Say(a, messages)
         /\ \/ messages = <<"SubscribeMsg">>
            \/ messages = <<"SubscribeMsg", "SubscribeToActorDictMsg">>
    <2>1. "SubscribeMsg" \in Sayings /\ "SubscribeToActorDictMsg" \in Sayings
        BY DEF Sayings
    <2> QED
        BY <2>1, SayingsExist DEF SaysHello
<1>2. /\ Has(messages, "SubscribeMsg") /\ ~Has(messages, "UnsubscribeMsg")
      /\ ~Has(messages, "UnSubscribeFromActorDictMsg") /\ OnlyFirst(messages, "SubscribeMsg")
    <2>1. OnlyFirst(messages, "SubscribeMsg")
        BY <1>1 DEF OnlyFirst
    <2>2. CASE messages = <<"SubscribeMsg">>
        BY <2>1, <2>2, HasShort
    <2>3. CASE messages = <<"SubscribeMsg", "SubscribeToActorDictMsg">>
        BY <2>1, <2>3, HasShort
    <2> QED
        BY <1>1, <2>2, <2>3
<1>3. toReg[a] = <<>> /\ ~InDictionary(a) /\ ~Has(fromReg[a], Kill(FALSE))
    BY DEF SaysHello, Presence, ArrivesOnce
<1>4. toReg'[a] = messages
    <2>1. toReg'[a] = toReg[a] \o messages
        BY <1>1, SayHas
    <2> QED
        BY <1>3, <2>1, ConcatEmptySeq
<1>5. /\ phase[a] = "unused" /\ phase'[a] = "run" /\ mute' = mute
      /\ UNCHANGED <<fromReg, deadLetters, actor_dict, ident>>
    BY DEF SaysHello, Elsewhere
<1>6. ArrivesOnce(a)'
    BY <1>2, <1>3, <1>4, <1>5 DEF ArrivesOnce, InDictionary, Arrives
<1>7. SaysGoodBye(a)'
    BY <1>2, <1>3, <1>4, <1>5, HasShort DEF Presence, SaysGoodBye
<1>8. Placed(a)'
    BY <1>2, <1>4 DEF Placed, Arrives
<1> QED
    BY <1>6, <1>7, <1>8 DEF Presence

LEMMA DepartsPresent ==
    ASSUME TypeOK, NEW a \in Addr, Presence(a), Elsewhere(a), Departs(a)
    PROVE  Presence(a)'
<1>1. PICK messages \in Seq(Sayings) :
          /\ Say(a, messages) /\ ~Has(messages, "SubscribeMsg")
          /\ Has(messages, "UnsubscribeMsg") => phase'[a] = "gone"
          /\ phase'[a] = "gone" =>
                Has(messages, "UnsubscribeMsg") \/ Has(fromReg[a], Kill(FALSE))
    BY DEF Departs
<1>2. /\ phase[a] \in {"run", "dying"} /\ phase'[a] \in {"dying", "gone"} /\ mute' = mute
      /\ UNCHANGED <<deadLetters, actor_dict, ident>>
    BY DEF Departs, Leaving, Elsewhere
<1>3. \A m : Has(toReg'[a], m) <=> Has(toReg[a], m) \/ Has(messages, m)
    BY <1>1, SayHas
<1>4. Has(fromReg'[a], Kill(FALSE)) => Has(fromReg[a], Kill(FALSE))
    BY ReadHas DEF Departs
<1>5. OnlyFirst(toReg'[a], "SubscribeMsg")
    <2>1. toReg'[a] = toReg[a] \o messages /\ toReg[a] \in Seq(Sayings)
        BY <1>1, SayHas DEF TypeOK
    <2> QED
        BY <1>1, <2>1, OnlyFirstKeeps DEF Presence, ArrivesOnce
<1>6. ArrivesOnce(a)'
    BY <1>1, <1>2, <1>3, <1>4, <1>5 DEF Presence, ArrivesOnce, InDictionary, Arrives
<1>7. SaysGoodBye(a)'
    BY <1>1, <1>2, <1>3 DEF Presence, ArrivesOnce, SaysGoodBye, InDictionary, Arrives, Leaving
<1>8. Placed(a)'
    BY <1>2 DEF Placed
<1> QED
    BY <1>6, <1>7, <1>8 DEF Presence

LEMMA AnswersPresent ==
    ASSUME TypeOK, NEW a \in Addr, Presence(a), Elsewhere(a), Answers(a),
           Doomed(a) => Doomed(a)'
    PROVE  Presence(a)'
<1>1. /\ phase[a] \in {"run", "dying"} /\ phase'[a] = phase[a] /\ mute'[a] = mute[a]
      /\ UNCHANGED <<deadLetters, actor_dict, ident>> /\ (stop' = "no" => stop = "no")
    BY DEF Answers, Remains, Elsewhere
<1>2. Has(fromReg'[a], Kill(FALSE)) => Has(fromReg[a], Kill(FALSE))
    BY ReadHas DEF Answers
<1>3. /\ OnlyFirst(toReg'[a], "SubscribeMsg")
      /\ \A m \in {"SubscribeMsg", "UnsubscribeMsg", "UnSubscribeFromActorDictMsg"} :
             Has(toReg'[a], m) <=> Has(toReg[a], m)
    <2>1. CASE UNCHANGED toReg
        BY <2>1 DEF Presence, ArrivesOnce
    <2>2. ASSUME NEW m \in {"keep alive", "UpdateDeviceStatusMsg"}, Say(a, <<m>>)
          PROVE  /\ OnlyFirst(toReg'[a], "SubscribeMsg")
                 /\ \A n : Has(toReg'[a], n) <=> Has(toReg[a], n) \/ n = m
        <3>1. <<m>> \in Seq(Sayings) /\ toReg[a] \in Seq(Sayings)
            BY SayingsExist DEF Sayings, TypeOK
        <3>2. ~Has(<<m>>, "SubscribeMsg") /\ \A n : Has(<<m>>, n) <=> m = n
            BY HasShort
        <3>3. /\ toReg'[a] = toReg[a] \o <<m>>
              /\ \A n : Has(toReg'[a], n) <=> Has(toReg[a], n) \/ Has(<<m>>, n)
            BY <2>2, <3>1, SayHas
        <3>4. OnlyFirst(toReg'[a], "SubscribeMsg")
            BY <3>1, <3>2, <3>3, OnlyFirstKeeps DEF Presence, ArrivesOnce
        <3> QED
            BY <3>2, <3>3, <3>4
    <2> QED
        BY <2>1, <2>2 DEF Answers
<1>4. ArrivesOnce(a)'
    BY <1>1, <1>2, <1>3 DEF Presence, ArrivesOnce, InDictionary, Arrives
<1>5. SaysGoodBye(a)'
    BY <1>1, <1>3 DEF Presence, SaysGoodBye, InDictionary, Arrives, Leaving
<1>6. Placed(a)'
    BY <1>1, <1>3 DEF Presence, Placed, InDictionary, Arrives
<1> QED
    BY <1>4, <1>5, <1>6 DEF Presence

LEMMA HangsPresent ==
    ASSUME TypeOK, NEW a \in Addr, Presence(a), Elsewhere(a), Hangs(a)
    PROVE  Presence(a)'
<1>1. UNCHANGED <<toReg, fromReg, deadLetters, actor_dict, ident>> /\ mute'[a]
    BY DEF Hangs, netVars, Elsewhere
<1> QED
    BY <1>1 DEF Hangs, Presence, ArrivesOnce, SaysGoodBye, Placed, InDictionary, Arrives,
                Leaving, Doomed, Told

LEMMA ReturnsPresent ==
    ASSUME TypeOK, NEW a \in Addr, Presence(a), Elsewhere(a), Returns(a)
    PROVE  Presence(a)'
<1>1. Has(fromReg'[a], Kill(FALSE)) => Has(fromReg[a], Kill(FALSE))
    BY ReadHas DEF Returns
<1>2. /\ phase[a] = "gone" /\ UNCHANGED <<phase, mute, toReg, actor_dict, ident>>
      /\ a \in deadLetters => a \in deadLetters'
    BY DEF Returns, Elsewhere
<1> QED
    BY <1>1, <1>2 DEF Presence, ArrivesOnce, SaysGoodBye, Placed, InDictionary, Arrives, Leaving


LEMMA ActorPresent ==
    ASSUME TypeOK, AllPresent, NEW a \in Addr, Actor(a) \/ Environment(a)
    PROVE  AllPresent'
<1>1. /\ Elsewhere(a)
      /\ SaysHello(a) \/ Departs(a) \/ Hangs(a) \/ Answers(a) \/ Returns(a)
    BY ActorEffect
<1>2. Presence(a)'
    BY <1>1, HelloPresent, DepartsPresent, HangsPresent, AnswersPresent, ReturnsPresent,
       ActorDooms DEF AllPresent
<1>3. ASSUME NEW b \in Addr \ {a} PROVE Presence(b)'
    <2>1. Presence(b)
        BY DEF AllPresent
    <2>2. /\ phase'[b] = phase[b] /\ mute'[b] = mute[b] /\ toReg'[b] = toReg[b]
          /\ fromReg'[b] = fromReg[b] /\ (b \in deadLetters' <=> b \in deadLetters)
          /\ UNCHANGED <<actor_dict, ident>> /\ (stop' = "no" => stop = "no")
        BY <1>1 DEF Elsewhere
    <2> QED
        BY <2>1, <2>2 DEF Presence, ArrivesOnce, SaysGoodBye, Placed, InDictionary, Arrives,
                          Leaving, Doomed, Told
<1> QED
    BY <1>2, <1>3 DEF AllPresent

\* Handlers only add to what is under way to the actors.
LEMMA GrownHas ==
    ASSUME TypeOK, Grown
    PROVE  \A b \in Addr : /\ \A m : Has(fromReg[b], m) => Has(fromReg'[b], m)
                           /\ Told(b) => Told(b)'
<1>1. ASSUME NEW b \in Addr, NEW m, Has(fromReg[b], m) PROVE Has(fromReg'[b], m)
    <2>1. PICK more \in Seq(Messages) : fromReg'[b] = fromReg[b] \o more
        BY DEF Grown
    <2> QED
        BY <1>1, <2>1, HasConcat DEF TypeOK
<1> QED
    BY <1>1 DEF Told

LEMMA SendHas ==
    ASSUME TypeOK, NEW out, Send(out), NEW b \in Addr, out[b] \in Seq(Messages)
    PROVE  /\ fromReg'[b] = fromReg[b] \o out[b]
           /\ \A m : Has(fromReg'[b], m) <=> Has(fromReg[b], m) \/ Has(out[b], m)
<1>1. fromReg'[b] = fromReg[b] \o out[b] /\ fromReg[b] \in Seq(Messages)
    BY DEF TypeOK, Send
<1> QED
    BY <1>1, HasConcat

NobodyRefused == \A b \in Addr : Has(fromReg'[b], Kill(FALSE)) => Has(fromReg[b], Kill(FALSE))

LEMMA UpdatesKill ==
    ASSUME NEW dict, NEW gets, NEW b \in Addr
    PROVE  ~Has(Updates(dict, gets)[b], Kill(FALSE))
<1> DEFINE instruments == {id \in Ids : dict[id] # NoAddr /\ IsDevice(id)}
<1>1. UpdateActorDict(instruments) # Kill(FALSE)
    <2>1. /\ UpdateActorDict(instruments).type = "UpdateActorDictMsg"
          /\ Kill(FALSE).type = "KillMsg"
        BY DEF UpdateActorDict, Kill
    <2> QED
        BY <2>1
<1>2. Updates(dict, gets)[b] = <<>> \/ Updates(dict, gets)[b] = <<UpdateActorDict(instruments)>>
    BY DEF Updates
<1> HIDE DEF instruments
<1>3. ~Has(<<>>, Kill(FALSE)) /\ ~Has(<<UpdateActorDict(instruments)>>, Kill(FALSE))
    BY <1>1, HasShort
<1> QED
    BY <1>2, <1>3

\* What the Registrar says when a newcomer is entered in the dictionary.
Rival(old, id) == old # id /\ old[1] = id[1] /\ old[2] \in Competing
Enters(a) ==
    /\ actor_dict' = [actor_dict EXCEPT ![ident[a]] = a]
    /\ get_updates' = [get_updates EXCEPT ![ident[a]] = FALSE]
    /\ NobodyRefused
    /\ \A b \in Addr : actor_dict[ident[a]] = b => Told(b)'
    /\ IsDevice(ident[a]) =>
          \A old \in Ids, b \in Addr :
              Known(old) /\ Rival(old, ident[a]) /\ actor_dict[old] = b => Told(a)' \/ Told(b)'
    /\ \A b \in Addr : \E said \in Seq(Messages) :
          fromReg'[b] = said \o Updates(actor_dict', get_updates')[b]
Refuses(a) ==
    /\ UNCHANGED <<actor_dict, get_updates>>
    /\ \A b \in Addr \ {a} : fromReg'[b] = fromReg[b]
    /\ fromReg'[a] = fromReg[a] \o <<Kill(FALSE)>>


LEMMA SubscribeEffect ==
    ASSUME TypeOK, NEW a \in Addr, Subscribe(a)
    PROVE  \/ Enters(a) /\ stop' = stop
           \/ Refuses(a) /\ stop' = stop /\ IsDevice(ident[a])
           \/ UNCHANGED <<actor_dict, get_updates, fromReg>> /\ stop' # "no"
<1> DEFINE id == ident[a]
           beaten == {old \in Rivals(id) : NewWins(id, old)}
           stay == Rivals(id) \ beaten
           dict == [actor_dict EXCEPT ![id] = a]
           gets == [get_updates EXCEPT ![id] = FALSE]
           replaced(b) == IF Registered(id) /\ actor_dict[id] = b THEN <<Kill(TRUE)>> ELSE <<>>
           loser(b) == IF \E old \in beaten : dict[old] = b THEN <<Kill(TRUE)>> ELSE <<>>
           asked(subscribes) == IF subscribes THEN <<SubscribeStatus>> ELSE <<>>
           newcomer(b, subscribes) ==
               IF b = a /\ IsDevice(id)
               THEN Repeat(Kill(TRUE), Cardinality(stay)) \o asked(subscribes) ELSE <<>>
           out(subscribes) == [b \in Addr |->
               replaced(b) \o loser(b) \o newcomer(b, subscribes) \o Updates(dict, gets)[b]]
<1>1. id \in Ids
    BY DEF TypeOK
<1>2. \/ /\ actor_dict' = dict /\ get_updates' = gets
         /\ \E subscribes \in BOOLEAN : Send(out(subscribes))
         /\ UNCHANGED stop
      \/ /\ Shutdown("duplicate")
         /\ UNCHANGED <<actor_dict, get_updates, fromReg>>
      \/ /\ Send([Nothing EXCEPT ![a] = <<Kill(FALSE)>>]) /\ IsDevice(id)
         /\ UNCHANGED <<actor_dict, get_updates, stop>>
    BY DEF Subscribe
<1>3. /\ Kill(TRUE) \in Messages /\ Kill(FALSE) \in Messages /\ SubscribeStatus \in Messages
      /\ <<>> \in Seq(Messages) /\ Kill(TRUE) # Kill(FALSE) /\ SubscribeStatus # Kill(FALSE)
    <2>1. /\ Kill(TRUE).register = TRUE /\ Kill(FALSE).register = FALSE
          /\ SubscribeStatus.type = "SubscribeToDeviceStatusMsg" /\ Kill(FALSE).type = "KillMsg"
        BY DEF Kill, SubscribeStatus
    <2>2. Kill(TRUE) # Kill(FALSE) /\ SubscribeStatus # Kill(FALSE)
        BY <2>1
    <2>3. <<>> \in Seq(Messages)
        OBVIOUS
    <2> QED
        BY <2>2, <2>3, MessagesExist
<1>4. stay \subseteq Ids /\ Cardinality(stay) \in Nat /\ (stay # {} => Cardinality(stay) > 0)
    <2>1. stay \subseteq Ids /\ IsFiniteSet(stay)
        BY IdsAssumption, FS_Subset DEF Rivals
    <2> QED
        BY <2>1, FS_CardinalityType, FS_EmptySet
<1>5. /\ Repeat(Kill(TRUE), Cardinality(stay)) \in Seq(Messages)
      /\ ~Has(Repeat(Kill(TRUE), Cardinality(stay)), Kill(FALSE))
      /\ stay # {} => Has(Repeat(Kill(TRUE), Cardinality(stay)), Kill(TRUE))
    <2> HIDE DEF stay
    <2>1. /\ Len(Repeat(Kill(TRUE), Cardinality(stay))) = Cardinality(stay)
          /\ \A i \in 1..Cardinality(stay) : Repeat(Kill(TRUE), Cardinality(stay))[i] = Kill(TRUE)
        BY <1>4 DEF Repeat
    <2>2. Repeat(Kill(TRUE), Cardinality(stay)) \in Seq(Messages)
        BY <1>3, <1>4, RepeatTyped
    <2>3. ~Has(Repeat(Kill(TRUE), Cardinality(stay)), Kill(FALSE))
        BY <1>3, <2>1 DEF Has
    <2>4. ASSUME stay # {} PROVE Has(Repeat(Kill(TRUE), Cardinality(stay)), Kill(TRUE))
        <3>1. 1 \in 1..Cardinality(stay)
            BY <1>4, <2>4
        <3> QED
            BY <2>1, <3>1 DEF Has
    <2> QED
        BY <2>2, <2>3, <2>4
<1> HIDE DEF beaten, stay, dict, gets
<1>6. ASSUME actor_dict' = dict, get_updates' = gets, NEW subscribes \in BOOLEAN,
             Send(out(subscribes))
      PROVE  Enters(a)
    <2>1. ASSUME NEW b \in Addr
          PROVE  /\ Has(replaced(b), Kill(TRUE)) <=> Registered(id) /\ actor_dict[id] = b
                 /\ Has(loser(b), Kill(TRUE)) <=> \E old \in beaten : dict[old] = b
                 /\ ~Has(replaced(b), Kill(FALSE)) /\ ~Has(loser(b), Kill(FALSE))
                 /\ replaced(b) \in Seq(Messages) /\ loser(b) \in Seq(Messages)
        <3>1. /\ <<Kill(TRUE)>> \in Seq(Messages)
              /\ Has(<<Kill(TRUE)>>, Kill(TRUE)) /\ ~Has(<<Kill(TRUE)>>, Kill(FALSE))
              /\ ~Has(<<>>, Kill(TRUE)) /\ ~Has(<<>>, Kill(FALSE))
            <4>1. <<Kill(TRUE)>> \in Seq(Messages)
                BY MessagesExist, SingletonTyped
            <4>2. ~Has(<<Kill(TRUE)>>, Kill(FALSE))
                BY <1>3, HasShort
            <4> QED
                BY <4>1, <4>2, HasShort
        <3> QED
            BY <1>3, <3>1
    <2>2. ASSUME NEW b \in Addr
          PROVE  /\ newcomer(b, subscribes) \in Seq(Messages)
                 /\ ~Has(newcomer(b, subscribes), Kill(FALSE))
                 /\ b = a /\ IsDevice(id) /\ stay # {} => Has(newcomer(b, subscribes), Kill(TRUE))
        <3>1. asked(subscribes) \in Seq(Messages) /\ ~Has(asked(subscribes), Kill(FALSE))
            <4>1. <<SubscribeStatus>> \in Seq(Messages)
                BY <1>3
            <4> QED
                BY <1>3, <4>1, HasShort
        <3> HIDE DEF asked
        <3> DEFINE kills == Repeat(Kill(TRUE), Cardinality(stay))
        <3>2. kills \in Seq(Messages)
            BY <1>5
        <3> HIDE DEF kills
        <3>3. /\ kills \o asked(subscribes) \in Seq(Messages)
              /\ \A m : Has(kills \o asked(subscribes), m)
                           <=> Has(kills, m) \/ Has(asked(subscribes), m)
            BY <3>1, <3>2, ConcatProperties, HasConcat
        <3>4. CASE b = a /\ IsDevice(id)
            <4>1. newcomer(b, subscribes) = kills \o asked(subscribes)
                BY <3>4 DEF kills
            <4> QED
                BY <1>5, <3>1, <3>3, <4>1 DEF kills
        <3>5. CASE ~(b = a /\ IsDevice(id))
            BY <1>3, <3>5, HasShort
        <3> QED
            BY <3>4, <3>5
    <2> HIDE DEF replaced, loser, newcomer
    <2> DEFINE kills(b) == replaced(b) \o loser(b) \o newcomer(b, subscribes)
    <2>3. ASSUME NEW b \in Addr
          PROVE  /\ kills(b) \in Seq(Messages)
                 /\ \A m : Has(kills(b), m) <=> \/ Has(replaced(b), m) \/ Has(loser(b), m)
                                                \/ Has(newcomer(b, subscribes), m)
        <3> DEFINE start == replaced(b) \o loser(b)
        <3>1. start \in Seq(Messages)
            BY <2>1, ConcatProperties
        <3>2. \A m : Has(start, m) <=> Has(replaced(b), m) \/ Has(loser(b), m)
            BY <2>1, HasConcat
        <3> HIDE DEF start
        <3>3. /\ start \o newcomer(b, subscribes) \in Seq(Messages)
              /\ \A m : Has(start \o newcomer(b, subscribes), m)
                           <=> Has(start, m) \/ Has(newcomer(b, subscribes), m)
            BY <2>2, <3>1, ConcatProperties, HasConcat
        <3> QED
            BY <3>2, <3>3 DEF start
    <2>4. ASSUME NEW b \in Addr
          PROVE  /\ \A m : Has(fromReg'[b], m) <=> \/ Has(fromReg[b], m) \/ Has(kills(b), m)
                                                   \/ Has(Updates(dict, gets)[b], m)
                 /\ \E said \in Seq(Messages) : fromReg'[b] = said \o Updates(dict, gets)[b]
        <3> DEFINE all == kills(b) \o Updates(dict, gets)[b]
        <3>1. kills(b) \in Seq(Messages) /\ Updates(dict, gets)[b] \in Seq(Messages)
            BY <2>3, UpdatesTyped
        <3>2. out(subscribes)[b] = all
            OBVIOUS
        <3> HIDE DEF kills, out
        <3>3. /\ all \in Seq(Messages)
              /\ \A m : Has(all, m) <=> Has(kills(b), m) \/ Has(Updates(dict, gets)[b], m)
            BY <3>1, ConcatProperties, HasConcat
        <3>4. /\ fromReg'[b] = fromReg[b] \o all
              /\ \A m : Has(fromReg'[b], m) <=> Has(fromReg[b], m) \/ Has(all, m)
            <4>1. Send(out(subscribes)) /\ out(subscribes)[b] \in Seq(Messages)
                BY <1>6, <3>2, <3>3
            <4> DEFINE sent == out(subscribes)
            <4>2. Send(sent) /\ sent[b] \in Seq(Messages) /\ sent[b] = all
                BY <3>2, <4>1
            <4> HIDE DEF sent
            <4> QED
                BY <4>2, SendHas
        <3>5. fromReg[b] \in Seq(Messages) /\ fromReg[b] \o kills(b) \in Seq(Messages)
            BY <3>1, ConcatProperties DEF TypeOK
        <3>6. \A r, s, u \in Seq(Messages) : r \o (s \o u) = (r \o s) \o u
            BY ConcatAssociative
        <3>7. fromReg'[b] = (fromReg[b] \o kills(b)) \o Updates(dict, gets)[b]
            BY <3>1, <3>4, <3>5, <3>6
        <3> QED
            BY <3>3, <3>4, <3>5, <3>7
    <2> HIDE DEF kills, out
    <2>5. NobodyRefused
        BY <2>1, <2>2, <2>3, <2>4, UpdatesKill DEF NobodyRefused
    <2>6. ASSUME NEW b \in Addr, actor_dict[id] = b PROVE Told(b)'
        <3>1. Has(replaced(b), Kill(TRUE))
            BY <2>1, <2>6, AddrAssumption DEF Registered
        <3> QED
            BY <2>3, <2>4, <3>1 DEF Told
    <2>7. ASSUME IsDevice(id), NEW old \in Ids, NEW b \in Addr, Known(old), Rival(old, id),
                 actor_dict[old] = b
          PROVE  Told(a)' \/ Told(b)'
        <3>1. old \in Rivals(id)
            BY <2>7 DEF Rivals, Rival
        <3>2. CASE old \in beaten
            <4>1. dict[old] = b
                BY <1>1, <2>7 DEF dict, Rival, TypeOK
            <4>2. Has(loser(b), Kill(TRUE))
                BY <2>1, <3>2, <4>1
            <4> QED
                BY <2>3, <2>4, <4>2 DEF Told
        <3>3. CASE old \notin beaten
            <4>1. stay # {}
                BY <3>1, <3>3 DEF stay
            <4>2. Has(newcomer(a, subscribes), Kill(TRUE))
                BY <2>2, <2>7, <4>1
            <4> QED
                BY <2>3, <2>4, <4>2 DEF Told
        <3> QED
            BY <3>2, <3>3
    <2> QED
        BY <1>6, <2>4, <2>5, <2>6, <2>7 DEF Enters, dict, gets
<1>7. ASSUME Send([Nothing EXCEPT ![a] = <<Kill(FALSE)>>]), UNCHANGED <<actor_dict, get_updates>>
      PROVE  Refuses(a)
    <2>1. /\ fromReg'[a] = fromReg[a] \o <<Kill(FALSE)>>
          /\ \A b \in Addr \ {a} : fromReg'[b] = fromReg[b] \o <<>>
        BY <1>7 DEF Send, Nothing
    <2>2. \A b \in Addr \ {a} : fromReg'[b] = fromReg[b]
        BY <2>1, ConcatEmptySeq DEF TypeOK
    <2> QED
        BY <1>7, <2>1, <2>2 DEF Refuses
<1>8. Shutdown("duplicate") => stop' # "no"
    BY DEF Shutdown, Running
<1> HIDE DEF out
<1> QED
    BY <1>2, <1>6, <1>7, <1>8


LEMMA UpdatesRefuseNobody ==
    ASSUME TypeOK, NEW dict, NEW gets, Send(Updates(dict, gets))
    PROVE  NobodyRefused
<1>1. ASSUME NEW b \in Addr, Has(fromReg'[b], Kill(FALSE)) PROVE Has(fromReg[b], Kill(FALSE))
    BY <1>1, UpdatesTyped, UpdatesKill, SendHas
<1> QED
    BY <1>1 DEF NobodyRefused

LEMMA ForgetRefusesNobody ==
    ASSUME TypeOK, NEW a \in Addr, Forget(a)
    PROVE  NobodyRefused
<1>1. CASE UNCHANGED fromReg
    BY <1>1 DEF NobodyRefused
<1>2. ASSUME NEW dict, Send(Updates(dict, get_updates')) PROVE NobodyRefused
    BY <1>2, UpdatesRefuseNobody
<1> QED
    BY <1>1, <1>2 DEF Forget

\* What is left of a's messages when the first is handled.
LEMMA Next1Has ==
    ASSUME TypeOK, NEW a \in Addr, NEW m, Next1(a, m), ArrivesOnce(a)
    PROVE  /\ \A n : Has(toReg[a], n) <=> n = m \/ Has(toReg'[a], n)
           /\ ~Has(toReg'[a], "SubscribeMsg") /\ OnlyFirst(toReg'[a], "SubscribeMsg")
           /\ Arrives(a) => m = "SubscribeMsg"
           /\ phase[a] # "unused"
<1>1. /\ toReg[a] \in Seq(Sayings) /\ toReg[a] # <<>> /\ Head(toReg[a]) = m
      /\ toReg'[a] = Tail(toReg[a])
    BY DEF TypeOK, Next1
<1>2. \A n : Has(toReg[a], n) <=> m = n \/ Has(toReg'[a], n)
    BY <1>1, HasTail
<1>3. ~Has(toReg'[a], "SubscribeMsg")
    BY <1>1, OnlyFirstKeeps DEF ArrivesOnce
<1>4. OnlyFirst(toReg'[a], "SubscribeMsg")
    BY <1>3 DEF OnlyFirst, Has
<1> QED
    BY <1>1, <1>2, <1>3, <1>4 DEF Arrives, ArrivesOnce

\* Messages that are neither an arrival nor a departure.
LEMMA NeutralPresent ==
    ASSUME TypeOK, AllPresent, Running, Grown, NobodyRefused,
           UNCHANGED <<actor_dict, actorVars, deadLetters>>, NEW b \in Addr,
           \/ toReg'[b] = toReg[b]
           \/ \E m : Next1(b, m) /\ m \notin {"SubscribeMsg", "UnsubscribeMsg"}
    PROVE  Presence(b)'
<1>1. Presence(b) /\ Running
    BY DEF AllPresent
<1>2. /\ \A m \in {"SubscribeMsg", "UnsubscribeMsg"} : Has(toReg'[b], m) <=> Has(toReg[b], m)
      /\ Has(toReg'[b], "UnSubscribeFromActorDictMsg")
            => Has(toReg[b], "UnSubscribeFromActorDictMsg")
      /\ OnlyFirst(toReg'[b], "SubscribeMsg")
      /\ phase[b] = "unused" => toReg'[b] = toReg[b]
    <2>1. CASE toReg'[b] = toReg[b]
        BY <1>1, <2>1 DEF Presence, ArrivesOnce
    <2>2. ASSUME NEW m, Next1(b, m), m \notin {"SubscribeMsg", "UnsubscribeMsg"}
          PROVE  /\ \A n \in {"SubscribeMsg", "UnsubscribeMsg"} :
                       Has(toReg'[b], n) <=> Has(toReg[b], n)
                 /\ Has(toReg'[b], "UnSubscribeFromActorDictMsg")
                       => Has(toReg[b], "UnSubscribeFromActorDictMsg")
                 /\ OnlyFirst(toReg'[b], "SubscribeMsg")
                 /\ phase[b] # "unused"
        BY <1>1, <2>2, Next1Has DEF Presence
    <2> QED
        BY <2>1, <2>2
<1>3. /\ Has(fromReg'[b], Kill(FALSE)) => Has(fromReg[b], Kill(FALSE))
      /\ Told(b) => Told(b)'
    BY GrownHas DEF NobodyRefused
<1>4. ArrivesOnce(b)'
    BY <1>1, <1>2, <1>3 DEF Presence, ArrivesOnce, InDictionary, Arrives, actorVars
<1>5. SaysGoodBye(b)'
    BY <1>1, <1>2 DEF Presence, SaysGoodBye, InDictionary, Arrives, Leaving, actorVars
<1>6. Placed(b)'
    BY <1>1, <1>2, <1>3 DEF Presence, Placed, InDictionary, Arrives, Doomed, Leaving, actorVars,
                            Running
<1> QED
    BY <1>4, <1>5, <1>6 DEF Presence

LEMMA ForgetPresent ==
    ASSUME TypeOK, DictsAgree, AllPresent, Running, NEW a \in Addr,
           Unsubscribe(a) \/ UnsubscribeDead(a)
    PROVE  AllPresent'
<1>1. Forget(a) /\ UNCHANGED actorVars
    BY DEF Unsubscribe, UnsubscribeDead
<1>2. Grown /\ NobodyRefused
    BY <1>1, ForgetTyped, ForgetRefusesNobody
<1>3. /\ \A b \in Addr \ {a} : InDictionary(b)' <=> InDictionary(b)
      /\ ~InDictionary(a)'
    <2>1. \A b \in Addr : ident[b] \in Ids /\ ident'[b] = ident[b] /\ b # NoAddr
        BY <1>1, AddrAssumption DEF TypeOK, actorVars
    <2>2. CASE ~ \E id \in Ids : actor_dict[id] = a
        BY <1>1, <2>1, <2>2 DEF Forget, InDictionary
    <2>3. CASE \E id \in Ids : actor_dict[id] = a
        <3> DEFINE gone == CHOOSE i \in Ids : actor_dict[i] = a
        <3>1. gone \in Ids /\ actor_dict[gone] = a
            BY <2>3
        <3>2. actor_dict' = [actor_dict EXCEPT ![gone] = NoAddr]
            BY <1>1, <2>3 DEF Forget
        <3> HIDE DEF gone
        <3>3. ident[a] = gone
            BY <3>1, AddrAssumption DEF DictsAgree, Registered
        <3> QED
            BY <2>1, <3>1, <3>2, <3>3 DEF InDictionary, TypeOK
    <2> QED
        BY <2>2, <2>3
<1>4. ASSUME NEW b \in Addr \ {a} PROVE Presence(b)'
    <2>1. /\ Presence(b) /\ toReg'[b] = toReg[b] /\ (b \in deadLetters' <=> b \in deadLetters)
          /\ (InDictionary(b)' <=> InDictionary(b))
        BY <1>3, Next1Keeps DEF AllPresent, Unsubscribe, UnsubscribeDead
    <2>2. /\ Has(fromReg'[b], Kill(FALSE)) => Has(fromReg[b], Kill(FALSE))
          /\ Told(b) => Told(b)'
        BY <1>2, GrownHas DEF NobodyRefused
    <2>3. ArrivesOnce(b)'
        BY <1>1, <2>1, <2>2 DEF Presence, ArrivesOnce, Arrives, actorVars
    <2>4. SaysGoodBye(b)'
        BY <1>1, <2>1 DEF Presence, SaysGoodBye, Arrives, Leaving, actorVars
    <2>5. Placed(b)'
        BY <1>1, <2>1, <2>2 DEF Presence, Placed, Arrives, Doomed, Leaving, actorVars, Running
    <2> QED
        BY <2>3, <2>4, <2>5 DEF Presence
<1>5. Presence(a)'
    <2>1. Presence(a) /\ phase[a] = "gone" /\ phase' = phase /\ mute' = mute
        <3>1. Unsubscribe(a) => Has(toReg[a], "UnsubscribeMsg")
            <4>1. Unsubscribe(a) => /\ toReg[a] \in Seq(Sayings) /\ toReg[a] # <<>>
                                    /\ Head(toReg[a]) = "UnsubscribeMsg"
                BY DEF Unsubscribe, Next1, TypeOK
            <4> QED
                BY <4>1, HasTail
        <3> QED
            BY <1>1, <3>1 DEF AllPresent, Presence, SaysGoodBye, UnsubscribeDead, actorVars
    <2>2. Has(fromReg'[a], Kill(FALSE)) => Has(fromReg[a], Kill(FALSE))
        BY <1>2 DEF NobodyRefused
    <2>3. CASE Unsubscribe(a)
        <3>1. ~Has(toReg'[a], "SubscribeMsg") /\ OnlyFirst(toReg'[a], "SubscribeMsg")
            BY <2>1, <2>3, Next1Has DEF Unsubscribe, Presence
        <3> QED
            BY <1>3, <2>1, <2>2, <3>1 DEF Presence, ArrivesOnce, SaysGoodBye, Placed, Arrives,
                                        Leaving
    <2>4. CASE UnsubscribeDead(a)
        <3>1. toReg' = toReg
            BY <2>4 DEF UnsubscribeDead
        <3> QED
            BY <1>3, <2>1, <2>2, <3>1 DEF Presence, ArrivesOnce, SaysGoodBye, Placed, Arrives,
                                        Leaving
    <2> QED
        BY <2>3, <2>4
<1> QED
    BY <1>4, <1>5 DEF AllPresent

LEMMA SubscribePresent ==
    ASSUME TypeOK, AllPresent, Running, NEW a \in Addr, Subscribe(a)
    PROVE  AllPresent'
<1>1. /\ ident[a] \in Ids /\ Next1(a, "SubscribeMsg") /\ Grown
      /\ UNCHANGED <<actorVars, deadLetters>>
    BY SubscribeTyped DEF TypeOK, Subscribe
<1>2. \A b \in Addr \ {a} : toReg'[b] = toReg[b]
    BY <1>1, Next1Keeps
<1>3. /\ Presence(a) /\ Arrives(a) /\ phase[a] # "unused"
      /\ ~Has(toReg'[a], "SubscribeMsg") /\ OnlyFirst(toReg'[a], "SubscribeMsg")
      /\ \A n \in {"UnsubscribeMsg", "UnSubscribeFromActorDictMsg"} :
            Has(toReg'[a], n) <=> Has(toReg[a], n)
    BY <1>1, Next1Has DEF AllPresent, Presence, Arrives
<1>4. ~InDictionary(a)
    BY <1>3 DEF Presence, ArrivesOnce
<1>5. CASE Enters(a)
    <2>1. InDictionary(a)'
        BY <1>1, <1>5 DEF Enters, InDictionary, TypeOK, actorVars
    <2>2. Presence(a)'
        <3>1. ~Has(fromReg'[a], Kill(FALSE))
            BY <1>3, <1>5 DEF Enters, NobodyRefused, Presence, ArrivesOnce
        <3> QED
            BY <1>1, <1>3, <2>1, <3>1 DEF Presence, ArrivesOnce, SaysGoodBye, Placed, Arrives,
                                          Leaving, actorVars
    <2>3. ASSUME NEW b \in Addr \ {a} PROVE Presence(b)'
        <3>1. Presence(b) /\ toReg'[b] = toReg[b]
            BY <1>2 DEF AllPresent
        <3>2. /\ Has(fromReg'[b], Kill(FALSE)) => Has(fromReg[b], Kill(FALSE))
              /\ Told(b) => Told(b)'
            BY <1>1, <1>5, GrownHas DEF Enters, NobodyRefused
        <3>3. /\ InDictionary(b)' => InDictionary(b)
              /\ InDictionary(b) => InDictionary(b)' \/ Told(b)'
            BY <1>1, <1>5 DEF Enters, InDictionary, TypeOK, actorVars
        <3>4. ArrivesOnce(b)'
            BY <1>1, <3>1, <3>2, <3>3 DEF Presence, ArrivesOnce, Arrives, actorVars
        <3>5. SaysGoodBye(b)'
            BY <1>1, <3>1, <3>3 DEF Presence, SaysGoodBye, Arrives, Leaving, actorVars
        <3>6. Placed(b)'
            BY <1>1, <3>1, <3>2, <3>3 DEF Presence, Placed, Arrives, Doomed, Leaving, actorVars,
                                          Running
        <3> QED
            BY <3>4, <3>5, <3>6 DEF Presence
    <2> QED
        BY <2>2, <2>3 DEF AllPresent
<1>6. CASE Refuses(a)
    <2>1. \A b \in Addr : InDictionary(b)' <=> InDictionary(b)
        BY <1>1, <1>6 DEF Refuses, InDictionary, actorVars
    <2>2. Presence(a)'
        <3>1. Told(a)'
            <4>1. /\ <<Kill(FALSE)>> \in Seq(Messages) /\ Has(<<Kill(FALSE)>>, Kill(FALSE))
                  /\ fromReg[a] \in Seq(Messages)
                BY MessagesExist, SingletonTyped, HasShort DEF TypeOK
            <4>2. Has(fromReg[a] \o <<Kill(FALSE)>>, Kill(FALSE))
                BY <4>1, HasConcat
            <4> QED
                BY <1>6, <4>2 DEF Told, Refuses
        <3> QED
            BY <1>1, <1>3, <1>4, <2>1, <3>1 DEF Presence, ArrivesOnce, SaysGoodBye, Placed,
                                                Arrives, Leaving, Doomed, actorVars
    <2>3. ASSUME NEW b \in Addr \ {a} PROVE Presence(b)'
        <3>1. Presence(b) /\ toReg'[b] = toReg[b] /\ fromReg'[b] = fromReg[b]
            BY <1>2, <1>6 DEF AllPresent, Refuses
        <3> QED
            BY <1>1, <2>1, <3>1 DEF Presence, ArrivesOnce, SaysGoodBye, Placed, Arrives, Leaving,
                                    Doomed, Told, actorVars, Running
    <2> QED
        BY <2>2, <2>3 DEF AllPresent
<1>7. CASE UNCHANGED <<actor_dict, fromReg>> /\ stop' # "no"
    <2>1. \A b \in Addr : InDictionary(b)' <=> InDictionary(b)
        BY <1>1, <1>7 DEF InDictionary, actorVars
    <2>2. Presence(a)'
        BY <1>1, <1>3, <1>4, <1>7, <2>1 DEF Presence, ArrivesOnce, SaysGoodBye, Placed, Arrives,
                                      Leaving, actorVars
    <2>3. ASSUME NEW b \in Addr \ {a} PROVE Presence(b)'
        <3>1. Presence(b) /\ toReg'[b] = toReg[b]
            BY <1>2 DEF AllPresent
        <3> QED
            BY <1>1, <1>7, <2>1, <3>1 DEF Presence, ArrivesOnce, SaysGoodBye, Placed, Arrives,
                                          Leaving, actorVars
    <2> QED
        BY <2>2, <2>3 DEF AllPresent
<1> QED
    BY <1>5, <1>6, <1>7, SubscribeEffect


LEMMA HandlerPresent ==
    ASSUME TypeOK, DictsAgree, AllPresent, Running, NEW a \in Addr, Handler(a)
    PROVE  AllPresent'
<1>1. CASE Subscribe(a)
    BY <1>1, SubscribePresent
<1>2. CASE Unsubscribe(a) \/ UnsubscribeDead(a)
    BY <1>2, ForgetPresent
<1>3. CASE IsAlive(a) \/ UpdateDeviceStatus(a) \/ UnSubscribeFromActorDict(a)
           \/ SubscribeToActorDict(a)
    <2>1. Grown /\ UNCHANGED <<actor_dict, actorVars, deadLetters>>
        BY <1>3, HandlerTyped DEF Handler, IsAlive, UpdateDeviceStatus, UnSubscribeFromActorDict,
                                  SubscribeToActorDict
    <2>2. NobodyRefused
        <3>1. UNCHANGED fromReg \/ Send(Updates(actor_dict, get_updates'))
            BY <1>3 DEF IsAlive, UpdateDeviceStatus, UnSubscribeFromActorDict, SubscribeToActorDict
        <3> QED
            BY <3>1, UpdatesRefuseNobody DEF NobodyRefused
    <2>3. PICK m \in {"keep alive", "UpdateDeviceStatusMsg", "UnSubscribeFromActorDictMsg",
                      "SubscribeToActorDictMsg"} : Next1(a, m)
        BY <1>3 DEF IsAlive, UpdateDeviceStatus, UnSubscribeFromActorDict, SubscribeToActorDict
    <2>4. /\ m \notin {"SubscribeMsg", "UnsubscribeMsg"}
          /\ \A b \in Addr \ {a} : toReg'[b] = toReg[b]
        BY <2>3, Next1Keeps
    <2>5. \A b \in Addr : Presence(b)'
        BY <2>1, <2>2, <2>3, <2>4, NeutralPresent
    <2> QED
        BY <2>5 DEF AllPresent
<1> QED
    BY <1>1, <1>2, <1>3 DEF Handler

LEMMA WatchdogRefusesNobody ==
    ASSUME TypeOK,
           (\E id \in Ids : ControlOff(id)) \/ KeepAliveRound \/ Check \/ GetDeviceStatuses
    PROVE  NobodyRefused
<1>1. /\ Kill(TRUE) # Kill(FALSE) /\ KeepAlive # Kill(FALSE)
      /\ <<Kill(TRUE)>> \in Seq(Messages) /\ <<KeepAlive>> \in Seq(Messages)
      /\ <<>> \in Seq(Messages)
    <2>1. Kill(TRUE).register = TRUE /\ Kill(FALSE).register = FALSE
        BY DEF Kill
    <2>2. KeepAlive.type = "KeepAliveMsg" /\ Kill(FALSE).type = "KillMsg"
        BY DEF KeepAlive, Kill
    <2>3. <<>> \in Seq(Messages)
        OBVIOUS
    <2>4. Kill(TRUE) # Kill(FALSE) /\ KeepAlive # Kill(FALSE)
        BY <2>1, <2>2
    <2> QED
        BY <2>3, <2>4, MessagesExist, SingletonTyped
<1>2. /\ ~Has(<<Kill(TRUE)>>, Kill(FALSE)) /\ ~Has(<<KeepAlive>>, Kill(FALSE))
      /\ ~Has(<<>>, Kill(FALSE))
    BY <1>1, HasShort
<1>3. ASSUME NEW id \in Ids, ControlOff(id) PROVE NobodyRefused
    <2> DEFINE out == [Nothing EXCEPT ![actor_dict[id]] = <<Kill(TRUE)>>]
    <2>1. Send(out) /\ \A b \in Addr : out[b] = <<Kill(TRUE)>> \/ out[b] = <<>>
        BY <1>3 DEF ControlOff, Nothing
    <2> HIDE DEF out
    <2>2. \A b \in Addr : Has(fromReg'[b], Kill(FALSE)) => Has(fromReg[b], Kill(FALSE))
        BY <1>1, <1>2, <2>1, SendHas
    <2> QED
        BY <2>2 DEF NobodyRefused
<1>4. CASE KeepAliveRound
    <2> DEFINE out == [a \in Addr |->
                          IF /\ \E id \in Ids : actor_dict[id] = a
                             /\ mute[a] /\ phase[a] # "gone" => KeepAlive \notin Unread(a)
                          THEN <<KeepAlive>> ELSE <<>>]
    <2>1. Send(out) /\ \A b \in Addr : out[b] = <<KeepAlive>> \/ out[b] = <<>>
        BY <1>4 DEF KeepAliveRound
    <2> HIDE DEF out
    <2>2. \A b \in Addr : Has(fromReg'[b], Kill(FALSE)) => Has(fromReg[b], Kill(FALSE))
        BY <1>1, <1>2, <2>1, SendHas
    <2> QED
        BY <2>2 DEF NobodyRefused
<1>5. CASE Check \/ GetDeviceStatuses
    BY <1>5 DEF NobodyRefused, Check, GetDeviceStatuses, netVars
<1> QED
    BY <1>3, <1>4, <1>5

LEMMA WatchdogPresent ==
    ASSUME TypeOK, AllPresent, Running,
           (\E id \in Ids : ControlOff(id)) \/ KeepAliveRound \/ Check \/ GetDeviceStatuses
    PROVE  AllPresent'
<1>1. Grown /\ NobodyRefused
    BY WatchdogTyped, WatchdogRefusesNobody
<1>2. UNCHANGED <<actor_dict, actorVars, deadLetters, toReg>>
    BY DEF ControlOff, KeepAliveRound, Check, GetDeviceStatuses, regVars, netVars
<1>3. \A b \in Addr : Presence(b)'
    BY <1>1, <1>2, NeutralPresent
<1> QED
    BY <1>3 DEF AllPresent

LEMMA InitPresent == Init => AllPresent
<1> SUFFICES ASSUME Init, NEW a \in Addr PROVE Presence(a)
    BY DEF AllPresent
<1>1. /\ toReg[a] = <<>> /\ fromReg[a] = <<>> /\ phase[a] = "unused" /\ deadLetters = {}
      /\ ident[a] \in Ids /\ actor_dict[ident[a]] = NoAddr /\ a # NoAddr
    BY CastAssumption, AddrAssumption DEF Init
<1>2. OnlyFirst(<<>>, "SubscribeMsg")
    BY DEF OnlyFirst
<1> QED
    BY <1>1, <1>2, HasShort DEF Presence, ArrivesOnce, SaysGoodBye, Placed, InDictionary, Arrives

LEMMA NextPresent ==
    ASSUME TypeOK, DictsAgree, AllPresent, [Next]_vars
    PROVE  AllPresent'
<1>1. CASE UNCHANGED vars
    BY <1>1 DEF vars, regVars, actorVars, netVars, AllPresent, Presence, ArrivesOnce, SaysGoodBye,
                Placed, InDictionary, Arrives, Leaving, Doomed, Told
<1>2. CASE Next
    BY <1>2, ActorPresent, HandlerPresent, WatchdogPresent DEF Next
<1> QED
    BY <1>1, <1>2

THEOREM EverybodyPresent == Spec => []AllPresent
BY InitPresent, NextPresent, TypeCorrect, DictionariesAgree, PTL DEF Spec

LEMMA NothingUnderWay ==
    ASSUME Quiet, NEW a \in Addr
    PROVE  /\ a \notin deadLetters /\ \A m : ~Has(toReg[a], m)
           /\ ~mute[a] => fromReg[a] = <<>> /\ ~Told(a) /\ phase[a] # "dying"
<1>1. /\ deadLetters = {} /\ toReg[a] = <<>>
      /\ ~mute[a] => fromReg[a] = <<>>
      /\ phase[a] = "dying" => mute[a]
    BY DEF Quiet, Answered
<1> QED
    BY <1>1, HasShort DEF Told

\* When the messages are handled, every actor that still runs is the one in the
\* dictionary: whoever was overtaken by another of its id, in whatever order they
\* subscribed and were told to go, has been told.
THEOREM NobodyOrphaned == Spec => []NoOrphan
<1>1. AllPresent => NoOrphan
    <2> SUFFICES ASSUME AllPresent, Quiet, NEW a \in Addr, phase[a] = "run", ~mute[a]
                 PROVE  actor_dict[ident[a]] = a
        BY DEF NoOrphan
    <2>1. Placed(a) /\ stop = "no"
        BY DEF AllPresent, Presence, Quiet, Running
    <2>2. ~Arrives(a) /\ ~Doomed(a)
        BY NothingUnderWay DEF Arrives, Doomed, Leaving
    <2> QED
        BY <2>1, <2>2 DEF Placed, InDictionary
<1> QED
    BY <1>1, EverybodyPresent, PTL

\* When the messages are handled, the actors of the dictionary are those that run.
DictionaryIsRight ==
    Quiet => \A a \in Addr : ~mute[a] =>
                ((\E id \in Ids : actor_dict[id] = a) <=> phase[a] = "run")

\* When the messages are handled, the dictionary has nobody who has gone, although an
\* actor may go between any two of its messages, or without being able to say so to
\* the Registrar, whose own messages then come back as dead letters.
THEOREM DictionaryIsComplete == Spec => []DictionaryIsRight
<1>1. AllPresent /\ DictsAgree /\ TypeOK => DictionaryIsRight
    <2> SUFFICES ASSUME AllPresent, DictsAgree, TypeOK, Quiet, NEW a \in Addr, ~mute[a]
                 PROVE  (\E id \in Ids : actor_dict[id] = a) <=> phase[a] = "run"
        BY DEF DictionaryIsRight
    <2>1. Presence(a) /\ stop = "no"
        BY DEF AllPresent, Quiet, Running
    <2>2. ~Arrives(a) /\ a \notin deadLetters /\ ~Has(toReg[a], "UnsubscribeMsg")
          /\ phase[a] # "dying" /\ ~Told(a)
        BY NothingUnderWay DEF Arrives
    <2>3. phase[a] \in {"unused", "run", "dying", "gone"} /\ ident[a] \in Ids
        BY DEF TypeOK
    <2>4. ASSUME NEW id \in Ids, actor_dict[id] = a PROVE phase[a] = "run"
        <3>1. InDictionary(a)
            BY <2>4, AddrAssumption DEF DictsAgree, Registered, InDictionary
        <3>2. phase[a] # "unused" /\ phase[a] # "gone"
            BY <2>1, <2>2, <3>1 DEF Presence, ArrivesOnce, SaysGoodBye
        <3> QED
            BY <2>2, <2>3, <3>2
    <2>5. ASSUME phase[a] = "run" PROVE actor_dict[ident[a]] = a
        BY <2>1, <2>2, <2>5 DEF Presence, Placed, InDictionary, Doomed, Leaving
    <2> QED
        BY <2>3, <2>4, <2>5
<1> QED
    BY <1>1, EverybodyPresent, DictionariesAgree, TypeCorrect, PTL

-----------------------------------------------------------------------------
(* One actor per instrument.  Of two device actors that are ways to the same  *)
(* instrument one is doomed as soon as both are in the dictionary, and while   *)
(* both are there.                                                             *)

Competes(a) == ident[a][2] \in Competing
Compete(a, b) == a # b /\ Competes(a) /\ Competes(b) /\ ident[a][1] = ident[b][1]

\* The inductive invariant.
OneIsDoomed ==
    \A a, b \in Addr :
        InDictionary(a) /\ InDictionary(b) /\ Compete(a, b) => Doomed(a) \/ Doomed(b)

\* Who is doomed stays doomed, and whoever is new in the dictionary was
\* compared with all that were there.
LEMMA DoomedTogether ==
    ASSUME OneIsDoomed, ident' = ident, \A b \in Addr : Doomed(b) => Doomed(b)',
           \A b \in Addr : InDictionary(b)' => InDictionary(b)
    PROVE  OneIsDoomed'
BY DEF OneIsDoomed, Compete, Competes

LEMMA SubscribeDooms ==
    ASSUME TypeOK, DictsAgree, OneIsDoomed, NEW a \in Addr, Subscribe(a),
           \A b \in Addr : Doomed(b) => Doomed(b)'
    PROVE  OneIsDoomed'
<1>1. ident[a] \in Ids /\ UNCHANGED actorVars
    BY DEF TypeOK, Subscribe
<1>2. CASE Enters(a)
    <2>1. \A b \in Addr \ {a} : InDictionary(b)' => InDictionary(b) /\ ident[b] # ident[a]
        BY <1>1, <1>2 DEF Enters, InDictionary, TypeOK, actorVars
    <2>2. ASSUME NEW b \in Addr, InDictionary(b)', Compete(a, b)
          PROVE  Doomed(a)' \/ Doomed(b)'
        <3>1. /\ InDictionary(b) /\ ident[b] # ident[a] /\ ident[b] \in Ids
              /\ IsDevice(ident[a]) /\ IsDevice(ident[b]) /\ b # NoAddr
            BY <2>1, <2>2, AddrAssumption DEF Compete, Competes, IsDevice, Technologies, TypeOK
        <3>2. Known(ident[b]) /\ Rival(ident[b], ident[a]) /\ actor_dict[ident[b]] = b
            BY <2>2, <3>1 DEF DictsAgree, Registered, Rival, Compete, Competes, InDictionary
        <3> QED
            BY <1>2, <3>1, <3>2 DEF Enters, Doomed
    <2>3. ASSUME NEW b \in Addr, NEW c \in Addr, InDictionary(b)', InDictionary(c)',
                 Compete(b, c)
          PROVE  Doomed(b)' \/ Doomed(c)'
        <3>1. CASE b = a
            BY <2>2, <2>3, <3>1
        <3>2. CASE c = a
            BY <2>2, <2>3, <3>2 DEF Compete
        <3>3. CASE b # a /\ c # a
            BY <2>1, <2>3, <3>3 DEF OneIsDoomed
        <3> QED
            BY <3>1, <3>2, <3>3
    <2> QED
        BY <1>1, <2>3 DEF OneIsDoomed, Compete, Competes, actorVars
<1>3. CASE UNCHANGED actor_dict
    BY <1>1, <1>3, DoomedTogether DEF InDictionary, actorVars
<1> QED
    BY <1>2, <1>3, SubscribeEffect DEF Refuses

LEMMA GrownDooms ==
    ASSUME TypeOK, Grown, UNCHANGED actorVars
    PROVE  \A b \in Addr : Doomed(b) => Doomed(b)'
BY GrownHas DEF Doomed, Leaving, actorVars

LEMMA NextDooms ==
    ASSUME TypeOK, DictsAgree, OneIsDoomed, [Next]_vars
    PROVE  OneIsDoomed'
<1>1. CASE UNCHANGED vars
    BY <1>1 DEF vars, regVars, actorVars, netVars, OneIsDoomed, InDictionary, Compete, Competes,
                Doomed, Leaving, Told
<1>2. ASSUME NEW a \in Addr, Actor(a) \/ Environment(a) PROVE OneIsDoomed'
    <2>1. UNCHANGED <<actor_dict, ident>>
        BY <1>2, ActorEffect DEF Elsewhere
    <2> QED
        BY <1>2, <2>1, ActorDooms, DoomedTogether DEF InDictionary
<1>3. ASSUME NEW a \in Addr, Handler(a) PROVE OneIsDoomed'
    <2>1. UNCHANGED actorVars
        BY <1>3 DEF Handler, Subscribe, IsAlive, UpdateDeviceStatus, SubscribeToActorDict,
                    UnSubscribeFromActorDict, Unsubscribe, UnsubscribeDead
    <2>2. \A b \in Addr : Doomed(b) => Doomed(b)'
        BY <1>3, <2>1, HandlerTyped, GrownDooms
    <2>3. CASE Subscribe(a)
        BY <2>2, <2>3, SubscribeDooms
    <2>4. CASE ~Subscribe(a)
        <3>1. \A id \in Ids : actor_dict'[id] # actor_dict[id] => actor_dict'[id] = NoAddr
            <4>1. ASSUME Forget(a), NEW id \in Ids, actor_dict'[id] # actor_dict[id]
                  PROVE  actor_dict'[id] = NoAddr
                <5> DEFINE gone == CHOOSE i \in Ids : actor_dict[i] = a
                <5>1. actor_dict' = [actor_dict EXCEPT ![gone] = NoAddr]
                    BY <4>1 DEF Forget
                <5> HIDE DEF gone
                <5> QED
                    BY <4>1, <5>1 DEF TypeOK
            <4>2. Forget(a) \/ UNCHANGED actor_dict
                BY <1>3, <2>4 DEF Handler, IsAlive, UpdateDeviceStatus, SubscribeToActorDict,
                                  UnSubscribeFromActorDict, Unsubscribe, UnsubscribeDead
            <4> QED
                BY <4>1, <4>2
        <3>2. \A b \in Addr : InDictionary(b)' => InDictionary(b)
            BY <2>1, <3>1, AddrAssumption DEF InDictionary, TypeOK, actorVars
        <3> QED
            BY <2>1, <2>2, <3>2, DoomedTogether DEF actorVars
    <2> QED
        BY <2>3, <2>4
<1>4. CASE (\E id \in Ids : ControlOff(id)) \/ KeepAliveRound \/ Check \/ GetDeviceStatuses
    <2>1. UNCHANGED <<actor_dict, actorVars>>
        BY <1>4 DEF ControlOff, KeepAliveRound, Check, GetDeviceStatuses, regVars
    <2>2. \A b \in Addr : Doomed(b) => Doomed(b)'
        BY <1>4, <2>1, WatchdogTyped, GrownDooms
    <2> QED
        BY <2>1, <2>2, DoomedTogether DEF InDictionary, actorVars
<1> QED
    BY <1>1, <1>2, <1>3, <1>4 DEF Next

\* When the messages are handled, of the ways to one instrument a single one is
\* left, in whatever order their device actors subscribed, were told to go and
\* went: whoever was told to go has gone by then, and whoever has gone is forgotten.
THEOREM SingleWay == Spec => []OnePerInstrument
<1>1. Init => OneIsDoomed
    BY CastAssumption, AddrAssumption DEF Init, OneIsDoomed, InDictionary
<1>2. TypeOK /\ DictsAgree /\ OneIsDoomed /\ [Next]_vars => OneIsDoomed'
    BY NextDooms
<1>3. TypeOK /\ DictsAgree /\ AllPresent /\ OneIsDoomed => OnePerInstrument
    <2> SUFFICES ASSUME TypeOK, DictsAgree, AllPresent, OneIsDoomed, Quiet,
                        NEW id \in Instruments, NEW jd \in Instruments,
                        id[1] = jd[1], id[2] \in Competing, jd[2] \in Competing,
                        ~mute[actor_dict[id]], ~mute[actor_dict[jd]], id # jd
                 PROVE  FALSE
        BY DEF OnePerInstrument
    <2> DEFINE a == actor_dict[id]
               b == actor_dict[jd]
    <2>1. /\ a \in Addr /\ ident[a] = id /\ InDictionary(a)
          /\ b \in Addr /\ ident[b] = jd /\ InDictionary(b)
        BY DEF Instruments, Registered, DictsAgree, TypeOK, InDictionary
    <2>2. ASSUME NEW c \in Addr, InDictionary(c), ~mute[c], Doomed(c) PROVE FALSE
        <3>1. phase[c] = "gone"
            BY <2>2, NothingUnderWay DEF Doomed, Leaving
        <3>2. SaysGoodBye(c)
            BY DEF AllPresent, Presence
        <3> QED
            BY <2>2, <3>1, <3>2, NothingUnderWay DEF SaysGoodBye
    <2>3. Compete(a, b)
        BY <2>1 DEF Compete, Competes
    <2> HIDE DEF a, b
    <2>4. Doomed(a) \/ Doomed(b)
        BY <2>1, <2>3 DEF OneIsDoomed
    <2> QED
        BY <2>1, <2>2, <2>4 DEF a, b
<1> QED
    BY <1>1, <1>2, <1>3, TypeCorrect, DictionariesAgree, EverybodyPresent, PTL DEF Spec

-----------------------------------------------------------------------------
(* The frontends' views.  What a frontend will have seen when it has read its  *)
(* messages is the last dictionary among them, and what it has seen already    *)
(* when there is none: that one is up to date from the moment its subscription *)
(* is handled.                                                                  *)

IsUpdate(m) == m.type = "UpdateActorDictMsg"
NoUpdate(s) == \A i \in 1..Len(s) : ~IsUpdate(s[i])
Sees(v, s, instruments) ==
    \/ v = instruments /\ NoUpdate(s)
    \/ \E i \in 1..Len(s) : /\ s[i] = UpdateActorDict(instruments)
                            /\ \A j \in 1..Len(s) : j > i => ~IsUpdate(s[j])

Alone(a) == ~IsDevice(ident[a]) /\ \A b \in Addr \ {a} : ident[b] # ident[a]

\* The inductive invariant.
UpToDate(a) ==
    stop = "no" /\ phase[a] = "run" /\ Alone(a) =>
        \/ Doomed(a)
        \/ Has(toReg[a], "SubscribeToActorDictMsg") /\ (InDictionary(a) \/ Arrives(a))
        \/ /\ InDictionary(a) /\ get_updates[ident[a]]
           /\ Sees(view[a], fromReg[a], Instruments)
AllUpToDate == \A a \in Addr : UpToDate(a)

\* Messages about something else change nothing, ...
LEMMA SeesMore ==
    ASSUME NEW v, NEW instruments, NEW s \in Seq(Messages), NEW t \in Seq(Messages),
           NoUpdate(t), Sees(v, s, instruments)
    PROVE  Sees(v, s \o t, instruments)
<1>1. /\ Len(s \o t) = Len(s) + Len(t) /\ Len(s) \in Nat /\ Len(t) \in Nat
      /\ \A i \in 1..Len(s) + Len(t) : (s \o t)[i] = IF i <= Len(s) THEN s[i] ELSE t[i - Len(s)]
    BY ConcatProperties, LenProperties
<1>2. ASSUME NEW i \in 1..Len(s) + Len(t), ~(i <= Len(s)) PROVE ~IsUpdate((s \o t)[i])
    <2>1. i - Len(s) \in 1..Len(t) /\ (s \o t)[i] = t[i - Len(s)]
        BY <1>1, <1>2
    <2> QED
        BY <2>1 DEF NoUpdate
<1>3. CASE v = instruments /\ NoUpdate(s)
    <2>1. NoUpdate(s \o t)
        BY <1>1, <1>2, <1>3 DEF NoUpdate
    <2> QED
        BY <1>3, <2>1 DEF Sees
<1>4. ASSUME NEW i \in 1..Len(s), s[i] = UpdateActorDict(instruments),
             \A j \in 1..Len(s) : j > i => ~IsUpdate(s[j])
      PROVE  Sees(v, s \o t, instruments)
    <2>1. i \in 1..Len(s \o t) /\ (s \o t)[i] = UpdateActorDict(instruments)
        BY <1>1, <1>4
    <2>2. ASSUME NEW j \in 1..Len(s \o t), j > i PROVE ~IsUpdate((s \o t)[j])
        BY <1>1, <1>2, <1>4, <2>2
    <2> QED
        BY <2>1, <2>2 DEF Sees
<1> QED
    BY <1>3, <1>4 DEF Sees

\* ... a new dictionary replaces the others, ...
LEMMA SeesLast ==
    ASSUME NEW v, NEW instruments \in SUBSET Ids, NEW s \in Seq(Messages)
    PROVE  Sees(v, s \o <<UpdateActorDict(instruments)>>, instruments)
<1> DEFINE last == <<UpdateActorDict(instruments)>>
<1>1. last \in Seq(Messages) /\ Len(last) = 1 /\ last[1] = UpdateActorDict(instruments)
    BY MessagesExist, SingletonTyped
<1> HIDE DEF last
<1>2. /\ Len(s \o last) = Len(s) + 1 /\ Len(s) \in Nat
      /\ (s \o last)[Len(s) + 1] = UpdateActorDict(instruments)
    <2>1. /\ Len(s \o last) = Len(s) + Len(last) /\ Len(s) \in Nat
          /\ \A i \in 1..Len(s) + Len(last) :
                 (s \o last)[i] = IF i <= Len(s) THEN s[i] ELSE last[i - Len(s)]
        BY <1>1, ConcatProperties, LenProperties
    <2>2. ~(Len(s) + 1 <= Len(s)) /\ (Len(s) + 1) - Len(s) = 1 /\ Len(s) + 1 \in 1..Len(s) + 1
        BY <2>1
    <2> QED
        BY <1>1, <2>1, <2>2
<1>3. Len(s) + 1 \in 1..Len(s \o last) /\ \A j \in 1..Len(s \o last) : ~(j > Len(s) + 1)
    BY <1>2
<1>4. Sees(v, s \o last, instruments)
    BY <1>2, <1>3 DEF Sees
<1> QED
    BY <1>4 DEF last

\* ... and reading moves a dictionary from the messages to the view.
LEMMA SeesTail ==
    ASSUME NEW v, NEW instruments \in SUBSET Ids, NEW s \in Seq(Messages), s # <<>>,
           Sees(v, s, instruments)
    PROVE  Sees(IF IsUpdate(Head(s)) THEN Head(s).instruments ELSE v, Tail(s), instruments)
<1>1. /\ Head(s) = s[1] /\ Len(Tail(s)) = Len(s) - 1 /\ Tail(s) \in Seq(Messages)
      /\ \A j \in 1..Len(Tail(s)) : Tail(s)[j] = s[j + 1]
      /\ Len(s) \in Nat /\ Len(s) >= 1
    BY HeadTailProperties, LenProperties, EmptySeq
<1>2. UpdateActorDict(instruments).instruments = instruments
    BY DEF UpdateActorDict
<1>3. CASE v = instruments /\ NoUpdate(s)
    <2>1. ~IsUpdate(Head(s)) /\ NoUpdate(Tail(s))
        <3>1. \A j \in 1..Len(Tail(s)) : j + 1 \in 1..Len(s)
            BY <1>1
        <3> QED
            BY <1>1, <1>3, <3>1 DEF NoUpdate
    <2> QED
        BY <1>3, <2>1 DEF Sees
<1>4. ASSUME NEW i \in 1..Len(s), s[i] = UpdateActorDict(instruments),
             \A j \in 1..Len(s) : j > i => ~IsUpdate(s[j])
      PROVE  Sees(IF IsUpdate(Head(s)) THEN Head(s).instruments ELSE v, Tail(s), instruments)
    <2>1. \A j \in 1..Len(Tail(s)) : j + 1 \in 1..Len(s)
        BY <1>1
    <2>2. CASE i = 1
        <3>1. Head(s) = UpdateActorDict(instruments) /\ IsUpdate(Head(s))
            BY <1>1, <1>4, <2>2 DEF IsUpdate, UpdateActorDict
        <3>2. NoUpdate(Tail(s))
            BY <1>1, <1>4, <2>1, <2>2 DEF NoUpdate
        <3> QED
            BY <1>2, <3>1, <3>2 DEF Sees
    <2>3. CASE i # 1
        <3>1. i - 1 \in 1..Len(Tail(s)) /\ Tail(s)[i - 1] = UpdateActorDict(instruments)
            BY <1>1, <1>4, <2>3
        <3>2. \A j \in 1..Len(Tail(s)) : j > i - 1 => ~IsUpdate(Tail(s)[j])
            BY <1>1, <1>4, <2>1
        <3> QED
            BY <3>1, <3>2 DEF Sees
    <2> QED
        BY <2>2, <2>3
<1> QED
    BY <1>3, <1>4 DEF Sees

\* The handlers that change the dictionary tell everybody who wants to know.
Announces ==
    \A b \in Addr : \E said \in Seq(Messages) :
        fromReg'[b] = said \o Updates(actor_dict', get_updates')[b]
SaysNothingNew ==
    \A b \in Addr : \E more \in Seq(Messages) :
        NoUpdate(more) /\ fromReg'[b] = fromReg[b] \o more

LEMMA AnnouncedSees ==
    ASSUME Announces, NEW b \in Addr, ident'[b] \in Ids, InDictionary(b)', b # NoAddr,
           get_updates'[ident'[b]], NEW v
    PROVE  Sees(v, fromReg'[b], Instruments')
<1>1. PICK said \in Seq(Messages) : fromReg'[b] = said \o Updates(actor_dict', get_updates')[b]
    BY DEF Announces
<1>2. b \in SubscribersOf(actor_dict', get_updates')
    BY DEF SubscribersOf, InDictionary
<1>3. Updates(actor_dict', get_updates')[b] = <<UpdateActorDict(Instruments')>>
    BY <1>2 DEF Updates, Instruments, Registered
<1>4. Instruments' \in SUBSET Ids
    BY DEF Instruments
<1> QED
    BY <1>1, <1>3, <1>4, SeesLast

LEMMA SendAnnounces ==
    ASSUME TypeOK, Send(Updates(actor_dict', get_updates'))
    PROVE  Announces
<1>1. \A b \in Addr : /\ fromReg[b] \in Seq(Messages)
                      /\ fromReg'[b] = fromReg[b] \o Updates(actor_dict', get_updates')[b]
    BY DEF TypeOK, Send
<1> QED
    BY <1>1 DEF Announces

LEMMA NothingNewSees ==
    ASSUME TypeOK, SaysNothingNew, NEW b \in Addr, NEW v, UNCHANGED <<actor_dict>>,
           Sees(v, fromReg[b], Instruments)
    PROVE  Sees(v, fromReg'[b], Instruments')
<1>1. PICK more \in Seq(Messages) : NoUpdate(more) /\ fromReg'[b] = fromReg[b] \o more
    BY DEF SaysNothingNew
<1>2. Instruments' = Instruments
    BY DEF Instruments, Registered
<1> QED
    BY <1>1, <1>2, SeesMore DEF TypeOK

LEMMA SilenceIsNothingNew ==
    ASSUME TypeOK, UNCHANGED fromReg
    PROVE  SaysNothingNew
<1>1. NoUpdate(<<>>) /\ <<>> \in Seq(Messages)
    BY DEF NoUpdate
<1>2. \A b \in Addr : fromReg'[b] = fromReg[b] \o <<>>
    BY ConcatEmptySeq DEF TypeOK
<1> QED
    BY <1>1, <1>2 DEF SaysNothingNew


LEMMA ActorUpToDate ==
    ASSUME TypeOK, AllUpToDate, NEW c \in Addr, Actor(c) \/ Environment(c), NEW a \in Addr
    PROVE  UpToDate(a)'
<1>1. /\ Elsewhere(c)
      /\ SaysHello(c) \/ Departs(c) \/ Hangs(c) \/ Answers(c) \/ Returns(c)
    BY ActorEffect
<1>2. /\ UNCHANGED <<actor_dict, get_updates, ident>> /\ (stop' = "no" => stop = "no")
      /\ Instruments' = Instruments /\ Instruments \in SUBSET Ids
    BY <1>1 DEF Elsewhere, Instruments, Registered
<1>3. UpToDate(a)
    BY DEF AllUpToDate
<1>4. CASE a # c
    <2>1. /\ phase'[a] = phase[a] /\ mute'[a] = mute[a] /\ view'[a] = view[a]
          /\ toReg'[a] = toReg[a] /\ fromReg'[a] = fromReg[a]
        BY <1>1, <1>4 DEF Elsewhere
    <2> QED
        BY <1>2, <1>3, <2>1 DEF UpToDate, Alone, Doomed, Leaving, Told, InDictionary, Arrives
<1>5. CASE a = c
    <2>1. CASE SaysHello(a)
        <3>1. ASSUME Alone(a) PROVE Has(toReg'[a], "SubscribeToActorDictMsg") /\ Arrives(a)'
            <4>1. "SubscribeMsg" \in Sayings /\ "SubscribeToActorDictMsg" \in Sayings
                BY DEF Sayings
            <4>2. <<"SubscribeMsg", "SubscribeToActorDictMsg">> \in Seq(Sayings)
                BY <4>1, SayingsExist
            <4>3. Say(a, <<"SubscribeMsg", "SubscribeToActorDictMsg">>)
                BY <2>1, <3>1 DEF SaysHello, Alone
            <4>4. /\ Has(<<"SubscribeMsg", "SubscribeToActorDictMsg">>, "SubscribeMsg")
                  /\ Has(<<"SubscribeMsg", "SubscribeToActorDictMsg">>, "SubscribeToActorDictMsg")
                BY HasShort
            <4> QED
                BY <4>2, <4>3, <4>4, SayHas DEF Arrives
        <3> QED
            BY <1>2, <3>1 DEF UpToDate, Alone
    <2>2. CASE Departs(a)
        BY <2>2 DEF Departs, Leaving, UpToDate
    <2>3. CASE Hangs(a)
        BY <2>3 DEF Hangs, Doomed, UpToDate
    <2>4. CASE Returns(a)
        BY <2>4 DEF Returns, UpToDate
    <2>5. CASE Answers(a)
        <3>1. /\ phase'[a] = phase[a] /\ fromReg[a] \in Seq(Messages) /\ fromReg[a] # <<>>
              /\ fromReg'[a] = Tail(fromReg[a])
              /\ view'[a] = IF IsUpdate(Head(fromReg[a]))
                            THEN Head(fromReg[a]).instruments ELSE view[a]
            BY <2>5 DEF Answers, Remains, Read, TypeOK, IsUpdate
        <3>2. Sees(view[a], fromReg[a], Instruments) => Sees(view'[a], fromReg'[a], Instruments)
            BY <1>2, <3>1, SeesTail
        <3>3. \A m : Has(toReg[a], m) => Has(toReg'[a], m)
            <4>1. <<"keep alive">> \in Seq(Sayings) /\ <<"UpdateDeviceStatusMsg">> \in Seq(Sayings)
                BY DEF Sayings
            <4> QED
                BY <2>5, <4>1, SayHas DEF Answers
        <3>4. Doomed(a) => Doomed(a)'
            BY <1>5, ActorDooms
        <3> QED
            BY <1>2, <1>3, <3>1, <3>2, <3>3, <3>4 DEF UpToDate, Alone, InDictionary, Arrives
    <2> QED
        BY <1>1, <1>5, <2>1, <2>2, <2>3, <2>4, <2>5
<1> QED
    BY <1>4, <1>5

\* A step that is neither about a nor about the dictionary.
LEMMA UnconcernedUpToDate ==
    ASSUME TypeOK, Grown, SaysNothingNew, NEW a \in Addr, UpToDate(a), Running,
           UNCHANGED <<actor_dict, actorVars>>, get_updates'[ident[a]] = get_updates[ident[a]],
           \A m \in {"SubscribeMsg", "SubscribeToActorDictMsg"} :
               Has(toReg[a], m) => Has(toReg'[a], m)
    PROVE  UpToDate(a)'
<1>1. Doomed(a) => Doomed(a)'
    BY GrownDooms
<1>2. Sees(view[a], fromReg[a], Instruments) => Sees(view'[a], fromReg'[a], Instruments')
    BY NothingNewSees DEF actorVars
<1> QED
    BY <1>1, <1>2 DEF UpToDate, Alone, InDictionary, Arrives, actorVars, Running

\* A step that changes the dictionary and says so.
LEMMA InformedUpToDate ==
    ASSUME TypeOK, Grown, Announces, NEW a \in Addr, UpToDate(a), Running,
           UNCHANGED actorVars, actor_dict'[ident[a]] = actor_dict[ident[a]],
           get_updates'[ident[a]] = get_updates[ident[a]],
           \A m \in {"SubscribeMsg", "SubscribeToActorDictMsg"} :
               Has(toReg[a], m) => Has(toReg'[a], m)
    PROVE  UpToDate(a)'
<1>1. Doomed(a) => Doomed(a)'
    BY GrownDooms
<1>2. ident'[a] = ident[a] /\ ident[a] \in Ids /\ a # NoAddr
    BY AddrAssumption DEF TypeOK, actorVars
<1>3. InDictionary(a) => InDictionary(a)'
    BY <1>2 DEF InDictionary
<1>4. InDictionary(a) /\ get_updates[ident[a]] => Sees(view'[a], fromReg'[a], Instruments')
    BY <1>2, <1>3, AnnouncedSees
<1> QED
    BY <1>1, <1>2, <1>3, <1>4 DEF UpToDate, Alone, Arrives, actorVars, Running

LEMMA SubscribeUpToDate ==
    ASSUME TypeOK, AllPresent, AllUpToDate, Running, NEW c \in Addr, Subscribe(c), NEW a \in Addr
    PROVE  UpToDate(a)'
<1>1. /\ UNCHANGED actorVars /\ Next1(c, "SubscribeMsg") /\ Grown /\ UpToDate(a)
      /\ ident[a] \in Ids /\ ident[c] \in Ids
    BY SubscribeTyped DEF Subscribe, AllUpToDate, TypeOK
<1>2. Doomed(a) => Doomed(a)'
    BY <1>1, GrownDooms
<1>3. CASE a = c
    <2>1. /\ Arrives(a) /\ ~InDictionary(a)
          /\ Has(toReg[a], "SubscribeToActorDictMsg") => Has(toReg'[a], "SubscribeToActorDictMsg")
        BY <1>1, <1>3, Next1Has DEF AllPresent, Presence, ArrivesOnce, Arrives
    <2>2. CASE Enters(a)
        <3>1. InDictionary(a)'
            BY <1>1, <2>2 DEF Enters, InDictionary, TypeOK, actorVars
        <3> QED
            BY <1>1, <1>2, <2>1, <3>1 DEF UpToDate, Alone, actorVars, Running
    <2>3. CASE Refuses(a) /\ IsDevice(ident[a])
        BY <1>1, <2>3 DEF UpToDate, Alone, actorVars
    <2>4. CASE stop' # "no"
        BY <2>4 DEF UpToDate
    <2> QED
        BY <1>3, <2>2, <2>3, <2>4, SubscribeEffect
<1>4. CASE a # c /\ Alone(a)
    <2>1. ident[a] # ident[c] /\ toReg'[a] = toReg[a]
        BY <1>1, <1>4, Next1Keeps DEF Alone
    <2>2. CASE Enters(c)
        <3>1. Announces
            BY <2>2 DEF Enters, Announces
        <3>2. /\ actor_dict'[ident[a]] = actor_dict[ident[a]]
              /\ get_updates'[ident[a]] = get_updates[ident[a]]
            BY <1>1, <2>1, <2>2 DEF Enters, TypeOK
        <3> QED
            BY <1>1, <2>1, <3>1, <3>2, InformedUpToDate
    <2>3. CASE Refuses(c)
        <3>1. /\ UNCHANGED <<actor_dict, get_updates>> /\ fromReg'[a] = fromReg[a]
              /\ Instruments' = Instruments
            BY <1>4, <2>3 DEF Refuses, Instruments, Registered
        <3> QED
            BY <1>1, <1>2, <2>1, <3>1 DEF UpToDate, Alone, InDictionary, Arrives, actorVars, Running
    <2>4. CASE stop' # "no"
        BY <2>4 DEF UpToDate
    <2> QED
        BY <2>2, <2>3, <2>4, SubscribeEffect
<1>5. CASE ~Alone(a)
    BY <1>1, <1>5 DEF UpToDate, Alone, actorVars
<1> QED
    BY <1>3, <1>4, <1>5

LEMMA ForgetUpToDate ==
    ASSUME TypeOK, DictsAgree, AllPresent, AllUpToDate, Running, NEW c \in Addr,
           Unsubscribe(c) \/ UnsubscribeDead(c), NEW a \in Addr
    PROVE  UpToDate(a)'
<1>1. Forget(c) /\ UNCHANGED actorVars /\ Grown /\ UpToDate(a) /\ ident[a] \in Ids
    BY ForgetTyped DEF Unsubscribe, UnsubscribeDead, AllUpToDate, TypeOK
<1>2. CASE a = c
    <2>1. Presence(a) /\ (Has(toReg[a], "UnsubscribeMsg") \/ a \in deadLetters)
        <3>1. Presence(a)
            BY DEF AllPresent
        <3> QED
            BY <1>2, <3>1, Next1Has DEF Presence, Unsubscribe, UnsubscribeDead
    <2>2. phase'[a] = "gone"
        BY <1>1, <2>1 DEF Presence, SaysGoodBye, actorVars
    <2> QED
        BY <2>2 DEF UpToDate
<1>3. CASE a # c /\ Alone(a)
    <2>1. ident[a] # ident[c] /\ toReg'[a] = toReg[a]
        BY <1>3, Next1Keeps DEF Alone, Unsubscribe, UnsubscribeDead
    <2>2. CASE ~ \E id \in Ids : actor_dict[id] = c
        <3>1. UNCHANGED <<actor_dict, get_updates, fromReg>>
            BY <1>1, <2>2 DEF Forget
        <3> QED
            BY <1>1, <2>1, <3>1, SilenceIsNothingNew, UnconcernedUpToDate
    <2>3. CASE \E id \in Ids : actor_dict[id] = c
        <3> DEFINE gone == CHOOSE i \in Ids : actor_dict[i] = c
        <3>1. gone \in Ids /\ actor_dict[gone] = c
            BY <2>3
        <3>2. /\ actor_dict' = [actor_dict EXCEPT ![gone] = NoAddr]
              /\ get_updates' = [get_updates EXCEPT ![gone] = FALSE]
              /\ Send(Updates(actor_dict', get_updates'))
            BY <1>1, <2>3 DEF Forget
        <3> HIDE DEF gone
        <3>3. ident[c] = gone
            BY <3>1, AddrAssumption DEF DictsAgree, Registered
        <3>4. /\ actor_dict'[ident[a]] = actor_dict[ident[a]]
              /\ get_updates'[ident[a]] = get_updates[ident[a]]
            BY <1>1, <2>1, <3>1, <3>2, <3>3 DEF TypeOK
        <3> QED
            BY <1>1, <2>1, <3>2, <3>4, SendAnnounces, InformedUpToDate
    <2> QED
        BY <2>2, <2>3
<1>4. CASE ~Alone(a)
    BY <1>1, <1>4 DEF UpToDate, Alone, actorVars
<1> QED
    BY <1>2, <1>3, <1>4

\* The subscription gets the dictionary of the moment.
LEMMA SubscribeToActorDictUpToDate ==
    ASSUME TypeOK, AllPresent, AllUpToDate, Running, NEW c \in Addr, SubscribeToActorDict(c),
           NEW a \in Addr
    PROVE  UpToDate(a)'
<1>1. /\ UNCHANGED <<actorVars, actor_dict>> /\ Next1(c, "SubscribeToActorDictMsg") /\ Grown
      /\ UpToDate(a) /\ Presence(a) /\ ident[a] \in Ids /\ a # NoAddr
    BY HandlerTyped, AddrAssumption DEF SubscribeToActorDict, Handler, AllUpToDate, AllPresent,
       TypeOK
<1>2. \/ UNCHANGED <<get_updates, fromReg>>
      \/ /\ get_updates' = [get_updates EXCEPT ![ident[c]] = TRUE]
         /\ Send(Updates(actor_dict', get_updates'))
    BY <1>1 DEF SubscribeToActorDict
<1>3. CASE a = c
    <2>1. ~Arrives(a)
        BY <1>1, <1>3, Next1Has DEF Presence
    <2>2. ASSUME InDictionary(a) PROVE UpToDate(a)'
        <3>1. /\ get_updates' = [get_updates EXCEPT ![ident[a]] = TRUE]
              /\ Send(Updates(actor_dict', get_updates'))
            BY <1>1, <1>3, <2>2 DEF SubscribeToActorDict, Registered, InDictionary
        <3>2. /\ InDictionary(a)' /\ get_updates'[ident'[a]] /\ Announces /\ ident'[a] \in Ids
            BY <1>1, <2>2, <3>1, SendAnnounces DEF InDictionary, TypeOK, actorVars
        <3>3. Sees(view'[a], fromReg'[a], Instruments')
            BY <1>1, <3>2, AnnouncedSees
        <3> QED
            BY <3>2, <3>3 DEF UpToDate
    <2>3. CASE ~InDictionary(a)
        <3>1. Doomed(a) => Doomed(a)'
            BY <1>1, GrownDooms
        <3> QED
            BY <1>1, <2>1, <2>3, <3>1 DEF UpToDate, Alone, actorVars, Running
    <2> QED
        BY <2>2, <2>3
<1>4. CASE a # c /\ Alone(a)
    <2>1. ident[a] # ident[c] /\ toReg'[a] = toReg[a]
        BY <1>1, <1>4, Next1Keeps DEF Alone
    <2>2. CASE UNCHANGED <<get_updates, fromReg>>
        BY <1>1, <2>1, <2>2, SilenceIsNothingNew, UnconcernedUpToDate
    <2>3. CASE /\ get_updates' = [get_updates EXCEPT ![ident[c]] = TRUE]
               /\ Send(Updates(actor_dict', get_updates'))
        <3>1. get_updates'[ident[a]] = get_updates[ident[a]]
            BY <1>1, <2>1, <2>3 DEF TypeOK
        <3> QED
            BY <1>1, <2>1, <2>3, <3>1, SendAnnounces, InformedUpToDate
    <2> QED
        BY <1>2, <2>2, <2>3
<1>5. CASE ~Alone(a)
    BY <1>1, <1>5 DEF UpToDate, Alone, actorVars
<1> QED
    BY <1>3, <1>4, <1>5


\* The other handlers.
LEMMA OthersUpToDate ==
    ASSUME TypeOK, AllPresent, AllUpToDate, Running, NEW c \in Addr,
           IsAlive(c) \/ UpdateDeviceStatus(c) \/ UnSubscribeFromActorDict(c), NEW a \in Addr
    PROVE  UpToDate(a)'
<1>1. /\ UNCHANGED <<actorVars, actor_dict, fromReg>> /\ Grown
      /\ UpToDate(a) /\ Presence(a) /\ ident[a] \in Ids /\ ident[c] \in Ids
    BY HandlerTyped DEF IsAlive, UpdateDeviceStatus, UnSubscribeFromActorDict, Handler,
                        AllUpToDate, AllPresent, TypeOK
<1>2. PICK m \in {"keep alive", "UpdateDeviceStatusMsg", "UnSubscribeFromActorDictMsg"} :
         /\ Next1(c, m)
         /\ m # "UnSubscribeFromActorDictMsg" => UNCHANGED get_updates
         /\ m = "UnSubscribeFromActorDictMsg"
               => get_updates' = [get_updates EXCEPT ![ident[c]] = FALSE]
    BY DEF IsAlive, UpdateDeviceStatus, UnSubscribeFromActorDict
<1>3. SaysNothingNew
    BY <1>1, SilenceIsNothingNew
<1>4. \A n \in {"SubscribeMsg", "SubscribeToActorDictMsg"} :
          Has(toReg[a], n) => Has(toReg'[a], n)
    <2>1. {"SubscribeMsg", "SubscribeToActorDictMsg"} \subseteq Sayings \ {m}
        BY <1>2 DEF Sayings
    <2> QED
        BY <1>2, <2>1, Next1Keeps
<1>5. CASE get_updates'[ident[a]] = get_updates[ident[a]]
    BY <1>1, <1>3, <1>4, <1>5, UnconcernedUpToDate
<1>6. CASE get_updates'[ident[a]] # get_updates[ident[a]]
    <2>1. m = "UnSubscribeFromActorDictMsg" /\ ident[a] = ident[c]
        BY <1>1, <1>2, <1>6 DEF TypeOK
    <2>2. CASE a = c
        <3>1. phase'[a] # "run"
            <4>1. Has(toReg[a], "UnSubscribeFromActorDictMsg")
                BY <1>1, <1>2, <2>1, <2>2, Next1Has DEF Presence
            <4> QED
                BY <1>1, <4>1 DEF Presence, SaysGoodBye, Leaving, actorVars
        <3> QED
            BY <3>1 DEF UpToDate
    <2>3. CASE a # c
        BY <1>1, <2>1, <2>3 DEF UpToDate, Alone, actorVars
    <2> QED
        BY <2>2, <2>3
<1> QED
    BY <1>5, <1>6

LEMMA WatchdogSaysNothingNew ==
    ASSUME TypeOK,
           (\E id \in Ids : ControlOff(id)) \/ KeepAliveRound \/ Check \/ GetDeviceStatuses
    PROVE  SaysNothingNew
<1>1. /\ <<Kill(TRUE)>> \in Seq(Messages) /\ <<KeepAlive>> \in Seq(Messages)
      /\ <<>> \in Seq(Messages)
    <2>1. <<>> \in Seq(Messages)
        OBVIOUS
    <2> QED
        BY <2>1, MessagesExist, SingletonTyped
<1>2. NoUpdate(<<Kill(TRUE)>>) /\ NoUpdate(<<KeepAlive>>) /\ NoUpdate(<<>>)
    <2>1. Kill(TRUE).type # "UpdateActorDictMsg" /\ KeepAlive.type # "UpdateActorDictMsg"
        BY DEF Kill, KeepAlive
    <2>2. ASSUME NEW m, m.type # "UpdateActorDictMsg" PROVE NoUpdate(<<m>>)
        <3>1. Len(<<m>>) = 1 /\ <<m>>[1] = m
            OBVIOUS
        <3> QED
            BY <2>2, <3>1 DEF NoUpdate, IsUpdate
    <2>3. NoUpdate(<<>>)
        BY DEF NoUpdate
    <2> QED
        BY <2>1, <2>2, <2>3
<1>3. ASSUME NEW out, Send(out),
             \A b \in Addr : out[b] \in {<<Kill(TRUE)>>, <<KeepAlive>>, <<>>}
      PROVE  SaysNothingNew
    <2>1. \A b \in Addr : fromReg'[b] = fromReg[b] \o out[b]
        BY <1>3 DEF Send
    <2>2. \A b \in Addr : out[b] \in Seq(Messages) /\ NoUpdate(out[b])
        BY <1>1, <1>2, <1>3
    <2> QED
        BY <2>1, <2>2 DEF SaysNothingNew
<1>4. ASSUME NEW id \in Ids, ControlOff(id) PROVE SaysNothingNew
    <2> DEFINE out == [Nothing EXCEPT ![actor_dict[id]] = <<Kill(TRUE)>>]
    <2>1. Send(out) /\ \A b \in Addr : out[b] \in {<<Kill(TRUE)>>, <<KeepAlive>>, <<>>}
        BY <1>4 DEF ControlOff, Nothing
    <2> HIDE DEF out
    <2> QED
        BY <1>3, <2>1
<1>5. CASE KeepAliveRound
    <2> DEFINE out == [a \in Addr |->
                          IF /\ \E id \in Ids : actor_dict[id] = a
                             /\ mute[a] /\ phase[a] # "gone" => KeepAlive \notin Unread(a)
                          THEN <<KeepAlive>> ELSE <<>>]
    <2>1. Send(out) /\ \A b \in Addr : out[b] \in {<<Kill(TRUE)>>, <<KeepAlive>>, <<>>}
        BY <1>5 DEF KeepAliveRound
    <2> HIDE DEF out
    <2> QED
        BY <1>3, <2>1
<1>6. CASE Check \/ GetDeviceStatuses
    BY <1>6, SilenceIsNothingNew DEF Check, GetDeviceStatuses, netVars
<1> QED
    BY <1>4, <1>5, <1>6

LEMMA NextUpToDate ==
    ASSUME TypeOK, DictsAgree, AllPresent, AllUpToDate, [Next]_vars
    PROVE  AllUpToDate'
<1>1. CASE UNCHANGED vars
    BY <1>1 DEF vars, regVars, actorVars, netVars, AllUpToDate, UpToDate, Alone, InDictionary,
                Arrives, Leaving, Doomed, Told, Instruments, Registered
<1>2. ASSUME Next, NEW a \in Addr PROVE UpToDate(a)'
    <2>1. Running
        BY <1>2 DEF Next
    <2>2. ASSUME NEW c \in Addr, Actor(c) \/ Environment(c) PROVE UpToDate(a)'
        BY <2>2, ActorUpToDate
    <2>3. ASSUME NEW c \in Addr, Handler(c) PROVE UpToDate(a)'
        BY <2>1, <2>3, SubscribeUpToDate, ForgetUpToDate, SubscribeToActorDictUpToDate,
           OthersUpToDate DEF Handler
    <2>4. CASE (\E id \in Ids : ControlOff(id)) \/ KeepAliveRound \/ Check \/ GetDeviceStatuses
        <3>1. UNCHANGED <<actor_dict, get_updates, actorVars, toReg>>
            BY <2>4 DEF ControlOff, KeepAliveRound, Check, GetDeviceStatuses, regVars, netVars
        <3>2. Grown /\ SaysNothingNew /\ UpToDate(a)
            BY <2>4, WatchdogTyped, WatchdogSaysNothingNew DEF AllUpToDate
        <3> QED
            BY <2>1, <3>1, <3>2, UnconcernedUpToDate
    <2> QED
        BY <1>2, <2>2, <2>3, <2>4 DEF Next
<1> QED
    BY <1>1, <1>2 DEF AllUpToDate

\* When the messages are handled, a frontend that runs and never shares its id with
\* another shows the instruments of the dictionary, although it is sent copies of
\* it, after a subscription of its own, and instruments come and go in between.
THEOREM FrontendsSeeAll == Spec => []ViewsAgree
<1>1. Init => AllUpToDate
    BY DEF Init, AllUpToDate, UpToDate
<1>2. TypeOK /\ DictsAgree /\ AllPresent /\ AllUpToDate /\ [Next]_vars => AllUpToDate'
    BY NextUpToDate
<1>3. AllUpToDate => ViewsAgree
    <2> SUFFICES ASSUME AllUpToDate, Quiet, NEW a \in Addr, phase[a] = "run", ~mute[a],
                        ~IsDevice(ident[a]), \A b \in Addr \ {a} : ident[b] # ident[a]
                 PROVE  view[a] = Instruments
        BY DEF ViewsAgree
    <2>1. UpToDate(a) /\ Alone(a) /\ stop = "no"
        BY DEF AllUpToDate, Alone, Quiet, Running
    <2>2. ~Doomed(a) /\ ~Has(toReg[a], "SubscribeToActorDictMsg") /\ fromReg[a] = <<>>
        BY NothingUnderWay DEF Doomed, Leaving
    <2>3. Sees(view[a], <<>>, Instruments)
        BY <2>1, <2>2 DEF UpToDate
    <2> QED
        BY <2>3 DEF Sees
<1> QED
    BY <1>1, <1>2, <1>3, TypeCorrect, DictionariesAgree, EverybodyPresent, PTL DEF Spec

=============================================================================
