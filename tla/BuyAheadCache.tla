--------------------------- MODULE BuyAheadCache ---------------------------
(***************************************************************************)
(* The binary channel of the MQTT frontend (MqttSchedulerActor) with its   *)
(* buy-ahead cache.  To speed up a download the frontend does not wait for *)
(* the next GetNext of the application: it repeats the command on its own  *)
(* account and keeps the reply.  Five threads per instrument take part:    *)
(*                                                                         *)
(*   paho       the MQTT client's thread: on_control, on_cmd;              *)
(*   actor      the actor's thread: ReservationStatusMsg, RxBinaryMsg;     *)
(*   filler     _fill_cache, one per reply to a buy-ahead command;         *)
(*   publisher  _publish_function, one per GetNext but the first;          *)
(*   the device actor with its instrument (external).                      *)
(*                                                                         *)
(* paho and actor serve all instruments, and the two Conditions of a       *)
(* CachedReply are attributes of the class, so all instruments share them. *)
(* A step of a thread ends where another thread may see the difference.    *)
(*                                                                         *)
(* The application is the MqttDeviceActor of a remote server: it sends the *)
(* next command when the last one is answered.  Binary data are the names  *)
(* of the frames they carry; <<>> is b"".  The byte cmd_id counts modulo   *)
(* 256; a session is shorter than that, so the number of the command       *)
(* stands for it.                                                          *)
(***************************************************************************)
EXTENDS Naturals, Sequences, FiniteSetsExt

CONSTANTS
    Instruments,
    Scripts,        \* sessions of an application, see DirectLine
    MaxLeases,      \* bound of reserve and free commands in a session
    Slow            \* those of "instrument", "broker" that are slow: they act
                    \* only when the threads of the server have come to rest

Commands == {"reserve", "free", "next", "other"}
Control == {"reserve", "free"}

ControlsOf(s) == Cardinality({k \in 1 .. Len(s) : s[k] \in Control})

ASSUME SessionAssumption ==
    /\ MaxLeases \in Nat \ {0}
    /\ Slow \subseteq {"instrument", "broker"}
    /\ \A s \in Scripts :
        /\ s \in Seq(Commands)
        /\ s # <<>> => s[1] = "reserve"
        /\ ControlsOf(s) <= MaxLeases

VARIABLES
    app,        \* [Instruments -> [script, sent, pending, got]]: the sessions
    hears,      \* the instruments whose MSG topic the application subscribes to
    cmds,       \* control and cmd messages at the paho thread
    msgs,       \* [Instruments -> messages at the application]
    control,    \* pending_control_action["control"].ctype
    paho,       \* [pc, instr] of the paho thread
    actor,      \* [pc, instr] of the actor's thread
    rx,         \* mailbox of the actor
    line,       \* [Instruments -> [inbox, reserved, block, pos]]: device actors
    cache,      \* [Instruments -> cmd_ids and cached_replies of the instrument]
    publisher,  \* [Thread -> pc of the empty_cache_thread]
    filler,     \* [Thread -> pc and data of the fill_cache_thread]
    emptyQ,     \* fillers waiting for cache_empty, the longest waiting first
    filledQ     \* publishers waiting for cache_filled

server == <<hears, control, paho, actor, rx, cache, publisher, filler, emptyQ, filledQ>>
vars == <<app, cmds, msgs, line, server>>

Direct == INSTANCE DirectLine

NoData == <<>>
Fresh(lease) ==
    [id |-> 0, lease |-> lease, ahead |-> FALSE, first |-> FALSE, reply |-> NoData]

\* A thread belongs to the CachedReply it was started for.
Thread == Instruments \X (0 .. MaxLeases)
Current(i) == <<i, cache[i].lease>>

Init ==
    /\ Direct!Init
    /\ hears = {}
    /\ cmds = <<>>
    /\ msgs = [i \in Instruments |-> <<>>]
    /\ control = "unknown"
    /\ paho = [pc |-> "idle"]
    /\ actor = [pc |-> "idle"]
    /\ rx = <<>>
    /\ line = [i \in Instruments |->
                [inbox |-> <<>>, reserved |-> FALSE, block |-> 0, pos |-> 0]]
    /\ cache = [i \in Instruments |-> Fresh(0)]
    /\ publisher = [t \in Thread |-> "idle"]
    /\ filler = [t \in Thread |-> [pc |-> "idle", data |-> NoData]]
    /\ emptyQ = <<>>
    /\ filledQ = <<>>

Idle == [pc |-> "idle"]
At(pc, i) == [pc |-> pc, instr |-> i]

ToDevice(i, cmd) == line' = [line EXCEPT ![i].inbox = Append(@, cmd)]
Publish(i, m) == msgs' = [msgs EXCEPT ![i] = Append(@, m)]
PublishReply(i, data) ==
    Publish(i, [topic |-> "msg", id |-> cache[i].id, data |-> data])

\* TxBinaryMsg(buy_ahead): without a running buy-ahead the command is b"".
BuyAhead(i) == ToDevice(i, IF cache[i].ahead THEN "next" ELSE "empty")

\* Condition.notify wakes the one thread that has waited longest.
\* mutant: the thread is woken but stays in the queue
NotifyEmptyKeepsQueue ==
    IF emptyQ = <<>> THEN UNCHANGED <<emptyQ, filler>>
    ELSE filler' = [filler EXCEPT ![Head(emptyQ)].pc = "check"] /\ UNCHANGED emptyQ

NotifyEmpty ==
    IF emptyQ = <<>> THEN UNCHANGED <<emptyQ, filler>>
    ELSE /\ filler' = [filler EXCEPT ![Head(emptyQ)].pc = "check"]
         /\ emptyQ' = Tail(emptyQ)

NotifyFilled ==
    IF filledQ = <<>> THEN UNCHANGED <<filledQ, publisher>>
    ELSE /\ publisher' = [publisher EXCEPT ![Head(filledQ)] = "check"]
         /\ filledQ' = Tail(filledQ)

\* No thread of the server has anything left to do by itself.
AtRest ==
    /\ paho.pc = "idle" /\ cmds = <<>>
    /\ actor.pc = "idle" /\ rx = <<>>
    /\ \A t \in Thread :
        /\ filler[t].pc \in {"idle", "wait"}
        /\ \/ publisher[t] \in {"idle", "wait"}
           \/ publisher[t] = "spin" /\ cache[t[1]].first

(***************************************************************************)
(* The application: MqttDeviceActor._request_bin_at_is and on_msg.         *)
(***************************************************************************)
AppSend(i) ==
    /\ Direct!Send(i)
    /\ cmds' = Append(cmds, [instr |-> i, id |-> app'[i].sent,
                             cmd |-> app[i].script[app'[i].sent]])
    /\ UNCHANGED <<msgs, line, server>>

Receives(i, topic) ==
    /\ msgs[i] # <<>>
    /\ Head(msgs[i]).topic = topic
    /\ "broker" \in Slow => AtRest
    /\ msgs' = [msgs EXCEPT ![i] = Tail(@)]
    /\ UNCHANGED <<cmds, line, control, paho, actor, rx, cache, publisher, filler,
                   emptyQ, filledQ>>

Answered(i, answer) ==
    app' = [app EXCEPT ![i].pending = FALSE, ![i].got = Append(@, answer)]

Pends(i, kinds) == app[i].pending /\ app[i].script[app[i].sent] \in kinds

\* on_reserve, reduced to what matters here: a published reservation answers the
\* pending control request; a granted one comes with the MSG topic.
AppReceiveReservation(i) ==
    /\ Receives(i, "reservation")
    /\ IF Pends(i, Control)
       THEN LET status == Head(msgs[i]).status IN
            /\ Answered(i, <<"status", status>>)
            /\ hears' = IF status = "reserve" THEN hears \cup {i} ELSE hears
       ELSE UNCHANGED <<app, hears>>

\* A reply counts if its cmd_id is that of the pending command.  One that comes
\* when no binary command is pending makes the application unsubscribe.
AppReceiveMsg(i) ==
    /\ Receives(i, "msg")
    /\ LET m == Head(msgs[i]) IN
       CASE i \notin hears -> UNCHANGED <<app, hears>>
         [] i \in hears /\ ~Pends(i, Commands \ Control) ->
                hears' = hears \ {i} /\ UNCHANGED app
         [] OTHER ->
                /\ IF m.id = app[i].sent THEN Answered(i, m.data) ELSE UNCHANGED app
                /\ UNCHANGED hears

(***************************************************************************)
(* The paho thread.                                                        *)
(***************************************************************************)
Takes(kinds) ==
    /\ paho = Idle
    /\ cmds # <<>>
    /\ Head(cmds).cmd \in kinds
    /\ cmds' = Tail(cmds)

\* on_control, _process_reserve and _process_free: the message to the device
\* actor first, the new CachedReply afterwards.
OnControl ==
    LET c == Head(cmds) IN
    /\ Takes(Control)
    /\ control' = c.cmd
    /\ ToDevice(c.instr, c.cmd)
    /\ paho' = At("replace", c.instr)
    /\ UNCHANGED <<app, hears, msgs, actor, rx, cache, publisher, filler, emptyQ, filledQ>>

ReplaceCache ==
    LET i == paho.instr IN
    /\ paho.pc = "replace"
    /\ cache' = [cache EXCEPT ![i] = [Fresh(@.lease + 1) EXCEPT !.id = cache[i].id]]
    /\ paho' = Idle
    /\ UNCHANGED <<app, hears, cmds, msgs, control, actor, rx, line, publisher, filler,
                   emptyQ, filledQ>>

\* on_cmd of the first GetNext: forward it, then remember it for buying ahead.
OnFirstGetNext ==
    LET c == Head(cmds) IN
    /\ Takes({"next"})
    /\ ~cache[c.instr].ahead
    /\ cache' = [cache EXCEPT ![c.instr].id = c.id]
    /\ ToDevice(c.instr, c.cmd)
    /\ paho' = At("ahead", c.instr)
    /\ UNCHANGED <<app, hears, msgs, control, actor, rx, publisher, filler, emptyQ, filledQ>>

RememberGetNext ==
    /\ paho.pc = "ahead"
    /\ cache' = [cache EXCEPT ![paho.instr].ahead = TRUE]
    /\ paho' = At("first", paho.instr)
    /\ UNCHANGED <<app, hears, cmds, msgs, control, actor, rx, line, publisher, filler,
                   emptyQ, filledQ>>

MarkFirst ==
    /\ paho.pc = "first"
    /\ cache' = [cache EXCEPT ![paho.instr].first = TRUE]
    /\ paho' = Idle
    /\ UNCHANGED <<app, hears, cmds, msgs, control, actor, rx, line, publisher, filler,
                   emptyQ, filledQ>>

\* on_cmd of every later GetNext: have the cached reply published.  The command
\* is dropped if the thread of the one before it is still alive.
OnGetNext ==
    LET c == Head(cmds)
        t == Current(c.instr)
    IN  /\ Takes({"next"})
        /\ cache[c.instr].ahead
        /\ cache' = [cache EXCEPT ![c.instr].id = c.id, ![c.instr].first = FALSE]
        /\ publisher' = [publisher EXCEPT ![t] = IF @ = "idle" THEN "spin" ELSE @]
        /\ UNCHANGED <<app, hears, msgs, control, paho, actor, rx, line, filler, emptyQ,
                       filledQ>>

\* on_cmd of any other command: forward it, then end the buy-ahead.
OnOtherCmd ==
    LET c == Head(cmds) IN
    /\ Takes({"other"})
    /\ cache' = [cache EXCEPT ![c.instr].id = c.id]
    /\ ToDevice(c.instr, c.cmd)
    /\ paho' = At("forget", c.instr)
    /\ UNCHANGED <<app, hears, msgs, control, actor, rx, publisher, filler, emptyQ, filledQ>>

ForgetGetNext ==
    /\ paho.pc = "forget"
    /\ cache' = [cache EXCEPT ![paho.instr].ahead = FALSE]
    /\ paho' = At("clear", paho.instr)
    /\ UNCHANGED <<app, hears, cmds, msgs, control, actor, rx, line, publisher, filler,
                   emptyQ, filledQ>>

ClearCache ==
    /\ paho.pc = "clear"
    /\ cache' = [cache EXCEPT ![paho.instr].reply = NoData]
    /\ NotifyEmpty
    /\ paho' = Idle
    /\ UNCHANGED <<app, hears, cmds, msgs, control, actor, rx, line, publisher, filledQ>>

Paho ==
    \/ OnControl \/ ReplaceCache
    \/ OnFirstGetNext \/ RememberGetNext \/ MarkFirst
    \/ OnGetNext
    \/ OnOtherCmd \/ ForgetGetNext \/ ClearCache

(***************************************************************************)
(* The thread of the actor.                                                *)
(***************************************************************************)
Handles(kind) ==
    /\ actor = Idle
    /\ rx # <<>>
    /\ Head(rx).kind = kind
    /\ rx' = Tail(rx)

\* receiveMsg_ReservationStatusMsg: published only while a control action is
\* pending, whichever instrument that was for.
ReceiveReservationStatus ==
    LET i == Head(rx).instr IN
    /\ Handles("status")
    /\ IF control \in Control
       THEN /\ Publish(i, [topic |-> "reservation", status |-> control])
            /\ actor' = At("unset", i)
       ELSE UNCHANGED <<msgs, actor>>
    /\ UNCHANGED <<app, hears, cmds, control, paho, line, cache, publisher, filler,
                   emptyQ, filledQ>>

UnsetControl ==
    /\ actor.pc = "unset"
    /\ control' = "unknown"
    /\ actor' = At("wakeFiller", actor.instr)
    /\ UNCHANGED <<app, hears, cmds, msgs, paho, rx, line, cache, publisher, filler,
                   emptyQ, filledQ>>

WakeFiller ==
    /\ actor.pc = "wakeFiller"
    /\ NotifyEmpty
    /\ actor' = At("wakePublisher", actor.instr)
    /\ UNCHANGED <<app, hears, cmds, msgs, control, paho, rx, line, cache, publisher, filledQ>>

WakePublisher ==
    /\ actor.pc = "wakePublisher"
    /\ NotifyFilled
    /\ actor' = Idle
    /\ UNCHANGED <<app, hears, cmds, msgs, control, paho, rx, line, cache, filler, emptyQ>>

\* receiveMsg_RxBinaryMsg without buy-ahead: publish the reply.
ReceiveReply ==
    LET r == Head(rx) IN
    /\ Handles("data")
    /\ ~cache[r.instr].ahead
    /\ PublishReply(r.instr, r.data)
    /\ UNCHANGED <<app, hears, cmds, control, paho, actor, line, cache, publisher, filler,
                   emptyQ, filledQ>>

\* ... to the first GetNext: publish the reply, then send the buy-ahead command.
ReceiveFirstReply ==
    LET r == Head(rx) IN
    /\ Handles("data")
    /\ cache[r.instr].ahead /\ cache[r.instr].first
    /\ PublishReply(r.instr, r.data)
    /\ actor' = At("buyAhead", r.instr)
    /\ UNCHANGED <<app, hears, cmds, control, paho, line, cache, publisher, filler,
                   emptyQ, filledQ>>

StartBuyAhead ==
    /\ actor.pc = "buyAhead"
    /\ BuyAhead(actor.instr)
    /\ cache' = [cache EXCEPT ![actor.instr].first = FALSE]
    /\ actor' = Idle
    /\ UNCHANGED <<app, hears, cmds, msgs, control, paho, rx, publisher, filler,
                   emptyQ, filledQ>>

\* ... to a buy-ahead command: have it put into the cache.  The reply is dropped
\* if the thread for the one before it is still alive.
ReceiveBoughtReply ==
    LET r == Head(rx)
        t == Current(r.instr)
    IN  /\ Handles("data")
        /\ cache[r.instr].ahead /\ ~cache[r.instr].first
        /\ filler' = IF filler[t].pc = "idle"
                     THEN [filler EXCEPT ![t] = [pc |-> "check", data |-> r.data]]
                     ELSE filler
        /\ UNCHANGED <<app, hears, cmds, msgs, control, paho, actor, line, cache, publisher,
                       emptyQ, filledQ>>

Actor ==
    \/ ReceiveReservationStatus \/ UnsetControl \/ WakeFiller \/ WakePublisher
    \/ ReceiveReply
    \/ ReceiveFirstReply \/ StartBuyAhead
    \/ ReceiveBoughtReply

(***************************************************************************)
(* _fill_cache.  The reply is stored, and the next buy-ahead command sent, *)
(* after cache_empty is released and before cache_filled is taken.         *)
(***************************************************************************)
\* mutant: without waiting for an empty cache
FillCheckWithoutWait(t) ==
    /\ filler[t].pc = "check"
    /\ filler' = [filler EXCEPT ![t].pc = IF filler[t].data = NoData THEN "idle" ELSE "store"]
    /\ UNCHANGED <<app, hears, cmds, msgs, control, paho, actor, rx, line, cache, publisher,
                   emptyQ, filledQ>>

FillCheck(t) ==
    /\ filler[t].pc = "check"
    /\ IF cache[t[1]].reply # NoData
       THEN /\ filler' = [filler EXCEPT ![t].pc = "wait"]
            /\ emptyQ' = Append(emptyQ, t)
       ELSE /\ filler' = [filler EXCEPT ![t].pc = IF filler[t].data = NoData THEN "idle"
                                                                             ELSE "store"]
            /\ UNCHANGED emptyQ
    /\ UNCHANGED <<app, hears, cmds, msgs, control, paho, actor, rx, line, cache, publisher,
                   filledQ>>

FillStore(t) ==
    /\ filler[t].pc = "store"
    /\ cache' = [cache EXCEPT ![t[1]].reply = filler[t].data]
    /\ filler' = [filler EXCEPT ![t].pc = "send"]
    /\ UNCHANGED <<app, hears, cmds, msgs, control, paho, actor, rx, line, publisher,
                   emptyQ, filledQ>>

FillSend(t) ==
    /\ filler[t].pc = "send"
    /\ BuyAhead(t[1])
    /\ filler' = [filler EXCEPT ![t].pc = "notify"]
    /\ UNCHANGED <<app, hears, cmds, msgs, control, paho, actor, rx, cache, publisher,
                   emptyQ, filledQ>>

\* mutant: without notify
FillNotifyNobody(t) ==
    /\ filler[t].pc = "notify"
    /\ filler' = [filler EXCEPT ![t] = [pc |-> "idle", data |-> NoData]]
    /\ UNCHANGED <<app, hears, cmds, msgs, control, paho, actor, rx, line, cache, publisher,
                   emptyQ, filledQ>>

FillNotify(t) ==
    /\ filler[t].pc = "notify"
    /\ NotifyFilled
    /\ filler' = [filler EXCEPT ![t] = [pc |-> "idle", data |-> NoData]]
    /\ UNCHANGED <<app, hears, cmds, msgs, control, paho, actor, rx, line, cache, emptyQ>>

Fill(t) == FillCheck(t) \/ FillStore(t) \/ FillSend(t) \/ FillNotify(t)

(***************************************************************************)
(* _publish_function.                                                      *)
(***************************************************************************)
PublishSpin(t) ==
    /\ publisher[t] = "spin"
    /\ ~cache[t[1]].first
    /\ publisher' = [publisher EXCEPT ![t] = "check"]
    /\ UNCHANGED <<app, hears, cmds, msgs, control, paho, actor, rx, line, cache, filler,
                   emptyQ, filledQ>>

\* mutant: without waiting for a filled cache
PublishCheckWithoutWait(t) ==
    /\ publisher[t] = "check"
    /\ publisher' = [publisher EXCEPT ![t] = "publish"]
    /\ UNCHANGED <<app, hears, cmds, msgs, control, paho, actor, rx, line, cache, filler,
                   emptyQ, filledQ>>

PublishCheck(t) ==
    /\ publisher[t] = "check"
    /\ IF cache[t[1]].reply = NoData
       THEN /\ publisher' = [publisher EXCEPT ![t] = "wait"]
            /\ filledQ' = Append(filledQ, t)
       ELSE /\ publisher' = [publisher EXCEPT ![t] = "publish"]
            /\ UNCHANGED filledQ
    /\ UNCHANGED <<app, hears, cmds, msgs, control, paho, actor, rx, line, cache, filler, emptyQ>>

PublishCached(t) ==
    /\ publisher[t] = "publish"
    /\ PublishReply(t[1], cache[t[1]].reply)
    /\ publisher' = [publisher EXCEPT ![t] = "clear"]
    /\ UNCHANGED <<app, hears, cmds, control, paho, actor, rx, line, cache, filler,
                   emptyQ, filledQ>>

\* mutant: the published reply stays in the cache
PublishClearNothing(t) ==
    /\ publisher[t] = "clear"
    /\ NotifyEmpty
    /\ publisher' = [publisher EXCEPT ![t] = "idle"]
    /\ UNCHANGED <<app, hears, cmds, msgs, control, paho, actor, rx, line, cache, filledQ>>

PublishClear(t) ==
    /\ publisher[t] = "clear"
    /\ cache' = [cache EXCEPT ![t[1]].reply = NoData]
    /\ NotifyEmpty
    /\ publisher' = [publisher EXCEPT ![t] = "idle"]
    /\ UNCHANGED <<app, hears, cmds, msgs, control, paho, actor, rx, line, filledQ>>

PublishFunction(t) ==
    PublishSpin(t) \/ PublishCheck(t) \/ PublishCached(t) \/ PublishClear(t)

(***************************************************************************)
(* The device actor and its instrument: one reply per command, in order;   *)
(* b"" to an invalid command, nothing without a reservation.               *)
(***************************************************************************)
ToFrontend(i, kind, data) ==
    rx' = Append(rx, [instr |-> i, kind |-> kind, data |-> data])

Device(i) ==
    LET cmd == Head(line[i].inbox)
        rest == [line[i] EXCEPT !.inbox = Tail(@)]
    IN  /\ line[i].inbox # <<>>
        /\ "instrument" \in Slow => AtRest
        /\ \/ /\ cmd \in Control
              /\ line' = [line EXCEPT ![i] = [rest EXCEPT !.reserved = cmd = "reserve"]]
              /\ ToFrontend(i, "status", NoData)
           \/ /\ cmd = "next" /\ line[i].reserved
              /\ line' = [line EXCEPT ![i] = [rest EXCEPT !.pos = @ + 1]]
              /\ ToFrontend(i, "data", <<"frame", rest.block, rest.pos + 1>>)
           \/ /\ cmd = "other" /\ line[i].reserved
              /\ line' = [line EXCEPT ![i] = [rest EXCEPT !.block = @ + 1, !.pos = 0]]
              /\ ToFrontend(i, "data", <<"other", rest.block + 1>>)
           \/ /\ cmd = "empty" /\ line[i].reserved
              /\ line' = [line EXCEPT ![i] = rest]
              /\ ToFrontend(i, "data", NoData)
           \/ /\ cmd \notin Control /\ ~line[i].reserved
              /\ line' = [line EXCEPT ![i] = rest]
              /\ UNCHANGED rx
        /\ UNCHANGED <<app, hears, cmds, msgs, control, paho, actor, cache, publisher,
                       filler, emptyQ, filledQ>>

App(i) == AppSend(i) \/ AppReceiveReservation(i) \/ AppReceiveMsg(i)

Next ==
    \/ \E i \in Instruments : App(i) \/ Device(i)
    \/ Paho
    \/ Actor
    \/ \E t \in Thread : Fill(t) \/ PublishFunction(t)

Spec == Init /\ [][Next]_vars

\* Threads that can run do run, the device actor replies, the broker delivers.
FairSpec ==
    /\ Spec
    /\ WF_vars(Paho) /\ WF_vars(Actor)
    /\ \A i \in Instruments :
        WF_vars(Device(i)) /\ WF_vars(AppReceiveReservation(i) \/ AppReceiveMsg(i))
    /\ \A t \in Thread : WF_vars(Fill(t)) /\ WF_vars(PublishFunction(t))

-----------------------------------------------------------------------------
\* Every variable has its type, and every waiting thread is in its queue once.
TypeOK ==
    /\ hears \subseteq Instruments
    /\ control \in Control \cup {"unknown"}
    /\ paho.pc \in {"idle", "replace", "ahead", "first", "forget", "clear"}
    /\ actor.pc \in {"idle", "unset", "wakeFiller", "wakePublisher", "buyAhead"}
    /\ \A t \in Thread :
        /\ filler[t].pc \in {"idle", "check", "wait", "store", "send", "notify"}
        /\ publisher[t] \in {"idle", "spin", "check", "wait", "publish", "clear"}
        /\ Cardinality({k \in DOMAIN emptyQ : emptyQ[k] = t}) =
             IF filler[t].pc = "wait" THEN 1 ELSE 0
        /\ Cardinality({k \in DOMAIN filledQ : filledQ[k] = t}) =
             IF publisher[t] = "wait" THEN 1 ELSE 0

\* Every answer an application got is the one its command has on a direct line.
AnswersMatch ==
    \A i \in Instruments : \A j \in DOMAIN app[i].got :
        app[i].got[j] = Direct!Reply(app[i].script, j)

\* A condition wakes the thread it is for: no publisher sleeps over a filled
\* cache, no filler over an empty one.
NobodyOversleeps ==
    AtRest => \A i \in Instruments :
        /\ publisher[Current(i)] = "wait" => cache[i].reply = NoData
        /\ filler[Current(i)].pc = "wait" => cache[i].reply # NoData

\* The filler, which looks at the cache and stores in two steps, never writes over
\* a frame: the publisher or clear_cache takes it out before the next one comes.
NoFrameOverwritten ==
    [][\A i \in Instruments :
        cache'[i].lease = cache[i].lease =>
            cache[i].reply = NoData \/ cache'[i].reply \in {NoData, cache[i].reply}]_vars

\* The frontend behaves as a direct line to the instrument.
BehavesLikeDirectLine == Direct!Spec
=============================================================================
