-------------------------- MODULE BuyAheadCache_proofs --------------------------
(***************************************************************************)
(* Proofs about the buy-ahead cache, for any number of instruments and     *)
(* sessions of any length: types and waiting queues; for sessions that are *)
(* one download, that every answer is the right one and the frontend behaves *)
(* as a direct line; for sessions with one reservation, that no bought frame *)
(* is overwritten and, with one instrument, that no cache thread is missed. *)
(***************************************************************************)
EXTENDS BuyAheadCache, TLAPS, SequenceTheorems, FiniteSetTheorems

-----------------------------------------------------------------------------
(* Types.                                                                  *)

Frames == {"frame"} \X Nat \X Nat
OtherReplies == {"other"} \X Nat
Data == {NoData} \cup Frames \cup OtherReplies
Statuses == {"status"} \X Control

Session == [script : Scripts, sent : Nat, pending : BOOLEAN, got : Seq(Data \cup Statuses)]
Command == [instr : Instruments, id : Nat, cmd : Commands]
Message == [topic : {"reservation"}, status : Control]
           \cup [topic : {"msg"}, id : Nat, data : Data]
Received == [instr : Instruments, kind : {"status", "data"}, data : Data]
Line == [inbox : Seq(Commands \cup {"empty"}), reserved : BOOLEAN, block : Nat, pos : Nat]
Cache == [id : Nat, lease : Nat, ahead : BOOLEAN, first : BOOLEAN, reply : Data]
Filler == [pc : {"idle", "check", "wait", "store", "send", "notify"}, data : Data]
Publisher == {"idle", "spin", "check", "wait", "publish", "clear"}

OutsideTyped ==
    /\ app \in [Instruments -> Session]
    /\ hears \subseteq Instruments
    /\ cmds \in Seq(Command)
    /\ msgs \in [Instruments -> Seq(Message)]
    /\ line \in [Instruments -> Line]

MainTyped ==
    /\ control \in Control \cup {"unknown"}
    /\ paho \in {Idle} \cup [pc : {"replace", "ahead", "first", "forget", "clear"},
                             instr : Instruments]
    /\ actor \in {Idle} \cup [pc : {"unset", "wakeFiller", "wakePublisher", "buyAhead"},
                              instr : Instruments]
    /\ rx \in Seq(Received)
    /\ cache \in [Instruments -> Cache]

\* The queue of a condition lists those that wait for it, each of them once.
Lists(q, W) ==
    /\ \A k \in 1 .. Len(q) : q[k] \in W
    /\ \A t \in W : \E k \in 1 .. Len(q) : q[k] = t
    /\ \A k, l \in 1 .. Len(q) : q[k] = q[l] => k = l

WaitForEmpty == {t \in Thread : filler[t].pc = "wait"}
WaitForFilled == {t \in Thread : publisher[t] = "wait"}

FillersTyped ==
    /\ filler \in [Thread -> Filler]
    /\ emptyQ \in Seq(Thread)
    /\ Lists(emptyQ, WaitForEmpty)

PublishersTyped ==
    /\ publisher \in [Thread -> Publisher]
    /\ filledQ \in Seq(Thread)
    /\ Lists(filledQ, WaitForFilled)

Typed == OutsideTyped /\ MainTyped /\ FillersTyped /\ PublishersTyped

LEMMA ListsAppend ==
    ASSUME NEW S, NEW q \in Seq(S), NEW W, Lists(q, W), NEW t \in S, t \notin W
    PROVE  Lists(Append(q, t), W \cup {t})
<1> DEFINE r == Append(q, t)
<1>1. /\ Len(r) = Len(q) + 1 /\ Len(q) \in Nat
      /\ \A k \in 1 .. Len(q) : r[k] = q[k]
      /\ r[Len(q) + 1] = t
  BY AppendProperties, LenProperties
<1> HIDE DEF r
<1>2. \A k \in 1 .. Len(r) : k \in 1 .. Len(q) \/ k = Len(q) + 1
  BY <1>1
<1>3. \A k \in 1 .. Len(r) : r[k] \in W \cup {t}
  BY <1>1, <1>2 DEF Lists
<1>4. ASSUME NEW u \in W \cup {t} PROVE \E k \in 1 .. Len(r) : r[k] = u
  <2>1. CASE u = t
    BY <1>1, <2>1
  <2>2. CASE u \in W
    <3>1. PICK k \in 1 .. Len(q) : q[k] = u
      BY <2>2 DEF Lists
    <3> QED
      BY <1>1, <3>1
  <2> QED
    BY <2>1, <2>2
<1>5. ASSUME NEW k \in 1 .. Len(r), NEW l \in 1 .. Len(r), r[k] = r[l] PROVE k = l
  BY <1>1, <1>2, <1>5 DEF Lists
<1> QED
  BY <1>3, <1>4, <1>5 DEF Lists, r

LEMMA ListsTail ==
    ASSUME NEW S, NEW q \in Seq(S), q # <<>>, NEW W, Lists(q, W)
    PROVE  Head(q) \in W /\ Head(q) \in S /\ Lists(Tail(q), W \ {Head(q)})
<1> DEFINE r == Tail(q)
<1>1. /\ Len(r) = Len(q) - 1 /\ Len(q) \in Nat /\ Len(q) >= 1
      /\ \A k \in 1 .. Len(r) : r[k] = q[k + 1]
      /\ Head(q) = q[1] /\ Head(q) \in S
  BY HeadTailProperties, LenProperties, EmptySeq
<1> HIDE DEF r
<1>2. Head(q) \in W
  BY <1>1 DEF Lists
<1>3. ASSUME NEW k \in 1 .. Len(r) PROVE r[k] \in W \ {Head(q)}
  <2>1. k + 1 \in 1 .. Len(q) /\ 1 \in 1 .. Len(q) /\ k + 1 # 1
    BY <1>1
  <2> QED
    BY <1>1, <2>1 DEF Lists
<1>4. ASSUME NEW u \in W \ {Head(q)} PROVE \E k \in 1 .. Len(r) : r[k] = u
  <2>1. PICK k \in 1 .. Len(q) : q[k] = u
    BY DEF Lists
  <2>2. k - 1 \in 1 .. Len(r) /\ r[k - 1] = q[(k - 1) + 1] /\ (k - 1) + 1 = k
    BY <1>1, <2>1
  <2> QED
    BY <2>1, <2>2
<1>5. ASSUME NEW k \in 1 .. Len(r), NEW l \in 1 .. Len(r), r[k] = r[l] PROVE k = l
  <2>1. k + 1 \in 1 .. Len(q) /\ l + 1 \in 1 .. Len(q)
    BY <1>1
  <2> QED
    BY <1>1, <1>5, <2>1 DEF Lists
<1> QED
  BY <1>1, <1>2, <1>3, <1>4, <1>5 DEF Lists, r

\* What the type invariant counts.
LEMMA ListsCounts ==
    ASSUME NEW S, NEW q \in Seq(S), NEW W, Lists(q, W), NEW t
    PROVE  Cardinality({k \in DOMAIN q : q[k] = t}) = IF t \in W THEN 1 ELSE 0
<1>1. DOMAIN q = 1 .. Len(q)
  BY LenProperties
<1>2. CASE t \in W
  <2>1. PICK k \in 1 .. Len(q) : q[k] = t
    BY <1>2 DEF Lists
  <2>2. {l \in DOMAIN q : q[l] = t} = {k}
    BY <1>1, <2>1 DEF Lists
  <2> QED
    BY <1>2, <2>2, FS_Singleton
<1>3. CASE t \notin W
  <2>1. {l \in DOMAIN q : q[l] = t} = {}
    BY <1>1, <1>3 DEF Lists
  <2> QED
    BY <1>3, <2>1, FS_EmptySet
<1> QED
  BY <1>2, <1>3

LEMMA TypedIsTypeOK == Typed => TypeOK
<1> SUFFICES ASSUME Typed PROVE TypeOK
  OBVIOUS
<1>1. hears \subseteq Instruments /\ control \in Control \cup {"unknown"}
  BY DEF Typed, OutsideTyped, MainTyped
<1>2. paho.pc \in {"idle", "replace", "ahead", "first", "forget", "clear"}
  BY DEF Typed, MainTyped, Idle
<1>3. actor.pc \in {"idle", "unset", "wakeFiller", "wakePublisher", "buyAhead"}
  BY DEF Typed, MainTyped, Idle
<1>4. ASSUME NEW t \in Thread
      PROVE  /\ filler[t].pc \in {"idle", "check", "wait", "store", "send", "notify"}
             /\ publisher[t] \in {"idle", "spin", "check", "wait", "publish", "clear"}
  BY DEF Typed, FillersTyped, PublishersTyped, Filler, Publisher
<1>5. ASSUME NEW t \in Thread
      PROVE  Cardinality({k \in DOMAIN emptyQ : emptyQ[k] = t}) =
               IF filler[t].pc = "wait" THEN 1 ELSE 0
  <2>1. Cardinality({k \in DOMAIN emptyQ : emptyQ[k] = t}) =
          IF t \in WaitForEmpty THEN 1 ELSE 0
    BY ListsCounts DEF Typed, FillersTyped
  <2> QED
    BY <2>1 DEF WaitForEmpty
<1>6. ASSUME NEW t \in Thread
      PROVE  Cardinality({k \in DOMAIN filledQ : filledQ[k] = t}) =
               IF publisher[t] = "wait" THEN 1 ELSE 0
  <2>1. Cardinality({k \in DOMAIN filledQ : filledQ[k] = t}) =
          IF t \in WaitForFilled THEN 1 ELSE 0
    BY ListsCounts DEF Typed, PublishersTyped
  <2> QED
    BY <2>1 DEF WaitForFilled
<1> QED
  BY <1>1, <1>2, <1>3, <1>4, <1>5, <1>6 DEF TypeOK

LEMMA InitTyped == Init => Typed
<1> SUFFICES ASSUME Init PROVE Typed
  OBVIOUS
<1>1. OutsideTyped
  <2>1. app \in [Instruments -> Session]
    <3>1. <<>> \in Seq(Data \cup Statuses)
      OBVIOUS
    <3>2. ASSUME NEW a \in [script : Scripts, sent : {0}, pending : {FALSE}, got : {<<>>}]
          PROVE  a \in Session
      <4>1. /\ a = [script |-> a.script, sent |-> a.sent, pending |-> a.pending, got |-> a.got]
            /\ a.script \in Scripts /\ a.sent = 0 /\ a.pending = FALSE /\ a.got = <<>>
        OBVIOUS
      <4>2. a.sent \in Nat
        BY <4>1
      <4>3. a.pending \in BOOLEAN /\ a.got \in Seq(Data \cup Statuses)
        BY <3>1, <4>1, Zenon
      <4> QED
        BY <4>1, <4>2, <4>3 DEF Session
    <3> QED
      BY <3>2 DEF Init, Direct!Init
  <2>2. line \in [Instruments -> Line]
    BY DEF Init, Line
  <2> QED
    BY <2>1, <2>2 DEF Init, OutsideTyped
<1>2. MainTyped
  <2>1. Fresh(0) \in Cache
    BY DEF Fresh, Cache, Data
  <2> QED
    BY <2>1 DEF Init, MainTyped, Idle
<1>3. FillersTyped
  <2>1. WaitForEmpty = {}
    BY DEF Init, WaitForEmpty
  <2> QED
    BY <2>1 DEF Init, FillersTyped, Filler, Data, Lists
<1>4. PublishersTyped
  <2>1. WaitForFilled = {}
    BY DEF Init, WaitForFilled
  <2> QED
    BY <2>1 DEF Init, PublishersTyped, Publisher, Lists
<1> QED
  BY <1>1, <1>2, <1>3, <1>4 DEF Typed

\* A thread at most is woken: it is to check again.
FillersWoken ==
    \A t \in Thread : \/ filler'[t] = filler[t]
                      \/ filler[t].pc = "wait" /\ filler'[t] = [filler[t] EXCEPT !.pc = "check"]
PublishersWoken ==
    \A t \in Thread : \/ publisher'[t] = publisher[t]
                      \/ publisher[t] = "wait" /\ publisher'[t] = "check"

LEMMA NotifyEmptyWakes ==
    ASSUME FillersTyped, NotifyEmpty
    PROVE  FillersTyped' /\ FillersWoken
<1>1. CASE emptyQ = <<>>
  BY <1>1 DEF NotifyEmpty, FillersTyped, FillersWoken, WaitForEmpty, Lists
<1>2. CASE emptyQ # <<>>
  <2> DEFINE h == Head(emptyQ)
  <2>1. /\ filler' = [filler EXCEPT ![h].pc = "check"]
        /\ emptyQ' = Tail(emptyQ)
    BY <1>2 DEF NotifyEmpty
  <2>2. h \in WaitForEmpty /\ h \in Thread /\ Lists(Tail(emptyQ), WaitForEmpty \ {h})
    BY <1>2, ListsTail DEF FillersTyped
  <2> HIDE DEF h
  <2>3. filler[h].pc = "wait" /\ filler[h] \in Filler
    BY <2>2 DEF WaitForEmpty, FillersTyped
  <2>4. /\ filler'[h] = [filler[h] EXCEPT !.pc = "check"]
        /\ \A t \in Thread \ {h} : filler'[t] = filler[t]
    BY <2>1, <2>2 DEF FillersTyped
  <2>5. filler'[h] \in Filler /\ filler'[h].pc = "check"
    BY <2>3, <2>4 DEF Filler
  <2>6. filler' \in [Thread -> Filler]
    BY <2>1, <2>4, <2>5 DEF FillersTyped
  <2>7. WaitForEmpty' = WaitForEmpty \ {h}
    BY <2>2, <2>4, <2>5 DEF WaitForEmpty
  <2>8. Tail(emptyQ) \in Seq(Thread)
    BY <1>2 DEF FillersTyped
  <2> QED
    BY <2>1, <2>2, <2>3, <2>4, <2>6, <2>7, <2>8 DEF FillersTyped, FillersWoken, Lists
<1> QED
  BY <1>1, <1>2

LEMMA NotifyFilledWakes ==
    ASSUME PublishersTyped, NotifyFilled
    PROVE  PublishersTyped' /\ PublishersWoken
<1>1. CASE filledQ = <<>>
  BY <1>1 DEF NotifyFilled, PublishersTyped, PublishersWoken, WaitForFilled, Lists
<1>2. CASE filledQ # <<>>
  <2> DEFINE h == Head(filledQ)
  <2>1. /\ publisher' = [publisher EXCEPT ![h] = "check"]
        /\ filledQ' = Tail(filledQ)
    BY <1>2 DEF NotifyFilled
  <2>2. h \in WaitForFilled /\ h \in Thread /\ Lists(Tail(filledQ), WaitForFilled \ {h})
    BY <1>2, ListsTail DEF PublishersTyped
  <2> HIDE DEF h
  <2>3. publisher[h] = "wait"
    BY <2>2 DEF WaitForFilled
  <2>4. /\ publisher'[h] = "check"
        /\ \A t \in Thread \ {h} : publisher'[t] = publisher[t]
        /\ publisher' \in [Thread -> Publisher]
    BY <2>1, <2>2 DEF PublishersTyped, Publisher
  <2>5. WaitForFilled' = WaitForFilled \ {h}
    BY <2>2, <2>4 DEF WaitForFilled
  <2>6. Tail(filledQ) \in Seq(Thread)
    BY <1>2 DEF PublishersTyped
  <2> QED
    BY <2>1, <2>2, <2>3, <2>4, <2>5, <2>6 DEF PublishersTyped, PublishersWoken, Lists
<1> QED
  BY <1>1, <1>2

\* Threads that do not take part stay as they are.
SameFillers == UNCHANGED <<filler, emptyQ>>
SamePublishers == UNCHANGED <<publisher, filledQ>>

LEMMA SameThreads ==
    /\ FillersTyped /\ SameFillers => FillersTyped' /\ FillersWoken
    /\ PublishersTyped /\ SamePublishers => PublishersTyped' /\ PublishersWoken
BY DEF SameFillers, SamePublishers, FillersTyped, PublishersTyped, WaitForEmpty, WaitForFilled,
       FillersWoken, PublishersWoken, Lists

-----------------------------------------------------------------------------
(* Every step keeps the types. *)

LEMMA CommandTyped ==
    ASSUME Typed, NEW c \in Command, NEW i \in Instruments
    PROVE  /\ [line EXCEPT ![i].inbox = Append(@, c.cmd)] \in [Instruments -> Line]
           /\ [line EXCEPT ![i].inbox = Append(@, "next")] \in [Instruments -> Line]
           /\ [line EXCEPT ![i].inbox = Append(@, "empty")] \in [Instruments -> Line]
<1>1. \A x \in Commands \cup {"empty"} : Append(line[i].inbox, x) \in Seq(Commands \cup {"empty"})
  BY DEF Typed, OutsideTyped, Line
<1>2. \A x \in Commands \cup {"empty"} : [line[i] EXCEPT !.inbox = Append(@, x)] \in Line
  BY <1>1 DEF Typed, OutsideTyped, Line
<1>3. \A x \in Commands \cup {"empty"} :
        [line EXCEPT ![i].inbox = Append(@, x)] \in [Instruments -> Line]
  BY <1>2 DEF Typed, OutsideTyped
<1>4. {c.cmd, "next", "empty"} \subseteq Commands \cup {"empty"}
  BY DEF Command, Commands
<1> QED
  BY <1>3, <1>4

LEMMA PublishTyped ==
    ASSUME Typed, NEW i \in Instruments, NEW m \in Message, Publish(i, m)
    PROVE  msgs' \in [Instruments -> Seq(Message)]
<1>1. Append(msgs[i], m) \in Seq(Message)
  BY DEF Typed, OutsideTyped
<1> QED
  BY <1>1 DEF Publish, Typed, OutsideTyped

LEMMA MessageTyped ==
    ASSUME Typed, NEW i \in Instruments, NEW data \in Data
    PROVE  [topic |-> "msg", id |-> cache[i].id, data |-> data] \in Message
<1>1. cache[i].id \in Nat
  BY DEF Typed, MainTyped, Cache
<1> QED
  BY <1>1 DEF Message

LEMMA SentTyped ==
    ASSUME Typed, NEW i \in Instruments, Direct!Send(i)
    PROVE  /\ app' \in [Instruments -> Session]
           /\ [instr |-> i, id |-> app'[i].sent, cmd |-> app[i].script[app'[i].sent]] \in Command
<1> DEFINE a == app[i]
           n == a.sent + 1
           b == [a EXCEPT !.sent = n, !.pending = TRUE]
<1>1. a \in Session /\ a.script \in Seq(Commands) /\ a.sent < Len(a.script)
  BY SessionAssumption DEF Typed, OutsideTyped, Session, Direct!Send
<1>2. n \in Nat /\ n \in 1 .. Len(a.script)
  BY <1>1 DEF Session
<1>3. b \in Session /\ b.sent = n
  BY <1>1, <1>2 DEF Session
<1>4. app' = [app EXCEPT ![i] = b]
  BY DEF Direct!Send
<1>5. a.script[n] \in Commands
  BY <1>1, <1>2
<1> HIDE DEF n, b
<1>6. app' \in [Instruments -> Session] /\ app'[i] = b
  BY <1>3, <1>4 DEF Typed, OutsideTyped
<1> QED
  BY <1>2, <1>3, <1>5, <1>6 DEF Command

LEMMA AnsweredTyped ==
    ASSUME Typed, NEW i \in Instruments, NEW answer \in Data \cup Statuses, Answered(i, answer)
    PROVE  app' \in [Instruments -> Session]
<1>1. app[i] \in Session /\ Append(app[i].got, answer) \in Seq(Data \cup Statuses)
  BY DEF Typed, OutsideTyped, Session
<1>2. [app[i] EXCEPT !.pending = FALSE, !.got = Append(@, answer)] \in Session
  BY <1>1 DEF Session
<1> QED
  BY <1>2 DEF Answered, Typed, OutsideTyped

LEMMA ReceivesTyped ==
    ASSUME Typed, NEW i \in Instruments, NEW topic, Receives(i, topic)
    PROVE  /\ Head(msgs[i]) \in Message
           /\ msgs' \in [Instruments -> Seq(Message)]
           /\ UNCHANGED <<cmds, line, control, paho, actor, rx, cache>>
           /\ SameFillers /\ SamePublishers
<1>1. msgs[i] \in Seq(Message) /\ msgs[i] # <<>>
  BY DEF Receives, Typed, OutsideTyped
<1>2. Head(msgs[i]) \in Message /\ Tail(msgs[i]) \in Seq(Message)
  BY <1>1
<1>3. msgs' = [msgs EXCEPT ![i] = Tail(@)]
  BY DEF Receives
<1>4. msgs' \in [Instruments -> Seq(Message)]
  BY <1>2, <1>3 DEF Typed, OutsideTyped
<1> QED
  BY <1>2, <1>4 DEF Receives, SameFillers, SamePublishers

\* What a step leaves alone keeps its type.
LEMMA SameMain ==
    ASSUME MainTyped, UNCHANGED <<control, paho, actor, rx, cache>>
    PROVE  MainTyped'
BY DEF MainTyped

LEMMA SameOutside ==
    ASSUME OutsideTyped, UNCHANGED <<app, hears, cmds, msgs, line>>
    PROVE  OutsideTyped'
BY DEF OutsideTyped

LEMMA AppTyped ==
    ASSUME Typed, NEW i \in Instruments, App(i)
    PROVE  Typed'
<1>1. CASE AppSend(i)
  <2>1. Direct!Send(i) /\ UNCHANGED <<hears, msgs, line>>
    BY <1>1 DEF AppSend, server
  <2>2. cmds' \in Seq(Command) /\ app' \in [Instruments -> Session]
    BY <1>1, <2>1, SentTyped DEF AppSend, Typed, OutsideTyped
  <2>3. MainTyped' /\ SameFillers /\ SamePublishers
    BY <1>1, SameMain DEF AppSend, server, Typed, SameFillers, SamePublishers
  <2> QED
    BY <2>1, <2>2, <2>3, SameThreads DEF Typed, OutsideTyped
<1>2. CASE AppReceiveReservation(i)
  <2>1. Receives(i, "reservation") /\ Head(msgs[i]).topic = "reservation"
    BY <1>2 DEF AppReceiveReservation, Receives
  <2>2. Head(msgs[i]) \in Message
    BY <2>1, ReceivesTyped
  <2>3. <<"status", Head(msgs[i]).status>> \in Data \cup Statuses
    BY <2>1, <2>2 DEF Message, Statuses
  <2>4. app' \in [Instruments -> Session] /\ hears' \subseteq Instruments
    <3>1. CASE UNCHANGED <<app, hears>>
      BY <3>1 DEF Typed, OutsideTyped
    <3>2. CASE Answered(i, <<"status", Head(msgs[i]).status>>)
               /\ hears' \in {hears, hears \cup {i}}
      BY <2>3, <3>2, AnsweredTyped DEF Typed, OutsideTyped
    <3> QED
      BY <1>2, <3>1, <3>2 DEF AppReceiveReservation
  <2>5. MainTyped'
    BY <2>1, ReceivesTyped, SameMain DEF Typed
  <2> QED
    BY <2>1, <2>4, <2>5, ReceivesTyped, SameThreads DEF Typed, OutsideTyped
<1>3. CASE AppReceiveMsg(i)
  <2>1. Receives(i, "msg") /\ Head(msgs[i]).topic = "msg"
    BY <1>3 DEF AppReceiveMsg, Receives
  <2>2. Head(msgs[i]) \in Message
    BY <2>1, ReceivesTyped
  <2>3. Head(msgs[i]).data \in Data \cup Statuses
    BY <2>1, <2>2 DEF Message
  <2>4. app' \in [Instruments -> Session] /\ hears' \subseteq Instruments
    <3>1. CASE app' = app /\ hears' \in {hears, hears \ {i}}
      BY <3>1 DEF Typed, OutsideTyped
    <3>2. CASE Answered(i, Head(msgs[i]).data) /\ hears' = hears
      BY <2>3, <3>2, AnsweredTyped DEF Typed, OutsideTyped
    <3> QED
      BY <1>3, <3>1, <3>2 DEF AppReceiveMsg
  <2>5. MainTyped'
    BY <2>1, ReceivesTyped, SameMain DEF Typed
  <2> QED
    BY <2>1, <2>4, <2>5, ReceivesTyped, SameThreads DEF Typed, OutsideTyped
<1> QED
  BY <1>1, <1>2, <1>3 DEF App

LEMMA TakesTyped ==
    ASSUME Typed, NEW K, Takes(K)
    PROVE  /\ cmds # <<>> /\ paho = Idle
           /\ Head(cmds) \in Command /\ Head(cmds).cmd \in K
           /\ Head(cmds).instr \in Instruments /\ Head(cmds).id \in Nat
           /\ cmds' = Tail(cmds) /\ cmds' \in Seq(Command)
<1>1. cmds \in Seq(Command) /\ cmds # <<>>
  BY DEF Takes, Typed, OutsideTyped
<1>2. Head(cmds) \in Command /\ Tail(cmds) \in Seq(Command)
  BY <1>1
<1> QED
  BY <1>1, <1>2 DEF Takes, Command

\* The cache of an instrument with other fields of their types.
LEMMA CacheTyped ==
    ASSUME Typed, NEW i \in Instruments
    PROVE  /\ \A n \in Nat : [cache EXCEPT ![i].id = n] \in [Instruments -> Cache]
           /\ \A n \in Nat : [cache EXCEPT ![i].id = n, ![i].first = FALSE] \in [Instruments -> Cache]
           /\ \A b \in BOOLEAN : [cache EXCEPT ![i].ahead = b] \in [Instruments -> Cache]
           /\ \A b \in BOOLEAN : [cache EXCEPT ![i].first = b] \in [Instruments -> Cache]
           /\ \A x \in Data : [cache EXCEPT ![i].reply = x] \in [Instruments -> Cache]
           /\ [cache EXCEPT ![i] = [Fresh(@.lease + 1) EXCEPT !.id = cache[i].id]]
                \in [Instruments -> Cache]
           /\ NoData \in Data
<1> DEFINE c == cache[i]
<1>1. cache \in [Instruments -> Cache] /\ c \in Cache
  BY DEF Typed, MainTyped
<1>2. /\ \A n \in Nat : [c EXCEPT !.id = n] \in Cache
      /\ \A n \in Nat : [c EXCEPT !.id = n, !.first = FALSE] \in Cache
      /\ \A b \in BOOLEAN : [c EXCEPT !.ahead = b] \in Cache
      /\ \A b \in BOOLEAN : [c EXCEPT !.first = b] \in Cache
      /\ \A x \in Data : [c EXCEPT !.reply = x] \in Cache
  BY <1>1 DEF Cache
<1>3. NoData \in Data
  BY DEF Data
<1>4. [Fresh(c.lease + 1) EXCEPT !.id = c.id] \in Cache
  <2>1. c.lease + 1 \in Nat /\ c.id \in Nat
    BY <1>1 DEF Cache
  <2>2. \A l \in Nat : Fresh(l) \in Cache
    BY <1>3 DEF Cache, Fresh
  <2>3. \A x \in Cache : [x EXCEPT !.id = c.id] \in Cache
    BY <2>1 DEF Cache
  <2> QED
    BY <2>1, <2>2, <2>3
<1> QED
  BY <1>1, <1>2, <1>3, <1>4

LEMMA PahoTypes ==
    ASSUME Typed, paho # Idle
    PROVE  paho.instr \in Instruments
BY DEF Typed, MainTyped

LEMMA AtTyped ==
    ASSUME NEW i \in Instruments
    PROVE  /\ \A pc \in {"replace", "ahead", "first", "forget", "clear"} :
                At(pc, i) \in [pc : {"replace", "ahead", "first", "forget", "clear"},
                               instr : Instruments]
           /\ \A pc \in {"unset", "wakeFiller", "wakePublisher", "buyAhead"} :
                At(pc, i) \in [pc : {"unset", "wakeFiller", "wakePublisher", "buyAhead"},
                               instr : Instruments]
BY DEF At

LEMMA PahoTyped ==
    ASSUME Typed, Paho
    PROVE  Typed'
<1>0. FillersTyped /\ PublishersTyped
  BY DEF Typed
<1> DEFINE P == {Idle} \cup [pc : {"replace", "ahead", "first", "forget", "clear"},
                             instr : Instruments]
<1>1. CASE OnControl
  <2> DEFINE c == Head(cmds)
  <2>1. /\ c \in Command /\ c.instr \in Instruments /\ c.cmd \in Control
        /\ cmds' \in Seq(Command)
    BY <1>1, TakesTyped DEF OnControl
  <2>2. line' \in [Instruments -> Line]
    BY <1>1, <2>1, CommandTyped DEF OnControl, ToDevice
  <2>3. control' \in Control \cup {"unknown"} /\ paho' \in P
    BY <1>1, <2>1, AtTyped DEF OnControl
  <2> QED
    BY <1>0, <1>1, <2>1, <2>2, <2>3, SameThreads
       DEF OnControl, Typed, OutsideTyped, MainTyped, SameFillers, SamePublishers
<1>2. CASE OnFirstGetNext
  <2> DEFINE c == Head(cmds)
  <2>1. /\ c \in Command /\ c.instr \in Instruments /\ c.id \in Nat
        /\ cmds' \in Seq(Command)
    BY <1>2, TakesTyped DEF OnFirstGetNext
  <2>2. line' \in [Instruments -> Line]
    BY <1>2, <2>1, CommandTyped DEF OnFirstGetNext, ToDevice
  <2>3. cache' \in [Instruments -> Cache] /\ paho' \in P
    BY <1>2, <2>1, AtTyped, CacheTyped DEF OnFirstGetNext
  <2> QED
    BY <1>0, <1>2, <2>1, <2>2, <2>3, SameThreads
       DEF OnFirstGetNext, Typed, OutsideTyped, MainTyped, SameFillers, SamePublishers
<1>3. CASE OnOtherCmd
  <2> DEFINE c == Head(cmds)
  <2>1. /\ c \in Command /\ c.instr \in Instruments /\ c.id \in Nat
        /\ cmds' \in Seq(Command)
    BY <1>3, TakesTyped DEF OnOtherCmd
  <2>2. line' \in [Instruments -> Line]
    BY <1>3, <2>1, CommandTyped DEF OnOtherCmd, ToDevice
  <2>3. cache' \in [Instruments -> Cache] /\ paho' \in P
    BY <1>3, <2>1, AtTyped, CacheTyped DEF OnOtherCmd
  <2> QED
    BY <1>0, <1>3, <2>1, <2>2, <2>3, SameThreads
       DEF OnOtherCmd, Typed, OutsideTyped, MainTyped, SameFillers, SamePublishers
<1>4. CASE OnGetNext
  <2> DEFINE c == Head(cmds)
             t == Current(c.instr)
  <2>1. /\ c \in Command /\ c.instr \in Instruments /\ c.id \in Nat
        /\ cmds' \in Seq(Command)
    BY <1>4, TakesTyped DEF OnGetNext
  <2>2. cache' \in [Instruments -> Cache]
    BY <1>4, <2>1, CacheTyped DEF OnGetNext
  <2>3. PublishersTyped'
    <3>1. publisher' = [publisher EXCEPT ![t] = IF @ = "idle" THEN "spin" ELSE @]
          /\ filledQ' = filledQ
      BY <1>4 DEF OnGetNext
    <3> HIDE DEF t
    <3>2. publisher' \in [Thread -> Publisher] /\ WaitForFilled' = WaitForFilled
      BY <3>1, <1>0 DEF PublishersTyped, WaitForFilled, Publisher
    <3> QED
      BY <1>0, <3>1, <3>2 DEF PublishersTyped, Lists
  <2>4. SameFillers
    BY <1>4 DEF OnGetNext, SameFillers
  <2> QED
    BY <1>0, <1>4, <2>1, <2>2, <2>3, <2>4, SameThreads
       DEF OnGetNext, Typed, OutsideTyped, MainTyped
<1>5. CASE ReplaceCache \/ RememberGetNext \/ MarkFirst \/ ForgetGetNext
  <2>1. paho.instr \in Instruments
    <3>1. paho.pc \in {"replace", "ahead", "first", "forget"}
      BY <1>5 DEF ReplaceCache, RememberGetNext, MarkFirst, ForgetGetNext
    <3>2. paho # Idle
      BY <3>1 DEF Idle
    <3> QED
      BY <3>2, PahoTypes
  <2> DEFINE i == paho.instr
  <2>2. cache' \in [Instruments -> Cache]
    <3>1. i \in Instruments
      BY <2>1
    <3>2. CASE ReplaceCache
      <4>1. cache' = [cache EXCEPT ![i] = [Fresh(@.lease + 1) EXCEPT !.id = cache[i].id]]
        BY <3>2 DEF ReplaceCache
      <4> HIDE DEF i
      <4> QED
        BY <3>1, <4>1, CacheTyped
    <3>3. CASE RememberGetNext \/ ForgetGetNext
      <4>1. \/ cache' = [cache EXCEPT ![i].ahead = TRUE]
            \/ cache' = [cache EXCEPT ![i].ahead = FALSE]
        BY <3>3 DEF RememberGetNext, ForgetGetNext
      <4> HIDE DEF i
      <4>2. /\ [cache EXCEPT ![i].ahead = TRUE] \in [Instruments -> Cache]
            /\ [cache EXCEPT ![i].ahead = FALSE] \in [Instruments -> Cache]
        BY <3>1, CacheTyped
      <4> QED
        BY <4>1, <4>2
    <3>4. CASE MarkFirst
      <4>1. cache' = [cache EXCEPT ![i].first = TRUE]
        BY <3>4 DEF MarkFirst
      <4> HIDE DEF i
      <4> QED
        BY <3>1, <4>1, CacheTyped
    <3> QED
      BY <1>5, <3>2, <3>3, <3>4
  <2>3. paho' \in P
    BY <1>5, <2>1, AtTyped DEF ReplaceCache, RememberGetNext, MarkFirst, ForgetGetNext
  <2>4. /\ UNCHANGED <<app, hears, cmds, msgs, line>> /\ UNCHANGED <<control, actor, rx>>
        /\ SameFillers /\ SamePublishers
    BY <1>5 DEF ReplaceCache, RememberGetNext, MarkFirst, ForgetGetNext, SameFillers,
                SamePublishers
  <2> QED
    BY <1>0, <2>2, <2>3, <2>4, SameThreads, SameOutside DEF Typed, MainTyped
<1>6. CASE ClearCache
  <2>1. paho.instr \in Instruments
    BY <1>6, PahoTypes DEF ClearCache, Idle
  <2>2. cache' \in [Instruments -> Cache] /\ paho' \in P
    BY <1>6, <2>1, CacheTyped DEF ClearCache
  <2>3. UNCHANGED <<app, hears, cmds, msgs, line>> /\ UNCHANGED <<control, actor, rx>>
        /\ SamePublishers /\ NotifyEmpty
    BY <1>6 DEF ClearCache, SamePublishers
  <2> QED
    BY <1>0, <2>2, <2>3, SameThreads, SameOutside, NotifyEmptyWakes DEF Typed, MainTyped
<1> QED
  BY <1>1, <1>2, <1>3, <1>4, <1>5, <1>6 DEF Paho

LEMMA HandlesTyped ==
    ASSUME Typed, NEW kind, Handles(kind)
    PROVE  /\ rx # <<>> /\ actor = Idle
           /\ Head(rx) \in Received /\ Head(rx).kind = kind
           /\ Head(rx).instr \in Instruments /\ Head(rx).data \in Data
           /\ rx' = Tail(rx) /\ rx' \in Seq(Received)
<1>1. rx \in Seq(Received) /\ rx # <<>>
  BY DEF Handles, Typed, MainTyped
<1>2. Head(rx) \in Received /\ Tail(rx) \in Seq(Received)
  BY <1>1
<1> QED
  BY <1>1, <1>2 DEF Handles, Received

LEMMA ActorTypes ==
    ASSUME Typed, actor # Idle
    PROVE  actor.instr \in Instruments
BY DEF Typed, MainTyped

LEMMA BuyAheadTyped ==
    ASSUME Typed, NEW i \in Instruments, BuyAhead(i)
    PROVE  line' \in [Instruments -> Line]
<1>1. PICK x \in {"next", "empty"} : line' = [line EXCEPT ![i].inbox = Append(@, x)]
  BY DEF BuyAhead, ToDevice
<1>2. Append(line[i].inbox, x) \in Seq(Commands \cup {"empty"}) /\ line[i] \in Line
  BY DEF Typed, OutsideTyped, Line, Commands
<1>3. [line[i] EXCEPT !.inbox = Append(@, x)] \in Line
  BY <1>2 DEF Line
<1> QED
  BY <1>1, <1>3 DEF Typed, OutsideTyped

LEMMA ActorTyped ==
    ASSUME Typed, Actor
    PROVE  Typed'
<1>0. FillersTyped /\ PublishersTyped
  BY DEF Typed
<1> DEFINE A == {Idle} \cup [pc : {"unset", "wakeFiller", "wakePublisher", "buyAhead"},
                             instr : Instruments]
<1>1. CASE ReceiveReservationStatus
  <2> DEFINE i == Head(rx).instr
             m == [topic |-> "reservation", status |-> control]
  <2>1. i \in Instruments /\ rx' \in Seq(Received)
    BY <1>1, HandlesTyped DEF ReceiveReservationStatus
  <2>2. msgs' \in [Instruments -> Seq(Message)] /\ actor' \in A
    <3>1. CASE control \in Control
      <4>1. m \in Message
        BY <3>1 DEF Message
      <4>2. Publish(i, m) /\ actor' = At("unset", i)
        BY <1>1, <3>1 DEF ReceiveReservationStatus
      <4> QED
        BY <2>1, <4>1, <4>2, PublishTyped, AtTyped
    <3>2. CASE control \notin Control
      BY <1>1, <3>2 DEF ReceiveReservationStatus, Typed, OutsideTyped, MainTyped
    <3> QED
      BY <3>1, <3>2
  <2>3. /\ UNCHANGED <<app, hears, cmds, line>> /\ UNCHANGED <<control, paho, cache>>
        /\ SameFillers /\ SamePublishers
    BY <1>1 DEF ReceiveReservationStatus, SameFillers, SamePublishers
  <2> QED
    BY <1>0, <2>1, <2>2, <2>3, SameThreads DEF Typed, OutsideTyped, MainTyped
<1>2. CASE UnsetControl
  <2>1. actor.instr \in Instruments
    BY <1>2, ActorTypes DEF UnsetControl, Idle
  <2>2. actor' \in A /\ control' = "unknown"
    BY <1>2, <2>1, AtTyped DEF UnsetControl
  <2>3. /\ UNCHANGED <<app, hears, cmds, msgs, line>> /\ UNCHANGED <<paho, rx, cache>>
        /\ SameFillers /\ SamePublishers
    BY <1>2 DEF UnsetControl, SameFillers, SamePublishers
  <2> QED
    BY <1>0, <2>2, <2>3, SameThreads, SameOutside DEF Typed, MainTyped
<1>3. CASE WakeFiller
  <2>1. actor.instr \in Instruments
    BY <1>3, ActorTypes DEF WakeFiller, Idle
  <2>2. actor' \in A
    BY <1>3, <2>1, AtTyped DEF WakeFiller
  <2>3. /\ UNCHANGED <<app, hears, cmds, msgs, line>> /\ UNCHANGED <<control, paho, rx, cache>>
        /\ NotifyEmpty /\ SamePublishers
    BY <1>3 DEF WakeFiller, SamePublishers
  <2> QED
    BY <1>0, <2>2, <2>3, SameThreads, SameOutside, NotifyEmptyWakes DEF Typed, MainTyped
<1>4. CASE WakePublisher
  <2>1. /\ UNCHANGED <<app, hears, cmds, msgs, line>> /\ UNCHANGED <<control, paho, rx, cache>>
        /\ NotifyFilled /\ SameFillers /\ actor' \in A
    BY <1>4 DEF WakePublisher, SameFillers
  <2> QED
    BY <1>0, <2>1, SameThreads, SameOutside, NotifyFilledWakes DEF Typed, MainTyped
<1>5. CASE ReceiveReply \/ ReceiveFirstReply
  <2> DEFINE i == Head(rx).instr
             m == [topic |-> "msg", id |-> cache[i].id, data |-> Head(rx).data]
  <2>1. i \in Instruments /\ Head(rx).data \in Data /\ rx' \in Seq(Received)
    BY <1>5, HandlesTyped DEF ReceiveReply, ReceiveFirstReply
  <2>2. m \in Message
    BY <2>1, MessageTyped
  <2>3. Publish(i, m)
    BY <1>5 DEF ReceiveReply, ReceiveFirstReply, PublishReply
  <2>4. msgs' \in [Instruments -> Seq(Message)]
    BY <2>1, <2>2, <2>3, PublishTyped
  <2>5. actor' \in A
    BY <1>5, <2>1, AtTyped DEF ReceiveReply, ReceiveFirstReply, Typed, MainTyped
  <2>6. /\ UNCHANGED <<app, hears, cmds, line>> /\ UNCHANGED <<control, paho, cache>>
        /\ SameFillers /\ SamePublishers
    BY <1>5 DEF ReceiveReply, ReceiveFirstReply, SameFillers, SamePublishers
  <2> QED
    BY <1>0, <2>1, <2>4, <2>5, <2>6, SameThreads DEF Typed, OutsideTyped, MainTyped
<1>6. CASE StartBuyAhead
  <2>1. actor.instr \in Instruments
    BY <1>6, ActorTypes DEF StartBuyAhead, Idle
  <2>2. line' \in [Instruments -> Line]
    BY <1>6, <2>1, BuyAheadTyped DEF StartBuyAhead
  <2>3. cache' \in [Instruments -> Cache] /\ actor' \in A
    BY <1>6, <2>1, CacheTyped DEF StartBuyAhead
  <2>4. /\ UNCHANGED <<app, hears, cmds, msgs>> /\ UNCHANGED <<control, paho, rx>>
        /\ SameFillers /\ SamePublishers
    BY <1>6 DEF StartBuyAhead, SameFillers, SamePublishers
  <2> QED
    BY <1>0, <2>2, <2>3, <2>4, SameThreads DEF Typed, OutsideTyped, MainTyped
<1>7. CASE ReceiveBoughtReply
  <2> DEFINE i == Head(rx).instr
             t == Current(i)
  <2>1. Head(rx).data \in Data /\ rx' \in Seq(Received)
    BY <1>7, HandlesTyped DEF ReceiveBoughtReply
  <2>2. FillersTyped'
    <3>1. /\ emptyQ' = emptyQ
          /\ \/ filler' = filler
             \/ filler[t].pc = "idle"
                /\ filler' = [filler EXCEPT ![t] = [pc |-> "check", data |-> Head(rx).data]]
      BY <1>7 DEF ReceiveBoughtReply
    <3>2. [pc |-> "check", data |-> Head(rx).data] \in Filler
      BY <2>1 DEF Filler
    <3> HIDE DEF t
    <3>3. filler' \in [Thread -> Filler] /\ WaitForEmpty' = WaitForEmpty
      BY <1>0, <3>1, <3>2 DEF FillersTyped, WaitForEmpty
    <3> QED
      BY <1>0, <3>1, <3>3 DEF FillersTyped, Lists
  <2>3. /\ UNCHANGED <<app, hears, cmds, msgs, line>> /\ UNCHANGED <<control, paho, actor, cache>>
        /\ SamePublishers
    BY <1>7 DEF ReceiveBoughtReply, SamePublishers
  <2> QED
    BY <1>0, <2>1, <2>2, <2>3, SameThreads, SameOutside DEF Typed, MainTyped
<1> QED
  BY <1>1, <1>2, <1>3, <1>4, <1>5, <1>6, <1>7 DEF Actor

LEMMA FillTyped ==
    ASSUME Typed, NEW t \in Thread, Fill(t)
    PROVE  Typed'
<1>0. /\ FillersTyped /\ PublishersTyped /\ filler[t] \in Filler
      /\ t[1] \in Instruments /\ NoData \in Data
  BY DEF Typed, FillersTyped, Thread, Data
<1>1. CASE FillCheck(t)
  <2>1. PICK pc \in {"idle", "wait", "store"} : filler' = [filler EXCEPT ![t].pc = pc]
    BY <1>1 DEF FillCheck
  <2>2. /\ filler' \in [Thread -> Filler] /\ filler'[t].pc = pc
        /\ \A u \in Thread \ {t} : filler'[u] = filler[u]
    <3>1. [filler[t] EXCEPT !.pc = pc] \in Filler /\ [filler[t] EXCEPT !.pc = pc].pc = pc
      BY <1>0 DEF Filler
    <3> QED
      BY <1>0, <2>1, <3>1 DEF FillersTyped
  <2>3. FillersTyped'
    <3>1. CASE pc = "wait"
      <4>1. emptyQ' = Append(emptyQ, t)
        <5>1. ASSUME cache[t[1]].reply = NoData PROVE FALSE
          <6>1. PICK x \in {"idle", "store"} : filler' = [filler EXCEPT ![t].pc = x]
            BY <1>1, <5>1 DEF FillCheck
          <6>2. filler'[t].pc = x
            BY <1>0, <6>1 DEF FillersTyped, Filler
          <6> QED
            BY <2>2, <3>1, <6>2
        <5> QED
          BY <1>1, <5>1 DEF FillCheck
      <4>2. t \notin WaitForEmpty
        BY <1>1 DEF FillCheck, WaitForEmpty
      <4>3. WaitForEmpty' = WaitForEmpty \cup {t}
        BY <2>2, <3>1 DEF WaitForEmpty
      <4>4. Lists(Append(emptyQ, t), WaitForEmpty \cup {t}) /\ Append(emptyQ, t) \in Seq(Thread)
        BY <1>0, <4>2, ListsAppend DEF FillersTyped
      <4> QED
        BY <2>2, <4>1, <4>3, <4>4 DEF FillersTyped, Lists
    <3>2. CASE pc # "wait"
      <4>1. emptyQ' = emptyQ
        <5>1. filler'[t].pc # "wait"
          BY <2>2, <3>2
        <5>2. CASE cache[t[1]].reply # NoData
          <6>1. filler' = [filler EXCEPT ![t].pc = "wait"]
            BY <1>1, <5>2 DEF FillCheck
          <6>2. filler'[t].pc = "wait"
            BY <1>0, <6>1 DEF FillersTyped, Filler
          <6> QED
            BY <5>1, <6>2
        <5> QED
          BY <1>1, <5>2 DEF FillCheck
      <4>2. WaitForEmpty' = WaitForEmpty
        BY <1>1, <2>2, <3>2 DEF WaitForEmpty, FillCheck
      <4> QED
        BY <1>0, <2>2, <4>1, <4>2 DEF FillersTyped, Lists
    <3> QED
      BY <3>1, <3>2
  <2>4. /\ UNCHANGED <<app, hears, cmds, msgs, line>>
        /\ UNCHANGED <<control, paho, actor, rx, cache>> /\ SamePublishers
    BY <1>1 DEF FillCheck, SamePublishers
  <2> QED
    BY <1>0, <2>3, <2>4, SameThreads, SameOutside, SameMain DEF Typed
<1>2. ASSUME filler[t].pc # "wait", emptyQ' = emptyQ,
             NEW x \in Filler, x.pc # "wait", filler' = [filler EXCEPT ![t] = x]
      PROVE  FillersTyped'
  <2>1. /\ filler' \in [Thread -> Filler] /\ filler'[t] = x
        /\ \A u \in Thread \ {t} : filler'[u] = filler[u]
    BY <1>0, <1>2 DEF FillersTyped
  <2>2. WaitForEmpty' = WaitForEmpty
    BY <1>2, <2>1 DEF WaitForEmpty
  <2> QED
    BY <1>0, <1>2, <2>1, <2>2 DEF FillersTyped, Lists
<1>3. CASE FillStore(t)
  <2>1. cache' \in [Instruments -> Cache]
    <3>1. filler[t].data \in Data
      BY <1>0 DEF Filler
    <3> QED
      BY <1>0, <1>3, <3>1, CacheTyped DEF FillStore
  <2>2. FillersTyped'
    <3>1. [filler[t] EXCEPT !.pc = "send"] \in Filler /\ [filler[t] EXCEPT !.pc = "send"].pc = "send"
      BY <1>0 DEF Filler
    <3> QED
      BY <1>2, <1>3, <3>1 DEF FillStore
  <2>3. /\ UNCHANGED <<app, hears, cmds, msgs, line>>
        /\ UNCHANGED <<control, paho, actor, rx>> /\ SamePublishers
    BY <1>3 DEF FillStore, SamePublishers
  <2> QED
    BY <1>0, <2>1, <2>2, <2>3, SameThreads, SameOutside DEF Typed, MainTyped
<1>4. CASE FillSend(t)
  <2>1. line' \in [Instruments -> Line]
    BY <1>0, <1>4, BuyAheadTyped DEF FillSend
  <2>2. FillersTyped'
    <3>1. [filler[t] EXCEPT !.pc = "notify"] \in Filler
          /\ [filler[t] EXCEPT !.pc = "notify"].pc = "notify"
      BY <1>0 DEF Filler
    <3> QED
      BY <1>2, <1>4, <3>1 DEF FillSend
  <2>3. /\ UNCHANGED <<app, hears, cmds, msgs>>
        /\ UNCHANGED <<control, paho, actor, rx, cache>> /\ SamePublishers
    BY <1>4 DEF FillSend, SamePublishers
  <2> QED
    BY <1>0, <2>1, <2>2, <2>3, SameThreads, SameMain DEF Typed, OutsideTyped
<1>5. CASE FillNotify(t)
  <2>1. FillersTyped'
    <3>1. [pc |-> "idle", data |-> NoData] \in Filler
      BY <1>0 DEF Filler
    <3> QED
      BY <1>2, <1>5, <3>1 DEF FillNotify
  <2>2. /\ UNCHANGED <<app, hears, cmds, msgs, line>>
        /\ UNCHANGED <<control, paho, actor, rx, cache>> /\ NotifyFilled
    BY <1>5 DEF FillNotify
  <2> QED
    BY <1>0, <2>1, <2>2, NotifyFilledWakes, SameOutside, SameMain DEF Typed
<1> QED
  BY <1>1, <1>3, <1>4, <1>5 DEF Fill

LEMMA PublisherTyped ==
    ASSUME Typed, NEW t \in Thread, PublishFunction(t)
    PROVE  Typed'
<1>0. /\ FillersTyped /\ PublishersTyped /\ publisher[t] \in Publisher
      /\ t[1] \in Instruments /\ NoData \in Data
  BY DEF Typed, PublishersTyped, Thread, Data
<1>1. ASSUME publisher[t] # "wait", filledQ' = filledQ,
             NEW x \in Publisher, x # "wait", publisher' = [publisher EXCEPT ![t] = x]
      PROVE  PublishersTyped'
  <2>1. /\ publisher' \in [Thread -> Publisher] /\ publisher'[t] = x
        /\ \A u \in Thread \ {t} : publisher'[u] = publisher[u]
    BY <1>0, <1>1 DEF PublishersTyped
  <2>2. WaitForFilled' = WaitForFilled
    BY <1>1, <2>1 DEF WaitForFilled
  <2> QED
    BY <1>0, <1>1, <2>1, <2>2 DEF PublishersTyped, Lists
<1>2. {"check", "publish", "clear", "idle", "wait"} \subseteq Publisher
  BY DEF Publisher
<1>3. CASE PublishSpin(t)
  <2>1. PublishersTyped'
    BY <1>1, <1>2, <1>3 DEF PublishSpin
  <2>2. /\ UNCHANGED <<app, hears, cmds, msgs, line>>
        /\ UNCHANGED <<control, paho, actor, rx, cache>> /\ SameFillers
    BY <1>3 DEF PublishSpin, SameFillers
  <2> QED
    BY <1>0, <2>1, <2>2, SameThreads, SameOutside, SameMain DEF Typed
<1>4. CASE PublishCheck(t)
  <2>1. PublishersTyped'
    <3>1. CASE cache[t[1]].reply # NoData
      BY <1>1, <1>2, <1>4, <3>1 DEF PublishCheck
    <3>2. CASE cache[t[1]].reply = NoData
      <4>1. filledQ' = Append(filledQ, t) /\ publisher' = [publisher EXCEPT ![t] = "wait"]
        BY <1>4, <3>2 DEF PublishCheck
      <4>2. t \notin WaitForFilled
        BY <1>4 DEF PublishCheck, WaitForFilled
      <4>3. /\ publisher' \in [Thread -> Publisher] /\ publisher'[t] = "wait"
            /\ \A u \in Thread \ {t} : publisher'[u] = publisher[u]
        BY <1>0, <1>2, <4>1 DEF PublishersTyped
      <4>4. WaitForFilled' = WaitForFilled \cup {t}
        BY <4>3 DEF WaitForFilled
      <4>5. Lists(Append(filledQ, t), WaitForFilled \cup {t}) /\ Append(filledQ, t) \in Seq(Thread)
        BY <1>0, <4>2, ListsAppend DEF PublishersTyped
      <4> QED
        BY <4>1, <4>3, <4>4, <4>5 DEF PublishersTyped, Lists
    <3> QED
      BY <3>1, <3>2
  <2>2. /\ UNCHANGED <<app, hears, cmds, msgs, line>>
        /\ UNCHANGED <<control, paho, actor, rx, cache>> /\ SameFillers
    BY <1>4 DEF PublishCheck, SameFillers
  <2> QED
    BY <1>0, <2>1, <2>2, SameThreads, SameOutside, SameMain DEF Typed
<1>5. CASE PublishCached(t)
  <2>1. PublishersTyped'
    BY <1>1, <1>2, <1>5 DEF PublishCached
  <2>2. msgs' \in [Instruments -> Seq(Message)]
    <3>1. cache[t[1]].reply \in Data
      BY <1>0 DEF Typed, MainTyped, Cache
    <3>2. Publish(t[1], [topic |-> "msg", id |-> cache[t[1]].id, data |-> cache[t[1]].reply])
      BY <1>5 DEF PublishCached, PublishReply
    <3> QED
      BY <1>0, <3>1, <3>2, MessageTyped, PublishTyped
  <2>3. /\ UNCHANGED <<app, hears, cmds, line>>
        /\ UNCHANGED <<control, paho, actor, rx, cache>> /\ SameFillers
    BY <1>5 DEF PublishCached, SameFillers
  <2> QED
    BY <1>0, <2>1, <2>2, <2>3, SameThreads, SameMain DEF Typed, OutsideTyped
<1>6. CASE PublishClear(t)
  <2>1. PublishersTyped'
    BY <1>1, <1>2, <1>6 DEF PublishClear
  <2>2. cache' \in [Instruments -> Cache]
    BY <1>0, <1>6, CacheTyped DEF PublishClear
  <2>3. /\ UNCHANGED <<app, hears, cmds, msgs, line>>
        /\ UNCHANGED <<control, paho, actor, rx>> /\ NotifyEmpty
    BY <1>6 DEF PublishClear
  <2> QED
    BY <1>0, <2>1, <2>2, <2>3, NotifyEmptyWakes, SameOutside DEF Typed, MainTyped
<1> QED
  BY <1>3, <1>4, <1>5, <1>6 DEF PublishFunction

\* What the device actor and its instrument do with the next command.
Gives(i, rest, reply) ==
    /\ line' = [line EXCEPT ![i] = rest]
    /\ rx' = rx \/ \E kind \in {"status", "data"} : ToFrontend(i, kind, reply)

LEMMA DeviceGives ==
    ASSUME Typed, NEW i \in Instruments, Device(i)
    PROVE  \E rest \in Line, reply \in Data : Gives(i, rest, reply)
<1> DEFINE L == line[i]
           cmd == Head(L.inbox)
           rest == [L EXCEPT !.inbox = Tail(@)]
<1>1. /\ L \in Line /\ L.inbox # <<>> /\ L.block \in Nat /\ L.pos \in Nat
      /\ L.inbox \in Seq(Commands \cup {"empty"})
  BY DEF Device, Typed, OutsideTyped, Line
<1>2. Tail(L.inbox) \in Seq(Commands \cup {"empty"}) /\ NoData \in Data
  BY <1>1 DEF Data
<1>3. /\ rest \in Line /\ rest.block = L.block /\ rest.pos = L.pos
  BY <1>1, <1>2 DEF Line
<1>4. /\ \A b \in BOOLEAN : [rest EXCEPT !.reserved = b] \in Line
      /\ [rest EXCEPT !.pos = @ + 1] \in Line
      /\ [rest EXCEPT !.block = @ + 1, !.pos = 0] \in Line
  <2> HIDE DEF rest
  <2>1. \A b \in BOOLEAN : [rest EXCEPT !.reserved = b] \in Line
    BY <1>3 DEF Line
  <2>2. rest.pos + 1 \in Nat /\ rest.block + 1 \in Nat /\ 0 \in Nat
    BY <1>1, <1>3
  <2>3. \A n \in Nat : [rest EXCEPT !.pos = n] \in Line
    BY <1>3 DEF Line
  <2>4. \A m, n \in Nat : [rest EXCEPT !.block = m, !.pos = n] \in Line
    BY <1>3 DEF Line
  <2> QED
    BY <2>1, <2>2, <2>3, <2>4
<1>5. /\ <<"frame", rest.block, rest.pos + 1>> \in Data
      /\ <<"other", rest.block + 1>> \in Data
  BY <1>1, <1>3 DEF Data, Frames, OtherReplies
<1>6. \/ /\ line' = [line EXCEPT ![i] = [rest EXCEPT !.reserved = cmd = "reserve"]]
         /\ ToFrontend(i, "status", NoData)
      \/ /\ line' = [line EXCEPT ![i] = [rest EXCEPT !.pos = @ + 1]]
         /\ ToFrontend(i, "data", <<"frame", rest.block, rest.pos + 1>>)
      \/ /\ line' = [line EXCEPT ![i] = [rest EXCEPT !.block = @ + 1, !.pos = 0]]
         /\ ToFrontend(i, "data", <<"other", rest.block + 1>>)
      \/ /\ line' = [line EXCEPT ![i] = rest]
         /\ ToFrontend(i, "data", NoData)
      \/ /\ line' = [line EXCEPT ![i] = rest]
         /\ rx' = rx
  BY DEF Device
<1>7. (cmd = "reserve") \in BOOLEAN
  OBVIOUS
<1> HIDE DEF rest, cmd
<1> QED
  BY <1>2, <1>3, <1>4, <1>5, <1>6, <1>7 DEF Gives

LEMMA DeviceTyped ==
    ASSUME Typed, NEW i \in Instruments, Device(i)
    PROVE  Typed'
<1>1. PICK rest \in Line, reply \in Data : Gives(i, rest, reply)
  BY DeviceGives
<1>2. line' \in [Instruments -> Line]
  BY <1>1 DEF Gives, Typed, OutsideTyped
<1>3. rx' \in Seq(Received)
  <2>1. \A kind \in {"status", "data"} :
          [instr |-> i, kind |-> kind, data |-> reply] \in Received
    BY DEF Received
  <2>2. rx \in Seq(Received)
    BY DEF Typed, MainTyped
  <2>3. \A x \in Received : Append(rx, x) \in Seq(Received)
    BY <2>2
  <2> QED
    BY <1>1, <2>1, <2>2, <2>3 DEF Gives, ToFrontend
<1>4. /\ UNCHANGED <<app, hears, cmds, msgs>> /\ UNCHANGED <<control, paho, actor, cache>>
      /\ SameFillers /\ SamePublishers
  BY DEF Device, SameFillers, SamePublishers
<1> QED
  BY <1>2, <1>3, <1>4, SameThreads DEF Typed, OutsideTyped, MainTyped

LEMMA NextTyped ==
    ASSUME Typed, [Next]_vars
    PROVE  Typed'
<1>1. CASE UNCHANGED vars
  <2>1. /\ UNCHANGED <<app, hears, cmds, msgs, line>>
        /\ UNCHANGED <<control, paho, actor, rx, cache>> /\ SameFillers /\ SamePublishers
    BY <1>1 DEF vars, server, SameFillers, SamePublishers
  <2> QED
    BY <2>1, SameThreads, SameOutside, SameMain DEF Typed
<1> QED
  BY <1>1, AppTyped, PahoTyped, ActorTyped, FillTyped, PublisherTyped, DeviceTyped DEF Next

\* Every variable keeps its type, and the queue of either Condition lists the
\* threads that wait for it, each of them once: a notify wakes a thread that waits.
THEOREM TypeCorrect == Spec => []TypeOK
<1>1. Init => Typed
  BY InitTyped
<1>2. Typed /\ [Next]_vars => Typed'
  BY NextTyped
<1>3. Typed => TypeOK
  BY TypedIsTypeOK
<1> QED
  BY <1>1, <1>2, <1>3, PTL DEF Spec

-----------------------------------------------------------------------------
(* Downloads over a slow line: what holds between the steps. *)

\* The sessions that hold one download: a reservation, commands that select the
\* download, and then nothing but GetNext.
OneDownload ==
    \A s \in Scripts : \A k \in 1 .. Len(s) :
        /\ s[k] \in Control => k = 1
        /\ k > 1 /\ s[k - 1] = "next" => s[k] = "next"

\* The commands of i that the paho thread has taken so far, and the last of them.
Asking(i) == \E k \in 1 .. Len(cmds) : cmds[k].instr = i
Handled(i) == IF Asking(i) THEN app[i].sent - 1 ELSE app[i].sent
Fetching(i) == Handled(i) > 1 /\ app[i].script[Handled(i)] = "next"

\* The download that these commands have led to, and the frame they ask for.
Block(i) == Direct!Block(app[i].script, Handled(i))
Position(i) == Direct!Position(app[i].script, Handled(i))
Frame(block, pos) == <<"frame", block, pos>>

\* What the threads that serve all instruments do for i.
PahoFor(i) == IF paho # Idle /\ paho.instr = i THEN paho.pc ELSE "idle"
Buys(i) == actor = At("buyAhead", i)
Comes(i) == rx # <<>> /\ Head(rx).instr = i
Coming(i) == IF Comes(i) /\ Head(rx).kind = "data" THEN {Head(rx).data} ELSE {}

\* The threads of the only reservation of i.
T(i) == <<i, 1>>

\* The last command has had all its effects.
Done(i) ==
    /\ line[i].inbox = <<>> /\ Coming(i) = {} /\ PahoFor(i) = "idle"
    /\ line[i].reserved <=> Handled(i) > 0
    /\ line[i].block = Block(i)
    /\ line[i].pos = 0

Reserving(i) ==
    /\ Handled(i) = 1
    /\ PahoFor(i) \in {"idle", "replace"}
    /\ line[i].inbox = <<"reserve">> /\ Coming(i) = {}
    /\ ~line[i].reserved /\ line[i].block = 0

Selecting(i) ==
    /\ Handled(i) > 1
    /\ line[i].reserved
    /\ \/ /\ PahoFor(i) \in {"idle", "forget", "clear"}
          /\ line[i].inbox = <<"other">> /\ Coming(i) = {}
          /\ line[i].block + 1 = Block(i)
       \/ /\ PahoFor(i) = "idle"
          /\ line[i].inbox = <<>> /\ Coming(i) = {<<"other", Block(i)>>}
          /\ line[i].block = Block(i)

\* Before the first GetNext the cache is out of use.
Quiet(i) ==
    /\ cache[i].lease = IF Handled(i) = 0 \/ PahoFor(i) = "replace" THEN 0 ELSE 1
    /\ ~cache[i].ahead /\ ~cache[i].first /\ cache[i].reply = NoData
    /\ filler[T(i)].pc = "idle" /\ publisher[T(i)] = "idle" /\ ~Buys(i)
    /\ line[i].pos = 0
    /\ Done(i) \/ Reserving(i) \/ Selecting(i)

\* The frames that the instrument has given and nobody has published: one on its
\* way into the cache, one in the cache.
Fetched(i) == Coming(i) # {} \/ filler[T(i)].pc \in {"check", "wait", "store"}
Cached(i) == cache[i].reply # NoData /\ publisher[T(i)] # "clear"
InHand(i) == (IF Fetched(i) THEN 1 ELSE 0) + (IF Cached(i) THEN 1 ELSE 0)

\* The frame that the last command asks for is the next one to be published, or
\* it has been published.
Asked(i) == line[i].pos + 1 = Position(i) + InHand(i)
Served(i) == line[i].pos = Position(i) + InHand(i)

\* There is one buy-ahead at a time: its command, its reply, the thread that
\* puts the reply into the cache.
BuysOnce(i) ==
    \/ /\ line[i].inbox = <<"next">> /\ ~Buys(i) /\ Coming(i) = {}
       /\ filler[T(i)].pc \in {"idle", "notify"}
    \/ /\ line[i].inbox = <<>> /\ ~Buys(i)
       /\ Coming(i) = {Frame(line[i].block, line[i].pos)}
       /\ filler[T(i)].pc = "idle"
    \/ /\ line[i].inbox = <<>> /\ Buys(i) /\ Coming(i) = {}
       /\ filler[T(i)].pc = "idle" /\ cache[i].reply = NoData
    \/ /\ line[i].inbox = <<>> /\ ~Buys(i) /\ Coming(i) = {}
       /\ filler[T(i)].pc \in {"check", "wait", "store", "send"}
       /\ filler[T(i)].pc # "send" => filler[T(i)].data = Frame(line[i].block, line[i].pos)
       /\ filler[T(i)].pc = "store" => cache[i].reply = NoData

\* The first GetNext has not been answered.
Opening(i) ==
    /\ Asked(i)
    /\ publisher[T(i)] = "idle" /\ cache[i].reply = NoData /\ filler[T(i)].pc = "idle"

Downloading(i) ==
    /\ cache[i].lease = 1
    /\ line[i].reserved
    /\ line[i].block = Block(i)
    /\ BuysOnce(i)
    /\ PahoFor(i) \in {"idle", "ahead", "first"}
    /\ cache[i].ahead <=> PahoFor(i) # "ahead"
    /\ PahoFor(i) # "idle" => line[i].inbox = <<"next">> /\ Opening(i)
    /\ cache[i].first => Buys(i) \/ Opening(i)
    /\ publisher[T(i)] \in {"spin", "check", "wait", "publish"} => Asked(i)
    /\ publisher[T(i)] \in {"publish", "clear"} => cache[i].reply # NoData
    /\ cache[i].reply # NoData =>
         cache[i].reply = Frame(line[i].block,
                                IF Fetched(i) THEN line[i].pos - 1 ELSE line[i].pos)

Stage(i) == IF Fetching(i) THEN Downloading(i) ELSE Quiet(i)

\* All that the last command asks for has been published.
Answerable(i) == IF Fetching(i) THEN Served(i) ELSE Done(i)

SessionSound(i) ==
    /\ app[i].sent \in 0 .. Len(app[i].script)
    /\ Len(app[i].got) = IF app[i].pending THEN app[i].sent - 1 ELSE app[i].sent
    /\ \A j \in 1 .. Len(app[i].got) : app[i].got[j] = Direct!Reply(app[i].script, j)

MessagesSound(i) ==
    \A k \in 1 .. Len(msgs[i]) :
        LET m == msgs[i][k] IN
        /\ m.topic = "reservation" => m.status = "reserve"
        /\ m.topic = "msg" => /\ m.id \in 1 .. Handled(i)
                              /\ m.data = Direct!Reply(app[i].script, m.id)
                              /\ m.id = Handled(i) => Answerable(i)

\* Nothing is published before the instrument is reserved.
Announced(i) == ~line[i].reserved => msgs[i] = <<>> /\ ~Comes(i)

InstrumentSound(i) ==
    /\ SessionSound(i)
    /\ MessagesSound(i)
    /\ Announced(i)
    /\ Len(app[i].got) = Handled(i) => Answerable(i)
    /\ cache[i].id = IF Handled(i) > 1 THEN Handled(i) ELSE 0
    /\ Stage(i)

\* The paho thread has one command of an application at most, the pending one.
CommandsSound ==
    /\ \A k \in 1 .. Len(cmds) :
        LET c == cmds[k] IN
        /\ app[c.instr].pending
        /\ c.id = app[c.instr].sent
        /\ c.cmd = app[c.instr].script[c.id]
    /\ \A k, l \in 1 .. Len(cmds) : cmds[k].instr = cmds[l].instr => k = l

\* A slow instrument gives a reply when the last one has been handled.
ServerSound ==
    /\ control \in {"unknown", "reserve"}
    /\ Len(rx) <= 1
    /\ \A t \in Thread : t[2] # 1 => filler[t].pc = "idle" /\ publisher[t] = "idle"

Sound == CommandsSound /\ ServerSound /\ \A i \in Instruments : InstrumentSound(i)

-----------------------------------------------------------------------------
(* The direct line, one command further. *)

LEMMA DirectCardinality ==
    ASSUME NEW S
    PROVE  Direct!Cardinality(S) = Cardinality(S)
BY DEF Direct!Cardinality, Cardinality, Direct!IsFiniteSet, IsFiniteSet

LEMMA OthersFinite ==
    ASSUME NEW s, NEW j \in Nat
    PROVE  IsFiniteSet(Direct!Others(s, j)) /\ Direct!Block(s, j) \in Nat
<1>1. IsFiniteSet(1 .. j)
  BY FS_Interval
<1>2. IsFiniteSet(Direct!Others(s, j))
  BY <1>1, FS_Subset DEF Direct!Others
<1> QED
  BY <1>2, FS_CardinalityType, DirectCardinality DEF Direct!Block

LEMMA BlockStep ==
    ASSUME NEW s, NEW j \in Nat
    PROVE  /\ s[j + 1] = "other" => Direct!Block(s, j + 1) = Direct!Block(s, j) + 1
           /\ s[j + 1] # "other" => /\ Direct!Others(s, j + 1) = Direct!Others(s, j)
                                    /\ Direct!Block(s, j + 1) = Direct!Block(s, j)
<1>1. CASE s[j + 1] = "other"
  <2>1. Direct!Others(s, j + 1) = Direct!Others(s, j) \cup {j + 1} /\ j + 1 \notin Direct!Others(s, j)
    BY <1>1 DEF Direct!Others
  <2> QED
    BY <1>1, <2>1, OthersFinite, FS_AddElement, DirectCardinality DEF Direct!Block
<1>2. CASE s[j + 1] # "other"
  <2>1. Direct!Others(s, j + 1) = Direct!Others(s, j)
    BY <1>2 DEF Direct!Others
  <2> QED
    BY <1>2, <2>1 DEF Direct!Block
<1> QED
  BY <1>1, <1>2

\* A GetNext is answered with the frame after the last one.
LEMMA PositionNext ==
    ASSUME NEW s, NEW j \in Nat, s[j + 1] = "next"
    PROVE  Direct!Position(s, j + 1) = Direct!Position(s, j) + 1
<1> DEFINE N(n) == {k \in 1 .. n : s[k] = "next" /\ \A o \in Direct!Others(s, n) : o < k}
<1>1. Direct!Others(s, j + 1) = Direct!Others(s, j)
  BY BlockStep
<1>2. \A o \in Direct!Others(s, j) : o < j + 1
  BY DEF Direct!Others
<1>3. N(j + 1) = N(j) \cup {j + 1} /\ j + 1 \notin N(j)
  BY <1>1, <1>2
<1>4. IsFiniteSet(N(j))
  <2>1. IsFiniteSet(1 .. j) /\ N(j) \subseteq 1 .. j
    BY FS_Interval
  <2> QED
    BY <2>1, FS_Subset
<1>5. Direct!Position(s, j + 1) = Cardinality(N(j + 1)) /\ Direct!Position(s, j) = Cardinality(N(j))
  BY DirectCardinality DEF Direct!Position
<1> HIDE DEF N
<1> QED
  BY <1>3, <1>4, <1>5, FS_AddElement

\* A download starts with its first frame.
LEMMA PositionStart ==
    ASSUME NEW s, NEW j \in Nat \ {0}, s[j] = "other" \/ (j = 1 /\ s[j] # "next")
    PROVE  Direct!Position(s, j) = 0
<1> DEFINE N == {k \in 1 .. j : s[k] = "next" /\ \A o \in Direct!Others(s, j) : o < k}
<1>1. N = {}
  BY DEF Direct!Others
<1> QED
  BY <1>1, FS_EmptySet, DirectCardinality DEF Direct!Position

LEMMA BlockStart ==
    ASSUME NEW s
    PROVE  /\ Direct!Block(s, 0) = 0
           /\ s[1] # "other" => Direct!Block(s, 1) = 0
<1>1. Direct!Others(s, 0) = {}
  BY DEF Direct!Others
<1>2. s[1] # "other" => Direct!Others(s, 1) = {}
  BY DEF Direct!Others
<1> QED
  BY <1>1, <1>2, FS_EmptySet, DirectCardinality DEF Direct!Block

LEMMA DirectTypes ==
    ASSUME NEW s, NEW j \in Nat
    PROVE  Direct!Block(s, j) \in Nat /\ Direct!Position(s, j) \in Nat
<1> DEFINE N == {k \in 1 .. j : s[k] = "next" /\ \A o \in Direct!Others(s, j) : o < k}
<1>1. IsFiniteSet(1 .. j) /\ N \subseteq 1 .. j
  BY FS_Interval
<1>2. Cardinality(N) \in Nat
  BY <1>1, FS_Subset, FS_CardinalityType
<1> QED
  BY <1>2, OthersFinite, DirectCardinality DEF Direct!Position

-----------------------------------------------------------------------------
(* What the other instruments notice of a step: threads may be woken. *)

LEMMA ThreadOfInstrument ==
    ASSUME NEW i \in Instruments
    PROVE  T(i) \in Thread /\ \A j : T(j) = T(i) => j = i
<1>1. 1 \in 0 .. MaxLeases
  BY SessionAssumption
<1> QED
  BY <1>1 DEF T, Thread

Woken(i) ==
    /\ \/ filler'[T(i)] = filler[T(i)]
       \/ filler[T(i)].pc = "wait" /\ filler'[T(i)] = [filler[T(i)] EXCEPT !.pc = "check"]
    /\ \/ publisher'[T(i)] = publisher[T(i)]
       \/ publisher[T(i)] = "wait" /\ publisher'[T(i)] = "check"

Alike(i) ==
    /\ app'[i].script = app[i].script /\ Handled(i)' = Handled(i)
    /\ cache'[i] = cache[i] /\ line'[i] = line[i]
    /\ PahoFor(i)' = PahoFor(i) /\ (Buys(i)' <=> Buys(i)) /\ Coming(i)' = Coming(i)
    /\ Woken(i)

LEMMA AlikeStage ==
    ASSUME Typed, NEW i \in Instruments, Stage(i), Alike(i)
    PROVE  Stage(i)' /\ (Answerable(i) => Answerable(i)')
<1>1. /\ (Fetching(i)' <=> Fetching(i)) /\ Handled(i)' = Handled(i)
      /\ Block(i)' = Block(i) /\ Position(i)' = Position(i)
  BY DEF Alike, Fetching, Block, Position
<1>2. /\ cache'[i] = cache[i] /\ line'[i] = line[i]
      /\ PahoFor(i)' = PahoFor(i) /\ (Buys(i)' <=> Buys(i)) /\ Coming(i)' = Coming(i)
  BY DEF Alike
<1>3. /\ filler'[T(i)].data = filler[T(i)].data
      /\ \/ filler'[T(i)].pc = filler[T(i)].pc
         \/ filler[T(i)].pc = "wait" /\ filler'[T(i)].pc = "check"
  <2>1. filler[T(i)] \in Filler
    BY ThreadOfInstrument DEF Typed, FillersTyped
  <2> QED
    BY <2>1 DEF Alike, Woken, Filler
<1>4. \/ publisher'[T(i)] = publisher[T(i)]
      \/ publisher[T(i)] = "wait" /\ publisher'[T(i)] = "check"
  BY DEF Alike, Woken
<1>5. (Fetched(i)' <=> Fetched(i)) /\ (Cached(i)' <=> Cached(i))
  BY <1>2, <1>3, <1>4 DEF Fetched, Cached
<1>6. InHand(i)' = InHand(i)
  BY <1>5 DEF InHand
<1>7. (Asked(i)' <=> Asked(i)) /\ (Served(i)' <=> Served(i)) /\ (Done(i)' <=> Done(i))
  BY <1>1, <1>2, <1>6 DEF Asked, Served, Done
<1>8. Answerable(i) => Answerable(i)'
  BY <1>1, <1>7 DEF Answerable
<1>9. ASSUME Quiet(i) PROVE Quiet(i)'
  <2>1. (Reserving(i)' <=> Reserving(i)) /\ (Selecting(i)' <=> Selecting(i))
    BY <1>1, <1>2 DEF Reserving, Selecting
  <2> QED
    BY <1>1, <1>2, <1>3, <1>4, <1>7, <1>9, <2>1 DEF Quiet
<1>10. ASSUME Downloading(i) PROVE Downloading(i)'
  <2>1. BuysOnce(i)'
    <3>1. BuysOnce(i)
      BY <1>10 DEF Downloading
    <3> QED
      BY <1>2, <1>3, <3>1 DEF BuysOnce
  <2>2. Opening(i) => Opening(i)'
    BY <1>2, <1>3, <1>4, <1>7 DEF Opening
  <2> QED
    BY <1>1, <1>2, <1>4, <1>5, <1>7, <1>10, <2>1, <2>2 DEF Downloading
<1> QED
  BY <1>1, <1>8, <1>9, <1>10 DEF Stage

\* The application and its messages are not concerned.
Silent(i) ==
    /\ app'[i] = app[i] /\ msgs'[i] = msgs[i] /\ Handled(i)' = Handled(i)
    /\ cache'[i].id = cache[i].id
    /\ (line[i].reserved => line'[i].reserved) /\ (Comes(i)' => Comes(i))

LEMMA SilentSound ==
    ASSUME NEW i \in Instruments, InstrumentSound(i), Silent(i),
           Stage(i)', Answerable(i) => Answerable(i)'
    PROVE  InstrumentSound(i)'
<1>1. SessionSound(i)' /\ Announced(i)'
  BY DEF InstrumentSound, Silent, SessionSound, Announced
<1>2. MessagesSound(i)'
  BY DEF InstrumentSound, Silent, MessagesSound
<1> QED
  BY <1>1, <1>2 DEF InstrumentSound, Silent

LEMMA AlikeSound ==
    ASSUME Typed, NEW i \in Instruments, InstrumentSound(i), Silent(i), Alike(i)
    PROVE  InstrumentSound(i)'
<1>1. Stage(i)' /\ (Answerable(i) => Answerable(i)')
  BY AlikeStage DEF InstrumentSound
<1> QED
  BY <1>1, SilentSound

LEMMA NobodyWoken ==
    ASSUME NEW i \in Instruments,
           filler'[T(i)] = filler[T(i)], publisher'[T(i)] = publisher[T(i)]
    PROVE  Woken(i)
BY DEF Woken

\* The threads other than those of the one reservation are idle.
LEMMA WokenThreads ==
    ASSUME Typed, FillersWoken, PublishersWoken
    PROVE  /\ \A i \in Instruments : Woken(i)
           /\ (\A t \in Thread : t[2] # 1 => filler[t].pc = "idle" /\ publisher[t] = "idle")
              => (\A t \in Thread : t[2] # 1 => filler'[t].pc = "idle" /\ publisher'[t] = "idle")
<1>1. \A i \in Instruments : Woken(i)
  BY ThreadOfInstrument DEF FillersWoken, PublishersWoken, Woken
<1> QED
  BY <1>1 DEF FillersWoken, PublishersWoken

\* Commands and replies under way that a step leaves alone.
LEMMA SameCommands ==
    ASSUME UNCHANGED <<app, cmds>>
    PROVE  /\ \A i \in Instruments : Handled(i)' = Handled(i)
           /\ CommandsSound => CommandsSound'
BY DEF Handled, Asking, CommandsSound

LEMMA SameReplies ==
    ASSUME UNCHANGED rx
    PROVE  \A i \in Instruments : Coming(i)' = Coming(i) /\ (Comes(i)' <=> Comes(i))
BY DEF Coming, Comes

LEMMA SamePaho ==
    ASSUME UNCHANGED paho
    PROVE  \A i \in Instruments : PahoFor(i)' = PahoFor(i)
BY DEF PahoFor

LEMMA SameActor ==
    ASSUME UNCHANGED actor
    PROVE  \A i \in Instruments : Buys(i)' <=> Buys(i)
BY DEF Buys

-----------------------------------------------------------------------------
(* The first state. *)

LEMMA InitSound == Init => Sound
<1> SUFFICES ASSUME Init PROVE Sound
  OBVIOUS
<1>1. CommandsSound /\ ServerSound
  BY DEF Init, CommandsSound, ServerSound
<1>2. ASSUME NEW i \in Instruments PROVE InstrumentSound(i)
  <2>1. app[i].sent = 0 /\ app[i].pending = FALSE /\ app[i].got = <<>> /\ app[i].script \in Seq(Commands)
    BY SessionAssumption DEF Init, Direct!Init
  <2>2. Handled(i) = 0 /\ ~Fetching(i)
    BY <2>1 DEF Init, Handled, Asking, Fetching
  <2>3. /\ cache[i] = Fresh(0) /\ filler[T(i)].pc = "idle" /\ publisher[T(i)] = "idle"
        /\ line[i] = [inbox |-> <<>>, reserved |-> FALSE, block |-> 0, pos |-> 0]
        /\ msgs[i] = <<>>
    BY ThreadOfInstrument DEF Init
  <2>4. PahoFor(i) = "idle" /\ ~Buys(i) /\ Coming(i) = {} /\ ~Comes(i)
    BY DEF Init, PahoFor, Buys, Coming, Comes, Idle, At
  <2>5. Block(i) = 0
    BY <2>2, BlockStart DEF Block
  <2>6. Done(i)
    BY <2>2, <2>3, <2>4, <2>5 DEF Done
  <2>7. Quiet(i)
    BY <2>2, <2>3, <2>4, <2>6 DEF Quiet, Fresh
  <2>8. SessionSound(i)
    BY <2>1 DEF SessionSound
  <2>9. MessagesSound(i) /\ Announced(i)
    BY <2>3, <2>4 DEF MessagesSound, Announced
  <2> QED
    BY <2>1, <2>2, <2>3, <2>6, <2>7, <2>8, <2>9 DEF InstrumentSound, Stage, Answerable, Fresh
<1> QED
  BY <1>1, <1>2 DEF Sound

-----------------------------------------------------------------------------
(* The steps of the application. *)

LEMMA FewerMessages ==
    ASSUME NEW i \in Instruments, MessagesSound(i), Typed,
           app'[i].script = app[i].script, Handled(i)' = Handled(i),
           Answerable(i) => Answerable(i)',
           msgs'[i] = msgs[i] \/ (msgs[i] # <<>> /\ msgs'[i] = Tail(msgs[i]))
    PROVE  MessagesSound(i)'
<1>1. msgs[i] \in Seq(Message)
  BY DEF Typed, OutsideTyped
<1>2. \A k \in 1 .. Len(msgs'[i]) : \E l \in 1 .. Len(msgs[i]) : msgs'[i][k] = msgs[i][l]
  <2>1. CASE msgs'[i] = msgs[i]
    BY <2>1
  <2>2. CASE msgs[i] # <<>> /\ msgs'[i] = Tail(msgs[i])
    <3>1. ASSUME NEW k \in 1 .. Len(msgs'[i])
          PROVE  k + 1 \in 1 .. Len(msgs[i]) /\ msgs'[i][k] = msgs[i][k + 1]
      BY <1>1, <2>2
    <3> QED
      BY <3>1
  <2> QED
    BY <2>1, <2>2
<1> QED
  BY <1>2 DEF MessagesSound

LEMMA AppStepSound ==
    ASSUME Typed, NEW i \in Instruments, InstrumentSound(i), Alike(i),
           SessionSound(i)',
           msgs'[i] = msgs[i] \/ (msgs[i] # <<>> /\ msgs'[i] = Tail(msgs[i])),
           Comes(i)' => Comes(i),
           Len(app'[i].got) = Handled(i) => Answerable(i)
    PROVE  InstrumentSound(i)'
<1>1. Stage(i)' /\ (Answerable(i) => Answerable(i)')
  BY AlikeStage DEF InstrumentSound
<1>2. /\ app'[i].script = app[i].script /\ Handled(i)' = Handled(i)
      /\ cache'[i] = cache[i] /\ line'[i] = line[i]
  BY DEF Alike
<1>3. MessagesSound(i)'
  BY <1>1, <1>2, FewerMessages DEF InstrumentSound
<1>4. Announced(i)'
  BY <1>2 DEF InstrumentSound, Announced
<1> QED
  BY <1>1, <1>2, <1>3, <1>4 DEF InstrumentSound

LEMMA ReservedStarted ==
    ASSUME NEW i \in Instruments, InstrumentSound(i), line[i].reserved, Handled(i) \in Nat
    PROVE  Handled(i) > 0 /\ (Handled(i) = 1 => Answerable(i))
<1>1. CASE Fetching(i)
  BY <1>1 DEF Fetching
<1>2. CASE ~Fetching(i)
  <2>1. Done(i) \/ Reserving(i) \/ Selecting(i)
    BY <1>2 DEF InstrumentSound, Stage, Quiet
  <2> QED
    BY <1>2, <2>1 DEF Done, Reserving, Selecting, Answerable
<1> QED
  BY <1>1, <1>2

LEMMA SessionTypes ==
    ASSUME Typed, NEW i \in Instruments, SessionSound(i)
    PROVE  /\ app[i].script \in Scripts /\ app[i].script \in Seq(Commands)
           /\ Len(app[i].script) \in Nat /\ app[i].sent \in Nat /\ Len(app[i].got) \in Nat
           /\ app[i].got \in Seq(Data \cup Statuses)
           /\ Handled(i) \in {app[i].sent, app[i].sent - 1}
           /\ (Asking(i) => app[i].sent > 0) => Handled(i) \in Nat
<1>1. app[i] \in Session
  BY DEF Typed, OutsideTyped
<1>2. /\ app[i].script \in Scripts /\ app[i].sent \in Nat
      /\ app[i].got \in Seq(Data \cup Statuses)
  BY <1>1 DEF Session
<1>3. app[i].script \in Seq(Commands)
  BY <1>2, SessionAssumption
<1> QED
  BY <1>2, <1>3 DEF Handled

\* What the command at the paho thread says of the session.
LEMMA AskingPends ==
    ASSUME Typed, Sound, NEW i \in Instruments, Asking(i)
    PROVE  app[i].pending /\ app[i].sent > 0 /\ Len(app[i].got) = Handled(i)
<1>1. app[i].pending
  BY DEF Asking, Sound, CommandsSound
<1>2. SessionSound(i)
  BY DEF Sound, InstrumentSound
<1>3. Len(app[i].got) = app[i].sent - 1 /\ Len(app[i].got) \in Nat /\ app[i].sent \in Nat
  BY <1>1, <1>2, SessionTypes DEF SessionSound
<1> QED
  BY <1>1, <1>3 DEF Handled

LEMMA HandledType ==
    ASSUME Typed, Sound, NEW i \in Instruments
    PROVE  Handled(i) \in Nat /\ Handled(i) <= app[i].sent /\ app[i].sent \in Nat
<1>1. SessionSound(i)
  BY DEF Sound, InstrumentSound
<1>2. app[i].sent \in Nat /\ (Asking(i) => app[i].sent > 0)
  BY <1>1, SessionTypes, AskingPends
<1> QED
  BY <1>2 DEF Handled

LEMMA AppSendSound ==
    ASSUME Typed, Sound, NEW i \in Instruments, AppSend(i)
    PROVE  Sound'
<1> DEFINE a == app[i]
           n == a.sent + 1
           c == [instr |-> i, id |-> n, cmd |-> a.script[n]]
<1>1. /\ ~a.pending /\ a.sent < Len(a.script)
      /\ app' = [app EXCEPT ![i].sent = n, ![i].pending = TRUE]
      /\ UNCHANGED <<msgs, line, hears, control, paho, actor, rx, cache, publisher, filler>>
  BY DEF AppSend, Direct!Send, server
<1>2. app \in [Instruments -> Session] /\ a \in Session /\ cmds \in Seq(Command)
  BY DEF Typed, OutsideTyped
<1>3. /\ app'[i].script = a.script /\ app'[i].sent = n /\ app'[i].pending /\ app'[i].got = a.got
      /\ \A j \in Instruments : j # i => app'[j] = app[j]
  BY <1>1, <1>2 DEF Session
<1>4. cmds' = Append(cmds, c)
  BY <1>3 DEF AppSend
<1>5. /\ Len(cmds') = Len(cmds) + 1 /\ Len(cmds) \in Nat
      /\ \A k \in 1 .. Len(cmds) : cmds'[k] = cmds[k]
      /\ cmds'[Len(cmds) + 1] = c
      /\ \A k \in 1 .. Len(cmds') : k \in 1 .. Len(cmds) \/ k = Len(cmds) + 1
  BY <1>2, <1>4
<1>6. ~Asking(i)
  BY <1>1, AskingPends
<1>7. Asking(i)' /\ \A j \in Instruments : j # i => (Asking(j)' <=> Asking(j))
  <2>1. Asking(i)'
    BY <1>5 DEF Asking
  <2>2. ASSUME NEW j \in Instruments, j # i PROVE Asking(j)' <=> Asking(j)
    BY <1>5, <2>2 DEF Asking
  <2> QED
    BY <2>1, <2>2
<1>8. ASSUME NEW j \in Instruments PROVE Handled(j)' = Handled(j)
  <2>1. CASE j = i
    <3>1. a.sent \in Nat
      BY <1>2 DEF Session
    <3>2. Handled(i) = a.sent /\ Handled(i)' = app'[i].sent - 1
      BY <1>6, <1>7 DEF Handled
    <3> QED
      BY <1>3, <2>1, <3>1, <3>2
  <2>2. CASE j # i
    BY <1>3, <1>7, <2>2 DEF Handled
  <2> QED
    BY <2>1, <2>2
<1>9. CommandsSound'
  <2>1. ASSUME NEW k \in 1 .. Len(cmds)
        PROVE  /\ cmds'[k] = cmds[k] /\ cmds[k].instr \in Instruments /\ cmds[k].instr # i
               /\ app[cmds[k].instr].pending
               /\ cmds[k].id = app[cmds[k].instr].sent
               /\ cmds[k].cmd = app[cmds[k].instr].script[cmds[k].id]
    <3>1. cmds[k] \in Command
      BY <1>2
    <3> QED
      BY <1>5, <1>6, <3>1 DEF Command, Asking, Sound, CommandsSound
  <2>2. ASSUME NEW k \in 1 .. Len(cmds')
        PROVE  LET x == cmds'[k] IN
               /\ app'[x.instr].pending
               /\ x.id = app'[x.instr].sent
               /\ x.cmd = app'[x.instr].script[x.id]
    <3>1. CASE k \in 1 .. Len(cmds)
      BY <1>3, <2>1, <3>1
    <3>2. CASE k = Len(cmds) + 1
      BY <1>3, <1>5, <3>2
    <3> QED
      BY <1>5, <3>1, <3>2
  <2>3. ASSUME NEW k \in 1 .. Len(cmds'), NEW l \in 1 .. Len(cmds'),
               cmds'[k].instr = cmds'[l].instr
        PROVE  k = l
    <3>1. CASE k \in 1 .. Len(cmds) /\ l \in 1 .. Len(cmds)
      BY <2>1, <2>3, <3>1 DEF Sound, CommandsSound
    <3>2. CASE k = Len(cmds) + 1 /\ l \in 1 .. Len(cmds)
      BY <1>5, <2>1, <2>3, <3>2
    <3>3. CASE l = Len(cmds) + 1 /\ k \in 1 .. Len(cmds)
      BY <1>5, <2>1, <2>3, <3>3
    <3> QED
      BY <1>5, <3>1, <3>2, <3>3
  <2> HIDE DEF c
  <2> QED
    BY <2>2, <2>3 DEF CommandsSound
<1>10. ServerSound'
  BY <1>1 DEF Sound, ServerSound
<1>11. ASSUME NEW j \in Instruments PROVE Alike(j)
  BY <1>1, <1>3, <1>8, SameReplies, SamePaho, SameActor DEF Alike, Woken
<1>12. ASSUME NEW j \in Instruments PROVE InstrumentSound(j)'
  <2>1. InstrumentSound(j) /\ Alike(j)
    BY <1>11 DEF Sound
  <2>2. SessionSound(j)'
    <3>1. CASE j = i
      <4>1. SessionSound(i)
        BY <2>1, <3>1 DEF InstrumentSound
      <4>2. n \in 0 .. Len(a.script) /\ Len(a.got) = n - 1
        BY <1>1, <1>2, <4>1, SessionTypes DEF SessionSound
      <4> QED
        BY <1>3, <3>1, <4>1, <4>2 DEF SessionSound
    <3>2. CASE j # i
      BY <1>3, <2>1, <3>2 DEF InstrumentSound, SessionSound
    <3> QED
      BY <3>1, <3>2
  <2>3. app'[j].got = app[j].got /\ msgs'[j] = msgs[j] /\ (Comes(j)' => Comes(j))
    BY <1>1, <1>3, SameReplies
  <2>4. Len(app'[j].got) = Handled(j) => Answerable(j)
    BY <2>1, <2>3 DEF InstrumentSound
  <2> QED
    BY <2>1, <2>2, <2>3, <2>4, AppStepSound
<1> QED
  BY <1>9, <1>10, <1>12 DEF Sound

\* The answer that the application takes.
Answers(i, answer) ==
    /\ Answered(i, answer)
    /\ app[i].pending /\ Handled(i) = app[i].sent
    /\ answer = Direct!Reply(app[i].script, app[i].sent)
    /\ answer \in Data \cup Statuses
    /\ Answerable(i)

LEMMA AnswersSession ==
    ASSUME Typed, NEW i \in Instruments, SessionSound(i), NEW answer, Answers(i, answer)
    PROVE  /\ SessionSound(i)' /\ Len(app'[i].got) = app[i].sent
           /\ app'[i].script = app[i].script /\ app'[i].sent = app[i].sent
           /\ \A j \in Instruments : j # i => app'[j] = app[j]
<1> DEFINE a == app[i]
           g == Append(a.got, answer)
<1>1. app \in [Instruments -> Session] /\ a \in Session
  BY DEF Typed, OutsideTyped
<1>2. app' = [app EXCEPT ![i].pending = FALSE, ![i].got = g]
  BY DEF Answers, Answered
<1>3. /\ app'[i].script = a.script /\ app'[i].sent = a.sent /\ app'[i].pending = FALSE
      /\ app'[i].got = g
      /\ \A j \in Instruments : j # i => app'[j] = app[j]
  BY <1>1, <1>2 DEF Session
<1>4. /\ a.got \in Seq(Data \cup Statuses) /\ Len(a.got) = a.sent - 1 /\ a.sent \in Nat
      /\ Len(a.got) \in Nat
  BY SessionTypes DEF SessionSound, Answers
<1>5. /\ Len(g) = a.sent /\ g[a.sent] = answer
      /\ \A j \in 1 .. Len(a.got) : g[j] = a.got[j]
  BY <1>4 DEF Answers
<1> HIDE DEF g
<1>6. \A j \in 1 .. Len(g) : g[j] = Direct!Reply(a.script, j)
  <2> TAKE j \in 1 .. Len(g)
  <2>1. CASE j = a.sent
    BY <1>5, <2>1 DEF Answers
  <2>2. CASE j # a.sent
    <3>1. j \in 1 .. Len(a.got)
      BY <1>4, <1>5, <2>2
    <3> QED
      BY <1>5, <3>1 DEF SessionSound
  <2> QED
    BY <2>1, <2>2
<1> QED
  BY <1>3, <1>4, <1>5, <1>6 DEF SessionSound

LEMMA ReceiveSound ==
    ASSUME Typed, Sound, NEW i \in Instruments, NEW topic, Receives(i, topic),
           app' = app \/ \E answer : Answers(i, answer)
    PROVE  Sound'
<1>1. /\ UNCHANGED <<cmds, line, control, paho, actor, rx, cache, publisher, filler>>
      /\ msgs[i] # <<>> /\ msgs' = [msgs EXCEPT ![i] = Tail(@)]
  BY DEF Receives
<1>2. /\ msgs'[i] = Tail(msgs[i])
      /\ \A j \in Instruments : j # i => msgs'[j] = msgs[j]
  BY <1>1 DEF Typed, OutsideTyped
<1>3. SessionSound(i)
  BY DEF Sound, InstrumentSound
<1>4. ASSUME NEW j \in Instruments
      PROVE  /\ app'[j].script = app[j].script /\ app'[j].sent = app[j].sent
             /\ SessionSound(j)'
             /\ Len(app'[j].got) = Handled(j) => Answerable(j)
  <2>1. CASE app' = app
    BY <2>1 DEF Sound, InstrumentSound, SessionSound
  <2>2. CASE \E answer : Answers(i, answer)
    <3>1. PICK answer : Answers(i, answer)
      BY <2>2
    <3>2. CASE j = i
      BY <1>3, <3>1, <3>2, AnswersSession DEF Answers
    <3>3. CASE j # i
      <4>1. app'[j] = app[j]
        BY <1>3, <3>1, <3>3, AnswersSession
      <4> QED
        BY <4>1 DEF Sound, InstrumentSound, SessionSound
    <3> QED
      BY <3>2, <3>3
  <2> QED
    BY <2>1, <2>2
<1>5. ASSUME NEW j \in Instruments PROVE Handled(j)' = Handled(j)
  BY <1>1, <1>4 DEF Handled, Asking
<1>6. ASSUME NEW j \in Instruments PROVE InstrumentSound(j)'
  <2>1. Alike(j)
    BY <1>1, <1>4, <1>5, SameReplies, SamePaho, SameActor DEF Alike, Woken
  <2>2. Comes(j)' => Comes(j)
    BY <1>1, SameReplies
  <2>3. msgs'[j] = msgs[j] \/ (msgs[j] # <<>> /\ msgs'[j] = Tail(msgs[j]))
    BY <1>1, <1>2
  <2> QED
    BY <1>4, <2>1, <2>2, <2>3, AppStepSound DEF Sound
<1>7. CommandsSound'
  <2>1. CASE app' = app
    BY <1>1, <2>1, SameCommands DEF Sound
  <2>2. CASE \E answer : Answers(i, answer)
    <3>1. ~Asking(i)
      <4>1. Handled(i) = app[i].sent /\ app[i].sent \in Nat
        BY <2>2, HandledType DEF Answers
      <4> QED
        BY <4>1 DEF Handled
    <3>2. ASSUME NEW k \in 1 .. Len(cmds)
          PROVE  cmds[k].instr \in Instruments /\ app'[cmds[k].instr] = app[cmds[k].instr]
      <4>1. cmds[k].instr \in Instruments /\ cmds[k].instr # i
        <5>1. cmds[k] \in Command
          BY DEF Typed, OutsideTyped
        <5> QED
          BY <3>1, <5>1 DEF Asking, Command
      <4> QED
        BY <1>3, <2>2, <4>1, AnswersSession
    <3> QED
      BY <1>1, <3>2 DEF Sound, CommandsSound
  <2> QED
    BY <2>1, <2>2
<1>8. ServerSound'
  BY <1>1 DEF Sound, ServerSound
<1> QED
  BY <1>6, <1>7, <1>8 DEF Sound

\* Sessions of one download: what the kind of a command says of its place.
LEMMA ScriptShape ==
    ASSUME OneDownload, NEW s \in Scripts, NEW k \in 1 .. Len(s)
    PROVE  /\ s[k] \in Control <=> k = 1
           /\ k = 1 => s[k] = "reserve"
           /\ s[k] \in {"reserve", "next", "other"}
           /\ k > 1 /\ s[k - 1] = "next" => s[k] = "next"
<1>1. s \in Seq(Commands) /\ s # <<>>
  BY SessionAssumption
<1>2. s[1] = "reserve" /\ s[k] \in Commands
  BY <1>1, SessionAssumption
<1> QED
  BY <1>2 DEF OneDownload, Control, Commands

LEMMA AppReceiveReservationSound ==
    ASSUME OneDownload, Typed, Sound, NEW i \in Instruments, AppReceiveReservation(i)
    PROVE  Sound' /\ (UNCHANGED app \/ \E answer : Answers(i, answer))
<1> DEFINE s == app[i].script
           n == app[i].sent
           status == Head(msgs[i]).status
<1>1. Receives(i, "reservation") /\ msgs[i] # <<>> /\ Head(msgs[i]).topic = "reservation"
  BY DEF AppReceiveReservation, Receives
<1>2. SessionSound(i) /\ MessagesSound(i) /\ Announced(i) /\ InstrumentSound(i)
  BY DEF Sound, InstrumentSound
<1>3. CASE Pends(i, Control)
  <2>1. app[i].pending /\ s[n] \in Control
    BY <1>3 DEF Pends
  <2>2. s \in Scripts /\ n \in 1 .. Len(s) /\ n \in Nat
    <3>1. /\ n \in 0 .. Len(s) /\ Len(app[i].got) = n - 1 /\ Len(app[i].got) \in Nat
          /\ s \in Scripts /\ Len(s) \in Nat
      BY <1>2, <2>1, SessionTypes DEF SessionSound
    <3> QED
      BY <3>1
  <2>3. n = 1 /\ s[n] = "reserve"
    BY <2>1, <2>2, ScriptShape
  <2>4. Handled(i) = 1 /\ Answerable(i)
    <3>1. line[i].reserved
      BY <1>1, <1>2 DEF Announced
    <3>2. Handled(i) \in Nat /\ Handled(i) <= n
      BY HandledType
    <3>3. Handled(i) > 0 /\ (Handled(i) = 1 => Answerable(i))
      BY <1>2, <3>1, <3>2, ReservedStarted
    <3> QED
      BY <2>3, <3>2, <3>3
  <2>5. status = "reserve"
    <3>1. msgs[i] \in Seq(Message) /\ Len(msgs[i]) >= 1 /\ Head(msgs[i]) = msgs[i][1]
      BY <1>1 DEF Typed, OutsideTyped
    <3> QED
      BY <1>1, <1>2, <3>1 DEF MessagesSound
  <2>6. <<"status", status>> = Direct!Reply(s, n)
    BY <2>3, <2>5 DEF Direct!Reply
  <2>7. <<"status", status>> \in Data \cup Statuses
    BY <2>5 DEF Statuses, Control
  <2>8. Answered(i, <<"status", status>>)
    BY <1>3 DEF AppReceiveReservation
  <2>9. Answers(i, <<"status", status>>)
    BY <2>1, <2>3, <2>4, <2>6, <2>7, <2>8 DEF Answers
  <2> QED
    BY <1>1, <2>9, ReceiveSound
<1>4. CASE ~Pends(i, Control)
  BY <1>1, <1>4, ReceiveSound DEF AppReceiveReservation
<1> QED
  BY <1>3, <1>4

LEMMA AppReceiveMsgSound ==
    ASSUME Typed, Sound, NEW i \in Instruments, AppReceiveMsg(i)
    PROVE  Sound' /\ (UNCHANGED app \/ \E answer : Answers(i, answer))
<1> DEFINE m == Head(msgs[i])
<1>1. Receives(i, "msg") /\ msgs[i] # <<>> /\ m.topic = "msg"
  BY DEF AppReceiveMsg, Receives
<1>2. SessionSound(i) /\ MessagesSound(i)
  BY DEF Sound, InstrumentSound
<1>3. CASE Pends(i, Commands \ Control) /\ m.id = app[i].sent /\ Answered(i, m.data)
  <2>1. m \in Message /\ m = msgs[i][1] /\ 1 \in 1 .. Len(msgs[i])
    BY <1>1 DEF Typed, OutsideTyped
  <2>2. /\ m.id \in 1 .. Handled(i) /\ m.data = Direct!Reply(app[i].script, m.id)
        /\ m.id = Handled(i) => Answerable(i)
    BY <1>1, <1>2, <2>1 DEF MessagesSound
  <2>3. Handled(i) = app[i].sent
    BY <1>3, <2>2, HandledType
  <2>4. m.data \in Data \cup Statuses
    BY <1>1, <2>1 DEF Message
  <2>5. Answers(i, m.data)
    BY <1>3, <2>2, <2>3, <2>4 DEF Answers, Pends
  <2> QED
    BY <1>1, <2>5, ReceiveSound
<1>4. CASE app' = app
  BY <1>1, <1>4, ReceiveSound
<1> QED
  BY <1>3, <1>4 DEF AppReceiveMsg

-----------------------------------------------------------------------------
(* The steps of the paho thread. *)

LEMMA SoundStep ==
    ASSUME Typed, Sound, NEW i \in Instruments, CommandsSound', ServerSound', InstrumentSound(i)',
           \A j \in Instruments : j # i => Silent(j) /\ Alike(j)
    PROVE  Sound'
BY AlikeSound DEF Sound

LEMMA SameScript ==
    ASSUME NEW i \in Instruments, app'[i].script = app[i].script, Handled(i)' = Handled(i)
    PROVE  (Fetching(i)' <=> Fetching(i)) /\ Block(i)' = Block(i) /\ Position(i)' = Position(i)
BY DEF Fetching, Block, Position

LEMMA PahoAt ==
    ASSUME NEW i \in Instruments, NEW pc \in {"replace", "ahead", "first", "forget", "clear"}
    PROVE  /\ paho = At(pc, i) => /\ PahoFor(i) = pc
                                  /\ \A j \in Instruments : j # i => PahoFor(j) = "idle"
           /\ paho' = At(pc, i) => /\ PahoFor(i)' = pc
                                   /\ \A j \in Instruments : j # i => PahoFor(j)' = "idle"
           /\ paho = Idle => \A j \in Instruments : PahoFor(j) = "idle"
           /\ paho' = Idle => \A j \in Instruments : PahoFor(j)' = "idle"
<1>1. At(pc, i) # Idle /\ At(pc, i).pc = pc /\ At(pc, i).instr = i
  BY DEF At, Idle
<1> QED
  BY <1>1 DEF PahoFor

LEMMA PahoWorks ==
    ASSUME Typed, NEW pc \in {"replace", "ahead", "first", "forget", "clear"}, paho.pc = pc
    PROVE  /\ paho.instr \in Instruments /\ PahoFor(paho.instr) = pc
           /\ \A j \in Instruments : j # paho.instr => PahoFor(j) = "idle"
<1>1. paho # Idle
  BY DEF Idle
<1> QED
  BY <1>1, PahoTypes DEF PahoFor

LEMMA Delivered ==
    ASSUME Typed, NEW i \in Instruments, NEW x, ToDevice(i, x)
    PROVE  /\ line'[i].reserved = line[i].reserved
           /\ line'[i].block = line[i].block /\ line'[i].pos = line[i].pos
           /\ line[i].inbox = <<>> => line'[i].inbox = <<x>>
           /\ \A j \in Instruments : j # i => line'[j] = line[j]
<1>1. line \in [Instruments -> Line] /\ line[i] \in Line
  BY DEF Typed, OutsideTyped
<1> DEFINE L == [line[i] EXCEPT !.inbox = Append(@, x)]
<1>2. /\ L.reserved = line[i].reserved /\ L.block = line[i].block /\ L.pos = line[i].pos
      /\ L.inbox = Append(line[i].inbox, x)
  BY <1>1 DEF Line
<1>3. line' = [line EXCEPT ![i] = L]
  BY DEF ToDevice
<1> HIDE DEF L
<1>4. line'[i] = L /\ \A j \in Instruments : j # i => line'[j] = line[j]
  BY <1>1, <1>3
<1> QED
  BY <1>2, <1>4

LEMMA TakesSound ==
    ASSUME Typed, Sound, NEW K, Takes(K), UNCHANGED app, NEW i, i = Head(cmds).instr
    PROVE  /\ i \in Instruments
           /\ Head(cmds).id = app[i].sent
           /\ Head(cmds).cmd \in K /\ Head(cmds).cmd = app[i].script[app[i].sent]
           /\ app[i].script \in Scripts /\ app[i].sent \in 1 .. Len(app[i].script)
           /\ Handled(i) = app[i].sent - 1 /\ Handled(i) \in Nat /\ Handled(i)' = app[i].sent
           /\ \A j \in Instruments : j # i => Handled(j)' = Handled(j)
           /\ CommandsSound'
           /\ Len(app[i].got) = Handled(i) /\ Answerable(i)
           /\ \A j \in Instruments : PahoFor(j) = "idle"
<1> DEFINE c == Head(cmds)
<1>1. /\ cmds \in Seq(Command) /\ cmds # <<>> /\ cmds' = Tail(cmds) /\ paho = Idle
      /\ c \in Command /\ c.cmd \in K
  BY TakesTyped DEF Typed, OutsideTyped
<1>2. /\ c = cmds[1] /\ 1 \in 1 .. Len(cmds) /\ Len(cmds') = Len(cmds) - 1 /\ Len(cmds) \in Nat
      /\ \A k \in 1 .. Len(cmds') : k + 1 \in 1 .. Len(cmds) /\ cmds'[k] = cmds[k + 1]
  BY <1>1
<1>3. i \in Instruments
  BY <1>1 DEF Command
<1>4. Asking(i) /\ app[i].pending /\ c.id = app[i].sent /\ c.cmd = app[i].script[app[i].sent]
  BY <1>2 DEF Asking, Sound, CommandsSound
<1>5. /\ Len(app[i].got) = Handled(i) /\ Handled(i) = app[i].sent - 1 /\ Handled(i) \in Nat
      /\ Answerable(i)
  BY <1>3, <1>4, AskingPends, HandledType DEF Handled, Sound, InstrumentSound
<1>6. app[i].script \in Scripts /\ app[i].sent \in 1 .. Len(app[i].script)
  <2>1. SessionSound(i)
    BY <1>3 DEF Sound, InstrumentSound
  <2> QED
    BY <1>3, <1>5, <2>1, SessionTypes DEF SessionSound
<1>7. ~Asking(i)' /\ \A j \in Instruments : j # i => (Asking(j)' <=> Asking(j))
  <2>1. ASSUME NEW k \in 1 .. Len(cmds') PROVE cmds'[k].instr # i
    <3>1. k + 1 # 1 /\ k + 1 \in 1 .. Len(cmds) /\ cmds'[k] = cmds[k + 1]
      BY <1>2
    <3> QED
      BY <1>2, <3>1 DEF Sound, CommandsSound
  <2>2. ASSUME NEW j \in Instruments, j # i, Asking(j) PROVE Asking(j)'
    <3>1. PICK k \in 1 .. Len(cmds) : cmds[k].instr = j
      BY <2>2 DEF Asking
    <3>2. k # 1
      BY <1>2, <2>2, <3>1
    <3>3. k - 1 \in 1 .. Len(cmds') /\ (k - 1) + 1 = k
      BY <1>2, <3>2
    <3> QED
      BY <1>2, <3>1, <3>3 DEF Asking
  <2> QED
    BY <1>2, <2>1, <2>2 DEF Asking
<1>8. Handled(i)' = app[i].sent /\ \A j \in Instruments : j # i => Handled(j)' = Handled(j)
  BY <1>7 DEF Handled
<1>9. CommandsSound'
  <2>1. ASSUME NEW k \in 1 .. Len(cmds'), NEW l \in 1 .. Len(cmds'),
               cmds'[k].instr = cmds'[l].instr
        PROVE  k = l
    <3>1. k + 1 = l + 1
      BY <1>2, <2>1 DEF Sound, CommandsSound
    <3> QED
      BY <3>1
  <2>2. ASSUME NEW k \in 1 .. Len(cmds')
        PROVE  LET x == cmds'[k] IN
               app'[x.instr].pending /\ x.id = app'[x.instr].sent
                 /\ x.cmd = app'[x.instr].script[x.id]
    BY <1>2 DEF Sound, CommandsSound
  <2> QED
    BY <2>1, <2>2 DEF CommandsSound
<1>10. \A j \in Instruments : PahoFor(j) = "idle"
  BY <1>1 DEF PahoFor
<1> QED
  BY <1>1, <1>3, <1>4, <1>5, <1>6, <1>8, <1>9, <1>10

\* An instrument whose next command has been taken.
LEMMA TakenSound ==
    ASSUME NEW i \in Instruments, InstrumentSound(i),
           app'[i] = app[i], msgs'[i] = msgs[i], Handled(i) \in Nat,
           Handled(i)' = Handled(i) + 1, Len(app[i].got) = Handled(i),
           line'[i].reserved = line[i].reserved, Comes(i)' => Comes(i),
           cache'[i].id = IF Handled(i) > 0 THEN Handled(i) + 1 ELSE 0,
           Stage(i)'
    PROVE  InstrumentSound(i)'
<1>1. SessionSound(i)' /\ Announced(i)'
  BY DEF InstrumentSound, SessionSound, Announced
<1>2. MessagesSound(i)'
  <2>1. MessagesSound(i)
    BY DEF InstrumentSound
  <2>2. ASSUME NEW k \in 1 .. Len(msgs[i]), msgs[i][k].topic = "msg"
        PROVE  /\ msgs[i][k].id \in 1 .. Handled(i)'
               /\ msgs[i][k].data = Direct!Reply(app[i].script, msgs[i][k].id)
               /\ msgs[i][k].id # Handled(i)'
    BY <2>1, <2>2 DEF MessagesSound
  <2> QED
    BY <2>1, <2>2 DEF MessagesSound
<1>3. cache'[i].id = IF Handled(i)' > 1 THEN Handled(i)' ELSE 0
  OBVIOUS
<1>4. Len(app'[i].got) # Handled(i)'
  OBVIOUS
<1> QED
  BY <1>1, <1>2, <1>3, <1>4 DEF InstrumentSound

LEMMA OnControlSound ==
    ASSUME OneDownload, Typed, Sound, OnControl
    PROVE  Sound'
<1>1. Takes(Control) /\ UNCHANGED <<app, msgs, actor, rx, cache, publisher, filler>>
  BY DEF OnControl
<1>2. PICK i \in Instruments : i = Head(cmds).instr
  BY <1>1, TakesTyped
<1> DEFINE s == app[i].script
<1>3. /\ Head(cmds).cmd \in Control /\ Head(cmds).cmd = s[app[i].sent]
      /\ s \in Scripts /\ app[i].sent \in 1 .. Len(s)
      /\ Handled(i) = app[i].sent - 1 /\ Handled(i) \in Nat /\ Handled(i)' = app[i].sent
      /\ \A j \in Instruments : j # i => Handled(j)' = Handled(j)
      /\ CommandsSound' /\ Len(app[i].got) = Handled(i) /\ Answerable(i)
      /\ \A j \in Instruments : PahoFor(j) = "idle"
  BY <1>1, <1>2, TakesSound
<1>4. app[i].sent = 1 /\ Head(cmds).cmd = "reserve" /\ Handled(i) = 0 /\ Handled(i)' = 1
  BY <1>3, ScriptShape
<1>5. control' = "reserve" /\ ToDevice(i, "reserve") /\ paho' = At("replace", i)
  BY <1>2, <1>4 DEF OnControl
<1>6. /\ PahoFor(i)' = "replace"
      /\ \A j \in Instruments : j # i => PahoFor(j)' = PahoFor(j)
  BY <1>3, <1>5, PahoAt
<1>7. ~Fetching(i) /\ ~Fetching(i)'
  BY <1>4 DEF Fetching
<1>8. Quiet(i) /\ Done(i) /\ InstrumentSound(i)
  BY <1>3, <1>7 DEF Sound, InstrumentSound, Stage, Answerable
<1>9. Coming(i)' = Coming(i) /\ (Comes(i)' <=> Comes(i)) /\ (Buys(i)' <=> Buys(i))
  BY <1>1, SameReplies, SameActor
<1>10. /\ line'[i].inbox = <<"reserve">> /\ line'[i].reserved = line[i].reserved
       /\ line'[i].block = line[i].block /\ line'[i].pos = line[i].pos
       /\ \A j \in Instruments : j # i => line'[j] = line[j]
  BY <1>5, <1>8, Delivered DEF Done
<1>11. Reserving(i)'
  <2>1. Block(i) = 0
    BY <1>4, BlockStart DEF Block
  <2>2. ~line[i].reserved /\ line[i].block = 0 /\ Coming(i) = {}
    BY <1>4, <1>8, <2>1 DEF Done
  <2> QED
    BY <1>4, <1>6, <1>9, <1>10, <2>2 DEF Reserving
<1>12. Stage(i)'
  BY <1>1, <1>4, <1>6, <1>7, <1>8, <1>9, <1>10, <1>11 DEF Stage, Quiet
<1>13. InstrumentSound(i)'
  <2>1. cache'[i].id = 0
    BY <1>1, <1>4, <1>8 DEF InstrumentSound
  <2> QED
    BY <1>1, <1>3, <1>4, <1>8, <1>9, <1>10, <1>12, <2>1, TakenSound
<1>14. ServerSound'
  BY <1>1, <1>5 DEF Sound, ServerSound
<1>15. ASSUME NEW j \in Instruments, j # i PROVE Silent(j) /\ Alike(j)
  BY <1>1, <1>3, <1>6, <1>10, <1>15, SameReplies, SameActor, NobodyWoken DEF Silent, Alike
<1> QED
  BY <1>3, <1>13, <1>14, <1>15, SoundStep

\* A step between the messages, for the sake of one instrument.
Elsewhere(j) ==
    /\ cache'[j] = cache[j] /\ line'[j] = line[j]
    /\ PahoFor(j)' = PahoFor(j) /\ (Buys(j)' <=> Buys(j))
    /\ Coming(j)' = Coming(j) /\ (Comes(j)' => Comes(j))
    /\ Woken(j)

LEMMA InternalStep ==
    ASSUME Typed, Sound, NEW i \in Instruments, UNCHANGED <<app, cmds, msgs>>, ServerSound',
           Stage(i)', Answerable(i) => Answerable(i)',
           cache'[i].id = cache[i].id, line[i].reserved => line'[i].reserved,
           Comes(i)' => Comes(i),
           \A j \in Instruments : j # i => Elsewhere(j)
    PROVE  Sound'
<1>1. CommandsSound' /\ \A j \in Instruments : Handled(j)' = Handled(j)
  BY SameCommands DEF Sound
<1>2. InstrumentSound(i)'
  <2>1. Silent(i)
    BY <1>1 DEF Silent
  <2> QED
    BY <2>1, SilentSound DEF Sound
<1>3. ASSUME NEW j \in Instruments, j # i PROVE Silent(j) /\ Alike(j)
  BY <1>1, <1>3 DEF Silent, Alike, Elsewhere
<1> QED
  BY <1>1, <1>2, <1>3, SoundStep

LEMMA StageFacts ==
    ASSUME NEW i \in Instruments, Sound
    PROVE  /\ Fetching(i) => Downloading(i)
           /\ ~Fetching(i) => Quiet(i)
BY DEF Sound, InstrumentSound, Stage

LEMMA ReplaceCacheSound ==
    ASSUME Typed, Sound, ReplaceCache
    PROVE  Sound'
<1>1. /\ UNCHANGED <<app, msgs, actor, rx, line, publisher, filler, control, cmds>>
      /\ paho.pc = "replace" /\ paho' = Idle
  BY DEF ReplaceCache
<1>2. PICK i \in Instruments : i = paho.instr
  BY <1>1, PahoWorks
<1>3. /\ PahoFor(i) = "replace" /\ PahoFor(i)' = "idle"
      /\ \A j \in Instruments : j # i => PahoFor(j)' = PahoFor(j)
  BY <1>1, <1>2, PahoWorks, PahoAt
<1>4. ~Fetching(i) /\ Quiet(i) /\ Reserving(i) /\ ~Done(i)
  <2>1. ~Fetching(i)
    BY <1>3, StageFacts DEF Downloading
  <2> QED
    BY <1>3, <2>1, StageFacts DEF Quiet, Done, Selecting
<1>5. /\ cache'[i] = [Fresh(cache[i].lease + 1) EXCEPT !.id = cache[i].id]
      /\ \A j \in Instruments : j # i => cache'[j] = cache[j]
  BY <1>2 DEF ReplaceCache, Typed, MainTyped
<1>6. /\ cache'[i].lease = 1 /\ ~cache'[i].ahead /\ ~cache'[i].first
      /\ cache'[i].reply = NoData /\ cache'[i].id = cache[i].id
  BY <1>3, <1>4, <1>5 DEF Fresh, Quiet
<1>7. /\ Handled(i)' = Handled(i) /\ (Fetching(i)' <=> Fetching(i))
      /\ Coming(i)' = Coming(i) /\ (Comes(i)' <=> Comes(i)) /\ (Buys(i)' <=> Buys(i))
  BY <1>1, SameCommands, SameScript, SameReplies, SameActor
<1>8. Reserving(i)'
  BY <1>1, <1>3, <1>4, <1>7 DEF Reserving
<1>9. Stage(i)'
  BY <1>1, <1>3, <1>4, <1>6, <1>7, <1>8 DEF Stage, Quiet, Reserving
<1>10. ~Answerable(i)
  BY <1>4 DEF Answerable
<1>11. ServerSound'
  BY <1>1 DEF Sound, ServerSound
<1>12. ASSUME NEW j \in Instruments, j # i PROVE Elsewhere(j)
  BY <1>1, <1>3, <1>5, <1>12, SameReplies, SameActor, NobodyWoken DEF Elsewhere
<1> QED
  BY <1>1, <1>6, <1>7, <1>9, <1>10, <1>11, <1>12, InternalStep

LEMMA OnFirstGetNextSound ==
    ASSUME OneDownload, Typed, Sound, OnFirstGetNext
    PROVE  Sound'
<1>1. /\ Takes({"next"}) /\ UNCHANGED <<app, msgs, actor, rx, control, publisher, filler>>
  BY DEF OnFirstGetNext
<1>2. PICK i \in Instruments : i = Head(cmds).instr
  BY <1>1, TakesTyped
<1> DEFINE s == app[i].script
           h == Handled(i)
<1>3. /\ s[app[i].sent] = "next" /\ Head(cmds).id = app[i].sent
      /\ s \in Scripts /\ app[i].sent \in 1 .. Len(s)
      /\ h = app[i].sent - 1 /\ h \in Nat /\ Handled(i)' = app[i].sent
      /\ \A j \in Instruments : j # i => Handled(j)' = Handled(j)
      /\ CommandsSound' /\ Len(app[i].got) = h /\ Answerable(i)
      /\ \A j \in Instruments : PahoFor(j) = "idle"
  BY <1>1, <1>2, TakesSound
<1>4. Handled(i)' = h + 1 /\ s[h + 1] = "next" /\ h > 0 /\ Fetching(i)'
  <2>1. Handled(i)' = h + 1 /\ s[h + 1] = "next"
    BY <1>3
  <2>2. h > 0
    BY <1>3, ScriptShape
  <2>3. app'[i].script[Handled(i)'] = "next" /\ Handled(i)' > 1
    <3>1. app'[i].script = s
      BY <1>1
    <3> QED
      BY <1>3, <2>1, <2>2, <3>1
  <2>4. Fetching(i)'
    BY <2>3 DEF Fetching
  <2> QED
    BY <2>1, <2>2, <2>4
<1>5. ToDevice(i, "next") /\ paho' = At("ahead", i) /\ ~cache[i].ahead
  BY <1>2, <1>3, TakesSound DEF OnFirstGetNext, Takes
<1>6. /\ cache'[i] = [cache[i] EXCEPT !.id = h + 1]
      /\ \A j \in Instruments : j # i => cache'[j] = cache[j]
  BY <1>2, <1>3 DEF OnFirstGetNext, Typed, MainTyped
<1>7. /\ cache'[i].lease = cache[i].lease /\ cache'[i].ahead = cache[i].ahead
      /\ cache'[i].first = cache[i].first /\ cache'[i].reply = cache[i].reply
      /\ cache'[i].id = h + 1
  BY <1>6 DEF Typed, MainTyped, Cache
<1>8. /\ PahoFor(i)' = "ahead"
      /\ \A j \in Instruments : j # i => PahoFor(j)' = PahoFor(j)
  BY <1>3, <1>5, PahoAt
<1>9. ~Fetching(i) /\ Quiet(i) /\ Done(i) /\ InstrumentSound(i)
  <2>1. ~Fetching(i)
    BY <1>3, <1>5, StageFacts DEF Downloading
  <2> QED
    BY <1>3, <2>1, StageFacts DEF Sound, Answerable
<1>10. Coming(i)' = Coming(i) /\ (Comes(i)' <=> Comes(i)) /\ (Buys(i)' <=> Buys(i))
  BY <1>1, SameReplies, SameActor
<1>11. /\ line'[i].inbox = <<"next">> /\ line'[i].reserved = line[i].reserved
       /\ line'[i].block = line[i].block /\ line'[i].pos = line[i].pos
       /\ \A j \in Instruments : j # i => line'[j] = line[j]
  BY <1>5, <1>9, Delivered DEF Done
<1>12. Block(i)' = Block(i) /\ Position(i)' = 1
  <2>1. Direct!Block(s, h + 1) = Direct!Block(s, h)
    BY <1>3, <1>4, BlockStep
  <2>2. Direct!Position(s, h) = 0
    <3>1. h \in 1 .. Len(s) /\ h \in Nat \ {0}
      BY <1>3, <1>4
    <3>2. s[h] \in {"reserve", "next", "other"} /\ (h = 1 => s[h] = "reserve")
          /\ (s[h] = "reserve" => h = 1)
      BY <1>3, <3>1, ScriptShape DEF Control
    <3>3. s[h] # "next"
      BY <1>9, <3>1, <3>2 DEF Fetching
    <3> QED
      BY <3>1, <3>2, <3>3, PositionStart
  <2>3. Direct!Position(s, h + 1) = 1
    BY <1>3, <1>4, <2>2, PositionNext
  <2> QED
    BY <1>1, <1>4, <2>1, <2>3 DEF Block, Position
<1>13. Opening(i)' /\ ~Fetched(i)'
  <2>1. /\ publisher'[T(i)] = "idle" /\ filler'[T(i)].pc = "idle" /\ cache'[i].reply = NoData
        /\ Coming(i)' = {} /\ line'[i].pos = 0
    BY <1>1, <1>7, <1>9, <1>10, <1>11 DEF Quiet, Done
  <2>2. ~Fetched(i)' /\ ~Cached(i)'
    BY <2>1 DEF Fetched, Cached
  <2>3. InHand(i)' = 0
    BY <2>2 DEF InHand
  <2> QED
    BY <1>12, <2>1, <2>2, <2>3 DEF Opening, Asked
<1>14. BuysOnce(i)'
  BY <1>1, <1>9, <1>10, <1>11, <1>13 DEF BuysOnce, Quiet, Done, Opening
<1>15. Downloading(i)'
  BY <1>3, <1>4, <1>5, <1>7, <1>8, <1>9, <1>11, <1>12, <1>13, <1>14 DEF Downloading, Quiet, Done, Opening
<1>16. InstrumentSound(i)'
  BY <1>1, <1>3, <1>4, <1>7, <1>9, <1>10, <1>11, <1>15, TakenSound DEF Stage
<1>17. ServerSound'
  BY <1>1 DEF Sound, ServerSound
<1>18. ASSUME NEW j \in Instruments, j # i PROVE Silent(j) /\ Alike(j)
  BY <1>1, <1>3, <1>6, <1>8, <1>11, <1>18, SameReplies, SameActor, NobodyWoken DEF Silent, Alike
<1> QED
  BY <1>3, <1>16, <1>17, <1>18, SoundStep

\* While the paho thread registers the first GetNext, the line has not answered.
LEMMA RegisteringSound ==
    ASSUME Typed, Sound, RememberGetNext \/ MarkFirst
    PROVE  Sound'
<1>1. UNCHANGED <<app, msgs, actor, rx, line, publisher, filler, control, cmds>>
  BY DEF RememberGetNext, MarkFirst
<1>2. PICK i \in Instruments : i = paho.instr
  BY PahoWorks DEF RememberGetNext, MarkFirst
<1>3. /\ PahoFor(i) \in {"ahead", "first"}
      /\ \A j \in Instruments : j # i => PahoFor(j)' = PahoFor(j)
  BY <1>2, PahoWorks, PahoAt DEF RememberGetNext, MarkFirst
<1>4. Fetching(i) /\ Downloading(i)
  <2>1. Fetching(i)
    BY <1>3, StageFacts DEF Quiet, Done, Reserving, Selecting
  <2> QED
    BY <2>1, StageFacts
<1>5. /\ Handled(i)' = Handled(i) /\ (Fetching(i)' <=> Fetching(i))
      /\ Block(i)' = Block(i) /\ Position(i)' = Position(i)
      /\ Coming(i)' = Coming(i) /\ (Comes(i)' <=> Comes(i)) /\ (Buys(i)' <=> Buys(i))
  BY <1>1, SameCommands, SameScript, SameReplies, SameActor
<1>6. /\ cache'[i].lease = cache[i].lease /\ cache'[i].id = cache[i].id
      /\ cache'[i].reply = cache[i].reply /\ cache'[i].ahead
      /\ cache'[i].first => PahoFor(i)' = "idle" \/ cache[i].first
      /\ PahoFor(i)' \in {"first", "idle"}
      /\ \A j \in Instruments : j # i => cache'[j] = cache[j]
  <2>1. CASE RememberGetNext
    <3>1. /\ cache'[i] = [cache[i] EXCEPT !.ahead = TRUE]
          /\ \A j \in Instruments : j # i => cache'[j] = cache[j]
      BY <1>2, <2>1 DEF RememberGetNext, Typed, MainTyped
    <3>2. PahoFor(i)' = "first"
      BY <1>2, <2>1, PahoAt DEF RememberGetNext
    <3> QED
      BY <3>1, <3>2 DEF Typed, MainTyped, Cache
  <2>2. CASE MarkFirst
    <3>1. /\ cache'[i] = [cache[i] EXCEPT !.first = TRUE]
          /\ \A j \in Instruments : j # i => cache'[j] = cache[j]
      BY <1>2, <2>2 DEF MarkFirst, Typed, MainTyped
    <3>2. PahoFor(i)' = "idle" /\ PahoFor(i) = "first"
      BY <1>2, <2>2, PahoAt, PahoWorks DEF MarkFirst
    <3>3. cache[i].ahead
      BY <1>4, <3>2 DEF Downloading
    <3> QED
      BY <3>1, <3>2, <3>3 DEF Typed, MainTyped, Cache
  <2> QED
    BY <2>1, <2>2
<1>7. (Fetched(i)' <=> Fetched(i)) /\ (Cached(i)' <=> Cached(i))
  BY <1>1, <1>5, <1>6 DEF Fetched, Cached
<1>8. InHand(i)' = InHand(i)
  BY <1>7 DEF InHand
<1>9. (Asked(i)' <=> Asked(i)) /\ (Served(i)' <=> Served(i))
  BY <1>1, <1>5, <1>8 DEF Asked, Served
<1>10. Opening(i) /\ Opening(i)' /\ line[i].inbox = <<"next">>
  BY <1>1, <1>3, <1>4, <1>6, <1>9 DEF Downloading, Opening
<1>11. BuysOnce(i)'
  <2>1. BuysOnce(i)
    BY <1>4 DEF Downloading
  <2> QED
    BY <1>1, <1>5, <1>6, <2>1 DEF BuysOnce
<1>12. Downloading(i)'
  BY <1>1, <1>4, <1>5, <1>6, <1>7, <1>9, <1>10, <1>11 DEF Downloading
<1>13. Stage(i)' /\ (Answerable(i) => Answerable(i)')
  BY <1>4, <1>5, <1>9, <1>12 DEF Stage, Answerable
<1>14. ServerSound'
  BY <1>1 DEF Sound, ServerSound
<1>15. ASSUME NEW j \in Instruments, j # i PROVE Elsewhere(j)
  BY <1>1, <1>3, <1>6, <1>15, SameReplies, SameActor, NobodyWoken DEF Elsewhere
<1> QED
  BY <1>1, <1>5, <1>6, <1>13, <1>14, <1>15, InternalStep

\* Of the threads that a step leaves to themselves some may be woken.
OthersWoken(i) ==
    \A t \in Thread \ {T(i)} :
        /\ \/ filler'[t] = filler[t]
           \/ filler[t].pc = "wait" /\ filler'[t] = [filler[t] EXCEPT !.pc = "check"]
        /\ \/ publisher'[t] = publisher[t]
           \/ publisher[t] = "wait" /\ publisher'[t] = "check"

\* Only the first reservation of an instrument has threads.
OnlyFirst == \A t \in Thread : t[2] # 1 => filler[t].pc = "idle" /\ publisher[t] = "idle"

LEMMA OthersIdle ==
    ASSUME OnlyFirst, NEW i \in Instruments, OthersWoken(i)
    PROVE  OnlyFirst' /\ \A j \in Instruments : j # i => Woken(j)
<1>1. ASSUME NEW t \in Thread, t[2] # 1
      PROVE  filler'[t].pc = "idle" /\ publisher'[t] = "idle"
  <2>1. t # T(i)
    BY <1>1 DEF T
  <2>2. filler[t].pc = "idle" /\ publisher[t] = "idle"
    BY <1>1 DEF OnlyFirst
  <2> QED
    BY <2>1, <2>2 DEF OthersWoken
<1>2. ASSUME NEW j \in Instruments, j # i PROVE Woken(j)
  <2>1. T(j) \in Thread /\ T(j) # T(i)
    BY <1>2, ThreadOfInstrument
  <2> QED
    BY <2>1 DEF OthersWoken, Woken
<1> QED
  BY <1>1, <1>2 DEF OnlyFirst

LEMMA OthersSound ==
    ASSUME ServerSound, NEW i \in Instruments, OthersWoken(i)
    PROVE  /\ \A t \in Thread : t[2] # 1 => filler'[t].pc = "idle" /\ publisher'[t] = "idle"
           /\ \A j \in Instruments : j # i => Woken(j)
BY OthersIdle DEF ServerSound, OnlyFirst

\* Numbers that a download compares.
LEMMA DownloadTypes ==
    ASSUME Typed, Sound, NEW i \in Instruments
    PROVE  /\ Block(i) \in Nat /\ Position(i) \in Nat /\ InHand(i) \in 0 .. 2
           /\ line[i].pos \in Nat /\ line[i].block \in Nat
           /\ ~(Asked(i) /\ Served(i))
<1>1. Handled(i) \in Nat
  BY HandledType
<1>2. Block(i) \in Nat /\ Position(i) \in Nat
  BY <1>1, DirectTypes DEF Block, Position
<1>3. line[i] \in Line
  BY DEF Typed, OutsideTyped
<1>4. line[i].pos \in Nat /\ line[i].block \in Nat
  BY <1>3 DEF Line
<1>5. InHand(i) \in 0 .. 2
  BY DEF InHand
<1>6. ~(Asked(i) /\ Served(i))
  <2> HIDE DEF InHand
  <2> QED
    BY <1>2, <1>4, <1>5 DEF Asked, Served
<1> QED
  BY <1>2, <1>4, <1>5, <1>6

LEMMA OnGetNextSound ==
    ASSUME Typed, Sound, OnGetNext
    PROVE  Sound'
<1>1. /\ Takes({"next"})
      /\ UNCHANGED <<app, msgs, line, paho, actor, rx, control, filler>>
  BY DEF OnGetNext
<1>2. PICK i \in Instruments : i = Head(cmds).instr
  BY <1>1, TakesTyped
<1> DEFINE s == app[i].script
           h == Handled(i)
<1>3. /\ s[app[i].sent] = "next" /\ Head(cmds).id = app[i].sent
      /\ s \in Scripts /\ app[i].sent \in 1 .. Len(s)
      /\ h = app[i].sent - 1 /\ h \in Nat /\ Handled(i)' = app[i].sent
      /\ \A j \in Instruments : j # i => Handled(j)' = Handled(j)
      /\ CommandsSound' /\ Len(app[i].got) = h /\ Answerable(i)
      /\ \A j \in Instruments : PahoFor(j) = "idle"
  BY <1>1, <1>2, TakesSound
<1>4. cache[i].ahead
  BY <1>2 DEF OnGetNext
<1>5. Fetching(i) /\ Downloading(i) /\ Served(i)
  <2>1. Fetching(i)
    BY <1>4, StageFacts DEF Quiet
  <2> QED
    BY <1>3, <2>1, StageFacts DEF Answerable
<1>6. Handled(i)' = h + 1 /\ s[h + 1] = "next" /\ h > 1
  <2>1. h > 1
    BY <1>5 DEF Fetching
  <2>2. app[i].sent = h + 1
    BY <1>3
  <2> QED
    BY <1>3, <2>1, <2>2
<1>7. Fetching(i)' /\ Block(i)' = Block(i) /\ Position(i)' = Position(i) + 1
  <2>1. /\ Direct!Block(s, h + 1) = Direct!Block(s, h)
        /\ Direct!Position(s, h + 1) = Direct!Position(s, h) + 1
    BY <1>3, <1>6, BlockStep, PositionNext
  <2>2. app'[i].script[Handled(i)'] = "next" /\ Handled(i)' > 1
    BY <1>1, <1>3, <1>6
  <2>3. Fetching(i)'
    BY <2>2 DEF Fetching
  <2>4. Block(i)' = Direct!Block(s, h + 1) /\ Position(i)' = Direct!Position(s, h + 1)
    BY <1>1, <1>6 DEF Block, Position
  <2> QED
    BY <2>1, <2>3, <2>4 DEF Block, Position
<1>8. publisher[T(i)] \in {"idle", "clear"}
  <2>1. publisher[T(i)] \in Publisher
    BY ThreadOfInstrument DEF Typed, PublishersTyped
  <2>2. ~Asked(i)
    BY <1>5, DownloadTypes
  <2> QED
    BY <1>5, <2>1, <2>2 DEF Downloading, Publisher
<1>9. /\ publisher'[T(i)] = IF publisher[T(i)] = "idle" THEN "spin" ELSE "clear"
      /\ \A t \in Thread : t # T(i) => publisher'[t] = publisher[t]
  <2>1. Current(i) = T(i)
    BY <1>5 DEF Downloading, Current, T
  <2>2. publisher' = [publisher EXCEPT ![T(i)] = IF @ = "idle" THEN "spin" ELSE @]
    BY <1>2, <2>1 DEF OnGetNext
  <2> QED
    BY <1>8, <2>2, ThreadOfInstrument DEF Typed, PublishersTyped
<1>10. /\ cache'[i] = [cache[i] EXCEPT !.id = h + 1, !.first = FALSE]
       /\ \A j \in Instruments : j # i => cache'[j] = cache[j]
  <2>1. cache' = [cache EXCEPT ![i].id = Head(cmds).id, ![i].first = FALSE]
    BY <1>2 DEF OnGetNext
  <2>2. Head(cmds).id = h + 1 /\ cache \in [Instruments -> Cache]
    BY <1>3, <1>6 DEF Typed, MainTyped
  <2> QED
    BY <2>1, <2>2
<1>11. /\ cache'[i].lease = cache[i].lease /\ cache'[i].ahead = cache[i].ahead
       /\ cache'[i].first = FALSE /\ cache'[i].reply = cache[i].reply
       /\ cache'[i].id = h + 1
  BY <1>10 DEF Typed, MainTyped, Cache
<1>12. /\ Coming(i)' = Coming(i) /\ (Comes(i)' <=> Comes(i)) /\ (Buys(i)' <=> Buys(i))
       /\ PahoFor(i)' = "idle"
  BY <1>1, <1>3, SameReplies, SameActor, SamePaho
<1>13. (Fetched(i)' <=> Fetched(i)) /\ (Cached(i)' <=> Cached(i))
  BY <1>1, <1>8, <1>9, <1>11, <1>12 DEF Fetched, Cached
<1>14. Asked(i)'
  <2>1. InHand(i)' = InHand(i)
    BY <1>13 DEF InHand
  <2>2. line[i].pos = Position(i) + InHand(i)
    BY <1>5 DEF Served
  <2>3. line[i].pos + 1 = (Position(i) + 1) + InHand(i)
    BY <2>2, DownloadTypes
  <2> QED
    BY <1>1, <1>7, <2>1, <2>3 DEF Asked
<1>15. BuysOnce(i)'
  <2>1. BuysOnce(i)
    BY <1>5 DEF Downloading
  <2> QED
    BY <1>1, <1>11, <1>12, <2>1 DEF BuysOnce
<1>16. Downloading(i)'
  BY <1>1, <1>3, <1>4, <1>5, <1>7, <1>8, <1>9, <1>11, <1>12, <1>13, <1>14, <1>15 DEF Downloading
<1>17. InstrumentSound(i)'
  <2>1. InstrumentSound(i) /\ Stage(i)'
    BY <1>7, <1>16 DEF Sound, Stage
  <2> QED
    BY <1>1, <1>3, <1>6, <1>11, <1>12, <2>1, TakenSound
<1>18. OthersWoken(i)
  BY <1>1, <1>9 DEF OthersWoken
<1>19. ServerSound'
  BY <1>1, <1>18, OthersSound DEF Sound, ServerSound
<1>20. ASSUME NEW j \in Instruments, j # i PROVE Silent(j) /\ Alike(j)
  BY <1>1, <1>3, <1>10, <1>18, <1>20, OthersSound, SameReplies, SameActor, SamePaho
     DEF Silent, Alike, Sound
<1> QED
  BY <1>3, <1>17, <1>19, <1>20, SoundStep

LEMMA OnOtherCmdSound ==
    ASSUME OneDownload, Typed, Sound, OnOtherCmd
    PROVE  Sound'
<1>1. /\ Takes({"other"}) /\ UNCHANGED <<app, msgs, actor, rx, control, publisher, filler>>
  BY DEF OnOtherCmd
<1>2. PICK i \in Instruments : i = Head(cmds).instr
  BY <1>1, TakesTyped
<1> DEFINE s == app[i].script
           h == Handled(i)
<1>3. /\ s[app[i].sent] = "other" /\ Head(cmds).id = app[i].sent /\ Head(cmds).cmd = "other"
      /\ s \in Scripts /\ app[i].sent \in 1 .. Len(s)
      /\ h = app[i].sent - 1 /\ h \in Nat /\ Handled(i)' = app[i].sent
      /\ \A j \in Instruments : j # i => Handled(j)' = Handled(j)
      /\ CommandsSound' /\ Len(app[i].got) = h /\ Answerable(i)
      /\ \A j \in Instruments : PahoFor(j) = "idle"
  BY <1>1, <1>2, TakesSound
<1>4. Handled(i)' = h + 1 /\ s[h + 1] = "other" /\ h > 0 /\ ~Fetching(i) /\ ~Fetching(i)'
  <2>1. Handled(i)' = h + 1 /\ s[h + 1] = "other" /\ h + 1 \in 1 .. Len(s)
    BY <1>3
  <2>2. h > 0
    <3>1. h # 0
      <4>1. s[1] = "reserve"
        <5>1. 1 \in 1 .. Len(s)
          BY <1>3, <2>1
        <5> QED
          BY <1>3, <5>1, ScriptShape
      <4> QED
        BY <2>1, <4>1
    <3> QED
      BY <1>3, <3>1
  <2>3. s[(h + 1) - 1] = s[h] /\ h + 1 > 1
    BY <1>3, <2>2
  <2>4. s[h] # "next"
    BY <1>3, <2>1, <2>3, ScriptShape
  <2>5. app'[i].script[Handled(i)'] = "other"
    BY <1>1, <1>3
  <2> QED
    BY <2>1, <2>2, <2>4, <2>5 DEF Fetching
<1>5. ToDevice(i, "other") /\ paho' = At("forget", i)
  BY <1>2, <1>3 DEF OnOtherCmd
<1>6. /\ cache'[i] = [cache[i] EXCEPT !.id = h + 1]
      /\ \A j \in Instruments : j # i => cache'[j] = cache[j]
  <2>1. cache' = [cache EXCEPT ![i].id = Head(cmds).id]
    BY <1>2 DEF OnOtherCmd
  <2>2. Head(cmds).id = h + 1 /\ cache \in [Instruments -> Cache]
    BY <1>3, <1>4 DEF Typed, MainTyped
  <2> QED
    BY <2>1, <2>2
<1>7. /\ cache'[i].lease = cache[i].lease /\ cache'[i].ahead = cache[i].ahead
      /\ cache'[i].first = cache[i].first /\ cache'[i].reply = cache[i].reply
      /\ cache'[i].id = h + 1
  BY <1>6 DEF Typed, MainTyped, Cache
<1>8. /\ PahoFor(i)' = "forget"
      /\ \A j \in Instruments : j # i => PahoFor(j)' = PahoFor(j)
  BY <1>3, <1>5, PahoAt
<1>9. Quiet(i) /\ Done(i) /\ InstrumentSound(i)
  BY <1>3, <1>4, StageFacts DEF Sound, Answerable
<1>10. Coming(i)' = Coming(i) /\ (Comes(i)' <=> Comes(i)) /\ (Buys(i)' <=> Buys(i))
  BY <1>1, SameReplies, SameActor
<1>11. /\ line'[i].inbox = <<"other">> /\ line'[i].reserved = line[i].reserved
       /\ line'[i].block = line[i].block /\ line'[i].pos = line[i].pos
       /\ \A j \in Instruments : j # i => line'[j] = line[j]
  BY <1>5, <1>9, Delivered DEF Done
<1>12. Block(i)' = Block(i) + 1
  <2>1. Direct!Block(s, h + 1) = Direct!Block(s, h) + 1
    BY <1>3, <1>4, BlockStep
  <2>2. Block(i)' = Direct!Block(s, h + 1)
    BY <1>1, <1>4 DEF Block
  <2> QED
    BY <2>1, <2>2 DEF Block
<1>13. Selecting(i)'
  <2>1. Handled(i)' > 1 /\ line[i].reserved /\ line[i].block = Block(i) /\ Coming(i) = {}
    BY <1>3, <1>4, <1>9 DEF Done
  <2> QED
    BY <1>8, <1>10, <1>11, <1>12, <2>1 DEF Selecting
<1>14. Stage(i)'
  <2>1. (h = 0 \/ PahoFor(i) = "replace") = FALSE
    BY <1>3, <1>4
  <2>2. cache'[i].lease = 1 /\ Handled(i)' # 0
    BY <1>3, <1>4, <1>7, <1>9, <2>1 DEF Quiet
  <2>3. /\ filler'[T(i)] = filler[T(i)] /\ publisher'[T(i)] = publisher[T(i)]
    BY <1>1
  <2> QED
    BY <1>4, <1>7, <1>8, <1>9, <1>10, <1>11, <1>13, <2>2, <2>3 DEF Stage, Quiet
<1>15. InstrumentSound(i)'
  BY <1>1, <1>3, <1>4, <1>7, <1>9, <1>10, <1>11, <1>14, TakenSound
<1>16. ServerSound'
  BY <1>1 DEF Sound, ServerSound
<1>17. ASSUME NEW j \in Instruments, j # i PROVE Silent(j) /\ Alike(j)
  BY <1>1, <1>3, <1>6, <1>8, <1>11, <1>17, SameReplies, SameActor, NobodyWoken DEF Silent, Alike
<1> QED
  BY <1>3, <1>15, <1>16, <1>17, SoundStep

\* While the paho thread ends the buy-ahead, the line has not answered.
LEMMA ForgettingSound ==
    ASSUME Typed, Sound, ForgetGetNext \/ ClearCache
    PROVE  Sound'
<1>1. UNCHANGED <<app, msgs, actor, rx, line, publisher, control, cmds>>
  BY DEF ForgetGetNext, ClearCache
<1>2. PICK i \in Instruments : i = paho.instr
  BY PahoWorks DEF ForgetGetNext, ClearCache
<1>3. /\ PahoFor(i) \in {"forget", "clear"} /\ PahoFor(i)' \in {"clear", "idle"}
      /\ \A j \in Instruments : j # i => PahoFor(j)' = PahoFor(j)
  BY <1>2, PahoWorks, PahoAt DEF ForgetGetNext, ClearCache
<1>4. ~Fetching(i) /\ Quiet(i) /\ Selecting(i) /\ ~Done(i)
  <2>1. ~Fetching(i)
    BY <1>3, StageFacts DEF Downloading
  <2> QED
    BY <1>3, <2>1, StageFacts DEF Quiet, Done, Reserving
<1>5. /\ cache'[i].lease = cache[i].lease /\ cache'[i].id = cache[i].id
      /\ ~cache'[i].ahead /\ cache'[i].first = cache[i].first /\ cache'[i].reply = NoData
      /\ \A j \in Instruments : j # i => cache'[j] = cache[j]
  <2>1. CASE ForgetGetNext
    <3>1. /\ cache'[i] = [cache[i] EXCEPT !.ahead = FALSE]
          /\ \A j \in Instruments : j # i => cache'[j] = cache[j]
      BY <1>2, <2>1 DEF ForgetGetNext, Typed, MainTyped
    <3> QED
      BY <1>4, <3>1 DEF Typed, MainTyped, Cache, Quiet
  <2>2. CASE ClearCache
    <3>1. /\ cache'[i] = [cache[i] EXCEPT !.reply = NoData]
          /\ \A j \in Instruments : j # i => cache'[j] = cache[j]
      BY <1>2, <2>2 DEF ClearCache, Typed, MainTyped
    <3> QED
      BY <1>4, <3>1 DEF Typed, MainTyped, Cache, Quiet
  <2> QED
    BY <2>1, <2>2
<1>6. FillersWoken /\ PublishersWoken
  <2>1. FillersWoken
    <3>1. CASE ForgetGetNext
      BY <3>1 DEF ForgetGetNext, FillersWoken
    <3>2. CASE ClearCache
      BY <3>2, NotifyEmptyWakes DEF ClearCache, Typed
    <3> QED
      BY <3>1, <3>2
  <2> QED
    BY <1>1, <2>1 DEF PublishersWoken
<1>7. filler'[T(i)].pc = "idle" /\ publisher'[T(i)] = "idle"
  BY <1>1, <1>4, <1>6, ThreadOfInstrument DEF Quiet, FillersWoken
<1>8. /\ Handled(i)' = Handled(i) /\ (Fetching(i)' <=> Fetching(i)) /\ Block(i)' = Block(i)
      /\ Coming(i)' = Coming(i) /\ (Comes(i)' <=> Comes(i)) /\ (Buys(i)' <=> Buys(i))
  BY <1>1, SameCommands, SameScript, SameReplies, SameActor
<1>9. Selecting(i)'
  <2>1. /\ line[i].inbox = <<"other">> /\ Coming(i) = {} /\ line[i].block + 1 = Block(i)
    BY <1>3, <1>4 DEF Selecting
  <2> QED
    BY <1>1, <1>3, <1>4, <1>8, <2>1 DEF Selecting
<1>10. Stage(i)'
  BY <1>1, <1>3, <1>4, <1>5, <1>7, <1>8, <1>9 DEF Stage, Quiet
<1>11. ~Answerable(i)
  BY <1>4 DEF Answerable
<1>12. ServerSound' /\ \A j \in Instruments : Woken(j)
  BY <1>1, <1>6, WokenThreads DEF Sound, ServerSound
<1>13. ASSUME NEW j \in Instruments, j # i PROVE Elsewhere(j)
  BY <1>1, <1>3, <1>5, <1>12, <1>13, SameReplies, SameActor DEF Elsewhere
<1> QED
  BY <1>1, <1>5, <1>8, <1>10, <1>11, <1>12, <1>13, InternalStep

LEMMA PahoSound ==
    ASSUME OneDownload, Typed, Sound, Paho
    PROVE  Sound'
BY OnControlSound, ReplaceCacheSound, OnFirstGetNextSound, RegisteringSound, OnGetNextSound,
   OnOtherCmdSound, ForgettingSound DEF Paho

-----------------------------------------------------------------------------
(* The steps of the actor. *)

LEMMA ElsewhereSound ==
    ASSUME Typed, Sound, UNCHANGED <<app, cmds, msgs>>, ServerSound',
           \A j \in Instruments : Elsewhere(j)
    PROVE  Sound'
<1>1. CommandsSound' /\ \A j \in Instruments : Handled(j)' = Handled(j)
  BY SameCommands DEF Sound
<1>2. ASSUME NEW j \in Instruments PROVE InstrumentSound(j)'
  <2>1. Silent(j) /\ Alike(j)
    BY <1>1 DEF Silent, Alike, Elsewhere
  <2> QED
    BY <2>1, AlikeSound DEF Sound
<1> QED
  BY <1>1, <1>2 DEF Sound

\* The actor takes the only reply there is.
LEMMA HandlesSound ==
    ASSUME Typed, Sound, NEW kind, Handles(kind), NEW i, i = Head(rx).instr
    PROVE  /\ i \in Instruments /\ Head(rx).data \in Data
           /\ Comes(i) /\ Coming(i) = IF kind = "data" THEN {Head(rx).data} ELSE {}
           /\ \A j \in Instruments : /\ j # i => Coming(j) = {}
                                     /\ Coming(j)' = {} /\ ~Comes(j)'
                                     /\ ~Buys(j)
           /\ Len(rx') <= 1 /\ line[i].reserved
<1>1. actor = Idle /\ rx # <<>> /\ Head(rx).kind = kind /\ rx' = Tail(rx) /\ rx \in Seq(Received)
  BY DEF Handles, Typed, MainTyped
<1>2. rx' = <<>>
  <2>1. Len(rx) <= 1 /\ Len(rx) \in Nat /\ Len(rx) # 0
    BY <1>1, EmptySeq DEF Sound, ServerSound
  <2>2. Len(Tail(rx)) = Len(rx) - 1 /\ Tail(rx) \in Seq(Received)
    BY <1>1, HeadTailProperties
  <2>3. Len(Tail(rx)) = 0
    BY <2>1, <2>2
  <2> QED
    BY <1>1, <2>2, <2>3, EmptySeq
<1>3. Head(rx) \in Received
  BY <1>1
<1>4. i \in Instruments /\ Head(rx).data \in Data
  BY <1>3 DEF Received
<1>5. \A j \in Instruments : Comes(j) <=> j = i
  BY <1>1 DEF Comes
<1>6. Coming(i) = IF kind = "data" THEN {Head(rx).data} ELSE {}
  BY <1>1, <1>4, <1>5 DEF Coming
<1>7. \A j \in Instruments : j # i => Coming(j) = {}
  BY <1>5 DEF Coming
<1>8. \A j \in Instruments : ~Buys(j)
  BY <1>1 DEF Buys, Idle, At
<1>9. \A j \in Instruments : ~Comes(j)' /\ Coming(j)' = {}
  BY <1>2 DEF Comes, Coming
<1>10. line[i].reserved
  BY <1>4, <1>5 DEF Sound, InstrumentSound, Announced
<1> QED
  BY <1>2, <1>4, <1>5, <1>6, <1>7, <1>8, <1>9, <1>10

\* What may be published to the application of i.
Publishable(i, m) ==
    \/ m.topic = "reservation" /\ m.status = "reserve"
    \/ /\ m.topic = "msg" /\ m.id = Handled(i) /\ Handled(i) > 0
       /\ m.data = Direct!Reply(app[i].script, Handled(i))

LEMMA PublishSound ==
    ASSUME Typed, Sound, NEW i \in Instruments, NEW m, Publish(i, m), Publishable(i, m),
           UNCHANGED <<app, cmds, line>>, cache' = cache, ServerSound', line[i].reserved,
           Stage(i)', Answerable(i) => Answerable(i)', m.topic = "msg" => Answerable(i)',
           \A j \in Instruments : j # i => Elsewhere(j)
    PROVE  Sound'
<1>1. CommandsSound' /\ \A j \in Instruments : Handled(j)' = Handled(j)
  BY SameCommands DEF Sound
<1>2. msgs \in [Instruments -> Seq(Message)]
  BY DEF Typed, OutsideTyped
<1>3. /\ msgs'[i] = Append(msgs[i], m)
      /\ \A j \in Instruments : j # i => msgs'[j] = msgs[j]
  BY <1>2 DEF Publish
<1>4. InstrumentSound(i)'
  <2>1. InstrumentSound(i)
    BY DEF Sound
  <2>2. SessionSound(i)' /\ Announced(i)'
    BY <2>1 DEF InstrumentSound, SessionSound, Announced
  <2>3. MessagesSound(i)'
    <3>1. Handled(i) \in Nat
      BY HandledType
    <3>2. /\ m.topic = "reservation" => m.status = "reserve"
          /\ m.topic = "msg" => /\ m.id \in 1 .. Handled(i)
                                /\ m.data = Direct!Reply(app[i].script, m.id)
                                /\ Answerable(i)'
      BY <3>1 DEF Publishable
    <3>3. MessagesSound(i)
      BY <2>1 DEF InstrumentSound
    <3>4. /\ Len(msgs'[i]) = Len(msgs[i]) + 1 /\ Len(msgs[i]) \in Nat
          /\ msgs'[i][Len(msgs[i]) + 1] = m
          /\ \A k \in 1 .. Len(msgs[i]) : msgs'[i][k] = msgs[i][k]
      BY <1>2, <1>3
    <3>5. \A k \in 1 .. Len(msgs'[i]) : msgs'[i][k] = m \/ k \in 1 .. Len(msgs[i])
      BY <3>4
    <3> QED
      BY <1>1, <3>2, <3>3, <3>4, <3>5 DEF MessagesSound
  <2> QED
    BY <1>1, <2>1, <2>2, <2>3 DEF InstrumentSound
<1>5. ASSUME NEW j \in Instruments, j # i PROVE Silent(j) /\ Alike(j)
  BY <1>1, <1>3, <1>5 DEF Silent, Alike, Elsewhere
<1> QED
  BY <1>1, <1>4, <1>5, SoundStep

LEMMA ReceiveReservationStatusSound ==
    ASSUME Typed, Sound, ReceiveReservationStatus
    PROVE  Sound'
<1>1. /\ UNCHANGED <<app, cmds, control, paho, line, cache, publisher, filler>>
      /\ Handles("status")
  BY DEF ReceiveReservationStatus
<1>2. PICK i \in Instruments : i = Head(rx).instr
  BY <1>1, HandlesSound
<1>3. /\ Coming(i) = {} /\ line[i].reserved /\ Len(rx') <= 1
      /\ \A j \in Instruments : Coming(j) = {} /\ Coming(j)' = {} /\ ~Comes(j)' /\ ~Buys(j)
  BY <1>1, <1>2, HandlesSound
<1>4. ServerSound'
  BY <1>1, <1>3 DEF Sound, ServerSound
<1>5. ASSUME NEW j \in Instruments PROVE ~Buys(j)'
  <2>1. actor' = At("unset", i) \/ actor' = Idle
    BY <1>1, <1>2 DEF ReceiveReservationStatus, Handles
  <2> QED
    BY <2>1 DEF Buys, At, Idle
<1>6. ASSUME NEW j \in Instruments PROVE Elsewhere(j)
  BY <1>1, <1>3, <1>5, SamePaho, NobodyWoken DEF Elsewhere
<1>7. CASE control \in Control
  <2>1. control = "reserve"
    BY <1>7 DEF Sound, ServerSound, Control
  <2>2. Publish(i, [topic |-> "reservation", status |-> "reserve"])
    BY <1>2, <1>7, <2>1 DEF ReceiveReservationStatus
  <2>3. Alike(i)
    BY <1>1, <1>6, SameCommands DEF Alike, Elsewhere
  <2>4. Stage(i)' /\ (Answerable(i) => Answerable(i)')
    BY <2>3, AlikeStage DEF Sound, InstrumentSound
  <2>5. Publishable(i, [topic |-> "reservation", status |-> "reserve"])
    BY DEF Publishable
  <2> QED
    BY <1>1, <1>3, <1>4, <1>6, <2>2, <2>4, <2>5, PublishSound
<1>8. CASE control \notin Control
  <2>1. UNCHANGED msgs
    BY <1>8 DEF ReceiveReservationStatus
  <2> QED
    BY <1>1, <1>4, <1>6, <2>1, ElsewhereSound
<1> QED
  BY <1>7, <1>8

\* After a reservation the actor wakes the threads that wait.
LEMMA ActorWakesSound ==
    ASSUME Typed, Sound, UnsetControl \/ WakeFiller \/ WakePublisher
    PROVE  Sound'
<1>1. UNCHANGED <<app, cmds, msgs, paho, rx, line, cache>>
  BY DEF UnsetControl, WakeFiller, WakePublisher
<1>2. FillersWoken /\ PublishersWoken
  <2>1. CASE UnsetControl
    BY <2>1 DEF UnsetControl, FillersWoken, PublishersWoken
  <2>2. CASE WakeFiller
    BY <2>2, NotifyEmptyWakes DEF WakeFiller, PublishersWoken, Typed
  <2>3. CASE WakePublisher
    BY <2>3, NotifyFilledWakes DEF WakePublisher, FillersWoken, Typed
  <2> QED
    BY <2>1, <2>2, <2>3
<1>3. ServerSound' /\ \A j \in Instruments : Woken(j)
  <2>1. control' \in {control, "unknown"}
    BY DEF UnsetControl, WakeFiller, WakePublisher
  <2> QED
    BY <1>1, <1>2, <2>1, WokenThreads DEF Sound, ServerSound
<1>4. ASSUME NEW j \in Instruments PROVE ~Buys(j) /\ ~Buys(j)'
  <2>1. actor.pc \in {"unset", "wakeFiller", "wakePublisher"}
    BY DEF UnsetControl, WakeFiller, WakePublisher
  <2>2. actor'.pc \in {"wakeFiller", "wakePublisher", "idle"}
    BY DEF UnsetControl, WakeFiller, WakePublisher, At, Idle
  <2> QED
    BY <2>1, <2>2 DEF Buys, At
<1>5. ASSUME NEW j \in Instruments PROVE Elsewhere(j)
  BY <1>1, <1>3, <1>4, SamePaho, SameReplies DEF Elsewhere
<1> QED
  BY <1>1, <1>3, <1>5, ElsewhereSound

LEMMA ReceiveReplySound ==
    ASSUME OneDownload, Typed, Sound, ReceiveReply
    PROVE  Sound'
<1>1. /\ UNCHANGED <<app, cmds, control, paho, actor, line, cache, publisher, filler>>
      /\ Handles("data")
  BY DEF ReceiveReply
<1>2. PICK i \in Instruments : i = Head(rx).instr
  BY <1>1, HandlesSound
<1> DEFINE s == app[i].script
           h == Handled(i)
           data == Head(rx).data
           m == [topic |-> "msg", id |-> cache[i].id, data |-> data]
<1>3. /\ Coming(i) = {data} /\ line[i].reserved /\ Len(rx') <= 1
      /\ \A j \in Instruments : /\ j # i => Coming(j) = {}
                                /\ Coming(j)' = {} /\ ~Comes(j)'
  BY <1>1, <1>2, HandlesSound
<1>4. Publish(i, m) /\ ~cache[i].ahead
  BY <1>2 DEF ReceiveReply, PublishReply
<1>5. ~Fetching(i)
  <2>1. Downloading(i) => line[i].inbox = <<"next">>
    BY <1>4 DEF Downloading
  <2>2. Coming(i) # {}
    BY <1>3
  <2>3. BuysOnce(i) => line[i].inbox = <<>>
    BY <2>2 DEF BuysOnce
  <2>4. <<"next">> # <<>>
    OBVIOUS
  <2> QED
    BY <2>1, <2>3, <2>4, StageFacts DEF Downloading
<1>6. Quiet(i) /\ Selecting(i)
  BY <1>3, <1>5, StageFacts DEF Quiet, Done, Reserving
<1>7. /\ h > 1 /\ PahoFor(i) = "idle" /\ line[i].inbox = <<>>
      /\ data = <<"other", Block(i)>> /\ line[i].block = Block(i)
  BY <1>3, <1>6 DEF Selecting
<1>8. s[h] = "other"
  <2>1. s \in Scripts /\ Len(s) \in Nat /\ app[i].sent \in 0 .. Len(s)
    BY SessionTypes DEF Sound, InstrumentSound, SessionSound
  <2>2. h \in 1 .. Len(s)
    BY <1>7, <2>1, HandledType
  <2>3. s[h] \in {"reserve", "next", "other"} /\ (s[h] \in Control => h = 1)
    BY <2>1, <2>2, ScriptShape
  <2> QED
    BY <1>5, <1>7, <2>3 DEF Fetching, Control
<1>9. Publishable(i, m)
  <2>1. Direct!Reply(s, h) = <<"other", Block(i)>>
    BY <1>8 DEF Direct!Reply, Block
  <2>2. cache[i].id = h
    BY <1>7 DEF Sound, InstrumentSound
  <2>3. m.topic = "msg" /\ m.id = h /\ m.data = Direct!Reply(s, h) /\ h > 0
    BY <1>7, <2>1, <2>2, HandledType
  <2> QED
    BY <2>3 DEF Publishable
<1>10. ServerSound'
  BY <1>1, <1>3 DEF Sound, ServerSound
<1>11. /\ Handled(i)' = Handled(i) /\ (Fetching(i)' <=> Fetching(i)) /\ Block(i)' = Block(i)
       /\ (Buys(i)' <=> Buys(i)) /\ PahoFor(i)' = PahoFor(i)
  BY <1>1, SameCommands, SameScript, SamePaho, SameActor
<1>12. Done(i)'
  <2>1. line[i].pos = 0 /\ h > 0
    BY <1>6, <1>7, HandledType DEF Quiet
  <2> QED
    BY <1>1, <1>3, <1>7, <1>11, <2>1 DEF Done
<1>13. Stage(i)' /\ Answerable(i)'
  <2>1. Quiet(i)'
    BY <1>1, <1>6, <1>11, <1>12 DEF Quiet
  <2> QED
    BY <1>5, <1>11, <1>12, <2>1 DEF Stage, Answerable
<1>14. ASSUME NEW j \in Instruments, j # i PROVE Elsewhere(j)
  BY <1>1, <1>3, <1>14, SamePaho, SameActor, NobodyWoken DEF Elsewhere
<1> HIDE DEF m
<1> QED
  BY <1>1, <1>3, <1>4, <1>9, <1>10, <1>13, <1>14, PublishSound

\* A reply that comes while the buy-ahead is under way is the frame fetched last.
LEMMA BoughtReply ==
    ASSUME Typed, Sound, Handles("data"), NEW i \in Instruments, i = Head(rx).instr,
           cache[i].ahead
    PROVE  /\ Fetching(i) /\ Downloading(i) /\ ~Buys(i)
           /\ Head(rx).data = Frame(line[i].block, line[i].pos)
           /\ Coming(i) = {Head(rx).data}
           /\ line[i].inbox = <<>> /\ filler[T(i)].pc = "idle" /\ PahoFor(i) = "idle"
           /\ line[i].reserved /\ Len(rx') <= 1
           /\ \A j \in Instruments : /\ j # i => Coming(j) = {}
                                     /\ Coming(j)' = {} /\ ~Comes(j)'
<1>1. /\ Coming(i) = {Head(rx).data} /\ line[i].reserved /\ Len(rx') <= 1
      /\ \A j \in Instruments : /\ j # i => Coming(j) = {}
                                /\ Coming(j)' = {} /\ ~Comes(j)' /\ ~Buys(j)
  BY HandlesSound
<1>2. Fetching(i)
  BY StageFacts DEF Quiet
<1>3. Downloading(i) /\ BuysOnce(i)
  BY <1>2, StageFacts DEF Downloading
<1>4. /\ line[i].inbox = <<>> /\ filler[T(i)].pc = "idle"
      /\ Coming(i) = {Frame(line[i].block, line[i].pos)}
  BY <1>1, <1>3 DEF BuysOnce
<1>5. PahoFor(i) = "idle"
  BY <1>3, <1>4 DEF Downloading
<1>6. Head(rx).data = Frame(line[i].block, line[i].pos)
  BY <1>1, <1>4
<1> QED
  BY <1>1, <1>2, <1>3, <1>4, <1>5, <1>6

LEMMA ReceiveFirstReplySound ==
    ASSUME Typed, Sound, ReceiveFirstReply
    PROVE  Sound'
<1>1. /\ UNCHANGED <<app, cmds, control, paho, line, cache, publisher, filler>>
      /\ Handles("data")
  BY DEF ReceiveFirstReply
<1>2. PICK i \in Instruments : i = Head(rx).instr
  BY <1>1, HandlesSound
<1> DEFINE s == app[i].script
           h == Handled(i)
           data == Head(rx).data
           m == [topic |-> "msg", id |-> cache[i].id, data |-> data]
<1>3. Publish(i, m) /\ cache[i].ahead /\ cache[i].first /\ actor' = At("buyAhead", i)
  BY <1>2 DEF ReceiveFirstReply, PublishReply
<1>4. /\ Fetching(i) /\ Downloading(i) /\ ~Buys(i)
      /\ data = Frame(line[i].block, line[i].pos)
      /\ Coming(i) = {data}
      /\ line[i].inbox = <<>> /\ filler[T(i)].pc = "idle" /\ PahoFor(i) = "idle"
      /\ line[i].reserved /\ Len(rx') <= 1
      /\ \A j \in Instruments : /\ j # i => Coming(j) = {}
                                /\ Coming(j)' = {} /\ ~Comes(j)'
  BY <1>1, <1>2, <1>3, BoughtReply
<1>5. Opening(i) /\ publisher[T(i)] = "idle" /\ cache[i].reply = NoData
  BY <1>3, <1>4 DEF Downloading, Opening
<1>6. line[i].pos = Position(i)
  <2>1. Fetched(i) /\ ~Cached(i)
    BY <1>4, <1>5 DEF Fetched, Cached
  <2>2. line[i].pos + 1 = Position(i) + InHand(i) /\ InHand(i) = 1
    BY <1>5, <2>1 DEF Opening, Asked, InHand
  <2> QED
    BY <2>2, DownloadTypes
<1>7. Publishable(i, m)
  <2>1. h > 1 /\ s[h] = "next" /\ h \in Nat
    BY <1>4, HandledType DEF Fetching
  <2>2. Direct!Reply(s, h) = Frame(Block(i), Position(i))
    BY <2>1 DEF Direct!Reply, Block, Position, Frame
  <2>3. line[i].block = Block(i)
    BY <1>4 DEF Downloading
  <2>4. cache[i].id = h
    BY <2>1 DEF Sound, InstrumentSound
  <2>5. m.topic = "msg" /\ m.id = h /\ m.data = Direct!Reply(s, h) /\ h > 0
    BY <1>4, <1>6, <2>1, <2>2, <2>3, <2>4
  <2> QED
    BY <2>5 DEF Publishable
<1>8. ServerSound'
  BY <1>1, <1>4 DEF Sound, ServerSound
<1>9. /\ Handled(i)' = Handled(i) /\ (Fetching(i)' <=> Fetching(i)) /\ Block(i)' = Block(i)
      /\ Position(i)' = Position(i) /\ PahoFor(i)' = PahoFor(i)
  BY <1>1, SameCommands, SameScript, SamePaho
<1>10. Buys(i)' /\ \A j \in Instruments : j # i => (Buys(j)' <=> Buys(j))
  <2>1. \A j \in Instruments : ~Buys(j)
    BY <1>1, <1>2, HandlesSound
  <2> QED
    BY <1>3, <2>1 DEF Buys, At
<1>11. ~Fetched(i)' /\ Served(i)'
  <2>1. ~Fetched(i)' /\ ~Cached(i)'
    BY <1>1, <1>4, <1>5 DEF Fetched, Cached
  <2>2. InHand(i)' = 0
    BY <2>1 DEF InHand
  <2>3. line[i].pos = Position(i) + 0
    BY <1>6, DownloadTypes
  <2> QED
    BY <1>1, <1>9, <2>1, <2>2, <2>3 DEF Served
<1>12. BuysOnce(i)'
  BY <1>1, <1>4, <1>5, <1>10 DEF BuysOnce
<1>13. Downloading(i)'
  BY <1>1, <1>3, <1>4, <1>5, <1>9, <1>10, <1>11, <1>12 DEF Downloading
<1>14. Stage(i)' /\ Answerable(i)'
  BY <1>4, <1>9, <1>11, <1>13 DEF Stage, Answerable
<1>15. ASSUME NEW j \in Instruments, j # i PROVE Elsewhere(j)
  BY <1>1, <1>4, <1>10, <1>15, SamePaho, NobodyWoken DEF Elsewhere
<1> HIDE DEF m
<1> QED
  BY <1>1, <1>3, <1>4, <1>7, <1>8, <1>14, <1>15, PublishSound

LEMMA StartBuyAheadSound ==
    ASSUME Typed, Sound, StartBuyAhead
    PROVE  Sound'
<1>1. /\ UNCHANGED <<app, cmds, msgs, control, paho, rx, publisher, filler>>
      /\ actor.pc = "buyAhead" /\ actor' = Idle
  BY DEF StartBuyAhead
<1>2. PICK i \in Instruments : i = actor.instr /\ actor = At("buyAhead", i)
  BY <1>1 DEF Typed, MainTyped, Idle, At
<1>3. Buys(i) /\ \A j \in Instruments : j # i => ~Buys(j)
  BY <1>2 DEF Buys, At
<1>4. Fetching(i) /\ Downloading(i)
  BY <1>3, StageFacts DEF Quiet
<1>5. /\ line[i].inbox = <<>> /\ Coming(i) = {} /\ filler[T(i)].pc = "idle"
      /\ cache[i].reply = NoData /\ PahoFor(i) = "idle" /\ cache[i].ahead
  <2>1. /\ line[i].inbox = <<>> /\ Coming(i) = {} /\ filler[T(i)].pc = "idle"
        /\ cache[i].reply = NoData
    BY <1>3, <1>4 DEF Downloading, BuysOnce
  <2> QED
    BY <1>4, <2>1 DEF Downloading
<1>6. ToDevice(i, "next")
  BY <1>2, <1>5 DEF StartBuyAhead, BuyAhead
<1>7. /\ line'[i].inbox = <<"next">> /\ line'[i].reserved = line[i].reserved
      /\ line'[i].block = line[i].block /\ line'[i].pos = line[i].pos
      /\ \A j \in Instruments : j # i => line'[j] = line[j]
  BY <1>5, <1>6, Delivered
<1>8. /\ cache'[i] = [cache[i] EXCEPT !.first = FALSE]
      /\ \A j \in Instruments : j # i => cache'[j] = cache[j]
  BY <1>2 DEF StartBuyAhead, Typed, MainTyped
<1>9. /\ cache'[i].lease = cache[i].lease /\ cache'[i].ahead = cache[i].ahead
      /\ cache'[i].first = FALSE /\ cache'[i].reply = cache[i].reply
      /\ cache'[i].id = cache[i].id
  BY <1>8 DEF Typed, MainTyped, Cache
<1>10. \A j \in Instruments : ~Buys(j)'
  BY <1>1 DEF Buys, At, Idle
<1>11. /\ Handled(i)' = Handled(i) /\ (Fetching(i)' <=> Fetching(i)) /\ Block(i)' = Block(i)
       /\ Position(i)' = Position(i) /\ PahoFor(i)' = PahoFor(i)
       /\ Coming(i)' = Coming(i) /\ (Comes(i)' <=> Comes(i))
  BY <1>1, SameCommands, SameScript, SamePaho, SameReplies
<1>12. (Fetched(i)' <=> Fetched(i)) /\ (Cached(i)' <=> Cached(i))
  BY <1>1, <1>9, <1>11 DEF Fetched, Cached
<1>13. InHand(i)' = InHand(i)
  BY <1>12 DEF InHand
<1>14. (Asked(i)' <=> Asked(i)) /\ (Served(i)' <=> Served(i))
  BY <1>7, <1>11, <1>13 DEF Asked, Served
<1>15. BuysOnce(i)'
  BY <1>1, <1>5, <1>7, <1>10, <1>11 DEF BuysOnce
<1>16. Downloading(i)'
  BY <1>1, <1>4, <1>5, <1>7, <1>9, <1>10, <1>11, <1>12, <1>14, <1>15 DEF Downloading
<1>17. Stage(i)' /\ (Answerable(i) => Answerable(i)')
  BY <1>4, <1>11, <1>14, <1>16 DEF Stage, Answerable
<1>18. ServerSound'
  BY <1>1 DEF Sound, ServerSound
<1>19. ASSUME NEW j \in Instruments, j # i PROVE Elsewhere(j)
  BY <1>1, <1>3, <1>7, <1>8, <1>10, <1>19, SamePaho, SameReplies, NobodyWoken DEF Elsewhere
<1> QED
  BY <1>1, <1>7, <1>9, <1>11, <1>17, <1>18, <1>19, InternalStep

LEMMA ReceiveBoughtReplySound ==
    ASSUME Typed, Sound, ReceiveBoughtReply
    PROVE  Sound'
<1>1. /\ UNCHANGED <<app, cmds, msgs, control, paho, actor, line, cache, publisher>>
      /\ Handles("data")
  BY DEF ReceiveBoughtReply
<1>2. PICK i \in Instruments : i = Head(rx).instr
  BY <1>1, HandlesSound
<1> DEFINE data == Head(rx).data
<1>3. cache[i].ahead /\ ~cache[i].first
  BY <1>2 DEF ReceiveBoughtReply
<1>4. /\ Fetching(i) /\ Downloading(i) /\ ~Buys(i)
      /\ data = Frame(line[i].block, line[i].pos)
      /\ Coming(i) = {data}
      /\ line[i].inbox = <<>> /\ filler[T(i)].pc = "idle" /\ PahoFor(i) = "idle"
      /\ line[i].reserved /\ Len(rx') <= 1
      /\ \A j \in Instruments : /\ j # i => Coming(j) = {}
                                /\ Coming(j)' = {} /\ ~Comes(j)'
  BY <1>1, <1>2, <1>3, BoughtReply
<1>5. /\ filler'[T(i)] = [pc |-> "check", data |-> data]
      /\ \A t \in Thread : t # T(i) => filler'[t] = filler[t]
  <2>1. Current(i) = T(i)
    BY <1>4 DEF Downloading, Current, T
  <2>2. filler' = [filler EXCEPT ![T(i)] = [pc |-> "check", data |-> data]]
    BY <1>2, <1>4, <2>1 DEF ReceiveBoughtReply
  <2> QED
    BY <2>2, ThreadOfInstrument DEF Typed, FillersTyped
<1>6. /\ Handled(i)' = Handled(i) /\ (Fetching(i)' <=> Fetching(i)) /\ Block(i)' = Block(i)
      /\ Position(i)' = Position(i) /\ PahoFor(i)' = PahoFor(i) /\ (Buys(i)' <=> Buys(i))
  BY <1>1, SameCommands, SameScript, SamePaho, SameActor
<1>7. (Fetched(i)' <=> Fetched(i)) /\ (Cached(i)' <=> Cached(i))
  <2>1. Fetched(i) /\ Fetched(i)'
    BY <1>4, <1>5 DEF Fetched
  <2> QED
    BY <1>1, <2>1 DEF Cached
<1>8. InHand(i)' = InHand(i)
  BY <1>7 DEF InHand
<1>9. (Asked(i)' <=> Asked(i)) /\ (Served(i)' <=> Served(i))
  BY <1>1, <1>6, <1>8 DEF Asked, Served
<1>10. BuysOnce(i)'
  BY <1>1, <1>4, <1>5, <1>6 DEF BuysOnce
<1>11. Downloading(i)'
  BY <1>1, <1>3, <1>4, <1>6, <1>7, <1>9, <1>10 DEF Downloading
<1>12. Stage(i)' /\ (Answerable(i) => Answerable(i)')
  BY <1>4, <1>6, <1>9, <1>11 DEF Stage, Answerable
<1>13. OthersWoken(i)
  BY <1>1, <1>5 DEF OthersWoken
<1>14. ServerSound'
  BY <1>1, <1>4, <1>13, OthersSound DEF Sound, ServerSound
<1>15. ASSUME NEW j \in Instruments, j # i PROVE Elsewhere(j)
  BY <1>1, <1>4, <1>13, <1>15, OthersSound, SamePaho, SameActor DEF Elsewhere, Sound
<1> QED
  BY <1>1, <1>4, <1>12, <1>14, <1>15, InternalStep

LEMMA ActorSound ==
    ASSUME OneDownload, Typed, Sound, Actor
    PROVE  Sound'
BY ReceiveReservationStatusSound, ActorWakesSound, ReceiveReplySound, ReceiveFirstReplySound,
   StartBuyAheadSound, ReceiveBoughtReplySound DEF Actor

-----------------------------------------------------------------------------
(* The steps of the thread that fills the cache. *)

LEMMA WorkingThread ==
    ASSUME Typed, Sound, NEW t \in Thread, filler[t].pc # "idle" \/ publisher[t] # "idle"
    PROVE  /\ t[1] \in Instruments /\ t = T(t[1])
           /\ Fetching(t[1]) /\ Downloading(t[1])
<1>1. t[1] \in Instruments /\ t = <<t[1], t[2]>>
  BY DEF Thread
<1>2. t[2] = 1
  BY DEF Sound, ServerSound
<1>3. t = T(t[1])
  BY <1>1, <1>2 DEF T
<1>4. Fetching(t[1])
  BY <1>1, <1>3, StageFacts DEF Quiet
<1> QED
  BY <1>1, <1>3, <1>4, StageFacts

\* A step of the threads of i that publishes nothing.
LEMMA ThreadStep ==
    ASSUME Typed, Sound, NEW i \in Instruments, UNCHANGED <<app, cmds, msgs>>,
           UNCHANGED <<control, paho, actor, rx>>, Fetching(i), OthersWoken(i),
           cache'[i].id = cache[i].id, line'[i].reserved = line[i].reserved,
           Downloading(i)', Served(i) => Served(i)',
           \A j \in Instruments : j # i => cache'[j] = cache[j] /\ line'[j] = line[j]
    PROVE  Sound'
<1>1. /\ Fetching(i)' /\ Coming(i)' = Coming(i) /\ (Comes(i)' <=> Comes(i))
  BY SameCommands, SameScript, SameReplies
<1>2. Stage(i)' /\ (Answerable(i) => Answerable(i)')
  BY <1>1 DEF Stage, Answerable
<1>3. ServerSound'
  BY OthersSound DEF Sound, ServerSound
<1>4. ASSUME NEW j \in Instruments, j # i PROVE Elsewhere(j)
  BY <1>4, OthersSound, SamePaho, SameActor, SameReplies DEF Elsewhere, Sound
<1> QED
  BY <1>1, <1>2, <1>3, <1>4, InternalStep

LEMMA SameForThread ==
    ASSUME NEW i \in Instruments, UNCHANGED <<app, cmds>>, UNCHANGED <<paho, actor, rx>>
    PROVE  /\ Block(i)' = Block(i) /\ Position(i)' = Position(i) /\ PahoFor(i)' = PahoFor(i)
           /\ Coming(i)' = Coming(i) /\ (Comes(i)' <=> Comes(i)) /\ (Buys(i)' <=> Buys(i))
BY SameCommands, SameScript, SamePaho, SameActor, SameReplies

LEMMA FillCheckSound ==
    ASSUME Typed, Sound, NEW t \in Thread, FillCheck(t)
    PROVE  Sound'
<1>1. /\ UNCHANGED <<app, cmds, msgs>> /\ UNCHANGED <<control, paho, actor, rx>>
      /\ UNCHANGED <<line, cache, publisher>> /\ filler[t].pc = "check"
  BY DEF FillCheck
<1>2. PICK i \in Instruments : i = t[1] /\ t = T(i) /\ Fetching(i) /\ Downloading(i)
  BY <1>1, WorkingThread
<1>3. /\ BuysOnce(i) /\ filler[T(i)].pc = "check"
      /\ line[i].inbox = <<>> /\ ~Buys(i) /\ Coming(i) = {}
      /\ filler[T(i)].data = Frame(line[i].block, line[i].pos)
  BY <1>1, <1>2 DEF Downloading, BuysOnce
<1>4. /\ filler'[T(i)].data = filler[T(i)].data
      /\ filler'[T(i)].pc = IF cache[i].reply # NoData THEN "wait" ELSE "store"
      /\ \A u \in Thread : u # T(i) => filler'[u] = filler[u]
  <2>1. filler[T(i)].data # NoData
    BY <1>3 DEF Frame, NoData
  <2>2. filler' = [filler EXCEPT ![T(i)].pc = IF cache[i].reply # NoData THEN "wait" ELSE "store"]
    BY <1>2, <2>1 DEF FillCheck
  <2>3. filler[T(i)] \in Filler /\ T(i) \in Thread
    BY ThreadOfInstrument DEF Typed, FillersTyped
  <2> QED
    BY <2>2, <2>3 DEF Typed, FillersTyped, Filler
<1>5. /\ Block(i)' = Block(i) /\ Position(i)' = Position(i) /\ PahoFor(i)' = PahoFor(i)
      /\ Coming(i)' = Coming(i) /\ (Buys(i)' <=> Buys(i))
  BY <1>1, SameForThread
<1>6. (Fetched(i)' <=> Fetched(i)) /\ (Cached(i)' <=> Cached(i))
  BY <1>1, <1>3, <1>4 DEF Fetched, Cached
<1>7. (Asked(i)' <=> Asked(i)) /\ (Served(i)' <=> Served(i))
  BY <1>1, <1>5, <1>6 DEF Asked, Served, InHand
<1>8. BuysOnce(i)'
  BY <1>1, <1>3, <1>4, <1>5 DEF BuysOnce
<1>9. PahoFor(i) = "idle" /\ ~Opening(i)
  <2>1. ~Opening(i)
    BY <1>3 DEF Opening
  <2> QED
    BY <1>2, <2>1 DEF Downloading
<1>10. Downloading(i)'
  BY <1>1, <1>2, <1>3, <1>5, <1>6, <1>7, <1>8, <1>9 DEF Downloading
<1>11. OthersWoken(i)
  BY <1>1, <1>4 DEF OthersWoken
<1> QED
  BY <1>1, <1>2, <1>7, <1>10, <1>11, ThreadStep

LEMMA FillStoreSound ==
    ASSUME Typed, Sound, NEW t \in Thread, FillStore(t)
    PROVE  Sound'
<1>1. /\ UNCHANGED <<app, cmds, msgs>> /\ UNCHANGED <<control, paho, actor, rx>>
      /\ UNCHANGED <<line, publisher>> /\ filler[t].pc = "store"
  BY DEF FillStore
<1>2. PICK i \in Instruments : i = t[1] /\ t = T(i) /\ Fetching(i) /\ Downloading(i)
  BY <1>1, WorkingThread
<1>3. /\ BuysOnce(i) /\ filler[T(i)].pc = "store" /\ cache[i].reply = NoData
      /\ line[i].inbox = <<>> /\ ~Buys(i) /\ Coming(i) = {}
      /\ filler[T(i)].data = Frame(line[i].block, line[i].pos)
  BY <1>1, <1>2 DEF Downloading, BuysOnce
<1>4. /\ filler'[T(i)].pc = "send"
      /\ \A u \in Thread : u # T(i) => filler'[u] = filler[u]
  <2>1. filler' = [filler EXCEPT ![T(i)].pc = "send"]
    BY <1>2 DEF FillStore
  <2>2. filler[T(i)] \in Filler /\ T(i) \in Thread
    BY ThreadOfInstrument DEF Typed, FillersTyped
  <2> QED
    BY <2>1, <2>2 DEF Typed, FillersTyped, Filler
<1>5. /\ cache'[i] = [cache[i] EXCEPT !.reply = Frame(line[i].block, line[i].pos)]
      /\ \A j \in Instruments : j # i => cache'[j] = cache[j]
  <2>1. cache' = [cache EXCEPT ![i].reply = filler[T(i)].data]
    BY <1>2 DEF FillStore
  <2> QED
    BY <1>3, <2>1 DEF Typed, MainTyped
<1>6. /\ cache'[i].lease = cache[i].lease /\ cache'[i].ahead = cache[i].ahead
      /\ cache'[i].first = cache[i].first /\ cache'[i].id = cache[i].id
      /\ cache'[i].reply = Frame(line[i].block, line[i].pos) /\ cache'[i].reply # NoData
  <2>1. Frame(line[i].block, line[i].pos) # NoData
    BY DEF Frame, NoData
  <2> QED
    BY <1>5, <2>1 DEF Typed, MainTyped, Cache
<1>7. /\ Block(i)' = Block(i) /\ Position(i)' = Position(i) /\ PahoFor(i)' = PahoFor(i)
      /\ Coming(i)' = Coming(i) /\ (Buys(i)' <=> Buys(i))
  BY <1>1, SameForThread
<1>8. publisher[T(i)] \notin {"publish", "clear"}
  BY <1>2, <1>3 DEF Downloading
<1>9. ~Fetched(i)' /\ Cached(i)' /\ InHand(i)' = InHand(i)
  <2>1. Fetched(i) /\ ~Cached(i)
    BY <1>3 DEF Fetched, Cached
  <2>2. ~Fetched(i)'
    BY <1>3, <1>4, <1>7 DEF Fetched
  <2>3. Cached(i)'
    BY <1>1, <1>6, <1>8 DEF Cached
  <2> QED
    BY <2>1, <2>2, <2>3 DEF InHand
<1>10. (Asked(i)' <=> Asked(i)) /\ (Served(i)' <=> Served(i))
  BY <1>1, <1>7, <1>9 DEF Asked, Served
<1>11. BuysOnce(i)'
  BY <1>1, <1>3, <1>4, <1>7 DEF BuysOnce
<1>12. PahoFor(i) = "idle" /\ ~Opening(i)
  <2>1. ~Opening(i)
    BY <1>3 DEF Opening
  <2> QED
    BY <1>2, <2>1 DEF Downloading
<1>13. Downloading(i)'
  BY <1>1, <1>2, <1>3, <1>6, <1>7, <1>9, <1>10, <1>11, <1>12 DEF Downloading
<1>14. OthersWoken(i)
  BY <1>1, <1>4 DEF OthersWoken
<1> QED
  BY <1>1, <1>2, <1>3, <1>5, <1>6, <1>10, <1>13, <1>14, ThreadStep

LEMMA FillSendSound ==
    ASSUME Typed, Sound, NEW t \in Thread, FillSend(t)
    PROVE  Sound'
<1>1. /\ UNCHANGED <<app, cmds, msgs>> /\ UNCHANGED <<control, paho, actor, rx>>
      /\ UNCHANGED <<cache, publisher>> /\ filler[t].pc = "send"
  BY DEF FillSend
<1>2. PICK i \in Instruments : i = t[1] /\ t = T(i) /\ Fetching(i) /\ Downloading(i)
  BY <1>1, WorkingThread
<1>3. /\ filler[T(i)].pc = "send" /\ line[i].inbox = <<>> /\ ~Buys(i) /\ Coming(i) = {}
  BY <1>1, <1>2 DEF Downloading, BuysOnce
<1>4. PahoFor(i) = "idle" /\ ~Opening(i) /\ cache[i].ahead
  <2>1. ~Opening(i)
    BY <1>3 DEF Opening
  <2> QED
    BY <1>2, <2>1 DEF Downloading
<1>5. /\ filler'[T(i)].pc = "notify"
      /\ \A u \in Thread : u # T(i) => filler'[u] = filler[u]
  <2>1. filler' = [filler EXCEPT ![T(i)].pc = "notify"]
    BY <1>2 DEF FillSend
  <2>2. filler[T(i)] \in Filler /\ T(i) \in Thread
    BY ThreadOfInstrument DEF Typed, FillersTyped
  <2> QED
    BY <2>1, <2>2 DEF Typed, FillersTyped, Filler
<1>6. ToDevice(i, "next")
  BY <1>2, <1>4 DEF FillSend, BuyAhead
<1>7. /\ line'[i].inbox = <<"next">> /\ line'[i].reserved = line[i].reserved
      /\ line'[i].block = line[i].block /\ line'[i].pos = line[i].pos
      /\ \A j \in Instruments : j # i => line'[j] = line[j]
  BY <1>3, <1>6, Delivered
<1>8. /\ Block(i)' = Block(i) /\ Position(i)' = Position(i) /\ PahoFor(i)' = PahoFor(i)
      /\ Coming(i)' = Coming(i) /\ (Buys(i)' <=> Buys(i))
  BY <1>1, SameForThread
<1>9. (Fetched(i)' <=> Fetched(i)) /\ (Cached(i)' <=> Cached(i))
  BY <1>1, <1>3, <1>5, <1>8 DEF Fetched, Cached
<1>10. (Asked(i)' <=> Asked(i)) /\ (Served(i)' <=> Served(i))
  BY <1>7, <1>8, <1>9 DEF Asked, Served, InHand
<1>11. BuysOnce(i)'
  BY <1>3, <1>5, <1>7, <1>8 DEF BuysOnce
<1>12. Downloading(i)'
  BY <1>1, <1>2, <1>3, <1>4, <1>7, <1>8, <1>9, <1>10, <1>11 DEF Downloading
<1>13. OthersWoken(i)
  BY <1>1, <1>5 DEF OthersWoken
<1> QED
  BY <1>1, <1>2, <1>7, <1>10, <1>12, <1>13, ThreadStep

LEMMA FillNotifySound ==
    ASSUME Typed, Sound, NEW t \in Thread, FillNotify(t)
    PROVE  Sound'
<1>1. /\ UNCHANGED <<app, cmds, msgs>> /\ UNCHANGED <<control, paho, actor, rx>>
      /\ UNCHANGED <<line, cache>> /\ filler[t].pc = "notify" /\ NotifyFilled
  BY DEF FillNotify
<1>2. PICK i \in Instruments : i = t[1] /\ t = T(i) /\ Fetching(i) /\ Downloading(i)
  BY <1>1, WorkingThread
<1>3. /\ filler[T(i)].pc = "notify" /\ line[i].inbox = <<"next">> /\ ~Buys(i) /\ Coming(i) = {}
  BY <1>1, <1>2 DEF Downloading, BuysOnce
<1>4. PublishersWoken
  BY <1>1, NotifyFilledWakes DEF Typed
<1>5. /\ filler'[T(i)].pc = "idle"
      /\ \A u \in Thread : u # T(i) => filler'[u] = filler[u]
  <2>1. filler' = [filler EXCEPT ![T(i)] = [pc |-> "idle", data |-> NoData]]
    BY <1>2 DEF FillNotify
  <2> QED
    BY <2>1, ThreadOfInstrument DEF Typed, FillersTyped
<1>6. \/ publisher'[T(i)] = publisher[T(i)]
      \/ publisher[T(i)] = "wait" /\ publisher'[T(i)] = "check"
  BY <1>4, ThreadOfInstrument DEF PublishersWoken
<1>7. /\ Block(i)' = Block(i) /\ Position(i)' = Position(i) /\ PahoFor(i)' = PahoFor(i)
      /\ Coming(i)' = Coming(i) /\ (Buys(i)' <=> Buys(i))
  BY <1>1, SameForThread
<1>8. (Fetched(i)' <=> Fetched(i)) /\ (Cached(i)' <=> Cached(i))
  BY <1>1, <1>3, <1>5, <1>6, <1>7 DEF Fetched, Cached
<1>9. (Asked(i)' <=> Asked(i)) /\ (Served(i)' <=> Served(i))
  BY <1>1, <1>7, <1>8 DEF Asked, Served, InHand
<1>10. BuysOnce(i)'
  BY <1>1, <1>3, <1>5, <1>7 DEF BuysOnce
<1>11. PahoFor(i) = "idle" /\ ~Opening(i)
  <2>1. ~Opening(i)
    BY <1>3 DEF Opening
  <2> QED
    BY <1>2, <2>1 DEF Downloading
<1>12. Downloading(i)'
  BY <1>1, <1>2, <1>3, <1>6, <1>7, <1>8, <1>9, <1>10, <1>11 DEF Downloading
<1>13. OthersWoken(i)
  BY <1>1, <1>4, <1>5 DEF OthersWoken, PublishersWoken
<1> QED
  BY <1>1, <1>2, <1>9, <1>12, <1>13, ThreadStep

LEMMA FillSound ==
    ASSUME Typed, Sound, NEW t \in Thread, Fill(t)
    PROVE  Sound'
BY FillCheckSound, FillStoreSound, FillSendSound, FillNotifySound DEF Fill

-----------------------------------------------------------------------------
(* The steps of the thread that publishes from the cache. *)

LEMMA PublisherMoves ==
    ASSUME Typed, NEW i \in Instruments, NEW x, publisher' = [publisher EXCEPT ![T(i)] = x]
    PROVE  publisher'[T(i)] = x /\ \A u \in Thread : u # T(i) => publisher'[u] = publisher[u]
BY ThreadOfInstrument DEF Typed, PublishersTyped

\* It waits for the frame that the last command asks for.
LEMMA PublishWaitSound ==
    ASSUME Typed, Sound, NEW t \in Thread, PublishSpin(t) \/ PublishCheck(t)
    PROVE  Sound'
<1>1. /\ UNCHANGED <<app, cmds, msgs>> /\ UNCHANGED <<control, paho, actor, rx>>
      /\ UNCHANGED <<line, cache, filler>> /\ publisher[t] \in {"spin", "check"}
  BY DEF PublishSpin, PublishCheck
<1>2. PICK i \in Instruments : i = t[1] /\ t = T(i) /\ Fetching(i) /\ Downloading(i)
  BY <1>1, WorkingThread
<1>3. PICK x \in {"check", "wait", "publish"} :
        publisher' = [publisher EXCEPT ![T(i)] = x] /\ (x = "publish" => cache[i].reply # NoData)
  BY <1>2 DEF PublishSpin, PublishCheck
<1>4. publisher'[T(i)] = x /\ \A u \in Thread : u # T(i) => publisher'[u] = publisher[u]
  BY <1>3, PublisherMoves
<1>5. /\ Block(i)' = Block(i) /\ Position(i)' = Position(i) /\ PahoFor(i)' = PahoFor(i)
      /\ Coming(i)' = Coming(i) /\ (Buys(i)' <=> Buys(i))
  BY <1>1, SameForThread
<1>6. (Fetched(i)' <=> Fetched(i)) /\ (Cached(i)' <=> Cached(i))
  BY <1>1, <1>2, <1>3, <1>4, <1>5 DEF Fetched, Cached
<1>7. (Asked(i)' <=> Asked(i)) /\ (Served(i)' <=> Served(i)) /\ Asked(i)
  BY <1>1, <1>2, <1>5, <1>6 DEF Asked, Served, InHand, Downloading
<1>8. BuysOnce(i)'
  <2>1. BuysOnce(i)
    BY <1>2 DEF Downloading
  <2> QED
    BY <1>1, <1>5, <2>1 DEF BuysOnce
<1>9. PahoFor(i) = "idle" /\ ~Opening(i)
  <2>1. ~Opening(i)
    BY <1>1, <1>2 DEF Opening
  <2> QED
    BY <1>2, <2>1 DEF Downloading
<1>10. Downloading(i)'
  BY <1>1, <1>2, <1>3, <1>4, <1>5, <1>6, <1>7, <1>8, <1>9 DEF Downloading
<1>11. OthersWoken(i)
  BY <1>1, <1>4 DEF OthersWoken
<1> QED
  BY <1>1, <1>2, <1>7, <1>10, <1>11, ThreadStep

LEMMA PublishCachedSound ==
    ASSUME Typed, Sound, NEW t \in Thread, PublishCached(t)
    PROVE  Sound'
<1>1. /\ UNCHANGED <<app, cmds>> /\ UNCHANGED <<control, paho, actor, rx>>
      /\ UNCHANGED <<line, cache, filler>> /\ publisher[t] = "publish"
  BY DEF PublishCached
<1>2. PICK i \in Instruments : i = t[1] /\ t = T(i) /\ Fetching(i) /\ Downloading(i)
  BY <1>1, WorkingThread
<1> DEFINE s == app[i].script
           h == Handled(i)
           m == [topic |-> "msg", id |-> cache[i].id, data |-> cache[i].reply]
<1>3. Publish(i, m) /\ publisher' = [publisher EXCEPT ![T(i)] = "clear"]
  BY <1>2 DEF PublishCached, PublishReply
<1>4. publisher'[T(i)] = "clear" /\ \A u \in Thread : u # T(i) => publisher'[u] = publisher[u]
  BY <1>3, PublisherMoves
<1>5. /\ publisher[T(i)] = "publish" /\ Asked(i) /\ ~Opening(i) /\ Cached(i)
      /\ PahoFor(i) = "idle" /\ line[i].reserved /\ line[i].block = Block(i)
      /\ cache[i].reply = Frame(line[i].block,
                                IF Fetched(i) THEN line[i].pos - 1 ELSE line[i].pos)
  <2>1. publisher[T(i)] = "publish" /\ ~Opening(i)
    BY <1>1, <1>2 DEF Opening
  <2>2. cache[i].reply # NoData
    BY <1>2, <2>1 DEF Downloading
  <2> QED
    BY <1>2, <2>1, <2>2 DEF Downloading, Cached
<1>6. (IF Fetched(i) THEN line[i].pos - 1 ELSE line[i].pos) = Position(i)
  <2>1. line[i].pos + 1 = Position(i) + (IF Fetched(i) THEN 1 ELSE 0) + 1
    BY <1>5, DownloadTypes DEF Asked, InHand
  <2> QED
    BY <2>1, DownloadTypes
<1>7. Publishable(i, m)
  <2>1. h > 1 /\ s[h] = "next" /\ h \in Nat
    BY <1>2, HandledType DEF Fetching
  <2>2. Direct!Reply(s, h) = Frame(Block(i), Position(i))
    BY <2>1 DEF Direct!Reply, Block, Position, Frame
  <2>3. cache[i].id = h
    BY <2>1 DEF Sound, InstrumentSound
  <2>4. m.topic = "msg" /\ m.id = h /\ m.data = Direct!Reply(s, h) /\ h > 0
    BY <1>5, <1>6, <2>1, <2>2, <2>3
  <2> QED
    BY <2>4 DEF Publishable
<1>8. /\ Block(i)' = Block(i) /\ Position(i)' = Position(i) /\ PahoFor(i)' = PahoFor(i)
      /\ Coming(i)' = Coming(i) /\ (Buys(i)' <=> Buys(i))
  BY <1>1, SameForThread
<1>9. (Fetched(i)' <=> Fetched(i)) /\ Served(i)'
  <2>1. (Fetched(i)' <=> Fetched(i)) /\ ~Cached(i)'
    BY <1>1, <1>4, <1>8 DEF Fetched, Cached
  <2>2. line[i].pos = Position(i) + (IF Fetched(i) THEN 1 ELSE 0)
    BY <1>6, DownloadTypes
  <2>3. InHand(i)' = IF Fetched(i) THEN 1 ELSE 0
    BY <2>1 DEF InHand
  <2> QED
    BY <1>1, <1>8, <2>1, <2>2, <2>3 DEF Served
<1>10. BuysOnce(i)'
  <2>1. BuysOnce(i)
    BY <1>2 DEF Downloading
  <2> QED
    BY <1>1, <1>8, <2>1 DEF BuysOnce
<1>11. Downloading(i)'
  BY <1>1, <1>2, <1>4, <1>5, <1>8, <1>9, <1>10 DEF Downloading
<1>12. Stage(i)' /\ Answerable(i)'
  <2>1. Fetching(i)'
    BY <1>1, <1>2, SameCommands, SameScript
  <2> QED
    BY <1>9, <1>11, <2>1 DEF Stage, Answerable
<1>13. OthersWoken(i)
  BY <1>1, <1>4 DEF OthersWoken
<1>14. ServerSound'
  BY <1>1, <1>13, OthersSound DEF Sound, ServerSound
<1>15. ASSUME NEW j \in Instruments, j # i PROVE Elsewhere(j)
  BY <1>1, <1>13, <1>15, OthersSound, SamePaho, SameActor, SameReplies DEF Elsewhere, Sound
<1> HIDE DEF m
<1> QED
  BY <1>1, <1>3, <1>5, <1>7, <1>12, <1>14, <1>15, PublishSound

LEMMA PublishClearSound ==
    ASSUME Typed, Sound, NEW t \in Thread, PublishClear(t)
    PROVE  Sound'
<1>1. /\ UNCHANGED <<app, cmds, msgs>> /\ UNCHANGED <<control, paho, actor, rx>>
      /\ UNCHANGED line /\ publisher[t] = "clear" /\ NotifyEmpty
  BY DEF PublishClear
<1>2. PICK i \in Instruments : i = t[1] /\ t = T(i) /\ Fetching(i) /\ Downloading(i)
  BY <1>1, WorkingThread
<1>3. publisher'[T(i)] = "idle" /\ \A u \in Thread : u # T(i) => publisher'[u] = publisher[u]
  BY <1>2, PublisherMoves DEF PublishClear
<1>4. FillersWoken
  BY <1>1, NotifyEmptyWakes DEF Typed
<1>5. /\ filler'[T(i)].data = filler[T(i)].data
      /\ \/ filler'[T(i)].pc = filler[T(i)].pc
         \/ filler[T(i)].pc = "wait" /\ filler'[T(i)].pc = "check"
  <2>1. T(i) \in Thread /\ filler[T(i)] \in Filler
    BY ThreadOfInstrument DEF Typed, FillersTyped
  <2> QED
    BY <1>4, <2>1 DEF FillersWoken, Filler
<1>6. /\ cache'[i] = [cache[i] EXCEPT !.reply = NoData]
      /\ \A j \in Instruments : j # i => cache'[j] = cache[j]
  BY <1>2 DEF PublishClear, Typed, MainTyped
<1>7. /\ cache'[i].lease = cache[i].lease /\ cache'[i].ahead = cache[i].ahead
      /\ cache'[i].first = cache[i].first /\ cache'[i].id = cache[i].id
      /\ cache'[i].reply = NoData
  BY <1>6 DEF Typed, MainTyped, Cache
<1>8. /\ Block(i)' = Block(i) /\ Position(i)' = Position(i) /\ PahoFor(i)' = PahoFor(i)
      /\ Coming(i)' = Coming(i) /\ (Buys(i)' <=> Buys(i))
  BY <1>1, SameForThread
<1>9. (Fetched(i)' <=> Fetched(i)) /\ (Cached(i)' <=> Cached(i))
  BY <1>1, <1>2, <1>5, <1>7, <1>8 DEF Fetched, Cached
<1>10. (Asked(i)' <=> Asked(i)) /\ (Served(i)' <=> Served(i))
  BY <1>1, <1>8, <1>9 DEF Asked, Served, InHand
<1>11. BuysOnce(i)'
  <2>1. BuysOnce(i)
    BY <1>2 DEF Downloading
  <2> QED
    BY <1>1, <1>5, <1>7, <1>8, <2>1 DEF BuysOnce
<1>12. PahoFor(i) = "idle" /\ ~Opening(i)
  <2>1. ~Opening(i)
    BY <1>1, <1>2 DEF Opening
  <2> QED
    BY <1>2, <2>1 DEF Downloading
<1>13. Downloading(i)'
  BY <1>1, <1>2, <1>3, <1>7, <1>8, <1>9, <1>10, <1>11, <1>12 DEF Downloading
<1>14. OthersWoken(i)
  BY <1>3, <1>4 DEF OthersWoken, FillersWoken
<1> QED
  BY <1>1, <1>2, <1>6, <1>7, <1>10, <1>13, <1>14, ThreadStep

LEMMA PublisherSound ==
    ASSUME Typed, Sound, NEW t \in Thread, PublishFunction(t)
    PROVE  Sound'
BY PublishWaitSound, PublishCachedSound, PublishClearSound DEF PublishFunction

-----------------------------------------------------------------------------
(* The steps of a slow instrument. *)

LEMMA DeviceAtRest ==
    ASSUME Typed, NEW i \in Instruments, Device(i), "instrument" \in Slow
    PROVE  /\ paho = Idle /\ actor = Idle /\ rx = <<>> /\ filler[T(i)].pc \in {"idle", "wait"}
           /\ UNCHANGED <<app, cmds, msgs>> /\ UNCHANGED <<control, paho, actor>>
           /\ UNCHANGED <<cache, publisher, filler>>
           /\ line[i].inbox # <<>>
<1>1. AtRest
  BY DEF Device
<1>2. paho = Idle /\ actor = Idle
  BY <1>1 DEF AtRest, Typed, MainTyped
<1> QED
  BY <1>1, <1>2, ThreadOfInstrument DEF AtRest, Device

LEMMA EmptyInbox ==
    ASSUME NEW L \in Line
    PROVE  LET rest == [L EXCEPT !.inbox = <<>>] IN
           /\ rest.inbox = <<>> /\ rest.reserved = L.reserved /\ rest.block = L.block
           /\ rest.pos = L.pos /\ rest \in Line
<1>1. <<>> \in Seq(Commands \cup {"empty"})
  OBVIOUS
<1> QED
  BY <1>1 DEF Line

LEMMA LineFields ==
    ASSUME NEW L \in Line
    PROVE  /\ \A b : LET M == [L EXCEPT !.reserved = b] IN
                    M.reserved = b /\ M.inbox = L.inbox /\ M.block = L.block /\ M.pos = L.pos
           /\ LET M == [L EXCEPT !.pos = @ + 1] IN
                 /\ M.reserved = L.reserved /\ M.inbox = L.inbox
                 /\ M.block = L.block /\ M.pos = L.pos + 1
           /\ LET M == [L EXCEPT !.block = @ + 1, !.pos = 0] IN
                 /\ M.reserved = L.reserved /\ M.inbox = L.inbox
                 /\ M.block = L.block + 1 /\ M.pos = 0
BY DEF Line

LEMMA DeviceReplies ==
    ASSUME Typed, NEW i \in Instruments, Device(i), "instrument" \in Slow,
           NEW x, line[i].inbox = <<x>>
    PROVE  /\ line'[i].inbox = <<>>
           /\ \A j \in Instruments : j # i => line'[j] = line[j]
           /\ x = "reserve" =>
                /\ line'[i].reserved
                /\ line'[i].block = line[i].block /\ line'[i].pos = line[i].pos
                /\ rx' = <<[instr |-> i, kind |-> "status", data |-> NoData]>>
           /\ x = "next" /\ line[i].reserved =>
                /\ line'[i].reserved
                /\ line'[i].block = line[i].block /\ line'[i].pos = line[i].pos + 1
                /\ rx' = <<[instr |-> i, kind |-> "data",
                            data |-> Frame(line[i].block, line[i].pos + 1)]>>
           /\ x = "other" /\ line[i].reserved =>
                /\ line'[i].reserved
                /\ line'[i].block = line[i].block + 1 /\ line'[i].pos = 0
                /\ rx' = <<[instr |-> i, kind |-> "data",
                            data |-> <<"other", line[i].block + 1>>]>>
<1> DEFINE L == line[i]
           rest == [L EXCEPT !.inbox = <<>>]
<1>1. line \in [Instruments -> Line] /\ L \in Line /\ rx = <<>>
  BY DeviceAtRest DEF Typed, OutsideTyped
<1>2. /\ rest.inbox = <<>> /\ rest.reserved = L.reserved /\ rest.block = L.block
      /\ rest.pos = L.pos /\ rest \in Line
  BY <1>1, EmptyInbox
<1>3. Head(L.inbox) = x /\ Tail(L.inbox) = <<>>
  OBVIOUS
<1>4. \/ /\ x \in Control
         /\ line' = [line EXCEPT ![i] = [rest EXCEPT !.reserved = x = "reserve"]]
         /\ rx' = <<[instr |-> i, kind |-> "status", data |-> NoData]>>
      \/ /\ x = "next" /\ L.reserved
         /\ line' = [line EXCEPT ![i] = [rest EXCEPT !.pos = @ + 1]]
         /\ rx' = <<[instr |-> i, kind |-> "data", data |-> <<"frame", rest.block, rest.pos + 1>>]>>
      \/ /\ x = "other" /\ L.reserved
         /\ line' = [line EXCEPT ![i] = [rest EXCEPT !.block = @ + 1, !.pos = 0]]
         /\ rx' = <<[instr |-> i, kind |-> "data", data |-> <<"other", rest.block + 1>>]>>
      \/ /\ x = "empty"
         /\ line' = [line EXCEPT ![i] = rest]
      \/ /\ x \notin Control /\ ~L.reserved
         /\ line' = [line EXCEPT ![i] = rest]
  <2>1. \A m : Append(rx, m) = <<m>>
    BY <1>1
  <2> QED
    BY <1>3, <2>1 DEF Device, ToFrontend
<1> HIDE DEF rest
<1>5. CASE x \in Control
  <2>1. line' = [line EXCEPT ![i] = [rest EXCEPT !.reserved = x = "reserve"]]
        /\ rx' = <<[instr |-> i, kind |-> "status", data |-> NoData]>>
    BY <1>4, <1>5 DEF Control
  <2>2. line'[i] = [rest EXCEPT !.reserved = x = "reserve"]
        /\ \A j \in Instruments : j # i => line'[j] = line[j]
    BY <1>1, <2>1
  <2>3. /\ line'[i].inbox = <<>> /\ line'[i].reserved = (x = "reserve")
        /\ line'[i].block = L.block /\ line'[i].pos = L.pos
    BY <1>2, <2>2, LineFields
  <2>4. x # "next" /\ x # "other"
    BY <1>5 DEF Control
  <2> QED
    BY <2>1, <2>2, <2>3, <2>4
<1>6. CASE x = "next"
  <2>1. CASE L.reserved
    <3>1. /\ line' = [line EXCEPT ![i] = [rest EXCEPT !.pos = @ + 1]]
          /\ rx' = <<[instr |-> i, kind |-> "data",
                      data |-> <<"frame", rest.block, rest.pos + 1>>]>>
      BY <1>4, <1>6, <2>1 DEF Control
    <3>2. line'[i] = [rest EXCEPT !.pos = @ + 1]
          /\ \A j \in Instruments : j # i => line'[j] = line[j]
      BY <1>1, <3>1
    <3>3. /\ line'[i].inbox = <<>> /\ line'[i].reserved = L.reserved
          /\ line'[i].block = L.block /\ line'[i].pos = L.pos + 1
      BY <1>2, <3>2, LineFields
    <3>4. <<"frame", rest.block, rest.pos + 1>> = Frame(L.block, L.pos + 1)
      BY <1>2 DEF Frame
    <3> QED
      BY <1>6, <2>1, <3>1, <3>2, <3>3, <3>4
  <2>2. CASE ~L.reserved
    BY <1>1, <1>2, <1>4, <1>6, <2>2 DEF Control
  <2> QED
    BY <2>1, <2>2
<1>7. CASE x = "other"
  <2>1. CASE L.reserved
    <3>1. /\ line' = [line EXCEPT ![i] = [rest EXCEPT !.block = @ + 1, !.pos = 0]]
          /\ rx' = <<[instr |-> i, kind |-> "data", data |-> <<"other", rest.block + 1>>]>>
      BY <1>4, <1>7, <2>1 DEF Control
    <3>2. line'[i] = [rest EXCEPT !.block = @ + 1, !.pos = 0]
          /\ \A j \in Instruments : j # i => line'[j] = line[j]
      BY <1>1, <3>1
    <3>3. /\ line'[i].inbox = <<>> /\ line'[i].reserved = L.reserved
          /\ line'[i].block = L.block + 1 /\ line'[i].pos = 0
      BY <1>2, <3>2, LineFields
    <3>4. <<"other", rest.block + 1>> = <<"other", L.block + 1>>
      BY <1>2
    <3> QED
      BY <1>7, <2>1, <3>1, <3>2, <3>3, <3>4
  <2>2. CASE ~L.reserved
    BY <1>1, <1>2, <1>4, <1>7, <2>2 DEF Control
  <2> QED
    BY <2>1, <2>2
<1>8. CASE x \notin Control \cup {"next", "other"}
  BY <1>1, <1>2, <1>4, <1>8 DEF Control
<1> QED
  BY <1>5, <1>6, <1>7, <1>8 DEF Control

LEMMA DeviceStep ==
    ASSUME Typed, Sound, NEW i \in Instruments, Device(i), "instrument" \in Slow,
           NEW kind \in {"status", "data"}, NEW data,
           rx' = <<[instr |-> i, kind |-> kind, data |-> data]>>,
           line'[i].reserved, \A j \in Instruments : j # i => line'[j] = line[j],
           Stage(i)', Answerable(i) => Answerable(i)'
    PROVE  Sound'
<1>1. /\ rx = <<>> /\ UNCHANGED <<app, cmds, msgs>> /\ UNCHANGED <<control, paho, actor>>
      /\ UNCHANGED <<cache, publisher, filler>>
  BY DeviceAtRest
<1>2. Head(rx').instr = i /\ Len(rx') <= 1
  OBVIOUS
<1>3. ASSUME NEW j \in Instruments, j # i
      PROVE  Coming(j) = {} /\ Coming(j)' = {} /\ ~Comes(j) /\ ~Comes(j)'
  BY <1>1, <1>2, <1>3 DEF Comes, Coming
<1>4. ASSUME NEW j \in Instruments, j # i PROVE Silent(j) /\ Alike(j)
  BY <1>1, <1>3, <1>4, SameCommands, SamePaho, SameActor, NobodyWoken DEF Silent, Alike
<1>5. ServerSound' /\ CommandsSound'
  BY <1>1, <1>2, SameCommands DEF Sound, ServerSound
<1>6. InstrumentSound(i)'
  <2>1. Handled(i)' = Handled(i) /\ InstrumentSound(i)
    BY <1>1, SameCommands DEF Sound
  <2>2. SessionSound(i)' /\ Announced(i)'
    BY <1>1, <2>1 DEF InstrumentSound, SessionSound, Announced
  <2>3. MessagesSound(i)'
    BY <1>1, <2>1 DEF InstrumentSound, MessagesSound
  <2> QED
    BY <1>1, <2>1, <2>2, <2>3 DEF InstrumentSound
<1> QED
  BY <1>4, <1>5, <1>6, SoundStep

\* What the reply is to the actor.
LEMMA ReplyComes ==
    ASSUME NEW i \in Instruments, NEW kind, NEW data,
           rx' = <<[instr |-> i, kind |-> kind, data |-> data]>>
    PROVE  Coming(i)' = IF kind = "data" THEN {data} ELSE {}
<1>1. /\ rx' # <<>> /\ Head(rx').instr = i /\ Head(rx').kind = kind /\ Head(rx').data = data
  OBVIOUS
<1> QED
  BY <1>1 DEF Coming, Comes

LEMMA DeviceSound ==
    ASSUME OneDownload, "instrument" \in Slow, Typed, Sound, NEW i \in Instruments, Device(i)
    PROVE  Sound'
<1>1. /\ paho = Idle /\ actor = Idle /\ rx = <<>> /\ filler[T(i)].pc \in {"idle", "wait"}
      /\ UNCHANGED <<app, cmds, msgs>> /\ UNCHANGED <<control, paho, actor>>
      /\ UNCHANGED <<cache, publisher, filler>> /\ line[i].inbox # <<>>
  BY DeviceAtRest
<1>2. /\ PahoFor(i) = "idle" /\ PahoFor(i)' = "idle" /\ ~Buys(i) /\ ~Buys(i)'
      /\ Coming(i) = {}
  BY <1>1 DEF PahoFor, Buys, Coming, Comes, Idle, At
<1>3. /\ Handled(i)' = Handled(i) /\ (Fetching(i)' <=> Fetching(i)) /\ Block(i)' = Block(i)
      /\ Position(i)' = Position(i) /\ app'[i].script = app[i].script
  BY <1>1, SameCommands, SameScript
<1>4. CASE Fetching(i)
  <2>1. Downloading(i)
    BY <1>4, StageFacts
  <2>2. line[i].inbox = <<"next">> /\ filler[T(i)].pc = "idle" /\ line[i].reserved
    BY <1>1, <1>2, <2>1 DEF Downloading, BuysOnce
  <2>3. /\ line'[i].inbox = <<>> /\ line'[i].reserved
        /\ line'[i].block = line[i].block /\ line'[i].pos = line[i].pos + 1
        /\ rx' = <<[instr |-> i, kind |-> "data",
                    data |-> Frame(line[i].block, line[i].pos + 1)]>>
        /\ \A j \in Instruments : j # i => line'[j] = line[j]
    BY <1>1, <2>2, DeviceReplies
  <2>4. Coming(i)' = {Frame(line'[i].block, line'[i].pos)}
    BY <2>3, ReplyComes
  <2>5. ~Fetched(i) /\ Fetched(i)' /\ (Cached(i)' <=> Cached(i))
    BY <1>1, <1>2, <2>2, <2>4 DEF Fetched, Cached
  <2>6. InHand(i)' = InHand(i) + 1
    BY <2>5 DEF InHand
  <2>7. (Asked(i) => Asked(i)') /\ (Served(i) => Served(i)')
    <3>1. line'[i].pos = line[i].pos + 1 /\ Position(i)' = Position(i)
      BY <1>3, <2>3
    <3>2. /\ line[i].pos + 1 = Position(i) + InHand(i)
               => (line[i].pos + 1) + 1 = Position(i) + (InHand(i) + 1)
          /\ line[i].pos = Position(i) + InHand(i)
               => line[i].pos + 1 = Position(i) + (InHand(i) + 1)
      <4> HIDE DEF InHand
      <4> QED
        BY DownloadTypes
    <3> QED
      BY <2>6, <3>1, <3>2 DEF Asked, Served
  <2>8. BuysOnce(i)'
    BY <1>1, <1>2, <2>2, <2>3, <2>4 DEF BuysOnce
  <2>9. cache'[i].reply # NoData =>
          cache'[i].reply = Frame(line'[i].block, line'[i].pos - 1)
    <3>1. cache[i].reply # NoData => cache[i].reply = Frame(line[i].block, line[i].pos)
      BY <2>1, <2>5 DEF Downloading
    <3>2. line'[i].block = line[i].block /\ line'[i].pos - 1 = line[i].pos
      BY <2>3, DownloadTypes
    <3> QED
      BY <1>1, <3>1, <3>2
  <2>10. Opening(i) => Opening(i)'
    BY <1>1, <2>7 DEF Opening
  <2>11. Downloading(i)'
    BY <1>1, <1>2, <1>3, <2>1, <2>3, <2>5, <2>7, <2>8, <2>9, <2>10 DEF Downloading
  <2>12. Stage(i)' /\ (Answerable(i) => Answerable(i)')
    BY <1>3, <1>4, <2>7, <2>11 DEF Stage, Answerable
  <2> QED
    BY <2>3, <2>12, DeviceStep
<1>5. CASE ~Fetching(i) /\ Reserving(i)
  <2>1. /\ line[i].inbox = <<"reserve">> /\ Handled(i) = 1 /\ line[i].block = 0
        /\ Quiet(i) /\ line[i].pos = 0 /\ ~Done(i)
    BY <1>5, StageFacts DEF Reserving, Quiet, Done
  <2>2. /\ line'[i].inbox = <<>> /\ line'[i].reserved /\ line'[i].block = 0 /\ line'[i].pos = 0
        /\ rx' = <<[instr |-> i, kind |-> "status", data |-> NoData]>>
        /\ \A j \in Instruments : j # i => line'[j] = line[j]
    BY <2>1, DeviceReplies
  <2>3. Coming(i)' = {}
    BY <2>2, ReplyComes
  <2>4. Block(i) = 0
    <3>1. app[i].script \in Scripts /\ 1 \in 1 .. Len(app[i].script)
      <4>1. /\ app[i].script \in Scripts /\ app[i].sent \in 0 .. Len(app[i].script)
            /\ Len(app[i].script) \in Nat
        BY SessionTypes DEF Sound, InstrumentSound, SessionSound
      <4>2. app[i].sent >= 1
        BY <2>1, HandledType
      <4> QED
        BY <4>1, <4>2
    <3>2. app[i].script[1] = "reserve"
      BY <3>1, ScriptShape
    <3> QED
      BY <2>1, <3>2, BlockStart DEF Block
  <2>5. Done(i)'
    BY <1>2, <1>3, <2>1, <2>2, <2>3, <2>4 DEF Done
  <2>6. Quiet(i)'
    BY <1>1, <1>2, <1>3, <2>1, <2>2, <2>5 DEF Quiet
  <2>7. Stage(i)' /\ (Answerable(i) => Answerable(i)')
    BY <1>3, <1>5, <2>5, <2>6 DEF Stage, Answerable
  <2> QED
    BY <2>2, <2>7, DeviceStep
<1>6. CASE ~Fetching(i) /\ Selecting(i)
  <2>1. /\ line[i].inbox = <<"other">> /\ line[i].reserved /\ line[i].block + 1 = Block(i)
        /\ Handled(i) > 1 /\ Quiet(i) /\ ~Done(i)
    BY <1>1, <1>2, <1>6, StageFacts DEF Selecting, Quiet, Done
  <2>2. /\ line'[i].inbox = <<>> /\ line'[i].reserved
        /\ line'[i].block = Block(i) /\ line'[i].pos = 0
        /\ rx' = <<[instr |-> i, kind |-> "data", data |-> <<"other", Block(i)>>]>>
        /\ \A j \in Instruments : j # i => line'[j] = line[j]
    BY <2>1, DeviceReplies
  <2>3. Coming(i)' = {<<"other", Block(i)>>}
    BY <2>2, ReplyComes
  <2>4. Selecting(i)'
    BY <1>2, <1>3, <2>1, <2>2, <2>3 DEF Selecting
  <2>5. Quiet(i)'
    BY <1>1, <1>2, <1>3, <2>1, <2>2, <2>4 DEF Quiet
  <2>6. Stage(i)' /\ (Answerable(i) => Answerable(i)')
    BY <1>3, <1>6, <2>1, <2>5 DEF Stage, Answerable
  <2> QED
    BY <2>2, <2>6, DeviceStep
<1> QED
  BY <1>1, <1>4, <1>5, <1>6, StageFacts DEF Quiet, Done

-----------------------------------------------------------------------------
(* What the steps keep. *)

LEMMA NextSound ==
    ASSUME OneDownload, "instrument" \in Slow, Typed, Sound, [Next]_vars
    PROVE  Sound'
<1>1. CASE UNCHANGED vars
  <2>1. /\ UNCHANGED <<app, cmds, msgs>> /\ UNCHANGED <<control, paho, actor, rx>>
        /\ UNCHANGED <<line, cache, publisher, filler>>
    BY <1>1 DEF vars, server
  <2>2. \A j \in Instruments : Elsewhere(j)
    BY <2>1, SamePaho, SameActor, SameReplies, NobodyWoken DEF Elsewhere
  <2>3. ServerSound'
    BY <2>1 DEF Sound, ServerSound
  <2> QED
    BY <2>1, <2>2, <2>3, ElsewhereSound
<1> QED
  BY <1>1, AppSendSound, AppReceiveReservationSound, AppReceiveMsgSound, DeviceSound,
     PahoSound, ActorSound, FillSound, PublisherSound DEF Next, App

LEMMA SoundIsAnswersMatch == Typed /\ Sound => AnswersMatch
<1> SUFFICES ASSUME Typed, Sound, NEW i \in Instruments, NEW j \in DOMAIN app[i].got
             PROVE  app[i].got[j] = Direct!Reply(app[i].script, j)
  BY DEF AnswersMatch
<1>1. SessionSound(i)
  BY DEF Sound, InstrumentSound
<1>2. j \in 1 .. Len(app[i].got)
  BY <1>1, SessionTypes, LenProperties
<1> QED
  BY <1>1, <1>2 DEF SessionSound

\* In a session that is one download every answer is the one that a direct line
\* gives, whichever way the threads of the frontend interleave: no frame of the
\* download is lost, repeated or swapped on its way through the cache.  The
\* instrument is slow: it replies when the threads have come to rest.
THEOREM DownloadsMatch ==
    ASSUME OneDownload, "instrument" \in Slow
    PROVE  Spec => []AnswersMatch
<1>1. Init => Typed /\ Sound
  BY InitTyped, InitSound
<1>2. Typed /\ Sound /\ [Next]_vars => (Typed /\ Sound)'
  BY NextTyped, NextSound
<1>3. Typed /\ Sound => AnswersMatch
  BY SoundIsAnswersMatch
<1> QED
  BY <1>1, <1>2, <1>3, PTL DEF Spec

-----------------------------------------------------------------------------
(* The frontend implements the direct line. *)

LEMMA StepOnDirectLine ==
    ASSUME OneDownload, "instrument" \in Slow, Typed, Sound, [Next]_vars
    PROVE  [Direct!Next]_app
<1>1. CASE UNCHANGED vars
  BY <1>1 DEF vars
<1>2. ASSUME NEW i \in Instruments, AppSend(i) PROVE Direct!Next
  BY <1>2 DEF AppSend, Direct!Next
<1>3. ASSUME NEW i \in Instruments, AppReceiveReservation(i) \/ AppReceiveMsg(i)
      PROVE  [Direct!Next]_app
  <2>1. UNCHANGED app \/ \E answer : Answers(i, answer)
    BY <1>3, AppReceiveReservationSound, AppReceiveMsgSound
  <2>2. (\E answer : Answers(i, answer)) => Direct!Answer(i)
    BY DEF Answers, Answered, Direct!Answer
  <2> QED
    BY <2>1, <2>2 DEF Direct!Next
<1>4. ASSUME NEW i \in Instruments, Device(i) PROVE UNCHANGED app
  BY <1>4 DEF Device
<1>5. Paho => UNCHANGED app
  BY DEF Paho, OnControl, ReplaceCache, OnFirstGetNext, RememberGetNext, MarkFirst, OnGetNext,
         OnOtherCmd, ForgetGetNext, ClearCache
<1>6. Actor => UNCHANGED app
  BY DEF Actor, ReceiveReservationStatus, UnsetControl, WakeFiller, WakePublisher,
         ReceiveReply, ReceiveFirstReply, StartBuyAhead, ReceiveBoughtReply
<1>7. ASSUME NEW t \in Thread, Fill(t) \/ PublishFunction(t) PROVE UNCHANGED app
  BY <1>7 DEF Fill, FillCheck, FillStore, FillSend, FillNotify,
              PublishFunction, PublishSpin, PublishCheck, PublishCached, PublishClear
<1> QED
  BY <1>1, <1>2, <1>3, <1>4, <1>5, <1>6, <1>7 DEF Next, App

\* In a session that is one download the application cannot tell the frontend
\* from a direct line to the instrument: it begins like one, and every step is a
\* step of the direct line or none at all.  That the answers come is not said.
THEOREM DownloadsOnDirectLine ==
    ASSUME OneDownload, "instrument" \in Slow
    PROVE  Spec => Direct!Init /\ [][Direct!Next]_app
<1>1. Init => Typed /\ Sound /\ Direct!Init
  BY InitTyped, InitSound DEF Init
<1>2. Typed /\ Sound /\ [Next]_vars => (Typed /\ Sound)'
  BY NextTyped, NextSound
<1>3. Typed /\ Sound /\ [Next]_vars => [Direct!Next]_app
  BY StepOnDirectLine
<1> QED
  BY <1>1, <1>2, <1>3, PTL DEF Spec

-----------------------------------------------------------------------------
(* One reservation per session, whatever the speed of the outside. *)

\* A session reserves its instrument with its first command and never again.
OneReservation == \A s \in Scripts : \A k \in 1 .. Len(s) : s[k] \in Control => k = 1

OneInstrument == \A i, j \in Instruments : i = j

\* The commands at the paho thread are in the order of their sessions.
Numbered ==
    /\ \A i \in Instruments : app[i].sent <= Len(app[i].script)
    /\ \A k \in 1 .. Len(cmds) :
        LET c == cmds[k] IN c.id \in 1 .. app[c.instr].sent /\ c.cmd = app[c.instr].script[c.id]
    /\ \A k, l \in 1 .. Len(cmds) :
        cmds[k].instr = cmds[l].instr /\ k < l => cmds[k].id < cmds[l].id

Unreserved(i) ==
    app[i].sent = 0 \/ \E k \in 1 .. Len(cmds) : cmds[k].instr = i /\ cmds[k].id = 1

\* The reservation has one cache and one thread of either kind.
Leased(i) ==
    /\ cache[i].lease + (IF PahoFor(i) = "replace" THEN 1 ELSE 0) =
         IF Unreserved(i) THEN 0 ELSE 1
    /\ cache[i].ahead \/ PahoFor(i) = "ahead" => cache[i].lease = 1
    /\ cache[i].lease = 0 => filler[T(i)].pc = "idle" /\ publisher[T(i)] = "idle"

\* What its threads wait for, and who is about to wake them.
Watched(i) ==
    /\ filler[T(i)].pc = "store" => cache[i].reply = NoData
    /\ OneInstrument /\ filler[T(i)].pc = "wait" => cache[i].reply # NoData
    /\ OneInstrument /\ publisher[T(i)] = "wait" =>
         cache[i].reply = NoData \/ filler[T(i)].pc \in {"send", "notify"}

\* The inductive invariant.
Single == Numbered /\ OnlyFirst /\ \A i \in Instruments : Leased(i) /\ Watched(i)

LEMMA InitSingle == Init => Single
<1> SUFFICES ASSUME Init PROVE Single
  OBVIOUS
<1>1. \A i \in Instruments : app[i].sent = 0 /\ app[i].script \in Seq(Commands)
  BY SessionAssumption DEF Init, Direct!Init
<1>2. Numbered
  BY <1>1 DEF Init, Numbered
<1>3. ASSUME NEW i \in Instruments PROVE Leased(i) /\ Watched(i)
  <2>1. /\ cache[i] = Fresh(0) /\ filler[T(i)].pc = "idle" /\ publisher[T(i)] = "idle"
        /\ PahoFor(i) = "idle" /\ Unreserved(i)
    BY <1>1, ThreadOfInstrument DEF Init, PahoFor, Unreserved, Idle
  <2> QED
    BY <2>1 DEF Leased, Watched, Fresh
<1> QED
  BY <1>2, <1>3 DEF Init, Single, OnlyFirst

\* Steps that leave the commands alone.
LEMMA SameNumbers ==
    ASSUME Numbered, UNCHANGED cmds, \A k \in 1 .. Len(cmds) : cmds[k].instr \in Instruments,
           \A i \in Instruments : app'[i].script = app[i].script /\ app'[i].sent = app[i].sent
    PROVE  Numbered' /\ \A i \in Instruments : Unreserved(i)' <=> Unreserved(i)
BY DEF Numbered, Unreserved

LEMMA SameApp ==
    ASSUME Typed, Single, UNCHANGED <<app, cmds>>
    PROVE  Numbered' /\ \A i \in Instruments : Unreserved(i)' <=> Unreserved(i)
BY DEF Single, Numbered, Unreserved

\* Of an instrument that a step is not about, threads may be woken.
Aside(i) ==
    /\ cache'[i] = cache[i] /\ PahoFor(i)' = PahoFor(i) /\ (Unreserved(i)' <=> Unreserved(i))
    /\ Woken(i)

LEMMA AsideKeeps ==
    ASSUME Typed, NEW i \in Instruments, Leased(i), Watched(i), Aside(i)
    PROVE  Leased(i)' /\ Watched(i)'
<1>1. /\ \/ filler'[T(i)].pc = filler[T(i)].pc
         \/ filler[T(i)].pc = "wait" /\ filler'[T(i)].pc = "check"
      /\ \/ publisher'[T(i)] = publisher[T(i)]
         \/ publisher[T(i)] = "wait" /\ publisher'[T(i)] = "check"
  <2>1. filler[T(i)] \in Filler
    BY ThreadOfInstrument DEF Typed, FillersTyped
  <2> QED
    BY <2>1 DEF Aside, Woken, Filler
<1>2. Leased(i)'
  BY <1>1 DEF Aside, Leased
<1>3. Watched(i)'
  BY <1>1 DEF Aside, Watched
<1> QED
  BY <1>2, <1>3

LEMMA AsideSingle ==
    ASSUME Typed, Single, Numbered', UNCHANGED <<cache, paho>>, FillersWoken, PublishersWoken,
           \A i \in Instruments : Unreserved(i)' <=> Unreserved(i)
    PROVE  Single'
<1>1. OnlyFirst' /\ \A i \in Instruments : Woken(i)
  BY WokenThreads DEF Single, OnlyFirst
<1>2. \A i \in Instruments : Aside(i)
  BY <1>1, SamePaho DEF Aside
<1> QED
  BY <1>1, <1>2, AsideKeeps DEF Single

LEMMA SingleStep ==
    ASSUME Typed, Single, NEW i \in Instruments, Numbered', OthersWoken(i),
           Leased(i)', Watched(i)',
           \A j \in Instruments : j # i => /\ cache'[j] = cache[j] /\ PahoFor(j)' = PahoFor(j)
                                           /\ (Unreserved(j)' <=> Unreserved(j))
    PROVE  Single'
<1>1. OnlyFirst' /\ \A j \in Instruments : j # i => Woken(j)
  BY OthersIdle DEF Single
<1>2. \A j \in Instruments : j # i => Aside(j)
  BY <1>1 DEF Aside
<1> QED
  BY <1>1, <1>2, AsideKeeps DEF Single

LEMMA AppSingle ==
    ASSUME Typed, Single, NEW i \in Instruments, App(i)
    PROVE  Single'
<1>1. /\ app \in [Instruments -> Session] /\ cmds \in Seq(Command)
      /\ Numbered /\ \A k \in 1 .. Len(cmds) : cmds[k].instr \in Instruments
  <2>1. app \in [Instruments -> Session] /\ cmds \in Seq(Command)
    BY DEF Typed, OutsideTyped
  <2>2. \A k \in 1 .. Len(cmds) : cmds[k] \in Command
    BY <2>1
  <2> QED
    BY <2>1, <2>2 DEF Command, Single
<1>2. /\ UNCHANGED <<cache, paho>> /\ FillersWoken /\ PublishersWoken
  BY DEF App, AppSend, AppReceiveReservation, AppReceiveMsg, Receives, server,
         FillersWoken, PublishersWoken
<1>3. CASE AppSend(i)
  <2> DEFINE n == app[i].sent + 1
             c == [instr |-> i, id |-> n, cmd |-> app[i].script[n]]
  <2>1. /\ app[i].sent < Len(app[i].script)
        /\ app' = [app EXCEPT ![i].sent = n, ![i].pending = TRUE]
    BY <1>3 DEF AppSend, Direct!Send
  <2>2. /\ app'[i].script = app[i].script /\ app'[i].sent = n /\ app[i].sent \in Nat
        /\ \A j \in Instruments : j # i => app'[j] = app[j]
        /\ \A j \in Instruments : app'[j].script = app[j].script /\ app[j].sent \in Nat
        /\ \A j \in Instruments : app'[j].sent = IF j = i THEN n ELSE app[j].sent
    BY <1>1, <2>1 DEF Session
  <2>3. cmds' = Append(cmds, c)
    BY <1>3, <2>2 DEF AppSend
  <2>4. /\ Len(cmds') = Len(cmds) + 1 /\ Len(cmds) \in Nat
        /\ \A k \in 1 .. Len(cmds) : cmds'[k] = cmds[k]
        /\ cmds'[Len(cmds) + 1] = c
        /\ \A k \in 1 .. Len(cmds') : k \in 1 .. Len(cmds) \/ k = Len(cmds) + 1
    BY <1>1, <2>3
  <2>5. c.instr = i /\ c.id = n /\ c.cmd = app[i].script[n]
    OBVIOUS
  <2> HIDE DEF c
  <2>6. Numbered'
    <3>1. ASSUME NEW j \in Instruments PROVE app'[j].sent <= Len(app'[j].script)
      <4>1. app[j].script \in Scripts /\ Len(app[j].script) \in Nat
        BY <1>1, SessionAssumption DEF Session
      <4>2. app[j].sent <= Len(app[j].script)
        BY <1>1 DEF Numbered
      <4>3. j = i => app'[j].sent = app[j].sent + 1 /\ app[j].sent < Len(app[j].script)
        BY <2>1, <2>2
      <4>4. j # i => app'[j].sent = app[j].sent
        BY <2>2
      <4> QED
        BY <2>2, <4>1, <4>2, <4>3, <4>4
    <3>2. ASSUME NEW k \in 1 .. Len(cmds')
          PROVE  /\ cmds'[k].id \in 1 .. app'[cmds'[k].instr].sent
                 /\ cmds'[k].cmd = app'[cmds'[k].instr].script[cmds'[k].id]
      <4>1. CASE k \in 1 .. Len(cmds)
        <5>1. /\ cmds'[k] = cmds[k] /\ cmds[k].instr \in Instruments
              /\ cmds[k].id \in 1 .. app[cmds[k].instr].sent
              /\ cmds[k].cmd = app[cmds[k].instr].script[cmds[k].id]
          BY <1>1, <2>4, <4>1 DEF Numbered
        <5>2. /\ app'[cmds[k].instr].script = app[cmds[k].instr].script
              /\ app[cmds[k].instr].sent \in Nat
              /\ \/ app'[cmds[k].instr].sent = app[cmds[k].instr].sent
                 \/ app'[cmds[k].instr].sent = app[cmds[k].instr].sent + 1
          BY <2>2, <5>1
        <5> QED
          BY <5>1, <5>2
      <4>2. CASE k = Len(cmds) + 1
        <5>1. cmds'[k].instr = i /\ cmds'[k].id = n /\ cmds'[k].cmd = app[i].script[n]
          BY <2>4, <2>5, <4>2
        <5>2. app'[i].sent = n /\ app'[i].script = app[i].script /\ n \in 1 .. n
          BY <2>2
        <5> QED
          BY <5>1, <5>2
      <4> QED
        BY <2>4, <4>1, <4>2
    <3>3. ASSUME NEW k \in 1 .. Len(cmds'), NEW l \in 1 .. Len(cmds'),
                 cmds'[k].instr = cmds'[l].instr, k < l
          PROVE  cmds'[k].id < cmds'[l].id
      <4>1. k \in 1 .. Len(cmds)
        BY <2>4, <3>3
      <4>2. CASE l \in 1 .. Len(cmds)
        BY <1>1, <2>4, <3>3, <4>1, <4>2 DEF Numbered
      <4>3. CASE l = Len(cmds) + 1
        <5>1. cmds[k].instr = i
          BY <2>4, <2>5, <3>3, <4>1, <4>3
        <5>2. cmds[k].id \in 1 .. app[i].sent
          BY <1>1, <4>1, <5>1 DEF Numbered
        <5> QED
          BY <2>2, <2>4, <2>5, <4>1, <4>3, <5>2
      <4> QED
        BY <2>4, <4>2, <4>3
    <3> QED
      BY <3>1, <3>2, <3>3 DEF Numbered
  <2>7. ASSUME NEW j \in Instruments PROVE Unreserved(j)' <=> Unreserved(j)
    <3>1. (\E k \in 1 .. Len(cmds') : cmds'[k].instr = j /\ cmds'[k].id = 1) <=>
            \/ \E k \in 1 .. Len(cmds) : cmds[k].instr = j /\ cmds[k].id = 1
            \/ j = i /\ n = 1
      BY <2>4, <2>5
    <3>2. n = 1 <=> app[i].sent = 0
      BY <2>2
    <3> QED
      BY <2>2, <3>1, <3>2 DEF Unreserved
  <2> QED
    BY <1>2, <2>6, <2>7, AsideSingle
<1>4. CASE AppReceiveReservation(i) \/ AppReceiveMsg(i)
  <2>1. UNCHANGED cmds /\ (UNCHANGED app \/ \E answer : Answered(i, answer))
    BY <1>4 DEF AppReceiveReservation, AppReceiveMsg, Receives
  <2>2. \A j \in Instruments : app'[j].script = app[j].script /\ app'[j].sent = app[j].sent
    <3>1. CASE UNCHANGED app
      BY <3>1
    <3>2. ASSUME NEW answer, Answered(i, answer)
          PROVE  \A j \in Instruments : app'[j].script = app[j].script /\ app'[j].sent = app[j].sent
      <4>1. app[i] \in Session /\ \A j \in Instruments : j # i => app'[j] = app[j]
        BY <1>1, <3>2 DEF Answered
      <4>2. app'[i] = [app[i] EXCEPT !.pending = FALSE, !.got = Append(@, answer)]
        BY <1>1, <3>2 DEF Answered
      <4>3. app'[i].script = app[i].script /\ app'[i].sent = app[i].sent
        BY <4>1, <4>2 DEF Session
      <4> QED
        BY <4>1, <4>3
    <3> QED
      BY <2>1, <3>1, <3>2
  <2> QED
    BY <1>1, <1>2, <2>1, <2>2, SameNumbers, AsideSingle DEF Single
<1> QED
  BY <1>3, <1>4 DEF App

\* The paho thread takes the first command of an instrument once.
LEMMA TakesSingle ==
    ASSUME Typed, Single, NEW K, Takes(K), UNCHANGED app, NEW i, i = Head(cmds).instr
    PROVE  /\ i \in Instruments /\ Numbered' /\ ~Unreserved(i)'
           /\ Unreserved(i) <=> Head(cmds).id = 1
           /\ Head(cmds).cmd \in K /\ Head(cmds).cmd = app[i].script[Head(cmds).id]
           /\ app[i].script \in Scripts /\ Head(cmds).id \in 1 .. Len(app[i].script)
           /\ \A j \in Instruments : j # i => (Unreserved(j)' <=> Unreserved(j))
           /\ \A j \in Instruments : PahoFor(j) = "idle"
<1> DEFINE c == Head(cmds)
<1>1. /\ cmds \in Seq(Command) /\ cmds # <<>> /\ cmds' = Tail(cmds) /\ paho = Idle
      /\ c \in Command /\ c.cmd \in K /\ i \in Instruments
  BY TakesTyped DEF Typed, OutsideTyped
<1>2. /\ c = cmds[1] /\ 1 \in 1 .. Len(cmds) /\ Len(cmds') = Len(cmds) - 1 /\ Len(cmds) \in Nat
      /\ \A k \in 1 .. Len(cmds') : k + 1 \in 1 .. Len(cmds) /\ cmds'[k] = cmds[k + 1]
  BY <1>1
<1> HIDE DEF c
<1>3. Numbered'
  <2>1. Numbered
    BY DEF Single
  <2>2. \A j \in Instruments : app'[j].sent <= Len(app'[j].script)
    BY <2>1 DEF Numbered
  <2>3. ASSUME NEW k \in 1 .. Len(cmds')
        PROVE  /\ cmds'[k].id \in 1 .. app'[cmds'[k].instr].sent
               /\ cmds'[k].cmd = app'[cmds'[k].instr].script[cmds'[k].id]
    <3>1. k + 1 \in 1 .. Len(cmds) /\ cmds'[k] = cmds[k + 1] /\ app' = app
      BY <1>2
    <3> QED
      BY <2>1, <3>1 DEF Numbered
  <2>4. ASSUME NEW k \in 1 .. Len(cmds'), NEW l \in 1 .. Len(cmds'),
               cmds'[k].instr = cmds'[l].instr, k < l
        PROVE  cmds'[k].id < cmds'[l].id
    <3>1. /\ k + 1 \in 1 .. Len(cmds) /\ cmds'[k] = cmds[k + 1]
          /\ l + 1 \in 1 .. Len(cmds) /\ cmds'[l] = cmds[l + 1] /\ k + 1 < l + 1
      BY <1>2, <2>4
    <3> QED
      BY <2>1, <2>4, <3>1 DEF Numbered
  <2> QED
    BY <2>2, <2>3, <2>4 DEF Numbered
<1>4. /\ c.id \in 1 .. app[i].sent /\ c.cmd = app[i].script[c.id]
      /\ app[i].sent <= Len(app[i].script)
  BY <1>1, <1>2 DEF Single, Numbered, c
<1>5. app[i].script \in Scripts /\ app[i].sent \in Nat /\ Len(app[i].script) \in Nat
  <2>1. app[i] \in Session
    BY <1>1 DEF Typed, OutsideTyped
  <2> QED
    BY <2>1, SessionAssumption DEF Session
<1>6. c.id \in 1 .. Len(app[i].script) /\ app[i].sent # 0
  BY <1>4, <1>5
<1>7. \A k \in 1 .. Len(cmds') : cmds'[k].instr = i => cmds'[k].id # 1
  <2> TAKE k \in 1 .. Len(cmds')
  <2>1. k + 1 \in 1 .. Len(cmds) /\ cmds'[k] = cmds[k + 1] /\ 1 < k + 1
    BY <1>2
  <2>2. cmds[k + 1].instr = i => c.id < cmds[k + 1].id /\ cmds[k + 1].id \in 1 .. app[i].sent
    BY <1>2, <2>1 DEF Single, Numbered, c
  <2> QED
    BY <1>4, <1>5, <2>1, <2>2
<1>8. ~Unreserved(i)'
  BY <1>6, <1>7 DEF Unreserved
<1>9. Unreserved(i) <=> c.id = 1
  <2>1. ASSUME Unreserved(i) PROVE c.id = 1
    <3>1. PICK k \in 1 .. Len(cmds) : cmds[k].instr = i /\ cmds[k].id = 1
      BY <1>6, <2>1 DEF Unreserved
    <3>2. k = 1
      <4>1. k # 1 => k - 1 \in 1 .. Len(cmds') /\ (k - 1) + 1 = k
        BY <1>2
      <4> QED
        BY <1>2, <1>7, <3>1, <4>1
    <3> QED
      BY <1>2, <3>1, <3>2
  <2>2. ASSUME c.id = 1 PROVE Unreserved(i)
    BY <1>2, <2>2 DEF Unreserved, c
  <2> QED
    BY <2>1, <2>2
<1>10. ASSUME NEW j \in Instruments, j # i PROVE Unreserved(j)' <=> Unreserved(j)
  <2>1. ASSUME NEW k \in 1 .. Len(cmds), cmds[k].instr = j
        PROVE  k - 1 \in 1 .. Len(cmds') /\ (k - 1) + 1 = k
    <3>1. k # 1
      BY <1>2, <1>10, <2>1 DEF c
    <3> QED
      BY <1>2, <3>1
  <2>2. ASSUME NEW k \in 1 .. Len(cmds), cmds[k].instr = j /\ cmds[k].id = 1
        PROVE  \E l \in 1 .. Len(cmds') : cmds'[l].instr = j /\ cmds'[l].id = 1
    <3>1. k - 1 \in 1 .. Len(cmds') /\ cmds'[k - 1] = cmds[k]
      BY <1>2, <2>1, <2>2
    <3> QED
      BY <2>2, <3>1
  <2>3. ASSUME NEW l \in 1 .. Len(cmds'), cmds'[l].instr = j /\ cmds'[l].id = 1
        PROVE  \E k \in 1 .. Len(cmds) : cmds[k].instr = j /\ cmds[k].id = 1
    BY <1>2, <2>3
  <2>4. app' = app
    OBVIOUS
  <2> QED
    BY <2>2, <2>3, <2>4 DEF Unreserved
<1>11. \A j \in Instruments : PahoFor(j) = "idle"
  BY <1>1 DEF PahoFor
<1> QED
  BY <1>1, <1>3, <1>4, <1>5, <1>6, <1>8, <1>9, <1>10, <1>11 DEF c

\* What a step that changes one cache owes to the threads of its reservation.
LEMMA LeasedKept ==
    ASSUME NEW i \in Instruments, Leased(i), cache'[i].lease = cache[i].lease,
           Unreserved(i)' <=> Unreserved(i), PahoFor(i)' = "replace" <=> PahoFor(i) = "replace",
           cache'[i].ahead \/ PahoFor(i)' = "ahead" => cache[i].lease = 1,
           cache[i].lease = 0 => filler'[T(i)].pc = filler[T(i)].pc
                                 /\ publisher'[T(i)] = publisher[T(i)]
    PROVE  Leased(i)'
<1>1. /\ cache[i].lease + (IF PahoFor(i) = "replace" THEN 1 ELSE 0) =
           IF Unreserved(i) THEN 0 ELSE 1
      /\ cache[i].lease = 0 => filler[T(i)].pc = "idle" /\ publisher[T(i)] = "idle"
  BY DEF Leased
<1> QED
  BY <1>1 DEF Leased

\* A step of the paho thread that leaves the threads of the reservation alone.
LEMMA PahoKeeps ==
    ASSUME NEW i \in Instruments, Leased(i), Watched(i), UNCHANGED <<filler, publisher>>,
           cache'[i].lease = cache[i].lease, cache'[i].reply = cache[i].reply,
           Unreserved(i)' <=> Unreserved(i), PahoFor(i)' = "replace" <=> PahoFor(i) = "replace",
           cache'[i].ahead \/ PahoFor(i)' = "ahead" => cache[i].lease = 1
    PROVE  Leased(i)' /\ Watched(i)'
BY LeasedKept DEF Watched

LEMMA SameOthers ==
    ASSUME NEW i \in Instruments, UNCHANGED <<filler, publisher>>
    PROVE  OthersWoken(i)
BY DEF OthersWoken

LEMMA OnControlSingle ==
    ASSUME OneReservation, Typed, Single, OnControl
    PROVE  Single'
<1>1. Takes(Control) /\ UNCHANGED <<app, cache, filler, publisher>>
  BY DEF OnControl
<1>2. PICK i : i = Head(cmds).instr
  OBVIOUS
<1>3. /\ i \in Instruments /\ Numbered' /\ ~Unreserved(i)'
      /\ Unreserved(i) <=> Head(cmds).id = 1
      /\ Head(cmds).cmd \in Control /\ Head(cmds).cmd = app[i].script[Head(cmds).id]
      /\ app[i].script \in Scripts /\ Head(cmds).id \in 1 .. Len(app[i].script)
      /\ \A j \in Instruments : j # i => (Unreserved(j)' <=> Unreserved(j))
      /\ \A j \in Instruments : PahoFor(j) = "idle"
  BY <1>1, <1>2, TakesSingle
<1>4. Unreserved(i)
  BY <1>3 DEF OneReservation
<1>5. /\ PahoFor(i)' = "replace" /\ \A j \in Instruments : j # i => PahoFor(j)' = PahoFor(j)
  <2>1. paho' = At("replace", i)
    BY <1>2 DEF OnControl
  <2> QED
    BY <1>3, <2>1, PahoAt
<1>6. /\ Leased(i) /\ Watched(i) /\ cache[i].lease \in Nat
  <2>1. cache[i] \in Cache
    BY <1>3 DEF Typed, MainTyped
  <2> QED
    BY <1>3, <2>1 DEF Single, Cache
<1>7. cache[i].lease = 0 /\ ~cache[i].ahead
  BY <1>3, <1>4, <1>6 DEF Leased
<1>8. Leased(i)'
  BY <1>1, <1>3, <1>5, <1>6, <1>7 DEF Leased
<1>9. Watched(i)'
  BY <1>1, <1>6 DEF Watched
<1> QED
  BY <1>1, <1>3, <1>5, <1>8, <1>9, SameOthers, SingleStep

LEMMA ReplaceCacheSingle ==
    ASSUME Typed, Single, ReplaceCache
    PROVE  Single'
<1>1. UNCHANGED <<app, cmds, filler, publisher>> /\ paho.pc = "replace" /\ paho' = Idle
  BY DEF ReplaceCache
<1>2. PICK i \in Instruments : /\ i = paho.instr /\ PahoFor(i) = "replace"
                               /\ \A j \in Instruments : j # i => PahoFor(j) = "idle"
  BY <1>1, PahoWorks
<1>3. \A j \in Instruments : PahoFor(j)' = "idle"
  BY <1>1 DEF PahoFor
<1>4. Numbered' /\ \A j \in Instruments : Unreserved(j)' <=> Unreserved(j)
  BY <1>1, SameApp
<1>5. Leased(i) /\ cache[i].lease \in Nat
  <2>1. cache[i] \in Cache
    BY DEF Typed, MainTyped
  <2> QED
    BY <2>1 DEF Single, Cache
<1>6. ~Unreserved(i) /\ cache[i].lease = 0
  BY <1>2, <1>5 DEF Leased
<1>7. filler[T(i)].pc = "idle" /\ publisher[T(i)] = "idle"
  BY <1>5, <1>6 DEF Leased
<1>8. /\ cache'[i].lease = 1 /\ ~cache'[i].ahead /\ cache'[i].reply = NoData
      /\ \A j \in Instruments : j # i => cache'[j] = cache[j]
  <2>1. /\ cache'[i] = [Fresh(cache[i].lease + 1) EXCEPT !.id = cache[i].id]
        /\ \A j \in Instruments : j # i => cache'[j] = cache[j]
    BY <1>2 DEF ReplaceCache, Typed, MainTyped
  <2>2. cache'[i].lease = cache[i].lease + 1 /\ ~cache'[i].ahead /\ cache'[i].reply = NoData
    BY <2>1 DEF Fresh
  <2> QED
    BY <1>6, <2>1, <2>2
<1>9. Leased(i)'
  BY <1>1, <1>3, <1>4, <1>6, <1>7, <1>8 DEF Leased
<1>10. Watched(i)'
  BY <1>1, <1>7 DEF Watched
<1> QED
  BY <1>1, <1>2, <1>3, <1>4, <1>8, <1>9, <1>10, SameOthers, SingleStep

\* on_cmd
LEMMA OnCmdSingle ==
    ASSUME Typed, Single, OnFirstGetNext \/ OnGetNext \/ OnOtherCmd
    PROVE  Single'
<1>1. Takes({"next", "other"}) /\ UNCHANGED <<app, filler>>
  BY DEF OnFirstGetNext, OnGetNext, OnOtherCmd, Takes
<1>2. PICK i : i = Head(cmds).instr
  OBVIOUS
<1>3. /\ i \in Instruments /\ Numbered' /\ ~Unreserved(i)'
      /\ Unreserved(i) <=> Head(cmds).id = 1
      /\ Head(cmds).cmd \in {"next", "other"} /\ Head(cmds).cmd = app[i].script[Head(cmds).id]
      /\ app[i].script \in Scripts /\ Head(cmds).id \in 1 .. Len(app[i].script)
      /\ \A j \in Instruments : j # i => (Unreserved(j)' <=> Unreserved(j))
      /\ \A j \in Instruments : PahoFor(j) = "idle"
  BY <1>1, <1>2, TakesSingle
<1>4. ~Unreserved(i)
  <2>1. app[i].script # <<>>
    BY <1>3
  <2>2. app[i].script[1] = "reserve"
    BY <1>3, <2>1, SessionAssumption
  <2> QED
    BY <1>3, <2>2
<1>5. /\ Leased(i) /\ Watched(i) /\ cache[i] \in Cache /\ cache[i].lease = 1
  <2>1. cache[i] \in Cache /\ Leased(i) /\ Watched(i)
    BY <1>3 DEF Typed, MainTyped, Single
  <2>2. cache[i].lease + 0 = 1 /\ cache[i].lease \in Nat
    BY <1>3, <1>4, <2>1 DEF Leased, Cache
  <2> QED
    BY <2>1, <2>2
<1>6. /\ PahoFor(i)' # "replace" /\ \A j \in Instruments : j # i => PahoFor(j)' = PahoFor(j)
  <2>1. \/ paho' = At("ahead", i) \/ paho' = At("forget", i) \/ paho' = paho
    BY <1>2 DEF OnFirstGetNext, OnGetNext, OnOtherCmd
  <2>2. CASE paho' = At("ahead", i)
    BY <1>3, <2>2, PahoAt
  <2>3. CASE paho' = At("forget", i)
    BY <1>3, <2>3, PahoAt
  <2>4. CASE paho' = paho
    <3>1. \A j \in Instruments : PahoFor(j)' = "idle"
      BY <1>3, <2>4, SamePaho
    <3> QED
      BY <1>3, <3>1
  <2> QED
    BY <2>1, <2>2, <2>3, <2>4
<1>7. /\ cache'[i].lease = cache[i].lease /\ cache'[i].reply = cache[i].reply
      /\ \A j \in Instruments : j # i => cache'[j] = cache[j]
  <2>1. \/ cache' = [cache EXCEPT ![i].id = Head(cmds).id]
        \/ cache' = [cache EXCEPT ![i].id = Head(cmds).id, ![i].first = FALSE]
    BY <1>2 DEF OnFirstGetNext, OnGetNext, OnOtherCmd
  <2>2. cache \in [Instruments -> Cache]
    BY DEF Typed, MainTyped
  <2> QED
    BY <1>3, <2>1, <2>2 DEF Cache
<1>8. \/ UNCHANGED publisher
      \/ publisher' = [publisher EXCEPT ![T(i)] = IF @ = "idle" THEN "spin" ELSE @]
  BY <1>2, <1>5 DEF OnFirstGetNext, OnGetNext, OnOtherCmd, Current, T
<1>9. /\ publisher'[T(i)] = publisher[T(i)] \/ publisher'[T(i)] = "spin"
      /\ \A t \in Thread : t # T(i) => publisher'[t] = publisher[t]
  BY <1>3, <1>8, ThreadOfInstrument DEF Typed, PublishersTyped
<1>10. Leased(i)'
  BY <1>3, <1>4, <1>5, <1>6, <1>7, LeasedKept
<1>11. Watched(i)'
  BY <1>1, <1>5, <1>7, <1>9 DEF Watched
<1>12. OthersWoken(i)
  BY <1>1, <1>9 DEF OthersWoken
<1> QED
  BY <1>3, <1>6, <1>7, <1>10, <1>11, <1>12, SingleStep

\* on_cmd after the message to the device actor.
LEMMA RegisteringSingle ==
    ASSUME Typed, Single, RememberGetNext \/ MarkFirst \/ ForgetGetNext
    PROVE  Single'
<1>1. UNCHANGED <<app, cmds, filler, publisher>>
  BY DEF RememberGetNext, MarkFirst, ForgetGetNext
<1>2. PICK i \in Instruments :
        /\ i = paho.instr /\ \A j \in Instruments : j # i => PahoFor(j) = "idle"
        /\ \/ RememberGetNext /\ PahoFor(i) = "ahead"
           \/ MarkFirst /\ PahoFor(i) = "first"
           \/ ForgetGetNext /\ PahoFor(i) = "forget"
  BY PahoWorks DEF RememberGetNext, MarkFirst, ForgetGetNext
<1>3. /\ PahoFor(i)' \notin {"replace", "ahead"} /\ PahoFor(i) # "replace"
      /\ \A j \in Instruments : j # i => PahoFor(j)' = PahoFor(j)
  <2>1. paho' = At("first", i) \/ paho' = Idle \/ paho' = At("clear", i)
    BY <1>2 DEF RememberGetNext, MarkFirst, ForgetGetNext
  <2>2. CASE paho' = At("first", i)
    BY <1>2, <2>2, PahoAt
  <2>3. CASE paho' = Idle
    <3>1. \A j \in Instruments : PahoFor(j)' = "idle"
      BY <2>3 DEF PahoFor
    <3> QED
      BY <1>2, <3>1
  <2>4. CASE paho' = At("clear", i)
    BY <1>2, <2>4, PahoAt
  <2> QED
    BY <2>1, <2>2, <2>3, <2>4
<1>4. Numbered' /\ \A j \in Instruments : Unreserved(j)' <=> Unreserved(j)
  BY <1>1, SameApp
<1>5. Leased(i) /\ Watched(i) /\ cache \in [Instruments -> Cache]
  BY DEF Typed, MainTyped, Single
<1>6. /\ cache'[i].lease = cache[i].lease /\ cache'[i].reply = cache[i].reply
      /\ cache'[i].ahead => cache[i].ahead \/ PahoFor(i) = "ahead"
      /\ \A j \in Instruments : j # i => cache'[j] = cache[j]
  <2>1. \/ cache' = [cache EXCEPT ![i].ahead = TRUE] /\ PahoFor(i) = "ahead"
        \/ cache' = [cache EXCEPT ![i].first = TRUE]
        \/ cache' = [cache EXCEPT ![i].ahead = FALSE]
    BY <1>2 DEF RememberGetNext, MarkFirst, ForgetGetNext
  <2> QED
    BY <1>5, <2>1 DEF Cache
<1>7. cache[i].ahead \/ PahoFor(i) = "ahead" => cache[i].lease = 1
  BY <1>5 DEF Leased
<1>8. Leased(i)' /\ Watched(i)'
  BY <1>1, <1>3, <1>4, <1>5, <1>6, <1>7, PahoKeeps
<1> QED
  BY <1>1, <1>3, <1>4, <1>6, <1>8, SameOthers, SingleStep

\* With one instrument its thread is the only one to wait for a condition.
LEMMA FillerWakes ==
    ASSUME OneInstrument, Typed, Single, NotifyEmpty, NEW i \in Instruments
    PROVE  filler'[T(i)].pc # "wait"
<1>1. /\ T(i) \in Thread /\ filler \in [Thread -> Filler]
      /\ emptyQ \in Seq(Thread) /\ Lists(emptyQ, WaitForEmpty)
  BY ThreadOfInstrument DEF Typed, FillersTyped
<1>2. CASE emptyQ = <<>>
  BY <1>1, <1>2 DEF NotifyEmpty, Lists, WaitForEmpty
<1>3. CASE emptyQ # <<>>
  <2>1. Head(emptyQ) \in WaitForEmpty
    BY <1>1, <1>3, ListsTail
  <2>2. PICK t \in Thread : t = Head(emptyQ) /\ filler[t].pc = "wait"
    BY <2>1 DEF WaitForEmpty
  <2>3. t = T(i)
    <3>1. t[2] = 1
      BY <2>2 DEF Single, OnlyFirst
    <3>2. t = <<t[1], t[2]>> /\ t[1] \in Instruments
      BY DEF Thread
    <3> QED
      BY <3>1, <3>2 DEF OneInstrument, T
  <2> QED
    BY <1>1, <1>3, <2>2, <2>3 DEF NotifyEmpty, Filler
<1> QED
  BY <1>2, <1>3

LEMMA PublisherWakes ==
    ASSUME OneInstrument, Typed, Single, NotifyFilled, NEW i \in Instruments
    PROVE  publisher'[T(i)] # "wait"
<1>1. /\ T(i) \in Thread /\ publisher \in [Thread -> Publisher]
      /\ filledQ \in Seq(Thread) /\ Lists(filledQ, WaitForFilled)
  BY ThreadOfInstrument DEF Typed, PublishersTyped
<1>2. CASE filledQ = <<>>
  BY <1>1, <1>2 DEF NotifyFilled, Lists, WaitForFilled
<1>3. CASE filledQ # <<>>
  <2>1. Head(filledQ) \in WaitForFilled
    BY <1>1, <1>3, ListsTail
  <2>2. PICK t \in Thread : t = Head(filledQ) /\ publisher[t] = "wait"
    BY <2>1 DEF WaitForFilled
  <2>3. t = T(i)
    <3>1. t[2] = 1
      BY <2>2 DEF Single, OnlyFirst
    <3>2. t = <<t[1], t[2]>> /\ t[1] \in Instruments
      BY DEF Thread
    <3> QED
      BY <3>1, <3>2 DEF OneInstrument, T
  <2> QED
    BY <1>1, <1>3, <2>2, <2>3 DEF NotifyFilled
<1> QED
  BY <1>2, <1>3

\* The cache is emptied and the filler notified.
LEMMA Emptied ==
    ASSUME Typed, Single, NEW i \in Instruments, NotifyEmpty, UNCHANGED <<app, cmds>>,
           cache' = [cache EXCEPT ![i].reply = NoData],
           publisher'[T(i)] \in {publisher[T(i)], "idle"},
           \A t \in Thread : t # T(i) => publisher'[t] = publisher[t],
           PahoFor(i)' \notin {"replace", "ahead"}, PahoFor(i) # "replace",
           \A j \in Instruments : j # i => PahoFor(j)' = PahoFor(j)
    PROVE  Single'
<1>1. FillersWoken /\ filler \in [Thread -> Filler] /\ T(i) \in Thread
  BY NotifyEmptyWakes, ThreadOfInstrument DEF Typed, FillersTyped
<1>2. Numbered' /\ \A j \in Instruments : Unreserved(j)' <=> Unreserved(j)
  BY SameApp
<1>3. /\ cache'[i].lease = cache[i].lease /\ cache'[i].ahead = cache[i].ahead
      /\ cache'[i].reply = NoData /\ \A j \in Instruments : j # i => cache'[j] = cache[j]
  BY DEF Typed, MainTyped, Cache
<1>4. Leased(i) /\ Watched(i)
  BY DEF Single
<1>5. /\ \/ filler'[T(i)].pc = filler[T(i)].pc
         \/ filler[T(i)].pc = "wait" /\ filler'[T(i)].pc = "check"
      /\ OneInstrument => filler'[T(i)].pc # "wait"
  <2>1. \/ filler'[T(i)] = filler[T(i)]
        \/ filler[T(i)].pc = "wait" /\ filler'[T(i)] = [filler[T(i)] EXCEPT !.pc = "check"]
    BY <1>1 DEF FillersWoken
  <2>2. filler[T(i)] \in Filler
    BY <1>1
  <2>3. OneInstrument => filler'[T(i)].pc # "wait"
    BY FillerWakes
  <2> QED
    BY <2>1, <2>2, <2>3 DEF Filler
<1>6. Leased(i)'
  <2>1. /\ cache[i].ahead => cache[i].lease = 1
        /\ cache[i].lease = 0 => filler[T(i)].pc = "idle" /\ publisher[T(i)] = "idle"
    BY <1>4 DEF Leased
  <2> QED
    BY <1>2, <1>3, <1>4, <1>5, <2>1, LeasedKept
<1>7. Watched(i)'
  BY <1>3, <1>5 DEF Watched
<1>8. OthersWoken(i)
  BY <1>1 DEF OthersWoken, FillersWoken
<1> QED
  BY <1>2, <1>3, <1>6, <1>7, <1>8, SingleStep

LEMMA ClearCacheSingle ==
    ASSUME Typed, Single, ClearCache
    PROVE  Single'
<1>1. /\ UNCHANGED <<app, cmds, publisher>> /\ NotifyEmpty
      /\ paho.pc = "clear" /\ paho' = Idle /\ cache' = [cache EXCEPT ![paho.instr].reply = NoData]
  BY DEF ClearCache
<1>2. PICK i \in Instruments : /\ i = paho.instr /\ PahoFor(i) = "clear"
                               /\ \A j \in Instruments : j # i => PahoFor(j) = "idle"
  BY <1>1, PahoWorks
<1>3. \A j \in Instruments : PahoFor(j)' = "idle"
  BY <1>1 DEF PahoFor
<1>4. cache' = [cache EXCEPT ![i].reply = NoData]
  BY <1>1, <1>2
<1> QED
  BY <1>1, <1>2, <1>3, <1>4, Emptied

LEMMA PahoSingle ==
    ASSUME OneReservation, Typed, Single, Paho
    PROVE  Single'
BY OnControlSingle, ReplaceCacheSingle, OnCmdSingle, RegisteringSingle, ClearCacheSingle DEF Paho

\* The actor's thread.
LEMMA ActorSingle ==
    ASSUME Typed, Single, Actor
    PROVE  Single'
<1>1. UNCHANGED <<app, cmds, paho>>
  BY DEF Actor, ReceiveReservationStatus, UnsetControl, WakeFiller, WakePublisher, ReceiveReply,
         ReceiveFirstReply, StartBuyAhead, ReceiveBoughtReply
<1>2. /\ Numbered' /\ \A j \in Instruments : Unreserved(j)' <=> Unreserved(j)
      /\ \A j \in Instruments : PahoFor(j)' = PahoFor(j)
  BY <1>1, SameApp, SamePaho
<1>3. CASE UNCHANGED <<cache, filler, publisher>>
  BY <1>1, <1>2, <1>3, AsideSingle DEF FillersWoken, PublishersWoken
<1>4. CASE WakeFiller
  <2>1. UNCHANGED <<cache, publisher>> /\ FillersWoken
    BY <1>4, NotifyEmptyWakes DEF WakeFiller, Typed
  <2> QED
    BY <1>1, <1>2, <2>1, AsideSingle DEF PublishersWoken
<1>5. CASE WakePublisher
  <2>1. UNCHANGED <<cache, filler>> /\ PublishersWoken
    BY <1>5, NotifyFilledWakes DEF WakePublisher, Typed
  <2> QED
    BY <1>1, <1>2, <2>1, AsideSingle DEF FillersWoken
<1>6. CASE StartBuyAhead
  <2>1. UNCHANGED <<filler, publisher>> /\ actor # Idle
    BY <1>6 DEF StartBuyAhead, Idle
  <2>2. PICK i \in Instruments : i = actor.instr
    BY <2>1, ActorTypes
  <2>3. Leased(i) /\ Watched(i)
    BY DEF Single
  <2>4. /\ cache'[i].lease = cache[i].lease /\ cache'[i].ahead = cache[i].ahead
        /\ cache'[i].reply = cache[i].reply
        /\ \A j \in Instruments : j # i => cache'[j] = cache[j]
    BY <1>6, <2>2 DEF StartBuyAhead, Typed, MainTyped, Cache
  <2>5. cache[i].ahead \/ PahoFor(i) = "ahead" => cache[i].lease = 1
    BY <2>3 DEF Leased
  <2>6. Leased(i)' /\ Watched(i)'
    BY <1>2, <2>1, <2>3, <2>4, <2>5, PahoKeeps
  <2> QED
    BY <1>2, <2>1, <2>4, <2>6, SameOthers, SingleStep
<1>7. CASE ReceiveBoughtReply
  <2>1. UNCHANGED <<cache, publisher>> /\ Handles("data")
    BY <1>7 DEF ReceiveBoughtReply
  <2>2. PICK i \in Instruments : i = Head(rx).instr
    BY <2>1, HandlesTyped
  <2>3. Leased(i) /\ Watched(i)
    BY DEF Single
  <2>4. cache[i].lease = 1 /\ Current(i) = T(i)
    <3>1. cache[i].ahead
      BY <1>7, <2>2 DEF ReceiveBoughtReply
    <3>2. cache[i].lease = 1
      BY <2>3, <3>1 DEF Leased
    <3> QED
      BY <3>2 DEF Current, T
  <2>5. filler' = IF filler[T(i)].pc = "idle"
                  THEN [filler EXCEPT ![T(i)] = [pc |-> "check", data |-> Head(rx).data]]
                  ELSE filler
    BY <1>7, <2>2, <2>4 DEF ReceiveBoughtReply
  <2>6. /\ \/ filler'[T(i)] = filler[T(i)]
           \/ filler[T(i)].pc = "idle" /\ filler'[T(i)].pc = "check"
        /\ \A t \in Thread : t # T(i) => filler'[t] = filler[t]
    BY <2>5, ThreadOfInstrument DEF Typed, FillersTyped
  <2>7. Leased(i)'
    <3>1. cache[i].ahead \/ PahoFor(i) = "ahead" => cache[i].lease = 1
      BY <2>4
    <3> QED
      BY <1>2, <2>1, <2>3, <2>4, <3>1, LeasedKept
  <2>8. Watched(i)'
    BY <2>1, <2>3, <2>6 DEF Watched
  <2>9. OthersWoken(i)
    BY <2>1, <2>6 DEF OthersWoken
  <2> QED
    BY <1>2, <2>1, <2>7, <2>8, <2>9, SingleStep
<1> QED
  BY <1>3, <1>4, <1>5, <1>6, <1>7
     DEF Actor, ReceiveReservationStatus, UnsetControl, ReceiveReply, ReceiveFirstReply

\* A thread that works belongs to the one reservation.
LEMMA SingleThread ==
    ASSUME Typed, Single, NEW t \in Thread, filler[t].pc # "idle" \/ publisher[t] # "idle"
    PROVE  /\ t[1] \in Instruments /\ t = T(t[1])
           /\ cache[t[1]].lease # 0 /\ (cache[t[1]].ahead => cache[t[1]].lease = 1)
           /\ Leased(t[1]) /\ Watched(t[1])
<1>1. t[1] \in Instruments /\ t = <<t[1], t[2]>>
  BY DEF Thread
<1>2. t[2] = 1
  BY DEF Single, OnlyFirst
<1>3. t = T(t[1])
  BY <1>1, <1>2 DEF T
<1>4. Leased(t[1]) /\ Watched(t[1])
  BY <1>1 DEF Single
<1> QED
  BY <1>1, <1>3, <1>4 DEF Leased

\* A step of a thread of i, as far as it does not wait.
LEMMA WorkSingle ==
    ASSUME Typed, Single, NEW i \in Instruments, UNCHANGED <<app, cmds, paho>>, OthersWoken(i),
           cache[i].lease # 0, Leased(i), Watched(i)',
           cache'[i].lease = cache[i].lease, cache'[i].ahead = cache[i].ahead,
           \A j \in Instruments : j # i => cache'[j] = cache[j]
    PROVE  Single'
<1>1. /\ Numbered' /\ \A j \in Instruments : Unreserved(j)' <=> Unreserved(j)
      /\ \A j \in Instruments : PahoFor(j)' = PahoFor(j)
  BY SameApp, SamePaho
<1>2. cache[i].ahead \/ PahoFor(i) = "ahead" => cache[i].lease = 1
  BY DEF Leased
<1>3. Leased(i)'
  BY <1>1, <1>2, LeasedKept
<1> QED
  BY <1>1, <1>3, SingleStep

LEMMA FillSingle ==
    ASSUME Typed, Single, NEW t \in Thread, Fill(t)
    PROVE  Single'
<1>1. UNCHANGED <<app, cmds, paho>> /\ filler[t].pc \in {"check", "store", "send", "notify"}
  BY DEF Fill, FillCheck, FillStore, FillSend, FillNotify
<1>2. PICK i \in Instruments : /\ i = t[1] /\ t = T(i) /\ cache[i].lease # 0
                               /\ Leased(i) /\ Watched(i)
  BY <1>1, SingleThread
<1>3. /\ T(i) \in Thread /\ filler \in [Thread -> Filler] /\ cache \in [Instruments -> Cache]
  BY ThreadOfInstrument DEF Typed, FillersTyped, MainTyped
<1>4. CASE FillCheck(t)
  <2>1. UNCHANGED <<cache, publisher>> /\ filler[T(i)].pc = "check"
    BY <1>2, <1>4 DEF FillCheck
  <2>2. PICK x \in {"wait", "idle", "store"} :
          /\ filler' = [filler EXCEPT ![T(i)].pc = x]
          /\ x = "wait" <=> cache[i].reply # NoData
    BY <1>2, <1>4 DEF FillCheck
  <2>3. filler'[T(i)].pc = x /\ \A u \in Thread : u # T(i) => filler'[u] = filler[u]
    BY <1>3, <2>2 DEF Filler
  <2>4. Watched(i)'
    BY <1>2, <2>1, <2>2, <2>3 DEF Watched
  <2>5. OthersWoken(i)
    BY <2>1, <2>3 DEF OthersWoken
  <2> QED
    BY <1>1, <1>2, <2>1, <2>4, <2>5, WorkSingle
<1>5. CASE FillStore(t)
  <2>1. UNCHANGED publisher /\ filler' = [filler EXCEPT ![T(i)].pc = "send"]
    BY <1>2, <1>5 DEF FillStore
  <2>2. filler'[T(i)].pc = "send" /\ \A u \in Thread : u # T(i) => filler'[u] = filler[u]
    BY <1>3, <2>1 DEF Filler
  <2>3. /\ cache'[i].lease = cache[i].lease /\ cache'[i].ahead = cache[i].ahead
        /\ \A j \in Instruments : j # i => cache'[j] = cache[j]
    BY <1>2, <1>3, <1>5 DEF FillStore, Cache
  <2>4. Watched(i)'
    BY <2>2 DEF Watched
  <2>5. OthersWoken(i)
    BY <2>1, <2>2 DEF OthersWoken
  <2> QED
    BY <1>1, <1>2, <2>3, <2>4, <2>5, WorkSingle
<1>6. CASE FillSend(t)
  <2>1. UNCHANGED <<cache, publisher>> /\ filler' = [filler EXCEPT ![T(i)].pc = "notify"]
    BY <1>2, <1>6 DEF FillSend
  <2>2. filler'[T(i)].pc = "notify" /\ \A u \in Thread : u # T(i) => filler'[u] = filler[u]
    BY <1>3, <2>1 DEF Filler
  <2>3. Watched(i)'
    BY <2>2 DEF Watched
  <2>4. OthersWoken(i)
    BY <2>1, <2>2 DEF OthersWoken
  <2> QED
    BY <1>1, <1>2, <2>1, <2>3, <2>4, WorkSingle
<1>7. CASE FillNotify(t)
  <2>1. /\ UNCHANGED cache /\ NotifyFilled
        /\ filler' = [filler EXCEPT ![T(i)] = [pc |-> "idle", data |-> NoData]]
    BY <1>2, <1>7 DEF FillNotify
  <2>2. filler'[T(i)].pc = "idle" /\ \A u \in Thread : u # T(i) => filler'[u] = filler[u]
    BY <1>3, <2>1
  <2>3. PublishersWoken /\ (OneInstrument => publisher'[T(i)] # "wait")
    BY <2>1, NotifyFilledWakes, PublisherWakes DEF Typed
  <2>4. Watched(i)'
    BY <2>2, <2>3 DEF Watched
  <2>5. OthersWoken(i)
    BY <2>2, <2>3 DEF OthersWoken, PublishersWoken
  <2> QED
    BY <1>1, <1>2, <2>1, <2>4, <2>5, WorkSingle
<1> QED
  BY <1>4, <1>5, <1>6, <1>7 DEF Fill

LEMMA PublisherSingle ==
    ASSUME Typed, Single, NEW t \in Thread, PublishFunction(t)
    PROVE  Single'
<1>1. UNCHANGED <<app, cmds, paho>> /\ publisher[t] \in {"spin", "check", "publish", "clear"}
  BY DEF PublishFunction, PublishSpin, PublishCheck, PublishCached, PublishClear
<1>2. PICK i \in Instruments : /\ i = t[1] /\ t = T(i) /\ cache[i].lease # 0
                               /\ Leased(i) /\ Watched(i)
  BY <1>1, SingleThread
<1>3. CASE PublishSpin(t) \/ PublishCheck(t) \/ PublishCached(t)
  <2>1. UNCHANGED <<cache, filler>>
    BY <1>3 DEF PublishSpin, PublishCheck, PublishCached
  <2>2. PICK x \in {"check", "wait", "publish", "clear"} :
          /\ publisher' = [publisher EXCEPT ![T(i)] = x]
          /\ x = "wait" => cache[i].reply = NoData
    BY <1>2, <1>3 DEF PublishSpin, PublishCheck, PublishCached
  <2>3. publisher'[T(i)] = x /\ \A u \in Thread : u # T(i) => publisher'[u] = publisher[u]
    BY <2>2, PublisherMoves
  <2>4. Watched(i)'
    BY <1>2, <2>1, <2>2, <2>3 DEF Watched
  <2>5. OthersWoken(i)
    BY <2>1, <2>3 DEF OthersWoken
  <2> QED
    BY <1>1, <1>2, <2>1, <2>4, <2>5, WorkSingle
<1>4. CASE PublishClear(t)
  <2>1. /\ NotifyEmpty /\ cache' = [cache EXCEPT ![i].reply = NoData]
        /\ publisher' = [publisher EXCEPT ![T(i)] = "idle"]
    BY <1>2, <1>4 DEF PublishClear
  <2>2. publisher'[T(i)] = "idle" /\ \A u \in Thread : u # T(i) => publisher'[u] = publisher[u]
    BY <2>1, PublisherMoves
  <2>3. FillersWoken /\ (OneInstrument => filler'[T(i)].pc # "wait")
    BY <2>1, NotifyEmptyWakes, FillerWakes DEF Typed
  <2>4. /\ cache'[i].lease = cache[i].lease /\ cache'[i].ahead = cache[i].ahead
        /\ cache'[i].reply = NoData /\ \A j \in Instruments : j # i => cache'[j] = cache[j]
    BY <2>1 DEF Typed, MainTyped, Cache
  <2>5. Watched(i)'
    BY <2>2, <2>3, <2>4 DEF Watched
  <2>6. OthersWoken(i)
    BY <2>2, <2>3 DEF OthersWoken, FillersWoken
  <2> QED
    BY <1>1, <1>2, <2>4, <2>5, <2>6, WorkSingle
<1> QED
  BY <1>3, <1>4 DEF PublishFunction

LEMMA NextSingle ==
    ASSUME OneReservation, Typed, Single, [Next]_vars
    PROVE  Single'
<1>1. ASSUME UNCHANGED <<app, cmds>>, UNCHANGED <<cache, paho, filler, publisher>> PROVE Single'
  <2>1. Numbered' /\ \A j \in Instruments : Unreserved(j)' <=> Unreserved(j)
    BY <1>1, SameApp
  <2> QED
    BY <1>1, <2>1, AsideSingle DEF FillersWoken, PublishersWoken
<1>2. ASSUME NEW i \in Instruments, Device(i) PROVE Single'
  BY <1>1, <1>2 DEF Device
<1>3. CASE UNCHANGED vars
  BY <1>1, <1>3 DEF vars, server
<1> QED
  BY <1>2, <1>3, AppSingle, PahoSingle, ActorSingle, FillSingle, PublisherSingle DEF Next

\* The steps that put a reply into the cache find it empty.
LEMMA OnlyFillStores ==
    ASSUME Typed, [Next]_vars, NEW i \in Instruments, cache[i].reply # NoData,
           cache'[i].reply \notin {NoData, cache[i].reply}
    PROVE  \E t \in Thread : FillStore(t) /\ t[1] = i
<1>1. cache \in [Instruments -> Cache]
  BY DEF Typed, MainTyped
<1>2. cache' # cache
  OBVIOUS
<1>3. ~Paho
  <2>1. ASSUME Paho PROVE cache'[i].reply \in {NoData, cache[i].reply}
    <3>1. CASE OnControl
      BY <3>1 DEF OnControl
    <3>2. CASE ReplaceCache
      <4>1. paho.instr # i => cache'[i] = cache[i]
        BY <1>1, <3>2 DEF ReplaceCache
      <4>2. paho.instr = i =>
              cache'[i] = [Fresh(cache[i].lease + 1) EXCEPT !.id = cache[i].id]
        BY <1>1, <3>2 DEF ReplaceCache
      <4>3. [Fresh(cache[i].lease + 1) EXCEPT !.id = cache[i].id].reply = NoData
        BY DEF Fresh
      <4> QED
        BY <4>1, <4>2, <4>3
    <3>3. CASE OnFirstGetNext
      BY <1>1, <3>3 DEF OnFirstGetNext, Cache
    <3>4. CASE RememberGetNext
      BY <1>1, <3>4 DEF RememberGetNext, Cache
    <3>5. CASE MarkFirst
      BY <1>1, <3>5 DEF MarkFirst, Cache
    <3>6. CASE OnGetNext
      BY <1>1, <3>6 DEF OnGetNext, Cache
    <3>7. CASE OnOtherCmd
      BY <1>1, <3>7 DEF OnOtherCmd, Cache
    <3>8. CASE ForgetGetNext
      BY <1>1, <3>8 DEF ForgetGetNext, Cache
    <3>9. CASE ClearCache
      BY <1>1, <3>9 DEF ClearCache, Cache
    <3> QED
      BY <2>1, <3>1, <3>2, <3>3, <3>4, <3>5, <3>6, <3>7, <3>8, <3>9 DEF Paho
  <2> QED
    BY <2>1
<1>4. ~Actor
  <2>1. StartBuyAhead => cache'[i].reply = cache[i].reply
    BY <1>1 DEF StartBuyAhead, Cache
  <2>2. ReceiveReservationStatus \/ UnsetControl \/ WakeFiller \/ WakePublisher => cache' = cache
    BY DEF ReceiveReservationStatus, UnsetControl, WakeFiller, WakePublisher
  <2>3. ReceiveReply \/ ReceiveFirstReply \/ ReceiveBoughtReply => cache' = cache
    BY DEF ReceiveReply, ReceiveFirstReply, ReceiveBoughtReply
  <2> QED
    BY <1>2, <2>1, <2>2, <2>3 DEF Actor
<1>5. \A j \in Instruments : ~App(j) /\ ~Device(j)
  BY <1>2 DEF App, AppSend, AppReceiveReservation, AppReceiveMsg, Receives, Device, server
<1>6. \A t \in Thread : ~PublishFunction(t)
  <2>1. ASSUME NEW t \in Thread, PublishClear(t)
        PROVE  cache'[i].reply \in {NoData, cache[i].reply}
    BY <1>1, <2>1 DEF PublishClear, Cache
  <2>2. \A t \in Thread : PublishSpin(t) \/ PublishCheck(t) \/ PublishCached(t) => cache' = cache
    BY DEF PublishSpin, PublishCheck, PublishCached
  <2> QED
    BY <1>2, <2>1, <2>2 DEF PublishFunction
<1>7. PICK t \in Thread : Fill(t)
  BY <1>2, <1>3, <1>4, <1>5, <1>6 DEF Next, vars, server
<1>8. FillStore(t)
  BY <1>2, <1>7 DEF Fill, FillCheck, FillSend, FillNotify
<1>9. t[1] = i
  BY <1>1, <1>2, <1>8 DEF FillStore, Cache
<1> QED
  BY <1>8, <1>9


\* With one reservation in a session no bought frame is overwritten, however fast
\* the instrument and the application are: the cache takes another one only after
\* the publisher or clear_cache has taken it out.
THEOREM NoFrameLost ==
    ASSUME OneReservation
    PROVE  Spec => NoFrameOverwritten
<1>1. Init => Typed /\ Single
  BY InitTyped, InitSingle
<1>2. Typed /\ Single /\ [Next]_vars => (Typed /\ Single)'
  BY NextTyped, NextSingle
<1>3. Typed /\ Single /\ [Next]_vars =>
        [\A i \in Instruments :
            cache'[i].lease = cache[i].lease =>
                cache[i].reply = NoData \/ cache'[i].reply \in {NoData, cache[i].reply}]_vars
  <2> SUFFICES ASSUME Typed, Single, [Next]_vars, NEW i \in Instruments, cache[i].reply # NoData
               PROVE  cache'[i].reply \in {NoData, cache[i].reply}
    OBVIOUS
  <2>1. ASSUME NEW t \in Thread, FillStore(t), t[1] = i PROVE FALSE
    <3>1. filler[t].pc = "store"
      BY <2>1 DEF FillStore
    <3>2. t = T(i) /\ Watched(i)
      BY <2>1, <3>1, SingleThread
    <3> QED
      BY <3>1, <3>2 DEF Watched
  <2> QED
    BY <2>1, OnlyFillStores
<1> QED
  BY <1>1, <1>2, <1>3, PTL DEF Spec, NoFrameOverwritten

LEMMA SingleWakes == OneInstrument /\ Typed /\ Single => NobodyOversleeps
<1> SUFFICES ASSUME OneInstrument, Typed, Single, AtRest, NEW i \in Instruments
             PROVE  /\ publisher[Current(i)] = "wait" => cache[i].reply = NoData
                    /\ filler[Current(i)].pc = "wait" => cache[i].reply # NoData
  BY DEF NobodyOversleeps
<1>1. Leased(i) /\ Watched(i) /\ cache[i].lease \in Nat
  <2>1. cache[i] \in Cache
    BY DEF Typed, MainTyped
  <2> QED
    BY <2>1 DEF Single, Cache
<1>2. cache[i].lease \in {0, 1}
  BY <1>1 DEF Leased
<1>3. CASE cache[i].lease = 1
  <2>1. Current(i) = T(i) /\ T(i) \in Thread
    BY <1>3, ThreadOfInstrument DEF Current, T
  <2>2. filler[T(i)].pc \in {"idle", "wait"}
    BY <2>1 DEF AtRest
  <2> QED
    BY <1>1, <2>1, <2>2 DEF Watched
<1>4. CASE cache[i].lease = 0
  <2>1. Current(i) \in Thread /\ Current(i)[2] # 1
    BY <1>4, SessionAssumption DEF Current, Thread
  <2> QED
    BY <2>1 DEF Single, OnlyFirst
<1> QED
  BY <1>2, <1>3, <1>4

\* With one instrument and one reservation in a session the conditions, which
\* all instruments share, wake the thread they are for.
THEOREM NobodyOversleepsAlone ==
    ASSUME OneReservation, OneInstrument
    PROVE  Spec => []NobodyOversleeps
<1>1. Init => Typed /\ Single
  BY InitTyped, InitSingle
<1>2. Typed /\ Single /\ [Next]_vars => (Typed /\ Single)'
  BY NextTyped, NextSingle
<1>3. Typed /\ Single => NobodyOversleeps
  BY SingleWakes
<1> QED
  BY <1>1, <1>2, <1>3, PTL DEF Spec

=============================================================================
