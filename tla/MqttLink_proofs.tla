--------------------------- MODULE MqttLink_proofs ---------------------------
(***************************************************************************)
(* Proof, for any number of servers, instruments and changes, that a device   *)
(* actor always belongs to a server that is known, and of what is true when    *)
(* no message is under way: a server that has gone is forgotten, one that is    *)
(* on line is shown, and its instruments have their device actors.              *)
(***************************************************************************)
EXTENDS MqttLink, TLAPS, SequenceTheorems, FiniteSetTheorems

States == {0, 1, 2}
Message == [is : Servers, instr : Instruments \cup {Nothing}, state : States]

(***************************************************************************)
(* The messages under way.                                                  *)
(***************************************************************************)
\* A message of a server about itself.
Says(m, s) == m.is = s /\ m.instr = Nothing

Quiet(q, s) == \A k \in DOMAIN q : ~Says(q[k], s)

\* The last message of a server about itself.
Latest(q, s, k) ==
    /\ k \in DOMAIN q /\ Says(q[k], s)
    /\ \A j \in DOMAIN q : j > k => ~Says(q[j], s)

\* The server speaks of itself once more after k.
Followed(q, s, k) == \E j \in DOMAIN q : j > k /\ Says(q[j], s)

\* Messages have been added to q.
Added(r, q, new) == r = q \o new

\* Messages of one server, the last of them about itself.
Speech(new, s) ==
    /\ new \in Seq(Message) /\ new # <<>>
    /\ \A k \in DOMAIN new : new[k].is = s
    /\ Says(new[Len(new)], s)

LEMMA Lengths ==
    ASSUME NEW S, NEW q \in Seq(S)
    PROVE  /\ Len(q) \in Nat /\ DOMAIN q = 1 .. Len(q)
           /\ q # <<>> => Len(q) > 0
           /\ \A k \in DOMAIN q : q[k] \in S
BY EmptySeq, LenProperties, ElementOfSeq

LEMMA Appended ==
    ASSUME NEW q \in Seq(Message), NEW new \in Seq(Message), NEW r, Added(r, q, new)
    PROVE  /\ r \in Seq(Message) /\ Len(r) = Len(q) + Len(new)
           /\ DOMAIN r = 1 .. Len(q) + Len(new)
           /\ new = <<>> => r = q
           /\ \A k \in DOMAIN q : r[k] = q[k]
           /\ \A k \in 1 .. Len(new) : r[Len(q) + k] = new[k]
           /\ \A k \in DOMAIN r : k \notin DOMAIN q =>
                k - Len(q) \in DOMAIN new /\ r[k] = new[k - Len(q)]
<1> DEFINE c == q \o new
<1>1. /\ c \in Seq(Message) /\ Len(c) = Len(q) + Len(new)
      /\ \A k \in 1 .. Len(q) + Len(new) :
            c[k] = IF k <= Len(q) THEN q[k] ELSE new[k - Len(q)]
    BY ConcatProperties
<1>2. new = <<>> => c = q
    BY ConcatEmptySeq
<1>3. r = c
    BY DEF Added
<1> HIDE DEF c
<1>4. /\ Len(q) \in Nat /\ DOMAIN q = 1 .. Len(q)
      /\ Len(new) \in Nat /\ DOMAIN new = 1 .. Len(new)
      /\ DOMAIN r = 1 .. Len(r)
    BY <1>1, <1>3, Lengths
<1>5. \A k \in DOMAIN q : r[k] = q[k]
    BY <1>1, <1>3, <1>4
<1>6. \A k \in 1 .. Len(new) : r[Len(q) + k] = new[k]
    BY <1>1, <1>3, <1>4
<1>7. \A k \in DOMAIN r : k \notin DOMAIN q =>
        k - Len(q) \in DOMAIN new /\ r[k] = new[k - Len(q)]
    BY <1>1, <1>3, <1>4
<1> QED
    BY <1>1, <1>2, <1>3, <1>4, <1>5, <1>6, <1>7

LEMMA NothingAdded ==
    ASSUME NEW q \in Seq(Message)
    PROVE  Added(q, q, <<>>)
BY ConcatEmptySeq DEF Added

\* What a server says changes nothing of what another one has said.
LEMMA OthersAppend ==
    ASSUME NEW q \in Seq(Message), NEW new \in Seq(Message), NEW r, Added(r, q, new),
           NEW s, NEW t, t # s, new = <<>> \/ Speech(new, s)
    PROVE  /\ Quiet(r, t) <=> Quiet(q, t)
           /\ \A k : Latest(r, t, k) <=> Latest(q, t, k)
           /\ \A k : Latest(q, t, k) => r[k] = q[k]
           /\ \A k \in DOMAIN r :
                Says(r[k], t) => k \in DOMAIN q /\ Says(q[k], t)
<1>1. DOMAIN q \subseteq DOMAIN r /\ \A k \in DOMAIN q : r[k] = q[k]
    BY Appended, Lengths
<1>0. \A k \in DOMAIN new : new[k].is = s
    BY DEF Speech
<1>2. \A k \in DOMAIN r : Says(r[k], t) => k \in DOMAIN q
    BY <1>0, Appended DEF Says
<1>3. \A k \in DOMAIN r : Says(r[k], t) => k \in DOMAIN q /\ Says(q[k], t)
    BY <1>1, <1>2
<1>4. \A k \in DOMAIN q : Says(q[k], t) => k \in DOMAIN r /\ Says(r[k], t)
    BY <1>1
<1>5. Quiet(r, t) <=> Quiet(q, t)
    BY <1>3, <1>4 DEF Quiet
<1>6. \A k : Latest(r, t, k) <=> Latest(q, t, k)
    BY <1>3, <1>4 DEF Latest
<1>7. \A k : Latest(q, t, k) => r[k] = q[k]
    BY <1>1 DEF Latest
<1> QED
    BY <1>3, <1>5, <1>6, <1>7

\* After a speech the last message of the server is the last of all, and whatever
\* was there before is followed by it.
LEMMA SpeechAppended ==
    ASSUME NEW q \in Seq(Message), NEW new, NEW r, Added(r, q, new),
           NEW s, Speech(new, s)
    PROVE  /\ ~Quiet(r, s)
           /\ \A k : Latest(r, s, k) => r[k] = new[Len(new)]
           /\ \A k \in DOMAIN r :
                Followed(r, s, k) \/ r[k] = new[Len(new)]
<1> DEFINE n == Len(q) + Len(new)
<1>1. new \in Seq(Message) /\ new # <<>> /\ Says(new[Len(new)], s)
    BY DEF Speech
<1>2. Len(new) \in Nat /\ Len(new) > 0 /\ Len(q) \in Nat
    BY <1>1, Lengths
<1>3. DOMAIN r = 1 .. n /\ n \in DOMAIN r /\ r[n] = new[Len(new)]
    BY <1>1, <1>2, Appended
<1> HIDE DEF n
<1>4. \A k \in DOMAIN r : k = n \/ k < n
    BY <1>2, <1>3 DEF n
<1>5. ~Quiet(r, s)
    BY <1>1, <1>3 DEF Quiet
<1>6. ASSUME NEW k, Latest(r, s, k) PROVE r[k] = new[Len(new)]
    <2>1. k \in DOMAIN r /\ ~(n > k)
        BY <1>1, <1>3, <1>6 DEF Latest
    <2>2. k = n
        BY <2>1, <1>2, <1>3, <1>4 DEF n
    <2> QED
        BY <2>2, <1>3
<1>7. ASSUME NEW k \in DOMAIN r PROVE Followed(r, s, k) \/ r[k] = new[Len(new)]
    <2>1. CASE k = n
        BY <2>1, <1>3
    <2>2. CASE k < n
        <3>1. n > k
            BY <2>2, <1>2, <1>3 DEF n
        <3> QED
            BY <3>1, <1>1, <1>3 DEF Followed
    <2> QED
        BY <2>1, <2>2, <1>4
<1> QED
    BY <1>5, <1>6, <1>7

\* What was followed is so still.
LEMMA StillFollowed ==
    ASSUME NEW q \in Seq(Message), NEW new \in Seq(Message), NEW r, Added(r, q, new),
           NEW s, NEW k \in DOMAIN q, Followed(q, s, k)
    PROVE  Followed(r, s, k)
<1>1. PICK j \in DOMAIN q : j > k /\ Says(q[j], s)
    BY DEF Followed
<1>2. j \in DOMAIN r /\ r[j] = q[j]
    BY <1>1, Appended, Lengths
<1> QED
    BY <1>1, <1>2 DEF Followed

\* A message is taken from the queue.
LEMMA Taken ==
    ASSUME NEW q \in Seq(Message), q # <<>>
    PROVE  /\ Tail(q) \in Seq(Message) /\ Head(q) = q[1] /\ Head(q) \in Message
           /\ 1 \in DOMAIN q
           /\ \A k \in DOMAIN Tail(q) : k \in Nat /\ k + 1 \in DOMAIN q /\ Tail(q)[k] = q[k + 1]
           /\ \A k \in DOMAIN q : k # 1 => k - 1 \in DOMAIN Tail(q) /\ Tail(q)[k - 1] = q[k]
<1>1. /\ Head(q) \in Message /\ Tail(q) \in Seq(Message)
      /\ Len(Tail(q)) = Len(q) - 1
      /\ \A i \in 1 .. Len(Tail(q)) : Tail(q)[i] = q[i + 1]
    BY HeadTailProperties
<1>2. Len(q) \in Nat /\ Len(q) > 0 /\ DOMAIN q = 1 .. Len(q)
    BY Lengths
<1>3. DOMAIN Tail(q) = 1 .. Len(Tail(q))
    BY <1>1, Lengths
<1>4. Head(q) = q[1]
    OBVIOUS
<1>5. ASSUME NEW k \in DOMAIN q, k # 1
      PROVE  k - 1 \in DOMAIN Tail(q) /\ Tail(q)[k - 1] = q[k]
    <2>1. k - 1 \in 1 .. Len(Tail(q)) /\ (k - 1) + 1 = k
        BY <1>1, <1>2, <1>5
    <2> QED
        BY <1>1, <1>3, <2>1
<1> QED
    BY <1>1, <1>2, <1>3, <1>4, <1>5

LEMMA TakenLatest ==
    ASSUME NEW q \in Seq(Message), q # <<>>, NEW s
    PROVE  /\ \A k : Latest(Tail(q), s, k) => Latest(q, s, k + 1) /\ Tail(q)[k] = q[k + 1]
           /\ Quiet(Tail(q), s) => \/ Quiet(q, s) /\ ~Says(Head(q), s)
                                   \/ Latest(q, s, 1) /\ Says(Head(q), s)
           /\ ~Says(Head(q), s) => (Quiet(Tail(q), s) <=> Quiet(q, s))
<1> DEFINE r == Tail(q)
<1>1. /\ 1 \in DOMAIN q /\ Head(q) = q[1]
      /\ \A k \in DOMAIN r : k \in Nat /\ k + 1 \in DOMAIN q /\ r[k] = q[k + 1]
      /\ \A k \in DOMAIN q : k # 1 => k - 1 \in DOMAIN r /\ r[k - 1] = q[k]
    BY Taken
<1>0. \A k \in DOMAIN q : k \in Nat
    BY Lengths
<1> HIDE DEF r
<1>2. ASSUME NEW k, Latest(r, s, k) PROVE Latest(q, s, k + 1) /\ r[k] = q[k + 1]
    <2>1. k \in DOMAIN r /\ Says(r[k], s) /\ k \in Nat
        BY <1>1, <1>2 DEF Latest
    <2>2. k + 1 \in DOMAIN q /\ r[k] = q[k + 1]
        BY <1>1, <2>1
    <2>3. ASSUME NEW j \in DOMAIN q, j > k + 1 PROVE ~Says(q[j], s)
        <3>1. j \in Nat /\ j # 1 /\ j - 1 > k
            BY <2>1, <2>3, <1>0
        <3>2. j - 1 \in DOMAIN r /\ r[j - 1] = q[j]
            BY <3>1, <1>1
        <3> QED
            BY <3>1, <3>2, <1>2 DEF Latest
    <2> QED
        BY <2>1, <2>2, <2>3 DEF Latest
<1>3. ASSUME Quiet(r, s)
      PROVE  \A k \in DOMAIN q : k # 1 => ~Says(q[k], s)
    BY <1>1, <1>3 DEF Quiet
<1>4. Quiet(r, s) => \/ Quiet(q, s) /\ ~Says(Head(q), s)
                     \/ Latest(q, s, 1) /\ Says(Head(q), s)
    <2>1. ASSUME Quiet(r, s), Says(q[1], s) PROVE Latest(q, s, 1)
        <3>1. \A j \in DOMAIN q : j > 1 => ~Says(q[j], s)
            BY <1>0, <1>3, <2>1
        <3> QED
            BY <3>1, <1>1, <2>1 DEF Latest
    <2>2. ASSUME Quiet(r, s), ~Says(q[1], s) PROVE Quiet(q, s)
        BY <1>3, <2>2 DEF Quiet
    <2> QED
        BY <1>1, <2>1, <2>2
<1>5. ~Says(Head(q), s) => (Quiet(r, s) <=> Quiet(q, s))
    <2>1. Quiet(q, s) => Quiet(r, s)
        BY <1>1 DEF Quiet
    <2>2. ~Says(Head(q), s) /\ Quiet(r, s) => Quiet(q, s)
        BY <1>1, <1>3 DEF Quiet
    <2> QED
        BY <2>1, <2>2
<1> QED
    BY <1>2, <1>4, <1>5 DEF r

LEMMA TakenFollowed ==
    ASSUME NEW q \in Seq(Message), q # <<>>, NEW s
    PROVE  /\ Followed(q, s, 1) => ~Quiet(Tail(q), s)
           /\ \A k \in DOMAIN Tail(q) : Followed(q, s, k + 1) => Followed(Tail(q), s, k)
<1> DEFINE r == Tail(q)
<1>1. /\ \A k \in DOMAIN r : k \in Nat /\ k + 1 \in DOMAIN q /\ r[k] = q[k + 1]
      /\ \A k \in DOMAIN q : k # 1 => k - 1 \in DOMAIN r /\ r[k - 1] = q[k]
    BY Taken
<1>0. \A k \in DOMAIN q : k \in Nat
    BY Lengths
<1> HIDE DEF r
<1>2. ASSUME Followed(q, s, 1) PROVE ~Quiet(r, s)
    <2>1. PICK j \in DOMAIN q : j > 1 /\ Says(q[j], s)
        BY <1>2 DEF Followed
    <2>2. j # 1
        BY <2>1, <1>0
    <2> QED
        BY <2>1, <2>2, <1>1 DEF Quiet
<1>3. ASSUME NEW k \in DOMAIN r, Followed(q, s, k + 1) PROVE Followed(r, s, k)
    <2>1. PICK j \in DOMAIN q : j > k + 1 /\ Says(q[j], s)
        BY <1>3 DEF Followed
    <2>2. j # 1 /\ j - 1 > k
        BY <2>1, <1>0, <1>1
    <2> QED
        BY <2>1, <2>2, <1>1 DEF Followed
<1> QED
    BY <1>2, <1>3 DEF r

(***************************************************************************)
(* What a server publishes.                                                 *)
(***************************************************************************)
\* Instruments are spoken of in the messages of instrs only.
About(new, instrs) ==
    \A k \in DOMAIN new : new[k].instr = Nothing \/ \E j \in DOMAIN instrs : new[k] = instrs[j]

\* Messages to publish: those about instruments, and those about the server.
Script(s, instrs, states) ==
    /\ instrs \in Seq(Message) /\ states \in Seq(Message)
    /\ Len(states) = Len(instrs) \/ Len(states) = Len(instrs) + 1
    /\ \A k \in DOMAIN instrs : instrs[k].is = s
    /\ \A k \in DOMAIN states : Says(states[k], s)

LEMMA AlternateSpeech ==
    ASSUME NEW s, NEW instrs, NEW states, Script(s, instrs, states), states # <<>>
    PROVE  /\ Speech(Alternate(instrs, states), s)
           /\ Alternate(instrs, states)[Len(Alternate(instrs, states))] = Last(states)
           /\ About(Alternate(instrs, states), instrs)
<1> DEFINE a == Alternate(instrs, states)
           n == Len(instrs)
           m == Len(states)
<1>1. /\ n \in Nat /\ m \in Nat /\ m > 0 /\ (m = n \/ m = n + 1)
      /\ DOMAIN instrs = 1 .. n /\ DOMAIN states = 1 .. m
      /\ \A k \in 1 .. n : instrs[k] \in Message /\ instrs[k].is = s
      /\ \A k \in 1 .. m : states[k] \in Message /\ Says(states[k], s)
    BY Lengths DEF Script
<1>2. a = [k \in 1 .. n + m |-> IF k % 2 = 1 /\ k < 2 * n THEN instrs[(k + 1) \div 2]
                                                           ELSE states[(k + 1) \div 2]]
    BY DEF Alternate
<1> HIDE DEF a, n, m
<1>3. ASSUME NEW k \in 1 .. n + m
      PROVE  \/ (k + 1) \div 2 \in 1 .. n /\ a[k] = instrs[(k + 1) \div 2]
             \/ (k + 1) \div 2 \in 1 .. m /\ a[k] = states[(k + 1) \div 2]
    <2>1. CASE k % 2 = 1 /\ k < 2 * n
        <3>1. (k + 1) \div 2 \in 1 .. n
            BY <1>1, <2>1
        <3> QED
            BY <3>1, <1>2, <2>1
    <2>2. CASE ~(k % 2 = 1 /\ k < 2 * n)
        <3>1. (k + 1) \div 2 \in 1 .. m
            BY <1>1, <2>2
        <3> QED
            BY <3>1, <1>2, <2>2
    <2> QED
        BY <2>1, <2>2
<1>4. \A k \in 1 .. n + m : a[k] \in Message /\ a[k].is = s
    BY <1>1, <1>3 DEF Says
<1>5. a \in Seq(Message) /\ Len(a) = n + m /\ DOMAIN a = 1 .. n + m
    <2>1. n + m \in Nat
        BY <1>1
    <2> QED
        BY <1>2, <1>4, <2>1
<1>6. n + m \in 1 .. n + m /\ a[n + m] = states[m]
    <2>1. n + m \in 1 .. n + m
        BY <1>1
    <2>2. ~((n + m) % 2 = 1 /\ n + m < 2 * n) /\ (n + m + 1) \div 2 = m
        BY <1>1
    <2> QED
        BY <1>2, <2>1, <2>2
<1>7. Says(states[m], s)
    BY <1>1
<1>8. a # <<>>
    BY <1>1, <1>5
<1>9. Speech(a, s)
    BY <1>4, <1>5, <1>6, <1>7, <1>8 DEF Speech
<1>10. About(a, instrs)
    BY <1>1, <1>3, <1>5 DEF About, Says
<1> QED
    BY <1>5, <1>6, <1>9, <1>10 DEF a, m, Last

LEMMA StatesSpeech ==
    ASSUME NEW s, NEW instrs, NEW states, Script(s, instrs, states), states # <<>>
    PROVE  Speech(states, s) /\ states[Len(states)] = Last(states) /\ About(states, instrs)
<1>1. /\ states \in Seq(Message) /\ Len(states) \in DOMAIN states
      /\ \A k \in DOMAIN states : Says(states[k], s)
    BY Lengths DEF Script
<1> QED
    BY <1>1 DEF Speech, About, Last, Says

\* The messages that a server has published in this step, none or a speech, and
\* what it has left at the broker.
Published(s, new) ==
    /\ Added(queue', queue, new)
    /\ \/ new = <<>> /\ (connected => retained' = retained)
       \/ connected /\ Speech(new, s) /\ retained'[s] = new[Len(new)].state
    /\ retained' \in [Servers -> States \cup {NoState}]
    /\ \A t \in Servers : t # s => retained'[t] = retained[t]

LEMMA PublishedByScript ==
    ASSUME NEW s \in Servers, NEW instrs, NEW states, Script(s, instrs, states),
           queue \in Seq(Message), connected \in BOOLEAN,
           retained \in [Servers -> States \cup {NoState}],
           Publish(s, instrs, states)
    PROVE  /\ \E new \in Seq(Message) :
                /\ Published(s, new) /\ About(new, instrs)
                /\ connected /\ states # <<>> => new # <<>>
           /\ IF states = <<>> THEN retained' = retained ELSE retained'[s] = Last(states).state
<1>1. CASE states = <<>>
    <2>1. instrs = <<>>
        BY <1>1, EmptySeq, Lengths DEF Script
    <2>2. Alternate(instrs, states) = <<>>
        BY <1>1, <2>1 DEF Alternate
    <2>3. queue' = queue \/ queue' = queue \o <<>>
        BY <1>1, <2>2 DEF Publish
    <2>5. Added(queue', queue, <<>>)
        BY <2>3, NothingAdded DEF Added
    <2>6. retained' = retained
        BY <1>1 DEF Publish
    <2>4. Published(s, <<>>) /\ About(<<>>, instrs) /\ <<>> \in Seq(Message)
        BY <2>5, <2>6 DEF Published, About
    <2> QED
        BY <1>1, <2>4, <2>6
<1>2. CASE states # <<>>
    <2>1. retained' = [retained EXCEPT ![s] = Last(states).state]
        BY <1>2 DEF Publish
    <2>2. Last(states) \in Message
        BY <1>2, Lengths DEF Script, Last
    <2>3. /\ retained' \in [Servers -> States \cup {NoState}]
          /\ retained'[s] = Last(states).state
          /\ \A t \in Servers : t # s => retained'[t] = retained[t]
        BY <2>1, <2>2 DEF Message
    <2>4. CASE ~connected
        <3>1. Added(queue', queue, <<>>)
            BY <2>4, NothingAdded DEF Publish
        <3>2. Published(s, <<>>) /\ About(<<>>, instrs) /\ <<>> \in Seq(Message)
            BY <2>3, <2>4, <3>1 DEF Published, About
        <3> QED
            BY <2>3, <2>4, <3>2, <1>2
    <2>5. CASE connected
        <3>1. PICK new \in {Alternate(instrs, states), states} : Added(queue', queue, new)
            BY <2>5 DEF Publish, Added
        <3>2. Speech(new, s) /\ new[Len(new)] = Last(states) /\ About(new, instrs)
            BY <1>2, <3>1, AlternateSpeech, StatesSpeech
        <3>3. new \in Seq(Message) /\ new # <<>>
            BY <3>2 DEF Speech
        <3>4. Published(s, new)
            BY <2>3, <2>5, <3>1, <3>2 DEF Published
        <3> QED
            BY <3>2, <3>3, <3>4, <2>3, <1>2
    <2> QED
        BY <2>4, <2>5
<1> QED
    BY <1>1, <1>2

(***************************************************************************)
(* The scripts of the actions.                                              *)
(***************************************************************************)
LEMMA OrderOfSet ==
    ASSUME NEW S, IsFiniteSet(S), NEW order \in SetToSeqs(S)
    PROVE  /\ Cardinality(S) \in Nat /\ order \in Seq(S)
           /\ DOMAIN order = 1 .. Cardinality(S) /\ Len(order) = Cardinality(S)
           /\ S # {} => Cardinality(S) > 0
<1>1. Cardinality(S) \in Nat /\ (S # {} => Cardinality(S) > 0)
    BY FS_CardinalityType, FS_EmptySet
<1>2. order \in [1 .. Cardinality(S) -> S]
    BY DEF SetToSeqs
<1> QED
    BY <1>1, <1>2

\* Nobody is left out.
LEMMA OrderIsComplete ==
    ASSUME NEW S, IsFiniteSet(S), NEW order \in SetToSeqs(S), NEW x \in S
    PROVE  \E k \in DOMAIN order : order[k] = x
<1> DEFINE n == Cardinality(S)
<1>1. n \in Nat /\ DOMAIN order = 1 .. n
    BY OrderOfSet
<1>2. order \in Injection(1 .. n, S)
    BY DEF SetToSeqs, Injection, IsInjective
<1>3. Cardinality(1 .. n) = n
    BY <1>1, FS_Interval
<1>4. order \in Surjection(1 .. n, S)
    BY <1>2, <1>3, FS_Injection
<1> QED
    BY <1>1, <1>4 DEF Surjection

Typed ==
    /\ changes \in Nat
    /\ up \in [Servers -> BOOLEAN] /\ at \in [Instruments -> Servers]
    /\ reservations \in [Servers -> SUBSET Instruments]
    /\ recent \in [Servers -> BOOLEAN] /\ asked \in [Servers -> BOOLEAN]
    /\ retained \in [Servers -> States \cup {NoState}]
    /\ cmd \in [Servers -> SUBSET (Orders \cup {"update"})]
    /\ queue \in Seq(Message)
    /\ connected \in BOOLEAN
    /\ subscribed \subseteq Servers /\ hosts \subseteq Servers /\ rescan_lock \subseteq hosts
    /\ timers \in [Servers -> [Orders -> Nat]]
    /\ child_host \in [Instruments -> Servers \cup {Nothing}]
    /\ prepared \in [Instruments -> Servers \cup {Nothing}]
    /\ shown \in [Servers -> States \cup {NoState}]
    /\ leaving \subseteq Instruments /\ resurrect \in Servers \cup {Nothing}
    /\ unheard \subseteq Instruments

\* A server speaks of itself only.
LEMMA SingleSays ==
    ASSUME NEW s \in Servers, Typed, NEW m \in Message, Says(m, s), Publish(s, <<>>, <<m>>)
    PROVE  /\ retained'[s] = m.state
           /\ \E new \in Seq(Message) :
                /\ Published(s, new) /\ (connected => new # <<>>)
                /\ \A k \in DOMAIN new : new[k].instr = Nothing
<1>1. Script(s, <<>>, <<m>>) /\ <<m>> # <<>> /\ Last(<<m>>) = m
    BY DEF Script, Last
<1>2. /\ retained'[s] = m.state
      /\ \E new \in Seq(Message) :
            Published(s, new) /\ About(new, <<>>) /\ (connected /\ <<m>> # <<>> => new # <<>>)
    BY <1>1, PublishedByScript DEF Typed
<1> QED
    BY <1>1, <1>2 DEF About

LEMMA IsMetaSays ==
    ASSUME NEW s \in Servers, NEW published
    PROVE  /\ IsMeta(s, published) \in Message /\ Says(IsMeta(s, published), s)
           /\ IsMeta(s, published).state \in {1, 2}
BY DEF IsMeta, Meta, Message, Says, States

\* It announces instruments that it has.
LEMMA AnnounceSays ==
    ASSUME NEW s \in Servers, Typed, NEW found \in SUBSET Instruments, Announce(s, found)
    PROVE  /\ retained'[s] = 2 \/ retained' = retained
           /\ \E new \in Seq(Message) :
                /\ Published(s, new) /\ (connected /\ found # {} => new # <<>>)
                /\ \A k \in DOMAIN new : new[k].instr = Nothing \/ new[k].instr \in found
<1>1. PICK order \in SetToSeqs(found) :
        Publish(s, [k \in DOMAIN order |-> Meta(s, order[k], 2)],
                   [k \in DOMAIN order |-> Meta(s, Nothing, 2)])
    BY DEF Announce
<1> DEFINE instrs == [k \in DOMAIN order |-> Meta(s, order[k], 2)]
           states == [k \in DOMAIN order |-> Meta(s, Nothing, 2)]
           n == Cardinality(found)
<1>2. n \in Nat /\ DOMAIN order = 1 .. n /\ order \in Seq(found) /\ (found # {} => n > 0)
    BY FiniteAssumption, FS_Subset, OrderOfSet
<1>3. \A k \in 1 .. n : order[k] \in found
    BY <1>2, ElementOfSeq, LenProperties
<1>4. /\ instrs = [k \in 1 .. n |-> Meta(s, order[k], 2)]
      /\ states = [k \in 1 .. n |-> Meta(s, Nothing, 2)]
    BY <1>2
<1> HIDE DEF n, instrs, states
<1>5. \A k \in 1 .. n : /\ instrs[k] \in Message /\ instrs[k].is = s /\ instrs[k].instr \in found
                        /\ states[k] \in Message /\ Says(states[k], s) /\ states[k].state = 2
    BY <1>3, <1>4 DEF Meta, Message, Says, States
<1>6. /\ instrs \in Seq(Message) /\ Len(instrs) = n /\ DOMAIN instrs = 1 .. n
      /\ states \in Seq(Message) /\ Len(states) = n /\ DOMAIN states = 1 .. n
    BY <1>2, <1>4, <1>5
<1>7. Script(s, instrs, states)
    BY <1>5, <1>6 DEF Script
<1>8. Publish(s, instrs, states)
    BY <1>1 DEF instrs, states
<1>9. PICK new \in Seq(Message) : /\ Published(s, new) /\ About(new, instrs)
                                  /\ connected /\ states # <<>> => new # <<>>
    BY <1>7, <1>8, PublishedByScript DEF Typed
<1>13. IF states = <<>> THEN retained' = retained ELSE retained'[s] = Last(states).state
    BY <1>7, <1>8, PublishedByScript DEF Typed
<1>10. states # <<>> => Last(states).state = 2
    <2>1. states # <<>> => n \in 1 .. n
        BY <1>2, <1>6, Lengths
    <2> QED
        BY <2>1, <1>5, <1>6 DEF Last
<1>11. found # {} => states # <<>>
    BY <1>2, <1>6
<1>12. \A k \in DOMAIN new : new[k].instr = Nothing \/ new[k].instr \in found
    BY <1>5, <1>6, <1>9 DEF About
<1>14. retained'[s] = 2 \/ retained' = retained
    BY <1>10, <1>13
<1> QED
    BY <1>9, <1>11, <1>12, <1>14

\* It removes instruments, in some order; it may say in the end that it stops.
LEMMA RemovalScript ==
    ASSUME NEW s \in Servers, Typed, NEW order \in Seq(Instruments)
    PROVE  /\ Script(s, Removed(s, order), Remaining(s, order))
           /\ Len(Remaining(s, order)) = Len(order) /\ Len(Removed(s, order)) = Len(order)
           /\ \A k \in DOMAIN Remaining(s, order) : Remaining(s, order)[k].state \in {1, 2}
           /\ \A k \in DOMAIN Removed(s, order) : Removed(s, order)[k].state = 0
<1> DEFINE n == Len(order)
           f == Removed(s, order)
           g == Remaining(s, order)
<1>1. n \in Nat /\ DOMAIN order = 1 .. n /\ \A k \in 1 .. n : order[k] \in Instruments
    BY Lengths
<1>2. /\ f = [k \in 1 .. n |-> Meta(s, order[k], 0)]
      /\ g =
            [k \in 1 .. n |-> IsMeta(s, reservations[s] \ {order[j] : j \in 1 .. k})]
    BY <1>1 DEF Removed, Remaining
<1> HIDE DEF n, f, g
<1>3. \A k \in 1 .. n : /\ f[k] \in Message /\ f[k].is = s
                        /\ f[k].state = 0
    BY <1>1, <1>2 DEF Meta, Message, States
<1>4. \A k \in 1 .. n : /\ g[k] \in Message /\ Says(g[k], s)
                        /\ g[k].state \in {1, 2}
    BY <1>1, <1>2, IsMetaSays
<1>5. /\ f \in Seq(Message) /\ Len(f) = n /\ DOMAIN f = 1 .. n
      /\ g \in Seq(Message) /\ Len(g) = n /\ DOMAIN g = 1 .. n
    <2>1. f \in [1 .. n -> Message] /\ g \in [1 .. n -> Message]
        BY <1>2, <1>3, <1>4
    <2> QED
        BY <1>1, <2>1
<1>6. Script(s, f, g)
    BY <1>3, <1>4, <1>5 DEF Script
<1> QED
    BY <1>3, <1>4, <1>5, <1>6 DEF n, f, g

LEMMA StopsSays ==
    ASSUME NEW s \in Servers, Typed, Stops(s)
    PROVE  /\ retained'[s] = 0
           /\ \E new \in Seq(Message) :
                /\ Published(s, new) /\ (connected => new # <<>>)
                /\ \A k \in DOMAIN new : new[k].instr = Nothing \/ new[k].state = 0
<1>1. PICK order \in SetToSeqs(reservations[s]) :
        Publish(s, Removed(s, order), Append(Remaining(s, order), Meta(s, Nothing, 0)))
    BY DEF Stops
<1> DEFINE instrs == Removed(s, order)
           rest == Remaining(s, order)
           end == Meta(s, Nothing, 0)
           states == Append(rest, end)
<1>2. reservations[s] \in SUBSET Instruments
    BY DEF Typed
<1>3. order \in Seq(Instruments)
    BY <1>2, FiniteAssumption, FS_Subset, OrderOfSet, SeqMonotonic
<1>4. /\ Script(s, instrs, rest) /\ Len(rest) = Len(instrs)
      /\ \A k \in DOMAIN instrs : instrs[k].state = 0
    BY <1>3, RemovalScript
<1>7. end \in Message /\ Says(end, s) /\ end.state = 0
    BY DEF Meta, Message, Says, States
<1>8. /\ instrs \in Seq(Message) /\ rest \in Seq(Message)
      /\ \A k \in DOMAIN instrs : instrs[k].is = s
      /\ \A k \in DOMAIN rest : Says(rest[k], s)
    BY <1>4 DEF Script
<1> HIDE DEF instrs, rest, end
<1>9. /\ states \in Seq(Message) /\ Len(states) = Len(rest) + 1
      /\ states[Len(rest) + 1] = end
      /\ \A k \in DOMAIN rest : states[k] = rest[k]
      /\ DOMAIN states = 1 .. Len(rest) + 1 /\ DOMAIN rest = 1 .. Len(rest)
      /\ Len(rest) \in Nat
    BY <1>7, <1>8, Lengths, AppendProperties
<1> HIDE DEF states
<1>10. \A k \in DOMAIN states : Says(states[k], s)
    <2>1. \A k \in DOMAIN states : k \in DOMAIN rest \/ k = Len(rest) + 1
        BY <1>9
    <2> QED
        BY <2>1, <1>7, <1>8, <1>9
<1>11. Script(s, instrs, states) /\ states # <<>> /\ Last(states) = end
    BY <1>4, <1>8, <1>9, <1>10 DEF Script, Last
<1>12. Publish(s, instrs, states)
    BY <1>1 DEF instrs, states, rest, end
<1>13. PICK new \in Seq(Message) : /\ Published(s, new) /\ About(new, instrs)
                                   /\ connected /\ states # <<>> => new # <<>>
    BY <1>11, <1>12, PublishedByScript DEF Typed
<1>14. retained'[s] = Last(states).state
    BY <1>11, <1>12, PublishedByScript DEF Typed
<1>15. \A k \in DOMAIN new : new[k].instr = Nothing \/ new[k].state = 0
    BY <1>4, <1>13 DEF About
<1> QED
    BY <1>7, <1>11, <1>13, <1>14, <1>15

LEMMA ForgetsSays ==
    ASSUME NEW s \in Servers, Typed, NEW i \in Instruments,
           Publish(s, Removed(s, <<i>>), Remaining(s, <<i>>))
    PROVE  /\ retained'[s] \in {1, 2}
           /\ \E new \in Seq(Message) :
                /\ Published(s, new) /\ (connected => new # <<>>)
                /\ \A k \in DOMAIN new : new[k].instr = Nothing \/ new[k].state = 0
<1> DEFINE instrs == Removed(s, <<i>>)
           states == Remaining(s, <<i>>)
<1>1. <<i>> \in Seq(Instruments) /\ Len(<<i>>) = 1
    OBVIOUS
<1>2. /\ Script(s, instrs, states) /\ Len(states) = 1
      /\ \A k \in DOMAIN states : states[k].state \in {1, 2}
      /\ \A k \in DOMAIN instrs : instrs[k].state = 0
    BY <1>1, RemovalScript
<1> HIDE DEF instrs, states
<1>3. states # <<>> /\ 1 \in DOMAIN states /\ Last(states) = states[1]
    <2>1. states \in Seq(Message)
        BY <1>2 DEF Script
    <2> QED
        BY <1>2, <2>1, Lengths DEF Last
<1>4. Publish(s, instrs, states)
    BY DEF instrs, states
<1>5. PICK new \in Seq(Message) : /\ Published(s, new) /\ About(new, instrs)
                                  /\ connected /\ states # <<>> => new # <<>>
    BY <1>2, <1>3, <1>4, PublishedByScript DEF Typed
<1>6. retained'[s] = Last(states).state
    BY <1>2, <1>3, <1>4, PublishedByScript DEF Typed
<1>7. \A k \in DOMAIN new : new[k].instr = Nothing \/ new[k].state = 0
    BY <1>2, <1>5 DEF About
<1> QED
    BY <1>2, <1>3, <1>5, <1>6, <1>7

(***************************************************************************)
(* The steps of a server, in one formula: what it publishes and what becomes  *)
(* of the orders and questions that wait for it.                              *)
(***************************************************************************)
\* What is true of an instrument of a server that has said nothing was so before,
\* and a question for it is not lost.
Attended(s, new) ==
    \A i \in Instruments :
        up'[s] /\ at'[i] = s /\ i \in reservations'[s] /\ connected /\ new = <<>> =>
            /\ up[s] /\ at[i] = s /\ i \in reservations[s]
            /\ i \notin unheard' /\ (asked[s] \/ "update" \in cmd[s]) =>
                asked'[s] \/ "update" \in cmd'[s] \/ child_host[i] = s

ServerStep(s, new) ==
    /\ Published(s, new) /\ Attended(s, new)
    /\ UNCHANGED <<connected, subscribed, hosts, rescan_lock, child_host, prepared, leaving,
                   resurrect, shown>>
    /\ \A t \in Servers : t # s => /\ up'[t] = up[t] /\ reservations'[t] = reservations[t]
                                   /\ asked'[t] = asked[t] /\ cmd'[t] = cmd[t]
    /\ \A i \in Instruments : at'[i] = at[i] \/ at'[i] = s
    /\ unheard \subseteq unheard'
    /\ \A k \in DOMAIN new :
        new[k].instr = Nothing \/ new[k].state = 0 \/ at[new[k].instr] = s
    /\ IF up[s] THEN IF up'[s] THEN retained'[s] \in {1, 2} \/ retained' = retained
                               ELSE retained'[s] = 0 /\ (connected => new # <<>>)
                ELSE IF up'[s] THEN retained'[s] \in {1, 2}
                               ELSE retained' = retained /\ new = <<>>

ServerTyped ==
    /\ changes \in Nat
    /\ up \in [Servers -> BOOLEAN] /\ at \in [Instruments -> Servers]
    /\ reservations \in [Servers -> SUBSET Instruments]
    /\ recent \in [Servers -> BOOLEAN] /\ asked \in [Servers -> BOOLEAN]
    /\ cmd \in [Servers -> SUBSET (Orders \cup {"update"})]
    /\ timers \in [Servers -> [Orders -> Nat]]
    /\ unheard \subseteq Instruments

LEMMA Silent ==
    ASSUME NEW s \in Servers, Typed, UNCHANGED <<queue, retained>>
    PROVE  Published(s, <<>>)
<1>1. Added(queue', queue, <<>>)
    BY NothingAdded DEF Typed
<1> QED
    BY <1>1 DEF Typed, Published

LEMMA ComesStep ==
    ASSUME NEW s \in Servers, Typed, Comes(s)
    PROVE  ServerTyped' /\ \E new \in Seq(Message) : ServerStep(s, new)
<1>1. /\ ~up[s] /\ up' = [up EXCEPT ![s] = TRUE] /\ changes' = changes + 1
      /\ Publish(s, <<>>, <<IsMeta(s, reservations[s])>>)
      /\ UNCHANGED <<at, reservations, recent, asked, cmd, unheard, client>>
    BY DEF Comes, Change, ServerOnly
<1>2. retained'[s] \in {1, 2}
    BY <1>1, SingleSays, IsMetaSays
<1>3. PICK new \in Seq(Message) : /\ Published(s, new) /\ (connected => new # <<>>)
                                  /\ \A k \in DOMAIN new : new[k].instr = Nothing
    BY <1>1, SingleSays, IsMetaSays
<1>4. ServerTyped'
    BY <1>1 DEF Typed, ServerTyped, client
<1>5. Attended(s, new)
    BY <1>3 DEF Attended
<1>6. up'[s] /\ \A t \in Servers : t # s => up'[t] = up[t]
    BY <1>1 DEF Typed
<1>7. ServerStep(s, new)
    BY <1>1, <1>2, <1>3, <1>5, <1>6 DEF ServerStep, client, device
<1> QED
    BY <1>4, <1>7

LEMMA IsLostStep ==
    ASSUME NEW s \in Servers, Typed, IsLost(s)
    PROVE  ServerTyped' /\ \E new \in Seq(Message) : ServerStep(s, new)
<1>1. /\ up[s] /\ up' = [up EXCEPT ![s] = FALSE] /\ changes' = changes + 1
      /\ Publish(s, <<>>, <<Meta(s, Nothing, 0)>>)
      /\ UNCHANGED <<at, reservations, recent, asked, cmd, unheard, client>>
    BY DEF IsLost, Change, ServerOnly
<1>2. /\ Meta(s, Nothing, 0) \in Message /\ Says(Meta(s, Nothing, 0), s)
      /\ Meta(s, Nothing, 0).state = 0
    BY DEF Meta, Message, Says, States
<1>3. retained'[s] = 0
    BY <1>1, <1>2, SingleSays
<1>4. PICK new \in Seq(Message) : /\ Published(s, new) /\ (connected => new # <<>>)
                                  /\ \A k \in DOMAIN new : new[k].instr = Nothing
    BY <1>1, <1>2, SingleSays
<1>5. ServerTyped'
    BY <1>1 DEF Typed, ServerTyped, client
<1>6. ~up'[s] /\ \A t \in Servers : t # s => up'[t] = up[t]
    BY <1>1 DEF Typed
<1>7. Attended(s, new)
    BY <1>6 DEF Attended
<1>8. ServerStep(s, new)
    BY <1>1, <1>3, <1>4, <1>6, <1>7 DEF ServerStep, client, device
<1> QED
    BY <1>5, <1>8

LEMMA StopsStep ==
    ASSUME NEW s \in Servers, Typed, IsStopped(s) \/ ObeysShutdown(s)
    PROVE  ServerTyped' /\ \E new \in Seq(Message) : ServerStep(s, new)
<1>1. /\ Stops(s) /\ UNCHANGED <<at, unheard, client>>
      /\ changes' = changes \/ changes' = changes + 1
      /\ cmd' = cmd \/ cmd' = [cmd EXCEPT ![s] = @ \ {"shutdown"}]
    BY DEF IsStopped, ObeysShutdown, Change, ServerOnly
<1>2. retained'[s] = 0
    BY <1>1, StopsSays
<1>3. PICK new \in Seq(Message) :
            /\ Published(s, new) /\ (connected => new # <<>>)
            /\ \A k \in DOMAIN new : new[k].instr = Nothing \/ new[k].state = 0
    BY <1>1, StopsSays
<1>4. /\ up[s] /\ up' = [up EXCEPT ![s] = FALSE]
      /\ reservations' = [reservations EXCEPT ![s] = {}]
      /\ asked' = [asked EXCEPT ![s] = FALSE] /\ recent' = [recent EXCEPT ![s] = FALSE]
    BY <1>1 DEF Stops
<1>5. ServerTyped'
    <2>1. /\ up' \in [Servers -> BOOLEAN] /\ reservations' \in [Servers -> SUBSET Instruments]
          /\ recent' \in [Servers -> BOOLEAN] /\ asked' \in [Servers -> BOOLEAN]
        BY <1>4 DEF Typed
    <2>2. cmd' \in [Servers -> SUBSET (Orders \cup {"update"})] /\ changes' \in Nat
        <3>1. cmd \in [Servers -> SUBSET (Orders \cup {"update"})]
            BY DEF Typed
        <3>2. cmd' \in [Servers -> SUBSET (Orders \cup {"update"})]
            BY <1>1, <3>1
        <3>3. changes' \in Nat
            BY <1>1 DEF Typed
        <3> QED
            BY <3>2, <3>3
    <2> QED
        BY <1>1, <2>1, <2>2 DEF Typed, ServerTyped, client
<1>6. ~up'[s] /\ \A t \in Servers : t # s => /\ up'[t] = up[t] /\ reservations'[t] = reservations[t]
                                             /\ asked'[t] = asked[t] /\ cmd'[t] = cmd[t]
    BY <1>1, <1>4 DEF Typed
<1>7. Attended(s, new)
    BY <1>6 DEF Attended
<1>8. ServerStep(s, new)
    BY <1>1, <1>2, <1>3, <1>4, <1>6, <1>7 DEF ServerStep, client, device
<1> QED
    BY <1>5, <1>8

LEMMA MovesStep ==
    ASSUME NEW s \in Servers, NEW i \in Instruments, Typed, Moves(i, s)
    PROVE  ServerTyped' /\ \E new \in Seq(Message) : ServerStep(s, new)
<1>1. /\ (up[s] => i \notin reservations[s]) /\ at' = [at EXCEPT ![i] = s]
      /\ changes' = changes + 1
      /\ UNCHANGED <<up, reservations, recent, asked, retained, cmd, queue, unheard, client>>
    BY DEF Moves, Change, ServerOnly
<1>2. Published(s, <<>>)
    BY <1>1, Silent
<1>3. ServerTyped'
    BY <1>1 DEF Typed, ServerTyped, client
<1>4. \A j \in Instruments : (j # i => at'[j] = at[j]) /\ (at'[j] = at[j] \/ at'[j] = s)
    BY <1>1 DEF Typed
<1>5. Attended(s, <<>>)
    BY <1>1, <1>4 DEF Attended
<1>6. up[s] \in BOOLEAN /\ up'[s] = up[s]
    BY <1>1 DEF Typed
<1>7. up[s] \/ up[s] = FALSE
    BY <1>6
<1>8. ServerStep(s, <<>>)
    BY <1>1, <1>2, <1>4, <1>5, <1>6, <1>7 DEF ServerStep, client, device
<1>9. <<>> \in Seq(Message)
    OBVIOUS
<1> QED
    BY <1>3, <1>8, <1>9

\* Sees and Answers.
LEMMA AnnounceStep ==
    ASSUME NEW s \in Servers, Typed, NEW found \in SUBSET Instruments,
           up[s], Announce(s, found), \A i \in found : at[i] = s,
           \/ asked' = asked /\ found # {}
           \/ asked' = [asked EXCEPT ![s] = FALSE] /\ found = {i \in Instruments : at[i] = s},
           UNCHANGED <<changes, up, at, recent, cmd, unheard, client>>
    PROVE  ServerTyped' /\ \E new \in Seq(Message) : ServerStep(s, new)
<1>1. retained'[s] = 2 \/ retained' = retained
    BY AnnounceSays
<1>2. PICK new \in Seq(Message) :
            /\ Published(s, new) /\ (connected /\ found # {} => new # <<>>)
            /\ \A k \in DOMAIN new : new[k].instr = Nothing \/ new[k].instr \in found
    BY AnnounceSays
<1>3. reservations' = [reservations EXCEPT ![s] = @ \cup found]
    BY DEF Announce
<1>4. ServerTyped'
    BY <1>3 DEF Typed, ServerTyped, client
<1>5. \A t \in Servers : t # s => reservations'[t] = reservations[t] /\ asked'[t] = asked[t]
    BY <1>3 DEF Typed
<1>6. found = {} => \A i \in Instruments : at[i] # s
    OBVIOUS
<1>7. Attended(s, new)
    BY <1>2, <1>6 DEF Attended
<1>8. \A k \in DOMAIN new : new[k].instr = Nothing \/ at[new[k].instr] = s
    BY <1>2
<1>9. ServerStep(s, new)
    BY <1>1, <1>2, <1>5, <1>7, <1>8 DEF ServerStep, client, device
<1> QED
    BY <1>4, <1>9

LEMMA SeesStep ==
    ASSUME NEW s \in Servers, NEW i \in Instruments, Typed, Sees(s, i)
    PROVE  ServerTyped' /\ \E new \in Seq(Message) : ServerStep(s, new)
<1>1. /\ up[s] /\ at[i] = s /\ Announce(s, {i})
      /\ UNCHANGED <<changes, up, at, recent, asked, cmd, unheard, client>>
    BY DEF Sees, ServerOnly
<1>2. {i} \in SUBSET Instruments /\ {i} # {} /\ \A j \in {i} : at[j] = s
    BY <1>1
<1>3. asked' = asked /\ UNCHANGED <<changes, up, at, recent, cmd, unheard, client>>
    BY <1>1
<1> DEFINE found == {i}
<1>4. /\ found \in SUBSET Instruments /\ found # {} /\ (\A j \in found : at[j] = s)
      /\ Announce(s, found)
    BY <1>1, <1>2
<1> HIDE DEF found
<1> QED
    BY <1>1, <1>3, <1>4, AnnounceStep

LEMMA AnswersStep ==
    ASSUME NEW s \in Servers, Typed, Answers(s)
    PROVE  ServerTyped' /\ \E new \in Seq(Message) : ServerStep(s, new)
<1> DEFINE found == {i \in Instruments : at[i] = s}
<1>1. /\ up[s] /\ asked[s] /\ asked' = [asked EXCEPT ![s] = FALSE] /\ Announce(s, found)
      /\ UNCHANGED <<changes, up, at, recent, cmd, unheard, client>>
    BY DEF Answers, ServerOnly
<1>2. found \in SUBSET Instruments /\ \A j \in found : at[j] = s
    OBVIOUS
<1> QED
    BY <1>1, <1>2, AnnounceStep

LEMMA ForgetsStep ==
    ASSUME NEW s \in Servers, NEW i \in Instruments, Typed, Forgets(s, i)
    PROVE  ServerTyped' /\ \E new \in Seq(Message) : ServerStep(s, new)
<1>1. /\ up[s] /\ Publish(s, Removed(s, <<i>>), Remaining(s, <<i>>))
      /\ reservations' = [reservations EXCEPT ![s] = @ \ {i}]
      /\ UNCHANGED <<changes, up, at, recent, asked, cmd, unheard, client>>
    BY DEF Forgets, ServerOnly
<1>2. retained'[s] \in {1, 2}
    BY <1>1, ForgetsSays
<1>3. PICK new \in Seq(Message) :
            /\ Published(s, new) /\ (connected => new # <<>>)
            /\ \A k \in DOMAIN new : new[k].instr = Nothing \/ new[k].state = 0
    BY <1>1, ForgetsSays
<1>4. ServerTyped'
    BY <1>1 DEF Typed, ServerTyped, client
<1>5. \A t \in Servers : t # s => reservations'[t] = reservations[t]
    BY <1>1 DEF Typed
<1>6. Attended(s, new)
    BY <1>3 DEF Attended
<1>7. ServerStep(s, new)
    BY <1>1, <1>2, <1>3, <1>5, <1>6 DEF ServerStep, client, device
<1> QED
    BY <1>4, <1>7

LEMMA ObeysUpdateStep ==
    ASSUME NEW s \in Servers, Typed, ObeysUpdate(s)
    PROVE  ServerTyped' /\ \E new \in Seq(Message) : ServerStep(s, new)
<1>1. /\ up[s] /\ cmd' = [cmd EXCEPT ![s] = @ \ {"update"}]
      /\ UNCHANGED <<changes, up, at, reservations, retained, queue, client>>
    BY DEF ObeysUpdate
<1>2. \/ /\ unheard' = unheard \cup {i \in Instruments : at[i] = s /\ child_host[i] # s}
         /\ UNCHANGED <<recent, asked>>
      \/ /\ recent' = [recent EXCEPT ![s] = TRUE] /\ asked' = [asked EXCEPT ![s] = TRUE]
         /\ UNCHANGED unheard
    BY DEF ObeysUpdate, Update
<1>3. Published(s, <<>>)
    BY <1>1, Silent
<1>4. ServerTyped'
    BY <1>1, <1>2 DEF Typed, ServerTyped, client
<1>5. /\ unheard \subseteq unheard'
      /\ \A t \in Servers : t # s => asked'[t] = asked[t] /\ cmd'[t] = cmd[t]
      /\ asked'[s] \/ \A i \in Instruments : at[i] = s => i \in unheard' \/ child_host[i] = s
    BY <1>1, <1>2 DEF Typed
<1>6. Attended(s, <<>>)
    BY <1>1, <1>5 DEF Attended
<1>7. ServerStep(s, <<>>)
    BY <1>1, <1>3, <1>5, <1>6 DEF ServerStep, client, device
<1>8. <<>> \in Seq(Message)
    OBVIOUS
<1> QED
    BY <1>4, <1>7, <1>8

LEMMA ObeysScanStep ==
    ASSUME NEW s \in Servers, Typed, ObeysScan(s)
    PROVE  ServerTyped' /\ \E new \in Seq(Message) : ServerStep(s, new)
<1>1. /\ up[s] /\ cmd' = [cmd EXCEPT ![s] = @ \ {"scan"}]
      /\ Publish(s, <<>>, <<IsMeta(s, reservations[s])>>)
      /\ UNCHANGED <<changes, up, at, reservations, recent, asked, unheard, client>>
    BY DEF ObeysScan, ServerOnly
<1>2. retained'[s] \in {1, 2}
    BY <1>1, SingleSays, IsMetaSays
<1>3. PICK new \in Seq(Message) : /\ Published(s, new) /\ (connected => new # <<>>)
                                  /\ \A k \in DOMAIN new : new[k].instr = Nothing
    BY <1>1, SingleSays, IsMetaSays
<1>4. ServerTyped'
    BY <1>1 DEF Typed, ServerTyped, client
<1>5. Attended(s, new)
    BY <1>3 DEF Attended
<1>6. \A t \in Servers : t # s => cmd'[t] = cmd[t]
    BY <1>1 DEF Typed
<1>7. ServerStep(s, new)
    BY <1>1, <1>2, <1>3, <1>5, <1>6 DEF ServerStep, client, device
<1> QED
    BY <1>4, <1>7

LEMMA SecondStep ==
    ASSUME NEW s \in Servers, Typed, Second(s)
    PROVE  ServerTyped' /\ \E new \in Seq(Message) : ServerStep(s, new)
<1>1. /\ recent' = [recent EXCEPT ![s] = FALSE]
      /\ UNCHANGED <<changes, up, at, reservations, asked, retained, cmd, queue, unheard, client>>
    BY DEF Second, ServerOnly
<1>2. Published(s, <<>>)
    BY <1>1, Silent
<1>3. ServerTyped'
    BY <1>1 DEF Typed, ServerTyped, client
<1>4. Attended(s, <<>>)
    BY <1>1 DEF Attended
<1>5. up[s] \in BOOLEAN /\ up'[s] = up[s]
    BY <1>1 DEF Typed
<1>6. up[s] \/ up[s] = FALSE
    BY <1>5
<1>7. ServerStep(s, <<>>)
    BY <1>1, <1>2, <1>4, <1>5, <1>6 DEF ServerStep, client, device
<1>8. <<>> \in Seq(Message)
    OBVIOUS
<1> QED
    BY <1>3, <1>7, <1>8

ServerActs(s) ==
    \/ Comes(s) \/ IsLost(s) \/ IsStopped(s)
    \/ ObeysUpdate(s) \/ ObeysScan(s) \/ ObeysShutdown(s) \/ Answers(s) \/ Second(s)
    \/ \E i \in Instruments : Moves(i, s) \/ Sees(s, i) \/ Forgets(s, i)

LEMMA ServerSteps ==
    ASSUME NEW s \in Servers, Typed, ServerActs(s)
    PROVE  ServerTyped' /\ \E new \in Seq(Message) : ServerStep(s, new)
BY ComesStep, IsLostStep, StopsStep, MovesStep, SeesStep, AnswersStep, ForgetsStep,
   ObeysUpdateStep, ObeysScanStep, SecondStep DEF ServerActs

(***************************************************************************)
(* The client: no device actor without its server.                          *)
(***************************************************************************)
Known ==
    /\ hosts = subscribed
    /\ \A s \in Servers : IF s \in hosts THEN shown[s] \in {1, 2} ELSE shown[s] \in {0, NoState}
    /\ \A i \in Instruments : child_host[i] # Nothing => child_host[i] \in hosts
    /\ \A i \in Instruments : child_host[i] = Nothing <=> prepared[i] = Nothing
    /\ ~connected => hosts = {} /\ queue = <<>>

LEMMA InitKnown == Init => Typed /\ Known
<1> SUFFICES ASSUME Init PROVE Typed /\ Known
    OBVIOUS
<1>1. /\ up \in [Servers -> BOOLEAN] /\ at \in [Instruments -> Servers]
      /\ changes = 0 /\ connected = FALSE /\ queue = <<>>
      /\ reservations = [s \in Servers |-> {}]
      /\ recent = [s \in Servers |-> FALSE] /\ asked = [s \in Servers |-> FALSE]
      /\ cmd = [s \in Servers |-> {}]
      /\ subscribed = {} /\ hosts = {} /\ rescan_lock = {} /\ unheard = {}
      /\ leaving = {} /\ resurrect = Nothing
      /\ timers = [s \in Servers |-> [o \in Orders |-> 0]]
      /\ child_host = [i \in Instruments |-> Nothing] /\ prepared = child_host
      /\ shown = [s \in Servers |-> NoState]
    BY DEF Init
<1>2. retained \in [Servers -> States \cup {NoState}]
    BY DEF Init, States
<1>3. Typed
    <2>1. /\ reservations \in [Servers -> SUBSET Instruments]
          /\ recent \in [Servers -> BOOLEAN] /\ asked \in [Servers -> BOOLEAN]
          /\ cmd \in [Servers -> SUBSET (Orders \cup {"update"})]
        BY <1>1
    <2>2. /\ child_host \in [Instruments -> Servers \cup {Nothing}]
          /\ prepared \in [Instruments -> Servers \cup {Nothing}]
          /\ shown \in [Servers -> States \cup {NoState}]
        BY <1>1
    <2>3. timers \in [Servers -> [Orders -> Nat]] /\ queue \in Seq(Message)
        BY <1>1
    <2> QED
        BY <1>1, <1>2, <2>1, <2>2, <2>3 DEF Typed
<1>4. Known
    BY <1>1 DEF Known
<1> QED
    BY <1>3, <1>4

LEMMA ServerKnown ==
    ASSUME NEW s \in Servers, Typed, Known, ServerActs(s)
    PROVE  Typed' /\ Known'
<1>1. ServerTyped'
    BY ServerSteps
<1>2. PICK new \in Seq(Message) : ServerStep(s, new)
    BY ServerSteps
<1>3. /\ Added(queue', queue, new) /\ retained' \in [Servers -> States \cup {NoState}]
      /\ new = <<>> \/ connected
      /\ UNCHANGED <<connected, subscribed, hosts, rescan_lock, child_host, prepared, leaving,
                     resurrect, shown>>
    BY <1>2 DEF ServerStep, Published
<1>4. queue' \in Seq(Message) /\ (new = <<>> => queue' = queue)
    BY <1>3, Appended DEF Typed
<1>5. Typed'
    BY <1>1, <1>3, <1>4 DEF Typed, ServerTyped
<1>6. Known'
    BY <1>3, <1>4 DEF Known
<1> QED
    BY <1>5, <1>6

\* Actors end, and their server may be asked; nobody's question is taken back.
LEMMA Ending ==
    ASSUME Typed, NEW ended, End(ended)
    PROVE  /\ child_host' \in [Instruments -> Servers \cup {Nothing}]
           /\ prepared' \in [Instruments -> Servers \cup {Nothing}]
           /\ leaving' \subseteq Instruments /\ resurrect' \in Servers \cup {Nothing}
           /\ cmd' \in [Servers -> SUBSET (Orders \cup {"update"})]
           /\ \A s \in Servers : "update" \in cmd[s] => "update" \in cmd'[s]
           /\ ended # {} /\ resurrect \in Servers => "update" \in cmd'[resurrect]
<1>1. /\ child_host \in [Instruments -> Servers \cup {Nothing}]
      /\ prepared \in [Instruments -> Servers \cup {Nothing}]
      /\ leaving \subseteq Instruments /\ resurrect \in Servers \cup {Nothing}
      /\ cmd \in [Servers -> SUBSET (Orders \cup {"update"})]
    BY DEF Typed
<1>2. /\ child_host' \in [Instruments -> Servers \cup {Nothing}]
      /\ prepared' \in [Instruments -> Servers \cup {Nothing}]
      /\ leaving' \subseteq Instruments
    BY <1>1 DEF End
<1>3. CASE ended = {}
    BY <1>1, <1>2, <1>3 DEF End
<1>4. CASE ended # {}
    <2>1. /\ resurrect' = Nothing
          /\ cmd' = [s \in Servers |-> IF s = resurrect THEN cmd[s] \cup {"update"} ELSE cmd[s]]
        BY <1>4 DEF End, AskToResurrect
    <2>2. cmd' \in [Servers -> SUBSET (Orders \cup {"update"})]
        BY <1>1, <2>1
    <2> QED
        BY <1>2, <2>1, <2>2
<1> QED
    BY <1>3, <1>4

LEMMA RemovingHosts ==
    ASSUME Typed, Known, NEW lost \in SUBSET Servers, RemoveHosts(lost)
    PROVE  /\ hosts' = hosts \ lost /\ rescan_lock' = rescan_lock \ lost
           /\ shown' \in [Servers -> States \cup {NoState}]
           /\ child_host' \in [Instruments -> Servers \cup {Nothing}]
           /\ prepared' \in [Instruments -> Servers \cup {Nothing}]
           /\ \A s \in Servers : IF s \in hosts \ lost THEN shown'[s] \in {1, 2}
                                                       ELSE shown'[s] \in {0, NoState}
           /\ \A s \in Servers : s \notin lost => shown'[s] = shown[s]
           /\ \A i \in Instruments : child_host'[i] # Nothing =>
                child_host'[i] = child_host[i] /\ child_host'[i] \in hosts \ lost
           /\ \A i \in Instruments : child_host[i] \notin lost => child_host'[i] = child_host[i]
           /\ \A i \in Instruments : child_host'[i] = Nothing <=> prepared'[i] = Nothing
           /\ leaving' \subseteq Instruments /\ resurrect' \in Servers \cup {Nothing}
           /\ cmd' \in [Servers -> SUBSET (Orders \cup {"update"})]
           /\ \A s \in Servers : "update" \in cmd[s] => "update" \in cmd'[s]
<1> DEFINE ended == {i \in Instruments : child_host[i] \in hosts \cap lost}
<1>1. /\ hosts' = hosts \ lost /\ rescan_lock' = rescan_lock \ lost
      /\ shown' = [s \in Servers |-> IF s \in hosts \cap lost THEN 0 ELSE shown[s]]
      /\ End(ended)
    BY DEF RemoveHosts
<1>9. /\ leaving' \subseteq Instruments /\ resurrect' \in Servers \cup {Nothing}
      /\ cmd' \in [Servers -> SUBSET (Orders \cup {"update"})]
      /\ \A s \in Servers : "update" \in cmd[s] => "update" \in cmd'[s]
    BY <1>1, Ending
<1>2. /\ shown \in [Servers -> States \cup {NoState}]
      /\ child_host \in [Instruments -> Servers \cup {Nothing}]
      /\ prepared \in [Instruments -> Servers \cup {Nothing}]
    BY DEF Typed
<1>3. /\ child_host' = [i \in Instruments |-> IF i \in ended THEN Nothing ELSE child_host[i]]
      /\ prepared' = [i \in Instruments |-> IF i \in ended THEN Nothing ELSE prepared[i]]
    BY <1>1 DEF End
<1>4. shown' \in [Servers -> States \cup {NoState}]
    BY <1>1, <1>2 DEF States
<1>5. /\ child_host' \in [Instruments -> Servers \cup {Nothing}]
      /\ prepared' \in [Instruments -> Servers \cup {Nothing}]
    BY <1>2, <1>3
<1>6. \A s \in Servers : IF s \in hosts \ lost THEN shown'[s] \in {1, 2}
                                               ELSE shown'[s] \in {0, NoState}
    BY <1>1 DEF Known
<1>7. \A s \in Servers : s \notin lost => shown'[s] = shown[s]
    BY <1>1
<1>8. ASSUME NEW i \in Instruments
      PROVE  /\ child_host'[i] # Nothing =>
                child_host'[i] = child_host[i] /\ child_host'[i] \in hosts \ lost
             /\ child_host[i] \notin lost => child_host'[i] = child_host[i]
             /\ child_host'[i] = Nothing <=> prepared'[i] = Nothing
    <2>1. child_host[i] # Nothing => child_host[i] \in hosts
        BY DEF Known
    <2>2. child_host[i] = Nothing <=> prepared[i] = Nothing
        BY DEF Known
    <2> QED
        BY <1>3, <2>1, <2>2
<1> QED
    BY <1>1, <1>4, <1>5, <1>6, <1>7, <1>8, <1>9

LEMMA ConnectKnown ==
    ASSUME Typed, Known, Connect
    PROVE  Typed' /\ Known'
<1> DEFINE there == {s \in Servers : retained[s] # NoState}
<1>1. /\ ~connected /\ connected' = TRUE
      /\ UNCHANGED <<changes, retained, cmd, subscribed, hosts, rescan_lock, timers, device,
                     shown, server, unheard>>
    BY DEF Connect, ClientOnly
<1>2. PICK order \in SetToSeqs(there) :
        queue' = [k \in 1 .. Len(order) |-> Meta(order[k], Nothing, retained[order[k]])]
    BY DEF Connect
<1>3. IsFiniteSet(there)
    BY FiniteAssumption, FS_Subset
<1> HIDE DEF there
<1>4. Len(order) \in Nat /\ DOMAIN order = 1 .. Len(order) /\ order \in Seq(there)
    BY <1>3, OrderOfSet
<1>5. \A k \in 1 .. Len(order) : order[k] \in there
    BY <1>4, ElementOfSeq
<1>6. \A k \in 1 .. Len(order) : Meta(order[k], Nothing, retained[order[k]]) \in Message
    BY <1>5 DEF there, Meta, Message, Typed, States
<1>7. queue' \in Seq(Message)
    BY <1>2, <1>4, <1>6
<1>8. Typed'
    BY <1>1, <1>7 DEF Typed, server, device
<1>9. Known'
    BY <1>1 DEF Known, device
<1> QED
    BY <1>8, <1>9

LEMMA DisconnectKnown ==
    ASSUME Typed, Known, Disconnect
    PROVE  Typed' /\ Known'
<1>1. /\ connected' = FALSE /\ queue' = <<>> /\ subscribed' = {} /\ changes' = changes + 1
      /\ RemoveHosts(hosts)
      /\ UNCHANGED <<retained, timers, server, unheard>>
    BY DEF Disconnect, Change, ClientOnly
<1>2. hosts \in SUBSET Servers /\ rescan_lock \subseteq hosts
    BY DEF Typed
<1> DEFINE lost == hosts
<1>3. lost \in SUBSET Servers /\ RemoveHosts(lost) /\ hosts \ lost = {} /\ rescan_lock \ lost = {}
    BY <1>1, <1>2
<1> HIDE DEF lost
<1>4. /\ hosts' = {} /\ rescan_lock' = {}
      /\ shown' \in [Servers -> States \cup {NoState}]
      /\ child_host' \in [Instruments -> Servers \cup {Nothing}]
      /\ prepared' \in [Instruments -> Servers \cup {Nothing}]
      /\ \A s \in Servers : shown'[s] \in {0, NoState}
      /\ \A i \in Instruments : child_host'[i] = Nothing /\ prepared'[i] = Nothing
      /\ leaving' \subseteq Instruments /\ resurrect' \in Servers \cup {Nothing}
      /\ cmd' \in [Servers -> SUBSET (Orders \cup {"update"})]
    BY <1>3, RemovingHosts
<1>5. <<>> \in Seq(Message)
    OBVIOUS
<1>6. Typed'
    <2>1. queue' \in Seq(Message) /\ connected' \in BOOLEAN
        BY <1>1, <1>5
    <2>3. changes' \in Nat
        BY <1>1 DEF Typed
    <2>2. subscribed' \subseteq Servers /\ hosts' \subseteq Servers /\ rescan_lock' \subseteq hosts'
        BY <1>1, <1>4
    <2> QED
        BY <1>1, <1>4, <2>1, <2>2, <2>3 DEF Typed, server
<1>7. Known'
    BY <1>1, <1>4 DEF Known
<1> QED
    BY <1>6, <1>7

\* What any of the messages does to the queue.
LEMMA Receiving ==
    ASSUME Typed, NEW m, Receive(m)
    PROVE  /\ queue # <<>> /\ m = Head(queue) /\ m \in Message /\ queue' = Tail(queue)
           /\ queue' \in Seq(Message)
           /\ m.is \in Servers /\ m.instr \in Instruments \cup {Nothing} /\ m.state \in States
<1>1. queue # <<>> /\ m = Head(queue) /\ queue' = Tail(queue) /\ queue \in Seq(Message)
    BY DEF Receive, Typed
<1>2. m \in Message /\ queue' \in Seq(Message)
    BY <1>1, Taken
<1> QED
    BY <1>1, <1>2 DEF Message

LEMMA OnLineKnown ==
    ASSUME Typed, Known, ServerOnLine
    PROVE  Typed' /\ Known'
<1>1. PICK m : /\ Receive(m) /\ m.instr = Nothing /\ m.state # 0
               /\ AddHost(m.is, m.state) /\ subscribed' = subscribed \cup {m.is}
               /\ rescan_lock' = rescan_lock \ {m.is}
               /\ cmd' = [cmd EXCEPT ![m.is] = @ \cup {"update"}]
               /\ UNCHANGED <<changes, retained, connected, timers, device, server, unheard>>
    BY DEF ServerOnLine, ClientOnly
<1>2. /\ queue # <<>> /\ queue' \in Seq(Message) /\ m.is \in Servers /\ m.state \in {1, 2}
    BY <1>1, Receiving DEF States
<1>3. hosts' = hosts \cup {m.is} /\ shown' = [shown EXCEPT ![m.is] = m.state]
    BY <1>1 DEF AddHost
<1>4. connected
    BY <1>2 DEF Typed, Known
<1>5. shown' \in [Servers -> States \cup {NoState}]
    BY <1>2, <1>3 DEF Typed, States
<1>6. cmd' \in [Servers -> SUBSET (Orders \cup {"update"})]
    <2>1. cmd \in [Servers -> SUBSET (Orders \cup {"update"})]
        BY DEF Typed
    <2> QED
        BY <1>1, <1>2, <2>1
<1>7. hosts' \subseteq Servers /\ subscribed' \subseteq Servers /\ rescan_lock' \subseteq hosts'
    BY <1>1, <1>2, <1>3 DEF Typed
<1>8. Typed'
    BY <1>1, <1>2, <1>5, <1>6, <1>7 DEF Typed, device, server
<1>9. \A s \in Servers : IF s \in hosts' THEN shown'[s] \in {1, 2} ELSE shown'[s] \in {0, NoState}
    BY <1>2, <1>3 DEF Known, Typed
<1>10. /\ hosts' = subscribed' /\ UNCHANGED <<child_host, prepared, connected>>
       /\ \A i \in Instruments : child_host[i] # Nothing => child_host[i] \in hosts'
    BY <1>1, <1>3 DEF Known, device
<1>11. Known'
    BY <1>4, <1>9, <1>10 DEF Known
<1> QED
    BY <1>8, <1>11

LEMMA OffLineKnown ==
    ASSUME Typed, Known, ServerOffLine
    PROVE  Typed' /\ Known'
<1>1. PICK m : /\ Receive(m) /\ m.instr = Nothing /\ m.state = 0
               /\ RemoveHosts({m.is})
               /\ subscribed' = IF m.is \in hosts THEN subscribed \ {m.is} ELSE subscribed
               /\ UNCHANGED <<changes, retained, connected, timers, server, unheard>>
    BY DEF ServerOffLine, ClientOnly
<1>2. /\ queue # <<>> /\ queue' \in Seq(Message) /\ {m.is} \in SUBSET Servers
    BY <1>1, Receiving
<1>3. /\ hosts' = hosts \ {m.is} /\ rescan_lock' = rescan_lock \ {m.is}
      /\ shown' \in [Servers -> States \cup {NoState}]
      /\ child_host' \in [Instruments -> Servers \cup {Nothing}]
      /\ prepared' \in [Instruments -> Servers \cup {Nothing}]
      /\ \A s \in Servers : IF s \in hosts \ {m.is} THEN shown'[s] \in {1, 2}
                                                    ELSE shown'[s] \in {0, NoState}
      /\ \A i \in Instruments : child_host'[i] # Nothing => child_host'[i] \in hosts \ {m.is}
      /\ \A i \in Instruments : child_host'[i] = Nothing <=> prepared'[i] = Nothing
      /\ leaving' \subseteq Instruments /\ resurrect' \in Servers \cup {Nothing}
      /\ cmd' \in [Servers -> SUBSET (Orders \cup {"update"})]
    BY <1>1, <1>2, RemovingHosts
<1>4. connected
    BY <1>2 DEF Typed, Known
<1>5. hosts' = subscribed' /\ hosts' \subseteq Servers /\ rescan_lock' \subseteq hosts'
    BY <1>1, <1>3 DEF Known, Typed
<1>6. Typed'
    BY <1>1, <1>2, <1>3, <1>5 DEF Typed, server
<1>7. Known'
    BY <1>1, <1>3, <1>4, <1>5 DEF Known
<1> QED
    BY <1>6, <1>7

LEMMA InstrumentKnown ==
    ASSUME Typed, Known, InstrumentThere
    PROVE  Typed' /\ Known'
<1>1. PICK m : /\ Receive(m) /\ m.instr # Nothing
               /\ IF m.is \in hosts
                  THEN /\ IF child_host[m.instr] = Nothing
                          THEN AddInstr(m.is, m.instr) ELSE UpdateInstr(m.is, m.instr)
                       /\ unheard' = unheard \ {m.instr}
                  ELSE UNCHANGED <<child_host, prepared, unheard>>
               /\ UNCHANGED <<changes, retained, cmd, connected, subscribed, hosts, rescan_lock,
                              timers, shown, leaving, resurrect, server>>
    BY DEF InstrumentThere
<1>2. /\ queue # <<>> /\ queue' \in Seq(Message)
      /\ m.is \in Servers /\ m.instr \in Instruments
    BY <1>1, Receiving
<1>3. connected
    BY <1>2 DEF Typed, Known
<1>4. CASE UNCHANGED <<child_host, prepared, unheard>>
    <2>1. Typed'
        BY <1>1, <1>2, <1>4 DEF Typed, server
    <2>2. Known'
        BY <1>1, <1>3, <1>4 DEF Known
    <2> QED
        BY <2>1, <2>2
<1>5. CASE m.is \in hosts
    <2>1. /\ child_host' = [child_host EXCEPT ![m.instr] = m.is] /\ unheard' \subseteq unheard
          /\ IF child_host[m.instr] = Nothing THEN prepared' = [prepared EXCEPT ![m.instr] = m.is]
                                              ELSE prepared' = prepared
        BY <1>1, <1>5 DEF AddInstr, UpdateInstr
    <2>2. /\ child_host' \in [Instruments -> Servers \cup {Nothing}]
          /\ prepared' \in [Instruments -> Servers \cup {Nothing}]
        BY <1>2, <2>1 DEF Typed
    <2>3. Typed'
        BY <1>1, <1>2, <2>1, <2>2 DEF Typed, server
    <2>4. /\ \A i \in Instruments : child_host'[i] # Nothing => child_host'[i] \in hosts
          /\ \A i \in Instruments : i # m.instr => /\ child_host'[i] = child_host[i]
                                                   /\ prepared'[i] = prepared[i]
          /\ child_host'[m.instr] = m.is
        BY <1>2, <1>5, <2>1 DEF Known, Typed
    <2>5. m.is # Nothing
        BY <1>2, NothingAssumption
    <2>6. prepared'[m.instr] # Nothing
        BY <1>2, <2>1, <2>5 DEF Known, Typed
    <2>7. Known'
        BY <1>1, <1>3, <2>4, <2>5, <2>6 DEF Known
    <2> QED
        BY <2>3, <2>7
<1> QED
    BY <1>1, <1>4, <1>5

LEMMA GoneKnown ==
    ASSUME Typed, Known, InstrumentGone
    PROVE  Typed' /\ Known'
<1>1. PICK m : /\ Receive(m) /\ m.instr # Nothing
               /\ End({j \in {m.instr} : child_host[j] = m.is})
               /\ UNCHANGED <<changes, retained, connected, subscribed, hosts, rescan_lock,
                              timers, shown, server, unheard>>
    BY DEF InstrumentGone, RemoveInstr, ClientOnly
<1>2. queue # <<>> /\ queue' \in Seq(Message)
    BY <1>1, Receiving
<1>3. connected
    BY <1>2 DEF Typed, Known
<1>4. /\ child_host' \in [Instruments -> Servers \cup {Nothing}]
      /\ prepared' \in [Instruments -> Servers \cup {Nothing}]
      /\ leaving' \subseteq Instruments /\ resurrect' \in Servers \cup {Nothing}
      /\ cmd' \in [Servers -> SUBSET (Orders \cup {"update"})]
    BY <1>1, Ending
<1>5. \A i \in Instruments : \/ child_host'[i] = Nothing /\ prepared'[i] = Nothing
                             \/ child_host'[i] = child_host[i] /\ prepared'[i] = prepared[i]
    BY <1>1 DEF End
<1>6. Typed'
    BY <1>1, <1>2, <1>4 DEF Typed, server
<1>7. Known'
    BY <1>1, <1>3, <1>5 DEF Known
<1> QED
    BY <1>6, <1>7

LEMMA GivesUpKnown ==
    ASSUME Typed, Known, NEW i \in Instruments, GivesUp(i)
    PROVE  Typed' /\ Known'
<1>1. /\ changes' = changes + 1 /\ child_host[i] # Nothing
      /\ resurrect' = prepared[i] /\ leaving' = leaving \cup {i}
      /\ UNCHANGED <<retained, cmd, queue, connected, subscribed, hosts, rescan_lock, timers,
                     child_host, prepared, shown, server, unheard>>
    BY DEF GivesUp, Change, ClientOnly
<1>2. resurrect' \in Servers \cup {Nothing} /\ leaving' \subseteq Instruments
    BY <1>1 DEF Typed
<1>3. Typed'
    BY <1>1, <1>2 DEF Typed, server
<1>4. Known'
    BY <1>1 DEF Known
<1> QED
    BY <1>3, <1>4

LEMMA ExitsKnown ==
    ASSUME Typed, Known, NEW i \in Instruments, Exits(i)
    PROVE  Typed' /\ Known'
<1>1. /\ End({i}) /\ unheard' \subseteq unheard \cup {i}
      /\ UNCHANGED <<changes, retained, queue, connected, subscribed, hosts, rescan_lock,
                     timers, shown, server>>
    BY DEF Exits
<1>2. /\ child_host' \in [Instruments -> Servers \cup {Nothing}]
      /\ prepared' \in [Instruments -> Servers \cup {Nothing}]
      /\ leaving' \subseteq Instruments /\ resurrect' \in Servers \cup {Nothing}
      /\ cmd' \in [Servers -> SUBSET (Orders \cup {"update"})]
    BY <1>1, Ending
<1>3. \A j \in Instruments : \/ child_host'[j] = Nothing /\ prepared'[j] = Nothing
                             \/ child_host'[j] = child_host[j] /\ prepared'[j] = prepared[j]
    BY <1>1 DEF End
<1>4. Typed'
    BY <1>1, <1>2 DEF Typed, server
<1>5. Known'
    BY <1>1, <1>3 DEF Known
<1> QED
    BY <1>4, <1>5

LEMMA ReportedKnown ==
    ASSUME Typed, Known, ReportedAgain
    PROVE  Typed' /\ Known'
<1>1. /\ resurrect' = Nothing
      /\ cmd' = [s \in Servers |-> IF s = resurrect THEN cmd[s] \cup {"update"} ELSE cmd[s]]
      /\ UNCHANGED <<changes, retained, queue, connected, subscribed, hosts, rescan_lock,
                     timers, child_host, prepared, leaving, shown, server, unheard>>
    BY DEF ReportedAgain, AskToResurrect, ClientOnly
<1>2. cmd' \in [Servers -> SUBSET (Orders \cup {"update"})]
    <2>1. cmd \in [Servers -> SUBSET (Orders \cup {"update"})]
        BY DEF Typed
    <2> QED
        BY <1>1, <2>1
<1>3. Typed'
    BY <1>1, <1>2 DEF Typed, server
<1>4. Known'
    BY <1>1 DEF Known
<1> QED
    BY <1>3, <1>4

LEMMA OrderKnown ==
    ASSUME Typed, Known, NEW s \in Servers, NEW o \in Orders, Order(s, o)
    PROVE  Typed' /\ Known'
<1>1. /\ changes' = changes + 1 /\ s \in hosts
      /\ cmd' = [cmd EXCEPT ![s] = @ \cup {o}]
      /\ timers' = [timers EXCEPT ![s][o] = @ + 1]
      /\ rescan_lock' \subseteq rescan_lock \cup {s}
      /\ UNCHANGED <<retained, queue, connected, subscribed, hosts, device, shown, server, unheard>>
    BY DEF Order, Change, ClientOnly
<1>2. cmd' \in [Servers -> SUBSET (Orders \cup {"update"})]
    <2>1. cmd \in [Servers -> SUBSET (Orders \cup {"update"})]
        BY DEF Typed
    <2> QED
        BY <1>1, <2>1
<1>3. timers' \in [Servers -> [Orders -> Nat]]
    <2>1. timers \in [Servers -> [Orders -> Nat]]
        BY DEF Typed
    <2> QED
        BY <1>1, <2>1
<1>4. Typed'
    BY <1>1, <1>2, <1>3 DEF Typed, server, device
<1>5. Known'
    BY <1>1 DEF Known, device
<1> QED
    BY <1>4, <1>5

LEMMA TimeoutKnown ==
    ASSUME Typed, Known, NEW s \in Servers, NEW o \in Orders, Timeout(s, o)
    PROVE  Typed' /\ Known'
<1>1. /\ timers[s][o] > 0 /\ timers' = [timers EXCEPT ![s][o] = @ - 1]
      /\ IF s \in rescan_lock
         THEN /\ RemoveHosts({s}) /\ subscribed' = subscribed \ {s}
              /\ retained' = [retained EXCEPT ![s] = NoState]
         ELSE UNCHANGED <<hosts, rescan_lock, shown, cmd, device, subscribed, retained>>
      /\ UNCHANGED <<changes, queue, connected, server, unheard>>
    BY DEF Timeout, ClientOnly
<1>2. timers' \in [Servers -> [Orders -> Nat]]
    <2>1. timers \in [Servers -> [Orders -> Nat]]
        BY DEF Typed
    <2> QED
        BY <1>1, <2>1
<1>3. CASE s \in rescan_lock
    <2>1. {s} \in SUBSET Servers
        OBVIOUS
    <2>2. /\ hosts' = hosts \ {s} /\ rescan_lock' = rescan_lock \ {s}
          /\ shown' \in [Servers -> States \cup {NoState}]
          /\ child_host' \in [Instruments -> Servers \cup {Nothing}]
          /\ prepared' \in [Instruments -> Servers \cup {Nothing}]
          /\ \A t \in Servers : IF t \in hosts \ {s} THEN shown'[t] \in {1, 2}
                                                     ELSE shown'[t] \in {0, NoState}
          /\ \A i \in Instruments : child_host'[i] # Nothing => child_host'[i] \in hosts \ {s}
          /\ \A i \in Instruments : child_host'[i] = Nothing <=> prepared'[i] = Nothing
          /\ leaving' \subseteq Instruments /\ resurrect' \in Servers \cup {Nothing}
          /\ cmd' \in [Servers -> SUBSET (Orders \cup {"update"})]
        BY <1>1, <1>3, <2>1, RemovingHosts
    <2>3. retained' \in [Servers -> States \cup {NoState}]
        BY <1>1, <1>3 DEF Typed
    <2>4. hosts' = subscribed' /\ hosts' \subseteq Servers /\ rescan_lock' \subseteq hosts'
        BY <1>1, <1>3, <2>2 DEF Known, Typed
    <2>5. Typed'
        BY <1>1, <1>2, <2>2, <2>3, <2>4 DEF Typed, server
    <2>6. Known'
        BY <1>1, <2>2, <2>4 DEF Known
    <2> QED
        BY <2>5, <2>6
<1>4. CASE s \notin rescan_lock
    <2>1. UNCHANGED <<hosts, rescan_lock, shown, cmd, device, subscribed, retained>>
        BY <1>1, <1>4
    <2>2. Typed'
        BY <1>1, <1>2, <2>1 DEF Typed, server, device
    <2>3. Known'
        BY <1>1, <2>1 DEF Known, device
    <2> QED
        BY <2>2, <2>3
<1> QED
    BY <1>3, <1>4

\* The steps of the system, those of the servers in one formula.
LEMMA Steps ==
    ASSUME Next
    PROVE  \/ \E s \in Servers : ServerActs(s)
           \/ \E s \in Servers : \E o \in Orders : Order(s, o) \/ Timeout(s, o)
           \/ Connect \/ Disconnect
           \/ ServerOnLine \/ ServerOffLine \/ InstrumentThere \/ InstrumentGone
           \/ \E i \in Instruments : GivesUp(i) \/ Exits(i)
           \/ ReportedAgain
BY DEF Next, ServerActs

LEMMA NextKnown == Typed /\ Known /\ [Next]_vars => Typed' /\ Known'
<1>1. ASSUME Typed, Known, Next PROVE Typed' /\ Known'
    BY <1>1, Steps, ServerKnown, ConnectKnown, DisconnectKnown, OnLineKnown, OffLineKnown,
       InstrumentKnown, GoneKnown, GivesUpKnown, ExitsKnown, ReportedKnown,
       OrderKnown, TimeoutKnown
<1>2. ASSUME Typed, Known, UNCHANGED vars PROVE Typed' /\ Known'
    <2>1. Typed'
        BY <1>2 DEF Typed, vars, server, device
    <2>2. Known'
        BY <1>2 DEF Known, vars, server, device
    <2> QED
        BY <2>1, <2>2
<1> QED
    BY <1>1, <1>2

\* The state of servers, broker and client is well formed.
THEOREM TypeCorrect == Spec => []Typed
<1>1. Init => Typed /\ Known
    BY InitKnown
<1>2. Typed /\ Known /\ [Next]_vars => Typed' /\ Known'
    BY NextKnown
<1> QED
    BY <1>1, <1>2, PTL DEF Spec

\* However the messages of several servers about one instrument are mixed, and
\* whoever is lost meanwhile, a device actor belongs to a server that is known,
\* subscribed to and shown on line.
THEOREM NobodyLeftOver == Spec => []NoOrphan
<1>1. Init => Typed /\ Known
    BY InitKnown
<1>2. Typed /\ Known /\ [Next]_vars => Typed' /\ Known'
    BY NextKnown
<1>3. Typed /\ Known => NoOrphan
    BY DEF Typed, Known, NoOrphan
<1> QED
    BY <1>1, <1>2, <1>3, PTL DEF Spec

(***************************************************************************)
(* What the client knows of a server, what the broker retains of it and what  *)
(* is under way.                                                              *)
(***************************************************************************)
\* The last message under way says what is retained; when none is under way, the
\* client has acted upon it.
InStep(s) ==
    connected /\ retained[s] # NoState =>
        /\ \A k : Latest(queue, s, k) => queue[k].state = retained[s]
        /\ Quiet(queue, s) => IF retained[s] = 0 THEN s \notin hosts
                                                 ELSE s \in hosts /\ shown[s] = retained[s]

\* Of a server that has gone, the last message says so, or it is the one that was
\* left behind at the broker.
Farewell(s) ==
    connected /\ ~up[s] =>
        /\ \A k : Latest(queue, s, k) =>
            \/ queue[k].state = 0
            \/ /\ retained[s] # NoState /\ s \notin hosts
               /\ \A j \in DOMAIN queue : Says(queue[j], s) => j = k
        /\ Quiet(queue, s) /\ retained[s] = NoState => s \notin hosts

Agreed(s) == (up[s] => retained[s] # 0) /\ InStep(s) /\ Farewell(s)

AllAgreed == \A s \in Servers : Agreed(s)

LEMMA AgreedStill ==
    ASSUME NEW s \in Servers, Agreed(s), queue' = queue, connected' = connected,
           up'[s] = up[s], retained'[s] = retained[s],
           s \in hosts' <=> s \in hosts, shown'[s] = shown[s]
    PROVE  Agreed(s)'
BY DEF Agreed, InStep, Farewell

\* A message that does not concern the server.
LEMMA AgreedTaken ==
    ASSUME NEW s \in Servers, Agreed(s), queue \in Seq(Message), queue # <<>>,
           queue' = Tail(queue), ~Says(Head(queue), s), connected' = connected,
           up'[s] = up[s], retained'[s] = retained[s],
           s \in hosts' <=> s \in hosts, shown'[s] = shown[s]
    PROVE  Agreed(s)'
<1>1. /\ \A k : Latest(queue', s, k) => Latest(queue, s, k + 1) /\ queue'[k] = queue[k + 1]
      /\ Quiet(queue', s) <=> Quiet(queue, s)
    BY TakenLatest
<1>2. /\ \A j \in DOMAIN queue' : j \in Nat /\ j + 1 \in DOMAIN queue /\ queue'[j] = queue[j + 1]
    BY Taken
<1>3. InStep(s)'
    BY <1>1 DEF Agreed, InStep
<1>4. ASSUME NEW k, Latest(queue', s, k), connected, ~up[s]
      PROVE  \/ queue'[k].state = 0
             \/ /\ retained[s] # NoState /\ s \notin hosts
                /\ \A j \in DOMAIN queue' : Says(queue'[j], s) => j = k
    <2>1. Latest(queue, s, k + 1) /\ queue'[k] = queue[k + 1] /\ k \in DOMAIN queue'
        BY <1>1, <1>4 DEF Latest
    <2>2. \/ queue[k + 1].state = 0
          \/ /\ retained[s] # NoState /\ s \notin hosts
             /\ \A j \in DOMAIN queue : Says(queue[j], s) => j = k + 1
        BY <1>4, <2>1 DEF Agreed, Farewell
    <2>3. ASSUME \A j \in DOMAIN queue : Says(queue[j], s) => j = k + 1,
                 NEW j \in DOMAIN queue', Says(queue'[j], s)
          PROVE  j = k
        <3>1. j + 1 = k + 1
            BY <1>2, <2>3
        <3> QED
            BY <3>1, <1>2, <2>1
    <2> QED
        BY <2>1, <2>2, <2>3
<1>5. Farewell(s)'
    BY <1>1, <1>4 DEF Agreed, Farewell
<1> QED
    BY <1>3, <1>5 DEF Agreed

LEMMA ServerAgreed ==
    ASSUME NEW s \in Servers, Typed, AllAgreed, NEW new \in Seq(Message), ServerStep(s, new)
    PROVE  AllAgreed'
<1>1. /\ Added(queue', queue, new) /\ queue \in Seq(Message)
      /\ \A t \in Servers : t # s => retained'[t] = retained[t] /\ up'[t] = up[t]
      /\ connected' = connected /\ hosts' = hosts /\ shown' = shown
    BY DEF ServerStep, Published, Typed
<1>5. /\ \/ new = <<>> /\ (connected => retained' = retained)
         \/ connected /\ Speech(new, s) /\ retained'[s] = new[Len(new)].state
      /\ IF up[s] THEN IF up'[s] THEN retained'[s] \in {1, 2} \/ retained' = retained
                                 ELSE retained'[s] = 0 /\ (connected => new # <<>>)
                  ELSE IF up'[s] THEN retained'[s] \in {1, 2}
                                 ELSE retained' = retained /\ new = <<>>
    BY DEF ServerStep, Published, Typed
<1>2. new = <<>> => queue' = queue
    BY <1>1, Appended
<1>3. Agreed(s)'
    <2>1. up'[s] => retained'[s] # 0
        BY <1>5 DEF AllAgreed, Agreed
    <2>2. CASE new = <<>>
        <3>1. queue' = queue /\ (connected => retained'[s] = retained[s])
            BY <1>2, <1>5, <2>2 DEF Speech
        <3>2. InStep(s)
            BY DEF AllAgreed, Agreed
        <3>3. InStep(s)'
            BY <1>1, <3>1, <3>2 DEF InStep
        <3>4. connected /\ ~up'[s] => ~up[s]
            BY <1>5, <2>2
        <3>5. Farewell(s)
            BY DEF AllAgreed, Agreed
        <3>6. Farewell(s)'
            BY <1>1, <3>1, <3>4, <3>5 DEF Farewell
        <3> QED
            BY <2>1, <3>3, <3>6 DEF Agreed
    <2>3. CASE new # <<>>
        <3>1. Speech(new, s) /\ retained'[s] = new[Len(new)].state
            BY <1>5, <2>3
        <3>3. /\ ~Quiet(queue', s)
              /\ \A k : Latest(queue', s, k) => queue'[k] = new[Len(new)]
            BY <1>1, <3>1, SpeechAppended
        <3>4. InStep(s)'
            BY <3>1, <3>3 DEF InStep
        <3>5. ~up'[s] => retained'[s] = 0
            BY <1>5, <2>3
        <3>6. Farewell(s)'
            BY <3>1, <3>3, <3>5 DEF Farewell
        <3> QED
            BY <2>1, <3>4, <3>6 DEF Agreed
    <2> QED
        BY <2>2, <2>3
<1>4. ASSUME NEW t \in Servers, t # s PROVE Agreed(t)'
    <2>1. new = <<>> \/ Speech(new, s)
        BY <1>5
    <2>2. /\ Quiet(queue', t) <=> Quiet(queue, t)
          /\ \A k : Latest(queue', t, k) <=> Latest(queue, t, k)
          /\ \A k : Latest(queue, t, k) => queue'[k] = queue[k]
          /\ \A k \in DOMAIN queue' :
                Says(queue'[k], t) => k \in DOMAIN queue /\ Says(queue[k], t)
        BY <1>1, <1>4, <2>1, OthersAppend
    <2>3. retained'[t] = retained[t] /\ up'[t] = up[t]
        BY <1>1, <1>4
    <2>4. Agreed(t)
        BY DEF AllAgreed
    <2>5. InStep(t)'
        BY <1>1, <2>2, <2>3, <2>4 DEF Agreed, InStep
    <2>6. Farewell(t)'
        BY <1>1, <2>2, <2>3, <2>4 DEF Agreed, Farewell
    <2> QED
        BY <2>3, <2>4, <2>5, <2>6 DEF Agreed
<1> QED
    BY <1>3, <1>4 DEF AllAgreed

LEMMA ConnectAgreed ==
    ASSUME Typed, Known, AllAgreed, Connect
    PROVE  /\ AllAgreed'
           /\ \A s \in Servers : retained[s] # NoState => ~Quiet(queue', s)
           /\ \A k \in DOMAIN queue' : queue'[k].instr = Nothing
<1> DEFINE there == {s \in Servers : retained[s] # NoState}
<1>1. hosts' = {} /\ UNCHANGED <<retained, up>>
    BY DEF Connect, Known, ClientOnly, server
<1>2. PICK order \in SetToSeqs(there) :
        queue' = [k \in 1 .. Len(order) |-> Meta(order[k], Nothing, retained[order[k]])]
    BY DEF Connect
<1>3. IsFiniteSet(there)
    BY FiniteAssumption, FS_Subset
<1>4. \A s \in Servers : s \in there <=> retained[s] # NoState
    OBVIOUS
<1> HIDE DEF there
<1>5. Len(order) \in Nat /\ DOMAIN order = 1 .. Len(order) /\ Len(order) = Cardinality(there)
    BY <1>3, OrderOfSet
<1>6. /\ DOMAIN queue' = DOMAIN order
      /\ \A k \in DOMAIN order : queue'[k] = Meta(order[k], Nothing, retained[order[k]])
    BY <1>2, <1>5
<1>7. \A k \in DOMAIN order : /\ queue'[k].is = order[k] /\ queue'[k].instr = Nothing
                              /\ queue'[k].state = retained[order[k]]
    BY <1>6 DEF Meta
<1>8. \A s \in Servers : retained[s] # NoState => ~Quiet(queue', s)
    <2> SUFFICES ASSUME NEW s \in Servers, retained[s] # NoState PROVE ~Quiet(queue', s)
        OBVIOUS
    <2>1. PICK k \in DOMAIN order : order[k] = s
        BY <1>3, <1>4, OrderIsComplete
    <2> QED
        BY <2>1, <1>6, <1>7 DEF Quiet, Says
<1>9. ASSUME NEW s \in Servers, NEW k \in DOMAIN queue', Says(queue'[k], s)
      PROVE  /\ order[k] = s /\ queue'[k].state = retained[s] /\ retained[s] # NoState
             /\ \A j \in DOMAIN queue' : Says(queue'[j], s) => j = k
    <2>1. order[k] = s /\ queue'[k].state = retained[s]
        BY <1>6, <1>7, <1>9 DEF Says
    <2>2. order \in [1 .. Cardinality(there) -> there]
        BY DEF SetToSeqs
    <2>3. \A j, l \in 1 .. Cardinality(there) : j # l => order[j] # order[l]
        BY DEF SetToSeqs
    <2>4. order[k] \in there
        BY <2>2, <1>6
    <2>5. ASSUME NEW j \in DOMAIN queue', Says(queue'[j], s) PROVE j = k
        <3>1. order[j] = s
            BY <1>6, <1>7, <2>5 DEF Says
        <3> QED
            BY <3>1, <2>1, <2>3, <1>5, <1>6
    <2> QED
        BY <2>1, <2>4, <2>5, <1>4
<1>10. ASSUME NEW s \in Servers PROVE Agreed(s)'
    <2>1. InStep(s)'
        BY <1>1, <1>8, <1>9 DEF InStep, Latest
    <2>2. Farewell(s)'
        BY <1>1, <1>9 DEF Farewell, Latest
    <2> QED
        BY <1>1, <2>1, <2>2 DEF AllAgreed, Agreed
<1> QED
    BY <1>6, <1>7, <1>8, <1>10 DEF AllAgreed

LEMMA DisconnectAgreed ==
    ASSUME AllAgreed, Disconnect
    PROVE  AllAgreed'
<1>1. ~connected' /\ UNCHANGED <<retained, up>>
    BY DEF Disconnect, ClientOnly, server
<1> QED
    BY <1>1 DEF AllAgreed, Agreed, InStep, Farewell

\* A server that is heard of: the messages that come after are as they were.
LEMMA HeardOf ==
    ASSUME NEW s \in Servers, Agreed(s), queue \in Seq(Message), queue # <<>>,
           Says(Head(queue), s), connected
    PROVE  /\ \A k : Latest(Tail(queue), s, k) =>
                /\ retained[s] # NoState => Tail(queue)[k].state = retained[s]
                /\ ~up[s] => Tail(queue)[k].state = 0
           /\ Quiet(Tail(queue), s) =>
                /\ retained[s] # NoState => Head(queue).state = retained[s]
                /\ ~up[s] /\ retained[s] = NoState => Head(queue).state = 0
<1>1. /\ \A k : Latest(Tail(queue), s, k) => /\ Latest(queue, s, k + 1)
                                             /\ Tail(queue)[k] = queue[k + 1]
      /\ Quiet(Tail(queue), s) => Latest(queue, s, 1)
    BY TakenLatest
<1>2. /\ 1 \in DOMAIN queue /\ Head(queue) = queue[1]
      /\ \A k \in DOMAIN Tail(queue) : k \in Nat
    BY Taken
<1>3. \A k \in DOMAIN queue : k \in Nat /\ k > 0
    BY Lengths
<1>4. ASSUME NEW k, Latest(Tail(queue), s, k)
      PROVE  /\ retained[s] # NoState => Tail(queue)[k].state = retained[s]
             /\ ~up[s] => Tail(queue)[k].state = 0
    <2>1. /\ Latest(queue, s, k + 1) /\ Tail(queue)[k] = queue[k + 1]
          /\ k \in DOMAIN Tail(queue)
        BY <1>1, <1>4 DEF Latest
    <2>2. k + 1 # 1
        <3>1. k \in Nat /\ k + 1 \in DOMAIN queue
            BY <1>2, <2>1 DEF Latest
        <3>2. k # 0
            BY Taken, Lengths, <2>1
        <3> QED
            BY <3>1, <3>2
    <2>3. ~up[s] => queue[k + 1].state = 0
        BY <1>2, <2>1, <2>2 DEF Agreed, Farewell
    <2>4. retained[s] # NoState => queue[k + 1].state = retained[s]
        BY <2>1 DEF Agreed, InStep
    <2> QED
        BY <2>1, <2>3, <2>4
<1>5. ASSUME Quiet(Tail(queue), s)
      PROVE  /\ retained[s] # NoState => Head(queue).state = retained[s]
             /\ ~up[s] /\ retained[s] = NoState => Head(queue).state = 0
    BY <1>1, <1>2, <1>5 DEF Agreed, InStep, Farewell
<1> QED
    BY <1>4, <1>5

LEMMA OnLineAgreed ==
    ASSUME Typed, Known, AllAgreed, ServerOnLine
    PROVE  AllAgreed'
<1>1. PICK m : /\ Receive(m) /\ m.instr = Nothing /\ m.state # 0
               /\ AddHost(m.is, m.state)
               /\ UNCHANGED <<retained, connected, up>>
    BY DEF ServerOnLine, ClientOnly, server
<1>2. /\ queue # <<>> /\ queue \in Seq(Message) /\ m = Head(queue) /\ queue' = Tail(queue)
      /\ m.is \in Servers /\ Says(Head(queue), m.is)
    BY <1>1, Receiving DEF Typed, Says
<1>3. hosts' = hosts \cup {m.is} /\ shown' = [shown EXCEPT ![m.is] = m.state]
    BY <1>1 DEF AddHost
<1>4. connected
    BY <1>2 DEF Typed, Known
<1>5. ASSUME NEW s \in Servers, s # m.is PROVE Agreed(s)'
    <2>1. ~Says(Head(queue), s) /\ (s \in hosts' <=> s \in hosts) /\ shown'[s] = shown[s]
        BY <1>2, <1>3, <1>5 DEF Says, Typed
    <2> QED
        BY <1>1, <1>2, <2>1, AgreedTaken DEF AllAgreed
<1>6. Agreed(m.is)'
    <2> DEFINE s == m.is
    <2>1. s \in Servers /\ Agreed(s) /\ Says(Head(queue), s) /\ Head(queue).state # 0
        BY <1>1, <1>2 DEF AllAgreed
    <2>2. s \in hosts' /\ shown'[s] = Head(queue).state
        BY <1>2, <1>3 DEF Typed
    <2> HIDE DEF s
    <2>3. /\ \A k : Latest(queue', s, k) =>
                /\ retained[s] # NoState => queue'[k].state = retained[s]
                /\ ~up[s] => queue'[k].state = 0
          /\ Quiet(queue', s) =>
                /\ retained[s] # NoState => Head(queue).state = retained[s]
                /\ ~up[s] /\ retained[s] = NoState => Head(queue).state = 0
        BY <1>2, <1>4, <2>1, HeardOf
    <2>4. InStep(s)'
        BY <1>1, <2>1, <2>2, <2>3 DEF InStep
    <2>5. Farewell(s)'
        BY <1>1, <2>1, <2>3 DEF Farewell
    <2>6. up'[s] => retained'[s] # 0
        BY <1>1, <2>1 DEF Agreed
    <2>7. Agreed(s)'
        BY <2>4, <2>5, <2>6 DEF Agreed
    <2> QED
        BY <2>7 DEF s
<1> QED
    BY <1>5, <1>6 DEF AllAgreed

LEMMA OffLineAgreed ==
    ASSUME Typed, Known, AllAgreed, ServerOffLine
    PROVE  AllAgreed'
<1>1. PICK m : /\ Receive(m) /\ m.instr = Nothing /\ m.state = 0
               /\ RemoveHosts({m.is})
               /\ UNCHANGED <<retained, connected, up>>
    BY DEF ServerOffLine, ClientOnly, server
<1>2. /\ queue # <<>> /\ queue \in Seq(Message) /\ m = Head(queue) /\ queue' = Tail(queue)
      /\ m.is \in Servers /\ Says(Head(queue), m.is) /\ {m.is} \in SUBSET Servers
    BY <1>1, Receiving DEF Typed, Says
<1>3. hosts' = hosts \ {m.is} /\ \A s \in Servers : s # m.is => shown'[s] = shown[s]
    BY <1>1, <1>2, RemovingHosts
<1>4. connected
    BY <1>2 DEF Typed, Known
<1>5. ASSUME NEW s \in Servers, s # m.is PROVE Agreed(s)'
    <2>1. ~Says(Head(queue), s) /\ (s \in hosts' <=> s \in hosts) /\ shown'[s] = shown[s]
        BY <1>2, <1>3, <1>5 DEF Says
    <2> QED
        BY <1>1, <1>2, <2>1, AgreedTaken DEF AllAgreed
<1>6. Agreed(m.is)'
    <2> DEFINE s == m.is
    <2>1. s \in Servers /\ Agreed(s) /\ Says(Head(queue), s) /\ Head(queue).state = 0
        BY <1>1, <1>2 DEF AllAgreed
    <2>2. s \notin hosts'
        BY <1>3
    <2> HIDE DEF s
    <2>3. /\ \A k : Latest(queue', s, k) =>
                /\ retained[s] # NoState => queue'[k].state = retained[s]
                /\ ~up[s] => queue'[k].state = 0
          /\ Quiet(queue', s) => (retained[s] # NoState => Head(queue).state = retained[s])
        BY <1>2, <1>4, <2>1, HeardOf
    <2>4. InStep(s)'
        BY <1>1, <2>1, <2>2, <2>3 DEF InStep
    <2>5. Farewell(s)'
        BY <1>1, <2>2, <2>3 DEF Farewell
    <2>6. up'[s] => retained'[s] # 0
        BY <1>1, <2>1 DEF Agreed
    <2>7. Agreed(s)'
        BY <2>4, <2>5, <2>6 DEF Agreed
    <2> QED
        BY <2>7 DEF s
<1> QED
    BY <1>5, <1>6 DEF AllAgreed

\* Messages about instruments.
LEMMA InstrumentAgreed ==
    ASSUME Typed, AllAgreed, InstrumentThere \/ InstrumentGone
    PROVE  AllAgreed'
<1>1. PICK m : /\ Receive(m) /\ m.instr # Nothing
               /\ UNCHANGED <<retained, connected, up, hosts, shown>>
    BY DEF InstrumentThere, InstrumentGone, ClientOnly, server
<1>2. /\ queue # <<>> /\ queue \in Seq(Message) /\ queue' = Tail(queue)
      /\ \A s \in Servers : ~Says(Head(queue), s)
    BY <1>1, Receiving DEF Typed, Says
<1>3. ASSUME NEW s \in Servers PROVE Agreed(s)'
    BY <1>1, <1>2, AgreedTaken DEF AllAgreed
<1> QED
    BY <1>3 DEF AllAgreed

LEMMA TimeoutAgreed ==
    ASSUME Typed, Known, AllAgreed, NEW s \in Servers, NEW o \in Orders, Timeout(s, o)
    PROVE  AllAgreed'
<1>1. /\ IF s \in rescan_lock
         THEN /\ RemoveHosts({s})
              /\ retained' = [retained EXCEPT ![s] = NoState]
         ELSE UNCHANGED <<hosts, shown, retained>>
      /\ UNCHANGED <<queue, connected, up>>
    BY DEF Timeout, ClientOnly, server
<1>2. CASE s \notin rescan_lock
    BY <1>1, <1>2, AgreedStill DEF AllAgreed
<1>3. CASE s \in rescan_lock
    <2>1. {s} \in SUBSET Servers
        OBVIOUS
    <2>2. hosts' = hosts \ {s} /\ \A t \in Servers : t # s => shown'[t] = shown[t]
        BY <1>1, <1>3, <2>1, RemovingHosts
    <2>3. retained'[s] = NoState /\ \A t \in Servers : t # s => retained'[t] = retained[t]
        BY <1>1, <1>3 DEF Typed
    <2>4. ASSUME NEW t \in Servers, t # s PROVE Agreed(t)'
        <3>1. t \in hosts' <=> t \in hosts
            BY <2>2, <2>4
        <3> QED
            BY <1>1, <2>2, <2>3, <2>4, <3>1, AgreedStill DEF AllAgreed
    <2>5. s \in hosts /\ s \notin hosts' /\ NoState # 0
        BY <1>3, <2>2 DEF Typed, NoState
    <2>6. Agreed(s)
        BY DEF AllAgreed
    <2>7. InStep(s)'
        BY <2>3 DEF InStep
    <2>8. Farewell(s)'
        BY <1>1, <2>5, <2>6 DEF Farewell, Agreed
    <2>9. Agreed(s)'
        BY <2>3, <2>5, <2>7, <2>8 DEF Agreed
    <2> QED
        BY <2>4, <2>9 DEF AllAgreed
<1> QED
    BY <1>2, <1>3

LEMMA NextAgreed == Typed /\ Known /\ AllAgreed /\ [Next]_vars => AllAgreed'
<1>1. ASSUME Typed, Known, AllAgreed, Next PROVE AllAgreed'
    <2>1. ASSUME NEW s \in Servers, ServerActs(s) PROVE AllAgreed'
        BY <1>1, <2>1, ServerSteps, ServerAgreed
    <2>2. ASSUME \/ \E i \in Instruments : GivesUp(i) \/ Exits(i)
                 \/ ReportedAgain
                 \/ \E s \in Servers : \E o \in Orders : Order(s, o)
          PROVE  AllAgreed'
        <3>1. UNCHANGED <<queue, connected, up, retained, hosts, shown>>
            BY <2>2 DEF GivesUp, Exits, ReportedAgain, Order, ClientOnly, server
        <3> QED
            BY <1>1, <3>1, AgreedStill DEF AllAgreed
    <2> QED
        BY <1>1, <2>1, <2>2, Steps, ConnectAgreed, DisconnectAgreed, OnLineAgreed, OffLineAgreed,
           InstrumentAgreed, TimeoutAgreed
<1>2. ASSUME AllAgreed, UNCHANGED vars PROVE AllAgreed'
    <2>1. UNCHANGED <<queue, connected, up, retained, hosts, shown>>
        BY <1>2 DEF vars, server
    <2> QED
        BY <1>2, <2>1, AgreedStill DEF AllAgreed
<1> QED
    BY <1>1, <1>2

LEMMA InitAgreed == Init => AllAgreed
<1> SUFFICES ASSUME Init, NEW s \in Servers PROVE Agreed(s)
    BY DEF AllAgreed
<1>1. ~connected /\ (up[s] => retained[s] # 0)
    BY DEF Init, NoState
<1> QED
    BY <1>1 DEF Agreed, InStep, Farewell

(***************************************************************************)
(* No instrument of a server on line is lost: it has its device actor, or      *)
(* something is still to come that leads to one.                               *)
(***************************************************************************)
\* A message that would take the device actor away from the server.
Spoils(m, s, i) == m.instr = i /\ (m.is = s <=> m.state = 0)

\* Such a message is old, the server has spoken after it.
Unspoiled(s, i) ==
    up[s] /\ at[i] = s /\ connected /\ i \in reservations[s] =>
        \A k \in DOMAIN queue : Spoils(queue[k], s, i) => Followed(queue, s, k)

Tended(s, i) ==
    /\ up[s] /\ at[i] = s /\ connected /\ retained[s] # NoState /\ i \in reservations[s]
    /\ i \notin unheard
    => asked[s] \/ "update" \in cmd[s] \/ ~Quiet(queue, s) \/ child_host[i] = s

AllUnspoiled == \A s \in Servers : \A i \in Instruments : Unspoiled(s, i)
AllTended == \A s \in Servers : \A i \in Instruments : Tended(s, i)

LEMMA ServerUnspoiled ==
    ASSUME NEW s \in Servers, Typed, AllUnspoiled, NEW new \in Seq(Message), ServerStep(s, new)
    PROVE  AllUnspoiled'
<1>1. /\ Added(queue', queue, new) /\ queue \in Seq(Message)
      /\ connected' = connected
      /\ \A t \in Servers : t # s => up'[t] = up[t] /\ reservations'[t] = reservations[t]
      /\ \A i \in Instruments : at'[i] = at[i] \/ at'[i] = s
    BY DEF ServerStep, Published, Typed
<1>2. new = <<>> \/ Speech(new, s)
    BY DEF ServerStep, Published
<1>3. ASSUME NEW i \in Instruments PROVE Unspoiled(s, i)'
    <2>1. CASE new = <<>>
        <3>1. queue' = queue
            BY <1>1, <2>1, Appended
        <3>2. up'[s] /\ at'[i] = s /\ i \in reservations'[s] /\ connected =>
                up[s] /\ at[i] = s /\ i \in reservations[s]
            BY <2>1 DEF ServerStep, Attended
        <3>3. Unspoiled(s, i)
            BY DEF AllUnspoiled
        <3> QED
            BY <1>1, <3>1, <3>2, <3>3 DEF Unspoiled
    <2>2. CASE Speech(new, s)
        <3>1. \A k \in DOMAIN queue' :
                Followed(queue', s, k) \/ queue'[k] = new[Len(new)]
            BY <1>1, <2>2, SpeechAppended
        <3>2. new[Len(new)].instr # i
            BY <2>2, NothingAssumption DEF Speech, Says
        <3> QED
            BY <3>1, <3>2 DEF Unspoiled, Spoils
    <2> QED
        BY <1>2, <2>1, <2>2
<1>4. ASSUME NEW t \in Servers, t # s, NEW i \in Instruments PROVE Unspoiled(t, i)'
    <2> SUFFICES ASSUME up'[t], at'[i] = t, connected, i \in reservations'[t],
                        NEW k \in DOMAIN queue', Spoils(queue'[k], t, i)
                 PROVE  Followed(queue', t, k)
        BY <1>1 DEF Unspoiled
    <2>1. at[i] = t /\ up[t] /\ i \in reservations[t]
        BY <1>1, <1>4
    <2>2. CASE k \in DOMAIN queue
        <3>1. queue'[k] = queue[k]
            BY <1>1, <2>2, Appended
        <3>2. Followed(queue, t, k)
            BY <2>1, <2>2, <3>1 DEF AllUnspoiled, Unspoiled
        <3> QED
            BY <1>1, <2>2, <3>2, StillFollowed
    <2>3. CASE k \notin DOMAIN queue
        <3>1. k - Len(queue) \in DOMAIN new /\ queue'[k] = new[k - Len(queue)]
            BY <1>1, <2>3, Appended
        <3>2. new[k - Len(queue)].is = s
            BY <1>2, <3>1 DEF Speech
        <3>3. queue'[k].is # t /\ queue'[k].state # 0 /\ queue'[k].instr = i
            BY <1>4, <3>1, <3>2 DEF Spoils
        <3>4. at[i] = s
            <4>1. \A j \in DOMAIN new :
                    new[j].instr = Nothing \/ new[j].state = 0 \/ at[new[j].instr] = s
                BY DEF ServerStep
            <4>2. i # Nothing
                BY NothingAssumption
            <4> QED
                BY <3>1, <3>3, <4>1, <4>2
        <3> QED
            BY <1>4, <2>1, <3>4
    <2> QED
        BY <2>2, <2>3
<1> QED
    BY <1>3, <1>4 DEF AllUnspoiled

LEMMA ServerTended ==
    ASSUME NEW s \in Servers, Typed, AllTended, NEW new \in Seq(Message), ServerStep(s, new)
    PROVE  AllTended'
<1>1. /\ Added(queue', queue, new) /\ queue \in Seq(Message)
      /\ connected' = connected /\ child_host' = child_host
      /\ \A t \in Servers : t # s => /\ up'[t] = up[t] /\ reservations'[t] = reservations[t]
                                     /\ asked'[t] = asked[t] /\ cmd'[t] = cmd[t]
                                     /\ retained'[t] = retained[t]
      /\ \A i \in Instruments : at'[i] = at[i] \/ at'[i] = s
      /\ unheard \subseteq unheard'
    BY DEF ServerStep, Published, Typed
<1>2. \/ new = <<>> /\ (connected => retained' = retained)
      \/ Speech(new, s)
    BY DEF ServerStep, Published
<1>3. ASSUME NEW i \in Instruments PROVE Tended(s, i)'
    <2>1. CASE new = <<>>
        <3>1. queue' = queue
            BY <1>1, <2>1, Appended
        <3>2. up'[s] /\ at'[i] = s /\ i \in reservations'[s] /\ connected =>
                /\ up[s] /\ at[i] = s /\ i \in reservations[s]
                /\ i \notin unheard' /\ (asked[s] \/ "update" \in cmd[s]) =>
                    asked'[s] \/ "update" \in cmd'[s] \/ child_host[i] = s
            BY <2>1 DEF ServerStep, Attended
        <3>3. Tended(s, i)
            BY DEF AllTended
        <3>4. connected => retained' = retained
            BY <1>2, <2>1 DEF Speech
        <3> QED
            BY <1>1, <3>1, <3>2, <3>3, <3>4 DEF Tended
    <2>2. CASE Speech(new, s)
        <3>1. ~Quiet(queue', s)
            BY <1>1, <2>2, SpeechAppended
        <3> QED
            BY <3>1 DEF Tended
    <2> QED
        BY <1>2, <2>1, <2>2
<1>4. ASSUME NEW t \in Servers, t # s, NEW i \in Instruments PROVE Tended(t, i)'
    <2>1. Quiet(queue', t) <=> Quiet(queue, t)
        BY <1>1, <1>2, <1>4, OthersAppend
    <2>2. at'[i] = t => at[i] = t
        BY <1>1, <1>4
    <2>3. Tended(t, i)
        BY DEF AllTended
    <2>4. /\ up'[t] = up[t] /\ reservations'[t] = reservations[t]
          /\ asked'[t] = asked[t] /\ cmd'[t] = cmd[t] /\ retained'[t] = retained[t]
        BY <1>1, <1>4
    <2> QED
        BY <1>1, <2>1, <2>2, <2>3, <2>4 DEF Tended
<1> QED
    BY <1>3, <1>4 DEF AllTended

\* A step of the client that leaves the queue alone.
LEMMA SameQueueUnspoiled ==
    ASSUME AllUnspoiled, UNCHANGED <<up, at, connected, reservations, queue>>
    PROVE  AllUnspoiled'
BY DEF AllUnspoiled, Unspoiled

\* The client takes a message.
LEMMA TakenUnspoiled ==
    ASSUME AllUnspoiled, queue \in Seq(Message), queue # <<>>, queue' = Tail(queue),
           UNCHANGED <<up, at, connected, reservations>>
    PROVE  AllUnspoiled'
<1> SUFFICES ASSUME NEW s \in Servers, NEW i \in Instruments PROVE Unspoiled(s, i)'
    BY DEF AllUnspoiled
<1>1. /\ \A k \in DOMAIN queue' : k + 1 \in DOMAIN queue /\ queue'[k] = queue[k + 1]
      /\ \A k \in DOMAIN queue' : Followed(queue, s, k + 1) => Followed(queue', s, k)
    BY Taken, TakenFollowed
<1>2. Unspoiled(s, i)
    BY DEF AllUnspoiled
<1> QED
    BY <1>1, <1>2 DEF Unspoiled

\* The message it takes has spoilt something: the server speaks later.
LEMMA SpoiltIsMended ==
    ASSUME AllUnspoiled, queue \in Seq(Message), queue # <<>>,
           NEW s \in Servers, NEW i \in Instruments,
           up[s], at[i] = s, connected, i \in reservations[s], Spoils(Head(queue), s, i)
    PROVE  ~Quiet(Tail(queue), s)
<1>1. 1 \in DOMAIN queue /\ Head(queue) = queue[1]
    BY Taken
<1>2. Followed(queue, s, 1)
    BY <1>1 DEF AllUnspoiled, Unspoiled
<1> QED
    BY <1>2, TakenFollowed

LEMMA ConnectTended ==
    ASSUME Typed, Known, AllAgreed, Connect
    PROVE  AllTended' /\ AllUnspoiled'
<1>1. /\ \A s \in Servers : retained[s] # NoState => ~Quiet(queue', s)
      /\ \A k \in DOMAIN queue' : queue'[k].instr = Nothing
    BY ConnectAgreed
<1>2. retained' = retained
    BY DEF Connect
<1>3. AllTended'
    BY <1>1, <1>2 DEF AllTended, Tended
<1>4. AllUnspoiled'
    BY <1>1, NothingAssumption DEF AllUnspoiled, Unspoiled, Spoils
<1> QED
    BY <1>3, <1>4

LEMMA DisconnectTended ==
    ASSUME Disconnect
    PROVE  AllTended' /\ AllUnspoiled'
<1>1. ~connected'
    BY DEF Disconnect
<1> QED
    BY <1>1 DEF AllTended, Tended, AllUnspoiled, Unspoiled

LEMMA OnLineTended ==
    ASSUME Typed, Known, AllUnspoiled, AllTended, ServerOnLine
    PROVE  AllTended' /\ AllUnspoiled'
<1>1. PICK m : /\ Receive(m) /\ m.instr = Nothing
               /\ cmd' = [cmd EXCEPT ![m.is] = @ \cup {"update"}]
               /\ UNCHANGED <<retained, connected, child_host, unheard>>
               /\ UNCHANGED <<up, at, reservations, asked>>
    BY DEF ServerOnLine, ClientOnly, server, device
<1>2. /\ queue # <<>> /\ queue \in Seq(Message) /\ m = Head(queue) /\ queue' = Tail(queue)
      /\ m.is \in Servers
    BY <1>1, Receiving DEF Typed
<1>3. AllUnspoiled'
    BY <1>1, <1>2, TakenUnspoiled
<1>4. /\ "update" \in cmd'[m.is]
      /\ \A s \in Servers : s # m.is => cmd'[s] = cmd[s]
    BY <1>1, <1>2 DEF Typed
<1>5. ASSUME NEW s \in Servers, s # m.is, NEW i \in Instruments PROVE Tended(s, i)'
    <2>1. ~Says(Head(queue), s)
        BY <1>2, <1>5 DEF Says
    <2>2. Quiet(queue', s) <=> Quiet(queue, s)
        BY <1>2, <2>1, TakenLatest
    <2>3. Tended(s, i)
        BY DEF AllTended
    <2> QED
        BY <1>1, <1>4, <1>5, <2>2, <2>3 DEF Tended
<1>6. ASSUME NEW i \in Instruments PROVE Tended(m.is, i)'
    BY <1>4 DEF Tended
<1>7. AllTended'
    BY <1>5, <1>6 DEF AllTended
<1> QED
    BY <1>3, <1>7

LEMMA OffLineTended ==
    ASSUME Typed, Known, AllAgreed, AllUnspoiled, AllTended, ServerOffLine
    PROVE  AllTended' /\ AllUnspoiled'
<1>1. PICK m : /\ Receive(m) /\ m.instr = Nothing /\ m.state = 0
               /\ RemoveHosts({m.is})
               /\ UNCHANGED <<retained, connected, unheard>>
               /\ UNCHANGED <<up, at, reservations, asked>>
    BY DEF ServerOffLine, ClientOnly, server
<1>2. /\ queue # <<>> /\ queue \in Seq(Message) /\ m = Head(queue) /\ queue' = Tail(queue)
      /\ m.is \in Servers /\ Says(Head(queue), m.is) /\ {m.is} \in SUBSET Servers
    BY <1>1, Receiving DEF Typed, Says
<1>3. AllUnspoiled'
    BY <1>1, <1>2, TakenUnspoiled
<1>4. /\ \A i \in Instruments : child_host[i] \notin {m.is} => child_host'[i] = child_host[i]
      /\ \A s \in Servers : "update" \in cmd[s] => "update" \in cmd'[s]
    BY <1>1, <1>2, RemovingHosts
<1>5. connected
    BY <1>2 DEF Typed, Known
<1>6. ASSUME NEW s \in Servers, s # m.is, NEW i \in Instruments PROVE Tended(s, i)'
    <2>1. ~Says(Head(queue), s)
        BY <1>2, <1>6 DEF Says
    <2>2. Quiet(queue', s) <=> Quiet(queue, s)
        BY <1>2, <2>1, TakenLatest
    <2>3. Tended(s, i)
        BY DEF AllTended
    <2>4. child_host[i] = s => child_host'[i] = s
        BY <1>4, <1>6
    <2> QED
        BY <1>1, <1>4, <2>2, <2>3, <2>4 DEF Tended
\* The last message of a server on line is not this one.
<1>7. ASSUME NEW i \in Instruments PROVE Tended(m.is, i)'
    <2> DEFINE s == m.is
    <2>1. s \in Servers /\ Agreed(s) /\ Says(Head(queue), s) /\ Head(queue).state = 0
        BY <1>1, <1>2 DEF AllAgreed
    <2> HIDE DEF s
    <2>2. Quiet(queue', s) /\ retained[s] # NoState => retained[s] = 0
        BY <1>2, <1>5, <2>1, HeardOf
    <2>3. up[s] => retained[s] # 0
        BY <2>1 DEF Agreed
    <2>4. Tended(s, i)'
        BY <1>1, <2>2, <2>3 DEF Tended
    <2> QED
        BY <2>4 DEF s
<1>8. AllTended'
    BY <1>6, <1>7 DEF AllTended
<1> QED
    BY <1>3, <1>8

LEMMA InstrumentTended ==
    ASSUME Typed, Known, AllAgreed, AllUnspoiled, AllTended, InstrumentThere
    PROVE  AllTended' /\ AllUnspoiled'
<1>1. PICK m : /\ Receive(m) /\ m.instr # Nothing /\ m.state # 0
               /\ IF m.is \in hosts
                  THEN /\ IF child_host[m.instr] = Nothing
                          THEN AddInstr(m.is, m.instr) ELSE UpdateInstr(m.is, m.instr)
                       /\ unheard' = unheard \ {m.instr}
                  ELSE UNCHANGED <<child_host, prepared, unheard>>
               /\ UNCHANGED <<retained, cmd, connected>>
               /\ UNCHANGED <<up, at, reservations, asked>>
    BY DEF InstrumentThere, server
<1>2. /\ queue # <<>> /\ queue \in Seq(Message) /\ m = Head(queue) /\ queue' = Tail(queue)
      /\ m.is \in Servers /\ m.instr \in Instruments
    BY <1>1, Receiving DEF Typed
<1>3. AllUnspoiled'
    BY <1>1, <1>2, TakenUnspoiled
<1>4. /\ m.is \in hosts => /\ child_host' = [child_host EXCEPT ![m.instr] = m.is]
                           /\ unheard' = unheard \ {m.instr}
      /\ m.is \notin hosts => child_host' = child_host /\ unheard' = unheard
    BY <1>1 DEF AddInstr, UpdateInstr
<1>5. \A s \in Servers : Quiet(queue', s) <=> Quiet(queue, s)
    <2>1. \A s \in Servers : ~Says(Head(queue), s)
        BY <1>1, <1>2 DEF Says
    <2> QED
        BY <1>2, <2>1, TakenLatest
<1>6. ASSUME NEW s \in Servers, NEW i \in Instruments, i # m.instr PROVE Tended(s, i)'
    <2>1. child_host'[i] = child_host[i] /\ (i \in unheard' <=> i \in unheard)
        BY <1>2, <1>4, <1>6 DEF Typed
    <2>2. Tended(s, i)
        BY DEF AllTended
    <2> QED
        BY <1>1, <1>5, <2>1, <2>2 DEF Tended
<1>7. ASSUME NEW s \in Servers, s # m.is PROVE Tended(s, m.instr)'
    <2>1. Spoils(Head(queue), s, m.instr)
        BY <1>1, <1>2, <1>7 DEF Spoils
    <2>2. up[s] /\ at[m.instr] = s /\ connected /\ m.instr \in reservations[s] =>
            ~Quiet(queue', s)
        BY <1>2, <2>1, SpoiltIsMended
    <2> QED
        BY <1>1, <2>2 DEF Tended
<1>8. Tended(m.is, m.instr)'
    <2> DEFINE s == m.is
               i == m.instr
    <2>1. s \in Servers /\ Agreed(s)
        BY <1>2 DEF AllAgreed
    <2>2. s \in hosts => child_host'[i] = s
        BY <1>2, <1>4 DEF Typed
    <2> HIDE DEF s, i
    <2>3. Quiet(queue', s) /\ connected /\ retained[s] # NoState /\ up[s] => s \in hosts
        BY <1>5, <2>1 DEF Agreed, InStep
    <2>4. Tended(s, i)'
        BY <1>1, <2>2, <2>3 DEF Tended
    <2> QED
        BY <2>4 DEF s, i
<1>9. AllTended'
    BY <1>6, <1>7, <1>8 DEF AllTended
<1> QED
    BY <1>3, <1>9

LEMMA GoneTended ==
    ASSUME Typed, Known, AllUnspoiled, AllTended, InstrumentGone
    PROVE  AllTended' /\ AllUnspoiled'
<1>1. PICK m : /\ Receive(m) /\ m.instr # Nothing /\ m.state = 0
               /\ End({j \in {m.instr} : child_host[j] = m.is})
               /\ UNCHANGED <<retained, connected, unheard>>
               /\ UNCHANGED <<up, at, reservations, asked>>
    BY DEF InstrumentGone, RemoveInstr, ClientOnly, server
<1>2. /\ queue # <<>> /\ queue \in Seq(Message) /\ m = Head(queue) /\ queue' = Tail(queue)
    BY <1>1, Receiving DEF Typed
<1>3. AllUnspoiled'
    BY <1>1, <1>2, TakenUnspoiled
<1>4. \A i \in Instruments :
        child_host'[i] = IF i = m.instr /\ child_host[i] = m.is THEN Nothing ELSE child_host[i]
    BY <1>1 DEF End
<1>8. \A s \in Servers : "update" \in cmd[s] => "update" \in cmd'[s]
    BY <1>1, Ending
<1>5. \A s \in Servers : Quiet(queue', s) <=> Quiet(queue, s)
    <2>1. \A s \in Servers : ~Says(Head(queue), s)
        BY <1>1, <1>2 DEF Says
    <2> QED
        BY <1>2, <2>1, TakenLatest
<1>6. ASSUME NEW s \in Servers, NEW i \in Instruments PROVE Tended(s, i)'
    <2>1. CASE i = m.instr /\ s = m.is
        <3>1. Spoils(Head(queue), s, i)
            BY <1>1, <1>2, <2>1 DEF Spoils
        <3>2. up[s] /\ at[i] = s /\ connected /\ i \in reservations[s] => ~Quiet(queue', s)
            BY <1>2, <3>1, SpoiltIsMended
        <3> QED
            BY <1>1, <3>2 DEF Tended
    <2>2. CASE i # m.instr \/ s # m.is
        <3>1. child_host[i] = s => child_host'[i] = s
            BY <1>4, <2>2
        <3>2. Tended(s, i)
            BY DEF AllTended
        <3> QED
            BY <1>1, <1>5, <1>8, <3>1, <3>2 DEF Tended
    <2> QED
        BY <2>1, <2>2
<1>7. AllTended'
    BY <1>6 DEF AllTended
<1> QED
    BY <1>3, <1>7

LEMMA GivesUpTended ==
    ASSUME AllUnspoiled, AllTended, NEW i \in Instruments, GivesUp(i)
    PROVE  AllTended' /\ AllUnspoiled'
<1>1. UNCHANGED <<retained, cmd, queue, connected, child_host, unheard, up, at, reservations, asked>>
    BY DEF GivesUp, ClientOnly, server
<1>2. AllUnspoiled'
    BY <1>1, SameQueueUnspoiled
<1>3. AllTended'
    BY <1>1 DEF AllTended, Tended
<1> QED
    BY <1>2, <1>3

\* The server is asked for the instrument, or the instrument counts as unheard.
LEMMA ExitsTended ==
    ASSUME Typed, Known, AllUnspoiled, AllTended, NEW i \in Instruments, Exits(i)
    PROVE  AllTended' /\ AllUnspoiled'
<1>1. /\ End({i})
      /\ unheard' = IF resurrect = child_host[i] THEN unheard ELSE unheard \cup {i}
      /\ UNCHANGED <<retained, queue, connected>>
      /\ UNCHANGED <<up, at, reservations, asked>>
    BY DEF Exits, server
<1>2. AllUnspoiled'
    BY <1>1, SameQueueUnspoiled
<1>3. /\ \A s \in Servers : "update" \in cmd[s] => "update" \in cmd'[s]
      /\ resurrect \in Servers => "update" \in cmd'[resurrect]
    BY <1>1, Ending
<1>4. /\ \A j \in Instruments : j # i => child_host'[j] = child_host[j]
      /\ unheard \subseteq unheard'
      /\ i \notin unheard' => resurrect = child_host[i]
    BY <1>1 DEF End
<1>5. ASSUME NEW s \in Servers, NEW j \in Instruments PROVE Tended(s, j)'
    <2>1. Tended(s, j)
        BY DEF AllTended
    <2>2. child_host[j] = s /\ j \notin unheard' =>
            child_host'[j] = s \/ "update" \in cmd'[s]
        BY <1>3, <1>4
    <2> QED
        BY <1>1, <1>3, <1>4, <2>1, <2>2 DEF Tended
<1>6. AllTended'
    BY <1>5 DEF AllTended
<1> QED
    BY <1>2, <1>6

LEMMA ReportedTended ==
    ASSUME Typed, AllUnspoiled, AllTended, ReportedAgain
    PROVE  AllTended' /\ AllUnspoiled'
<1>1. /\ cmd' = [s \in Servers |-> IF s = resurrect THEN cmd[s] \cup {"update"} ELSE cmd[s]]
      /\ UNCHANGED <<retained, queue, connected, child_host, unheard, up, at, reservations, asked>>
    BY DEF ReportedAgain, AskToResurrect, ClientOnly, server
<1>2. AllUnspoiled'
    BY <1>1, SameQueueUnspoiled
<1>3. \A s \in Servers : "update" \in cmd[s] => "update" \in cmd'[s]
    BY <1>1
<1>4. AllTended'
    BY <1>1, <1>3 DEF AllTended, Tended
<1> QED
    BY <1>2, <1>4

LEMMA OrderTended ==
    ASSUME Typed, AllUnspoiled, AllTended, NEW s \in Servers, NEW o \in Orders, Order(s, o)
    PROVE  AllTended' /\ AllUnspoiled'
<1>1. /\ cmd' = [cmd EXCEPT ![s] = @ \cup {o}]
      /\ UNCHANGED <<retained, queue, connected, child_host, unheard>>
      /\ UNCHANGED <<up, at, reservations, asked>>
    BY DEF Order, ClientOnly, server, device
<1>2. AllUnspoiled'
    BY <1>1, SameQueueUnspoiled
<1>3. \A t \in Servers : "update" \in cmd[t] => "update" \in cmd'[t]
    BY <1>1 DEF Typed
<1>4. AllTended'
    BY <1>1, <1>3 DEF AllTended, Tended
<1> QED
    BY <1>2, <1>4

LEMMA TimeoutTended ==
    ASSUME Typed, Known, AllUnspoiled, AllTended,
           NEW s \in Servers, NEW o \in Orders, Timeout(s, o)
    PROVE  AllTended' /\ AllUnspoiled'
<1>1. /\ IF s \in rescan_lock
         THEN RemoveHosts({s}) /\ retained' = [retained EXCEPT ![s] = NoState]
         ELSE UNCHANGED <<child_host, cmd, retained>>
      /\ UNCHANGED <<queue, connected, unheard>>
      /\ UNCHANGED <<up, at, reservations, asked>>
    BY DEF Timeout, ClientOnly, server, device
<1>2. AllUnspoiled'
    BY <1>1, SameQueueUnspoiled
<1>3. CASE s \notin rescan_lock
    <2>1. UNCHANGED <<child_host, cmd, retained>>
        BY <1>1, <1>3
    <2>2. AllTended'
        BY <1>1, <2>1 DEF AllTended, Tended
    <2> QED
        BY <1>2, <2>2
<1>4. CASE s \in rescan_lock
    <2>1. {s} \in SUBSET Servers
        OBVIOUS
    <2>2. /\ \A i \in Instruments : child_host[i] \notin {s} => child_host'[i] = child_host[i]
          /\ \A t \in Servers : "update" \in cmd[t] => "update" \in cmd'[t]
        BY <1>1, <1>4, <2>1, RemovingHosts
    <2>3. retained'[s] = NoState /\ \A t \in Servers : t # s => retained'[t] = retained[t]
        BY <1>1, <1>4 DEF Typed
    <2>4. ASSUME NEW t \in Servers, NEW i \in Instruments PROVE Tended(t, i)'
        <3>1. CASE t = s
            BY <2>3, <3>1 DEF Tended
        <3>2. CASE t # s
            <4>1. child_host[i] = t => child_host'[i] = t
                BY <2>2, <3>2
            <4>2. Tended(t, i)
                BY DEF AllTended
            <4> QED
                BY <1>1, <2>2, <2>3, <3>2, <4>1, <4>2 DEF Tended
        <3> QED
            BY <3>1, <3>2
    <2>5. AllTended'
        BY <2>4 DEF AllTended
    <2> QED
        BY <1>2, <2>5
<1> QED
    BY <1>3, <1>4

(***************************************************************************)
(* The inductive invariant, and what follows when no message is under way.    *)
(***************************************************************************)
Linked == Typed /\ Known /\ AllAgreed /\ AllUnspoiled /\ AllTended

LEMMA InitLinked == Init => Linked
<1> SUFFICES ASSUME Init PROVE Linked
    OBVIOUS
<1>1. ~connected
    BY DEF Init
<1>2. AllUnspoiled /\ AllTended
    BY <1>1 DEF AllUnspoiled, Unspoiled, AllTended, Tended
<1> QED
    BY <1>2, InitKnown, InitAgreed DEF Linked

LEMMA NextLinked == Linked /\ [Next]_vars => Linked'
<1>1. ASSUME Linked, Next PROVE AllUnspoiled' /\ AllTended'
    <2>1. Typed /\ Known /\ AllAgreed /\ AllUnspoiled /\ AllTended
        BY <1>1 DEF Linked
    <2>2. ASSUME NEW s \in Servers, ServerActs(s) PROVE AllUnspoiled' /\ AllTended'
        BY <2>1, <2>2, ServerSteps, ServerUnspoiled, ServerTended
    <2> QED
        BY <1>1, <2>1, <2>2, Steps, ConnectTended, DisconnectTended, OnLineTended,
           OffLineTended, InstrumentTended, GoneTended, GivesUpTended, ExitsTended,
           ReportedTended, OrderTended, TimeoutTended
<1>2. ASSUME Linked, UNCHANGED vars PROVE AllUnspoiled' /\ AllTended'
    BY <1>2 DEF Linked, AllUnspoiled, Unspoiled, AllTended, Tended, vars, server, device
<1> QED
    BY <1>1, <1>2, NextKnown, NextAgreed DEF Linked

\* A server that has gone, and of which the broker retains nothing that says it is
\* on line, has been forgotten when all messages have arrived.
GoneAtRest ==
    \A s \in Servers :
        (connected => queue = <<>>) /\ ~up[s] /\ retained[s] \in {0, NoState} =>
            /\ s \notin hosts /\ shown[s] \in {0, NoState}
            /\ \A i \in Instruments : child_host[i] # s

\* A server on line is then shown with the state that the broker retains.
OnLineAtRest ==
    \A s \in Servers :
        connected /\ queue = <<>> /\ up[s] /\ retained[s] # NoState =>
            s \in hosts /\ shown[s] = retained[s]

\* An instrument that its server has published then has a device actor for this
\* server, unless it was asked for in vain and not spoken of since: while its server
\* did not listen, at another server, or too early or not at all, because there is
\* one place for the requests of all instruments; no matter where it was before and
\* what was lost.
SeenAtRest ==
    \A s \in Servers : \A i \in Instruments :
        /\ connected /\ queue = <<>> /\ up[s] /\ retained[s] # NoState
        /\ "update" \notin cmd[s] /\ ~asked[s]
        /\ at[i] = s /\ i \in reservations[s] /\ i \notin unheard
        => child_host[i] = s

LEMMA NothingUnderWay == queue = <<>> => \A s \in Servers : Quiet(queue, s)
BY DEF Quiet

\* Nothing of a server that has gone is left when nothing is under way.
THEOREM GoneIsForgottenAtRest == Spec => []GoneAtRest
<1>1. Linked => GoneAtRest
    <2> SUFFICES ASSUME Linked PROVE GoneAtRest
        OBVIOUS
    <2>1. Typed /\ Known /\ AllAgreed
        BY DEF Linked
    <2> SUFFICES ASSUME NEW s \in Servers, connected => queue = <<>>, ~up[s],
                        retained[s] \in {0, NoState}
                 PROVE  s \notin hosts
        BY <2>1, NothingAssumption DEF GoneAtRest, Known
    <2>2. CASE ~connected
        BY <2>1, <2>2 DEF Known
    <2>3. CASE connected
        <3>1. Agreed(s) /\ Quiet(queue, s)
            BY <2>1, <2>3, NothingUnderWay DEF AllAgreed
        <3> QED
            BY <2>3, <3>1 DEF Agreed, InStep, Farewell
    <2> QED
        BY <2>2, <2>3
<1> QED
    BY <1>1, InitLinked, NextLinked, PTL DEF Spec

\* What the client shows of a server on line, when all messages have arrived.
THEOREM OnLineIsShownAtRest == Spec => []OnLineAtRest
<1>1. Linked => OnLineAtRest
    BY NothingUnderWay DEF Linked, AllAgreed, Agreed, InStep, OnLineAtRest
<1> QED
    BY <1>1, InitLinked, NextLinked, PTL DEF Spec

\* An instrument that is not unheard has its device actor when nothing is under way.
THEOREM InstrumentIsSeenAtRest == Spec => []SeenAtRest
<1>1. Linked => SeenAtRest
    BY NothingUnderWay DEF Linked, AllTended, Tended, SeenAtRest
<1> QED
    BY <1>1, InitLinked, NextLinked, PTL DEF Spec
=============================================================================
