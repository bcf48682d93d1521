------------------------------ MODULE MCMqttLink ------------------------------
EXTENDS MqttLink

CONSTANTS
    First,       \* the server that is on line at the start
    Elsewhere,   \* never on line: its instruments are connected to no server
    Other,       \* the instrument that may be there
    MaxQueue     \* bound: messages under way while two instruments are connected

\* The servers are alike: the instruments are connected to the first one, but for
\* one that may be Elsewhere.
MCInit ==
    /\ Init /\ up = [s \in Servers |-> s = First] /\ retained[Elsewhere] = NoState
    /\ \E s \in {First, Elsewhere} : at = [i \in Instruments |-> IF i = Other THEN s ELSE First]

\* Bounds: nothing goes there or comes from there; with both instruments at hand the
\* client is not far behind, and gets no orders.
Apart == {i \in Instruments : at[i] = Elsewhere}
Bounds ==
    /\ ~up'[Elsewhere] /\ Apart' = Apart
    /\ Apart = {} => Len(queue') <= MaxQueue /\ timers' = timers
MCSpec == MCInit /\ [][Next /\ Bounds]_vars /\ Fairness

\* There are other clients.
ContendedSpec ==
    MCInit /\ [][(Next \/ \E s \in Servers : OtherClient(s)) /\ Bounds]_vars /\ Fairness
=============================================================================
