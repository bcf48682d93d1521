----------------------------- MODULE DirectLine -----------------------------
(***************************************************************************)
(* What the MQTT frontend promises to the application at the other end of  *)
(* the broker: it might as well be wired to the instrument directly.       *)
(* Every command is answered, and with the answer the instrument gives to  *)
(* that command in its place in the application's session.  How much the   *)
(* frontend fetches in advance is not visible.                             *)
(*                                                                         *)
(* A session is a sequence of commands: "reserve" and "free" (control      *)
(* topic), "next" (GetNext or ReadDataContinue: the next frame of the      *)
(* download) and "other" (any other command; it selects another download). *)
(***************************************************************************)
EXTENDS Naturals, Sequences, FiniteSetsExt

CONSTANTS
    Instruments,
    Scripts         \* the sessions an application may hold

VARIABLE
    app     \* [Instruments -> [script, sent, pending, got]]

Others(s, j) == {k \in 1 .. j : s[k] = "other"}

Block(s, j) == Cardinality(Others(s, j))

Position(s, j) ==
    Cardinality({k \in 1 .. j : s[k] = "next" /\ \A o \in Others(s, j) : o < k})

\* The instrument's answer to the j-th command of session s.
Reply(s, j) ==
    CASE s[j] = "next"  -> <<"frame", Block(s, j), Position(s, j)>>
      [] s[j] = "other" -> <<"other", Block(s, j)>>
      [] OTHER          -> <<"status", s[j]>>

Init ==
    app \in [Instruments ->
        [script : Scripts, sent : {0}, pending : {FALSE}, got : {<<>>}]]

Send(i) ==
    /\ ~app[i].pending
    /\ app[i].sent < Len(app[i].script)
    /\ app' = [app EXCEPT ![i].sent = @ + 1, ![i].pending = TRUE]

Answer(i) ==
    /\ app[i].pending
    /\ app' = [app EXCEPT ![i].pending = FALSE,
                          ![i].got = Append(@, Reply(app[i].script, app[i].sent))]

Next == \E i \in Instruments : Send(i) \/ Answer(i)

Spec == Init /\ [][Next]_app /\ \A i \in Instruments : WF_app(Answer(i))
=============================================================================
