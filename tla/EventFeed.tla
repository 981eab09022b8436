----------------------------- MODULE EventFeed -----------------------------
(***************************************************************************)
(* What a client that holds the handles of some Runs is promised about     *)
(* their events: through each handle it is shown exactly the consecutive   *)
(* events of the log from the Run's agent_start on, each once and in       *)
(* order, up to the Run's agent_end; or that feed fails explicitly, and    *)
(* then stays failed.                                                      *)
(***************************************************************************)
EXTENDS Integers, Sequences

CONSTANT Runs

VARIABLES log,    \* everything published so far
          shown,  \* the sequence numbers each handle has yielded
          state   \* of each handle: "none", "open", "done" or "failed"

Init == log = <<>> /\ shown = [r \in Runs |-> <<>>] /\ state = [r \in Runs |-> "none"]

Publish == /\ Len(log') = Len(log) + 1
           /\ SubSeq(log', 1, Len(log)) = log
           /\ UNCHANGED <<shown, state>>

Open(r) == /\ state[r] = "none"
           /\ state' = [state EXCEPT ![r] = "open"]
           /\ UNCHANGED <<log, shown>>

(* the numbers from .. to, which the handle yields in one go               *)
Span(from, to) == [i \in 1 .. (to - from + 1) |-> from + i - 1]

First(r, n) == log[n].type = "start" /\ log[n].run = r
Last(r, n)  == log[n].type = "end" /\ log[n].run = r

Deliver(r) ==
  /\ state[r] = "open"
  /\ \E from, to \in DOMAIN log :
       /\ from <= to
       /\ IF shown[r] = <<>> THEN First(r, from) ELSE from = shown[r][Len(shown[r])] + 1
       /\ \A n \in from .. (to - 1) : ~Last(r, n)
       /\ shown' = [shown EXCEPT ![r] = @ \o Span(from, to)]
       /\ state' = [state EXCEPT ![r] = IF Last(r, to) THEN "done" ELSE "open"]
  /\ UNCHANGED log

Fail(r) == /\ state[r] = "open"
           /\ state' = [state EXCEPT ![r] = "failed"]
           /\ UNCHANGED <<log, shown>>

Next == Publish \/ \E r \in Runs : Open(r) \/ Deliver(r) \/ Fail(r)

Spec == Init /\ [][Next]_<<log, shown, state>>
=============================================================================
