----------------------- MODULE ConfirmationBrokerProofs -----------------------
(***************************************************************************)
(* Proofs about ConfirmationBroker, for every set of requests, every       *)
(* choice of the ones that time out or can be cancelled, every set of      *)
(* answers, and every number of failing appends and process exits.         *)
(*                                                                         *)
(* The argument: every operation of the store writes only requests that    *)
(* are not resolved, and shows a status in _records only after it is in    *)
(* the log (Written); a future or an outcome that carries an approval      *)
(* therefore rests on an approved record, which no later step, failing     *)
(* append or replay can change.                                            *)
(***************************************************************************)
EXTENDS ConfirmationBroker, TLAPS

Racing == {"waiting", "losers", "cancelling"}
Lines == Statuses \ {"none"}

Logged(s, seq) == \E i \in 1 .. Len(seq) : seq[i] = s

\* The record of a request against the log.
Recorded(r) == rec[r] \in Terminal => corrupt \/ Logged(rec[r], disk[r])

\* The task of a request before its record exists, and while it races.
Raced(r) ==
    /\ caller[r] = "idle" => pc[r] = "new"
    /\ pc[r] \in {"new", "spawned"} => rec[r] = "none" /\ disk[r] = <<>>
    /\ r \in waiters => pc[r] \in Racing
    /\ pc[r] \in Racing => fut[r] # "none"
    /\ fut[r] = "void" => closed
    /\ pc[r] # "losers" => winner[r] = "none"
    /\ winner[r] = "response" => fut[r] # "open"
    /\ process # "up" => pc[r] \in {"new", "done"} /\ fut[r] = "none"
    /\ process # "up" => caller[r] \notin {"asking", "awaiting"}

\* What an answer in a future, an outcome or a grant rests on.
Backed(r) ==
    /\ fut[r] \in Decisions => rec[r] = DecisionStatus(fut[r])
    /\ out[r] = "approve" => rec[r] = "approved"
    /\ pc[r] = "done" /\ caller[r] \in {"asking", "awaiting"} => out[r] # "none"
    /\ r \in granted => rec[r] = "approved"

\* PendingIsAttended for one request.
Attended(r) == process = "up" /\ failures = 0 /\ rec[r] = "pending" =>
                   ~closed /\ r \in waiters /\ pc[r] \in Racing

Task(r) == Recorded(r) /\ Raced(r) /\ Backed(r) /\ Attended(r)

IInv == /\ TypeOK
        /\ disk \in [Requests -> Seq(Lines)]
        /\ \A r \in Requests : Task(r)

-----------------------------------------------------------------------------
(* The store                                                               *)

\* What every operation of the store does to the requests in W: the others keep
\* their record and their log, and a status is shown only when it is logged.
Written(W, fact) ==
    /\ rec' \in [Requests -> Statuses]
    /\ disk' \in [Requests -> Seq(Lines)]
    /\ torn' \in BOOLEAN /\ corrupt' \in BOOLEAN
    /\ \A r \in Requests : Recorded(r)'
    /\ \A r \in Requests \ W : rec'[r] = rec[r] /\ disk'[r] = disk[r]
    /\ \A r \in W : rec'[r] = fact[r]

(* A fact that is appended to a log that ends where a line ends is in the    *)
(* log, and what the log held stays in it.                                   *)
LEMMA ExtendedFacts ==
    ASSUME disk \in [Requests -> Seq(Lines)],
           NEW W \in SUBSET Requests, NEW fact \in [W -> Lines]
    PROVE  /\ Extended(fact) \in [Requests -> Seq(Lines)]
           /\ \A r \in Requests \ W : Extended(fact)[r] = disk[r]
           /\ \A r \in W : Logged(fact[r], Extended(fact)[r])
           /\ \A s : \A r \in Requests : Logged(s, disk[r]) => Logged(s, Extended(fact)[r])
<1>1. \A r \in W : Append(disk[r], fact[r]) \in Seq(Lines)
  OBVIOUS
<1>2. Extended(fact) \in [Requests -> Seq(Lines)]
  BY <1>1 DEF Extended
<1>3. \A r \in Requests \ W : Extended(fact)[r] = disk[r]
  BY DEF Extended
<1>4. ASSUME NEW r \in W
      PROVE  Logged(fact[r], Extended(fact)[r])
  <2>1. Extended(fact)[r] = Append(disk[r], fact[r])
    BY DEF Extended
  <2>2. /\ Len(Append(disk[r], fact[r])) = Len(disk[r]) + 1
        /\ Append(disk[r], fact[r])[Len(disk[r]) + 1] = fact[r]
        /\ Len(disk[r]) \in Nat
    OBVIOUS
  <2> QED
    BY <2>1, <2>2 DEF Logged
<1>5. ASSUME NEW r \in Requests, NEW s, Logged(s, disk[r])
      PROVE  Logged(s, Extended(fact)[r])
  <2>1. PICK i \in 1 .. Len(disk[r]) : disk[r][i] = s
    BY <1>5 DEF Logged
  <2>2. CASE r \in W
    <3>1. Extended(fact)[r] = Append(disk[r], fact[r])
      BY <2>2 DEF Extended
    <3>2. /\ Len(Append(disk[r], fact[r])) = Len(disk[r]) + 1
          /\ Append(disk[r], fact[r])[i] = s
      BY <2>1, <2>2
    <3> QED
      BY <2>1, <3>1, <3>2 DEF Logged
  <2>3. CASE r \notin W
    BY <2>3, <1>3, <1>5
  <2> QED
    BY <2>2, <2>3
<1> QED
  BY <1>2, <1>3, <1>4, <1>5

(* create, transition and transition_batch of unresolved requests.           *)
LEMMA StoreWrites ==
    ASSUME IInv, NEW W \in SUBSET Requests, NEW fact \in [W -> Lines],
           \A r \in W : rec[r] \notin Terminal,
           Store(fact)
    PROVE  Written(W, fact) /\ failures' = failures
<1>1. rec' \in [Requests -> Statuses] /\ rec' = Apply(rec, fact)
  BY DEF Store, Apply, IInv, TypeOK, Lines
<1>2. /\ \A r \in Requests \ W : rec'[r] = rec[r]
      /\ \A r \in W : rec'[r] = fact[r]
  BY <1>1 DEF Apply
<1>3. CASE torn
  <2>1. disk' = disk /\ torn' = FALSE /\ corrupt' = TRUE /\ failures' = failures
    BY <1>3 DEF Store, AppendFact, IInv, TypeOK
  <2> QED
    BY <1>1, <1>2, <2>1 DEF Written, IInv, Recorded
<1>4. CASE ~torn
  <2>1. disk' = Extended(fact) /\ torn' = FALSE /\ corrupt' = corrupt /\ failures' = failures
    BY <1>4 DEF Store, AppendFact, IInv, TypeOK
  <2>2. ASSUME NEW r \in Requests
        PROVE  Recorded(r)'
    BY <1>2, <2>1, ExtendedFacts DEF Recorded, IInv, Task
  <2>3. /\ disk' \in [Requests -> Seq(Lines)]
        /\ \A r \in Requests \ W : disk'[r] = disk[r]
    BY <2>1, ExtendedFacts DEF IInv
  <2>4. torn' \in BOOLEAN /\ corrupt' \in BOOLEAN
    BY <2>1 DEF IInv, TypeOK
  <2> QED
    BY <1>1, <1>2, <2>1, <2>2, <2>3, <2>4 DEF Written
<1> QED
  BY <1>3, <1>4 DEF IInv, TypeOK

(* The same operations when the append raises: _records is as before, whatever *)
(* was left in the log.                                                        *)
LEMMA StoreFailsWrites ==
    ASSUME IInv, NEW W \in SUBSET Requests, NEW fact \in [W -> Lines],
           AppendFails(torn, fact) \/ AppendFails(FALSE, fact), rec' = rec
    PROVE  /\ rec' = rec /\ disk' \in [Requests -> Seq(Lines)]
           /\ torn' \in BOOLEAN /\ corrupt' \in BOOLEAN
           /\ \A r \in Requests : Recorded(r)'
           /\ \A r \in Requests \ W : disk'[r] = disk[r]
           /\ failures' = failures + 1 /\ failures' \in 1 .. MaxFailures
<1>1. failures' = failures + 1 /\ failures' \in 1 .. MaxFailures
  BY BoundsAssumption DEF AppendFails, IInv, TypeOK
<1>2. /\ torn' \in BOOLEAN /\ corrupt' \in BOOLEAN /\ (corrupt => corrupt')
      /\ disk' = disk \/ disk' = Extended(fact)
  BY DEF AppendFails, IInv, TypeOK
<1>3. /\ disk' \in [Requests -> Seq(Lines)]
      /\ \A r \in Requests \ W : disk'[r] = disk[r]
      /\ \A s : \A r \in Requests : Logged(s, disk[r]) => Logged(s, disk'[r])
  <2>1. CASE disk' = disk
    BY <2>1 DEF IInv
  <2>2. CASE disk' = Extended(fact)
    BY <2>2, ExtendedFacts DEF IInv
  <2> QED
    BY <1>2, <2>1, <2>2
<1>4. \A r \in Requests : Recorded(r)'
  BY <1>2, <1>3 DEF Recorded, IInv, Task
<1> QED
  BY <1>1, <1>2, <1>3, <1>4

(* The lines of the log are statuses.                                        *)
LEMMA LinesOfLog ==
    ASSUME NEW log \in [Requests -> Seq(Lines)]
    PROVE  \A r \in Requests : Range(log[r]) \subseteq Statuses \ {"none"}
  BY DEF Range, Lines

-----------------------------------------------------------------------------
(* The steps that leave the store alone                                    *)

(* The Run's task and the abort of a Run.                                    *)
LEMMA CallerStep ==
    ASSUME IInv, NEW r \in Requests,
           AskConfirmation(r) \/ Announce(r) \/ CancelCaller(r) \/ AbortRun(r)
    PROVE  IInv'
<1> USE DEF IInv, storeVars, raceVars, callVars
<1>1. CASE AskConfirmation(r)
  <2>1. TypeOK'
    BY <1>1 DEF AskConfirmation, TypeOK, Task, Raced
  <2>2. \A q \in Requests : Task(q)'
    BY <1>1 DEF AskConfirmation, TypeOK, Task, Recorded, Raced, Backed, Attended, Racing
  <2> QED
    BY <1>1, <2>1, <2>2 DEF AskConfirmation
<1>2. CASE Announce(r)
  <2>1. TypeOK'
    BY <1>2 DEF Announce, TypeOK
  <2>2. \A q \in Requests : Task(q)'
    BY <1>2 DEF Announce, TypeOK, Task, Recorded, Raced, Backed, Attended, Racing
  <2> QED
    BY <1>2, <2>1, <2>2 DEF Announce
<1>3. CASE CancelCaller(r)
  <2>1. TypeOK'
    BY ZenonT(30), <1>3 DEF CancelCaller, TypeOK
  <2>2. \A q \in Requests : Task(q)'
    BY <1>3 DEF CancelCaller, TypeOK, Task, Recorded, Raced, Backed, Attended, Racing
  <2> QED
    BY <1>3, <2>1, <2>2 DEF CancelCaller
<1>4. CASE AbortRun(r)
  <2>1. TypeOK'
    BY <1>4 DEF AbortRun, TypeOK
  <2>2. \A q \in Requests : Task(q)'
    BY <1>4 DEF AbortRun, TypeOK, Task, Recorded, Raced, Backed, Attended, Racing
  <2> QED
    BY <1>4, <2>1, <2>2 DEF AbortRun
<1> QED
  BY <1>1, <1>2, <1>3, <1>4

(* The race wakes up: a winner other than the response leaves the future as   *)
(* it is, and the response wins only when the future is resolved.             *)
LEMMA RaceStep ==
    ASSUME IInv, NEW r \in Requests, NEW t \in {"abort", "timeout"},
           RaceTaskDone(r, t) \/ ResumeRace(r)
    PROVE  IInv'
<1> USE DEF IInv, storeVars, raceVars, callVars
<1>1. CASE RaceTaskDone(r, t)
  <2>1. TypeOK'
    BY <1>1 DEF RaceTaskDone, TypeOK
  <2>2. \A q \in Requests : Task(q)'
    BY <1>1 DEF RaceTaskDone, TypeOK, Task, Recorded, Raced, Backed, Attended, Racing
  <2> QED
    BY <1>1, <2>1, <2>2 DEF RaceTaskDone
<1>2. CASE ResumeRace(r)
  <2>1. TypeOK'
    BY <1>2 DEF ResumeRace, TypeOK, Winner
  <2>2. \A q \in Requests : Task(q)'
    BY <1>2 DEF ResumeRace, Winner, TypeOK, Task, Recorded, Raced, Backed, Attended, Racing
  <2> QED
    BY <1>2, <2>1, <2>2 DEF ResumeRace
<1> QED
  BY <1>1, <1>2

(* A decision: what is granted is an approved record.                         *)
LEMMA DecideStep ==
    ASSUME IInv, NEW r \in Requests, Decide(r)
    PROVE  IInv'
<1> USE DEF IInv, storeVars, raceVars, callVars
<1>1. r \in granted' => r \in granted \/ out[r] = "approve"
  BY DEF Decide, FinalStatus, IsCancelled, TypeOK, Outcomes, Decisions, Task, Backed
<1>2. aborted' \subseteq Requests /\ granted' \subseteq Requests
  BY DEF Decide, TypeOK
<1>3. /\ \E c \in {"decided", "cancelled"} : caller' = [caller EXCEPT ![r] = c]
      /\ granted' = granted \/ granted' = granted \cup {r}
      /\ out' = [out EXCEPT ![r] = "none"]
  BY DEF Decide, TypeOK
<1>4. \A q \in Requests : Raced(q)' /\ Recorded(q)' /\ Attended(q)'
  BY <1>3 DEF Decide, TypeOK, Task, Recorded, Raced, Attended, Racing
<1>5. \A q \in Requests : Backed(q)'
  BY <1>1, <1>3 DEF Decide, TypeOK, Task, Backed
<1>6. TypeOK'
  BY <1>2, <1>3 DEF Decide, TypeOK
<1> QED
  BY <1>4, <1>5, <1>6 DEF Decide, Task

-----------------------------------------------------------------------------
(* The steps that write the store                                          *)

\* A step of the broker task of r that wrote W, W \subseteq {r}, and ended with
\* outcome o.
EndedWith(r, o) == /\ Ended(r, o)
                   /\ UNCHANGED <<process, closed, callVars, stops>>

(* The broker task ends: its outcome is no approval unless the record is      *)
(* approved, and without a failing append the record is resolved.             *)
LEMMA EndedStep ==
    ASSUME IInv, NEW r \in Requests, NEW o \in Outcomes, EndedWith(r, o),
           pc[r] # "new", process = "up",
           rec' \in [Requests -> Statuses], disk' \in [Requests -> Seq(Lines)],
           torn' \in BOOLEAN, corrupt' \in BOOLEAN, failures' \in 0 .. MaxFailures,
           \A q \in Requests : Recorded(q)',
           \A q \in Requests \ {r} : rec'[q] = rec[q] /\ disk'[q] = disk[q],
           rec[r] \in Terminal => rec'[r] = rec[r],
           o = "approve" => rec'[r] = "approved",
           failures' = 0 => failures = 0 /\ rec'[r] # "pending"
    PROVE  IInv'
<1> USE DEF IInv, EndedWith, Ended, callVars
<1>1. TypeOK'
  BY ZenonT(30), LinesOfLog DEF TypeOK
<1>2. \A q \in Requests : Raced(q)'
  BY DEF TypeOK, Task, Raced, Racing
<1>3. \A q \in Requests : Backed(q)'
  BY DEF TypeOK, Task, Raced, Backed, Decisions, Terminal, Outcomes
<1>4. \A q \in Requests : Attended(q)'
  BY DEF TypeOK, Task, Raced, Attended, Racing
<1> QED
  BY <1>1, <1>2, <1>3, <1>4 DEF Task

(* The broker task creates its record and enters the race, or ends.           *)
LEMMA RequestStep ==
    ASSUME IInv, NEW r \in Requests, Request(r)
    PROVE  IInv'
<1> DEFINE fact == One(r, "pending")
<1>1. fact \in [{r} -> Lines] /\ fact[r] = "pending" /\ rec[r] = "none" /\ disk[r] = <<>>
      /\ process = "up"
  BY DEF One, Lines, Statuses, Terminal, Request, IInv, Task, Raced, TypeOK
<1> HIDE DEF fact
<1>2. CASE closed /\ Ended(r, "closed") /\ UNCHANGED <<storeVars, failures>>
  <2>1. EndedWith(r, "closed") /\ "closed" \in Outcomes /\ pc[r] # "new"
    BY <1>2 DEF EndedWith, Request, Outcomes
  <2> QED
    BY <1>1, <1>2, <2>1, EndedStep DEF IInv, TypeOK, Task, Recorded, storeVars
<1>3. CASE StoreFails(fact) /\ Ended(r, "failed")
  <2>1. EndedWith(r, "failed") /\ "failed" \in Outcomes /\ pc[r] # "new"
    BY <1>3 DEF EndedWith, Request, Outcomes
  <2>2. AppendFails(torn, fact) /\ rec' = rec
    BY <1>3 DEF StoreFails, RecordsAfterFailure
  <2>3. /\ disk' \in [Requests -> Seq(Lines)]
        /\ torn' \in BOOLEAN /\ corrupt' \in BOOLEAN
        /\ \A q \in Requests : Recorded(q)'
        /\ \A q \in Requests \ {r} : disk'[q] = disk[q]
        /\ failures' \in 1 .. MaxFailures
    BY <1>1, <2>2, StoreFailsWrites
  <2>4. failures' \in 0 .. MaxFailures /\ failures' # 0
    BY <2>3, BoundsAssumption
  <2> QED
    BY <1>1, <2>1, <2>2, <2>3, <2>4, EndedStep DEF IInv, TypeOK, Outcomes
<1>4. CASE /\ ~closed /\ Store(fact)
           /\ pc' = [pc EXCEPT ![r] = "waiting"]
           /\ waiters' = waiters \cup {r}
           /\ fut' = [fut EXCEPT ![r] = "open"]
           /\ UNCHANGED <<out, ready, winner>>
  <2>1. Written({r}, fact) /\ failures' = failures
    BY SMTT(30), <1>1, <1>4, StoreWrites DEF Terminal
  <2>2. UNCHANGED <<process, closed, callVars, stops>> /\ pc[r] = "spawned"
    BY DEF Request
  <2>3. TypeOK'
    <3>1. /\ rec' \in [Requests -> Statuses] /\ torn' \in BOOLEAN /\ corrupt' \in BOOLEAN
          /\ \A q \in Requests : Range(disk'[q]) \subseteq Statuses \ {"none"}
      BY <2>1, LinesOfLog DEF Written
    <3> QED
      BY ZenonT(30), <1>4, <2>1, <2>2, <3>1 DEF TypeOK, IInv, callVars
  <2>4. /\ \A q \in Requests \ {r} : rec'[q] = rec[q] /\ disk'[q] = disk[q]
        /\ rec'[r] = "pending"
    BY <1>1, <2>1 DEF Written
  <2>5. \A q \in Requests : Raced(q)'
    BY <1>1, <1>4, <2>2, <2>4 DEF TypeOK, IInv, callVars, Task, Raced, Racing
  <2>6. \A q \in Requests : Attended(q)'
    BY <1>1, <1>4, <2>1, <2>2, <2>4 DEF TypeOK, IInv, callVars, Task, Attended, Racing
  <2>7. \A q \in Requests : Backed(q)'
    BY <1>1, <1>4, <2>2, <2>4 DEF TypeOK, IInv, callVars, Task, Backed, Decisions
  <2> QED
    BY <2>1, <2>3, <2>5, <2>6, <2>7 DEF IInv, Task, Written
<1> QED
  BY <1>2, <1>3, <1>4 DEF Request, fact

(* _persist_terminal ends the task with a resolved record or an error.        *)
LEMMA PersistStep ==
    ASSUME IInv, NEW r \in Requests, pc[r] \in Racing,
           NEW status \in Terminal, NEW o \in Outcomes \ {"approve"},
           PersistTerminal(r, status, o), UNCHANGED <<process, closed, callVars, stops>>
    PROVE  IInv'
<1> DEFINE fact == One(r, status)
<1>1. fact \in [{r} -> Lines] /\ fact[r] = status
  BY DEF One, Lines, Statuses, Terminal
<1>2. pc[r] # "new" /\ process = "up" /\ "failed" \in Outcomes \ {"approve"}
  BY DEF Racing, IInv, Task, Raced, Outcomes
<1> HIDE DEF fact
<1>3. CASE ~closed /\ rec[r] = "pending" /\ Store(fact) /\ Ended(r, o)
  <2>1. Written({r}, fact) /\ failures' = failures
    BY <1>1, <1>3, StoreWrites DEF Terminal
  <2>2. rec'[r] = status
    BY <1>1, <2>1 DEF Written
  <2> QED
    BY <1>2, <1>3, <2>1, <2>2, EndedStep DEF EndedWith, Written, IInv, TypeOK, Terminal
<1>4. CASE StoreFails(fact) /\ Ended(r, "failed")
  <2>1. AppendFails(torn, fact) /\ rec' = rec
    BY <1>4 DEF StoreFails, RecordsAfterFailure
  <2>2. /\ disk' \in [Requests -> Seq(Lines)]
        /\ torn' \in BOOLEAN /\ corrupt' \in BOOLEAN
        /\ \A q \in Requests : Recorded(q)'
        /\ \A q \in Requests \ {r} : disk'[q] = disk[q]
        /\ failures' \in 1 .. MaxFailures
    BY ZenonT(30), <1>1, <2>1, StoreFailsWrites
  <2>3. failures' \in 0 .. MaxFailures /\ failures' # 0
    BY <2>2, BoundsAssumption
  <2>4. EndedWith(r, "failed")
    BY <1>4 DEF EndedWith
  <2> QED
    BY <1>1, <1>2, <2>1, <2>2, <2>3, <2>4, EndedStep DEF IInv, TypeOK
<1>5. CASE /\ closed \/ rec[r] # "pending"
           /\ UNCHANGED <<storeVars, failures>>
           /\ Ended(r, o) \/ Ended(r, "failed")
  <2>1. failures = 0 => rec[r] # "pending"
    BY <1>2, <1>5 DEF IInv, Task, Attended
  <2> QED
    BY <1>2, <1>5, <2>1, EndedStep DEF EndedWith, IInv, TypeOK, Task, Recorded, storeVars
<1> QED
  BY <1>3, <1>4, <1>5 DEF PersistTerminal, fact

(* The race is over: the winner decides.                                      *)
LEMMA FinishStep ==
    ASSUME IInv, NEW r \in Requests, FinishRace(r) \/ FinishCancel(r)
    PROVE  IInv'
<1>1. CASE FinishCancel(r)
  <2>1. "cancelled" \in Terminal /\ "raised" \in Outcomes \ {"approve"}
    BY DEF Terminal, Outcomes
  <2> QED
    BY <1>1, <2>1, PersistStep DEF FinishCancel, Racing
<1>2. CASE FinishRace(r) /\ winner[r] # "response"
  <2>1. /\ pc[r] \in Racing /\ UNCHANGED <<process, closed, callVars, stops>>
        /\ \/ PersistTerminal(r, "cancelled", "cancelled")
           \/ PersistTerminal(r, "expired", "expired")
    BY <1>2 DEF FinishRace, Racing
  <2>2. /\ {"cancelled", "expired"} \subseteq Terminal
        /\ {"cancelled", "expired"} \subseteq Outcomes \ {"approve"}
    BY DEF Terminal, Outcomes, Decisions
  <2> QED
    BY <2>1, <2>2, PersistStep
<1>3. CASE FinishRace(r) /\ winner[r] = "response"
  <2> DEFINE o == IF fut[r] = "void" THEN "closed" ELSE fut[r]
  <2>1. /\ Ended(r, o) /\ UNCHANGED <<storeVars, failures>> /\ pc[r] = "losers"
        /\ UNCHANGED <<process, closed, callVars, stops>>
    BY <1>3 DEF FinishRace
  <2>2. fut[r] \in Decisions \cup {"void"} /\ process = "up"
    BY <1>3, <2>1 DEF IInv, TypeOK, Task, Raced, Racing
  <2>3. o \in Outcomes
    BY <2>2 DEF Outcomes
  <2>4. o = "approve" => rec[r] = "approved"
    BY <2>2 DEF IInv, Task, Backed, DecisionStatus, Decisions
  <2>5. failures = 0 => rec[r] # "pending"
    <3>1. CASE fut[r] = "void"
      BY <3>1, <2>2 DEF IInv, Task, Raced, Attended
    <3>2. CASE fut[r] \in Decisions
      BY <3>2 DEF IInv, Task, Backed, DecisionStatus, Decisions
    <3> QED
      BY <2>2, <3>1, <3>2
  <2> HIDE DEF o
  <2> QED
    BY <2>1, <2>2, <2>3, <2>4, <2>5, EndedStep
    DEF EndedWith, IInv, TypeOK, Task, Recorded, storeVars
<1> QED
  BY <1>1, <1>2, <1>3
-----------------------------------------------------------------------------
(* The host, the exit of the process and its recovery                      *)

\* One submit or submit_batch call names pending requests and gives each of
\* them a decision.
AnswerFact(ans) == [r \in DOMAIN ans |-> DecisionStatus(ans[r])]

(* submit and submit_batch: a future is resolved only with the decision that  *)
(* its record now shows.                                                      *)
LEMMA SubmitStep ==
    ASSUME IInv, NEW ans \in AnswerSets, Submit(ans)
    PROVE  IInv'
<1> DEFINE W == DOMAIN ans
           fact == AnswerFact(ans)
<1>1. /\ W \in SUBSET Requests /\ W # {} /\ \A r \in W : ans[r] \in Decisions
  <2>1. PICK S \in (SUBSET Requests) \ {{}} : ans \in [S -> Decisions]
    BY DEF AnswerSets
  <2> QED
    BY <2>1
<1>2. /\ fact \in [W -> Lines]
      /\ \A r \in W : fact[r] = DecisionStatus(ans[r]) /\ fact[r] # "pending"
  BY <1>1 DEF AnswerFact, DecisionStatus, Decisions, Lines, Statuses, Terminal
<1>3. /\ process = "up" /\ ~closed /\ \A r \in W : rec[r] = "pending"
      /\ UNCHANGED <<process, closed, waiters, ready, pc, winner, out, callVars, stops>>
      /\ \/ Store(fact) /\ Wake(ans)
         \/ StoreFails(fact) /\ UNCHANGED fut
  BY DEF Submit, Running, MayAnswer, Pending, WakeAfterFailure, AnswerFact
<1> HIDE DEF W, fact
<1>4. CASE Store(fact) /\ Wake(ans)
  <2>1. Written(W, fact) /\ failures' = failures
    BY <1>1, <1>2, <1>3, <1>4, StoreWrites DEF Terminal
  <2>2. /\ fut' \in [Requests -> Decisions \cup {"none", "open", "void"}]
        /\ \A r \in Requests : \/ fut'[r] = fut[r]
                               \/ r \in W /\ fut[r] = "open" /\ fut'[r] = ans[r]
    BY <1>1, <1>4 DEF Wake, W, IInv, TypeOK
  <2>3. TypeOK'
    <3>1. /\ rec' \in [Requests -> Statuses] /\ torn' \in BOOLEAN /\ corrupt' \in BOOLEAN
          /\ \A q \in Requests : Range(disk'[q]) \subseteq Statuses \ {"none"}
      BY <2>1, LinesOfLog DEF Written
    <3> QED
      BY <1>3, <2>1, <2>2, <3>1 DEF TypeOK, IInv, callVars
  <2>4. /\ \A q \in Requests \ W : rec'[q] = rec[q] /\ disk'[q] = disk[q]
        /\ \A q \in W : rec'[q] = DecisionStatus(ans[q]) /\ rec'[q] # "pending"
    BY <1>2, <2>1 DEF Written
  <2>5. ASSUME NEW q \in Requests
        PROVE  Raced(q)'
    <3>1. q \in W => pc[q] \notin {"new", "spawned"}
      BY <1>3 DEF IInv, Task, Raced
    <3>2. /\ fut'[q] = fut[q] \/ fut'[q] \in Decisions
          /\ q \notin W => rec'[q] = rec[q] /\ disk'[q] = disk[q]
      BY <1>1, <2>2, <2>4
    <3> QED
      BY <1>3, <3>1, <3>2 DEF IInv, callVars, Task, Raced, Decisions
  <2>6. ASSUME NEW q \in Requests
        PROVE  Attended(q)'
    BY <1>1, <1>3, <2>1, <2>2, <2>4 DEF IInv, callVars, Task, Attended
  <2>7. ASSUME NEW q \in Requests
        PROVE  Backed(q)'
    <3>1. CASE q \in W
      <4>1. fut[q] \notin Decisions /\ out[q] # "approve" /\ q \notin granted
        BY <1>3, <3>1 DEF IInv, Task, Backed, DecisionStatus, Decisions
      <4> QED
        BY <1>3, <2>2, <2>4, <3>1, <4>1 DEF IInv, callVars, Task, Backed
    <3>2. CASE q \notin W
      BY <1>3, <2>2, <2>4, <3>2 DEF IInv, callVars, Task, Backed
    <3> QED
      BY <3>1, <3>2
  <2> QED
    BY <2>1, <2>3, <2>5, <2>6, <2>7 DEF IInv, Task, Written
<1>5. CASE StoreFails(fact) /\ UNCHANGED fut
  <2>1. AppendFails(torn, fact) /\ rec' = rec
    BY <1>5 DEF StoreFails, RecordsAfterFailure
  <2>2. /\ disk' \in [Requests -> Seq(Lines)]
        /\ torn' \in BOOLEAN /\ corrupt' \in BOOLEAN
        /\ \A q \in Requests : Recorded(q)'
        /\ \A q \in Requests \ W : disk'[q] = disk[q]
        /\ failures' \in 1 .. MaxFailures
    BY <1>1, <1>2, <2>1, StoreFailsWrites
  <2>3. TypeOK'
    <3>1. /\ failures' \in 0 .. MaxFailures
          /\ \A q \in Requests : Range(disk'[q]) \subseteq Statuses \ {"none"}
      BY <2>2, LinesOfLog, BoundsAssumption
    <3> QED
      BY <1>3, <1>5, <2>1, <2>2, <3>1 DEF TypeOK, IInv, callVars
  <2>4. \A q \in Requests : Raced(q)' /\ Backed(q)' /\ Attended(q)'
    BY <1>3, <1>5, <2>1, <2>2 DEF TypeOK, IInv, callVars, Task, Raced, Backed, Attended
  <2> QED
    BY <2>2, <2>3, <2>4 DEF IInv, Task
<1> QED
  BY <1>3, <1>4, <1>5

(* close: the futures it voids belong to a closed broker, and the pending     *)
(* records it leaves are the ones of a failed append.                         *)
LEMMA CloseStep ==
    ASSUME IInv, Close
    PROVE  IInv'
<1> DEFINE W == CloseTargets
           fact == [r \in W |-> "cancelled"]
<1>1. /\ W \in SUBSET Requests /\ W \subseteq waiters /\ \A r \in W : rec[r] = "pending"
      /\ \A r \in waiters : rec[r] = "pending" => r \in W
      /\ fact \in [W -> Lines] /\ \A r \in W : fact[r] = "cancelled"
  BY DEF CloseTargets, Pending, Lines, Statuses, Terminal, IInv, TypeOK
<1>2. /\ process = "up" /\ ~closed /\ closed' = TRUE /\ waiters' = {}
      /\ UNCHANGED <<process, ready, pc, winner, out, callVars, stops>>
      /\ fut' \in [Requests -> Decisions \cup {"none", "open", "void"}]
      /\ \A r \in Requests : \/ fut'[r] = fut[r]
                             \/ fut[r] = "open" /\ fut'[r] = "void"
  BY DEF Close, Running, VoidFutures, IInv, TypeOK
<1>3. \/ W = {} /\ UNCHANGED <<storeVars, failures>>
      \/ Store(fact)
      \/ StoreFails(fact)
  BY DEF Close
<1> HIDE DEF W, fact
<1>4. CASE UNCHANGED <<storeVars, failures>> /\ W = {}
  <2>1. TypeOK'
    BY <1>2, <1>4 DEF TypeOK, IInv, callVars, storeVars
  <2>2. \A q \in Requests : Raced(q)' /\ Backed(q)' /\ Recorded(q)'
    BY <1>2, <1>4 DEF IInv, callVars, storeVars, Task, Raced, Backed, Recorded, Decisions
  <2>3. \A q \in Requests : Attended(q)'
    BY <1>1, <1>2, <1>4 DEF IInv, callVars, storeVars, Task, Attended
  <2> QED
    BY <1>4, <2>1, <2>2, <2>3 DEF IInv, Task, storeVars
<1>5. CASE Store(fact)
  <2>1. Written(W, fact) /\ failures' = failures
    BY <1>1, <1>5, StoreWrites DEF Terminal
  <2>2. /\ \A q \in Requests \ W : rec'[q] = rec[q] /\ disk'[q] = disk[q]
        /\ \A q \in W : rec'[q] = "cancelled"
    BY <1>1, <2>1 DEF Written
  <2>3. TypeOK'
    <3>1. /\ rec' \in [Requests -> Statuses] /\ torn' \in BOOLEAN /\ corrupt' \in BOOLEAN
          /\ \A q \in Requests : Range(disk'[q]) \subseteq Statuses \ {"none"}
      BY <2>1, LinesOfLog DEF Written
    <3> QED
      BY <1>2, <2>1, <3>1 DEF TypeOK, IInv, callVars
  <2>4. ASSUME NEW q \in Requests
        PROVE  Raced(q)' /\ Backed(q)' /\ Attended(q)'
    <3>1. q \in W => fut[q] \notin Decisions /\ out[q] # "approve" /\ q \notin granted
                     /\ pc[q] \notin {"new", "spawned"}
      BY <1>1 DEF IInv, Task, Backed, Raced, DecisionStatus, Decisions
    <3>2. Raced(q)'
      BY <1>1, <1>2, <2>2, <3>1 DEF IInv, callVars, Task, Raced
    <3>3. Backed(q)'
      BY <1>1, <1>2, <2>2, <3>1 DEF IInv, callVars, Task, Backed, Decisions
    <3>4. Attended(q)'
      BY <1>1, <1>2, <2>1, <2>2 DEF IInv, callVars, Task, Attended
    <3> QED
      BY <3>2, <3>3, <3>4
  <2> QED
    BY <2>1, <2>3, <2>4 DEF IInv, Task, Written
<1>6. CASE StoreFails(fact)
  <2>1. AppendFails(torn, fact) /\ rec' = rec
    BY <1>6 DEF StoreFails, RecordsAfterFailure
  <2>2. /\ disk' \in [Requests -> Seq(Lines)]
        /\ torn' \in BOOLEAN /\ corrupt' \in BOOLEAN
        /\ \A q \in Requests : Recorded(q)'
        /\ \A q \in Requests \ W : disk'[q] = disk[q]
        /\ failures' \in 1 .. MaxFailures
    BY <1>1, <2>1, StoreFailsWrites
  <2>3. TypeOK'
    <3>1. /\ failures' \in 0 .. MaxFailures
          /\ \A q \in Requests : Range(disk'[q]) \subseteq Statuses \ {"none"}
      BY <2>2, LinesOfLog, BoundsAssumption
    <3> QED
      BY <1>2, <2>1, <2>2, <3>1 DEF TypeOK, IInv, callVars
  <2>4. \A q \in Requests : Raced(q)' /\ Backed(q)' /\ Attended(q)'
    BY <1>1, <1>2, <2>1, <2>2
    DEF TypeOK, IInv, callVars, Task, Raced, Backed, Attended, Decisions
  <2> QED
    BY <2>2, <2>3, <2>4 DEF IInv, Task
<1> QED
  BY <1>3, <1>4, <1>5, <1>6
(* The process stops: no task is left that could act on a stale answer.       *)
LEMMA StopStep ==
    ASSUME IInv, Stop
    PROVE  IInv'
<1> USE DEF IInv, Stop, storeVars
<1>1. TypeOK'
  BY BoundsAssumption DEF TypeOK
<1>2. \A q \in Requests : Task(q)'
  BY DEF TypeOK, Task, Recorded, Raced, Backed, Attended, Racing, Decisions
<1> QED
  BY <1>1, <1>2

(* A log that replays and holds a resolved status holds it as its last line.  *)
LEMMA ReplayKeepsResolved ==
    ASSUME IInv, NEW r \in Requests, rec[r] \in Terminal, ~corrupt, Replayable(disk[r])
    PROVE  Len(disk[r]) = 2 /\ disk[r][2] = rec[r]
<1>1. PICK i \in 1 .. Len(disk[r]) : disk[r][i] = rec[r]
  BY DEF IInv, Task, Recorded, Logged
<1>2. disk[r] \in Seq(Lines) /\ rec[r] # "pending"
  BY DEF IInv, Terminal
<1>3. CASE disk[r] = <<>>
  BY <1>1, <1>3
<1>4. CASE disk[r] = <<"pending">>
  BY <1>1, <1>2, <1>4
<1>5. CASE Len(disk[r]) = 2 /\ disk[r][1] = "pending"
  BY <1>1, <1>2, <1>5
<1> QED
  BY <1>3, <1>4, <1>5 DEF Replayable

(* What a log that replays gives a request: a status, and its last line.      *)
LEMMA ReplayedFacts ==
    ASSUME IInv, NEW r \in Requests, Replayable(disk[r])
    PROVE  /\ Replayed[r] \in Statuses
           /\ disk[r] = <<>> => Replayed[r] = "none"
           /\ disk[r] # <<>> => /\ Replayed[r] \in Lines
                                /\ Logged(Replayed[r], disk[r])
           /\ rec[r] \in Terminal /\ ~corrupt => Replayed[r] = rec[r]
<1>1. disk[r] \in Seq(Lines)
  BY DEF IInv
<1>2. CASE disk[r] = <<>>
  <2>1. Replayed[r] = "none"
    BY <1>2 DEF Replayed
  <2> QED
    BY <1>2, <2>1, ReplayKeepsResolved DEF Statuses
<1>3. CASE disk[r] # <<>>
  <2>1. Len(disk[r]) \in Nat /\ Len(disk[r]) > 0 /\ disk[r][Len(disk[r])] \in Lines
    BY <1>1, <1>3
  <2>2. Replayed[r] = disk[r][Len(disk[r])]
    BY <1>3 DEF Replayed, Last
  <2> QED
    BY <1>3, <2>1, <2>2, ReplayKeepsResolved DEF Lines, Logged
<1> QED
  BY <1>2, <1>3

(* Reopening: replay shows every resolved record as it was, and the sweep      *)
(* leaves none pending.  A failing sweep changes nothing that is shown.        *)
LEMMA ReopenStep ==
    ASSUME IInv, Reopen
    PROVE  IInv' /\ \A r \in Requests : rec[r] \in Terminal => rec'[r] = rec[r]
<1> DEFINE W == {r \in Requests : Replayed[r] = "pending"}
           fact == [r \in W |-> "orphaned"]
<1>1. /\ process = "down" /\ ~corrupt /\ \A r \in Requests : Replayable(disk[r])
      /\ UNCHANGED <<raceVars, callVars, stops>>
      /\ \/ /\ \/ /\ W = {} /\ torn' = FALSE /\ UNCHANGED <<disk, corrupt, failures>>
               \/ AppendFact(FALSE, fact)
            /\ process' = "up" /\ closed' = FALSE /\ rec' = Apply(Replayed, fact)
         \/ AppendFails(FALSE, fact) /\ UNCHANGED <<process, closed, rec>>
  BY DEF Reopen
<1>2. /\ W \in SUBSET Requests /\ fact \in [W -> Lines]
      /\ \A r \in W : fact[r] = "orphaned"
  BY DEF Lines, Statuses, Terminal
<1>3. \A r \in Requests : r \in W <=> Replayed[r] = "pending"
  OBVIOUS
<1> HIDE DEF W, fact
<1>4. CASE AppendFails(FALSE, fact) /\ UNCHANGED <<process, closed, rec>>
  <2>1. /\ disk' \in [Requests -> Seq(Lines)]
        /\ torn' \in BOOLEAN /\ corrupt' \in BOOLEAN
        /\ \A q \in Requests : Recorded(q)'
        /\ \A q \in Requests \ W : disk'[q] = disk[q]
        /\ failures' \in 1 .. MaxFailures
    BY <1>2, <1>4, StoreFailsWrites
  <2>2. TypeOK'
    <3>1. /\ failures' \in 0 .. MaxFailures
          /\ \A q \in Requests : Range(disk'[q]) \subseteq Statuses \ {"none"}
      BY <2>1, LinesOfLog, BoundsAssumption
    <3> QED
      BY <1>1, <1>4, <2>1, <3>1 DEF TypeOK, IInv, callVars, raceVars
  <2>3. \A q \in W : disk[q] # <<>>
    BY <1>1, <1>2, <1>3, ReplayedFacts
  <2>4. \A q \in Requests : Raced(q)' /\ Backed(q)' /\ Attended(q)'
    BY <1>1, <1>4, <2>1, <2>3
    DEF TypeOK, IInv, callVars, raceVars, Task, Raced, Backed, Attended
  <2> QED
    BY <1>4, <2>1, <2>2, <2>4 DEF IInv, Task
<1>5. CASE /\ \/ /\ W = {} /\ torn' = FALSE /\ UNCHANGED <<disk, corrupt, failures>>
              \/ AppendFact(FALSE, fact)
           /\ process' = "up" /\ closed' = FALSE /\ rec' = Apply(Replayed, fact)
  <2>1. /\ torn' = FALSE /\ corrupt' = FALSE /\ failures' = failures
        /\ (disk' = disk /\ W = {}) \/ disk' = Extended(fact)
    <3>1. CASE W = {} /\ torn' = FALSE /\ UNCHANGED <<disk, corrupt, failures>>
      BY <1>1, <3>1 DEF IInv, TypeOK
    <3>2. CASE AppendFact(FALSE, fact)
      BY <1>1, <3>2 DEF AppendFact, IInv, TypeOK
    <3> QED
      BY <1>5, <3>1, <3>2
  <2>2. /\ disk' \in [Requests -> Seq(Lines)]
        /\ \A q \in Requests \ W : disk'[q] = disk[q]
        /\ \A q \in W : Logged("orphaned", disk'[q])
    <3>1. CASE disk' = disk /\ W = {}
      BY <3>1 DEF IInv
    <3>2. CASE disk' = Extended(fact)
      BY <1>2, <3>2, ExtendedFacts DEF IInv
    <3> QED
      BY <2>1, <3>1, <3>2
  <2>3. /\ rec' \in [Requests -> Statuses]
        /\ \A q \in W : rec'[q] = "orphaned"
        /\ \A q \in Requests \ W : rec'[q] = Replayed[q] /\ rec'[q] # "pending"
    <3>1. \A q \in Requests : rec'[q] = IF q \in W THEN "orphaned" ELSE Replayed[q]
      BY <1>2, <1>5 DEF Apply
    <3>2. \A q \in Requests : rec'[q] \in Statuses
      BY <1>1, <3>1, ReplayedFacts DEF Statuses, Terminal
    <3> QED
      BY <1>2, <1>3, <1>5, <3>1, <3>2 DEF Apply
  <2>4. ASSUME NEW q \in Requests
        PROVE  Recorded(q)'
    BY <1>1, <2>2, <2>3, ReplayedFacts DEF Recorded, Terminal, Lines
  <2>5. ASSUME NEW q \in Requests, rec[q] \in Terminal
        PROVE  rec'[q] = rec[q]
    BY <1>1, <1>3, <2>3, <2>5, ReplayedFacts DEF Terminal
  <2>6. ASSUME NEW q \in Requests, disk[q] = <<>>
        PROVE  rec'[q] = "none" /\ disk'[q] = <<>>
    BY <1>1, <1>3, <2>2, <2>3, <2>6, ReplayedFacts
  <2>7. TypeOK'
    <3>1. /\ torn' \in BOOLEAN /\ corrupt' \in BOOLEAN /\ closed' \in BOOLEAN
          /\ \A q \in Requests : Range(disk'[q]) \subseteq Statuses \ {"none"}
      BY <1>5, <2>1, <2>2, LinesOfLog
    <3> QED
      BY <1>1, <1>5, <2>1, <2>3, <3>1 DEF TypeOK, IInv, callVars, raceVars
  <2>8. ASSUME NEW q \in Requests
        PROVE  Raced(q)' /\ Backed(q)' /\ Attended(q)'
    <3>1. Raced(q)'
      BY <1>1, <1>5, <2>6 DEF IInv, callVars, raceVars, Task, Raced
    <3>2. Backed(q)'
      BY <1>1, <2>5 DEF IInv, callVars, raceVars, Task, Backed, Terminal, DecisionStatus, Decisions
    <3>3. Attended(q)'
      BY <2>3 DEF Attended
    <3> QED
      BY <3>1, <3>2, <3>3
  <2> QED
    BY <2>2, <2>4, <2>5, <2>7, <2>8 DEF IInv, Task
<1> QED
  BY <1>1, <1>4, <1>5
-----------------------------------------------------------------------------
(* The theorems                                                            *)

(* A resolved record is never written again.                                  *)
LEMMA ResolvedKept ==
    ASSUME IInv, Next
    PROVE  \A r \in Requests : rec[r] \in Terminal => rec'[r] = rec[r]
<1>1. ASSUME NEW r \in Requests, NEW status, rec[r] \notin Terminal, Store(One(r, status))
      PROVE  \A q \in Requests : rec[q] \in Terminal => rec'[q] = rec[q]
  BY <1>1 DEF Store, Apply, One
<1>2. ASSUME NEW fact, StoreFails(fact)
      PROVE  rec' = rec
  BY <1>2 DEF StoreFails, RecordsAfterFailure
<1>3. ASSUME NEW r \in Requests, NEW status, NEW o, PersistTerminal(r, status, o)
      PROVE  \A q \in Requests : rec[q] \in Terminal => rec'[q] = rec[q]
  BY <1>1, <1>2, <1>3 DEF PersistTerminal, storeVars, Terminal
<1>4. ASSUME NEW r \in Requests, TaskStep(r)
      PROVE  \A q \in Requests : rec[q] \in Terminal => rec'[q] = rec[q]
  <2>1. CASE Request(r)
    <3>1. rec[r] \notin Terminal
      BY <2>1 DEF Request, IInv, Task, Raced, Terminal
    <3> QED
      BY <1>1, <1>2, <2>1, <3>1 DEF Request, storeVars
  <2>2. CASE FinishRace(r) \/ FinishCancel(r)
    BY <1>3, <2>2 DEF FinishRace, FinishCancel, storeVars
  <2>3. CASE Announce(r) \/ Decide(r) \/ ResumeRace(r) \/ RaceTaskDone(r, "abort")
    BY <2>3 DEF Announce, Decide, ResumeRace, RaceTaskDone, storeVars
  <2> QED
    BY <1>4, <2>1, <2>2, <2>3 DEF TaskStep
<1>5. ASSUME NEW r \in Requests,
             AskConfirmation(r) \/ CancelCaller(r) \/ AbortRun(r) \/ RaceTaskDone(r, "timeout")
      PROVE  rec' = rec
  BY <1>5 DEF AskConfirmation, CancelCaller, AbortRun, RaceTaskDone, storeVars
<1>6. ASSUME NEW ans \in AnswerSets, Submit(ans)
      PROVE  \A q \in Requests : rec[q] \in Terminal => rec'[q] = rec[q]
  <2>1. \A q \in DOMAIN ans : rec[q] \notin Terminal
    BY <1>6 DEF Submit, MayAnswer, Pending, Terminal
  <2> QED
    BY <1>2, <1>6, <2>1 DEF Submit, Store, Apply
<1>7. ASSUME Close
      PROVE  \A q \in Requests : rec[q] \in Terminal => rec'[q] = rec[q]
  <2>1. \A q \in CloseTargets : rec[q] \notin Terminal
    BY DEF CloseTargets, Pending, Terminal
  <2> QED
    BY <1>2, <1>7, <2>1 DEF Close, Store, Apply, storeVars
<1>8. ASSUME Stop \/ Refuse
      PROVE  rec' = rec
  BY <1>8 DEF Stop, Refuse, storeVars
<1> QED
  BY <1>4, <1>5, <1>6, <1>7, <1>8, ReopenStep DEF Next

(* Every step keeps the inductive invariant.                                  *)
LEMMA NextKeeps ==
    ASSUME IInv, [Next]_vars
    PROVE  IInv'
<1>1. ASSUME NEW r \in Requests, TaskStep(r)
      PROVE  IInv'
  BY <1>1, CallerStep, DecideStep, RequestStep, RaceStep, FinishStep DEF TaskStep
<1>2. ASSUME NEW r \in Requests,
             AskConfirmation(r) \/ CancelCaller(r) \/ AbortRun(r) \/ RaceTaskDone(r, "timeout")
      PROVE  IInv'
  BY <1>2, CallerStep, RaceStep
<1>3. CASE Refuse
  <2>1. TypeOK'
    BY <1>3 DEF Refuse, IInv, TypeOK, storeVars, raceVars, callVars
  <2>2. \A q \in Requests : Task(q)'
    BY <1>3 DEF Refuse, IInv, storeVars, raceVars, callVars, Task, Recorded,
                Raced, Backed, Attended
  <2> QED
    BY <1>3, <2>1, <2>2 DEF Refuse, IInv, storeVars
<1>4. CASE UNCHANGED vars
  <2>1. TypeOK'
    BY <1>4 DEF vars, IInv, TypeOK
  <2>2. \A q \in Requests : Task(q)'
    BY <1>4 DEF vars, IInv, Task, Recorded, Raced, Backed, Attended
  <2> QED
    BY <1>4, <2>1, <2>2 DEF vars, IInv
<1> QED
  BY <1>1, <1>2, <1>3, <1>4, SubmitStep, CloseStep, StopStep, ReopenStep DEF Next

(* The invariant holds of an empty store with no task.                        *)
LEMMA InitHolds == Init => IInv
<1> SUFFICES ASSUME Init PROVE IInv
  OBVIOUS
<1>1. disk \in [Requests -> Seq(Lines)]
  BY DEF Init
<1>2. TypeOK
  <2>1. /\ 0 \in 0 .. MaxFailures /\ 0 \in 0 .. MaxStops
        /\ \A r \in Requests : Range(disk[r]) \subseteq Statuses \ {"none"}
    BY <1>1, LinesOfLog, BoundsAssumption
  <2> QED
    BY <2>1 DEF Init, TypeOK, Statuses
<1>3. \A r \in Requests : Task(r)
  BY DEF Init, Task, Recorded, Raced, Backed, Attended, Racing, Terminal, Decisions
<1> QED
  BY <1>1, <1>2, <1>3 DEF IInv

(* The inductive invariant of the broker: every answer rests on the record, *)
(* and every resolved record on the log.                                    *)
THEOREM BrokerInvariant == Spec => []IInv
<1>1. IInv /\ [Next]_vars => IInv'
  BY NextKeeps
<1> QED
  BY InitHolds, <1>1, PTL DEF Spec

(* GrantSound, for all instances: a Tool call that was let through has its   *)
(* approval in the fact log and in _records, through every race of answers,  *)
(* timeout, abort, close, failing appends and restarts.                      *)
THEOREM GrantsSound == Spec => []GrantSound
<1>1. IInv => GrantSound
  <2> SUFFICES ASSUME IInv, NEW r \in granted
               PROVE  (corrupt \/ Contains(disk[r], "approved")) /\ rec[r] = "approved"
    BY DEF GrantSound, GrantIsDurable, IInv
  <2>1. r \in Requests
    BY DEF IInv, TypeOK
  <2>2. rec[r] = "approved"
    BY <2>1 DEF IInv, Task, Backed
  <2>3. corrupt \/ Logged("approved", disk[r])
    BY <2>1, <2>2 DEF IInv, Task, Recorded, Terminal
  <2> QED
    BY <2>2, <2>3 DEF Logged, Contains
<1> QED
  BY <1>1, BrokerInvariant, PTL

(* PendingIsAttended, for all instances: without a failing append, a pending *)
(* record of a running process belongs to a registered waiter whose task is   *)
(* in its race, and none outlives a close.                                    *)
THEOREM PendingAttended == Spec => []PendingIsAttended
<1>1. IInv => PendingIsAttended
  BY DEF IInv, Task, Attended, PendingIsAttended, Pending, Racing
<1> QED
  BY <1>1, BrokerInvariant, PTL

(* ResolvedOnce, for all instances: no step, a restart included, changes a   *)
(* record that _records showed as resolved.                                   *)
THEOREM RecordsResolvedOnce == Spec => ResolvedOnce
<1>1. IInv /\ [Next]_vars => [\A r \in Requests : rec[r] \in Terminal => rec'[r] = rec[r]]_vars
  BY ResolvedKept
<1> QED
  BY <1>1, BrokerInvariant, PTL DEF Spec, ResolvedOnce
=============================================================================
