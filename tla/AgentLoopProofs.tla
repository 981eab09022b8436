-------------------------- MODULE AgentLoopProofs --------------------------
(***************************************************************************)
(* Safety of the Agent and its loop for any number of Runs, Turns, model   *)
(* attempts, Tool calls and cancellations: what the transcript looks like, *)
(* what agent_end says, who outlives prompt(), and that nothing succeeds   *)
(* after an abort.                                                         *)
(*                                                                         *)
(* RunOK says of one Run how its two tasks stand to each other; a step of  *)
(* a Run leaves every other Run alone (Apart), so it is proved action by   *)
(* action for the Run that moves.  HandlersInv says who waits for which    *)
(* Tool handler.  Batches and Answers relate the transcript to the places  *)
(* of the loop tasks; every step is seen as one of the five kinds of       *)
(* Spoken, the only thing the transcript's proofs need to know.            *)
(***************************************************************************)
EXTENDS AgentLoop, SequenceTheorems, TLAPS

-----------------------------------------------------------------------------
(* Types, in the groups in which the actions change them.                  *)

TalkTyped == messages \in Seq(Messages) /\ said \in [Runs -> BOOLEAN]

PromptTyped ==
    /\ prompt \in [Runs -> {"none", "start", "await", "commit", "final", "done"}]
    /\ aborted \in [Runs -> BOOLEAN] /\ notified \in [Runs -> BOOLEAN]
    /\ cancelled \in [Runs -> BOOLEAN] /\ second \in [Runs -> BOOLEAN]
    /\ cancels \in 0 .. MaxCancels

LoopTyped ==
    /\ loop \in [Runs -> LoopStates]
    /\ turn \in [Runs -> 0 .. MaxTurns] /\ attempt \in [Runs -> 0 .. MaxRetries + 1]
    /\ retrying \in [Runs -> BOOLEAN] /\ streaming \in [Runs -> BOOLEAN]
    /\ calls \in [Runs -> 0 .. MaxCalls] /\ call \in [Runs -> 0 .. MaxCalls + 1]
    /\ result \in [Runs -> Results]
    /\ terminate \in [Runs -> BOOLEAN] /\ terminal \in [Runs -> BOOLEAN]
    /\ expired \in [Runs -> BOOLEAN] /\ outcome \in [Runs -> Reasons \cup {"none", "no_completion"}]

ToolTyped == handlers \subseteq Runs \X (1 .. MaxTurns) \X (1 .. MaxCalls)

EndTyped ==
    /\ ended \in [Runs -> Nat] /\ reason \in [Runs -> Reasons \cup {"none"}]
    /\ raised \in [Runs -> {"none", "nothing", "cancelled", "error"}]
    /\ broken \in [Runs -> BOOLEAN] /\ forced \in [Runs -> BOOLEAN]

Typed == TalkTyped /\ PromptTyped /\ LoopTyped /\ ToolTyped /\ EndTyped

-----------------------------------------------------------------------------
(* One Run: its counters (Budget), the places of its two tasks (Course),   *)
(* its end (Ending), the model attempt in progress (Attempts), and what    *)
(* it can no longer do once it spoke after an abort (Silenced).            *)

Graceful == {"completed", "terminated"}
ModelPlaces == {"initial", "opening", "model", "stream", "closing", "backoff", "answer"}
BatchPlaces == {"tool", "hook", "handler", "stopping", "grace", "after", "noafter", "append"}
Working == ModelPlaces \cup BatchPlaces \cup {"turnend", "settle", "draining"}
Over == {"returned", "raised", "killed"}

InBatch(r) == loop[r] \in BatchPlaces

Budget(r) ==
    /\ loop[r] \in Working => turn[r] > 0
    /\ loop[r] \in ModelPlaces => call[r] = 0
    /\ InBatch(r) => call[r] \in 1 .. calls[r]
    /\ loop[r] = "backoff" => attempt[r] <= MaxRetries

Course(r) ==
    /\ prompt[r] \in {"none", "start"} => loop[r] = "none"
    /\ prompt[r] = "none" => ~aborted[r]
    /\ prompt[r] = "commit" \/ (prompt[r] \in {"final", "done"} /\ ~forced[r]) => Finished(r)
    /\ forced[r] \/ ended[r] > 0 => prompt[r] \in {"final", "done"}
    /\ second[r] => cancelled[r]
    /\ loop[r] = "killed" => forced[r]

Ending(r) ==
    /\ outcome[r] = "aborted" => aborted[r]
    /\ outcome[r] \in Graceful => loop[r] = "returned"
    /\ outcome[r] = "no_completion" => loop[r] = "raised"
    /\ reason[r] \in Graceful => outcome[r] \in Graceful
    /\ ended[r] <= 1
    /\ ended[r] > 0 => (reason[r] = "aborted" <=> aborted[r])
    /\ prompt[r] \in {"final", "done"} /\ ~broken[r] /\ ~forced[r]
          /\ ~(cancelled[r] /\ raised[r] = "error") => ended[r] = 1

Attempts(r) ==
    ~broken[r] /\ outcome[r] # "no_completion" /\ loop[r] # "killed" =>
        /\ streaming[r] => loop[r] \in {"stream", "closing", "answer"}
        /\ retrying[r] => loop[r] \in {"backoff", "model", "stream", "closing", "answer"}

Silenced(r) ==
    said[r] =>
        /\ aborted[r] /\ prompt[r] \notin {"none", "start"}
        /\ loop[r] \notin ModelPlaces \cup {"turn", "settle", "draining"}
        /\ loop[r] = "append" => result[r] = "error"

RunOK(r) == Budget(r) /\ Course(r) /\ Ending(r) /\ Attempts(r) /\ Silenced(r)
RunInv == \A r \in Runs : RunOK(r)

(* Whatever of the state belongs to one Run.                               *)
View(r) == <<prompt[r], aborted[r], cancelled[r], second[r], loop[r], turn[r], attempt[r],
             retrying[r], streaming[r], calls[r], call[r], result[r], outcome[r], ended[r],
             reason[r], raised[r], broken[r], forced[r], said[r]>>

Apart(r) == \A s \in Runs \ {r} : View(s)' = View(s)

(* Every step of the loop task keeps the types of its variables and moves  *)
(* no other Run.                                                           *)
LEMMA LoopTypes ==
  ASSUME Typed, NEW r \in Runs, Budget(r), LoopStep(r) \/ WorldStep(r)
  PROVE  LoopTyped' /\ Apart(r)
  <1>0. LoopTyped /\ PromptTyped
    BY DEF Typed
  <1> USE LoopAssumption, <1>0 DEF LoopTyped, LoopStates, Reasons, Results, Goto, Returns,
          Raises, SetResult
  <1>1. CASE TurnStart(r)
    <2>1. LoopTyped'
      <3>1. CASE turn[r] = MaxTurns
        BY <1>1, <3>1 DEF TurnStart
      <3>2. CASE turn[r] # MaxTurns /\ expired[r]
        BY <1>1, <3>2 DEF TurnStart
      <3>3. CASE turn[r] # MaxTurns /\ ~expired[r]
        <4>1. turn[r] + 1 \in 0 .. MaxTurns /\ 1 \in 0 .. MaxRetries + 1
          BY <3>3
        <4> QED BY <1>1, <3>3, <4>1 DEF TurnStart
      <3> QED BY <3>1, <3>2, <3>3
    <2>2. Apart(r)
      BY SMTT(30), <1>1 DEF TurnStart, Apart, View, Typed, TalkTyped, PromptTyped, EndTyped, Say,
         RetryEnd, AfterToolResult, transcript, promptVars, endVars
    <2> QED BY <2>1, <2>2
  <1>2. CASE InitialSafePoint(r)
    <2>1. LoopTyped'
      BY <1>2 DEF InitialSafePoint
    <2>2. Apart(r)
      BY <1>2 DEF InitialSafePoint, Apart, View, Typed, TalkTyped, PromptTyped, EndTyped, Say,
         RetryEnd, AfterToolResult, transcript, promptVars, endVars
    <2> QED BY <2>1, <2>2
  <1>3. CASE AttemptStart(r)
    <2>1. LoopTyped'
      BY <1>3 DEF AttemptStart
    <2>2. Apart(r)
      BY <1>3 DEF AttemptStart, Apart, View, Typed, TalkTyped, PromptTyped, EndTyped, Say,
         RetryEnd, AfterToolResult, transcript, promptVars, endVars
    <2> QED BY <2>1, <2>2
  <1>4. CASE StreamAborts(r)
    <2>1. LoopTyped'
      BY <1>4 DEF StreamAborts
    <2>2. Apart(r)
      BY <1>4 DEF StreamAborts, Apart, View, Typed, TalkTyped, PromptTyped, EndTyped, Say,
         RetryEnd, AfterToolResult, transcript, promptVars, endVars
    <2> QED BY <2>1, <2>2
  <1>5. CASE StreamClosed(r)
    <2>1. LoopTyped'
      BY <1>5 DEF StreamClosed
    <2>2. Apart(r)
      BY <1>5 DEF StreamClosed, Apart, View, Typed, TalkTyped, PromptTyped, EndTyped, Say,
         RetryEnd, AfterToolResult, transcript, promptVars, endVars
    <2> QED BY <2>1, <2>2
  <1>6. CASE BackoffElapses(r)
    <2>1. LoopTyped'
      <3>1. attempt[r] + 1 \in 0 .. MaxRetries + 1
        BY <1>6 DEF BackoffElapses, Budget
      <3> QED BY <1>6, <3>1 DEF BackoffElapses
    <2>2. Apart(r)
      BY <1>6 DEF BackoffElapses, Apart, View, Typed, TalkTyped, PromptTyped, EndTyped, Say,
         RetryEnd, AfterToolResult, transcript, promptVars, endVars
    <2> QED BY <2>1, <2>2
  <1>7. CASE BackoffCut(r)
    <2>1. LoopTyped'
      <3>1. loop' \in [Runs -> LoopStates] /\ calls' \in [Runs -> 0 .. MaxCalls]
        BY <1>7 DEF BackoffCut
      <3> QED BY <1>7, <3>1 DEF BackoffCut
    <2>2. Apart(r)
      BY <1>7 DEF BackoffCut, Apart, View, Typed, TalkTyped, PromptTyped, EndTyped, Say,
         RetryEnd, AfterToolResult, transcript, promptVars, endVars
    <2> QED BY <2>1, <2>2
  <1>8. CASE CommitAnswer(r)
    <2>1. LoopTyped'
      BY <1>8 DEF CommitAnswer, RetryEnd
    <2>2. Apart(r)
      BY <1>8 DEF CommitAnswer, Apart, View, Typed, TalkTyped, PromptTyped, EndTyped, Say,
         RetryEnd, AfterToolResult, transcript, promptVars, endVars
    <2> QED BY <2>1, <2>2
  <1>9. CASE ToolStart(r)
    <2>1. LoopTyped'
      <3>1. CASE aborted[r]
        BY <1>9, <3>1 DEF ToolStart
      <3>2. CASE ~aborted[r]
        BY <1>9, <3>2 DEF ToolStart
      <3> QED BY <3>1, <3>2
    <2>2. Apart(r)
      BY SMTT(30), <1>9 DEF ToolStart, Apart, View, Typed, TalkTyped, PromptTyped, EndTyped, Say,
         RetryEnd, AfterToolResult, transcript, promptVars, endVars
    <2> QED BY <2>1, <2>2
  <1>10. CASE HandlerAborts(r)
    <2>1. LoopTyped'
      BY <1>10 DEF HandlerAborts
    <2>2. Apart(r)
      BY <1>10 DEF HandlerAborts, Apart, View, Typed, TalkTyped, PromptTyped, EndTyped, Say,
         RetryEnd, AfterToolResult, transcript, promptVars, endVars
    <2> QED BY <2>1, <2>2
  <1>11. CASE HandlerStopped(r)
    <2>1. LoopTyped'
      BY <1>11 DEF HandlerStopped
    <2>2. Apart(r)
      BY <1>11 DEF HandlerStopped, Apart, View, Typed, TalkTyped, PromptTyped, EndTyped, Say,
         RetryEnd, AfterToolResult, transcript, promptVars, endVars
    <2> QED BY <2>1, <2>2
  <1>12. CASE GraceExpires(r)
    <2>1. LoopTyped'
      BY <1>12 DEF GraceExpires
    <2>2. Apart(r)
      BY <1>12 DEF GraceExpires, Apart, View, Typed, TalkTyped, PromptTyped, EndTyped, Say,
         RetryEnd, AfterToolResult, transcript, promptVars, endVars
    <2> QED BY <2>1, <2>2
  <1>13. CASE AppendResult(r)
    <2>1. LoopTyped'
      <3>1. call[r] + 1 \in 0 .. MaxCalls + 1
        BY <1>13 DEF AppendResult, Budget, InBatch, BatchPlaces
      <3>2. (terminate[r] /\ result[r] = "stop") \in BOOLEAN
        OBVIOUS
      <3> QED BY <1>13, <3>1, <3>2 DEF AppendResult
    <2>2. Apart(r)
      BY <1>13 DEF AppendResult, Apart, View, Typed, TalkTyped, PromptTyped, EndTyped, Say,
         RetryEnd, AfterToolResult, transcript, promptVars, endVars
    <2> QED BY <2>1, <2>2
  <1>14. CASE SettleDrains(r)
    <2>1. LoopTyped'
      BY <1>14 DEF SettleDrains
    <2>2. Apart(r)
      BY <1>14 DEF SettleDrains, Apart, View, Typed, TalkTyped, PromptTyped, EndTyped, Say,
         RetryEnd, AfterToolResult, transcript, promptVars, endVars
    <2> QED BY <2>1, <2>2
  <1>15. CASE SettleEmpty(r)
    <2>1. LoopTyped'
      <3>1. CASE terminal[r]
        BY <1>15, <3>1 DEF SettleEmpty
      <3>2. CASE ~terminal[r]
        BY <1>15, <3>2 DEF SettleEmpty
      <3> QED BY <3>1, <3>2
    <2>2. Apart(r)
      BY SMTT(30), <1>15 DEF SettleEmpty, Apart, View, Typed, TalkTyped, PromptTyped, EndTyped, Say,
         RetryEnd, AfterToolResult, transcript, promptVars, endVars
    <2> QED BY <2>1, <2>2
  <1>16. CASE StreamEndsEarly(r)
    <2>1. LoopTyped'
      BY <1>16 DEF StreamEndsEarly
    <2>2. Apart(r)
      BY <1>16 DEF StreamEndsEarly, Apart, View, Typed, TalkTyped, PromptTyped, EndTyped, Say,
         RetryEnd, AfterToolResult, transcript, promptVars, endVars
    <2> QED BY <2>1, <2>2
  <1>17. CASE HandlerTimesOut(r)
    <2>1. LoopTyped'
      BY <1>17 DEF HandlerTimesOut
    <2>2. Apart(r)
      BY <1>17 DEF HandlerTimesOut, Apart, View, Typed, TalkTyped, PromptTyped, EndTyped, Say,
         RetryEnd, AfterToolResult, transcript, promptVars, endVars
    <2> QED BY <2>1, <2>2
  <1>18. CASE Deadline(r)
    <2>1. LoopTyped'
      BY <1>18 DEF Deadline
    <2>2. Apart(r)
      BY <1>18 DEF Deadline, Apart, View, Typed, TalkTyped, PromptTyped, EndTyped, Say,
         RetryEnd, AfterToolResult, transcript, promptVars, endVars
    <2> QED BY <2>1, <2>2
  <1>19. CASE HookRaises(r)
    <2>1. LoopTyped'
      BY <1>19 DEF HookRaises
    <2>2. Apart(r)
      BY <1>19 DEF HookRaises, Delivering, Apart, View, Typed, TalkTyped, PromptTyped, EndTyped, Say,
         RetryEnd, AfterToolResult, transcript, promptVars, endVars
    <2> QED BY <2>1, <2>2
  <1>20. CASE \E d \in {"run", "block", "fail"} : HookDecides(r, d)
    <2>1. LoopTyped'
      <3> PICK d \in {"run", "block", "fail"} : HookDecides(r, d)
        BY <1>20
      <3>1. CASE aborted[r] \/ d # "run"
        BY <3>1 DEF HookDecides
      <3>2. CASE ~(aborted[r] \/ d # "run")
        BY <3>2 DEF HookDecides
      <3> QED BY <3>1, <3>2
    <2>2. Apart(r)
      BY SMTT(30), <1>20 DEF HookDecides, Apart, View, Typed, TalkTyped, PromptTyped, EndTyped, Say,
         RetryEnd, AfterToolResult, transcript, promptVars, endVars
    <2> QED BY <2>1, <2>2
  <1>21. CASE \E b \in BOOLEAN : TurnEnd(r, b)
    <2>1. LoopTyped'
      <3> PICK b \in BOOLEAN : TurnEnd(r, b)
        BY <1>21
      <3>1. terminal' \in [Runs -> BOOLEAN]
        <4>1. (calls[r] = 0 \/ terminate[r] \/ b) \in BOOLEAN
          OBVIOUS
        <4> QED BY <4>1 DEF TurnEnd
      <3>2. loop' \in [Runs -> LoopStates] /\ outcome' \in [Runs -> Reasons \cup {"none", "no_completion"}]
        BY DEF TurnEnd
      <3> QED BY <3>1, <3>2 DEF TurnEnd
    <2>2. Apart(r)
      BY SMTT(30), <1>21 DEF TurnEnd, Apart, View, Typed, TalkTyped, PromptTyped, EndTyped, Say,
         RetryEnd, AfterToolResult, transcript, promptVars, endVars
    <2> QED BY <2>1, <2>2
  <1>22. CASE \E v \in Results : AfterTool(r, v)
    <2>1. LoopTyped'
      BY <1>22 DEF AfterTool, AfterToolResult
    <2>2. Apart(r)
      BY <1>22 DEF AfterTool, Apart, View, Typed, TalkTyped, PromptTyped, EndTyped, Say,
         RetryEnd, AfterToolResult, transcript, promptVars, endVars
    <2> QED BY <2>1, <2>2
  <1>23. CASE \E n \in 0 .. MaxCalls : ModelCompletes(r, n)
    <2>1. LoopTyped'
      BY <1>23 DEF ModelCompletes
    <2>2. Apart(r)
      BY <1>23 DEF ModelCompletes, Apart, View, Typed, TalkTyped, PromptTyped, EndTyped, Say,
         RetryEnd, AfterToolResult, transcript, promptVars, endVars
    <2> QED BY <2>1, <2>2
  <1>24. CASE \E b \in BOOLEAN : AttemptFails(r, b)
    <2>1. LoopTyped'
      <3> PICK b \in BOOLEAN : AttemptFails(r, b)
        BY <1>24
      <3>1. CASE b /\ MayRetry(r)
        BY <3>1 DEF AttemptFails, RetryEnd
      <3>2. CASE ~(b /\ MayRetry(r))
        BY <3>2 DEF AttemptFails, RetryEnd
      <3> QED BY <3>1, <3>2
    <2>2. Apart(r)
      BY SMTT(30), <1>24 DEF AttemptFails, Apart, View, Typed, TalkTyped, PromptTyped, EndTyped, Say,
         RetryEnd, AfterToolResult, transcript, promptVars, endVars
    <2> QED BY <2>1, <2>2
  <1>25. CASE \E v \in Results : HandlerReturns(r, v)
    <2>1. LoopTyped'
      BY <1>25 DEF HandlerReturns
    <2>2. Apart(r)
      BY <1>25 DEF HandlerReturns, Apart, View, Typed, TalkTyped, PromptTyped, EndTyped, Say,
         RetryEnd, AfterToolResult, transcript, promptVars, endVars
    <2> QED BY <2>1, <2>2
  <1>26. CASE \E b \in BOOLEAN : Deliver(r, b)
    <2>1. LoopTyped'
      BY <1>26 DEF Deliver, Delivering
    <2>2. Apart(r)
      BY <1>26 DEF Deliver, Apart, View, Typed, TalkTyped, PromptTyped, EndTyped, Say,
         RetryEnd, AfterToolResult, transcript, promptVars, endVars
    <2> QED BY <2>1, <2>2
  <1> QED BY <1>1, <1>2, <1>3, <1>4, <1>5, <1>6, <1>7, <1>8, <1>9, <1>10, <1>11, <1>12, <1>13,
             <1>14, <1>15, <1>16, <1>17, <1>18, <1>19, <1>20, <1>21, <1>22, <1>23, <1>24,
             <1>25, <1>26 DEF LoopStep, WorldStep

(* The loop task writes nothing of prompt(), except that it broke.         *)
LEMMA LoopFrame ==
  ASSUME NEW r \in Runs, LoopStep(r) \/ WorldStep(r)
  PROVE  /\ UNCHANGED <<promptVars, ended, reason, raised, forced>>
         /\ broken' \in {broken, [broken EXCEPT ![r] = TRUE]}
  <1>1. CASE LoopStep(r)
    BY <1>1 DEF LoopStep, promptVars, endVars, TurnStart, InitialSafePoint, AttemptStart,
           StreamAborts, BackoffElapses, BackoffCut, CommitAnswer, ToolStart,
           HandlerAborts, GraceExpires, AppendResult, HookDecides, TurnEnd,
           AfterTool, Deliver, SettleDrains, SettleEmpty
  <1>2. CASE WorldStep(r)
    BY <1>2 DEF WorldStep, promptVars, endVars, HandlerStopped, StreamClosed, ModelCompletes, AttemptFails, StreamEndsEarly,
           HandlerReturns, HandlerTimesOut, Deadline, HookRaises
  <1> QED BY <1>1, <1>2

(* A Run that does not move keeps its invariant.                           *)
LEMMA ApartKeeps ==
  ASSUME NEW r, Apart(r), NEW s \in Runs \ {r}, RunOK(s)
  PROVE  RunOK(s)'
  <1>1. View(s)' = View(s)
    BY DEF Apart
  <1> QED BY <1>1 DEF View, RunOK, Budget, InBatch, Course, Finished, Ending, Attempts, Silenced

(* What the end of a Run needs to know of a step of its loop task: the     *)
(* task was not over, and a return says the truth about an abort.          *)
LoopMoves(r) ==
    /\ loop[r] \notin Over \cup {"none"}
    /\ loop'[r] # "killed"
    /\ UNCHANGED <<prompt, aborted, cancelled, second, ended, reason, raised, forced>>
    /\ broken[r] => broken'[r]
    /\ outcome'[r] = "aborted" => aborted[r] \/ outcome[r] = "aborted"
    /\ outcome'[r] \in Graceful => loop'[r] = "returned" \/ outcome[r] \in Graceful
    /\ outcome'[r] = "no_completion" => loop'[r] = "raised" \/ outcome[r] = "no_completion"

(* Such a step keeps what relates the loop task to prompt() and to         *)
(* agent_end.                                                              *)
LEMMA MovesKeep ==
  ASSUME Typed, NEW r \in Runs, LoopMoves(r), RunOK(r)
  PROVE  Course(r)' /\ Ending(r)'
  <1>1. Course(r)'
    BY DEF RunOK, Course, Finished, LoopMoves, Over
  <1>2. Ending(r)'
    BY DEF RunOK, Course, Finished, Ending, Graceful, LoopMoves, Over
  <1> QED BY <1>1, <1>2

(* Every step of the loop task, of the model or of a Tool keeps RunOK.     *)
LEMMA LoopRuns ==
  ASSUME Typed, NEW r \in Runs, RunOK(r), LoopStep(r) \/ WorldStep(r)
  PROVE  RunOK(r)'
  <1>0. LoopTyped /\ PromptTyped /\ EndTyped /\ said \in [Runs -> BOOLEAN]
    BY DEF Typed, TalkTyped
  <1> USE LoopAssumption, <1>0 DEF LoopTyped, PromptTyped, EndTyped, LoopStates, Reasons,
          Results, Goto, Returns, Raises, SetResult, transcript, promptVars, endVars, Say,
          RetryEnd, AfterToolResult
  <1>1. CASE TurnStart(r)
    <2>1. LoopMoves(r)
      BY <1>1 DEF TurnStart, LoopMoves, Over, Graceful
    <2>2. Budget(r)'
      BY <1>1 DEF TurnStart, RunOK, Budget, InBatch, ModelPlaces, BatchPlaces, Working
    <2>3. Attempts(r)'
      BY <1>1 DEF TurnStart, RunOK, Attempts, Ending
    <2>4. Silenced(r)'
      BY <1>1 DEF TurnStart, RunOK, Course, Silenced, ModelPlaces
    <2> QED BY <2>1, <2>2, <2>3, <2>4, MovesKeep DEF RunOK
  <1>2. CASE InitialSafePoint(r)
    <2>1. LoopMoves(r)
      BY <1>2 DEF InitialSafePoint, LoopMoves, Over, Graceful
    <2>2. Budget(r)'
      BY <1>2 DEF InitialSafePoint, RunOK, Budget, InBatch, ModelPlaces, BatchPlaces, Working
    <2>3. Attempts(r)'
      BY <1>2 DEF InitialSafePoint, RunOK, Attempts, Ending
    <2>4. Silenced(r)'
      BY <1>2 DEF InitialSafePoint, RunOK, Course, Silenced, ModelPlaces
    <2> QED BY <2>1, <2>2, <2>3, <2>4, MovesKeep DEF RunOK
  <1>3. CASE AttemptStart(r)
    <2>1. LoopMoves(r)
      BY <1>3 DEF AttemptStart, LoopMoves, Over, Graceful
    <2>2. Budget(r)'
      BY <1>3 DEF AttemptStart, RunOK, Budget, InBatch, ModelPlaces, BatchPlaces, Working
    <2>3. Attempts(r)'
      BY <1>3 DEF AttemptStart, RunOK, Attempts, Ending
    <2>4. Silenced(r)'
      BY <1>3 DEF AttemptStart, RunOK, Course, Silenced, ModelPlaces
    <2> QED BY <2>1, <2>2, <2>3, <2>4, MovesKeep DEF RunOK
  <1>4. CASE StreamAborts(r)
    <2>1. LoopMoves(r)
      BY <1>4 DEF StreamAborts, LoopMoves, Over, Graceful
    <2>2. Budget(r)'
      BY <1>4 DEF StreamAborts, RunOK, Budget, InBatch, ModelPlaces, BatchPlaces, Working
    <2>3. Attempts(r)'
      BY <1>4 DEF StreamAborts, RunOK, Attempts, Ending
    <2>4. Silenced(r)'
      BY <1>4 DEF StreamAborts, RunOK, Course, Silenced, ModelPlaces
    <2> QED BY <2>1, <2>2, <2>3, <2>4, MovesKeep DEF RunOK
  <1>5. CASE StreamClosed(r)
    <2>1. LoopMoves(r)
      BY <1>5 DEF StreamClosed, LoopMoves, Over, Graceful
    <2>2. Budget(r)'
      BY <1>5 DEF StreamClosed, RunOK, Budget, InBatch, ModelPlaces, BatchPlaces, Working
    <2>3. Attempts(r)'
      BY <1>5 DEF StreamClosed, RunOK, Attempts, Ending
    <2>4. Silenced(r)'
      BY <1>5 DEF StreamClosed, RunOK, Course, Silenced, ModelPlaces
    <2> QED BY <2>1, <2>2, <2>3, <2>4, MovesKeep DEF RunOK
  <1>6. CASE BackoffElapses(r)
    <2>1. LoopMoves(r)
      BY <1>6 DEF BackoffElapses, LoopMoves, Over, Graceful
    <2>2. Budget(r)'
      BY <1>6 DEF BackoffElapses, RunOK, Budget, InBatch, ModelPlaces, BatchPlaces, Working
    <2>3. Attempts(r)'
      BY <1>6 DEF BackoffElapses, RunOK, Attempts, Ending
    <2>4. Silenced(r)'
      BY <1>6 DEF BackoffElapses, RunOK, Course, Silenced, ModelPlaces
    <2> QED BY <2>1, <2>2, <2>3, <2>4, MovesKeep DEF RunOK
  <1>7. CASE BackoffCut(r)
    <2>1. LoopMoves(r)
      BY <1>7 DEF BackoffCut, LoopMoves, Over, Graceful
    <2>2. Budget(r)'
      BY <1>7 DEF BackoffCut, RunOK, Budget, InBatch, ModelPlaces, BatchPlaces, Working
    <2>3. Attempts(r)'
      BY <1>7 DEF BackoffCut, RunOK, Attempts, Ending
    <2>4. Silenced(r)'
      BY <1>7 DEF BackoffCut, RunOK, Course, Silenced, ModelPlaces
    <2> QED BY <2>1, <2>2, <2>3, <2>4, MovesKeep DEF RunOK
  <1>8. CASE CommitAnswer(r)
    <2>1. LoopMoves(r)
      BY <1>8 DEF CommitAnswer, LoopMoves, Over, Graceful
    <2>2. Budget(r)'
      BY <1>8 DEF CommitAnswer, RunOK, Budget, InBatch, ModelPlaces, BatchPlaces, Working
    <2>3. Attempts(r)'
      BY <1>8 DEF CommitAnswer, RunOK, Attempts, Ending
    <2>4. Silenced(r)'
      BY <1>8 DEF CommitAnswer, RunOK, Course, Silenced, ModelPlaces
    <2> QED BY <2>1, <2>2, <2>3, <2>4, MovesKeep DEF RunOK
  <1>9. CASE ToolStart(r)
    <2>1. LoopMoves(r)
      BY <1>9 DEF ToolStart, LoopMoves, Over, Graceful
    <2>2. Budget(r)'
      BY <1>9 DEF ToolStart, RunOK, Budget, InBatch, ModelPlaces, BatchPlaces, Working
    <2>3. Attempts(r)'
      BY <1>9 DEF ToolStart, RunOK, Attempts, Ending
    <2>4. Silenced(r)'
      BY <1>9 DEF ToolStart, RunOK, Course, Silenced, ModelPlaces
    <2> QED BY <2>1, <2>2, <2>3, <2>4, MovesKeep DEF RunOK
  <1>10. CASE HandlerAborts(r)
    <2>1. LoopMoves(r)
      BY <1>10 DEF HandlerAborts, LoopMoves, Over, Graceful
    <2>2. Budget(r)'
      BY <1>10 DEF HandlerAborts, RunOK, Budget, InBatch, ModelPlaces, BatchPlaces, Working
    <2>3. Attempts(r)'
      BY <1>10 DEF HandlerAborts, RunOK, Attempts, Ending
    <2>4. Silenced(r)'
      BY <1>10 DEF HandlerAborts, RunOK, Course, Silenced, ModelPlaces
    <2> QED BY <2>1, <2>2, <2>3, <2>4, MovesKeep DEF RunOK
  <1>11. CASE HandlerStopped(r)
    <2>1. LoopMoves(r)
      BY <1>11 DEF HandlerStopped, LoopMoves, Over, Graceful
    <2>2. Budget(r)'
      BY <1>11 DEF HandlerStopped, RunOK, Budget, InBatch, ModelPlaces, BatchPlaces, Working
    <2>3. Attempts(r)'
      BY <1>11 DEF HandlerStopped, RunOK, Attempts, Ending
    <2>4. Silenced(r)'
      BY <1>11 DEF HandlerStopped, RunOK, Course, Silenced, ModelPlaces
    <2> QED BY <2>1, <2>2, <2>3, <2>4, MovesKeep DEF RunOK
  <1>12. CASE GraceExpires(r)
    <2>1. LoopMoves(r)
      BY <1>12 DEF GraceExpires, LoopMoves, Over, Graceful
    <2>2. Budget(r)'
      BY <1>12 DEF GraceExpires, RunOK, Budget, InBatch, ModelPlaces, BatchPlaces, Working
    <2>3. Attempts(r)'
      BY <1>12 DEF GraceExpires, RunOK, Attempts, Ending
    <2>4. Silenced(r)'
      BY <1>12 DEF GraceExpires, RunOK, Course, Silenced, ModelPlaces
    <2> QED BY <2>1, <2>2, <2>3, <2>4, MovesKeep DEF RunOK
  <1>13. CASE AppendResult(r)
    <2>1. LoopMoves(r)
      BY <1>13 DEF AppendResult, LoopMoves, Over, Graceful
    <2>2. Budget(r)'
      BY <1>13 DEF AppendResult, RunOK, Budget, InBatch, ModelPlaces, BatchPlaces, Working
    <2>3. Attempts(r)'
      BY <1>13 DEF AppendResult, RunOK, Attempts, Ending
    <2>4. Silenced(r)'
      BY <1>13 DEF AppendResult, RunOK, Course, Silenced, ModelPlaces
    <2> QED BY <2>1, <2>2, <2>3, <2>4, MovesKeep DEF RunOK
  <1>14. CASE SettleDrains(r)
    <2>1. LoopMoves(r)
      BY <1>14 DEF SettleDrains, LoopMoves, Over, Graceful
    <2>2. Budget(r)'
      BY <1>14 DEF SettleDrains, RunOK, Budget, InBatch, ModelPlaces, BatchPlaces, Working
    <2>3. Attempts(r)'
      BY <1>14 DEF SettleDrains, RunOK, Attempts, Ending
    <2>4. Silenced(r)'
      BY <1>14 DEF SettleDrains, RunOK, Course, Silenced, ModelPlaces
    <2> QED BY <2>1, <2>2, <2>3, <2>4, MovesKeep DEF RunOK
  <1>15. CASE SettleEmpty(r)
    <2>1. LoopMoves(r)
      BY <1>15 DEF SettleEmpty, LoopMoves, Over, Graceful
    <2>2. Budget(r)'
      BY <1>15 DEF SettleEmpty, RunOK, Budget, InBatch, ModelPlaces, BatchPlaces, Working
    <2>3. Attempts(r)'
      BY <1>15 DEF SettleEmpty, RunOK, Attempts, Ending
    <2>4. Silenced(r)'
      BY <1>15 DEF SettleEmpty, RunOK, Course, Silenced, ModelPlaces
    <2> QED BY <2>1, <2>2, <2>3, <2>4, MovesKeep DEF RunOK
  <1>16. CASE StreamEndsEarly(r)
    <2>1. LoopMoves(r)
      BY <1>16 DEF StreamEndsEarly, LoopMoves, Over, Graceful
    <2>2. Budget(r)'
      BY <1>16 DEF StreamEndsEarly, RunOK, Budget, InBatch, ModelPlaces, BatchPlaces, Working
    <2>3. Attempts(r)'
      BY <1>16 DEF StreamEndsEarly, RunOK, Attempts, Ending
    <2>4. Silenced(r)'
      BY <1>16 DEF StreamEndsEarly, RunOK, Course, Silenced, ModelPlaces
    <2> QED BY <2>1, <2>2, <2>3, <2>4, MovesKeep DEF RunOK
  <1>17. CASE HandlerTimesOut(r)
    <2>1. LoopMoves(r)
      BY <1>17 DEF HandlerTimesOut, LoopMoves, Over, Graceful
    <2>2. Budget(r)'
      BY <1>17 DEF HandlerTimesOut, RunOK, Budget, InBatch, ModelPlaces, BatchPlaces, Working
    <2>3. Attempts(r)'
      BY <1>17 DEF HandlerTimesOut, RunOK, Attempts, Ending
    <2>4. Silenced(r)'
      BY <1>17 DEF HandlerTimesOut, RunOK, Course, Silenced, ModelPlaces
    <2> QED BY <2>1, <2>2, <2>3, <2>4, MovesKeep DEF RunOK
  <1>18. CASE Deadline(r)
    <2>1. LoopMoves(r)
      BY <1>18 DEF Deadline, LoopMoves, Over, Graceful
    <2>2. Budget(r)'
      BY <1>18 DEF Deadline, RunOK, Budget, InBatch, ModelPlaces, BatchPlaces, Working
    <2>3. Attempts(r)'
      BY <1>18 DEF Deadline, RunOK, Attempts, Ending
    <2>4. Silenced(r)'
      BY <1>18 DEF Deadline, RunOK, Course, Silenced, ModelPlaces
    <2> QED BY <2>1, <2>2, <2>3, <2>4, MovesKeep DEF RunOK
  <1>19. CASE HookRaises(r)
    <2>1. LoopMoves(r)
      BY <1>19 DEF HookRaises, Delivering, LoopMoves, Over, Graceful
    <2>2. Budget(r)'
      BY <1>19 DEF HookRaises, RunOK, Budget, InBatch, ModelPlaces, BatchPlaces, Working
    <2>3. Attempts(r)'
      BY <1>19 DEF HookRaises, RunOK, Attempts, Ending
    <2>4. Silenced(r)'
      BY <1>19 DEF HookRaises, RunOK, Course, Silenced, ModelPlaces
    <2> QED BY <2>1, <2>2, <2>3, <2>4, MovesKeep DEF RunOK
  <1>20. CASE \E d \in {"run", "block", "fail"} : HookDecides(r, d)
    <2>1. LoopMoves(r)
      BY <1>20 DEF HookDecides, LoopMoves, Over, Graceful
    <2>2. Budget(r)'
      BY <1>20 DEF HookDecides, RunOK, Budget, InBatch, ModelPlaces, BatchPlaces, Working
    <2>3. Attempts(r)'
      BY <1>20 DEF HookDecides, RunOK, Attempts, Ending
    <2>4. Silenced(r)'
      BY <1>20 DEF HookDecides, RunOK, Course, Silenced, ModelPlaces
    <2> QED BY <2>1, <2>2, <2>3, <2>4, MovesKeep DEF RunOK
  <1>21. CASE \E b \in BOOLEAN : TurnEnd(r, b)
    <2>1. LoopMoves(r)
      BY <1>21 DEF TurnEnd, LoopMoves, Over, Graceful
    <2>2. Budget(r)'
      BY <1>21 DEF TurnEnd, RunOK, Budget, InBatch, ModelPlaces, BatchPlaces, Working
    <2>3. Attempts(r)'
      BY <1>21 DEF TurnEnd, RunOK, Attempts, Ending
    <2>4. Silenced(r)'
      BY <1>21 DEF TurnEnd, RunOK, Course, Silenced, ModelPlaces
    <2> QED BY <2>1, <2>2, <2>3, <2>4, MovesKeep DEF RunOK
  <1>22. CASE \E v \in Results : AfterTool(r, v)
    <2>1. LoopMoves(r)
      BY <1>22 DEF AfterTool, LoopMoves, Over, Graceful
    <2>2. Budget(r)'
      BY <1>22 DEF AfterTool, RunOK, Budget, InBatch, ModelPlaces, BatchPlaces, Working
    <2>3. Attempts(r)'
      BY <1>22 DEF AfterTool, RunOK, Attempts, Ending
    <2>4. Silenced(r)'
      BY <1>22 DEF AfterTool, RunOK, Course, Silenced, ModelPlaces
    <2> QED BY <2>1, <2>2, <2>3, <2>4, MovesKeep DEF RunOK
  <1>23. CASE \E n \in 0 .. MaxCalls : ModelCompletes(r, n)
    <2>1. LoopMoves(r)
      BY <1>23 DEF ModelCompletes, LoopMoves, Over, Graceful
    <2>2. Budget(r)'
      BY <1>23 DEF ModelCompletes, RunOK, Budget, InBatch, ModelPlaces, BatchPlaces, Working
    <2>3. Attempts(r)'
      BY <1>23 DEF ModelCompletes, RunOK, Attempts, Ending
    <2>4. Silenced(r)'
      BY <1>23 DEF ModelCompletes, RunOK, Course, Silenced, ModelPlaces
    <2> QED BY <2>1, <2>2, <2>3, <2>4, MovesKeep DEF RunOK
  <1>24. CASE \E b \in BOOLEAN : AttemptFails(r, b)
    <2>1. LoopMoves(r)
      BY <1>24 DEF AttemptFails, LoopMoves, Over, Graceful
    <2>2. Budget(r)'
      BY <1>24 DEF AttemptFails, MayRetry, RunOK, Budget, InBatch, ModelPlaces, BatchPlaces,
         Working
    <2>3. Attempts(r)'
      BY <1>24 DEF AttemptFails, RunOK, Attempts, Ending
    <2>4. Silenced(r)'
      BY <1>24 DEF AttemptFails, RunOK, Course, Silenced, ModelPlaces
    <2> QED BY <2>1, <2>2, <2>3, <2>4, MovesKeep DEF RunOK
  <1>25. CASE \E v \in Results : HandlerReturns(r, v)
    <2>1. LoopMoves(r)
      BY <1>25 DEF HandlerReturns, LoopMoves, Over, Graceful
    <2>2. Budget(r)'
      BY <1>25 DEF HandlerReturns, RunOK, Budget, InBatch, ModelPlaces, BatchPlaces, Working
    <2>3. Attempts(r)'
      BY <1>25 DEF HandlerReturns, RunOK, Attempts, Ending
    <2>4. Silenced(r)'
      BY <1>25 DEF HandlerReturns, RunOK, Course, Silenced, ModelPlaces
    <2> QED BY <2>1, <2>2, <2>3, <2>4, MovesKeep DEF RunOK
  <1>26. CASE \E b \in BOOLEAN : Deliver(r, b)
    <2>1. LoopMoves(r)
      BY <1>26 DEF Deliver, Delivering, LoopMoves, Over, Graceful
    <2>2. Budget(r)'
      BY <1>26 DEF Deliver, Delivering, RunOK, Budget, InBatch, ModelPlaces, BatchPlaces, Working
    <2>3. Attempts(r)'
      BY <1>26 DEF Deliver, Delivering, RunOK, Attempts, Ending
    <2>4. Silenced(r)'
      BY <1>26 DEF Deliver, Delivering, UserMsg, RunOK, Course, Silenced, ModelPlaces
    <2> QED BY <2>1, <2>2, <2>3, <2>4, MovesKeep DEF RunOK
  <1> QED BY <1>1, <1>2, <1>3, <1>4, <1>5, <1>6, <1>7, <1>8, <1>9, <1>10, <1>11, <1>12, <1>13,
             <1>14, <1>15, <1>16, <1>17, <1>18, <1>19, <1>20, <1>21, <1>22, <1>23, <1>24,
             <1>25, <1>26 DEF LoopStep, WorldStep

(* The steps of prompt(), of its abort monitor and of its callers.         *)
PromptAct(r) ==
    \/ Prompt(r) \/ Abort(r) \/ Notify(r) \/ Cancel(r) \/ ForceCancel(r) \/ PromptStep(r)

(* They keep RunOK and the types of the Run, and move no other Run.        *)
LEMMA PromptRuns ==
  ASSUME Typed, NEW r \in Runs, RunOK(r), PromptAct(r)
  PROVE  RunOK(r)' /\ Apart(r) /\ PromptTyped' /\ LoopTyped' /\ EndTyped'
  <1>0. LoopTyped /\ PromptTyped /\ EndTyped /\ said \in [Runs -> BOOLEAN]
    BY DEF Typed, TalkTyped
  <1> USE LoopAssumption, <1>0 DEF LoopTyped, PromptTyped, EndTyped, LoopStates, Reasons,
          Goto, Say, RequestAbort, EndReason, Failed, transcript, promptVars, loopVars,
          endVars
  <1>1. CASE Prompt(r)
    <2>1. Budget(r)'
      BY <1>1 DEF Prompt, RunOK, Budget, InBatch, ModelPlaces, BatchPlaces, Working
    <2>2. Course(r)'
      BY <1>1 DEF Prompt, Accepting, Swallows, RunOK, Course, Finished
    <2>3. Ending(r)'
      BY <1>1 DEF Prompt, Accepting, Swallows, RunOK, Course, Finished, Ending, Graceful
    <2>4. Attempts(r)'
      BY <1>1 DEF Prompt, RunOK, Course, Ending, Attempts
    <2>5. Silenced(r)'
      BY <1>1 DEF Prompt, RunOK, Course, Silenced, Finished, ModelPlaces
    <2>6. Apart(r)
      BY <1>1 DEF Prompt, Apart, View
    <2>7. PromptTyped'
      BY <1>1 DEF Prompt
    <2>8. LoopTyped'
      BY <1>1 DEF Prompt
    <2>9. EndTyped'
      BY <1>1 DEF Prompt
    <2> QED BY <2>1, <2>2, <2>3, <2>4, <2>5, <2>6, <2>7, <2>8, <2>9 DEF RunOK
  <1>2. CASE Abort(r)
    <2>1. Budget(r)'
      BY <1>2 DEF Abort, RunOK, Budget, InBatch, ModelPlaces, BatchPlaces, Working
    <2>2. Course(r)'
      BY <1>2 DEF Abort, Accepting, Swallows, RunOK, Course, Finished
    <2>3. Ending(r)'
      BY <1>2 DEF Abort, Accepting, Swallows, RunOK, Course, Finished, Ending, Graceful
    <2>4. Attempts(r)'
      BY <1>2 DEF Abort, RunOK, Course, Ending, Attempts
    <2>5. Silenced(r)'
      BY <1>2 DEF Abort, RunOK, Course, Silenced, Finished, ModelPlaces
    <2>6. Apart(r)
      BY <1>2 DEF Abort, Apart, View
    <2>7. PromptTyped'
      BY <1>2 DEF Abort
    <2>8. LoopTyped'
      BY <1>2 DEF Abort
    <2>9. EndTyped'
      BY <1>2 DEF Abort
    <2> QED BY <2>1, <2>2, <2>3, <2>4, <2>5, <2>6, <2>7, <2>8, <2>9 DEF RunOK
  <1>3. CASE Notify(r)
    <2>1. Budget(r)'
      BY <1>3 DEF Notify, RunOK, Budget, InBatch, ModelPlaces, BatchPlaces, Working
    <2>2. Course(r)'
      BY <1>3 DEF Notify, Accepting, Swallows, RunOK, Course, Finished
    <2>3. Ending(r)'
      BY <1>3 DEF Notify, Accepting, Swallows, RunOK, Course, Finished, Ending, Graceful
    <2>4. Attempts(r)'
      BY <1>3 DEF Notify, RunOK, Course, Ending, Attempts
    <2>5. Silenced(r)'
      BY <1>3 DEF Notify, RunOK, Course, Silenced, Finished, ModelPlaces
    <2>6. Apart(r)
      BY <1>3 DEF Notify, Apart, View
    <2>7. PromptTyped'
      BY <1>3 DEF Notify
    <2>8. LoopTyped'
      BY <1>3 DEF Notify
    <2>9. EndTyped'
      BY <1>3 DEF Notify
    <2> QED BY <2>1, <2>2, <2>3, <2>4, <2>5, <2>6, <2>7, <2>8, <2>9 DEF RunOK
  <1>4. CASE Cancel(r)
    <2>1. Budget(r)'
      BY <1>4 DEF Cancel, RunOK, Budget, InBatch, ModelPlaces, BatchPlaces, Working
    <2>2. Course(r)'
      BY <1>4 DEF Cancel, Accepting, Swallows, RunOK, Course, Finished
    <2>3. Ending(r)'
      BY <1>4 DEF Cancel, Accepting, Swallows, RunOK, Course, Finished, Ending, Graceful
    <2>4. Attempts(r)'
      BY <1>4 DEF Cancel, RunOK, Course, Ending, Attempts
    <2>5. Silenced(r)'
      BY <1>4 DEF Cancel, RunOK, Course, Silenced, Finished, ModelPlaces
    <2>6. Apart(r)
      BY <1>4 DEF Cancel, Apart, View
    <2>7. PromptTyped'
      BY <1>4 DEF Cancel
    <2>8. LoopTyped'
      BY <1>4 DEF Cancel
    <2>9. EndTyped'
      BY <1>4 DEF Cancel
    <2> QED BY <2>1, <2>2, <2>3, <2>4, <2>5, <2>6, <2>7, <2>8, <2>9 DEF RunOK
  <1>5. CASE ForceCancel(r)
    <2>1. Budget(r)'
      BY <1>5 DEF ForceCancel, RunOK, Budget, InBatch, ModelPlaces, BatchPlaces, Working
    <2>2. Course(r)'
      BY <1>5 DEF ForceCancel, Accepting, Swallows, RunOK, Course, Finished
    <2>3. Ending(r)'
      BY <1>5 DEF ForceCancel, Accepting, Swallows, RunOK, Course, Finished, Ending, Graceful
    <2>4. Attempts(r)'
      BY <1>5 DEF ForceCancel, RunOK, Course, Ending, Attempts
    <2>5. Silenced(r)'
      BY <1>5 DEF ForceCancel, RunOK, Course, Silenced, Finished, ModelPlaces
    <2>6. Apart(r)
      BY <1>5 DEF ForceCancel, Apart, View
    <2>7. PromptTyped'
      BY <1>5 DEF ForceCancel
    <2>8. LoopTyped'
      BY <1>5 DEF ForceCancel
    <2>9. EndTyped'
      BY <1>5 DEF ForceCancel
    <2> QED BY <2>1, <2>2, <2>3, <2>4, <2>5, <2>6, <2>7, <2>8, <2>9 DEF RunOK
  <1>6. CASE StartDone(r)
    <2>1. Budget(r)'
      BY <1>6 DEF StartDone, RunOK, Budget, InBatch, ModelPlaces, BatchPlaces, Working
    <2>2. Course(r)'
      BY <1>6 DEF StartDone, Accepting, Swallows, RunOK, Course, Finished
    <2>3. Ending(r)'
      BY <1>6 DEF StartDone, Accepting, Swallows, RunOK, Course, Finished, Ending, Graceful
    <2>4. Attempts(r)'
      BY <1>6 DEF StartDone, RunOK, Course, Ending, Attempts
    <2>5. Silenced(r)'
      BY <1>6 DEF StartDone, RunOK, Course, Silenced, Finished, ModelPlaces
    <2>6. Apart(r)
      BY <1>6 DEF StartDone, Apart, View
    <2>7. PromptTyped'
      BY <1>6 DEF StartDone
    <2>8. LoopTyped'
      BY <1>6 DEF StartDone
    <2>9. EndTyped'
      BY <1>6 DEF StartDone
    <2> QED BY <2>1, <2>2, <2>3, <2>4, <2>5, <2>6, <2>7, <2>8, <2>9 DEF RunOK
  <1>7. CASE StartFails(r)
    <2>1. Budget(r)'
      BY <1>7 DEF StartFails, RunOK, Budget, InBatch, ModelPlaces, BatchPlaces, Working
    <2>2. Course(r)'
      BY <1>7 DEF StartFails, Accepting, Swallows, RunOK, Course, Finished
    <2>3. Ending(r)'
      BY <1>7 DEF StartFails, Accepting, Swallows, RunOK, Course, Finished, Ending, Graceful
    <2>4. Attempts(r)'
      BY <1>7 DEF StartFails, RunOK, Course, Ending, Attempts
    <2>5. Silenced(r)'
      BY <1>7 DEF StartFails, RunOK, Course, Silenced, Finished, ModelPlaces
    <2>6. Apart(r)
      BY <1>7 DEF StartFails, Apart, View
    <2>7. PromptTyped'
      BY <1>7 DEF StartFails
    <2>8. LoopTyped'
      BY <1>7 DEF StartFails
    <2>9. EndTyped'
      BY <1>7 DEF StartFails
    <2> QED BY <2>1, <2>2, <2>3, <2>4, <2>5, <2>6, <2>7, <2>8, <2>9 DEF RunOK
  <1>8. CASE PromptResumes(r)
    <2>1. Budget(r)'
      BY <1>8 DEF PromptResumes, RunOK, Budget, InBatch, ModelPlaces, BatchPlaces, Working
    <2>2. Course(r)'
      BY <1>8 DEF PromptResumes, Accepting, Swallows, RunOK, Course, Finished
    <2>3. Ending(r)'
      BY <1>8 DEF PromptResumes, Accepting, Swallows, RunOK, Course, Finished, Ending, Graceful
    <2>4. Attempts(r)'
      BY <1>8 DEF PromptResumes, RunOK, Course, Ending, Attempts
    <2>5. Silenced(r)'
      BY <1>8 DEF PromptResumes, RunOK, Course, Silenced, Finished, ModelPlaces
    <2>6. Apart(r)
      BY <1>8 DEF PromptResumes, Apart, View
    <2>7. PromptTyped'
      BY <1>8 DEF PromptResumes
    <2>8. LoopTyped'
      BY <1>8 DEF PromptResumes
    <2>9. EndTyped'
      BY <1>8 DEF PromptResumes
    <2> QED BY <2>1, <2>2, <2>3, <2>4, <2>5, <2>6, <2>7, <2>8, <2>9 DEF RunOK
  <1>9. CASE EndRun(r)
    <2>1. Budget(r)'
      BY <1>9 DEF EndRun, RunOK, Budget, InBatch, ModelPlaces, BatchPlaces, Working
    <2>2. Course(r)'
      BY <1>9 DEF EndRun, Accepting, Swallows, RunOK, Course, Finished
    <2>3. Ending(r)'
      BY <1>9 DEF EndRun, Accepting, Swallows, RunOK, Course, Finished, Ending, Graceful
    <2>4. Attempts(r)'
      BY <1>9 DEF EndRun, RunOK, Course, Ending, Attempts
    <2>5. Silenced(r)'
      BY <1>9 DEF EndRun, RunOK, Course, Silenced, Finished, ModelPlaces
    <2>6. Apart(r)
      BY SMTT(30), <1>9 DEF EndRun, Apart, View
    <2>7. PromptTyped'
      BY <1>9 DEF EndRun
    <2>8. LoopTyped'
      BY <1>9 DEF EndRun
    <2>9. EndTyped'
      BY SMTT(30), <1>9 DEF EndRun
    <2> QED BY <2>1, <2>2, <2>3, <2>4, <2>5, <2>6, <2>7, <2>8, <2>9 DEF RunOK
  <1>10. CASE EndCut(r)
    <2>1. Budget(r)'
      BY <1>10 DEF EndCut, RunOK, Budget, InBatch, ModelPlaces, BatchPlaces, Working
    <2>2. Course(r)'
      BY <1>10 DEF EndCut, Accepting, Swallows, RunOK, Course, Finished
    <2>3. Ending(r)'
      BY <1>10 DEF EndCut, Accepting, Swallows, RunOK, Course, Finished, Ending, Graceful
    <2>4. Attempts(r)'
      BY <1>10 DEF EndCut, RunOK, Course, Ending, Attempts
    <2>5. Silenced(r)'
      BY <1>10 DEF EndCut, RunOK, Course, Silenced, Finished, ModelPlaces
    <2>6. Apart(r)
      BY <1>10 DEF EndCut, Apart, View
    <2>7. PromptTyped'
      BY <1>10 DEF EndCut
    <2>8. LoopTyped'
      BY <1>10 DEF EndCut
    <2>9. EndTyped'
      BY <1>10 DEF EndCut
    <2> QED BY <2>1, <2>2, <2>3, <2>4, <2>5, <2>6, <2>7, <2>8, <2>9 DEF RunOK
  <1>11. CASE Finish(r)
    <2>1. Budget(r)'
      BY <1>11 DEF Finish, RunOK, Budget, InBatch, ModelPlaces, BatchPlaces, Working
    <2>2. Course(r)'
      BY <1>11 DEF Finish, Accepting, Swallows, RunOK, Course, Finished
    <2>3. Ending(r)'
      BY <1>11 DEF Finish, Accepting, Swallows, RunOK, Course, Finished, Ending, Graceful
    <2>4. Attempts(r)'
      BY <1>11 DEF Finish, RunOK, Course, Ending, Attempts
    <2>5. Silenced(r)'
      BY <1>11 DEF Finish, RunOK, Course, Silenced, Finished, ModelPlaces
    <2>6. Apart(r)
      BY <1>11 DEF Finish, Apart, View
    <2>7. PromptTyped'
      BY <1>11 DEF Finish
    <2>8. LoopTyped'
      BY <1>11 DEF Finish
    <2>9. EndTyped'
      BY <1>11 DEF Finish
    <2> QED BY <2>1, <2>2, <2>3, <2>4, <2>5, <2>6, <2>7, <2>8, <2>9 DEF RunOK
  <1> QED BY <1>1, <1>2, <1>3, <1>4, <1>5, <1>6, <1>7, <1>8, <1>9, <1>10, <1>11 DEF PromptAct,
             PromptStep

-----------------------------------------------------------------------------
(* Tool handlers.                                                          *)

Waiting == {"handler", "stopping", "grace"}

(* A handler that was given up: its call is behind its loop task, which    *)
(* has its result already, went on to a later call or Turn, or is over. An *)
(* abandoned handler is Past; every other one is waited for by its loop,   *)
(* which is how an ended handler is known not to be an abandoned one of    *)
(* the same name.                                                          *)
Past(h) ==
    LET r == h[1] IN
    \/ h[2] < turn[r]
    \/ h[2] = turn[r] /\ h[3] < call[r]
    \/ h[2] = turn[r] /\ h[3] = call[r] /\ loop[r] \in {"after", "append"}
    \/ loop[r] \in Over

HandlersInv ==
    /\ abandoned \subseteq handlers
    /\ \A h \in abandoned : Past(h)
    /\ \A h \in handlers \ abandoned : loop[h[1]] \in Waiting /\ h = Handler(h[1])
    /\ \A r \in Runs : loop[r] \in Waiting => Handler(r) \in handlers

(* The place of a loop task in its handlers' order.                        *)
Grew(r) ==
    \/ turn'[r] > turn[r]
    \/ turn'[r] = turn[r] /\ call'[r] > call[r]

Onward(r) ==
    /\ UNCHANGED <<handlers, abandoned>>
    /\ \/ loop[r] \notin Waiting /\ loop'[r] \in Over
       \/ /\ turn'[r] = turn[r] /\ call'[r] = call[r]
          /\ loop[r] \in Waiting <=> loop'[r] \in Waiting
          /\ loop[r] \in {"after", "append"} => loop'[r] \in {"after", "append"}
          /\ loop[r] \in Over => loop'[r] \in Over
       \/ loop[r] \notin Waiting \cup Over /\ loop'[r] \notin Waiting /\ Grew(r)

(* The parts of a handler.                                                 *)
LEMMA HandlerFacts ==
  ASSUME Typed, NEW h \in handlers
  PROVE  /\ h[1] \in Runs /\ h[2] \in Nat /\ h[3] \in Nat /\ h = <<h[1], h[2], h[3]>>
         /\ turn[h[1]] \in Nat /\ call[h[1]] \in Nat
  <1>1. h \in Runs \X (1 .. MaxTurns) \X (1 .. MaxCalls)
    BY DEF Typed, ToolTyped
  <1>2. /\ h[1] \in Runs /\ h[2] \in Nat /\ h[3] \in Nat
        /\ h = <<h[1], h[2], h[3]>>
    BY <1>1
  <1>3. turn[h[1]] \in Nat /\ call[h[1]] \in Nat
    BY <1>2, LoopAssumption DEF Typed, LoopTyped
  <1> QED BY <1>2, <1>3

(* A handler that is waited for, or about to start, was never given up.    *)
LEMMA OwnHandler ==
  ASSUME Typed, HandlersInv, NEW r \in Runs, loop[r] \in Waiting \cup {"hook"}
  PROVE  Handler(r) \notin abandoned
  <1> SUFFICES ASSUME Handler(r) \in abandoned PROVE FALSE
    OBVIOUS
  <1>1. Past(Handler(r)) 
    BY DEF HandlersInv
  <1>2. turn[r] \in Nat /\ call[r] \in Nat
    BY LoopAssumption DEF Typed, LoopTyped
  <1> QED BY <1>1, <1>2 DEF Past, Handler, Waiting, Over

(* What happens to the handlers of the Runs that do not move.              *)
LEMMA PastApart ==
  ASSUME NEW r, Apart(r), NEW h, h[1] \in Runs \ {r}
  PROVE  /\ Past(h)' <=> Past(h)
         /\ loop'[h[1]] = loop[h[1]] /\ Handler(h[1])' = Handler(h[1])
  <1>1. View(h[1])' = View(h[1])
    BY DEF Apart
  <1>2. turn'[h[1]] = turn[h[1]] /\ call'[h[1]] = call[h[1]] /\ loop'[h[1]] = loop[h[1]]
    BY <1>1 DEF View
  <1> QED BY <1>2 DEF Past, Handler

(* A step that only moves the loop task forward leaves the handlers in     *)
(* order.                                                                  *)
LEMMA OnwardKeeps ==
  ASSUME Typed, LoopTyped', HandlersInv, NEW r \in Runs, Onward(r), Apart(r)
  PROVE  HandlersInv'
  <1>1. (abandoned \subseteq handlers)'
    BY DEF HandlersInv, Onward
  <1>2. ASSUME NEW h \in abandoned PROVE Past(h)'
    <2>1. Past(h) /\ h \in handlers
      BY DEF HandlersInv
    <2>2. CASE h[1] # r
      BY <2>1, <2>2, PastApart, HandlerFacts
    <2>3. CASE h[1] = r
      <3>1. turn'[r] \in Nat /\ call'[r] \in Nat
        BY LoopAssumption DEF LoopTyped
      <3> QED BY <2>1, <2>3, <3>1, HandlerFacts DEF Onward, Past, Grew, Waiting, Over
    <2> QED BY <2>2, <2>3
  <1>3. ASSUME NEW h \in handlers \ abandoned PROVE (loop[h[1]] \in Waiting /\ h = Handler(h[1]))'
    <2>1. loop[h[1]] \in Waiting /\ h = Handler(h[1])
      BY DEF HandlersInv
    <2>2. CASE h[1] # r
      BY <2>1, <2>2, PastApart, HandlerFacts
    <2>3. CASE h[1] = r
      BY <2>1, <2>3 DEF Onward, Handler, Waiting, Over
    <2> QED BY <2>2, <2>3
  <1>4. ASSUME NEW s \in Runs, loop'[s] \in Waiting PROVE Handler(s)' \in handlers
    <2>1. CASE s # r
      <3>1. View(s)' = View(s)
        BY <2>1 DEF Apart
      <3> QED BY <1>4, <3>1 DEF View, Handler, HandlersInv
    <2>2. CASE s = r
      BY <1>4, <2>2 DEF Onward, Handler, HandlersInv, Waiting, Over
    <2> QED BY <2>1, <2>2
  <1> QED BY <1>1, <1>2, <1>3, <1>4 DEF HandlersInv, Onward

(* The steps that start, end and give up no handler.                       *)
LEMMA OnwardSteps ==
  ASSUME Typed, NEW r \in Runs, RunOK(r),
         \/ TurnStart(r) \/ InitialSafePoint(r) \/ AttemptStart(r) \/ StreamAborts(r)
         \/ StreamClosed(r) \/ BackoffElapses(r) \/ BackoffCut(r) \/ CommitAnswer(r)
         \/ ToolStart(r) \/ HandlerAborts(r) \/ AppendResult(r) \/ SettleDrains(r)
         \/ SettleEmpty(r) \/ StreamEndsEarly(r) \/ HandlerTimesOut(r) \/ Deadline(r)
         \/ HookRaises(r) \/ Prompt(r) \/ Abort(r) \/ Notify(r) \/ Cancel(r)
         \/ StartDone(r) \/ StartFails(r) \/ PromptResumes(r) \/ EndRun(r) \/ EndCut(r)
         \/ Finish(r) \/ (\E b \in BOOLEAN : TurnEnd(r, b))
         \/ (\E v \in Results : AfterTool(r, v))
         \/ (\E n \in 0 .. MaxCalls : ModelCompletes(r, n))
         \/ (\E b \in BOOLEAN : AttemptFails(r, b))
         \/ (\E b \in BOOLEAN : Deliver(r, b))
  PROVE  Onward(r)
  <1>0. LoopTyped /\ PromptTyped
    BY DEF Typed
  <1> USE LoopAssumption, <1>0 DEF LoopTyped, PromptTyped, LoopStates, Goto, Returns, Raises,
          toolVars, loopVars, Onward, Waiting, Over
  <1>1. CASE TurnStart(r)
    BY <1>1 DEF TurnStart, Grew
  <1>2. CASE InitialSafePoint(r)
    BY <1>2 DEF InitialSafePoint
  <1>3. CASE AttemptStart(r)
    BY <1>3 DEF AttemptStart
  <1>4. CASE StreamAborts(r)
    BY <1>4 DEF StreamAborts
  <1>5. CASE StreamClosed(r)
    BY <1>5 DEF StreamClosed
  <1>6. CASE BackoffElapses(r)
    BY <1>6 DEF BackoffElapses
  <1>7. CASE BackoffCut(r)
    BY <1>7 DEF BackoffCut
  <1>8. CASE CommitAnswer(r)
    BY <1>8 DEF CommitAnswer, Grew, RunOK, Budget, ModelPlaces
  <1>9. CASE ToolStart(r)
    BY <1>9 DEF ToolStart
  <1>10. CASE HandlerAborts(r)
    BY <1>10 DEF HandlerAborts
  <1>11. CASE AppendResult(r)
    BY <1>11 DEF AppendResult, Grew
  <1>12. CASE SettleDrains(r)
    BY <1>12 DEF SettleDrains
  <1>13. CASE SettleEmpty(r)
    BY <1>13 DEF SettleEmpty
  <1>14. CASE StreamEndsEarly(r)
    BY <1>14 DEF StreamEndsEarly
  <1>15. CASE HandlerTimesOut(r)
    BY <1>15 DEF HandlerTimesOut
  <1>16. CASE Deadline(r)
    BY <1>16 DEF Deadline
  <1>17. CASE HookRaises(r)
    BY <1>17 DEF HookRaises, Delivering
  <1>18. CASE Prompt(r)
    BY <1>18 DEF Prompt
  <1>19. CASE Abort(r)
    BY <1>19 DEF Abort
  <1>20. CASE Notify(r)
    BY <1>20 DEF Notify
  <1>21. CASE Cancel(r)
    BY <1>21 DEF Cancel
  <1>22. CASE StartDone(r)
    BY <1>22 DEF StartDone, RunOK, Course
  <1>23. CASE StartFails(r)
    BY <1>23 DEF StartFails
  <1>24. CASE PromptResumes(r)
    BY <1>24 DEF PromptResumes
  <1>25. CASE EndRun(r)
    BY <1>25 DEF EndRun
  <1>26. CASE EndCut(r)
    BY <1>26 DEF EndCut
  <1>27. CASE Finish(r)
    BY <1>27 DEF Finish
  <1>28. CASE \E b \in BOOLEAN : TurnEnd(r, b)
    BY <1>28 DEF TurnEnd
  <1>29. CASE \E v \in Results : AfterTool(r, v)
    BY <1>29 DEF AfterTool
  <1>30. CASE \E n \in 0 .. MaxCalls : ModelCompletes(r, n)
    BY <1>30 DEF ModelCompletes
  <1>31. CASE \E b \in BOOLEAN : AttemptFails(r, b)
    BY <1>31 DEF AttemptFails
  <1>32. CASE \E b \in BOOLEAN : Deliver(r, b)
    BY <1>32 DEF Deliver, Delivering
  <1> QED BY <1>1, <1>2, <1>3, <1>4, <1>5, <1>6, <1>7, <1>8, <1>9, <1>10, <1>11, <1>12, <1>13,
             <1>14, <1>15, <1>16, <1>17, <1>18, <1>19, <1>20, <1>21, <1>22, <1>23, <1>24,
             <1>25, <1>26, <1>27, <1>28, <1>29, <1>30, <1>31, <1>32

(* A handler starts.                                                       *)
LEMMA HookKeeps ==
  ASSUME Typed, LoopTyped', HandlersInv, NEW r \in Runs, RunOK(r), Apart(r),
         NEW d \in {"run", "block", "fail"}, HookDecides(r, d)
  PROVE  HandlersInv' /\ ToolTyped'
  <1>0. /\ loop[r] = "hook" /\ loop \in [Runs -> LoopStates] /\ abandoned' = abandoned
        /\ turn' = turn /\ call' = call
    BY DEF HookDecides, Typed, LoopTyped
  <1>1. CASE aborted[r] \/ d # "run"
    <2>1. Onward(r)
      BY <1>0, <1>1 DEF HookDecides, Goto, Onward, Waiting, Over
    <2>2. ToolTyped'
      BY <1>1 DEF HookDecides, ToolTyped, Typed
    <2> QED BY <2>1, <2>2, OnwardKeeps
  <1>2. CASE ~(aborted[r] \/ d # "run")
    <2>1. handlers' = handlers \cup {Handler(r)} /\ loop' = [loop EXCEPT ![r] = "handler"]
      BY <1>2 DEF HookDecides, Goto
    <2>2. Handler(r)' = Handler(r) /\ Handler(r)[1] = r
      BY <1>0 DEF Handler
    <2>3. Handler(r) \in Runs \X (1 .. MaxTurns) \X (1 .. MaxCalls)
      <3>1. turn[r] \in 1 .. MaxTurns /\ call[r] \in 1 .. MaxCalls
        BY <1>0, LoopAssumption DEF RunOK, Budget, InBatch, BatchPlaces, Working, Typed,
           LoopTyped
      <3> QED BY <3>1 DEF Handler
    <2>4. ASSUME NEW h \in abandoned PROVE Past(h)'
      <3>1. Past(h) /\ h \in handlers
        BY DEF HandlersInv
      <3>2. CASE h[1] # r
        BY <3>1, <3>2, PastApart, HandlerFacts
      <3>3. CASE h[1] = r
        BY <1>0, <2>1, <3>1, <3>3 DEF Past, Over
      <3> QED BY <3>2, <3>3
    <2>5. ASSUME NEW h \in handlers \ abandoned PROVE (loop[h[1]] \in Waiting /\ h = Handler(h[1]))'
      <3>1. loop[h[1]] \in Waiting /\ h = Handler(h[1])
        BY DEF HandlersInv
      <3>2. h[1] # r
        BY <1>0, <3>1 DEF Waiting
      <3> QED BY <3>1, <3>2, PastApart, HandlerFacts
    <2>6. ASSUME NEW s \in Runs, loop'[s] \in Waiting PROVE Handler(s)' \in handlers'
      <3>1. CASE s # r
        <4>1. View(s)' = View(s)
          BY <3>1 DEF Apart
        <4> QED BY <2>1, <2>6, <4>1 DEF View, Handler, HandlersInv
      <3>2. CASE s = r
        BY <2>1, <2>2, <3>2
      <3> QED BY <3>1, <3>2
    <2>7. (loop[r] \in Waiting /\ Handler(r) = Handler(Handler(r)[1]))'
      BY <1>0, <2>1, <2>2 DEF Waiting
    <2>8. \A h \in (handlers \ abandoned)' : (loop[h[1]] \in Waiting /\ h = Handler(h[1]))'
      BY <1>0, <2>1, <2>2, <2>5, <2>7
    <2>9. abandoned' \subseteq handlers' /\ \A h \in abandoned' : Past(h)'
      BY <1>0, <2>1, <2>4 DEF HandlersInv
    <2> QED BY <2>1, <2>3, <2>6, <2>8, <2>9 DEF HandlersInv, ToolTyped, Typed
  <1> QED BY <1>1, <1>2

(* The loop stops waiting for its handler, which has ended (gone) or is    *)
(* given up (left).                                                        *)
LEMMA HandlerLeft ==
  ASSUME Typed, LoopTyped', HandlersInv, NEW r \in Runs, Apart(r),
         turn' = turn, call' = call, loop'[r] \notin Waiting,
         \/ /\ handlers' = handlers \ {Handler(r)} /\ abandoned' = abandoned
            /\ loop[r] \in Waiting
         \/ /\ handlers' = handlers /\ loop'[r] \in {"after", "killed"}
            /\ abandoned' = abandoned \cup {h \in handlers : h = Handler(r)},
         loop[r] \notin Over, loop[r] \in {"after", "append"} => loop'[r] = "killed"
  PROVE  HandlersInv' /\ ToolTyped'
  <1>0. Handler(r)' = Handler(r) /\ Handler(r)[1] = r
    BY DEF Handler
  <1>1. ToolTyped'
    BY DEF Typed, ToolTyped
  <1>2. (abandoned \subseteq handlers)'
    <2>1. loop[r] \in Waiting => Handler(r) \notin abandoned
      BY OwnHandler
    <2> QED BY <2>1 DEF HandlersInv
  <1>3. ASSUME NEW h \in abandoned PROVE Past(h)'
    <2>1. Past(h) /\ h \in handlers
      BY DEF HandlersInv
    <2>2. CASE h[1] # r
      BY <2>1, <2>2, PastApart, HandlerFacts
    <2>3. CASE h[1] = r
      <3>1. loop[r] \in Waiting => h # Handler(r)
        BY OwnHandler
      <3>2. h = <<h[1], h[2], h[3]>>
        BY <2>1, HandlerFacts
      <3>3. CASE loop[r] \in {"after", "append"}
        BY <2>1, <2>3, <3>3 DEF Past, Over
      <3>4. CASE loop[r] \notin {"after", "append"}
        BY <2>1, <2>3, <3>4 DEF Past, Over
      <3> QED BY <3>3, <3>4
    <2> QED BY <2>2, <2>3
  <1>4. ASSUME NEW h \in abandoned', h \notin abandoned PROVE Past(h)'
    <2>1. h = Handler(r) /\ loop'[r] \in {"after", "killed"}
      BY <1>4
    <2>2. h[1] = r /\ h[2] = turn'[r] /\ h[3] = call'[r]
      BY <2>1 DEF Handler
    <2> QED BY <2>1, <2>2 DEF Past, Over
  <1>5. ASSUME NEW h \in handlers \ abandoned, h # Handler(r)
        PROVE  (loop[h[1]] \in Waiting /\ h = Handler(h[1]))'
    <2>1. loop[h[1]] \in Waiting /\ h = Handler(h[1])
      BY DEF HandlersInv
    <2>2. h[1] # r
      BY <1>5, <2>1
    <2> QED BY <2>1, <2>2, PastApart, HandlerFacts
  <1>6. ASSUME NEW s \in Runs, loop'[s] \in Waiting PROVE Handler(s)' \in handlers'
    <2>1. s # r
      BY <1>6
    <2>2. View(s)' = View(s)
      BY <2>1 DEF Apart
    <2>3. Handler(s)' = Handler(s) /\ Handler(s) \in handlers
      BY <1>6, <2>2 DEF View, Handler, HandlersInv
    <2>4. Handler(s) # Handler(r)
      BY <2>1 DEF Handler
    <2> QED BY <2>3, <2>4
  <1>7. \A h \in (handlers \ abandoned)' : (loop[h[1]] \in Waiting /\ h = Handler(h[1]))'
    <2>1. ASSUME NEW h \in handlers' \ abandoned'
          PROVE  h \in handlers \ abandoned /\ h # Handler(r)
      <3>1. CASE handlers' = handlers
        BY <3>1
      <3>2. CASE handlers' # handlers
        BY <3>2
      <3> QED BY <3>1, <3>2
    <2> QED BY <2>1, <1>5
  <1>8. \A h \in abandoned' : Past(h)'
    BY <1>3, <1>4
  <1> QED BY <1>1, <1>2, <1>6, <1>7, <1>8 DEF HandlersInv

(* An abandoned handler ends.                                              *)
LEMMA AbandonedKeeps ==
  ASSUME Typed, HandlersInv, NEW h \in abandoned, AbandonedEnds(h)
  PROVE  HandlersInv' /\ ToolTyped'
  <1>1. UNCHANGED <<loop, turn, call>> /\ abandoned' = abandoned \ {h} /\ handlers' = handlers \ {h}
    BY DEF AbandonedEnds, loopVars
  <1>2. \A r \in Runs : Handler(r)' = Handler(r)
    BY <1>1 DEF Handler
  <1>3. \A r \in Runs : loop[r] \in Waiting => Handler(r) # h
    BY OwnHandler
  <1>4. \A g \in abandoned' : Past(g)'
    BY <1>1 DEF HandlersInv, Past
  <1>5. \A g \in (handlers \ abandoned)' : (loop[g[1]] \in Waiting /\ g = Handler(g[1]))'
    BY <1>1 DEF HandlersInv, Handler
  <1>6. \A r \in Runs : (loop[r] \in Waiting => Handler(r) \in handlers)'
    BY <1>1, <1>2, <1>3 DEF HandlersInv
  <1>7. ToolTyped' /\ (abandoned \subseteq handlers)'
    BY <1>1 DEF Typed, ToolTyped, HandlersInv
  <1> QED BY <1>4, <1>5, <1>6, <1>7 DEF HandlersInv

(* A second cancellation kills the loop task at its await; a handler it    *)
(* was waiting for is left behind.                                         *)
LEMMA ForceKeeps ==
  ASSUME Typed, LoopTyped', HandlersInv, NEW r \in Runs, RunOK(r), Apart(r),
         ForceCancel(r)
  PROVE  HandlersInv' /\ ToolTyped'
  <1>1. turn' = turn /\ call' = call /\ handlers' = handlers /\ loop \in [Runs -> LoopStates]
    BY DEF ForceCancel, Typed, LoopTyped
  <1>2. CASE Swallows(r) \/ loop[r] \in {"none", "returned", "raised"}
    <2>1. Onward(r) /\ ToolTyped'
      BY <1>1, <1>2 DEF ForceCancel, Onward, Over, Waiting, ToolTyped, Typed
    <2> QED BY <2>1, OnwardKeeps
  <1>3. CASE ~(Swallows(r) \/ loop[r] \in {"none", "returned", "raised"})
    <2>1. /\ loop'[r] = "killed"
          /\ abandoned' = abandoned \cup {h \in handlers : h = Handler(r)}
      BY <1>1, <1>3 DEF ForceCancel, Goto
    <2>2. loop[r] # "killed"
      BY DEF ForceCancel, Accepting, RunOK, Course
    <2>3. loop[r] \notin Over /\ loop'[r] \notin Waiting
      BY <1>3, <2>1, <2>2 DEF Over, Waiting
    <2> QED BY <1>1, <2>1, <2>3, HandlerLeft
  <1> QED BY <1>2, <1>3


-----------------------------------------------------------------------------
(* The transcript.  Answered: the last message of the Run is no input.     *)
(* Replied: the places of a Run for which that must hold.  InTurn: the     *)
(* Runs hold _run_lock one after the other.  BatchAt: the Tool calls of an *)
(* answer are followed by their results in order, all of them unless its   *)
(* Run is in that batch and has come exactly so far.                       *)

Answered(r) ==
    \E k \in 1 .. Len(messages) :
        /\ messages[k].run = r /\ messages[k].role # "user"
        /\ \A j \in k + 1 .. Len(messages) : messages[j].run # r

Replied(r) == InBatch(r) \/ loop[r] \in {"turnend", "settle"} \/ outcome[r] \in Graceful

Answers == \A r \in Runs : Replied(r) => Answered(r)

InTurn == \A r, s \in Runs : s < r /\ prompt[r] # "none" => prompt[s] = "done"

BatchAt(i) ==
    LET m == messages[i] IN
    m.role = "assistant" /\ ~broken[m.run] =>
        /\ \A j \in 1 .. m.n : i + j <= Len(messages) => IsAnswer(i + j, i, j)
        /\ \/ i + m.n <= Len(messages)
           \/ /\ InBatch(m.run) /\ m.turn = turn[m.run] /\ m.n = calls[m.run]
              /\ Len(messages) = i + call[m.run] - 1

Batches == NoneForced => \A i \in 1 .. Len(messages) : BatchAt(i)

(* The kinds of a step: it adds nothing to the transcript and does not     *)
(* move on in a batch (Quiet), or it adds an input, the empty answer of    *)
(* an aborted Run, an answer, or a Tool result.                            *)
Lasting(r) == (broken[r] => broken'[r]) /\ (forced[r] => forced'[r])

Stays(r) ==
    /\ Lasting(r)
    /\ \/ ~InBatch(r) \/ broken'[r] \/ forced'[r]
       \/ InBatch(r)' /\ turn'[r] = turn[r] /\ calls'[r] = calls[r] /\ call'[r] = call[r]
    /\ Replied(r)' => Replied(r)

Quiet(r) == UNCHANGED <<messages, said>> /\ Stays(r)

Speaks(r, m) ==
    /\ messages' = Append(messages, m)
    /\ said' = [said EXCEPT ![r] = aborted[r] /\ m.role # "user"]
    /\ Lasting(r)
    /\ forced'[r] \/ prompt'[r] \notin {"none", "done"}

SaysInput(r) ==
    /\ Speaks(r, UserMsg(r)) /\ ~said[r] /\ ~InBatch(r) /\ ~Replied(r)'
    /\ aborted[r] => loop[r] \in Delivering

SaysNothing(r) ==
    /\ Speaks(r, AssistantMsg(r, 0)) /\ Stays(r) /\ (~InBatch(r) \/ forced'[r])

SaysAnswer(r) ==
    /\ Speaks(r, AssistantMsg(r, calls[r])) /\ ~said[r] /\ ~InBatch(r)
    /\ turn'[r] = turn[r] /\ calls'[r] = calls[r] /\ call'[r] = 1
    /\ calls[r] # 0 => InBatch(r)'

SaysResult(r) ==
    /\ Speaks(r, ToolMsg(r)) /\ InBatch(r) /\ (said[r] => result[r] = "error")
    /\ turn'[r] = turn[r] /\ calls'[r] = calls[r] /\ call'[r] = call[r] + 1
    /\ call[r] # calls[r] => InBatch(r)'

Spoken(r) == Quiet(r) \/ SaysInput(r) \/ SaysNothing(r) \/ SaysAnswer(r) \/ SaysResult(r)

(* Every step of a Run is of one of these kinds.                           *)
LEMMA SpokenSteps ==
  ASSUME Typed, NEW r \in Runs, RunOK(r),
         PromptAct(r) \/ LoopStep(r) \/ WorldStep(r)
  PROVE  Spoken(r)
  <1>0. LoopTyped /\ PromptTyped /\ EndTyped /\ said \in [Runs -> BOOLEAN]
    BY DEF Typed, TalkTyped
  <1> USE LoopAssumption, <1>0 DEF LoopTyped, PromptTyped, EndTyped, LoopStates, Goto,
          Returns, Raises, Say, transcript, loopVars, promptVars, endVars, InBatch,
          BatchPlaces, Replied, Graceful, Lasting
  <1>1. TurnStart(r) => Quiet(r)
    BY DEF TurnStart, Quiet, Stays, RunOK, Ending
  <1>2. AttemptStart(r) => Quiet(r)
    BY DEF AttemptStart, Quiet, Stays, RunOK, Ending
  <1>3. StreamAborts(r) => Quiet(r)
    BY DEF StreamAborts, Quiet, Stays, RunOK, Ending
  <1>4. StreamClosed(r) => Quiet(r)
    BY DEF StreamClosed, Quiet, Stays, RunOK, Ending
  <1>5. BackoffElapses(r) => Quiet(r)
    BY DEF BackoffElapses, Quiet, Stays, RunOK, Ending
  <1>6. BackoffCut(r) => Quiet(r)
    BY DEF BackoffCut, Quiet, Stays, RunOK, Ending
  <1>7. ToolStart(r) => Quiet(r)
    BY DEF ToolStart, Quiet, Stays, RunOK, Ending
  <1>8. HandlerAborts(r) => Quiet(r)
    BY DEF HandlerAborts, Quiet, Stays, RunOK, Ending
  <1>9. HandlerStopped(r) => Quiet(r)
    BY DEF HandlerStopped, Quiet, Stays, RunOK, Ending
  <1>10. GraceExpires(r) => Quiet(r)
    BY DEF GraceExpires, Quiet, Stays, RunOK, Ending
  <1>11. SettleEmpty(r) => Quiet(r)
    BY DEF SettleEmpty, Quiet, Stays, RunOK, Ending
  <1>12. StreamEndsEarly(r) => Quiet(r)
    BY DEF StreamEndsEarly, Quiet, Stays, RunOK, Ending
  <1>13. HandlerTimesOut(r) => Quiet(r)
    BY DEF HandlerTimesOut, Quiet, Stays, RunOK, Ending
  <1>14. Deadline(r) => Quiet(r)
    BY DEF Deadline, Quiet, Stays, RunOK, Ending
  <1>15. HookRaises(r) => Quiet(r)
    BY DEF HookRaises, Delivering, Quiet, Stays, RunOK, Ending
  <1>16. Abort(r) => Quiet(r)
    BY DEF Abort, Quiet, Stays
  <1>17. Notify(r) => Quiet(r)
    BY DEF Notify, Quiet, Stays
  <1>18. Cancel(r) => Quiet(r)
    BY DEF Cancel, Quiet, Stays
  <1>19. ForceCancel(r) => Quiet(r)
    BY DEF ForceCancel, Quiet, Stays, RunOK, Ending, Course
  <1>20. StartDone(r) => Quiet(r)
    BY DEF StartDone, Quiet, Stays, RunOK, Course
  <1>21. StartFails(r) => Quiet(r)
    BY DEF StartFails, Quiet, Stays, RunOK, Course, Ending
  <1>22. PromptResumes(r) => Quiet(r)
    BY DEF PromptResumes, Quiet, Stays
  <1>23. EndCut(r) => Quiet(r)
    BY DEF EndCut, Quiet, Stays
  <1>24. Finish(r) => Quiet(r)
    BY DEF Finish, Quiet, Stays
  <1>25. (\E d \in {"run", "block", "fail"} : HookDecides(r, d)) => Quiet(r)
    BY DEF HookDecides, Quiet, Stays, RunOK, Ending
  <1>26. (\E b \in BOOLEAN : TurnEnd(r, b)) => Quiet(r)
    BY DEF TurnEnd, Quiet, Stays, RunOK, Ending
  <1>27. (\E v \in Results : AfterTool(r, v)) => Quiet(r)
    BY DEF AfterTool, Quiet, Stays, RunOK, Ending
  <1>28. (\E n \in 0 .. MaxCalls : ModelCompletes(r, n)) => Quiet(r)
    BY DEF ModelCompletes, Quiet, Stays, RunOK, Ending
  <1>29. (\E b \in BOOLEAN : AttemptFails(r, b)) => Quiet(r)
    BY DEF AttemptFails, Quiet, Stays, RunOK, Ending
  <1>30. (\E v \in Results : HandlerReturns(r, v)) => Quiet(r)
    BY DEF HandlerReturns, Quiet, Stays, RunOK, Ending
  <1>31. Prompt(r) => SaysInput(r)
    BY DEF Prompt, SaysInput, Speaks, RunOK, Course, Silenced, Ending, Over
  <1>32. InitialSafePoint(r) => Quiet(r)
    BY DEF InitialSafePoint, Quiet, Stays, RunOK, Ending
  <1>33. SettleDrains(r) => Quiet(r)
    BY DEF SettleDrains, Quiet, Stays, RunOK, Ending
  <1>34. (\E b \in BOOLEAN : Deliver(r, b)) => SaysInput(r)
    BY DEF Deliver, Delivering, SaysInput, Speaks, RunOK, Course, Silenced, ModelPlaces, Ending,
       Finished, Over
  <1>35. CommitAnswer(r) => SaysAnswer(r)
    BY DEF CommitAnswer, SaysAnswer, Speaks, RunOK, Course, Silenced, ModelPlaces, Finished
  <1>36. AppendResult(r) => SaysResult(r)
    BY DEF AppendResult, SaysResult, Speaks, RunOK, Course, Silenced, Finished
  <1>37. EndRun(r) /\ UNCHANGED transcript => Quiet(r)
    BY DEF EndRun, Quiet, Stays, RunOK, Ending
  <1>38. EndRun(r) /\ ~UNCHANGED transcript => SaysNothing(r)
    BY DEF EndRun, SaysNothing, Speaks, Stays, Failed, RunOK, Course, Finished
  <1> QED BY <1>1, <1>2, <1>3, <1>4, <1>5, <1>6, <1>7, <1>8, <1>9, <1>10, <1>11, <1>12, <1>13,
             <1>14, <1>15, <1>16, <1>17, <1>18, <1>19, <1>20, <1>21, <1>22, <1>23, <1>24,
             <1>25, <1>26, <1>27, <1>28, <1>29, <1>30, <1>31, <1>32, <1>33, <1>34, <1>35,
             <1>36, <1>37, <1>38
      DEF Spoken, PromptAct, PromptStep, LoopStep, WorldStep

(* The messages a Run adds are messages.                                   *)
LEMMA MessageTypes ==
  ASSUME Typed, NEW r \in Runs, RunOK(r)
  PROVE  /\ UserMsg(r) \in Messages /\ AssistantMsg(r, 0) \in Messages
         /\ AssistantMsg(r, calls[r]) \in Messages
         /\ InBatch(r) => ToolMsg(r) \in Messages
  <1>1. turn[r] \in 0 .. MaxTurns /\ calls[r] \in 0 .. MaxCalls /\ 0 \in 0 .. MaxCalls
    BY LoopAssumption DEF Typed, LoopTyped
  <1>2. InBatch(r) => call[r] \in 0 .. MaxCalls
    BY LoopAssumption DEF Typed, LoopTyped, RunOK, Budget
  <1> QED BY <1>1, <1>2 DEF UserMsg, AssistantMsg, ToolMsg, Messages

(* The transcript holds messages.                                          *)
LEMMA TalkSteps ==
  ASSUME Typed, NEW r \in Runs, RunOK(r), Spoken(r)
  PROVE  TalkTyped'
  <1>0. messages \in Seq(Messages) /\ said \in [Runs -> BOOLEAN] /\ aborted[r] \in BOOLEAN
    BY DEF Typed, TalkTyped, PromptTyped
  <1>1. ASSUME NEW m \in Messages, Speaks(r, m) PROVE TalkTyped'
    BY <1>0, <1>1, AppendProperties DEF Speaks, TalkTyped
  <1>2. CASE Quiet(r)
    BY <1>0, <1>2 DEF Quiet, TalkTyped
  <1> QED BY <1>1, <1>2, MessageTypes
          DEF Spoken, SaysInput, SaysNothing, SaysAnswer, SaysResult

(* Runs take turns.                                                        *)
LEMMA TurnSteps ==
  ASSUME Typed, PromptTyped', InTurn, NEW r \in Runs, Apart(r),
         prompt'[r] # "none" => prompt[r] # "none" \/ \A s \in 1 .. r - 1 : prompt[s] = "done",
         prompt[r] = "done" => prompt'[r] = "done"
  PROVE  InTurn'
  <1>1. \A s \in Runs \ {r} : prompt'[s] = prompt[s]
    BY DEF Apart, View
  <1> SUFFICES ASSUME NEW t \in Runs, NEW s \in Runs, s < t, prompt'[t] # "none"
               PROVE  prompt'[s] = "done"
    BY DEF InTurn
  <1>2. CASE t = r
    <2>1. s \in 1 .. r - 1 /\ s # r
      BY <1>2 DEF Runs
    <2> QED BY <1>1, <1>2, <2>1 DEF InTurn
  <1>3. CASE t # r
    BY <1>1, <1>3 DEF InTurn
  <1> QED BY <1>2, <1>3

(* prompt() starts only when all earlier ones are done, and stays done.    *)
LEMMA PromptMoves ==
  ASSUME Typed, NEW r \in Runs, PromptAct(r) \/ LoopStep(r) \/ WorldStep(r), RunOK(r)
  PROVE  /\ prompt'[r] # "none" => prompt[r] # "none" \/ \A s \in 1 .. r - 1 : prompt[s] = "done"
         /\ prompt[r] = "done" => prompt'[r] = "done"
  <1>0. prompt \in [Runs -> {"none", "start", "await", "commit", "final", "done"}]
    BY DEF Typed, PromptTyped
  <1>1. CASE LoopStep(r) \/ WorldStep(r)
    BY <1>1, LoopFrame DEF promptVars
  <1>2. CASE PromptAct(r)
    BY <1>0, <1>2 DEF PromptAct, PromptStep, Prompt, Abort, Notify, Cancel, ForceCancel,
       StartDone,
           StartFails, PromptResumes, EndRun, EndCut, Finish, Accepting
  <1> QED BY <1>1, <1>2

(* Whoever speaks while no second cancellation has happened is the only    *)
(* Run with Tool calls to answer.                                          *)
LEMMA OnlySpeaker ==
  ASSUME Typed, RunInv, InTurn', NEW r \in Runs, Apart(r), NoneForced', NEW m, Speaks(r, m),
         NEW s \in Runs \ {r}
  PROVE  ~InBatch(s)
  <1>1. View(s)' = View(s)
    BY DEF Apart
  <1>2. prompt'[s] = prompt[s] /\ ~forced[s]
    BY <1>1 DEF View, NoneForced
  <1>3. prompt'[r] \notin {"none", "done"}
    BY DEF Speaks, NoneForced
  <1>4. r < s \/ s < r
    BY DEF Runs
  <1>5. prompt[s] \in {"none", "done"}
    BY <1>2, <1>3, <1>4 DEF InTurn
  <1> QED BY <1>2, <1>5 DEF RunInv, RunOK, Course, Finished, InBatch, BatchPlaces

(* A transcript with one more message.                                     *)
LEMMA Appended ==
  ASSUME messages \in Seq(Messages), NEW m, messages' = Append(messages, m)
  PROVE  /\ Len(messages) \in Nat /\ Len(messages') = Len(messages) + 1
         /\ \A i \in 1 .. Len(messages) : messages'[i] = messages[i]
         /\ messages'[Len(messages) + 1] = m
  <1>1. Len(messages) \in Nat
    BY LenProperties
  <1> QED BY <1>1, AppendProperties

(* The parts of a message.                                                 *)
LEMMA MessageFacts ==
  ASSUME messages \in Seq(Messages), NEW i \in 1 .. Len(messages)
  PROVE  messages[i] \in Messages /\ messages[i].run \in Runs /\ messages[i].n \in Nat
  <1>1. messages[i] \in Messages
    BY ElementOfSeq
  <1> QED BY <1>1, LoopAssumption DEF Messages

(* A Run that does not move stays.                                         *)
LEMMA StaysApart ==
  ASSUME NEW r \in Runs, Apart(r), NEW s \in Runs \ {r}
  PROVE  Stays(s)
  <1>1. View(s)' = View(s)
    BY DEF Apart
  <1> QED BY <1>1 DEF View, Stays, Lasting, InBatch, Replied

(* Steps that add no message.                                              *)
LEMMA BatchStays ==
  ASSUME Typed, messages' = messages, \A s \in Runs : Stays(s), NoneForced', Batches
  PROVE  \A i \in 1 .. Len(messages) : BatchAt(i)'
  <1> SUFFICES ASSUME NEW i \in 1 .. Len(messages), messages[i].role = "assistant",
                      ~broken'[messages[i].run]
               PROVE  /\ \A j \in 1 .. messages[i].n : i + j <= Len(messages) => IsAnswer(i + j, i, j)
                      /\ \/ i + messages[i].n <= Len(messages)
                         \/ /\ InBatch(messages[i].run)'
                            /\ messages[i].turn = turn'[messages[i].run]
                            /\ messages[i].n = calls'[messages[i].run]
                            /\ Len(messages) = i + call'[messages[i].run] - 1
    BY DEF BatchAt, IsAnswer, InBatch
  <1>1. PICK s \in Runs : s = messages[i].run
    BY MessageFacts DEF Typed, TalkTyped
  <1>2. Stays(s) /\ ~broken'[s] /\ ~forced'[s]
    BY <1>1 DEF NoneForced
  <1>3. NoneForced
    BY DEF NoneForced, Stays, Lasting
  <1>4. BatchAt(i)
    BY <1>3 DEF Batches
  <1> QED BY <1>1, <1>2, <1>4 DEF BatchAt, Stays, Lasting

(* A message of another Run, or one that is no Tool result, leaves the     *)
(* batches before it as they are: none of them is open.                    *)
LEMMA BatchBefore ==
  ASSUME Typed, RunInv, InTurn', NEW r \in Runs, Apart(r), NoneForced', Batches,
         NEW m, Speaks(r, m), ~InBatch(r), NEW i \in 1 .. Len(messages)
  PROVE  BatchAt(i)'
  <1>0. messages \in Seq(Messages) /\ messages' = Append(messages, m)
    BY DEF Typed, TalkTyped, Speaks
  <1>1. /\ Len(messages) \in Nat /\ Len(messages') = Len(messages) + 1
        /\ \A k \in 1 .. Len(messages) : messages'[k] = messages[k]
    BY <1>0, Appended
  <1>2. PICK s \in Runs : s = messages[i].run
    BY <1>0, MessageFacts
  <1>3. ~InBatch(s)
    BY OnlySpeaker
  <1>4. NoneForced
    <2>1. \A q \in Runs : Lasting(q)
      BY StaysApart DEF Stays, Speaks
    <2> QED BY <2>1 DEF NoneForced, Lasting
  <1>5. BatchAt(i) /\ messages[i].n \in Nat
    BY <1>0, <1>4, MessageFacts DEF Batches
  <1>6. broken[s] => broken'[s]
    BY StaysApart DEF Stays, Speaks, Lasting
  <1>7. CASE messages[i].role = "assistant" /\ ~broken'[s]
    <2>1. i + messages[i].n <= Len(messages)
      BY <1>2, <1>3, <1>5, <1>6, <1>7 DEF BatchAt
    <2>2. \A j \in 1 .. messages[i].n : i + j \in 1 .. Len(messages) /\ IsAnswer(i + j, i, j)
      BY <1>1, <1>2, <1>5, <1>6, <1>7, <2>1 DEF BatchAt
    <2>3. \A j \in 1 .. messages[i].n : IsAnswer(i + j, i, j)'
      BY <1>1, <2>2 DEF IsAnswer
    <2> QED BY <1>1, <1>5, <2>1, <2>3 DEF BatchAt
  <1> QED BY <1>1, <1>2, <1>7 DEF BatchAt

(* An input, and the empty message of an aborted Run, open no batch.       *)
LEMMA InputKeepsBatches ==
  ASSUME Typed, RunInv, InTurn', NEW r \in Runs, Apart(r), NoneForced', Batches,
         SaysInput(r) \/ SaysNothing(r)
  PROVE  \A i \in 1 .. Len(messages') : BatchAt(i)'
  <1>1. PICK m : Speaks(r, m) /\ (m.role = "assistant" => m.n = 0)
    BY DEF SaysInput, SaysNothing, UserMsg, AssistantMsg
  <1>2. ~InBatch(r)
    BY DEF SaysInput, SaysNothing, NoneForced
  <1>3. /\ Len(messages) \in Nat /\ Len(messages') = Len(messages) + 1
        /\ messages'[Len(messages) + 1] = m
    BY <1>1, Appended DEF Typed, TalkTyped, Speaks
  <1>4. ASSUME NEW i \in 1 .. Len(messages'), i \notin 1 .. Len(messages) PROVE BatchAt(i)'
    <2>1. messages'[i] = m /\ i = Len(messages')
      BY <1>3, <1>4
    <2> QED BY <1>1, <1>3, <2>1 DEF BatchAt
  <1> QED BY <1>1, <1>2, <1>3, <1>4, BatchBefore

(* An answer opens its own batch.                                          *)
LEMMA AnswerOpensBatch ==
  ASSUME Typed, RunInv, InTurn', NEW r \in Runs, Apart(r), NoneForced', Batches, SaysAnswer(r)
  PROVE  \A i \in 1 .. Len(messages') : BatchAt(i)'
  <1> DEFINE m == AssistantMsg(r, calls[r])
  <1>1. Speaks(r, m) /\ ~InBatch(r)
    BY DEF SaysAnswer
  <1>2. /\ Len(messages) \in Nat /\ Len(messages') = Len(messages) + 1
        /\ messages'[Len(messages) + 1] = m
    BY <1>1, Appended DEF Typed, TalkTyped, Speaks
  <1>3. m.run = r /\ m.turn = turn[r] /\ m.n = calls[r] /\ calls[r] \in Nat
    BY LoopAssumption DEF AssistantMsg, Typed, LoopTyped
  <1>4. ASSUME NEW i \in 1 .. Len(messages'), i \notin 1 .. Len(messages) PROVE BatchAt(i)'
    <2>1. calls[r] # 0 => InBatch(r)' /\ calls'[r] = calls[r] /\ turn'[r] = turn[r] /\ call'[r] = 1
      BY DEF SaysAnswer
    <2>2. messages'[i] = m /\ i = Len(messages')
      BY <1>2, <1>4
    <2> HIDE DEF m
    <2>3. \A j \in 1 .. m.n : ~(i + j <= Len(messages'))
      BY <1>2, <1>3, <2>2
    <2>4. i + m.n <= Len(messages') \/ (calls[r] # 0 /\ Len(messages') = i + 1 - 1)
      BY <1>2, <1>3, <2>2
    <2> QED BY <1>3, <2>1, <2>2, <2>3, <2>4 DEF BatchAt
  <1> QED BY <1>1, <1>2, <1>4, BatchBefore

(* A Tool result is the next answer of the one open batch.                 *)
LEMMA ResultFillsBatch ==
  ASSUME Typed, RunInv, InTurn', NEW r \in Runs, Apart(r), NoneForced', Batches, SaysResult(r)
  PROVE  \A i \in 1 .. Len(messages') : BatchAt(i)'
  <1> DEFINE m == ToolMsg(r)
  <1>1. Speaks(r, m) /\ InBatch(r)
    BY DEF SaysResult
  <1>2. /\ Len(messages) \in Nat /\ Len(messages') = Len(messages) + 1
        /\ \A k \in 1 .. Len(messages) : messages'[k] = messages[k]
        /\ messages'[Len(messages) + 1] = m
    BY <1>1, Appended DEF Typed, TalkTyped, Speaks
  <1>3. m.role = "tool" /\ m.run = r /\ m.turn = turn[r] /\ m.n = call[r]
    BY DEF ToolMsg
  <1>4. ASSUME NEW i \in 1 .. Len(messages'), i \notin 1 .. Len(messages) PROVE BatchAt(i)'
    <2>1. messages'[i] = m
      BY <1>2, <1>4
    <2> QED BY <1>3, <2>1 DEF BatchAt
  <1>5. NoneForced
    <2>1. \A q \in Runs : Lasting(q)
      BY StaysApart DEF Stays, Speaks, SaysResult
    <2> QED BY <2>1 DEF NoneForced, Lasting
  <1>6. ASSUME NEW i \in 1 .. Len(messages) PROVE BatchAt(i)'
    <2>1. PICK s \in Runs : s = messages[i].run
      BY MessageFacts DEF Typed, TalkTyped
    <2>2. BatchAt(i) /\ messages[i].n \in Nat
      BY <1>5, MessageFacts DEF Batches, Typed, TalkTyped
    <2>3. broken[s] => broken'[s]
      BY StaysApart DEF Stays, Speaks, Lasting, SaysResult
    <2>4. CASE messages[i].role = "assistant" /\ ~broken'[s] /\ i + messages[i].n <= Len(messages)
      <3>1. \A j \in 1 .. messages[i].n : i + j \in 1 .. Len(messages) /\ IsAnswer(i + j, i, j)
        BY <1>2, <2>1, <2>2, <2>3, <2>4 DEF BatchAt
      <3>2. \A j \in 1 .. messages[i].n : IsAnswer(i + j, i, j)'
        BY <1>2, <3>1 DEF IsAnswer
      <3> QED BY <1>2, <2>2, <2>4, <3>2 DEF BatchAt
    <2>5. CASE messages[i].role = "assistant" /\ ~broken'[s] /\ ~(i + messages[i].n <= Len(messages))
      <3>1. /\ InBatch(s) /\ messages[i].turn = turn[s] /\ messages[i].n = calls[s]
            /\ Len(messages) = i + call[s] - 1
        BY <2>1, <2>2, <2>3, <2>5 DEF BatchAt
      <3>2. s = r
        BY <1>1, <3>1, OnlySpeaker
      <3>3. /\ turn'[r] = turn[r] /\ calls'[r] = calls[r] /\ call'[r] = call[r] + 1
            /\ call[r] # calls[r] => InBatch(r)'
        BY DEF SaysResult
      <3>4. call[r] \in Nat /\ calls[r] \in Nat /\ call[r] <= calls[r] /\ call[r] >= 1
        BY <1>1, LoopAssumption DEF Typed, LoopTyped, RunInv, RunOK, Budget
      <3>5. \A j \in 1 .. messages[i].n : i + j <= Len(messages) => IsAnswer(i + j, i, j)
        BY <2>1, <2>2, <2>3, <2>5 DEF BatchAt
      <3>6. ASSUME NEW k, k = Len(messages) + 1, NEW j, j = call[r] PROVE IsAnswer(k, i, j)'
        BY <1>2, <1>3, <2>1, <3>1, <3>2, <3>6 DEF IsAnswer
      <3>7. ASSUME NEW j \in 1 .. messages[i].n, i + j <= Len(messages)
            PROVE  IsAnswer(i + j, i, j)'
        BY <1>2, <2>2, <3>5, <3>7 DEF IsAnswer
      <3>8. ASSUME NEW j \in 1 .. messages[i].n, i + j <= Len(messages'), ~(i + j <= Len(messages))
            PROVE  IsAnswer(i + j, i, j)'
        <4>1. PICK l \in Nat, c \in Nat : l = Len(messages) /\ c = call[r]
          BY <1>2, <3>4
        <4>2. l = i + c - 1 /\ i + j <= l + 1 /\ ~(i + j <= l)
          BY <1>2, <3>1, <3>2, <3>8, <4>1
        <4>3. j \in Nat
          BY <2>2
        <4>4. i + j = l + 1 /\ j = c
          BY <4>2, <4>3
        <4> QED BY <3>6, <4>1, <4>4
      <3>9. \A j \in 1 .. messages[i].n : i + j <= Len(messages') => IsAnswer(i + j, i, j)'
        BY <3>7, <3>8
      <3>10. \/ i + messages[i].n <= Len(messages')
             \/ /\ InBatch(r)' /\ messages[i].turn = turn'[r] /\ messages[i].n = calls'[r]
                /\ Len(messages') = i + call'[r] - 1
        <4>1. PICK l \in Nat, c \in Nat, n \in Nat : l = Len(messages) /\ c = call[r] /\ n = calls[r]
          BY <1>2, <3>4
        <4>2. l = i + c - 1 /\ c <= n /\ messages[i].n = n
          BY <3>1, <3>2, <3>4, <4>1
        <4>3. CASE c = n
          BY <1>2, <4>1, <4>2, <4>3
        <4>4. CASE c # n
          <5>1. InBatch(r)' /\ turn'[r] = turn[r] /\ calls'[r] = n /\ call'[r] = c + 1
            BY <3>3, <4>1, <4>4
          <5>2. Len(messages') = l + 1
            BY <1>2, <4>1
          <5> QED BY <3>1, <3>2, <4>2, <5>1, <5>2
        <4> QED BY <4>3, <4>4
      <3> QED BY <1>2, <2>1, <2>2, <3>2, <3>9, <3>10 DEF BatchAt
    <2>6. CASE ~(messages[i].role = "assistant" /\ ~broken'[s])
      BY <1>2, <2>1, <2>6 DEF BatchAt
    <2> QED BY <2>4, <2>5, <2>6
  <1> QED BY <1>2, <1>4, <1>6

(* Every step keeps the batches.                                           *)
LEMMA BatchSteps ==
  ASSUME Typed, RunInv, InTurn', NEW r \in Runs, Apart(r), Batches, Spoken(r)
  PROVE  Batches'
  <1> SUFFICES ASSUME NoneForced' PROVE \A i \in 1 .. Len(messages') : BatchAt(i)'
    BY DEF Batches
  <1>1. CASE Quiet(r)
    <2>1. messages' = messages /\ \A s \in Runs : Stays(s)
      BY <1>1, StaysApart DEF Quiet
    <2> QED BY <2>1, BatchStays
  <1>2. CASE ~Quiet(r)
    BY <1>2, InputKeepsBatches, AnswerOpensBatch, ResultFillsBatch DEF Spoken
  <1> QED BY <1>1, <1>2

(* The Run that just spoke has not been left with an input.                *)
LEMMA AnswerSteps ==
  ASSUME Typed, NEW r \in Runs, Apart(r), Answers, Spoken(r)
  PROVE  Answers'
  <1>0. messages \in Seq(Messages) /\ \A s \in Runs \ {r} : Stays(s)
    BY StaysApart DEF Typed, TalkTyped
  <1>1. CASE Quiet(r)
    BY <1>0, <1>1 DEF Quiet, Stays, Answers, Answered
  <1>2. ASSUME NEW m, messages' = Append(messages, m), m.run = r,
               m.role = "user" => ~Replied(r)'
        PROVE  Answers'
    <2>1. /\ Len(messages) \in Nat /\ Len(messages') = Len(messages) + 1
          /\ \A i \in 1 .. Len(messages) : messages'[i] = messages[i]
          /\ messages'[Len(messages) + 1] = m
      BY <1>0, <1>2, Appended
    <2>2. ASSUME NEW s \in Runs, s # r, Replied(s)' PROVE Answered(s)'
      <3>1. Answered(s)
        BY <1>0, <2>2 DEF Answers, Stays
      <3>2. PICK k \in 1 .. Len(messages) :
              /\ messages[k].run = s /\ messages[k].role # "user"
              /\ \A j \in k + 1 .. Len(messages) : messages[j].run # s
        BY <3>1 DEF Answered
      <3>3. \A j \in k + 1 .. Len(messages') : messages'[j].run # s
        BY <1>2, <2>1, <2>2, <3>2
      <3>4. k \in 1 .. Len(messages') /\ messages'[k] = messages[k]
        BY <2>1
      <3> QED BY <3>2, <3>3, <3>4 DEF Answered
    <2>3. ASSUME m.role # "user" PROVE Answered(r)'
      <3>1. Len(messages) + 1 \in 1 .. Len(messages')
        BY <2>1
      <3>2. \A j \in (Len(messages) + 1) + 1 .. Len(messages') : FALSE
        BY <2>1
      <3> QED BY <1>2, <2>1, <2>3, <3>1, <3>2 DEF Answered
    <2> QED BY <1>2, <2>2, <2>3 DEF Answers
  <1>3. CASE SaysInput(r)
    BY <1>2, <1>3 DEF SaysInput, Speaks, UserMsg
  <1>4. CASE SaysNothing(r)
    BY <1>2, <1>4 DEF SaysNothing, Speaks, AssistantMsg
  <1>5. CASE SaysAnswer(r)
    BY <1>2, <1>5 DEF SaysAnswer, Speaks, AssistantMsg
  <1>6. CASE SaysResult(r)
    BY <1>2, <1>6 DEF SaysResult, Speaks, ToolMsg
  <1> QED BY <1>1, <1>3, <1>4, <1>5, <1>6 DEF Spoken

-----------------------------------------------------------------------------
(* The invariant and the theorems.                                         *)

IInv == Typed /\ RunInv /\ HandlersInv /\ InTurn /\ Batches /\ Answers

(* The invariant holds initially.                                          *)
LEMMA InitHolds == Init => IInv
  <1> SUFFICES ASSUME Init PROVE IInv
    OBVIOUS
  <1>1. Typed
    BY LoopAssumption DEF Init, Each, Typed, TalkTyped, PromptTyped, LoopTyped, ToolTyped,
       EndTyped,
           LoopStates, Reasons, Results
  <1>2. RunInv
    BY DEF Init, Each, RunInv, RunOK, Budget, InBatch, Working, ModelPlaces, BatchPlaces,
       Course,
           Finished, Ending, Graceful, Attempts, Silenced
  <1>3. HandlersInv /\ InTurn
    BY DEF Init, Each, HandlersInv, Waiting, InTurn
  <1>4. Batches
    BY DEF Init, Batches
  <1>5. Answers
    BY DEF Init, Each, Answers, Replied, InBatch, BatchPlaces, Graceful
  <1> QED BY <1>1, <1>2, <1>3, <1>4, <1>5 DEF IInv

(* The handlers under every step of a Run.                                 *)
LEMMA HandlerSteps ==
  ASSUME Typed, LoopTyped', HandlersInv, NEW r \in Runs, RunOK(r), Apart(r),
         PromptAct(r) \/ LoopStep(r) \/ WorldStep(r)
  PROVE  HandlersInv' /\ ToolTyped'
  <1>0. loop \in [Runs -> LoopStates] /\ Handler(r)[1] = r
    BY DEF Typed, LoopTyped, Handler
  <1>1. CASE \E d \in {"run", "block", "fail"} : HookDecides(r, d)
    BY <1>1, HookKeeps
  <1>2. CASE \E v \in Results : HandlerReturns(r, v)
    <2>1. /\ turn' = turn /\ call' = call /\ loop[r] = "handler" /\ loop'[r] = "after"
          /\ handlers' = handlers \ {Handler(r)} /\ abandoned' = abandoned
      BY <1>0, <1>2 DEF HandlerReturns, Goto
    <2> QED BY <2>1, HandlerLeft DEF Waiting, Over
  <1>3. CASE HandlerStopped(r)
    <2>1. /\ turn' = turn /\ call' = call /\ loop[r] \in Waiting /\ loop'[r] = "after"
          /\ handlers' = handlers \ {Handler(r)} /\ abandoned' = abandoned
      BY <1>0, <1>3 DEF HandlerStopped, Goto, Waiting
    <2> QED BY <2>1, HandlerLeft DEF Waiting, Over
  <1>4. CASE GraceExpires(r)
    <2>1. /\ turn' = turn /\ call' = call /\ loop[r] = "grace" /\ loop'[r] = "after"
          /\ handlers' = handlers /\ abandoned' = abandoned \cup {Handler(r)}
      BY <1>0, <1>4 DEF GraceExpires, Goto
    <2>2. Handler(r) \in handlers
      BY <2>1 DEF HandlersInv, Waiting
    <2> QED BY <2>1, <2>2, HandlerLeft DEF Waiting, Over
  <1>5. CASE ForceCancel(r)
    BY <1>5, ForceKeeps
  <1>6. CASE Onward(r)
    <2>1. ToolTyped'
      BY <1>6 DEF Onward, Typed, ToolTyped
    <2> QED BY <1>6, <2>1, OnwardKeeps
  <1> QED BY <1>1, <1>2, <1>3, <1>4, <1>5, <1>6, OnwardSteps
          DEF PromptAct, PromptStep, LoopStep, WorldStep

(* A step of one Run.                                                      *)
LEMMA RunSteps ==
  ASSUME IInv, NEW r \in Runs, PromptAct(r) \/ LoopStep(r) \/ WorldStep(r)
  PROVE  IInv'
  <1>0. Typed /\ RunInv /\ RunOK(r) /\ Budget(r)
    BY DEF IInv, RunInv, RunOK
  <1>1. PromptTyped' /\ LoopTyped' /\ EndTyped' /\ Apart(r) /\ RunOK(r)'
    <2>1. CASE PromptAct(r)
      BY <1>0, <2>1, PromptRuns
    <2>2. CASE LoopStep(r) \/ WorldStep(r)
      <3>1. PromptTyped' /\ EndTyped'
        BY <1>0, <2>2, LoopFrame DEF Typed, PromptTyped, EndTyped, promptVars
      <3> QED BY <1>0, <2>2, <3>1, LoopTypes, LoopRuns
    <2> QED BY <2>1, <2>2
  <1>2. RunInv'
    <2>1. \A s \in Runs \ {r} : RunOK(s)'
      BY <1>0, <1>1, ApartKeeps DEF RunInv
    <2> QED BY <1>1, <2>1 DEF RunInv
  <1>3. HandlersInv' /\ ToolTyped'
    BY <1>0, <1>1, HandlerSteps DEF IInv
  <1>4. Spoken(r)
    BY <1>0, SpokenSteps
  <1>5. Typed'
    BY <1>0, <1>1, <1>3, <1>4, TalkSteps DEF Typed
  <1>6. InTurn'
    BY <1>0, <1>1, PromptMoves, TurnSteps DEF IInv
  <1>7. Batches'
    BY <1>0, <1>1, <1>4, <1>6, BatchSteps DEF IInv
  <1>8. Answers'
    BY <1>0, <1>1, <1>4, AnswerSteps DEF IInv
  <1> QED BY <1>2, <1>3, <1>5, <1>6, <1>7, <1>8 DEF IInv

(* The end of an abandoned handler, and a step of nobody.                  *)
LEMMA OtherSteps ==
  ASSUME IInv, (\E h \in abandoned : AbandonedEnds(h)) \/ UNCHANGED vars
  PROVE  IInv'
  <1>1. UNCHANGED <<transcript, promptVars, loopVars, endVars>>
    BY DEF AbandonedEnds, vars
  <1>2. TalkTyped' /\ PromptTyped' /\ LoopTyped' /\ EndTyped'
    BY <1>1 DEF IInv, Typed, TalkTyped, PromptTyped, LoopTyped, EndTyped, transcript,
       promptVars,
           loopVars, endVars
  <1>3. RunInv'
    BY <1>1 DEF IInv, RunInv, RunOK, Budget, InBatch, Course, Finished, Ending, Attempts,
       Silenced,
           transcript, promptVars, loopVars, endVars
  <1>4. HandlersInv' /\ ToolTyped'
    <2>1. CASE UNCHANGED vars
      BY <2>1 DEF IInv, Typed, ToolTyped, HandlersInv, Past, Handler, vars, toolVars, loopVars
    <2> QED BY <2>1, AbandonedKeeps DEF IInv
  <1>5. InTurn' /\ Batches' /\ Answers'
    BY <1>1 DEF IInv, InTurn, Batches, BatchAt, IsAnswer, InBatch, NoneForced, Answers,
       Answered,
           Replied, transcript, promptVars, loopVars, endVars
  <1> QED BY <1>2, <1>3, <1>4, <1>5 DEF IInv, Typed

(* Who may take a step.                                                    *)
LEMMA NextRuns ==
  ASSUME Next
  PROVE  \/ \E r \in Runs : PromptAct(r) \/ LoopStep(r) \/ WorldStep(r)
         \/ \E h \in abandoned : AbandonedEnds(h)
  BY DEF Next, PromptAct

(* The inductive invariant of the Agent (Agent.prompt, AgentLoop,          *)
(* ModelCallExecutor and the Tool call's race).                            *)
THEOREM Invariance == Spec => []IInv
  <1>1. Init => IInv
    BY InitHolds
  <1>2. IInv /\ [Next]_vars => IInv'
    BY RunSteps, OtherSteps, NextRuns
  <1> QED BY <1>1, <1>2, PTL DEF Spec

(* Types, with the budgets of the code: no Turn past max_turns and no      *)
(* model attempt past max_retries + 1, however often aborts, retries and   *)
(* cancellations interleave.                                               *)
THEOREM TypeCorrect == Spec => []TypeOK
  <1>1. IInv => TypeOK
    BY DEF IInv, Typed, TalkTyped, PromptTyped, LoopTyped, ToolTyped, EndTyped, HandlersInv,
       TypeOK
  <1> QED BY <1>1, Invariance, PTL

(* What the next model call sees can be relied on: every Tool call is      *)
(* answered in place and in order, every model attempt and retry is        *)
(* closed, and a graceful end leaves no delivered input unanswered         *)
(* (AgentLoop.run, ModelCallExecutor).                                     *)
THEOREM TranscriptIsSound == Spec => []TranscriptSound
  <1>1. ASSUME IInv PROVE TranscriptWellFormed
    <2> SUFFICES ASSUME NoneForced, NEW i \in 1 .. Len(messages),
                        messages[i].role = "assistant", ~broken[messages[i].run]
                 PROVE  /\ BatchOver(messages[i]) => i + messages[i].n <= Len(messages)
                        /\ \A j \in 1 .. messages[i].n :
                              i + j <= Len(messages) => IsAnswer(i + j, i, j)
      BY DEF TranscriptWellFormed
    <2>1. BatchAt(i)
      BY <1>1 DEF IInv, Batches
    <2>2. messages[i].run \in Runs
      BY <1>1, MessageFacts DEF IInv, Typed, TalkTyped
    <2>3. turn[messages[i].run] \in Nat
      BY <1>1, <2>2, LoopAssumption DEF IInv, Typed, LoopTyped
    <2> QED BY <2>1, <2>3 DEF BatchAt, BatchOver, Finished, InBatch, BatchPlaces
  <1>2. IInv => AttemptsClosed
    BY DEF IInv, RunInv, RunOK, Attempts, AttemptsClosed, Finished
  <1>3. IInv => GracefulEndAnswersInput
    BY DEF IInv, RunInv, RunOK, Ending, Graceful, Answers, Replied, Answered,
       GracefulEndAnswersInput
  <1> QED BY <1>1, <1>2, <1>3, Invariance, TypeCorrect, PTL DEF TranscriptSound

(* The end of a Run can be relied on: agent_end comes once and says        *)
(* "aborted" exactly if abort() was accepted, and neither the loop task    *)
(* nor a Tool handler outlives prompt() unaccounted for (Agent.prompt).    *)
THEOREM EndIsSound == Spec => []EndSound
  <1>1. IInv => AbortAuthority
    BY DEF IInv, RunInv, RunOK, Ending, AbortAuthority
  <1>2. IInv => AgentEndOnce
    BY DEF IInv, RunInv, RunOK, Ending, AgentEndOnce
  <1>3. IInv => IdleIsQuiet
    BY DEF IInv, RunInv, RunOK, Course, IdleIsQuiet
  <1>4. IInv => HandlersAccounted
    BY DEF IInv, HandlersInv, Waiting, HandlersAccounted
  <1> QED BY <1>1, <1>2, <1>3, <1>4, Invariance, PTL DEF EndSound

(* What an aborted Run may still add.                                      *)
Harmless(r, m) ==
    \/ m.role = "user" /\ loop[r] \in Delivering /\ ~said[r]
    \/ m.role = "tool" /\ (said[r] => result[r] = "error")
    \/ m.role = "assistant" /\ (said[r] => m.n = 0)

(* An aborted Run adds the rest of the batch it has taken, the one message *)
(* past its check, and then error results and empty answers only.          *)
LEMMA NothingSucceeds ==
  ASSUME IInv, NEW q \in Runs, PromptAct(q) \/ LoopStep(q) \/ WorldStep(q), messages' # messages,
         NEW r \in Runs, aborted[r], messages'[Len(messages')].run = r
  PROVE  Harmless(r, messages'[Len(messages')])
  <1>1. Spoken(q) /\ ~Quiet(q)
    BY SpokenSteps DEF IInv, RunInv, Quiet
  <1>2. ASSUME NEW m, Speaks(q, m) PROVE messages'[Len(messages')] = m
    BY <1>2, Appended DEF Speaks, IInv, Typed, TalkTyped
  <1>3. CASE SaysInput(q)
    BY <1>2, <1>3 DEF SaysInput, UserMsg, Harmless
  <1>4. CASE SaysNothing(q)
    BY <1>2, <1>4 DEF SaysNothing, AssistantMsg, Harmless
  <1>5. CASE SaysAnswer(q)
    BY <1>2, <1>5 DEF SaysAnswer, AssistantMsg, Harmless
  <1>6. CASE SaysResult(q)
    BY <1>2, <1>6 DEF SaysResult, ToolMsg, Harmless
  <1> QED BY <1>1, <1>3, <1>4, <1>5, <1>6 DEF Spoken

(* An aborted Run takes no interaction from the queue: both safe points    *)
(* look at the signal before they take a batch.                            *)
LEMMA NothingTaken ==
  ASSUME IInv, NEW q \in Runs, PromptAct(q) \/ LoopStep(q) \/ WorldStep(q),
         NEW r \in Runs, aborted[r], loop'[r] \in Delivering
  PROVE  loop[r] = loop'[r]
  <1>0. loop \in [Runs -> LoopStates] /\ Apart(q)
    BY RunSteps, PromptRuns, LoopTypes DEF IInv, Typed, LoopTyped, RunInv, RunOK
  <1>1. CASE q # r
    BY <1>0, <1>1 DEF Apart, View
  <1>2. CASE q = r
    <2> SUFFICES ASSUME loop'[r] # loop[r] PROVE FALSE
      OBVIOUS
    <2>1. CASE PromptAct(r)
      BY <1>0, <2>1 DEF PromptAct, PromptStep, Prompt, Abort, Notify, Cancel, ForceCancel,
         StartDone, StartFails, PromptResumes, EndRun, EndCut, Finish, Goto, loopVars, Delivering
    <2>2. CASE LoopStep(r)
      BY <1>0, <2>2 DEF LoopStep, TurnStart, InitialSafePoint, AttemptStart, StreamAborts,
         BackoffElapses, BackoffCut, CommitAnswer, ToolStart, HandlerAborts, GraceExpires,
         AppendResult, HookDecides, TurnEnd, AfterTool, Deliver, SettleDrains, SettleEmpty,
         Goto, Returns, Raises, Delivering
    <2>3. CASE WorldStep(r)
      BY <1>0, <2>3 DEF WorldStep, HandlerStopped, StreamClosed, ModelCompletes, AttemptFails,
         StreamEndsEarly, HandlerReturns, HandlerTimesOut, Deadline, HookRaises, Goto, Raises,
         Delivering
    <2> QED BY <1>2, <2>1, <2>2, <2>3
  <1> QED BY <1>1, <1>2

(* Nothing succeeds after an abort: apart from the interactions of a batch *)
(* taken before it and the one message already past its check, an aborted  *)
(* Run only adds error results and answers without Tool calls, and takes   *)
(* no further interaction (the checks of AbortSignal.aborted in AgentLoop  *)
(* and InteractionQueueController).                                        *)
THEOREM AbortStaysFinal == Spec => AbortIsFinal
  <1> DEFINE Step ==
        \A r \in Runs : aborted[r] =>
          LET m == messages'[Len(messages')] IN
          /\ messages' # messages /\ m.run = r =>
                \/ m.role = "user" /\ loop[r] \in Delivering /\ ~said[r]
                \/ m.role = "tool" /\ (said[r] => result[r] = "error")
                \/ m.role = "assistant" /\ (said[r] => m.n = 0)
          /\ loop'[r] \in Delivering => loop[r] = loop'[r]
  <1>1. IInv /\ [Next]_vars => [Step]_vars
    <2> SUFFICES ASSUME IInv, Next, NEW r \in Runs, aborted[r]
                 PROVE  /\ messages' # messages /\ messages'[Len(messages')].run = r =>
                               Harmless(r, messages'[Len(messages')])
                        /\ loop'[r] \in Delivering => loop[r] = loop'[r]
      BY DEF Harmless
    <2>1. CASE \E q \in Runs : PromptAct(q) \/ LoopStep(q) \/ WorldStep(q)
      BY <2>1, NothingSucceeds, NothingTaken
    <2>2. CASE \E h \in abandoned : AbandonedEnds(h)
      BY <2>2 DEF AbandonedEnds, transcript, loopVars
    <2> QED BY <2>1, <2>2, NextRuns
  <1> QED BY <1>1, Invariance, PTL DEF Spec, AbortIsFinal
============================================================================
