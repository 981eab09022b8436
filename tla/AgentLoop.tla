------------------------------ MODULE AgentLoop ------------------------------
(***************************************************************************)
(* One Agent over several Runs: Agent.prompt with its abort monitor and    *)
(* its two shielded awaits (core/agent.py), the Turns of AgentLoop         *)
(* (core/agent_loop.py), the model attempts of ModelCallExecutor           *)
(* (core/model_executor.py) and a Tool call's race against abort and       *)
(* timeout (core/tool.py).                                                 *)
(*                                                                         *)
(* prompt() and its loop task are two tasks, hence two program counters    *)
(* per Run: `prompt` and `loop`.  They are separate because a second       *)
(* cancellation ends the one and may leave the other running.              *)
(*                                                                         *)
(* Simplifications: a message keeps its role, Run, Turn and place in the   *)
(* Tool batch; a Tool result is "ok", "stop" (terminate=True) or "error";  *)
(* queued interactions either continue a Turn end or do not                *)
(* (InteractionQueue models the queue); a listener or hook that raises is  *)
(* modelled once per phase of the loop.                                    *)
(***************************************************************************)
EXTENDS Naturals, Sequences, FiniteSets

CONSTANTS
    MaxRuns,     \* bound: prompt() calls
    MaxTurns,    \* AgentLoop.max_turns
    MaxRetries,  \* ModelRetryConfig.max_retries
    MaxCalls,    \* bound: Tool calls of one assistant message
    MaxInputs,   \* bound: interactions delivered in one Turn
    MaxCancels   \* bound: cancellations of tasks awaiting prompt()

ASSUME LoopAssumption ==
    /\ MaxRuns \in Nat \ {0} /\ MaxTurns \in Nat \ {0}
    /\ MaxRetries \in Nat /\ MaxCalls \in Nat /\ MaxInputs \in Nat /\ MaxCancels \in Nat

Runs == 1 .. MaxRuns
Results == {"ok", "stop", "error"}
Reasons == {"completed", "terminated", "aborted", "error", "turn_limit", "deadline_exceeded"}

VARIABLES
    messages,         \* Agent.messages
    prompt,           \* where prompt() of each Run is
    aborted,          \* AbortSignal.aborted
    notified,         \* the abort monitor has run its listeners
    cancelled,        \* caller_cancelled
    second,           \* prompt() is in the second of its two shielded awaits
    cancels,          \* bounded counter
    loop,             \* where the loop task is
    turn, attempt,    \* Turn and model attempt numbers
    retrying,         \* model_retry_start without its model_retry_end
    streaming,        \* message_start of an attempt without its message_end
    calls, call,      \* Tool calls of the Turn's assistant message; current one
    result,           \* result of the current Tool call
    terminate,        \* every result of the batch so far said terminate
    terminal,         \* this Turn end would end the Run
    expired,          \* deadline_expired
    outcome,          \* what the loop task returned or raised
    handlers,         \* Tool handler tasks still running
    abandoned,        \* handlers nobody waits for any more
    ended, reason,    \* number of agent_end events, and the reason they gave
    raised,           \* how prompt() left
    broken, forced,   \* a listener or hook raised; a second cancellation
    said              \* an answer or a Tool result was added after the abort

transcript == <<messages, said>>
promptVars == <<prompt, aborted, notified, cancelled, second, cancels>>
loopVars == <<loop, turn, attempt, retrying, streaming, calls, call, result, terminate,
              terminal, expired, outcome>>
toolVars == <<handlers, abandoned>>
endVars == <<ended, reason, raised, broken, forced>>
vars == <<transcript, promptVars, loopVars, toolVars, endVars>>

Each(v) == [r \in Runs |-> v]

Init ==
    /\ messages = <<>>
    /\ prompt = Each("none") /\ aborted = Each(FALSE) /\ notified = Each(FALSE)
    /\ cancelled = Each(FALSE) /\ second = Each(FALSE) /\ cancels = 0
    /\ loop = Each("none") /\ turn = Each(0) /\ attempt = Each(0)
    /\ retrying = Each(FALSE) /\ streaming = Each(FALSE)
    /\ calls = Each(0) /\ call = Each(0) /\ result = Each("ok")
    /\ terminate = Each(FALSE) /\ terminal = Each(FALSE) /\ expired = Each(FALSE)
    /\ outcome = Each("none")
    /\ handlers = {} /\ abandoned = {}
    /\ ended = Each(0) /\ reason = Each("none") /\ raised = Each("none")
    /\ broken = Each(FALSE) /\ forced = Each(FALSE) /\ said = Each(FALSE)

-----------------------------------------------------------------------------
(* Helpers.  A definition whose name ends in a fault is a mutant of the    *)
(* one after it.                                                           *)

UserMsg(r) == [role |-> "user", run |-> r, turn |-> turn[r], n |-> 0]
AssistantMsg(r, n) == [role |-> "assistant", run |-> r, turn |-> turn[r], n |-> n]
ToolMsg(r) == [role |-> "tool", run |-> r, turn |-> turn[r], n |-> call[r]]

Say(r, m) ==
    /\ messages' = Append(messages, m)
    /\ said' = [said EXCEPT ![r] = aborted[r] /\ m.role # "user"]

Goto(r, where) == loop' = [loop EXCEPT ![r] = where]

(* The loop task returns a result with this end reason, or raises.         *)
Returns(r, why) == Goto(r, "returned") /\ outcome' = [outcome EXCEPT ![r] = why]
Raises(r, why) == Goto(r, "raised") /\ outcome' = [outcome EXCEPT ![r] = why]

Handler(r) == <<r, turn[r], call[r]>>

(* The window of abort(): the run is active and accepting_abort holds.     *)
Accepting(r) == prompt[r] \in {"start", "await"}

-----------------------------------------------------------------------------
(* prompt(): start, abort, cancellation.                                   *)

Prompt(r) ==
    /\ prompt[r] = "none"
    /\ \A s \in 1 .. r - 1 : prompt[s] = "done"   \* _run_lock is free
    /\ prompt' = [prompt EXCEPT ![r] = "start"]
    /\ Say(r, UserMsg(r))
    /\ UNCHANGED <<aborted, notified, cancelled, second, cancels, loopVars, toolVars, endVars>>

(* The listeners of agent_start returned: monitor and loop task start.     *)
StartDone(r) ==
    /\ prompt[r] = "start"
    /\ prompt' = [prompt EXCEPT ![r] = "await"]
    /\ second' = [second EXCEPT ![r] = FALSE]
    /\ Goto(r, "turn")
    /\ UNCHANGED <<transcript, aborted, notified, cancelled, cancels, turn, attempt, retrying,
                   streaming, calls, call, result, terminate, terminal, expired, outcome,
                   toolVars, endVars>>

StartFails(r) ==
    /\ prompt[r] = "start"
    /\ prompt' = [prompt EXCEPT ![r] = "commit"]
    /\ outcome' = [outcome EXCEPT ![r] = "error"]
    /\ UNCHANGED <<transcript, aborted, notified, cancelled, second, cancels, loop, turn, attempt,
                   retrying, streaming, calls, call, result, terminate, terminal, expired,
                   toolVars, endVars>>

RequestAbort(r) ==
    /\ aborted' = [aborted EXCEPT ![r] = TRUE]

Abort(r) ==
    /\ Accepting(r) /\ ~aborted[r]
    /\ RequestAbort(r)
    /\ UNCHANGED <<transcript, prompt, notified, cancelled, second, cancels, loopVars, toolVars,
                   endVars>>

(* _monitor_abort: abort_requested was emitted, or the monitor was stopped *)
(* (its finally clause marks the signal too).                              *)
Notify(r) ==
    /\ aborted[r] /\ ~notified[r] /\ prompt[r] \notin {"none", "start"}
    /\ notified' = [notified EXCEPT ![r] = TRUE]
    /\ UNCHANGED <<transcript, prompt, aborted, cancelled, second, cancels, loopVars, toolVars,
                   endVars>>

(* Mutant: the cancelled prompt() does not wait for the loop task.         *)
CancelUnshielded(r) ==
    /\ Accepting(r) /\ ~second[r] /\ cancels < MaxCancels
    /\ cancels' = cancels + 1
    /\ RequestAbort(r)
    /\ cancelled' = [cancelled EXCEPT ![r] = TRUE]
    /\ prompt' = [prompt EXCEPT ![r] = "commit"]
    /\ UNCHANGED <<transcript, notified, second, loopVars, toolVars, endVars>>

(* First cancellation: abort and keep waiting for the shielded task.  If   *)
(* the loop task has raised meanwhile, the second await raises at once.    *)
Cancel(r) ==
    /\ Accepting(r) /\ ~second[r] /\ cancels < MaxCancels
    /\ cancels' = cancels + 1
    /\ RequestAbort(r)
    /\ cancelled' = [cancelled EXCEPT ![r] = TRUE]
    /\ second' = [second EXCEPT ![r] = TRUE]
    /\ UNCHANGED <<transcript, prompt, notified, loopVars, toolVars, endVars>>

(* Places where the loop swallows CancelledError: it waits for a cancelled *)
(* handler, a timed-out handler's grace period, or a closing model stream. *)
Swallows(r) == loop[r] \in {"stopping", "grace", "closing"}

(* A second cancellation leaves prompt() and cancels the loop task.  The   *)
(* task dies at its await, unless that await swallows the exception.       *)
ForceCancel(r) ==
    /\ Accepting(r) /\ second[r] /\ cancels < MaxCancels
    /\ cancels' = cancels + 1
    /\ prompt' = [prompt EXCEPT ![r] = "final"]
    /\ raised' = [raised EXCEPT ![r] = "cancelled"]
    /\ forced' = [forced EXCEPT ![r] = TRUE]
    /\ IF Swallows(r) \/ loop[r] \in {"none", "returned", "raised"}
       THEN UNCHANGED <<loop, abandoned>>
       ELSE /\ Goto(r, "killed")
            /\ abandoned' = abandoned \cup {h \in handlers : h = Handler(r)}
    /\ UNCHANGED <<transcript, aborted, notified, cancelled, second, turn, attempt, retrying,
                   streaming, calls, call, result, terminate, terminal, expired, outcome,
                   handlers, ended, reason, broken>>

-----------------------------------------------------------------------------
(* Turns.                                                                  *)

(* _deadline_timer; the flag is read at these places only.                 *)
Deadline(r) ==
    /\ loop[r] \in {"turn", "backoff", "turnend"} /\ ~expired[r]
    /\ expired' = [expired EXCEPT ![r] = TRUE]
    /\ UNCHANGED <<transcript, promptVars, loop, turn, attempt, retrying, streaming, calls, call,
                   result, terminate, terminal, outcome, toolVars, endVars>>

TurnStart(r) ==
    /\ loop[r] = "turn"
    /\ IF turn[r] = MaxTurns
       THEN Raises(r, "turn_limit") /\ UNCHANGED <<turn, attempt>>
       ELSE IF expired[r]
       THEN Returns(r, "deadline_exceeded") /\ UNCHANGED <<turn, attempt>>
       ELSE /\ Goto(r, IF turn[r] = 0 THEN "initial" ELSE "model")
            /\ turn' = [turn EXCEPT ![r] = @ + 1]
            /\ attempt' = [attempt EXCEPT ![r] = 1]
            /\ UNCHANGED outcome
    /\ calls' = [calls EXCEPT ![r] = 0] /\ call' = [call EXCEPT ![r] = 0]
    /\ result' = [result EXCEPT ![r] = "ok"]
    /\ terminate' = [terminate EXCEPT ![r] = FALSE]
    /\ terminal' = [terminal EXCEPT ![r] = FALSE]
    /\ UNCHANGED <<transcript, promptVars, retrying, streaming, expired, toolVars, endVars>>

(* The safe point before the first attempt: it takes a batch of steering,  *)
(* unless the Run is aborted, or finds none.                               *)
InitialSafePoint(r) ==
    /\ loop[r] = "initial"
    /\ \/ ~aborted[r] /\ MaxInputs > 0 /\ Goto(r, "opening")
       \/ Goto(r, "model")
    /\ UNCHANGED <<transcript, promptVars, turn, attempt, retrying, streaming, calls, call, result,
                   terminate, terminal, expired, outcome, toolVars, endVars>>

(* The places where a batch of interactions is delivered.                  *)
Delivering == {"opening", "draining"}

Inputs(r) ==
    Cardinality({k \in 1 .. Len(messages) :
                    /\ messages[k].role = "user" /\ messages[k].run = r
                    /\ messages[k].turn = turn[r]})

(* The next interaction of the batch: its listeners are awaited before and *)
(* after it is appended, and the signal is not looked at any more.  The    *)
(* last one hands on to the model or to a further Turn.                    *)
Deliver(r, last) ==
    /\ loop[r] \in Delivering
    /\ ~last => Inputs(r) + 1 < MaxInputs
    /\ Say(r, UserMsg(r))
    /\ Goto(r, IF ~last THEN loop[r] ELSE IF loop[r] = "opening" THEN "model" ELSE "turn")
    /\ UNCHANGED <<promptVars, turn, attempt, retrying, streaming, calls, call, result,
                   terminate, terminal, expired, outcome, toolVars, endVars>>

(* model_start and message_start of one attempt; an aborted Run does not   *)
(* open the stream.                                                        *)
AttemptStart(r) ==
    /\ loop[r] = "model"
    /\ Goto(r, IF aborted[r] THEN "closing" ELSE "stream")
    /\ streaming' = [streaming EXCEPT ![r] = TRUE]
    /\ UNCHANGED <<transcript, promptVars, turn, attempt, retrying, calls, call, result, terminate,
                   terminal, expired, outcome, toolVars, endVars>>

(* The attempt completes with n Tool calls; after_model_call has run.      *)
ModelCompletes(r, n) ==
    /\ loop[r] = "stream"
    /\ Goto(r, "answer")
    /\ calls' = [calls EXCEPT ![r] = n]
    /\ UNCHANGED <<transcript, promptVars, turn, attempt, retrying, streaming, call, result,
                   terminate, terminal, expired, outcome, toolVars, endVars>>

(* Abort wins over the stream: the iterator is closed, then the loop waits *)
(* for the monitor and answers with an aborted message without Tool calls. *)
StreamIgnoresAbort(r) == FALSE
StreamAborts(r) ==
    /\ loop[r] = "stream" /\ aborted[r]
    /\ Goto(r, "closing")
    /\ UNCHANGED <<transcript, promptVars, turn, attempt, retrying, streaming, calls, call, result,
                   terminate, terminal, expired, outcome, toolVars, endVars>>

StreamClosed(r) ==
    /\ loop[r] = "closing" /\ notified[r]
    /\ Goto(r, "answer")
    /\ calls' = [calls EXCEPT ![r] = 0]
    /\ UNCHANGED <<transcript, promptVars, turn, attempt, retrying, streaming, call, result,
                   terminate, terminal, expired, outcome, toolVars, endVars>>

(* model_retry_end, with the result of the last attempt.                   *)
RetryEndForgotten(r) == UNCHANGED retrying
RetryEnd(r) == retrying' = [retrying EXCEPT ![r] = FALSE]

MayRetryOneMore(r) == attempt[r] <= MaxRetries + 1
MayRetry(r) == attempt[r] <= MaxRetries

(* The attempt raised: its message_end is emitted uncommitted, then the    *)
(* call is retried after a backoff or the failure leaves the loop.         *)
AttemptFails(r, retryable) ==
    /\ loop[r] = "stream"
    /\ streaming' = [streaming EXCEPT ![r] = FALSE]
    /\ IF retryable /\ MayRetry(r)
       THEN /\ Goto(r, "backoff")
            /\ retrying' = [retrying EXCEPT ![r] = TRUE]
            /\ UNCHANGED outcome
       ELSE Raises(r, "error") /\ RetryEnd(r)
    /\ UNCHANGED <<transcript, promptVars, turn, attempt, calls, call, result, terminate, terminal,
                   expired, toolVars, endVars>>

(* The stream ended without a completion: raised outside the try block, so *)
(* it is no attempt failure and closes neither message nor retry.          *)
StreamEndsEarly(r) ==
    /\ loop[r] = "stream" /\ ~aborted[r]
    /\ Raises(r, "no_completion")
    /\ UNCHANGED <<transcript, promptVars, turn, attempt, retrying, streaming, calls, call, result,
                   terminate, terminal, expired, toolVars, endVars>>

BackoffElapses(r) ==
    /\ loop[r] = "backoff"
    /\ Goto(r, "model")
    /\ attempt' = [attempt EXCEPT ![r] = @ + 1]
    /\ UNCHANGED <<transcript, promptVars, turn, retrying, streaming, calls, call, result,
                   terminate, terminal, expired, outcome, toolVars, endVars>>

(* Abort or the deadline ends the wait: the failed attempt's text becomes  *)
(* an aborted answer.                                                      *)
BackoffCut(r) ==
    /\ loop[r] = "backoff"
    /\ (aborted[r] /\ notified[r]) \/ (~aborted[r] /\ expired[r])
    /\ Goto(r, "answer")
    /\ calls' = [calls EXCEPT ![r] = 0]
    /\ streaming' = [streaming EXCEPT ![r] = TRUE]
    /\ UNCHANGED <<transcript, promptVars, turn, attempt, retrying, call, result, terminate,
                   terminal, expired, outcome, toolVars, endVars>>

(* The answer is committed and announced; a retry in progress is over.     *)
CommitAnswer(r) ==
    /\ loop[r] = "answer"
    /\ Say(r, AssistantMsg(r, calls[r]))
    /\ streaming' = [streaming EXCEPT ![r] = FALSE]
    /\ RetryEnd(r)
    /\ call' = [call EXCEPT ![r] = 1]
    /\ terminate' = [terminate EXCEPT ![r] = calls[r] > 0]
    /\ Goto(r, IF calls[r] = 0 THEN "turnend" ELSE "tool")
    /\ UNCHANGED <<promptVars, turn, attempt, calls, result, terminal, expired, outcome,
                   toolVars, endVars>>

-----------------------------------------------------------------------------
(* The Tool batch, one call after the other.                               *)

SetResult(r, v) == result' = [result EXCEPT ![r] = v]

(* Mutant: abort breaks out of the batch.                                  *)
ToolStartBreaks(r) ==
    /\ loop[r] = "tool"
    /\ Goto(r, IF aborted[r] THEN "turnend" ELSE "hook")
    /\ UNCHANGED <<transcript, promptVars, turn, attempt, retrying, streaming, calls, call, result,
                   terminate, terminal, expired, outcome, toolVars, endVars>>

(* tool_execution_start.  A call of an aborted Run is skipped; malformed   *)
(* arguments fail it without the hooks.                                    *)
ToolStart(r) ==
    /\ loop[r] = "tool"
    /\ IF aborted[r]
       THEN notified[r] /\ SetResult(r, "error") /\ Goto(r, "after")
       ELSE \/ SetResult(r, "error") /\ Goto(r, "noafter")
            \/ Goto(r, "hook") /\ UNCHANGED result
    /\ UNCHANGED <<transcript, promptVars, turn, attempt, retrying, streaming, calls, call,
                   terminate, terminal, expired, outcome, toolVars, endVars>>

(* before_tool_call decided.  Abort is looked at again before the handler  *)
(* starts; a blocked call, a missing Tool or invalid arguments start none. *)
HookDecides(r, decision) ==
    /\ loop[r] = "hook"
    /\ IF aborted[r] \/ decision # "run"
       THEN /\ SetResult(r, "error")
            /\ Goto(r, IF ~aborted[r] /\ decision = "block" THEN "noafter" ELSE "after")
            /\ UNCHANGED handlers
       ELSE Goto(r, "handler") /\ handlers' = handlers \cup {Handler(r)} /\ UNCHANGED result
    /\ UNCHANGED <<transcript, promptVars, turn, attempt, retrying, streaming, calls, call,
                   terminate, terminal, expired, outcome, abandoned, endVars>>

(* The handler returned; if abort came first its result is an error.       *)
HandlerReturns(r, v) ==
    /\ loop[r] = "handler"
    /\ handlers' = handlers \ {Handler(r)}
    /\ SetResult(r, IF aborted[r] THEN "error" ELSE v)
    /\ Goto(r, "after")
    /\ UNCHANGED <<transcript, promptVars, turn, attempt, retrying, streaming, calls, call,
                   terminate, terminal, expired, outcome, abandoned, endVars>>

(* Abort cancels the handler and waits for it; a timeout cancels it and    *)
(* waits for the grace period only.                                        *)
HandlerAborts(r) ==
    /\ loop[r] = "handler" /\ aborted[r]
    /\ Goto(r, "stopping")
    /\ UNCHANGED <<transcript, promptVars, turn, attempt, retrying, streaming, calls, call, result,
                   terminate, terminal, expired, outcome, toolVars, endVars>>

HandlerTimesOut(r) ==
    /\ loop[r] = "handler" /\ ~aborted[r]
    /\ Goto(r, "grace")
    /\ UNCHANGED <<transcript, promptVars, turn, attempt, retrying, streaming, calls, call, result,
                   terminate, terminal, expired, outcome, toolVars, endVars>>

HandlerStoppedUnawaited(r) ==
    /\ loop[r] = "stopping"
    /\ SetResult(r, "error") /\ Goto(r, "after")
    /\ UNCHANGED <<transcript, promptVars, turn, attempt, retrying, streaming, calls, call,
                   terminate, terminal, expired, outcome, toolVars, endVars>>

HandlerStopped(r) ==
    /\ loop[r] \in {"stopping", "grace"}
    /\ handlers' = handlers \ {Handler(r)}
    /\ SetResult(r, "error") /\ Goto(r, "after")
    /\ UNCHANGED <<transcript, promptVars, turn, attempt, retrying, streaming, calls, call,
                   terminate, terminal, expired, outcome, abandoned, endVars>>

GraceExpires(r) ==
    /\ loop[r] = "grace"
    /\ abandoned' = abandoned \cup {Handler(r)}
    /\ SetResult(r, "error") /\ Goto(r, "after")
    /\ UNCHANGED <<transcript, promptVars, turn, attempt, retrying, streaming, calls, call,
                   terminate, terminal, expired, outcome, handlers, endVars>>

AbandonedEnds(h) ==
    /\ h \in abandoned
    /\ abandoned' = abandoned \ {h} /\ handlers' = handlers \ {h}
    /\ UNCHANGED <<transcript, promptVars, loopVars, endVars>>

(* after_tool_call may replace the result, but not an aborted Run's; then  *)
(* tool_execution_end.                                                     *)
AfterToolUnforced(r, v) == SetResult(r, v)
AfterToolResult(r, v) == SetResult(r, IF aborted[r] THEN "error" ELSE v)

AfterTool(r, v) ==
    /\ loop[r] \in {"after", "noafter"} /\ (aborted[r] => notified[r])
    /\ loop[r] = "noafter" => v = result[r]
    /\ AfterToolResult(r, v)
    /\ Goto(r, "append")
    /\ UNCHANGED <<transcript, promptVars, turn, attempt, retrying, streaming, calls, call,
                   terminate, terminal, expired, outcome, toolVars, endVars>>

(* The ToolResultMessage joins the transcript.                             *)
AppendResult(r) ==
    /\ loop[r] = "append"
    /\ Say(r, ToolMsg(r))
    /\ terminate' = [terminate EXCEPT ![r] = @ /\ result[r] = "stop"]
    /\ call' = [call EXCEPT ![r] = @ + 1]
    /\ SetResult(r, "ok")
    /\ Goto(r, IF call[r] = calls[r] THEN "turnend" ELSE "tool")
    /\ UNCHANGED <<promptVars, turn, attempt, retrying, streaming, calls, terminal, expired,
                   outcome, toolVars, endVars>>

-----------------------------------------------------------------------------
(* The end of a Turn.                                                      *)

(* turn_end, after_turn and should_stop_after_turn are done; then abort,   *)
(* then the deadline.                                                      *)
TurnEnd(r, shouldStop) ==
    /\ loop[r] = "turnend"
    /\ terminal' = [terminal EXCEPT ![r] = calls[r] = 0 \/ terminate[r] \/ shouldStop]
    /\ IF aborted[r]
       THEN notified[r] /\ Returns(r, "aborted")
       ELSE IF expired[r]
       THEN Returns(r, "deadline_exceeded")
       ELSE Goto(r, "settle") /\ UNCHANGED outcome
    /\ UNCHANGED <<transcript, promptVars, turn, attempt, retrying, streaming, calls, call, result,
                   terminate, expired, toolVars, endVars>>

(* The safe point takes a batch of interactions, for which a further Turn  *)
(* follows.                                                                *)
SettleDrains(r) ==
    /\ loop[r] = "settle" /\ turn[r] < MaxTurns /\ ~aborted[r]
    /\ Inputs(r) < MaxInputs
    /\ Goto(r, "draining")
    /\ UNCHANGED <<transcript, promptVars, turn, attempt, retrying, streaming, calls, call, result,
                   terminate, terminal, expired, outcome, toolVars, endVars>>

(* Nothing was delivered: the Run ends gracefully or goes on.              *)
SettleEmpty(r) ==
    /\ loop[r] = "settle"
    /\ IF terminal[r]
       THEN \E why \in {"completed", "terminated"} : Returns(r, why)
       ELSE Goto(r, "turn") /\ UNCHANGED outcome
    /\ UNCHANGED <<transcript, promptVars, turn, attempt, retrying, streaming, calls, call, result,
                   terminate, terminal, expired, toolVars, endVars>>

(* A listener or a hook raised.                                            *)
HookRaises(r) ==
    /\ loop[r] \in {"turn", "model", "initial", "answer", "tool", "hook", "append", "turnend",
                   "settle"} \cup Delivering
    /\ Raises(r, "error")
    /\ broken' = [broken EXCEPT ![r] = TRUE]
    /\ UNCHANGED <<transcript, promptVars, turn, attempt, retrying, streaming, calls, call, result,
                   terminate, terminal, expired, toolVars, ended, reason, raised, forced>>

-----------------------------------------------------------------------------
(* The end of prompt().                                                    *)

(* The loop task is done: prompt() resumes, and closes the abort window at *)
(* its commit point.  An exception received by the second await is not     *)
(* caught: it leaves through the finally block.                            *)
PromptResumesSilently(r) ==
    /\ prompt[r] = "await" /\ loop[r] \in {"returned", "raised"}
    /\ prompt' = [prompt EXCEPT ![r] = IF aborted[r] THEN "final" ELSE "commit"]
    /\ UNCHANGED <<transcript, aborted, notified, cancelled, second, cancels, loopVars,
                   toolVars, endVars>>

PromptResumes(r) ==
    /\ prompt[r] = "await" /\ loop[r] \in {"returned", "raised"}
    /\ IF loop[r] = "raised" /\ second[r]
       THEN /\ prompt' = [prompt EXCEPT ![r] = "final"]
            /\ raised' = [raised EXCEPT ![r] = "error"]
       ELSE prompt' = [prompt EXCEPT ![r] = "commit"] /\ UNCHANGED raised
    /\ UNCHANGED <<transcript, aborted, notified, cancelled, second, cancels, loopVars, toolVars,
                   ended, reason, broken, forced>>

Failed(r) == loop[r] # "returned"

(* The reason prompt() reports.                                            *)
EndReasonOfLoop(r) == outcome[r]
EndReason(r) ==
    IF aborted[r] THEN "aborted"
    ELSE IF outcome[r] = "no_completion" THEN "error" ELSE outcome[r]

HasAnswer(r) ==
    \E k \in 1 .. Len(messages) : messages[k].role = "assistant" /\ messages[k].run = r

(* agent_end.  An aborted Run whose loop failed before any answer gets an  *)
(* empty one (_last_assistant_message).                                    *)
EndRun(r) ==
    /\ prompt[r] = "commit" /\ (aborted[r] => notified[r])
    /\ ended' = [ended EXCEPT ![r] = @ + 1]
    /\ reason' = [reason EXCEPT ![r] = EndReason(r)]
    /\ IF Failed(r) /\ aborted[r] /\ ~HasAnswer(r)
       THEN Say(r, AssistantMsg(r, 0)) ELSE UNCHANGED transcript
    /\ raised' = [raised EXCEPT ![r] = IF Failed(r) /\ ~aborted[r] THEN "error"
                                       ELSE IF cancelled[r] THEN "cancelled" ELSE "nothing"]
    /\ prompt' = [prompt EXCEPT ![r] = "final"]
    /\ UNCHANGED <<aborted, notified, cancelled, second, cancels, loopVars, toolVars, broken,
                   forced>>

(* A listener of the ending raised, or the ending was cancelled.           *)
EndCut(r) ==
    /\ prompt[r] = "commit"
    /\ \/ raised' = [raised EXCEPT ![r] = "error"] /\ UNCHANGED cancels
       \/ /\ cancels < MaxCancels /\ cancels' = cancels + 1
          /\ raised' = [raised EXCEPT ![r] = "cancelled"]
    /\ prompt' = [prompt EXCEPT ![r] = "final"]
    /\ broken' = [broken EXCEPT ![r] = TRUE]
    /\ UNCHANGED <<transcript, aborted, notified, cancelled, second, loopVars, toolVars, ended,
                   reason, forced>>

(* The finally block: stop the monitor, seal, clear the active Run.        *)
Finish(r) ==
    /\ prompt[r] = "final"
    /\ prompt' = [prompt EXCEPT ![r] = "done"]
    /\ notified' = [notified EXCEPT ![r] = aborted[r]]
    /\ UNCHANGED <<transcript, aborted, cancelled, second, cancels, loopVars, toolVars, endVars>>

-----------------------------------------------------------------------------
(* Steps of the loop task that wait for nobody outside the Agent: the      *)
(* event loop runs them.                                                   *)
LoopStep(r) ==
    \/ TurnStart(r) \/ InitialSafePoint(r) \/ AttemptStart(r) \/ StreamAborts(r)
    \/ BackoffElapses(r) \/ BackoffCut(r) \/ CommitAnswer(r)
    \/ ToolStart(r) \/ HandlerAborts(r) \/ GraceExpires(r) \/ AppendResult(r)
    \/ (\E d \in {"run", "block", "fail"} : HookDecides(r, d))
    \/ (\E b \in BOOLEAN : TurnEnd(r, b))
    \/ (\E v \in Results : AfterTool(r, v))
    \/ (\E b \in BOOLEAN : Deliver(r, b))
    \/ SettleDrains(r) \/ SettleEmpty(r)

(* Answers of the world, which may never come, and failures.  The end of a *)
(* cancelled handler or stream is one of them: both are awaited without a  *)
(* limit.                                                                  *)
WorldStep(r) ==
    \/ HandlerStopped(r) \/ StreamClosed(r)
    \/ (\E n \in 0 .. MaxCalls : ModelCompletes(r, n))
    \/ (\E b \in BOOLEAN : AttemptFails(r, b))
    \/ StreamEndsEarly(r)
    \/ (\E v \in Results : HandlerReturns(r, v))
    \/ HandlerTimesOut(r) \/ Deadline(r) \/ HookRaises(r)

PromptStep(r) ==
    \/ StartDone(r) \/ StartFails(r) \/ PromptResumes(r) \/ EndRun(r) \/ EndCut(r) \/ Finish(r)

Next ==
    \/ \E r \in Runs :
          \/ Prompt(r) \/ Abort(r) \/ Notify(r) \/ Cancel(r) \/ ForceCancel(r)
          \/ PromptStep(r) \/ LoopStep(r) \/ WorldStep(r)
    \/ \E h \in abandoned : AbandonedEnds(h)

(* Tasks that are ready run, and listeners and hooks return; the model,    *)
(* the Tools and the user may stall, also when they are cancelled.         *)
Fairness ==
    \A r \in Runs : WF_vars(LoopStep(r)) /\ WF_vars(Notify(r)) /\ WF_vars(PromptStep(r))

Spec == Init /\ [][Next]_vars /\ Fairness

-----------------------------------------------------------------------------
LoopStates == {"none", "turn", "initial", "opening", "model", "stream", "closing", "backoff", "answer",
               "tool", "hook", "handler", "stopping", "grace", "after", "noafter", "append",
               "turnend", "settle", "draining", "returned", "raised", "killed"}

Messages == [role : {"user", "assistant", "tool"}, run : Runs, turn : 0 .. MaxTurns,
             n : 0 .. MaxCalls]

(* Types, with the budgets of the code: no Turn past max_turns and no      *)
(* attempt past max_retries + 1.                                           *)
TypeOK ==
    /\ messages \in Seq(Messages)
    /\ prompt \in [Runs -> {"none", "start", "await", "commit", "final", "done"}]
    /\ aborted \in [Runs -> BOOLEAN] /\ said \in [Runs -> BOOLEAN]
    /\ notified \in [Runs -> BOOLEAN]
    /\ cancelled \in [Runs -> BOOLEAN] /\ second \in [Runs -> BOOLEAN]
    /\ cancels \in 0 .. MaxCancels
    /\ loop \in [Runs -> LoopStates]
    /\ turn \in [Runs -> 0 .. MaxTurns] /\ attempt \in [Runs -> 0 .. MaxRetries + 1]
    /\ retrying \in [Runs -> BOOLEAN] /\ streaming \in [Runs -> BOOLEAN]
    /\ calls \in [Runs -> 0 .. MaxCalls] /\ call \in [Runs -> 0 .. MaxCalls + 1]
    /\ result \in [Runs -> Results]
    /\ terminate \in [Runs -> BOOLEAN] /\ terminal \in [Runs -> BOOLEAN]
    /\ expired \in [Runs -> BOOLEAN] /\ outcome \in [Runs -> Reasons \cup {"none", "no_completion"}]
    /\ handlers \subseteq Runs \X (1 .. MaxTurns) \X (1 .. MaxCalls)
    /\ abandoned \subseteq handlers
    /\ ended \in [Runs -> Nat] /\ reason \in [Runs -> Reasons \cup {"none"}]
    /\ raised \in [Runs -> {"none", "nothing", "cancelled", "error"}]
    /\ broken \in [Runs -> BOOLEAN] /\ forced \in [Runs -> BOOLEAN]

NoneForced == \A r \in Runs : ~forced[r]

Finished(r) == loop[r] \in {"none", "returned", "raised"}

(* The transcript the next model call sees is well formed: the Tool calls  *)
(* of an assistant message are answered by the messages right after it,    *)
(* one each and in order, with no interaction or later answer in between,  *)
(* and every call is answered once its Turn is over, also after an abort,  *)
(* a skipped call, a timeout or a failed hook decision.  A raising         *)
(* listener may leave the last batch of its Run short.                     *)
IsAnswer(k, i, j) ==
    /\ messages[k].role = "tool" /\ messages[k].n = j
    /\ messages[k].run = messages[i].run /\ messages[k].turn = messages[i].turn

BatchOver(m) == Finished(m.run) \/ turn[m.run] > m.turn

TranscriptWellFormed ==
    NoneForced =>
        \A i \in 1 .. Len(messages) :
            LET m == messages[i] IN
            m.role = "assistant" /\ ~broken[m.run] =>
                /\ BatchOver(m) => i + m.n <= Len(messages)
                /\ \A j \in 1 .. m.n : i + j <= Len(messages) => IsAnswer(i + j, i, j)

(* Abort is authoritative up to the commit point of prompt() and void      *)
(* after it: agent_end says "aborted" exactly when abort() was accepted,   *)
(* whatever the loop was about to return.                                  *)
AbortAuthority ==
    \A r \in Runs : ended[r] > 0 => (reason[r] = "aborted" <=> aborted[r])

(* Nothing succeeds after an abort.  Apart from the interactions of a      *)
(* batch taken before it and the one message already past its check, an    *)
(* aborted Run only adds error results and answers without Tool calls;     *)
(* after_tool_call cannot turn them into successes, and no interaction is  *)
(* taken from the queue any more.                                          *)
AbortIsFinal ==
    [][\A r \in Runs : aborted[r] =>
          LET m == messages'[Len(messages')] IN
          /\ messages' # messages /\ m.run = r =>
                \/ m.role = "user" /\ loop[r] \in Delivering /\ ~said[r]
                \/ m.role = "tool" /\ (said[r] => result[r] = "error")
                \/ m.role = "assistant" /\ (said[r] => m.n = 0)
          /\ loop'[r] \in Delivering => loop[r] = loop'[r]]_vars

(* agent_end is emitted once by every Run whose ending no listener broke   *)
(* and no further cancellation cut, unless an exception reached prompt()   *)
(* in its second await.                                                    *)
AgentEndOnce ==
    \A r \in Runs :
        /\ ended[r] <= 1
        /\ prompt[r] = "done" /\ ~broken[r] /\ ~forced[r] /\ ~(cancelled[r] /\ raised[r] = "error")
                => ended[r] = 1

(* When prompt() is over its loop task is over too, so a following Run is  *)
(* the only writer of the transcript.  Only a second cancellation breaks   *)
(* this.                                                                   *)
IdleIsQuiet ==
    \A r \in Runs : prompt[r] \in {"final", "done"} /\ ~forced[r] => Finished(r)

(* Tools run one at a time: a handler task is awaited by its loop, unless  *)
(* it outlived its grace period or its loop was killed.                    *)
HandlersAccounted ==
    \A h \in handlers \ abandoned :
        loop[h[1]] \in {"handler", "stopping", "grace"} /\ h = Handler(h[1])

(* A Run that ends gracefully has answered all its input: its last message *)
(* is an answer or a Tool result, never a delivered interaction.           *)
GracefulEndAnswersInput ==
    \A r \in Runs :
        ended[r] > 0 /\ reason[r] \in {"completed", "terminated"} =>
            \E k \in 1 .. Len(messages) :
                /\ messages[k].run = r /\ messages[k].role # "user"
                /\ \A j \in k + 1 .. Len(messages) : messages[j].run # r

(* Every message_start of an attempt has its message_end and every         *)
(* model_retry_start its model_retry_end when the loop is over, on every   *)
(* path through retries, backoff, abort and deadline; the exception is a   *)
(* stream that ends without a completion, which the code does not treat as *)
(* a failed attempt.                                                       *)
AttemptsClosed ==
    \A r \in Runs :
        Finished(r) /\ ~broken[r] /\ outcome[r] # "no_completion" =>
            ~streaming[r] /\ ~retrying[r]

(* An accepted abort ends the Run wherever it finds it, whatever the       *)
(* backoff timers do and even if the model or the Tool never answers; only *)
(* a handler or a stream that does not end when it is cancelled holds the  *)
(* Run up, and once it does end, so does the Run.                          *)
Unstoppable(r) == loop[r] \in {"stopping", "closing"}

AbortEndsRun == \A r \in Runs : aborted[r] ~> prompt[r] = "done" \/ Unstoppable(r)

(* What the next model call sees can be relied on: the transcript is well  *)
(* formed, every attempt is closed, and a graceful end left no input       *)
(* unanswered.                                                             *)
TranscriptSound ==
    TypeOK /\ TranscriptWellFormed /\ AttemptsClosed /\ GracefulEndAnswersInput

(* The end of a Run can be relied on: agent_end comes once and tells the   *)
(* truth about an abort, and neither the loop task nor a Tool handler      *)
(* outlives prompt() unaccounted for.                                      *)
EndSound == AbortAuthority /\ AgentEndOnce /\ IdleIsQuiet /\ HandlersAccounted

(* An accepted abort takes effect: nothing succeeds after it, and it ends  *)
(* the Run unless a cancelled handler or stream does not end.              *)
AbortTakesEffect == AbortIsFinal /\ AbortEndsRun

(* A claim of the repository that the code does not keep: TLC refutes it   *)
(* as an invariant of MCAgentLoop (README, Findings).                      *)

(* README.md: "Cancelling the task that is awaiting prompt() performs the  *)
(* same cleanup and then re-raises asyncio.CancelledError."                *)
CancelledPromptReraises ==
    \A r \in Runs :
        prompt[r] = "done" /\ cancelled[r] /\ ~broken[r] => raised[r] = "cancelled"
==============================================================================
