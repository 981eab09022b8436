-------------------------- MODULE InteractionQueue --------------------------
(***************************************************************************)
(* The steering / follow-up queue of one Agent (core/interaction.py) and   *)
(* the part of a Run that drives it: the safe points of the Agent loop     *)
(* (core/agent_loop.py, _settle_interactions_at_turn_end) and the seals of *)
(* Agent.prompt (core/agent.py).                                           *)
(*                                                                         *)
(* Every operation of the controller runs under one asyncio.Lock, which is *)
(* held across the awaits of the event listeners.  The lock is FIFO and a  *)
(* newcomer never overtakes a waiter, so holder and waiters are one        *)
(* sequence `ops`: its head holds the lock.  An element is an input being  *)
(* admitted by a host, or Run, the operation of the Run in progress.       *)
(* `await_` is the await the holder is suspended in.                       *)
(*                                                                         *)
(* Simplifications: contents, origins and timestamps are dropped (their    *)
(* validation rejects before any state changes); a Turn is one step with   *)
(* any outcome (AgentLoop models its inside); an event counts as emitted   *)
(* once its first listener runs.                                           *)
(***************************************************************************)
EXTENDS Naturals, Sequences, FiniteSets

CONSTANTS
    Steers,      \* inputs hosts submit with steer()
    FollowUps,   \* inputs hosts submit with follow_up()
    MaxPending,  \* InteractionLimits.max_pending_items
    MaxTurns,    \* AgentLoop.max_turns
    MaxRuns,     \* bound: Runs started
    MaxCancels   \* bound: cancellations of the task awaiting prompt()

ASSUME QueueAssumption ==
    /\ Steers \cap FollowUps = {}
    /\ "Run" \notin Steers \cup FollowUps
    /\ MaxPending \in Nat \ {0}
    /\ MaxTurns \in Nat \ {0}
    /\ MaxRuns \in Nat \ {0}
    /\ MaxCancels \in Nat

Inputs == Steers \cup FollowUps
Run == "Run"
NoPos == <<0, 0>>
Modes == {"one-at-a-time", "all"}

(* Ends that may discard queued input, and the two graceful ones.          *)
TerminalReasons == {"aborted", "error", "turn_limit", "deadline_exceeded", "cancelled"}
GracefulReasons == {"completed", "terminated"}

VARIABLES
    steering, followUp,  \* the two deques
    sealed,              \* _sealed
    position,            \* _position
    mode,                \* queue modes, fixed at construction
    ops,                 \* holder and waiters of _operation_lock
    await_,              \* where the holder is suspended
    taken, source,       \* items of the drain in progress and their queue
    pc,                  \* where the Run is
    turn, terminal,      \* Turn number; is this Turn end a terminal candidate
    aborted,             \* AbortSignal.aborted
    endReason,           \* reason the Run ends with
    runs, cancels,       \* bounded counters
    cancelled,           \* prompt() is in the second of its two shielded awaits
    context,             \* inputs appended to Agent.messages, in order
    pos,                 \* <<Run number, position>> each admitted input received
    receipt,             \* inputs whose admit() returned a receipt
    delivered, cleared,  \* number of events that announced each outcome
    clearedBy,           \* reasons given in interaction_cleared
    listenerFailed,      \* a listener raised inside a drain
    cutShort             \* a cancellation interrupted a queue operation of the Run

queueVars == <<steering, followUp, sealed, position, mode>>
lockVars == <<ops, await_, taken, source>>
runVars == <<pc, turn, terminal, aborted, endReason, runs, cancels, cancelled>>
histVars == <<context, pos, receipt, delivered, cleared, clearedBy, listenerFailed,
              cutShort>>
vars == <<queueVars, lockVars, runVars, histVars>>

Init ==
    /\ steering = <<>> /\ followUp = <<>>
    /\ sealed = TRUE /\ position = 0
    /\ mode \in [steer : Modes, follow_up : Modes]
    /\ ops = <<>> /\ await_ = "none" /\ taken = <<>> /\ source = "steer"
    /\ pc = "idle" /\ turn = 0 /\ terminal = FALSE /\ aborted = FALSE
    /\ endReason = "completed" /\ runs = 0 /\ cancels = 0
    /\ cancelled = FALSE
    /\ context = <<>> /\ pos = [i \in Inputs |-> NoPos] /\ receipt = {}
    /\ delivered = [i \in Inputs |-> 0] /\ cleared = [i \in Inputs |-> 0]
    /\ clearedBy = {} /\ listenerFailed = FALSE /\ cutShort = FALSE

-----------------------------------------------------------------------------
(* Helpers.  A definition whose name ends in a fault (OffByOne, Nothing,   *)
(* Ignored, ...) is a mutant of the one after it, used only to show that   *)
(* the properties notice the fault.                                        *)

Pending == Len(steering) + Len(followUp)
Holds(o) == ops # <<>> /\ Head(ops) = o
Release == Tail(ops)
Items(s) == {s[k] : k \in 1 .. Len(s)}

(* How many items one drain takes.                                         *)
Count(m, q) == IF m = "one-at-a-time" THEN 1 ELSE Len(q)

(* The reason Agent.prompt reports once it has closed the abort window.    *)
Reported(r) == IF aborted THEN "aborted" ELSE r

(* The loop task returns with reason r and leaves the lock's queue `lock`. *)
LoopReturns(r, lock) == pc' = "returned" /\ endReason' = r /\ ops' = lock

(* The loop task raises.  prompt() records the failure and goes on, except *)
(* in its second await: there the exception leaves it through `finally`.   *)
LoopRaises(r, lock) ==
    IF cancelled
    THEN pc' = "final" /\ ops' = Append(lock, Run) /\ UNCHANGED endReason
    ELSE LoopReturns(r, lock)

-----------------------------------------------------------------------------
(* Hosts: admit().  A Run at the head of `ops` that has not awaited yet    *)
(* took the lock without giving up its task, or has been handed it by the  *)
(* previous holder: a call made then is one made just before or after.     *)

AdmitCall(i) ==
    /\ i \notin Items(ops) /\ pos[i] = NoPos
    /\ ~(Holds(Run) /\ await_ = "none")
    /\ ops' = Append(ops, i)
    /\ UNCHANGED <<queueVars, await_, taken, source, runVars, histVars>>

HasRoomOffByOne == Pending <= MaxPending
HasRoom == Pending < MaxPending

EnqueueFront(q, i) == <<i>> \o q
Enqueue(q, i) == Append(q, i)

AdmitRejected(i) ==
    /\ Holds(i) /\ await_ = "none"
    /\ sealed \/ ~HasRoom
    /\ ops' = Release
    /\ UNCHANGED <<queueVars, await_, taken, source, runVars, histVars>>

AdmitQueue(i) ==
    /\ Holds(i) /\ await_ = "none"
    /\ ~sealed /\ HasRoom
    /\ position' = position + 1
    /\ pos' = [pos EXCEPT ![i] = <<runs, position + 1>>]
    /\ IF i \in Steers
       THEN steering' = Enqueue(steering, i) /\ UNCHANGED followUp
       ELSE followUp' = Enqueue(followUp, i) /\ UNCHANGED steering
    /\ await_' = "queued"
    /\ UNCHANGED <<sealed, mode, ops, taken, source, runVars, context, receipt,
                   delivered, cleared, clearedBy, listenerFailed, cutShort>>

AdmitAcknowledged(i) ==
    /\ Holds(i) /\ await_ = "queued"
    /\ receipt' = receipt \cup {i}
    /\ ops' = Release /\ await_' = "none"
    /\ UNCHANGED <<queueVars, taken, source, runVars, context, pos, delivered,
                   cleared, clearedBy, listenerFailed, cutShort>>

(* The listener of interaction_queued raised, or the host task was         *)
(* cancelled: the item is popped from the back of its queue.               *)
DropLast(q) == SubSeq(q, 1, Len(q) - 1)

AdmitRolledBack(i) ==
    /\ Holds(i) /\ await_ = "queued"
    /\ IF i \in Steers
       THEN steering' = DropLast(steering) /\ UNCHANGED followUp
       ELSE followUp' = DropLast(followUp) /\ UNCHANGED steering
    /\ position' = position - 1
    /\ pos' = [pos EXCEPT ![i] = NoPos]
    /\ ops' = Release /\ await_' = "none"
    /\ UNCHANGED <<sealed, mode, taken, source, runVars, context, receipt,
                   delivered, cleared, clearedBy, listenerFailed, cutShort>>

-----------------------------------------------------------------------------
(* The Run: opening, Turns, abort and cancellation.                        *)

Open ==
    /\ pc = "idle" /\ runs < MaxRuns
    /\ sealed /\ Pending = 0   \* otherwise open() raises
    /\ sealed' = FALSE /\ position' = 0
    /\ pc' = "start" /\ turn' = 1 /\ terminal' = FALSE /\ aborted' = FALSE
    /\ cancelled' = FALSE /\ runs' = runs + 1
    /\ UNCHANGED <<steering, followUp, mode, lockVars, endReason, cancels, histVars>>

(* The listeners of agent_start returned and the loop task starts, or one  *)
(* of them raised and prompt() goes straight to its commit point.          *)
StartDone ==
    /\ pc = "start"
    /\ cancelled' = FALSE
    /\ \/ pc' = "initial" /\ ops' = Append(ops, Run) /\ UNCHANGED endReason
       \/ pc' = "committed" /\ endReason' = Reported("error") /\ UNCHANGED ops
    /\ UNCHANGED <<queueVars, await_, taken, source, turn, terminal, aborted,
                   runs, cancels, histVars>>

BudgetSpentOffByOne == turn > MaxTurns
BudgetSpent == turn >= MaxTurns

(* The Turn's events and hooks are done; t says whether the Run would end. *)
TurnEnd(t) ==
    /\ pc = "turn"
    /\ terminal' = t
    /\ \/ aborted /\ LoopReturns("aborted", ops)
       \/ ~aborted /\ LoopReturns("deadline_exceeded", ops)
       \/ /\ ~aborted
          /\ pc' = IF BudgetSpent THEN "limit" ELSE "steer"
          /\ ops' = Append(ops, Run)
          /\ UNCHANGED endReason
    /\ UNCHANGED <<queueVars, await_, taken, source, turn, aborted, runs,
                   cancels, cancelled, histVars>>

(* The model call, a hook or a listener failed the Turn.                   *)
TurnFails ==
    /\ pc = "turn"
    /\ LoopRaises("error", ops)
    /\ UNCHANGED <<queueVars, await_, taken, source, turn, terminal, aborted,
                   runs, cancels, cancelled, histVars>>

(* States in which abort() is accepted and prompt() awaits a shielded task. *)
Accepting == pc \in {"start", "initial", "turn", "steer", "gate", "limit", "returned"}

Abort ==
    /\ Accepting /\ ~aborted
    /\ aborted' = TRUE
    /\ UNCHANGED <<queueVars, lockVars, pc, turn, terminal, endReason, runs,
                   cancels, cancelled, histVars>>

(* First cancellation of the awaiting task: prompt() aborts and keeps      *)
(* waiting for the shielded task.  If that task has already raised, the    *)
(* second await raises too.                                                *)
HasRaised == pc = "returned" /\ endReason \in {"error", "turn_limit"}

Cancel ==
    /\ Accepting /\ ~cancelled /\ cancels < MaxCancels
    /\ cancels' = cancels + 1
    /\ aborted' = TRUE /\ cancelled' = TRUE
    /\ IF HasRaised
       THEN pc' = "final" /\ ops' = Append(ops, Run)
       ELSE UNCHANGED <<pc, ops>>
    /\ UNCHANGED <<queueVars, await_, taken, source, turn, terminal, endReason, runs,
                   histVars>>

(* The lock's queue once the Run's task has left it.                       *)
Without(s, k) == SubSeq(s, 1, k - 1) \o SubSeq(s, k + 1, Len(s))
RunAt == {k \in 1 .. Len(ops) : ops[k] = Run}
WithoutRun == IF RunAt = {} THEN ops ELSE Without(ops, CHOOSE k \in RunAt : TRUE)

(* A second one cancels that task itself.  CancelledError is not an        *)
(* Exception: a drain in progress does not put its items back.             *)
ForceCancel ==
    /\ Accepting /\ cancelled /\ cancels < MaxCancels
    /\ cancels' = cancels + 1
    /\ pc' = "final"
    /\ ops' = Append(WithoutRun, Run)
    /\ await_' = IF Holds(Run) THEN "none" ELSE await_
    /\ taken' = <<>>
    /\ cutShort' = (cutShort \/ taken # <<>>)
    /\ UNCHANGED <<queueVars, source, turn, terminal, aborted, endReason, runs, cancelled,
                   context, pos, receipt, delivered, cleared, clearedBy, listenerFailed>>

(* prompt() resumes and closes the abort window: its commit point.         *)
Commit ==
    /\ pc = "returned"
    /\ endReason' = Reported(endReason)
    /\ pc' = "committed"
    /\ UNCHANGED <<queueVars, lockVars, turn, terminal, aborted, runs, cancels,
                   cancelled, histVars>>

MonitorSettledUnsealed ==
    /\ pc = "committed"
    /\ pc' = "idle" /\ UNCHANGED ops
    /\ UNCHANGED <<queueVars, await_, taken, source, turn, terminal, aborted,
                   endReason, runs, cancels, cancelled, histVars>>

(* The abort monitor is settled: prompt() asks for the lock to seal.       *)
MonitorSettled ==
    /\ pc = "committed"
    /\ pc' = "ending" /\ ops' = Append(ops, Run)
    /\ UNCHANGED <<queueVars, await_, taken, source, turn, terminal, aborted,
                   endReason, runs, cancels, cancelled, histVars>>

(* A cancellation after the commit point skips to the finally block, which *)
(* seals again.                                                            *)
CancelEnding ==
    /\ pc \in {"committed", "ending"} /\ cancels < MaxCancels
    /\ cancels' = cancels + 1
    /\ ops' = Append(WithoutRun, Run)
    /\ await_' = IF Holds(Run) THEN "none" ELSE await_
    /\ pc' = "final"
    /\ UNCHANGED <<queueVars, taken, source, turn, terminal, aborted, endReason,
                   runs, cancelled, histVars>>

-----------------------------------------------------------------------------
(* Safe points of the loop.                                                *)

AtSafePoint(where) == pc \in where /\ Holds(Run) /\ await_ = "none"

(* Take `n` items of the queue `from`; the first one is announced.         *)
Take(from, q, n) ==
    /\ taken' = SubSeq(q, 1, n)
    /\ source' = from
    /\ await_' = "deliver"
    /\ delivered' = [delivered EXCEPT ![q[1]] = @ + 1]
    /\ UNCHANGED <<ops, pc, turn, endReason>>

DrainSteering ==
    /\ AtSafePoint({"initial", "steer"})
    /\ ~sealed /\ ~aborted /\ steering # <<>>
    /\ LET n == Count(mode.steer, steering) IN
         /\ Take("steer", steering, n)
         /\ steering' = SubSeq(steering, n + 1, Len(steering))
    /\ UNCHANGED <<followUp, sealed, position, mode, terminal, aborted, runs, cancels,
                   cancelled,
                   context, pos, receipt, cleared, clearedBy, listenerFailed, cutShort>>

(* Nothing to steer with: the first Turn starts, the next Turn starts, or  *)
(* the loop goes on to the terminal gate without giving up its task.       *)
NoSteering ==
    /\ AtSafePoint({"initial", "steer"})
    /\ sealed \/ aborted \/ steering = <<>>
    /\ IF pc = "steer" /\ terminal
       THEN pc' = "gate" /\ ops' = Append(Release, Run) /\ UNCHANGED turn
       ELSE /\ pc' = "turn" /\ ops' = Release
            /\ turn' = IF pc = "initial" THEN turn ELSE turn + 1
    /\ UNCHANGED <<queueVars, await_, taken, source, terminal, aborted, endReason,
                   runs, cancels, cancelled, histVars>>

(* Steering pending: the gate is not at a terminal candidate.              *)
SteeringPendingIgnored == FALSE
SteeringPending == steering # <<>>

DrainFollowUp ==
    /\ AtSafePoint({"gate"})
    /\ ~sealed /\ ~aborted /\ ~SteeringPending /\ followUp # <<>>
    /\ LET n == Count(mode.follow_up, followUp) IN
         /\ Take("follow_up", followUp, n)
         /\ followUp' = SubSeq(followUp, n + 1, Len(followUp))
    /\ UNCHANGED <<steering, sealed, position, mode, terminal, aborted, runs, cancels,
                   cancelled,
                   context, pos, receipt, cleared, clearedBy, listenerFailed, cutShort>>

(* drain_follow_up_at_terminal returned no message, so the Run ends: the   *)
(* queues were empty and are now sealed, or the Run is aborted, or steering *)
(* arrived between the two drains.                                         *)
GateEnds ==
    /\ AtSafePoint({"gate"})
    /\ sealed \/ aborted \/ SteeringPending \/ followUp = <<>>
    /\ sealed' = (sealed \/ (~aborted /\ ~SteeringPending))
    /\ \E r \in GracefulReasons : LoopReturns(r, Release)
    /\ UNCHANGED <<steering, followUp, position, mode, await_, taken, source,
                   turn, terminal, aborted, runs, cancels, cancelled, histVars>>

-----------------------------------------------------------------------------
(* Delivery of the items taken.                                            *)

DeliverAppend ==
    /\ Holds(Run) /\ await_ = "deliver"
    /\ context' = Append(context, Head(taken))
    /\ await_' = "committed"
    /\ UNCHANGED <<queueVars, ops, taken, source, runVars, pos, receipt, delivered,
                   cleared, clearedBy, listenerFailed, cutShort>>

DeliverNext ==
    /\ Holds(Run) /\ await_ = "committed" /\ Len(taken) > 1
    /\ taken' = Tail(taken)
    /\ delivered' = [delivered EXCEPT ![taken[2]] = @ + 1]
    /\ await_' = "deliver"
    /\ UNCHANGED <<queueVars, ops, source, runVars, context, pos, receipt,
                   cleared, clearedBy, listenerFailed, cutShort>>

(* The whole drain is delivered: the Run continues with a model Turn.      *)
DeliverLast ==
    /\ Holds(Run) /\ await_ = "committed" /\ Len(taken) = 1
    /\ taken' = <<>> /\ await_' = "none" /\ ops' = Release
    /\ pc' = "turn"
    /\ turn' = IF pc = "initial" THEN turn ELSE turn + 1
    /\ UNCHANGED <<queueVars, source, terminal, aborted, endReason, runs, cancels,
                   cancelled, histVars>>

(* A listener raised while an item was being delivered, before or after    *)
(* append(): it and the items behind it go back to the front.              *)
PutBackNothing(q) == q
PutBack(q) == taken \o q

DeliverFails ==
    /\ Holds(Run) /\ await_ \in {"deliver", "committed"}
    /\ IF source = "steer"
       THEN steering' = PutBack(steering) /\ UNCHANGED followUp
       ELSE followUp' = PutBack(followUp) /\ UNCHANGED steering
    /\ taken' = <<>> /\ await_' = "none"
    /\ listenerFailed' = TRUE
    /\ LoopRaises("error", Release)
    /\ UNCHANGED <<sealed, position, mode, source, turn, terminal, aborted, runs,
                   cancels, cancelled, context, pos, receipt, delivered, cleared,
                   clearedBy, cutShort>>

-----------------------------------------------------------------------------
(* seal(): in the loop at the Turn limit, in prompt() before agent_end and *)
(* again in its finally block.                                             *)

SealReason ==
    CASE pc = "limit" -> "turn_limit"
      [] pc = "ending" -> endReason
      [] pc = "final" -> "cancelled"

KeepQueue(q) == q
EmptyQueue(q) == <<>>

SealClears ==
    /\ AtSafePoint({"limit", "ending", "final"})
    /\ ~sealed
    /\ sealed' = TRUE /\ steering' = <<>> /\ followUp' = EmptyQueue(followUp)
    /\ LET items == Items(steering) \cup Items(followUp) IN
         /\ cleared' = [i \in Inputs |-> cleared[i] + (IF i \in items THEN 1 ELSE 0)]
         /\ IF items = {}
            THEN UNCHANGED <<clearedBy, await_>>
            ELSE clearedBy' = clearedBy \cup {SealReason} /\ await_' = "cleared"
    /\ UNCHANGED <<position, mode, ops, taken, source, runVars, context, pos,
                   receipt, delivered, listenerFailed, cutShort>>

SealDone ==
    /\ Holds(Run) /\ pc \in {"limit", "ending", "final"}
    /\ await_ = "cleared" \/ (await_ = "none" /\ sealed)
    /\ await_' = "none"
    /\ CASE pc = "limit" -> IF terminal THEN LoopReturns("completed", Release)
                                     ELSE LoopRaises("turn_limit", Release)
         [] pc = "ending" -> /\ pc' = "final" /\ ops' = Append(Release, Run)
                             /\ UNCHANGED endReason
         [] pc = "final" -> pc' = "idle" /\ ops' = Release /\ UNCHANGED endReason
    /\ UNCHANGED <<queueVars, taken, source, turn, terminal, aborted, runs, cancels,
                   cancelled, histVars>>

(* The listener of interaction_cleared raised.  In the loop that fails the *)
(* Run; in prompt() it skips agent_end.                                    *)
SealListenerFails ==
    /\ Holds(Run) /\ await_ = "cleared" /\ pc \in {"limit", "ending"}
    /\ await_' = "none"
    /\ IF pc = "limit"
       THEN LoopRaises("error", Release)
       ELSE pc' = "final" /\ ops' = Append(Release, Run) /\ UNCHANGED endReason
    /\ UNCHANGED <<queueVars, taken, source, turn, terminal, aborted, runs, cancels,
                   cancelled, histVars>>

(* A cancellation or a raising listener inside the finally block leaves it *)
(* early: whatever it had not done yet stays undone.                       *)
FinalInterrupted ==
    /\ pc = "final"
    /\ \/ cancels < MaxCancels /\ cancels' = cancels + 1
       \/ Holds(Run) /\ await_ = "cleared" /\ UNCHANGED cancels
    /\ ops' = WithoutRun
    /\ await_' = IF Holds(Run) THEN "none" ELSE await_
    /\ pc' = "idle"
    /\ cutShort' = (cutShort \/ ~sealed)
    /\ UNCHANGED <<queueVars, taken, source, turn, terminal, aborted, endReason,
                   runs, cancelled, context, pos, receipt, delivered, cleared, clearedBy,
                   listenerFailed>>

-----------------------------------------------------------------------------
HostStep(i) ==
    \/ AdmitRejected(i) \/ AdmitQueue(i)
    \/ AdmitAcknowledged(i) \/ AdmitRolledBack(i)

(* The end of a Turn, for which the model and the Tools are waited for.    *)
TurnStep == TurnFails \/ \E t \in BOOLEAN : TurnEnd(t)

RunStep ==
    \/ StartDone \/ Commit \/ MonitorSettled
    \/ DrainSteering \/ NoSteering \/ DrainFollowUp \/ GateEnds
    \/ DeliverAppend \/ DeliverNext \/ DeliverLast \/ DeliverFails
    \/ SealClears \/ SealDone \/ SealListenerFails

Next ==
    \/ \E i \in Inputs : AdmitCall(i) \/ HostStep(i)
    \/ Open \/ Abort \/ Cancel \/ ForceCancel \/ CancelEnding \/ FinalInterrupted
    \/ TurnStep \/ RunStep

(* The event loop runs every ready task and listeners return: the holder   *)
(* of the lock makes progress, and so does the Run between its Turns.  A   *)
(* Turn may last for ever.                                                 *)
Fairness ==
    /\ WF_vars(RunStep)
    /\ \A i \in Inputs : WF_vars(HostStep(i))

Spec == Init /\ [][Next]_vars /\ Fairness

-----------------------------------------------------------------------------
QueueType ==
    /\ steering \in Seq(Steers) /\ followUp \in Seq(FollowUps)
    /\ sealed \in BOOLEAN /\ position \in Nat
    /\ mode \in [steer : Modes, follow_up : Modes]

Kind(k) == IF k = "steer" THEN Steers ELSE FollowUps

LockType ==
    /\ ops \in Seq(Inputs \cup {Run})
    /\ await_ \in {"none", "queued", "deliver", "committed", "cleared"}
    /\ source \in {"steer", "follow_up"}
    /\ taken \in Seq(Kind(source))

RunType ==
    /\ pc \in {"idle", "start", "initial", "turn", "steer", "gate", "limit", "returned",
               "committed", "ending", "final"}
    /\ turn \in 0 .. MaxTurns /\ terminal \in BOOLEAN /\ aborted \in BOOLEAN
    /\ endReason \in TerminalReasons \cup GracefulReasons
    /\ runs \in 0 .. MaxRuns /\ cancels \in 0 .. MaxCancels /\ cancelled \in BOOLEAN

HistType ==
    /\ context \in Seq(Inputs) /\ pos \in [Inputs -> Nat \X Nat]
    /\ receipt \in SUBSET Inputs
    /\ delivered \in [Inputs -> Nat] /\ cleared \in [Inputs -> Nat]
    /\ clearedBy \in SUBSET (TerminalReasons \cup GracefulReasons)
    /\ listenerFailed \in BOOLEAN /\ cutShort \in BOOLEAN

(* Every variable keeps its type: the Turn number stays inside the budget  *)
(* of AgentLoop.run_with_result and positions never become negative.       *)
TypeOK == QueueType /\ LockType /\ RunType /\ HistType

(* The lock discipline the safety properties rest on: items are out of the *)
(* queues only while the Run holds the lock in a delivery at an open safe  *)
(* point, an admission awaiting its listener keeps the gate open, and a    *)
(* seal awaiting its listener has closed it; the safe points that deliver  *)
(* lie inside the Turn budget.                                             *)
LockDiscipline ==
    /\ taken # <<>> <=> await_ \in {"deliver", "committed"}
    /\ taken # <<>> => Holds(Run) /\ pc \in {"initial", "steer", "gate"} /\ ~sealed
    /\ await_ = "queued" => ~sealed /\ position > 0
    /\ await_ = "cleared" => sealed /\ Holds(Run) /\ pc \in {"limit", "ending", "final"}
    /\ pc \in {"steer", "gate"} => turn < MaxTurns

(* open() never finds residue: "A sealed interaction queue must not retain *)
(* pending items", whatever interleaving of drains, failed deliveries,     *)
(* rollbacks and cancellations preceded it, and the queue of an idle Agent *)
(* is sealed unless a cancellation cut prompt()'s cleanup short.           *)
SealedQueueIsEmpty ==
    /\ sealed => steering = <<>> /\ followUp = <<>> /\ taken = <<>>
    /\ pc = "idle" => sealed \/ cutShort

(* The pending capacity bounds what the controller holds, the items a      *)
(* failed drain may put back included.                                     *)
CapacityRespected == Pending + Len(taken) <= MaxPending

(* Within a kind and a Run, inputs reach the model context in the order    *)
(* they were admitted, also around failed and rolled-back operations.      *)
SameKind(i, j) == (i \in Steers) <=> (j \in Steers)

FifoPerKind ==
    \A a, b \in 1 .. Len(context) :
        LET p == pos[context[a]]
            q == pos[context[b]]
        IN  a < b /\ p[1] = q[1] /\ SameKind(context[a], context[b]) => p[2] < q[2]

(* When the Run is over, every receipt of admit() was covered by exactly   *)
(* one interaction_delivered or interaction_cleared, provided no listener  *)
(* raised inside a drain and no cancellation cut a drain short; and even   *)
(* when a listener raised, by at least one.                                *)
Outcomes(i) == delivered[i] + cleared[i]

ReceiptsCovered ==
    pc = "idle" =>
        \A i \in receipt :
            /\ ~listenerFailed /\ ~cutShort => Outcomes(i) = 1
            /\ ~cutShort => Outcomes(i) >= 1

(* Follow-up input never overtakes steering: a steer that reaches the      *)
(* model after a follow-up of the same Run was admitted after it, even if  *)
(* both arrive while the Run stands at the terminal gate.                  *)
SteeringGoesFirst ==
    \A a, b \in 1 .. Len(context) :
        LET p == pos[context[a]]
            q == pos[context[b]]
        IN  a < b /\ p[1] = q[1] /\ context[a] \in FollowUps /\ context[b] \in Steers
                => p[2] < q[2]

(* A receipt does not wait for ever: nothing but a Turn in progress keeps  *)
(* an input from being delivered or cleared.  From every state in which it *)
(* is neither, after the last Turn too, the Run delivers it, clears it, or *)
(* is in a (further) Turn.                                                 *)
InTurn == pc = "turn"

ReceiptsSettle ==
    \A i \in Inputs : (i \in receipt) ~> (Outcomes(i) > 0 \/ InTurn \/ cutShort)

(* The discipline of the controller: its types, who moves items under      *)
(* _operation_lock and when, the emptiness of a sealed queue and the       *)
(* capacity hold together, each at every step the others rest on.          *)
QueueDiscipline == TypeOK /\ LockDiscipline /\ SealedQueueIsEmpty /\ CapacityRespected

(* The order of delivery: first in, first out within a kind, and steering  *)
(* before the follow-ups that were admitted after it.                      *)
DeliveryOrder == FifoPerKind /\ SteeringGoesFirst

(* A claim of the repository that the code does not keep: TLC refutes it   *)
(* as an invariant of MCInteractionQueue (README, Findings).               *)

(* tests/interaction_queues/README.md: explicit queued input overrides a   *)
(* graceful end; only abort, deadline, error, Turn exhaustion, cancellation *)
(* and close clear undelivered items.                                      *)
ClearedOnlyByTerminalReason == clearedBy \cap GracefulReasons = {}
=============================================================================
