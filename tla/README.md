# EvoPi: a TLA+ verification project

EvoPi is a Python runtime for coding agents. An `Agent` runs a model in Turns and
executes the Tools it calls; a `Harness` around it applies Policies, asks people for
confirmation, persists the conversation in a Session and routes models; hosts (a
REPL, an RPC server, a remote gateway) drive the Harness. Almost all of it runs as
asyncio tasks of one event loop, with files as the only durable state. The hard part
is what happens *between two awaits*: an abort that meets a completion, input that
arrives while a Run is ending, a file write that fails in the middle of a Run, an
answer that arrives together with its timeout.

This directory holds TLA+ modules translated from that code, the TLC configurations
that check them and the proofs that TLAPS checks. `PROJECT.json` maps each definition
to the source lines it stands for.

## 1. Inventory

| Component (src/evopi) | State | Operations | What is hard |
|---|---|---|---|
| Interaction queue, `core/interaction.py` | two deques, `_sealed`, `_position`, an asyncio lock | `admit` (steer, follow-up), `drain_steering`, `drain_follow_up_at_terminal`, `seal`, `open` | hosts and the Run share a lock held across listener awaits; a failed drain must put items back; a receipt is a promise |
| Agent and loop, `core/agent.py`, `agent_loop.py` | `messages`, the active Run, its abort controller and monitor | `prompt`, `abort`, `steer`, `follow_up`; Turns, Tool batches, end of the Run | abort against completion, cancellation of the caller, raising listeners and hooks, exactly one `agent_end` |
| Model executor, `core/model_executor.py` | attempt number, retry in progress | attempt, retry, backoff | abort and deadline during a backoff; every attempt closed |
| Tool, `core/tool.py` | handler task | run, abort, time out | handler that ignores its cancellation |
| Session, `session/*.py` | `session.jsonl`, tree, caches, checkpoints | append, branch, switch, merge, compact, checkpoint, open, recover | torn writes, crash in recovery, caches against file |
| Harness and Session, `harness/base.py` | `Agent.messages`, `_session_failure` | persist core events, compact after a Run, tree operations | state read before an await and written after it |
| Confirmations, `harness/confirmation_*.py` | fact log, records, waiters | request, submit, close, replay | answer, timeout, abort and close at once; failing append |
| Harness runtime, `harness/base.py`, `harness/lifecycle.py`, `policy/`, `subagents/` | lifecycle state, Policy engine of the Run, Tool restrictions, child Harness | `prompt` with its tail, `reset`, register, restrict, judge a call, spawn | a rejected or overlapping `prompt` touches shared state; abort of a child |
| Model routing, `ai/routing.py`, `harness/model_routing.py` | circuit per candidate | select, record, release | half-open probe shared by several Runs |
| Governed artifacts, `evolution/`, `plugins/`, `validators/` | candidate, evidence, snapshots, decision and selection files, trust | review, approve, deny, activate, roll back, start, reload | several processes, copies read before the lock, commands that die |
| Trace, discovery, generation, `trace/`, `evolution/policy_*.py`, `validators/replay.py` | Trace file, reports, records, candidate directory | write, discover, load evidence, replay, generate | interleaved Runs, torn lines, deadline against interrupt, a target filled meanwhile |
| RPC, `rpc/*.py`, `cli/rpc.py` | Run task, event log, subscribers, pending requests, Run handles | run.start, steer, abort, confirm, replay, shutdown, close | callbacks that run late, slow subscribers, threads, end of input, callers that give up |
| Remote, `remote/*.py` | devices, pairing codes, lease, connections, audit | pair, authenticate, acquire, call, revoke, fail closed | two threads without a lock, stale scopes, lease taken over in mid-call |
| Memory and configuration | one or two files, replaced as a whole | add, remove, tag, clear; setup | failed save, two writers, two files |
| Distribution, `distribution/*.py` | installed runtimes, markers, pointer, lock | install, switch, clean up, roll back | crash or failure between two steps |
| Checkpoint collection, `session/gc.py` | snapshots, plan | plan, apply | a plan applied after things moved |
| Providers, Tools, REPL, skills, TypeScript clients | none of their own | I/O, parsing, display | left out |

Components call each other directly; the exceptions are the event listeners (the
Agent awaits every listener of every event, so a listener may delay or fail a step of
any component), the abort signal, and the futures of the confirmation broker. The
Session follows the Agent as one of its listeners.

What makes each of them correct is stated as properties of the modules below. The hazards, each at its line, are in `PROJECT.json`.

## 2. Modules

### InteractionQueue

The queue of one Agent together with the part of a Run that drives it. Holder and
waiters of the lock are one FIFO sequence `ops`, and `await_` is the await in which the
holder is suspended. `AdmitCall`, `AdmitRejected`, `AdmitQueue`, `AdmitAcknowledged` and
`AdmitRolledBack` are `admit()`; `DrainSteering`, `DrainFollowUp`, `DeliverAppend/Next/Last`
and `DeliverFails` are the drains with their restore path; `NoSteering` and `GateEnds` are
`_settle_interactions_at_turn_end`; `SealClears`, `SealDone` and `SealListenerFails` are
`seal()` at its three places. The Run appears as a program counter `pc` with its abort
window, commit point, shielded awaits (`Cancel`, `ForceCancel`, `CancelEnding`) and
`finally` block (`FinalInterrupted`). A Turn is one step with any outcome, which may
never come (`TurnStep`).

### AgentLoop

`prompt()` and its loop task are two tasks, hence two program counters. The loop goes
through Turn start, model attempts with retry and backoff, the answer, the Tool batch
(hook, handler, abort, timeout, grace period, `after_tool_call`) and the Turn end. The
abort monitor is `Notify`. A safe point looks at the abort signal once and takes its batch
(`InitialSafePoint`, `SettleDrains`); `Deliver` then appends one interaction after the other,
with listeners in between, and does not look again. A message keeps its role, Run, Turn and
place in the batch. A listener or hook that raises is `HookRaises`, once per phase of the loop.

### SessionLog

The file (`log`, `tail`), the caches of `SessionManager` (`leaf`, `msgs`, `plug`) and
`Agent.messages` (`ctx`). An entry is its position in the log. `WriteCut` is a write that
fails or in which the process dies; `Close` also stands for the death of the process
between writes; `Open`, `Recover` and `Recovered` are the next process, which may die
again after each append. The projections (`ProjectMessages`, `ProjectPluginState`,
`OpenRun`) are recursive functions from an entry to its parent, which is what the code's
loops over the path of an entry compute; they are used both for the caches and for what
`open()` computes. `CommitMerge` waits for a pending compaction like every other call
(`Free`): the proof of `SessionFaithful` showed that a merge could still overtake a compaction
that an unpersisted Run had begun, a case of `LateCompaction`.

Three BOOLEAN constants open behaviours under which a promise fails; the passing run
fixes them to FALSE, and the findings name the invariant that fails when one is set:
`AnyAnchor` (tree operations at entries inside a Run or without a Run identifier),
`LateCompaction` (other calls overtake a compaction) and `Unterminated` (a write stops
right before its newline).

### ConfirmationBroker

Per request the asking task (`caller`) and the broker task (`pc`) with the race of
future, abort and timeout; the store's records (`rec`) and the fact log (`disk`, `torn`,
`corrupt`). An action is the code between two awaits. `Faults` says what a failing append
may leave behind: nothing, part of the line, or the whole line without fsync. `Stop`,
`Reopen` and `Refuse` are the end of the process and the next one, with the orphan sweep.

### ModelRouting

The circuit records of a `ModelRoute` (`circ`, one per candidate and one per failure
domain) and, per Run, the `HarnessModelAttemptRouter` with the part of `execute` and
`_consume_model_attempt` that drives it (`pc`). `Skip`, `Take`, `NextRound` and
`Unavailable` are `_select` under `select_initial` and `select_after_failure`; `Authorize`,
`Request` and `Deny` are `authorize_attempt`; `Succeed`, `RecordFailure`, `AttemptAborted`
and `Abandon` are `record_success`, `record_failure` and `record_abandoned`; `CloseRun` is
`close()`. The route's methods are operators on the whole of `circ` (`Acquire`, `Refuse`,
`Release`, `Close`, `Fail`, `Snapshots`), because its lock makes each of them atomic.
Time is a cooldown in ticks per record. Several Runs share a route because internal
model operations run in a child Harness on the parent's route.

### RpcSession, EventStream, EventFeed

One stdio session from end to end: the Host over the Harness, the bounded event stream
(`EventStream`, operators over the log of everything published and over a subscriber
record), its forwarder, the server with a task per request, the pipes, and the typed
client with its event loop, confirmation loop and Run handles. A request carries the step
of its client side and of its server side; an action is a task between two awaits. Two
orderings of asyncio's ready queue are guards, named in the module's header. The Run is
reduced to its start, events, confirmations, `agent_end` (`RunEnd`) and the tail of `prompt()`
behind it (`RunReturns`): during the tail a new `run.start` is refused, a shutdown waits, and a
Policy may still ask for a confirmation that no abort reaches. The server process may die.
`EventFeed` is the abstract specification of what a Run handle shows: a prefix of the published events from the Run's
`agent_start` on, each once and in order, until `agent_end` or an explicit failure.
`FeedImplemented` is the refinement `EventFeed` with `state` mapped from the handle's phase.

### RemoteGateway

Pairing, registry, authentication, scopes, lease, calls and the mandatory audit of one
gateway. The event loop and the admin thread each have a place in their current handler
(`loop`, `adm`): the copy, save and assignment of a registry commit are separate steps of
either thread. `AdminDisconnectFails` is the RuntimeError of a table of connections that
changes while the admin thread goes through it; `AuditEnds` is an audit record that cannot be
written. Signatures and codes are outcomes.

### ArtifactLifecycle

Authors, the isolated review, operators' commands (one process each, with the length of
the prefix of each append-only file it has read) and the Harness that loads the result.
Content is named by its digest. A command may die between two steps, a snapshot may be
damaged. `Start` and `Reload` only read the stores and validate what they select (`staged`);
`Import` executes it and installs the runtime as a whole, with what lies in the store by then,
and `ImportFails` leaves what was there. The reports of `dry_run`, schema and static checks are
outcomes; what their combination allows is modelled.

### TraceEvidence, PolicyGeneration

`TraceEvidence` writes a Trace record by record, by Runs of one or two processes that may
die, by calls that are evaluated or skipped before (`EndCall`), and by what the Harness
evaluates or reports outside of a Run (`SessionEvaluation`, `RuntimeEvent`); a record whose text
holds a line separator is `SeparatedText`. The three readers are operators: `ParseTrace` and
`Discover`, `LoadEvidence` and `SelectBalanced`, `ReplayCases`. Discovery and a replay take the Trace record by record
(`Fold` over `ParseRecord` and `ReplayRecord`); references are sets of records with a line of their
own, and the first of them in an order (`First`, by the keys of `InOrder` or `GroupByRun`) stand
for a sorted list that is cut. The variable `truth` remembers what humans really
decided, which no reader sees. `PolicyGeneration` extends it with `evopi policy generate`: two stages
with repairs, deadline and interrupt, the staging directory, the move to the target and
the record. A model answers anything.

### HarnessRuntime

Two callers of `prompt()`: prelude, Run, and the tail in which the Agent is idle again and
the Harness is not. Policies judge a Tool call one after the other, with confirmations in
between; registry, Plugins and host change what is allowed; a SubAgent is a child Harness
with its own Policies, Tools, deadline and abort watcher. A Run ends in two steps: at its
`agent_end` the Lifecycle may become ABORTED (`AgentEnds`), and only behind its listeners is
the Agent free (`AgentFrees`); a `prompt()` in between is refused and has its tail all the same.
`wanted` remembers what a Plugin asked for the Run, and whether it thereby replaced what it
had asked for the Session.

### ManagedRuntime, MemoryStore, UserSetup, CheckpointGc, LocalStores

Four stores on disk, with processes that may fail in every file operation and be killed
anywhere. An updater compares with the latest release (`CheckLatest`), asks, downloads and
reads the previous runtime (`ReadPrevious`) before it takes the lock. `env` is the environment of
the CLI: whether `EVOPI_HOME` is the directory that setup writes to, and what it chooses. The
stores do not refer to each other, so `LocalStores` composes them as alternatives:
the variable `store` says which of them a behaviour is about.

### The proof modules

`InteractionQueueProofs`, `AgentLoopProofs`, `ModelRoutingProofs`,
`ConfirmationBrokerProofs` and `LocalStoresProofs` extend the module they are named after,
`HarnessProofs` extends HarnessRuntime and SessionLog, `RemoteProofs` extends RpcSession and RemoteGateway, `EvolutionProofs`
extends ArtifactLifecycle and PolicyGeneration (with TraceEvidence); see section 4.
`HarnessRuntime.Spec` is the specification the proofs are about; `MCSpec` of
MCHarnessRuntime restricts the initial states to the run's scopes.

A definition whose name ends in a fault (`HasRoomOffByOne`, `CutsAnywhere`, ...) is a
mutant of the definition after it. No specification uses it; replacing the original by
it must violate the property named in `PROJECT.json`, which shows that the property
notices such a mistake. Where a run checks a conjunction of named parts
(`QueueDiscipline`, `TranscriptSound`, `EndSound`, `SessionFaithful`, ...), `PROJECT.json`
names one mutant of the whole, and the modules hold one for each part.

## 3. Runs

| Run | Result | States | What it shows |
|---|---|---|---|
| `interaction_queue` | passes | 380k | types, lock, residue and capacity (`QueueDiscipline`), order within and between kinds, coverage of receipts, and their settlement unless the Run stays in a Turn |
| `agent_loop` | passes | 750k | well-formed transcript with closed attempts and answered input; one truthful `agent_end`, no zombie loop or handler; an abort is final, and ends the Run unless what it cancelled does not stop |
| `session_log` | passes | 367k | caches = file, context = Session, the log reopens, compaction keeps Tool pairs; acknowledged records survive, recovery completes each Tool call once |
| `confirmation` | passes | 542k | a call goes on only with a durable approval; nothing pending is left unattended; every wait ends, in one resolution, across restarts |
| `model_routing` | passes | 994k | a domain's probe always belongs to a Run, a Run holds at most one candidate, every switch is authorized, attempts stay within the budget |
| `rpc_session` | passes | 172k | every handle's feed implements `EventFeed`; a v2 handle reaches only its own Run; failed starts did not start; a session that is over is closed; nobody waits for ever but for a Run |
| `remote_gateway` | passes | 156k | served connections act with current authority; acknowledged administration is kept; the lease belongs to a served connection; a scheduled close happens |
| `artifact_lifecycle` | passes | 2.00M | approvals rest on a review and an artifact; the Harness runs approved content; a replaced built-in stays guarded; no decision is lost |
| `reload_refresh` | violated | | `/reload` does not see what other processes decided since the start |
| `policy_generation` | passes | 1.00M | evidence is what humans decided and balanced; replay covers every call; candidate, record and audit belong together; nothing of others is overwritten |
| `harness_runtime` | passes | 512k | every executed call was judged by all Policies of its Run; Tools stay within their limits; the Lifecycle is truthful; no SubAgent works on behind a Run that gave it up |
| `local_stores` | passes | 1.63M | a failed or killed update leaves a usable runtime and one to go back to; Memory keeps what it reported; the profile's key is there; a collection leaves each tip its snapshot |

Bounds. *interaction_queue*: two steers are needed for order within a kind and a
follow-up for order between kinds; capacity 2 makes a full queue; three Turns leave room
for a delivery, a second safe point and exhaustion; two cancellations reach the second
shielded await and beyond. *agent_loop*: two Tool calls are needed for an abort in the
middle of a batch, one retry for the retry events, two Turns for input that continues a
Run, and two interactions for a batch that an abort meets half way. *session_log*: seven entries hold a Run with an assistant message, two calls and a
checkpoint, or a Run, a branch, a switch and a merge; `MinMessages` is 2 where the code
has 4, so that compactions happen in small logs. *confirmation*: two requests, so that a
batch, a partial answer and a close with several waiters happen; one failing append and
one process exit, each anywhere. *model_routing*: two Runs are needed for one to act on a
circuit the other one changed; two candidates of one failure domain make a failover that
stays in the domain; two errors open the domain by count (threshold 2), or by a
Retry-After and then by its failed probe; the Runs are interchangeable (symmetry; the run
checks no liveness; the theorems remove these bounds).
*rpc_session*, *artifact_lifecycle*, *policy_generation* and *harness_runtime* are unions of
*scopes*: a scope is a constant record, chosen in the initial state, that says which
groups of operations a behaviour has, so that each pair of operations that interacts meets
in some scope while the product of all of them is never built. The scopes are in the MC
modules. Queues and windows hold two items in `rpc_session`, fewer than the events of a
Run, so overflow, replay gaps and overrun happen. `remote_gateway` has two devices and two
connections, one admin operation and one fault; it starts with what a registry may hold.
`artifact_lifecycle` has two digests of each kind and two operators, and a
damaged file meets a Policy author, or a Harness with Policies, but not both at once (for
Plugins it meets both); `policy_generation` two
Runs, two signatures and room for two pieces of evidence where four are found;
`local_stores` two processes per store, so that one acts between any two steps of the
other (`CheckpointGc` has one, because of the Session lock). The cfgs that say `CHECK_DEADLOCK FALSE` bound the number
of Runs, cancellations and requests, after which nothing is left to do.

Fairness. Weak fairness is assumed only of steps that the code takes by itself: a task that
is ready runs, listeners and hooks return. Models, Tools, users, hosts, timers, cancelled
handlers and closing streams owe nothing: on the abort path a handler that was cancelled is
awaited without a grace period (`core/tool.py:144-146`), so nothing bounds a Turn, a Run, an aborted
Run or an aborted SubAgent. The liveness properties say so where it matters.
`ReceiptsSettle` has no fairness of a Turn (`TurnStep`): a receipt is settled, or its Run is in
a Turn. It needs no fairness of the hosts either: weak fairness on `HostStep` is about a host
that already holds the lock, whose listener returns. `AbortTakesEffect`: an aborted Run ends, or
awaits what it cancelled (`Unstoppable`). `WaitResolved` holds although models, users and Tools
may stall for ever. `NobodyStuck` assumes neither that a Run ends, aborted or not, nor that
`prompt()` returns behind its `agent_end`: a request gets its answer or awaits such a Run
(`AwaitsRun`). `DisconnectEnds` assumes that the Host answers calls other than those that await
a Run (`NobodyStuck`), and strong fairness of the task that closes a connection: it is scheduled
once and runs, however many frames the peer sends before. HarnessRuntime has no fairness and no
liveness property: that an aborted SubAgent ends cannot be promised by this code.

Properties that carry an exception name it: `ReceiptsCovered` and `SealedQueueIsEmpty`
exclude a cancellation that interrupts the cleanup (`cutShort`); `AgentEndOnce` excludes the
exception that reaches the second await (a finding);
`AttemptsClosed` excludes a stream without a completion (a finding); `IdleIsQuiet`
excludes the second cancellation, after which a loop that swallows it may live on;
`PendingIsAttended` excludes a failed append; `EvidenceIsHuman` names the Traces that Discovery
refuses as a whole (`TraceRefused`); `LoadedIsGoverned` an artifact damaged between its
validation and its import (`disturbed`); `KeyOfProfile` an `EVOPI_HOME` elsewhere;
`AuthorityCurrent` a disconnect that failed over a changing table (`late`). In the later modules an exception is a
variable or a named condition that is set only by the step that goes wrong
(`excused` in ManagedRuntime, `unclear` in MemoryStore, `torn` in UserSetup, `cutShort` in
RpcSession, `overlap` in HarnessRuntime), and each is a finding of its own: outside of
it the property holds; that of UserSetup ends with the next undisturbed setup.

## 4. Proofs

A theorem holds for every value of the constants that satisfies the `ASSUME`s of the
module; TLC evaluates those on the instance of the run. Each proof module defines an
inductive invariant as a conjunction of named parts, proves one lemma per action (or group of
actions that leave the same part alone) and combines them with PTL. The parts were checked
with TLC before they were proved.

| Module | Theorems | Property of a run |
|---|---|---|
| InteractionQueueProofs | `QueueDisciplined` (with `TypeCorrect`, `LockDisciplineHolds`, `SealedQueueEmpty`, `CapacityHolds`), `InputsKeepOrder`, `ReceiptsAreCovered` | `QueueDiscipline`, `DeliveryOrder`, `ReceiptsCovered` |
| AgentLoopProofs | `TranscriptIsSound`, `EndIsSound` (with `TypeCorrect`), `AbortStaysFinal` | `TranscriptSound`, `EndSound` |
| ModelRoutingProofs | `ProbesAccounted` (with `RoutingTypeCorrect`, `DomainProbesHeld`, `OneCandidateHeld`), `SwitchesAuthorized` | `ProbesHeld`, `SwitchAuthorized` |
| ConfirmationBrokerProofs | `GrantsSound`, `PendingAttended`, `RecordsResolvedOnce` | `GrantSound`, `PendingIsAttended` |
| RemoteProofs | `RpcInvariant`, `StartAcknowledgedHolds`, `HandleBoundHolds`, `SessionFinalizedHolds`, `FeedImplementedHolds` | `StartAcknowledged`, `HandleBound`, `SessionFinalized`, `FeedImplemented` |
| | `AuthorityIsCurrent`, `AcksAreKept`, `LeaseServed` | `AuthorityCurrent`, `AdminAckKept`, `LeaseIsServed` |
| HarnessProofs | `CallsAreGoverned`, `ToolsStayWithin`, `StatusIsTruthful`, `ChildIsContained` | `CallsGoverned`, `ToolsWithin`, `StatusTruthful`, `ChildContained` |
| | `SessionLogKept` (by `SessionInvariant`, with `SessionTypeCorrect`, `SessionRestartAligned`) | `LogKept` |
| EvolutionProofs | `ApprovalsAreBacked`, `LoadedAreGoverned`, `GuardIsKept`, `DecisionsAreKept` | `ApprovalBacked`, `LoadedIsGoverned`, `GuardKept`, `DecisionsKept` |
| | `CandidatesAccounted`, `AuditsComplete`, `TargetIsKept` (by `GenerationInvariant`) | `CandidateAccounted`, `AuditComplete`, `TargetKept` |
| | `EvidenceIsSound`, `ReplayCovers` (by `TraceIsRead`) | `EvidenceSound`, `ReplayCoversCalls` |
| LocalStoresProofs | `RuntimeStaysUsable`, `MemoryIsHonest`, `KeysFitProfile`, `NewestSurvivesGc` | `RuntimeUsable`, `MemoryHonest`, `KeyOfProfile`, `GcKeepsNewest` |

**InteractionQueueProofs**, for all sets of inputs, capacities, Turn budgets and numbers of Runs
and cancellations. The capacity and the empty sealed queue are not inductive alone: after
`DeliverFails` the queue holds what the drain had taken, and after an admission's rollback it
lost its last item. `IInv` adds `LockDiscipline`: items are outside the deques exactly in the
two awaits of a delivery, there the Run holds the lock and the queue is open, so neither an
admission nor a seal can have happened meanwhile. `FlowInv` rests on `IInv` and on
`HostsInv` (each host has one call in the lock's queue, and only the one that waits for its
listener has a position): positions grow along a queue, a drain precedes what stayed in its
queue (`LinesInv`), and as long as drains are possible everything of this Run in the context
precedes what is still to come (`OrderInv`). The exception `Undelivered` is the item between its
`append()` and the end of its delivery: it is in the context and may still be put back,
after which this Run drains nothing more. `ReceiptInv` says that an input with a receipt is in
a queue, in a drain or announced, and, if no listener raised, that what is still in a queue
has not been announced.

**AgentLoopProofs**, for any number of Runs, Turns, retries, Tool calls and cancellations, where
the run has one Run. `RunOK` says of one Run where its two tasks can be at the same time
(`Course`), what it may report (`Ending`), which attempt is open (`Attempts`) and that a
Run that spoke after its abort is past every place where it could start something
(`Silenced`); a step of a Run leaves all others alone (`Apart`). `HandlersInv` needs
the order of the calls: an abandoned handler is behind its loop task (`Past`), so a handler
that ends is never mistaken for one that was given up. The transcript is `Batches`: an
answer is followed by its results, all of them unless its Run is in that very batch, and then
exactly those it has come to. Its proof needs no action, only that each step adds nothing, an
input, an answer, or the result of the current call (`Spoken`), and that, as `prompt()` holds
`_run_lock`, whoever speaks is the only Run with an open batch (`OnlySpeaker`). This fails
after a second cancellation, which leaves a loop task behind: hence `NoneForced` in
`TranscriptWellFormed`. The proof showed that nothing else needs it, so
`GracefulEndAnswersInput` and `AbortIsFinal` are stated, checked and proved without it.
`AbortStaysFinal` is the safety half of `AbortTakesEffect`: its exceptions are the batch that
was taken before the abort (`Delivering`) and the one message past its check; that an abort ends
the Run stays with TLC.

**ModelRoutingProofs**, for every number of Runs, every route and assignment of
failure domains, every threshold, cooldown and retry budget. `IInv` ties what `_acquired`
holds (`Holding`), where the last request went (`Came`) and the remaining budget (`Within`)
to the place in the call, and says that only half-open records have a probe. Each operation of the route is either `Quiet` (it sets no probe) or an
acquire; `QuietStep`, `SettleStep` and `AcquireStep` say what that means for the probes,
and one lemma per action applies one of them. `DomainProbesHeld` cannot be stated for a
candidate's own record: the health branch of `record_failure` does not touch it, which is
a finding. The assumption that hooks raise no `ModelError` is needed by
`SwitchesAuthorized`: after such an error the same unauthorized candidate could be
selected again as "unchanged".

**ConfirmationBrokerProofs**, for every set of requests, choice of the ones that time out, can be
cancelled or are asked directly, and number of failing appends and exits. `Task(r)` has four
parts: a resolved record is in the log unless the log is corrupt (`Recorded`); where the
asking task, the broker task and the future stand relative to each other (`Raced`); an answer
that travels in a future, a winner or an outcome is backed by the record (`Backed`); a pending
record has its task in the race (`Attended`). Every write of the store touches only unresolved
requests and shows a status only after it is in the log (`Written`), so what a future
carries stays true through every later failure and replay. `GrantSound` needs all four:
alone it does not know what a future may carry.

**RemoteProofs** of RpcSession, for every number of requests and Runs, every bound of the stream,
of the subscriber's queue and of the client's inbound queue, and every scope. `RpcInv` has two
halves. The server's (`HostSide`, `Finishing`): at most one handler stands before its first
await (`Wire`), one Run is active at a time and a published start belongs to a Run whose future
heard of it or was cleared (`OneRun`, `Started`), the answer to a start says what was true when
it was written (`StartsAnswered`), and a steer or an abort reaches the Run it names (`Bound`). The client's (`ClientSide`): every number on its way from the log to a
handle is one of the log (`Transit`), the local history is an unbroken piece of it
(`History`), and what a handle shows next follows what it has shown (`Handles`). A step touches
few variables, so steps that change the same half in the same way share a lemma
(`AnswerEffect`, `PublishEffect`, `Undisturbed`, `Quiet`, ...). `FeedImplementedHolds` is the refinement of
`EventFeed`: what a handle has not shown yet is `Behind`, a recursive function over the log whose
value on consecutive numbers is `BehindConsecutive`; given `ClientSide` each step is a step of the
feed or leaves it alone.

**RemoteProofs** of RemoteGateway, for every set of devices and connections, every limit and every registry
a Host may load. `RegInv` says that a copy whose base is the registry in force differs from it only
where its operation says, that `state.json` is the registry or the copy that is about to become
it, and that an acknowledged device is revoked in all of them unless a commit overtook another.
`ConnInv` says where the connection of the handler in progress stands (`Placed`), which needs that
the other thread can only schedule its close. `AuthorityCurrent` is inductive with these two.
The proof found that the audit's failure had to be a case of its own (`AuditFails`): a gateway that
was already failing closed did not record the connections that slip past.

**HarnessProofs** of HarnessRuntime, for any number of callers, Plugins, Tools and Policies and every
combination of the groups of operations. `CallersInv` relates the callers of `prompt()` to the Lifecycle;
`GovernInv` says that the registry, the engine, a pending confirmation and an attached SubAgent
hold at least the Policies with which the Run began, and that a SubAgent that works has a Run
that waits for it; `PluginInv` that what a Plugin wished is recorded and, unless prompts overlap,
in force.

**HarnessProofs** of SessionLog, for logs of any length and any number of Tool calls. What the module
computes from the log is a recursion along the tree, and the library's induction theorems cannot be
instantiated here. Two lemmas take their place: `FoldExists` (a function that follows `Up`, the
parents, exists, from the theorem that a set of numbers has a least element) and `UpInduction` (a set
that contains the root and each entry whose parent it contains, contains all). From them follow the
equations of the projections, and `PrefixKept`: a longer log projects its old entries as before.
`SessionInv` is `DiskOK`, `CacheOK` and `ControlOK`. `DiskOK` holds `LogInv`: a call has at most one
result on a path (`OneResult`), a Run that recovery ended has exactly one for each (`AnsweredOnce`),
and an unterminated record was never acknowledged, which is why `Repaired` may drop it. `CacheOK`
says that a live cache is the projection of the whole log. None of it depends on the three
BOOLEAN constants, so `SessionLogKept` and `SessionRestartAligned` hold with tree operations inside
Runs, late compactions and lost newlines as well.

The module also proves a conditional result, `SessionIsFaithful` (`SessionFaithful`), which is not
among the project's theorems because the code does not guarantee its assumption: `Guarded`, that
all three are FALSE, excludes exactly the cases that are findings. It says that these three are
the only ways to lose the agreement, for logs of any length. The second invariant, `FaithInv`, says of the log (`OrderInv`) that every
path is a sequence of Runs, that every entry can be read back, that the messages at an entry do not
repeat, keep each Tool result after its call with only results in between (`WellPaired`), and that
the calls still without a result are those of the last answer (`CallsOpen`). The last two need each
other: a new result is well placed because its call is still open. A compaction keeps them because
it takes the first messages and the kept part does not begin with a result (`TailOfCompact`). Of the
Harness `FaithInv` says that a pending compaction still has the messages it read (`JobFits`) and that
the context is the cache; `OrderAppend` is the heart of it: an entry that fits its place (`Admitted`)
keeps the order of the log.

**EvolutionProofs** of ArtifactLifecycle, for any contents, workspaces, operators, damage and scopes that
`LifecycleAssumption` allows. The stores only grow (`Grows`), so what a command or a Harness
has read (a prefix) stays true of the store: `CliInv` says this of every place in a command,
`HarnessInv` of what the Harness loaded. A reload reads the prefix of the start again, so the
selected approval is still the selected one and a built-in that was replaced stays replaced:
that is why `GuardKept` holds, and also why `/reload` misses later decisions (a finding). What
is true of a runtime is said of the staged one as well (`RuntimeSound`), so that an import only
has to show where its code comes from (`CodeSound`), and a failed one nothing.

**EvolutionProofs** of PolicyGeneration, for any number of processes and repairs and over any Trace.
`Accounted(g)` says of one process what its audit holds at each place (`AttemptSound`: one
entry of every call that has ended, no error code before the attempt has failed), that the
target is its own exactly between the move of the candidate and its end, and that only a kill
leaves a staging directory. A step of one process disturbs no other (`OthersAccounted`)
because it takes the target only from nobody or from itself. `GenSpec` leaves the Trace open:
what Discovery and the evidence compute decides only whether an attempt begins.

**EvolutionProofs** of TraceEvidence, for any number of Runs, records, signatures and bounds. `ReadSpec`
is `GenSpec` whose Trace, if it is being written, starts empty, with decisions that
a confirmation can have (`SettingFits`). A reader is a recursive function over the
records, which the prover cannot induct on: the invariant says instead that such a function
exists for the Trace as it is (`Reading`), and what every one of them holds after the last
record; a record more extends each of them by one step (`ReadingGoesOn`). `Written` says what is
in the Trace: every call in progress has the records it needs, and every decision of a human has
a line of its own that still stands for it. `Discovered` says what Discovery holds: it has refused
the Trace exactly if a line is torn, is split by a separator or is a policy record of no Run, its
samples are `truth`, and its open evaluations and requests
are those of the Runs that are in between, or died there. `Replayed` says that a started call was
evaluated, is over without an evaluation or is pending, one of each Run at most. At the end of a step both are steps of the
readers (`DiscoveringNext`, `ReplayingNext`; one lemma per action and reader). The selection is
proved for any set of references with lines of their own (`SelectionBalances`): `First` has as
many elements as there are, up to its bound (`FirstCounts`, by the least counterexample), and a
Run is repeated only when each has been taken (`EveryRunFirst`).

**LocalStoresProofs**, for any number of processes, versions, entries, providers and snapshots, with
the invariants of the four stores side by side. *Runtime*: who holds the lock, how far
its update is, and, while nothing is excused, which runtimes are finished (`RuntimeInv`).
*Memory*: an entry that is not unclear is in the file exactly when its callers were told so, and a save that is
under way writes what its process holds; each writer is judged against the bound once, so the
bound is passed by fewer entries than there are writers (`Writers` is assumed finite).
*Setup*: a setup that is alone in its two files finds what it wrote (`Alone`), and the records it
would put back fit the profile in force (`Matches`), for every environment of the CLI. *Collection*: a plan keeps the newest
snapshot of each tip unless one was damaged since (`PlanFits`).

Only model-checked: the liveness properties, since fairness and ENABLED are beyond the prover.

## 5. Findings

`PROJECT.json` lists where the code does not do what the repository says of it, or what
its callers must rely on, with both places. `reload_refresh` is a run of its own. The
modules InteractionQueue, AgentLoop, SessionLog, ConfirmationBroker, ModelRouting, HarnessRuntime
and UserSetup also state seven claims that do not hold (`ClearedOnlyByTerminalReason`,
`CancelledPromptReraises`, `FailureBlocksRuns`, `CommittedBeatsTimeout`, `ProbeHeld`,
`SessionRestrictionKept`, `SetupSuffices`): added to the cfg of the module's run, each gives a
counterexample; `AnyAnchor`, `LateCompaction` and
`Unterminated` do the same for SessionLog. The others are the exceptions that the
properties name. They are:

* core: the terminal gate that ends a Run over pending steering; receipts after a raising
  listener; the exception that escapes a cancelled `prompt()`; a stream without completion;
* Session: tree operations that make a Session unreadable; a compaction overtaken by a
  prompt; Runs after a Session failure; a record without its newline;
* confirmations and routing: an acknowledged approval reported as a timeout; a candidate
  whose failed probe blocks it; a probe released by somebody else;
* Harness: the tail of `prompt()` that clears another Run's state; restrictions that hide a
  Tool without stopping it, do not reach a SubAgent, or end with a Run although they were made
  for the Session; a SubAgent that outlives its Run;
* RPC: a start future cleared by a late callback; a close cut short by end of input; a
  refused handshake that cannot be repeated; a cancelled request that ends the connection;
  a dead forwarder nobody notices;
* remote: the two unlocked races of the registry; a disconnect that fails behind its commit; a connection served behind its revocation
  or accepted behind `fail_closed`; a resilient stream that ends while it pages;
* evolution: a rollback without binding; a reload that can never replace again; a lost
  trust; Traces that discovery accepts and generation refuses, and Traces of the Harness itself that
  discovery refuses; a candidate without record;
* stores: the late removal, the half removed and the overtaken runtime and a target that
  stays without marker; Memory changes that outlive their failure; two files of one setup,
  and a directory the CLI does not read;
  a collection that trusts a snapshot damaged since the plan.

## 6. Not modelled, and the plan

Left out for good: providers and stream parsing, what a built-in Tool does, the REPL,
display, discovery of Skills, prompts, schemas and codecs field by field, the TypeScript
clients: I/O and data without state that other parts share.

Parts of modelled components that are left out: fork, schema migration and the file lock
of a Session; event handlers and the host API of Plugins; the frames and event pages of a
gateway connection; synchronous Tool handlers; the length of delays; the cryptography of
pairing; the remote client with its reconnects; the domain context and the capability report of the Harness; argument shapes in
discovery. The composition of AgentLoop, SessionLog and ConfirmationBroker in one state
space is out of TLC's reach; each of them models the steps of its neighbours that it
depends on, as HarnessRuntime does with the Run.

Of the safety properties of the passing runs only `SessionFaithful` is left without an
unconditional theorem. ModelRouting lacks a liveness
property (a recovered circuit is tried again) and a rule for late results, which the code does not
have either.
