-------------------------- MODULE ConfirmationBroker --------------------------
(***************************************************************************)
(* Human confirmation of a tool call: the ConfirmationBroker, the append-  *)
(* only ConfirmationFileStore under it and the Harness that waits for the  *)
(* answer (evopi/harness/confirmation_broker.py, confirmation_store.py and *)
(* _request_confirmation / _resolve_confirmation of base.py).              *)
(*                                                                         *)
(* Each request has two tasks.  The Run's task (caller) creates a broker   *)
(* task, announces the request, awaits the broker task and turns its       *)
(* outcome into a decision; the broker task creates the durable record and *)
(* races the host's answer, the Run's AbortSignal and the timeout.  The    *)
(* event loop interleaves tasks only where the code awaits, so an action   *)
(* is the code between two awaits.                                         *)
(*                                                                         *)
(* Simplifications: a record's revision is 1 while pending and 2 after, so *)
(* it is not kept apart from its status; a fact is the map of statuses it  *)
(* writes, so a batch_transition of one request and a transition are the   *)
(* same fact; request ids are fresh uuids, so a request is made once.      *)
(***************************************************************************)
EXTENDS Naturals, SequencesExt

CONSTANTS
    Requests,       \* confirmation requests the Policies raise
    Timed,          \* the ones with expires_at or under settings.timeout_seconds
    Direct,         \* the ones asked by a task that can itself be cancelled: a
                    \* session merge's, not a Run's, which Agent.prompt shields
    Answers,        \* the decisions the hosts may submit for each request
    MaxFailures,    \* bound on failing fact appends
    MaxStops,       \* bound on process exits (crash or exit after close)
    Faults          \* what a failing append may leave in the fact log:
                    \*   "lost"     nothing
                    \*   "torn"     part of the line
                    \*   "unsynced" the whole line, but fsync raised

ASSUME FaultsAssumption == Faults \subseteq {"lost", "torn", "unsynced"}
ASSUME TimedAssumption == Timed \subseteq Requests /\ Direct \subseteq Requests
ASSUME BoundsAssumption == MaxFailures \in Nat /\ MaxStops \in Nat

VARIABLES
    \* the store
    rec,        \* _records: the status of each request, "none" if no record
    disk,       \* the statuses the fact log gives to each request, in order
    torn,       \* the log ends in an unterminated fragment of a fact
    corrupt,    \* a newline-terminated line of the log does not parse
    process,    \* "up", "down" or "refused" (the store did not open)
    closed,     \* the broker and its store are closed
    \* the broker
    waiters,    \* _waiters: the requests whose future the broker can wake
    fut,        \* the future of each request
    ready,      \* the race tasks ("abort", "timeout") that are done
    pc,         \* the broker task of each request
    winner,     \* which race task won
    out,        \* how the broker task ended
    \* the Harness
    caller,     \* the Run's task that waits for the confirmation
    aborted,    \* requests whose Run's AbortSignal is set
    \* history
    granted,    \* requests whose tool call was let through
    failures,   \* failing appends so far
    stops       \* process exits so far

storeVars == <<rec, disk, torn, corrupt>>
raceVars == <<waiters, fut, ready, pc, winner, out>>
callVars == <<caller, aborted, granted>>
vars == <<rec, disk, torn, corrupt, process, closed, waiters, fut,
          ready, pc, winner, out, caller, aborted, granted, failures, stops>>

Decisions == {"approve", "deny", "cancelled"}

ASSUME AnswersAssumption == Answers \in [Requests -> SUBSET Decisions]

Terminal == {"approved", "denied", "cancelled", "expired", "orphaned"}
Statuses == Terminal \cup {"none", "pending"}
Outcomes == Decisions \cup {"expired", "closed", "failed", "raised"}

\* _decision_status
DecisionStatus(d) == CASE d = "approve" -> "approved"
                       [] d = "deny" -> "denied"
                       [] d = "cancelled" -> "cancelled"

Running == process = "up" /\ ~closed
Pending == {r \in Requests : rec[r] = "pending"}

-----------------------------------------------------------------------------
(* The store: facts are appended, fsynced, and only then shown in _records *)

\* The log with one more fact; the order of facts about different requests is
\* of no consequence to _replay and is not kept.
Extended(fact) == [r \in Requests |-> IF r \in DOMAIN fact
                                      THEN Append(disk[r], fact[r]) ELSE disk[r]]

\* ConfirmationFileStore._append_fact to a log that ends in a fragment or
\* not.  A line appended to a fragment is glued to it and does not parse.
AppendFact(fragment, fact) ==
    /\ disk' = IF fragment THEN disk ELSE Extended(fact)
    /\ torn' = FALSE
    /\ corrupt' = (corrupt \/ fragment)
    /\ UNCHANGED failures

\* _append_fact that raises ConfirmationError
AppendFails(fragment, fact) ==
    /\ failures < MaxFailures
    /\ failures' = failures + 1
    /\ \/ /\ "lost" \in Faults
          /\ torn' = fragment
          /\ UNCHANGED <<disk, corrupt>>
       \/ /\ "torn" \in Faults
          /\ torn' = TRUE
          /\ UNCHANGED <<disk, corrupt>>
       \/ /\ "unsynced" \in Faults
          /\ disk' = IF fragment THEN disk ELSE Extended(fact)
          /\ torn' = FALSE
          /\ corrupt' = (corrupt \/ fragment)

\* The status changes of a fact applied to _records
Apply(records, fact) == [r \in Requests |->
                            IF r \in DOMAIN fact THEN fact[r] ELSE records[r]]

\* create, transition and transition_batch: append first, then _records.
\* _records keeps its value when the append raises.
RecordsAdvanced(fact) == Apply(rec, fact)   \* mutant: _records before the append
RecordsAfterFailure(fact) == rec

Store(fact) == AppendFact(torn, fact) /\ rec' = Apply(rec, fact)
StoreFails(fact) == AppendFails(torn, fact) /\ rec' = RecordsAfterFailure(fact)

One(r, s) == [x \in {r} |-> s]

-----------------------------------------------------------------------------
Init ==
    /\ rec = [r \in Requests |-> "none"]
    /\ disk = [r \in Requests |-> <<>>]
    /\ torn = FALSE /\ corrupt = FALSE
    /\ process = "up" /\ closed = FALSE
    /\ waiters = {}
    /\ fut = [r \in Requests |-> "none"]
    /\ ready = [r \in Requests |-> {}]
    /\ pc = [r \in Requests |-> "new"]
    /\ winner = [r \in Requests |-> "none"]
    /\ out = [r \in Requests |-> "none"]
    /\ caller = [r \in Requests |-> "idle"]
    /\ aborted = {} /\ granted = {}
    /\ failures = 0 /\ stops = 0

(***************************************************************************)
(* The Run's task                                                          *)
(***************************************************************************)

\* _request_confirmation up to the creation of the broker task.
AskConfirmation(r) ==
    /\ process = "up" /\ caller[r] = "idle"
    /\ caller' = [caller EXCEPT ![r] = "asking"]
    /\ pc' = [pc EXCEPT ![r] = "spawned"]
    /\ UNCHANGED <<storeVars, process, closed, waiters, fut, ready, winner,
                   out, aborted, granted, failures, stops>>

\* sleep(0) let the broker task take its first step; the pending state is
\* announced, and the Run's task goes on to `await broker_task`.
Announce(r) ==
    /\ caller[r] = "asking" /\ pc[r] # "spawned"
    /\ caller' = [caller EXCEPT ![r] = "awaiting"]
    /\ UNCHANGED <<storeVars, process, closed, raceVars, aborted,
                   granted, failures, stops>>

\* The task that asked is cancelled.  While it sleeps or announces, the broker
\* task is not awaited by it and lives on; while it awaits the broker task the
\* cancellation is passed on and interrupts the race, unless the race is over:
\* _cancel_losers suppresses the CancelledError, and nothing changes.
CancelCaller(r) ==
    \/ /\ caller[r] = "asking" /\ r \in Direct
       /\ caller' = [caller EXCEPT ![r] = "cancelled"]
       /\ UNCHANGED <<storeVars, process, closed, raceVars, aborted,
                      granted, failures, stops>>
    \/ /\ caller[r] = "awaiting" /\ pc[r] = "waiting" /\ r \in Direct
       /\ pc' = [pc EXCEPT ![r] = "cancelling"]
       /\ UNCHANGED <<storeVars, process, closed, waiters, fut, ready, winner,
                      out, callVars, failures, stops>>

\* The Run is aborted: Agent.abort sets the AbortSignal.
AbortRun(r) ==
    /\ caller[r] \in {"asking", "awaiting"} /\ r \notin aborted
    /\ aborted' = aborted \cup {r}
    /\ UNCHANGED <<storeVars, process, closed, raceVars, caller, granted,
                   failures, stops>>

\* What _request_confirmation makes of the broker task's outcome: a cancelled
\* decision aborts the Run, and the abort of a Run overrides any decision.
IsCancelled(r) == out[r] \in {"cancelled", "closed"}

FinalStatus(r) ==
    IF r \in aborted \/ IsCancelled(r) THEN "cancelled"
    ELSE CASE out[r] = "approve" -> "approved"
           [] out[r] \in {"deny", "failed"} -> "denied"
           [] out[r] = "expired" -> "expired"

\* `await broker_task` returns or raises; _before_tool_call lets the call go on
\* only with an approval.
Decide(r) ==
    /\ caller[r] = "awaiting" /\ pc[r] = "done" /\ process = "up"
    /\ IF out[r] = "raised"
       THEN /\ caller' = [caller EXCEPT ![r] = "cancelled"]
            /\ UNCHANGED <<aborted, granted>>
       ELSE /\ caller' = [caller EXCEPT ![r] = "decided"]
            /\ aborted' = IF IsCancelled(r) THEN aborted \cup {r} ELSE aborted
            /\ granted' = IF FinalStatus(r) = "approved"
                          THEN granted \cup {r} ELSE granted
    /\ out' = [out EXCEPT ![r] = "none"]
    /\ UNCHANGED <<storeVars, process, closed, waiters, fut, ready, pc, winner,
                   failures, stops>>

(***************************************************************************)
(* The broker task                                                         *)
(***************************************************************************)

\* The broker task ends with outcome o: the waiter is unregistered and the race
\* tasks are gone.
EndedKeepsWaiter(r, o) ==                   \* mutant: no pop in the finally
    /\ pc' = [pc EXCEPT ![r] = "done"]
    /\ out' = [out EXCEPT ![r] = o]
    /\ fut' = [fut EXCEPT ![r] = "none"]
    /\ ready' = [ready EXCEPT ![r] = {}]
    /\ winner' = [winner EXCEPT ![r] = "none"]
    /\ UNCHANGED waiters

Ended(r, o) == /\ pc' = [pc EXCEPT ![r] = "done"]
               /\ out' = [out EXCEPT ![r] = o]
               /\ waiters' = waiters \ {r}
               /\ fut' = [fut EXCEPT ![r] = "none"]
               /\ ready' = [ready EXCEPT ![r] = {}]
               /\ winner' = [winner EXCEPT ![r] = "none"]

\* ConfirmationBroker.request up to the race: the durable record comes first.
Request(r) ==
    /\ pc[r] = "spawned"
    /\ \/ /\ closed
          /\ Ended(r, "closed")
          /\ UNCHANGED <<storeVars, failures>>
       \/ /\ ~closed
          /\ Store(One(r, "pending"))
          /\ pc' = [pc EXCEPT ![r] = "waiting"]
          /\ waiters' = waiters \cup {r}
          /\ fut' = [fut EXCEPT ![r] = "open"]
          /\ UNCHANGED <<out, ready, winner>>
       \/ /\ ~closed
          /\ StoreFails(One(r, "pending"))
          /\ Ended(r, "failed")
    /\ UNCHANGED <<process, closed, callVars, stops>>

\* abort_task wakes after the signal is set; timeout_task when the delay is over.
RaceTaskDone(r, t) ==
    /\ pc[r] = "waiting" /\ t \notin ready[r]
    /\ IF t = "abort" THEN r \in aborted ELSE r \in Timed
    /\ ready' = [ready EXCEPT ![r] = @ \cup {t}]
    /\ UNCHANGED <<storeVars, process, closed, waiters, fut, pc, winner, out,
                   callVars, failures, stops>>

\* asyncio.wait returns the race tasks that are done when the task resumes:
\* Abort > already-committed response > timeout.
Winner(r) == IF "abort" \in ready[r] THEN "abort"
             ELSE IF fut[r] # "open" THEN "response"
             ELSE "timeout"

ResumeRace(r) ==
    /\ pc[r] = "waiting" /\ (ready[r] # {} \/ fut[r] # "open")
    /\ winner' = [winner EXCEPT ![r] = Winner(r)]
    /\ pc' = [pc EXCEPT ![r] = "losers"]
    /\ UNCHANGED <<storeVars, process, closed, waiters, fut, ready, out,
                   callVars, failures, stops>>

\* _persist_terminal: a record that is already resolved wins; a closed store
\* and a failing append raise a ConfirmationError in place of outcome o.
PersistTerminal(r, status, o) ==
    \/ /\ ~closed /\ rec[r] = "pending"
       /\ Store(One(r, status)) /\ Ended(r, o)
    \/ /\ ~closed /\ rec[r] = "pending"
       /\ StoreFails(One(r, status)) /\ Ended(r, "failed")
    \/ /\ ~closed /\ rec[r] # "pending"
       /\ UNCHANGED <<storeVars, failures>> /\ Ended(r, o)
    \/ /\ closed
       /\ UNCHANGED <<storeVars, failures>> /\ Ended(r, "failed")

\* The losers are cancelled and awaited, and the winner decides.  A host may
\* have answered during that await.
FinishRace(r) ==
    /\ pc[r] = "losers"
    /\ \/ /\ winner[r] = "abort"
          /\ PersistTerminal(r, "cancelled", "cancelled")
       \/ /\ winner[r] = "timeout"
          /\ PersistTerminal(r, "expired", "expired")
       \/ /\ winner[r] = "response"
          /\ Ended(r, IF fut[r] = "void" THEN "closed" ELSE fut[r])
          /\ UNCHANGED <<storeVars, failures>>
    /\ UNCHANGED <<process, closed, callVars, stops>>

\* The race was cancelled: its tasks are cancelled and awaited, the record is
\* closed as cancelled and the CancelledError is raised again.
FinishCancel(r) ==
    /\ pc[r] = "cancelling"
    /\ PersistTerminal(r, "cancelled", "raised")
    /\ UNCHANGED <<process, closed, callVars, stops>>

(***************************************************************************)
(* The host                                                                *)
(***************************************************************************)

\* submit and submit_batch: every request must be pending; one fact commits
\* all of them, and only then are their futures resolved.
MayAnswer(ans) == DOMAIN ans \subseteq Pending

Wake(ans) == fut' = [r \in Requests |->
                        IF r \in DOMAIN ans \cap waiters /\ fut[r] = "open"
                        THEN ans[r] ELSE fut[r]]

WakeUncommitted(ans) == Wake(ans)           \* mutant: woken before persistence
WakeAfterFailure(ans) == UNCHANGED fut

Submit(ans) ==
    /\ Running /\ MayAnswer(ans)
    /\ LET fact == [r \in DOMAIN ans |-> DecisionStatus(ans[r])] IN
       \/ Store(fact) /\ Wake(ans)
       \/ StoreFails(fact) /\ WakeAfterFailure(ans)
    /\ UNCHANGED <<process, closed, waiters, ready, pc, winner, out, callVars,
                   stops>>

\* close: the pending live waiters become cancelled in one fact, then every
\* future is cancelled and the store is closed, also when the append failed.
VoidFuturesSkipped == UNCHANGED fut         \* mutant: close wakes nobody
VoidFutures == fut' = [r \in Requests |->
                          IF r \in waiters /\ fut[r] = "open" THEN "void" ELSE fut[r]]

CloseTargetsNone == {}                      \* mutant: nothing persisted by close
CloseTargets == waiters \cap Pending

Close ==
    /\ Running
    /\ LET live == CloseTargets
           fact == [r \in live |-> "cancelled"] IN
       \/ live = {} /\ UNCHANGED <<storeVars, failures>>
       \/ live # {} /\ Store(fact)
       \/ live # {} /\ StoreFails(fact)
    /\ VoidFutures
    /\ closed' = TRUE /\ waiters' = {}
    /\ UNCHANGED <<process, ready, pc, winner, out, callVars, stops>>

(***************************************************************************)
(* Process exit and recovery                                               *)
(***************************************************************************)

\* The process stops, with or without a close before; the tasks are gone.
Stop ==
    /\ process = "up" /\ stops < MaxStops
    /\ process' = "down" /\ stops' = stops + 1
    /\ waiters' = {} /\ aborted' = {}
    /\ fut' = [r \in Requests |-> "none"]
    /\ ready' = [r \in Requests |-> {}]
    /\ winner' = [r \in Requests |-> "none"]
    /\ out' = [r \in Requests |-> "none"]
    /\ pc' = [r \in Requests |-> IF pc[r] = "new" THEN "new" ELSE "done"]
    /\ caller' = [r \in Requests |->
                     IF caller[r] = "idle" THEN "idle" ELSE "gone"]
    /\ UNCHANGED <<storeVars, closed, granted, failures>>

\* _replay and _validate_transition: a create comes first and once, and a
\* transition needs a pending record.
Replayable(s) == \/ s = <<>>
                 \/ s = <<"pending">>
                 \/ Len(s) = 2 /\ s[1] = "pending" /\ s[2] \in Terminal

Replayed == [r \in Requests |-> IF disk[r] = <<>> THEN "none" ELSE Last(disk[r])]

\* The log cannot be replayed: the store does not open.
Refuse ==
    /\ process = "down"
    /\ corrupt \/ \E r \in Requests : ~Replayable(disk[r])
    /\ process' = "refused"
    /\ UNCHANGED <<storeVars, closed, raceVars, callVars, failures, stops>>

\* ConfirmationFileStore.__init__: replay, which cuts a fragment off; then the
\* orphan sweep turns every pending record into an orphan with one fact.  The
\* store opens unless that append fails.
Reopen ==
    /\ process = "down"
    /\ ~corrupt /\ \A r \in Requests : Replayable(disk[r])
    /\ LET orphans == {r \in Requests : Replayed[r] = "pending"}
           fact == [r \in orphans |-> "orphaned"] IN
       \/ /\ IF orphans = {}
             THEN torn' = FALSE /\ UNCHANGED <<disk, corrupt, failures>>
             ELSE AppendFact(FALSE, fact)
          /\ process' = "up" /\ closed' = FALSE
          /\ rec' = Apply(Replayed, fact)
       \/ /\ orphans # {}
          /\ AppendFails(FALSE, fact)
          /\ UNCHANGED <<process, closed, rec>>
    /\ UNCHANGED <<raceVars, callVars, stops>>

\* The answers of one submit or submit_batch call
AnswerSets == {ans \in UNION {[S -> Decisions] : S \in (SUBSET Requests) \ {{}}} :
                  \A r \in DOMAIN ans : ans[r] \in Answers[r]}

TaskStep(r) ==
    \/ Announce(r) \/ Decide(r) \/ Request(r) \/ ResumeRace(r)
    \/ RaceTaskDone(r, "abort") \/ FinishRace(r) \/ FinishCancel(r)

Next ==
    \/ \E r \in Requests :
          \/ AskConfirmation(r) \/ CancelCaller(r) \/ AbortRun(r)
          \/ RaceTaskDone(r, "timeout") \/ TaskStep(r)
    \/ \E ans \in AnswerSets : Submit(ans)
    \/ Close \/ Stop \/ Refuse \/ Reopen

\* The event loop runs every ready task; hosts, timers and faults owe nothing.
Fairness == \A r \in Requests : WF_vars(TaskStep(r))

Spec == Init /\ [][Next]_vars /\ Fairness

-----------------------------------------------------------------------------
(* Properties *)

\* Types.  Beyond them, the broker can wake only the tasks that are still in
\* their race: request()'s finally clause unregisters every waiter.
TypeOK ==
    /\ rec \in [Requests -> Statuses]
    /\ \A r \in Requests : Range(disk[r]) \subseteq Statuses \ {"none"}
    /\ torn \in BOOLEAN /\ corrupt \in BOOLEAN /\ closed \in BOOLEAN
    /\ process \in {"up", "down", "refused"}
    /\ waiters \subseteq Requests
    /\ fut \in [Requests -> Decisions \cup {"none", "open", "void"}]
    /\ ready \in [Requests -> SUBSET {"abort", "timeout"}]
    /\ pc \in [Requests -> {"new", "spawned", "waiting", "losers",
                            "cancelling", "done"}]
    /\ winner \in [Requests -> {"none", "abort", "response", "timeout"}]
    /\ out \in [Requests -> Outcomes \cup {"none"}]
    /\ caller \in [Requests -> {"idle", "asking", "awaiting", "decided",
                                "cancelled", "gone"}]
    /\ aborted \subseteq Requests /\ granted \subseteq Requests
    /\ failures \in 0..MaxFailures /\ stops \in 0..MaxStops
    /\ \A r \in waiters : pc[r] \in {"waiting", "losers", "cancelling"}

\* A tool call goes on only when the approval of its request is in the fact log
\* and was acknowledged: no race of answers, timeout, abort, close and failing
\* appends lets a call through that a restart shows as anything but approved.
\* A log that was damaged by a failing append refuses to open as a whole.
GrantIsDurable ==
    \A r \in granted :
        /\ corrupt \/ Contains(disk[r], "approved")
        /\ process # "refused" => rec[r] = "approved"

\* The state machine of a record is one-way, across restarts too: what the
\* store once showed as resolved is what it shows ever after, whenever it opens.
ResolvedOnce ==
    [][\A r \in Requests : rec[r] \in Terminal => rec'[r] = rec[r]]_vars

\* No pending record is left without a task that will resolve it, and a close
\* leaves none behind ("graceful close is durable and never degrades to a
\* crash-orphan"), except after an append has failed.
PendingIsAttended ==
    process = "up" /\ failures = 0 =>
        \A r \in Pending :
            ~closed /\ r \in waiters /\ pc[r] \in {"waiting", "losers", "cancelling"}

\* Closing the broker or aborting the Run never strands a Run in its wait for
\* the confirmation: the Run's task gets its decision or its CancelledError.
WaitEnds ==
    \A r \in Requests :
        (caller[r] = "awaiting" /\ (closed \/ r \in aborted))
            ~> caller[r] \in {"decided", "cancelled", "gone"}

\* What lets a Tool call through: the store and the waiters stay in step with
\* the tasks that race, and every grant is a durable, acknowledged approval.
GrantSound == TypeOK /\ GrantIsDurable

\* A request is resolved once and for all, and its wait ends.
WaitResolved == ResolvedOnce /\ WaitEnds

\* A claim of the repository that the code does not keep: TLC refutes it as an
\* invariant of MCConfirmationBroker (README, Findings).
\* "races Abort, an already-committed response, and timeout with priority
\* Abort > committed response > timeout": a wait that ended in a timeout has no
\* committed response.
CommittedBeatsTimeout ==
    \A r \in Requests : out[r] = "expired" => rec[r] \notin {"approved", "denied"}
=============================================================================
