----------------------------- MODULE ModelRouting -----------------------------
(***************************************************************************)
(* Provider failover: a ModelRoute (evopi/ai/routing.py) keeps one circuit *)
(* record per candidate and one per failure domain, shared by every Run of *)
(* the process; each Run drives its HarnessModelAttemptRouter              *)
(* (evopi/harness/model_routing.py) from ModelCallExecutor.execute and     *)
(* AgentLoop._consume_model_attempt.  Runs share a route because internal  *)
(* model operations (GovernedModelOperation) build a child Harness on the  *)
(* route of their parent.                                                  *)
(*                                                                         *)
(* The methods of ModelRoute hold its lock and never await, so each is one *)
(* step; an action is the code of a Run between two awaits.                *)
(*                                                                         *)
(* Simplifications: time is counted in ticks, and a record keeps the       *)
(* cooldown it has left instead of opened_until, so which of two expired   *)
(* records expired later is a choice; consecutive_failures stops at        *)
(* Threshold, since it is only compared with it; an absent record is a     *)
(* closed one without failures; backoff takes any time; hooks and          *)
(* listeners raise no ModelError; an emit that the code skips when no      *)
(* circuit changed is still a point where other Runs may run.              *)
(***************************************************************************)
EXTENDS Naturals, Sequences

CONSTANTS
    Runs,           \* Runs that may be active at once on the route
    Route,          \* ModelRoute.candidates, the primary first
    DomainOf,       \* the failure domain of each candidate
    Small,          \* candidates whose context window the context may outgrow
    Enabled,        \* ModelFailoverConfig.enabled
    Threshold,      \* CircuitBreakerConfig.failure_threshold
    Recovery,       \* CircuitBreakerConfig.recovery_timeout, in ticks
    MaxRetries,     \* ModelRetryConfig.max_retries, 0 when retries are disabled
    MaxDelay,       \* ModelRetryConfig.max_delay, in ticks
    Errors,         \* the ModelErrorInfo values the providers may raise
    MaxErrors,      \* bound on the errors the providers raise
    None            \* no candidate

Candidates == {Route[i] : i \in DOMAIN Route}
Domains == {DomainOf[c] : c \in Candidates}
Keys == Candidates \cup Domains
Primary == Route[1]

\* What the router tells apart in a ModelErrorInfo: "health" kinds count against
\* the failure domain, "unavailable" ones (is_candidate_unavailable) pause the
\* candidate, "transient" ones are retryable but not in failover_error_kinds, and
\* "fatal" ones are neither; hint says that retry_after is given, after is its value.
ErrorInfo == [kind : {"health", "unavailable", "transient", "fatal"},
              hint : BOOLEAN, after : Nat]
\* An exception that is not a ModelError: error_info is None.
Plain == [kind |-> "plain", hint |-> FALSE, after |-> 0]

ASSUME RouteAssumption == /\ Route \in Seq(Candidates) /\ Len(Route) > 0
                          /\ \A i, j \in DOMAIN Route : Route[i] = Route[j] => i = j
                          /\ None \notin Candidates
ASSUME DomainAssumption == /\ DomainOf \in [Candidates -> Domains]
                           /\ Candidates \cap Domains = {}
ASSUME ConfigAssumption == /\ Small \subseteq Candidates /\ Enabled \in BOOLEAN
                           /\ Threshold \in Nat \ {0} /\ Recovery \in Nat
                           /\ MaxRetries \in Nat /\ MaxDelay \in Nat
ASSUME ErrorsAssumption == Errors \subseteq ErrorInfo /\ MaxErrors \in Nat

VARIABLES
    circ,       \* _candidate_circuits and _domain_circuits
    pc,         \* where each Run is in its model call
    sel,        \* the selection of the current attempt
    next,       \* the selection of the next attempt, None before it is made
    pass,       \* which _select is running: select_initial's, or the first or
                \* second one of select_after_failure
    attempted,  \* _attempted
    acquired,   \* _acquired
    affinity,   \* _run_affinity of the Run
    pending,    \* the selection awaits authorization (_pending_authorizations)
    attempt,    \* the number of the current attempt
    err,        \* the error of the failed attempt
    large,      \* the context of the call is too large for the Small candidates
    last,       \* history: the candidate of the Run's last request, or the primary
    errors      \* errors the providers raised so far

callVars == <<sel, next, pass, attempted, attempt, err, large>>
vars == <<circ, pc, sel, next, pass, attempted, acquired, affinity, pending,
          attempt, err, large, last, errors>>

-----------------------------------------------------------------------------
(* ModelRoute: the circuit records                                         *)

ClosedRecord == [state |-> "closed", fails |-> 0, left |-> 0, probe |-> FALSE]

\* The two records a candidate depends on.
RecordsOf(c) == {c, DomainOf[c]}

\* _refresh_record: an expired cooldown makes the record half-open.
Refreshed(rec) == IF rec.state = "open" /\ rec.left = 0
                  THEN [rec EXCEPT !.state = "half_open", !.probe = FALSE] ELSE rec

Opened(rec, delay) == [rec EXCEPT !.state = "open", !.left = delay, !.probe = FALSE]
Released(rec) == IF rec.state = "half_open" THEN [rec EXCEPT !.probe = FALSE] ELSE rec
Blocked(rec) == rec.state = "open" \/ (rec.state = "half_open" /\ rec.probe)
Probed(rec) == IF rec.state = "half_open" THEN [rec EXCEPT !.probe = TRUE] ELSE rec

Larger(m, n) == IF m > n THEN m ELSE n

\* _effective_record: the records circuit_snapshot(c) may refresh.
Effective(cc, c) ==
    LET bad == {k \in RecordsOf(c) : cc[k].state # "closed"}
        cooling == {k \in bad : cc[k].left > 0}
    IN IF cooling # {} THEN cooling ELSE IF bad # {} THEN bad ELSE {c}

\* The records after circuit_snapshot of every candidate of C.
Snapshots(cc, C) ==
    {[k \in Keys |-> IF \E c \in C : f[c] = k THEN Refreshed(cc[k]) ELSE cc[k]] :
        f \in {g \in [C -> UNION {Effective(cc, c) : c \in C}] :
                    \A c \in C : g[c] \in Effective(cc, c)}}

\* acquire: the candidate's record is tried first, then its domain's.
CanAcquire(cc, c) == \A k \in RecordsOf(c) : ~Blocked(Refreshed(cc[k]))
Acquire(cc, c) == [k \in Keys |-> IF k \in RecordsOf(c) THEN Probed(Refreshed(cc[k]))
                                  ELSE cc[k]]
\* A refused acquire leaves the domain's record alone when the candidate's blocks,
\* and gives the candidate's probe back when the domain's does.
Refuse(cc, c) == [k \in Keys |-> IF k = c \/ (k = DomainOf[c] /\ ~Blocked(Refreshed(cc[c])))
                                 THEN Refreshed(cc[k]) ELSE cc[k]]

\* Mutant: a cancelled attempt gives back the probe of its own record only.
ReleaseCandidate(cc, C) == [k \in Keys |-> IF k \in C THEN Released(cc[k]) ELSE cc[k]]

\* release of every candidate of C
Release(cc, C) == [k \in Keys |-> IF \E c \in C : k \in RecordsOf(c)
                                  THEN Released(cc[k]) ELSE cc[k]]

\* ModelRoute.record_success
Close(cc, c) == [k \in Keys |-> IF k \in RecordsOf(c) THEN ClosedRecord ELSE cc[k]]

CanFailover(e) == Enabled /\ e.kind \in {"health", "unavailable"}

\* The domain's record after one more health failure.
Failed(rec, e) ==
    LET fails == IF rec.fails < Threshold THEN rec.fails + 1 ELSE Threshold
        tripped == rec.state = "half_open" \/ fails >= Threshold
        counted == [rec EXCEPT !.fails = fails, !.probe = FALSE]
    IN IF e.hint \/ tripped
       THEN Opened(counted, Larger(IF tripped THEN Recovery ELSE 0, e.after))
       ELSE counted

\* ModelRoute.record_failure
Fail(cc, c, e) ==
    IF ~CanFailover(e) THEN Release(cc, {c})
    ELSE IF e.kind = "unavailable"
    THEN [Release(cc, {c}) EXCEPT ![c] = Opened(@, Larger(Recovery, e.after))]
    ELSE [cc EXCEPT ![DomainOf[c]] = Failed(@, e)]

-----------------------------------------------------------------------------
(* The selection of a candidate                                            *)

\* _ordered_candidates, computed by select_initial from the affinity it finds.
Expected(r) == IF affinity[r] = None THEN Primary ELSE affinity[r]
Position(c) == CHOOSE i \in DOMAIN Route : Route[i] = c
Order(r) == LET first == Position(Expected(r))
            IN IF Enabled THEN SubSeq(Route, first, Len(Route)) \o SubSeq(Route, 1, first - 1)
               ELSE <<Expected(r)>>

Exhausted(r) == \A i \in DOMAIN Order(r) : Order(r)[i] \in attempted[r]

\* c is the next candidate the loop of _select looks at.
IsNext(r, c) == \E i \in DOMAIN Order(r) :
                    /\ Order(r)[i] = c /\ c \notin attempted[r]
                    /\ \A j \in 1 .. i - 1 : Order(r)[j] \in attempted[r]

TooSmall(r, c) == large[r] /\ c \in Small

\* _retry_delay is None: the provider asks for more than the wait ceiling.
DelayTooLong(e) == e.hint /\ e.after > MaxDelay

Init ==
    /\ circ = [k \in Keys |-> ClosedRecord]
    /\ pc = [r \in Runs |-> "between"]
    /\ sel = [r \in Runs |-> None]
    /\ next = [r \in Runs |-> None]
    /\ pass = [r \in Runs |-> "initial"]
    /\ attempted = [r \in Runs |-> {}]
    /\ acquired = [r \in Runs |-> {}]
    /\ affinity = [r \in Runs |-> None]
    /\ pending = [r \in Runs |-> FALSE]
    /\ attempt = [r \in Runs |-> 1]
    /\ err = [r \in Runs |-> Plain]
    /\ large = [r \in Runs |-> FALSE]
    /\ last = [r \in Runs |-> Primary]
    /\ errors = 0

\* The local state of execute is gone when the call is over.
EndCall(r) ==
    /\ sel' = [sel EXCEPT ![r] = None]
    /\ next' = [next EXCEPT ![r] = None]
    /\ pass' = [pass EXCEPT ![r] = "initial"]
    /\ attempt' = [attempt EXCEPT ![r] = 1]
    /\ err' = [err EXCEPT ![r] = Plain]
    /\ large' = [large EXCEPT ![r] = FALSE]

\* Run r moves from one of the places in from to the place to.
Goto(r, from, to) == pc[r] \in from /\ pc' = [pc EXCEPT ![r] = to]

\* A Turn calls execute, which calls select_initial.
BeginCall(r) ==
    /\ Goto(r, {"between"}, "select")
    /\ \E b \in BOOLEAN : large' = [large EXCEPT ![r] = b]
    /\ attempted' = [attempted EXCEPT ![r] = {}]
    /\ UNCHANGED <<circ, sel, next, pass, acquired, affinity, pending, attempt, err, last, errors>>

\* _select passes over a candidate: its window is too small or its circuit refuses.
Skip(r, c) ==
    /\ pc[r] = "select" /\ IsNext(r, c)
    /\ \/ TooSmall(r, c) /\ circ' = circ
       \/ /\ ~TooSmall(r, c) /\ ~CanAcquire(circ, c)
          /\ circ' \in Snapshots(Refuse(circ, c), {c})
    /\ attempted' = [attempted EXCEPT ![r] = @ \cup {c}]
    /\ UNCHANGED <<pc, sel, next, pass, acquired, affinity, pending, attempt,
                   err, large, last, errors>>

\* Mutant: whatever the affinity, only leaving the primary counts as a change.
PrimaryOnly(r) == IF pass[r] = "initial" THEN Primary ELSE sel[r]

\* The candidate whose selection is no change and needs no authorization.
Current(r) == IF pass[r] = "initial" THEN Expected(r) ELSE sel[r]

\* _select takes a candidate.  A first selection goes on to its attempt; one made
\* after a failure to the backoff, or back when the backoff would be too long.
Take(r, c) ==
    /\ IsNext(r, c) /\ ~TooSmall(r, c) /\ CanAcquire(circ, c)
    /\ circ' = Acquire(circ, c)
    /\ acquired' = [acquired EXCEPT ![r] = @ \cup {c}]
    /\ pending' = [pending EXCEPT ![r] = c # Current(r)]
    /\ \/ /\ pass[r] = "initial" /\ Goto(r, {"select"}, "start")
          /\ sel' = [sel EXCEPT ![r] = c] /\ next' = next
       \/ /\ pass[r] # "initial"
          /\ Goto(r, {"select"}, IF pass[r] = "second" /\ DelayTooLong(err[r])
                                 THEN "abandon" ELSE "wait")
          /\ next' = [next EXCEPT ![r] = c] /\ sel' = sel
    /\ pass' = [pass EXCEPT ![r] = "initial"]
    /\ UNCHANGED <<attempted, affinity, attempt, err, large, last, errors>>

\* After a failure every candidate gets a second look (_route_round).
NextRound(r) ==
    /\ pc[r] = "select" /\ Exhausted(r) /\ pass[r] = "first"
    /\ pass' = [pass EXCEPT ![r] = "second"]
    /\ attempted' = [attempted EXCEPT ![r] = {}]
    /\ UNCHANGED <<circ, pc, sel, next, acquired, affinity, pending, attempt,
                   err, large, last, errors>>

\* _unavailable_error: no candidate can take the attempt.
Unavailable(r) ==
    /\ Exhausted(r) /\ pass[r] # "first"
    /\ Goto(r, {"select"}, "closing")
    /\ circ' \in Snapshots(circ, Candidates)
    /\ EndCall(r)
    /\ UNCHANGED <<attempted, acquired, affinity, pending, last, errors>>

\* record_abandoned of a selection whose backoff is over the ceiling.
Abandon(r) ==
    /\ Goto(r, {"abandon"}, "closing")
    /\ circ' = Release(circ, {next[r]})
    /\ acquired' = [acquired EXCEPT ![r] = @ \ {next[r]}]
    /\ EndCall(r)
    /\ UNCHANGED <<attempted, affinity, pending, last, errors>>

-----------------------------------------------------------------------------
(* One attempt                                                             *)

\* prepare_context is done and authorize_attempt finds a pending change.
Authorize(r) ==
    /\ pending[r] /\ Goto(r, {"start"}, "auth")
    /\ pending' = [pending EXCEPT ![r] = FALSE]
    /\ circ' \in Snapshots(circ, Candidates)
    /\ UNCHANGED <<callVars, acquired, affinity, last, errors>>

\* The request goes out: no change of candidate is pending, or it was approved.
Request(r) ==
    /\ pc[r] = "start" => ~pending[r]
    /\ Goto(r, {"start", "auth"}, "stream")
    /\ last' = [last EXCEPT ![r] = sel[r]]
    /\ UNCHANGED <<circ, callVars, acquired, affinity, pending, errors>>

\* Policy, the confirmation or an abort denies the change: record_abandoned, and
\* the PolicyBlockedError fails the attempt.
Deny(r) ==
    /\ Goto(r, {"auth"}, "failed")
    /\ circ' = Release(circ, {sel[r]})
    /\ acquired' = [acquired EXCEPT ![r] = @ \ {sel[r]}]
    /\ err' = [err EXCEPT ![r] = Plain]
    /\ UNCHANGED <<sel, next, pass, attempted, affinity, pending, attempt, large, last, errors>>

\* A hook or listener inside the attempt raises, or the provider fails.
AttemptFails(r) ==
    /\ \/ /\ Goto(r, {"start", "auth", "stream"}, "failed")
          /\ err' = [err EXCEPT ![r] = Plain] /\ errors' = errors
       \/ /\ errors < MaxErrors /\ Goto(r, {"stream"}, "failed")
          /\ \E e \in Errors : err' = [err EXCEPT ![r] = e]
          /\ errors' = errors + 1
    /\ UNCHANGED <<circ, sel, next, pass, attempted, acquired, affinity, pending,
                   attempt, large, last>>

\* record_abandoned: the attempt ends with an aborted message, before or after
\* the request, and the Run ends.
AttemptAborted(r) ==
    /\ pc[r] = "start" => ~pending[r]
    /\ Goto(r, {"start", "auth", "stream"}, "closing")
    /\ circ' = Release(circ, {sel[r]})
    /\ acquired' = [acquired EXCEPT ![r] = @ \ {sel[r]}]
    /\ EndCall(r)
    /\ UNCHANGED <<attempted, affinity, pending, last, errors>>

\* record_success of the router
Succeed(r) ==
    /\ Goto(r, {"stream"}, "between")
    /\ circ' = Close(circ, sel[r])
    /\ acquired' = [acquired EXCEPT ![r] = @ \ {sel[r]}]
    /\ affinity' = [affinity EXCEPT ![r] = sel[r]]
    /\ EndCall(r)
    /\ UNCHANGED <<attempted, pending, last, errors>>

\* Mutant: a failed attempt keeps its candidate in _acquired.
RecordFailureKept(r) ==
    /\ Goto(r, {"failed"}, "retry")
    /\ \E cc \in Snapshots(circ, {sel[r]}) :
           circ' \in Snapshots(Fail(cc, sel[r], err[r]), {sel[r]})
    /\ UNCHANGED <<callVars, acquired, affinity, pending, last, errors>>

\* record_failure of the router, with the snapshots it takes before and after
RecordFailure(r) ==
    /\ Goto(r, {"failed"}, "retry")
    /\ \E cc \in Snapshots(circ, {sel[r]}) :
           circ' \in Snapshots(Fail(cc, sel[r], err[r]), {sel[r]})
    /\ acquired' = [acquired EXCEPT ![r] = @ \ {sel[r]}]
    /\ UNCHANGED <<callVars, affinity, pending, last, errors>>

\* Mutant: one attempt too many.
BudgetLeftOffByOne(r) == attempt[r] <= MaxRetries + 1

\* The attempts share one budget, however many candidates they go to.
BudgetLeft(r) == attempt[r] <= MaxRetries

\* execute raises the error: the budget is spent or the error allows no retry.
GiveUp(r) ==
    /\ \/ ~BudgetLeft(r)
       \/ /\ ~CanFailover(err[r])
          /\ \/ err[r].kind \in {"plain", "fatal"}
             \/ DelayTooLong(err[r])
    /\ Goto(r, {"retry"}, "closing")
    /\ EndCall(r)
    /\ UNCHANGED <<circ, attempted, acquired, affinity, pending, last, errors>>

\* select_after_failure retries a retryable error that allows no failover with
\* the same candidate, whose circuit may refuse.
RetrySame(r) ==
    /\ BudgetLeft(r) /\ ~CanFailover(err[r])
    /\ err[r].kind \notin {"plain", "fatal"} /\ ~DelayTooLong(err[r])
    /\ \/ /\ CanAcquire(circ, sel[r]) /\ Goto(r, {"retry"}, "wait")
          /\ circ' = Acquire(circ, sel[r])
          /\ acquired' = [acquired EXCEPT ![r] = @ \cup {sel[r]}]
          /\ next' = [next EXCEPT ![r] = sel[r]]
          /\ UNCHANGED <<sel, pass, attempt, err, large>>
       \/ /\ ~CanAcquire(circ, sel[r]) /\ Goto(r, {"retry"}, "closing")
          /\ circ' \in Snapshots(Refuse(circ, sel[r]), Candidates)
          /\ acquired' = acquired /\ EndCall(r)
    /\ UNCHANGED <<attempted, affinity, pending, last, errors>>

\* select_after_failure looks for another candidate.
Failover(r) ==
    /\ BudgetLeft(r) /\ CanFailover(err[r])
    /\ Goto(r, {"retry"}, "select")
    /\ attempted' = [attempted EXCEPT ![r] = @ \cup {sel[r]}]
    /\ pass' = [pass EXCEPT ![r] = "first"]
    /\ UNCHANGED <<circ, sel, next, acquired, affinity, pending, attempt, err, large, last, errors>>

\* The backoff is over: the next attempt begins.
WaitOver(r) ==
    /\ Goto(r, {"wait"}, "start")
    /\ sel' = [sel EXCEPT ![r] = next[r]]
    /\ next' = [next EXCEPT ![r] = None]
    /\ attempt' = [attempt EXCEPT ![r] = @ + 1]
    /\ err' = [err EXCEPT ![r] = Plain]
    /\ UNCHANGED <<circ, pass, attempted, acquired, affinity, pending, large, last, errors>>

\* An abort or the deadline cuts the backoff, or a listener raises outside the
\* attempt: the call ends with its selection still acquired.
Cut(r) ==
    /\ Goto(r, {"select", "start", "stream", "failed", "retry", "wait"}, "closing")
    /\ EndCall(r)
    /\ UNCHANGED <<circ, attempted, acquired, affinity, pending, last, errors>>

\* Agent.prompt closes the router in its finally clause; the next Run of the
\* Harness has a new one.
CloseRun(r) ==
    /\ pc[r] = "between" => affinity[r] # None
    /\ Goto(r, {"between", "closing"}, "between")
    /\ circ' = Release(circ, acquired[r])
    /\ acquired' = [acquired EXCEPT ![r] = {}]
    /\ pending' = [pending EXCEPT ![r] = FALSE]
    /\ affinity' = [affinity EXCEPT ![r] = None]
    /\ last' = [last EXCEPT ![r] = Primary]
    /\ attempted' = [attempted EXCEPT ![r] = {}]
    /\ EndCall(r)
    /\ UNCHANGED errors

\* One tick of the clock, as long as a cooldown is running.
Tick ==
    /\ \E k \in Keys : circ[k].left > 0
    /\ circ' = [k \in Keys |-> [circ[k] EXCEPT !.left = IF @ > 0 THEN @ - 1 ELSE 0]]
    /\ UNCHANGED <<pc, callVars, acquired, affinity, pending, last, errors>>

Select(r) == \/ \E c \in Candidates : Skip(r, c) \/ Take(r, c)
             \/ NextRound(r)
             \/ Unavailable(r)

Attempt(r) == \/ Authorize(r) \/ Request(r) \/ Deny(r)
              \/ AttemptFails(r) \/ AttemptAborted(r) \/ Succeed(r)

Recover(r) == RecordFailure(r) \/ GiveUp(r) \/ RetrySame(r) \/ Failover(r)

Next == \/ \E r \in Runs : \/ BeginCall(r) \/ Select(r) \/ Attempt(r) \/ Recover(r)
                           \/ Abandon(r) \/ WaitOver(r) \/ Cut(r) \/ CloseRun(r)
        \/ Tick

Spec == Init /\ [][Next]_vars

-----------------------------------------------------------------------------
(* Properties                                                              *)

Record == [state : {"closed", "open", "half_open"}, fails : 0 .. Threshold,
           left : Nat, probe : BOOLEAN]
Places == {"between", "select", "abandon", "start", "auth", "stream", "failed",
           "retry", "wait", "closing"}

(* Every variable has its type: attempts stay within the retry budget, and a *)
(* Run that selects, waits or requests knows which candidate it means.       *)
TypeOK ==
    /\ circ \in [Keys -> Record]
    /\ pc \in [Runs -> Places]
    /\ sel \in [Runs -> Candidates \cup {None}]
    /\ next \in [Runs -> Candidates \cup {None}]
    /\ pass \in [Runs -> {"initial", "first", "second"}]
    /\ attempted \in [Runs -> SUBSET Candidates]
    /\ acquired \in [Runs -> SUBSET Candidates]
    /\ affinity \in [Runs -> Candidates \cup {None}]
    /\ pending \in [Runs -> BOOLEAN]
    /\ attempt \in [Runs -> 1 .. MaxRetries + 1]
    /\ err \in [Runs -> ErrorInfo \cup {Plain}]
    /\ large \in [Runs -> BOOLEAN]
    /\ last \in [Runs -> Candidates]
    /\ errors \in 0 .. MaxErrors
    /\ \A r \in Runs :
          /\ pc[r] \in {"start", "auth", "stream", "failed", "retry"} => sel[r] # None
          /\ pc[r] \in {"abandon", "wait"} => next[r] # None

\* Some Run accounts for the probe of record k in _acquired.
Held(k) == \E r \in Runs : \E c \in acquired[r] : k \in RecordsOf(c)

(* The half-open probe of a failure domain is always some Run's: whatever    *)
(* ends the attempt (success, failure, denial, abort, a raising listener,    *)
(* cleanup of the Run), release, record_* and close between them give the    *)
(* probe back, or nobody could ever try the domain again.                    *)
DomainProbeHeld == \A d \in Domains : circ[d].probe => circ[d].state = "half_open" /\ Held(d)

(* What CORE_DESIGN.md says of every probe, the candidate's own included:    *)
(* cleanup of a Run must release a half-open probe that was not settled.     *)
(* The code does not keep it: TLC refutes it as an invariant of              *)
(* MCModelRouting (README, Findings).                                        *)
ProbeHeld == \A k \in Keys : circ[k].probe => Held(k)

(* A Run holds one candidate at most, the one of its current or next         *)
(* attempt, and none between two calls: each selection is settled before the *)
(* next one is acquired.                                                     *)
HoldsAtMostOne ==
    \A r \in Runs : /\ \A c, d \in acquired[r] : c = d
                    /\ pc[r] \in {"between", "retry"} => acquired[r] = {}
                    /\ pc[r] \in {"start", "auth", "stream"} => acquired[r] = {sel[r]}

(* The books of the route balance: types and retry budget, the probes of the *)
(* failure domains, and what each Run holds.                                 *)
ProbesHeld == TypeOK /\ DomainProbeHeld /\ HoldsAtMostOne

(* README: every candidate change, an initial fallback included, runs the    *)
(* before_model_failover hook before a request reaches the target.  Whatever *)
(* the affinity, the rounds and the circuits, a request goes to the          *)
(* candidate of the Run's last request (at first the primary) or was         *)
(* approved by the hook.                                                     *)
SwitchAuthorized ==
    [][\A r \in Runs : pc[r] # "stream" /\ pc'[r] = "stream"
                       => sel[r] = last[r] \/ pc[r] = "auth"]_vars
=============================================================================
