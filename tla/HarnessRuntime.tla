--------------------------- MODULE HarnessRuntime ---------------------------
(***************************************************************************)
(* BaseHarness around the Agent: who may call prompt(), which Policies     *)
(* judge a Tool call, which Tools are active, and the SubAgents a Run      *)
(* spawns.  All of it runs on one event loop; every await is a point where *)
(* another caller, a Plugin or an abort comes in between.                  *)
(*                                                                         *)
(* A prompt() emits pending events, starts, runs the Agent, and then has a *)
(* tail: it emits Session events and compacts, while the Agent is idle     *)
(* again.  The Run itself is one position and the Tool calls it makes      *)
(* (AgentLoop has the rest).                                               *)
(***************************************************************************)
EXTENDS Integers, FiniteSets

CONSTANTS Callers, Plugins, Tools, Policies, Nobody,
          ApprovalMode       \* "strict", "warn" or "off"

ASSUME RuntimeAssumption == /\ Nobody \notin Callers /\ {"read", "spawn"} \subseteq Tools
                            /\ ApprovalMode \in {"strict", "warn", "off"} /\ Policies # {}

VARIABLES scope,      \* which groups of operations a behaviour has
          pc,         \* per caller of prompt(): rest, prelude, run, tail, compact
          outcome,    \* how the Run of a caller in its tail ended
          busy,       \* whose Run the Agent executes
          run,        \* that Run: where it is, its Tools, whether it is aborted
          status,     \* Lifecycle
          started,    \* _run_started_at
          policies,   \* PolicyManager.registry
          engine,     \* _run_policy_engine: None or the Policies it holds
          approvals,  \* ApprovalStore
          assembly,   \* the ceiling the SubAgent manager was built with
          ceiling, overrides, saved,   \* Tool restrictions; saved is the Plugin state of the Session
          agentTools,
          child,      \* the SubAgent
          begun,      \* the Policies registered when the Run began
          wanted,     \* per Plugin: the run-scoped restriction it asked for, and for whose
                      \* Run; or that one of these has replaced its restriction for the Session
          last,       \* the last Tool call executed, and who judged it
          overlap     \* a Run began in the tail of another prompt()

vars == <<scope, pc, outcome, busy, run, status, started, policies, engine, approvals, assembly,
          ceiling, overrides, saved, agentTools, child, begun, wanted, last, overlap>>
runVars == <<pc, outcome, busy, run, started, begun, overlap>>
fixed == <<scope, assembly>>
toolVars == <<ceiling, overrides, saved, agentTools, wanted>>
policyVars == <<policies, engine, approvals>>

None == [kind |-> "none"]
Replaced == [kind |-> "replaced"]
IsRunning == busy # Nobody
RunningStates == {"running", "waiting", "aborting"}
Idle == [at |-> "none", tools |-> {}, aborted |-> FALSE]
NoChild == [st |-> "none"]

(***************************************************************************)
(* Tools: the ceiling and every Plugin's restriction.                      *)
(***************************************************************************)
ActiveWith(c, over) == {t \in Tools \intersect c : \A p \in Plugins : over[p] = None \/ t \in over[p].names}
Active == ActiveWith(ceiling, overrides)

SetOverrides(over) == overrides' = over /\ agentTools' = ActiveWith(ceiling, over)

(* the latest prompt() that has not returned, or the next one              *)
ForWhom == IF IsRunning THEN busy
           ELSE IF \E c \in Callers : pc[c] \in {"tail", "compact"}
                THEN CHOOSE c \in Callers : pc[c] \in {"tail", "compact"} ELSE "next"

Restriction(names, kind) == [kind |-> kind, names |-> names]

SetActive(p, names, kind) ==
  /\ SetOverrides([overrides EXCEPT ![p] = Restriction(names, kind)])
  /\ saved' = IF kind = "session" THEN [saved EXCEPT ![p] = Restriction(names, kind)] ELSE saved
  /\ wanted' = [wanted EXCEPT ![p] = IF kind = "run" THEN [kind |-> "run", names |-> names, for |-> ForWhom]
                                     ELSE None]
  /\ UNCHANGED <<runVars, policyVars, status, ceiling, child, last>>

ClearActive(p) ==
  /\ overrides[p] # None \/ saved[p] # None
  /\ SetOverrides([overrides EXCEPT ![p] = None])
  /\ saved' = [saved EXCEPT ![p] = None] /\ wanted' = [wanted EXCEPT ![p] = None]
  /\ UNCHANGED <<runVars, policyVars, status, ceiling, child, last>>

DropAll(over) == [p \in Plugins |-> None]

(* _clear_run_plugin_overrides                                             *)
DropRunScope(over) == [p \in Plugins |-> IF over[p].kind = "run" THEN None ELSE over[p]]

(* a Plugin has one restriction: what it made for the Session does not     *)
(* come back when a run-scoped one that replaced it is over                *)
ForgetFor(c) == [p \in Plugins |-> IF wanted[p].kind = "run" /\ wanted[p].for = c
                                   THEN IF saved[p] = None THEN None ELSE Replaced
                                   ELSE wanted[p]]

ConfigureToolCeiling(c) ==
  /\ ~IsRunning
  /\ ceiling' = c /\ agentTools' = ActiveWith(c, overrides)
  /\ UNCHANGED <<runVars, policyVars, status, overrides, saved, wanted, child, last>>

(* to the current leaf or to one from before the Plugins' state            *)
SwitchSessionLeaf ==
  /\ ~IsRunning
  /\ \E s \in {saved, DropAll(saved)} :
       /\ saved' = s /\ SetOverrides(s) /\ wanted' = DropAll(wanted)
  /\ UNCHANGED <<runVars, policyVars, status, ceiling, child, last>>

Reset ==
  /\ ~IsRunning
  /\ saved' = DropAll(saved) /\ SetOverrides(DropAll(overrides)) /\ wanted' = DropAll(wanted)
  /\ engine' = None /\ status' = "idle"
  /\ UNCHANGED <<runVars, policies, approvals, ceiling, child, last>>

(***************************************************************************)
(* Policies.                                                               *)
(***************************************************************************)
(* a record of another digest, or in strict mode of none, does not count   *)
Approved(rec) == rec = "approved" \/ (rec = "legacy" /\ ApprovalMode # "strict")
RaiseIfRequired(rec) == ApprovalMode = "strict" /\ ~Approved(rec)

AddApproval(p, rec) ==
  /\ approvals[p] = "none"
  /\ approvals' = [approvals EXCEPT ![p] = rec]
  /\ UNCHANGED <<runVars, toolVars, policies, engine, status, child, last>>

MayRegister(p) == TRUE

(* the registry only changes while the Agent is idle                       *)
MayChangePolicies(p) == ~IsRunning

RegisterPolicy(p) ==
  /\ MayChangePolicies(p) /\ ~RaiseIfRequired(approvals[p])
  /\ policies' = policies \union {p}
  /\ UNCHANGED <<runVars, toolVars, engine, approvals, status, child, last>>

(* a reload, or a pack that replaces: a Policy makes room for another      *)
ReplacePolicy(p, q) ==
  /\ MayChangePolicies(p) /\ p \in policies /\ p # q /\ ~RaiseIfRequired(approvals[q])
  /\ policies' = (policies \ {p}) \union {q}
  /\ UNCHANGED <<runVars, toolVars, engine, approvals, status, child, last>>

Judges == IF engine = None THEN policies ELSE engine.policies

Precedence == [allow |-> 0, trigger_validation |-> 1, rewrite_args |-> 2, terminate |-> 3,
               require_confirmation |-> 4, block |-> 5]
(* PolicyEngine.evaluate: a Policy that fails blocks                       *)
Final(decisions) ==
  LET actions == {IF decisions[p] = "raises" THEN "block" ELSE decisions[p] : p \in DOMAIN decisions}
                   \union {"allow"}
  IN CHOOSE a \in actions : \A b \in actions : Precedence[b] <= Precedence[a]
Decisions(judges) == [judges -> {"allow", "rewrite_args", "require_confirmation", "raises"}]
Verdicts(judges) == {Final(d) : d \in Decisions(judges)}

(***************************************************************************)
(* prompt().                                                               *)
(***************************************************************************)
(* the Tools are refreshed, then pending events are emitted                *)
Prompt(c) ==
  /\ pc[c] = "rest"
  /\ pc' = [pc EXCEPT ![c] = "prelude"] /\ agentTools' = Active
  /\ UNCHANGED <<outcome, busy, run, started, begun, overlap, policyVars, status, ceiling, overrides,
                 saved, wanted, child, last>>

InTail(d) == pc[d] \in {"tail", "compact"}

StartRefused(c) ==
  /\ status \in RunningStates
  /\ pc' = [pc EXCEPT ![c] = "rest"]
  /\ UNCHANGED <<outcome, busy, run, started, begun, overlap, status, toolVars, last>>

(* the Agent is busy although the Lifecycle was not: prompt() fails, and   *)
(* cleans up what belongs to the Run that is busy                          *)
AgentRefuses(c) ==
  /\ status \notin RunningStates /\ IsRunning
  /\ started' = c /\ status' = "running"
  /\ pc' = [pc EXCEPT ![c] = "tail"] /\ outcome' = [outcome EXCEPT ![c] = "error"]
  /\ UNCHANGED <<busy, run, begun, overlap, toolVars, last>>

RunBegins(c) ==
  /\ status \notin RunningStates /\ ~IsRunning
  /\ started' = c /\ status' = "running" /\ busy' = c
  /\ pc' = [pc EXCEPT ![c] = "run"]
  /\ run' = [at |-> "loop", tools |-> agentTools, aborted |-> FALSE]
  /\ begun' = policies /\ last' = None
  /\ overlap' = (overlap \/ \E d \in Callers : InTail(d))
  /\ wanted' = [p \in Plugins |-> IF wanted[p].kind = "run" THEN [wanted[p] EXCEPT !.for = c] ELSE wanted[p]]
  /\ UNCHANGED <<outcome, ceiling, overrides, saved, agentTools>>

(* the engine is replaced before the Lifecycle may refuse                  *)
StartPrompt(c) ==
  /\ pc[c] = "prelude"
  /\ engine' = [kind |-> "run", policies |-> policies]
  /\ StartRefused(c) \/ AgentRefuses(c) \/ RunBegins(c)
  /\ UNCHANGED <<policies, approvals, child>>

(* the Run is over and agent_end reports how; its listeners run while the  *)
(* Agent is still busy, and the Harness is one of them                     *)
AgentEnds(c, how) ==
  /\ busy = c /\ run.at \in {"loop", "failing"}
  /\ how \in (IF run.aborted THEN {"aborted", "cancelled"}
              ELSE IF run.at = "failing" THEN {"error"} ELSE {"completed", "turn_limit", "error"})
  /\ run' = [at |-> "ending", tools |-> run.tools, aborted |-> run.aborted]
  /\ status' = IF run.aborted THEN "aborted" ELSE status
  /\ outcome' = [outcome EXCEPT ![c] = how]
  /\ UNCHANGED <<pc, busy, started, begun, overlap, toolVars, policyVars, child, last>>

(* the Agent is free, and its prompt() returns, raises or was cancelled    *)
(* while it reported the end                                               *)
AgentFrees(c) ==
  /\ busy = c /\ run.at = "ending"
  /\ busy' = Nobody /\ run' = Idle
  /\ pc' = [pc EXCEPT ![c] = "tail"]
  /\ \E how \in {outcome[c], "cancelled"} : outcome' = [outcome EXCEPT ![c] = how]
  /\ UNCHANGED <<started, begun, overlap, status, toolVars, policyVars, child, last>>

Finish(c) ==
  /\ started' = Nobody /\ engine' = None
  /\ pc' = [pc EXCEPT ![c] = "rest"] /\ outcome' = [outcome EXCEPT ![c] = "none"]
  /\ SetOverrides(DropRunScope(overrides)) /\ wanted' = ForgetFor(c)
  /\ overlap' = (overlap /\ \E d \in Callers \ {c} : pc[d] # "rest")

KeepStatus(c) == UNCHANGED status

(* the turn limit leaves the Agent as an error                             *)
EndStatus(c) == status' = CASE outcome[c] \in {"aborted", "cancelled"} -> "aborted"
                            [] outcome[c] \in {"error", "turn_limit"} -> "failed"
                            [] OTHER -> "completed"

(* after the Session events: the Lifecycle, then compaction or the end     *)
RunTail(c) ==
  /\ pc[c] = "tail"
  /\ EndStatus(c)
  /\ \/ Finish(c)
     \/ /\ outcome[c] = "completed" /\ pc' = [pc EXCEPT ![c] = "compact"]
        /\ UNCHANGED <<outcome, started, engine, overlap, overrides, agentTools, wanted>>
  /\ UNCHANGED <<busy, run, begun, policies, approvals, ceiling, saved, child, last>>

Compacted(c) ==
  /\ pc[c] = "compact"
  /\ Finish(c)
  /\ UNCHANGED <<busy, run, begun, status, policies, approvals, ceiling, saved, child, last>>

AbortStatus == IF status \in {"running", "waiting"} THEN "aborting" ELSE status

(* refused once the Run is over                                            *)
Abort ==
  /\ IsRunning /\ ~run.aborted /\ run.at # "ending"
  /\ run' = [run EXCEPT !.aborted = TRUE] /\ status' = AbortStatus
  /\ UNCHANGED <<pc, outcome, busy, started, begun, overlap, toolVars, policyVars, child, last>>

(***************************************************************************)
(* Tool calls.                                                             *)
(***************************************************************************)
Executed(t, judges, by) == [kind |-> by, tool |-> t, judges |-> judges]

(* allowed, or blocked and answered; the Tool is looked up among those of  *)
(* the start of the Run                                                    *)
CallTool(t) ==
  /\ IsRunning /\ run.at = "loop" /\ ~run.aborted /\ t # "spawn"
  /\ \E verdict \in Verdicts(Judges) :
       \/ /\ verdict \notin {"block", "require_confirmation"} /\ t \in run.tools
          /\ last' = Executed(t, Judges, "run") /\ UNCHANGED <<run, status>>
       \/ /\ verdict = "require_confirmation"
          /\ run' = [at |-> "confirm", tools |-> run.tools, aborted |-> FALSE,
                     tool |-> t, judges |-> Judges, managed |-> status = "running"]
          /\ status' = (IF status = "running" THEN "waiting" ELSE status)
          /\ UNCHANGED last
  /\ UNCHANGED <<pc, outcome, busy, started, begun, overlap, toolVars, policyVars, child>>

BackToLoop == [at |-> "loop", tools |-> run.tools, aborted |-> run.aborted]

(* Lifecycle.resume raises when the status is neither waiting nor aborting *)
Resumed == IF status = "waiting" THEN "running" ELSE status
ResumeRaises == run.managed /\ status \notin {"waiting", "aborting"}

(* _request_confirmation ends: an abort makes it a cancellation, and a     *)
(* cancellation an abort                                                   *)
Answer(reply) ==
  /\ IsRunning /\ run.at = "confirm"
  /\ reply = "approve" => ~run.aborted
  /\ run' = [BackToLoop EXCEPT !.aborted = @ \/ reply = "cancelled", !.at = IF ResumeRaises THEN "failing" ELSE @]
  /\ status' = IF reply = "cancelled" THEN AbortStatus ELSE IF run.managed THEN Resumed ELSE status
  /\ last' = IF reply = "approve" /\ ~ResumeRaises /\ run.tool \in run.tools THEN Executed(run.tool, run.judges, "run") ELSE last
  /\ UNCHANGED <<pc, outcome, busy, started, begun, overlap, toolVars, policyVars, child>>

(***************************************************************************)
(* SubAgents.                                                              *)
(***************************************************************************)
AnyNames(names) == names \subseteq Tools \ {"spawn"}

(* _resolve_tools, against the ceiling of the assembly                     *)
Resolvable(names) == names \subseteq assembly \ {"spawn"}

(* SubAgentManager.run: judged, then a Harness with the registered         *)
(* Policies of the parent and the time that is left                        *)
SpawnSubagent(names) ==
  /\ IsRunning /\ run.at = "loop" /\ ~run.aborted /\ "spawn" \in run.tools /\ child = NoChild
  /\ \E v \in Verdicts(Judges) : v # "block"
  /\ Resolvable(names)
  /\ child' = [st |-> "running", tools |-> names, policies |-> policies, parent |-> busy,
               attached |-> TRUE, aborted |-> FALSE, deadline |-> IF started = Nobody THEN "full" ELSE "left"]
  /\ run' = [run EXCEPT !.at = "spawn"]
  /\ last' = Executed("spawn", Judges, "run")
  /\ UNCHANGED <<pc, outcome, busy, started, begun, overlap, toolVars, policyVars, status>>

ChildRuns == child.st = "running"

ChildCalls(t) ==
  /\ ChildRuns /\ ~child.aborted /\ t \in child.tools
  /\ \E v \in Verdicts(child.policies) : v # "block"
  /\ last' = Executed(t, child.policies, "child")
  /\ UNCHANGED <<runVars, toolVars, policyVars, status, child>>

Signalled == ChildRuns /\ child.parent = busy /\ run.aborted

(* _propagate_abort                                                        *)
PropagateAbort ==
  /\ Signalled /\ ~child.aborted
  /\ child' = [child EXCEPT !.aborted = TRUE]
  /\ UNCHANGED <<runVars, toolVars, policyVars, status, last>>

(* the result is judged by after_subagent_run and returned                 *)
ChildEnds ==
  /\ ChildRuns
  /\ child' = NoChild
  /\ run' = IF child.attached THEN BackToLoop ELSE run
  /\ UNCHANGED <<pc, outcome, busy, started, begun, overlap, toolVars, policyVars, status, last>>

GivesUpOnly ==
  /\ ChildRuns /\ child.attached
  /\ child' = [child EXCEPT !.attached = FALSE]
  /\ run' = BackToLoop
  /\ UNCHANGED <<pc, outcome, busy, started, begun, overlap, toolVars, policyVars, status, last>>

(* the Tool timeout cancels the child and gives up after the grace period  *)
ToolTimeout ==
  /\ ChildRuns /\ child.attached
  /\ child' = [child EXCEPT !.aborted = TRUE, !.attached = FALSE]
  /\ run' = BackToLoop
  /\ UNCHANGED <<pc, outcome, busy, started, begun, overlap, toolVars, policyVars, status, last>>

-----------------------------------------------------------------------------
Init ==
  /\ pc = [c \in Callers |-> "rest"] /\ outcome = [c \in Callers |-> "none"]
  /\ busy = Nobody /\ run = Idle /\ status = "idle" /\ started = Nobody
  /\ policies = {CHOOSE p \in Policies : TRUE} /\ engine = None
  /\ approvals = [p \in Policies |-> IF p \in policies THEN "approved" ELSE "none"]
  /\ assembly \in {Tools, {"read", "spawn"}} /\ ceiling = assembly /\ agentTools = assembly
  /\ overrides = [p \in Plugins |-> None] /\ saved = overrides /\ wanted = overrides
  /\ child = NoChild /\ begun = {} /\ last = None /\ overlap = FALSE

CallerStep(c) ==
  \/ Prompt(c) \/ StartPrompt(c) \/ AgentFrees(c) \/ RunTail(c) \/ Compacted(c)
  \/ \E how \in {"completed", "turn_limit", "error", "aborted", "cancelled"} : AgentEnds(c, how)

RunStep == \/ Abort \/ \E t \in Tools : CallTool(t)
           \/ \E reply \in {"approve", "deny", "cancelled"} : Answer(reply)

PolicyStep == \E p \in Policies :
  \/ RegisterPolicy(p) \/ \E q \in Policies : ReplacePolicy(p, q)
  \/ \E rec \in {"approved", "legacy", "denied"} : AddApproval(p, rec)

PluginStep == \E p \in Plugins :
  \/ ClearActive(p)
  \/ \E names \in {{"read"}, {"read", "spawn"}}, kind \in {"run", "session"} : SetActive(p, names, kind)

HostStep == SwitchSessionLeaf \/ Reset \/ \E c \in {Tools, {"read"}} : ConfigureToolCeiling(c)

ChildStep == \/ \E names \in {{"read"}, Tools \ {"spawn"}} : SpawnSubagent(names)
             \/ (ChildRuns /\ \E t \in Tools : ChildCalls(t))
             \/ PropagateAbort \/ ChildEnds \/ ToolTimeout

Next ==
  /\ \/ \E c \in Callers : CallerStep(c)
     \/ RunStep
     \/ "policies" \in scope /\ PolicyStep
     \/ "plugins" \in scope /\ (PluginStep \/ HostStep)
     \/ "children" \in scope /\ ChildStep
  /\ UNCHANGED fixed

Spec == Init /\ [][Next]_vars

-----------------------------------------------------------------------------
(* Every Tool call that executes, of a Run or of its SubAgent, was judged  *)
(* by every Policy that was registered when the Run began: no later prompt,*)
(* no tail of an earlier one, no reset and no reload takes one away.       *)
CallsGoverned == last # None => begun \subseteq last.judges

(* the Run may still make calls                                            *)
Underway == IsRunning /\ run.at # "ending"

Restricted(p) ==
  /\ wanted[p].kind = "run" => Active \subseteq wanted[p].names
  /\ (wanted[p] = None /\ saved[p] # None) => Active \subseteq saved[p].names

(* What a Plugin restricts for a Run stays restricted until that Run is    *)
(* over, and what it restricts for the Session until the Session is left,  *)
(* or the Plugin changes it; unless the tail of another prompt() overlaps  *)
(* the Run, or the Plugin restricted a Run in between, which loses what it *)
(* asked for the Session.  No call leaves the ceiling.                     *)
ToolsWithin ==
  IsRunning =>
    /\ (Underway /\ ~overlap) => \A p \in Plugins : Restricted(p)
    /\ (last # None /\ last.kind = "run") => last.tool \in ceiling
    /\ (last # None /\ last.kind = "child") => last.tool \in assembly

(* The Lifecycle tells the truth: running while a Run is underway, unless  *)
(* prompts overlap, and never running for good when no prompt is left.     *)
StatusTruthful ==
  /\ (Underway /\ ~overlap) => status \in RunningStates /\ started = busy
  /\ (\A c \in Callers : pc[c] \in {"rest", "prelude"}) => status \notin RunningStates

(* A SubAgent that has not been told to stop works for a Run that waits    *)
(* for it: no timeout and no end of the Run leaves one that goes on with   *)
(* its Tools.  It has no more time than the Run has left, unless prompts   *)
(* overlap.                                                                *)
ChildContained ==
  /\ (ChildRuns /\ ~child.aborted) => child.attached
  /\ (ChildRuns /\ child.attached) => /\ busy = child.parent /\ run.at = "spawn"
                                      /\ ~overlap => child.deadline = "left"

(* docs/design/PLUGIN_DESIGN.md:79-80: run-scoped restrictions are cleared *)
(* after the Run, those for the Session are part of its Plugin state and   *)
(* follow its branches.  A run-scoped one takes the place of the other for *)
(* good (_set_plugin_active_tools).                                        *)
SessionRestrictionKept == \A p \in Plugins : saved[p] # None => overrides[p] # None
=============================================================================
