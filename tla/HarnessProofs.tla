--------------------------- MODULE HarnessProofs ---------------------------
(***************************************************************************)
(* Proofs about the Harness around the Agent (HarnessRuntime) and about    *)
(* its Session (SessionLog).                                               *)
(*                                                                         *)
(* The Harness is proved for any number of callers of prompt(), Plugins,   *)
(* Tools and Policies and for every combination of the groups of           *)
(* operations.  The invariant has three parts: the callers and the         *)
(* Lifecycle; the Policies and Tools of the Run and of its SubAgent; and   *)
(* the restrictions that the Plugins asked for.                            *)
(*                                                                         *)
(* The Session is proved for logs of any length and for any anchors,       *)
(* compactions and torn writes.  Everything it computes from the log is a  *)
(* recursion from an entry to its parent; first come the equations of      *)
(* these recursions, then what a longer log keeps of a shorter one, then   *)
(* the invariant, action by action.  A second invariant, on the order of   *)
(* the messages and of the Runs of a path, needs the restrictions named    *)
(* Guarded.                                                                *)
(***************************************************************************)
EXTENDS HarnessRuntime, SessionLog, FiniteSetTheorems, SequenceTheorems, WellFoundedInduction, TLAPS

(***************************************************************************)
(* HarnessRuntime.                                                         *)
(***************************************************************************)
-----------------------------------------------------------------------------
(* The callers.  While a Run is underway and prompts do not overlap its    *)
(* caller is the only one past start(); when the Run is over but the Agent *)
(* not free yet another may get there, and is refused.  A Lifecycle that   *)
(* says running has a caller in its Run or in the part of its tail that    *)
(* sets the final status.                                                  *)
Working == {"run", "tail", "compact"}
SomebodyWorks == \E c \in Callers : pc[c] \in Working

CallersInv ==
  /\ pc \in [Callers -> {"rest", "prelude"} \union Working] /\ busy \in Callers \union {Nobody}
  /\ overlap \in BOOLEAN
  /\ \A c \in Callers : pc[c] = "run" <=> busy = c
  /\ (Underway /\ ~overlap) => /\ \A c \in Callers : pc[c] \in Working => c = busy
                               /\ status \in RunningStates /\ started = busy
  /\ status \in RunningStates => \E c \in Callers : pc[c] \in {"run", "tail"}

(* The Run.  While the Agent is busy the registry is what it was when the  *)
(* Run began, and so is what the engine, a pending confirmation and an     *)
(* attached SubAgent hold; a SubAgent that was given up is aborted.        *)
ToolSets == SUBSET Tools
PolicySets == SUBSET Policies
PlainRun == [at : {"none", "loop", "failing", "spawn", "ending"}, tools : ToolSets, aborted : BOOLEAN]
Confirming == [at : {"confirm"}, tools : ToolSets, aborted : BOOLEAN, tool : Tools,
               judges : PolicySets, managed : BOOLEAN]
Engine == [kind : {"run"}, policies : PolicySets]
Child == [st : {"running"}, tools : ToolSets, policies : PolicySets, parent : Callers,
          attached : BOOLEAN, aborted : BOOLEAN, deadline : {"full", "left"}]
Call == [kind : {"run", "child"}, tool : Tools, judges : PolicySets]

GovernTyped ==
  /\ run \in PlainRun \union Confirming
  /\ policies \in PolicySets /\ begun \in PolicySets /\ engine \in {None} \union Engine
  /\ assembly \in ToolSets /\ ceiling \in ToolSets /\ agentTools \in SUBSET ceiling
  /\ child \in {NoChild} \union Child /\ last \in {None} \union Call

RunGoverned ==
  IsRunning =>
    /\ policies = begun /\ (engine # None => engine.policies = begun)
    /\ run.tools \subseteq ceiling
    /\ run.at = "confirm" => run.judges = begun

ChildGoverned ==
  ChildRuns =>
    /\ child.tools \subseteq assembly /\ (~child.aborted => child.attached)
    /\ child.attached => /\ IsRunning /\ busy = child.parent /\ run.at = "spawn" /\ child.policies = begun
                         /\ ~overlap => child.deadline = "left"

CallGoverned ==
  last # None =>
    /\ begun \subseteq last.judges
    /\ last.kind = "child" => last.tool \in assembly
    /\ (IsRunning /\ last.kind = "run") => last.tool \in ceiling

GovernInv == GovernTyped /\ RunGoverned /\ ChildGoverned /\ CallGoverned

(* The Plugins.  What one asked for a Run is in force; only when no Run is *)
(* underway or prompts overlap may the end of a prompt() have dropped it,  *)
(* and then the caller it was asked for is still at work and forgets it at *)
(* its own end.  What one asked for the Session is in force if it was      *)
(* never replaced.                                                         *)
Restrictions(kinds) == [kind : kinds, names : ToolSets]
Wishes == [kind : {"run"}, names : ToolSets, for : Callers \union {"next"}]

PluginTyped ==
  /\ overrides \in [Plugins -> {None} \union Restrictions({"run", "session"})]
  /\ saved \in [Plugins -> {None} \union Restrictions({"session"})]
  /\ wanted \in [Plugins -> {None, Replaced} \union Wishes]

InForce(p) == overrides[p] # None /\ overrides[p].names = wanted[p].names /\ overrides[p].kind = "run"

WishKept(p) ==
  wanted[p].kind = "run" =>
    /\ SomebodyWorks => wanted[p].for \in Callers /\ pc[wanted[p].for] \in Working
    /\ InForce(p) \/ ((Underway => overlap) /\ SomebodyWorks)

SessionKept(p) == (wanted[p] = None /\ saved[p] # None) => overrides[p] = saved[p]

PluginInv == PluginTyped /\ \A p \in Plugins : WishKept(p) /\ SessionKept(p)

IInv == CallersInv /\ GovernInv /\ PluginInv

-----------------------------------------------------------------------------
(* The callers' part is left alone by whatever does not move a caller and  *)
(* does not take the Lifecycle in or out of a running state.               *)
LEMMA CallersStay ==
  ASSUME CallersInv, UNCHANGED <<pc, busy, overlap, started>>, Underway' => Underway,
         \/ status' \in RunningStates <=> status \in RunningStates
         \/ ~Underway /\ status' \notin RunningStates
  PROVE  CallersInv'
  BY DEF CallersInv

(* The Plugins' part is left alone by what touches neither them nor the    *)
(* callers.                                                                *)
LEMMA PluginsStay ==
  ASSUME PluginInv, UNCHANGED <<pc, overlap, overrides, saved, wanted>>, Underway' => Underway
  PROVE  PluginInv'
  BY DEF PluginInv, PluginTyped, WishKept, SessionKept, InForce, SomebodyWorks

(* What is active lies within the ceiling and within every restriction.    *)
LEMMA ActiveFacts ==
  ASSUME NEW c \in ToolSets, NEW over
  PROVE  ActiveWith(c, over) \in SUBSET c
  BY DEF ActiveWith, ToolSets

(* The Run's part under operations on the Tools and by the host.           *)
LEMMA GovernKeeps ==
  ASSUME GovernInv, UNCHANGED <<busy, run, begun, assembly, policies, child, last>>,
         overlap' = overlap \/ ~IsRunning,
         engine' \in {None, engine}, agentTools' \in SUBSET ceiling', ceiling' \in ToolSets,
         ~IsRunning \/ ceiling' = ceiling
  PROVE  GovernInv'
<1>1. GovernTyped'
  BY DEF GovernInv, GovernTyped
<1>2. RunGoverned'
  BY DEF GovernInv, RunGoverned, IsRunning
<1>3. ChildGoverned'
  BY DEF GovernInv, ChildGoverned, ChildRuns, IsRunning
<1>4. CallGoverned'
  BY DEF GovernInv, CallGoverned, IsRunning
<1> QED
  BY <1>1, <1>2, <1>3, <1>4 DEF GovernInv

(* A Plugin sets or lifts its restriction.                                 *)
LEMMA PluginSteps ==
  ASSUME IInv, UNCHANGED fixed, PluginStep
  PROVE  IInv'
<1>0. PICK p \in Plugins :
        \/ ClearActive(p)
        \/ \E names \in {{"read"}, {"read", "spawn"}}, kind \in {"run", "session"} : SetActive(p, names, kind)
  BY DEF PluginStep
<1>1. PICK over : /\ SetOverrides(over) /\ over = [overrides EXCEPT ![p] = over[p]]
                  /\ UNCHANGED <<runVars, policyVars, status, ceiling, child, last>>
  <2>1. CASE ClearActive(p)
    <3>1. [overrides EXCEPT ![p] = None][p] = None
      BY DEF IInv, PluginInv, PluginTyped
    <3> QED
      BY <2>1, <3>1 DEF ClearActive
  <2>2. ASSUME NEW names, NEW kind, SetActive(p, names, kind)
        PROVE  \E over : /\ SetOverrides(over) /\ over = [overrides EXCEPT ![p] = over[p]]
                         /\ UNCHANGED <<runVars, policyVars, status, ceiling, child, last>>
    <3>1. [overrides EXCEPT ![p] = Restriction(names, kind)][p] = Restriction(names, kind)
      BY DEF IInv, PluginInv, PluginTyped
    <3> QED
      BY <2>2, <3>1 DEF SetActive
  <2> QED
    BY <1>0, <2>1, <2>2
<1>2. CallersInv'
  BY <1>1, CallersStay DEF IInv, runVars, Underway, IsRunning
<1>3. GovernInv'
  <2>1. ceiling \in ToolSets /\ agentTools' \in SUBSET ceiling
    BY <1>1, ActiveFacts DEF IInv, GovernInv, GovernTyped, SetOverrides
  <2> QED
    BY <1>1, <2>1, GovernKeeps DEF IInv, runVars, policyVars, fixed
<1>4. UNCHANGED <<pc, overlap>> /\ Underway' = Underway
  BY <1>1 DEF runVars, Underway, IsRunning
<1>5. PluginInv'
  <2>1. CASE ClearActive(p)
    <3>1. /\ PluginTyped' /\ wanted'[p] = None /\ saved'[p] = None
          /\ \A q \in Plugins \ {p} : wanted'[q] = wanted[q] /\ overrides'[q] = overrides[q] /\ saved'[q] = saved[q]
      BY <2>1 DEF ClearActive, SetOverrides, IInv, PluginInv, PluginTyped
    <3>2. None.kind # "run"
      BY DEF None
    <3> QED
      BY <1>4, <3>1, <3>2 DEF IInv, PluginInv, WishKept, SessionKept, InForce, SomebodyWorks
  <2>2. ASSUME NEW names \in {{"read"}, {"read", "spawn"}}, NEW kind \in {"run", "session"}, SetActive(p, names, kind)
        PROVE  PluginInv'
    <3> DEFINE wish == IF kind = "run" THEN [kind |-> "run", names |-> names, for |-> ForWhom] ELSE None
    <3>1. names \in ToolSets
      BY RuntimeAssumption DEF ToolSets
    <3>2. /\ ForWhom \in Callers \union {"next"}
          /\ SomebodyWorks => ForWhom \in Callers /\ pc[ForWhom] \in Working
      <4>1. CASE IsRunning
        <5>1. busy \in Callers /\ pc[busy] = "run"
          BY <4>1 DEF IInv, CallersInv, IsRunning
        <5> QED
          BY <4>1, <5>1 DEF ForWhom, Working
      <4>2. CASE ~IsRunning /\ \E c \in Callers : pc[c] \in {"tail", "compact"}
        <5> DEFINE chosen == CHOOSE c \in Callers : pc[c] \in {"tail", "compact"}
        <5>1. chosen \in Callers /\ pc[chosen] \in {"tail", "compact"}
          BY <4>2
        <5>2. ForWhom = chosen
          BY <4>2 DEF ForWhom
        <5> HIDE DEF chosen
        <5> QED
          BY <5>1, <5>2 DEF Working
      <4>3. CASE ~IsRunning /\ ~\E c \in Callers : pc[c] \in {"tail", "compact"}
        <5>1. ~SomebodyWorks
          BY <4>3, RuntimeAssumption DEF SomebodyWorks, Working, IInv, CallersInv, IsRunning
        <5> QED
          BY <4>3, <5>1 DEF ForWhom
      <4> QED
        BY <4>1, <4>2, <4>3
    <3>3. /\ wish \in {None} \union Wishes
          /\ kind = "run" => wish.kind = "run" /\ wish.names = names /\ wish.for = ForWhom /\ wish # None
          /\ kind # "run" => wish.kind # "run"
      BY <3>1, <3>2 DEF Wishes, None
    <3>4. /\ Restriction(names, kind) \in Restrictions({"run", "session"})
          /\ kind = "session" => Restriction(names, kind) \in Restrictions({"session"})
          /\ Restriction(names, kind).names = names /\ Restriction(names, kind).kind = kind
          /\ Restriction(names, kind) # None
      BY <3>1 DEF Restriction, Restrictions, None
    <3>5. wanted' = [wanted EXCEPT ![p] = wish] /\ overrides' = [overrides EXCEPT ![p] = Restriction(names, kind)]
      BY <2>2 DEF SetActive, SetOverrides
    <3> HIDE DEF wish
    <3>6. PluginTyped'
      BY <2>2, <3>3, <3>4, <3>5 DEF SetActive, IInv, PluginInv, PluginTyped
    <3>7. /\ wanted'[p] = wish /\ overrides'[p] = Restriction(names, kind)
          /\ \A q \in Plugins \ {p} : wanted'[q] = wanted[q] /\ overrides'[q] = overrides[q] /\ saved'[q] = saved[q]
          /\ kind = "session" => saved'[p] = Restriction(names, kind)
      BY <2>2, <3>5 DEF SetActive, IInv, PluginInv, PluginTyped
    <3>8. WishKept(p)'
      BY <1>4, <3>2, <3>3, <3>4, <3>7 DEF WishKept, InForce, SomebodyWorks
    <3>9. SessionKept(p)'
      BY <3>3, <3>7 DEF SessionKept
    <3>10. ASSUME NEW q \in Plugins, q # p PROVE WishKept(q)' /\ SessionKept(q)'
      BY <1>4, <3>7, <3>10 DEF IInv, PluginInv, WishKept, SessionKept, InForce, SomebodyWorks
    <3> QED
      BY <3>6, <3>8, <3>9, <3>10 DEF PluginInv
  <2> QED
    BY <1>0, <2>1, <2>2
<1> QED
  BY <1>2, <1>3, <1>5 DEF IInv

(* The host sets the ceiling, switches the leaf or resets.                 *)
LEMMA HostSteps ==
  ASSUME IInv, UNCHANGED fixed, HostStep
  PROVE  IInv'
<1>0. UNCHANGED runVars /\ UNCHANGED <<policies, child, last>> /\ ~IsRunning
  BY DEF HostStep, SwitchSessionLeaf, Reset, ConfigureToolCeiling, policyVars
<1>1. CallersInv'
  <2>1. status' = status \/ status' = "idle"
    BY DEF HostStep, SwitchSessionLeaf, Reset, ConfigureToolCeiling
  <2> QED
    BY <1>0, <2>1, CallersStay DEF IInv, runVars, RunningStates, Underway, IsRunning
<1>2. GovernInv'
  <2>0. ceiling \in ToolSets /\ Tools \in ToolSets /\ {"read"} \in ToolSets
    BY RuntimeAssumption DEF IInv, GovernInv, GovernTyped, ToolSets
  <2>1. CASE SwitchSessionLeaf \/ Reset
    <3>1. UNCHANGED ceiling /\ engine' \in {None, engine} /\ \E over : agentTools' = ActiveWith(ceiling, over)
      BY <2>1 DEF SwitchSessionLeaf, Reset, policyVars, SetOverrides
    <3>2. agentTools' \in SUBSET ceiling'
      BY <2>0, <3>1, ActiveFacts
    <3> QED
      BY <1>0, <2>0, <3>1, <3>2, GovernKeeps DEF IInv, runVars, fixed
  <2>2. ASSUME NEW c \in {Tools, {"read"}}, ConfigureToolCeiling(c) PROVE GovernInv'
    <3>1. ceiling' = c /\ c \in ToolSets /\ agentTools' \in SUBSET ceiling' /\ UNCHANGED engine
      BY <2>0, <2>2, ActiveFacts DEF ConfigureToolCeiling, policyVars
    <3> QED
      BY <1>0, <3>1, GovernKeeps DEF IInv, runVars, fixed
  <2> QED
    BY <2>1, <2>2 DEF HostStep
<1>3. PluginInv'
  <2>1. CASE \E c \in {Tools, {"read"}} : ConfigureToolCeiling(c)
    BY <1>0, <2>1, PluginsStay DEF ConfigureToolCeiling, IInv, runVars, Underway, IsRunning
  <2>2. CASE Reset \/ SwitchSessionLeaf
    <3>1. PICK kept \in {saved, DropAll(saved)} : saved' = kept /\ overrides' = kept /\ wanted' = DropAll(wanted)
      <4>1. DropAll(overrides) = DropAll(saved)
        BY DEF DropAll
      <4> QED
        BY <2>2, <4>1 DEF Reset, SwitchSessionLeaf, SetOverrides
    <3>2. kept \in [Plugins -> {None} \union Restrictions({"session"})]
      BY <3>1 DEF DropAll, IInv, PluginInv, PluginTyped
    <3>3. Restrictions({"session"}) \subseteq Restrictions({"run", "session"})
      BY DEF Restrictions
    <3>4. PluginTyped'
      BY <3>1, <3>2, <3>3 DEF PluginTyped, DropAll
    <3>5. ASSUME NEW p \in Plugins PROVE wanted'[p].kind # "run" /\ overrides'[p] = saved'[p]
      BY <3>1 DEF DropAll, None
    <3> QED
      BY <3>4, <3>5 DEF PluginInv, WishKept, SessionKept
  <2> QED
    BY <2>1, <2>2 DEF HostStep
<1> QED
  BY <1>1, <1>2, <1>3 DEF IInv

(* The registry of Policies and the approvals change while nobody runs.    *)
LEMMA PolicySteps ==
  ASSUME IInv, UNCHANGED fixed, PolicyStep
  PROVE  IInv'
<1>1. /\ UNCHANGED <<runVars, toolVars, engine, status, child, last>> /\ policies' \in PolicySets
      /\ ~IsRunning \/ policies' = policies
  BY DEF PolicyStep, RegisterPolicy, ReplacePolicy, AddApproval, MayChangePolicies, IInv, GovernInv,
         GovernTyped, PolicySets
<1>2. CallersInv'
  BY <1>1, CallersStay DEF IInv, runVars, Underway, IsRunning
<1>3. PluginInv'
  BY <1>1, PluginsStay DEF IInv, runVars, toolVars, Underway, IsRunning
<1>4. GovernInv'
  <2>1. UNCHANGED <<busy, run, begun, overlap, assembly, ceiling, agentTools>>
    BY <1>1 DEF runVars, toolVars, fixed
  <2>2. GovernTyped'
    BY <1>1, <2>1 DEF IInv, GovernInv, GovernTyped
  <2>3. RunGoverned' /\ ChildGoverned' /\ CallGoverned'
    BY <1>1, <2>1 DEF IInv, GovernInv, RunGoverned, ChildGoverned, CallGoverned, ChildRuns, IsRunning
  <2> QED
    BY <2>2, <2>3 DEF GovernInv
<1> QED
  BY <1>2, <1>3, <1>4 DEF IInv

(* While a Run goes on, those who judge are the Policies of its start.     *)
LEMMA JudgesFacts ==
  ASSUME GovernInv, IsRunning
  PROVE  Judges = begun /\ begun \in PolicySets
  BY DEF GovernInv, RunGoverned, GovernTyped, Judges

(* The Run's part when the Run moves on and perhaps executes a Tool call.  *)
LEMMA RunMoves ==
  ASSUME GovernInv, IsRunning,
         UNCHANGED <<busy, begun, overlap, policies, engine, assembly, ceiling, agentTools, child>>,
         ~ChildRuns \/ ~child.attached \/ run'.at = "spawn",
         run' \in PlainRun \union Confirming, run'.tools = run.tools,
         run'.at = "confirm" => run'.judges = begun,
         \/ last' = last
         \/ /\ last' \in Call /\ last'.kind = "run"
            /\ last'.judges = begun /\ last'.tool \in run.tools
  PROVE  GovernInv'
<1>1. GovernTyped'
  BY DEF GovernInv, GovernTyped
<1>2. RunGoverned'
  BY DEF GovernInv, RunGoverned, IsRunning
<1>3. ChildGoverned'
  BY DEF GovernInv, ChildGoverned, ChildRuns, IsRunning
<1>4. CallGoverned'
  BY DEF GovernInv, CallGoverned, RunGoverned, IsRunning
<1> QED
  BY <1>1, <1>2, <1>3, <1>4 DEF GovernInv

(* An abort, a Tool call and the answer to a confirmation.                 *)
LEMMA RunSteps ==
  ASSUME IInv, UNCHANGED fixed, RunStep
  PROVE  IInv'
<1>0. /\ UNCHANGED <<pc, outcome, busy, started, begun, overlap, toolVars, policyVars, child>> /\ IsRunning
  BY DEF RunStep, Abort, CallTool, Answer
<1>a. Underway' => Underway
  BY <1>0 DEF RunStep, Abort, CallTool, Answer, Underway, IsRunning
<1>1. CallersInv'
  <2>1. status' \in RunningStates <=> status \in RunningStates
    BY DEF RunStep, Abort, CallTool, Answer, AbortStatus, Resumed, RunningStates
  <2> QED
    BY <1>0, <1>a, <2>1, CallersStay DEF IInv
<1>2. PluginInv'
  BY <1>0, <1>a, PluginsStay DEF IInv, toolVars
<1>3. GovernInv'
  <2>0. /\ run \in PlainRun \union Confirming /\ GovernInv /\ (ChildRuns /\ child.attached => run.at = "spawn")
        /\ UNCHANGED <<busy, begun, overlap, policies, engine, assembly, ceiling, agentTools, child>>
    BY <1>0 DEF IInv, GovernInv, GovernTyped, ChildGoverned, toolVars, policyVars, fixed
  <2>1. CASE Abort
    <3>1. /\ run' \in PlainRun \union Confirming /\ run'.tools = run.tools /\ run'.at = run.at
          /\ run'.at = "confirm" => run'.judges = run.judges
      BY <2>0, <2>1 DEF Abort, PlainRun, Confirming
    <3>2. run.at = "confirm" => run.judges = begun
      BY <1>0, <2>0 DEF GovernInv, RunGoverned
    <3> QED
      BY <1>0, <2>0, <2>1, <3>1, <3>2, RunMoves DEF Abort
  <2>2. ASSUME NEW t \in Tools, CallTool(t) PROVE GovernInv'
    <3>1. run.at = "loop" /\ run.tools \in ToolSets /\ Judges = begun /\ begun \in PolicySets
      BY <1>0, <2>0, <2>2, JudgesFacts DEF CallTool, PlainRun, Confirming
    <3>2. CASE UNCHANGED run /\ t \in run.tools /\ last' = Executed(t, Judges, "run")
      <4>1. last' \in Call /\ last'.kind = "run" /\ last'.judges = begun /\ last'.tool \in run.tools
        BY <2>2, <3>1, <3>2 DEF Executed, Call
      <4> QED
        BY <1>0, <2>0, <3>1, <3>2, <4>1, RunMoves
    <3>3. CASE /\ run' = [at |-> "confirm", tools |-> run.tools, aborted |-> FALSE,
                          tool |-> t, judges |-> Judges, managed |-> status = "running"]
               /\ UNCHANGED last
      <4>1. (status = "running") \in BOOLEAN
        OBVIOUS
      <4>2. run' \in Confirming /\ run'.tools = run.tools /\ run'.judges = begun
        BY <2>2, <3>1, <3>3, <4>1 DEF Confirming
      <4> QED
        BY <1>0, <2>0, <3>1, <3>3, <4>2, RunMoves
    <3> QED
      BY <2>2, <3>2, <3>3 DEF CallTool
  <2>3. ASSUME NEW reply \in {"approve", "deny", "cancelled"}, Answer(reply) PROVE GovernInv'
    <3>1. run \in Confirming /\ run.judges = begun /\ run.at = "confirm"
      BY <1>0, <2>0, <2>3 DEF Answer, PlainRun, GovernInv, RunGoverned
    <3>2. run' \in PlainRun /\ run'.tools = run.tools /\ run'.at # "confirm"
      <4>1. BackToLoop \in PlainRun /\ BackToLoop.tools = run.tools /\ BackToLoop.at = "loop"
        BY <3>1 DEF BackToLoop, Confirming, PlainRun
      <4>2. run' = [BackToLoop EXCEPT !.aborted = @ \/ reply = "cancelled", !.at = IF ResumeRaises THEN "failing" ELSE @]
        BY <2>3 DEF Answer
      <4> QED
        BY <4>1, <4>2 DEF PlainRun
    <3>3. CASE last' = last
      BY <1>0, <2>0, <3>1, <3>2, <3>3, RunMoves
    <3>4. CASE run.tool \in run.tools /\ last' = Executed(run.tool, run.judges, "run")
      <4>1. last' \in Call /\ last'.kind = "run" /\ last'.judges = begun /\ last'.tool \in run.tools
        BY <3>1, <3>4 DEF Executed, Call, Confirming
      <4> QED
        BY <1>0, <2>0, <3>1, <3>2, <4>1, RunMoves
    <3> QED
      BY <2>3, <3>3, <3>4 DEF Answer
  <2> QED
    BY <2>1, <2>2, <2>3 DEF RunStep
<1> QED
  BY <1>1, <1>2, <1>3 DEF IInv

(* A SubAgent is spawned, calls Tools, is aborted, ends or is given up.    *)
LEMMA ChildSteps ==
  ASSUME IInv, UNCHANGED fixed, ChildStep
  PROVE  IInv'
<1>0. UNCHANGED <<pc, busy, started, begun, overlap, toolVars, policyVars, status>>
  BY DEF ChildStep, SpawnSubagent, ChildCalls, PropagateAbort, ChildEnds, ToolTimeout, runVars
<1>a. Underway' => Underway
  <2>1. (ChildRuns /\ child.attached) => run.at = "spawn"
    BY DEF IInv, GovernInv, ChildGoverned
  <2> QED
    BY <1>0, <2>1 DEF ChildStep, SpawnSubagent, ChildCalls, PropagateAbort, ChildEnds, ToolTimeout, runVars,
                      Underway, IsRunning
<1>1. CallersInv'
  BY <1>0, <1>a, CallersStay DEF IInv
<1>2. PluginInv'
  BY <1>0, <1>a, PluginsStay DEF IInv, toolVars
<1>3. GovernInv'
  <2>0. /\ UNCHANGED <<busy, begun, overlap, policies, engine, assembly, ceiling, agentTools>> /\ GovernInv /\ GovernTyped
        /\ run \in PlainRun \union Confirming
    BY <1>0 DEF IInv, GovernInv, GovernTyped, toolVars, policyVars, fixed
  <2>1. ASSUME NEW names \in {{"read"}, Tools \ {"spawn"}}, SpawnSubagent(names) PROVE GovernInv'
    <3>1. /\ IsRunning /\ run.at = "loop" /\ names \in ToolSets /\ names \subseteq assembly /\ "spawn" \in run.tools
          /\ Judges = begun /\ policies = begun /\ begun \in PolicySets /\ busy \in Callers
      <4>1. names \in ToolSets
        BY RuntimeAssumption DEF ToolSets
      <4> QED
        BY <2>0, <2>1, <4>1, JudgesFacts
           DEF SpawnSubagent, Resolvable, IInv, CallersInv, IsRunning, GovernInv, RunGoverned
    <3>2. /\ child' \in Child /\ child'.tools = names /\ child'.policies = begun /\ child'.attached /\ ~child'.aborted
          /\ child'.parent = busy /\ child'.deadline = IF started = Nobody THEN "full" ELSE "left"
      BY <2>1, <3>1 DEF SpawnSubagent, Child
    <3>a. ~overlap => started # Nobody
      BY <2>1, <3>1, RuntimeAssumption DEF IInv, CallersInv, Underway
    <3>3. run' \in PlainRun /\ run'.at = "spawn" /\ run'.tools = run.tools
      BY <2>0, <2>1, <3>1 DEF SpawnSubagent, PlainRun, Confirming
    <3>4. last' \in Call /\ last'.kind = "run" /\ last'.judges = begun /\ last'.tool = "spawn"
      BY <2>1, <3>1, RuntimeAssumption DEF SpawnSubagent, Executed, Call
    <3>5. GovernTyped'
      BY <2>0, <3>2, <3>3, <3>4 DEF GovernTyped
    <3>6. RunGoverned'
      BY <2>0, <3>1, <3>3 DEF GovernInv, RunGoverned, IsRunning
    <3>7. ChildGoverned'
      BY <2>0, <3>1, <3>2, <3>a, <3>3 DEF ChildGoverned, IsRunning
    <3>8. CallGoverned'
      BY <2>0, <3>1, <3>4 DEF CallGoverned, GovernInv, RunGoverned, IsRunning
    <3> QED
      BY <3>5, <3>6, <3>7, <3>8 DEF GovernInv
  <2>2. ASSUME NEW t \in Tools, ChildRuns, ChildCalls(t) PROVE GovernInv'
    <3>1. UNCHANGED <<run, child>> /\ last' = Executed(t, child.policies, "child") /\ t \in child.tools /\ ~child.aborted
      BY <2>2 DEF ChildCalls, runVars
    <3>2. child.policies = begun /\ t \in assembly /\ begun \in PolicySets
      BY <2>0, <2>2, <3>1 DEF GovernInv, ChildGoverned, GovernTyped
    <3>3. last' \in Call /\ last'.kind = "child" /\ last'.judges = begun /\ last'.tool = t
      BY <2>2, <3>1, <3>2 DEF Executed, Call
    <3>4. GovernTyped'
      BY <2>0, <3>1, <3>3 DEF GovernTyped
    <3>5. RunGoverned' /\ ChildGoverned'
      BY <2>0, <3>1 DEF GovernInv, RunGoverned, ChildGoverned, ChildRuns, IsRunning
    <3>6. CallGoverned'
      BY <2>0, <3>2, <3>3 DEF CallGoverned
    <3> QED
      BY <3>4, <3>5, <3>6 DEF GovernInv
  <2>3. CASE PropagateAbort \/ ChildEnds \/ ToolTimeout
    <3>1. child \in Child /\ ChildRuns /\ UNCHANGED last
      BY <2>0, <2>3 DEF PropagateAbort, ChildEnds, ToolTimeout, Signalled, ChildRuns, NoChild, GovernTyped
    <3>2. \/ child' = NoChild
          \/ /\ child' \in Child /\ child'.aborted /\ child'.tools = child.tools /\ child'.policies = child.policies
             /\ child'.parent = child.parent /\ child'.deadline = child.deadline
             /\ child'.attached => child.attached /\ UNCHANGED run
      BY <2>3, <3>1 DEF PropagateAbort, ChildEnds, ToolTimeout, Child, runVars
    <3>3. run' \in PlainRun \union Confirming /\ run'.tools = run.tools
      <4>1. run.tools \in ToolSets /\ run.aborted \in BOOLEAN
        BY <2>0 DEF PlainRun, Confirming
      <4>2. BackToLoop \in PlainRun /\ BackToLoop.tools = run.tools
        BY <4>1 DEF BackToLoop, PlainRun
      <4> QED
        BY <2>0, <2>3, <4>2 DEF PropagateAbort, ChildEnds, ToolTimeout, runVars
    <3>4. run' = run \/ run'.at = "loop"
      BY <2>3 DEF PropagateAbort, ChildEnds, ToolTimeout, runVars, BackToLoop
    <3>5. GovernTyped'
      BY <2>0, <3>1, <3>2, <3>3 DEF GovernTyped
    <3>6. RunGoverned'
      BY <2>0, <3>3, <3>4 DEF GovernInv, RunGoverned, IsRunning
    <3>7. ChildGoverned'
      BY <2>0, <3>1, <3>2 DEF GovernInv, ChildGoverned, ChildRuns, IsRunning, NoChild
    <3>8. CallGoverned'
      BY <2>0, <3>1 DEF GovernInv, CallGoverned, IsRunning
    <3> QED
      BY <3>5, <3>6, <3>7, <3>8 DEF GovernInv
  <2> QED
    BY <2>1, <2>2, <2>3 DEF ChildStep
<1> QED
  BY <1>1, <1>2, <1>3 DEF IInv

-----------------------------------------------------------------------------
(* prompt() waits before start(), or start() refuses it.                   *)
LEMMA CallerWaits ==
  ASSUME IInv, NEW c \in Callers, pc[c] \notin Working, NEW to \in {"rest", "prelude"},
         pc' = [pc EXCEPT ![c] = to], UNCHANGED <<busy, run, overlap, status, started, overrides, saved, wanted>>
  PROVE  CallersInv' /\ PluginInv'
<1>1. pc'[c] = to /\ \A d \in Callers \ {c} : pc'[d] = pc[d]
  BY DEF IInv, CallersInv
<1>2. \A d \in Callers : pc'[d] \in Working <=> pc[d] \in Working
  BY <1>1 DEF Working
<1>3. \A d \in Callers : /\ pc'[d] = "run" <=> pc[d] = "run"
                         /\ pc'[d] = "tail" <=> pc[d] = "tail"
  BY <1>1 DEF Working
<1>4. CallersInv'
  <2>1. pc' \in [Callers -> {"rest", "prelude"} \union Working]
    BY DEF IInv, CallersInv
  <2> QED
    BY <1>2, <1>3, <2>1 DEF IInv, CallersInv, Underway, IsRunning
<1>5. SomebodyWorks' <=> SomebodyWorks
  BY <1>2 DEF SomebodyWorks
<1>6. PluginTyped'
  BY DEF IInv, PluginInv, PluginTyped
<1>7. ASSUME NEW p \in Plugins PROVE WishKept(p)' /\ SessionKept(p)'
  <2>1. Underway' = Underway
    BY DEF Underway, IsRunning
  <2> QED
    BY <1>2, <1>5, <2>1 DEF IInv, PluginInv, WishKept, SessionKept, InForce
<1> QED
  BY <1>4, <1>6, <1>7 DEF PluginInv

(* The Tools are refreshed and pending events are emitted.                 *)
LEMMA PromptStep ==
  ASSUME IInv, UNCHANGED fixed, NEW c \in Callers, Prompt(c)
  PROVE  IInv'
<1>1. CallersInv' /\ PluginInv'
  BY CallerWaits DEF Prompt, Working
<1>2. ceiling \in ToolSets /\ agentTools' \in SUBSET ceiling
  BY ActiveFacts DEF Prompt, Active, IInv, GovernInv, GovernTyped
<1>3. GovernInv'
  BY <1>2, GovernKeeps DEF Prompt, IInv, policyVars, fixed
<1> QED
  BY <1>1, <1>3 DEF IInv

(* start() when the Agent does not begin: the engine is replaced all the   *)
(* same, by one with the registered Policies.                              *)
LEMMA EngineReplaced ==
  ASSUME GovernInv, engine' = [kind |-> "run", policies |-> policies],
         UNCHANGED <<busy, run, begun, overlap, assembly, ceiling, agentTools, policies, child, last>>
  PROVE  GovernInv'
<1>1. engine' \in Engine /\ engine'.policies = policies
  BY DEF GovernInv, GovernTyped, Engine
<1>2. GovernTyped'
  BY <1>1 DEF GovernInv, GovernTyped
<1>3. RunGoverned' /\ ChildGoverned' /\ CallGoverned'
  BY <1>1 DEF GovernInv, RunGoverned, ChildGoverned, CallGoverned, ChildRuns, IsRunning
<1> QED
  BY <1>2, <1>3 DEF GovernInv

(* The Agent refuses: that takes overlapping prompts, or a Run that is     *)
(* over.                                                                   *)
LEMMA RefusedStep ==
  ASSUME IInv, UNCHANGED fixed, NEW c \in Callers, StartPrompt(c), StartRefused(c) \/ AgentRefuses(c)
  PROVE  IInv'
<1>1. GovernInv'
  BY EngineReplaced DEF StartPrompt, StartRefused, AgentRefuses, IInv, toolVars, fixed
<1>2. CASE StartRefused(c)
  BY <1>1, <1>2, CallerWaits DEF StartPrompt, StartRefused, Working, IInv, toolVars
<1>3. CASE AgentRefuses(c)
  <2>1. /\ Underway => overlap
        /\ IsRunning /\ busy # c /\ UNCHANGED <<busy, run, overlap, overrides, saved, wanted>> /\ status' = "running"
    BY <1>3 DEF AgentRefuses, StartPrompt, IInv, CallersInv, IsRunning, toolVars
  <2>a. Underway' = Underway
    BY <2>1 DEF Underway, IsRunning
  <2>2. /\ pc' \in [Callers -> {"rest", "prelude"} \union Working] /\ pc'[c] = "tail"
        /\ \A d \in Callers \ {c} : pc'[d] = pc[d]
    BY <1>3 DEF AgentRefuses, IInv, CallersInv, Working
  <2>3. CallersInv'
    BY <2>1, <2>a, <2>2 DEF IInv, CallersInv
  <2>4. PluginInv'
    <3>1. SomebodyWorks /\ SomebodyWorks' /\ \A d \in Callers : pc[d] \in Working => pc'[d] \in Working
      BY <2>1, <2>2 DEF SomebodyWorks, Working, IInv, CallersInv, IsRunning
    <3>2. PluginTyped'
      BY <2>1 DEF IInv, PluginInv, PluginTyped
    <3>3. ASSUME NEW p \in Plugins PROVE WishKept(p)' /\ SessionKept(p)'
      BY <2>1, <2>a, <3>1 DEF IInv, PluginInv, WishKept, SessionKept, InForce
    <3> QED
      BY <3>2, <3>3 DEF PluginInv
  <2> QED
    BY <1>1, <2>3, <2>4 DEF IInv
<1> QED
  BY <1>2, <1>3

(* The Run begins: what the Plugins asked for the next Run is for this one.*)
LEMMA BeginStep ==
  ASSUME IInv, UNCHANGED fixed, NEW c \in Callers, StartPrompt(c), RunBegins(c)
  PROVE  IInv'
<1>1. /\ ~IsRunning /\ busy' = c /\ status' = "running" /\ started' = c /\ pc[c] = "prelude"
      /\ overlap' = (overlap \/ \E d \in Callers : InTail(d))
      /\ UNCHANGED <<overrides, saved, ceiling, agentTools, assembly, policies, child>>
      /\ begun' = policies /\ last' = None /\ engine' = [kind |-> "run", policies |-> policies]
      /\ run' = [at |-> "loop", tools |-> agentTools, aborted |-> FALSE]
  BY DEF RunBegins, StartPrompt, fixed
<1>2. /\ pc' \in [Callers -> {"rest", "prelude"} \union Working] /\ pc'[c] = "run"
      /\ \A d \in Callers \ {c} : pc'[d] = pc[d] /\ pc[d] # "run"
  BY <1>1, RuntimeAssumption DEF RunBegins, IInv, CallersInv, Working, IsRunning
<1>3. IsRunning'
  BY <1>1, RuntimeAssumption DEF IsRunning
<1>4. CallersInv'
  <2>1. ~overlap' => \A d \in Callers : pc'[d] \in Working => d = c
    BY <1>1, <1>2 DEF InTail, Working
  <2>2. overlap' \in BOOLEAN
    BY <1>1 DEF IInv, CallersInv
  <2>3. \A d \in Callers : pc'[d] = "run" <=> busy' = d
    BY <1>1, <1>2
  <2> QED
    BY <1>1, <1>2, <2>1, <2>2, <2>3 DEF CallersInv, RunningStates
<1>5. GovernInv'
  <2>1. engine' \in Engine /\ engine'.policies = policies
    BY <1>1 DEF IInv, GovernInv, GovernTyped, Engine
  <2>2. run' \in PlainRun /\ run'.tools = agentTools /\ run'.at = "loop"
    <3>1. agentTools \in ToolSets
      BY DEF IInv, GovernInv, GovernTyped, ToolSets
    <3> QED
      BY <1>1, <3>1 DEF PlainRun
  <2>3. GovernTyped'
    BY <1>1, <2>1, <2>2 DEF IInv, GovernInv, GovernTyped
  <2>4. RunGoverned'
    BY <1>1, <2>1, <2>2 DEF RunGoverned, IInv, GovernInv, GovernTyped
  <2>5. ChildGoverned'
    BY <1>1 DEF IInv, GovernInv, ChildGoverned, ChildRuns
  <2>6. CallGoverned'
    BY <1>1 DEF CallGoverned
  <2> QED
    BY <2>3, <2>4, <2>5, <2>6 DEF GovernInv
<1>6. PluginInv'
  <2>1. SomebodyWorks'
    BY <1>2 DEF SomebodyWorks, Working
  <2>2. ASSUME NEW p \in Plugins
        PROVE  /\ wanted'[p] \in {None, Replaced} \union Wishes
               /\ wanted[p].kind = "run" => /\ wanted'[p].kind = "run" /\ wanted'[p].names = wanted[p].names
                                            /\ wanted'[p].for = c /\ wanted'[p] # None
               /\ wanted[p].kind # "run" => wanted'[p] = wanted[p]
    <3>1. wanted'[p] = IF wanted[p].kind = "run" THEN [wanted[p] EXCEPT !.for = c] ELSE wanted[p]
      BY DEF RunBegins
    <3>2. wanted[p] \in {None, Replaced} \union Wishes /\ None.kind # "run" /\ Replaced.kind # "run"
      BY DEF IInv, PluginInv, PluginTyped, None, Replaced
    <3>3. CASE wanted[p] \in Wishes
      BY <3>1, <3>3 DEF Wishes, None
    <3>4. CASE wanted[p] \notin Wishes
      BY <3>1, <3>2, <3>4
    <3> QED
      BY <3>3, <3>4
  <2>3. PluginTyped'
    <3>1. wanted' \in [Plugins -> {None, Replaced} \union Wishes]
      BY <2>2 DEF RunBegins
    <3> QED
      BY <1>1, <3>1 DEF IInv, PluginInv, PluginTyped
  <2>4. ASSUME NEW p \in Plugins PROVE WishKept(p)' /\ SessionKept(p)'
    <3>1. WishKept(p) /\ SessionKept(p)
      BY DEF IInv, PluginInv
    <3>2. SomebodyWorks => overlap'
      BY <1>1, <1>2 DEF SomebodyWorks, Working, InTail
    <3>3. wanted'[p].kind = "run" => wanted[p].kind = "run"
      BY <2>2
    <3>4. wanted'[p].kind = "run" => InForce(p)' \/ overlap'
      BY <1>1, <2>2, <3>1, <3>2, <3>3 DEF WishKept, InForce
    <3>5. wanted'[p].kind = "run" => wanted'[p].for \in Callers /\ pc'[wanted'[p].for] \in Working
      BY <1>2, <2>2, <3>3 DEF Working
    <3>6. WishKept(p)'
      BY <2>1, <3>4, <3>5 DEF WishKept
    <3>7. wanted'[p] = None => wanted[p] = None
      BY <2>2
    <3>8. SessionKept(p)'
      BY <1>1, <3>1, <3>7 DEF SessionKept
    <3> QED
      BY <3>6, <3>8
  <2> QED
    BY <2>3, <2>4 DEF PluginInv
<1> QED
  BY <1>4, <1>5, <1>6 DEF IInv

(* A caller stays at work: the Agent is free, or it goes on to compaction. *)
LEMMA CallerGoesOn ==
  ASSUME IInv, NEW c \in Callers, pc[c] \in Working, NEW to \in {"tail", "compact"},
         pc' = [pc EXCEPT ![c] = to], UNCHANGED <<overlap, started, overrides, saved, wanted>>,
         \/ busy = c /\ to = "tail" /\ busy' = Nobody
         \/ busy # c /\ busy' = busy /\ run' = run,
         to = "compact" => status' \notin RunningStates
  PROVE  CallersInv' /\ PluginInv'
<1>1. /\ pc' \in [Callers -> {"rest", "prelude"} \union Working] /\ pc'[c] = to
      /\ \A d \in Callers \ {c} : pc'[d] = pc[d]
  BY DEF IInv, CallersInv, Working
<1>2. \A d \in Callers : pc'[d] \in Working <=> pc[d] \in Working
  BY <1>1 DEF Working
<1>3. CallersInv'
  <2>1. \A d \in Callers : pc'[d] = "run" <=> busy' = d
    BY <1>1, RuntimeAssumption DEF IInv, CallersInv
  <2>2. ~(Underway' /\ ~overlap')
    <3>1. Underway' => Underway /\ busy # c
      BY DEF Underway, IsRunning
    <3> QED
      BY <3>1 DEF IInv, CallersInv
  <2>3. status' \in RunningStates => \E d \in Callers : pc'[d] \in {"run", "tail"}
    BY <1>1
  <2> QED
    BY <1>1, <1>2, <2>1, <2>2, <2>3 DEF IInv, CallersInv
<1>4. SomebodyWorks' <=> SomebodyWorks
  BY <1>2 DEF SomebodyWorks
<1>5. PluginTyped'
  BY DEF IInv, PluginInv, PluginTyped
<1>6. ASSUME NEW p \in Plugins PROVE WishKept(p)' /\ SessionKept(p)'
  <2>1. Underway' => Underway
    BY DEF Underway, IsRunning
  <2> QED
    BY <1>2, <1>4, <2>1 DEF IInv, PluginInv, WishKept, SessionKept, InForce
<1> QED
  BY <1>3, <1>5, <1>6 DEF PluginInv

(* The Run is over, and the Agent reports it.                              *)
LEMMA EndStep ==
  ASSUME IInv, UNCHANGED fixed, NEW c \in Callers, NEW how, AgentEnds(c, how)
  PROVE  IInv'
<1>1. /\ busy = c /\ pc[c] = "run" /\ IsRunning /\ run.at \in {"loop", "failing"}
      /\ run' = [at |-> "ending", tools |-> run.tools, aborted |-> run.aborted]
      /\ status' = status \/ status' = "aborted"
      /\ UNCHANGED <<pc, busy, started, begun, overlap, toolVars, policyVars, child, last, assembly>>
  BY RuntimeAssumption DEF AgentEnds, IInv, CallersInv, IsRunning, fixed
<1>2. ~Underway'
  BY <1>1 DEF Underway
<1>3. CallersInv'
  <2>1. status' \in RunningStates => \E d \in Callers : pc'[d] \in {"run", "tail"}
    BY <1>1
  <2> QED
    BY <1>1, <1>2, <2>1 DEF IInv, CallersInv
<1>4. PluginInv'
  BY <1>1, <1>2, PluginsStay DEF IInv, toolVars
<1>5. GovernInv'
  <2>1. run' \in PlainRun /\ run'.tools = run.tools /\ run'.at = "ending"
    <3>1. run.tools \in ToolSets /\ run.aborted \in BOOLEAN
      BY DEF IInv, GovernInv, GovernTyped, PlainRun, Confirming
    <3> QED
      BY <1>1, <3>1 DEF PlainRun
  <2>2. ~ChildRuns \/ ~child.attached
    BY <1>1 DEF IInv, GovernInv, ChildGoverned
  <2>3. /\ GovernInv /\ last' = last
        /\ UNCHANGED <<busy, begun, overlap, policies, engine, assembly, ceiling, agentTools, child>>
    BY <1>1 DEF IInv, toolVars, policyVars
  <2> QED
    BY <1>1, <2>1, <2>2, <2>3, RunMoves
<1> QED
  BY <1>3, <1>4, <1>5 DEF IInv

(* The Agent is free.                                                      *)
LEMMA FreeStep ==
  ASSUME IInv, UNCHANGED fixed, NEW c \in Callers, AgentFrees(c)
  PROVE  IInv'
<1>1. /\ busy = c /\ pc[c] = "run" /\ busy' = Nobody /\ run' = Idle /\ run.at = "ending"
      /\ UNCHANGED <<begun, overlap, assembly, ceiling, agentTools, policies, engine, child, last>>
  BY DEF AgentFrees, IInv, CallersInv, toolVars, policyVars, fixed
<1>2. CallersInv' /\ PluginInv'
  BY <1>1, CallerGoesOn DEF AgentFrees, toolVars, Working
<1>3. ~IsRunning'
  BY <1>1 DEF IsRunning
<1>4. GovernTyped'
  <2>1. Idle \in PlainRun
    BY DEF Idle, PlainRun, ToolSets
  <2> QED
    BY <1>1, <2>1 DEF IInv, GovernInv, GovernTyped
<1>5. ChildGoverned'
  BY <1>1 DEF IInv, GovernInv, ChildGoverned, ChildRuns
<1>6. RunGoverned' /\ CallGoverned'
  BY <1>1, <1>3 DEF IInv, GovernInv, RunGoverned, CallGoverned
<1> QED
  BY <1>2, <1>4, <1>5, <1>6 DEF IInv, GovernInv

(* prompt() returns: every restriction for a Run is dropped, and those     *)
(* asked for by another Run as well when prompts overlap.                  *)
LEMMA FinishStep ==
  ASSUME IInv, UNCHANGED fixed, NEW c \in Callers, pc[c] \in {"tail", "compact"}, Finish(c),
         UNCHANGED <<busy, run, begun, policies, ceiling, saved, child, last>>,
         \/ status' \notin RunningStates
         \/ pc[c] = "compact" /\ status' = status
  PROVE  IInv'
<1>1. /\ pc' \in [Callers -> {"rest", "prelude"} \union Working] /\ pc'[c] = "rest"
      /\ \A d \in Callers \ {c} : pc'[d] = pc[d]
  BY DEF Finish, IInv, CallersInv, Working
<1>2. overlap' = (overlap /\ \E d \in Callers \ {c} : pc[d] # "rest") /\ overlap' \in BOOLEAN
  BY DEF Finish, IInv, CallersInv
<1>3. /\ busy # c /\ Underway' = Underway /\ (Underway => overlap)
      /\ IsRunning => overlap' = overlap
  <2>1. busy # c /\ (IsRunning => busy \in Callers \ {c} /\ pc[busy] = "run")
    BY DEF IInv, CallersInv, IsRunning
  <2>2. Underway => overlap
    BY <2>1 DEF IInv, CallersInv, Working
  <2> QED
    BY <1>2, <2>1, <2>2 DEF Underway, IsRunning, IInv, CallersInv
<1>4. CallersInv'
  <2>1. \A d \in Callers : pc'[d] = "run" <=> busy' = d
    BY <1>1, <1>3 DEF IInv, CallersInv
  <2>2. Underway' => overlap'
    BY <1>3 DEF Underway
  <2>4. status' \in RunningStates => \E d \in Callers : pc'[d] \in {"run", "tail"}
    BY <1>1 DEF IInv, CallersInv
  <2>5. busy' \in Callers \union {Nobody}
    BY DEF IInv, CallersInv
  <2> QED
    BY <1>1, <1>2, <2>1, <2>2, <2>4, <2>5 DEF CallersInv
<1>5. GovernInv'
  <2>1. ceiling \in ToolSets /\ agentTools' \in SUBSET ceiling /\ engine' = None
    BY ActiveFacts DEF IInv, GovernInv, GovernTyped, Finish, SetOverrides
  <2> QED
    BY <1>3, <2>1, GovernKeeps DEF IInv, fixed
<1>6. PluginInv'
  <2>1. overrides' = DropRunScope(overrides) /\ wanted' = ForgetFor(c) /\ UNCHANGED saved
    BY DEF Finish, SetOverrides
  <2>2. PluginTyped'
    BY <2>1 DEF IInv, PluginInv, PluginTyped, DropRunScope, ForgetFor
  <2>3. ASSUME NEW p \in Plugins PROVE WishKept(p)' /\ SessionKept(p)'
    <3>1. /\ wanted'[p] = IF wanted[p].kind = "run" /\ wanted[p].for = c
                          THEN IF saved[p] = None THEN None ELSE Replaced
                          ELSE wanted[p]
          /\ overrides'[p] = (IF overrides[p].kind = "run" THEN None ELSE overrides[p]) /\ saved'[p] = saved[p]
      BY <2>1 DEF ForgetFor, DropRunScope
    <3>2. SomebodyWorks /\ WishKept(p) /\ SessionKept(p) /\ saved[p] \in {None} \union Restrictions({"session"})
      BY DEF SomebodyWorks, Working, IInv, PluginInv, PluginTyped
    <3>3. None.kind # "run" /\ Replaced.kind # "run" /\ Replaced # None
      BY DEF None, Replaced
    <3>4. ASSUME wanted'[p].kind = "run" PROVE WishKept(p)'
      <4>1. wanted'[p] = wanted[p] /\ wanted[p].kind = "run" /\ wanted[p].for # c
        BY <3>1, <3>3, <3>4
      <4>2. wanted[p].for \in Callers \ {c} /\ pc[wanted[p].for] \in Working
        BY <3>2, <4>1 DEF WishKept
      <4>3. Underway' => overlap'
        BY <1>3 DEF Underway
      <4>4. wanted'[p].for \in Callers /\ pc'[wanted'[p].for] \in Working /\ SomebodyWorks'
        BY <1>1, <4>1, <4>2 DEF SomebodyWorks
      <4> QED
        BY <4>3, <4>4 DEF WishKept
    <3>5. ASSUME wanted'[p] = None, saved'[p] # None PROVE overrides'[p] = saved'[p]
      <4>1. wanted[p] = None /\ saved[p] # None
        BY <3>1, <3>3, <3>5
      <4>2. overrides[p] = saved[p] /\ saved[p].kind = "session"
        BY <3>2, <4>1 DEF SessionKept, Restrictions
      <4> QED
        BY <3>1, <4>2
    <3> QED
      BY <3>4, <3>5 DEF WishKept, SessionKept
  <2> QED
    BY <2>2, <2>3 DEF PluginInv
<1> QED
  BY <1>4, <1>5, <1>6 DEF IInv

(* The tail of prompt(), with or without compaction.                       *)
LEMMA TailStep ==
  ASSUME IInv, UNCHANGED fixed, NEW c \in Callers, RunTail(c) \/ Compacted(c)
  PROVE  IInv'
<1>1. CASE Compacted(c)
  BY <1>1, FinishStep DEF Compacted
<1>2. CASE RunTail(c)
  <2>1. status' \notin RunningStates /\ pc[c] = "tail" /\ busy # c
    BY <1>2 DEF RunTail, EndStatus, RunningStates, IInv, CallersInv
  <2>2. CASE Finish(c)
    BY <1>2, <2>1, <2>2, FinishStep DEF RunTail
  <2>3. CASE /\ pc' = [pc EXCEPT ![c] = "compact"]
             /\ UNCHANGED <<outcome, started, engine, overlap, overrides, agentTools, wanted>>
    <3>1. CallersInv' /\ PluginInv'
      BY <1>2, <2>1, <2>3, CallerGoesOn DEF RunTail, Working
    <3>2. agentTools \in SUBSET ceiling /\ ceiling \in ToolSets
      BY DEF IInv, GovernInv, GovernTyped
    <3>3. GovernInv'
      BY <1>2, <2>3, <3>2, GovernKeeps DEF RunTail, IInv, fixed
    <3> QED
      BY <3>1, <3>3 DEF IInv
  <2> QED
    BY <1>2, <2>2, <2>3 DEF RunTail
<1> QED
  BY <1>1, <1>2

-----------------------------------------------------------------------------
(* Every reachable state satisfies the invariant.                          *)
THEOREM RuntimeInvariant == Spec => []IInv
<1>1. ASSUME Init PROVE IInv
  <2>1. \A c \in Callers : pc[c] = "rest"
    BY <1>1 DEF Init
  <2>2. CallersInv
    BY <1>1, <2>1, RuntimeAssumption DEF Init, CallersInv, Underway, IsRunning, Working, RunningStates
  <2>3. GovernInv
    <3>1. policies \in PolicySets /\ begun \in PolicySets
      BY <1>1, RuntimeAssumption DEF Init, PolicySets
    <3>2. assembly \in ToolSets /\ ceiling = assembly /\ agentTools = assembly
      BY <1>1, RuntimeAssumption DEF Init, ToolSets
    <3>3. run \in PlainRun /\ engine = None /\ child = NoChild /\ last = None /\ ~IsRunning /\ ~ChildRuns
      BY <1>1 DEF Init, Idle, PlainRun, ToolSets, IsRunning, ChildRuns, NoChild
    <3>4. GovernTyped
      BY <3>1, <3>2, <3>3 DEF GovernTyped
    <3> QED
      BY <3>3, <3>4 DEF GovernInv, RunGoverned, ChildGoverned, CallGoverned
  <2>4. PluginInv
    BY <1>1 DEF Init, PluginInv, PluginTyped, WishKept, SessionKept, None
  <2> QED
    BY <2>2, <2>3, <2>4 DEF IInv
<1>2. ASSUME IInv, [Next]_vars PROVE IInv'
  <2>1. CASE UNCHANGED vars
    <3>1. UNCHANGED <<fixed, runVars, toolVars, policyVars, status, child, last>>
      BY <2>1 DEF vars, fixed, runVars, toolVars, policyVars
    <3>2. CallersInv' /\ PluginInv'
      BY <1>2, <3>1, CallersStay, PluginsStay DEF IInv, runVars, toolVars, Underway, IsRunning
    <3>3. agentTools \in SUBSET ceiling /\ ceiling \in ToolSets
      BY <1>2 DEF IInv, GovernInv, GovernTyped
    <3>4. GovernInv'
      BY <1>2, <3>1, <3>3, GovernKeeps DEF IInv, runVars, toolVars, policyVars, fixed
    <3> QED
      BY <3>2, <3>4 DEF IInv
  <2>2. ASSUME UNCHANGED fixed, NEW c \in Callers, CallerStep(c) PROVE IInv'
    <3>1. CASE StartPrompt(c)
      BY <1>2, <2>2, <3>1, RefusedStep, BeginStep DEF StartPrompt
    <3> QED
      BY <1>2, <2>2, <3>1, PromptStep, TailStep, EndStep, FreeStep DEF CallerStep
  <2>3. CASE RunStep /\ UNCHANGED fixed
    BY <1>2, <2>3, RunSteps
  <2>4. CASE PolicyStep /\ UNCHANGED fixed
    BY <1>2, <2>4, PolicySteps
  <2>5. CASE (PluginStep \/ HostStep) /\ UNCHANGED fixed
    BY <1>2, <2>5, PluginSteps, HostSteps
  <2>6. CASE ChildStep /\ UNCHANGED fixed
    BY <1>2, <2>6, ChildSteps
  <2> QED
    BY <1>2, <2>1, <2>2, <2>3, <2>4, <2>5, <2>6 DEF Next
<1> QED
  BY <1>1, <1>2, PTL DEF Spec

(* Every Tool call that executes was judged by every Policy registered     *)
(* when its Run began, whatever prompts, tails, resets, reloads and        *)
(* SubAgents come in between.                                              *)
THEOREM CallsAreGoverned == Spec => []CallsGoverned
<1>1. IInv => CallsGoverned
  BY DEF IInv, GovernInv, CallGoverned, CallsGoverned
<1> QED
  BY <1>1, RuntimeInvariant, PTL

(* While a Run is underway what a Plugin restricted for it or for the      *)
(* Session holds, unless prompts overlap or it replaced the latter itself, *)
(* and no call leaves the ceiling.                                         *)
THEOREM ToolsStayWithin == Spec => []ToolsWithin
<1>1. ASSUME IInv PROVE ToolsWithin
  <2>1. ASSUME Underway, ~overlap, NEW p \in Plugins PROVE Restricted(p)
    <3>1. ASSUME wanted[p].kind = "run" PROVE Active \subseteq wanted[p].names
      <4>1. InForce(p)
        BY <1>1, <2>1, <3>1 DEF IInv, PluginInv, WishKept
      <4> QED
        BY <4>1 DEF InForce, Active, ActiveWith
    <3>2. ASSUME wanted[p] = None, saved[p] # None PROVE Active \subseteq saved[p].names
      <4>1. overrides[p] = saved[p]
        BY <1>1, <3>2 DEF IInv, PluginInv, SessionKept
      <4> QED
        BY <3>2, <4>1 DEF Active, ActiveWith
    <3> QED
      BY <3>1, <3>2 DEF Restricted
  <2> QED
    BY <1>1, <2>1 DEF IInv, GovernInv, CallGoverned, ToolsWithin
<1> QED
  BY <1>1, RuntimeInvariant, PTL

(* The Lifecycle says running while a Run is underway, unless prompts      *)
(* overlap, and never for good.                                            *)
THEOREM StatusIsTruthful == Spec => []StatusTruthful
<1>1. IInv => StatusTruthful
  BY DEF IInv, CallersInv, StatusTruthful
<1> QED
  BY <1>1, RuntimeInvariant, PTL

(* A SubAgent that has not been told to stop works for a Run that waits    *)
(* for it, and has no more time than that has left.                        *)
THEOREM ChildIsContained == Spec => []ChildContained
<1>1. IInv => ChildContained
  BY DEF IInv, GovernInv, ChildGoverned, ChildContained
<1> QED
  BY <1>1, RuntimeInvariant, PTL

(***************************************************************************)
(* SessionLog.                                                             *)
(***************************************************************************)
-----------------------------------------------------------------------------
(* Recursion up a tree.  A function that is defined at k from its value at *)
(* up[k] < k exists; what holds at 0 and passes from up[k] to k holds.     *)
LEMMA LeastOf ==
  ASSUME NEW S \in SUBSET Nat, S # {}
  PROVE  \E m \in S : \A x \in S : m <= x
<1>1. PICK m \in S : \A x \in S : <<x, m>> \notin OpToRel(<, Nat)
  BY WFMin, NatLessThanWellFounded, Zenon
<1>2. \A x \in S : ~(x < m)
  BY <1>1 DEF OpToRel
<1> QED BY <1>2

Upward(n, up) == n \in Nat /\ \A k \in 1 .. n : up[k] \in 0 .. k - 1

LEMMA UpInduction ==
  ASSUME NEW n, NEW up, Upward(n, up), NEW T, 0 \in T,
         \A k \in 1 .. n : up[k] \in T => k \in T
  PROVE  \A k \in 0 .. n : k \in T
<1> DEFINE U == {k \in 0 .. n : k \notin T}
<1> SUFFICES ASSUME U # {} PROVE FALSE
  OBVIOUS
<1>1. n \in Nat /\ U \in SUBSET Nat
  BY DEF Upward
<1>2. PICK m \in U : \A x \in U : m <= x
  BY <1>1, LeastOf
<1>3. m \in 1 .. n
  BY <1>1, <1>2
<1>4. up[m] \in 0 .. m - 1
  BY <1>3 DEF Upward
<1>5. up[m] \in 0 .. n /\ ~(m <= up[m])
  BY <1>1, <1>3, <1>4
<1>6. up[m] \in T
  BY <1>2, <1>5
<1> QED BY <1>2, <1>3, <1>6

Stepwise(f, n, up, base, step) ==
  \A k \in 0 .. n : f[k] = IF k = 0 THEN base ELSE step[<<f[up[k]], k>>]

LEMMA FoldExists ==
  ASSUME NEW n, NEW up, Upward(n, up), NEW V, NEW base \in V, NEW step,
         \A v \in V, k \in 1 .. n : step[<<v, k>>] \in V
  PROVE  \E f \in [0 .. n -> V] : Stepwise(f, n, up, base, step)
<1> DEFINE Fold(m) == \E f \in [0 .. m -> V] : Stepwise(f, m, up, base, step)
           T == {k \in Nat : k <= n => Fold(k)}
           down == [k \in 1 .. n |-> k - 1]
<1>0. n \in Nat
  BY DEF Upward
<1>1. Fold(0)
  <2>1. [i \in 0 .. 0 |-> base] \in [0 .. 0 -> V]
    OBVIOUS
  <2>2. Stepwise([i \in 0 .. 0 |-> base], 0, up, base, step)
    BY DEF Stepwise
  <2> QED BY <2>1, <2>2
<1>2. ASSUME NEW m \in 1 .. n, Fold(m - 1) PROVE Fold(m)
  <2>1. PICK g \in [0 .. m - 1 -> V] : Stepwise(g, m - 1, up, base, step)
    BY <1>2
  <2>2. m \in Nat /\ m # 0 /\ m <= n /\ up[m] \in 0 .. m - 1
    BY <1>0 DEF Upward
  <2> DEFINE top == step[<<g[up[m]], m>>]
             f == [i \in 0 .. m |-> IF i = m THEN top ELSE g[i]]
  <2>3. top \in V
    BY <2>1, <2>2
  <2>4. f \in [0 .. m -> V]
    <3> HIDE DEF top
    <3>1. \A i \in 0 .. m : i = m \/ i \in 0 .. m - 1
      BY <2>2
    <3> QED BY <2>1, <2>3, <3>1
  <2>5. ASSUME NEW k \in 0 .. m PROVE f[k] = IF k = 0 THEN base ELSE step[<<f[up[k]], k>>]
    <3>1. CASE k = m
      <4>1. f[up[m]] = g[up[m]]
        BY <2>2
      <4> QED BY <2>2, <3>1, <4>1
    <3>2. CASE k # m
      <4>1. k \in 0 .. m - 1 /\ f[k] = g[k]
        BY <2>2, <3>2
      <4>2. g[k] = IF k = 0 THEN base ELSE step[<<g[up[k]], k>>]
        BY <2>1, <4>1 DEF Stepwise
      <4>3. ASSUME k # 0 PROVE f[up[k]] = g[up[k]]
        <5>1. k \in 1 .. n
          BY <1>0, <4>3
        <5>2. up[k] \in 0 .. k - 1
          BY <5>1 DEF Upward
        <5>3. up[k] \in 0 .. m /\ up[k] # m
          BY <2>2, <4>1, <5>2
        <5> QED BY <5>3
      <4> QED BY <4>1, <4>2, <4>3
    <3> QED BY <3>1, <3>2
  <2>6. Stepwise(f, m, up, base, step)
    <3> HIDE DEF f
    <3> QED BY <2>5 DEF Stepwise
  <2> QED BY <2>4, <2>6
<1>3. Upward(n, down)
  BY <1>0 DEF Upward
<1>4. \A k \in 1 .. n : down[k] \in T => k \in T
  <2> TAKE k \in 1 .. n
  <2>1. down[k] = k - 1 /\ k \in Nat /\ k - 1 <= n
    BY <1>0
  <2> QED BY <1>2, <2>1
<1>5. 0 \in T
  BY <1>1
<1>6. \A k \in 0 .. n : k \in T
  <2> HIDE DEF T, down
  <2> QED BY <1>3, <1>4, <1>5, UpInduction, Zenon
<1> QED BY <1>0, <1>6

-----------------------------------------------------------------------------
(* The sequence without some of its elements.                              *)
Chain(n) == [k \in 1 .. n |-> k - 1]

LEMMA ChainUpward ==
  ASSUME NEW n \in Nat
  PROVE  Upward(n, Chain(n)) /\ \A k \in 1 .. n : Chain(n)[k] = k - 1
BY DEF Chain, Upward

Withouts(w, seq, gone) ==
  w = [k \in 0 .. Len(seq) |->
         IF k = 0 THEN <<>>
         ELSE IF seq[k] \in gone THEN w[k - 1] ELSE Append(w[k - 1], seq[k])]

LEMMA WithoutDefined ==
  ASSUME NEW X, NEW seq \in Seq(X), NEW gone
  PROVE  \E w \in [0 .. Len(seq) -> Seq(X)] :
           Withouts(w, seq, gone) /\ Without(seq, gone) = w[Len(seq)]
<1> DEFINE n == Len(seq)
           step == [x \in Seq(X) \X (1 .. n) |->
                      IF seq[x[2]] \in gone THEN x[1] ELSE Append(x[1], seq[x[2]])]
<1>1. n \in Nat /\ \A k \in 1 .. n : seq[k] \in X
  OBVIOUS
<1>2. \A v \in Seq(X), k \in 1 .. n :
        /\ step[<<v, k>>] = IF seq[k] \in gone THEN v ELSE Append(v, seq[k])
        /\ step[<<v, k>>] \in Seq(X)
  BY <1>1
<1>3. <<>> \in Seq(X)
  OBVIOUS
<1>4. PICK f \in [0 .. n -> Seq(X)] : Stepwise(f, n, Chain(n), <<>>, step)
  <2> HIDE DEF n, step
  <2> QED BY <1>1, <1>2, <1>3, ChainUpward, FoldExists
<1>5. Withouts(f, seq, gone)
  <2>1. ASSUME NEW k \in 0 .. n
        PROVE  f[k] = IF k = 0 THEN <<>>
                      ELSE IF seq[k] \in gone THEN f[k - 1] ELSE Append(f[k - 1], seq[k])
    <3> HIDE DEF step
    <3>1. f[k] = IF k = 0 THEN <<>> ELSE step[<<f[Chain(n)[k]], k>>]
      BY <1>4, <2>1 DEF Stepwise
    <3>2. CASE k # 0
      <4>1. k \in 1 .. n /\ k - 1 \in 0 .. n
        BY <1>1, <3>2
      <4>2. Chain(n)[k] = k - 1 /\ f[k - 1] \in Seq(X)
        BY <1>1, <1>4, <4>1, ChainUpward
      <4> QED BY <1>2, <3>1, <3>2, <4>1, <4>2
    <3> QED BY <3>1, <3>2
  <2> QED BY <1>4, <2>1 DEF Withouts
<1> DEFINE w == CHOOSE w : Withouts(w, seq, gone)
<1>6. Withouts(w, seq, gone)
  BY <1>5, Zenon
<1>7. Without(seq, gone) = w[Len(seq)]
  BY DEF Without, Withouts
<1> DEFINE T == {k \in 0 .. n : w[k] \in Seq(X)}
<1>8. \A k \in 0 .. n : k \in T
  <2> HIDE DEF w
  <2>1. w[0] = <<>> /\ 0 \in 0 .. n
    BY <1>1, <1>6 DEF Withouts
  <2>2. ASSUME NEW k \in 1 .. n, Chain(n)[k] \in T PROVE k \in T
    <3>1. Chain(n)[k] = k - 1 /\ k \in 0 .. n /\ k # 0
      BY <1>1, ChainUpward
    <3>2. w[k - 1] \in Seq(X)
      BY <2>2, <3>1
    <3>3. w[k] = IF seq[k] \in gone THEN w[k - 1] ELSE Append(w[k - 1], seq[k])
      BY <1>6, <3>1 DEF Withouts
    <3>4. w[k] \in Seq(X)
      <4>1. seq[k] \in X
        BY <1>1
      <4> HIDE DEF n, step
      <4> QED BY <3>2, <3>3, <4>1
    <3> QED BY <3>1, <3>4
  <2> HIDE DEF T, n
  <2>3. 0 \in T
    BY <1>3, <2>1 DEF T
  <2> QED BY <1>1, <2>2, <2>3, ChainUpward, UpInduction
<1>9. w \in [0 .. n -> Seq(X)]
  <2> HIDE DEF w
  <2>1. w = [k \in 0 .. n |-> w[k]]
    BY <1>6, Zenon DEF Withouts
  <2> QED BY <1>8, <2>1
<1> QED BY <1>6, <1>7, <1>9

(* The first elements stay where they are as long as none of them goes.    *)
LEMMA WithoutKeeps ==
  ASSUME NEW X, NEW seq \in Seq(X), NEW gone, NEW at \in 0 .. Len(seq),
         \A k \in 1 .. at : seq[k] \notin gone
  PROVE  /\ Without(seq, gone) \in Seq(X)
         /\ at <= Len(Without(seq, gone))
         /\ at = Len(seq) => Without(seq, gone) = seq
<1> DEFINE n == Len(seq)
<1>1. n \in Nat /\ at \in Nat /\ at <= n
  OBVIOUS
<1>2. PICK w \in [0 .. n -> Seq(X)] : Withouts(w, seq, gone) /\ Without(seq, gone) = w[n]
  BY WithoutDefined
<1>3. \A k \in 1 .. n : /\ k - 1 \in 0 .. n /\ k \in 0 .. n
                        /\ w[k] = IF seq[k] \in gone THEN w[k - 1] ELSE Append(w[k - 1], seq[k])
  <2> TAKE k \in 1 .. n
  <2>1. k \in 0 .. n /\ k - 1 \in 0 .. n /\ k # 0
    BY <1>1
  <2> QED BY <1>2, <2>1 DEF Withouts
<1>4. w[0] = <<>>
  BY <1>1, <1>2 DEF Withouts
<1> DEFINE T == {k \in 0 .. n : IF k <= at THEN w[k] = SubSeq(seq, 1, k) ELSE at <= Len(w[k])}
<1>5. \A k \in 0 .. n : k \in T
  <2>1. 0 \in T
    BY <1>1, <1>4
  <2>2. ASSUME NEW k \in 1 .. n, Chain(n)[k] \in T PROVE k \in T
    <3>1. k - 1 \in T
      BY <1>1, <2>2, ChainUpward
    <3>2. w[k] = (IF seq[k] \in gone THEN w[k - 1] ELSE Append(w[k - 1], seq[k]))
          /\ w[k - 1] \in Seq(X) /\ seq[k] \in X
      BY <1>2, <1>3
    <3>3. CASE k <= at
      <4>1. seq[k] \notin gone /\ k - 1 <= at
        BY <1>1, <3>3
      <4>2. w[k - 1] = SubSeq(seq, 1, k - 1)
        BY <3>1, <4>1
      <4>3. w[k] = Append(SubSeq(seq, 1, k - 1), seq[k])
        BY <3>2, <4>1, <4>2
      <4>4. SubSeq(seq, 1, k) = Append(SubSeq(seq, 1, k - 1), seq[k])
        BY <1>1, SubSeqRecursiveSecond
      <4>5. w[k] = SubSeq(seq, 1, k) /\ k \in 0 .. n
        BY <1>1, <4>3, <4>4
      <4> HIDE DEF n
      <4> QED BY <3>3, <4>5
    <3>4. CASE ~(k <= at)
      <4>1. at <= Len(w[k - 1])
        BY <1>1, <3>1, <3>4
      <4>2. Len(w[k - 1]) \in Nat /\ Len(Append(w[k - 1], seq[k])) = Len(w[k - 1]) + 1
        BY <3>2
      <4>3. at <= Len(w[k])
        BY <1>1, <3>2, <4>1, <4>2
      <4> QED BY <1>1, <3>4, <4>3
    <3> QED BY <3>3, <3>4
  <2> HIDE DEF T, n
  <2> QED BY <1>1, <2>1, <2>2, ChainUpward, UpInduction
<1>6. w[n] \in Seq(X) /\ n \in T
  BY <1>1, <1>2, <1>5
<1>7. at <= Len(w[n]) /\ (at = n => w[n] = seq)
  <2>1. CASE n <= at
    <3>1. w[n] = SubSeq(seq, 1, n) /\ n = at
      BY <1>1, <1>6, <2>1
    <3> QED BY <1>1, <3>1
  <2>2. CASE ~(n <= at)
    BY <1>1, <1>6, <2>2
  <2> QED BY <2>1, <2>2
<1> QED BY <1>2, <1>6, <1>7

-----------------------------------------------------------------------------
(* The tree of entries: what every operator computes at an entry from what *)
(* it computed at the parent.                                              *)
EntryRecord == [type : EntryTypes, parent : 0 .. MaxEntries, run : 0 .. MaxEntries,
                of : 0 .. MaxEntries, n : Nat, gone : SUBSET Ids]

LogOK(es) ==
  /\ es \in Seq(EntryRecord) /\ Len(es) <= MaxEntries
  /\ \A e \in 1 .. Len(es) : es[e].parent < e

Up(es) == [k \in 1 .. Len(es) |-> es[k].parent]

LEMMA UpOK ==
  ASSUME NEW es, LogOK(es)
  PROVE  /\ Len(es) \in Nat /\ Upward(Len(es), Up(es))
         /\ \A k \in 1 .. Len(es) : /\ Up(es)[k] = es[k].parent /\ es[k].parent \in 0 .. k - 1
                                    /\ es[k].parent \in 0 .. Len(es) /\ k \in 0 .. Len(es)
                                    /\ k # 0 /\ k \in Ids /\ es[k] \in EntryRecord
<1>1. Len(es) \in Nat /\ Len(es) <= MaxEntries /\ MaxEntries \in Nat
  BY SessionAssumption DEF LogOK
<1>2. ASSUME NEW k \in 1 .. Len(es)
      PROVE  /\ es[k].parent \in 0 .. k - 1 /\ es[k].parent \in 0 .. Len(es)
             /\ k \in 0 .. Len(es) /\ k # 0 /\ k \in Ids /\ es[k] \in EntryRecord
  <2>1. es[k] \in EntryRecord /\ es[k].parent < k
    BY <1>2 DEF LogOK
  <2>2. es[k].parent \in 0 .. MaxEntries
    BY <2>1 DEF EntryRecord
  <2> QED BY <1>1, <2>1, <2>2 DEF Ids
<1> QED BY <1>1, <1>2 DEF Upward, Up

Paths(p, es) ==
  p = [k \in 0 .. Len(es) |-> IF k = 0 THEN <<>> ELSE Append(p[es[k].parent], k)]

LEMMA PathUp ==
  ASSUME NEW es, LogOK(es)
  PROVE  /\ Path(es, 0) = <<>>
         /\ \A k \in 1 .. Len(es) : Path(es, k) = Append(Path(es, es[k].parent), k)
<1> DEFINE n == Len(es)
           V == Seq(Ids)
           step == [x \in V \X (1 .. n) |-> Append(x[1], x[2])]
<1>1. n \in Nat /\ (\A k \in 1 .. n : k \in Ids) /\ <<>> \in V
  BY UpOK
<1>2. \A v \in V, k \in 1 .. n : step[<<v, k>>] = Append(v, k) /\ step[<<v, k>>] \in V
  BY <1>1
<1>3. PICK f \in [0 .. n -> V] : Stepwise(f, n, Up(es), <<>>, step)
  <2> HIDE DEF n, step, V
  <2> QED BY <1>1, <1>2, UpOK, FoldExists DEF n
<1>4. Paths(f, es)
  <2>1. ASSUME NEW k \in 0 .. n
        PROVE  f[k] = IF k = 0 THEN <<>> ELSE Append(f[es[k].parent], k)
    <3> HIDE DEF step, V
    <3>1. f[k] = IF k = 0 THEN <<>> ELSE step[<<f[Up(es)[k]], k>>]
      BY <1>3, <2>1 DEF Stepwise
    <3>2. CASE k # 0
      <4>1. k \in 1 .. n
        BY <1>1, <3>2
      <4>2. Up(es)[k] = es[k].parent /\ f[es[k].parent] \in V
        BY <1>3, <4>1, UpOK
      <4> QED BY <1>2, <3>1, <3>2, <4>1, <4>2
    <3> QED BY <3>1, <3>2
  <2> QED BY <1>3, <2>1 DEF Paths
<1> DEFINE p == CHOOSE p : Paths(p, es)
<1>5. Paths(p, es)
  BY <1>4, Zenon
<1>6. \A e : Path(es, e) = p[e]
  BY DEF Path, Paths
<1> HIDE DEF p
<1>7. \A k \in 0 .. n : p[k] = IF k = 0 THEN <<>> ELSE Append(p[es[k].parent], k)
  BY <1>5 DEF Paths
<1> QED BY <1>1, <1>6, <1>7, UpOK

OpenRuns(p, es) ==
  p = [k \in 0 .. Len(es) |-> IF k = 0 THEN 0 ELSE OpenRunStep(p[es[k].parent], es, k)]

LEMMA OpenRunStepTyped ==
  ASSUME NEW es, LogOK(es), NEW v \in 0 .. Bad, NEW k \in 1 .. Len(es)
  PROVE  OpenRunStep(v, es, k) \in 0 .. Bad
<1>1. k \in 0 .. Bad /\ 0 \in 0 .. Bad /\ Bad \in 0 .. Bad
  BY UpOK, SessionAssumption DEF Ids, Bad
<1> QED BY <1>1, Zenon DEF OpenRunStep

LEMMA OpenRunUp ==
  ASSUME NEW es, LogOK(es)
  PROVE  /\ OpenRun(es, 0) = 0
         /\ \A k \in 1 .. Len(es) : OpenRun(es, k) = OpenRunStep(OpenRun(es, es[k].parent), es, k)
         /\ \A k \in 0 .. Len(es) : OpenRun(es, k) \in 0 .. Bad
<1> DEFINE n == Len(es)
           V == 0 .. Bad
           step == [x \in V \X (1 .. n) |-> OpenRunStep(x[1], es, x[2])]
<1>1. n \in Nat /\ 0 \in V
  BY UpOK, SessionAssumption DEF Bad
<1>2. \A v \in V, k \in 1 .. n : step[<<v, k>>] = OpenRunStep(v, es, k) /\ step[<<v, k>>] \in V
  BY OpenRunStepTyped
<1>3. PICK f \in [0 .. n -> V] : Stepwise(f, n, Up(es), 0, step)
  <2> HIDE DEF n, step, V
  <2> QED BY <1>1, <1>2, UpOK, FoldExists DEF n
<1>4. OpenRuns(f, es)
  <2>1. ASSUME NEW k \in 0 .. n
        PROVE  f[k] = IF k = 0 THEN 0 ELSE OpenRunStep(f[es[k].parent], es, k)
    <3> HIDE DEF step, V
    <3>1. f[k] = IF k = 0 THEN 0 ELSE step[<<f[Up(es)[k]], k>>]
      BY <1>3, <2>1 DEF Stepwise
    <3>2. CASE k # 0
      <4>1. k \in 1 .. n
        BY <1>1, <3>2
      <4>2. Up(es)[k] = es[k].parent /\ f[es[k].parent] \in V
        BY <1>3, <4>1, UpOK
      <4> QED BY <1>2, <3>1, <3>2, <4>1, <4>2
    <3> QED BY <3>1, <3>2
  <2> QED BY <1>3, <2>1 DEF OpenRuns
<1> DEFINE p == CHOOSE p : OpenRuns(p, es)
<1>5. OpenRuns(p, es)
  BY <1>4, Zenon
<1>6. \A e : OpenRun(es, e) = p[e]
  BY DEF OpenRun, OpenRuns
<1> HIDE DEF p
<1>7. \A k \in 0 .. n : p[k] = IF k = 0 THEN 0 ELSE OpenRunStep(p[es[k].parent], es, k)
  BY <1>5 DEF OpenRuns
<1>8. /\ OpenRun(es, 0) = 0
      /\ \A k \in 1 .. n : OpenRun(es, k) = OpenRunStep(OpenRun(es, es[k].parent), es, k)
  BY <1>1, <1>6, <1>7, UpOK
<1> DEFINE T == {k \in 0 .. n : OpenRun(es, k) \in V}
<1>9. \A k \in 0 .. n : k \in T
  <2>1. 0 \in T
    BY <1>1, <1>8
  <2>2. ASSUME NEW k \in 1 .. n, Up(es)[k] \in T PROVE k \in T
    BY <1>8, <2>2, UpOK, OpenRunStepTyped
  <2> HIDE DEF T
  <2> QED BY <2>1, <2>2, UpOK, UpInduction
<1> QED BY <1>8, <1>9

(* A compaction takes the place of the first element it removes.           *)
LEMMA ProjectCompactTyped ==
  ASSUME NEW seq \in Seq(Ids), NEW gone, NEW e \in Ids
  PROVE  /\ ProjectCompact(seq, gone, e) \in Seq(Ids)
         /\ gone = {} => ProjectCompact(seq, gone, e) = Append(seq, e)
<1> DEFINE hit == {k \in 1 .. Len(seq) : seq[k] \in gone}
           kept == Without(seq, gone)
           first == CHOOSE k \in hit : \A j \in hit : k <= j
           at == IF hit = {} THEN Len(kept) ELSE first - 1
<1>1. Len(seq) \in Nat /\ hit \in SUBSET Nat
  OBVIOUS
<1>2. kept \in Seq(Ids) /\ at \in 0 .. Len(kept)
  <2>1. CASE hit = {}
    <3>1. Len(seq) \in 0 .. Len(seq) /\ \A k \in 1 .. Len(seq) : seq[k] \notin gone
      BY <1>1, <2>1
    <3>2. kept \in Seq(Ids)
      BY <3>1, WithoutKeeps
    <3>3. Len(kept) \in Nat
      BY <3>2
    <3> HIDE DEF kept, hit
    <3> QED BY <2>1, <3>2, <3>3
  <2>2. CASE hit # {}
    <3>1. \E k \in hit : \A j \in hit : k <= j
      <4> HIDE DEF hit
      <4> QED BY <1>1, <2>2, LeastOf
    <3>2. first \in hit /\ \A j \in hit : first <= j
      <4> HIDE DEF hit
      <4> QED BY <3>1, Zenon
    <3> HIDE DEF first
    <3>3. first - 1 \in 0 .. Len(seq) /\ \A k \in 1 .. first - 1 : seq[k] \notin gone
      <4>1. first \in 1 .. Len(seq)
        BY <3>2
      <4>2. ASSUME NEW k \in 1 .. first - 1 PROVE seq[k] \notin gone
        <5>1. k \in 1 .. Len(seq) /\ ~(first <= k)
          BY <1>1, <4>1
        <5> QED BY <3>2, <5>1
      <4> QED BY <1>1, <4>1, <4>2
    <3>4. kept \in Seq(Ids) /\ first - 1 <= Len(kept)
      BY <3>3, WithoutKeeps
    <3>5. Len(kept) \in Nat
      BY <3>4
    <3> HIDE DEF kept, hit
    <3> QED BY <2>2, <3>3, <3>4, <3>5
  <2> QED BY <2>1, <2>2
<1>3. ProjectCompact(seq, gone, e) = SubSeq(kept, 1, at) \o <<e>> \o SubSeq(kept, at + 1, Len(kept))
  BY DEF ProjectCompact
<1>4. ASSUME gone = {} PROVE ProjectCompact(seq, gone, e) = Append(seq, e)
  <2>1. hit = {}
    BY <1>4
  <2>2. kept = seq
    <3>1. Len(seq) \in 0 .. Len(seq) /\ \A k \in 1 .. Len(seq) : seq[k] \notin gone
      BY <1>1, <1>4
    <3> QED BY <3>1, WithoutKeeps
  <2>3. at = Len(seq)
    <3> HIDE DEF kept, hit
    <3> QED BY <2>1, <2>2
  <2>4. ProjectCompact(seq, gone, e)
          = SubSeq(seq, 1, Len(seq)) \o <<e>> \o SubSeq(seq, Len(seq) + 1, Len(seq))
    <3> HIDE DEF kept, at
    <3> QED BY <1>3, <2>2, <2>3
  <2>5. SubSeq(seq, 1, Len(seq)) = seq /\ SubSeq(seq, Len(seq) + 1, Len(seq)) = <<>>
    BY <1>1
  <2>6. seq \o <<e>> = Append(seq, e) /\ Append(seq, e) \o <<>> = Append(seq, e)
    OBVIOUS
  <2> QED BY <2>4, <2>5, <2>6, Zenon
<1>5. ProjectCompact(seq, gone, e) \in Seq(Ids)
  <2> HIDE DEF kept, at
  <2>1. SubSeq(kept, 1, at) \in Seq(Ids) /\ SubSeq(kept, at + 1, Len(kept)) \in Seq(Ids)
    BY <1>2
  <2>2. <<e>> \in Seq(Ids)
    OBVIOUS
  <2> QED BY <1>3, <2>1, <2>2
<1> QED BY <1>4, <1>5

LEMMA ProjectTyped ==
  ASSUME NEW es, LogOK(es), NEW seq \in Seq(Ids), NEW k \in 1 .. Len(es)
  PROVE  Project(seq, es, k) \in Seq(Ids)
<1>1. k \in Ids /\ Append(seq, k) \in Seq(Ids) /\ ProjectCompact(seq, es[k].gone, k) \in Seq(Ids)
  BY UpOK, ProjectCompactTyped
<1> QED BY <1>1, Zenon DEF Project

Projections(p, es) ==
  p = [k \in 0 .. Len(es) |-> IF k = 0 THEN <<>> ELSE Project(p[es[k].parent], es, k)]

LEMMA MessagesUp ==
  ASSUME NEW es, LogOK(es)
  PROVE  /\ ProjectMessages(es, 0) = <<>>
         /\ \A k \in 1 .. Len(es) :
              ProjectMessages(es, k) = Project(ProjectMessages(es, es[k].parent), es, k)
         /\ \A k \in 0 .. Len(es) : ProjectMessages(es, k) \in Seq(Ids)
<1> DEFINE n == Len(es)
           V == Seq(Ids)
           step == [x \in V \X (1 .. n) |-> Project(x[1], es, x[2])]
<1>1. n \in Nat /\ <<>> \in V
  BY UpOK
<1>2. \A v \in V, k \in 1 .. n : step[<<v, k>>] = Project(v, es, k) /\ step[<<v, k>>] \in V
  BY ProjectTyped
<1>3. PICK f \in [0 .. n -> V] : Stepwise(f, n, Up(es), <<>>, step)
  <2> HIDE DEF n, step, V
  <2> QED BY <1>1, <1>2, UpOK, FoldExists DEF n
<1>4. Projections(f, es)
  <2>1. ASSUME NEW k \in 0 .. n
        PROVE  f[k] = IF k = 0 THEN <<>> ELSE Project(f[es[k].parent], es, k)
    <3> HIDE DEF step, V
    <3>1. f[k] = IF k = 0 THEN <<>> ELSE step[<<f[Up(es)[k]], k>>]
      BY <1>3, <2>1 DEF Stepwise
    <3>2. CASE k # 0
      <4>1. k \in 1 .. n
        BY <1>1, <3>2
      <4>2. Up(es)[k] = es[k].parent /\ f[es[k].parent] \in V
        BY <1>3, <4>1, UpOK
      <4> QED BY <1>2, <3>1, <3>2, <4>1, <4>2
    <3> QED BY <3>1, <3>2
  <2> QED BY <1>3, <2>1 DEF Projections
<1> DEFINE p == CHOOSE p : Projections(p, es)
<1>5. Projections(p, es)
  BY <1>4, Zenon
<1>6. \A e : ProjectMessages(es, e) = p[e]
  BY DEF ProjectMessages, Projections
<1> HIDE DEF p
<1>7. \A k \in 0 .. n : p[k] = IF k = 0 THEN <<>> ELSE Project(p[es[k].parent], es, k)
  BY <1>5 DEF Projections
<1>8. /\ ProjectMessages(es, 0) = <<>>
      /\ \A k \in 1 .. n :
           ProjectMessages(es, k) = Project(ProjectMessages(es, es[k].parent), es, k)
  BY <1>1, <1>6, <1>7, UpOK
<1> DEFINE T == {k \in 0 .. n : ProjectMessages(es, k) \in V}
<1>9. \A k \in 0 .. n : k \in T
  <2>1. 0 \in T
    <3>1. 0 \in 0 .. n
      BY <1>1
    <3> HIDE DEF V, n
    <3> QED BY <1>1, <1>8, <3>1
  <2>2. ASSUME NEW k \in 1 .. n, Up(es)[k] \in T PROVE k \in T
    BY <1>8, <2>2, UpOK, ProjectTyped
  <2> HIDE DEF T
  <2> QED BY <2>1, <2>2, UpOK, UpInduction
<1> QED BY <1>8, <1>9

PluginStates(p, es) ==
  p = [k \in 0 .. Len(es) |-> IF k = 0 THEN 0
                              ELSE IF es[k].type = "plugin" THEN es[k].n ELSE p[es[k].parent]]

LEMMA PluginStateUp ==
  ASSUME NEW es, LogOK(es)
  PROVE  /\ ProjectPluginState(es, 0) = 0
         /\ \A k \in 1 .. Len(es) :
              ProjectPluginState(es, k) = IF es[k].type = "plugin" THEN es[k].n
                                          ELSE ProjectPluginState(es, es[k].parent)
<1> DEFINE n == Len(es)
           V == Nat
           step == [x \in V \X (1 .. n) |-> IF es[x[2]].type = "plugin" THEN es[x[2]].n ELSE x[1]]
<1>1. n \in Nat /\ 0 \in V
  BY UpOK
<1>2. \A v \in V, k \in 1 .. n :
        /\ step[<<v, k>>] = IF es[k].type = "plugin" THEN es[k].n ELSE v
        /\ step[<<v, k>>] \in V
  BY UpOK DEF EntryRecord
<1>3. PICK f \in [0 .. n -> V] : Stepwise(f, n, Up(es), 0, step)
  <2> HIDE DEF n, step, V
  <2> QED BY <1>1, <1>2, UpOK, FoldExists DEF n
<1>4. PluginStates(f, es)
  <2>1. ASSUME NEW k \in 0 .. n
        PROVE  f[k] = IF k = 0 THEN 0
                      ELSE IF es[k].type = "plugin" THEN es[k].n ELSE f[es[k].parent]
    <3> HIDE DEF step, V
    <3>1. f[k] = IF k = 0 THEN 0 ELSE step[<<f[Up(es)[k]], k>>]
      BY <1>3, <2>1 DEF Stepwise
    <3>2. CASE k # 0
      <4>1. k \in 1 .. n
        BY <1>1, <3>2
      <4>2. Up(es)[k] = es[k].parent /\ f[es[k].parent] \in V
        BY <1>3, <4>1, UpOK
      <4> QED BY <1>2, <3>1, <3>2, <4>1, <4>2
    <3> QED BY <3>1, <3>2
  <2> QED BY <1>3, <2>1 DEF PluginStates
<1> DEFINE p == CHOOSE p : PluginStates(p, es)
<1>5. PluginStates(p, es)
  BY <1>4, Zenon
<1>6. \A e : ProjectPluginState(es, e) = p[e]
  BY DEF ProjectPluginState, PluginStates
<1> HIDE DEF p
<1>7. \A k \in 0 .. n : p[k] = IF k = 0 THEN 0
                               ELSE IF es[k].type = "plugin" THEN es[k].n ELSE p[es[k].parent]
  BY <1>5 DEF PluginStates
<1> QED BY <1>1, <1>6, <1>7, UpOK

-----------------------------------------------------------------------------
(* What a longer log keeps of a shorter one.                               *)
Prefix(es, fs) ==
  LogOK(es) /\ LogOK(fs) /\ Len(es) <= Len(fs) /\ \A k \in 1 .. Len(es) : fs[k] = es[k]

LEMMA PathMembers ==
  ASSUME NEW es, LogOK(es)
  PROVE  /\ Members(Path(es, 0)) = {}
         /\ \A k \in 1 .. Len(es) : Members(Path(es, k)) = Members(Path(es, es[k].parent)) \union {k}
         /\ \A k \in 0 .. Len(es) : /\ Path(es, k) \in Seq(Ids)
                                    /\ Members(Path(es, k)) \subseteq 1 .. k
<1> DEFINE T == {k \in 0 .. Len(es) : /\ Path(es, k) \in Seq(Ids)
                                      /\ Members(Path(es, k)) \subseteq 1 .. k}
<1>1. Members(Path(es, 0)) = {} /\ Path(es, 0) \in Seq(Ids)
  <2>1. Path(es, 0) = <<>> /\ <<>> \in Seq(Ids) /\ 1 .. Len(<<>>) = {}
    BY PathUp
  <2> QED BY <2>1 DEF Members
<1>2. ASSUME NEW k \in 1 .. Len(es), Path(es, es[k].parent) \in Seq(Ids)
      PROVE  /\ Members(Path(es, k)) = Members(Path(es, es[k].parent)) \union {k}
             /\ Path(es, k) \in Seq(Ids)
  <2> DEFINE s == Path(es, es[k].parent)
  <2>1. Path(es, k) = Append(s, k) /\ k \in Ids
    BY PathUp, UpOK
  <2> HIDE DEF s
  <2>2. s \in Seq(Ids)
    BY <1>2 DEF s
  <2>3. Append(s, k) \in Seq(Ids) /\ Members(Append(s, k)) = Members(s) \union {k}
    <3>1. /\ Len(Append(s, k)) = Len(s) + 1 /\ Len(s) \in Nat /\ Append(s, k) \in Seq(Ids)
          /\ Append(s, k)[Len(s) + 1] = k /\ \A i \in 1 .. Len(s) : Append(s, k)[i] = s[i]
      BY <2>1, <2>2
    <3>2. \A i : i \in 1 .. Len(s) + 1 <=> (i \in 1 .. Len(s) \/ i = Len(s) + 1)
      BY <3>1
    <3> QED BY <3>1, <3>2 DEF Members
  <2> QED BY <2>1, <2>3 DEF s
<1>3. \A k \in 0 .. Len(es) : k \in T
  <2>1. 0 \in T
    BY <1>1, UpOK
  <2>2. ASSUME NEW k \in 1 .. Len(es), Up(es)[k] \in T PROVE k \in T
    <3>1. es[k].parent \in T /\ k \in 0 .. Len(es) /\ es[k].parent \in 0 .. k - 1
      BY <2>2, UpOK
    <3>2. Members(Path(es, es[k].parent)) \subseteq 1 .. k - 1
      BY <3>1
    <3>3. Members(Path(es, k)) \subseteq 1 .. k
      BY <1>2, <3>1, <3>2
    <3> QED BY <1>2, <3>1, <3>3
  <2> HIDE DEF T
  <2> QED BY <2>1, <2>2, UpOK, UpInduction
<1>4. \A k \in 1 .. Len(es) : es[k].parent \in T
  BY <1>3, UpOK
<1> QED BY <1>1, <1>2, <1>3, <1>4

LEMMA PrefixKept ==
  ASSUME NEW es, NEW fs, Prefix(es, fs)
  PROVE  \A k \in 0 .. Len(es) :
           /\ Path(fs, k) = Path(es, k) /\ OpenRun(fs, k) = OpenRun(es, k)
           /\ ProjectMessages(fs, k) = ProjectMessages(es, k)
           /\ ProjectPluginState(fs, k) = ProjectPluginState(es, k)
<1> DEFINE T == {k \in 0 .. Len(es) :
                   /\ Path(fs, k) = Path(es, k) /\ OpenRun(fs, k) = OpenRun(es, k)
                   /\ ProjectMessages(fs, k) = ProjectMessages(es, k)
                   /\ ProjectPluginState(fs, k) = ProjectPluginState(es, k)}
<1>1. LogOK(es) /\ LogOK(fs) /\ Len(es) \in Nat /\ Len(fs) \in Nat /\ Len(es) <= Len(fs)
  BY UpOK DEF Prefix
<1>2. 0 \in T
  BY <1>1, PathUp, OpenRunUp, MessagesUp, PluginStateUp
<1>3. ASSUME NEW k \in 1 .. Len(es), Up(es)[k] \in T PROVE k \in T
  <2>1. fs[k] = es[k] /\ k \in 1 .. Len(fs) /\ Up(es)[k] = es[k].parent /\ k \in 0 .. Len(es)
    BY <1>1, UpOK DEF Prefix
  <2>2. Path(fs, k) = Path(es, k)
    BY <1>1, <1>3, <2>1, PathUp
  <2>3. OpenRun(fs, k) = OpenRun(es, k)
    <3>1. \A v : OpenRunStep(v, fs, k) = OpenRunStep(v, es, k)
      BY <2>1 DEF OpenRunStep
    <3> QED BY <1>1, <1>3, <2>1, <3>1, OpenRunUp
  <2>4. ProjectMessages(fs, k) = ProjectMessages(es, k)
    <3>1. \A v : Project(v, fs, k) = Project(v, es, k)
      BY <2>1 DEF Project
    <3> QED BY <1>1, <1>3, <2>1, <3>1, MessagesUp
  <2>5. ProjectPluginState(fs, k) = ProjectPluginState(es, k)
    BY <1>1, <1>3, <2>1, PluginStateUp
  <2> QED BY <2>1, <2>2, <2>3, <2>4, <2>5
<1>4. \A k \in 0 .. Len(es) : k \in T
  <2> HIDE DEF T
  <2> QED BY <1>1, <1>2, <1>3, UpOK, UpInduction
<1> QED BY <1>4

LEMMA PrefixCalls ==
  ASSUME NEW es, NEW fs, Prefix(es, fs), NEW e \in 0 .. Len(es)
  PROVE  /\ Members(Path(fs, e)) = Members(Path(es, e))
         /\ \A r : Calls(fs, e, r) = Calls(es, e, r)
         /\ \A a, n : Results(fs, e, a, n) = Results(es, e, a, n)
<1>1. Path(fs, e) = Path(es, e)
  BY PrefixKept
<1>2. \A k \in Members(Path(es, e)) : fs[k] = es[k]
  <2>1. LogOK(es) /\ Len(es) \in Nat
    BY UpOK DEF Prefix
  <2>2. Members(Path(es, e)) \subseteq 1 .. e
    BY <2>1, PathMembers
  <2>3. 1 .. e \subseteq 1 .. Len(es)
    BY <2>1
  <2> QED BY <2>2, <2>3 DEF Prefix
<1>3. ASSUME NEW r PROVE Calls(fs, e, r) = Calls(es, e, r)
  <2>1. \A c \in Members(Path(es, e)) \X (1 .. MaxCalls) : fs[c[1]] = es[c[1]]
    BY <1>2
  <2> QED BY <1>1, <2>1 DEF Calls
<1>4. ASSUME NEW a, NEW n PROVE Results(fs, e, a, n) = Results(es, e, a, n)
  BY <1>1, <1>2 DEF Results
<1> QED BY <1>1, <1>3, <1>4

-----------------------------------------------------------------------------
(* What is true of every log: no path has two results of one call, and a   *)
(* Run that recovery ended has one for each.                               *)
PluginsOK(es) == \A k \in 1 .. Len(es) : es[k].type = "plugin" => es[k].n \in {0, 1}

OneResult(es) ==
  \A e \in 0 .. Len(es) : \A s, t \in Members(Path(es, e)) :
    /\ es[s].type = "tool" /\ es[t].type = "tool"
    /\ es[s].of = es[t].of /\ es[s].n = es[t].n
    => s = t

AnsweredOnce(es) ==
  \A e \in 1 .. Len(es) : es[e].type = "run_end" /\ es[e].n = 1 =>
    \A c \in Calls(es, e, es[e].run) : Cardinality(Results(es, e, c[1], c[2])) = 1

LogInv(es) == LogOK(es) /\ PluginsOK(es) /\ OneResult(es) /\ AnsweredOnce(es)

(* An entry that the code appends to a log.                                *)
NewEntry(es, x) ==
  /\ x \in EntryRecord /\ Len(es) < MaxEntries /\ x.parent \in 0 .. Len(es)
  /\ x.type = "plugin" => x.n \in {0, 1}
  /\ x.type = "tool" => Results(es, x.parent, x.of, x.n) = {}
  /\ x.type = "run_end" /\ x.n = 1 => MissingCalls(es, x.parent, x.run) = {}

LEMMA AppendedLog ==
  ASSUME NEW es, LogOK(es), NEW x \in EntryRecord, Len(es) < MaxEntries, x.parent \in 0 .. Len(es)
  PROVE  /\ Prefix(es, Append(es, x)) /\ Len(Append(es, x)) = Len(es) + 1
         /\ Append(es, x)[Len(es) + 1] = x /\ Len(es) + 1 \in 1 .. Len(Append(es, x))
         /\ \A k \in 1 .. Len(es) : Append(es, x)[k] = es[k]
<1> DEFINE fs == Append(es, x)
<1>1. es \in Seq(EntryRecord) /\ Len(es) \in Nat /\ MaxEntries \in Nat
  BY UpOK, SessionAssumption DEF LogOK
<1>2. /\ fs \in Seq(EntryRecord) /\ Len(fs) = Len(es) + 1 /\ fs[Len(es) + 1] = x
      /\ \A k \in 1 .. Len(es) : fs[k] = es[k]
  BY <1>1
<1>3. \A k \in 1 .. Len(es) + 1 : k \in 1 .. Len(es) \/ k = Len(es) + 1
  BY <1>1
<1> HIDE DEF fs
<1>4. x.parent < Len(es) + 1
  BY <1>1
<1>5. \A e \in 1 .. Len(fs) : fs[e].parent < e
  BY <1>2, <1>3, <1>4 DEF LogOK
<1>6. LogOK(fs)
  BY <1>1, <1>2, <1>5 DEF LogOK
<1> QED BY <1>1, <1>2, <1>6 DEF Prefix, fs

LEMMA PrefixInv ==
  ASSUME NEW es, NEW fs, Prefix(es, fs), LogInv(fs)
  PROVE  LogInv(es)
<1>1. /\ LogOK(es) /\ Len(es) \in Nat /\ Len(fs) \in Nat /\ Len(es) <= Len(fs)
      /\ \A k \in 1 .. Len(es) : fs[k] = es[k] /\ k \in 1 .. Len(fs) /\ k \in 0 .. Len(es)
      /\ \A k \in 0 .. Len(es) : k \in 0 .. Len(fs)
  BY UpOK DEF Prefix, LogInv
<1>2. PluginsOK(es)
  BY <1>1 DEF LogInv, PluginsOK
<1>3. OneResult(es)
  <2> SUFFICES ASSUME NEW e \in 0 .. Len(es), NEW s \in Members(Path(es, e)), NEW t \in Members(Path(es, e)),
                      es[s].type = "tool" /\ es[t].type = "tool" /\ es[s].of = es[t].of /\ es[s].n = es[t].n
               PROVE  s = t
    BY DEF OneResult
  <2>1. s \in 1 .. Len(es) /\ t \in 1 .. Len(es)
    <3>1. Members(Path(es, e)) \subseteq 1 .. e
      BY <1>1, PathMembers
    <3> QED BY <1>1, <3>1
  <2>2. s \in Members(Path(fs, e)) /\ t \in Members(Path(fs, e)) /\ e \in 0 .. Len(fs)
    BY <1>1, PrefixCalls
  <2> QED BY <1>1, <2>1, <2>2 DEF LogInv, OneResult
<1>4. AnsweredOnce(es)
  <2> SUFFICES ASSUME NEW e \in 1 .. Len(es), es[e].type = "run_end" /\ es[e].n = 1,
                      NEW c \in Calls(es, e, es[e].run)
               PROVE  Cardinality(Results(es, e, c[1], c[2])) = 1
    BY DEF AnsweredOnce
  <2>1. fs[e] = es[e] /\ e \in 1 .. Len(fs) /\ e \in 0 .. Len(es)
    BY <1>1
  <2>2. c \in Calls(fs, e, fs[e].run) /\ Results(fs, e, c[1], c[2]) = Results(es, e, c[1], c[2])
    BY <2>1, PrefixCalls
  <2> QED BY <2>1, <2>2 DEF LogInv, AnsweredOnce
<1> QED BY <1>1, <1>2, <1>3, <1>4 DEF LogInv

LEMMA AppendInv ==
  ASSUME NEW es, LogInv(es), NEW x, NewEntry(es, x)
  PROVE  LogInv(Append(es, x))
<1> DEFINE fs == Append(es, x)
           n == Len(es) + 1
<1>1. LogOK(es) /\ x \in EntryRecord /\ Len(es) < MaxEntries /\ x.parent \in 0 .. Len(es)
  BY DEF LogInv, NewEntry
<1>2. /\ Prefix(es, fs) /\ Len(fs) = n /\ fs[n] = x /\ n \in 1 .. Len(fs)
      /\ \A k \in 1 .. Len(es) : fs[k] = es[k]
  BY <1>1, AppendedLog
<1>3. LogOK(fs) /\ Len(es) \in Nat
  BY <1>1, <1>2, UpOK DEF Prefix
<1>4. \A k \in 1 .. Len(fs) : k \in 1 .. Len(es) \/ k = n
  BY <1>2, <1>3
<1>5. \A k \in 0 .. Len(fs) : k \in 0 .. Len(es) \/ k = n
  BY <1>2, <1>3
<1> HIDE DEF fs
<1>6. /\ Members(Path(fs, n)) = Members(Path(es, x.parent)) \union {n}
      /\ Members(Path(es, x.parent)) \subseteq 1 .. Len(es) /\ n \notin 1 .. Len(es)
  <2>1. Members(Path(fs, n)) = Members(Path(fs, x.parent)) \union {n}
    BY <1>2, <1>3, PathMembers
  <2>2. Members(Path(fs, x.parent)) = Members(Path(es, x.parent))
    BY <1>1, <1>2, PrefixCalls
  <2>3. Members(Path(es, x.parent)) \subseteq 1 .. x.parent
    BY <1>1, PathMembers
  <2>4. 1 .. x.parent \subseteq 1 .. Len(es) /\ n \notin 1 .. Len(es)
    BY <1>1, <1>3
  <2> QED BY <2>1, <2>2, <2>3, <2>4
<1> HIDE DEF n
<1>7. PluginsOK(fs)
  BY <1>2, <1>4 DEF LogInv, PluginsOK, NewEntry
<1>8. OneResult(fs)
  <2> SUFFICES ASSUME NEW e \in 0 .. Len(fs), NEW s \in Members(Path(fs, e)), NEW t \in Members(Path(fs, e)),
                      fs[s].type = "tool", fs[t].type = "tool", fs[s].of = fs[t].of, fs[s].n = fs[t].n
               PROVE  s = t
    BY DEF OneResult
  <2> DEFINE Old(k) == k \in 0 .. Len(es) /\ s \in Members(Path(es, k)) /\ t \in Members(Path(es, k))
  <2>1. ASSUME NEW k, Old(k) PROVE s = t
    <3>1. Members(Path(es, k)) \subseteq 1 .. k /\ 1 .. k \subseteq 1 .. Len(es)
      BY <1>1, <1>3, <2>1, PathMembers
    <3>2. fs[s] = es[s] /\ fs[t] = es[t]
      BY <1>2, <2>1, <3>1
    <3> QED BY <2>1, <3>2 DEF LogInv, OneResult
  <2>2. CASE e \in 0 .. Len(es)
    BY <1>2, <2>1, <2>2, PrefixCalls
  <2>3. CASE e = n
    <3>1. CASE s # n /\ t # n
      BY <1>1, <1>6, <2>1, <2>3, <3>1
    <3>2. ASSUME NEW u \in Members(Path(es, x.parent)), fs[u].type = "tool", fs[n].type = "tool",
                 fs[u].of = fs[n].of, fs[u].n = fs[n].n
          PROVE  FALSE
      <4>1. fs[u] = es[u] /\ fs[n] = x
        BY <1>2, <1>6
      <4>2. u \in Results(es, x.parent, x.of, x.n)
        BY <3>2, <4>1 DEF Results
      <4> QED BY <3>2, <4>1, <4>2 DEF NewEntry
    <3> QED BY <1>6, <2>3, <3>1, <3>2
  <2> QED BY <1>5, <2>2, <2>3
<1>9. AnsweredOnce(fs)
  <2> SUFFICES ASSUME NEW e \in 1 .. Len(fs), fs[e].type = "run_end", fs[e].n = 1,
                      NEW c \in Calls(fs, e, fs[e].run)
               PROVE  Cardinality(Results(fs, e, c[1], c[2])) = 1
    BY DEF AnsweredOnce
  <2>1. CASE e \in 1 .. Len(es)
    <3>1. fs[e] = es[e] /\ e \in 0 .. Len(es)
      BY <1>2, <1>3, <2>1
    <3>2. c \in Calls(es, e, es[e].run) /\ Results(fs, e, c[1], c[2]) = Results(es, e, c[1], c[2])
      BY <1>2, <3>1, PrefixCalls
    <3> QED BY <2>1, <3>1, <3>2 DEF LogInv, AnsweredOnce
  <2>2. CASE e = n
    <3>1. fs[n] = x /\ x.type = "run_end" /\ x.n = 1 /\ \A k \in Members(Path(es, x.parent)) : fs[k] = es[k]
      BY <1>2, <1>6, <2>2
    <3>2. c \in Calls(es, x.parent, x.run)
      <4>1. c \in Members(Path(fs, n)) \X (1 .. MaxCalls) /\ fs[c[1]].type = "assistant"
            /\ fs[c[1]].run = x.run /\ c[2] <= fs[c[1]].n
        BY <2>2, <3>1 DEF Calls
      <4>2. c[1] # n
        BY <3>1, <4>1
      <4>3. c[1] \in Members(Path(es, x.parent)) /\ c \in Members(Path(es, x.parent)) \X (1 .. MaxCalls)
        BY <1>6, <4>1, <4>2
      <4> QED BY <3>1, <4>1, <4>3 DEF Calls
    <3>3. Results(fs, n, c[1], c[2]) = Results(es, x.parent, c[1], c[2])
      BY <1>6, <3>1 DEF Results
    <3>4. Results(es, x.parent, c[1], c[2]) # {}
      BY <3>1, <3>2 DEF NewEntry, MissingCalls
    <3>5. PICK t \in Results(es, x.parent, c[1], c[2]) : TRUE
      BY <3>4
    <3>6. Results(es, x.parent, c[1], c[2]) = {t}
      BY <1>1 DEF LogInv, OneResult, Results
    <3>7. Cardinality({t}) = 1
      BY FS_Singleton
    <3> QED BY <2>2, <3>3, <3>6, <3>7
  <2> QED BY <1>4, <2>1, <2>2
<1> QED BY <1>3, <1>7, <1>8, <1>9 DEF LogInv, fs

-----------------------------------------------------------------------------
(* The invariant of the Session: the file, the caches of the manager that  *)
(* follow it, and what the Harness has under way.                          *)
LivePhases == {"idle", "running", "ending", "recovering"}

Aligned ==
  /\ leaf = Len(log)
  /\ msgs = ProjectMessages(log, Len(log))
  /\ plug = ProjectPluginState(log, Len(log))

DiskOK ==
  /\ LogInv(log)
  /\ tail \in {"clean", "torn", "open", "glued"} /\ corrupt \in BOOLEAN
  /\ acked \in Nat /\ acked <= Len(log)
  /\ tail \in {"open", "glued"} => acked < Len(log)

CacheOK ==
  /\ leaf \in 0 .. Len(log) /\ msgs \in Seq(Ids) /\ plug \in {0, 1}
  /\ phase \in LivePhases => Aligned

ControlOK ==
  /\ phase \in LivePhases \union {"broken", "closed", "refused"}
  /\ ctx \in Seq(0 .. MaxEntries) /\ failed \in BOOLEAN
  /\ plan \in [target : 0 .. MaxEntries, source : 0 .. MaxEntries]
  /\ job \in [old : Seq(Ids), cut : Nat]
  /\ job # NoJob => leaf # 0 /\ phase \notin {"closed", "refused", "recovering"}
  /\ phase = "ending" => leaf # 0
  /\ phase = "recovering" => OpenRun(log, leaf) # Bad

SessionInv == DiskOK /\ CacheOK /\ ControlOK

LEMMA PluginStateTyped ==
  ASSUME NEW es, LogOK(es), PluginsOK(es)
  PROVE  \A k \in 0 .. Len(es) : ProjectPluginState(es, k) \in {0, 1}
<1> DEFINE T == {k \in 0 .. Len(es) : ProjectPluginState(es, k) \in {0, 1}}
<1>1. 0 \in T
  BY PluginStateUp, UpOK
<1>2. ASSUME NEW k \in 1 .. Len(es), Up(es)[k] \in T PROVE k \in T
  BY <1>2, PluginStateUp, UpOK DEF PluginsOK
<1>3. \A k \in 0 .. Len(es) : k \in T
  <2> HIDE DEF T
  <2> QED BY <1>1, <1>2, UpOK, UpInduction
<1> QED BY <1>3

(* The caches after an append are those of a fresh projection.             *)
LEMMA AppendStep ==
  ASSUME DiskOK, CacheOK, phase \in LivePhases, NEW x, NewEntry(log, x),
         x.type \notin {"compact", "leaf", "merge"} => x.parent = leaf,
         WriteRecord(x), UpdateCache(x), acked' = NewId
  PROVE  /\ DiskOK' /\ CacheOK' /\ leaf' = NewId /\ NewId \in Ids /\ log' = Append(log, x)
         /\ Prefix(log, log') /\ Len(log') = NewId /\ log'[NewId] = x /\ leaf' # 0
         /\ msgs' = ProjectMessages(log', NewId)
         /\ OpenRun(log', leaf') = OpenRunStep(OpenRun(log, x.parent), log', NewId)
<1> DEFINE fs == Append(log, x)
           n == Len(log) + 1
<1>1. /\ LogInv(log) /\ LogOK(log) /\ x \in EntryRecord /\ Len(log) < MaxEntries
      /\ x.parent \in 0 .. Len(log) /\ Len(log) \in Nat /\ MaxEntries \in Nat
  BY UpOK, SessionAssumption DEF DiskOK, LogInv, NewEntry
<1>2. /\ Prefix(log, fs) /\ Len(fs) = n /\ fs[n] = x /\ n \in 1 .. Len(fs) /\ n # 0
      /\ LogInv(fs) /\ LogOK(fs) /\ PluginsOK(fs)
  BY <1>1, AppendedLog, AppendInv DEF LogInv
<1>3. log' = fs /\ leaf' = n /\ acked' = n /\ tail' = "clean" /\ corrupt' = (corrupt \/ tail = "open")
  BY DEF WriteRecord, UpdateCache, NewId
<1>4. DiskOK'
  <2>1. LogInv(log') /\ Len(log') = n /\ corrupt' \in BOOLEAN
    BY <1>2, <1>3 DEF DiskOK
  <2>2. n \in Nat /\ n <= n
    BY <1>1
  <2> QED BY <1>3, <2>1, <2>2 DEF DiskOK
<1> HIDE DEF fs
<1>5. fs[n].parent = x.parent /\ fs[n].type = x.type /\ fs[n].n = x.n /\ fs[n].gone = x.gone
  BY <1>2
<1>6. x.type \notin {"compact", "leaf", "merge"} =>
        msgs = ProjectMessages(fs, x.parent) /\ plug = ProjectPluginState(fs, x.parent)
  BY <1>1, <1>2, PrefixKept DEF CacheOK, Aligned
<1>7. msgs' = ProjectMessages(fs, n)
  <2>1. ProjectMessages(fs, n) = Project(ProjectMessages(fs, x.parent), fs, n)
    BY <1>2, <1>5, MessagesUp
  <2>2. CASE x.type \in {"compact", "leaf", "merge"}
    <3>1. x.type \notin MessageTypes
      BY <2>2 DEF MessageTypes
    <3> QED BY <2>2, <3>1 DEF UpdateCache, NewId, fs
  <2>3. CASE x.type \in MessageTypes
    BY <1>5, <1>6, <2>1, <2>3 DEF UpdateCache, NewId, Project, MessageTypes
  <2>4. CASE x.type \notin MessageTypes \union {"compact", "leaf", "merge"}
    <3>1. msgs' = msgs
      BY <2>4 DEF UpdateCache
    <3>2. fs[n].type \notin MessageTypes \union {"merge"} /\ fs[n].type # "compact"
      BY <1>5, <2>4
    <3>3. Project(ProjectMessages(fs, x.parent), fs, n) = ProjectMessages(fs, x.parent)
      BY <3>2, Zenon DEF Project
    <3> QED BY <1>6, <2>1, <2>4, <3>1, <3>3
  <2> QED BY <2>2, <2>3, <2>4
<1>8. plug' = ProjectPluginState(fs, n)
  <2>1. ProjectPluginState(fs, n) = IF x.type = "plugin" THEN x.n ELSE ProjectPluginState(fs, x.parent)
    BY <1>2, <1>5, PluginStateUp
  <2>2. CASE x.type \in {"compact", "leaf", "merge"}
    BY <2>2 DEF UpdateCache, NewId, fs
  <2>3. CASE x.type \notin {"compact", "leaf", "merge"}
    BY <1>6, <2>1, <2>3 DEF UpdateCache
  <2> QED BY <2>2, <2>3
<1>9. n \in 0 .. Len(fs)
  BY <1>1, <1>2
<1>10. msgs' \in Seq(Ids) /\ plug' \in {0, 1}
  BY <1>2, <1>7, <1>8, <1>9, MessagesUp, PluginStateTyped
<1>11. CacheOK'
  BY <1>2, <1>3, <1>7, <1>8, <1>9, <1>10 DEF CacheOK, Aligned
<1>12. n \in Ids
  BY <1>1 DEF Ids
<1>13. OpenRun(fs, n) = OpenRunStep(OpenRun(log, x.parent), fs, n)
  BY <1>1, <1>2, <1>5, OpenRunUp, PrefixKept
<1> QED BY <1>2, <1>3, <1>4, <1>7, <1>11, <1>12, <1>13 DEF NewId, fs

(* A write that fails costs nothing that was acknowledged.                 *)
LEMMA CutStep ==
  ASSUME DiskOK, CacheOK, NEW x, NewEntry(log, x), WriteCut(x), UNCHANGED acked,
         phase' \notin LivePhases,
         UNCHANGED cache \/ (leaf' = 0 /\ msgs' = <<>> /\ plug' = 0)
  PROVE  DiskOK' /\ CacheOK'
<1> DEFINE fs == Append(log, x)
<1>1. /\ LogInv(log) /\ LogOK(log) /\ x \in EntryRecord /\ Len(log) < MaxEntries
      /\ x.parent \in 0 .. Len(log) /\ Len(log) \in Nat
  BY UpOK DEF DiskOK, LogInv, NewEntry
<1>2. Len(fs) = Len(log) + 1 /\ LogInv(fs)
  BY <1>1, AppendedLog, AppendInv
<1>3. /\ log' \in {log, fs}
      /\ tail' \in {"clean", "torn", "open", "glued"} /\ corrupt' \in BOOLEAN
      /\ tail' \in {"open", "glued"} => (log' = fs \/ tail \in {"open", "glued"})
  BY DEF WriteCut, WriteRecord, disk, DiskOK
<1> HIDE DEF fs
<1>4. LogInv(log') /\ Len(log') \in {Len(log), Len(log) + 1} /\ (log' = fs => Len(log') = Len(log) + 1)
  BY <1>1, <1>2, <1>3
<1>5. acked' \in Nat /\ acked' <= Len(log') /\ (tail' \in {"open", "glued"} => acked' < Len(log'))
  <2>1. acked \in Nat /\ acked <= Len(log) /\ (tail \in {"open", "glued"} => acked < Len(log)) /\ acked' = acked
    BY DEF DiskOK
  <2> QED BY <1>1, <1>3, <1>4, <2>1
<1>6. DiskOK'
  BY <1>3, <1>4, <1>5 DEF DiskOK
<1>7. leaf' \in 0 .. Len(log') /\ msgs' \in Seq(Ids) /\ plug' \in {0, 1}
  <2>1. leaf \in 0 .. Len(log) /\ 0 \in 0 .. Len(log')
    BY <1>1, <1>4 DEF CacheOK
  <2>2. leaf \in 0 .. Len(log')
    BY <1>1, <1>4, <2>1
  <2>3. <<>> \in Seq(Ids) /\ 0 \in {0, 1} /\ msgs \in Seq(Ids) /\ plug \in {0, 1}
    BY DEF CacheOK
  <2> QED BY <2>1, <2>2, <2>3, Zenon DEF cache
<1> QED BY <1>6, <1>7 DEF CacheOK

(* The first missing result is one of the missing ones.                    *)
LEMMA FirstMissingOf ==
  ASSUME NEW es, LogOK(es), NEW e \in 0 .. Len(es), NEW r, MissingCalls(es, e, r) # {}
  PROVE  LET c == FirstMissing(es, e, r) IN
         /\ c \in MissingCalls(es, e, r) /\ c = <<c[1], c[2]>>
         /\ c[1] \in Ids /\ c[2] \in 1 .. MaxCalls
<1> DEFINE M == MissingCalls(es, e, r)
           A == {c[1] : c \in M}
<1>1. \A c \in M : /\ c[1] \in Ids /\ c[1] \in Nat /\ c[2] \in 1 .. MaxCalls /\ c[2] \in Nat
                  /\ c = <<c[1], c[2]>>
  <2>1. Members(Path(es, e)) \subseteq 1 .. e /\ e \in Nat /\ e <= MaxEntries /\ MaxEntries \in Nat
    BY PathMembers, UpOK, SessionAssumption DEF LogOK
  <2>2. 1 .. e \subseteq Ids /\ 1 .. e \subseteq Nat
    BY <2>1 DEF Ids
  <2>3. M \subseteq Members(Path(es, e)) \X (1 .. MaxCalls)
    BY DEF MissingCalls, Calls
  <2>4. \A c \in M : c[1] \in Members(Path(es, e)) /\ c[2] \in 1 .. MaxCalls /\ c = <<c[1], c[2]>>
    BY <2>3
  <2> QED BY <2>1, <2>2, <2>4
<1> HIDE DEF M
<1>2. PICK a \in A : \A x \in A : a <= x
  <2>1. A # {} /\ A \in SUBSET Nat
    BY <1>1 DEF M
  <2> HIDE DEF A
  <2> QED BY <2>1, LeastOf
<1> DEFINE B == {d[2] : d \in {c \in M : c[1] = a}}
<1>3. PICK b \in B : \A x \in B : b <= x
  <2>1. B # {} /\ B \in SUBSET Nat
    BY <1>1, <1>2
  <2> HIDE DEF B
  <2> QED BY <2>1, LeastOf
<1>4. PICK c \in M : c[1] = a /\ c[2] = b
  BY <1>3
<1>5. \A d \in M : c[1] < d[1] \/ (c[1] = d[1] /\ c[2] <= d[2])
  <2> TAKE d \in M
  <2>1. a <= d[1] /\ a \in Nat /\ d[1] \in Nat
    BY <1>1, <1>2, <1>4
  <2>2. d[1] = a => b <= d[2]
    BY <1>3
  <2> QED BY <1>4, <2>1, <2>2
<1>6. FirstMissing(es, e, r) \in M
  <2>1. \E c1 \in M : \A d \in M : c1[1] < d[1] \/ (c1[1] = d[1] /\ c1[2] <= d[2])
    BY <1>5
  <2> QED BY <2>1, Zenon DEF FirstMissing, M
<1> QED BY <1>1, <1>6 DEF M

LEMMA Fresh ==
  ASSUME SessionInv, NEW type \in EntryTypes, NEW parent \in 0 .. Len(log), NEW r \in 0 .. MaxEntries,
         NEW of \in 0 .. MaxEntries, NEW n \in Nat, NEW gone \in SUBSET Ids,
         type = "plugin" => n \in {0, 1},
         type = "tool" => Results(log, parent, of, n) = {},
         type = "run_end" /\ n = 1 => MissingCalls(log, parent, r) = {}
  PROVE  HasSpace => NewEntry(log, Entry(type, parent, r, of, n, gone))
<1>1. LogOK(log) /\ Len(log) \in Nat /\ Len(log) <= MaxEntries /\ MaxEntries \in Nat
  BY UpOK, SessionAssumption DEF SessionInv, DiskOK, LogInv, LogOK
<1>2. parent \in 0 .. MaxEntries
  BY <1>1
<1>3. Entry(type, parent, r, of, n, gone) \in EntryRecord
  BY <1>2 DEF Entry, EntryRecord
<1> QED BY <1>3 DEF NewEntry, HasSpace, Entry

(* The three ways a step of the running Harness ends.                      *)
Plans == [target : 0 .. MaxEntries, source : 0 .. MaxEntries]
Jobs == [old : Seq(Ids), cut : Nat]

LEMMA GoesOn ==
  ASSUME SessionInv, phase \in LivePhases, NEW x, HasSpace => NewEntry(log, x),
         x.type \notin {"compact", "leaf", "merge"} => x.parent = leaf,
         NEW next \in {"idle", "running", "ending"}, Appended(x, next),
         ctx' \in Seq(0 .. MaxEntries), failed' \in BOOLEAN, plan' \in Plans, job' \in Jobs
  PROVE  SessionInv'
<1>1. NewEntry(log, x) /\ WriteRecord(x) /\ UpdateCache(x) /\ acked' = NewId /\ phase' = next
  BY DEF Appended
<1>2. DiskOK' /\ CacheOK' /\ leaf' # 0
  BY <1>1, AppendStep DEF SessionInv
<1>3. ControlOK'
  BY <1>1, <1>2 DEF ControlOK, LivePhases, Plans, Jobs
<1> QED BY <1>2, <1>3 DEF SessionInv

LEMMA BreaksOff ==
  ASSUME SessionInv, NEW x, HasSpace => NewEntry(log, x), Broken(x),
         ctx' \in Seq(0 .. MaxEntries), failed' \in BOOLEAN, plan' \in Plans, job' \in {job, NoJob}
  PROVE  SessionInv'
<1>1. NewEntry(log, x) /\ WriteCut(x) /\ UNCHANGED acked /\ UNCHANGED cache /\ phase' = "broken"
  BY DEF Broken, CacheAfterFailure
<1>2. DiskOK' /\ CacheOK'
  BY <1>1, CutStep DEF SessionInv, LivePhases
<1>3. ControlOK'
  <2>1. NoJob \in Jobs
    BY DEF NoJob, Jobs
  <2>2. leaf' = leaf
    BY <1>1 DEF cache
  <2> QED BY <1>1, <2>1, <2>2 DEF ControlOK, LivePhases, Plans, Jobs, SessionInv
<1> QED BY <1>2, <1>3 DEF SessionInv

LEMMA StaysPut ==
  ASSUME SessionInv, UNCHANGED <<disk, acked, cache>>,
         phase' \in {"idle", "running", "ending"} => phase \in LivePhases,
         phase' \in {"idle", "running", "broken"} \/ (phase' = phase /\ phase \notin {"closed", "refused", "recovering"}),
         ctx' \in Seq(0 .. MaxEntries), failed' \in BOOLEAN, plan' \in Plans, job' \in Jobs,
         job' # NoJob => leaf # 0
  PROVE  SessionInv'
<1>1. log' = log /\ tail' = tail /\ corrupt' = corrupt /\ acked' = acked
      /\ leaf' = leaf /\ msgs' = msgs /\ plug' = plug
  BY DEF disk, cache
<1>2. DiskOK'
  BY <1>1 DEF DiskOK, SessionInv
<1>3. phase' \in LivePhases => phase \in LivePhases
  BY DEF LivePhases
<1>4. CacheOK'
  BY <1>1, <1>3 DEF CacheOK, Aligned, SessionInv
<1>5. ControlOK'
  BY <1>1 DEF ControlOK, SessionInv, LivePhases, Plans, Jobs
<1> QED BY <1>2, <1>4, <1>5 DEF SessionInv

LEMMA SessionFacts ==
  ASSUME SessionInv
  PROVE  /\ LogOK(log) /\ Len(log) \in Nat /\ leaf \in 0 .. Len(log) /\ MaxEntries \in Nat
         /\ OpenRun(log, leaf) # Bad => OpenRun(log, leaf) \in 0 .. MaxEntries
         /\ \A k \in 1 .. Len(log) : log[k].run \in 0 .. MaxEntries /\ k \in 0 .. MaxEntries
                                     /\ k \in 0 .. Len(log)
         /\ leaf # 0 => leaf \in 1 .. Len(log)
         /\ HasSpace => NewId \in Ids /\ NewId \in 0 .. MaxEntries
         /\ \A v \in 0 .. MaxEntries : Append(ctx, v) \in Seq(0 .. MaxEntries)
         /\ 0 \in 0 .. MaxEntries /\ {} \in SUBSET Ids /\ leaf \in 0 .. MaxEntries
         /\ ctx \in Seq(0 .. MaxEntries) /\ failed \in BOOLEAN /\ plan \in Plans /\ job \in Jobs
         /\ NoJob \in Jobs /\ NoPlan \in Plans /\ msgs \in Seq(Ids)
<1>1. LogOK(log) /\ Len(log) \in Nat /\ leaf \in 0 .. Len(log) /\ MaxEntries \in Nat
      /\ Len(log) <= MaxEntries
  BY UpOK, SessionAssumption DEF SessionInv, DiskOK, LogInv, CacheOK, LogOK
<1>2. OpenRun(log, leaf) # Bad => OpenRun(log, leaf) \in 0 .. MaxEntries
  <2>1. OpenRun(log, leaf) \in 0 .. Bad
    BY <1>1, OpenRunUp
  <2> QED BY <1>1, <2>1 DEF Bad
<1>3. \A k \in 1 .. Len(log) : log[k].run \in 0 .. MaxEntries /\ k \in 0 .. MaxEntries
                               /\ k \in 0 .. Len(log)
  BY <1>1, UpOK DEF EntryRecord
<1>4. HasSpace => NewId \in Ids /\ NewId \in 0 .. MaxEntries
  BY <1>1 DEF HasSpace, NewId, Ids
<1>5. ctx \in Seq(0 .. MaxEntries) /\ failed \in BOOLEAN /\ plan \in Plans /\ job \in Jobs
  BY DEF SessionInv, ControlOK, Plans, Jobs
<1>6. \A v \in 0 .. MaxEntries : Append(ctx, v) \in Seq(0 .. MaxEntries)
  BY <1>5
<1>7. NoJob \in Jobs /\ NoPlan \in Plans /\ msgs \in Seq(Ids)
  BY <1>1 DEF NoJob, NoPlan, Jobs, Plans, SessionInv, CacheOK
<1> QED BY <1>1, <1>2, <1>3, <1>4, <1>5, <1>6, <1>7

LEMMA CompactionsTyped ==
  ASSUME SessionInv, NEW j \in Compactions
  PROVE  j \in Jobs
<1>1. msgs \in Seq(Ids) /\ job \in Jobs /\ NoJob \in Jobs
  BY SessionFacts
<1>2. Cuts(msgs) \subseteq Nat
  <2>1. Cuts(msgs) \subseteq 1 .. Len(msgs) - 1 /\ Len(msgs) \in Nat
    BY <1>1 DEF Cuts
  <2> QED BY <2>1
<1>3. ASSUME NEW k \in Cuts(msgs) PROVE [old |-> msgs, cut |-> k] \in Jobs
  BY <1>1, <1>2, <1>3 DEF Jobs
<1> QED BY <1>1, <1>3 DEF Compactions

(* The events of a Run.                                                    *)
LEMMA RunStartStep == ASSUME SessionInv, RunStart PROVE SessionInv'
<1> DEFINE e == Entry("run_start", leaf, NewId, 0, 0, {})
<1>1. phase \in LivePhases /\ plan' \in Plans /\ job' = job /\ job' \in Jobs
  BY SessionFacts DEF RunStart, SessionIdle, LivePhases, pending
<1>2. HasSpace => NewEntry(log, e)
  BY SessionFacts, Fresh DEF EntryTypes
<1>3. e.parent = leaf
  BY DEF Entry
<1> HIDE DEF e
<1>4. CASE Appended(e, "running") /\ UNCHANGED <<ctx, failed>>
  BY <1>1, <1>2, <1>3, <1>4, SessionFacts, GoesOn
<1>5. CASE Broken(e) /\ failed' = TRUE /\ ctx' = Append(ctx, 0)
  BY <1>1, <1>2, <1>5, SessionFacts, BreaksOff
<1> QED BY <1>4, <1>5 DEF RunStart, e

LEMMA RunsOutsideLog ==
  ASSUME SessionInv, RunStartRefused \/ UnpersistedRun \/ RunCut
  PROVE  SessionInv'
<1>1. CASE RunStartRefused
  <2>1. /\ UNCHANGED <<disk, acked, cache>> /\ phase' = phase /\ phase \in {"idle", "broken"}
        /\ ctx' \in Seq(0 .. MaxEntries) /\ failed' \in BOOLEAN /\ plan' \in Plans /\ job' = job
    BY <1>1, SessionFacts DEF RunStartRefused, SessionIdle, pending
  <2> QED BY <2>1, SessionFacts, StaysPut DEF SessionInv, ControlOK, LivePhases
<1>2. CASE UnpersistedRun
  <2>1. /\ UNCHANGED <<disk, acked, cache>> /\ phase' = phase /\ phase \in {"idle", "broken"}
        /\ ctx' \in Seq(0 .. MaxEntries) /\ failed' \in BOOLEAN /\ plan' \in Plans
    BY <1>2, SessionFacts DEF UnpersistedRun
  <2>2. job' \in Jobs /\ (job' # NoJob => leaf # 0)
    BY <1>2, SessionFacts, CompactionsTyped DEF UnpersistedRun, SessionInv, ControlOK
  <2> QED BY <2>1, <2>2, SessionFacts, StaysPut DEF LivePhases
<1>3. CASE RunCut
  <2>1. /\ UNCHANGED <<disk, acked, cache>> /\ phase' = "idle" /\ phase = "running"
        /\ ctx' \in Seq(0 .. MaxEntries) /\ failed' \in BOOLEAN /\ plan' \in Plans /\ job' = job
    BY <1>3, SessionFacts DEF RunCut, pending
  <2> QED BY <2>1, SessionFacts, StaysPut DEF SessionInv, ControlOK, LivePhases
<1> QED BY <1>1, <1>2, <1>3

(* The next message of a Run, and the next entry of its recovery.          *)
LEMMA MissingFresh ==
  ASSUME SessionInv, NEW r \in 0 .. MaxEntries, MissingCalls(log, leaf, r) # {}
  PROVE  LET c == FirstMissing(log, leaf, r)
             e == Entry("tool", leaf, r, c[1], c[2], {})
         IN (HasSpace => NewEntry(log, e)) /\ <<e.of, e.n>> \in MissingCalls(log, leaf, r)
<1> DEFINE c == FirstMissing(log, leaf, r)
           e == Entry("tool", leaf, r, c[1], c[2], {})
<1>1. c \in MissingCalls(log, leaf, r) /\ c[1] \in Ids /\ c[2] \in 1 .. MaxCalls /\ c = <<c[1], c[2]>>
  BY SessionFacts, FirstMissingOf
<1>2. Results(log, leaf, c[1], c[2]) = {}
  BY <1>1 DEF MissingCalls
<1>3. c[1] \in 0 .. MaxEntries /\ c[2] \in Nat /\ "tool" \in EntryTypes
  BY <1>1 DEF Ids, EntryTypes, MessageTypes
<1> HIDE DEF c
<1>4. HasSpace => NewEntry(log, e)
  BY <1>2, <1>3, SessionFacts, Fresh
<1>5. e.of = c[1] /\ e.n = c[2]
  BY DEF Entry
<1> QED BY <1>1, <1>4, <1>5 DEF c

LEMMA MessageFresh ==
  ASSUME SessionInv, NEW r \in 0 .. MaxEntries, NEW e \in NextMessages(r)
  PROVE  /\ HasSpace => NewEntry(log, e)
         /\ e.parent = leaf /\ e.run = r /\ e.type \in MessageTypes
         /\ e.type = "tool" => <<e.of, e.n>> \in MissingCalls(log, leaf, r)
         /\ e.type # "tool" => MissingCalls(log, leaf, r) = {}
<1>1. CASE MissingCalls(log, leaf, r) # {}
  <2> DEFINE c == FirstMissing(log, leaf, r)
  <2>1. e = Entry("tool", leaf, r, c[1], c[2], {})
    BY <1>1 DEF NextMessages
  <2>2. (HasSpace => NewEntry(log, e)) /\ <<e.of, e.n>> \in MissingCalls(log, leaf, r)
    BY <1>1, <2>1, MissingFresh
  <2> HIDE DEF c
  <2> QED BY <2>1, <2>2 DEF Entry, MessageTypes
<1>2. CASE MissingCalls(log, leaf, r) = {}
  <2>1. \/ e = Entry("user", leaf, r, 0, 0, {})
        \/ \E n \in 0 .. MaxCalls : e = Entry("assistant", leaf, r, 0, n, {})
    BY <1>2 DEF NextMessages
  <2>2. CASE e = Entry("user", leaf, r, 0, 0, {})
    <3>1. HasSpace => NewEntry(log, e)
      BY <2>2, SessionFacts, Fresh DEF EntryTypes, MessageTypes
    <3> QED BY <1>2, <2>2, <3>1 DEF Entry, MessageTypes
  <2>3. ASSUME NEW n \in 0 .. MaxCalls, e = Entry("assistant", leaf, r, 0, n, {})
        PROVE  /\ HasSpace => NewEntry(log, e)
               /\ e.parent = leaf /\ e.run = r /\ e.type = "assistant"
    <3>1. n \in Nat
      OBVIOUS
    <3>2. HasSpace => NewEntry(log, e)
      BY <2>3, <3>1, SessionFacts, Fresh DEF EntryTypes, MessageTypes
    <3> QED BY <2>3, <3>2 DEF Entry
  <2> QED BY <1>2, <2>1, <2>2, <2>3 DEF MessageTypes
<1> QED BY <1>1, <1>2

LEMMA RecoveryFresh ==
  ASSUME SessionInv, NEW r \in 0 .. MaxEntries
  PROVE  LET e == RecoveryStep(r) IN
         /\ HasSpace => NewEntry(log, e)
         /\ e.parent = leaf /\ e.run = r /\ e.type \in {"tool", "run_end"}
         /\ e.type = "tool" => <<e.of, e.n>> \in MissingCalls(log, leaf, r)
<1> DEFINE e == RecoveryStep(r)
<1>1. CASE MissingCalls(log, leaf, r) # {}
  <2> DEFINE c == FirstMissing(log, leaf, r)
  <2>1. e = Entry("tool", leaf, r, c[1], c[2], {})
    BY <1>1 DEF RecoveryStep
  <2> HIDE DEF e
  <2>2. (HasSpace => NewEntry(log, e)) /\ <<e.of, e.n>> \in MissingCalls(log, leaf, r)
    BY <1>1, <2>1, MissingFresh
  <2> HIDE DEF c
  <2>3. e.parent = leaf /\ e.run = r /\ e.type = "tool"
    BY <2>1 DEF Entry
  <2> QED BY <2>2, <2>3 DEF e
<1>2. CASE MissingCalls(log, leaf, r) = {}
  <2>1. e = Entry("run_end", leaf, r, 0, 1, {})
    BY <1>2 DEF RecoveryStep
  <2>2. "run_end" \in EntryTypes
    BY DEF EntryTypes
  <2> HIDE DEF e
  <2>3. HasSpace => NewEntry(log, Entry("run_end", leaf, r, 0, 1, {}))
    BY <1>2, <2>2, SessionFacts, Fresh
  <2>4. e.parent = leaf /\ e.run = r /\ e.type = "run_end"
    BY <2>1 DEF Entry
  <2> QED BY <2>1, <2>3, <2>4 DEF e
<1> QED BY <1>1, <1>2

LEMMA MessageStep == ASSUME SessionInv, Message PROVE SessionInv'
<1> DEFINE r == OpenRun(log, leaf)
<1>1. phase = "running" /\ phase \in LivePhases /\ plan' \in Plans /\ job' = job /\ job' \in Jobs
  BY SessionFacts DEF Message, LivePhases, pending
<1>2. CASE r = Bad
  <2>1. /\ UNCHANGED <<disk, acked, cache>> /\ phase' = "idle"
        /\ ctx' \in Seq(0 .. MaxEntries) /\ failed' \in BOOLEAN
    BY <1>2, SessionFacts DEF Message
  <2> QED BY <1>1, <2>1, StaysPut DEF SessionInv, ControlOK
<1>3. CASE r # Bad
  <2>1. PICK e \in NextMessages(r) :
          \/ Appended(e, "running") /\ ctx' = Append(ctx, NewId) /\ UNCHANGED failed
          \/ Broken(e) /\ failed' = TRUE /\ ctx' = Append(ctx, 0)
    BY <1>3 DEF Message
  <2>2. (HasSpace => NewEntry(log, e)) /\ e.parent = leaf
    <3>1. r \in 0 .. MaxEntries
      BY <1>3, SessionFacts
    <3> HIDE DEF r
    <3> QED BY <2>1, <3>1, MessageFresh
  <2>3. CASE Appended(e, "running") /\ ctx' = Append(ctx, NewId) /\ UNCHANGED failed
    <3>1. ctx' \in Seq(0 .. MaxEntries)
      BY <2>3, SessionFacts DEF Appended
    <3> QED BY <1>1, <2>2, <2>3, <3>1, SessionFacts, GoesOn
  <2>4. CASE Broken(e) /\ failed' = TRUE /\ ctx' = Append(ctx, 0)
    BY <1>1, <2>2, <2>4, SessionFacts, BreaksOff
  <2> QED BY <2>1, <2>3, <2>4
<1> QED BY <1>2, <1>3

LEMMA RunEndStep == ASSUME SessionInv, RunEnd PROVE SessionInv'
<1> DEFINE r == OpenRun(log, leaf)
           e == Entry("run_end", leaf, r, 0, 0, {})
<1>1. phase \in LivePhases /\ plan' \in Plans /\ job' = job /\ job' \in Jobs /\ r # Bad /\ ctx' = ctx
  BY SessionFacts DEF RunEnd, LivePhases, pending
<1>2. HasSpace => NewEntry(log, e)
  <2>1. r \in 0 .. MaxEntries
    BY <1>1, SessionFacts
  <2>2. "run_end" \in EntryTypes /\ leaf \in 0 .. Len(log) /\ 0 \in 0 .. MaxEntries /\ {} \in SUBSET Ids
    BY SessionFacts DEF EntryTypes
  <2> HIDE DEF r
  <2>3. HasSpace => NewEntry(log, Entry("run_end", leaf, r, 0, 0, {}))
    BY <2>1, <2>2, Fresh
  <2> QED BY <2>3
<1>3. e.parent = leaf
  BY DEF Entry
<1>4. \/ Appended(e, "ending") /\ UNCHANGED failed
      \/ Broken(e) /\ failed' = TRUE
  BY Zenon DEF RunEnd
<1> HIDE DEF e
<1>5. CASE Appended(e, "ending") /\ UNCHANGED failed
  BY <1>1, <1>2, <1>3, <1>5, SessionFacts, GoesOn
<1>6. CASE Broken(e) /\ failed' = TRUE
  BY <1>1, <1>2, <1>6, SessionFacts, BreaksOff
<1> QED BY <1>4, <1>5, <1>6

LEMMA CheckpointFresh ==
  ASSUME SessionInv, leaf # 0
  PROVE  (HasSpace => NewEntry(log, CheckpointEntry)) /\ CheckpointEntry.parent = leaf
         /\ CheckpointEntry.type = "checkpoint"
<1>1. log[leaf].run \in 0 .. MaxEntries
  BY SessionFacts
<1> QED BY <1>1, SessionFacts, Fresh DEF CheckpointEntry, EntryTypes, Entry

LEMMA CheckpointStep == ASSUME SessionInv, Checkpoint PROVE SessionInv'
<1> DEFINE e == CheckpointEntry
<1>1. phase = "ending" /\ phase \in LivePhases /\ plan' \in Plans /\ ctx' = ctx /\ leaf # 0
  BY SessionFacts DEF Checkpoint, LivePhases, SessionInv, ControlOK
<1>2. (HasSpace => NewEntry(log, e)) /\ e.parent = leaf
  BY <1>1, CheckpointFresh
<1>3. \/ Appended(e, "idle") /\ job' \in Compactions /\ UNCHANGED failed
      \/ Broken(e) /\ failed' = TRUE /\ UNCHANGED job
      \/ phase' = "idle" /\ job' \in Compactions /\ UNCHANGED <<disk, acked, cache, failed>>
  BY DEF Checkpoint
<1> HIDE DEF e
<1>4. CASE Appended(e, "idle") /\ job' \in Compactions /\ UNCHANGED failed
  <2>1. job' \in Jobs
    BY <1>4, CompactionsTyped
  <2> QED BY <1>1, <1>2, <1>4, <2>1, SessionFacts, GoesOn
<1>5. CASE Broken(e) /\ failed' = TRUE /\ UNCHANGED job
  BY <1>1, <1>2, <1>5, SessionFacts, BreaksOff
<1>6. CASE phase' = "idle" /\ job' \in Compactions /\ UNCHANGED <<disk, acked, cache, failed>>
  <2>1. job' \in Jobs
    BY <1>6, CompactionsTyped
  <2> QED BY <1>1, <1>6, <2>1, SessionFacts, StaysPut
<1> QED BY <1>3, <1>4, <1>5, <1>6

(* Operations on the tree.                                                 *)
LEMMA ContextTyped ==
  ASSUME NEW s \in Seq(Ids)
  PROVE  s \in Seq(0 .. MaxEntries)
<1>1. Ids \subseteq 0 .. MaxEntries
  BY SessionAssumption DEF Ids
<1> QED BY <1>1, SeqMonotonic

LEMMA TreeStep ==
  ASSUME SessionInv, phase \in {"idle", "running"}, NEW x, HasSpace => NewEntry(log, x),
         x.type \notin {"compact", "leaf", "merge"} => x.parent = leaf,
         TreeAppend(x), failed' = failed, plan' \in Plans, job' = job
  PROVE  SessionInv'
<1>1. phase \in LivePhases /\ failed' \in BOOLEAN /\ job' \in Jobs
  BY SessionFacts DEF LivePhases
<1>2. CASE Appended(x, "idle") /\ ctx' = msgs'
  <2>1. NewEntry(log, x) /\ WriteRecord(x) /\ UpdateCache(x) /\ acked' = NewId
    BY <1>2 DEF Appended
  <2>2. CacheOK'
    BY <1>1, <2>1, AppendStep DEF SessionInv
  <2>3. ctx' \in Seq(0 .. MaxEntries)
    BY <1>2, <2>2, ContextTyped DEF CacheOK
  <2> QED BY <1>1, <1>2, <2>3, GoesOn
<1>3. CASE Broken(x) /\ UNCHANGED ctx
  <2>1. ctx' \in Seq(0 .. MaxEntries)
    BY <1>3, SessionFacts
  <2> QED BY <1>1, <1>3, <2>1, BreaksOff
<1> QED BY <1>2, <1>3 DEF TreeAppend

LEMMA PluginStateStep == ASSUME SessionInv, NEW n \in {0, 1}, PluginState(n) PROVE SessionInv'
<1> DEFINE e == Entry("plugin", leaf, OpenRun(log, leaf), 0, n, {})
<1>1. /\ phase \in {"idle", "running"} /\ phase \in LivePhases /\ ctx' = ctx /\ failed' = failed
      /\ plan' \in Plans /\ job' = job /\ job' \in Jobs /\ OpenRun(log, leaf) # Bad
  BY SessionFacts DEF PluginState, SessionIdle, LivePhases, pending
<1>2. HasSpace => NewEntry(log, e)
  <2>1. "plugin" \in EntryTypes /\ n \in Nat /\ OpenRun(log, leaf) \in 0 .. MaxEntries
    BY <1>1, SessionFacts DEF EntryTypes
  <2> QED BY <2>1, SessionFacts, Fresh
<1>3. e.parent = leaf /\ (Appended(e, phase) \/ Broken(e))
  BY DEF Entry, PluginState
<1> HIDE DEF e
<1>4. CASE Appended(e, phase)
  BY <1>1, <1>2, <1>3, <1>4, SessionFacts, GoesOn
<1>5. CASE Broken(e)
  BY <1>1, <1>2, <1>5, SessionFacts, BreaksOff
<1> QED BY <1>3, <1>4, <1>5

LEMMA SwitchLeafStep == ASSUME SessionInv, NEW t \in 1 .. Len(log), SwitchLeaf(t) PROVE SessionInv'
<1> DEFINE e == Entry("leaf", t, log[t].run, 0, 0, {})
<1>1. phase = "idle" /\ failed' = failed /\ plan' \in Plans /\ job' = job /\ TreeAppend(e)
  BY SessionFacts DEF SwitchLeaf, SessionIdle, pending
<1>2. HasSpace => NewEntry(log, e)
  <2>1. "leaf" \in EntryTypes /\ t \in 0 .. Len(log) /\ log[t].run \in 0 .. MaxEntries
    BY SessionFacts DEF EntryTypes
  <2> QED BY <2>1, SessionFacts, Fresh
<1>3. e.type = "leaf"
  BY DEF Entry
<1> HIDE DEF e
<1> QED BY <1>1, <1>2, <1>3, TreeStep

LEMMA BranchStep == ASSUME SessionInv, Branch PROVE SessionInv'
<1> DEFINE e == Entry("branch", leaf, log[leaf].run, 0, 0, {})
<1>1. /\ phase = "idle" /\ phase \in LivePhases /\ ctx' = ctx /\ failed' = failed
      /\ plan' \in Plans /\ job' = job /\ job' \in Jobs /\ leaf # 0
  BY SessionFacts DEF Branch, SessionIdle, LivePhases, pending
<1>2. HasSpace => NewEntry(log, e)
  <2>1. "branch" \in EntryTypes /\ log[leaf].run \in 0 .. MaxEntries
    BY <1>1, SessionFacts DEF EntryTypes
  <2> QED BY <2>1, SessionFacts, Fresh
<1>3. e.parent = leaf /\ (Appended(e, "idle") \/ Broken(e))
  BY DEF Entry, Branch
<1> HIDE DEF e
<1>4. CASE Appended(e, "idle")
  BY <1>1, <1>2, <1>3, <1>4, SessionFacts, GoesOn
<1>5. CASE Broken(e)
  BY <1>1, <1>2, <1>5, SessionFacts, BreaksOff
<1> QED BY <1>3, <1>4, <1>5

LEMMA CompactManuallyStep == ASSUME SessionInv, CompactManually PROVE SessionInv'
<1> DEFINE e == Entry("compact", leaf, log[leaf].run, 0, 0, {})
<1>1. phase = "idle" /\ failed' = failed /\ plan' \in Plans /\ job' = job /\ TreeAppend(e) /\ leaf # 0
  BY SessionFacts DEF CompactManually, SessionIdle, pending
<1>2. HasSpace => NewEntry(log, e)
  <2>1. "compact" \in EntryTypes /\ log[leaf].run \in 0 .. MaxEntries
    BY <1>1, SessionFacts DEF EntryTypes
  <2> QED BY <2>1, SessionFacts, Fresh
<1>3. e.type = "compact"
  BY DEF Entry
<1> HIDE DEF e
<1> QED BY <1>1, <1>2, <1>3, TreeStep

LEMMA MergeStep ==
  ASSUME SessionInv, (\E s \in 1 .. Len(log) : PrepareMerge(s)) \/ CommitMerge \/ MergeAbandoned
  PROVE  SessionInv'
<1>1. ASSUME NEW s \in 1 .. Len(log), PrepareMerge(s) PROVE SessionInv'
  <2>1. /\ UNCHANGED <<disk, acked, cache>> /\ phase' = "idle" /\ phase = "idle"
        /\ ctx' = ctx /\ failed' = failed /\ job' = job
    BY <1>1 DEF PrepareMerge, SessionIdle
  <2>2. plan' \in Plans
    BY <1>1, SessionFacts DEF PrepareMerge, Plans
  <2> QED BY <2>1, <2>2, SessionFacts, StaysPut DEF SessionInv, ControlOK, LivePhases
<1>2. ASSUME plan # NoPlan, plan' = NoPlan, UNCHANGED <<disk, acked, phase, cache, ctx, failed, job>>,
             phase \in LivePhases \union {"broken", "closed", "refused"}
      PROVE  SessionInv'
  <2>1. DiskOK'
    BY <1>2 DEF SessionInv, DiskOK, disk
  <2>2. CacheOK'
    BY <1>2 DEF SessionInv, CacheOK, Aligned, disk, cache
  <2>3. NoPlan \in Plans
    BY SessionFacts
  <2>4. ControlOK'
    BY <1>2, <2>3 DEF SessionInv, ControlOK, Plans, disk, cache
  <2> QED BY <2>1, <2>2, <2>4 DEF SessionInv
<1>3. CASE CommitMerge
  <2> DEFINE e == Entry("merge", leaf, 0, plan.source, 0, {})
  <2>1. phase \in {"idle", "running"} /\ plan # NoPlan /\ plan' = NoPlan /\ failed' = failed /\ job' = job
    BY <1>3 DEF CommitMerge
  <2>2. CASE MergeStillValid
    <3>1. TreeAppend(e)
      BY <1>3, <2>2 DEF CommitMerge
    <3>2. HasSpace => NewEntry(log, e)
      <4>1. "merge" \in EntryTypes /\ plan.source \in 0 .. MaxEntries
        BY SessionFacts DEF EntryTypes, Plans
      <4> QED BY <4>1, SessionFacts, Fresh
    <3>3. e.type = "merge"
      BY DEF Entry
    <3> HIDE DEF e
    <3> QED BY <2>1, <3>1, <3>2, <3>3, SessionFacts, TreeStep
  <2>3. CASE ~MergeStillValid
    <3>1. UNCHANGED <<disk, acked, phase, cache, ctx>>
      BY <1>3, <2>3 DEF CommitMerge
    <3> QED BY <1>2, <2>1, <3>1 DEF LivePhases
  <2> QED BY <2>2, <2>3
<1>4. CASE MergeAbandoned
  BY <1>2, <1>4 DEF MergeAbandoned, SessionInv, ControlOK
<1> QED BY <1>1, <1>3, <1>4

LEMMA CompactCommitStep == ASSUME SessionInv, CompactCommit \/ CompactSkipped PROVE SessionInv'
<1> DEFINE gone == {msgs[k] : k \in {j \in 1 .. Len(msgs) : j <= job.cut}}
           e == Entry("compact", leaf, log[leaf].run, 0, 0, gone)
<1>1. job # NoJob /\ job' = NoJob /\ failed' = failed /\ plan' \in Plans /\ NoJob \in Jobs
  BY SessionFacts DEF CompactCommit, CompactSkipped
<1>2. leaf # 0
  BY <1>1 DEF SessionInv, ControlOK
<1>3. CASE CompactCommit
  <2>1. phase \in {"idle", "running"} /\ phase \in LivePhases
    BY <1>3 DEF CompactCommit, LivePhases
  <2>2. HasSpace => NewEntry(log, e)
    <3>1. "compact" \in EntryTypes /\ log[leaf].run \in 0 .. MaxEntries /\ gone \in SUBSET Ids
      BY <1>2, SessionFacts DEF EntryTypes
    <3> HIDE DEF gone
    <3> QED BY <3>1, SessionFacts, Fresh
  <2>3. e.type = "compact"
    BY DEF Entry
  <2>4. \/ Appended(e, phase) /\ ctx' = <<NewId>> \o SubSeq(job.old, job.cut + 1, Len(job.old))
        \/ Broken(e) /\ UNCHANGED ctx
    BY <1>3 DEF CompactCommit
  <2> HIDE DEF e
  <2>5. CASE Appended(e, phase) /\ ctx' = <<NewId>> \o SubSeq(job.old, job.cut + 1, Len(job.old))
    <3>1. NewId \in Ids
      BY <2>5, SessionFacts DEF Appended
    <3>2. job.old \in Seq(Ids) /\ job.cut \in Nat
      BY SessionFacts DEF Jobs
    <3>3. SubSeq(job.old, job.cut + 1, Len(job.old)) \in Seq(Ids) /\ <<NewId>> \in Seq(Ids)
      BY <3>1, <3>2
    <3>4. ctx' \in Seq(Ids)
      BY <2>5, <3>3
    <3> QED BY <1>1, <2>1, <2>2, <2>3, <2>5, <3>4, ContextTyped, SessionFacts, GoesOn
  <2>6. CASE Broken(e) /\ UNCHANGED ctx
    BY <1>1, <2>2, <2>6, SessionFacts, BreaksOff
  <2> QED BY <2>4, <2>5, <2>6
<1>4. CASE CompactSkipped
  <2>1. UNCHANGED <<disk, acked, phase, cache, ctx>>
    BY <1>4 DEF CompactSkipped
  <2>2. phase \notin {"closed", "refused", "recovering"} /\ phase \in LivePhases \union {"broken", "closed", "refused"}
    BY <1>1 DEF SessionInv, ControlOK
  <2> QED BY <1>1, <2>1, <2>2, SessionFacts, StaysPut DEF LivePhases
<1> QED BY <1>3, <1>4

(* The end of a process, open() and recovery.                              *)
LEMMA ForgottenControl ==
  ASSUME SessionInv, Forgotten, phase' = "closed"
  PROVE  ControlOK'
<1>1. NoJob \in Jobs /\ NoPlan \in Plans /\ <<>> \in Seq(0 .. MaxEntries)
  BY SessionFacts
<1> QED BY <1>1 DEF Forgotten, ControlOK, Jobs, Plans

LEMMA CloseStep == ASSUME SessionInv, Close PROVE SessionInv'
<1>1. DiskOK'
  BY DEF Close, SessionInv, DiskOK, disk
<1>2. CacheOK'
  <2>1. log' = log /\ leaf' = 0 /\ msgs' = <<>> /\ plug' = 0 /\ phase' = "closed"
    BY DEF Close, Forgotten, disk
  <2>2. 0 \in 0 .. Len(log) /\ <<>> \in Seq(Ids)
    BY SessionFacts
  <2> QED BY <2>1, <2>2 DEF CacheOK, LivePhases
<1>3. ControlOK'
  BY ForgottenControl DEF Close
<1> QED BY <1>1, <1>2, <1>3 DEF SessionInv

LEMMA OpenFailsStep ==
  ASSUME SessionInv, NEW x, HasSpace => NewEntry(log, x), OpenFails(x)
  PROVE  SessionInv'
<1>1. NewEntry(log, x) /\ WriteCut(x) /\ UNCHANGED acked /\ phase' = "closed"
      /\ leaf' = 0 /\ msgs' = <<>> /\ plug' = 0 /\ Forgotten
  BY DEF OpenFails, Forgotten
<1>2. phase' \notin LivePhases
  BY <1>1 DEF LivePhases
<1> QED BY <1>1, <1>2, CutStep, ForgottenControl DEF SessionInv

LEMMA RepairedOK ==
  ASSUME SessionInv
  PROVE  /\ Prefix(Repaired, log) /\ LogInv(Repaired) /\ LogOK(Repaired)
         /\ acked <= Len(Repaired) /\ (tail = "open" => acked < Len(Repaired))
<1>1. /\ LogInv(log) /\ LogOK(log) /\ Len(log) \in Nat /\ acked \in Nat /\ acked <= Len(log)
      /\ tail \in {"open", "glued"} => acked < Len(log)
  BY SessionFacts DEF SessionInv, DiskOK
<1>2. CASE tail = "glued"
  <2> DEFINE es == SubSeq(log, 1, Len(log) - 1)
  <2>1. log \in Seq(EntryRecord) /\ Len(log) - 1 \in 0 .. Len(log) /\ Len(log) <= MaxEntries
        /\ MaxEntries \in Nat /\ acked <= Len(log) - 1
    BY <1>1, <1>2, SessionAssumption DEF LogOK
  <2>2. es \in Seq(EntryRecord) /\ Len(es) = Len(log) - 1 /\ \A k \in 1 .. Len(log) - 1 : es[k] = log[k]
    <3> DEFINE m == Len(log) - 1
    <3>1. m \in Nat /\ 1 \in 1 .. Len(log) + 1 /\ m \in 0 .. Len(log)
      BY <1>1, <2>1
    <3> HIDE DEF m
    <3>2. SubSeq(log, 1, m) \in Seq(EntryRecord) /\ Len(SubSeq(log, 1, m)) = m
          /\ \A k \in 1 .. m : SubSeq(log, 1, m)[k] = log[k]
      BY <2>1, <3>1
    <3> QED BY <3>2 DEF m
  <2> HIDE DEF es
  <2>3. Len(es) <= MaxEntries /\ Len(es) <= Len(log) /\ \A k \in 1 .. Len(es) : k \in 1 .. Len(log)
    BY <1>1, <2>1, <2>2
  <2>4. LogOK(es)
    BY <1>1, <2>2, <2>3 DEF LogOK
  <2>5. Prefix(es, log)
    BY <1>1, <2>2, <2>3, <2>4 DEF Prefix
  <2>6. Repaired = es
    BY <1>2 DEF Repaired, es
  <2> QED BY <1>1, <1>2, <2>1, <2>2, <2>4, <2>5, <2>6, PrefixInv
<1>3. CASE tail # "glued"
  <2>1. Repaired = log
    BY <1>3 DEF Repaired
  <2>2. Prefix(log, log)
    BY <1>1 DEF Prefix
  <2> QED BY <1>1, <2>1, <2>2
<1> QED BY <1>2, <1>3

LEMMA OpenStep == ASSUME SessionInv, Open PROVE SessionInv'
<1> DEFINE es == Repaired
<1>1. /\ Prefix(es, log) /\ LogInv(es) /\ LogOK(es) /\ Len(es) \in Nat
      /\ acked <= Len(es) /\ (tail = "open" => acked < Len(es))
  BY RepairedOK, UpOK
<1>2. phase = "closed" /\ UNCHANGED <<corrupt, acked, ctx, failed, pending>> /\ job = NoJob
  BY DEF Open, SessionInv, ControlOK
<1>3. CASE Readable(es)
  <2>1. /\ log' = es /\ tail' = (IF tail = "open" THEN "open" ELSE "clean") /\ leaf' = Len(es)
        /\ msgs' = ProjectMessages(es, Len(es)) /\ plug' = ProjectPluginState(es, Len(es))
        /\ phase' = "recovering"
    BY <1>3, Zenon DEF Open
  <2>2. OpenRun(es, Len(es)) # Bad
    BY <1>3 DEF Readable
  <2> HIDE DEF es
  <2>3. DiskOK'
    BY <1>1, <1>2, <2>1 DEF DiskOK, SessionInv
  <2>4. Len(es) \in 0 .. Len(es) /\ PluginsOK(es)
    BY <1>1 DEF LogInv
  <2>5. msgs' \in Seq(Ids) /\ plug' \in {0, 1}
    BY <1>1, <2>1, <2>4, MessagesUp, PluginStateTyped
  <2>6. CacheOK'
    BY <2>1, <2>4, <2>5 DEF CacheOK, Aligned
  <2>7. ControlOK'
    BY <1>2, <2>1, <2>2 DEF ControlOK, SessionInv, LivePhases, pending
  <2> QED BY <2>3, <2>6, <2>7 DEF SessionInv
<1>4. CASE ~Readable(es)
  <2>1. phase' = "refused" /\ UNCHANGED <<log, tail, cache>>
    BY <1>4, Zenon DEF Open
  <2> HIDE DEF es
  <2>2. DiskOK'
    BY <1>2, <2>1 DEF DiskOK, SessionInv
  <2>3. CacheOK'
    BY <2>1 DEF CacheOK, SessionInv, cache, LivePhases
  <2>4. ControlOK'
    BY <1>2, <2>1 DEF ControlOK, SessionInv, LivePhases, pending
  <2> QED BY <2>2, <2>3, <2>4 DEF SessionInv
<1> QED BY <1>3, <1>4

LEMMA RecoverStep == ASSUME SessionInv, Recover PROVE SessionInv'
<1> DEFINE r == OpenRun(log, leaf)
           e == RecoveryStep(r)
<1>1. phase = "recovering" /\ phase \in LivePhases /\ r # 0 /\ r # Bad /\ r \in 0 .. MaxEntries
  BY SessionFacts DEF Recover, SessionInv, ControlOK, LivePhases
<1>2. (HasSpace => NewEntry(log, e)) /\ e.parent = leaf /\ e.run = r /\ e.type \in {"tool", "run_end"}
  <2> HIDE DEF r
  <2> QED BY <1>1, RecoveryFresh
<1>3. \/ Appended(e, "recovering") /\ UNCHANGED <<ctx, failed, pending>>
      \/ OpenFails(e)
  BY Zenon DEF Recover
<1> HIDE DEF e
<1>4. CASE Appended(e, "recovering") /\ UNCHANGED <<ctx, failed, pending>>
  <2>1. NewEntry(log, e) /\ WriteRecord(e) /\ UpdateCache(e) /\ acked' = NewId /\ phase' = "recovering"
    BY <1>2, <1>4 DEF Appended
  <2>2. DiskOK' /\ CacheOK' /\ leaf' # 0 /\ log'[NewId] = e
        /\ OpenRun(log', leaf') = OpenRunStep(r, log', NewId)
    BY <1>1, <1>2, <2>1, AppendStep DEF SessionInv
  <2>3. OpenRun(log', leaf') # Bad
    <3>1. 0 # Bad
      BY SessionFacts DEF Bad
    <3> HIDE DEF r
    <3> QED BY <1>1, <1>2, <2>2, <3>1 DEF OpenRunStep, MessageTypes
  <2>4. ControlOK'
    BY <1>1, <1>4, <2>1, <2>2, <2>3 DEF ControlOK, SessionInv, LivePhases, pending
  <2> QED BY <2>2, <2>4 DEF SessionInv
<1>5. CASE OpenFails(e)
  BY <1>2, <1>5, OpenFailsStep
<1> QED BY <1>3, <1>4, <1>5

LEMMA RecoveredStep == ASSUME SessionInv, Recovered \/ RecoveredCheckpointFails PROVE SessionInv'
<1>1. phase = "recovering" /\ phase \in LivePhases /\ job = NoJob
  BY DEF Recovered, RecoveredCheckpointFails, LivePhases, SessionInv, ControlOK
<1>2. ASSUME Recovered, CacheOK' PROVE ControlOK'
  <2>1. ctx' \in Seq(0 .. MaxEntries)
    BY <1>2, ContextTyped DEF CacheOK, Recovered
  <2> QED BY <1>1, <1>2, <2>1 DEF Recovered, ControlOK, SessionInv, LivePhases, pending
<1>3. CASE Recovered
  <2> DEFINE e == CheckpointEntry
  <2>1. CASE NeedsCheckpoint /\ HasSpace /\ WriteRecord(e) /\ UpdateCache(e) /\ acked' = NewId
    <3>1. NewEntry(log, e) /\ e.parent = leaf
      BY <2>1, CheckpointFresh DEF NeedsCheckpoint
    <3>2. DiskOK' /\ CacheOK'
      BY <1>1, <2>1, <3>1, AppendStep DEF SessionInv
    <3> QED BY <1>2, <1>3, <3>2 DEF SessionInv
  <2>2. CASE UNCHANGED <<disk, acked, leaf, msgs, plug>>
    <3>1. DiskOK'
      BY <2>2 DEF DiskOK, SessionInv, disk
    <3>2. CacheOK'
      BY <1>1, <2>2 DEF CacheOK, Aligned, SessionInv, disk
    <3> QED BY <1>2, <1>3, <3>1, <3>2 DEF SessionInv
  <2> QED BY <1>3, <2>1, <2>2 DEF Recovered
<1>4. CASE RecoveredCheckpointFails
  <2>1. (HasSpace => NewEntry(log, CheckpointEntry)) /\ OpenFails(CheckpointEntry)
    BY <1>4, CheckpointFresh DEF RecoveredCheckpointFails, NeedsCheckpoint
  <2> QED BY <2>1, OpenFailsStep
<1> QED BY <1>3, <1>4

-----------------------------------------------------------------------------
(* The invariant of the Session holds in every state of every behaviour,   *)
(* also with tree operations inside Runs, late compactions and records     *)
(* that lost their newline.                                                *)
THEOREM SessionInvariant == SessionSpec => []SessionInv
<1>1. SessionInit => SessionInv
  <2> SUFFICES ASSUME SessionInit PROVE SessionInv
    OBVIOUS
  <2>1. log = <<>> /\ Len(log) = 0 /\ log \in Seq(EntryRecord) /\ <<>> \in Seq(Ids)
        /\ <<>> \in Seq(0 .. MaxEntries) /\ MaxEntries \in Nat
    BY SessionAssumption DEF SessionInit
  <2>2. LogOK(log)
    BY <2>1 DEF LogOK
  <2>3. Members(Path(log, 0)) = {}
    BY <2>2, PathMembers
  <2>4. LogInv(log)
    <3>1. PluginsOK(log) /\ AnsweredOnce(log)
      BY <2>1 DEF PluginsOK, AnsweredOnce
    <3>2. OneResult(log)
      <4>1. \A e \in 0 .. Len(log) : e = 0
        BY <2>1
      <4> QED BY <2>3, <4>1 DEF OneResult
    <3> QED BY <2>2, <3>1, <3>2 DEF LogInv
  <2>5. DiskOK
    <3>1. tail = "clean" /\ corrupt = FALSE /\ acked = 0
      BY DEF SessionInit
    <3>2. corrupt \in BOOLEAN
      BY <3>1, Zenon
    <3>3. acked \in Nat /\ acked <= Len(log)
      BY <2>1, <3>1
    <3> QED BY <2>4, <3>1, <3>2, <3>3 DEF DiskOK
  <2>6. CacheOK
    BY <2>1, <2>2, MessagesUp, PluginStateUp DEF CacheOK, Aligned, SessionInit
  <2>7. ControlOK
    <3>1. phase = "idle" /\ ctx = <<>> /\ failed = FALSE /\ plan = NoPlan /\ job = NoJob
      BY DEF SessionInit
    <3>2. NoPlan \in [target : 0 .. MaxEntries, source : 0 .. MaxEntries]
      BY <2>1 DEF NoPlan
    <3>3. NoJob \in [old : Seq(Ids), cut : Nat]
      BY <2>1 DEF NoJob
    <3> QED BY <2>1, <3>1, <3>2, <3>3 DEF ControlOK, LivePhases
  <2> QED BY <2>5, <2>6, <2>7 DEF SessionInv
<1>2. SessionInv /\ [SessionNext]_sessionVars => SessionInv'
  <2> SUFFICES ASSUME SessionInv, [SessionNext]_sessionVars PROVE SessionInv'
    OBVIOUS
  <2>1. CASE RunStart \/ Message \/ RunEnd \/ Checkpoint
    BY <2>1, RunStartStep, MessageStep, RunEndStep, CheckpointStep
  <2>2. CASE RunStartRefused \/ UnpersistedRun \/ RunCut
    BY <2>2, RunsOutsideLog
  <2>3. CASE (\E n \in {0, 1} : PluginState(n)) \/ (\E t \in 1 .. Len(log) : SwitchLeaf(t))
             \/ Branch \/ CompactManually
    BY <2>3, PluginStateStep, SwitchLeafStep, BranchStep, CompactManuallyStep
  <2>4. CASE (\E s \in 1 .. Len(log) : PrepareMerge(s)) \/ CommitMerge \/ MergeAbandoned
    BY <2>4, MergeStep
  <2>5. CASE CompactCommit \/ CompactSkipped
    BY <2>5, CompactCommitStep
  <2>6. CASE Close \/ Open \/ Recover \/ Recovered \/ RecoveredCheckpointFails
    BY <2>6, CloseStep, OpenStep, RecoverStep, RecoveredStep
  <2>7. CASE UNCHANGED sessionVars
    <3>1. DiskOK'
      BY <2>7 DEF SessionInv, DiskOK, sessionVars, disk
    <3>2. CacheOK'
      BY <2>7 DEF SessionInv, CacheOK, Aligned, sessionVars, disk, cache
    <3>3. ControlOK'
      BY <2>7 DEF SessionInv, ControlOK, sessionVars, disk, cache, pending
    <3> QED BY <3>1, <3>2, <3>3 DEF SessionInv
  <2> QED BY <2>1, <2>2, <2>3, <2>4, <2>5, <2>6, <2>7 DEF SessionNext
<1> QED BY <1>1, <1>2, PTL DEF SessionSpec

LEMMA SessionInvTypes == ASSUME SessionInv PROVE TypeOK /\ RestartAligned
<1>1. TypeOK
  <2>1. log \in Seq(EntryRecord) /\ Len(log) <= MaxEntries /\ \A e \in 1 .. Len(log) : log[e].parent < e
    BY DEF SessionInv, DiskOK, LogInv, LogOK
  <2>2. acked \in 0 .. MaxEntries
    <3>1. acked \in Nat /\ acked <= Len(log) /\ Len(log) \in Nat /\ MaxEntries \in Nat
      BY SessionFacts DEF SessionInv, DiskOK
    <3> QED BY <2>1, <3>1
  <2> QED BY <2>1, <2>2 DEF TypeOK, EntryRecord, SessionInv, DiskOK, CacheOK, ControlOK, LivePhases
<1>2. RestartAligned
  BY DEF SessionInv, CacheOK, Aligned, RestartAligned, Live, LivePhases
<1> QED BY <1>1, <1>2

(* Every variable of the Session keeps its type, the parent of an entry is *)
(* an earlier one, and the active leaf is an entry of the log, whatever    *)
(* was cut off or repaired.                                                *)
THEOREM SessionTypeCorrect == SessionSpec => []TypeOK
  BY SessionInvariant, SessionInvTypes, PTL

(* session.py _append_entry and open(): what a live manager keeps in       *)
(* memory, updated entry by entry, is what the next process would rebuild  *)
(* from the file.                                                          *)
THEOREM SessionRestartAligned == SessionSpec => []RestartAligned
  BY SessionInvariant, SessionInvTypes, PTL

(* session.py _read_session_file and _recover_interrupted_run: repairing a *)
(* torn tail removes no record whose append returned, and a Run ended by   *)
(* recovery, however often that was interrupted, has exactly one result    *)
(* for each of its Tool calls.                                             *)
THEOREM SessionLogKept == SessionSpec => []LogKept
<1>1. SessionInv => LogKept
  <2>1. AnsweredOnce(log) => RecoveredOnce
    BY DEF AnsweredOnce, RecoveredOnce
  <2> QED BY <2>1 DEF SessionInv, DiskOK, LogInv, LogKept, NothingLost
<1> QED BY <1>1, SessionInvariant, PTL

-----------------------------------------------------------------------------
(* The projected messages have no repetition, and a compaction that takes  *)
(* the first of them leaves the rest as it was.                            *)
Distinct(s) == \A i, j \in 1 .. Len(s) : s[i] = s[j] => i = j

LEMMA WithoutFirst ==
  ASSUME NEW X, NEW seq \in Seq(X), Distinct(seq), NEW c \in 0 .. Len(seq)
  PROVE  Without(seq, {seq[k] : k \in 1 .. c}) = SubSeq(seq, c + 1, Len(seq))
<1> DEFINE n == Len(seq)
           gone == {seq[k] : k \in 1 .. c}
           rest(k) == IF k <= c THEN <<>> ELSE SubSeq(seq, c + 1, k)
<1>1. n \in Nat /\ c \in Nat /\ c <= n
  OBVIOUS
<1>2. ASSUME NEW k \in 1 .. n PROVE seq[k] \in gone <=> k <= c
  <2>1. ASSUME k <= c PROVE seq[k] \in gone
    <3>1. k \in 1 .. c
      BY <1>1, <2>1
    <3> QED BY <3>1
  <2>2. ASSUME seq[k] \in gone PROVE k <= c
    <3>1. PICK i \in 1 .. c : seq[k] = seq[i]
      BY <2>2
    <3>2. i \in 1 .. n /\ i <= c
      BY <1>1
    <3>3. k = i
      BY <3>1, <3>2 DEF Distinct
    <3> QED BY <3>2, <3>3
  <2> QED BY <2>1, <2>2
<1>3. PICK w \in [0 .. n -> Seq(X)] : Withouts(w, seq, gone) /\ Without(seq, gone) = w[n]
  BY WithoutDefined
<1>4. w[0] = <<>>
  BY <1>1, <1>3 DEF Withouts
<1>5. \A k \in 1 .. n : /\ k - 1 \in 0 .. n /\ k \in 0 .. n
                        /\ w[k] = IF seq[k] \in gone THEN w[k - 1] ELSE Append(w[k - 1], seq[k])
  <2> TAKE k \in 1 .. n
  <2>1. k \in 0 .. n /\ k - 1 \in 0 .. n /\ k # 0
    BY <1>1
  <2> QED BY <1>3, <2>1 DEF Withouts
<1>6. ASSUME NEW k \in 1 .. n, ~(k <= c)
      PROVE  rest(k) = Append(rest(k - 1), seq[k])
  <2>1. c + 1 \in 1 .. Len(seq) /\ k \in c + 1 .. Len(seq) /\ rest(k) = SubSeq(seq, c + 1, k)
    BY <1>1, <1>6
  <2>2. SubSeq(seq, c + 1, k) = SubSeq(seq, c + 1, k - 1) \o <<seq[k]>>
    BY <2>1, SubSeqRecursiveSecond
  <2>3. SubSeq(seq, c + 1, k - 1) = rest(k - 1)
    <3>1. CASE k - 1 <= c
      <4>1. c + 1 \in Int /\ k - 1 \in Int /\ k - 1 < c + 1
        BY <1>1, <3>1
      <4>2. SubSeq(seq, c + 1, k - 1) = <<>>
        BY <4>1, SubSeqEmpty
      <4> QED BY <3>1, <4>2
    <3> QED BY <3>1
  <2>4. rest(k - 1) \in Seq(X)
    <3>1. \A i \in c + 1 .. k - 1 : seq[i] \in X
      BY <1>1
    <3>2. SubSeq(seq, c + 1, k - 1) \in Seq(X)
      BY <1>1, <3>1, SubSeqProperties
    <3> QED BY <2>3, <3>2
  <2> HIDE DEF rest
  <2>5. rest(k - 1) \o <<seq[k]>> = Append(rest(k - 1), seq[k])
    BY <1>1, <2>4
  <2> QED BY <2>1, <2>2, <2>3, <2>5
<1> DEFINE T == {k \in 0 .. n : w[k] = rest(k)}
<1>7. \A k \in 0 .. n : k \in T
  <2>1. 0 \in T
    BY <1>1, <1>4
  <2>2. ASSUME NEW k \in 1 .. n, Chain(n)[k] \in T PROVE k \in T
    <3>1. w[k - 1] = rest(k - 1)
      BY <1>1, <2>2, ChainUpward
    <3>2. CASE k <= c
      <4>1. k - 1 <= c /\ seq[k] \in gone
        BY <1>1, <1>2, <3>2
      <4>2. w[k] = w[k - 1]
        BY <1>5, <4>1
      <4> QED BY <1>5, <3>1, <3>2, <4>1, <4>2
    <3>3. CASE ~(k <= c)
      <4>1. seq[k] \notin gone
        BY <1>2, <3>3
      <4> HIDE DEF gone, rest
      <4>2. w[k] = Append(w[k - 1], seq[k])
        BY <1>5, <4>1
      <4> QED BY <1>5, <1>6, <3>1, <3>3, <4>2
    <3> QED BY <3>2, <3>3
  <2> HIDE DEF T, n
  <2> QED BY <1>1, <2>1, <2>2, ChainUpward, UpInduction
<1>8. w[n] = rest(n)
  BY <1>1, <1>7
<1>9. rest(n) = SubSeq(seq, c + 1, n)
  <2>1. CASE n <= c
    <3>1. c + 1 \in Int /\ n \in Int /\ n < c + 1
      BY <1>1, <2>1
    <3> QED BY <2>1, <3>1, SubSeqEmpty
  <2> QED BY <2>1
<1> QED BY <1>3, <1>8, <1>9

LEMMA CompactFirst ==
  ASSUME NEW seq \in Seq(Ids), Distinct(seq), NEW c \in 1 .. Len(seq), NEW e \in Ids
  PROVE  ProjectCompact(seq, {seq[k] : k \in 1 .. c}, e) = <<e>> \o SubSeq(seq, c + 1, Len(seq))
<1> DEFINE gone == {seq[k] : k \in 1 .. c}
           hit == {k \in 1 .. Len(seq) : seq[k] \in gone}
           kept == Without(seq, gone)
           first == CHOOSE k \in hit : \A j \in hit : k <= j
<1>1. Len(seq) \in Nat /\ 1 \in 1 .. Len(seq) /\ 1 \in 1 .. c
  OBVIOUS
<1>2. 1 \in hit /\ \A j \in hit : 1 <= j
  BY <1>1
<1>3. hit # {} /\ first = 1
  <2>0. \E k \in hit : \A j \in hit : k <= j
    <3> HIDE DEF hit
    <3> QED BY <1>2
  <2>1. first \in hit /\ \A j \in hit : first <= j
    <3> HIDE DEF hit
    <3> QED BY <2>0, Zenon
  <2> HIDE DEF first
  <2>2. first <= 1 /\ 1 <= first /\ first \in Nat
    BY <1>1, <1>2, <2>1
  <2> HIDE DEF hit
  <2> QED BY <1>2, <2>2
<1>4. kept = SubSeq(seq, c + 1, Len(seq)) /\ kept \in Seq(Ids)
  <2>1. kept = SubSeq(seq, c + 1, Len(seq))
    <3>1. c \in 0 .. Len(seq)
      BY <1>1
    <3> QED BY <3>1, WithoutFirst
  <2>2. SubSeq(seq, c + 1, Len(seq)) \in Seq(Ids)
    <3>1. \A i \in c + 1 .. Len(seq) : seq[i] \in Ids
      BY <1>1
    <3> QED BY <1>1, <3>1, SubSeqProperties
  <2> HIDE DEF kept
  <2> QED BY <2>1, <2>2
<1>5. ProjectCompact(seq, gone, e) = SubSeq(kept, 1, first - 1) \o <<e>> \o SubSeq(kept, first, Len(kept))
  <2>1. first - 1 + 1 = first
    <3> HIDE DEF first
    <3> QED BY <1>3
  <2>2. (IF hit = {} THEN Len(kept) ELSE first - 1) = first - 1
    BY <1>3
  <2> QED BY <2>1, <2>2, Zenon DEF ProjectCompact
<1> HIDE DEF kept, gone, first
<1>6. SubSeq(kept, 1, 0) = <<>> /\ SubSeq(kept, 1, Len(kept)) = kept
  BY <1>4, SubSeqEmpty, SubSeqFull
<1>7. first - 1 = 0
  BY <1>3
<1>8. ProjectCompact(seq, gone, e) = <<>> \o <<e>> \o kept
  BY <1>3, <1>5, <1>6, <1>7, Zenon
<1>9. <<>> \o <<e>> = <<e>>
  OBVIOUS
<1> QED BY <1>4, <1>8, <1>9, Zenon DEF gone, kept
-----------------------------------------------------------------------------
(* Position k of s belongs to a turn that a opened: after a come only Tool *)
(* results, up to k.                                                       *)
Answers(es, s, a, k) ==
  \E j \in 1 .. k : /\ s[j] = a /\ es[a].type # "tool"
                    /\ \A i \in j + 1 .. k : es[s[i]].type = "tool"

WellPaired(es, s) ==
  \A k \in 1 .. Len(s) : es[s[k]].type = "tool" => Answers(es, s, es[s[k]].of, k)

LEMMA AnswersAppend ==
  ASSUME NEW es, NEW s \in Seq(Ids), NEW v \in Ids, NEW a, NEW k \in 0 .. Len(s), Answers(es, s, a, k)
  PROVE  /\ Answers(es, Append(s, v), a, k)
         /\ k = Len(s) /\ es[v].type = "tool" => Answers(es, Append(s, v), a, Len(s) + 1)
<1> DEFINE t == Append(s, v)
<1>1. PICK j \in 1 .. k : s[j] = a /\ es[a].type # "tool" /\ \A i \in j + 1 .. k : es[s[i]].type = "tool"
  BY DEF Answers
<1>2. Len(s) \in Nat /\ t[Len(s) + 1] = v /\ \A i \in 1 .. Len(s) : t[i] = s[i]
  OBVIOUS
<1> HIDE DEF t
<1>3. t[j] = a /\ \A i \in j + 1 .. k : t[i] = s[i]
  <2>1. j \in 1 .. Len(s) /\ \A i \in j + 1 .. k : i \in 1 .. Len(s)
    BY <1>2
  <2> QED BY <1>1, <1>2, <2>1
<1>4. Answers(es, t, a, k)
  BY <1>1, <1>3 DEF Answers
<1>5. ASSUME k = Len(s), es[v].type = "tool" PROVE Answers(es, t, a, Len(s) + 1)
  <2>1. j \in 1 .. Len(s) + 1
        /\ \A i \in j + 1 .. Len(s) + 1 : i \in j + 1 .. k \/ i = Len(s) + 1
    BY <1>2, <1>5
  <2>2. \A i \in j + 1 .. Len(s) + 1 : es[t[i]].type = "tool"
    BY <1>1, <1>2, <1>3, <1>5, <2>1
  <2> QED BY <1>1, <1>3, <2>1, <2>2 DEF Answers
<1> QED BY <1>4, <1>5 DEF t

LEMMA PairedAppend ==
  ASSUME NEW es, NEW s \in Seq(Ids), NEW v \in Ids, WellPaired(es, s),
         es[v].type = "tool" => Answers(es, s, es[v].of, Len(s))
  PROVE  WellPaired(es, Append(s, v))
<1> DEFINE t == Append(s, v)
<1>1. /\ Len(s) \in Nat /\ Len(t) = Len(s) + 1 /\ t[Len(s) + 1] = v
      /\ \A i \in 1 .. Len(s) : t[i] = s[i]
  OBVIOUS
<1>2. \A k \in 1 .. Len(t) : k \in 1 .. Len(s) \/ k = Len(s) + 1
  BY <1>1
<1>3. Len(s) \in 0 .. Len(s) /\ \A k \in 1 .. Len(s) : k \in 0 .. Len(s)
  BY <1>1
<1>4. ASSUME NEW k \in 1 .. Len(s), es[t[k]].type = "tool" PROVE Answers(es, t, es[t[k]].of, k)
  <2>1. Answers(es, s, es[s[k]].of, k) /\ t[k] = s[k] /\ k \in 0 .. Len(s)
    BY <1>1, <1>3, <1>4 DEF WellPaired
  <2>2. Answers(es, t, es[s[k]].of, k)
    BY <2>1, AnswersAppend
  <2> QED BY <2>1, <2>2
<1>5. ASSUME es[v].type = "tool" PROVE Answers(es, t, es[v].of, Len(s) + 1)
  BY <1>3, <1>5, AnswersAppend
<1> HIDE DEF t
<1>6. \A k \in 1 .. Len(t) : es[t[k]].type = "tool" => Answers(es, t, es[t[k]].of, k)
  BY <1>1, <1>2, <1>4, <1>5
<1> QED BY <1>6 DEF WellPaired, t

LEMMA TailOfCompact ==
  ASSUME NEW s \in Seq(Ids), NEW v \in Ids, NEW c \in 1 .. Len(s) - 1
  PROVE  LET t == <<v>> \o SubSeq(s, c + 1, Len(s)) IN
         /\ Len(s) \in Nat /\ Len(t) = Len(s) - c + 1 /\ t[1] = v
         /\ \A i \in 2 .. Len(s) - c + 1 : t[i] = s[c + i - 1]
<1> DEFINE rest == SubSeq(s, c + 1, Len(s))
           t == <<v>> \o rest
<1>1. Len(s) \in Nat /\ c \in Nat /\ c + 1 <= Len(s) /\ \A i \in c + 1 .. Len(s) : s[i] \in Ids
  OBVIOUS
<1>2. rest \in Seq(Ids) /\ Len(rest) = Len(s) - c /\ \A i \in 1 .. Len(s) - c : rest[i] = s[c + i]
  <2>1. c + 1 \in Int /\ Len(s) \in Int /\ Len(s) - (c + 1) + 1 = Len(s) - c
    BY <1>1
  <2>2. /\ rest \in Seq(Ids) /\ Len(rest) = Len(s) - (c + 1) + 1
        /\ \A i \in 1 .. Len(s) - (c + 1) + 1 : rest[i] = s[c + 1 + i - 1]
    BY <1>1, <2>1, SubSeqProperties
  <2> HIDE DEF rest
  <2>3. \A i \in 1 .. Len(s) - c : c + 1 + i - 1 = c + i
    BY <1>1
  <2> QED BY <2>1, <2>2, <2>3
<1> HIDE DEF rest
<1>3. Len(t) = Len(s) - c + 1 /\ t[1] = v /\ \A i \in 2 .. Len(s) - c + 1 : t[i] = s[c + i - 1]
  <2>1. <<v>> \in Seq(Ids) /\ Len(<<v>>) = 1 /\ <<v>>[1] = v
    OBVIOUS
  <2>2. /\ Len(t) = 1 + (Len(s) - c)
        /\ \A i \in 1 .. 1 + (Len(s) - c) : t[i] = IF i <= 1 THEN <<v>>[i] ELSE rest[i - 1]
    <3>1. /\ Len(t) = Len(<<v>>) + Len(rest)
          /\ \A i \in 1 .. Len(<<v>>) + Len(rest) :
               t[i] = IF i <= Len(<<v>>) THEN <<v>>[i] ELSE rest[i - Len(<<v>>)]
      BY <1>2, <2>1, ConcatProperties
    <3> HIDE DEF t
    <3> QED BY <1>2, <2>1, <3>1
  <2> HIDE DEF t
  <2>3. ASSUME NEW i \in 2 .. Len(s) - c + 1 PROVE t[i] = s[c + i - 1]
    <3>1. i \in 1 .. 1 + (Len(s) - c) /\ ~(i <= 1) /\ i - 1 \in 1 .. Len(s) - c /\ c + (i - 1) = c + i - 1
      BY <1>1
    <3> QED BY <1>2, <2>2, <3>1
  <2>4. 1 \in 1 .. 1 + (Len(s) - c) /\ Len(t) = Len(s) - c + 1
    BY <1>1, <2>2
  <2> QED BY <2>1, <2>2, <2>3, <2>4
<1> QED BY <1>1, <1>3 DEF t, rest

(* find_cut_point never cuts before a Tool result.                         *)
LEMMA PairedCompact ==
  ASSUME NEW es, NEW s \in Seq(Ids), NEW v \in Ids, WellPaired(es, s), es[v].type # "tool",
         NEW c \in 1 .. Len(s) - 1, es[s[c + 1]].type # "tool"
  PROVE  WellPaired(es, <<v>> \o SubSeq(s, c + 1, Len(s)))
<1> DEFINE t == <<v>> \o SubSeq(s, c + 1, Len(s))
<1>1. Len(s) \in Nat /\ c \in Nat /\ c + 1 <= Len(s)
  OBVIOUS
<1>3. Len(t) = Len(s) - c + 1 /\ t[1] = v /\ \A i \in 2 .. Len(s) - c + 1 : t[i] = s[c + i - 1]
  BY TailOfCompact
<1> HIDE DEF t
<1>4. ASSUME NEW k \in 1 .. Len(t), es[t[k]].type = "tool" PROVE Answers(es, t, es[t[k]].of, k)
  <2> DEFINE m == c + k - 1
  <2>1. k # 1
    BY <1>3, <1>4
  <2>2. k \in 2 .. Len(s) - c + 1 /\ m \in 1 .. Len(s) /\ m \in c + 1 .. Len(s)
    BY <1>1, <1>3, <2>1
  <2>3. t[k] = s[m]
    BY <1>3, <2>2
  <2>4. PICK j \in 1 .. m : /\ s[j] = es[s[m]].of /\ es[es[s[m]].of].type # "tool"
                            /\ \A i \in j + 1 .. m : es[s[i]].type = "tool"
    BY <1>4, <2>2, <2>3 DEF WellPaired, Answers
  <2>5. c + 1 <= j
    <3>1. ASSUME ~(c + 1 <= j) PROVE c + 1 \in j + 1 .. m
      BY <1>1, <2>2, <3>1
    <3> QED BY <2>4, <3>1
  <2> DEFINE l == j - c + 1
  <2>6. l \in 1 .. k /\ l \in 2 .. Len(s) - c + 1 /\ c + l - 1 = j
    BY <1>1, <2>2, <2>5
  <2>7. t[l] = s[j]
    BY <1>3, <2>6
  <2>8. ASSUME NEW i \in l + 1 .. k PROVE es[t[i]].type = "tool"
    <3>1. i \in 2 .. Len(s) - c + 1 /\ c + i - 1 \in j + 1 .. m
      BY <1>1, <2>2, <2>6
    <3> QED BY <1>3, <2>4, <3>1
  <2> HIDE DEF l, m
  <2> QED BY <2>3, <2>4, <2>6, <2>7, <2>8 DEF Answers
<1>5. WellPaired(es, t)
  BY <1>4 DEF WellPaired
<1> QED BY <1>5 DEF t

LEMMA DistinctNext ==
  ASSUME NEW s \in Seq(Ids), Distinct(s), NEW v \in Ids, \A k \in 1 .. Len(s) : s[k] # v
  PROVE  /\ Distinct(Append(s, v))
         /\ \A c \in 1 .. Len(s) - 1 : Distinct(<<v>> \o SubSeq(s, c + 1, Len(s)))
<1>1. Distinct(Append(s, v))
  <2> DEFINE t == Append(s, v)
  <2>1. /\ Len(s) \in Nat /\ Len(t) = Len(s) + 1 /\ t[Len(s) + 1] = v
        /\ \A i \in 1 .. Len(s) : t[i] = s[i]
    OBVIOUS
  <2>2. \A k \in 1 .. Len(t) : k \in 1 .. Len(s) \/ k = Len(s) + 1
    BY <2>1
  <2> HIDE DEF t
  <2>3. Distinct(t)
    BY <2>1, <2>2 DEF Distinct
  <2> QED BY <2>3 DEF t
<1>2. ASSUME NEW c \in 1 .. Len(s) - 1 PROVE Distinct(<<v>> \o SubSeq(s, c + 1, Len(s)))
  <2> DEFINE t == <<v>> \o SubSeq(s, c + 1, Len(s))
  <2>1. /\ Len(s) \in Nat /\ Len(t) = Len(s) - c + 1 /\ t[1] = v
        /\ \A i \in 2 .. Len(s) - c + 1 : t[i] = s[c + i - 1]
    BY TailOfCompact
  <2> HIDE DEF t
  <2>2. \A i \in 1 .. Len(t) : i = 1 \/ (i \in 2 .. Len(s) - c + 1 /\ c + i - 1 \in 1 .. Len(s))
    BY <2>1
  <2> SUFFICES ASSUME NEW i \in 1 .. Len(t), NEW j \in 1 .. Len(t), t[i] = t[j] PROVE i = j
    BY DEF Distinct, t
  <2>3. CASE i = 1 \/ j = 1
    BY <2>1, <2>2, <2>3
  <2>4. CASE i # 1 /\ j # 1
    <3>1. s[c + i - 1] = s[c + j - 1] /\ c + i - 1 \in 1 .. Len(s) /\ c + j - 1 \in 1 .. Len(s)
      BY <2>1, <2>2, <2>4
    <3>2. c + i - 1 = c + j - 1
      BY <3>1 DEF Distinct
    <3> QED BY <2>2, <3>2
  <2> QED BY <2>3, <2>4
<1> QED BY <1>1, <1>2
-----------------------------------------------------------------------------
(* What is true of a log whose tree operations were anchored between Runs: *)
(* its paths are sequences of Runs, every entry can be read back, and the  *)
(* messages at an entry keep the Tool results with their calls.            *)
Ordered(es, e) ==
  /\ \A k \in 1 .. Len(ProjectMessages(es, e)) : ProjectMessages(es, e)[k] \in 1 .. e
  /\ Distinct(ProjectMessages(es, e))
  /\ WellPaired(es, ProjectMessages(es, e))

CallsOpen(es, e) ==
  OpenRun(es, e) # 0 =>
    \A c \in MissingCalls(es, e, OpenRun(es, e)) :
      Answers(es, ProjectMessages(es, e), c[1], Len(ProjectMessages(es, e)))

OrderInv(es) ==
  /\ \A e \in 0 .. Len(es) : OpenRun(es, e) # Bad /\ Ordered(es, e) /\ CallsOpen(es, e)
  /\ \A e \in 1 .. Len(es) : /\ RunIdReadable(es[e])
                             /\ es[e].type = "merge" => MergeReadable(es, e)
                             /\ es[e].type = "assistant" => es[e].run < e

Joins(es, s, p) ==
  /\ s \in Leaves(es)
  /\ Members(Path(es, s)) \intersect Members(Path(es, p)) # {}
  /\ Members(Path(es, s)) \ Members(Path(es, p)) # {}

(* An entry that fits the place where it is appended.                      *)
InRun == MessageTypes \union {"run_end"}

Admitted(es, x) ==
  /\ RunIdReadable(x)
  /\ x.type = "plugin" => x.run = OpenRun(es, x.parent)
  /\ x.type \in InRun => OpenRun(es, x.parent) # 0 /\ x.run = OpenRun(es, x.parent)
  /\ x.type \notin InRun \union {"plugin"} => OpenRun(es, x.parent) = 0
  /\ x.type \in {"user", "assistant"} => MissingCalls(es, x.parent, x.run) = {}
  /\ x.type = "tool" => <<x.of, x.n>> \in MissingCalls(es, x.parent, x.run)
  /\ x.type = "merge" => Joins(es, x.of, x.parent)
  /\ x.type = "compact" =>
       \/ x.gone = {}
       \/ \E c \in 1 .. Len(ProjectMessages(es, x.parent)) - 1 :
            /\ x.gone = {ProjectMessages(es, x.parent)[k] : k \in 1 .. c}
            /\ es[ProjectMessages(es, x.parent)[c + 1]].type # "tool"

LEMMA OpenRunBelow ==
  ASSUME NEW es, LogOK(es), OrderInv(es)
  PROVE  \A e \in 0 .. Len(es) : OpenRun(es, e) \in 0 .. e
<1> DEFINE T == {e \in 0 .. Len(es) : OpenRun(es, e) \in 0 .. e}
<1>1. 0 \in T
  BY OpenRunUp, UpOK
<1>2. ASSUME NEW k \in 1 .. Len(es), Up(es)[k] \in T PROVE k \in T
  <2> DEFINE v == OpenRun(es, es[k].parent)
  <2>1. es[k].parent \in T /\ es[k].parent \in 0 .. k - 1 /\ k \in 0 .. Len(es)
    BY <1>2, UpOK
  <2>2. v \in 0 .. k - 1 /\ k \in Nat
    BY <2>1
  <2>3. OpenRun(es, k) = OpenRunStep(v, es, k) /\ OpenRun(es, k) # Bad
    BY <2>1, OpenRunUp DEF OrderInv
  <2> HIDE DEF v
  <2>4. OpenRunStep(v, es, k) \in {v, k, 0, Bad}
    BY Zenon DEF OpenRunStep
  <2>5. OpenRun(es, k) \in 0 .. k
    BY <2>2, <2>3, <2>4
  <2> QED BY <2>1, <2>5
<1>3. \A e \in 0 .. Len(es) : e \in T
  <2> HIDE DEF T
  <2> QED BY <1>1, <1>2, UpOK, UpInduction
<1> QED BY <1>3

(* _path_has_open_run is no weaker than _open_run on such a log.           *)
OpenPaths(p, es) ==
  p = [k \in 0 .. Len(es) |->
         IF k = 0 THEN 0
         ELSE LET open == p[es[k].parent] IN
              IF open = Bad THEN Bad
              ELSE IF es[k].type = "run_start" THEN IF open = 0 THEN k ELSE Bad
              ELSE IF es[k].type = "run_end" THEN IF open = es[k].run THEN 0 ELSE Bad
              ELSE open]

LEMMA PathHasOpenRunIs ==
  ASSUME NEW es, LogOK(es), OrderInv(es), NEW e \in 0 .. Len(es)
  PROVE  PathHasOpenRun(es, e) <=> OpenRun(es, e) # 0
<1> DEFINE f == [k \in 0 .. Len(es) |-> OpenRun(es, k)]
           After(v, k) ==
             IF v = Bad THEN Bad
             ELSE IF es[k].type = "run_start" THEN IF v = 0 THEN k ELSE Bad
             ELSE IF es[k].type = "run_end" THEN IF v = es[k].run THEN 0 ELSE Bad
             ELSE v
<1>1. ASSUME NEW k \in 1 .. Len(es)
      PROVE  OpenRun(es, k) = After(OpenRun(es, es[k].parent), k)
  <2> DEFINE v == OpenRun(es, es[k].parent)
  <2>1. OpenRun(es, k) = OpenRunStep(v, es, k) /\ OpenRun(es, k) # Bad /\ v # Bad
    BY <1>1, OpenRunUp, UpOK DEF OrderInv
  <2> HIDE DEF v
  <2>2. OpenRunStep(v, es, k) # Bad /\ v # Bad => OpenRunStep(v, es, k) = After(v, k)
    BY DEF OpenRunStep, MessageTypes
  <2> QED BY <2>1, <2>2 DEF v
<1>2. OpenPaths(f, es)
  <2>1. ASSUME NEW k \in 0 .. Len(es)
        PROVE  f[k] = IF k = 0 THEN 0 ELSE After(f[es[k].parent], k)
    <3>1. CASE k = 0
      BY <3>1, OpenRunUp
    <3>2. CASE k # 0
      <4>1. k \in 1 .. Len(es) /\ es[k].parent \in 0 .. Len(es)
        BY <3>2, UpOK
      <4>2. f[es[k].parent] = OpenRun(es, es[k].parent) /\ f[k] = OpenRun(es, k)
        BY <4>1
      <4> HIDE DEF f, After
      <4> QED BY <1>1, <3>2, <4>1, <4>2
    <3> QED BY <3>1, <3>2
  <2> QED BY <2>1, Zenon DEF OpenPaths
<1> DEFINE p == CHOOSE p : OpenPaths(p, es)
<1>3. OpenPaths(p, es)
  BY <1>2, Zenon
<1>4. PathHasOpenRun(es, e) <=> p[e] # 0
  BY Zenon DEF PathHasOpenRun, OpenPaths
<1> HIDE DEF p
<1>5. \A k \in 0 .. Len(es) : p[k] = IF k = 0 THEN 0 ELSE After(p[es[k].parent], k)
  BY <1>3 DEF OpenPaths
<1> DEFINE T == {k \in 0 .. Len(es) : p[k] = OpenRun(es, k)}
<1> HIDE DEF After
<1>6. 0 \in T
  BY <1>5, OpenRunUp, UpOK
<1>7. ASSUME NEW k \in 1 .. Len(es), Up(es)[k] \in T PROVE k \in T
  BY <1>1, <1>5, <1>7, UpOK
<1>8. \A k \in 0 .. Len(es) : k \in T
  <2> HIDE DEF T
  <2> QED BY <1>6, <1>7, UpOK, UpInduction
<1> QED BY <1>4, <1>8

(* A longer log keeps the order of a shorter one.                          *)
LEMMA AnswersKept ==
  ASSUME NEW es, NEW fs, NEW s, \A k \in 1 .. Len(s) : fs[s[k]] = es[s[k]], Len(s) \in Nat
  PROVE  /\ \A a : \A k \in 0 .. Len(s) : Answers(es, s, a, k) => Answers(fs, s, a, k)
         /\ WellPaired(es, s) => WellPaired(fs, s)
<1>1. ASSUME NEW a, NEW k \in 0 .. Len(s), Answers(es, s, a, k) PROVE Answers(fs, s, a, k)
  <2>1. PICK j \in 1 .. k : s[j] = a /\ es[a].type # "tool" /\ \A i \in j + 1 .. k : es[s[i]].type = "tool"
    BY <1>1 DEF Answers
  <2>2. j \in 1 .. Len(s) /\ \A i \in j + 1 .. k : i \in 1 .. Len(s)
    OBVIOUS
  <2> QED BY <2>1, <2>2 DEF Answers
<1>2. \A k \in 1 .. Len(s) : k \in 0 .. Len(s)
  OBVIOUS
<1> QED BY <1>1, <1>2 DEF WellPaired

LEMMA OrderKept ==
  ASSUME NEW es, NEW fs, Prefix(es, fs), OrderInv(es), NEW e \in 0 .. Len(es)
  PROVE  /\ OpenRun(fs, e) # Bad /\ Ordered(fs, e) /\ CallsOpen(fs, e)
         /\ e # 0 => /\ RunIdReadable(fs[e])
                     /\ fs[e].type = "merge" => MergeReadable(fs, e)
                     /\ fs[e].type = "assistant" => fs[e].run < e
<1> DEFINE s == ProjectMessages(es, e)
<1>1. /\ LogOK(es) /\ Len(es) \in Nat /\ s \in Seq(Ids) /\ Len(s) \in Nat
      /\ OpenRun(es, e) # Bad /\ Ordered(es, e) /\ CallsOpen(es, e)
  <2>1. LogOK(es) /\ Len(es) \in Nat /\ s \in Seq(Ids)
    BY UpOK, MessagesUp DEF Prefix
  <2>2. Len(s) \in Nat
    BY <2>1
  <2> QED BY <2>1, <2>2 DEF OrderInv
<1>2. /\ Path(fs, e) = Path(es, e) /\ OpenRun(fs, e) = OpenRun(es, e) /\ ProjectMessages(fs, e) = s
      /\ \A r : MissingCalls(fs, e, r) = MissingCalls(es, e, r)
  BY PrefixKept, PrefixCalls DEF MissingCalls
<1>3. \A k \in 1 .. Len(s) : fs[s[k]] = es[s[k]]
  <2>1. \A k \in 1 .. Len(s) : s[k] \in 1 .. e
    BY <1>1 DEF Ordered
  <2>2. 1 .. e \subseteq 1 .. Len(es)
    BY <1>1
  <2> QED BY <2>1, <2>2 DEF Prefix
<1> HIDE DEF s
<1>4. Len(s) \in 0 .. Len(s)
  BY <1>1
<1>5. (\A a : \A k \in 0 .. Len(s) : Answers(es, s, a, k) => Answers(fs, s, a, k))
      /\ (WellPaired(es, s) => WellPaired(fs, s))
  BY <1>1, <1>3, AnswersKept
<1>6. Ordered(fs, e)
  BY <1>1, <1>2, <1>5 DEF Ordered, s
<1>7. CallsOpen(fs, e)
  <2> SUFFICES ASSUME OpenRun(fs, e) # 0, NEW c \in MissingCalls(fs, e, OpenRun(fs, e))
               PROVE  Answers(fs, s, c[1], Len(s))
    BY <1>2 DEF CallsOpen
  <2>1. Answers(es, s, c[1], Len(s))
    BY <1>1, <1>2 DEF CallsOpen, s
  <2> QED BY <1>4, <1>5, <2>1
<1>8. ASSUME e # 0
      PROVE  /\ RunIdReadable(fs[e])
             /\ fs[e].type = "merge" => MergeReadable(fs, e)
             /\ fs[e].type = "assistant" => fs[e].run < e
  <2>1. e \in 1 .. Len(es) /\ fs[e] = es[e]
    BY <1>1, <1>8 DEF Prefix
  <2>2. ASSUME es[e].type = "merge" PROVE MergeReadable(fs, e)
    <3>1. MergeReadable(es, e)
      BY <2>1, <2>2 DEF OrderInv
    <3>2. es[e].of \in 0 .. Len(es) /\ es[e].parent \in 0 .. Len(es)
          /\ \A f \in 1 .. e - 1 : f \in 1 .. Len(es)
      BY <1>1, <2>1, <3>1, UpOK DEF MergeReadable
    <3>3. Path(fs, es[e].of) = Path(es, es[e].of) /\ Path(fs, es[e].parent) = Path(es, es[e].parent)
      BY <3>2, PrefixKept
    <3>4. \A f \in 1 .. e - 1 : fs[f] = es[f]
      BY <3>2 DEF Prefix
    <3> QED BY <2>1, <3>1, <3>3, <3>4 DEF MergeReadable
  <2> QED BY <2>1, <2>2 DEF OrderInv
<1> QED BY <1>1, <1>2, <1>6, <1>7, <1>8

(* What is missing after an entry was missing before it, or is asked by it.*)
LEMMA MissingNext ==
  ASSUME NEW es, LogOK(es), NEW x \in EntryRecord, Len(es) < MaxEntries, x.parent \in 0 .. Len(es),
         NEW r, NEW c \in MissingCalls(Append(es, x), Len(es) + 1, r)
  PROVE  \/ c \in MissingCalls(es, x.parent, r)
         \/ c[1] = Len(es) + 1 /\ x.type = "assistant"
<1> DEFINE fs == Append(es, x)
           n == Len(es) + 1
<1>1. /\ Prefix(es, fs) /\ fs[n] = x /\ n \in 1 .. Len(fs) /\ LogOK(fs)
      /\ \A k \in 1 .. Len(es) : fs[k] = es[k]
  BY AppendedLog DEF Prefix
<1> HIDE DEF fs
<1>2. /\ Members(Path(fs, n)) = Members(Path(es, x.parent)) \union {n}
      /\ \A k \in Members(Path(es, x.parent)) : fs[k] = es[k]
  <2>1. Members(Path(fs, n)) = Members(Path(fs, x.parent)) \union {n}
    BY <1>1, PathMembers
  <2>2. Members(Path(fs, x.parent)) = Members(Path(es, x.parent))
    BY <1>1, PrefixCalls
  <2>3. Members(Path(es, x.parent)) \subseteq 1 .. x.parent /\ 1 .. x.parent \subseteq 1 .. Len(es)
    BY PathMembers, UpOK
  <2> QED BY <1>1, <2>1, <2>2, <2>3
<1> HIDE DEF n
<1>3. /\ c \in Members(Path(fs, n)) \X (1 .. MaxCalls) /\ fs[c[1]].type = "assistant"
      /\ fs[c[1]].run = r /\ c[2] <= fs[c[1]].n /\ Results(fs, n, c[1], c[2]) = {}
  BY DEF MissingCalls, Calls, fs, n
<1>4. c[1] \in Members(Path(es, x.parent)) \union {n}
  BY <1>2, <1>3
<1>5. CASE c[1] \in Members(Path(es, x.parent))
  <2>1. c \in Members(Path(es, x.parent)) \X (1 .. MaxCalls)
    BY <1>3, <1>5
  <2>2. c \in Calls(es, x.parent, r)
    BY <1>2, <1>3, <1>5, <2>1 DEF Calls
  <2>3. Results(es, x.parent, c[1], c[2]) = {}
    BY <1>2, <1>3 DEF Results
  <2> QED BY <2>2, <2>3 DEF MissingCalls
<1>6. CASE c[1] = n
  BY <1>1, <1>3, <1>6 DEF n
<1> QED BY <1>4, <1>5, <1>6

(* The Run that is open after an entry that fits.                          *)
LEMMA NextRun ==
  ASSUME NEW es, NEW x, Admitted(es, x), OpenRun(es, x.parent) # Bad, NEW fs, NEW n, fs[n] = x
  PROVE  LET o == OpenRun(es, x.parent) IN
         OpenRunStep(o, fs, n) = IF x.type = "run_start" THEN n
                                 ELSE IF x.type \in MessageTypes \union {"plugin"} THEN o
                                 ELSE 0
<1> DEFINE o == OpenRun(es, x.parent)
<1>1. /\ o # Bad
      /\ x.type = "plugin" => x.run = o
      /\ x.type \in InRun => o # 0 /\ x.run = o
      /\ x.type \notin InRun \union {"plugin"} => o = 0
  BY DEF Admitted
<1> HIDE DEF o
<1>2. CASE x.type = "run_start"
  <2>1. o = 0
    BY <1>1, <1>2 DEF InRun, MessageTypes
  <2> QED BY <1>2, <2>1 DEF OpenRunStep, Bad, o
<1>3. CASE x.type \in InRun
  <2>1. x.type # "run_start" /\ x.type # "plugin"
    BY <1>3 DEF InRun, MessageTypes
  <2>2. OpenRunStep(o, fs, n) = IF x.type = "run_end" THEN 0 ELSE o
    BY <1>1, <1>3, <2>1 DEF OpenRunStep, InRun
  <2>3. x.type = "run_end" => x.type \notin MessageTypes
    BY DEF MessageTypes
  <2> QED BY <1>3, <2>1, <2>2, <2>3 DEF InRun, o
<1>4. CASE x.type = "plugin"
  <2>1. x.type # "run_start" /\ x.type \notin MessageTypes \union {"run_end"}
    BY <1>4 DEF MessageTypes
  <2> QED BY <1>1, <1>4, <2>1 DEF OpenRunStep, o
<1>5. CASE x.type \notin InRun \union {"plugin", "run_start"}
  <2>1. o = 0
    BY <1>1, <1>5
  <2> QED BY <1>1, <1>5, <2>1 DEF OpenRunStep, InRun, o
<1> QED BY <1>2, <1>3, <1>4, <1>5

LEMMA OrderAppend ==
  ASSUME NEW es, LogInv(es), OrderInv(es), NEW x, NewEntry(es, x), Admitted(es, x)
  PROVE  OrderInv(Append(es, x))
<1> DEFINE fs == Append(es, x)
           n == Len(es) + 1
           p == x.parent
           o == OpenRun(es, p)
           s == ProjectMessages(es, p)
           t == ProjectMessages(fs, n)
<1>1. /\ LogOK(es) /\ x \in EntryRecord /\ Len(es) < MaxEntries /\ p \in 0 .. Len(es)
      /\ Len(es) \in Nat /\ MaxEntries \in Nat
  BY UpOK, SessionAssumption DEF LogInv, NewEntry
<1>2. /\ Prefix(es, fs) /\ Len(fs) = n /\ fs[n] = x /\ n \in 1 .. Len(fs) /\ LogOK(fs)
      /\ \A k \in 1 .. Len(es) : fs[k] = es[k]
  BY <1>1, AppendedLog DEF Prefix
<1>3. /\ n \in Ids /\ n \in Nat /\ n # 0 /\ n \notin 1 .. Len(es)
      /\ \A e \in 0 .. Len(fs) : e \in 0 .. Len(es) \/ e = n
  BY <1>1, <1>2 DEF Ids
<1>4. o \in 0 .. p /\ o # Bad
  BY <1>1, OpenRunBelow DEF OrderInv
<1>5. OpenRun(fs, n) = OpenRunStep(o, fs, n) /\ t = Project(s, fs, n)
      /\ OpenRun(fs, p) = o /\ ProjectMessages(fs, p) = s
  <2>1. OpenRun(fs, p) = o /\ ProjectMessages(fs, p) = s
    BY <1>1, <1>2, PrefixKept
  <2> QED BY <1>2, <2>1, OpenRunUp, MessagesUp
<1>6. /\ s \in Seq(Ids) /\ Len(s) \in Nat /\ (\A k \in 1 .. Len(s) : s[k] \in 1 .. Len(es) /\ s[k] # n)
      /\ Distinct(s) /\ WellPaired(fs, s)
  <2>1. s \in Seq(Ids) /\ Ordered(fs, p) /\ Ordered(es, p)
    BY <1>1, <1>2, MessagesUp, OrderKept DEF OrderInv
  <2>2. Distinct(s) /\ WellPaired(fs, s) /\ \A k \in 1 .. Len(s) : s[k] \in 1 .. p
    BY <1>5, <2>1 DEF Ordered
  <2>3. Len(s) \in Nat /\ \A k \in 1 .. p : k \in 1 .. Len(es) /\ k # n
    BY <1>1, <1>3, <2>1
  <2> QED BY <2>1, <2>2, <2>3
<1>7. /\ OpenRun(fs, n) # Bad
      /\ OpenRun(fs, n) # 0 => OpenRun(fs, n) = o \/ (x.type = "run_start" /\ OpenRun(fs, n) = n)
  <2>1. n # Bad /\ 0 # Bad
    BY <1>1 DEF Bad
  <2>2. OpenRun(fs, n) = IF x.type = "run_start" THEN n
                         ELSE IF x.type \in MessageTypes \union {"plugin"} THEN o
                         ELSE 0
    <3> HIDE DEF fs, n
    <3> QED BY <1>2, <1>4, <1>5, NextRun
  <2> QED BY <1>4, <2>1, <2>2
<1>8. ASSUME t = Append(s, n), x.type = "tool" => Answers(fs, s, x.of, Len(s))
      PROVE  Ordered(fs, n)
  <2> HIDE DEF fs, s, t
  <2>1. Distinct(t) /\ WellPaired(fs, t)
    BY <1>2, <1>3, <1>6, <1>8, DistinctNext, PairedAppend
  <2>2. /\ Len(t) = Len(s) + 1 /\ t[Len(s) + 1] = n
        /\ \A k \in 1 .. Len(s) : t[k] = s[k]
    BY <1>3, <1>6, <1>8
  <2>3. \A k \in 1 .. Len(t) : k \in 1 .. Len(s) \/ k = Len(s) + 1
    BY <1>6, <2>2
  <2>4. n \in 1 .. n /\ 1 .. Len(es) \subseteq 1 .. n
    BY <1>1
  <2>5. \A k \in 1 .. Len(t) : t[k] \in 1 .. n
    BY <1>6, <2>2, <2>3, <2>4
  <2> QED BY <2>1, <2>5 DEF Ordered, t
<1>9. ASSUME NEW c \in 1 .. Len(s) - 1, t = <<n>> \o SubSeq(s, c + 1, Len(s)),
             fs[s[c + 1]].type # "tool", x.type # "tool"
      PROVE  Ordered(fs, n)
  <2> HIDE DEF fs, s, t
  <2>1. Distinct(t) /\ WellPaired(fs, t)
    BY <1>2, <1>3, <1>6, <1>9, DistinctNext, PairedCompact
  <2>2. /\ Len(t) = Len(s) - c + 1 /\ t[1] = n
        /\ \A i \in 2 .. Len(s) - c + 1 : t[i] = s[c + i - 1]
    BY <1>3, <1>6, <1>9, TailOfCompact
  <2>3. \A i \in 1 .. Len(t) : i = 1 \/ (i \in 2 .. Len(s) - c + 1 /\ c + i - 1 \in 1 .. Len(s))
    BY <1>6, <2>2
  <2>4. n \in 1 .. n /\ 1 .. Len(es) \subseteq 1 .. n
    BY <1>1
  <2>5. \A k \in 1 .. Len(t) : t[k] \in 1 .. n
    BY <1>6, <2>2, <2>3, <2>4
  <2> QED BY <2>1, <2>5 DEF Ordered, t
<1>10. o # 0 => \A c \in MissingCalls(es, p, o) : Answers(fs, s, c[1], Len(s))
  <2>1. CallsOpen(fs, p) /\ MissingCalls(fs, p, o) = MissingCalls(es, p, o)
    BY <1>1, <1>2, OrderKept, PrefixCalls DEF MissingCalls
  <2> QED BY <1>5, <2>1 DEF CallsOpen
<1>11. x.type = "tool" => Answers(fs, s, x.of, Len(s))
  <2> SUFFICES ASSUME x.type = "tool" PROVE Answers(fs, s, x.of, Len(s))
    OBVIOUS
  <2>1. o # 0 /\ <<x.of, x.n>> \in MissingCalls(es, p, o)
    BY DEF Admitted, InRun, MessageTypes
  <2>2. <<x.of, x.n>>[1] = x.of
    OBVIOUS
  <2> HIDE DEF o, s, fs, p
  <2> QED BY <1>10, <2>1, <2>2
<1>12. ASSUME x.type \in MessageTypes \union {"merge"}
       PROVE  Ordered(fs, n) /\ CallsOpen(fs, n)
  <2>1. t = Append(s, n)
    <3>1. fs[n].type \in MessageTypes \union {"merge"} /\ fs[n].type # "compact"
      BY <1>2, <1>12 DEF MessageTypes
    <3> HIDE DEF fs, s, t, n
    <3> QED BY <1>5, <3>1, Zenon DEF Project
  <2>2. Ordered(fs, n)
    BY <1>8, <1>11, <2>1
  <2>3. CallsOpen(fs, n)
    <3> SUFFICES ASSUME OpenRun(fs, n) # 0, NEW c \in MissingCalls(fs, n, OpenRun(fs, n))
                 PROVE  Answers(fs, t, c[1], Len(t))
      BY DEF CallsOpen
    <3>1. OpenRun(fs, n) = o /\ o # 0
      BY <1>7, <1>12 DEF MessageTypes
    <3>2. c \in MissingCalls(es, p, o) \/ (c[1] = n /\ x.type = "assistant")
      BY <1>1, <3>1, MissingNext
    <3>3. x.type # "merge" /\ x.run = o
      BY <3>1 DEF Admitted, InRun, MessageTypes
    <3>4. Len(t) = Len(s) + 1 /\ t[Len(s) + 1] = n /\ Len(s) + 1 \in 1 .. Len(s) + 1
      BY <1>3, <1>6, <2>1
    <3>5. CASE c[1] = n /\ x.type = "assistant"
      <4>1. fs[n].type # "tool" /\ \A i \in Len(s) + 2 .. Len(s) + 1 : FALSE
        BY <1>2, <1>6, <3>5
      <4>2. Len(s) + 1 + 1 = Len(s) + 2
        BY <1>6
      <4> HIDE DEF fs, s, t, n
      <4> QED BY <3>4, <3>5, <4>1, <4>2 DEF Answers
    <3>6. CASE c \in MissingCalls(es, p, o)
      <4>1. x.type = "tool"
        <5>1. x.type \in {"user", "assistant"} => MissingCalls(es, p, o) = {}
          BY <3>3 DEF Admitted
        <5> QED BY <1>12, <3>3, <3>6, <5>1 DEF MessageTypes
      <4>2. Answers(fs, s, c[1], Len(s)) /\ Len(s) \in 0 .. Len(s)
        BY <1>6, <1>10, <3>1, <3>6
      <4> HIDE DEF fs, s, t, n
      <4>3. Answers(fs, Append(s, n), c[1], Len(s) + 1)
        BY <1>2, <1>3, <1>6, <4>1, <4>2, AnswersAppend
      <4> QED BY <2>1, <3>4, <4>3
    <3> QED BY <3>2, <3>5, <3>6
  <2> QED BY <2>2, <2>3
<1>13. ASSUME x.type = "compact"
       PROVE  Ordered(fs, n) /\ CallsOpen(fs, n)
  <2>1. t = ProjectCompact(s, x.gone, n)
    <3>1. fs[n].type = "compact" /\ "compact" \notin MessageTypes \union {"merge"} /\ fs[n].gone = x.gone
      BY <1>2, <1>13 DEF MessageTypes
    <3> HIDE DEF fs, s, t, n
    <3> QED BY <1>5, <3>1, Zenon DEF Project
  <2>2. OpenRun(fs, n) = 0
    <3>1. o = 0
      BY <1>13 DEF Admitted, InRun, MessageTypes
    <3> QED BY <1>7, <1>13, <3>1
  <2>3. CASE x.gone = {}
    <3>1. t = Append(s, n)
      BY <1>3, <1>6, <2>1, <2>3, ProjectCompactTyped
    <3>2. Ordered(fs, n)
      BY <1>8, <1>13, <3>1
    <3> QED BY <2>2, <3>2 DEF CallsOpen
  <2>4. ASSUME NEW c \in 1 .. Len(s) - 1, x.gone = {s[k] : k \in 1 .. c}, es[s[c + 1]].type # "tool"
        PROVE  Ordered(fs, n) /\ CallsOpen(fs, n)
    <3>1. c \in 1 .. Len(s) /\ c + 1 \in 1 .. Len(s)
      BY <1>6
    <3>2. t = <<n>> \o SubSeq(s, c + 1, Len(s))
      <4> HIDE DEF s, t, n
      <4> QED BY <1>3, <1>6, <2>1, <2>4, <3>1, CompactFirst
    <3>3. fs[s[c + 1]].type # "tool"
      BY <1>2, <1>6, <2>4, <3>1
    <3>4. Ordered(fs, n)
      BY <1>9, <1>13, <2>4, <3>2, <3>3
    <3> QED BY <2>2, <3>4 DEF CallsOpen
  <2>5. x.gone = {} \/ \E c \in 1 .. Len(s) - 1 : x.gone = {s[k] : k \in 1 .. c} /\ es[s[c + 1]].type # "tool"
    BY <1>13 DEF Admitted
  <2> QED BY <2>3, <2>4, <2>5
<1>14. ASSUME x.type \notin MessageTypes \union {"merge", "compact"}
       PROVE  Ordered(fs, n) /\ CallsOpen(fs, n)
  <2>1. t = s
    <3> HIDE DEF fs, s, t, n
    <3>1. fs[n].type \notin MessageTypes \union {"merge"} /\ fs[n].type # "compact"
      BY <1>2, <1>14
    <3> QED BY <1>5, <3>1, Zenon DEF Project
  <2>2. Ordered(fs, n)
    <3>1. \A k \in 1 .. Len(s) : s[k] \in 1 .. n
      <4>1. 1 .. Len(es) \subseteq 1 .. n
        BY <1>1
      <4> HIDE DEF s, n
      <4> QED BY <1>6, <4>1
    <3> HIDE DEF s, fs
    <3> QED BY <1>6, <2>1, <3>1 DEF Ordered
  <2>3. CallsOpen(fs, n)
    <3> SUFFICES ASSUME OpenRun(fs, n) # 0, NEW c \in MissingCalls(fs, n, OpenRun(fs, n))
                 PROVE  Answers(fs, t, c[1], Len(t))
      BY DEF CallsOpen
    <3>1. c \in MissingCalls(es, p, OpenRun(fs, n))
      BY <1>1, <1>14, MissingNext DEF MessageTypes
    <3>2. OpenRun(fs, n) = o
      <4>1. ASSUME OpenRun(fs, n) = n PROVE FALSE
        <5>1. c[1] \in Members(Path(es, p)) /\ es[c[1]].type = "assistant" /\ es[c[1]].run = n
          BY <3>1, <4>1 DEF MissingCalls, Calls
        <5>2. Members(Path(es, p)) \subseteq 1 .. p
          BY <1>1, PathMembers
        <5>3. c[1] \in 1 .. Len(es) /\ c[1] < n
          BY <1>1, <5>1, <5>2
        <5>4. es[c[1]].run < c[1]
          BY <5>1, <5>3 DEF OrderInv
        <5> HIDE DEF n
        <5> QED BY <1>3, <5>1, <5>3, <5>4
      <4> QED BY <1>7, <4>1
    <3> HIDE DEF s, t, fs, n, o, p
    <3> QED BY <1>10, <2>1, <3>1, <3>2
  <2> QED BY <2>2, <2>3
<1>15. Ordered(fs, n) /\ CallsOpen(fs, n)
  BY <1>12, <1>13, <1>14
<1>16. RunIdReadable(fs[n]) /\ (fs[n].type = "assistant" => fs[n].run < n)
  <2>1. RunIdReadable(x)
    BY DEF Admitted
  <2>2. x.type = "assistant" => x.run = o
    BY DEF Admitted, InRun, MessageTypes
  <2>3. o < n
    BY <1>1, <1>4
  <2> QED BY <1>2, <2>1, <2>2, <2>3
<1>17. fs[n].type = "merge" => MergeReadable(fs, n)
  <2> SUFFICES ASSUME x.type = "merge" PROVE MergeReadable(fs, n)
    BY <1>2
  <2>1. Joins(es, x.of, p)
    BY DEF Admitted
  <2>2. x.of \in 1 .. Len(es) /\ x.of \in 0 .. Len(es) /\ \A f \in 1 .. Len(es) : es[f].parent # x.of
    BY <2>1 DEF Joins, Leaves
  <2>3. Path(fs, x.of) = Path(es, x.of) /\ Path(fs, p) = Path(es, p) /\ n - 1 = Len(es)
    BY <1>1, <1>2, <2>2, PrefixKept
  <2> HIDE DEF fs, n
  <2>4. \A f \in 1 .. n - 1 : fs[f].parent # x.of
    BY <1>2, <2>2, <2>3
  <2> QED BY <1>2, <2>1, <2>2, <2>3, <2>4 DEF MergeReadable, Joins
<1> HIDE DEF fs, n
<1>18. ASSUME NEW e \in 0 .. Len(fs)
       PROVE  /\ OpenRun(fs, e) # Bad /\ Ordered(fs, e) /\ CallsOpen(fs, e)
              /\ e # 0 => /\ RunIdReadable(fs[e])
                          /\ fs[e].type = "merge" => MergeReadable(fs, e)
                          /\ fs[e].type = "assistant" => fs[e].run < e
  <2>1. CASE e = n
    BY <1>7, <1>15, <1>16, <1>17, <2>1
  <2>2. CASE e \in 0 .. Len(es)
    BY <1>2, <2>2, OrderKept
  <2> QED BY <1>3, <2>1, <2>2
<1>19. \A e \in 1 .. Len(fs) : e \in 0 .. Len(fs) /\ e # 0
  BY <1>2, <1>3
<1>20. OrderInv(fs)
  BY <1>18, <1>19 DEF OrderInv
<1> QED BY <1>20 DEF fs
-----------------------------------------------------------------------------
(* The invariant of a Session whose tree operations are anchored between   *)
(* Runs, whose compactions nothing overtakes and whose writes never stop   *)
(* right before the newline (README, Findings, on the other three cases).  *)
Guarded == ~AnyAnchor /\ ~LateCompaction /\ ~Unterminated

FaithDisk == OrderInv(log) /\ corrupt = FALSE /\ tail \in {"clean", "torn"}

JobFits(j) ==
  /\ j.old = msgs /\ j.cut \in 1 .. Len(msgs) - 1
  /\ log[msgs[j.cut + 1]].type # "tool"

FaithControl ==
  /\ phase # "refused"
  /\ phase = "running" => OpenRun(log, leaf) # 0
  /\ phase = "ending" => OpenRun(log, leaf) = 0 /\ log[leaf].run # 0
  /\ job # NoJob => phase = "idle" /\ OpenRun(log, leaf) = 0 /\ log[leaf].run # 0 /\ JobFits(job)
  /\ phase \in {"idle", "running", "ending"} /\ ~failed => ctx = msgs

FaithInv == FaithDisk /\ FaithControl

LEMMA FaithFacts ==
  ASSUME Guarded, SessionInv, FaithInv
  PROVE  /\ Free <=> job = NoJob
         /\ \A t : MayAnchor(t) <=> OpenRun(log, t) = 0 /\ log[t].run # 0
         /\ \A e \in 0 .. Len(log) : OpenRun(log, e) # Bad
         /\ OpenRun(log, leaf) # Bad /\ OpenRun(log, leaf) \in 0 .. MaxEntries
         /\ phase \in LivePhases => msgs = ProjectMessages(log, leaf) /\ leaf = Len(log)
         /\ phase \in LivePhases => \A k \in 1 .. Len(msgs) : msgs[k] \in 1 .. Len(log)
         /\ LogInv(log) /\ LogOK(log) /\ OrderInv(log)
<1>1. (Free <=> job = NoJob) /\ \A t : MayAnchor(t) <=> OpenRun(log, t) = 0 /\ log[t].run # 0
  BY DEF Guarded, Free, MayAnchor
<1>2. LogInv(log) /\ LogOK(log) /\ OrderInv(log) /\ leaf \in 0 .. Len(log)
  BY SessionFacts DEF SessionInv, DiskOK, FaithInv, FaithDisk
<1>3. \A e \in 0 .. Len(log) : OpenRun(log, e) # Bad
  BY <1>2 DEF OrderInv
<1>4. OpenRun(log, leaf) # Bad /\ OpenRun(log, leaf) \in 0 .. MaxEntries
  BY <1>2, <1>3, SessionFacts
<1>5. phase \in LivePhases => msgs = ProjectMessages(log, leaf) /\ leaf = Len(log)
  BY DEF SessionInv, CacheOK, Aligned
<1>6. ASSUME phase \in LivePhases PROVE \A k \in 1 .. Len(msgs) : msgs[k] \in 1 .. Len(log)
  <2>1. Ordered(log, leaf)
    BY <1>2 DEF OrderInv
  <2> QED BY <1>5, <1>6, <2>1 DEF Ordered
<1> QED BY <1>1, <1>2, <1>3, <1>4, <1>5, <1>6

(* A successful append of an entry that fits.                              *)
LEMMA FaithAppend ==
  ASSUME SessionInv, FaithInv, phase \in LivePhases, NEW x, NewEntry(log, x), Admitted(log, x),
         x.type \notin {"compact", "leaf", "merge"} => x.parent = leaf,
         WriteRecord(x), UpdateCache(x), acked' = NewId
  PROVE  /\ FaithDisk' /\ leaf' = NewId /\ leaf' # 0 /\ log'[leaf'] = x
         /\ log' = Append(log, x) /\ msgs' = ProjectMessages(log', NewId)
         /\ \A k \in 1 .. Len(log) : log'[k] = log[k]
         /\ x.type = "run_start" => OpenRun(log', leaf') # 0
         /\ x.type \in MessageTypes \union {"plugin"} => OpenRun(log', leaf') = OpenRun(log, x.parent)
         /\ x.type \notin MessageTypes \union {"plugin", "run_start"} => OpenRun(log', leaf') = 0
         /\ x.type \in MessageTypes => msgs' = Append(msgs, NewId)
         /\ x.type \notin MessageTypes \union {"compact", "leaf", "merge"} => msgs' = msgs
<1> DEFINE o == OpenRun(log, x.parent)
<1>1. /\ DiskOK' /\ CacheOK' /\ leaf' = NewId /\ log' = Append(log, x) /\ log'[NewId] = x /\ leaf' # 0
      /\ Prefix(log, log') /\ msgs' = ProjectMessages(log', NewId)
      /\ OpenRun(log', leaf') = OpenRunStep(o, log', NewId)
  BY AppendStep DEF SessionInv
<1>2. FaithDisk'
  <2>1. OrderInv(log')
    BY <1>1, OrderAppend DEF SessionInv, DiskOK, FaithInv, FaithDisk
  <2>2. corrupt' = FALSE /\ tail' = "clean"
    BY DEF WriteRecord, FaithInv, FaithDisk
  <2> QED BY <2>1, <2>2 DEF FaithDisk
<1>3. /\ x.type = "run_start" => OpenRun(log', leaf') # 0
      /\ x.type \in MessageTypes \union {"plugin"} => OpenRun(log', leaf') = o
      /\ x.type \notin MessageTypes \union {"plugin", "run_start"} => OpenRun(log', leaf') = 0
  <2>1. OpenRun(log', leaf') = OpenRunStep(o, log', NewId) /\ log'[NewId] = x /\ NewId # 0
    BY <1>1
  <2>2. o # Bad
    BY DEF FaithInv, FaithDisk, OrderInv, NewEntry
  <2>3. OpenRun(log', leaf') = IF x.type = "run_start" THEN NewId
                               ELSE IF x.type \in MessageTypes \union {"plugin"} THEN o
                               ELSE 0
    BY <2>1, <2>2, NextRun
  <2> QED BY <2>1, <2>3 DEF MessageTypes
<1>4. /\ x.type \in MessageTypes => msgs' = Append(msgs, NewId)
      /\ x.type \notin MessageTypes \union {"compact", "leaf", "merge"} => msgs' = msgs
  BY DEF UpdateCache
<1>5. \A k \in 1 .. Len(log) : log'[k] = log[k]
  BY <1>1 DEF Prefix
<1> QED BY <1>1, <1>2, <1>3, <1>4, <1>5

(* A failed one leaves at most a torn tail.                                *)
LEMMA FaithCut ==
  ASSUME Guarded, SessionInv, FaithInv, NEW x, NewEntry(log, x), Admitted(log, x), WriteCut(x)
  PROVE  FaithDisk'
<1>1. OrderInv(log) /\ OrderInv(Append(log, x))
  BY OrderAppend DEF SessionInv, DiskOK, FaithInv, FaithDisk
<1>2. corrupt = FALSE /\ tail \in {"clean", "torn"}
  BY DEF FaithInv, FaithDisk
<1>3. log' \in {log, Append(log, x)} /\ corrupt' = FALSE /\ tail' \in {"clean", "torn"}
  BY <1>2 DEF WriteCut, WriteRecord, disk, Guarded
<1> QED BY <1>1, <1>3 DEF FaithDisk

LEMMA FaithBreaks ==
  ASSUME Guarded, SessionInv, FaithInv, NEW x, HasSpace => NewEntry(log, x), Admitted(log, x),
         Broken(x), job' = NoJob
  PROVE  FaithInv'
<1>1. FaithDisk' /\ phase' = "broken"
  BY FaithCut DEF Broken
<1> QED BY <1>1 DEF FaithInv, FaithControl

LEMMA FaithGoesOn ==
  ASSUME SessionInv, FaithInv, phase \in LivePhases, NEW x, HasSpace => NewEntry(log, x),
         Admitted(log, x), x.type \notin {"compact", "leaf", "merge"} => x.parent = leaf,
         NEW next, Appended(x, next)
  PROVE  /\ FaithDisk' /\ leaf' = NewId /\ leaf' # 0 /\ log'[leaf'] = x /\ phase' = next
         /\ log' = Append(log, x) /\ msgs' = ProjectMessages(log', NewId)
         /\ \A k \in 1 .. Len(log) : log'[k] = log[k]
         /\ x.type = "run_start" => OpenRun(log', leaf') # 0
         /\ x.type \in MessageTypes \union {"plugin"} => OpenRun(log', leaf') = OpenRun(log, x.parent)
         /\ x.type \notin MessageTypes \union {"plugin", "run_start"} => OpenRun(log', leaf') = 0
         /\ x.type \in MessageTypes => msgs' = Append(msgs, NewId)
         /\ x.type \notin MessageTypes \union {"compact", "leaf", "merge"} => msgs' = msgs
<1>1. NewEntry(log, x) /\ WriteRecord(x) /\ UpdateCache(x) /\ acked' = NewId /\ phase' = next
  BY DEF Appended
<1> QED BY <1>1, FaithAppend

(* The events of a Run.                                                    *)
LEMMA FaithRunStart == ASSUME Guarded, SessionInv, FaithInv, RunStart PROVE FaithInv'
<1> DEFINE e == Entry("run_start", leaf, NewId, 0, 0, {})
<1>1. /\ phase = "idle" /\ phase \in LivePhases /\ job = NoJob /\ job' = NoJob
      /\ OpenRun(log, leaf) = 0 /\ NewId # 0
  BY FaithFacts, SessionFacts DEF RunStart, SessionIdle, LivePhases, pending, NewId
<1>2. HasSpace => NewEntry(log, e)
  BY SessionFacts, Fresh DEF EntryTypes
<1>3. e.parent = leaf /\ e.type = "run_start" /\ e.run = NewId
  BY DEF Entry
<1> HIDE DEF e
<1>4. Admitted(log, e)
  BY <1>1, <1>3 DEF Admitted, RunIdReadable, InRun, MessageTypes
<1>5. CASE Appended(e, "running") /\ UNCHANGED <<ctx, failed>>
  <2>1. FaithDisk' /\ phase' = "running" /\ OpenRun(log', leaf') # 0 /\ msgs' = msgs
    BY <1>1, <1>2, <1>3, <1>4, <1>5, FaithGoesOn DEF MessageTypes
  <2> QED BY <1>1, <1>5, <2>1 DEF FaithInv, FaithControl
<1>6. CASE Broken(e)
  BY <1>1, <1>2, <1>4, <1>6, FaithBreaks
<1> QED BY <1>5, <1>6 DEF RunStart, e

LEMMA CompactionsFit ==
  ASSUME Guarded, SessionInv, FaithInv, job = NoJob, NEW j \in Compactions
  PROVE  j = NoJob \/ JobFits(j)
<1>1. CASE j = NoJob
  BY <1>1
<1>2. ASSUME NEW k \in Cuts(msgs), j = [old |-> msgs, cut |-> k] PROVE JobFits(j)
  <2>1. k \in 1 .. Len(msgs) - 1 /\ log[msgs[k + 1]].type # "tool"
    BY DEF Cuts
  <2>2. j.old = msgs /\ j.cut = k
    BY <1>2
  <2> QED BY <2>1, <2>2 DEF JobFits
<1> QED BY <1>1, <1>2 DEF Compactions

LEMMA FaithOutsideLog ==
  ASSUME Guarded, SessionInv, FaithInv, RunStartRefused \/ UnpersistedRun \/ RunCut
  PROVE  FaithInv'
<1>1. CASE RunStartRefused
  <2>1. FaithDisk'
    BY <1>1 DEF RunStartRefused, FaithInv, FaithDisk, disk
  <2>2. job = NoJob /\ phase \in {"idle", "broken"}
    BY <1>1, FaithFacts DEF RunStartRefused, SessionIdle
  <2>3. FaithControl'
    BY <1>1, <2>2 DEF RunStartRefused, FaithControl, pending
  <2> QED BY <2>1, <2>3 DEF FaithInv
<1>2. CASE UnpersistedRun
  <2>1. FaithDisk' /\ log' = log /\ leaf' = leaf /\ msgs' = msgs
    BY <1>2 DEF UnpersistedRun, FaithInv, FaithDisk, disk, cache
  <2>2. job = NoJob /\ phase \in {"idle", "broken"} /\ phase' = phase /\ failed /\ failed' = failed
    BY <1>2, FaithFacts DEF UnpersistedRun
  <2>3. ASSUME job' # NoJob
        PROVE  phase = "idle" /\ OpenRun(log, leaf) = 0 /\ log[leaf].run # 0 /\ JobFits(job')
    <3>1. phase = "idle" /\ MayAnchor(leaf) /\ job' \in Compactions
      BY <1>2, <2>2, <2>3 DEF UnpersistedRun
    <3>2. JobFits(job')
      BY <2>2, <2>3, <3>1, CompactionsFit
    <3> QED BY <3>1, <3>2, FaithFacts
  <2>4. JobFits(job') => JobFits(job)'
    BY <2>1 DEF JobFits
  <2>5. FaithControl'
    BY <2>1, <2>2, <2>3, <2>4 DEF FaithControl
  <2> QED BY <2>1, <2>5 DEF FaithInv
<1>3. CASE RunCut
  <2>1. FaithDisk'
    BY <1>3 DEF RunCut, FaithInv, FaithDisk, disk
  <2>2. FaithControl'
    BY <1>3 DEF RunCut, FaithInv, FaithControl, pending, cache
  <2> QED BY <2>1, <2>2 DEF FaithInv
<1> QED BY <1>1, <1>2, <1>3

LEMMA FaithMessage == ASSUME Guarded, SessionInv, FaithInv, Message PROVE FaithInv'
<1> DEFINE r == OpenRun(log, leaf)
<1>1. /\ phase = "running" /\ phase \in LivePhases /\ job = NoJob /\ job' = NoJob
      /\ r # 0 /\ r # Bad /\ r \in 0 .. MaxEntries
  BY FaithFacts DEF Message, LivePhases, pending, FaithInv, FaithControl
<1>2. PICK e \in NextMessages(r) :
        \/ Appended(e, "running") /\ ctx' = Append(ctx, NewId) /\ UNCHANGED failed
        \/ Broken(e) /\ failed' = TRUE /\ ctx' = Append(ctx, 0)
  BY <1>1 DEF Message
<1>3. /\ HasSpace => NewEntry(log, e)
      /\ e.parent = leaf /\ e.run = r /\ e.type \in MessageTypes
      /\ e.type = "tool" => <<e.of, e.n>> \in MissingCalls(log, leaf, r)
      /\ e.type # "tool" => MissingCalls(log, leaf, r) = {}
  <2> HIDE DEF r
  <2> QED BY <1>1, MessageFresh
<1>4. Admitted(log, e)
  BY <1>1, <1>3 DEF Admitted, RunIdReadable, InRun, MessageTypes
<1>5. CASE Appended(e, "running") /\ ctx' = Append(ctx, NewId) /\ UNCHANGED failed
  <2>1. FaithDisk' /\ phase' = "running" /\ OpenRun(log', leaf') # 0 /\ msgs' = Append(msgs, NewId)
    <3>1. e.type \notin {"compact", "leaf", "merge"} => e.parent = leaf
      BY <1>3
    <3> QED BY <1>1, <1>3, <1>4, <1>5, <3>1, FaithGoesOn
  <2> QED BY <1>1, <1>5, <2>1 DEF FaithInv, FaithControl
<1>6. CASE Broken(e)
  BY <1>1, <1>3, <1>4, <1>6, FaithBreaks
<1> QED BY <1>2, <1>5, <1>6

LEMMA FaithRunEnd == ASSUME Guarded, SessionInv, FaithInv, RunEnd PROVE FaithInv'
<1> DEFINE r == OpenRun(log, leaf)
           e == Entry("run_end", leaf, r, 0, 0, {})
<1>1. /\ phase = "running" /\ phase \in LivePhases /\ job = NoJob /\ job' = NoJob
      /\ r # 0 /\ r \in 0 .. MaxEntries /\ ctx' = ctx
  BY FaithFacts DEF RunEnd, LivePhases, pending, FaithInv, FaithControl
<1>2. HasSpace => NewEntry(log, e)
  <2> HIDE DEF r
  <2>1. "run_end" \in EntryTypes
    BY DEF EntryTypes
  <2> QED BY <1>1, <2>1, SessionFacts, Fresh
<1>3. e.parent = leaf /\ e.type = "run_end" /\ e.run = r
  BY DEF Entry
<1>4. \/ Appended(e, "ending") /\ UNCHANGED failed
      \/ Broken(e) /\ failed' = TRUE
  BY Zenon DEF RunEnd
<1> HIDE DEF e
<1>5. Admitted(log, e)
  BY <1>1, <1>3 DEF Admitted, RunIdReadable, InRun, MessageTypes
<1>6. CASE Appended(e, "ending") /\ UNCHANGED failed
  <2>1. FaithDisk' /\ phase' = "ending" /\ OpenRun(log', leaf') = 0 /\ msgs' = msgs /\ log'[leaf'] = e
    BY <1>1, <1>2, <1>3, <1>5, <1>6, FaithGoesOn DEF MessageTypes
  <2> QED BY <1>1, <1>3, <1>6, <2>1 DEF FaithInv, FaithControl
<1>7. CASE Broken(e)
  BY <1>1, <1>2, <1>5, <1>7, FaithBreaks
<1> QED BY <1>4, <1>6, <1>7

LEMMA FaithCheckpointFits ==
  ASSUME SessionInv, leaf # 0, OpenRun(log, leaf) = 0, log[leaf].run # 0
  PROVE  /\ HasSpace => NewEntry(log, CheckpointEntry)
         /\ CheckpointEntry.parent = leaf /\ CheckpointEntry.type = "checkpoint"
         /\ CheckpointEntry.run = log[leaf].run /\ Admitted(log, CheckpointEntry)
<1>1. CheckpointEntry.parent = leaf /\ CheckpointEntry.type = "checkpoint"
      /\ CheckpointEntry.run = log[leaf].run
  BY DEF CheckpointEntry, Entry
<1>2. Admitted(log, CheckpointEntry)
  BY <1>1 DEF Admitted, RunIdReadable, InRun, MessageTypes
<1> QED BY <1>1, <1>2, CheckpointFresh

LEMMA FaithCheckpoint == ASSUME Guarded, SessionInv, FaithInv, Checkpoint PROVE FaithInv'
<1> DEFINE e == CheckpointEntry
<1>1. /\ phase = "ending" /\ phase \in LivePhases /\ job = NoJob /\ ctx' = ctx
      /\ leaf # 0 /\ OpenRun(log, leaf) = 0 /\ log[leaf].run # 0
  BY DEF Checkpoint, LivePhases, FaithInv, FaithControl, SessionInv, ControlOK
<1>2. /\ HasSpace => NewEntry(log, e)
      /\ e.parent = leaf /\ e.type = "checkpoint" /\ e.run = log[leaf].run /\ Admitted(log, e)
  BY <1>1, FaithCheckpointFits
<1>3. \/ Appended(e, "idle") /\ job' \in Compactions /\ UNCHANGED failed
      \/ Broken(e) /\ failed' = TRUE /\ UNCHANGED job
      \/ phase' = "idle" /\ job' \in Compactions /\ UNCHANGED <<disk, acked, cache, failed>>
  BY DEF Checkpoint
<1> HIDE DEF e
<1>4. ASSUME job' \in Compactions, msgs' = msgs, \A k \in 1 .. Len(log) : log'[k] = log[k]
      PROVE  job' = NoJob \/ JobFits(job)'
  <2> SUFFICES ASSUME JobFits(job') PROVE JobFits(job)'
    BY <1>1, <1>4, CompactionsFit
  <2>1. job'.cut + 1 \in 1 .. Len(msgs)
    <3>1. Len(msgs) \in Nat
      BY SessionFacts
    <3> QED BY <3>1 DEF JobFits
  <2>2. msgs[job'.cut + 1] \in 1 .. Len(log)
    BY <1>1, <2>1, FaithFacts
  <2> QED BY <1>4, <2>2 DEF JobFits
<1>5. CASE Appended(e, "idle") /\ job' \in Compactions /\ UNCHANGED failed
  <2>1. /\ FaithDisk' /\ phase' = "idle" /\ OpenRun(log', leaf') = 0 /\ msgs' = msgs /\ log'[leaf'] = e
        /\ \A k \in 1 .. Len(log) : log'[k] = log[k]
    BY <1>1, <1>2, <1>5, FaithGoesOn DEF MessageTypes
  <2>2. job' = NoJob \/ JobFits(job)'
    BY <1>4, <1>5, <2>1
  <2> QED BY <1>1, <1>2, <1>5, <2>1, <2>2 DEF FaithInv, FaithControl
<1>6. CASE Broken(e) /\ UNCHANGED job
  BY <1>1, <1>2, <1>6, FaithBreaks
<1>7. CASE phase' = "idle" /\ job' \in Compactions /\ UNCHANGED <<disk, acked, cache, failed>>
  <2>1. FaithDisk' /\ log' = log /\ leaf' = leaf /\ msgs' = msgs
    BY <1>7 DEF FaithInv, FaithDisk, disk, cache
  <2>2. job' = NoJob \/ JobFits(job)'
    BY <1>4, <1>7, <2>1
  <2> QED BY <1>1, <1>7, <2>1, <2>2 DEF FaithInv, FaithControl
<1> QED BY <1>3, <1>5, <1>6, <1>7

(* Operations on the tree.                                                 *)
LEMMA FaithTree ==
  ASSUME Guarded, SessionInv, FaithInv, phase \in LivePhases, NEW x, HasSpace => NewEntry(log, x),
         Admitted(log, x), x.type \notin {"compact", "leaf", "merge"} => x.parent = leaf,
         TreeAppend(x), job = NoJob, job' = NoJob
  PROVE  FaithInv'
<1>1. CASE Appended(x, "idle") /\ ctx' = msgs'
  <2>1. FaithDisk' /\ phase' = "idle"
    BY <1>1, FaithGoesOn
  <2> QED BY <1>1, <2>1 DEF FaithInv, FaithControl
<1>2. CASE Broken(x)
  BY <1>2, FaithBreaks
<1> QED BY <1>1, <1>2 DEF TreeAppend

LEMMA FaithPluginState ==
  ASSUME Guarded, SessionInv, FaithInv, NEW n \in {0, 1}, PluginState(n)
  PROVE  FaithInv'
<1> DEFINE r == OpenRun(log, leaf)
           e == Entry("plugin", leaf, r, 0, n, {})
<1>1. /\ phase \in {"idle", "running"} /\ phase \in LivePhases /\ ctx' = ctx /\ failed' = failed
      /\ job = NoJob /\ job' = NoJob /\ r \in 0 .. MaxEntries
  BY FaithFacts DEF PluginState, SessionIdle, LivePhases, pending, FaithInv, FaithControl
<1>2. HasSpace => NewEntry(log, e)
  <2> HIDE DEF r
  <2>1. "plugin" \in EntryTypes /\ n \in Nat
    BY DEF EntryTypes
  <2> QED BY <1>1, <2>1, SessionFacts, Fresh
<1>3. e.parent = leaf /\ e.type = "plugin" /\ e.run = r /\ (Appended(e, phase) \/ Broken(e))
  BY DEF Entry, PluginState
<1> HIDE DEF e
<1>4. Admitted(log, e)
  BY <1>3 DEF Admitted, RunIdReadable, InRun, MessageTypes
<1>5. CASE Appended(e, phase)
  <2>1. FaithDisk' /\ phase' = phase /\ OpenRun(log', leaf') = r /\ msgs' = msgs
    BY <1>1, <1>2, <1>3, <1>4, <1>5, FaithGoesOn DEF MessageTypes
  <2> QED BY <1>1, <2>1 DEF FaithInv, FaithControl
<1>6. CASE Broken(e)
  BY <1>1, <1>2, <1>4, <1>6, FaithBreaks
<1> QED BY <1>3, <1>5, <1>6

LEMMA FaithSwitchLeaf ==
  ASSUME Guarded, SessionInv, FaithInv, NEW t \in 1 .. Len(log), SwitchLeaf(t)
  PROVE  FaithInv'
<1> DEFINE e == Entry("leaf", t, log[t].run, 0, 0, {})
<1>1. /\ phase \in LivePhases /\ job = NoJob /\ job' = NoJob
      /\ OpenRun(log, t) = 0 /\ log[t].run # 0 /\ TreeAppend(e)
  BY FaithFacts DEF SwitchLeaf, SessionIdle, LivePhases, pending
<1>2. HasSpace => NewEntry(log, e)
  <2>1. "leaf" \in EntryTypes /\ t \in 0 .. Len(log) /\ log[t].run \in 0 .. MaxEntries
    BY SessionFacts DEF EntryTypes
  <2> QED BY <2>1, SessionFacts, Fresh
<1>3. e.parent = t /\ e.type = "leaf" /\ e.run = log[t].run
  BY DEF Entry
<1> HIDE DEF e
<1>4. Admitted(log, e)
  BY <1>1, <1>3 DEF Admitted, RunIdReadable, InRun, MessageTypes
<1> QED BY <1>1, <1>2, <1>3, <1>4, FaithTree

LEMMA FaithBranch == ASSUME Guarded, SessionInv, FaithInv, Branch PROVE FaithInv'
<1> DEFINE e == Entry("branch", leaf, log[leaf].run, 0, 0, {})
<1>1. /\ phase = "idle" /\ phase \in LivePhases /\ job = NoJob /\ job' = NoJob /\ leaf # 0
      /\ OpenRun(log, leaf) = 0 /\ log[leaf].run # 0 /\ ctx' = ctx /\ failed' = failed
  BY FaithFacts DEF Branch, SessionIdle, LivePhases, pending
<1>2. HasSpace => NewEntry(log, e)
  <2>1. "branch" \in EntryTypes /\ log[leaf].run \in 0 .. MaxEntries
    BY <1>1, SessionFacts DEF EntryTypes
  <2> QED BY <2>1, SessionFacts, Fresh
<1>3. e.parent = leaf /\ e.type = "branch" /\ e.run = log[leaf].run
      /\ (Appended(e, "idle") \/ Broken(e))
  BY DEF Entry, Branch
<1> HIDE DEF e
<1>4. Admitted(log, e)
  BY <1>1, <1>3 DEF Admitted, RunIdReadable, InRun, MessageTypes
<1>5. CASE Appended(e, "idle")
  <2>1. FaithDisk' /\ phase' = "idle" /\ msgs' = msgs
    BY <1>1, <1>2, <1>3, <1>4, <1>5, FaithGoesOn DEF MessageTypes
  <2> QED BY <1>1, <2>1 DEF FaithInv, FaithControl
<1>6. CASE Broken(e)
  BY <1>1, <1>2, <1>4, <1>6, FaithBreaks
<1> QED BY <1>3, <1>5, <1>6

LEMMA FaithCompactManually == ASSUME Guarded, SessionInv, FaithInv, CompactManually PROVE FaithInv'
<1> DEFINE e == Entry("compact", leaf, log[leaf].run, 0, 0, {})
<1>1. /\ phase \in LivePhases /\ job = NoJob /\ job' = NoJob /\ leaf # 0
      /\ OpenRun(log, leaf) = 0 /\ log[leaf].run # 0 /\ TreeAppend(e)
  BY FaithFacts DEF CompactManually, SessionIdle, LivePhases, pending
<1>2. HasSpace => NewEntry(log, e)
  <2>1. "compact" \in EntryTypes /\ log[leaf].run \in 0 .. MaxEntries
    BY <1>1, SessionFacts DEF EntryTypes
  <2> QED BY <2>1, SessionFacts, Fresh
<1>3. e.parent = leaf /\ e.type = "compact" /\ e.run = log[leaf].run /\ e.gone = {}
  BY DEF Entry
<1> HIDE DEF e
<1>4. Admitted(log, e)
  BY <1>1, <1>3 DEF Admitted, RunIdReadable, InRun, MessageTypes
<1> QED BY <1>1, <1>2, <1>3, <1>4, FaithTree

LEMMA FaithMerge ==
  ASSUME Guarded, SessionInv, FaithInv, (\E s \in 1 .. Len(log) : PrepareMerge(s)) \/ CommitMerge \/ MergeAbandoned
  PROVE  FaithInv'
<1>1. ASSUME UNCHANGED <<disk, acked, phase, cache, ctx, failed, job>> PROVE FaithInv'
  <2>1. FaithDisk'
    BY <1>1 DEF FaithInv, FaithDisk, disk
  <2>2. JobFits(job) => JobFits(job)'
    BY <1>1 DEF JobFits, disk, cache
  <2>3. FaithControl'
    BY <1>1, <2>2 DEF FaithInv, FaithControl, disk, cache
  <2> QED BY <2>1, <2>3 DEF FaithInv
<1>2. CASE \E s \in 1 .. Len(log) : PrepareMerge(s)
  BY <1>1, <1>2 DEF PrepareMerge
<1>3. CASE MergeAbandoned
  BY <1>1, <1>3 DEF MergeAbandoned
<1>4. CASE CommitMerge /\ ~MergeStillValid
  BY <1>1, <1>4 DEF CommitMerge
<1>5. CASE CommitMerge /\ MergeStillValid
  <2> DEFINE e == Entry("merge", leaf, 0, plan.source, 0, {})
  <2>1. /\ phase \in LivePhases /\ job = NoJob /\ job' = NoJob /\ TreeAppend(e)
        /\ Mergeable(plan.source)
    BY <1>5, FaithFacts DEF CommitMerge, MergeStillValid, LivePhases
  <2>2. HasSpace => NewEntry(log, e)
    <3>1. "merge" \in EntryTypes /\ plan.source \in 0 .. MaxEntries
      BY SessionFacts DEF EntryTypes, Plans
    <3> QED BY <3>1, SessionFacts, Fresh
  <2>3. e.parent = leaf /\ e.type = "merge" /\ e.of = plan.source
    BY DEF Entry
  <2> HIDE DEF e
  <2>4. OpenRun(log, leaf) = 0
    <3>1. ~PathHasOpenRun(log, leaf)
      BY <2>1 DEF Mergeable
    <3> QED BY <3>1, FaithFacts, SessionFacts, PathHasOpenRunIs
  <2>5. Joins(log, plan.source, leaf)
    BY <2>1 DEF Mergeable, Joins
  <2>6. Admitted(log, e)
    BY <2>3, <2>4, <2>5 DEF Admitted, RunIdReadable, InRun, MessageTypes
  <2> QED BY <2>1, <2>2, <2>3, <2>6, FaithTree
<1> QED BY <1>2, <1>3, <1>4, <1>5

LEMMA FaithCompactCommit ==
  ASSUME Guarded, SessionInv, FaithInv, CompactCommit \/ CompactSkipped
  PROVE  FaithInv'
<1> DEFINE gone == {msgs[k] : k \in {j \in 1 .. Len(msgs) : j <= job.cut}}
           e == Entry("compact", leaf, log[leaf].run, 0, 0, gone)
           c == job.cut
<1>1. /\ job # NoJob /\ job' = NoJob /\ failed' = failed /\ phase = "idle" /\ phase \in LivePhases
      /\ OpenRun(log, leaf) = 0 /\ log[leaf].run # 0 /\ JobFits(job) /\ leaf # 0
      /\ msgs = ProjectMessages(log, leaf) /\ msgs \in Seq(Ids) /\ Len(msgs) \in Nat
  <2>1. job # NoJob /\ job' = NoJob /\ failed' = failed /\ msgs \in Seq(Ids)
    BY SessionFacts DEF CompactCommit, CompactSkipped
  <2>2. Len(msgs) \in Nat
    BY <2>1
  <2> QED BY <2>1, <2>2, FaithFacts DEF LivePhases, FaithInv, FaithControl, SessionInv, ControlOK
<1>2. c \in 1 .. Len(msgs) - 1 /\ job.old = msgs /\ log[msgs[c + 1]].type # "tool"
  BY <1>1 DEF JobFits
<1>3. CASE CompactSkipped
  <2>1. UNCHANGED <<disk, acked, phase, cache, ctx>>
    BY <1>3 DEF CompactSkipped
  <2>2. FaithDisk'
    BY <2>1 DEF FaithInv, FaithDisk, disk
  <2> QED BY <1>1, <2>1, <2>2 DEF FaithInv, FaithControl, disk, cache
<1>4. CASE CompactCommit
  <2>1. gone = {msgs[k] : k \in 1 .. c}
    <3>1. {j \in 1 .. Len(msgs) : j <= c} = 1 .. c
      BY <1>1, <1>2
    <3> QED BY <3>1
  <2>2. HasSpace => NewEntry(log, e)
    <3>1. "compact" \in EntryTypes /\ log[leaf].run \in 0 .. MaxEntries
      BY <1>1, SessionFacts DEF EntryTypes
    <3>2. gone \in SUBSET Ids
      BY <1>1
    <3> HIDE DEF gone
    <3> QED BY <3>1, <3>2, SessionFacts, Fresh
  <2>3. e.parent = leaf /\ e.type = "compact" /\ e.run = log[leaf].run /\ e.gone = gone
    BY DEF Entry
  <2>4. \/ Appended(e, "idle") /\ ctx' = <<NewId>> \o SubSeq(job.old, job.cut + 1, Len(job.old))
        \/ Broken(e)
    BY <1>1, <1>4 DEF CompactCommit
  <2> HIDE DEF e, gone
  <2>5. \E k \in 1 .. Len(msgs) - 1 : e.gone = {msgs[i] : i \in 1 .. k} /\ log[msgs[k + 1]].type # "tool"
    BY <1>2, <2>1, <2>3
  <2>6. Admitted(log, e)
    <3>1. \E k \in 1 .. Len(ProjectMessages(log, e.parent)) - 1 :
            /\ e.gone = {ProjectMessages(log, e.parent)[i] : i \in 1 .. k}
            /\ log[ProjectMessages(log, e.parent)[k + 1]].type # "tool"
      BY <1>1, <2>3, <2>5
    <3> QED BY <1>1, <2>3, <3>1 DEF Admitted, RunIdReadable, InRun, MessageTypes
  <2>7. CASE Appended(e, "idle") /\ ctx' = <<NewId>> \o SubSeq(job.old, job.cut + 1, Len(job.old))
    <3>1. /\ FaithDisk' /\ phase' = "idle" /\ leaf' = NewId /\ log'[leaf'] = e
          /\ log' = Append(log, e) /\ msgs' = ProjectMessages(log', NewId)
      BY <1>1, <2>2, <2>3, <2>6, <2>7, FaithGoesOn
    <3>2. NewEntry(log, e) /\ e \in EntryRecord /\ Len(log) < MaxEntries /\ leaf \in 0 .. Len(log)
          /\ LogOK(log) /\ NewId \in Ids
      BY <2>2, <2>7, SessionFacts DEF Appended, NewEntry, HasSpace
    <3>3. Prefix(log, log') /\ NewId \in 1 .. Len(log') /\ log'[NewId] = e
      BY <2>3, <3>1, <3>2, AppendedLog DEF NewId
    <3>4. ProjectMessages(log', NewId) = Project(msgs, log', NewId)
      <4>1. ProjectMessages(log', leaf) = msgs
        BY <1>1, <3>2, <3>3, PrefixKept
      <4> QED BY <2>3, <3>3, <4>1, MessagesUp DEF Prefix
    <3>5. Project(msgs, log', NewId) = ProjectCompact(msgs, gone, NewId)
      <4>1. log'[NewId].type = "compact" /\ "compact" \notin MessageTypes \union {"merge"}
            /\ log'[NewId].gone = gone
        BY <2>3, <3>3 DEF MessageTypes
      <4> QED BY <4>1, Zenon DEF Project
    <3>6. ProjectCompact(msgs, gone, NewId) = <<NewId>> \o SubSeq(msgs, c + 1, Len(msgs))
      <4>1. Distinct(msgs)
        BY <1>1, FaithFacts, SessionFacts DEF OrderInv, Ordered
      <4>2. c \in 1 .. Len(msgs)
        BY <1>1, <1>2
      <4> HIDE DEF c
      <4> QED BY <1>1, <2>1, <3>2, <4>1, <4>2, CompactFirst
    <3>7. ctx' = msgs'
      BY <1>2, <2>7, <3>1, <3>4, <3>5, <3>6
    <3> QED BY <1>1, <3>1, <3>7 DEF FaithInv, FaithControl
  <2>8. CASE Broken(e)
    BY <1>1, <2>2, <2>6, <2>8, FaithBreaks
  <2> QED BY <2>4, <2>7, <2>8
<1> QED BY <1>3, <1>4

(* The end of a process, open() and recovery.                              *)
LEMMA FaithForgets ==
  ASSUME FaithDisk', Forgotten, phase' = "closed"
  PROVE  FaithInv'
  BY DEF FaithInv, FaithControl, Forgotten

LEMMA FaithClose == ASSUME Guarded, SessionInv, FaithInv, Close PROVE FaithInv'
<1>1. FaithDisk'
  BY DEF Close, FaithInv, FaithDisk, disk
<1> QED BY <1>1, FaithForgets DEF Close

LEMMA FaithOpenFails ==
  ASSUME Guarded, SessionInv, FaithInv, NEW x, HasSpace => NewEntry(log, x), Admitted(log, x),
         OpenFails(x)
  PROVE  FaithInv'
<1>1. FaithDisk'
  BY FaithCut DEF OpenFails
<1> QED BY <1>1, FaithForgets DEF OpenFails

LEMMA FaithOpen == ASSUME Guarded, SessionInv, FaithInv, Open PROVE FaithInv'
<1>1. /\ phase = "closed" /\ job = NoJob /\ job' = NoJob /\ corrupt' = corrupt
      /\ corrupt = FALSE /\ tail \in {"clean", "torn"} /\ OrderInv(log)
  BY DEF Open, SessionInv, ControlOK, pending, FaithInv, FaithDisk
<1>2. Repaired = log
  BY <1>1 DEF Repaired
<1>3. Readable(log)
  <2>1. Len(log) \in 0 .. Len(log)
    BY SessionFacts
  <2> QED BY <1>1, <2>1 DEF Readable, OrderInv
<1>4. log' = log /\ tail' = "clean" /\ phase' = "recovering"
  BY <1>1, <1>2, <1>3 DEF Open
<1>5. FaithDisk'
  BY <1>1, <1>4 DEF FaithDisk
<1> QED BY <1>1, <1>4, <1>5 DEF FaithInv, FaithControl

LEMMA FaithRecover == ASSUME Guarded, SessionInv, FaithInv, Recover PROVE FaithInv'
<1> DEFINE r == OpenRun(log, leaf)
           e == RecoveryStep(r)
<1>1. /\ phase = "recovering" /\ phase \in LivePhases /\ job = NoJob
      /\ r # 0 /\ r \in 0 .. MaxEntries
  BY FaithFacts DEF Recover, SessionInv, ControlOK, LivePhases
<1>2. /\ HasSpace => NewEntry(log, e)
      /\ e.parent = leaf /\ e.run = r /\ e.type \in {"tool", "run_end"}
      /\ e.type = "tool" => <<e.of, e.n>> \in MissingCalls(log, leaf, r)
  <2> HIDE DEF r
  <2> QED BY <1>1, RecoveryFresh
<1>3. \/ Appended(e, "recovering") /\ UNCHANGED <<ctx, failed, pending>>
      \/ OpenFails(e)
  BY Zenon DEF Recover
<1> HIDE DEF e
<1>4. Admitted(log, e)
  BY <1>1, <1>2 DEF Admitted, RunIdReadable, InRun, MessageTypes
<1>5. CASE Appended(e, "recovering") /\ UNCHANGED <<ctx, failed, pending>>
  <2>1. FaithDisk' /\ phase' = "recovering"
    BY <1>1, <1>2, <1>4, <1>5, FaithGoesOn
  <2> QED BY <1>1, <1>5, <2>1 DEF FaithInv, FaithControl, pending
<1>6. CASE OpenFails(e)
  BY <1>2, <1>4, <1>6, FaithOpenFails
<1> QED BY <1>3, <1>5, <1>6

LEMMA FaithRecovered ==
  ASSUME Guarded, SessionInv, FaithInv, Recovered \/ RecoveredCheckpointFails
  PROVE  FaithInv'
<1> DEFINE e == CheckpointEntry
<1>1. phase = "recovering" /\ phase \in LivePhases /\ job = NoJob /\ OpenRun(log, leaf) = 0
  BY DEF Recovered, RecoveredCheckpointFails, LivePhases, SessionInv, ControlOK
<1>2. ASSUME NeedsCheckpoint
      PROVE  /\ HasSpace => NewEntry(log, e)
             /\ e.parent = leaf /\ e.type = "checkpoint" /\ Admitted(log, e)
  <2>1. leaf \in 1 .. Len(log) /\ leaf # 0 /\ log[leaf].type = "run_end"
    BY <1>2, SessionFacts DEF NeedsCheckpoint
  <2>2. log[leaf].run # 0
    BY <2>1 DEF FaithInv, FaithDisk, OrderInv, RunIdReadable
  <2> QED BY <1>1, <2>1, <2>2, FaithCheckpointFits
<1> HIDE DEF e
<1>3. CASE Recovered
  <2>1. phase' = "idle" /\ ctx' = msgs' /\ job' = NoJob
    BY <1>1, <1>3 DEF Recovered, pending
  <2>2. FaithDisk'
    <3>1. CASE NeedsCheckpoint /\ HasSpace /\ WriteRecord(e) /\ UpdateCache(e) /\ acked' = NewId
      BY <1>1, <1>2, <3>1, FaithAppend
    <3>2. CASE UNCHANGED <<disk, acked, leaf, msgs, plug>>
      BY <3>2 DEF FaithInv, FaithDisk, disk
    <3> QED BY <1>3, <3>1, <3>2 DEF Recovered, e
  <2> QED BY <2>1, <2>2 DEF FaithInv, FaithControl
<1>4. CASE RecoveredCheckpointFails
  BY <1>2, <1>4, FaithOpenFails DEF RecoveredCheckpointFails, e
<1> QED BY <1>3, <1>4

LEMMA FaithStep ==
  ASSUME Guarded, SessionInv, FaithInv, [SessionNext]_sessionVars
  PROVE  FaithInv'
<1>1. CASE RunStart \/ Message \/ RunEnd \/ Checkpoint
  BY <1>1, FaithRunStart, FaithMessage, FaithRunEnd, FaithCheckpoint
<1>2. CASE RunStartRefused \/ UnpersistedRun \/ RunCut
  BY <1>2, FaithOutsideLog
<1>3. CASE (\E n \in {0, 1} : PluginState(n)) \/ (\E t \in 1 .. Len(log) : SwitchLeaf(t))
           \/ Branch \/ CompactManually
  BY <1>3, FaithPluginState, FaithSwitchLeaf, FaithBranch, FaithCompactManually
<1>4. CASE (\E s \in 1 .. Len(log) : PrepareMerge(s)) \/ CommitMerge \/ MergeAbandoned
  BY <1>4, FaithMerge
<1>5. CASE CompactCommit \/ CompactSkipped
  BY <1>5, FaithCompactCommit
<1>6. CASE Close \/ Open \/ Recover \/ Recovered \/ RecoveredCheckpointFails
  BY <1>6, FaithClose, FaithOpen, FaithRecover, FaithRecovered
<1>7. CASE UNCHANGED sessionVars
  <2>1. FaithDisk'
    BY <1>7 DEF FaithInv, FaithDisk, sessionVars, disk
  <2>2. JobFits(job) => JobFits(job)'
    BY <1>7 DEF JobFits, sessionVars, disk, cache, pending
  <2>3. FaithControl'
    BY <1>7, <2>2 DEF FaithInv, FaithControl, sessionVars, disk, cache, pending
  <2> QED BY <2>1, <2>3 DEF FaithInv
<1> QED BY <1>1, <1>2, <1>3, <1>4, <1>5, <1>6, <1>7 DEF SessionNext

LEMMA FaithInit == ASSUME SessionInit PROVE FaithInv
<1>1. log = <<>> /\ Len(log) = 0 /\ MaxEntries \in Nat /\ LogOK(log)
  <2>1. log = <<>> /\ Len(log) = 0 /\ log \in Seq(EntryRecord) /\ MaxEntries \in Nat
    BY SessionAssumption DEF SessionInit
  <2> QED BY <2>1 DEF LogOK
<1>2. OpenRun(log, 0) = 0 /\ 0 # Bad /\ ProjectMessages(log, 0) = <<>>
  BY <1>1, OpenRunUp, MessagesUp DEF Bad
<1>3. Ordered(log, 0) /\ CallsOpen(log, 0)
  BY <1>2 DEF Ordered, CallsOpen, Distinct, WellPaired
<1>4. OrderInv(log)
  <2>1. (\A e \in 0 .. Len(log) : e = 0) /\ 1 .. Len(log) = {}
    BY <1>1
  <2> QED BY <1>2, <1>3, <2>1 DEF OrderInv
<1>5. FaithDisk
  BY <1>4 DEF FaithDisk, SessionInit
<1> QED BY <1>5 DEF FaithInv, FaithControl, SessionInit

(* The Session in memory, the Agent's context and the log agree, a log     *)
(* this program wrote can be opened again, and no Tool result stands in    *)
(* the context without its call (session.py, tree.py, compaction.py and    *)
(* the session part of harness/base.py), for logs of any length, as long   *)
(* as tree operations are anchored between Runs, nothing overtakes a       *)
(* compaction and no write stops right before the newline.                 *)
THEOREM SessionIsFaithful == ASSUME Guarded PROVE SessionSpec => []SessionFaithful
<1>1. SessionInit => FaithInv
  BY FaithInit
<1>2. SessionInv /\ FaithInv /\ [SessionNext]_sessionVars => FaithInv'
  BY FaithStep
<1>3. SessionInv /\ FaithInv => SessionFaithful
  <2> SUFFICES ASSUME SessionInv, FaithInv PROVE SessionFaithful
    OBVIOUS
  <2>1. TypeOK /\ RestartAligned
    BY SessionInvTypes
  <2>2. ContextAligned /\ SessionReopens
    BY DEF FaithInv, FaithControl, ContextAligned, SessionReopens
  <2>3. ToolPairsKept
    <3> SUFFICES ASSUME Live, NEW k \in 1 .. Len(msgs), log[msgs[k]].type = "tool"
                 PROVE  \E j \in 1 .. k - 1 : msgs[j] = log[msgs[k]].of
      BY DEF ToolPairsKept
    <3>1. msgs = ProjectMessages(log, leaf) /\ Ordered(log, leaf) /\ Len(msgs) \in Nat
      <4>1. phase \in LivePhases /\ leaf \in 0 .. Len(log) /\ msgs \in Seq(Ids)
        BY SessionFacts DEF Live, LivePhases
      <4>2. Len(msgs) \in Nat
        BY <4>1
      <4> QED BY <4>1, <4>2, FaithFacts DEF OrderInv
    <3>2. Answers(log, msgs, log[msgs[k]].of, k)
      BY <3>1 DEF Ordered, WellPaired
    <3>3. PICK j \in 1 .. k : msgs[j] = log[msgs[k]].of /\ log[msgs[j]].type # "tool"
      BY <3>2 DEF Answers
    <3>4. j # k
      BY <3>3
    <3> QED BY <3>1, <3>3, <3>4
  <2> QED BY <2>1, <2>2, <2>3 DEF SessionFaithful
<1> QED BY <1>1, <1>2, <1>3, SessionInvariant, PTL DEF SessionSpec
=============================================================================
