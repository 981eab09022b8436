------------------------- MODULE ArtifactLifecycle -------------------------
(***************************************************************************)
(* The governed life of Policy and Plugin artifacts: candidate directory,  *)
(* isolated review, immutable snapshots, human decisions, the selection of *)
(* one Policy digest, and the Harness that loads the result at its start   *)
(* and on /reload.                                                         *)
(*                                                                         *)
(* Authors, the review service, operators (one CLI process per command)    *)
(* and the Harness are separate processes that share EVOPI_HOME.  An       *)
(* artifact is named by the digest of its content; all Policy artifacts    *)
(* here have one Policy name and all Plugin artifacts one Plugin name,     *)
(* since only versions of one thing compete.  activations.json and         *)
(* policy-selections.json are append-only, so the copy a process has read  *)
(* is the length of the prefix it knows.                                   *)
(***************************************************************************)
EXTENDS Integers, Sequences, FiniteSets, SequencesExt

CONSTANTS Policies, Plugins,  \* digests of the two kinds
          Unparsable,         \* Policy contents whose Python does not parse
          Clis,               \* operators' processes
          Workspaces, Home,   \* workspaces to trust; the one of the Harness
          Scopes              \* what a behaviour is about: who acts, and the bounds

Artifacts == Policies \union Plugins
Statuses == {"passed", "review_required", "failed"}

(* Contents are not the marks of a missing, a damaged or an invalid one; a *)
(* scope begins with a Plugin candidate and with evidence about Policies.  *)
ASSUME LifecycleAssumption ==
  /\ Policies \cap Plugins = {} /\ Unparsable \subseteq Policies /\ Home \in Workspaces
  /\ Artifacts \cap {"none", "bad", "invalid"} = {}
  /\ \A s \in Scopes : /\ {s.maxActs, s.maxSels, s.maxFaults} \subseteq Nat
                       /\ s.src \in [policy : Policies \union {"invalid"}, plugin : Plugins]
                       /\ s.builtin \in BOOLEAN /\ s.inside \in BOOLEAN
                       /\ s.evid \subseteq [d : Policies, st : Statuses]

VARIABLES scope,
          src,        \* content of the two candidate directories
          rev,        \* the review in progress
          snap,       \* review snapshots: content found under each digest
          evid,       \* immutable review evidence: [d, st]
          art,        \* artifact stores: content found under each digest
          acts, sels, trusts,   \* the three stores on disk
          cli,        \* per operator process: the command it is executing
          h,          \* the Harness
          staged,     \* what a start or a reload has validated and is importing
          faults

vars == <<scope, src, rev, snap, evid, art, acts, sels, trusts, cli, h, staged, faults>>

Idle == [k |-> "idle"]
Down == [st |-> "down"]

(***************************************************************************)
(* The stores.                                                             *)
(***************************************************************************)
(* the last decision about any of some candidates, 0 when there is none    *)
LastAbout(as, S) == LET is == {i \in DOMAIN as : as[i].a \in S}
                    IN IF is = {} THEN 0 ELSE CHOOSE i \in is : \A j \in is : j <= i

(* ActivationStore.check: the last decision about a candidate              *)
LastDecision(as, a) == LastAbout(as, {a})

(* PolicyArtifactStore.validate: the snapshot still has its digest         *)
Valid(d) == art[d] = d

DecisionOnly(as, i) == as[i].ok /\ Valid(as[i].a)

(* _require_approval: record i is an approval, it is the last decision     *)
(* about its candidate, and the artifact is intact                         *)
RequireApproval(as, i) ==
  /\ as[i].ok /\ LastDecision(as, as[i].a) = i
  /\ Valid(as[i].a)

(* PolicySelectionStore.active_records                                     *)
Active(ss) == IF ss = <<>> \/ Last(ss).act = "deactivate" THEN [ap |-> 0] ELSE Last(ss)

(* _previous_approval: the latest other approval ever selected that still  *)
(* holds; 0 when there is none                                             *)
Previous(as, ss, cur) ==
  LET is == {j \in DOMAIN ss : ss[j].act # "deactivate" /\ ss[j].ap # cur
                               /\ RequireApproval(as, ss[j].ap)}
  IN IF is = {} THEN 0 ELSE ss[CHOOSE j \in is : \A i \in is : i <= j].ap

(* approved_plugin_entrypoints: the last decision about the Plugin name is *)
(* an approval, its snapshot exists, and the workspace is trusted if the   *)
(* candidate lay within it                                                 *)
ApprovedPlugins ==
  LET i == LastAbout(acts, Plugins)
  IN IF i # 0 /\ acts[i].ok /\ art[acts[i].a] # "none" /\ (scope.inside => Home \in trusts)
     THEN {acts[i].a} ELSE {}

(***************************************************************************)
(* Authors and the review of a Policy candidate.                           *)
(***************************************************************************)
Edit(kind, x) ==
  /\ kind \in scope.edits /\ src[kind] # x
  /\ src' = [src EXCEPT ![kind] = x]
  /\ UNCHANGED <<scope, rev, snap, evid, art, acts, sels, trusts, cli, h, staged, faults>>

(* inspect_policy_candidate raises for a bad manifest and reports Python   *)
(* that does not parse                                                     *)
Inspect ==
  /\ scope.reviews /\ rev = Idle /\ src.policy \in Policies
  /\ rev' = [k |-> "inspected", d |-> src.policy]
  /\ UNCHANGED <<scope, src, snap, evid, art, acts, sels, trusts, cli, h, staged, faults>>

(* freeze: the candidate must still be what was inspected, and the copy,   *)
(* or the snapshot that is there, must have its digest                     *)
Freeze ==
  /\ rev.k = "inspected"
  /\ IF src.policy = rev.d /\ snap[rev.d] \in {"none", rev.d}
     THEN /\ rev' = [rev EXCEPT !.k = "frozen"]
          /\ snap' = [snap EXCEPT ![rev.d] = rev.d]
     ELSE rev' = Idle /\ UNCHANGED snap
  /\ UNCHANGED <<scope, src, evid, art, acts, sels, trusts, cli, h, staged, faults>>

(* what the checks of the worker may find: the contract of the Policy, its *)
(* dry-run cases if there are any, and the decisions of a recorded trace   *)
SchemaCheck == {"passed", "warned", "failed"}
DryRunCheck == {"absent", "passed", "failed"}
ReplayCheck == {"absent", "same", "differs", "failed"}

(* build_policy_review_report; replay applies to before_tool_call only     *)
ReportStatus(schema, dry, replay, applies) ==
  IF "failed" \in {schema, dry, replay} \/ (replay # "absent" /\ ~applies) THEN "failed"
  ELSE IF schema = "warned" \/ dry = "absent" \/ replay = "differs" \/ (replay = "absent" /\ applies)
  THEN "review_required"
  ELSE "passed"

(* nothing runs behind a failed schema                                     *)
WorkerStatuses ==
  {ReportStatus(s, d, r, b) : s \in SchemaCheck \ {"failed"}, d \in DryRunCheck,
                              r \in ReplayCheck, b \in BOOLEAN}
  \union {ReportStatus("failed", "absent", "absent", b) : b \in BOOLEAN}

(* _run_worker: a timeout, a crash or an invalid answer is a failed report,*)
(* and so is Python that does not parse; the candidate runs, and may       *)
(* damage its own snapshot                                                 *)
RunWorker(st) ==
  /\ rev.k = "frozen"
  /\ st # "failed" => rev.d \notin Unparsable /\ snap[rev.d] = rev.d /\ st \in WorkerStatuses
  /\ rev' = [k |-> "ran", d |-> rev.d, st |-> st]
  /\ \/ UNCHANGED <<snap, faults>>
     \/ /\ faults < scope.maxFaults /\ faults' = faults + 1
        /\ snap' = [snap EXCEPT ![rev.d] = "bad"]
  /\ UNCHANGED <<scope, src, evid, art, acts, sels, trusts, cli, h, staged>>

SaveEvidence ==
  /\ rev.k = "ran" /\ rev' = Idle
  /\ evid' = evid \union {[d |-> rev.d, st |-> IF snap[rev.d] = rev.d THEN rev.st ELSE "failed"]}
  /\ UNCHANGED <<scope, src, snap, art, acts, sels, trusts, cli, h, staged, faults>>

(***************************************************************************)
(* Operators.  A command reads the stores, decides by what it has read,    *)
(* and appends under the file lock, where it reads the store again.        *)
(***************************************************************************)
Open(c, cmd) ==
  /\ c \in scope.clis /\ cmd.op \in scope.ops /\ cli[c] = Idle
  /\ cli' = [cli EXCEPT ![c] = [k |-> "open", cmd |-> cmd, na |-> Len(acts), ns |-> Len(sels)]]
  /\ UNCHANGED <<scope, src, rev, snap, evid, art, acts, sels, trusts, h, staged, faults>>

Step(c, k) == cli' = [cli EXCEPT ![c].k = k]
Exit(c) == cli' = [cli EXCEPT ![c] = Idle]
ReadActs(c) == SubSeq(acts, 1, cli[c].na)
ReadSels(c) == SubSeq(sels, 1, cli[c].ns)

AnyStatus(e, accept) == TRUE

Approvable(e, accept) == e.st = "passed" \/ (e.st = "review_required" /\ accept)

(* PolicyApprovalService.approve up to import_review_snapshot: the         *)
(* reviewed snapshot is copied, or the approved one is found intact        *)
ApprovePolicy(c) ==
  /\ cli[c].k = "open" /\ cli[c].cmd.op = "approve"
  /\ LET d == cli[c].cmd.e.d
     IN IF Approvable(cli[c].cmd.e, cli[c].cmd.accept) /\ snap[d] = d /\ art[d] \in {"none", d}
        THEN art' = [art EXCEPT ![d] = d] /\ Step(c, "approved")
        ELSE Exit(c) /\ UNCHANGED art
  /\ UNCHANGED <<scope, src, rev, snap, evid, acts, sels, trusts, h, staged, faults>>

(* PluginArtifactStore.install: the source must still be what was reviewed *)
InstallPlugin(c) ==
  /\ cli[c].k = "open" /\ cli[c].cmd.op = "install"
  /\ LET d == cli[c].cmd.d
     IN IF src.plugin = d /\ art[d] \in {"none", d}
        THEN art' = [art EXCEPT ![d] = d] /\ Step(c, "approved")
        ELSE Exit(c) /\ UNCHANGED art
  /\ UNCHANGED <<scope, src, rev, snap, evid, acts, sels, trusts, h, staged, faults>>

DecidedFromCopy(c, r) == Append(ReadActs(c), r)

(* ActivationStore.add under EvolutionFileLock: load, append, replace      *)
Decided(c, r) == Append(acts, r)

Target(cmd) == IF cmd.op = "install" THEN cmd.d ELSE cmd.e.d

AddApproval(c) ==
  /\ cli[c].k = "approved" /\ Len(acts) < scope.maxActs
  /\ acts' = Decided(c, [a |-> Target(cli[c].cmd), ok |-> TRUE])
  /\ IF cli[c].cmd.op = "install" /\ cli[c].cmd.trust THEN Step(c, "decided") ELSE Exit(c)
  /\ UNCHANGED <<scope, src, rev, snap, evid, art, sels, trusts, h, staged, faults>>

AddDenial(c, a) ==
  /\ cli[c].k = "open" /\ Len(acts) < scope.maxActs
  /\ acts' = Decided(c, [a |-> a, ok |-> FALSE])
  /\ Exit(c)
  /\ UNCHANGED <<scope, src, rev, snap, evid, art, sels, trusts, h, staged, faults>>

DenyPolicy(c) == cli[c].cmd.op = "deny" /\ AddDenial(c, cli[c].cmd.e.d)
DenyPlugin(c) == cli[c].cmd.op = "deny_plugin" /\ AddDenial(c, cli[c].cmd.d)

(* remove denies the last candidate of that name it has read               *)
RemovePlugin(c) ==
  LET i == LastAbout(ReadActs(c), Plugins)
  IN cli[c].cmd.op = "remove" /\ i # 0 /\ AddDenial(c, ReadActs(c)[i].a)

(* WorkspaceTrustStore: read, then written as a whole without a lock       *)
ReadTrust(c) ==
  /\ cli[c].k = "decided"
  /\ cli' = [cli EXCEPT ![c] = [k |-> "trusting", w |-> @.cmd.w, seen |-> trusts]]
  /\ UNCHANGED <<scope, src, rev, snap, evid, art, acts, sels, trusts, h, staged, faults>>

SaveTrust(c) ==
  /\ cli[c].k = "trusting" /\ Exit(c)
  /\ trusts' = cli[c].seen \union {cli[c].w}
  /\ UNCHANGED <<scope, src, rev, snap, evid, art, acts, sels, h, staged, faults>>

(* PolicySelectionStore.add, under its lock                               *)
Select(c, r) ==
  /\ cli[c].k = "open" /\ Len(sels) < scope.maxSels
  /\ sels' = Append(sels, r)
  /\ Exit(c)
  /\ UNCHANGED <<scope, src, rev, snap, evid, art, acts, trusts, h, staged, faults>>

Activate(c) ==
  /\ cli[c].cmd.op = "activate" /\ RequireApproval(ReadActs(c), cli[c].cmd.to)
  /\ Select(c, [act |-> "activate", ap |-> cli[c].cmd.to, rep |-> cli[c].cmd.rep])

Deactivate(c) ==
  /\ cli[c].cmd.op = "deactivate" /\ Active(ReadSels(c)).ap # 0
  /\ Select(c, [act |-> "deactivate"])

(* the approval asked for, or the previous one; without its replacement    *)
Rollback(c) ==
  /\ cli[c].cmd.op = "rollback" /\ Active(ReadSels(c)).ap # 0
  /\ LET to == IF cli[c].cmd.to # 0 THEN cli[c].cmd.to
               ELSE Previous(ReadActs(c), ReadSels(c), Active(ReadSels(c)).ap)
     IN /\ to # 0 /\ RequireApproval(ReadActs(c), to)
        /\ Select(c, [act |-> "rollback", ap |-> to, rep |-> "none"])

(* a command refuses, fails on a held lock or a failing write, or is       *)
(* killed                                                                  *)
CliDies(c) ==
  /\ cli[c] # Idle /\ Exit(c)
  /\ UNCHANGED <<scope, src, rev, snap, evid, art, acts, sels, trusts, h, staged, faults>>

(* something damages an approved artifact on disk                          *)
Damage(d) ==
  /\ faults < scope.maxFaults /\ faults' = faults + 1 /\ art[d] # "none"
  /\ art' = [art EXCEPT ![d] = "bad"]
  /\ staged' = IF staged = Down THEN Down ELSE [staged EXCEPT !.disturbed = TRUE]
  /\ UNCHANGED <<scope, src, rev, snap, evid, acts, sels, trusts, cli, h>>

(***************************************************************************)
(* The Harness.                                                            *)
(***************************************************************************)
Refused == -1

StagedOrSkipped(existing, as, ss) ==
  LET s == Active(ss)
  IN IF s.ap # 0 /\ RequireApproval(as, s.ap) /\ s.rep = (IF existing THEN "bound" ELSE "none")
     THEN s.ap ELSE 0

(* _stage_active_policies with a Policy of this name registered or not:    *)
(* the approval that becomes active, 0 for none                            *)
Staged(existing, as, ss) ==
  LET s == Active(ss)
  IN CASE s.ap = 0 -> 0
       [] s.ap # 0 /\ ~RequireApproval(as, s.ap) -> Refused
       [] OTHER -> IF s.rep = (IF existing THEN "bound" ELSE "none") THEN s.ap ELSE Refused

(* what is imported is what lies in the store at the import                *)
Code(i) == IF i = 0 THEN "none" ELSE art[acts[i].a]

(* a runtime that is validated and not yet imported                        *)
Validated(na, ns, conf, plug, existing, ap, fresh) ==
  [st |-> "idle", na |-> na, ns |-> ns, conf |-> conf, plug |-> plug, builtin |-> existing /\ ap = 0,
   ap |-> ap, code |-> "none", disturbed |-> FALSE, fresh |-> fresh]

(* Harness.create: the stores are read, and the selected artifact is       *)
(* validated (inspect_policy_candidate) before it is imported.             *)
Start ==
  LET ap == Staged(scope.builtin, acts, sels)
  IN /\ scope.harness /\ h = Down /\ staged = Down /\ ap # Refused
     /\ staged' = Validated(Len(acts), Len(sels), ApprovedPlugins, ApprovedPlugins, scope.builtin, ap, TRUE)
     /\ UNCHANGED <<scope, src, rev, snap, evid, art, acts, sels, trusts, cli, h, faults>>

(* _reload_runtime_transaction: the Plugins configured at the start and    *)
(* those approved now, whose names must differ; the Policies selected in   *)
(* the stores as the service has read them.                                *)
Reload ==
  LET as == SubSeq(acts, 1, h.na)
      paths == h.conf \union ApprovedPlugins
      ap == Staged(h.builtin, as, SubSeq(sels, 1, h.ns))
  IN /\ h.st = "idle" /\ staged = Down /\ Cardinality(paths) <= 1 /\ ap # Refused
     /\ \A d \in paths : art[d] # "none"
     /\ staged' = Validated(h.na, h.ns, h.conf, paths, h.builtin, ap,
                            paths = ApprovedPlugins /\ ap = Staged(scope.builtin, acts, sels))
     /\ UNCHANGED <<scope, src, rev, snap, evid, art, acts, sels, trusts, cli, h, faults>>

(* exec_module, the contract of the result, and the runtime as a whole put *)
(* in the place of the live one                                            *)
Import ==
  /\ staged # Down /\ staged' = Down
  /\ h' = [staged EXCEPT !.code = Code(staged.ap)]
  /\ UNCHANGED <<scope, src, rev, snap, evid, art, acts, sels, trusts, cli, faults>>

(* the import or the contract fails: a reload leaves the live runtime as   *)
(* it was, and a start leaves none                                         *)
ImportFails ==
  /\ staged # Down /\ staged' = Down
  /\ UNCHANGED <<scope, src, rev, snap, evid, art, acts, sels, trusts, cli, h, faults>>

RunBegins == /\ h.st = "idle" /\ staged = Down /\ h' = [h EXCEPT !.st = "running"]
             /\ UNCHANGED <<scope, src, rev, snap, evid, art, acts, sels, trusts, cli, staged, faults>>
RunEnds   == /\ h.st = "running" /\ h' = [h EXCEPT !.st = "idle"]
             /\ UNCHANGED <<scope, src, rev, snap, evid, art, acts, sels, trusts, cli, staged, faults>>
Stop      == /\ h.st = "idle" /\ staged = Down /\ h' = Down
             /\ UNCHANGED <<scope, src, rev, snap, evid, art, acts, sels, trusts, cli, staged, faults>>

-----------------------------------------------------------------------------
Init ==
  /\ scope \in Scopes
  /\ src = scope.src /\ rev = Idle /\ faults = 0
  /\ evid = scope.evid /\ snap = [d \in Policies |-> IF \E e \in scope.evid : e.d = d THEN d ELSE "none"]
  /\ art = [d \in Artifacts |-> "none"]
  /\ acts = <<>> /\ sels = <<>> /\ trusts = {}
  /\ cli = [c \in Clis |-> Idle] /\ h = Down /\ staged = Down

(* the commands an operator may give now                                   *)
Commands ==
  {[op |-> "approve", e |-> e, accept |-> b] : e \in evid, b \in BOOLEAN}
  \union {[op |-> "deny", e |-> e] : e \in evid}
  \union {[op |-> "activate", to |-> i, rep |-> r] :
            i \in {j \in DOMAIN acts : acts[j].a \in Policies}, r \in {"none", "bound", "drifted"}}
  \union {[op |-> "rollback", to |-> i] : i \in {0} \union {j \in DOMAIN acts : acts[j].a \in Policies}}
  \union {[op |-> "deactivate", to |-> 0]}
PluginCommands ==
  {[op |-> "install", d |-> src.plugin, trust |-> b, w |-> w] : b \in BOOLEAN, w \in Workspaces}
  \union {[op |-> "deny_plugin", d |-> src.plugin], [op |-> "remove"]}

ReviewStep ==
  \/ \E x \in Policies \union {"invalid"} : Edit("policy", x)
  \/ \E x \in Plugins : Edit("plugin", x)
  \/ Inspect \/ Freeze \/ SaveEvidence \/ \E st \in Statuses : RunWorker(st)

CliStep(c) ==
  \/ \E cmd \in Commands \union PluginCommands : Open(c, cmd)
  \/ cli[c] # Idle /\ (ApprovePolicy(c) \/ InstallPlugin(c) \/ AddApproval(c) \/ CliDies(c)
                       \/ ReadTrust(c) \/ SaveTrust(c))
  \/ cli[c].k = "open" /\ (DenyPolicy(c) \/ DenyPlugin(c) \/ RemovePlugin(c)
                            \/ Activate(c) \/ Deactivate(c) \/ Rollback(c))

HarnessStep == Start \/ Reload \/ Import \/ ImportFails \/ RunBegins \/ RunEnds \/ Stop

Next == \/ ReviewStep \/ HarnessStep
        \/ \E c \in Clis : CliStep(c)
        \/ \E d \in Artifacts : Damage(d)

Spec == Init /\ [][Next]_vars

-----------------------------------------------------------------------------
(* An approval never precedes what it stands on: a reviewed Policy content *)
(* whose report did not fail, and the artifact in its store, although the  *)
(* candidate is edited, snapshots are damaged and commands die half way.   *)
ApprovalBacked ==
  \A i \in DOMAIN acts : acts[i].ok =>
    /\ art[acts[i].a] # "none"
    /\ acts[i].a \in Policies => \E e \in evid : e.d = acts[i].a /\ e.st # "failed"

(* What the Harness executes was reviewed and decided on: the evolved      *)
(* Policy it runs has the content of an approval that was the last word on *)
(* that content when the stores were read, unless an artifact was damaged  *)
(* between its validation and its import; and a Plugin it has was once     *)
(* approved.                                                               *)
LoadedIsGoverned ==
  h # Down =>
    /\ h.ap # 0 => LET d == acts[h.ap].a
                   IN /\ h.code = d \/ h.disturbed
                      /\ acts[h.ap].ok /\ LastDecision(SubSeq(acts, 1, h.na), d) = h.ap
                      /\ \E e \in evid : e.d = d /\ e.st # "failed"
    /\ \A d \in h.plug : \E i \in DOMAIN acts : acts[i] = [a |-> d, ok |-> TRUE]

(* The built-in Policy of a Harness is only ever exchanged for the one     *)
(* bound to it: no start and no reload leaves its name unguarded.          *)
GuardKept == h # Down /\ scope.builtin => h.builtin \/ h.ap # 0

(* No decision is lost: commands that read the same stores and write them  *)
(* one after the other only ever append.  Trust is kept too unless two     *)
(* commands trust a workspace at the same time.                            *)
DecisionsKept ==
  [][/\ IsPrefix(acts, acts') /\ IsPrefix(sels, sels')
     /\ \/ trusts \subseteq trusts'
        \/ \E c \in Clis : cli[c].k = "trusting" /\ cli[c].seen # trusts]_vars

(* README.md:690-691: "`/reload` transactionally refreshes approved        *)
(* Plugins and active Policies."                                           *)
ReloadRefreshes == h # Down => h.fresh
=============================================================================
