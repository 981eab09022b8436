-------------------------- MODULE PolicyGeneration --------------------------
(***************************************************************************)
(* evopi policy generate: from the evidence of a Trace to a candidate      *)
(* directory and one immutable record of the attempt.  Several processes   *)
(* may generate into the same directory; each runs the model in two        *)
(* stages, with repairs, a deadline and an interrupt.                      *)
(*                                                                         *)
(* What the model answers is any proposal and any bundle of files; the     *)
(* record keeps the outcome, the error code and the audit of every call.   *)
(***************************************************************************)
EXTENDS TraceEvidence

CONSTANTS Generators,
          NameGiven          \* whether --name was given

(* A process is not a mark of what else may be at the target.              *)
ASSUME GenerationAssumption ==
  NameGiven \in BOOLEAN /\ Generators \cap {"absent", "empty", "foreign"} = {}

VARIABLES gen,       \* per process: where it is and what it knows
          records,   \* PolicyGenerationStore
          target,    \* the candidate directory: absent, empty, foreign or a process
          staging    \* staging directories on disk

genVars == <<gen, records, target, staging>>
allVars == <<setting, trace, live, truth, gen, records, target, staging>>

(* setting.repairs: max_schema_repairs; setting.active: who generates      *)
NoRecord == [outcome |-> "none"]
Rest == [pc |-> "rest"]

(***************************************************************************)
(* What the model may answer, and what is accepted.                        *)
(***************************************************************************)
Actions == {"allow", "block", "require_confirmation"}
Names == {"", "asked", "another", "malformed"}

(* a proposal: who is decided on, by which actions                         *)
Proposals ==
  [strategy : {"additive", "replacement", "defer"}, decided : {"all", "some", "alien", "twice", "none"},
   actions : SUBSET Actions, fallback : Actions, name : Names, target : {"none", "policy", "unknown"}]

(* validate_proposal.  A replacement has the name of its target, which     *)
(* here is the name that was asked for.                                    *)
ValidAdditive(p) == p.actions \subseteq {"block", "require_confirmation"} /\ p.fallback = "allow"
ValidReplacement(p) == p.target = "policy" /\ p.name = "asked" /\ p.fallback = "require_confirmation"
ValidDefer(p) == p.name = "" /\ p.target = "none" /\ p.fallback = "allow" /\ p.decided = "none"
ValidProposal(p) ==
  IF p.strategy = "defer" THEN ValidDefer(p)
  ELSE /\ p.decided = "all" /\ p.name \notin {"", "malformed"}
       /\ NameGiven => p.name = "asked"
       /\ CASE p.strategy = "additive" -> ValidAdditive(p) [] OTHER -> ValidReplacement(p)

ValidStrategies == {p.strategy : p \in {q \in Proposals : ValidProposal(q)}}
RefusedProposals == {p \in Proposals : ~ValidProposal(p)}

(* one file of a bundle: its path and what is wrong with it                *)
Paths == {"policy.py", "helper.py", "HELPER.py", "cases.json", "../policy.py", "notes.txt"}
PathAllowed(path) == path \in {"policy.py", "helper.py", "HELPER.py"}
SameFile(a, b) == a = b \/ {a, b} = {"helper.py", "HELPER.py"}
Bundles == {b \in SUBSET [path : Paths, content : {"python", "broken", "large"}] : Cardinality(b) <= 2}

(* validate_candidate_bundle                                               *)
ValidBundle(b) ==
  /\ \A f \in b : PathAllowed(f.path) /\ f.content = "python"
  /\ \A f, g \in b : f # g => ~SameFile(f.path, g.path)
  /\ \E f \in b : f.path = "policy.py"
ValidBundles == {b \in Bundles : ValidBundle(b)}

(***************************************************************************)
(* One stage: run_json_repairable.  calls counts the model calls begun,    *)
(* runs is the audit the service accumulates.                              *)
(***************************************************************************)
Update(g, r) == gen' = [gen EXCEPT ![g] = r]
Audit(g, kind) == Append(gen[g].runs, kind)
InStage(g, stage) == gen[g].pc = stage /\ gen[g].calling

NextCall(g, runs) == [gen[g] EXCEPT !.runs = runs, !.attempt = @ + 1, !.calls = @ + 1]
LeaveStage(g, runs) == [gen[g] EXCEPT !.runs = runs, !.calling = FALSE]

(* _record_and_fail comes next                                             *)
Failing(g, runs, code) == [LeaveStage(g, runs) EXCEPT !.pc = "record", !.outcome = "failed", !.code = code]

EnterStage(r, stage) == [r EXCEPT !.pc = stage, !.calling = TRUE, !.attempt = 0, !.calls = @ + 1]

(* not JSON, or refused by the validation of the stage                     *)
Repairable(g, stage, kind) ==
  /\ InStage(g, stage)
  /\ Update(g, IF gen[g].attempt < setting.repairs THEN NextCall(g, Audit(g, kind))
               ELSE Failing(g, Audit(g, kind), "repair_exhausted"))
  /\ UNCHANGED <<records, target, staging>>

InvalidJson(g, stage) == Repairable(g, stage, "failed")

(* a Tool call, an incomplete or empty answer, or an exception of the Run  *)
Unusable(g, stage) ==
  /\ InStage(g, stage)
  /\ \E code \in {"model_tool_call", "model_not_completed", "model_empty_answer", "model_failed"} :
       Update(g, Failing(g, Audit(g, "failed"), code))
  /\ UNCHANGED <<records, target, staging>>

TimedOutAsAbort(g) == Failing(g, Audit(g, "aborted"), "model_timeout")

TimedOut(g) == Failing(g, Audit(g, "timed_out"), "model_timeout")

(* the deadline cancels the call: the audit of the cancelled call is       *)
(* corrected to a timeout; if the Run answers the cancellation with an     *)
(* exception, the stage ends with that                                     *)
StageTimeout(g, stage) ==
  /\ InStage(g, stage)
  /\ Update(g, TimedOut(g)) \/ Update(g, Failing(g, Audit(g, "failed"), "model_failed"))
  /\ UNCHANGED <<records, target, staging>>

(* an interrupt cancels the call                                           *)
StageAborted(g, stage) ==
  /\ InStage(g, stage)
  /\ Update(g, Failing(g, Audit(g, "aborted"), "model_aborted"))
  /\ UNCHANGED <<records, target, staging>>

(***************************************************************************)
(* The attempt: _run_generation.                                           *)
(***************************************************************************)
Begin(g, s) ==
  /\ gen[g] = Rest /\ Discover(s) # {} /\ LoadEvidence(Discover(s)) # NoEvidence
  /\ Update(g, EnterStage([pc |-> "rest", calling |-> FALSE, attempt |-> 0, calls |-> 0, runs |-> <<>>,
                           outcome |-> "none", code |-> "", conf |-> "none", strategy |-> "none",
                           pre |-> FALSE], "proposal"))
  /\ UNCHANGED <<records, target, staging>>

ProposalRefused(g) ==
  /\ InStage(g, "proposal") /\ RefusedProposals # {}
  /\ Repairable(g, "proposal", "ok")

(* defer is an outcome of its own                                          *)
Propose(g) ==
  /\ InStage(g, "proposal")
  /\ \E strategy \in ValidStrategies :
       LET r == [LeaveStage(g, Audit(g, "ok")) EXCEPT !.strategy = strategy]
       IN Update(g, IF strategy = "defer" THEN [r EXCEPT !.pc = "record", !.outcome = "deferred"]
                    ELSE [r EXCEPT !.pc = "confirm"])
  /\ UNCHANGED <<records, target, staging>>

(* _resolve_confirmation; whether the target exists is read now            *)
Confirm(g, conf) ==
  /\ gen[g].pc = "confirm"
  /\ LET r == [gen[g] EXCEPT !.conf = conf]
     IN Update(g, IF conf = "declined" THEN [r EXCEPT !.pc = "record", !.outcome = "declined"]
                  ELSE EnterStage([r EXCEPT !.pre = target # "absent"], "candidate"))
  /\ UNCHANGED <<records, target, staging>>

BundleRefused(g) ==
  /\ InStage(g, "candidate") /\ Bundles # ValidBundles
  /\ Repairable(g, "candidate", "ok")

BundleAccepted(g) ==
  /\ InStage(g, "candidate") /\ ValidBundles # {}
  /\ Update(g, [LeaveStage(g, Audit(g, "ok")) EXCEPT !.pc = "accepted"])
  /\ UNCHANGED <<records, target, staging>>

(* a target with content is a conflict, an empty one is removed            *)
CheckTarget(g) ==
  /\ gen[g].pc = "accepted"
  /\ IF target \in {"absent", "empty"}
     THEN Update(g, [gen[g] EXCEPT !.pc = "stage"]) /\ target' = "absent"
     ELSE Update(g, Failing(g, gen[g].runs, "target_conflict")) /\ UNCHANGED target
  /\ UNCHANGED <<records, staging>>

WriteStaged(g) ==
  /\ gen[g].pc = "stage"
  /\ Update(g, [gen[g] EXCEPT !.pc = "staged"]) /\ staging' = staging \union {g}
  /\ UNCHANGED <<records, target>>

(* inspection and the identity of the policy class, both without running it*)
CandidateRefused(g) ==
  /\ gen[g].pc = "staged"
  /\ \E code \in {"candidate_inspection_failed", "candidate_identity_mismatch"} :
       Update(g, Failing(g, gen[g].runs, code))
  /\ staging' = staging \ {g}
  /\ UNCHANGED <<records, target>>

Exited(g, excuse) == [pc |-> "exited", calls |-> gen[g].calls, excuse |-> excuse]

(* an error of the file system ends the command; nothing is recorded       *)
StagingFails(g) ==
  /\ gen[g].pc \in {"stage", "staged"}
  /\ Update(g, Exited(g, "os_error")) /\ staging' = staging \ {g}
  /\ UNCHANGED <<records, target>>

MovedOver(g) == /\ target' = g
                /\ Update(g, [gen[g] EXCEPT !.pc = "record", !.outcome = "generated"])

(* os.replace: a directory only replaces an empty one                      *)
Moved(g) ==
  IF target \in {"absent", "empty"}
  THEN target' = g /\ Update(g, [gen[g] EXCEPT !.pc = "record", !.outcome = "generated"])
  ELSE UNCHANGED target /\ Update(g, Exited(g, "os_error"))

MoveCandidate(g) ==
  /\ gen[g].pc = "staged"
  /\ Moved(g)
  /\ staging' = staging \ {g}
  /\ UNCHANGED records

(***************************************************************************)
(* The record.                                                             *)
(***************************************************************************)
RecordOf(g) == [outcome |-> gen[g].outcome, code |-> gen[g].code, conf |-> gen[g].conf,
                strategy |-> gen[g].strategy, runs |-> gen[g].runs]

(* _validate_outcome_invariants                                            *)
OutcomeValid(r) ==
  CASE r.outcome = "generated" -> r.strategy \notin {"none", "defer"} /\ r.conf \in {"interactive", "preauthorized"}
    [] r.outcome = "declined" -> r.strategy \notin {"none", "defer"} /\ r.conf = "declined"
    [] r.outcome = "deferred" -> r.strategy = "defer" /\ r.conf = "none"
    [] OTHER -> TRUE

(* PolicyGenerationStore.save                                              *)
SaveRecord(g) ==
  /\ gen[g].pc = "record" /\ OutcomeValid(RecordOf(g))
  /\ records' = [records EXCEPT ![g] = RecordOf(g)]
  /\ Update(g, Exited(g, "none"))
  /\ UNCHANGED <<target, staging>>

KeepTarget(g) == UNCHANGED target

(* _cleanup_created_target, unless the directory was there before or       *)
(* cannot be removed                                                       *)
Cleanup(g) ==
  IF gen[g].outcome = "generated" /\ ~gen[g].pre THEN target' = "absent" ELSE UNCHANGED target

(* a held lock or a refused record: the candidate goes again               *)
SaveFails(g) ==
  /\ gen[g].pc = "record"
  /\ Cleanup(g)
  /\ Update(g, Exited(g, IF gen[g].pre THEN "target_was_there" ELSE "none"))
  /\ UNCHANGED <<records, staging>>

(* an error while the store's directory is made, or of the removal         *)
SaveOrCleanupFails(g) ==
  /\ gen[g].pc = "record" /\ Update(g, Exited(g, "os_error"))
  /\ UNCHANGED <<records, target, staging>>

(* the process is killed, or interrupted outside of a model call           *)
Killed(g) ==
  /\ gen[g] # Rest /\ gen[g].pc # "exited"
  /\ Update(g, Exited(g, "killed"))
  /\ UNCHANGED <<records, target, staging>>

(* the user makes a directory at the target, or fills an empty one         *)
UserMakes == target = "absent" /\ target' \in {"empty", "foreign"} /\ UNCHANGED <<gen, records, staging>>
UserFills == target = "empty" /\ target' = "foreign" /\ UNCHANGED <<gen, records, staging>>

-----------------------------------------------------------------------------
GenInit ==
  /\ gen = [g \in Generators |-> Rest] /\ records = [g \in Generators |-> NoRecord]
  /\ target \in (IF setting.generates THEN {"absent", "empty", "foreign"} ELSE {"absent"})
  /\ staging = {}

StageStep(g, stage) == InvalidJson(g, stage) \/ Unusable(g, stage) \/ StageTimeout(g, stage) \/ StageAborted(g, stage)

AttemptStep(g) ==
  \/ \E s \in Sigs : Begin(g, s)
  \/ gen[g] # Rest /\
       \/ \E stage \in {"proposal", "candidate"} : StageStep(g, stage)
       \/ ProposalRefused(g) \/ Propose(g)
       \/ \E conf \in {"interactive", "preauthorized", "declined"} : Confirm(g, conf)
       \/ BundleRefused(g) \/ BundleAccepted(g) \/ CheckTarget(g) \/ WriteStaged(g)
       \/ CandidateRefused(g) \/ StagingFails(g) \/ MoveCandidate(g)
       \/ SaveRecord(g) \/ SaveFails(g) \/ SaveOrCleanupFails(g) \/ Killed(g)

GenNext == UserMakes \/ UserFills \/ \E g \in setting.active : AttemptStep(g)

GenerationNext ==
  \/ ~setting.generates /\ TraceNext /\ UNCHANGED genVars
  \/ setting.generates /\ GenNext /\ UNCHANGED traceVars

(* over any Trace that was written before                                  *)
GenSpec == setting.active \subseteq Generators /\ GenInit /\ [][GenerationNext]_allVars

-----------------------------------------------------------------------------
(* The candidate directory and the record belong together: a record of     *)
(* another outcome never leaves a candidate behind, and a candidate that   *)
(* stays has a record of a confirmed generation, unless the process was    *)
(* killed, the file system failed, or the directory was there before.      *)
CandidateAccounted ==
  \A g \in Generators :
    /\ (target = g /\ gen[g].pc = "exited") =>
         \/ records[g].outcome = "generated" /\ records[g].conf # "declined"
         \/ gen[g].excuse \in {"killed", "os_error", "target_was_there"}
    /\ records[g].outcome = "generated" => target = g
    /\ (g \in staging /\ gen[g].pc = "exited") => gen[g].excuse = "killed"

(* Nothing of others is lost: what a user has put at the target and the    *)
(* recorded candidate of another process stay.                             *)
TargetKept ==
  [][(target = "foreign" \/ \E g \in Generators : target = g /\ gen[g].pc = "exited")
       => target' = target]_allVars

(* The record of an attempt accounts for every model call it made, and     *)
(* tells a deadline from an interrupt.                                     *)
AuditComplete ==
  \A g \in Generators : LET r == records[g] IN r # NoRecord =>
    /\ Len(r.runs) = gen[g].calls
    /\ (r.code = "model_timeout") = (\E i \in DOMAIN r.runs : r.runs[i] = "timed_out")
    /\ (r.code = "model_aborted") = (\E i \in DOMAIN r.runs : r.runs[i] = "aborted")
=============================================================================
