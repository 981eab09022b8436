--------------------------- MODULE TraceEvidence ---------------------------
(***************************************************************************)
(* The Trace a Harness writes and the three programs that read it later:   *)
(* Discovery of repeated confirmations, the evidence of a Policy           *)
(* generation, and the cases of a Policy replay.                           *)
(*                                                                         *)
(* A Trace is a sequence of records.  Runs append to one file, also Runs   *)
(* of two processes at a time; a Run that dies leaves its records          *)
(* incomplete or its last line torn.  The signature of a confirmation      *)
(* stands for its Tool, Policies, risk and argument shape.                 *)
(***************************************************************************)
EXTENDS Integers, Sequences, FiniteSets

CONSTANTS RunIds, Sigs,
          MinOccurrences, MinRuns, MaxRefs, MaxEvidence

ASSUME EvidenceAssumption == {MinOccurrences, MinRuns, MaxRefs, MaxEvidence} \subseteq Nat \ {0}

VARIABLES setting,   \* what the Runs of a behaviour do, the call identifiers their
                     \* providers give (and give again), and the bound of the Trace
          trace,
          live,      \* per Run: the step of its call, and the call
          truth      \* what humans decided: [line, run, sig, decision]

traceVars == <<setting, trace, live, truth>>

Decisions == {"approve", "deny"}
NoRun == "none"

(***************************************************************************)
(* The Harness.                                                            *)
(***************************************************************************)
Write(rec) == Len(trace) < setting.maxTrace /\ trace' = Append(trace, rec)

(* Runs of one process follow each other, those of two may mix             *)
MayStart(r) == /\ live[r].st = "idle"
               /\ setting.mixed \/ \A q \in RunIds : live[q].st \in {"idle", "dead"}

BeginCall(r, c) ==
  /\ MayStart(r)
  /\ Write([t |-> "start", run |-> r, call |-> c])
  /\ live' = [live EXCEPT ![r] = [st |-> "called", call |-> c]]
  /\ UNCHANGED <<setting, truth>>

(* _evaluate: the decisions and the final action                           *)
Evaluate(r, s, confirm) ==
  /\ live[r].st = "called"
  /\ Write([t |-> "evaluation", run |-> r, call |-> live[r].call, sig |-> s, confirm |-> confirm])
  /\ live' = [live EXCEPT ![r] = [st |-> IF confirm THEN "evaluated" ELSE "decided", call |-> @.call, sig |-> s]]
  /\ UNCHANGED <<setting, truth>>

(* _request_confirmation of the Tool call, or of another hook              *)
Ask(r, hook) ==
  /\ IF hook = "tool" THEN live[r].st = "evaluated" ELSE MayStart(r)
  /\ Write([t |-> "request", run |-> r, id |-> Len(trace) + 1, hook |-> hook,
            call |-> live[r].call, sig |-> IF hook = "tool" THEN live[r].sig ELSE "other"])
  /\ live' = [live EXCEPT ![r] = [st |-> "asked", call |-> @.call, hook |-> hook,
                                  sig |-> IF hook = "tool" THEN @.sig ELSE "other", line |-> Len(trace) + 1]]
  /\ UNCHANGED <<setting, truth>>

Answer(r, d, automatic) ==
  /\ live[r].st = "asked"
  /\ d = "cancelled" => automatic
  /\ Write([t |-> "response", run |-> r, id |-> live[r].line, decision |-> d, automatic |-> automatic])
  /\ live' = [live EXCEPT ![r] = [st |-> IF @.hook = "tool" THEN "decided" ELSE "idle", call |-> @.call]]
  /\ truth' = IF live[r].hook = "tool" /\ ~automatic
              THEN truth \union {[line |-> live[r].line, run |-> r, sig |-> live[r].sig, decision |-> d]}
              ELSE truth
  /\ UNCHANGED setting

(* the call is over: decided, or never evaluated since the Run was aborted *)
(* before it began or its arguments are not valid                          *)
EndCall(r) ==
  /\ live[r].st \in {"called", "decided"}
  /\ Write([t |-> "end", run |-> r, call |-> live[r].call])
  /\ live' = [live EXCEPT ![r].st = "idle"]
  /\ UNCHANGED <<setting, truth>>

(* _record_policy_runtime_event, outside of any Run                        *)
RuntimeEvent == Write([t |-> "runtime", run |-> NoRun]) /\ UNCHANGED <<setting, live, truth>>

(* _maybe_compact and merge_session_branch: their evaluation, and then the *)
(* confirmation, are records of no Run                                     *)
SessionEvaluation ==
  /\ setting.mixed \/ \A r \in RunIds : live[r].st \in {"idle", "dead"}
  /\ Write([t |-> "unowned", run |-> NoRun])
  /\ UNCHANGED <<setting, live, truth>>

(* any record whose text has a line separator, which the writer leaves     *)
(* as it is                                                                *)
SeparatedText(r) ==
  /\ live[r].st \notin {"idle", "dead"} \/ MayStart(r)
  /\ Write([t |-> "separated", run |-> r])
  /\ UNCHANGED <<setting, live, truth>>

(* the process dies, between two records or inside one                     *)
Crash(r) ==
  /\ live[r].st \notin {"idle", "dead"}
  /\ live' = [live EXCEPT ![r].st = "dead"]
  /\ UNCHANGED trace \/ Write([t |-> "torn", run |-> r])
  /\ UNCHANGED <<setting, truth>>

(* A program that reads the Trace takes its records line by line.          *)
Fold(op(_, _, _), base) ==
  LET after[n \in 0 .. Len(trace)] == IF n = 0 THEN base ELSE op(after[n - 1], trace[n], n)
  IN after[Len(trace)]

(***************************************************************************)
(* Discovery: _parse_trace.                                                *)
(***************************************************************************)
Parsed == [ok |-> TRUE, evals |-> {}, reqs |-> {}, samples |-> {}]
Refuse(st) == [st EXCEPT !.ok = FALSE]

(* not JSON when the text is split into lines, or a policy record that has *)
(* no Run                                                                  *)
Unreadable == {"torn", "separated", "unowned"}

ParseEvaluation(st, rec) ==
  LET key == <<rec.run, rec.call>>
  IN IF ~rec.confirm THEN st
     ELSE IF \E e \in st.evals : e.key = key THEN Refuse(st)
     ELSE [st EXCEPT !.evals = @ \union {[key |-> key, sig |-> rec.sig]}]

(* the evaluation of the call is taken, and must agree with the request    *)
ParseRequest(st, rec, i) ==
  LET evals == {e \in st.evals : e.key = <<rec.run, rec.call>>}
  IN IF \/ \E q \in st.reqs : q.id = rec.id
        \/ rec.hook = "tool" /\ (evals = {} \/ \E e \in evals : e.sig # rec.sig)
     THEN Refuse(st)
     ELSE [st EXCEPT !.reqs = @ \union {[id |-> rec.id, run |-> rec.run, hook |-> rec.hook,
                                        sig |-> rec.sig, line |-> i]},
                     !.evals = IF rec.hook = "tool" THEN @ \ evals ELSE @]

CountedAnyway(rec, q) == q.hook = "tool" /\ rec.decision # "cancelled"

(* what counts: a human's approval or denial of a Tool call                *)
Eligible(rec, q) == q.hook = "tool" /\ rec.decision # "cancelled" /\ ~rec.automatic

SampleOf(rec, q) == [line |-> q.line, run |-> q.run, sig |-> q.sig, decision |-> rec.decision]

ParseResponse(st, rec) ==
  LET qs == {q \in st.reqs : q.id = rec.id}
  IN IF qs = {} \/ \E q \in qs : q.run # rec.run THEN Refuse(st)
     ELSE [st EXCEPT !.reqs = @ \ qs,
                     !.samples = @ \union {SampleOf(rec, q) : q \in {p \in qs : Eligible(rec, p)}}]

ParseRecord(st, rec, i) ==
  IF ~st.ok THEN st
  ELSE CASE rec.t \in Unreadable -> Refuse(st)
         [] rec.t = "evaluation" -> ParseEvaluation(st, rec)
         [] rec.t = "request" -> ParseRequest(st, rec, i)
         [] rec.t = "response" -> ParseResponse(st, rec)
         [] OTHER -> st

(* every request needs its response, every evaluation its request          *)
ParseTrace ==
  LET st == Fold(ParseRecord, Parsed)
  IN IF st.reqs # {} \/ st.evals # {} THEN Refuse(st) ELSE st

(* The n first elements of S by their sort keys.                           *)
First(S, key, n) == {x \in S : Cardinality({y \in S : key[y] < key[x]}) < n}

InOrder(samples) == [x \in samples |-> x.line]

(* _build_opportunities: the references of the signature, oldest first     *)
OpportunityOf(samples, s) ==
  LET group == {x \in samples : x.sig = s}
  IN IF Cardinality(group) < MinOccurrences \/ Cardinality({x.run : x \in group}) < MinRuns
     THEN {} ELSE First(group, InOrder(group), MaxRefs)

Discover(s) == IF ParseTrace.ok THEN OpportunityOf(ParseTrace.samples, s) ELSE {}

(***************************************************************************)
(* The evidence of a generation: the same Trace read again, line by line.  *)
(***************************************************************************)
Lines(t) == {i \in DOMAIN trace : trace[i].t = t}

(* _parse_trace_evidence: discovery first, then every record has a Run and *)
(* no call of a Run was evaluated for confirmation twice                   *)
StreamValid ==
  /\ ParseTrace.ok
  /\ \A i \in DOMAIN trace : trace[i].run # NoRun
  /\ \A i, j \in Lines("evaluation") :
       (i # j /\ trace[i].confirm /\ trace[j].confirm)
         => <<trace[i].run, trace[i].call>> # <<trace[j].run, trace[j].call>>

EvaluationsFor(i) ==
  {j \in Lines("evaluation") : trace[j].confirm /\ trace[j].run = trace[i].run /\ trace[j].call = trace[i].call}
ResponsesTo(i) == {j \in Lines("response") : trace[j].id = trace[i].id}

(* a reference still stands for the confirmation it was made from          *)
Correlates(ref) ==
  /\ ref.line \in Lines("request")
  /\ trace[ref.line].hook = "tool" /\ trace[ref.line].run = ref.run
  /\ \E j \in EvaluationsFor(ref.line) : trace[j].sig = ref.sig
  /\ \E j \in ResponsesTo(ref.line) : /\ trace[j].run = ref.run /\ trace[j].decision = ref.decision
                                      /\ ~trace[j].automatic

ValidSample(ref) == ref.line >= 1 /\ ref.decision \in Decisions

(* _group_by_distinct_run: one sample of each Run, then the others         *)
GroupByRun(samples) ==
  LET repeats(x) == \E y \in samples : y.run = x.run /\ y.line < x.line
  IN [x \in samples |-> IF repeats(x) THEN Len(trace) + x.line ELSE x.line]

FirstsOnly(refs, max) == First(refs, InOrder(refs), max)

(* _select_balanced: denials and approvals in turn, denials first, each    *)
(* group preferring Runs that are not there yet                            *)
SelectBalanced(refs, max) ==
  LET of(d) == {x \in refs : x.decision = d}
      first(d, n) == First(of(d), GroupByRun(of(d)), n)
      na == Cardinality(of("approve"))
      nd == Cardinality(of("deny"))
      least(a, b) == IF a < b THEN a ELSE b
      fromDeny == least(nd, IF na < max \div 2 THEN max - na ELSE (max + 1) \div 2)
  IN IF Cardinality(refs) <= max THEN refs
     ELSE first("deny", fromDeny) \union first("approve", max - fromDeny)

NoEvidence == {}

(* load_policy_generation_evidence over the Trace the references are from  *)
LoadEvidence(refs) ==
  IF refs # {} /\ StreamValid /\ \A ref \in refs : Correlates(ref) /\ ValidSample(ref)
  THEN SelectBalanced(refs, MaxEvidence) ELSE NoEvidence

(***************************************************************************)
(* The cases of a replay: load_before_tool_replay_cases.                   *)
(***************************************************************************)
PendingOfAny(st, r) == st.pending

PendingOf(st, r) == {p \in st.pending : p.run = r}

(* a case comes from an evaluation, or from a call that has none           *)
Case(p, evaluated) == [run |-> p.run, call |-> p.call, line |-> p.line, evaluated |-> evaluated]

ReplayRecord(st, rec, i) ==
  LET old == PendingOf(st, rec.run)
      flush == {Case(p, FALSE) : p \in old}
  IN IF ~st.ok \/ rec.t = "torn" THEN Refuse(st)
     ELSE CASE rec.t = "start" ->
                 [st EXCEPT !.cases = @ \union flush,
                            !.pending = (@ \ old) \union {[run |-> rec.run, call |-> rec.call, line |-> i]}]
            [] rec.t = "evaluation" ->
                 IF \E p \in old : p.call # rec.call THEN Refuse(st)
                 ELSE [st EXCEPT !.cases = @ \union {Case([run |-> rec.run, call |-> rec.call, line |-> i], TRUE)},
                                 !.pending = @ \ old]
            [] rec.t = "end" -> [st EXCEPT !.cases = @ \union flush, !.pending = @ \ old]
            [] OTHER -> st

Unread == [ok |-> TRUE, pending |-> {}, cases |-> {}]

ReplayCases ==
  LET st == Fold(ReplayRecord, Unread)
  IN [st EXCEPT !.cases = @ \union {Case(p, FALSE) : p \in st.pending}, !.pending = {}]

-----------------------------------------------------------------------------
TraceInit ==
  /\ trace = <<>> /\ truth = {}
  /\ live = [r \in RunIds |-> [st |-> "idle", call |-> "none"]]

TraceStep(r) ==
  \/ \E c \in setting.calls : BeginCall(r, c)
  \/ \E s \in setting.sigs, b \in setting.confirms : Evaluate(r, s, b)
  \/ \E hook \in setting.hooks : Ask(r, hook)
  \/ \E a \in setting.answers : Answer(r, a[1], a[2])
  \/ EndCall(r) \/ (setting.faults /\ Crash(r))

TraceNext ==
  \/ "runtime" \in setting.others /\ RuntimeEvent
  \/ "unowned" \in setting.others /\ SessionEvaluation
  \/ \E r \in RunIds : TraceStep(r) \/ ("separated" \in setting.others /\ SeparatedText(r))

-----------------------------------------------------------------------------
(* A Trace of maxTrace 0 was written before                                *)
BeingWritten == setting.maxTrace > 0
Complete == /\ \A r \in RunIds : live[r].st \notin {"evaluated", "asked", "dead"}
            /\ Lines("torn") = {}
(* what Discovery refuses in a complete Trace                              *)
TraceRefused == Lines("unowned") \union Lines("separated") # {}
ReusedCall == \E i, j \in Lines("evaluation") :
                i < j /\ trace[i].run = trace[j].run /\ trace[i].call = trace[j].call

(* Discovery of a Trace finds exactly what humans decided in it.  It reads *)
(* every Trace whose Runs did not die, but for those with a policy record  *)
(* outside of a Run or a line separator in a text: these it refuses whole. *)
(* What generation sends to the model are decisions of humans about the    *)
(* same thing; it accepts a Trace Discovery accepted, unless that has a    *)
(* record outside of a Run or a call identifier a Run used twice.          *)
EvidenceIsHuman == BeingWritten =>
  /\ ParseTrace.ok => ParseTrace.samples = truth
  /\ Complete => (ParseTrace.ok <=> ~TraceRefused)
  /\ \A s \in Sigs : LET refs == Discover(s) IN refs # {} =>
       IF LoadEvidence(refs) = NoEvidence
       THEN ReusedCall \/ \E i \in DOMAIN trace : trace[i].run = NoRun
       ELSE LoadEvidence(refs) \subseteq {x \in truth : x.sig = s}

(* The selection of evidence is full, shows both sides when there are two, *)
(* and leaves no Run of a side unseen while another is shown twice.        *)
SelectionIsBalanced == BeingWritten =>
  \A s \in Sigs : LET refs == Discover(s)
                      sel == SelectBalanced(refs, MaxEvidence)
                      side(x, d) == {y \in x : y.decision = d}
  IN /\ Cardinality(sel) = (IF Cardinality(refs) < MaxEvidence THEN Cardinality(refs) ELSE MaxEvidence)
     /\ \A d \in Decisions :
          /\ (side(refs, d) # {} /\ MaxEvidence > 1) => side(sel, d) # {}
          /\ (\E x, y \in side(sel, d) : x # y /\ x.run = y.run)
               => {x.run : x \in side(refs, d)} = {x.run : x \in side(sel, d)}

(* Evidence is sound from the Trace to the model: what humans decided, all *)
(* of it, in a balanced selection.                                         *)
EvidenceSound == EvidenceIsHuman /\ SelectionIsBalanced

(* Every Tool call of the Trace is one case of a replay, with its recorded *)
(* evaluation if there is one, also when the records of two Runs mix.      *)
ReplayCoversCalls ==
  LET started(i) == \E k \in Lines("evaluation") :
                      /\ k > i /\ trace[k].run = trace[i].run
                      /\ ~\E m \in Lines("start") : i < m /\ m < k /\ trace[m].run = trace[i].run
  IN (BeingWritten /\ Lines("torn") = {}) =>
       /\ ReplayCases.ok
       /\ {c.line : c \in {c \in ReplayCases.cases : c.evaluated}} = Lines("evaluation")
       /\ {c.line : c \in {c \in ReplayCases.cases : ~c.evaluated}}
            = {i \in Lines("start") : ~started(i)}
=============================================================================
