----------------------------- MODULE SessionLog -----------------------------
(***************************************************************************)
(* The Session of a Harness: the append-only log and its tree of entries   *)
(* (session/session.py, session/tree.py), what a crash leaves of the file  *)
(* and what open() repairs, and the three projections that must agree: the *)
(* log on disk, the caches of SessionManager and Agent.messages, which     *)
(* BaseHarness (harness/base.py) keeps in step with them.                  *)
(*                                                                         *)
(* An entry is identified by its position in the log, a Run by the         *)
(* position of its run_start.  The context of the Agent is a sequence of   *)
(* entries; 0 stands for a message that is not in the log.                 *)
(*                                                                         *)
(* Simplifications: one Plugin with one key; a checkpoint is the entry     *)
(* that names its file, since open() takes nothing from the file that it   *)
(* does not also compute from the log; one merge and one compaction are    *)
(* under way at a time; fork(), reset() and schema migration create other  *)
(* files and are left out.                                                 *)
(***************************************************************************)
EXTENDS Naturals, Sequences, FiniteSets

CONSTANTS
    MaxEntries,      \* bound: entries of the log
    MaxCalls,        \* bound: Tool calls of one assistant message
    MaxMarks,        \* bound: Plugin states, branches and selections of the log
    MaxUnlogged,     \* bound: messages of the Agent that are not in the log
    MinMessages,     \* _maybe_compact: fewer messages are not compacted
    AnyAnchor,       \* BOOLEAN: tree operations may target any entry, also one
                     \* inside a Run or one without a Run identifier
    LateCompaction,  \* BOOLEAN: other calls may overtake a compaction
    Unterminated     \* BOOLEAN: a write may stop right before the newline

ASSUME SessionAssumption ==
    /\ MaxEntries \in Nat /\ MaxCalls \in Nat /\ MaxMarks \in Nat
    /\ MaxUnlogged \in Nat /\ MinMessages \in Nat \ {0}
    /\ AnyAnchor \in BOOLEAN /\ LateCompaction \in BOOLEAN /\ Unterminated \in BOOLEAN

VARIABLES
    log,      \* records of session.jsonl
    tail,     \* what follows the last record: "clean", "torn", "open" or "glued"
    corrupt,  \* a terminated line holds two records
    acked,    \* number of records whose append returned
    phase,    \* state of the SessionManager and of the Harness that holds it
    leaf,     \* _active_leaf_id
    msgs,     \* _message_source_ids, aligned with _messages
    plug,     \* the projected Plugin state: 0 absent, 1 set
    ctx,      \* Agent.messages
    failed,   \* _session_failure is set
    plan,     \* a prepared merge
    job       \* a compaction that waits for its summary

disk == <<log, tail, corrupt>>
cache == <<leaf, msgs, plug>>
pending == <<plan, job>>
sessionVars == <<disk, acked, phase, cache, ctx, failed, pending>>

NoPlan == [target |-> 0, source |-> 0]
NoJob == [old |-> <<>>, cut |-> 0]

Entry(type, parent, run, of, n, gone) ==
    [type |-> type, parent |-> parent, run |-> run, of |-> of, n |-> n, gone |-> gone]

MessageTypes == {"user", "assistant", "tool"}

-----------------------------------------------------------------------------
(* The tree.                                                               *)

(* _path_to_entry: positions from the root down to entry e.  What the code *)
(* computes in a loop over this path is a recursion along it: the value at *)
(* an entry comes from the value at its parent.                            *)
Path(es, e) ==
    LET p[k \in 0 .. Len(es)] ==
            IF k = 0 THEN <<>> ELSE Append(p[es[k].parent], k)
    IN p[e]

Members(s) == {s[k] : k \in 1 .. Len(s)}

(* _leaf_ids.                                                              *)
Leaves(es) == {e \in 1 .. Len(es) : \A f \in 1 .. Len(es) : es[f].parent # e}

(* _project_messages, one entry.  A compaction replaces the first of the   *)
(* entries it removes, or comes last if none of them is there.             *)
Without(seq, gone) ==
    LET w[k \in 0 .. Len(seq)] ==
            IF k = 0 THEN <<>>
            ELSE IF seq[k] \in gone THEN w[k - 1] ELSE Append(w[k - 1], seq[k])
    IN w[Len(seq)]

ProjectCompact(seq, gone, e) ==
    LET hit == {k \in 1 .. Len(seq) : seq[k] \in gone}
        kept == Without(seq, gone)
        at == IF hit = {} THEN Len(kept)
              ELSE (CHOOSE k \in hit : \A j \in hit : k <= j) - 1
    IN SubSeq(kept, 1, at) \o <<e>> \o SubSeq(kept, at + 1, Len(kept))

Project(seq, es, e) ==
    CASE es[e].type \in MessageTypes \cup {"merge"} -> Append(seq, e)
      [] es[e].type = "compact" -> ProjectCompact(seq, es[e].gone, e)
      [] OTHER -> seq

ProjectMessages(es, e) ==
    LET p[k \in 0 .. Len(es)] ==
            IF k = 0 THEN <<>> ELSE Project(p[es[k].parent], es, k)
    IN p[e]

ProjectPluginState(es, e) ==
    LET p[k \in 0 .. Len(es)] ==
            IF k = 0 THEN 0
            ELSE IF es[k].type = "plugin" THEN es[k].n ELSE p[es[k].parent]
    IN p[e]

(* _open_run: the Run open at entry e, 0 for none.  Bad stands for the     *)
(* SessionFormatError raised when the path is not a sequence of Runs.      *)
Bad == MaxEntries + 1

OpenRunStep(open, es, e) ==
    LET t == es[e].type IN
    IF open = Bad THEN Bad
    ELSE IF t = "run_start" THEN IF open = 0 THEN e ELSE Bad
    ELSE IF t \in MessageTypes \cup {"run_end"}
         THEN IF open = 0 \/ es[e].run # open THEN Bad
              ELSE IF t = "run_end" THEN 0 ELSE open
    ELSE IF t = "plugin"
         THEN IF es[e].run # 0 /\ es[e].run # open THEN Bad ELSE open
    ELSE IF open = 0 THEN 0 ELSE Bad

OpenRun(es, e) ==
    LET p[k \in 0 .. Len(es)] ==
            IF k = 0 THEN 0 ELSE OpenRunStep(p[es[k].parent], es, k)
    IN p[e]

(* _path_has_open_run, the weaker test of the merge.                       *)
PathHasOpenRun(es, e) ==
    LET p[k \in 0 .. Len(es)] ==
            IF k = 0 THEN 0
            ELSE LET open == p[es[k].parent] IN
                 IF open = Bad THEN Bad
                 ELSE IF es[k].type = "run_start" THEN IF open = 0 THEN k ELSE Bad
                 ELSE IF es[k].type = "run_end" THEN IF open = es[k].run THEN 0 ELSE Bad
                 ELSE open
    IN p[e] # 0

(* The Tool calls of Run r without a result, as <<assistant, call>>, in    *)
(* the order of the path.                                                  *)
Calls(es, e, r) ==
    {c \in Members(Path(es, e)) \X (1 .. MaxCalls) :
        es[c[1]].type = "assistant" /\ es[c[1]].run = r /\ c[2] <= es[c[1]].n}

Results(es, e, a, n) ==
    {t \in Members(Path(es, e)) : es[t].type = "tool" /\ es[t].of = a /\ es[t].n = n}

MissingCalls(es, e, r) == {c \in Calls(es, e, r) : Results(es, e, c[1], c[2]) = {}}

FirstMissing(es, e, r) ==
    CHOOSE c \in MissingCalls(es, e, r) :
        \A d \in MissingCalls(es, e, r) : c[1] < d[1] \/ (c[1] = d[1] /\ c[2] <= d[2])

-----------------------------------------------------------------------------
(* Writing one entry.                                                      *)

SessionInit ==
    /\ log = <<>> /\ tail = "clean" /\ corrupt = FALSE /\ acked = 0
    /\ phase = "idle"
    /\ leaf = 0 /\ msgs = <<>> /\ plug = 0
    /\ ctx = <<>> /\ failed = FALSE
    /\ plan = NoPlan /\ job = NoJob

NewId == Len(log) + 1
HasSpace == Len(log) < MaxEntries

(* The record and its newline reach the file.  An unterminated record is   *)
(* not completed first: the two then share one line.                       *)
WriteRecord(e) ==
    /\ log' = Append(log, e)
    /\ corrupt' = (corrupt \/ tail = "open")
    /\ tail' = "clean"

(* The write fails, or the process dies in it.                             *)
WriteCut(e) ==
    \/ UNCHANGED disk
    \/ tail' = (IF tail = "open" THEN "glued" ELSE "torn") /\ UNCHANGED <<log, corrupt>>
    \/ WriteRecord(e)
    \/ /\ Unterminated
       /\ IF tail = "open" THEN tail' = "glued" /\ UNCHANGED <<log, corrupt>>
          ELSE tail' = "open" /\ log' = Append(log, e) /\ UNCHANGED corrupt

(* _append_entry: the caches follow the file.                              *)
UpdateCacheStale(e) ==
    /\ leaf' = NewId
    /\ msgs' = IF e.type \in MessageTypes \cup {"merge", "compact"} THEN Append(msgs, NewId) ELSE msgs
    /\ plug' = IF e.type = "plugin" THEN e.n ELSE plug

UpdateCache(e) ==
    LET es == Append(log, e) IN
    /\ leaf' = NewId
    /\ msgs' = IF e.type \in MessageTypes THEN Append(msgs, NewId)
               ELSE IF e.type \in {"compact", "leaf", "merge"} THEN ProjectMessages(es, NewId)
               ELSE msgs
    /\ plug' = IF e.type = "plugin" THEN e.n
               ELSE IF e.type \in {"compact", "leaf", "merge"} THEN ProjectPluginState(es, NewId)
               ELSE plug

(* A successful append leaves the manager in state `next`.                 *)
Appended(e, next) ==
    /\ HasSpace
    /\ WriteRecord(e) /\ UpdateCache(e)
    /\ acked' = NewId
    /\ phase' = next

(* A failed one breaks the manager; only close() is left.                  *)
CacheAfterFailureAdvanced == leaf' = NewId /\ UNCHANGED <<msgs, plug>>
CacheAfterFailure == UNCHANGED cache

Broken(e) ==
    /\ HasSpace
    /\ WriteCut(e) /\ CacheAfterFailure
    /\ phase' = "broken"
    /\ UNCHANGED acked

-----------------------------------------------------------------------------
(* Runs: _persist_session_event.                                           *)

(* Without LateCompaction nothing overtakes _maybe_compact.                *)
Free == job = NoJob \/ LateCompaction

SessionIdle == phase = "idle" /\ Free

RunStart ==
    /\ SessionIdle /\ OpenRun(log, leaf) = 0
    /\ LET e == Entry("run_start", leaf, NewId, 0, 0, {}) IN
       \/ Appended(e, "running") /\ UNCHANGED <<ctx, failed>>
       \/ Broken(e) /\ failed' = TRUE /\ ctx' = Append(ctx, 0)
    /\ UNCHANGED pending

(* The path has an open Run, left by a prompt() that never emitted         *)
(* agent_end, or is no sequence of Runs, or a tree operation or a Plugin   *)
(* broke the manager: the next event of a Run fails.                       *)
RunStartRefused ==
    /\ ~failed /\ ((SessionIdle /\ OpenRun(log, leaf) # 0) \/ (phase = "broken" /\ Free))
    /\ failed' = TRUE /\ ctx' = Append(ctx, 0)
    /\ UNCHANGED <<disk, acked, phase, cache, pending>>

MayAnchor(e) == AnyAnchor \/ (OpenRun(log, e) = 0 /\ log[e].run # 0)

(* find_cut_point and compact_session: how many messages to remove.  The   *)
(* kept part starts with an assistant message or, if at least two are      *)
(* removed, a user message; never with a Tool result.                      *)
CutsAnywhere(seq) == 1 .. Len(seq) - 1

Cuts(seq) ==
    {k \in 1 .. Len(seq) - 1 :
        \/ log[seq[k + 1]].type = "assistant"
        \/ log[seq[k + 1]].type # "tool" /\ k >= 2}

(* _maybe_compact, up to the request for a summary: what it remembers.     *)
Compactions ==
    IF job # NoJob THEN {job}
    ELSE {NoJob} \cup
         (IF Len(msgs) < MinMessages THEN {}
          ELSE {[old |-> msgs, cut |-> k] : k \in Cuts(msgs)})

(* With _session_failure set no event is persisted any more, and a Run     *)
(* goes through all the same, the compaction after it included.            *)
Unlogged == Cardinality({k \in 1 .. Len(ctx) : ctx[k] = 0})

UnpersistedRun ==
    /\ phase \in {"idle", "broken"} /\ failed /\ Free
    /\ Unlogged < MaxUnlogged
    /\ ctx' = Append(ctx, 0)
    /\ job' \in IF phase = "idle" /\ leaf # 0 /\ MayAnchor(leaf) THEN Compactions ELSE {job}
    /\ UNCHANGED <<disk, acked, phase, cache, failed, plan>>

(* A committed message: first the prompt, then answers, each followed by   *)
(* the results of its Tool calls (TranscriptWellFormed of AgentLoop).      *)
RunMessages(r) == {e \in Members(Path(log, leaf)) : log[e].type \in MessageTypes /\ log[e].run = r}

NextMessages(r) ==
    IF MissingCalls(log, leaf, r) # {}
    THEN LET c == FirstMissing(log, leaf, r) IN {Entry("tool", leaf, r, c[1], c[2], {})}
    ELSE {Entry("user", leaf, r, 0, 0, {})} \cup
         (IF RunMessages(r) = {} THEN {}
          ELSE {Entry("assistant", leaf, r, 0, n, {}) : n \in 0 .. MaxCalls})

Message ==
    /\ phase = "running"
    /\ LET r == OpenRun(log, leaf) IN
       IF r = Bad
       THEN /\ phase' = "idle" /\ failed' = TRUE /\ ctx' = Append(ctx, 0)
            /\ UNCHANGED <<disk, acked, cache>>
       ELSE \E e \in NextMessages(r) :
               \/ Appended(e, "running") /\ ctx' = Append(ctx, NewId) /\ UNCHANGED failed
               \/ Broken(e) /\ failed' = TRUE /\ ctx' = Append(ctx, 0)
    /\ UNCHANGED pending

RunEnd ==
    /\ phase = "running"
    /\ LET r == OpenRun(log, leaf)
           e == Entry("run_end", leaf, r, 0, 0, {}) IN
       /\ r # Bad /\ RunMessages(r) # {}
       /\ \/ Appended(e, "ending") /\ UNCHANGED failed
          \/ Broken(e) /\ failed' = TRUE
    /\ UNCHANGED <<ctx, pending>>

(* prompt() left without agent_end.                                        *)
RunCut ==
    /\ phase = "running"
    /\ phase' = "idle"
    /\ UNCHANGED <<disk, acked, cache, ctx, failed, pending>>

(* create_checkpoint, right after run_end.  If the snapshot cannot be      *)
(* written the log stays as it is.  Then prompt() goes on to               *)
(* _maybe_compact, unless the Run ended badly.                             *)
CheckpointEntry == Entry("checkpoint", leaf, log[leaf].run, leaf, 0, {})

Checkpoint ==
    /\ phase = "ending"
    /\ \/ Appended(CheckpointEntry, "idle") /\ job' \in Compactions /\ UNCHANGED failed
       \/ Broken(CheckpointEntry) /\ failed' = TRUE /\ UNCHANGED job
       \/ phase' = "idle" /\ job' \in Compactions /\ UNCHANGED <<disk, acked, cache, failed>>
    /\ UNCHANGED <<ctx, plan>>

-----------------------------------------------------------------------------
(* Tree operations of the idle Harness.                                    *)

Marks == Cardinality({e \in 1 .. Len(log) : log[e].type \in {"plugin", "branch", "leaf"}})

(* append_plugin_state, inside or outside a Run.                           *)
PluginState(n) ==
    /\ phase = "running" \/ SessionIdle
    /\ Marks < MaxMarks
    /\ OpenRun(log, leaf) # Bad
    /\ LET e == Entry("plugin", leaf, OpenRun(log, leaf), 0, n, {}) IN
       \/ Appended(e, phase) \/ Broken(e)
    /\ UNCHANGED <<ctx, failed, pending>>

(* _restore_session_transcript after a tree operation.                     *)
TreeAppendKeepsContext(e) ==
    \/ Appended(e, "idle") /\ UNCHANGED ctx
    \/ Broken(e) /\ UNCHANGED ctx

TreeAppend(e) ==
    \/ Appended(e, "idle") /\ ctx' = msgs'
    \/ Broken(e) /\ UNCHANGED ctx

(* switch_session_leaf: the selection is an entry of its own.              *)
SwitchLeaf(t) ==
    /\ SessionIdle /\ MayAnchor(t) /\ Marks < MaxMarks
    /\ TreeAppend(Entry("leaf", t, log[t].run, 0, 0, {}))
    /\ UNCHANGED <<failed, pending>>

Branch ==
    /\ SessionIdle /\ leaf # 0 /\ MayAnchor(leaf) /\ Marks < MaxMarks
    /\ LET e == Entry("branch", leaf, log[leaf].run, 0, 0, {}) IN
       Appended(e, "idle") \/ Broken(e)
    /\ UNCHANGED <<ctx, failed, pending>>

(* compact_session: the anchor is the last checkpoint of the path, or its  *)
(* first entry, and it must be the leaf; so no message is collected.       *)
Checkpoints(es, e) == {c \in Members(Path(es, e)) : es[c].type = "checkpoint"}

Anchor ==
    LET cs == Checkpoints(log, leaf) IN
    IF cs = {} THEN Path(log, leaf)[1] ELSE CHOOSE c \in cs : \A d \in cs : d <= c

CompactManually ==
    /\ SessionIdle /\ leaf # 0 /\ MayAnchor(leaf)
    /\ Anchor = leaf
    /\ TreeAppend(Entry("compact", leaf, log[leaf].run, 0, 0, {}))
    /\ UNCHANGED <<failed, pending>>

(* merge_session_branch: prepare, wait for the summary, prepare again and  *)
(* compare.                                                                *)
Mergeable(s) ==
    /\ leaf # 0 /\ s \in Leaves(log) /\ s # leaf
    /\ ~PathHasOpenRun(log, leaf) /\ ~PathHasOpenRun(log, s)
    /\ Members(Path(log, s)) \cap Members(Path(log, leaf)) # {}
    /\ Members(Path(log, s)) \ Members(Path(log, leaf)) # {}

PrepareMerge(s) ==
    /\ SessionIdle /\ plan = NoPlan /\ Mergeable(s)
    /\ plan' = [target |-> leaf, source |-> s]
    /\ UNCHANGED <<disk, acked, phase, cache, ctx, failed, job>>

MergeStillValidUnchecked == TRUE
MergeStillValid == plan.target = leaf /\ Mergeable(plan.source)

CommitMerge ==
    /\ plan # NoPlan /\ phase \in {"idle", "running"} /\ Free
    /\ plan' = NoPlan
    /\ IF MergeStillValid
       THEN TreeAppend(Entry("merge", leaf, 0, plan.source, 0, {}))
       ELSE UNCHANGED <<disk, acked, phase, cache, ctx>>
    /\ UNCHANGED <<failed, job>>

(* Policy, confirmation, model or timeout ended the merge.                 *)
MergeAbandoned ==
    /\ plan # NoPlan
    /\ plan' = NoPlan
    /\ UNCHANGED <<disk, acked, phase, cache, ctx, failed, job>>

(* _maybe_compact, with the summary: the identifiers to remove are read    *)
(* now, the new context is assembled from the messages read before.        *)
CompactCommit ==
    /\ job # NoJob /\ phase \in {"idle", "running"}
    /\ LET gone == {msgs[k] : k \in {j \in 1 .. Len(msgs) : j <= job.cut}}
           e == Entry("compact", leaf, log[leaf].run, 0, 0, gone) IN
       \/ Appended(e, phase) /\ ctx' = <<NewId>> \o SubSeq(job.old, job.cut + 1, Len(job.old))
       \/ Broken(e) /\ UNCHANGED ctx
    /\ job' = NoJob
    /\ UNCHANGED <<failed, plan>>

(* Blocked, denied, aborted, timed out or failed.                          *)
CompactSkipped ==
    /\ job # NoJob
    /\ job' = NoJob
    /\ UNCHANGED <<disk, acked, phase, cache, ctx, failed, plan>>

-----------------------------------------------------------------------------
(* The end of a process and open().                                        *)

Forgotten ==
    /\ leaf' = 0 /\ msgs' = <<>> /\ plug' = 0
    /\ ctx' = <<>> /\ failed' = FALSE /\ plan' = NoPlan /\ job' = NoJob

(* close(), or the process dies: every entry was synced when it was        *)
(* written.                                                                *)
Close ==
    /\ phase \notin {"closed", "refused"}
    /\ phase' = "closed" /\ Forgotten
    /\ UNCHANGED <<disk, acked>>

(* _read_session_file with repair: an unterminated last line that is no    *)
(* record is removed; one that is a record stays, unterminated.            *)
RepairedDropsRecord == IF tail = "torn" THEN SubSeq(log, 1, Len(log) - 1) ELSE log
Repaired == IF tail = "glued" THEN SubSeq(log, 1, Len(log) - 1) ELSE log

(* entry_from_dict demands a run_id of all but these.                      *)
RunIdReadable(e) == e.type \in {"plugin", "merge"} \/ e.run # 0

(* What _read_session_file demands of merge entries.                       *)
MergeReadable(es, m) ==
    /\ es[m].of \in 1 .. m - 1
    /\ \A f \in 1 .. m - 1 : es[f].parent # es[m].of
    /\ Members(Path(es, es[m].of)) \cap Members(Path(es, es[m].parent)) # {}
    /\ Members(Path(es, es[m].of)) \ Members(Path(es, es[m].parent)) # {}

Readable(es) ==
    /\ ~corrupt
    /\ \A e \in 1 .. Len(es) : RunIdReadable(es[e])
    /\ \A m \in 1 .. Len(es) : es[m].type = "merge" => MergeReadable(es, m)
    /\ OpenRun(es, Len(es)) # Bad

(* The active leaf is the last entry.                                      *)
Open ==
    /\ phase = "closed"
    /\ LET es == Repaired IN
       IF Readable(es)
       THEN /\ log' = es /\ tail' = (IF tail = "open" THEN "open" ELSE "clean")
            /\ leaf' = Len(es)
            /\ msgs' = ProjectMessages(es, Len(es)) /\ plug' = ProjectPluginState(es, Len(es))
            /\ phase' = "recovering"
       ELSE phase' = "refused" /\ UNCHANGED <<log, tail, cache>>
    /\ UNCHANGED <<corrupt, acked, ctx, failed, pending>>

(* _recover_interrupted_run: one unknown result per unanswered call, then  *)
(* the end of the Run.  Each append may be the last of this process.       *)
RecoveryStepEndsFirst(r) == Entry("run_end", leaf, r, 0, 1, {})

RecoveryStep(r) ==
    IF MissingCalls(log, leaf, r) # {}
    THEN LET c == FirstMissing(log, leaf, r) IN Entry("tool", leaf, r, c[1], c[2], {})
    ELSE Entry("run_end", leaf, r, 0, 1, {})

OpenFails(e) ==
    HasSpace /\ WriteCut(e) /\ phase' = "closed" /\ Forgotten /\ UNCHANGED acked

Recover ==
    /\ phase = "recovering" /\ OpenRun(log, leaf) # 0
    /\ LET e == RecoveryStep(OpenRun(log, leaf)) IN
       \/ Appended(e, "recovering") /\ UNCHANGED <<ctx, failed, pending>>
       \/ OpenFails(e)

(* _ensure_latest_run_checkpoint, then the Harness takes the transcript.   *)
(* A checkpoint of the last Run, loaded or not, would follow its run_end.  *)
NeedsCheckpoint == leaf # 0 /\ log[leaf].type = "run_end"

Recovered ==
    /\ phase = "recovering" /\ OpenRun(log, leaf) = 0
    /\ \/ NeedsCheckpoint /\ HasSpace
          /\ LET e == CheckpointEntry IN
             /\ WriteRecord(e) /\ UpdateCache(e) /\ acked' = NewId
       \/ (NeedsCheckpoint => ~HasSpace) /\ UNCHANGED <<disk, acked, leaf, msgs, plug>>
       \/ NeedsCheckpoint /\ HasSpace /\ UNCHANGED <<disk, acked, leaf, msgs, plug>>
    /\ phase' = "idle" /\ ctx' = msgs'
    /\ UNCHANGED <<failed, pending>>

RecoveredCheckpointFails ==
    /\ phase = "recovering" /\ OpenRun(log, leaf) = 0 /\ NeedsCheckpoint
    /\ OpenFails(CheckpointEntry)

-----------------------------------------------------------------------------
SessionNext ==
    \/ RunStart \/ RunStartRefused \/ UnpersistedRun \/ Message \/ RunEnd \/ RunCut \/ Checkpoint
    \/ \E n \in {0, 1} : PluginState(n)
    \/ \E t \in 1 .. Len(log) : SwitchLeaf(t)
    \/ Branch \/ CompactManually
    \/ \E s \in 1 .. Len(log) : PrepareMerge(s)
    \/ CommitMerge \/ MergeAbandoned \/ CompactCommit \/ CompactSkipped
    \/ Close \/ Open \/ Recover \/ Recovered \/ RecoveredCheckpointFails

SessionSpec == SessionInit /\ [][SessionNext]_sessionVars

-----------------------------------------------------------------------------
EntryTypes == MessageTypes \cup {"run_start", "run_end", "checkpoint", "branch", "compact",
                                 "leaf", "plugin", "merge"}

Ids == 1 .. MaxEntries

(* Types; the parent of an entry is an earlier one, so the entries form a  *)
(* tree, and the active leaf is an entry of the log even when the manager  *)
(* broke in the middle of an append.                                       *)
TypeOK ==
    /\ log \in Seq([type : EntryTypes, parent : 0 .. MaxEntries, run : 0 .. MaxEntries,
                    of : 0 .. MaxEntries, n : Nat, gone : SUBSET Ids])
    /\ Len(log) <= MaxEntries
    /\ \A e \in 1 .. Len(log) : log[e].parent < e
    /\ tail \in {"clean", "torn", "open", "glued"} /\ corrupt \in BOOLEAN
    /\ acked \in 0 .. MaxEntries
    /\ phase \in {"idle", "running", "ending", "broken", "closed", "refused", "recovering"}
    /\ leaf \in 0 .. Len(log) /\ msgs \in Seq(Ids) /\ plug \in {0, 1}
    /\ ctx \in Seq(0 .. MaxEntries) /\ failed \in BOOLEAN
    /\ plan \in [target : 0 .. MaxEntries, source : 0 .. MaxEntries]
    /\ job \in [old : Seq(Ids), cut : Nat]

Live == phase \in {"idle", "running", "ending", "recovering"}

(* What a process keeps in memory is what the next one would rebuild from  *)
(* the file: the active leaf is the last record, and the incrementally     *)
(* updated message and Plugin caches equal a fresh projection of its path, *)
(* whatever mixture of Runs, branches, switches, merges and compactions    *)
(* led there.                                                              *)
RestartAligned ==
    Live => /\ leaf = Len(log)
            /\ msgs = ProjectMessages(log, Len(log))
            /\ plug = ProjectPluginState(log, Len(log))

(* Repairing a torn tail never removes a record whose append returned.     *)
NothingLost == acked <= Len(log)

(* README.md: the Agent's context, the Harness transcript and what restart *)
(* recovers stay aligned, as long as the log took every write.             *)
ContextAligned == phase = "idle" /\ ~failed => ctx = msgs

(* A log this program wrote can be opened again: no sequence of tree       *)
(* operations, crashes and recoveries makes open() refuse it.              *)
SessionReopens == phase # "refused"

(* A Run that was interrupted and recovered, even by several processes     *)
(* that died in the recovery, has one result for each of its Tool calls.   *)
RecoveredOnce ==
    \A e \in 1 .. Len(log) :
        log[e].type = "run_end" /\ log[e].n = 1 =>
            \A c \in Calls(log, e, log[e].run) :
                Cardinality(Results(log, e, c[1], c[2])) = 1

(* A Tool result never stands in the model's context without the assistant *)
(* message that called it, although compactions cut messages out of it.    *)
ToolPairsKept ==
    Live => \A k \in 1 .. Len(msgs) :
        log[msgs[k]].type = "tool" => \E j \in 1 .. k - 1 : msgs[j] = log[msgs[k]].of

(* The Session in memory, the Agent's context and the log agree, the log   *)
(* can be opened again, and no Tool result lost its call.                  *)
SessionFaithful ==
    TypeOK /\ RestartAligned /\ ContextAligned /\ SessionReopens /\ ToolPairsKept

(* Crashes lose nothing that was acknowledged, and repeated recovery adds  *)
(* nothing twice.                                                          *)
LogKept == NothingLost /\ RecoveredOnce

(* A claim of the repository that the code does not keep: TLC refutes it   *)
(* as a property of MCSessionLog (README, Findings).                       *)

(* docs/design/SESSION_DESIGN.md: a failed write to the Session log stops  *)
(* models and Tools from continuing.                                       *)
FailureBlocksRuns == [][failed => Len(ctx') <= Len(ctx)]_sessionVars
=============================================================================
