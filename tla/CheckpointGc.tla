---------------------------- MODULE CheckpointGc ----------------------------
(***************************************************************************)
(* Checkpoint snapshots on disk and their garbage collection.  A Session   *)
(* is a tree of Runs; after a Run its snapshot is written and an entry in  *)
(* the log refers to it.  Opening a leaf restores the newest snapshot of   *)
(* its path that is still intact.  A plan is made, shown, and applied      *)
(* later, when the log, the files and the clock may have moved on.  The    *)
(* lock of the Session admits one process.                                 *)
(***************************************************************************)
EXTENDS Integers, Sequences, FiniteSets, FiniteSetsExt

CONSTANTS KeepPerLeaf, MaxLog, MaxFiles

ASSUME GcAssumption == KeepPerLeaf \in Nat \ {0} /\ MaxLog \in Nat /\ MaxFiles \in Nat

VARIABLES tree,    \* the log: run_end and checkpoint entries with their parents
          disk,    \* per snapshot: absent, temporary, valid or corrupt; and whether it is old
          used,    \* how many snapshot names were used
          plan

gcVars == <<tree, disk, used, plan>>

NoPlan == [kind |-> "none"]
Files == 1..MaxFiles
OnDisk == {n \in Files : disk[n].state # "absent"}

Ancestry(log) == LET f[i \in 0..Len(log)] == IF i = 0 THEN {} ELSE {i} \union f[log[i].parent] IN f
Tips == {i \in 1..Len(tree) : \A j \in 1..Len(tree) : tree[j].parent # i}
SnapshotsOn(i) == {tree[j].file : j \in {k \in 1..Len(tree) : k \in Ancestry(tree)[i] /\ tree[k].kind = "checkpoint"}}

Appended(kind, parent, n) == tree' = Append(tree, [kind |-> kind, parent |-> parent, file |-> n])

(* a Run, from the entry that the Session was switched to                  *)
Run(i) ==
  /\ Len(tree) < MaxLog
  /\ Appended("run_end", i, 0)
  /\ UNCHANGED <<disk, used, plan>>

Snapshot(n, state) == disk' = [disk EXCEPT ![n] = [state |-> state, old |-> FALSE]] /\ used' = n

(* create_checkpoint, after a Run or when a Session whose last Run has no  *)
(* snapshot is opened: all of it, or cut short before the entry or before  *)
(* the snapshot has its name                                               *)
CreateCheckpoint(i) ==
  /\ tree[i].kind = "run_end" /\ used < MaxFiles /\ Len(tree) < MaxLog
  /\ \/ Snapshot(used + 1, "valid") /\ Appended("checkpoint", i, used + 1)
     \/ \E state \in {"valid", "temporary"} : Snapshot(used + 1, state) /\ UNCHANGED tree
  /\ UNCHANGED plan

Damage(n) ==
  /\ disk[n].state = "valid"
  /\ \E state \in {"corrupt", "absent"} : disk' = [disk EXCEPT ![n].state = state]
  /\ plan' = IF plan = NoPlan THEN plan ELSE [plan EXCEPT !.damaged = TRUE]
  /\ UNCHANGED <<tree, used>>

Days ==
  /\ disk' = [n \in Files |-> [disk[n] EXCEPT !.old = n \in OnDisk]]
  /\ UNCHANGED <<tree, used, plan>>

ValidOn(i) == {n \in SnapshotsOn(i) : disk[n].state = "valid"}

Oldest(i) == {n \in ValidOn(i) : Cardinality({m \in ValidOn(i) : m < n}) < KeepPerLeaf}

(* the last of every path, which were written in this order                *)
Retained(i) == {n \in ValidOn(i) : Cardinality({m \in ValidOn(i) : m > n}) < KeepPerLeaf}

(* neither young nor retained: redundant, corrupt, orphaned or temporary   *)
Eligible == {n \in OnDisk : disk[n].old /\ \A i \in Tips : n \notin Retained(i)}

Plan ==
  /\ plan' = [kind |-> "plan", log |-> Len(tree), contents |-> [n \in Eligible |-> disk[n].state], damaged |-> FALSE]
  /\ UNCHANGED <<tree, disk, used>>

(* the log, which only grows, and every candidate are as they were         *)
PlanHolds == plan.log = Len(tree) /\ \A n \in DOMAIN plan.contents : disk[n].state = plan.contents[n]

(* a deletion may fail and the process may be killed between two of them   *)
Apply ==
  /\ plan # NoPlan
  /\ \/ /\ PlanHolds
        /\ \E gone \in SUBSET DOMAIN plan.contents :
             disk' = [n \in Files |-> IF n \in gone THEN [state |-> "absent", old |-> FALSE] ELSE disk[n]]
     \/ ~PlanHolds /\ UNCHANGED disk
  /\ plan' = NoPlan
  /\ UNCHANGED <<tree, used>>

GcInit ==
  /\ tree = <<>> /\ used = 0 /\ plan = NoPlan
  /\ disk = [n \in Files |-> [state |-> "absent", old |-> FALSE]]

GcNext ==
  \/ Days \/ Plan \/ Apply
  \/ \E i \in (IF tree = <<>> THEN {0} ELSE 1..Len(tree)) : Run(i)
  \/ \E i \in 1..Len(tree) : CreateCheckpoint(i)
  \/ \E n \in Files : Damage(n)

(* _restore_messages: the newest intact snapshot of the path               *)
Restores(i) == IF ValidOn(i) = {} THEN 0 ELSE Max(ValidOn(i))

-----------------------------------------------------------------------------
(* Applying a plan, however old and however much of it is carried out,     *)
(* leaves every tip of the tree with the snapshot it would have restored,  *)
(* and deletes nothing young.  Excused is damage to a snapshot that the    *)
(* plan retained: only the candidates are compared again.                  *)
GcKeepsNewest ==
  [][(plan # NoPlan /\ plan' = NoPlan /\ ~plan.damaged) =>
        /\ \A i \in Tips : Restores(i)' = Restores(i)
        /\ \A n \in OnDisk : ~disk[n].old => disk'[n] = disk[n]]_gcVars
=============================================================================
