---------------------------- MODULE MemoryStore ----------------------------
(***************************************************************************)
(* The Memory of a workspace: one file, and in every process a MemoryStore *)
(* that read it when it was built and replaces it as a whole.  Writers are *)
(* calls of MemoryService.write that a Policy may refuse; the store's own  *)
(* operations hold its lock from the change in memory to the end of the    *)
(* save.  The retriever and search only read.                              *)
(***************************************************************************)
EXTENDS Integers, FiniteSets

CONSTANTS Processes, Writers, Entries, MaxEntries, MaxOps

ASSUME MemoryAssumption == MaxEntries \in Nat \ {0} /\ MaxOps \in Nat /\ IsFiniteSet(Writers)

VARIABLES file,       \* the entries in memory.json: entry -> tags
          alive,      \* the processes that run
          mem,        \* per process: its entries
          seen,       \* per process: the file as it last read or wrote it
          save,       \* per process: the save in progress
          writer,     \* per writer: where it is
          told,       \* the entries that exist, going by what callers were told
          ops,        \* how many operations were begun
          unclear     \* entries whose fate the code does not settle

memoryVars == <<file, alive, mem, seen, save, writer, told, ops, unclear>>

Saving(p) == save[p].op # "none"
NoSave == [op |-> "none"]
Up(p) == p \in alive
Nothing == [x \in {} |-> "plain"]
With(m, e, tag) == [x \in DOMAIN m \union {e} |-> IF x = e THEN tag ELSE m[x]]
Without(m, es) == [x \in DOMAIN m \ es |-> m[x]]

Step == ops < MaxOps /\ ops' = ops + 1

Load(p) ==
  /\ ~Up(p)
  /\ alive' = alive \union {p} /\ mem' = [mem EXCEPT ![p] = file] /\ seen' = [seen EXCEPT ![p] = file]
  /\ UNCHANGED <<file, save, writer, told, ops, unclear>>

(* an operation changes the entries; what is saved is all of them          *)
Begin(p, op, e, after) ==
  /\ Up(p) /\ ~Saving(p) /\ Step
  /\ mem' = [mem EXCEPT ![p] = after]
  /\ save' = [save EXCEPT ![p] = [op |-> op, entry |-> e, before |-> mem[p]]]

(* MemoryService.write: the bound is checked before the Policies are asked *)
Validate(w, p, e) ==
  /\ writer[w].at = "rest" /\ Up(p) /\ ops < MaxOps
  /\ e \notin DOMAIN file /\ \A q \in Processes : Up(q) => e \notin DOMAIN mem[q]
  /\ \A v \in Writers : writer[v].at # "rest" => writer[v].entry # e
  /\ Cardinality(DOMAIN mem[p]) < MaxEntries
  /\ writer' = [writer EXCEPT ![w] = [at |-> "judged", on |-> p, entry |-> e]]
  /\ UNCHANGED <<file, alive, seen, mem, save, told, ops, unclear>>

Refused(w) ==
  /\ writer[w].at = "judged"
  /\ writer' = [writer EXCEPT ![w] = [at |-> "rest"]]
  /\ UNCHANGED <<file, alive, seen, mem, save, told, ops, unclear>>

Add(w) ==
  /\ writer[w].at = "judged"
  /\ LET p == writer[w].on e == writer[w].entry IN
       Up(p) /\ Begin(p, "add", e, With(mem[p], e, "plain"))
  /\ writer' = [writer EXCEPT ![w].at = "adding"]
  /\ UNCHANGED <<file, alive, seen, told, unclear>>

Remove(p, e) ==
  /\ Up(p) /\ e \in DOMAIN mem[p] /\ Begin(p, "remove", e, Without(mem[p], {e}))
  /\ UNCHANGED <<file, alive, seen, writer, told, unclear>>

Tag(p, e) ==
  /\ Up(p) /\ e \in DOMAIN mem[p] /\ Begin(p, "tag", e, With(mem[p], e, "tagged"))
  /\ UNCHANGED <<file, alive, seen, writer, told, unclear>>

Clear(p) ==
  /\ Up(p) /\ Begin(p, "clear", CHOOSE e \in Entries : TRUE, Without(mem[p], Entries))
  /\ UNCHANGED <<file, alive, seen, writer, told, unclear>>

Done(p) == [w \in Writers |-> IF writer[w].at = "adding" /\ writer[w].on = p THEN [at |-> "rest"] ELSE writer[w]]

Reported(p) == CASE save[p].op = "add" -> told \union {save[p].entry}
                 [] save[p].op = "remove" -> told \ {save[p].entry}
                 [] save[p].op = "clear" -> told \ DOMAIN save[p].before
                 [] OTHER -> told

(* what another process put into the file, or took out of it, since this   *)
(* one read it, is undone                                                  *)
Undone(p) == {e \in Entries : (e \in DOMAIN file) # (e \in DOMAIN seen[p])}

(* the new file replaces the old one under the file lock                   *)
SaveEnds(p) ==
  /\ Saving(p)
  /\ file' = mem[p] /\ seen' = [seen EXCEPT ![p] = mem[p]]
  /\ told' = Reported(p) /\ unclear' = unclear \union Undone(p)
  /\ save' = [save EXCEPT ![p] = NoSave] /\ writer' = Done(p)
  /\ UNCHANGED <<alive, mem, ops>>

NotRolledBack(p) == mem[p]

(* only add() takes its change back                                        *)
RolledBack(p) == IF save[p].op = "add" THEN save[p].before ELSE mem[p]

Changed(p) == {e \in Entries : (e \in DOMAIN mem[p]) # (e \in DOMAIN save[p].before)}

(* no space, or the file lock is taken                                     *)
SaveFails(p) ==
  /\ Saving(p)
  /\ mem' = [mem EXCEPT ![p] = RolledBack(p)]
  /\ unclear' = IF save[p].op = "add" THEN unclear ELSE unclear \union Changed(p)
  /\ save' = [save EXCEPT ![p] = NoSave] /\ writer' = Done(p)
  /\ UNCHANGED <<file, alive, seen, told, ops>>

(* the file is the old one, or the new one and the caller learns nothing   *)
MemoryKill(p) ==
  /\ Up(p)
  /\ alive' = alive \ {p} /\ mem' = [mem EXCEPT ![p] = Nothing]
  /\ seen' = [seen EXCEPT ![p] = Nothing] /\ save' = [save EXCEPT ![p] = NoSave]
  /\ writer' = [w \in Writers |-> IF writer[w].at # "rest" /\ writer[w].on = p THEN [at |-> "rest"] ELSE writer[w]]
  /\ \/ UNCHANGED <<file, unclear>>
     \/ Saving(p) /\ file' = mem[p] /\ unclear' = unclear \union Undone(p) \union Changed(p)
  /\ UNCHANGED <<told, ops>>

MemoryInit ==
  /\ file = Nothing /\ alive = {} /\ mem = [p \in Processes |-> Nothing] /\ seen = mem
  /\ save = [p \in Processes |-> NoSave] /\ writer = [w \in Writers |-> [at |-> "rest"]]
  /\ told = {} /\ ops = 0 /\ unclear = {}

MemoryNext ==
  \/ \E w \in Writers : Refused(w) \/ Add(w) \/ \E p \in Processes, e \in Entries : Validate(w, p, e)
  \/ \E p \in Processes :
       \/ Load(p) \/ Clear(p) \/ SaveEnds(p) \/ SaveFails(p) \/ MemoryKill(p)
       \/ \E e \in Entries : Remove(p, e) \/ Tag(p, e)

-----------------------------------------------------------------------------
(* What a caller was told is what a later process finds: an entry whose    *)
(* write was reported is in the file until its removal is, and one whose   *)
(* write failed, or was refused, is never there, not even with the next    *)
(* save.  Left out are an entry whose remove() or clear() failed and one   *)
(* that another process changed since this one read the file.  A writer    *)
(* passes the bound only while another one is in between.                  *)
MemoryHonest ==
  /\ \A e \in Entries \ unclear : (e \in told) = (e \in DOMAIN file)
  /\ \A p \in Processes : Up(p) => Cardinality(DOMAIN mem[p]) < MaxEntries + Cardinality(Writers)
=============================================================================
