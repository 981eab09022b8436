---------------------------- MODULE LocalStores ----------------------------
(***************************************************************************)
(* What EvoPi keeps in files of the user and of the workspace.  The stores *)
(* do not refer to each other, so a behaviour is one of a single store.    *)
(***************************************************************************)
EXTENDS ManagedRuntime, MemoryStore, UserSetup, CheckpointGc

VARIABLE store

storeVars == <<store, runtimeVars, memoryVars, setupVars, gcVars>>

Init ==
  /\ store \in {"runtime", "memory", "setup", "checkpoints"}
  /\ RuntimeInit /\ MemoryInit /\ SetupInit /\ GcInit
  /\ store # "setup" => env = [elsewhere |-> FALSE, provider |-> "none", key |-> FALSE]

Next ==
  /\ UNCHANGED store
  /\ \/ store = "runtime" /\ RuntimeNext /\ UNCHANGED <<memoryVars, setupVars, gcVars>>
     \/ store = "memory" /\ MemoryNext /\ UNCHANGED <<runtimeVars, setupVars, gcVars>>
     \/ store = "setup" /\ SetupNext /\ UNCHANGED <<runtimeVars, memoryVars, gcVars>>
     \/ store = "checkpoints" /\ GcNext /\ UNCHANGED <<runtimeVars, memoryVars, setupVars>>

Spec == Init /\ [][Next]_storeVars
=============================================================================
