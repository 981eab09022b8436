--------------------------- MODULE ManagedRuntime ---------------------------
(***************************************************************************)
(* evopi update: the versions directory, the pointer to the current        *)
(* runtime and the processes that install, switch, clean up and roll back. *)
(* A runtime is a version with or without the optional feature.  Each      *)
(* process may fail in any file operation and may be killed anywhere.      *)
(***************************************************************************)
EXTENDS Integers, FiniteSets

CONSTANTS Updaters, MaxVersion, MaxUpdates, NoUpdater

ASSUME UpdaterAssumption == MaxVersion \in Nat \ {0} /\ MaxUpdates \in Nat /\ NoUpdater \notin Updaters

VARIABLES dirs,       \* per runtime: absent, partial (no marker), torn (a marker that
                      \* cannot be read), verified, and with parts missing: damaged (a
                      \* valid marker) or ruined (a torn one)
          current,    \* current.txt
          lock,       \* who holds update.lock
          up,         \* per process: where it is, with what
          latest,     \* the latest release
          updates,    \* how many updates were begun
          excused     \* what happened that RuntimeUsable does not cover

runtimeVars == <<dirs, current, lock, up, latest, updates, excused>>

Runtimes == (1..MaxVersion) \X BOOLEAN
Version(r) == r[1]
Resting == [at |-> "rest"]

(* _validate_marker accepts it; rollback() only asks whether it is there   *)
HasValidMarker(r) == dirs[r] \in {"verified", "damaged"}
HasMarker(r) == dirs[r] \in {"torn", "verified", "damaged", "ruined"}
Runnable(r) == dirs[r] \in {"verified", "torn"}

At(u, place) == up[u].at = place
Go(u, place) == up' = [up EXCEPT ![u].at = place]
Rest(u) == up' = [up EXCEPT ![u] = Resting]

Release ==
  /\ latest < MaxVersion
  /\ latest' = latest + 1
  /\ UNCHANGED <<dirs, current, lock, up, updates, excused>>

(* the features are read first, then the latest release is asked for       *)
BeginUpdate(u, enable) ==
  /\ At(u, "rest") /\ updates < MaxUpdates
  /\ up' = [up EXCEPT ![u] = [at |-> "asked", remote |-> current[2] \/ enable]]
  /\ updates' = updates + 1
  /\ UNCHANGED <<dirs, current, lock, latest, excused>>

UpToDate(u) == latest <= Version(current) /\ (up[u].remote => current[2])

(* up to date, or only asked about; otherwise a confirmation and the       *)
(* download of this release follow                                         *)
CheckLatest(u) ==
  /\ At(u, "asked")
  /\ \/ Rest(u)
     \/ ~UpToDate(u) /\ up' = [up EXCEPT ![u] = [at |-> "checked", target |-> <<latest, up[u].remote>>]]
  /\ UNCHANGED <<dirs, current, lock, latest, updates, excused>>

(* declined or not downloaded; or install() reads the previous runtime,    *)
(* before it takes the lock                                                *)
ReadPrevious(u) ==
  /\ At(u, "checked")
  /\ \/ Rest(u)
     \/ up' = [up EXCEPT ![u] = [at |-> "ready", target |-> up[u].target, previous |-> current,
                                 created |-> FALSE, found |-> current]]
  /\ UNCHANGED <<dirs, current, lock, latest, updates, excused>>

Excuse(why) == excused' = excused \union why

(* an update that takes the lock while the failed one before it has still  *)
(* to remove the same directory, or after the pointer has moved            *)
LateRemoval(r) == IF \E w \in Updaters : At(w, "remove") /\ up[w].target = r THEN {"late removal"} ELSE {}
MovedPointer(u) == IF up[u].previous # current THEN {"moved pointer"} ELSE {}

Locked(u) ==
  /\ At(u, "ready")
  /\ \/ lock # NoUpdater /\ Rest(u) /\ UNCHANGED <<dirs, lock, excused>>
     \/ /\ lock = NoUpdater
        /\ Excuse(LateRemoval(up[u].target) \union MovedPointer(u))
        /\ \/ /\ dirs[up[u].target] = "absent"
              /\ lock' = u /\ dirs' = [dirs EXCEPT ![up[u].target] = "partial"]
              /\ up' = [up EXCEPT ![u].at = "install", ![u].created = TRUE, ![u].found = current]
           \/ /\ HasValidMarker(up[u].target)
              /\ lock' = u /\ up' = [up EXCEPT ![u].at = "switch", ![u].found = current] /\ UNCHANGED dirs
           \/ /\ dirs[up[u].target] # "absent" /\ ~HasValidMarker(up[u].target)
              /\ Rest(u) /\ UNCHANGED <<dirs, lock>>
  /\ UNCHANGED <<current, latest, updates>>

(* the lock is released before what was created is removed                 *)
Fails(u) ==
  /\ lock' = NoUpdater
  /\ IF up[u].created THEN Go(u, "remove") ELSE Rest(u)

Install(u) ==
  /\ At(u, "install")
  /\ \/ Go(u, "mark") /\ UNCHANGED lock
     \/ Fails(u)
  /\ UNCHANGED <<dirs, current, latest, updates, excused>>

WriteMarker(u) ==
  /\ At(u, "mark")
  /\ \/ dirs' = [dirs EXCEPT ![up[u].target] = "verified"] /\ Go(u, "switch") /\ UNCHANGED lock
     \/ /\ dirs' \in {dirs, [dirs EXCEPT ![up[u].target] = "torn"]}
        /\ Fails(u)
  /\ UNCHANGED <<current, latest, updates, excused>>

Switch(u) ==
  /\ At(u, "switch")
  /\ \/ current' = up[u].target /\ Go(u, "cleanup") /\ UNCHANGED lock
     \/ Fails(u) /\ UNCHANGED current
  /\ UNCHANGED <<dirs, latest, updates, excused>>

(* what a removal that fails, or is killed, leaves of a directory          *)
Leftovers(state) ==
  {state, "absent", "partial"} \union (CASE state = "verified" -> {"damaged"}
                                         [] state = "torn" -> {"ruined"}
                                         [] OTHER -> {})
Removed(state) == IF state = "absent" THEN {"absent"} ELSE Leftovers(state)

KeepCurrentOnly(u) == {up[u].target}
Keep(u) == {up[u].target, up[u].previous}

HalfRemoved(state) == IF state \in {"damaged", "ruined"} THEN {"half removed"} ELSE {}

(* one directory at a time; at the end the update is reported              *)
CleanupOne(u, r) ==
  /\ At(u, "cleanup") /\ r \notin Keep(u) /\ dirs[r] # "absent"
  /\ \E state \in Removed(dirs[r]) \ {dirs[r]} :
       dirs' = [dirs EXCEPT ![r] = state] /\ Excuse(HalfRemoved(state))
  /\ UNCHANGED <<current, lock, up, latest, updates>>

CleanupEnds(u) ==
  /\ At(u, "cleanup")
  /\ lock' = NoUpdater /\ Rest(u)
  /\ UNCHANGED <<dirs, current, latest, updates, excused>>

RemoveTarget(u) ==
  /\ At(u, "remove")
  /\ \E state \in Removed(dirs[up[u].target]) :
       dirs' = [dirs EXCEPT ![up[u].target] = state] /\ Excuse(HalfRemoved(state))
  /\ Rest(u)
  /\ UNCHANGED <<current, lock, latest, updates>>

AnyDirectory == {r \in Runtimes : r # current /\ dirs[r] # "absent"}
Candidates == {r \in Runtimes : r # current /\ HasMarker(r)}

(* to the newest of the others, whichever of them came before              *)
Rollback(u) ==
  /\ At(u, "rest") /\ lock = NoUpdater /\ updates < MaxUpdates
  /\ \E r \in Candidates : (\A s \in Candidates : Version(s) <= Version(r)) /\ current' = r /\ Excuse(LateRemoval(r))
  /\ updates' = updates + 1
  /\ UNCHANGED <<dirs, lock, up, latest>>

Kill(u) ==
  /\ ~At(u, "rest")
  /\ Rest(u) /\ lock' = (IF lock = u THEN NoUpdater ELSE lock)
  /\ dirs' \in {dirs} \union (IF At(u, "mark") THEN {[dirs EXCEPT ![up[u].target] = "torn"]} ELSE {})
  /\ UNCHANGED <<current, latest, updates, excused>>

RuntimeInit ==
  /\ current = <<1, FALSE>> /\ dirs = [r \in Runtimes |-> IF r = current THEN "verified" ELSE "absent"]
  /\ lock = NoUpdater /\ up = [u \in Updaters |-> Resting]
  /\ latest = 1 /\ updates = 0 /\ excused = {}

RuntimeNext ==
  \/ Release
  \/ \E u \in Updaters :
       \/ \E enable \in BOOLEAN : BeginUpdate(u, enable)
       \/ CheckLatest(u) \/ ReadPrevious(u) \/ Locked(u) \/ Install(u) \/ WriteMarker(u) \/ Switch(u)
       \/ (At(u, "cleanup") /\ \E r \in Runtimes : CleanupOne(u, r))
       \/ CleanupEnds(u) \/ RemoveTarget(u) \/ Rollback(u) \/ Kill(u)

-----------------------------------------------------------------------------
(* "Failed updates preserve the current runtime": whatever fails or is     *)
(* killed, the pointer names a runtime whose installation was finished,    *)
(* and an update that cleans up has left the runtime it replaced, which is *)
(* what rollback goes back to.  Excused are the three cases that the code  *)
(* does not handle.                                                        *)
RuntimeUsable ==
  excused = {} =>
    /\ Runnable(current)
    /\ \A u \in Updaters : At(u, "cleanup") => Runnable(up[u].found)
=============================================================================
