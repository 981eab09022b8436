------------------------- MODULE LocalStoresProofs -------------------------
(***************************************************************************)
(* Proofs about the local stores, for every number of processes, entries,  *)
(* providers, versions and snapshots.  A behaviour is one of a single      *)
(* store, so each store has an invariant of its own, and a step of another *)
(* one leaves it alone.                                                    *)
(***************************************************************************)
EXTENDS LocalStores, FiniteSetTheorems, WellFoundedInduction, TLAPS

-----------------------------------------------------------------------------
(* evopi setup.  Two facts carry the argument: a setup that is alone in    *)
(* its two files is the only one there, so what it wrote is what it will   *)
(* find; and as long as nothing was torn, the records a setup would put    *)
(* back fit the profile that is still in force.                            *)

Keys == Nat \ {0}
Records == {NoRecord} \union [provider : Providers, key : Keys]
Profiles == {NoRecord} \union [provider : Providers, tested : Nat]
Attempt == [at : {"test", "load", "saveKey", "saveProfile", "restore"}, provider : Providers,
            key : Keys, verified : BOOLEAN, previous : Records, alone : BOOLEAN]

SetupTyped ==
  /\ credentials \in Records /\ profile \in Profiles /\ setups \in Nat /\ torn \in BOOLEAN
  /\ setup \in [Setups -> {Away} \union Attempt]

(* the key of the credential record serves the profile                     *)
Matches(record) ==
  profile # NoRecord => /\ record.provider = profile.provider /\ record.key # 0
                        /\ profile.tested # 0 => record.key = profile.tested

Alone == \A s, t \in Setups : Storing(s) /\ Storing(t) /\ s # t => ~setup[s].alone

SetupStored(s) ==
  /\ Storing(s) /\ ~torn => setup[s].alone /\ Matches(setup[s].previous)
  /\ InSetup(s, "saveKey") /\ ~torn => credentials = setup[s].previous
  /\ setup[s].at \in {"saveProfile", "restore"} /\ setup[s].alone => credentials = Record(s)

SetupInv ==
  /\ SetupTyped /\ Alone
  /\ \A s \in Setups : SetupStored(s)
  /\ ~torn /\ (\A s \in Setups : ~Storing(s)) => Matches(credentials)

(* What Away and an attempt look like.                                     *)
LEMMA AttemptFacts ==
  ASSUME SetupTyped, NEW s \in Setups, setup[s].at # "rest"
  PROVE  setup[s] \in Attempt
  BY DEF SetupTyped, Away

(* A setup that leaves without having touched the files.                   *)
LEMMA SetupLeaves ==
  ASSUME SetupInv, NEW s \in Setups, Leaves(s), UNCHANGED <<credentials, profile>>,
         setups' \in Nat, torn' \in BOOLEAN,
         \/ torn' = TRUE
         \/ ~Storing(s) /\ torn' = torn
         \/ InSetup(s, "saveKey") /\ torn' = torn
  PROVE  SetupInv'
<1>1. /\ setup' = [setup EXCEPT ![s] = Away] /\ ~Storing(s)' /\ InSetup(s, "rest")'
      /\ \A t \in Setups \ {s} : setup'[t] = setup[t]
  BY DEF Leaves, Storing, InSetup, Away, SetupInv, SetupTyped
<1>2. SetupTyped'
  BY <1>1 DEF SetupInv, SetupTyped
<1>3. Alone'
  BY <1>1 DEF SetupInv, Alone, Storing
<1>4. ASSUME NEW t \in Setups PROVE SetupStored(t)'
  BY <1>1 DEF SetupInv, SetupStored, Storing, InSetup, Matches, Record
<1>5. ~torn' /\ (\A t \in Setups : ~Storing(t)') => Matches(credentials)'
  <2> SUFFICES ASSUME ~torn', \A t \in Setups : ~Storing(t)'
               PROVE  Matches(credentials)
    BY DEF Matches
  <2>1. \A t \in Setups \ {s} : ~Storing(t)
    BY <1>1 DEF Storing
  <2>2. ~torn
    OBVIOUS
  <2>3. CASE ~Storing(s)
    BY <2>1, <2>2, <2>3 DEF SetupInv
  <2>4. CASE InSetup(s, "saveKey")
    BY <2>2, <2>4 DEF SetupInv, SetupStored, Storing, InSetup
  <2> QED
    BY <2>3, <2>4
<1> QED
  BY <1>2, <1>3, <1>4, <1>5 DEF SetupInv

(* The questions and the test of the connection.                           *)
LEMMA SetupAsks ==
  ASSUME SetupInv, NEW s \in Setups, NEW p,
         (p \in Providers /\ Answer(s, p)) \/ TestConnection(s)
  PROVE  SetupInv'
<1>1. CASE TestConnection(s) /\ Leaves(s)
  BY <1>1, SetupLeaves DEF TestConnection, InSetup, Storing, SetupInv, SetupTyped
<1>2. CASE \/ p \in Providers /\ Answer(s, p)
           \/ TestConnection(s) /\ ~Leaves(s)
  <2>1. /\ ~Storing(s) /\ UNCHANGED <<credentials, profile, torn>> /\ setups' \in Nat
        /\ setup' \in [Setups -> {Away} \union Attempt] /\ setup'[s].at \in {"test", "load"}
        /\ \A t \in Setups \ {s} : setup'[t] = setup[t]
    <3>1. CASE p \in Providers /\ Answer(s, p)
      <4>1. setups' \in Keys
        BY <3>1 DEF Answer, SetupInv, SetupTyped, Keys
      <4>2. PICK skip \in BOOLEAN :
              setup' = [setup EXCEPT ![s] =
                          [at |-> IF skip THEN "load" ELSE "test", provider |-> p, key |-> setups',
                           verified |-> FALSE, previous |-> NoRecord, alone |-> TRUE]]
        BY <3>1 DEF Answer
      <4>3. [at |-> IF skip THEN "load" ELSE "test", provider |-> p, key |-> setups',
             verified |-> FALSE, previous |-> NoRecord, alone |-> TRUE] \in Attempt
        BY <3>1, <4>1 DEF Attempt, Records
      <4> QED
        BY <3>1, <4>1, <4>2, <4>3 DEF Answer, InSetup, Storing, SetupInv, SetupTyped, Keys
    <3>2. CASE TestConnection(s) /\ ~Leaves(s)
      <4>1. setup[s] \in Attempt
        BY <3>2, AttemptFacts DEF TestConnection, InSetup, SetupInv
      <4> QED
        BY <3>2, <4>1 DEF TestConnection, InSetup, Storing, SetupInv, SetupTyped, Attempt
    <3> QED
      BY <1>2, <3>1, <3>2
  <2>2. SetupTyped'
    BY <2>1 DEF SetupInv, SetupTyped
  <2>3. ~Storing(s)' /\ \A t \in Setups \ {s} : Storing(t)' = Storing(t)
    BY <2>1 DEF Storing
  <2>4. Alone'
    BY <2>1, <2>3 DEF SetupInv, Alone, Storing
  <2>5. ASSUME NEW t \in Setups PROVE SetupStored(t)'
    BY <2>1 DEF SetupInv, SetupStored, Storing, InSetup, Matches, Record
  <2>6. ~torn' /\ (\A t \in Setups : ~Storing(t)') => Matches(credentials)'
    BY <2>1, <2>3 DEF SetupInv, Matches
  <2> QED
    BY <2>2, <2>4, <2>5, <2>6 DEF SetupInv
<1> QED
  BY <1>1, <1>2
(* The previous records are read; whoever else is storing is not alone any *)
(* longer.                                                                 *)
LEMMA SetupLoads ==
  ASSUME SetupInv, NEW s \in Setups, LoadPrevious(s)
  PROVE  SetupInv'
<1>1. CASE Leaves(s) /\ UNCHANGED torn
  BY <1>1, SetupLeaves DEF LoadPrevious, InSetup, Storing, SetupInv, SetupTyped
<1>2. CASE ~(Leaves(s) /\ UNCHANGED torn)
  <2>1. /\ InSetup(s, "load") /\ UNCHANGED <<credentials, profile, setups>>
        /\ torn' = (torn \/ Overlaps(s))
        /\ setup' = [t \in Setups |->
             IF t = s THEN [setup[s] EXCEPT !.at = "saveKey", !.previous = credentials, !.alone = ~Overlaps(s)]
             ELSE IF Storing(t) THEN [setup[t] EXCEPT !.alone = FALSE] ELSE setup[t]]
    BY <1>2 DEF LoadPrevious
  <2>2. setup[s] \in Attempt /\ \A t \in Setups : Storing(t) => setup[t] \in Attempt
    BY <2>1, AttemptFacts DEF InSetup, SetupInv, Storing
  <2>3. /\ setup'[s].at = "saveKey" /\ setup'[s].previous = credentials
        /\ setup'[s].alone = ~Overlaps(s) /\ setup'[s] \in Attempt
    BY <2>1, <2>2 DEF Attempt, SetupInv, SetupTyped
  <2>4. ASSUME NEW t \in Setups, t # s
        PROVE  /\ setup'[t] \in {Away} \union Attempt
               /\ setup'[t].at = setup[t].at
               /\ Storing(t) => Overlaps(s) /\ ~setup'[t].alone
               /\ ~Storing(t) => setup'[t] = setup[t]
    BY <2>1, <2>2, <2>4 DEF Attempt, SetupInv, SetupTyped, Overlaps, Storing
  <2>5. SetupTyped'
    BY <2>1, <2>3, <2>4 DEF SetupInv, SetupTyped
  <2>6. Alone'
    BY <2>3, <2>4 DEF Alone, Storing, Overlaps
  <2>7. ~torn' => ~torn /\ Matches(credentials) /\ \A t \in Setups \ {s} : ~Storing(t)
    BY <2>1 DEF SetupInv, Overlaps, Storing, InSetup
  <2>8. ASSUME NEW t \in Setups PROVE SetupStored(t)'
    BY <2>1, <2>3, <2>4, <2>7 DEF SetupStored, Storing, InSetup, Matches
  <2>9. Storing(s)'
    BY <2>3 DEF Storing
  <2> QED
    BY <2>5, <2>6, <2>8, <2>9 DEF SetupInv
<1> QED
  BY <1>1, <1>2

(* The credential is stored, then the profile.                             *)
LEMMA SetupSaves ==
  ASSUME SetupInv, NEW s \in Setups, SaveCredential(s) \/ SaveProfile(s)
  PROVE  SetupInv'
<1>0. setup[s] \in Attempt /\ Storing(s)
  BY AttemptFacts DEF SaveCredential, SaveProfile, InSetup, SetupInv, Storing
<1>1. CASE SaveCredential(s) /\ Leaves(s) /\ UNCHANGED <<credentials, torn>>
  BY <1>1, SetupLeaves DEF SaveCredential, InSetup, Storing, SetupInv, SetupTyped
<1>2. CASE /\ SaveCredential(s) /\ credentials' = Record(s) /\ UNCHANGED torn
           /\ setup' = [setup EXCEPT ![s].at = "saveProfile"]
  <2>1. /\ UNCHANGED <<profile, setups, torn>> /\ InSetup(s, "saveKey")
        /\ setup'[s] \in Attempt /\ setup'[s].at = "saveProfile"
        /\ setup'[s].alone = setup[s].alone /\ setup'[s].previous = setup[s].previous
        /\ setup'[s].provider = setup[s].provider /\ setup'[s].key = setup[s].key
        /\ \A t \in Setups \ {s} : setup'[t] = setup[t]
        /\ setup' \in [Setups -> {Away} \union Attempt]
    BY <1>0, <1>2 DEF SaveCredential, SetupInv, SetupTyped, Attempt
  <2>2. SetupTyped'
    BY <1>0, <1>2, <2>1 DEF SetupInv, SetupTyped, Record, Records, Attempt
  <2>3. \A t \in Setups : Storing(t)' = Storing(t) /\ setup'[t].alone = setup[t].alone
    BY <1>0, <2>1 DEF Storing
  <2>4. Alone'
    BY <2>3 DEF SetupInv, Alone
  <2>5. SetupStored(s)'
    BY <1>0, <1>2, <2>1 DEF SetupInv, SetupStored, Storing, InSetup, Record, Matches
  <2>6. ASSUME NEW t \in Setups, t # s PROVE SetupStored(t)'
    <3>1. Storing(t) => ~setup[t].alone
      BY <1>0, <2>6 DEF SetupInv, Alone
    <3> QED
      BY <2>1, <2>6, <3>1 DEF SetupInv, SetupStored, Storing, InSetup
  <2> QED
    BY <1>0, <2>2, <2>3, <2>4, <2>5, <2>6 DEF SetupInv
<1>3. CASE SaveProfile(s) /\ setup' = [setup EXCEPT ![s].at = "restore"] /\ UNCHANGED <<profile, torn>>
  <2>1. /\ UNCHANGED <<credentials, profile, setups, torn>> /\ InSetup(s, "saveProfile")
        /\ setup'[s] \in Attempt /\ setup'[s].at = "restore"
        /\ setup'[s].alone = setup[s].alone /\ setup'[s].previous = setup[s].previous
        /\ setup'[s].provider = setup[s].provider /\ setup'[s].key = setup[s].key
        /\ \A t \in Setups \ {s} : setup'[t] = setup[t]
        /\ setup' \in [Setups -> {Away} \union Attempt]
    BY <1>0, <1>3 DEF SaveProfile, SetupInv, SetupTyped, Attempt
  <2>2. SetupTyped'
    BY <2>1 DEF SetupInv, SetupTyped
  <2>3. \A t \in Setups : Storing(t)' = Storing(t) /\ setup'[t].alone = setup[t].alone
    BY <1>0, <2>1 DEF Storing
  <2>4. Alone'
    BY <2>3 DEF SetupInv, Alone
  <2>5. ASSUME NEW t \in Setups PROVE SetupStored(t)'
    BY <1>0, <2>1 DEF SetupInv, SetupStored, Storing, InSetup, Record, Matches
  <2> QED
    BY <1>0, <2>2, <2>3, <2>4, <2>5 DEF SetupInv
<1>5. CASE SaveCredential(s) /\ credentials' = Record(s) /\ Leaves(s) /\ torn' = TRUE
  <2>1. /\ UNCHANGED <<profile, setups>> /\ torn' = TRUE /\ ~Storing(s)' /\ InSetup(s, "rest")'
        /\ \A t \in Setups \ {s} : setup'[t] = setup[t]
        /\ setup' \in [Setups -> {Away} \union Attempt]
    BY <1>5 DEF SaveCredential, Leaves, Storing, InSetup, Away, SetupInv, SetupTyped
  <2>2. SetupTyped'
    BY <1>0, <1>5, <2>1 DEF SetupInv, SetupTyped, Record, Records, Attempt
  <2>3. Alone'
    BY <2>1 DEF SetupInv, Alone, Storing
  <2>4. ASSUME NEW t \in Setups PROVE SetupStored(t)'
    <3>1. t # s /\ Storing(t) => ~setup[t].alone
      BY <1>0 DEF SetupInv, Alone
    <3> QED
      BY <2>1, <3>1 DEF SetupStored, Storing, InSetup
  <2> QED
    BY <2>1, <2>2, <2>3, <2>4 DEF SetupInv
<1>6. CASE /\ SaveProfile(s) /\ setup' = [setup EXCEPT ![s].at = "restore"] /\ torn' = TRUE
           /\ profile' = [provider |-> setup[s].provider,
                          tested |-> IF setup[s].verified THEN setup[s].key ELSE 0]
  <2>1. /\ UNCHANGED <<credentials, setups>> /\ InSetup(s, "saveProfile")
        /\ setup'[s] \in Attempt /\ setup'[s].at = "restore"
        /\ setup'[s].alone = setup[s].alone
        /\ setup'[s].provider = setup[s].provider /\ setup'[s].key = setup[s].key
        /\ \A t \in Setups \ {s} : setup'[t] = setup[t]
        /\ setup' \in [Setups -> {Away} \union Attempt]
    BY <1>0, <1>6 DEF SaveProfile, SetupInv, SetupTyped, Attempt
  <2>2. SetupTyped'
    BY <1>0, <1>6, <2>1 DEF SetupInv, SetupTyped, Profiles, Attempt, Keys
  <2>3. \A t \in Setups : Storing(t)' = Storing(t) /\ setup'[t].alone = setup[t].alone
    BY <1>0, <2>1 DEF Storing
  <2>4. Alone'
    BY <2>3 DEF SetupInv, Alone
  <2>5. ASSUME NEW t \in Setups PROVE SetupStored(t)'
    BY <1>0, <1>6, <2>1 DEF SetupInv, SetupStored, Storing, InSetup, Record
  <2> QED
    BY <1>6, <2>2, <2>4, <2>5 DEF SetupInv
<1>4. CASE /\ SaveProfile(s) /\ Leaves(s) /\ torn' = (torn /\ ~setup[s].alone)
           /\ profile' = [provider |-> setup[s].provider,
                          tested |-> IF setup[s].verified THEN setup[s].key ELSE 0]
  <2>1. /\ UNCHANGED <<credentials, setups>> /\ InSetup(s, "saveProfile")
        /\ ~Storing(s)' /\ InSetup(s, "rest")'
        /\ \A t \in Setups \ {s} : setup'[t] = setup[t]
        /\ setup' \in [Setups -> {Away} \union Attempt]
    BY <1>4 DEF SaveProfile, Leaves, Storing, InSetup, Away, SetupInv, SetupTyped
  <2>2. SetupTyped'
    BY <1>0, <1>4, <2>1 DEF SetupInv, SetupTyped, Profiles, Attempt, Keys
  <2>3. Alone'
    BY <2>1 DEF SetupInv, Alone, Storing
  <2>4. ~torn' => setup[s].alone
    BY <1>0, <1>4 DEF SetupInv, SetupStored, SetupTyped, Attempt
  <2>5. ~torn' => \A t \in Setups : ~Storing(t)'
    BY <1>0, <2>1, <2>4 DEF SetupInv, Alone, Storing
  <2>6. ASSUME NEW t \in Setups PROVE SetupStored(t)'
    BY <2>1, <2>5 DEF SetupInv, SetupStored, Storing, InSetup, Record
  <2>7. ~torn' => Matches(credentials)'
    <3>1. ~torn' => credentials = Record(s)
      BY <2>1, <2>4 DEF SetupInv, SetupStored, InSetup
    <3> QED
      BY <1>0, <1>4, <2>1, <3>1 DEF Matches, Record, Attempt, Keys
  <2> QED
    BY <2>2, <2>3, <2>6, <2>7 DEF SetupInv
<1> QED
  BY <1>1, <1>2, <1>3, <1>4, <1>5, <1>6 DEF SaveCredential, SaveProfile

(* The previous records are written back, or that fails too, or the setup  *)
(* is killed.                                                              *)
LEMMA SetupEnds ==
  ASSUME SetupInv, NEW s \in Setups, RestoreCredentials(s) \/ SetupKill(s)
  PROVE  SetupInv'
<1>0. setup[s] \in Attempt
  BY AttemptFacts DEF RestoreCredentials, SetupKill, InSetup, SetupInv
<1>1. CASE \/ SetupKill(s)
           \/ RestoreCredentials(s) /\ UNCHANGED credentials /\ torn' = TRUE
  <2>1. /\ Leaves(s) /\ UNCHANGED <<credentials, profile, setups>> /\ torn' \in BOOLEAN
        /\ \/ torn' = TRUE
           \/ setup[s].at \notin {"saveProfile", "restore"} /\ torn' = torn
    BY <1>1 DEF SetupKill, RestoreCredentials, SetupInv, SetupTyped
  <2> QED
    BY <2>1, SetupLeaves DEF Storing, InSetup, SetupInv, SetupTyped
<1>2. CASE RestoreCredentials(s) /\ credentials' = setup[s].previous /\ UNCHANGED torn
  <2>1. /\ UNCHANGED <<profile, setups>> /\ InSetup(s, "restore") /\ Storing(s)
        /\ ~Storing(s)' /\ InSetup(s, "rest")'
        /\ \A t \in Setups \ {s} : setup'[t] = setup[t]
        /\ setup' \in [Setups -> {Away} \union Attempt]
    BY <1>2 DEF RestoreCredentials, Leaves, Storing, InSetup, Away, SetupInv, SetupTyped
  <2>2. SetupTyped'
    BY <1>0, <1>2, <2>1 DEF SetupInv, SetupTyped, Attempt
  <2>3. Alone'
    BY <2>1 DEF SetupInv, Alone, Storing
  <2>4. ASSUME NEW t \in Setups PROVE SetupStored(t)'
    <3>1. t # s /\ Storing(t) => ~setup[t].alone
      BY <2>1 DEF SetupInv, Alone
    <3> QED
      BY <1>2, <2>1, <3>1 DEF SetupInv, SetupStored, Storing, InSetup
  <2>5. ~torn' => Matches(credentials)'
    BY <1>2, <2>1 DEF SetupInv, SetupStored, Matches
  <2> QED
    BY <2>2, <2>3, <2>4, <2>5 DEF SetupInv
<1> QED
  BY <1>1, <1>2 DEF RestoreCredentials, Restored

(* Every step of setup keeps its invariant.                                *)
LEMMA SetupStep ==
  ASSUME SetupInv, SetupNext \/ UNCHANGED setupVars
  PROVE  SetupInv'
<1>1. CASE SetupNext
  BY <1>1, SetupAsks, SetupLoads, SetupSaves, SetupEnds DEF SetupNext
<1>2. CASE UNCHANGED setupVars
  BY <1>2 DEF setupVars, SetupInv, SetupTyped, Alone, SetupStored, Matches, Storing,
              InSetup, Record
<1> QED
  BY <1>1, <1>2

(* No record, no profile and nobody at work.                               *)
LEMMA SetupStart ==
  ASSUME SetupInit
  PROVE  SetupInv
<1>1. SetupTyped
  BY DEF SetupInit, SetupTyped, Records, Profiles
<1>2. \A s \in Setups : ~Storing(s) /\ setup[s].at = "rest"
  BY DEF SetupInit, Storing, Away
<1> QED
  BY <1>1, <1>2 DEF SetupInit, SetupInv, Alone, SetupStored, InSetup, Storing, Matches

-----------------------------------------------------------------------------
(* evopi update.  Unless one of the excused cases happened, no directory   *)
(* is half removed, the update that holds the lock replaces the runtime it *)
(* found, and a failed update that has still to remove its directory, by   *)
(* then without the lock, removes neither the current runtime nor one that *)
(* the holder of the lock needs.                                           *)

DirStates == {"absent", "partial", "torn", "verified", "damaged", "ruined"}
Within == {"install", "mark", "switch", "cleanup"}
Work == [at : Within \union {"ready", "remove"}, target : Runtimes, previous : Runtimes,
         created : BOOLEAN, found : Runtimes]
Update == {Resting} \union [at : {"asked"}, remote : BOOLEAN]
                    \union [at : {"checked"}, target : Runtimes] \union Work

RuntimeTyped ==
  /\ dirs \in [Runtimes -> DirStates] /\ current \in Runtimes
  /\ up \in [Updaters -> Update] /\ latest \in 1..MaxVersion

SoundUpdate(u) ==
  /\ At(u, "ready") => ~up[u].created
  /\ up[u].at \in Within => Runnable(up[u].found) /\ up[u].found = up[u].previous
  /\ up[u].at \in {"install", "mark", "remove"} => up[u].target # current
  /\ At(u, "switch") => Runnable(up[u].target) /\ (up[u].created => up[u].target # current)
  /\ At(u, "cleanup") => current = up[u].target

Apart(u, w) ==
  (up[u].at \in Within /\ At(w, "remove")) => up[w].target \notin {up[u].target, up[u].found}

RuntimeSound ==
  /\ Runnable(current)
  /\ \A r \in Runtimes : dirs[r] \notin {"damaged", "ruined"}
  /\ \A u \in Updaters : SoundUpdate(u)
  /\ \A u, w \in Updaters : Apart(u, w)

RuntimeInv ==
  /\ RuntimeTyped
  /\ \A u \in Updaters : up[u].at \in Within => lock = u
  /\ excused = {} => RuntimeSound

(* What a process that got as far as install() carries.                    *)
LEMMA WorkFacts ==
  ASSUME RuntimeTyped, NEW u \in Updaters, up[u].at \in Within \union {"ready", "remove"}
  PROVE  up[u] \in Work
  BY DEF RuntimeTyped, Update, Resting, Within

(* Who holds the lock is alone within an update; with a free lock nobody   *)
(* is.                                                                     *)
LEMMA OneWithin ==
  ASSUME RuntimeInv, NEW u \in Updaters, up[u].at \in Within \/ lock = NoUpdater,
         NEW v \in Updaters, v # u \/ lock = NoUpdater
  PROVE  up[v].at \notin Within
  BY UpdaterAssumption DEF RuntimeInv

(* A process that has not begun, or ends without changing a file.          *)
LEMMA RuntimeRests ==
  ASSUME RuntimeInv, NEW u \in Updaters, UNCHANGED <<dirs, current>>, excused' = {} => excused = {},
         latest' \in 1..MaxVersion, up' \in [Updaters -> Update],
         \A v \in Updaters \ {u} : up'[v] = up[v],
         \/ up'[u].at \in {"rest", "asked", "checked"}
         \/ up'[u].at = "ready" /\ ~up'[u].created,
         lock' = lock \/ (up[u].at \in Within /\ lock' = NoUpdater)
  PROVE  RuntimeInv'
<1>1. RuntimeTyped'
  BY DEF RuntimeInv, RuntimeTyped
<1>2. up'[u].at \notin Within \union {"remove"}
  BY DEF Within
<1>3. ASSUME NEW v \in Updaters, up'[v].at \in Within PROVE lock' = v
  BY <1>2, <1>3, OneWithin DEF RuntimeInv
<1>4. ASSUME excused' = {} PROVE RuntimeSound'
  <2>1. RuntimeSound
    BY <1>4 DEF RuntimeInv
  <2>2. Runnable(current)' /\ \A r \in Runtimes : dirs'[r] \notin {"damaged", "ruined"}
    BY <2>1 DEF RuntimeSound, Runnable
  <2>3. ASSUME NEW v \in Updaters PROVE SoundUpdate(v)'
    <3>1. CASE v = u
      BY <1>2, <3>1 DEF SoundUpdate, At, Within
    <3>2. CASE v # u
      BY <2>1, <3>2 DEF RuntimeSound, SoundUpdate, At, Runnable
    <3> QED
      BY <3>1, <3>2
  <2>4. ASSUME NEW v \in Updaters, NEW w \in Updaters PROVE Apart(v, w)'
    BY <1>2, <2>1 DEF RuntimeSound, Apart, At
  <2> QED
    BY <2>2, <2>3, <2>4 DEF RuntimeSound
<1> QED
  BY <1>1, <1>3, <1>4 DEF RuntimeInv

(* Before the lock: the features, the release, the previous runtime.       *)
LEMMA RuntimeAsks ==
  ASSUME RuntimeInv, NEW u \in Updaters, NEW enable \in BOOLEAN, BeginUpdate(u, enable) \/ CheckLatest(u) \/ ReadPrevious(u)
  PROVE  RuntimeInv'
<1>0. current[2] \in BOOLEAN /\ current \in Runtimes
  BY DEF RuntimeInv, RuntimeTyped, Runtimes
<1>1. CASE BeginUpdate(u, enable)
  <2>1. [at |-> "asked", remote |-> current[2] \/ enable] \in Update
    BY <1>0 DEF Update
  <2>2. /\ up' \in [Updaters -> Update] /\ up'[u].at = "asked"
        /\ \A v \in Updaters \ {u} : up'[v] = up[v]
    BY <1>1, <2>1 DEF BeginUpdate, RuntimeInv, RuntimeTyped
  <2> QED
    BY <1>1, <2>2, RuntimeRests DEF BeginUpdate, RuntimeInv, RuntimeTyped
<1>2. CASE (CheckLatest(u) \/ ReadPrevious(u)) /\ Rest(u)
  <2>1. /\ up' \in [Updaters -> Update] /\ up'[u].at = "rest"
        /\ \A v \in Updaters \ {u} : up'[v] = up[v]
    BY <1>2 DEF Rest, Resting, Update, RuntimeInv, RuntimeTyped
  <2> QED
    BY <1>2, <2>1, RuntimeRests DEF CheckLatest, ReadPrevious, RuntimeInv, RuntimeTyped
<1>4. CASE CheckLatest(u) /\ ~Rest(u)
  <2>1. up[u].remote \in BOOLEAN
    BY <1>4 DEF CheckLatest, At, RuntimeInv, RuntimeTyped, Update, Resting, Work, Within
  <2>2. <<latest, up[u].remote>> \in Runtimes
    BY <2>1 DEF RuntimeInv, RuntimeTyped, Runtimes
  <2>3. /\ up' \in [Updaters -> Update] /\ up'[u].at = "checked"
        /\ \A v \in Updaters \ {u} : up'[v] = up[v]
    BY <1>4, <2>2 DEF CheckLatest, Update, RuntimeInv, RuntimeTyped
  <2> QED
    BY <1>4, <2>3, RuntimeRests DEF CheckLatest, RuntimeInv, RuntimeTyped
<1>3. CASE ReadPrevious(u) /\ ~Rest(u)
  <2> DEFINE work == [at |-> "ready", target |-> up[u].target, previous |-> current,
                      created |-> FALSE, found |-> current]
  <2>2. up[u].target \in Runtimes
    BY <1>3 DEF ReadPrevious, At, RuntimeInv, RuntimeTyped, Update, Resting, Work, Within
  <2>3. work \in Work /\ work.at = "ready" /\ ~work.created
    BY <1>0, <2>2 DEF Work
  <2>4. up' = [up EXCEPT ![u] = work]
    BY <1>3 DEF ReadPrevious
  <2> HIDE DEF work
  <2>5. /\ up' \in [Updaters -> Update] /\ up'[u].at = "ready" /\ ~up'[u].created
        /\ \A v \in Updaters \ {u} : up'[v] = up[v]
    BY <2>3, <2>4 DEF Update, RuntimeInv, RuntimeTyped
  <2> QED
    BY <1>3, <2>5, RuntimeRests DEF ReadPrevious, RuntimeInv, RuntimeTyped
<1> QED
  BY <1>1, <1>2, <1>3, <1>4 DEF CheckLatest, ReadPrevious

(* The lock is taken: the directory of the target is made, or found with a *)
(* valid marker, or in the way.                                            *)
LEMMA RuntimeLocks ==
  ASSUME RuntimeInv, NEW u \in Updaters, Locked(u)
  PROVE  RuntimeInv'
<1>0. up[u] \in Work /\ UNCHANGED <<current, latest>>
  BY WorkFacts DEF Locked, At, RuntimeInv
<1> DEFINE target == up[u].target
<1>1. CASE Rest(u) /\ UNCHANGED <<dirs, lock>>
  <2>1. /\ up' \in [Updaters -> Update] /\ up'[u].at = "rest"
        /\ \A v \in Updaters \ {u} : up'[v] = up[v]
    BY <1>1 DEF Rest, Resting, Update, RuntimeInv, RuntimeTyped
  <2>2. excused' = {} => excused = {}
    BY DEF Locked, Excuse
  <2> QED
    BY <1>0, <1>1, <2>1, <2>2, RuntimeRests DEF RuntimeInv, RuntimeTyped
<1>2. CASE ~(Rest(u) /\ UNCHANGED <<dirs, lock>>)
  <2>1. /\ lock = NoUpdater /\ lock' = u /\ At(u, "ready")
        /\ Excuse(LateRemoval(target) \union MovedPointer(u))
        /\ \/ /\ dirs[target] = "absent" /\ dirs' = [dirs EXCEPT ![target] = "partial"]
              /\ up' = [up EXCEPT ![u].at = "install", ![u].created = TRUE, ![u].found = current]
           \/ /\ HasValidMarker(target) /\ UNCHANGED dirs
              /\ up' = [up EXCEPT ![u].at = "switch", ![u].found = current]
    BY <1>2 DEF Locked
  <2>2. \A v \in Updaters : up[v].at \notin Within
    BY <2>1, OneWithin
  <2>3. /\ up'[u] \in Work /\ up'[u].target = target /\ up'[u].previous = up[u].previous
        /\ up'[u].found = current /\ \A v \in Updaters \ {u} : up'[v] = up[v]
        /\ up'[u].at \in {"install", "switch"} /\ up' \in [Updaters -> Update]
        /\ up'[u].at = "install" => dirs[target] = "absent"
        /\ up'[u].at = "switch" => UNCHANGED dirs /\ HasValidMarker(target) /\ up'[u].created = up[u].created
    <3>1. current \in Runtimes
      BY DEF RuntimeInv, RuntimeTyped
    <3> QED
      BY <1>0, <2>1, <3>1 DEF RuntimeInv, RuntimeTyped, Work, Update, Within
  <2>4. RuntimeTyped'
    BY <1>0, <2>1, <2>3 DEF RuntimeInv, RuntimeTyped, DirStates
  <2>5. ASSUME NEW v \in Updaters, up'[v].at \in Within PROVE lock' = v
    BY <2>1, <2>2, <2>3, <2>5
  <2>6. ASSUME excused' = {} PROVE RuntimeSound'
    <3>1. RuntimeSound /\ LateRemoval(target) = {} /\ MovedPointer(u) = {}
      BY <2>1, <2>6 DEF Excuse, RuntimeInv
    <3>2. up[u].previous = current /\ \A w \in Updaters : At(w, "remove") => up[w].target # target
      BY <3>1 DEF LateRemoval, MovedPointer
    <3>3. \A r \in Runtimes : dirs'[r] = dirs[r] \/ (r = target /\ dirs[r] = "absent" /\ dirs'[r] = "partial")
      BY <2>1 DEF RuntimeInv, RuntimeTyped
    <3>4. Runnable(current)' /\ \A r \in Runtimes : dirs'[r] \notin {"damaged", "ruined"}
      BY <1>0, <3>1, <3>3 DEF RuntimeInv, RuntimeTyped, RuntimeSound, Runnable
    <3>5. ASSUME NEW v \in Updaters, v # u PROVE SoundUpdate(v)'
      BY <1>0, <2>2, <2>3, <3>1, <3>5 DEF RuntimeSound, SoundUpdate, At, Within
    <3>6. SoundUpdate(u)'
      <4>1. up'[u].at = "install" => target # current
        BY <2>3, <3>1 DEF RuntimeSound, Runnable
      <4>2. up'[u].at = "switch" => Runnable(target)' /\ ~up'[u].created
        BY <1>0, <2>1, <2>3, <3>1 DEF RuntimeSound, SoundUpdate, At, Runnable, HasValidMarker, Work
      <4> QED
        BY <1>0, <2>3, <3>2, <3>4, <4>1, <4>2 DEF SoundUpdate, At, Runnable
    <3>7. ASSUME NEW v \in Updaters, NEW w \in Updaters PROVE Apart(v, w)'
      BY <2>2, <2>3, <3>1, <3>2 DEF RuntimeSound, SoundUpdate, Apart, At
    <3> QED
      BY <3>4, <3>5, <3>6, <3>7 DEF RuntimeSound
  <2> QED
    BY <2>4, <2>5, <2>6 DEF RuntimeInv
<1> QED
  BY <1>1, <1>2

(* A step of the process that holds the lock: it stays within the update,  *)
(* or gives the lock up, and then rests or has its directory to remove.    *)
LEMMA HolderSteps ==
  ASSUME RuntimeInv, NEW u \in Updaters, up[u].at \in Within, UNCHANGED latest,
         dirs' \in [Runtimes -> DirStates], current' \in Runtimes,
         \A v \in Updaters \ {u} : up'[v] = up[v],
         up' \in [Updaters -> Update],
         (up'[u].at \in Within /\ lock' = lock) \/ (up'[u].at \in {"rest", "remove"} /\ lock' = NoUpdater),
         excused' = {} =>
           /\ excused = {}
           /\ RuntimeSound =>
                /\ Runnable(current)' /\ SoundUpdate(u)'
                /\ \A r \in Runtimes : dirs'[r] \notin {"damaged", "ruined"}
                /\ up'[u].at \in Within => up'[u].target = up[u].target /\ up'[u].found = up[u].found
                /\ current' \in {current, up[u].target}
  PROVE  RuntimeInv'
<1>1. RuntimeTyped'
  BY DEF RuntimeInv, RuntimeTyped
<1>2. \A v \in Updaters \ {u} : up[v].at \notin Within
  BY OneWithin
<1>3. ASSUME NEW v \in Updaters, up'[v].at \in Within PROVE lock' = v
  BY <1>2, <1>3 DEF RuntimeInv, Within
<1>4. ASSUME excused' = {} PROVE RuntimeSound'
  <2>1. RuntimeSound
    BY <1>4 DEF RuntimeInv
  <2>2. ASSUME NEW v \in Updaters, v # u PROVE SoundUpdate(v)'
    <3>1. At(v, "remove") => up[v].target \notin {current, up[u].target}
      BY <2>1 DEF RuntimeSound, SoundUpdate, Apart, At
    <3>2. up'[v].at \notin Within /\ up'[v] = up[v]
      BY <1>2, <2>2
    <3> QED
      BY <1>4, <2>1, <2>2, <3>1, <3>2 DEF RuntimeSound, SoundUpdate, At, Within
  <2>3. ASSUME NEW v \in Updaters, NEW w \in Updaters PROVE Apart(v, w)'
    BY <1>2, <1>4, <2>1 DEF RuntimeSound, Apart, At, Within
  <2> QED
    BY <1>4, <2>1, <2>2, <2>3 DEF RuntimeSound
<1> QED
  BY <1>1, <1>3, <1>4 DEF RuntimeInv

(* A failure: the lock is given up before the directory is removed.        *)
LEMMA RuntimeFails ==
  ASSUME RuntimeInv, NEW u \in Updaters, up[u].at \in {"install", "mark", "switch"}, Fails(u),
         UNCHANGED <<current, latest, excused>>,
         \/ UNCHANGED dirs
         \/ At(u, "mark") /\ dirs' = [dirs EXCEPT ![up[u].target] = "torn"]
  PROVE  RuntimeInv'
<1>0. up[u] \in Work /\ up[u].at \in Within
  BY WorkFacts DEF RuntimeInv, Within
<1>1. /\ up' \in [Updaters -> Update] /\ \A v \in Updaters \ {u} : up'[v] = up[v]
      /\ \/ up'[u].at = "rest"
         \/ up[u].created /\ up'[u].at = "remove" /\ up'[u].target = up[u].target
  BY <1>0 DEF Fails, Go, Rest, Resting, RuntimeInv, RuntimeTyped, Update, Work
<1>2. dirs' \in [Runtimes -> DirStates] /\ current' \in Runtimes
  BY DEF RuntimeInv, RuntimeTyped, DirStates
<1>3. ASSUME RuntimeSound
      PROVE  /\ Runnable(current)' /\ SoundUpdate(u)'
             /\ \A r \in Runtimes : dirs'[r] \notin {"damaged", "ruined"}
  <2>1. Runnable(current)' /\ \A r \in Runtimes : dirs'[r] \notin {"damaged", "ruined"}
    BY <1>3 DEF RuntimeSound, Runnable, RuntimeInv, RuntimeTyped
  <2>2. up'[u].at = "remove" => up'[u].target # current
    BY <1>1, <1>3 DEF RuntimeSound, SoundUpdate, At
  <2> QED
    BY <1>1, <2>1, <2>2 DEF SoundUpdate, At, Within
<1>4. (up'[u].at \in Within /\ lock' = lock) \/ (up'[u].at \in {"rest", "remove"} /\ lock' = NoUpdater)
  BY <1>1 DEF Fails
<1>5. up'[u].at \notin Within
  BY <1>1 DEF Within
<1> QED
  BY <1>0, <1>1, <1>2, <1>3, <1>4, <1>5, HolderSteps

(* The installation, the marker and the pointer.                           *)
LEMMA RuntimeInstalls ==
  ASSUME RuntimeInv, NEW u \in Updaters, Install(u) \/ WriteMarker(u) \/ Switch(u)
  PROVE  RuntimeInv'
<1>0. up[u] \in Work /\ up[u].at \in Within
  BY WorkFacts DEF RuntimeInv, Install, WriteMarker, Switch, At, Within
<1> DEFINE Failed == /\ Fails(u) /\ UNCHANGED current
                     /\ \/ UNCHANGED dirs
                        \/ At(u, "mark") /\ dirs' = [dirs EXCEPT ![up[u].target] = "torn"]
<1>1. CASE Failed
  BY <1>1, RuntimeFails DEF Install, WriteMarker, Switch, At
<1>2. CASE ~Failed
  <2>1. /\ UNCHANGED <<lock, latest, excused>>
        /\ \/ At(u, "install") /\ Go(u, "mark") /\ UNCHANGED <<dirs, current>>
           \/ /\ At(u, "mark") /\ Go(u, "switch") /\ UNCHANGED current
              /\ dirs' = [dirs EXCEPT ![up[u].target] = "verified"]
           \/ At(u, "switch") /\ Go(u, "cleanup") /\ UNCHANGED dirs /\ current' = up[u].target
    BY <1>2 DEF Install, WriteMarker, Switch
  <2>2. /\ up' \in [Updaters -> Update] /\ \A v \in Updaters \ {u} : up'[v] = up[v]
        /\ up'[u].at \in Within /\ up'[u].target = up[u].target /\ up'[u].found = up[u].found
        /\ up'[u].previous = up[u].previous /\ up'[u].created = up[u].created
        /\ \/ At(u, "install") /\ up'[u].at = "mark"
           \/ At(u, "mark") /\ up'[u].at = "switch"
           \/ At(u, "switch") /\ up'[u].at = "cleanup"
    BY <1>0, <2>1 DEF Go, At, RuntimeInv, RuntimeTyped, Update, Work, Within
  <2>3. dirs' \in [Runtimes -> DirStates] /\ current' \in Runtimes /\ current' \in {current, up[u].target}
    BY <1>0, <2>1 DEF RuntimeInv, RuntimeTyped, DirStates, Work
  <2>4. ASSUME RuntimeSound
        PROVE  /\ Runnable(current)' /\ SoundUpdate(u)'
               /\ \A r \in Runtimes : dirs'[r] \notin {"damaged", "ruined"}
    <3>1. \A r \in Runtimes : dirs'[r] = dirs[r] \/ dirs'[r] = "verified"
      BY <2>1 DEF RuntimeInv, RuntimeTyped
    <3>2. SoundUpdate(u) /\ Runnable(current) /\ up[u].found \in Runtimes /\ up[u].target \in Runtimes
      BY <1>0, <2>4 DEF RuntimeSound, Work
    <3>3. Runnable(current)'
      BY <2>1, <2>3, <3>1, <3>2 DEF SoundUpdate, Runnable, At
    <3>4. Runnable(up[u].found)'
      BY <1>0, <2>2, <3>1, <3>2 DEF SoundUpdate, Runnable
    <3>5. SoundUpdate(u)'
      <4>1. CASE At(u, "install")
        BY <1>0, <2>1, <2>2, <3>2, <3>4, <4>1 DEF SoundUpdate, At, Runnable
      <4>2. CASE At(u, "mark")
        <5>1. Runnable(up[u].target)'
          BY <2>1, <2>2, <3>2, <4>2 DEF At, Runnable, RuntimeInv, RuntimeTyped
        <5> QED
          BY <1>0, <2>1, <2>2, <3>2, <3>4, <4>2, <5>1 DEF SoundUpdate, At, Runnable
      <4>3. CASE At(u, "switch")
        BY <1>0, <2>1, <2>2, <3>2, <3>4, <4>3 DEF SoundUpdate, At, Runnable
      <4> QED
        BY <2>1, <4>1, <4>2, <4>3
    <3>6. \A r \in Runtimes : dirs'[r] \notin {"damaged", "ruined"}
      BY <2>4, <3>1 DEF RuntimeSound
    <3> QED
      BY <3>3, <3>5, <3>6
  <2> QED
    BY <1>0, <2>1, <2>2, <2>3, <2>4, HolderSteps
<1> QED
  BY <1>1, <1>2

(* The cleanup, the end of an update and a removal after a failure.        *)
LEMMA RuntimeCleans ==
  ASSUME RuntimeInv, NEW u \in Updaters, NEW r \in Runtimes,
         CleanupOne(u, r) \/ CleanupEnds(u) \/ RemoveTarget(u)
  PROVE  RuntimeInv'
<1>0. up[u] \in Work /\ UNCHANGED <<current, latest>>
  BY WorkFacts DEF RuntimeInv, CleanupOne, CleanupEnds, RemoveTarget, At, Within
<1>1. CASE CleanupOne(u, r)
  <2>1. PICK state \in Removed(dirs[r]) : dirs' = [dirs EXCEPT ![r] = state] /\ Excuse(HalfRemoved(state))
    BY <1>1 DEF CleanupOne
  <2>2. state \in DirStates
    BY <2>1 DEF Removed, Leftovers, RuntimeInv, RuntimeTyped, DirStates
  <2>3. /\ up' = up /\ lock' = lock /\ At(u, "cleanup") /\ r \notin {up[u].target, up[u].previous}
        /\ dirs' \in [Runtimes -> DirStates] /\ current' \in Runtimes
    BY <1>0, <1>1, <2>1, <2>2 DEF CleanupOne, Keep, RuntimeInv, RuntimeTyped
  <2>4. excused' = {} => excused = {} /\ state \notin {"damaged", "ruined"}
    BY <2>1 DEF Excuse, HalfRemoved
  <2>5. ASSUME RuntimeSound, state \notin {"damaged", "ruined"}
        PROVE  /\ Runnable(current)' /\ SoundUpdate(u)'
               /\ \A d \in Runtimes : dirs'[d] \notin {"damaged", "ruined"}
    <3>1. \A d \in Runtimes : dirs'[d] = IF d = r THEN state ELSE dirs[d]
      BY <2>1 DEF RuntimeInv, RuntimeTyped
    <3> QED
      BY <1>0, <2>3, <2>5, <3>1 DEF RuntimeSound, SoundUpdate, At, Runnable, Within, Work
  <2>6. up[u].at \in Within /\ \A v \in Updaters \ {u} : up'[v] = up[v]
    BY <2>3 DEF At, Within
  <2>7. up' \in [Updaters -> Update]
    BY <2>3 DEF RuntimeInv, RuntimeTyped
  <2> QED
    BY <1>0, <2>3, <2>4, <2>5, <2>6, <2>7, HolderSteps
<1>2. CASE CleanupEnds(u)
  <2>1. /\ up' \in [Updaters -> Update] /\ up'[u].at = "rest" /\ up[u].at \in Within
        /\ \A v \in Updaters \ {u} : up'[v] = up[v]
    BY <1>2 DEF CleanupEnds, Rest, Resting, At, Within, Update, RuntimeInv, RuntimeTyped
  <2> QED
    BY <1>0, <1>2, <2>1, RuntimeRests DEF CleanupEnds, RuntimeInv, RuntimeTyped
<1>3. CASE RemoveTarget(u)
  <2> DEFINE target == up[u].target
  <2>1. PICK state \in Removed(dirs[target]) : dirs' = [dirs EXCEPT ![target] = state] /\ Excuse(HalfRemoved(state))
    BY <1>3 DEF RemoveTarget
  <2>2. target \in Runtimes
    BY <1>0 DEF Work
  <2>3. state \in DirStates
    BY <2>1, <2>2 DEF Removed, Leftovers, RuntimeInv, RuntimeTyped, DirStates
  <2>4. /\ At(u, "remove") /\ lock' = lock /\ up' \in [Updaters -> Update] /\ up'[u].at = "rest"
        /\ \A v \in Updaters \ {u} : up'[v] = up[v]
    BY <1>3 DEF RemoveTarget, Rest, Resting, Update, RuntimeInv, RuntimeTyped
  <2>5. RuntimeTyped'
    BY <1>0, <2>1, <2>3, <2>4 DEF RuntimeInv, RuntimeTyped
  <2>6. ASSUME NEW v \in Updaters, up'[v].at \in Within PROVE lock' = v
    BY <2>4, <2>6 DEF RuntimeInv, Within
  <2>7. ASSUME excused' = {} PROVE RuntimeSound'
    <3>1. RuntimeSound /\ state \notin {"damaged", "ruined"}
      BY <2>1, <2>7 DEF Excuse, HalfRemoved, RuntimeInv
    <3>2. \A d \in Runtimes : dirs'[d] = IF d = target THEN state ELSE dirs[d]
      BY <2>1 DEF RuntimeInv, RuntimeTyped
    <3>3. target # current /\ current \in Runtimes
      BY <2>4, <3>1 DEF RuntimeSound, SoundUpdate, At, RuntimeInv, RuntimeTyped
    <3>4. Runnable(current)' /\ \A d \in Runtimes : dirs'[d] \notin {"damaged", "ruined"}
      BY <1>0, <3>1, <3>2, <3>3 DEF RuntimeSound, Runnable
    <3>5. ASSUME NEW v \in Updaters PROVE SoundUpdate(v)'
      <4>1. CASE v = u
        BY <2>4, <4>1 DEF SoundUpdate, At, Within
      <4>2. CASE v # u /\ up[v].at \in Within
        <5>1. up[v] \in Work /\ up'[v] = up[v] /\ target \notin {up[v].target, up[v].found}
          BY <2>4, <3>1, <4>2, WorkFacts DEF RuntimeSound, Apart, At, RuntimeInv
        <5>2. SoundUpdate(v) /\ up[v].target \in Runtimes /\ up[v].found \in Runtimes
          BY <3>1, <5>1 DEF RuntimeSound, Work
        <5> QED
          BY <1>0, <3>2, <4>2, <5>1, <5>2 DEF SoundUpdate, At, Runnable
      <4>3. CASE v # u /\ up[v].at \notin Within
        BY <1>0, <2>4, <3>1, <4>3 DEF RuntimeSound, SoundUpdate, At, Within
      <4> QED
        BY <4>1, <4>2, <4>3
    <3>6. ASSUME NEW v \in Updaters, NEW w \in Updaters PROVE Apart(v, w)'
      BY <2>4, <3>1 DEF RuntimeSound, Apart, At, Within
    <3> QED
      BY <3>4, <3>5, <3>6 DEF RuntimeSound
  <2> QED
    BY <2>5, <2>6, <2>7 DEF RuntimeInv
<1> QED
  BY <1>1, <1>2, <1>3

(* A rollback, while nobody holds the lock.                                *)
LEMMA RuntimeRollsBack ==
  ASSUME RuntimeInv, NEW u \in Updaters, Rollback(u)
  PROVE  RuntimeInv'
<1>1. PICK r \in Candidates : current' = r /\ Excuse(LateRemoval(r))
  BY DEF Rollback
<1>2. r \in Runtimes /\ HasMarker(r) /\ UNCHANGED <<dirs, lock, up, latest>> /\ lock = NoUpdater
  BY <1>1 DEF Candidates, Rollback
<1>3. \A v \in Updaters : up[v].at \notin Within
  BY <1>2, OneWithin
<1>4. RuntimeTyped'
  BY <1>1, <1>2 DEF RuntimeInv, RuntimeTyped
<1>5. ASSUME excused' = {} PROVE RuntimeSound'
  <2>1. RuntimeSound /\ LateRemoval(r) = {}
    BY <1>1, <1>5 DEF Excuse, RuntimeInv
  <2>2. \A w \in Updaters : At(w, "remove") => up[w].target # r
    BY <2>1 DEF LateRemoval
  <2>3. Runnable(current)' /\ \A d \in Runtimes : dirs'[d] \notin {"damaged", "ruined"}
    BY <1>1, <1>2, <2>1 DEF RuntimeSound, Runnable, HasMarker
  <2>4. ASSUME NEW v \in Updaters PROVE SoundUpdate(v)'
    BY <1>1, <1>2, <1>3, <2>1, <2>2 DEF RuntimeSound, SoundUpdate, At, Within
  <2>5. ASSUME NEW v \in Updaters, NEW w \in Updaters PROVE Apart(v, w)'
    BY <1>2, <1>3 DEF Apart
  <2> QED
    BY <2>3, <2>4, <2>5 DEF RuntimeSound
<1> QED
  BY <1>2, <1>3, <1>4, <1>5 DEF RuntimeInv

(* A kill anywhere, the writing of the marker included.                    *)
LEMMA RuntimeDies ==
  ASSUME RuntimeInv, NEW u \in Updaters, Kill(u)
  PROVE  RuntimeInv'
<1>1. /\ up' \in [Updaters -> Update] /\ up'[u].at = "rest" /\ UNCHANGED <<current, latest, excused>>
      /\ \A v \in Updaters \ {u} : up'[v] = up[v]
  BY DEF Kill, Rest, Resting, Update, RuntimeInv, RuntimeTyped
<1>2. RuntimeTyped'
  BY <1>1 DEF Kill, RuntimeInv, RuntimeTyped, DirStates
<1>3. ASSUME NEW v \in Updaters, up'[v].at \in Within PROVE lock' = v
  <2>1. v # u /\ up[v].at \in Within
    BY <1>1, <1>3 DEF Within
  <2> QED
    BY <2>1 DEF Kill, RuntimeInv
<1>4. ASSUME excused' = {} PROVE RuntimeSound'
  <2>1. RuntimeSound
    BY <1>1, <1>4 DEF RuntimeInv
  <2>2. \/ UNCHANGED dirs
        \/ At(u, "mark") /\ dirs' = [dirs EXCEPT ![up[u].target] = "torn"]
    BY DEF Kill
  <2>3. Runnable(current)' /\ \A d \in Runtimes : dirs'[d] \notin {"damaged", "ruined"}
    <3>1. CASE UNCHANGED dirs
      BY <1>1, <2>1, <3>1 DEF RuntimeSound, Runnable
    <3>2. CASE At(u, "mark") /\ dirs' = [dirs EXCEPT ![up[u].target] = "torn"]
      BY <1>1, <2>1, <3>2 DEF RuntimeSound, SoundUpdate, At, Runnable, RuntimeInv, RuntimeTyped
    <3> QED
      BY <2>2, <3>1, <3>2
  <2>4. ASSUME NEW v \in Updaters PROVE SoundUpdate(v)'
    <3>1. CASE v = u
      BY <1>1, <3>1 DEF SoundUpdate, At, Within
    <3>2. CASE v # u /\ UNCHANGED dirs
      BY <1>1, <2>1, <3>2 DEF RuntimeSound, SoundUpdate, At, Runnable
    <3>3. CASE v # u /\ At(u, "mark")
      <4>1. up[v].at \notin Within
        BY <3>3, OneWithin DEF At, Within
      <4> QED
        BY <1>1, <2>1, <3>3, <4>1 DEF RuntimeSound, SoundUpdate, At, Within
    <3> QED
      BY <2>2, <3>1, <3>2, <3>3
  <2>5. ASSUME NEW v \in Updaters, NEW w \in Updaters PROVE Apart(v, w)'
    BY <1>1, <2>1 DEF RuntimeSound, Apart, At, Within
  <2> QED
    BY <2>3, <2>4, <2>5 DEF RuntimeSound
<1> QED
  BY <1>2, <1>3, <1>4 DEF RuntimeInv

(* Every step of an update or a rollback keeps their invariant.            *)
LEMMA RuntimeStep ==
  ASSUME RuntimeInv, RuntimeNext \/ UNCHANGED runtimeVars
  PROVE  RuntimeInv'
<1>1. CASE Release \/ UNCHANGED runtimeVars
  <2>1. UNCHANGED <<dirs, current, lock, up, excused>> /\ latest' \in 1..MaxVersion
    BY <1>1, UpdaterAssumption DEF Release, runtimeVars, RuntimeInv, RuntimeTyped
  <2> QED
    BY <2>1 DEF RuntimeInv, RuntimeTyped, RuntimeSound, SoundUpdate, Apart, At, Runnable
<1>2. ASSUME NEW u \in Updaters, NEW enable \in BOOLEAN, BeginUpdate(u, enable) PROVE RuntimeInv'
  BY <1>2, RuntimeAsks
<1>3. ASSUME NEW u \in Updaters, CheckLatest(u) \/ ReadPrevious(u) PROVE RuntimeInv'
  BY <1>3, RuntimeAsks
<1>4. ASSUME NEW u \in Updaters, Locked(u) \/ Install(u) \/ WriteMarker(u) \/ Switch(u) PROVE RuntimeInv'
  BY <1>4, RuntimeLocks, RuntimeInstalls
<1>5. ASSUME NEW u \in Updaters, NEW r \in Runtimes, CleanupOne(u, r) PROVE RuntimeInv'
  BY <1>5, RuntimeCleans
<1>6. ASSUME NEW u \in Updaters, CleanupEnds(u) \/ RemoveTarget(u) PROVE RuntimeInv'
  <2>1. current \in Runtimes
    BY DEF RuntimeInv, RuntimeTyped
  <2> QED
    BY <1>6, <2>1, RuntimeCleans
<1>7. ASSUME NEW u \in Updaters, Rollback(u) \/ Kill(u) PROVE RuntimeInv'
  BY <1>7, RuntimeRollsBack, RuntimeDies
<1> QED
  BY <1>1, <1>2, <1>3, <1>4, <1>5, <1>6, <1>7 DEF RuntimeNext

(* The runtime that was installed first, and nobody at work.               *)
LEMMA RuntimeStart ==
  ASSUME RuntimeInit
  PROVE  RuntimeInv
<1>0. 1 \in 1..MaxVersion /\ FALSE \in BOOLEAN
  BY UpdaterAssumption
<1>1. current \in Runtimes /\ latest \in 1..MaxVersion
  BY <1>0, Zenon DEF RuntimeInit, Runtimes
<1>2. RuntimeTyped
  BY <1>1 DEF RuntimeInit, RuntimeTyped, DirStates, Update
<1>3. \A u \in Updaters : up[u].at = "rest"
  BY DEF RuntimeInit, Resting
<1>4. RuntimeSound
  BY <1>1, <1>3 DEF RuntimeInit, RuntimeSound, SoundUpdate, Apart, At, Runnable, Within
<1> QED
  BY <1>2, <1>3, <1>4 DEF RuntimeInv, Within

-----------------------------------------------------------------------------
(* The Memory.  For an entry whose fate is clear, what callers were told   *)
(* is what the file holds, and a process whose entries were not undone     *)
(* holds what it last saw in the file, give or take the change that it is  *)
(* saving.  For the bound: every writer that passed the check and has not  *)
(* written yet counts as an entry of its process.                          *)

Contents == UNION {[held -> {"plain", "tagged"}] : held \in SUBSET Entries}
SaveRecord == [op : {"add", "remove", "tag", "clear"}, entry : Entries \union {CHOOSE e \in Entries : TRUE},
               before : Contents]
Writing == [at : {"judged", "adding"}, on : Processes, entry : Entries]

MemoryTyped ==
  /\ file \in Contents /\ mem \in [Processes -> Contents] /\ seen \in [Processes -> Contents]
  /\ save \in [Processes -> {NoSave} \union SaveRecord]
  /\ writer \in [Writers -> {[at |-> "rest"]} \union Writing]

(* what an operation makes of the names of the entries                     *)
Effect(op, e, names) == CASE op = "add" -> names \union {e}
                          [] op = "remove" -> names \ {e}
                          [] op = "clear" -> names \ Entries
                          [] OTHER -> names

PendingSave(p) ==
  Saving(p) => Up(p) /\ DOMAIN mem[p] = Effect(save[p].op, save[p].entry, DOMAIN save[p].before)

Settled(p) == IF Saving(p) THEN DOMAIN save[p].before ELSE DOMAIN mem[p]

ClearEntry(e) ==
  /\ (e \in told) = (e \in DOMAIN file)
  /\ \A p \in Processes : Up(p) => (e \in Settled(p)) = (e \in DOMAIN seen[p])

Judged(p) == {w \in Writers : writer[w].at = "judged" /\ writer[w].on = p}
Bound == MaxEntries + Cardinality(Writers)

FitsBound(p) ==
  IsFiniteSet(DOMAIN mem[p]) /\ Cardinality(DOMAIN mem[p]) + Cardinality(Judged(p)) < Bound

Bounded ==
  /\ IsFiniteSet(DOMAIN file) /\ Cardinality(DOMAIN file) < Bound
  /\ \A p \in Processes : FitsBound(p)
  /\ \A w \in Writers : writer[w].at = "judged" => Up(writer[w].on)

MemoryInv ==
  /\ MemoryTyped /\ Bounded
  /\ \A p \in Processes : PendingSave(p)
  /\ \A e \in Entries \ unclear : ClearEntry(e)

(* What With and Without make of the entries.                              *)
LEMMA ContentsFacts ==
  ASSUME NEW m \in Contents, NEW e \in Entries, NEW tag \in {"plain", "tagged"}, NEW es
  PROVE  /\ With(m, e, tag) \in Contents /\ DOMAIN With(m, e, tag) = DOMAIN m \union {e}
         /\ Without(m, es) \in Contents /\ DOMAIN Without(m, es) = DOMAIN m \ es
         /\ DOMAIN m \in SUBSET Entries
<1>1. PICK held \in SUBSET Entries : m \in [held -> {"plain", "tagged"}]
  BY DEF Contents
<1>2. With(m, e, tag) \in [held \union {e} -> {"plain", "tagged"}]
  BY <1>1 DEF With
<1>3. Without(m, es) \in [held \ es -> {"plain", "tagged"}]
  BY <1>1 DEF Without
<1>4. held \union {e} \in SUBSET Entries /\ held \ es \in SUBSET Entries
  BY <1>1
<1> QED
  BY <1>1, <1>2, <1>3, <1>4 DEF Contents, With, Without

(* No entries at all.                                                      *)
LEMMA NothingFacts ==
  Nothing \in Contents /\ DOMAIN Nothing = {}
<1>1. Nothing \in [{} -> {"plain", "tagged"}] /\ {} \in SUBSET Entries
  BY DEF Nothing
<1> QED
  BY <1>1 DEF Contents, Nothing

(* The writers in between are finitely many.                               *)
LEMMA JudgedFinite ==
  ASSUME NEW J \in SUBSET Writers
  PROVE  /\ IsFiniteSet(J) /\ Cardinality(J) \in Nat /\ Cardinality(Writers) \in Nat
         /\ Cardinality(J) <= Cardinality(Writers) /\ Bound \in Nat /\ 0 < Bound
  BY MemoryAssumption, FS_Subset, FS_CardinalityType DEF Bound

(* Fewer entries and fewer writers in between stay within the bound.       *)
LEMMA FewerFit ==
  ASSUME NEW S, IsFiniteSet(S), NEW T \in SUBSET S, NEW J \in SUBSET Writers, NEW K \in SUBSET J,
         Cardinality(S) + Cardinality(J) < Bound
  PROVE  IsFiniteSet(T) /\ Cardinality(T) + Cardinality(K) < Bound /\ Cardinality(T) < Bound
<1>1. IsFiniteSet(T) /\ Cardinality(T) <= Cardinality(S) /\ Cardinality(T) \in Nat /\ Cardinality(S) \in Nat
  BY FS_Subset, FS_CardinalityType
<1>2. IsFiniteSet(J) /\ Cardinality(J) \in Nat /\ Bound \in Nat
  BY JudgedFinite
<1>3. Cardinality(K) <= Cardinality(J) /\ Cardinality(K) \in Nat
  BY <1>2, FS_Subset, FS_CardinalityType
<1> QED
  BY <1>1, <1>2, <1>3

(* A process that gains neither entries nor writers keeps to the bound.    *)
LEMMA FitsStill ==
  ASSUME MemoryInv, NEW p \in Processes, DOMAIN mem'[p] \in SUBSET DOMAIN mem[p],
         \A w \in Writers : writer'[w].at = "judged" => writer'[w] = writer[w]
  PROVE  FitsBound(p)'
<1>1. Judged(p) \in SUBSET Writers /\ Judged(p)' \in SUBSET Judged(p)
  BY DEF Judged
<1> QED
  BY <1>1, FewerFit DEF FitsBound, MemoryInv, Bounded

(* An operation changes the entries of its process and starts to save.     *)
LEMMA MemoryBegins ==
  ASSUME MemoryInv, NEW p \in Processes, NEW op \in {"add", "remove", "tag", "clear"},
         NEW e \in Entries \union {CHOOSE x \in Entries : TRUE}, NEW after \in Contents,
         Begin(p, op, e, after), DOMAIN after = Effect(op, e, DOMAIN mem[p]),
         UNCHANGED <<file, alive, seen, told, unclear>>, FitsBound(p)',
         writer' \in [Writers -> {[at |-> "rest"]} \union Writing],
         \A w \in Writers : writer'[w].at = "judged" => writer'[w] = writer[w]
  PROVE  MemoryInv'
<1> DEFINE record == [op |-> op, entry |-> e, before |-> mem[p]]
<1>0. Up(p) /\ ~Saving(p) /\ mem' = [mem EXCEPT ![p] = after] /\ save' = [save EXCEPT ![p] = record]
  BY DEF Begin
<1>1. record \in SaveRecord /\ record.op = op /\ record.entry = e /\ record.before = mem[p] /\ op # "none"
  BY DEF SaveRecord, MemoryInv, MemoryTyped
<1> HIDE DEF record
<1>2. MemoryTyped'
  BY <1>0, <1>1 DEF MemoryInv, MemoryTyped
<1>3. \A q \in Processes \ {p} : mem'[q] = mem[q] /\ save'[q] = save[q]
  BY <1>0 DEF MemoryInv, MemoryTyped
<1>4. mem'[p] = after /\ save'[p] = record
  BY <1>0 DEF MemoryInv, MemoryTyped
<1>5. ASSUME NEW q \in Processes PROVE PendingSave(q)'
  <2>1. CASE q = p
    BY <1>0, <1>1, <1>4, <2>1 DEF PendingSave, Up
  <2>2. CASE q # p
    BY <1>3, <2>2 DEF MemoryInv, PendingSave, Saving, Up
  <2> QED
    BY <2>1, <2>2
<1>6. ASSUME NEW x \in Entries \ unclear' PROVE ClearEntry(x)'
  <2>1. ClearEntry(x)
    BY <1>6 DEF MemoryInv
  <2>2. ASSUME NEW q \in Processes PROVE Settled(q)' = Settled(q)
    <3>1. CASE q = p
      BY <1>0, <1>1, <1>4, <3>1 DEF Settled, Saving
    <3>2. CASE q # p
      BY <1>3, <3>2 DEF Settled, Saving
    <3> QED
      BY <3>1, <3>2
  <2> QED
    BY <2>1, <2>2 DEF ClearEntry, Up
<1>7. Bounded'
  <2>1. ASSUME NEW q \in Processes PROVE FitsBound(q)'
    <3>1. CASE q # p
      <4>1. DOMAIN mem'[q] \in SUBSET DOMAIN mem[q]
        BY <1>3, <3>1
      <4> QED
        BY <4>1, FitsStill
    <3> QED
      BY <3>1
  <2> QED
    BY <2>1 DEF MemoryInv, Bounded, Up
<1> QED
  BY <1>2, <1>5, <1>6, <1>7 DEF MemoryInv

(* remove(), tag() and clear().                                            *)
LEMMA MemoryChanges ==
  ASSUME MemoryInv, NEW p \in Processes, NEW e,
         Clear(p) \/ (e \in Entries /\ (Remove(p, e) \/ Tag(p, e)))
  PROVE  MemoryInv'
<1>0. /\ mem[p] \in Contents /\ UNCHANGED <<file, alive, seen, told, unclear, writer>>
      /\ writer' \in [Writers -> {[at |-> "rest"]} \union Writing]
  BY DEF MemoryInv, MemoryTyped, Clear, Remove, Tag
<1>1. CASE Clear(p)
  <2> DEFINE after == Without(mem[p], Entries) some == CHOOSE x \in Entries : TRUE
  <2>1. DOMAIN after = DOMAIN mem[p] \ Entries /\ after \in Contents
    <3>1. CASE Entries = {}
      <4>1. mem[p] \in [{} -> {"plain", "tagged"}]
        BY <1>0, <3>1 DEF Contents
      <4>2. after \in [{} -> {"plain", "tagged"}]
        BY <4>1 DEF Without
      <4> QED
        BY <3>1, <4>1, <4>2 DEF Contents
    <3>2. CASE \E x : x \in Entries
      BY <1>0, <3>2, ContentsFacts
    <3> QED
      BY <3>1, <3>2
  <2>2. Begin(p, "clear", some, after)
    BY <1>1 DEF Clear
  <2>3. mem'[p] = after
    BY <2>2 DEF Begin, MemoryInv, MemoryTyped
  <2>4. DOMAIN after = Effect("clear", some, DOMAIN mem[p])
    BY <2>1 DEF Effect
  <2> HIDE DEF after
  <2>5. FitsBound(p)'
    BY <1>0, <2>1, <2>3, FitsStill
  <2> QED
    BY <1>0, <2>1, <2>2, <2>4, <2>5, MemoryBegins
<1>2. CASE e \in Entries /\ Remove(p, e)
  <2> DEFINE after == Without(mem[p], {e})
  <2>1. DOMAIN after = DOMAIN mem[p] \ {e} /\ after \in Contents
    BY <1>0, <1>2, ContentsFacts
  <2>2. Begin(p, "remove", e, after)
    BY <1>2 DEF Remove
  <2>3. mem'[p] = after
    BY <2>2 DEF Begin, MemoryInv, MemoryTyped
  <2>4. DOMAIN after = Effect("remove", e, DOMAIN mem[p])
    BY <2>1 DEF Effect
  <2> HIDE DEF after
  <2>5. FitsBound(p)'
    BY <1>0, <2>1, <2>3, FitsStill
  <2> QED
    BY <1>0, <1>2, <2>1, <2>2, <2>4, <2>5, MemoryBegins
<1>3. CASE e \in Entries /\ Tag(p, e)
  <2> DEFINE after == With(mem[p], e, "tagged")
  <2>1. DOMAIN after = DOMAIN mem[p] /\ after \in Contents
    <3>1. DOMAIN after = DOMAIN mem[p] \union {e} /\ after \in Contents
      BY <1>0, <1>3, ContentsFacts
    <3>2. e \in DOMAIN mem[p]
      BY <1>3 DEF Tag
    <3> QED
      BY <3>1, <3>2
  <2>2. Begin(p, "tag", e, after)
    BY <1>3 DEF Tag
  <2>3. mem'[p] = after
    BY <2>2 DEF Begin, MemoryInv, MemoryTyped
  <2>4. DOMAIN after = Effect("tag", e, DOMAIN mem[p])
    BY <2>1 DEF Effect
  <2> HIDE DEF after
  <2>5. FitsBound(p)'
    BY <1>0, <2>1, <2>3, FitsStill
  <2> QED
    BY <1>0, <1>3, <2>1, <2>2, <2>4, <2>5, MemoryBegins
<1> QED
  BY <1>1, <1>2, <1>3

(* A write that the Policies allowed: the writer makes room for its entry. *)
LEMMA MemoryAdds ==
  ASSUME MemoryInv, NEW w \in Writers, Add(w)
  PROVE  MemoryInv'
<1>0. writer[w] \in Writing /\ writer[w].at = "judged"
  BY DEF Add, MemoryInv, MemoryTyped
<1>1. PICK p \in Processes, e \in Entries : p = writer[w].on /\ e = writer[w].entry
  BY <1>0 DEF Writing
<1> DEFINE after == With(mem[p], e, "plain")
<1>b. mem[p] \in Contents
  BY DEF MemoryInv, MemoryTyped
<1>2. after \in Contents /\ DOMAIN after = DOMAIN mem[p] \union {e}
  BY <1>b, ContentsFacts
<1>3. /\ Begin(p, "add", e, after) /\ UNCHANGED <<file, alive, seen, told, unclear>>
      /\ writer' = [writer EXCEPT ![w].at = "adding"]
  BY <1>1 DEF Add
<1>4. /\ writer' \in [Writers -> {[at |-> "rest"]} \union Writing] /\ writer'[w].at = "adding"
      /\ \A v \in Writers \ {w} : writer'[v] = writer[v]
  BY <1>0, <1>3 DEF MemoryInv, MemoryTyped, Writing
<1>5. DOMAIN after = Effect("add", e, DOMAIN mem[p])
  BY <1>2 DEF Effect
<1>6. mem'[p] = after
  BY <1>1, <1>3 DEF Begin, MemoryInv, MemoryTyped
<1> HIDE DEF after
<1>7. FitsBound(p)'
  <2>1. w \in Judged(p) /\ Judged(p)' = Judged(p) \ {w} /\ Judged(p) \in SUBSET Writers
    BY <1>0, <1>1, <1>4 DEF Judged
  <2>2. FitsBound(p)
    BY <1>1 DEF MemoryInv, Bounded
  <2>3. IsFiniteSet(Judged(p)) /\ Cardinality(Judged(p)) \in Nat /\ Bound \in Nat
    BY <2>1, JudgedFinite
  <2>4. Cardinality(Judged(p)') = Cardinality(Judged(p)) - 1
    BY <2>1, <2>3, FS_RemoveElement
  <2>5. /\ IsFiniteSet(DOMAIN after) /\ Cardinality(DOMAIN mem[p]) \in Nat
        /\ Cardinality(DOMAIN after) \in {Cardinality(DOMAIN mem[p]), Cardinality(DOMAIN mem[p]) + 1}
    BY <1>2, <2>2, FS_AddElement, FS_CardinalityType DEF FitsBound
  <2>6. Cardinality(DOMAIN mem[p]) + Cardinality(Judged(p)) < Bound
    BY <2>2 DEF FitsBound
  <2>7. Cardinality(DOMAIN after) + Cardinality(Judged(p)') < Bound
    BY <2>3, <2>4, <2>5, <2>6
  <2> QED
    BY <1>6, <2>5, <2>7 DEF FitsBound, Bound
<1>8. \A v \in Writers : writer'[v].at = "judged" => writer'[v] = writer[v]
  BY <1>4
<1> QED
  BY <1>1, <1>2, <1>3, <1>4, <1>5, <1>7, <1>8, MemoryBegins

(* The check of the bound, and a refusal.                                  *)
LEMMA MemoryJudges ==
  ASSUME MemoryInv, NEW w \in Writers, NEW p, NEW e,
         Refused(w) \/ (p \in Processes /\ e \in Entries /\ Validate(w, p, e))
  PROVE  MemoryInv'
<1>1. /\ UNCHANGED <<file, alive, seen, mem, save, told, unclear>>
      /\ \A v \in Writers \ {w} : writer'[v] = writer[v]
      /\ writer' \in [Writers -> {[at |-> "rest"]} \union Writing]
      /\ \/ writer'[w].at = "rest"
         \/ /\ writer'[w].at = "judged" /\ writer'[w].on = p /\ p \in Processes /\ Up(p)
            /\ Cardinality(DOMAIN mem[p]) < MaxEntries
  BY DEF Refused, Validate, MemoryInv, MemoryTyped, Writing
<1>2. MemoryTyped'
  BY <1>1 DEF MemoryInv, MemoryTyped
<1>3. \A q \in Processes : PendingSave(q)'
  BY <1>1 DEF MemoryInv, PendingSave, Saving, Up
<1>4. \A x \in Entries \ unclear' : ClearEntry(x)'
  BY <1>1 DEF MemoryInv, ClearEntry, Settled, Saving, Up
<1>5. ASSUME NEW q \in Processes PROVE FitsBound(q)'
  <2>1. CASE writer'[w].at = "judged" /\ writer'[w].on = q
    <3>1. Cardinality(DOMAIN mem[q]) < MaxEntries /\ IsFiniteSet(DOMAIN mem[q])
      BY <1>1, <2>1 DEF MemoryInv, Bounded, FitsBound
    <3>2. Cardinality(DOMAIN mem[q]) \in Nat
      BY <3>1, FS_CardinalityType
    <3>3. Judged(q)' \in SUBSET Writers
      BY DEF Judged
    <3>4. Cardinality(Judged(q)') \in Nat /\ Cardinality(Judged(q)') <= Cardinality(Writers) /\ Cardinality(Writers) \in Nat
      BY <3>3, JudgedFinite
    <3> QED
      BY <1>1, <3>1, <3>2, <3>4, MemoryAssumption DEF FitsBound, Bound
  <2>2. CASE ~(writer'[w].at = "judged" /\ writer'[w].on = q)
    <3>1. Judged(q) \in SUBSET Writers /\ Judged(q)' \in SUBSET Judged(q)
      BY <1>1, <2>2 DEF Judged
    <3> QED
      BY <1>1, <3>1, FewerFit DEF FitsBound, MemoryInv, Bounded, Bound
  <2> QED
    BY <2>1, <2>2
<1>6. Bounded'
  BY <1>1, <1>5 DEF MemoryInv, Bounded, Up, Bound
<1> QED
  BY <1>2, <1>3, <1>4, <1>6 DEF MemoryInv

(* A process starts and reads the file.                                    *)
LEMMA MemoryLoads ==
  ASSUME MemoryInv, NEW p \in Processes, Load(p)
  PROVE  MemoryInv'
<1>1. /\ ~Up(p) /\ UNCHANGED <<file, save, writer, told, unclear>> /\ alive' = alive \union {p}
      /\ mem'[p] = file /\ seen'[p] = file
      /\ \A q \in Processes \ {p} : mem'[q] = mem[q] /\ seen'[q] = seen[q]
  BY DEF Load, MemoryInv, MemoryTyped
<1>2. MemoryTyped'
  BY DEF Load, MemoryInv, MemoryTyped
<1>3. ASSUME NEW q \in Processes PROVE PendingSave(q)'
  BY <1>1 DEF MemoryInv, PendingSave, Saving, Up
<1>4. ASSUME NEW x \in Entries \ unclear' PROVE ClearEntry(x)'
  <2>1. ClearEntry(x) /\ ~Saving(p)
    BY <1>1, <1>4 DEF MemoryInv, PendingSave
  <2> QED
    BY <1>1, <2>1 DEF ClearEntry, Settled, Saving, Up
<1>5. ASSUME NEW q \in Processes PROVE FitsBound(q)'
  <2>1. CASE q = p
    <3>1. Judged(p)' = {}
      BY <1>1 DEF MemoryInv, Bounded, Judged
    <3>2. Cardinality(DOMAIN file) \in Nat /\ IsFiniteSet(DOMAIN file) /\ Cardinality(DOMAIN file) < Bound
      BY FS_CardinalityType DEF MemoryInv, Bounded
    <3>3. Bound \in Nat
      BY JudgedFinite
    <3> QED
      BY <1>1, <2>1, <3>1, <3>2, <3>3, FS_EmptySet DEF FitsBound, Bound
  <2>2. CASE q # p
    BY <1>1, <2>2, FitsStill
  <2> QED
    BY <2>1, <2>2
<1>6. Bounded'
  BY <1>1, <1>5 DEF MemoryInv, Bounded, Up, Bound
<1> QED
  BY <1>2, <1>3, <1>4, <1>6 DEF MemoryInv

(* What the writers of a process are when its save has ended.              *)
LEMMA DoneFacts ==
  ASSUME MemoryTyped, NEW p \in Processes
  PROVE  /\ Done(p) \in [Writers -> {[at |-> "rest"]} \union Writing]
         /\ \A w \in Writers : Done(p)[w].at = "judged" => Done(p)[w] = writer[w]
  BY DEF Done, MemoryTyped

(* For an entry that is clear afterwards: what the caller is told is what  *)
(* the saved entries hold.                                                 *)
LEMMA ReportedFacts ==
  ASSUME MemoryInv, NEW p \in Processes, Saving(p), NEW x \in Entries, x \notin unclear \union Undone(p)
  PROVE  (x \in Reported(p)) = (x \in DOMAIN mem[p])
<1>1. ClearEntry(x) /\ PendingSave(p) /\ Up(p) /\ (x \in DOMAIN file) = (x \in DOMAIN seen[p])
  BY DEF MemoryInv, PendingSave, Undone
<1>2. (x \in told) = (x \in DOMAIN save[p].before)
  BY <1>1 DEF ClearEntry, Settled
<1>3. save[p].op \in {"add", "remove", "tag", "clear"}
  BY DEF MemoryInv, MemoryTyped, Saving, NoSave, SaveRecord
<1>4. DOMAIN mem[p] = Effect(save[p].op, save[p].entry, DOMAIN save[p].before)
  BY <1>1 DEF PendingSave
<1> QED
  BY <1>2, <1>3, <1>4 DEF Reported, Effect

(* The file is replaced.                                                   *)
LEMMA MemorySaves ==
  ASSUME MemoryInv, NEW p \in Processes, SaveEnds(p)
  PROVE  MemoryInv'
<1>1. /\ Saving(p) /\ UNCHANGED <<alive, mem>> /\ file' = mem[p] /\ seen'[p] = mem[p] /\ ~Saving(p)'
      /\ told' = Reported(p) /\ unclear' = unclear \union Undone(p) /\ writer' = Done(p)
      /\ \A q \in Processes \ {p} : save'[q] = save[q] /\ seen'[q] = seen[q]
  BY DEF SaveEnds, MemoryInv, MemoryTyped, Saving, NoSave
<1>2. MemoryTyped'
  BY <1>1, DoneFacts DEF SaveEnds, MemoryInv, MemoryTyped
<1>3. ASSUME NEW q \in Processes PROVE PendingSave(q)'
  BY <1>1 DEF MemoryInv, PendingSave, Saving, Up
<1>4. ASSUME NEW x \in Entries \ unclear' PROVE ClearEntry(x)'
  <2>1. ClearEntry(x) /\ x \notin unclear \union Undone(p)
    BY <1>1, <1>4 DEF MemoryInv
  <2>2. (x \in told') = (x \in DOMAIN file')
    BY <1>1, <2>1, ReportedFacts
  <2>3. ASSUME NEW q \in Processes, Up(q)' PROVE (x \in Settled(q)') = (x \in DOMAIN seen'[q])
    <3>1. CASE q = p
      BY <1>1, <3>1 DEF Settled
    <3>2. CASE q # p
      BY <1>1, <2>1, <2>3, <3>2 DEF ClearEntry, Settled, Saving, Up
    <3> QED
      BY <3>1, <3>2
  <2> QED
    BY <2>2, <2>3 DEF ClearEntry
<1>5. \A w \in Writers : writer'[w].at = "judged" => writer'[w] = writer[w]
  BY <1>1, DoneFacts DEF MemoryInv
<1>6. ASSUME NEW q \in Processes PROVE FitsBound(q)'
  BY <1>1, <1>5, FitsStill
<1>7. IsFiniteSet(DOMAIN file') /\ Cardinality(DOMAIN file') < Bound
  <2>1. FitsBound(p) /\ Judged(p) \in SUBSET Writers
    BY DEF MemoryInv, Bounded, Judged
  <2> QED
    BY <1>1, <2>1, FewerFit DEF FitsBound
<1>8. Bounded'
  BY <1>1, <1>5, <1>6, <1>7 DEF MemoryInv, Bounded, Up, Bound
<1> QED
  BY <1>2, <1>3, <1>4, <1>8 DEF MemoryInv

(* The save fails; only add() takes its change back.                       *)
LEMMA MemorySaveFails ==
  ASSUME MemoryInv, NEW p \in Processes, SaveFails(p)
  PROVE  MemoryInv'
<1>0. save[p] \in SaveRecord /\ Saving(p)
  BY DEF SaveFails, MemoryInv, MemoryTyped, Saving, NoSave
<1>1. /\ UNCHANGED <<file, alive, seen, told>> /\ mem'[p] = RolledBack(p) /\ ~Saving(p)'
      /\ writer' = Done(p)
      /\ \A q \in Processes \ {p} : save'[q] = save[q] /\ mem'[q] = mem[q]
  BY DEF SaveFails, MemoryInv, MemoryTyped, Saving, NoSave
<1>2. RolledBack(p) \in Contents /\ mem' = [mem EXCEPT ![p] = RolledBack(p)]
  BY <1>0 DEF SaveFails, RolledBack, MemoryInv, MemoryTyped, SaveRecord
<1>3. MemoryTyped'
  BY <1>1, <1>2, DoneFacts DEF SaveFails, MemoryInv, MemoryTyped
<1>4. ASSUME NEW q \in Processes PROVE PendingSave(q)'
  BY <1>1 DEF MemoryInv, PendingSave, Saving, Up
<1>5. ASSUME NEW x \in Entries \ unclear' PROVE ClearEntry(x)'
  <2>1. ClearEntry(x)
    BY <1>5 DEF SaveFails, MemoryInv
  <2>2. (x \in DOMAIN RolledBack(p)) = (x \in DOMAIN save[p].before)
    BY <1>5 DEF SaveFails, RolledBack, Changed
  <2>3. ASSUME NEW q \in Processes, Up(q)' PROVE (x \in Settled(q)') = (x \in DOMAIN seen'[q])
    <3>1. CASE q = p
      BY <1>0, <1>1, <2>1, <2>2, <2>3, <3>1 DEF ClearEntry, Settled, Up
    <3>2. CASE q # p
      BY <1>1, <2>1, <2>3, <3>2 DEF ClearEntry, Settled, Saving, Up
    <3> QED
      BY <3>1, <3>2
  <2> QED
    BY <1>1, <2>1, <2>3 DEF ClearEntry
<1>6. \A w \in Writers : writer'[w].at = "judged" => writer'[w] = writer[w]
  BY <1>1, DoneFacts DEF MemoryInv
<1>7. DOMAIN RolledBack(p) \in SUBSET DOMAIN mem[p]
  BY <1>0 DEF RolledBack, MemoryInv, PendingSave, Effect
<1>8. ASSUME NEW q \in Processes PROVE FitsBound(q)'
  BY <1>1, <1>6, <1>7, FitsStill
<1>9. Bounded'
  BY <1>1, <1>6, <1>8 DEF MemoryInv, Bounded, Up, Bound
<1> QED
  BY <1>3, <1>4, <1>5, <1>9 DEF MemoryInv

(* A process is killed, before or after the file was replaced.             *)
LEMMA MemoryDies ==
  ASSUME MemoryInv, NEW p \in Processes, MemoryKill(p)
  PROVE  MemoryInv'
<1>1. /\ alive' = alive \ {p} /\ UNCHANGED told /\ mem'[p] = Nothing /\ ~Saving(p)'
      /\ \A q \in Processes \ {p} : save'[q] = save[q] /\ mem'[q] = mem[q] /\ seen'[q] = seen[q]
      /\ \/ UNCHANGED <<file, unclear>>
         \/ Saving(p) /\ file' = mem[p] /\ unclear' = unclear \union Undone(p) \union Changed(p)
  BY DEF MemoryKill, MemoryInv, MemoryTyped, Saving, NoSave
<1>2. /\ writer' \in [Writers -> {[at |-> "rest"]} \union Writing]
      /\ \A w \in Writers : writer'[w].at = "judged" => writer'[w] = writer[w] /\ writer[w].on # p
  BY DEF MemoryKill, MemoryInv, MemoryTyped
<1>3. MemoryTyped'
  BY <1>1, <1>2, NothingFacts DEF MemoryKill, MemoryInv, MemoryTyped
<1>4. ASSUME NEW q \in Processes PROVE PendingSave(q)'
  BY <1>1 DEF MemoryInv, PendingSave, Saving, Up
<1>5. ASSUME NEW x \in Entries \ unclear' PROVE ClearEntry(x)'
  <2>1. ClearEntry(x)
    BY <1>1, <1>5 DEF MemoryInv
  <2>2. ASSUME NEW q \in Processes, Up(q)' PROVE (x \in Settled(q)') = (x \in DOMAIN seen'[q])
    <3>1. q # p /\ Up(q)
      BY <1>1, <2>2 DEF Up
    <3> QED
      BY <1>1, <2>1, <3>1 DEF ClearEntry, Settled, Saving
  <2>3. (x \in told') = (x \in DOMAIN file')
    <3>1. CASE UNCHANGED file
      BY <1>1, <2>1, <3>1 DEF ClearEntry
    <3>2. CASE Saving(p) /\ file' = mem[p] /\ unclear' = unclear \union Undone(p) \union Changed(p)
      <4>1. Up(p)
        BY <3>2 DEF MemoryInv, PendingSave
      <4> QED
        BY <1>1, <1>5, <2>1, <3>2, <4>1 DEF ClearEntry, Settled, Undone, Changed
    <3> QED
      BY <1>1, <3>1, <3>2
  <2> QED
    BY <2>2, <2>3 DEF ClearEntry
<1>6. DOMAIN mem'[p] \in SUBSET DOMAIN mem[p]
  BY <1>1, NothingFacts
<1>7. ASSUME NEW q \in Processes PROVE FitsBound(q)'
  BY <1>1, <1>2, <1>6, FitsStill
<1>8. IsFiniteSet(DOMAIN file') /\ Cardinality(DOMAIN file') < Bound
  <2>1. FitsBound(p) /\ Judged(p) \in SUBSET Writers
    BY DEF MemoryInv, Bounded, Judged
  <2> QED
    BY <1>1, <2>1, FewerFit DEF FitsBound, MemoryInv, Bounded
<1>9. Bounded'
  BY <1>1, <1>2, <1>7, <1>8 DEF MemoryInv, Bounded, Up, Bound
<1> QED
  BY <1>3, <1>4, <1>5, <1>9 DEF MemoryInv

(* Every step of the Memory keeps its invariant.                           *)
LEMMA MemoryStep ==
  ASSUME MemoryInv, MemoryNext \/ UNCHANGED memoryVars
  PROVE  MemoryInv'
<1>1. CASE UNCHANGED memoryVars
  BY <1>1 DEF memoryVars, MemoryInv, MemoryTyped, Bounded, FitsBound, Judged, Bound, PendingSave,
              ClearEntry, Settled, Saving, Up
<1>2. CASE MemoryNext
  BY <1>2, MemoryJudges, MemoryAdds, MemoryLoads, MemoryChanges, MemorySaves, MemorySaveFails, MemoryDies
     DEF MemoryNext
<1> QED
  BY <1>1, <1>2

(* An empty file and no process.                                           *)
LEMMA MemoryStart ==
  ASSUME MemoryInit
  PROVE  MemoryInv
<1>1. MemoryTyped
  BY NothingFacts DEF MemoryInit, MemoryTyped
<1>2. /\ \A p \in Processes : ~Up(p) /\ ~Saving(p) /\ mem[p] = Nothing
      /\ \A w \in Writers : writer[w].at = "rest"
  BY DEF MemoryInit, Up, Saving, NoSave
<1>3. \A p \in Processes : Judged(p) = {}
  BY <1>2 DEF Judged
<1>4. Bound \in Nat /\ 0 < Bound
  BY JudgedFinite
<1>5. Bounded
  <2>1. IsFiniteSet({}) /\ Cardinality({}) = 0
    BY FS_EmptySet
  <2>2. \A p \in Processes : FitsBound(p)
    <3> SUFFICES ASSUME NEW p \in Processes PROVE FitsBound(p)
      OBVIOUS
    <3>1. DOMAIN mem[p] = {} /\ Judged(p) = {}
      BY <1>2, <1>3, NothingFacts
    <3> QED
      BY <1>4, <2>1, <3>1 DEF FitsBound
  <2>3. DOMAIN file = {}
    BY NothingFacts DEF MemoryInit
  <2> QED
    BY <1>2, <1>4, <2>1, <2>2, <2>3 DEF Bounded
<1>6. \A e \in Entries : ClearEntry(e)
  BY <1>2, NothingFacts DEF MemoryInit, ClearEntry
<1> QED
  BY <1>1, <1>2, <1>5, <1>6 DEF MemoryInv, PendingSave

-----------------------------------------------------------------------------
(* Garbage collection.  A plan that may still be applied names snapshots   *)
(* that are old, on disk, and retained by no tip of the tree, as long as   *)
(* the log is as long as it was: a snapshot written since is in no entry   *)
(* of the log, an entry made since makes the plan void, and what is        *)
(* damaged by others marks it.                                             *)

Entry == [kind : {"run_end", "checkpoint"}, parent : Nat, file : Nat]

States == {"absent", "temporary", "valid", "corrupt"}
DiskState == [state : States, old : BOOLEAN]
PlanRecord == [kind : {"plan"}, log : Nat, contents : UNION {[held -> States] : held \in SUBSET Files},
               damaged : BOOLEAN]

PlanFits ==
  /\ plan \in PlanRecord /\ plan.log <= Len(tree)
  /\ ~plan.damaged => \A n \in DOMAIN plan.contents :
       /\ n \in Files /\ disk[n].state # "absent" /\ disk[n].old
       /\ plan.log = Len(tree) => \A i \in Tips : n \notin Retained(i)

GcInv ==
  /\ tree \in Seq(Entry) /\ used \in 0..MaxFiles /\ disk \in [Files -> DiskState]
  /\ \A j \in 1..Len(tree) : tree[j].kind = "checkpoint" => tree[j].file \in 1..used
  /\ \A n \in Files : n > used => disk[n].state = "absent"
  /\ plan # NoPlan => PlanFits

(* The log refers to snapshots whose names were used.                      *)
LEMMA SnapshotsUsed ==
  ASSUME GcInv, NEW i
  PROVE  SnapshotsOn(i) \in SUBSET (1..used) /\ ValidOn(i) \in SUBSET Files
<1>1. SnapshotsOn(i) \in SUBSET (1..used)
  BY DEF GcInv, SnapshotsOn
<1>2. 1..used \subseteq Files
  BY GcAssumption DEF GcInv, Files
<1> QED
  BY <1>1, <1>2 DEF ValidOn

(* A path keeps what it retains when none of its snapshots changes.        *)
LEMMA RetainedSame ==
  ASSUME GcInv, NEW i, UNCHANGED tree, \A n \in 1..used : disk'[n].state = disk[n].state
  PROVE  Retained(i)' = Retained(i)
<1>1. SnapshotsOn(i)' = SnapshotsOn(i)
  BY DEF SnapshotsOn
<1>2. ValidOn(i)' = ValidOn(i)
  BY <1>1, SnapshotsUsed DEF ValidOn
<1> QED
  BY <1>2 DEF Retained

(* A set of snapshots that is not empty has a newest one.                  *)
LEMMA NewestExists ==
  ASSUME NEW S \in SUBSET Files, S # {}
  PROVE  \E m \in S : \A n \in S : n <= m
<1> DEFINE T == {MaxFiles - n : n \in S}
<1>1. T \subseteq Nat /\ T # {}
  <2>1. \A n \in S : MaxFiles - n \in Nat
    BY GcAssumption DEF Files
  <2> QED
    BY <2>1
<1> HIDE DEF T
<1>2. PICK t \in T : \A y \in T : <<y, t>> \notin OpToRel(<, Nat)
  BY <1>1, WFMin, NatLessThanWellFounded, Zenon
<1>3. \A y \in T : ~(y < t)
  BY <1>1, <1>2, Zenon DEF OpToRel
<1>4. PICK m \in S : t = MaxFiles - m
  BY <1>2 DEF T
<1>5. ASSUME NEW n \in S PROVE n <= m
  <2>1. MaxFiles - n \in T
    BY <1>5 DEF T
  <2>2. ~(MaxFiles - n < MaxFiles - m)
    BY <1>3, <1>4, <2>1
  <2>3. n \in Int /\ m \in Int /\ MaxFiles \in Int
    BY <1>4, <1>5, GcAssumption DEF Files
  <2> QED
    BY <2>2, <2>3
<1> QED
  BY <1>4, <1>5

(* What a plan says stays true while the log and the candidates do.        *)
LEMMA PlanStays ==
  ASSUME GcInv, plan # NoPlan, UNCHANGED <<tree, plan>>,
         \A n \in 1..used : disk'[n].state = disk[n].state,
         \A n \in Files : disk[n].state # "absent" /\ disk[n].old => disk'[n].old /\ disk'[n].state # "absent"
  PROVE  PlanFits'
<1>1. PlanFits
  BY DEF GcInv
<1>2. Tips' = Tips /\ \A i : Retained(i)' = Retained(i)
  BY RetainedSame DEF Tips
<1> QED
  BY <1>1, <1>2 DEF PlanFits

(* A longer log makes every plan void.                                     *)
LEMMA PlanVoid ==
  ASSUME GcInv, plan # NoPlan, UNCHANGED plan, NEW entry, tree' = Append(tree, entry),
         \A n \in Files : disk[n].state # "absent" /\ disk[n].old => disk'[n].old /\ disk'[n].state # "absent"
  PROVE  PlanFits'
<1>1. PlanFits /\ tree \in Seq(Entry)
  BY DEF GcInv
<1>2. Len(tree') = Len(tree) + 1 /\ Len(tree) \in Nat
  BY <1>1
<1>3. plan'.log <= Len(tree') /\ plan'.log # Len(tree')
  BY <1>1, <1>2 DEF PlanFits, PlanRecord
<1> QED
  BY <1>1, <1>3 DEF PlanFits

(* The log grows by an entry of its kind.                                  *)
LEMMA LogGrows ==
  ASSUME GcInv, NEW kind \in {"run_end", "checkpoint"}, NEW parent \in Nat, NEW n \in Nat, Appended(kind, parent, n),
         used' \in Nat, used <= used', kind = "checkpoint" => n \in 1..used'
  PROVE  /\ tree' \in Seq(Entry)
         /\ \A j \in 1..Len(tree') : tree'[j].kind = "checkpoint" => tree'[j].file \in 1..used'
<1> DEFINE entry == [kind |-> kind, parent |-> parent, file |-> n]
<1>1. entry \in Entry /\ entry.kind = kind /\ entry.file = n
  BY DEF Entry
<1>2. tree' = Append(tree, entry) /\ tree \in Seq(Entry)
  BY DEF Appended, GcInv
<1> HIDE DEF entry
<1>3. /\ tree' \in Seq(Entry) /\ Len(tree') = Len(tree) + 1 /\ tree'[Len(tree) + 1] = entry
      /\ \A j \in 1..Len(tree) : tree'[j] = tree[j]
  BY <1>1, <1>2
<1>4. ASSUME NEW j \in 1..Len(tree'), tree'[j].kind = "checkpoint" PROVE tree'[j].file \in 1..used'
  <2>1. CASE j \in 1..Len(tree)
    <3>1. tree[j].file \in 1..used
      BY <1>3, <1>4, <2>1 DEF GcInv
    <3> QED
      BY <1>3, <2>1, <3>1 DEF GcInv
  <2>2. CASE j = Len(tree) + 1
    BY <1>1, <1>3, <1>4, <2>2
  <2>3. Len(tree) \in Nat
    BY <1>2
  <2> QED
    BY <1>3, <2>1, <2>2, <2>3
<1> QED
  BY <1>3, <1>4

(* A Run, the creation of a checkpoint, damage, and time.                  *)
LEMMA GcWrites ==
  ASSUME GcInv, NEW i,
         \/ i \in Nat /\ Run(i)
         \/ i \in 1..Len(tree) /\ CreateCheckpoint(i)
         \/ i \in Files /\ Damage(i)
         \/ Days
  PROVE  GcInv'
<1>0. tree \in Seq(Entry) /\ Len(tree) \in Nat /\ used \in Nat /\ used \in 0..MaxFiles /\ disk \in [Files -> DiskState]
  BY GcAssumption DEF GcInv
<1>1. CASE i \in Nat /\ Run(i)
  <2>1. Appended("run_end", i, 0) /\ UNCHANGED <<disk, used, plan>>
    BY <1>1 DEF Run
  <2>2. /\ tree' \in Seq(Entry)
        /\ \A j \in 1..Len(tree') : tree'[j].kind = "checkpoint" => tree'[j].file \in 1..used'
    BY <1>0, <1>1, <2>1, LogGrows
  <2>3. plan' # NoPlan => PlanFits'
    BY <2>1, PlanVoid DEF Appended
  <2> QED
    BY <2>1, <2>2, <2>3 DEF GcInv
<1>2. CASE i \in 1..Len(tree) /\ CreateCheckpoint(i)
  <2>1. PICK state \in {"valid", "temporary"} : Snapshot(used + 1, state)
    BY <1>2 DEF CreateCheckpoint
  <2>2. used + 1 \in Files /\ disk[used + 1].state = "absent" /\ used < MaxFiles /\ UNCHANGED plan
    BY <1>0, <1>2, GcAssumption DEF CreateCheckpoint, Files, GcInv
  <2>3. /\ used' = used + 1 /\ disk' \in [Files -> DiskState] /\ used' \in 0..MaxFiles
        /\ \A n \in Files \ {used + 1} : disk'[n] = disk[n]
    <3>1. [state |-> state, old |-> FALSE] \in DiskState
      BY <2>1 DEF DiskState, States
    <3> QED
      BY <1>0, <2>1, <2>2, <3>1, GcAssumption DEF Snapshot
  <2>4. \A n \in Files : n > used' => disk'[n].state = "absent"
    BY <1>0, <2>3 DEF GcInv, Files
  <2>5. \A n \in Files : disk[n].state # "absent" /\ disk[n].old => disk'[n].old /\ disk'[n].state # "absent"
    BY <2>2, <2>3
  <2>6. CASE UNCHANGED tree
    <3>1. \A n \in 1..used : disk'[n].state = disk[n].state
      BY <1>0, <2>2, <2>3, GcAssumption DEF Files
    <3>2. plan' # NoPlan => PlanFits'
      BY <2>2, <2>5, <2>6, <3>1, PlanStays
    <3>3. \A j \in 1..Len(tree') : tree'[j].kind = "checkpoint" => tree'[j].file \in 1..used'
      BY <1>0, <2>3, <2>6 DEF GcInv
    <3> QED
      BY <1>0, <2>3, <2>4, <2>6, <3>2, <3>3 DEF GcInv
  <2>7. CASE Appended("checkpoint", i, used + 1)
    <3>1. plan' # NoPlan => PlanFits'
      BY <2>2, <2>5, <2>7, PlanVoid DEF Appended
    <3>2. /\ tree' \in Seq(Entry)
          /\ \A j \in 1..Len(tree') : tree'[j].kind = "checkpoint" => tree'[j].file \in 1..used'
      BY <1>0, <1>2, <2>3, <2>7, LogGrows
    <3> QED
      BY <2>3, <2>4, <3>1, <3>2 DEF GcInv
  <2> QED
    BY <1>2, <2>6, <2>7 DEF CreateCheckpoint
<1>3. CASE i \in Files /\ Damage(i)
  <2>1. /\ UNCHANGED <<tree, used>> /\ disk' \in [Files -> DiskState]
        /\ \A n \in Files \ {i} : disk'[n] = disk[n]
        /\ disk[i].state = "valid"
    <3>1. PICK state \in {"corrupt", "absent"} : disk' = [disk EXCEPT ![i].state = state]
      BY <1>3 DEF Damage
    <3> QED
      BY <1>0, <1>3, <3>1 DEF Damage, DiskState, States
  <2>2. \A n \in Files : n > used' => disk'[n].state = "absent"
    BY <2>1 DEF GcInv
  <2>3. ASSUME plan' # NoPlan PROVE PlanFits'
    <3>1. plan # NoPlan /\ PlanFits /\ plan' = [plan EXCEPT !.damaged = TRUE]
      BY <1>3, <2>3 DEF Damage, GcInv
    <3>2. plan' \in PlanRecord /\ plan'.damaged = TRUE /\ plan'.log = plan.log
      BY <3>1 DEF PlanFits, PlanRecord
    <3> QED
      BY <2>1, <3>1, <3>2 DEF PlanFits
  <2> QED
    BY <1>0, <2>1, <2>2, <2>3 DEF GcInv
<1>4. CASE Days
  <2>1. /\ UNCHANGED <<tree, used, plan>> /\ disk' \in [Files -> DiskState]
        /\ \A n \in Files : disk'[n].state = disk[n].state /\ (disk'[n].old = (disk[n].state # "absent"))
    <3>1. UNCHANGED <<tree, used, plan>> /\ disk' = [n \in Files |-> [disk[n] EXCEPT !.old = n \in OnDisk]]
      BY <1>4 DEF Days
    <3>2. ASSUME NEW n \in Files
          PROVE  /\ disk'[n] \in DiskState /\ disk'[n].state = disk[n].state
                 /\ disk'[n].old = (disk[n].state # "absent")
      <4>1. disk'[n] = [disk[n] EXCEPT !.old = n \in OnDisk] /\ disk[n] \in DiskState
        BY <1>0, <3>1
      <4>2. (n \in OnDisk) = (disk[n].state # "absent") /\ (n \in OnDisk) \in BOOLEAN
        BY DEF OnDisk
      <4> QED
        BY <4>1, <4>2 DEF DiskState
    <3> QED
      BY <3>1, <3>2
  <2>2. \A n \in 1..used : disk'[n].state = disk[n].state
    BY <1>0, <2>1, GcAssumption DEF Files
  <2>3. plan' # NoPlan => PlanFits'
    BY <2>1, <2>2, PlanStays
  <2> QED
    BY <1>0, <2>1, <2>3 DEF GcInv
<1> QED
  BY <1>1, <1>2, <1>3, <1>4

(* A new plan: what it names is eligible.                                  *)
LEMMA GcPlans ==
  ASSUME GcInv, Plan
  PROVE  GcInv'
<1> DEFINE contents == [n \in Eligible |-> disk[n].state]
<1>1. /\ plan' = [kind |-> "plan", log |-> Len(tree), contents |-> contents, damaged |-> FALSE]
      /\ UNCHANGED <<tree, disk, used>> /\ Len(tree) \in Nat
  BY DEF Plan, GcInv
<1>2. Eligible \in SUBSET Files /\ \A n \in Eligible : disk[n].state \in States
  BY DEF Eligible, OnDisk, GcInv, DiskState
<1>3. contents \in [Eligible -> States] /\ DOMAIN contents = Eligible
  BY <1>2
<1> HIDE DEF contents
<1>4. contents \in UNION {[held -> States] : held \in SUBSET Files}
  BY <1>2, <1>3
<1>5. plan' \in PlanRecord /\ plan'.log = Len(tree) /\ DOMAIN plan'.contents = Eligible
  BY <1>1, <1>3, <1>4 DEF PlanRecord
<1>6. \A i : Retained(i)' = Retained(i)
  BY <1>1, RetainedSame
<1>7. Tips' = Tips
  BY <1>1 DEF Tips
<1>8. PlanFits'
  BY <1>1, <1>2, <1>5, <1>6, <1>7 DEF PlanFits, Eligible, OnDisk
<1> QED
  BY <1>1, <1>8 DEF GcInv

(* What the application of a plan does to the disk.                        *)
LEMMA ApplyFacts ==
  ASSUME GcInv, Apply
  PROVE  /\ UNCHANGED <<tree, used>> /\ plan' = NoPlan /\ plan # NoPlan /\ disk' \in [Files -> DiskState]
         /\ \/ UNCHANGED disk
            \/ /\ plan.log = Len(tree)
               /\ \A n \in Files : \/ disk'[n] = disk[n]
                                   \/ n \in DOMAIN plan.contents /\ disk'[n].state = "absent"
<1>1. CASE UNCHANGED disk
  BY <1>1 DEF Apply, GcInv
<1>2. CASE ~UNCHANGED disk
  <2>1. /\ PlanHolds
        /\ \E gone \in SUBSET DOMAIN plan.contents :
             disk' = [n \in Files |-> IF n \in gone THEN [state |-> "absent", old |-> FALSE] ELSE disk[n]]
    BY <1>2 DEF Apply
  <2>2. PICK gone \in SUBSET DOMAIN plan.contents :
             disk' = [n \in Files |-> IF n \in gone THEN [state |-> "absent", old |-> FALSE] ELSE disk[n]]
    BY <2>1
  <2>3. [state |-> "absent", old |-> FALSE] \in DiskState /\ disk \in [Files -> DiskState]
    BY DEF DiskState, States, GcInv
  <2>4. disk' \in [Files -> DiskState]
    BY <2>2, <2>3
  <2>5. \A n \in Files : \/ disk'[n] = disk[n]
                         \/ n \in DOMAIN plan.contents /\ disk'[n].state = "absent"
    BY <2>2
  <2> QED
    BY <2>1, <2>4, <2>5 DEF Apply, PlanHolds
<1> QED
  BY <1>1, <1>2

(* Every step keeps the invariant of garbage collection.                   *)
LEMMA GcStep ==
  ASSUME GcInv, GcNext \/ UNCHANGED gcVars
  PROVE  GcInv'
<1>1. CASE UNCHANGED gcVars
  <2>1. UNCHANGED <<tree, used, disk, plan>>
    BY <1>1 DEF gcVars
  <2>2. plan' # NoPlan => PlanFits'
    BY <2>1, PlanStays
  <2> QED
    BY <2>1, <2>2 DEF GcInv
<1>2. CASE Apply
  BY <1>2, ApplyFacts DEF GcInv
<1>3. CASE Days \/ Plan \/ \E i \in 1..Len(tree) : CreateCheckpoint(i)
  BY <1>3, GcWrites, GcPlans
<1>4. CASE \E n \in Files : Damage(n)
  BY <1>4, GcWrites
<1>5. ASSUME NEW i \in (IF tree = <<>> THEN {0} ELSE 1..Len(tree)), Run(i) PROVE GcInv'
  <2>1. i \in Nat
    BY <1>5 DEF GcInv
  <2> QED
    BY <1>5, <2>1, GcWrites
<1> QED
  BY <1>1, <1>2, <1>3, <1>4, <1>5 DEF GcNext

(* An empty log and an empty directory.                                    *)
LEMMA GcStart ==
  ASSUME GcInit
  PROVE  GcInv
<1>1. [state |-> "absent", old |-> FALSE] \in DiskState
  BY DEF DiskState, States
<1>2. disk \in [Files -> DiskState] /\ \A n \in Files : disk[n].state = "absent"
  BY <1>1 DEF GcInit
<1>3. tree \in Seq(Entry) /\ Len(tree) = 0 /\ used \in 0..MaxFiles /\ plan = NoPlan
  BY GcAssumption DEF GcInit
<1> QED
  BY <1>2, <1>3 DEF GcInv

(* The newest of a set is what Max chooses.                                *)
LEMMA MaxIsNewest ==
  ASSUME NEW S \in SUBSET Files, NEW m \in S, \A n \in S : n <= m
  PROVE  Max(S) = m
<1>1. \E x \in S : \A y \in S : x >= y
  BY DEF Files
<1>2. Max(S) \in S /\ \A y \in S : Max(S) >= y
  BY <1>1 DEF Max
<1>3. \A x, y \in S : x \in Int /\ y \in Int
  BY DEF Files
<1>4. Max(S) \in Int /\ m \in Int /\ Max(S) >= m /\ Max(S) <= m
  BY <1>2, <1>3
<1> QED
  BY <1>4

(* A path loses none but snapshots that it does not retain: the newest one *)
(* is retained, however few are kept, so it is still there.                *)
LEMMA NewestKept ==
  ASSUME GcInv, Apply, ~plan.damaged, NEW i \in Tips
  PROVE  Restores(i)' = Restores(i)
<1>1. /\ UNCHANGED tree
      /\ \A n \in Files : \/ disk'[n] = disk[n]
                          \/ n \notin Retained(i) /\ disk'[n].state = "absent"
  <2>1. PlanFits
    BY ApplyFacts DEF GcInv
  <2> QED
    BY <2>1, ApplyFacts DEF PlanFits
<1>2. SnapshotsOn(i)' = SnapshotsOn(i) /\ SnapshotsOn(i) \in SUBSET Files
  <2>1. 1..used \subseteq Files
    BY GcAssumption DEF GcInv, Files
  <2> QED
    BY <1>1, <2>1, SnapshotsUsed DEF SnapshotsOn
<1>3. ValidOn(i)' \in SUBSET ValidOn(i) /\ Retained(i) \in SUBSET ValidOn(i)' /\ ValidOn(i) \in SUBSET Files
  BY <1>1, <1>2, SnapshotsUsed DEF ValidOn, Retained
<1>4. CASE ValidOn(i) = {}
  BY <1>3, <1>4 DEF Restores
<1>5. CASE ValidOn(i) # {}
  <2>1. PICK m \in ValidOn(i) : \A n \in ValidOn(i) : n <= m
    BY <1>3, <1>5, NewestExists
  <2>2. {n \in ValidOn(i) : n > m} = {}
    BY <1>3, <2>1 DEF Files
  <2>3. m \in Retained(i)
    BY <2>1, <2>2, FS_EmptySet, GcAssumption DEF Retained
  <2>4. Max(ValidOn(i)) = m
    BY <1>3, <2>1, MaxIsNewest
  <2>5. m \in ValidOn(i)' /\ ValidOn(i)' \in SUBSET Files /\ \A n \in ValidOn(i)' : n <= m
    BY <1>3, <2>1, <2>3
  <2>6. Max(ValidOn(i)') = m
    BY <2>5, MaxIsNewest
  <2> QED
    BY <1>5, <2>4, <2>5, <2>6 DEF Restores
<1> QED
  BY <1>4, <1>5

-----------------------------------------------------------------------------
(* The stores together.                                                    *)

IInv == RuntimeInv /\ MemoryInv /\ SetupInv /\ GcInv

(* A step is one of a single store and leaves the others alone.            *)
LEMMA StoreStep ==
  ASSUME [Next]_storeVars
  PROVE  /\ RuntimeNext \/ UNCHANGED runtimeVars
         /\ MemoryNext \/ UNCHANGED memoryVars
         /\ SetupNext \/ UNCHANGED setupVars
         /\ GcNext \/ UNCHANGED gcVars
  BY DEF Next, storeVars

(* Every reachable state satisfies the invariant of each store.            *)
THEOREM StoresInvariant == Spec => []IInv
<1>1. Init => IInv
  BY RuntimeStart, MemoryStart, SetupStart, GcStart DEF Init, IInv
<1>2. IInv /\ [Next]_storeVars => IInv'
  BY StoreStep, RuntimeStep, MemoryStep, SetupStep, GcStep DEF IInv
<1> QED
  BY <1>1, <1>2, PTL DEF Spec

(* evopi update and rollback: whatever fails or is killed, the pointer     *)
(* names a runtime whose installation was finished, and an update that     *)
(* cleans up has left the one it replaced, outside the three excused       *)
(* cases; for any number of processes and versions.                        *)
THEOREM RuntimeStaysUsable == Spec => []RuntimeUsable
<1>1. IInv => RuntimeUsable
  BY DEF IInv, RuntimeInv, RuntimeSound, SoundUpdate, RuntimeUsable, At, Within
<1> QED
  BY <1>1, StoresInvariant, PTL

(* MemoryStore: what callers were told is what the file holds, and the     *)
(* bound is passed by fewer entries than there are writers.                *)
THEOREM MemoryIsHonest == Spec => []MemoryHonest
<1>1. ASSUME MemoryInv PROVE MemoryHonest
  <2>1. ASSUME NEW p \in Processes PROVE Cardinality(DOMAIN mem[p]) < MaxEntries + Cardinality(Writers)
    <3>1. FitsBound(p) /\ Judged(p) \in SUBSET Writers
      BY <1>1 DEF MemoryInv, Bounded, Judged
    <3> QED
      BY <3>1, FewerFit DEF FitsBound, Bound
  <2> QED
    BY <1>1, <2>1 DEF MemoryInv, ClearEntry, MemoryHonest
<1> QED
  BY <1>1, StoresInvariant, PTL DEF IInv

(* evopi setup: a stored profile finds its key, the tested one when it     *)
(* says it is verified, outside the named exceptions: a setup cut short,   *)
(* failed behind a replacement or overlapped, and an EVOPI_HOME elsewhere. *)
THEOREM KeysFitProfile == Spec => []KeyOfProfile
<1>1. ASSUME SetupInv, SetUp, ~env.elsewhere
      PROVE  ResolvedKey # 0 /\ (profile.tested # 0 /\ ~env.key => ResolvedKey = profile.tested)
  <2>1. ~torn /\ profile # NoRecord /\ Chosen(profile) /\ \A s \in Setups : ~Storing(s) \/ InSetup(s, "saveKey")
    BY <1>1 DEF SetUp
  <2>2. Matches(credentials)
    <3>1. CASE \E s \in Setups : Storing(s)
      <4>1. PICK s \in Setups : Storing(s)
        BY <3>1
      <4>2. SetupStored(s) /\ InSetup(s, "saveKey")
        BY <1>1, <2>1, <4>1 DEF SetupInv
      <4> QED
        BY <2>1, <4>1, <4>2 DEF SetupStored
    <3>2. CASE ~\E s \in Setups : Storing(s)
      BY <1>1, <2>1, <3>2 DEF SetupInv
    <3> QED
      BY <3>1, <3>2
  <2>3. ProfileRead = profile
    BY <1>1 DEF ProfileRead
  <2> QED
    BY <2>1, <2>2, <2>3 DEF Matches, ResolvedKey, EnvironmentKey
<1>2. IInv => KeyOfProfile
  BY <1>1 DEF IInv, KeyOfProfile
<1> QED
  BY <1>2, StoresInvariant, PTL

(* gc: applying a plan leaves every tip of the tree the snapshot it would  *)
(* have restored, and deletes nothing young, for any number of snapshots   *)
(* kept, Runs and files.                                                   *)
THEOREM NewestSurvivesGc == Spec => GcKeepsNewest
<1> DEFINE Kept == (plan # NoPlan /\ plan' = NoPlan /\ ~plan.damaged) =>
                     /\ \A i \in Tips : Restores(i)' = Restores(i)
                     /\ \A n \in OnDisk : ~disk[n].old => disk'[n] = disk[n]
<1>1. ASSUME GcInv, Apply, ~plan.damaged, NEW n \in OnDisk, ~disk[n].old
      PROVE  disk'[n] = disk[n]
  <2>1. PlanFits
    BY <1>1, ApplyFacts DEF GcInv
  <2> QED
    BY <1>1, <2>1, ApplyFacts DEF PlanFits, OnDisk
<1>2. ASSUME GcInv, GcNext, plan # NoPlan, plan' = NoPlan PROVE Apply
  <2>1. PlanFits
    BY <1>2 DEF GcInv
  <2>2. [plan EXCEPT !.damaged = TRUE] # NoPlan
    BY <2>1 DEF PlanFits, PlanRecord, NoPlan
  <2>3. CASE Plan
    BY <1>2, <2>3 DEF Plan, NoPlan
  <2>4. CASE \E n \in Files : Damage(n)
    BY <1>2, <2>2, <2>4 DEF Damage
  <2> QED
    BY <1>2, <2>3, <2>4 DEF GcNext, Days, Run, CreateCheckpoint
<1>3. ASSUME GcInv, GcNext \/ UNCHANGED gcVars PROVE [Kept]_gcVars
  BY <1>1, <1>2, <1>3, NewestKept
<1>4. IInv /\ [Next]_storeVars => [Kept]_gcVars
  BY <1>3, StoreStep DEF IInv
<1> QED
  BY <1>4, StoresInvariant, PTL DEF Spec, GcKeepsNewest

=============================================================================
