----------------------------- MODULE UserSetup -----------------------------
(***************************************************************************)
(* evopi setup: it tests a provider, then stores the credential and the    *)
(* profile in two files of ~/.evopi, each locked and replaced as a whole.  *)
(* The CLI reads the files of EVOPI_HOME, which may be another directory;  *)
(* a profile names the provider (and address) whose key it looks up, and   *)
(* the environment takes precedence over both files.                       *)
(***************************************************************************)
EXTENDS Integers, FiniteSets

CONSTANTS Setups, Providers, MaxSetups

ASSUME SetupAssumption == MaxSetups \in Nat

VARIABLES env,           \* the environment of the CLI, fixed
          credentials,   \* credentials.json: at most one record
          profile,       \* config.toml: the active profile
          setup,         \* per process: where it is
          setups,        \* how many setups were begun
          torn           \* a setup was cut short, failed behind the replacement of a
                         \* file, or overlapped another, and none has run undisturbed since

setupVars == <<env, credentials, profile, setup, setups, torn>>

NoRecord == [provider |-> "none"]

(* EVOPI_HOME names another directory than ~/.evopi; EVOPI_PROVIDER and    *)
(* the URL variables choose whom to call; a key variable is set            *)
Environment == [elsewhere : BOOLEAN, provider : Providers \union {"none"}, key : BOOLEAN]

Away == [at |-> "rest"]
InSetup(s, place) == setup[s].at = place
Leaves(s) == setup' = [setup EXCEPT ![s] = Away]

(* an empty or missing answer ends it here.  The key is the attempt's own  *)
Answer(s, p) ==
  /\ InSetup(s, "rest") /\ setups < MaxSetups
  /\ setups' = setups + 1
  /\ \E skip \in BOOLEAN :
       setup' = [setup EXCEPT ![s] = [at |-> IF skip THEN "load" ELSE "test", provider |-> p,
                                      key |-> setups', verified |-> FALSE, previous |-> NoRecord, alone |-> TRUE]]
  /\ UNCHANGED <<env, credentials, profile, torn>>

(* success; or failure, and then edit, save unverified or cancel           *)
TestConnection(s) ==
  /\ InSetup(s, "test")
  /\ \/ setup' = [setup EXCEPT ![s].at = "load", ![s].verified = TRUE]
     \/ setup' = [setup EXCEPT ![s].at = "load"]
     \/ Leaves(s)
  /\ UNCHANGED <<env, credentials, profile, setups, torn>>

Storing(s) == setup[s].at \in {"saveKey", "saveProfile", "restore"}
Overlaps(s) == \E t \in Setups \ {s} : Storing(t)

(* the lock of the credential store may be taken                           *)
LoadPrevious(s) ==
  /\ InSetup(s, "load")
  /\ \/ /\ setup' = [t \in Setups |->
                       IF t = s THEN [setup[s] EXCEPT !.at = "saveKey", !.previous = credentials, !.alone = ~Overlaps(s)]
                       ELSE IF Storing(t) THEN [setup[t] EXCEPT !.alone = FALSE] ELSE setup[t]]
        /\ torn' = (torn \/ Overlaps(s))
     \/ Leaves(s) /\ UNCHANGED torn
  /\ UNCHANGED <<env, credentials, profile, setups>>

Record(s) == [provider |-> setup[s].provider, key |-> setup[s].key]

(* Permissions are established before the file is replaced.  A failure     *)
(* comes before that, or behind it: removing the temporary file, releasing *)
(* the lock, or an interrupt.                                              *)
SaveCredential(s) ==
  /\ InSetup(s, "saveKey")
  /\ \/ credentials' = Record(s) /\ setup' = [setup EXCEPT ![s].at = "saveProfile"] /\ UNCHANGED torn
     \/ Leaves(s) /\ UNCHANGED <<credentials, torn>>
     \/ credentials' = Record(s) /\ Leaves(s) /\ torn' = TRUE
  /\ UNCHANGED <<env, profile, setups>>

(* every failure, behind the replacement too, restores the old credentials *)
SaveProfile(s) ==
  LET new == [provider |-> setup[s].provider, tested |-> IF setup[s].verified THEN setup[s].key ELSE 0] IN
  /\ InSetup(s, "saveProfile")
  /\ \/ profile' = new /\ Leaves(s) /\ torn' = (torn /\ ~setup[s].alone)
     \/ setup' = [setup EXCEPT ![s].at = "restore"] /\ UNCHANGED <<profile, torn>>
     \/ profile' = new /\ setup' = [setup EXCEPT ![s].at = "restore"] /\ torn' = TRUE
  /\ UNCHANGED <<env, credentials, setups>>

NothingRestored(s) == credentials
Restored(s) == setup[s].previous

(* the previous records are written back; that may fail as well            *)
RestoreCredentials(s) ==
  /\ InSetup(s, "restore")
  /\ \/ credentials' = Restored(s) /\ UNCHANGED torn
     \/ UNCHANGED credentials /\ torn' = TRUE
  /\ Leaves(s)
  /\ UNCHANGED <<env, profile, setups>>

SetupKill(s) ==
  /\ ~InSetup(s, "rest")
  /\ Leaves(s)
  /\ torn' = (torn \/ setup[s].at \in {"saveProfile", "restore"})
  /\ UNCHANGED <<env, credentials, profile, setups>>

SetupInit ==
  /\ env \in Environment
  /\ credentials = NoRecord /\ profile = NoRecord
  /\ setup = [s \in Setups |-> Away] /\ setups = 0 /\ torn = FALSE

SetupNext ==
  \E s \in Setups :
    \/ \E p \in Providers : Answer(s, p)
    \/ TestConnection(s) \/ LoadPrevious(s) \/ SaveCredential(s) \/ SaveProfile(s)
    \/ RestoreCredentials(s) \/ SetupKill(s)

(* resolve_cli_model_configuration: the profile the CLI finds, and the key *)
(* that key_for finds for the profile's identity unless another is chosen  *)
ProfileRead == IF env.elsewhere THEN NoRecord ELSE profile
Chosen(p) == env.provider \in {"none", p.provider}
EnvironmentKey == -1

ResolvedKey ==
  IF env.key THEN EnvironmentKey
  ELSE IF ProfileRead # NoRecord /\ Chosen(ProfileRead) /\ credentials.provider = ProfileRead.provider
       THEN credentials.key ELSE 0

-----------------------------------------------------------------------------
(* a profile is stored, nothing has gone wrong between the two files, no   *)
(* setup is between them, and the environment does not choose another      *)
SetUp == /\ ~torn /\ profile # NoRecord /\ Chosen(profile)
         /\ \A s \in Setups : ~Storing(s) \/ InSetup(s, "saveKey")

(* Once setup has stored a profile the CLI finds a key for it, and for a   *)
(* profile that says it is verified the key is the very one that was       *)
(* tested, whatever fails later (setup.py run_setup, resolve_cli_model_    *)
(* configuration).  Exceptions: a setup is cut short or fails behind the   *)
(* replacement of a file, or two of them overlap, until one runs           *)
(* undisturbed; EVOPI_HOME is not the directory setup writes to; and a key *)
(* of the environment replaces the tested one, as the README says.         *)
KeyOfProfile ==
  SetUp /\ ~env.elsewhere =>
    ResolvedKey # 0 /\ (profile.tested # 0 /\ ~env.key => ResolvedKey = profile.tested)

(* "Run 'evopi setup' to configure your model provider, then run 'evopi'." *)
(* (install.ps1:276): setup is enough for the CLI to find a key.  It is    *)
(* not when EVOPI_HOME, which the launcher sets to the root it installed   *)
(* to, is another directory than ~/.evopi (setup.py:205).                  *)
SetupSuffices == SetUp => ResolvedKey # 0
=============================================================================
