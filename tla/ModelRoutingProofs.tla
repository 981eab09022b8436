-------------------------- MODULE ModelRoutingProofs --------------------------
(***************************************************************************)
(* Proofs about ModelRouting, for every number of Runs, every route, every *)
(* assignment of failure domains and every retry budget.                   *)
(*                                                                         *)
(* Two facts carry the argument.  An operation of the route never sets the *)
(* probe of a record that is not half-open, and only acquire sets one; the *)
(* operations that settle a candidate (release, record_success and         *)
(* record_failure) clear the probe of its domain.  And the router's place  *)
(* in the call determines what _acquired holds.                            *)
(***************************************************************************)
EXTENDS ModelRouting, TLAPS

FreePlaces == {"between", "select", "retry"}
AttemptPlaces == {"start", "auth", "stream"}

\* What _acquired holds at each place of the call.
Holding(r) ==
    /\ pc[r] \in FreePlaces => acquired[r] = {}
    /\ pc[r] \in AttemptPlaces => acquired[r] = {sel[r]}
    /\ pc[r] \in {"abandon", "wait"} => acquired[r] = {next[r]}
    /\ pc[r] = "failed" => acquired[r] \subseteq {sel[r]}
    /\ pc[r] = "closing" => \A c, d \in acquired[r] : c = d

\* Where the last request went, seen from each place of the call.
Came(r) ==
    /\ pc[r] = "between" => last[r] = Expected(r) /\ pass[r] = "initial"
    /\ pc[r] = "select" => last[r] = Current(r)
    /\ pc[r] = "stream" => last[r] = sel[r]
    /\ pc[r] \in {"failed", "retry"} /\ err[r].kind # "plain" => last[r] = sel[r]
    /\ pc[r] = "wait" => pending[r] \/ last[r] = next[r]
    /\ pc[r] = "start" => pending[r] \/ last[r] = sel[r]

\* Only a half-open record has a probe.
HalfOpen(cc) == \A k \in Keys : cc[k].probe => cc[k].state = "half_open"

\* A selection after a failure is made only while the budget allows another attempt.
Within(r) == /\ pc[r] = "wait" => attempt[r] <= MaxRetries
             /\ pc[r] = "select" /\ pass[r] # "initial" => attempt[r] <= MaxRetries

IInv == /\ TypeOK
        /\ HalfOpen(circ)
        /\ DomainProbeHeld
        /\ \A r \in Runs : Holding(r) /\ Came(r) /\ Within(r)

-----------------------------------------------------------------------------
(* The operations of the route                                             *)

\* Going from cc to dd sets no probe.
Quiet(cc, dd) == /\ dd \in [Keys -> Record]
                 /\ HalfOpen(dd)
                 /\ \A k \in Keys : dd[k].probe => cc[k].probe

(* Constants: the primary is a candidate, and a candidate and its domain are *)
(* two different keys of the circuits.                                       *)
LEMMA KeyFacts ==
    /\ Primary \in Candidates
    /\ \A c \in Candidates : /\ DomainOf[c] \in Domains /\ DomainOf[c] \in Keys
                             /\ c \in Keys /\ c # DomainOf[c] /\ c # None
                             /\ c \notin Domains
    /\ Threshold \in Nat /\ Threshold > 0 /\ Recovery \in Nat
<1>1. 1 \in DOMAIN Route
  BY RouteAssumption
<1>2. Primary \in Candidates
  BY <1>1 DEF Primary, Candidates
<1>3. \A c \in Candidates : /\ DomainOf[c] \in Domains /\ DomainOf[c] \in Keys
                             /\ c \in Keys /\ c # DomainOf[c] /\ c # None
                             /\ c \notin Domains
  BY RouteAssumption, DomainAssumption DEF Domains, Keys
<1> QED
  BY <1>2, <1>3, ConfigAssumption

(* A single record stays a record under every operation, and only Probed may *)
(* set its probe, on a half-open record.                                     *)
LEMMA RecordFacts ==
    ASSUME NEW rec \in Record, rec.probe => rec.state = "half_open"
    PROVE  /\ Refreshed(rec) \in Record
           /\ Refreshed(rec).probe => rec.probe
           /\ Refreshed(rec).probe => Refreshed(rec).state = "half_open"
           /\ Released(rec) \in Record /\ ~Released(rec).probe
           /\ Probed(Refreshed(rec)) \in Record
           /\ Probed(Refreshed(rec)).probe => Probed(Refreshed(rec)).state = "half_open"
  BY DEF Record, Refreshed, Released, Probed

(* Opening a record clears its probe.                                        *)
LEMMA OpenedFacts ==
    ASSUME NEW rec \in Record, NEW n \in Nat
    PROVE  Opened(rec, n) \in Record /\ ~Opened(rec, n).probe
  BY DEF Record, Opened

(* Counting a health failure keeps the record a record and clears its probe. *)
LEMMA FailedFacts ==
    ASSUME NEW rec \in Record, NEW e \in ErrorInfo
    PROVE  Failed(rec, e) \in Record /\ ~Failed(rec, e).probe
<1> DEFINE fails == IF rec.fails < Threshold THEN rec.fails + 1 ELSE Threshold
           tripped == rec.state = "half_open" \/ fails >= Threshold
           counted == [rec EXCEPT !.fails = fails, !.probe = FALSE]
           pause == Larger(IF tripped THEN Recovery ELSE 0, e.after)
<1>1. fails \in 0 .. Threshold
  BY KeyFacts DEF Record
<1>2. pause \in Nat
  BY KeyFacts DEF Larger, ErrorInfo
<1>3. counted \in Record /\ ~counted.probe
  <2> HIDE DEF fails
  <2> QED BY <1>1 DEF Record
<1>4. Failed(rec, e) = IF e.hint \/ tripped THEN Opened(counted, pause) ELSE counted
  BY DEF Failed
<1> HIDE DEF fails, tripped, counted, pause
<1> QED
  BY <1>2, <1>3, <1>4, OpenedFacts

(* circuit_snapshot sets no probe.                                           *)
LEMMA SnapshotsQuiet ==
    ASSUME NEW cc \in [Keys -> Record], HalfOpen(cc), NEW C, NEW dd \in Snapshots(cc, C)
    PROVE  Quiet(cc, dd)
<1>1. PICK f : dd = [k \in Keys |-> IF \E c \in C : f[c] = k THEN Refreshed(cc[k]) ELSE cc[k]]
  BY DEF Snapshots
<1>2. \A k \in Keys : dd[k] = Refreshed(cc[k]) \/ dd[k] = cc[k]
  BY <1>1
<1>3. \A k \in Keys : /\ Refreshed(cc[k]) \in Record
                      /\ Refreshed(cc[k]).probe => cc[k].probe
                      /\ Refreshed(cc[k]).probe => Refreshed(cc[k]).state = "half_open"
  BY RecordFacts DEF HalfOpen
<1>4. dd \in [Keys -> Record]
  BY <1>1, <1>3
<1> QED
  BY <1>2, <1>3, <1>4 DEF Quiet, HalfOpen

(* A refused acquire sets no probe.                                          *)
LEMMA RefuseQuiet ==
    ASSUME NEW cc \in [Keys -> Record], HalfOpen(cc), NEW c
    PROVE  Quiet(cc, Refuse(cc, c))
<1>1. \A k \in Keys : Refuse(cc, c)[k] = Refreshed(cc[k]) \/ Refuse(cc, c)[k] = cc[k]
  BY DEF Refuse
<1>2. \A k \in Keys : /\ Refreshed(cc[k]) \in Record
                      /\ Refreshed(cc[k]).probe => cc[k].probe
                      /\ Refreshed(cc[k]).probe => Refreshed(cc[k]).state = "half_open"
  BY RecordFacts DEF HalfOpen
<1>3. Refuse(cc, c) \in [Keys -> Record]
  BY <1>2 DEF Refuse
<1> QED
  BY <1>1, <1>2, <1>3 DEF Quiet, HalfOpen

(* release sets no probe and clears those of the domains it names.           *)
LEMMA ReleaseQuiet ==
    ASSUME NEW cc \in [Keys -> Record], HalfOpen(cc), NEW C \in SUBSET Candidates
    PROVE  /\ Quiet(cc, Release(cc, C))
           /\ \A c \in C : ~Release(cc, C)[DomainOf[c]].probe
<1>1. \A k \in Keys : Released(cc[k]) \in Record /\ ~Released(cc[k]).probe
  BY RecordFacts DEF HalfOpen
<1>2. Release(cc, C) \in [Keys -> Record]
  BY <1>1 DEF Release
<1>3. \A k \in Keys : Release(cc, C)[k] = Released(cc[k]) \/ Release(cc, C)[k] = cc[k]
  BY DEF Release
<1>4. \A c \in C : Release(cc, C)[DomainOf[c]] = Released(cc[DomainOf[c]])
  BY KeyFacts DEF Release, RecordsOf
<1> QED
  BY <1>1, <1>2, <1>3, <1>4, KeyFacts DEF Quiet, HalfOpen

(* record_success sets no probe and clears its domain's.                     *)
LEMMA CloseQuiet ==
    ASSUME NEW cc \in [Keys -> Record], HalfOpen(cc), NEW c \in Candidates
    PROVE  Quiet(cc, Close(cc, c)) /\ ~Close(cc, c)[DomainOf[c]].probe
<1>1. ClosedRecord \in Record /\ ~ClosedRecord.probe
  BY KeyFacts DEF ClosedRecord, Record
<1>2. \A k \in Keys : Close(cc, c)[k] = ClosedRecord \/ Close(cc, c)[k] = cc[k]
  BY DEF Close
<1>3. Close(cc, c) \in [Keys -> Record]
  BY <1>1 DEF Close
<1>4. Close(cc, c)[DomainOf[c]] = ClosedRecord
  BY KeyFacts DEF Close, RecordsOf
<1> QED
  BY <1>1, <1>2, <1>3, <1>4 DEF Quiet, HalfOpen

(* record_failure sets no probe and clears its domain's, whatever the error. *)
LEMMA FailQuiet ==
    ASSUME NEW cc \in [Keys -> Record], HalfOpen(cc), NEW c \in Candidates,
           NEW e \in ErrorInfo \cup {Plain}
    PROVE  Quiet(cc, Fail(cc, c, e)) /\ ~Fail(cc, c, e)[DomainOf[c]].probe
<1>1. /\ Quiet(cc, Release(cc, {c})) /\ ~Release(cc, {c})[DomainOf[c]].probe
  BY ReleaseQuiet
<1>2. CASE ~CanFailover(e)
  BY <1>1, <1>2 DEF Fail
<1>3. CASE CanFailover(e) /\ e.kind = "unavailable"
  <2> DEFINE rel == Release(cc, {c})
             open == Opened(rel[c], Larger(Recovery, e.after))
  <2>1. e \in ErrorInfo
    BY <1>3 DEF Plain, CanFailover
  <2>2. Larger(Recovery, e.after) \in Nat
    BY <2>1, KeyFacts DEF Larger, ErrorInfo
  <2>3. rel \in [Keys -> Record]
    BY <1>1 DEF Quiet
  <2>4. open \in Record /\ ~open.probe
    BY <2>2, <2>3, OpenedFacts, KeyFacts
  <2>5. Fail(cc, c, e) = [rel EXCEPT ![c] = open]
    BY <1>3 DEF Fail
  <2> HIDE DEF rel, open
  <2>6. /\ Fail(cc, c, e) \in [Keys -> Record]
        /\ \A k \in Keys : Fail(cc, c, e)[k] = IF k = c THEN open ELSE rel[k]
    BY <2>3, <2>4, <2>5
  <2>7. Quiet(cc, rel) /\ ~rel[DomainOf[c]].probe
    BY <1>1 DEF rel
  <2> QED
    BY <2>4, <2>6, <2>7, KeyFacts DEF Quiet, HalfOpen
<1>4. CASE CanFailover(e) /\ e.kind # "unavailable"
  <2> DEFINE d == DomainOf[c]
             rec == Failed(cc[d], e)
  <2>1. e \in ErrorInfo
    BY <1>4 DEF Plain, CanFailover
  <2>2. rec \in Record /\ ~rec.probe
    BY <2>1, FailedFacts, KeyFacts
  <2>3. Fail(cc, c, e) = [cc EXCEPT ![d] = rec]
    BY <1>4 DEF Fail
  <2> HIDE DEF rec
  <2>4. /\ Fail(cc, c, e) \in [Keys -> Record]
        /\ \A k \in Keys : Fail(cc, c, e)[k] = IF k = d THEN rec ELSE cc[k]
    BY <2>2, <2>3, KeyFacts
  <2> QED
    BY <2>2, <2>4, KeyFacts DEF Quiet, HalfOpen
<1> QED
  BY <1>2, <1>3, <1>4

(* acquire sets no probe but those of the candidate and its domain.          *)
LEMMA AcquireFacts ==
    ASSUME NEW cc \in [Keys -> Record], HalfOpen(cc), NEW c \in Candidates
    PROVE  /\ Acquire(cc, c) \in [Keys -> Record]
           /\ HalfOpen(Acquire(cc, c))
           /\ \A k \in Keys : Acquire(cc, c)[k].probe => cc[k].probe \/ k \in RecordsOf(c)
<1>1. \A k \in Keys : /\ Probed(Refreshed(cc[k])) \in Record
                      /\ Probed(Refreshed(cc[k])).probe
                            => Probed(Refreshed(cc[k])).state = "half_open"
  BY RecordFacts DEF HalfOpen
<1>2. \A k \in Keys : Acquire(cc, c)[k] = IF k \in RecordsOf(c)
                                          THEN Probed(Refreshed(cc[k])) ELSE cc[k]
  BY DEF Acquire
<1>3. Acquire(cc, c) \in [Keys -> Record]
  BY <1>1 DEF Acquire
<1> QED
  BY <1>1, <1>2, <1>3 DEF HalfOpen

-----------------------------------------------------------------------------
(* What a step does to the probes                                          *)

(* A step that sets no probe and takes nothing out of _acquired.             *)
LEMMA QuietStep ==
    ASSUME IInv, Quiet(circ, circ'), acquired \in [Runs -> SUBSET Candidates],
           \A r \in Runs : acquired[r] \subseteq acquired'[r]
    PROVE  HalfOpen(circ)' /\ DomainProbeHeld'
  BY DEF IInv, Quiet, HalfOpen, DomainProbeHeld, Held, Keys

(* A step that settles candidates of one Run and clears their domains.       *)
LEMMA SettleStep ==
    ASSUME IInv, Quiet(circ, circ'), NEW r \in Runs, NEW C \in SUBSET Candidates,
           acquired' = [acquired EXCEPT ![r] = @ \ C],
           \A c \in C : ~circ'[DomainOf[c]].probe
    PROVE  HalfOpen(circ)' /\ DomainProbeHeld'
<1>1. HalfOpen(circ)'
  BY DEF Quiet, HalfOpen
<1>2. ASSUME NEW d \in Domains, circ'[d].probe
      PROVE  circ'[d].state = "half_open" /\ Held(d)'
  <2>1. circ[d].probe /\ circ'[d].state = "half_open"
    BY <1>2, <1>1 DEF Quiet, HalfOpen, Keys
  <2>2. PICK q \in Runs : \E c \in acquired[q] : d \in RecordsOf(c)
    BY <2>1 DEF IInv, DomainProbeHeld, Held
  <2>3. PICK c \in acquired[q] : d \in RecordsOf(c)
    BY <2>2
  <2>4. c \in Candidates /\ acquired \in [Runs -> SUBSET Candidates]
    BY DEF IInv, TypeOK
  <2>5. d = DomainOf[c]
    BY <2>3, <2>4, KeyFacts DEF RecordsOf
  <2>6. c \notin C
    BY <2>5, <1>2
  <2>7. c \in acquired'[q]
    BY <2>4, <2>6
  <2> QED
    BY <2>1, <2>3, <2>7 DEF Held
<1> QED
  BY <1>1, <1>2 DEF DomainProbeHeld

(* A step that acquires a candidate.                                         *)
LEMMA AcquireStep ==
    ASSUME IInv, NEW r \in Runs, NEW c \in Candidates, circ' = Acquire(circ, c),
           acquired' = [acquired EXCEPT ![r] = @ \cup {c}]
    PROVE  circ' \in [Keys -> Record] /\ HalfOpen(circ)' /\ DomainProbeHeld'
<1>1. /\ circ' \in [Keys -> Record] /\ HalfOpen(circ)'
      /\ \A k \in Keys : circ'[k].probe => circ[k].probe \/ k \in RecordsOf(c)
  BY AcquireFacts DEF IInv, TypeOK, HalfOpen
<1>2. acquired \in [Runs -> SUBSET Candidates] /\ c \in acquired'[r]
  BY DEF IInv, TypeOK
<1>3. ASSUME NEW d \in Domains, circ'[d].probe  PROVE Held(d)'
  BY <1>1, <1>2, <1>3 DEF IInv, DomainProbeHeld, Held, Keys
<1> QED
  BY <1>1, <1>3 DEF DomainProbeHeld, HalfOpen, Keys

-----------------------------------------------------------------------------
(* The inductive step, one lemma per action                                *)

(* The call is over and the Run is about to be closed: types are kept.       *)
LEMMA ClosingTypes ==
    ASSUME TypeOK, NEW r \in Runs, EndCall(r), pc' = [pc EXCEPT ![r] = "closing"],
           circ' \in [Keys -> Record], acquired' \in [Runs -> SUBSET Candidates],
           UNCHANGED <<attempted, affinity, pending, last, errors>>
    PROVE  TypeOK'
<1>1. 1 \in 1 .. MaxRetries + 1
  BY ConfigAssumption
<1>2. attempt' \in [Runs -> 1 .. MaxRetries + 1]
  BY <1>1 DEF TypeOK, EndCall
<1>3. /\ sel' \in [Runs -> Candidates \cup {None}] /\ next' \in [Runs -> Candidates \cup {None}]
      /\ pass' \in [Runs -> {"initial", "first", "second"}]
      /\ err' \in [Runs -> ErrorInfo \cup {Plain}]
      /\ large' \in [Runs -> BOOLEAN]
      /\ pc' \in [Runs -> Places]
  BY DEF TypeOK, EndCall, Places
<1>4. ASSUME NEW q \in Runs
      PROVE  /\ pc'[q] \in {"start", "auth", "stream", "failed", "retry"} => sel'[q] # None
             /\ pc'[q] \in {"abandon", "wait"} => next'[q] # None
  BY DEF TypeOK, EndCall
<1> QED
  BY <1>2, <1>3, <1>4 DEF TypeOK

(* A new call starts with what the last one left.                             *)
LEMMA BeginCallStep ==
    ASSUME IInv, NEW r \in Runs, BeginCall(r)
    PROVE  IInv'
<1>1. circ' \in [Keys -> Record] /\ HalfOpen(circ)' /\ DomainProbeHeld'
  BY QuietStep DEF IInv, TypeOK, Quiet, HalfOpen, BeginCall
<1>2. TypeOK'
  BY <1>1, KeyFacts, ConfigAssumption, ErrorsAssumption
     DEF IInv, TypeOK, BeginCall, Goto, Places
<1>3. ASSUME NEW q \in Runs  PROVE Holding(q)'
  BY KeyFacts DEF IInv, TypeOK, BeginCall, Goto, Places, Holding, FreePlaces, AttemptPlaces
<1>4. ASSUME NEW q \in Runs  PROVE Came(q)'
  BY KeyFacts DEF IInv, TypeOK, BeginCall, Goto, Places, Came, Expected, Current
<1>5. ASSUME NEW q \in Runs  PROVE Within(q)'
  BY DEF IInv, TypeOK, BeginCall, Goto, Places, Within, Came
<1> QED
  BY <1>1, <1>2, <1>3, <1>4, <1>5 DEF IInv

(* A candidate is passed over: a refused acquire sets no probe.               *)
LEMMA SkipStep ==
    ASSUME IInv, NEW r \in Runs, NEW c \in Candidates, Skip(r, c)
    PROVE  IInv'
<1>1. circ' \in [Keys -> Record] /\ HalfOpen(circ)' /\ DomainProbeHeld'
  <2>1. CASE circ' = circ
    BY <2>1, QuietStep DEF IInv, TypeOK, Quiet, HalfOpen, Skip
  <2>2. CASE circ' \in Snapshots(Refuse(circ, c), {c})
    <3>1. Quiet(circ, Refuse(circ, c))
      BY RefuseQuiet DEF IInv, TypeOK
    <3>2. Quiet(Refuse(circ, c), circ')
      BY <2>2, <3>1, SnapshotsQuiet DEF Quiet
    <3>3. Quiet(circ, circ')
      BY <3>1, <3>2 DEF Quiet
    <3> QED
      BY <3>3, QuietStep DEF IInv, TypeOK, Quiet, Skip
  <2> QED
    BY <2>1, <2>2 DEF Skip
<1>2. TypeOK'
  BY <1>1, KeyFacts, ConfigAssumption, ErrorsAssumption
     DEF IInv, TypeOK, Skip, Goto, Places
<1>3. ASSUME NEW q \in Runs  PROVE Holding(q)'
  BY KeyFacts DEF IInv, TypeOK, Skip, Goto, Places, Holding, FreePlaces, AttemptPlaces
<1>4. ASSUME NEW q \in Runs  PROVE Came(q)'
  BY KeyFacts DEF IInv, TypeOK, Skip, Goto, Places, Came, Expected, Current
<1>5. ASSUME NEW q \in Runs  PROVE Within(q)'
  BY DEF IInv, TypeOK, Skip, Goto, Places, Within, Came
<1> QED
  BY <1>1, <1>2, <1>3, <1>4, <1>5 DEF IInv

(* A candidate is taken: the probe it may set is the Run's.                   *)
LEMMA TakeStep ==
    ASSUME IInv, NEW r \in Runs, NEW c \in Candidates, Take(r, c)
    PROVE  IInv'
<1>1. circ' \in [Keys -> Record] /\ HalfOpen(circ)' /\ DomainProbeHeld'
  BY AcquireStep DEF Take
<1>2. TypeOK'
  BY <1>1, KeyFacts, ConfigAssumption, ErrorsAssumption
     DEF IInv, TypeOK, Take, Goto, Places
<1>3. ASSUME NEW q \in Runs  PROVE Holding(q)'
  BY KeyFacts DEF IInv, TypeOK, Take, Goto, Places, Holding, FreePlaces, AttemptPlaces
<1>4. ASSUME NEW q \in Runs  PROVE Came(q)'
  <2>1. pending'[r] \/ c = last[r]
    BY DEF IInv, TypeOK, Take, Came, Goto
  <2> QED
    BY <2>1, KeyFacts DEF IInv, TypeOK, Take, Goto, Places, Came, Expected, Current
<1>5. ASSUME NEW q \in Runs  PROVE Within(q)'
  BY DEF IInv, TypeOK, Take, Goto, Places, Within, Came
<1> QED
  BY <1>1, <1>2, <1>3, <1>4, <1>5 DEF IInv

(* The second look at the candidates.                                         *)
LEMMA NextRoundStep ==
    ASSUME IInv, NEW r \in Runs, NextRound(r)
    PROVE  IInv'
<1>1. circ' \in [Keys -> Record] /\ HalfOpen(circ)' /\ DomainProbeHeld'
  BY QuietStep DEF IInv, TypeOK, Quiet, HalfOpen, NextRound
<1>2. TypeOK'
  BY <1>1, KeyFacts, ConfigAssumption, ErrorsAssumption
     DEF IInv, TypeOK, NextRound, Goto, Places
<1>3. ASSUME NEW q \in Runs  PROVE Holding(q)'
  BY KeyFacts DEF IInv, TypeOK, NextRound, Goto, Places, Holding, FreePlaces, AttemptPlaces
<1>4. ASSUME NEW q \in Runs  PROVE Came(q)'
  BY KeyFacts DEF IInv, TypeOK, NextRound, Goto, Places, Came, Expected, Current
<1>5. ASSUME NEW q \in Runs  PROVE Within(q)'
  BY DEF IInv, TypeOK, NextRound, Goto, Places, Within, Came
<1> QED
  BY <1>1, <1>2, <1>3, <1>4, <1>5 DEF IInv

(* No candidate can take the attempt.                                         *)
LEMMA UnavailableStep ==
    ASSUME IInv, NEW r \in Runs, Unavailable(r)
    PROVE  IInv'
<1>1. circ' \in [Keys -> Record] /\ HalfOpen(circ)' /\ DomainProbeHeld'
  <2>1. Quiet(circ, circ')
    BY SnapshotsQuiet DEF IInv, TypeOK, Unavailable
  <2> QED
    BY <2>1, QuietStep DEF IInv, TypeOK, Quiet, Unavailable
<1>2. TypeOK'
  BY <1>1, KeyFacts, ConfigAssumption, ErrorsAssumption
     DEF IInv, TypeOK, Unavailable, Goto, Places, EndCall, Plain
<1>3. ASSUME NEW q \in Runs  PROVE Holding(q)'
  BY KeyFacts
     DEF IInv, TypeOK, Unavailable, Goto, Places, Holding, FreePlaces, AttemptPlaces, EndCall, Plain
<1>4. ASSUME NEW q \in Runs  PROVE Came(q)'
  BY KeyFacts
     DEF IInv, TypeOK, Unavailable, Goto, Places, Came, Expected, Current, EndCall, Plain
<1>5. ASSUME NEW q \in Runs  PROVE Within(q)'
  BY DEF IInv, TypeOK, Unavailable, Goto, Places, Within, Came, EndCall, Plain
<1> QED
  BY <1>1, <1>2, <1>3, <1>4, <1>5 DEF IInv

(* The selection is given back.                                               *)
LEMMA AbandonStep ==
    ASSUME IInv, NEW r \in Runs, Abandon(r)
    PROVE  IInv'
<1>1. circ' \in [Keys -> Record] /\ HalfOpen(circ)' /\ DomainProbeHeld'
  <2>1. Quiet(circ, circ') /\ \A c \in {next[r]} : ~circ'[DomainOf[c]].probe
    BY ReleaseQuiet, KeyFacts DEF IInv, TypeOK, Abandon, Goto
  <2>2. acquired' = [acquired EXCEPT ![r] = @ \ {next[r]}]
    BY DEF Abandon
  <2>3. {next[r]} \in SUBSET Candidates
    BY KeyFacts DEF IInv, TypeOK, Abandon, Goto
  <2>4. circ' \in [Keys -> Record]
    BY <2>1 DEF Quiet
  <2> QED
    BY <2>1, <2>2, <2>3, <2>4, SettleStep
<1>2. TypeOK'
  <2>1. acquired' \in [Runs -> SUBSET Candidates]
    BY DEF IInv, TypeOK, Abandon
  <2>2. TypeOK
    BY DEF IInv
  <2> QED
    BY <1>1, <2>1, <2>2, ClosingTypes DEF Abandon, Goto
<1>3. ASSUME NEW q \in Runs  PROVE Holding(q)'
  BY KeyFacts
     DEF IInv, TypeOK, Abandon, Goto, Places, Holding, FreePlaces, AttemptPlaces, EndCall, Plain
<1>4. ASSUME NEW q \in Runs  PROVE Came(q)'
  BY KeyFacts
     DEF IInv, TypeOK, Abandon, Goto, Places, Came, Expected, Current, EndCall, Plain
<1>5. ASSUME NEW q \in Runs  PROVE Within(q)'
  BY DEF IInv, TypeOK, Abandon, Goto, Places, Within, Came, EndCall, Plain
<1> QED
  BY <1>1, <1>2, <1>3, <1>4, <1>5 DEF IInv

(* The hook is asked.                                                         *)
LEMMA AuthorizeStep ==
    ASSUME IInv, NEW r \in Runs, Authorize(r)
    PROVE  IInv'
<1>1. circ' \in [Keys -> Record] /\ HalfOpen(circ)' /\ DomainProbeHeld'
  <2>1. Quiet(circ, circ')
    BY SnapshotsQuiet DEF IInv, TypeOK, Authorize
  <2> QED
    BY <2>1, QuietStep DEF IInv, TypeOK, Quiet, Authorize
<1>2. TypeOK'
  BY <1>1, KeyFacts, ConfigAssumption, ErrorsAssumption
     DEF IInv, TypeOK, Authorize, Goto, Places, callVars
<1>3. ASSUME NEW q \in Runs  PROVE Holding(q)'
  BY KeyFacts
     DEF IInv, TypeOK, Authorize, Goto, Places, Holding, FreePlaces, AttemptPlaces, callVars
<1>4. ASSUME NEW q \in Runs  PROVE Came(q)'
  BY KeyFacts DEF IInv, TypeOK, Authorize, Goto, Places, Came, Expected, Current, callVars
<1>5. ASSUME NEW q \in Runs  PROVE Within(q)'
  BY DEF IInv, TypeOK, Authorize, Goto, Places, Within, Came, callVars
<1> QED
  BY <1>1, <1>2, <1>3, <1>4, <1>5 DEF IInv

(* The request goes out.                                                      *)
LEMMA RequestStep ==
    ASSUME IInv, NEW r \in Runs, Request(r)
    PROVE  IInv'
<1>1. circ' \in [Keys -> Record] /\ HalfOpen(circ)' /\ DomainProbeHeld'
  BY QuietStep DEF IInv, TypeOK, Quiet, HalfOpen, Request
<1>2. TypeOK'
  BY <1>1, KeyFacts, ConfigAssumption, ErrorsAssumption
     DEF IInv, TypeOK, Request, Goto, Places, callVars
<1>3. ASSUME NEW q \in Runs  PROVE Holding(q)'
  BY KeyFacts
     DEF IInv, TypeOK, Request, Goto, Places, Holding, FreePlaces, AttemptPlaces, callVars
<1>4. ASSUME NEW q \in Runs  PROVE Came(q)'
  BY KeyFacts DEF IInv, TypeOK, Request, Goto, Places, Came, Expected, Current, callVars
<1>5. ASSUME NEW q \in Runs  PROVE Within(q)'
  BY DEF IInv, TypeOK, Request, Goto, Places, Within, Came, callVars
<1> QED
  BY <1>1, <1>2, <1>3, <1>4, <1>5 DEF IInv

(* The hook denies the change.                                                *)
LEMMA DenyStep ==
    ASSUME IInv, NEW r \in Runs, Deny(r)
    PROVE  IInv'
<1>1. circ' \in [Keys -> Record] /\ HalfOpen(circ)' /\ DomainProbeHeld'
  <2>1. Quiet(circ, circ') /\ \A c \in {sel[r]} : ~circ'[DomainOf[c]].probe
    BY ReleaseQuiet, KeyFacts DEF IInv, TypeOK, Deny, Goto
  <2>2. acquired' = [acquired EXCEPT ![r] = @ \ {sel[r]}]
    BY DEF Deny
  <2>3. {sel[r]} \in SUBSET Candidates
    BY KeyFacts DEF IInv, TypeOK, Deny, Goto
  <2>4. circ' \in [Keys -> Record]
    BY <2>1 DEF Quiet
  <2> QED
    BY <2>1, <2>2, <2>3, <2>4, SettleStep
<1>2. TypeOK'
  BY <1>1, KeyFacts, ConfigAssumption, ErrorsAssumption
     DEF IInv, TypeOK, Deny, Goto, Places, Plain
<1>3. ASSUME NEW q \in Runs  PROVE Holding(q)'
  BY KeyFacts
     DEF IInv, TypeOK, Deny, Goto, Places, Holding, FreePlaces, AttemptPlaces, Plain
<1>4. ASSUME NEW q \in Runs  PROVE Came(q)'
  BY KeyFacts DEF IInv, TypeOK, Deny, Goto, Places, Came, Expected, Current, Plain
<1>5. ASSUME NEW q \in Runs  PROVE Within(q)'
  BY DEF IInv, TypeOK, Deny, Goto, Places, Within, Came, Plain
<1> QED
  BY <1>1, <1>2, <1>3, <1>4, <1>5 DEF IInv

(* The attempt fails.                                                         *)
LEMMA AttemptFailsStep ==
    ASSUME IInv, NEW r \in Runs, AttemptFails(r)
    PROVE  IInv'
<1>1. circ' \in [Keys -> Record] /\ HalfOpen(circ)' /\ DomainProbeHeld'
  BY QuietStep DEF IInv, TypeOK, Quiet, HalfOpen, AttemptFails
<1>2. TypeOK'
  BY <1>1, KeyFacts, ConfigAssumption, ErrorsAssumption
     DEF IInv, TypeOK, AttemptFails, Goto, Places, Plain
<1>3. ASSUME NEW q \in Runs  PROVE Holding(q)'
  BY KeyFacts
     DEF IInv, TypeOK, AttemptFails, Goto, Places, Holding, FreePlaces, AttemptPlaces, Plain
<1>4. ASSUME NEW q \in Runs  PROVE Came(q)'
  BY KeyFacts DEF IInv, TypeOK, AttemptFails, Goto, Places, Came, Expected, Current, Plain
<1>5. ASSUME NEW q \in Runs  PROVE Within(q)'
  BY DEF IInv, TypeOK, AttemptFails, Goto, Places, Within, Came, Plain
<1> QED
  BY <1>1, <1>2, <1>3, <1>4, <1>5 DEF IInv

(* The attempt is aborted.                                                    *)
LEMMA AttemptAbortedStep ==
    ASSUME IInv, NEW r \in Runs, AttemptAborted(r)
    PROVE  IInv'
<1>1. circ' \in [Keys -> Record] /\ HalfOpen(circ)' /\ DomainProbeHeld'
  <2>1. Quiet(circ, circ') /\ \A c \in {sel[r]} : ~circ'[DomainOf[c]].probe
    BY ReleaseQuiet, KeyFacts DEF IInv, TypeOK, AttemptAborted, Goto
  <2>2. acquired' = [acquired EXCEPT ![r] = @ \ {sel[r]}]
    BY DEF AttemptAborted
  <2>3. {sel[r]} \in SUBSET Candidates
    BY KeyFacts DEF IInv, TypeOK, AttemptAborted, Goto
  <2>4. circ' \in [Keys -> Record]
    BY <2>1 DEF Quiet
  <2> QED
    BY <2>1, <2>2, <2>3, <2>4, SettleStep
<1>2. TypeOK'
  <2>1. acquired' \in [Runs -> SUBSET Candidates]
    BY DEF IInv, TypeOK, AttemptAborted
  <2>2. TypeOK
    BY DEF IInv
  <2> QED
    BY <1>1, <2>1, <2>2, ClosingTypes DEF AttemptAborted, Goto
<1>3. ASSUME NEW q \in Runs  PROVE Holding(q)'
  BY KeyFacts
     DEF IInv, TypeOK, AttemptAborted, Goto, Places, Holding, FreePlaces, AttemptPlaces, EndCall, Plain
<1>4. ASSUME NEW q \in Runs  PROVE Came(q)'
  BY KeyFacts
     DEF IInv, TypeOK, AttemptAborted, Goto, Places, Came, Expected, Current, EndCall, Plain
<1>5. ASSUME NEW q \in Runs  PROVE Within(q)'
  BY DEF IInv, TypeOK, AttemptAborted, Goto, Places, Within, Came, EndCall, Plain
<1> QED
  BY <1>1, <1>2, <1>3, <1>4, <1>5 DEF IInv

(* The attempt succeeds and closes both circuits.                             *)
LEMMA SucceedStep ==
    ASSUME IInv, NEW r \in Runs, Succeed(r)
    PROVE  IInv'
<1>1. circ' \in [Keys -> Record] /\ HalfOpen(circ)' /\ DomainProbeHeld'
  <2>1. Quiet(circ, circ') /\ \A c \in {sel[r]} : ~circ'[DomainOf[c]].probe
    BY CloseQuiet, KeyFacts DEF IInv, TypeOK, Succeed, Goto
  <2>2. acquired' = [acquired EXCEPT ![r] = @ \ {sel[r]}]
    BY DEF Succeed
  <2>3. {sel[r]} \in SUBSET Candidates
    BY KeyFacts DEF IInv, TypeOK, Succeed, Goto
  <2>4. circ' \in [Keys -> Record]
    BY <2>1 DEF Quiet
  <2> QED
    BY <2>1, <2>2, <2>3, <2>4, SettleStep
<1>2. TypeOK'
  BY <1>1, KeyFacts, ConfigAssumption, ErrorsAssumption
     DEF IInv, TypeOK, Succeed, Goto, Places, EndCall, Plain
<1>3. ASSUME NEW q \in Runs  PROVE Holding(q)'
  BY KeyFacts
     DEF IInv, TypeOK, Succeed, Goto, Places, Holding, FreePlaces, AttemptPlaces, EndCall, Plain
<1>4. ASSUME NEW q \in Runs  PROVE Came(q)'
  BY KeyFacts
     DEF IInv, TypeOK, Succeed, Goto, Places, Came, Expected, Current, EndCall, Plain
<1>5. ASSUME NEW q \in Runs  PROVE Within(q)'
  BY DEF IInv, TypeOK, Succeed, Goto, Places, Within, Came, EndCall, Plain
<1> QED
  BY <1>1, <1>2, <1>3, <1>4, <1>5 DEF IInv

(* The failure is recorded between two snapshots.                             *)
LEMMA RecordFailureStep ==
    ASSUME IInv, NEW r \in Runs, RecordFailure(r)
    PROVE  IInv'
<1>1. circ' \in [Keys -> Record] /\ HalfOpen(circ)' /\ DomainProbeHeld'
  <2>1. sel[r] \in Candidates /\ err[r] \in ErrorInfo \cup {Plain}
    BY DEF IInv, TypeOK, RecordFailure, Goto
  <2>2. PICK cc \in Snapshots(circ, {sel[r]}) :
            circ' \in Snapshots(Fail(cc, sel[r], err[r]), {sel[r]})
    BY DEF RecordFailure
  <2> DEFINE dd == Fail(cc, sel[r], err[r])
  <2>3. Quiet(circ, cc)
    BY SnapshotsQuiet DEF IInv, TypeOK
  <2>4. Quiet(cc, dd) /\ ~dd[DomainOf[sel[r]]].probe
    BY <2>1, <2>3, FailQuiet DEF Quiet
  <2>5. circ' \in Snapshots(dd, {sel[r]})
    BY <2>2
  <2> HIDE DEF dd
  <2>6. Quiet(dd, circ')
    BY <2>4, <2>5, SnapshotsQuiet DEF Quiet
  <2>7. Quiet(circ, circ') /\ ~circ'[DomainOf[sel[r]]].probe
    BY <2>1, <2>3, <2>4, <2>6, KeyFacts DEF Quiet
  <2>8. acquired' = [acquired EXCEPT ![r] = @ \ {sel[r]}] /\ {sel[r]} \in SUBSET Candidates
    BY <2>1 DEF RecordFailure
  <2>9. circ' \in [Keys -> Record]
    BY <2>7 DEF Quiet
  <2> QED
    BY <2>7, <2>8, <2>9, SettleStep
<1>2. TypeOK'
  BY <1>1, KeyFacts, ConfigAssumption, ErrorsAssumption
     DEF IInv, TypeOK, RecordFailure, Goto, Places, callVars
<1>3. ASSUME NEW q \in Runs  PROVE Holding(q)'
  BY KeyFacts
     DEF IInv, TypeOK, RecordFailure, Goto, Places, Holding, FreePlaces, AttemptPlaces, callVars
<1>4. ASSUME NEW q \in Runs  PROVE Came(q)'
  BY KeyFacts
     DEF IInv, TypeOK, RecordFailure, Goto, Places, Came, Expected, Current, callVars
<1>5. ASSUME NEW q \in Runs  PROVE Within(q)'
  BY DEF IInv, TypeOK, RecordFailure, Goto, Places, Within, Came, callVars
<1> QED
  BY <1>1, <1>2, <1>3, <1>4, <1>5 DEF IInv

(* The error is raised.                                                       *)
LEMMA GiveUpStep ==
    ASSUME IInv, NEW r \in Runs, GiveUp(r)
    PROVE  IInv'
<1>1. circ' \in [Keys -> Record] /\ HalfOpen(circ)' /\ DomainProbeHeld'
  BY QuietStep DEF IInv, TypeOK, Quiet, HalfOpen, GiveUp
<1>2. TypeOK'
  BY <1>1, KeyFacts, ConfigAssumption, ErrorsAssumption
     DEF IInv, TypeOK, GiveUp, Goto, Places, EndCall, Plain
<1>3. ASSUME NEW q \in Runs  PROVE Holding(q)'
  BY KeyFacts
     DEF IInv, TypeOK, GiveUp, Goto, Places, Holding, FreePlaces, AttemptPlaces, EndCall, Plain
<1>4. ASSUME NEW q \in Runs  PROVE Came(q)'
  BY KeyFacts
     DEF IInv, TypeOK, GiveUp, Goto, Places, Came, Expected, Current, EndCall, Plain
<1>5. ASSUME NEW q \in Runs  PROVE Within(q)'
  BY DEF IInv, TypeOK, GiveUp, Goto, Places, Within, Came, EndCall, Plain
<1> QED
  BY <1>1, <1>2, <1>3, <1>4, <1>5 DEF IInv

(* The same candidate is acquired again, or refuses.                          *)
LEMMA RetrySameStep ==
    ASSUME IInv, NEW r \in Runs, RetrySame(r)
    PROVE  IInv'
<1>1. circ' \in [Keys -> Record] /\ HalfOpen(circ)' /\ DomainProbeHeld'
  <2>1. sel[r] \in Candidates
    BY DEF IInv, TypeOK, RetrySame, Goto
  <2>2. CASE circ' = Acquire(circ, sel[r]) /\ acquired' = [acquired EXCEPT ![r] = @ \cup {sel[r]}]
    BY <2>1, <2>2, AcquireStep
  <2>3. CASE circ' \in Snapshots(Refuse(circ, sel[r]), Candidates) /\ acquired' = acquired
    <3>1. Quiet(circ, Refuse(circ, sel[r]))
      BY RefuseQuiet DEF IInv, TypeOK
    <3>2. Quiet(Refuse(circ, sel[r]), circ')
      BY <2>3, <3>1, SnapshotsQuiet DEF Quiet
    <3>3. Quiet(circ, circ')
      BY <3>1, <3>2 DEF Quiet
    <3> QED
      BY <2>3, <3>3, QuietStep DEF IInv, TypeOK, Quiet
  <2> QED
    BY <2>2, <2>3 DEF RetrySame
<1>2. TypeOK'
  <2>1. CASE pc' = [pc EXCEPT ![r] = "wait"] /\ next' = [next EXCEPT ![r] = sel[r]]
             /\ acquired' = [acquired EXCEPT ![r] = @ \cup {sel[r]}]
             /\ UNCHANGED <<sel, pass, attempt, err, large>>
    BY <1>1, <2>1, KeyFacts DEF IInv, TypeOK, RetrySame, Goto, Places
  <2>2. CASE pc' = [pc EXCEPT ![r] = "closing"] /\ acquired' = acquired /\ EndCall(r)
    BY <1>1, <2>2, KeyFacts, ConfigAssumption DEF IInv, TypeOK, RetrySame, EndCall, Places
  <2> QED
    BY <2>1, <2>2 DEF RetrySame, Goto
<1>3. ASSUME NEW q \in Runs  PROVE Holding(q)'
  BY KeyFacts
     DEF IInv, TypeOK, RetrySame, Goto, Places, Holding, FreePlaces, AttemptPlaces, EndCall, Plain
<1>4. ASSUME NEW q \in Runs  PROVE Came(q)'
  BY KeyFacts
     DEF IInv, TypeOK, RetrySame, Goto, Places, Came, Expected, Current, EndCall, Plain
<1>5. ASSUME NEW q \in Runs  PROVE Within(q)'
  BY DEF IInv, TypeOK, RetrySame, Goto, Places, Within, Came, EndCall, Plain, BudgetLeft
<1> QED
  BY <1>1, <1>2, <1>3, <1>4, <1>5 DEF IInv

(* The search for another candidate begins.                                   *)
LEMMA FailoverStep ==
    ASSUME IInv, NEW r \in Runs, Failover(r)
    PROVE  IInv'
<1>1. circ' \in [Keys -> Record] /\ HalfOpen(circ)' /\ DomainProbeHeld'
  BY QuietStep DEF IInv, TypeOK, Quiet, HalfOpen, Failover
<1>2. TypeOK'
  BY <1>1, KeyFacts, ConfigAssumption, ErrorsAssumption
     DEF IInv, TypeOK, Failover, Goto, Places, CanFailover, Plain
<1>3. ASSUME NEW q \in Runs  PROVE Holding(q)'
  BY KeyFacts
     DEF IInv, TypeOK, Failover, Goto, Places, Holding, FreePlaces, AttemptPlaces, CanFailover, Plain
<1>4. ASSUME NEW q \in Runs  PROVE Came(q)'
  BY KeyFacts
     DEF IInv, TypeOK, Failover, Goto, Places, Came, Expected, Current, CanFailover, Plain
<1>5. ASSUME NEW q \in Runs  PROVE Within(q)'
  BY DEF IInv, TypeOK, Failover, Goto, Places, Within, Came, CanFailover, Plain, BudgetLeft
<1> QED
  BY <1>1, <1>2, <1>3, <1>4, <1>5 DEF IInv

(* The next attempt begins.                                                   *)
LEMMA WaitOverStep ==
    ASSUME IInv, NEW r \in Runs, WaitOver(r)
    PROVE  IInv'
<1>1. circ' \in [Keys -> Record] /\ HalfOpen(circ)' /\ DomainProbeHeld'
  BY QuietStep DEF IInv, TypeOK, Quiet, HalfOpen, WaitOver
<1>2. TypeOK'
  <2>1. attempt' \in [Runs -> 1 .. MaxRetries + 1]
    BY ConfigAssumption DEF IInv, TypeOK, WaitOver, Goto, Within
  <2> QED
    BY <1>1, <2>1 DEF IInv, TypeOK, WaitOver, Goto, Places
<1>3. ASSUME NEW q \in Runs  PROVE Holding(q)'
  BY KeyFacts
     DEF IInv, TypeOK, WaitOver, Goto, Places, Holding, FreePlaces, AttemptPlaces, Plain
<1>4. ASSUME NEW q \in Runs  PROVE Came(q)'
  BY KeyFacts DEF IInv, TypeOK, WaitOver, Goto, Places, Came, Expected, Current, Plain
<1>5. ASSUME NEW q \in Runs  PROVE Within(q)'
  BY DEF IInv, TypeOK, WaitOver, Goto, Places, Within, Came, Plain
<1> QED
  BY <1>1, <1>2, <1>3, <1>4, <1>5 DEF IInv

(* The call is cut short.                                                     *)
LEMMA CutStep ==
    ASSUME IInv, NEW r \in Runs, Cut(r)
    PROVE  IInv'
<1>1. circ' \in [Keys -> Record] /\ HalfOpen(circ)' /\ DomainProbeHeld'
  BY QuietStep DEF IInv, TypeOK, Quiet, HalfOpen, Cut
<1>2. TypeOK'
  BY <1>1, KeyFacts, ConfigAssumption, ErrorsAssumption
     DEF IInv, TypeOK, Cut, Goto, Places, EndCall, Plain
<1>3. ASSUME NEW q \in Runs  PROVE Holding(q)'
  BY KeyFacts
     DEF IInv, TypeOK, Cut, Goto, Places, Holding, FreePlaces, AttemptPlaces, EndCall, Plain
<1>4. ASSUME NEW q \in Runs  PROVE Came(q)'
  BY KeyFacts DEF IInv, TypeOK, Cut, Goto, Places, Came, Expected, Current, EndCall, Plain
<1>5. ASSUME NEW q \in Runs  PROVE Within(q)'
  BY DEF IInv, TypeOK, Cut, Goto, Places, Within, Came, EndCall, Plain
<1> QED
  BY <1>1, <1>2, <1>3, <1>4, <1>5 DEF IInv

(* The router is closed and gives back all it holds.                          *)
LEMMA CloseRunStep ==
    ASSUME IInv, NEW r \in Runs, CloseRun(r)
    PROVE  IInv'
<1>1. circ' \in [Keys -> Record] /\ HalfOpen(circ)' /\ DomainProbeHeld'
  <2>1. acquired[r] \in SUBSET Candidates /\ acquired \in [Runs -> SUBSET Candidates]
    BY DEF IInv, TypeOK
  <2>2. Quiet(circ, circ') /\ \A c \in acquired[r] : ~circ'[DomainOf[c]].probe
    BY <2>1, ReleaseQuiet DEF IInv, TypeOK, CloseRun
  <2>3. acquired' = [acquired EXCEPT ![r] = @ \ acquired[r]]
    BY <2>1 DEF CloseRun
  <2>4. circ' \in [Keys -> Record]
    BY <2>2 DEF Quiet
  <2> QED
    BY <2>1, <2>2, <2>3, <2>4, SettleStep
<1>2. TypeOK'
  BY <1>1, KeyFacts, ConfigAssumption, ErrorsAssumption
     DEF IInv, TypeOK, CloseRun, Goto, Places, EndCall, Plain
<1>3. ASSUME NEW q \in Runs  PROVE Holding(q)'
  BY KeyFacts
     DEF IInv, TypeOK, CloseRun, Goto, Places, Holding, FreePlaces, AttemptPlaces, EndCall, Plain
<1>4. ASSUME NEW q \in Runs  PROVE Came(q)'
  BY KeyFacts
     DEF IInv, TypeOK, CloseRun, Goto, Places, Came, Expected, Current, EndCall, Plain
<1>5. ASSUME NEW q \in Runs  PROVE Within(q)'
  BY DEF IInv, TypeOK, CloseRun, Goto, Places, Within, Came, EndCall, Plain
<1> QED
  BY <1>1, <1>2, <1>3, <1>4, <1>5 DEF IInv

(* A tick of the clock changes cooldowns only.                               *)
LEMMA TickStep ==
    ASSUME IInv, Tick
    PROVE  IInv'
<1>1. circ' \in [Keys -> Record]
  <2>1. ASSUME NEW rec \in Record
        PROVE  [rec EXCEPT !.left = IF @ > 0 THEN @ - 1 ELSE 0] \in Record
    BY DEF Record
  <2> QED
    BY <2>1 DEF IInv, TypeOK, Tick
<1>2. \A k \in Keys : circ'[k].probe = circ[k].probe /\ circ'[k].state = circ[k].state
  BY DEF IInv, TypeOK, Tick, Record
<1>3. HalfOpen(circ)' /\ DomainProbeHeld'
  BY <1>1, <1>2, QuietStep DEF IInv, TypeOK, Tick, Quiet, HalfOpen
<1>4. TypeOK' /\ \A r \in Runs : Holding(r)' /\ Came(r)' /\ Within(r)'
  BY <1>1 DEF IInv, TypeOK, Tick, callVars, Holding, Came, Within, Expected, Current
<1> QED
  BY <1>1, <1>3, <1>4 DEF IInv

(* IInv holds at the start, when every circuit is closed and nobody holds    *)
(* anything.                                                                 *)
LEMMA InitIInv == Init => IInv
<1> SUFFICES ASSUME Init  PROVE IInv
  OBVIOUS
<1>1. ClosedRecord \in Record /\ ~ClosedRecord.probe
  BY KeyFacts DEF ClosedRecord, Record
<1>2. TypeOK
  BY <1>1, KeyFacts, ConfigAssumption, ErrorsAssumption DEF Init, TypeOK, Places
<1>3. HalfOpen(circ) /\ DomainProbeHeld
  BY <1>1 DEF Init, HalfOpen, DomainProbeHeld, Keys
<1>4. \A r \in Runs : Holding(r) /\ Came(r) /\ Within(r)
  BY DEF Init, Holding, FreePlaces, AttemptPlaces, Came, Within, Expected, Current
<1> QED
  BY <1>2, <1>3, <1>4 DEF IInv

(* Every step of the route, of a Run and of the clock preserves IInv.        *)
LEMMA NextIInv == IInv /\ [Next]_vars => IInv'
<1> SUFFICES ASSUME IInv, [Next]_vars  PROVE IInv'
  OBVIOUS
<1>1. CASE UNCHANGED vars
  BY <1>1 DEF vars, IInv, TypeOK, HalfOpen, DomainProbeHeld, Held, Holding, Came, Within,
              Expected, Current
<1>2. CASE Tick
  BY <1>2, TickStep
<1>3. ASSUME NEW r \in Runs, Select(r)  PROVE IInv'
  BY <1>3, SkipStep, TakeStep, NextRoundStep, UnavailableStep DEF Select
<1>4. ASSUME NEW r \in Runs, Attempt(r)  PROVE IInv'
  BY <1>4, AuthorizeStep, RequestStep, DenyStep, AttemptFailsStep, AttemptAbortedStep,
     SucceedStep DEF Attempt
<1>5. ASSUME NEW r \in Runs, Recover(r)  PROVE IInv'
  BY <1>5, RecordFailureStep, GiveUpStep, RetrySameStep, FailoverStep DEF Recover
<1>6. ASSUME NEW r \in Runs, BeginCall(r) \/ Abandon(r) \/ WaitOver(r) \/ Cut(r) \/ CloseRun(r)
      PROVE  IInv'
  BY <1>6, BeginCallStep, AbandonStep, WaitOverStep, CutStep, CloseRunStep
<1> QED
  BY <1>1, <1>2, <1>3, <1>4, <1>5, <1>6 DEF Next

(* The inductive invariant holds in every state of every behaviour.          *)
THEOREM RoutingInvariance == Spec => []IInv
  BY InitIInv, NextIInv, PTL DEF Spec

(* Attempts stay within the retry budget, whatever the number of candidates, *)
(* and every variable keeps its type.                                        *)
THEOREM RoutingTypeCorrect == Spec => []TypeOK
<1>1. IInv => TypeOK
  BY DEF IInv
<1> QED
  BY <1>1, RoutingInvariance, PTL

(* A failure domain is never locked by a probe that no Run accounts for:     *)
(* record_failure, record_success, record_abandoned and close give it back   *)
(* on every way out of an attempt.                                           *)
THEOREM DomainProbesHeld == Spec => []DomainProbeHeld
<1>1. IInv => DomainProbeHeld
  BY DEF IInv
<1> QED
  BY <1>1, RoutingInvariance, PTL

(* A Run holds at most one candidate, the one of its current or next         *)
(* attempt, and none between two calls.                                      *)
THEOREM OneCandidateHeld == Spec => []HoldsAtMostOne
<1>1. IInv => HoldsAtMostOne
  <2> SUFFICES ASSUME IInv, NEW r \in Runs
               PROVE  /\ \A c, d \in acquired[r] : c = d
                      /\ pc[r] \in {"between", "retry"} => acquired[r] = {}
                      /\ pc[r] \in {"start", "auth", "stream"} => acquired[r] = {sel[r]}
    BY DEF HoldsAtMostOne
  <2>1. Holding(r) /\ pc[r] \in Places
    BY DEF IInv, TypeOK
  <2> QED
    BY <2>1 DEF Holding, Places, FreePlaces, AttemptPlaces
<1> QED
  BY <1>1, RoutingInvariance, PTL

(* The books of the route balance: the property the run model_routing        *)
(* checks.                                                                   *)
THEOREM ProbesAccounted == Spec => []ProbesHeld
<1>1. TypeOK /\ DomainProbeHeld /\ HoldsAtMostOne => ProbesHeld
  BY DEF ProbesHeld
<1> QED
  BY <1>1, RoutingTypeCorrect, DomainProbesHeld, OneCandidateHeld, PTL

(* No request reaches a candidate the Run did not use last, unless the       *)
(* before_model_failover hook approved the change.                           *)
THEOREM SwitchesAuthorized == Spec => SwitchAuthorized
<1> DEFINE Safe == \A r \in Runs : pc[r] # "stream" /\ pc'[r] = "stream"
                                   => sel[r] = last[r] \/ pc[r] = "auth"
<1>1. IInv /\ [Next]_vars => [Safe]_vars
  <2> SUFFICES ASSUME IInv, Next, NEW r \in Runs, pc[r] # "stream", pc'[r] = "stream"
               PROVE  sel[r] = last[r] \/ pc[r] = "auth"
    BY DEF vars
  <2> USE DEF Goto
  <2>1. pc \in [Runs -> Places]
    BY DEF IInv, TypeOK
  <2>2. ASSUME NEW q \in Runs, Select(q) \/ Recover(q)  PROVE FALSE
    BY <2>1, <2>2 DEF Select, Skip, Take, NextRound, Unavailable, Recover, RecordFailure,
                      GiveUp, RetrySame, Failover
  <2>3. ASSUME NEW q \in Runs, Attempt(q)  PROVE q = r /\ Request(q)
    BY <2>1, <2>3 DEF Attempt, Authorize, Request, Deny, AttemptFails, AttemptAborted, Succeed
  <2>4. ASSUME NEW q \in Runs,
               BeginCall(q) \/ Abandon(q) \/ WaitOver(q) \/ Cut(q) \/ CloseRun(q)
        PROVE  FALSE
    BY <2>1, <2>4 DEF BeginCall, Abandon, WaitOver, Cut, CloseRun
  <2>5. ~Tick
    BY DEF Tick
  <2>6. Request(r)
    BY <2>2, <2>3, <2>4, <2>5 DEF Next
  <2> QED
    BY <2>6 DEF IInv, Came, Request
<1> QED
  BY <1>1, RoutingInvariance, PTL DEF Spec, SwitchAuthorized
=============================================================================
