-------------------------- MODULE EvolutionProofs --------------------------
(***************************************************************************)
(* Proofs about the two halves of Policy evolution: the governed life of   *)
(* Policy and Plugin artifacts (ArtifactLifecycle) and the generation of a *)
(* candidate (PolicyGeneration) from the evidence of a Trace               *)
(* (TraceEvidence).                                                        *)
(*                                                                         *)
(* The life is proved for any contents, operators, workspaces and scopes.  *)
(* The invariant has three parts: the stores on disk, the commands that    *)
(* operators have under way, and the Harness.  What the second and third   *)
(* remember of the first stays true because the stores only grow.          *)
(*                                                                         *)
(* The generation is proved for any number of processes, repairs and Trace *)
(* records.  The invariant says of each process how far it is, what its    *)
(* audit holds and whether the target or a staging directory is its own; a *)
(* step of one process disturbs no other.                                  *)
(*                                                                         *)
(* The evidence is proved for any number of Runs and records of a Trace.   *)
(* The invariant says what is written, and what Discovery and a replay     *)
(* hold after the last record; a step writes one record more and each      *)
(* reader takes it.                                                        *)
(***************************************************************************)
EXTENDS ArtifactLifecycle, PolicyGeneration, FiniteSetTheorems, SequenceTheorems, WellFoundedInduction, TLAPS

(***************************************************************************)
(* ArtifactLifecycle.                                                      *)
(***************************************************************************)
-----------------------------------------------------------------------------
(* The stores.  An approval has its artifact and, for a Policy, evidence   *)
(* that did not fail; a selection names an approval or denial of a Policy. *)
Decision == [a : Artifacts, ok : BOOLEAN]
Selection == [act : {"activate", "rollback"}, ap : Nat, rep : {"none", "bound", "drifted"}]
             \union [act : {"deactivate"}]
Evidence == [d : Policies, st : Statuses]
Review == {Idle} \union [k : {"inspected", "frozen"}, d : Policies]
          \union [k : {"ran"}, d : Policies, st : Statuses]

StoresTyped ==
  /\ acts \in Seq(Decision) /\ sels \in Seq(Selection) /\ evid \in SUBSET Evidence
  /\ art \in [Artifacts -> Artifacts \union {"none", "bad"}]
  /\ src \in [policy : Policies \union {"invalid"}, plugin : Plugins] /\ rev \in Review
  /\ scope \in Scopes

SelectionsSound ==
  \A j \in DOMAIN sels : sels[j].act # "deactivate" =>
    sels[j].ap \in DOMAIN acts /\ acts[sels[j].ap].a \in Policies

StoresInv == StoresTyped /\ ApprovalBacked /\ SelectionsSound

(* A command.  What it was given or has read is a prefix, or a member, of  *)
(* what is in the stores; one that is about to record an approval has the  *)
(* artifact and, for a Policy, the evidence.                               *)
Busy(x) == x = [k |-> x.k, cmd |-> x.cmd, na |-> x.na, ns |-> x.ns]
Trusting(x) == x = [k |-> x.k, w |-> x.w, seen |-> x.seen]

PolicyIndex(i) == i \in DOMAIN acts /\ acts[i].a \in Policies

CommandSound(cmd) ==
  /\ cmd.op \in {"approve", "deny"} => cmd.e \in evid
  /\ cmd.op \in {"install", "deny_plugin"} => cmd.d \in Plugins
  /\ cmd.op = "activate" => PolicyIndex(cmd.to) /\ cmd.rep \in {"none", "bound", "drifted"}
  /\ cmd.op = "rollback" => cmd.to = 0 \/ PolicyIndex(cmd.to)

CliSound(x) ==
  \/ x = Idle
  \/ x.k = "trusting" /\ Trusting(x)
  \/ /\ x.k \in {"open", "approved", "decided"} /\ Busy(x)
     /\ x.na \in 0 .. Len(acts) /\ x.ns \in 0 .. Len(sels) /\ CommandSound(x.cmd)
     /\ x.k = "approved" => /\ x.cmd.op \in {"approve", "install"} /\ art[Target(x.cmd)] # "none"
                            /\ x.cmd.op = "approve" => x.cmd.e.st # "failed"

CliInv == cli = [c \in Clis |-> cli[c]] /\ \A c \in Clis : CliSound(cli[c])

(* The Harness, and what it is importing.  It has read a prefix of the     *)
(* stores, and its evolved Policy is the one selected in that prefix; the  *)
(* artifact that was validated is intact unless it was damaged since.      *)
Approved(d) == \E i \in DOMAIN acts : acts[i] = [a |-> d, ok |-> TRUE]

HarnessShape(x) ==
  /\ x = [st |-> x.st, na |-> x.na, ns |-> x.ns, conf |-> x.conf, plug |-> x.plug, builtin |-> x.builtin,
          ap |-> x.ap, code |-> x.code, disturbed |-> x.disturbed, fresh |-> x.fresh]
  /\ x.st \in {"idle", "running"} /\ x.na \in 0 .. Len(acts) /\ x.ns \in 0 .. Len(sels)
  /\ x.builtin \in BOOLEAN

HarnessSound(x) ==
  /\ x.ap # 0 => /\ x.ap \in 1 .. x.na /\ acts[x.ap].ok /\ acts[x.ap].a \in Policies
                 /\ LastDecision(SubSeq(acts, 1, x.na), acts[x.ap].a) = x.ap
                 /\ Active(SubSeq(sels, 1, x.ns)).ap = x.ap
  /\ \A d \in x.conf \union x.plug : Approved(d)
  /\ scope.builtin => x.builtin \/ x.ap # 0

RuntimeSound(x) == x = Down \/ (HarnessShape(x) /\ HarnessSound(x))

CodeSound == h # Down /\ h.ap # 0 => h.code = acts[h.ap].a \/ h.disturbed

StagedIntact(x) == x # Down /\ x.ap # 0 => art[acts[x.ap].a] = acts[x.ap].a \/ x.disturbed

HarnessInv == RuntimeSound(h) /\ RuntimeSound(staged) /\ CodeSound /\ StagedIntact(staged)

IInv == StoresInv /\ CliInv /\ HarnessInv

-----------------------------------------------------------------------------
(* The operators.                                                          *)

(* Some numbers up to n have a largest one.                                *)
LEMMA LargestExists ==
  ASSUME NEW n \in Nat, NEW S \in SUBSET (1 .. n), S # {}
  PROVE  \E m \in S : \A j \in S : j <= m
<1> DEFINE T == {n - j : j \in S}
<1>1. T \subseteq Nat /\ T # {}
  <2>1. \A j \in S : n - j \in Nat
    OBVIOUS
  <2> QED
    BY <2>1
<1> HIDE DEF T
<1>2. PICK t \in T : \A y \in T : <<y, t>> \notin OpToRel(<, Nat)
  BY <1>1, WFMin, NatLessThanWellFounded, Zenon
<1>3. \A y \in T : ~(y < t)
  BY <1>1, <1>2, Zenon DEF OpToRel
<1>4. PICK m \in S : t = n - m
  BY <1>2 DEF T
<1>5. ASSUME NEW j \in S PROVE j <= m
  <2>1. ~(n - j < n - m)
    BY <1>3, <1>4, <1>5 DEF T
  <2>2. j \in Int /\ m \in Int
    BY <1>4, <1>5
  <2> QED
    BY <2>1, <2>2
<1> QED
  BY <1>4, <1>5

(* The last decision about some candidates is one of the decisions, and    *)
(* about one of the candidates.                                            *)
LEMMA LastAboutIs ==
  ASSUME NEW as \in Seq(Decision), NEW S, NEW i, i = LastAbout(as, S), i # 0
  PROVE  i \in DOMAIN as /\ as[i].a \in S
<1> DEFINE is == {j \in DOMAIN as : as[j].a \in S}
<1>1. Len(as) \in Nat /\ DOMAIN as = 1 .. Len(as)
  BY LenProperties
<1>2. is # {} /\ i = CHOOSE x \in is : \A j \in is : j <= x
  BY DEF LastAbout
<1>3. is \in SUBSET (1 .. Len(as))
  BY <1>1
<1> HIDE DEF is
<1>4. \E m \in is : \A j \in is : j <= m
  BY <1>1, <1>2, <1>3, LargestExists
<1>5. i \in is
  BY <1>2, <1>4
<1> QED
  BY <1>5 DEF is

(* What _require_approval has accepted is a decision it has read.          *)
LEMMA RequiredIs ==
  ASSUME NEW as \in Seq(Decision), NEW i, i # 0, RequireApproval(as, i)
  PROVE  /\ i \in DOMAIN as /\ as[i].ok /\ LastDecision(as, as[i].a) = i
         /\ art[as[i].a] = as[i].a
<1>1. as[i].ok /\ LastDecision(as, as[i].a) = i /\ art[as[i].a] = as[i].a
  BY DEF RequireApproval, Valid
<1>2. i \in DOMAIN as
  BY <1>1, LastAboutIs DEF LastDecision
<1> QED
  BY <1>1, <1>2

(* The prefix that a process has read.                                     *)
LEMMA Prefix ==
  ASSUME NEW X, NEW s \in Seq(X), NEW n \in 0 .. Len(s)
  PROVE  /\ SubSeq(s, 1, n) \in Seq(X) /\ Len(SubSeq(s, 1, n)) = n
         /\ DOMAIN SubSeq(s, 1, n) = 1 .. n
         /\ \A i \in 1 .. n : SubSeq(s, 1, n)[i] = s[i]
<1>1. n \in Nat /\ \A i \in 1 .. n : i \in 1 .. Len(s)
  OBVIOUS
<1>2. SubSeq(s, 1, n) = [i \in 1 .. n |-> s[i]]
  BY <1>1, SMT
<1>3. \A i \in 1 .. n : s[i] \in X
  BY <1>1
<1> QED
  BY <1>1, <1>2, <1>3

(* Sequences that agree up to n have the same prefix of that length.       *)
LEMMA SamePrefix ==
  ASSUME NEW X, NEW s \in Seq(X), NEW t \in Seq(X), NEW n, n \in 0 .. Len(s), n \in 0 .. Len(t),
         \A i \in 1 .. n : t[i] = s[i]
  PROVE  SubSeq(t, 1, n) = SubSeq(s, 1, n)
<1>1. n \in Nat /\ \A i \in 1 .. n : i \in 1 .. Len(s)
  OBVIOUS
<1>2. SubSeq(s, 1, n) = [i \in 1 .. n |-> s[i]]
  BY <1>1, SMT
<1>3. SubSeq(t, 1, n) = [i \in 1 .. n |-> t[i]]
  BY <1>1, SMT
<1> QED
  BY <1>2, <1>3

(* The selection in force is the last one, or none.                        *)
LEMMA ActiveIs ==
  ASSUME NEW ss \in Seq(Selection)
  PROVE  /\ Active(ss).ap \in Nat
         /\ Active(ss).ap # 0 =>
              /\ Len(ss) \in DOMAIN ss /\ Active(ss) = ss[Len(ss)]
              /\ ss[Len(ss)].act # "deactivate"
<1>1. Len(ss) \in Nat /\ DOMAIN ss = 1 .. Len(ss)
  BY LenProperties
<1>2. CASE ss = <<>> \/ ss[Len(ss)].act = "deactivate"
  <2>1. Active(ss) = [ap |-> 0]
    BY <1>2 DEF Active, Last
  <2> QED
    BY <2>1
<1>3. CASE ss # <<>> /\ ss[Len(ss)].act # "deactivate"
  <2>1. Active(ss) = ss[Len(ss)]
    BY <1>3 DEF Active, Last
  <2>2. Len(ss) \in DOMAIN ss
    BY <1>1, <1>3, EmptySeq
  <2>3. ss[Len(ss)] \in Selection
    BY <2>2
  <2>4. ss[Len(ss)].ap \in Nat
    BY <1>3, <2>3 DEF Selection
  <2> QED
    BY <1>3, <2>1, <2>2, <2>4
<1> QED
  BY <1>2, <1>3

-----------------------------------------------------------------------------
(* The stores only grow: records are appended, evidence is added, and an   *)
(* artifact that was stored may be damaged but is not missing again.       *)
Grows ==
  /\ Len(acts) <= Len(acts') /\ \A i \in DOMAIN acts : i \in DOMAIN acts' /\ acts'[i] = acts[i]
  /\ Len(sels) <= Len(sels') /\ \A j \in DOMAIN sels : j \in DOMAIN sels' /\ sels'[j] = sels[j]
  /\ evid \subseteq evid'
  /\ \A d \in Artifacts : art[d] # "none" => art'[d] # "none"
  /\ scope' = scope

(* A command under way remembers what is still so.                         *)
LEMMA CliStays ==
  ASSUME StoresInv, StoresTyped', Grows, NEW x, CliSound(x)
  PROVE  CliSound(x)'
<1> SUFFICES ASSUME x.k \in {"open", "approved", "decided"}, Busy(x),
                    x.na \in 0 .. Len(acts), x.ns \in 0 .. Len(sels), CommandSound(x.cmd),
                    x.k = "approved" => /\ x.cmd.op \in {"approve", "install"}
                                        /\ art[Target(x.cmd)] # "none"
                                        /\ x.cmd.op = "approve" => x.cmd.e.st # "failed"
             PROVE  CliSound(x)'
  BY DEF CliSound, Trusting
<1>1. x.na \in 0 .. Len(acts') /\ x.ns \in 0 .. Len(sels')
  <2>1. Len(acts) \in Nat /\ Len(acts') \in Nat /\ Len(sels) \in Nat /\ Len(sels') \in Nat
    BY LenProperties DEF StoresInv, StoresTyped
  <2> QED
    BY <2>1 DEF Grows
<1>2. CommandSound(x.cmd)'
  BY DEF Grows, CommandSound, PolicyIndex
<1>3. x.k = "approved" => art'[Target(x.cmd)] # "none"
  <2>1. ASSUME x.k = "approved" PROVE Target(x.cmd) \in Artifacts
    <3>1. CASE x.cmd.op = "install"
      BY <3>1 DEF CommandSound, Target, Artifacts
    <3>2. CASE x.cmd.op = "approve"
      <4>1. x.cmd.e \in Evidence
        BY <3>2 DEF CommandSound, StoresInv, StoresTyped
      <4> QED
        BY <3>2, <4>1 DEF Target, Artifacts, Evidence
    <3> QED
      BY <2>1, <3>1, <3>2
  <2> QED
    BY <2>1 DEF Grows
<1> QED
  BY <1>1, <1>2, <1>3 DEF CliSound, Busy, Target

(* So does the Harness.                                                    *)
LEMMA RuntimeStays ==
  ASSUME StoresInv, StoresTyped', Grows, NEW x, RuntimeSound(x)
  PROVE  /\ RuntimeSound(x)'
         /\ x # Down /\ x.ap # 0 => x.ap \in DOMAIN acts /\ acts'[x.ap] = acts[x.ap] /\ acts[x.ap].a \in Policies
<1> SUFFICES ASSUME HarnessShape(x), HarnessSound(x)
             PROVE  /\ HarnessShape(x)' /\ HarnessSound(x)'
                    /\ x.ap # 0 => x.ap \in DOMAIN acts /\ acts'[x.ap] = acts[x.ap] /\ acts[x.ap].a \in Policies
  BY DEF RuntimeSound, Down
<1>1. Len(acts) \in Nat /\ Len(acts') \in Nat /\ Len(sels) \in Nat /\ Len(sels') \in Nat
      /\ DOMAIN acts = 1 .. Len(acts) /\ DOMAIN sels = 1 .. Len(sels)
  BY LenProperties DEF StoresInv, StoresTyped
<1>2. HarnessShape(x)'
  BY <1>1 DEF HarnessShape, Grows
<1>3. SubSeq(acts', 1, x.na) = SubSeq(acts, 1, x.na)
  <2>1. x.na \in 0 .. Len(acts) /\ x.na \in 0 .. Len(acts')
    BY <1>1 DEF HarnessShape, Grows
  <2>2. \A i \in 1 .. x.na : acts'[i] = acts[i]
    BY <1>1, <2>1 DEF Grows
  <2> QED
    BY <2>1, <2>2, SamePrefix DEF StoresInv, StoresTyped
<1>4. SubSeq(sels', 1, x.ns) = SubSeq(sels, 1, x.ns)
  <2>1. x.ns \in 0 .. Len(sels) /\ x.ns \in 0 .. Len(sels')
    BY <1>1 DEF HarnessShape, Grows
  <2>2. \A i \in 1 .. x.ns : sels'[i] = sels[i]
    BY <1>1, <2>1 DEF Grows
  <2> QED
    BY <2>1, <2>2, SamePrefix DEF StoresInv, StoresTyped
<1>5. ASSUME x.ap # 0 PROVE x.ap \in DOMAIN acts /\ acts'[x.ap] = acts[x.ap] /\ acts[x.ap].a \in Policies
  BY <1>1, <1>5 DEF HarnessShape, HarnessSound, Grows
<1>6. HarnessSound(x)'
  <2>1. \A d : Approved(d) => Approved(d)'
    BY DEF Approved, Grows
  <2> QED
    BY <1>3, <1>4, <1>5, <2>1 DEF HarnessSound, Grows
<1> QED
  BY <1>2, <1>5, <1>6

(* No artifact that is intact is damaged.                                  *)
Intact == \A d \in Artifacts : art[d] = d => art'[d] = d

LEMMA HarnessStays ==
  ASSUME StoresInv, StoresTyped', Grows, HarnessInv, h' = h, staged' = staged, Intact
  PROVE  HarnessInv'
<1>1. PICK x : x = h
  OBVIOUS
<1>2. PICK y : y = staged
  OBVIOUS
<1>3. RuntimeSound(x) /\ RuntimeSound(y) /\ StagedIntact(y)
  BY <1>1, <1>2 DEF HarnessInv
<1>4. RuntimeSound(x)' /\ RuntimeSound(y)'
  BY <1>3, RuntimeStays
<1>5. RuntimeSound(h)' /\ RuntimeSound(staged)'
  BY <1>1, <1>2, <1>4 DEF RuntimeSound, HarnessShape, HarnessSound
<1>6. CodeSound'
  <2>1. x # Down /\ x.ap # 0 => acts'[x.ap] = acts[x.ap]
    BY <1>3, RuntimeStays
  <2> QED
    BY <1>1, <2>1 DEF HarnessInv, CodeSound
<1>7. StagedIntact(staged)'
  <2>1. y # Down /\ y.ap # 0 => acts'[y.ap] = acts[y.ap] /\ acts[y.ap].a \in Artifacts
    BY <1>3, RuntimeStays DEF Artifacts
  <2> QED
    BY <1>2, <1>3, <2>1 DEF StagedIntact, Intact
<1> QED
  BY <1>5, <1>6, <1>7 DEF HarnessInv

(* Approvals and selections stay sound while the two stores are unchanged. *)
LEMMA StoresStay ==
  ASSUME StoresInv, StoresTyped', Grows, acts' = acts, sels' = sels
  PROVE  StoresInv'
<1>1. ApprovalBacked'
  <2> SUFFICES ASSUME NEW i \in DOMAIN acts, acts[i].ok
               PROVE  /\ art'[acts[i].a] # "none"
                      /\ acts[i].a \in Policies => \E e \in evid' : e.d = acts[i].a /\ e.st # "failed"
    BY DEF ApprovalBacked
  <2>1. acts[i] \in Decision
    BY DEF StoresInv, StoresTyped
  <2>2. acts[i].a \in Artifacts
    BY <2>1 DEF Decision
  <2> QED
    BY <2>2 DEF StoresInv, ApprovalBacked, Grows
<1>2. SelectionsSound'
  BY DEF StoresInv, SelectionsSound
<1> QED
  BY <1>1, <1>2 DEF StoresInv

(* A step that exchanges the command of one operator.                      *)
LEMMA CliStep1 ==
  ASSUME StoresInv, StoresTyped', Grows, CliInv, NEW c \in Clis, NEW v,
         cli' = [cli EXCEPT ![c] = v], CliSound(v)'
  PROVE  CliInv'
<1>1. cli' = [x \in Clis |-> cli'[x]]
  BY DEF CliInv
<1>2. ASSUME NEW x \in Clis PROVE CliSound(cli[x])'
  <2>1. CASE x = c
    <3>1. cli'[x] = v
      BY <2>1 DEF CliInv
    <3> QED
      BY <3>1 DEF CliSound, Busy, Trusting, CommandSound, PolicyIndex
  <2>2. CASE x # c
    <3>1. PICK y : y = cli[x]
      OBVIOUS
    <3>2. cli'[x] = y
      BY <2>2, <3>1 DEF CliInv
    <3>3. CliSound(y)
      BY <3>1 DEF CliInv
    <3>4. CliSound(y)'
      BY <3>3, CliStays
    <3> QED
      BY <3>2, <3>4 DEF CliSound, Busy, Trusting, CommandSound, PolicyIndex
  <2> QED
    BY <2>1, <2>2
<1> QED
  BY <1>1, <1>2 DEF CliInv

(* A step that leaves the commands alone.                                  *)
LEMMA CliKept ==
  ASSUME StoresInv, StoresTyped', Grows, CliInv, cli' = cli
  PROVE  CliInv'
<1>1. cli' = [x \in Clis |-> cli'[x]]
  BY DEF CliInv
<1>2. ASSUME NEW x \in Clis PROVE CliSound(cli[x])'
  <2>1. PICK y : y = cli[x]
    OBVIOUS
  <2>2. CliSound(y)
    BY <2>1 DEF CliInv
  <2>3. CliSound(y)'
    BY <2>2, CliStays
  <2> QED
    BY <2>1, <2>3 DEF CliSound, Busy, Trusting, CommandSound, PolicyIndex
<1> QED
  BY <1>1, <1>2 DEF CliInv

(* A command that ends, refused or done.                                   *)
LEMMA ExitStep ==
  ASSUME StoresInv, StoresTyped', Grows, CliInv, NEW c \in Clis, Exit(c)
  PROVE  CliInv'
<1>1. CliSound(Idle)'
  BY DEF CliSound, Idle
<1>2. PICK v : v = Idle
  OBVIOUS
<1>3. cli' = [cli EXCEPT ![c] = v] /\ CliSound(v)'
  BY <1>1, <1>2 DEF Exit, Idle
<1> QED
  BY <1>3, CliStep1

-----------------------------------------------------------------------------
(* The author and the review.                                              *)
LEMMA ReviewSteps ==
  ASSUME IInv, ReviewStep
  PROVE  IInv'
<1>1. UNCHANGED <<scope, art, acts, sels, trusts, cli, h, staged>>
  BY DEF ReviewStep, Edit, Inspect, Freeze, RunWorker, SaveEvidence
<1>2. StoresTyped
  BY DEF IInv, StoresInv
<1>3. src' \in [policy : Policies \union {"invalid"}, plugin : Plugins] /\ rev' \in Review
      /\ evid \subseteq evid' /\ evid' \in SUBSET Evidence
  <2>1. ASSUME NEW x \in Policies \union {"invalid"}, Edit("policy", x)
        PROVE  src' \in [policy : Policies \union {"invalid"}, plugin : Plugins]
    BY <1>2, <2>1 DEF StoresTyped, Edit
  <2>2. ASSUME NEW x \in Plugins, Edit("plugin", x)
        PROVE  src' \in [policy : Policies \union {"invalid"}, plugin : Plugins]
    BY <1>2, <2>2 DEF StoresTyped, Edit
  <2>3. CASE (\E x \in Policies \union {"invalid"} : Edit("policy", x)) \/ (\E x \in Plugins : Edit("plugin", x))
    <3>1. UNCHANGED <<rev, evid>>
      BY <2>3 DEF Edit
    <3> QED
      BY <1>2, <2>1, <2>2, <2>3, <3>1 DEF StoresTyped
  <2>4. CASE Inspect
    <3>1. rev' = [k |-> "inspected", d |-> src.policy] /\ src.policy \in Policies /\ UNCHANGED <<src, evid>>
      BY <2>4 DEF Inspect
    <3>2. rev' \in Review
      BY <3>1 DEF Review
    <3> QED
      BY <1>2, <3>1, <3>2 DEF StoresTyped
  <2>5. CASE Freeze
    <3>1. UNCHANGED <<src, evid>> /\ rev.k = "inspected"
      BY <2>5 DEF Freeze
    <3>2. rev \in [k : {"inspected", "frozen"}, d : Policies]
      BY <1>2, <3>1 DEF StoresTyped, Review, Idle
    <3>3. rev' = [rev EXCEPT !.k = "frozen"] \/ rev' = Idle
      BY <2>5 DEF Freeze
    <3>4. rev' \in Review
      BY <3>2, <3>3 DEF Review
    <3> QED
      BY <1>2, <3>1, <3>4 DEF StoresTyped
  <2>6. ASSUME NEW st \in Statuses, RunWorker(st)
        PROVE  UNCHANGED <<src, evid>> /\ rev' \in Review
    <3>1. UNCHANGED <<src, evid>> /\ rev.k = "frozen" /\ rev' = [k |-> "ran", d |-> rev.d, st |-> st]
      BY <2>6 DEF RunWorker
    <3>2. rev.d \in Policies
      BY <1>2, <3>1 DEF StoresTyped, Review, Idle
    <3> QED
      BY <2>6, <3>1, <3>2 DEF Review
  <2>7. CASE SaveEvidence
    <3>1. UNCHANGED src /\ rev.k = "ran" /\ rev' = Idle
      BY <2>7 DEF SaveEvidence
    <3>2. rev.d \in Policies /\ rev.st \in Statuses
      BY <1>2, <3>1 DEF StoresTyped, Review, Idle
    <3>3. PICK st \in Statuses : evid' = evid \union {[d |-> rev.d, st |-> st]}
      <4>1. "failed" \in Statuses
        BY DEF Statuses
      <4> QED
        BY <2>7, <3>2, <4>1 DEF SaveEvidence
    <3>4. [d |-> rev.d, st |-> st] \in Evidence
      BY <3>2 DEF Evidence
    <3> QED
      BY <1>2, <3>1, <3>3, <3>4 DEF StoresTyped, Review
  <2> QED
    BY <1>2, <2>3, <2>4, <2>5, <2>6, <2>7 DEF ReviewStep, StoresTyped
<1>4. StoresTyped'
  BY <1>1, <1>2, <1>3 DEF StoresTyped
<1>5. Grows
  <2>1. Len(acts) \in Nat /\ Len(sels) \in Nat
    BY <1>2, LenProperties DEF StoresTyped
  <2> QED
    BY <1>1, <1>3, <2>1 DEF Grows
<1> QED
  BY <1>1, <1>4, <1>5, StoresStay, CliKept, HarnessStays DEF IInv, Intact

-----------------------------------------------------------------------------
(* The operators' commands.                                                *)

(* A step that leaves decisions, selections, evidence and artifacts alone. *)
LEMMA QuietStores ==
  ASSUME StoresInv, UNCHANGED <<scope, src, rev, evid, art, acts, sels>>
  PROVE  StoresTyped' /\ Grows
<1>1. Len(acts) \in Nat /\ Len(sels) \in Nat
  BY LenProperties DEF StoresInv, StoresTyped
<1>2. Grows
  BY <1>1 DEF Grows
<1> QED
  BY <1>2 DEF StoresInv, StoresTyped

(* What an operator may ask for is about evidence, decisions and Plugin    *)
(* candidates that exist.                                                  *)
LEMMA CommandsSound ==
  ASSUME StoresInv, NEW cmd \in Commands \union PluginCommands
  PROVE  CommandSound(cmd)
<1>1. CASE cmd \in {[op |-> "approve", e |-> e, accept |-> b] : e \in evid, b \in BOOLEAN}
           \/ cmd \in {[op |-> "deny", e |-> e] : e \in evid}
  <2>1. cmd.op \in {"approve", "deny"} /\ cmd.e \in evid
    BY <1>1
  <2> QED
    BY <2>1 DEF CommandSound
<1>2. CASE cmd \in {[op |-> "activate", to |-> i, rep |-> r] :
                      i \in {j \in DOMAIN acts : acts[j].a \in Policies}, r \in {"none", "bound", "drifted"}}
  <2>1. cmd.op = "activate" /\ PolicyIndex(cmd.to) /\ cmd.rep \in {"none", "bound", "drifted"}
    BY <1>2 DEF PolicyIndex
  <2> QED
    BY <2>1 DEF CommandSound
<1>3. CASE cmd \in {[op |-> "rollback", to |-> i] : i \in {0} \union {j \in DOMAIN acts : acts[j].a \in Policies}}
  <2>1. cmd.op = "rollback" /\ (cmd.to = 0 \/ PolicyIndex(cmd.to))
    BY <1>3 DEF PolicyIndex
  <2> QED
    BY <2>1 DEF CommandSound
<1>4. CASE cmd = [op |-> "deactivate", to |-> 0] \/ cmd = [op |-> "remove"]
  BY <1>4 DEF CommandSound
<1>5. CASE cmd \in {[op |-> "install", d |-> src.plugin, trust |-> b, w |-> w] : b \in BOOLEAN, w \in Workspaces}
           \/ cmd = [op |-> "deny_plugin", d |-> src.plugin]
  <2>1. cmd.op \in {"install", "deny_plugin"} /\ cmd.d = src.plugin
    BY <1>5
  <2>2. src.plugin \in Plugins
    BY DEF StoresInv, StoresTyped
  <2> QED
    BY <2>1, <2>2 DEF CommandSound
<1> QED
  BY <1>1, <1>2, <1>3, <1>4, <1>5 DEF Commands, PluginCommands

(* A command begins, dies, or writes the trusted workspaces.               *)
LEMMA QuietCommands ==
  ASSUME IInv, NEW c \in Clis,
         \/ \E cmd \in Commands \union PluginCommands : Open(c, cmd)
         \/ CliDies(c) \/ ReadTrust(c) \/ SaveTrust(c)
  PROVE  IInv'
<1>1. UNCHANGED <<scope, src, rev, evid, art, acts, sels, h, staged>>
  BY DEF Open, CliDies, ReadTrust, SaveTrust
<1>2. StoresTyped' /\ Grows
  BY <1>1, QuietStores DEF IInv
<1>3. StoresInv' /\ HarnessInv'
  BY <1>1, <1>2, StoresStay, HarnessStays DEF IInv, Intact
<1>4. CliInv'
  <2>1. CASE CliDies(c) \/ SaveTrust(c)
    <3>1. Exit(c)
      BY <2>1 DEF CliDies, SaveTrust
    <3> QED
      BY <1>2, <3>1, ExitStep DEF IInv
  <2>2. CASE ReadTrust(c)
    <3>1. PICK v : v = [k |-> "trusting", w |-> cli[c].cmd.w, seen |-> trusts]
      OBVIOUS
    <3>2. cli' = [cli EXCEPT ![c] = v]
      BY <2>2, <3>1 DEF ReadTrust, IInv, CliInv
    <3>3. v.k = "trusting" /\ Trusting(v)
      BY <3>1 DEF Trusting
    <3>4. CliSound(v)'
      BY <3>3 DEF CliSound, Trusting
    <3> QED
      BY <1>2, <3>2, <3>4, CliStep1 DEF IInv
  <2>3. ASSUME NEW cmd \in Commands \union PluginCommands, Open(c, cmd) PROVE CliInv'
    <3>1. PICK v : v = [k |-> "open", cmd |-> cmd, na |-> Len(acts), ns |-> Len(sels)]
      OBVIOUS
    <3>2. cli' = [cli EXCEPT ![c] = v]
      BY <2>3, <3>1 DEF Open
    <3>3. CommandSound(v.cmd)
      BY <3>1, CommandsSound DEF IInv
    <3>4. v.k = "open" /\ Busy(v) /\ v.na \in 0 .. Len(acts) /\ v.ns \in 0 .. Len(sels)
      <4>1. Len(acts) \in Nat /\ Len(sels) \in Nat
        BY LenProperties DEF IInv, StoresInv, StoresTyped
      <4> QED
        BY <3>1, <4>1 DEF Busy
    <3>5. CliSound(v)
      BY <3>3, <3>4 DEF CliSound
    <3>6. CliSound(v)'
      BY <1>2, <3>5, CliStays DEF IInv
    <3> QED
      BY <1>2, <3>2, <3>6, CliStep1 DEF IInv
  <2> QED
    BY <2>1, <2>2, <2>3
<1> QED
  BY <1>3, <1>4 DEF IInv

(* What is known of a command that is open or approved.                    *)
LEMMA BusyCommand ==
  ASSUME IInv, NEW c \in Clis, cli[c].k \in {"open", "approved", "decided"}
  PROVE  /\ Busy(cli[c]) /\ cli[c].na \in 0 .. Len(acts) /\ cli[c].ns \in 0 .. Len(sels)
         /\ CommandSound(cli[c].cmd)
         /\ cli[c].k = "approved" => /\ cli[c].cmd.op \in {"approve", "install"}
                                     /\ art[Target(cli[c].cmd)] # "none"
                                     /\ cli[c].cmd.op = "approve" => cli[c].cmd.e.st # "failed"
<1>1. CliSound(cli[c])
  BY DEF IInv, CliInv
<1>2. cli[c] # Idle /\ cli[c].k # "trusting"
  BY DEF Idle
<1> QED
  BY <1>1, <1>2 DEF CliSound

(* What Step does to a command.                                            *)
LEMMA StepIs ==
  ASSUME NEW c \in Clis, NEW k, Busy(cli[c]), Step(c, k)
  PROVE  cli' = [cli EXCEPT ![c] = [k |-> k, cmd |-> cli[c].cmd, na |-> cli[c].na, ns |-> cli[c].ns]]
<1>1. PICK y : y = cli[c]
  OBVIOUS
<1>2. cli' = [cli EXCEPT ![c] = [y EXCEPT !.k = k]]
  BY <1>1 DEF Step
<1>3. y = [k |-> y.k, cmd |-> y.cmd, na |-> y.na, ns |-> y.ns]
  BY <1>1 DEF Busy
<1>4. [y EXCEPT !.k = k] = [k |-> k, cmd |-> y.cmd, na |-> y.na, ns |-> y.ns]
  BY <1>3
<1> QED
  BY <1>1, <1>2, <1>4

(* The artifact is stored before the approval is recorded.                 *)
LEMMA StoreSteps ==
  ASSUME IInv, NEW c \in Clis, ApprovePolicy(c) \/ InstallPlugin(c)
  PROVE  IInv'
<1>1. UNCHANGED <<scope, src, rev, evid, acts, sels, h, staged>> /\ cli[c].k = "open"
  BY DEF ApprovePolicy, InstallPlugin
<1>2. CommandSound(cli[c].cmd) /\ Busy(cli[c])
  BY <1>1, BusyCommand
<1>3. CASE Exit(c) /\ UNCHANGED art
  <2>1. StoresTyped' /\ Grows
    BY <1>1, <1>3, QuietStores DEF IInv
  <2> QED
    BY <1>1, <1>3, <2>1, StoresStay, HarnessStays, ExitStep DEF IInv, Intact
<1>4. ASSUME NEW d \in Artifacts, art' = [art EXCEPT ![d] = d], Step(c, "approved"), d = Target(cli[c].cmd),
             cli[c].cmd.op \in {"approve", "install"},
             cli[c].cmd.op = "approve" => cli[c].cmd.e.st # "failed"
      PROVE  IInv'
  <2>1. d # "none"
    BY LifecycleAssumption
  <2>2. art' \in [Artifacts -> Artifacts \union {"none", "bad"}] /\ art'[d] # "none"
        /\ (\A x \in Artifacts : art[x] # "none" => art'[x] # "none") /\ Intact
    BY <1>4, <2>1 DEF IInv, StoresInv, StoresTyped, Intact
  <2>3. StoresTyped'
    BY <1>1, <2>2 DEF IInv, StoresInv, StoresTyped
  <2>4. Grows
    <3>1. Len(acts) \in Nat /\ Len(sels) \in Nat
      BY LenProperties DEF IInv, StoresInv, StoresTyped
    <3> QED
      BY <1>1, <2>2, <3>1 DEF Grows
  <2>5. PICK v : v = [k |-> "approved", cmd |-> cli[c].cmd, na |-> cli[c].na, ns |-> cli[c].ns]
    OBVIOUS
  <2>6. cli' = [cli EXCEPT ![c] = v]
    BY <1>2, <1>4, <2>5, StepIs
  <2>7. v.k = "approved" /\ Busy(v) /\ v.cmd = cli[c].cmd /\ v.na = cli[c].na /\ v.ns = cli[c].ns
    BY <2>5 DEF Busy
  <2>8. v.na \in 0 .. Len(acts') /\ v.ns \in 0 .. Len(sels') /\ CommandSound(v.cmd)'
    <3>1. v.na \in 0 .. Len(acts) /\ v.ns \in 0 .. Len(sels) /\ CommandSound(v.cmd)
      BY <1>1, <2>7, BusyCommand
    <3> QED
      BY <1>1, <3>1 DEF CommandSound, PolicyIndex
  <2>9. art'[Target(v.cmd)] # "none" /\ v.cmd.op \in {"approve", "install"}
        /\ (v.cmd.op = "approve" => v.cmd.e.st # "failed")
    BY <1>4, <2>2, <2>7
  <2>10. CliSound(v)'
    BY <2>7, <2>8, <2>9 DEF CliSound, Busy, Target
  <2> QED
    BY <1>1, <2>2, <2>3, <2>4, <2>6, <2>10, CliStep1, StoresStay, HarnessStays DEF IInv
<1>5. CASE ApprovePolicy(c)
  <2>1. cli[c].cmd.op = "approve" /\ cli[c].cmd.e \in Evidence
    BY <1>2, <1>5 DEF ApprovePolicy, CommandSound, IInv, StoresInv, StoresTyped
  <2>2. cli[c].cmd.e.d \in Artifacts /\ Target(cli[c].cmd) = cli[c].cmd.e.d
    BY <2>1 DEF Evidence, Artifacts, Target
  <2>3. Approvable(cli[c].cmd.e, cli[c].cmd.accept) => cli[c].cmd.e.st # "failed"
    BY DEF Approvable
  <2> QED
    BY <1>3, <1>4, <1>5, <2>1, <2>2, <2>3 DEF ApprovePolicy
<1>6. CASE InstallPlugin(c)
  <2>1. cli[c].cmd.op = "install" /\ cli[c].cmd.d \in Artifacts /\ Target(cli[c].cmd) = cli[c].cmd.d
    BY <1>2, <1>6 DEF InstallPlugin, CommandSound, Artifacts, Target
  <2> QED
    BY <1>3, <1>4, <1>6, <2>1 DEF InstallPlugin
<1> QED
  BY <1>5, <1>6

(* A decision is appended that, if it is an approval, has what it needs.   *)
LEMMA DecisionAdded ==
  ASSUME IInv, NEW r \in Decision, acts' = Append(acts, r),
         UNCHANGED <<scope, src, rev, evid, art, sels, h, staged>>,
         r.ok => /\ art[r.a] # "none"
                 /\ r.a \in Policies => \E e \in evid : e.d = r.a /\ e.st # "failed"
  PROVE  StoresInv' /\ Grows /\ HarnessInv'
<1>1. acts \in Seq(Decision) /\ Len(acts) \in Nat /\ DOMAIN acts = 1 .. Len(acts) /\ Len(sels) \in Nat
  BY LenProperties DEF IInv, StoresInv, StoresTyped
<1>2. acts' \in Seq(Decision) /\ Len(acts') = Len(acts) + 1 /\ DOMAIN acts' = 1 .. Len(acts) + 1
      /\ acts'[Len(acts) + 1] = r /\ \A i \in DOMAIN acts : acts'[i] = acts[i]
  BY <1>1, AppendProperties
<1>3. StoresTyped'
  BY <1>2 DEF IInv, StoresInv, StoresTyped
<1>4. Grows
  BY <1>1, <1>2 DEF Grows
<1>5. ApprovalBacked'
  <2>1. \A i \in DOMAIN acts' : i \in DOMAIN acts \/ acts'[i] = r
    BY <1>1, <1>2
  <2> QED
    BY <1>2, <2>1 DEF IInv, StoresInv, ApprovalBacked
<1>6. SelectionsSound'
  BY <1>4 DEF IInv, StoresInv, SelectionsSound, Grows
<1>7. HarnessInv'
  BY <1>3, <1>4, HarnessStays DEF IInv, Intact
<1> QED
  BY <1>3, <1>4, <1>5, <1>6, <1>7 DEF StoresInv

(* A selection of a decided Policy, or of none, is appended.               *)
LEMMA SelectionAdded ==
  ASSUME IInv, NEW r \in Selection, sels' = Append(sels, r),
         UNCHANGED <<scope, src, rev, evid, art, acts, h, staged>>,
         r.act # "deactivate" => PolicyIndex(r.ap)
  PROVE  StoresInv' /\ Grows /\ HarnessInv'
<1>1. sels \in Seq(Selection) /\ Len(sels) \in Nat /\ DOMAIN sels = 1 .. Len(sels) /\ Len(acts) \in Nat
  BY LenProperties DEF IInv, StoresInv, StoresTyped
<1>2. sels' \in Seq(Selection) /\ Len(sels') = Len(sels) + 1 /\ DOMAIN sels' = 1 .. Len(sels) + 1
      /\ sels'[Len(sels) + 1] = r /\ \A i \in DOMAIN sels : sels'[i] = sels[i]
  BY <1>1, AppendProperties
<1>3. StoresTyped'
  BY <1>2 DEF IInv, StoresInv, StoresTyped
<1>4. Grows
  BY <1>1, <1>2 DEF Grows
<1>5. ApprovalBacked'
  BY DEF IInv, StoresInv, ApprovalBacked
<1>6. SelectionsSound'
  <2>1. \A i \in DOMAIN sels' : i \in DOMAIN sels \/ sels'[i] = r
    BY <1>1, <1>2
  <2> QED
    BY <1>2, <2>1 DEF IInv, StoresInv, SelectionsSound, PolicyIndex
<1>7. HarnessInv'
  BY <1>3, <1>4, HarnessStays DEF IInv, Intact
<1> QED
  BY <1>3, <1>4, <1>5, <1>6, <1>7 DEF StoresInv

(* The approval is recorded.                                               *)
LEMMA ApprovalStep ==
  ASSUME IInv, NEW c \in Clis, AddApproval(c)
  PROVE  IInv'
<1> DEFINE r == [a |-> Target(cli[c].cmd), ok |-> TRUE]
<1>1. cli[c].k = "approved" /\ acts' = Append(acts, r) /\ UNCHANGED <<scope, src, rev, evid, art, sels, h, staged>>
  BY DEF AddApproval, Decided
<1>2. /\ Busy(cli[c]) /\ CommandSound(cli[c].cmd) /\ cli[c].cmd.op \in {"approve", "install"}
      /\ art[Target(cli[c].cmd)] # "none" /\ (cli[c].cmd.op = "approve" => cli[c].cmd.e.st # "failed")
      /\ cli[c].na \in 0 .. Len(acts) /\ cli[c].ns \in 0 .. Len(sels)
  BY <1>1, BusyCommand
<1>3. Target(cli[c].cmd) \in Artifacts
      /\ (Target(cli[c].cmd) \in Policies => \E e \in evid : e.d = Target(cli[c].cmd) /\ e.st # "failed")
  <2>1. CASE cli[c].cmd.op = "install"
    BY <1>2, <2>1, LifecycleAssumption DEF CommandSound, Target, Artifacts
  <2>2. CASE cli[c].cmd.op = "approve"
    <3>1. cli[c].cmd.e \in Evidence /\ cli[c].cmd.e \in evid
      BY <1>2, <2>2 DEF CommandSound, IInv, StoresInv, StoresTyped
    <3>2. Target(cli[c].cmd) = cli[c].cmd.e.d
      BY <2>2 DEF Target
    <3> QED
      BY <1>2, <2>2, <3>1, <3>2 DEF Evidence, Artifacts
  <2> QED
    BY <1>2, <2>1, <2>2
<1>4. r \in Decision /\ r.a = Target(cli[c].cmd)
  BY <1>3 DEF Decision
<1> HIDE DEF r
<1>5. PICK q : q = r
  OBVIOUS
<1>6. StoresInv' /\ Grows /\ HarnessInv'
  BY <1>1, <1>2, <1>3, <1>4, <1>5, DecisionAdded
<1>7. CASE Exit(c)
  BY <1>6, <1>7, ExitStep DEF IInv, StoresInv
<1>8. CASE Step(c, "decided")
  <2>1. PICK v : v = [k |-> "decided", cmd |-> cli[c].cmd, na |-> cli[c].na, ns |-> cli[c].ns]
    OBVIOUS
  <2>2. cli' = [cli EXCEPT ![c] = v]
    BY <1>2, <1>8, <2>1, StepIs
  <2>3. v.k = "decided" /\ Busy(v) /\ v.cmd = cli[c].cmd /\ v.na = cli[c].na /\ v.ns = cli[c].ns
    BY <2>1 DEF Busy
  <2>4. CliSound(v)
    BY <1>2, <2>3 DEF CliSound
  <2>5. CliSound(v)'
    BY <1>6, <2>4, CliStays DEF IInv, StoresInv
  <2> QED
    BY <1>6, <2>2, <2>5, CliStep1 DEF IInv, StoresInv
<1> QED
  BY <1>7, <1>8 DEF AddApproval

(* A denial is recorded.                                                   *)
LEMMA DenialSteps ==
  ASSUME IInv, NEW c \in Clis, DenyPolicy(c) \/ DenyPlugin(c) \/ RemovePlugin(c)
  PROVE  IInv'
<1>1. ASSUME NEW a \in Artifacts, AddDenial(c, a) PROVE IInv'
  <2>1. PICK r : r = [a |-> a, ok |-> FALSE]
    OBVIOUS
  <2>2. r \in Decision /\ ~r.ok
    BY <2>1 DEF Decision
  <2>3. acts' = Append(acts, r) /\ Exit(c) /\ UNCHANGED <<scope, src, rev, evid, art, sels, h, staged>>
    BY <1>1, <2>1 DEF AddDenial, Decided
  <2>4. StoresInv' /\ Grows /\ HarnessInv'
    BY <2>2, <2>3, DecisionAdded
  <2> QED
    BY <2>3, <2>4, ExitStep DEF IInv, StoresInv
<1>2. cli[c].k = "open"
  BY DEF DenyPolicy, DenyPlugin, RemovePlugin, AddDenial
<1>3. CommandSound(cli[c].cmd) /\ cli[c].na \in 0 .. Len(acts)
  BY <1>2, BusyCommand
<1>4. CASE DenyPolicy(c)
  <2>1. cli[c].cmd.e \in Evidence
    BY <1>3, <1>4 DEF DenyPolicy, CommandSound, IInv, StoresInv, StoresTyped
  <2>2. cli[c].cmd.e.d \in Artifacts
    BY <2>1 DEF Evidence, Artifacts
  <2> QED
    BY <1>1, <1>4, <2>2 DEF DenyPolicy
<1>5. CASE DenyPlugin(c)
  <2>1. cli[c].cmd.d \in Artifacts
    BY <1>3, <1>5 DEF DenyPlugin, CommandSound, Artifacts
  <2> QED
    BY <1>1, <1>5, <2>1 DEF DenyPlugin
<1>6. CASE RemovePlugin(c)
  <2>1. PICK i : i = LastAbout(ReadActs(c), Plugins)
    OBVIOUS
  <2>2. i # 0 /\ AddDenial(c, ReadActs(c)[i].a)
    BY <1>6, <2>1 DEF RemovePlugin
  <2>3. ReadActs(c) \in Seq(Decision)
    BY <1>3, Prefix DEF ReadActs, IInv, StoresInv, StoresTyped
  <2>4. ReadActs(c)[i].a \in Plugins
    BY <2>1, <2>2, <2>3, LastAboutIs
  <2> QED
    BY <1>1, <2>2, <2>4 DEF Artifacts
<1> QED
  BY <1>4, <1>5, <1>6

(* A selection is recorded.                                                *)
LEMMA SelectionSteps ==
  ASSUME IInv, NEW c \in Clis, Activate(c) \/ Deactivate(c) \/ Rollback(c)
  PROVE  IInv'
<1>1. ASSUME NEW r \in Selection, Select(c, r), r.act # "deactivate" => PolicyIndex(r.ap)
      PROVE  IInv'
  <2>1. sels' = Append(sels, r) /\ Exit(c) /\ UNCHANGED <<scope, src, rev, evid, art, acts, h, staged>>
    BY <1>1 DEF Select
  <2>2. StoresInv' /\ Grows /\ HarnessInv'
    BY <1>1, <2>1, SelectionAdded
  <2> QED
    BY <2>1, <2>2, ExitStep DEF IInv, StoresInv
<1>2. cli[c].k = "open"
  BY DEF Activate, Deactivate, Rollback, Select
<1>3. CommandSound(cli[c].cmd) /\ cli[c].na \in 0 .. Len(acts) /\ cli[c].ns \in 0 .. Len(sels)
  BY <1>2, BusyCommand
<1>4. \A i : PolicyIndex(i) => i \in Nat
  BY LenProperties DEF PolicyIndex, IInv, StoresInv, StoresTyped
<1>5. CASE Activate(c)
  <2>1. PICK r : r = [act |-> "activate", ap |-> cli[c].cmd.to, rep |-> cli[c].cmd.rep]
    OBVIOUS
  <2>2. PolicyIndex(cli[c].cmd.to) /\ cli[c].cmd.rep \in {"none", "bound", "drifted"} /\ Select(c, r)
    BY <1>3, <1>5, <2>1 DEF Activate, CommandSound
  <2>3. r \in Selection /\ PolicyIndex(r.ap)
    BY <1>4, <2>1, <2>2 DEF Selection
  <2> QED
    BY <1>1, <2>2, <2>3
<1>6. CASE Deactivate(c)
  <2>1. PICK r : r = [act |-> "deactivate"]
    OBVIOUS
  <2>2. r \in Selection /\ r.act = "deactivate" /\ Select(c, r)
    BY <1>6, <2>1 DEF Selection, Deactivate
  <2> QED
    BY <1>1, <2>2
<1>7. CASE Rollback(c)
  <2>1. PICK cur : cur = Active(ReadSels(c)).ap
    OBVIOUS
  <2>2. PICK prev : prev = Previous(ReadActs(c), ReadSels(c), cur)
    OBVIOUS
  <2>3. PICK to : to = IF cli[c].cmd.to # 0 THEN cli[c].cmd.to ELSE prev
    OBVIOUS
  <2>4. PICK r : r = [act |-> "rollback", ap |-> to, rep |-> "none"]
    OBVIOUS
  <2>5. cli[c].cmd.op = "rollback" /\ to # 0 /\ Select(c, r)
    BY <1>7, <2>1, <2>2, <2>3, <2>4 DEF Rollback
  <2>6. PolicyIndex(to)
    <3>1. CASE cli[c].cmd.to # 0
      BY <1>3, <2>3, <2>5, <3>1 DEF CommandSound
    <3>2. CASE cli[c].cmd.to = 0
      <4>1. to = prev
        BY <2>3, <3>2
      <4>2. ReadSels(c) \in Seq(Selection) /\ DOMAIN ReadSels(c) = 1 .. cli[c].ns
            /\ \A j \in 1 .. cli[c].ns : ReadSels(c)[j] = sels[j]
        BY <1>3, Prefix DEF ReadSels, IInv, StoresInv, StoresTyped
      <4>3. PICK j \in DOMAIN ReadSels(c) : ReadSels(c)[j].act # "deactivate" /\ ReadSels(c)[j].ap = to
        <5>1. PICK as : as = ReadActs(c)
          OBVIOUS
        <5>2. PICK ss : ss = ReadSels(c)
          OBVIOUS
        <5> DEFINE is == {j \in DOMAIN ss : ss[j].act # "deactivate" /\ ss[j].ap # cur
                                            /\ RequireApproval(as, ss[j].ap)}
        <5>3. to = Previous(as, ss, cur)
          BY <2>2, <4>1, <5>1, <5>2
        <5>4. is # {} /\ to = ss[CHOOSE j \in is : \A i \in is : i <= j].ap
          BY <2>5, <5>3 DEF Previous
        <5>5. Len(ss) \in Nat /\ is \in SUBSET (1 .. Len(ss))
          BY <4>2, <5>2, LenProperties
        <5>6. PICK top : top = CHOOSE j \in is : \A i \in is : i <= j
          OBVIOUS
        <5>7. top \in is
          <6> HIDE DEF is
          <6>1. \E m \in is : \A i \in is : i <= m
            BY <5>4, <5>5, LargestExists
          <6> QED
            BY <5>6, <6>1
        <5> QED
          BY <5>2, <5>4, <5>6, <5>7
      <4>4. j \in DOMAIN sels /\ sels[j].act # "deactivate" /\ sels[j].ap = to
        <5>1. DOMAIN sels = 1 .. Len(sels) /\ Len(sels) \in Nat
          BY LenProperties DEF IInv, StoresInv, StoresTyped
        <5> QED
          BY <1>3, <4>2, <4>3, <5>1
      <4> QED
        BY <4>4 DEF IInv, StoresInv, SelectionsSound, PolicyIndex
    <3> QED
      BY <3>1, <3>2
  <2>7. r \in Selection /\ PolicyIndex(r.ap)
    BY <1>4, <2>4, <2>6 DEF Selection
  <2> QED
    BY <1>1, <2>5, <2>7
<1> QED
  BY <1>5, <1>6, <1>7

-----------------------------------------------------------------------------
(* Damage on disk: the artifact is no longer what its digest says, but it  *)
(* is not missing.                                                         *)
LEMMA DamageStep ==
  ASSUME IInv, NEW d \in Artifacts, Damage(d)
  PROVE  IInv'
<1>1. art' = [art EXCEPT ![d] = "bad"] /\ UNCHANGED <<scope, src, rev, evid, acts, sels, cli, h>>
      /\ staged' = IF staged = Down THEN Down ELSE [staged EXCEPT !.disturbed = TRUE]
  BY DEF Damage
<1>2. art' \in [Artifacts -> Artifacts \union {"none", "bad"}]
      /\ \A x \in Artifacts : art[x] # "none" => art'[x] # "none"
  BY <1>1 DEF IInv, StoresInv, StoresTyped
<1>3. StoresTyped'
  BY <1>1, <1>2 DEF IInv, StoresInv, StoresTyped
<1>4. Len(acts) \in Nat /\ Len(sels) \in Nat
  BY LenProperties DEF IInv, StoresInv, StoresTyped
<1>5. Grows
  BY <1>1, <1>2, <1>4 DEF Grows
<1>6. RuntimeSound(h)' /\ CodeSound'
  <2>1. PICK x : x = h
    OBVIOUS
  <2>2. RuntimeSound(x)
    BY <2>1 DEF IInv, HarnessInv
  <2>3. RuntimeSound(x)'
    BY <1>3, <1>5, <2>2, RuntimeStays DEF IInv
  <2> QED
    BY <1>1, <2>1, <2>3 DEF RuntimeSound, HarnessShape, HarnessSound, CodeSound, IInv, HarnessInv
<1>7. RuntimeSound(staged)' /\ StagedIntact(staged)'
  <2>1. CASE staged = Down
    BY <1>1, <2>1 DEF RuntimeSound, StagedIntact
  <2>2. CASE staged # Down
    <3>1. HarnessShape(staged) /\ HarnessSound(staged)
      BY <2>2 DEF IInv, HarnessInv, RuntimeSound
    <3>2. PICK y : y = [staged EXCEPT !.disturbed = TRUE]
      OBVIOUS
    <3>3. y = [st |-> staged.st, na |-> staged.na, ns |-> staged.ns, conf |-> staged.conf,
               plug |-> staged.plug, builtin |-> staged.builtin, ap |-> staged.ap,
               code |-> staged.code, disturbed |-> TRUE, fresh |-> staged.fresh]
      BY <3>1, <3>2 DEF HarnessShape
    <3>4. /\ y.st = staged.st /\ y.na = staged.na /\ y.ns = staged.ns /\ y.conf = staged.conf
          /\ y.plug = staged.plug /\ y.builtin = staged.builtin /\ y.ap = staged.ap
          /\ y.code = staged.code /\ y.disturbed = TRUE /\ y.fresh = staged.fresh
      BY <3>3
    <3>5. HarnessShape(y) /\ HarnessSound(y)
      BY <3>1, <3>3, <3>4 DEF HarnessShape, HarnessSound
    <3>6. RuntimeSound(y)'
      <4>1. RuntimeSound(y)
        BY <3>5 DEF RuntimeSound
      <4> QED
        BY <1>3, <1>5, <4>1, RuntimeStays DEF IInv
    <3>7. staged' = y
      BY <1>1, <2>2, <3>2
    <3>8. RuntimeSound(staged)'
      BY <3>6, <3>7 DEF RuntimeSound, HarnessShape, HarnessSound
    <3> QED
      BY <3>4, <3>7, <3>8 DEF StagedIntact
  <2> QED
    BY <2>1, <2>2
<1> QED
  BY <1>1, <1>3, <1>5, <1>6, <1>7, StoresStay, CliKept DEF IInv, HarnessInv

(* A Plugin that is offered to the Harness was approved.                   *)
LEMMA OfferedAreApproved ==
  ASSUME StoresInv, NEW d \in ApprovedPlugins
  PROVE  Approved(d)
<1>1. PICK i : i = LastAbout(acts, Plugins)
  OBVIOUS
<1>2. i # 0 /\ acts[i].ok /\ d = acts[i].a
  BY <1>1 DEF ApprovedPlugins
<1>3. i \in DOMAIN acts
  BY <1>1, <1>2, LastAboutIs DEF StoresInv, StoresTyped
<1>4. acts[i] \in Decision
  BY <1>3 DEF StoresInv, StoresTyped
<1>5. acts[i] = [a |-> d, ok |-> TRUE]
  BY <1>2, <1>4 DEF Decision
<1> QED
  BY <1>3, <1>5 DEF Approved

(* What is staged is the selection in force, if its approval holds.        *)
StagedAs(as, ss, ap) ==
  /\ ap = Active(ss).ap
  /\ ap # 0 => RequireApproval(as, ap)

(* What a process has read of the two stores.                              *)
HasRead(n, as, m, ss) ==
  /\ n \in 0 .. Len(acts) /\ as = SubSeq(acts, 1, n)
  /\ m \in 0 .. Len(sels) /\ ss = SubSeq(sels, 1, m)

(* What a start or a reload installs from the prefixes of length n and m.  *)
Governed(n, as, ap) ==
  ap # 0 => /\ ap \in 1 .. n /\ acts[ap].ok /\ acts[ap].a \in Policies
            /\ as[ap] = acts[ap] /\ art[acts[ap].a] = acts[ap].a
            /\ LastDecision(as, acts[ap].a) = ap

(* It is governed: an approval of a reviewed Policy that was the last word *)
(* about its content, and the artifact is intact.                          *)
LEMMA Installed ==
  ASSUME StoresInv, NEW n, NEW as, NEW m, NEW ss, NEW ap,
         HasRead(n, as, m, ss), StagedAs(as, ss, ap)
  PROVE  Governed(n, as, ap)
<1>1. as \in Seq(Decision) /\ DOMAIN as = 1 .. n /\ \A i \in 1 .. n : as[i] = acts[i]
  BY Prefix DEF StoresInv, StoresTyped, HasRead
<1>2. ss \in Seq(Selection) /\ DOMAIN ss = 1 .. m /\ \A i \in 1 .. m : ss[i] = sels[i]
  BY Prefix DEF StoresInv, StoresTyped, HasRead
<1> SUFFICES ASSUME ap # 0 PROVE /\ ap \in 1 .. n /\ acts[ap].ok /\ acts[ap].a \in Policies
                                 /\ as[ap] = acts[ap] /\ art[acts[ap].a] = acts[ap].a
                                 /\ LastDecision(as, acts[ap].a) = ap
  BY DEF Governed
<1>3. ap \in DOMAIN as /\ as[ap].ok /\ LastDecision(as, as[ap].a) = ap /\ art[as[ap].a] = as[ap].a
  <2>1. RequireApproval(as, ap) /\ as \in Seq(Decision)
    BY <1>1 DEF StagedAs
  <2> QED
    BY <2>1, RequiredIs
<1>4. acts[ap].a \in Policies
  <2>1. Len(ss) \in DOMAIN ss /\ Active(ss) = ss[Len(ss)] /\ ss[Len(ss)].act # "deactivate"
        /\ Active(ss).ap = ap
    BY <1>2, ActiveIs DEF StagedAs
  <2>2. PICK j : j = Len(ss)
    OBVIOUS
  <2>3. j \in DOMAIN sels /\ sels[j].act # "deactivate" /\ sels[j].ap = ap
    <3>1. DOMAIN sels = 1 .. Len(sels) /\ Len(sels) \in Nat
      BY LenProperties DEF StoresInv, StoresTyped
    <3>2. j \in 1 .. m /\ ss[j] = sels[j]
      BY <1>2, <2>1, <2>2
    <3> QED
      BY <2>1, <2>2, <3>1, <3>2 DEF HasRead
  <2> QED
    BY <2>3 DEF StoresInv, SelectionsSound
<1> QED
  BY <1>1, <1>3, <1>4

(* A step that only stages what it has validated.                          *)
LEMMA Stages ==
  ASSUME IInv, UNCHANGED <<scope, art, acts, sels, h>>, RuntimeSound(staged)', StagedIntact(staged)'
  PROVE  HarnessInv'
<1>1. RuntimeSound(h)' /\ CodeSound'
  BY DEF IInv, HarnessInv, RuntimeSound, HarnessShape, HarnessSound, Approved, CodeSound
<1> QED
  BY <1>1 DEF HarnessInv

(* The start of the Harness.                                               *)
LEMMA StartStep ==
  ASSUME IInv, Start
  PROVE  HarnessInv'
<1>1. UNCHANGED <<scope, art, acts, sels, h>> /\ StoresInv
  BY DEF Start, IInv
<1>2. PICK ap : ap = Staged(scope.builtin, acts, sels)
  OBVIOUS
<1>3. PICK ps : ps = ApprovedPlugins
  OBVIOUS
<1>4. ap # Refused /\ staged' = Validated(Len(acts), Len(sels), ps, ps, scope.builtin, ap, TRUE)
  BY Zenon, <1>2, <1>3 DEF Start
<1>5. Len(acts) \in Nat /\ Len(sels) \in Nat /\ acts \in Seq(Decision) /\ sels \in Seq(Selection)
  BY <1>1, LenProperties DEF StoresInv, StoresTyped
<1>6. SubSeq(acts, 1, Len(acts)) = acts /\ SubSeq(sels, 1, Len(sels)) = sels
  BY <1>5, SubSeqFull
<1>7. StagedAs(acts, sels, ap)
  <2>1. CASE Active(sels).ap = 0
    BY <1>2, <1>4, <2>1 DEF Staged, StagedAs
  <2>2. CASE Active(sels).ap # 0
    BY <1>2, <1>4, <2>2 DEF Staged, StagedAs
  <2> QED
    BY <2>1, <2>2
<1>8. ap # 0 => /\ ap \in 1 .. Len(acts) /\ acts[ap].ok /\ acts[ap].a \in Policies
                /\ art[acts[ap].a] = acts[ap].a /\ LastDecision(acts, acts[ap].a) = ap
  <2>1. PICK as : as = acts
    OBVIOUS
  <2>2. PICK ss : ss = sels
    OBVIOUS
  <2>3. StagedAs(as, ss, ap) /\ as = SubSeq(acts, 1, Len(acts)) /\ ss = SubSeq(sels, 1, Len(sels))
    BY <1>6, <1>7, <2>1, <2>2
  <2>4. PICK n : n = Len(acts)
    OBVIOUS
  <2>5. PICK m : m = Len(sels)
    OBVIOUS
  <2>6. HasRead(n, as, m, ss)
    BY <1>5, <2>3, <2>4, <2>5 DEF HasRead
  <2>7. Governed(n, as, ap)
    <3>1. StoresInv /\ StagedAs(as, ss, ap) /\ HasRead(n, as, m, ss)
      BY <1>1, <2>3, <2>6
    <3> QED
      BY <3>1, Installed
  <2> QED
    BY <2>1, <2>4, <2>7 DEF Governed
<1>9. PICK y : y = [st |-> "idle", na |-> Len(acts), ns |-> Len(sels), conf |-> ps, plug |-> ps,
                    builtin |-> scope.builtin /\ ap = 0, ap |-> ap, code |-> "none",
                    disturbed |-> FALSE, fresh |-> TRUE]
  OBVIOUS
<1>10. /\ y.st = "idle" /\ y.na = Len(acts) /\ y.ns = Len(sels) /\ y.conf = ps /\ y.plug = ps
       /\ y.builtin = (scope.builtin /\ ap = 0) /\ y.ap = ap
       /\ y = [st |-> y.st, na |-> y.na, ns |-> y.ns, conf |-> y.conf, plug |-> y.plug, builtin |-> y.builtin,
               ap |-> y.ap, code |-> y.code, disturbed |-> y.disturbed, fresh |-> y.fresh]
  BY <1>9
<1>11. y.builtin \in BOOLEAN
  BY <1>10
<1>12. HarnessShape(y)
  BY <1>5, <1>10, <1>11 DEF HarnessShape
<1>13. HarnessSound(y)
  <2>1. \A d \in y.conf \union y.plug : Approved(d)
    BY <1>1, <1>3, <1>10, OfferedAreApproved
  <2>2. Active(sels).ap = ap
    BY <1>7 DEF StagedAs
  <2>3. y.ap # 0 => /\ y.ap \in 1 .. y.na /\ acts[y.ap].ok /\ acts[y.ap].a \in Policies
                    /\ LastDecision(SubSeq(acts, 1, y.na), acts[y.ap].a) = y.ap
                    /\ Active(SubSeq(sels, 1, y.ns)).ap = y.ap
    BY <1>6, <1>8, <1>10, <2>2
  <2>4. scope.builtin => y.builtin \/ y.ap # 0
    BY <1>10
  <2> QED
    BY <2>1, <2>3, <2>4 DEF HarnessSound
<1>14. StagedIntact(y)
  BY <1>8, <1>10 DEF StagedIntact
<1>15. staged' = y
  BY Zenon, <1>4, <1>9 DEF Validated
<1>16. RuntimeSound(staged)' /\ StagedIntact(staged)'
  BY <1>1, <1>12, <1>13, <1>14, <1>15 DEF RuntimeSound, HarnessShape, HarnessSound, Approved, StagedIntact
<1> QED
  BY <1>1, <1>16, Stages

(* /reload.  The stores are the prefixes the service has read, so the      *)
(* selection is the one that was in force at the start: a built-in Policy  *)
(* that was exchanged for an evolved one is not left without it.           *)
LEMMA ReloadStep ==
  ASSUME IInv, Reload
  PROVE  HarnessInv'
<1>1. UNCHANGED <<scope, art, acts, sels, h>> /\ StoresInv /\ h.st = "idle"
  BY DEF Reload, IInv
<1>2. HarnessShape(h) /\ HarnessSound(h)
  BY <1>1 DEF IInv, HarnessInv, RuntimeSound, Down
<1>3. PICK as : as = SubSeq(acts, 1, h.na)
  OBVIOUS
<1>4. PICK ss : ss = SubSeq(sels, 1, h.ns)
  OBVIOUS
<1>5. PICK ap : ap = Staged(h.builtin, as, ss)
  OBVIOUS
<1>6. PICK ps : ps = h.conf \union ApprovedPlugins
  OBVIOUS
<1>7. PICK fr : fr = (ps = ApprovedPlugins /\ ap = Staged(scope.builtin, acts, sels))
  OBVIOUS
<1>8. ap # Refused /\ staged' = Validated(h.na, h.ns, h.conf, ps, h.builtin, ap, fr)
  BY Zenon, <1>3, <1>4, <1>5, <1>6, <1>7 DEF Reload
<1>10. PICK y : y = [st |-> "idle", na |-> h.na, ns |-> h.ns, conf |-> h.conf, plug |-> ps,
                     builtin |-> h.builtin /\ ap = 0, ap |-> ap, code |-> "none",
                     disturbed |-> FALSE, fresh |-> fr]
  OBVIOUS
<1>11. /\ y.st = "idle" /\ y.na = h.na /\ y.ns = h.ns /\ y.conf = h.conf /\ y.plug = ps
       /\ y.builtin = (h.builtin /\ ap = 0) /\ y.ap = ap
       /\ y = [st |-> y.st, na |-> y.na, ns |-> y.ns, conf |-> y.conf, plug |-> y.plug, builtin |-> y.builtin,
               ap |-> y.ap, code |-> y.code, disturbed |-> y.disturbed, fresh |-> y.fresh]
  BY <1>10
<1>12. staged' = y
  BY Zenon, <1>8, <1>10 DEF Validated
<1>13. y.builtin \in BOOLEAN
  BY <1>11
<1>14. HarnessShape(y)
  BY <1>2, <1>11, <1>13 DEF HarnessShape
<1>15. StagedAs(as, ss, ap)
  <2>1. CASE Active(ss).ap = 0
    BY <1>5, <1>8, <2>1 DEF Staged, StagedAs
  <2>2. CASE Active(ss).ap # 0
    BY <1>5, <1>8, <2>2 DEF Staged, StagedAs
  <2> QED
    BY <2>1, <2>2
<1>16. Governed(h.na, as, ap)
  <2>1. PICK n : n = h.na
    OBVIOUS
  <2>2. PICK m : m = h.ns
    OBVIOUS
  <2>3. HasRead(n, as, m, ss)
    BY <1>2, <1>3, <1>4, <2>1, <2>2 DEF HasRead, HarnessShape
  <2>4. Governed(n, as, ap)
    BY <1>1, <1>15, <2>3, Installed
  <2> QED
    BY <2>1, <2>4
<1>17. HarnessSound(y)
  <2>1. \A d \in ApprovedPlugins : Approved(d)
    BY <1>1, OfferedAreApproved
  <2>2. \A d \in y.conf \union y.plug : Approved(d)
    BY <1>2, <1>6, <1>11, <2>1 DEF HarnessSound
  <2>3. Active(ss).ap = ap
    BY <1>15 DEF StagedAs
  <2>4. y.ap # 0 => /\ y.ap \in 1 .. y.na /\ acts[y.ap].ok /\ acts[y.ap].a \in Policies
                    /\ LastDecision(SubSeq(acts, 1, y.na), acts[y.ap].a) = y.ap
                    /\ Active(SubSeq(sels, 1, y.ns)).ap = y.ap
    BY <1>3, <1>4, <1>11, <1>16, <2>3 DEF Governed
  <2>5. scope.builtin => y.builtin \/ y.ap # 0
    <3>1. ASSUME scope.builtin, ap = 0 PROVE h.builtin
      BY <1>2, <1>4, <2>3, <3>1 DEF HarnessSound
    <3> QED
      BY <1>11, <3>1
  <2> QED
    BY <2>2, <2>4, <2>5 DEF HarnessSound
<1>18. StagedIntact(y)
  BY <1>11, <1>16 DEF StagedIntact, Governed
<1>19. RuntimeSound(staged)' /\ StagedIntact(staged)'
  BY <1>1, <1>12, <1>14, <1>17, <1>18 DEF RuntimeSound, HarnessShape, HarnessSound, Approved, StagedIntact
<1> QED
  BY <1>1, <1>19, Stages

(* The import.  What is imported is what was validated, unless an artifact *)
(* was damaged since; a failed import leaves the live runtime.             *)
LEMMA ImportSteps ==
  ASSUME IInv, Import \/ ImportFails
  PROVE  HarnessInv'
<1>1. UNCHANGED <<scope, art, acts, sels>> /\ staged # Down /\ staged' = Down
  BY DEF Import, ImportFails
<1>2. RuntimeSound(staged)' /\ StagedIntact(staged)'
  BY <1>1 DEF RuntimeSound, StagedIntact
<1>3. CASE ImportFails
  <2>1. h' = h
    BY <1>3 DEF ImportFails
  <2> QED
    BY <1>1, <1>2, <2>1, Stages
<1>4. CASE Import
  <2>1. HarnessShape(staged) /\ HarnessSound(staged) /\ StagedIntact(staged)
    BY <1>1 DEF IInv, HarnessInv, RuntimeSound
  <2>2. PICK y : y = [staged EXCEPT !.code = Code(staged.ap)]
    OBVIOUS
  <2>3. y = [st |-> staged.st, na |-> staged.na, ns |-> staged.ns, conf |-> staged.conf,
             plug |-> staged.plug, builtin |-> staged.builtin, ap |-> staged.ap,
             code |-> Code(staged.ap), disturbed |-> staged.disturbed, fresh |-> staged.fresh]
    BY <2>1, <2>2 DEF HarnessShape
  <2>4. /\ y.st = staged.st /\ y.na = staged.na /\ y.ns = staged.ns /\ y.conf = staged.conf
        /\ y.plug = staged.plug /\ y.builtin = staged.builtin /\ y.ap = staged.ap
        /\ y.code = Code(staged.ap) /\ y.disturbed = staged.disturbed /\ y.fresh = staged.fresh
    BY <2>3
  <2>5. HarnessShape(y) /\ HarnessSound(y)
    BY <2>1, <2>3, <2>4 DEF HarnessShape, HarnessSound
  <2>6. y.ap # 0 => y.code = acts[y.ap].a \/ y.disturbed
    BY <1>1, <2>1, <2>4 DEF StagedIntact, Code
  <2>7. h' = y
    BY <1>4, <2>2 DEF Import
  <2>8. RuntimeSound(h)'
    BY <1>1, <2>5, <2>7 DEF RuntimeSound, HarnessShape, HarnessSound, Approved
  <2>9. CodeSound'
    BY <1>1, <2>6, <2>7 DEF CodeSound
  <2> QED
    BY <1>2, <2>8, <2>9 DEF HarnessInv
<1> QED
  BY <1>3, <1>4

(* A Run begins or ends, or the Harness stops.                             *)
LEMMA RunSteps ==
  ASSUME IInv, RunBegins \/ RunEnds \/ Stop
  PROVE  HarnessInv'
<1>1. UNCHANGED <<scope, art, acts, sels, staged>>
  BY DEF RunBegins, RunEnds, Stop
<1>2. RuntimeSound(staged)' /\ StagedIntact(staged)'
  BY <1>1 DEF IInv, HarnessInv, RuntimeSound, HarnessShape, HarnessSound, Approved, StagedIntact
<1>3. CASE Stop
  BY <1>2, <1>3 DEF Stop, HarnessInv, RuntimeSound, CodeSound
<1>4. CASE RunBegins \/ RunEnds
  <2>1. HarnessShape(h) /\ HarnessSound(h) /\ CodeSound /\ h # Down
    BY <1>4 DEF RunBegins, RunEnds, IInv, HarnessInv, RuntimeSound, Down
  <2>2. PICK st \in {"idle", "running"} : h' = [h EXCEPT !.st = st]
    BY <1>4 DEF RunBegins, RunEnds
  <2>3. PICK y : y = [h EXCEPT !.st = st]
    OBVIOUS
  <2>4. y = [st |-> st, na |-> h.na, ns |-> h.ns, conf |-> h.conf, plug |-> h.plug, builtin |-> h.builtin,
             ap |-> h.ap, code |-> h.code, disturbed |-> h.disturbed, fresh |-> h.fresh]
    BY <2>1, <2>3 DEF HarnessShape
  <2>5. /\ y.st = st /\ y.na = h.na /\ y.ns = h.ns /\ y.conf = h.conf /\ y.plug = h.plug
        /\ y.builtin = h.builtin /\ y.ap = h.ap /\ y.code = h.code /\ y.disturbed = h.disturbed
        /\ y.fresh = h.fresh
    BY <2>4
  <2>6. HarnessShape(y) /\ HarnessSound(y)
    BY <2>1, <2>4, <2>5 DEF HarnessShape, HarnessSound
  <2>7. y.ap # 0 => y.code = acts[y.ap].a \/ y.disturbed
    BY <2>1, <2>5 DEF CodeSound
  <2>8. h' = y
    BY <2>2, <2>3
  <2>9. RuntimeSound(h)'
    BY <1>1, <2>6, <2>8 DEF RuntimeSound, HarnessShape, HarnessSound, Approved
  <2>10. CodeSound'
    BY <1>1, <2>7, <2>8 DEF CodeSound
  <2> QED
    BY <1>2, <2>9, <2>10 DEF HarnessInv
<1> QED
  BY <1>3, <1>4

(* The steps of the Harness leave the stores and the commands alone.       *)
LEMMA HarnessSteps ==
  ASSUME IInv, HarnessStep
  PROVE  IInv'
<1>1. UNCHANGED <<scope, src, rev, evid, art, acts, sels, cli>>
  BY DEF HarnessStep, Start, Reload, Import, ImportFails, RunBegins, RunEnds, Stop
<1>2. HarnessInv'
  BY StartStep, ReloadStep, ImportSteps, RunSteps DEF HarnessStep
<1>3. StoresTyped' /\ Grows
  BY <1>1, QuietStores DEF IInv
<1> QED
  BY <1>1, <1>2, <1>3, StoresStay, CliKept DEF IInv

-----------------------------------------------------------------------------
(* Every reachable state satisfies the invariant.                          *)
THEOREM LifecycleInvariant == Spec => []IInv
<1>1. ASSUME Init PROVE IInv
  <2>1. /\ scope \in Scopes /\ acts = <<>> /\ sels = <<>> /\ evid = scope.evid /\ src = scope.src
        /\ rev = Idle /\ art = [d \in Artifacts |-> "none"] /\ cli = [c \in Clis |-> Idle] /\ h = Down /\ staged = Down
    BY <1>1 DEF Init
  <2>2. evid \in SUBSET Evidence /\ src \in [policy : Policies \union {"invalid"}, plugin : Plugins]
    BY <2>1, LifecycleAssumption DEF Evidence
  <2>3. acts \in Seq(Decision) /\ sels \in Seq(Selection) /\ DOMAIN acts = {} /\ DOMAIN sels = {}
    BY <2>1
  <2>4. StoresInv
    BY <2>1, <2>2, <2>3 DEF StoresInv, StoresTyped, ApprovalBacked, SelectionsSound, Review
  <2>5. CliInv
    BY <2>1 DEF CliInv, CliSound
  <2> QED
    BY <2>1, <2>4, <2>5 DEF IInv, HarnessInv, RuntimeSound, CodeSound, StagedIntact
<1>2. ASSUME IInv, [Next]_vars PROVE IInv'
  <2>1. CASE UNCHANGED vars
    <3>1. UNCHANGED <<scope, src, rev, evid, art, acts, sels, cli, h, staged>>
      BY <2>1 DEF vars
    <3>2. StoresTyped' /\ Grows
      BY <1>2, <3>1, QuietStores DEF IInv
    <3> QED
      BY <1>2, <3>1, <3>2, StoresStay, CliKept, HarnessStays DEF IInv, Intact
  <2>2. CASE ReviewStep \/ HarnessStep
    BY <1>2, <2>2, ReviewSteps, HarnessSteps
  <2>3. ASSUME NEW c \in Clis, CliStep(c) PROVE IInv'
    BY <1>2, <2>3, QuietCommands, StoreSteps, ApprovalStep, DenialSteps, SelectionSteps DEF CliStep
  <2>4. ASSUME NEW d \in Artifacts, Damage(d) PROVE IInv'
    BY <1>2, <2>4, DamageStep
  <2> QED
    BY <1>2, <2>1, <2>2, <2>3, <2>4 DEF Next
<1> QED
  BY <1>1, <1>2, PTL DEF Spec

(* No approval without its evidence and its artifact (PolicyApprovalService*)
(* and PluginArtifactStore write the artifact first).                      *)
THEOREM ApprovalsAreBacked == Spec => []ApprovalBacked
<1>1. IInv => ApprovalBacked
  BY DEF IInv, StoresInv
<1> QED
  BY <1>1, LifecycleInvariant, PTL

(* What the Harness runs was reviewed, approved and not denied again when  *)
(* the stores were read.                                                   *)
THEOREM LoadedAreGoverned == Spec => []LoadedIsGoverned
<1>1. ASSUME IInv PROVE LoadedIsGoverned
  <2> SUFFICES ASSUME h # Down PROVE LoadedIsGoverned
    BY DEF LoadedIsGoverned
  <2>1. HarnessShape(h) /\ HarnessSound(h) /\ CodeSound
    BY <1>1 DEF IInv, HarnessInv, RuntimeSound
  <2>2. ASSUME h.ap # 0
        PROVE  /\ h.code = acts[h.ap].a \/ h.disturbed
               /\ acts[h.ap].ok /\ LastDecision(SubSeq(acts, 1, h.na), acts[h.ap].a) = h.ap
               /\ \E e \in evid : e.d = acts[h.ap].a /\ e.st # "failed"
    <3>1. h.ap \in DOMAIN acts
      <4>1. Len(acts) \in Nat /\ DOMAIN acts = 1 .. Len(acts)
        BY <1>1, LenProperties DEF IInv, StoresInv, StoresTyped
      <4> QED
        BY <2>1, <2>2, <4>1 DEF HarnessShape, HarnessSound
    <3> QED
      BY <1>1, <2>1, <2>2, <3>1 DEF IInv, StoresInv, ApprovalBacked, HarnessSound, CodeSound
  <2>3. \A d \in h.plug : \E i \in DOMAIN acts : acts[i] = [a |-> d, ok |-> TRUE]
    BY <2>1 DEF HarnessSound, Approved
  <2> QED
    BY <2>2, <2>3 DEF LoadedIsGoverned
<1> QED
  BY <1>1, LifecycleInvariant, PTL

(* No start and no reload leaves a built-in Policy's name unguarded.       *)
THEOREM GuardIsKept == Spec => []GuardKept
<1>1. IInv => GuardKept
  BY DEF IInv, HarnessInv, RuntimeSound, HarnessSound, GuardKept
<1> QED
  BY <1>1, LifecycleInvariant, PTL

(* No decision and no selection is lost, and trust only to a command that  *)
(* had read the trusted workspaces before another one wrote them.          *)
THEOREM DecisionsAreKept == Spec => DecisionsKept
<1> DEFINE Kept == /\ IsPrefix(acts, acts') /\ IsPrefix(sels, sels')
                   /\ \/ trusts \subseteq trusts'
                      \/ \E c \in Clis : cli[c].k = "trusting" /\ cli[c].seen # trusts
<1>1. ASSUME IInv, [Next]_vars PROVE [Kept]_vars
  <2>1. acts \in Seq(Decision) /\ sels \in Seq(Selection) /\ Len(acts) \in Nat /\ Len(sels) \in Nat
    BY <1>1, LenProperties DEF IInv, StoresInv, StoresTyped
  <2>2. CASE UNCHANGED vars
    BY <2>2
  <2>3. CASE Next
    <3>1. acts' = acts \/ \E r : acts' = Append(acts, r)
      BY ZenonT(30), <2>3 DEF Next, ReviewStep, Edit, Inspect, Freeze, RunWorker, SaveEvidence, HarnessStep, Start,
           Reload, Import, ImportFails, RunBegins, RunEnds, Stop, CliStep, Open, ApprovePolicy, InstallPlugin, AddApproval,
           CliDies, ReadTrust, SaveTrust, DenyPolicy, DenyPlugin, RemovePlugin, AddDenial, Decided,
           Activate, Deactivate, Rollback, Select, Damage
    <3>2. sels' = sels \/ \E r : sels' = Append(sels, r)
      BY ZenonT(30), <2>3 DEF Next, ReviewStep, Edit, Inspect, Freeze, RunWorker, SaveEvidence, HarnessStep, Start,
           Reload, Import, ImportFails, RunBegins, RunEnds, Stop, CliStep, Open, ApprovePolicy, InstallPlugin, AddApproval,
           CliDies, ReadTrust, SaveTrust, DenyPolicy, DenyPlugin, RemovePlugin, AddDenial,
           Activate, Deactivate, Rollback, Select, Damage
    <3>3. trusts' = trusts \/ \E c \in Clis : SaveTrust(c)
      BY ZenonT(30), <2>3 DEF Next, ReviewStep, Edit, Inspect, Freeze, RunWorker, SaveEvidence, HarnessStep, Start,
           Reload, Import, ImportFails, RunBegins, RunEnds, Stop, CliStep, Open, ApprovePolicy, InstallPlugin, AddApproval,
           CliDies, ReadTrust, DenyPolicy, DenyPlugin, RemovePlugin, AddDenial,
           Activate, Deactivate, Rollback, Select, Damage
    <3>4. ASSUME NEW X, NEW s \in Seq(X), NEW t, t = s \/ \E r : t = Append(s, r)
          PROVE  IsPrefix(s, t)
      <4>1. Len(s) \in Nat
        BY <3>4
      <4>2. CASE t = s
        BY <3>4, <4>1, <4>2 DEF IsPrefix
      <4>3. ASSUME NEW r, t = Append(s, r) PROVE IsPrefix(s, t)
        <5>1. s \in Seq(X \union {r}) /\ r \in X \union {r}
          BY <3>4
        <5>2. t \in Seq(X \union {r}) /\ Len(t) = Len(s) + 1 /\ \A i \in 1 .. Len(s) : t[i] = s[i]
          BY <4>3, <5>1, AppendProperties
        <5>3. SubSeq(t, 1, Len(s)) = SubSeq(s, 1, Len(s))
          BY <4>1, <5>1, <5>2, SamePrefix
        <5>4. Len(s) <= Len(t)
          BY <4>1, <5>2
        <5> QED
          BY <5>3, <5>4 DEF IsPrefix
      <4> QED
        BY <3>4, <4>2, <4>3
    <3>5. IsPrefix(acts, acts') /\ IsPrefix(sels, sels')
      BY <2>1, <3>1, <3>2, <3>4
    <3>6. trusts \subseteq trusts' \/ \E c \in Clis : cli[c].k = "trusting" /\ cli[c].seen # trusts
      BY <3>3 DEF SaveTrust
    <3> QED
      BY <3>5, <3>6
  <2> QED
    BY <1>1, <2>2, <2>3
<1> HIDE DEF Kept
<1>2. [][Kept]_vars => DecisionsKept
  BY PTL DEF Kept, DecisionsKept
<1> QED
  BY <1>1, <1>2, LifecycleInvariant, PTL DEF Spec

(***************************************************************************)
(* PolicyGeneration.                                                       *)
(***************************************************************************)
-----------------------------------------------------------------------------
(* Types.                                                                  *)
Kinds == {"ok", "failed", "timed_out", "aborted"}
Codes == {"", "repair_exhausted", "model_tool_call", "model_not_completed", "model_empty_answer",
          "model_failed", "model_timeout", "model_aborted", "target_conflict",
          "candidate_inspection_failed", "candidate_identity_mismatch"}
Places == {"proposal", "confirm", "candidate", "accepted", "stage", "staged", "record"}
Attempts ==
  [pc : Places, calling : BOOLEAN, attempt : Nat, calls : Nat, runs : Seq(Kinds),
   outcome : {"none", "failed", "deferred", "declined", "generated"}, code : Codes,
   conf : {"none", "interactive", "preauthorized", "declined"},
   strategy : {"none", "additive", "replacement", "defer"}, pre : BOOLEAN]
Ended == [pc : {"exited"}, calls : Nat, excuse : {"none", "killed", "os_error", "target_was_there"}]
Recorded ==
  [outcome : {"none", "failed", "deferred", "declined", "generated"}, code : Codes,
   conf : {"none", "interactive", "preauthorized", "declined"},
   strategy : {"none", "additive", "replacement", "defer"}, runs : Seq(Kinds)]

GenTypeOK ==
  /\ setting.active \subseteq Generators
  /\ gen \in [Generators -> {Rest} \union Attempts \union Ended]
  /\ records \in [Generators -> {NoRecord} \union Recorded]
  /\ target \in {"absent", "empty", "foreign"} \union Generators
  /\ staging \subseteq Generators

(* The audit has one entry of every call that has ended, and its entries   *)
(* say whether the error code is a deadline's or an interrupt's.           *)
Has(runs, kind) == \E i \in DOMAIN runs : runs[i] = kind
Told(code, runs) == /\ code = "model_timeout" <=> Has(runs, "timed_out")
                    /\ code = "model_aborted" <=> Has(runs, "aborted")

AttemptSound(x) ==
  /\ Len(x.runs) = (IF x.pc \in {"proposal", "candidate"} THEN x.calls - 1 ELSE x.calls)
  /\ Told(x.code, x.runs)
  /\ x.pc # "record" => x.code = "" /\ x.outcome = "none"

(* One process, its record, its directories.                               *)
Accounted(g) ==
  /\ gen[g].pc = "rest" => gen[g] = Rest
  /\ gen[g].pc # "exited" => records[g] = NoRecord
  /\ gen[g].pc \in Places => AttemptSound(gen[g])
  /\ g \in staging => gen[g].pc = "staged" \/ (gen[g].pc = "exited" /\ gen[g].excuse = "killed")
  /\ gen[g].pc # "exited" => (target = g <=> gen[g].pc = "record" /\ gen[g].outcome = "generated")
  /\ (target = g /\ gen[g].pc = "exited") =>
       \/ records[g].outcome = "generated" /\ records[g].conf # "declined"
       \/ gen[g].excuse \in {"killed", "os_error", "target_was_there"}
  /\ records[g].outcome = "generated" => target = g
  /\ records[g] # NoRecord =>
       Len(records[g].runs) = gen[g].calls /\ Told(records[g].code, records[g].runs)

GenInv == GenTypeOK /\ \A g \in Generators : Accounted(g)

-----------------------------------------------------------------------------
(* The last entry of an audit.                                             *)
LEMMA AuditGrows ==
  ASSUME NEW runs \in Seq(Kinds), NEW kind \in Kinds
  PROVE  /\ Append(runs, kind) \in Seq(Kinds) /\ Len(Append(runs, kind)) = Len(runs) + 1
         /\ Len(runs) \in Nat
         /\ \A k : Has(Append(runs, kind), k) <=> Has(runs, k) \/ k = kind
<1>1. /\ Append(runs, kind) \in Seq(Kinds) /\ Len(Append(runs, kind)) = Len(runs) + 1
      /\ Len(runs) \in Nat
      /\ DOMAIN Append(runs, kind) = 1 .. Len(runs) + 1 /\ DOMAIN runs = 1 .. Len(runs)
      /\ \A i \in 1 .. Len(runs) : Append(runs, kind)[i] = runs[i]
      /\ Append(runs, kind)[Len(runs) + 1] = kind
  OBVIOUS
<1> QED BY <1>1 DEF Has

(* What a process does to itself disturbs no other one: it takes the       *)
(* target from nobody and gives it to nobody.                              *)
MovesAlone(g) ==
  /\ \E x : gen' = [gen EXCEPT ![g] = x]
  /\ \A o \in Generators \ {g} : records'[o] = records[o] /\ (o \in staging' <=> o \in staging)
  /\ target' # target => /\ target' \notin Generators \ {g}
                         /\ target \notin Generators \ {g}

LEMMA OthersAccounted ==
  ASSUME GenInv, NEW g \in Generators, MovesAlone(g), GenTypeOK', Accounted(g)'
  PROVE  GenInv'
<1> SUFFICES ASSUME NEW o \in Generators, o # g PROVE Accounted(o)'
  BY DEF GenInv
<1>1. /\ gen'[o] = gen[o] /\ records'[o] = records[o] /\ (o \in staging' <=> o \in staging)
      /\ target' = o <=> target = o
  BY DEF MovesAlone, GenInv, GenTypeOK
<1>2. Accounted(o)
  BY DEF GenInv
<1> QED BY <1>1, <1>2 DEF Accounted
-----------------------------------------------------------------------------
(* The steps.                                                              *)
LEMMA GenInitHolds == setting.active \subseteq Generators /\ GenInit => GenInv
<1> SUFFICES ASSUME setting.active \subseteq Generators, GenInit PROVE GenInv
  OBVIOUS
<1>1. GenTypeOK
  BY DEF GenInit, GenTypeOK
<1>2. ASSUME NEW g \in Generators PROVE Accounted(g)
  BY GenerationAssumption DEF GenInit, Accounted, Rest, NoRecord, Places
<1> QED BY <1>1, <1>2 DEF GenInv

(* What an attempt in progress is.                                         *)
LEMMA InProgress ==
  ASSUME GenInv, NEW g \in Generators, gen[g].pc \in Places
  PROVE  gen[g] \in Attempts /\ AttemptSound(gen[g])
BY DEF GenInv, GenTypeOK, Accounted, Rest, Places, Ended

(* A step inside an attempt, which leaves target, records and staging.     *)
LEMMA Inside ==
  ASSUME GenInv, NEW g \in Generators, NEW x \in Attempts, AttemptSound(x),
         x.outcome # "generated", records[g] = NoRecord,
         g \in staging => x.pc = "staged", target # g,
         Update(g, x), UNCHANGED <<setting, records, target, staging>>
  PROVE  GenInv'
<1>1. GenTypeOK'
  BY DEF GenInv, GenTypeOK, Update
<1>2. gen'[g] = x
  BY DEF GenInv, GenTypeOK, Update
<1>3. x.pc \in Places
  BY DEF Attempts
<1>4. Accounted(g)'
  BY <1>2, <1>3 DEF Accounted, Places, NoRecord
<1>5. MovesAlone(g)
  BY Zenon DEF MovesAlone, Update
<1> QED BY <1>1, <1>4, <1>5, OthersAccounted

(* A step of a stage: it makes one entry in the audit.                     *)
LEMMA StageKinds ==
  ASSUME GenInv, NEW g \in Generators, NEW stage \in {"proposal", "candidate"}, InStage(g, stage),
         NEW kind \in Kinds
  PROVE  /\ gen[g] \in Attempts /\ AttemptSound(gen[g]) /\ gen[g].pc = stage
         /\ records[g] = NoRecord /\ g \notin staging /\ target # g
         /\ Audit(g, kind) \in Seq(Kinds) /\ Len(Audit(g, kind)) = gen[g].calls
         /\ \A k : Has(Audit(g, kind), k) <=> Has(gen[g].runs, k) \/ k = kind
<1>1. gen[g].pc = stage /\ gen[g].calling /\ stage \in Places
  BY DEF InStage, Places
<1>2. gen[g] \in Attempts /\ AttemptSound(gen[g])
  BY <1>1, InProgress
<1>3. gen[g].runs \in Seq(Kinds) /\ gen[g].calls \in Nat /\ Len(gen[g].runs) = gen[g].calls - 1
  BY <1>1, <1>2 DEF Attempts, AttemptSound
<1>4. records[g] = NoRecord /\ g \notin staging /\ target # g
  BY <1>1 DEF GenInv, Accounted
<1> QED BY <1>1, <1>2, <1>3, <1>4, AuditGrows DEF Audit

(* The records of an attempt whose stage goes on, ends or fails.           *)
LEMMA LeaveStageFields ==
  ASSUME NEW a \in Attempts, NEW runs \in Seq(Kinds)
  PROVE  LET x == [a EXCEPT !.runs = runs, !.calling = FALSE]
         IN /\ x \in Attempts /\ x.pc = a.pc /\ x.runs = runs
            /\ x.calls = a.calls /\ x.code = a.code /\ x.outcome = a.outcome
BY DEF Attempts

LEMMA FailingFields ==
  ASSUME NEW y \in Attempts, NEW code \in Codes
  PROVE  LET x == [y EXCEPT !.pc = "record", !.outcome = "failed", !.code = code]
         IN /\ x \in Attempts /\ x.pc = "record" /\ x.runs = y.runs
            /\ x.calls = y.calls /\ x.code = code /\ x.outcome = "failed"
BY DEF Attempts, Places

(* The call was not the last one of its stage: another one is made.        *)
LEMMA AsksAgain ==
  ASSUME GenInv, NEW g \in Generators, NEW stage \in {"proposal", "candidate"}, InStage(g, stage),
         NEW kind \in {"ok", "failed"}, Update(g, NextCall(g, Audit(g, kind))),
         UNCHANGED <<setting, records, target, staging>>
  PROVE  GenInv'
<1>1. /\ gen[g] \in Attempts /\ AttemptSound(gen[g]) /\ gen[g].pc = stage
      /\ records[g] = NoRecord /\ g \notin staging /\ target # g
      /\ Audit(g, kind) \in Seq(Kinds) /\ Len(Audit(g, kind)) = gen[g].calls
      /\ \A k : Has(Audit(g, kind), k) <=> Has(gen[g].runs, k) \/ k = kind
  BY StageKinds DEF Kinds
<1>2. PICK a \in Attempts, runs \in Seq(Kinds), m \in Nat, n \in Nat :
        a = gen[g] /\ runs = Audit(g, kind) /\ m = gen[g].attempt + 1 /\ n = gen[g].calls + 1
  <2>1. gen[g].attempt + 1 \in Nat /\ gen[g].calls + 1 \in Nat
    BY <1>1 DEF Attempts
  <2> QED BY <1>1, <2>1, Zenon
<1>3. PICK x : x = [a EXCEPT !.runs = runs, !.attempt = m, !.calls = n]
  OBVIOUS
<1>4. Update(g, x)
  BY <1>2, <1>3, Zenon DEF NextCall
<1>5. /\ x \in Attempts /\ x.pc = a.pc /\ x.runs = runs
      /\ x.calls = n /\ x.code = a.code /\ x.outcome = a.outcome
  BY <1>3 DEF Attempts
<1>6. a.code = "" /\ a.outcome = "none" /\ a.pc = stage /\ Told(a.code, a.runs)
  BY <1>1, <1>2 DEF AttemptSound
<1>7. Len(runs) = n - 1
  <2>1. gen[g].calls \in Nat
    BY <1>1 DEF Attempts
  <2> QED BY <1>1, <1>2, <2>1
<1>8. Told(x.code, x.runs)
  BY <1>1, <1>2, <1>5, <1>6 DEF Told
<1>9. AttemptSound(x)
  BY <1>5, <1>6, <1>7, <1>8 DEF AttemptSound
<1> QED BY <1>1, <1>4, <1>5, <1>6, <1>9, Inside

(* The stage ends with an error code that agrees with its last entry.      *)
LEMMA StageFails ==
  ASSUME GenInv, NEW g \in Generators, NEW stage \in {"proposal", "candidate"}, InStage(g, stage),
         NEW kind \in Kinds, NEW code \in Codes,
         code = "model_timeout" <=> kind = "timed_out", code = "model_aborted" <=> kind = "aborted",
         Update(g, Failing(g, Audit(g, kind), code)), UNCHANGED <<setting, records, target, staging>>
  PROVE  GenInv'
<1> DEFINE x == Failing(g, Audit(g, kind), code)
<1> HIDE DEF x
<1>1. /\ gen[g] \in Attempts /\ AttemptSound(gen[g]) /\ gen[g].pc = stage
      /\ records[g] = NoRecord /\ g \notin staging /\ target # g
      /\ Audit(g, kind) \in Seq(Kinds) /\ Len(Audit(g, kind)) = gen[g].calls
      /\ \A k : Has(Audit(g, kind), k) <=> Has(gen[g].runs, k) \/ k = kind
  BY StageKinds
<1>2. /\ x \in Attempts /\ x.pc = "record" /\ x.runs = Audit(g, kind)
      /\ x.calls = gen[g].calls /\ x.code = code /\ x.outcome = "failed"
  <2>1. PICK y : y = [gen[g] EXCEPT !.runs = Audit(g, kind), !.calling = FALSE]
    OBVIOUS
  <2>2. y \in Attempts /\ y.runs = Audit(g, kind) /\ y.calls = gen[g].calls
    BY <1>1, <2>1, LeaveStageFields, Zenon
  <2>3. x = [y EXCEPT !.pc = "record", !.outcome = "failed", !.code = code]
    BY <2>1, Zenon DEF x, Failing, LeaveStage
  <2> QED BY <2>2, <2>3, FailingFields
<1>3. gen[g].code = "" /\ gen[g].calls \in Nat
  BY <1>1 DEF AttemptSound, Attempts
<1>4. ~Has(gen[g].runs, "timed_out") /\ ~Has(gen[g].runs, "aborted")
  BY <1>1, <1>3 DEF AttemptSound, Told
<1>5. Told(x.code, x.runs)
  BY <1>1, <1>2, <1>4 DEF Told
<1>6. AttemptSound(x)
  BY <1>2, <1>1, <1>3, <1>5 DEF AttemptSound
<1> QED BY <1>1, <1>2, <1>6, Inside DEF x

(* _record_and_fail outside of a stage: the audit is complete.             *)
LEMMA StepFails ==
  ASSUME GenInv, NEW g \in Generators, gen[g].pc \in {"accepted", "staged"},
         NEW code \in {"target_conflict", "candidate_inspection_failed", "candidate_identity_mismatch"},
         Update(g, Failing(g, gen[g].runs, code)), staging' \in {staging, staging \ {g}},
         g \notin staging', UNCHANGED <<setting, records, target>>
  PROVE  GenInv'
<1> DEFINE x == Failing(g, gen[g].runs, code)
<1> HIDE DEF x
<1>1. gen[g] \in Attempts /\ AttemptSound(gen[g]) /\ records[g] = NoRecord /\ target # g
  BY InProgress DEF GenInv, Accounted, Places
<1>2. /\ x \in Attempts /\ x.pc = "record" /\ x.runs = gen[g].runs
      /\ x.calls = gen[g].calls /\ x.code = code /\ x.outcome = "failed"
  <2>1. PICK y : y = [gen[g] EXCEPT !.runs = gen[g].runs, !.calling = FALSE]
    OBVIOUS
  <2>2. y \in Attempts /\ y.runs = gen[g].runs /\ y.calls = gen[g].calls
    BY <1>1, <2>1, LeaveStageFields, Zenon DEF Attempts
  <2>3. x = [y EXCEPT !.pc = "record", !.outcome = "failed", !.code = code]
    BY <2>1, Zenon DEF x, Failing, LeaveStage
  <2>4. code \in Codes
    BY DEF Codes
  <2> QED BY ZenonT(30), <2>2, <2>3, <2>4, FailingFields
<1>3. gen[g].code = "" /\ Len(gen[g].runs) = gen[g].calls /\ Told(gen[g].code, gen[g].runs)
  BY <1>1 DEF AttemptSound
<1>4. AttemptSound(x)
  BY <1>2, <1>3 DEF AttemptSound, Told
<1>5. GenTypeOK' /\ gen'[g] = x
  BY <1>2 DEF GenInv, GenTypeOK, Update, x
<1>6. Accounted(g)'
  BY <1>1, <1>2, <1>4, <1>5 DEF Accounted, Places, NoRecord
<1>7. MovesAlone(g)
  BY Zenon DEF MovesAlone, Update
<1> QED BY <1>5, <1>6, <1>7, OthersAccounted

(* An attempt ends without a record.                                       *)
LEMMA Ends ==
  ASSUME GenInv, NEW g \in Generators, gen[g].pc \in Places,
         NEW excuse \in {"none", "killed", "os_error", "target_was_there"},
         Update(g, Exited(g, excuse)), staging' \in {staging, staging \ {g}},
         UNCHANGED <<setting, records>>,
         target' = target \/ (target = g /\ target' = "absent"),
         g \in staging' => excuse = "killed", target' = g => excuse # "none"
  PROVE  GenInv'
<1>1. gen[g] \in Attempts /\ records[g] = NoRecord
  BY InProgress DEF GenInv, Accounted, Places
<1>2. gen'[g] = Exited(g, excuse) /\ Exited(g, excuse) \in Ended
  BY <1>1 DEF GenInv, GenTypeOK, Update, Exited, Ended, Attempts
<1>3. GenTypeOK'
  BY <1>2 DEF GenInv, GenTypeOK, Update
<1>4. Accounted(g)'
  BY <1>1, <1>2 DEF Accounted, Places, NoRecord, Exited
<1>5. MovesAlone(g)
  BY GenerationAssumption DEF MovesAlone, Update
<1> QED BY <1>3, <1>4, <1>5, OthersAccounted

-----------------------------------------------------------------------------
(* A refused answer, and the other ends of a stage.                        *)
LEMMA RepairableKeeps ==
  ASSUME GenInv, setting' = setting, NEW g \in Generators, NEW stage \in {"proposal", "candidate"},
         NEW kind \in {"ok", "failed"}, Repairable(g, stage, kind)
  PROVE  GenInv'
<1>1. InStage(g, stage) /\ UNCHANGED <<setting, records, target, staging>>
  BY DEF Repairable
<1>2. CASE Update(g, NextCall(g, Audit(g, kind)))
  BY <1>1, <1>2, AsksAgain
<1>3. CASE Update(g, Failing(g, Audit(g, kind), "repair_exhausted"))
  BY <1>1, <1>3, StageFails DEF Kinds, Codes
<1> QED BY <1>2, <1>3, Zenon DEF Repairable

LEMMA StageStepKeeps ==
  ASSUME GenInv, setting' = setting, NEW g \in Generators, NEW stage \in {"proposal", "candidate"},
         StageStep(g, stage)
  PROVE  GenInv'
<1>1. CASE InvalidJson(g, stage)
  BY <1>1, RepairableKeeps DEF InvalidJson
<1>2. CASE Unusable(g, stage)
  <2>1. PICK code \in {"model_tool_call", "model_not_completed", "model_empty_answer", "model_failed"} :
          Update(g, Failing(g, Audit(g, "failed"), code))
    BY <1>2 DEF Unusable
  <2>2. code \in Codes /\ code # "model_timeout" /\ code # "model_aborted" /\ "failed" \in Kinds
    BY DEF Codes, Kinds
  <2>3. InStage(g, stage) /\ UNCHANGED <<setting, records, target, staging>>
    BY <1>2 DEF Unusable
  <2> QED BY <2>1, <2>2, <2>3, StageFails
<1>3. CASE StageTimeout(g, stage)
  <2>1. InStage(g, stage) /\ UNCHANGED <<setting, records, target, staging>>
    BY <1>3 DEF StageTimeout
  <2>2. CASE Update(g, TimedOut(g))
    BY <2>1, <2>2, StageFails DEF TimedOut, Kinds, Codes
  <2>3. CASE Update(g, Failing(g, Audit(g, "failed"), "model_failed"))
    BY <2>1, <2>3, StageFails DEF Kinds, Codes
  <2> QED BY <1>3, <2>2, <2>3 DEF StageTimeout
<1>4. CASE StageAborted(g, stage)
  <2>1. InStage(g, stage) /\ UNCHANGED <<setting, records, target, staging>>
        /\ Update(g, Failing(g, Audit(g, "aborted"), "model_aborted"))
    BY <1>4 DEF StageAborted
  <2> QED BY <2>1, StageFails DEF Kinds, Codes
<1> QED BY <1>1, <1>2, <1>3, <1>4 DEF StageStep

LEMMA BeginKeeps ==
  ASSUME GenInv, setting' = setting, NEW g \in Generators, NEW s, Begin(g, s)
  PROVE  GenInv'
<1> DEFINE b == [pc |-> "rest", calling |-> FALSE, attempt |-> 0, calls |-> 0, runs |-> <<>>,
                 outcome |-> "none", code |-> "", conf |-> "none", strategy |-> "none", pre |-> FALSE]
           x == EnterStage(b, "proposal")
<1>1. gen[g] = Rest /\ Update(g, x) /\ UNCHANGED <<setting, records, target, staging>>
  BY Zenon DEF Begin
<1>2. /\ b.calls = 0 /\ b.runs = <<>> /\ b.outcome = "none" /\ b.code = ""
      /\ b \in [pc : {"rest"}, calling : BOOLEAN, attempt : Nat, calls : Nat, runs : Seq(Kinds),
                outcome : {"none"}, code : {""}, conf : {"none"}, strategy : {"none"}, pre : BOOLEAN]
  OBVIOUS
<1>3. x = [b EXCEPT !.pc = "proposal", !.calling = TRUE, !.attempt = 0, !.calls = 1]
  <2>1. b.calls + 1 = 1
    BY <1>2
  <2> QED BY <2>1, Zenon DEF EnterStage
<1> HIDE DEF x, b
<1>5. x \in Attempts
  BY <1>2, <1>3 DEF Attempts, Places, Codes
<1>6. /\ x.runs = <<>> /\ x.calls = 1 /\ x.pc = "proposal" /\ x.code = "" /\ x.outcome = "none"
  BY <1>2, <1>3
<1>7. AttemptSound(x)
  <2>1. Len(<<>>) = 0 /\ DOMAIN <<>> = {} /\ 1 - 1 = 0
    OBVIOUS
  <2>2. Told(x.code, x.runs)
    BY <1>6, <2>1 DEF Told, Has
  <2> QED BY <1>6, <2>1, <2>2 DEF AttemptSound
<1>4. records[g] = NoRecord /\ g \notin staging /\ target # g
  BY <1>1 DEF GenInv, Accounted, Rest
<1> QED BY <1>1, <1>4, <1>5, <1>6, <1>7, Inside

(* The proposal of the model is accepted.                                  *)
LEMMA ProposeKeeps ==
  ASSUME GenInv, setting' = setting, NEW g \in Generators, Propose(g)
  PROVE  GenInv'
<1>1. InStage(g, "proposal") /\ UNCHANGED <<setting, records, target, staging>>
  BY DEF Propose
<1>s. PICK strategy \in ValidStrategies :
         \E y : /\ y = [LeaveStage(g, Audit(g, "ok")) EXCEPT !.strategy = strategy]
               /\ Update(g, IF strategy = "defer"
                            THEN [y EXCEPT !.pc = "record", !.outcome = "deferred"]
                            ELSE [y EXCEPT !.pc = "confirm"])
  BY Zenon DEF Propose
<1>2. PICK y : /\ y = [LeaveStage(g, Audit(g, "ok")) EXCEPT !.strategy = strategy]
               /\ Update(g, IF strategy = "defer"
                            THEN [y EXCEPT !.pc = "record", !.outcome = "deferred"]
                            ELSE [y EXCEPT !.pc = "confirm"])
  BY <1>s
<1>3. strategy \in {"additive", "replacement", "defer"}
  BY DEF ValidStrategies, Proposals
<1>4. /\ gen[g] \in Attempts /\ AttemptSound(gen[g]) /\ gen[g].pc = "proposal"
      /\ records[g] = NoRecord /\ g \notin staging /\ target # g
      /\ Audit(g, "ok") \in Seq(Kinds) /\ Len(Audit(g, "ok")) = gen[g].calls
      /\ \A k : Has(Audit(g, "ok"), k) <=> Has(gen[g].runs, k) \/ k = "ok"
  BY <1>1, StageKinds DEF Kinds
<1>5. PICK z : z = LeaveStage(g, Audit(g, "ok"))
  OBVIOUS
<1>6. /\ z \in Attempts /\ z.runs = Audit(g, "ok") /\ z.calls = gen[g].calls
      /\ z.code = gen[g].code /\ z.outcome = gen[g].outcome
  BY <1>4, <1>5, LeaveStageFields DEF LeaveStage
<1>7. gen[g].code = "" /\ gen[g].outcome = "none" /\ Told(gen[g].code, gen[g].runs)
  BY <1>4 DEF AttemptSound
<1>8. y = [z EXCEPT !.strategy = strategy]
  BY <1>2, <1>5
<1>9. /\ y \in Attempts /\ y.runs = Audit(g, "ok") /\ y.calls = gen[g].calls
      /\ y.code = "" /\ y.outcome = "none"
  BY <1>3, <1>6, <1>7, <1>8 DEF Attempts
<1>10. PICK x : /\ x = IF strategy = "defer" THEN [y EXCEPT !.pc = "record", !.outcome = "deferred"]
                                            ELSE [y EXCEPT !.pc = "confirm"]
               /\ Update(g, x)
  BY <1>2
<1>11. /\ x \in Attempts /\ x.pc \in {"record", "confirm"} /\ x.runs = Audit(g, "ok")
       /\ x.calls = gen[g].calls /\ x.code = "" /\ x.outcome \in {"none", "deferred"}
       /\ x.pc # "record" => x.outcome = "none"
  <2>1. CASE x = [y EXCEPT !.pc = "record", !.outcome = "deferred"]
    BY <1>9, <2>1 DEF Attempts, Places
  <2>2. CASE x = [y EXCEPT !.pc = "confirm"]
    BY <1>9, <2>2 DEF Attempts, Places
  <2> QED BY <1>10, <2>1, <2>2
<1>12. Told(x.code, x.runs)
  BY <1>4, <1>7, <1>11 DEF Told
<1>13. AttemptSound(x)
  BY <1>4, <1>11, <1>12 DEF AttemptSound
<1> QED BY <1>1, <1>4, <1>10, <1>11, <1>13, Inside

(* The human's answer; the second stage begins.                            *)
LEMMA ConfirmKeeps ==
  ASSUME GenInv, setting' = setting, NEW g \in Generators,
         NEW conf \in {"interactive", "preauthorized", "declined"}, Confirm(g, conf)
  PROVE  GenInv'
<1>1. /\ gen[g].pc = "confirm" /\ gen[g] \in Attempts /\ AttemptSound(gen[g])
      /\ records[g] = NoRecord /\ g \notin staging /\ target # g
      /\ UNCHANGED <<setting, records, target, staging>>
  BY InProgress DEF Confirm, GenInv, Accounted, Places
<1>2. PICK y : y = [gen[g] EXCEPT !.conf = conf]
  OBVIOUS
<1>3. Update(g, IF conf = "declined" THEN [y EXCEPT !.pc = "record", !.outcome = "declined"]
                ELSE EnterStage([y EXCEPT !.pre = target # "absent"], "candidate"))
  BY <1>2, Zenon DEF Confirm
<1>4. /\ y \in Attempts /\ y.pc = "confirm" /\ y.runs = gen[g].runs /\ y.calls = gen[g].calls
      /\ y.code = gen[g].code /\ y.outcome = gen[g].outcome
  BY <1>1, <1>2 DEF Attempts
<1>5. /\ gen[g].code = "" /\ gen[g].outcome = "none" /\ Len(gen[g].runs) = gen[g].calls
      /\ Told(gen[g].code, gen[g].runs) /\ gen[g].calls \in Nat
  BY <1>1 DEF AttemptSound, Attempts
<1>6. CASE conf = "declined"
  <2>1. PICK x : x = [y EXCEPT !.pc = "record", !.outcome = "declined"]
    OBVIOUS
  <2>2. /\ x \in Attempts /\ x.pc = "record" /\ x.runs = gen[g].runs /\ x.calls = gen[g].calls
        /\ x.code = "" /\ x.outcome = "declined"
    BY <1>4, <1>5, <2>1 DEF Attempts, Places
  <2>3. AttemptSound(x)
    BY <1>5, <2>2 DEF AttemptSound
  <2>4. Update(g, x)
    BY <1>3, <1>6, <2>1
  <2> QED BY <1>1, <2>2, <2>3, <2>4, Inside
<1>7. CASE conf # "declined"
  <2>1. PICK z : z = [y EXCEPT !.pre = target # "absent"]
    OBVIOUS
  <2>2. /\ z \in Attempts /\ z.runs = gen[g].runs /\ z.calls = gen[g].calls
        /\ z.code = "" /\ z.outcome = "none"
    <3>1. (target # "absent") \in BOOLEAN
      OBVIOUS
    <3>2. PICK b \in BOOLEAN : b = (target # "absent")
      BY <3>1, Zenon
    <3>3. z = [y EXCEPT !.pre = b]
      BY <2>1, <3>2, Zenon
    <3> QED BY <1>4, <1>5, <3>3 DEF Attempts
  <2>3. PICK c \in Nat, n \in Nat : z.calls = c /\ n = z.calls + 1 /\ n - 1 = c
    <3>1. z.calls \in Nat
      BY <2>2 DEF Attempts
    <3>2. z.calls + 1 \in Nat /\ (z.calls + 1) - 1 = z.calls
      BY <3>1
    <3> QED BY <3>1, <3>2, Zenon
  <2>4. PICK x : x = [z EXCEPT !.pc = "candidate", !.calling = TRUE, !.attempt = 0, !.calls = n]
    OBVIOUS
  <2>5. /\ x \in Attempts /\ x.pc = "candidate" /\ x.runs = gen[g].runs /\ x.calls = n
        /\ x.code = "" /\ x.outcome = "none"
    BY <2>2, <2>4 DEF Attempts, Places
  <2>6. n - 1 = gen[g].calls
    BY <2>2, <2>3, Zenon
  <2>7. AttemptSound(x)
    BY <1>5, <2>5, <2>6 DEF AttemptSound
  <2>8. Update(g, EnterStage(z, "candidate"))
    BY <1>3, <1>7, <2>1
  <2>9. Update(g, x)
    BY <2>3, <2>4, <2>8, Zenon DEF EnterStage
  <2> QED BY <1>1, <2>5, <2>7, <2>9, Inside
<1> QED BY <1>6, <1>7

LEMMA BundleAcceptedKeeps ==
  ASSUME GenInv, setting' = setting, NEW g \in Generators, BundleAccepted(g)
  PROVE  GenInv'
<1>1. InStage(g, "candidate") /\ UNCHANGED <<setting, records, target, staging>>
  BY DEF BundleAccepted
<1>2. /\ gen[g] \in Attempts /\ AttemptSound(gen[g]) /\ gen[g].pc = "candidate"
      /\ records[g] = NoRecord /\ g \notin staging /\ target # g
      /\ Audit(g, "ok") \in Seq(Kinds) /\ Len(Audit(g, "ok")) = gen[g].calls
      /\ \A k : Has(Audit(g, "ok"), k) <=> Has(gen[g].runs, k) \/ k = "ok"
  BY <1>1, StageKinds DEF Kinds
<1>3. PICK y : y = LeaveStage(g, Audit(g, "ok"))
  OBVIOUS
<1>4. /\ y \in Attempts /\ y.runs = Audit(g, "ok") /\ y.calls = gen[g].calls
      /\ y.code = gen[g].code /\ y.outcome = gen[g].outcome
  BY <1>2, <1>3, LeaveStageFields DEF LeaveStage
<1>5. gen[g].code = "" /\ gen[g].outcome = "none" /\ Told(gen[g].code, gen[g].runs)
  BY <1>2 DEF AttemptSound
<1>6. PICK x : x = [y EXCEPT !.pc = "accepted"]
  OBVIOUS
<1>7. /\ x \in Attempts /\ x.pc = "accepted" /\ x.runs = Audit(g, "ok") /\ x.calls = gen[g].calls
      /\ x.code = "" /\ x.outcome = "none"
  BY <1>4, <1>5, <1>6 DEF Attempts, Places
<1>8. Told(x.code, x.runs)
  BY <1>2, <1>5, <1>7 DEF Told
<1>9. AttemptSound(x)
  BY <1>2, <1>7, <1>8 DEF AttemptSound
<1>10. Update(g, x)
  BY <1>3, <1>6, Zenon DEF BundleAccepted
<1> QED BY <1>1, <1>2, <1>7, <1>9, <1>10, Inside

(* The same attempt at another place, its audit complete.                  *)
LEMMA Advances ==
  ASSUME NEW a \in Attempts, AttemptSound(a), a.pc \in {"accepted", "stage", "staged"},
         NEW place \in {"stage", "staged"}, NEW x, x = [a EXCEPT !.pc = place]
  PROVE  x \in Attempts /\ AttemptSound(x) /\ x.pc = place /\ x.outcome = "none"
<1>1. /\ x \in Attempts /\ x.pc = place /\ x.runs = a.runs /\ x.calls = a.calls
      /\ x.code = a.code /\ x.outcome = a.outcome
  BY DEF Attempts, Places
<1> QED BY <1>1 DEF AttemptSound

LEMMA CheckTargetKeeps ==
  ASSUME GenInv, setting' = setting, NEW g \in Generators, CheckTarget(g)
  PROVE  GenInv'
<1>1. /\ gen[g].pc = "accepted" /\ gen[g] \in Attempts /\ AttemptSound(gen[g])
      /\ records[g] = NoRecord /\ g \notin staging /\ target # g
      /\ UNCHANGED <<setting, records, staging>>
  BY InProgress DEF CheckTarget, GenInv, Accounted, Places
<1>2. CASE target \in {"absent", "empty"}
  <2>1. PICK x : x = [gen[g] EXCEPT !.pc = "stage"]
    OBVIOUS
  <2>2. x \in Attempts /\ AttemptSound(x) /\ x.pc = "stage" /\ x.outcome = "none"
    BY ZenonT(30), <1>1, <2>1, Advances
  <2>3. Update(g, x) /\ target' = "absent"
    BY <1>2, <2>1 DEF CheckTarget
  <2>4. GenTypeOK' /\ gen'[g] = x
    BY <1>1, <2>2, <2>3 DEF GenInv, GenTypeOK, Update
  <2>5. Accounted(g)'
    BY <1>1, <2>2, <2>3, <2>4, GenerationAssumption DEF Accounted, Places, NoRecord
  <2>6. MovesAlone(g)
    BY <1>1, <1>2, <2>3, GenerationAssumption DEF MovesAlone, Update
  <2> QED BY <2>4, <2>5, <2>6, OthersAccounted
<1>3. CASE target \notin {"absent", "empty"}
  <2>1. Update(g, Failing(g, gen[g].runs, "target_conflict")) /\ UNCHANGED target
    BY <1>3 DEF CheckTarget
  <2> QED BY <1>1, <2>1, StepFails
<1> QED BY <1>2, <1>3

LEMMA WriteStagedKeeps ==
  ASSUME GenInv, setting' = setting, NEW g \in Generators, WriteStaged(g)
  PROVE  GenInv'
<1>1. /\ gen[g].pc = "stage" /\ gen[g] \in Attempts /\ AttemptSound(gen[g])
      /\ records[g] = NoRecord /\ target # g /\ staging' = staging \union {g}
      /\ UNCHANGED <<setting, records, target>>
  BY InProgress DEF WriteStaged, GenInv, Accounted, Places
<1>2. PICK x : x = [gen[g] EXCEPT !.pc = "staged"]
  OBVIOUS
<1>3. x \in Attempts /\ AttemptSound(x) /\ x.pc = "staged" /\ x.outcome = "none"
  BY <1>1, <1>2, Advances
<1>4. Update(g, x)
  BY <1>2 DEF WriteStaged
<1>5. GenTypeOK' /\ gen'[g] = x
  BY <1>1, <1>3, <1>4 DEF GenInv, GenTypeOK, Update
<1>6. Accounted(g)'
  BY <1>1, <1>3, <1>5 DEF Accounted, Places, NoRecord
<1>7. MovesAlone(g)
  BY <1>1, <1>4 DEF MovesAlone, Update
<1> QED BY <1>5, <1>6, <1>7, OthersAccounted

LEMMA CandidateRefusedKeeps ==
  ASSUME GenInv, setting' = setting, NEW g \in Generators, CandidateRefused(g)
  PROVE  GenInv'
<1>1. gen[g].pc = "staged" /\ staging' = staging \ {g} /\ UNCHANGED <<setting, records, target>>
  BY DEF CandidateRefused
<1>2. PICK code \in {"candidate_inspection_failed", "candidate_identity_mismatch"} :
        Update(g, Failing(g, gen[g].runs, code))
  BY DEF CandidateRefused
<1> QED BY <1>1, <1>2, StepFails

LEMMA StagingFailsKeeps ==
  ASSUME GenInv, setting' = setting, NEW g \in Generators, StagingFails(g)
  PROVE  GenInv'
<1>1. /\ gen[g].pc \in {"stage", "staged"} /\ Update(g, Exited(g, "os_error"))
      /\ staging' = staging \ {g} /\ UNCHANGED <<setting, records, target>>
  BY DEF StagingFails
<1>2. gen[g].pc \in Places
  BY <1>1 DEF Places
<1> QED BY <1>1, <1>2, Ends

LEMMA MoveCandidateKeeps ==
  ASSUME GenInv, setting' = setting, NEW g \in Generators, MoveCandidate(g)
  PROVE  GenInv'
<1>1. /\ gen[g].pc = "staged" /\ gen[g] \in Attempts /\ AttemptSound(gen[g])
      /\ records[g] = NoRecord /\ target # g /\ staging' = staging \ {g}
      /\ UNCHANGED <<setting, records>>
  BY InProgress DEF MoveCandidate, GenInv, Accounted, Places
<1>2. CASE target \in {"absent", "empty"}
  <2>1. PICK x : x = [gen[g] EXCEPT !.pc = "record", !.outcome = "generated"]
    OBVIOUS
  <2>2. /\ x \in Attempts /\ x.pc = "record" /\ x.runs = gen[g].runs /\ x.calls = gen[g].calls
        /\ x.code = gen[g].code /\ x.outcome = "generated"
    BY <1>1, <2>1 DEF Attempts, Places
  <2>3. AttemptSound(x)
    BY <1>1, <2>2 DEF AttemptSound
  <2>4. Update(g, x) /\ target' = g
    BY <1>2, <2>1 DEF MoveCandidate, Moved
  <2>5. GenTypeOK' /\ gen'[g] = x
    BY <1>1, <2>2, <2>4 DEF GenInv, GenTypeOK, Update
  <2>6. Accounted(g)'
    BY <1>1, <2>2, <2>3, <2>4, <2>5 DEF Accounted, Places, NoRecord
  <2>7. MovesAlone(g)
    BY <1>1, <1>2, <2>4, GenerationAssumption DEF MovesAlone, Update
  <2> QED BY <2>5, <2>6, <2>7, OthersAccounted
<1>3. CASE target \notin {"absent", "empty"}
  <2>1. UNCHANGED target /\ Update(g, Exited(g, "os_error"))
    BY <1>3 DEF MoveCandidate, Moved
  <2>2. gen[g].pc \in Places /\ g \notin staging'
    BY <1>1 DEF Places
  <2> QED BY <1>1, <2>1, <2>2, Ends
<1> QED BY <1>2, <1>3

(* The record is what the attempt was; a generation was confirmed.         *)
LEMMA SaveRecordKeeps ==
  ASSUME GenInv, setting' = setting, NEW g \in Generators, SaveRecord(g)
  PROVE  GenInv'
<1>1. /\ gen[g].pc = "record" /\ gen[g] \in Attempts /\ AttemptSound(gen[g])
      /\ g \notin staging /\ (target = g <=> gen[g].outcome = "generated")
  BY InProgress DEF SaveRecord, GenInv, Accounted, Places
<1>2. /\ records' = [records EXCEPT ![g] = RecordOf(g)] /\ Update(g, Exited(g, "none"))
      /\ OutcomeValid(RecordOf(g)) /\ UNCHANGED <<setting, target, staging>>
  BY DEF SaveRecord
<1>3. /\ gen'[g] = Exited(g, "none") /\ Exited(g, "none") \in Ended
      /\ records'[g] = RecordOf(g) /\ RecordOf(g) \in Recorded
  BY <1>1, <1>2 DEF GenInv, GenTypeOK, Update, Exited, Ended, Attempts, RecordOf, Recorded
<1>4. GenTypeOK'
  BY <1>2, <1>3 DEF GenInv, GenTypeOK, Update
<1>5. gen[g].outcome = "generated" => gen[g].conf # "declined"
  BY <1>2 DEF OutcomeValid, RecordOf
<1>6. Len(gen[g].runs) = gen[g].calls /\ Told(gen[g].code, gen[g].runs)
  BY <1>1 DEF AttemptSound
<1>7. Accounted(g)'
  BY <1>1, <1>2, <1>3, <1>5, <1>6 DEF Accounted, Places, Exited, RecordOf
<1>8. MovesAlone(g)
  BY <1>2 DEF MovesAlone, Update, GenInv, GenTypeOK
<1> QED BY <1>4, <1>7, <1>8, OthersAccounted

LEMMA SaveFailsKeeps ==
  ASSUME GenInv, setting' = setting, NEW g \in Generators, SaveFails(g)
  PROVE  GenInv'
<1>1. /\ gen[g].pc = "record" /\ gen[g] \in Attempts
      /\ g \notin staging /\ (target = g <=> gen[g].outcome = "generated")
  BY InProgress DEF SaveFails, GenInv, Accounted, Places
<1>2. PICK excuse \in {"none", "target_was_there"} :
        Update(g, Exited(g, excuse)) /\ excuse = IF gen[g].pre THEN "target_was_there" ELSE "none"
  BY DEF SaveFails
<1>3. UNCHANGED <<setting, records, staging>> /\ Cleanup(g) /\ gen[g].pc \in Places
  BY <1>1 DEF SaveFails, Places
<1>4. /\ target' = target \/ (target = g /\ target' = "absent")
      /\ target' = g => excuse # "none"
  BY <1>1, <1>2, <1>3, GenerationAssumption DEF Cleanup
<1> QED BY <1>1, <1>2, <1>3, <1>4, Ends

LEMMA KilledKeeps ==
  ASSUME GenInv, setting' = setting, NEW g \in Generators, Killed(g) \/ SaveOrCleanupFails(g)
  PROVE  GenInv'
<1>1. gen[g].pc \in Places
  BY DEF Killed, SaveOrCleanupFails, GenInv, GenTypeOK, Attempts, Ended, Places
<1>2. CASE Killed(g)
  BY <1>1, <1>2, Ends DEF Killed
<1>3. CASE SaveOrCleanupFails(g)
  <2>1. g \notin staging /\ UNCHANGED <<setting, records, target, staging>> /\ Update(g, Exited(g, "os_error"))
    BY <1>3 DEF SaveOrCleanupFails, GenInv, Accounted
  <2> QED BY <1>1, <2>1, Ends
<1> QED BY <1>2, <1>3

LEMMA UserKeeps ==
  ASSUME GenInv, setting' = setting, UserMakes \/ UserFills
  PROVE  GenInv'
<1>1. /\ target \in {"absent", "empty"} /\ target' \in {"empty", "foreign"}
      /\ UNCHANGED <<setting, gen, records, staging>>
  BY DEF UserMakes, UserFills
<1>2. GenTypeOK'
  BY <1>1 DEF GenInv, GenTypeOK
<1>3. ASSUME NEW g \in Generators PROVE Accounted(g)'
  BY <1>1, GenerationAssumption DEF GenInv, Accounted
<1> QED BY <1>2, <1>3 DEF GenInv

LEMMA AttemptStepKeeps ==
  ASSUME GenInv, setting' = setting, NEW g \in Generators, AttemptStep(g)
  PROVE  GenInv'
<1>1. CASE \E s \in Sigs : Begin(g, s)
  BY <1>1, BeginKeeps
<1>2. CASE \E stage \in {"proposal", "candidate"} : StageStep(g, stage)
  BY <1>2, StageStepKeeps
<1>3. CASE ProposalRefused(g)
  BY <1>3, RepairableKeeps DEF ProposalRefused
<1>4. CASE Propose(g)
  BY <1>4, ProposeKeeps
<1>5. CASE \E conf \in {"interactive", "preauthorized", "declined"} : Confirm(g, conf)
  BY <1>5, ConfirmKeeps
<1>6. CASE BundleRefused(g)
  BY <1>6, RepairableKeeps DEF BundleRefused
<1>7. CASE BundleAccepted(g)
  BY <1>7, BundleAcceptedKeeps
<1>8. CASE CheckTarget(g)
  BY <1>8, CheckTargetKeeps
<1>9. CASE WriteStaged(g)
  BY <1>9, WriteStagedKeeps
<1>10. CASE CandidateRefused(g)
  BY <1>10, CandidateRefusedKeeps
<1>11. CASE StagingFails(g)
  BY <1>11, StagingFailsKeeps
<1>12. CASE MoveCandidate(g)
  BY <1>12, MoveCandidateKeeps
<1>13. CASE SaveRecord(g)
  BY <1>13, SaveRecordKeeps
<1>14. CASE SaveFails(g)
  BY <1>14, SaveFailsKeeps
<1>15. CASE SaveOrCleanupFails(g) \/ Killed(g)
  BY <1>15, KilledKeeps
<1> QED
  BY <1>1, <1>2, <1>3, <1>4, <1>5, <1>6, <1>7, <1>8, <1>9, <1>10, <1>11, <1>12, <1>13, <1>14, <1>15,
     Zenon DEF AttemptStep

(* The Harness that writes a Trace leaves the scope.                       *)
LEMMA TraceLeavesSetting == TraceNext => setting' = setting
BY DEF TraceNext, RuntimeEvent, SessionEvaluation, SeparatedText, TraceStep, BeginCall, Evaluate, Ask, Answer, EndCall, Crash

LEMMA GenNextKeeps == GenInv /\ [GenerationNext]_allVars => GenInv'
<1> SUFFICES ASSUME GenInv, [GenerationNext]_allVars PROVE GenInv'
  OBVIOUS
<1>1. CASE UNCHANGED genVars /\ setting' = setting
  BY <1>1, Zenon DEF genVars, GenInv, GenTypeOK, Accounted
<1>2. CASE GenNext /\ UNCHANGED traceVars
  <2>1. setting' = setting
    BY <1>2 DEF traceVars
  <2>2. CASE UserMakes \/ UserFills
    BY <2>1, <2>2, UserKeeps
  <2>3. ASSUME NEW g \in setting.active, AttemptStep(g) PROVE GenInv'
    BY <2>1, <2>3, AttemptStepKeeps DEF GenInv, GenTypeOK
  <2> QED BY <1>2, <2>2, <2>3 DEF GenNext
<1> QED BY <1>1, <1>2, TraceLeavesSetting DEF GenerationNext, allVars, genVars

-----------------------------------------------------------------------------
(* The inductive invariant of the generations.                             *)
THEOREM GenerationInvariant == GenSpec => []GenInv
BY GenInitHolds, GenNextKeeps, PTL DEF GenSpec

(* A candidate that stays has the record of a confirmed generation, and a  *)
(* record of a generation has its candidate, unless the process was killed,*)
(* the file system failed or the directory was there before                *)
(* (_run_generation, _cleanup_created_target).                             *)
THEOREM CandidatesAccounted == GenSpec => []CandidateAccounted
<1>1. GenInv => CandidateAccounted
  BY DEF GenInv, Accounted, CandidateAccounted
<1> QED BY <1>1, GenerationInvariant, PTL

(* The record of an attempt has one audit entry of every model call, and   *)
(* tells a deadline from an interrupt (run_json_repairable).               *)
THEOREM AuditsComplete == GenSpec => []AuditComplete
<1>1. GenInv => AuditComplete
  BY DEF GenInv, Accounted, AuditComplete, Told, Has
<1> QED BY <1>1, GenerationInvariant, PTL

(* What a user has put at the target and the candidate of a process that   *)
(* has ended stay (the empty-directory rule of os.replace).                *)
THEOREM TargetIsKept == GenSpec => TargetKept
<1> DEFINE Kept == target = "foreign" \/ \E g \in Generators : target = g /\ gen[g].pc = "exited"
<1>1. GenInv /\ [GenerationNext]_allVars /\ Kept => target' = target
  <2> SUFFICES ASSUME GenInv, [GenerationNext]_allVars, Kept PROVE target' = target
    OBVIOUS
  <2>1. target \notin {"absent", "empty"}
    BY GenerationAssumption
  <2>2. ASSUME NEW g \in Generators, target = g, gen[g].pc # "exited" PROVE FALSE
    BY <2>2, GenerationAssumption
  <2>3. ASSUME NEW g \in setting.active, AttemptStep(g) PROVE target' = target
    <3>1. g \in Generators
      BY <2>3 DEF GenInv, GenTypeOK
    <3>2. CASE CheckTarget(g)
      BY <2>1, <3>2 DEF CheckTarget
    <3>3. CASE MoveCandidate(g)
      BY <2>1, <3>3 DEF MoveCandidate, Moved
    <3>4. CASE SaveFails(g)
      BY <2>2, <3>1, <3>4 DEF SaveFails, Cleanup, GenInv, Accounted
    <3> QED BY <2>3, <3>2, <3>3, <3>4 DEF AttemptStep, Begin, StageStep, InvalidJson, Repairable, Unusable,
      StageTimeout, StageAborted, ProposalRefused, Propose, Confirm, BundleRefused, BundleAccepted,
      WriteStaged, CandidateRefused, StagingFails, SaveRecord, SaveOrCleanupFails, Killed
  <2>4. CASE UserMakes \/ UserFills
    BY <2>1, <2>4 DEF UserMakes, UserFills
  <2> QED BY <2>3, <2>4 DEF GenerationNext, GenNext, allVars, genVars
<1>2. GenInv /\ [GenerationNext]_allVars => [Kept => target' = target]_allVars
  BY <1>1
<1> QED BY <1>2, GenerationInvariant, PTL DEF GenSpec, TargetKept

(***************************************************************************)
(* TraceEvidence.                                                          *)
(***************************************************************************)
-----------------------------------------------------------------------------
(* The n first of a finite set by keys that differ: there are n of them,   *)
(* or all, and who is before one of them is one of them.                   *)
LEMMA LeastOf ==
  ASSUME NEW S \in SUBSET Nat, S # {}
  PROVE  \E m \in S : \A x \in S : m <= x
<1>1. PICK m \in S : \A x \in S : <<x, m>> \notin OpToRel(<, Nat)
  BY WFMin, NatLessThanWellFounded, Zenon
<1>2. \A x \in S : ~(x < m)
  BY <1>1 DEF OpToRel
<1> QED BY <1>2

Keyed(S, key) == IsFiniteSet(S) /\ (\A x \in S : key[x] \in Nat) /\ \A x, y \in S : key[x] = key[y] => x = y
Below(S, key, x) == {y \in S : key[y] < key[x]}

LEMMA LeastKey ==
  ASSUME NEW S, NEW key, \A x \in S : key[x] \in Nat, S # {}
  PROVE  \E m \in S : \A x \in S : key[m] <= key[x]
<1> DEFINE K == {key[x] : x \in S}
<1>1. K \in SUBSET Nat /\ K # {}
  OBVIOUS
<1>2. PICK k \in K : \A x \in K : k <= x
  <2> HIDE DEF K
  <2> QED BY <1>1, LeastOf
<1> QED BY <1>2

LEMMA BelowIsFinite ==
  ASSUME NEW S, NEW key, Keyed(S, key), NEW x \in S
  PROVE  /\ IsFiniteSet(Below(S, key, x)) /\ Cardinality(Below(S, key, x)) \in Nat
         /\ \A y \in S : key[x] <= key[y] => Cardinality(Below(S, key, x)) <= Cardinality(Below(S, key, y))
<1>1. \A y : Below(S, key, y) \subseteq S
  BY DEF Below
<1>2. \A y : IsFiniteSet(Below(S, key, y)) /\ Cardinality(Below(S, key, y)) \in Nat
  BY <1>1, FS_Subset, FS_CardinalityType DEF Keyed
<1>3. ASSUME NEW y \in S, key[x] <= key[y] PROVE Below(S, key, x) \subseteq Below(S, key, y)
  BY <1>3 DEF Below, Keyed
<1> QED BY <1>2, <1>3, FS_Subset

LEMMA FirstIsClosed ==
  ASSUME NEW S, NEW key, Keyed(S, key), NEW n \in Nat
  PROVE  /\ First(S, key, n) \subseteq S /\ IsFiniteSet(First(S, key, n)) /\ Cardinality(First(S, key, n)) \in Nat
         /\ \A x \in First(S, key, n), y \in S : key[y] <= key[x] => y \in First(S, key, n)
<1>1. First(S, key, n) = {x \in S : Cardinality(Below(S, key, x)) < n}
  BY Zenon DEF First, Below
<1>2. First(S, key, n) \subseteq S
  BY <1>1
<1>3. ASSUME NEW x \in First(S, key, n), NEW y \in S, key[y] <= key[x] PROVE y \in First(S, key, n)
  <2>1. x \in S /\ Cardinality(Below(S, key, x)) < n /\ Cardinality(Below(S, key, x)) \in Nat
    BY <1>1, BelowIsFinite
  <2>2. Cardinality(Below(S, key, y)) <= Cardinality(Below(S, key, x)) /\ Cardinality(Below(S, key, y)) \in Nat
    BY <2>1, <1>3, BelowIsFinite
  <2> QED BY <1>1, <2>1, <2>2
<1> QED BY <1>2, <1>3, FS_Subset, FS_CardinalityType DEF Keyed

(* One more: the element with the least key outside of the n first.        *)
LEMMA FirstGrows ==
  ASSUME NEW S, NEW key, Keyed(S, key), NEW n \in Nat,
         Cardinality(First(S, key, n)) = (IF Cardinality(S) < n THEN Cardinality(S) ELSE n)
  PROVE  Cardinality(First(S, key, n + 1)) = (IF Cardinality(S) < n + 1 THEN Cardinality(S) ELSE n + 1)
<1> DEFINE F == First(S, key, n)
           G == First(S, key, n + 1)
<1>1. /\ F \subseteq S /\ IsFiniteSet(F) /\ \A x \in F, y \in S : key[y] <= key[x] => y \in F
      /\ G \subseteq S /\ IsFiniteSet(G)
  BY FirstIsClosed
<1>2. Cardinality(S) \in Nat /\ Cardinality(F) \in Nat
  BY <1>1, FS_CardinalityType DEF Keyed
<1>3. /\ F = {x \in S : Cardinality(Below(S, key, x)) < n}
      /\ G = {x \in S : Cardinality(Below(S, key, x)) < n + 1}
      /\ \A x \in S : Cardinality(Below(S, key, x)) \in Nat
  <2>1. \A x \in S : Cardinality(Below(S, key, x)) \in Nat
    BY BelowIsFinite
  <2>2. F = {x \in S : Cardinality(Below(S, key, x)) < n}
    BY Zenon DEF First, Below
  <2>3. G = {x \in S : Cardinality(Below(S, key, x)) < n + 1}
    BY Zenon DEF First, Below
  <2> QED BY <2>1, <2>2, <2>3
<1>4. F \subseteq G
  BY <1>3
<1> HIDE DEF F, G
<1>5. CASE F = S
  <2>1. G = S
    BY <1>1, <1>4, <1>5
  <2> QED BY <1>5, <2>1, <1>2 DEF F, G
<1>6. CASE F # S
  <2>1. PICK m \in S \ F : \A x \in S \ F : key[m] <= key[x]
    <3>1. S \ F # {} /\ \A x \in S \ F : key[x] \in Nat
      BY <1>1, <1>6 DEF Keyed
    <3> QED BY <3>1, LeastKey
  <2>2. Below(S, key, m) = F
    <3>1. ASSUME NEW y \in Below(S, key, m) PROVE y \in F
      BY <2>1 DEF Below, Keyed
    <3>2. ASSUME NEW y \in F PROVE y \in Below(S, key, m)
      <4>1. ~(key[m] <= key[y])
        BY <1>1, <2>1
      <4> QED BY <4>1, <1>1, <2>1 DEF Below, Keyed
    <3> QED BY <3>1, <3>2
  <2>3. Cardinality(F) = n /\ n < Cardinality(S)
    <3>1. ~(Cardinality(F) < n)
      BY <2>1, <2>2, <1>3
    <3>2. Cardinality(F \union {m}) = Cardinality(F) + 1 /\ IsFiniteSet(F \union {m})
      BY <1>1, <2>1, FS_AddElement
    <3>3. Cardinality(F \union {m}) <= Cardinality(S)
      BY <3>2, <1>1, <2>1, FS_Subset DEF Keyed
    <3> QED BY <3>1, <3>2, <3>3, <1>2 DEF F
  <2>4. m \in G
    BY <2>1, <2>2, <2>3, <1>3
  <2>5. ASSUME NEW y \in G, y \notin F, y # m PROVE FALSE
    <3>1. y \in S /\ key[m] < key[y]
      BY <2>1, <2>5, <1>1 DEF Keyed
    <3>2. F \union {m} \subseteq Below(S, key, y)
      <4>1. \A x \in F : key[x] < key[m]
        BY <2>2 DEF Below
      <4> QED BY <4>1, <3>1, <2>1, <1>1 DEF Below, Keyed
    <3>3. Cardinality(F \union {m}) = n + 1 /\ IsFiniteSet(F \union {m})
      BY <1>1, <2>1, <2>3, FS_AddElement
    <3>4. n + 1 <= Cardinality(Below(S, key, y))
      BY <3>1, <3>2, <3>3, BelowIsFinite, FS_Subset
    <3> QED BY <3>1, <3>4, <1>3, <2>5
  <2>6. G = F \union {m}
    BY <2>4, <2>5, <1>4
  <2>7. Cardinality(G) = n + 1
    BY <2>6, <2>3, <1>1, <2>1, FS_AddElement
  <2> QED BY <2>7, <2>3, <1>2 DEF G
<1> QED BY <1>5, <1>6

LEMMA FirstCounts ==
  ASSUME NEW S, NEW key, Keyed(S, key), NEW n \in Nat
  PROVE  Cardinality(First(S, key, n)) = (IF Cardinality(S) < n THEN Cardinality(S) ELSE n)
<1> DEFINE Right(k) == Cardinality(First(S, key, k)) = (IF Cardinality(S) < k THEN Cardinality(S) ELSE k)
           Wrong == {k \in Nat : ~Right(k)}
<1>0. Cardinality(S) \in Nat
  BY FS_CardinalityType DEF Keyed
<1>1. Right(0)
  <2>1. First(S, key, 0) = {}
    <3>1. \A x \in S : Cardinality(Below(S, key, x)) \in Nat
      BY BelowIsFinite
    <3>2. First(S, key, 0) = {x \in S : Cardinality(Below(S, key, x)) < 0}
      BY Zenon DEF First, Below
    <3> QED BY <3>1, <3>2
  <2> QED BY <2>1, <1>0, FS_EmptySet
<1>2. ASSUME NEW k \in Nat, Right(k) PROVE Right(k + 1)
  BY <1>2, FirstGrows
<1> HIDE DEF Right
<1>3. Wrong = {}
  <2> SUFFICES ASSUME Wrong # {} PROVE FALSE
    OBVIOUS
  <2>1. PICK k \in Wrong : \A x \in Wrong : k <= x
    BY LeastOf
  <2>2. k \in Nat /\ k # 0 /\ ~Right(k)
    BY <1>1, <2>1
  <2>3. k - 1 \in Nat /\ Right(k - 1)
    BY <2>1, <2>2
  <2>4. Right((k - 1) + 1)
    BY <1>2, <2>3
  <2>5. (k - 1) + 1 = k
    BY <2>2
  <2> QED BY <2>2, <2>4, <2>5
<1>4. Right(n)
  BY <1>3
<1> QED BY <1>4 DEF Right

-----------------------------------------------------------------------------
(* The selection of evidence, for references that have different lines of  *)
(* the Trace and a decision of a human.                                    *)
Distinct(refs, n) ==
  /\ IsFiniteSet(refs) /\ \A x \in refs : x.line \in 1 .. n /\ x.decision \in Decisions
  /\ \A x, y \in refs : x.line = y.line => x = y

Side(x, d) == {y \in x : y.decision = d}
Balanced(refs, sel) ==
  /\ Cardinality(sel) = (IF Cardinality(refs) < MaxEvidence THEN Cardinality(refs) ELSE MaxEvidence)
  /\ \A d \in Decisions :
       /\ (Side(refs, d) # {} /\ MaxEvidence > 1) => Side(sel, d) # {}
       /\ (\E x, y \in Side(sel, d) : x # y /\ x.run = y.run)
            => {x.run : x \in Side(refs, d)} = {x.run : x \in Side(sel, d)}

(* A Run is taken again after every Run was taken.                         *)
LEMMA EveryRunFirst ==
  ASSUME NEW S, NEW n \in Nat, Len(trace) \in Nat, Distinct(S, Len(trace))
  PROVE  /\ Keyed(S, GroupByRun(S))
         /\ \A x, y \in First(S, GroupByRun(S), n) : (x # y /\ x.run = y.run)
              => {z.run : z \in S} = {z.run : z \in First(S, GroupByRun(S), n)}
<1> DEFINE key == GroupByRun(S)
           repeats(x) == \E y \in S : y.run = x.run /\ y.line < x.line
           F == First(S, key, n)
<1>1. \A x \in S : key[x] = IF repeats(x) THEN Len(trace) + x.line ELSE x.line
  BY DEF GroupByRun
<1>2. /\ \A x \in S : x.line \in 1 .. Len(trace)
      /\ \A x, y \in S : x.line = y.line => x = y
  BY DEF Distinct
<1> HIDE DEF key, repeats
<1>3. Keyed(S, key)
  <2>1. \A x \in S : key[x] \in Nat
    BY <1>1, <1>2
  <2>2. \A x, y \in S : key[x] = key[y] => x.line = y.line
    BY <1>1, <1>2
  <2> QED BY <2>1, <2>2, <1>2 DEF Keyed, Distinct
<1>4. /\ F \subseteq S
      /\ \A x \in F, y \in S : key[y] <= key[x] => y \in F
  BY <1>3, FirstIsClosed
<1> HIDE DEF F
<1>5. ASSUME NEW x \in F, NEW y \in F, x # y, x.run = y.run
      PROVE  {z.run : z \in S} = {z.run : z \in F}
  <2>1. PICK w \in F : key[w] > Len(trace)
    <3>1. CASE x.line < y.line
      <4>1. repeats(y)
        BY <1>4, <1>5, <3>1 DEF repeats
      <4> QED BY <4>1, <1>1, <1>2, <1>4
    <3>2. CASE y.line < x.line
      <4>1. repeats(x)
        BY <1>4, <1>5, <3>2 DEF repeats
      <4> QED BY <4>1, <1>1, <1>2, <1>4
    <3> QED BY <3>1, <3>2, <1>2, <1>4, <1>5
  <2>2. ASSUME NEW z \in S PROVE \E v \in F : v.run = z.run
    <3> DEFINE Z == {u \in S : u.run = z.run}
               line == [u \in Z |-> u.line]
    <3>1. Z # {} /\ \A u \in Z : line[u] \in Nat
      BY <1>2
    <3>2. PICK v \in Z : \A u \in Z : line[v] <= line[u]
      <4> HIDE DEF Z, line
      <4> QED BY <3>1, LeastKey
    <3>3. v \in S /\ v.run = z.run /\ \A u \in S : u.run = z.run => v.line <= u.line
      BY <3>2
    <3> HIDE DEF Z, line
    <3>4. ~repeats(v)
      BY <3>3, <1>2 DEF repeats
    <3>5. key[v] <= key[w]
      BY <3>3, <3>4, <2>1, <1>1, <1>2, <1>4
    <3> QED BY <3>3, <3>5, <2>1, <1>4
  <2> QED BY <2>2, <1>4
<1> QED BY <1>3, <1>5 DEF F, key

LEMMA Halves ==
  ASSUME NEW m \in Nat \ {0}
  PROVE  m \div 2 \in Nat /\ (m + 1) \div 2 = m - (m \div 2) /\ m \div 2 < m /\ (m > 1 => m \div 2 > 0)
OBVIOUS

LEMMA Sides ==
  ASSUME NEW refs, IsFiniteSet(refs), \A x \in refs : x.decision \in Decisions
  PROVE  /\ IsFiniteSet(Side(refs, "approve")) /\ IsFiniteSet(Side(refs, "deny"))
         /\ Cardinality(Side(refs, "approve")) \in Nat /\ Cardinality(Side(refs, "deny")) \in Nat
         /\ Cardinality(refs) = Cardinality(Side(refs, "deny")) + Cardinality(Side(refs, "approve"))
<1>1. /\ Side(refs, "approve") \subseteq refs /\ Side(refs, "deny") \subseteq refs
      /\ refs = Side(refs, "deny") \union Side(refs, "approve")
      /\ Side(refs, "deny") \cap Side(refs, "approve") = {}
  BY DEF Side, Decisions
<1>2. IsFiniteSet(Side(refs, "approve")) /\ IsFiniteSet(Side(refs, "deny"))
  BY <1>1, FS_Subset
<1>3. Cardinality(Side(refs, "deny") \union Side(refs, "approve"))
        = Cardinality(Side(refs, "deny")) + Cardinality(Side(refs, "approve"))
          - Cardinality(Side(refs, "deny") \cap Side(refs, "approve"))
  BY <1>2, FS_Union
<1>4. /\ Cardinality(Side(refs, "approve")) \in Nat /\ Cardinality(Side(refs, "deny")) \in Nat
      /\ Cardinality(Side(refs, "deny") \cap Side(refs, "approve")) = 0
  BY <1>1, <1>2, FS_CardinalityType, FS_EmptySet
<1>5. Cardinality(refs) = Cardinality(Side(refs, "deny") \union Side(refs, "approve"))
  BY <1>1, Zenon
<1> QED BY <1>2, <1>3, <1>4, <1>5

LEMMA SelectionBalances ==
  ASSUME NEW refs, Len(trace) \in Nat, Distinct(refs, Len(trace))
  PROVE  SelectBalanced(refs, MaxEvidence) \subseteq refs /\ Balanced(refs, SelectBalanced(refs, MaxEvidence))
<1> DEFINE max == MaxEvidence
           sel == SelectBalanced(refs, max)
           A == Side(refs, "approve")
           D == Side(refs, "deny")
           na == Cardinality(A)
           nd == Cardinality(D)
           least(a, b) == IF a < b THEN a ELSE b
           n == least(nd, IF na < max \div 2 THEN max - na ELSE (max + 1) \div 2)
           FD == First(D, GroupByRun(D), n)
           FA == First(A, GroupByRun(A), max - n)
<1>1. max \in Nat \ {0} /\ IsFiniteSet(refs) /\ Cardinality(refs) \in Nat
  BY EvidenceAssumption, FS_CardinalityType DEF Distinct
<1>2. /\ na \in Nat /\ nd \in Nat /\ Cardinality(refs) = nd + na
      /\ Distinct(A, Len(trace)) /\ Distinct(D, Len(trace))
  <2>1. \A x \in refs : x.decision \in Decisions
    BY DEF Distinct
  <2> HIDE DEF na, nd
  <2>2. na \in Nat /\ nd \in Nat /\ Cardinality(refs) = nd + na /\ IsFiniteSet(A) /\ IsFiniteSet(D)
    BY <2>1, <1>1, Sides DEF na, nd
  <2> QED BY <2>2 DEF Distinct, Side
<1>3. sel = IF Cardinality(refs) <= max THEN refs ELSE FD \union FA
  BY Zenon DEF SelectBalanced, Side
<1>4. CASE Cardinality(refs) <= max
  <2>1. sel = refs
    BY <1>3, <1>4
  <2>2. Cardinality(sel) = (IF Cardinality(refs) < MaxEvidence THEN Cardinality(refs) ELSE MaxEvidence)
    BY <2>1, <1>1, <1>4
  <2> HIDE DEF sel
  <2> QED BY <2>1, <2>2 DEF Balanced, sel
<1>5. CASE ~(Cardinality(refs) <= max)
  <2>1. sel = FD \union FA
    BY <1>3, <1>5
  <2>2. /\ n \in Nat /\ max - n \in Nat /\ n <= nd /\ max - n <= na
        /\ max > 1 => (nd > 0 => n > 0) /\ (na > 0 => max - n > 0)
    <3>1. /\ max \div 2 \in Nat /\ (max + 1) \div 2 = max - (max \div 2) /\ max \div 2 < max
          /\ max > 1 => max \div 2 > 0
      BY <1>1, Halves
    <3> DEFINE low == max \div 2
               high == (max + 1) \div 2
    <3> HIDE DEF max, na, nd, low, high
    <3> QED BY <3>1, <1>1, <1>2, <1>5 DEF low, high
  <2> HIDE DEF n
  <2>3. Keyed(D, GroupByRun(D)) /\ Keyed(A, GroupByRun(A))
    BY <1>2, EveryRunFirst
  <2>4. Cardinality(FD) = n /\ Cardinality(FA) = max - n
    <3>1. Cardinality(FD) = IF nd < n THEN nd ELSE n
      BY <2>2, <2>3, FirstCounts
    <3>2. Cardinality(FA) = IF na < max - n THEN na ELSE max - n
      BY <2>2, <2>3, FirstCounts
    <3> HIDE DEF nd, na, max
    <3> QED BY <3>1, <3>2, <1>1, <1>2, <2>2
  <2>5. FD \subseteq D /\ IsFiniteSet(FD) /\ FA \subseteq A /\ IsFiniteSet(FA)
    BY <2>2, <2>3, FirstIsClosed
  <2>6. /\ \A x, y \in FD : (x # y /\ x.run = y.run) => {z.run : z \in D} = {z.run : z \in FD}
        /\ \A x, y \in FA : (x # y /\ x.run = y.run) => {z.run : z \in A} = {z.run : z \in FA}
    <3>1. \A x, y \in FD : (x # y /\ x.run = y.run) => {z.run : z \in D} = {z.run : z \in FD}
      BY <1>2, <2>2, EveryRunFirst
    <3>2. \A x, y \in FA : (x # y /\ x.run = y.run) => {z.run : z \in A} = {z.run : z \in FA}
      BY <1>2, <2>2, EveryRunFirst
    <3> QED BY <3>1, <3>2
  <2> HIDE DEF FD, FA, sel, max
  <2>7. Side(sel, "deny") = FD /\ Side(sel, "approve") = FA /\ sel \subseteq refs /\ FD \cap FA = {}
    BY <2>1, <2>5 DEF Side
  <2>8. Cardinality(sel) = max
    <3>1. Cardinality(sel) = Cardinality(FD) + Cardinality(FA) - Cardinality(FD \cap FA)
      BY <2>1, <2>5, FS_Union
    <3>2. Cardinality(FD \cap FA) = 0
      BY <2>7, FS_EmptySet
    <3> QED BY <3>1, <3>2, <2>4, <2>2, <1>1
  <2>9. max > 1 => (D # {} => FD # {}) /\ (A # {} => FA # {})
    <3>1. /\ D # {} => nd # 0
          /\ A # {} => na # 0
      BY <1>2, FS_EmptySet DEF Distinct
    <3>2. /\ FD = {} => n = 0
          /\ FA = {} => max - n = 0
      BY <2>4, FS_EmptySet
    <3> HIDE DEF nd, na
    <3> QED BY <3>1, <3>2, <2>2, <1>2, <1>1
  <2>10. Cardinality(sel) = (IF Cardinality(refs) < max THEN Cardinality(refs) ELSE max)
    BY <2>8, <1>1, <1>5
  <2>11. ASSUME NEW d \in Decisions
         PROVE  /\ (Side(refs, d) # {} /\ max > 1) => Side(sel, d) # {}
                /\ (\E x, y \in Side(sel, d) : x # y /\ x.run = y.run)
                     => {x.run : x \in Side(refs, d)} = {x.run : x \in Side(sel, d)}
    <3>1. CASE d = "deny"
      BY <3>1, <2>6, <2>7, <2>9
    <3>2. CASE d = "approve"
      BY <3>2, <2>6, <2>7, <2>9
    <3> QED BY <3>1, <3>2 DEF Decisions
  <2> QED BY <2>7, <2>10, <2>11 DEF Balanced, max, sel
<1> QED BY <1>4, <1>5

-----------------------------------------------------------------------------
(* What a program holds after each record.  A recursive function is chosen *)
(* among those that satisfy its equation: the invariant below says that    *)
(* there is one for the Trace as it is, and what every one of them is at   *)
(* its end.                                                                *)
Opened(k) == IF k = "discovery" THEN Parsed ELSE Unread
Read(k, st, rec, i) == IF k = "discovery" THEN ParseRecord(st, rec, i) ELSE ReplayRecord(st, rec, i)

Reading(k, tr, p) == p = [n \in 0 .. Len(tr) |-> IF n = 0 THEN Opened(k) ELSE Read(k, p[n - 1], tr[n], n)]

LEMMA ReadingIsChosen ==
  /\ (\E p : Reading("discovery", trace, p))
       => \E p : Reading("discovery", trace, p) /\ Fold(ParseRecord, Parsed) = p[Len(trace)]
  /\ (\E p : Reading("replay", trace, p))
       => \E p : Reading("replay", trace, p) /\ Fold(ReplayRecord, Unread) = p[Len(trace)]
<1>1. ASSUME \E p : Reading("discovery", trace, p)
      PROVE  \E p : Reading("discovery", trace, p) /\ Fold(ParseRecord, Parsed) = p[Len(trace)]
  <2> DEFINE q == CHOOSE p : p = [n \in 0 .. Len(trace) |-> IF n = 0 THEN Parsed ELSE ParseRecord(p[n - 1], trace[n], n)]
  <2>1. Fold(ParseRecord, Parsed) = q[Len(trace)]
    BY Zenon DEF Fold
  <2>2. \A p : Reading("discovery", trace, p) <=>
                 p = [n \in 0 .. Len(trace) |-> IF n = 0 THEN Parsed ELSE ParseRecord(p[n - 1], trace[n], n)]
    BY Zenon DEF Reading, Opened, Read
  <2>3. \E p : p = [n \in 0 .. Len(trace) |-> IF n = 0 THEN Parsed ELSE ParseRecord(p[n - 1], trace[n], n)]
    BY <1>1, <2>2, Zenon
  <2>4. q = [n \in 0 .. Len(trace) |-> IF n = 0 THEN Parsed ELSE ParseRecord(q[n - 1], trace[n], n)]
    BY <2>3, Zenon
  <2> HIDE DEF q
  <2> QED BY <2>1, <2>2, <2>4, Zenon
<1>2. ASSUME \E p : Reading("replay", trace, p)
      PROVE  \E p : Reading("replay", trace, p) /\ Fold(ReplayRecord, Unread) = p[Len(trace)]
  <2> DEFINE q == CHOOSE p : p = [n \in 0 .. Len(trace) |-> IF n = 0 THEN Unread ELSE ReplayRecord(p[n - 1], trace[n], n)]
  <2>1. Fold(ReplayRecord, Unread) = q[Len(trace)]
    BY Zenon DEF Fold
  <2>2. \A p : Reading("replay", trace, p) <=>
                 p = [n \in 0 .. Len(trace) |-> IF n = 0 THEN Unread ELSE ReplayRecord(p[n - 1], trace[n], n)]
    BY Zenon DEF Reading, Opened, Read
  <2>3. \E p : p = [n \in 0 .. Len(trace) |-> IF n = 0 THEN Unread ELSE ReplayRecord(p[n - 1], trace[n], n)]
    BY <1>2, <2>2, Zenon
  <2>4. q = [n \in 0 .. Len(trace) |-> IF n = 0 THEN Unread ELSE ReplayRecord(q[n - 1], trace[n], n)]
    BY <2>3, Zenon
  <2> HIDE DEF q
  <2> QED BY <2>1, <2>2, <2>4, Zenon
<1> QED BY <1>1, <1>2

LEMMA ReadingBegins == \A k : Reading(k, <<>>, [n \in {0} |-> Opened(k)])
                              /\ \A p : Reading(k, <<>>, p) => p[0] = Opened(k)
<1>1. 0 .. Len(<<>>) = {0}
  OBVIOUS
<1>2. ASSUME NEW k PROVE [n \in {0} |-> Opened(k)] =
           [n \in 0 .. Len(<<>>) |-> IF n = 0 THEN Opened(k)
                                     ELSE Read(k, [m \in {0} |-> Opened(k)][n - 1], <<>>[n], n)]
  BY <1>1
<1> QED BY <1>1, <1>2 DEF Reading

(* One more record: the reading goes on from what it held.                 *)
LEMMA ReadingGoesOn ==
  ASSUME NEW k, NEW X, NEW tr \in Seq(X), NEW rec
  PROVE  /\ \A p : Reading(k, tr, p) => \E q : Reading(k, Append(tr, rec), q)
         /\ \A q : Reading(k, Append(tr, rec), q) =>
              \E p : Reading(k, tr, p) /\ q[Len(tr) + 1] = Read(k, p[Len(tr)], rec, Len(tr) + 1)
<1> DEFINE n == Len(tr)
           long == Append(tr, rec)
<1>1. n \in Nat /\ Len(long) = n + 1 /\ long[n + 1] = rec /\ \A i \in 1 .. n : long[i] = tr[i]
  BY AppendProperties, LenProperties
<1> HIDE DEF n, long
<1>2. ASSUME NEW p, Reading(k, tr, p) PROVE \E q : Reading(k, long, q)
  <2> DEFINE last == Read(k, p[n], rec, n + 1)
             q == [i \in 0 .. n + 1 |-> IF i = n + 1 THEN last ELSE p[i]]
  <2>1. \A i \in 0 .. n : p[i] = IF i = 0 THEN Opened(k) ELSE Read(k, p[i - 1], tr[i], i)
    BY <1>2 DEF Reading, n
  <2> HIDE DEF last
  <2>2. ASSUME NEW i \in 0 .. n + 1
        PROVE  q[i] = IF i = 0 THEN Opened(k) ELSE Read(k, q[i - 1], long[i], i)
    <3>1. CASE i = n + 1
      <4>1. i # 0 /\ i - 1 = n /\ i - 1 \in 0 .. n + 1 /\ i - 1 # n + 1
        BY <3>1, <1>1
      <4>2. q[i] = last /\ q[i - 1] = p[n]
        BY <3>1, <4>1
      <4> QED BY <3>1, <4>1, <4>2, <1>1 DEF last
    <3>2. CASE i \in 1 .. n
      <4>1. i # 0 /\ i - 1 \in 0 .. n + 1 /\ i - 1 # n + 1 /\ i # n + 1 /\ i \in 0 .. n
        BY <3>2, <1>1
      <4>2. q[i] = p[i] /\ q[i - 1] = p[i - 1]
        BY <4>1
      <4> QED BY <3>2, <4>1, <4>2, <1>1, <2>1
    <3>3. CASE i = 0
      <4>1. i # n + 1 /\ i \in 0 .. n
        BY <3>3, <1>1
      <4> QED BY <3>3, <4>1, <2>1
    <3> QED BY <3>1, <3>2, <3>3, <1>1
  <2>3. Reading(k, long, q)
    BY <2>2, <1>1 DEF Reading
  <2> QED BY <2>3
<1>3. ASSUME NEW q, Reading(k, long, q)
      PROVE  \E p : Reading(k, tr, p) /\ q[n + 1] = Read(k, p[n], rec, n + 1)
  <2> DEFINE p == [i \in 0 .. n |-> q[i]]
  <2>1. \A i \in 0 .. n + 1 : q[i] = IF i = 0 THEN Opened(k) ELSE Read(k, q[i - 1], long[i], i)
    BY <1>3, <1>1 DEF Reading
  <2>2. ASSUME NEW i \in 0 .. n
        PROVE  p[i] = IF i = 0 THEN Opened(k) ELSE Read(k, p[i - 1], tr[i], i)
    <3>1. CASE i = 0
      BY <3>1, <2>1, <1>1
    <3>2. CASE i \in 1 .. n
      <4>1. i # 0 /\ i - 1 \in 0 .. n /\ i \in 0 .. n + 1
        BY <3>2, <1>1
      <4>2. p[i] = q[i] /\ p[i - 1] = q[i - 1]
        BY <4>1
      <4> QED BY <3>2, <4>1, <4>2, <1>1, <2>1
    <3> QED BY <3>1, <3>2, <1>1
  <2>3. Reading(k, tr, p)
    BY <2>2 DEF Reading, n
  <2>4. q[n + 1] = Read(k, p[n], rec, n + 1)
    <3>1. n + 1 \in 0 .. n + 1 /\ n + 1 # 0 /\ (n + 1) - 1 = n /\ n \in 0 .. n
      BY <1>1
    <3>2. p[n] = q[n]
      BY <3>1
    <3> QED BY <3>1, <3>2, <2>1, <1>1
  <2> QED BY <2>3, <2>4
<1> QED BY <1>2, <1>3 DEF n, long

-----------------------------------------------------------------------------
(* What a Trace is made of, for a setting se of the Runs; what a Run is in *)
(* the middle of.                                                          *)
Answers == Decisions \union {"cancelled"}
SettingFits == setting.confirms \subseteq BOOLEAN /\ setting.answers \subseteq Answers \X BOOLEAN

CallIds(se) == se.calls \union {"none"}
SigIds(se) == se.sigs \union {"other"}
Steps == {"idle", "called", "evaluated", "asked", "decided", "dead"}

Plain(se) == [st : Steps, call : CallIds(se)]
Judged(se) == [st : Steps, call : CallIds(se), sig : SigIds(se)]
Asking(se) == [st : Steps, call : CallIds(se), hook : se.hooks, sig : SigIds(se), line : Nat]
Calls(se) == Plain(se) \union Judged(se) \union Asking(se)

Records(se) ==
  [t : {"start", "end"}, run : RunIds, call : CallIds(se)]
  \union [t : {"evaluation"}, run : RunIds, call : CallIds(se), sig : SigIds(se), confirm : BOOLEAN]
  \union [t : {"request"}, run : RunIds, id : Nat, hook : se.hooks, call : CallIds(se), sig : SigIds(se)]
  \union [t : {"response"}, run : RunIds, id : Nat, decision : Answers, automatic : BOOLEAN]
  \union [t : {"runtime", "unowned"}, run : {NoRun}] \union [t : {"torn", "separated"}, run : RunIds]

(* Of a Trace tr: its lines, and what they say of a call and of a decision.*)
LinesIn(tr, t) == {i \in DOMAIN tr : tr[i].t = t}
RefusedIn(tr) == {i \in DOMAIN tr : tr[i].t \in Unreadable}
Confirmed(tr, r, c, s) ==
  \E j \in LinesIn(tr, "evaluation") : tr[j].confirm /\ tr[j].run = r /\ tr[j].call = c /\ tr[j].sig = s
Stands(tr, ref) ==
  /\ ref.line \in LinesIn(tr, "request") /\ tr[ref.line].hook = "tool" /\ tr[ref.line].run = ref.run
  /\ Confirmed(tr, ref.run, tr[ref.line].call, ref.sig)
  /\ \E j \in LinesIn(tr, "response") :
       /\ tr[j].id = tr[ref.line].id /\ tr[j].run = ref.run /\ tr[j].decision = ref.decision
       /\ ~tr[j].automatic

LEMMA CorrelatesStands ==
  ASSUME NEW ref PROVE Correlates(ref) <=> Stands(trace, ref)
BY DEF Correlates, Stands, Confirmed, LinesIn, Lines, EvaluationsFor, ResponsesTo

(* A call in progress: what it was evaluated and asked for is in the Trace,*)
(* and nobody has answered yet.                                            *)
InTrace(se, tr, tt, r, x) ==
  /\ x.st = "evaluated" => x \in Judged(se) /\ Confirmed(tr, r, x.call, x.sig)
  /\ x.st = "asked" =>
       /\ x \in Asking(se) /\ x.line \in LinesIn(tr, "request")
       /\ tr[x.line].run = r /\ tr[x.line].id = x.line /\ tr[x.line].hook = x.hook
       /\ x.hook = "tool" => Confirmed(tr, r, tr[x.line].call, x.sig)
       /\ \A y \in tt : y.line # x.line

Written(se, tr, lv, tt) ==
  /\ tr \in Seq(Records(se)) /\ lv \in [RunIds -> Calls(se)]
  /\ \A r \in RunIds : InTrace(se, tr, tt, r, lv[r])
  /\ IsFiniteSet(tt) /\ \A x \in tt : x.line \in 1 .. Len(tr) /\ Stands(tr, x) /\ ValidSample(x)
  /\ \A x, y \in tt : x.line = y.line => x = y

Longer(tr, tr2) == Len(tr) <= Len(tr2) /\ \A i \in 1 .. Len(tr) : tr2[i] = tr[i]

LEMMA Appended ==
  ASSUME NEW X, NEW tr \in Seq(X), NEW rec \in X
  PROVE  LET tr2 == Append(tr, rec) IN
         /\ tr2 \in Seq(X) /\ Longer(tr, tr2) /\ Len(tr) \in Nat /\ Len(tr2) = Len(tr) + 1
         /\ tr2[Len(tr) + 1] = rec
         /\ \A t : LinesIn(tr, t) \subseteq 1 .. Len(tr)
         /\ \A t : LinesIn(tr2, t) = IF rec.t = t THEN LinesIn(tr, t) \union {Len(tr) + 1} ELSE LinesIn(tr, t)
         /\ RefusedIn(tr2) = IF rec.t \in Unreadable THEN RefusedIn(tr) \union {Len(tr) + 1} ELSE RefusedIn(tr)
<1> DEFINE tr2 == Append(tr, rec)
           n == Len(tr)
<1>1. /\ tr2 \in Seq(X) /\ n \in Nat /\ Len(tr2) = n + 1 /\ tr2[n + 1] = rec
      /\ \A i \in 1 .. n : tr2[i] = tr[i]
      /\ DOMAIN tr = 1 .. n /\ DOMAIN tr2 = 1 .. n + 1
  BY AppendProperties, LenProperties
<1> HIDE DEF tr2, n
<1>2. \A t : LinesIn(tr, t) \subseteq 1 .. n
  BY <1>1 DEF LinesIn
<1>3. ASSUME NEW t
      PROVE  LinesIn(tr2, t) = IF rec.t = t THEN LinesIn(tr, t) \union {n + 1} ELSE LinesIn(tr, t)
  <2> DEFINE L == IF rec.t = t THEN LinesIn(tr, t) \union {n + 1} ELSE LinesIn(tr, t)
  <2>1. \A i \in 1 .. n : i \in LinesIn(tr2, t) <=> i \in LinesIn(tr, t)
    BY <1>1 DEF LinesIn
  <2>2. n + 1 \in LinesIn(tr2, t) <=> rec.t = t
    BY <1>1 DEF LinesIn
  <2>3. LinesIn(tr2, t) \subseteq 1 .. n + 1
    BY <1>1 DEF LinesIn
  <2>4. \A i : i \in LinesIn(tr2, t) <=> i \in L
    BY <2>1, <2>2, <2>3, <1>1, <1>2
  <2> HIDE DEF L
  <2>5. LinesIn(tr2, t) = L
    BY <2>4
  <2> QED BY <2>5 DEF L
<1>4. Longer(tr, tr2)
  BY <1>1 DEF Longer, n
<1>5. RefusedIn(tr2) = IF rec.t \in Unreadable THEN RefusedIn(tr) \union {n + 1} ELSE RefusedIn(tr)
  <2> DEFINE L == IF rec.t \in Unreadable THEN RefusedIn(tr) \union {n + 1} ELSE RefusedIn(tr)
  <2>1. \A i \in 1 .. n : i \in RefusedIn(tr2) <=> i \in RefusedIn(tr)
    BY <1>1 DEF RefusedIn
  <2>2. n + 1 \in RefusedIn(tr2) <=> rec.t \in Unreadable
    BY <1>1 DEF RefusedIn
  <2>3. RefusedIn(tr2) \subseteq 1 .. n + 1 /\ RefusedIn(tr) \subseteq 1 .. n
    BY <1>1 DEF RefusedIn
  <2>4. \A i : i \in RefusedIn(tr2) <=> i \in L
    BY <2>1, <2>2, <2>3, <1>1
  <2> HIDE DEF L
  <2>5. RefusedIn(tr2) = L
    BY <2>4
  <2> QED BY <2>5 DEF L
<1> QED BY <1>1, <1>2, <1>3, <1>4, <1>5 DEF tr2, n

LEMMA Remembers ==
  ASSUME NEW X, NEW tr \in Seq(X), NEW tr2 \in Seq(X), Longer(tr, tr2)
  PROVE  /\ \A t : LinesIn(tr, t) \subseteq LinesIn(tr2, t) /\ LinesIn(tr, t) \subseteq 1 .. Len(tr)
         /\ \A r, c, s : Confirmed(tr, r, c, s) => Confirmed(tr2, r, c, s)
         /\ \A ref : Stands(tr, ref) => Stands(tr2, ref)
<1>1. /\ Len(tr) \in Nat /\ Len(tr2) \in Nat /\ Len(tr) <= Len(tr2)
      /\ DOMAIN tr = 1 .. Len(tr) /\ DOMAIN tr2 = 1 .. Len(tr2)
      /\ \A i \in 1 .. Len(tr) : tr2[i] = tr[i]
  BY LenProperties DEF Longer
<1>2. \A t : LinesIn(tr, t) \subseteq LinesIn(tr2, t) /\ LinesIn(tr, t) \subseteq 1 .. Len(tr)
  BY <1>1 DEF LinesIn
<1>3. \A r, c, s : Confirmed(tr, r, c, s) => Confirmed(tr2, r, c, s)
  BY <1>1, <1>2 DEF Confirmed
<1>4. ASSUME NEW ref, Stands(tr, ref) PROVE Stands(tr2, ref)
  <2>1. /\ ref.line \in LinesIn(tr2, "request") /\ tr2[ref.line] = tr[ref.line]
        /\ tr[ref.line].hook = "tool" /\ tr[ref.line].run = ref.run
        /\ Confirmed(tr2, ref.run, tr[ref.line].call, ref.sig)
    BY <1>1, <1>2, <1>3, <1>4 DEF Stands
  <2>2. PICK j \in LinesIn(tr, "response") :
             /\ tr[j].id = tr[ref.line].id /\ tr[j].run = ref.run /\ tr[j].decision = ref.decision
             /\ ~tr[j].automatic
    BY <1>4 DEF Stands
  <2>3. j \in LinesIn(tr2, "response") /\ tr2[j] = tr[j]
    BY <1>1, <1>2, <2>2
  <2> QED BY <2>1, <2>2, <2>3 DEF Stands
<1> QED BY <1>2, <1>3, <1>4

(* What a step has to show: the Trace is longer, the calls it moves are in *)
(* it, and what a human decided has a line of its own.                     *)
LEMMA WrittenGrows ==
  ASSUME NEW se, NEW tr, NEW lv, NEW tt, Written(se, tr, lv, tt),
         NEW tr2 \in Seq(Records(se)), Longer(tr, tr2),
         NEW Z, IsFiniteSet(Z), \A y, z \in Z : y = z,
         \A z \in Z : z.line \in 1 .. Len(tr) /\ Stands(tr2, z) /\ ValidSample(z) /\ \A y \in tt : y.line # z.line,
         NEW lv2 \in [RunIds -> Calls(se)],
         \A q \in RunIds : \/ lv2[q] = lv[q] /\ \A z \in Z : lv[q].st = "asked" => lv[q].line # z.line
                           \/ InTrace(se, tr2, tt \union Z, q, lv2[q])
  PROVE  Written(se, tr2, lv2, tt \union Z)
<1>1. /\ tr \in Seq(Records(se)) /\ \A r \in RunIds : InTrace(se, tr, tt, r, lv[r])
      /\ IsFiniteSet(tt) /\ \A x \in tt : x.line \in 1 .. Len(tr) /\ Stands(tr, x) /\ ValidSample(x)
      /\ \A x, y \in tt : x.line = y.line => x = y
  BY DEF Written
<1>2. /\ \A t : LinesIn(tr, t) \subseteq LinesIn(tr2, t) /\ LinesIn(tr, t) \subseteq 1 .. Len(tr)
      /\ \A r, c, s : Confirmed(tr, r, c, s) => Confirmed(tr2, r, c, s)
      /\ \A ref : Stands(tr, ref) => Stands(tr2, ref)
  BY <1>1, Remembers
<1>3. /\ Len(tr) \in Nat /\ Len(tr2) \in Nat /\ Len(tr) <= Len(tr2)
      /\ \A i \in 1 .. Len(tr) : tr2[i] = tr[i]
  BY <1>1, LenProperties DEF Longer
<1>4. ASSUME NEW q \in RunIds PROVE InTrace(se, tr2, tt \union Z, q, lv2[q])
  <2>1. CASE lv2[q] = lv[q] /\ \A z \in Z : lv[q].st = "asked" => lv[q].line # z.line
    <3> DEFINE x == lv[q]
    <3>1. InTrace(se, tr, tt, q, x)
      BY <1>1
    <3> HIDE DEF x
    <3>2. CASE x.st = "asked"
      <4>1. /\ x \in Asking(se) /\ x.line \in LinesIn(tr, "request")
            /\ tr[x.line].run = q /\ tr[x.line].id = x.line /\ tr[x.line].hook = x.hook
            /\ x.hook = "tool" => Confirmed(tr, q, tr[x.line].call, x.sig)
            /\ \A y \in tt : y.line # x.line
        BY <3>1, <3>2 DEF InTrace
      <4>2. tr2[x.line] = tr[x.line] /\ x.line \in LinesIn(tr2, "request")
        BY <4>1, <1>2, <1>3
      <4>3. \A y \in tt \union Z : y.line # x.line
        BY <4>1, <2>1, <3>2 DEF x
      <4>4. InTrace(se, tr2, tt \union Z, q, x)
        BY <3>2, <4>1, <4>2, <4>3, <1>2 DEF InTrace
      <4> QED BY <4>4, <2>1 DEF x
    <3>3. CASE x.st # "asked"
      <4>1. InTrace(se, tr2, tt \union Z, q, x)
        BY <3>1, <3>3, <1>2 DEF InTrace
      <4> QED BY <4>1, <2>1 DEF x
    <3> QED BY <3>2, <3>3
  <2>2. CASE InTrace(se, tr2, tt \union Z, q, lv2[q])
    BY <2>2
  <2> QED BY <2>1, <2>2
<1>5. IsFiniteSet(tt \union Z)
  BY <1>1, FS_Union
<1>6. \A x \in tt \union Z : x.line \in 1 .. Len(tr2) /\ Stands(tr2, x) /\ ValidSample(x)
  <2>1. ASSUME NEW x \in tt PROVE x.line \in 1 .. Len(tr2) /\ Stands(tr2, x) /\ ValidSample(x)
    <3>1. x.line \in 1 .. Len(tr) /\ Stands(tr, x) /\ ValidSample(x)
      BY <1>1
    <3> QED BY <3>1, <1>2, <1>3
  <2>2. ASSUME NEW x \in Z PROVE x.line \in 1 .. Len(tr2) /\ Stands(tr2, x) /\ ValidSample(x)
    <3>1. x.line \in 1 .. Len(tr) /\ Stands(tr2, x) /\ ValidSample(x)
      OBVIOUS
    <3> QED BY <3>1, <1>3
  <2> QED BY <2>1, <2>2
<1>7. \A x, y \in tt \union Z : x.line = y.line => x = y
  BY <1>1
<1> QED BY <1>4, <1>5, <1>6, <1>7 DEF Written

-----------------------------------------------------------------------------
(* What each step writes, and the call it moves.                           *)
Moved1(r, x) == live' \in [RunIds -> Calls(setting)] /\ live'[r] = x /\ \A q \in RunIds \ {r} : live'[q] = live[q]

Reached(x, s) == [x EXCEPT !.st = s]

LEMMA CallFields ==
  ASSUME NEW se, NEW x \in Calls(se)
  PROVE  /\ x.st \in Steps /\ x.call \in CallIds(se)
         /\ \A s \in Steps : Reached(x, s) \in Calls(se) /\ Reached(x, s).st = s /\ Reached(x, s).call = x.call
<1>1. CASE x \in Plain(se)
  BY <1>1 DEF Calls, Plain, Reached
<1>2. CASE x \in Judged(se)
  BY <1>2 DEF Calls, Judged, Reached
<1>3. CASE x \in Asking(se)
  BY <1>3 DEF Calls, Asking, Reached
<1> QED BY <1>1, <1>2, <1>3 DEF Calls

LEMMA Moves ==
  ASSUME NEW r \in RunIds, NEW x \in Calls(setting), live \in [RunIds -> Calls(setting)],
         live' = [live EXCEPT ![r] = x]
  PROVE  Moved1(r, x)
BY DEF Moved1

LEMMA Writes ==
  ASSUME Written(setting, trace, live, truth), NEW rec \in Records(setting), trace' = Append(trace, rec)
  PROVE  /\ trace' \in Seq(Records(setting)) /\ Longer(trace, trace') /\ Len(trace) \in Nat
         /\ Len(trace') = Len(trace) + 1 /\ trace'[Len(trace) + 1] = rec
         /\ \A t : LinesIn(trace, t) \subseteq 1 .. Len(trace)
         /\ \A t : LinesIn(trace', t) = IF rec.t = t THEN LinesIn(trace, t) \union {Len(trace) + 1}
                                        ELSE LinesIn(trace, t)
         /\ RefusedIn(trace') = IF rec.t \in Unreadable THEN RefusedIn(trace) \union {Len(trace) + 1}
                               ELSE RefusedIn(trace)
<1>1. trace \in Seq(Records(setting))
  BY DEF Written
<1> QED BY <1>1, Appended

StartRec(r, c) == [t |-> "start", run |-> r, call |-> c]
EvalRec(r, c, s, b) == [t |-> "evaluation", run |-> r, call |-> c, sig |-> s, confirm |-> b]
AskRec(r, n, hook, c, s) == [t |-> "request", run |-> r, id |-> n, hook |-> hook, call |-> c, sig |-> s]
AnswerRec(r, n, d, a) == [t |-> "response", run |-> r, id |-> n, decision |-> d, automatic |-> a]
EndRec(r, c) == [t |-> "end", run |-> r, call |-> c]

LEMMA RecordsAre ==
  ASSUME NEW se, NEW r \in RunIds, NEW c \in CallIds(se)
  PROVE  /\ StartRec(r, c) \in Records(se) /\ EndRec(r, c) \in Records(se)
         /\ \A s \in SigIds(se), b \in BOOLEAN : EvalRec(r, c, s, b) \in Records(se)
         /\ \A n \in Nat, hook \in se.hooks, s \in SigIds(se) : AskRec(r, n, hook, c, s) \in Records(se)
         /\ \A n \in Nat, d \in Answers, a \in BOOLEAN : AnswerRec(r, n, d, a) \in Records(se)
         /\ [t |-> "torn", run |-> r] \in Records(se)
<1>1. StartRec(r, c) \in Records(se) /\ EndRec(r, c) \in Records(se)
  BY DEF Records, StartRec, EndRec
<1>2. \A s \in SigIds(se), b \in BOOLEAN : EvalRec(r, c, s, b) \in Records(se)
  BY DEF Records, EvalRec
<1>3. \A n \in Nat, hook \in se.hooks, s \in SigIds(se) : AskRec(r, n, hook, c, s) \in Records(se)
  BY DEF Records, AskRec
<1>4. \A n \in Nat, d \in Answers, a \in BOOLEAN : AnswerRec(r, n, d, a) \in Records(se)
  BY DEF Records, AnswerRec
<1>5. [t |-> "torn", run |-> r] \in Records(se)
  BY DEF Records
<1> QED BY <1>1, <1>2, <1>3, <1>4, <1>5

(* Nobody decided anything in the step.                                    *)
LEMMA WrittenOn ==
  ASSUME Written(setting, trace, live, truth), trace' \in Seq(Records(setting)), Longer(trace, trace'),
         truth' = truth, NEW r, NEW x, Moved1(r, x), InTrace(setting, trace', truth', r, x)
  PROVE  Written(setting, trace', live', truth')
<1> DEFINE tr2 == trace'
           lv2 == live'
<1>1. lv2 \in [RunIds -> Calls(setting)] /\ lv2[r] = x /\ \A q \in RunIds \ {r} : lv2[q] = live[q]
  BY DEF Moved1
<1>2. tr2 \in Seq(Records(setting)) /\ Longer(trace, tr2) /\ InTrace(setting, tr2, truth \union {}, r, x)
  OBVIOUS
<1> HIDE DEF tr2, lv2
<1>3. \A q \in RunIds : \/ lv2[q] = live[q] /\ \A z \in {} : live[q].st = "asked" => live[q].line # z.line
                        \/ InTrace(setting, tr2, truth \union {}, q, lv2[q])
  BY <1>1, <1>2
<1>4. Written(setting, tr2, lv2, truth \union {})
  <2>1. IsFiniteSet({})
    BY FS_EmptySet
  <2> QED BY <2>1, <1>1, <1>2, <1>3, WrittenGrows
<1> QED BY <1>4 DEF tr2, lv2

LEMMA BeginCallDoes ==
  ASSUME Written(setting, trace, live, truth), NEW r \in RunIds, NEW c \in setting.calls, BeginCall(r, c)
  PROVE  /\ trace' = Append(trace, StartRec(r, c)) /\ StartRec(r, c) \in Records(setting)
         /\ Moved1(r, [st |-> "called", call |-> c]) /\ live[r].st = "idle" /\ truth' = truth
         /\ Written(setting, trace', live', truth')
<1> DEFINE x == [st |-> "called", call |-> c]
<1>1. /\ trace' = Append(trace, StartRec(r, c)) /\ live' = [live EXCEPT ![r] = x]
      /\ live[r].st = "idle" /\ truth' = truth
  BY DEF BeginCall, Write, StartRec, MayStart
<1>2. c \in CallIds(setting)
  BY DEF CallIds
<1>3. StartRec(r, c) \in Records(setting)
  BY <1>2, RecordsAre
<1>4. x \in Calls(setting) /\ x.st = "called"
  BY <1>2 DEF Calls, Plain, Steps
<1> HIDE DEF x
<1>5. Moved1(r, x)
  BY <1>1, <1>4, Moves DEF Written
<1>6. InTrace(setting, trace', truth', r, x)
  BY <1>4 DEF InTrace
<1>7. Written(setting, trace', live', truth')
  BY <1>1, <1>3, <1>5, <1>6, Writes, WrittenOn
<1> QED BY <1>1, <1>3, <1>5, <1>7 DEF x

LEMMA EvaluateDoes ==
  ASSUME Written(setting, trace, live, truth), NEW r \in RunIds, NEW s \in setting.sigs, NEW b \in BOOLEAN,
         Evaluate(r, s, b)
  PROVE  LET rec == EvalRec(r, live[r].call, s, b) IN
         /\ trace' = Append(trace, rec) /\ rec \in Records(setting) /\ live[r].st = "called" /\ truth' = truth
         /\ Moved1(r, [st |-> IF b THEN "evaluated" ELSE "decided", call |-> live[r].call, sig |-> s])
         /\ Written(setting, trace', live', truth')
<1> DEFINE c == live[r].call
           x == [st |-> IF b THEN "evaluated" ELSE "decided", call |-> c, sig |-> s]
           rec == EvalRec(r, c, s, b)
<1>1. trace' = Append(trace, rec) /\ live' = [live EXCEPT ![r] = x] /\ live[r].st = "called" /\ truth' = truth
  BY DEF Evaluate, Write, EvalRec
<1>2. c \in CallIds(setting) /\ s \in SigIds(setting) /\ live \in [RunIds -> Calls(setting)]
  BY CallFields DEF Written, SigIds
<1> HIDE DEF c
<1>3. rec \in Records(setting)
  BY <1>2, RecordsAre
<1>4. x \in Judged(setting) /\ x \in Calls(setting) /\ x.call = c /\ x.sig = s
      /\ (x.st = "evaluated" => b) /\ x.st # "asked"
  BY <1>2 DEF Calls, Judged, Steps
<1>5. rec.t = "evaluation" /\ rec.run = r /\ rec.call = c /\ rec.sig = s /\ rec.confirm = b
  BY DEF EvalRec
<1> HIDE DEF x, rec
<1>6. Moved1(r, x)
  BY <1>1, <1>2, <1>4, Moves
<1>7. /\ trace' \in Seq(Records(setting)) /\ Longer(trace, trace') /\ trace'[Len(trace) + 1] = rec
      /\ Len(trace) + 1 \in LinesIn(trace', "evaluation")
  BY <1>1, <1>3, <1>5, Writes
<1>8. InTrace(setting, trace', truth', r, x)
  <2>1. b => Confirmed(trace', r, c, s)
    BY <1>5, <1>7 DEF Confirmed
  <2> QED BY <2>1, <1>4 DEF InTrace
<1>9. Written(setting, trace', live', truth')
  BY <1>1, <1>6, <1>7, <1>8, WrittenOn
<1> QED BY <1>1, <1>3, <1>6, <1>9 DEF x, rec, c

AskedSig(r, hook) == IF hook = "tool" THEN live[r].sig ELSE "other"

LEMMA AskDoes ==
  ASSUME Written(setting, trace, live, truth), NEW r \in RunIds, NEW hook \in setting.hooks, Ask(r, hook)
  PROVE  LET rec == AskRec(r, Len(trace) + 1, hook, live[r].call, AskedSig(r, hook)) IN
         /\ trace' = Append(trace, rec) /\ rec \in Records(setting) /\ truth' = truth
         /\ live[r].st = IF hook = "tool" THEN "evaluated" ELSE "idle"
         /\ Moved1(r, [st |-> "asked", call |-> live[r].call, hook |-> hook, sig |-> AskedSig(r, hook),
                       line |-> Len(trace) + 1])
         /\ Written(setting, trace', live', truth')
<1> DEFINE c == live[r].call
           s == AskedSig(r, hook)
           n == Len(trace) + 1
           x == [st |-> "asked", call |-> c, hook |-> hook, sig |-> s, line |-> n]
           rec == AskRec(r, n, hook, c, s)
<1>1. trace' = Append(trace, rec) /\ live' = [live EXCEPT ![r] = x] /\ truth' = truth
  BY DEF Ask, Write, AskRec, AskedSig
<1>2. live[r].st = IF hook = "tool" THEN "evaluated" ELSE "idle"
  BY DEF Ask, MayStart
<1>3. /\ live \in [RunIds -> Calls(setting)] /\ InTrace(setting, trace, truth, r, live[r])
      /\ Len(trace) \in Nat /\ \A y \in truth : y.line \in 1 .. Len(trace)
  BY LenProperties DEF Written
<1>4. c \in CallIds(setting)
  BY <1>3, CallFields
<1>5. /\ s \in SigIds(setting)
      /\ hook = "tool" => Confirmed(trace, r, c, s)
  <2>1. CASE hook = "tool"
    <3>1. live[r] \in Judged(setting) /\ Confirmed(trace, r, live[r].call, live[r].sig)
      BY <2>1, <1>2, <1>3 DEF InTrace
    <3> QED BY <2>1, <3>1 DEF AskedSig, Judged
  <2>2. CASE hook # "tool"
    BY <2>2 DEF AskedSig, SigIds
  <2> QED BY <2>1, <2>2
<1> HIDE DEF c, s
<1>6. rec \in Records(setting) /\ n \in Nat
  <2>1. n \in Nat
    BY <1>3
  <2> HIDE DEF n
  <2> QED BY <2>1, <1>4, <1>5, RecordsAre
<1>7. x \in Asking(setting) /\ x \in Calls(setting)
  BY <1>4, <1>5, <1>6 DEF Calls, Asking, Steps
<1>8. x.st = "asked" /\ x.hook = hook /\ x.sig = s /\ x.line = n
  OBVIOUS
<1>9. rec.t = "request" /\ rec.run = r /\ rec.id = n /\ rec.hook = hook /\ rec.call = c
  BY DEF AskRec
<1> HIDE DEF x, rec
<1>10. Moved1(r, x)
  BY <1>1, <1>3, <1>7, Moves
<1>11. /\ trace' \in Seq(Records(setting)) /\ Longer(trace, trace') /\ trace'[n] = rec
       /\ n \in LinesIn(trace', "request")
  BY <1>1, <1>6, <1>9, Writes
<1>12. InTrace(setting, trace', truth', r, x)
  <2>1. hook = "tool" => Confirmed(trace', r, c, s)
    <3>1. trace \in Seq(Records(setting))
      BY DEF Written
    <3> QED BY <3>1, <1>5, <1>11, Remembers
  <2>2. \A y \in truth' : y.line # n
    BY <1>1, <1>3
  <2> QED BY <2>1, <2>2, <1>7, <1>8, <1>9, <1>11 DEF InTrace
<1>13. Written(setting, trace', live', truth')
  BY <1>1, <1>10, <1>11, <1>12, WrittenOn
<1> QED BY <1>1, <1>2, <1>6, <1>10, <1>13 DEF x, rec, c, s

(* The confirmation of the line was answered by a human.                   *)
DecidedNow(r, hook, d, automatic) ==
  IF hook = "tool" /\ ~automatic
  THEN {[line |-> live[r].line, run |-> r, sig |-> live[r].sig, decision |-> d]} ELSE {}

LEMMA AnswerDoes ==
  ASSUME Written(setting, trace, live, truth), NEW r \in RunIds, NEW d \in Answers, NEW a \in BOOLEAN,
         Answer(r, d, a)
  PROVE  LET rec == AnswerRec(r, live[r].line, d, a) IN
         /\ trace' = Append(trace, rec) /\ rec \in Records(setting)
         /\ live[r].st = "asked" /\ (d = "cancelled" => a)
         /\ truth' = truth \union DecidedNow(r, live[r].hook, d, a)
         /\ Moved1(r, [st |-> IF live[r].hook = "tool" THEN "decided" ELSE "idle", call |-> live[r].call])
         /\ Written(setting, trace', live', truth')
<1> DEFINE old == live[r]
           x == [st |-> IF old.hook = "tool" THEN "decided" ELSE "idle", call |-> old.call]
           rec == AnswerRec(r, old.line, d, a)
           Z == DecidedNow(r, old.hook, d, a)
<1>1. /\ trace' = Append(trace, rec) /\ live' = [live EXCEPT ![r] = x]
      /\ old.st = "asked" /\ (d = "cancelled" => a) /\ truth' = truth \union Z
  BY DEF Answer, Write, AnswerRec, DecidedNow
<1>2. /\ live \in [RunIds -> Calls(setting)] /\ \A q \in RunIds : InTrace(setting, trace, truth, q, live[q])
      /\ trace \in Seq(Records(setting)) /\ Len(trace) \in Nat
      /\ old \in Calls(setting)
  BY LenProperties DEF Written
<1>3. InTrace(setting, trace, truth, r, old)
  BY <1>2
<1>4. /\ old \in Asking(setting) /\ old.line \in LinesIn(trace, "request")
      /\ trace[old.line].run = r /\ trace[old.line].id = old.line /\ trace[old.line].hook = old.hook
      /\ old.hook = "tool" => Confirmed(trace, r, trace[old.line].call, old.sig)
      /\ \A y \in truth : y.line # old.line
  <2> HIDE DEF old
  <2> QED BY <1>1, <1>3 DEF InTrace
<1>5. old.line \in Nat /\ old.call \in CallIds(setting)
  <2> HIDE DEF old
  <2> QED BY <1>4 DEF Asking
<1>6. rec \in Records(setting)
  <2> HIDE DEF old
  <2> QED BY <1>5, RecordsAre
<1>7. x \in Calls(setting) /\ x.st # "asked" /\ x.st # "evaluated"
  <2> HIDE DEF old
  <2> QED BY <1>5 DEF Calls, Plain, Steps
<1>8. Moved1(r, x)
  <2> HIDE DEF x
  <2> QED BY <1>1, <1>2, <1>7, Moves
<1>9. rec.t = "response" /\ rec.run = r /\ rec.id = old.line /\ rec.decision = d /\ rec.automatic = a
  BY DEF AnswerRec
<1>10. /\ trace' \in Seq(Records(setting)) /\ Longer(trace, trace') /\ trace'[Len(trace) + 1] = rec
       /\ Len(trace) + 1 \in LinesIn(trace', "response")
       /\ LinesIn(trace, "request") \subseteq 1 .. Len(trace)
  <2> HIDE DEF rec
  <2> QED BY <1>1, <1>6, <1>9, Writes
<1>11. IsFiniteSet(Z) /\ \A y, z \in Z : y = z
  <2>1. Z = {} \/ \E z : Z = {z}
    BY DEF DecidedNow
  <2> HIDE DEF Z
  <2> QED BY <2>1, FS_EmptySet, FS_Singleton
<1> DEFINE ref == [line |-> old.line, run |-> r, sig |-> old.sig, decision |-> d]
<1>12. \A z \in Z : z = ref /\ old.hook = "tool" /\ ~a
  BY DEF DecidedNow
<1>13. ref.line = old.line /\ ref.run = r /\ ref.sig = old.sig /\ ref.decision = d
  OBVIOUS
<1>14. ASSUME old.hook = "tool", ~a PROVE Stands(trace', ref)
  <2> HIDE DEF ref, rec, old
  <2>1. /\ old.line \in LinesIn(trace', "request") /\ trace'[old.line] = trace[old.line]
        /\ Confirmed(trace', r, trace[old.line].call, old.sig)
    BY <1>2, <1>4, <1>10, <1>14, Remembers DEF Longer
  <2>2. \E j \in LinesIn(trace', "response") :
             /\ trace'[j].id = trace'[ref.line].id /\ trace'[j].run = ref.run
             /\ trace'[j].decision = ref.decision /\ ~trace'[j].automatic
    BY <2>1, <1>4, <1>9, <1>10, <1>13, <1>14
  <2> QED BY <2>1, <2>2, <1>4, <1>13, <1>14 DEF Stands
<1>15. ASSUME ~a PROVE ValidSample(ref)
  <2>1. d \in Decisions
    BY <1>1, <1>15 DEF Answers
  <2>2. old.line >= 1
    BY <1>4, <1>10
  <2> HIDE DEF ref, old
  <2> QED BY <2>1, <2>2, <1>13 DEF ValidSample
<1> HIDE DEF ref, rec, x, Z, old
<1>16. \A z \in Z : /\ z.line \in 1 .. Len(trace) /\ Stands(trace', z) /\ ValidSample(z)
                    /\ \A y \in truth : y.line # z.line
  BY <1>4, <1>10, <1>12, <1>13, <1>14, <1>15
<1>17. ASSUME NEW q \in RunIds \ {r}, live[q].st = "asked" PROVE live[q].line # old.line
  <2>1. trace[live[q].line].run = q
    BY <1>2, <1>17 DEF InTrace
  <2> QED BY <2>1, <1>4, <1>17
<1>18. \A q \in RunIds : \/ live'[q] = live[q] /\ \A z \in Z : live[q].st = "asked" => live[q].line # z.line
                         \/ InTrace(setting, trace', truth \union Z, q, live'[q])
  <2>1. InTrace(setting, trace', truth \union Z, r, x)
    BY <1>7 DEF InTrace
  <2> QED BY <2>1, <1>8, <1>12, <1>13, <1>17 DEF Moved1
<1>19. Written(setting, trace', live', truth \union Z)
  <2> DEFINE tr2 == trace'
             lv2 == live'
  <2>1. lv2 \in [RunIds -> Calls(setting)]
    BY <1>8 DEF Moved1
  <2>2. /\ tr2 \in Seq(Records(setting)) /\ Longer(trace, tr2)
        /\ \A z \in Z : /\ z.line \in 1 .. Len(trace) /\ Stands(tr2, z) /\ ValidSample(z)
                        /\ \A y \in truth : y.line # z.line
        /\ \A q \in RunIds : \/ lv2[q] = live[q] /\ \A z \in Z : live[q].st = "asked" => live[q].line # z.line
                             \/ InTrace(setting, tr2, truth \union Z, q, lv2[q])
    BY <1>10, <1>16, <1>18
  <2> HIDE DEF tr2, lv2
  <2>3. Written(setting, tr2, lv2, truth \union Z)
    BY <2>1, <2>2, <1>11, WrittenGrows
  <2> QED BY <2>3 DEF tr2, lv2
<1> QED BY <1>1, <1>6, <1>8, <1>19 DEF x, rec, Z, old

LEMMA EndCallDoes ==
  ASSUME Written(setting, trace, live, truth), NEW r \in RunIds, EndCall(r)
  PROVE  LET rec == EndRec(r, live[r].call) IN
         /\ trace' = Append(trace, rec) /\ rec \in Records(setting) /\ truth' = truth /\ live[r].st \in {"called", "decided"}
         /\ Moved1(r, live'[r]) /\ live'[r].st = "idle"
         /\ Written(setting, trace', live', truth')
<1> DEFINE old == live[r]
           x == Reached(old, "idle")
           rec == EndRec(r, old.call)
<1>1. trace' = Append(trace, rec) /\ live' = [live EXCEPT ![r] = x] /\ old.st \in {"called", "decided"} /\ truth' = truth
  BY DEF EndCall, Write, EndRec, Reached
<1>2. live \in [RunIds -> Calls(setting)] /\ old \in Calls(setting)
  BY DEF Written
<1> HIDE DEF old
<1>3. old.call \in CallIds(setting) /\ x \in Calls(setting) /\ x.st = "idle"
  <2>1. "idle" \in Steps
    BY DEF Steps
  <2> QED BY <2>1, <1>2, CallFields
<1>4. rec \in Records(setting)
  BY <1>3, RecordsAre
<1> HIDE DEF x, rec
<1>5. Moved1(r, x)
  BY <1>1, <1>2, <1>3, Moves
<1>6. live'[r] = x
  BY <1>5 DEF Moved1
<1>7. InTrace(setting, trace', truth', r, x)
  BY <1>3 DEF InTrace
<1>8. Written(setting, trace', live', truth')
  BY <1>1, <1>4, <1>5, <1>7, Writes, WrittenOn
<1> QED BY <1>1, <1>3, <1>4, <1>5, <1>6, <1>8 DEF rec, old

LEMMA CrashDoes ==
  ASSUME Written(setting, trace, live, truth), NEW r \in RunIds, Crash(r)
  PROVE  LET rec == [t |-> "torn", run |-> r] IN
         /\ trace' = trace \/ trace' = Append(trace, rec)
         /\ rec \in Records(setting) /\ truth' = truth /\ live[r].st \notin {"idle", "dead"}
         /\ Moved1(r, live'[r]) /\ live'[r].st = "dead" /\ live'[r].call = live[r].call
         /\ Written(setting, trace', live', truth')
<1> DEFINE old == live[r]
           x == Reached(old, "dead")
           rec == [t |-> "torn", run |-> r]
<1>1. /\ trace' = trace \/ trace' = Append(trace, rec)
      /\ live' = [live EXCEPT ![r] = x] /\ old.st \notin {"idle", "dead"} /\ truth' = truth
  BY DEF Crash, Write, Reached
<1>2. live \in [RunIds -> Calls(setting)] /\ old \in Calls(setting) /\ trace \in Seq(Records(setting))
  BY DEF Written
<1> HIDE DEF old
<1>3. old.call \in CallIds(setting) /\ x \in Calls(setting) /\ x.st = "dead" /\ x.call = old.call
  <2>1. "dead" \in Steps
    BY DEF Steps
  <2> QED BY <2>1, <1>2, CallFields
<1>4. rec \in Records(setting)
  BY <1>3, RecordsAre
<1> HIDE DEF x, rec
<1>5. Moved1(r, x)
  BY <1>1, <1>2, <1>3, Moves
<1>6. live'[r] = x
  BY <1>5 DEF Moved1
<1>7. InTrace(setting, trace', truth', r, x)
  BY <1>3 DEF InTrace
<1>8. trace' \in Seq(Records(setting)) /\ Longer(trace, trace')
  <2>1. CASE trace' = trace
    <3>1. Len(trace) \in Nat
      BY <1>2, LenProperties
    <3> QED BY <2>1, <3>1, <1>2 DEF Longer
  <2>2. CASE trace' = Append(trace, rec)
    BY <2>2, <1>4, Writes
  <2> QED BY <2>1, <2>2, <1>1
<1>9. Written(setting, trace', live', truth')
  BY <1>1, <1>5, <1>7, <1>8, WrittenOn
<1> QED BY <1>1, <1>3, <1>4, <1>5, <1>6, <1>9 DEF rec, old

(* A record that is about no call.                                         *)
Note(t, r) == [t |-> t, run |-> r]
Noted(rec) ==
  /\ \/ rec = Note("runtime", NoRun) \/ rec = Note("unowned", NoRun)
     \/ \E r \in RunIds : rec = Note("separated", r)
  /\ trace' = Append(trace, rec) /\ live' = live /\ truth' = truth

LEMMA NotesAre ==
  /\ RuntimeEvent => Noted(Note("runtime", NoRun))
  /\ SessionEvaluation => Noted(Note("unowned", NoRun))
  /\ \A r \in RunIds : SeparatedText(r) => Noted(Note("separated", r))
BY DEF Noted, Note, RuntimeEvent, SessionEvaluation, SeparatedText, Write

LEMMA NotedDoes ==
  ASSUME Written(setting, trace, live, truth), NEW rec, Noted(rec)
  PROVE  /\ trace' = Append(trace, rec) /\ rec \in Records(setting) /\ truth' = truth /\ live' = live
         /\ rec.t \in {"runtime", "unowned", "separated"}
         /\ Written(setting, trace', live', truth')
<1> DEFINE tr2 == trace'
<1>1. trace' = Append(trace, rec) /\ live' = live /\ truth' = truth
  BY DEF Noted
<1>2. rec \in Records(setting) /\ rec.t \in {"runtime", "unowned", "separated"}
  BY DEF Noted, Note, Records
<1>3. tr2 \in Seq(Records(setting)) /\ Longer(trace, tr2)
  BY <1>1, <1>2, Writes
<1> HIDE DEF tr2
<1>4. Written(setting, tr2, live, truth \union {})
  <2>1. IsFiniteSet({})
    BY FS_EmptySet
  <2>2. live \in [RunIds -> Calls(setting)]
    BY DEF Written
  <2> QED BY <2>1, <2>2, <1>3, WrittenGrows
<1>5. truth \union {} = truth
  OBVIOUS
<1> QED BY <1>1, <1>2, <1>4, <1>5 DEF tr2

-----------------------------------------------------------------------------
(* Discovery: what is held of evaluations and requests are the calls in    *)
(* progress, and those of a Run that died.                                 *)
Evals(se) == [key : RunIds \X CallIds(se), sig : SigIds(se)]
Reqs(se) == [id : Nat, run : RunIds, hook : se.hooks, sig : SigIds(se), line : Nat]
Samples(se) == [line : Nat, run : RunIds, sig : SigIds(se), decision : Answers]
ParseStates(se) == [ok : BOOLEAN, evals : SUBSET Evals(se), reqs : SUBSET Reqs(se), samples : SUBSET Samples(se)]

EvalOf(lv, r) == [key |-> <<r, lv[r].call>>, sig |-> lv[r].sig]
RequestOf(lv, r) == [id |-> lv[r].line, run |-> r, hook |-> lv[r].hook, sig |-> lv[r].sig, line |-> lv[r].line]

EvalsFit(lv, evals) ==
  /\ \A e \in evals : LET r == e.key[1] IN
       /\ lv[r].st \in {"evaluated", "dead"} /\ e.key = <<r, lv[r].call>>
       /\ lv[r].st = "evaluated" => e = EvalOf(lv, r)
  /\ \A r \in RunIds : lv[r].st = "evaluated" => EvalOf(lv, r) \in evals

RequestsFit(tr, lv, reqs) ==
  /\ \A q \in reqs :
       /\ lv[q.run].st \in {"asked", "dead"} /\ q.id = q.line
       /\ q.line \in 1 .. Len(tr) /\ tr[q.line].run = q.run
       /\ lv[q.run].st = "asked" => q = RequestOf(lv, q.run)
  /\ \A r \in RunIds : lv[r].st = "asked" => RequestOf(lv, r) \in reqs

Discovered(se, tr, lv, tt, st) ==
  /\ st \in ParseStates(se)
  /\ st.ok <=> RefusedIn(tr) = {}
  /\ st.ok => st.samples = tt /\ EvalsFit(lv, st.evals) /\ RequestsFit(tr, lv, st.reqs)

EvalsBut(evals, r) == {e \in evals : e.key[1] # r}
ReqsBut(reqs, r) == {q \in reqs : q.run # r}

LEMMA EvalsOfOthers ==
  ASSUME NEW lv, NEW evals, EvalsFit(lv, evals), NEW r, lv[r].st \notin {"evaluated", "dead"}
  PROVE  EvalsBut(evals, r) = evals
BY DEF EvalsFit, EvalsBut

LEMMA EvalsOfRun ==
  ASSUME NEW lv, NEW evals, EvalsFit(lv, evals), NEW r \in RunIds, lv[r].st = "evaluated"
  PROVE  /\ EvalOf(lv, r) \in evals /\ EvalOf(lv, r).key = <<r, lv[r].call>>
         /\ \A e \in evals : /\ e.key = <<r, lv[r].call>> <=> e.key[1] = r
                             /\ e.key[1] = r => e = EvalOf(lv, r)
<1>1. /\ \A e \in evals : /\ lv[e.key[1]].st \in {"evaluated", "dead"} /\ e.key = <<e.key[1], lv[e.key[1]].call>>
                          /\ lv[e.key[1]].st = "evaluated" => e = EvalOf(lv, e.key[1])
      /\ EvalOf(lv, r) \in evals
  BY DEF EvalsFit
<1>2. EvalOf(lv, r).key = <<r, lv[r].call>>
  BY DEF EvalOf
<1>3. ASSUME NEW e \in evals PROVE e.key = <<r, lv[r].call>> <=> e.key[1] = r
  BY <1>1
<1>4. ASSUME NEW e \in evals, e.key[1] = r PROVE e = EvalOf(lv, r)
  BY <1>1, <1>4
<1> QED BY <1>1, <1>2, <1>3, <1>4

LEMMA EvalsMove ==
  ASSUME NEW lv, NEW evals, \A e \in evals : e.key[1] \in RunIds, EvalsFit(lv, evals), NEW r \in RunIds,
         NEW lv2, \A q \in RunIds \ {r} : lv2[q] = lv[q]
  PROVE  EvalsFit(lv2, EvalsBut(evals, r) \union IF lv2[r].st = "evaluated" THEN {EvalOf(lv2, r)} ELSE {})
<1> DEFINE now == IF lv2[r].st = "evaluated" THEN {EvalOf(lv2, r)} ELSE {}
           rest == EvalsBut(evals, r)
<1>1. /\ \A e \in evals : /\ lv[e.key[1]].st \in {"evaluated", "dead"} /\ e.key = <<e.key[1], lv[e.key[1]].call>>
                          /\ lv[e.key[1]].st = "evaluated" => e = EvalOf(lv, e.key[1])
      /\ \A q \in RunIds : lv[q].st = "evaluated" => EvalOf(lv, q) \in evals
      /\ \A e \in evals : e.key[1] \in RunIds
  BY DEF EvalsFit
<1>2. \A q \in RunIds \ {r} : lv2[q] = lv[q] /\ EvalOf(lv2, q) = EvalOf(lv, q) /\ EvalOf(lv, q).key[1] = q
  BY DEF EvalOf
<1>3. ASSUME NEW e \in rest
      PROVE  /\ lv2[e.key[1]].st \in {"evaluated", "dead"} /\ e.key = <<e.key[1], lv2[e.key[1]].call>>
             /\ lv2[e.key[1]].st = "evaluated" => e = EvalOf(lv2, e.key[1])
  <2>1. e \in evals /\ e.key[1] \in RunIds \ {r}
    BY <1>1 DEF EvalsBut
  <2> QED BY <2>1, <1>1, <1>2
<1>4. ASSUME NEW e \in now
      PROVE  /\ lv2[e.key[1]].st \in {"evaluated", "dead"} /\ e.key = <<e.key[1], lv2[e.key[1]].call>>
             /\ lv2[e.key[1]].st = "evaluated" => e = EvalOf(lv2, e.key[1])
  <2>1. e = EvalOf(lv2, r) /\ lv2[r].st = "evaluated"
    OBVIOUS
  <2>2. e.key[1] = r /\ e.key = <<r, lv2[r].call>>
    BY <2>1 DEF EvalOf
  <2> QED BY <2>1, <2>2
<1>5. ASSUME NEW q \in RunIds, lv2[q].st = "evaluated" PROVE EvalOf(lv2, q) \in rest \union now
  <2>1. CASE q = r
    BY <1>5, <2>1
  <2>2. CASE q # r
    <3>1. EvalOf(lv, q) \in evals /\ EvalOf(lv2, q) = EvalOf(lv, q) /\ EvalOf(lv, q).key[1] # r
      BY <1>1, <1>2, <1>5, <2>2
    <3> QED BY <3>1 DEF EvalsBut
  <2> QED BY <2>1, <2>2
<1> HIDE DEF now, rest
<1>6. EvalsFit(lv2, rest \union now)
  BY <1>3, <1>4, <1>5 DEF EvalsFit
<1> QED BY <1>6 DEF now, rest

LEMMA ReqsOfOthers ==
  ASSUME NEW tr, NEW lv, NEW reqs, RequestsFit(tr, lv, reqs), NEW r, lv[r].st \notin {"asked", "dead"}
  PROVE  ReqsBut(reqs, r) = reqs
BY DEF RequestsFit, ReqsBut

LEMMA ReqsOfRun ==
  ASSUME NEW tr, NEW lv, NEW reqs, RequestsFit(tr, lv, reqs), NEW r \in RunIds, lv[r].st = "asked",
         tr[lv[r].line].run = r
  PROVE  /\ RequestOf(lv, r) \in reqs /\ RequestOf(lv, r).id = lv[r].line /\ RequestOf(lv, r).run = r
         /\ \A q \in reqs : (q.id = lv[r].line <=> q.run = r) /\ (q.run = r => q = RequestOf(lv, r))
<1>1. /\ \A q \in reqs : /\ q.id = q.line /\ tr[q.line].run = q.run
                         /\ lv[q.run].st = "asked" => q = RequestOf(lv, q.run)
      /\ RequestOf(lv, r) \in reqs
  BY DEF RequestsFit
<1>2. RequestOf(lv, r).id = lv[r].line /\ RequestOf(lv, r).run = r
  BY DEF RequestOf
<1>3. ASSUME NEW q \in reqs
      PROVE  (q.id = lv[r].line <=> q.run = r) /\ (q.run = r => q = RequestOf(lv, r))
  <2>1. q.id = lv[r].line => q.run = r
    BY <1>1
  <2>2. q.run = r => q = RequestOf(lv, r)
    BY <1>1
  <2> QED BY <2>1, <2>2, <1>2
<1> QED BY <1>1, <1>2, <1>3

LEMMA ReqsMove ==
  ASSUME NEW tr, NEW tr2, Len(tr) \in Nat, Len(tr2) \in Nat, Longer(tr, tr2),
         NEW lv, NEW reqs, \A q \in reqs : q.run \in RunIds, RequestsFit(tr, lv, reqs), NEW r \in RunIds,
         NEW lv2, \A q \in RunIds \ {r} : lv2[q] = lv[q],
         lv2[r].st = "asked" => lv2[r].line \in 1 .. Len(tr2) /\ tr2[lv2[r].line].run = r
  PROVE  RequestsFit(tr2, lv2, ReqsBut(reqs, r) \union IF lv2[r].st = "asked" THEN {RequestOf(lv2, r)} ELSE {})
<1> DEFINE now == IF lv2[r].st = "asked" THEN {RequestOf(lv2, r)} ELSE {}
           rest == ReqsBut(reqs, r)
           Fits(q) == /\ lv2[q.run].st \in {"asked", "dead"} /\ q.id = q.line
                      /\ q.line \in 1 .. Len(tr2) /\ tr2[q.line].run = q.run
                      /\ lv2[q.run].st = "asked" => q = RequestOf(lv2, q.run)
<1>1. /\ \A q \in reqs : /\ lv[q.run].st \in {"asked", "dead"} /\ q.id = q.line
                         /\ q.line \in 1 .. Len(tr) /\ tr[q.line].run = q.run
                         /\ lv[q.run].st = "asked" => q = RequestOf(lv, q.run)
      /\ \A q \in RunIds : lv[q].st = "asked" => RequestOf(lv, q) \in reqs
      /\ \A q \in reqs : q.run \in RunIds
  BY DEF RequestsFit
<1>2. \A q \in RunIds \ {r} : lv2[q] = lv[q] /\ RequestOf(lv2, q) = RequestOf(lv, q) /\ RequestOf(lv, q).run = q
  BY DEF RequestOf
<1>3. Len(tr) \in Nat /\ Len(tr2) \in Nat /\ Len(tr) <= Len(tr2) /\ \A i \in 1 .. Len(tr) : tr2[i] = tr[i]
  BY DEF Longer
<1>4. ASSUME NEW q \in rest PROVE Fits(q)
  <2>1. q \in reqs /\ q.run \in RunIds \ {r}
    BY <1>1 DEF ReqsBut
  <2>2. q.line \in 1 .. Len(tr2) /\ tr2[q.line].run = q.run
    BY <2>1, <1>1, <1>3
  <2> QED BY <2>1, <2>2, <1>1, <1>2
<1>5. ASSUME NEW q \in now PROVE Fits(q)
  <2>1. q = RequestOf(lv2, r) /\ lv2[r].st = "asked"
    OBVIOUS
  <2>2. q.run = r /\ q.id = lv2[r].line /\ q.line = lv2[r].line
    BY <2>1 DEF RequestOf
  <2> QED BY <2>1, <2>2
<1>6. ASSUME NEW q \in RunIds, lv2[q].st = "asked" PROVE RequestOf(lv2, q) \in rest \union now
  <2>1. CASE q = r
    BY <1>6, <2>1
  <2>2. CASE q # r
    <3>1. RequestOf(lv, q) \in reqs /\ RequestOf(lv2, q) = RequestOf(lv, q) /\ RequestOf(lv, q).run # r
      BY <1>1, <1>2, <1>6, <2>2
    <3> QED BY <3>1 DEF ReqsBut
  <2> QED BY <2>1, <2>2
<1>7. \A q \in rest \union now : Fits(q)
  BY <1>4, <1>5
<1> HIDE DEF now, rest
<1>8. RequestsFit(tr2, lv2, rest \union now)
  BY <1>6, <1>7 DEF RequestsFit
<1> QED BY <1>8 DEF now, rest

LEMMA ParseRecordIs ==
  ASSUME NEW st, NEW rec, NEW i
  PROVE  /\ st.ok = FALSE => ParseRecord(st, rec, i) = st
         /\ st.ok = TRUE =>
              /\ rec.t \in Unreadable => ParseRecord(st, rec, i) = Refuse(st)
              /\ rec.t = "evaluation" => ParseRecord(st, rec, i) = ParseEvaluation(st, rec)
              /\ rec.t = "request" => ParseRecord(st, rec, i) = ParseRequest(st, rec, i)
              /\ rec.t = "response" => ParseRecord(st, rec, i) = ParseResponse(st, rec)
              /\ rec.t \in {"start", "end", "runtime"} => ParseRecord(st, rec, i) = st
<1>1. CASE st.ok = FALSE
  BY <1>1 DEF ParseRecord
<1>2. CASE st.ok = TRUE
  <2>1. CASE rec.t \in Unreadable
    BY <1>2, <2>1 DEF ParseRecord, Unreadable
  <2>2. CASE rec.t = "evaluation"
    BY <1>2, <2>2 DEF ParseRecord, Unreadable
  <2>3. CASE rec.t = "request"
    BY <1>2, <2>3 DEF ParseRecord, Unreadable
  <2>4. CASE rec.t = "response"
    BY <1>2, <2>4 DEF ParseRecord, Unreadable
  <2>5. CASE rec.t \in {"start", "end", "runtime"}
    BY <1>2, <2>5 DEF ParseRecord, Unreadable
  <2> QED BY <2>1, <2>2, <2>3, <2>4, <2>5, <1>2
<1> QED BY <1>1, <1>2

LEMMA ParseStateRefused ==
  ASSUME NEW se, NEW st \in ParseStates(se)
  PROVE  Refuse(st) \in ParseStates(se) /\ Refuse(st).ok = FALSE
BY DEF ParseStates, Refuse

Discovering(st) == Discovered(setting, trace, live, truth, st)
DiscoveringNext(st) == Discovered(setting, trace', live', truth', st)
Holding(st) == st \in ParseStates(setting) /\ st.ok = TRUE /\ st.samples = truth
               /\ EvalsFit(live, st.evals) /\ RequestsFit(trace, live, st.reqs)
HoldingNext(st) == st \in ParseStates(setting) /\ st.ok = TRUE /\ st.samples = truth'
                   /\ EvalsFit(live', st.evals) /\ RequestsFit(trace', live', st.reqs)

LEMMA HoldingIs ==
  ASSUME NEW st, Discovering(st), st.ok = TRUE PROVE Holding(st)
BY DEF Discovering, Discovered, Holding

(* A record that can be read, by a Discovery that is still going on.       *)
LEMMA ParsesOn ==
  ASSUME NEW st, Discovering(st), NEW rec, NEW i, rec.t \notin Unreadable,
         RefusedIn(trace') = RefusedIn(trace),
         st.ok = TRUE => HoldingNext(ParseRecord(st, rec, i))
  PROVE  DiscoveringNext(ParseRecord(st, rec, i))
<1> DEFINE st2 == ParseRecord(st, rec, i)
           tr2 == trace'
           lv2 == live'
           tt2 == truth'
<1>1. st \in ParseStates(setting) /\ (st.ok = TRUE \/ st.ok = FALSE) /\ (st.ok <=> RefusedIn(trace) = {})
  BY DEF Discovering, Discovered, ParseStates
<1>2. st.ok = FALSE => st2 = st
  BY ParseRecordIs
<1>3. st.ok = TRUE => /\ st2 \in ParseStates(setting) /\ st2.ok = TRUE /\ st2.samples = tt2
                      /\ EvalsFit(lv2, st2.evals) /\ RequestsFit(tr2, lv2, st2.reqs)
  BY DEF HoldingNext
<1>4. RefusedIn(tr2) = RefusedIn(trace)
  OBVIOUS
<1> HIDE DEF st2, tr2, lv2, tt2
<1>5. Discovered(setting, tr2, lv2, tt2, st2)
  <2>1. CASE st.ok = TRUE
    BY <2>1, <1>1, <1>3, <1>4 DEF Discovered
  <2>2. CASE st.ok = FALSE
    BY <2>2, <1>1, <1>2, <1>4 DEF Discovered
  <2> QED BY <2>1, <2>2, <1>1
<1> QED BY <1>5 DEF DiscoveringNext, st2, tr2, lv2, tt2

(* A call that is neither judged nor asked about, before or after.         *)
LEMMA QuietFits ==
  ASSUME NEW se, NEW X, NEW tr \in Seq(X), NEW tr2 \in Seq(X), Longer(tr, tr2), NEW lv, NEW lv2,
         NEW st \in ParseStates(se), EvalsFit(lv, st.evals), RequestsFit(tr, lv, st.reqs),
         NEW r \in RunIds, \A q \in RunIds \ {r} : lv2[q] = lv[q]
  PROVE  /\ (lv[r].st \notin {"evaluated", "dead"} /\ lv2[r].st # "evaluated") => EvalsFit(lv2, st.evals)
         /\ (lv[r].st \notin {"asked", "dead"} /\ lv2[r].st # "asked") => RequestsFit(tr2, lv2, st.reqs)
<1>1. /\ \A e \in st.evals : e.key[1] \in RunIds
      /\ \A q \in st.reqs : q.run \in RunIds
  BY DEF ParseStates, Evals, Reqs
<1>2. ASSUME lv[r].st \notin {"evaluated", "dead"}, lv2[r].st # "evaluated" PROVE EvalsFit(lv2, st.evals)
  <2>1. EvalsFit(lv2, EvalsBut(st.evals, r) \union IF lv2[r].st = "evaluated" THEN {EvalOf(lv2, r)} ELSE {})
    BY <1>1, EvalsMove
  <2>2. EvalsBut(st.evals, r) = st.evals
    BY <1>2, EvalsOfOthers
  <2>3. EvalsBut(st.evals, r) \union (IF lv2[r].st = "evaluated" THEN {EvalOf(lv2, r)} ELSE {}) = st.evals
    BY <2>2, <1>2
  <2> QED BY <2>1, <2>3
<1>3. ASSUME lv[r].st \notin {"asked", "dead"}, lv2[r].st # "asked" PROVE RequestsFit(tr2, lv2, st.reqs)
  <2>1. RequestsFit(tr2, lv2, ReqsBut(st.reqs, r) \union IF lv2[r].st = "asked" THEN {RequestOf(lv2, r)} ELSE {})
    BY <1>1, <1>3, LenProperties, ReqsMove
  <2>2. ReqsBut(st.reqs, r) = st.reqs
    BY <1>3, ReqsOfOthers
  <2>3. ReqsBut(st.reqs, r) \union (IF lv2[r].st = "asked" THEN {RequestOf(lv2, r)} ELSE {}) = st.reqs
    BY <2>2, <1>3
  <2> QED BY <2>1, <2>3
<1> QED BY <1>2, <1>3

LEMMA BeginCallParsed ==
  ASSUME Written(setting, trace, live, truth), NEW r \in RunIds, NEW c \in setting.calls, BeginCall(r, c),
         NEW st, Discovering(st)
  PROVE  DiscoveringNext(ParseRecord(st, trace'[Len(trace) + 1], Len(trace) + 1))
<1> DEFINE rec == StartRec(r, c)
           n == Len(trace) + 1
           st2 == ParseRecord(st, rec, n)
           x == [st |-> "called", call |-> c]
           tr2 == trace'
           lv2 == live'
           tt2 == truth'
<1>1. trace' = Append(trace, rec) /\ rec \in Records(setting) /\ Moved1(r, x) /\ live[r].st = "idle" /\ tt2 = truth
  BY BeginCallDoes
<1>2. rec.t = "start" /\ x.st = "called"
  BY DEF StartRec
<1>3. trace \in Seq(Records(setting))
  BY DEF Written
<1> HIDE DEF rec, x
<1>4. /\ tr2 \in Seq(Records(setting)) /\ Longer(trace, tr2) /\ tr2[n] = rec
      /\ RefusedIn(tr2) = RefusedIn(trace) /\ rec.t \notin Unreadable
  BY <1>1, <1>2, Writes DEF Unreadable
<1>5. lv2[r] = x /\ \A q \in RunIds \ {r} : lv2[q] = live[q]
  BY <1>1 DEF Moved1
<1> HIDE DEF tr2, lv2, tt2
<1>6. ASSUME st.ok = TRUE
      PROVE  /\ st2 \in ParseStates(setting) /\ st2.ok = TRUE /\ st2.samples = tt2
             /\ EvalsFit(lv2, st2.evals) /\ RequestsFit(tr2, lv2, st2.reqs)
  <2>1. Holding(st)
    BY <1>6, HoldingIs
  <2>2. st2 = st
    BY <1>2, <1>6, ParseRecordIs
  <2>3. EvalsFit(lv2, st.evals) /\ RequestsFit(tr2, lv2, st.reqs)
    BY <2>1, <1>1, <1>2, <1>3, <1>4, <1>5, QuietFits DEF Holding
  <2> QED BY <2>1, <2>2, <2>3, <1>1 DEF Holding
<1> HIDE DEF st2
<1>7. st.ok = TRUE => HoldingNext(st2)
  BY <1>6 DEF HoldingNext, tr2, lv2, tt2
<1>8. DiscoveringNext(st2)
  <2>1. rec.t \notin Unreadable /\ RefusedIn(trace') = RefusedIn(trace) /\ st2 = ParseRecord(st, rec, n)
    BY <1>2, <1>4 DEF st2, tr2
  <2> QED BY <2>1, <1>7, ParsesOn
<1> QED BY <1>4, <1>8 DEF st2, tr2

LEMMA EndCallParsed ==
  ASSUME Written(setting, trace, live, truth), NEW r \in RunIds, EndCall(r), NEW st, Discovering(st)
  PROVE  DiscoveringNext(ParseRecord(st, trace'[Len(trace) + 1], Len(trace) + 1))
<1> DEFINE rec == EndRec(r, live[r].call)
           n == Len(trace) + 1
           st2 == ParseRecord(st, rec, n)
           tr2 == trace'
           lv2 == live'
           tt2 == truth'
<1>1. /\ trace' = Append(trace, rec) /\ rec \in Records(setting) /\ Moved1(r, lv2[r]) /\ live[r].st \in {"called", "decided"}
      /\ lv2[r].st = "idle" /\ tt2 = truth
  BY EndCallDoes
<1>2. rec.t = "end"
  BY DEF EndRec
<1>3. trace \in Seq(Records(setting))
  BY DEF Written
<1> HIDE DEF rec
<1>4. /\ tr2 \in Seq(Records(setting)) /\ Longer(trace, tr2) /\ tr2[n] = rec
      /\ RefusedIn(tr2) = RefusedIn(trace) /\ rec.t \notin Unreadable
  BY <1>1, <1>2, Writes DEF Unreadable
<1>5. \A q \in RunIds \ {r} : lv2[q] = live[q]
  BY <1>1 DEF Moved1
<1> HIDE DEF tr2, lv2, tt2
<1>6. ASSUME st.ok = TRUE
      PROVE  /\ st2 \in ParseStates(setting) /\ st2.ok = TRUE /\ st2.samples = tt2
             /\ EvalsFit(lv2, st2.evals) /\ RequestsFit(tr2, lv2, st2.reqs)
  <2>1. Holding(st)
    BY <1>6, HoldingIs
  <2>2. st2 = st
    BY <1>2, <1>6, ParseRecordIs
  <2>3. EvalsFit(lv2, st.evals) /\ RequestsFit(tr2, lv2, st.reqs)
    BY <2>1, <1>1, <1>3, <1>4, <1>5, QuietFits DEF Holding
  <2> QED BY <2>1, <2>2, <2>3, <1>1 DEF Holding
<1> HIDE DEF st2
<1>7. st.ok = TRUE => HoldingNext(st2)
  BY <1>6 DEF HoldingNext, tr2, lv2, tt2
<1>8. DiscoveringNext(st2)
  <2>1. rec.t \notin Unreadable /\ RefusedIn(trace') = RefusedIn(trace) /\ st2 = ParseRecord(st, rec, n)
    BY <1>2, <1>4 DEF st2, tr2
  <2> QED BY <2>1, <1>7, ParsesOn
<1> QED BY <1>4, <1>8 DEF st2, tr2

LEMMA EvaluateParsed ==
  ASSUME Written(setting, trace, live, truth), NEW r \in RunIds, NEW s \in setting.sigs, NEW b \in BOOLEAN,
         Evaluate(r, s, b), NEW st, Discovering(st)
  PROVE  DiscoveringNext(ParseRecord(st, trace'[Len(trace) + 1], Len(trace) + 1))
<1> DEFINE c == live[r].call
           rec == EvalRec(r, c, s, b)
           n == Len(trace) + 1
           st2 == ParseRecord(st, rec, n)
           x == [st |-> IF b THEN "evaluated" ELSE "decided", call |-> c, sig |-> s]
           tr2 == trace'
           lv2 == live'
           tt2 == truth'
<1>1. trace' = Append(trace, rec) /\ rec \in Records(setting) /\ Moved1(r, x) /\ live[r].st = "called" /\ tt2 = truth
  BY EvaluateDoes
<1>2. /\ rec.t = "evaluation" /\ rec.run = r /\ rec.call = c /\ rec.sig = s /\ rec.confirm = b
      /\ x.st = (IF b THEN "evaluated" ELSE "decided") /\ x.call = c /\ x.sig = s
  BY DEF EvalRec
<1>3. trace \in Seq(Records(setting)) /\ c \in CallIds(setting) /\ s \in SigIds(setting)
  BY CallFields DEF Written, SigIds
<1> HIDE DEF rec, x
<1>4. /\ tr2 \in Seq(Records(setting)) /\ Longer(trace, tr2) /\ tr2[n] = rec
      /\ RefusedIn(tr2) = RefusedIn(trace) /\ rec.t \notin Unreadable
  BY <1>1, <1>2, Writes DEF Unreadable
<1>5. lv2[r] = x /\ \A q \in RunIds \ {r} : lv2[q] = live[q]
  BY <1>1 DEF Moved1
<1> HIDE DEF tr2, lv2, tt2, c
<1>6. ASSUME st.ok = TRUE
      PROVE  /\ st2 \in ParseStates(setting) /\ st2.ok = TRUE /\ st2.samples = tt2
             /\ EvalsFit(lv2, st2.evals) /\ RequestsFit(tr2, lv2, st2.reqs)
  <2>1. Holding(st)
    BY <1>6, HoldingIs
  <2>2. st2 = ParseEvaluation(st, rec)
    BY <1>2, <1>6, ParseRecordIs
  <2>3. RequestsFit(tr2, lv2, st.reqs)
    <3>1. st \in ParseStates(setting) /\ EvalsFit(live, st.evals) /\ RequestsFit(trace, live, st.reqs)
      BY <2>1 DEF Holding
    <3>2. live[r].st \notin {"asked", "dead"} /\ lv2[r].st # "asked"
      BY <1>1, <1>2, <1>5
    <3>3. trace \in Seq(Records(setting)) /\ tr2 \in Seq(Records(setting)) /\ Longer(trace, tr2)
          /\ \A q \in RunIds \ {r} : lv2[q] = live[q]
      BY <1>3, <1>4, <1>5
    <3> QED BY <3>1, <3>2, <3>3, QuietFits
  <2>4. CASE b = FALSE
    <3>1. st2 = st
      BY <2>2, <2>4, <1>2 DEF ParseEvaluation
    <3>2. EvalsFit(lv2, st.evals)
      <4>1. st \in ParseStates(setting) /\ EvalsFit(live, st.evals) /\ RequestsFit(trace, live, st.reqs)
        BY <2>1 DEF Holding
      <4>2. live[r].st \notin {"evaluated", "dead"} /\ lv2[r].st # "evaluated"
        BY <2>4, <1>1, <1>2, <1>5
      <4>3. trace \in Seq(Records(setting)) /\ tr2 \in Seq(Records(setting)) /\ Longer(trace, tr2)
            /\ \A q \in RunIds \ {r} : lv2[q] = live[q]
        BY <1>3, <1>4, <1>5
      <4> QED BY <4>1, <4>2, <4>3, QuietFits
    <3> QED BY <3>1, <3>2, <2>1, <2>3, <1>1 DEF Holding
  <2>5. CASE b = TRUE
    <3> DEFINE e == [key |-> <<r, c>>, sig |-> s]
    <3>1. st.evals \in SUBSET Evals(setting) /\ EvalsFit(live, st.evals) /\ EvalsBut(st.evals, r) = st.evals
      <4>1. st.evals \in SUBSET Evals(setting) /\ EvalsFit(live, st.evals)
        BY <2>1 DEF Holding, ParseStates
      <4> QED BY <4>1, <1>1, EvalsOfOthers
    <3>2. ~\E y \in st.evals : y.key = <<r, c>>
      BY <3>1 DEF EvalsBut
    <3>3. st2 = [st EXCEPT !.evals = @ \union {e}]
      BY <2>2, <2>5, <3>2, <1>2 DEF ParseEvaluation
    <3>4. e \in Evals(setting) /\ EvalOf(lv2, r) = e
      BY <1>2, <1>3, <1>5 DEF Evals, EvalOf
    <3> HIDE DEF e
    <3>5. /\ st2 \in ParseStates(setting) /\ st2.ok = TRUE /\ st2.evals = st.evals \union {e}
          /\ st2.reqs = st.reqs /\ st2.samples = st.samples
      BY <3>3, <3>4, <2>1 DEF Holding, ParseStates
    <3>6. EvalsFit(lv2, st.evals \union {e})
      <4>1. EvalsFit(lv2, EvalsBut(st.evals, r) \union IF lv2[r].st = "evaluated" THEN {EvalOf(lv2, r)} ELSE {})
        <5>1. \A y \in st.evals : y.key[1] \in RunIds
          BY <2>1 DEF Holding, ParseStates, Evals
        <5> QED BY <5>1, <3>1, <1>5, EvalsMove
      <4>2. EvalsBut(st.evals, r) \union (IF lv2[r].st = "evaluated" THEN {EvalOf(lv2, r)} ELSE {}) = st.evals \union {e}
        BY <3>1, <3>4, <1>2, <1>5, <2>5
      <4> QED BY <4>1, <4>2
    <3> QED BY <3>5, <3>6, <2>1, <2>3, <1>1 DEF Holding
  <2> QED BY <2>4, <2>5
<1> HIDE DEF st2
<1>7. st.ok = TRUE => HoldingNext(st2)
  BY <1>6 DEF HoldingNext, tr2, lv2, tt2
<1>8. DiscoveringNext(st2)
  <2>1. rec.t \notin Unreadable /\ RefusedIn(trace') = RefusedIn(trace) /\ st2 = ParseRecord(st, rec, n)
    BY <1>2, <1>4 DEF st2, tr2
  <2> QED BY <2>1, <1>7, ParsesOn
<1> QED BY <1>4, <1>8 DEF st2, tr2

LEMMA AskParsed ==
  ASSUME Written(setting, trace, live, truth), NEW r \in RunIds, NEW hook \in setting.hooks, Ask(r, hook),
         NEW st, Discovering(st)
  PROVE  DiscoveringNext(ParseRecord(st, trace'[Len(trace) + 1], Len(trace) + 1))
<1> DEFINE c == live[r].call
           s == AskedSig(r, hook)
           n == Len(trace) + 1
           rec == AskRec(r, n, hook, c, s)
           st2 == ParseRecord(st, rec, n)
           x == [st |-> "asked", call |-> c, hook |-> hook, sig |-> s, line |-> n]
           tr2 == trace'
           lv2 == live'
           tt2 == truth'
<1>1. /\ trace' = Append(trace, rec) /\ rec \in Records(setting) /\ Moved1(r, x) /\ tt2 = truth
      /\ live[r].st = IF hook = "tool" THEN "evaluated" ELSE "idle"
  BY AskDoes
<1>2. /\ rec.t = "request" /\ rec.run = r /\ rec.id = n /\ rec.hook = hook /\ rec.call = c /\ rec.sig = s
      /\ x.st = "asked" /\ x.hook = hook /\ x.sig = s /\ x.line = n
  BY DEF AskRec
<1>3. trace \in Seq(Records(setting)) /\ Len(trace) \in Nat /\ live \in [RunIds -> Calls(setting)]
      /\ InTrace(setting, trace, truth, r, live[r])
  BY LenProperties DEF Written
<1>4. s \in SigIds(setting) /\ (hook = "tool" => s = live[r].sig)
  <2>1. CASE hook = "tool"
    <3>1. live[r] \in Judged(setting)
      BY <2>1, <1>1, <1>3 DEF InTrace
    <3> QED BY <2>1, <3>1 DEF AskedSig, Judged
  <2>2. CASE hook # "tool"
    BY <2>2 DEF AskedSig, SigIds
  <2> QED BY <2>1, <2>2
<1> HIDE DEF rec, x
<1>5. /\ tr2 \in Seq(Records(setting)) /\ Longer(trace, tr2) /\ tr2[n] = rec /\ Len(tr2) = n
      /\ RefusedIn(tr2) = RefusedIn(trace) /\ rec.t \notin Unreadable
  BY <1>1, <1>2, Writes DEF Unreadable
<1>6. lv2[r] = x /\ \A q \in RunIds \ {r} : lv2[q] = live[q]
  BY <1>1 DEF Moved1
<1> HIDE DEF tr2, lv2, tt2, s
<1>7. ASSUME st.ok = TRUE
      PROVE  /\ st2 \in ParseStates(setting) /\ st2.ok = TRUE /\ st2.samples = tt2
             /\ EvalsFit(lv2, st2.evals) /\ RequestsFit(tr2, lv2, st2.reqs)
  <2>1. Holding(st)
    BY <1>7, HoldingIs
  <2>2. st2 = ParseRequest(st, rec, n)
    <3>1. rec.t = "request"
      BY <1>2
    <3> HIDE DEF n
    <3> QED BY <3>1, <1>7 DEF ParseRecord
  <2> DEFINE q0 == [id |-> n, run |-> r, hook |-> hook, sig |-> s, line |-> n]
             mine == {e \in st.evals : e.key = <<rec.run, rec.call>>}
             kept == IF hook = "tool" THEN st.evals \ mine ELSE st.evals
  <2>3. /\ st \in ParseStates(setting) /\ st.evals \in SUBSET Evals(setting) /\ st.reqs \in SUBSET Reqs(setting)
        /\ st.samples \in SUBSET Samples(setting)
        /\ EvalsFit(live, st.evals) /\ RequestsFit(trace, live, st.reqs)
        /\ \A e \in st.evals : e.key[1] \in RunIds
        /\ \A q \in st.reqs : q.run \in RunIds
    BY <2>1 DEF Holding, ParseStates, Evals, Reqs
  <2>4. ReqsBut(st.reqs, r) = st.reqs
    BY <2>3, <1>1, ReqsOfOthers
  <2>5. ~\E q \in st.reqs : q.id = n
    BY <2>3, <1>3 DEF RequestsFit
  <2>6. /\ kept = EvalsBut(st.evals, r)
        /\ hook = "tool" => mine # {} /\ \A e \in mine : e.sig = s
    <3>1. CASE hook = "tool"
      <4>1. mine = {EvalOf(live, r)} /\ st.evals \ mine = EvalsBut(st.evals, r)
        <5>1. /\ EvalOf(live, r) \in st.evals /\ EvalOf(live, r).key = <<r, live[r].call>>
              /\ \A e \in st.evals : /\ e.key = <<r, live[r].call>> <=> e.key[1] = r
                                     /\ e.key[1] = r => e = EvalOf(live, r)
          <6>1. live[r].st = "evaluated" /\ EvalsFit(live, st.evals)
            BY <3>1, <1>1, <2>3
          <6> QED BY <6>1, EvalsOfRun
        <5>2. rec.run = r /\ rec.call = live[r].call
          BY <1>2
        <5> DEFINE e0 == EvalOf(live, r)
                   k0 == <<r, live[r].call>>
        <5>3. /\ e0 \in st.evals /\ e0.key = k0
              /\ \A e \in st.evals : e.key = k0 <=> e.key[1] = r
              /\ \A e \in st.evals : e.key[1] = r => e = e0
          <6>1. e0 \in st.evals /\ e0.key = k0
            BY <5>1
          <6>2. ASSUME NEW e \in st.evals PROVE (e.key = k0 <=> e.key[1] = r) /\ (e.key[1] = r => e = e0)
            BY <5>1
          <6> HIDE DEF e0, k0
          <6> QED BY <6>1, <6>2
        <5>4. mine = {e \in st.evals : e.key = k0}
          BY <5>2
        <5> HIDE DEF e0, k0, mine, kept, st2, q0, c
        <5>5. mine = {e0}
          BY <5>3, <5>4
        <5>6. st.evals \ mine = EvalsBut(st.evals, r)
          BY <5>3, <5>4 DEF EvalsBut
        <5> QED BY <5>5, <5>6 DEF e0
      <4>2. EvalOf(live, r).sig = s
        BY <3>1, <1>4 DEF EvalOf
      <4> QED BY <3>1, <4>1, <4>2
    <3>2. CASE hook # "tool"
      <4>1. EvalsBut(st.evals, r) = st.evals
        BY <3>2, <2>3, <1>1, EvalsOfOthers
      <4> QED BY <3>2, <4>1
    <3> QED BY <3>1, <3>2
  <2>7. st2 = [st EXCEPT !.reqs = @ \union {q0}, !.evals = kept]
    <3>1. ~(\/ \E q \in st.reqs : q.id = rec.id
            \/ rec.hook = "tool" /\ (mine = {} \/ \E e \in mine : e.sig # rec.sig))
      BY <2>5, <2>6, <1>2
    <3>2. ParseRequest(st, rec, n) =
            IF \/ \E q \in st.reqs : q.id = rec.id
               \/ rec.hook = "tool" /\ (mine = {} \/ \E e \in mine : e.sig # rec.sig)
            THEN Refuse(st)
            ELSE [st EXCEPT !.reqs = @ \union {[id |-> rec.id, run |-> rec.run, hook |-> rec.hook,
                                               sig |-> rec.sig, line |-> n]},
                            !.evals = IF rec.hook = "tool" THEN @ \ mine ELSE @]
      BY Zenon DEF ParseRequest
    <3> HIDE DEF mine
    <3> QED BY <3>1, <3>2, <2>2, <1>2
  <2>8. q0 \in Reqs(setting) /\ RequestOf(lv2, r) = q0
    <3>1. n \in Nat
      BY <1>3
    <3> HIDE DEF n
    <3> QED BY <3>1, <1>2, <1>4, <1>6 DEF Reqs, RequestOf
  <2> HIDE DEF q0, mine, kept, st2
  <2>9. kept \subseteq st.evals
    BY <2>6 DEF EvalsBut
  <2>10. /\ st2 \in ParseStates(setting) /\ st2.ok = TRUE /\ st2.evals = kept
         /\ st2.reqs = st.reqs \union {q0} /\ st2.samples = st.samples
    <3> DEFINE more == st.reqs \union {q0}
    <3>1. kept \in SUBSET Evals(setting) /\ more \in SUBSET Reqs(setting)
      BY <2>3, <2>8, <2>9
    <3>2. st2 = [st EXCEPT !.reqs = more, !.evals = kept]
      BY <2>7
    <3> DEFINE t == [st EXCEPT !.reqs = more]
    <3> HIDE DEF more
    <3>3. t \in ParseStates(setting) /\ t.ok = st.ok /\ t.reqs = more /\ t.samples = st.samples
      BY <3>1, <2>3 DEF ParseStates
    <3>4. st2 = [t EXCEPT !.evals = kept]
      BY <3>2, <2>3 DEF ParseStates
    <3> HIDE DEF t
    <3>5. st2 \in ParseStates(setting) /\ st2.ok = st.ok /\ st2.evals = kept
          /\ st2.reqs = more /\ st2.samples = st.samples
      BY <3>1, <3>3, <3>4 DEF ParseStates
    <3> QED BY <3>5, <1>7 DEF more
  <2>11. EvalsFit(lv2, kept)
    <3>1. EvalsFit(lv2, EvalsBut(st.evals, r) \union IF lv2[r].st = "evaluated" THEN {EvalOf(lv2, r)} ELSE {})
      BY <2>3, <1>6, EvalsMove
    <3>2. EvalsBut(st.evals, r) \union (IF lv2[r].st = "evaluated" THEN {EvalOf(lv2, r)} ELSE {}) = kept
      BY <2>6, <1>2, <1>6
    <3> QED BY <3>1, <3>2
  <2>12. RequestsFit(tr2, lv2, st.reqs \union {q0})
    <3>1. lv2[r].line \in 1 .. Len(tr2) /\ tr2[lv2[r].line].run = r
      BY <1>2, <1>3, <1>5, <1>6
    <3>2. RequestsFit(tr2, lv2, ReqsBut(st.reqs, r) \union IF lv2[r].st = "asked" THEN {RequestOf(lv2, r)} ELSE {})
      <4>1. Len(trace) \in Nat /\ Len(tr2) \in Nat
        BY <1>3, <1>5
      <4> QED BY <4>1, <3>1, <2>3, <1>5, <1>6, ReqsMove
    <3>3. ReqsBut(st.reqs, r) \union (IF lv2[r].st = "asked" THEN {RequestOf(lv2, r)} ELSE {}) = st.reqs \union {q0}
      BY <2>4, <2>8, <1>2, <1>6
    <3> QED BY <3>2, <3>3
  <2> QED BY <2>1, <2>10, <2>11, <2>12, <1>1 DEF Holding
<1> HIDE DEF st2
<1>8. st.ok = TRUE => HoldingNext(st2)
  BY <1>7 DEF HoldingNext, tr2, lv2, tt2
<1>9. DiscoveringNext(st2)
  <2>1. rec.t \notin Unreadable /\ RefusedIn(trace') = RefusedIn(trace) /\ st2 = ParseRecord(st, rec, n)
    BY <1>2, <1>5 DEF st2, tr2
  <2> QED BY <2>1, <1>8, ParsesOn
<1> QED BY <1>5, <1>9 DEF st2, tr2

LEMMA AnswerParsed ==
  ASSUME Written(setting, trace, live, truth), NEW r \in RunIds, NEW d \in Answers, NEW a \in BOOLEAN,
         Answer(r, d, a), NEW st, Discovering(st)
  PROVE  DiscoveringNext(ParseRecord(st, trace'[Len(trace) + 1], Len(trace) + 1))
<1> DEFINE old == live[r]
           n == Len(trace) + 1
           rec == AnswerRec(r, old.line, d, a)
           st2 == ParseRecord(st, rec, n)
           x == [st |-> IF old.hook = "tool" THEN "decided" ELSE "idle", call |-> old.call]
           Z == DecidedNow(r, old.hook, d, a)
           tr2 == trace'
           lv2 == live'
           tt2 == truth'
<1>1. /\ trace' = Append(trace, rec) /\ rec \in Records(setting) /\ Moved1(r, x) /\ tt2 = truth \union Z
      /\ old.st = "asked" /\ (d = "cancelled" => a)
  BY AnswerDoes
<1>2. /\ rec.t = "response" /\ rec.run = r /\ rec.id = old.line /\ rec.decision = d /\ rec.automatic = a
      /\ x.st \in {"decided", "idle"}
  BY DEF AnswerRec
<1>3. /\ trace \in Seq(Records(setting)) /\ InTrace(setting, trace, truth, r, old)
  BY DEF Written
<1>4. old \in Asking(setting) /\ trace[old.line].run = r
  <2> HIDE DEF old
  <2> QED BY <1>1, <1>3 DEF InTrace
<1> HIDE DEF rec, x
<1>5. /\ tr2 \in Seq(Records(setting)) /\ Longer(trace, tr2) /\ tr2[n] = rec
      /\ RefusedIn(tr2) = RefusedIn(trace) /\ rec.t \notin Unreadable
  BY <1>1, <1>2, Writes DEF Unreadable
<1>6. lv2[r] = x /\ \A q \in RunIds \ {r} : lv2[q] = live[q]
  BY <1>1 DEF Moved1
<1>7. Z \subseteq Samples(setting)
  <2> DEFINE z == [line |-> old.line, run |-> r, sig |-> old.sig, decision |-> d]
  <2>1. z \in Samples(setting)
    BY <1>4 DEF Samples, Asking
  <2>2. Z = IF old.hook = "tool" /\ ~a THEN {z} ELSE {}
    BY DEF DecidedNow
  <2> HIDE DEF z
  <2> QED BY <2>1, <2>2
<1> HIDE DEF tr2, lv2, tt2, Z
<1>8. ASSUME st.ok = TRUE
      PROVE  /\ st2 \in ParseStates(setting) /\ st2.ok = TRUE /\ st2.samples = tt2
             /\ EvalsFit(lv2, st2.evals) /\ RequestsFit(tr2, lv2, st2.reqs)
  <2>1. Holding(st)
    BY <1>8, HoldingIs
  <2>2. st2 = ParseResponse(st, rec)
    BY <1>2, <1>8, ParseRecordIs
  <2> DEFINE qs == {q \in st.reqs : q.id = rec.id}
             more == {SampleOf(rec, q) : q \in {p \in qs : Eligible(rec, p)}}
             q0 == RequestOf(live, r)
  <2>3. /\ st \in ParseStates(setting) /\ st.evals \in SUBSET Evals(setting) /\ st.reqs \in SUBSET Reqs(setting)
        /\ st.samples \in SUBSET Samples(setting)
        /\ EvalsFit(live, st.evals) /\ RequestsFit(trace, live, st.reqs)
        /\ \A q \in st.reqs : q.run \in RunIds
    BY <2>1 DEF Holding, ParseStates, Reqs
  <2>4. qs = {q0} /\ st.reqs \ qs = ReqsBut(st.reqs, r)
    <3>1. /\ q0 \in st.reqs /\ q0.id = live[r].line /\ q0.run = r
          /\ \A q \in st.reqs : (q.id = live[r].line <=> q.run = r) /\ (q.run = r => q = q0)
      BY <1>1, <1>4, <2>3, ReqsOfRun
    <3> HIDE DEF q0
    <3> QED BY <3>1, <1>2 DEF ReqsBut
  <2>5. q0.id = old.line /\ q0.run = r /\ q0.hook = old.hook /\ q0.sig = old.sig /\ q0.line = old.line
    BY DEF RequestOf
  <2> HIDE DEF q0
  <2>6. more = Z
    <3>1. Eligible(rec, q0) <=> (old.hook = "tool" /\ ~a)
      BY <2>5, <1>1, <1>2 DEF Eligible
    <3>2. SampleOf(rec, q0) = [line |-> old.line, run |-> r, sig |-> old.sig, decision |-> d]
      BY <2>5, <1>2 DEF SampleOf
    <3>3. more = IF Eligible(rec, q0) THEN {SampleOf(rec, q0)} ELSE {}
      BY <2>4
    <3> HIDE DEF more
    <3> QED BY <3>1, <3>2, <3>3 DEF DecidedNow, Z
  <2>7. st2 = [st EXCEPT !.reqs = @ \ qs, !.samples = @ \union more]
    <3>1. ~(qs = {} \/ \E q \in qs : q.run # rec.run)
      <4> HIDE DEF qs
      <4> QED BY <2>4, <2>5, <1>2
    <3>2. ParseResponse(st, rec) = IF qs = {} \/ \E q \in qs : q.run # rec.run THEN Refuse(st)
                                   ELSE [st EXCEPT !.reqs = @ \ qs, !.samples = @ \union more]
      BY Zenon DEF ParseResponse
    <3> HIDE DEF qs, more, st2
    <3> QED BY <3>1, <3>2, <2>2
  <2> HIDE DEF qs, more, st2
  <2>8. /\ st2 \in ParseStates(setting) /\ st2.ok = TRUE /\ st2.evals = st.evals
        /\ st2.reqs = ReqsBut(st.reqs, r) /\ st2.samples = st.samples \union Z
    <3>1. /\ st.reqs \ qs = ReqsBut(st.reqs, r) /\ ReqsBut(st.reqs, r) \in SUBSET Reqs(setting)
          /\ st.samples \union Z \in SUBSET Samples(setting)
      BY <2>3, <2>4, <1>7 DEF ReqsBut
    <3> DEFINE less == ReqsBut(st.reqs, r)
               all == st.samples \union Z
    <3>2. st2 = [st EXCEPT !.reqs = less, !.samples = all]
      BY <3>1, <2>6, <2>7
    <3>3. less \in SUBSET Reqs(setting) /\ all \in SUBSET Samples(setting)
      BY <3>1
    <3> DEFINE t == [st EXCEPT !.reqs = less]
    <3> HIDE DEF less, all
    <3>4. t \in ParseStates(setting) /\ t.ok = st.ok /\ t.reqs = less /\ t.evals = st.evals
      BY <3>3, <2>3 DEF ParseStates
    <3>5. st2 = [t EXCEPT !.samples = all]
      BY <3>2, <2>3 DEF ParseStates
    <3> HIDE DEF t
    <3>6. st2 \in ParseStates(setting) /\ st2.ok = st.ok /\ st2.evals = st.evals
          /\ st2.reqs = less /\ st2.samples = all
      BY <3>3, <3>4, <3>5 DEF ParseStates
    <3> QED BY <3>6, <1>8 DEF less, all
  <2>9. EvalsFit(lv2, st.evals)
    BY <2>1, <1>1, <1>2, <1>3, <1>5, <1>6, QuietFits DEF Holding
  <2>10. RequestsFit(tr2, lv2, ReqsBut(st.reqs, r))
    <3>1. lv2[r].st # "asked"
      BY <1>2, <1>6
    <3>2. RequestsFit(tr2, lv2, ReqsBut(st.reqs, r) \union IF lv2[r].st = "asked" THEN {RequestOf(lv2, r)} ELSE {})
      <4>1. Len(trace) \in Nat /\ Len(tr2) \in Nat
        BY <1>3, <1>5
      <4> QED BY <4>1, <3>1, <2>3, <1>5, <1>6, ReqsMove
    <3>3. ReqsBut(st.reqs, r) \union (IF lv2[r].st = "asked" THEN {RequestOf(lv2, r)} ELSE {}) = ReqsBut(st.reqs, r)
      BY <3>1
    <3> QED BY <3>2, <3>3
  <2> QED BY <2>1, <2>8, <2>9, <2>10, <1>1 DEF Holding
<1> HIDE DEF st2
<1>9. st.ok = TRUE => HoldingNext(st2)
  BY <1>8 DEF HoldingNext, tr2, lv2, tt2
<1>10. DiscoveringNext(st2)
  <2>1. rec.t \notin Unreadable /\ RefusedIn(trace') = RefusedIn(trace) /\ st2 = ParseRecord(st, rec, n)
    BY <1>2, <1>5 DEF st2, tr2
  <2> QED BY <2>1, <1>9, ParsesOn
<1> QED BY <1>5, <1>10 DEF st2, tr2

(* What Discovery refuses.                                                 *)
LEMMA Refuses ==
  ASSUME NEW st, Discovering(st), NEW rec, NEW i, rec.t \in Unreadable, RefusedIn(trace') # {}
  PROVE  DiscoveringNext(ParseRecord(st, rec, i))
<1> DEFINE st2 == ParseRecord(st, rec, i)
<1>1. st \in ParseStates(setting) /\ (st.ok = TRUE \/ st.ok = FALSE)
  BY DEF Discovering, Discovered, ParseStates
<1>2. st2 \in ParseStates(setting) /\ st2.ok = FALSE
  <2>1. CASE st.ok = TRUE
    <3>1. st2 = Refuse(st)
      BY <2>1, ParseRecordIs
    <3> QED BY <3>1, <1>1, ParseStateRefused
  <2>2. CASE st.ok = FALSE
    <3>1. st2 = st
      BY <2>2, ParseRecordIs
    <3> QED BY <3>1, <2>2, <1>1
  <2> QED BY <2>1, <2>2, <1>1
<1> HIDE DEF st2
<1>3. DiscoveringNext(st2)
  BY <1>2 DEF DiscoveringNext, Discovered
<1> QED BY <1>3 DEF st2

LEMMA NotedParsed ==
  ASSUME Written(setting, trace, live, truth), NEW rec, Noted(rec), NEW st, Discovering(st)
  PROVE  DiscoveringNext(ParseRecord(st, trace'[Len(trace) + 1], Len(trace) + 1))
<1> DEFINE n == Len(trace) + 1
           st2 == ParseRecord(st, rec, n)
           tr2 == trace'
<1>1. /\ trace' = Append(trace, rec) /\ rec \in Records(setting) /\ live' = live /\ truth' = truth
      /\ rec.t \in {"runtime", "unowned", "separated"}
  BY NotedDoes
<1>2. Len(trace) \in Nat
  BY LenProperties DEF Written
<1>3. /\ tr2 \in Seq(Records(setting)) /\ Longer(trace, tr2) /\ tr2[n] = rec /\ Len(tr2) \in Nat
      /\ RefusedIn(tr2) = IF rec.t \in Unreadable THEN RefusedIn(trace) \union {n} ELSE RefusedIn(trace)
  BY <1>1, Writes
<1> HIDE DEF tr2
<1>4. CASE rec.t = "runtime"
  <2>1. ASSUME st.ok = TRUE PROVE HoldingNext(st2)
    <3>1. Holding(st)
      BY <2>1, HoldingIs
    <3>2. st2 = st
      BY <1>4, <2>1, ParseRecordIs
    <3>3. RequestsFit(tr2, live, st.reqs)
      BY <3>1, <1>2, <1>3 DEF Holding, RequestsFit, Longer
    <3> HIDE DEF st2
    <3> QED BY <3>1, <3>2, <3>3, <1>1 DEF Holding, HoldingNext, tr2
  <2> HIDE DEF st2
  <2>2. rec.t \notin Unreadable /\ RefusedIn(trace') = RefusedIn(trace) /\ st2 = ParseRecord(st, rec, n)
    BY <1>3, <1>4 DEF st2, tr2, Unreadable
  <2> QED BY <2>1, <2>2, <1>3, ParsesOn DEF tr2
<1>5. CASE rec.t \in Unreadable
  <2>1. RefusedIn(trace') # {}
    BY <1>3, <1>5 DEF tr2
  <2> QED BY <2>1, <1>3, <1>5, Refuses DEF tr2
<1> QED BY <1>1, <1>4, <1>5 DEF Unreadable

LEMMA CrashParsed ==
  ASSUME Written(setting, trace, live, truth), NEW r \in RunIds, Crash(r), NEW st, Discovering(st)
  PROVE  /\ trace' = trace => DiscoveringNext(st)
         /\ trace' # trace => /\ trace' = Append(trace, [t |-> "torn", run |-> r])
                              /\ DiscoveringNext(ParseRecord(st, trace'[Len(trace) + 1], Len(trace) + 1))
<1> DEFINE n == Len(trace) + 1
           rec == [t |-> "torn", run |-> r]
           tr2 == trace'
           lv2 == live'
<1>1. /\ trace' = trace \/ trace' = Append(trace, rec)
      /\ rec \in Records(setting) /\ truth' = truth /\ live[r].st \notin {"idle", "dead"}
      /\ Moved1(r, lv2[r]) /\ lv2[r].st = "dead" /\ lv2[r].call = live[r].call
  BY CrashDoes
<1>2. rec.t = "torn"
  OBVIOUS
<1> HIDE DEF rec
<1>3. \A q \in RunIds \ {r} : lv2[q] = live[q]
  BY <1>1 DEF Moved1
<1>4. st \in ParseStates(setting) /\ (st.ok = TRUE \/ st.ok = FALSE) /\ (st.ok <=> RefusedIn(trace) = {})
  BY DEF Discovering, Discovered, ParseStates
<1> HIDE DEF tr2, lv2
<1>5. ASSUME trace' = trace PROVE DiscoveringNext(st)
  <2>1. CASE st.ok = TRUE
    <3>1. Holding(st)
      BY <2>1, HoldingIs
    <3>2. /\ \A e \in st.evals : e.key[1] \in RunIds
          /\ \A q \in st.reqs : q.run \in RunIds
      BY <1>4 DEF ParseStates, Evals, Reqs
    <3>3. EvalsFit(lv2, st.evals)
      <4>1. /\ \A e \in st.evals : LET q == e.key[1] IN
                 /\ live[q].st \in {"evaluated", "dead"} /\ e.key = <<q, live[q].call>>
                 /\ live[q].st = "evaluated" => e = EvalOf(live, q)
            /\ \A q \in RunIds : live[q].st = "evaluated" => EvalOf(live, q) \in st.evals
        BY <3>1 DEF Holding, EvalsFit
      <4>2. \A q \in RunIds \ {r} : lv2[q] = live[q] /\ EvalOf(lv2, q) = EvalOf(live, q)
        BY <1>3 DEF EvalOf
      <4>3. ASSUME NEW e \in st.evals
            PROVE  LET q == e.key[1] IN
                   /\ lv2[q].st \in {"evaluated", "dead"} /\ e.key = <<q, lv2[q].call>>
                   /\ lv2[q].st = "evaluated" => e = EvalOf(lv2, q)
        <5>1. CASE e.key[1] = r
          BY <5>1, <4>1, <1>1
        <5>2. CASE e.key[1] \in RunIds \ {r}
          BY <5>2, <4>1, <4>2
        <5> QED BY <5>1, <5>2, <3>2
      <4>4. \A q \in RunIds : lv2[q].st = "evaluated" => EvalOf(lv2, q) \in st.evals
        BY <4>1, <4>2, <1>1
      <4> QED BY <4>3, <4>4 DEF EvalsFit
    <3>4. RequestsFit(trace, lv2, st.reqs)
      <4>1. /\ \A q \in st.reqs :
                 /\ live[q.run].st \in {"asked", "dead"} /\ q.id = q.line
                 /\ q.line \in 1 .. Len(trace) /\ trace[q.line].run = q.run
                 /\ live[q.run].st = "asked" => q = RequestOf(live, q.run)
            /\ \A q \in RunIds : live[q].st = "asked" => RequestOf(live, q) \in st.reqs
        BY <3>1 DEF Holding, RequestsFit
      <4>2. \A q \in RunIds \ {r} : lv2[q] = live[q] /\ RequestOf(lv2, q) = RequestOf(live, q)
        BY <1>3 DEF RequestOf
      <4>3. ASSUME NEW q \in st.reqs
            PROVE  /\ lv2[q.run].st \in {"asked", "dead"} /\ q.id = q.line
                   /\ q.line \in 1 .. Len(trace) /\ trace[q.line].run = q.run
                   /\ lv2[q.run].st = "asked" => q = RequestOf(lv2, q.run)
        <5>1. CASE q.run = r
          BY <5>1, <4>1, <1>1
        <5>2. CASE q.run \in RunIds \ {r}
          BY <5>2, <4>1, <4>2
        <5> QED BY <5>1, <5>2, <3>2
      <4>4. \A q \in RunIds : lv2[q].st = "asked" => RequestOf(lv2, q) \in st.reqs
        BY <4>1, <4>2, <1>1
      <4> QED BY <4>3, <4>4 DEF RequestsFit
    <3>5. Discovered(setting, trace, lv2, truth, st)
      BY <3>1, <3>3, <3>4, <1>4, <2>1 DEF Holding, Discovered
    <3> QED BY <3>5, <1>1, <1>5 DEF DiscoveringNext, lv2
  <2>2. CASE st.ok = FALSE
    BY <2>2, <1>1, <1>4, <1>5 DEF DiscoveringNext, Discovered
  <2> QED BY <2>1, <2>2, <1>4
<1>6. ASSUME trace' # trace
      PROVE  trace' = Append(trace, rec) /\ DiscoveringNext(ParseRecord(st, trace'[n], n))
  <2>1. trace' = Append(trace, rec) /\ trace'[n] = rec /\ RefusedIn(trace') # {} /\ rec.t \in Unreadable
    BY <1>1, <1>2, <1>6, Writes DEF Unreadable
  <2> QED BY <2>1, Refuses
<1> QED BY <1>5, <1>6 DEF rec

-----------------------------------------------------------------------------
(* A replay: the calls that have started and were not evaluated are        *)
(* pending, one of each Run at most, and every evaluation is a case.       *)
PendingCalls(se) == [run : RunIds, call : CallIds(se), line : Nat]
Cases(se) == [run : RunIds, call : CallIds(se), line : Nat, evaluated : BOOLEAN]
ReplayStates(se) == [ok : BOOLEAN, pending : SUBSET PendingCalls(se), cases : SUBSET Cases(se)]

Evaluated(tr, i) ==
  \E k \in LinesIn(tr, "evaluation") :
    /\ k > i /\ tr[k].run = tr[i].run
    /\ ~\E m \in LinesIn(tr, "start") : i < m /\ m < k /\ tr[m].run = tr[i].run

PendingFits(tr, lv, pending) ==
  /\ \A p \in pending :
       /\ lv[p.run].st \in {"called", "dead"} /\ p.call = lv[p.run].call
       /\ p.line \in LinesIn(tr, "start") /\ tr[p.line].run = p.run /\ ~Evaluated(tr, p.line)
       /\ \A m \in LinesIn(tr, "start") : m > p.line => tr[m].run # p.run
  /\ \A r \in RunIds : lv[r].st = "called" => \E p \in pending : p.run = r
  /\ \A p, q \in pending : p.run = q.run => p = q

(* the calls that are over and were not evaluated, by their lines          *)
Skipped(cases) == {c.line : c \in {d \in cases : ~d.evaluated}}

SkippedFits(tr, pending, skipped) ==
  /\ \A i \in LinesIn(tr, "start") : Evaluated(tr, i) \/ i \in skipped \/ \E p \in pending : p.line = i
  /\ \A i \in skipped : i \in LinesIn(tr, "start") /\ ~Evaluated(tr, i) /\ \A p \in pending : p.line # i

CasesFit(tr, cases) == {c.line : c \in {d \in cases : d.evaluated}} = LinesIn(tr, "evaluation")

Replayed(se, tr, lv, st) == LinesIn(tr, "torn") = {} =>
  /\ st \in ReplayStates(se) /\ st.ok = TRUE /\ PendingFits(tr, lv, st.pending)
  /\ SkippedFits(tr, st.pending, Skipped(st.cases)) /\ CasesFit(tr, st.cases)

Replaying(st) == Replayed(setting, trace, live, st)
ReplayingNext(st) == Replayed(setting, trace', live', st)

(* Whether a call was evaluated is told by the records behind it.          *)
Judges(rec, r) == rec.t = "evaluation" /\ rec.run = r

LEMMA EvaluatedStays ==
  ASSUME NEW X, NEW tr \in Seq(X), NEW rec \in X, NEW tr2, tr2 = Append(tr, rec), NEW i \in LinesIn(tr, "start")
  PROVE  /\ Evaluated(tr, i) => Evaluated(tr2, i)
         /\ Evaluated(tr2, i) => Evaluated(tr, i) \/ Judges(rec, tr[i].run)
<1> DEFINE n == Len(tr)
<1>1. /\ n \in Nat /\ tr2[n + 1] = rec /\ \A j \in 1 .. n : tr2[j] = tr[j]
      /\ \A t : LinesIn(tr, t) \subseteq 1 .. n
      /\ \A t : LinesIn(tr2, t) = IF rec.t = t THEN LinesIn(tr, t) \union {n + 1} ELSE LinesIn(tr, t)
  BY Appended DEF Longer
<1> HIDE DEF n
<1>2. i \in 1 .. n /\ tr2[i] = tr[i]
  BY <1>1
<1>3. ASSUME Evaluated(tr, i) PROVE Evaluated(tr2, i)
  <2>1. PICK k \in LinesIn(tr, "evaluation") :
             /\ k > i /\ tr[k].run = tr[i].run
             /\ ~\E m \in LinesIn(tr, "start") : i < m /\ m < k /\ tr[m].run = tr[i].run
    BY <1>3 DEF Evaluated
  <2>2. k \in LinesIn(tr2, "evaluation") /\ k \in 1 .. n /\ tr2[k] = tr[k]
    BY <1>1, <2>1
  <2>3. ASSUME NEW m \in LinesIn(tr2, "start"), i < m, m < k, tr2[m].run = tr2[i].run PROVE FALSE
    <3>1. m \in LinesIn(tr, "start")
      BY <1>1, <2>2, <2>3
    <3>2. tr2[m] = tr[m]
      BY <1>1, <3>1
    <3> QED BY <1>2, <2>1, <2>3, <3>1, <3>2
  <2> QED BY <1>2, <2>1, <2>2, <2>3 DEF Evaluated
<1>4. ASSUME Evaluated(tr2, i), ~Judges(rec, tr[i].run) PROVE Evaluated(tr, i)
  <2>1. PICK k \in LinesIn(tr2, "evaluation") :
             /\ k > i /\ tr2[k].run = tr2[i].run
             /\ ~\E m \in LinesIn(tr2, "start") : i < m /\ m < k /\ tr2[m].run = tr2[i].run
    BY <1>4 DEF Evaluated
  <2>2. k \in LinesIn(tr, "evaluation")
    BY <1>1, <1>2, <1>4, <2>1 DEF Judges
  <2>3. tr2[k] = tr[k]
    BY <1>1, <2>2
  <2>4. ASSUME NEW m \in LinesIn(tr, "start"), i < m, m < k, tr[m].run = tr[i].run PROVE FALSE
    <3>1. m \in LinesIn(tr2, "start") /\ tr2[m] = tr[m]
      BY <1>1
    <3> QED BY <1>2, <2>1, <2>4, <3>1
  <2> QED BY <1>2, <2>1, <2>2, <2>3, <2>4 DEF Evaluated
<1> QED BY <1>3, <1>4

(* A step that neither starts a call nor evaluates one.                    *)
Untouched(tr, lv, tr2, lv2, pending) ==
  /\ LinesIn(tr2, "start") = LinesIn(tr, "start") /\ LinesIn(tr2, "evaluation") = LinesIn(tr, "evaluation")
  /\ \A i \in LinesIn(tr, "start") \union LinesIn(tr, "evaluation") : tr2[i] = tr[i]
  /\ \A p \in pending : lv2[p.run].st \in {"called", "dead"} /\ lv2[p.run].call = lv[p.run].call
  /\ \A q \in RunIds : lv2[q].st = "called" => lv[q].st = "called"

LEMMA PendingStays ==
  ASSUME NEW tr, NEW tr2, NEW lv, NEW lv2, NEW pending,
         PendingFits(tr, lv, pending), Untouched(tr, lv, tr2, lv2, pending)
  PROVE  /\ PendingFits(tr2, lv2, pending)
         /\ \A skipped : SkippedFits(tr, pending, skipped) => SkippedFits(tr2, pending, skipped)
<1> USE DEF Untouched
<1>1. /\ \A i \in LinesIn(tr, "start") : tr2[i] = tr[i]
      /\ \A i \in LinesIn(tr, "evaluation") : tr2[i] = tr[i]
  OBVIOUS
<1>2. \A i \in LinesIn(tr, "start") : Evaluated(tr2, i) <=> Evaluated(tr, i)
  BY <1>1 DEF Evaluated
<1>3. /\ \A p \in pending :
           /\ p.call = lv[p.run].call
           /\ p.line \in LinesIn(tr, "start") /\ tr[p.line].run = p.run /\ ~Evaluated(tr, p.line)
           /\ \A m \in LinesIn(tr, "start") : m > p.line => tr[m].run # p.run
      /\ \A r \in RunIds : lv[r].st = "called" => \E p \in pending : p.run = r
      /\ \A p, q \in pending : p.run = q.run => p = q
  BY DEF PendingFits
<1>4. \A p \in pending :
         /\ p.line \in LinesIn(tr2, "start") /\ tr2[p.line].run = p.run /\ ~Evaluated(tr2, p.line)
         /\ \A m \in LinesIn(tr2, "start") : m > p.line => tr2[m].run # p.run
  BY <1>1, <1>2, <1>3
<1>5. PendingFits(tr2, lv2, pending)
  BY <1>2, <1>3, <1>4 DEF PendingFits
<1>6. ASSUME NEW skipped, SkippedFits(tr, pending, skipped) PROVE SkippedFits(tr2, pending, skipped)
  BY <1>2, <1>6 DEF SkippedFits
<1> QED BY <1>5, <1>6

(* The call of a Run is not pending any more.                              *)
Left(pending, r) == {p \in pending : p.run # r}

LEMMA PendingTaken ==
  ASSUME NEW tr, NEW lv, NEW lv2, NEW pending, PendingFits(tr, lv, pending), \A p \in pending : p.run \in RunIds,
         NEW r \in RunIds, lv2[r].st # "called", \A q \in RunIds \ {r} : lv2[q] = lv[q]
  PROVE  PendingFits(tr, lv2, Left(pending, r))
<1>1. /\ \A p \in pending :
           /\ lv[p.run].st \in {"called", "dead"} /\ p.call = lv[p.run].call
           /\ p.line \in LinesIn(tr, "start") /\ tr[p.line].run = p.run /\ ~Evaluated(tr, p.line)
           /\ \A m \in LinesIn(tr, "start") : m > p.line => tr[m].run # p.run
      /\ \A q \in RunIds : lv[q].st = "called" => \E p \in pending : p.run = q
      /\ \A p, q \in pending : p.run = q.run => p = q
  BY DEF PendingFits
<1> DEFINE rest == Left(pending, r)
<1>2. \A p : p \in rest <=> p \in pending /\ p.run # r
  BY DEF Left
<1> HIDE DEF rest
<1>3. \A p \in rest : p \in pending /\ lv2[p.run] = lv[p.run]
  BY <1>2
<1>4. \A q \in RunIds : lv2[q].st = "called" => \E p \in rest : p.run = q
  BY <1>1, <1>2
<1> QED BY <1>1, <1>3, <1>4 DEF PendingFits, rest

(* What more cases say of the calls that were skipped and those that were  *)
(* evaluated.                                                              *)
LEMMA MoreCases ==
  ASSUME NEW cases, NEW more
  PROVE  /\ (\A c \in more : c.evaluated = FALSE) =>
              /\ Skipped(cases \union more) = Skipped(cases) \union {c.line : c \in more}
              /\ \A tr : CasesFit(tr, cases) => CasesFit(tr, cases \union more)
         /\ \A new : (new.evaluated = TRUE /\ more = {new}) => Skipped(cases \union more) = Skipped(cases)
<1>1. ASSUME \A c \in more : c.evaluated = FALSE
      PROVE  /\ Skipped(cases \union more) = Skipped(cases) \union {c.line : c \in more}
             /\ \A tr : CasesFit(tr, cases) => CasesFit(tr, cases \union more)
  <2>1. Skipped(cases \union more) = Skipped(cases) \union {c.line : c \in more}
    BY <1>1 DEF Skipped
  <2>2. {d \in cases \union more : d.evaluated} = {d \in cases : d.evaluated}
    BY <1>1
  <2> QED BY <2>1, <2>2 DEF CasesFit
<1>2. ASSUME NEW new, new.evaluated = TRUE, more = {new} PROVE Skipped(cases \union more) = Skipped(cases)
  <2>1. {d \in cases \union more : ~d.evaluated} = {d \in cases : ~d.evaluated}
    BY <1>2
  <2> QED BY <2>1 DEF Skipped
<1> QED BY <1>1, <1>2

LEMMA ReplayRecordIs ==
  ASSUME NEW st, st.ok = TRUE, NEW rec, NEW i
  PROVE  rec.t \in {"request", "response", "runtime", "unowned", "separated"} => ReplayRecord(st, rec, i) = st
BY DEF ReplayRecord

(* The Runs that have a call pending have called, and not more.            *)
LEMMA NothingPending ==
  ASSUME NEW st, LinesIn(trace, "torn") = {}, Replaying(st), NEW r, live[r].st \notin {"called", "dead"}
  PROVE  PendingOf(st, r) = {} /\ \A p \in st.pending : p.run # r
BY DEF Replaying, Replayed, PendingFits, PendingOf

(* The other records.                                                      *)
LEMMA ReplaysOn ==
  ASSUME Written(setting, trace, live, truth), NEW st, Replaying(st),
         NEW rec \in Records(setting), trace' = Append(trace, rec), 
         rec.t \in {"request", "response", "runtime", "unowned", "separated", "end"},
         NEW r, \A q \in RunIds \ {r} : live'[q] = live[q],
         live' = live \/ (live[r].st \notin {"called", "dead"} /\ live'[r].st # "called"),
         rec.t = "end" => rec.run = r /\ live[r].st \notin {"called", "dead"}
  PROVE  ReplayingNext(ReplayRecord(st, trace'[Len(trace) + 1], Len(trace) + 1))
<1> DEFINE n == Len(trace) + 1
           tr2 == trace'
           lv2 == live'
           st2 == ReplayRecord(st, rec, n)
<1>1. /\ tr2[n] = rec /\ \A i \in 1 .. Len(trace) : tr2[i] = trace[i]
      /\ \A t : LinesIn(trace, t) \subseteq 1 .. Len(trace)
      /\ LinesIn(tr2, "torn") = LinesIn(trace, "torn") /\ LinesIn(tr2, "start") = LinesIn(trace, "start")
      /\ LinesIn(tr2, "evaluation") = LinesIn(trace, "evaluation")
  BY Writes DEF Longer
<1>2. /\ \A q \in RunIds \ {r} : lv2[q] = live[q]
      /\ lv2 = live \/ (live[r].st \notin {"called", "dead"} /\ lv2[r].st # "called")
  OBVIOUS
<1> HIDE DEF tr2, lv2
<1>3. ASSUME LinesIn(trace, "torn") = {}
      PROVE  /\ st2 \in ReplayStates(setting) /\ st2.ok = TRUE
             /\ PendingFits(tr2, lv2, st2.pending) /\ SkippedFits(tr2, st2.pending, Skipped(st2.cases))
             /\ CasesFit(tr2, st2.cases)
  <2>1. /\ st \in ReplayStates(setting) /\ st.ok = TRUE
        /\ PendingFits(trace, live, st.pending) /\ SkippedFits(trace, st.pending, Skipped(st.cases))
        /\ CasesFit(trace, st.cases)
    BY <1>3 DEF Replaying, Replayed
  <2>2. \A p \in st.pending : p.run \in RunIds
    BY <2>1 DEF ReplayStates, PendingCalls
  <2>3. st2 \in ReplayStates(setting) /\ st2.ok = TRUE /\ st2.pending = st.pending /\ st2.cases = st.cases
    <3>1. CASE rec.t # "end"
      <4>1. st2 = st
        BY <2>1, <3>1 DEF ReplayRecord
      <4> QED BY <4>1, <2>1
    <3>2. CASE rec.t = "end"
      <4>1. PendingOf(st, rec.run) = {}
        BY <1>3, <3>2, NothingPending
      <4> DEFINE old == PendingOf(st, rec.run)
                 flush == {Case(p, FALSE) : p \in old}
                 t == [st EXCEPT !.cases = @ \union flush]
      <4>2. st2 = [t EXCEPT !.pending = @ \ old]
        BY <3>2, <2>1 DEF ReplayRecord
      <4>3. old = {} /\ flush = {}
        BY <4>1
      <4> HIDE DEF old, flush
      <4>4. t \in ReplayStates(setting) /\ t.ok = TRUE /\ t.pending = st.pending /\ t.cases = st.cases
        BY <4>3, <2>1 DEF ReplayStates
      <4> HIDE DEF t
      <4> QED BY <4>2, <4>3, <4>4 DEF ReplayStates
    <3> QED BY <3>1, <3>2
  <2> HIDE DEF st2
  <2>4. \A p \in st.pending : lv2[p.run].st \in {"called", "dead"} /\ lv2[p.run].call = live[p.run].call
    <3>1. \A p \in st.pending : live[p.run].st \in {"called", "dead"}
      BY <2>1 DEF PendingFits
    <3> QED BY <3>1, <2>2, <1>2
  <2>5. \A q \in RunIds : lv2[q].st = "called" => live[q].st = "called"
    BY <1>2
  <2>6. PendingFits(tr2, lv2, st.pending) /\ SkippedFits(tr2, st.pending, Skipped(st.cases))
    <3>1. Untouched(trace, live, tr2, lv2, st.pending)
      BY <1>1, <2>4, <2>5 DEF Untouched
    <3> QED BY <2>1, <3>1, PendingStays
  <2> QED BY <1>1, <2>1, <2>3, <2>6 DEF CasesFit
<1> HIDE DEF st2
<1>4. Replayed(setting, tr2, lv2, st2)
  BY <1>1, <1>3 DEF Replayed
<1> QED BY <1>1, <1>4 DEF ReplayingNext, st2, tr2, lv2

(* A call starts: nothing of its Run was pending.                          *)
LEMMA BeginCallReplayed ==
  ASSUME Written(setting, trace, live, truth), NEW r \in RunIds, NEW c \in setting.calls, BeginCall(r, c),
         NEW st, Replaying(st)
  PROVE  ReplayingNext(ReplayRecord(st, trace'[Len(trace) + 1], Len(trace) + 1))
<1> DEFINE n == Len(trace) + 1
           rec == StartRec(r, c)
           tr2 == trace'
           lv2 == live'
           st2 == ReplayRecord(st, rec, n)
           new == [run |-> r, call |-> c, line |-> n]
           x == [st |-> "called", call |-> c]
<1>0. trace' = Append(trace, rec) /\ rec \in Records(setting) /\ Moved1(r, x) /\ live[r].st = "idle"
  BY BeginCallDoes
<1>1. /\ trace' = Append(trace, rec) /\ rec \in Records(setting) /\ live[r].st = "idle"
      /\ lv2[r].st = "called" /\ lv2[r].call = c /\ \A q \in RunIds \ {r} : lv2[q] = live[q]
  BY <1>0 DEF Moved1
<1>2. rec.t = "start" /\ rec.run = r /\ rec.call = c
  BY DEF StartRec
<1>3. c \in CallIds(setting) /\ trace \in Seq(Records(setting)) /\ Len(trace) \in Nat
  BY LenProperties DEF CallIds, Written
<1> HIDE DEF rec
<1>4. /\ tr2[n] = rec /\ \A i \in 1 .. Len(trace) : tr2[i] = trace[i]
      /\ \A t : LinesIn(trace, t) \subseteq 1 .. Len(trace)
      /\ LinesIn(tr2, "torn") = LinesIn(trace, "torn")
      /\ LinesIn(tr2, "start") = LinesIn(trace, "start") \union {n}
      /\ LinesIn(tr2, "evaluation") = LinesIn(trace, "evaluation")
  BY <1>1, <1>2, Writes DEF Longer
<1>5. ASSUME NEW i \in LinesIn(trace, "start") PROVE Evaluated(tr2, i) <=> Evaluated(trace, i)
  BY <1>1, <1>2, <1>3, EvaluatedStays DEF Judges
<1> HIDE DEF tr2, lv2
<1>6. ASSUME LinesIn(trace, "torn") = {}
      PROVE  /\ st2 \in ReplayStates(setting) /\ st2.ok = TRUE
             /\ PendingFits(tr2, lv2, st2.pending) /\ SkippedFits(tr2, st2.pending, Skipped(st2.cases))
             /\ CasesFit(tr2, st2.cases)
  <2>1. /\ st \in ReplayStates(setting) /\ st.ok = TRUE
        /\ PendingFits(trace, live, st.pending) /\ SkippedFits(trace, st.pending, Skipped(st.cases))
        /\ CasesFit(trace, st.cases)
    BY <1>6 DEF Replaying, Replayed
  <2>2. PendingOf(st, rec.run) = {} /\ \A p \in st.pending : p.run # r
    BY <1>1, <1>2, <1>6, NothingPending
  <2>3. new \in PendingCalls(setting) /\ new.run = r /\ new.call = c /\ new.line = n
    BY <1>3 DEF PendingCalls
  <2>4. st2 \in ReplayStates(setting) /\ st2.ok = TRUE /\ st2.pending = st.pending \union {new} /\ st2.cases = st.cases
    <3> DEFINE old == PendingOf(st, rec.run)
               flush == {Case(p, FALSE) : p \in old}
               t == [st EXCEPT !.cases = @ \union flush]
    <3>1. st2 = [t EXCEPT !.pending = (@ \ old) \union {new}]
      BY <1>2, <2>1 DEF ReplayRecord
    <3>2. old = {} /\ flush = {}
      BY <2>2
    <3> HIDE DEF old, flush, new
    <3>3. t \in ReplayStates(setting) /\ t.ok = TRUE /\ t.pending = st.pending /\ t.cases = st.cases
      BY <3>2, <2>1 DEF ReplayStates
    <3> HIDE DEF t
    <3> QED BY <3>1, <3>2, <3>3, <2>3 DEF ReplayStates
  <2> HIDE DEF st2, new
  <2>5. PendingFits(tr2, lv2, st.pending \union {new})
    <3>1. /\ \A p \in st.pending :
               /\ live[p.run].st \in {"called", "dead"} /\ p.call = live[p.run].call
               /\ p.line \in LinesIn(trace, "start") /\ trace[p.line].run = p.run /\ ~Evaluated(trace, p.line)
               /\ \A m \in LinesIn(trace, "start") : m > p.line => trace[m].run # p.run
          /\ \A q \in RunIds : live[q].st = "called" => \E p \in st.pending : p.run = q
          /\ \A p, q \in st.pending : p.run = q.run => p = q
      BY <2>1 DEF PendingFits
    <3>2. \A p \in st.pending : p.run \in RunIds \ {r}
      BY <2>1, <2>2 DEF ReplayStates, PendingCalls
    <3>3. ASSUME NEW p \in st.pending
          PROVE  /\ lv2[p.run].st \in {"called", "dead"} /\ p.call = lv2[p.run].call
                 /\ p.line \in LinesIn(tr2, "start") /\ tr2[p.line].run = p.run /\ ~Evaluated(tr2, p.line)
                 /\ \A m \in LinesIn(tr2, "start") : m > p.line => tr2[m].run # p.run
      <4>1. lv2[p.run].st \in {"called", "dead"} /\ p.call = lv2[p.run].call
        BY <3>1, <3>2, <1>1
      <4>2. p.line \in LinesIn(tr2, "start") /\ tr2[p.line].run = p.run /\ ~Evaluated(tr2, p.line)
        BY <3>1, <1>4, <1>5
      <4>3. ASSUME NEW m \in LinesIn(tr2, "start"), m > p.line PROVE tr2[m].run # p.run
        <5>1. CASE m \in LinesIn(trace, "start")
          <6>1. tr2[m] = trace[m]
            BY <5>1, <1>4
          <6> QED BY <5>1, <6>1, <3>1, <4>3
        <5>2. CASE m = n
          BY <5>2, <1>2, <1>4, <3>2
        <5> QED BY <5>1, <5>2, <1>4
      <4> QED BY <4>1, <4>2, <4>3
    <3>4. ~Evaluated(tr2, n) /\ \A m \in LinesIn(tr2, "start") : ~(m > n)
      BY <1>3, <1>4 DEF Evaluated
    <3>5. n \in LinesIn(tr2, "start") /\ tr2[n].run = r
      BY <1>2, <1>4
    <3>6. \A p \in st.pending \union {new} :
             /\ lv2[p.run].st \in {"called", "dead"} /\ p.call = lv2[p.run].call
             /\ p.line \in LinesIn(tr2, "start") /\ tr2[p.line].run = p.run /\ ~Evaluated(tr2, p.line)
             /\ \A m \in LinesIn(tr2, "start") : m > p.line => tr2[m].run # p.run
      <4> HIDE DEF n
      <4>1. /\ lv2[new.run].st \in {"called", "dead"} /\ new.call = lv2[new.run].call
            /\ new.line \in LinesIn(tr2, "start") /\ tr2[new.line].run = new.run /\ ~Evaluated(tr2, new.line)
            /\ \A m \in LinesIn(tr2, "start") : m > new.line => tr2[m].run # new.run
        BY <1>1, <2>3, <3>4, <3>5
      <4> QED BY <3>3, <4>1
    <3>7. \A q \in RunIds : lv2[q].st = "called" => \E p \in st.pending \union {new} : p.run = q
      BY <1>1, <2>3, <3>1
    <3>8. \A p, q \in st.pending \union {new} : p.run = q.run => p = q
      BY <2>2, <2>3, <3>1
    <3> QED BY <3>6, <3>7, <3>8 DEF PendingFits
  <2> DEFINE skipped == Skipped(st.cases)
  <2>6. SkippedFits(tr2, st.pending \union {new}, skipped)
    <3> HIDE DEF skipped
    <3>1. /\ \A i \in LinesIn(trace, "start") : Evaluated(trace, i) \/ i \in skipped \/ \E p \in st.pending : p.line = i
          /\ \A i \in skipped : /\ i \in LinesIn(trace, "start") /\ ~Evaluated(trace, i)
                              /\ \A p \in st.pending : p.line # i
      BY <2>1 DEF SkippedFits, skipped
    <3>2. n \notin LinesIn(trace, "start")
      BY <1>3, <1>4
    <3> HIDE DEF n
    <3>3. \A i \in LinesIn(tr2, "start") : Evaluated(tr2, i) \/ i \in skipped \/ \E p \in st.pending \union {new} : p.line = i
      BY <1>4, <1>5, <2>3, <3>1
    <3>4. \A i \in skipped : /\ i \in LinesIn(tr2, "start") /\ ~Evaluated(tr2, i)
                            /\ \A p \in st.pending \union {new} : p.line # i
      BY <1>4, <1>5, <2>3, <3>1, <3>2
    <3> QED BY <3>3, <3>4 DEF SkippedFits
  <2> QED BY <1>4, <2>1, <2>4, <2>5, <2>6 DEF CasesFit
<1> HIDE DEF st2
<1>7. Replayed(setting, tr2, lv2, st2)
  BY <1>4, <1>6 DEF Replayed
<1> QED BY <1>4, <1>7 DEF ReplayingNext, st2, tr2, lv2

(* The call that is pending gets its evaluation.                           *)
LEMMA EvaluateReplayed ==
  ASSUME Written(setting, trace, live, truth), NEW r \in RunIds, NEW s \in setting.sigs, NEW b \in BOOLEAN,
         Evaluate(r, s, b), NEW st, Replaying(st)
  PROVE  ReplayingNext(ReplayRecord(st, trace'[Len(trace) + 1], Len(trace) + 1))
<1> DEFINE n == Len(trace) + 1
           c == live[r].call
           rec == EvalRec(r, c, s, b)
           tr2 == trace'
           lv2 == live'
           st2 == ReplayRecord(st, rec, n)
           x == [st |-> IF b THEN "evaluated" ELSE "decided", call |-> live[r].call, sig |-> s]
           line == [run |-> r, call |-> c, line |-> n]
           new == Case(line, TRUE)
           old == PendingOf(st, r)
<1>1. trace' = Append(trace, rec) /\ rec \in Records(setting) /\ Moved1(r, x) /\ live[r].st = "called"
  BY EvaluateDoes
<1>2. lv2[r].st # "called" /\ \A q \in RunIds \ {r} : lv2[q] = live[q]
  BY <1>1 DEF Moved1
<1>3. rec.t = "evaluation" /\ rec.run = r /\ rec.call = c
  BY DEF EvalRec
<1>4. c \in CallIds(setting) /\ trace \in Seq(Records(setting)) /\ Len(trace) \in Nat
  BY CallFields, LenProperties DEF Written
<1> HIDE DEF rec, c
<1>5. /\ tr2[n] = rec /\ \A i \in 1 .. Len(trace) : tr2[i] = trace[i]
      /\ \A t : LinesIn(trace, t) \subseteq 1 .. Len(trace)
      /\ LinesIn(tr2, "torn") = LinesIn(trace, "torn")
      /\ LinesIn(tr2, "start") = LinesIn(trace, "start")
      /\ LinesIn(tr2, "evaluation") = LinesIn(trace, "evaluation") \union {n}
  BY <1>1, <1>3, Writes DEF Longer
<1>6. ASSUME NEW i \in LinesIn(trace, "start")
      PROVE  /\ Evaluated(trace, i) => Evaluated(tr2, i)
             /\ Evaluated(tr2, i) => Evaluated(trace, i) \/ trace[i].run = r
  <2>1. tr2 = Append(trace, rec)
    BY <1>1
  <2> DEFINE X == Records(setting)
  <2> HIDE DEF tr2, X
  <2>0. trace \in Seq(X) /\ rec \in X
    BY <1>1, <1>4 DEF X
  <2>2. /\ Evaluated(trace, i) => Evaluated(tr2, i)
        /\ Evaluated(tr2, i) => Evaluated(trace, i) \/ Judges(rec, trace[i].run)
    BY <2>0, <2>1, EvaluatedStays, Zenon
  <2> QED BY <2>2, <1>3 DEF Judges
<1> HIDE DEF tr2, lv2
<1>7. ASSUME LinesIn(trace, "torn") = {}
      PROVE  /\ st2 \in ReplayStates(setting) /\ st2.ok = TRUE
             /\ PendingFits(tr2, lv2, st2.pending) /\ SkippedFits(tr2, st2.pending, Skipped(st2.cases))
             /\ CasesFit(tr2, st2.cases)
  <2>1. /\ st \in ReplayStates(setting) /\ st.ok = TRUE
        /\ PendingFits(trace, live, st.pending) /\ SkippedFits(trace, st.pending, Skipped(st.cases))
        /\ CasesFit(trace, st.cases)
    BY <1>7 DEF Replaying, Replayed
  <2>2. /\ \A p \in st.pending :
             /\ live[p.run].st \in {"called", "dead"} /\ p.call = live[p.run].call
             /\ p.line \in LinesIn(trace, "start") /\ trace[p.line].run = p.run /\ ~Evaluated(trace, p.line)
             /\ \A m \in LinesIn(trace, "start") : m > p.line => trace[m].run # p.run
        /\ \A q \in RunIds : live[q].st = "called" => \E p \in st.pending : p.run = q
        /\ \A p, q \in st.pending : p.run = q.run => p = q
    BY <2>1 DEF PendingFits
  <2>3. \A p : p \in old <=> p \in st.pending /\ p.run = r
    BY DEF PendingOf
  <2>4. \A p \in old : p.call = c
    BY <2>2, <2>3 DEF c
  <2>5. new \in Cases(setting) /\ new.line = n /\ new.evaluated = TRUE
    BY <1>4 DEF Case, Cases
  <2>6. st2 \in ReplayStates(setting) /\ st2.ok = TRUE
        /\ st2.pending = st.pending \ old /\ st2.cases = st.cases \union {new}
    <3> DEFINE t == [st EXCEPT !.cases = @ \union {new}]
    <3>1. st2 = [t EXCEPT !.pending = @ \ old]
      BY <1>3, <2>1, <2>4 DEF ReplayRecord
    <3> HIDE DEF old, new
    <3>2. t \in ReplayStates(setting) /\ t.ok = TRUE /\ t.pending = st.pending /\ t.cases = st.cases \union {new}
      BY <2>1, <2>5 DEF ReplayStates
    <3> HIDE DEF t
    <3> QED BY <3>1, <3>2 DEF ReplayStates
  <2> DEFINE rest == st.pending \ old
  <2>7. \A p : p \in rest <=> p \in st.pending /\ p.run # r
    BY <2>3
  <2> HIDE DEF st2, new, old, rest
  <2>8. PendingFits(tr2, lv2, rest)
    <3>1. \A p \in rest : p \in st.pending /\ p.run \in RunIds \ {r}
      BY <2>1, <2>7 DEF ReplayStates, PendingCalls
    <3>2. ASSUME NEW p \in rest
          PROVE  /\ lv2[p.run].st \in {"called", "dead"} /\ p.call = lv2[p.run].call
                 /\ p.line \in LinesIn(tr2, "start") /\ tr2[p.line].run = p.run /\ ~Evaluated(tr2, p.line)
                 /\ \A m \in LinesIn(tr2, "start") : m > p.line => tr2[m].run # p.run
      <4>1. lv2[p.run].st \in {"called", "dead"} /\ p.call = lv2[p.run].call
        BY <2>2, <3>1, <1>2
      <4>2. p.line \in LinesIn(tr2, "start") /\ tr2[p.line].run = p.run /\ ~Evaluated(tr2, p.line)
        BY <2>2, <3>1, <1>5, <1>6
      <4>3. ASSUME NEW m \in LinesIn(tr2, "start"), m > p.line PROVE tr2[m].run # p.run
        <5>1. m \in LinesIn(trace, "start") /\ tr2[m] = trace[m]
          BY <1>5
        <5> QED BY <5>1, <2>2, <3>1, <4>3
      <4> QED BY <4>1, <4>2, <4>3
    <3>3. \A q \in RunIds : lv2[q].st = "called" => \E p \in rest : p.run = q
      BY <1>2, <2>2, <2>7
    <3>4. \A p, q \in rest : p.run = q.run => p = q
      BY <2>2, <3>1
    <3> QED BY <3>2, <3>3, <3>4 DEF PendingFits
  <2> DEFINE skipped == Skipped(st.cases)
  <2>10. SkippedFits(tr2, rest, skipped)
    <3> HIDE DEF skipped
    <3>1. /\ \A i \in LinesIn(trace, "start") : Evaluated(trace, i) \/ i \in skipped \/ \E p \in st.pending : p.line = i
          /\ \A i \in skipped : /\ i \in LinesIn(trace, "start") /\ ~Evaluated(trace, i)
                              /\ \A p \in st.pending : p.line # i
      BY <2>1 DEF SkippedFits, skipped
    <3>5. ASSUME NEW i \in LinesIn(tr2, "start") PROVE Evaluated(tr2, i) \/ i \in skipped \/ \E p \in rest : p.line = i
      <4>1. i \in LinesIn(trace, "start") /\ tr2[i] = trace[i] /\ i < n
        BY <1>4, <1>5
      <4>2. CASE Evaluated(trace, i)
        BY <4>1, <4>2, <1>6
      <4>3. CASE \E p \in st.pending : p.line = i
        <5>1. PICK p \in st.pending : p.line = i
          BY <4>3
        <5>2. CASE p.run = r
          <6>1. \A m \in LinesIn(trace, "start") : m > i => trace[m].run # r
            BY <2>2, <5>1, <5>2
          <6>2. trace[i].run = r
            BY <2>2, <5>1, <5>2
          <6>3. ASSUME NEW m \in LinesIn(tr2, "start"), i < m, m < n, tr2[m].run = tr2[i].run PROVE FALSE
            <7>1. m \in LinesIn(trace, "start") /\ tr2[m] = trace[m] /\ m > i
              BY <1>4, <1>5, <4>1, <6>3
            <7> QED BY <7>1, <6>1, <6>2, <6>3, <4>1
          <6>4. n \in LinesIn(tr2, "evaluation") /\ n > i /\ tr2[n].run = tr2[i].run
            BY <1>3, <1>4, <1>5, <4>1, <6>2
          <6> HIDE DEF n
          <6>5. Evaluated(tr2, i)
            BY <6>3, <6>4 DEF Evaluated
          <6> QED BY <6>5
        <5>3. CASE p.run # r
          BY <5>1, <5>3, <2>7
        <5> QED BY <5>2, <5>3
      <4> QED BY <4>1, <4>2, <4>3, <3>1
    <3>6. ASSUME NEW i \in skipped
          PROVE  /\ i \in LinesIn(tr2, "start") /\ ~Evaluated(tr2, i)
                 /\ \A p \in rest : p.line # i
      <4>1. /\ i \in LinesIn(trace, "start") /\ i \in LinesIn(tr2, "start") /\ tr2[i] = trace[i] /\ i < n /\ i \in Nat
            /\ ~Evaluated(trace, i) /\ \A p \in st.pending : p.line # i
        BY <3>1, <1>4, <1>5
      <4>2. ASSUME Evaluated(tr2, i) PROVE FALSE
        <5>1. PICK k \in LinesIn(tr2, "evaluation") :
                   /\ k > i /\ tr2[k].run = tr2[i].run
                   /\ ~\E m \in LinesIn(tr2, "start") : i < m /\ m < k /\ tr2[m].run = tr2[i].run
          BY <4>2 DEF Evaluated
        <5>2. trace[i].run = r
          BY <4>1, <4>2, <1>6
        <5>3. PICK p \in st.pending : p.run = r
          BY <1>1, <2>2
        <5>4. /\ p.line \in LinesIn(trace, "start") /\ trace[p.line].run = r /\ p.line # i
              /\ ~(i > p.line)
          BY <2>2, <4>1, <5>2, <5>3
        <5>5. p.line \in 1 .. Len(trace) /\ i < p.line /\ tr2[p.line].run = tr2[i].run /\ p.line \in LinesIn(tr2, "start")
          BY <5>2, <5>4, <4>1, <1>4, <1>5
        <5>6. CASE k \in LinesIn(trace, "evaluation")
          <6>1. tr2[k] = trace[k]
            BY <5>6, <1>5
          <6>2. ASSUME NEW m \in LinesIn(trace, "start"), i < m, m < k, trace[m].run = trace[i].run PROVE FALSE
            <7>1. m \in LinesIn(tr2, "start") /\ tr2[m] = trace[m]
              BY <1>5
            <7> QED BY <7>1, <6>2, <5>1, <4>1
          <6>3. Evaluated(trace, i)
            BY <5>1, <5>6, <6>1, <6>2, <4>1 DEF Evaluated
          <6> QED BY <6>3, <4>1
        <5>7. CASE k = n
          <6>1. p.line < k
            BY <5>5, <5>7, <1>4
          <6> HIDE DEF n
          <6> QED BY <5>1, <5>5, <6>1
        <5> QED BY <5>1, <5>6, <5>7, <1>5
      <4> QED BY <4>1, <4>2, <2>7
    <3> QED BY <3>5, <3>6 DEF SkippedFits
  <2>9. CasesFit(tr2, st.cases \union {new})
    <3> HIDE DEF n
    <3>1. {d \in st.cases \union {new} : d.evaluated} = {d \in st.cases : d.evaluated} \union {new}
      BY <2>5
    <3>2. {k.line : k \in {d \in st.cases \union {new} : d.evaluated}}
            = {k.line : k \in {d \in st.cases : d.evaluated}} \union {n}
      BY <2>5, <3>1
    <3> QED BY <3>2, <2>1, <1>5 DEF CasesFit
  <2>11. Skipped(st.cases \union {new}) = skipped
    BY <2>5, MoreCases
  <2> QED BY <2>6, <2>8, <2>9, <2>10, <2>11 DEF rest
<1> HIDE DEF st2
<1>8. Replayed(setting, tr2, lv2, st2)
  BY <1>5, <1>7 DEF Replayed
<1> QED BY <1>5, <1>8 DEF ReplayingNext, st2, tr2, lv2

LEMMA AskReplayed ==
  ASSUME Written(setting, trace, live, truth), NEW r \in RunIds, NEW hook \in setting.hooks, Ask(r, hook),
         NEW st, Replaying(st)
  PROVE  ReplayingNext(ReplayRecord(st, trace'[Len(trace) + 1], Len(trace) + 1))
<1> DEFINE rec == AskRec(r, Len(trace) + 1, hook, live[r].call, AskedSig(r, hook))
           x == [st |-> "asked", call |-> live[r].call, hook |-> hook, sig |-> AskedSig(r, hook),
                 line |-> Len(trace) + 1]
<1>1. /\ trace' = Append(trace, rec) /\ rec \in Records(setting) /\ Moved1(r, x)
      /\ live[r].st = IF hook = "tool" THEN "evaluated" ELSE "idle"
  BY AskDoes
<1>2. rec.t = "request" /\ x.st = "asked"
  BY DEF AskRec
<1> HIDE DEF rec, x
<1>3. live[r].st \notin {"called", "dead"} /\ live'[r].st # "called" /\ \A q \in RunIds \ {r} : live'[q] = live[q]
  BY <1>1, <1>2 DEF Moved1
<1> QED BY <1>1, <1>2, <1>3, ReplaysOn

LEMMA AnswerReplayed ==
  ASSUME Written(setting, trace, live, truth), NEW r \in RunIds, NEW d \in Answers, NEW a \in BOOLEAN,
         Answer(r, d, a), NEW st, Replaying(st)
  PROVE  ReplayingNext(ReplayRecord(st, trace'[Len(trace) + 1], Len(trace) + 1))
<1> DEFINE rec == AnswerRec(r, live[r].line, d, a)
           x == [st |-> IF live[r].hook = "tool" THEN "decided" ELSE "idle", call |-> live[r].call]
<1>1. trace' = Append(trace, rec) /\ rec \in Records(setting) /\ Moved1(r, x) /\ live[r].st = "asked"
  BY AnswerDoes
<1>2. rec.t = "response" /\ x.st # "called"
  BY DEF AnswerRec
<1> HIDE DEF rec, x
<1>3. live[r].st \notin {"called", "dead"} /\ live'[r].st # "called" /\ \A q \in RunIds \ {r} : live'[q] = live[q]
  BY <1>1, <1>2 DEF Moved1
<1> QED BY <1>1, <1>2, <1>3, ReplaysOn

(* A call ends that was never evaluated: it becomes a case.                *)
LEMMA SkippedCallReplayed ==
  ASSUME Written(setting, trace, live, truth), NEW r \in RunIds, EndCall(r), live[r].st = "called",
         NEW st, Replaying(st)
  PROVE  ReplayingNext(ReplayRecord(st, trace'[Len(trace) + 1], Len(trace) + 1))
<1> DEFINE n == Len(trace) + 1
           rec == EndRec(r, live[r].call)
           tr2 == trace'
           lv2 == live'
           st2 == ReplayRecord(st, rec, n)
           old == PendingOf(st, r)
           flush == {Case(p, FALSE) : p \in old}
           rest == Left(st.pending, r)
           skipped == Skipped(st.cases)
           more == skipped \union {p.line : p \in old}
<1>1. trace' = Append(trace, rec) /\ rec \in Records(setting) /\ Moved1(r, lv2[r]) /\ lv2[r].st = "idle"
  BY EndCallDoes
<1>2. rec.t = "end" /\ rec.run = r
  BY DEF EndRec
<1> HIDE DEF rec
<1>3. \A q \in RunIds \ {r} : lv2[q] = live[q]
  BY <1>1 DEF Moved1
<1>4. /\ tr2[n] = rec /\ \A i \in 1 .. Len(trace) : tr2[i] = trace[i]
      /\ \A t : LinesIn(trace, t) \subseteq 1 .. Len(trace)
      /\ LinesIn(tr2, "torn") = LinesIn(trace, "torn")
      /\ LinesIn(tr2, "start") = LinesIn(trace, "start")
      /\ LinesIn(tr2, "evaluation") = LinesIn(trace, "evaluation")
  BY <1>1, <1>2, Writes DEF Longer
<1> HIDE DEF tr2, lv2
<1>5. ASSUME LinesIn(trace, "torn") = {}
      PROVE  /\ st2 \in ReplayStates(setting) /\ st2.ok = TRUE
             /\ PendingFits(tr2, lv2, st2.pending) /\ SkippedFits(tr2, st2.pending, Skipped(st2.cases))
             /\ CasesFit(tr2, st2.cases)
  <2>1. /\ st \in ReplayStates(setting) /\ st.ok = TRUE
        /\ PendingFits(trace, live, st.pending) /\ SkippedFits(trace, st.pending, Skipped(st.cases))
        /\ CasesFit(trace, st.cases)
    BY <1>5 DEF Replaying, Replayed
  <2>2. /\ \A p : p \in old <=> p \in st.pending /\ p.run = r
        /\ \A p : p \in rest <=> p \in st.pending /\ p.run # r
        /\ rest = st.pending \ old
    BY DEF PendingOf, Left
  <2>3. \A p \in st.pending : p.run \in RunIds
    BY <2>1 DEF ReplayStates, PendingCalls
  <2>4. /\ \A c \in flush : c \in Cases(setting) /\ c.evaluated = FALSE
        /\ {c.line : c \in flush} = {p.line : p \in old}
    <3>1. \A p \in old : /\ Case(p, FALSE) \in Cases(setting) /\ Case(p, FALSE).evaluated = FALSE
                          /\ Case(p, FALSE).line = p.line
      BY <2>1, <2>2 DEF ReplayStates, PendingCalls, Case, Cases
    <3> QED BY <3>1
  <2>5. st2 \in ReplayStates(setting) /\ st2.ok = TRUE /\ st2.pending = rest /\ st2.cases = st.cases \union flush
    <3> DEFINE t == [st EXCEPT !.cases = @ \union flush]
    <3>1. st2 = [t EXCEPT !.pending = @ \ old]
      BY <1>2, <2>1 DEF ReplayRecord
    <3> HIDE DEF old, flush, rest
    <3>2. t \in ReplayStates(setting) /\ t.ok = TRUE /\ t.pending = st.pending /\ t.cases = st.cases \union flush
      BY <2>1, <2>4 DEF ReplayStates
    <3> HIDE DEF t
    <3> QED BY <3>1, <3>2, <2>2 DEF ReplayStates
  <2> HIDE DEF st2, old, flush
  <2>6. PendingFits(trace, lv2, rest)
    BY <2>1, <2>3, <1>1, <1>3, PendingTaken
  <2>7. SkippedFits(trace, rest, more)
    <3>1. /\ \A i \in LinesIn(trace, "start") : Evaluated(trace, i) \/ i \in skipped \/ \E p \in st.pending : p.line = i
          /\ \A i \in skipped : /\ i \in LinesIn(trace, "start") /\ ~Evaluated(trace, i)
                              /\ \A p \in st.pending : p.line # i
      BY <2>1 DEF SkippedFits
    <3>2. \A p \in st.pending : p.line \in LinesIn(trace, "start") /\ ~Evaluated(trace, p.line) /\ trace[p.line].run = p.run
      BY <2>1 DEF PendingFits
    <3> HIDE DEF skipped, rest
    <3>3. \A i \in LinesIn(trace, "start") : Evaluated(trace, i) \/ i \in more \/ \E p \in rest : p.line = i
      BY <3>1, <2>2
    <3>4. \A i \in more : i \in LinesIn(trace, "start") /\ ~Evaluated(trace, i) /\ \A p \in rest : p.line # i
      BY <3>1, <3>2, <2>2
    <3> HIDE DEF more
    <3> QED BY <3>3, <3>4 DEF SkippedFits
  <2>8. Skipped(st2.cases) = more /\ CasesFit(trace, st2.cases)
    <3> HIDE DEF rest
    <3>1. /\ Skipped(st.cases \union flush) = Skipped(st.cases) \union {c.line : c \in flush}
          /\ CasesFit(trace, st.cases \union flush)
      <4>1. CasesFit(trace, st.cases) /\ \A c \in flush : c.evaluated = FALSE
        BY <2>1, <2>4
      <4> QED BY <4>1, MoreCases, Zenon
    <3>2. st2.cases = st.cases \union flush
      BY <2>5
    <3> QED BY <3>1, <3>2, <2>4
  <2> HIDE DEF rest, more
  <2>9. Untouched(trace, lv2, tr2, lv2, rest)
    <3>1. \A p \in rest : lv2[p.run].st \in {"called", "dead"}
      BY <2>6 DEF PendingFits
    <3> QED BY <1>4, <3>1 DEF Untouched
  <2>10. PendingFits(tr2, lv2, rest) /\ SkippedFits(tr2, rest, more)
    BY <2>6, <2>7, <2>9, PendingStays
  <2> QED BY <1>4, <2>5, <2>8, <2>10 DEF CasesFit
<1> HIDE DEF st2
<1>6. Replayed(setting, tr2, lv2, st2)
  BY <1>4, <1>5 DEF Replayed
<1> QED BY <1>4, <1>6 DEF ReplayingNext, st2, tr2, lv2

LEMMA EndCallReplayed ==
  ASSUME Written(setting, trace, live, truth), NEW r \in RunIds, EndCall(r), NEW st, Replaying(st)
  PROVE  ReplayingNext(ReplayRecord(st, trace'[Len(trace) + 1], Len(trace) + 1))
<1> DEFINE rec == EndRec(r, live[r].call)
           x == live'[r]
<1>1. /\ trace' = Append(trace, rec) /\ rec \in Records(setting) /\ Moved1(r, x)
      /\ live[r].st \in {"called", "decided"} /\ x.st = "idle"
  BY EndCallDoes
<1>2. rec.t = "end" /\ rec.run = r
  BY DEF EndRec
<1> HIDE DEF rec
<1>3. CASE live[r].st = "called"
  BY <1>3, SkippedCallReplayed
<1>4. CASE live[r].st = "decided"
  <2>1. live[r].st \notin {"called", "dead"} /\ live'[r].st # "called" /\ \A q \in RunIds \ {r} : live'[q] = live[q]
    BY <1>1, <1>4 DEF Moved1
  <2> QED BY <1>1, <1>2, <2>1, ReplaysOn
<1> QED BY <1>1, <1>3, <1>4

LEMMA NotedReplayed ==
  ASSUME Written(setting, trace, live, truth), NEW rec, Noted(rec), NEW st, Replaying(st)
  PROVE  ReplayingNext(ReplayRecord(st, trace'[Len(trace) + 1], Len(trace) + 1))
<1>1. /\ trace' = Append(trace, rec) /\ rec \in Records(setting) /\ live' = live
      /\ rec.t \in {"runtime", "unowned", "separated"}
  BY NotedDoes
<1>2. \A q \in RunIds \ {NoRun} : live'[q] = live[q]
  BY <1>1
<1> QED BY <1>1, <1>2, ReplaysOn

(* A Trace whose last line is torn is not read.                            *)
LEMMA CrashReplayed ==
  ASSUME Written(setting, trace, live, truth), NEW r \in RunIds, Crash(r), NEW st, Replaying(st)
  PROVE  /\ trace' = trace => ReplayingNext(st)
         /\ trace' # trace => \A st2 : ReplayingNext(st2)
<1> DEFINE rec == [t |-> "torn", run |-> r]
           x == live'[r]
           lv2 == live'
<1>1. /\ trace' = trace \/ trace' = Append(trace, rec)
      /\ rec \in Records(setting) /\ Moved1(r, x) /\ x.st = "dead" /\ x.call = live[r].call
      /\ live[r].st \notin {"idle", "dead"}
  BY CrashDoes
<1>2. rec.t = "torn"
  OBVIOUS
<1> HIDE DEF rec
<1>3. lv2[r].st = "dead" /\ lv2[r].call = live[r].call /\ \A q \in RunIds \ {r} : lv2[q] = live[q]
  BY <1>1 DEF Moved1
<1> HIDE DEF lv2
<1>4. ASSUME trace' = trace PROVE ReplayingNext(st)
  <2>1. ASSUME LinesIn(trace, "torn") = {}
        PROVE  PendingFits(trace, lv2, st.pending) /\ SkippedFits(trace, st.pending, Skipped(st.cases))
    <3>1. /\ PendingFits(trace, live, st.pending) /\ SkippedFits(trace, st.pending, Skipped(st.cases))
          /\ \A p \in st.pending : p.run \in RunIds
          /\ \A p \in st.pending : live[p.run].st \in {"called", "dead"}
      BY <2>1 DEF Replaying, Replayed, ReplayStates, PendingCalls, PendingFits
    <3>2. Untouched(trace, live, trace, lv2, st.pending)
      BY <3>1, <1>3 DEF Untouched
    <3> QED BY <3>1, <3>2, PendingStays
  <2>2. Replayed(setting, trace, lv2, st)
    BY <2>1 DEF Replaying, Replayed
  <2> QED BY <2>2, <1>4 DEF ReplayingNext, lv2
<1>5. ASSUME trace' # trace, NEW st2 PROVE ReplayingNext(st2)
  <2>1. LinesIn(trace', "torn") = LinesIn(trace, "torn") \union {Len(trace) + 1}
    BY <1>1, <1>2, <1>5, Writes
  <2> QED BY <2>1 DEF ReplayingNext, Replayed
<1> QED BY <1>4, <1>5

-----------------------------------------------------------------------------
(* The invariant: what is written, and what any reading of it holds.       *)
Held(k, se, tr, lv, tt, st) == IF k = "discovery" THEN Discovered(se, tr, lv, tt, st) ELSE Replayed(se, tr, lv, st)

ReadBy(k, se, tr, lv, tt) ==
  /\ \E p : Reading(k, tr, p)
  /\ \A p : Reading(k, tr, p) => Held(k, se, tr, lv, tt, p[Len(tr)])

Sound(se, tr, lv, tt) ==
  Written(se, tr, lv, tt) /\ ReadBy("discovery", se, tr, lv, tt) /\ ReadBy("replay", se, tr, lv, tt)

LEMMA SoundAtFirst == TraceInit => Sound(setting, trace, live, truth)
<1> SUFFICES ASSUME TraceInit PROVE Sound(setting, trace, live, truth)
  OBVIOUS
<1>1. trace = <<>> /\ truth = {} /\ live = [r \in RunIds |-> [st |-> "idle", call |-> "none"]]
  BY DEF TraceInit
<1>2. RefusedIn(<<>>) = {} /\ \A t : LinesIn(<<>>, t) = {}
  BY DEF LinesIn, RefusedIn
<1>3. /\ live \in [RunIds -> Calls(setting)]
      /\ \A r \in RunIds : live[r].st = "idle"
  <2> DEFINE x == [st |-> "idle", call |-> "none"]
  <2>1. x \in Calls(setting) /\ x.st = "idle"
    BY DEF Calls, Plain, Steps, CallIds
  <2>2. live = [r \in RunIds |-> x]
    BY <1>1
  <2> HIDE DEF x
  <2> QED BY <2>1, <2>2
<1>4. Written(setting, trace, live, truth)
  <2>1. \A r \in RunIds : InTrace(setting, trace, truth, r, live[r])
    BY <1>3 DEF InTrace
  <2>2. trace \in Seq(Records(setting)) /\ IsFiniteSet(truth)
    BY <1>1, FS_EmptySet
  <2> QED BY <1>1, <1>3, <2>1, <2>2 DEF Written
<1>5. Len(trace) = 0
  BY <1>1
<1>6. Held("discovery", setting, trace, live, truth, Opened("discovery"))
  <2>1. Parsed \in ParseStates(setting) /\ Parsed.ok = TRUE /\ Parsed.samples = {} /\ Parsed.evals = {} /\ Parsed.reqs = {}
    BY DEF Parsed, ParseStates
  <2>2. EvalsFit(live, {}) /\ RequestsFit(trace, live, {})
    BY <1>3 DEF EvalsFit, RequestsFit
  <2>3. Discovered(setting, trace, live, truth, Parsed)
    BY <1>1, <1>2, <2>1, <2>2 DEF Discovered
  <2> QED BY <2>3 DEF Held, Opened
<1>7. Held("replay", setting, trace, live, truth, Opened("replay"))
  <2>1. Unread \in ReplayStates(setting) /\ Unread.ok = TRUE /\ Unread.pending = {} /\ Unread.cases = {}
    BY DEF Unread, ReplayStates
  <2>2. PendingFits(trace, live, {}) /\ SkippedFits(trace, {}, Skipped({})) /\ CasesFit(trace, {})
    BY <1>1, <1>2, <1>3 DEF PendingFits, SkippedFits, Skipped, CasesFit
  <2>3. Replayed(setting, trace, live, Unread)
    BY <2>1, <2>2 DEF Replayed
  <2> QED BY <2>3 DEF Held, Opened
<1>8. ASSUME NEW k \in {"discovery", "replay"} PROVE ReadBy(k, setting, trace, live, truth)
  <2>1. Held(k, setting, trace, live, truth, Opened(k))
    BY <1>6, <1>7
  <2>2. (\E p : Reading(k, trace, p)) /\ \A p : Reading(k, trace, p) => p[0] = Opened(k)
    BY <1>1, ReadingBegins
  <2> QED BY <1>5, <2>1, <2>2 DEF ReadBy
<1> QED BY <1>4, <1>8 DEF Sound

(* One more record, which both programs can read.                          *)
LEMMA ReadOn ==
  ASSUME Sound(setting, trace, live, truth), Written(setting, trace', live', truth'),
         NEW rec, trace' = Append(trace, rec), NEW k \in {"discovery", "replay"},
         \A st : Held(k, setting, trace, live, truth, st)
           => Held(k, setting, trace', live', truth', Read(k, st, trace'[Len(trace) + 1], Len(trace) + 1))
  PROVE  ReadBy(k, setting, trace', live', truth')
<1> DEFINE tr2 == trace'
           lv2 == live'
           tt2 == truth'
           n == Len(trace)
           HeldNext(st) == Held(k, setting, tr2, lv2, tt2, st)
<1>1. trace \in Seq(Records(setting)) /\ ReadBy(k, setting, trace, live, truth)
  BY DEF Sound, Written
<1>2. Len(tr2) = n + 1 /\ tr2[n + 1] = rec
  BY <1>1
<1>3. tr2 = Append(trace, rec) /\ \A st : Held(k, setting, trace, live, truth, st) => HeldNext(Read(k, st, rec, n + 1))
  BY <1>2
<1> HIDE DEF tr2
<1>4. /\ \A p : Reading(k, trace, p) => \E q : Reading(k, tr2, q)
      /\ \A q : Reading(k, tr2, q) =>
           \E p : Reading(k, trace, p) /\ q[n + 1] = Read(k, p[n], rec, n + 1)
  BY <1>1, <1>3, ReadingGoesOn
<1> HIDE DEF n, HeldNext
<1>5. \E q : Reading(k, tr2, q)
  BY <1>1, <1>4 DEF ReadBy
<1>6. ASSUME NEW q, Reading(k, tr2, q) PROVE HeldNext(q[Len(tr2)])
  <2>1. PICK p : Reading(k, trace, p) /\ q[n + 1] = Read(k, p[n], rec, n + 1)
    BY <1>4, <1>6
  <2>2. Held(k, setting, trace, live, truth, p[n])
    BY <1>1, <2>1 DEF ReadBy, n
  <2> QED BY <1>2, <1>3, <2>1, <2>2
<1> QED BY <1>5, <1>6 DEF ReadBy, HeldNext, tr2

LEMMA BothReadOn ==
  ASSUME Sound(setting, trace, live, truth), Written(setting, trace', live', truth'),
         NEW rec, trace' = Append(trace, rec),
         \A st : Discovering(st) => DiscoveringNext(ParseRecord(st, trace'[Len(trace) + 1], Len(trace) + 1)),
         \A st : Replaying(st) => ReplayingNext(ReplayRecord(st, trace'[Len(trace) + 1], Len(trace) + 1))
  PROVE  Sound(setting, trace', live', truth')
<1>1. ReadBy("discovery", setting, trace', live', truth')
  <2>1. \A st : Held("discovery", setting, trace, live, truth, st)
          => Held("discovery", setting, trace', live', truth', Read("discovery", st, trace'[Len(trace) + 1], Len(trace) + 1))
    BY Zenon DEF Held, Read, Discovering, DiscoveringNext
  <2> QED BY <2>1, ReadOn
<1>2. ReadBy("replay", setting, trace', live', truth')
  <2>1. \A st : Held("replay", setting, trace, live, truth, st)
          => Held("replay", setting, trace', live', truth', Read("replay", st, trace'[Len(trace) + 1], Len(trace) + 1))
    <3>1. "replay" # "discovery"
      OBVIOUS
    <3> QED BY <3>1, Zenon DEF Held, Read, Replaying, ReplayingNext
  <2> QED BY <2>1, ReadOn
<1> QED BY <1>1, <1>2 DEF Sound

LEMMA SoundIs == Sound(setting, trace, live, truth) => Written(setting, trace, live, truth)
BY DEF Sound

LEMMA CrashKeeps ==
  ASSUME Sound(setting, trace, live, truth), NEW r \in RunIds, Crash(r)
  PROVE  Sound(setting, trace', live', truth')
<1> DEFINE rec == [t |-> "torn", run |-> r]
<1>1. Written(setting, trace, live, truth)
  BY SoundIs
<1>2. Written(setting, trace', live', truth') /\ (trace' = trace \/ trace' = Append(trace, rec))
  BY <1>1, CrashDoes
<1>3. /\ \A st : Discovering(st) =>
             /\ trace' = trace => DiscoveringNext(st)
             /\ trace' # trace => DiscoveringNext(ParseRecord(st, trace'[Len(trace) + 1], Len(trace) + 1))
      /\ \A st : Replaying(st) =>
             /\ trace' = trace => ReplayingNext(st)
             /\ trace' # trace => \A st2 : ReplayingNext(st2)
  BY <1>1, CrashParsed, CrashReplayed
<1> HIDE DEF rec
<1>4. CASE trace' # trace
  <2>1. /\ \A st : Discovering(st) => DiscoveringNext(ParseRecord(st, trace'[Len(trace) + 1], Len(trace) + 1))
        /\ \A st : Replaying(st) => ReplayingNext(ReplayRecord(st, trace'[Len(trace) + 1], Len(trace) + 1))
    BY <1>3, <1>4
  <2> QED BY <1>2, <1>4, <2>1, BothReadOn
<1>5. CASE trace' = trace
  <2> DEFINE tr2 == trace'
             lv2 == live'
             tt2 == truth'
  <2>1. /\ \A st : Discovered(setting, trace, live, truth, st) => Discovered(setting, tr2, lv2, tt2, st)
        /\ \A st : Replayed(setting, trace, live, st) => Replayed(setting, tr2, lv2, st)
        /\ Written(setting, tr2, lv2, tt2) /\ tr2 = trace
    BY <1>2, <1>3, <1>5 DEF Discovering, DiscoveringNext, Replaying, ReplayingNext
  <2> HIDE DEF tr2, lv2, tt2
  <2>2. \A k, st : Held(k, setting, trace, live, truth, st) => Held(k, setting, tr2, lv2, tt2, st)
    BY <2>1 DEF Held
  <2>3. Sound(setting, tr2, lv2, tt2)
    BY <2>1, <2>2 DEF Sound, ReadBy
  <2> QED BY <2>3 DEF tr2, lv2, tt2
<1> QED BY <1>4, <1>5

LEMMA TraceStepKeeps ==
  ASSUME SettingFits, Sound(setting, trace, live, truth), NEW r \in RunIds, TraceStep(r)
  PROVE  Sound(setting, trace', live', truth')
<1>1. Written(setting, trace, live, truth)
  BY SoundIs
<1>2. ASSUME NEW c \in setting.calls, BeginCall(r, c) PROVE Sound(setting, trace', live', truth')
  BY <1>1, <1>2, BeginCallDoes, BeginCallParsed, BeginCallReplayed, BothReadOn
<1>3. ASSUME NEW s \in setting.sigs, NEW b \in setting.confirms, Evaluate(r, s, b)
      PROVE  Sound(setting, trace', live', truth')
  <2>1. b \in BOOLEAN
    BY DEF SettingFits
  <2> QED BY <1>1, <1>3, <2>1, EvaluateDoes, EvaluateParsed, EvaluateReplayed, BothReadOn
<1>4. ASSUME NEW hook \in setting.hooks, Ask(r, hook) PROVE Sound(setting, trace', live', truth')
  BY <1>1, <1>4, AskDoes, AskParsed, AskReplayed, BothReadOn
<1>5. ASSUME NEW a \in setting.answers, Answer(r, a[1], a[2]) PROVE Sound(setting, trace', live', truth')
  <2>1. a[1] \in Answers /\ a[2] \in BOOLEAN
    BY DEF SettingFits
  <2> QED BY <1>1, <1>5, <2>1, AnswerDoes, AnswerParsed, AnswerReplayed, BothReadOn
<1>6. CASE EndCall(r)
  BY <1>1, <1>6, EndCallDoes, EndCallParsed, EndCallReplayed, BothReadOn
<1>7. CASE Crash(r)
  BY <1>7, CrashKeeps
<1> QED BY <1>2, <1>3, <1>4, <1>5, <1>6, <1>7 DEF TraceStep

LEMMA TraceNextKeeps ==
  ASSUME SettingFits, Sound(setting, trace, live, truth), TraceNext
  PROVE  Sound(setting, trace', live', truth')
<1>1. ASSUME NEW rec, Noted(rec) PROVE Sound(setting, trace', live', truth')
  BY <1>1, SoundIs, NotedDoes, NotedParsed, NotedReplayed, BothReadOn
<1>2. ASSUME NEW r \in RunIds, TraceStep(r) PROVE Sound(setting, trace', live', truth')
  BY <1>2, TraceStepKeeps
<1>3. CASE RuntimeEvent
  BY <1>1, <1>3, NotesAre
<1>4. CASE SessionEvaluation
  BY <1>1, <1>4, NotesAre
<1>5. ASSUME NEW r \in RunIds, SeparatedText(r) PROVE Sound(setting, trace', live', truth')
  BY <1>1, <1>5, NotesAre
<1> QED BY <1>2, <1>3, <1>4, <1>5 DEF TraceNext

(* What the two programs hold at the end.                                  *)
LEMMA WhatIsRead ==
  ASSUME Sound(setting, trace, live, truth)
  PROVE  Discovering(Fold(ParseRecord, Parsed)) /\ Replaying(Fold(ReplayRecord, Unread))
<1>1. ReadBy("discovery", setting, trace, live, truth) /\ ReadBy("replay", setting, trace, live, truth)
  BY DEF Sound
<1>2. Discovering(Fold(ParseRecord, Parsed))
  <2>1. PICK p : Reading("discovery", trace, p) /\ Fold(ParseRecord, Parsed) = p[Len(trace)]
    BY <1>1, ReadingIsChosen DEF ReadBy
  <2>2. Held("discovery", setting, trace, live, truth, p[Len(trace)])
    BY <1>1, <2>1 DEF ReadBy
  <2> QED BY <2>1, <2>2, Zenon DEF Held, Discovering
<1>3. Replaying(Fold(ReplayRecord, Unread))
  <2>1. PICK p : Reading("replay", trace, p) /\ Fold(ReplayRecord, Unread) = p[Len(trace)]
    BY <1>1, ReadingIsChosen DEF ReadBy
  <2>2. Held("replay", setting, trace, live, truth, p[Len(trace)]) /\ "replay" # "discovery"
    BY <1>1, <2>1 DEF ReadBy
  <2> QED BY <2>1, <2>2, Zenon DEF Held, Replaying
<1> QED BY <1>2, <1>3

LEMMA LinesAre == \A t : Lines(t) = LinesIn(trace, t)
BY DEF Lines, LinesIn

LEMMA SoundCovers == Sound(setting, trace, live, truth) => ReplayCoversCalls
<1> SUFFICES ASSUME Sound(setting, trace, live, truth), LinesIn(trace, "torn") = {}
             PROVE  /\ ReplayCases.ok
                    /\ {c.line : c \in {c \in ReplayCases.cases : c.evaluated}} = LinesIn(trace, "evaluation")
                    /\ {c.line : c \in {c \in ReplayCases.cases : ~c.evaluated}}
                         = {i \in LinesIn(trace, "start") : ~Evaluated(trace, i)}
  BY LinesAre DEF ReplayCoversCalls, Evaluated
<1> DEFINE st == Fold(ReplayRecord, Unread)
           all == ReplayCases
           flush == {Case(p, FALSE) : p \in st.pending}
           t == [st EXCEPT !.cases = @ \union flush]
<1>1. all = [t EXCEPT !.pending = {}]
  BY DEF ReplayCases
<1>2. /\ st \in ReplayStates(setting) /\ st.ok = TRUE
      /\ PendingFits(trace, live, st.pending) /\ SkippedFits(trace, st.pending, Skipped(st.cases))
      /\ CasesFit(trace, st.cases)
  BY WhatIsRead DEF Replaying, Replayed
<1> HIDE DEF all, st
<1>3. /\ \A c \in flush : c \in Cases(setting) /\ c.evaluated = FALSE
      /\ {c.line : c \in flush} = {p.line : p \in st.pending}
  <2>1. \A p \in st.pending : Case(p, FALSE) \in Cases(setting) /\ Case(p, FALSE).evaluated = FALSE
                              /\ Case(p, FALSE).line = p.line
    BY <1>2 DEF ReplayStates, PendingCalls, Case, Cases
  <2> QED BY <2>1
<1> HIDE DEF flush
<1>4. t.cases = st.cases \union flush /\ t.ok = TRUE /\ t \in ReplayStates(setting)
  BY <1>2, <1>3 DEF ReplayStates
<1> HIDE DEF t
<1>5. all.ok = TRUE /\ all.cases = st.cases \union flush
  BY <1>1, <1>4 DEF ReplayStates
<1>6. /\ Skipped(all.cases) = Skipped(st.cases) \union {p.line : p \in st.pending}
      /\ CasesFit(trace, all.cases)
  <2>1. CasesFit(trace, st.cases) /\ \A c \in flush : c.evaluated = FALSE
    BY <1>2, <1>3
  <2>2. /\ Skipped(st.cases \union flush) = Skipped(st.cases) \union {c.line : c \in flush}
        /\ CasesFit(trace, st.cases \union flush)
    BY <2>1, MoreCases, Zenon
  <2> QED BY <2>2, <1>3, <1>5
<1>7. Skipped(st.cases) \union {p.line : p \in st.pending} = {i \in LinesIn(trace, "start") : ~Evaluated(trace, i)}
  <2> DEFINE skipped == Skipped(st.cases)
  <2> HIDE DEF skipped
  <2>1. /\ \A i \in LinesIn(trace, "start") : Evaluated(trace, i) \/ i \in skipped \/ \E p \in st.pending : p.line = i
        /\ \A i \in skipped : i \in LinesIn(trace, "start") /\ ~Evaluated(trace, i)
    BY <1>2 DEF SkippedFits, skipped
  <2>2. \A p \in st.pending : p.line \in LinesIn(trace, "start") /\ ~Evaluated(trace, p.line)
    BY <1>2 DEF PendingFits
  <2>3. skipped \union {p.line : p \in st.pending} = {i \in LinesIn(trace, "start") : ~Evaluated(trace, i)}
    BY <2>1, <2>2
  <2> QED BY <2>3 DEF skipped
<1> QED BY <1>5, <1>6, <1>7 DEF all, Skipped, CasesFit

(* Discovery, and the evidence a generation is given.                      *)
LEMMA WhatIsParsed ==
  ASSUME Sound(setting, trace, live, truth)
  PROVE  /\ ParseTrace.ok => ParseTrace.samples = truth
         /\ Complete => (ParseTrace.ok <=> ~TraceRefused)
<1> DEFINE st == Fold(ParseRecord, Parsed)
<1>1. ParseTrace = IF st.reqs # {} \/ st.evals # {} THEN Refuse(st) ELSE st
  BY DEF ParseTrace
<1>2. /\ st \in ParseStates(setting) /\ (st.ok <=> RefusedIn(trace) = {})
      /\ st.ok => st.samples = truth /\ EvalsFit(live, st.evals) /\ RequestsFit(trace, live, st.reqs)
  BY WhatIsRead DEF Discovering, Discovered
<1> HIDE DEF st
<1>3. Refuse(st).ok = FALSE
  BY <1>2, ParseStateRefused
<1>4. ASSUME Complete PROVE (st.ok <=> ~TraceRefused) /\ (st.ok => st.reqs = {} /\ st.evals = {})
  <2>0. RefusedIn(trace) = {} <=> ~TraceRefused
    BY <1>4, LinesAre DEF Complete, TraceRefused, RefusedIn, LinesIn, Lines, Unreadable
  <2>1. (st.ok <=> ~TraceRefused) /\ \A r \in RunIds : live[r].st \notin {"evaluated", "asked", "dead"}
    BY <1>2, <1>4, <2>0 DEF Complete
  <2>2. /\ \A e \in st.evals : e.key[1] \in RunIds
        /\ \A q \in st.reqs : q.run \in RunIds
    BY <1>2 DEF ParseStates, Evals, Reqs
  <2> QED BY <1>2, <2>1, <2>2 DEF EvalsFit, RequestsFit
<1> QED BY <1>1, <1>2, <1>3, <1>4

LEMMA DistinctRefs ==
  ASSUME Sound(setting, trace, live, truth), NEW s
  PROVE  /\ Len(trace) \in Nat /\ Discover(s) \subseteq {x \in truth : x.sig = s}
         /\ Distinct(Discover(s), Len(trace)) /\ (Discover(s) # {} => ParseTrace.ok)
         /\ \A ref \in Discover(s) : Correlates(ref) /\ ValidSample(ref)
<1>1. /\ Len(trace) \in Nat /\ IsFiniteSet(truth)
      /\ \A x \in truth : x.line \in 1 .. Len(trace) /\ Stands(trace, x) /\ ValidSample(x)
      /\ \A x, y \in truth : x.line = y.line => x = y
  BY LenProperties, SoundIs DEF Written
<1>2. Discover(s) \subseteq {x \in truth : x.sig = s} /\ (Discover(s) # {} => ParseTrace.ok)
  <2>1. CASE ParseTrace.ok
    <3>1. ParseTrace.samples = truth
      BY <2>1, WhatIsParsed
    <3>2. Discover(s) \subseteq {x \in truth : x.sig = s}
      BY <2>1, <3>1 DEF Discover, OpportunityOf, First
    <3> QED BY <2>1, <3>2
  <2>2. CASE ~ParseTrace.ok
    BY <2>2 DEF Discover
  <2> QED BY <2>1, <2>2
<1>3. IsFiniteSet(Discover(s))
  BY <1>1, <1>2, FS_Subset
<1>4. \A x \in Discover(s) : x.decision \in Decisions
  BY <1>1, <1>2 DEF ValidSample
<1> QED BY <1>1, <1>2, <1>3, <1>4, CorrelatesStands DEF Distinct

LEMMA SoundSelects == Sound(setting, trace, live, truth) => SelectionIsBalanced
<1> SUFFICES ASSUME Sound(setting, trace, live, truth), NEW s
             PROVE  Balanced(Discover(s), SelectBalanced(Discover(s), MaxEvidence))
  BY Zenon DEF SelectionIsBalanced, Balanced, Side
<1> QED BY DistinctRefs, SelectionBalances

LEMMA SomethingSelected ==
  ASSUME NEW refs, IsFiniteSet(refs), refs # {}, NEW sel, Balanced(refs, sel)
  PROVE  sel # {}
<1>1. Cardinality(refs) \in Nat \ {0}
  BY FS_CardinalityType, FS_EmptySet
<1>2. Cardinality(sel) # 0
  BY <1>1, EvidenceAssumption DEF Balanced
<1> QED BY <1>2, FS_EmptySet

LEMMA SoundEvidence == Sound(setting, trace, live, truth) => EvidenceIsHuman
<1> SUFFICES ASSUME Sound(setting, trace, live, truth), NEW s, Discover(s) # {}
             PROVE  IF LoadEvidence(Discover(s)) = NoEvidence
                    THEN ReusedCall \/ \E i \in DOMAIN trace : trace[i].run = NoRun
                    ELSE LoadEvidence(Discover(s)) \subseteq {x \in truth : x.sig = s}
  BY WhatIsParsed, Zenon DEF EvidenceIsHuman
<1> DEFINE refs == Discover(s)
           sel == SelectBalanced(refs, MaxEvidence)
<1>1. /\ Len(trace) \in Nat /\ refs \subseteq {x \in truth : x.sig = s} /\ Distinct(refs, Len(trace)) /\ ParseTrace.ok
      /\ \A ref \in refs : Correlates(ref) /\ ValidSample(ref)
  BY DistinctRefs
<1> HIDE DEF refs
<1>2. sel \subseteq refs /\ sel # {}
  <2>1. sel \subseteq refs /\ Balanced(refs, sel)
    BY <1>1, SelectionBalances
  <2> HIDE DEF sel
  <2> QED BY <2>1, <1>1, SomethingSelected DEF Distinct, refs
<1> HIDE DEF sel
<1>3. CASE StreamValid
  <2>1. LoadEvidence(refs) = sel
    BY <1>1, <1>3 DEF LoadEvidence, refs, sel
  <2> QED BY <2>1, <1>1, <1>2 DEF NoEvidence, refs
<1>4. CASE ~StreamValid
  <2>1. LoadEvidence(refs) = NoEvidence
    BY <1>4 DEF LoadEvidence
  <2>2. ASSUME \A i \in DOMAIN trace : trace[i].run # NoRun PROVE ReusedCall
    <3>1. PICK i \in Lines("evaluation"), j \in Lines("evaluation") :
               i # j /\ <<trace[i].run, trace[i].call>> = <<trace[j].run, trace[j].call>>
      BY <1>1, <1>4, <2>2 DEF StreamValid
    <3>2. i \in 1 .. Len(trace) /\ j \in 1 .. Len(trace)
      <4>1. trace \in Seq(Records(setting))
        BY SoundIs DEF Written
      <4> QED BY <4>1, <3>1, LenProperties DEF Lines
    <3>3. i < j \/ j < i
      BY <3>1, <3>2
    <3> QED BY <3>1, <3>3 DEF ReusedCall
  <2> QED BY <2>1, <2>2 DEF refs
<1> QED BY <1>3, <1>4

-----------------------------------------------------------------------------
(* The generations over a Trace, of any length, that Runs write from its   *)
(* first record on (or that was there before: BeingWritten is false then). *)
ReadSpec == SettingFits /\ (BeingWritten => TraceInit) /\ GenSpec

ReadInv == SettingFits /\ (BeingWritten => Sound(setting, trace, live, truth))

LEMMA ReadNextKeeps == ReadInv /\ [GenerationNext]_allVars => ReadInv'
<1> SUFFICES ASSUME ReadInv, [GenerationNext]_allVars PROVE ReadInv'
  OBVIOUS
<1>1. CASE UNCHANGED traceVars
  BY <1>1, Zenon DEF traceVars, ReadInv, SettingFits, BeingWritten
<1>2. CASE TraceNext
  <2>1. setting' = setting
    BY <1>2, TraceLeavesSetting
  <2>2. BeingWritten => Sound(setting, trace', live', truth')
    BY <1>2, TraceNextKeeps DEF ReadInv
  <2> QED BY <2>1, <2>2, Zenon DEF ReadInv, SettingFits, BeingWritten
<1> QED BY <1>1, <1>2 DEF GenerationNext, allVars, traceVars

(* What is in a Trace and what each program has taken from it belong       *)
(* together, for any number of Runs and records (ToolCallTracer,           *)
(* _parse_trace, load_before_tool_replay_cases).                           *)
THEOREM TraceIsRead == ReadSpec => []ReadInv
<1>1. ReadSpec => ReadInv
  BY SoundAtFirst, Zenon DEF ReadSpec, ReadInv
<1>2. ReadSpec => [][GenerationNext]_allVars
  BY DEF ReadSpec, GenSpec
<1> QED BY <1>1, <1>2, ReadNextKeeps, PTL

(* Discovery finds exactly what humans decided in a Trace, and what the    *)
(* model of a generation is given is a balanced, full selection of it      *)
(* (_parse_trace, load_policy_generation_evidence, _select_balanced).      *)
THEOREM EvidenceIsSound == ReadSpec => []EvidenceSound
<1>1. ReadInv => EvidenceSound
  <2>1. CASE BeingWritten
    BY <2>1, SoundEvidence, SoundSelects DEF ReadInv, EvidenceSound
  <2>2. CASE ~BeingWritten
    BY <2>2, Zenon DEF EvidenceSound, EvidenceIsHuman, SelectionIsBalanced
  <2> QED BY <2>1, <2>2
<1> QED BY <1>1, TraceIsRead, PTL

(* Every Tool call of a Trace is one case of a replay, with its recorded   *)
(* evaluation if it has one (load_before_tool_replay_cases).               *)
THEOREM ReplayCovers == ReadSpec => []ReplayCoversCalls
<1>1. ReadInv => ReplayCoversCalls
  BY SoundCovers, Zenon DEF ReadInv, ReplayCoversCalls
<1> QED BY <1>1, TraceIsRead, PTL
=============================================================================
