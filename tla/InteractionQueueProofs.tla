----------------------- MODULE InteractionQueueProofs -----------------------
(***************************************************************************)
(* Safety of the interaction queue for every set of inputs, every capacity *)
(* and Turn budget, any number of Runs and cancellations.                  *)
(*                                                                         *)
(* The argument has two layers.  What the controller promises (an empty    *)
(* sealed queue, a bounded one) needs to know when items are out of both   *)
(* queues, and that is what LockDiscipline says about the holder of        *)
(* _operation_lock (IInv).  On top of it, FlowInv follows the inputs: the  *)
(* positions they get, the order in which they stand in a queue, a drain   *)
(* and the context, and what their hosts have been told.                   *)
(***************************************************************************)
EXTENDS InteractionQueue, SequenceTheorems, TLAPS

Safe == LockDiscipline /\ SealedQueueIsEmpty /\ CapacityRespected

IInv == TypeOK /\ Safe

-----------------------------------------------------------------------------
(* Facts about the sequences the lock and the deques are made of.          *)

(* Taking the head of a lock queue leaves a lock queue.                    *)
LEMMA TailType ==
    ASSUME NEW S, NEW s \in Seq(S), s # <<>>
    PROVE  Tail(s) \in Seq(S) /\ Len(Tail(s)) = Len(s) - 1
  BY HeadTailProperties

(* The two halves of a drain: what is taken and what stays.                *)
LEMMA SplitType ==
    ASSUME NEW S, NEW s \in Seq(S), NEW n \in 0 .. Len(s)
    PROVE  /\ SubSeq(s, 1, n) \in Seq(S)
           /\ SubSeq(s, n + 1, Len(s)) \in Seq(S)
           /\ Len(SubSeq(s, 1, n)) = n
           /\ Len(SubSeq(s, n + 1, Len(s))) = Len(s) - n
  <1>1. Len(s) \in Nat
    BY LenProperties
  <1>2. /\ SubSeq(s, 1, n) \in Seq(S)
        /\ Len(SubSeq(s, 1, n)) = n
    BY <1>1, SubSeqProperties
  <1>3. /\ SubSeq(s, n + 1, Len(s)) \in Seq(S)
        /\ Len(SubSeq(s, n + 1, Len(s))) = Len(s) - n
    BY <1>1, SubSeqProperties
  <1> QED BY <1>2, <1>3

(* A rolled-back admission shortens its queue by one.                      *)
LEMMA DropLastType ==
    ASSUME NEW S, NEW s \in Seq(S)
    PROVE  DropLast(s) \in Seq(S) /\ Len(DropLast(s)) <= Len(s)
  <1>1. Len(s) \in Nat
    BY LenProperties
  <1>2. CASE Len(s) > 0
    BY <1>1, <1>2, SplitType DEF DropLast
  <1>3. CASE Len(s) = 0
    <2>1. SubSeq(s, 1, Len(s) - 1) = <<>>
      BY <1>3
    <2> QED BY <2>1, <1>3, EmptySeq, LenProperties DEF DropLast
  <1> QED BY <1>1, <1>2, <1>3

(* A task that leaves the lock's queue leaves a queue of the others.       *)
LEMMA WithoutRunType ==
    ASSUME NEW S, ops \in Seq(S)
    PROVE  WithoutRun \in Seq(S)
  <1>1. CASE RunAt = {}
    BY <1>1 DEF WithoutRun
  <1>2. CASE RunAt # {}
    <2> DEFINE k == CHOOSE j \in RunAt : TRUE
    <2>1. k \in 1 .. Len(ops)
      BY <1>2 DEF RunAt
    <2>2. WithoutRun = Without(ops, k)
      BY <1>2 DEF WithoutRun
    <2> HIDE DEF k
    <2>3. Len(ops) \in Nat
      BY LenProperties
    <2>4. k - 1 \in 0 .. Len(ops) /\ k \in 0 .. Len(ops)
      BY <2>1, <2>3
    <2>5. SubSeq(ops, 1, k - 1) \in Seq(S)
      BY <2>4, SplitType
    <2>6. SubSeq(ops, k + 1, Len(ops)) \in Seq(S)
      BY <2>4, SplitType
    <2>7. Without(ops, k) \in Seq(S)
      BY <2>5, <2>6, ConcatProperties DEF Without
    <2> QED BY <2>2, <2>7
  <1> QED BY <1>1, <1>2


(* The items of a drain in progress are inputs.                            *)
LEMMA TakenItems ==
    ASSUME LockType
    PROVE  /\ taken \in Seq(Inputs)
           /\ taken # <<>> => Head(taken) \in Inputs
           /\ Len(taken) > 1 => taken[2] \in Inputs
  <1>1. taken \in Seq(Inputs)
    <2>1. Kind(source) \subseteq Inputs
      BY DEF LockType, Kind, Inputs
    <2> QED BY <2>1, SeqMonotonic DEF LockType
  <1>2. taken # <<>> => Head(taken) \in Inputs
    BY <1>1, HeadTailProperties
  <1>3. Len(taken) > 1 => taken[2] \in Inputs
    <2>1. Len(taken) \in Nat
      BY <1>1, LenProperties
    <2> QED BY <1>1, <2>1, ElementOfSeq
  <1> QED BY <1>1, <1>2, <1>3

(* The Run may queue for the lock whoever holds it.                        *)
LEMMA RunAppended ==
    ASSUME LockType
    PROVE  /\ Append(ops, Run) \in Seq(Inputs \cup {Run})
           /\ ops # <<>> => Append(Tail(ops), Run) \in Seq(Inputs \cup {Run})
  BY TailType, AppendProperties DEF LockType

(* A drain takes at least one item and at most the whole queue.            *)
LEMMA DrainSplit ==
    ASSUME NEW S, NEW q \in Seq(S), q # <<>>, S \subseteq Inputs, NEW m
    PROVE  /\ Count(m, q) \in 1 .. Len(q)
           /\ SubSeq(q, 1, Count(m, q)) \in Seq(S)
           /\ SubSeq(q, Count(m, q) + 1, Len(q)) \in Seq(S)
           /\ Len(SubSeq(q, 1, Count(m, q))) = Count(m, q)
           /\ Len(SubSeq(q, Count(m, q) + 1, Len(q))) = Len(q) - Count(m, q)
           /\ q[1] \in Inputs
  <1>1. Len(q) \in Nat \ {0}
    BY EmptySeq, LenProperties
  <1>2. Count(m, q) \in 1 .. Len(q)
    BY <1>1 DEF Count
  <1>3. Count(m, q) \in 0 .. Len(q)
    BY <1>2, <1>1
  <1>4. q \in Seq(Inputs)
    BY SeqMonotonic
  <1>5. q[1] \in Inputs
    BY <1>1, <1>4, ElementOfSeq
  <1>6. /\ SubSeq(q, 1, Count(m, q)) \in Seq(S)
        /\ Len(SubSeq(q, 1, Count(m, q))) = Count(m, q)
    BY <1>3, SplitType
  <1>7. /\ SubSeq(q, Count(m, q) + 1, Len(q)) \in Seq(S)
        /\ Len(SubSeq(q, Count(m, q) + 1, Len(q))) = Len(q) - Count(m, q)
    BY <1>3, SplitType
  <1> QED BY <1>2, <1>5, <1>6, <1>7

-----------------------------------------------------------------------------
(* A step that leaves a group of variables alone keeps its types.          *)
LEMMA TypeFrame ==
    ASSUME IInv
    PROVE  /\ UNCHANGED queueVars => QueueType'
           /\ UNCHANGED lockVars => LockType'
           /\ UNCHANGED runVars => RunType'
           /\ UNCHANGED histVars => HistType'
  <1>1. UNCHANGED queueVars => QueueType'
    BY DEF IInv, Safe, TypeOK, QueueType, queueVars
  <1>2. UNCHANGED lockVars => LockType'
    BY DEF IInv, Safe, TypeOK, LockType, Kind, lockVars
  <1>3. UNCHANGED runVars => RunType'
    BY DEF IInv, Safe, TypeOK, RunType, runVars
  <1>4. UNCHANGED histVars => HistType'
    BY DEF IInv, Safe, TypeOK, HistType, histVars
  <1> QED BY <1>1, <1>2, <1>3, <1>4

(* Every step of Next keeps the types.                                     *)
LEMMA TypeStep ==
    ASSUME IInv, Next
    PROVE  TypeOK'
  <1> USE DEF Holds, Release, AtSafePoint, LoopReturns, LoopRaises, Reported, Inputs, Run,
              queueVars, lockVars, runVars, histVars
  <1>1. ASSUME NEW i \in Inputs, AdmitCall(i) PROVE TypeOK'
    <2>1. QueueType' /\ RunType' /\ HistType'
      BY <1>1, TypeFrame DEF AdmitCall
    <2>2. LockType'
      BY <1>1, RunAppended, TailType
      DEF IInv, Safe, TypeOK, LockType, LockDiscipline, AdmitCall
    <2> QED BY <2>1, <2>2 DEF TypeOK
  <1>2. ASSUME NEW i \in Inputs, AdmitRejected(i) PROVE TypeOK'
    <2>1. QueueType' /\ RunType' /\ HistType'
      BY <1>2, TypeFrame DEF AdmitRejected
    <2>2. LockType'
      BY <1>2, RunAppended, TailType
      DEF IInv, Safe, TypeOK, LockType, LockDiscipline, AdmitRejected
    <2> QED BY <2>1, <2>2 DEF TypeOK
  <1>3. ASSUME NEW i \in Inputs, AdmitQueue(i) PROVE TypeOK'
    <2>1. RunType'
      BY <1>3, TypeFrame DEF AdmitQueue
    <2>2. QueueType'
      <3>1. CASE i \in Steers
        BY SMTT(30), <1>3, <3>1, AppendProperties DEF IInv, Safe, TypeOK, QueueType, AdmitQueue,
           Enqueue
      <3>2. CASE i \in FollowUps
        BY <1>3, <3>2, QueueAssumption, AppendProperties
        DEF IInv, Safe, TypeOK, QueueType, AdmitQueue, Enqueue
      <3> QED BY <3>1, <3>2
    <2>3. LockType'
      BY <1>3, RunAppended, TailType
      DEF IInv, Safe, TypeOK, LockType, LockDiscipline, AdmitQueue
    <2>4. HistType'
      BY SMTT(30), <1>3, QueueAssumption
      DEF IInv, Safe, TypeOK, HistType, LockDiscipline, AdmitQueue, QueueType, RunType
    <2> QED BY <2>1, <2>2, <2>3, <2>4 DEF TypeOK
  <1>4. ASSUME NEW i \in Inputs, AdmitAcknowledged(i) PROVE TypeOK'
    <2>1. QueueType' /\ RunType'
      BY <1>4, TypeFrame DEF AdmitAcknowledged
    <2>2. LockType'
      BY <1>4, RunAppended, TailType
      DEF IInv, Safe, TypeOK, LockType, LockDiscipline, AdmitAcknowledged
    <2>3. HistType'
      BY <1>4
      DEF IInv, Safe, TypeOK, HistType, LockDiscipline, AdmitAcknowledged
    <2> QED BY <2>1, <2>2, <2>3 DEF TypeOK
  <1>5. ASSUME NEW i \in Inputs, AdmitRolledBack(i) PROVE TypeOK'
    <2>1. RunType'
      BY <1>5, TypeFrame DEF AdmitRolledBack
    <2>2. QueueType'
      BY <1>5, DropLastType
      DEF IInv, Safe, TypeOK, QueueType, LockDiscipline, AdmitRolledBack
    <2>3. LockType'
      BY <1>5, RunAppended, TailType
      DEF IInv, Safe, TypeOK, LockType, LockDiscipline, AdmitRolledBack
    <2>4. HistType'
      BY <1>5
      DEF IInv, Safe, TypeOK, HistType, LockDiscipline, AdmitRolledBack, NoPos
    <2> QED BY <2>1, <2>2, <2>3, <2>4 DEF TypeOK
  <1>6. ASSUME Open PROVE TypeOK'
    <2>1. LockType' /\ HistType'
      BY <1>6, TypeFrame DEF Open
    <2>2. QueueType'
      BY <1>6
      DEF IInv, Safe, TypeOK, QueueType, LockDiscipline, Open
    <2>3. RunType'
      <3>1. turn' \in 0 .. MaxTurns /\ runs' \in 0 .. MaxRuns
        BY <1>6, QueueAssumption DEF IInv, Safe, TypeOK, RunType, Open
      <3> QED BY <1>6, <3>1 DEF IInv, Safe, TypeOK, RunType, Open
    <2> QED BY <2>1, <2>2, <2>3 DEF TypeOK
  <1>7. ASSUME StartDone PROVE TypeOK'
    <2>1. QueueType' /\ HistType'
      BY <1>7, TypeFrame DEF StartDone
    <2>2. LockType'
      BY <1>7, RunAppended, TailType
      DEF IInv, Safe, TypeOK, LockType, LockDiscipline, StartDone
    <2>3. RunType'
      BY <1>7, QueueAssumption
      DEF IInv, Safe, TypeOK, RunType, LockDiscipline, StartDone, TerminalReasons,
          GracefulReasons
    <2> QED BY <2>1, <2>2, <2>3 DEF TypeOK
  <1>8. ASSUME NEW t \in BOOLEAN, TurnEnd(t) PROVE TypeOK'
    <2>1. QueueType' /\ HistType'
      BY <1>8, TypeFrame DEF TurnEnd
    <2>2. LockType'
      BY <1>8, TailType, RunAppended
      DEF IInv, Safe, TypeOK, LockType, LockDiscipline, TurnEnd
    <2>3. RunType'
      BY <1>8, QueueAssumption
      DEF IInv, Safe, TypeOK, RunType, LockDiscipline, TurnEnd, TerminalReasons,
          GracefulReasons, BudgetSpent
    <2> QED BY <2>1, <2>2, <2>3 DEF TypeOK
  <1>9. ASSUME TurnFails PROVE TypeOK'
    <2>1. QueueType' /\ HistType'
      BY <1>9, TypeFrame DEF TurnFails
    <2>2. LockType'
      BY <1>9, TailType, RunAppended
      DEF IInv, Safe, TypeOK, LockType, LockDiscipline, TurnFails
    <2>3. RunType'
      BY <1>9, QueueAssumption
      DEF IInv, Safe, TypeOK, RunType, LockDiscipline, TurnFails, TerminalReasons,
          GracefulReasons
    <2> QED BY <2>1, <2>2, <2>3 DEF TypeOK
  <1>10. ASSUME Abort PROVE TypeOK'
    <2>1. QueueType' /\ LockType' /\ HistType'
      BY <1>10, TypeFrame DEF Abort
    <2>2. RunType'
      BY <1>10, QueueAssumption
      DEF IInv, Safe, TypeOK, RunType, LockDiscipline, Abort
    <2> QED BY <2>1, <2>2 DEF TypeOK
  <1>11. ASSUME Cancel PROVE TypeOK'
    <2>1. QueueType' /\ HistType'
      BY <1>11, TypeFrame DEF Cancel
    <2>2. LockType'
      BY <1>11, TailType, RunAppended
      DEF IInv, Safe, TypeOK, LockType, LockDiscipline, Cancel
    <2>3. RunType'
      BY <1>11, QueueAssumption
      DEF IInv, Safe, TypeOK, RunType, LockDiscipline, Cancel
    <2> QED BY <2>1, <2>2, <2>3 DEF TypeOK
  <1>12. ASSUME ForceCancel PROVE TypeOK'
    <2>1. QueueType'
      BY <1>12, TypeFrame DEF ForceCancel
    <2>2. LockType'
      BY <1>12, WithoutRunType, AppendProperties, RunAppended, TailType
      DEF IInv, Safe, TypeOK, LockType, LockDiscipline, ForceCancel
    <2>3. RunType'
      BY <1>12, QueueAssumption
      DEF IInv, Safe, TypeOK, RunType, LockDiscipline, ForceCancel
    <2>4. HistType'
      BY <1>12
      DEF IInv, Safe, TypeOK, HistType, LockDiscipline, ForceCancel
    <2> QED BY <2>1, <2>2, <2>3, <2>4 DEF TypeOK
  <1>13. ASSUME Commit PROVE TypeOK'
    <2>1. QueueType' /\ LockType' /\ HistType'
      BY <1>13, TypeFrame DEF Commit
    <2>2. RunType'
      BY <1>13, QueueAssumption
      DEF IInv, Safe, TypeOK, RunType, LockDiscipline, Commit, TerminalReasons,
          GracefulReasons
    <2> QED BY <2>1, <2>2 DEF TypeOK
  <1>14. ASSUME MonitorSettled PROVE TypeOK'
    <2>1. QueueType' /\ HistType'
      BY <1>14, TypeFrame DEF MonitorSettled
    <2>2. LockType'
      BY <1>14, RunAppended, TailType
      DEF IInv, Safe, TypeOK, LockType, LockDiscipline, MonitorSettled
    <2>3. RunType'
      BY <1>14, QueueAssumption
      DEF IInv, Safe, TypeOK, RunType, LockDiscipline, MonitorSettled
    <2> QED BY <2>1, <2>2, <2>3 DEF TypeOK
  <1>15. ASSUME CancelEnding PROVE TypeOK'
    <2>1. QueueType' /\ HistType'
      BY <1>15, TypeFrame DEF CancelEnding
    <2>2. LockType'
      BY <1>15, WithoutRunType, AppendProperties, RunAppended, TailType
      DEF IInv, Safe, TypeOK, LockType, LockDiscipline, CancelEnding
    <2>3. RunType'
      BY <1>15, QueueAssumption
      DEF IInv, Safe, TypeOK, RunType, LockDiscipline, CancelEnding
    <2> QED BY <2>1, <2>2, <2>3 DEF TypeOK
  <1>16. ASSUME DrainSteering PROVE TypeOK'
    <2>1. QueueType'
      BY <1>16, DrainSplit
      DEF IInv, Safe, TypeOK, QueueType, LockDiscipline, DrainSteering, Take
    <2>2. LockType'
      <3>1. SubSeq(steering, 1, Count(mode.steer, steering)) \in Seq(Steers)
        BY <1>16, DrainSplit DEF IInv, Safe, TypeOK, QueueType, DrainSteering
      <3> QED BY <1>16, <3>1 DEF IInv, Safe, TypeOK, LockType, DrainSteering, Take, Kind
    <2>3. RunType'
      BY <1>16, QueueAssumption
      DEF IInv, Safe, TypeOK, RunType, LockDiscipline, DrainSteering, Take
    <2>4. HistType'
      <3>1. steering[1] \in Inputs
        BY <1>16, DrainSplit DEF IInv, Safe, TypeOK, QueueType, DrainSteering
      <3>2. delivered' \in [Inputs -> Nat]
        BY <1>16, <3>1 DEF IInv, Safe, TypeOK, HistType, DrainSteering, Take
      <3> QED BY <1>16, <3>2 DEF IInv, Safe, TypeOK, HistType, DrainSteering
    <2> QED BY <2>1, <2>2, <2>3, <2>4 DEF TypeOK
  <1>17. ASSUME NoSteering PROVE TypeOK'
    <2>1. QueueType' /\ HistType'
      BY <1>17, TypeFrame DEF NoSteering
    <2>2. LockType'
      BY <1>17, TailType, RunAppended
      DEF IInv, Safe, TypeOK, LockType, LockDiscipline, NoSteering
    <2>3. RunType'
      BY <1>17, QueueAssumption
      DEF IInv, Safe, TypeOK, RunType, LockDiscipline, NoSteering
    <2> QED BY <2>1, <2>2, <2>3 DEF TypeOK
  <1>18. ASSUME DrainFollowUp PROVE TypeOK'
    <2>1. QueueType'
      BY <1>18, DrainSplit
      DEF IInv, Safe, TypeOK, QueueType, LockDiscipline, DrainFollowUp, Take
    <2>2. LockType'
      <3>1. SubSeq(followUp, 1, Count(mode.follow_up, followUp)) \in Seq(FollowUps)
        BY <1>18, DrainSplit DEF IInv, Safe, TypeOK, QueueType, DrainFollowUp
      <3> QED BY <1>18, <3>1 DEF IInv, Safe, TypeOK, LockType, DrainFollowUp, Take, Kind
    <2>3. RunType'
      BY <1>18, QueueAssumption
      DEF IInv, Safe, TypeOK, RunType, LockDiscipline, DrainFollowUp, Take
    <2>4. HistType'
      <3>1. followUp[1] \in Inputs
        BY <1>18, DrainSplit DEF IInv, Safe, TypeOK, QueueType, DrainFollowUp
      <3>2. delivered' \in [Inputs -> Nat]
        BY <1>18, <3>1 DEF IInv, Safe, TypeOK, HistType, DrainFollowUp, Take
      <3> QED BY <1>18, <3>2 DEF IInv, Safe, TypeOK, HistType, DrainFollowUp
    <2> QED BY <2>1, <2>2, <2>3, <2>4 DEF TypeOK
  <1>19. ASSUME GateEnds PROVE TypeOK'
    <2>1. HistType'
      BY <1>19, TypeFrame DEF GateEnds
    <2>2. QueueType'
      BY <1>19
      DEF IInv, Safe, TypeOK, QueueType, LockDiscipline, GateEnds
    <2>3. LockType'
      BY <1>19, RunAppended, TailType
      DEF IInv, Safe, TypeOK, LockType, LockDiscipline, GateEnds
    <2>4. RunType'
      BY <1>19, QueueAssumption
      DEF IInv, Safe, TypeOK, RunType, LockDiscipline, GateEnds
    <2> QED BY <2>1, <2>2, <2>3, <2>4 DEF TypeOK
  <1>20. ASSUME DeliverAppend PROVE TypeOK'
    <2>1. QueueType' /\ RunType'
      BY <1>20, TypeFrame DEF DeliverAppend
    <2>2. LockType'
      BY <1>20, RunAppended, TailType
      DEF IInv, Safe, TypeOK, LockType, LockDiscipline, DeliverAppend
    <2>3. HistType'
      <3>1. Head(taken) \in Inputs
        BY <1>20, TakenItems DEF IInv, Safe, LockDiscipline, TypeOK, DeliverAppend
      <3> QED BY <1>20, <3>1, AppendProperties DEF IInv, Safe, TypeOK, HistType,
                 DeliverAppend
    <2> QED BY <2>1, <2>2, <2>3 DEF TypeOK
  <1>21. ASSUME DeliverNext PROVE TypeOK'
    <2>1. QueueType' /\ RunType'
      BY <1>21, TypeFrame DEF DeliverNext
    <2>2. LockType'
      BY <1>21, RunAppended, TailType
      DEF IInv, Safe, TypeOK, LockType, LockDiscipline, DeliverNext
    <2>3. HistType'
      <3>1. taken[2] \in Inputs
        BY <1>21, TakenItems DEF IInv, Safe, TypeOK, DeliverNext
      <3>2. delivered' \in [Inputs -> Nat]
        BY <1>21, <3>1 DEF IInv, Safe, TypeOK, HistType, DeliverNext
      <3> QED BY <1>21, <3>2 DEF IInv, Safe, TypeOK, HistType, DeliverNext
    <2> QED BY <2>1, <2>2, <2>3 DEF TypeOK
  <1>22. ASSUME DeliverLast PROVE TypeOK'
    <2>1. QueueType' /\ HistType'
      BY <1>22, TypeFrame DEF DeliverLast
    <2>2. LockType'
      BY <1>22, RunAppended, TailType
      DEF IInv, Safe, TypeOK, LockType, LockDiscipline, DeliverLast
    <2>3. RunType'
      BY <1>22, QueueAssumption
      DEF IInv, Safe, TypeOK, RunType, LockDiscipline, DeliverLast
    <2> QED BY <2>1, <2>2, <2>3 DEF TypeOK
  <1>23. ASSUME DeliverFails PROVE TypeOK'
    <2>1. QueueType'
      <3>1. CASE source = "steer"
        <4>1. PutBack(steering) \in Seq(Steers)
          BY <3>1, ConcatProperties DEF IInv, Safe, TypeOK, QueueType, LockType, PutBack,
             Kind
        <4> QED BY <1>23, <3>1, <4>1 DEF IInv, Safe, TypeOK, QueueType, DeliverFails
      <3>2. CASE source = "follow_up"
        <4>1. PutBack(followUp) \in Seq(FollowUps)
          BY <3>2, ConcatProperties DEF IInv, Safe, TypeOK, QueueType, LockType, PutBack,
             Kind
        <4> QED BY <1>23, <3>2, <4>1 DEF IInv, Safe, TypeOK, QueueType, DeliverFails
      <3> QED BY <3>1, <3>2 DEF IInv, Safe, TypeOK, LockType
    <2>2. LockType'
      <3>1. <<>> \in Seq(Kind(source'))
        BY EmptySeq
      <3> QED BY <1>23, <3>1, RunAppended, TailType DEF IInv, Safe, TypeOK, LockType,
                 DeliverFails
    <2>3. RunType'
      BY <1>23, QueueAssumption
      DEF IInv, Safe, TypeOK, RunType, LockDiscipline, DeliverFails, TerminalReasons,
          GracefulReasons
    <2>4. HistType'
      BY <1>23
      DEF IInv, Safe, TypeOK, HistType, LockDiscipline, DeliverFails
    <2> QED BY <2>1, <2>2, <2>3, <2>4 DEF TypeOK
  <1>24. ASSUME SealClears PROVE TypeOK'
    <2>1. RunType'
      BY <1>24, TypeFrame DEF SealClears
    <2>2. QueueType'
      BY <1>24
      DEF IInv, Safe, TypeOK, QueueType, LockDiscipline, SealClears, EmptyQueue
    <2>3. LockType'
      BY <1>24, RunAppended, TailType
      DEF IInv, Safe, TypeOK, LockType, LockDiscipline, SealClears
    <2>4. HistType'
      <3>1. cleared' \in [Inputs -> Nat]
        BY <1>24 DEF IInv, Safe, TypeOK, HistType, SealClears
      <3>2. SealReason \in TerminalReasons \cup GracefulReasons
        BY <1>24 DEF IInv, Safe, TypeOK, RunType, SealClears, SealReason, TerminalReasons
      <3>3. clearedBy' \in SUBSET (TerminalReasons \cup GracefulReasons)
        BY <1>24, <3>2 DEF IInv, Safe, TypeOK, HistType, SealClears
      <3> QED BY <1>24, <3>1, <3>3 DEF IInv, Safe, TypeOK, HistType, SealClears
    <2> QED BY <2>1, <2>2, <2>3, <2>4 DEF TypeOK
  <1>25. ASSUME SealDone PROVE TypeOK'
    <2>1. QueueType' /\ HistType'
      BY <1>25, TypeFrame DEF SealDone
    <2>2. LockType'
      <3>1. ops' \in Seq(Inputs \cup {Run})
        BY <1>25, RunAppended, TailType DEF IInv, Safe, TypeOK, LockType, SealDone
      <3> QED BY <1>25, <3>1 DEF IInv, Safe, TypeOK, LockType, SealDone
    <2>3. RunType'
      BY <1>25, QueueAssumption
      DEF IInv, Safe, TypeOK, RunType, LockDiscipline, SealDone, TerminalReasons,
          GracefulReasons
    <2> QED BY <2>1, <2>2, <2>3 DEF TypeOK
  <1>26. ASSUME SealListenerFails PROVE TypeOK'
    <2>1. QueueType' /\ HistType'
      BY <1>26, TypeFrame DEF SealListenerFails
    <2>2. LockType'
      BY <1>26, RunAppended, TailType
      DEF IInv, Safe, TypeOK, LockType, LockDiscipline, SealListenerFails
    <2>3. RunType'
      BY <1>26, QueueAssumption
      DEF IInv, Safe, TypeOK, RunType, LockDiscipline, SealListenerFails, TerminalReasons,
          GracefulReasons
    <2> QED BY <2>1, <2>2, <2>3 DEF TypeOK
  <1>27. ASSUME FinalInterrupted PROVE TypeOK'
    <2>1. QueueType'
      BY <1>27, TypeFrame DEF FinalInterrupted
    <2>2. LockType'
      BY <1>27, WithoutRunType, AppendProperties, RunAppended, TailType
      DEF IInv, Safe, TypeOK, LockType, LockDiscipline, FinalInterrupted
    <2>3. RunType'
      BY <1>27, QueueAssumption
      DEF IInv, Safe, TypeOK, RunType, LockDiscipline, FinalInterrupted
    <2>4. HistType'
      BY <1>27
      DEF IInv, Safe, TypeOK, HistType, LockDiscipline, FinalInterrupted
    <2> QED BY <2>1, <2>2, <2>3, <2>4 DEF TypeOK
  <1> QED BY <1>1, <1>2, <1>3, <1>4, <1>5, <1>6, <1>7, <1>8, <1>9, <1>10, <1>11, <1>12,
             <1>13, <1>14, <1>15, <1>16, <1>17, <1>18, <1>19, <1>20, <1>21, <1>22, <1>23,
             <1>24, <1>25, <1>26, <1>27 DEF Next, HostStep, TurnStep, RunStep

-----------------------------------------------------------------------------
(* Every step of Next keeps the lock discipline, an empty sealed queue and *)
(* the capacity.                                                           *)
LEMMA SafetyStep ==
    ASSUME IInv, Next, TypeOK'
    PROVE  Safe'
  <1> USE DEF Safe, Holds, Release, AtSafePoint, LoopReturns, LoopRaises, Inputs, Run,
              queueVars, lockVars, runVars, histVars
  <1>1. ASSUME NEW i \in Inputs, AdmitCall(i) PROVE Safe'
    BY <1>1 DEF IInv, Safe, TypeOK, LockType, RunType, LockDiscipline, SealedQueueIsEmpty,
                 CapacityRespected, Pending, AdmitCall
  <1>2. ASSUME NEW i \in Inputs, AdmitRejected(i) PROVE Safe'
    BY <1>2 DEF IInv, Safe, TypeOK, LockType, RunType, LockDiscipline, SealedQueueIsEmpty,
                 CapacityRespected, Pending, AdmitRejected
  <1>3. ASSUME NEW i \in Inputs, AdmitQueue(i) PROVE Safe'
    <2>1. LockDiscipline'
      BY <1>3
      DEF IInv, Safe, TypeOK, LockDiscipline, LockType, RunType, AdmitQueue, QueueType
    <2>2. SealedQueueIsEmpty'
      BY <1>3
      DEF IInv, Safe, TypeOK, LockDiscipline, SealedQueueIsEmpty, AdmitQueue
    <2>3. CapacityRespected'
      <3>1. Len(taken) = 0 /\ Len(taken') = 0
        BY <1>3, EmptySeq DEF IInv, Safe, LockDiscipline, AdmitQueue
      <3>2. Len(steering) \in Nat /\ Len(followUp) \in Nat
        BY LenProperties DEF IInv, Safe, TypeOK, QueueType
      <3>3. \/ Len(steering') = Len(steering) + 1 /\ followUp' = followUp
            \/ Len(followUp') = Len(followUp) + 1 /\ steering' = steering
        BY <1>3, AppendProperties DEF IInv, Safe, TypeOK, QueueType, AdmitQueue, Enqueue
      <3>4. Len(steering) + Len(followUp) < MaxPending
        BY <1>3 DEF AdmitQueue, HasRoom, Pending
      <3> QED BY <3>1, <3>2, <3>3, <3>4, QueueAssumption DEF CapacityRespected, Pending
    <2> QED BY <2>1, <2>2, <2>3
  <1>4. ASSUME NEW i \in Inputs, AdmitAcknowledged(i) PROVE Safe'
    BY <1>4 DEF IInv, Safe, TypeOK, LockType, RunType, LockDiscipline, SealedQueueIsEmpty,
                 CapacityRespected, Pending, AdmitAcknowledged
  <1>5. ASSUME NEW i \in Inputs, AdmitRolledBack(i) PROVE Safe'
    <2>1. LockDiscipline'
      BY <1>5
      DEF IInv, Safe, TypeOK, LockDiscipline, LockType, RunType, AdmitRolledBack
    <2>2. SealedQueueIsEmpty'
      BY <1>5
      DEF IInv, Safe, TypeOK, LockDiscipline, SealedQueueIsEmpty, AdmitRolledBack
    <2>3. CapacityRespected'
      BY <1>5, QueueAssumption, DropLastType, LenProperties, EmptySeq
      DEF IInv, Safe, TypeOK, LockDiscipline, CapacityRespected, Pending, AdmitRolledBack,
          QueueType, LockType
    <2> QED BY <2>1, <2>2, <2>3
  <1>6. ASSUME Open PROVE Safe'
    BY <1>6 DEF IInv, Safe, TypeOK, LockType, RunType, LockDiscipline, SealedQueueIsEmpty,
                 CapacityRespected, Pending, Open
  <1>7. ASSUME StartDone PROVE Safe'
    BY <1>7 DEF IInv, Safe, TypeOK, LockType, RunType, LockDiscipline, SealedQueueIsEmpty,
                 CapacityRespected, Pending, StartDone
  <1>8. ASSUME NEW t \in BOOLEAN, TurnEnd(t) PROVE Safe'
    <2>1. LockDiscipline'
      BY <1>8, QueueAssumption
      DEF IInv, Safe, TypeOK, LockDiscipline, LockType, RunType, TurnEnd, BudgetSpent
    <2>2. SealedQueueIsEmpty'
      BY <1>8
      DEF IInv, Safe, TypeOK, LockDiscipline, SealedQueueIsEmpty, TurnEnd
    <2>3. CapacityRespected'
      BY <1>8
      DEF IInv, Safe, TypeOK, LockDiscipline, CapacityRespected, Pending, TurnEnd
    <2> QED BY <2>1, <2>2, <2>3
  <1>9. ASSUME TurnFails PROVE Safe'
    BY <1>9 DEF IInv, Safe, TypeOK, LockType, RunType, LockDiscipline, SealedQueueIsEmpty,
                 CapacityRespected, Pending, TurnFails
  <1>10. ASSUME Abort PROVE Safe'
    BY <1>10 DEF IInv, Safe, TypeOK, LockType, RunType, LockDiscipline, SealedQueueIsEmpty,
                 CapacityRespected, Pending, Abort
  <1>11. ASSUME Cancel PROVE Safe'
    <2>1. LockDiscipline'
      BY <1>11
      DEF IInv, Safe, TypeOK, LockDiscipline, LockType, RunType, Cancel, HasRaised
    <2>2. SealedQueueIsEmpty'
      BY <1>11
      DEF IInv, Safe, TypeOK, LockDiscipline, SealedQueueIsEmpty, Cancel
    <2>3. CapacityRespected'
      BY <1>11
      DEF IInv, Safe, TypeOK, LockDiscipline, CapacityRespected, Pending, Cancel
    <2> QED BY <2>1, <2>2, <2>3
  <1>12. ASSUME ForceCancel PROVE Safe'
    <2>1. LockDiscipline'
      BY <1>12
      DEF IInv, Safe, TypeOK, LockDiscipline, LockType, RunType, ForceCancel
    <2>2. SealedQueueIsEmpty'
      BY <1>12
      DEF IInv, Safe, TypeOK, LockDiscipline, SealedQueueIsEmpty, ForceCancel
    <2>3. CapacityRespected'
      BY <1>12, QueueAssumption, EmptySeq, LenProperties
      DEF IInv, Safe, TypeOK, LockDiscipline, CapacityRespected, Pending, ForceCancel,
          QueueType, LockType
    <2> QED BY <2>1, <2>2, <2>3
  <1>13. ASSUME Commit PROVE Safe'
    BY <1>13 DEF IInv, Safe, TypeOK, LockType, RunType, LockDiscipline, SealedQueueIsEmpty,
                 CapacityRespected, Pending, Commit
  <1>14. ASSUME MonitorSettled PROVE Safe'
    BY <1>14 DEF IInv, Safe, TypeOK, LockType, RunType, LockDiscipline, SealedQueueIsEmpty,
                 CapacityRespected, Pending, MonitorSettled
  <1>15. ASSUME CancelEnding PROVE Safe'
    BY <1>15 DEF IInv, Safe, TypeOK, LockType, RunType, LockDiscipline, SealedQueueIsEmpty,
                 CapacityRespected, Pending, CancelEnding
  <1>16. ASSUME DrainSteering PROVE Safe'
    <2>1. LockDiscipline'
      <3>1. /\ Len(SubSeq(steering, 1, Count(mode.steer, steering))) > 0
            /\ SubSeq(steering, 1, Count(mode.steer, steering)) \in Seq(Steers)
        BY <1>16, DrainSplit, LenProperties DEF IInv, Safe, TypeOK, QueueType, DrainSteering
      <3>2. taken' # <<>>
        BY <1>16, <3>1, EmptySeq DEF DrainSteering, Take
      <3> QED BY <1>16, <3>2 DEF IInv, Safe, LockDiscipline, TypeOK, RunType,
                 DrainSteering, Take
    <2>2. SealedQueueIsEmpty'
      BY <1>16 DEF IInv, Safe, TypeOK, SealedQueueIsEmpty, DrainSteering, Take
    <2>3. CapacityRespected'
      <3>1. /\ Count(mode.steer, steering) \in 1 .. Len(steering)
            /\ Len(taken') = Count(mode.steer, steering)
            /\ Len(steering') = Len(steering) - Count(mode.steer, steering)
        BY <1>16, DrainSplit DEF IInv, Safe, TypeOK, QueueType, DrainSteering, Take
      <3>2. Len(steering) \in Nat /\ Len(followUp) \in Nat /\ Len(taken) = 0
        BY <1>16, LenProperties, EmptySeq
        DEF IInv, Safe, TypeOK, QueueType, LockDiscipline, DrainSteering
      <3>3. followUp' = followUp
        BY <1>16 DEF DrainSteering
      <3> QED BY <3>1, <3>2, <3>3, QueueAssumption DEF IInv, Safe, CapacityRespected,
                 Pending
    <2> QED BY <2>1, <2>2, <2>3
  <1>17. ASSUME NoSteering PROVE Safe'
    BY <1>17 DEF IInv, Safe, TypeOK, LockType, RunType, LockDiscipline, SealedQueueIsEmpty,
                 CapacityRespected, Pending, NoSteering
  <1>18. ASSUME DrainFollowUp PROVE Safe'
    <2>1. LockDiscipline'
      <3>1. /\ Len(SubSeq(followUp, 1, Count(mode.follow_up, followUp))) > 0
            /\ SubSeq(followUp, 1, Count(mode.follow_up, followUp)) \in Seq(FollowUps)
        BY <1>18, DrainSplit, LenProperties DEF IInv, Safe, TypeOK, QueueType, DrainFollowUp
      <3>2. taken' # <<>>
        BY <1>18, <3>1, EmptySeq DEF DrainFollowUp, Take
      <3> QED BY <1>18, <3>2 DEF IInv, Safe, LockDiscipline, TypeOK, RunType,
                 DrainFollowUp, Take
    <2>2. SealedQueueIsEmpty'
      BY <1>18 DEF IInv, Safe, TypeOK, SealedQueueIsEmpty, DrainFollowUp, Take
    <2>3. CapacityRespected'
      <3>1. /\ Count(mode.follow_up, followUp) \in 1 .. Len(followUp)
            /\ Len(taken') = Count(mode.follow_up, followUp)
            /\ Len(followUp') = Len(followUp) - Count(mode.follow_up, followUp)
        BY <1>18, DrainSplit DEF IInv, Safe, TypeOK, QueueType, DrainFollowUp, Take
      <3>2. Len(followUp) \in Nat /\ Len(steering) \in Nat /\ Len(taken) = 0
        BY <1>18, LenProperties, EmptySeq
        DEF IInv, Safe, TypeOK, QueueType, LockDiscipline, DrainFollowUp
      <3>3. steering' = steering
        BY <1>18 DEF DrainFollowUp
      <3> QED BY <3>1, <3>2, <3>3, QueueAssumption DEF IInv, Safe, CapacityRespected,
                 Pending
    <2> QED BY <2>1, <2>2, <2>3
  <1>19. ASSUME GateEnds PROVE Safe'
    <2>1. LockDiscipline'
      BY <1>19
      DEF IInv, Safe, TypeOK, LockDiscipline, LockType, RunType, GateEnds
    <2>2. SealedQueueIsEmpty'
      BY <1>19, EmptySeq
      DEF IInv, Safe, TypeOK, LockDiscipline, SealedQueueIsEmpty, GateEnds,
          SteeringPending, QueueType, LockType
    <2>3. CapacityRespected'
      BY <1>19
      DEF IInv, Safe, TypeOK, LockDiscipline, CapacityRespected, Pending, GateEnds
    <2> QED BY <2>1, <2>2, <2>3
  <1>20. ASSUME DeliverAppend PROVE Safe'
    BY <1>20 DEF IInv, Safe, TypeOK, LockType, RunType, LockDiscipline, SealedQueueIsEmpty,
                 CapacityRespected, Pending, DeliverAppend
  <1>21. ASSUME DeliverNext PROVE Safe'
    <2>1. LockDiscipline'
      <3>1. taken \in Seq(Inputs) /\ Len(taken) > 1
        BY <1>21, TakenItems DEF IInv, Safe, TypeOK, DeliverNext
      <3>2. taken # <<>>
        BY <3>1, EmptySeq
      <3>3. taken' # <<>>
        <4>1. /\ Tail(taken) \in Seq(Inputs)
              /\ Len(taken) \in Nat /\ Len(Tail(taken)) = Len(taken) - 1
          BY <3>1, <3>2, TailType, LenProperties
        <4>2. Len(Tail(taken)) # 0
          BY <3>1, <4>1
        <4>3. Tail(taken) # <<>>
          BY <4>1, <4>2, EmptySeq, Zenon
        <4> QED BY <1>21, <4>3 DEF DeliverNext
      <3> QED BY <1>21, <3>2, <3>3 DEF IInv, Safe, LockDiscipline, DeliverNext
    <2>2. SealedQueueIsEmpty'
      BY <1>21
      DEF IInv, Safe, TypeOK, LockDiscipline, SealedQueueIsEmpty, DeliverNext
    <2>3. CapacityRespected'
      BY <1>21, QueueAssumption, TakenItems, TailType, EmptySeq, LenProperties
      DEF IInv, Safe, TypeOK, LockDiscipline, CapacityRespected, Pending, DeliverNext,
          QueueType, LockType
    <2> QED BY <2>1, <2>2, <2>3
  <1>22. ASSUME DeliverLast PROVE Safe'
    <2>1. LockDiscipline'
      BY <1>22
      DEF IInv, Safe, TypeOK, LockDiscipline, LockType, RunType, DeliverLast
    <2>2. SealedQueueIsEmpty'
      BY <1>22
      DEF IInv, Safe, TypeOK, LockDiscipline, SealedQueueIsEmpty, DeliverLast
    <2>3. CapacityRespected'
      BY <1>22, QueueAssumption, EmptySeq, LenProperties
      DEF IInv, Safe, TypeOK, LockDiscipline, CapacityRespected, Pending, DeliverLast,
          QueueType, LockType
    <2> QED BY <2>1, <2>2, <2>3
  <1>23. ASSUME DeliverFails PROVE Safe'
    <2>1. LockDiscipline'
      BY <1>23
      DEF IInv, Safe, TypeOK, LockDiscipline, LockType, RunType, DeliverFails
    <2>2. SealedQueueIsEmpty'
      BY <1>23
      DEF IInv, Safe, TypeOK, LockDiscipline, SealedQueueIsEmpty, DeliverFails
    <2>3. CapacityRespected'
      BY <1>23, QueueAssumption, ConcatProperties, LenProperties, EmptySeq
      DEF IInv, Safe, TypeOK, LockDiscipline, CapacityRespected, Pending, DeliverFails,
          PutBack, QueueType, LockType
    <2> QED BY <2>1, <2>2, <2>3
  <1>24. ASSUME SealClears PROVE Safe'
    <2>1. LockDiscipline'
      BY <1>24
      DEF IInv, Safe, TypeOK, LockDiscipline, LockType, RunType, SealClears
    <2>2. SealedQueueIsEmpty'
      BY <1>24
      DEF IInv, Safe, TypeOK, LockDiscipline, SealedQueueIsEmpty, SealClears, EmptyQueue
    <2>3. CapacityRespected'
      BY <1>24, QueueAssumption, EmptySeq, LenProperties
      DEF IInv, Safe, TypeOK, LockDiscipline, CapacityRespected, Pending, SealClears,
          EmptyQueue, LockType
    <2> QED BY <2>1, <2>2, <2>3
  <1>25. ASSUME SealDone PROVE Safe'
    BY <1>25 DEF IInv, Safe, TypeOK, LockType, RunType, LockDiscipline, SealedQueueIsEmpty,
                 CapacityRespected, Pending, SealDone
  <1>26. ASSUME SealListenerFails PROVE Safe'
    BY <1>26 DEF IInv, Safe, TypeOK, LockType, RunType, LockDiscipline, SealedQueueIsEmpty,
                 CapacityRespected, Pending, SealListenerFails
  <1>27. ASSUME FinalInterrupted PROVE Safe'
    BY <1>27 DEF IInv, Safe, TypeOK, LockType, RunType, LockDiscipline, SealedQueueIsEmpty,
                 CapacityRespected, Pending, FinalInterrupted
  <1> QED BY <1>1, <1>2, <1>3, <1>4, <1>5, <1>6, <1>7, <1>8, <1>9, <1>10, <1>11, <1>12,
             <1>13, <1>14, <1>15, <1>16, <1>17, <1>18, <1>19, <1>20, <1>21, <1>22, <1>23,
             <1>24, <1>25, <1>26, <1>27 DEF Next, HostStep, TurnStep, RunStep

-----------------------------------------------------------------------------
(* IInv is an invariant of the specification.                              *)
THEOREM Invariance == Spec => []IInv
  <1>1. Init => IInv
    <2> SUFFICES ASSUME Init PROVE IInv
      OBVIOUS
    <2>1. TypeOK
      <3>1. QueueType /\ LockType
        BY EmptySeq DEF Init, QueueType, LockType, Kind
      <3>2. RunType
        <4>1. turn \in 0 .. MaxTurns /\ runs \in 0 .. MaxRuns /\ cancels \in 0 .. MaxCancels
          BY QueueAssumption DEF Init
        <4> QED BY <4>1 DEF Init, RunType, TerminalReasons, GracefulReasons
      <3>3. HistType
        BY EmptySeq DEF Init, HistType, NoPos
      <3> QED BY <3>1, <3>2, <3>3 DEF TypeOK
    <2>2. LockDiscipline /\ SealedQueueIsEmpty
      BY DEF Init, LockDiscipline, SealedQueueIsEmpty
    <2>3. CapacityRespected
      BY QueueAssumption, EmptySeq DEF Init, CapacityRespected, Pending
    <2> QED BY <2>1, <2>2, <2>3 DEF IInv, Safe
  <1>2. IInv /\ [Next]_vars => IInv'
    <2>1. ASSUME IInv, Next PROVE IInv'
      BY <2>1, TypeStep, SafetyStep DEF IInv, Safe
    <2>2. ASSUME IInv, UNCHANGED vars PROVE IInv'
      <3>1. TypeOK'
        BY <2>2, TypeFrame DEF TypeOK, vars
      <3>2. LockDiscipline' /\ SealedQueueIsEmpty' /\ CapacityRespected'
        BY <2>2 DEF IInv, Safe, LockDiscipline, SealedQueueIsEmpty, CapacityRespected,
           Pending,
                    Holds, vars, queueVars, lockVars, runVars, histVars
      <3> QED BY <3>1, <3>2 DEF IInv, Safe
    <2> QED BY <2>1, <2>2
  <1> QED BY <1>1, <1>2, PTL DEF Spec

(* The types hold in every reachable state: in particular the Turn number  *)
(* of a Run never passes max_turns and a rolled-back admission never makes *)
(* a position negative.                                                    *)
THEOREM TypeCorrect == Spec => []TypeOK
  BY Invariance, PTL DEF IInv, Safe

(* The holder of _operation_lock is the only one that moves items, at a    *)
(* safe point of the Run and while admission is open.                      *)
THEOREM LockDisciplineHolds == Spec => []LockDiscipline
  BY Invariance, PTL DEF IInv, Safe

(* A sealed queue retains no item, whatever was drained, rolled back, put  *)
(* back or cancelled before, so open() never raises for residue; and an    *)
(* idle Agent is sealed unless a cancellation cut its cleanup short.       *)
THEOREM SealedQueueEmpty == Spec => []SealedQueueIsEmpty
  BY Invariance, PTL DEF IInv, Safe

(* The items held by the controller never exceed max_pending_items, those  *)
(* of a drain that may still be put back included.                         *)
THEOREM CapacityHolds == Spec => []CapacityRespected
  BY Invariance, PTL DEF IInv, Safe

(* The discipline of the controller as a whole, the property the run       *)
(* interaction_queue checks.                                               *)
THEOREM QueueDisciplined == Spec => []QueueDiscipline
  BY Invariance, PTL DEF IInv, Safe, QueueDiscipline

-----------------------------------------------------------------------------
(* Order and receipts.  What a drain takes, puts back or rolls back is     *)
(* always an end of a deque; the facts below say what that means for the   *)
(* items in it and for their positions.                                    *)

RisingBy(f, s) == \A a, b \in 1 .. Len(s) : a < b => f[s[a]][2] < f[s[b]][2]

(* The items of a queue that one item joined, or that got a drain back.    *)
LEMMA ItemsOfConcat ==
    ASSUME NEW S, NEW s \in Seq(S), NEW t \in Seq(S)
    PROVE  Items(s \o t) = Items(s) \cup Items(t)
  <1>1. /\ Len(s) \in Nat /\ Len(t) \in Nat /\ Len(s \o t) = Len(s) + Len(t)
        /\ \A k \in 1 .. Len(s) : (s \o t)[k] = s[k]
        /\ \A k \in 1 .. Len(t) : (s \o t)[Len(s) + k] = t[k]
    BY ConcatProperties, LenProperties
  <1>2. ASSUME NEW k \in 1 .. Len(s \o t) PROVE (s \o t)[k] \in Items(s) \cup Items(t)
    <2>1. CASE k <= Len(s)
      BY <1>1, <2>1 DEF Items
    <2>2. CASE k > Len(s)
      <3>1. k - Len(s) \in 1 .. Len(t) /\ Len(s) + (k - Len(s)) = k
        BY <1>1, <2>2
      <3> QED BY <1>1, <3>1 DEF Items
    <2> QED BY <1>1, <2>1, <2>2
  <1>3. ASSUME NEW k \in 1 .. Len(s) PROVE s[k] \in Items(s \o t)
    <2>1. k \in 1 .. Len(s \o t) /\ (s \o t)[k] = s[k]
      BY <1>1
    <2> QED BY <2>1 DEF Items
  <1>4. ASSUME NEW k \in 1 .. Len(t) PROVE t[k] \in Items(s \o t)
    <2>1. Len(s) + k \in 1 .. Len(s \o t) /\ (s \o t)[Len(s) + k] = t[k]
      BY <1>1
    <2> QED BY <2>1 DEF Items
  <1> QED BY <1>2, <1>3, <1>4 DEF Items

LEMMA ItemsOfAppend ==
    ASSUME NEW S, NEW s \in Seq(S), NEW x \in S
    PROVE  Items(Append(s, x)) = Items(s) \cup {x}
  <1>1. /\ Len(s) \in Nat /\ Len(Append(s, x)) = Len(s) + 1
        /\ \A k \in 1 .. Len(s) : Append(s, x)[k] = s[k]
        /\ Append(s, x)[Len(s) + 1] = x
    BY AppendProperties, LenProperties
  <1>2. 1 .. Len(Append(s, x)) = (1 .. Len(s)) \cup {Len(s) + 1}
    BY <1>1
  <1> QED BY <1>1, <1>2 DEF Items

(* The items of the two parts of a drained queue.                          *)
LEMMA ItemsOfSplit ==
    ASSUME NEW S, NEW s \in Seq(S), NEW n \in 0 .. Len(s)
    PROVE  /\ Items(SubSeq(s, 1, n)) = {s[k] : k \in 1 .. n}
           /\ Items(SubSeq(s, n + 1, Len(s))) = {s[k] : k \in n + 1 .. Len(s)}
           /\ Items(s) = {s[k] : k \in 1 .. n} \cup {s[k] : k \in n + 1 .. Len(s)}
  <1>1. Len(s) \in Nat
    BY LenProperties
  <1>2. /\ Len(SubSeq(s, 1, n)) = n
        /\ \A k \in 1 .. n : SubSeq(s, 1, n)[k] = s[k]
    BY <1>1, SubSeqProperties
  <1>3. /\ Len(SubSeq(s, n + 1, Len(s))) = Len(s) - n
        /\ \A k \in 1 .. Len(s) - n : SubSeq(s, n + 1, Len(s))[k] = s[n + k]
    <2>1. /\ Len(SubSeq(s, n + 1, Len(s))) = Len(s) - n
      BY SplitType
    <2>2. ASSUME NEW k \in 1 .. Len(s) - n PROVE SubSeq(s, n + 1, Len(s))[k] = s[n + k]
      BY <1>1, <2>2 DEF SubSeq
    <2> QED BY <2>1, <2>2
  <1>4. ASSUME NEW k \in n + 1 .. Len(s) PROVE \E j \in 1 .. Len(s) - n : n + j = k
    <2>1. k - n \in 1 .. Len(s) - n /\ n + (k - n) = k
      BY <1>1
    <2> QED BY <2>1
  <1>5. \A j \in 1 .. Len(s) - n : n + j \in n + 1 .. Len(s)
    BY <1>1
  <1>6. 1 .. Len(s) = (1 .. n) \cup (n + 1 .. Len(s))
    BY <1>1
  <1>7. Items(SubSeq(s, 1, n)) = {s[k] : k \in 1 .. n}
    BY <1>2 DEF Items
  <1>8. Items(SubSeq(s, n + 1, Len(s))) = {s[k] : k \in n + 1 .. Len(s)}
    <2> DEFINE t == SubSeq(s, n + 1, Len(s))
    <2>1. /\ Len(t) = Len(s) - n
          /\ \A k \in 1 .. Len(s) - n : t[k] = s[n + k]
      BY <1>3
    <2> HIDE DEF t
    <2>2. ASSUME NEW k \in 1 .. Len(t) PROVE t[k] \in {s[l] : l \in n + 1 .. Len(s)}
      BY <2>1, <2>2, <1>5
    <2>3. ASSUME NEW l \in n + 1 .. Len(s) PROVE s[l] \in {t[k] : k \in 1 .. Len(t)}
      BY <2>1, <2>3, <1>4
    <2>4. {t[k] : k \in 1 .. Len(t)} = {s[l] : l \in n + 1 .. Len(s)}
      BY <2>2, <2>3
    <2> QED BY <2>4 DEF t, Items
  <1>9. Items(s) = {s[k] : k \in 1 .. n} \cup {s[k] : k \in n + 1 .. Len(s)}
    BY <1>6 DEF Items
  <1> QED BY <1>7, <1>8, <1>9

(* Both parts keep the order of positions, and the first precedes the      *)
(* second.                                                                 *)
LEMMA RisingSplit ==
    ASSUME NEW S, NEW s \in Seq(S), NEW n \in 0 .. Len(s), NEW f, RisingBy(f, s)
    PROVE  /\ RisingBy(f, SubSeq(s, 1, n))
           /\ RisingBy(f, SubSeq(s, n + 1, Len(s)))
           /\ \A i \in {s[k] : k \in 1 .. n}, j \in {s[k] : k \in n + 1 .. Len(s)} :
                f[i][2] < f[j][2]
  <1>1. Len(s) \in Nat
    BY LenProperties
  <1>2. /\ Len(SubSeq(s, 1, n)) = n
        /\ \A k \in 1 .. n : SubSeq(s, 1, n)[k] = s[k]
    BY <1>1, SubSeqProperties
  <1>3. RisingBy(f, SubSeq(s, 1, n))
    <2> SUFFICES ASSUME NEW a \in 1 .. n, NEW b \in 1 .. n, a < b
                 PROVE  f[s[a]][2] < f[s[b]][2]
      BY <1>2 DEF RisingBy
    <2>1. a \in 1 .. Len(s) /\ b \in 1 .. Len(s)
      BY <1>1
    <2> QED BY <2>1 DEF RisingBy
  <1>4. /\ Len(SubSeq(s, n + 1, Len(s))) = Len(s) - n
        /\ \A k \in 1 .. Len(s) - n : SubSeq(s, n + 1, Len(s))[k] = s[n + k]
    <2>1. /\ Len(SubSeq(s, n + 1, Len(s))) = Len(s) - n
      BY SplitType
    <2>2. ASSUME NEW k \in 1 .. Len(s) - n PROVE SubSeq(s, n + 1, Len(s))[k] = s[n + k]
      BY <1>1, <2>2 DEF SubSeq
    <2> QED BY <2>1, <2>2
  <1>5. RisingBy(f, SubSeq(s, n + 1, Len(s)))
    <2> SUFFICES ASSUME NEW a \in 1 .. Len(s) - n, NEW b \in 1 .. Len(s) - n, a < b
                 PROVE  f[s[n + a]][2] < f[s[n + b]][2]
      BY <1>4 DEF RisingBy
    <2>1. n + a \in 1 .. Len(s) /\ n + b \in 1 .. Len(s) /\ n + a < n + b
      BY <1>1
    <2> QED BY <2>1 DEF RisingBy
  <1>6. ASSUME NEW k \in 1 .. n, NEW l \in n + 1 .. Len(s) PROVE f[s[k]][2] < f[s[l]][2]
    <2>1. k \in 1 .. Len(s) /\ l \in 1 .. Len(s) /\ k < l
      BY <1>1
    <2> QED BY <2>1 DEF RisingBy
  <1> QED BY <1>3, <1>5, <1>6

(* An item with a later position joins the queue at its end.               *)
LEMMA RisingAppend ==
    ASSUME NEW S, NEW s \in Seq(S), NEW x \in S, NEW f, RisingBy(f, s),
           \A i \in Items(s) : f[i][2] < f[x][2]
    PROVE  RisingBy(f, Append(s, x))
  <1>1. /\ Len(s) \in Nat /\ Len(Append(s, x)) = Len(s) + 1
        /\ \A k \in 1 .. Len(s) : Append(s, x)[k] = s[k]
        /\ Append(s, x)[Len(s) + 1] = x
    BY AppendProperties, LenProperties
  <1> SUFFICES ASSUME NEW a \in 1 .. Len(s) + 1, NEW b \in 1 .. Len(s) + 1, a < b
               PROVE  f[Append(s, x)[a]][2] < f[Append(s, x)[b]][2]
    BY <1>1 DEF RisingBy
  <1>2. a \in 1 .. Len(s) /\ Append(s, x)[a] = s[a] /\ s[a] \in Items(s)
    BY <1>1 DEF Items
  <1>3. CASE b = Len(s) + 1
    BY <1>1, <1>2, <1>3
  <1>4. CASE b \in 1 .. Len(s)
    BY <1>1, <1>2, <1>4 DEF RisingBy
  <1> QED BY <1>1, <1>3, <1>4

(* A drain that goes back to the front of the queue it came from.          *)
LEMMA RisingConcat ==
    ASSUME NEW S, NEW s \in Seq(S), NEW t \in Seq(S), NEW f, RisingBy(f, s), RisingBy(f, t),
           \A i \in Items(s), j \in Items(t) : f[i][2] < f[j][2]
    PROVE  RisingBy(f, s \o t)
  <1>1. /\ Len(s) \in Nat /\ Len(t) \in Nat /\ Len(s \o t) = Len(s) + Len(t)
        /\ \A k \in 1 .. Len(s) : (s \o t)[k] = s[k]
        /\ \A k \in 1 .. Len(t) : (s \o t)[Len(s) + k] = t[k]
    BY ConcatProperties, LenProperties
  <1> SUFFICES ASSUME NEW a \in 1 .. Len(s) + Len(t), NEW b \in 1 .. Len(s) + Len(t), a < b
               PROVE  f[(s \o t)[a]][2] < f[(s \o t)[b]][2]
    BY <1>1 DEF RisingBy
  <1>2. ASSUME NEW k \in 1 .. Len(s) + Len(t), k > Len(s)
        PROVE  k - Len(s) \in 1 .. Len(t) /\ (s \o t)[k] = t[k - Len(s)]
    <2>1. k - Len(s) \in 1 .. Len(t) /\ Len(s) + (k - Len(s)) = k
      BY <1>1, <1>2
    <2>2. (s \o t)[Len(s) + (k - Len(s))] = t[k - Len(s)]
      BY <1>1, <2>1
    <2> QED BY <2>1, <2>2
  <1>3. CASE b <= Len(s)
    BY <1>1, <1>3 DEF RisingBy
  <1>4. CASE a <= Len(s) /\ b > Len(s)
    BY <1>1, <1>2, <1>4 DEF Items
  <1>5. CASE a > Len(s)
    <2>1. /\ a - Len(s) \in 1 .. Len(t) /\ (s \o t)[a] = t[a - Len(s)]
          /\ b - Len(s) \in 1 .. Len(t) /\ (s \o t)[b] = t[b - Len(s)]
      BY <1>1, <1>2, <1>5
    <2>2. a - Len(s) < b - Len(s)
      BY <1>1
    <2> QED BY <2>1, <2>2 DEF RisingBy
  <1> QED BY SMTT(30), <1>1, <1>3, <1>4, <1>5

(* Only the positions of the items in the queue matter.                    *)
LEMMA RisingSame ==
    ASSUME NEW s, NEW f, NEW g, RisingBy(f, s), \A i \in Items(s) : g[i] = f[i]
    PROVE  RisingBy(g, s)
  BY DEF RisingBy, Items

(* A rolled-back admission takes its item, the last one, out of the queue. *)
LEMMA RolledBack ==
    ASSUME NEW S, NEW s \in Seq(S), NEW f \in [S -> Nat \X Nat], RisingBy(f, s), s # <<>>
    PROVE  /\ RisingBy(f, DropLast(s)) /\ Items(DropLast(s)) = Items(s) \ {s[Len(s)]}
           /\ s[Len(s)] \in Items(s)
  <1>1. Len(s) \in Nat \ {0}
    BY EmptySeq, LenProperties
  <1> DEFINE n == Len(s) - 1
  <1>2. n \in 0 .. Len(s) /\ n + 1 .. Len(s) = {Len(s)} /\ n \in Nat
    BY <1>1
  <1>3. /\ RisingBy(f, SubSeq(s, 1, n))
        /\ \A i \in {s[k] : k \in 1 .. n}, j \in {s[k] : k \in n + 1 .. Len(s)} :
             f[i][2] < f[j][2]
    BY <1>2, RisingSplit
  <1>4. /\ Items(SubSeq(s, 1, n)) = {s[k] : k \in 1 .. n}
        /\ Items(s) = {s[k] : k \in 1 .. n} \cup {s[k] : k \in n + 1 .. Len(s)}
    BY <1>2, ItemsOfSplit
  <1>5. {s[k] : k \in n + 1 .. Len(s)} = {s[Len(s)]}
    BY <1>2
  <1>6. s[Len(s)] \in S
    BY <1>1, ElementOfSeq
  <1>7. s[Len(s)] \notin {s[k] : k \in 1 .. n}
    <2>1. f[s[Len(s)]][2] \in Nat
      BY <1>6
    <2>2. ~(f[s[Len(s)]][2] < f[s[Len(s)]][2])
      BY <2>1
    <2> QED BY <1>3, <1>5, <2>2
  <1> QED BY <1>3, <1>4, <1>5, <1>7 DEF DropLast

-----------------------------------------------------------------------------
(* The hosts in the queue of the lock.  Each has one call under way; only  *)
(* the one that waits for its listener at the head has a position.         *)
HostedBy(f, s, a) ==
    \A k \in 1 .. Len(s) : s[k] # Run =>
        /\ \A j \in 1 .. Len(s) : s[j] = s[k] => j = k
        /\ f[s[k]] = NoPos \/ (k = 1 /\ a = "queued")

HostsInv ==
    /\ HostedBy(pos, ops, await_)
    /\ await_ = "queued" => ops # <<>> /\ Head(ops) # Run

(* The Run, or a host without a position, joins the lock's queue.          *)
LEMMA HostedAppend ==
    ASSUME NEW S, NEW s \in Seq(S), NEW x \in S, NEW f, NEW a, HostedBy(f, s, a),
           x # Run => x \notin Items(s) /\ f[x] = NoPos
    PROVE  HostedBy(f, Append(s, x), a)
  <1>1. /\ Len(s) \in Nat /\ Len(Append(s, x)) = Len(s) + 1
        /\ \A k \in 1 .. Len(s) : Append(s, x)[k] = s[k]
        /\ Append(s, x)[Len(s) + 1] = x
    BY AppendProperties, LenProperties
  <1> SUFFICES ASSUME NEW k \in 1 .. Len(s) + 1, Append(s, x)[k] # Run
               PROVE  /\ \A j \in 1 .. Len(s) + 1 : Append(s, x)[j] = Append(s, x)[k] => j = k
                      /\ f[Append(s, x)[k]] = NoPos \/ (k = 1 /\ a = "queued")
    BY <1>1 DEF HostedBy
  <1>2. CASE k = Len(s) + 1
    <2>1. x # Run /\ x \notin Items(s) /\ f[x] = NoPos
      BY <1>1, <1>2
    <2>2. ASSUME NEW j \in 1 .. Len(s) + 1, Append(s, x)[j] = x PROVE j = k
      <3>1. j \notin 1 .. Len(s)
        BY <1>1, <2>1, <2>2 DEF Items
      <3> QED BY <1>1, <1>2, <3>1
    <2> QED BY <1>1, <1>2, <2>1, <2>2
  <1>3. CASE k \in 1 .. Len(s)
    <2>1. s[k] # Run /\ Append(s, x)[k] = s[k]
      BY <1>1, <1>3
    <2>2. ASSUME NEW j \in 1 .. Len(s) + 1, Append(s, x)[j] = s[k] PROVE j = k
      <3>1. j # Len(s) + 1
        BY <1>1, <1>3, <2>1, <2>2 DEF Items
      <3>2. j \in 1 .. Len(s) /\ s[j] = s[k]
        BY <1>1, <2>2, <3>1
      <3> QED BY <1>3, <2>1, <3>2 DEF HostedBy
    <2>3. f[s[k]] = NoPos \/ (k = 1 /\ a = "queued")
      BY <1>3, <2>1 DEF HostedBy
    <2> QED BY <2>1, <2>2, <2>3
  <1> QED BY <1>1, <1>2, <1>3

(* The holder releases the lock.                                           *)
LEMMA HostedTail ==
    ASSUME NEW S, NEW s \in Seq(S), s # <<>>, NEW f, NEW a, NEW b, HostedBy(f, s, a)
    PROVE  HostedBy(f, Tail(s), b)
  <1>1. Len(s) \in Nat \ {0}
    BY EmptySeq, LenProperties
  <1>2. /\ Len(Tail(s)) = Len(s) - 1
        /\ \A k \in 1 .. Len(s) - 1 : Tail(s)[k] = s[k + 1]
    BY <1>1, TailType
  <1> SUFFICES ASSUME NEW k \in 1 .. Len(s) - 1, s[k + 1] # Run
               PROVE  /\ \A j \in 1 .. Len(s) - 1 : s[j + 1] = s[k + 1] => j = k
                      /\ f[s[k + 1]] = NoPos
    BY <1>2 DEF HostedBy
  <1>3. k + 1 \in 1 .. Len(s) /\ k + 1 # 1
    BY <1>1
  <1>4. ASSUME NEW j \in 1 .. Len(s) - 1, s[j + 1] = s[k + 1] PROVE j = k
    <2>1. j + 1 \in 1 .. Len(s)
      BY <1>1
    <2>2. j + 1 = k + 1
      BY <1>3, <1>4, <2>1 DEF HostedBy
    <2> QED BY <1>1, <2>2
  <1>5. f[s[k + 1]] = NoPos
    BY <1>3 DEF HostedBy
  <1> QED BY <1>4, <1>5

(* The elements of a sequence without its k-th one.                        *)
LEMMA WithoutElements ==
    ASSUME NEW S, NEW s \in Seq(S), NEW k \in 1 .. Len(s)
    PROVE  /\ Len(Without(s, k)) = Len(s) - 1
           /\ \A j \in 1 .. Len(s) - 1 :
                Without(s, k)[j] = IF j < k THEN s[j] ELSE s[j + 1]
  <1>1. Len(s) \in Nat
    BY LenProperties
  <1>2. k - 1 \in 0 .. Len(s) /\ k \in 0 .. Len(s)
    BY <1>1
  <1> DEFINE p == SubSeq(s, 1, k - 1)
             q == SubSeq(s, k + 1, Len(s))
  <1>3. /\ p \in Seq(S) /\ Len(p) = k - 1
        /\ \A j \in 1 .. k - 1 : p[j] = s[j]
    <2>1. p \in Seq(S) /\ Len(p) = k - 1
      BY <1>2, SplitType
    <2>2. ASSUME NEW j \in 1 .. k - 1 PROVE p[j] = s[j]
      BY <1>1, <2>2 DEF SubSeq
    <2> QED BY <2>1, <2>2
  <1>4. /\ q \in Seq(S) /\ Len(q) = Len(s) - k
        /\ \A j \in 1 .. Len(s) - k : q[j] = s[k + j]
    <2>1. q \in Seq(S) /\ Len(q) = Len(s) - k
      BY <1>2, SplitType
    <2>2. ASSUME NEW j \in 1 .. Len(s) - k PROVE q[j] = s[k + j]
      BY <1>1, <2>2 DEF SubSeq
    <2> QED BY <2>1, <2>2
  <1>5. Without(s, k) = p \o q
    BY DEF Without
  <1> HIDE DEF p, q
  <1>6. /\ Len(p \o q) = Len(p) + Len(q)
        /\ \A j \in 1 .. Len(p) : (p \o q)[j] = p[j]
        /\ \A j \in 1 .. Len(q) : (p \o q)[Len(p) + j] = q[j]
    <2>1. p \in Seq(S) /\ q \in Seq(S)
      BY <1>3, <1>4
    <2> QED BY <2>1, ConcatProperties
  <1>7. Len(p \o q) = Len(s) - 1
    BY <1>1, <1>3, <1>4, <1>6
  <1>8. ASSUME NEW j \in 1 .. Len(s) - 1 PROVE (p \o q)[j] = IF j < k THEN s[j] ELSE s[j + 1]
    <2>1. CASE j < k
      BY <1>1, <1>3, <1>6, <2>1
    <2>2. CASE ~(j < k)
      <3>1. j - (k - 1) \in 1 .. Len(s) - k /\ (k - 1) + (j - (k - 1)) = j
        BY <1>1, <2>2
      <3>2. (p \o q)[j] = q[j - (k - 1)]
        BY <1>3, <1>4, <1>6, <3>1
      <3>3. k + (j - (k - 1)) = j + 1
        BY <1>1
      <3> QED BY <1>4, <2>2, <3>1, <3>2, <3>3
    <2> QED BY <2>1, <2>2
  <1> QED BY <1>5, <1>7, <1>8

(* The Run's task leaves the lock's queue, wherever it stands in it.       *)
LEMMA HostedWithoutRun ==
    ASSUME NEW S, ops \in Seq(S), NEW a, HostsInv, a = "queued" <=> await_ = "queued"
    PROVE  /\ HostedBy(pos, WithoutRun, a)
           /\ a = "queued" => WithoutRun # <<>> /\ Head(WithoutRun) = Head(ops)
  <1>1. Len(ops) \in Nat
    BY LenProperties
  <1>2. CASE RunAt = {}
    BY <1>1, <1>2 DEF WithoutRun, HostedBy, HostsInv
  <1>3. CASE RunAt # {}
    <2> DEFINE k == CHOOSE j \in RunAt : TRUE
    <2>1. k \in 1 .. Len(ops) /\ ops[k] = Run
      BY <1>3 DEF RunAt
    <2>2. WithoutRun = Without(ops, k)
      BY <1>3 DEF WithoutRun
    <2> HIDE DEF k
    <2>3. /\ Len(Without(ops, k)) = Len(ops) - 1
          /\ \A j \in 1 .. Len(ops) - 1 :
               Without(ops, k)[j] = IF j < k THEN ops[j] ELSE ops[j + 1]
      BY <2>1, WithoutElements
    <2> DEFINE At(j) == IF j < k THEN j ELSE j + 1
    <2>4. \A j \in 1 .. Len(ops) - 1 : At(j) \in 1 .. Len(ops) /\ Without(ops, k)[j] = ops[At(j)]
      BY <1>1, <2>1, <2>3
    <2>5. \A i, j \in 1 .. Len(ops) - 1 : At(i) = At(j) => i = j
      BY <1>1, <2>1
    <2>6. a = "queued" => k # 1 /\ Head(ops) = ops[1]
      BY <1>1, <2>1 DEF HostsInv
    <2>7. \A j \in 1 .. Len(ops) - 1 : At(j) = 1 => j = 1 /\ k # 1
      BY <1>1, <2>1
    <2>8. ASSUME NEW j \in 1 .. Len(ops) - 1, ops[At(j)] # Run
          PROVE  /\ \A i \in 1 .. Len(ops) - 1 : ops[At(i)] = ops[At(j)] => i = j
                 /\ pos[ops[At(j)]] = NoPos \/ (j = 1 /\ a = "queued")
      <3>1. /\ \A i \in 1 .. Len(ops) : ops[i] = ops[At(j)] => i = At(j)
            /\ pos[ops[At(j)]] = NoPos \/ (At(j) = 1 /\ await_ = "queued")
        BY <2>4, <2>8 DEF HostsInv, HostedBy
      <3> HIDE DEF At
      <3> QED BY <2>4, <2>5, <2>7, <3>1
    <2>9. HostedBy(pos, Without(ops, k), a)
      <3> DEFINE w == Without(ops, k)
      <3>1. Len(w) = Len(ops) - 1 /\ \A j \in 1 .. Len(ops) - 1 : w[j] = ops[At(j)]
        BY <2>3, <2>4
      <3> HIDE DEF w, At
      <3>2. ASSUME NEW j \in 1 .. Len(w), w[j] # Run
            PROVE  /\ \A i \in 1 .. Len(w) : w[i] = w[j] => i = j
                   /\ pos[w[j]] = NoPos \/ (j = 1 /\ a = "queued")
        BY <2>8, <3>1, <3>2
      <3> QED BY <3>2 DEF HostedBy, w
    <2>10. a = "queued" => Without(ops, k) # <<>> /\ Head(Without(ops, k)) = Head(ops)
      <3> SUFFICES ASSUME a = "queued" PROVE Without(ops, k) # <<>> /\ Head(Without(ops, k)) = Head(ops)
        OBVIOUS
      <3>1. k > 1 /\ 1 \in 1 .. Len(ops) - 1
        BY <1>1, <2>1, <2>6
      <3>2. Without(ops, k) \in Seq(S)
        BY <2>1, WithoutRunType, <2>2
      <3>3. Without(ops, k) # <<>>
        BY <1>1, <2>3, <3>1, EmptySeq
      <3>4. Without(ops, k)[1] = ops[1]
        BY <2>3, <3>1
      <3> QED BY <2>6, <3>2, <3>3, <3>4
    <2> QED BY <2>2, <2>9, <2>10
  <1> QED BY <1>2, <1>3

(* How a step may move the lock's queue without giving anybody a position. *)
LockMoves ==
    /\ pos' = pos
    /\ \/ /\ await_' = "queued" <=> await_ = "queued"
          /\ ops' \in {ops, Append(ops, Run), WithoutRun, Append(WithoutRun, Run)}
       \/ /\ ops # <<>> /\ await_' # "queued"
          /\ ops' \in {Tail(ops), Append(Tail(ops), Run)}

LEMMA HostsMove ==
    ASSUME LockType, HostsInv, LockMoves
    PROVE  HostsInv' /\ (await_' = "queued" => Head(ops') = Head(ops))
  <1> DEFINE S == Inputs \cup {Run}
  <1>1. ops \in Seq(S) /\ Run \in S /\ pos' = pos
    BY DEF LockType, LockMoves
  <1>2. CASE /\ await_' = "queued" <=> await_ = "queued"
             /\ ops' \in {ops, Append(ops, Run), WithoutRun, Append(WithoutRun, Run)}
    <2>1. HostedBy(pos, ops, await_')
      BY <1>2 DEF HostsInv, HostedBy
    <2>2. HostedBy(pos, Append(ops, Run), await_')
      BY <1>1, <2>1, HostedAppend
    <2>3. WithoutRun \in Seq(S) /\ HostedBy(pos, WithoutRun, await_')
      BY <1>1, <1>2, WithoutRunType, HostedWithoutRun
    <2>4. HostedBy(pos, Append(WithoutRun, Run), await_')
      BY <1>1, <2>3, HostedAppend
    <2>5. ASSUME await_' = "queued"
          PROVE  ops' # <<>> /\ Head(ops') # Run /\ Head(ops') = Head(ops)
      <3>1. ops # <<>> /\ Head(ops) # Run
        BY <1>2, <2>5 DEF HostsInv
      <3>2. WithoutRun # <<>> /\ Head(WithoutRun) = Head(ops)
        BY <1>1, <1>2, <2>5, HostedWithoutRun
      <3>3. \A s \in Seq(S) : s # <<>> => Append(s, Run) # <<>> /\ Head(Append(s, Run)) = Head(s)
        <4> TAKE s \in Seq(S)
        <4>1. s # <<>> => Len(s) \in Nat \ {0}
          BY EmptySeq, LenProperties
        <4>2. /\ Len(Append(s, Run)) = Len(s) + 1
              /\ \A k \in 1 .. Len(s) : Append(s, Run)[k] = s[k]
          BY <1>1, AppendProperties
        <4> QED BY <4>1, <4>2, LenProperties, EmptySeq
      <3> QED BY <1>1, <1>2, <2>3, <3>1, <3>2, <3>3
    <2> QED BY <1>1, <1>2, <2>1, <2>2, <2>3, <2>4, <2>5 DEF HostsInv
  <1>3. CASE /\ ops # <<>> /\ await_' # "queued"
             /\ ops' \in {Tail(ops), Append(Tail(ops), Run)}
    <2>1. Tail(ops) \in Seq(S) /\ HostedBy(pos, Tail(ops), await_')
      BY <1>1, <1>3, TailType, HostedTail DEF HostsInv
    <2>2. HostedBy(pos, Append(Tail(ops), Run), await_')
      BY <1>1, <2>1, HostedAppend
    <2> QED BY <1>1, <1>3, <2>1, <2>2 DEF HostsInv
  <1> QED BY <1>2, <1>3 DEF LockMoves

(* A host calls, gets a position, or loses it again.                       *)
LEMMA HostsAdmit ==
    ASSUME LockType, HostsInv, NEW i \in Inputs, pos \in [Inputs -> Nat \X Nat],
           AdmitCall(i) \/ AdmitQueue(i) \/ AdmitRolledBack(i)
    PROVE  HostsInv'
  <1> DEFINE S == Inputs \cup {Run}
  <1>1. ops \in Seq(S) /\ i \in S /\ i # Run /\ Len(ops) \in Nat
    BY QueueAssumption, LenProperties DEF LockType, Inputs, Run
  <1>2. CASE AdmitCall(i)
    <2>1. HostedBy(pos, Append(ops, i), await_)
      BY <1>1, <1>2, HostedAppend DEF AdmitCall, HostsInv
    <2>2. ops # <<>> => Append(ops, i) # <<>> /\ Head(Append(ops, i)) = Head(ops)
      <3>1. /\ Len(Append(ops, i)) = Len(ops) + 1
            /\ \A k \in 1 .. Len(ops) : Append(ops, i)[k] = ops[k]
        BY <1>1, AppendProperties
      <3>2. ops # <<>> => Len(ops) # 0
        BY <1>1, EmptySeq
      <3> QED BY <1>1, <3>1, <3>2, EmptySeq
    <2> QED BY <1>2, <2>1, <2>2 DEF AdmitCall, HostsInv, queueVars, histVars
  <1>3. ASSUME AdmitQueue(i) \/ AdmitRolledBack(i)
        PROVE  /\ Len(ops) # 0 /\ ops[1] = i /\ Head(ops) = i /\ 1 \in 1 .. Len(ops)
               /\ \A k \in 1 .. Len(ops) : k # 1 => ops[k] # i
    <2>1. ops # <<>> /\ Head(ops) = i
      BY <1>3 DEF AdmitQueue, AdmitRolledBack, Holds
    <2>2. Len(ops) # 0 /\ ops[1] = i /\ 1 \in 1 .. Len(ops)
      BY <1>1, <2>1, EmptySeq
    <2> QED BY <1>1, <2>1, <2>2 DEF HostsInv, HostedBy
  <1>4. CASE AdmitQueue(i)
    <2>1. ASSUME NEW k \in 1 .. Len(ops), ops[k] # Run
          PROVE  /\ \A j \in 1 .. Len(ops) : ops[j] = ops[k] => j = k
                 /\ pos'[ops[k]] = NoPos \/ (k = 1 /\ await_' = "queued")
      <3>1. /\ \A j \in 1 .. Len(ops) : ops[j] = ops[k] => j = k
            /\ pos[ops[k]] = NoPos
        BY <1>4, <2>1 DEF HostsInv, HostedBy, AdmitQueue
      <3>2. k # 1 => pos'[ops[k]] = pos[ops[k]]
        <4>1. ops[k] \in Inputs
          BY <1>1, <2>1, ElementOfSeq
        <4> QED BY <1>3, <1>4, <4>1 DEF AdmitQueue
      <3> QED BY <1>4, <3>1, <3>2 DEF AdmitQueue
    <2> QED BY <1>1, <1>3, <1>4, <2>1 DEF HostsInv, HostedBy, AdmitQueue
  <1>5. CASE AdmitRolledBack(i)
    <2>1. HostedBy(pos', ops, "queued")
      <3>1. ASSUME NEW k \in 1 .. Len(ops), ops[k] # Run
            PROVE  pos'[ops[k]] = NoPos
        <4>1. k = 1 \/ pos[ops[k]] = NoPos
          BY <3>1 DEF HostsInv, HostedBy
        <4>2. ops[k] \in Inputs
          BY <1>1, <3>1, ElementOfSeq
        <4> QED BY <1>3, <1>5, <4>1, <4>2 DEF AdmitRolledBack
      <3> QED BY <3>1 DEF HostsInv, HostedBy
    <2>2. HostedBy(pos', Tail(ops), await_')
      BY <1>1, <1>5, <2>1, HostedTail DEF AdmitRolledBack, Holds
    <2> QED BY <1>5, <2>2 DEF HostsInv, AdmitRolledBack, Release
  <1> QED BY <1>2, <1>4, <1>5

-----------------------------------------------------------------------------
(* The parts of the invariant behind the order of delivery and the         *)
(* receipts.  While drains are possible (Delivering) everything of this    *)
(* Run in the context precedes what is still to come.                      *)
Delivering == {"start", "initial", "turn", "steer", "gate", "limit"}
Queued == Items(steering) \cup Items(followUp)
Rest == {taken[k] : k \in 2 .. Len(taken)}
Undelivered == IF await_ = "committed" THEN Rest ELSE Items(taken)

(* An input nobody has been told about yet.                                *)
Untouched(i) == i \notin receipt /\ delivered[i] = 0 /\ cleared[i] = 0 /\ i \notin Items(context)

Joined(i) == IF i \in Steers THEN steering ELSE followUp
EndsWith(q, i) == q # <<>> /\ q[Len(q)] = i

PositionsInv ==
    /\ \A i \in Inputs : pos[i][1] <= runs /\ (pos[i][1] = runs => pos[i][2] <= position)
    /\ \A i \in Inputs : pos[i] = NoPos =>
         Untouched(i) /\ i \notin Queued /\ i \notin Items(taken)
    /\ await_ = "queued" =>
         /\ pos[Head(ops)] = <<runs, position>> /\ Untouched(Head(ops))
         /\ EndsWith(Joined(Head(ops)), Head(ops))
         /\ \A j \in Inputs \ {Head(ops)} : pos[j][1] = runs => pos[j][2] < position

LinesInv ==
    /\ RisingBy(pos, taken) /\ RisingBy(pos, steering) /\ RisingBy(pos, followUp)
    /\ \A i \in Queued \cup Items(taken) : pos[i][1] = runs
    /\ \A i \in Items(taken), j \in Queued : SameKind(i, j) => pos[i][2] < pos[j][2]
    /\ (taken # <<>> /\ source = "follow_up") => steering = <<>>

Ahead(c, x) ==
    pos[c][1] = runs /\ (SameKind(c, x) \/ x \in Steers) => pos[c][2] < pos[x][2]

OrderInv ==
    /\ DeliveryOrder
    /\ pc \in Delivering => \A c \in Items(context), x \in Queued \cup Undelivered : Ahead(c, x)

ReceiptInv ==
    ~cutShort =>
        /\ \A i \in receipt : Outcomes(i) >= 1 \/ i \in Queued \/ i \in Items(taken)
        /\ taken # <<>> => Outcomes(taken[1]) >= 1
        /\ ~listenerFailed => /\ \A i \in Inputs : Outcomes(i) <= 1
                              /\ \A i \in Queued \cup Rest : Outcomes(i) = 0

FlowInv == PositionsInv /\ LinesInv /\ OrderInv /\ ReceiptInv

(* A step that moves no item and tells nobody anything.                    *)
Quiet ==
    /\ UNCHANGED <<steering, followUp, position, taken, source, runs, context, pos, receipt,
                   delivered, cleared>>
    /\ pc' \in Delivering => pc \in Delivering
    /\ await_' = "committed" <=> await_ = "committed"
    /\ await_' = "queued" => await_ = "queued" /\ Head(ops') = Head(ops)
    /\ (cutShort => cutShort') /\ (listenerFailed => listenerFailed')

LEMMA QuietKeeps ==
    ASSUME FlowInv, Quiet
    PROVE  FlowInv'
  <1>1. PositionsInv'
    BY DEF FlowInv, Quiet, PositionsInv, Untouched, Queued, Items, Joined, EndsWith
  <1>2. LinesInv'
    BY DEF FlowInv, Quiet, LinesInv, Queued, Items, RisingBy, SameKind
  <1>3. OrderInv'
    BY DEF FlowInv, Quiet, OrderInv, Queued, Items, SameKind, DeliveryOrder, FifoPerKind,
           SteeringGoesFirst, Ahead, Undelivered, Rest
  <1>4. ReceiptInv'
    BY DEF FlowInv, Quiet, ReceiptInv, Queued, Items, Outcomes, Rest
  <1> QED BY <1>1, <1>2, <1>3, <1>4 DEF FlowInv

(* Which steps are quiet.                                                  *)
LEMMA QuietSteps ==
    ASSUME IInv, HostsInv,
           \/ StartDone \/ Commit \/ MonitorSettled \/ TurnFails \/ NoSteering \/ GateEnds
           \/ \E t \in BOOLEAN : TurnEnd(t)
           \/ SealDone \/ SealListenerFails \/ Abort \/ Cancel \/ CancelEnding
           \/ FinalInterrupted \/ UNCHANGED vars \/ \E i \in Inputs : AdmitRejected(i)
    PROVE  LockMoves /\ Quiet
  <1> USE DEF queueVars, lockVars, runVars, histVars, LoopReturns, LoopRaises, Release
  <1>1. ASSUME LockMoves, UNCHANGED <<steering, followUp, position, taken, source, runs, context,
                   pos, receipt, delivered, cleared>>,
               pc' \in Delivering => pc \in Delivering,
               await_' = "committed" <=> await_ = "committed",
               cutShort => cutShort', listenerFailed => listenerFailed'
        PROVE  Quiet
    <2>1. await_' = "queued" => await_ = "queued" /\ Head(ops') = Head(ops)
      BY <1>1, HostsMove DEF IInv, TypeOK, LockMoves
    <2> QED BY <1>1, <2>1 DEF Quiet
  <1>2. CASE StartDone
    BY <1>1, <1>2 DEF StartDone, LockMoves, Delivering
  <1>3. CASE Commit
    BY <1>1, <1>3 DEF Commit, LockMoves, Delivering
  <1>4. CASE MonitorSettled
    BY <1>1, <1>4 DEF MonitorSettled, LockMoves, Delivering
  <1>5. CASE TurnFails
    BY <1>1, <1>5 DEF TurnFails, LockMoves, Delivering
  <1>6. CASE NoSteering
    BY <1>1, <1>6 DEF NoSteering, LockMoves, Delivering, AtSafePoint, Holds
  <1>7. CASE GateEnds
    BY <1>1, <1>7 DEF GateEnds, LockMoves, Delivering, AtSafePoint, Holds
  <1>8. ASSUME NEW t \in BOOLEAN, TurnEnd(t) PROVE LockMoves /\ Quiet
    BY <1>1, <1>8 DEF TurnEnd, LockMoves, Delivering
  <1>9. CASE SealDone
    BY <1>1, <1>9 DEF SealDone, LockMoves, Delivering, Holds
  <1>10. CASE SealListenerFails
    BY <1>1, <1>10 DEF SealListenerFails, LockMoves, Delivering, Holds
  <1>11. CASE Abort
    BY <1>1, <1>11 DEF Abort, LockMoves, Delivering
  <1>12. CASE Cancel
    BY <1>1, <1>12 DEF Cancel, LockMoves, Delivering
  <1>13. CASE CancelEnding
    <2>1. await_ # "committed" /\ (Holds(Run) => await_ # "queued")
      BY <1>13 DEF IInv, Safe, LockDiscipline, CancelEnding, HostsInv, Holds
    <2> QED BY <1>1, <1>13, <2>1 DEF CancelEnding, LockMoves, Delivering
  <1>14. CASE FinalInterrupted
    <2>1. await_ # "committed" /\ (Holds(Run) => await_ # "queued")
      BY <1>14 DEF IInv, Safe, LockDiscipline, FinalInterrupted, HostsInv, Holds
    <2> QED BY <1>1, <1>14, <2>1 DEF FinalInterrupted, LockMoves, Delivering
  <1>15. CASE UNCHANGED vars
    BY <1>1, <1>15 DEF vars, LockMoves, Delivering
  <1>16. ASSUME NEW i \in Inputs, AdmitRejected(i) PROVE LockMoves /\ Quiet
    BY <1>1, <1>16 DEF AdmitRejected, LockMoves, Delivering, Holds
  <1> QED BY <1>2, <1>3, <1>4, <1>5, <1>6, <1>7, <1>8, <1>9, <1>10, <1>11, <1>12, <1>13,
             <1>14, <1>15, <1>16

(* Where the items are: each deque holds its own kind, and so does a drain.*)
LEMMA Whereabouts ==
    ASSUME TypeOK
    PROVE  /\ Items(steering) \subseteq Steers /\ Items(followUp) \subseteq FollowUps
           /\ Items(taken) \subseteq Kind(source) /\ Items(context) \subseteq Inputs
           /\ Queued \subseteq Inputs /\ Items(taken) \subseteq Inputs /\ Rest \subseteq Items(taken)
           /\ \A i \in Inputs : i \in FollowUps <=> i \notin Steers
  <1>1. ASSUME NEW S, NEW s \in Seq(S) PROVE Items(s) \subseteq S
    BY <1>1, ElementOfSeq, LenProperties DEF Items
  <1>2. Items(steering) \subseteq Steers /\ Items(followUp) \subseteq FollowUps
    BY <1>1 DEF TypeOK, QueueType
  <1>3. Items(taken) \subseteq Kind(source)
    BY <1>1 DEF TypeOK, LockType
  <1>4. Items(context) \subseteq Inputs
    BY <1>1 DEF TypeOK, HistType
  <1>5. Kind(source) \subseteq Inputs
    BY DEF Kind, Inputs
  <1>6. Rest \subseteq Items(taken)
    BY DEF Rest, Items
  <1>7. \A i \in Inputs : i \in FollowUps <=> i \notin Steers
    BY QueueAssumption DEF Inputs
  <1> QED BY <1>2, <1>3, <1>4, <1>5, <1>6, <1>7 DEF Queued, Inputs

(* An empty drain has no items.                                            *)
LEMMA NothingTaken ==
    ASSUME taken = <<>>
    PROVE  Items(taken) = {} /\ Rest = {} /\ Undelivered = {}
  BY DEF Items, Rest, Undelivered

(* admit() gives an input the next position at the end of its queue.       *)
LEMMA AdmitKeeps ==
    ASSUME IInv, HostsInv, FlowInv, NEW i \in Inputs, AdmitQueue(i)
    PROVE  FlowInv'
  <1>1. ops' = ops /\ taken' = taken /\ runs' = runs /\ position' = position + 1 /\ receipt' = receipt
        /\ delivered' = delivered /\ cleared' = cleared /\ context' = context /\ pc' = pc
        /\ await_' = "queued" /\ cutShort' = cutShort /\ listenerFailed' = listenerFailed
        /\ source' = source
    BY DEF AdmitQueue, runVars
  <1>2. ops # <<>> /\ Head(ops) = i /\ await_ = "none" /\ taken = <<>>
    BY DEF AdmitQueue, Holds, IInv, Safe, LockDiscipline
  <1>3. pos[i] = NoPos
    <2>1. Len(ops) \in Nat \ {0} /\ ops[1] = i
      BY <1>2, EmptySeq, LenProperties DEF IInv, TypeOK, LockType
    <2>2. i # Run
      BY QueueAssumption DEF Inputs, Run
    <2> QED BY <1>2, <2>1, <2>2 DEF HostsInv, HostedBy
  <1>4. Untouched(i) /\ i \notin Queued
    BY <1>3 DEF FlowInv, PositionsInv
  <1>5. /\ pos'[i] = <<runs, position + 1>>
        /\ \A j \in Inputs \ {i} : pos'[j] = pos[j]
    BY DEF AdmitQueue, IInv, TypeOK, HistType
  <1>6. /\ position \in Nat /\ runs \in Nat /\ pos \in [Inputs -> Nat \X Nat]
        /\ steering \in Seq(Steers) /\ followUp \in Seq(FollowUps)
    BY DEF IInv, TypeOK, QueueType, RunType, HistType
  <1>7. /\ Items(steering) \subseteq Steers /\ Items(followUp) \subseteq FollowUps
        /\ Queued \subseteq Inputs /\ Items(context) \subseteq Inputs
        /\ i \in FollowUps <=> i \notin Steers
    BY Whereabouts DEF IInv
  <1>8. \A j \in Queued : pos'[j] = pos[j] /\ pos[j][1] = runs /\ pos[j][2] < position + 1
    <2> TAKE j \in Queued
    <2>1. pos[j][1] = runs /\ pos[j][2] <= position /\ pos[j][2] \in Nat
      BY <1>6, <1>7 DEF FlowInv, LinesInv, PositionsInv
    <2> QED BY <1>4, <1>5, <1>6, <1>7, <2>1
  <1>9. ASSUME NEW S, NEW s \in Seq(S), NEW x \in S PROVE EndsWith(Append(s, x), x)
    <2>1. /\ Len(s) \in Nat /\ Len(Append(s, x)) = Len(s) + 1
          /\ Append(s, x)[Len(s) + 1] = x
      BY <1>9, AppendProperties, LenProperties
    <2>2. Append(s, x) # <<>>
      BY <2>1
    <2> QED BY <2>1, <2>2 DEF EndsWith
  <1>10. /\ Queued' = Queued \cup {i} /\ EndsWith(Joined(i)', i)
         /\ RisingBy(pos', steering') /\ RisingBy(pos', followUp')
    <2>1. RisingBy(pos', steering) /\ RisingBy(pos', followUp)
      BY <1>8, RisingSame DEF Queued, FlowInv, LinesInv
    <2>2. \A j \in Queued : pos'[j][2] < pos'[i][2]
      BY <1>5, <1>8
    <2>3. CASE i \in Steers
      <3>1. steering' = Append(steering, i) /\ followUp' = followUp
        BY <2>3 DEF AdmitQueue, Enqueue
      <3>2. Items(Append(steering, i)) = Items(steering) \cup {i}
        BY <1>6, <2>3, ItemsOfAppend
      <3>3. RisingBy(pos', Append(steering, i))
        BY <1>6, <2>1, <2>2, <2>3, RisingAppend DEF Queued
      <3>4. EndsWith(Append(steering, i), i)
        BY <1>6, <1>9, <2>3
      <3> QED BY <2>1, <2>3, <3>1, <3>2, <3>3, <3>4 DEF Queued, Joined
    <2>4. CASE i \notin Steers
      <3>1. followUp' = Append(followUp, i) /\ steering' = steering /\ i \in FollowUps
        BY <1>7, <2>4 DEF AdmitQueue, Enqueue
      <3>2. Items(Append(followUp, i)) = Items(followUp) \cup {i}
        BY <1>6, <3>1, ItemsOfAppend
      <3>3. RisingBy(pos', Append(followUp, i))
        BY <1>6, <2>1, <2>2, <3>1, RisingAppend DEF Queued
      <3>4. EndsWith(Append(followUp, i), i)
        BY <1>6, <1>9, <3>1
      <3> QED BY <2>1, <2>4, <3>1, <3>2, <3>3, <3>4 DEF Queued, Joined
    <2> QED BY <2>3, <2>4
  <1>11. Items(taken) = {} /\ Items(taken)' = {} /\ Rest' = {} /\ Undelivered' = {}
    BY <1>1, <1>2, NothingTaken DEF Items, Rest, Undelivered
  <1>12. PositionsInv'
    <2>1. ASSUME NEW j \in Inputs PROVE pos'[j][1] <= runs /\ (pos'[j][1] = runs => pos'[j][2] <= position + 1)
      <3>1. CASE j = i
        BY <1>5, <1>6, <3>1
      <3>2. CASE j # i
        <4>1. pos'[j] = pos[j] /\ pos[j][1] \in Nat /\ pos[j][2] \in Nat
          BY <1>5, <1>6, <3>2
        <4>2. pos[j][1] <= runs /\ (pos[j][1] = runs => pos[j][2] <= position)
          BY DEF FlowInv, PositionsInv
        <4> QED BY <1>6, <4>1, <4>2
      <3> QED BY <3>1, <3>2
    <2>2. ASSUME NEW j \in Inputs, pos'[j] = NoPos PROVE Untouched(j)' /\ j \notin Queued' /\ j \notin Items(taken)'
      <3>1. j # i
        BY <1>5, <1>6, <2>2 DEF NoPos
      <3>2. Untouched(j) /\ j \notin Queued
        BY <1>5, <2>2, <3>1 DEF FlowInv, PositionsInv
      <3> QED BY <1>1, <1>10, <1>11, <3>1, <3>2 DEF Untouched, Items
    <2>3. \A j \in Inputs \ {i} : pos'[j][1] = runs => pos'[j][2] < position + 1
      <3> SUFFICES ASSUME NEW j \in Inputs \ {i}, pos[j][1] = runs PROVE pos[j][2] < position + 1
        BY <1>5
      <3>1. pos[j][2] \in Nat /\ pos[j][2] <= position
        BY <1>6 DEF FlowInv, PositionsInv
      <3> QED BY <1>6, <3>1
    <2>4. Untouched(i)'
      BY <1>1, <1>4 DEF Untouched, Items
    <2> QED BY <1>1, <1>2, <1>5, <1>10, <2>1, <2>2, <2>3, <2>4 DEF PositionsInv
  <1>13. LinesInv'
    <2>1. RisingBy(pos', taken')
      BY <1>1, <1>2 DEF RisingBy
    <2>2. \A j \in Queued' : pos'[j][1] = runs
      BY <1>5, <1>8, <1>10
    <2> QED BY <1>1, <1>2, <1>10, <1>11, <2>1, <2>2 DEF LinesInv
  <1>14. OrderInv'
    <2>1. \A c \in Items(context) : pos'[c] = pos[c] /\ c \in Inputs
      BY <1>4, <1>5, <1>7 DEF Untouched
    <2>2. DeliveryOrder'
      <3>1. \A a \in 1 .. Len(context) : pos'[context[a]] = pos[context[a]]
        BY <2>1 DEF Items
      <3>2. FifoPerKind /\ SteeringGoesFirst
        BY DEF FlowInv, OrderInv, DeliveryOrder
      <3>3. FifoPerKind'
        BY <1>1, <3>1, <3>2 DEF FifoPerKind, SameKind
      <3>4. SteeringGoesFirst'
        BY <1>1, <3>1, <3>2 DEF SteeringGoesFirst
      <3> QED BY <3>3, <3>4 DEF DeliveryOrder
    <2>3. ASSUME pc \in Delivering, NEW c \in Items(context), NEW x \in Queued \cup {i}
          PROVE  Ahead(c, x)'
      <3>1. CASE x = i
        <4>1. pos[c][2] \in Nat /\ (pos[c][1] = runs => pos[c][2] <= position)
          BY <1>6, <2>1 DEF FlowInv, PositionsInv
        <4>2. pos[c][1] = runs => pos[c][2] < position + 1
          BY <1>6, <4>1
        <4> QED BY <1>1, <1>5, <2>1, <3>1, <4>2 DEF Ahead
      <3>2. CASE x \in Queued
        BY <1>1, <1>8, <2>1, <2>3, <3>2 DEF FlowInv, OrderInv, Ahead, SameKind
      <3> QED BY <3>1, <3>2
    <2>4. Items(context)' = Items(context)
      BY <1>1 DEF Items
    <2> QED BY <1>1, <1>10, <1>11, <2>2, <2>3, <2>4 DEF OrderInv
  <1>15. ReceiptInv'
    <2>1. Outcomes(i) = 0
      BY <1>4 DEF Untouched, Outcomes
    <2>2. \A j : Outcomes(j)' = Outcomes(j)
      BY <1>1 DEF Outcomes
    <2> QED BY <1>1, <1>2, <1>10, <1>11, <2>1, <2>2 DEF FlowInv, ReceiptInv
  <1> QED BY <1>12, <1>13, <1>14, <1>15 DEF FlowInv

(* The host whose listener is running: it has the highest position of its  *)
(* Run, at the end of its queue, and nobody has been told about it.        *)
LEMMA Admitting ==
    ASSUME IInv, FlowInv, NEW i \in Inputs, Holds(i), await_ = "queued"
    PROVE  /\ pos[i] = <<runs, position>> /\ position \in Nat \ {0} /\ pos[i] # NoPos
           /\ Untouched(i) /\ EndsWith(Joined(i), i) /\ i \in Items(Joined(i)) /\ i \in Queued
           /\ \A j \in Inputs \ {i} : pos[j][1] = runs => pos[j][2] < position
           /\ taken = <<>> /\ Joined(i) \in Seq(Inputs)
  <1>1. Head(ops) = i /\ taken = <<>>
    BY DEF Holds, IInv, Safe, LockDiscipline
  <1>2. /\ pos[i] = <<runs, position>> /\ Untouched(i) /\ EndsWith(Joined(i), i)
        /\ \A j \in Inputs \ {i} : pos[j][1] = runs => pos[j][2] < position
    BY <1>1 DEF FlowInv, PositionsInv
  <1>3. position \in Nat \ {0} /\ pos[i] # NoPos
    <2>1. position \in Nat \ {0}
      BY DEF IInv, Safe, LockDiscipline, TypeOK, QueueType
    <2> QED BY <1>2, <2>1 DEF NoPos
  <1>4. Joined(i) \in Seq(Inputs)
    <2>1. Steers \subseteq Inputs /\ FollowUps \subseteq Inputs
      BY DEF Inputs
    <2>2. steering \in Seq(Inputs) /\ followUp \in Seq(Inputs)
      BY <2>1, SeqMonotonic DEF IInv, TypeOK, QueueType
    <2> QED BY <2>2 DEF Joined
  <1>5. i \in Items(Joined(i))
    <2>1. Len(Joined(i)) \in Nat \ {0}
      BY <1>2, <1>4, EmptySeq, LenProperties DEF EndsWith
    <2> QED BY <1>2, <2>1 DEF Items, EndsWith
  <1> QED BY <1>1, <1>2, <1>3, <1>4, <1>5 DEF Joined, Queued

(* admit() returns its receipt.                                            *)
LEMMA AcknowledgedKeeps ==
    ASSUME IInv, FlowInv, NEW i \in Inputs, AdmitAcknowledged(i)
    PROVE  FlowInv'
  <1>1. /\ UNCHANGED <<steering, followUp, position, taken, source, runs, context, pos, delivered,
                       cleared, pc, cutShort, listenerFailed>>
        /\ receipt' = receipt \cup {i} /\ await_ = "queued" /\ await_' = "none" /\ Holds(i)
    BY DEF AdmitAcknowledged, queueVars, runVars
  <1>2. pos[i] # NoPos /\ i \in Queued /\ taken = <<>>
    BY <1>1, Admitting
  <1>3. PositionsInv'
    BY <1>1, <1>2 DEF FlowInv, PositionsInv, Untouched, Queued, Items
  <1>4. LinesInv'
    BY SMTT(30), <1>1 DEF FlowInv, LinesInv, Queued, Items, RisingBy, SameKind
  <1>5. OrderInv'
    BY <1>1, <1>2 DEF FlowInv, OrderInv, Queued, Items, SameKind, DeliveryOrder, FifoPerKind,
           SteeringGoesFirst, Ahead, Undelivered, Rest
  <1>6. ReceiptInv'
    BY <1>1, <1>2 DEF FlowInv, ReceiptInv, Queued, Items, Outcomes, Rest
  <1> QED BY <1>3, <1>4, <1>5, <1>6 DEF FlowInv

(* The listener of interaction_queued raised: exactly this input leaves    *)
(* its queue and may be submitted again.                                   *)
LEMMA RollbackKeeps ==
    ASSUME IInv, FlowInv, NEW i \in Inputs, AdmitRolledBack(i)
    PROVE  FlowInv'
  <1>1. /\ UNCHANGED <<taken, source, runs, context, receipt, delivered, cleared, pc, cutShort,
                       listenerFailed>>
        /\ position' = position - 1 /\ await_ = "queued" /\ await_' = "none" /\ Holds(i)
    BY DEF AdmitRolledBack, runVars
  <1>2. /\ pos[i] = <<runs, position>> /\ position \in Nat \ {0} /\ pos[i] # NoPos
        /\ Untouched(i) /\ EndsWith(Joined(i), i) /\ i \in Items(Joined(i)) /\ i \in Queued
        /\ \A j \in Inputs \ {i} : pos[j][1] = runs => pos[j][2] < position
        /\ taken = <<>> /\ Joined(i) \in Seq(Inputs)
    BY <1>1, Admitting
  <1>3. pos'[i] = NoPos /\ \A j \in Inputs \ {i} : pos'[j] = pos[j]
    BY DEF AdmitRolledBack, IInv, TypeOK, HistType
  <1>4. pos \in [Inputs -> Nat \X Nat] /\ runs \in Nat
    BY DEF IInv, TypeOK, HistType, RunType
  <1>5. /\ RisingBy(pos, DropLast(Joined(i))) /\ Items(DropLast(Joined(i))) = Items(Joined(i)) \ {i}
    <2>1. RisingBy(pos, Joined(i)) /\ Joined(i) # <<>> /\ Joined(i)[Len(Joined(i))] = i
      BY <1>2 DEF Joined, FlowInv, LinesInv, EndsWith
    <2> QED BY <1>2, <1>4, <2>1, RolledBack
  <1>6. /\ Items(steering) \subseteq Steers /\ Items(followUp) \subseteq FollowUps
        /\ Queued \subseteq Inputs /\ Items(context) \subseteq Inputs
        /\ i \in FollowUps <=> i \notin Steers
    BY Whereabouts DEF IInv
  <1>7. /\ Queued' = Queued \ {i}
        /\ RisingBy(pos, steering') /\ RisingBy(pos, followUp')
    <2>1. CASE i \in Steers
      <3>1. steering' = DropLast(Joined(i)) /\ followUp' = followUp /\ Joined(i) = steering
        BY <2>1 DEF AdmitRolledBack, Joined
      <3>2. Items(steering') = Items(steering) \ {i} /\ Items(followUp') = Items(followUp) \ {i}
        BY <1>5, <1>6, <2>1, <3>1
      <3>3. RisingBy(pos, steering') /\ RisingBy(pos, followUp')
        BY <1>5, <3>1 DEF FlowInv, LinesInv
      <3> QED BY <3>2, <3>3 DEF Queued, Items
    <2>2. CASE i \notin Steers
      <3>1. followUp' = DropLast(Joined(i)) /\ steering' = steering /\ Joined(i) = followUp
        BY <2>2 DEF AdmitRolledBack, Joined
      <3>2. Items(steering') = Items(steering) \ {i} /\ Items(followUp') = Items(followUp) \ {i}
        BY <1>5, <1>6, <2>2, <3>1
      <3>3. RisingBy(pos, steering') /\ RisingBy(pos, followUp')
        BY <1>5, <3>1 DEF FlowInv, LinesInv
      <3> QED BY <3>2, <3>3 DEF Queued, Items
    <2> QED BY <2>1, <2>2
  <1>8. RisingBy(pos', steering') /\ RisingBy(pos', followUp')
    <2>1. \A j \in Queued' : pos'[j] = pos[j]
      BY <1>3, <1>6, <1>7
    <2>2. Items(steering') \subseteq Queued' /\ Items(followUp') \subseteq Queued'
      BY DEF Queued, Items
    <2> QED BY <1>7, <2>1, <2>2, RisingSame
  <1>9. Items(taken) = {} /\ Items(taken)' = {} /\ Rest' = {} /\ Undelivered' = {} /\ Undelivered = {}
    BY <1>1, <1>2, NothingTaken DEF Items, Rest, Undelivered
  <1>10. PositionsInv'
    <2>1. ASSUME NEW j \in Inputs PROVE pos'[j][1] <= runs /\ (pos'[j][1] = runs => pos'[j][2] <= position - 1)
      <3>1. CASE j = i
        BY <1>2, <1>3, <1>4, <3>1 DEF NoPos
      <3>2. CASE j # i
        <4>1. pos'[j] = pos[j] /\ pos[j][1] \in Nat /\ pos[j][2] \in Nat
          BY <1>3, <1>4, <3>2
        <4>2. pos[j][1] <= runs /\ (pos[j][1] = runs => pos[j][2] < position)
          BY <1>2, <3>2 DEF FlowInv, PositionsInv
        <4> QED BY <1>2, <1>4, <4>1, <4>2
      <3> QED BY <3>1, <3>2
    <2>2. ASSUME NEW j \in Inputs, pos'[j] = NoPos PROVE Untouched(j)' /\ j \notin Queued' /\ j \notin Items(taken)'
      <3>1. Untouched(j) /\ j \notin Queued'
        BY <1>2, <1>3, <1>7, <2>2 DEF FlowInv, PositionsInv
      <3> QED BY <1>1, <1>9, <3>1 DEF Untouched, Items
    <2> QED BY <1>1, <2>1, <2>2 DEF PositionsInv
  <1>11. LinesInv'
    <2>1. RisingBy(pos', taken')
      BY <1>1, <1>2 DEF RisingBy
    <2>2. \A j \in Queued' : pos'[j][1] = runs
      BY <1>3, <1>6, <1>7 DEF FlowInv, LinesInv
    <2> QED BY <1>1, <1>2, <1>8, <1>9, <2>1, <2>2 DEF LinesInv
  <1>12. OrderInv'
    <2>1. \A c \in Items(context) : pos'[c] = pos[c]
      BY <1>2, <1>3, <1>6 DEF Untouched
    <2>2. DeliveryOrder'
      <3>1. \A a \in 1 .. Len(context) : pos'[context[a]] = pos[context[a]]
        BY <2>1 DEF Items
      <3>2. FifoPerKind /\ SteeringGoesFirst
        BY DEF FlowInv, OrderInv, DeliveryOrder
      <3>3. FifoPerKind'
        BY <1>1, <3>1, <3>2 DEF FifoPerKind, SameKind
      <3>4. SteeringGoesFirst'
        BY <1>1, <3>1, <3>2 DEF SteeringGoesFirst
      <3> QED BY <3>3, <3>4 DEF DeliveryOrder
    <2>3. \A x \in Queued' : pos'[x] = pos[x] /\ x \in Queued
      BY <1>3, <1>6, <1>7
    <2>4. ASSUME pc \in Delivering, NEW c \in Items(context), NEW x \in Queued' PROVE Ahead(c, x)'
      BY <1>1, <2>1, <2>3, <2>4 DEF FlowInv, OrderInv, Ahead, SameKind
    <2>5. Items(context)' = Items(context)
      BY <1>1 DEF Items
    <2> QED BY <1>1, <1>9, <2>2, <2>4, <2>5 DEF OrderInv
  <1>13. ReceiptInv'
    <2>1. \A j : Outcomes(j)' = Outcomes(j)
      BY <1>1 DEF Outcomes
    <2>2. i \notin receipt
      BY <1>2 DEF Untouched
    <2> QED BY <1>1, <1>2, <1>7, <1>9, <2>1, <2>2 DEF FlowInv, ReceiptInv
  <1> QED BY <1>10, <1>11, <1>12, <1>13 DEF FlowInv

(* open(): the queue is empty, and positions of earlier Runs never compare *)
(* with those of the new one.                                              *)
LEMMA OpenKeeps ==
    ASSUME IInv, HostsInv, FlowInv, Open
    PROVE  FlowInv'
  <1>1. /\ UNCHANGED <<steering, followUp, taken, source, context, pos, receipt, delivered, cleared,
                       cutShort, listenerFailed, await_, ops>>
        /\ position' = 0 /\ runs' = runs + 1
    BY DEF Open, lockVars, histVars
  <1>2. steering = <<>> /\ followUp = <<>> /\ taken = <<>> /\ await_ # "queued"
    BY DEF Open, IInv, Safe, SealedQueueIsEmpty, LockDiscipline
  <1>3. Queued = {} /\ Items(taken) = {} /\ Rest = {} /\ Undelivered = {}
    BY <1>2, NothingTaken DEF Queued, Items
  <1>4. Queued' = {} /\ Items(taken)' = {} /\ Rest' = {} /\ Undelivered' = {}
    BY <1>1, <1>2 DEF Queued, Items, Rest, Undelivered
  <1>5. pos \in [Inputs -> Nat \X Nat] /\ runs \in Nat
    BY DEF IInv, TypeOK, HistType, RunType
  <1>6. PositionsInv'
    <2>1. ASSUME NEW j \in Inputs PROVE pos[j][1] <= runs + 1 /\ pos[j][1] # runs + 1
      <3>1. pos[j][1] \in Nat /\ pos[j][1] <= runs
        BY <1>5 DEF FlowInv, PositionsInv
      <3> QED BY <1>5, <3>1
    <2>2. \A j \in Inputs : pos[j] = NoPos => Untouched(j)'
      BY <1>1 DEF FlowInv, PositionsInv, Untouched, Items
    <2> QED BY <1>1, <1>2, <1>4, <2>1, <2>2 DEF PositionsInv
  <1>7. LinesInv'
    BY <1>1, <1>2, <1>4 DEF LinesInv, RisingBy
  <1>8. OrderInv'
    BY <1>1, <1>4 DEF FlowInv, OrderInv, DeliveryOrder, FifoPerKind, SteeringGoesFirst, SameKind
  <1>9. ReceiptInv'
    BY <1>1, <1>2, <1>3, <1>4 DEF FlowInv, ReceiptInv, Outcomes
  <1> QED BY <1>6, <1>7, <1>8, <1>9 DEF FlowInv

(* The end of a drain, whole or cut off by the second cancellation.        *)
LEMMA DrainEnds ==
    ASSUME IInv, FlowInv,
           UNCHANGED <<steering, followUp, position, runs, context, pos, receipt, delivered,
                       cleared>>,
           taken' = <<>>, await_' # "committed",
           await_' = "queued" => await_ = "queued" /\ Head(ops') = Head(ops),
           pc' \in Delivering => pc \in Delivering,
           cutShort => cutShort', listenerFailed' = listenerFailed,
           Len(taken) > 1 => cutShort', cutShort' \/ Items(taken) \subseteq {taken[1]}
    PROVE  FlowInv'
  <1>1. Items(taken') = {} /\ Rest' = {} /\ Undelivered' = {}
    BY DEF Items, Rest, Undelivered
  <1>2. Queued' = Queued
    BY DEF Queued, Items
  <1>3. PositionsInv'
    BY <1>1, <1>2 DEF FlowInv, PositionsInv, Untouched, Items, Joined, EndsWith
  <1>4. LinesInv'
    BY <1>1, <1>2 DEF FlowInv, LinesInv, RisingBy, SameKind
  <1>5. OrderInv'
    <2>1. DeliveryOrder'
      BY DEF FlowInv, OrderInv, DeliveryOrder, FifoPerKind, SteeringGoesFirst, SameKind
    <2>2. pc' \in Delivering => \A c \in Items(context), x \in Queued : Ahead(c, x)'
      BY DEF FlowInv, OrderInv, Ahead, SameKind
    <2>3. Items(context)' = Items(context)
      BY DEF Items
    <2> QED BY <1>1, <1>2, <2>1, <2>2, <2>3 DEF OrderInv
  <1>6. ReceiptInv'
    <2> SUFFICES ASSUME ~cutShort' PROVE ReceiptInv'
      BY DEF ReceiptInv
    <2>1. \A j : Outcomes(j)' = Outcomes(j)
      BY DEF Outcomes
    <2>2. ASSUME NEW j \in receipt PROVE Outcomes(j) >= 1 \/ j \in Queued
      <3>1. CASE j \in Items(taken)
        <4>1. taken # <<>> /\ j = taken[1]
          BY <3>1, NothingTaken
        <4> QED BY <4>1 DEF FlowInv, ReceiptInv
      <3>2. CASE j \notin Items(taken)
        BY <3>2 DEF FlowInv, ReceiptInv
      <3> QED BY <3>1, <3>2
    <2>3. ~listenerFailed => /\ \A j \in Inputs : Outcomes(j) <= 1
                             /\ \A j \in Queued : Outcomes(j) = 0
      BY DEF FlowInv, ReceiptInv
    <2> QED BY <1>1, <1>2, <2>1, <2>2, <2>3 DEF ReceiptInv
  <1> QED BY <1>3, <1>4, <1>5, <1>6 DEF FlowInv

(* The last item of a drain is in the context, or the second cancellation  *)
(* took the rest of it away.                                               *)
LEMMA EndKeeps ==
    ASSUME IInv, HostsInv, FlowInv, DeliverLast \/ ForceCancel
    PROVE  HostsInv' /\ FlowInv'
  <1> USE DEF Delivering
  <1>1. CASE DeliverLast
    <2>1. LockMoves
      BY <1>1 DEF DeliverLast, LockMoves, Holds, Release, histVars
    <2>2. Items(taken) \subseteq {taken[1]} /\ ~(Len(taken) > 1)
      BY <1>1 DEF DeliverLast, Items
    <2>3. pc \in Delivering
      BY <1>1 DEF DeliverLast, IInv, Safe, LockDiscipline
    <2>4. FlowInv'
      BY <1>1, <2>2, <2>3, DrainEnds DEF DeliverLast, queueVars, histVars
    <2> QED BY <2>1, <2>4, HostsMove DEF IInv, TypeOK
  <1>2. CASE ForceCancel
    <2>1. LockMoves
      <3>1. Holds(Run) => await_ # "queued"
        BY DEF HostsInv, Holds
      <3> QED BY <1>2, <3>1 DEF ForceCancel, LockMoves
    <2>2. HostsInv' /\ (await_' = "queued" => Head(ops') = Head(ops))
      BY <2>1, HostsMove DEF IInv, TypeOK
    <2>3. await_' # "committed" /\ (await_' = "queued" => await_ = "queued")
      BY <1>2 DEF ForceCancel, IInv, Safe, LockDiscipline
    <2>4. cutShort' \/ (Items(taken) \subseteq {taken[1]} /\ ~(Len(taken) > 1))
      <3>1. taken = <<>> => Items(taken) = {} /\ ~(Len(taken) > 1)
        BY NothingTaken, EmptySeq
      <3> QED BY <1>2, <3>1 DEF ForceCancel
    <2>5. FlowInv'
      BY <1>2, <2>2, <2>3, <2>4, DrainEnds DEF ForceCancel, queueVars
    <2> QED BY <2>2, <2>5
  <1> QED BY <1>1, <1>2

(* seal(): every pending item is announced as cleared, once.               *)
LEMMA SealKeeps ==
    ASSUME IInv, HostsInv, FlowInv, SealClears
    PROVE  HostsInv' /\ FlowInv'
  <1>1. /\ UNCHANGED <<ops, taken, source, runs, position, context, pos, receipt, delivered, pc,
                       cutShort, listenerFailed>>
        /\ steering' = <<>> /\ followUp' = <<>> /\ await_ = "none" /\ await_' \in {"none", "cleared"}
    BY DEF SealClears, EmptyQueue, runVars, AtSafePoint
  <1>2. taken = <<>>
    BY <1>1 DEF IInv, Safe, LockDiscipline
  <1>3. \A i \in Inputs : cleared'[i] = cleared[i] + (IF i \in Queued THEN 1 ELSE 0)
    BY DEF SealClears, Queued
  <1>4. /\ delivered \in [Inputs -> Nat] /\ cleared \in [Inputs -> Nat] /\ receipt \subseteq Inputs
        /\ Queued \subseteq Inputs
    BY Whereabouts DEF IInv, TypeOK, HistType
  <1>5. Items(taken) = {} /\ Items(taken)' = {} /\ Rest = {} /\ Rest' = {} /\ Undelivered' = {}
        /\ Queued' = {}
    BY <1>1, <1>2, NothingTaken DEF Items, Rest, Undelivered, Queued
  <1>6. HostsInv'
    BY <1>1 DEF HostsInv, HostedBy
  <1>7. PositionsInv'
    <2>1. ASSUME NEW i \in Inputs, pos[i] = NoPos PROVE Untouched(i)'
      BY <1>1, <1>3, <1>4, <2>1 DEF FlowInv, PositionsInv, Untouched, Items
    <2> QED BY <1>1, <1>5, <2>1 DEF FlowInv, PositionsInv
  <1>8. LinesInv'
    BY <1>1, <1>2, <1>5 DEF LinesInv, RisingBy
  <1>9. OrderInv'
    BY <1>1, <1>5 DEF FlowInv, OrderInv, DeliveryOrder, FifoPerKind, SteeringGoesFirst, SameKind
  <1>10. ReceiptInv'
    <2> SUFFICES ASSUME ~cutShort PROVE ReceiptInv'
      BY <1>1 DEF ReceiptInv
    <2>1. \A i \in Inputs : /\ Outcomes(i) \in Nat
                            /\ Outcomes(i)' = Outcomes(i) + (IF i \in Queued THEN 1 ELSE 0)
      BY <1>1, <1>3, <1>4 DEF Outcomes
    <2>2. \A i \in receipt : Outcomes(i)' >= 1
      BY <1>4, <1>5, <2>1 DEF FlowInv, ReceiptInv
    <2>3. ~listenerFailed => \A i \in Inputs : Outcomes(i)' <= 1
      BY <2>1 DEF FlowInv, ReceiptInv
    <2> QED BY <1>1, <1>2, <1>5, <2>2, <2>3 DEF ReceiptInv
  <1> QED BY <1>6, <1>7, <1>8, <1>9, <1>10 DEF FlowInv

(* One more announcement of a delivery.                                    *)
LEMMA Announce ==
    ASSUME NEW x \in Inputs, delivered \in [Inputs -> Nat], cleared \in [Inputs -> Nat],
           delivered' = [delivered EXCEPT ![x] = @ + 1], cleared' = cleared
    PROVE  /\ \A i \in Inputs : Outcomes(i) \in Nat /\ (i # x => Outcomes(i)' = Outcomes(i))
           /\ Outcomes(x)' = Outcomes(x) + 1
  <1>1. /\ delivered'[x] = delivered[x] + 1
        /\ \A i \in Inputs : i # x => delivered'[i] = delivered[i]
        /\ \A i \in Inputs : delivered[i] \in Nat /\ cleared[i] \in Nat
    OBVIOUS
  <1>2. \A i \in Inputs : /\ Outcomes(i) = delivered[i] + cleared[i]
                         /\ Outcomes(i)' = delivered'[i] + cleared[i]
    BY DEF Outcomes
  <1>3. \A i \in Inputs : Outcomes(i) \in Nat /\ (i # x => Outcomes(i)' = Outcomes(i))
    BY <1>1, <1>2
  <1>4. \A d, c \in Nat : (d + 1) + c = (d + c) + 1
    OBVIOUS
  <1>5. Outcomes(x)' = Outcomes(x) + 1
    <2>1. (delivered[x] + 1) + cleared[x] = (delivered[x] + cleared[x]) + 1
      BY <1>1, <1>4
    <2> QED BY <1>1, <1>2, <2>1, Zenon
  <1> QED BY <1>3, <1>5

(* A drain takes the first n items of a queue q, whatever stays in it and  *)
(* in the other queue, and announces the first of them.                    *)
LEMMA DrainMoves ==
    ASSUME IInv, HostsInv, FlowInv, NEW q \in Seq(Inputs), NEW r, NEW n \in 1 .. Len(q),
           RisingBy(pos, q), Queued = Items(q) \cup r,
           \A i \in Items(q), j \in r : ~SameKind(i, j),
           taken = <<>>, await_ = "none", await_' = "deliver", taken' = SubSeq(q, 1, n),
           Queued' = Items(SubSeq(q, n + 1, Len(q))) \cup r,
           RisingBy(pos, steering'), RisingBy(pos, followUp'),
           source' = "follow_up" => steering' = <<>>,
           delivered' = [delivered EXCEPT ![q[1]] = @ + 1],
           UNCHANGED <<ops, pc, runs, position, context, pos, receipt, cleared,
                       listenerFailed, cutShort>>
    PROVE  HostsInv' /\ FlowInv'
  <1> DEFINE front == {q[k] : k \in 1 .. n}
             back == {q[k] : k \in n + 1 .. Len(q)}
  <1>1. n \in 0 .. Len(q) /\ Len(q) \in Nat /\ 1 \in 1 .. n /\ n \in Nat
    BY LenProperties
  <1>2. /\ Items(SubSeq(q, 1, n)) = front /\ Items(SubSeq(q, n + 1, Len(q))) = back
        /\ Items(q) = front \cup back
    BY <1>1, ItemsOfSplit
  <1>3. /\ RisingBy(pos, SubSeq(q, 1, n))
        /\ \A i \in front, j \in back : pos[i][2] < pos[j][2]
    BY <1>1, RisingSplit
  <1>4. Len(SubSeq(q, 1, n)) = n /\ \A k \in 1 .. n : SubSeq(q, 1, n)[k] = q[k]
    <2>1. ASSUME NEW k \in 1 .. n PROVE SubSeq(q, 1, n)[k] = q[k]
      BY <1>1, <2>1 DEF SubSeq
    <2> QED BY <1>1, <2>1, SplitType
  <1>5. Items(taken)' = front /\ Items(taken') = front
    BY <1>2 DEF Items
  <1>6. Items(taken) = {} /\ Rest = {} /\ Undelivered = {}
    BY NothingTaken
  <1>7. /\ delivered \in [Inputs -> Nat] /\ cleared \in [Inputs -> Nat] /\ receipt \subseteq Inputs
        /\ Queued \subseteq Inputs /\ pos \in [Inputs -> Nat \X Nat]
    BY Whereabouts DEF IInv, TypeOK, HistType
  <1>8. \A i \in Queued : ~(pos[i][2] < pos[i][2]) /\ SameKind(i, i)
    <2> TAKE i \in Queued
    <2>1. pos[i][2] \in Nat
      BY <1>7
    <2> QED BY <2>1 DEF SameKind
  <1>9. q[1] \in front /\ q[1] \in Queued /\ front \subseteq Queued /\ Queued' \subseteq Queued
        /\ Queued = Queued' \cup front
    BY <1>1, <1>2
  <1>10. q[1] \notin Queued' /\ \A i \in front, j \in Queued' : SameKind(i, j) => pos[i][2] < pos[j][2]
    BY <1>2, <1>3, <1>8, <1>9
  <1>11. Rest' \subseteq front /\ q[1] \notin Rest'
    <2>1. Rest' = {SubSeq(q, 1, n)[k] : k \in 2 .. n}
      BY <1>4 DEF Rest
    <2>2. \A k \in 2 .. n : k \in 1 .. n /\ SubSeq(q, 1, n)[k] = q[k]
      BY <1>1, <1>4
    <2>3. ASSUME NEW k \in 2 .. n PROVE q[k] # q[1]
      <3>1. pos[q[1]][2] < pos[q[k]][2]
        <4>1. 1 \in 1 .. n /\ k \in 1 .. n /\ 1 < k
          BY <1>1
        <4> QED BY <1>3, <1>4, <4>1 DEF RisingBy
      <3> QED BY <1>8, <1>9, <3>1
    <2> QED BY <2>1, <2>2, <2>3
  <1> HIDE DEF front, back
  <1>12. Undelivered' = front /\ taken'[1] = q[1] /\ taken' # <<>>
    <2>1. taken'[1] = q[1] /\ Len(taken') # 0
      BY <1>1, <1>4
    <2> QED BY <1>5, <2>1, EmptySeq DEF Undelivered
  <1>13. HostsInv'
    BY DEF HostsInv, HostedBy
  <1>14. PositionsInv'
    <2>1. pos[q[1]] # NoPos
      BY <1>7, <1>9 DEF FlowInv, PositionsInv
    <2>2. ASSUME NEW i \in Inputs, pos[i] = NoPos
          PROVE  Untouched(i)' /\ i \notin Queued' /\ i \notin front
      <3>1. Untouched(i) /\ i \notin Queued /\ i # q[1]
        BY <2>1, <2>2 DEF FlowInv, PositionsInv
      <3>2. delivered'[i] = delivered[i]
        BY <1>7, <3>1
      <3> QED BY <1>9, <3>1, <3>2 DEF Untouched, Items
    <2> QED BY <1>5, <2>2 DEF FlowInv, PositionsInv
  <1>15. LinesInv'
    <2>1. \A i \in Queued' \cup front : pos[i][1] = runs
      BY <1>9 DEF FlowInv, LinesInv
    <2>2. RisingBy(pos', taken') /\ RisingBy(pos', steering') /\ RisingBy(pos', followUp')
      BY <1>3
    <2> QED BY <1>5, <1>10, <2>1, <2>2 DEF LinesInv, SameKind
  <1>16. OrderInv'
    <2>1. DeliveryOrder'
      BY DEF FlowInv, OrderInv, DeliveryOrder, FifoPerKind, SteeringGoesFirst, SameKind
    <2>2. pc \in Delivering => \A c \in Items(context), x \in Queued : Ahead(c, x)'
      BY DEF FlowInv, OrderInv, Ahead, SameKind
    <2>3. Items(context)' = Items(context)
      BY DEF Items
    <2> QED BY <1>9, <1>12, <2>1, <2>2, <2>3 DEF OrderInv
  <1>17. ReceiptInv'
    <2> SUFFICES ASSUME ~cutShort PROVE ReceiptInv'
      BY DEF ReceiptInv
    <2>1. /\ \A i \in Inputs : Outcomes(i) \in Nat /\ (i # q[1] => Outcomes(i)' = Outcomes(i))
          /\ Outcomes(q[1])' = Outcomes(q[1]) + 1 /\ q[1] \in Inputs
      <3>1. q[1] \in Inputs
        BY <1>7, <1>9
      <3> PICK x \in Inputs : x = q[1]
        BY <3>1
      <3>2. /\ \A i \in Inputs : Outcomes(i) \in Nat /\ (i # x => Outcomes(i)' = Outcomes(i))
            /\ Outcomes(x)' = Outcomes(x) + 1
        BY <1>7, Announce
      <3>3. Outcomes(q[1])' = Outcomes(x)' /\ Outcomes(q[1]) = Outcomes(x)
        BY DEF Outcomes
      <3> QED BY <3>1, <3>2, <3>3
    <2>2. ASSUME NEW i \in receipt PROVE Outcomes(i)' >= 1 \/ i \in Queued' \/ i \in front
      BY <1>6, <1>7, <1>9, <2>1 DEF FlowInv, ReceiptInv
    <2>3. Outcomes(taken[1])' >= 1
      <3>1. Outcomes(taken[1])' = Outcomes(q[1])'
        BY <1>12 DEF Outcomes
      <3> QED BY <2>1, <3>1
    <2>4. ASSUME ~listenerFailed
          PROVE  /\ \A i \in Inputs : Outcomes(i)' <= 1
                 /\ \A i \in Queued' \cup Rest' : Outcomes(i)' = 0
      <3>1. /\ \A i \in Inputs : Outcomes(i) <= 1
            /\ \A i \in Queued : Outcomes(i) = 0
        BY <2>4 DEF FlowInv, ReceiptInv
      <3>2. Outcomes(q[1])' = 1
        BY <1>9, <2>1, <3>1
      <3>3. \A i \in Inputs : Outcomes(i)' <= 1
        BY <2>1, <3>1, <3>2
      <3>4. \A i \in Queued' \cup Rest' : i \in Queued /\ i \in Inputs /\ i # q[1]
        BY <1>7, <1>9, <1>10, <1>11
      <3> QED BY <2>1, <3>1, <3>3, <3>4
    <2> QED BY <1>5, <2>2, <2>3, <2>4 DEF ReceiptInv
  <1> QED BY <1>13, <1>14, <1>15, <1>16, <1>17 DEF FlowInv

(* The two drains of a safe point.                                         *)
LEMMA DrainKeeps ==
    ASSUME IInv, HostsInv, FlowInv, DrainSteering \/ DrainFollowUp
    PROVE  HostsInv' /\ FlowInv'
  <1>1. taken = <<>> /\ await_ = "none"
    BY DEF DrainSteering, DrainFollowUp, AtSafePoint, IInv, Safe, LockDiscipline
  <1>2. /\ Items(steering) \subseteq Steers /\ Items(followUp) \subseteq FollowUps
        /\ \A i \in Inputs : i \in FollowUps <=> i \notin Steers
    BY Whereabouts DEF IInv
  <1>3. Steers \subseteq Inputs /\ FollowUps \subseteq Inputs
    BY DEF Inputs
  <1>4. steering \in Seq(Steers) /\ followUp \in Seq(FollowUps)
    BY DEF IInv, TypeOK, QueueType
  <1>5. steering \in Seq(Inputs) /\ followUp \in Seq(Inputs)
    BY <1>3, <1>4, SeqMonotonic
  <1>6. RisingBy(pos, steering) /\ RisingBy(pos, followUp)
    BY DEF FlowInv, LinesInv
  <1>7. CASE DrainSteering
    <2> PICK q : q = steering
      OBVIOUS
    <2> PICK n : n = Count(mode.steer, steering)
      OBVIOUS
    <2>1. q \in Seq(Inputs) /\ q # <<>>
      BY <1>5, <1>7 DEF DrainSteering
    <2>2. n = Count(mode.steer, q)
      OBVIOUS
    <2>3. n \in 1 .. Len(q) /\ n \in 0 .. Len(q)
      BY <2>1, <2>2, DrainSplit, LenProperties
    <2>4. /\ taken' = SubSeq(q, 1, n) /\ steering' = SubSeq(q, n + 1, Len(q)) /\ followUp' = followUp
          /\ source' = "steer" /\ await_' = "deliver"
          /\ delivered' = [delivered EXCEPT ![q[1]] = @ + 1]
          /\ UNCHANGED <<ops, pc, runs, position, context, pos, receipt, cleared,
                         listenerFailed, cutShort>>
      BY <1>7 DEF DrainSteering, Take
    <2> PICK r : r = Items(followUp)
      OBVIOUS
    <2>5. Queued = Items(q) \cup r /\ Queued' = Items(SubSeq(q, n + 1, Len(q))) \cup r
      BY <2>4 DEF Queued, Items
    <2>6. \A i \in Items(q), j \in r : ~SameKind(i, j)
      BY <1>2, <1>3 DEF SameKind
    <2>7. RisingBy(pos, q)
      BY <1>6
    <2>8. RisingBy(pos, steering') /\ RisingBy(pos, followUp')
      BY <1>6, <2>1, <2>3, <2>4, <2>7, RisingSplit
    <2> QED BY <1>1, <2>1, <2>3, <2>4, <2>5, <2>6, <2>7, <2>8, DrainMoves
  <1>8. CASE DrainFollowUp
    <2> PICK q : q = followUp
      OBVIOUS
    <2> PICK n : n = Count(mode.follow_up, followUp)
      OBVIOUS
    <2>1. q \in Seq(Inputs) /\ q # <<>>
      BY <1>5, <1>8 DEF DrainFollowUp
    <2>2. n = Count(mode.follow_up, q)
      OBVIOUS
    <2>3. n \in 1 .. Len(q) /\ n \in 0 .. Len(q)
      BY <2>1, <2>2, DrainSplit, LenProperties
    <2>4. /\ taken' = SubSeq(q, 1, n) /\ followUp' = SubSeq(q, n + 1, Len(q)) /\ steering' = steering
          /\ steering = <<>> /\ await_' = "deliver"
          /\ delivered' = [delivered EXCEPT ![q[1]] = @ + 1]
          /\ UNCHANGED <<ops, pc, runs, position, context, pos, receipt, cleared,
                         listenerFailed, cutShort>>
      BY <1>8 DEF DrainFollowUp, Take, SteeringPending
    <2> PICK r : r = Items(steering)
      OBVIOUS
    <2>5. Queued = Items(q) \cup r /\ Queued' = Items(SubSeq(q, n + 1, Len(q))) \cup r
      BY ZenonT(30), <2>4 DEF Queued, Items
    <2>6. \A i \in Items(q), j \in r : ~SameKind(i, j)
      BY <1>2, <1>3 DEF SameKind
    <2>7. RisingBy(pos, q)
      BY <1>6
    <2>8. RisingBy(pos, steering') /\ RisingBy(pos, followUp')
      BY <1>6, <2>1, <2>3, <2>4, <2>7, RisingSplit
    <2> QED BY <1>1, <2>1, <2>3, <2>4, <2>5, <2>6, <2>7, <2>8, DrainMoves
  <1> QED BY <1>7, <1>8

(* append(): the announced item enters the context behind everything of    *)
(* its Run that it had to follow.                                          *)
LEMMA AppendKeeps ==
    ASSUME IInv, HostsInv, FlowInv, DeliverAppend
    PROVE  HostsInv' /\ FlowInv'
  <1>1. /\ UNCHANGED <<steering, followUp, position, ops, taken, source, runs, pos, receipt, delivered,
                       cleared, pc, cutShort, listenerFailed>>
        /\ await_ = "deliver" /\ await_' = "committed" /\ context' = Append(context, Head(taken))
    BY DEF DeliverAppend, queueVars, runVars
  <1>2. taken # <<>> /\ pc \in Delivering
    BY <1>1 DEF IInv, Safe, LockDiscipline, Delivering
  <1>3. Len(taken) \in Nat \ {0} /\ taken \in Seq(Inputs) /\ Head(taken) = taken[1]
    BY <1>2, TakenItems, EmptySeq, LenProperties DEF IInv, TypeOK
  <1>4. PICK x \in Inputs : x = taken[1]
    BY <1>3, ElementOfSeq
  <1>5. /\ Items(steering) \subseteq Steers /\ Items(followUp) \subseteq FollowUps
        /\ Items(taken) \subseteq Kind(source) /\ Items(context) \subseteq Inputs
        /\ Queued \subseteq Inputs /\ Items(taken) \subseteq Inputs /\ Rest \subseteq Items(taken)
        /\ \A i \in Inputs : i \in FollowUps <=> i \notin Steers
    BY Whereabouts DEF IInv
  <1>6. x \in Items(taken) /\ Undelivered = Items(taken) /\ Undelivered' = Rest /\ Rest' = Rest
        /\ Queued' = Queued /\ Items(taken)' = Items(taken)
    <2>1. 1 \in 1 .. Len(taken)
      BY <1>3
    <2> QED BY <1>1, <1>4, <2>1 DEF Items, Undelivered, Rest, Queued
  <1>7. context \in Seq(Inputs) /\ pos \in [Inputs -> Nat \X Nat]
    BY DEF IInv, TypeOK, HistType
  <1>8. Items(context)' = Items(context) \cup {x}
    <2>1. Items(Append(context, x)) = Items(context) \cup {x}
      BY <1>7, ItemsOfAppend
    <2>2. context' = Append(context, x)
      BY <1>1, <1>3, <1>4
    <2>3. Items(context)' = Items(context')
      BY DEF Items
    <2> QED BY <2>1, <2>2, <2>3
  <1>9. /\ Len(context) \in Nat /\ Len(context') = Len(context) + 1
        /\ \A k \in 1 .. Len(context) : context'[k] = context[k] /\ context[k] \in Items(context)
        /\ context'[Len(context) + 1] = x
    <2>1. /\ Len(context) \in Nat /\ Len(Append(context, x)) = Len(context) + 1
          /\ \A k \in 1 .. Len(context) : Append(context, x)[k] = context[k]
          /\ Append(context, x)[Len(context) + 1] = x
      BY <1>7, AppendProperties, LenProperties
    <2>2. context' = Append(context, x)
      BY <1>1, <1>3, <1>4
    <2> QED BY <2>1, <2>2 DEF Items
  <1>10. pos[x][1] = runs /\ pos[x] # NoPos
    BY <1>4, <1>6 DEF FlowInv, LinesInv, PositionsInv
  <1>11. \A c \in Items(context) : Ahead(c, x)
    BY <1>2, <1>6 DEF FlowInv, OrderInv
  <1>12. HostsInv'
    BY <1>1 DEF HostsInv, HostedBy
  <1>13. PositionsInv'
    <2>1. ASSUME NEW i \in Inputs, pos[i] = NoPos
          PROVE  Untouched(i)' /\ i \notin Queued' /\ i \notin Items(taken)'
      BY <1>1, <1>6, <1>8, <1>10, <2>1 DEF FlowInv, PositionsInv, Untouched
    <2> QED BY <1>1, <2>1 DEF FlowInv, PositionsInv
  <1>14. LinesInv'
    BY <1>1, <1>6 DEF FlowInv, LinesInv, RisingBy, SameKind
  <1>15. FifoPerKind' /\ SteeringGoesFirst'
    <2>1. FifoPerKind /\ SteeringGoesFirst
      BY DEF FlowInv, OrderInv, DeliveryOrder
    <2>2. ASSUME NEW a \in 1 .. Len(context) + 1, NEW b \in 1 .. Len(context) + 1, a < b,
                 pos[context'[a]][1] = pos[context'[b]][1],
                 \/ SameKind(context'[a], context'[b])
                 \/ context'[a] \in FollowUps /\ context'[b] \in Steers
          PROVE  pos[context'[a]][2] < pos[context'[b]][2]
      <3>1. a \in 1 .. Len(context)
        BY <1>9, <2>2
      <3>2. CASE b = Len(context) + 1
        <4>1. context'[a] \in Items(context) /\ context'[b] = x
          BY <1>9, <3>1, <3>2
        <4> QED BY <1>10, <1>11, <2>2, <4>1 DEF Ahead
      <3>3. CASE b \in 1 .. Len(context)
        BY <1>9, <2>1, <2>2, <3>1, <3>3 DEF FifoPerKind, SteeringGoesFirst
      <3> QED BY <1>9, <3>2, <3>3
    <2>3. FifoPerKind'
      BY <1>1, <1>9, <2>2 DEF FifoPerKind, SameKind
    <2>4. SteeringGoesFirst'
      BY <1>1, <1>9, <2>2 DEF SteeringGoesFirst
    <2> QED BY <2>3, <2>4
  <1>16. OrderInv'
    <2>1. ASSUME NEW c \in Items(context), NEW y \in Queued \cup Rest PROVE Ahead(c, y)'
      <3>1. Ahead(c, y)
        <4>1. y \in Queued \cup Undelivered
          BY <1>5, <1>6, <2>1
        <4> QED BY <1>2, <4>1 DEF FlowInv, OrderInv
      <3> QED BY <1>1, <3>1 DEF Ahead, SameKind
    <2>2. ASSUME NEW y \in Rest PROVE Ahead(x, y)'
      <3>1. PICK k \in 2 .. Len(taken) : y = taken[k]
        BY <2>2 DEF Rest
      <3>2. 1 \in 1 .. Len(taken) /\ k \in 1 .. Len(taken) /\ 1 < k
        BY <1>3
      <3>3. pos[x][2] < pos[y][2]
        BY <1>4, <3>1, <3>2 DEF FlowInv, LinesInv, RisingBy
      <3> QED BY <1>1, <3>3 DEF Ahead
    <2>3. ASSUME NEW y \in Queued PROVE Ahead(x, y)'
      <3>1. SameKind(x, y) => pos[x][2] < pos[y][2]
        BY <1>6 DEF FlowInv, LinesInv
      <3>2. ASSUME y \in Steers, ~SameKind(x, y) PROVE FALSE
        <4>1. x \in FollowUps /\ y \in Items(steering)
          BY <1>4, <1>5, <3>2 DEF SameKind, Queued
        <4>2. steering # <<>>
          BY <4>1 DEF Items
        <4>3. source = "follow_up"
          BY <1>5, <1>6, <4>1 DEF Kind, IInv, TypeOK, LockType
        <4> QED BY <1>2, <4>2, <4>3 DEF FlowInv, LinesInv
      <3> QED BY <1>1, <3>1, <3>2 DEF Ahead, SameKind
    <2> QED BY <1>6, <1>8, <1>15, <2>1, <2>2, <2>3 DEF OrderInv, DeliveryOrder
  <1>17. ReceiptInv'
    BY <1>1, <1>6 DEF FlowInv, ReceiptInv, Outcomes
  <1> QED BY <1>12, <1>13, <1>14, <1>16, <1>17 DEF FlowInv

(* The next item of the drain is announced.                                *)
LEMMA NextItemKeeps ==
    ASSUME IInv, HostsInv, FlowInv, DeliverNext
    PROVE  HostsInv' /\ FlowInv'
  <1>1. /\ UNCHANGED <<steering, followUp, position, ops, source, runs, context, pos, receipt,
                       cleared, pc, cutShort, listenerFailed>>
        /\ await_ = "committed" /\ await_' = "deliver" /\ Len(taken) > 1 /\ taken' = Tail(taken)
        /\ delivered' = [delivered EXCEPT ![taken[2]] = @ + 1]
    BY DEF DeliverNext, queueVars, runVars
  <1>2. taken \in Seq(Inputs) /\ taken[2] \in Inputs /\ taken # <<>> /\ Len(taken) \in Nat
    BY <1>1, TakenItems, EmptySeq, LenProperties DEF IInv, TypeOK
  <1>3. PICK x \in Inputs : x = taken[2]
    BY <1>2
  <1>4. /\ Len(Tail(taken)) = Len(taken) - 1
        /\ \A k \in 1 .. Len(taken) - 1 : Tail(taken)[k] = taken[k + 1]
    BY <1>2, TailType
  <1>5. /\ Items(steering) \subseteq Steers /\ Items(followUp) \subseteq FollowUps
        /\ Queued \subseteq Inputs /\ Items(taken) \subseteq Inputs /\ Rest \subseteq Items(taken)
    BY Whereabouts DEF IInv
  <1>6. delivered \in [Inputs -> Nat] /\ cleared \in [Inputs -> Nat] /\ pos \in [Inputs -> Nat \X Nat]
        /\ receipt \subseteq Inputs
    BY DEF IInv, TypeOK, HistType
  <1>7. Items(taken)' = Rest /\ Undelivered = Rest /\ Undelivered' = Rest /\ Queued' = Queued
        /\ taken'[1] = x /\ taken' # <<>>
    <2>1. Items(Tail(taken)) = Rest
      <3>1. ASSUME NEW k \in 1 .. Len(taken) - 1 PROVE Tail(taken)[k] \in Rest
        <4>1. k + 1 \in 2 .. Len(taken)
          BY <1>2
        <4> QED BY <1>4, <4>1 DEF Rest
      <3>2. ASSUME NEW k \in 2 .. Len(taken) PROVE taken[k] \in Items(Tail(taken))
        <4>1. k - 1 \in 1 .. Len(taken) - 1 /\ (k - 1) + 1 = k
          BY <1>2
        <4>2. Tail(taken)[k - 1] = taken[k]
          BY <1>4, <4>1
        <4> QED BY <1>4, <4>1, <4>2 DEF Items
      <3> QED BY <1>4, <3>1, <3>2 DEF Rest, Items
    <2>2. Items(taken)' = Items(taken')
      BY DEF Items
    <2>3. Tail(taken)[1] = taken[2] /\ Len(Tail(taken)) # 0
      BY <1>1, <1>2, <1>4
    <2>4. Tail(taken) # <<>>
      BY <2>3, EmptySeq
    <2> QED BY <1>1, <1>3, <2>1, <2>2, <2>3, <2>4 DEF Undelivered, Queued, Items
  <1>8. x \in Rest /\ Rest' \subseteq Rest /\ x \notin Rest'
    <2>1. 2 \in 2 .. Len(taken)
      BY <1>1, <1>2
    <2>2. \A k \in 2 .. Len(taken) - 1 : k + 1 \in 2 .. Len(taken) /\ taken'[k] = taken[k + 1]
      BY <1>1, <1>2, <1>4
    <2>3. Rest' = {taken'[k] : k \in 2 .. Len(taken) - 1}
      BY <1>1, <1>4 DEF Rest
    <2>4. ASSUME NEW k \in 2 .. Len(taken) - 1 PROVE taken[k + 1] # x
      <3>1. pos[taken[2]][2] < pos[taken[k + 1]][2]
        <4>1. 2 \in 1 .. Len(taken) /\ k + 1 \in 1 .. Len(taken) /\ 2 < k + 1
          BY <1>1, <1>2
        <4> QED BY <4>1 DEF FlowInv, LinesInv, RisingBy
      <3>2. pos[x][2] \in Nat
        BY <1>6
      <3> QED BY <1>3, <3>1, <3>2
    <2>5. x \in Rest
      BY <1>3, <2>1 DEF Rest
    <2>6. ASSUME NEW y \in Rest' PROVE y \in Rest /\ y # x
      <3>1. PICK k \in 2 .. Len(taken) - 1 : y = taken'[k]
        BY <2>3
      <3>2. y = taken[k + 1] /\ k + 1 \in 2 .. Len(taken)
        BY <2>2, <3>1
      <3> QED BY <2>4, <3>2 DEF Rest
    <2> QED BY <2>5, <2>6
  <1>9. HostsInv'
    BY <1>1 DEF HostsInv, HostedBy
  <1>10. PositionsInv'
    <2>1. pos[x] # NoPos
      BY <1>5, <1>8 DEF FlowInv, PositionsInv
    <2>2. ASSUME NEW i \in Inputs, pos[i] = NoPos
          PROVE  Untouched(i)' /\ i \notin Queued' /\ i \notin Items(taken)'
      <3>1. Untouched(i) /\ i \notin Queued /\ i \notin Items(taken) /\ i # x
        BY <2>1, <2>2 DEF FlowInv, PositionsInv
      <3>2. delivered'[i] = delivered[i]
        BY <1>1, <1>3, <1>6, <3>1
      <3> QED BY <1>1, <1>5, <1>7, <3>1, <3>2 DEF Untouched, Items
    <2> QED BY <1>1, <2>2 DEF FlowInv, PositionsInv
  <1>11. LinesInv'
    <2>1. RisingBy(pos, Tail(taken))
      <3> SUFFICES ASSUME NEW a \in 1 .. Len(taken) - 1, NEW b \in 1 .. Len(taken) - 1, a < b
                   PROVE  pos[taken[a + 1]][2] < pos[taken[b + 1]][2]
        BY <1>4 DEF RisingBy
      <3>1. a + 1 \in 1 .. Len(taken) /\ b + 1 \in 1 .. Len(taken) /\ a + 1 < b + 1
        BY <1>2
      <3> QED BY <3>1 DEF FlowInv, LinesInv, RisingBy
    <2>2. RisingBy(pos', taken') /\ RisingBy(pos', steering') /\ RisingBy(pos', followUp')
      BY <1>1, <2>1 DEF FlowInv, LinesInv
    <2> QED BY <1>1, <1>2, <1>5, <1>7, <2>2 DEF FlowInv, LinesInv, SameKind
  <1>12. OrderInv'
    <2>1. DeliveryOrder'
      BY <1>1 DEF FlowInv, OrderInv, DeliveryOrder, FifoPerKind, SteeringGoesFirst, SameKind
    <2>2. pc \in Delivering => \A c \in Items(context), y \in Queued \cup Rest : Ahead(c, y)'
      BY <1>1, <1>7 DEF FlowInv, OrderInv, Ahead, SameKind
    <2>3. Items(context)' = Items(context)
      BY <1>1 DEF Items
    <2> QED BY <1>1, <1>7, <2>1, <2>2, <2>3 DEF OrderInv
  <1>13. ReceiptInv'
    <2> SUFFICES ASSUME ~cutShort PROVE ReceiptInv'
      BY <1>1 DEF ReceiptInv
    <2>1. /\ \A i \in Inputs : Outcomes(i) \in Nat /\ (i # x => Outcomes(i)' = Outcomes(i))
          /\ Outcomes(x)' = Outcomes(x) + 1
      BY <1>1, <1>3, <1>6, Announce
    <2>2. ASSUME NEW i \in receipt PROVE Outcomes(i)' >= 1 \/ i \in Queued \/ i \in Rest
      <3>1. CASE Outcomes(i) >= 1
        BY <1>6, <2>1, <3>1
      <3>2. CASE i \in Items(taken) /\ i \notin Rest
        <4>1. i = taken[1]
          <5>1. PICK k \in 1 .. Len(taken) : i = taken[k]
            BY <3>2 DEF Items
          <5>2. k \notin 2 .. Len(taken)
            BY <3>2, <5>1 DEF Rest
          <5>3. k = 1
            BY <1>2, <5>2
          <5> QED BY <5>1, <5>3
        <4>2. Outcomes(i) >= 1
          BY <1>2, <4>1 DEF FlowInv, ReceiptInv
        <4> QED BY <3>1, <4>2
      <3> QED BY <3>1, <3>2 DEF FlowInv, ReceiptInv
    <2>3. Outcomes(taken[1])' >= 1
      <3>1. Outcomes(taken[1])' = Outcomes(x)'
        BY <1>7 DEF Outcomes
      <3> QED BY <2>1, <3>1
    <2>4. ASSUME ~listenerFailed
          PROVE  /\ \A i \in Inputs : Outcomes(i)' <= 1
                 /\ \A i \in Queued \cup Rest' : Outcomes(i)' = 0
      <3>1. /\ \A i \in Inputs : Outcomes(i) <= 1
            /\ \A i \in Queued \cup Rest : Outcomes(i) = 0
        BY <2>4 DEF FlowInv, ReceiptInv
      <3>2. Outcomes(x)' = 1
        BY <1>8, <2>1, <3>1
      <3>3. \A i \in Inputs : Outcomes(i)' <= 1
        BY <2>1, <3>1, <3>2
      <3>4. x \notin Queued
        <4>1. pos[x][2] \in Nat /\ x \in Items(taken) /\ SameKind(x, x)
          BY <1>5, <1>6, <1>8 DEF SameKind
        <4>2. ~(pos[x][2] < pos[x][2])
          BY <4>1
        <4> QED BY <4>1, <4>2 DEF FlowInv, LinesInv
      <3>5. \A i \in Queued \cup Rest' : i \in Queued \cup Rest /\ i \in Inputs /\ i # x
        BY <1>5, <1>8, <3>4
      <3> QED BY <2>1, <3>1, <3>3, <3>5
    <2> QED BY <1>1, <1>7, <2>2, <2>3, <2>4 DEF ReceiptInv
  <1> QED BY <1>9, <1>10, <1>11, <1>12, <1>13 DEF FlowInv

(* A listener raised inside a drain: what is left of it goes back to the   *)
(* front of its queue, in order, and no drain of this Run follows.         *)
LEMMA FailedDrainKeeps ==
    ASSUME IInv, HostsInv, FlowInv, DeliverFails
    PROVE  HostsInv' /\ FlowInv'
  <1>1. /\ UNCHANGED <<position, runs, context, pos, receipt, delivered, cleared, cutShort>>
        /\ taken' = <<>> /\ await_' = "none" /\ listenerFailed' = TRUE /\ pc' \notin Delivering
    BY DEF DeliverFails, LoopRaises, LoopReturns, Delivering
  <1>2. LockMoves
    BY DEF DeliverFails, LoopRaises, LoopReturns, Holds, Release, LockMoves
  <1>3. HostsInv'
    BY <1>2, HostsMove DEF IInv, TypeOK
  <1>4. /\ Items(steering) \subseteq Steers /\ Items(followUp) \subseteq FollowUps
        /\ Items(taken) \subseteq Kind(source) /\ Items(taken) \subseteq Inputs
        /\ \A i \in Inputs : i \in FollowUps <=> i \notin Steers
    BY Whereabouts DEF IInv
  <1>5. Items(taken)' = {} /\ Rest' = {} /\ Undelivered' = {}
    BY <1>1 DEF Items, Rest, Undelivered
  <1>6. steering \in Seq(Inputs) /\ followUp \in Seq(Inputs) /\ taken \in Seq(Inputs)
    <2>1. Steers \subseteq Inputs /\ FollowUps \subseteq Inputs
      BY DEF Inputs
    <2>2. steering \in Seq(Steers) /\ followUp \in Seq(FollowUps)
      BY DEF IInv, TypeOK, QueueType
    <2>3. taken \in Seq(Inputs)
      BY TakenItems DEF IInv, TypeOK
    <2> QED BY <2>1, <2>2, <2>3, SeqMonotonic
  <1>7. /\ RisingBy(pos, taken) /\ RisingBy(pos, steering) /\ RisingBy(pos, followUp)
        /\ \A i \in Items(taken), j \in Queued : SameKind(i, j) => pos[i][2] < pos[j][2]
    BY DEF FlowInv, LinesInv
  <1>8. /\ Queued' = Queued \cup Items(taken)
        /\ RisingBy(pos, steering') /\ RisingBy(pos, followUp')
    <2>1. CASE source = "steer"
      <3>1. steering' = taken \o steering /\ followUp' = followUp
        BY <2>1 DEF DeliverFails, PutBack
      <3>2. Items(taken \o steering) = Items(taken) \cup Items(steering)
        BY <1>6, ItemsOfConcat
      <3>3. \A i \in Items(taken), j \in Items(steering) : pos[i][2] < pos[j][2]
        BY <1>4, <1>7, <2>1 DEF Kind, SameKind, Queued
      <3>4. RisingBy(pos, taken \o steering)
        BY <1>6, <1>7, <3>3, RisingConcat
      <3>5. Items(steering)' = Items(steering') /\ Items(followUp)' = Items(followUp')
        BY DEF Items
      <3> QED BY <1>7, <3>1, <3>2, <3>4, <3>5 DEF Queued
    <2>2. CASE source = "follow_up"
      <3>1. followUp' = taken \o followUp /\ steering' = steering
        BY <2>2 DEF DeliverFails, PutBack
      <3>2. Items(taken \o followUp) = Items(taken) \cup Items(followUp)
        BY <1>6, ItemsOfConcat
      <3>3. \A i \in Items(taken), j \in Items(followUp) : pos[i][2] < pos[j][2]
        <4>1. FollowUps \subseteq Inputs
          BY DEF Inputs
        <4> QED BY <1>4, <1>7, <2>2, <4>1 DEF Kind, SameKind, Queued
      <3>4. RisingBy(pos, taken \o followUp)
        BY <1>6, <1>7, <3>3, RisingConcat
      <3>5. Items(steering)' = Items(steering') /\ Items(followUp)' = Items(followUp')
        BY DEF Items
      <3> QED BY <1>7, <3>1, <3>2, <3>4, <3>5 DEF Queued
    <2> QED BY <2>1, <2>2 DEF IInv, TypeOK, LockType
  <1>9. PositionsInv'
    <2>1. ASSUME NEW i \in Inputs, pos[i] = NoPos PROVE Untouched(i)' /\ i \notin Queued'
      BY <1>1, <1>8, <2>1 DEF FlowInv, PositionsInv, Untouched, Items
    <2> QED BY <1>1, <1>5, <2>1 DEF FlowInv, PositionsInv
  <1>10. LinesInv'
    <2>1. \A i \in Queued' : pos[i][1] = runs
      BY <1>8 DEF FlowInv, LinesInv
    <2>2. RisingBy(pos', taken') /\ RisingBy(pos', steering') /\ RisingBy(pos', followUp')
      BY <1>1, <1>8 DEF RisingBy
    <2> QED BY <1>1, <1>5, <2>1, <2>2 DEF LinesInv
  <1>11. OrderInv'
    BY <1>1 DEF FlowInv, OrderInv, DeliveryOrder, FifoPerKind, SteeringGoesFirst, SameKind
  <1>12. ReceiptInv'
    <2>1. \A i \in receipt : ~cutShort => Outcomes(i) >= 1 \/ i \in Queued'
      BY <1>8 DEF FlowInv, ReceiptInv
    <2>2. \A i : Outcomes(i)' = Outcomes(i)
      BY <1>1 DEF Outcomes
    <2> QED BY <1>1, <2>1, <2>2 DEF ReceiptInv
  <1> QED BY <1>3, <1>9, <1>10, <1>11, <1>12 DEF FlowInv

(* Every step keeps the order and the account of receipts.                 *)
LEMMA FlowStep ==
    ASSUME IInv, HostsInv, FlowInv, [Next]_vars
    PROVE  HostsInv' /\ FlowInv'
  <1>1. LockType /\ pos \in [Inputs -> Nat \X Nat]
    BY DEF IInv, TypeOK, HistType
  <1>2. ASSUME LockMoves, Quiet PROVE HostsInv' /\ FlowInv'
    BY <1>1, <1>2, HostsMove, QuietKeeps
  <1>3. ASSUME NEW i \in Inputs, AdmitCall(i) \/ HostStep(i) PROVE HostsInv' /\ FlowInv'
    <2>1. CASE AdmitCall(i)
      <3>1. HostsInv'
        BY <1>1, <2>1, HostsAdmit
      <3>2. await_ = "queued" => ops # <<>> /\ Head(Append(ops, i)) = Head(ops)
        <4> SUFFICES ASSUME ops # <<>> PROVE Head(Append(ops, i)) = Head(ops)
          BY DEF HostsInv
        <4>1. Len(ops) \in Nat \ {0} /\ ops \in Seq(Inputs \cup {Run}) /\ i \in Inputs \cup {Run}
          BY <1>1, EmptySeq, LenProperties DEF LockType
        <4>2. /\ Len(Append(ops, i)) = Len(ops) + 1
              /\ \A k \in 1 .. Len(ops) : Append(ops, i)[k] = ops[k]
          BY <4>1, AppendProperties
        <4> QED BY <4>1, <4>2, EmptySeq
      <3>3. Quiet
        BY <2>1, <3>2 DEF AdmitCall, Quiet, queueVars, runVars, histVars
      <3> QED BY <3>1, <3>3, QuietKeeps
    <2>2. CASE AdmitRejected(i)
      BY <1>2, <2>2, QuietSteps
    <2>3. CASE AdmitQueue(i)
      BY <1>1, <2>3, HostsAdmit, AdmitKeeps
    <2>4. CASE AdmitAcknowledged(i)
      <3>1. LockMoves
        BY <2>4 DEF AdmitAcknowledged, LockMoves, Holds, Release
      <3> QED BY <1>1, <2>4, <3>1, HostsMove, AcknowledgedKeeps
    <2>5. CASE AdmitRolledBack(i)
      BY <1>1, <2>5, HostsAdmit, RollbackKeeps
    <2> QED BY <1>3, <2>1, <2>2, <2>3, <2>4, <2>5 DEF HostStep
  <1>4. CASE Open
    <2>1. LockMoves
      BY <1>4 DEF Open, LockMoves, lockVars, histVars
    <2> QED BY <1>1, <1>4, <2>1, HostsMove, OpenKeeps
  <1>5. CASE \/ StartDone \/ Commit \/ MonitorSettled \/ TurnFails \/ NoSteering \/ GateEnds
             \/ \E t \in BOOLEAN : TurnEnd(t)
             \/ SealDone \/ SealListenerFails \/ Abort \/ Cancel \/ CancelEnding
             \/ FinalInterrupted \/ UNCHANGED vars
    BY <1>2, <1>5, QuietSteps
  <1>6. CASE ForceCancel \/ DeliverLast
    BY <1>6, EndKeeps
  <1>7. CASE DrainSteering \/ DrainFollowUp
    BY <1>7, DrainKeeps
  <1>8. CASE DeliverAppend
    BY <1>8, AppendKeeps
  <1>9. CASE DeliverNext
    BY <1>9, NextItemKeeps
  <1>10. CASE DeliverFails
    BY <1>10, FailedDrainKeeps
  <1>11. CASE SealClears
    BY <1>11, SealKeeps
  <1> QED BY <1>3, <1>4, <1>5, <1>6, <1>7, <1>8, <1>9, <1>10, <1>11 DEF Next, TurnStep, RunStep

(* Positions, order and receipts fit together in every reachable state.    *)
THEOREM FlowInvariance == Spec => [](HostsInv /\ FlowInv)
  <1>1. Init => HostsInv /\ FlowInv
    <2> SUFFICES ASSUME Init PROVE HostsInv /\ FlowInv
      OBVIOUS
    <2>1. /\ steering = <<>> /\ followUp = <<>> /\ ops = <<>> /\ taken = <<>> /\ context = <<>>
          /\ receipt = {} /\ runs = 0 /\ position = 0 /\ await_ = "none"
          /\ pos = [i \in Inputs |-> NoPos]
          /\ delivered = [i \in Inputs |-> 0] /\ cleared = [i \in Inputs |-> 0]
      BY DEF Init
    <2>2. Queued = {} /\ Items(taken) = {} /\ Rest = {} /\ Undelivered = {} /\ Items(context) = {}
      BY <2>1, NothingTaken DEF Queued, Items
    <2>3. HostsInv
      BY <2>1 DEF HostsInv, HostedBy
    <2>4. PositionsInv
      BY <2>1, <2>2 DEF PositionsInv, Untouched, NoPos
    <2>5. LinesInv
      BY <2>1, <2>2 DEF LinesInv, RisingBy
    <2>6. OrderInv
      BY <2>1, <2>2 DEF OrderInv, DeliveryOrder, FifoPerKind, SteeringGoesFirst
    <2>7. ReceiptInv
      BY <2>1, <2>2 DEF ReceiptInv, Outcomes
    <2> QED BY <2>3, <2>4, <2>5, <2>6, <2>7 DEF FlowInv
  <1>2. IInv /\ HostsInv /\ FlowInv /\ [Next]_vars => (HostsInv /\ FlowInv)'
    BY FlowStep
  <1> QED BY <1>1, <1>2, Invariance, PTL DEF Spec

(* Inputs of a kind reach the model in the order of their admission, and   *)
(* steering before the follow-ups admitted after it, around every failed   *)
(* drain, rollback, abort and cancellation.                                *)
THEOREM InputsKeepOrder == Spec => []DeliveryOrder
  <1>1. FlowInv => DeliveryOrder
    BY DEF FlowInv, OrderInv
  <1> QED BY <1>1, FlowInvariance, PTL

(* When no Run is under way, every receipt is settled: by exactly one      *)
(* event if no listener raised in a drain, by at least one even if one     *)
(* did, unless a cancellation cut the cleanup short.                       *)
THEOREM ReceiptsAreCovered == Spec => []ReceiptsCovered
  <1>1. IInv /\ FlowInv => ReceiptsCovered
    <2> SUFFICES ASSUME IInv, FlowInv, pc = "idle", NEW i \in receipt, ~cutShort
                 PROVE  Outcomes(i) >= 1 /\ (~listenerFailed => Outcomes(i) = 1)
      BY DEF ReceiptsCovered
    <2>1. steering = <<>> /\ followUp = <<>> /\ taken = <<>>
      BY DEF IInv, Safe, SealedQueueIsEmpty
    <2>2. Queued = {} /\ Items(taken) = {}
      BY <2>1 DEF Queued, Items
    <2>3. Outcomes(i) >= 1 /\ (~listenerFailed => Outcomes(i) <= 1) /\ Outcomes(i) \in Nat
      BY <2>2 DEF FlowInv, ReceiptInv, IInv, TypeOK, HistType, Outcomes
    <2> QED BY <2>3
  <1> QED BY <1>1, Invariance, FlowInvariance, PTL

=============================================================================
