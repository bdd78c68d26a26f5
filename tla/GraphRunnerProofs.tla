--------------------------- MODULE GraphRunnerProofs ---------------------------
(***************************************************************************)
(* Proofs about GraphRunner, for every graph and every bound.              *)
(***************************************************************************)
EXTENDS GraphRunner, TLAPS

\* Zero is within every bound (all bounds are naturals).
LEMMA ZeroInBounds ==
    0 \in 0..MaxGraphSteps /\ 0 \in 0..MaxCrashes /\ 0 \in 0..MaxStale
BY BoundsAssumption

\* The absent checkpoint is a LoopState.
LEMMA NoCheckpointType == NoCheckpoint \in LoopState
BY BoundsAssumption DEF NoCheckpoint, LoopState, CheckpointStatus

\* A checkpoint the driver writes is a LoopState.
LEMMA CheckpointType ==
    ASSUME NEW s \in CheckpointStatus, NEW i \in 0..MaxGraphSteps,
           NEW l \in Registered \cup {NoNode}, node \in NodeId
    PROVE  /\ Checkpoint(s, i, l) \in LoopState
           /\ Checkpoint(s, i, l).status = s
           /\ Checkpoint(s, i, l).node = node
           /\ Checkpoint(s, i, l).iter = i
           /\ Checkpoint(s, i, l).last = l
BY DEF Checkpoint, LoopState

\* Types hold initially.
LEMMA TypeInit == Init => TypeOK
<1> SUFFICES ASSUME Init PROVE TypeOK
  OBVIOUS
<1>1. ckpt \in LoopState /\ held \in LoopState
  BY NoCheckpointType DEF Init
<1>2. ckpt.status = "Absent" /\ held.status = "Absent"
  BY DEF Init, NoCheckpoint
<1>3. iter \in 0..MaxGraphSteps /\ crashes \in 0..MaxCrashes /\ staleRuns \in 0..MaxStale
  BY BoundsAssumption DEF Init
<1>4. \A c \in {ckpt, held} : c.status # "Absent" => c.node \in NodeId
  BY <1>2
<1>5. phase \in Phase /\ result \in Result /\ phase = "idle"
  BY DEF Init, Phase, Result
<1>6. cancelled \in BOOLEAN /\ executions \in Nat
  BY DEF Init
<1>7. node \in NodeId \cup {NoNode} /\ last \in Registered \cup {NoNode}
  BY DEF Init
<1> QED
  BY <1>1, <1>2, <1>3, <1>4, <1>5, <1>6, <1>7 DEF TypeOK

\* Entering the loop at a node of the graph with a legal iteration is type
\* correct.
LEMMA TypeEnter ==
    ASSUME TypeOK, NEW n \in NodeId, NEW i \in 0..MaxGraphSteps,
           NEW l \in Registered \cup {NoNode}, Enter(n, i, l),
           UNCHANGED <<ckpt, held, executions, crashes>>,
           staleRuns' \in 0..MaxStale
    PROVE  TypeOK'
BY DEF TypeOK, Enter, Phase, Result

\* Stopping with a checkpoint of the current node is type correct.
LEMMA TypeStop ==
    ASSUME TypeOK, phase # "idle", NEW s \in Stopped, NEW r \in Result,
           StopWith(s, r)
    PROVE  TypeOK'
<1>1. node \in NodeId
  BY DEF TypeOK
<1>2. s \in CheckpointStatus /\ s # "Absent"
  BY DEF CheckpointStatus, Stopped
<1>3. ckpt' \in LoopState /\ ckpt'.node \in NodeId
  BY <1>1, <1>2, CheckpointType DEF TypeOK, StopWith
<1> QED
  BY <1>1, <1>2, <1>3, ZeroInBounds DEF TypeOK, StopWith, Return, Phase, counters

\* Returning without touching the checkpoint is type correct.
LEMMA TypeReturn ==
    ASSUME TypeOK, NEW r \in Result, Return(r), UNCHANGED ckpt
    PROVE  TypeOK'
BY ZeroInBounds DEF TypeOK, Return, Phase, counters

\* Types are kept by every step.
LEMMA TypeNext == TypeOK /\ [Next]_vars => TypeOK'
<1> SUFFICES ASSUME TypeOK, [Next]_vars PROVE TypeOK'
  OBVIOUS
<1>1. CASE Run
  <2>1. staleRuns' \in 0..MaxStale
    BY <1>1 DEF Run, counters, TypeOK
  <2> QED
    BY <1>1, <2>1, ZeroInBounds, GraphAssumption, TypeEnter DEF Run, counters
<1>2. CASE ResumeFresh
  <2>1. /\ ckpt.node \in NodeId /\ ckpt.iter \in 0..MaxGraphSteps
        /\ ckpt.last \in Registered \cup {NoNode}
    BY <1>2 DEF ResumeFresh, Resume, TypeOK, LoopState
  <2>2. staleRuns' \in 0..MaxStale
    BY <1>2 DEF ResumeFresh, TypeOK
  <2> QED
    BY <1>2, <2>1, <2>2, TypeEnter DEF ResumeFresh, Resume
<1>3. CASE RecoverFresh
  <2>1. /\ ckpt.node \in NodeId /\ ckpt.iter \in 0..MaxGraphSteps
        /\ ckpt.last \in Registered \cup {NoNode}
    BY <1>3 DEF RecoverFresh, Recover, TypeOK, LoopState
  <2>2. staleRuns' \in 0..MaxStale
    BY <1>3 DEF RecoverFresh, TypeOK
  <2> QED
    BY <1>3, <2>1, <2>2, TypeEnter DEF RecoverFresh, Recover
<1>4. CASE RecoverStale
  <2>1. /\ held.node \in NodeId /\ held.iter \in 0..MaxGraphSteps
        /\ held.last \in Registered \cup {NoNode}
    BY <1>4 DEF RecoverStale, Recover, TypeOK, LoopState
  <2>2. staleRuns' \in 0..MaxStale
    BY <1>4, BoundsAssumption DEF RecoverStale, CountStale, TypeOK
  <2> QED
    BY <1>4, <2>1, <2>2, TypeEnter DEF RecoverStale, Recover
<1>5. CASE CancelBeforeNode
  BY <1>5, TypeStop DEF CancelBeforeNode, Stopped, Result
<1>6. CASE BudgetExhausted
  BY <1>6, TypeStop DEF BudgetExhausted, Stopped, Result
<1>7. CASE UnknownNode
  BY <1>7, TypeReturn DEF UnknownNode, Result
<1>8. CASE SaveRunning
  <2>1. iter + 1 \in 0..MaxGraphSteps /\ node \in NodeId
    BY <1>8, BoundsAssumption DEF SaveRunning, TypeOK
  <2>2. ckpt' \in LoopState /\ ckpt'.node \in NodeId
    BY <1>8, <2>1, CheckpointType DEF SaveRunning, TypeOK, CheckpointStatus
  <2> QED
    BY <1>8, <2>1, <2>2 DEF SaveRunning, TypeOK, Phase, counters
<1>9. CASE StartNode
  <2>1. executions' \in Nat
    BY <1>9 DEF StartNode, TypeOK
  <2> QED
    BY <1>9, <2>1 DEF StartNode, TypeOK, Phase
<1>10. ASSUME NEW b \in Branch, NodeAdvances(b) PROVE TypeOK'
  <2>1. node' \in NodeId /\ last' \in Registered
    BY <1>10, GraphAssumption DEF NodeAdvances, Completed, TypeOK
  <2> QED
    BY <1>10, <2>1 DEF NodeAdvances, TypeOK, Phase, counters
<1>11. ASSUME NEW b \in Branch, MissingEdge(b) PROVE TypeOK'
  BY <1>11, TypeReturn DEF MissingEdge, Result
<1>12. CASE NodeFinishes
  <2>1. ckpt' \in LoopState /\ ckpt'.status = "Absent"
    BY <1>12, NoCheckpointType DEF NodeFinishes, NoCheckpoint
  <2> QED
    BY <1>12, <2>1, ZeroInBounds DEF NodeFinishes, Return, TypeOK, Phase, Result, counters
<1>13. CASE NodePauses
  <2>1. node \in NodeId /\ node \in Registered
    BY <1>13 DEF NodePauses, Completed, TypeOK
  <2>2. ckpt' \in LoopState /\ ckpt'.node \in NodeId
    BY <1>13, <2>1, CheckpointType DEF NodePauses, TypeOK, CheckpointStatus
  <2> QED
    BY <1>13, <2>2, ZeroInBounds DEF NodePauses, Return, TypeOK, Phase, Result, counters
<1>14. CASE NodeFails
  BY <1>14, TypeStop DEF NodeFails, Stopped, Result
<1>15. CASE NodeTimesOut
  BY <1>15, TypeStop DEF NodeTimesOut, Stopped, Result
<1>16. CASE NodeCancelled
  BY <1>16, TypeStop DEF NodeCancelled, Stopped, Result
<1>17. CASE RepositoryFails
  BY <1>17, TypeReturn DEF RepositoryFails, Result
<1>18. CASE KeepCopy
  BY <1>18 DEF KeepCopy, TypeOK, driverVars, counters
<1>19. CASE Cancel
  BY <1>19 DEF Cancel, TypeOK, counters
<1>20. CASE Crash
  <2>1. crashes' \in 0..MaxCrashes
    BY <1>20, BoundsAssumption DEF Crash, TypeOK
  <2> QED
    BY <1>20, <2>1, ZeroInBounds DEF Crash, TypeOK, Phase, Result
<1>21. CASE UNCHANGED vars
  BY <1>21 DEF vars, TypeOK
<1>22. CASE ResumeStale
  <2>1. /\ held.node \in NodeId /\ held.iter \in 0..MaxGraphSteps
        /\ held.last \in Registered \cup {NoNode}
    BY <1>22 DEF ResumeStale, Resume, TypeOK, LoopState
  <2>2. staleRuns' \in 0..MaxStale
    BY <1>22, BoundsAssumption DEF ResumeStale, CountStale, TypeOK
  <2> QED
    BY <1>22, <2>1, <2>2, TypeEnter DEF ResumeStale, Resume
<1> QED
  BY <1>1, <1>2, <1>3, <1>4, <1>5, <1>6, <1>7, <1>8, <1>9, <1>10, <1>11, <1>12,
     <1>13, <1>14, <1>15, <1>16, <1>17, <1>18, <1>19, <1>20, <1>21, <1>22
     DEF Next, Entry, Driver, NodeReturns

\* The runner's state is well typed, for every graph: in particular the
\* iteration never passes MaxGraphSteps and a saved checkpoint names a node id.
THEOREM TypeCorrect == Spec => []TypeOK
BY TypeInit, TypeNext, PTL DEF Spec

-------------------------------------------------------------------------------
(* The step budget of a loop across pauses, crashes and recoveries.        *)

\* The part of the budget that pick-ups from kept copies have added.
Granted == MaxGraphSteps * staleRuns

\* Executions are covered by the iteration the repository holds (or, once the
\* checkpoint is cleared, by one whole budget), and by the driver's own.
BudgetInv ==
    /\ ckpt.status # "Absent" => executions <= Granted + ckpt.iter
    /\ ckpt.status = "Absent" /\ result # "Finished" => executions <= Granted
    /\ ckpt.status = "Absent" => executions <= Granted + MaxGraphSteps
    /\ phase \in {"top", "running"} => executions <= Granted + iter
    /\ phase = "saved" => executions + 1 <= Granted + iter
    /\ phase = "saved" => ckpt.status = "Running" /\ ckpt.iter = iter
    /\ phase # "idle" => result = "none"

\* The granted budget is a natural number.
LEMMA GrantedType == TypeOK => Granted \in Nat
BY BoundsAssumption DEF TypeOK, Granted

\* One more pick-up from a kept copy grants one more budget.
LEMMA GrantedGrows ==
    ASSUME TypeOK, staleRuns' = staleRuns + 1
    PROVE  Granted' = Granted + MaxGraphSteps
<1>1. staleRuns \in Nat /\ MaxGraphSteps \in Nat
  BY BoundsAssumption DEF TypeOK
<1>2. MaxGraphSteps * (staleRuns + 1) = MaxGraphSteps * staleRuns + MaxGraphSteps
  BY <1>1
<1> QED
  BY <1>2 DEF Granted

\* A stop with a checkpoint of the driver's own iteration keeps the budget.
LEMMA BudgetStop ==
    ASSUME TypeOK, BudgetInv, phase # "idle", NEW s \in Stopped, NEW r \in Result,
           StopWith(s, r)
    PROVE  BudgetInv'
<1>1. ckpt'.status # "Absent" /\ ckpt'.iter = iter
  BY DEF StopWith, Checkpoint, Stopped
<1>2. phase' = "idle" /\ Granted' = Granted /\ executions' = executions
  BY DEF StopWith, Return, counters, Granted
<1>3. executions <= Granted + iter
  BY GrantedType, BoundsAssumption DEF BudgetInv, TypeOK, Phase
<1> QED
  BY <1>1, <1>2, <1>3 DEF BudgetInv

\* A return that leaves the checkpoint alone keeps the budget.
LEMMA BudgetReturn ==
    ASSUME TypeOK, BudgetInv, phase # "idle", NEW r \in Result, Return(r),
           UNCHANGED ckpt
    PROVE  BudgetInv'
<1>1. phase' = "idle" /\ Granted' = Granted /\ executions' = executions
  BY DEF Return, counters, Granted
<1>2. result = "none"
  BY DEF BudgetInv
<1> QED
  BY <1>1, <1>2 DEF BudgetInv

\* Every step keeps the budget invariant.
LEMMA BudgetNext == TypeOK /\ BudgetInv /\ [Next]_vars => BudgetInv'
<1> SUFFICES ASSUME TypeOK, BudgetInv, [Next]_vars PROVE BudgetInv'
  OBVIOUS
<1>0. /\ Granted \in Nat /\ executions \in Nat /\ MaxGraphSteps \in Nat
      /\ iter \in 0..MaxGraphSteps
      /\ ckpt.iter \in 0..MaxGraphSteps /\ held.iter \in 0..MaxGraphSteps
  BY GrantedType, BoundsAssumption DEF TypeOK, LoopState
<1>1. CASE Run
  <2>1. UNCHANGED <<ckpt, executions, Granted>> /\ phase' = "top" /\ result' = "none" /\ iter' = 0
    BY <1>1 DEF Run, Enter, counters, Granted
  <2>2. ckpt.status = "Absent" /\ result # "Finished"
    BY <1>1 DEF Run, NoCheckpoint
  <2> QED
    BY <1>0, <2>1, <2>2 DEF BudgetInv
<1>2. CASE ResumeFresh
  <2>1. /\ UNCHANGED <<ckpt, executions, Granted>> /\ phase' = "top"
        /\ result' = "none" /\ iter' = ckpt.iter
    BY <1>2 DEF ResumeFresh, Resume, Enter, Granted
  <2>2. ckpt.status # "Absent"
    BY <1>2 DEF ResumeFresh, Resume
  <2> QED
    BY <1>0, <2>1, <2>2 DEF BudgetInv
<1>3. CASE RecoverFresh
  <2>1. /\ UNCHANGED <<ckpt, executions, Granted>> /\ phase' = "top"
        /\ result' = "none" /\ iter' = ckpt.iter
    BY <1>3 DEF RecoverFresh, Recover, Enter, Granted
  <2>2. ckpt.status # "Absent"
    BY <1>3 DEF RecoverFresh, Recover
  <2> QED
    BY <1>0, <2>1, <2>2 DEF BudgetInv
<1>4. CASE RecoverStale
  <2>1. /\ UNCHANGED <<ckpt, executions>> /\ phase' = "top"
        /\ result' = "none" /\ iter' = held.iter
    BY <1>4 DEF RecoverStale, Recover, Enter
  <2>2. Granted' = Granted + MaxGraphSteps
    BY <1>4, GrantedGrows DEF RecoverStale, CountStale
  <2>3. executions <= Granted + MaxGraphSteps
    BY <1>0 DEF BudgetInv
  <2> QED
    BY <1>0, <2>1, <2>2, <2>3 DEF BudgetInv
<1>5. CASE CancelBeforeNode
  BY <1>5, BudgetStop DEF CancelBeforeNode, Stopped, Result
<1>6. CASE BudgetExhausted
  BY <1>6, BudgetStop DEF BudgetExhausted, Stopped, Result
<1>7. CASE UnknownNode
  BY <1>7, BudgetReturn DEF UnknownNode, Result
<1>8. CASE SaveRunning
  <2>1. ckpt'.status = "Running" /\ ckpt'.iter = iter + 1
    BY <1>8 DEF SaveRunning, Checkpoint
  <2>2. /\ phase = "top" /\ phase' = "saved" /\ iter' = iter + 1
        /\ UNCHANGED <<executions, result, Granted>>
    BY <1>8 DEF SaveRunning, counters, Granted
  <2> QED
    BY <1>0, <2>1, <2>2 DEF BudgetInv
<1>9. CASE StartNode
  <2>1. /\ phase = "saved" /\ phase' = "running" /\ executions' \in {executions, executions + 1}
        /\ UNCHANGED <<ckpt, iter, result, Granted>>
    BY <1>9 DEF StartNode, Granted
  <2> QED
    BY <1>0, <2>1 DEF BudgetInv
<1>10. ASSUME NEW b \in Branch, NodeAdvances(b) PROVE BudgetInv'
  <2>1. /\ phase = "running" /\ phase' = "top"
        /\ UNCHANGED <<ckpt, iter, result, executions, Granted>>
    BY <1>10 DEF NodeAdvances, Completed, counters, Granted
  <2> QED
    BY <2>1 DEF BudgetInv
<1>11. ASSUME NEW b \in Branch, MissingEdge(b) PROVE BudgetInv'
  BY <1>11, BudgetReturn DEF MissingEdge, Completed, Result
<1>12. CASE NodeFinishes
  <2>1. /\ phase = "running" /\ phase' = "idle" /\ ckpt'.status = "Absent"
        /\ result' = "Finished" /\ UNCHANGED <<executions, Granted>>
    BY <1>12 DEF NodeFinishes, Completed, Return, counters, NoCheckpoint, Granted
  <2> QED
    BY <1>0, <2>1 DEF BudgetInv
<1>13. CASE NodePauses
  <2>1. /\ phase = "running" /\ phase' = "idle" /\ ckpt'.status # "Absent"
        /\ ckpt'.iter = iter /\ UNCHANGED <<executions, Granted>>
    BY <1>13 DEF NodePauses, Completed, Return, counters, Checkpoint, Granted
  <2> QED
    BY <1>0, <2>1 DEF BudgetInv
<1>14. CASE NodeFails
  BY <1>14, BudgetStop DEF NodeFails, Stopped, Result
<1>15. CASE NodeTimesOut
  BY <1>15, BudgetStop DEF NodeTimesOut, Stopped, Result
<1>16. CASE NodeCancelled
  BY <1>16, BudgetStop DEF NodeCancelled, Stopped, Result
<1>17. CASE RepositoryFails
  BY <1>17, BudgetReturn DEF RepositoryFails, Result
<1>18. CASE KeepCopy
  BY <1>18 DEF KeepCopy, driverVars, counters, BudgetInv, Granted
<1>19. CASE Cancel
  BY <1>19 DEF Cancel, counters, BudgetInv, Granted
<1>20. CASE Crash
  <2>1. /\ phase # "idle" /\ phase' = "idle" /\ result' = "none"
        /\ UNCHANGED <<ckpt, executions, Granted>>
    BY <1>20 DEF Crash, Granted
  <2> QED
    BY <2>1 DEF BudgetInv
<1>21. CASE UNCHANGED vars
  BY <1>21 DEF vars, BudgetInv, Granted
<1>22. CASE ResumeStale
  <2>1. /\ UNCHANGED <<ckpt, executions>> /\ phase' = "top"
        /\ result' = "none" /\ iter' = held.iter
    BY <1>22 DEF ResumeStale, Resume, Enter
  <2>2. Granted' = Granted + MaxGraphSteps
    BY <1>22, GrantedGrows DEF ResumeStale, CountStale
  <2>3. executions <= Granted + MaxGraphSteps
    BY <1>0 DEF BudgetInv
  <2> QED
    BY <1>0, <2>1, <2>2, <2>3 DEF BudgetInv
<1> QED
  BY <1>1, <1>2, <1>3, <1>4, <1>5, <1>6, <1>7, <1>8, <1>9, <1>10, <1>11, <1>12,
     <1>13, <1>14, <1>15, <1>16, <1>17, <1>18, <1>19, <1>20, <1>21, <1>22
     DEF Next, Entry, Driver, NodeReturns

\* However often a loop is paused, killed and picked up again, its nodes run at
\* most MaxGraphSteps times, plus one budget for each resume or recovery from a
\* copy the caller kept (execution_graph.rs saves the counted iteration before the
\* node).
THEOREM StepBudgetHolds == Spec => []StepBudget
<1>1. Init => BudgetInv
  <2> SUFFICES ASSUME Init PROVE BudgetInv
    OBVIOUS
  <2>1. TypeOK
    BY TypeInit
  <2>2. ckpt.status = "Absent" /\ phase = "idle" /\ executions = 0
    BY DEF Init, NoCheckpoint
  <2> QED
    BY <2>1, <2>2, GrantedType, BoundsAssumption DEF BudgetInv
<1>2. TypeOK /\ BudgetInv => StepBudget
  <2> SUFFICES ASSUME TypeOK, BudgetInv PROVE StepBudget
    OBVIOUS
  <2>1. /\ Granted \in Nat /\ executions \in Nat /\ MaxGraphSteps \in Nat
        /\ staleRuns \in Nat /\ ckpt.iter \in 0..MaxGraphSteps
    BY GrantedType, BoundsAssumption DEF TypeOK, LoopState
  <2>2. executions <= Granted + MaxGraphSteps
    BY <2>1 DEF BudgetInv
  <2>3. MaxGraphSteps * (1 + staleRuns) = MaxGraphSteps * staleRuns + MaxGraphSteps
    BY <2>1
  <2> QED
    BY <2>1, <2>2, <2>3 DEF StepBudget, Budget, Granted
<1> QED
  BY <1>1, <1>2, TypeInit, TypeNext, BudgetNext, PTL DEF Spec

-------------------------------------------------------------------------------
(* Where a checkpoint may point.                                           *)

\* The driver, the repository and the caller's copy all stand on the graph.
PathInv ==
    /\ phase # "idle" => OnPath(last, node)
    /\ ckpt.status \in {"Running", "Paused"} => OnPath(ckpt.last, ckpt.node)
    /\ held.status \in {"Running", "Paused"} => OnPath(held.last, held.node)

\* A stop with a final checkpoint stays on the graph.
LEMMA PathStop ==
    ASSUME PathInv, NEW s \in Stopped, NEW r \in Result, StopWith(s, r)
    PROVE  PathInv'
BY DEF PathInv, StopWith, Checkpoint, Return, Stopped, counters

\* A return that leaves the checkpoint alone stays on the graph.
LEMMA PathReturn ==
    ASSUME PathInv, NEW r \in Result, Return(r), UNCHANGED ckpt
    PROVE  PathInv'
BY DEF PathInv, Return, counters

\* Every step keeps driver, repository and kept copy on the graph.
LEMMA PathNext == TypeOK /\ PathInv /\ [Next]_vars => PathInv'
<1> SUFFICES ASSUME TypeOK, PathInv, [Next]_vars PROVE PathInv'
  OBVIOUS
<1>1. CASE Run
  BY <1>1 DEF Run, Enter, PathInv, OnPath
<1>2. CASE ResumeFresh
  BY <1>2 DEF ResumeFresh, Resume, Enter, PathInv
<1>3. CASE RecoverFresh
  BY <1>3 DEF RecoverFresh, Recover, Enter, PathInv
<1>4. CASE RecoverStale
  BY <1>4 DEF RecoverStale, Recover, Enter, PathInv
<1>5. CASE CancelBeforeNode
  BY <1>5, PathStop DEF CancelBeforeNode, Stopped, Result
<1>6. CASE BudgetExhausted
  BY <1>6, PathStop DEF BudgetExhausted, Stopped, Result
<1>7. CASE UnknownNode
  BY <1>7, PathReturn DEF UnknownNode, Result
<1>8. CASE SaveRunning
  <2>1. ckpt'.last = last /\ ckpt'.node = node
    BY <1>8 DEF SaveRunning, Checkpoint
  <2> QED
    BY <1>8, <2>1 DEF SaveRunning, PathInv
<1>9. CASE StartNode
  BY <1>9 DEF StartNode, PathInv
<1>10. ASSUME NEW b \in Branch, NodeAdvances(b) PROVE PathInv'
  <2>1. OnPath(last', node')
    BY <1>10 DEF NodeAdvances, OnPath
  <2> QED
    BY <1>10, <2>1 DEF NodeAdvances, PathInv
<1>11. ASSUME NEW b \in Branch, MissingEdge(b) PROVE PathInv'
  BY <1>11, PathReturn DEF MissingEdge, Result
<1>12. CASE NodeFinishes
  BY <1>12 DEF NodeFinishes, Return, NoCheckpoint, counters, PathInv
<1>13. CASE NodePauses
  <2>1. ckpt'.last = node /\ ckpt'.node = node /\ node \in Pausing
    BY <1>13 DEF NodePauses, Checkpoint
  <2> QED
    BY <1>13, <2>1 DEF NodePauses, Return, counters, PathInv, OnPath
<1>14. CASE NodeFails
  BY <1>14, PathStop DEF NodeFails, Stopped, Result
<1>15. CASE NodeTimesOut
  BY <1>15, PathStop DEF NodeTimesOut, Stopped, Result
<1>16. CASE NodeCancelled
  BY <1>16, PathStop DEF NodeCancelled, Stopped, Result
<1>17. CASE RepositoryFails
  BY <1>17, PathReturn DEF RepositoryFails, Result
<1>18. CASE KeepCopy
  BY <1>18 DEF KeepCopy, driverVars, PathInv
<1>19. CASE Cancel
  BY <1>19 DEF Cancel, PathInv
<1>20. CASE Crash
  BY <1>20 DEF Crash, PathInv
<1>21. CASE UNCHANGED vars
  BY <1>21 DEF vars, PathInv
<1>22. CASE ResumeStale
  BY <1>22 DEF ResumeStale, Resume, Enter, PathInv
<1> QED
  BY <1>1, <1>2, <1>3, <1>4, <1>5, <1>6, <1>7, <1>8, <1>9, <1>10, <1>11, <1>12,
     <1>13, <1>14, <1>15, <1>16, <1>17, <1>18, <1>19, <1>20, <1>21, <1>22
     DEF Next, Entry, Driver, NodeReturns

\* A checkpoint that can be picked up names the start node, a node the graph leads
\* to from the last node that completed, or that last node itself if it is one that
\* pauses; on every graph and after any crash, pause, resume or recovery.
THEOREM CheckpointOnGraphPathHolds == Spec => []CheckpointOnGraphPath
<1>1. Init => PathInv
  BY DEF Init, PathInv, NoCheckpoint
<1>2. PathInv => CheckpointOnGraphPath
  BY DEF PathInv, CheckpointOnGraphPath
<1> QED
  BY <1>1, <1>2, TypeInit, TypeNext, PathNext, PTL DEF Spec

-------------------------------------------------------------------------------
(* Loops that stopped.                                                     *)

\* A loop that was cancelled, timed out or failed is never entered again, unless
\* a resume or a recovery is handed a copy of the checkpoint from before the stop.
THEOREM StoppedStaysStoppedHolds == Spec => StoppedStaysStopped
<1>1. TypeOK /\ [Next]_vars
        => [ckpt.status \in Stopped /\ phase = "idle" /\ staleRuns' = staleRuns
              => UNCHANGED <<ckpt, phase>>]_vars
  <2> SUFFICES ASSUME TypeOK, [Next]_vars, ckpt.status \in Stopped, phase = "idle",
                      staleRuns' = staleRuns
               PROVE  UNCHANGED <<ckpt, phase>>
    OBVIOUS
  <2>1. ckpt.status \notin {"Absent", "Running", "Paused"}
    BY DEF Stopped
  <2>2. ~Run /\ ~ResumeFresh /\ ~RecoverFresh
    BY <2>1 DEF Run, ResumeFresh, Resume, RecoverFresh, Recover, NoCheckpoint
  <2>3. ~ResumeStale /\ ~RecoverStale
    BY DEF ResumeStale, RecoverStale, CountStale, TypeOK
  <2>4. ~Driver
    BY DEF Driver, CancelBeforeNode, BudgetExhausted, UnknownNode, SaveRunning,
           StartNode, NodeReturns, NodeAdvances, MissingEdge, NodeFinishes,
           NodePauses, NodeFails, NodeTimesOut, NodeCancelled, Completed
  <2>5. ~RepositoryFails /\ ~Cancel /\ ~Crash
    BY DEF RepositoryFails, Cancel, Crash
  <2>6. CASE KeepCopy
    BY <2>6 DEF KeepCopy, driverVars
  <2>7. CASE UNCHANGED vars
    BY <2>7 DEF vars
  <2> QED
    BY <2>2, <2>3, <2>4, <2>5, <2>6, <2>7 DEF Next, Entry
<1> QED
  BY <1>1, TypeCorrect, PTL DEF Spec, StoppedStaysStopped

===============================================================================
