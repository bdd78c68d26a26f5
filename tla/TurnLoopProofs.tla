---------------------------- MODULE TurnLoopProofs ----------------------------
(***************************************************************************)
(* Proofs about TurnLoop, for both profiles, all tools, all answers of the *)
(* model and all bounds.  A turn is a run of the graph runner, so what is   *)
(* proved of GraphRunner for every graph holds of it; on top of that, its   *)
(* own invariants.                                                          *)
(***************************************************************************)
EXTENDS TurnLoop, TLAPS

\* The proofs about the runner, for the graphs of a turn.
RP == INSTANCE GraphRunnerProofs WITH
        NodeId <- Node,
        Registered <- Node,
        Start <- IF MemoryAware THEN "ingest_user_input" ELSE "assemble_external_context",
        Branch <- {"default", "needs_tools"},
        Edge <- Edges,
        Emits <- [n \in Node |-> IF n \in ModelNode THEN {"default", "needs_tools"}
                                 ELSE IF n = FinishNode THEN {} ELSE {"default"}],
        Finishing <- {FinishNode},
        Pausing <- {},
        ToolNode <- {"execute_tools"},
        NoNode <- "none"

-------------------------------------------------------------------------------
(* The two graphs. *)

\* The nodes of the memory-aware graph and their default successors.
LEMMA MemoryAwareGraph ==
    ASSUME MemoryAware
    PROVE  /\ Node = {"ingest_user_input", "load_session_view", "build_activation_query",
                      "activate_memory", "assemble_context", "run_model", "execute_tools",
                      "build_followup_activation_query", "reactivate_memory",
                      "reassemble_context", "run_model_after_tools",
                      "persist_assistant_output", "mark_session_overflow",
                      "distill_current_loop"}
           /\ DefaultNext = MemoryAwareNext
           /\ DOMAIN DefaultNext = Node \ {FinishNode}
           /\ FinishNode = "distill_current_loop"
           /\ ModelNode = {"run_model", "run_model_after_tools"}
BY DEF Node, DefaultNext, MemoryAwareNext, FinishNode, ModelNode

\* The same for the external-context graph.
LEMMA ExternalGraph ==
    ASSUME ~MemoryAware
    PROVE  /\ Node = {"assemble_external_context", "run_model_external_context",
                      "execute_tools", "run_model_external_context_after_tools",
                      "finalize_external_response"}
           /\ DefaultNext = ExternalNext
           /\ DOMAIN DefaultNext = Node \ {FinishNode}
           /\ FinishNode = "finalize_external_response"
           /\ ModelNode = {"run_model_external_context",
                           "run_model_external_context_after_tools"}
BY DEF Node, DefaultNext, ExternalNext, FinishNode, ModelNode

\* Nodes on the way to a model request.
Asking == IF MemoryAware
          THEN Node \ {"execute_tools", "persist_assistant_output", "mark_session_overflow",
                       "distill_current_loop"}
          ELSE Node \ {"execute_tools", "finalize_external_response"}

\* Edges as the proofs use them: the next node of a label.
LEMMA EdgeValues ==
    /\ DOMAIN Edges = {<<n, "default">> : n \in DOMAIN DefaultNext}
                        \cup {<<n, "needs_tools">> : n \in ModelNode}
    /\ \A n \in DOMAIN DefaultNext : Edges[<<n, "default">>] = DefaultNext[n]
    /\ \A n \in ModelNode : Edges[<<n, "needs_tools">>] = "execute_tools"
BY DEF Edges

\* A default edge leads to a node; before a request it leads on to the request,
\* after the answer it leads away from it, and from the tools back to it.
LEMMA DefaultEdges ==
    ASSUME NEW n \in Node \ {FinishNode}
    PROVE  /\ DefaultNext[n] \in Node \ {"execute_tools"}
           /\ n \in Asking \ ModelNode => DefaultNext[n] \in Asking
           /\ n = "execute_tools" => DefaultNext[n] \in Asking
           /\ n \in ModelNode => DefaultNext[n] \notin Asking
           /\ n \notin Asking \cup {"execute_tools"} => DefaultNext[n] \notin Asking
<1>1. CASE MemoryAware
  <2>1. /\ MemoryAwareNext["ingest_user_input"] = "load_session_view"
        /\ MemoryAwareNext["load_session_view"] = "build_activation_query"
        /\ MemoryAwareNext["build_activation_query"] = "activate_memory"
        /\ MemoryAwareNext["activate_memory"] = "assemble_context"
        /\ MemoryAwareNext["assemble_context"] = "run_model"
        /\ MemoryAwareNext["run_model"] = "persist_assistant_output"
        /\ MemoryAwareNext["execute_tools"] = "build_followup_activation_query"
        /\ MemoryAwareNext["build_followup_activation_query"] = "reactivate_memory"
        /\ MemoryAwareNext["reactivate_memory"] = "reassemble_context"
        /\ MemoryAwareNext["reassemble_context"] = "run_model_after_tools"
        /\ MemoryAwareNext["run_model_after_tools"] = "persist_assistant_output"
        /\ MemoryAwareNext["persist_assistant_output"] = "mark_session_overflow"
        /\ MemoryAwareNext["mark_session_overflow"] = "distill_current_loop"
    BY DEF MemoryAwareNext
  <2> QED
    BY <1>1, <2>1, MemoryAwareGraph DEF Asking
<1>2. CASE ~MemoryAware
  <2>1. /\ ExternalNext["assemble_external_context"] = "run_model_external_context"
        /\ ExternalNext["run_model_external_context"] = "finalize_external_response"
        /\ ExternalNext["execute_tools"] = "run_model_external_context_after_tools"
        /\ ExternalNext["run_model_external_context_after_tools"] = "finalize_external_response"
    BY DEF ExternalNext
  <2> QED
    BY <1>2, <2>1, ExternalGraph DEF Asking
<1> QED
  BY <1>1, <1>2

\* What the proofs need of the nodes.
LEMMA NodeFacts ==
    /\ "execute_tools" \in Node
    /\ "none" \notin Node
    /\ FinishNode \in Node \ (Asking \cup {"execute_tools"})
    /\ ModelNode \subseteq Asking
    /\ Asking \subseteq Node \ {"execute_tools"}
    /\ DOMAIN DefaultNext = Node \ {FinishNode}
<1>1. CASE MemoryAware
  BY <1>1, MemoryAwareGraph DEF Asking
<1>2. CASE ~MemoryAware
  BY <1>2, ExternalGraph DEF Asking
<1> QED
  BY <1>1, <1>2

\* The graphs of a turn are graphs the runner accepts.
LEMMA TurnGraph == RP!GraphAssumption /\ RP!BoundsAssumption
<1>1. DOMAIN Edges \subseteq Node \X {"default", "needs_tools"}
  BY NodeFacts, EdgeValues
<1>2. \A e \in DOMAIN Edges : Edges[e] \in Node
  BY NodeFacts, EdgeValues, DefaultEdges
<1>3. (IF MemoryAware THEN "ingest_user_input" ELSE "assemble_external_context") \in Node
  BY MemoryAwareGraph, ExternalGraph
<1> QED
  BY <1>1, <1>2, <1>3, NodeFacts, TurnBoundsAssumption
  DEF RP!GraphAssumption, RP!BoundsAssumption

-------------------------------------------------------------------------------
(* A turn is a run of the runner. *)

\* R (the runner TurnLoop is built from) and RP (the one the proofs are about)
\* are the same instance.
LEMMA SameRunner ==
    /\ R!Init <=> RP!Init
    /\ R!Run <=> RP!Run
    /\ R!RecoverFresh <=> RP!RecoverFresh
    /\ R!RecoverStale <=> RP!RecoverStale
    /\ R!KeepCopy <=> RP!KeepCopy
    /\ R!CancelBeforeNode <=> RP!CancelBeforeNode
    /\ R!BudgetExhausted <=> RP!BudgetExhausted
    /\ R!SaveRunning <=> RP!SaveRunning
    /\ R!StartNode <=> RP!StartNode
    /\ \A b \in {"default", "needs_tools"} : R!NodeAdvances(b) <=> RP!NodeAdvances(b)
    /\ R!NodeFinishes <=> RP!NodeFinishes
    /\ R!NodeFails <=> RP!NodeFails
    /\ R!NodeTimesOut <=> RP!NodeTimesOut
    /\ R!NodeCancelled <=> RP!NodeCancelled
    /\ R!RepositoryFails <=> RP!RepositoryFails
    /\ R!Cancel <=> RP!Cancel
    /\ R!Crash <=> RP!Crash
<1> USE DEF R!NoCheckpoint, RP!NoCheckpoint, R!Enter, RP!Enter, R!counters, RP!counters,
            R!driverVars, RP!driverVars, R!Return, RP!Return, R!StopWith, RP!StopWith,
            R!Checkpoint, RP!Checkpoint, R!Completed, RP!Completed
<1>1. R!Init <=> RP!Init
  BY DEF R!Init, RP!Init
<1>2. R!Run <=> RP!Run
  BY DEF R!Run, RP!Run
<1>3. R!RecoverFresh <=> RP!RecoverFresh
  BY DEF R!RecoverFresh, RP!RecoverFresh, R!Recover, RP!Recover
<1>4. R!RecoverStale <=> RP!RecoverStale
  BY DEF R!RecoverStale, RP!RecoverStale, R!Recover, RP!Recover,
         R!CountStale, RP!CountStale
<1>5. R!KeepCopy <=> RP!KeepCopy
  BY DEF R!KeepCopy, RP!KeepCopy
<1>6. R!CancelBeforeNode <=> RP!CancelBeforeNode
  BY DEF R!CancelBeforeNode, RP!CancelBeforeNode
<1>7. R!BudgetExhausted <=> RP!BudgetExhausted
  BY DEF R!BudgetExhausted, RP!BudgetExhausted
<1>8. R!SaveRunning <=> RP!SaveRunning
  BY DEF R!SaveRunning, RP!SaveRunning
<1>9. R!StartNode <=> RP!StartNode
  BY DEF R!StartNode, RP!StartNode, R!Budget, RP!Budget
<1>10. \A b \in {"default", "needs_tools"} : R!NodeAdvances(b) <=> RP!NodeAdvances(b)
  BY DEF R!NodeAdvances, RP!NodeAdvances
<1>11. R!NodeFinishes <=> RP!NodeFinishes
  BY DEF R!NodeFinishes, RP!NodeFinishes
<1>12. R!NodeFails <=> RP!NodeFails
  BY DEF R!NodeFails, RP!NodeFails
<1>13. R!NodeTimesOut <=> RP!NodeTimesOut
  BY DEF R!NodeTimesOut, RP!NodeTimesOut
<1>14. R!NodeCancelled <=> RP!NodeCancelled
  BY DEF R!NodeCancelled, RP!NodeCancelled
<1>15. R!RepositoryFails <=> RP!RepositoryFails
  BY DEF R!RepositoryFails, RP!RepositoryFails
<1>16. R!Cancel <=> RP!Cancel
  BY DEF R!Cancel, RP!Cancel
<1>17. R!Crash <=> RP!Crash
  BY DEF R!Crash, RP!Crash
<1> QED
  BY <1>1, <1>2, <1>3, <1>4, <1>5, <1>6, <1>7, <1>8, <1>9, <1>10, <1>11, <1>12,
     <1>13, <1>14, <1>15, <1>16, <1>17

\* Every step of a turn is a step of the runner, or leaves the runner alone.
LEMMA TurnStep == [Next]_vars => [RP!Next]_(RP!vars)
<1> SUFFICES ASSUME [Next]_vars PROVE RP!Next \/ UNCHANGED RP!vars
  OBVIOUS
<1>1. CASE Entry
  BY <1>1, SameRunner
  DEF Entry, RunTurn, RecoverInterrupted, RecoverKeptCopy, RP!Next, RP!Entry
<1>2. CASE SaveRunning \/ StartNode \/ StopBeforeNode \/ NodeCancelled
  BY <1>2, SameRunner
  DEF SaveRunning, StartNode, StopBeforeNode, NodeCancelled, RP!Next, RP!Driver, RP!NodeReturns
<1>3. ASSUME NEW b \in {"default", "needs_tools"}, NEW t, Continue(b, t)
      PROVE  RP!Next
  BY <1>3, SameRunner DEF Continue, RP!Next, RP!Driver, RP!NodeReturns
<1>4. CASE PassThrough \/ ModelReturns \/ ToolsComplete
  BY <1>3, <1>4
  DEF PassThrough, ModelReturns, ModelAsksForTools, ModelOutOfRounds, ModelAnswers, ToolsComplete
<1>5. CASE IngestUserInput \/ PersistAssistantOutput \/ RequestModel \/ Prepare
  BY <1>5
  DEF IngestUserInput, PersistAssistantOutput, RequestModel, Prepare, Effect, driver, RP!vars
<1>6. ASSUME NEW i \in Calls,
             Dispatch(i) \/ CallDone(i) \/ OutcomeUnknown(i) \/ CallCancelled(i) \/ PersistResult(i)
      PROVE  UNCHANGED RP!vars
  BY <1>6
  DEF Dispatch, CallDone, OutcomeUnknown, CallCancelled, PersistResult, SetCall, driver, RP!vars
<1>7. CASE ToolsCancelled \/ ToolsIndeterminate
  BY <1>7, SameRunner DEF ToolsCancelled, ToolsIndeterminate, RP!Next, RP!Driver, RP!NodeReturns
<1>8. CASE Finish
  BY <1>8, SameRunner DEF Finish, FinishTurn, RP!Next, RP!Driver, RP!NodeReturns
<1>9. CASE Failure
  BY <1>9, SameRunner
  DEF Failure, NodeStopped, RepositoryFails, RP!Next, RP!Driver, RP!NodeReturns
<1>10. CASE KeepCopy \/ Cancel \/ Crash
  BY <1>10, SameRunner DEF KeepCopy, Cancel, Crash, RP!Next
<1>11. CASE UNCHANGED vars
  BY <1>11 DEF vars, driver, RP!vars
<1> QED
  BY <1>1, <1>2, <1>4, <1>5, <1>6, <1>7, <1>8, <1>9, <1>10, <1>11
  DEF Next, Progress, ToolStep

\* A turn implements the runner: hidden the state of its nodes, each of its
\* behaviours is one of GraphRunner on the graph of its profile.
THEOREM TurnImplementsRunner == Spec => RP!Spec
<1>1. Init => RP!Init
  BY SameRunner DEF Init
<1>2. [Next]_vars => [RP!Next]_(RP!vars)
  BY TurnStep
<1> QED
  BY <1>1, <1>2, PTL DEF Spec, RP!Spec

\* So what the runner promises for every graph it promises for a turn: the step
\* budget through crashes and recoveries, a checkpoint on the graph's path, and
\* that a stopped loop stays stopped.
THEOREM TurnKeepsRunnerProperties ==
    Spec => []R!StepBudget /\ []R!CheckpointOnGraphPath /\ R!StoppedStaysStopped
<1>1. R!StepBudget <=> RP!StepBudget
  BY DEF R!StepBudget, RP!StepBudget, R!Budget, RP!Budget
<1>2. R!CheckpointOnGraphPath <=> RP!CheckpointOnGraphPath
  BY DEF R!CheckpointOnGraphPath, RP!CheckpointOnGraphPath, R!OnPath, RP!OnPath
<1>3. [ckpt.status \in RP!Stopped /\ phase = "idle" /\ staleRuns' = staleRuns
          => UNCHANGED <<ckpt, phase>>]_(RP!vars)
      => [ckpt.status \in R!Stopped /\ phase = "idle" /\ staleRuns' = staleRuns
          => UNCHANGED <<ckpt, phase>>]_(R!vars)
  BY DEF R!Stopped, RP!Stopped, R!vars, RP!vars
<1>4. RP!StoppedStaysStopped => R!StoppedStaysStopped
  BY <1>3, PTL DEF R!StoppedStaysStopped, RP!StoppedStaysStopped
<1>5. Spec => []RP!StepBudget /\ []RP!CheckpointOnGraphPath /\ RP!StoppedStaysStopped
  BY TurnGraph, TurnImplementsRunner, RP!StepBudgetHolds, RP!CheckpointOnGraphPathHolds,
     RP!StoppedStaysStoppedHolds, PTL
<1> QED
  BY <1>1, <1>2, <1>4, <1>5, PTL

\* And it has the runner's types.
LEMMA RunnerTypes == Spec => []R!TypeOK
<1>1. R!TypeOK <=> RP!TypeOK
  BY DEF R!TypeOK, RP!TypeOK, R!Phase, RP!Phase, R!LoopState, RP!LoopState,
         R!CheckpointStatus, RP!CheckpointStatus, R!Stopped, RP!Stopped, R!Result, RP!Result
<1> QED
  BY <1>1, TurnGraph, TurnImplementsRunner, RP!TypeCorrect, PTL

-------------------------------------------------------------------------------
(* The shapes a step can have, as far as the invariants below look at it. *)

Stays == UNCHANGED <<phase, node, ckpt, held, result>>

Enters(n, t) ==
    /\ phase = "idle" /\ phase' = "top" /\ node' = n /\ turn' = t /\ result' = "none"
    /\ UNCHANGED <<ckpt, held, effect, tools, saved, kept, world>>

\* A step of the runner inside an iteration.
Waits ==
    /\ phase' = phase \/ (phase = "saved" /\ phase' = "running")
    /\ UNCHANGED <<node, ckpt, held, result, local, saved, kept, world>>

Copies ==
    /\ ckpt.status \in {"Running", "Paused"} /\ held' = ckpt /\ kept' = saved
    /\ UNCHANGED <<phase, node, ckpt, result, local, saved, world>>

Saves ==
    /\ phase = "top" /\ phase' = "saved"
    /\ ckpt'.status = "Running" /\ ckpt'.node = node /\ saved' = turn
    /\ UNCHANGED <<node, held, result, local, kept, world>>

Leaves == phase # "idle" /\ phase' = "idle" /\ Forget /\ UNCHANGED <<held, kept, world>>

Stops ==
    /\ Leaves /\ result' # "Finished"
    /\ ckpt'.status \in R!Stopped /\ ckpt'.node = node /\ saved' = turn
Drops == Leaves /\ result' # "Finished" /\ UNCHANGED <<ckpt, saved>>
Ends ==
    /\ Leaves /\ result' = "Finished" /\ node = FinishNode
    /\ ckpt'.status = "Absent" /\ saved' = FreshTurn

Moves(b, t) ==
    /\ phase = "running" /\ phase' = "top"
    /\ <<node, b>> \in DOMAIN Edges /\ node' = Edges[<<node, b>>]
    /\ turn' = t /\ effect' = FALSE /\ tools' = <<>>
    /\ UNCHANGED <<ckpt, held, result, saved, kept, world>>

\* A node that only keeps or fills in the answer.
Passes ==
    /\ node \notin ModelNode \cup {"execute_tools"}
    /\ node \in {"ingest_user_input", "persist_assistant_output"} => effect
    /\ \E t \in {turn, [turn EXCEPT !.answer = Answer]} :
          /\ Moves("default", t)
          /\ t = IF node = "persist_assistant_output" THEN [turn EXCEPT !.answer = Answer] ELSE turn

ModelMoves ==
    /\ node \in ModelNode /\ effect
    /\ \/ \E calls \in Outputs :
             /\ turn.rounds < MaxToolRounds
             /\ Moves("needs_tools", [turn EXCEPT !.pending = calls])
       \/ \E calls \in Outputs \cup {<<>>}, a \in {Limit, NoAnswer, Reply(Len(requests))} :
             Moves("default", [turn EXCEPT !.pending = calls, !.answer = a])

ToolsMove ==
    /\ Executing /\ \A i \in Calls : Handled(i)
    /\ Moves("default", [turn EXCEPT !.rounds = @ + 1, !.pending = <<>>])

\* An effect of the running node that is not a tool call.
Acts ==
    /\ phase = "running" /\ ~effect /\ effect' = TRUE /\ Stays
    /\ UNCHANGED <<turn, saved, kept, sent>>
    /\ \/ /\ node \notin ModelNode \cup {"execute_tools"}
          /\ \/ node = "ingest_user_input" /\ raw' = [raw EXCEPT !.user = TRUE]
             \/ /\ node = "persist_assistant_output"
                /\ raw' = [raw EXCEPT !.answer = IF @ = NoAnswer THEN Answer ELSE @]
          /\ UNCHANGED <<tools, requests>>
       \/ /\ node \in ModelNode /\ requests' = Append(requests, turn.rounds)
          /\ UNCHANGED <<tools, raw>>
       \/ /\ node = "execute_tools" /\ UNCHANGED <<raw, requests>>
          /\ tools' = [i \in DOMAIN turn.pending |->
                         IF MemoryAware /\ OpKey(i) \in raw.tools THEN "cached" ELSE "todo"]

\* One tool call changes its status.
CallStep(i) ==
    /\ Dispatch(i) \/ CallDone(i) \/ OutcomeUnknown(i) \/ CallCancelled(i) \/ PersistResult(i)

EntryStep ==
    \/ /\ ckpt.status = "Absent" /\ result = "none"
       /\ Enters(IF MemoryAware THEN "ingest_user_input" ELSE "assemble_external_context", turn)
    \/ ckpt.status = "Running" /\ RecoverySafe(ckpt, saved) /\ Enters(ckpt.node, saved)
    \/ /\ staleRuns < MaxStale /\ held.status = "Running" /\ RecoverySafe(held, kept)
       /\ Enters(held.node, kept)

\* Every step has one of these shapes.
LEMMA Shapes ==
    ASSUME [Next]_vars
    PROVE  \/ EntryStep \/ Waits \/ Copies \/ Saves \/ Stops \/ Drops \/ Ends
           \/ Passes \/ ModelMoves \/ ToolsMove \/ Acts \/ \E i \in Calls : CallStep(i)
<1> USE DEF R!Enter, R!NoCheckpoint, R!Return, R!StopWith, R!Checkpoint, R!counters,
            R!driverVars, R!Recover
<1>1. RunTurn => EntryStep
  BY DEF RunTurn, EntryStep, Enters, R!Run, local
<1>2. RecoverInterrupted => EntryStep
  BY DEF RecoverInterrupted, EntryStep, Enters, R!RecoverFresh
<1>3. RecoverKeptCopy => EntryStep
  BY DEF RecoverKeptCopy, EntryStep, Enters, R!RecoverStale, R!CountStale
<1>4. SaveRunning => Saves
  BY DEF SaveRunning, SaveState, Saves, R!SaveRunning
<1>5. StartNode => Waits
  BY DEF StartNode, Waits, R!StartNode
<1>6. StopBeforeNode => Stops
  BY DEF StopBeforeNode, SaveState, Stops, Leaves, R!CancelBeforeNode, R!BudgetExhausted, R!Stopped
<1>7. NodeStopped \/ NodeCancelled => Stops
  BY DEF NodeStopped, NodeCancelled, SaveState, Stops, Leaves, R!NodeFails, R!NodeTimesOut,
         R!NodeCancelled, R!Stopped
<1>8. ToolsCancelled \/ ToolsIndeterminate => Stops
  BY DEF ToolsCancelled, ToolsIndeterminate, SaveState, Stops, Leaves, R!NodeFails,
         R!NodeCancelled, R!Stopped
<1>9. RepositoryFails \/ Crash => Drops
  BY DEF RepositoryFails, Crash, Drops, Leaves, R!RepositoryFails, R!Crash
<1>10. Finish => Ends
  BY DEF Finish, Running, FinishTurn, Ends, Leaves, R!NodeFinishes
<1>11. ASSUME NEW b, NEW t, Continue(b, t) PROVE Moves(b, t)
  BY <1>11 DEF Continue, Moves, R!NodeAdvances, R!Completed
<1>12. PassThrough => Passes
  <2>1. "persist_assistant_output" \notin ModelNode /\ "ingest_user_input" \notin ModelNode
    BY MemoryAwareGraph, ExternalGraph
  <2> QED
    BY <1>11, <2>1 DEF PassThrough, Passes, PassiveNode
<1>13. ModelReturns => ModelMoves
  <2>1. ASSUME NEW calls \in Outputs, ModelAsksForTools(calls) PROVE ModelMoves
    BY <1>11, <2>1 DEF ModelAsksForTools, ModelMoves
  <2>2. ASSUME NEW calls \in Outputs, ModelOutOfRounds(calls) PROVE ModelMoves
    BY <1>11, <2>2 DEF ModelOutOfRounds, ModelMoves
  <2>3. ASSUME NEW text \in BOOLEAN, ModelAnswers(text) PROVE ModelMoves
    BY <1>11, <2>3 DEF ModelAnswers, ModelMoves
  <2> QED
    BY <2>1, <2>2, <2>3 DEF ModelReturns
<1>14. ToolsComplete => ToolsMove
  BY <1>11 DEF ToolsComplete, ToolsMove
<1>15. IngestUserInput \/ PersistAssistantOutput => Acts
  <2>1. "persist_assistant_output" \notin ModelNode /\ "ingest_user_input" \notin ModelNode
    BY MemoryAwareGraph, ExternalGraph
  <2> QED
    BY <2>1 DEF IngestUserInput, PersistAssistantOutput, Running, Effect, Acts, Stays, driver
<1>16. RequestModel => Acts
  BY DEF RequestModel, Effect, Acts, Stays, driver
<1>17. Prepare => Acts
  BY DEF Prepare, Running, Effect, Acts, Stays, driver, world
<1>18. KeepCopy => Copies
  BY DEF KeepCopy, Copies, R!KeepCopy
<1>19. Cancel \/ UNCHANGED vars => Waits
  BY DEF Cancel, Waits, R!Cancel, vars, driver
<1> QED
  BY <1>1, <1>2, <1>3, <1>4, <1>5, <1>6, <1>7, <1>8, <1>9, <1>10, <1>12, <1>13, <1>14,
     <1>15, <1>16, <1>17, <1>18, <1>19
  DEF Next, Entry, Progress, Failure, ToolStep, CallStep

-------------------------------------------------------------------------------
(* Types. *)

AnswerKind == {"none", "limit", "placeholder", "reply"}
TurnState == [rounds : 0..MaxToolRounds, pending : Outputs \cup {<<>>},
              answer : [kind : AnswerKind, reply : Nat]]

StateTypes ==
    /\ turn \in TurnState /\ saved \in TurnState /\ kept \in TurnState
    /\ turn.answer.reply <= Len(requests)
    /\ saved.answer.reply <= Len(requests)
    /\ kept.answer.reply <= Len(requests)

WorldTypes ==
    /\ raw \in [user : BOOLEAN, answer : [kind : AnswerKind, reply : Nat], tools : SUBSET Key]
    /\ requests \in Seq(0..MaxToolRounds)
    /\ sent \in [Key -> Nat]

CallTypes ==
    /\ effect \in BOOLEAN
    /\ effect => phase = "running"
    /\ tools \in Seq(CallStatus)
    /\ tools # <<>> => effect /\ node = "execute_tools"
    /\ effect /\ node = "execute_tools" => Len(tools) = Len(turn.pending)

\* Tools are only run while there are rounds left; the model node saw to it.
RoomInv ==
    /\ phase # "idle" /\ node = "execute_tools" => turn.rounds < MaxToolRounds
    /\ ckpt.status = "Running" /\ ckpt.node = "execute_tools" => saved.rounds < MaxToolRounds
    /\ held.status = "Running" /\ held.node = "execute_tools" => kept.rounds < MaxToolRounds

TypeInv == StateTypes /\ WorldTypes /\ CallTypes /\ RoomInv

\* The state of a fresh turn.
LEMMA FreshTypes == FreshTurn \in TurnState /\ FreshTurn.answer.reply = 0
BY ToolAssumption DEF FreshTurn, TurnState, NoAnswer, AnswerKind

\* No calls are being executed, now or after a step.
LEMMA NoCalls ==
    /\ effect = FALSE /\ tools = <<>> => CallTypes
    /\ effect' = FALSE /\ tools' = <<>> => CallTypes'
<1>1. <<>> \in Seq(CallStatus)
  OBVIOUS
<1>2. effect = FALSE /\ tools = <<>> => CallTypes
  BY <1>1, Zenon DEF CallTypes
<1>3. effect' = FALSE /\ tools' = <<>> => CallTypes'
  BY <1>1, Zenon DEF CallTypes
<1> QED
  BY <1>2, <1>3

\* Types hold initially.
LEMMA TypeInvInit == Init => TypeInv
<1> SUFFICES ASSUME Init PROVE TypeInv
  OBVIOUS
<1>1. StateTypes
  BY FreshTypes DEF Init, StateTypes
<1>2. WorldTypes
  BY DEF Init, WorldTypes, NoAnswer, AnswerKind
<1>3. CallTypes
  BY NoCalls DEF Init
<1>4. RoomInv
  BY DEF Init, RoomInv, R!Init, R!NoCheckpoint
<1> QED
  BY <1>1, <1>2, <1>3, <1>4 DEF TypeInv

\* The model's calls are calls, at most MaxCalls of them.
LEMMA PendingTypes ==
    ASSUME NEW t \in TurnState
    PROVE  /\ t.pending \in Seq(Call)
           /\ Len(t.pending) \in 0..MaxCalls
           /\ \A i \in DOMAIN t.pending : t.pending[i] \in Call
<1>1. t.pending \in Outputs \cup {<<>>}
  BY DEF TurnState
<1>2. t.pending \in Seq(Call) /\ Len(t.pending) <= MaxCalls
  <2>1. <<>> \in Seq(Call) /\ Len(<<>>) <= MaxCalls
    BY ToolAssumption
  <2> QED
    BY <1>1, <2>1, ToolAssumption, Zenon
<1> QED
  BY <1>2, ToolAssumption

\* The operation key of a pending call of state t.
LEMMA KeyType ==
    ASSUME NEW t \in TurnState, t.rounds < MaxToolRounds, NEW i \in DOMAIN t.pending
    PROVE  <<t.rounds + 1, i, t.pending[i]>> \in Key
<1>1. i \in 1..MaxCalls /\ t.pending[i] \in Call
  BY PendingTypes, ToolAssumption
<1>2. t.rounds + 1 \in 1..MaxToolRounds
  BY ToolAssumption DEF TurnState
<1> QED
  BY <1>1, <1>2 DEF Key

\* A move to a state whose parts are of their types.
LEMMA TypeMove ==
    ASSUME TypeInv, NEW b, NEW t \in TurnState, t.answer.reply <= Len(requests), Moves(b, t),
           node' = "execute_tools" => t.rounds < MaxToolRounds
    PROVE  TypeInv'
<1>1. StateTypes'
  BY DEF TypeInv, StateTypes, Moves, world
<1>2. WorldTypes'
  BY DEF TypeInv, WorldTypes, Moves, world
<1>3. CallTypes'
  BY NoCalls DEF Moves
<1>4. RoomInv'
  BY DEF TypeInv, RoomInv, Moves
<1> QED
  BY <1>1, <1>2, <1>3, <1>4 DEF TypeInv

\* A call's new status.
LEMMA TypeCall ==
    ASSUME TypeInv, Executing, NEW i \in Calls, NEW s \in CallStatus, SetCall(i, s), WorldTypes',
           UNCHANGED requests
    PROVE  TypeInv'
<1>1. StateTypes'
  BY DEF TypeInv, StateTypes, SetCall, driver
<1>2. tools' \in Seq(CallStatus) /\ Len(tools') = Len(tools) /\ tools # <<>>
  BY DEF TypeInv, CallTypes, SetCall, Calls
<1>3. CallTypes'
  BY <1>2 DEF TypeInv, CallTypes, SetCall, driver
<1>4. RoomInv'
  BY DEF TypeInv, RoomInv, SetCall, driver
<1> QED
  BY <1>1, <1>3, <1>4 DEF TypeInv

\* Executing calls have their keys.
LEMMA CallKey ==
    ASSUME TypeInv, Executing, NEW i \in Calls
    PROVE  /\ i \in DOMAIN turn.pending
           /\ turn.rounds < MaxToolRounds
           /\ OpKey(i) \in Key
           /\ OpKey(i) = <<turn.rounds + 1, i, turn.pending[i]>>
           /\ tools[i] \in CallStatus
<1>1. turn \in TurnState /\ turn.rounds < MaxToolRounds
  BY DEF TypeInv, StateTypes, RoomInv, Executing, Running
<1>2. i \in DOMAIN turn.pending /\ tools[i] \in CallStatus
  <2>1. tools \in Seq(CallStatus) /\ i \in 1..Len(tools) /\ tools # <<>>
    BY DEF TypeInv, CallTypes, Calls
  <2>2. Len(tools) = Len(turn.pending)
    BY <2>1 DEF TypeInv, CallTypes
  <2> QED
    BY <1>1, <2>1, <2>2, PendingTypes
<1> QED
  BY <1>1, <1>2, KeyType DEF OpKey

\* Types are kept by every step.
LEMMA TypeInvNext == TypeInv /\ R!TypeOK /\ [Next]_vars => TypeInv'
<1> SUFFICES ASSUME TypeInv, R!TypeOK, [Next]_vars PROVE TypeInv'
  OBVIOUS
<1> USE DEF world, local
<1>1. CASE EntryStep
  <2>1. PICK n, t : /\ Enters(n, t) /\ t \in {turn, saved, kept}
                    /\ n = "execute_tools" => t.rounds < MaxToolRounds
    <3>1. CASE ckpt.status = "Running" /\ Enters(ckpt.node, saved)
      BY <3>1 DEF TypeInv, RoomInv
    <3>2. CASE held.status = "Running" /\ Enters(held.node, kept)
      BY <3>2 DEF TypeInv, RoomInv
    <3> QED
      BY <1>1, <3>1, <3>2 DEF EntryStep
  <2>2. StateTypes' /\ WorldTypes'
    BY <2>1 DEF TypeInv, StateTypes, WorldTypes, Enters
  <2>3. CallTypes' /\ RoomInv'
    BY <2>1 DEF TypeInv, CallTypes, RoomInv, Enters
  <2> QED
    BY <2>2, <2>3 DEF TypeInv
<1>2. CASE Waits
  BY <1>2 DEF TypeInv, StateTypes, WorldTypes, CallTypes, RoomInv, Waits, Executing, R!TypeOK
<1>3. CASE Copies
  BY <1>3 DEF TypeInv, StateTypes, WorldTypes, CallTypes, RoomInv, Copies
<1>4. CASE Saves
  BY <1>4 DEF TypeInv, StateTypes, WorldTypes, CallTypes, RoomInv, Saves
<1>5. CASE Stops
  <2>1. StateTypes' /\ WorldTypes'
    BY <1>5, FreshTypes DEF TypeInv, StateTypes, WorldTypes, Stops, Leaves, Forget
  <2>2. CallTypes'
    BY <1>5, NoCalls DEF Stops, Leaves, Forget
  <2>3. RoomInv'
    BY <1>5 DEF TypeInv, RoomInv, Stops, Leaves, R!Stopped
  <2> QED
    BY <2>1, <2>2, <2>3 DEF TypeInv
<1>6. CASE Drops
  <2>1. StateTypes' /\ WorldTypes'
    BY <1>6, FreshTypes DEF TypeInv, StateTypes, WorldTypes, Drops, Leaves, Forget
  <2>2. CallTypes'
    BY <1>6, NoCalls DEF Drops, Leaves, Forget
  <2>3. RoomInv'
    BY <1>6 DEF TypeInv, RoomInv, Drops, Leaves
  <2> QED
    BY <2>1, <2>2, <2>3 DEF TypeInv
<1>7. CASE Ends
  <2>1. StateTypes' /\ WorldTypes'
    BY <1>7, FreshTypes DEF TypeInv, StateTypes, WorldTypes, Ends, Leaves, Forget
  <2>2. CallTypes'
    BY <1>7, NoCalls DEF Ends, Leaves, Forget
  <2>3. RoomInv'
    BY <1>7 DEF TypeInv, RoomInv, Ends, Leaves
  <2> QED
    BY <2>1, <2>2, <2>3 DEF TypeInv
<1>8. CASE Passes
  <2>1. PICK t \in {turn, [turn EXCEPT !.answer = Answer]} : Moves("default", t)
    BY <1>8 DEF Passes
  <2>2. t \in TurnState /\ t.answer.reply <= Len(requests)
    <3>1. /\ Answer \in [kind : AnswerKind, reply : Nat]
          /\ Answer.reply <= Len(requests)
      BY DEF TypeInv, StateTypes, WorldTypes, TurnState, Answer, Placeholder, AnswerKind
    <3>2. /\ [turn EXCEPT !.answer = Answer] \in TurnState
          /\ [turn EXCEPT !.answer = Answer].answer = Answer
      BY <3>1 DEF TypeInv, StateTypes, TurnState
    <3> QED
      BY <3>1, <3>2 DEF TypeInv, StateTypes
  <2>3. node' # "execute_tools"
    BY <2>1, DefaultEdges, EdgeValues, NodeFacts DEF Moves
  <2> QED
    BY <2>1, <2>2, <2>3, TypeMove
<1>9. CASE ModelMoves
  <2>1. Len(requests) \in Nat
    BY DEF TypeInv, WorldTypes
  <2>2. ASSUME NEW calls \in Outputs, turn.rounds < MaxToolRounds,
               Moves("needs_tools", [turn EXCEPT !.pending = calls])
        PROVE  TypeInv'
    <3>1. [turn EXCEPT !.pending = calls] \in TurnState
      BY DEF TypeInv, StateTypes, TurnState
    <3>2. /\ [turn EXCEPT !.pending = calls].answer = turn.answer
          /\ [turn EXCEPT !.pending = calls].rounds = turn.rounds
      BY DEF TypeInv, StateTypes, TurnState
    <3> QED
      BY <2>2, <3>1, <3>2, TypeMove DEF TypeInv, StateTypes
  <2>3. ASSUME NEW calls \in Outputs \cup {<<>>},
               NEW a \in {Limit, NoAnswer, Reply(Len(requests))},
               Moves("default", [turn EXCEPT !.pending = calls, !.answer = a])
        PROVE  TypeInv'
    <3>1. a \in [kind : AnswerKind, reply : Nat] /\ a.reply <= Len(requests)
      BY <2>1 DEF Limit, NoAnswer, Reply, AnswerKind
    <3>2. /\ [turn EXCEPT !.pending = calls, !.answer = a] \in TurnState
          /\ [turn EXCEPT !.pending = calls, !.answer = a].answer = a
      BY <3>1 DEF TypeInv, StateTypes, TurnState
    <3>3. node' # "execute_tools"
      BY <2>3, DefaultEdges, EdgeValues, NodeFacts DEF Moves
    <3> QED
      BY <2>3, <3>1, <3>2, <3>3, TypeMove
  <2> QED
    BY <1>9, <2>2, <2>3 DEF ModelMoves
<1>10. CASE ToolsMove
  <2>1. turn.rounds + 1 \in 0..MaxToolRounds
    BY <1>10, ToolAssumption
    DEF ToolsMove, Executing, Running, TypeInv, StateTypes, TurnState, RoomInv
  <2>2. /\ [turn EXCEPT !.rounds = @ + 1, !.pending = <<>>] \in TurnState
        /\ [turn EXCEPT !.rounds = @ + 1, !.pending = <<>>].answer = turn.answer
    BY <2>1 DEF TypeInv, StateTypes, TurnState
  <2>3. node' # "execute_tools"
    BY <1>10, DefaultEdges, EdgeValues, NodeFacts DEF ToolsMove, Moves
  <2> QED
    BY <1>10, <2>2, <2>3, TypeMove DEF ToolsMove, TypeInv, StateTypes
<1>11. CASE Acts
  <2>1. RoomInv'
    BY <1>11 DEF TypeInv, RoomInv, Acts, Stays
  <2>2. CASE raw' \in {[raw EXCEPT !.user = TRUE],
                       [raw EXCEPT !.answer = IF @ = NoAnswer THEN Answer ELSE @]}
             /\ UNCHANGED <<tools, requests>>
    <3>1. Answer \in [kind : AnswerKind, reply : Nat]
      BY DEF TypeInv, StateTypes, TurnState, Answer, Placeholder, AnswerKind
    <3>2. WorldTypes'
      BY <1>11, <2>2, <3>1 DEF TypeInv, WorldTypes, Acts
    <3> QED
      BY <1>11, <2>1, <2>2, <3>2 DEF TypeInv, StateTypes, CallTypes, Acts, Stays
  <2>3. CASE /\ node \in ModelNode
             /\ requests' = Append(requests, turn.rounds) /\ UNCHANGED <<tools, raw>>
    <3>1. requests' \in Seq(0..MaxToolRounds) /\ Len(requests') = Len(requests) + 1
      BY <2>3 DEF TypeInv, StateTypes, TurnState, WorldTypes
    <3>2. StateTypes'
      BY <1>11, <3>1 DEF TypeInv, StateTypes, WorldTypes, TurnState, Acts
    <3> QED
      BY <1>11, <2>1, <2>3, <3>1, <3>2, NodeFacts DEF TypeInv, WorldTypes, CallTypes, Acts, Stays
  <2>4. CASE /\ node = "execute_tools" /\ UNCHANGED <<raw, requests>>
             /\ tools' = [i \in DOMAIN turn.pending |->
                            IF MemoryAware /\ OpKey(i) \in raw.tools THEN "cached" ELSE "todo"]
    <3>1. DOMAIN turn.pending = 1..Len(turn.pending) /\ Len(turn.pending) \in Nat
      BY PendingTypes, ToolAssumption DEF TypeInv, StateTypes
    <3>2. tools' \in Seq(CallStatus) /\ Len(tools') = Len(turn.pending)
      BY <2>4, <3>1 DEF CallStatus
    <3> QED
      BY <1>11, <2>1, <2>4, <3>2 DEF TypeInv, StateTypes, WorldTypes, CallTypes, Acts, Stays
  <2> QED
    BY <1>11, <2>2, <2>3, <2>4 DEF Acts
<1>12. ASSUME NEW i \in Calls, CallStep(i) PROVE TypeInv'
  <2>1. Executing
    BY <1>12 DEF CallStep, Dispatch, CallDone, OutcomeUnknown, CallCancelled, PersistResult
  <2>2. OpKey(i) \in Key
    BY <2>1, CallKey
  <2>3. WorldTypes' /\ UNCHANGED requests
    BY <1>12, <2>2
    DEF CallStep, Dispatch, CallDone, OutcomeUnknown, CallCancelled, PersistResult, TypeInv, WorldTypes
  <2>4. PICK s \in CallStatus : SetCall(i, s)
    BY <1>12
    DEF CallStep, Dispatch, CallDone, OutcomeUnknown, CallCancelled, PersistResult, CallStatus
  <2> QED
    BY <2>1, <2>3, <2>4, TypeCall
<1> QED
  BY <1>1, <1>2, <1>3, <1>4, <1>5, <1>6, <1>7, <1>8, <1>9, <1>10, <1>11, <1>12, Shapes

\* Types hold always.
LEMMA TypeInvariant == Spec => [](TypeInv /\ R!TypeOK)
BY TypeInvInit, TypeInvNext, RunnerTypes, PTL DEF Spec

\* The types of a turn (TypeOK), for every profile, tool set and answer.
THEOREM TypeCorrect == Spec => []TypeOK
<1>1. TypeInv /\ R!TypeOK => TypeOK
  <2> SUFFICES ASSUME TypeInv, R!TypeOK PROVE TypeOK
    OBVIOUS
  <2>1. \A t \in {turn, saved, kept} :
          /\ t.rounds \in 0..MaxToolRounds
          /\ t.pending \in Outputs \cup {<<>>}
          /\ t.answer.kind \in {"none", "limit", "placeholder", "reply"}
          /\ t.answer.reply \in 0..Len(requests)
    BY DEF TypeInv, StateTypes, WorldTypes, TurnState, AnswerKind
  <2> QED
    BY <2>1 DEF TypeInv, WorldTypes, CallTypes, TypeOK, AnswerKind
<1> QED
  BY <1>1, TypeInvariant, PTL

-------------------------------------------------------------------------------
(* Side effects run alone. *)

\* A call only begins when the calls of earlier phases are done, and results
\* are only persisted when no call is in flight or still to be started.
BarrierInv ==
    /\ \A i, j \in Calls :
          i < j /\ tools[j] \notin {"todo", "cached"} =>
              SamePhase(i, j) \/ tools[i] \in {"cached", "done", "stored"}
    /\ (\E i \in Calls : tools[i] = "stored") => Joined

\* A call's new status keeps the phases: only "cached" is looked at.
LEMMA SamePhaseKept ==
    ASSUME TypeInv, NEW i \in Calls, NEW s \in CallStatus \ {"cached"}, tools[i] # "cached",
           SetCall(i, s)
    PROVE  /\ Calls' = Calls
           /\ tools' = [tools EXCEPT ![i] = s]
           /\ tools'[i] = s
           /\ \A j \in Calls \ {i} : tools'[j] = tools[j]
           /\ \A j, k \in Calls : SamePhase(j, k)' <=> SamePhase(j, k)
<1>1. /\ tools' = [tools EXCEPT ![i] = s] /\ turn' = turn
      /\ tools \in Seq(CallStatus) /\ Calls = 1..Len(tools) /\ Len(tools) \in Nat
  BY DEF SetCall, TypeInv, CallTypes, Calls
<1>2. DOMAIN tools' = 1..Len(tools)
  BY <1>1
<1>3. /\ Calls' = Calls
      /\ tools'[i] = s
      /\ \A j \in Calls \ {i} : tools'[j] = tools[j]
  BY <1>1, <1>2 DEF Calls
<1>4. ASSUME NEW j \in Calls, NEW k \in Calls
      PROVE  SamePhase(j, k)' <=> SamePhase(j, k)
  <2>1. \A x \in j..k : x \in Calls
    BY <1>1
  <2>2. \A x \in Calls : tools'[x] = "cached" <=> tools[x] = "cached"
    BY <1>3
  <2> QED
    BY <1>1, <2>1, <2>2 DEF SamePhase
<1> QED
  BY <1>1, <1>3, <1>4

\* The phases are kept by every step.
LEMMA BarrierNext == TypeInv /\ TypeInv' /\ BarrierInv /\ [Next]_vars => BarrierInv'
<1> SUFFICES ASSUME TypeInv, TypeInv', BarrierInv, [Next]_vars PROVE BarrierInv'
  OBVIOUS
<1>1. ASSUME tools' = <<>> PROVE BarrierInv'
  BY <1>1 DEF BarrierInv, Calls
<1>2. ASSUME UNCHANGED <<tools, turn>> PROVE BarrierInv'
  BY <1>2 DEF BarrierInv, Calls, SamePhase, Joined, MayStart
<1>3. CASE EntryStep
  <2>1. tools = <<>>
    BY <1>3 DEF EntryStep, Enters, TypeInv, CallTypes
  <2> QED
    BY <1>1, <1>3, <2>1 DEF EntryStep, Enters
<1>4. CASE Waits \/ Copies \/ Saves
  BY <1>2, <1>4 DEF Waits, Copies, Saves, local
<1>5. CASE Stops \/ Drops \/ Ends
  BY <1>1, <1>5 DEF Stops, Drops, Ends, Leaves, Forget
<1>6. CASE Passes \/ ModelMoves \/ ToolsMove
  BY <1>1, <1>6 DEF Passes, ModelMoves, ToolsMove, Moves
<1>7. CASE Acts
  <2>1. CASE UNCHANGED tools
    BY <1>2, <1>7, <2>1 DEF Acts
  <2>2. CASE tools' = [i \in DOMAIN turn.pending |->
                        IF MemoryAware /\ OpKey(i) \in raw.tools THEN "cached" ELSE "todo"]
    BY <2>2 DEF BarrierInv, Calls
  <2> QED
    BY <1>7, <2>1, <2>2 DEF Acts
<1>8. ASSUME NEW i \in Calls, CallStep(i) PROVE BarrierInv'
  <2>1. tools[i] \in CallStatus /\ Executing
    BY <1>8, CallKey
    DEF CallStep, Dispatch, CallDone, OutcomeUnknown, CallCancelled, PersistResult
  <2>2. CASE MayStart(i) /\ \E s \in {"inflight", "cancelled", "indeterminate"} : SetCall(i, s)
    <3>1. PICK s \in {"inflight", "cancelled", "indeterminate"} : SetCall(i, s)
      BY <2>2
    <3>2. s \in CallStatus \ {"cached"} /\ tools[i] = "todo"
      BY <2>2 DEF CallStatus, MayStart
    <3>3. ~\E j \in Calls : tools[j] = "stored"
      BY <2>2 DEF BarrierInv, Joined
    <3>4. \A j \in Calls : j < i => SamePhase(j, i) \/ tools[j] \in {"cached", "done"}
      BY <2>2 DEF MayStart, Calls, TypeInv, CallTypes
    <3> QED
      BY <3>1, <3>2, <3>3, <3>4, SamePhaseKept DEF BarrierInv
  <2>3. CASE tools[i] = "inflight" /\ \E s \in CallStatus \ {"cached", "todo", "stored"} : SetCall(i, s)
    <3>1. PICK s \in CallStatus \ {"cached", "todo", "stored"} : SetCall(i, s)
      BY <2>3
    <3>2. ~\E j \in Calls : tools[j] = "stored"
      BY <2>3 DEF BarrierInv, Joined
    <3> QED
      BY <2>3, <3>1, <3>2, SamePhaseKept DEF BarrierInv
  <2>4. CASE tools[i] = "done" /\ Joined /\ SetCall(i, "stored")
    <3>1. "stored" \in CallStatus \ {"cached"}
      BY DEF CallStatus
    <3>2. ASSUME NEW j \in Calls PROVE tools'[j] # "inflight" /\ ~MayStart(j)'
      <4>1. tools[j] # "inflight" /\ ~MayStart(j)
        BY <2>4 DEF Joined
      <4>2. ASSUME MayStart(j)' PROVE MayStart(j)
        <5>1. tools[j] = "todo"
          BY <2>4, <3>1, <4>2, SamePhaseKept DEF MayStart
        <5>2. ASSUME NEW k \in 1..(j - 1)
              PROVE  SamePhase(k, j) \/ tools[k] \in {"cached", "done"}
          <6>1. k \in Calls
            BY DEF Calls, TypeInv, CallTypes
          <6> QED
            BY <2>4, <3>1, <4>2, <6>1, SamePhaseKept DEF MayStart
        <5> QED
          BY <5>1, <5>2 DEF MayStart
      <4> QED
        BY <2>4, <3>1, <4>1, <4>2, SamePhaseKept
    <3>3. Joined'
      BY <2>4, <3>1, <3>2, SamePhaseKept DEF Joined
    <3> QED
      BY <2>4, <3>1, <3>3, SamePhaseKept DEF BarrierInv
  <2> QED
    BY <1>8, <2>2, <2>3, <2>4
    DEF CallStep, Dispatch, CallDone, OutcomeUnknown, CallCancelled, PersistResult, Turn, CallStatus
<1> QED
  BY <1>3, <1>4, <1>5, <1>6, <1>7, <1>8, Shapes

\* A side-effecting call is a barrier (SideEffectsRunAlone), for every list of
\* calls: in either direction, while it is in flight.
THEOREM SideEffectsRunAloneHolds == Spec => []SideEffectsRunAlone
<1>1. Init => BarrierInv
  BY DEF Init, BarrierInv, Calls
<1>2. Spec => []BarrierInv
  BY <1>1, BarrierNext, TypeInvariant, PTL DEF Spec
<1>3. TypeInv /\ BarrierInv => SideEffectsRunAlone
  <2> SUFFICES ASSUME TypeInv, BarrierInv,
                      NEW i \in Calls, tools[i] = "inflight", turn.pending[i] \notin ReadOnly,
                      NEW j \in Calls \ {i}
               PROVE  tools[j] \in IF j < i THEN {"cached", "done"} ELSE {"cached", "todo"}
    BY DEF SideEffectsRunAlone, Calls
  <2>1. \A k \in Calls : tools[k] # "stored"
    BY DEF BarrierInv, Joined
  <2>2. i \in Nat /\ j \in Nat
    BY DEF TypeInv, CallTypes, Calls
  <2>3. CASE j < i
    <3>1. ~SamePhase(j, i)
      BY <2>2, <2>3 DEF SamePhase
    <3> QED
      BY <2>1, <2>3, <3>1 DEF BarrierInv
  <2>4. CASE i < j
    <3>1. ~SamePhase(i, j)
      BY <2>2, <2>4 DEF SamePhase
    <3> QED
      BY <2>2, <2>4, <3>1 DEF BarrierInv
  <2> QED
    BY <2>2, <2>3, <2>4
<1> QED
  BY <1>2, <1>3, TypeInvariant, PTL

-------------------------------------------------------------------------------
(* What has been asked of the model and of the tools. With MaxStale = 0: a      *)
(* recovery from a kept copy walks the loop a second time and may ask again.    *)

\* While a node runs, the checkpoint is the state it started from. A loop that
\* has no checkpoint and no result has not asked for anything yet.
CheckpointInv ==
    /\ phase \in {"saved", "running"} =>
          ckpt.status = "Running" /\ ckpt.node = node /\ saved = turn
    /\ phase # "idle" => result = "none"
    /\ ckpt.status = "Absent" /\ result = "none" =>
          requests = <<>> /\ \A k \in Key : sent[k] = 0

\* At node n with state t: the requests of this and earlier rounds are sent, or,
\* on the way to a request, those of earlier rounds only.
Asked(n, t, onTheWay) ==
    \A i \in DOMAIN requests :
        requests[i] <= t.rounds /\ (n \in Asking /\ onTheWay => requests[i] < t.rounds)

AskedInv ==
    /\ phase # "idle" => Asked(node, turn, node \in ModelNode => ~effect)
    /\ ckpt.status = "Running" => Asked(ckpt.node, saved, ckpt.node \notin ModelNode)
    /\ ModelRequestNotResent

\* At node n with state t: calls of this round have only been sent if they are
\* the ones about to be executed.
SentCalls(n, t) ==
    \A k \in Key : sent[k] > 0 =>
        /\ k[1] <= t.rounds + 1
        /\ k[1] = t.rounds + 1 =>
              n = "execute_tools" /\ k[2] \in DOMAIN t.pending /\ t.pending[k[2]] = k[3]

\* A call that must not be repeated and was sent is no longer to be started.
NotStartedAgain ==
    phase # "idle" /\ node = "execute_tools" =>
        \A i \in DOMAIN turn.pending :
            sent[OpKey(i)] > 0 /\ turn.pending[i] \notin Idempotent =>
                i \in Calls /\ tools[i] # "todo"

SentInv ==
    /\ phase # "idle" => SentCalls(node, turn)
    /\ ckpt.status # "Absent" => SentCalls(ckpt.node, saved)
    /\ NotStartedAgain
    /\ ReplayIsFenced

\* Nothing has been asked initially.
LEMMA HistoryInit == Init => CheckpointInv /\ AskedInv /\ SentInv
<1> SUFFICES ASSUME Init PROVE CheckpointInv /\ AskedInv /\ SentInv
  OBVIOUS
<1>1. /\ phase = "idle" /\ ckpt.status = "Absent"
      /\ requests = <<>> /\ \A k \in Key : sent[k] = 0
  BY DEF Init, R!Init, R!NoCheckpoint
<1>2. CheckpointInv
  BY <1>1 DEF CheckpointInv
<1>3. AskedInv
  BY <1>1 DEF AskedInv, ModelRequestNotResent
<1>4. SentInv
  BY <1>1 DEF SentInv, NotStartedAgain, ReplayIsFenced
<1> QED
  BY <1>2, <1>3, <1>4

\* Without kept copies a turn is entered fresh or from its own checkpoint.
LEMMA Entering ==
    ASSUME MaxStale = 0, R!TypeOK, EntryStep
    PROVE  \/ /\ ckpt.status = "Absent" /\ result = "none" /\ node' \in Asking
              /\ UNCHANGED turn
           \/ /\ ckpt.status = "Running" /\ RecoverySafe(ckpt, saved)
              /\ node' = ckpt.node /\ turn' = saved
<1>1. ~(staleRuns < MaxStale)
  BY DEF R!TypeOK
<1>2. (IF MemoryAware THEN "ingest_user_input" ELSE "assemble_external_context") \in Asking
  BY MemoryAwareGraph, ExternalGraph DEF Asking
<1> QED
  BY <1>1, <1>2 DEF EntryStep, Enters

\* The relation of driver, checkpoint and result is kept by every step.
LEMMA CheckpointNext ==
    MaxStale = 0 /\ TypeInv /\ R!TypeOK /\ CheckpointInv /\ [Next]_vars => CheckpointInv'
<1> SUFFICES ASSUME MaxStale = 0, TypeInv, R!TypeOK, CheckpointInv, [Next]_vars
             PROVE  CheckpointInv'
  OBVIOUS
<1> USE DEF world, local
<1>1. CASE EntryStep
  BY <1>1, Entering DEF EntryStep, Enters, CheckpointInv
<1>2. CASE Waits
  BY <1>2 DEF Waits, CheckpointInv
<1>3. CASE Copies
  BY <1>3 DEF Copies, CheckpointInv
<1>4. CASE Saves
  BY <1>4 DEF Saves, CheckpointInv
<1>5. CASE Stops
  BY <1>5 DEF Stops, Leaves, R!Stopped, CheckpointInv
<1>6. CASE Drops
  BY <1>6 DEF Drops, Leaves, CheckpointInv
<1>7. CASE Ends
  BY <1>7 DEF Ends, Leaves, CheckpointInv
<1>8. CASE Passes \/ ModelMoves \/ ToolsMove
  BY <1>8 DEF Passes, ModelMoves, ToolsMove, Moves, CheckpointInv
<1>9. CASE Acts
  BY <1>9 DEF Acts, Stays, CheckpointInv
<1>10. ASSUME NEW i \in Calls, CallStep(i) PROVE CheckpointInv'
  <2>1. Executing /\ UNCHANGED <<phase, node, ckpt, result, turn, saved>>
    BY <1>10
    DEF CallStep, Dispatch, CallDone, OutcomeUnknown, CallCancelled, PersistResult, SetCall, driver
  <2> QED
    BY <2>1 DEF Executing, Running, CheckpointInv
<1> QED
  BY <1>1, <1>2, <1>3, <1>4, <1>5, <1>6, <1>7, <1>8, <1>9, <1>10, Shapes

\* A move along an edge.
LEMMA Moving ==
    ASSUME R!TypeOK, NEW b, NEW t, Moves(b, t)
    PROVE  /\ node \in Node
           /\ b = "default" => node' = DefaultNext[node] /\ node \in Node \ {FinishNode}
           /\ b = "needs_tools" => node' = "execute_tools"
<1>1. <<node, b>> \in DOMAIN Edges /\ node' = Edges[<<node, b>>]
  BY DEF Moves
<1>2. \/ b = "default" /\ node \in DOMAIN DefaultNext
      \/ b = "needs_tools" /\ node \in ModelNode
  BY <1>1, EdgeValues
<1> QED
  BY <1>1, <1>2, EdgeValues, NodeFacts

\* No step sends a request of a round again.
LEMMA AskedNext ==
    MaxStale = 0 /\ TypeInv /\ R!TypeOK /\ CheckpointInv /\ AskedInv /\ [Next]_vars => AskedInv'
<1> SUFFICES ASSUME MaxStale = 0, TypeInv, R!TypeOK, CheckpointInv, AskedInv, [Next]_vars
             PROVE  AskedInv'
  OBVIOUS
<1> USE DEF world, local
<1>0. /\ turn.rounds \in Nat /\ saved.rounds \in Nat
      /\ requests \in Seq(Nat) /\ \A i \in DOMAIN requests : requests[i] \in Nat
  BY ToolAssumption DEF TypeInv, StateTypes, WorldTypes, TurnState
<1>1. CASE EntryStep
  <2>1. effect = FALSE /\ UNCHANGED <<effect, ckpt, saved, requests>>
    BY <1>1 DEF EntryStep, Enters, TypeInv, CallTypes
  <2>2. Asked(node, turn, TRUE)'
    BY <1>1, <2>1, Entering DEF AskedInv, CheckpointInv, Asked, RecoverySafe
  <2> QED
    BY <1>1, <2>1, <2>2 DEF EntryStep, Enters, AskedInv, Asked, ModelRequestNotResent
<1>2. CASE Waits \/ Copies
  BY <1>2 DEF Waits, Copies, AskedInv, Asked, ModelRequestNotResent
<1>3. CASE Saves
  BY <1>3 DEF Saves, AskedInv, Asked, ModelRequestNotResent
<1>4. CASE Stops \/ Drops \/ Ends
  BY <1>4 DEF Stops, Drops, Ends, Leaves, R!Stopped, AskedInv, Asked, ModelRequestNotResent
<1>5. ASSUME NEW b, NEW t, Moves(b, t), Asked(node', t, TRUE) PROVE AskedInv'
  BY <1>5 DEF Moves, AskedInv, Asked, ModelRequestNotResent
<1>6. CASE Passes
  <2>1. PICK t \in {turn, [turn EXCEPT !.answer = Answer]} : Moves("default", t)
    BY <1>6 DEF Passes
  <2>2. t.rounds = turn.rounds
    BY DEF TypeInv, StateTypes, TurnState
  <2>3. node' \in Asking => node \in Asking \ ModelNode
    BY <1>6, <2>1, Moving, DefaultEdges DEF Passes
  <2> QED
    BY <1>5, <1>6, <2>1, <2>2, <2>3 DEF Passes, Moves, AskedInv, Asked
<1>7. CASE ModelMoves
  <2>1. PICK b, t : /\ b \in {"default", "needs_tools"} /\ Moves(b, t)
                    /\ t.rounds = turn.rounds /\ node \in ModelNode
    BY <1>7 DEF ModelMoves, TypeInv, StateTypes, TurnState
  <2>2. node' \notin Asking
    BY <2>1, Moving, DefaultEdges, NodeFacts
  <2> QED
    BY <1>5, <2>1, <2>2 DEF Moves, AskedInv, Asked
<1>8. CASE ToolsMove
  <2>1. [turn EXCEPT !.rounds = @ + 1, !.pending = <<>>].rounds = turn.rounds + 1
    BY DEF TypeInv, StateTypes, TurnState
  <2>2. \A i \in DOMAIN requests : requests[i] <= turn.rounds
    BY <1>8 DEF ToolsMove, Executing, Running, AskedInv, Asked
  <2>3. Asked(node', [turn EXCEPT !.rounds = @ + 1, !.pending = <<>>], TRUE)
    BY <1>0, <2>1, <2>2 DEF Asked
  <2> QED
    BY <1>5, <1>8, <2>3 DEF ToolsMove
<1>9. CASE Acts
  <2>1. CASE UNCHANGED requests /\ node \notin ModelNode
    BY <1>9, <2>1 DEF Acts, Stays, AskedInv, Asked, ModelRequestNotResent
  <2>2. CASE node \in ModelNode /\ requests' = Append(requests, turn.rounds)
    <3>1. \A i \in DOMAIN requests : requests[i] < turn.rounds
      BY <1>9, <2>2, NodeFacts DEF Acts, AskedInv, Asked
    <3>2. /\ DOMAIN requests' = 1..(Len(requests) + 1)
          /\ \A i \in DOMAIN requests : requests'[i] = requests[i]
          /\ requests'[Len(requests) + 1] = turn.rounds
          /\ DOMAIN requests = 1..Len(requests) /\ Len(requests) \in Nat
      BY <1>0, <2>2
    <3>3. \A i \in DOMAIN requests' : requests'[i] <= turn.rounds
      BY <1>0, <3>1, <3>2
    <3>4. ModelRequestNotResent'
      BY <1>0, <3>1, <3>2 DEF AskedInv, ModelRequestNotResent
    <3> QED
      BY <1>9, <2>2, <3>3, <3>4 DEF Acts, Stays, AskedInv, Asked, CheckpointInv
  <2> QED
    BY <1>9, <2>1, <2>2, NodeFacts DEF Acts
<1>10. ASSUME NEW i \in Calls, CallStep(i) PROVE AskedInv'
  <2>1. UNCHANGED <<phase, node, ckpt, turn, effect, saved, requests>>
    BY <1>10
    DEF CallStep, Dispatch, CallDone, OutcomeUnknown, CallCancelled, PersistResult, SetCall, driver
  <2> QED
    BY <2>1 DEF AskedInv, Asked, ModelRequestNotResent
<1> QED
  BY <1>1, <1>2, <1>3, <1>4, <1>6, <1>7, <1>8, <1>9, <1>10, Shapes

\* A key says round, index and call.
LEMMA KeyParts == \A k \in Key : k[1] \in Nat /\ k = <<k[1], k[2], k[3]>>
BY ToolAssumption DEF Key

\* Away from the tools no call of the current round has been sent, so what was
\* sent is of an earlier round for the next node too.
LEMMA SentMove ==
    ASSUME TypeInv, TypeInv', SentInv, NEW b, NEW t, Moves(b, t),
           t.rounds \in Nat, t.rounds >= turn.rounds,
           node = "execute_tools" => t.rounds > turn.rounds
    PROVE  SentInv'
<1> USE DEF world
<1>0. turn.rounds \in Nat /\ turn' = t
  BY ToolAssumption DEF TypeInv, StateTypes, TurnState, Moves
<1>1. \A k \in Key : sent[k] > 0 => k[1] < t.rounds + 1
  BY <1>0, KeyParts DEF SentInv, SentCalls, Moves
<1>2. SentCalls(node, turn)'
  BY <1>0, <1>1, KeyParts DEF SentCalls, Moves
<1>3. NotStartedAgain'
  <2> SUFFICES ASSUME node' = "execute_tools", NEW i \in DOMAIN t.pending
               PROVE  ~(sent[<<t.rounds + 1, i, t.pending[i]>>] > 0)
    BY <1>0 DEF NotStartedAgain, OpKey, Moves
  <2>1. t \in TurnState /\ t.rounds < MaxToolRounds
    BY <1>0 DEF TypeInv, StateTypes, RoomInv, Moves
  <2>2. <<t.rounds + 1, i, t.pending[i]>> \in Key
    BY <2>1, KeyType
  <2> QED
    BY <1>0, <1>1, <2>2
<1> QED
  BY <1>2, <1>3 DEF SentInv, ReplayIsFenced, SentCalls, Moves

\* No step sends an unfenced call again.
LEMMA SentNext ==
    /\ MaxStale = 0 /\ TypeInv /\ TypeInv' /\ R!TypeOK /\ CheckpointInv /\ SentInv
    /\ [Next]_vars
    => SentInv'
<1> SUFFICES ASSUME MaxStale = 0, TypeInv, TypeInv', R!TypeOK, CheckpointInv, SentInv,
                    [Next]_vars
             PROVE  SentInv'
  OBVIOUS
<1> USE DEF world, local
<1>0. turn.rounds \in Nat
  BY ToolAssumption DEF TypeInv, StateTypes, TurnState
<1>1. CASE EntryStep
  <2>1. UNCHANGED <<ckpt, saved, sent>> /\ phase' # "idle"
    BY <1>1 DEF EntryStep, Enters
  <2>2. SentCalls(node, turn)' /\ NotStartedAgain'
    <3>1. CASE ckpt.status = "Absent" /\ result = "none" /\ node' \in Asking
      BY <2>1, <3>1, NodeFacts DEF SentCalls, NotStartedAgain, CheckpointInv
    <3>2. CASE /\ ckpt.status = "Running" /\ RecoverySafe(ckpt, saved)
               /\ node' = ckpt.node /\ turn' = saved
      BY <2>1, <3>2 DEF SentInv, SentCalls, NotStartedAgain, RecoverySafe
    <3> QED
      BY <1>1, <3>1, <3>2, Entering
  <2> QED
    BY <2>1, <2>2 DEF SentInv, SentCalls, ReplayIsFenced
<1>2. CASE Waits \/ Copies
  BY <1>2 DEF Waits, Copies, SentInv, SentCalls, NotStartedAgain, OpKey, Calls, ReplayIsFenced
<1>3. CASE Saves
  BY <1>3 DEF Saves, SentInv, SentCalls, NotStartedAgain, OpKey, Calls, ReplayIsFenced
<1>4. CASE Stops \/ Drops \/ Ends
  BY <1>4 DEF Stops, Drops, Ends, Leaves, SentInv, SentCalls, NotStartedAgain, ReplayIsFenced
<1>5. CASE Passes
  <2>1. PICK t \in {turn, [turn EXCEPT !.answer = Answer]} : Moves("default", t)
    BY <1>5 DEF Passes
  <2>2. t.rounds = turn.rounds
    BY DEF TypeInv, StateTypes, TurnState
  <2> QED
    BY <1>0, <1>5, <2>1, <2>2, SentMove DEF Passes
<1>6. CASE ModelMoves
  <2>1. PICK b, t : Moves(b, t) /\ t.rounds = turn.rounds /\ node \in ModelNode
    BY <1>6 DEF ModelMoves, TypeInv, StateTypes, TurnState
  <2> QED
    BY <1>0, <2>1, NodeFacts, SentMove
<1>7. CASE ToolsMove
  <2>1. [turn EXCEPT !.rounds = @ + 1, !.pending = <<>>].rounds = turn.rounds + 1
    BY DEF TypeInv, StateTypes, TurnState
  <2>2. PICK t : Moves("default", t) /\ t.rounds = turn.rounds + 1
    BY <1>7, <2>1 DEF ToolsMove
  <2>3. t.rounds \in Nat /\ t.rounds > turn.rounds
    BY <1>0, <2>2
  <2> QED
    BY <1>0, <2>2, <2>3, SentMove
<1>8. CASE Acts
  <2>1. UNCHANGED <<phase, node, ckpt, turn, saved, sent>> /\ ~effect
    BY <1>8 DEF Acts, Stays
  <2>2. NotStartedAgain'
    <3>1. Calls = {}
      BY <2>1 DEF TypeInv, CallTypes, Calls
    <3> QED
      BY <2>1, <3>1 DEF SentInv, NotStartedAgain, OpKey
  <2> QED
    BY <2>1, <2>2 DEF SentInv, SentCalls, ReplayIsFenced
<1>9. ASSUME NEW i \in Calls, CallStep(i) PROVE SentInv'
  <2>1. Executing /\ UNCHANGED <<phase, node, ckpt, turn, saved, effect>>
    BY <1>9
    DEF CallStep, Dispatch, CallDone, OutcomeUnknown, CallCancelled, PersistResult, SetCall, driver
  <2>2. PICK s \in CallStatus \ {"todo", "cached"} : SetCall(i, s)
    BY <1>9
    DEF CallStep, Dispatch, CallDone, OutcomeUnknown, CallCancelled, PersistResult, CallStatus
  <2>3. /\ Calls' = Calls /\ tools'[i] # "todo"
        /\ \A j \in Calls : tools[j] # "todo" => tools'[j] # "todo"
    BY <2>2 DEF SetCall, Calls
  <2>4. CASE UNCHANGED sent
    BY <2>1, <2>3, <2>4 DEF SentInv, SentCalls, NotStartedAgain, OpKey, ReplayIsFenced
  <2>5. CASE /\ tools[i] = "todo"
             /\ sent' = [sent EXCEPT ![OpKey(i)] = @ + 1]
    <3>1. /\ i \in DOMAIN turn.pending /\ OpKey(i) \in Key
          /\ OpKey(i) = <<turn.rounds + 1, i, turn.pending[i]>>
      BY <2>1, CallKey
    <3>2. /\ phase = "running" /\ node = "execute_tools"
          /\ ckpt.status = "Running" /\ ckpt.node = node /\ saved = turn
      BY <2>1 DEF Executing, Running, CheckpointInv
    <3>3. /\ sent[OpKey(i)] \in Nat /\ sent'[OpKey(i)] = sent[OpKey(i)] + 1
          /\ \A k \in Key : sent[k] \in Nat /\ (k # OpKey(i) => sent'[k] = sent[k])
      BY <2>5, <3>1 DEF TypeInv, WorldTypes
    <3>4. SentCalls(node, turn)
      BY <3>2 DEF SentInv
    <3>5. SentCalls(node, turn)'
      BY <1>0, <2>1, <3>1, <3>2, <3>3, <3>4 DEF SentCalls
    <3>6. SentCalls(ckpt.node, saved)'
      BY <2>1, <3>2, <3>5 DEF SentCalls
    <3>7. NotStartedAgain'
      <4> SUFFICES ASSUME NEW j \in DOMAIN turn.pending, sent'[OpKey(j)] > 0,
                          turn.pending[j] \notin Idempotent
                   PROVE  j \in Calls /\ tools'[j] # "todo"
        BY <2>1, <2>3, <3>2 DEF NotStartedAgain, OpKey
      <4>1. CASE j = i
        BY <2>3, <4>1
      <4>2. CASE j # i
        <5>1. OpKey(j) # OpKey(i)
          BY <4>2 DEF OpKey
        <5>2. OpKey(j) \in Key
          BY <3>2, KeyType DEF OpKey, TypeInv, StateTypes, RoomInv
        <5> QED
          BY <2>3, <3>2, <3>3, <5>1, <5>2 DEF SentInv, NotStartedAgain
      <4> QED
        BY <4>1, <4>2
    <3>8. sent[OpKey(i)] > 0 => turn.pending[i] \in Idempotent
      BY <2>5, <3>1, <3>2 DEF SentInv, NotStartedAgain
    <3>9. ReplayIsFenced'
      <4> SUFFICES ASSUME NEW k \in Key, NEW l \in Key, sent'[k] > 0, sent'[l] > 0
                   PROVE  /\ sent'[k] > 1 => k[3] \in Idempotent
                          /\ k[1] = l[1] /\ k[2] = l[2] => k = l
        BY DEF ReplayIsFenced
      <4>1. sent'[k] > 1 => k[3] \in Idempotent
        BY <3>1, <3>3, <3>8 DEF SentInv, ReplayIsFenced
      <4>2. ASSUME NEW m \in Key, sent[m] > 0, m[1] = turn.rounds + 1, m[2] = i
            PROVE  m = OpKey(i)
        BY <3>1, <3>4, <4>2, KeyParts DEF SentCalls
      <4>3. k[1] = l[1] /\ k[2] = l[2] => k = l
        BY <3>1, <3>3, <4>2 DEF SentInv, ReplayIsFenced
      <4> QED
        BY <4>1, <4>3
    <3> QED
      BY <3>5, <3>6, <3>7, <3>9 DEF SentInv
  <2> QED
    BY <1>9, <2>4, <2>5
    DEF CallStep, Dispatch, CallDone, OutcomeUnknown, CallCancelled, PersistResult, MayStart
<1> QED
  BY <1>1, <1>2, <1>3, <1>4, <1>5, <1>6, <1>7, <1>8, <1>9, Shapes

\* What has been asked stays in order through crashes and recoveries.
LEMMA HistoryInvariant ==
    ASSUME MaxStale = 0
    PROVE  Spec => [](AskedInv /\ SentInv)
<1>1. TypeInv /\ R!TypeOK /\ CheckpointInv /\ [Next]_vars => CheckpointInv'
  BY CheckpointNext
<1>2. TypeInv /\ R!TypeOK /\ CheckpointInv /\ AskedInv /\ [Next]_vars => AskedInv'
  BY AskedNext
<1>3. /\ TypeInv /\ TypeInv' /\ R!TypeOK /\ CheckpointInv /\ SentInv /\ [Next]_vars
      => SentInv'
  BY SentNext
<1> QED
  BY <1>1, <1>2, <1>3, HistoryInit, TypeInvariant, PTL DEF Spec

\* The model request of a round is never sent again (ModelRequestNotResent),
\* through any number of crashes and recoveries from the loop's checkpoint.
THEOREM ModelRequestNotResentHolds ==
    ASSUME MaxStale = 0
    PROVE  Spec => []ModelRequestNotResent
<1>1. AskedInv => ModelRequestNotResent
  BY DEF AskedInv
<1> QED
  BY <1>1, HistoryInvariant, PTL

\* A tool call that is not fenced is sent at most once, and at one place of a
\* round one call only (ReplayIsFenced).
THEOREM ReplayIsFencedHolds ==
    ASSUME MaxStale = 0
    PROVE  Spec => []ReplayIsFenced
<1>1. SentInv => ReplayIsFenced
  BY DEF SentInv
<1> QED
  BY <1>1, HistoryInvariant, PTL

\* The checkpoint names the calls that were sent until their results are
\* handled (ReplayInputIntact).
THEOREM ReplayInputIntactHolds ==
    ASSUME MaxStale = 0
    PROVE  Spec => []ReplayInputIntact
<1>1. SentInv => ReplayInputIntact
  BY DEF SentInv, SentCalls, ReplayInputIntact
<1> QED
  BY <1>1, HistoryInvariant, PTL

-------------------------------------------------------------------------------
(* What is persisted. *)

\* During a round exactly the calls found or stored have a persisted result.
PersistedInv ==
    /\ ~MemoryAware => raw.tools = {}
    /\ \A i \in Calls : OpKey(i) \in raw.tools <=> tools[i] \in {"cached", "stored"}

\* What a step of a call does to its status and to the persisted results.
LEMMA PersistedCall ==
    ASSUME TypeInv, PersistedInv, NEW i \in Calls, CallStep(i)
    PROVE  /\ PersistedInv'
           /\ \A k \in raw.tools : sent'[k] = sent[k]
<1>1. Executing /\ UNCHANGED turn
  BY DEF CallStep, Dispatch, CallDone, OutcomeUnknown, CallCancelled, PersistResult, SetCall
<1>2. \A j \in Calls : OpKey(j)' = OpKey(j) /\ OpKey(j) \in Key /\ (OpKey(j) = OpKey(i) => j = i)
  BY <1>1, CallKey DEF OpKey
<1>3. PICK s \in CallStatus : SetCall(i, s)
  BY DEF CallStep, Dispatch, CallDone, OutcomeUnknown, CallCancelled, PersistResult, CallStatus
<1>4. /\ Calls' = Calls /\ tools'[i] = s
      /\ \A j \in Calls : j # i => tools'[j] = tools[j]
  BY <1>3 DEF SetCall, Calls
<1>5. CASE PersistResult(i)
  <2>1. s = "stored" /\ MemoryAware
    BY <1>4, <1>5 DEF PersistResult, SetCall, Calls
  <2>2. raw'.tools = raw.tools \cup {OpKey(i)} /\ UNCHANGED sent
    BY <1>5 DEF PersistResult, TypeInv, WorldTypes
  <2> QED
    BY <1>2, <1>4, <2>1, <2>2 DEF PersistedInv
<1>6. CASE Dispatch(i) \/ CallDone(i) \/ OutcomeUnknown(i) \/ CallCancelled(i)
  <2>1. tools[i] \in {"todo", "inflight"} /\ s \notin {"cached", "stored"} /\ UNCHANGED raw
    BY <1>4, <1>6
    DEF Dispatch, CallDone, OutcomeUnknown, CallCancelled, MayStart, SetCall, Calls, world
  <2>2. PersistedInv'
    BY <1>2, <1>4, <2>1 DEF PersistedInv
  <2>3. OpKey(i) \notin raw.tools
    BY <2>1 DEF PersistedInv
  <2>4. \A k \in Key : k # OpKey(i) => sent'[k] = sent[k]
    BY <1>6 DEF Dispatch, CallDone, OutcomeUnknown, CallCancelled, world, TypeInv, WorldTypes
  <2>5. raw.tools \subseteq Key
    BY DEF TypeInv, WorldTypes
  <2> QED
    BY <2>2, <2>3, <2>4, <2>5
<1> QED
  BY <1>5, <1>6 DEF CallStep

\* Every step keeps the persisted results and the calls in line.
LEMMA PersistedNext ==
    TypeInv /\ PersistedInv /\ [Next]_vars =>
        PersistedInv' /\ \A k \in raw.tools : sent'[k] = sent[k]
<1> SUFFICES ASSUME TypeInv, PersistedInv, [Next]_vars
             PROVE  PersistedInv' /\ \A k \in raw.tools : sent'[k] = sent[k]
  OBVIOUS
<1> USE DEF world, local
<1>1. ASSUME tools' = <<>>, UNCHANGED <<raw, sent>>
      PROVE  PersistedInv' /\ \A k \in raw.tools : sent'[k] = sent[k]
  BY <1>1 DEF PersistedInv, Calls
<1>2. CASE EntryStep
  <2>1. tools = <<>>
    BY <1>2 DEF EntryStep, Enters, TypeInv, CallTypes
  <2> QED
    BY <1>1, <1>2, <2>1 DEF EntryStep, Enters
<1>3. CASE Waits \/ Copies \/ Saves
  BY <1>3 DEF Waits, Copies, Saves, PersistedInv, Calls, OpKey
<1>4. CASE Stops \/ Drops \/ Ends
  BY <1>1, <1>4 DEF Stops, Drops, Ends, Leaves, Forget
<1>5. CASE Passes \/ ModelMoves \/ ToolsMove
  BY <1>1, <1>5 DEF Passes, ModelMoves, ToolsMove, Moves
<1>6. CASE Acts
  <2>1. UNCHANGED <<turn, sent>> /\ Calls = {}
    BY <1>6 DEF Acts, TypeInv, CallTypes, Calls
  <2>2. CASE UNCHANGED tools
    <3>1. raw'.tools = raw.tools
      BY <1>6 DEF Acts, TypeInv, WorldTypes
    <3> QED
      BY <2>1, <2>2, <3>1 DEF PersistedInv, Calls
  <2>3. CASE /\ UNCHANGED raw
             /\ tools' = [i \in DOMAIN turn.pending |->
                            IF MemoryAware /\ OpKey(i) \in raw.tools THEN "cached" ELSE "todo"]
    BY <2>1, <2>3 DEF PersistedInv, Calls, OpKey
  <2> QED
    BY <1>6, <2>2, <2>3 DEF Acts
<1>7. ASSUME NEW i \in Calls, CallStep(i)
      PROVE  PersistedInv' /\ \A k \in raw.tools : sent'[k] = sent[k]
  BY <1>7, PersistedCall
<1> QED
  BY <1>2, <1>3, <1>4, <1>5, <1>6, <1>7, Shapes

\* Persisted results and calls are always in line.
LEMMA PersistedInvariant == Spec => []PersistedInv
<1>1. Init => PersistedInv
  BY DEF Init, PersistedInv, Calls
<1> QED
  BY <1>1, PersistedNext, TypeInvariant, PTL DEF Spec

\* Once its result is persisted a call is not sent again
\* (PersistedResultNotAskedAgain): also not by a recovery from a kept copy.
THEOREM PersistedResultNotAskedAgainHolds == Spec => PersistedResultNotAskedAgain
<1>1. TypeInv /\ PersistedInv /\ [Next]_vars => [\A k \in raw.tools : sent'[k] = sent[k]]_vars
  BY PersistedNext
<1> QED
  BY <1>1, PersistedInvariant, TypeInvariant, PTL DEF Spec, PersistedResultNotAskedAgain

-------------------------------------------------------------------------------
(* What a finished turn has recorded, again without kept copies. *)

\* What the node persist_assistant_output makes of the answer of state t.
AnswerOf(t) == IF t.answer = NoAnswer THEN Placeholder ELSE t.answer

\* At node n with state t: what the nodes before n persist is persisted, and the
\* answer is not before its time.
Recorded(n, t) ==
    /\ n # "ingest_user_input" => raw.user
    /\ \A k \in Key : sent[k] > 0 /\ k[1] <= t.rounds => k \in raw.tools
    /\ raw.answer \in CASE n \in {"mark_session_overflow", "distill_current_loop"} -> {t.answer}
                         [] n = "persist_assistant_output" -> {NoAnswer, AnswerOf(t)}
                         [] OTHER -> {NoAnswer}

RecordInv ==
    /\ phase # "idle" => Recorded(node, turn)
    /\ ckpt.status = "Running" => Recorded(ckpt.node, saved)
    /\ phase = "running" /\ effect => /\ node = "ingest_user_input" => raw.user
                                      /\ node = "persist_assistant_output" => raw.answer = Answer
    /\ ckpt.status = "Absent" /\ result = "none" => raw.answer = NoAnswer

\* Where a default edge leads in the memory-aware graph.
LEMMA MemoryAwareEdges ==
    ASSUME MemoryAware, NEW n \in Node \ {FinishNode}
    PROVE  /\ DefaultNext[n] # "ingest_user_input"
           /\ n = "persist_assistant_output" => DefaultNext[n] = "mark_session_overflow"
           /\ n = "mark_session_overflow" => DefaultNext[n] = "distill_current_loop"
           /\ n \in ModelNode => DefaultNext[n] = "persist_assistant_output"
           /\ n \notin ModelNode \cup {"persist_assistant_output", "mark_session_overflow"} =>
                 DefaultNext[n] \notin {"persist_assistant_output", "mark_session_overflow",
                                       "distill_current_loop"}
BY MemoryAwareGraph DEF MemoryAwareNext

\* The calls of a round whose results are handled are persisted.
LEMMA RoundRecorded ==
    ASSUME MemoryAware, TypeInv, PersistedInv, SentInv, Recorded(node, turn), ToolsMove
    PROVE  \A k \in Key : sent[k] > 0 => k \in raw.tools
<1> SUFFICES ASSUME NEW k \in Key, sent[k] > 0 PROVE k \in raw.tools
  OBVIOUS
<1>1. /\ phase = "running" /\ node = "execute_tools" /\ Executing
      /\ turn \in TurnState /\ turn.rounds \in Nat
  BY ToolAssumption DEF ToolsMove, Executing, Running, TypeInv, StateTypes, TurnState
<1>2. CASE k[1] <= turn.rounds
  BY <1>2 DEF Recorded
<1>3. CASE k[1] = turn.rounds + 1
  <2>1. k[2] \in DOMAIN turn.pending /\ turn.pending[k[2]] = k[3]
    BY <1>1, <1>3 DEF SentInv, SentCalls
  <2>2. k[2] \in Calls
    BY <1>1, <2>1, PendingTypes DEF Executing, TypeInv, CallTypes, Calls
  <2>3. OpKey(k[2]) = k
    BY <1>3, <2>1, KeyParts DEF OpKey
  <2>4. tools[k[2]] \in {"cached", "stored"}
    BY <2>2 DEF ToolsMove, Handled
  <2> QED
    BY <2>2, <2>3, <2>4 DEF PersistedInv
<1> QED
  BY <1>1, <1>2, <1>3, KeyParts DEF SentInv, SentCalls

\* Every step keeps the record as complete as its node requires.
LEMMA RecordNext ==
    /\ MaxStale = 0 /\ MemoryAware /\ TypeInv /\ R!TypeOK /\ CheckpointInv /\ SentInv
    /\ PersistedInv /\ RecordInv /\ [Next]_vars
    => RecordInv'
<1> SUFFICES ASSUME MaxStale = 0, MemoryAware, TypeInv, R!TypeOK, CheckpointInv, SentInv,
                    PersistedInv, RecordInv, [Next]_vars
             PROVE  RecordInv'
  OBVIOUS
<1> USE DEF world, local
<1>0. turn.rounds \in Nat
  BY ToolAssumption DEF TypeInv, StateTypes, TurnState
<1>1. CASE EntryStep
  <2>1. /\ UNCHANGED <<ckpt, saved, raw, sent>> /\ effect' = FALSE
    BY <1>1 DEF EntryStep, Enters, TypeInv, CallTypes
  <2>2. ckpt.status = "Absent" => result = "none"
    BY <1>1, Entering
  <2>3. Recorded(node, turn)'
    <3>1. CASE ckpt.status = "Running" /\ node' = ckpt.node /\ turn' = saved
      BY <2>1, <3>1 DEF RecordInv, Recorded, AnswerOf
    <3>2. CASE ckpt.status = "Absent" /\ result = "none" /\ node' = "ingest_user_input"
      BY <2>1, <3>2 DEF RecordInv, Recorded, CheckpointInv
    <3>3. staleRuns = 0
      BY DEF R!TypeOK
    <3> QED
      BY <1>1, <3>1, <3>2, <3>3 DEF EntryStep, Enters
  <2> QED
    BY <1>1, <2>1, <2>2, <2>3, Entering DEF EntryStep, Enters, RecordInv, Recorded, AnswerOf
<1>2. CASE Waits \/ Copies
  BY <1>2 DEF Waits, Copies, RecordInv, Recorded, AnswerOf, Answer, TypeInv, CallTypes
<1>3. CASE Saves
  BY <1>3 DEF Saves, RecordInv, Recorded, AnswerOf
<1>4. CASE Stops \/ Drops \/ Ends
  BY <1>4 DEF Stops, Drops, Ends, Leaves, R!Stopped, RecordInv, Recorded, AnswerOf, CheckpointInv
<1>5. ASSUME NEW b, NEW t, Moves(b, t), Recorded(node', t) PROVE RecordInv'
  BY <1>5 DEF Moves, RecordInv, Recorded, AnswerOf
<1>6. CASE Passes
  <2>1. PICK t : /\ Moves("default", t)
                 /\ t = IF node = "persist_assistant_output" THEN [turn EXCEPT !.answer = Answer]
                        ELSE turn
    BY <1>6 DEF Passes
  <2>2. /\ t.rounds = turn.rounds
        /\ node = "persist_assistant_output" => t.answer = Answer
        /\ node # "persist_assistant_output" => t.answer = turn.answer
    BY <2>1 DEF TypeInv, StateTypes, TurnState
  <2>3. /\ phase = "running" /\ node \in Node \ {FinishNode} /\ node' = DefaultNext[node]
        /\ node \notin ModelNode
    BY <1>6, <2>1, Moving DEF Passes, Moves
  <2>4. Recorded(node', t)
    <3>1. raw.user
      BY <1>6, <2>3 DEF Passes, RecordInv, Recorded
    <3>2. raw.answer \in CASE node' \in {"mark_session_overflow", "distill_current_loop"} -> {t.answer}
                            [] node' = "persist_assistant_output" -> {NoAnswer, AnswerOf(t)}
                            [] OTHER -> {NoAnswer}
      <4>1. CASE node = "persist_assistant_output"
        BY <1>6, <2>2, <2>3, <4>1, MemoryAwareEdges DEF Passes, RecordInv
      <4>2. CASE node = "mark_session_overflow"
        BY <2>2, <2>3, <4>2, MemoryAwareEdges DEF RecordInv, Recorded
      <4>3. CASE node \notin {"persist_assistant_output", "mark_session_overflow"}
        <5>1. node # "distill_current_loop"
          BY <2>3, MemoryAwareGraph
        <5>2. raw.answer = NoAnswer
          BY <2>3, <4>3, <5>1 DEF RecordInv, Recorded
        <5> QED
          BY <2>3, <4>3, <5>2, MemoryAwareEdges
      <4> QED
        BY <4>1, <4>2, <4>3
    <3> QED
      BY <2>2, <2>3, <3>1, <3>2 DEF RecordInv, Recorded
  <2> QED
    BY <1>5, <2>1, <2>4
<1>7. CASE ModelMoves
  <2>1. PICK b, t : /\ b \in {"default", "needs_tools"} /\ Moves(b, t)
                    /\ t.rounds = turn.rounds /\ node \in ModelNode
    BY <1>7 DEF ModelMoves, TypeInv, StateTypes, TurnState
  <2>2. node' \in {"persist_assistant_output", "execute_tools"}
    BY <2>1, Moving, MemoryAwareEdges
  <2>3. node \notin {"persist_assistant_output", "mark_session_overflow", "distill_current_loop",
                     "ingest_user_input"}
    BY <2>1, MemoryAwareGraph
  <2>4. Recorded(node', t)
    BY <2>1, <2>2, <2>3 DEF Moves, RecordInv, Recorded
  <2> QED
    BY <1>5, <2>1, <2>4
<1>8. CASE ToolsMove
  <2>1. /\ phase = "running" /\ node = "execute_tools"
        /\ node' = DefaultNext["execute_tools"] /\ node \in Node \ {FinishNode}
    BY <1>8, Moving DEF ToolsMove, Executing, Running
  <2>2. Recorded(node, turn)
    BY <2>1 DEF RecordInv
  <2>3. \A k \in Key : sent[k] > 0 => k \in raw.tools
    BY <1>8, <2>2, RoundRecorded
  <2>4. Recorded(node', [turn EXCEPT !.rounds = @ + 1, !.pending = <<>>])
    BY <2>1, <2>2, <2>3, MemoryAwareEdges, MemoryAwareGraph DEF Recorded
  <2> QED
    BY <1>5, <1>8, <2>4 DEF ToolsMove
<1>9. CASE Acts
  <2>1. /\ UNCHANGED <<phase, node, ckpt, turn, saved, sent, result>> /\ phase = "running"
        /\ ckpt.node = node /\ saved = turn /\ ckpt.status = "Running" /\ ~effect
    BY <1>9 DEF Acts, Stays, CheckpointInv
  <2>2. /\ raw'.tools = raw.tools /\ (raw.user => raw'.user)
        /\ node = "ingest_user_input" => raw'.user
        /\ node = "persist_assistant_output" =>
              raw'.answer = IF raw.answer = NoAnswer THEN Answer ELSE raw.answer
        /\ node # "persist_assistant_output" => raw'.answer = raw.answer
    <3>1. "persist_assistant_output" \notin ModelNode /\ "ingest_user_input" \notin ModelNode
      BY MemoryAwareGraph
    <3> QED
      BY <1>9, <3>1 DEF Acts, TypeInv, WorldTypes
  <2>3. Answer = AnswerOf(turn) /\ Answer' = Answer
    BY <2>1 DEF Answer, AnswerOf
  <2>4. Recorded(node, turn)
    BY <2>1 DEF RecordInv
  <2>5. Recorded(node, turn)'
    BY <2>1, <2>2, <2>3, <2>4 DEF Recorded, AnswerOf
  <2>6. node = "persist_assistant_output" => raw'.answer = Answer
    BY <2>2, <2>3, <2>4 DEF Recorded
  <2> QED
    BY <2>1, <2>2, <2>3, <2>5, <2>6 DEF RecordInv, Recorded
<1>10. ASSUME NEW i \in Calls, CallStep(i) PROVE RecordInv'
  <2>1. Executing /\ UNCHANGED <<phase, node, ckpt, turn, saved, effect, result>>
    BY <1>10
    DEF CallStep, Dispatch, CallDone, OutcomeUnknown, CallCancelled, PersistResult, SetCall, driver
  <2>2. /\ phase = "running" /\ node = "execute_tools" /\ saved = turn /\ ckpt.node = node
        /\ ckpt.status = "Running"
    BY <2>1 DEF Executing, Running, CheckpointInv
  <2>3. /\ raw'.user = raw.user /\ raw'.answer = raw.answer /\ raw.tools \subseteq raw'.tools
        /\ \A k \in Key : k # OpKey(i) => sent'[k] = sent[k]
    BY <1>10, <2>1, CallKey
    DEF CallStep, Dispatch, CallDone, OutcomeUnknown, CallCancelled, PersistResult, TypeInv, WorldTypes
  <2>4. OpKey(i)[1] = turn.rounds + 1
    BY DEF OpKey
  <2>5. Recorded(node, turn)'
    BY <1>0, <2>1, <2>2, <2>3, <2>4 DEF RecordInv, Recorded
  <2> QED
    BY <2>1, <2>2, <2>5 DEF RecordInv, Recorded
<1> QED
  BY <1>1, <1>2, <1>3, <1>4, <1>6, <1>7, <1>8, <1>9, <1>10, Shapes

\* The record of a memory-aware turn that ends as Finished is complete
\* (FinishedTurnIsRecorded), whatever crashes came before.
THEOREM FinishedTurnIsRecordedHolds ==
    ASSUME MaxStale = 0
    PROVE  Spec => FinishedTurnIsRecorded
<1>1. ~MemoryAware \/ (Init => RecordInv)
  BY DEF Init, RecordInv, R!Init, R!NoCheckpoint
<1>2. /\ TypeInv /\ R!TypeOK /\ CheckpointInv /\ SentInv /\ PersistedInv
      /\ (MemoryAware => RecordInv) /\ [Next]_vars
      => (MemoryAware => RecordInv)'
  BY RecordNext DEF MemoryAware
<1>3. TypeInv /\ R!TypeOK /\ CheckpointInv /\ [Next]_vars => CheckpointInv'
  BY CheckpointNext
<1>4. /\ TypeInv /\ SentInv /\ (MemoryAware => RecordInv) /\ [Next]_vars
      => [result' = "Finished" /\ result # "Finished" /\ MemoryAware =>
             /\ raw.user
             /\ raw.answer = turn.answer
             /\ \A k \in Key : sent[k] > 0 => k \in raw.tools]_vars
  <2> SUFFICES ASSUME TypeInv, SentInv, MemoryAware, RecordInv, [Next]_vars,
                      result' = "Finished", result # "Finished"
               PROVE  /\ raw.user
                      /\ raw.answer = turn.answer
                      /\ \A k \in Key : sent[k] > 0 => k \in raw.tools
    OBVIOUS
  <2>1. Ends
    BY Shapes
    DEF EntryStep, Enters, Waits, Copies, Saves, Stops, Drops, Passes, ModelMoves, ToolsMove,
        Moves, Acts, Stays, CallStep, Dispatch, CallDone, OutcomeUnknown, CallCancelled,
        PersistResult, SetCall, driver
  <2>2. phase # "idle" /\ node = "distill_current_loop"
    BY <2>1, MemoryAwareGraph DEF Ends, Leaves
  <2>3. Recorded(node, turn) /\ SentCalls(node, turn)
    BY <2>2 DEF RecordInv, SentInv
  <2>4. turn.rounds \in Nat
    BY ToolAssumption DEF TypeInv, StateTypes, TurnState
  <2> QED
    BY <2>2, <2>3, <2>4, KeyParts DEF Recorded, SentCalls
<1> QED
  BY <1>1, <1>2, <1>3, <1>4, HistoryInit, TypeInvariant, HistoryInvariant, PersistedInvariant, PTL
  DEF Spec, FinishedTurnIsRecorded
===============================================================================
