------------------------------- MODULE TurnLoop -------------------------------
(***************************************************************************)
(* TurnLoop: one turn of the engine, from run_turn to the response.  It     *)
(* composes GraphRunner with the two shipped graphs (graph_spec.rs), the    *)
(* nodes that touch the outside world (nodes.rs) and the guards of          *)
(* recover_interrupted_loop (session_engine.rs).                            *)
(*                                                                         *)
(* Every action that moves the driver is the GraphRunner action of the same *)
(* name, joined with what the current node does to its ExecutionState and   *)
(* to the world.  The variables below hold what GraphRunner leaves out.     *)
(* commit_raw is one step here: what a crash inside it leaves is a matter   *)
(* of the object store.                                                     *)
(***************************************************************************)
EXTENDS Integers, Sequences

CONSTANTS
    Profile,        \* RunOptions.execution_profile
    Call,           \* tool calls a model may ask for
    ReadOnly,       \* calls with ToolExecutionKind::ReadOnly
    Idempotent,     \* calls with recovery_is_idempotent
    Outputs,        \* the call lists the model may answer with
    MaxCalls,       \* max_tool_calls_per_round
    MaxToolRounds,  \* ResolvedRunOptions.max_tool_rounds
    MaxGraphSteps, MaxCrashes, MaxStale     \* see GraphRunner

ASSUME ProfileAssumption == Profile \in {"memory_aware", "external_context"}
ASSUME ToolAssumption ==
    /\ ReadOnly \subseteq Call
    /\ Idempotent \subseteq Call
    /\ MaxCalls \in Nat
    /\ MaxToolRounds \in Nat \ {0}   \* ResolvedRunOptions::validate rejects 0
    /\ \A calls \in Outputs : calls \in Seq(Call) /\ Len(calls) <= MaxCalls
ASSUME TurnBoundsAssumption ==
    /\ MaxGraphSteps \in Nat \ {0}
    /\ MaxCrashes \in Nat
    /\ MaxStale \in Nat

VARIABLES phase, node, iter, last, cancelled, ckpt, held, result,
          executions, crashes, staleRuns    \* see GraphRunner
VARIABLES
    turn,      \* the ExecutionState of the running driver
    saved,     \* ckpt.state_json
    kept,      \* held.state_json
    effect,    \* the node has made its external call (execute_tools: prepared)
    tools,     \* execute_tools: status of each pending call
    raw,       \* the loop's raw nodes, by operation key
    requests,  \* history: the round of every model request sent
    sent       \* history: how often each call was sent to the executor, by key

driver == <<phase, node, iter, last, cancelled, ckpt, held, result,
            executions, crashes, staleRuns>>
local == <<turn, effect, tools>>
world == <<raw, requests, sent>>
vars == <<driver, local, saved, kept, world>>

-------------------------------------------------------------------------------
(* The graphs. *)

MemoryAware == Profile = "memory_aware"

ModelNode ==
    IF MemoryAware THEN {"run_model", "run_model_after_tools"}
    ELSE {"run_model_external_context", "run_model_external_context_after_tools"}

\* build_default_execution_graph, as a function on its default edges.
MemoryAwareNext ==
    [ingest_user_input |-> "load_session_view",
     load_session_view |-> "build_activation_query",
     build_activation_query |-> "activate_memory",
     activate_memory |-> "assemble_context",
     assemble_context |-> "run_model",
     run_model |-> "persist_assistant_output",
     execute_tools |-> "build_followup_activation_query",
     build_followup_activation_query |-> "reactivate_memory",
     reactivate_memory |-> "reassemble_context",
     reassemble_context |-> "run_model_after_tools",
     run_model_after_tools |-> "persist_assistant_output",
     persist_assistant_output |-> "mark_session_overflow",
     mark_session_overflow |-> "distill_current_loop"]

\* build_external_context_execution_graph
ExternalNext ==
    [assemble_external_context |-> "run_model_external_context",
     run_model_external_context |-> "finalize_external_response",
     execute_tools |-> "run_model_external_context_after_tools",
     run_model_external_context_after_tools |-> "finalize_external_response"]

DefaultNext == IF MemoryAware THEN MemoryAwareNext ELSE ExternalNext
FinishNode == IF MemoryAware THEN "distill_current_loop" ELSE "finalize_external_response"
Node == DOMAIN DefaultNext \cup {FinishNode}

Edges == [e \in {<<n, "default">> : n \in DOMAIN DefaultNext}
                  \cup {<<n, "needs_tools">> : n \in ModelNode} |->
             IF e[2] = "default" THEN DefaultNext[e[1]] ELSE "execute_tools"]

R == INSTANCE GraphRunner WITH
        NodeId <- Node,
        Registered <- Node,
        Start <- IF MemoryAware THEN "ingest_user_input" ELSE "assemble_external_context",
        Branch <- {"default", "needs_tools"},
        Edge <- Edges,
        Emits <- [n \in Node |-> IF n \in ModelNode THEN {"default", "needs_tools"}
                                 ELSE IF n = FinishNode THEN {} ELSE {"default"}],
        Finishing <- {FinishNode},
        Pausing <- {},
        ToolNode <- {"execute_tools"},
        NoNode <- "none"

-------------------------------------------------------------------------------
(* State. *)

NoAnswer == [kind |-> "none", reply |-> 0]
Limit == [kind |-> "limit", reply |-> 0]            \* "Tool round limit reached"
Placeholder == [kind |-> "placeholder", reply |-> 0] \* "No assistant message generated."
Reply(n) == [kind |-> "reply", reply |-> n]          \* the text of the n-th model reply

\* ExecutionState, as far as the nodes branch on it.
FreshTurn == [rounds |-> 0, pending |-> <<>>, answer |-> NoAnswer]

CallStatus == {"todo", "cached", "inflight", "done", "stored", "cancelled", "indeterminate"}

\* tool_result_operation_key: round, index and name.
Key == (1..MaxToolRounds) \X (1..MaxCalls) \X Call
OpKey(i) == <<turn.rounds + 1, i, turn.pending[i]>>

TypeOK ==
    /\ R!TypeOK
    /\ \A t \in {turn, saved, kept} :
          /\ t.rounds \in 0..MaxToolRounds
          /\ t.pending \in Outputs \cup {<<>>}
          /\ t.answer.kind \in {"none", "limit", "placeholder", "reply"}
          /\ t.answer.reply \in 0..Len(requests)
    /\ effect \in BOOLEAN
    /\ tools \in Seq(CallStatus)
    /\ raw.user \in BOOLEAN
    /\ raw.answer.kind \in {"none", "limit", "placeholder", "reply"}
    /\ raw.tools \subseteq Key
    /\ requests \in Seq(0..MaxToolRounds)
    /\ sent \in [Key -> Nat]
    /\ effect => phase = "running"
    /\ tools # <<>> => effect /\ node = "execute_tools" /\ Len(tools) = Len(turn.pending)

Init ==
    /\ R!Init
    /\ turn = FreshTurn
    /\ saved = FreshTurn
    /\ kept = FreshTurn
    /\ effect = FALSE
    /\ tools = <<>>
    /\ raw = [user |-> FALSE, answer |-> NoAnswer, tools |-> {}]
    /\ requests = <<>>
    /\ sent = [k \in Key |-> 0]

\* The driver's state is dropped.
Forget ==
    /\ turn' = FreshTurn
    /\ effect' = FALSE
    /\ tools' = <<>>

\* The checkpoint just written serializes the ExecutionState as it is.
SaveState == saved' = turn

-------------------------------------------------------------------------------
(* Entry points of session_engine.rs. *)

RunTurn ==
    /\ R!Run
    /\ UNCHANGED <<local, saved, kept, world>>

\* Mutant of RecoverySafe: only the pending tool calls are looked at.
RecoverySafeForTools(c, s) ==
    c.node = "execute_tools" =>
        \A i \in DOMAIN s.pending : s.pending[i] \in Idempotent

\* Mutant of RecoverySafe: only the model nodes are refused.
RecoverySafeForModel(c, s) == c.node \notin ModelNode

\* recover_interrupted_loop refuses a model node, and pending tool calls
\* unless every one of them is idempotent.
RecoverySafe(c, s) ==
    /\ c.node \notin ModelNode
    /\ c.node = "execute_tools" =>
          \A i \in DOMAIN s.pending : s.pending[i] \in Idempotent

RecoverInterrupted ==
    /\ R!RecoverFresh
    /\ RecoverySafe(ckpt, saved)
    /\ turn' = saved
    /\ UNCHANGED <<effect, tools, saved, kept, world>>

RecoverKeptCopy ==
    /\ R!RecoverStale
    /\ RecoverySafe(held, kept)
    /\ turn' = kept
    /\ UNCHANGED <<effect, tools, saved, kept, world>>

KeepCopy ==
    /\ R!KeepCopy
    /\ kept' = saved
    /\ UNCHANGED <<local, saved, world>>

-------------------------------------------------------------------------------
(* The runner's own steps. *)

SaveRunning ==
    /\ R!SaveRunning
    /\ SaveState
    /\ UNCHANGED <<local, kept, world>>

StartNode ==
    /\ R!StartNode
    /\ UNCHANGED <<local, saved, kept, world>>

\* Stops that write a final checkpoint.
StopBeforeNode ==
    /\ R!CancelBeforeNode \/ R!BudgetExhausted
    /\ SaveState
    /\ Forget
    /\ UNCHANGED <<kept, world>>

NodeStopped ==
    /\ R!NodeFails \/ R!NodeTimesOut
    /\ SaveState
    /\ Forget
    /\ UNCHANGED <<kept, world>>

\* The runner drops the node's future; execute_tools sees to itself.
NodeCancelled ==
    /\ node # "execute_tools"
    /\ R!NodeCancelled
    /\ SaveState
    /\ Forget
    /\ UNCHANGED <<kept, world>>

RepositoryFails ==
    /\ R!RepositoryFails
    /\ Forget
    /\ UNCHANGED <<saved, kept, world>>

\* Continue or Branch(b) of the running node, with its state updated to t.
Continue(b, t) ==
    /\ R!NodeAdvances(b)
    /\ turn' = t
    /\ effect' = FALSE
    /\ tools' = <<>>
    /\ UNCHANGED <<saved, kept, world>>

\* clear_checkpoint: nothing of the loop's state is left.
FinishTurn ==
    /\ R!NodeFinishes
    /\ saved' = FreshTurn
    /\ Forget
    /\ UNCHANGED <<kept, world>>

-------------------------------------------------------------------------------
(* Nodes whose work outlives them, and the ones the turn only walks through. *)

Running(n) == phase = "running" /\ node = n

\* The external call of the running node, made before the node completes.
Effect ==
    /\ phase = "running"
    /\ ~effect
    /\ effect' = TRUE
    /\ UNCHANGED <<driver, turn, saved, kept>>

\* IngestUserInputNode: persist_raw_node under loop:{loop}:user_input.
IngestUserInput ==
    /\ Running("ingest_user_input")
    /\ Effect
    /\ raw' = [raw EXCEPT !.user = TRUE]
    /\ UNCHANGED <<tools, requests, sent>>

\* assistant_message, or the placeholder when the model gave no text.
Answer == IF turn.answer = NoAnswer THEN Placeholder ELSE turn.answer

\* PersistAssistantOutputNode: the first writer of the operation key wins.
PersistAssistantOutput ==
    /\ Running("persist_assistant_output")
    /\ Effect
    /\ raw' = [raw EXCEPT !.answer = IF @ = NoAnswer THEN Answer ELSE @]
    /\ UNCHANGED <<tools, requests, sent>>

PassiveNode == Node \ (ModelNode \cup {"execute_tools", "ingest_user_input",
                                       "persist_assistant_output", FinishNode})

PassThrough ==
    \/ node \in PassiveNode /\ Continue("default", turn)
    \/ node = "ingest_user_input" /\ effect /\ Continue("default", turn)
    \/ /\ node = "persist_assistant_output"
       /\ effect
       /\ Continue("default", [turn EXCEPT !.answer = Answer])

\* DistillCurrentLoopNode (its distillation is the Distillation module's
\* subject) and FinalizeExternalResponseNode.
Finish ==
    /\ Running(FinishNode)
    /\ FinishTurn

-------------------------------------------------------------------------------
(* ModelNode. *)

RequestModel ==
    /\ phase = "running"
    /\ node \in ModelNode
    /\ Effect
    /\ requests' = Append(requests, turn.rounds)
    /\ UNCHANGED <<tools, raw, sent>>

\* Mutant of ModelAsksForTools: one round too many.
ModelAsksForToolsOnceMore(calls) ==
    /\ node \in ModelNode
    /\ effect
    /\ calls # <<>>
    /\ turn.rounds <= MaxToolRounds
    /\ Continue("needs_tools", [turn EXCEPT !.pending = calls])

ModelAsksForTools(calls) ==
    /\ node \in ModelNode
    /\ effect
    /\ calls # <<>>
    /\ turn.rounds < MaxToolRounds
    /\ Continue("needs_tools", [turn EXCEPT !.pending = calls])

\* The rounds are used up: the pending calls stay in the state, unexecuted.
ModelOutOfRounds(calls) ==
    /\ node \in ModelNode
    /\ effect
    /\ calls # <<>>
    /\ turn.rounds >= MaxToolRounds
    /\ Continue("default", [turn EXCEPT !.pending = calls, !.answer = Limit])

ModelAnswers(text) ==
    /\ node \in ModelNode
    /\ effect
    /\ Continue("default", [turn EXCEPT !.pending = <<>>,
                                        !.answer = IF text THEN Reply(Len(requests))
                                                   ELSE NoAnswer])

-------------------------------------------------------------------------------
(* ExecuteToolsNode. *)

Executing == Running("execute_tools") /\ effect
Calls == DOMAIN tools

\* Mutant of Prepare: the persisted results are not looked up.
PrepareUncached ==
    /\ Running("execute_tools")
    /\ Effect
    /\ ~cancelled
    /\ tools' = [i \in DOMAIN turn.pending |-> "todo"]
    /\ UNCHANGED world

\* Prepares every call; a result that is already persisted is not asked for
\* again.  With an external context nothing is persisted.
Prepare ==
    /\ Running("execute_tools")
    /\ Effect
    /\ ~cancelled
    /\ tools' = [i \in DOMAIN turn.pending |-> IF MemoryAware /\ OpKey(i) \in raw.tools
                                 THEN "cached" ELSE "todo"]
    /\ UNCHANGED world

\* Calls i < j that are spawned together: both, and every call between them
\* that is not cached, are read-only.
SamePhase(i, j) ==
    \A k \in i..j : tools[k] = "cached" \/ turn.pending[k] \in ReadOnly

\* Mutant of MayStart: a cached call is waited for like any other.
MayStartAfterDone(i) ==
    /\ tools[i] = "todo"
    /\ \A j \in 1..(i - 1) : SamePhase(j, i) \/ tools[j] = "done"

\* Mutant of MayStart: every call is started with the one before it.
MayStartUnordered(i) == tools[i] = "todo"

\* Call i is next in line: every call of an earlier phase is done, without a
\* terminal error.
MayStart(i) ==
    /\ tools[i] = "todo"
    /\ \A j \in 1..(i - 1) : SamePhase(j, i) \/ tools[j] \in {"cached", "done"}

SetCall(i, s) ==
    /\ tools' = [tools EXCEPT ![i] = s]
    /\ UNCHANGED <<driver, turn, effect, saved, kept>>

Dispatch(i) ==
    /\ Executing
    /\ MayStart(i)
    /\ ~cancelled
    /\ SetCall(i, "inflight")
    /\ sent' = [sent EXCEPT ![OpKey(i)] = @ + 1]
    /\ UNCHANGED <<raw, requests>>

\* The call answers in time, with a result or with an error of its own; a
\* read-only call that times out becomes an error the model sees.
CallDone(i) ==
    /\ Executing
    /\ tools[i] = "inflight"
    /\ ~cancelled
    /\ SetCall(i, "done")
    /\ UNCHANGED world

\* A side-effecting call exceeds tool_timeout (or says itself it cannot tell).
OutcomeUnknown(i) ==
    /\ Executing
    /\ tools[i] = "inflight"
    /\ turn.pending[i] \notin ReadOnly
    /\ SetCall(i, "indeterminate")
    /\ UNCHANGED world

\* The biased select! sees the token first, whether the call has been polled
\* or is only being spawned.
CallCancelled(i) ==
    /\ Executing
    /\ cancelled
    /\ tools[i] = "inflight" \/ MayStart(i)
    /\ SetCall(i, IF turn.pending[i] \in ReadOnly THEN "cancelled" ELSE "indeterminate")
    /\ UNCHANGED world

\* Every phase that was started is joined and no other will be.
Joined == \A i \in Calls : tools[i] # "inflight" /\ ~MayStart(i)

\* Mutant of Handled: a result counts before it is persisted.
HandledInMemory(i) == tools[i] \in {"cached", "done", "stored"}

Handled(i) == tools[i] = "cached" \/ tools[i] = IF MemoryAware THEN "stored" ELSE "done"

\* The results are handled in the order of the calls.
Turn(i) == Joined /\ ~Handled(i) /\ \A j \in 1..(i - 1) : Handled(j)

PersistResult(i) ==
    /\ MemoryAware
    /\ Executing
    /\ Turn(i)
    /\ tools[i] = "done"
    /\ raw' = [raw EXCEPT !.tools = @ \cup {OpKey(i)}]
    /\ SetCall(i, "stored")
    /\ UNCHANGED <<requests, sent>>

\* The node returns Cancelled: before it dispatched anything, or because a
\* read-only call was cancelled.
ToolsCancelled ==
    /\ Running("execute_tools")
    /\ ~effect \/ \E i \in Calls : Turn(i) /\ tools[i] = "cancelled"
    /\ R!NodeCancelled
    /\ SaveState
    /\ Forget
    /\ UNCHANGED <<kept, world>>

\* Mutant of ToolsIndeterminate: the pending calls are taken out of the state.
ToolsIndeterminateTaken ==
    /\ Executing
    /\ \E i \in Calls : Turn(i) /\ tools[i] = "indeterminate"
    /\ R!NodeFails
    /\ saved' = [turn EXCEPT !.pending = <<>>]
    /\ Forget
    /\ UNCHANGED <<kept, world>>

\* The node returns ToolOutcomeIndeterminate; the calls stay in the state.
ToolsIndeterminate ==
    /\ Executing
    /\ \E i \in Calls : Turn(i) /\ tools[i] = "indeterminate"
    /\ R!NodeFails
    /\ SaveState
    /\ Forget
    /\ UNCHANGED <<kept, world>>

\* The replay input is only cleared once every result has been handled.
ToolsComplete ==
    /\ Executing
    /\ \A i \in Calls : Handled(i)
    /\ Continue("default", [turn EXCEPT !.rounds = @ + 1, !.pending = <<>>])

-------------------------------------------------------------------------------
(* The environment. *)

Cancel ==
    /\ R!Cancel
    /\ UNCHANGED <<local, saved, kept, world>>

Crash ==
    /\ R!Crash
    /\ Forget
    /\ UNCHANGED <<saved, kept, world>>

Entry == RunTurn \/ RecoverInterrupted \/ RecoverKeptCopy

ModelReturns ==
    \/ \E calls \in Outputs : ModelAsksForTools(calls) \/ ModelOutOfRounds(calls)
    \/ \E text \in BOOLEAN : ModelAnswers(text)

ToolStep ==
    \/ Prepare
    \/ \E i \in Calls :
          \/ Dispatch(i)
          \/ CallDone(i)
          \/ OutcomeUnknown(i)
          \/ CallCancelled(i)
          \/ PersistResult(i)
    \/ ToolsCancelled
    \/ ToolsIndeterminate
    \/ ToolsComplete

Progress ==
    \/ SaveRunning
    \/ StartNode
    \/ StopBeforeNode
    \/ NodeCancelled
    \/ IngestUserInput
    \/ PersistAssistantOutput
    \/ PassThrough
    \/ RequestModel
    \/ ModelReturns
    \/ ToolStep
    \/ Finish

Failure == NodeStopped \/ RepositoryFails

Next == Entry \/ Progress \/ Failure \/ KeepCopy \/ Cancel \/ Crash

Spec == Init /\ [][Next]_vars

\* The runtime keeps polling the task, the model answers or is timed out, and
\* every tool call answers or is timed out.
FairSpec == Spec /\ WF_vars(Progress)

-------------------------------------------------------------------------------
(* Properties. *)

\* A completion is paid for once per round: whatever crashes and recoveries a
\* loop goes through, the model request of a round is never sent again
\* (README.md, "checkpoint と再開").  With one request per round at most
\* MaxToolRounds + 1 are sent in all.
ModelRequestNotResent ==
    \A i, j \in DOMAIN requests : i # j => requests[i] # requests[j]

\* At each index of a round one call is ever sent, and it is sent again only if
\* its executor fences the key: a side effect that is not fenced happens at
\* most once.
ReplayIsFenced ==
    \A k, l \in {key \in Key : sent[key] > 0} :
        /\ sent[k] > 1 => k[3] \in Idempotent
        /\ k[1] = l[1] /\ k[2] = l[2] => k = l

\* Once the result of a call is persisted, the call is never sent again: not
\* after a crash, and not by a recovery from an old copy of the checkpoint,
\* which walks the whole loop a second time.
PersistedResultNotAskedAgain ==
    [][\A k \in raw.tools : sent'[k] = sent[k]]_vars

\* A side-effecting call is a barrier: while it is in flight nothing else is,
\* every call the model listed before it is done and none after it has begun.
SideEffectsRunAlone ==
    \A i \in DOMAIN tools :
        tools[i] = "inflight" /\ turn.pending[i] \notin ReadOnly =>
            \A j \in DOMAIN tools \ {i} :
                tools[j] \in IF j < i THEN {"cached", "done"} ELSE {"cached", "todo"}

\* While a round's results are not all handled, the checkpoint still names the
\* calls that were sent, at their index: a recovery derives the same operation
\* keys and finds in the call list what was really done.
ReplayInputIntact ==
    \A k \in Key :
        sent[k] > 0 /\ ckpt.status # "Absent" /\ saved.rounds + 1 = k[1] =>
            k[2] \in DOMAIN saved.pending /\ saved.pending[k[2]] = k[3]

\* When a memory-aware turn ends as Finished, its record is complete: the user
\* message, every tool call that was ever sent, and the very answer the caller
\* is given.
FinishedTurnIsRecorded ==
    [][result' = "Finished" /\ result # "Finished" /\ MemoryAware =>
          /\ raw.user
          /\ raw.answer = turn.answer
          /\ \A k \in Key : sent[k] > 0 => k \in raw.tools]_vars

\* A turn ends: the tool phases cannot wait for one another for ever, and the
\* budgets stop the rest.
TurnReturns == phase # "idle" ~> phase = "idle"
===============================================================================
