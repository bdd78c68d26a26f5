------------------------------ MODULE GraphRunner ------------------------------
(***************************************************************************)
(* GraphRunner (src/engine/execution_graph.rs): the driver that walks one  *)
(* loop through an execution graph, one node at a time, saving a checkpoint *)
(* before every node and whenever it stops.  The graph is a parameter, so  *)
(* what is said here holds for the two shipped graphs (module TurnLoop) and *)
(* for the graphs a caller of the public API builds.                       *)
(*                                                                         *)
(* The life of ONE loop id is modelled: run, any number of pauses, crashes *)
(* of the process, recoveries, until the loop stops for good.  At most one *)
(* driver runs at a time: nothing in the code fences two drivers, the      *)
(* embedding product owns that.                                            *)
(***************************************************************************)
EXTENDS Integers

CONSTANTS
    NodeId,         \* the ids edges mention
    Registered,     \* the ids a node is registered under
    Start,          \* ExecutionGraph.start
    Branch,         \* edge labels, "default" among them
    Edge,           \* ExecutionGraph.edges: <<from, label>> |-> to
    Emits,          \* n |-> the labels node n may return (Continue = "default")
    Finishing,      \* nodes that may return NodeOutcome::Finish
    Pausing,        \* nodes that may return NodeOutcome::Pause
    ToolNode,       \* nodes of NodeRuntimeClass::ToolExecution
    NoNode,         \* None for last_completed_node
    MaxGraphSteps,  \* ResolvedRunOptions.max_graph_steps
    MaxCrashes,     \* bound: process crashes that are explored
    MaxStale        \* bound: loops picked up from a copy the caller kept

ASSUME GraphAssumption ==
    /\ Registered \subseteq NodeId
    /\ Start \in NodeId
    /\ NoNode \notin NodeId
    /\ DOMAIN Edge \subseteq NodeId \X Branch
    /\ \A e \in DOMAIN Edge : Edge[e] \in NodeId
    /\ Emits \in [Registered -> SUBSET Branch]
    /\ Finishing \subseteq Registered
    /\ Pausing \subseteq Registered
    /\ ToolNode \subseteq Registered
ASSUME BoundsAssumption ==
    /\ MaxGraphSteps \in Nat \ {0}   \* ResolvedRunOptions::validate rejects 0
    /\ MaxCrashes \in Nat
    /\ MaxStale \in Nat

VARIABLES
    phase,       \* where the driver is (see Phase)
    node,        \* current_node
    iter,        \* ExecutionState.iteration
    last,        \* ExecutionState.last_completed_node
    cancelled,   \* the cancellation token of the current RunOptions
    ckpt,        \* what the LoopStateRepository holds for this loop
    held,        \* a copy of it in the caller's hands
    result,      \* what the last call returned to the caller
    executions,  \* history: how often a node of this loop was run
    crashes,     \* history: crashes so far
    staleRuns    \* history: loops picked up from a copy the caller kept

driverVars == <<phase, node, iter, last, cancelled>>
counters == <<executions, crashes, staleRuns>>
vars == <<phase, node, iter, last, cancelled, ckpt, held, result,
          executions, crashes, staleRuns>>

\* "idle": no driver; "top": head of the loop in run_from_node; "saved": the
\* Running checkpoint is written; "running": the node's future is polled.
Phase == {"idle", "top", "saved", "running"}

\* LoopStatus, without the statuses no checkpoint ever carries (Finished).
Stopped == {"Cancelled", "TimedOut", "Failed"}
CheckpointStatus == {"Absent", "Running", "Paused"} \cup Stopped

LoopState == [status : CheckpointStatus, node : NodeId \cup {NoNode},
              iter : 0..MaxGraphSteps, last : Registered \cup {NoNode}]

NoCheckpoint == [status |-> "Absent", node |-> NoNode, iter |-> 0, last |-> NoNode]

\* ExecutionState::checkpoint
Checkpoint(s, i, l) == [status |-> s, node |-> node, iter |-> i, last |-> l]

Result == {"none", "Finished", "Paused", "Cancelled", "TimedOut",
           "NodeError", "Configuration", "Repository"}

TypeOK ==
    /\ phase \in Phase
    /\ node \in NodeId \cup {NoNode}
    /\ iter \in 0..MaxGraphSteps
    /\ last \in Registered \cup {NoNode}
    /\ cancelled \in BOOLEAN
    /\ ckpt \in LoopState
    /\ held \in LoopState
    /\ result \in Result
    /\ executions \in Nat
    /\ crashes \in 0..MaxCrashes
    /\ staleRuns \in 0..MaxStale
    /\ phase # "idle" => node \in NodeId
    /\ phase \in {"saved", "running"} => node \in Registered
    /\ \A c \in {ckpt, held} : c.status # "Absent" => c.node \in NodeId

Init ==
    /\ phase = "idle"
    /\ node = NoNode
    /\ iter = 0
    /\ last = NoNode
    /\ cancelled = FALSE
    /\ ckpt = NoCheckpoint
    /\ held = NoCheckpoint
    /\ result = "none"
    /\ executions = 0
    /\ crashes = 0
    /\ staleRuns = 0

-------------------------------------------------------------------------------
(* Entry points. *)

\* The driver enters run_from_node with the given node and state.
Enter(n, i, l) ==
    /\ phase' = "top"
    /\ node' = n
    /\ iter' = i
    /\ last' = l
    /\ cancelled' = FALSE
    /\ result' = "none"

\* GraphRunner::run for a loop id that has never been used: a later turn gets
\* another one.
Run ==
    /\ phase = "idle"
    /\ ckpt = NoCheckpoint
    /\ result = "none"
    /\ Enter(Start, 0, NoNode)
    /\ UNCHANGED <<ckpt, held, counters>>

\* GraphRunner::resume.  The checkpoint is passed by value, and only that copy's
\* status is looked at: resume_loop passes the one the repository holds, a caller
\* of the public API may pass one it read earlier.
Resume(c) ==
    /\ phase = "idle"
    /\ c.status = "Paused"
    /\ Enter(c.node, c.iter, c.last)
    /\ UNCHANGED <<ckpt, held, executions, crashes>>

\* Mutant of Recover: any checkpoint is accepted, whatever its status.
RecoverAnyStatus(c) ==
    /\ phase = "idle"
    /\ c.status # "Absent"
    /\ Enter(c.node, c.iter, c.last)
    /\ UNCHANGED <<ckpt, held, executions, crashes>>

\* GraphRunner::recover_running, by value like resume.
Recover(c) ==
    /\ phase = "idle"
    /\ c.status = "Running"
    /\ Enter(c.node, c.iter, c.last)
    /\ UNCHANGED <<ckpt, held, executions, crashes>>

ResumeFresh == Resume(ckpt) /\ UNCHANGED staleRuns
RecoverFresh == Recover(ckpt) /\ UNCHANGED staleRuns

\* One more loop picked up from the kept copy.
CountStale ==
    /\ staleRuns < MaxStale
    /\ staleRuns' = staleRuns + 1

ResumeStale == Resume(held) /\ CountStale
RecoverStale == Recover(held) /\ CountStale

\* The caller reads a checkpoint and keeps the copy (once: the copy may be any
\* of the checkpoints that can be resumed or recovered).
KeepCopy ==
    /\ staleRuns < MaxStale
    /\ held = NoCheckpoint
    /\ ckpt.status \in {"Running", "Paused"}
    /\ held' = ckpt
    /\ UNCHANGED <<driverVars, ckpt, result, counters>>

-------------------------------------------------------------------------------
(* One iteration of run_from_node. *)

\* The call returns r and the driver's state is dropped.
Return(r) ==
    /\ phase' = "idle"
    /\ node' = NoNode
    /\ iter' = 0
    /\ last' = NoNode
    /\ cancelled' = FALSE
    /\ result' = r
    /\ UNCHANGED <<held, counters>>

\* save_checkpoint with a final status, then return.
StopWith(s, r) ==
    /\ ckpt' = Checkpoint(s, iter, last)
    /\ Return(r)

\* save_cancelled_checkpoint, from either of the two checks before the node.
CancelBeforeNode ==
    /\ phase \in {"top", "saved"}
    /\ cancelled
    /\ StopWith("Cancelled", "Cancelled")

BudgetExhausted ==
    /\ phase = "top"
    /\ ~cancelled
    /\ iter >= MaxGraphSteps
    /\ StopWith("TimedOut", "TimedOut")

\* graph.node() fails before anything of this iteration is saved.
UnknownNode ==
    /\ phase = "top"
    /\ ~cancelled
    /\ iter < MaxGraphSteps
    /\ node \notin Registered
    /\ Return("Configuration")
    /\ UNCHANGED ckpt

\* Mutant of SaveRunning: the step budget is not consulted.
SaveRunningUnbounded ==
    /\ phase = "top"
    /\ ~cancelled
    /\ iter <= MaxGraphSteps
    /\ node \in Registered
    /\ phase' = "saved"
    /\ iter' = iter + 1
    /\ ckpt' = Checkpoint("Running", iter + 1, last)
    /\ UNCHANGED <<node, last, cancelled, held, result, counters>>

\* Mutant of SaveRunning: the checkpoint is written before the iteration is
\* counted.
SaveRunningUncounted ==
    /\ phase = "top"
    /\ ~cancelled
    /\ iter < MaxGraphSteps
    /\ node \in Registered
    /\ phase' = "saved"
    /\ iter' = iter + 1
    /\ ckpt' = Checkpoint("Running", iter, last)
    /\ UNCHANGED <<node, last, cancelled, held, result, counters>>

\* Mutant of SaveRunning: the iteration is never counted.
SaveRunningWithoutCount ==
    /\ phase = "top"
    /\ ~cancelled
    /\ iter < MaxGraphSteps
    /\ node \in Registered
    /\ phase' = "saved"
    /\ ckpt' = Checkpoint("Running", iter, last)
    /\ UNCHANGED <<node, iter, last, cancelled, held, result, counters>>

\* The iteration is counted and the Running checkpoint saved before the node.
SaveRunning ==
    /\ phase = "top"
    /\ ~cancelled
    /\ iter < MaxGraphSteps
    /\ node \in Registered
    /\ phase' = "saved"
    /\ iter' = iter + 1
    /\ ckpt' = Checkpoint("Running", iter + 1, last)
    /\ UNCHANGED <<node, last, cancelled, held, result, counters>>

\* What the budgets of the run, and of each pick-up from a kept copy, allow.
Budget == MaxGraphSteps * (1 + staleRuns)

\* node.run() is polled for the first time.  (The history counts up to one past
\* the budget.)
StartNode ==
    /\ phase = "saved"
    /\ ~cancelled
    /\ phase' = "running"
    /\ executions' = IF executions <= Budget THEN executions + 1 ELSE executions
    /\ UNCHANGED <<node, iter, last, cancelled, ckpt, held, result, crashes, staleRuns>>

\* A completed node is only acted on when it is a tool node or no
\* cancellation has arrived (the check after the select!).
Completed == phase = "running" /\ (node \in ToolNode \/ ~cancelled)

\* Mutant of NodeAdvances: last_completed_node is not recorded.
NodeAdvancesUnrecorded(b) ==
    /\ Completed
    /\ b \in Emits[node]
    /\ <<node, b>> \in DOMAIN Edge
    /\ phase' = "top"
    /\ node' = Edge[<<node, b>>]
    /\ UNCHANGED <<iter, last, cancelled, ckpt, held, result, counters>>

\* Continue / Branch(b) with an edge: last_completed_node is set and the loop
\* goes round.
NodeAdvances(b) ==
    /\ Completed
    /\ b \in Emits[node]
    /\ <<node, b>> \in DOMAIN Edge
    /\ phase' = "top"
    /\ last' = node
    /\ node' = Edge[<<node, b>>]
    /\ UNCHANGED <<iter, cancelled, ckpt, held, result, counters>>

\* resolve_next finds no edge: the call fails, the Running checkpoint stays.
MissingEdge(b) ==
    /\ Completed
    /\ b \in Emits[node]
    /\ <<node, b>> \notin DOMAIN Edge
    /\ Return("Configuration")
    /\ UNCHANGED ckpt

NodeFinishes ==
    /\ Completed
    /\ node \in Finishing
    /\ ckpt' = NoCheckpoint
    /\ Return("Finished")

\* The Paused checkpoint names the node that paused: resume runs it again.
NodePauses ==
    /\ Completed
    /\ node \in Pausing
    /\ ckpt' = Checkpoint("Paused", iter, node)
    /\ Return("Paused")

\* The node returned an error other than Cancelled.
NodeFails ==
    /\ phase = "running"
    /\ StopWith("Failed", "NodeError")

\* The timeout of the node's class; a tool node has none of its own.
NodeTimesOut ==
    /\ phase = "running"
    /\ node \notin ToolNode
    /\ StopWith("TimedOut", "TimedOut")

\* The token won the select!, was seen after the node had completed, or (tool
\* node) the node itself returned Cancelled.
NodeCancelled ==
    /\ phase = "running"
    /\ cancelled
    /\ StopWith("Cancelled", "Cancelled")

\* A save_checkpoint or clear_checkpoint call returns an error.
RepositoryFails ==
    /\ \/ phase = "top" /\ (cancelled \/ iter >= MaxGraphSteps \/ node \in Registered)
       \/ phase = "saved" /\ cancelled
       \/ phase = "running"
    /\ Return("Repository")
    /\ UNCHANGED ckpt

-------------------------------------------------------------------------------
(* The environment. *)

Cancel ==
    /\ phase # "idle"
    /\ ~cancelled
    /\ cancelled' = TRUE
    /\ UNCHANGED <<phase, node, iter, last, ckpt, held, result, counters>>

\* The process dies; only the repository survives.
Crash ==
    /\ phase # "idle"
    /\ crashes < MaxCrashes
    /\ phase' = "idle"
    /\ node' = NoNode
    /\ iter' = 0
    /\ last' = NoNode
    /\ cancelled' = FALSE
    /\ result' = "none"
    /\ crashes' = crashes + 1
    /\ UNCHANGED <<ckpt, held, executions, staleRuns>>

Entry == Run \/ ResumeFresh \/ RecoverFresh \/ ResumeStale \/ RecoverStale

NodeReturns ==
    \/ \E b \in Branch : NodeAdvances(b) \/ MissingEdge(b)
    \/ NodeFinishes
    \/ NodePauses
    \/ NodeFails
    \/ NodeTimesOut
    \/ NodeCancelled

Driver ==
    \/ CancelBeforeNode
    \/ BudgetExhausted
    \/ UnknownNode
    \/ SaveRunning
    \/ StartNode
    \/ NodeReturns

Next == Entry \/ Driver \/ RepositoryFails \/ KeepCopy \/ Cancel \/ Crash

Spec == Init /\ [][Next]_vars

\* The driver is a task the runtime keeps polling, every node but a tool node
\* is cut off by its timeout, and a tool node by the timeout of every call.
FairSpec == Spec /\ WF_vars(Driver)

-------------------------------------------------------------------------------
(* Properties. *)

\* The step budget bounds a loop, not a process: however often the loop is
\* paused, killed and picked up again, its nodes run at most MaxGraphSteps
\* times, because the iteration is counted and saved before the node runs.
\* Only a resume or a recovery that is handed a kept copy starts a budget of its
\* own.
StepBudget == executions <= Budget

\* n is where the loop may stand when l is its last completed node: the start
\* node, a successor of l, or l itself when l is a node that pauses.
OnPath(l, n) ==
    \/ l = NoNode /\ n = Start
    \/ l = n /\ l \in Pausing
    \/ \E b \in Branch : <<l, b>> \in DOMAIN Edge /\ Edge[<<l, b>>] = n

\* A checkpoint that can be resumed or recovered names a node the graph really
\* leads to from the last node that completed: no node is skipped, and none
\* that completed without pausing, before its successor was saved, is run again.
CheckpointOnGraphPath ==
    ckpt.status \in {"Running", "Paused"} => OnPath(ckpt.last, ckpt.node)

\* A loop stopped by a cancellation, a timeout or a failure is never picked up
\* again (README.md, "checkpoint と再開"): no call gets past its checkpoint,
\* except a resume or a recovery that is handed a copy from before the stop.
StoppedStaysStopped ==
    [][ckpt.status \in Stopped /\ phase = "idle" /\ staleRuns' = staleRuns
          => UNCHANGED <<ckpt, phase>>]_vars

\* Every call into the runner returns (or the process dies).
RunReturns == phase # "idle" ~> phase = "idle"
===============================================================================
