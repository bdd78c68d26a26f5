# Verification of takos-agent-engine

TLA+ models of the engine's control logic, TLC configurations that check them on
small instances, and TLAPS proofs for every value of the constants. All paths are
relative to the repository root; line numbers are those of `PROJECT.json`, which
maps every definition that models code to the lines it stands for.

## 1. Inventory of the system

The crate is a library: a host process embeds it, owns the loop ids and the
repositories, and calls `run_turn`, `resume_loop`, `recover_interrupted_loop` and
`run_maintenance_pass`.

| Component | State it keeps | Operations | Talks to |
|---|---|---|---|
| Graph runner (`engine/execution_graph.rs`) | the driver's current node, iteration, last completed node, cancellation token; one checkpoint per loop in the repository | `run`, `resume`, `recover_running`, `run_from_node` | nodes (calls), `LoopStateRepository` |
| Turn (`engine/session_engine.rs`, `nodes.rs`, `graph_spec.rs`) | `ExecutionState`: tool rounds, pending tool calls, assistant message, ids read and written | the two shipped graphs, one node each; recovery guards | model, tools, node repository, runner |
| Distillation and maintenance (`nodes.rs`, `session_engine.rs`, `memory/distillation.rs`) | `DistillationClaim` per loop; per-worker input, output and progress | the last node of a turn and `run_maintenance_pass`, both through `distill_claimed_raw_nodes` | node repository, distiller |
| Tool executors (`tools/executor.rs`) | none | `execution_kind`, `recovery_is_idempotent`, `execute` | the outside world |
| Repositories (`storage/traits.rs`, `in_memory.rs`) | nodes by id and operation key, lifecycle, claims, checkpoints | insert-once, lifecycle patches, claim and release, checkpoint save and clear | - |
| Object store (`storage/object_store/*`) | the same, as files; a write-ahead journal, indexes, metadata | commit, replay, index sync and rebuild, embedding shards | the file system |
| Vector and graph repositories | embeddings, edges | bounded search and traversal | - |
| Session overflow (`LoadSessionViewNode`, `AssembleContextNode`, `MarkSessionOverflowNode`) | the turn's copy of the session, its window; overflow marks and deadlines on raw nodes | load, assemble, mark, clear | node repository |
| Activation and scoring (`memory/activation.rs`, `scoring.rs`) | none | candidates, thresholds, scores, budget | vector index |
| Memory tools (`tools/memory_tools.rs`, `prepare_tool_call_for_config`) | none | four queries, clamped and bound to the session | node, vector and graph repositories |
| Context assembly and history trimming (`context_assembler.rs`, `nodes.rs`) | the tokens of the turn's transcript | token budgets, group-wise trimming, bounds of a tool round | - |
| Configuration (`config.rs`) | none | `validate`, activation budgets, `remaining_tokens` | - |
| Model and embedding clients, ids, errors, domain types | none over time | HTTP, data | - |

What is hard, and the property that answers it:

- **The step budget has to survive the process.** A graph may have a cycle. The
  iteration is counted and saved *before* the node runs, so that a loop that is
  paused, killed and picked up again still ends (`StepBudget`, `RunReturns`), and its
  checkpoint must name a node the graph really leads to (`CheckpointOnGraphPath`).
- **`Running` is ambiguous.** The checkpoint written before a node cannot tell
  whether the node acted. Recovery refuses the model nodes and tools that are not
  fenced (`ModelRequestNotResent`, `ReplayIsFenced`), and relies on the replay input
  being untouched until every result is handled (`ReplayInputIntact`).
- **Tool phases.** Read-only calls overlap, side-effecting ones are barriers, cached
  results drop out after a recovery and move the borders, the token is looked at first
  (`SideEffectsRunAlone`, `TurnReturns`, `PersistedResultNotAskedAgain`).
- **What a finished turn has stored.** The answer and the results are stored in steps
  separate from the completion of the node (`FinishedTurnIsRecorded`).
- **Stopping is final.** `resume` and `recover_running` lead into the same loop; a
  stopped loop must not get back in from its own checkpoint (`StoppedStaysStopped`).
- **A lease is not a lock.** The distillation claim is read in one repository call and
  relied on in the next (`AtMostOneLateWrite`, `LiveClaimKept`; `LostLeaseCannotCommit`
  fails), a dead worker leaves its claim (`BacklogDrained`), and
  raw nodes leave the backlog for good (`KnowledgeBeforeDistilled`).
- **A mutation is many files.** A commit writes up to nine, a lifecycle update six per node,
  and the process may die between any two, also while it replays or rebuilds
  (`Atomic`, `IndexesExact`). A commit that is dropped without a crash leaves a body that its
  retry must not trip over (`PersistedIsFound`, `FirstWriterWins`), and a lifecycle update that is
  dropped is not always made good (`BacklogListsPushedOut`, which fails).
- **A turn works on a copy of its session.** What falls out of the token window is marked at the
  end of the turn, from a copy loaded at its beginning, while other turns do the same or one is
  replayed hours later: a stale copy may not mark what the session of today would still show
  (`OnlyPushedOutIsMarked`), a deadline may not start again with every turn
  (`LaterTurnKeepsDeadline`), its help must end with it
  (`HelpExpires`, which fails without time decay), and the backlog has to be worked off
  (`MarkedIsDrained`). That nothing is overlooked (`NeverOverlooked`) does not hold.
- **Two backends, one contract.** The tests run in memory, production on files that are read
  through capped, sorted indexes and day shards. Equal or late timestamps, full indexes, repairs
  and rebuilds must not make a difference (`TimelineAgrees`, `ReadsAgree`, `SearchAgrees`,
  `RebuildChangesNothing`).
- **The model writes the arguments of the memory tools.** Whatever it asks for, and whatever the
  stored links lead to, an answer stays in the session (`SessionIsolation`) and within its bounds,
  and an id it lets slip of another session opens nothing;
  a stored node keeps a readable provenance (`ProvenanceReadable`), and a traversal cut short by
  its limits is still one (`TraversalCorrect`).
- **Token budgets are split, reserved and rounded.** The parts must stay within the whole, or
  exceed it by a known amount (`PromptFits`), a history is cut so that calls and results stay together (`HistoryCoherent`),
  and no check may fail once tools have run (`NothingLostAfterRun`).

`PROJECT.json` lists every component and, under `hazards`, each of these points at its
line, together with those no property covers yet.

## 2. Modules

| Module | Extended by | Uses |
|---|---|---|
| `GraphRunner` | `MC_GraphRunner`, `GraphRunnerProofs` | |
| `TurnLoop` | `MC_TurnLoop`, `TurnLoopProofs` | `R == INSTANCE GraphRunner` (the proofs: `RP == INSTANCE GraphRunnerProofs`) |
| `Distillation` | `MC_Distillation`, `DistillationProofs` | |
| `SessionMemory` | `MC_SessionMemory`, `SessionMemoryProofs` | |
| `ObjectStore` | `MC_ObjectStore`, `ObjectStoreProofs` | `A == INSTANCE AtomicStore WITH ...` |
| `NodeReads` | `MemoryTools` | |
| `MemoryTools` | `MC_ReadPath`, `MemoryToolsProofs` | |
| `Transcript` | `MC_ReadPath`, `TranscriptProofs` | |
| `DataLemmas` (sums, sequences, least counterexamples; models nothing) | the last three proof modules | |

They meet in the code as follows: `TurnLoop` has the nodes of one turn in
the order of its graph; `SessionMemory` has many turns of one session, each reduced to what its
nodes do to the session's memory; `Distillation` has the claim that `SessionMemory` takes as one
step; `ObjectStore` has the writes of the repository file by file and `NodeReads` its reads, with
writes in one step.

### GraphRunner

The driver, for an arbitrary graph: `NodeId`, `Edge`, `Emits`, `Finishing`, `Pausing`
and `ToolNode` are constants, constrained only by what the public API enforces
(`GraphAssumption`), so an edge may lead to an unregistered node and a label may have
no edge. The life of one loop id is modelled.

| Variable | Code |
|---|---|
| `phase` | position in `run_from_node`: `top` (head of the loop), `saved` (the `Running` checkpoint is written), `running` (`node.run` is being polled) |
| `node`, `iter`, `last` | `current_node`, `ExecutionState.iteration`, `.last_completed_node` |
| `cancelled` | the `CancellationToken` of the call |
| `ckpt` | the repository's checkpoint (`NoCheckpoint`: none) |
| `held` | a `LoopState` the caller read earlier and kept, `Running` or `Paused` |
| `result` | what the last call returned |
| `executions`, `crashes`, `staleRuns` | history |

`Run`, `ResumeFresh`, `ResumeStale`, `RecoverFresh` and `RecoverStale` are the entry points;
`CancelBeforeNode`, `BudgetExhausted`, `UnknownNode`, `SaveRunning`, `StartNode` and the
actions of `NodeReturns` are the exits and steps of one iteration, in the order of the
code; `RepositoryFails` is any `?` on a checkpoint call; `Cancel` and `Crash` are the
environment. `GraphRunner::resume` and `recover_running` take their checkpoint by value and never
read the repository: `ResumeStale` and `RecoverStale` are those calls with an older copy, of a
loop that may have gone on or stopped since, and `staleRuns` counts them. `resume_loop` reads the repository
itself (`ResumeFresh`), and so does a host that recovers what it has just read (`RecoverFresh`).

### TurnLoop

One turn, on the graph of either profile. It instantiates `GraphRunner` with the shipped
graphs; every action that moves the driver *is* the `GraphRunner` action of that name,
conjoined with what the node does to its `ExecutionState` (`turn`, saved as `saved` by
every checkpoint), to the raw nodes (`raw`) and to the outside world (`requests`: model
requests sent; `sent`: how often each operation key was handed to an executor). Each
step of `TurnLoop` is a step or a stutter of `R!Next`, so the theorems about
`GraphRunner` speak of its turns too.

`effect` separates a node's external call from its completion, so that a crash, a
timeout or a cancellation can fall between. `execute_tools` is modelled call by call:
`Prepare` (with the look-up of persisted results), `Dispatch`, `CallDone`,
`OutcomeUnknown`, `CallCancelled`, `PersistResult` and the three ways the node returns.
`MayStart` and `SamePhase` are the phase loop without its loop: a call may start when all
calls of earlier phases are done. `RecoverySafe` is the pair of guards in
`recover_interrupted_loop_with_options`.

`RP == INSTANCE GraphRunnerProofs` in `TurnLoopProofs` carries the runner's theorems over.

Data are reduced to what the properties tell apart: a model reply is its number, a tool
call is its name, a memory-building node is walked through. `commit_raw` is atomic here.

### Distillation

`distill_claimed_raw_nodes` for one loop, run by the turn's last node (`ReadLoop`) and by
maintenance workers (`ReadBacklog`). Every repository call is one step: the input is read,
then the claim is taken or refused, then the distiller answers, then the fence is looked at
before the commit and again before each write. `Expire` is the passing of `expires_at`,
`Drop` a worker whose future is dropped or whose process dies, `WorkFails` every error that
still reaches the release. `late` counts the writes a worker made while its claim was no
longer current.

### ObjectStore and AtomicStore

The file backend, one file write per step: `write_json` stages, syncs and renames, so a file is
there whole or not at all. The lock (process mutex and advisory file lock) lets one operation run
at a time; `pc`, `op` and `at` say which and how far, `live` whether any process has the store
open.

| Variable | Files |
|---|---|
| `body` | `raw/<id>.json`, `abstract/<id>.json`, reduced to the lifecycle state |
| `receipt` | `receipts/*/<digest>.json`: which node holds an operation key |
| `index` | the session, loop, undistilled, pushed-out and timeline files and the embedding manifests, as the ids they list |
| `derived` | `embeddings/*/<id>.json`, `graph/<id>.json` |
| `version`, `journal` | `indexes/.index-version`, `journal/current.json` |

`Parts` is the order of files of each mutation, `Rebuild` that of a rebuild. `Commit` and
`UpdateLifecycle` write the journal, `WriteNext` one file after the other, `Done` removes the
journal. `Found` is a commit whose key is taken; the engine then repairs the projections in calls
of their own (`repair`, `Reindex`, `Repaired`). `Open` replays a journal (`Replayed`), then
`Complete` decides between `Trust` and `Distrust`, which clears and rebuilds. A retry has a new id
and a later timestamp under the old key. `Crash` is the death of every process that has the store
open; `GiveUp` a dropped future, an I/O error, or the death of one process of several: the lock is
free again, the journal stays, and nobody replays it before the next open.

`AtomicStore` is what README.md and architecture.md 7 promise: commits (first writer wins) and
lifecycle updates of several nodes, each in one step. `ObjectStore` implements it under the
mapping that reads the journal as already applied: a mutation happens when its journal is
written, and every file written afterwards, every crash, replay and rebuild is a stutter.

### SessionMemory

One session over many turns. A turn is reduced to its copy of the session and what it does with
it; `Replay` is a recovery after a crash behind `MarkSessionOverflowNode`, `Abandon` every other
end.

| Variable | Code |
|---|---|
| `now` | the clock, in ticks of a day |
| `facts` | the session's raw nodes in the order of their timestamps |
| `distilled`, `deadline` | `DistillationState`; `overflow.relax_retrieval_until`, 0 for a node that is not marked as pushed out |
| `turn[l].phase`, `rounds` | the position in the memory-aware graph |
| `turn[l].ids`, `seenDistilled`, `seenMarked` | `recent_session`: which nodes, and how they were when they were loaded (`started`) |
| `turn[l].window`, `out` | `ContextAssembly`: `recent_session_ids`, `pushed_out_ids` |
| `turn[l].activated` | what `ActivationService::activate` returned |

`LoadSessionView`, `ActivateMemory`, `Assemble`, `ToolRound`, `Answer`, `ClearMarks`, `SetMarks`
and `DistillCurrentLoop` are the nodes in their order (the two repository calls of
`MarkSessionOverflowNode` are two steps); `Maintain` is `run_maintenance_pass`. `Activation` is
the search, the thresholds, the scores and the budget for raw nodes, in integers.

### NodeReads

The contract of `NodeRepository` and `VectorIndex` for raw nodes, in both implementations at
once: every action makes the same call to `mem` and to `obj`, and the properties compare what
they answer.

| Variable | Code |
|---|---|
| `mem` | `InMemoryNodeRepository` and `InMemoryVectorIndex`: bodies in a map, ids in insertion order |
| `obj` | `ObjectNodeRepository` and `ObjectVectorIndex`: bodies, the session, loop, timeline and manifest files (as sets: every file is written sorted), what they dropped at their caps |
| `touches` | bound |

Timestamps may be equal and arrive out of order, because they are read before the insertion; ids
are random. Orders are stated by rank (`ByRank`: the element that has k others before it is
the k-th), so that a sort is a definition and not an algorithm. Actions are inserts with and without an operation key (a key that is taken returns
its node), lifecycle updates, the repair of an embedding and a rebuild.

### MemoryTools

`know` holds the abstract nodes (references, links, relations) over the raw nodes of `NodeReads`,
`imported` those that were committed by another caller than the engine, which alone checks the
references to raw and abstract nodes. `Traverse` is the queue of the graph repository, one `Visit`
per turn of its loop; `Execute` are the four tools; `Prepare` clamps the arguments and overwrites
the session. An answer (`Shown`) has the nodes and what is left in them: links are always taken
out, provenance is taken out or cut to the sources shown, and the objects of relations stay.

### Transcript

What the model is sent, in estimated tokens: `cfg` and `profile` of the turn, the host's
`history` and its trimming, `session`, `memory` and `summaries` and their assembly, and `used`,
the tokens of the transcript that grows by one bounded group per tool round. `StartTurn` trims
the history, in either profile, or refuses the turn; `RequestTokens` is what `to_model_input` sends. `phase` says how far
the turn is; `"unreportable"` stands for a check that fails after the tools of a round have run.
`ToolRound` has every bound between `ToolExecutionNode`'s first look at the calls and the
transcript it appends.

### MC_ReadPath

The instance for the last three. They share no state over time (`MemoryTools` reads the nodes of
`NodeReads`, which do not change meanwhile), so `surface` picks one of them at `Init` and the
other two keep still; the run is the union of three.

## 3. Runs

| Run | Configuration | What it shows |
|---|---|---|
| `graph` | `MC_GraphRunner.cfg` | five nodes with a cycle, a pause, a label without an edge and an unregistered target; 6 steps, 2 crashes, 1 resume or recovery from a kept copy: types, `CheckpointOnGraphPath`, `StepBudget`, `StoppedStaysStopped`, `RunReturns` |
| `turn_memory` | `MC_TurnLoop.cfg` | memory-aware graph, one tool round with an unfenced side effect before two parallel reads, or a read before a fenced one, 1 crash: the turn's six safety properties and `TurnReturns` |
| `turn_external` | `MC_TurnLoop_external.cfg` | external-context graph (nothing is persisted), two tool rounds, 3 crashes |
| `turn_kept_copy` | `MC_TurnLoop_kept.cfg` | a second walk over the loop from a kept copy: `PersistedResultNotAskedAgain` |
| `distillation` | `MC_Distillation.cfg` | a turn and two maintenance workers, 2 raw nodes, 2 abstract nodes per input, 2 faults: types, `AtMostOneLateWrite`, `KnowledgeBeforeDistilled`, `LiveClaimKept`, `BacklogDrained` |
| `distill_fence` | `MC_Distillation_fence.cfg` | **violated** `LostLeaseCannotCommit` |
| `store` | `MC_ObjectStore.cfg` | two raw nodes under one operation key (a commit and its retry), one raw node of its own, an abstract node; any number of crashes and opens, one operation given up: types, `Atomic`, `IndexesExact`, `PersistedIsFound`, `FirstWriterWins` |
| `store_dropped` | `MC_ObjectStore_dropped.cfg` | **violated** `BacklogListsPushedOut` |
| `session` | `MC_SessionMemory.cfg` | two overlapping turns, one with almost no window, failing, abandoned or replayed, against the clock and maintenance: `OnlyPushedOutIsMarked`, `LaterTurnKeepsDeadline`, `HelpExpires`, `MarkedIsDrained` |
| `session_overlooked` | `MC_SessionMemory_overlooked.cfg` | **violated** `NeverOverlooked` |
| `session_bonus` | `MC_SessionMemory_bonus.cfg` | **violated** `HelpExpires`, with time decay switched off |
| `read_path` | `MC_ReadPath.cfg` | both backends at the caps of their index files: `TimelineAgrees`, `ReadsAgree`, `SearchAgrees`, `RebuildChangesNothing`; every memory tool with every argument over stored and imported nodes: `SessionIsolation`, `ProvenanceReadable`, `TraversalCorrect`; the budgets over every history, configuration and sequence of rounds: `HistoryCoherent`, `PromptFits`, `NothingLostAfterRun` |

Every property of a passing run has a mutant in `PROJECT.json`: a plausible bug in one
mapped definition (`...Uncounted`, `...Early`, `ReleaseAny`, ...) under which TLC finds it
violated.

**Bounds.** `MaxGraphSteps` is 6 for the five-node graph, enough to go round the cycle, pause
and still run out. The longest paths of the shipped graphs with the given number of tool rounds
are 14 and 7 nodes; the bounds 16 and 13 leave room for the iteration each recovery repeats, so that
a turn that crashed in its tools can still finish. One crash
suffices for the memory-aware turn, because a recovery that crashes again is in the same
situation as after the first crash, with at least as many results persisted; the external
graph, which persists none, gets three. `MaxStale` and the single `KeepCopy` bound
resumes and recoveries from a kept copy: the copy may be any checkpoint of the loop that can be
resumed or recovered. Two raw
nodes and two abstract nodes are the least for which an input can be half written on both
sides. `MaxFaults` is 2: one fault per side of a race; with `Batch = 1` passes and turn read
different inputs. Three raw nodes are the least for a commit, its retry under the same key, and
another mutation that overwrites the journal of the first; crashes and opens are unbounded.
`MaxGivenUp` is 1: with two, `PersistedIsFound` no longer holds (section 6). One caller repairs at
a time, and a lifecycle update covers one or two nodes.

`session` has two turns: one (`l1`, 4 tokens) sees nearly everything, the other (`l2`, 1 token)
little more than its own message, so that what one marks the other finds in its window; one tool
round in `l2` makes its own results come and go; `MaxSession` 4 is one less than the nodes there can
be, 3 in `session_overlooked`. The clock goes to 2 with a deadline of 1 tick, enough for a mark
to be written, to expire and to be written again. `SearchWindow` 4 and `RawBudget` 2 make nodes compete.
`session_bonus` differs in `TimeDecay = FALSE` and in similarities where only the bonus decides.

`read_path` keeps the caps of the code's 4096, 4097 and 4096 at 2, 3 and 2 entries (`SessionCap`,
`LoopCap`, `ShardCap`), with 3 raw nodes, 2 sessions with a loop each, 3 timestamps on 2 days and
one update, repair or rebuild (`MaxTouches`). The third node is one over the caps of session and
shard; a loop's file is full with it and never over its cap, which the code keeps one above what
may be asked for, so that a loop too large shows. The proof (`ReadsInvariant`) covers every cap. The
operation key is node 1's, which others retry (`KeyOfFirst`). The tools have 3 abstract nodes, whose
links make chains, cycles and duplicates and whose relations name nodes of either session, and
bounds of 2, with arguments below and above them. The transcript has a history of 4 messages of six
kinds (whole, partial, repeated and unidentified tool groups), two rounds of up to three calls, and
seven configurations: no room at all, thirds, small and large reserves, a prompt beyond its
reserve, an invalid one. With local memory the history has 2 messages at most (`BriefWithMemory`):
it is trimmed by the same operator, and a short one is enough to exceed the window.

**SYMMETRY.** `read_path` exchanges a session together with its loop for the other one
(`Exchange`); nothing else in its configuration mentions either.

**VIEW.** `turn_external` and `turn_kept_copy` use the view `WithoutExecutions`. It leaves out
only `executions`, a history variable whose value neither influences another variable nor
occurs in the properties of those runs; they check no liveness property.

**Deadlock** is checked in `store`; elsewhere it is not: a loop that has finished or stopped, with
nothing left to recover, a session whose turns have ended and a read path whose bounds are used up
really are at rest. The liveness properties say that nothing stops earlier.

**Fairness.** `GraphRunner.FairSpec` asks for weak fairness of `Driver`: the runtime polls the
task, every node but the tool node runs under `tokio::time::timeout`, and the tool node under
the timeout of each call. Neither failing saves nor cancellations nor crashes are fair.
`TurnLoop.FairSpec` does the same for `Progress`. `Distillation.FairSpec` asks for weak fairness
of each worker (for a maintenance worker including its next pass: the host calls
`run_maintenance_pass` periodically) and of the expiry of a claim nobody holds any more, which is
the clock. That a *live* maintenance worker outlives its lease is a fault, bounded by
`MaxFaults`; a turn cannot, because its node is cut off after `distillation_timeout` and the
lease lasts twice that and five seconds. `SessionSpec` asks for weak fairness of `Maintain` only: the
host schedules passes again and again, and the distiller accepts every batch in the end; nothing
forces a turn to end or the clock to move.

## 4. Where code and documents disagree

1. `distill_fence`: a worker whose lease expires between the look at the fence and the write
   still commits that one write (`AtMostOneLateWrite` is what holds); README.md and
   architecture.md say it cannot.
2. `store_dropped`: a lifecycle update whose future is dropped after the body was written leaves its
   journal, the next mutation overwrites it, and every later open trusts the indexes because the
   timeline lists the node: a node marked as pushed out never reaches the backlog of pushed-out
   nodes. store.rs says that a node the timeline lists can never be missing there.
3. `session_bonus`: with `use_time_decay = false` the score is taken at the node's own timestamp,
   which is before every deadline: the overflow bonus never expires, although scoring.rs says it
   expires with the deadline.
4. `session_overlooked`: a raw node of a turn that failed before its distillation, and that no turn
   has marked, is not looked at again once it has fallen behind the last `max_session_nodes`;
   README.md says what does not fit becomes subject to marking and is worked off by maintenance.

More, by reading, without a run of their own:

- An edge to an unregistered node, or a label without an edge, ends a loop and leaves its
  checkpoint in `Running` (execution_graph.rs:730), although architecture.md:307-315 says the
  status tells why a loop stopped.
- Recovery from a checkpoint copy taken before the model node sends the model request of the round
  again (session_engine.rs:205), although README.md:371-372 says it is never sent again: the
  checkpoint is the caller's.
- A pass and the turn, one after the other, make knowledge of the same raw node twice
  (nodes.rs:1066), because the input is read before the claim and operation keys depend on the exact input;
  architecture.md:210-211 says that a
  turn and maintenance do not process the same loop twice.
- nodes.rs:972-975 stamps the relaxation deadline "ONCE, only on newly pushed-out nodes (those
  without an existing deadline)". The check reads `recent_session`, loaded when the turn began. Turns A
  and B both load a node that is not marked; A pushes it out and marks it; an hour later B,
  which pushes it out too, marks it again, and the 24 hours start anew. A turn that dies behind its
  mark and is recovered from the checkpoint before it does the same with its own mark, each
  time it is recovered. By the same view `ClearMarks` may take away a mark another turn has written
  meanwhile. `LaterTurnKeepsDeadline` is what holds: a turn that loaded its view after the stamp leaves it,
  so the deadline is not pushed on turn by turn.
- memory_tools.rs:477-480 says that a search result is "not a capability to dereference arbitrary
  identifiers embedded in a legacy/corrupt node". `without_provenance_links` and `provenance_lookup`
  leave `relation.object`, which may be an abstract node's id and is an edge of the graph;
  `persist_abstract_node` (nodes.rs:1513-1550) does not check it either. What holds is that such
  an id of another session opens nothing (`SessionIsolation`).
- `run_turn_with_options` (session_engine.rs:135-147) trims the host's history, and `ModelNode`
  (nodes.rs:316-324) sends it, in both profiles: to the remaining budget, which session and memory
  fill in the memory-aware one. A memory-aware turn with a history, or with a prompt beyond its
  reserve, can exceed `total_tokens` by up to that remainder, no more (`PromptFits`). It is also
  refused with "external context fixed prompt exceeds the configured context budget"
  (nodes.rs:1238-1242), without any external context, when its prompt needs more than the remainder.
- config.rs:498-499 says that calls beyond `max_tool_calls_per_round` "are dropped for the round". The
  code refuses the round with an error (nodes.rs:326-332 and 396-401), as README.md:471-474 says.

`GraphRunner::resume` and `recover_running` compare the copy they are handed with nothing. A `Paused`
or `Running` copy kept from before the loop was cancelled, timed out or failed gets past that
checkpoint, with the steps the copy still had. README.md:364-366 speaks of `resume_loop`, which reads
the repository itself and does refuse a loop that is not paused.

## 5. Proofs

`GraphRunnerProofs` proves, for every graph and all bounds allowed by `GraphAssumption` and
`BoundsAssumption`:

- `TypeCorrect` (`Spec => []TypeOK`), with one case per action. `TypeOK` is inductive.
- `StepBudgetHolds`. `StepBudget` is not inductive: it says nothing of how many iterations the
  checkpoint or the driver still have. `BudgetInv` adds that executions are covered by the
  saved iteration (a crash falls back to it), by the driver's own, and strictly so between the
  save and the start of the node, plus one budget for each resume or recovery from a kept
  copy (`Granted`).
- `CheckpointOnGraphPathHolds`, from `PathInv`: the driver, the repository and the kept copy all
  stand on the graph.
- `StoppedStaysStoppedHolds`, an action property, from `TypeOK`.

`DistillationProofs` proves, for any number of turns, maintenance workers, raw nodes, abstract
nodes per input and faults (`WorkerAssumption`, `DataAssumption`):

- `TypeCorrect`. `TypeOK` needs one more fact to be inductive, `Fresh`: a worker without a claim
  has written nothing.
- `AtMostOneLateWriteHolds`, from `LateInv`: before each write a worker has made none late, and
  one that has made a late write has lost its lease for good, because a worker never claims again
  before it has left.
- `KnowledgeBeforeDistilledHolds`, from `KnowledgeInv`: what a worker counts as made is stored.
- `LiveClaimKeptHolds`, an action property, from `TypeOK`.

`TurnLoopProofs`, for every profile, tool set, list of calls and number of rounds
(`ProfileAssumption`, `ToolAssumption`, `TurnBoundsAssumption`):

- `TurnImplementsRunner`, `Spec => RP!Spec`: with the state of the nodes hidden, a turn is a run of
  the graph runner on its profile's graph. `TurnKeepsRunnerProperties` states what follows:
  `StepBudget`, `CheckpointOnGraphPath` and `StoppedStaysStopped` of a turn.
- `TypeCorrect`. The lemma `Shapes` reduces every step to one of twelve shapes (what it does to
  the driver, the checkpoint and the calls); each invariant is then proved shape by shape.
- `SideEffectsRunAloneHolds`, from `BarrierInv`: a call has only begun when the calls of all earlier
  phases are done, and results are persisted when none is in flight or still to be started.
- `ModelRequestNotResentHolds`, from `CheckpointInv` (while a node runs the checkpoint is the state
  it started from) and `AskedInv` (which rounds' requests are sent, at each node, for the driver
  and for the checkpoint).
- `ReplayIsFencedHolds` and `ReplayInputIntactHolds`, from `SentInv`: calls of the round under way
  have only been sent if they are the pending ones of the state, and one that must not be repeated
  is no longer to be started.
- `PersistedResultNotAskedAgainHolds`, from `PersistedInv`: during a round exactly the calls found or
  stored have a persisted result.
- `FinishedTurnIsRecordedHolds`, from `RecordInv`: what is persisted at each node of the graph.

`ModelRequestNotResentHolds`, `ReplayIsFencedHolds`, `ReplayInputIntactHolds` and
`FinishedTurnIsRecordedHolds` assume `MaxStale = 0`: a recovery from a kept copy walks the loop again
and does send its request again (section 4).

`ObjectStoreProofs`, for every number of nodes, every assignment of operation keys and every
bound (`StoreAssumption`):

- `TypeCorrect`. The order of the files of every operation is settled first (`Places`: a body is
  written before everything else of its node, and nothing due is left out). `TypeInv` and
  `ProgressInv` are inductive together: what the operation has written so far is right, and no
  later write of it undoes that (`WriteProgress`), since a mutation applied twice is applied once.
- `AtomicHolds`, `Spec => Atomic`, the refinement, through any number of crashes. `StableInv`
  is what holds until an operation is given up: who the journal speaks of, and that a body without its receipt is the
  journal's. A step that writes a journal is a commit or an update of the atomic store, giving up
  is its `GiveUp`, and every other step leaves `Contents` and `Holders` as they are.
- `IndexesExactHolds`, from `IndexInv`: while the version marker stands, the indexes are right for
  every node but those of the journal, and a store is open only with the marker; and from
  `RebuildInv`: every index a rebuild has written so far is right. The test an open makes therefore
  never fails on a marked store (`ExactIsComplete`).

`SessionMemoryProofs`, for any number of turns, budgets and rounds (`SessionAssumption`):

- `SessionTypes` and `SessionInvariant`. `SessionInv` adds `MarksSeen` to the types: a view knows
  every mark that was written before it was loaded.
- `LaterTurnKeepsMark`, the action property `LaterTurnKeepsDeadline`, from `MarksSeen`.
- `MarksOnlyPushedOut`, the action property `OnlyPushedOutIsMarked`, from `OverflowInv`: what a turn has decided
  to push out is pushed out of its view, and stays so until the marks are written (`StaysOut`),
  because what other turns add is newer than the nodes of the view, and more tokens in
  front of a node only push it further out (`MoreIsOut`). The sums of tokens this compares are those of
  `DataLemmas` (`SumMonotone`).
- `HelpEndsWithDeadline`, the action property `HelpExpires` when `TimeDecay` is on.

`TranscriptProofs`, for every estimate, configuration, history, memory, outcome and number of
rounds (`TranscriptAssumption`: sizes are natural numbers, an empty object is not larger than a
truncated one, the smallest preview not smaller than the marker it contains):

- `TranscriptInvariant`: the turn's own messages stay within the reserve for tools and the trimmed
  history within what the reserves leave (`InBudget`). A round grows by at most what it reserved
  before its tools ran (`RoundCompletes`), because every bounded text takes what it
  exceeds its base by from one purse (`SharesAddUp`).
- `NothingIsLostAfterRun` and `PromptAlwaysFits` follow from it. With local memory the latter bounds
  the excess: the history and what prompt and message need beyond their reserves, together at
  most what the reserves leave.
- `TrimmedHistoryIsCoherent`: grouping is local (`GroupIsLocal`, `LastGroup`), so that a history
  made of groups is grouped into the same groups (`GroupsOfFlatten`); what is kept is a tail
  of groups (`KeptGroups`), hence well formed, and trimming it again keeps all of it.

`MemoryToolsProofs`, for any number of raw and abstract nodes, sessions, loops, days, keys, caps and
bounds (`ReadsAssumption`, `ToolsAssumption`):

- `ReadsInvariant`: `ReadsInv` ties every index file to the bodies: a session file is the newest
  `SessionCap` of its session, a loop file the newest `LoopCap` of its loop, the lists of
  undistilled and marked nodes and the days are exact, a shard is the cap's worth of embeddings,
  and the bodies and keys of both backends are the same. The step that matters is that the newest of a
  bounded list and one more are the newest of all.
- `RebuildsAgree`, `SearchesAgree`, `TimelinesAgree` and `ReadsOfBothAgree` follow from `ReadsInv`. The
  timeline needs that days partition time in order, so that a scan that stops at a day has what is newer;
  the others that a sequence sorted by rank is determined by its set up to equal timestamps: where
  nodes of one timestamp straddle a limit, `ReadsAgree` compares the timestamps read and not the
  nodes, because each backend cuts between them in its own order.
- `ToolsInvariant` (`ToolsInv`: the session of an abstract node, and the sources of one the engine
  checked) and `ToolsStayInSession`, one lemma per tool (`SearchIsolated` and its like), and
  `ForeignRefused` for the objects of relations. Nothing is assumed of links, relations or imported
  nodes.
- `StoredSourcesStayReadable`, which assumes that the lookup is enabled: the host may leave the tool out,
  and then every lookup is an error.
- `TraversalsAreCorrect`. `WalkOk` is what each turn of the loop keeps (hits distinct, in scope,
  each an edge from an earlier one). With room for every edge, a turn is taken for
  everything ever queued (`Counted`), so the queue is empty at the end; `Spread` is the argument for
  breadth-first search: the queue is sorted by depth and spans two depths at most, hits are at their distance from the
  start, and edges of hits lead to nodes visited or queued.

**Induction over data.** The induction theorems of the library take an operator as a parameter, which the
provers here cannot instantiate, so no proof uses them. Where a proof needs induction it takes the
least counterexample of a set: `LeastNat`, `SmallestSubset`, `SeqInduction`. A recursive function or a fold is
reduced to the one function that satisfies its equations, whose existence and uniqueness are
proved that way (`IterateExists`, `SumExists`, `JoinsExists`). No module with a theorem has a RECURSIVE
operator.

Only model-checked: the liveness properties (`RunReturns`, `TurnReturns`, `BacklogDrained`,
`MarkedIsDrained`), which need fairness and `ENABLED`; `PersistedIsFound` and `FirstWriterWins`, which
hold up to one operation given up and no further (section 6).

## 6. Assumptions and what is left out

- At most one driver runs a loop at a time. Nothing in the code fences two recoveries of one
  loop, nor a recovery of a loop that still runs; the host owns that.
- A caller keeps one copy of a loop's checkpoint, taken at any time (`KeepCopy`), and hands it over up
  to `MaxStale` times.
- `run_turn` is called with a fresh loop id. A second turn under a used id is not modelled yet.
- The distiller marks every raw node of its input, as the shipped one does.
- An overflow mark is not taken back in `Distillation`; `SessionMemory` does so, with a
  distillation in one step. That a distilled node's overflow is reset is the distiller's doing
  (README.md:346, `test_support.rs`), not the engine's.
- `MarkedIsDrained` assumes that the distiller accepts every batch in the end. `run_maintenance_pass` ends
  with the first loop that fails (session_engine.rs:292), so an input it always rejects would hold
  back everything newer; an error of one loop in a pass over several is not modelled.
- `overflow_raw_threshold_relaxation` is on. Abstract nodes have no overflow mark and pass the same
  activation with a budget of their own; they are not modelled there.
- `ObjectStore` does not model quarantine of
  corrupt files (the disk keeps what was synced), reclaiming of staging files, `store.json`,
  checkpoint files, legacy formats, symlink checks, or a
  blocking file operation that lands after its future was dropped. Its raw nodes
  share one session, one loop and one day, and stay below the caps of the index files, which are in
  `NodeReads`.
- With two operations given up, an acknowledged node can be lost to an index until the next
  rebuild: a commit given up makes an open rebuild, the rebuild is given up while it removes the
  indexes (an I/O error, or the death of one of several processes) and before it removes the
  version marker, and a later mutation completes what the open looks at. `MaxGivenUp = 2` in
  `MC_ObjectStore.cfg` shows it.
- `NodeReads` asks one query and has raw nodes only; abstract nodes go through the like-named
  methods and have one store in `MemoryTools`. A similarity is a number per node. `insert_raw`
  outside `insert_raw_once` is not driven on its own, nor are memory tools called without a session,
  which the engine never does.
- A bounded traversal may return fewer hits than its limit although more are in reach, because
  duplicates and nodes of other sessions take room in the queue; `TraversalCorrect` promises
  completeness only when every edge fits.
- Estimators are assumed to be able to cut a text at any estimate.
- Not modelled, as pure I/O or data without behaviour over time: model and embedding clients,
  defaults of the configuration, ids, errors, domain types, test support.

## 7. Plan

Done: runner, turn, distillation, object store, session overflow, context assembly, graph traversal
and memory tools, repository reads; proofs of every safety property the runs check but the two of
the object store named in section 5. Left, in this order:

1. A second `run_turn` under a used loop id: its operation keys find what the first has stored.
2. A maintenance pass over several loops of which one fails.
3. `PersistedIsFound` and `FirstWriterWins` for stores with one operation given up, which need an
   invariant of which files an abandoned operation may have left behind.
