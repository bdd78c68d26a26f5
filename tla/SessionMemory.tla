---------------------------- MODULE SessionMemory ----------------------------
(* One session over many turns: the raw nodes the turns leave behind, the copy
   of the last of them every turn works on, the token window over that copy, the
   overflow marks a turn writes at its end from that copy, what the marks do to
   retrieval for a day, and the maintenance pass that distils what is marked.
   Turns of one session may overlap, fail anywhere, or be recovered from a
   checkpoint long after they began; their session view is then as old.
   GraphRunner and TurnLoop have the runner and the recovery rules,
   Distillation the claims: here a distillation is one step.                  *)
EXTENDS Integers, Sequences, FiniteSets, FiniteSetsExt, SequencesExt

CONSTANTS Loops,            \* turns of the session
          Budget,           \* session token budget a turn is configured with
          MaxSession,       \* runtime.max_session_nodes
          Cost,             \* token estimate of a node, by kind
          Similarity,       \* of a node with the query, by loop, in hundredths
          Importance,       \* by kind, in hundredths
          SearchWindow, RawBudget,   \* ActivationBudgets
          Threshold, RelaxedThreshold,
          TimeDecay,        \* memory.activation.use_time_decay
          Relax,            \* ticks of the 24 hours, a tick being a day
          Batch,            \* maintenance_batch_size
          MaxRounds,        \* bound: tool rounds of a turn, by loop
          MaxActive,        \* bound: turns running at once
          MaxTime           \* bound: ticks

Kinds == {"user", "tool", "assistant"}

ASSUME SessionAssumption ==
    /\ Budget \in [Loops -> Nat] /\ MaxRounds \in [Loops -> Nat]
    /\ {MaxSession, SearchWindow, RawBudget, Batch, Relax} \subseteq Nat \ {0}
    /\ {MaxActive, MaxTime, Threshold, RelaxedThreshold} \subseteq Nat
    /\ Cost \in [Kinds -> Nat] /\ Importance \in [Kinds -> Nat]
    /\ Similarity \in [Loops -> Nat]
    /\ TimeDecay \in BOOLEAN

VARIABLES now,
          facts,      \* raw nodes in the order of their timestamps
          distilled,  \* those with DistillationState::Distilled
          deadline,   \* relax_retrieval_until; 0: not marked as pushed out
          turn        \* ExecutionState of every loop, as far as it matters here

sessionVars == <<now, facts, distilled, deadline, turn>>

\* ids, seenDistilled, seenMarked: recent_session, a copy; window, out: the
\* decision of the last assembly; activated: retrieved and not assembled yet.
NoTurn == [phase |-> "idle", started |-> 0, rounds |-> 0, ids |-> {},
           seenDistilled |-> {}, seenMarked |-> {}, window |-> {}, out |-> {}, activated |-> {}]

Ids == DOMAIN facts
Marked == {i \in Ids : deadline[i] # 0}
OwnedBy(l) == {i \in Ids : facts[i].loop = l}
Active == {l \in Loops : turn[l].phase \notin {"idle", "done", "failed"}}

----------------------------------------------------------------------------
(* Retrieval                                                                 *)

\* Mutant of RelaxationActive: the deadline is not looked at.
RelaxationActiveForEver(until, i, at) == until[i] # 0 /\ i \notin distilled

\* overflow_relaxation_active
RelaxationActive(until, i, at) == until[i] # 0 /\ i \notin distilled /\ at <= until[i]

\* DefaultScoringPolicy::score_raw in units of 1/10000; a tick is a day.
Score(until, i, at) ==
    Similarity[facts[i].loop] * 100 + Importance[facts[i].kind] * 20
    - (at - facts[i].time) * 150
    + IF RelaxationActive(until, i, at) THEN 1200 ELSE 0

\* Rank by value, then by a second order.
Highest(S, n, Better(_, _)) == {i \in S : Cardinality({j \in S : Better(j, i)}) < n}

MoreSimilar(i, j) ==
    \/ Similarity[facts[i].loop] > Similarity[facts[j].loop]
    \/ Similarity[facts[i].loop] = Similarity[facts[j].loop] /\ i < j

\* ActivationService::activate, raw nodes: the threshold asks for now, the score
\* for the node's own timestamp when time decay is off.
Activation(until) ==
    LET Candidates == Highest(Ids, SearchWindow, MoreSimilar)
        Required(i) == IF RelaxationActive(until, i, now) THEN RelaxedThreshold ELSE Threshold
        S(i) == Score(until, i, IF TimeDecay THEN now ELSE facts[i].time)
    IN  Highest({i \in Candidates : Similarity[facts[i].loop] >= Required(i)}, RawBudget,
                LAMBDA i, j : S(i) > S(j) \/ (S(i) = S(j) /\ MoreSimilar(i, j)))

----------------------------------------------------------------------------
(* A turn                                                                    *)

SessionInit ==
    /\ now = 0 /\ facts = <<>> /\ distilled = {} /\ deadline = <<>>
    /\ turn = [l \in Loops |-> NoTurn]

\* persist_raw_node, under an operation key of its own: a new, unmarked node. (A
\* key that is taken, after a crash, is TurnLoop's subject.)
Persist(l, kind) ==
    /\ facts' = Append(facts, [loop |-> l, kind |-> kind, time |-> now])
    /\ deadline' = Append(deadline, 0)

\* push_raw_node_into_state: a view is kept in time order and the node is the last.
NewId == Len(facts) + 1

Step(l, from, to) == turn[l].phase = from /\ turn' = [turn EXCEPT ![l].phase = to]

\* The state of a turn is dropped with it.
Ended(l, how) == turn' = [turn EXCEPT ![l] = [NoTurn EXCEPT !.phase = how]]

\* run_turn up to IngestUserInputNode.
Ingest(l) ==
    /\ turn[l].phase = "idle" /\ Cardinality(Active) < MaxActive
    /\ turn' = [turn EXCEPT ![l].phase = "load"]
    /\ Persist(l, "user")
    /\ UNCHANGED <<now, distilled>>

\* LoadSessionViewNode: the last max_session_nodes, copied with their marks.
LoadSessionView(l) ==
    LET ids == {i \in Ids : i > Len(facts) - MaxSession}
    IN  /\ turn[l].phase = "load"
        /\ turn' = [turn EXCEPT ![l].phase = "activate", ![l].started = now, ![l].ids = ids,
                                ![l].seenDistilled = ids \cap distilled,
                                ![l].seenMarked = ids \cap Marked]
        /\ UNCHANGED <<now, facts, distilled, deadline>>

\* BuildActivationQueryNode and ActivateMemoryNode read the repository, not the view.
ActivateMemory(l) ==
    /\ turn[l].phase = "activate"
    /\ turn' = [turn EXCEPT ![l].phase = "assemble", ![l].activated = Activation(deadline)]
    /\ UNCHANGED <<now, facts, distilled, deadline>>

\* Tokens of the nodes of S from i on.
TokensFrom(S, i) == MapThenSumSet(LAMBDA j : Cost[facts[j].kind], {j \in S : j >= i})

\* AssembleContextNode: after a tool round the turn's own tool results are left out.
Shown(l, ids) ==
    {i \in ids : ~(turn[l].rounds > 0 /\ facts[i].loop = l /\ facts[i].kind = "tool")}

\* collect_session_context: from the newest node back, what fits.
Window(l, ids) == {i \in Shown(l, ids) : TokensFrom(Shown(l, ids), i) <= Budget[l]}

\* Everything older than the first node that does not fit is pushed out.
PushedOut(l, ids) == Shown(l, ids) \ Window(l, ids)

Assemble(l) ==
    /\ turn[l].phase = "assemble"
    /\ turn' = [turn EXCEPT ![l].phase = "model", ![l].activated = {},
                            ![l].window = Window(l, turn[l].ids),
                            ![l].out = PushedOut(l, turn[l].ids)]
    /\ UNCHANGED <<now, facts, distilled, deadline>>

\* The model asks for tools; their result is persisted and pushed into the view.
ToolRound(l) ==
    /\ turn[l].phase = "model" /\ turn[l].rounds < MaxRounds[l]
    /\ Persist(l, "tool")
    /\ turn' = [turn EXCEPT ![l].phase = "activate", ![l].rounds = @ + 1,
                            ![l].ids = @ \cup {NewId}]
    /\ UNCHANGED <<now, distilled>>

\* ModelNode and PersistAssistantOutputNode
Answer(l) ==
    /\ turn[l].phase = "model"
    /\ Persist(l, "assistant")
    /\ turn' = [turn EXCEPT ![l].phase = "clear", ![l].ids = @ \cup {NewId}]
    /\ UNCHANGED <<now, distilled>>

\* MarkSessionOverflowNode, first call: marks of nodes that are in the window.
ClearMarks(l) ==
    LET back == (turn[l].window \cap turn[l].seenMarked) \ turn[l].seenDistilled
    IN  /\ Step(l, "clear", "mark")
        /\ deadline' = [i \in Ids |-> IF i \in back THEN 0 ELSE deadline[i]]
        /\ UNCHANGED <<now, facts, distilled>>

Stamped(ids) == [i \in Ids |-> IF i \in ids THEN now + Relax ELSE deadline[i]]

\* Mutant of SetMarks: the deadline is stamped again every turn.
SetMarksAgain(l) ==
    /\ Step(l, "mark", "distill")
    /\ deadline' = Stamped((turn[l].ids \cap turn[l].out) \ turn[l].seenDistilled)
    /\ UNCHANGED <<now, facts, distilled>>

\* Mutant of SetMarks: whatever is not in the window is marked.
SetMarksOutside(l) ==
    /\ Step(l, "mark", "distill")
    /\ deadline' = Stamped(turn[l].ids \ (turn[l].window \cup turn[l].seenDistilled
                                          \cup turn[l].seenMarked))
    /\ UNCHANGED <<now, facts, distilled>>

\* MarkSessionOverflowNode, second call: nodes pushed out without a deadline.
SetMarks(l) ==
    LET pushed == (turn[l].ids \cap turn[l].out) \ (turn[l].seenDistilled \cup turn[l].seenMarked)
    IN  /\ Step(l, "mark", "distill")
        /\ deadline' = Stamped(pushed)
        /\ UNCHANGED <<now, facts, distilled>>

\* distill_claimed_raw_nodes: the batch is Distilled and its overflow reset.
Distil(ids) ==
    /\ distilled' = distilled \cup ids
    /\ deadline' = [i \in Ids |-> IF i \in ids THEN 0 ELSE deadline[i]]

\* DistillCurrentLoopNode, or another worker holds the claim of the loop.
DistillCurrentLoop(l) ==
    /\ turn[l].phase = "distill" /\ Ended(l, "done")
    /\ Distil(OwnedBy(l)) \/ UNCHANGED <<distilled, deadline>>
    /\ UNCHANGED <<now, facts>>

\* An error, a timeout or a cancellation, or a crash that nobody recovers.
Abandon(l) ==
    /\ l \in Active /\ Ended(l, "failed")
    /\ UNCHANGED <<now, facts, distilled, deadline>>

\* A crash after the effects of MarkSessionOverflowNode and before the next
\* checkpoint: it runs again, now or much later, from the state it first ran from.
\* (What other nodes leave behind is found by its operation key.)
Replay(l) ==
    /\ turn[l].phase \in {"mark", "distill"}
    /\ turn' = [turn EXCEPT ![l].phase = "clear"]
    /\ UNCHANGED <<now, facts, distilled, deadline>>

----------------------------------------------------------------------------
\* Mutant of Backlog: only loops whose turn has finished.
BacklogOfFinished == {i \in Marked \ distilled : turn[facts[i].loop].phase = "done"}

\* undistilled_raw with only_pushed_out
Backlog == Marked \ distilled

\* run_maintenance_pass: the oldest batch of the backlog, loop by loop.
Maintain ==
    LET batch == Highest(Backlog, Batch, LAMBDA i, j : i < j)
    IN  /\ batch # {}
        /\ Distil(batch)
        /\ UNCHANGED <<now, facts, turn>>

Tick == now < MaxTime /\ now' = now + 1 /\ UNCHANGED <<facts, distilled, deadline, turn>>

TurnStep(l) ==
    \/ Ingest(l)
    \/ LoadSessionView(l) \/ ActivateMemory(l) \/ Assemble(l)
    \/ ToolRound(l) \/ Answer(l) \/ ClearMarks(l) \/ SetMarks(l)
    \/ DistillCurrentLoop(l) \/ Abandon(l) \/ Replay(l)

SessionNext == Maintain \/ Tick \/ \E l \in Loops : TurnStep(l)

\* A host runs maintenance passes again and again; nothing forces a turn to end.
SessionSpec == SessionInit /\ [][SessionNext]_sessionVars /\ WF_sessionVars(Maintain)

----------------------------------------------------------------------------
(* Properties                                                                *)

Phases == {"idle", "load", "activate", "assemble", "model", "clear", "mark", "distill",
           "done", "failed"}

SessionTypeOK ==
    /\ now \in Nat
    /\ facts \in Seq([loop : Loops, kind : Kinds, time : Nat])
    /\ deadline \in Seq(Nat) /\ Len(deadline) = Len(facts)
    /\ distilled \subseteq Ids
    /\ turn \in [Loops -> [phase : Phases, started : Nat, rounds : Nat,
                           ids : SUBSET Ids, seenDistilled : SUBSET Ids, seenMarked : SUBSET Ids,
                           window : SUBSET Ids, out : SUBSET Ids, activated : SUBSET Ids]]

\* The step that writes the marks of a turn.
MarksWritten(l) == turn[l].phase = "mark" /\ turn'[l].phase = "distill"

\* A turn marks only what is pushed out of its own window, and not only of the view
\* it loaded, perhaps long ago, and decided on at its last assembly: were its window
\* cut again from all the nodes of the session when the mark is written, whatever
\* other turns have added since and with its own results and answer left out as
\* AssembleContextNode leaves them out, each node it marks would still be outside.
OnlyPushedOutIsMarked ==
    [][\A l \in Loops : MarksWritten(l) =>
           \A i \in Ids : deadline'[i] # deadline[i] => i \in PushedOut(l, Ids)]_sessionVars

\* What is left of "Stamp the relaxation deadline ONCE" [C7] when turns overlap or
\* are replayed: a turn that loaded its view after a deadline was stamped never moves
\* it, so no chain of turns one after the other extends it. One that had loaded its
\* view before does move it, and so does its replay, as often as it is replayed.
LaterTurnKeepsDeadline ==
    [][\A l \in Loops : MarksWritten(l) =>
           \A i \in Ids : (deadline[i] # 0 /\ deadline'[i] # deadline[i]) =>
                              turn[l].started + Relax <= deadline[i]]_sessionVars

\* The marks as they would be without those whose deadline has passed.
Unexpired == [i \in Ids |-> IF deadline[i] < now THEN 0 ELSE deadline[i]]

\* The help a pushed-out node gets ends with its deadline: what a turn retrieves,
\* ranked and cut to the budget, is what it would retrieve had the expired marks
\* never been written (activate, score_raw: "The overflow bonus expires with the
\* same deadline as the threshold relaxation" [C7]).
HelpExpires ==
    [][\A l \in Loops : (turn[l].phase = "activate" /\ turn'[l].phase = "assemble") =>
           turn'[l].activated = Activation(Unexpired)]_sessionVars

\* The backlog of overflowed nodes is worked off: every marked node is distilled
\* at last, or back in the window of some turn; whether the turn that wrote it
\* has failed, is still running or has been replayed.
MarkedIsDrained ==
    \A i \in 1..MapThenSumSet(LAMBDA l : 2 + MaxRounds[l], Loops) :
        (i \in Marked \ distilled) ~> (i \in distilled \/ i \notin Marked)

\* README: the raw that does not fit "is subject to overflow marking", and the
\* marked backlog is processed later. So every undistilled node of a turn that
\* has ended is marked, or is still looked at: it is in the view of a running turn
\* or among the nodes the next turn will load.
NeverOverlooked ==
    \A i \in Ids \ (distilled \cup Marked) :
        \/ facts[i].loop \in Active
        \/ i > Len(facts) - MaxSession
        \/ \E l \in Active : i \in turn[l].ids
=============================================================================
