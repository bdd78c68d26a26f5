------------------------- MODULE SessionMemoryProofs -------------------------
(***************************************************************************)
(* Proofs about SessionMemory: for any number of turns, overlapping in any  *)
(* way, with any budgets, views of any size and a clock without bound.      *)
(***************************************************************************)
EXTENDS SessionMemory, DataLemmas, TLAPS

Fact == [loop : Loops, kind : Kinds, time : Nat]

\* The values a turn may have over nodes ids.
Turn(ids) == [phase : Phases, started : Nat, rounds : Nat,
              ids : SUBSET ids, seenDistilled : SUBSET ids, seenMarked : SUBSET ids,
              window : SUBSET ids, out : SUBSET ids, activated : SUBSET ids]

\* The shared part of the types.
StoreOK ==
    /\ now \in Nat
    /\ facts \in Seq(Fact)
    /\ deadline \in Seq(Nat) /\ Len(deadline) = Len(facts)
    /\ distilled \subseteq Ids

\* The type invariant in these terms.
LEMMA TypesSplit == SessionTypeOK <=> StoreOK /\ turn \in [Loops -> Turn(Ids)]
BY DEF SessionTypeOK, StoreOK, Turn, Fact

\* A node is appended: the store stays well typed, old ids keep their deadlines,
\* and the new one has none.
LEMMA PersistTypes ==
    ASSUME StoreOK, NEW l \in Loops, NEW kind \in Kinds,
           Persist(l, kind), UNCHANGED <<now, distilled>>
    PROVE  /\ StoreOK' /\ Ids' = Ids \cup {NewId} /\ NewId \notin Ids
           /\ \A i \in Ids : deadline'[i] = deadline[i]
           /\ deadline'[NewId] = 0
<1> DEFINE f == [loop |-> l, kind |-> kind, time |-> now]
<1>1. facts' = Append(facts, f) /\ deadline' = Append(deadline, 0)
  BY DEF Persist
<1>2. f \in Fact
  BY DEF StoreOK, Fact
<1>3. /\ facts' \in Seq(Fact) /\ deadline' \in Seq(Nat)
      /\ Len(facts') = Len(facts) + 1 /\ Len(deadline') = Len(facts')
      /\ Ids = 1..Len(facts) /\ Ids' = 1..(Len(facts) + 1) /\ Len(facts) \in Nat
  BY <1>1, <1>2 DEF StoreOK, Ids
<1>4. /\ \A i \in Ids : deadline'[i] = deadline[i]
      /\ deadline'[NewId] = 0
  BY <1>1, <1>3 DEF StoreOK, NewId
<1> QED
  BY <1>3, <1>4 DEF StoreOK, NewId

\* A rewritten table of deadlines is one.
LEMMA DeadlineTypes ==
    ASSUME StoreOK, UNCHANGED facts, NEW d, d = [i \in Ids |-> d[i]],
           \A i \in Ids : d[i] \in Nat
    PROVE  d \in Seq(Nat) /\ Len(d) = Len(facts)
<1>1. Ids = 1..Len(facts) /\ Len(facts) \in Nat
  BY DEF StoreOK, Ids
<1>2. d \in [1..Len(facts) -> Nat]
  BY <1>1
<1> QED
  BY <1>1, <1>2

\* What is retrieved and what is assembled are nodes there are.
LEMMA RankedAreNodes == Activation(deadline) \subseteq Ids
BY DEF Activation, Highest

----------------------------------------------------------------------------
\* A view never lacks the mark of a node that was marked before it was loaded.
MarksSeen ==
    \A l \in Loops :
        /\ turn[l].started <= now
        /\ \A i \in turn[l].ids \ turn[l].seenMarked :
              deadline[i] # 0 => turn[l].started + Relax <= deadline[i]

SessionInv == SessionTypeOK /\ MarksSeen

\* A step of one turn that keeps the store and its view.
LEMMA KeepsView ==
    ASSUME SessionInv, NEW l \in Loops, NEW t \in Turn(Ids),
           turn' = [turn EXCEPT ![l] = t],
           UNCHANGED <<now, facts, distilled, deadline>>,
           \/ t.started = turn[l].started /\ t.ids = turn[l].ids /\ t.seenMarked = turn[l].seenMarked
           \/ t.started = 0 /\ t.ids = {}
    PROVE  SessionInv'
<1>1. StoreOK' /\ Ids' = Ids
  BY TypesSplit DEF SessionInv, StoreOK, Ids
<1>2. turn' \in [Loops -> Turn(Ids')]
  BY <1>1, TypesSplit DEF SessionInv
<1>3. SessionTypeOK'
  BY <1>1, <1>2 DEF SessionTypeOK, StoreOK, Turn, Fact
<1>4. MarksSeen'
  BY TypesSplit DEF SessionInv, MarksSeen, Turn, StoreOK
<1> QED
  BY <1>3, <1>4 DEF SessionInv

\* The turn keeps its view, or ends and has none.
KeepsOrEnds(l) ==
    \/ /\ turn'[l].started = turn[l].started /\ turn'[l].ids = turn[l].ids
       /\ turn'[l].seenMarked = turn[l].seenMarked
    \/ turn'[l].started = 0 /\ turn'[l].ids = {}

\* A step that rewrites deadlines so that each is kept, is removed, or is stamped
\* now; if it also changes a turn, it only moves on or ends.
LEMMA RewritesDeadlines ==
    ASSUME SessionInv, UNCHANGED <<now, facts>>,
           distilled' \subseteq Ids,
           deadline' = [i \in Ids |-> deadline'[i]],
           \A i \in Ids : deadline'[i] \in {deadline[i], 0, now + Relax},
           turn' \in [Loops -> Turn(Ids)],
           \A l \in Loops : KeepsOrEnds(l)
    PROVE  SessionInv'
<1>1. StoreOK /\ turn \in [Loops -> Turn(Ids)] /\ Ids' = Ids /\ Relax \in Nat
  BY TypesSplit, SessionAssumption DEF SessionInv, Ids
<1>2. \A i \in Ids : deadline[i] \in Nat /\ deadline'[i] \in Nat
  BY <1>1 DEF StoreOK, Ids
<1>3. deadline' \in Seq(Nat) /\ Len(deadline') = Len(facts)
  BY <1>1, <1>2, DeadlineTypes
<1>4. SessionTypeOK'
  <2>1. StoreOK'
    BY <1>1, <1>3 DEF StoreOK
  <2> QED
    BY <2>1, <1>1 DEF SessionTypeOK, StoreOK, Turn, Fact
<1>5. MarksSeen'
  <2> SUFFICES ASSUME NEW l \in Loops
               PROVE  /\ turn'[l].started <= now'
                      /\ \A i \in turn'[l].ids \ turn'[l].seenMarked :
                            deadline'[i] # 0 => turn'[l].started + Relax <= deadline'[i]
    BY DEF MarksSeen
  <2>1. turn[l] \in Turn(Ids) /\ turn[l].started \in Nat /\ turn[l].ids \subseteq Ids /\ now \in Nat
    BY <1>1 DEF Turn, StoreOK
  <2>2. CASE turn'[l].started = 0 /\ turn'[l].ids = {}
    BY <2>1, <2>2
  <2>3. CASE /\ turn'[l].started = turn[l].started /\ turn'[l].ids = turn[l].ids
             /\ turn'[l].seenMarked = turn[l].seenMarked
    BY <2>1, <2>3, <1>1, <1>2 DEF SessionInv, MarksSeen
  <2> QED
    BY <2>2, <2>3 DEF KeepsOrEnds
<1> QED
  BY <1>4, <1>5 DEF SessionInv

\* A step that persists a node and may push it into the view of its turn.
LEMMA PersistsNode ==
    ASSUME SessionInv, NEW l \in Loops, NEW kind \in Kinds,
           Persist(l, kind), UNCHANGED <<now, distilled>>,
           NEW t \in Turn(Ids \cup {NewId}), turn' = [turn EXCEPT ![l] = t],
           t.started = turn[l].started, t.seenMarked = turn[l].seenMarked,
           t.ids \subseteq turn[l].ids \cup {NewId}
    PROVE  SessionInv'
<1>1. StoreOK /\ turn \in [Loops -> Turn(Ids)] /\ Relax \in Nat
  BY TypesSplit, SessionAssumption DEF SessionInv
<1>2. /\ StoreOK' /\ Ids' = Ids \cup {NewId} /\ NewId \notin Ids
      /\ \A i \in Ids : deadline'[i] = deadline[i]
      /\ deadline'[NewId] = 0
  BY <1>1, PersistTypes
<1>3. turn' \in [Loops -> Turn(Ids')]
  <2>1. Turn(Ids) \subseteq Turn(Ids')
    BY <1>2 DEF Turn
  <2> QED
    BY <1>1, <1>2, <2>1
<1>4. SessionTypeOK'
  BY <1>2, <1>3 DEF SessionTypeOK, StoreOK, Turn, Fact
<1>5. MarksSeen'
  <2> SUFFICES ASSUME NEW m \in Loops
               PROVE  /\ turn'[m].started <= now'
                      /\ \A i \in turn'[m].ids \ turn'[m].seenMarked :
                            deadline'[i] # 0 => turn'[m].started + Relax <= deadline'[i]
    BY DEF MarksSeen
  <2>1. /\ turn[m].started <= now /\ turn[m].ids \subseteq Ids
        /\ \A i \in turn[m].ids \ turn[m].seenMarked :
              deadline[i] # 0 => turn[m].started + Relax <= deadline[i]
    BY <1>1 DEF SessionInv, MarksSeen, Turn
  <2>2. /\ turn'[m].started = turn[m].started /\ turn'[m].seenMarked = turn[m].seenMarked
        /\ turn'[m].ids \subseteq turn[m].ids \cup {NewId}
    BY <1>1
  <2> QED
    BY <2>1, <2>2, <1>2
<1> QED
  BY <1>4, <1>5 DEF SessionInv

----------------------------------------------------------------------------
\* It holds before the first turn.
LEMMA SessionInvInit == SessionInit => SessionInv
BY DEF SessionInit, SessionInv, SessionTypeOK, MarksSeen, NoTurn, Phases, Ids

\* Every step keeps it.
LEMMA SessionInvNext == SessionInv /\ [SessionNext]_sessionVars => SessionInv'
<1> SUFFICES ASSUME SessionInv, [SessionNext]_sessionVars PROVE SessionInv'
  OBVIOUS
<1>0. /\ StoreOK /\ turn \in [Loops -> Turn(Ids)] /\ Relax \in Nat /\ now \in Nat
      /\ \A l \in Loops : turn[l] \in Turn(Ids)
      /\ \A i \in Ids : deadline[i] \in Nat
  <2>1. StoreOK /\ turn \in [Loops -> Turn(Ids)]
    BY TypesSplit DEF SessionInv
  <2>2. now \in Nat /\ \A i \in Ids : deadline[i] \in Nat
    BY <2>1 DEF StoreOK, Ids
  <2>3. Relax \in Nat
    BY SessionAssumption
  <2> QED
    BY <2>1, <2>2, <2>3
<1>1. ASSUME NEW l \in Loops, Ingest(l) PROVE SessionInv'
  <2> DEFINE t == [turn[l] EXCEPT !.phase = "load"]
  <2>1. t \in Turn(Ids \cup {NewId}) /\ turn' = [turn EXCEPT ![l] = t]
    BY <1>0, <1>1 DEF Ingest, Turn, Phases
  <2>2. t.started = turn[l].started /\ t.seenMarked = turn[l].seenMarked /\ t.ids = turn[l].ids
    BY <1>0 DEF Turn
  <2> QED
    BY <1>1, <2>1, <2>2, PersistsNode DEF Ingest, Kinds
<1>2. ASSUME NEW l \in Loops, LoadSessionView(l) PROVE SessionInv'
  <2> DEFINE ids == {i \in Ids : i > Len(facts) - MaxSession}
             t == [turn[l] EXCEPT !.phase = "activate", !.started = now, !.ids = ids,
                                  !.seenDistilled = ids \cap distilled,
                                  !.seenMarked = ids \cap Marked]
  <2>0. /\ ids \subseteq Ids /\ ids \cap distilled \subseteq Ids /\ ids \cap Marked \subseteq Ids
        /\ "activate" \in Phases
    BY DEF Phases
  <2>1. t \in Turn(Ids) /\ turn' = [turn EXCEPT ![l] = t]
    <3>1. t \in Turn(Ids)
      <4> HIDE DEF ids
      <4> QED
        BY <1>0, <2>0 DEF Turn
    <3>2. turn' = [turn EXCEPT ![l].phase = "activate", ![l].started = now, ![l].ids = ids,
                               ![l].seenDistilled = ids \cap distilled,
                               ![l].seenMarked = ids \cap Marked]
      BY <1>2 DEF LoadSessionView
    <3>3. turn' = [turn EXCEPT ![l] = t]
      <4> HIDE DEF ids
      <4> QED
        BY <1>0, <3>2
    <3> QED
      BY <3>1, <3>3
  <2>2. t.started = now /\ t.ids = ids /\ t.seenMarked = ids \cap Marked
    BY <1>0 DEF Turn
  <2>3. turn' \in [Loops -> Turn(Ids')] /\ StoreOK' /\ Ids' = Ids
    <3>1. StoreOK' /\ Ids' = Ids
      BY <1>0, <1>2 DEF LoadSessionView, StoreOK, Ids
    <3>2. turn' \in [Loops -> Turn(Ids)]
      <4> HIDE DEF t
      <4> QED
        BY <1>0, <2>1
    <3> QED
      BY <3>1, <3>2
  <2>4. SessionTypeOK'
    BY <2>3 DEF SessionTypeOK, StoreOK, Turn, Fact
  <2>5. \A i \in t.ids \ t.seenMarked : deadline[i] = 0
    BY <2>2 DEF Marked
  <2>6. UNCHANGED <<now, deadline>>
    BY <1>2 DEF LoadSessionView
  <2>7. MarksSeen'
    BY <1>0, <2>1, <2>2, <2>5, <2>6 DEF SessionInv, MarksSeen
  <2> QED
    BY <2>4, <2>7 DEF SessionInv
<1>3. ASSUME NEW l \in Loops, ActivateMemory(l) PROVE SessionInv'
  <2> DEFINE t == [turn[l] EXCEPT !.phase = "assemble", !.activated = Activation(deadline)]
  <2>1. t \in Turn(Ids) /\ turn' = [turn EXCEPT ![l] = t]
    BY <1>0, <1>3, RankedAreNodes DEF ActivateMemory, Turn, Phases
  <2>2. t.started = turn[l].started /\ t.seenMarked = turn[l].seenMarked /\ t.ids = turn[l].ids
    BY <1>0 DEF Turn
  <2> QED
    BY <1>3, <2>1, <2>2, KeepsView DEF ActivateMemory
<1>4. ASSUME NEW l \in Loops, Assemble(l) PROVE SessionInv'
  <2>1. PICK window \in SUBSET turn[l].ids, out \in SUBSET turn[l].ids :
           turn' = [turn EXCEPT ![l].phase = "model", ![l].activated = {},
                                ![l].window = window, ![l].out = out]
    <3>1. Window(l, turn[l].ids) \subseteq turn[l].ids /\ PushedOut(l, turn[l].ids) \subseteq turn[l].ids
      BY DEF Window, PushedOut, Shown
    <3> QED
      BY <1>4, <3>1 DEF Assemble
  <2> DEFINE t == [turn[l] EXCEPT !.phase = "model", !.activated = {},
                                  !.window = window, !.out = out]
  <2>2. t \in Turn(Ids) /\ turn' = [turn EXCEPT ![l] = t]
    BY <1>0, <2>1 DEF Turn, Phases
  <2>3. t.started = turn[l].started /\ t.seenMarked = turn[l].seenMarked /\ t.ids = turn[l].ids
    BY <1>0 DEF Turn
  <2>4. UNCHANGED <<now, facts, distilled, deadline>>
    BY <1>4 DEF Assemble
  <2> QED
    BY <2>2, <2>3, <2>4, KeepsView
<1>5. ASSUME NEW l \in Loops, ToolRound(l) PROVE SessionInv'
  <2> DEFINE t == [turn[l] EXCEPT !.phase = "activate", !.rounds = @ + 1, !.ids = @ \cup {NewId}]
  <2>1. t \in Turn(Ids \cup {NewId}) /\ turn' = [turn EXCEPT ![l] = t]
    BY <1>0, <1>5 DEF ToolRound, Turn, Phases
  <2>2. /\ t.started = turn[l].started /\ t.seenMarked = turn[l].seenMarked
        /\ t.ids = turn[l].ids \cup {NewId}
    BY <1>0 DEF Turn
  <2> QED
    BY <1>5, <2>1, <2>2, PersistsNode DEF ToolRound, Kinds
<1>6. ASSUME NEW l \in Loops, Answer(l) PROVE SessionInv'
  <2> DEFINE t == [turn[l] EXCEPT !.phase = "clear", !.ids = @ \cup {NewId}]
  <2>1. t \in Turn(Ids \cup {NewId}) /\ turn' = [turn EXCEPT ![l] = t]
    BY <1>0, <1>6 DEF Answer, Turn, Phases
  <2>2. /\ t.started = turn[l].started /\ t.seenMarked = turn[l].seenMarked
        /\ t.ids = turn[l].ids \cup {NewId}
    BY <1>0 DEF Turn
  <2> QED
    BY <1>6, <2>1, <2>2, PersistsNode DEF Answer, Kinds
<1>7. ASSUME NEW l \in Loops, NEW to \in Phases, turn' = [turn EXCEPT ![l].phase = to]
      PROVE  /\ turn' \in [Loops -> Turn(Ids)]
             /\ \A m \in Loops : KeepsOrEnds(m)
  BY <1>0, <1>7 DEF Turn, KeepsOrEnds
<1>8. ASSUME NEW l \in Loops, NEW to \in Phases, Ended(l, to)
      PROVE  /\ turn' \in [Loops -> Turn(Ids)]
             /\ \A m \in Loops : KeepsOrEnds(m)
  BY <1>0, <1>8 DEF Turn, Ended, NoTurn, KeepsOrEnds
<1>9. ASSUME NEW l \in Loops, ClearMarks(l) PROVE SessionInv'
  <2>1. "mark" \in Phases /\ turn' = [turn EXCEPT ![l].phase = "mark"]
    BY <1>9 DEF ClearMarks, Step, Phases
  <2>2. /\ deadline' = [i \in Ids |-> deadline'[i]]
        /\ \A i \in Ids : deadline'[i] \in {deadline[i], 0, now + Relax}
        /\ UNCHANGED <<now, facts, distilled>>
    BY <1>9 DEF ClearMarks
  <2> QED
    BY <1>0, <1>7, <2>1, <2>2, RewritesDeadlines DEF StoreOK
<1>10. ASSUME NEW l \in Loops, SetMarks(l) PROVE SessionInv'
  <2>1. "distill" \in Phases /\ turn' = [turn EXCEPT ![l].phase = "distill"]
    BY <1>10 DEF SetMarks, Step, Phases
  <2>2. /\ deadline' = [i \in Ids |-> deadline'[i]]
        /\ \A i \in Ids : deadline'[i] \in {deadline[i], 0, now + Relax}
        /\ UNCHANGED <<now, facts, distilled>>
    BY <1>10 DEF SetMarks, Stamped
  <2> QED
    BY <1>0, <1>7, <2>1, <2>2, RewritesDeadlines DEF StoreOK
<1>11. ASSUME NEW ids \in SUBSET Ids, Distil(ids)
       PROVE  /\ deadline' = [i \in Ids |-> deadline'[i]]
              /\ \A i \in Ids : deadline'[i] \in {deadline[i], 0, now + Relax}
              /\ distilled' \subseteq Ids
  BY <1>0, <1>11 DEF Distil, StoreOK
<1>12. ASSUME NEW l \in Loops, DistillCurrentLoop(l) PROVE SessionInv'
  <2>1. "done" \in Phases /\ Ended(l, "done") /\ UNCHANGED <<now, facts>>
    BY <1>12 DEF DistillCurrentLoop, Phases
  <2>2. CASE Distil(OwnedBy(l))
    <3>1. OwnedBy(l) \in SUBSET Ids
      BY DEF OwnedBy
    <3> QED
      BY <1>8, <1>11, <2>1, <2>2, <3>1, RewritesDeadlines
  <2>3. CASE UNCHANGED <<distilled, deadline>>
    <3>1. /\ deadline' = [i \in Ids |-> deadline'[i]]
          /\ \A i \in Ids : deadline'[i] \in {deadline[i], 0, now + Relax}
          /\ distilled' \subseteq Ids
      BY <1>0, <2>3 DEF StoreOK, Ids
    <3> QED
      BY <1>8, <2>1, <3>1, RewritesDeadlines
  <2> QED
    BY <1>12, <2>2, <2>3 DEF DistillCurrentLoop
<1>13. ASSUME NEW l \in Loops, Abandon(l) PROVE SessionInv'
  <2>1. "failed" \in Phases /\ Ended(l, "failed") /\ UNCHANGED <<now, facts, distilled, deadline>>
    BY <1>13 DEF Abandon, Phases
  <2>2. /\ deadline' = [i \in Ids |-> deadline'[i]]
        /\ \A i \in Ids : deadline'[i] \in {deadline[i], 0, now + Relax}
        /\ distilled' \subseteq Ids
    BY <1>0, <2>1 DEF StoreOK, Ids
  <2> QED
    BY <1>8, <2>1, <2>2, RewritesDeadlines
<1>14. ASSUME NEW l \in Loops, Replay(l) PROVE SessionInv'
  <2> DEFINE t == [turn[l] EXCEPT !.phase = "clear"]
  <2>1. t \in Turn(Ids) /\ turn' = [turn EXCEPT ![l] = t]
    BY <1>0, <1>14 DEF Replay, Turn, Phases
  <2>2. t.started = turn[l].started /\ t.seenMarked = turn[l].seenMarked /\ t.ids = turn[l].ids
    BY <1>0 DEF Turn
  <2> QED
    BY <1>14, <2>1, <2>2, KeepsView DEF Replay
<1>15. ASSUME Maintain PROVE SessionInv'
  <2>1. PICK batch \in SUBSET Ids : Distil(batch)
    BY <1>15 DEF Maintain, Backlog, Marked, Highest
  <2>2. UNCHANGED <<now, facts, turn>>
    BY <1>15 DEF Maintain
  <2>3. turn' \in [Loops -> Turn(Ids)] /\ \A l \in Loops : KeepsOrEnds(l)
    BY <1>0, <2>2 DEF KeepsOrEnds
  <2>4. /\ deadline' = [i \in Ids |-> deadline'[i]]
        /\ \A i \in Ids : deadline'[i] \in {deadline[i], 0, now + Relax}
        /\ distilled' \subseteq Ids
    BY <1>11, <2>1
  <2> QED
    BY <2>2, <2>3, <2>4, RewritesDeadlines
<1>16. ASSUME Tick PROVE SessionInv'
  <2>1. UNCHANGED <<facts, distilled, deadline, turn>> /\ now' = now + 1
    BY <1>16 DEF Tick
  <2>2. SessionTypeOK'
    BY <1>0, <2>1 DEF SessionInv, SessionTypeOK, Ids
  <2>3. \A l \in Loops : turn[l].started \in Nat
    BY <1>0 DEF Turn
  <2>4. MarksSeen'
    BY <1>0, <2>1, <2>3 DEF SessionInv, MarksSeen
  <2> QED
    BY <2>2, <2>4 DEF SessionInv
<1>17. CASE UNCHANGED sessionVars
  BY <1>17 DEF sessionVars, SessionInv, SessionTypeOK, MarksSeen, Ids
<1> QED
  BY <1>1, <1>2, <1>3, <1>4, <1>5, <1>6, <1>9, <1>10, <1>12, <1>13, <1>14, <1>15, <1>16, <1>17
  DEF SessionNext, TurnStep

\* In every reachable state types hold and views know the marks older than they are.
THEOREM SessionInvariant == SessionSpec => []SessionInv
<1> QED
  BY SessionInvInit, SessionInvNext, PTL DEF SessionSpec

\* The type invariant of SessionMemory.
THEOREM SessionTypes == SessionSpec => []SessionTypeOK
<1>1. SessionInv => SessionTypeOK
  BY DEF SessionInv
<1> QED
  BY <1>1, SessionInvariant, PTL

\* A step of turn m moves no other turn; only ActivateMemoryNode makes it ready to
\* assemble, and only the second call of MarkSessionOverflowNode ready to distil.
LEMMA MovesOneTurn ==
    ASSUME turn \in [Loops -> Turn(Ids)], NEW m \in Loops, TurnStep(m)
    PROVE  /\ \A l \in Loops \ {m} : turn'[l] = turn[l]
           /\ turn'[m].phase = "assemble" => ActivateMemory(m)
           /\ turn'[m].phase = "distill" => SetMarks(m)
<1> DEFINE Moves(p) == /\ \A l \in Loops \ {m} : turn'[l] = turn[l]
                       /\ turn'[m].phase = p
<1>0. ASSUME NEW t, turn' = [turn EXCEPT ![m] = t] PROVE Moves(t.phase)
  BY <1>0
<1>1. ASSUME NEW to, turn' = [turn EXCEPT ![m].phase = to] PROVE Moves(to)
  BY <1>1 DEF Turn
<1>2. ASSUME NEW how, Ended(m, how) PROVE Moves(how)
  BY <1>2 DEF Ended, NoTurn
<1>3. ASSUME Ingest(m) PROVE Moves("load")
  BY <1>1, <1>3 DEF Ingest
<1>4. ASSUME LoadSessionView(m) PROVE Moves("activate")
  <2>1. PICK ids, seen, marked :
           turn' = [turn EXCEPT ![m].phase = "activate", ![m].started = now, ![m].ids = ids,
                                ![m].seenDistilled = seen, ![m].seenMarked = marked]
    BY <1>4 DEF LoadSessionView
  <2> DEFINE t == [turn[m] EXCEPT !.phase = "activate", !.started = now, !.ids = ids,
                                  !.seenDistilled = seen, !.seenMarked = marked]
  <2>2. turn' = [turn EXCEPT ![m] = t] /\ t.phase = "activate"
    BY <2>1 DEF Turn
  <2> HIDE DEF t
  <2> QED
    BY <1>0, <2>2
<1>5. ASSUME ActivateMemory(m) PROVE Moves("assemble")
  <2> DEFINE a == Activation(deadline)
             t == [turn[m] EXCEPT !.phase = "assemble", !.activated = a]
  <2>1. turn' = [turn EXCEPT ![m].phase = "assemble", ![m].activated = a]
    BY <1>5 DEF ActivateMemory
  <2> HIDE DEF a
  <2>2. turn' = [turn EXCEPT ![m] = t] /\ t.phase = "assemble"
    BY <2>1 DEF Turn
  <2> HIDE DEF t
  <2> QED
    BY <1>0, <2>2
<1>6. ASSUME Assemble(m) PROVE Moves("model")
  <2>1. PICK window, out :
           turn' = [turn EXCEPT ![m].phase = "model", ![m].activated = {},
                                ![m].window = window, ![m].out = out]
    BY <1>6 DEF Assemble
  <2> DEFINE t == [turn[m] EXCEPT !.phase = "model", !.activated = {},
                                  !.window = window, !.out = out]
  <2>2. turn' = [turn EXCEPT ![m] = t] /\ t.phase = "model"
    BY <2>1 DEF Turn
  <2> HIDE DEF t
  <2> QED
    BY <1>0, <2>2
<1>7. ASSUME ToolRound(m) PROVE Moves("activate")
  BY <1>7 DEF ToolRound, Turn
<1>8. ASSUME Answer(m) PROVE Moves("clear")
  BY <1>8 DEF Answer, Turn
<1>9. (ClearMarks(m) => Moves("mark")) /\ (SetMarks(m) => Moves("distill"))
  BY <1>1 DEF ClearMarks, SetMarks, Step
<1>10. (DistillCurrentLoop(m) => Moves("done")) /\ (Abandon(m) => Moves("failed"))
  BY <1>2 DEF DistillCurrentLoop, Abandon
<1>11. Replay(m) => Moves("clear")
  BY <1>1 DEF Replay
<1> QED
  BY <1>3, <1>4, <1>5, <1>6, <1>7, <1>8, <1>9, <1>10, <1>11 DEF TurnStep

\* Marks are written by SetMarks of the turn they are the marks of.
LEMMA MarksAreSet ==
    ASSUME turn \in [Loops -> Turn(Ids)], SessionNext, NEW l \in Loops, MarksWritten(l)
    PROVE  SetMarks(l)
<1>1. PICK m \in Loops : TurnStep(m)
  BY DEF SessionNext, Maintain, Tick, MarksWritten
<1> QED
  BY <1>1, MovesOneTurn DEF MarksWritten

\* MarkSessionOverflowNode: a turn that loaded its view after a deadline was stamped
\* never moves it, with any number of overlapping, abandoned and replayed turns.
THEOREM LaterTurnKeepsMark == SessionSpec => LaterTurnKeepsDeadline
<1> DEFINE Kept == \A l \in Loops : MarksWritten(l) =>
              \A i \in Ids : (deadline[i] # 0 /\ deadline'[i] # deadline[i]) =>
                                 turn[l].started + Relax <= deadline[i]
<1>1. SessionInv /\ [SessionNext]_sessionVars => [Kept]_sessionVars
  <2> SUFFICES ASSUME SessionInv, SessionNext, NEW l \in Loops, MarksWritten(l),
                      NEW i \in Ids, deadline[i] # 0, deadline'[i] # deadline[i]
               PROVE  turn[l].started + Relax <= deadline[i]
    OBVIOUS
  <2>1. SetMarks(l)
    BY MarksAreSet, TypesSplit DEF SessionInv
  <2>2. i \in turn[l].ids \ turn[l].seenMarked
    BY <2>1 DEF SetMarks, Stamped
  <2> QED
    BY <2>2 DEF SessionInv, MarksSeen
<1> QED
  BY <1>1, SessionInvariant, PTL DEF SessionSpec, LaterTurnKeepsDeadline

----------------------------------------------------------------------------
\* Tokens of the nodes X of fs.
TokensOf(fs, X) == MapThenSumSet(LAMBDA j : Cost[fs[j].kind], X)

\* They are a sum.
LEMMA TokensAreSum ==
    ASSUME NEW fs \in Seq(Fact), NEW X \in SUBSET DOMAIN fs, IsFiniteSet(X)
    PROVE  LET w == [j \in DOMAIN fs |-> Cost[fs[j].kind]]
           IN  /\ \A j \in X : w[j] \in Nat
               /\ TokensOf(fs, X) = SumOn(w, X)
<1> DEFINE w == [j \in DOMAIN fs |-> Cost[fs[j].kind]]
           IsTokens(h) == h = [s \in SUBSET X |-> IF s = {} THEN 0
                                 ELSE Cost[fs[CHOOSE x \in s : TRUE].kind] + h[s \ {CHOOSE x \in s : TRUE}]]
           h == CHOOSE h : IsTokens(h)
<1>0. \A j \in X : w[j] \in Nat
  <2>1. \A j \in DOMAIN fs : fs[j].kind \in Kinds
    <3> SUFFICES ASSUME NEW j \in DOMAIN fs PROVE fs[j].kind \in Kinds
      OBVIOUS
    <3>1. fs[j] \in Fact
      OBVIOUS
    <3> QED
      BY <3>1 DEF Fact
  <2>2. \A k \in Kinds : Cost[k] \in Nat
    BY SessionAssumption
  <2> QED
    BY <2>1, <2>2
<1>1. ASSUME NEW g PROVE IsSum(g, w, X) <=> IsTokens(g)
  <2> DEFINE A == [s \in SUBSET X |-> IF s = {} THEN 0 ELSE w[Pick(s)] + g[s \ {Pick(s)}]]
             B == [s \in SUBSET X |-> IF s = {} THEN 0 ELSE Cost[fs[Pick(s)].kind] + g[s \ {Pick(s)}]]
  <2>1. ASSUME NEW s \in SUBSET X, s # {} PROVE w[Pick(s)] = Cost[fs[Pick(s)].kind]
    <3>1. Pick(s) \in DOMAIN fs
      BY <2>1, PickIn
    <3> QED
      BY <3>1
  <2>2. A = B
    <3> HIDE DEF w
    <3> QED
      BY <2>1
  <2>3. (IsSum(g, w, X) <=> g = A) /\ (IsTokens(g) <=> g = B)
    BY DEF IsSum, Pick
  <2> HIDE DEF A, B, IsTokens
  <2> QED
    BY <2>2, <2>3
<1>2. \E g : IsTokens(g)
  <2> HIDE DEF w, IsTokens
  <2> QED
    BY <1>1, SumExists
<1>3. IsTokens(h)
  <2> HIDE DEF IsTokens
  <2> QED
    BY <1>2
<1>4. TokensOf(fs, X) = h[X]
  BY DEF TokensOf, MapThenSumSet, MapThenFoldSet
<1>5. IsSum(h, w, X)
  BY <1>1, <1>3
<1>6. SumOn(w, X) = h[X]
  <2> HIDE DEF h, w
  <2>1. PICK k : IsSum(k, w, X) /\ SumOn(w, X) = k[X]
    BY <1>5, SumUnfold
  <2> QED
    BY <1>5, <2>1, SumUnique
<1> QED
  BY <1>0, <1>4, <1>6

\* More nodes have more tokens, the nodes of an older session those of a newer one too.
LEMMA TokensGrow ==
    ASSUME NEW fs \in Seq(Fact), NEW gs \in Seq(Fact),
           Len(fs) <= Len(gs), \A j \in DOMAIN fs : gs[j] = fs[j],
           NEW X \in SUBSET DOMAIN fs, NEW Y \in SUBSET DOMAIN gs, X \subseteq Y
    PROVE  /\ TokensOf(fs, X) \in Nat
           /\ TokensOf(gs, Y) \in Nat
           /\ TokensOf(fs, X) <= TokensOf(gs, Y)
<1> DEFINE w == [j \in DOMAIN fs |-> Cost[fs[j].kind]]
           v == [j \in DOMAIN gs |-> Cost[gs[j].kind]]
<1>1. /\ DOMAIN fs = 1..Len(fs) /\ Len(fs) \in Nat
      /\ DOMAIN gs = 1..Len(gs) /\ Len(gs) \in Nat
  OBVIOUS
<1>2. IsFiniteSet(DOMAIN fs) /\ IsFiniteSet(DOMAIN gs)
  BY <1>1, FS_Interval
<1>3. X \subseteq Y /\ Y \subseteq DOMAIN gs /\ X \subseteq DOMAIN fs
  BY <1>1
<1>4. IsFiniteSet(X) /\ IsFiniteSet(Y)
  BY <1>2, <1>3, FS_Subset
<1>5. (\A j \in X : w[j] \in Nat) /\ TokensOf(fs, X) = SumOn(w, X)
  BY <1>4, TokensAreSum
<1>6. (\A j \in Y : v[j] \in Nat) /\ TokensOf(gs, Y) = SumOn(v, Y)
  BY <1>4, TokensAreSum
<1>7. \A j \in X : w[j] <= v[j]
  <2> SUFFICES ASSUME NEW j \in X PROVE w[j] <= v[j]
    OBVIOUS
  <2>1. w[j] = Cost[fs[j].kind] /\ v[j] = Cost[gs[j].kind] /\ gs[j] = fs[j]
    BY <1>1, <1>3
  <2>2. w[j] = v[j] /\ w[j] \in Nat
    BY <1>5, <2>1
  <2> HIDE DEF w, v
  <2> QED
    BY <2>2
<1>8. SumOn(w, X) <= SumOn(v, Y) /\ SumOn(w, X) \in Nat /\ SumOn(v, Y) \in Nat
  <2> HIDE DEF w, v
  <2> QED
    BY <1>3, <1>4, <1>5, <1>6, <1>7, SumMonotone, SumNat
<1> QED
  BY <1>5, <1>6, <1>8

----------------------------------------------------------------------------
\* The phases in which a turn holds the decision of its last assembly.
Decided == {"model", "clear", "mark", "distill"}

\* What a turn decided to be pushed out is pushed out of its window on all nodes.
PushedOutside ==
    \A l \in Loops : turn[l].phase \in Decided => turn[l].out \subseteq PushedOut(l, Ids)
OverflowInv == SessionInv /\ PushedOutside

\* The decision of turn l is kept by a step.
KeepsDecision(l) ==
    turn'[l].phase \in Decided => /\ turn[l].phase \in Decided
                                  /\ turn'[l].out = turn[l].out
                                  /\ turn'[l].rounds = turn[l].rounds

\* Only AssembleContextNode decides.
LEMMA DecisionKept ==
    ASSUME turn \in [Loops -> Turn(Ids)], NEW m \in Loops, TurnStep(m), ~Assemble(m),
           NEW l \in Loops
    PROVE  KeepsDecision(l)
<1>1. CASE l # m
  BY <1>1, MovesOneTurn DEF KeepsDecision
<1>2. CASE l = m
  <2>1. ASSUME Ingest(m) \/ DistillCurrentLoop(m) \/ Abandon(m) PROVE KeepsDecision(m)
    BY <2>1 DEF Ingest, DistillCurrentLoop, Abandon, Ended, NoTurn, KeepsDecision, Decided, Turn
  <2>2. ASSUME LoadSessionView(m) PROVE KeepsDecision(m)
    <3>1. PICK ids, seen, marked :
             turn' = [turn EXCEPT ![m].phase = "activate", ![m].started = now, ![m].ids = ids,
                                  ![m].seenDistilled = seen, ![m].seenMarked = marked]
      BY <2>2 DEF LoadSessionView
    <3>2. turn'[m].phase = "activate"
      BY <3>1 DEF Turn
    <3> QED
      BY <3>2 DEF KeepsDecision, Decided
  <2>3. ASSUME ActivateMemory(m) PROVE KeepsDecision(m)
    <3>1. PICK a : turn' = [turn EXCEPT ![m].phase = "assemble", ![m].activated = a]
      BY <2>3 DEF ActivateMemory
    <3>2. turn'[m].phase = "assemble"
      BY <3>1 DEF Turn
    <3> QED
      BY <3>2 DEF KeepsDecision, Decided
  <2>4. ASSUME ToolRound(m) PROVE KeepsDecision(m)
    BY <2>4 DEF ToolRound, KeepsDecision, Decided, Turn
  <2>5. ASSUME Answer(m) PROVE KeepsDecision(m)
    BY <2>5 DEF Answer, KeepsDecision, Decided, Turn
  <2>6. ASSUME NEW to \in Decided, turn[m].phase \in Decided, turn' = [turn EXCEPT ![m].phase = to]
        PROVE  KeepsDecision(m)
    BY <2>6 DEF KeepsDecision, Turn
  <2>7. ASSUME ClearMarks(m) \/ SetMarks(m) \/ Replay(m) PROVE KeepsDecision(m)
    BY <2>6, <2>7 DEF ClearMarks, SetMarks, Replay, Step, Decided
  <2> QED
    BY <1>2, <2>1, <2>2, <2>3, <2>4, <2>5, <2>7 DEF TurnStep
<1> QED
  BY <1>1, <1>2

\* No step removes or rewrites a node.
LEMMA NodesStay ==
    ASSUME SessionInv, [SessionNext]_sessionVars
    PROVE  /\ Len(facts) <= Len(facts') /\ Ids \subseteq Ids'
           /\ \A j \in Ids : facts'[j] = facts[j]
<1>1. facts \in Seq(Fact) /\ Len(facts) \in Nat /\ Ids = 1..Len(facts)
  BY TypesSplit DEF SessionInv, StoreOK, Ids
<1>2. CASE UNCHANGED facts
  BY <1>1, <1>2 DEF Ids
<1>3. CASE \E l \in Loops, kind \in Kinds : Persist(l, kind)
  <2>1. PICK f : facts' = Append(facts, f)
    BY <1>3 DEF Persist
  <2> QED
    BY <1>1, <2>1 DEF Ids
<1> QED
  BY <1>2, <1>3 DEF SessionNext, TurnStep, Ingest, LoadSessionView, ActivateMemory, Assemble,
     ToolRound, Answer, ClearMarks, SetMarks, DistillCurrentLoop, Abandon, Replay, Maintain,
     Tick, sessionVars, Kinds

\* A node that did not fit a view of some of the nodes fits no better with all of them.
LEMMA MoreIsOut ==
    ASSUME SessionInv, NEW l \in Loops, NEW ids \in SUBSET Ids
    PROVE  PushedOut(l, ids) \subseteq PushedOut(l, Ids)
<1> SUFFICES ASSUME NEW i \in PushedOut(l, ids) PROVE i \in PushedOut(l, Ids)
  OBVIOUS
<1>1. facts \in Seq(Fact) /\ Budget[l] \in Nat
  BY TypesSplit, SessionAssumption DEF SessionInv, StoreOK
<1> DEFINE X == {j \in Shown(l, ids) : j >= i}
           Y == {j \in Shown(l, Ids) : j >= i}
<1>2. X \in SUBSET DOMAIN facts /\ Y \in SUBSET DOMAIN facts /\ X \subseteq Y
  BY DEF Shown, Ids
<1>3. Len(facts) <= Len(facts)
  BY <1>1
<1>4. TokensFrom(Shown(l, ids), i) = TokensOf(facts, X)
  BY DEF TokensFrom, TokensOf
<1>5. TokensFrom(Shown(l, Ids), i) = TokensOf(facts, Y)
  BY DEF TokensFrom, TokensOf
<1>6. i \in Shown(l, ids) /\ ~(TokensFrom(Shown(l, ids), i) <= Budget[l])
  BY DEF PushedOut, Window
<1>7. i \in Shown(l, Ids)
  BY <1>6 DEF Shown
<1>8. ~(TokensOf(facts, Y) <= Budget[l])
  <2> HIDE DEF X, Y
  <2>1. /\ TokensOf(facts, X) \in Nat /\ TokensOf(facts, Y) \in Nat
        /\ TokensOf(facts, X) <= TokensOf(facts, Y)
    BY <1>1, <1>2, <1>3, TokensGrow
  <2> QED
    BY <1>1, <1>4, <1>6, <2>1
<1> QED
  BY <1>5, <1>7, <1>8 DEF PushedOut, Window

\* The tokens of the nodes shown from one on, as a sum over their sequence.
LEMMA TokensOfShown ==
    \A m, j : TokensFrom(Shown(m, Ids), j) = TokensOf(facts, {k \in Shown(m, Ids) : k >= j})
BY DEF TokensFrom, TokensOf

\* Once pushed out, a node stays so while its turn shows what it showed before.
LEMMA StaysOut ==
    ASSUME SessionInv, SessionInv', [SessionNext]_sessionVars,
           NEW l \in Loops, turn'[l].rounds = turn[l].rounds
    PROVE  PushedOut(l, Ids) \subseteq PushedOut(l, Ids)'
<1> SUFFICES ASSUME NEW i \in PushedOut(l, Ids) PROVE i \in PushedOut(l, Ids)'
  OBVIOUS
<1>1. /\ facts \in Seq(Fact) /\ facts' \in Seq(Fact) /\ Budget[l] \in Nat
      /\ Len(facts) <= Len(facts') /\ Ids \subseteq Ids'
      /\ \A j \in Ids : facts'[j] = facts[j]
  BY TypesSplit, NodesStay, SessionAssumption DEF SessionInv, StoreOK, SessionTypeOK, Fact
<1> DEFINE X == {j \in Shown(l, Ids) : j >= i}
           Y == {j \in Shown(l, Ids)' : j >= i}
<1>2. Shown(l, Ids) \subseteq Shown(l, Ids)'
  BY <1>1 DEF Shown
<1>3. X \in SUBSET DOMAIN facts /\ Y \in SUBSET DOMAIN facts' /\ X \subseteq Y
  BY <1>2 DEF Shown, Ids
<1>4. TokensFrom(Shown(l, Ids), i) = TokensOf(facts, X)
  BY TokensOfShown
<1>5. TokensFrom(Shown(l, Ids), i)' = TokensOf(facts', Y)
  <2>1. (\A m, j : TokensFrom(Shown(m, Ids), j) = TokensOf(facts, {k \in Shown(m, Ids) : k >= j}))'
    BY TokensOfShown, PTL
  <2> QED
    BY <2>1
<1>6. i \in Shown(l, Ids) /\ ~(TokensFrom(Shown(l, Ids), i) <= Budget[l])
  BY DEF PushedOut, Window
<1>7. ~(TokensOf(facts', Y) <= Budget[l])
  <2> HIDE DEF X, Y
  <2>1. /\ TokensOf(facts, X) \in Nat /\ TokensOf(facts', Y) \in Nat
        /\ TokensOf(facts, X) <= TokensOf(facts', Y)
    <3>1. \A j \in DOMAIN facts : facts'[j] = facts[j]
      BY <1>1 DEF Ids
    <3> QED
      BY <1>1, <1>3, <3>1, TokensGrow
  <2> QED
    BY <1>1, <1>4, <1>6, <2>1
<1> QED
  BY <1>2, <1>5, <1>6, <1>7 DEF PushedOut, Window

\* It holds before the first turn.
LEMMA OverflowInvInit == SessionInit => OverflowInv
BY SessionInvInit DEF SessionInit, OverflowInv, PushedOutside, NoTurn, Decided

\* Every step keeps it: only Assemble decides, and what it decides stays true.
LEMMA OverflowInvNext == OverflowInv /\ [SessionNext]_sessionVars => OverflowInv'
<1> SUFFICES ASSUME OverflowInv, [SessionNext]_sessionVars PROVE OverflowInv'
  OBVIOUS
<1>0. SessionInv /\ SessionInv' /\ turn \in [Loops -> Turn(Ids)]
  BY SessionInvNext, TypesSplit DEF OverflowInv, SessionInv
<1>1. ASSUME NEW l \in Loops, KeepsDecision(l), turn'[l].phase \in Decided
      PROVE  turn'[l].out \subseteq PushedOut(l, Ids)'
  BY <1>0, <1>1, StaysOut DEF OverflowInv, PushedOutside, KeepsDecision
<1>2. CASE UNCHANGED turn
  BY <1>0, <1>1, <1>2 DEF OverflowInv, PushedOutside, KeepsDecision
<1>3. ASSUME NEW m \in Loops, TurnStep(m), ~Assemble(m) PROVE OverflowInv'
  BY <1>0, <1>1, <1>3, DecisionKept DEF OverflowInv, PushedOutside
<1>4. ASSUME NEW m \in Loops, Assemble(m) PROVE OverflowInv'
  <2> DEFINE window == Window(m, turn[m].ids)
             out == PushedOut(m, turn[m].ids)
             t == [turn[m] EXCEPT !.phase = "model", !.activated = {},
                                  !.window = window, !.out = out]
  <2>1. turn' = [turn EXCEPT ![m].phase = "model", ![m].activated = {},
                             ![m].window = window, ![m].out = out]
    BY <1>4 DEF Assemble
  <2>2. turn'[m].out = out /\ turn'[m].rounds = turn[m].rounds
    <3> HIDE DEF window, out
    <3> QED
      BY <1>0, <2>1 DEF Turn
  <2>3. out \subseteq PushedOut(m, Ids)
    BY <1>0, MoreIsOut DEF Turn
  <2>4. turn'[m].out \subseteq PushedOut(m, Ids)'
    BY <1>0, <2>2, <2>3, StaysOut
  <2>5. ASSUME NEW l \in Loops, l # m PROVE KeepsDecision(l)
    <3>1. TurnStep(m)
      BY <1>4 DEF TurnStep
    <3> QED
      BY <1>0, <2>5, <3>1, MovesOneTurn DEF KeepsDecision
  <2> QED
    BY <1>0, <1>1, <2>4, <2>5 DEF OverflowInv, PushedOutside
<1> QED
  BY <1>2, <1>3, <1>4 DEF SessionNext, Maintain, Tick, sessionVars

\* MarkSessionOverflowNode: what a turn marks is pushed out of its own window on all
\* nodes of the session, however old its view and whoever has added nodes since.
THEOREM MarksOnlyPushedOut == SessionSpec => OnlyPushedOutIsMarked
<1> DEFINE Outside == \A l \in Loops : MarksWritten(l) =>
              \A i \in Ids : deadline'[i] # deadline[i] => i \in PushedOut(l, Ids)
<1>1. SessionSpec => []OverflowInv
  BY OverflowInvInit, OverflowInvNext, PTL DEF SessionSpec
<1>2. OverflowInv /\ [SessionNext]_sessionVars => [Outside]_sessionVars
  <2> SUFFICES ASSUME OverflowInv, SessionNext, NEW l \in Loops, MarksWritten(l),
                      NEW i \in Ids, deadline'[i] # deadline[i]
               PROVE  i \in PushedOut(l, Ids)
    OBVIOUS
  <2>1. SetMarks(l)
    BY MarksAreSet, TypesSplit DEF OverflowInv, SessionInv
  <2>2. i \in turn[l].out
    BY <2>1 DEF SetMarks, Stamped
  <2> QED
    BY <2>2 DEF OverflowInv, PushedOutside, MarksWritten, Decided
<1> QED
  BY <1>1, <1>2, PTL DEF SessionSpec, OnlyPushedOutIsMarked

----------------------------------------------------------------------------
\* With time decay, a mark whose deadline has passed changes nothing of what is retrieved.
LEMMA ExpiredMarksIdle ==
    ASSUME TimeDecay, SessionInv
    PROVE  Activation(deadline) = Activation(Unexpired)
<1>1. /\ now \in Nat /\ \A i \in Ids : deadline[i] \in Nat
      /\ \A l \in Loops : Similarity[l] \in Nat
  <2>1. StoreOK
    BY TypesSplit DEF SessionInv
  <2>2. now \in Nat /\ \A i \in Ids : deadline[i] \in Nat
    BY <2>1 DEF StoreOK, Ids
  <2>3. \A l \in Loops : Similarity[l] \in Nat
    BY SessionAssumption
  <2> QED
    BY <2>2, <2>3
<1>2. \A i \in Ids : RelaxationActive(deadline, i, now) <=> RelaxationActive(Unexpired, i, now)
  BY <1>1 DEF RelaxationActive, Unexpired
<1>3. \A i \in Ids : Score(deadline, i, now) = Score(Unexpired, i, now)
  BY <1>2 DEF Score
<1> DEFINE Candidates == Highest(Ids, SearchWindow, MoreSimilar)
           Required(until, i) == IF RelaxationActive(until, i, now) THEN RelaxedThreshold ELSE Threshold
           Above(until) == {i \in Candidates : Similarity[facts[i].loop] >= Required(until, i)}
           Better(until, i, j) == \/ Score(until, i, now) > Score(until, j, now)
                                  \/ Score(until, i, now) = Score(until, j, now) /\ MoreSimilar(i, j)
           Rank(until, i) == Cardinality({j \in Above(until) : Better(until, j, i)})
<1>4. \A until : Activation(until) = {i \in Above(until) : Rank(until, i) < RawBudget}
  BY TimeDecay DEF Activation, Highest
<1>5. Candidates \subseteq Ids
  BY DEF Highest
<1>6. Above(deadline) = Above(Unexpired) /\ Above(deadline) \subseteq Ids
  <2> HIDE DEF Candidates
  <2> QED
    BY <1>2, <1>5
<1>7. ASSUME NEW i \in Above(deadline) PROVE Rank(deadline, i) = Rank(Unexpired, i)
  <2>1. \A j \in Above(deadline) : Better(deadline, j, i) <=> Better(Unexpired, j, i)
    <3> HIDE DEF Above
    <3> QED
      BY <1>3, <1>6, <1>7
  <2>2. {j \in Above(deadline) : Better(deadline, j, i)} = {j \in Above(Unexpired) : Better(Unexpired, j, i)}
    <3> HIDE DEF Above, Better
    <3> QED
      BY <1>6, <2>1
  <2> QED
    BY <2>2
<1> QED
  <2> HIDE DEF Above, Rank
  <2> QED
    BY <1>4, <1>6, <1>7

\* activate, score_raw: with time decay on, the help a pushed-out node gets ends with
\* its deadline. (Without, it does not: the run session_bonus.)
THEOREM HelpEndsWithDeadline == TimeDecay => (SessionSpec => HelpExpires)
<1> SUFFICES ASSUME TimeDecay PROVE SessionSpec => HelpExpires
  OBVIOUS
<1> DEFINE Ends == \A l \in Loops : (turn[l].phase = "activate" /\ turn'[l].phase = "assemble") =>
              turn'[l].activated = Activation(Unexpired)
<1>1. SessionInv /\ [SessionNext]_sessionVars => [Ends]_sessionVars
  <2> SUFFICES ASSUME SessionInv, SessionNext, NEW l \in Loops,
                      turn[l].phase = "activate", turn'[l].phase = "assemble"
               PROVE  turn'[l].activated = Activation(Unexpired)
    OBVIOUS
  <2>0. turn \in [Loops -> Turn(Ids)]
    BY TypesSplit DEF SessionInv
  <2>2. PICK m \in Loops : TurnStep(m)
    BY DEF SessionNext, Maintain, Tick
  <2>3. ActivateMemory(m) /\ m = l
    BY <2>0, <2>2, MovesOneTurn
  <2>4. turn'[l].activated = Activation(deadline)
    <3> DEFINE a == Activation(deadline)
    <3>1. turn' = [turn EXCEPT ![m].phase = "assemble", ![m].activated = a]
      BY <2>3 DEF ActivateMemory
    <3> DEFINE t == [turn[m] EXCEPT !.phase = "assemble", !.activated = a]
    <3> HIDE DEF a
    <3>2. turn' = [turn EXCEPT ![m] = t] /\ t.activated = a
      BY <2>0, <3>1 DEF Turn
    <3>4. turn'[l] = t
      <4> HIDE DEF t
      <4> QED
        BY <2>0, <2>3, <3>2
    <3> QED
      BY <3>2, <3>4 DEF a
  <2> QED
    BY <2>4, ExpiredMarksIdle
<1> QED
  BY <1>1, SessionInvariant, PTL DEF SessionSpec, HelpExpires
=============================================================================
