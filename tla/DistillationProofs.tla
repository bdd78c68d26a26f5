-------------------------- MODULE DistillationProofs --------------------------
(***************************************************************************)
(* Proofs about Distillation: for any number of turns, maintenance workers  *)
(* and raw nodes, and any number of faults.                                 *)
(***************************************************************************)
EXTENDS Distillation, TLAPS

\* Nobody is a worker.
LEMMA NoOneIsNoWorker == NoOne \notin Worker
BY WorkerAssumption DEF Worker

\* A worker that leaves ends where it may read again, or for good.
LEMMA EndIsStep == \A w \in Worker : End(w) \in {"idle", "done"}
BY DEF End

\* A worker without a claim has written nothing yet.
Fresh == \A w \in Worker :
            pc[w] \notin Claimed => marked[w] = {} /\ made[w] = 0 /\ late[w] = 0

\* Types hold initially.
LEMMA TypeInit == Init => TypeOK
BY NoOneIsNoWorker, DataAssumption DEF Init, TypeOK, NoClaim, Step, Worker

\* A worker that leaves gives up its locals; unless it was the owner of the
\* claim, and the claim stays with it, the types are kept.
LEMMA TypeLeave ==
    ASSUME TypeOK, NEW w \in Worker, NEW s \in {"idle", "done"}, Leave(w, s),
           UNCHANGED store, faults' \in 0..MaxFaults,
           claim' \in [held : BOOLEAN, owner : Worker \cup {NoOne},
                       input : SUBSET Raw, expired : BOOLEAN],
           claim'.owner # NoOne =>
              claim'.held /\ claim'.owner = claim.owner /\ claim.owner # w
    PROVE  TypeOK'
<1>1. /\ pc' \in [Worker -> Step] /\ input' \in [Worker -> SUBSET Raw]
      /\ made' \in [Worker -> 0..NewNodes] /\ marked' \in [Worker -> SUBSET Raw]
      /\ late' \in [Worker -> Nat]
  BY DataAssumption DEF TypeOK, Leave, Goto, Step
<1>2. \A v \in Worker : marked'[v] \subseteq input'[v]
  BY DEF TypeOK, Leave
<1>3. claim'.owner # NoOne => pc'[claim'.owner] \in Claimed
  BY DEF TypeOK, Leave, Goto
<1> QED
  BY <1>1, <1>2, <1>3 DEF TypeOK, store

\* A worker that moves to a step of the claim's life leaves the types alone.
LEMMA TypeGoto ==
    ASSUME TypeOK, NEW w \in Worker, NEW s \in Claimed, Goto(w, s)
    PROVE  /\ pc' \in [Worker -> Step]
           /\ claim.owner # NoOne => claim.held /\ pc'[claim.owner] \in Claimed
BY DEF TypeOK, Goto, Claimed, Step

\* Types are kept by every step.
LEMMA TypeNext == TypeOK /\ Fresh /\ [Next]_vars => TypeOK'
<1> SUFFICES ASSUME TypeOK, Fresh, [Next]_vars PROVE TypeOK'
  OBVIOUS
<1>1. ASSUME NEW w \in Worker, NEW nodes \in SUBSET Raw, Read(w, nodes) PROVE TypeOK'
  <2>1. pc' \in [Worker -> Step] /\ input' \in [Worker -> SUBSET Raw]
    BY <1>1 DEF Read, Goto, TypeOK, Step
  <2>2. pc[w] \notin Claimed
    BY <1>1 DEF Read, Claimed
  <2>3. claim.owner # NoOne => claim.owner # w /\ pc'[claim.owner] \in Claimed
    BY <1>1, <2>2 DEF Read, Goto, TypeOK
  <2>4. \A v \in Worker : marked[v] \subseteq input'[v]
    BY <1>1, <2>2 DEF Read, TypeOK, Fresh
  <2> QED
    BY <1>1, <2>1, <2>3, <2>4 DEF Read, TypeOK, store
<1>2. ASSUME NEW w \in Worker, TryClaim(w) PROVE TypeOK'
  <2>1. pc' \in [Worker -> Step] /\ pc'[w] = "distilling"
    BY <1>2 DEF TryClaim, Goto, TypeOK, Step
  <2>2. claim' \in [held : BOOLEAN, owner : Worker \cup {NoOne},
                    input : SUBSET Raw, expired : BOOLEAN]
    BY <1>2 DEF TryClaim, TypeOK
  <2>3. claim'.held /\ claim'.owner = w
    BY <1>2 DEF TryClaim
  <2> QED
    BY <1>2, <2>1, <2>2, <2>3 DEF TryClaim, TypeOK, store, Claimed
<1>3. ASSUME NEW w \in Worker, Skip(w) PROVE TypeOK'
  <2>1. claim.owner # w
    BY <1>3, NoOneIsNoWorker DEF Skip, TypeOK, Claimed
  <2> QED
    BY <1>3, <2>1, TypeLeave, EndIsStep DEF Skip, TypeOK
<1>4. ASSUME NEW w \in Worker, Distill(w) PROVE TypeOK'
  BY <1>4, TypeGoto DEF Distill, TypeOK, store, Claimed
<1>5. ASSUME NEW w \in Worker, CheckBeforeCommit(w) PROVE TypeOK'
  <2>1. PICK s \in {"check", "release"} : Goto(w, s)
    BY <1>5 DEF CheckBeforeCommit
  <2> QED
    BY <1>5, <2>1, TypeGoto DEF CheckBeforeCommit, TypeOK, store, Claimed
<1>6. ASSUME NEW w \in Worker, CheckBeforeWrite(w) PROVE TypeOK'
  <2>1. PICK s \in {"write", "release"} : Goto(w, s)
    BY <1>6 DEF CheckBeforeWrite
  <2> QED
    BY <1>6, <2>1, TypeGoto DEF CheckBeforeWrite, TypeOK, store, Claimed
<1>7. ASSUME NEW w \in Worker, WriteAbstract(w) PROVE TypeOK'
  <2>1. made[w] + 1 \in 1..NewNodes /\ made' \in [Worker -> 0..NewNodes]
    BY <1>7, DataAssumption DEF WriteAbstract, TypeOK
  <2>2. abstracts' \subseteq (SUBSET Raw) \X (1..NewNodes)
    BY <1>7, <2>1 DEF WriteAbstract, TypeOK
  <2>3. late' \in [Worker -> Nat]
    BY <1>7 DEF WriteAbstract, CountLate, TypeOK
  <2> QED
    BY <1>7, <2>1, <2>2, <2>3, TypeGoto DEF WriteAbstract, TypeOK, Claimed
<1>8. ASSUME NEW w \in Worker, NEW r \in Raw, WriteLifecycle(w, r) PROVE TypeOK'
  <2>1. distilled' \subseteq Raw /\ pushedOut' \subseteq Raw
    BY <1>8 DEF WriteLifecycle, TypeOK
  <2>2. /\ marked' \in [Worker -> SUBSET Raw]
        /\ \A v \in Worker : marked'[v] \subseteq input[v]
    BY <1>8 DEF WriteLifecycle, TypeOK
  <2>3. late' \in [Worker -> Nat]
    BY <1>8 DEF WriteLifecycle, CountLate, TypeOK
  <2> QED
    BY <1>8, <2>1, <2>2, <2>3, TypeGoto DEF WriteLifecycle, TypeOK, Claimed
<1>9. ASSUME NEW w \in Worker, Release(w) PROVE TypeOK'
  <2>1. claim' \in [held : BOOLEAN, owner : Worker \cup {NoOne},
                    input : SUBSET Raw, expired : BOOLEAN]
    BY <1>9 DEF Release, NoClaim, TypeOK
  <2>2. claim'.owner # NoOne => claim'.held /\ claim'.owner = claim.owner /\ claim.owner # w
    BY <1>9 DEF Release, NoClaim, TypeOK
  <2> QED
    BY <1>9, <2>1, <2>2, TypeLeave, EndIsStep DEF Release, TypeOK
<1>10. ASSUME NEW w \in Worker, WorkFails(w) PROVE TypeOK'
  <2>1. faults' \in 0..MaxFaults
    BY <1>10, DataAssumption DEF WorkFails, Fault, TypeOK
  <2> QED
    BY <1>10, <2>1, TypeGoto DEF WorkFails, TypeOK, store, Claimed
<1>11. ASSUME NEW w \in Worker, Drop(w) PROVE TypeOK'
  <2>1. faults' \in 0..MaxFaults
    BY <1>11, DataAssumption DEF Drop, Fault, TypeOK
  <2>2. claim' \in [held : BOOLEAN, owner : Worker \cup {NoOne},
                    input : SUBSET Raw, expired : BOOLEAN]
    BY <1>11 DEF Drop, TypeOK
  <2>3. claim'.owner # NoOne => claim'.held /\ claim'.owner = claim.owner /\ claim.owner # w
    BY <1>11 DEF Drop, TypeOK
  <2>4. PICK s \in {"idle", End(w)} : Leave(w, s)
    BY <1>11 DEF Drop
  <2> QED
    BY <1>11, <2>1, <2>2, <2>3, <2>4, TypeLeave, EndIsStep DEF Drop
<1>12. CASE Expire
  <2>1. faults' \in 0..MaxFaults
    BY <1>12, DataAssumption DEF Expire, Fault, TypeOK
  <2>2. /\ claim' \in [held : BOOLEAN, owner : Worker \cup {NoOne},
                       input : SUBSET Raw, expired : BOOLEAN]
        /\ claim'.owner = claim.owner /\ claim'.held = claim.held
    BY <1>12 DEF Expire, TypeOK
  <2> QED
    BY <1>12, <2>1, <2>2 DEF Expire, TypeOK, store, work
<1>13. ASSUME NEW r \in Raw, PushOut(r) PROVE TypeOK'
  BY <1>13 DEF PushOut, TypeOK, work
<1>14. CASE UNCHANGED vars
  BY <1>14 DEF vars, store, work, TypeOK
<1>15. ASSUME NEW w \in Worker, ReadLoop(w) PROVE TypeOK'
  BY <1>1, <1>15 DEF ReadLoop
<1>16. ASSUME NEW w \in Worker, ReadBacklog(w) PROVE TypeOK'
  <2>1. PICK nodes \in SUBSET Backlog : Read(w, nodes)
    BY <1>16 DEF ReadBacklog
  <2>2. nodes \in SUBSET Raw
    BY DEF Backlog, TypeOK
  <2> QED
    BY <1>1, <2>1, <2>2
<1> QED
  BY <1>2, <1>3, <1>4, <1>5, <1>6, <1>7, <1>8, <1>9, <1>10, <1>11, <1>12, <1>13,
     <1>14, <1>15, <1>16 DEF Next, Work, Commit, Worker

\* Every step keeps workers without a claim fresh.
LEMMA FreshNext == TypeOK /\ Fresh /\ [Next]_vars => Fresh'
<1> SUFFICES ASSUME TypeOK, Fresh, [Next]_vars PROVE Fresh'
  OBVIOUS
<1>1. ASSUME NEW w \in Worker, NEW s \in {"idle", "done"}, Leave(w, s) PROVE Fresh'
  BY <1>1 DEF Leave, Goto, Fresh, TypeOK
<1>2. ASSUME NEW w \in Worker, NEW nodes, Read(w, nodes) PROVE Fresh'
  <2>1. pc[w] \notin Claimed
    BY <1>2 DEF Read, Claimed
  <2> QED
    BY <1>2, <2>1 DEF Read, Goto, Fresh, TypeOK
<1>3. ASSUME NEW w \in Worker, NEW s \in Claimed, Goto(w, s),
             \A v \in Worker \ {w} : UNCHANGED <<made[v], marked[v], late[v]>>
      PROVE  Fresh'
  BY <1>3 DEF Goto, Fresh, TypeOK
<1>4. ASSUME NEW w \in Worker, TryClaim(w) \/ Distill(w) PROVE Fresh'
  BY <1>3, <1>4 DEF TryClaim, Distill, Claimed
<1>5. ASSUME NEW w \in Worker, CheckBeforeCommit(w) PROVE Fresh'
  <2>1. PICK s \in {"check", "release"} : Goto(w, s)
    BY <1>5 DEF CheckBeforeCommit
  <2> QED
    BY <1>3, <1>5, <2>1 DEF CheckBeforeCommit, Claimed
<1>6. ASSUME NEW w \in Worker, CheckBeforeWrite(w) PROVE Fresh'
  <2>1. PICK s \in {"write", "release"} : Goto(w, s)
    BY <1>6 DEF CheckBeforeWrite
  <2> QED
    BY <1>3, <1>6, <2>1 DEF CheckBeforeWrite, Claimed
<1>7. ASSUME NEW w \in Worker, WriteAbstract(w) PROVE Fresh'
  <2>1. \A v \in Worker \ {w} : UNCHANGED <<made[v], marked[v], late[v]>>
    BY <1>7 DEF WriteAbstract, CountLate, TypeOK
  <2> QED
    BY <1>3, <1>7, <2>1 DEF WriteAbstract, Claimed
<1>8. ASSUME NEW w \in Worker, NEW r \in Raw, WriteLifecycle(w, r) PROVE Fresh'
  <2>1. \A v \in Worker \ {w} : UNCHANGED <<made[v], marked[v], late[v]>>
    BY <1>8 DEF WriteLifecycle, CountLate, TypeOK
  <2> QED
    BY <1>3, <1>8, <2>1 DEF WriteLifecycle, Claimed
<1>9. ASSUME NEW w \in Worker, Skip(w) \/ Release(w) PROVE Fresh'
  BY <1>1, <1>9, EndIsStep DEF Skip, Release
<1>10. ASSUME NEW w \in Worker, WorkFails(w) PROVE Fresh'
  BY <1>3, <1>10 DEF WorkFails, Claimed
<1>11. ASSUME NEW w \in Worker, Drop(w) PROVE Fresh'
  BY <1>1, <1>11, EndIsStep DEF Drop
<1>12. CASE Expire
  BY <1>12 DEF Expire, work, Fresh
<1>13. ASSUME NEW r \in Raw, PushOut(r) PROVE Fresh'
  BY <1>13 DEF PushOut, work, Fresh
<1>14. CASE UNCHANGED vars
  BY <1>14 DEF vars, work, Fresh
<1> QED
  BY <1>2, <1>4, <1>5, <1>6, <1>7, <1>8, <1>9, <1>10, <1>11, <1>12, <1>13, <1>14
     DEF Next, Work, Commit, Worker, ReadLoop, ReadBacklog

\* Workers are fresh initially.
LEMMA FreshInit == Init => Fresh
BY DEF Init, Fresh

\* The store, the claim and the workers are well typed: in particular the owner
\* of a claim is a worker between its claim and its release.
THEOREM TypeCorrect == Spec => []TypeOK
BY TypeInit, TypeNext, FreshInit, FreshNext, PTL DEF Spec

-------------------------------------------------------------------------------
(* What the fence gives.                                                   *)

\* Before a write there was none without the lease, and a worker that has made
\* one has lost its lease for good.
LateInv == \A w \in Worker :
    /\ late[w] \in {0, 1}
    /\ pc[w] \in {"distilling", "distilled", "write"} => late[w] = 0
    /\ pc[w] = "check" /\ late[w] = 1 => ~Current(w)

\* A write of a worker that has made none late makes at most one late, and
\* only without the lease.
LEMMA LateWrite ==
    ASSUME TypeOK, LateInv, NEW w \in Worker, pc[w] = "write", Goto(w, "check"),
           CountLate(w), UNCHANGED <<claim, input>>
    PROVE  LateInv'
<1>1. \A v \in Worker \ {w} : late'[v] = late[v] /\ pc'[v] = pc[v]
  BY DEF CountLate, Goto, TypeOK
<1>2. \A v \in Worker : Current(v)' <=> Current(v)
  BY DEF Current
<1>3. late[w] = 0
  BY DEF LateInv
<1>4. /\ pc'[w] = "check"
      /\ late'[w] = IF Current(w) THEN 0 ELSE 1
  BY <1>3 DEF CountLate, Goto, TypeOK
<1>5. /\ late'[w] \in {0, 1}
      /\ pc'[w] \in {"distilling", "distilled", "write"} => late'[w] = 0
      /\ pc'[w] = "check" /\ late'[w] = 1 => ~Current(w)'
  BY <1>2, <1>4
<1> QED
  BY <1>1, <1>2, <1>5 DEF LateInv

\* A step that moves one worker, to no step before a write unless it has made
\* no late one, and gives no other worker a lease, keeps LateInv.
LEMMA LateMove ==
    ASSUME TypeOK, LateInv, NEW w \in Worker, NEW s, Goto(w, s),
           late' = late \/ late' = [late EXCEPT ![w] = 0],
           \A v \in Worker \ {w} : Current(v)' => Current(v),
           s \in {"distilling", "distilled", "check", "write"} => late[w] = 0
    PROVE  LateInv'
<1>1. \A v \in Worker \ {w} : late'[v] = late[v] /\ pc'[v] = pc[v]
  BY DEF Goto, TypeOK
<1>2. pc'[w] = s /\ late'[w] \in {0, late[w]}
  BY DEF Goto, TypeOK
<1>3. /\ late'[w] \in {0, 1}
      /\ pc'[w] \in {"distilling", "distilled", "write"} => late'[w] = 0
      /\ pc'[w] = "check" /\ late'[w] = 1 => ~Current(w)'
  BY <1>2 DEF LateInv
<1> QED
  BY <1>1, <1>3 DEF LateInv

\* Every step keeps LateInv.
LEMMA LateNext == TypeOK /\ Fresh /\ LateInv /\ [Next]_vars => LateInv'
<1> SUFFICES ASSUME TypeOK, Fresh, LateInv, [Next]_vars PROVE LateInv'
  OBVIOUS
<1>0. UNCHANGED <<claim, input>> => \A v \in Worker : Current(v)' <=> Current(v)
  BY DEF Current
<1>1. ASSUME NEW w \in Worker, NEW nodes, Read(w, nodes) PROVE LateInv'
  <2>1. \A v \in Worker \ {w} : Current(v)' <=> Current(v)
    BY <1>1 DEF Read, Current, TypeOK
  <2> QED
    BY <1>1, <2>1, LateMove DEF Read
<1>2. ASSUME NEW w \in Worker, TryClaim(w) PROVE LateInv'
  <2>1. \A v \in Worker \ {w} : ~Current(v)'
    BY <1>2 DEF TryClaim, Current
  <2>2. late[w] = 0
    BY <1>2 DEF TryClaim, Fresh, Claimed
  <2> QED
    BY <1>2, <2>1, <2>2, LateMove DEF TryClaim
<1>3. ASSUME NEW w \in Worker, Distill(w) PROVE LateInv'
  <2>1. late[w] = 0
    BY <1>3 DEF Distill, LateInv
  <2> QED
    BY <1>0, <1>3, <2>1, LateMove DEF Distill
<1>4. ASSUME NEW w \in Worker, CheckBeforeCommit(w) PROVE LateInv'
  <2>1. late[w] = 0
    BY <1>4 DEF CheckBeforeCommit, LateInv
  <2> QED
    BY <1>0, <1>4, <2>1, LateMove DEF CheckBeforeCommit
<1>5. ASSUME NEW w \in Worker, CheckBeforeWrite(w) PROVE LateInv'
  <2>1. Current(w) => late[w] = 0
    BY <1>5 DEF CheckBeforeWrite, LateInv
  <2>2. CASE Current(w)
    BY <1>0, <1>5, <2>1, <2>2, LateMove DEF CheckBeforeWrite
  <2>3. CASE ~Current(w)
    <3>1. Goto(w, "release")
      BY <1>5, <2>3 DEF CheckBeforeWrite
    <3> QED
      BY <1>0, <1>5, <3>1, LateMove DEF CheckBeforeWrite
  <2> QED
    BY <2>2, <2>3
<1>6. ASSUME NEW w \in Worker, WriteAbstract(w) PROVE LateInv'
  BY <1>6, LateWrite DEF WriteAbstract
<1>7. ASSUME NEW w \in Worker, NEW r \in Raw, WriteLifecycle(w, r) PROVE LateInv'
  BY <1>7, LateWrite DEF WriteLifecycle
<1>8. ASSUME NEW w \in Worker, NEW s \in {"idle", "done"}, Leave(w, s),
             claim'.owner # NoOne => claim' = claim
      PROVE  LateInv'
  <2>1. \A v \in Worker \ {w} : Current(v)' => Current(v)
    BY <1>8, NoOneIsNoWorker DEF Leave, Current, TypeOK
  <2> QED
    BY <1>8, <2>1, LateMove DEF Leave
<1>9. ASSUME NEW w \in Worker, Skip(w) PROVE LateInv'
  BY <1>8, <1>9, EndIsStep DEF Skip
<1>10. ASSUME NEW w \in Worker, Release(w) PROVE LateInv'
  BY <1>8, <1>10, EndIsStep DEF Release, NoClaim
<1>11. ASSUME NEW w \in Worker, WorkFails(w) PROVE LateInv'
  BY <1>0, <1>11, LateMove DEF WorkFails
<1>12. ASSUME NEW w \in Worker, Drop(w) PROVE LateInv'
  <2>1. claim'.owner # NoOne => claim' = claim
    BY <1>12 DEF Drop, TypeOK
  <2> QED
    BY <1>8, <1>12, <2>1, EndIsStep DEF Drop
<1>13. CASE Expire
  <2>1. \A v \in Worker : ~Current(v)' /\ late'[v] = late[v] /\ pc'[v] = pc[v]
    BY <1>13 DEF Expire, Current, work, TypeOK
  <2> QED
    BY <2>1 DEF LateInv
<1>14. ASSUME NEW r \in Raw, PushOut(r) PROVE LateInv'
  BY <1>0, <1>14 DEF PushOut, work, LateInv
<1>15. CASE UNCHANGED vars
  BY <1>0, <1>15 DEF vars, work, LateInv
<1> QED
  BY <1>1, <1>2, <1>3, <1>4, <1>5, <1>6, <1>7, <1>9, <1>10, <1>11, <1>12, <1>13,
     <1>14, <1>15 DEF Next, Work, Commit, Worker, ReadLoop, ReadBacklog

\* A worker that has lost its lease makes at most one write more, whatever the
\* others do (nodes.rs looks at the fence before every write).
THEOREM AtMostOneLateWriteHolds == Spec => []AtMostOneLateWrite
<1>1. Init => LateInv
  BY DEF Init, LateInv
<1>2. LateInv => AtMostOneLateWrite
  BY DEF LateInv, AtMostOneLateWrite
<1> QED
  BY <1>1, <1>2, TypeInit, TypeNext, FreshInit, FreshNext, LateNext, PTL DEF Spec

-------------------------------------------------------------------------------
(* Knowledge before the mark.                                              *)

\* What a worker counts as made is stored, and what is marked Distilled has all
\* its knowledge.
KnowledgeInv ==
    /\ KnowledgeBeforeDistilled
    /\ \A w \in Worker : \A i \in 1..made[w] : <<input[w], i>> \in abstracts

\* Every step keeps KnowledgeInv.
LEMMA KnowledgeNext == TypeOK /\ Fresh /\ KnowledgeInv /\ [Next]_vars => KnowledgeInv'
<1> SUFFICES ASSUME TypeOK, Fresh, KnowledgeInv, [Next]_vars PROVE KnowledgeInv'
  OBVIOUS
<1>1. ASSUME UNCHANGED <<abstracts, distilled, made, input>> PROVE KnowledgeInv'
  BY <1>1 DEF KnowledgeInv, KnowledgeBeforeDistilled
<1>2. ASSUME NEW w \in Worker, UNCHANGED <<abstracts, distilled>>, made'[w] = 0,
             \A v \in Worker \ {w} : UNCHANGED <<made[v], input[v]>>
      PROVE  KnowledgeInv'
  BY <1>2 DEF KnowledgeInv, KnowledgeBeforeDistilled
<1>3. ASSUME NEW w \in Worker, NEW nodes, Read(w, nodes) PROVE KnowledgeInv'
  <2>1. made'[w] = 0
    BY <1>3 DEF Read, Fresh, Claimed
  <2>2. \A v \in Worker \ {w} : UNCHANGED <<made[v], input[v]>>
    BY <1>3 DEF Read, TypeOK
  <2> QED
    BY <1>2, <1>3, <2>1, <2>2 DEF Read, store
<1>4. ASSUME NEW w \in Worker, NEW s, Leave(w, s), UNCHANGED <<abstracts, distilled>>
      PROVE  KnowledgeInv'
  BY <1>2, <1>4 DEF Leave, TypeOK
<1>5. ASSUME NEW w \in Worker, WriteAbstract(w) PROVE KnowledgeInv'
  <2>1. made[w] \in Nat /\ made'[w] = made[w] + 1
    BY <1>5 DEF WriteAbstract, TypeOK
  <2>2. \A v \in Worker \ {w} : made'[v] = made[v]
    BY <1>5 DEF WriteAbstract, TypeOK
  <2>3. /\ abstracts \subseteq abstracts'
        /\ <<input[w], made[w] + 1>> \in abstracts'
        /\ UNCHANGED <<distilled, input>>
    BY <1>5 DEF WriteAbstract
  <2>4. KnowledgeBeforeDistilled'
    BY <2>3 DEF KnowledgeInv, KnowledgeBeforeDistilled
  <2>5. ASSUME NEW v \in Worker, NEW i \in 1..made'[v]
        PROVE  <<input'[v], i>> \in abstracts'
    <3>1. CASE v # w
      BY <2>2, <2>3, <2>5, <3>1 DEF KnowledgeInv
    <3>2. CASE v = w /\ i # made[w] + 1
      <4>1. i \in 1..made[w]
        BY <2>1, <2>5, <3>2
      <4> QED
        BY <2>3, <3>2, <4>1 DEF KnowledgeInv
    <3>3. CASE v = w /\ i = made[w] + 1
      BY <2>3, <3>3
    <3> QED
      BY <3>1, <3>2, <3>3
  <2> QED
    BY <2>4, <2>5 DEF KnowledgeInv
<1>6. ASSUME NEW w \in Worker, NEW r \in Raw, WriteLifecycle(w, r) PROVE KnowledgeInv'
  <2>1. /\ UNCHANGED <<abstracts, made, input>>
        /\ distilled' = distilled \cup {r} /\ made[w] = NewNodes /\ r \in input[w]
    BY <1>6 DEF WriteLifecycle
  <2>2. input[w] \in SUBSET Raw
    BY DEF TypeOK
  <2>3. \A i \in 1..NewNodes : <<input[w], i>> \in abstracts
    BY <2>1 DEF KnowledgeInv
  <2> QED
    BY <2>1, <2>2, <2>3 DEF KnowledgeInv, KnowledgeBeforeDistilled
<1>7. ASSUME NEW w \in Worker, Work(w) PROVE KnowledgeInv'
  <2>1. CASE TryClaim(w) \/ Distill(w) \/ CheckBeforeCommit(w) \/ CheckBeforeWrite(w)
    BY <1>1, <2>1 DEF TryClaim, Distill, CheckBeforeCommit, CheckBeforeWrite, store
  <2>2. CASE Skip(w) \/ Release(w)
    BY <1>4, <2>2 DEF Skip, Release, store
  <2> QED
    BY <1>5, <1>6, <1>7, <2>1, <2>2 DEF Work, Commit
<1>8. ASSUME NEW w \in Worker, WorkFails(w) PROVE KnowledgeInv'
  BY <1>1, <1>8 DEF WorkFails, store
<1>9. ASSUME NEW w \in Worker, Drop(w) PROVE KnowledgeInv'
  BY <1>4, <1>9 DEF Drop, store
<1>10. CASE Expire
  BY <1>1, <1>10 DEF Expire, store, work
<1>11. ASSUME NEW r \in Raw, PushOut(r) PROVE KnowledgeInv'
  BY <1>1, <1>11 DEF PushOut, work
<1>12. CASE UNCHANGED vars
  BY <1>1, <1>12 DEF vars, store, work
<1> QED
  BY <1>3, <1>7, <1>8, <1>9, <1>10, <1>11, <1>12
     DEF Next, Worker, ReadLoop, ReadBacklog

\* No raw node is marked Distilled before all the knowledge made of one input
\* that contains it is stored (nodes.rs writes the abstract nodes first).
THEOREM KnowledgeBeforeDistilledHolds == Spec => []KnowledgeBeforeDistilled
<1>1. Init => KnowledgeInv
  BY DEF Init, KnowledgeInv, KnowledgeBeforeDistilled
<1>2. KnowledgeInv => KnowledgeBeforeDistilled
  BY DEF KnowledgeInv
<1> QED
  BY <1>1, <1>2, TypeInit, TypeNext, FreshInit, FreshNext, KnowledgeNext, PTL DEF Spec

-------------------------------------------------------------------------------
(* Live leases.                                                            *)

\* A lease that has not expired stays with its worker until the worker moves:
\* no other claims it, releases it or loses it for it.
THEOREM LiveClaimKeptHolds == Spec => LiveClaimKept
<1>1. TypeOK /\ [Next]_vars
        => [\A w \in Worker : Current(w) /\ pc'[w] = pc[w] => claim'.owner = w]_vars
  <2> SUFFICES ASSUME TypeOK, [Next]_vars, NEW w \in Worker, Current(w), pc'[w] = pc[w]
               PROVE  claim'.owner = w
    OBVIOUS
  <2>1. claim.owner = w /\ claim.held /\ ~claim.expired
    BY DEF Current
  <2>2. ASSUME NEW v \in Worker, TryClaim(v) PROVE FALSE
    BY <2>1, <2>2 DEF TryClaim, Available
  <2>3. ASSUME NEW v \in Worker, Release(v) PROVE claim'.owner = w
    <3>1. v # w
      BY <2>3, EndIsStep DEF Release, Leave, Goto, TypeOK
    <3> QED
      BY <2>1, <2>3, <3>1 DEF Release
  <2>4. ASSUME NEW v \in Worker, Drop(v) PROVE claim'.owner = w
    <3>1. v # w
      BY <2>4, EndIsStep DEF Drop, Leave, Goto, TypeOK, Claimed
    <3> QED
      BY <2>1, <2>4, <3>1 DEF Drop
  <2>5. ASSUME NEW v \in Worker, Work(v), ~TryClaim(v), ~Release(v)
        PROVE  UNCHANGED claim
    BY <2>5 DEF Work, Commit, Skip, Distill, CheckBeforeCommit, CheckBeforeWrite,
                WriteAbstract, WriteLifecycle
  <2>6. ASSUME NEW v \in Worker, WorkFails(v) PROVE UNCHANGED claim
    BY <2>6 DEF WorkFails
  <2>7. ASSUME NEW v \in Worker, ReadLoop(v) \/ ReadBacklog(v) PROVE UNCHANGED claim
    BY <2>7 DEF ReadLoop, ReadBacklog, Read
  <2>8. CASE Expire
    BY <2>1, <2>8 DEF Expire
  <2>9. ASSUME NEW r \in Raw, PushOut(r) PROVE UNCHANGED claim
    BY <2>9 DEF PushOut
  <2>10. CASE UNCHANGED vars
    BY <2>1, <2>10 DEF vars
  <2> QED
    BY <2>1, <2>2, <2>3, <2>4, <2>5, <2>6, <2>7, <2>8, <2>9, <2>10 DEF Next, Worker
<1> QED
  BY <1>1, TypeCorrect, PTL DEF Spec, LiveClaimKept

===============================================================================
