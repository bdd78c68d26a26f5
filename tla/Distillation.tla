----------------------------- MODULE Distillation -----------------------------
(***************************************************************************)
(* Distillation (distill_claimed_raw_nodes in src/engine/nodes.rs, its two  *)
(* callers, and the claim operations of the NodeRepository): workers turn   *)
(* the raw nodes of ONE loop into abstract nodes.  The turn's own last node *)
(* and any number of maintenance passes run at the same time; a leased     *)
(* claim on the loop, read again before every write, is all that orders     *)
(* them.                                                                    *)
(*                                                                         *)
(* Every repository call is one step.  The raw nodes are those of a loop    *)
(* whose turn has reached its end; other turns of the session push them out *)
(* of the context window.                                                   *)
(***************************************************************************)
EXTENDS Integers, FiniteSets

CONSTANTS
    TurnWorker,         \* workers running DistillCurrentLoopNode
    MaintenanceWorker,  \* workers running run_maintenance_pass
    Raw,                \* the loop's raw nodes, numbered by timestamp
    Batch,              \* most raw nodes of the loop in one pass's backlog
    NewNodes,           \* abstract nodes the distiller makes of one input
    NoOne,              \* no lease, or a lease whose worker is gone
    MaxFaults           \* bound: errors, drops, and leases outlived

ASSUME WorkerAssumption ==
    /\ TurnWorker \cap MaintenanceWorker = {}
    /\ NoOne \notin TurnWorker \cup MaintenanceWorker
ASSUME DataAssumption ==
    /\ Raw \subseteq Nat
    /\ Batch \in Nat \ {0}
    /\ NewNodes \in Nat
    /\ MaxFaults \in Nat

VARIABLES
    distilled,   \* raw nodes in DistillationState::Distilled
    pushedOut,   \* raw nodes with was_pushed_out_of_session
    abstracts,   \* abstract nodes stored, by operation key: <<input, index>>
    claim,       \* the claim stored for the loop
    pc,          \* where each worker is (see Step)
    input,       \* the raw nodes each worker has read
    made,        \* how many of its abstract nodes each worker has stored
    marked,      \* the raw nodes each worker has marked Distilled
    late,        \* history: writes of the current claim made without it
    faults       \* history: faults so far

work == <<pc, input, made, marked, late>>
store == <<distilled, pushedOut, abstracts>>
vars == <<store, claim, work, faults>>

Worker == TurnWorker \cup MaintenanceWorker

\* "read": the snapshot is taken; "distilling": the claim is held;
\* "distilled": the output is validated; "check" and "write": before the fence
\* is read for the next write, and after; "release": the writes are over.
Step == {"idle", "read", "distilling", "distilled", "check", "write", "release", "done"}
Claimed == {"distilling", "distilled", "check", "write", "release"}

NoClaim == [held |-> FALSE, owner |-> NoOne, input |-> {}, expired |-> FALSE]

TypeOK ==
    /\ distilled \subseteq Raw
    /\ pushedOut \subseteq Raw
    /\ abstracts \subseteq (SUBSET Raw) \X (1..NewNodes)
    /\ claim \in [held : BOOLEAN, owner : Worker \cup {NoOne},
                  input : SUBSET Raw, expired : BOOLEAN]
    /\ pc \in [Worker -> Step]
    /\ input \in [Worker -> SUBSET Raw]
    /\ made \in [Worker -> 0..NewNodes]
    /\ marked \in [Worker -> SUBSET Raw]
    /\ late \in [Worker -> Nat]
    /\ faults \in 0..MaxFaults
    /\ \A w \in Worker : marked[w] \subseteq input[w]
    /\ claim.owner # NoOne => claim.held /\ pc[claim.owner] \in Claimed

Init ==
    /\ distilled = {}
    /\ pushedOut = {}
    /\ abstracts = {}
    /\ claim = NoClaim
    /\ pc = [w \in Worker |-> "idle"]
    /\ input = [w \in Worker |-> {}]
    /\ made = [w \in Worker |-> 0]
    /\ marked = [w \in Worker |-> {}]
    /\ late = [w \in Worker |-> 0]
    /\ faults = 0

-------------------------------------------------------------------------------
(* The claim, as the repositories keep it. *)

\* distillation_claim_is_current
Current(w) ==
    /\ claim.held
    /\ claim.owner = w
    /\ claim.input = input[w]
    /\ ~claim.expired

\* Mutant of Available: expiry is ignored.
AvailableWhenReleased == ~claim.held

\* try_claim_distillation grants a claim when there is none or it has expired.
Available == ~claim.held \/ claim.expired

Goto(w, s) == pc' = [pc EXCEPT ![w] = s]

\* The worker's locals go with it.  A turn distills its loop once; a pass is
\* followed by another.
Leave(w, s) ==
    /\ Goto(w, s)
    /\ input' = [input EXCEPT ![w] = {}]
    /\ made' = [made EXCEPT ![w] = 0]
    /\ marked' = [marked EXCEPT ![w] = {}]
    /\ late' = [late EXCEPT ![w] = 0]

End(w) == IF w \in TurnWorker THEN "done" ELSE "idle"

Fault == faults < MaxFaults /\ faults' = faults + 1

-------------------------------------------------------------------------------
(* A worker, in the order of the code. *)

Read(w, nodes) ==
    /\ pc[w] = "idle"
    /\ nodes # {}
    /\ Goto(w, "read")
    /\ input' = [input EXCEPT ![w] = nodes]
    /\ UNCHANGED <<store, claim, made, marked, late, faults>>

\* DistillCurrentLoopNode reads every raw node of its loop.
ReadLoop(w) == Read(w, Raw)

Backlog == pushedOut \ distilled

\* undistilled_raw: the oldest nodes of the backlog; the passes' limit may be
\* used up by other loops, and the rest waits for a later pass.
ReadBacklog(w) ==
    \E nodes \in SUBSET Backlog :
        /\ Cardinality(nodes) <= Batch
        /\ \A r \in nodes, q \in Backlog \ nodes : r < q
        /\ Read(w, nodes)

TryClaim(w) ==
    /\ pc[w] = "read"
    /\ Available
    /\ claim' = [held |-> TRUE, owner |-> w, input |-> input[w], expired |-> FALSE]
    /\ Goto(w, "distilling")
    /\ UNCHANGED <<store, input, made, marked, late, faults>>

\* The claim is refused: Ok(None), the loop is left to its holder.
Skip(w) ==
    /\ pc[w] = "read"
    /\ ~Available
    /\ Leave(w, End(w))
    /\ UNCHANGED <<store, claim, faults>>

\* The distiller answers in time and its output stays within the input.
Distill(w) ==
    /\ pc[w] = "distilling"
    /\ Goto(w, "distilled")
    /\ UNCHANGED <<store, claim, input, made, marked, late, faults>>

Unwritten(w) == made[w] < NewNodes \/ marked[w] # input[w]

\* The first look at the fence, before anything is written.
CheckBeforeCommit(w) ==
    /\ pc[w] = "distilled"
    /\ Goto(w, IF Current(w) THEN "check" ELSE "release")
    /\ UNCHANGED <<store, claim, input, made, marked, late, faults>>

\* Mutant of CheckBeforeWrite: once looked at, the fence is trusted.
CheckOnce(w) ==
    /\ pc[w] = "check"
    /\ Goto(w, IF ~Unwritten(w) THEN "release" ELSE "write")
    /\ UNCHANGED <<store, claim, input, made, marked, late, faults>>

\* The look at the fence before each write.
CheckBeforeWrite(w) ==
    /\ pc[w] = "check"
    /\ Goto(w, IF ~Unwritten(w) \/ ~Current(w) THEN "release" ELSE "write")
    /\ UNCHANGED <<store, claim, input, made, marked, late, faults>>

CountLate(w) == late' = [late EXCEPT ![w] = IF Current(w) THEN @ ELSE @ + 1]

\* persist_abstract_node: embeds the node, then inserts it unless its operation
\* key is taken.
WriteAbstract(w) ==
    /\ pc[w] = "write"
    /\ made[w] < NewNodes
    /\ abstracts' = abstracts \cup {<<input[w], made[w] + 1>>}
    /\ made' = [made EXCEPT ![w] = @ + 1]
    /\ CountLate(w)
    /\ Goto(w, "check")
    /\ UNCHANGED <<distilled, pushedOut, claim, input, marked, faults>>

\* Mutant of WriteLifecycle: the updates do not wait for the abstract nodes.
WriteLifecycleEarly(w, r) ==
    /\ pc[w] = "write"
    /\ r \in input[w] \ marked[w]
    /\ distilled' = distilled \cup {r}
    /\ pushedOut' = pushedOut \ {r}
    /\ marked' = [marked EXCEPT ![w] = @ \cup {r}]
    /\ CountLate(w)
    /\ Goto(w, "check")
    /\ UNCHANGED <<abstracts, claim, input, made, faults>>

\* update_raw_lifecycle with the distiller's patch: Distilled, overflow cleared.
WriteLifecycle(w, r) ==
    /\ pc[w] = "write"
    /\ made[w] = NewNodes
    /\ r \in input[w] \ marked[w]
    /\ distilled' = distilled \cup {r}
    /\ pushedOut' = pushedOut \ {r}
    /\ marked' = [marked EXCEPT ![w] = @ \cup {r}]
    /\ CountLate(w)
    /\ Goto(w, "check")
    /\ UNCHANGED <<abstracts, claim, input, made, faults>>

\* Mutant of Release: the lease id is not compared.
ReleaseAny(w) ==
    /\ pc[w] = "release"
    /\ claim' = NoClaim
    /\ Leave(w, End(w))
    /\ UNCHANGED <<store, faults>>

\* Mutant of Release: the claim is left behind.
ReleaseNothing(w) ==
    /\ pc[w] = "release"
    /\ Leave(w, End(w))
    /\ UNCHANGED <<store, claim, faults>>

\* release_distillation_claim removes the claim only if its lease is this one.
Release(w) ==
    /\ pc[w] = "release"
    /\ claim' = IF claim.owner = w THEN NoClaim ELSE claim
    /\ Leave(w, End(w))
    /\ UNCHANGED <<store, faults>>

-------------------------------------------------------------------------------
(* Faults and the rest of the system. *)

\* The distiller fails or times out, its output is refused, or a repository
\* call fails: the claim is still released.
WorkFails(w) ==
    /\ Fault
    /\ pc[w] \in {"distilling", "distilled", "check", "write"}
    /\ Goto(w, "release")
    /\ UNCHANGED <<store, claim, input, made, marked, late>>

\* The worker's future is dropped (the turn's node timeout or cancellation, a
\* caller that gives up), its process dies, or the release itself fails: the
\* claim stays.  After a crash the turn may be recovered and distill again.
Drop(w) ==
    /\ Fault
    /\ pc[w] \in Claimed \cup {"read"}
    /\ claim' = IF claim.owner = w THEN [claim EXCEPT !.owner = NoOne] ELSE claim
    /\ \E s \in {"idle", End(w)} : Leave(w, s)
    /\ UNCHANGED store

\* expires_at passes.  A turn's node is cut off by distillation_timeout, well
\* before the lease of twice that and five seconds; a pass only bounds the
\* distiller's answer, and may still be writing.
Expire ==
    /\ claim.held
    /\ ~claim.expired
    /\ claim.owner \notin TurnWorker
    /\ IF claim.owner = NoOne THEN UNCHANGED faults ELSE Fault
    /\ claim' = [claim EXCEPT !.expired = TRUE]
    /\ UNCHANGED <<store, work>>

\* MarkSessionOverflowNode of another turn of the session.
PushOut(r) ==
    /\ r \notin distilled \cup pushedOut
    /\ pushedOut' = pushedOut \cup {r}
    /\ UNCHANGED <<distilled, abstracts, claim, work, faults>>

Commit(w) ==
    \/ CheckBeforeCommit(w)
    \/ CheckBeforeWrite(w)
    \/ WriteAbstract(w)
    \/ \E r \in Raw : WriteLifecycle(w, r)

Work(w) ==
    \/ TryClaim(w)
    \/ Skip(w)
    \/ Distill(w)
    \/ Commit(w)
    \/ Release(w)

Pass(w) == ReadBacklog(w) \/ Work(w)

Next ==
    \/ \E w \in TurnWorker : ReadLoop(w)
    \/ \E w \in MaintenanceWorker : ReadBacklog(w)
    \/ \E w \in Worker : Work(w) \/ WorkFails(w) \/ Drop(w)
    \/ Expire
    \/ \E r \in Raw : PushOut(r)

Spec == Init /\ [][Next]_vars

\* The runtime keeps polling the workers, the embedding product keeps calling
\* run_maintenance_pass, and time passes.  Faults are bounded by MaxFaults.
FairSpec ==
    /\ Spec
    /\ \A w \in TurnWorker : WF_vars(Work(w))
    /\ \A w \in MaintenanceWorker : WF_vars(Pass(w))
    /\ WF_vars(claim.owner = NoOne /\ Expire)

-------------------------------------------------------------------------------
(* Properties. *)

\* What the fence really gives: a worker that has lost its lease finishes the
\* one write it had checked for and no other, whoever holds the loop by then.
AtMostOneLateWrite == \A w \in Worker : late[w] <= 1

\* A raw node is only ever taken off the backlog when all the knowledge made
\* of one input that contains it is stored: whatever fails half-way, nothing
\* is marked Distilled and lost.
KnowledgeBeforeDistilled ==
    \A r \in distilled : \E nodes \in SUBSET Raw :
        r \in nodes /\ \A i \in 1..NewNodes : <<nodes, i>> \in abstracts

\* A lease that has not expired is not taken from a worker by the end of
\* another: not by a late release, a refused claim, an error or a drop.
LiveClaimKept ==
    [][\A w \in Worker :
          Current(w) /\ pc'[w] = pc[w] => claim'.owner = w]_vars

\* A raw node that was pushed out of the window is distilled in the end: no
\* claim is left for ever on its loop, and no pass starves.
BacklogDrained == \A r \in Raw : r \in pushedOut ~> r \in distilled

\* README.md (distillation) and architecture.md 13: a worker whose lease has
\* expired or been lost cannot commit its output.
LostLeaseCannotCommit == \A w \in Worker : late[w] = 0
===============================================================================
