------------------------------ MODULE ObjectStore ------------------------------
(***************************************************************************)
(* ObjectStore (src/storage/object_store): the file backend.  A mutation is *)
(* a journal file, then one file after the other, then the removal of the   *)
(* journal; opening the store replays a journal it finds, looks whether the *)
(* indexes cover the bodies, and rebuilds them if not.                      *)
(*                                                                         *)
(* One step writes one file: write_json stages, syncs and renames, so a     *)
(* file is there whole or not at all.  The store's lock (process mutex and  *)
(* advisory file lock) lets one operation run at a time.  Raw nodes belong  *)
(* to one session and loop; the caps of the bounded indexes are not         *)
(* reached.                                                                 *)
(***************************************************************************)
EXTENDS Integers, Sequences

CONSTANTS
    Raws,       \* raw nodes are 1..Raws, by timestamp
    Abstracts,  \* abstract nodes are the next Abstracts numbers
    KeyOf,      \* n |-> operation key; a retry has a new id and the old key
    NoNode,     \* no receipt
    MaxGivenUp  \* bound: operations given up while the store stays open

Raw == 1..Raws
Node == 1..(Raws + Abstracts)

ASSUME StoreAssumption ==
    /\ Raws \in Nat
    /\ Abstracts \in Nat
    /\ DOMAIN KeyOf = Node
    /\ \A n, m \in Node : KeyOf[n] = KeyOf[m] => (n \in Raw <=> m \in Raw)
    /\ NoNode \notin Node
    /\ MaxGivenUp \in Nat

VARIABLES
    body,      \* raw/<id>.json, abstract/<id>.json: lifecycle state or "none"
    receipt,   \* receipts/*/<digest>.json
    index,     \* the files under indexes/, as the ids they list
    derived,   \* embeddings/*/<id>.json and graph/<id>.json, as the ids
    version,   \* indexes/.index-version holds INDEX_VERSION
    journal    \* journal/current.json
VARIABLES
    pc,        \* what the holder of the lock does, "free" when there is none
    op,        \* its operation
    at,        \* the next write of the operation
    live,      \* some process has the store open
    repair     \* the call a caller owes a node that was there already; bound:
               \* one caller repairs at a time
VARIABLES
    used,      \* history: ids some commit has tried
    acked,     \* history: nodes whose persisting was reported as done
    givenUp    \* history: operations given up

disk == <<body, receipt, index, derived, version, journal>>
process == <<pc, op, at, live, repair>>
history == <<used, acked, givenUp>>
vars == <<disk, process, history>>

Key == {KeyOf[n] : n \in Node}
Life == {"fresh", "pushed", "distilled"}
Patch == {"push", "clear", "distill"}

\* "loop" stands for the per-loop file, "timeline" for the daily shards,
\* "manifest" for the embedding shards.
RawIndex == {"session", "loop", "undistilled", "pushed", "timeline"}
Index == RawIndex \cup {"manifest"}
Derived == {"embedding", "graph"}
Part == {"body", "receipt"} \cup Index \cup Derived

Nothing == [set |-> "nothing", nodes |-> <<>>]

\* After(m, l): lifecycle state of a node that was in state l once m is applied.
After(m, l) ==
    IF m.set = "commit" THEN "fresh"
    ELSE IF m.set = "distill" \/ l = "distilled" THEN "distilled"
    ELSE IF m.set = "push" THEN "pushed" ELSE "fresh"

\* Whether a raw index lists a node in state l.
Lists(part, l) ==
    /\ part = "undistilled" => l # "distilled"
    /\ part = "pushed" => l = "pushed"

-------------------------------------------------------------------------------
(* The files an operation writes, in their order. *)

\* Mutant of SyncParts: the timeline is written before the other indexes.
SyncPartsTimelineFirst == <<"timeline", "session", "loop", "undistilled", "pushed">>

\* sync_raw_indexes_unlocked
SyncParts == <<"session", "loop", "undistilled", "pushed", "timeline">>

\* apply_raw_commit_unlocked, apply_abstract_commit_unlocked,
\* apply_raw_lifecycle_unlocked (for each node), index_raw_with_session and its
\* like ("vector") and ObjectGraphRepository::index_abstract ("graph").
Parts(m) ==
    IF m.set = "commit"
    THEN IF m.nodes[1] \in Raw
         THEN <<"body", "receipt">> \o SyncParts \o <<"embedding", "manifest">>
         ELSE <<"body", "receipt", "embedding", "manifest", "graph">>
    ELSE IF m.set = "vector" THEN <<"embedding", "manifest">>
    ELSE IF m.set = "graph" THEN <<"graph">>
    ELSE <<"body">> \o SyncParts

Writes(m) == Len(m.nodes) * Len(Parts(m))
PartAt(m, i) == Parts(m)[((i - 1) % Len(Parts(m))) + 1]
NodeAt(m, i) == m.nodes[((i - 1) \div Len(Parts(m))) + 1]

\* write_json of one file of node n.
Write(part, n) ==
    /\ body' = IF part = "body" THEN [body EXCEPT ![n] = After(op, @)] ELSE body
    /\ receipt' = IF part = "receipt" THEN [receipt EXCEPT ![KeyOf[n]] = n] ELSE receipt
    /\ index' = IF part \notin Index THEN index
                ELSE IF Lists(part, body[n]) THEN [index EXCEPT ![part] = @ \cup {n}]
                ELSE [index EXCEPT ![part] = @ \ {n}]
    /\ derived' = IF part \in Derived THEN [derived EXCEPT ![part] = @ \cup {n}] ELSE derived

\* Mutant of RawReceipts: the newest node is taken first.
RawReceiptsNewestFirst == [i \in 1..Raws |-> [part |-> "receipt", node |-> Raws + 1 - i]]

\* The receipts are rewritten from the bodies, sorted by timestamp.
RawReceipts == [i \in 1..Raws |-> [part |-> "receipt", node |-> i]]

AbstractReceipts == [i \in 1..Abstracts |-> [part |-> "receipt", node |-> Raws + i]]

Whole(part) == <<[part |-> part, node |-> NoNode]>>

\* rebuild_indexes_unlocked, after the old indexes are gone.
Rebuild ==
    RawReceipts \o Whole("timeline") \o Whole("undistilled") \o Whole("pushed")
    \o Whole("session") \o Whole("loop") \o AbstractReceipts \o Whole("manifest")

Exists(n) == body[n] # "none"

\* What a rebuild writes into an index.
FromBodies(part) ==
    IF part = "manifest" THEN derived["embedding"]
    ELSE {n \in Raw : Exists(n) /\ Lists(part, body[n])}

-------------------------------------------------------------------------------
TypeOK ==
    /\ body \in [Node -> {"none"} \cup Life]
    /\ receipt \in [Key -> Node \cup {NoNode}]
    /\ index \in [Index -> SUBSET Node]
    /\ derived \in [Derived -> SUBSET Node]
    /\ version \in BOOLEAN
    /\ journal = Nothing \/ journal.set \in {"commit"} \cup Patch
    /\ pc \in {"free", "writing", "replaying", "checking", "clearing", "rebuilding"}
    /\ at \in Nat
    /\ live \in BOOLEAN
    /\ repair = Nothing \/ repair.set \in {"vector", "graph"}
    /\ used \subseteq Node /\ acked \subseteq used
    /\ givenUp \in 0..MaxGivenUp
    /\ pc \in {"writing", "replaying"} => journal = op \/ op.set \in {"vector", "graph"}
    /\ \A k \in Key : receipt[k] # NoNode => KeyOf[receipt[k]] = k /\ Exists(receipt[k])

\* A store that is new, or was written by a version with another index layout:
\* its bodies, receipts, embeddings and graph are whole, its indexes are gone.
Init ==
    /\ \E old \in SUBSET Node :
          /\ \A n, m \in old : KeyOf[n] = KeyOf[m] => n = m
          /\ body = [n \in Node |-> IF n \in old THEN "fresh" ELSE "none"]
          /\ receipt = [k \in Key |-> IF \E n \in old : KeyOf[n] = k
                                      THEN CHOOSE n \in old : KeyOf[n] = k ELSE NoNode]
          /\ derived = [embedding |-> old, graph |-> old \ Raw]
          /\ used = old
          /\ acked = old
    /\ index = [part \in Index |-> {}]
    /\ version = FALSE
    /\ journal = Nothing
    /\ pc = "free"
    /\ op = Nothing
    /\ at = 1
    /\ live = FALSE
    /\ repair = Nothing
    /\ givenUp = 0

-------------------------------------------------------------------------------
(* Mutations. *)

Begin(activity, m) ==
    /\ pc' = activity
    /\ op' = m
    /\ at' = 1
    /\ UNCHANGED <<live, repair>>

\* The lock is given back.
Finish ==
    /\ pc' = "free"
    /\ op' = Nothing
    /\ at' = 1

\* Mutant of Journaled: the journal is not written first.
JournaledNot(m) ==
    /\ Begin("writing", m)
    /\ UNCHANGED journal

\* write_journal_unlocked: whatever the file held is overwritten.
Journaled(m) ==
    /\ Begin("writing", m)
    /\ journal' = m

\* commit_raw, commit_abstract under a key nobody holds.  A retry comes with a
\* new id, later than the ids its key was tried with before.
Commit(n) ==
    /\ pc = "free" /\ live
    /\ n \notin used
    /\ \A m \in Node : KeyOf[m] = KeyOf[n] /\ m < n => m \in used
    /\ receipt[KeyOf[n]] = NoNode
    /\ Journaled([set |-> "commit", nodes |-> <<n>>])
    /\ used' = used \cup {n}
    /\ UNCHANGED <<body, receipt, index, derived, version, acked, givenUp>>

\* commit_raw, commit_abstract under a key that is taken return the node that
\* holds it; its caller then writes the projections again, in calls of their own.
Found(k) ==
    /\ pc = "free" /\ live
    /\ repair = Nothing
    /\ receipt[k] # NoNode
    /\ repair' = [set |-> "vector", nodes |-> <<receipt[k]>>]
    /\ UNCHANGED <<disk, pc, op, at, live, history>>

\* One such call, without a journal.
Reindex ==
    /\ pc = "free" /\ live
    /\ repair # Nothing
    /\ Begin("writing", repair)
    /\ UNCHANGED <<disk, history>>

\* update_raw_lifecycle, of nodes the caller has read.
UpdateLifecycle(nodes, p) ==
    /\ pc = "free" /\ live
    /\ \A i \in DOMAIN nodes : nodes[i] \in index["session"] /\ Exists(nodes[i])
    /\ Journaled([set |-> p, nodes |-> nodes])
    /\ UNCHANGED <<body, receipt, index, derived, version, history>>

WriteNext ==
    /\ pc \in {"writing", "replaying"}
    /\ at <= Writes(op)
    /\ Write(PartAt(op, at), NodeAt(op, at))
    /\ at' = at + 1
    /\ UNCHANGED <<version, journal, pc, op, live, repair, history>>

\* clear_journal_unlocked; the caller is told that the mutation is done.
Done ==
    /\ pc = "writing"
    /\ op = journal
    /\ at > Writes(op)
    /\ journal' = Nothing
    /\ Finish
    /\ acked' = IF op.set = "commit" THEN acked \cup {op.nodes[1]} ELSE acked
    /\ UNCHANGED <<body, receipt, index, derived, version, live, repair, used, givenUp>>

\* The vector call of an abstract node is followed by the graph call.
Repaired ==
    /\ pc = "writing"
    /\ op = repair
    /\ at > Writes(op)
    /\ LET n == op.nodes[1]
           more == op.set = "vector" /\ n \notin Raw IN
          /\ repair' = IF more THEN [set |-> "graph", nodes |-> <<n>>] ELSE Nothing
          /\ acked' = IF more THEN acked ELSE acked \cup {n}
    /\ Finish
    /\ UNCHANGED <<disk, live, used, givenUp>>

-------------------------------------------------------------------------------
(* open_async.  Every run opens the store anew, so others may have it open. *)

\* Mutant of Open: the indexes are looked at and the journal is not.
OpenUnreplayed ==
    /\ pc = "free"
    /\ Begin("checking", Nothing)
    /\ UNCHANGED <<disk, history>>

Open ==
    /\ pc = "free"
    /\ IF journal = Nothing THEN Begin("checking", Nothing) ELSE Begin("replaying", journal)
    /\ UNCHANGED <<disk, history>>

\* Mutant of Replayed: the journal is thrown away after its first write.
ReplayedOnce ==
    /\ pc = "replaying"
    /\ at > 1
    /\ journal' = Nothing
    /\ Begin("checking", Nothing)
    /\ UNCHANGED <<body, receipt, index, derived, version, history>>

\* replay_journal_unlocked ends by clearing the journal.
Replayed ==
    /\ pc = "replaying"
    /\ at > Writes(op)
    /\ journal' = Nothing
    /\ Begin("checking", Nothing)
    /\ UNCHANGED <<body, receipt, index, derived, version, history>>

\* The version marker, indexes_are_complete, embedding_indexes_are_complete.
Complete ==
    /\ version
    /\ \A n \in Raw : Exists(n) => n \in index["timeline"]
    /\ derived["embedding"] \subseteq index["manifest"]

Trust ==
    /\ pc = "checking"
    /\ Complete
    /\ Finish
    /\ live' = TRUE
    /\ UNCHANGED <<disk, repair, history>>

Distrust ==
    /\ pc = "checking"
    /\ ~Complete
    /\ Begin("clearing", Nothing)
    /\ UNCHANGED <<disk, history>>

\* remove_dir_all takes the files one by one, in no order of ours.
Clear(part) ==
    /\ pc = "clearing"
    /\ index[part] # {}
    /\ index' = [index EXCEPT ![part] = {}]
    /\ UNCHANGED <<body, receipt, derived, version, journal, process, history>>

ClearVersion ==
    /\ pc = "clearing"
    /\ version
    /\ version' = FALSE
    /\ UNCHANGED <<body, receipt, index, derived, journal, process, history>>

Cleared ==
    /\ pc = "clearing"
    /\ ~version
    /\ \A part \in Index : index[part] = {}
    /\ Begin("rebuilding", Nothing)
    /\ UNCHANGED <<disk, history>>

\* One file of the rebuild.
RebuildNext ==
    /\ pc = "rebuilding"
    /\ at <= Len(Rebuild)
    /\ LET w == Rebuild[at] IN
          /\ receipt' = IF w.part = "receipt" /\ Exists(w.node)
                        THEN [receipt EXCEPT ![KeyOf[w.node]] = w.node] ELSE receipt
          /\ index' = IF w.part \in Index
                      THEN [index EXCEPT ![w.part] = FromBodies(w.part)] ELSE index
    /\ at' = at + 1
    /\ UNCHANGED <<body, derived, version, journal, pc, op, live, repair, history>>

\* write_index_version, last of all.
Rebuilt ==
    /\ pc = "rebuilding"
    /\ at > Len(Rebuild)
    /\ version' = TRUE
    /\ Finish
    /\ live' = TRUE
    /\ UNCHANGED <<body, receipt, index, derived, journal, repair, history>>

-------------------------------------------------------------------------------
(* Faults. *)

\* Every process that has the store open dies.
Crash ==
    /\ live \/ pc # "free"
    /\ Finish
    /\ live' = FALSE
    /\ repair' = Nothing
    /\ UNCHANGED <<disk, history>>

\* The operation's future is dropped (a node's timeout, a cancelled turn), one
\* of its file operations fails, or its process dies while another has the
\* store open: the lock is free and the journal stays.  So does a call that
\* is owed: another caller, or a retry, may still make it.
GiveUp ==
    /\ givenUp < MaxGivenUp
    /\ pc # "free"
    /\ Finish
    /\ givenUp' = givenUp + 1
    /\ UNCHANGED <<disk, live, repair, used, acked>>

-------------------------------------------------------------------------------
\* The nodes of one lifecycle update, in their order; distillation marks one at
\* a time.  Bound: at most two.
Batches(p) ==
    {<<n>> : n \in Raw}
    \cup (IF p = "distill" THEN {} ELSE {q \in Raw \X Raw : q[1] < q[2]})

Next ==
    \/ \E n \in Node : Commit(n)
    \/ \E k \in Key : Found(k)
    \/ Reindex
    \/ \E p \in Patch : \E nodes \in Batches(p) : UpdateLifecycle(nodes, p)
    \/ WriteNext
    \/ Done
    \/ Repaired
    \/ Open
    \/ Replayed
    \/ Trust
    \/ Distrust
    \/ \E part \in Index : Clear(part)
    \/ ClearVersion
    \/ Cleared
    \/ RebuildNext
    \/ Rebuilt
    \/ Crash
    \/ GiveUp

Spec == Init /\ [][Next]_vars

-------------------------------------------------------------------------------
(* Properties. *)

InJournal(n) == \E i \in DOMAIN journal.nodes : journal.nodes[i] = n

\* What the store holds once the journal is replayed.
Contents == [n \in Node |-> IF InJournal(n) THEN After(journal, body[n]) ELSE body[n]]
Holders == [k \in Key |->
    IF journal.set = "commit" /\ KeyOf[journal.nodes[1]] = k THEN journal.nodes[1]
    ELSE receipt[k]]

A == INSTANCE AtomicStore WITH nodes <- Contents, canonical <- Holders, void <- givenUp > 0

\* README.md "Object storage": a mutation is one, whatever its files, and the
\* process may die between any two of them.  The store implements the atomic
\* one until an operation is given up while the store stays open.
Atomic == A!Spec

\* As long as no operation was given up, the indexes of a store at rest list
\* exactly the bodies that belong into them, after any crash of a mutation, of
\* a replay or of a rebuild.
IndexesExact ==
    pc = "free" /\ live /\ givenUp = 0 =>
        /\ journal = Nothing
        /\ \A part \in Index : index[part] = FromBodies(part)
        /\ derived["embedding"] = {n \in Node : Exists(n)}

\* An open has succeeded.
Opened == pc \in {"checking", "rebuilding"} /\ pc' = "free" /\ live' /\ givenUp' = givenUp

\* What was reported as persisted is found again through every index after an
\* open, even if operations were given up before: a body the timeline lists is
\* in the indexes written before it, and a repair restores the embedding.
PersistedIsFound ==
    [][Opened => \A n \in acked :
          /\ n \in Raw => \A part \in {"session", "loop", "timeline"} : n \in index'[part]
          /\ n \in derived'["embedding"] /\ n \in index'["manifest"]
          /\ n \notin Raw => n \in derived'["graph"]]_vars

\* The first node reported as persisted under an operation key keeps the key: a
\* body that an abandoned commit left under it does not take it at a rebuild.
FirstWriterWins ==
    [][Opened => \A n \in acked : receipt'[KeyOf[n]] = n]_vars

\* store.rs (sync_raw_indexes_unlocked): if a node is in the timeline, every
\* secondary index for it was already written, so an open that trusts the
\* timeline leaves no node out of the backlog it belongs to.
BacklogListsPushedOut ==
    [][Opened => \A n \in Raw : body'[n] = "pushed" => n \in index'["pushed"]]_vars
===============================================================================
