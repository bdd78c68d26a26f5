------------------------------ MODULE NodeReads ------------------------------
(* The two implementations of NodeRepository and VectorIndex for raw nodes:
   the in-memory one the tests run on, and the object store, whose reads go
   through capped, sorted index files and timeline shards of one day each.
   Both are driven by the same calls; the properties compare their answers.
   Node ids are random (UUID v4), so their order says nothing of time, and
   timestamps are read before the insertion, so they may arrive out of order
   or equal. Writes are atomic here: ObjectStore takes them apart.            *)
EXTENDS Integers, Sequences, FiniteSets, SequencesExt

CONSTANTS RawIds,        \* raw node ids, ordered as the UUIDs are
          Sessions,
          Loops,
          SessionOf,     \* the session of a loop
          Times,         \* timestamps
          DayLength,     \* timestamps of one UTC day
          Keys,          \* operation keys
          NoKey,         \* operation_key: None
          SessionCap,    \* MAX_SESSION_INDEX_ENTRIES
          LoopCap,       \* MAX_LOOP_INDEX_ENTRIES
          ShardCap,      \* MAX_VECTOR_SHARD_ENTRIES
          Similarity,    \* cosine_similarity of a node with the one query asked
          MaxTouches     \* bound: lifecycle updates, repairs and rebuilds

Everywhere == "global"     \* the scope of a read without a session

ASSUME ReadsAssumption ==
    /\ RawIds \subseteq Nat
    /\ Times \subseteq Nat /\ 0 \notin Times /\ IsFiniteSet(Times)
    /\ DayLength \in Nat \ {0}
    /\ SessionOf \in [Loops -> Sessions]
    /\ Everywhere \notin Sessions /\ NoKey \notin Keys
    /\ {SessionCap, LoopCap, ShardCap, MaxTouches} \subseteq Nat
    /\ SessionCap < LoopCap
    /\ Similarity \in [RawIds -> Nat]

VARIABLES mem,       \* InMemoryNodeRepository and InMemoryVectorIndex
          obj,       \* ObjectNodeRepository and ObjectVectorIndex
          touches

readVars == <<mem, obj, touches>>

Scopes == Sessions \cup {Everywhere}
Day(t) == t \div DayLength
Days == {Day(t) : t \in Times}

----------------------------------------------------------------------------
(* Orders. Every index file is written sorted, so a set of ids stands for it. *)

\* The elements by rank, the number of elements that come before one.
ByRank(rank) ==
    [k \in 1..Cardinality(DOMAIN rank) |-> CHOOSE i \in DOMAIN rank : rank[i] = k - 1]

\* The elements of a sequence at these positions, in its order.
KeptAt(ids, here) ==
    LET position == ByRank([p \in here |-> Cardinality({q \in here : q < p})])
    IN  [k \in DOMAIN position |-> ids[position[k]]]

\* sort_raw_index_entries: by timestamp, then by id.
Before(raw, i, j) == \/ raw[i].ts < raw[j].ts
                     \/ raw[i].ts = raw[j].ts /\ i < j

InTime(raw, ids) == ByRank([i \in ids |-> Cardinality({j \in ids : Before(raw, j, i)})])

\* The timeline comparator: timestamp descending, then id ascending.
Ahead(raw, i, j) == \/ raw[i].ts > raw[j].ts
                    \/ raw[i].ts = raw[j].ts /\ i < j

NewestFirst(raw, ids) == ByRank([i \in ids |-> Cardinality({j \in ids : Ahead(raw, j, i)})])

\* sort_by_key of a Vec: stable, so equal timestamps keep their order.
StableByTime(raw, ids) ==
    LET Sooner(p, q) == \/ raw[ids[p]].ts < raw[ids[q]].ts
                        \/ raw[ids[p]].ts = raw[ids[q]].ts /\ p < q
        position == ByRank([p \in DOMAIN ids |-> Cardinality({q \in DOMAIN ids : Sooner(q, p)})])
    IN  [k \in DOMAIN ids |-> ids[position[k]]]

First(ids, n) == SubSeq(ids, 1, IF n < Len(ids) THEN n ELSE Len(ids))
Newest(ids, n) == SubSeq(ids, IF n < Len(ids) THEN Len(ids) - n + 1 ELSE 1, Len(ids))

\* Search order: score descending, then id.
Closer(i, j) == \/ Similarity[i] > Similarity[j]
                \/ Similarity[i] = Similarity[j] /\ i < j

ByScore(ids) == ByRank([i \in ids |-> Cardinality({j \in ids : Closer(j, i)})])

----------------------------------------------------------------------------
Put(f, k, v) == [x \in DOMAIN f \cup {k} |-> IF x = k THEN v ELSE f[x]]
Session(node) == SessionOf[node.loop]
Of(raw, scope) == {i \in DOMAIN raw : scope = Everywhere \/ Session(raw[i]) = scope}
Undistilled(raw) == {i \in DOMAIN raw : ~raw[i].distilled}

\* RawLifecyclePatch: each field is replaced or left.
Patches == [distilled : {TRUE}, pushed : {TRUE, FALSE}] \cup
           {[distilled |-> FALSE, pushed |-> TRUE]}
Patched(node, p) == [node EXCEPT !.distilled = @ \/ p.distilled, !.pushed = p.pushed]

(* The in-memory repository: bodies in a map, ids in insertion order.        *)

MemInsert(m, id, node) ==
    [m EXCEPT !.raw = Put(@, id, node),
              !.session[Session(node)] = Append(@, id),
              !.loop[node.loop] = Append(@, id),
              !.ops = IF node.key = NoKey THEN @ ELSE Put(@, node.key, id)]

MemHolds(m, key) == key \in DOMAIN m.ops /\ m.ops[key] \in DOMAIN m.raw
MemInsertOnce(m, id, node) == IF MemHolds(m, node.key) THEN m ELSE MemInsert(m, id, node)

\* index_raw_with_session, called by the engine after either answer.
MemIndex(m, id) == [m EXCEPT !.emb = Put(@, id, Session(m.raw[id]))]

MemUpdate(m, ids, p) ==
    [m EXCEPT !.raw = [i \in DOMAIN @ |-> IF i \in ids THEN Patched(@[i], p) ELSE @[i]]]

MemSessionRaw(scope) == StableByTime(mem.raw, mem.session[scope])
MemRecent(scope, n) == Newest(MemSessionRaw(scope), n)
MemLoop(l) == StableByTime(mem.raw, mem.loop[l])
MemLoopBounded(l, n) == StableByTime(mem.raw, First(mem.loop[l], n))
MemTimeline(scope, from, to, n) ==
    First(NewestFirst(mem.raw, {i \in Of(mem.raw, scope) : mem.raw[i].ts \in from..to}), n)
MemBacklog(onlyPushed, n) ==
    First(InTime(mem.raw, {i \in Undistilled(mem.raw) : onlyPushed => mem.raw[i].pushed}), n)
MemSearch(s, k) == First(ByScore({i \in DOMAIN mem.emb : mem.emb[i] = s}), k)

(* The object store: bodies, and index files derived from them.              *)

\* Mutant of Capped: the drain takes the wrong end.
CappedOldest(raw, ids, cap) == {i \in ids : Cardinality({j \in ids : Before(raw, j, i)}) < cap}

\* The newest entries of a sorted, bounded index file.
Capped(raw, ids, cap) ==
    {i \in ids : Cardinality({j \in ids : Before(raw, i, j)}) < cap}

\* upsert_bounded_raw_index_entry_unlocked
UpsertBounded(raw, ids, id, cap) == Capped(raw, ids \cup {id}, cap)

\* upsert_raw_index_entry_unlocked or remove_raw_index_entry_unlocked
Listed(ids, id, belongs) == IF belongs THEN ids \cup {id} ELSE ids \ {id}

SyncRawIndexes(o, id) ==
    LET node == o.raw[id]
        s == Session(node)
    IN  [o EXCEPT !.session[s] = UpsertBounded(o.raw, @, id, SessionCap),
                  !.loop[node.loop] = UpsertBounded(o.raw, @, id, LoopCap),
                  !.undistilled = Listed(@, id, ~node.distilled),
                  !.pushed = Listed(@, id, ~node.distilled /\ node.pushed),
                  !.timeline[Day(node.ts)] = @ \cup {id}]

\* Mutant of UpsertManifest: an id that is listed already is listed again.
UpsertManifestAgain(ids, id) == Newest(Append(ids, id), ShardCap)

\* upsert_manifest_id_unlocked: the id goes to the end, the oldest leave.
UpsertManifest(ids, id) ==
    Newest(Append(KeptAt(ids, {k \in DOMAIN ids : ids[k] # id}), id), ShardCap)

\* Mutant of ObjIndex: the bodies of evicted ids stay.
ObjIndexKeepsBodies(o, id, stamp) ==
    [o EXCEPT !.shard[Session(o.raw[id])] = UpsertManifest(@, id), !.emb = Put(@, id, stamp)]

\* The embedding body and its manifest; the body of an evicted id is removed.
ObjIndex(o, id, stamp) ==
    LET s == Session(o.raw[id])
        kept == UpsertManifest(o.shard[s], id)
        evicted == (ToSet(o.shard[s]) \cup {id}) \ ToSet(kept)
        bodies == Put(o.emb, id, stamp)
    IN  [o EXCEPT !.shard[s] = kept,
                  !.emb = [i \in DOMAIN bodies \ evicted |-> bodies[i]]]

ObjCommit(o, id, node) ==
    LET written == [o EXCEPT !.raw = Put(@, id, node),
                             !.ops = IF node.key = NoKey THEN @ ELSE Put(@, node.key, id)]
    IN  ObjIndex(SyncRawIndexes(written, id), id, node.ts)

ObjHolds(o, key) == key \in DOMAIN o.ops /\ o.ops[key] \in DOMAIN o.raw

\* apply_raw_lifecycle_unlocked: body, then indexes, for one id after the other.
ObjUpdate(o, ids, p) ==
    LET order == SetToSeq(ids \cap DOMAIN o.raw)
        done[k \in 0..Len(order)] ==
            IF k = 0 THEN o
            ELSE SyncRawIndexes([done[k - 1] EXCEPT !.raw[order[k]] = Patched(@, p)], order[k])
    IN  done[Len(order)]

RebuiltShard(o, s) ==
    LET ids == {i \in DOMAIN o.emb : Session(o.raw[i]) = s}
        Sooner(i, j) == \/ o.emb[i] < o.emb[j]
                        \/ o.emb[i] = o.emb[j] /\ i < j
    IN  ByRank([i \in ids |-> Cardinality({j \in ids : Sooner(j, i)})])

\* rebuild_indexes_unlocked: everything under indexes/ again from the bodies.
Rebuilt(o) ==
    [o EXCEPT
       !.session = [s \in Sessions |-> Capped(o.raw, Of(o.raw, s), SessionCap)],
       !.loop = [l \in Loops |-> Capped(o.raw, {i \in DOMAIN o.raw : o.raw[i].loop = l}, LoopCap)],
       !.undistilled = Undistilled(o.raw),
       !.pushed = {i \in Undistilled(o.raw) : o.raw[i].pushed},
       !.timeline = [d \in Days |-> {i \in DOMAIN o.raw : Day(o.raw[i].ts) = d}],
       !.ops = [k \in {o.raw[i].key : i \in DOMAIN o.raw} \ {NoKey} |->
                   CHOOSE i \in DOMAIN o.raw : o.raw[i].key = k],
       !.shard = [s \in Sessions |-> Newest(RebuiltShard(o, s), ShardCap)],
       !.emb = [i \in UNION {ToSet(Newest(RebuiltShard(o, s), ShardCap)) : s \in Sessions}
                   |-> o.emb[i]]]

ObjSessionRaw(s) == InTime(obj.raw, obj.session[s])
ObjRecent(s, n) == Newest(ObjSessionRaw(s), n)
ObjLoop(l) == InTime(obj.raw, obj.loop[l])
ObjLoopBounded(l, n) == First(ObjLoop(l), n)
ObjBacklog(onlyPushed, n) ==
    First(InTime(obj.raw, IF onlyPushed THEN obj.pushed ELSE obj.undistilled), n)

\* Mutant of GlobalTimeline: entries outside the window count for the early stop.
GlobalTimelineUnfiltered(from, to, n) ==
    LET Newer(d) == UNION {obj.timeline[e] : e \in {x \in Days : x > d}}
        read == {d \in Days : Cardinality(Newer(d)) < n}
        seen == UNION {obj.timeline[d] : d \in read}
    IN  First(NewestFirst(obj.raw, {i \in seen : obj.raw[i].ts \in from..to}), n)

\* The days are read newest first until there are n entries of the window.
GlobalTimeline(from, to, n) ==
    LET Window(d) == {i \in obj.timeline[d] : obj.raw[i].ts \in from..to}
        Newer(d) == UNION {Window(e) : e \in {x \in Days : x > d}}
        read == {d \in Days : Cardinality(Newer(d)) < n}
    IN  First(NewestFirst(obj.raw, UNION {Window(d) : d \in read}), n)

SessionTimeline(s, from, to, n) ==
    First(NewestFirst(obj.raw, {i \in obj.session[s] : obj.raw[i].ts \in from..to}), n)

ObjTimeline(scope, from, to, n) == IF scope = Everywhere THEN GlobalTimeline(from, to, n)
                                   ELSE SessionTimeline(scope, from, to, n)
ObjSearch(s, k) == First(ByScore({i \in ToSet(obj.shard[s]) : i \in DOMAIN obj.emb}), k)

----------------------------------------------------------------------------
EmptyMem == [raw |-> <<>>, session |-> [s \in Sessions |-> <<>>],
             loop |-> [l \in Loops |-> <<>>], ops |-> <<>>, emb |-> <<>>]
EmptyObj == [raw |-> <<>>, session |-> [s \in Sessions |-> {}],
             loop |-> [l \in Loops |-> {}], ops |-> <<>>,
             undistilled |-> {}, pushed |-> {}, timeline |-> [d \in Days |-> {}],
             emb |-> <<>>, shard |-> [s \in Sessions |-> <<>>]]

ReadsInit == mem = EmptyMem /\ obj = EmptyObj /\ touches = 0

NewNode(l, t, key) == [loop |-> l, ts |-> t, key |-> key, distilled |-> FALSE, pushed |-> FALSE]

\* Utc::now() of a repair: later than every timestamp and every earlier repair.
Now == 1 + Max(Times \cup {obj.emb[i] : i \in DOMAIN obj.emb})

\* persist_raw_node with a new id. Under a free key the object store commits
\* node and embedding at once; under a taken one, and always in memory, the
\* embedding of the node that holds the key is indexed by a call of its own.
PersistRaw(id, l, t, key) ==
    LET node == NewNode(l, t, key)
        m == MemInsertOnce(mem, id, node)
        repair == ObjHolds(obj, key)
    IN  /\ id \notin DOMAIN obj.raw \cup DOMAIN mem.raw
        /\ repair => touches < MaxTouches
        /\ touches' = IF repair THEN touches + 1 ELSE touches
        /\ mem' = MemIndex(m, IF id \in DOMAIN m.raw THEN id ELSE m.ops[key])
        /\ obj' = IF repair THEN ObjIndex(obj, obj.ops[key], Now)
                  ELSE ObjCommit(obj, id, node)

UpdateRawLifecycle(ids, p) ==
    /\ touches < MaxTouches
    /\ mem' = MemUpdate(mem, ids, p)
    /\ obj' = ObjUpdate(obj, ids, p)
    /\ touches' = touches + 1

\* A reopening that does not trust the index files.
RebuildIndexes ==
    /\ touches < MaxTouches
    /\ obj' = Rebuilt(obj)
    /\ touches' = touches + 1
    /\ UNCHANGED mem

ReadsNext ==
    \/ \E id \in RawIds, l \in Loops, t \in Times, key \in Keys \cup {NoKey} :
          PersistRaw(id, l, t, key)
    \/ \E ids \in SUBSET RawIds \ {{}}, p \in Patches : UpdateRawLifecycle(ids, p)
    \/ RebuildIndexes

----------------------------------------------------------------------------
(* What callers may rely on. The two backends have to agree as far as the caps
   of the object store reach; among equal timestamps only the order may differ,
   except in the timeline, whose tiebreak is part of the contract.            *)

Limits == 1..LoopCap
TimesOf(raw, ids) == [k \in DOMAIN ids |-> raw[ids[k]].ts]
Tied(ids) == \E i, j \in ids : i # j /\ mem.raw[i].ts = mem.raw[j].ts
Same(ids, a, b) == IF Tied(ids) THEN TimesOf(mem.raw, a) = TimesOf(obj.raw, b) ELSE a = b

\* [Q4] timeline_raw: "the test double cannot diverge on equal timestamps".
\* The early stop of the object store over day shards loses no entry either.
TimelineAgrees ==
    \A scope \in Scopes, n \in Limits, from \in Times : \A to \in {t \in Times : t >= from} :
        scope = Everywhere \/ Cardinality(Of(mem.raw, scope)) <= SessionCap =>
            MemTimeline(scope, from, to, n) = ObjTimeline(scope, from, to, n)

\* The session view of a turn, the input of a distillation and the backlog of a
\* maintenance pass do not depend on the backend, for every limit the
\* configuration allows (at most SessionCap); and one entry more than the limit
\* is always found, which is how an oversized loop is recognised.
ReadsAgree ==
    /\ \A s \in Sessions, n \in 1..SessionCap :
          Same(Of(mem.raw, s), MemRecent(s, n), ObjRecent(s, n))
    /\ \A l \in Loops, n \in 1..SessionCap :
          LET all == {i \in DOMAIN mem.raw : mem.raw[i].loop = l}
          IN  IF Cardinality(all) <= n
              THEN /\ Same(all, MemLoopBounded(l, n + 1), ObjLoopBounded(l, n + 1))
                   /\ Same(all, MemLoop(l), ObjLoop(l))
              ELSE Len(MemLoopBounded(l, n + 1)) > n /\ Len(ObjLoopBounded(l, n + 1)) > n
    /\ \A onlyPushed \in BOOLEAN, n \in Limits :
          Same(DOMAIN mem.raw, MemBacklog(onlyPushed, n), ObjBacklog(onlyPushed, n))

\* A search of a session that fits its embedding shard finds the same nodes in
\* both, and never one of another session; in a full shard it still finds as
\* many nodes as the shard holds.
SearchAgrees ==
    \A s \in Sessions, k \in Limits :
        IF Cardinality(Of(mem.raw, s)) <= ShardCap THEN MemSearch(s, k) = ObjSearch(s, k)
        ELSE /\ ToSet(ObjSearch(s, k)) \subseteq Of(obj.raw, s)
             /\ Len(ObjSearch(s, k)) = IF k < ShardCap THEN k ELSE ShardCap

\* What inserts, updates and evictions keep up file by file is what a rebuild
\* makes of the bodies: a reopening never changes what is listed, which node
\* holds a key, or which embeddings exist (the order of a manifest may change).
RebuildChangesNothing ==
    LET again == Rebuilt(obj)
        Lists(o) == [s \in Sessions |-> ToSet(o.shard[s])]
    IN  /\ [again EXCEPT !.shard = obj.shard] = obj
        /\ Lists(again) = Lists(obj)
        /\ again.ops = mem.ops
=============================================================================
