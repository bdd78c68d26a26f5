----------------------------- MODULE MemoryTools -----------------------------
(* The tools the model calls to search the memory: semantic search, graph
   search, provenance lookup and timeline search, from the model's arguments
   (prepare_tool_call_for_config clamps them and forces the session) to the
   nodes and links the answer shows. The engine stores abstract nodes through
   persist_abstract_node, which checks their references; imported nodes reach
   the repositories without that check, as legacy or corrupt ones do.         *)
EXTENDS NodeReads

CONSTANTS AbstractIds,   \* abstract node ids, ordered as the UUIDs are
          Contents,      \* what a distiller may produce, see AbstractContent
          PredicateOrder,  \* all predicates in the order of their strings
          Closeness,     \* similarity of an abstract node with the query
          MaxTopK, MaxDepth, MaxHits, MaxProvenance, MaxTimeline, \* ToolsConfig
          Enabled        \* tools the configuration switches on

AllPredicates == ToSet(PredicateOrder)
Predicates == AllPredicates \ {"reference"}

\* An abstract node refers to raw nodes, to abstract nodes and to relations,
\* whose object may be the id of an abstract node.
Relation == [predicate : Predicates, to : AbstractIds, provenance : SUBSET RawIds]
AbstractContent == [raws : Seq(RawIds), links : SUBSET AbstractIds, relations : SUBSET Relation]

ASSUME ToolsAssumption ==
    /\ AbstractIds \subseteq Nat /\ IsFiniteSet(AbstractIds)
    /\ Contents \subseteq AbstractContent
    /\ PredicateOrder \in Seq(STRING) /\ IsInjective(PredicateOrder)
    /\ "reference" \in AllPredicates
    /\ Closeness \in [AbstractIds -> Nat]
    /\ {MaxTopK, MaxDepth, MaxHits, MaxProvenance, MaxTimeline} \subseteq Nat \ {0}

VARIABLES know,       \* abstract nodes by id, with their session
          imported    \* the ids that were stored without the engine's check

toolVars == <<know, imported>>

ToolsInit == know = <<>> /\ imported = {}

----------------------------------------------------------------------------
RawReferences(c) == ToSet(c.raws) \cup UNION {r.provenance : r \in c.relations}

\* Mutant of WellReferenced: references need to exist, in whatever session.
WellReferencedAnywhere(c, s) ==
    RawReferences(c) \subseteq DOMAIN obj.raw /\ c.links \subseteq DOMAIN know

\* The references persist_abstract_node accepts: present, and of the session.
WellReferenced(c, s) ==
    /\ \A i \in RawReferences(c) : i \in DOMAIN obj.raw /\ Session(obj.raw[i]) = s
    /\ \A a \in c.links : a \in DOMAIN know /\ know[a].session = s

StoredNode(c, s) == [session |-> s, raws |-> c.raws, links |-> c.links, relations |-> c.relations]

\* persist_abstract_node: refused as a whole, or node, embedding and edges stored.
PersistAbstract(a, s, c) ==
    /\ a \notin DOMAIN know
    /\ WellReferenced(c, s)
    /\ know' = Put(know, a, StoredNode(c, s))
    /\ UNCHANGED imported

\* commit_abstract called by anyone else: nothing is checked.
ImportAbstract(a, s, c) ==
    /\ a \notin DOMAIN know
    /\ ~WellReferenced(c, s)
    /\ know' = Put(know, a, StoredNode(c, s))
    /\ imported' = imported \cup {a}

ToolsNext ==
    \E a \in AbstractIds, s \in Sessions, c \in Contents :
        PersistAbstract(a, s, c) \/ ImportAbstract(a, s, c)

\* Raw nodes and abstract nodes are stored by different calls.
MemoryNext == \/ ReadsNext /\ UNCHANGED toolVars
              \/ ToolsNext /\ UNCHANGED readVars

MemorySpec == ReadsInit /\ ToolsInit /\ [][MemoryNext]_<<readVars, toolVars>>

----------------------------------------------------------------------------
(* GraphRepository: the same code over the map and over the graph files.      *)

Edges(a) == {[predicate |-> "reference", to |-> b] : b \in know[a].links} \cup
            {[predicate |-> r.predicate, to |-> r.to] : r \in know[a].relations}

\* The edges with one of these predicates, by predicate and target.
EdgesOf(a, predicates) ==
    LET edges == {e \in Edges(a) : e.predicate \in predicates}
        Place(e) == CHOOSE k \in DOMAIN PredicateOrder : PredicateOrder[k] = e.predicate
        Prior(e, f) == \/ Place(e) < Place(f)
                       \/ Place(e) = Place(f) /\ e.to < f.to
    IN  ByRank([e \in edges |-> Cardinality({f \in edges : Prior(f, e)})])

\* The queue entries those edges make of a hit.
Onward(hit, predicates) ==
    LET edges == EdgesOf(hit.node, predicates)
    IN  [k \in DOMAIN edges |->
            [node |-> edges[k].to, depth |-> hit.depth + 1, via |-> edges[k].predicate]]

InScope(a, s) == a \in DOMAIN know /\ know[a].session = s

\* Mutant of Visit: edges go to the front of the queue.
VisitDepthFirst(w, s, depth, predicates, maxHits) ==
    LET head == Head(w.queue)
        rest == Tail(w.queue)
        room == maxHits - (Len(w.hits) + 1 + Len(rest))
    IN  IF head.depth > depth \/ head.node \in w.visited THEN [w EXCEPT !.queue = rest]
        ELSE [visited |-> w.visited \cup {head.node},
              hits |-> IF InScope(head.node, s) THEN Append(w.hits, head) ELSE w.hits,
              queue |-> IF InScope(head.node, s) THEN First(Onward(head, predicates), room) \o rest
                        ELSE rest]

\* One turn of the loop of traverse: the head of the queue is dropped or becomes
\* a hit, whose edges are queued while hits and queue leave room for them.
Visit(w, s, depth, predicates, maxHits) ==
    LET head == Head(w.queue)
        rest == Tail(w.queue)
        room == maxHits - (Len(w.hits) + 1 + Len(rest))
    IN  IF head.depth > depth \/ head.node \in w.visited THEN [w EXCEPT !.queue = rest]
        ELSE [visited |-> w.visited \cup {head.node},
              hits |-> IF InScope(head.node, s) THEN Append(w.hits, head) ELSE w.hits,
              queue |-> IF InScope(head.node, s) THEN rest \o First(Onward(head, predicates), room)
                        ELSE rest]

\* Every edge is queued at most once, which bounds the turns.
Turns == 1 + Cardinality(AbstractIds) * Cardinality(AllPredicates) * Cardinality(AbstractIds)

Traverse(start, s, depth, predicates, maxHits) ==
    LET walk[n \in 0..Turns] ==
            IF n = 0
            THEN [visited |-> {}, hits |-> <<>>,
                  queue |-> <<[node |-> start, depth |-> 0, via |-> "start"]>>]
            ELSE LET w == walk[n - 1]
                 IN  IF w.queue = <<>> \/ Len(w.hits) >= maxHits THEN w
                     ELSE Visit(w, s, depth, predicates, maxHits)
    IN  walk[Turns].hits

----------------------------------------------------------------------------
(* MemoryTools. An answer is what the model gets to see: raw nodes, abstract
   nodes, and the ids that are left in them: sources are raw nodes named as
   provenance, objects those of relations, which no tool takes out (they are text,
   of which an abstract node's id is one). Links to abstract nodes are always
   taken out. None is an error.                                               *)

None == [raws |-> {}, abstracts |-> {}, sources |-> {}, objects |-> {}, found |-> FALSE]
Shown(raws, abstracts, sources) ==
    [raws |-> raws, abstracts |-> abstracts, sources |-> sources,
     objects |-> UNION {{r.to : r \in know[a].relations} : a \in abstracts}, found |-> TRUE]

ClosestAbstracts(s) ==
    LET mine == {a \in DOMAIN know : know[a].session = s}
        Nearer(a, b) == \/ Closeness[a] > Closeness[b]
                        \/ Closeness[a] = Closeness[b] /\ a < b
    IN  ByRank([a \in mine |-> Cardinality({b \in mine : Nearer(b, a)})])

\* What is close enough, of the session, and shown without its provenance.
SearchRaw(p) == {i \in ToSet(ObjSearch(p.session, p.topK)) :
                    Similarity[i] >= p.threshold /\ Session(obj.raw[i]) = p.session}
SearchAbstract(p) == {a \in ToSet(First(ClosestAbstracts(p.session), p.topK)) :
                         Closeness[a] >= p.threshold /\ know[a].session = p.session}

SemanticSearch(p) == Shown(IF p.target = "abstract" THEN {} ELSE SearchRaw(p),
                           IF p.target = "raw" THEN {} ELSE SearchAbstract(p), {})

GraphSearch(p) ==
    IF ~InScope(p.start, p.session) THEN None
    ELSE LET hits == Traverse(p.start, p.session, p.depth, p.predicates, p.maxHits)
         IN  Shown({}, {a \in {hits[k].node : k \in DOMAIN hits} : InScope(a, p.session)}, {})

ProvenanceLookup(p) ==
    LET raws == First(know[p.node].raws, p.limit)
        visible == {i \in ToSet(raws) : i \in DOMAIN obj.raw /\ Session(obj.raw[i]) = p.session}
    IN  IF ~InScope(p.node, p.session) THEN None
        ELSE IF visible # ToSet(raws) THEN None
        ELSE Shown(visible, {p.node},
                   visible \cup UNION {r.provenance \cap visible : r \in know[p.node].relations})

TimelineSearch(p) == Shown(ToSet(ObjTimeline(p.session, p.from, p.to, p.limit)), {}, {})

\* prepare_tool_call_for_config: clamped by the configuration, bound to the session.
Clamp(requested, bound) == Min({Max({requested, 1}), bound})

\* Mutant of Prepare: the session the model asks for is kept.
PrepareKeepsSession(name, p, s) ==
    CASE name = "semantic_search_memory" -> [p EXCEPT !.topK = Clamp(@, MaxTopK)]
      [] name = "graph_search_memory" ->
            [p EXCEPT !.depth = Min({@, MaxDepth}), !.maxHits = Clamp(@, MaxHits)]
      [] name = "provenance_lookup" -> [p EXCEPT !.limit = Clamp(@, MaxProvenance)]
      [] name = "timeline_search" -> [p EXCEPT !.limit = Clamp(@, MaxTimeline)]

Prepare(name, p, s) ==
    CASE name = "semantic_search_memory" ->
            [p EXCEPT !.topK = Clamp(@, MaxTopK), !.session = s]
      [] name = "graph_search_memory" ->
            [p EXCEPT !.depth = Min({@, MaxDepth}), !.maxHits = Clamp(@, MaxHits), !.session = s]
      [] name = "provenance_lookup" -> [p EXCEPT !.limit = Clamp(@, MaxProvenance), !.session = s]
      [] name = "timeline_search" -> [p EXCEPT !.limit = Clamp(@, MaxTimeline), !.session = s]

\* DefaultToolExecutor::execute
Execute(name, p) ==
    CASE name = "semantic_search_memory" -> SemanticSearch(p)
      [] name = "graph_search_memory" -> GraphSearch(p)
      [] name = "provenance_lookup" -> ProvenanceLookup(p)
      [] name = "timeline_search" -> TimelineSearch(p)

\* A prepared call; a disabled or unknown tool is an error.
ToolCall(name, p) == IF name \in Enabled THEN Execute(name, p) ELSE None

\* The arguments the model may send, its own idea of the session included.
Depths == {1, MaxDepth + 1}
Arguments(name) ==
    CASE name = "semantic_search_memory" ->
            [target : {"raw", "abstract", "both"}, topK : {0, MaxTopK + 1}, threshold : {0, 2},
             session : Sessions]
      [] name = "graph_search_memory" ->
            [start : AbstractIds, depth : Depths, predicates : {AllPredicates, {"reference"}},
             maxHits : {0, MaxHits + 1}, session : Sessions]
      [] name = "provenance_lookup" ->
            [node : AbstractIds, limit : {1, MaxProvenance + 1}, session : Sessions]
      [] name = "timeline_search" ->
            [from : {Min(Times)}, to : Times, limit : {1, MaxTimeline + 1}, session : Sessions]
ToolNames == {"semantic_search_memory", "graph_search_memory", "provenance_lookup",
              "timeline_search"}

\* What is executed of what the model may send in session s.
Calls(name, s) == {Prepare(name, p, s) : p \in Arguments(name)}
CallsOf == [s \in Sessions |-> [name \in ToolNames |-> Calls(name, s)]]

----------------------------------------------------------------------------
\* What the configuration lets a tool show.
MostRaws(name) == CASE name = "semantic_search_memory" -> MaxTopK
                    [] name = "graph_search_memory" -> 0
                    [] name = "provenance_lookup" -> MaxProvenance
                    [] name = "timeline_search" -> MaxTimeline
MostAbstracts(name) == CASE name = "semantic_search_memory" -> MaxTopK
                         [] name = "graph_search_memory" -> MaxHits
                         [] name = "provenance_lookup" -> 1
                         [] name = "timeline_search" -> 0

\* Every call of session s that asks for abstract node a by its id is an error.
Refused(a, s) ==
    /\ \A p \in CallsOf[s]["graph_search_memory"] :
          p.start = a => ~ToolCall("graph_search_memory", p).found
    /\ \A p \in CallsOf[s]["provenance_lookup"] :
          p.node = a => ~ToolCall("provenance_lookup", p).found

\* "A tool call cannot read another session's memory" [S2]: whatever the model
\* sends, and whatever links the stored nodes carry, the answer shows nodes and
\* sources of the running session only, and no more than the tool's own bounds
\* allow. Objects of relations are in it whatever they name; but the id of an
\* abstract node of another session, seen there, opens nothing: asked for by its
\* id it is not found.
SessionIsolation ==
    \A s \in Sessions, name \in ToolNames : \A p \in CallsOf[s][name] :
        LET answer == ToolCall(name, p)
        IN  /\ \A i \in answer.raws \cup answer.sources : Session(obj.raw[i]) = s
            /\ \A a \in answer.abstracts : know[a].session = s
            /\ \A a \in answer.objects : InScope(a, s) \/ Refused(a, s)
            /\ Cardinality(answer.raws) <= MostRaws(name)
            /\ Cardinality(answer.abstracts) <= MostAbstracts(name)

\* A node the engine has stored keeps a readable provenance in its session, even
\* though the lookup refuses the whole node as soon as one source is missing.
ProvenanceReadable ==
    \A a \in DOMAIN know \ imported :
        LET p == [node |-> a, limit |-> MaxProvenance, session |-> know[a].session]
            answer == ToolCall("provenance_lookup", Prepare("provenance_lookup", p, p.session))
        IN  answer.found /\ answer.raws = ToSet(First(know[a].raws, MaxProvenance))

\* Nodes in scope within d steps of start along edges of these predicates.
Within(start, s, predicates, d) ==
    LET reach[n \in 0..d] ==
            IF n = 0 THEN {start} \cap {a \in DOMAIN know : InScope(a, s)}
            ELSE reach[n - 1] \cup
                 {b \in DOMAIN know : /\ InScope(b, s)
                                      /\ \E a \in reach[n - 1] : \E e \in Edges(a) :
                                            /\ e.to = b
                                            /\ e.predicate \in predicates}
    IN  reach[d]

\* Every hit of the bounded traversal is distinct, in scope and one edge further
\* than an earlier hit. With room for every edge the hits are exactly the nodes
\* within the depth, nearest first and each at its distance. With less room it
\* may stop short, because duplicates and foreign nodes take up the queue.
TraversalCorrect ==
    \A start \in DOMAIN know, depth \in Depths, predicates \in {AllPredicates, {"reference"}},
       maxHits \in {1, 2, Turns} :
        LET s == know[start].session
            hits == Traverse(start, s, depth, predicates, maxHits)
            nodes == {hits[k].node : k \in DOMAIN hits}
        IN  /\ Len(hits) \in 1..maxHits /\ hits[1].node = start
            /\ Cardinality(nodes) = Len(hits)
            /\ \A k \in 2..Len(hits) : \E j \in 1..(k - 1) :
                  /\ hits[k].depth = hits[j].depth + 1 /\ hits[k].depth <= depth
                  /\ [predicate |-> hits[k].via, to |-> hits[k].node] \in Edges(hits[j].node)
                  /\ hits[k].via \in predicates /\ InScope(hits[k].node, s)
            /\ maxHits = Turns =>
                  /\ nodes = Within(start, s, predicates, depth)
                  /\ \A k \in DOMAIN hits :
                        hits[k].node \notin UNION {Within(start, s, predicates, d) : d \in 0..(hits[k].depth - 1)}
=============================================================================
