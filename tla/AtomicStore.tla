------------------------------ MODULE AtomicStore ------------------------------
(***************************************************************************)
(* What the object store promises of its journaled mutations (README.md,   *)
(* "Object storage"; architecture.md 7): each of them happens at once or   *)
(* not at all, whatever moment the process dies at.  The promise is void   *)
(* once a mutation has been given up with the store still open.            *)
(***************************************************************************)
CONSTANTS
    Node,       \* ids of raw and abstract nodes
    Raw,        \* the raw ones
    KeyOf,      \* n |-> the operation key n is committed under
    NoNode      \* no node holds the key

VARIABLES
    nodes,      \* n |-> its lifecycle state, "none" when it does not exist
    canonical,  \* k |-> the node that holds operation key k
    void        \* a mutation has been given up

vars == <<nodes, canonical, void>>

Key == {KeyOf[n] : n \in Node}
Life == {"fresh", "pushed", "distilled"}
Patch == {"push", "clear", "distill"}

\* The lifecycle state after RawLifecyclePatch p (the overflow mark of a
\* distilled node is never looked at again).
Patched(l, p) ==
    IF p = "distill" \/ l = "distilled" THEN "distilled"
    ELSE IF p = "push" THEN "pushed" ELSE "fresh"

Init ==
    /\ nodes \in [Node -> {"none", "fresh"}]
    /\ canonical \in [Key -> Node \cup {NoNode}]
    /\ \A n \in Node : nodes[n] # "none" => canonical[KeyOf[n]] = n
    /\ \A k \in Key : canonical[k] # NoNode => KeyOf[canonical[k]] = k /\ nodes[canonical[k]] # "none"
    /\ void = FALSE

\* commit_raw, commit_abstract: first writer wins.
Commit(n) ==
    /\ canonical[KeyOf[n]] = NoNode
    /\ nodes' = [nodes EXCEPT ![n] = "fresh"]
    /\ canonical' = [canonical EXCEPT ![KeyOf[n]] = n]

\* update_raw_lifecycle: all of the given nodes together.
UpdateLifecycle(set, p) ==
    /\ nodes' = [n \in Node |-> IF n \in set THEN Patched(nodes[n], p) ELSE nodes[n]]
    /\ UNCHANGED canonical

GiveUp == void'

Next ==
    \/ GiveUp
    \/ /\ UNCHANGED void
       /\ \/ \E n \in Node : Commit(n)
          \/ \E set \in SUBSET Raw, p \in Patch :
                (\A n \in set : nodes[n] # "none") /\ UpdateLifecycle(set, p)

Spec == Init /\ [][Next]_vars
===============================================================================
