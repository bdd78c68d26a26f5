---------------------------- MODULE MC_GraphRunner ----------------------------
(***************************************************************************)
(* A caller-built graph with everything ExecutionGraph allows: a cycle, a  *)
(* tool node, a node that pauses, one that finishes, a label without an    *)
(* edge and an edge to an unregistered node.                               *)
(***************************************************************************)
EXTENDS GraphRunner

MCNodeId == {"plan", "act", "ask", "end", "ghost"}
MCRegistered == MCNodeId \ {"ghost"}
MCBranch == {"default", "again", "ask", "end", "lost", "ghost"}
MCEdge == [e \in {<<"plan", "default">>, <<"act", "default">>, <<"act", "ask">>,
                  <<"ask", "default">>, <<"act", "end">>, <<"plan", "ghost">>} |->
              CASE e = <<"plan", "default">> -> "act"
                [] e = <<"act", "default">> -> "plan"
                [] e = <<"act", "ask">> -> "ask"
                [] e = <<"ask", "default">> -> "plan"
                [] e = <<"act", "end">> -> "end"
                [] OTHER -> "ghost"]

\* Sound graph: every label has its edge and every edge a registered target.
SoundEmits == [n \in MCRegistered |->
                  CASE n = "plan" -> {"default"}
                    [] n = "act" -> {"default", "ask", "end"}
                    [] n = "ask" -> {"default"}
                    [] OTHER -> {}]
\* Unchecked graph: nothing in add_edge or run rejects it.
UncheckedEmits == [SoundEmits EXCEPT !["plan"] = @ \cup {"ghost"},
                                     !["act"] = @ \cup {"lost"}]
MCFinishing == {"end"}
MCPausing == {"ask"}
MCToolNode == {"act"}
===============================================================================
