--------------------------- MODULE MC_SessionMemory ---------------------------
EXTENDS SessionMemory

\* A tool result is twice as long. One turn sees almost the whole session, the
\* other little more than its own message: what the second marks the first may
\* mark again, later, or find back in its window.
MCCost == [k \in Kinds |-> IF k = "tool" THEN 2 ELSE 1]
MCBudget == [l \in Loops |-> IF l = "l1" THEN 4 ELSE 1]
MCMaxRounds == [l \in Loops |-> IF l = "l1" THEN 0 ELSE 1]

\* With the first, the nodes of l1 are found only with a relaxed threshold and
\* then rank above those of l2; with the second they are always found and rank
\* above them only with the bonus.
MCSimilarity == [l \in Loops |-> IF l = "l1" THEN 70 ELSE 76]
MCSimilarityFound == [l \in Loops |-> IF l = "l1" THEN 74 ELSE 76]
MCImportance == [k \in Kinds |-> CASE k = "user" -> 85 [] k = "tool" -> 72 [] OTHER -> 78]
=============================================================================
