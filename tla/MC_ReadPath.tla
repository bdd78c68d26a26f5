----------------------------- MODULE MC_ReadPath -----------------------------
(* One small instance of each part a turn reads through: the node repositories,
   the memory tools over a seeded store, and the transcript sent to the model.
   They share no state, so one of them is chosen at the start and the other
   two keep the values they begin with.                                       *)
EXTENDS MemoryTools, Transcript

CONSTANTS A, B, l1, l2      \* two sessions with a loop each

VARIABLE surface

pathVars == <<readVars, toolVars, transcriptVars, surface>>

\* Two raw nodes, one in each session, for the tools to read.
Stores == <<[l |-> l1, id |-> 1], [l |-> l2, id |-> 2]>>
SeededObj == FoldLeft(LAMBDA o, x : ObjCommit(o, x.id, NewNode(x.l, 1, NoKey)), EmptyObj, Stores)
SeededMem ==
    FoldLeft(LAMBDA m, x : MemIndex(MemInsert(m, x.id, NewNode(x.l, 1, NoKey)), x.id), EmptyMem, Stores)

IdleConfig == CHOOSE c \in Configs : Valid(c)
TranscriptIdle ==
    /\ cfg = IdleConfig /\ profile = "ExternalContext" /\ phase = "history"
    /\ history = <<>> /\ session = <<>> /\ memory = [abstracts |-> <<>>, raws |-> <<>>]
    /\ summaries = <<>> /\ used = 0 /\ rounds = 0

PathInit ==
    \/ surface = "reads" /\ ReadsInit /\ ToolsInit /\ TranscriptIdle
    \/ /\ surface = "tools" /\ ToolsInit /\ TranscriptIdle
       /\ obj = SeededObj /\ mem = SeededMem /\ touches = 0
    \/ surface = "transcript" /\ ReadsInit /\ ToolsInit /\ TranscriptInit

\* The key is that of node 1, which the others retry.
KeyOfFirst == \A i \in DOMAIN obj.raw \ {1} : obj.raw[i].key = NoKey

\* A history handed to a memory-aware turn is short; trimming is the same for both.
BriefWithMemory == profile = "LocalMemory" => Len(history) <= 2

PathNext ==
    /\ UNCHANGED surface
    /\ \/ surface = "reads" /\ ReadsNext /\ KeyOfFirst' /\ UNCHANGED <<toolVars, transcriptVars>>
       \/ surface = "tools" /\ ToolsNext /\ UNCHANGED <<readVars, transcriptVars>>
       \/ surface = "transcript" /\ TranscriptNext /\ BriefWithMemory' /\ UNCHANGED <<readVars, toolVars>>

PathSpec == PathInit /\ [][PathNext]_pathVars

----------------------------------------------------------------------------
MCSessionOf == [l \in Loops |-> IF l = l1 THEN A ELSE B]
\* A session together with its loop may be exchanged for the other one.
Exchange == {p @@ [l \in {l1, l2} |-> IF p[A] = A THEN l ELSE IF l = l1 THEN l2 ELSE l1] :
                p \in Permutations({A, B})}
MCSimilarity == [i \in RawIds |-> IF i = 1 THEN 1 ELSE 2]
MCCloseness == [i \in AbstractIds |-> IF i = 1 THEN 1 ELSE 2]

MCPredicateOrder == <<"knows", "reference">>
Knows(a, raws) == [predicate |-> "knows", to |-> a, provenance |-> raws]
MCContents ==
    {[raws |-> <<>>, links |-> l, relations |-> {}] :
        l \in {{}, {1}, {2}, {3}, {2, 3}}} \cup
    {[raws |-> <<>>, links |-> {2}, relations |-> {Knows(1, {})}]} \cup
    {[raws |-> r, links |-> {}, relations |-> {}] : r \in {<<1>>, <<1, 2>>}} \cup
    {[raws |-> <<1>>, links |-> {}, relations |-> {Knows(1, {1, 2})}]}

Msg(r, c, i, b, t, p) == [role |-> r, calls |-> c, id |-> i, blank |-> b, tokens |-> t, plain |-> p]
MCMessages ==
    {Msg("user", <<"a">>, "", FALSE, 2, 2), Msg("assistant", <<"a">>, "", FALSE, 4, 2),
     Msg("assistant", <<"a", "b">>, "", TRUE, 5, 1), Msg("assistant", <<"">>, "", FALSE, 3, 2),
     Msg("tool", <<>>, "a", FALSE, 1, 1), Msg("tool", <<"a">>, "b", FALSE, 2, 2)}

BaseConfig ==
    [promptBlank |-> FALSE, sessionRatio |-> 600000, memoryRatio |-> 400000,
     activation |-> [topK |-> 4, rawRatio |-> 1, abstractRatio |-> 3],
     thresholds |-> {100000}, relaxedThreshold |-> 100000, rawThreshold |-> 300000,
     total |-> 30, reserveSystem |-> 3, reserveTools |-> 18, reserveWorking |-> 3,
     maxGraphSteps |-> 32, maxToolRounds |-> 2, maxToolCalls |-> 2, collectionBounds |-> {512},
     maxArgumentBytes |-> 4096, maxResultBytes |-> 4096, timeouts |-> {30}]

\* The base, no room at all, thirds, a small reserve for tools, an invalid one,
\* and a prompt larger than its reserve with and without room for it.
MCConfigs ==
    {BaseConfig, [BaseConfig EXCEPT !.total = 24],
     [BaseConfig EXCEPT !.sessionRatio = 333333, !.memoryRatio = 666667],
     [BaseConfig EXCEPT !.reserveTools = 9], [BaseConfig EXCEPT !.reserveTools = 40],
     [BaseConfig EXCEPT !.reserveTools = 12, !.reserveSystem = 1],
     [BaseConfig EXCEPT !.total = 22, !.reserveSystem = 1]}

MCViews == {<<>>, <<2, 3, 1, 4>>}
MCMemories == {[abstracts |-> <<>>, raws |-> <<>>], [abstracts |-> <<2, 5>>, raws |-> <<1, 3>>]}
SmallCall == [head |-> 2, id |-> 1, args |-> 1, bytes |-> 40]
LargeCall == [head |-> 3, id |-> 1, args |-> 9, bytes |-> 12 * MaxIdentifierBytes]
MCCalls == {<<SmallCall>>, <<LargeCall>>, <<LargeCall, SmallCall>>,
            <<SmallCall, SmallCall, SmallCall>>}
MCOutcomes ==
    {[tokens |-> 1, cut |-> 1, bytes |-> 2, summary |-> 10, escape |-> 1],
     [tokens |-> 4, cut |-> 4, bytes |-> 900, summary |-> 700, escape |-> 6],
     [tokens |-> 20, cut |-> 6, bytes |-> 9000, summary |-> 4000, escape |-> 6]}
=============================================================================
