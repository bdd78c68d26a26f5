------------------------------ MODULE Transcript ------------------------------
(* What the model is sent, in tokens. A memory-aware turn assembles session
   nodes, activated memory and tool results into budgets of its own; the history a
   host hands over is trimmed by coherent groups and sent in either profile, though
   it is meant for turns with external context, which assemble nothing else.
   Both append one bounded group per tool round (the assistant's calls and their
   results), reserved before any tool runs. Texts are their token estimates.   *)
EXTENDS Integers, Sequences, FiniteSets, SequencesExt

CONSTANTS Configs,       \* EngineConfig values a host may pass
          Messages,      \* messages of the host's history, see Message
          MaxHistory,    \* bound: length of the history
          SessionViews,  \* sequences of token estimates of earlier session nodes
          Memories,      \* the same of activated memory, abstract nodes first
          SystemTokens, WorkingTokens,  \* the system prompt; user message and plan
          CallChoices,   \* sequences of tool calls, see Call
          Texts,         \* estimates of the text that comes with the calls
          Outcomes,      \* what a tool may answer, see Outcome
          EmptyText,     \* estimate of "": an estimator may return 0 or 1
          EmptyObject,   \* estimate of {}
          Marker,        \* estimate of {"truncated":true}
          EmptyPreview,  \* estimate of {"truncated":true,"preview":""}
          MaxRounds      \* bound: tool rounds

Scale == 1000000         \* split_budget works in millionths
MaxIdentifierBytes == 256

\* "" for a call without a usable id; tokens is the estimate of the message,
\* plain the estimate without its calls.
Message == [role : {"user", "assistant", "tool"}, calls : Seq(STRING), id : STRING,
            blank : BOOLEAN, tokens : Nat, plain : Nat]
\* Estimates of id and name together, of the id alone and of the arguments; the
\* bytes of id and name as JSON, where a byte takes up to six.
Call == [head : Nat, id : Nat, args : Nat, bytes : 0..(12 * MaxIdentifierBytes)]
\* Estimate of the result, and when it was cut for storage; bytes of the result,
\* of its summary, and how much JSON escaping expands the summary.
Outcome == [tokens : Nat, cut : Nat, bytes : Nat, summary : Nat, escape : 1..6]
\* What EngineConfig holds, valid or not; ratios and thresholds in millionths.
Config ==
    [promptBlank : BOOLEAN, sessionRatio : Int, memoryRatio : Int,
     activation : [topK : Nat, rawRatio : Int, abstractRatio : Int],
     thresholds : SUBSET Int, relaxedThreshold : Int, rawThreshold : Int,
     total : Nat, reserveSystem : Nat, reserveTools : Nat, reserveWorking : Nat,
     maxGraphSteps : Nat, maxToolRounds : Nat, maxToolCalls : Nat, collectionBounds : SUBSET Nat,
     maxArgumentBytes : Nat, maxResultBytes : Nat, timeouts : SUBSET Nat]

ASSUME TranscriptAssumption ==
    /\ Configs \subseteq Config /\ Messages \subseteq Message
    /\ SessionViews \subseteq Seq(Nat)
    /\ \A m \in Memories : m.abstracts \in Seq(Nat) /\ m.raws \in Seq(Nat)
    /\ CallChoices \subseteq Seq(Call) /\ Texts \subseteq Nat
    /\ {MaxHistory, MaxRounds, SystemTokens, WorkingTokens, EmptyText} \subseteq Nat
    /\ Outcomes \subseteq Outcome
    /\ EmptyObject \in Nat \ {0} /\ Marker \in Nat /\ EmptyPreview \in Nat
    /\ EmptyObject <= Marker /\ Marker <= EmptyPreview

VARIABLES cfg,        \* the configuration of this turn
          profile,    \* ExecutionProfile
          phase,      \* "history" (not started), "turn", "refused", "unreportable"
          history,    \* ExecutionState.conversation_history
          session,    \* recent_session: [tokens, own], own: a ToolResult of this loop
          memory,     \* activated_memory
          summaries,  \* tool_results, as the estimates of their summaries
          used,       \* tokens of turn_messages
          rounds

transcriptVars == <<cfg, profile, phase, history, session, memory, summaries, used, rounds>>

Sum(s) == SumFunction(s)
\* The elements of s at the positions in I, in order.
Chosen(s, I) == FlattenSeq([k \in DOMAIN s |-> IF k \in I THEN <<s[k]>> ELSE <<>>])
Monus(a, b) == IF a > b THEN a - b ELSE 0       \* saturating_sub
AtMost(a, b) == IF a < b THEN a ELSE b
AtLeast(a, b) == IF a > b THEN a ELSE b

----------------------------------------------------------------------------
(* Configuration                                                             *)

MaxCollectionBound == 4096
MaxContextTokens == 1000000
MaxToolPayloadBytes == 16 * 1024 * 1024
MinToolResultBytes == 4 * 1024
MaxToolCallsPerRound == 256
MaxToolRounds == 256
MaxGraphSteps == 100000

\* ActivationConfig::validated_budgets: both shares get at least one node.
ValidActivation(a) == /\ a.rawRatio > 0 /\ a.abstractRatio > 0
                      /\ a.topK \in 2..MaxCollectionBound

RawBudget(a) == AtMost(AtLeast((a.topK * a.rawRatio) \div (a.rawRatio + a.abstractRatio), 1), a.topK - 1)
AbstractBudget(a) == a.topK - RawBudget(a)

\* The fields that are checked alike, as the sets of their values.
ValidBounds(c) ==
    /\ \A b \in c.collectionBounds : b \in 1..MaxCollectionBound
    /\ c.maxArgumentBytes \in 1..MaxToolPayloadBytes
    /\ c.maxResultBytes \in MinToolResultBytes..MaxToolPayloadBytes
    /\ \A t \in c.timeouts : t > 0

\* EngineConfig::validate.
Valid(c) ==
    /\ ~c.promptBlank
    /\ c.sessionRatio \in 0..Scale /\ c.memoryRatio \in 0..Scale
    /\ c.sessionRatio + c.memoryRatio \in (Scale - 1000)..(Scale + 1000)
    /\ ValidActivation(c.activation)
    /\ \A t \in c.thresholds : t \in -Scale..Scale
    /\ c.relaxedThreshold \in -Scale..c.rawThreshold
    /\ c.total \in 1..MaxContextTokens
    /\ c.reserveSystem + c.reserveTools + c.reserveWorking <= c.total
    /\ c.maxGraphSteps \in 1..MaxGraphSteps
    /\ c.maxToolRounds \in 1..MaxToolRounds /\ c.maxToolCalls \in 1..MaxToolCallsPerRound
    /\ ValidBounds(c)

RemainingTokens(c) == Monus(Monus(Monus(c.total, c.reserveSystem), c.reserveTools), c.reserveWorking)

----------------------------------------------------------------------------
(* Memory-aware context                                                      *)

SplitBudget(remaining, ratio) == (remaining * ratio) \div Scale

\* The longest prefix of s whose estimates fit the budget.
Fitting(s, budget) ==
    SubSeq(s, 1, CHOOSE n \in 0..Len(s) :
                    /\ Sum(SubSeq(s, 1, n)) <= budget
                    /\ n < Len(s) => Sum(SubSeq(s, 1, n + 1)) > budget)

\* collect_session_context: from the newest node back, until one does not fit.
SessionContext(nodes, budget) == Reverse(Fitting(Reverse(nodes), budget))

\* collect_memory_context: abstract nodes, then raw nodes; a kind that stops at
\* a node too large does not stop the other.
MemoryContext(m, budget) ==
    LET abstracts == Fitting(m.abstracts, budget)
    IN  abstracts \o Fitting(m.raws, budget - Sum(abstracts))

ToolContext(results, budget) == Fitting(results, budget)

\* Mutant of AssembledTokens: the results of this loop stay in the tool context.
AssembledTokensTwice ==
    LET remaining == RemainingTokens(cfg)
        sessionBudget == SplitBudget(remaining, cfg.sessionRatio)
    IN  SystemTokens
        + Sum(SessionContext([k \in DOMAIN session |-> session[k].tokens], sessionBudget))
        + Sum(MemoryContext(memory, Monus(remaining, sessionBudget)))
        + Sum(ToolContext(summaries, cfg.reserveTools))

\* AssembleContextNode and ContextAssembler::assemble: once there is a native
\* transcript, this loop's own tool results are neither session nor tool context.
AssembledTokens ==
    LET remaining == RemainingTokens(cfg)
        sessionBudget == SplitBudget(remaining, cfg.sessionRatio)
        memoryBudget == Monus(remaining, sessionBudget)
        shown == Chosen(session, {k \in DOMAIN session : used = 0 \/ ~session[k].own})
    IN  SystemTokens
        + Sum(SessionContext([k \in DOMAIN shown |-> shown[k].tokens], sessionBudget))
        + Sum(MemoryContext(memory, memoryBudget))
        + Sum(ToolContext(IF used = 0 THEN summaries ELSE <<>>, cfg.reserveTools))

----------------------------------------------------------------------------
(* External history                                                          *)

\* The tool messages that follow message i without another role in between.
FollowingTools(h, i) == {j \in (i + 1)..Len(h) : \A k \in (i + 1)..j : h[k].role = "tool"}

Expected(m) == ToSet(m.calls) \ {""}

\* Mutant of Results: a repeated result is kept.
ResultsRepeated(h, i) == {j \in FollowingTools(h, i) : h[j].id \in Expected(h[i])}

\* The first result of each expected call.
Results(h, i) ==
    {j \in FollowingTools(h, i) :
        /\ h[j].id \in Expected(h[i])
        /\ \A k \in FollowingTools(h, i) : k < j => h[k].id # h[j].id}

\* What coherent_conversation_groups makes of the message at i: calls stay with
\* all their results or go; a stray tool message goes.
GroupAt(h, i) ==
    LET m == h[i]
        complete == /\ Cardinality(Expected(m)) = Len(m.calls)
                    /\ {h[j].id : j \in Results(h, i)} = Expected(m)
    IN  IF m.role = "tool" THEN <<>>
        ELSE IF m.role = "user" \/ m.calls = <<>> THEN <<m>>
        ELSE IF complete THEN <<m>> \o Chosen(h, Results(h, i))
        ELSE IF m.blank THEN <<>>
        ELSE <<[m EXCEPT !.calls = <<>>, !.tokens = m.plain]>>

Groups(h) ==
    LET groups == [i \in DOMAIN h |-> GroupAt(h, i)]
    IN  Chosen(groups, {i \in DOMAIN groups : groups[i] # <<>>})
GroupTokens(g) == Sum([k \in DOMAIN g |-> g[k].tokens])

\* What system prompt and working text take beyond their reserves.
FixedTokens(c) == Monus(WorkingTokens, c.reserveWorking) + Monus(SystemTokens, c.reserveSystem)

\* trim_conversation_history: the newest whole groups that fit the rest.
TrimHistory(h, budget) ==
    LET newestFirst == Reverse(Groups(h))
        kept == Len(Fitting([k \in DOMAIN newestFirst |-> GroupTokens(newestFirst[k])], budget))
    IN  FlattenSeq(Reverse(SubSeq(newestFirst, 1, kept)))

HistoryTokens(h) == Sum([k \in DOMAIN h |-> h[k].tokens])

----------------------------------------------------------------------------
(* One tool round. Nothing runs before the room for its transcript is reserved. *)

ObjectMessage(c) == EmptyObject + c.id + 1      \* minimum_tool_result_message_tokens
Heads(calls) == Sum([k \in DOMAIN calls |-> calls[k].head])
MinimumResults(calls) == Sum([k \in DOMAIN calls |-> ObjectMessage(calls[k])])
MinimumAssistant(calls) == EmptyText + Heads(calls) + Len(calls) * EmptyObject + 1

Available == cfg.reserveTools - used

\* Arguments within the allowance, or the marker, or {}.
SentArguments(args, allowance) ==
    IF Monus(args, EmptyObject) <= allowance THEN args
    ELSE IF Marker - EmptyObject <= allowance THEN Marker ELSE EmptyObject

\* bound_tool_calls_for_model: each call's arguments get an equal share of what
\* the calls before it left. Estimates of the arguments sent.
BoundCalls(calls, extra) ==
    LET n == Len(calls)
        left[k \in 0..n] ==
            IF k = 0 THEN extra
            ELSE LET sent == SentArguments(calls[k].args, left[k - 1] \div (n - k + 1))
                 IN  Monus(left[k - 1], Monus(sent, EmptyObject))
    IN  [k \in 1..n |-> SentArguments(calls[k].args, left[k - 1] \div (n - k + 1))]

\* truncate_text_to_token_budget
TruncatedText(text, room) == AtLeast(EmptyText, AtMost(text, room))

\* The assistant message of the round: a third of the free tokens, half of that
\* for arguments, the rest for the text, which is cut to fit.
AssistantTokens(calls, text) ==
    LET free == Available - MinimumAssistant(calls) - MinimumResults(calls)
        share == free \div 3
        bare == EmptyText + Heads(calls) + Sum(BoundCalls(calls, share \div 2)) + 1
        room == Monus(MinimumAssistant(calls) + share, bare)
    IN  bare - EmptyText + TruncatedText(text, room)

\* clamp_tool_result_for_model: whole, or a preview that fills the allowance, or {}.
Clamped(tokens, allowance) ==
    IF tokens <= allowance THEN tokens
    ELSE IF EmptyPreview > allowance THEN EmptyObject ELSE allowance

\* Mutant of BoundResults: every result may use all that was left at first.
BoundResultsUnshared(sizes, extra) == [k \in DOMAIN sizes |-> Clamped(sizes[k], EmptyObject + extra)]

\* Estimates of the result contents sent: equal shares of what is left.
BoundResults(sizes, extra) ==
    LET n == Len(sizes)
        left[k \in 0..n] ==
            IF k = 0 THEN extra
            ELSE LET sent == Clamped(sizes[k], EmptyObject + left[k - 1] \div (n - k + 1))
                 IN  Monus(left[k - 1], Monus(sent, EmptyObject))
    IN  [k \in 1..n |-> Clamped(sizes[k], EmptyObject + left[k - 1] \div (n - k + 1))]

Envelope == 53           \* the JSON of a result without its values
EmptyPreviewBytes == 31

\* bound_tool_result_for_storage: [fits, cut]. A result over the bound loses
\* summary first, then all of its summary, then content down to a preview.
Stored(c, r, max) ==
    LET limit == AtMost(max \div 8, 4096)
        short == AtMost(r.summary, limit) * r.escape
        fixed == Envelope + c.bytes + EmptyPreviewBytes
        summary == IF fixed + short > max THEN 0 ELSE short
        whole == Envelope + c.bytes + r.summary * r.escape + r.bytes
    IN  [fits |-> whole <= max \/ fixed + summary <= max, cut |-> whole > max]

Storable(calls, outcomes) == \A k \in DOMAIN calls : Stored(calls[k], outcomes[k], cfg.maxResultBytes).fits

\* Estimates of the results as they are stored.
StoredTokens(calls, outcomes) ==
    [k \in DOMAIN calls |-> IF Stored(calls[k], outcomes[k], cfg.maxResultBytes).cut
                            THEN outcomes[k].cut ELSE outcomes[k].tokens]

\* What the model is sent of the results, in the room the round has left.
SentResults(calls, outcomes, assistant) ==
    BoundResults(StoredTokens(calls, outcomes), Available - assistant - MinimumResults(calls))

\* The messages of the results, with their ids.
ResultTokens(calls, sent) == Sum([k \in DOMAIN calls |-> sent[k] + calls[k].id + 1])

----------------------------------------------------------------------------

\* What a host and earlier turns may leave for this turn; execution starts here.
TranscriptInit ==
    /\ cfg \in {c \in Configs : Valid(c)}
    /\ profile \in {"LocalMemory", "ExternalContext"}
    /\ session \in IF profile = "LocalMemory"
                  THEN {[k \in DOMAIN v |-> [tokens |-> v[k], own |-> FALSE]] : v \in SessionViews}
                  ELSE {<<>>}
    /\ memory \in IF profile = "LocalMemory" THEN Memories ELSE {[abstracts |-> <<>>, raws |-> <<>>]}
    /\ phase = "history" /\ history = <<>>
    /\ summaries = <<>> /\ used = 0 /\ rounds = 0

\* The host's own durable conversation, RunOptions::conversation_history, grows (a
\* legal call, or a malformed one). The options take one with either profile.
Hear ==
    /\ phase = "history" /\ Len(history) < MaxHistory
    /\ \E m \in Messages : history' = Append(history, m)
    /\ UNCHANGED <<cfg, profile, phase, session, memory, summaries, used, rounds>>

HistoryBudget == RemainingTokens(cfg) - FixedTokens(cfg)

\* run_turn_with_options trims the history before it looks at the profile, and
\* refuses the turn when the prompt alone leaves less than nothing. (That
\* AssembleExternalContextNode trims it again changes nothing: HistoryCoherent.)
StartTurn ==
    /\ phase = "history"
    /\ IF HistoryBudget < 0
       THEN phase' = "refused" /\ UNCHANGED history
       ELSE phase' = "turn" /\ history' = TrimHistory(history, HistoryBudget)
    /\ UNCHANGED <<cfg, profile, session, memory, summaries, used, rounds>>

\* to_model_input: the assembled context, or with external context the system prompt
\* alone, with the history, the user's message and the turn's own messages.
RequestTokens ==
    (IF profile = "LocalMemory" THEN AssembledTokens ELSE SystemTokens)
    + HistoryTokens(history) + WorkingTokens + used

\* ToolExecutionNode refuses before anything runs: a round over the call bound,
\* or a transcript that cannot hold even the empty envelopes.
RefuseRound(calls) ==
    /\ phase = "turn" /\ rounds < MaxRounds
    /\ \/ Len(calls) > cfg.maxToolCalls
       \/ MinimumAssistant(calls) + MinimumResults(calls) > Available
    /\ phase' = "refused"
    /\ UNCHANGED <<cfg, profile, history, session, memory, summaries, used, rounds>>

\* ToolExecutionNode: the tools run, their results are bounded for storage and
\* for the model and appended to the transcript and, with local memory, as raw
\* nodes to the session view.
ToolRound(calls, text, outcomes) ==
    LET assistant == AssistantTokens(calls, text)
        sent == SentResults(calls, outcomes, assistant)
        transcript == used + assistant + ResultTokens(calls, sent)
    IN  /\ phase = "turn" /\ rounds < MaxRounds
        /\ Len(calls) <= cfg.maxToolCalls
        /\ MinimumAssistant(calls) + MinimumResults(calls) <= Available
        /\ IF Available - assistant < MinimumResults(calls)
           THEN phase' = "refused" /\ UNCHANGED <<session, summaries, used, rounds>>
           ELSE IF ~Storable(calls, outcomes) \/ transcript > cfg.reserveTools
           THEN phase' = "unreportable" /\ UNCHANGED <<session, summaries, used, rounds>>
           ELSE /\ used' = transcript /\ rounds' = rounds + 1 /\ UNCHANGED phase
                /\ summaries' = summaries \o sent
                /\ session' = session \o
                      IF profile = "LocalMemory"
                      THEN [k \in DOMAIN sent |-> [tokens |-> sent[k], own |-> TRUE]] ELSE <<>>
        /\ UNCHANGED <<cfg, profile, history, memory>>

TranscriptNext ==
    \/ Hear
    \/ StartTurn
    \/ \E calls \in CallChoices : RefuseRound(calls)
    \/ \E calls \in CallChoices, text \in Texts :
          \E outcomes \in [DOMAIN calls -> Outcomes] : ToolRound(calls, text, outcomes)

TranscriptSpec == TranscriptInit /\ [][TranscriptNext]_transcriptVars

----------------------------------------------------------------------------
(* Properties                                                                *)

\* Message j of h answers a call of the assistant message at i.
Answers(h, i, j) ==
    /\ h[i].role = "assistant" /\ \A k \in (i + 1)..j : h[k].role = "tool"
    /\ h[j].id \in ToSet(h[i].calls)

\* A tool message answers a call, and the calls of an assistant message have one
\* answer each.
Correlated(h) ==
    \A j \in DOMAIN h :
        /\ h[j].role = "tool" => \E i \in 1..(j - 1) : Answers(h, i, j)
        /\ h[j].role = "assistant" => /\ {h[k].id : k \in FollowingTools(h, j)} = ToSet(h[j].calls)
                                      /\ Cardinality(FollowingTools(h, j)) = Len(h[j].calls)

Users(h) == Chosen(h, {k \in DOMAIN h : h[k].role = "user"})

\* Whatever history a host hands over, what the model is sent of it is well
\* formed and recent: every tool result follows the call it answers, every call
\* has exactly one result, the whole fits the budget, no user message is dropped
\* while an older one stays, and trimming it again removes nothing
\* (trim_conversation_history, coherent_conversation_groups).
HistoryCoherent ==
    (phase = "history" /\ HistoryBudget >= 0) =>
        LET kept == TrimHistory(history, HistoryBudget)
        IN  /\ Correlated(kept)
            /\ HistoryTokens(kept) <= HistoryBudget
            /\ IsSuffix(Users(kept), Users(history))
            /\ TrimHistory(kept, HistoryBudget) = kept

\* How far a request exceeds the context window the host configured, through every
\* round of tools. With external context, not at all. With local memory the budgets
\* of session, memory and tool results never overlap with one another or with the
\* turn's own messages, but they take all that the reserves leave; what is sent
\* besides, the host's history and what prompt and message need beyond their
\* reserves, comes on top. It is measured against the same remainder once more, so
\* the two of them together never exceed that.
PromptFits ==
    phase = "turn" =>
        LET besides == IF profile = "LocalMemory" THEN HistoryTokens(history) + FixedTokens(cfg) ELSE 0
        IN  /\ RequestTokens <= cfg.total + besides
            /\ besides <= RemainingTokens(cfg)

\* Once the minimum envelopes of a round are reserved the tools may run: no later
\* check, of the storage bound or of the transcript, can fail and leave a side
\* effect without a report ("a side-effecting tool must not run and leave an
\* unreportable result").
NothingLostAfterRun == phase # "unreportable"
=============================================================================
