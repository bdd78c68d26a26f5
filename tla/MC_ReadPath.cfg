SPECIFICATION PathSpec
CONSTANTS
  RawIds = {1, 2, 3}
  A = A
  B = B
  l1 = l1
  l2 = l2
  Sessions = {A, B}
  Loops = {l1, l2}
  Times = {1, 2, 3}
  DayLength = 2
  Keys = {"k"}
  NoKey = "none"
  SessionCap = 2
  LoopCap = 3
  ShardCap = 2
  MaxTouches = 1
  SessionOf <- MCSessionOf
  Similarity <- MCSimilarity
  AbstractIds = {1, 2, 3}
  Contents <- MCContents
  PredicateOrder <- MCPredicateOrder
  Closeness <- MCCloseness
  MaxTopK = 2
  MaxDepth = 2
  MaxHits = 2
  MaxProvenance = 2
  MaxTimeline = 2
  Enabled = {"semantic_search_memory", "graph_search_memory", "provenance_lookup", "timeline_search"}
  MaxHistory = 4
  MaxRounds = 2
  SystemTokens = 3
  WorkingTokens = 3
  Messages <- MCMessages
  Configs <- MCConfigs
  SessionViews <- MCViews
  Memories <- MCMemories
  CallChoices <- MCCalls
  Texts = {0, 2, 30}
  Outcomes <- MCOutcomes
  EmptyText = 0
  EmptyObject = 1
  Marker = 3
  EmptyPreview = 4
INVARIANTS TimelineAgrees ReadsAgree SearchAgrees RebuildChangesNothing SessionIsolation ProvenanceReadable TraversalCorrect HistoryCoherent PromptFits NothingLostAfterRun
SYMMETRY Exchange
CHECK_DEADLOCK FALSE
