SPECIFICATION SessionSpec
CONSTANTS
  Loops = {"l1", "l2"}
  Budget <- MCBudget
  MaxSession = 3
  Cost <- MCCost
  Similarity <- MCSimilarity
  Importance <- MCImportance
  SearchWindow = 4
  RawBudget = 2
  Threshold = 72
  RelaxedThreshold = 63
  TimeDecay = TRUE
  Relax = 1
  Batch = 2
  MaxRounds <- MCMaxRounds
  MaxActive = 2
  MaxTime = 2
INVARIANTS NeverOverlooked
CHECK_DEADLOCK FALSE
