SPECIFICATION SessionSpec
CONSTANTS
  Loops = {"l1", "l2"}
  Budget <- MCBudget
  MaxSession = 4
  Cost <- MCCost
  Similarity <- MCSimilarityFound
  Importance <- MCImportance
  SearchWindow = 4
  RawBudget = 2
  Threshold = 72
  RelaxedThreshold = 63
  TimeDecay = FALSE
  Relax = 1
  Batch = 2
  MaxRounds <- MCMaxRounds
  MaxActive = 2
  MaxTime = 2
PROPERTIES HelpExpires
CHECK_DEADLOCK FALSE
