SPECIFICATION Spec
CONSTANTS
  Producers = {p1}
  Consumers = {c1, c2}
  Iterations = 2
  STACK_MAX_SIZE = 1
  Builds = {TRUE}
  SpuriousWakeups = FALSE
  Occurrences <- MCOccurrences
  SearchString <- Overlapping
  BLOCK_GENERATE_SIZE = 8
  pData <- MCpData
  NoThread = NoThread
  NoBlock = NoBlock
INVARIANT
  TotalAppearances
