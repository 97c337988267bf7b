SPECIFICATION FairSpec
CONSTANTS
  Producers = {p1, p2, p3}
  Consumers = {c1, c2}
  Iterations = 1
  STACK_MAX_SIZE = 1
  Builds = {TRUE}
  SpuriousWakeups = FALSE
  Occurrences <- MCOccurrences
  SearchString <- Overlapping
  BLOCK_GENERATE_SIZE = 8
  pData <- MCpData
  NoThread = NoThread
  NoBlock = NoBlock
PROPERTIES
  Termination
  StackFairSpec
