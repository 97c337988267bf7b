SPECIFICATION Spec
CONSTANTS
  Producers = {p1, p2}
  Consumers = {c1, c2, c3}
  Iterations = 2
  STACK_MAX_SIZE = 2
  Builds = {TRUE, FALSE}
  SpuriousWakeups = TRUE
  Occurrences <- MCOccurrences
  SearchString <- Overlapping
  BLOCK_GENERATE_SIZE = 8
  pData <- MCpData
  NoThread = NoThread
  NoBlock = NoBlock
INVARIANTS
  TypeOK
  MutualExclusion
  Accounting
  NoEarlyExit
  NoStrandedBlock
  NoStrandedConsumer
  DrumrollExact
  FoundExact
PROPERTY
  StackSpec
SYMMETRY
  Alike
