SPECIFICATION Spec
CONSTANTS
  NBLOCKS = 11
  INODES_PER_BLOCK = 2
  POINTERS_PER_INODE = 2
  FS_MAGIC = 9
  CHUNK <- TwoBlocks
  Values = {1}
  Lengths <- SomeLengths
  Inumbers = {0, 1, 2, 100}
  Garbage = {0}
  Habits <- RecklessHabits
  MaxSize = 84
PROPERTY
  FormatClears
