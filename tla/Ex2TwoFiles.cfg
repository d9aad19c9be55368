\* Two files of three blocks, each open at most once, and three data blocks for both.
CONSTANTS
  NUM_GROUPS = 1
  RESERVED_OFFSET_GROUPS = 2
  BLOCKS_GROUP_RESERVED = 3
  BLOCKS_PER_INODE = 3
  NUM_INODES_PER_GROUP = 6
  DATA_BLOCKS_PER_GROUP = 3
  DISK_BLOCKS = 23
  OFFSET_SPAN = 30
  COUNT_SPAN = 7
  UID_SPAN = 12
  BLOCK_SIZE = 2
  Cell = {0, 1}
  Junk = 1
  Modes <- OneMode
  Kinds = {FALSE}
  Payloads <- LongPayloads
  AtPayloads <- SixCells
  Positions <- WithinLimit
  JunkInodes <- NoJunk
  ExclusiveOpen = TRUE
  MaxFiles = 2
  MaxOpens = 2
  MaxLinks = 1
  MaxDeletions = 1
SPECIFICATION Spec
INVARIANTS
  InodesNameThemselves
  NoSharedDataBlock
  HeldIsMarked
  CachedSizeIsCurrent
PROPERTIES
  OneFileAtATime
  ImplementsFileStore
\* exit() ends the process.
CHECK_DEADLOCK FALSE
