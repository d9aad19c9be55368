\* Uninitialized inodes, deletions until the count of free inodes wraps.
CONSTANTS
  NUM_GROUPS = 2
  RESERVED_OFFSET_GROUPS = 2
  BLOCKS_GROUP_RESERVED = 3
  BLOCKS_PER_INODE = 2
  NUM_INODES_PER_GROUP = 6
  DATA_BLOCKS_PER_GROUP = 2
  DISK_BLOCKS = 32
  OFFSET_SPAN = 55
  COUNT_SPAN = 7
  UID_SPAN = 24
  BLOCK_SIZE = 1
  Cell = {0}
  Junk = 0
  Modes <- OneMode
  Kinds = {FALSE}
  Payloads <- OneZero
  AtPayloads <- OneZero
  Positions = {0}
  JunkInodes <- WildJunk
  ExclusiveOpen = FALSE
  MaxFiles = 2
  MaxOpens = 1
  MaxLinks = 1
  MaxDeletions = 8
SPECIFICATION Spec
INVARIANTS
  MetadataHome
PROPERTY FilesDetachedByDeletion
\* exit() ends the process.
CHECK_DEADLOCK FALSE
