\* One file whose inode is always readable, and rename_file.
CONSTANTS
  NUM_GROUPS = 2
  RESERVED_OFFSET_GROUPS = 2
  BLOCKS_GROUP_RESERVED = 3
  BLOCKS_PER_INODE = 2
  NUM_INODES_PER_GROUP = 6
  DATA_BLOCKS_PER_GROUP = 2
  DISK_BLOCKS = 45
  OFFSET_SPAN = 55
  COUNT_SPAN = 7
  UID_SPAN = 24
  BLOCK_SIZE = 2
  Cell = {0, 1, 2}
  Junk = 2
  Modes <- OneMode
  Kinds = {FALSE}
  Payloads <- OneOrTwoCells
  AtPayloads = {}
  Positions = {0}
  JunkInodes <- StackJunk
  ExclusiveOpen = FALSE
  MaxFiles = 1
  MaxOpens = 2
  MaxLinks = 2
  MaxDeletions = 1
SPECIFICATION Spec
PROPERTIES
  DetachedOnlyByDeletion
\* exit() ends the process.
CHECK_DEADLOCK FALSE
