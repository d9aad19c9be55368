\* Blocks that hold an entry and a half, as 1024 bytes hold 17 entries and 4 bytes.
CONSTANTS
  NUM_GROUPS = 2
  RESERVED_OFFSET_GROUPS = 2
  BLOCKS_GROUP_RESERVED = 3
  BLOCKS_PER_INODE = 2
  NUM_INODES_PER_GROUP = 6
  DATA_BLOCKS_PER_GROUP = 2
  DISK_BLOCKS = 45
  OFFSET_SPAN = 55
  COUNT_SPAN = 7
  UID_SPAN = 24
  BLOCK_SIZE = 3
  Cell <- EntryValues
  Junk = 99
  Modes <- BothModes
  Kinds = {TRUE, FALSE}
  Payloads <- NoPayloads
  AtPayloads <- NoPayloads
  Positions <- NoPositions
  JunkInodes <- NoJunk
  ExclusiveOpen = TRUE
  MaxFiles = 4
  MaxOpens = 0
  MaxLinks = 2
  MaxDeletions = 2
  PathNames <- TwoNames
  PermissionStrings <- RW
SPECIFICATION ShellSpec
PROPERTY ListingsKept
\* exit() ends the process.
CHECK_DEADLOCK FALSE
