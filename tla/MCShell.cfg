\* Three creations, in directories of one block that holds two entries.
CONSTANTS
  NUM_GROUPS = 2
  RESERVED_OFFSET_GROUPS = 2
  BLOCKS_GROUP_RESERVED = 3
  BLOCKS_PER_INODE = 1
  NUM_INODES_PER_GROUP = 6
  DATA_BLOCKS_PER_GROUP = 2
  DISK_BLOCKS = 84
  OFFSET_SPAN = 88
  COUNT_SPAN = 7
  UID_SPAN = 24
  BLOCK_SIZE = 4
  Cell <- EntryValues
  Junk = 99
  Modes <- BothModes
  Kinds = {TRUE, FALSE}
  Payloads <- NoPayloads
  AtPayloads <- NoPayloads
  Positions <- NoPositions
  JunkInodes <- NoJunk
  ExclusiveOpen = TRUE
  MaxFiles = 4
  MaxOpens = 0
  MaxLinks = 2
  MaxDeletions = 2
  PathNames <- TwoNames
  PermissionStrings <- ThreePermissions
SPECIFICATION ShellSpec
INVARIANTS
  
  BetweenCalls
PROPERTIES
  ListingsKept
  DiesOnlyOverDirectories
  FoundByFreshName
  LinkedByBothNames
\* exit() ends the process.
CHECK_DEADLOCK FALSE
