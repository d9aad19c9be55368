CONSTANTS
  NUM_GROUPS = 2
  RESERVED_OFFSET_GROUPS = 2
  BLOCKS_GROUP_RESERVED = 3
  BLOCKS_PER_INODE = 2
  NUM_INODES_PER_GROUP = 6
  DATA_BLOCKS_PER_GROUP = 2
  DISK_BLOCKS = 45
  OFFSET_SPAN = 55
  COUNT_SPAN = 7
  UID_SPAN = 24
  BLOCK_SIZE = 1
  Cell = {0}
  Junk = 0
  MaxInodeCalls = 7
  MaxBlockCalls = 3
SPECIFICATION Spec
INVARIANTS
  TypeOK
  MetadataIntact
  BitmapsRecordEveryCall
  IInv
PROPERTIES
  InodesFresh
  BlocksFresh
