\* The constants of shared_types.h.
CONSTANTS
  NUM_GROUPS = 4
  RESERVED_OFFSET_GROUPS = 3
  BLOCKS_GROUP_RESERVED = 4
  BLOCKS_PER_INODE = 9
  NUM_INODES_PER_GROUP = 7800
  DATA_BLOCKS_PER_GROUP = 7800
  DISK_BLOCKS = 1048579
  OFFSET_SPAN = 2097152
  UID_SPAN = 65536
  SAFE_INODES = 612
SPECIFICATION Spec
INVARIANTS
  InodesSpareMetadata
  InodeSlotsDistinct
  SafeInodesSound
\* The walk ends after the last uid.
CHECK_DEADLOCK FALSE
