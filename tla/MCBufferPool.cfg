\* Two frames of the pool and one from malloc for four blocks, one of them not there.
CONSTANTS
  num_blocks = 2
  NUM_DISK_BLOCKS = 4
  MissingBlocks = {3}
  Headers <- TwoHeaders
  UninitializedHeaders <- TwoHeaders
  MaxForeign = 1
SPECIFICATION Spec
INVARIANTS
  TypeOK
  FewBlocksCachedRight
  NoFrameLost
\* Nothing is said of a pool that has used a deleted node.
CHECK_DEADLOCK FALSE
