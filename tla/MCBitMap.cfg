CONSTANTS
  T = 7
  block_size = 3
  Asked <- Arguments
SPECIFICATION Spec
INVARIANTS
  SpareBitsClear
PROPERTY ImplementsBitSet
