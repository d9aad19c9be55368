\* Two lists over three nodes, loops whose bodies make up to two changes.
CONSTANTS
  Lists = {1, 2}
  Nodes = {1, 2, 3}
  MaxChanges = 2
SPECIFICATION Spec
INVARIANTS
  TypeOK
  Mirrored
  ListsApart
  LoopKeepsToItsList
PROPERTIES
  LoopEnds
  ImplementsNodeLists
\* Both lists may have been destroyed.
CHECK_DEADLOCK FALSE
