CONSTANTS
  Threads <- MCThreads
  NodeIds <- MCNodeIds
  Confs <- MCConfs
  NoFailure = NoFailure
SPECIFICATION Spec
INVARIANTS
  TypeOK
  EdgesMatchReference
  ElementCountsMatchEdges
PROPERTIES
  Termination
CHECK_DEADLOCK FALSE
