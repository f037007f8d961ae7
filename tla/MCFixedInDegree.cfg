CONSTANTS
  Threads <- MCThreads
  NodeIds <- MCNodeIds
  Confs <- MCConfs
  NoFailure = NoFailure
SPECIFICATION Spec
INVARIANTS
  TypeOK
  NoForbiddenEdges
  InDegreesAsDrawn
  ArrayValuesFollowSchedule
PROPERTIES
  Termination
CHECK_DEADLOCK FALSE
