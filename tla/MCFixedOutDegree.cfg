CONSTANTS
  Threads <- MCThreads
  NodeIds <- MCNodeIds
  Confs <- MCConfs
  NoFailure = NoFailure
SPECIFICATION Spec
INVARIANTS
  TypeOK
  NoForbiddenEdges
  OutDegreesAsDrawn
  ArrayValuesFollowSchedule
PROPERTIES
  Termination
CHECK_DEADLOCK FALSE
