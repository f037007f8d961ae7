\* A refused edge for one source, then the regions of later sources.
CONSTANTS
  Threads <- MCThreads
  NodeIds <- MCNodeIds
  Confs <- MCRefusedConfs
  NoFailure = NoFailure
SPECIFICATION Spec
PROPERTY
  NoWorkAfterFailure
CHECK_DEADLOCK FALSE
