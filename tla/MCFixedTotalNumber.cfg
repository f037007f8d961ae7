CONSTANTS
  Threads <- MCThreads
  NodeIds <- MCNodeIds
  Confs <- MCConfs
  UIntBits <- MCUIntBits
  NoFailure = NoFailure
SPECIFICATION Spec
INVARIANTS
  TypeOK
  PartitionSumsToN
  EdgesFollowPartition
PROPERTIES
  Termination
CHECK_DEADLOCK FALSE
