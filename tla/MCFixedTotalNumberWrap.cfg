\* N = 2^UIntBits with sum_partitions as a 2-bit unsigned int.
CONSTANTS
  Threads <- MCThreads
  NodeIds <- MCNodeIds
  Confs <- MCWrapConfs
  UIntBits <- MCSmallUIntBits
  NoFailure = NoFailure
SPECIFICATION Spec
INVARIANT
  PartitionSumsToN
CHECK_DEADLOCK FALSE
