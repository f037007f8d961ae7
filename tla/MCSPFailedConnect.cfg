\* SPBuilder::sp_connect with a storage that refuses edges onto node 3.
CONSTANTS
  Threads <- MCThreads
  NodeIds <- MCNodeIds
  Confs <- MCRefusedConfs
  NoFailure = NoFailure
SPECIFICATION Spec
INVARIANT
  FailedConnectKeepsCounts
CHECK_DEADLOCK FALSE
