\* all_to_all sp_connect_ with an array parameter under every layout.
CONSTANTS
  Threads <- MCThreads
  NodeIds <- MCNodeIds
  Confs <- MCAllToAllArrayConfs
  NoFailure = NoFailure
SPECIFICATION Spec
INVARIANT
  EdgesMatchReference
CHECK_DEADLOCK FALSE
