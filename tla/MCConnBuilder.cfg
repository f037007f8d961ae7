CONSTANTS
  Threads <- MCThreads
  NodeIds <- MCNodeIds
  Collections <- MCCollections
  Refusals <- MCRefusals
  NoFailure = NoFailure
SPECIFICATION Spec
INVARIANTS
  TypeOK
  CursorsInLockstep
  DisconnectRemovesForwardPairs
PROPERTIES
  Refinement
  Termination
CHECK_DEADLOCK FALSE
