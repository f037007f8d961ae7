CONSTANTS
  Threads <- MCThreads
  NodeIds <- MCNodeIds
  Confs <- MCConfs
  MaxTape <- MCMaxTape
  NoFailure = NoFailure
SPECIFICATION Spec
INVARIANTS
  TypeOK
  PrimaryEdgesSimple
  BernoulliExtremes
  SymmetricEdges
  BlockPoolsMatchSpec
  ThirdFactorTriads
  ThirdFactorInPool
  EdgesFollowSyncedStream
PROPERTIES
  Termination
CHECK_DEADLOCK FALSE
