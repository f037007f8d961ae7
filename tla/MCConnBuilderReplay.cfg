\* A refused edge in the forward pass of a make_symmetric one-to-one
\* connect, followed by the endpoint-swapped replay.
CONSTANTS
  Threads <- MCThreads
  NodeIds <- MCNodeIds
  Collections <- MCReplayAfterFailure
  Refusals <- MCRefusals
  NoFailure = NoFailure
SPECIFICATION Spec
PROPERTY
  NoWorkAfterFailure
CHECK_DEADLOCK FALSE
