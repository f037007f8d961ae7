\* one_to_one sp_connect_ then sp_disconnect_ over a self pair, autapses off.
CONSTANTS
  Threads <- MCThreads
  NodeIds <- MCNodeIds
  Confs <- MCRoundTripConfs
  NoFailure = NoFailure
SPECIFICATION Spec
INVARIANT
  RoundTrip
CHECK_DEADLOCK FALSE
