SPECIFICATION RpcSpec
CONSTANTS
  Capacity = 2
  QueueCapacity = 2
  MaxReq = 5
  MaxRuns = 2
  InboundCapacity = 2
  RpcScopes <- MCScopes
INVARIANT StartAcknowledged
INVARIANT HandleBound
INVARIANT SessionFinalized
PROPERTY FeedImplemented
PROPERTY NobodyStuck
CHECK_DEADLOCK FALSE
