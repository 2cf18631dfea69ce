SPECIFICATION Spec
CONSTANTS
  Reqs = {1, 2, 3, 4}
  Queues = {"reads", "writes"}
  ReadQueues = {"reads"}
  queue <- MCQueue
  offset <- MCOffset
  len <- MCLen
  MaxResets = 1
INVARIANTS TypeOK LocalAverages LocalBandwidth GlobalAgrees
CHECK_DEADLOCK FALSE
