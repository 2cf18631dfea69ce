SPECIFICATION OrderedSpec
CONSTANTS
  Reqs = {1, 2, 3}
  Cancellers = {}
  Files = {1}
  NLines = 1
  LineOf <- MCLineOf
  max_queue_id = 2
  weight <- MCWeight
  Arguments <- Further
  Algs = {"MLF", "aIOLi"}
  IntBits = 3
  MaxAggreg = 2
  config_mlf_quantum = 1
  config_aioli_quantum = 2
  MAX_MLF_LOCK_TRIES = 1
  INT_MAX = 10
  config_waiting_time = 2
  ListCallback = TRUE
  MayExit = FALSE
INVARIANTS OneWaitForEachReason
PROPERTIES EverySoonServed
