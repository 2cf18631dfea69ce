SPECIFICATION Spec
CONSTANTS
  Reqs = {r1, r2, r3}
  Cancellers = {}
  Files = {1, 2}
  NLines = 2
  LineOf <- MCLineOf
  max_queue_id = 2
  weight <- MCWeight
  Arguments <- TwoFiles
  Algs = {"SW"}
  IntBits = 4
  MaxAggreg = 1
  config_mlf_quantum = 1
  config_aioli_quantum = 2
  MAX_MLF_LOCK_TRIES = 1
  INT_MAX = 10
  config_waiting_time = 1
  ListCallback = TRUE
  MayExit = FALSE
INVARIANTS WindowOrder
SYMMETRY Symmetry
CHECK_DEADLOCK FALSE
