SPECIFICATION GapSpec
CONSTANTS
  Reqs = {1, 2, 3}
  Cancellers = {}
  Files = {1, 2}
  NLines = 2
  LineOf <- MCLineOf
  max_queue_id = 2
  weight <- MCWeight
  Arguments <- TwoFilesOrGap
  Algs = {"NOOP", "TO-agg", "SJF", "WFQ", "TWINS"}
  IntBits = 4
  MaxAggreg = 2
  config_mlf_quantum = 1
  config_aioli_quantum = 2
  MAX_MLF_LOCK_TRIES = 1
  INT_MAX = 10
  config_waiting_time = 1
  ListCallback = TRUE
  MayExit = TRUE
INVARIANTS AggregatesHold
PROPERTIES EverySoonServed ExitReturns
CHECK_DEADLOCK FALSE
