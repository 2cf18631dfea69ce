SPECIFICATION Spec
CONSTANTS
  Reqs = {r1, r2, r3}
  Cancellers = {}
  Files = {1, 2}
  NLines = 2
  LineOf <- MCLineOf
  max_queue_id = 2
  weight <- MCWeight
  Arguments <- Contiguous
  Algs = {"NOOP", "TO", "TO-agg", "SW", "SJF", "WFQ", "TWINS", "MLF", "aIOLi"}
  IntBits = 4
  MaxAggreg = 3
  config_mlf_quantum = 1
  config_aioli_quantum = 2
  MAX_MLF_LOCK_TRIES = 1
  INT_MAX = 10
  config_waiting_time = 1
  ListCallback = TRUE
  MayExit = FALSE
INVARIANTS TypeOK NoAbort FirstComeFirstServed OffsetOrder ListsContiguous ReleaseAccepted NoMoreThanShare CreditForHead OnePlace
SYMMETRY Symmetry
