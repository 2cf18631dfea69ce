SPECIFICATION Spec
CONSTANTS
  Reqs = {1, 2, 3, 4}
  line <- MCLine
  Garbage = 0
  config_agios_max_trace_buffer_size = 5
  Configs <- Retries
  MaxQueueIds = {0, 2}
  Again = FALSE
  Failures = {"pthread_create"}
  config_agios_performance_values = 2
INVARIANTS TracedInOrder BufferFits FreedOnce ServesIfInitialized
CHECK_DEADLOCK FALSE
