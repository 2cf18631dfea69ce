SPECIFICATION Spec
CONSTANTS
  Reqs = {1, 2, 3, 4}
  line <- MCLine
  Garbage = 0
  config_agios_max_trace_buffer_size = 5
  Configs <- Lives
  MaxQueueIds = {0, 2}
  Again = TRUE
  Failures = {"pthread_create"}
  config_agios_performance_values = 2
INVARIANTS ServesWhileOpen
CHECK_DEADLOCK FALSE
