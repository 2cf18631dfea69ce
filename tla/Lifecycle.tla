----------------------------- MODULE Lifecycle -----------------------------
(***************************************************************************)
(* The library from agios_init to agios_exit, and again: the configuration *)
(* that is read, the memory that is allocated and freed, the thread that   *)
(* starts and ends, and what all of them leave behind in the global        *)
(* variables.  What the thread does with requests is in AgiosCore; here    *)
(* requests are added and traced.                                          *)
(*                                                                         *)
(* Memory is never exhausted.                                              *)
(***************************************************************************)
EXTENDS TraceBuffer

CONSTANTS
  Configs,      \* Configs[i]: the files the i-th call of agios_init may name
  MaxQueueIds,  \* the values it may give max_queue_id
  Again,        \* whether it may be called after agios_exit
  Failures,     \* "fopen", "pthread_create": which calls of the system may fail
  config_agios_performance_values

Algorithms == {"SJF", "MLF", "WFQ"}   \* without init and exit, and with each of the two

\* A configuration file: whether it can be read, which of its names is of no algorithm,
\* the parameters in it, and whether the file with the weights of WFQ is there.
Config == [readable : BOOLEAN, unknown : {"none", "default_algorithm", "starting_algorithm"},
           trace : BOOLEAN, alg : Algorithms, weights : BOOLEAN]

ASSUME LifecycleAssumption ==
  /\ \A i \in DOMAIN Configs : Configs[i] \subseteq Config
  /\ Configs \in Seq(SUBSET Config)
  /\ MaxQueueIds \subseteq Nat
  /\ Again \in BOOLEAN
  /\ config_agios_performance_values \in Nat \ {0}

VARIABLES
  main,     \* where the user's thread is
  inits,    \* how often it called agios_init
  thread,   \* the AGIOS thread
  config,   \* the parameters in force: alg, trace, weights
  lost,     \* memory of libconfig was left behind: the only pointer to it was local
  live,     \* global pointers to memory that is allocated
  dangling, \* global pointers to memory that was freed
  wrong,    \* memory was used or freed after it was freed, or a file closed that is
            \* NULL, or the only pointer to something overwritten
  multi_timeline_size, performance_info_len,
  locked,              \* lock_all_data_structures was called, not yet unlock_all
  current_scheduler, g_agios_thread_stop

heap     == <<live, dangling, wrong>>
leftover == <<multi_timeline_size, performance_info_len, locked, current_scheduler,
              g_agios_thread_stop>>
vars     == <<main, inits, thread, config, lost, heap, leftover, traceVars>>

NULL    == "none"
NonNull == live \cup dangling

Init ==
  /\ main = "out" /\ inits = 0 /\ thread = "none"
  /\ config = [alg |-> "SJF", trace |-> FALSE, weights |-> TRUE]
  /\ lost = FALSE /\ live = {} /\ dangling = {} /\ wrong = FALSE
  /\ multi_timeline_size = 0 /\ performance_info_len = 0
  /\ locked = FALSE /\ current_scheduler = NULL /\ g_agios_thread_stop = FALSE
  /\ NoTrace

\* No variable is set to NULL when what it points to is freed.
HeapStep(allocated, freed, mistake) ==
  /\ live' = (live \cup allocated) \ freed
  /\ dangling' = (dangling \ allocated) \cup freed
  /\ wrong' = (wrong \/ mistake \/ allocated \cap live # {} \/ freed \cap dangling # {})

-----------------------------------------------------------------------------
(* What each module frees at the end.                                      *)

\* Mutant: the name of WFQ's file is forgotten.
cleanup_config_parameters_NoWFQ == {"file_prefix", "file_sufix"} \cap NonNull

cleanup_config_parameters == {"file_prefix", "file_sufix", "wfq_conf_file"} \cap NonNull

\* The entries that are still in the list.
cleanup_performance_module == {"performance_entry"} \cap live

hashtable_cleanup == {"hashlist", "hashlist_locks", "hashlist_reqcounter"} \cap NonNull

timeline_cleanup == IF multi_timeline_size > 0 THEN {"multi_timeline"} ELSE {}

\* With the file that close_agios_trace closes.
cleanup_agios_trace ==
  IF config.trace THEN {"tracefile_fd"} \cup ({"tracefile_buffer", "aux_buf"} \cap NonNull) ELSE {}

\* cleanup_agios, after the exit function of a scheduler freed what is in freed.
cleanup_agios(freed) ==
  /\ HeapStep({}, freed \cup cleanup_config_parameters \cup cleanup_performance_module
                  \cup hashtable_cleanup \cup timeline_cleanup \cup cleanup_agios_trace,
              config.trace /\ ~ {"tracefile_fd", "tracefile_buffer"} \subseteq live)
  /\ IF config.trace THEN close_agios_trace ELSE UNCHANGED traceVars
  /\ UNCHANGED leftover

\* The error path of agios_init.
Fail == main' = "out" /\ cleanup_agios({}) /\ UNCHANGED thread

-----------------------------------------------------------------------------
(* agios_init.                                                             *)

MayInit == main = "out" /\ (Again \/ ~ g_agios_thread_stop)

\* The files the next call may name.
Offered == IF inits < Len(Configs) THEN Configs[inits + 1] ELSE {}

Strings(c) == {"file_prefix", "file_sufix"} \cup IF c.alg = "WFQ" THEN {"wfq_conf_file"} ELSE {}

\* A file that cannot be read is no error: the parameters stay as they are, and so
\* does what config_init allocated, for only the last path calls config_destroy.
KeepConfiguration(c) ==
  /\ MayInit /\ ~ c.readable
  /\ inits' = inits + 1 /\ main' = "configured" /\ lost' = TRUE
  /\ UNCHANGED <<thread, config, heap, leftover, traceVars>>

read_configuration_file(c) ==
  /\ MayInit /\ c.readable /\ c.unknown = NULL
  /\ inits' = inits + 1 /\ main' = "configured"
  /\ config' = [alg |-> c.alg, trace |-> c.trace, weights |-> c.weights]
  /\ HeapStep(Strings(c), {}, FALSE)
  /\ UNCHANGED <<thread, lost, leftover, traceVars>>

\* The name of an algorithm is unknown.  The names of the trace file were allocated
\* before it; that of WFQ's file would be after both names.  If it is the default
\* algorithm's, that becomes SJF, else the default algorithm is already in force.
UnknownAlgorithm(c) ==
  /\ MayInit /\ c.readable /\ c.unknown # NULL
  /\ inits' = inits + 1 /\ main' = "failed" /\ lost' = TRUE
  /\ config' = [config EXCEPT !.trace = c.trace,
                              !.alg = IF c.unknown = "default_algorithm" THEN "SJF" ELSE c.alg]
  /\ HeapStep({"file_prefix", "file_sufix"}, {}, FALSE)
  /\ UNCHANGED <<thread, leftover, traceVars>>

CleanUpFailed == main = "failed" /\ Fail /\ UNCHANGED <<inits, config, lost>>

hashtable_init == {"hashlist", "hashlist_locks", "hashlist_reqcounter"}

\* multi_timeline and its size stay as they are if max_queue_id is 0.
timeline_init(n) == IF n > 0 THEN {"multi_timeline"} ELSE {}

\* If an earlier call failed with the mutexes locked, this one never returns.
allocate_data_structures(n) ==
  /\ main = "configured" /\ ~ locked
  /\ HeapStep(timeline_init(n) \cup hashtable_init, {}, FALSE)
  /\ multi_timeline_size' = IF n > 0 THEN n + 1 ELSE multi_timeline_size
  /\ locked' = TRUE /\ main' = "allocated"
  /\ UNCHANGED <<inits, thread, config, lost, performance_info_len, current_scheduler,
                 g_agios_thread_stop, traceVars>>

\* A buffer that is not NULL is used again, freed or not.
OpenTrace ==
  /\ main = "allocated" /\ config.trace
  /\ \E opened \in BOOLEAN :
       /\ opened \/ "fopen" \in Failures
       /\ main' = IF opened THEN "traced" ELSE "failed"
       /\ HeapStep((IF opened THEN {"tracefile_fd"} ELSE {})
                     \cup (IF opened THEN {"tracefile_buffer", "aux_buf"} \ NonNull ELSE {}),
                   {}, ~ {"file_prefix", "file_sufix"} \subseteq live)
       /\ IF opened THEN init_trace_module ELSE UNCHANGED traceVars
  /\ UNCHANGED <<inits, thread, config, lost, leftover>>

pthread_create ==
  /\ main = "traced" \/ (main = "allocated" /\ ~ config.trace)
  /\ \E created \in BOOLEAN :
       /\ created \/ "pthread_create" \in Failures
       /\ main' = IF created THEN "open" ELSE "failed"
       /\ thread' = IF created THEN "starting" ELSE thread
  /\ UNCHANGED <<inits, config, lost, heap, leftover, traceVars>>

-----------------------------------------------------------------------------
(* The AGIOS thread, the users' calls, and agios_exit.                     *)

SchedulerData(alg) ==
  CASE alg = "WFQ" -> {"wfq_weights"} [] alg = "MLF" -> {"MLF_lock_tries"} [] OTHER -> {}

\* WFQ_init opens the file with the weights, whose name may be in memory that was freed
\* and still hold it.
CanInitialize == config.alg = "WFQ" => config.weights /\ "wfq_conf_file" \in NonNull

\* It is sure to find the file only if nothing freed the name.
SureToInitialize == CanInitialize /\ (config.alg = "WFQ" => "wfq_conf_file" \in live)

\* The first entry of the history is freed at once if the number of entries, which
\* cleanup_performance_module leaves as it is, says that the history is full.
HistoryFull == performance_info_len + 1 > config_agios_performance_values

\* agios_thread, up to its loop.
StartThread ==
  /\ thread = "starting" /\ CanInitialize
  /\ HeapStep(SchedulerData(config.alg) \cup (IF HistoryFull THEN {} ELSE {"performance_entry"}),
              IF HistoryFull THEN {"performance_entry"} \ dangling ELSE {},
              ~ SureToInitialize)
  /\ current_scheduler' = config.alg
  /\ performance_info_len' = IF HistoryFull THEN performance_info_len
                             ELSE performance_info_len + 1
  /\ locked' = FALSE /\ thread' = "running"
  /\ UNCHANGED <<main, inits, config, lost, multi_timeline_size, g_agios_thread_stop, traceVars>>

\* Without the file initialize_scheduler returns NULL, which agios_thread dereferences:
\* the process is gone, while users wait for the mutexes.
CrashAtStart ==
  /\ thread = "starting" /\ ~ SureToInitialize
  /\ thread' = "crashed"
  /\ HeapStep({}, {}, config.alg = "WFQ" /\ "wfq_conf_file" \in dangling)
  /\ UNCHANGED <<main, inits, config, lost, leftover, traceVars>>

\* Mutant: the loop test is negated.
LeaveLoop_Negated ==
  /\ thread = "running" /\ ~ g_agios_thread_stop
  /\ thread' = "ended"
  /\ UNCHANGED <<main, inits, config, lost, heap, leftover, traceVars>>

\* The flag is looked at after every pass through the loop.
LeaveLoop ==
  /\ thread = "running" /\ g_agios_thread_stop
  /\ thread' = "ended"
  /\ UNCHANGED <<main, inits, config, lost, heap, leftover, traceVars>>

\* A request is added, and traced while its call holds the mutex of its structure.
agios_add_request(r) ==
  /\ main = "open" /\ ~ locked /\ current_scheduler # NULL
  /\ config.trace
  /\ \A i \in DOMAIN traced : traced[i] # r
  /\ agios_trace_add_request(r)
  /\ HeapStep({}, {}, ~ {"tracefile_buffer", "aux_buf"} \subseteq live)
  /\ UNCHANGED <<main, inits, thread, config, lost, leftover>>

stop_the_agios_thread ==
  /\ main = "open" /\ thread # "crashed"
  /\ main' = "joining" /\ g_agios_thread_stop' = TRUE
  /\ UNCHANGED <<inits, thread, config, lost, heap, multi_timeline_size, performance_info_len,
                 locked, current_scheduler, traceVars>>

\* The rest of agios_exit.
agios_exit ==
  /\ main = "joining" /\ thread = "ended"
  /\ main' = "out" /\ thread' = "none"
  /\ cleanup_agios(SchedulerData(current_scheduler))
  /\ UNCHANGED <<inits, config, lost>>

Next ==
  \/ \E c \in Offered :
       KeepConfiguration(c) \/ read_configuration_file(c) \/ UnknownAlgorithm(c)
  \/ CleanUpFailed
  \/ \E n \in MaxQueueIds : allocate_data_structures(n)
  \/ OpenTrace \/ pthread_create
  \/ StartThread \/ CrashAtStart \/ LeaveLoop
  \/ \E r \in Reqs : agios_add_request(r)
  \/ stop_the_agios_thread \/ agios_exit

Spec == Init /\ [][Next]_vars

-----------------------------------------------------------------------------
(* Properties.                                                             *)

\* What is in the file and what is still in the buffer is what was traced, line by
\* line in the order of the adds, across all flushes; once the library has ended it
\* is all in the file.  (If nothing was traced, the end prints a buffer nobody wrote.)
TracedInOrder ==
  traced # <<>> =>
    tracefile \o (IF agios_tracefile_buffer_size = 0 THEN <<>> ELSE agios_tracefile_buffer)
    = traced

\* The zero byte behind the last line is still inside the buffer.
BufferFits ==
  agios_tracefile_buffer_size = 0 \/ agios_tracefile_buffer_size < config_agios_max_trace_buffer_size

\* What the global pointers of the library lead to is freed once: nothing is used after
\* it was freed, nothing of it is left when agios_exit, or an agios_init that failed,
\* has returned (cleanup_agios), and the entry for the current algorithm is there while
\* the thread runs.  The structure of libconfig, to which no global pointer leads, is in
\* AllFreed.
FreedOnce ==
  /\ ~ wrong
  /\ main = "out" => live = {}
  /\ thread = "running" => "performance_entry" \in live

\* All memory is free when agios_exit, or an agios_init that failed, has returned, the
\* structure of libconfig included, which read_configuration_file destroys if it comes to
\* its end.
AllFreed == main = "out" => live = {} /\ ~ lost

\* "If agios_init is successful, then a scheduling thread will be executing in a
\* loop" (README), until agios_exit is called.
ServesWhileOpen == main = "open" => thread \in {"starting", "running"}

\* The same where the scheduler can be initialised: if it is WFQ, its file of weights is
\* there and its name was read (agios_thread, stop_the_agios_thread).
ServesIfInitialized == SureToInitialize => ServesWhileOpen
=============================================================================
