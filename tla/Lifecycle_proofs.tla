-------------------------- MODULE Lifecycle_proofs --------------------------
(***************************************************************************)
(* For any configuration files, requests, buffer and number of calls of    *)
(* agios_init: what is traced, and what is allocated and freed.            *)
(***************************************************************************)
EXTENDS Lifecycle, SequenceTheorems, TLAPS

Places     == {"out", "configured", "failed", "allocated", "traced", "open", "joining"}
FileLines  == Reqs \cup {Garbage}

\* One life of the trace file: it is opened after the data structures and closed
\* by agios_exit, or by an agios_init that cannot create the thread.
TraceOpen == config.trace /\ main \in {"traced", "open", "joining"}

TraceType ==
  /\ main \in Places /\ inits \in Nat
  /\ config \in [alg : Algorithms, trace : BOOLEAN, weights : BOOLEAN]
  /\ tracefile \in Seq(FileLines) /\ agios_tracefile_buffer \in Seq(FileLines)
  /\ traced \in Seq(FileLines) /\ agios_tracefile_buffer_size \in Nat

\* While the file is open, the occupancy tells whether the buffer is worth printing.
Printable ==
  TraceOpen =>
    /\ agios_tracefile_buffer_size = 0 => traced = <<>> /\ tracefile = <<>>
    /\ agios_tracefile_buffer_size > 0 => /\ traced # <<>>
                                          /\ tracefile \o agios_tracefile_buffer = traced
    /\ main = "traced" => agios_tracefile_buffer_size = 0

\* While it is not, everything is in the file, unless a file of another life was
\* closed once more, which an agios_init can only do after an agios_exit.
Complete ==
  ~ TraceOpen => /\ agios_tracefile_buffer_size = 0
                 /\ traced = <<>> \/ tracefile = traced \/ (wrong /\ Again)

\* A file that is open was opened by the current call of agios_init.
OwnFile ==
  "tracefile_fd" \in live => /\ config.trace
                             /\ main \in {"traced", "open", "joining", "failed"}
                             /\ main = "failed" => traced = <<>>

\* Requests are traced only by the life that opened the library; the flag says
\* that it has ended.
OneLife ==
  ~ Again => /\ g_agios_thread_stop => main \in {"joining", "out"}
             /\ traced # <<>> => main = "open" \/ g_agios_thread_stop

TraceInv == /\ TraceType /\ BufferFits /\ Printable /\ Complete /\ OwnFile /\ OneLife

\* The thread ends only after agios_exit has told it to, or with the process.
Serving == ~ Again => /\ g_agios_thread_stop => main \in {"joining", "out"}
                      /\ main = "open" => thread \in {"starting", "running", "crashed"}
                      /\ main = "open" /\ thread = "crashed" => ~ SureToInitialize

-----------------------------------------------------------------------------
\* The use of the library in which no call of the system but pthread_create fails:
\* one life, its files can be opened, all their names are known and the weights are
\* there; only the first file may be missing, or name an unknown algorithm (the default
\* or the starting one), if it does not ask for a trace.
GoodUse ==
  /\ ~ Again /\ "fopen" \notin Failures
  /\ \A i \in DOMAIN Configs : \A c \in Configs[i] :
       /\ c.readable => c.weights /\ (c.unknown = NULL \/ (i = 1 /\ ~ c.trace))
       /\ ~ c.readable => i = 1

Table   == {"hashlist", "hashlist_locks", "hashlist_reqcounter"}
Buffers == {"tracefile_fd", "tracefile_buffer", "aux_buf"}
Names   == {"file_prefix", "file_sufix", "wfq_conf_file", "performance_entry", "multi_timeline",
            "wfq_weights", "MLF_lock_tries"} \cup Table \cup Buffers

HeapType ==
  /\ main \in Places /\ inits \in Nat
  /\ thread \in {"none", "starting", "running", "ended"}  \* never "crashed"
  /\ config \in [alg : Algorithms, trace : BOOLEAN, weights : BOOLEAN]
  /\ multi_timeline_size \in Nat /\ performance_info_len \in Nat
  /\ live \subseteq Names /\ dangling \subseteq Names

\* Between two calls nothing is allocated; before the thread could have been created,
\* only the strings of a file that was wrong were freed.
Outside ==
  /\ main = "out" => live = {}
  /\ main = "out" /\ ~ locked /\ ~ g_agios_thread_stop =>
       multi_timeline_size = 0 /\ dangling \subseteq {"file_prefix", "file_sufix"}
  /\ inits = 0 => /\ main = "out" /\ ~ locked /\ ~ g_agios_thread_stop
                  /\ dangling = {} /\ config.alg # "WFQ" /\ ~ config.trace

\* A call that waits for the mutexes an earlier one kept waits for ever.
Stuck == locked /\ main = "configured"

\* A call that failed over the name of an algorithm.
Misnamed == main = "failed" /\ ~ locked

\* What is allocated while a call of agios_init is under way or the library is open.
Prepared == main \in {"allocated", "traced", "open", "joining"} \/ (main = "failed" /\ locked)
Traces   == config.trace /\ (main \in {"traced", "open", "joining"} \/ (main = "failed" /\ locked))
Inside ==
  main # "out" /\ ~ Stuck =>
    /\ dangling = {}
    /\ "file_prefix" \in live <=> "file_sufix" \in live
    /\ "wfq_conf_file" \in live <=> config.alg = "WFQ" /\ ~ Misnamed
    /\ config.trace \/ config.alg = "WFQ" => "file_prefix" \in live
    /\ config.alg = "WFQ" /\ ~ Misnamed => config.weights
    /\ \A x \in Table : x \in live <=> Prepared
    /\ "multi_timeline" \in live <=> Prepared /\ multi_timeline_size > 0
    /\ ~ Prepared => multi_timeline_size = 0
    /\ \A x \in Buffers : x \in live <=> Traces
    /\ Misnamed => ~ config.trace

\* What belongs to the thread.
ThreadHeap ==
  /\ thread = "none" => performance_info_len = 0 \/ g_agios_thread_stop
  /\ main \in {"open", "joining"} <=> thread # "none"
  /\ thread = "starting" => performance_info_len = 0 /\ locked
  /\ main \notin {"out", "configured", "failed"} /\ thread \in {"none", "starting"} => locked
  /\ main # "out" => ("performance_entry" \in live <=> thread \in {"running", "ended"})
  /\ main # "out" => \A x \in {"wfq_weights", "MLF_lock_tries"} :
       x \in live <=> thread \in {"running", "ended"} /\ x \in SchedulerData(config.alg)
  /\ thread \in {"running", "ended"} => current_scheduler = config.alg
  /\ g_agios_thread_stop => main \in {"joining", "out"}
  /\ main = "joining" => g_agios_thread_stop

HeapInv == HeapType /\ ~ wrong /\ Outside /\ Inside /\ ThreadHeap

-----------------------------------------------------------------------------
(* The service: needed only once.                                          *)

\* The flag is set by agios_exit alone, and the thread looks at nothing else.
LEMMA ServingPreserved == Serving /\ [Next]_vars => Serving'
<1> SUFFICES ASSUME Serving, [Next]_vars PROVE Serving'
  OBVIOUS
<1> USE DEF Serving, SureToInitialize, CanInitialize, NonNull, leftover, heap
<1>1. CASE \E c \in Offered : KeepConfiguration(c) \/ read_configuration_file(c) \/ UnknownAlgorithm(c)
  BY <1>1 DEF KeepConfiguration, read_configuration_file, UnknownAlgorithm, MayInit
<1>2. CASE CleanUpFailed
  BY <1>2 DEF CleanUpFailed, Fail, cleanup_agios
<1>3. CASE \E n \in MaxQueueIds : allocate_data_structures(n)
  BY <1>3 DEF allocate_data_structures
<1>4. CASE OpenTrace
  BY <1>4 DEF OpenTrace
<1>5. CASE pthread_create
  BY <1>5 DEF pthread_create
<1>6. CASE StartThread
  BY <1>6 DEF StartThread
<1>12. CASE CrashAtStart
  BY <1>12 DEF CrashAtStart, HeapStep
<1>7. CASE LeaveLoop
  BY <1>7 DEF LeaveLoop
<1>8. CASE \E r \in Reqs : agios_add_request(r)
  BY <1>8 DEF agios_add_request, HeapStep
<1>9. CASE stop_the_agios_thread
  BY <1>9 DEF stop_the_agios_thread
<1>10. CASE agios_exit
  BY <1>10 DEF agios_exit, cleanup_agios
<1>11. CASE UNCHANGED vars
  BY <1>11 DEF vars
<1> QED
  BY <1>1, <1>2, <1>3, <1>4, <1>5, <1>6, <1>7, <1>8, <1>9, <1>10, <1>11, <1>12 DEF Next

LEMMA ServingInit == Init => Serving
  BY DEF Init, Serving

\* With one life of the library, a thread serves as long as the library is open if its
\* scheduler is not WFQ or finds the weights, whatever files were given and whatever
\* calls failed before (agios_thread, stop_the_agios_thread).
THEOREM AlwaysServesIfInitialized == ASSUME ~ Again PROVE Spec => []ServesIfInitialized
<1>1. Serving => ServesIfInitialized
  BY DEF Serving, ServesIfInitialized, ServesWhileOpen
<1> QED
  BY <1>1, ServingInit, ServingPreserved, PTL DEF Spec

-----------------------------------------------------------------------------
(* The trace.                                                              *)

\* What agios_init is given is one of the files of the configuration.
LEMMA OfferedFiles == ASSUME inits \in Nat, NEW c \in Offered
                      PROVE  c \in Config /\ inits + 1 \in DOMAIN Configs /\ c \in Configs[inits + 1]
<1>1. inits < Len(Configs) /\ c \in Configs[inits + 1]
  BY DEF Offered
<1>2. Len(Configs) \in Nat /\ DOMAIN Configs = 1 .. Len(Configs)
  BY LifecycleAssumption
<1> QED
  BY <1>1, <1>2, LifecycleAssumption

\* A line is never added before the zero byte of a full buffer.
LEMMA AddTraced ==
  ASSUME NEW r \in Reqs, TraceType, BufferFits, agios_trace_add_request(r),
         agios_tracefile_buffer_size = 0 => traced = <<>> /\ tracefile = <<>>,
         agios_tracefile_buffer_size > 0 => tracefile \o agios_tracefile_buffer = traced
  PROVE  /\ tracefile' \in Seq(FileLines) /\ agios_tracefile_buffer' \in Seq(FileLines)
         /\ traced' \in Seq(FileLines) /\ agios_tracefile_buffer_size' \in Nat
         /\ BufferFits' /\ agios_tracefile_buffer_size' > 0 /\ traced' # <<>>
         /\ tracefile' \o agios_tracefile_buffer' = traced'
<1> DEFINE size == agios_tracefile_buffer_size
           max  == config_agios_max_trace_buffer_size
           old  == agios_tracefile_buffer
<1>1. /\ size \in Nat /\ max \in Nat /\ line[r] \in Nat /\ 0 < line[r] /\ line[r] < max
      /\ r \in FileLines
  BY TraceAssumption DEF TraceType, FileLines
<1>2. /\ tracefile \in Seq(FileLines) /\ old \in Seq(FileLines) /\ traced \in Seq(FileLines)
      /\ <<r>> \in Seq(FileLines) /\ <<>> \in Seq(FileLines)
  BY <1>1 DEF TraceType
<1>3. Append(traced, r) = traced \o <<r>> /\ Append(old, r) = old \o <<r>>
  <2> HIDE DEF old
  <2> QED
    BY <1>1, <1>2, AppendIsConcat, Zenon
<1>4. traced \o <<r>> \in Seq(FileLines) /\ traced \o <<r>> # <<>>
  BY <1>1, <1>2, <1>3, AppendProperties
<1>5. traced' = traced \o <<r>>
  BY <1>3 DEF agios_trace_add_request
<1>6. CASE Full(line[r])
  <2>1. /\ tracefile' = tracefile \o old /\ agios_tracefile_buffer' = <<r>>
        /\ agios_tracefile_buffer_size' = line[r]
    BY <1>1, <1>6 DEF agios_trace_add_request, OccupancyBefore
  <2>2. size > 0
    BY <1>1, <1>6 DEF Full
  <2>3. tracefile' = traced
    BY <2>1, <2>2
  <2>4. BufferFits'
    BY <1>1, <2>1 DEF BufferFits
  <2> QED
    BY <1>1, <1>2, <1>4, <1>5, <2>1, <2>3, <2>4
<1>7. CASE ~ Full(line[r]) /\ size = 0
  <2>1. /\ tracefile' = tracefile /\ agios_tracefile_buffer' = <<r>>
        /\ agios_tracefile_buffer_size' = line[r]
    BY <1>1, <1>7 DEF agios_trace_add_request, OccupancyBefore
  <2>2. BufferFits'
    BY <1>1, <2>1 DEF BufferFits
  <2>3. <<>> \o <<r>> = <<r>>
    BY <1>2, ConcatEmptySeq
  <2> QED
    BY <1>1, <1>2, <1>4, <1>5, <1>7, <2>1, <2>2, <2>3
<1>8. CASE ~ Full(line[r]) /\ size > 0
  <2>1. /\ tracefile' = tracefile /\ agios_tracefile_buffer' = old \o <<r>>
        /\ agios_tracefile_buffer_size' = size + line[r]
    BY <1>1, <1>3, <1>8 DEF agios_trace_add_request, OccupancyBefore
  <2>2. BufferFits'
    BY <1>1, <1>8, <2>1 DEF BufferFits, Full
  <2>3. tracefile \o old = traced
    BY <1>8
  <2>4. /\ old \o <<r>> \in Seq(FileLines)
        /\ tracefile \o (old \o <<r>>) = (tracefile \o old) \o <<r>>
    <3> HIDE DEF old
    <3>1. old \o <<r>> \in Seq(FileLines)
      BY <1>2, ConcatProperties, Zenon
    <3>2. tracefile \o (old \o <<r>>) = (tracefile \o old) \o <<r>>
      BY <1>2, ConcatAssociative, SMT
    <3> QED
      BY <3>1, <3>2
  <2>5. tracefile' \o agios_tracefile_buffer' = traced'
    BY <1>5, <2>1, <2>3, <2>4
  <2>6. agios_tracefile_buffer_size' \in Nat /\ agios_tracefile_buffer_size' > 0
    BY <1>1, <1>8, <2>1
  <2> HIDE DEF old
  <2> QED
    BY <1>2, <1>4, <1>5, <2>1, <2>2, <2>4, <2>5, <2>6
<1> QED
  BY <1>1, <1>6, <1>7, <1>8

\* What cleanup_agios makes of the trace, with OwnFile: a file that was not opened by
\* this life is closed by mistake.
LEMMA CloseTrace ==
  ASSUME NEW freed, freed \subseteq Names \ Buffers, TraceInv, cleanup_agios(freed),
         main \in {"joining", "failed"}, main' = "out", UNCHANGED <<inits, config>>
  PROVE  TraceType' /\ BufferFits' /\ Printable' /\ Complete' /\ OwnFile'
<1> USE DEF TraceInv
<1>1. CASE ~ config.trace
  <2>1. UNCHANGED <<tracefile, agios_tracefile_buffer, agios_tracefile_buffer_size, traced>>
    BY <1>1 DEF cleanup_agios, traceVars
  <2>2. "tracefile_fd" \notin live'
    BY <1>1 DEF cleanup_agios, HeapStep, OwnFile
  <2>3. wrong => wrong'
    BY DEF cleanup_agios, HeapStep
  <2> QED
    BY <1>1, <2>1, <2>2, <2>3
    DEF TraceType, BufferFits, Printable, Complete, OwnFile, TraceOpen, Places
<1>2. CASE config.trace
  <2>1. /\ tracefile' = tracefile \o agios_tracefile_buffer /\ agios_tracefile_buffer_size' = 0
        /\ UNCHANGED <<agios_tracefile_buffer, traced>>
    BY <1>2 DEF cleanup_agios, close_agios_trace
  <2>2. "tracefile_fd" \notin live'
    BY <1>2 DEF cleanup_agios, HeapStep, cleanup_agios_trace
  <2>3. wrong \/ "tracefile_fd" \notin live => wrong'
    BY <1>2 DEF cleanup_agios, HeapStep
  <2>4. TraceType' /\ BufferFits' /\ Printable' /\ OwnFile'
    BY <1>2, <2>1, <2>2 DEF TraceType, BufferFits, Printable, OwnFile, TraceOpen, Places
  <2>5. CASE main = "joining"
    <3>1. traced = <<>> \/ tracefile' = traced
      BY <1>2, <2>1, <2>5 DEF Printable, TraceOpen, TraceType
    <3> QED
      BY <2>1, <2>4, <3>1 DEF Complete
  <2>6. CASE main = "failed"
    <3>1. traced = <<>> \/ (wrong' /\ Again)
      BY <2>3, <2>6 DEF OwnFile, OneLife, Complete, TraceOpen
    <3> QED
      BY <2>1, <2>4, <3>1 DEF Complete
  <2> QED
    BY <2>5, <2>6
<1> QED
  BY <1>1, <1>2 DEF TraceType

\* The schedulers free what is theirs.
LEMMA SchedulerNames == ASSUME NEW alg
                        PROVE  SchedulerData(alg) \subseteq {"wfq_weights", "MLF_lock_tries"}
  BY DEF SchedulerData

LEMMA TraceInit == Init => TraceInv
<1> SUFFICES ASSUME Init PROVE TraceInv
  OBVIOUS
<1>1. TraceType
  BY DEF Init, NoTrace, TraceType, Places, Algorithms
<1> QED
  BY <1>1 DEF Init, NoTrace, TraceInv, BufferFits, Printable, Complete, OwnFile, OneLife, TraceOpen

LEMMA ConfigChanged ==
  ASSUME config \in [alg : Algorithms, trace : BOOLEAN, weights : BOOLEAN],
         NEW trace \in BOOLEAN, NEW alg \in Algorithms
  PROVE  /\ [config EXCEPT !.trace = trace, !.alg = alg]
               \in [alg : Algorithms, trace : BOOLEAN, weights : BOOLEAN]
         /\ [config EXCEPT !.trace = trace, !.alg = alg].trace = trace
  OBVIOUS

\* Reading a configuration does nothing to the trace.
LEMMA TraceConfigured ==
  ASSUME NEW c \in Offered, TraceInv,
         KeepConfiguration(c) \/ read_configuration_file(c) \/ UnknownAlgorithm(c)
  PROVE  TraceInv'
<1> USE DEF TraceInv
<1>1. /\ main = "out" /\ (Again \/ ~ g_agios_thread_stop) /\ main' \in {"configured", "failed"}
      /\ UNCHANGED traceVars /\ UNCHANGED leftover /\ inits' = inits + 1
      /\ config' = config \/ config' = [alg |-> c.alg, trace |-> c.trace, weights |-> c.weights]
                          \/ \E alg \in {"SJF", c.alg} :
                               config' = [config EXCEPT !.trace = c.trace, !.alg = alg]
  BY DEF KeepConfiguration, read_configuration_file, UnknownAlgorithm, MayInit
<1>2. c \in Config
  BY OfferedFiles DEF TraceType
<1>3. "tracefile_fd" \notin live' /\ (wrong => wrong')
  <2>1. "tracefile_fd" \notin live
    BY <1>1 DEF OwnFile
  <2>2. CASE KeepConfiguration(c)
    BY <2>1, <2>2 DEF KeepConfiguration, heap
  <2>3. CASE read_configuration_file(c)
    BY <2>1, <2>3 DEF read_configuration_file, HeapStep, Strings
  <2>4. CASE UnknownAlgorithm(c)
    BY <2>1, <2>4 DEF UnknownAlgorithm, HeapStep
  <2> QED
    BY <2>2, <2>3, <2>4
<1>4. TraceType'
  <2>1. c.trace \in BOOLEAN /\ c.alg \in Algorithms /\ "SJF" \in Algorithms
        /\ c.weights \in BOOLEAN
    BY <1>2 DEF Config, Algorithms
  <2>2. config' \in [alg : Algorithms, trace : BOOLEAN, weights : BOOLEAN]
    <3>1. CASE config' = config
      BY <3>1 DEF TraceType
    <3>2. CASE config' = [alg |-> c.alg, trace |-> c.trace, weights |-> c.weights]
      BY <2>1, <3>2
    <3>3. CASE \E alg \in {"SJF", c.alg} : config' = [config EXCEPT !.trace = c.trace, !.alg = alg]
      BY <2>1, <3>3, ConfigChanged DEF TraceType
    <3> QED
      BY <1>1, <3>1, <3>2, <3>3
  <2> QED
    BY <1>1, <2>2 DEF TraceType, Places, traceVars
<1>5. UNCHANGED <<tracefile, agios_tracefile_buffer, agios_tracefile_buffer_size, traced>>
  BY <1>1 DEF traceVars
<1>6. Complete' /\ BufferFits' /\ OwnFile' /\ Printable'
  BY <1>1, <1>3, <1>5 DEF Complete, BufferFits, OwnFile, Printable, TraceOpen
<1>7. OneLife'
  BY <1>1, <1>5 DEF OneLife, leftover
<1> QED
  BY <1>4, <1>6, <1>7

\* Opening the trace starts a life of it.
LEMMA TraceOpened == TraceInv /\ OpenTrace => TraceInv'
<1> SUFFICES ASSUME TraceInv, OpenTrace PROVE TraceInv'
  OBVIOUS
<1> USE DEF TraceInv
<1>1. /\ main = "allocated" /\ config.trace /\ UNCHANGED <<inits, config, g_agios_thread_stop>>
      /\ main' \in {"traced", "failed"}
  BY DEF OpenTrace, leftover
<1>2. "tracefile_fd" \notin live
  BY <1>1 DEF OwnFile
<1>3. CASE main' = "traced"
  <2>1. init_trace_module
    BY <1>3 DEF OpenTrace
  <2>2. <<>> \in Seq(FileLines) /\ <<Garbage>> \in Seq(FileLines)
    BY DEF FileLines
  <2>3. TraceType'
    BY <1>1, <1>3, <2>1, <2>2 DEF TraceType, init_trace_module, Places
  <2> QED
    BY <1>1, <1>3, <2>1, <2>3
    DEF init_trace_module, BufferFits, Printable, Complete, OwnFile, OneLife, TraceOpen
<1>4. CASE main' = "failed"
  <2>1. /\ UNCHANGED <<tracefile, agios_tracefile_buffer, agios_tracefile_buffer_size, traced>>
        /\ "tracefile_fd" \notin live' /\ (wrong => wrong')
    BY <1>2, <1>4 DEF OpenTrace, traceVars, HeapStep
  <2>2. TraceType'
    BY <1>1, <1>4, <2>1 DEF TraceType, Places
  <2> QED
    BY <1>1, <1>4, <2>1, <2>2 DEF BufferFits, Printable, Complete, OwnFile, OneLife, TraceOpen
<1> QED
  BY <1>1, <1>3, <1>4

\* A line that is added keeps file and buffer together.
LEMMA TraceAdded == ASSUME NEW r \in Reqs, TraceInv, agios_add_request(r) PROVE TraceInv'
<1> USE DEF TraceInv
<1>1. /\ main = "open" /\ config.trace /\ agios_trace_add_request(r)
      /\ UNCHANGED <<main, inits, config, g_agios_thread_stop>>
  BY DEF agios_add_request, leftover
<1>2. live' = live
  BY DEF agios_add_request, HeapStep
<1>3. /\ agios_tracefile_buffer_size = 0 => traced = <<>> /\ tracefile = <<>>
      /\ agios_tracefile_buffer_size > 0 => tracefile \o agios_tracefile_buffer = traced
  BY <1>1 DEF Printable, TraceOpen
<1>4. /\ tracefile' \in Seq(FileLines) /\ agios_tracefile_buffer' \in Seq(FileLines)
      /\ traced' \in Seq(FileLines) /\ agios_tracefile_buffer_size' \in Nat
      /\ BufferFits' /\ agios_tracefile_buffer_size' > 0 /\ traced' # <<>>
      /\ tracefile' \o agios_tracefile_buffer' = traced'
  BY <1>1, <1>3, AddTraced
<1>5. TraceType'
  BY <1>1, <1>4 DEF TraceType
<1> QED
  BY <1>1, <1>2, <1>4, <1>5 DEF Printable, Complete, OwnFile, OneLife, TraceOpen

\* Every step of the library keeps the trace.
LEMMA TracePreserved == TraceInv /\ [Next]_vars => TraceInv'
<1> SUFFICES ASSUME TraceInv, [Next]_vars PROVE TraceInv'
  OBVIOUS
<1>1. CASE \E c \in Offered : KeepConfiguration(c) \/ read_configuration_file(c) \/ UnknownAlgorithm(c)
  BY <1>1, TraceConfigured
<1>2. CASE CleanUpFailed
  <2>1. /\ cleanup_agios({}) /\ main = "failed" /\ main' = "out"
        /\ UNCHANGED <<inits, config>> /\ UNCHANGED leftover
    BY <1>2 DEF CleanUpFailed, Fail, cleanup_agios
  <2>2. traced' = traced
    BY <2>1 DEF cleanup_agios, close_agios_trace, traceVars
  <2>3. OneLife'
    BY <2>1, <2>2 DEF OneLife, TraceInv, leftover
  <2> QED
    BY <2>1, <2>3, CloseTrace DEF TraceInv
<1>3. CASE \E n \in MaxQueueIds : allocate_data_structures(n)
  <2>1. /\ main = "configured" /\ main' = "allocated" /\ UNCHANGED traceVars
        /\ UNCHANGED <<inits, config, g_agios_thread_stop>>
    BY <1>3 DEF allocate_data_structures
  <2>2. "tracefile_fd" \notin live' /\ (wrong => wrong')
    BY <1>3, <2>1
    DEF allocate_data_structures, HeapStep, timeline_init, hashtable_init, OwnFile, TraceInv
  <2>3. TraceType'
    BY <2>1 DEF TraceType, TraceInv, Places, traceVars
  <2> QED
    BY <2>1, <2>2, <2>3
    DEF TraceInv, BufferFits, Printable, Complete, OwnFile, OneLife, TraceOpen, traceVars
<1>4. CASE OpenTrace
  BY <1>4, TraceOpened
<1>5. CASE pthread_create
  <2>1. /\ main' \in {"open", "failed"} /\ UNCHANGED <<traceVars, inits, config, live, wrong>>
        /\ g_agios_thread_stop' = g_agios_thread_stop
        /\ (main = "traced" \/ (main = "allocated" /\ ~ config.trace))
    BY <1>5 DEF pthread_create, heap, leftover
  <2>2. TraceType'
    BY <2>1 DEF TraceType, TraceInv, Places, traceVars
  <2> QED
    BY <2>1, <2>2
    DEF TraceInv, BufferFits, Printable, Complete, OwnFile, OneLife, TraceOpen, traceVars, TraceType
<1>6. CASE StartThread
  <2>1. UNCHANGED <<main, inits, config, traceVars, g_agios_thread_stop>> /\ (wrong => wrong')
    BY <1>6 DEF StartThread, HeapStep
  <2>2. "tracefile_fd" \in live' => "tracefile_fd" \in live
    BY <1>6, SchedulerNames DEF StartThread, HeapStep
  <2>3. TraceType'
    BY <2>1 DEF TraceType, TraceInv, traceVars
  <2> QED
    BY <2>1, <2>2, <2>3
    DEF TraceInv, BufferFits, Printable, Complete, OwnFile, OneLife, TraceOpen, traceVars
<1>7. CASE LeaveLoop \/ CrashAtStart \/ UNCHANGED vars
  <2>1. /\ UNCHANGED <<main, inits, config, traceVars, g_agios_thread_stop, live>>
        /\ (wrong => wrong')
    <3>1. CASE LeaveLoop \/ UNCHANGED vars
      BY <3>1 DEF LeaveLoop, vars, heap, leftover
    <3>2. CASE CrashAtStart
      BY <3>2 DEF CrashAtStart, HeapStep, leftover
    <3> QED
      BY <1>7, <3>1, <3>2
  <2> QED
    BY <2>1
    DEF TraceInv, TraceType, BufferFits, Printable, Complete, OwnFile, OneLife, TraceOpen, traceVars
<1>8. CASE \E r \in Reqs : agios_add_request(r)
  BY <1>8, TraceAdded
<1>9. CASE stop_the_agios_thread
  <2>1. /\ main = "open" /\ main' = "joining"
        /\ UNCHANGED <<inits, config, traceVars, live, wrong>>
        /\ g_agios_thread_stop' = TRUE
    BY <1>9 DEF stop_the_agios_thread, heap
  <2>2. TraceType'
    BY <2>1 DEF TraceType, TraceInv, Places, traceVars
  <2> QED
    BY <2>1, <2>2
    DEF TraceInv, BufferFits, Printable, Complete, OwnFile, OneLife, TraceOpen, traceVars
<1>10. CASE agios_exit
  <2>1. /\ cleanup_agios(SchedulerData(current_scheduler)) /\ main = "joining" /\ main' = "out"
        /\ UNCHANGED <<inits, config>> /\ UNCHANGED leftover
    BY <1>10 DEF agios_exit, cleanup_agios
  <2>2. traced' = traced
    BY <2>1 DEF cleanup_agios, close_agios_trace, traceVars
  <2>3. OneLife'
    BY <2>1, <2>2 DEF OneLife, TraceInv, leftover
  <2>4. SchedulerData(current_scheduler) \subseteq Names \ Buffers
    BY SchedulerNames DEF Names, Buffers
  <2> QED
    BY <2>1, <2>3, <2>4, CloseTrace DEF TraceInv
<1> QED
  BY <1>1, <1>2, <1>3, <1>4, <1>5, <1>6, <1>7, <1>8, <1>9, <1>10 DEF Next

LEMMA TraceInOrder == TraceInv /\ (~ wrong \/ ~ Again) => TracedInOrder
<1> SUFFICES ASSUME TraceInv, ~ wrong \/ ~ Again, traced # <<>>
             PROVE  TracedInOrder
  BY DEF TracedInOrder
<1>1. CASE TraceOpen
  BY <1>1 DEF TraceInv, TraceType, Printable, TracedInOrder
<1>2. CASE ~ TraceOpen
  <2>1. agios_tracefile_buffer_size = 0 /\ tracefile = traced
    BY <1>2 DEF TraceInv, Complete
  <2>2. tracefile \o <<>> = tracefile
    BY ConcatEmptySeq DEF TraceInv, TraceType
  <2> QED
    BY <2>1, <2>2 DEF TracedInOrder
<1> QED
  BY <1>1, <1>2

\* No line writes past the end of the buffer, in any life of the library
\* (agios_trace_write_to_buffer).
THEOREM AlwaysBufferFits == Spec => []BufferFits
<1>1. TraceInv => BufferFits
  BY DEF TraceInv
<1> QED
  BY <1>1, TraceInit, TracePreserved, PTL DEF Spec

\* With one life the trace holds every line once, in the order of the adds, through
\* all flushes and failed initialisations (agios_tracefile_flush_buffer).
THEOREM AlwaysTracedInOrder == ASSUME ~ Again PROVE Spec => []TracedInOrder
<1>1. TraceInv => TracedInOrder
  BY TraceInOrder
<1> QED
  BY <1>1, TraceInit, TracePreserved, PTL DEF Spec

\* With any number of lives the same, up to the first mistake with the memory.
THEOREM TracedInOrderUnlessWrong == Spec => [](~ wrong => TracedInOrder)
<1>1. TraceInv => (~ wrong => TracedInOrder)
  BY TraceInOrder
<1> QED
  BY <1>1, TraceInit, TracePreserved, PTL DEF Spec

-----------------------------------------------------------------------------
(* The memory.                                                             *)

LEMMA HeapInit == Init => HeapInv
<1> SUFFICES ASSUME Init PROVE HeapInv
  OBVIOUS
<1>1. HeapType
  BY DEF Init, HeapType, Places, Algorithms, Names
<1> QED
  BY <1>1 DEF Init, HeapInv, Outside, Inside, Stuck, Misnamed, Prepared, Traces, ThreadHeap, Table, Buffers

\* The first call may be given a file that cannot be read or names no algorithm.
LEMMA HeapConfigured ==
  ASSUME GoodUse, HeapInv, NEW c \in Offered,
         KeepConfiguration(c) \/ read_configuration_file(c) \/ UnknownAlgorithm(c)
  PROVE  HeapInv'
<1> USE DEF HeapInv
<1>1. /\ c \in Config
      /\ c.readable => c.weights /\ (c.unknown = NULL \/ (inits = 0 /\ ~ c.trace))
      /\ ~ c.readable => inits = 0
  BY OfferedFiles DEF GoodUse, HeapType
<1>2. /\ main = "out" /\ ~ g_agios_thread_stop /\ thread = "none" /\ live = {}
      /\ main' \in {"configured", "failed"} /\ inits' = inits + 1
      /\ UNCHANGED <<thread, multi_timeline_size, performance_info_len, locked,
                     current_scheduler, g_agios_thread_stop>>
  BY DEF KeepConfiguration, read_configuration_file, UnknownAlgorithm, MayInit, GoodUse,
         Outside, ThreadHeap, leftover
<1>3. ThreadHeap' /\ Outside'
  <2>1. "performance_entry" \notin live' /\ \A x \in {"wfq_weights", "MLF_lock_tries"} : x \notin live'
    BY <1>2
    DEF KeepConfiguration, read_configuration_file, UnknownAlgorithm, HeapStep, heap, Strings
  <2> QED
    BY <1>2, <2>1 DEF ThreadHeap, Outside, HeapType
<1>4. CASE KeepConfiguration(c)
  <2>1. /\ inits = 0 /\ main' = "configured" /\ UNCHANGED <<live, dangling, wrong, config>>
    BY <1>1, <1>4 DEF KeepConfiguration, heap
  <2> QED
    BY <1>2, <1>3, <2>1
    DEF HeapType, Outside, Inside, Stuck, Misnamed, Prepared, Traces, Places, Table, Buffers
<1>5. CASE read_configuration_file(c)
  <2>1. /\ main' = "configured" /\ live' = Strings(c) /\ dangling' = dangling \ Strings(c)
        /\ ~ wrong'
        /\ config' = [alg |-> c.alg, trace |-> c.trace, weights |-> c.weights] /\ c.weights
    BY <1>1, <1>2, <1>5 DEF read_configuration_file, HeapStep
  <2>2. HeapType'
    BY <1>1, <1>2, <2>1 DEF HeapType, Places, Config, Strings, Names
  <2>3. CASE locked
    BY <1>2, <1>3, <2>1, <2>2, <2>3 DEF Inside, Stuck, Misnamed
  <2>4. CASE ~ locked
    <3>1. multi_timeline_size = 0 /\ dangling' = {}
      BY <1>2, <2>1, <2>4 DEF Outside, Strings
    <3> QED
      BY <1>1, <1>2, <1>3, <2>1, <2>2, <3>1
      DEF Inside, Misnamed, Prepared, Traces, Strings, Table, Buffers
  <2> QED
    BY <2>3, <2>4
<1>6. CASE UnknownAlgorithm(c)
  <2>1. /\ inits = 0 /\ main' = "failed" /\ live' = {"file_prefix", "file_sufix"}
        /\ dangling' = {} /\ ~ wrong' /\ ~ c.trace
        /\ \E alg \in {"SJF", c.alg} :
             config' = [config EXCEPT !.trace = c.trace, !.alg = alg]
    BY <1>1, <1>2, <1>6 DEF UnknownAlgorithm, HeapStep, Outside
  <2>4. /\ config' \in [alg : Algorithms, trace : BOOLEAN, weights : BOOLEAN]
        /\ ~ config'.trace
    <3>1. c.trace \in BOOLEAN /\ c.alg \in Algorithms /\ "SJF" \in Algorithms
      BY <1>1 DEF Config, Algorithms
    <3> QED
      BY <2>1, <3>1, ConfigChanged DEF HeapType
  <2>2. HeapType'
    BY <1>2, <2>1, <2>4 DEF HeapType, Places, Names
  <2>3. ~ locked /\ multi_timeline_size = 0
    BY <1>2, <2>1 DEF Outside
  <2> QED
    BY <1>2, <1>3, <2>1, <2>2, <2>3, <2>4 DEF Inside, Misnamed, Prepared, Traces, Table, Buffers
<1> QED
  BY <1>4, <1>5, <1>6

\* cleanup_agios frees what is there.
LEMMA HeapCleaned ==
  ASSUME HeapInv, main \in {"failed", "joining"}, NEW alg, cleanup_agios(SchedulerData(alg)),
         main = "joining" => thread = "ended" /\ alg = current_scheduler,
         main = "failed" => SchedulerData(alg) = {}
  PROVE  /\ live' = {} /\ ~ wrong' /\ dangling' \subseteq Names
         /\ ~ locked /\ main = "failed" => dangling' \subseteq {"file_prefix", "file_sufix"}
<1> USE DEF HeapInv
<1> DEFINE freed == SchedulerData(alg) \cup cleanup_config_parameters
                      \cup cleanup_performance_module \cup hashtable_cleanup
                      \cup timeline_cleanup \cup cleanup_agios_trace
<1>1. /\ dangling = {} /\ live \subseteq Names
      /\ NonNull = live
  BY DEF Inside, Stuck, Misnamed, HeapType, NonNull
<1>2. config.trace => {"tracefile_fd", "tracefile_buffer", "aux_buf"} \subseteq live
  BY DEF Inside, Stuck, Misnamed, Traces, Buffers
<1>3. /\ live' = live \ freed /\ dangling' = freed /\ (wrong' <=> wrong)
  BY <1>1, <1>2 DEF cleanup_agios, HeapStep
<1>4. SchedulerData(alg) = live \cap {"wfq_weights", "MLF_lock_tries"}
  <2>1. CASE main = "joining"
    <3>1. thread = "ended" /\ alg = config.alg
      BY <2>1 DEF ThreadHeap
    <3> QED
      BY <2>1, <3>1, SchedulerNames DEF ThreadHeap
  <2>2. CASE main = "failed"
    BY <2>2 DEF ThreadHeap
  <2> QED
    BY <2>1, <2>2
<1>5. timeline_cleanup = live \cap {"multi_timeline"}
  BY DEF timeline_cleanup, Inside, Stuck, Misnamed, Prepared, HeapType
<1>6. cleanup_agios_trace = live \cap Buffers
  BY <1>1, <1>2 DEF cleanup_agios_trace, Inside, Stuck, Misnamed, Traces, Buffers
<1>7. freed = live
  BY <1>1, <1>4, <1>5, <1>6
  DEF cleanup_config_parameters, cleanup_performance_module, hashtable_cleanup, Names, Table
<1>8. ~ locked /\ main = "failed" => live \subseteq {"file_prefix", "file_sufix"}
  BY <1>1 DEF Inside, Stuck, Misnamed, Prepared, Traces, ThreadHeap, Names, Table, Buffers, SchedulerData
<1> HIDE DEF freed
<1> QED
  BY <1>1, <1>3, <1>7, <1>8 DEF HeapType

\* Steps of agios_init after the configuration.
LEMMA HeapAllocated ==
  ASSUME HeapInv, NEW n \in MaxQueueIds, allocate_data_structures(n) PROVE HeapInv'
<1> USE DEF HeapInv
<1>1. /\ n \in Nat /\ main = "configured" /\ ~ locked /\ main' = "allocated" /\ locked'
      /\ UNCHANGED <<inits, thread, config, performance_info_len, current_scheduler,
                     g_agios_thread_stop>>
  BY LifecycleAssumption DEF allocate_data_structures
<1>2. /\ dangling = {} /\ multi_timeline_size = 0 /\ thread = "none" /\ inits > 0
      /\ \A x \in Table \cup Buffers \cup {"multi_timeline"} : x \notin live
  BY <1>1 DEF Inside, Stuck, Misnamed, Prepared, Traces, ThreadHeap, Outside, HeapType
<1>3. /\ live' = live \cup Table \cup (IF n > 0 THEN {"multi_timeline"} ELSE {})
      /\ dangling' = {} /\ ~ wrong' /\ multi_timeline_size' = IF n > 0 THEN n + 1 ELSE 0
  BY <1>2
  DEF allocate_data_structures, HeapStep, timeline_init, hashtable_init, Table
<1>4. HeapType'
  BY <1>1, <1>3 DEF HeapType, Places, Names, Table
<1>5. Inside'
  BY <1>1, <1>2, <1>3 DEF Inside, Stuck, Misnamed, Prepared, Traces, Table, Buffers
<1>6. ThreadHeap' /\ Outside'
  BY <1>1, <1>2, <1>3 DEF ThreadHeap, Outside, Table, HeapType
<1> QED
  BY <1>3, <1>4, <1>5, <1>6

LEMMA HeapTraced == GoodUse /\ HeapInv /\ OpenTrace => HeapInv'
<1> SUFFICES ASSUME GoodUse, HeapInv, OpenTrace PROVE HeapInv'
  OBVIOUS
<1> USE DEF HeapInv
<1>1. /\ main = "allocated" /\ config.trace /\ main' = "traced"
      /\ UNCHANGED <<inits, thread, config, leftover>>
  BY DEF OpenTrace, GoodUse
<1>2. /\ dangling = {} /\ thread = "none"
      /\ \A x \in Buffers : x \notin live
      /\ {"file_prefix", "file_sufix"} \subseteq live
  BY <1>1 DEF Inside, Stuck, Misnamed, Traces, ThreadHeap
<1>3. live' = live \cup Buffers /\ dangling' = {} /\ ~ wrong'
  <2>1. HeapStep({"tracefile_fd"} \cup ({"tracefile_buffer", "aux_buf"} \ NonNull), {},
                 ~ {"file_prefix", "file_sufix"} \subseteq live)
    BY <1>1 DEF OpenTrace
  <2>2. {"tracefile_buffer", "aux_buf"} \ NonNull = {"tracefile_buffer", "aux_buf"}
    BY <1>2 DEF Buffers, NonNull
  <2> QED
    BY <1>2, <2>1, <2>2 DEF HeapStep, Buffers
<1>4. HeapType'
  BY <1>1, <1>3 DEF HeapType, Places, Names, leftover
<1>5. Inside'
  BY <1>1, <1>2, <1>3 DEF Inside, Stuck, Misnamed, Prepared, Traces, Table, Buffers, leftover
<1>6. ThreadHeap' /\ Outside'
  BY <1>1, <1>2, <1>3 DEF ThreadHeap, Outside, Buffers, leftover
<1> QED
  BY <1>3, <1>4, <1>5, <1>6

LEMMA HeapCreated == HeapInv /\ pthread_create => HeapInv'
<1> SUFFICES ASSUME HeapInv, pthread_create PROVE HeapInv'
  OBVIOUS
<1> USE DEF HeapInv
<1>1. /\ main = "traced" \/ (main = "allocated" /\ ~ config.trace)
      /\ \/ main' = "open" /\ thread' = "starting"
         \/ main' = "failed" /\ thread' = thread
      /\ UNCHANGED <<inits, config, live, dangling, wrong, leftover>>
  BY DEF pthread_create, heap
<1>2. thread = "none" /\ locked /\ performance_info_len = 0 /\ inits > 0 /\ ~ g_agios_thread_stop
  BY <1>1 DEF ThreadHeap, Outside, HeapType
<1>3. HeapType'
  BY <1>1 DEF HeapType, Places, leftover
<1>4. Inside'
  BY <1>1, <1>2 DEF Inside, Stuck, Misnamed, Prepared, Traces, leftover
<1>5. ThreadHeap' /\ Outside'
  BY <1>1, <1>2 DEF ThreadHeap, Outside, leftover
<1> QED
  BY <1>1, <1>3, <1>4, <1>5

\* WFQ finds its weights.
LEMMA StartsSurely == HeapInv /\ thread = "starting" => SureToInitialize
<1> SUFFICES ASSUME HeapInv, thread = "starting" PROVE SureToInitialize
  OBVIOUS
<1>1. main \in {"open", "joining"}
  BY DEF HeapInv, ThreadHeap
<1> QED
  BY <1>1 DEF HeapInv, SureToInitialize, CanInitialize, NonNull, Inside, Stuck, Misnamed

\* The thread allocates what the scheduler and the history need, once.
LEMMA HeapStarted == HeapInv /\ StartThread => HeapInv'
<1> SUFFICES ASSUME HeapInv, StartThread PROVE HeapInv'
  OBVIOUS
<1> USE DEF HeapInv
<1>1. /\ thread = "starting" /\ thread' = "running" /\ ~ locked' /\ current_scheduler' = config.alg
      /\ UNCHANGED <<main, inits, config, multi_timeline_size, g_agios_thread_stop>>
  BY DEF StartThread
<1>2. /\ main \in {"open", "joining"} /\ performance_info_len = 0 /\ inits > 0 /\ dangling = {}
      /\ \A x \in {"performance_entry", "wfq_weights", "MLF_lock_tries"} : x \notin live
  BY <1>1 DEF ThreadHeap, Outside, HeapType, Inside, Stuck, Misnamed
<1>3. ~ HistoryFull
  BY <1>2, LifecycleAssumption DEF HistoryFull
<1>4. SureToInitialize
  BY <1>1, StartsSurely
<1>5. /\ live' = live \cup SchedulerData(config.alg) \cup {"performance_entry"}
      /\ dangling' = {} /\ ~ wrong' /\ performance_info_len' = 1
  <2>1. (SchedulerData(config.alg) \cup {"performance_entry"}) \cap live = {}
    BY <1>2, SchedulerNames
  <2>2. HeapStep(SchedulerData(config.alg) \cup {"performance_entry"}, {}, ~ SureToInitialize)
    BY <1>3 DEF StartThread
  <2>3. performance_info_len' = 1
    BY <1>2, <1>3 DEF StartThread
  <2> QED
    BY <1>2, <1>4, <2>1, <2>2, <2>3 DEF HeapStep
<1>6. HeapType'
  BY <1>1, <1>5, SchedulerNames DEF HeapType, Names
<1>7. Inside'
  <2>1. \A x \in Names \ {"wfq_weights", "MLF_lock_tries", "performance_entry"} :
          x \in live' <=> x \in live
    BY <1>5, SchedulerNames
  <2> QED
    BY <1>1, <1>2, <1>5, <2>1 DEF Inside, Stuck, Misnamed, Prepared, Traces, Table, Buffers, Names
<1>8. ThreadHeap' /\ Outside'
  BY <1>1, <1>2, <1>5 DEF ThreadHeap, Outside
<1> QED
  BY <1>5, <1>6, <1>7, <1>8

\* agios_exit, and an agios_init that failed, leave nothing.
LEMMA HeapEnded == HeapInv /\ (CleanUpFailed \/ agios_exit) => HeapInv'
<1> SUFFICES ASSUME HeapInv, CleanUpFailed \/ agios_exit PROVE HeapInv'
  OBVIOUS
<1> USE DEF HeapInv
<1>1. /\ main' = "out" /\ UNCHANGED <<inits, config, leftover>> /\ inits > 0 /\ thread' = "none"
      /\ main \in {"failed", "joining"} /\ (main = "joining" => g_agios_thread_stop)
  BY DEF CleanUpFailed, Fail, agios_exit, cleanup_agios, Outside, ThreadHeap, HeapType
<1>2. /\ live' = {} /\ ~ wrong' /\ dangling' \subseteq Names
      /\ ~ locked /\ main = "failed" => dangling' \subseteq {"file_prefix", "file_sufix"}
  <2>1. CASE CleanUpFailed
    <3>1. main = "failed" /\ cleanup_agios(SchedulerData(NULL)) /\ SchedulerData(NULL) = {}
      BY <2>1 DEF CleanUpFailed, Fail, SchedulerData, NULL
    <3> QED
      BY <3>1, HeapCleaned
  <2>2. CASE agios_exit
    <3>1. main = "joining" /\ thread = "ended" /\ cleanup_agios(SchedulerData(current_scheduler))
      BY <2>2 DEF agios_exit
    <3> QED
      BY <3>1, HeapCleaned
  <2> QED
    BY <2>1, <2>2
<1>3. main = "failed" /\ ~ locked => multi_timeline_size = 0
  BY DEF Inside, Stuck, Misnamed, Prepared
<1>4. main = "failed" => performance_info_len = 0 \/ g_agios_thread_stop
  BY DEF ThreadHeap, HeapType
<1>5. HeapType'
  BY <1>1, <1>2 DEF HeapType, Places, leftover
<1>6. Outside' /\ Inside'
  BY <1>1, <1>2, <1>3 DEF Outside, Inside, leftover
<1>7. ThreadHeap'
  BY <1>1, <1>2, <1>4 DEF ThreadHeap, leftover
<1> QED
  BY <1>2, <1>5, <1>6, <1>7

\* Every step keeps the books of the memory.
LEMMA HeapPreserved == GoodUse /\ HeapInv /\ [Next]_vars => HeapInv'
<1> SUFFICES ASSUME GoodUse, HeapInv, [Next]_vars PROVE HeapInv'
  OBVIOUS
<1>1. CASE \E r \in Reqs : agios_add_request(r)
  <2>1. /\ main = "open" /\ config.trace
        /\ UNCHANGED <<main, inits, thread, config, leftover>>
    BY <1>1 DEF agios_add_request
  <2>2. {"tracefile_buffer", "aux_buf"} \subseteq live /\ ~ wrong
    BY <2>1 DEF HeapInv, Inside, Stuck, Misnamed, Traces, Buffers
  <2>3. live' = live /\ dangling' = dangling /\ ~ wrong'
    BY <1>1, <2>2 DEF agios_add_request, HeapStep
  <2> QED
    BY <2>1, <2>3
    DEF HeapInv, HeapType, Outside, Inside, Stuck, Misnamed, Prepared, Traces, ThreadHeap, leftover
<1>2. CASE LeaveLoop
  <2>1. /\ thread = "running" /\ thread' = "ended"
        /\ UNCHANGED <<main, inits, config, live, dangling, wrong, leftover>>
    BY <1>2 DEF LeaveLoop, heap
  <2> QED
    BY <2>1
    DEF HeapInv, HeapType, Outside, Inside, Stuck, Misnamed, Prepared, Traces, ThreadHeap, leftover
<1>3. CASE stop_the_agios_thread
  <2>1. /\ main = "open" /\ main' = "joining" /\ g_agios_thread_stop' = TRUE
        /\ UNCHANGED <<inits, thread, config, live, dangling, wrong, multi_timeline_size,
                       performance_info_len, locked, current_scheduler>>
    BY <1>3 DEF stop_the_agios_thread, heap
  <2> QED
    BY <2>1
    DEF HeapInv, HeapType, Outside, Inside, Stuck, Misnamed, Prepared, Traces, ThreadHeap, Places
<1>4. CASE UNCHANGED vars
  BY <1>4
  DEF HeapInv, HeapType, Outside, Inside, Stuck, Misnamed, Prepared, Traces, ThreadHeap, vars, heap, leftover
<1> QED
  BY <1>1, <1>2, <1>3, <1>4, HeapConfigured, HeapAllocated, HeapTraced, HeapCreated, HeapStarted,
     HeapEnded, StartsSurely DEF Next, CrashAtStart

\* Used as GoodUse says, for any algorithms, any max_queue_id and any number of
\* attempts to initialise it, the library frees what its pointers lead to, once, and
\* uses nothing that it freed (cleanup_agios and what it calls, agios_init, agios_exit).
THEOREM AlwaysFreedOnce == ASSUME GoodUse PROVE Spec => []FreedOnce
<1>1. HeapInv => FreedOnce
  BY DEF HeapInv, FreedOnce, Outside, ThreadHeap
<1> QED
  BY <1>1, HeapInit, HeapPreserved, PTL DEF Spec

\* Used so, a thread serves as long as the library is open, WFQ included: the file of
\* weights was named by the call that started the thread (agios_thread).
THEOREM AlwaysServes == ASSUME GoodUse PROVE Spec => []ServesWhileOpen
<1>1. HeapInv /\ Serving => ServesWhileOpen
  BY DEF HeapInv, HeapType, Serving, ServesWhileOpen, GoodUse
<1> QED
  BY <1>1, HeapInit, HeapPreserved, ServingInit, ServingPreserved, PTL DEF Spec

\* If moreover no file is missing and none names an unknown algorithm, all memory is
\* free at the end, that of libconfig included (read_configuration_file).
THEOREM AlwaysAllFreed ==
  ASSUME GoodUse,
         \A i \in DOMAIN Configs : \A c \in Configs[i] : c.readable /\ c.unknown = NULL
  PROVE  Spec => []AllFreed
<1> DEFINE Destroyed == HeapInv /\ ~ lost
<1>1. Init => Destroyed
  BY HeapInit DEF Init
<1>2. Destroyed /\ [Next]_vars => Destroyed'
  <2> SUFFICES ASSUME Destroyed, [Next]_vars PROVE ~ lost'
    BY HeapPreserved
  <2>1. CASE \E c \in Offered :
               KeepConfiguration(c) \/ read_configuration_file(c) \/ UnknownAlgorithm(c)
    <3>1. PICK c \in Offered :
            KeepConfiguration(c) \/ read_configuration_file(c) \/ UnknownAlgorithm(c)
      BY <2>1
    <3>2. c.readable /\ c.unknown = NULL
      BY OfferedFiles DEF HeapInv, HeapType
    <3> QED
      BY <3>1, <3>2 DEF KeepConfiguration, read_configuration_file, UnknownAlgorithm
  <2>2. CASE ~ \E c \in Offered :
               KeepConfiguration(c) \/ read_configuration_file(c) \/ UnknownAlgorithm(c)
    BY <2>2 DEF Next, vars, CleanUpFailed, allocate_data_structures, OpenTrace, pthread_create,
                StartThread, CrashAtStart, LeaveLoop, agios_add_request,
                stop_the_agios_thread, agios_exit
  <2> QED
    BY <2>1, <2>2
<1>3. Destroyed => AllFreed
  BY DEF AllFreed, HeapInv, Outside
<1> QED
  BY <1>1, <1>2, <1>3, PTL DEF Spec
=============================================================================
