---------------------------- MODULE TraceBuffer ----------------------------
(***************************************************************************)
(* The trace module: one line for each request that is added, written to a *)
(* buffer that is flushed to the trace file when the next line would not   *)
(* fit, and when the library ends.                                         *)
(*                                                                         *)
(* A line is the request it is about, and has a length.  The buffer is     *)
(* written by snprintf, which ends it with a zero byte, and flushed by     *)
(* fprintf, which prints what there is before the zero byte, whatever the  *)
(* occupancy says.                                                         *)
(***************************************************************************)
EXTENDS Naturals, Sequences

CONSTANTS Reqs,
          line,     \* line[r]: the length of the line of r
          Garbage,  \* what is printed of uninitialised memory
          config_agios_max_trace_buffer_size

\* A line is shorter than the smallest buffer of the configuration file (which
\* counts in kilobytes), if that is not zero.
ASSUME TraceAssumption ==
  /\ config_agios_max_trace_buffer_size \in Nat
  /\ Garbage \notin Reqs
  /\ line \in [Reqs -> 1 .. config_agios_max_trace_buffer_size - 1]

VARIABLES
  tracefile,                    \* the lines in the trace file
  agios_tracefile_buffer,       \* the lines in front of the zero byte
  agios_tracefile_buffer_size,  \* the occupancy of the buffer
  traced                        \* history: the requests traced since init_trace_module

traceVars == <<tracefile, agios_tracefile_buffer, agios_tracefile_buffer_size, traced>>

NoTrace ==
  /\ tracefile = <<>> /\ agios_tracefile_buffer = <<>>
  /\ agios_tracefile_buffer_size = 0 /\ traced = <<>>

\* Mutant: a line that fills the buffer to its end is thought to fit.
Full_ForgetsZero(size) == agios_tracefile_buffer_size + size > config_agios_max_trace_buffer_size

Full(size) == agios_tracefile_buffer_size + size >= config_agios_max_trace_buffer_size

\* Mutant: the buffer is not reset, so the next line is appended to it.
OccupancyBefore_NoReset(size) == agios_tracefile_buffer_size

\* The occupancy when a line is written: agios_tracefile_flush_buffer resets it.
OccupancyBefore(size) == IF Full(size) THEN 0 ELSE agios_tracefile_buffer_size

agios_trace_add_request(r) ==
  LET before == OccupancyBefore(line[r])
  IN /\ tracefile' = IF Full(line[r]) THEN tracefile \o agios_tracefile_buffer ELSE tracefile
     /\ agios_tracefile_buffer' = IF before = 0 THEN <<r>> ELSE Append(agios_tracefile_buffer, r)
     /\ agios_tracefile_buffer_size' = before + line[r]
     /\ traced' = Append(traced, r)

\* A file with a new number is opened.  A new buffer holds what malloc left in it:
\* perhaps a zero byte at once.
init_trace_module ==
  /\ tracefile' = <<>> /\ traced' = <<>>
  /\ agios_tracefile_buffer' \in {<<>>, <<Garbage>>}
  /\ agios_tracefile_buffer_size' = 0

close_agios_trace ==
  /\ tracefile' = tracefile \o agios_tracefile_buffer
  /\ agios_tracefile_buffer_size' = 0
  /\ UNCHANGED <<agios_tracefile_buffer, traced>>
=============================================================================
