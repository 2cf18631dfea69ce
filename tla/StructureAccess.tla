-------------------------- MODULE StructureAccess --------------------------
(***************************************************************************)
(* What the locking protocol of AGIOS promises its callers: a thread that  *)
(* works on the request structures is alone on the structure it uses, that *)
(* structure belongs to the scheduler in force, and the scheduler changes  *)
(* only while nobody works on any structure.  StructureLocks shows how     *)
(* acquire_adequate_lock, lock_all_data_structures and                     *)
(* unlock_all_data_structures implement it with mutexes.                   *)
(***************************************************************************)
EXTENDS Integers

CONSTANTS Threads,       \* every thread that touches the structures
          HashAlgs,      \* algorithms with needs_hashtable = true
          TimelineAlgs,  \* algorithms with needs_hashtable = false
          NoSched,       \* current_scheduler == NULL
          NLines,        \* AGIOS_HASH_ENTRIES
          Out            \* "works on no structure"

VARIABLES sched,   \* the scheduler in force
          access   \* access[t]: the structure thread t is working on

Algs       == HashAlgs \cup TimelineAlgs
Lines      == 0 .. NLines - 1
Timeline   == -1
Structures == {Timeline} \cup Lines

Uses(alg) == IF alg \in HashAlgs THEN Lines ELSE {Timeline}

TypeOK ==
  /\ sched \in Algs \cup {NoSched}
  /\ access \in [Threads -> Structures \cup {Out}]

Init ==
  /\ sched = NoSched
  /\ access = [t \in Threads |-> Out]

Enter(t, s) ==
  /\ sched # NoSched
  /\ s \in Uses(sched)
  /\ access[t] = Out
  /\ \A u \in Threads : access[u] # s
  /\ access' = [access EXCEPT ![t] = s]
  /\ UNCHANGED sched

Exit(t) ==
  /\ access[t] # Out
  /\ access' = [access EXCEPT ![t] = Out]
  /\ UNCHANGED sched

Switch(alg) ==
  /\ \A t \in Threads : access[t] = Out
  /\ sched' = alg
  /\ UNCHANGED access

Next ==
  \/ \E t \in Threads, s \in Structures : Enter(t, s)
  \/ \E t \in Threads : Exit(t)
  \/ \E alg \in Algs : Switch(alg)

Spec == Init /\ [][Next]_<<sched, access>>
=============================================================================
