--------------------------- MODULE StructureLocks ---------------------------
(***************************************************************************)
(* The mutexes around the request structures: one for the timeline, one    *)
(* per line of the hashtable.  User threads go through                     *)
(* acquire_adequate_lock; the AGIOS thread holds one mutex at a time while *)
(* it schedules and all of them while it changes the algorithm.  Every     *)
(* step below is one lock, one unlock or one read of current_scheduler.    *)
(*                                                                         *)
(* current_alg and current_scheduler are written together under all the    *)
(* mutexes, so one variable stands for both.                               *)
(***************************************************************************)
EXTENDS Integers

CONSTANTS Users,         \* threads that call the library
          Agios,         \* the thread that runs agios_thread
          Main,          \* the thread inside agios_init (it locks, Agios unlocks)
          Free,          \* "nobody holds this mutex"
          HashAlgs,      \* algorithms with needs_hashtable = true
          TimelineAlgs,  \* algorithms with needs_hashtable = false
          NoSched,       \* current_scheduler == NULL
          NLines         \* AGIOS_HASH_ENTRIES

Threads    == Users \cup {Agios}
Algs       == HashAlgs \cup TimelineAlgs
Lines      == 0 .. NLines - 1
Timeline   == -1               \* lock_all takes it before line 0
Structures == {Timeline} \cup Lines
Owners     == Threads \cup {Main, Free}

ASSUME ThreadsAssumption ==
  /\ Agios \notin Users
  /\ Main \notin Threads
  /\ Free \notin Threads \cup {Main}

ASSUME AlgsAssumption ==
  /\ HashAlgs \cap TimelineAlgs = {}
  /\ NoSched \notin Algs

ASSUME LinesAssumption == NLines \in Nat \ {0} /\ Free \notin Structures

VARIABLES
  sched,  \* current_scheduler
  owner,  \* owner[s]: holder of timeline_mutex (s = Timeline) or hashlist_locks[s]
  pc,     \* where thread t is in acquire_adequate_lock and its caller
  prev,   \* previous_needs_hashtable, which the caller keeps as using_hashtable
  hash,   \* the line of the file the call is about
  apc,    \* where the AGIOS thread is
  next,   \* loop index of lock_all / unlock_all
  held    \* the structure a schedule() step works on

vars == <<sched, owner, pc, prev, hash, apc, next, held>>

CallStates  == {"idle", "spin", "read", "lock", "check", "undo", "in"}
AgiosStates == {"start", "loop", "schedule", "serving", "callback",
                "lock_all", "switch", "unlock_all"}

TypeOK ==
  /\ sched \in Algs \cup {NoSched}
  /\ owner \in [Structures -> Owners]
  /\ pc \in [Threads -> CallStates]
  /\ prev \in [Threads -> BOOLEAN]
  /\ hash \in [Threads -> Lines]
  /\ apc \in AgiosStates
  /\ next \in -1 .. NLines
  /\ held \in Structures

needs_hashtable(alg) == alg \in HashAlgs

\* agios_init has called lock_all_data_structures and created the AGIOS thread.
Init ==
  /\ sched = NoSched
  /\ owner = [s \in Structures |-> Main]
  /\ pc = [t \in Threads |-> "idle"]
  /\ prev = [t \in Threads |-> FALSE]
  /\ hash = [t \in Threads |-> 0]
  /\ apc = "start"
  /\ next = 0
  /\ held = Timeline

-----------------------------------------------------------------------------
(* A call of agios_add_request, agios_release_request or                   *)
(* agios_cancel_request.                                                   *)

\* The structure whose mutex the call acquires (and later releases).
Wanted(t) == IF prev[t] THEN hash[t] ELSE Timeline

\* A callback runs in the AGIOS thread and may call back into the library.
Call(t) ==
  /\ pc[t] = "idle"
  /\ t = Agios => apc = "callback"
  /\ \E h \in Lines : hash' = [hash EXCEPT ![t] = h]
  /\ pc' = [pc EXCEPT ![t] = "spin"]
  /\ UNCHANGED <<sched, owner, prev, apc, next, held>>

Spin(t) ==
  /\ pc[t] = "spin"
  /\ sched # NoSched
  /\ pc' = [pc EXCEPT ![t] = "read"]
  /\ UNCHANGED <<sched, owner, prev, hash, apc, next, held>>

Read(t) ==
  /\ pc[t] = "read"
  /\ prev' = [prev EXCEPT ![t] = needs_hashtable(sched)]
  /\ pc' = [pc EXCEPT ![t] = "lock"]
  /\ UNCHANGED <<sched, owner, hash, apc, next, held>>

Lock(t) ==
  /\ pc[t] = "lock"
  /\ owner[Wanted(t)] = Free
  /\ owner' = [owner EXCEPT ![Wanted(t)] = t]
  /\ pc' = [pc EXCEPT ![t] = "check"]
  /\ UNCHANGED <<sched, prev, hash, apc, next, held>>

Adequate(t) == prev[t] = needs_hashtable(sched)

\* Mutant: acquire_adequate_lock without its second look at current_scheduler.
Check_Once(t) ==
  /\ pc[t] = "check"
  /\ pc' = [pc EXCEPT ![t] = "in"]
  /\ UNCHANGED <<sched, owner, prev, hash, apc, next, held>>

Check(t) ==
  /\ pc[t] = "check"
  /\ pc' = [pc EXCEPT ![t] = IF Adequate(t) THEN "in" ELSE "undo"]
  /\ UNCHANGED <<sched, owner, prev, hash, apc, next, held>>

\* Mutant: the wrong mutex is kept while the right one is asked for.
Undo_KeepsLock(t) ==
  /\ pc[t] = "undo"
  /\ pc' = [pc EXCEPT ![t] = "read"]
  /\ UNCHANGED <<sched, owner, prev, hash, apc, next, held>>

Undo(t) ==
  /\ pc[t] = "undo"
  /\ owner' = [owner EXCEPT ![Wanted(t)] = Free]
  /\ pc' = [pc EXCEPT ![t] = "read"]
  /\ UNCHANGED <<sched, prev, hash, apc, next, held>>

\* The caller is done with the structure and unlocks what using_hashtable says.
Leave(t) ==
  /\ pc[t] = "in"
  /\ owner' = [owner EXCEPT ![Wanted(t)] = Free]
  /\ pc' = [pc EXCEPT ![t] = "idle"]
  /\ UNCHANGED <<sched, prev, hash, apc, next, held>>

UserStep(t) ==
  Call(t) \/ Spin(t) \/ Read(t) \/ Lock(t) \/ Check(t) \/ Undo(t) \/ Leave(t)

-----------------------------------------------------------------------------
(* The AGIOS thread.                                                       *)

\* The first scheduler is set while agios_init's locks are still in place.
Start ==
  /\ apc = "start"
  /\ sched' \in Algs
  /\ apc' = "unlock_all"
  /\ next' = 0
  /\ UNCHANGED <<owner, pc, prev, hash, held>>

\* Mutant: the loop over the lines runs once too often.
UnlockLine_OneMore ==
  /\ apc = "unlock_all" /\ next \in 0 .. NLines
  /\ owner' = [owner EXCEPT ![next] = Free]
  /\ next' = next + 1
  /\ UNCHANGED <<sched, pc, prev, hash, apc, held>>

UnlockLine ==
  /\ apc = "unlock_all" /\ next \in Lines
  /\ owner' = [owner EXCEPT ![next] = Free]
  /\ next' = next + 1
  /\ UNCHANGED <<sched, pc, prev, hash, apc, held>>

UnlockTimeline ==
  /\ apc = "unlock_all" /\ next = NLines
  /\ owner' = [owner EXCEPT ![Timeline] = Free]
  /\ apc' = "loop"
  /\ UNCHANGED <<sched, pc, prev, hash, next, held>>

\* One round of the thread's loop either calls schedule() ...
CallSchedule ==
  /\ apc = "loop"
  /\ apc' = "schedule"
  /\ UNCHANGED <<sched, owner, pc, prev, hash, next, held>>

\* Mutant: schedule() locks the timeline whatever the scheduler uses.
Serve_Timeline(s) ==
  /\ apc = "schedule"
  /\ s = Timeline
  /\ owner[s] = Free
  /\ owner' = [owner EXCEPT ![s] = Agios]
  /\ held' = s
  /\ apc' = "serving"
  /\ UNCHANGED <<sched, pc, prev, hash, next>>

\* ... which takes one mutex of the structure it uses at a time,
Serve(s) ==
  /\ apc = "schedule"
  /\ s \in IF needs_hashtable(sched) THEN Lines ELSE {Timeline}
  /\ owner[s] = Free
  /\ owner' = [owner EXCEPT ![s] = Agios]
  /\ held' = s
  /\ apc' = "serving"
  /\ UNCHANGED <<sched, pc, prev, hash, next>>

\* releases it before step 2 runs the callbacks (or looks at another line),
Served ==
  /\ apc = "serving"
  /\ owner' = [owner EXCEPT ![held] = Free]
  /\ apc' \in {"callback", "schedule"}
  /\ UNCHANGED <<sched, pc, prev, hash, next, held>>

CallbackReturns ==
  /\ apc = "callback" /\ pc[Agios] = "idle"
  /\ apc' = "schedule"
  /\ UNCHANGED <<sched, owner, pc, prev, hash, next, held>>

ScheduleReturns ==
  /\ apc = "schedule"
  /\ apc' = "loop"
  /\ UNCHANGED <<sched, owner, pc, prev, hash, next, held>>

\* Mutant: lock_all_data_structures forgets the timeline.
BeginChange_NoTimeline ==
  /\ apc = "loop"
  /\ apc' = "lock_all"
  /\ next' = 0
  /\ UNCHANGED <<sched, owner, pc, prev, hash, held>>

\* Mutant: the algorithm is changed without lock_all_data_structures.
BeginChange_NoLocks ==
  /\ apc = "loop"
  /\ apc' = "switch"
  /\ UNCHANGED <<sched, owner, pc, prev, hash, next, held>>

\* ... or changes the algorithm, with every mutex taken in a fixed order.
BeginChange ==
  /\ apc = "loop"
  /\ apc' = "lock_all"
  /\ next' = Timeline
  /\ UNCHANGED <<sched, owner, pc, prev, hash, held>>

LockNext ==
  /\ apc = "lock_all"
  /\ owner[next] = Free
  /\ owner' = [owner EXCEPT ![next] = Agios]
  /\ next' = next + 1
  /\ apc' = IF next + 1 = NLines THEN "switch" ELSE "lock_all"
  /\ UNCHANGED <<sched, pc, prev, hash, held>>

change_selected_alg ==
  /\ apc = "switch"
  /\ sched' \in Algs
  /\ apc' = "unlock_all"
  /\ next' = 0
  /\ UNCHANGED <<owner, pc, prev, hash, held>>

AgiosStep ==
  \/ Start \/ UnlockLine \/ UnlockTimeline
  \/ CallSchedule \/ (\E s \in Structures : Serve(s)) \/ Served
  \/ CallbackReturns \/ ScheduleReturns
  \/ BeginChange \/ LockNext \/ change_selected_alg

Next == (\E t \in Threads : UserStep(t)) \/ AgiosStep

Spec == Init /\ [][Next]_vars

-----------------------------------------------------------------------------
(* Properties.                                                             *)

\* The structure a thread really works on follows current_scheduler, not
\* using_hashtable (agios_add_request tests current_scheduler again).
WorksOn(t) == IF needs_hashtable(sched) THEN hash[t] ELSE Timeline

\* A call that came through acquire_adequate_lock holds the mutex of the
\* structure the scheduler in force uses, however often the algorithm changed
\* while the call was waiting: no request lands in the "ghost data structure".
AdequateLock ==
  \A t \in Threads : pc[t] = "in" => owner[WorksOn(t)] = t

\* No two threads work on one structure, and nobody works on any of them while
\* the AGIOS thread migrates requests from one to the other.
Exclusive ==
  /\ \A t, u \in Threads :
       pc[t] = "in" /\ pc[u] = "in" /\ WorksOn(t) = WorksOn(u) => t = u
  /\ \A t \in Threads :
       apc = "serving" /\ pc[t] = "in" => WorksOn(t) # held
  /\ apc = "switch" => \A t \in Threads : pc[t] # "in"

\* A mutex a thread waits for comes after every mutex it holds, in the order
\* timeline, line 0, line 1, ...: no cycle of threads can wait for each other.
WaitsFor(t) == (IF pc[t] = "lock" THEN {Wanted(t)} ELSE {})
               \cup (IF t = Agios /\ apc = "lock_all" THEN {next} ELSE {})
LockOrder ==
  \A t \in Threads, m \in Structures :
    owner[m] = t => \A w \in WaitsFor(t) : m < w

\* No call is pulled out from under: the algorithm does not change, and the
\* mutex is not released by anybody else, while a thread is inside.
StableInside ==
  [][\A t \in Threads :
       pc[t] = "in" => /\ sched' = sched
                       /\ pc'[t] = "in" => owner'[WorksOn(t)] = t]_vars

\* The protocol implements exclusive access to the structures in use.
Inside(t) ==
  IF pc[t] = "in" THEN WorksOn(t)
  ELSE IF t = Agios /\ apc = "serving" THEN held
  ELSE Free
Access == INSTANCE StructureAccess
            WITH access <- [t \in Threads |-> Inside(t)], Out <- Free
AccessSpec == Access!Spec
=============================================================================
