----------------------- MODULE StructureLocks_proofs -----------------------
(***************************************************************************)
(* For any number of user threads, hashtable lines and algorithms: the     *)
(* properties of StructureLocks, and that it implements StructureAccess.   *)
(***************************************************************************)
EXTENDS StructureLocks, TLAPS

\* States in which a call holds the mutex it asked for.
Holding == {"check", "undo", "in"}

\* What each mutex tells about its holder, and each holder about its mutexes.
CallsHold  == \A t \in Threads : pc[t] \in Holding => owner[Wanted(t)] = t
CallsMatch == \A t \in Threads : pc[t] = "in" => Adequate(t)
Started    == /\ apc # "start" <=> sched # NoSched
              /\ \A t \in Threads : pc[t] \notin {"idle", "spin"} => apc # "start"
Reentrant  == pc[Agios] # "idle" => apc = "callback"
AgiosHolds ==
  /\ apc = "start" => \A s \in Structures : owner[s] = Main
  /\ apc = "unlock_all" =>
       /\ next \in 0 .. NLines
       /\ \A s \in Structures : s = Timeline \/ s >= next => owner[s] \in {Agios, Main}
  /\ apc = "lock_all" =>
       /\ next \in -1 .. NLines - 1
       /\ \A s \in Structures : s < next => owner[s] = Agios
  /\ apc = "switch" => \A s \in Structures : owner[s] = Agios
  /\ apc = "serving" => /\ owner[held] = Agios
                        /\ held \in IF needs_hashtable(sched) THEN Lines ELSE {Timeline}
OwnersKnown ==
  \A s \in Structures, t \in Threads : owner[s] = t =>
    \/ pc[t] \in Holding /\ s = Wanted(t)
    \/ /\ t = Agios
       /\ \/ apc = "switch"
          \/ apc = "unlock_all" /\ (s = Timeline \/ s >= next)
          \/ apc = "lock_all" /\ s < next
          \/ apc = "serving" /\ s = held

IInv == /\ TypeOK /\ CallsHold /\ CallsMatch /\ Started
        /\ Reentrant /\ AgiosHolds /\ OwnersKnown

\* The starting state satisfies the inductive invariant.
LEMMA InitInv == Init => IInv
<1> USE LinesAssumption, ThreadsAssumption, AlgsAssumption
<1> SUFFICES ASSUME Init PROVE IInv
  OBVIOUS
<1>1. TypeOK
  BY DEF Init, TypeOK, Structures, Lines, Owners, Threads, CallStates, AgiosStates, Timeline
<1>2. CallsHold /\ CallsMatch /\ Started /\ Reentrant
  BY DEF Init, CallsHold, CallsMatch, Started, Reentrant, Holding, Threads
<1>3. AgiosHolds
  BY DEF Init, AgiosHolds
<1>4. OwnersKnown
  BY DEF Init, OwnersKnown, Threads
<1> QED
  BY <1>1, <1>2, <1>3, <1>4 DEF IInv

\* Every step keeps the variables in their types.
LEMMA TypePreserved == IInv /\ [Next]_vars => TypeOK'
<1> USE LinesAssumption, ThreadsAssumption, AlgsAssumption
<1> SUFFICES ASSUME IInv, [Next]_vars PROVE TypeOK'
  OBVIOUS
<1> USE DEF IInv, TypeOK, Structures, Lines, Owners, Threads, CallStates, AgiosStates,
            Timeline, Algs
<1>1. ASSUME NEW t \in Threads, UserStep(t) PROVE TypeOK'
  <2>0. Wanted(t) \in Structures
    BY DEF Wanted
  <2>1. CASE Call(t) BY <2>1 DEF Call
  <2>2. CASE Spin(t) BY <2>2 DEF Spin
  <2>3. CASE Read(t)
    <3>1. needs_hashtable(sched) \in BOOLEAN
      BY DEF needs_hashtable
    <3> QED BY <2>3, <3>1 DEF Read
  <2>4. CASE Lock(t) BY <2>0, <2>4 DEF Lock
  <2>5. CASE Check(t) BY <2>5 DEF Check
  <2>6. CASE Undo(t) BY <2>0, <2>6 DEF Undo
  <2>7. CASE Leave(t) BY <2>0, <2>7 DEF Leave
  <2> QED BY <1>1, <2>1, <2>2, <2>3, <2>4, <2>5, <2>6, <2>7 DEF UserStep
<1>2. ASSUME AgiosStep PROVE TypeOK'
  <2>1. CASE Start BY <2>1 DEF Start
  <2>2. CASE UnlockLine BY <2>2 DEF UnlockLine
  <2>3. CASE UnlockTimeline BY <2>3 DEF UnlockTimeline
  <2>4. CASE CallSchedule BY <2>4 DEF CallSchedule
  <2>5. ASSUME NEW s \in Structures, Serve(s) PROVE TypeOK'
    BY <2>5 DEF Serve
  <2>6. CASE Served BY <2>6 DEF Served
  <2>7. CASE CallbackReturns BY <2>7 DEF CallbackReturns
  <2>8. CASE ScheduleReturns BY <2>8 DEF ScheduleReturns
  <2>9. CASE BeginChange BY <2>9 DEF BeginChange
  <2>10. CASE LockNext BY <2>10 DEF LockNext, AgiosHolds
  <2>11. CASE change_selected_alg BY <2>11 DEF change_selected_alg
  <2> QED BY <1>2, <2>1, <2>2, <2>3, <2>4, <2>5, <2>6, <2>7, <2>8, <2>9, <2>10, <2>11
          DEF AgiosStep
<1>3. ASSUME UNCHANGED vars PROVE TypeOK'
  BY <1>3 DEF vars
<1> QED BY <1>1, <1>2, <1>3 DEF Next

\* Every step keeps what is known about mutexes and their holders.
LEMMA NextInv == IInv /\ [Next]_vars => IInv'
<1> USE LinesAssumption, ThreadsAssumption, AlgsAssumption
<1> SUFFICES ASSUME IInv, [Next]_vars PROVE IInv'
  OBVIOUS
<1>0. TypeOK'
  BY TypePreserved
<1> DEFINE Rest == CallsHold /\ CallsMatch /\ Started /\ Reentrant /\ AgiosHolds /\ OwnersKnown
<1> USE DEF IInv, TypeOK, Structures, Lines, Owners, Threads, Timeline, Algs,
            CallsHold, CallsMatch, Started, Reentrant, AgiosHolds, OwnersKnown,
            Holding, Wanted
<1>1. ASSUME NEW t \in Threads, UserStep(t) PROVE Rest'
  <2>1. CASE Call(t) BY <2>1 DEF Call, Adequate
  <2>2. CASE Spin(t) BY <2>2 DEF Spin, Adequate
  <2>3. CASE Read(t) BY <2>3 DEF Read, Adequate, needs_hashtable
  <2>4. CASE Lock(t) BY <2>4 DEF Lock, Adequate
  <2>5. CASE Check(t) BY <2>5 DEF Check, Adequate, needs_hashtable
  <2>6. CASE Undo(t) BY <2>6 DEF Undo, Adequate
  <2>7. CASE Leave(t) BY <2>7 DEF Leave, Adequate
  <2> QED BY <1>1, <2>1, <2>2, <2>3, <2>4, <2>5, <2>6, <2>7 DEF UserStep
<1>2. ASSUME AgiosStep PROVE Rest'
  <2>1. CASE Start BY <2>1 DEF Start, Adequate
  <2>2. CASE UnlockLine BY <2>2 DEF UnlockLine, Adequate
  <2>3. CASE UnlockTimeline BY <2>3 DEF UnlockTimeline, Adequate
  <2>4. CASE CallSchedule BY <2>4 DEF CallSchedule, Adequate
  <2>5. ASSUME NEW s \in Structures, Serve(s) PROVE Rest'
    BY <2>5 DEF Serve, Adequate
  <2>6. CASE Served BY <2>6 DEF Served, Adequate
  <2>7. CASE CallbackReturns BY <2>7 DEF CallbackReturns, Adequate
  <2>8. CASE ScheduleReturns BY <2>8 DEF ScheduleReturns, Adequate
  <2>9. CASE BeginChange BY <2>9 DEF BeginChange, Adequate
  <2>10. CASE LockNext BY <2>10 DEF LockNext, Adequate
  <2>11. CASE change_selected_alg BY <2>11 DEF change_selected_alg, Adequate
  <2> QED BY <1>2, <2>1, <2>2, <2>3, <2>4, <2>5, <2>6, <2>7, <2>8, <2>9, <2>10, <2>11
          DEF AgiosStep
<1>3. ASSUME UNCHANGED vars PROVE Rest'
  BY <1>3 DEF vars, Adequate
<1> QED BY <1>0, <1>1, <1>2, <1>3 DEF Next

\* The invariant holds in every reachable state.
THEOREM InductiveInvariant == Spec => []IInv
<1> QED BY InitInv, NextInv, PTL DEF Spec

\* The variables keep their types.
THEOREM TypeCorrect == Spec => []TypeOK
<1>1. IInv => TypeOK
  BY DEF IInv
<1> QED BY <1>1, InductiveInvariant, PTL

LEMMA InvAdequate == IInv => AdequateLock
BY DEF IInv, CallsHold, CallsMatch, AdequateLock, Adequate, WorksOn, Wanted, Holding

\* A call works only under the mutex of the structure its scheduler uses.
THEOREM AlwaysAdequate == Spec => []AdequateLock
<1> QED BY InvAdequate, InductiveInvariant, PTL

LEMMA InvExclusive == IInv => Exclusive
<1> SUFFICES ASSUME IInv PROVE Exclusive
  OBVIOUS
<1> USE ThreadsAssumption DEF IInv, TypeOK, Threads
<1>1. AdequateLock
  BY InvAdequate
<1>2. ASSUME NEW t \in Threads, pc[t] = "in" PROVE WorksOn(t) \in Structures
  BY <1>2 DEF WorksOn, Structures
<1>3. \A t, u \in Threads : pc[t] = "in" /\ pc[u] = "in" /\ WorksOn(t) = WorksOn(u) => t = u
  BY <1>1 DEF AdequateLock
<1>4. ASSUME NEW t \in Threads, pc[t] = "in", apc = "serving" PROVE WorksOn(t) # held
  BY <1>1, <1>4 DEF AdequateLock, AgiosHolds, Reentrant
<1>5. ASSUME NEW t \in Threads, pc[t] = "in", apc = "switch" PROVE FALSE
  BY <1>1, <1>2, <1>5 DEF AdequateLock, AgiosHolds, Reentrant
<1> QED BY <1>3, <1>4, <1>5 DEF Exclusive

\* One thread per structure, and the migration alone with all of them.
THEOREM AlwaysExclusive == Spec => []Exclusive
<1> QED BY InvExclusive, InductiveInvariant, PTL

LEMMA InvLockOrder == IInv => LockOrder
BY ThreadsAssumption
   DEF IInv, TypeOK, Threads, Holding, Reentrant, OwnersKnown, LockOrder, WaitsFor,
       Structures, Lines, Timeline

\* Mutexes are only ever waited for in one order: no circular wait.
THEOREM AlwaysLockOrder == Spec => []LockOrder
<1> QED BY InvLockOrder, InductiveInvariant, PTL

-----------------------------------------------------------------------------
(* The refinement.                                                         *)

Mapped == [t \in Threads |-> Inside(t)]

\* Nobody is inside while the AGIOS thread (or agios_init) holds every mutex.
LEMMA NobodyInside ==
  ASSUME IInv, apc \in {"start", "switch"}
  PROVE  \A t \in Threads : Inside(t) = Free
<1> USE ThreadsAssumption DEF IInv, TypeOK, Threads, Structures, Holding
<1>1. ASSUME NEW t \in Threads, pc[t] = "in" PROVE Wanted(t) \in Structures
  BY DEF Wanted
<1>2. ASSUME NEW t \in Threads, pc[t] = "in" PROVE FALSE
  BY <1>1, <1>2 DEF CallsHold, AgiosHolds, Reentrant
<1> QED BY <1>2 DEF Inside

\* A step that leaves pc's insiders, the scheduler and "serving" alone stutters.
LEMMA SameAccess ==
  ASSUME sched' = sched,
         \A t \in Threads : pc'[t] = "in" <=> pc[t] = "in",
         \A t \in Threads : pc[t] = "in" => hash'[t] = hash[t],
         apc' = "serving" <=> apc = "serving",
         held' = held
  PROVE  Mapped' = Mapped
<1>1. \A t \in Threads : Inside(t)' = Inside(t)
  BY DEF Inside, WorksOn, needs_hashtable
<1> QED BY <1>1 DEF Mapped, Threads

\* One thread enters or leaves; the others' places are unchanged.
LEMMA OneMoves ==
  ASSUME NEW t \in Threads, NEW s, Inside(t)' = s,
         \A u \in Threads : u # t => Inside(u)' = Inside(u)
  PROVE  Mapped' = [Mapped EXCEPT ![t] = s]
BY DEF Mapped, Threads

\* A call whose check succeeds enters the structure of the scheduler in force.
LEMMA CheckRefines ==
  ASSUME IInv, NEW t \in Threads, Check(t)
  PROVE  Access!Enter(t, WorksOn(t)) \/ UNCHANGED <<sched, Mapped>>
<1> USE ThreadsAssumption, LinesAssumption, AlgsAssumption
    DEF IInv, TypeOK, Threads, Structures, Lines, Timeline, Holding
<1>1. CASE ~ Adequate(t)
  <2>1. Mapped' = Mapped
    BY <1>1, SameAccess DEF Check
  <2> QED BY <2>1 DEF Check
<1>2. CASE Adequate(t)
  <2>1. sched # NoSched
    BY DEF Check, Started
  <2>2. WorksOn(t) \in Access!Uses(sched) /\ WorksOn(t) = Wanted(t)
    BY <1>2 DEF Adequate, WorksOn, Wanted, needs_hashtable, Access!Uses,
                Access!Lines, Access!Timeline
  <2>3. owner[WorksOn(t)] = t
    BY <2>2 DEF Check, CallsHold
  <2>4. Inside(t) = Free /\ Mapped[t] = Free
    BY DEF Check, Inside, Reentrant, Mapped
  <2>5. \A u \in Threads : Inside(u) # WorksOn(t)
    <3> SUFFICES ASSUME NEW u \in Threads PROVE Inside(u) # WorksOn(t)
      OBVIOUS
    <3>1. CASE pc[u] = "in"
      BY <3>1, <2>3, InvAdequate DEF Inside, AdequateLock, Check
    <3>2. CASE pc[u] # "in" /\ u = Agios /\ apc = "serving"
      BY <3>2, <2>3 DEF Inside, AgiosHolds, Reentrant, Check
    <3>3. CASE pc[u] # "in" /\ ~ (u = Agios /\ apc = "serving")
      <4>1. Inside(u) = Free
        BY <3>3 DEF Inside
      <4> QED BY <4>1, <2>2 DEF Wanted
    <3> QED BY <3>1, <3>2, <3>3
  <2>6. Inside(t)' = WorksOn(t)
    BY <1>2 DEF Check, Inside, WorksOn, needs_hashtable
  <2>7. \A u \in Threads : u # t => Inside(u)' = Inside(u)
    BY DEF Check, Inside, WorksOn, needs_hashtable
  <2>8. Mapped' = [Mapped EXCEPT ![t] = WorksOn(t)]
    BY <2>6, <2>7, OneMoves
  <2> QED BY <2>1, <2>2, <2>4, <2>5, <2>8 DEF Access!Enter, Check, Mapped
<1> QED BY <1>1, <1>2

\* Taking the mutex of a line or of the timeline in schedule() is entering it.
LEMMA ServeRefines ==
  ASSUME IInv, NEW s \in Structures, Serve(s)
  PROVE  Access!Enter(Agios, s)
<1> USE ThreadsAssumption, LinesAssumption
    DEF IInv, TypeOK, Threads, Structures, Lines, Timeline, Serve
<1>1. sched # NoSched /\ s \in Access!Uses(sched)
  BY DEF Started, needs_hashtable, Access!Uses, Access!Lines, Access!Timeline
<1>2. Inside(Agios) = Free /\ Mapped[Agios] = Free
  BY DEF Reentrant, Inside, Mapped
<1>3. \A u \in Threads : Inside(u) # s
  BY InvAdequate DEF Inside, AdequateLock
<1>4. Inside(Agios)' = s
  BY DEF Inside, Reentrant
<1>5. \A u \in Threads : u # Agios => Inside(u)' = Inside(u)
  BY DEF Inside, WorksOn, needs_hashtable
<1>6. Mapped' = [Mapped EXCEPT ![Agios] = s]
  BY <1>4, <1>5, OneMoves
<1> QED BY <1>1, <1>2, <1>3, <1>6 DEF Access!Enter, Mapped

\* Unlocking is leaving.
LEMMA LeaveRefines ==
  ASSUME IInv, NEW t \in Threads, Leave(t) \/ (t = Agios /\ Served)
  PROVE  Access!Exit(t)
<1> USE ThreadsAssumption, LinesAssumption
    DEF IInv, TypeOK, Threads, Structures, Lines, Timeline, Leave, Served
<1>1. Inside(t) # Free
  BY DEF Inside, WorksOn, Reentrant
<1>2. Inside(t)' = Free
  BY DEF Inside, Reentrant
<1>3. \A u \in Threads : u # t => Inside(u)' = Inside(u)
  BY DEF Inside, WorksOn, needs_hashtable
<1>4. Mapped' = [Mapped EXCEPT ![t] = Free]
  BY <1>2, <1>3, OneMoves
<1> QED BY <1>1, <1>4 DEF Access!Exit, Mapped

\* Setting current_scheduler is the abstract switch.
LEMMA SwitchRefines ==
  ASSUME IInv, IInv', Start \/ change_selected_alg
  PROVE  Access!Switch(sched')
<1>1. \A t \in Threads : Inside(t) = Free
  BY NobodyInside DEF Start, change_selected_alg
<1>2. \A t \in Threads : pc[t] # "in"
  <2>1. ASSUME NEW t \in Threads, pc[t] = "in" PROVE WorksOn(t) = Free
    BY <1>1, <2>1 DEF Inside
  <2>2. ASSUME NEW t \in Threads PROVE WorksOn(t) \in Structures
    BY DEF IInv, TypeOK, WorksOn, Structures
  <2> QED BY <2>1, <2>2, LinesAssumption
<1>3. \A t \in Threads : Inside(t)' = Free
  BY <1>2 DEF Inside, Start, change_selected_alg
<1> QED BY <1>1, <1>3 DEF Access!Switch, Mapped

\* While a thread is inside, the scheduler stays and the mutex stays its own.
THEOREM AlwaysStable == Spec => StableInside
<1> DEFINE Stays(t) == pc[t] = "in" => /\ sched' = sched
                                       /\ pc'[t] = "in" => owner'[WorksOn(t)] = t
<1>1. IInv /\ IInv' /\ [Next]_vars => [\A t \in Threads : Stays(t)]_vars
  <2> SUFFICES ASSUME IInv, IInv', Next, NEW t \in Threads, pc[t] = "in"
               PROVE  /\ sched' = sched
                      /\ pc'[t] = "in" => owner'[WorksOn(t)] = t
    OBVIOUS
  <2>1. Inside(t) # Free
    BY LinesAssumption DEF IInv, TypeOK, Inside, WorksOn, Structures
  <2>2. sched' = sched
    <3>1. apc \notin {"start", "switch"}
      BY <2>1, NobodyInside
    <3> QED BY <3>1 DEF Next, UserStep, AgiosStep, Call, Spin, Read, Lock, Check, Undo, Leave,
                        Start, UnlockLine, UnlockTimeline, CallSchedule, Serve, Served,
                        CallbackReturns, ScheduleReturns, BeginChange, LockNext,
                        change_selected_alg
  <2>3. hash'[t] = hash[t]
    BY DEF Next, UserStep, AgiosStep, Call, Spin, Read, Lock, Check, Undo, Leave,
           Start, UnlockLine, UnlockTimeline, CallSchedule, Serve, Served,
           CallbackReturns, ScheduleReturns, BeginChange, LockNext,
           change_selected_alg, IInv, TypeOK
  <2>4. AdequateLock'
    BY InvAdequate, PTL
  <2>5. WorksOn(t)' = WorksOn(t)
    BY <2>2, <2>3 DEF WorksOn, needs_hashtable
  <2> QED BY <2>2, <2>4, <2>5 DEF AdequateLock
<1> QED BY <1>1, InductiveInvariant, PTL DEF Spec, StableInside

\* StructureLocks implements exclusive access to the structures in use.
THEOREM Implements == Spec => AccessSpec
<1> USE ThreadsAssumption, LinesAssumption, AlgsAssumption
<1>1. Init => Access!Init
  BY DEF Init, Access!Init, Inside, Threads
<1>2. IInv /\ IInv' /\ [Next]_vars => [Access!Next]_<<sched, Mapped>>
  <2> SUFFICES ASSUME IInv, IInv', [Next]_vars
               PROVE  Access!Next \/ UNCHANGED <<sched, Mapped>>
    OBVIOUS
  <2> USE DEF Access!Next
  <2>1. ASSUME NEW t \in Threads, UserStep(t)
        PROVE  Access!Next \/ UNCHANGED <<sched, Mapped>>
    <3>1. CASE Check(t)
      <4>1. WorksOn(t) \in Access!Structures
        BY DEF WorksOn, Access!Structures, Access!Lines, Access!Timeline,
               Timeline, Lines, IInv, TypeOK
      <4> QED BY <3>1, <4>1, CheckRefines
    <3>2. CASE Leave(t)
      BY <3>2, LeaveRefines
    <3>3. CASE Call(t) \/ Spin(t) \/ Read(t) \/ Lock(t) \/ Undo(t)
      <4>1. Mapped' = Mapped
        BY <3>3, SameAccess DEF Call, Spin, Read, Lock, Undo, IInv, TypeOK
      <4>2. sched' = sched
        BY <3>3 DEF Call, Spin, Read, Lock, Undo
      <4> QED BY <4>1, <4>2
    <3> QED BY <2>1, <3>1, <3>2, <3>3 DEF UserStep
  <2>2. ASSUME AgiosStep PROVE Access!Next \/ UNCHANGED <<sched, Mapped>>
    <3>1. CASE Start \/ change_selected_alg
      <4>1. sched' \in Access!Algs
        BY <3>1 DEF Start, change_selected_alg, Algs, Access!Algs
      <4> QED BY <3>1, <4>1, SwitchRefines
    <3>2. ASSUME NEW s \in Structures, Serve(s) PROVE Access!Next
      <4>1. Agios \in Threads /\ s \in Access!Structures
        BY DEF Threads, Structures, Access!Structures, Access!Lines, Lines,
               Access!Timeline, Timeline
      <4> QED BY <3>2, <4>1, ServeRefines
    <3>3. CASE Served
      BY <3>3, LeaveRefines DEF Threads
    <3>4. CASE UnlockLine \/ UnlockTimeline \/ CallSchedule \/ CallbackReturns
               \/ ScheduleReturns \/ BeginChange \/ LockNext
      <4>1. Mapped' = Mapped
        BY <3>4, SameAccess
           DEF UnlockLine, UnlockTimeline, CallSchedule, CallbackReturns,
               ScheduleReturns, BeginChange, LockNext
      <4>2. sched' = sched
        BY <3>4 DEF UnlockLine, UnlockTimeline, CallSchedule, CallbackReturns,
                    ScheduleReturns, BeginChange, LockNext
      <4> QED BY <4>1, <4>2
    <3> QED BY <2>2, <3>1, <3>2, <3>3, <3>4 DEF AgiosStep
  <2>3. CASE UNCHANGED vars
    <3>1. Mapped' = Mapped
      BY <2>3, SameAccess DEF vars
    <3> QED BY <2>3, <3>1 DEF vars
  <2> QED BY <2>1, <2>2, <2>3 DEF Next
<1>3. Mapped = [t \in Threads |-> Inside(t)]
  BY DEF Mapped
<1> QED BY <1>1, <1>2, <1>3, InductiveInvariant, PTL DEF Spec, AccessSpec, Access!Spec, Mapped
=============================================================================
