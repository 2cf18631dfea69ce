------------------------------- MODULE Agios -------------------------------
(***************************************************************************)
(* The library with all its algorithms: the users, the thread that runs    *)
(* agios_thread, and the schedule() function of the algorithm the          *)
(* configuration chose.                                                    *)
(***************************************************************************)
EXTENDS Timeorder, NOOP, SJF, WFQ, TWINS, MLF, aIOLi

statics == <<wfqVars, twinsVars, mlfVars>>
vars    == <<coreVars, statics, waitVars>>

schedule ==
  \/ (timeorder \/ NOOP_empty \/ SJF) /\ UNCHANGED <<statics, waitVars>>
  \/ WFQ   /\ UNCHANGED <<twinsVars, mlfVars, waitVars>>
  \/ TWINS /\ UNCHANGED <<wfqVars, mlfVars, waitVars>>
  \/ MLF   /\ UNCHANGED <<wfqVars, twinsVars>>
  \/ aIOLi /\ UNCHANGED statics

LibraryInit == Init /\ WFQ_init /\ TWINS_init /\ MLF_init /\ waiting_init

Next == \/ CoreNext /\ UNCHANGED <<statics, waitVars>>
        \/ Tick     /\ UNCHANGED statics
        \/ schedule

Spec == LibraryInit /\ [][Next]_vars

\* The AGIOS thread goes on whenever it can: the mutexes it waits for are held
\* for a bounded number of steps, and its sleep has a timeout.  A thread that looks
\* at the clock again and again finds that the window of TWINS has elapsed.
Fairness ==
  /\ UserFairness
  /\ WF_coreVars(ThreadStep) /\ WF_vars(schedule) /\ WF_waitVars(Tick)
  /\ SF_vars(TWINS_look(TRUE) /\ UNCHANGED <<wfqVars, mlfVars, waitVars>>)

FairSpec == Spec /\ Fairness
=============================================================================
