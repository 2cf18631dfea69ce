--------------------------- MODULE WaitingCommon ---------------------------
(***************************************************************************)
(* What MLF and aIOLi share: the quantum that doubles each time a request  *)
(* is looked at, and the waiting times they impose on a file when they     *)
(* expect a contiguous request or a larger aggregation soon.               *)
(*                                                                         *)
(* Time is counted in units of which config_waiting_time is a small number.*)
(***************************************************************************)
EXTENDS AgiosCore

CONSTANT config_waiting_time

ASSUME WaitingTimeAssumption == config_waiting_time \in Nat \ {0}

VARIABLES
  waiting,    \* per file: time is waiting_time; elapsed is how long ago
              \* waiting_start is, while the file waits
  globalinfo  \* per queue: the fields of struct queue_t these two schedulers use;
              \* shifts and betters (history) count the waits imposed, for each of
              \* the two reasons, since the last request

waitVars == <<waiting, globalinfo>>

NotWaiting == [time |-> 0, elapsed |-> 0]

\* init_queue and file_init
waiting_init ==
  /\ waiting = [f \in Files |-> NotWaiting]
  /\ globalinfo = [q \in Queues |-> [laststartoff |-> 0, lastfinaloff |-> 0, predictedoff |-> 0,
                                     lastaggregation |-> 0, nextquantum |-> 0,
                                     shifts |-> 0, betters |-> 0]]

\* Time passes for the files that wait.
Tick ==
  /\ Alive
  /\ \E f \in Files : waiting[f].time > 0 /\ waiting[f].elapsed < config_waiting_time
  /\ waiting' = [f \in Files |->
       IF waiting[f].time > 0 /\ waiting[f].elapsed < config_waiting_time
       THEN [waiting[f] EXCEPT !.elapsed = @ + 1] ELSE waiting[f]]
  /\ UNCHANGED <<coreVars, globalinfo>>

\* Mutant: every visit starts the wait anew.
update_waiting_time_counters_Restarts(w) ==
  IF w.time > w.elapsed THEN [w EXCEPT !.elapsed = 0] ELSE NotWaiting

\* waiting_start is not moved: the time that passed before this visit is
\* subtracted again by the next one, unless check_selection moves it.
update_waiting_time_counters(w) ==
  IF w.time > w.elapsed THEN [w EXCEPT !.time = @ - w.elapsed] ELSE NotWaiting

\* What a visit of file f makes of its waiting time.
Visited(f) ==
  IF waiting[f].time > 0 THEN update_waiting_time_counters(waiting[f]) ELSE waiting[f]

\* Mutant: a prediction is kept until the predicted request comes.
check_selection_KeepsPrediction(req, w, info_q) ==
  LET shift  == info_q.predictedoff # 0 /\ req.offset > info_q.predictedoff
      better == /\ info_q.predictedoff = 0
                /\ req.offset > info_q.lastfinaloff /\ info_q.lastaggregation > req.reqnb
      wait   == IF shift \/ better THEN [NotWaiting EXCEPT !.time = config_waiting_time]
                ELSE [w EXCEPT !.elapsed = 0]
  IN [proceeds |-> wait.time = 0,
      wait     |-> wait,
      info     |-> [info_q EXCEPT !.lastaggregation = IF better THEN 0 ELSE @,
                                  !.shifts  = IF shift THEN @ + 1 ELSE @,
                                  !.betters = IF better THEN @ + 1 ELSE @]]

\* May req, selected from the queue with info_q, proceed, or does its file (with
\* the waiting time w) have to wait?  What is changed on the way is in the answer.
check_selection(req, w, info_q) ==
  LET shift  == info_q.predictedoff # 0 /\ req.offset > info_q.predictedoff
      better == /\ info_q.predictedoff = 0
                /\ req.offset > info_q.lastfinaloff /\ info_q.lastaggregation > req.reqnb
      wait   == IF shift \/ better THEN [NotWaiting EXCEPT !.time = config_waiting_time]
                ELSE [w EXCEPT !.elapsed = 0]
  IN [proceeds |-> wait.time = 0,
      wait     |-> wait,
      info     |-> [info_q EXCEPT !.predictedoff = 0,
                                  !.lastaggregation = IF better THEN 0 ELSE @,
                                  !.shifts  = IF shift THEN @ + 1 ELSE @,
                                  !.betters = IF better THEN @ + 1 ELSE @]]

\* waiting_algorithms_postprocess, with generic_post_process
waiting_algorithms_postprocess(req, info_q) ==
  [info_q EXCEPT
     !.lastfinaloff = End(req),
     !.predictedoff = IF req.offset < info_q.laststartoff /\ @ = 0 THEN End(req) ELSE @,
     !.laststartoff = req.offset,
     !.lastaggregation = req.reqnb,
     !.shifts = 0, !.betters = 0]

increment_sched_factor(req) ==
  [req EXCEPT !.sched_factor = IF @ = 0 THEN 1 ELSE Int32(2 * @)]

\* A queue whose requests were all looked at once more.
Grown(q) == [i \in DOMAIN queues[q] |-> increment_sched_factor(queues[q][i])]

\* The quantum of req is large enough.
Fits(req, quantum) == Int32(req.sched_factor * quantum) >= req.len

\* The queue of file f a request is selected from: reads first.  place[q] is the
\* position in queue q of the request that may be selected, 0 if there is none.
QueueOf(f, place) ==
  IF place[<<f, RT_READ>>] # 0 THEN <<f, RT_READ>>
  ELSE IF place[<<f, RT_WRITE>>] # 0 THEN <<f, RT_WRITE>>
  ELSE NoQueue

\* The writes are looked at only if no read was selected.
LookedAt(q, place) == q[2] = RT_READ \/ place[<<q[1], RT_READ>>] = 0

-----------------------------------------------------------------------------
(* Properties.                                                             *)

\* "set to 0 to avoid starvation": between two requests of one queue the file is
\* made to wait at most once for a predicted request and at most once for a larger
\* aggregation, whatever arrives meanwhile.
OneWaitForEachReason == \A q \in Queues : globalinfo[q].shifts <= 1 /\ globalinfo[q].betters <= 1
=============================================================================
