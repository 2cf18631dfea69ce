------------------------------- MODULE aIOLi -------------------------------
(***************************************************************************)
(* The aIOLi scheduler: scan the hashtable line by line for the queue      *)
(* whose first request may be selected and is the oldest, look at that     *)
(* queue again, then take requests from its head for as long as the        *)
(* quantum of the queue lasts.  The mutex of the line is given up between  *)
(* the three.                                                              *)
(***************************************************************************)
EXTENDS WaitingCommon

CONSTANTS config_aioli_quantum, INT_MAX

ASSUME aIOLiAssumption == config_aioli_quantum \in Nat \ {0} /\ INT_MAX \in Nat

\* The locals of aIOLi_select_queue before the first line.  known: the test of
\* sleeping_time is known to fail, since an earlier scan of the same call of aIOLi
\* set it to 0 or went through that test; before, it is not initialised.
FirstScan(known) == [line |-> 0, selected |-> NoQueue, timestamp |-> INT_MAX,
                     waiting_options |-> FALSE, known |-> known]

aIOLi_test ==
  /\ apc = "schedule"
  /\ IF current_reqnb > 0
     THEN Go("scan") /\ locals' = FirstScan(locals # <<>> /\ locals.known)
     ELSE Go("test") /\ locals' = <<>>
  /\ UNCHANGED <<users, structures, info, stop, history, waitVars>>

\* aIOLi_select_from_list: only the first request of a queue may be selected.
aIOLiPlace == [q \in Queues |->
  IF queues[q] # <<>> /\ Fits(Head(Grown(q)), config_aioli_quantum) THEN 1 ELSE 0]

\* One line, under its mutex; first come first served between the files.
aIOLi_scan ==
  LET place   == aIOLiPlace
      here    == {f \in files : LineOf[f] = locals.line}
      free    == {f \in here : Visited(f).time = 0}
      Time(f) == Head(queues[QueueOf(f, place)]).timestamp
      able    == {f \in free : QueueOf(f, place) # NoQueue /\ Time(f) < locals.timestamp}
      best    == CHOOSE f \in able : \A g \in able \ {f} :
                   Time(f) < Time(g) \/ (Time(f) = Time(g) /\ f < g)
      seen    == [locals EXCEPT !.waiting_options = @ \/ free # here,
                                !.selected  = IF able = {} THEN @ ELSE QueueOf(best, place),
                                !.timestamp = IF able = {} THEN @ ELSE Time(best)]
  IN /\ apc = "scan"
     /\ waiting' = [f \in Files |-> IF f \in here THEN Visited(f) ELSE waiting[f]]
     /\ queues' = [q \in Queues |->
          IF FileOf(q) \in free /\ LookedAt(q, place) THEN Grown(q) ELSE queues[q]]
     /\ IF locals.line = NLines - 1 THEN Go("pick") /\ locals' = seen
        ELSE Go("scan") /\ locals' = [seen EXCEPT !.line = @ + 1]
     /\ UNCHANGED <<users, timeline, multi_timeline, dispatch, files, counters, info, stop,
                    history, globalinfo>>

\* The queue was selected: does its file have to wait?
aIOLi_check ==
  LET q      == locals.selected
      answer == check_selection(Head(queues[q]), waiting[FileOf(q)], globalinfo[q])
  IN /\ apc = "pick"
     /\ q # NoQueue /\ queues[q] # <<>>
     /\ waiting' = [waiting EXCEPT ![FileOf(q)] = answer.wait]
     /\ globalinfo' = [globalinfo EXCEPT ![q] = answer.info]
     /\ IF answer.proceeds THEN Go("drain") /\ UNCHANGED locals
        ELSE Go("schedule") /\ locals' = FirstScan(TRUE)
     /\ UNCHANGED <<users, structures, info, stop, history>>

\* No queue was selected.  If files wait, sleep; if none does, the test reads
\* sleeping_time as it is.
aIOLi_none ==
  /\ apc = "pick"
  /\ locals.selected = NoQueue
  /\ \/ /\ locals.waiting_options \/ ~ locals.known
        /\ Go("sleep") /\ locals' = <<>>
     \/ /\ ~ locals.waiting_options
        /\ Go("schedule") /\ locals' = FirstScan(TRUE)
  /\ UNCHANGED <<users, structures, info, stop, history, waitVars>>

\* How many bytes the first n requests of the list have.
Used(list, n) == SumFunctionOnSet([k \in DOMAIN list |-> list[k].len], 1 .. n)

\* How many requests one visit takes: the first one in any case, and those that
\* fit in what is left of the quantum.
Taken(list, quantum) ==
  Min({n \in DOMAIN list : n < Len(list) => \/ Used(list, n) >= quantum
                                           \/ list[n + 1].len > quantum - Used(list, n)})

\* The bound is MAX_AGGREG_SIZE, a number of requests.  The percentage is taken of
\* any number: that used * 100 has 32 bits is left out.
adjust_quantum(used, quantum) ==
  LET rate     == (used * 100) \div quantum
      required == CASE rate >= 175 -> 2 * quantum
                    [] rate \in 125 .. 174 -> (15 * quantum) \div 10
                    [] rate \in 75 .. 124 -> quantum
                    [] OTHER -> quantum \div 2
  IN IF required = 0 THEN config_aioli_quantum
     ELSE IF required > MaxAggreg THEN MaxAggreg ELSE required

\* One visit of the selected queue, under the mutex of its line.
aIOLi_drain ==
  LET q       == locals.selected
      quantum == globalinfo[q].nextquantum
      taken   == Taken(queues[q], quantum)
      batch   == SubSeq(queues[q], 1, taken)
      next    == IF quantum = 0 THEN config_aioli_quantum
                 ELSE adjust_quantum(Used(queues[q], taken), quantum)
      after[n \in 0 .. taken] ==
        IF n = 0 THEN globalinfo[q] ELSE waiting_algorithms_postprocess(batch[n], after[n - 1])
  IN /\ apc = "drain"
     /\ queues[q] # <<>>
     /\ queues' = [queues EXCEPT ![q] = SubSeq(@, taken + 1, Len(@))]
     /\ Step1(batch) /\ Go("callback")
     /\ globalinfo' = [globalinfo EXCEPT ![q] = [after[taken] EXCEPT !.nextquantum = next]]
     /\ UNCHANGED <<users, timeline, multi_timeline, files, stop, locals, history, waiting>>

\* The selected queue was emptied meanwhile: the head of the list is taken for a
\* request, which is undefined.
aIOLi_undefined ==
  /\ apc \in {"pick", "drain"}
  /\ locals.selected # NoQueue /\ queues[locals.selected] = <<>>
  /\ Abort
  /\ UNCHANGED <<users, stop, history, locals, waitVars>>

aIOLi ==
  /\ current_alg = "aIOLi"
  /\ \/ aIOLi_test \/ aIOLi_scan \/ aIOLi_check \/ aIOLi_none
     \/ aIOLi_drain \/ aIOLi_undefined
=============================================================================
