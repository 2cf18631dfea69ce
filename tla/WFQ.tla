-------------------------------- MODULE WFQ --------------------------------
(***************************************************************************)
(* The WFQ scheduler: round robin over the queues of multi_timeline.  At   *)
(* its turn a queue may send as many bytes as its weight and the credit it *)
(* saved in the turns before.                                              *)
(***************************************************************************)
EXTENDS AgiosCore

CONSTANT weight    \* wfq_weights[i].weight, from the weights file

ASSUME WeightAssumption == weight \in [QueueIds -> Nat \ {0}]

VARIABLES credit,           \* wfq_weights[i].credit
          g_current_queue,
          due               \* history: all the weight a queue was given so far

wfqVars == <<credit, g_current_queue, due>>

WFQ_init ==
  /\ credit = [i \in QueueIds |-> 0]
  /\ g_current_queue = 0
  /\ due = [i \in QueueIds |-> 0]

\* The outer loop, on an unlocked read of current_reqnb: a turn starts.
WFQ_test ==
  /\ apc = "schedule"
  /\ IF current_reqnb > 0
     THEN /\ locals' = [amount |-> weight[g_current_queue] + credit[g_current_queue]]
          /\ due' = [due EXCEPT ![g_current_queue] = @ + weight[g_current_queue]]
          /\ Go("pick")
     ELSE /\ locals' = <<>> /\ Go("test")
          /\ UNCHANGED due
  /\ UNCHANGED <<users, structures, info, stop, history, credit, g_current_queue>>

MayGo == /\ multi_timeline[g_current_queue] # <<>>
         /\ locals.amount >= Head(multi_timeline[g_current_queue]).len

\* Mutant: the length is not taken from the amount.
WFQ_pick_ForFree ==
  /\ apc = "pick" /\ MayGo
  /\ multi_timeline' = [multi_timeline EXCEPT ![g_current_queue] = Tail(@)]
  /\ Process(Head(multi_timeline[g_current_queue]))
  /\ UNCHANGED <<users, timeline, queues, files, stop, locals, history, wfqVars>>

\* Mutant: the request is given back and stays in its queue.
WFQ_pick_KeepsIt ==
  /\ apc = "pick" /\ MayGo
  /\ Process(Head(multi_timeline[g_current_queue]))
  /\ locals' = [amount |-> locals.amount - Head(multi_timeline[g_current_queue]).len]
  /\ UNCHANGED <<users, lists, files, stop, history, wfqVars>>

WFQ_pick ==
  /\ apc = "pick" /\ MayGo
  /\ multi_timeline' = [multi_timeline EXCEPT ![g_current_queue] = Tail(@)]
  /\ Process(Head(multi_timeline[g_current_queue]))
  /\ locals' = [amount |-> locals.amount - Head(multi_timeline[g_current_queue]).len]
  /\ UNCHANGED <<users, timeline, queues, files, stop, history, wfqVars>>

\* Mutant: a queue keeps its credit when it is empty.
WFQ_turn_Saves ==
  /\ apc = "pick" /\ ~ MayGo
  /\ credit' = [credit EXCEPT ![g_current_queue] = locals.amount]
  /\ g_current_queue' = (g_current_queue + 1) % max_queue_id
  /\ locals' = <<>>
  /\ Go("schedule")
  /\ UNCHANGED <<users, structures, info, stop, history, due>>

\* The turn ends; an empty queue saves nothing.
WFQ_turn ==
  /\ apc = "pick" /\ ~ MayGo
  /\ credit' = [credit EXCEPT ![g_current_queue] =
                  IF multi_timeline[g_current_queue] # <<>> THEN locals.amount ELSE 0]
  /\ g_current_queue' = (g_current_queue + 1) % max_queue_id
  /\ locals' = <<>>
  /\ Go("schedule")
  /\ UNCHANGED <<users, structures, info, stop, history, due>>

WFQ ==
  /\ current_alg = "WFQ"
  /\ WFQ_test \/ WFQ_pick \/ WFQ_turn

-----------------------------------------------------------------------------
(* Properties.                                                             *)

\* The bytes of queue i that went to the users.
Served(i) ==
  Bytes({r \in Reqs : data[r].queue_id = i /\ (Selected(r) \/ r \in Delivered)})

\* No queue is served more than the weight its turns gave it, whatever was added
\* during its turn and however long it waited before.
NoMoreThanShare ==
  current_alg = "WFQ" => \A i \in QueueIds : Served(i) <= due[i]

\* Outside its turn a queue has credit only for the request at its head, and less
\* than that request needs: no queue comes back from being idle with a burst.
CreditForHead ==
  \A i \in QueueIds :
    credit[i] > 0 /\ (i = g_current_queue => locals = <<>>)
      => /\ multi_timeline[i] # <<>>
         /\ credit[i] < Head(multi_timeline[i]).len
=============================================================================
