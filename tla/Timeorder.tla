----------------------------- MODULE Timeorder -----------------------------
(* The timeorder scheduler, used by the algorithms TO, TO-agg and SW.      *)
EXTENDS AgiosCore

\* Mutant: the loop runs while current_reqnb >= 0.
timeorder_test_OneMore ==
  /\ apc = "schedule"
  /\ Go(IF current_reqnb >= 0 THEN "pick" ELSE "test")
  /\ UNCHANGED <<users, structures, info, stop, locals, history>>

\* The loop test, on an unlocked read of current_reqnb.
timeorder_test ==
  /\ apc = "schedule"
  /\ Go(IF current_reqnb > 0 THEN "pick" ELSE "test")
  /\ UNCHANGED <<users, structures, info, stop, locals, history>>

timeorder_pick ==
  /\ apc = "pick"
  /\ timeline # <<>>
  /\ timeline' = Tail(timeline)
  /\ Process(Head(timeline))
  /\ UNCHANGED <<users, multi_timeline, queues, files, stop, locals, history>>

\* assert(req) on an empty timeline
timeorder_assert ==
  /\ apc = "pick"
  /\ timeline = <<>>
  /\ Abort
  /\ UNCHANGED <<users, stop, locals, history>>

timeorder ==
  /\ current_alg \in {"TO", "TO-agg", "SW"}
  /\ timeorder_test \/ timeorder_pick \/ timeorder_assert
=============================================================================
