-------------------------------- MODULE NOOP --------------------------------
(* The NOOP scheduler: agios_add_request gives the request back by itself. *)
EXTENDS AgiosCore

\* Without a change of algorithm no request is ever left in the timeline.
NOOP_empty ==
  /\ current_alg = "NOOP"
  /\ apc = "schedule"
  /\ timeline = <<>>
  /\ Go("test")
  /\ UNCHANGED <<users, structures, info, stop, locals, history>>
=============================================================================
