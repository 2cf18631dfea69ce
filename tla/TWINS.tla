------------------------------- MODULE TWINS -------------------------------
(***************************************************************************)
(* The TWINS scheduler: time windows, in round robin, in each of which     *)
(* only the requests of one data server are given back.                    *)
(***************************************************************************)
EXTENDS AgiosCore

VARIABLES g_twins_first_req, g_current_twins_server

twinsVars == <<g_twins_first_req, g_current_twins_server>>

TWINS_init == g_twins_first_req = TRUE /\ g_current_twins_server = 0

\* The waiting time schedule() returns may be positive or not, by the clock.
ReturnWaitingTime == Go("sleep") \/ Go("test")

TWINS_test ==
  /\ apc = "schedule"
  /\ IF current_reqnb > 0 THEN Go("pick") ELSE ReturnWaitingTime
  /\ UNCHANGED <<users, structures, info, stop, locals, history, twinsVars>>

\* multi_timeline has one queue more than there are queue ids.
NextServer(server) == (server + 1) % (max_queue_id + 1)

\* The server of the window, once it is known whether the one before has elapsed.
Window(elapsed) ==
  IF g_twins_first_req THEN 0
  ELSE IF elapsed THEN NextServer(g_current_twins_server)
  ELSE g_current_twins_server

TWINS_pick(elapsed) ==
  LET queue == multi_timeline[Window(elapsed)] IN
  /\ apc = "pick"
  /\ queue # <<>>
  /\ multi_timeline' = [multi_timeline EXCEPT ![Window(elapsed)] = Tail(@)]
  /\ Process(Head(queue))
  /\ g_twins_first_req' = FALSE
  /\ g_current_twins_server' = Window(elapsed)
  /\ UNCHANGED <<users, timeline, queues, files, stop, locals, history>>

\* Nothing for this server: sleep until the end of the window or a new request.
TWINS_break(elapsed) ==
  /\ apc = "pick"
  /\ multi_timeline[Window(elapsed)] = <<>>
  /\ ReturnWaitingTime
  /\ g_twins_first_req' = FALSE
  /\ g_current_twins_server' = Window(elapsed)
  /\ UNCHANGED <<users, structures, info, stop, locals, history>>

TWINS_look(elapsed) ==
  /\ current_alg = "TWINS"
  /\ TWINS_pick(elapsed) \/ TWINS_break(elapsed)

TWINS ==
  \/ current_alg = "TWINS" /\ TWINS_test
  \/ \E elapsed \in BOOLEAN : TWINS_look(elapsed)
=============================================================================
