-------------------------------- MODULE SJF --------------------------------
(***************************************************************************)
(* The SJF scheduler: scan the hashtable line by line for the queue with   *)
(* the smallest current_size, one mutex at a time, then take the first     *)
(* request of that queue.                                                  *)
(***************************************************************************)
EXTENDS AgiosCore

\* The locals of SJF_get_shortest_job, before it looks at the first line.
FirstLine == [line |-> 0, chosen |-> NoQueue, min |-> 0, evaluated |-> 0]

SJF_test ==
  /\ apc = "schedule"
  /\ Go(IF current_reqnb > 0 THEN "scan" ELSE "test")
  /\ locals' = IF current_reqnb > 0 THEN FirstLine ELSE <<>>
  /\ UNCHANGED <<users, structures, info, stop, history>>

SJF_check_queue(q) ==
  /\ current_size[q] > 0
  /\ locals.chosen # NoQueue => current_size[q] < locals.min

\* A line is read in the order of the file ids, reads before writes.
ReadBefore(p, q) == p[1] < q[1] \/ (p[1] = q[1] /\ p[2] < q[2])

\* The files of the line that have requests.
Evaluated(line) == {f \in files : /\ LineOf[f] = line
                                  /\ \E t \in Types : queues[<<f, t>>] # <<>>}
Sane(f) == \E t \in Types : current_size[<<f, t>>] > 0

\* One line, under its mutex: the first of the smallest queues, if one is
\* smaller than what the lines before had.
SJF_scan ==
  LET here == Evaluated(locals.line)
      candidates == {q \in here \X Types : SJF_check_queue(q)}
      best == CHOOSE q \in candidates : \A p \in candidates \ {q} :
                \/ current_size[q] < current_size[p]
                \/ current_size[q] = current_size[p] /\ ReadBefore(q, p)
      seen == locals.evaluated + Cardinality(here)
  IN /\ apc = "scan"
     /\ \A f \in here : Sane(f)
     /\ locals' = IF candidates = {} THEN [locals EXCEPT !.evaluated = seen]
                ELSE [locals EXCEPT !.evaluated = seen, !.chosen = best,
                                  !.min = current_size[best]]
     /\ Go("shortcut")
     /\ UNCHANGED <<users, structures, info, stop, history>>

\* Mutant: the scan stops one file too early.
SJF_shortcut_Early ==
  /\ apc = "shortcut"
  /\ IF locals.evaluated + 1 >= current_filenb \/ locals.line = NLines - 1
     THEN /\ Go(IF locals.chosen = NoQueue THEN "schedule" ELSE "pick")
          /\ UNCHANGED locals
     ELSE /\ Go("scan")
          /\ locals' = [locals EXCEPT !.line = @ + 1]
  /\ UNCHANGED <<users, structures, info, stop, history>>

\* The shortcut reads current_filenb without its mutex.
SJF_shortcut ==
  /\ apc = "shortcut"
  /\ IF locals.evaluated >= current_filenb \/ locals.line = NLines - 1
     THEN /\ Go(IF locals.chosen = NoQueue THEN "schedule" ELSE "pick")
          /\ UNCHANGED locals
     ELSE /\ Go("scan")
          /\ locals' = [locals EXCEPT !.line = @ + 1]
  /\ UNCHANGED <<users, structures, info, stop, history>>

SJF_pick ==
  LET queue == queues[locals.chosen] IN
  /\ apc = "pick"
  /\ queue # <<>>
  /\ queues' = [queues EXCEPT ![locals.chosen] = Tail(queue)]
  /\ Process(Head(queue))
  /\ locals' = <<>>
  /\ UNCHANGED <<users, timeline, multi_timeline, files, stop, history>>

\* The two sanity checks: sizes against contents, and a chosen queue not empty.
SJF_assert ==
  /\ \/ apc = "scan" /\ \E f \in Evaluated(locals.line) : ~ Sane(f)
     \/ apc = "pick" /\ queues[locals.chosen] = <<>>
  /\ Abort
  /\ UNCHANGED <<users, stop, history, locals>>

SJF ==
  /\ current_alg = "SJF"
  /\ SJF_test \/ SJF_scan \/ SJF_shortcut \/ SJF_pick \/ SJF_assert
=============================================================================
