---------------------------- MODULE RequestLife ----------------------------
(***************************************************************************)
(* The life of a request as the users of the library see it: it is given   *)
(* back through a callback once, after it was added and unless it was      *)
(* cancelled while it waited, and it is released once, after its callback. *)
(***************************************************************************)
CONSTANT Reqs

VARIABLE status   \* status[r]

Stages == {"new", "queued", "selected", "delivered", "released", "cancelled"}

TypeOK == status \in [Reqs -> Stages]

Init == status = [r \in Reqs |-> "new"]

Move(r, from, to) == status[r] = from /\ status' = [status EXCEPT ![r] = to]

Add(r)     == Move(r, "new", "queued")
Bypass(r)  == Move(r, "new", "selected")        \* NOOP does not queue
Cancel(r)  == Move(r, "queued", "cancelled")
Release(r) == Move(r, "delivered", "released")

\* A scheduling decision and a callback concern a batch of requests.
MoveAll(batch, from, to) ==
  /\ \A r \in batch : status[r] = from
  /\ status' = [r \in Reqs |-> IF r \in batch THEN to ELSE status[r]]
Select  == \E batch \in SUBSET Reqs : MoveAll(batch, "queued", "selected")
Deliver == \E batch \in SUBSET Reqs : MoveAll(batch, "selected", "delivered")

Next == \/ \E r \in Reqs : Add(r) \/ Bypass(r) \/ Cancel(r) \/ Release(r)
        \/ Select \/ Deliver

Spec == Init /\ [][Next]_status
=============================================================================
