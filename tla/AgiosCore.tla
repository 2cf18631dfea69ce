----------------------------- MODULE AgiosCore -----------------------------
(***************************************************************************)
(* What every scheduler shares: the users' calls from agios_add_request to *)
(* agios_release_request, the request structures with their counters, the  *)
(* two steps of processing a request and the loop of the AGIOS thread.     *)
(* NOOP, Timeorder, SJF, WFQ, TWINS, MLF and aIOLi add the schedule()      *)
(* function of each algorithm, and Agios puts them together.               *)
(*                                                                         *)
(* The section of a call between its lock and its unlock is one step here: *)
(* StructureLocks shows that it runs alone on the structure it uses.  What *)
(* the code does outside a section (the unlocked reads of current_reqnb    *)
(* and current_filenb, the callbacks, the loop tests) is a step of its own.*)
(***************************************************************************)
EXTENDS RequestQueues, FiniteSetsExt

CONSTANTS Reqs,          \* the requests users add; a request stands for its user thread
          Cancellers,    \* those whose user may call agios_cancel_request
          Files,         \* file handles, as numbers in their order
          NLines,        \* AGIOS_HASH_ENTRIES
          LineOf,        \* get_hashtable_position
          max_queue_id,  \* the argument of agios_init
          Arguments,     \* the queue, offset, len and queue_id a user may ask for
          Algs,          \* the algorithms the configuration file may name
          MaxAggreg,     \* MAX_AGGREG_SIZE, of the schedulers that aggregate
          ListCallback,  \* whether the user gave process_requests_cb
          MayExit        \* whether the user calls agios_exit

RT_READ  == 0
RT_WRITE == 1
Types    == {RT_READ, RT_WRITE}
Lines    == 0 .. NLines - 1
Queues   == Files \X Types
QueueIds == 0 .. max_queue_id - 1   \* those a user may pass

ASSUME RequestsAssumption == NoId \notin Reqs /\ Cancellers \subseteq Reqs
ASSUME FilesAssumption    == Files \subseteq Nat /\ LineOf \in [Files -> Lines]
ASSUME LinesAssumption    == NLines \in Nat \ {0}
ASSUME ArgumentsAssumption ==
  Arguments \subseteq [queue : Queues, offset : Nat, len : Nat, queue_id : QueueIds]
ASSUME AlgAssumption ==
  /\ Algs \subseteq {"NOOP", "TO", "TO-agg", "SW", "SJF", "WFQ", "TWINS", "MLF", "aIOLi"}
  /\ max_queue_id \in Nat \ {0}
  /\ MaxAggreg \in Nat \ {0}

VARIABLES
  \* what the users and the configuration file ask for
  data,         \* data[r]: the arguments of r's calls
  current_alg,
  \* the users
  pc,         \* where r's agios_add_request is
  g_last_timestamp,  \* the highest value it had
  stamp,      \* stamp[r]: the timestamp of r while its agios_add_request goes on
  earlier,    \* earlier[r]: requests whose add had returned when r's was called
  cancel,     \* cancel[r]: what agios_cancel_request told r's user
  \* the structures
  timeline, multi_timeline, queues, dispatch,
  files,               \* files with a file_t in the hashtable
  timeline_reqnb,      \* per file
  current_size,        \* per queue
  hashlist_reqcounter, \* per line
  current_reqnb, current_filenb,
  \* the AGIOS thread
  apc,   \* where it is
  info,  \* info_list: for each processing_info_t the ids process_requests_step2
         \* has to give back
  stop,  \* g_agios_thread_stop
  locals, \* local variables of the schedule() function that runs
  \* what the users saw
  calls,     \* the callbacks made so far, each with the ids it was given
  released,  \* requests whose agios_release_request returned true
  refused,   \* requests whose agios_release_request returned false
  removed    \* requests taken out by a cancellation

input      == <<data, current_alg>>
users      == <<input, pc, g_last_timestamp, stamp, earlier, cancel>>
counters   == <<timeline_reqnb, current_size, hashlist_reqcounter,
                current_reqnb, current_filenb>>
lists      == <<timeline, multi_timeline, queues>>
structures == <<lists, dispatch, files, counters>>
thread     == <<apc, info, stop, locals>>
history    == <<calls, released, refused, removed>>
coreVars   == <<users, structures, thread, history>>

needs_hashtable == current_alg \in {"SJF", "MLF", "aIOLi"}
uses_multi_timeline == current_alg \in {"TWINS", "WFQ"}
max_aggreg_size == IF needs_hashtable \/ current_alg = "TO-agg" THEN MaxAggreg ELSE 1

\* Requests that were given to a callback.
Delivered == UNION {ToSet(calls[i]) : i \in DOMAIN calls}

AgiosStates == {"top", "sleep", "schedule", "scan", "shortcut", "pick", "drain",
                "callback", "test", "ended", "abort"}

Init ==
  /\ data \in [Reqs -> Arguments]
  /\ current_alg \in Algs
  /\ pc = [r \in Reqs |-> "new"]
  /\ g_last_timestamp = 0 /\ stamp = [r \in Reqs |-> 0]
  /\ earlier = [r \in Reqs |-> {}]
  /\ cancel = [r \in Reqs |-> "uncalled"]
  /\ timeline = <<>>
  /\ multi_timeline = [i \in 0 .. max_queue_id |-> <<>>]
  /\ queues = [q \in Queues |-> <<>>]
  /\ dispatch = [q \in Queues |-> <<>>]
  /\ files = {}
  /\ timeline_reqnb = [f \in Files |-> 0]
  /\ current_size = [q \in Queues |-> 0]
  /\ hashlist_reqcounter = [l \in Lines |-> 0]
  /\ current_reqnb = 0 /\ current_filenb = 0
  /\ apc = "top" /\ info = <<>> /\ stop = FALSE /\ locals = <<>>
  /\ calls = <<>> /\ released = {} /\ refused = {} /\ removed = {}

FileOf(q)   == q[1]
LineOfQ(q)  == LineOf[FileOf(q)]
Request(r)  ==
  request_constructor(r, data[r].queue, data[r].offset, data[r].len, stamp[r])

\* A failed assert() ends the process: no thread takes another step.
Alive == apc # "abort"

-----------------------------------------------------------------------------
(* agios_add_request.                                                      *)

Adding == {r \in Reqs : pc[r] = "adding"}

\* The requests the algorithm serves in the order of their adds, with r.
InOrderWith(r) ==
  {s \in Reqs : \/ current_alg = "TO"
                \/ uses_multi_timeline /\ data[s].queue_id = data[r].queue_id}

\* Every request that is constructed, a virtual one too, increments g_last_timestamp
\* without a mutex.  Here it is the highest value it had: a thread may have read any
\* lower one, at any time before, and write its successor.  Only aIOLi reads the
\* timestamps; for the other algorithms they are left out.
Incremented == IF current_alg = "aIOLi" THEN {g_last_timestamp, g_last_timestamp + 1}
               ELSE {g_last_timestamp}

\* What a call may then find in it: whatever was written last.
Timestamps(highest) == IF current_alg = "aIOLi" THEN 1 .. highest ELSE {0}

\* The call is made and the request constructed; but for g_last_timestamp nothing
\* shared changes until it holds its mutex.
CallAdd(r) ==
  /\ Alive /\ ~ stop /\ pc[r] = "new"
  /\ \E n \in Incremented : \E t \in Timestamps(n) :
       g_last_timestamp' = n /\ stamp' = [stamp EXCEPT ![r] = t]
  /\ pc' = [pc EXCEPT ![r] = "adding"]
  /\ earlier' = [earlier EXCEPT ![r] = {s \in InOrderWith(r) : pc[s] = "added"}]
  /\ UNCHANGED <<input, cancel, structures, thread, history>>

\* Mutant: current_filenb goes up only for a file never seen before.
CountNew_FirstTime(q, len) ==
  LET f == FileOf(q) IN
  /\ files' = files \cup {f}
  /\ current_filenb' = current_filenb + IF f \in files THEN 0 ELSE 1
  /\ timeline_reqnb' = [timeline_reqnb EXCEPT ![f] = @ + 1]
  /\ current_size' = [current_size EXCEPT ![q] = @ + len]
  /\ hashlist_reqcounter' = [hashlist_reqcounter EXCEPT ![LineOf[f]] = @ + 1]
  /\ current_reqnb' = current_reqnb + 1

\* find_req_file and the counters a new request moves.
CountNew(q, len) ==
  LET f == FileOf(q) IN
  /\ files' = files \cup {f}
  /\ current_filenb' = current_filenb + IF timeline_reqnb[f] = 0 THEN 1 ELSE 0
  /\ timeline_reqnb' = [timeline_reqnb EXCEPT ![f] = @ + 1]
  /\ current_size' = [current_size EXCEPT ![q] = @ + len]
  /\ hashlist_reqcounter' = [hashlist_reqcounter EXCEPT ![LineOf[f]] = @ + 1]
  /\ current_reqnb' = current_reqnb + 1

\* Where the request goes.  For SW the code compares with the sw_priority of the
\* waiting requests, which no code assigns: it may stop at any of them.
Insert(r) ==
  \/ /\ needs_hashtable
     /\ queues' = [queues EXCEPT ![data[r].queue] =
                     hashtable_add_req(Request(r), @, max_aggreg_size)]
     /\ UNCHANGED <<timeline, multi_timeline>>
  \/ /\ uses_multi_timeline
     /\ multi_timeline' = [multi_timeline EXCEPT ![data[r].queue_id] = Append(@, Request(r))]
     /\ UNCHANGED <<timeline, queues>>
  \/ /\ current_alg \in {"TO", "TO-agg"}
     /\ timeline' = timeline_add_req(Request(r), timeline, current_alg = "TO-agg", max_aggreg_size)
     /\ UNCHANGED <<multi_timeline, queues>>
  \/ /\ current_alg = "SW"
     /\ \E i \in 1 .. Len(timeline) + 1 : timeline' = InsertAt(timeline, i, Request(r))
     /\ UNCHANGED <<multi_timeline, queues>>

Add(r) ==
  /\ Alive
  /\ pc[r] = "adding"
  /\ Insert(r)
  /\ CountNew(data[r].queue, data[r].len)
  /\ pc' = [pc EXCEPT ![r] = "added"]
  /\ stamp' = [stamp EXCEPT ![r] = 0]
  /\ g_last_timestamp' \in
       IF needs_hashtable /\ MakesVirtual(Request(r), queues[data[r].queue], max_aggreg_size)
       THEN Incremented ELSE {g_last_timestamp}
  /\ UNCHANGED <<input, earlier, cancel, dispatch, thread, history>>

\* A dispatched request is only looked up by its extent.
Dispatched(req) == [req EXCEPT !.timestamp = 0, !.sched_factor = 0]

\* Mutant: every request is put in the dispatch queue of the reads.
AddNoop_ReadDispatch(r) ==
  /\ Alive /\ current_alg = "NOOP"
  /\ pc[r] = "adding"
  /\ files' = files \cup {FileOf(data[r].queue)}
  /\ dispatch' = [dispatch EXCEPT ![<<FileOf(data[r].queue), RT_READ>>] =
                     Append(@, Dispatched(Request(r)))]
  /\ pc' = [pc EXCEPT ![r] = "callback"]
  /\ stamp' = [stamp EXCEPT ![r] = 0]
  /\ UNCHANGED <<input, g_last_timestamp, earlier, cancel, lists, counters, thread, history>>

\* NOOP takes the request through step 1 before it unlocks: the counters go up
\* and down again, the request goes straight to the dispatch queue ...
AddNoop(r) ==
  /\ Alive /\ current_alg = "NOOP"
  /\ pc[r] = "adding"
  /\ files' = files \cup {FileOf(data[r].queue)}
  /\ dispatch' = [dispatch EXCEPT ![data[r].queue] = Append(@, Dispatched(Request(r)))]
  /\ pc' = [pc EXCEPT ![r] = "callback"]
  /\ stamp' = [stamp EXCEPT ![r] = 0]
  /\ UNCHANGED <<input, g_last_timestamp, earlier, cancel, lists, counters, thread, history>>

\* ... and step 2 calls back from the thread that adds.
NoopCallback(r) ==
  /\ Alive /\ pc[r] = "callback"
  /\ calls' = Append(calls, <<r>>)
  /\ pc' = [pc EXCEPT ![r] = "added"]
  /\ UNCHANGED <<input, g_last_timestamp, stamp, earlier, cancel, structures, thread,
                 released, refused, removed>>

-----------------------------------------------------------------------------
(* agios_release_request and agios_cancel_request.                         *)

agios_release_request(r) ==
  LET q == data[r].queue
      i == SelectInSeq(dispatch[q], LAMBDA d : Same(d, data[r].offset, data[r].len))
      found == FileOf(q) \in files /\ i # 0
  IN /\ Alive /\ ~ stop
     /\ r \in Delivered \ (released \cup refused)
     /\ IF found THEN /\ dispatch' = [dispatch EXCEPT ![q] = RemoveAt(@, i)]
                      /\ released' = released \cup {r}
                      /\ UNCHANGED refused
                 ELSE /\ refused' = refused \cup {r}
                      /\ UNCHANGED <<dispatch, released>>
     /\ UNCHANGED <<users, lists, files, counters, thread, calls, removed>>

\* Mutant: the counter of the hashtable line is forgotten.
CountCancelled_NoLine(req, line) ==
  LET f == FileOf(req.queue) IN
  /\ current_size' = [current_size EXCEPT ![req.queue] = @ - req.len]
  /\ timeline_reqnb' = [timeline_reqnb EXCEPT ![f] = @ - 1]
  /\ current_filenb' = current_filenb - IF timeline_reqnb'[f] = 0 THEN 1 ELSE 0
  /\ current_reqnb' = current_reqnb - 1
  /\ UNCHANGED hashlist_reqcounter

\* The counters a cancelled request moves: its own queue's and file's, but the
\* line is the one of the file named in the call.
CountCancelled(req, line) ==
  LET f == FileOf(req.queue) IN
  /\ current_size' = [current_size EXCEPT ![req.queue] = @ - req.len]
  /\ timeline_reqnb' = [timeline_reqnb EXCEPT ![f] = @ - 1]
  /\ current_filenb' = current_filenb - IF timeline_reqnb'[f] = 0 THEN 1 ELSE 0
  /\ current_reqnb' = current_reqnb - 1
  /\ hashlist_reqcounter' = [hashlist_reqcounter EXCEPT ![line] = @ - 1]

MayCancel(r) == /\ Alive /\ ~ stop
                /\ r \in Cancellers /\ pc[r] = "added" /\ cancel[r] = "uncalled"

\* The list the call searches (never multi_timeline), and where it finds what it
\* looks for.
SearchedList(r) == IF needs_hashtable THEN queues[data[r].queue] ELSE timeline
Found(r) == FindEntry(SearchedList(r), data[r].offset, data[r].len)

CancelRemoves(r) ==
  LET list == SearchedList(r)
      left == CancelEntry(list, Found(r), data[r].offset, data[r].len)
      gone == Cancelled(list, Found(r), data[r].offset, data[r].len)
  IN /\ MayCancel(r)
     /\ FileOf(data[r].queue) \in files
     /\ Found(r) # 0
     /\ IF needs_hashtable
        THEN queues' = [queues EXCEPT ![data[r].queue] = left] /\ UNCHANGED timeline
        ELSE timeline' = left /\ UNCHANGED queues
     /\ CountCancelled(gone, LineOfQ(data[r].queue))
     /\ removed' = removed \cup {gone.id}
     /\ cancel' = [cancel EXCEPT ![r] = "true"]
     /\ UNCHANGED <<input, pc, g_last_timestamp, stamp, earlier, multi_timeline, dispatch,
                    files, thread, calls, released, refused>>

\* Nothing to cancel: the call still answers true, unless the file is unknown.
CancelFindsNothing(r) ==
  /\ MayCancel(r)
  /\ FileOf(data[r].queue) \in files => Found(r) = 0
  /\ cancel' = [cancel EXCEPT ![r] =
                 IF FileOf(data[r].queue) \in files THEN "true" ELSE "false"]
  /\ UNCHANGED <<input, pc, g_last_timestamp, stamp, earlier, structures, thread, history>>

agios_cancel_request(r) == CancelRemoves(r) \/ CancelFindsNothing(r)

agios_exit ==
  /\ Alive /\ MayExit /\ ~ stop
  /\ \A r \in Reqs : pc[r] \in {"new", "added"}
  /\ stop' = TRUE
  /\ UNCHANGED <<users, structures, apc, info, locals, history>>

-----------------------------------------------------------------------------
(* The AGIOS thread.                                                       *)

Go(state) == apc' = state

\* get_current_reqnb.  A NOOP add in progress shows the counter at 1 for a while.
CheckQueued ==
  /\ apc = "top"
  /\ \/ current_reqnb > 0 /\ Go("schedule")
     \/ current_reqnb = 0 /\ Go("sleep")
     \/ current_alg = "NOOP" /\ (\E r \in Reqs : pc[r] = "adding") /\ Go("schedule")
  /\ UNCHANGED <<users, structures, info, stop, locals, history>>

\* The timeout is given as an absolute time, so the wait may end at any moment.
WakeUp ==
  /\ apc = "sleep"
  /\ Go("test")
  /\ UNCHANGED <<users, structures, info, stop, locals, history>>

\* Mutant: the stop flag is never looked at.
TestStop_Never ==
  /\ apc = "test"
  /\ Go("top")
  /\ UNCHANGED <<users, structures, info, stop, locals, history>>

TestStop ==
  /\ apc = "test"
  /\ Go(IF stop THEN "ended" ELSE "top")
  /\ UNCHANGED <<users, structures, info, stop, locals, history>>

\* How many bytes the requests in a set have together.
Bytes(requests) == SumFunctionOnSet([r \in Reqs |-> data[r].len], requests)

\* Those of a set of requests that have something to do with a queue, a file, a line.
OfQueue(requests, q) == {r \in requests : data[r].queue = q}
OfFile(requests, f)  == {r \in requests : FileOf(data[r].queue) = f}
OfLine(requests, l)  == {r \in requests : LineOfQ(data[r].queue) = l}

\* Mutant: of the requests of one queue only the first one reaches the dispatch queue.
DispatchRecords_First(batch, q) ==
  LET parts == FlattenSeq([i \in DOMAIN batch |-> Parts(batch[i])])
      ofq   == FlattenSeq([k \in DOMAIN parts |->
                 IF parts[k].queue = q THEN <<Dispatched(parts[k])>> ELSE <<>>])
  IN SubSeq(ofq, 1, IF ofq = <<>> THEN 0 ELSE 1)

\* What step 1 appends to the dispatch queue q: the parts of the batch, in their order.
DispatchRecords(batch, q) ==
  LET parts == FlattenSeq([i \in DOMAIN batch |-> Parts(batch[i])])
  IN FlattenSeq([k \in DOMAIN parts |->
                   IF parts[k].queue = q THEN <<Dispatched(parts[k])>> ELSE <<>>])

\* The counters the requests that are dispatched move.
CountTaken(gone) ==
  /\ current_size' = [q \in Queues |-> current_size[q] - Bytes(OfQueue(gone, q))]
  /\ timeline_reqnb' = [f \in Files |-> timeline_reqnb[f] - Cardinality(OfFile(gone, f))]
  /\ current_filenb' = current_filenb -
       Cardinality({f \in Files : OfFile(gone, f) # {} /\ timeline_reqnb'[f] = 0})
  /\ current_reqnb' = current_reqnb - Cardinality(gone)
  /\ hashlist_reqcounter' = [l \in Lines |->
       hashlist_reqcounter[l] - Cardinality(OfLine(gone, l))]

\* process_requests_step1, called for the entries of batch one after the other
\* in one section.
Step1(batch) ==
  /\ dispatch' = [q \in Queues |-> dispatch[q] \o DispatchRecords(batch, q)]
  /\ info' = IdsIn(batch)
  /\ CountTaken(Members(batch))

NoQueue == <<>>   \* a scheduler's pointer to a queue that is NULL

\* A scheduler that takes one entry, up to the unlock.
Process(req) == Step1(<<req>>) /\ Go("callback")

\* Mutant: only the first request of a batch is given back.
process_requests_step2_FirstOnly ==
  /\ apc = "callback"
  /\ calls' = Append(calls, <<Head(Head(info))>>)
  /\ info' = Tail(info)
  /\ Go(IF info' = <<>> THEN "schedule" ELSE "callback")
  /\ UNCHANGED <<users, structures, stop, locals, released, refused, removed>>

\* The loop of the scheduler that step 2 returns to.
LoopOfScheduler == IF current_alg = "WFQ" THEN "pick" ELSE "schedule"

\* process_requests_step2 for each element of the list; it answers false, since
\* no scheduler of the table is dynamic.
process_requests_step2 ==
  LET ids  == Head(info)
      left == IF Len(ids) = 1 \/ ListCallback THEN Tail(info)
              ELSE <<Tail(ids)>> \o Tail(info)
  IN /\ apc = "callback"
     /\ calls' = Append(calls, IF Len(ids) = 1 \/ ListCallback THEN ids ELSE <<Head(ids)>>)
     /\ info' = left
     /\ Go(IF left = <<>> THEN LoopOfScheduler ELSE "callback")
     /\ UNCHANGED <<users, structures, stop, locals, released, refused, removed>>

Abort == Go("abort") /\ UNCHANGED <<structures, info>>

UserStep(r) ==
  \/ CallAdd(r) \/ Add(r) \/ AddNoop(r) \/ NoopCallback(r)
  \/ agios_release_request(r) \/ agios_cancel_request(r)

ThreadStep == CheckQueued \/ WakeUp \/ TestStop \/ process_requests_step2

CoreNext == (\E r \in Reqs : UserStep(r)) \/ agios_exit \/ ThreadStep

\* Every call that was made goes on, and a user whose request was given back
\* releases it (the README demands it); nobody has to add or to cancel.
UserFairness ==
  \A r \in Reqs : WF_coreVars(Add(r) \/ AddNoop(r) \/ NoopCallback(r)
                              \/ agios_release_request(r))

-----------------------------------------------------------------------------
(* Properties.                                                             *)

TypeOK ==
  /\ data \in [Reqs -> Arguments] /\ current_alg \in Algs
  /\ pc \in [Reqs -> {"new", "adding", "callback", "added"}]
  /\ earlier \in [Reqs -> SUBSET Reqs]
  /\ cancel \in [Reqs -> {"uncalled", "true", "false"}]
  /\ DOMAIN multi_timeline = 0 .. max_queue_id
  /\ DOMAIN queues = Queues /\ DOMAIN dispatch = Queues
  /\ files \subseteq Files
  /\ timeline_reqnb \in [Files -> 0 .. Cardinality(Reqs)]
  /\ current_size \in [Queues -> Nat]
  /\ hashlist_reqcounter \in [Lines -> Int]
  /\ current_reqnb \in 0 .. Cardinality(Reqs)
  /\ current_filenb \in 0 .. Cardinality(Files)
  /\ apc \in AgiosStates /\ stop \in BOOLEAN
  /\ \A i \in DOMAIN info : info[i] \in SeqOf(Reqs, Cardinality(Reqs)) \ {<<>>}
  /\ g_last_timestamp \in 0 .. 2 * Cardinality(Reqs)
  /\ stamp \in [Reqs -> 0 .. 2 * Cardinality(Reqs)]
  /\ \A i \in DOMAIN calls : calls[i] \in SeqOf(Reqs, Cardinality(Reqs)) \ {<<>>}
  /\ released \cup refused \cup removed \subseteq Reqs

\* The lists requests wait in.
Lists == {<<"timeline", 0>>} \cup {"multi"} \X (0 .. max_queue_id) \cup {"queue"} \X Queues
ListAt(l) == CASE l[1] = "timeline" -> timeline
               [] l[1] = "multi"    -> multi_timeline[l[2]]
               [] l[1] = "queue"    -> queues[l[2]]

Waits(r)    == \E l \in Lists : r \in Members(ListAt(l))
Waiting     == {r \in Reqs : Waits(r)}
Selected(r) == pc[r] = "callback" \/ \E i \in DOMAIN info : r \in ToSet(info[i])

\* Where r is in a sequence of sequences of ids.
Positions(ids, r) == UNION {{i} \X {k \in DOMAIN ids[i] : ids[i][k] = r} : i \in DOMAIN ids}
Slots(r) == (UNION {{l} \X Positions(IdsIn(ListAt(l)), r) : l \in Lists})
            \cup {<<"info", 0>>} \X Positions(info, r)
            \cup {<<"calls", 0>>} \X Positions(calls, r)

\* No request is lost and none is duplicated, through insertion, aggregation,
\* cancellation and both steps of processing: an accepted request is waiting,
\* or between step 1 and its callback, or given back, or cancelled, once.
OnePlace ==
  \A r \in Reqs :
    Cardinality(Slots(r)) + (IF pc[r] = "callback" THEN 1 ELSE 0)
      + (IF r \in removed THEN 1 ELSE 0)
    = IF pc[r] \in {"callback", "added"} THEN 1 ELSE 0

\* The dispatch queues hold one record for each request on its way to the user
\* or with the user, so that every release finds one and frees one.
DispatchAgrees ==
  \A q \in Queues :
    Len(dispatch[q]) =
      Cardinality({r \in Reqs : data[r].queue = q /\ (Selected(r) \/ r \in Delivered)}
                  \ released)

\* The counters schedulers rely on (updated at four places, under two kinds of
\* mutexes) agree with what is in the structures.
CountersAgree ==
  /\ \A q \in Queues : current_size[q] = Bytes(OfQueue(Waiting, q))
  /\ \A f \in Files : timeline_reqnb[f] = Cardinality(OfFile(Waiting, f))
  /\ \A l \in Lines : hashlist_reqcounter[l] = Cardinality(OfLine(Waiting, l))
  /\ current_reqnb = Cardinality(Waiting)
  /\ current_filenb = Cardinality({f \in Files : timeline_reqnb[f] > 0})

\* "read_queue and a write_queue where requests are placed in offset order"
\* (README): the insertion scan relies on it.
OffsetOrder ==
  \A q \in Queues : \A i, j \in DOMAIN queues[q] :
    i < j => queues[q][i].offset <= queues[q][j].offset

\* A virtual request holds at most max_aggreg_size simple requests, all of its own
\* queue and none before its offset, whatever is added, aggregated and cancelled.  (Its
\* end is the end of its last request, and others may end later.)
AggregatesHold ==
  \A v \in ToSet(timeline) \cup UNION {ToSet(queues[q]) : q \in Queues} :
    v.reqnb > 1 =>
      /\ v.reqnb = Len(v.subs) /\ v.reqnb <= max_aggreg_size
      /\ \A s \in ToSet(v.subs) : s.reqnb = 1 /\ s.queue = v.queue /\ v.offset <= s.offset

\* "The list of requests passed to the second callback are always contiguous
\* requests of the same type for the same file" (README).
ListsContiguous ==
  \A i \in DOMAIN calls : \A r \in ToSet(calls[i]) :
    \/ \A s \in ToSet(calls[i]) : data[r].queue = data[s].queue
                                  /\ data[r].offset <= data[s].offset
    \/ \E s \in ToSet(calls[i]) : /\ data[s].queue = data[r].queue
                                  /\ data[s].offset < data[r].offset
                                  /\ End(data[s]) >= data[r].offset

\* A user who releases what it was given is never told "false".
ReleaseAccepted == refused = {}

\* No assertion of a scheduler fails.
NoAbort == apc # "abort"

\* First come, first served, among all requests with TO and among those of one
\* queue_id with WFQ and TWINS: of two requests, one added after the add of the
\* other had returned is not given back first.
FirstComeFirstServed ==
  \A i, j \in DOMAIN calls : \A k \in DOMAIN calls[i], l \in DOMAIN calls[j] :
    i < j \/ (i = j /\ k < l) => calls[j][l] \notin earlier[calls[i][k]]

\* With SW, "a value that will define the position in the timeline" (req_timeline.c)
\* orders the requests of one time window by queue_id: here, of requests that all
\* arrive in one window.
WindowOrder ==
  current_alg = "SW" =>
    \A i, j \in DOMAIN timeline :
      i < j => data[timeline[i].id].queue_id <= data[timeline[j].id].queue_id

\* A cancellation of a request that is still waiting takes a request out.
CancelReaches ==
  [][\A r \in Reqs : cancel'[r] # cancel[r] /\ Waits(r)
                     => removed' # removed]_coreVars

\* A cancelled request is one whose file, type, offset and length were named.
CancelsWhatWasNamed ==
  \A g \in removed : \E r \in Reqs : cancel[r] = "true" /\ data[r] = data[g]

\* Users see the life RequestLife promises.
Status(r) ==
  IF r \in released THEN "released"
  ELSE IF r \in Delivered THEN "delivered"
  ELSE IF r \in removed THEN "cancelled"
  ELSE IF Selected(r) THEN "selected"
  ELSE IF pc[r] = "added" THEN "queued"
  ELSE "new"
Life == INSTANCE RequestLife WITH status <- [r \in Reqs |-> Status(r)]
LifeSpec == Life!Spec

\* Every call of agios_add_request leads to a callback, or to a cancellation,
\* unless the library is closed.
EverySoonServed ==
  \A r \in Reqs : pc[r] = "adding" ~> r \in Delivered \cup removed \/ stop

\* agios_exit comes back: the thread stops even when it finds requests waiting.
ExitReturns == stop ~> apc = "ended"
=============================================================================
