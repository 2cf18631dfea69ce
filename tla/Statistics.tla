----------------------------- MODULE Statistics -----------------------------
(***************************************************************************)
(* The statistics kept for every queue and for the library, and their      *)
(* reset with a change of algorithm.  Every update is made with the mutex   *)
(* of the queue's structure, the reset with all of them (StructureLocks),   *)
(* so each is one step.  But a request reads the clock before its caller    *)
(* gets the mutex, and others may be received between.                      *)
(***************************************************************************)
EXTENDS Averages, Sequences, FiniteSets, Functions

CONSTANTS Reqs, Queues,
          ReadQueues,              \* the other queues are for writes
          queue, offset, len,      \* of each request
          MaxResets                \* bound on the changes of algorithm

ASSUME StatisticsAssumption ==
  /\ IsFiniteSet(Queues) /\ ReadQueues \subseteq Queues
  /\ queue \in [Reqs -> Queues] /\ offset \in [Reqs -> Nat] /\ len \in [Reqs -> Nat]
  /\ MaxResets \in Nat

VARIABLES now, arrival_time, status,
          stats,                   \* queue_statistics_t of each queue
          last,                    \* last_req_time, last_received_finaloffset, best_agg
          global_stats, last_req,
          received,                \* history: since the reset, in order, of each queue
          bandwidths, aggregations,\* history: values since the reset, of each queue
          resets                   \* how many there were

history == <<received, bandwidths, aggregations>>
vars == <<now, arrival_time, status, stats, last, global_stats, last_req, history, resets>>

None == -1

NoStats == [receivedreq_nb |-> 0, processedreq_nb |-> 0, processed_req_size |-> 0,
            releasedreq_nb |-> 0, processed_bandwidth |-> None,
            avg_req_size |-> None, avg_time_between_requests |-> None,
            avg_distance |-> None, aggs_no |-> 0, avg_agg_size |-> None]

NoGlobalStats == [total_reqnb |-> 0, reads |-> 0, writes |-> 0,
                  avg_time_between_requests |-> None, avg_request_size |-> None]

\* init_queue_statistics leaves avg_agg_size undefined, but nothing reads it before
\* the first aggregation sets it.
Init ==
  /\ now = 1
  /\ arrival_time = [r \in Reqs |-> 0]
  /\ status = [r \in Reqs |-> "out"]
  /\ stats = [q \in Queues |-> NoStats]
  /\ last = [q \in Queues |-> [time |-> 0, finaloffset |-> 0, best_agg |-> 0]]
  /\ global_stats = NoGlobalStats /\ last_req = 0
  /\ received = [q \in Queues |-> <<>>]
  /\ bandwidths = [q \in Queues |-> {}] /\ aggregations = [q \in Queues |-> {}]
  /\ resets = 0

\* agios_add_request takes the time, then waits for the mutex.
CallAdd(r) ==
  /\ status[r] = "out"
  /\ status' = [status EXCEPT ![r] = "called"]
  /\ arrival_time' = [arrival_time EXCEPT ![r] = now]
  /\ now' = now + 1
  /\ UNCHANGED <<stats, last, global_stats, last_req, history, resets>>

\* Mutant: requests before the last one have a negative distance.
Distance_Signed(r, finaloffset) == offset[r] - finaloffset

Distance(r, finaloffset) ==
  IF offset[r] < finaloffset THEN finaloffset - offset[r] ELSE offset[r] - finaloffset

\* Mutant: the differences are counted like the requests, one too many.
Differences_Requests(n) == n

\* A difference needs two requests.
Differences(n) == n - 1

update_local_stats(s, r, previous) ==
  LET n == s.receivedreq_nb
      Averaged(avg, difference) ==
        IF n > 1 THEN update_iterative_average(avg, difference, Differences(n)) ELSE avg
  IN [s EXCEPT
        !.avg_time_between_requests = Averaged(@, arrival_time[r] - previous.time),
        !.avg_distance = Averaged(@, Distance(r, previous.finaloffset)),
        !.avg_req_size = update_iterative_average(@, len[r], n)]

update_global_stats_newreq(s, r) ==
  LET n == s.total_reqnb + 1
      reads == queue[r] \in ReadQueues
  IN [total_reqnb |-> n,
      reads  |-> s.reads + IF reads THEN 1 ELSE 0,
      writes |-> s.writes + IF reads THEN 0 ELSE 1,
      avg_time_between_requests |->
        IF n > 1 THEN update_iterative_average(s.avg_time_between_requests,
                                               arrival_time[r] - last_req, n - 1)
        ELSE s.avg_time_between_requests,
      avg_request_size |-> update_iterative_average(s.avg_request_size, len[r], n)]

statistics_newreq(r) ==
  LET q == queue[r]
      counted == [stats[q] EXCEPT !.receivedreq_nb = @ + 1]
  IN /\ status[r] = "called"
     /\ status' = [status EXCEPT ![r] = "queued"]
     /\ global_stats' = update_global_stats_newreq(global_stats, r)
     /\ last_req' = arrival_time[r]
     /\ stats' = [stats EXCEPT ![q] = update_local_stats(counted, r, last[q])]
     /\ last' = [last EXCEPT ![q].time = arrival_time[r],
                             ![q].finaloffset = offset[r] + len[r]]
     /\ received' = [received EXCEPT ![q] = Append(@, r)]
     /\ UNCHANGED <<now, arrival_time, bandwidths, aggregations, resets>>

Better(best, n) == IF best < n THEN n ELSE best

stats_aggregation(q, n) ==
  /\ stats' = [stats EXCEPT ![q].aggs_no = @ + 1,
                            ![q].avg_agg_size =
                               update_iterative_average(@, n, stats[q].aggs_no + 1)]
  /\ last' = [last EXCEPT ![q].best_agg = Better(@, n)]
  /\ aggregations' = [aggregations EXCEPT ![q] = @ \cup {n}]

\* A request of q, or several as a virtual request, have been processed.
generic_post_process(q, batch) ==
  /\ batch # {} /\ \A r \in batch : queue[r] = q /\ status[r] = "queued"
  /\ status' = [r \in Reqs |-> IF r \in batch THEN "sent" ELSE status[r]]
  /\ IF Cardinality(batch) > 1 THEN stats_aggregation(q, Cardinality(batch))
     ELSE UNCHANGED <<stats, last, aggregations>>
  /\ UNCHANGED <<now, arrival_time, global_stats, last_req, received, bandwidths, resets>>

\* Mutant: the average counts the received requests.
Releases_Received(s) == s.receivedreq_nb + 1

Releases(s) == s.releasedreq_nb + 1

\* The freed request counts as processed.
generic_cleanup(s, r) ==
  [s EXCEPT !.processedreq_nb = @ + 1, !.processed_req_size = @ + len[r]]

agios_release_request(r) ==
  LET q == queue[r]
      bandwidth == len[r] \div (now - arrival_time[r])
      accounted == [stats[q] EXCEPT !.releasedreq_nb = @ + 1,
                                    !.processed_bandwidth =
                                       update_iterative_average(@, bandwidth, Releases(stats[q]))]
  IN /\ status[r] = "sent"
     /\ status' = [status EXCEPT ![r] = "released"]
     /\ stats' = [stats EXCEPT ![q] = generic_cleanup(accounted, r)]
     /\ bandwidths' = [bandwidths EXCEPT ![q] = @ \cup {bandwidth}]
     /\ now' = now + 1
     /\ UNCHANGED <<arrival_time, last, global_stats, last_req, received, aggregations, resets>>

\* Mutant: the queues for writes are forgotten.
ResetQueues_Reads == ReadQueues

ResetQueues == Queues

reset_all_statistics ==
  /\ resets < MaxResets /\ resets' = resets + 1
  /\ stats' = [q \in Queues |-> IF q \in ResetQueues THEN NoStats ELSE stats[q]]
  /\ global_stats' = NoGlobalStats
  /\ received' = [q \in Queues |-> <<>>]
  /\ bandwidths' = [q \in Queues |-> {}] /\ aggregations' = [q \in Queues |-> {}]
  /\ UNCHANGED <<now, arrival_time, status, last, last_req>>

Next ==
  \/ \E r \in Reqs : CallAdd(r) \/ statistics_newreq(r) \/ agios_release_request(r)
  \/ \E q \in Queues, batch \in SUBSET Reqs : generic_post_process(q, batch)
  \/ reset_all_statistics

Spec == Init /\ [][Next]_vars

-----------------------------------------------------------------------------
(* Properties.                                                             *)

StatsType == [receivedreq_nb : Nat, processedreq_nb : Nat, processed_req_size : Nat,
              releasedreq_nb : Nat, processed_bandwidth : Nat \cup {None},
              avg_req_size : Nat \cup {None}, avg_time_between_requests : Int,
              avg_distance : Nat \cup {None}, aggs_no : Nat, avg_agg_size : Nat \cup {None}]

TypeOK ==
  /\ now \in Nat /\ arrival_time \in [Reqs -> Nat]
  /\ status \in [Reqs -> {"out", "called", "queued", "sent", "released"}]
  /\ stats \in [Queues -> StatsType]
  /\ last \in [Queues -> [time : Nat, finaloffset : Nat, best_agg : Nat]]
  /\ global_stats \in [total_reqnb : Nat, reads : Nat, writes : Nat,
                       avg_time_between_requests : Int, avg_request_size : Int]
  /\ last_req \in Nat /\ resets \in 0 .. MaxResets

\* What two consecutive requests of q gave, since the reset.
Pairs(q)     == {<<received[q][i], received[q][i + 1]>> : i \in 1 .. Len(received[q]) - 1}
Gaps(q)      == {arrival_time[p[2]] - arrival_time[p[1]] : p \in Pairs(q)}
Distances(q) == {Distance(p[2], offset[p[1]] + len[p[1]]) : p \in Pairs(q)}
Sizes(q)     == {len[received[q][i]] : i \in DOMAIN received[q]}

Summarises(avg, values) == IF values = {} THEN avg = None ELSE InRangeOf(avg, values)

\* The averages of a queue summarise what happened since the last change of
\* algorithm and nothing before it, although they are computed from the last
\* request before this one, and a release may belong to a request received
\* before the reset.
LocalAverages ==
  \A q \in Queues :
    /\ Summarises(stats[q].avg_req_size, Sizes(q))
    /\ Summarises(stats[q].avg_time_between_requests, Gaps(q))
    /\ Summarises(stats[q].avg_distance, Distances(q))

\* The bandwidth of a queue summarises the releases since the last reset.
LocalBandwidth ==
  \A q \in Queues : Summarises(stats[q].processed_bandwidth, bandwidths[q])

\* The requests the queues of S say they received.
Received(S) == SumFunctionOnSet([q \in Queues |-> stats[q].receivedreq_nb], S)

\* What the global statistics count is what the queues count, reads and writes.
GlobalAgrees ==
  /\ global_stats.total_reqnb = global_stats.reads + global_stats.writes
  /\ global_stats.reads = Received(ReadQueues)
  /\ global_stats.writes = Received(Queues \ ReadQueues)

\* The average size of a queue's aggregations summarises those since the reset, and is
\* never above best_agg, the "best aggregation performed to this queue" (agios_request.h),
\* which the reset leaves as it is.
BestAggregation ==
  \A q \in Queues : /\ Summarises(stats[q].avg_agg_size, aggregations[q])
                    /\ stats[q].avg_agg_size <= last[q].best_agg
=============================================================================
