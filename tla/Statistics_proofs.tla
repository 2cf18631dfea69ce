------------------------- MODULE Statistics_proofs -------------------------
(***************************************************************************)
(* The averages kept for a queue summarise what was received, released and *)
(* aggregated since the last reset, and nothing else, for any requests and *)
(* any number of resets.                                                   *)
(***************************************************************************)
EXTENDS Statistics, DataLemmas

LastType == [time : Nat, finaloffset : Nat, best_agg : Nat]

-----------------------------------------------------------------------------
(* Averages that summarise sets.                                           *)

\* One more value, counted as the first exactly when there was none.
LEMMA SummarisesMore ==
  ASSUME NEW values, values \subseteq Int, NEW avg \in Int, NEW value \in Int,
         NEW count \in Nat \ {0},
         Summarises(avg, values), values = {} => count = 1
  PROVE  Summarises(update_iterative_average(avg, value, count), values \cup {value})
<1>1. CASE count = 1
  <2>1. update_iterative_average(avg, value, count) = value
    BY <1>1 DEF update_iterative_average
  <2>2. value <= value
    OBVIOUS
  <2> QED BY <2>1, <2>2 DEF Summarises, InRangeOf
<1>2. CASE count # 1
  <2>1. InRangeOf(avg, values)
    BY <1>2 DEF Summarises
  <2>2. InRangeOf(update_iterative_average(avg, value, count), values \cup {value})
    BY <2>1, OneMoreValue
  <2> QED BY <2>2 DEF Summarises
<1> QED BY <1>1, <1>2

\* An average of values that are not negative is None or not negative.
LEMMA AverageType ==
  ASSUME NEW avg \in Nat \cup {None}, NEW value \in Nat, NEW count \in Nat \ {0}
  PROVE  update_iterative_average(avg, value, count) \in Nat \cup {None}
<1> DEFINE new == update_iterative_average(avg, value, count)
<1>1. avg \in Int /\ avg >= -1
  BY DEF None
<1>2. Between(new, avg, value, count)
  BY <1>1, AverageBetween
<1> HIDE DEF new
<1>3. new \in Int /\ new >= -1
  BY <1>1, <1>2 DEF Between
<1> QED BY <1>3 DEF None, new

\* An average of integers is an integer.
LEMMA AverageInteger ==
  ASSUME NEW avg \in Int, NEW value \in Int, NEW count \in Nat \ {0}
  PROVE  update_iterative_average(avg, value, count) \in Int
BY AverageBetween DEF Between

-----------------------------------------------------------------------------
(* The inductive invariant.                                                *)

\* What was called, was called before now; what was received had been called.
Past ==
  /\ \A r \in Reqs : arrival_time[r] < now
  /\ IsFiniteSet({r \in Reqs : status[r] # "out"})
  /\ \A q \in Queues : \A i \in DOMAIN received[q] : status[received[q][i]] # "out"

\* What a queue remembers of its last request is that of the last received one.
LastReceived ==
  /\ received \in [Queues -> Seq(Reqs)]
  /\ \A q \in Queues :
       /\ Len(received[q]) = stats[q].receivedreq_nb
       /\ received[q] # <<>> =>
            LET r == received[q][Len(received[q])] IN
            /\ last[q].time = arrival_time[r]
            /\ last[q].finaloffset = offset[r] + len[r]

\* The counters of releases and of aggregations are zero when there was none,
\* and no aggregation was larger than the best.
Counted ==
  /\ bandwidths \in [Queues -> SUBSET Nat]
  /\ aggregations \in [Queues -> SUBSET Nat]
  /\ \A q \in Queues :
       /\ stats[q].releasedreq_nb = 0 <=> bandwidths[q] = {}
       /\ stats[q].aggs_no = 0 <=> aggregations[q] = {}
       /\ \A n \in aggregations[q] : n <= last[q].best_agg

IInv ==
  /\ TypeOK
  /\ Past /\ LastReceived /\ Counted
  /\ LocalAverages /\ LocalBandwidth /\ BestAggregation

LEMMA InitIInv == Init => IInv
<1> SUFFICES ASSUME Init PROVE IInv
  OBVIOUS
<1>1. \A q \in Queues : Pairs(q) = {} /\ Gaps(q) = {} /\ Distances(q) = {} /\ Sizes(q) = {}
  BY DEF Init, Pairs, Gaps, Distances, Sizes
<1>2. TypeOK
  <2>1. NoStats \in StatsType
    BY DEF NoStats, StatsType, None
  <2>2. NoGlobalStats \in [total_reqnb : Nat, reads : Nat, writes : Nat,
                           avg_time_between_requests : Int, avg_request_size : Int]
    BY DEF NoGlobalStats, None
  <2> QED BY <2>1, <2>2, StatisticsAssumption DEF Init, TypeOK
<1>3. Past
  <2>1. {r \in Reqs : status[r] # "out"} = {}
    BY DEF Init
  <2>2. IsFiniteSet({r \in Reqs : status[r] # "out"})
    BY <2>1, FS_EmptySet
  <2>3. \A q \in Queues : DOMAIN received[q] = {}
    BY DEF Init
  <2>4. \A r \in Reqs : arrival_time[r] < now
    BY DEF Init
  <2> QED BY <2>2, <2>3, <2>4 DEF Past
<1>4. LastReceived
  BY DEF Init, LastReceived, NoStats
<1>5. Counted
  BY DEF Init, Counted, NoStats
<1>6. LocalAverages /\ LocalBandwidth /\ BestAggregation
  BY <1>1 DEF Init, LocalAverages, LocalBandwidth, BestAggregation, Summarises, NoStats, None
<1> QED BY <1>2, <1>3, <1>4, <1>5, <1>6 DEF IInv

\* The fields a newly received request changes.
SameLocal(new, old) ==
  /\ new.receivedreq_nb = old.receivedreq_nb
  /\ new.avg_req_size = old.avg_req_size
  /\ new.avg_time_between_requests = old.avg_time_between_requests
  /\ new.avg_distance = old.avg_distance

\* A queue's averages stay right with what they are computed from.
LEMMA SameAverages ==
  ASSUME LocalAverages,
         received' = received,
         \A q \in Queues : SameLocal(stats'[q], stats[q]),
         \A q \in Queues : \A i \in DOMAIN received[q] :
           arrival_time'[received[q][i]] = arrival_time[received[q][i]]
  PROVE  LocalAverages'
<1>1. \A q \in Queues : \A p \in Pairs(q) : /\ arrival_time'[p[1]] = arrival_time[p[1]]
                                            /\ arrival_time'[p[2]] = arrival_time[p[2]]
  BY DEF Pairs
<1>2. \A q \in Queues : Pairs(q)' = Pairs(q) /\ Sizes(q)' = Sizes(q)
  BY DEF Pairs, Sizes
<1>3. \A q \in Queues : Gaps(q)' = Gaps(q)
  BY <1>1, <1>2 DEF Gaps
<1>4. \A q \in Queues : Distances(q)' = Distances(q)
  BY <1>2 DEF Distances
<1> QED BY <1>2, <1>3, <1>4 DEF LocalAverages, SameLocal

\* A call only reads the clock.
LEMMA CallIInv ==
  ASSUME IInv, NEW r \in Reqs, CallAdd(r)
  PROVE  IInv'
<1> USE DEF IInv, CallAdd
<1>1. TypeOK'
  BY DEF TypeOK
<1>2. \A s \in Reqs : status[s] # "out" => arrival_time'[s] = arrival_time[s]
  BY DEF TypeOK
<1>3. \A q \in Queues : \A i \in DOMAIN received[q] :
        received[q][i] \in Reqs /\ status[received[q][i]] # "out"
  BY DEF Past, LastReceived
<1>4. Past'
  <2>1. {s \in Reqs : status'[s] # "out"} = {s \in Reqs : status[s] # "out"} \cup {r}
    BY DEF TypeOK
  <2>2. IsFiniteSet({s \in Reqs : status'[s] # "out"})
    BY <2>1, FS_AddElement DEF Past
  <2>3. \A s \in Reqs : arrival_time'[s] < now'
    BY DEF Past, TypeOK
  <2>4. \A s \in Reqs : status[s] # "out" => status'[s] # "out"
    BY DEF TypeOK
  <2>5. received' = received
    BY DEF history
  <2>6. \A q \in Queues : \A i \in DOMAIN received'[q] : status'[received'[q][i]] # "out"
    BY <1>3, <2>4, <2>5
  <2> QED BY <2>2, <2>3, <2>6 DEF Past
<1>5. LastReceived'
  <2>0. received' = received /\ stats' = stats /\ last' = last
    BY DEF history
  <2> SUFFICES ASSUME NEW q \in Queues, received[q] # <<>>
               PROVE  arrival_time'[received[q][Len(received[q])]]
                        = arrival_time[received[q][Len(received[q])]]
    BY <2>0 DEF LastReceived
  <2>1. Len(received[q]) \in DOMAIN received[q]
    BY DEF LastReceived
  <2> QED BY <1>2, <1>3, <2>1
<1>6. LocalAverages'
  BY <1>2, <1>3, SameAverages DEF history, SameLocal
<1> QED BY <1>1, <1>4, <1>5, <1>6 DEF Counted, LocalBandwidth, BestAggregation, history

\* What one queue has does not matter to the others.
LEMMA AggregationOf ==
  ASSUME NEW s \in StatsType, NEW n \in Nat,
         NEW values \in SUBSET Nat, NEW best \in Nat,
         s.aggs_no = 0 <=> values = {},
         \A v \in values : v <= best,
         Summarises(s.avg_agg_size, values)
  PROVE  LET avg == update_iterative_average(s.avg_agg_size, n, s.aggs_no + 1)
             more == values \cup {n}
         IN /\ avg \in Nat \cup {None}
            /\ Better(best, n) \in Nat
            /\ s.aggs_no + 1 \in Nat \ {0}
            /\ \A v \in more : v <= Better(best, n)
            /\ Summarises(avg, more) /\ avg <= Better(best, n)
<1> DEFINE avg == update_iterative_average(s.avg_agg_size, n, s.aggs_no + 1)
           more == values \cup {n}
<1>1. s.aggs_no \in Nat /\ s.avg_agg_size \in Nat \cup {None} /\ s.avg_agg_size \in Int
  BY DEF StatsType, None
<1>2. avg \in Nat \cup {None}
  BY <1>1, AverageType
<1>3. Summarises(avg, more)
  <2>1. values = {} => s.aggs_no + 1 = 1
    BY <1>1
  <2>2. values \subseteq Int /\ n \in Int /\ s.aggs_no + 1 \in Nat \ {0}
    BY <1>1
  <2> QED BY <1>1, <2>1, <2>2, SummarisesMore
<1>4. Better(best, n) \in Nat /\ \A v \in more : v <= Better(best, n)
  BY DEF Better
<1> HIDE DEF avg, more
<1>5. avg <= Better(best, n)
  <2>1. more # {}
    BY DEF more
  <2>2. PICK v \in more : avg <= v
    BY <1>3, <2>1 DEF Summarises, InRangeOf
  <2>3. v \in Nat /\ v <= Better(best, n) /\ Better(best, n) \in Nat
    BY <1>4 DEF more
  <2>4. avg \in Int
    BY <1>2 DEF None
  <2> QED BY <2>2, <2>3, <2>4
<1> QED BY <1>1, <1>2, <1>3, <1>4, <1>5 DEF avg, more

\* An aggregation changes what is known of the aggregations of its queue.
LEMMA PostProcessIInv ==
  ASSUME IInv, NEW q \in Queues, NEW batch \in SUBSET Reqs, generic_post_process(q, batch)
  PROVE  IInv'
<1> USE DEF IInv
<1> DEFINE n == Cardinality(batch)
<1>1. /\ batch # {} /\ \A r \in batch : queue[r] = q /\ status[r] = "queued"
      /\ status' = [r \in Reqs |-> IF r \in batch THEN "sent" ELSE status[r]]
      /\ UNCHANGED <<now, arrival_time, global_stats, last_req, received, bandwidths, resets>>
  BY DEF generic_post_process
<1>2. n \in Nat
  <2>1. batch \subseteq {r \in Reqs : status[r] # "out"}
    BY <1>1
  <2>2. IsFiniteSet(batch)
    BY <2>1, FS_Subset DEF Past
  <2> QED BY <2>2, FS_CardinalityType
<1>3. Past'
  <2>1. {r \in Reqs : status'[r] # "out"} = {r \in Reqs : status[r] # "out"}
    BY <1>1
  <2>2. \A p \in Queues : \A i \in DOMAIN received[p] : received[p][i] \in Reqs
    BY DEF LastReceived
  <2> QED BY <1>1, <2>1, <2>2 DEF Past
<1>4. status' \in [Reqs -> {"out", "called", "queued", "sent", "released"}]
  BY <1>1 DEF TypeOK
<1>5. CASE ~ (n > 1)
  <2>1. UNCHANGED <<stats, last, aggregations>>
    BY <1>5 DEF generic_post_process
  <2>2. LocalAverages'
    BY <1>1, <2>1, SameAverages DEF SameLocal
  <2> QED BY <1>1, <1>3, <1>4, <2>1, <2>2
          DEF TypeOK, LastReceived, Counted, LocalBandwidth, BestAggregation
<1>6. CASE n > 1
  <2> DEFINE avg == update_iterative_average(stats[q].avg_agg_size, n, stats[q].aggs_no + 1)
  <2>1. /\ stats' = [stats EXCEPT ![q].aggs_no = @ + 1, ![q].avg_agg_size = avg]
        /\ last' = [last EXCEPT ![q].best_agg = Better(@, n)]
        /\ aggregations' = [aggregations EXCEPT ![q] = @ \cup {n}]
    BY <1>6 DEF generic_post_process, stats_aggregation
  <2>2. stats \in [Queues -> StatsType] /\ last \in [Queues -> LastType]
        /\ aggregations \in [Queues -> SUBSET Nat]
    BY DEF TypeOK, LastType, Counted
  <2>3. /\ stats[q] \in StatsType /\ last[q].best_agg \in Nat /\ aggregations[q] \in SUBSET Nat
        /\ stats[q].aggs_no = 0 <=> aggregations[q] = {}
        /\ \A v \in aggregations[q] : v <= last[q].best_agg
        /\ Summarises(stats[q].avg_agg_size, aggregations[q])
    BY <2>2 DEF Counted, BestAggregation, LastType
  <2>4. /\ avg \in Nat \cup {None}
        /\ Better(last[q].best_agg, n) \in Nat
        /\ stats[q].aggs_no + 1 \in Nat \ {0}
        /\ \A v \in aggregations[q] \cup {n} : v <= Better(last[q].best_agg, n)
        /\ Summarises(avg, aggregations[q] \cup {n}) /\ avg <= Better(last[q].best_agg, n)
    BY <1>2, <2>3, AggregationOf
  <2> HIDE DEF avg, n
  <2>5. /\ stats' \in [Queues -> StatsType]
        /\ \A p \in Queues : SameLocal(stats'[p], stats[p])
        /\ \A p \in Queues : /\ stats'[p].releasedreq_nb = stats[p].releasedreq_nb
                             /\ stats'[p].processed_bandwidth = stats[p].processed_bandwidth
        /\ stats'[q].aggs_no = stats[q].aggs_no + 1 /\ stats'[q].avg_agg_size = avg
        /\ \A p \in Queues \ {q} : stats'[p] = stats[p]
    BY ZenonT(60), <2>1, <2>2, <2>4 DEF StatsType, SameLocal
  <2>6. /\ last' \in [Queues -> LastType]
        /\ \A p \in Queues : last'[p].time = last[p].time
        /\ \A p \in Queues : last'[p].finaloffset = last[p].finaloffset
        /\ last'[q].best_agg = Better(last[q].best_agg, n)
        /\ \A p \in Queues \ {q} : last'[p] = last[p]
    BY <2>1, <2>2, <2>4 DEF LastType
  <2>7. /\ aggregations' \in [Queues -> SUBSET Nat]
        /\ aggregations'[q] = aggregations[q] \cup {n}
        /\ \A p \in Queues \ {q} : aggregations'[p] = aggregations[p]
    BY <1>2, <2>1, <2>2 DEF n
  <2>8. TypeOK'
    BY <1>1, <1>4, <2>5, <2>6 DEF TypeOK, LastType
  <2>9. LastReceived'
    BY <1>1, <2>5, <2>6 DEF LastReceived, SameLocal
  <2>10. Counted'
    <3>1. stats'[q].aggs_no # 0 /\ aggregations'[q] # {}
      BY <2>4, <2>5, <2>7
    <3>2. \A v \in aggregations'[q] : v <= last'[q].best_agg
      BY <2>4, <2>6, <2>7
    <3>3. ASSUME NEW p \in Queues
          PROVE  /\ stats'[p].releasedreq_nb = 0 <=> bandwidths'[p] = {}
                 /\ stats'[p].aggs_no = 0 <=> aggregations'[p] = {}
                 /\ \A v \in aggregations'[p] : v <= last'[p].best_agg
      <4>1. /\ stats[p].releasedreq_nb = 0 <=> bandwidths[p] = {}
            /\ stats[p].aggs_no = 0 <=> aggregations[p] = {}
            /\ \A v \in aggregations[p] : v <= last[p].best_agg
        BY DEF Counted
      <4>2. CASE p = q
        BY <1>1, <2>5, <3>1, <3>2, <4>1, <4>2
      <4>3. CASE p # q
        BY <1>1, <2>5, <2>6, <2>7, <4>1, <4>3
      <4> QED BY <4>2, <4>3
    <3> QED BY <1>1, <2>7, <3>3 DEF Counted
  <2>11. LocalAverages'
    BY <1>1, <2>5, SameAverages
  <2>12. LocalBandwidth'
    BY <1>1, <2>5 DEF LocalBandwidth
  <2>13. BestAggregation'
    BY <2>4, <2>5, <2>6, <2>7 DEF BestAggregation
  <2> QED BY <1>3, <2>8, <2>9, <2>10, <2>11, <2>12, <2>13
<1> QED BY <1>5, <1>6

\* A release changes what is known of the releases of its queue.
LEMMA ReleaseIInv ==
  ASSUME IInv, NEW r \in Reqs, agios_release_request(r)
  PROVE  IInv'
<1> USE DEF IInv
<1> DEFINE q == queue[r]
           bandwidth == len[r] \div (now - arrival_time[r])
           avg == update_iterative_average(stats[q].processed_bandwidth, bandwidth,
                                           stats[q].releasedreq_nb + 1)
<1>1. /\ status[r] = "sent" /\ status' = [status EXCEPT ![r] = "released"]
      /\ bandwidths' = [bandwidths EXCEPT ![q] = @ \cup {bandwidth}]
      /\ now' = now + 1
      /\ UNCHANGED <<arrival_time, last, global_stats, last_req, received, aggregations, resets>>
  BY DEF agios_release_request
<1> DEFINE accounted == [stats[q] EXCEPT !.releasedreq_nb = @ + 1, !.processed_bandwidth = avg]
           new == generic_cleanup(accounted, r)
<1>2. stats' = [stats EXCEPT ![q] = new]
  BY DEF agios_release_request, Releases
<1>3. q \in Queues /\ len[r] \in Nat /\ bandwidth \in Nat
  <2>1. len[r] \in Nat /\ now - arrival_time[r] \in Nat \ {0}
    BY StatisticsAssumption DEF TypeOK, Past
  <2>2. bandwidth \in Nat
    BY <2>1, QuotientShrinks
  <2> QED BY <2>1, <2>2, StatisticsAssumption
<1>4. /\ stats \in [Queues -> StatsType] /\ stats[q] \in StatsType
      /\ bandwidths \in [Queues -> SUBSET Nat] /\ bandwidths[q] \in SUBSET Nat
      /\ stats[q].releasedreq_nb \in Nat
      /\ stats[q].processed_bandwidth \in Nat \cup {None}
      /\ stats[q].processedreq_nb \in Nat /\ stats[q].processed_req_size \in Nat
  BY <1>3 DEF TypeOK, StatsType, Counted
<1>5. avg \in Nat \cup {None} /\ Summarises(avg, bandwidths[q] \cup {bandwidth})
  <2>1. bandwidths[q] = {} => stats[q].releasedreq_nb + 1 = 1
    BY <1>3 DEF Counted
  <2>2. /\ bandwidths[q] \subseteq Int /\ bandwidth \in Int
        /\ stats[q].processed_bandwidth \in Int
        /\ stats[q].releasedreq_nb + 1 \in Nat \ {0}
    BY <1>3, <1>4 DEF None
  <2>3. Summarises(stats[q].processed_bandwidth, bandwidths[q])
    BY <1>3 DEF LocalBandwidth
  <2> QED BY <1>3, <1>4, <2>1, <2>2, <2>3, SummarisesMore, AverageType
<1> HIDE DEF bandwidth, avg, q
<1> DEFINE before == stats[q]
<1>5a. before \in StatsType /\ before.releasedreq_nb + 1 \in Nat
       /\ before.processedreq_nb + 1 \in Nat /\ before.processed_req_size + len[r] \in Nat
  BY <1>3, <1>4
<1> HIDE DEF before
<1>5b. accounted = [before EXCEPT !.releasedreq_nb = before.releasedreq_nb + 1,
                                !.processed_bandwidth = avg]
  BY DEF before
<1> HIDE DEF accounted
<1>5c. /\ accounted \in StatsType /\ SameLocal(accounted, before)
       /\ accounted.aggs_no = before.aggs_no /\ accounted.avg_agg_size = before.avg_agg_size
       /\ accounted.releasedreq_nb = before.releasedreq_nb + 1
       /\ accounted.processed_bandwidth = avg
       /\ accounted.processedreq_nb = before.processedreq_nb
       /\ accounted.processed_req_size = before.processed_req_size
  BY <1>5, <1>5a, <1>5b DEF StatsType, SameLocal
<1>5d. /\ new \in StatsType /\ SameLocal(new, before)
       /\ new.aggs_no = before.aggs_no /\ new.avg_agg_size = before.avg_agg_size
       /\ new.releasedreq_nb = before.releasedreq_nb + 1 /\ new.processed_bandwidth = avg
  BY <1>5a, <1>5c DEF StatsType, SameLocal, generic_cleanup
<1> HIDE DEF new
<1>6. /\ stats' \in [Queues -> StatsType]
      /\ \A p \in Queues : SameLocal(stats'[p], stats[p])
      /\ \A p \in Queues : /\ stats'[p].aggs_no = stats[p].aggs_no
                           /\ stats'[p].avg_agg_size = stats[p].avg_agg_size
      /\ stats'[q].releasedreq_nb = stats[q].releasedreq_nb + 1
      /\ stats'[q].processed_bandwidth = avg
      /\ \A p \in Queues \ {q} : stats'[p] = stats[p]
  BY <1>2, <1>3, <1>4, <1>5d DEF SameLocal, before
<1>7. /\ bandwidths' \in [Queues -> SUBSET Nat]
      /\ bandwidths'[q] = bandwidths[q] \cup {bandwidth}
      /\ \A p \in Queues \ {q} : bandwidths'[p] = bandwidths[p]
  BY <1>1, <1>3, <1>4
<1>8. TypeOK'
  BY <1>1, <1>6 DEF TypeOK
<1>9. Past'
  <2>1. {s \in Reqs : status'[s] # "out"} = {s \in Reqs : status[s] # "out"}
    BY <1>1 DEF TypeOK
  <2>2. \A p \in Queues : \A i \in DOMAIN received[p] : status'[received[p][i]] # "out"
    BY <1>1 DEF Past, TypeOK
  <2>3. \A s \in Reqs : arrival_time[s] < now + 1
    BY DEF Past, TypeOK
  <2> QED BY <1>1, <2>1, <2>2, <2>3 DEF Past
<1>10. LastReceived'
  BY <1>1, <1>6 DEF LastReceived, SameLocal
<1>11. Counted'
  <2> SUFFICES ASSUME NEW p \in Queues
               PROVE  stats'[p].releasedreq_nb = 0 <=> bandwidths'[p] = {}
    BY <1>1, <1>6, <1>7 DEF Counted
  <2>1. CASE p = q
    <3>1. stats'[q].releasedreq_nb # 0 /\ bandwidths'[q] # {}
      BY <1>4, <1>6, <1>7
    <3> QED BY <2>1, <3>1
  <2>2. CASE p # q
    BY <1>6, <1>7, <2>2 DEF Counted
  <2> QED BY <2>1, <2>2
<1>12. LocalAverages'
  BY <1>1, <1>6, SameAverages
<1>13. LocalBandwidth'
  BY <1>5, <1>6, <1>7 DEF LocalBandwidth
<1>14. BestAggregation'
  BY <1>1, <1>6 DEF BestAggregation
<1> QED BY <1>8, <1>9, <1>10, <1>11, <1>12, <1>13, <1>14

\* A reset forgets everything but the last request of every queue.
LEMMA ResetIInv ==
  ASSUME IInv, reset_all_statistics
  PROVE  IInv'
<1> USE DEF IInv
<1>1. /\ resets < MaxResets /\ resets' = resets + 1
      /\ stats' = [q \in Queues |-> NoStats]
      /\ global_stats' = NoGlobalStats
      /\ received' = [q \in Queues |-> <<>>]
      /\ bandwidths' = [q \in Queues |-> {}] /\ aggregations' = [q \in Queues |-> {}]
      /\ UNCHANGED <<now, arrival_time, status, last, last_req>>
  BY DEF reset_all_statistics, ResetQueues
<1>2. \A q \in Queues : /\ Pairs(q)' = {} /\ Gaps(q)' = {}
                       /\ Distances(q)' = {} /\ Sizes(q)' = {}
  BY <1>1 DEF Pairs, Gaps, Distances, Sizes
<1>3. TypeOK'
  <2>1. NoStats \in StatsType
    BY DEF NoStats, StatsType, None
  <2>2. NoGlobalStats \in [total_reqnb : Nat, reads : Nat, writes : Nat,
                           avg_time_between_requests : Int, avg_request_size : Int]
    BY DEF NoGlobalStats, None
  <2> QED BY <1>1, <2>1, <2>2, StatisticsAssumption DEF TypeOK
<1>4. Past'
  <2>1. \A q \in Queues : DOMAIN received'[q] = {}
    BY <1>1
  <2> QED BY <1>1, <2>1 DEF Past
<1>5. LastReceived' /\ Counted'
  BY <1>1 DEF LastReceived, Counted, NoStats
<1>6. BestAggregation'
  BY <1>1 DEF BestAggregation, Summarises, NoStats, None, TypeOK
<1> QED BY <1>1, <1>2, <1>3, <1>4, <1>5, <1>6
        DEF LocalAverages, LocalBandwidth, Summarises, NoStats

-----------------------------------------------------------------------------
(* The reception of a request.                                             *)

\* The statistics of its queue after the n-th request since the reset.
Updated(new, s, r, previous) ==
  LET n == s.receivedreq_nb + 1
  IN /\ new \in StatsType
     /\ new.receivedreq_nb = n
     /\ new.releasedreq_nb = s.releasedreq_nb
     /\ new.processed_bandwidth = s.processed_bandwidth
     /\ new.aggs_no = s.aggs_no /\ new.avg_agg_size = s.avg_agg_size
     /\ new.avg_req_size = update_iterative_average(s.avg_req_size, len[r], n)
     /\ n = 1 => /\ new.avg_time_between_requests = s.avg_time_between_requests
                 /\ new.avg_distance = s.avg_distance
     /\ n # 1 => /\ new.avg_time_between_requests =
                      update_iterative_average(s.avg_time_between_requests,
                                               arrival_time[r] - previous.time, n - 1)
                 /\ new.avg_distance =
                      update_iterative_average(s.avg_distance,
                                               Distance(r, previous.finaloffset), n - 1)

\* statistics_newreq counts the request, then update_local_stats averages.
LEMMA LocalUpdate ==
  ASSUME NEW s \in StatsType, NEW r \in Reqs, NEW previous \in LastType,
         arrival_time[r] \in Nat
  PROVE  Updated(update_local_stats([s EXCEPT !.receivedreq_nb = @ + 1], r, previous),
                 s, r, previous)
<1> DEFINE n == s.receivedreq_nb + 1
           counted == [s EXCEPT !.receivedreq_nb = @ + 1]
           gap == arrival_time[r] - previous.time
           distance == Distance(r, previous.finaloffset)
           time == IF n > 1
                   THEN update_iterative_average(s.avg_time_between_requests, gap, n - 1)
                   ELSE s.avg_time_between_requests
           far == IF n > 1 THEN update_iterative_average(s.avg_distance, distance, n - 1)
                  ELSE s.avg_distance
           size == update_iterative_average(s.avg_req_size, len[r], n)
<1>1. /\ n \in Nat \ {0} /\ gap \in Int /\ distance \in Nat /\ len[r] \in Nat
      /\ s.avg_time_between_requests \in Int
      /\ s.avg_distance \in Nat \cup {None} /\ s.avg_req_size \in Nat \cup {None}
  BY StatisticsAssumption DEF StatsType, LastType, Distance
<1>2. /\ counted \in StatsType /\ counted.receivedreq_nb = n
      /\ counted.releasedreq_nb = s.releasedreq_nb
      /\ counted.processed_bandwidth = s.processed_bandwidth
      /\ counted.aggs_no = s.aggs_no /\ counted.avg_agg_size = s.avg_agg_size
      /\ counted.avg_time_between_requests = s.avg_time_between_requests
      /\ counted.avg_distance = s.avg_distance
      /\ counted.avg_req_size = s.avg_req_size
  BY DEF StatsType
<1> HIDE DEF counted, gap, distance
<1>3. time \in Int /\ far \in Nat \cup {None} /\ size \in Nat \cup {None}
  <2>1. size \in Nat \cup {None}
    BY <1>1, AverageType
  <2>2. CASE n > 1
    <3>1. n - 1 \in Nat \ {0}
      BY <1>1, <2>2
    <3>2. update_iterative_average(s.avg_time_between_requests, gap, n - 1) \in Int
      BY <1>1, <3>1, AverageInteger
    <3>3. update_iterative_average(s.avg_distance, distance, n - 1) \in Nat \cup {None}
      BY <1>1, <3>1, AverageType
    <3> QED BY <2>1, <2>2, <3>2, <3>3
  <2>3. CASE ~ (n > 1)
    BY <1>1, <2>1, <2>3
  <2> QED BY <2>2, <2>3
<1>4. update_local_stats(counted, r, previous) =
        [counted EXCEPT !.avg_time_between_requests = time, !.avg_distance = far,
                        !.avg_req_size = size]
  BY <1>2 DEF update_local_stats, Differences, gap, distance
<1>5. /\ n = 1 => time = s.avg_time_between_requests /\ far = s.avg_distance
      /\ n # 1 =>
           /\ time = update_iterative_average(s.avg_time_between_requests, gap, n - 1)
           /\ far = update_iterative_average(s.avg_distance, distance, n - 1)
  BY <1>1
<1> HIDE DEF time, far, size
<1> DEFINE new == update_local_stats(counted, r, previous)
<1>6. /\ new \in StatsType
      /\ new.receivedreq_nb = n
      /\ new.releasedreq_nb = s.releasedreq_nb
      /\ new.processed_bandwidth = s.processed_bandwidth
      /\ new.aggs_no = s.aggs_no /\ new.avg_agg_size = s.avg_agg_size
      /\ new.avg_req_size = size
      /\ new.avg_time_between_requests = time /\ new.avg_distance = far
  BY <1>2, <1>3, <1>4 DEF StatsType
<1> HIDE DEF new
<1>7. Updated(new, s, r, previous)
  BY <1>5, <1>6 DEF Updated, gap, distance, size
<1> QED BY <1>7 DEF new, counted

\* Consecutive members of a sequence.
Consecutive(s) == {<<s[i], s[i + 1]>> : i \in 1 .. Len(s) - 1}

\* One more request makes one more pair, unless it is the first.
LEMMA ConsecutiveAppend ==
  ASSUME NEW S, NEW s \in Seq(S), NEW e \in S
  PROVE  /\ Append(s, e) \in Seq(S) /\ Len(Append(s, e)) = Len(s) + 1
         /\ Append(s, e)[Len(s) + 1] = e
         /\ \A i \in 1 .. Len(s) : Append(s, e)[i] = s[i]
         /\ Len(s) = 0 => Consecutive(s) = {} /\ Consecutive(Append(s, e)) = {}
         /\ Len(s) # 0 => Consecutive(Append(s, e)) = Consecutive(s) \cup {<<s[Len(s)], e>>}
         /\ Len(s) # 0 /\ Consecutive(s) = {} => Len(s) = 1
<1> DEFINE a == Append(s, e)
<1>1. /\ a \in Seq(S) /\ Len(a) = Len(s) + 1 /\ a[Len(s) + 1] = e
      /\ \A i \in 1 .. Len(s) : a[i] = s[i]
  OBVIOUS
<1>2. Len(s) \in Nat
  OBVIOUS
<1> HIDE DEF a
<1>3. Len(s) = 0 => Consecutive(s) = {} /\ Consecutive(a) = {}
  BY <1>1, <1>2 DEF Consecutive
<1>4. ASSUME Len(s) # 0
      PROVE  Consecutive(a) = Consecutive(s) \cup {<<s[Len(s)], e>>}
  <2>1. \A i \in 1 .. Len(s) - 1 : <<a[i], a[i + 1]>> = <<s[i], s[i + 1]>>
    BY <1>1, <1>2
  <2>2. <<a[Len(s)], a[Len(s) + 1]>> = <<s[Len(s)], e>>
    BY <1>1, <1>2, <1>4
  <2>3. Consecutive(a) = {<<a[i], a[i + 1]>> : i \in 1 .. Len(s)}
    BY <1>1, <1>2 DEF Consecutive
  <2>4. ASSUME NEW x \in Consecutive(a)
        PROVE  x \in Consecutive(s) \cup {<<s[Len(s)], e>>}
    <3>1. PICK i \in 1 .. Len(s) : x = <<a[i], a[i + 1]>>
      BY <2>3
    <3>2. CASE i = Len(s)
      BY <2>2, <3>1, <3>2
    <3>3. CASE i # Len(s)
      <4>1. i \in 1 .. Len(s) - 1
        BY <1>2, <3>3
      <4> QED BY <2>1, <3>1, <4>1 DEF Consecutive
    <3> QED BY <3>2, <3>3
  <2>5. ASSUME NEW x \in Consecutive(s) \cup {<<s[Len(s)], e>>}
        PROVE  x \in Consecutive(a)
    <3>1. CASE x = <<s[Len(s)], e>>
      <4>1. Len(s) \in 1 .. Len(s)
        BY <1>2, <1>4
      <4> QED BY <2>2, <2>3, <3>1, <4>1
    <3>2. CASE x \in Consecutive(s)
      <4>1. PICK i \in 1 .. Len(s) - 1 : x = <<s[i], s[i + 1]>>
        BY <3>2 DEF Consecutive
      <4>2. i \in 1 .. Len(s)
        BY <1>2
      <4> QED BY <2>1, <2>3, <4>1, <4>2
    <3> QED BY <3>1, <3>2
  <2> QED BY <2>4, <2>5
<1>5. ASSUME Len(s) # 0, Consecutive(s) = {} PROVE Len(s) = 1
  <2>1. ASSUME Len(s) > 1 PROVE FALSE
    <3>1. 1 \in 1 .. Len(s) - 1
      BY <1>2, <2>1
    <3>2. <<s[1], s[1 + 1]>> \in Consecutive(s)
      BY <3>1 DEF Consecutive
    <3> QED BY <1>5, <3>2
  <2> DEFINE n == Len(s)
  <2>2. n \in Nat /\ n # 0 /\ ~ (n > 1)
    BY <1>2, <1>5, <2>1
  <2> HIDE DEF n
  <2>3. n = 1
    BY <2>2
  <2> QED BY <2>3 DEF n
<1> QED BY <1>1, <1>3, <1>4, <1>5 DEF a

\* A reception changes the averages of the queue of the request, by what it is
\* compared with: the last request the queue received.
LEMMA ReceiveAverages ==
  ASSUME IInv, NEW r \in Reqs, NEW q \in Queues, q = queue[r],
         UNCHANGED arrival_time,
         received' = [received EXCEPT ![q] = Append(@, r)],
         \A p \in Queues \ {q} : SameLocal(stats'[p], stats[p]),
         Updated(stats'[q], stats[q], r, last[q])
  PROVE  LocalAverages'
<1> USE DEF IInv
<1> DEFINE s == received[q]
           n == stats[q].receivedreq_nb + 1
           m == n - 1
           end == s[Len(s)]
           gap == arrival_time[r] - last[q].time
           distance == Distance(r, last[q].finaloffset)
<1>1. /\ s \in Seq(Reqs) /\ received'[q] = Append(s, r) /\ n = Len(s) + 1 /\ Len(s) \in Nat
      /\ \A p \in Queues \ {q} : received'[p] = received[p]
      /\ s # <<>> => last[q].time = arrival_time[end]
                     /\ last[q].finaloffset = offset[end] + len[end]
  BY DEF LastReceived
<1>2. \A p \in Queues : Pairs(p) = Consecutive(received[p])
                       /\ Pairs(p)' = Consecutive(received'[p])
  BY DEF Pairs, Consecutive
<1>3. /\ Len(Append(s, r)) = Len(s) + 1 /\ Append(s, r)[Len(s) + 1] = r
      /\ \A i \in 1 .. Len(s) : Append(s, r)[i] = s[i]
      /\ Len(s) = 0 => Pairs(q) = {} /\ Pairs(q)' = {}
      /\ Len(s) # 0 => Pairs(q)' = Pairs(q) \cup {<<end, r>>}
      /\ Len(s) # 0 /\ Pairs(q) = {} => Len(s) = 1
  BY <1>1, <1>2, ConsecutiveAppend
<1>4. /\ arrival_time[r] \in Nat /\ gap \in Int /\ distance \in Int /\ len[r] \in Int
      /\ \A a \in Reqs : arrival_time[a] \in Nat /\ offset[a] \in Nat /\ len[a] \in Nat
      /\ last[q].time \in Nat /\ last[q].finaloffset \in Nat
  BY StatisticsAssumption DEF TypeOK, Distance
<1>5. Len(s) # 0 => s # <<>>
  BY <1>1
<1> HIDE DEF gap, distance
<1>6. Summarises(stats'[q].avg_req_size, Sizes(q)')
  <2>1. Sizes(q)' = Sizes(q) \cup {len[r]}
    <3>1. DOMAIN Append(s, r) = DOMAIN s \cup {Len(s) + 1} /\ DOMAIN s = 1 .. Len(s)
      BY <1>1
    <3> QED BY <1>1, <1>3, <3>1 DEF Sizes
  <2>2. Sizes(q) \subseteq Int
    BY <1>1, <1>4 DEF Sizes
  <2>3. Sizes(q) = {} => n = 1
    <3>1. Len(s) # 0 => 1 \in DOMAIN s
      BY <1>1
    <3>2. Len(s) # 0 => Sizes(q) # {}
      BY <3>1 DEF Sizes
    <3> QED BY <1>1, <3>2
  <2>4. Summarises(stats[q].avg_req_size, Sizes(q)) /\ stats[q].avg_req_size \in Int
    BY DEF LocalAverages, TypeOK, StatsType, None
  <2>5. n \in Nat \ {0}
    BY <1>1
  <2>6. stats'[q].avg_req_size = update_iterative_average(stats[q].avg_req_size, len[r], n)
    BY DEF Updated
  <2> QED BY <1>4, <2>1, <2>2, <2>3, <2>4, <2>5, <2>6, SummarisesMore
<1>7. \A p \in Pairs(q) : p[1] \in Reqs /\ p[2] \in Reqs
  BY <1>1 DEF Pairs
<1>8. Gaps(q) \subseteq Int /\ Distances(q) \subseteq Int
  BY <1>4, <1>7 DEF Gaps, Distances, Distance
<1>9. /\ Summarises(stats[q].avg_time_between_requests, Gaps(q))
      /\ Summarises(stats[q].avg_distance, Distances(q))
      /\ stats[q].avg_time_between_requests \in Int /\ stats[q].avg_distance \in Int
  BY DEF LocalAverages, TypeOK, StatsType, None
<1>10. ASSUME Len(s) = 0
      PROVE  /\ Summarises(stats'[q].avg_time_between_requests, Gaps(q)')
             /\ Summarises(stats'[q].avg_distance, Distances(q)')
  <2>1. /\ Gaps(q) = {} /\ Gaps(q)' = {}
        /\ Distances(q) = {} /\ Distances(q)' = {}
    BY <1>3, <1>10 DEF Gaps, Distances
  <2>2. /\ stats'[q].avg_time_between_requests = stats[q].avg_time_between_requests
        /\ stats'[q].avg_distance = stats[q].avg_distance
    BY <1>1, <1>10 DEF Updated
  <2> QED BY <1>9, <2>1, <2>2
<1>11. ASSUME Len(s) # 0
      PROVE  /\ Summarises(stats'[q].avg_time_between_requests, Gaps(q)')
             /\ Summarises(stats'[q].avg_distance, Distances(q)')
  <2>0. /\ \A p \in Pairs(q) : p \in Pairs(q)'
        /\ <<end, r>> \in Pairs(q)'
        /\ \A p \in Pairs(q)' : p \in Pairs(q) \/ p = <<end, r>>
    BY <1>3, <1>11
  <2>1. Gaps(q)' = Gaps(q) \cup {gap}
    <3>1. gap = arrival_time[r] - arrival_time[end]
      BY <1>1, <1>5, <1>11 DEF gap
    <3>2. ASSUME NEW x \in Gaps(q)' PROVE x \in Gaps(q) \cup {gap}
      BY <2>0, <3>1 DEF Gaps
    <3>3. ASSUME NEW x \in Gaps(q) \cup {gap} PROVE x \in Gaps(q)'
      <4>1. CASE x \in Gaps(q)
        BY <2>0, <4>1 DEF Gaps
      <4>2. CASE x = gap
        <5>1. gap = arrival_time[<<end, r>>[2]] - arrival_time[<<end, r>>[1]]
          BY <3>1
        <5> QED BY <2>0, <4>2, <5>1 DEF Gaps
      <4> QED BY <4>1, <4>2
    <3> QED BY <3>2, <3>3
  <2>2. Distances(q)' = Distances(q) \cup {distance}
    <3>1. distance = Distance(r, offset[end] + len[end])
      BY <1>1, <1>5, <1>11 DEF distance
    <3>2. ASSUME NEW x \in Distances(q)' PROVE x \in Distances(q) \cup {distance}
      BY <2>0, <3>1 DEF Distances
    <3>3. ASSUME NEW x \in Distances(q) \cup {distance} PROVE x \in Distances(q)'
      <4>1. CASE x \in Distances(q)
        BY <2>0, <4>1 DEF Distances
      <4>2. CASE x = distance
        <5>1. distance = Distance(<<end, r>>[2], offset[<<end, r>>[1]] + len[<<end, r>>[1]])
          BY <3>1
        <5> QED BY <2>0, <4>2, <5>1 DEF Distances
      <4> QED BY <4>1, <4>2
    <3> QED BY <3>2, <3>3
  <2>3. (Gaps(q) = {} \/ Distances(q) = {}) => m = 1
    <3>1. Gaps(q) = {} \/ Distances(q) = {} => Pairs(q) = {}
      BY DEF Gaps, Distances
    <3> QED BY <1>1, <1>3, <1>11, <3>1
  <2>4. m \in Nat \ {0} /\ n # 1
    BY <1>1, <1>11
  <2>5. /\ stats'[q].avg_time_between_requests =
             update_iterative_average(stats[q].avg_time_between_requests, gap, m)
        /\ stats'[q].avg_distance =
             update_iterative_average(stats[q].avg_distance, distance, m)
    BY <2>4 DEF Updated, gap, distance
  <2> HIDE DEF m, n
  <2>6. Summarises(stats'[q].avg_time_between_requests, Gaps(q)')
    BY <1>4, <1>8, <1>9, <2>1, <2>3, <2>4, <2>5, SummarisesMore
  <2>7. Summarises(stats'[q].avg_distance, Distances(q)')
    BY SMTT(60), <1>4, <1>8, <1>9, <2>2, <2>3, <2>4, <2>5, SummarisesMore
  <2> QED BY <2>6, <2>7
<1>12. /\ Summarises(stats'[q].avg_req_size, Sizes(q)')
       /\ Summarises(stats'[q].avg_time_between_requests, Gaps(q)')
       /\ Summarises(stats'[q].avg_distance, Distances(q)')
  BY <1>6, <1>10, <1>11
<1>13. ASSUME NEW p \in Queues, p # q
       PROVE  /\ Summarises(stats'[p].avg_req_size, Sizes(p)')
              /\ Summarises(stats'[p].avg_time_between_requests, Gaps(p)')
              /\ Summarises(stats'[p].avg_distance, Distances(p)')
  <2>1. SameLocal(stats'[p], stats[p]) /\ received'[p] = received[p]
    BY <1>1, <1>13
  <2>2. Pairs(p)' = Pairs(p) /\ Sizes(p)' = Sizes(p)
    BY <2>1 DEF Pairs, Sizes
  <2>3. Gaps(p)' = Gaps(p) /\ Distances(p)' = Distances(p)
    BY <2>2 DEF Gaps, Distances
  <2> QED BY <2>1, <2>2, <2>3 DEF SameLocal, LocalAverages
<1> QED BY <1>12, <1>13 DEF LocalAverages

\* A reception keeps the types of the global statistics.
LEMMA GlobalUpdate ==
  ASSUME TypeOK, NEW r \in Reqs
  PROVE  update_global_stats_newreq(global_stats, r)
           \in [total_reqnb : Nat, reads : Nat, writes : Nat,
                avg_time_between_requests : Int, avg_request_size : Int]
<1> DEFINE n == global_stats.total_reqnb + 1
           gap == arrival_time[r] - last_req
<1>1. /\ n \in Nat \ {0} /\ gap \in Int /\ len[r] \in Int
      /\ global_stats.reads \in Nat /\ global_stats.writes \in Nat
      /\ global_stats.avg_time_between_requests \in Int /\ global_stats.avg_request_size \in Int
  BY StatisticsAssumption DEF TypeOK
<1>2. update_iterative_average(global_stats.avg_request_size, len[r], n) \in Int
  BY <1>1, AverageInteger
<1> DEFINE m == n - 1
<1>3. n > 1 => update_iterative_average(global_stats.avg_time_between_requests, gap, m) \in Int
  <2>1. n > 1 => m \in Nat \ {0}
    BY <1>1
  <2> HIDE DEF m, n
  <2> QED BY <1>1, <2>1, AverageInteger
<1> QED BY <1>1, <1>2, <1>3 DEF update_global_stats_newreq

\* statistics_newreq keeps everything that is known of the queues.
LEMMA ReceiveIInv ==
  ASSUME IInv, NEW r \in Reqs, statistics_newreq(r)
  PROVE  IInv'
<1> USE DEF IInv
<1> DEFINE q == queue[r]
           counted == [stats[q] EXCEPT !.receivedreq_nb = @ + 1]
           new == update_local_stats(counted, r, last[q])
<1>1. /\ status[r] = "called" /\ status' = [status EXCEPT ![r] = "queued"]
      /\ global_stats' = update_global_stats_newreq(global_stats, r)
      /\ last_req' = arrival_time[r]
      /\ stats' = [stats EXCEPT ![q] = new]
      /\ last' = [last EXCEPT ![q].time = arrival_time[r],
                              ![q].finaloffset = offset[r] + len[r]]
      /\ received' = [received EXCEPT ![q] = Append(@, r)]
      /\ UNCHANGED <<now, arrival_time, bandwidths, aggregations, resets>>
  BY DEF statistics_newreq
<1>2. /\ q \in Queues /\ stats \in [Queues -> StatsType] /\ last \in [Queues -> LastType]
      /\ stats[q] \in StatsType /\ last[q] \in LastType /\ arrival_time[r] \in Nat
      /\ received \in [Queues -> Seq(Reqs)]
  BY StatisticsAssumption DEF TypeOK, LastType, LastReceived
<1>3. Updated(new, stats[q], r, last[q])
  BY <1>2, LocalUpdate
<1> HIDE DEF q, new
<1>4. /\ Updated(stats'[q], stats[q], r, last[q])
      /\ stats' \in [Queues -> StatsType]
      /\ \A p \in Queues \ {q} : stats'[p] = stats[p]
  BY <1>1, <1>2, <1>3 DEF Updated
<1>5. LocalAverages'
  BY <1>1, <1>2, <1>4, ReceiveAverages DEF q, SameLocal
<1>6. /\ last' \in [Queues -> LastType]
      /\ last'[q].time = arrival_time[r] /\ last'[q].finaloffset = offset[r] + len[r]
      /\ \A p \in Queues : last'[p].best_agg = last[p].best_agg
      /\ \A p \in Queues \ {q} : last'[p] = last[p]
  <2>1. offset[r] + len[r] \in Nat
    BY StatisticsAssumption
  <2> QED BY <1>1, <1>2, <2>1 DEF LastType
<1>7. TypeOK'
  BY <1>1, <1>2, <1>4, <1>6, GlobalUpdate DEF TypeOK, LastType
<1>8. /\ received' \in [Queues -> Seq(Reqs)]
      /\ Len(received'[q]) = Len(received[q]) + 1 /\ received'[q][Len(received'[q])] = r
      /\ \A i \in DOMAIN received'[q] :
           \/ received'[q][i] = r
           \/ i \in DOMAIN received[q] /\ received'[q][i] = received[q][i]
      /\ \A p \in Queues \ {q} : received'[p] = received[p]
  <2>1. received[q] \in Seq(Reqs)
    BY <1>2
  <2>2. /\ Append(received[q], r) \in Seq(Reqs)
        /\ Len(Append(received[q], r)) = Len(received[q]) + 1
        /\ Append(received[q], r)[Len(received[q]) + 1] = r
        /\ \A i \in 1 .. Len(received[q]) : Append(received[q], r)[i] = received[q][i]
    BY <2>1, ConsecutiveAppend
  <2>3. /\ DOMAIN received[q] = 1 .. Len(received[q]) /\ Len(received[q]) \in Nat
        /\ DOMAIN Append(received[q], r) = 1 .. Len(received[q]) + 1
    BY <2>1, <2>2
  <2>4. /\ received' \in [Queues -> Seq(Reqs)] /\ received'[q] = Append(received[q], r)
        /\ \A p \in Queues \ {q} : received'[p] = received[p]
    BY <1>1, <1>2, <2>2
  <2>5. \A i \in DOMAIN received'[q] :
          i = Len(received[q]) + 1 \/ i \in DOMAIN received[q]
    BY <2>3, <2>4
  <2>6. /\ Len(received'[q]) = Len(received[q]) + 1
        /\ received'[q][Len(received'[q])] = r
    BY <2>2, <2>4
  <2>7. ASSUME NEW i \in DOMAIN received'[q]
        PROVE  \/ received'[q][i] = r
               \/ i \in DOMAIN received[q] /\ received'[q][i] = received[q][i]
    <3>1. CASE i = Len(received[q]) + 1
      BY <2>2, <2>4, <3>1
    <3>2. CASE i \in DOMAIN received[q]
      BY <2>2, <2>3, <2>4, <3>2
    <3> QED BY <2>5, <3>1, <3>2
  <2> QED BY <2>4, <2>6, <2>7
<1>9. Past'
  <2>1. {a \in Reqs : status'[a] # "out"} = {a \in Reqs : status[a] # "out"}
    BY <1>1 DEF TypeOK
  <2>2. /\ status'[r] # "out"
        /\ \A a \in Reqs : status[a] # "out" => status'[a] # "out"
    BY <1>1 DEF TypeOK
  <2>3. \A p \in Queues : \A i \in DOMAIN received[p] :
          received[p][i] \in Reqs /\ status[received[p][i]] # "out"
    BY <1>2 DEF Past
  <2>4. ASSUME NEW p \in Queues, NEW i \in DOMAIN received'[p]
        PROVE  status'[received'[p][i]] # "out"
    <3>1. CASE p # q
      <4>1. received'[p] = received[p]
        BY <1>8, <3>1
      <4> QED BY <4>1, <2>2, <2>3
    <3>2. CASE p = q /\ received'[q][i] = r
      BY <2>2, <3>2
    <3>3. CASE p = q /\ i \in DOMAIN received[q] /\ received'[q][i] = received[q][i]
      BY <1>2, <2>2, <2>3, <3>3
    <3> QED BY <1>8, <3>1, <3>2, <3>3
  <2>5. IsFiniteSet({a \in Reqs : status'[a] # "out"})
    BY <2>1, <1>2 DEF Past
  <2>6. \A a \in Reqs : arrival_time'[a] < now'
    BY <1>1 DEF Past
  <2> QED BY <2>4, <2>5, <2>6 DEF Past
<1>10. LastReceived'
  <2> SUFFICES ASSUME NEW p \in Queues
               PROVE  /\ Len(received'[p]) = stats'[p].receivedreq_nb
                      /\ received'[p] # <<>> =>
                           LET e == received'[p][Len(received'[p])] IN
                           /\ last'[p].time = arrival_time'[e]
                           /\ last'[p].finaloffset = offset[e] + len[e]
    BY <1>8 DEF LastReceived
  <2>1. CASE p = q
    BY <1>1, <1>2, <1>4, <1>6, <1>8, <2>1 DEF LastReceived, Updated
  <2>2. CASE p # q
    BY <1>1, <1>4, <1>6, <1>8, <2>2 DEF LastReceived
  <2> QED BY <2>1, <2>2
<1>11. \A p \in Queues : /\ stats'[p].releasedreq_nb = stats[p].releasedreq_nb
                        /\ stats'[p].processed_bandwidth = stats[p].processed_bandwidth
                        /\ stats'[p].aggs_no = stats[p].aggs_no
                        /\ stats'[p].avg_agg_size = stats[p].avg_agg_size
  BY <1>2, <1>4 DEF Updated
<1>12. Counted' /\ LocalBandwidth' /\ BestAggregation'
  BY <1>1, <1>6, <1>11 DEF Counted, LocalBandwidth, BestAggregation
<1> QED BY <1>5, <1>7, <1>9, <1>10, <1>12

-----------------------------------------------------------------------------
(* The counters of the library.                                            *)

\* Sums over the queues are over finite sets of natural numbers.
LEMMA ReceivedIn ==
  ASSUME TypeOK, NEW S \in SUBSET Queues
  PROVE  /\ IsFiniteSet(S)
         /\ \A q \in S : [p \in Queues |-> stats[p].receivedreq_nb][q] = stats[q].receivedreq_nb
         /\ \A q \in S : stats[q].receivedreq_nb \in Nat
         /\ Received(S) \in Nat
<1>1. IsFiniteSet(S)
  BY StatisticsAssumption, FS_Subset
<1>2. \A q \in S : stats[q].receivedreq_nb \in Nat
  BY DEF TypeOK, StatsType
<1>3. \A q \in S : [p \in Queues |-> stats[p].receivedreq_nb][q] = stats[q].receivedreq_nb
  OBVIOUS
<1>4. Received(S) \in Nat
  BY <1>1, <1>2, <1>3, SumType DEF Received, Total
<1> QED BY <1>1, <1>2, <1>3, <1>4

\* A step that leaves the counters of the queues in S alone leaves their sum alone.
LEMMA ReceivedSame ==
  ASSUME TypeOK, NEW S \in SUBSET Queues,
         \A q \in S : stats'[q].receivedreq_nb = stats[q].receivedreq_nb
  PROVE  Received(S)' = Received(S)
<1> DEFINE f == [q \in Queues |-> stats[q].receivedreq_nb]
           g == [q \in Queues |-> stats'[q].receivedreq_nb]
<1>1. IsFiniteSet(S)
  BY ReceivedIn
<1>3. \A q \in S : f[q] = g[q]
  BY <1>1
<1>2. Received(S) = Total(f, S) /\ Received(S)' = Total(g, S)
  BY DEF Received, Total
<1> HIDE DEF f, g
<1> QED BY <1>1, <1>2, <1>3, SumSame

\* A step that counts one more request of a queue of S adds one to the sum.
LEMMA ReceivedOneMore ==
  ASSUME TypeOK, NEW S \in SUBSET Queues, NEW q \in S,
         stats'[q].receivedreq_nb = stats[q].receivedreq_nb + 1,
         \A p \in Queues \ {q} : stats'[p] = stats[p]
  PROVE  Received(S)' = Received(S) + 1
<1> DEFINE f == [p \in Queues |-> stats[p].receivedreq_nb]
           g == [p \in Queues |-> stats'[p].receivedreq_nb]
<1>0. IsFiniteSet(S) /\ \A p \in S : stats[p].receivedreq_nb \in Nat
  BY ReceivedIn
<1>1. /\ IsFiniteSet(S) /\ \A p \in S : f[p] \in Int
      /\ g[q] = f[q] + 1 /\ \A p \in S \ {q} : g[p] = f[p]
  BY <1>0
<1>2. Received(S) = Total(f, S) /\ Received(S)' = Total(g, S) /\ Received(S) \in Nat
  BY ReceivedIn DEF Received, Total
<1> HIDE DEF f, g
<1>3. f[q] \in Int /\ g[q] \in Int
  BY <1>1
<1>4. Total(g, S) = Total(f, S) - f[q] + g[q]
  BY <1>1, <1>3, SumUpdate
<1> QED BY <1>1, <1>2, <1>3, <1>4

\* Before any request, and after a reset, there is nothing to add up.
LEMMA ReceivedNothing ==
  ASSUME NEW S \in SUBSET Queues, NEW V, V = [q \in Queues |-> NoStats]
  PROVE  SumFunctionOnSet([q \in Queues |-> V[q].receivedreq_nb], S) = 0
<1> DEFINE f == [q \in Queues |-> V[q].receivedreq_nb]
<1>1. IsFiniteSet(S) /\ \A q \in S : f[q] = 0
  BY StatisticsAssumption, FS_Subset DEF NoStats
<1> HIDE DEF f
<1>2. Total(f, S) = 0
  BY <1>1, SumZero
<1> QED BY <1>2 DEF Total, f

\* The library counts what the queues count: every reception in both places, every reset
\* of both.
LEMMA GlobalKept ==
  ASSUME IInv, GlobalAgrees, [Next]_vars
  PROVE  GlobalAgrees'
<1>0. ReadQueues \in SUBSET Queues /\ Queues \ ReadQueues \in SUBSET Queues /\ TypeOK
  BY StatisticsAssumption DEF IInv
<1>1. ASSUME NEW r \in Reqs, statistics_newreq(r) PROVE GlobalAgrees'
  <2> DEFINE q == queue[r]
             new == update_local_stats([stats[q] EXCEPT !.receivedreq_nb = @ + 1], r, last[q])
             reads == q \in ReadQueues
  <2>1. /\ global_stats' = update_global_stats_newreq(global_stats, r)
        /\ stats' = [stats EXCEPT ![q] = new]
    BY <1>1 DEF statistics_newreq
  <2>2. /\ q \in Queues /\ stats \in [Queues -> StatsType] /\ stats[q] \in StatsType
        /\ last[q] \in LastType /\ arrival_time[r] \in Nat
    BY <1>0, StatisticsAssumption DEF TypeOK, LastType
  <2>3. new.receivedreq_nb = stats[q].receivedreq_nb + 1
    BY <2>2, LocalUpdate DEF Updated
  <2>4. /\ global_stats'.total_reqnb = global_stats.total_reqnb + 1
        /\ global_stats'.reads = global_stats.reads + IF reads THEN 1 ELSE 0
        /\ global_stats'.writes = global_stats.writes + IF reads THEN 0 ELSE 1
        /\ global_stats.reads \in Nat /\ global_stats.writes \in Nat
    BY <1>0, <2>1 DEF update_global_stats_newreq, TypeOK
  <2> HIDE DEF new
  <2>5. /\ stats'[q].receivedreq_nb = stats[q].receivedreq_nb + 1
        /\ \A p \in Queues \ {q} : stats'[p] = stats[p]
    BY <2>1, <2>2, <2>3
  <2> HIDE DEF q
  <2>6. CASE reads
    <3>1. Received(ReadQueues)' = Received(ReadQueues) + 1
      BY <1>0, <2>5, <2>6, ReceivedOneMore
    <3>2. Received(Queues \ ReadQueues)' = Received(Queues \ ReadQueues)
      BY <1>0, <2>5, <2>6, ReceivedSame
    <3> QED BY <2>4, <2>6, <3>1, <3>2 DEF GlobalAgrees
  <2>7. CASE ~ reads
    <3>1. Received(ReadQueues)' = Received(ReadQueues)
      BY <1>0, <2>5, <2>7, ReceivedSame
    <3>2. q \in Queues \ ReadQueues
      BY <2>2, <2>7
    <3>3. Received(Queues \ ReadQueues)' = Received(Queues \ ReadQueues) + 1
      BY <1>0, <2>5, <3>2, ReceivedOneMore
    <3> QED BY <2>4, <2>7, <3>1, <3>3 DEF GlobalAgrees
  <2> QED BY <2>6, <2>7
<1>2. CASE reset_all_statistics
  <2>1. stats' = [q \in Queues |-> NoStats] /\ global_stats' = NoGlobalStats
    BY <1>2 DEF reset_all_statistics, ResetQueues
  <2>2. Received(ReadQueues)' = 0 /\ Received(Queues \ ReadQueues)' = 0
    BY <1>0, <2>1, ReceivedNothing DEF Received
  <2> QED BY <2>1, <2>2 DEF GlobalAgrees, NoGlobalStats
<1>3. ASSUME UNCHANGED global_stats,
             \A q \in Queues : stats'[q].receivedreq_nb = stats[q].receivedreq_nb
      PROVE  GlobalAgrees'
  BY <1>0, <1>3, ReceivedSame DEF GlobalAgrees
<1>4. ASSUME NEW r \in Reqs, CallAdd(r) \/ agios_release_request(r) PROVE GlobalAgrees'
  <2>1. UNCHANGED global_stats
    BY <1>4 DEF CallAdd, agios_release_request
  <2>2. \A q \in Queues : stats'[q].receivedreq_nb = stats[q].receivedreq_nb
    <3>1. CASE CallAdd(r)
      BY <3>1 DEF CallAdd
    <3>2. CASE agios_release_request(r)
      <4> DEFINE q == queue[r]
                 avg == update_iterative_average(stats[q].processed_bandwidth,
                          len[r] \div (now - arrival_time[r]), Releases(stats[q]))
                 s == [stats[q] EXCEPT !.releasedreq_nb = @ + 1, !.processed_bandwidth = avg]
      <4>1. stats' = [stats EXCEPT ![q] = generic_cleanup(s, r)]
        BY <3>2 DEF agios_release_request
      <4> HIDE DEF avg
      <4>2. q \in Queues => generic_cleanup(s, r).receivedreq_nb = stats[q].receivedreq_nb
        BY <1>0 DEF generic_cleanup, TypeOK, StatsType
      <4> QED BY <1>0, <4>1, <4>2 DEF TypeOK
    <3> QED BY <1>4, <3>1, <3>2
  <2> QED BY <1>3, <2>1, <2>2
<1>5. ASSUME NEW q \in Queues, NEW batch \in SUBSET Reqs, generic_post_process(q, batch)
      PROVE  GlobalAgrees'
  <2>1. UNCHANGED global_stats
    BY <1>5 DEF generic_post_process
  <2>2. \A p \in Queues : stats'[p].receivedreq_nb = stats[p].receivedreq_nb
    <3>1. CASE UNCHANGED stats
      BY <3>1
    <3>2. CASE stats_aggregation(q, Cardinality(batch))
      BY <1>0, <3>2 DEF stats_aggregation, TypeOK, StatsType
    <3> QED BY <1>5, <3>1, <3>2 DEF generic_post_process
  <2> QED BY <1>3, <2>1, <2>2
<1>6. CASE UNCHANGED vars
  BY <1>3, <1>6 DEF vars
<1> QED BY <1>1, <1>2, <1>4, <1>5, <1>6 DEF Next

-----------------------------------------------------------------------------
(* The theorems.                                                           *)

\* IInv holds in every state.
LEMMA InductiveInvariant == Spec => []IInv
<1>1. Init => IInv
  BY InitIInv
<1>2. IInv /\ [Next]_vars => IInv'
  <2> SUFFICES ASSUME IInv, [Next]_vars PROVE IInv'
    OBVIOUS
  <2>1. CASE Next
    BY <2>1, CallIInv, ReceiveIInv, ReleaseIInv, PostProcessIInv, ResetIInv DEF Next
  <2>2. CASE UNCHANGED vars
    <3>1. LocalAverages'
      BY <2>2, SameAverages DEF IInv, SameLocal, vars, history
    <3> QED BY <2>2, <3>1 DEF vars, history, IInv, TypeOK, Past, LastReceived, Counted,
                              LocalBandwidth, BestAggregation
  <2> QED BY <2>1, <2>2
<1> QED BY <1>1, <1>2, PTL DEF Spec

\* The counters and averages keep their types: only gaps between requests, which
\* are received out of the order of their times, can be negative.
THEOREM TypeCorrect == Spec => []TypeOK
<1>1. IInv => TypeOK
  BY DEF IInv
<1> QED BY <1>1, InductiveInvariant, PTL

\* The averages of a queue, computed from the request before the last, summarise
\* exactly what it received since the last reset.
THEOREM AlwaysLocalAverages == Spec => []LocalAverages
<1>1. IInv => LocalAverages
  BY DEF IInv
<1> QED BY <1>1, InductiveInvariant, PTL

\* The bandwidth of a queue summarises the releases since the last reset, those
\* of requests received before it included.
THEOREM AlwaysLocalBandwidth == Spec => []LocalBandwidth
<1>1. IInv => LocalBandwidth
  BY DEF IInv
<1> QED BY <1>1, InductiveInvariant, PTL

\* However many aggregations and resets, best_agg is at least their average.
THEOREM AlwaysBestAggregation == Spec => []BestAggregation
<1>1. IInv => BestAggregation
  BY DEF IInv
<1> QED BY <1>1, InductiveInvariant, PTL

\* The global statistics count what the queues count, reads and writes, whatever is
\* received while they are reset.
THEOREM AlwaysGlobalAgrees == Spec => []GlobalAgrees
<1>1. Init => GlobalAgrees
  <2> SUFFICES ASSUME Init PROVE GlobalAgrees
    OBVIOUS
  <2>1. ReadQueues \in SUBSET Queues /\ Queues \ ReadQueues \in SUBSET Queues
    BY StatisticsAssumption
  <2>2. Received(ReadQueues) = 0 /\ Received(Queues \ ReadQueues) = 0
    BY <2>1, ReceivedNothing DEF Init, Received
  <2> QED BY <2>2 DEF Init, GlobalAgrees, NoGlobalStats
<1> QED BY <1>1, GlobalKept, InductiveInvariant, PTL DEF Spec
=============================================================================
