---------------------------- MODULE Performance ----------------------------
(***************************************************************************)
(* The performance module: one entry for each of the last periods in which *)
(* an algorithm was in force.  A release is accounted to the period that   *)
(* sent the request, which may be over, or forgotten, by then; the number  *)
(* of requests of the current one decides when the algorithm may change.   *)
(*                                                                         *)
(* The entries change inside sections that StructureLocks shows to exclude *)
(* each other, so each is one step.  No two readings of the clock agree.   *)
(***************************************************************************)
EXTENDS Averages, Sequences, FiniteSets, Functions

CONSTANTS Reqs,
          len,                 \* len[r]
          Algs,
          performance_values,  \* config_agios_performance_values
          MaxTime              \* bound: no new period starts after it

ASSUME PerformanceAssumption ==
  /\ len \in [Reqs -> Nat]
  /\ performance_values \in Nat \ {0}
  /\ MaxTime \in Nat

Never == 0   \* before any reading of the clock

VARIABLES now,
          performance_info,       \* the entries; current_performance_entry is the last
          performance_info_len,   \* how many there are
          agios_processed_reqnb,
          arrival_time, dispatch_timestamp,  \* of each request
          chosenBy,               \* history: timestamp of the period that sent r
          measured                \* history: the bandwidth of each released request

requests == <<arrival_time, dispatch_timestamp, chosenBy, measured>>
vars     == <<now, performance_info, performance_info_len, agios_processed_reqnb, requests>>

Entry(alg) == [timestamp |-> now, alg |-> alg, reqnb |-> 0, size |-> 0, bandwidth |-> 0]
Current    == performance_info[Len(performance_info)]
Released   == DOMAIN measured

\* The AGIOS thread makes the first entry before it lets requests in.
Init ==
  /\ now = 2
  /\ \E alg \in Algs :
       performance_info =
         <<[timestamp |-> 1, alg |-> alg, reqnb |-> 0, size |-> 0, bandwidth |-> 0]>>
  /\ performance_info_len = 1
  /\ agios_processed_reqnb = 0
  /\ arrival_time = [r \in Reqs |-> Never]
  /\ dispatch_timestamp = [r \in Reqs |-> Never]
  /\ chosenBy = [r \in Reqs |-> Never]
  /\ measured = <<>>

agios_add_request(r) ==
  /\ arrival_time[r] = Never
  /\ arrival_time' = [arrival_time EXCEPT ![r] = now]
  /\ now' = now + 1
  /\ UNCHANGED <<performance_info, performance_info_len, agios_processed_reqnb,
                 dispatch_timestamp, chosenBy, measured>>

put_this_request_in_dispatch(r) ==
  /\ arrival_time[r] # Never /\ dispatch_timestamp[r] = Never
  /\ dispatch_timestamp' = [dispatch_timestamp EXCEPT ![r] = now]
  /\ chosenBy' = [chosenBy EXCEPT ![r] = Current.timestamp]
  /\ now' = now + 1
  /\ UNCHANGED <<performance_info, performance_info_len, agios_processed_reqnb,
                 arrival_time, measured>>

\* Mutant: the first entry goes only when there are two too many.
TooMany_Two(length) == length > performance_values + 1

\* There is at most one too many, since there was none before.
TooMany(length) == length > performance_values

Trim(entries, length) == IF TooMany(length) THEN Tail(entries) ELSE entries

\* The new entry is the last; the oldest goes if there are too many.
AddEntry(alg) ==
  LET length == performance_info_len + 1
  IN /\ performance_info' = Trim(Append(performance_info, Entry(alg)), length)
     /\ performance_info_len' = IF TooMany(length) THEN length - 1 ELSE length
     /\ now' = now + 1

\* Mutant: the counter goes on from the period before.
performance_set_new_algorithm_Counts(alg) ==
  /\ now < MaxTime
  /\ AddEntry(alg)
  /\ UNCHANGED <<agios_processed_reqnb, requests>>

performance_set_new_algorithm(alg) ==
  /\ now < MaxTime
  /\ AddEntry(alg)
  /\ agios_processed_reqnb' = 0
  /\ UNCHANGED requests

\* Mutant: every request is accounted to the current period.
get_request_entry_Current(timestamp) == {Len(performance_info)}

\* The entry of the period a timestamp falls in: the last that is not younger.
get_request_entry(timestamp) ==
  {i \in DOMAIN performance_info :
     /\ performance_info[i].timestamp <= timestamp
     /\ \A j \in DOMAIN performance_info : j > i => performance_info[j].timestamp > timestamp}

Accounted(entry, bytes, bandwidth) ==
  [entry EXCEPT !.reqnb = @ + 1,
                !.size = @ + bytes,
                !.bandwidth = update_iterative_average(@, bandwidth, entry.reqnb + 1)]

this_bandwidth(r) == len[r] \div (now - arrival_time[r])

agios_release_request(r) ==
  LET found == get_request_entry(dispatch_timestamp[r])
  IN /\ dispatch_timestamp[r] # Never /\ r \notin Released
     /\ performance_info' =
          [i \in DOMAIN performance_info |->
             IF i \in found THEN Accounted(performance_info[i], len[r], this_bandwidth(r))
             ELSE performance_info[i]]
     /\ agios_processed_reqnb' =
          agios_processed_reqnb + IF Len(performance_info) \in found THEN 1 ELSE 0
     /\ measured' = [s \in Released \cup {r} |-> IF s = r THEN this_bandwidth(r) ELSE measured[s]]
     /\ now' = now + 1
     /\ UNCHANGED <<performance_info_len, arrival_time, dispatch_timestamp, chosenBy>>

Next ==
  \/ \E r \in Reqs : \/ agios_add_request(r)
                     \/ put_this_request_in_dispatch(r)
                     \/ agios_release_request(r)
  \/ \E alg \in Algs : performance_set_new_algorithm(alg)

Spec == Init /\ [][Next]_vars

-----------------------------------------------------------------------------
(* Properties.                                                             *)

EntryType == [timestamp : Nat, alg : Algs, reqnb : Nat, size : Nat, bandwidth : Nat]

TypeOK ==
  /\ now \in Nat
  /\ performance_info \in Seq(EntryType)
  /\ performance_info_len \in Nat /\ agios_processed_reqnb \in Nat
  /\ arrival_time \in [Reqs -> Nat] /\ dispatch_timestamp \in [Reqs -> Nat]
  /\ chosenBy \in [Reqs -> Nat]
  /\ Released \subseteq Reqs
  /\ measured \in [Released -> Nat]

SentBy(entry) == {r \in Released : chosenBy[r] = entry.timestamp}

\* An entry accounts for the released requests its period had sent, however late
\* they come back and however many periods were forgotten meanwhile.
RightCount ==
  \A i \in DOMAIN performance_info :
    performance_info[i].reqnb = Cardinality(SentBy(performance_info[i]))

RightSize ==
  \A i \in DOMAIN performance_info :
    performance_info[i].size = SumFunctionOnSet(len, SentBy(performance_info[i]))

RightPeriod == RightCount /\ RightSize

\* The average of an entry, computed step by step in integers, never leaves the
\* range of what was measured.
AverageInRange ==
  \A i \in DOMAIN performance_info :
    LET entry == performance_info[i] IN
    entry.reqnb > 0 => /\ \E r \in SentBy(entry) : measured[r] <= entry.bandwidth
                       /\ \E r \in SentBy(entry) : entry.bandwidth <= measured[r]

\* is_time_to_change_scheduler counts the requests of the current period only.
ProcessedAgrees == agios_processed_reqnb = Current.reqnb

\* What is kept are the last periods, in their order, the current one included.
LatestPeriods ==
  /\ Len(performance_info) \in 1 .. performance_values
  /\ performance_info_len = Len(performance_info)
  /\ \A i, j \in DOMAIN performance_info :
       i < j => performance_info[i].timestamp < performance_info[j].timestamp
  /\ \A i \in DOMAIN performance_info : performance_info[i].timestamp < now
=============================================================================
