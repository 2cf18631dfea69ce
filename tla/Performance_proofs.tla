------------------------- MODULE Performance_proofs -------------------------
(***************************************************************************)
(* What the performance module keeps is right for any number of requests,  *)
(* of periods and of entries: the averages stay in the range of what was   *)
(* measured, and the counters belong to the period they should.            *)
(***************************************************************************)
EXTENDS Performance, DataLemmas

-----------------------------------------------------------------------------
(* The history of periods.                                                 *)

\* What AddEntry makes of s: e comes last, the others keep their order and the
\* oldest may be gone.
Added(new, s, e) ==
  /\ new \in Seq(EntryType)
  /\ Len(new) \in 1 .. performance_values
  /\ new[Len(new)] = e
  /\ \E k \in {0, 1} :
       /\ Len(new) + k = Len(s) + 1
       /\ \A i \in 1 .. Len(new) - 1 : i + k \in 1 .. Len(s) /\ new[i] = s[i + k]

\* performance_set_new_algorithm adds an entry and keeps the list in its bound.
LEMMA AddedEntry ==
  ASSUME NEW s \in Seq(EntryType), NEW e \in EntryType,
         Len(s) \in 1 .. performance_values
  PROVE  /\ Added(Trim(Append(s, e), Len(s) + 1), s, e)
         /\ Len(Trim(Append(s, e), Len(s) + 1)) =
              IF TooMany(Len(s) + 1) THEN Len(s) + 1 - 1 ELSE Len(s) + 1
<1> DEFINE a == Append(s, e)
<1>1. /\ a \in Seq(EntryType)
      /\ Len(a) = Len(s) + 1
      /\ a[Len(a)] = e
      /\ \A i \in 1 .. Len(s) : a[i] = s[i]
  OBVIOUS
<1>2. CASE Len(a) > performance_values
  <2>1. /\ Trim(a, Len(s) + 1) = Tail(a) /\ Len(s) = performance_values
        /\ TooMany(Len(s) + 1)
    BY <1>1, <1>2, PerformanceAssumption DEF Trim, TooMany
  <2>2. /\ Tail(a) \in Seq(EntryType)
        /\ Len(Tail(a)) = Len(s)
        /\ \A i \in 1 .. Len(s) : Tail(a)[i] = a[i + 1]
    BY <1>1
  <2>3. Tail(a)[Len(s)] = e
    BY <1>1, <2>2
  <2>4. \A i \in 1 .. Len(s) - 1 : i + 1 \in 1 .. Len(s) /\ Tail(a)[i] = s[i + 1]
    BY <1>1, <2>2
  <2>5. Len(s) \in Nat
    OBVIOUS
  <2> HIDE DEF a
  <2> DEFINE b == Tail(a)
  <2> HIDE DEF b
  <2>6. /\ b \in Seq(EntryType) /\ Len(b) = Len(s) /\ b[Len(s)] = e
        /\ \A i \in 1 .. Len(s) - 1 : i + 1 \in 1 .. Len(s) /\ b[i] = s[i + 1]
    BY <2>2, <2>3, <2>4 DEF b
  <2>7. Added(b, s, e)
    BY <2>1, <2>5, <2>6 DEF Added
  <2>8. Len(b) = Len(s) + 1 - 1
    BY <2>5, <2>6
  <2> QED BY <2>1, <2>7, <2>8 DEF a, b
<1>3. CASE ~ (Len(a) > performance_values)
  <2>1. Trim(a, Len(s) + 1) = a /\ ~ TooMany(Len(s) + 1)
    BY <1>1, <1>3 DEF Trim, TooMany
  <2>2. \A i \in 1 .. Len(a) - 1 : i + 0 \in 1 .. Len(s) /\ a[i] = s[i + 0]
    BY <1>1
  <2>3. Len(a) \in 1 .. performance_values /\ Len(a) + 0 = Len(s) + 1
    BY <1>1, <1>3, PerformanceAssumption
  <2> HIDE DEF a
  <2> QED BY <1>1, <2>1, <2>2, <2>3 DEF a, Added
<1> QED BY <1>2, <1>3

-----------------------------------------------------------------------------
(* The inductive invariant.                                                *)

\* What happened, happened before now, and what is released had been sent.
Past ==
  /\ \A r \in Reqs :
       arrival_time[r] < now /\ dispatch_timestamp[r] < now /\ chosenBy[r] < now
  /\ \A r \in Released : dispatch_timestamp[r] # Never
  /\ IsFiniteSet(Released)

\* A sent request falls between the periods exactly as the period that sent it,
\* and that period, if forgotten, is older than all that are kept.
Linked ==
  \A r \in Reqs : dispatch_timestamp[r] # Never =>
    /\ \A i \in DOMAIN performance_info :
         performance_info[i].timestamp <= dispatch_timestamp[r]
           <=> performance_info[i].timestamp <= chosenBy[r]
    /\ \/ \E i \in DOMAIN performance_info : performance_info[i].timestamp = chosenBy[r]
       \/ \A i \in DOMAIN performance_info : chosenBy[r] < performance_info[i].timestamp

IInv ==
  /\ TypeOK /\ ProcessedAgrees /\ LatestPeriods
  /\ Past /\ Linked
  /\ RightPeriod /\ AverageInRange

\* What the types and the order of the periods give for single entries.
LEMMA Entries ==
  ASSUME TypeOK, LatestPeriods
  PROVE  /\ DOMAIN performance_info = 1 .. Len(performance_info)
         /\ Len(performance_info) \in DOMAIN performance_info
         /\ Len(performance_info) \in Nat \ {0}
         /\ \A i \in DOMAIN performance_info :
              /\ performance_info[i] \in EntryType
              /\ performance_info[i].timestamp \in Nat
              /\ performance_info[i].reqnb \in Nat
              /\ performance_info[i].size \in Nat
              /\ performance_info[i].bandwidth \in Nat
<1>1. performance_info \in Seq(EntryType) /\ Len(performance_info) \in 1 .. performance_values
  BY DEF TypeOK, LatestPeriods
<1>2. Len(performance_info) \in Nat \ {0} /\ DOMAIN performance_info = 1 .. Len(performance_info)
  BY <1>1, PerformanceAssumption
<1>3. \A i \in DOMAIN performance_info : performance_info[i] \in EntryType
  BY <1>1
<1> QED BY <1>2, <1>3 DEF EntryType

\* get_request_entry finds the entry of the period that sent the request, if it
\* is still there, and nothing otherwise.
LEMMA PeriodFound ==
  ASSUME IInv, NEW r \in Reqs, dispatch_timestamp[r] # Never,
         NEW i \in DOMAIN performance_info
  PROVE  i \in get_request_entry(dispatch_timestamp[r])
           <=> performance_info[i].timestamp = chosenBy[r]
<1> USE DEF IInv
<1>1. /\ dispatch_timestamp[r] \in Nat /\ chosenBy[r] \in Nat
      /\ \A j \in DOMAIN performance_info : performance_info[j].timestamp \in Nat
      /\ DOMAIN performance_info = 1 .. Len(performance_info) /\ Len(performance_info) \in Nat
  BY Entries DEF TypeOK
<1>2. \A j \in DOMAIN performance_info :
        performance_info[j].timestamp <= dispatch_timestamp[r]
          <=> performance_info[j].timestamp <= chosenBy[r]
  BY DEF Linked
<1>3. \/ \E j \in DOMAIN performance_info : performance_info[j].timestamp = chosenBy[r]
      \/ \A j \in DOMAIN performance_info : chosenBy[r] < performance_info[j].timestamp
  BY DEF Linked
<1>4. \A j, k \in DOMAIN performance_info :
        j < k => performance_info[j].timestamp < performance_info[k].timestamp
  BY DEF LatestPeriods
<1>5. ASSUME i \in get_request_entry(dispatch_timestamp[r])
      PROVE  performance_info[i].timestamp = chosenBy[r]
  <2>1. /\ performance_info[i].timestamp <= chosenBy[r]
        /\ \A j \in DOMAIN performance_info :
             j > i => performance_info[j].timestamp > chosenBy[r]
    BY <1>1, <1>2, <1>5 DEF get_request_entry
  <2>2. PICK j \in DOMAIN performance_info : performance_info[j].timestamp = chosenBy[r]
    BY <1>1, <1>3, <2>1
  <2> QED BY <1>1, <1>4, <2>1, <2>2
<1>6. ASSUME performance_info[i].timestamp = chosenBy[r]
      PROVE  i \in get_request_entry(dispatch_timestamp[r])
  <2>1. performance_info[i].timestamp <= dispatch_timestamp[r]
    BY <1>1, <1>2, <1>6
  <2>2. ASSUME NEW j \in DOMAIN performance_info, j > i
        PROVE  performance_info[j].timestamp > dispatch_timestamp[r]
    BY <1>1, <1>2, <1>4, <1>6, <2>2
  <2> QED BY <2>1, <2>2 DEF get_request_entry
<1> QED BY <1>5, <1>6

\* The first entry, before any request.
LEMMA InitIInv == Init => IInv
<1> SUFFICES ASSUME Init PROVE IInv
  OBVIOUS
<1>1. PICK alg \in Algs : performance_info =
        <<[timestamp |-> 1, alg |-> alg, reqnb |-> 0, size |-> 0, bandwidth |-> 0]>>
  BY DEF Init
<1>2. /\ Released = {} /\ measured \in [Released -> Nat]
      /\ IsFiniteSet(Released)
  BY FS_EmptySet DEF Init, Released
<1>3. /\ performance_info \in Seq(EntryType)
      /\ Len(performance_info) = 1 /\ DOMAIN performance_info = {1}
      /\ performance_info[1].timestamp = 1
      /\ performance_info[1].reqnb = 0 /\ performance_info[1].size = 0
  BY <1>1 DEF EntryType
<1>4. TypeOK
  BY <1>2, <1>3 DEF Init, TypeOK, Never
<1>5. ProcessedAgrees /\ LatestPeriods
  BY <1>3, PerformanceAssumption DEF Init, ProcessedAgrees, LatestPeriods, Current
<1>6. Past /\ Linked
  BY <1>2 DEF Init, Past, Linked, Never
<1>7. RightPeriod /\ AverageInRange
  <2>1. SentBy(performance_info[1]) = {}
    BY <1>2 DEF SentBy
  <2>2. Cardinality({}) = 0
    BY FS_EmptySet
  <2>3. RightCount
    BY <1>3, <2>1, <2>2 DEF RightCount
  <2>4. RightSize
    BY <1>3, <2>1, SumEmpty DEF RightSize, Total
  <2>5. AverageInRange
    BY <1>3 DEF AverageInRange
  <2> QED BY <2>3, <2>4, <2>5 DEF RightPeriod
<1> QED BY <1>4, <1>5, <1>6, <1>7 DEF IInv

\* Adding a request touches no entry.
LEMMA AddIInv ==
  ASSUME IInv, NEW r \in Reqs, agios_add_request(r)
  PROVE  IInv'
<1> USE DEF IInv, agios_add_request
<1>1. TypeOK'
  BY DEF TypeOK, Released
<1>2. ProcessedAgrees' /\ RightPeriod' /\ AverageInRange'
  BY DEF ProcessedAgrees, Current, RightPeriod, RightCount, RightSize, AverageInRange, SentBy,
         Released
<1>3. LatestPeriods'
  BY Entries DEF LatestPeriods, TypeOK
<1>4. Past'
  <2>1. \A s \in Reqs : /\ arrival_time'[s] < now' /\ chosenBy'[s] < now'
                        /\ dispatch_timestamp'[s] < now'
    BY DEF Past, TypeOK
  <2>2. Released' = Released
    BY DEF Released
  <2> QED BY <2>1, <2>2 DEF Past
<1>5. Linked'
  BY DEF Linked
<1> QED BY <1>1, <1>2, <1>3, <1>4, <1>5

\* Sending a request ties it to the current period.
LEMMA DispatchIInv ==
  ASSUME IInv, NEW r \in Reqs, put_this_request_in_dispatch(r)
  PROVE  IInv'
<1> USE DEF IInv, put_this_request_in_dispatch
<1>1. Current.timestamp \in Nat /\ Current.timestamp < now
  BY Entries DEF LatestPeriods, Current
<1>2. TypeOK'
  BY <1>1 DEF TypeOK, Released
<1>3. ProcessedAgrees' /\ LatestPeriods'
  BY Entries DEF ProcessedAgrees, Current, LatestPeriods, TypeOK
<1>4. r \notin Released
  BY DEF Past
<1>5. \A entry : SentBy(entry)' = SentBy(entry)
  BY <1>4 DEF SentBy, Released, TypeOK
<1>6. RightPeriod' /\ AverageInRange'
  BY <1>5 DEF RightPeriod, RightCount, RightSize, AverageInRange
<1>7. Past'
  BY <1>1 DEF Past, TypeOK, Released
<1>8. Linked'
  <2> SUFFICES ASSUME NEW s \in Reqs, dispatch_timestamp'[s] # Never
               PROVE  Linked!(s)!2'
    BY DEF Linked
  <2>1. CASE s = r
    <3>1. dispatch_timestamp'[r] = now /\ chosenBy'[r] = Current.timestamp
      BY DEF TypeOK
    <3>2. \A i \in DOMAIN performance_info :
            /\ performance_info[i].timestamp < now
            /\ performance_info[i].timestamp <= Current.timestamp
      BY Entries DEF LatestPeriods, Current
    <3>3. Len(performance_info) \in DOMAIN performance_info
      BY Entries
    <3> QED BY <2>1, <3>1, <3>2, <3>3, Entries DEF Current, TypeOK
  <2>2. CASE s # r
    BY <2>2 DEF Linked, TypeOK
  <2> QED BY <2>1, <2>2
<1> QED BY <1>2, <1>3, <1>6, <1>7, <1>8

\* A new period gets an entry that no request belongs to.
LEMMA ChangeIInv ==
  ASSUME IInv, NEW alg \in Algs, performance_set_new_algorithm(alg)
  PROVE  IInv'
<1> USE DEF IInv
<1> DEFINE new == performance_info'
           last == Len(new)
<1>1. /\ Entry(alg) \in EntryType
      /\ Entry(alg).timestamp = now /\ Entry(alg).reqnb = 0
  BY DEF Entry, EntryType, TypeOK
<1>2. /\ new = Trim(Append(performance_info, Entry(alg)), Len(performance_info) + 1)
      /\ performance_info_len' = IF TooMany(Len(performance_info) + 1)
                                 THEN Len(performance_info) + 1 - 1
                                 ELSE Len(performance_info) + 1
      /\ agios_processed_reqnb' = 0 /\ now' = now + 1 /\ now \in Nat
      /\ UNCHANGED requests
  BY DEF performance_set_new_algorithm, AddEntry, LatestPeriods, TypeOK
<1>3. Added(new, performance_info, Entry(alg)) /\ performance_info_len' = last
  BY <1>1, <1>2, AddedEntry DEF TypeOK, LatestPeriods
<1>4. new \in Seq(EntryType) /\ last \in 1 .. performance_values /\ new[last] = Entry(alg)
  BY <1>3 DEF Added
<1>5. PICK k \in {0, 1} :
        /\ last + k = Len(performance_info) + 1
        /\ \A i \in 1 .. last - 1 :
             i + k \in 1 .. Len(performance_info) /\ new[i] = performance_info[i + k]
  BY <1>3 DEF Added
<1> HIDE DEF new, last
<1>6. /\ last \in Nat \ {0} /\ DOMAIN new = 1 .. last /\ last = Len(new)
      /\ performance_info_len' = last
      /\ DOMAIN performance_info = 1 .. Len(performance_info)
      /\ \A i \in DOMAIN performance_info :
           performance_info[i].timestamp \in Nat /\ performance_info[i].timestamp < now
  BY <1>3, <1>4, Entries, PerformanceAssumption DEF new, last, LatestPeriods
<1>7. \A i \in DOMAIN new :
        \/ i = last /\ new[i] = Entry(alg)
        \/ i < last /\ i + k \in DOMAIN performance_info /\ new[i] = performance_info[i + k]
  <2> SUFFICES ASSUME NEW i \in DOMAIN new, i # last
               PROVE  /\ i < last /\ i + k \in DOMAIN performance_info
                      /\ new[i] = performance_info[i + k]
    BY <1>4, <1>6
  <2>1. i \in 1 .. last - 1
    BY <1>6
  <2> QED BY <1>5, <1>6, <2>1
<1>8. TypeOK'
  BY <1>2, <1>4 DEF TypeOK, requests, Released, new
<1>9. ProcessedAgrees'
  BY <1>1, <1>2, <1>4 DEF ProcessedAgrees, Current, new, last
<1>10. LatestPeriods'
  <2>1. \A i, j \in DOMAIN new : i < j => new[i].timestamp < new[j].timestamp
    <3> SUFFICES ASSUME NEW i \in DOMAIN new, NEW j \in DOMAIN new, i < j
                 PROVE  new[i].timestamp < new[j].timestamp
      OBVIOUS
    <3>1. i < last /\ i + k \in DOMAIN performance_info /\ new[i] = performance_info[i + k]
      BY <1>6, <1>7
    <3>2. CASE j = last
      BY <1>1, <1>4, <1>6, <3>1, <3>2
    <3>3. CASE j # last
      <4>1. j + k \in DOMAIN performance_info /\ new[j] = performance_info[j + k]
        BY <1>7, <3>3
      <4>2. i + k < j + k
        BY <1>5, <1>6
      <4> QED BY <3>1, <4>1, <4>2 DEF LatestPeriods
    <3> QED BY <3>2, <3>3
  <2>2. \A i \in DOMAIN new : new[i].timestamp < now'
    BY <1>1, <1>2, <1>6, <1>7
  <2>3. performance_info_len' = Len(performance_info')
    BY <1>6 DEF new
  <2> QED BY <1>4, <2>1, <2>2, <2>3 DEF LatestPeriods, new, last
<1>11. Past'
  BY <1>2 DEF Past, TypeOK, requests, Released
<1>12. \A entry : SentBy(entry)' = SentBy(entry)
  BY <1>2 DEF SentBy, requests, Released
<1>13. RightPeriod'
  <2>1. SentBy(Entry(alg)) = {}
    BY <1>1, <1>2 DEF SentBy, Past, TypeOK
  <2>2. /\ Entry(alg).reqnb = Cardinality(SentBy(Entry(alg)))
        /\ Entry(alg).size = SumFunctionOnSet(len, SentBy(Entry(alg)))
    BY <1>1, <2>1, FS_EmptySet, SumEmpty DEF Entry, Total
  <2>3. \A i \in DOMAIN new : new[i].reqnb = Cardinality(SentBy(new[i]))
    BY <1>7, <2>2 DEF RightPeriod, RightCount
  <2>4. \A i \in DOMAIN new : new[i].size = SumFunctionOnSet(len, SentBy(new[i]))
    BY <1>7, <2>2 DEF RightPeriod, RightSize
  <2> QED BY <1>12, <2>3, <2>4 DEF RightPeriod, RightCount, RightSize, new
<1>14. AverageInRange'
  <2>1. UNCHANGED measured
    BY <1>2 DEF requests
  <2>2. \A i \in DOMAIN new : new[i].reqnb > 0 =>
          /\ \E r \in SentBy(new[i]) : measured[r] <= new[i].bandwidth
          /\ \E r \in SentBy(new[i]) : new[i].bandwidth <= measured[r]
    BY <1>1, <1>7 DEF AverageInRange
  <2> QED BY <1>12, <2>1, <2>2 DEF AverageInRange, new
<1>15. Linked'
  <2> SUFFICES ASSUME NEW r \in Reqs, dispatch_timestamp[r] # Never
               PROVE  /\ \A i \in DOMAIN new :
                           new[i].timestamp <= dispatch_timestamp[r]
                             <=> new[i].timestamp <= chosenBy[r]
                      /\ \/ \E i \in DOMAIN new : new[i].timestamp = chosenBy[r]
                         \/ \A i \in DOMAIN new : chosenBy[r] < new[i].timestamp
    BY <1>2 DEF Linked, requests, new
  <2>1. chosenBy[r] < now /\ dispatch_timestamp[r] < now
        /\ chosenBy[r] \in Nat /\ dispatch_timestamp[r] \in Nat
    BY DEF Past, TypeOK
  <2>2. \A i \in DOMAIN new : new[i].timestamp <= dispatch_timestamp[r]
                             <=> new[i].timestamp <= chosenBy[r]
    BY <1>1, <1>2, <1>7, <2>1 DEF Linked
  <2>3. CASE \A i \in DOMAIN performance_info : chosenBy[r] < performance_info[i].timestamp
    BY <1>1, <1>7, <2>1, <2>2, <2>3
  <2>4. CASE \E i \in DOMAIN performance_info : performance_info[i].timestamp = chosenBy[r]
    <3>1. PICK i \in DOMAIN performance_info : performance_info[i].timestamp = chosenBy[r]
      BY <2>4
    <3>2. CASE i > k
      <4>1. i - k \in DOMAIN new /\ i - k # last
        BY <1>5, <1>6, <3>2
      <4>2. new[i - k] = performance_info[i]
        BY <1>5, <1>6, <1>7, <4>1
      <4> QED BY <2>2, <3>1, <4>1, <4>2
    <3>3. CASE i <= k
      <4>1. ASSUME NEW j \in DOMAIN new PROVE chosenBy[r] < new[j].timestamp
        <5>1. CASE j = last
          BY <1>1, <1>4, <2>1, <5>1
        <5>2. CASE j # last
          <6>1. j + k \in DOMAIN performance_info /\ new[j] = performance_info[j + k]
            BY <1>7, <5>2
          <6>2. i < j + k
            BY <1>5, <1>6, <3>3
          <6> QED BY <3>1, <6>1, <6>2 DEF LatestPeriods
        <5> QED BY <5>1, <5>2
      <4> QED BY <2>2, <4>1
    <3> QED BY <1>5, <1>6, <3>2, <3>3
  <2> QED BY <2>3, <2>4 DEF Linked
<1> QED BY <1>8, <1>9, <1>10, <1>11, <1>13, <1>14, <1>15

\* An entry after the release of a request of this size and bandwidth.
OneMore(new, entry, bytes, bandwidth) ==
  /\ new \in EntryType
  /\ new.timestamp = entry.timestamp
  /\ new.reqnb = entry.reqnb + 1 /\ new.size = entry.size + bytes
  /\ Between(new.bandwidth, entry.bandwidth, bandwidth, entry.reqnb + 1)

\* Accounted leaves the period of an entry alone and keeps its types.
LEMMA AccountedEntry ==
  ASSUME NEW entry \in EntryType, NEW bytes \in Nat, NEW bandwidth \in Nat
  PROVE  OneMore(Accounted(entry, bytes, bandwidth), entry, bytes, bandwidth)
<1> DEFINE avg == update_iterative_average(entry.bandwidth, bandwidth, entry.reqnb + 1)
<1>1. /\ entry.bandwidth \in Nat /\ entry.reqnb + 1 \in Nat \ {0}
      /\ entry.size + bytes \in Nat
  BY DEF EntryType
<1>2. Between(avg, entry.bandwidth, bandwidth, entry.reqnb + 1)
  BY <1>1, AverageBetween
<1>3. avg \in Nat
  BY <1>1, <1>2 DEF Between
<1> HIDE DEF avg
<1> DEFINE one == [entry EXCEPT !.reqnb = entry.reqnb + 1]
           two == [one EXCEPT !.size = one.size + bytes]
<1>4. one \in EntryType /\ one.timestamp = entry.timestamp /\ one.reqnb = entry.reqnb + 1
  BY <1>1 DEF EntryType
<1>5. one.bandwidth = entry.bandwidth /\ one.size = entry.size
  BY DEF EntryType
<1> HIDE DEF one
<1>6. /\ two \in EntryType /\ two.timestamp = entry.timestamp /\ two.reqnb = entry.reqnb + 1
      /\ two.size = entry.size + bytes
  BY <1>1, <1>4, <1>5 DEF EntryType
<1>7. Accounted(entry, bytes, bandwidth) = [two EXCEPT !.bandwidth = avg]
  BY DEF Accounted, one, avg
<1> HIDE DEF two
<1>8. /\ Accounted(entry, bytes, bandwidth) \in EntryType
      /\ Accounted(entry, bytes, bandwidth).bandwidth = avg
      /\ Accounted(entry, bytes, bandwidth).timestamp = entry.timestamp
      /\ Accounted(entry, bytes, bandwidth).reqnb = entry.reqnb + 1
      /\ Accounted(entry, bytes, bandwidth).size = entry.size + bytes
  BY <1>3, <1>6, <1>7 DEF EntryType
<1> QED BY <1>2, <1>8 DEF OneMore

\* A release is accounted to the entry of the period that sent the request.
LEMMA ReleaseIInv ==
  ASSUME IInv, NEW r \in Reqs, agios_release_request(r)
  PROVE  IInv'
<1> USE DEF IInv
<1> DEFINE bw    == len[r] \div (now - arrival_time[r])
           found == get_request_entry(dispatch_timestamp[r])
           old   == performance_info
           new   == performance_info'
<1>1. /\ dispatch_timestamp[r] # Never /\ r \notin Released
      /\ new = [i \in DOMAIN old |->
                  IF i \in found THEN Accounted(old[i], len[r], bw) ELSE old[i]]
      /\ agios_processed_reqnb' =
           agios_processed_reqnb + IF Len(old) \in found THEN 1 ELSE 0
      /\ measured' = [s \in Released \cup {r} |-> IF s = r THEN bw ELSE measured[s]]
      /\ now' = now + 1
      /\ UNCHANGED <<performance_info_len, arrival_time, dispatch_timestamp, chosenBy>>
  BY DEF agios_release_request, this_bandwidth
<1>2. len[r] \in Nat /\ bw \in Nat
  <2>1. len[r] \in Nat /\ now - arrival_time[r] \in Nat \ {0}
    BY PerformanceAssumption DEF TypeOK, Past
  <2> QED BY <2>1, QuotientShrinks
<1>3. \A i \in DOMAIN old : i \in found <=> old[i].timestamp = chosenBy[r]
  BY <1>1, PeriodFound
<1> HIDE DEF bw, found, old, new
<1>4. /\ DOMAIN old = 1 .. Len(old) /\ Len(old) \in DOMAIN old /\ Len(old) \in Nat \ {0}
      /\ \A i \in DOMAIN old : /\ old[i] \in EntryType
                               /\ old[i].timestamp \in Nat /\ old[i].reqnb \in Nat
                               /\ old[i].bandwidth \in Nat /\ old[i].size \in Nat
  BY Entries DEF old
<1>5. /\ new \in Seq(EntryType) /\ Len(new) = Len(old) /\ DOMAIN new = DOMAIN old
      /\ \A i \in DOMAIN old : /\ i \notin found => new[i] = old[i]
                               /\ i \in found => OneMore(new[i], old[i], len[r], bw)
                               /\ new[i].timestamp = old[i].timestamp
  <2>1. \A i \in DOMAIN old : i \notin found => new[i] = old[i]
    BY <1>1
  <2>2. ASSUME NEW i \in DOMAIN old, i \in found
        PROVE  OneMore(new[i], old[i], len[r], bw)
    BY <1>1, <1>2, <1>4, <2>2, AccountedEntry
  <2>3. \A i \in DOMAIN old : new[i] \in EntryType /\ new[i].timestamp = old[i].timestamp
    BY <1>4, <2>1, <2>2 DEF OneMore
  <2>4. /\ DOMAIN new = 1 .. Len(old) /\ Len(old) \in Nat
        /\ new = [i \in 1 .. Len(old) |-> new[i]]
    BY <1>1, <1>4
  <2>5. new \in Seq(EntryType) /\ Len(new) = Len(old)
    BY <1>4, <2>3, <2>4
  <2> QED BY <1>4, <2>1, <2>2, <2>3, <2>4, <2>5
<1>6. /\ Released' = Released \cup {r}
      /\ \A s \in Released : measured'[s] = measured[s]
      /\ measured'[r] = bw
      /\ measured' \in [Released' -> Nat]
  BY <1>1, <1>2 DEF Released, TypeOK
<1> DEFINE SentNow(entry) == {s \in Released' : chosenBy'[s] = entry.timestamp}
<1>7. \A i \in DOMAIN old :
        SentNow(new[i]) = IF i \in found THEN SentBy(old[i]) \cup {r} ELSE SentBy(old[i])
  BY <1>1, <1>3, <1>5, <1>6 DEF SentBy
<1> HIDE DEF SentNow
<1>8. TypeOK'
  BY <1>1, <1>5, <1>6 DEF TypeOK, new
<1>9. ProcessedAgrees'
  <2>1. agios_processed_reqnb = old[Len(old)].reqnb /\ old[Len(old)].reqnb \in Nat
    BY <1>4 DEF ProcessedAgrees, Current, old
  <2>2. agios_processed_reqnb' = new[Len(new)].reqnb
    BY <1>1, <1>4, <1>5, <2>1 DEF OneMore
  <2> QED BY <2>2 DEF ProcessedAgrees, Current, new
<1>10. LatestPeriods'
  BY <1>1, <1>4, <1>5 DEF LatestPeriods, TypeOK, old, new
<1>11. Past'
  <2>1. IsFiniteSet(Released')
    BY <1>6, FS_AddElement DEF Past
  <2>2. \A s \in Released' : dispatch_timestamp[s] # Never
    BY <1>1, <1>6 DEF Past
  <2>3. \A s \in Reqs : /\ arrival_time[s] < now + 1 /\ chosenBy[s] < now + 1
                        /\ dispatch_timestamp[s] < now + 1
    BY DEF Past, TypeOK
  <2> QED BY <1>1, <2>1, <2>2, <2>3 DEF Past
<1>12. Linked'
  BY <1>1, <1>5 DEF Linked, old, new
<1>13. RightPeriod'
  <2> SUFFICES ASSUME NEW i \in DOMAIN old
               PROVE  /\ new[i].reqnb = Cardinality(SentNow(new[i]))
                      /\ new[i].size = SumFunctionOnSet(len, SentNow(new[i]))
    BY <1>5 DEF RightPeriod, RightCount, RightSize, SentBy, SentNow, new
  <2>1. IsFiniteSet(SentBy(old[i])) /\ r \notin SentBy(old[i])
    BY <1>1, FS_Subset DEF SentBy, Past
  <2>2. Cardinality(SentBy(old[i]) \cup {r}) = Cardinality(SentBy(old[i])) + 1
    BY <2>1, FS_AddElement
  <2>3. /\ old[i].reqnb = Cardinality(SentBy(old[i]))
        /\ old[i].size = SumFunctionOnSet(len, SentBy(old[i]))
    BY DEF RightPeriod, RightCount, RightSize, old
  <2>4. SumFunctionOnSet(len, SentBy(old[i]) \cup {r})
          = SumFunctionOnSet(len, SentBy(old[i])) + len[r]
    <3>1. \A s \in SentBy(old[i]) : len[s] \in Int
      BY PerformanceAssumption DEF SentBy, TypeOK
    <3> QED BY <1>2, <2>1, <3>1, SumAdd DEF Total
  <2> QED BY <1>5, <1>7, <2>2, <2>3, <2>4 DEF OneMore
<1>14. AverageInRange'
  <2> SUFFICES ASSUME NEW i \in DOMAIN old, new[i].reqnb > 0
               PROVE  /\ \E s \in SentNow(new[i]) : measured'[s] <= new[i].bandwidth
                      /\ \E s \in SentNow(new[i]) : new[i].bandwidth <= measured'[s]
    BY <1>5 DEF AverageInRange, SentBy, SentNow, new
  <2> DEFINE avg == old[i].bandwidth
  <2>1. old[i].reqnb > 0 => /\ \E s \in SentBy(old[i]) : measured[s] <= avg
                            /\ \E s \in SentBy(old[i]) : avg <= measured[s]
    BY DEF AverageInRange, old
  <2>2. \A s \in SentBy(old[i]) : s \in Released /\ measured'[s] = measured[s] /\ measured[s] \in Nat
    BY <1>6 DEF SentBy, TypeOK
  <2>3. CASE i \notin found
    BY <1>5, <1>7, <2>1, <2>2, <2>3
  <2>4. CASE i \in found
    <3>1. r \in SentNow(new[i]) /\ SentBy(old[i]) \subseteq SentNow(new[i])
      BY <1>7, <2>4
    <3>2. /\ new[i].bandwidth \in Int
          /\ old[i].reqnb + 1 = 1 => new[i].bandwidth = bw
          /\ avg <= bw => avg <= new[i].bandwidth /\ new[i].bandwidth <= bw
          /\ bw <= avg => bw <= new[i].bandwidth /\ new[i].bandwidth <= avg
      BY <1>5, <2>4 DEF OneMore, Between
    <3>3. CASE old[i].reqnb = 0
      BY <1>2, <1>6, <3>1, <3>2, <3>3
    <3>4. CASE old[i].reqnb > 0
      <4>1. PICK low \in SentBy(old[i]) : measured[low] <= avg
        BY <2>1, <3>4
      <4>2. PICK high \in SentBy(old[i]) : avg <= measured[high]
        BY <2>1, <3>4
      <4>3. avg \in Nat /\ (avg <= bw \/ bw <= avg)
        BY <1>2, <1>4
      <4> QED BY <1>2, <1>6, <2>2, <3>1, <3>2, <4>1, <4>2, <4>3
    <3> QED BY <1>4, <3>3, <3>4
  <2> QED BY <2>3, <2>4
<1> QED BY <1>8, <1>9, <1>10, <1>11, <1>12, <1>13, <1>14

-----------------------------------------------------------------------------
(* The theorems.                                                           *)

\* IInv holds in every state.
LEMMA InductiveInvariant == Spec => []IInv
<1>1. Init => IInv
  BY InitIInv
<1>2. IInv /\ [Next]_vars => IInv'
  <2> SUFFICES ASSUME IInv, [Next]_vars PROVE IInv'
    OBVIOUS
  <2>1. CASE Next
    BY <2>1, AddIInv, DispatchIInv, ReleaseIInv, ChangeIInv DEF Next
  <2>2. CASE UNCHANGED vars
    BY <2>2 DEF vars, requests, IInv, TypeOK, ProcessedAgrees, Current, LatestPeriods,
                Past, Linked, RightPeriod, RightCount, RightSize, AverageInRange, SentBy,
                Released
  <2> QED BY <2>1, <2>2
<1> QED BY <1>1, <1>2, PTL DEF Spec

\* The variables keep their types; no average becomes negative, no release
\* divides by zero.
THEOREM TypeCorrect == Spec => []TypeOK
<1>1. IInv => TypeOK
  BY DEF IInv
<1> QED BY <1>1, InductiveInvariant, PTL

\* agios_processed_reqnb, which decides when the algorithm may change, counts
\* the requests of the current period, however late requests of others return.
THEOREM AlwaysProcessedAgrees == Spec => []ProcessedAgrees
<1>1. IInv => ProcessedAgrees
  BY DEF IInv
<1> QED BY <1>1, InductiveInvariant, PTL

\* performance_set_new_algorithm keeps between one and performance_values
\* periods, in their order.
THEOREM AlwaysLatestPeriods == Spec => []LatestPeriods
<1>1. IInv => LatestPeriods
  BY DEF IInv
<1> QED BY <1>1, InductiveInvariant, PTL

\* Every entry counts exactly the released requests that its period had sent, and their
\* bytes.
THEOREM AlwaysRightPeriod == Spec => []RightPeriod
<1>1. IInv => RightPeriod
  BY DEF IInv
<1> QED BY <1>1, InductiveInvariant, PTL

\* The bandwidth of an entry lies between measurements of its own period.
THEOREM AlwaysAverageInRange == Spec => []AverageInRange
<1>1. IInv => AverageInRange
  BY DEF IInv
<1> QED BY <1>1, InductiveInvariant, PTL
=============================================================================
