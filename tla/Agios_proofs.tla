---------------------------- MODULE Agios_proofs ----------------------------
(***************************************************************************)
(* Theorems about the library with all its algorithms.                     *)
(*                                                                         *)
(* A request that was added is in one place: in one list, selected, given  *)
(* back, held by NOOP or removed by a cancellation.  Each action is first  *)
(* reduced to what it does to these places: nothing, a request comes in,   *)
(* one leaves, or a batch is selected.                                     *)
(***************************************************************************)
EXTENDS Agios, RequestQueues_proofs

Held     == {r \in Reqs : pc[r] = "callback"}
Accepted == {r \in Reqs : pc[r] \in {"callback", "added"}}

\* The ids in the list of the selected batch and in the callbacks made.
AllIds(ids) == UNION {ToSet(ids[i]) : i \in DOMAIN ids}
Chosen      == AllIds(info)

\* No id is twice in a sequence of sequences of ids.
Once(ids) ==
  \A i, j \in DOMAIN ids : \A k \in DOMAIN ids[i], m \in DOMAIN ids[j] :
    ids[i][k] = ids[j][m] => i = j /\ k = m

IdLists == Seq(Seq(Reqs) \ {<<>>})

ListTypes ==
  /\ timeline \in Seq(Entry(data))
  /\ multi_timeline \in [0 .. max_queue_id -> Seq(Simple(data))]
  /\ \A i \in 0 .. max_queue_id : \A r \in Members(multi_timeline[i]) : data[r].queue_id = i
  /\ queues \in [Queues -> Seq(Entry(data))]
  /\ \A q \in Queues : queues[q] \in ListOf(data, q)

StateTypes ==
  /\ data \in [Reqs -> Arguments]
  /\ pc \in [Reqs -> {"new", "adding", "callback", "added"}]
  /\ IsFiniteSet(Accepted)
  /\ stamp \in [Reqs -> Nat] /\ g_last_timestamp \in Nat
  /\ files \in SUBSET Files /\ IsFiniteSet(files)
  /\ current_size \in [Queues -> Int]
  /\ info \in IdLists /\ calls \in IdLists
  /\ removed \in SUBSET Reqs
  /\ apc = "callback" <=> info # <<>>

\* What the schedulers keep in their locals and in static variables.
SchedulerTypes ==
  /\ current_alg = "SJF" /\ apc \in {"scan", "shortcut", "pick"} =>
       /\ DOMAIN locals = {"line", "chosen", "min", "evaluated"}
       /\ locals.chosen \in Queues \cup {NoQueue}
       /\ apc = "pick" => locals.chosen \in Queues
  /\ current_alg = "aIOLi" /\ apc \in {"scan", "pick", "drain"} =>
       /\ DOMAIN locals = {"line", "selected", "timestamp", "waiting_options", "known"}
       /\ locals.selected \in Queues \cup {NoQueue}
       /\ apc = "drain" => locals.selected \in Queues
  /\ g_current_queue \in QueueIds
  /\ g_current_twins_server \in 0 .. max_queue_id

Apart ==
  /\ Once(info) /\ Once(calls)
  /\ \A l \in Lists : NoneTwice(ListAt(l))
  /\ \A l, m \in Lists : l # m => Members(ListAt(l)) \cap Members(ListAt(m)) = {}
  /\ Waiting \cap Chosen = {} /\ Waiting \cap Delivered = {} /\ Waiting \cap Held = {}
  /\ Waiting \cap removed = {} /\ Chosen \cap Delivered = {} /\ Chosen \cap Held = {}
  /\ Chosen \cap removed = {} /\ Delivered \cap Held = {} /\ Delivered \cap removed = {}
  /\ Held \cap removed = {}

\* Every request that was accepted is in one place, and only those are.
Complete == Waiting \cup Chosen \cup Delivered \cup Held \cup removed = Accepted

Places == StateTypes /\ ListTypes /\ SchedulerTypes /\ Apart /\ Complete

-----------------------------------------------------------------------------
(* The lists, by their names.                                              *)

TimelineList == <<"timeline", 0>>
MultiList(i) == <<"multi", i>>
QueueList(q) == <<"queue", q>>

\* Every list is one of the three kinds, and has one name.
LEMMA ListNames ==
  /\ TimelineList \in Lists
  /\ \A i \in 0 .. max_queue_id : MultiList(i) \in Lists
  /\ \A q \in Queues : QueueList(q) \in Lists
  /\ \A l \in Lists : \/ l = TimelineList
                      \/ \E i \in 0 .. max_queue_id : l = MultiList(i)
                      \/ \E q \in Queues : l = QueueList(q)
  /\ \A i : MultiList(i) # TimelineList /\ QueueList(i) # TimelineList
  /\ \A i, j : MultiList(i) # QueueList(j)
  /\ \A i, j : MultiList(i) = MultiList(j) => i = j
  /\ \A i, j : QueueList(i) = QueueList(j) => i = j
BY DEF Lists, TimelineList, MultiList, QueueList

\* What the names stand for, before and after a step.
LEMMA ListContents ==
  /\ ListAt(TimelineList) = timeline /\ ListAt(TimelineList)' = timeline'
  /\ \A i : ListAt(MultiList(i)) = multi_timeline[i] /\ ListAt(MultiList(i))' = multi_timeline'[i]
  /\ \A q : ListAt(QueueList(q)) = queues[q] /\ ListAt(QueueList(q))' = queues'[q]
BY DEF ListAt, TimelineList, MultiList, QueueList

\* A request waits when it is in one of the lists.
LEMMA WaitingAre ==
  ListTypes /\ StateTypes => /\ \A l \in Lists : Members(ListAt(l)) \in SUBSET Reqs
                            /\ Waiting = UNION {Members(ListAt(l)) : l \in Lists}
<1> SUFFICES ASSUME ListTypes, data \in [Reqs -> Arguments]
             PROVE  /\ \A l \in Lists : Members(ListAt(l)) \in SUBSET Reqs
                    /\ Waiting = UNION {Members(ListAt(l)) : l \in Lists}
  BY DEF StateTypes
<1>1. ASSUME NEW list \in Seq(Entry(data)) PROVE Members(list) \in SUBSET Reqs
  <2>1. \A i \in DOMAIN list : IdSet(list[i]) \in SUBSET Reqs
    <3> SUFFICES ASSUME NEW i \in DOMAIN list PROVE IdSet(list[i]) \in SUBSET Reqs
      OBVIOUS
    <3>1. DOMAIN list = 1 .. Len(list)
      BY LenProperties
    <3>2. list[i] \in Entry(data)
      BY <3>1, ElementOfSeq
    <3>3. IdSet(list[i]) \in SUBSET DOMAIN data
      BY <3>2, IdsOfEntry
    <3> QED BY <3>3
  <2> QED BY <2>1 DEF Members
<1>2. \A l \in Lists : ListAt(l) \in Seq(Entry(data))
  <2> SUFFICES ASSUME NEW l \in Lists PROVE ListAt(l) \in Seq(Entry(data))
    OBVIOUS
  <2>1. CASE l = TimelineList
    BY <2>1, ListContents DEF ListTypes
  <2>2. ASSUME NEW i \in 0 .. max_queue_id, l = MultiList(i) PROVE ListAt(l) \in Seq(Entry(data))
    <3>1. ListAt(l) \in Seq(Simple(data))
      BY <2>2, ListContents DEF ListTypes
    <3>2. Simple(data) \subseteq Entry(data)
      BY DEF Entry
    <3> QED BY <3>1, <3>2, SeqMonotonic
  <2>3. ASSUME NEW q \in Queues, l = QueueList(q) PROVE ListAt(l) \in Seq(Entry(data))
    BY <2>3, ListContents DEF ListTypes
  <2> QED BY <2>1, <2>2, <2>3, ListNames
<1>3. \A l \in Lists : Members(ListAt(l)) \in SUBSET Reqs
  BY <1>1, <1>2
<1> QED BY <1>3 DEF Waiting, Waits

\* The same after a step.
LEMMA WaitingAreNext ==
  ASSUME ListTypes', StateTypes'
  PROVE  Waiting' = UNION {Members(ListAt(l)') : l \in Lists}
<1>1. (ListTypes /\ StateTypes => /\ \A l \in Lists : Members(ListAt(l)) \in SUBSET Reqs
                                 /\ Waiting = UNION {Members(ListAt(l)) : l \in Lists})'
  BY WaitingAre, PTL
<1> QED BY <1>1

\* The arguments of the users' calls are data about requests.
LEMMA DataAre ==
  ASSUME data \in [Reqs -> Arguments]
  PROVE  /\ IsData(data) /\ DOMAIN data = Reqs
         /\ \A r \in Reqs : /\ data[r].queue \in Queues /\ data[r].offset \in Nat
                            /\ data[r].len \in Nat /\ data[r].queue_id \in QueueIds
         /\ QueuesOf(data) \subseteq Queues
<1>1. DOMAIN data = Reqs
  OBVIOUS
<1>2. ASSUME NEW r \in Reqs
      PROVE  /\ data[r].queue \in Queues /\ data[r].offset \in Nat
             /\ data[r].len \in Nat /\ data[r].queue_id \in QueueIds
  <2>1. data[r] \in [queue : Queues, offset : Nat, len : Nat, queue_id : QueueIds]
    BY ArgumentsAssumption
  <2> QED BY <2>1
<1>3. QueuesOf(data) \subseteq Queues
  BY <1>1, <1>2 DEF QueuesOf
<1> QED BY <1>1, <1>2, <1>3 DEF IsData

\* The ids of a batch, as process_requests_step1 notes them.
LEMMA BatchIds ==
  ASSUME NEW E \in SUBSET Entry(data), data \in [Reqs -> Arguments],
         NEW batch \in Seq(E), NoneTwice(batch)
  PROVE  /\ IdsIn(batch) \in IdLists
         /\ AllIds(IdsIn(batch)) = Members(batch)
         /\ Once(IdsIn(batch))
         /\ batch # <<>> <=> IdsIn(batch) # <<>>
<1> DEFINE ids == IdsIn(batch)
<1>1. DOMAIN ids = DOMAIN batch /\ \A i \in DOMAIN batch : ids[i] = IdsOf(Parts(batch[i]))
  BY DEF IdsIn
<1>2. DOMAIN batch = 1 .. Len(batch) /\ Len(batch) \in Nat
  BY LenProperties
<1>3. \A i \in DOMAIN batch : batch[i] \in Entry(data)
  BY <1>2, ElementOfSeq
<1>4. \A i \in DOMAIN batch :
        /\ DOMAIN ids[i] = DOMAIN Parts(batch[i])
        /\ \A k \in DOMAIN ids[i] : ids[i][k] = Parts(batch[i])[k].id
  BY <1>1 DEF IdsOf
<1>5. \A i \in DOMAIN batch : ToSet(ids[i]) = IdSet(batch[i])
  BY <1>1 DEF IdSet
<1>6. ASSUME NEW i \in DOMAIN batch PROVE ids[i] \in Seq(Reqs) \ {<<>>}
  <2> DEFINE n == Len(Parts(batch[i]))
  <2>1. /\ Parts(batch[i]) \in Seq(Simple(data)) /\ n = batch[i].reqnb
        /\ batch[i].reqnb \in Nat \ {0}
    BY <1>3, <1>6, PartsOfEntry
  <2>2. DOMAIN Parts(batch[i]) = 1 .. n
    BY <2>1, LenProperties
  <2> HIDE DEF n
  <2>3. \A k \in 1 .. n : Parts(batch[i])[k].id \in Reqs
    <3>1. \A k \in 1 .. n : Parts(batch[i])[k] \in Simple(data)
      BY <2>1, ElementOfSeq DEF n
    <3> QED BY <3>1, DataAre DEF Simple
  <2>4. ids[i] = [k \in 1 .. n |-> Parts(batch[i])[k].id]
    BY <1>1, <1>6, <2>2 DEF IdsOf
  <2>5. ids[i] \in Seq(Reqs)
    <3>1. n \in Nat
      BY <2>1
    <3>2. ids[i] \in [1 .. n -> Reqs]
      BY <2>3, <2>4
    <3> QED BY <3>1, <3>2
  <2>6. 1 \in DOMAIN ids[i]
    <3>1. 1 \in 1 .. n
      BY <2>1
    <3>2. DOMAIN ids[i] = 1 .. n
      BY <2>4
    <3> QED BY <3>1, <3>2
  <2> QED BY <2>5, <2>6
<1> HIDE DEF ids
<1>7. ids \in IdLists
  <2>1. ids \in [1 .. Len(batch) -> Seq(Reqs) \ {<<>>}]
    <3>1. DOMAIN ids = 1 .. Len(batch)
      BY <1>1, <1>2
    <3>2. \A i \in 1 .. Len(batch) : ids[i] \in Seq(Reqs) \ {<<>>}
      BY <1>2, <1>6
    <3>3. ids = [i \in DOMAIN ids |-> ids[i]]
      BY DEF ids, IdsIn
    <3> QED BY <3>1, <3>2, <3>3
  <2>2. Len(batch) \in Nat
    BY <1>2
  <2> QED BY <2>1, <2>2 DEF IdLists
<1>8. AllIds(ids) = Members(batch)
  BY <1>1, <1>5 DEF AllIds, Members
<1>9. Once(ids)
  <2> SUFFICES ASSUME NEW i \in DOMAIN ids, NEW j \in DOMAIN ids,
                      NEW k \in DOMAIN ids[i], NEW m \in DOMAIN ids[j], ids[i][k] = ids[j][m]
               PROVE  i = j /\ k = m
    BY DEF Once
  <2>1. ids[i][k] \in IdSet(batch[i]) /\ ids[j][m] \in IdSet(batch[j])
    BY <1>1, <1>5 DEF ToSet
  <2>2. i = j
    BY <1>1, <2>1 DEF NoneTwice
  <2>3. OneEach(batch[i])
    BY <1>1 DEF NoneTwice
  <2> QED BY <1>1, <1>4, <2>2, <2>3 DEF OneEach
<1>10. batch # <<>> <=> ids # <<>>
  <2>1. \A S : \A s \in Seq(S) : s = <<>> <=> DOMAIN s = {}
    <3> SUFFICES ASSUME NEW S, NEW s \in Seq(S) PROVE s = <<>> <=> DOMAIN s = {}
      OBVIOUS
    <3>1. s = <<>> <=> Len(s) = 0
      BY EmptySeq
    <3>2. DOMAIN s = 1 .. Len(s) /\ Len(s) \in Nat
      BY LenProperties
    <3>3. 1 .. Len(s) = {} <=> Len(s) = 0
      <4>1. \A n \in Nat : 1 .. n = {} <=> n = 0
        <5>1. \A n \in Nat \ {0} : 1 \in 1 .. n
          OBVIOUS
        <5>2. 1 .. 0 = {}
          OBVIOUS
        <5> QED BY <5>1, <5>2
      <4> QED BY <3>2, <4>1
    <3> QED BY <3>1, <3>2, <3>3
  <2>2. batch = <<>> <=> DOMAIN batch = {}
    BY <2>1
  <2>3. ids = <<>> <=> DOMAIN ids = {}
    BY <1>7, <2>1 DEF IdLists
  <2> QED BY <1>1, <2>2, <2>3
<1> QED BY <1>7, <1>8, <1>9, <1>10 DEF ids

-----------------------------------------------------------------------------
(* What a step may do to the places requests are in.                       *)

\* The requests in B leave the lists, the others stay.
ListsLose(B) == \A l \in Lists : /\ Members(ListAt(l)') = Members(ListAt(l)) \ B
                                 /\ NoneTwice(ListAt(l)')

Stays == UNCHANGED <<info, calls, removed, Held, Accepted>>

Still == ListsLose({}) /\ Stays

\* A request is put in a list.
ComesIn(r) ==
  /\ r \in Reqs \ Accepted
  /\ \E l \in Lists : /\ Members(ListAt(l)') = Members(ListAt(l)) \cup {r}
                      /\ \A m \in Lists \ {l} : UNCHANGED ListAt(m)
  /\ \A l \in Lists : NoneTwice(ListAt(l)')
  /\ UNCHANGED <<info, calls, removed, Held>> /\ Accepted' = Accepted \cup {r}

\* NOOP takes a request, and gives it back.
GoesPast(r) ==
  /\ r \in Reqs \ Accepted
  /\ ListsLose({}) /\ UNCHANGED <<info, calls, removed>>
  /\ Held' = Held \cup {r} /\ Accepted' = Accepted \cup {r}

ComesBack(r) ==
  /\ r \in Held
  /\ ListsLose({}) /\ UNCHANGED <<info, removed, Accepted>>
  /\ Held' = Held \ {r} /\ calls' = Append(calls, <<r>>)

\* A cancellation takes a request out.
Leaves(r) ==
  /\ r \in Waiting
  /\ ListsLose({r}) /\ UNCHANGED <<info, calls, Held, Accepted>>
  /\ removed' = removed \cup {r}

\* An entry that holds the same requests is in a list.
InAList(e) == \E l \in Lists : \E i \in DOMAIN ListAt(l) : IdSet(e) = IdSet(ListAt(l)[i])

\* process_requests_step1 is called for entries that hold these requests, and held them
\* where they waited.
Processes(B) ==
  \E batch \in Seq(Entry(data)) :
    /\ NoneTwice(batch) /\ Members(batch) = B /\ Step1(batch)
    /\ \A i \in DOMAIN batch : InAList(batch[i])

\* A batch is selected, and given back step by step.
Selects(B) ==
  /\ B \in SUBSET Waiting /\ info = <<>> /\ Processes(B)
  /\ ListsLose(B) /\ UNCHANGED <<calls, removed, Held, Accepted>>
  /\ Chosen' = B /\ Once(info')

Delivers(B) ==
  /\ process_requests_step2 /\ B \in SUBSET Chosen
  /\ ListsLose({}) /\ UNCHANGED <<removed, Held, Accepted>>
  /\ Chosen' = Chosen \ B /\ Delivered' = Delivered \cup B
  /\ Once(info') /\ Once(calls')

\* What leaves one list leaves them all.
LEMMA Lost ==
  ASSUME ListTypes, StateTypes, ListTypes', StateTypes', Apart, NEW B, ListsLose(B)
  PROVE  /\ Waiting' = Waiting \ B
         /\ \A l \in Lists : NoneTwice(ListAt(l)')
         /\ \A l, m \in Lists : l # m => Members(ListAt(l)') \cap Members(ListAt(m)') = {}
<1>1. Waiting = UNION {Members(ListAt(l)) : l \in Lists}
  BY WaitingAre
<1>2. Waiting' = UNION {Members(ListAt(l)') : l \in Lists}
  BY WaitingAreNext
<1>3. Waiting' = Waiting \ B
  BY <1>1, <1>2 DEF ListsLose
<1>4. \A l, m \in Lists : l # m => Members(ListAt(l)') \cap Members(ListAt(m)') = {}
  BY DEF ListsLose, Apart
<1> QED BY <1>3, <1>4 DEF ListsLose

\* Each of these steps keeps every request in one place.
LEMMA StillKeeps ==
  ASSUME ListTypes, StateTypes, ListTypes', StateTypes', Apart, Complete, Still
  PROVE  Apart' /\ Complete' /\ Waiting' = Waiting
<1>1. /\ Waiting' = Waiting
      /\ \A l \in Lists : NoneTwice(ListAt(l)')
      /\ \A l, m \in Lists : l # m => Members(ListAt(l)') \cap Members(ListAt(m)') = {}
  BY Lost DEF Still
<1>2. /\ Chosen' = Chosen /\ Delivered' = Delivered /\ Held' = Held /\ Accepted' = Accepted
      /\ removed' = removed /\ info' = info /\ calls' = calls
  BY DEF Still, Stays, Chosen, Delivered
<1> QED BY <1>1, <1>2 DEF Apart, Complete

\* A request that comes in was nowhere else, so that all places stay apart.
LEMMA ComesInKeeps ==
  ASSUME ListTypes, StateTypes, ListTypes', StateTypes', Apart, Complete,
         NEW r \in Reqs, ComesIn(r)
  PROVE  Apart' /\ Complete' /\ Waiting' = Waiting \cup {r}
<1>1. PICK l \in Lists : /\ Members(ListAt(l)') = Members(ListAt(l)) \cup {r}
                         /\ \A m \in Lists \ {l} : ListAt(m)' = ListAt(m)
  BY DEF ComesIn
<1>2. Waiting = UNION {Members(ListAt(m)) : m \in Lists}
  BY WaitingAre
<1>3. Waiting' = UNION {Members(ListAt(m)') : m \in Lists}
  BY WaitingAreNext
<1>4. Waiting' = Waiting \cup {r}
  BY <1>1, <1>2, <1>3
<1>5. \A m \in Lists : r \notin Members(ListAt(m))
  BY <1>2 DEF ComesIn, Complete
<1>6. ASSUME NEW m \in Lists, NEW n \in Lists, m # n
      PROVE  Members(ListAt(m)') \cap Members(ListAt(n)') = {}
  <2>1. Members(ListAt(m)) \cap Members(ListAt(n)) = {}
    BY <1>6 DEF Apart
  <2>2. ListAt(m)' = ListAt(m) \/ ListAt(n)' = ListAt(n)
    BY <1>1, <1>6
  <2>3. /\ Members(ListAt(m)') = Members(ListAt(m)) \/ m = l
        /\ Members(ListAt(n)') = Members(ListAt(n)) \/ n = l
    BY <1>1
  <2> QED BY <1>1, <1>5, <1>6, <2>1, <2>3
<1>7. /\ Chosen' = Chosen /\ Delivered' = Delivered /\ Held' = Held
      /\ Accepted' = Accepted \cup {r} /\ removed' = removed /\ info' = info /\ calls' = calls
      /\ r \notin Accepted /\ \A m \in Lists : NoneTwice(ListAt(m)')
  BY DEF ComesIn, Chosen, Delivered
<1> QED BY <1>4, <1>6, <1>7 DEF Apart, Complete

\* A request NOOP takes is held by its callback alone.
LEMMA GoesPastKeeps ==
  ASSUME ListTypes, StateTypes, ListTypes', StateTypes', Apart, Complete,
         NEW r \in Reqs, GoesPast(r)
  PROVE  Apart' /\ Complete' /\ Waiting' = Waiting
<1>1. /\ Waiting' = Waiting
      /\ \A l \in Lists : NoneTwice(ListAt(l)')
      /\ \A l, m \in Lists : l # m => Members(ListAt(l)') \cap Members(ListAt(m)') = {}
  BY Lost DEF GoesPast
<1>2. /\ Chosen' = Chosen /\ Delivered' = Delivered /\ Held' = Held \cup {r}
      /\ Accepted' = Accepted \cup {r} /\ r \notin Accepted
      /\ removed' = removed /\ info' = info /\ calls' = calls
  BY DEF GoesPast, Chosen, Delivered
<1> QED BY <1>1, <1>2 DEF Apart, Complete

\* One more callback, of requests that were given to none before.
LEMMA OneMoreCall ==
  ASSUME NEW S, NEW c \in Seq(Seq(S)), NEW ids \in Seq(S), Once(c),
         \A k, m \in DOMAIN ids : ids[k] = ids[m] => k = m,
         ToSet(ids) \cap AllIds(c) = {}
  PROVE  /\ Once(Append(c, ids))
         /\ AllIds(Append(c, ids)) = AllIds(c) \cup ToSet(ids)
<1> DEFINE d == Append(c, ids)
           n == Len(c) + 1
<1>1. /\ d \in Seq(Seq(S)) /\ Len(d) = n /\ d[n] = ids
      /\ \A j \in 1 .. Len(c) : d[j] = c[j]
  BY AppendProperties
<1>2. Len(c) \in Nat
  BY LenProperties
<1>3. DOMAIN c = 1 .. Len(c) /\ DOMAIN d = 1 .. Len(d)
  BY <1>1, LenProperties
<1>4. DOMAIN d = DOMAIN c \cup {n} /\ n \notin DOMAIN c
  <2>1. 1 .. n = (1 .. Len(c)) \cup {n} /\ n \notin 1 .. Len(c)
    BY <1>2
  <2> QED BY <1>1, <1>3, <2>1
<1>5. d[n] = ids /\ \A j \in DOMAIN c : d[j] = c[j]
  BY <1>1, <1>3
<1> HIDE DEF d, n
<1>6. AllIds(d) = AllIds(c) \cup ToSet(ids)
  BY <1>4, <1>5 DEF AllIds
<1>7. \A j \in DOMAIN c : \A k \in DOMAIN c[j] : c[j][k] \in AllIds(c)
  BY DEF AllIds, ToSet
<1>8. \A k \in DOMAIN ids : ids[k] \in ToSet(ids)
  BY DEF ToSet
<1>9. Once(d)
  <2> SUFFICES ASSUME NEW i \in DOMAIN d, NEW j \in DOMAIN d,
                      NEW k \in DOMAIN d[i], NEW m \in DOMAIN d[j], d[i][k] = d[j][m]
               PROVE  i = j /\ k = m
    BY DEF Once
  <2>1. CASE i = n /\ j = n
    BY <1>5, <2>1
  <2>2. CASE i = n /\ j # n
    <3>1. d[i][k] \in ToSet(ids) /\ d[j][m] \in AllIds(c)
      BY <1>4, <1>5, <1>7, <1>8, <2>2
    <3> QED BY <3>1
  <2>3. CASE i # n /\ j = n
    <3>1. d[j][m] \in ToSet(ids) /\ d[i][k] \in AllIds(c)
      BY <1>4, <1>5, <1>7, <1>8, <2>3
    <3> QED BY <3>1
  <2>4. CASE i # n /\ j # n
    BY <1>4, <1>5, <2>4 DEF Once
  <2> QED BY <2>1, <2>2, <2>3, <2>4
<1> QED BY <1>6, <1>9 DEF d

\* When its callback was made, the request NOOP held has been given back.
LEMMA ComesBackKeeps ==
  ASSUME ListTypes, StateTypes, ListTypes', StateTypes', Apart, Complete,
         NEW r \in Reqs, ComesBack(r)
  PROVE  /\ Apart' /\ Complete' /\ Waiting' = Waiting
         /\ Delivered' = Delivered \cup {r} /\ Chosen' = Chosen
<1>1. /\ Waiting' = Waiting
      /\ \A l \in Lists : NoneTwice(ListAt(l)')
      /\ \A l, m \in Lists : l # m => Members(ListAt(l)') \cap Members(ListAt(m)') = {}
  BY Lost DEF ComesBack
<1>2. /\ Chosen' = Chosen /\ Held' = Held \ {r} /\ r \in Held
      /\ Accepted' = Accepted /\ removed' = removed /\ info' = info
      /\ calls' = Append(calls, <<r>>)
  BY DEF ComesBack, Chosen
<1>3. Delivered' = Delivered \cup {r} /\ Once(calls')
  <2>1. calls \in Seq(Seq(Reqs)) /\ <<r>> \in Seq(Reqs) /\ Once(calls)
    <3>1. calls \in Seq(Seq(Reqs) \ {<<>>})
      BY DEF StateTypes, IdLists
    <3>2. Seq(Reqs) \ {<<>>} \subseteq Seq(Reqs)
      OBVIOUS
    <3>3. calls \in Seq(Seq(Reqs))
      BY <3>1, <3>2, SeqMonotonic
    <3> QED BY <3>3 DEF Apart
  <2>2. ToSet(<<r>>) = {r} /\ \A k, m \in DOMAIN <<r>> : <<r>>[k] = <<r>>[m] => k = m
    BY DEF ToSet
  <2>3. AllIds(calls) = Delivered
    BY DEF AllIds, Delivered
  <2>4. ToSet(<<r>>) \cap AllIds(calls) = {}
    BY <1>2, <2>2, <2>3 DEF Apart
  <2> DEFINE one == <<r>>
  <2> HIDE DEF one
  <2>5. /\ Once(Append(calls, one))
        /\ AllIds(Append(calls, one)) = AllIds(calls) \cup ToSet(one)
    BY <2>1, <2>2, <2>4, OneMoreCall DEF one
  <2>6. Delivered' = AllIds(calls')
    BY DEF AllIds, Delivered
  <2>7. AllIds(calls') = AllIds(calls) \cup ToSet(one) /\ ToSet(one) = {r} /\ Once(calls')
    BY <1>2, <2>2, <2>5 DEF one
  <2> QED BY <2>3, <2>6, <2>7
<1> QED BY <1>1, <1>2, <1>3 DEF Apart, Complete

\* A request that is cancelled leaves its list and is among the removed ones.
LEMMA LeavesKeeps ==
  ASSUME ListTypes, StateTypes, ListTypes', StateTypes', Apart, Complete,
         NEW r, Leaves(r)
  PROVE  Apart' /\ Complete' /\ Waiting' = Waiting \ {r}
<1>1. /\ Waiting' = Waiting \ {r}
      /\ \A l \in Lists : NoneTwice(ListAt(l)')
      /\ \A l, m \in Lists : l # m => Members(ListAt(l)') \cap Members(ListAt(m)') = {}
  BY Lost DEF Leaves
<1>2. /\ Chosen' = Chosen /\ Delivered' = Delivered /\ Held' = Held /\ Accepted' = Accepted
      /\ removed' = removed \cup {r} /\ r \in Waiting /\ info' = info /\ calls' = calls
  BY DEF Leaves, Chosen, Delivered
<1> QED BY <1>1, <1>2 DEF Apart, Complete

\* A batch leaves its list and is selected as a whole, nothing having been selected
\* before.
LEMMA SelectsKeeps ==
  ASSUME ListTypes, StateTypes, ListTypes', StateTypes', Apart, Complete,
         NEW B, Selects(B)
  PROVE  Apart' /\ Complete' /\ Waiting' = Waiting \ B /\ Chosen = {} /\ Delivered' = Delivered
<1>1. /\ Waiting' = Waiting \ B
      /\ \A l \in Lists : NoneTwice(ListAt(l)')
      /\ \A l, m \in Lists : l # m => Members(ListAt(l)') \cap Members(ListAt(m)') = {}
  BY Lost DEF Selects
<1>2. /\ Chosen' = B /\ Delivered' = Delivered /\ Held' = Held /\ Accepted' = Accepted
      /\ removed' = removed /\ B \in SUBSET Waiting /\ Once(info') /\ calls' = calls
  BY DEF Selects, Delivered
<1>3. Chosen = {}
  <2>1. DOMAIN info = {}
    BY DEF Selects
  <2> QED BY <2>1 DEF Chosen, AllIds
<1> QED BY <1>1, <1>2, <1>3 DEF Apart, Complete

\* What a callback gives back was selected and is no longer.
LEMMA DeliversKeeps ==
  ASSUME ListTypes, StateTypes, ListTypes', StateTypes', Apart, Complete,
         NEW B, Delivers(B)
  PROVE  Apart' /\ Complete' /\ Waiting' = Waiting
<1>1. /\ Waiting' = Waiting
      /\ \A l \in Lists : NoneTwice(ListAt(l)')
      /\ \A l, m \in Lists : l # m => Members(ListAt(l)') \cap Members(ListAt(m)') = {}
  BY Lost DEF Delivers
<1>2. /\ Chosen' = Chosen \ B /\ Delivered' = Delivered \cup B /\ Held' = Held
      /\ Accepted' = Accepted /\ removed' = removed /\ B \in SUBSET Chosen
      /\ Once(info') /\ Once(calls')
  BY DEF Delivers
<1> QED BY <1>1, <1>2 DEF Apart, Complete

-----------------------------------------------------------------------------
(* What the actions do to the places: first those that leave the lists     *)
(* alone.                                                                  *)

\* Lists that did not change lost nothing.
LEMMA ListsLoseNothing ==
  ASSUME Apart, UNCHANGED lists
  PROVE  ListsLose({})
<1>1. \A l \in Lists : ListAt(l)' = ListAt(l)
  <2> SUFFICES ASSUME NEW l \in Lists PROVE ListAt(l)' = ListAt(l)
    OBVIOUS
  <2> QED BY ListNames, ListContents DEF lists
<1>2. \A l \in Lists : NoneTwice(ListAt(l)) /\ Members(ListAt(l)) = Members(ListAt(l)) \ {}
  BY DEF Apart
<1> QED BY <1>1, <1>2 DEF ListsLose

\* Two steps of the thread that select nothing differ in apc and locals only.
LEMMA ThreadQuiet ==
  ASSUME Places, UNCHANGED <<users, structures, info, history>>,
         apc # "callback", apc' # "callback"
  PROVE  StateTypes' /\ ListTypes' /\ Still
<1>1. /\ data' = data /\ pc' = pc /\ stamp' = stamp /\ g_last_timestamp' = g_last_timestamp
      /\ files' = files /\ current_size' = current_size /\ info' = info /\ calls' = calls
      /\ removed' = removed /\ UNCHANGED lists
  BY DEF users, input, structures, counters, history
<1>2. Accepted' = Accepted /\ Held' = Held
  BY <1>1 DEF Accepted, Held
<1>3. StateTypes'
  BY <1>1, <1>2 DEF StateTypes, Places
<1>4. ListTypes'
  BY <1>1 DEF ListTypes, Places, lists
<1>5. Still
  BY <1>1, <1>2, ListsLoseNothing DEF Still, Stays, Places
<1> QED BY <1>3, <1>4, <1>5

\* A step of a user that moves its pc, or does not, but not to a place.
LEMMA UserQuiet ==
  ASSUME Places, UNCHANGED <<data, lists, current_size, thread, calls, removed, Held, Accepted>>,
         pc' \in [Reqs -> {"new", "adding", "callback", "added"}],
         stamp' \in [Reqs -> Nat], g_last_timestamp' \in Nat,
         files' \in SUBSET Files, IsFiniteSet(files')
  PROVE  StateTypes' /\ ListTypes' /\ Still
<1>1. apc' = apc /\ info' = info /\ calls' = calls /\ removed' = removed
  BY DEF thread
<1>2. StateTypes'
  BY <1>1 DEF StateTypes, Places
<1>3. ListTypes'
  BY DEF ListTypes, Places, lists
<1>4. Still
  BY <1>1, ListsLoseNothing DEF Still, Stays, Places
<1> QED BY <1>2, <1>3, <1>4

\* Nothing the schedulers keep.
LEMMA SchedulersQuiet ==
  ASSUME SchedulerTypes, UNCHANGED <<current_alg, apc, locals, wfqVars, twinsVars>>
  PROVE  SchedulerTypes'
BY DEF SchedulerTypes, wfqVars, twinsVars

\* A user's call takes a timestamp and moves no request.
LEMMA CallAddQuiet ==
  ASSUME Places, NEW r \in Reqs, CallAdd(r), UNCHANGED <<wfqVars, twinsVars>>
  PROVE  StateTypes' /\ ListTypes' /\ Still /\ SchedulerTypes'
<1>1. PICK n \in Incremented : \E u \in Timestamps(n) :
        g_last_timestamp' = n /\ stamp' = [stamp EXCEPT ![r] = u]
  BY DEF CallAdd
<1>8. PICK t \in Timestamps(n) : g_last_timestamp' = n /\ stamp' = [stamp EXCEPT ![r] = t]
  BY <1>1
<1>9. n \in Nat
  BY DEF Incremented, Places, StateTypes
<1>2. t \in Nat
  BY <1>9 DEF Timestamps
<1>3. pc' = [pc EXCEPT ![r] = "adding"] /\ pc[r] = "new"
  BY DEF CallAdd
<1>4. /\ UNCHANGED <<data, lists, current_size, thread, calls, removed, files>>
      /\ UNCHANGED <<current_alg, apc, locals, wfqVars, twinsVars>>
  BY DEF CallAdd, input, structures, counters, thread, history
<1>5. Held' = Held /\ Accepted' = Accepted
  BY <1>3 DEF Held, Accepted, Places, StateTypes
<1>6. /\ pc' \in [Reqs -> {"new", "adding", "callback", "added"}]
      /\ stamp' \in [Reqs -> Nat] /\ g_last_timestamp' \in Nat
      /\ files' \in SUBSET Files /\ IsFiniteSet(files')
  BY <1>2, <1>3, <1>4, <1>8, <1>9 DEF Places, StateTypes
<1>7. SchedulerTypes'
  BY <1>4, SchedulersQuiet DEF Places
<1> QED BY <1>4, <1>5, <1>6, <1>7, UserQuiet

\* A release changes counters, and moves no request.
LEMMA ReleaseQuiet ==
  ASSUME Places, NEW r \in Reqs, agios_release_request(r), UNCHANGED <<wfqVars, twinsVars>>
  PROVE  StateTypes' /\ ListTypes' /\ Still /\ SchedulerTypes'
<1>1. /\ UNCHANGED <<data, lists, current_size, thread, calls, removed, files>>
      /\ UNCHANGED <<current_alg, apc, locals, wfqVars, twinsVars, pc, stamp, g_last_timestamp>>
  BY DEF agios_release_request, users, input, counters, thread
<1>2. Held' = Held /\ Accepted' = Accepted
  BY <1>1 DEF Held, Accepted
<1>3. SchedulerTypes'
  BY <1>1, SchedulersQuiet DEF Places
<1>4. /\ pc' \in [Reqs -> {"new", "adding", "callback", "added"}]
      /\ stamp' \in [Reqs -> Nat] /\ g_last_timestamp' \in Nat
      /\ files' \in SUBSET Files /\ IsFiniteSet(files')
  BY <1>1 DEF Places, StateTypes
<1> QED BY <1>1, <1>2, <1>3, <1>4, UserQuiet

\* A cancellation that finds nothing moves no request.
LEMMA FindsNothingQuiet ==
  ASSUME Places, NEW r \in Reqs, CancelFindsNothing(r), UNCHANGED <<wfqVars, twinsVars>>
  PROVE  StateTypes' /\ ListTypes' /\ Still /\ SchedulerTypes'
<1>1. /\ UNCHANGED <<data, lists, current_size, thread, calls, removed, files>>
      /\ UNCHANGED <<current_alg, apc, locals, wfqVars, twinsVars, pc, stamp, g_last_timestamp>>
  BY DEF CancelFindsNothing, input, structures, counters, thread, history
<1>2. Held' = Held /\ Accepted' = Accepted
  BY <1>1 DEF Held, Accepted
<1>3. SchedulerTypes'
  BY <1>1, SchedulersQuiet DEF Places
<1>4. /\ pc' \in [Reqs -> {"new", "adding", "callback", "added"}]
      /\ stamp' \in [Reqs -> Nat] /\ g_last_timestamp' \in Nat
      /\ files' \in SUBSET Files /\ IsFiniteSet(files')
  BY <1>1 DEF Places, StateTypes
<1> QED BY <1>1, <1>2, <1>3, <1>4, UserQuiet

\* agios_exit, and the loop of the thread.
LEMMA LoopQuiet ==
  ASSUME Places, agios_exit \/ CheckQueued \/ WakeUp \/ TestStop, UNCHANGED <<wfqVars, twinsVars>>
  PROVE  StateTypes' /\ ListTypes' /\ Still /\ SchedulerTypes'
<1>1. UNCHANGED <<users, structures, info, history>> /\ UNCHANGED <<current_alg, locals>>
  BY DEF agios_exit, CheckQueued, WakeUp, TestStop, users, input
<1>2. CASE agios_exit
  <2>1. /\ UNCHANGED <<data, lists, current_size, calls, removed, files>>
        /\ UNCHANGED <<current_alg, apc, locals, wfqVars, twinsVars, pc, stamp, g_last_timestamp,
                       info>>
    BY <1>1, <1>2 DEF agios_exit, users, input, structures, counters, history
  <2>2. Held' = Held /\ Accepted' = Accepted
    BY <2>1 DEF Held, Accepted
  <2>3. SchedulerTypes'
    BY <2>1, SchedulersQuiet DEF Places
  <2>4. StateTypes'
    BY <2>1, <2>2 DEF StateTypes, Places
  <2>5. ListTypes'
    BY <2>1 DEF ListTypes, Places, lists
  <2>6. Still
    BY <2>1, <2>2, ListsLoseNothing DEF Still, Stays, Places
  <2> QED BY <2>3, <2>4, <2>5, <2>6
<1>3. CASE CheckQueued \/ WakeUp \/ TestStop
  <2>1. apc \notin {"callback"} /\ apc' \in {"schedule", "sleep", "test", "top", "ended"}
    BY <1>3 DEF CheckQueued, WakeUp, TestStop, Go
  <2>2. SchedulerTypes'
    BY <1>1, <2>1 DEF SchedulerTypes, Places, wfqVars, twinsVars
  <2> QED BY <1>1, <2>1, <2>2, ThreadQuiet
<1> QED BY <1>2, <1>3

-----------------------------------------------------------------------------
(* The schedulers, when they select nothing.                               *)

\* Of the elements of a set the one with the smallest first number, and of those with
\* that one the smallest second.
LEMMA LeastPair ==
  ASSUME NEW T, T # {}, NEW f \in [T -> Nat], NEW g \in [T -> Nat]
  PROVE  \E x \in T : \A y \in T : f[x] < f[y] \/ (f[x] = f[y] /\ g[x] <= g[y])
<1> DEFINE F == {f[x] : x \in T}
<1>1. PICK m \in F : \A k \in F : m <= k
  <2>1. F \in SUBSET Nat /\ F # {}
    OBVIOUS
  <2> HIDE DEF F
  <2> QED BY <2>1, LeastNat
<1> DEFINE G == {g[x] : x \in {y \in T : f[y] = m}}
<1>2. PICK n \in G : \A k \in G : n <= k
  <2>1. G \in SUBSET Nat /\ G # {}
    OBVIOUS
  <2> HIDE DEF G
  <2> QED BY <2>1, LeastNat
<1>3. PICK x \in T : f[x] = m /\ g[x] = n
  OBVIOUS
<1>4. \A y \in T : f[x] < f[y] \/ (f[x] = f[y] /\ g[x] <= g[y])
  <2> SUFFICES ASSUME NEW y \in T PROVE f[x] < f[y] \/ (f[x] = f[y] /\ g[x] <= g[y])
    OBVIOUS
  <2>1. f[y] \in Nat /\ f[x] \in Nat /\ f[x] <= f[y]
    BY <1>1, <1>3
  <2>2. f[y] = f[x] => g[x] <= g[y]
    BY <1>2, <1>3
  <2> QED BY <2>1, <2>2
<1> QED BY <1>4

\* Of the queues that SJF may choose there is a first one among the smallest.
LEMMA SmallestQueue ==
  ASSUME NEW C \in SUBSET Queues, C # {}, \A q \in C : current_size[q] \in Nat
  PROVE  \E q \in C : \A p \in C \ {q} : \/ current_size[q] < current_size[p]
                                         \/ current_size[q] = current_size[p] /\ ReadBefore(q, p)
<1> DEFINE f == [q \in C |-> current_size[q]]
           g == [q \in C |-> 2 * q[1] + q[2]]
<1>1. \A q \in C : q[1] \in Nat /\ q[2] \in {0, 1} /\ q = <<q[1], q[2]>>
  <2>1. \A q \in Queues : q[1] \in Files /\ q[2] \in {0, 1} /\ q = <<q[1], q[2]>>
    BY DEF Queues, Types, RT_READ, RT_WRITE
  <2> QED BY <2>1, FilesAssumption
<1>2. f \in [C -> Nat] /\ g \in [C -> Nat]
  <2>1. \A q \in C : 2 * q[1] + q[2] \in Nat
    BY <1>1
  <2> QED BY <2>1
<1>3. PICK q \in C : \A p \in C : f[q] < f[p] \/ (f[q] = f[p] /\ g[q] <= g[p])
  <2> HIDE DEF f, g
  <2> QED BY <1>2, LeastPair
<1>4. ASSUME NEW p \in C \ {q}
      PROVE  \/ current_size[q] < current_size[p]
             \/ current_size[q] = current_size[p] /\ ReadBefore(q, p)
  <2>1. CASE f[q] < f[p]
    BY <2>1
  <2>2. CASE f[q] = f[p] /\ g[q] <= g[p]
    <3>1. 2 * q[1] + q[2] <= 2 * p[1] + p[2]
      BY <2>2
    <3>2. q[1] # p[1] \/ q[2] # p[2]
      BY <1>1, <1>4
    <3>3. q[1] < p[1] \/ (q[1] = p[1] /\ q[2] < p[2])
      BY <1>1, <1>4, <3>1, <3>2
    <3> QED BY <2>2, <3>3 DEF ReadBefore
  <2> QED BY <1>3, <1>4, <2>1, <2>2
<1> QED BY <1>4

\* What timeorder and NOOP do without a request: tests, and a failed assertion.
LEMMA TimeorderQuiet ==
  ASSUME Places, timeorder_test \/ timeorder_assert \/ NOOP_empty,
         current_alg \notin {"SJF", "aIOLi"}, UNCHANGED <<wfqVars, twinsVars>>
  PROVE  StateTypes' /\ ListTypes' /\ Still /\ SchedulerTypes'
<1>1. UNCHANGED <<users, structures, info, history>> /\ UNCHANGED <<current_alg>>
  BY DEF timeorder_test, timeorder_assert, NOOP_empty, Abort, users, input
<1>2. apc \in {"schedule", "pick"} /\ apc' \in {"pick", "test", "abort"}
  BY DEF timeorder_test, timeorder_assert, NOOP_empty, Abort, Go
<1>3. SchedulerTypes'
  BY <1>1, <1>2 DEF SchedulerTypes, Places, wfqVars, twinsVars
<1> QED BY <1>1, <1>2, <1>3, ThreadQuiet

\* The queue a scan of SJF chooses has bytes, unless it is the one chosen before.
LEMMA SJFScanFinds ==
  ASSUME Places, SJF_scan, current_alg = "SJF"
  PROVE  /\ DOMAIN locals' = {"line", "chosen", "min", "evaluated"}
         /\ locals'.chosen \in Queues \cup {NoQueue}
         /\ locals'.chosen = locals.chosen \/ (/\ locals'.chosen \in Queues
                                               /\ current_size[locals'.chosen] > 0)
<1> DEFINE here == Evaluated(locals.line)
           candidates == {q \in here \X Types : SJF_check_queue(q)}
           best == CHOOSE q \in candidates : \A p \in candidates \ {q} :
              \/ current_size[q] < current_size[p]
              \/ current_size[q] = current_size[p] /\ ReadBefore(q, p)
           seen == locals.evaluated + Cardinality(here)
<1>1. /\ apc = "scan" /\ apc' = "shortcut"
      /\ locals' = IF candidates = {} THEN [locals EXCEPT !.evaluated = seen]
                   ELSE [locals EXCEPT !.evaluated = seen, !.chosen = best,
                                       !.min = current_size[best]]
  BY DEF SJF_scan, Go
<1>2. /\ DOMAIN locals = {"line", "chosen", "min", "evaluated"}
      /\ locals.chosen \in Queues \cup {NoQueue}
  BY <1>1 DEF Places, SchedulerTypes
<1>3. candidates \in SUBSET Queues /\ \A q \in candidates : current_size[q] \in Nat \ {0}
  <2>1. candidates \in SUBSET Queues
    BY DEF Evaluated, Places, StateTypes, Queues
  <2>2. \A q \in Queues : current_size[q] \in Int
    BY DEF Places, StateTypes
  <2>3. \A q \in candidates : current_size[q] > 0
    BY DEF SJF_check_queue
  <2> HIDE DEF candidates
  <2> QED BY <2>1, <2>2, <2>3
<1> HIDE DEF candidates, seen
<1>4. CASE candidates = {}
  BY <1>1, <1>2, <1>4
<1>5. CASE candidates # {}
  <2>1. best \in Queues /\ current_size[best] > 0
    <3>1. \E q \in candidates : \A p \in candidates \ {q} :
            \/ current_size[q] < current_size[p]
            \/ current_size[q] = current_size[p] /\ ReadBefore(q, p)
      BY <1>3, <1>5, SmallestQueue
    <3>2. best \in candidates
      BY <3>1
    <3> QED BY <1>3, <3>2
  <2> HIDE DEF best
  <2> QED BY <1>1, <1>2, <1>5, <2>1
<1> QED BY <1>4, <1>5

\* The test, the scan of the lines and the sanity checks of SJF move no request.
LEMMA SJFQuiet ==
  ASSUME Places, SJF_test \/ SJF_scan \/ SJF_shortcut \/ SJF_assert,
         current_alg = "SJF", UNCHANGED <<wfqVars, twinsVars>>
  PROVE  StateTypes' /\ ListTypes' /\ Still /\ SchedulerTypes'
<1>1. UNCHANGED <<users, structures, info, history>> /\ UNCHANGED <<current_alg>>
  BY DEF SJF_test, SJF_scan, SJF_shortcut, SJF_assert, Abort, users, input
<1>2. apc \in {"schedule", "scan", "shortcut", "pick"} /\ apc' # "callback"
  BY DEF SJF_test, SJF_scan, SJF_shortcut, SJF_assert, Abort, Go
<1> DEFINE T == /\ DOMAIN locals' = {"line", "chosen", "min", "evaluated"}
                /\ locals'.chosen \in Queues \cup {NoQueue}
                /\ apc' = "pick" => locals'.chosen \in Queues
<1>3. SUFFICES apc' \in {"scan", "shortcut", "pick"} => T
  <2>1. SchedulerTypes'
    BY <1>1, <1>3 DEF SchedulerTypes, Places, wfqVars, twinsVars
  <2> QED BY <1>1, <1>2, <2>1, ThreadQuiet
<1>4. CASE SJF_test
  BY <1>4 DEF SJF_test, Go, FirstLine
<1>5. CASE SJF_scan
  BY <1>5, SJFScanFinds DEF SJF_scan, Go
<1>6. CASE SJF_shortcut
  BY <1>6 DEF SJF_shortcut, Go, Places, SchedulerTypes
<1>7. CASE SJF_assert
  BY <1>7 DEF SJF_assert, Abort, Go
<1> QED BY <1>4, <1>5, <1>6, <1>7

\* The test of WFQ and its change to the next queue move no request.
LEMMA WFQQuiet ==
  ASSUME Places, WFQ_test \/ WFQ_turn, current_alg = "WFQ", UNCHANGED twinsVars
  PROVE  StateTypes' /\ ListTypes' /\ Still /\ SchedulerTypes'
<1>1. UNCHANGED <<users, structures, info, history>> /\ UNCHANGED <<current_alg>>
  BY DEF WFQ_test, WFQ_turn, users, input
<1>2. apc \in {"schedule", "pick"} /\ apc' \in {"pick", "test", "schedule"}
  BY DEF WFQ_test, WFQ_turn, Go
<1>3. g_current_queue' \in QueueIds
  <2>1. g_current_queue \in 0 .. max_queue_id - 1 /\ max_queue_id \in Nat \ {0}
    BY AlgAssumption DEF Places, SchedulerTypes, QueueIds
  <2>2. (g_current_queue + 1) % max_queue_id \in 0 .. max_queue_id - 1
    BY <2>1
  <2>3. \/ g_current_queue' = g_current_queue
        \/ g_current_queue' = (g_current_queue + 1) % max_queue_id
    BY DEF WFQ_test, WFQ_turn
  <2> QED BY <2>1, <2>2, <2>3 DEF QueueIds
<1>4. SchedulerTypes'
  BY <1>1, <1>2, <1>3 DEF SchedulerTypes, Places, twinsVars
<1> QED BY <1>1, <1>2, <1>4, ThreadQuiet

\* The server of a window of TWINS has a queue.
LEMMA WindowType ==
  ASSUME g_current_twins_server \in 0 .. max_queue_id, NEW elapsed
  PROVE  Window(elapsed) \in 0 .. max_queue_id
<1>1. max_queue_id \in Nat
  BY AlgAssumption
<1>2. (g_current_twins_server + 1) % (max_queue_id + 1) \in 0 .. max_queue_id
  BY <1>1
<1>3. 0 \in 0 .. max_queue_id
  BY <1>1
<1> QED BY <1>2, <1>3 DEF Window, NextServer

\* The test of TWINS and its end of a window move no request.
LEMMA TWINSQuiet ==
  ASSUME Places, TWINS_test \/ \E elapsed \in BOOLEAN : TWINS_break(elapsed),
         current_alg = "TWINS", UNCHANGED wfqVars
  PROVE  StateTypes' /\ ListTypes' /\ Still /\ SchedulerTypes'
<1>1. UNCHANGED <<users, structures, info, history>> /\ UNCHANGED <<current_alg>>
  BY DEF TWINS_test, TWINS_break, users, input
<1>2. apc \in {"schedule", "pick"} /\ apc' \in {"pick", "test", "sleep"}
  BY DEF TWINS_test, TWINS_break, ReturnWaitingTime, Go
<1>3. g_current_twins_server' \in 0 .. max_queue_id
  BY WindowType DEF Places, SchedulerTypes, TWINS_test, TWINS_break, twinsVars
<1>4. SchedulerTypes'
  BY <1>1, <1>2, <1>3 DEF SchedulerTypes, Places, wfqVars
<1> QED BY <1>1, <1>2, <1>4, ThreadQuiet

\* MLF moves no request when it tests a counter or fails to take a mutex.
LEMMA MLFQuiet ==
  ASSUME Places, MLF_test \/ MLF_skip,
         current_alg = "MLF", UNCHANGED <<wfqVars, twinsVars>>
  PROVE  StateTypes' /\ ListTypes' /\ Still /\ SchedulerTypes'
<1>1. UNCHANGED <<users, structures, info, history>> /\ UNCHANGED <<current_alg>>
  BY DEF MLF_test, MLF_skip, users, input
<1>2. apc # "callback" /\ apc' # "callback"
  BY DEF MLF_test, MLF_skip, NextLine, Go
<1>3. SchedulerTypes'
  BY <1>1 DEF SchedulerTypes, Places, wfqVars, twinsVars
<1> QED BY <1>1, <1>2, <1>3, ThreadQuiet

\* aIOLi moves no request when it tests, checks the selected queue, or finds none.
LEMMA aIOLiQuiet ==
  ASSUME Places, aIOLi_test \/ aIOLi_check \/ aIOLi_none \/ aIOLi_undefined,
         current_alg = "aIOLi", UNCHANGED <<wfqVars, twinsVars>>
  PROVE  StateTypes' /\ ListTypes' /\ Still /\ SchedulerTypes'
<1>1. UNCHANGED <<users, structures, info, history>> /\ UNCHANGED <<current_alg>>
  BY DEF aIOLi_test, aIOLi_check, aIOLi_none, aIOLi_undefined, Abort, users, input
<1>2. apc \in {"schedule", "pick", "drain"} /\ apc' # "callback"
  BY DEF aIOLi_test, aIOLi_check, aIOLi_none, aIOLi_undefined, Abort, Go
<1> DEFINE T == /\ DOMAIN locals' = {"line", "selected", "timestamp", "waiting_options", "known"}
                /\ locals'.selected \in Queues \cup {NoQueue}
                /\ apc' = "drain" => locals'.selected \in Queues
<1>3. SUFFICES apc' \in {"scan", "pick", "drain"} => T
  <2>1. SchedulerTypes'
    BY <1>1, <1>3 DEF SchedulerTypes, Places, wfqVars, twinsVars
  <2> QED BY <1>1, <1>2, <2>1, ThreadQuiet
<1>4. CASE aIOLi_test
  BY <1>4 DEF aIOLi_test, Go, FirstScan
<1>5. CASE aIOLi_check
  <2>1. /\ apc = "pick" /\ locals.selected # NoQueue
        /\ \/ apc' = "drain" /\ locals' = locals
           \/ apc' = "schedule"
    BY <1>5 DEF aIOLi_check, Go
  <2> QED BY <2>1 DEF Places, SchedulerTypes
<1>6. CASE aIOLi_none
  BY <1>6 DEF aIOLi_none, Go
<1>7. CASE aIOLi_undefined
  BY <1>7 DEF aIOLi_undefined, Abort, Go
<1> QED BY <1>4, <1>5, <1>6, <1>7

\* Time that passes moves no request.
LEMMA TickQuiet ==
  ASSUME Places, Tick, UNCHANGED <<wfqVars, twinsVars>>
  PROVE  StateTypes' /\ ListTypes' /\ Still /\ SchedulerTypes'
<1>1. /\ UNCHANGED <<data, lists, current_size, thread, calls, removed, files>>
      /\ UNCHANGED <<current_alg, apc, locals, pc, stamp, g_last_timestamp>>
  BY DEF Tick, coreVars, users, input, structures, counters, thread, history
<1>2. Held' = Held /\ Accepted' = Accepted
  BY <1>1 DEF Held, Accepted
<1>3. SchedulerTypes'
  BY <1>1, SchedulersQuiet DEF Places
<1>4. /\ pc' \in [Reqs -> {"new", "adding", "callback", "added"}]
      /\ stamp' \in [Reqs -> Nat] /\ g_last_timestamp' \in Nat
      /\ files' \in SUBSET Files /\ IsFiniteSet(files')
  BY <1>1 DEF Places, StateTypes
<1> QED BY <1>1, <1>2, <1>3, <1>4, UserQuiet

-----------------------------------------------------------------------------
(* A request comes in.                                                     *)

\* One list changes, the others do not.
LEMMA TimelineChanges ==
  ASSUME UNCHANGED <<multi_timeline, queues>>
  PROVE  /\ TimelineList \in Lists /\ ListAt(TimelineList) = timeline
         /\ ListAt(TimelineList)' = timeline'
         /\ \A m \in Lists \ {TimelineList} : ListAt(m)' = ListAt(m)
<1>1. ASSUME NEW m \in Lists, m # TimelineList PROVE ListAt(m)' = ListAt(m)
  BY <1>1, ListNames, ListContents
<1> QED BY <1>1, ListNames, ListContents

\* A change of one window of the multi_timeline is a change of one list.
LEMMA MultiChanges ==
  ASSUME ListTypes, UNCHANGED <<timeline, queues>>, NEW i \in 0 .. max_queue_id, NEW new,
         multi_timeline' = [multi_timeline EXCEPT ![i] = new]
  PROVE  /\ MultiList(i) \in Lists /\ ListAt(MultiList(i)) = multi_timeline[i]
         /\ ListAt(MultiList(i))' = new
         /\ \A m \in Lists \ {MultiList(i)} : ListAt(m)' = ListAt(m)
<1>1. /\ multi_timeline'[i] = new
      /\ \A j \in (0 .. max_queue_id) \ {i} : multi_timeline'[j] = multi_timeline[j]
  BY DEF ListTypes
<1>2. ASSUME NEW m \in Lists, m # MultiList(i) PROVE ListAt(m)' = ListAt(m)
  BY <1>1, <1>2, ListNames, ListContents
<1> QED BY <1>1, <1>2, ListNames, ListContents

\* A change of one queue of the hashtable is a change of one list.
LEMMA QueueChanges ==
  ASSUME ListTypes, UNCHANGED <<timeline, multi_timeline>>, NEW q \in Queues, NEW new,
         queues' = [queues EXCEPT ![q] = new]
  PROVE  /\ QueueList(q) \in Lists /\ ListAt(QueueList(q)) = queues[q]
         /\ ListAt(QueueList(q))' = new
         /\ \A m \in Lists \ {QueueList(q)} : ListAt(m)' = ListAt(m)
<1>1. queues'[q] = new /\ \A p \in Queues \ {q} : queues'[p] = queues[p]
  BY DEF ListTypes
<1>2. ASSUME NEW m \in Lists, m # QueueList(q) PROVE ListAt(m)' = ListAt(m)
  BY <1>1, <1>2, ListNames, ListContents
<1> QED BY <1>1, <1>2, ListNames, ListContents

\* A list of one queue is a list of entries.
LEMMA QueueIsList ==
  ASSUME NEW D, NEW q, NEW list \in ListOf(D, q)
  PROVE  list \in Seq(Entry(D)) /\ list \in Seq(EntryOf(D, q))
<1>1. EntryOf(D, q) \subseteq Entry(D)
  BY DEF EntryOf
<1>2. list \in Seq(EntryOf(D, q))
  BY DEF ListOf
<1>3. list \in Seq(Entry(D))
  BY <1>1, <1>2, SeqMonotonic
<1> QED BY <1>2, <1>3

\* The request agios_add_request constructs.
LEMMA NewRequest ==
  ASSUME StateTypes, NEW r \in Reqs
  PROVE  /\ Request(r) \in Simple(data) /\ Request(r).queue = data[r].queue
         /\ Request(r).id = r /\ IdSet(Request(r)) = {r} /\ OneEach(Request(r))
         /\ Request(r) \in Entry(data)
<1> DEFINE e == Request(r)
<1>1. e = [id |-> r, queue |-> data[r].queue, offset |-> data[r].offset, len |-> data[r].len,
           timestamp |-> stamp[r], sched_factor |-> 0, reqnb |-> 1, subs |-> <<>>]
  BY DEF Request, request_constructor
<1>2. /\ r \in DOMAIN data /\ data[r].queue \in QueuesOf(data) /\ data[r].offset \in Nat
      /\ data[r].len \in Nat /\ stamp[r] \in Nat
  BY DataAre DEF StateTypes, QueuesOf
<1>3. e \in Simple(data) /\ e.queue = data[r].queue /\ e.id = r
  BY <1>1, <1>2 DEF Simple
<1> HIDE DEF e
<1>4. e \in Entry(data)
  BY <1>3 DEF Entry
<1>5. IdSet(e) = {e.id} /\ OneEach(e)
  BY <1>3, <1>4, IdsOfEntry
<1> QED BY <1>3, <1>4, <1>5 DEF e

\* A request goes into one list.
LEMMA InsertComesIn ==
  ASSUME Places, NEW r \in Reqs \ Accepted, Insert(r), data' = data
  PROVE  /\ ListTypes'
         /\ \E l \in Lists : /\ Members(ListAt(l)') = Members(ListAt(l)) \cup {r}
                             /\ \A m \in Lists \ {l} : ListAt(m)' = ListAt(m)
         /\ \A l \in Lists : NoneTwice(ListAt(l)')
<1> DEFINE e == Request(r)
           Goes(l) == /\ Members(ListAt(l)') = Members(ListAt(l)) \cup {r}
                      /\ \A m \in Lists \ {l} : ListAt(m)' = ListAt(m)
                      /\ NoneTwice(ListAt(l)')
<1>1. /\ e \in Simple(data) /\ e.queue = data[r].queue /\ e.id = r
      /\ IdSet(e) = {r} /\ OneEach(e) /\ e \in Entry(data)
  BY NewRequest DEF Places
<1>2. /\ IsData(data) /\ data[r].queue \in Queues /\ data[r].queue_id \in 0 .. max_queue_id
  <2>1. IsData(data) /\ data[r].queue \in Queues /\ data[r].queue_id \in QueueIds
    BY DataAre DEF Places, StateTypes
  <2>2. QueueIds \subseteq 0 .. max_queue_id
    BY AlgAssumption DEF QueueIds
  <2> QED BY <2>1, <2>2
<1>3. \A l \in Lists : r \notin Members(ListAt(l)) /\ NoneTwice(ListAt(l))
  <2>1. Waiting = UNION {Members(ListAt(l)) : l \in Lists}
    BY WaitingAre DEF Places
  <2> QED BY <2>1 DEF Places, Complete, Apart
<1>4. max_aggreg_size \in Nat \ {0}
  BY AlgAssumption DEF max_aggreg_size
<1> HIDE DEF e
<1>5. SUFFICES ListTypes' /\ \E l \in Lists : Goes(l)
  <2> SUFFICES ASSUME NEW l \in Lists, Goes(l)
               PROVE  \A m \in Lists : NoneTwice(ListAt(m)')
    BY <1>5
  <2> QED BY <1>3
<1>6. ASSUME needs_hashtable,
             queues' = [queues EXCEPT ![data[r].queue] =
                          hashtable_add_req(e, queues[data[r].queue], max_aggreg_size)],
             UNCHANGED <<timeline, multi_timeline>>
      PROVE  ListTypes' /\ \E l \in Lists : Goes(l)
  <2> DEFINE q   == data[r].queue
             new == hashtable_add_req(e, queues[q], max_aggreg_size)
  <2>1. /\ QueueList(q) \in Lists /\ ListAt(QueueList(q)) = queues[q]
        /\ ListAt(QueueList(q))' = new
        /\ \A m \in Lists \ {QueueList(q)} : ListAt(m)' = ListAt(m)
    BY <1>2, <1>6, QueueChanges DEF Places
  <2>2. queues[q] \in ListOf(data, e.queue) /\ NoneTwice(queues[q]) /\ e.id \notin Members(queues[q])
    BY <1>1, <1>2, <1>3, <2>1 DEF Places, ListTypes
  <2>3. new \in ListOf(data, q) /\ NoneTwice(new) /\ Members(new) = Members(queues[q]) \cup {r}
    <3>1. /\ new \in ListOf(data, e.queue) /\ NoneTwice(new)
          /\ Members(new) = Members(queues[q]) \cup {e.id}
      BY <1>1, <1>2, <1>4, <2>2, HashtableAdds
    <3> QED BY <1>1, <3>1
  <2> HIDE DEF new
  <2>4. new \in Seq(Entry(data))
    BY <2>3, QueueIsList
  <2>5. queues' = [queues EXCEPT ![q] = new]
    BY <1>6 DEF new
  <2>6. ListTypes'
    BY <1>2, <1>6, <2>3, <2>4, <2>5 DEF Places, ListTypes
  <2> QED BY <2>1, <2>3, <2>6
<1>7. ASSUME multi_timeline' = [multi_timeline EXCEPT ![data[r].queue_id] =
                                  Append(multi_timeline[data[r].queue_id], e)],
             UNCHANGED <<timeline, queues>>
      PROVE  ListTypes' /\ \E l \in Lists : Goes(l)
  <2> DEFINE i   == data[r].queue_id
             new == Append(multi_timeline[i], e)
  <2>1. /\ MultiList(i) \in Lists /\ ListAt(MultiList(i)) = multi_timeline[i]
        /\ ListAt(MultiList(i))' = new
        /\ \A m \in Lists \ {MultiList(i)} : ListAt(m)' = ListAt(m)
    BY <1>2, <1>7, MultiChanges DEF Places
  <2>2. /\ multi_timeline[i] \in Seq(Simple(data)) /\ NoneTwice(multi_timeline[i])
        /\ IdSet(e) \cap Members(multi_timeline[i]) = {}
    BY <1>1, <1>2, <1>3, <2>1 DEF Places, ListTypes
  <2>3. new \in Seq(Simple(data)) /\ NoneTwice(new) /\ Members(new) = Members(multi_timeline[i]) \cup {r}
    <3>1. /\ new \in Seq(Simple(data)) /\ NoneTwice(new)
          /\ Members(new) = Members(multi_timeline[i]) \cup IdSet(e)
      BY <1>1, <2>2, WithLast
    <3> QED BY <1>1, <3>1
  <2>4. multi_timeline' = [multi_timeline EXCEPT ![i] = new]
    BY <1>7
  <2> HIDE DEF new
  <2>5. \A s \in Members(new) : data[s].queue_id = i
    BY <1>2, <2>3 DEF Places, ListTypes
  <2>6. ListTypes'
    BY <1>2, <1>7, <2>3, <2>4, <2>5 DEF Places, ListTypes
  <2> QED BY <2>1, <2>3, <2>6
<1>8. ASSUME NEW new \in Seq(Entry(data)), NoneTwice(new), Members(new) = Members(timeline) \cup {r},
             timeline' = new, UNCHANGED <<multi_timeline, queues>>
      PROVE  ListTypes' /\ \E l \in Lists : Goes(l)
  <2>1. /\ TimelineList \in Lists /\ ListAt(TimelineList) = timeline
        /\ ListAt(TimelineList)' = new
        /\ \A m \in Lists \ {TimelineList} : ListAt(m)' = ListAt(m)
    BY <1>8, TimelineChanges
  <2>2. ListTypes'
    BY <1>8 DEF Places, ListTypes
  <2> QED BY <1>8, <2>1, <2>2
<1>9. timeline \in Seq(Entry(data)) /\ NoneTwice(timeline) /\ r \notin Members(timeline)
  BY <1>3, ListNames, ListContents DEF Places, ListTypes
<1>10. ASSUME timeline' = timeline_add_req(e, timeline, current_alg = "TO-agg", max_aggreg_size),
              UNCHANGED <<multi_timeline, queues>>
       PROVE  ListTypes' /\ \E l \in Lists : Goes(l)
  <2> DEFINE agg == current_alg = "TO-agg"
             new == timeline_add_req(e, timeline, agg, max_aggreg_size)
  <2>1. agg \in BOOLEAN
    OBVIOUS
  <2>2. e.id \notin Members(timeline)
    BY <1>1, <1>9
  <2> HIDE DEF agg
  <2>3. /\ new \in Seq(Entry(data)) /\ NoneTwice(new)
        /\ Members(new) = Members(timeline) \cup {e.id}
    BY <1>1, <1>2, <1>4, <1>9, <2>1, <2>2, TimelineAdds
  <2>4. timeline' = new
    BY <1>10 DEF agg
  <2> HIDE DEF new
  <2> QED BY <1>1, <1>8, <1>10, <2>3, <2>4
<1>11. ASSUME NEW i \in 1 .. Len(timeline) + 1, timeline' = InsertAt(timeline, i, e),
              UNCHANGED <<multi_timeline, queues>>
       PROVE  ListTypes' /\ \E l \in Lists : Goes(l)
  <2> DEFINE new == InsertAt(timeline, i, e)
  <2>1. IdSet(e) \cap Members(timeline) = {}
    BY <1>1, <1>9
  <2>2. /\ new \in Seq(Entry(data)) /\ NoneTwice(new)
        /\ Members(new) = Members(timeline) \cup IdSet(e)
    BY <1>1, <1>9, <2>1, WithEntry
  <2>3. timeline' = new
    BY <1>11
  <2> HIDE DEF new
  <2> QED BY <1>1, <1>8, <1>11, <2>2, <2>3
<1> HIDE DEF Goes
<1> QED BY <1>6, <1>7, <1>10, <1>11 DEF Insert, e

\* The counters of a new request keep their types.
LEMMA AddTypes ==
  ASSUME Places, NEW r \in Reqs, pc[r] = "adding",
         files' = files \cup {FileOf(data[r].queue)},
         UNCHANGED <<data, info, calls, removed, apc>>, g_last_timestamp' \in Nat,
         current_size' \in [Queues -> Int],
         stamp' = [stamp EXCEPT ![r] = 0], NEW at \in {"callback", "added"},
         pc' = [pc EXCEPT ![r] = at]
  PROVE  /\ StateTypes' /\ r \notin Accepted /\ Accepted' = Accepted \cup {r}
         /\ at = "added" => Held' = Held
         /\ at = "callback" => Held' = Held \cup {r}
<1>1. pc \in [Reqs -> {"new", "adding", "callback", "added"}] /\ IsFiniteSet(Accepted)
  BY DEF Places, StateTypes
<1>2. /\ r \notin Accepted /\ Accepted' = Accepted \cup {r}
      /\ at = "added" => Held' = Held
      /\ at = "callback" => Held' = Held \cup {r}
  BY <1>1 DEF Accepted, Held
<1>3. IsFiniteSet(Accepted')
  BY <1>1, <1>2, FS_AddElement
<1>4. files' \in SUBSET Files /\ IsFiniteSet(files')
  <2>1. data[r].queue \in Queues
    BY DataAre DEF Places, StateTypes
  <2>2. FileOf(data[r].queue) \in Files
    BY <2>1 DEF Queues, FileOf
  <2> QED BY <2>2, FS_AddElement DEF Places, StateTypes
<1>5. StateTypes'
  BY <1>3, <1>4 DEF Places, StateTypes
<1> QED BY <1>2, <1>5

\* agios_add_request, with any algorithm but NOOP, puts its request into one list.
LEMMA AddComesIn ==
  ASSUME Places, NEW r \in Reqs, Add(r), UNCHANGED <<wfqVars, twinsVars>>
  PROVE  StateTypes' /\ ListTypes' /\ SchedulerTypes' /\ ComesIn(r)
<1>1. /\ pc[r] = "adding" /\ UNCHANGED <<data, info, calls, removed, apc>>
      /\ files' = files \cup {FileOf(data[r].queue)}
      /\ stamp' = [stamp EXCEPT ![r] = 0] /\ pc' = [pc EXCEPT ![r] = "added"]
      /\ UNCHANGED <<current_alg, apc, locals>>
  BY DEF Add, CountNew, input, thread, history
<1>8. g_last_timestamp' \in Nat
  BY DEF Add, Incremented, Places, StateTypes
<1>2. current_size' \in [Queues -> Int]
  <2>1. current_size' = [current_size EXCEPT ![data[r].queue] = current_size[data[r].queue] + data[r].len]
    BY DEF Add, CountNew
  <2>2. data[r].len \in Nat /\ data[r].queue \in Queues
    BY DataAre DEF Places, StateTypes
  <2> QED BY <2>1, <2>2 DEF Places, StateTypes
<1>3. StateTypes' /\ r \notin Accepted /\ Accepted' = Accepted \cup {r} /\ Held' = Held
  BY <1>1, <1>2, <1>8, AddTypes
<1>4. Insert(r)
  BY DEF Add
<1>5. /\ ListTypes'
      /\ \E l \in Lists : /\ Members(ListAt(l)') = Members(ListAt(l)) \cup {r}
                          /\ \A m \in Lists \ {l} : ListAt(m)' = ListAt(m)
      /\ \A l \in Lists : NoneTwice(ListAt(l)')
  BY <1>1, <1>3, <1>4, InsertComesIn
<1>6. ComesIn(r)
  BY <1>1, <1>3, <1>5 DEF ComesIn
<1>7. SchedulerTypes'
  BY <1>1, SchedulersQuiet DEF Places
<1> QED BY <1>3, <1>5, <1>6, <1>7

\* agios_add_request with NOOP holds its request for the callback and puts it into no
\* list.
LEMMA AddNoopGoesPast ==
  ASSUME Places, NEW r \in Reqs, AddNoop(r), UNCHANGED <<wfqVars, twinsVars>>
  PROVE  StateTypes' /\ ListTypes' /\ SchedulerTypes' /\ GoesPast(r)
<1>1. /\ pc[r] = "adding" /\ UNCHANGED <<data, info, calls, removed, apc, g_last_timestamp>>
      /\ files' = files \cup {FileOf(data[r].queue)}
      /\ stamp' = [stamp EXCEPT ![r] = 0] /\ pc' = [pc EXCEPT ![r] = "callback"]
      /\ UNCHANGED <<current_alg, apc, locals>> /\ UNCHANGED lists /\ current_size' = current_size
  BY DEF AddNoop, input, thread, history, counters
<1>2. /\ StateTypes' /\ r \notin Accepted /\ Accepted' = Accepted \cup {r}
      /\ Held' = Held \cup {r}
  <2>1. current_size' \in [Queues -> Int] /\ g_last_timestamp' \in Nat
    BY <1>1 DEF Places, StateTypes
  <2> QED BY <1>1, <2>1, AddTypes
<1>3. ListTypes'
  BY <1>1 DEF ListTypes, Places, lists
<1>4. GoesPast(r)
  BY <1>1, <1>2, ListsLoseNothing DEF GoesPast, Places
<1>5. SchedulerTypes'
  BY <1>1, SchedulersQuiet DEF Places
<1> QED BY <1>2, <1>3, <1>4, <1>5

\* The callback NOOP makes gives back the request that was added.
LEMMA NoopCallbackComesBack ==
  ASSUME Places, NEW r \in Reqs, NoopCallback(r), UNCHANGED <<wfqVars, twinsVars>>
  PROVE  StateTypes' /\ ListTypes' /\ SchedulerTypes' /\ ComesBack(r)
<1>1. /\ pc[r] = "callback" /\ UNCHANGED <<data, info, removed, apc, g_last_timestamp, stamp, files>>
      /\ calls' = Append(calls, <<r>>) /\ pc' = [pc EXCEPT ![r] = "added"]
      /\ UNCHANGED <<current_alg, apc, locals>> /\ UNCHANGED lists /\ current_size' = current_size
  BY DEF NoopCallback, input, thread, structures, counters
<1>2. Accepted' = Accepted /\ Held' = Held \ {r} /\ r \in Held
  BY <1>1 DEF Accepted, Held, Places, StateTypes
<1>3. StateTypes'
  <2>1. calls' \in IdLists
    <3>1. <<r>> \in Seq(Reqs) \ {<<>>}
      OBVIOUS
    <3>2. calls \in Seq(Seq(Reqs) \ {<<>>})
      BY DEF Places, StateTypes, IdLists
    <3> QED BY <1>1, <3>1, <3>2, AppendProperties DEF IdLists
  <2> QED BY <1>1, <1>2, <2>1 DEF Places, StateTypes
<1>4. ListTypes'
  BY <1>1 DEF ListTypes, Places, lists
<1>5. ComesBack(r)
  BY <1>1, <1>2, ListsLoseNothing DEF ComesBack, Places
<1>6. SchedulerTypes'
  BY <1>1, SchedulersQuiet DEF Places
<1> QED BY <1>3, <1>4, <1>5, <1>6

-----------------------------------------------------------------------------
(* A cancellation takes a request out.                                     *)

\* A list that loses some of its requests, the other lists as they were: since no
\* request is in two lists, those requests are in none.
LEMMA OneListLoses ==
  ASSUME Apart, NEW l \in Lists, NEW B \in SUBSET Members(ListAt(l)),
         Members(ListAt(l)') = Members(ListAt(l)) \ B, NoneTwice(ListAt(l)'),
         \A m \in Lists \ {l} : ListAt(m)' = ListAt(m)
  PROVE  ListsLose(B)
<1>1. ASSUME NEW m \in Lists, m # l
      PROVE  Members(ListAt(m)') = Members(ListAt(m)) \ B /\ NoneTwice(ListAt(m)')
  <2>1. Members(ListAt(l)) \cap Members(ListAt(m)) = {} /\ NoneTwice(ListAt(m))
    BY <1>1 DEF Apart
  <2>2. ListAt(m)' = ListAt(m)
    BY <1>1
  <2> QED BY <2>1, <2>2
<1> QED BY <1>1 DEF ListsLose

\* A cancellation that finds a request takes that one request out of the list it
\* searched.
LEMMA CancelRemovesLeaves ==
  ASSUME Places, NEW r \in Reqs, CancelRemoves(r), UNCHANGED <<wfqVars, twinsVars>>
  PROVE  LET gone == Cancelled(SearchedList(r), Found(r), data[r].offset, data[r].len)
         IN  /\ StateTypes' /\ ListTypes' /\ SchedulerTypes' /\ Leaves(gone.id)
             /\ gone \in Simple(data)
             /\ gone.offset = data[r].offset /\ gone.len = data[r].len
             /\ needs_hashtable => gone.queue = data[r].queue
<1> DEFINE list == SearchedList(r)
           left == CancelEntry(list, Found(r), data[r].offset, data[r].len)
           gone == Cancelled(list, Found(r), data[r].offset, data[r].len)
<1>1. IsData(data) /\ data[r].queue \in Queues
  BY DataAre DEF Places, StateTypes
<1>a. PICK q \in Queues : q = data[r].queue
  BY <1>1
<1>b. PICK name \in Lists : name = IF needs_hashtable THEN QueueList(q) ELSE TimelineList
  BY ListNames
<1> DEFINE E == IF needs_hashtable THEN EntryOf(data, q) ELSE Entry(data)
<1>2. list \in Seq(E) /\ name \in Lists /\ ListAt(name) = list /\ NoneTwice(list)
  <2>1. list \in Seq(E) /\ name \in Lists /\ ListAt(name) = list
    BY <1>1, <1>a, <1>b, QueueIsList, ListNames, ListContents DEF SearchedList, Places, ListTypes
  <2> QED BY <2>1 DEF Places, Apart
<1>3. E \in SUBSET Entry(data) /\ \A a \in E : \A b \in Entry(data) : b.queue = a.queue => b \in E
  BY DEF EntryOf
<1>4. Found(r) = FindEntry(list, data[r].offset, data[r].len) /\ Found(r) # 0
  BY DEF Found, CancelRemoves
<1> HIDE DEF list, E
<1>5. /\ gone \in Simple(data) /\ gone.id \in Members(list)
      /\ left \in Seq(E) /\ NoneTwice(left) /\ Members(left) = Members(list) \ {gone.id}
      /\ gone.offset = data[r].offset /\ gone.len = data[r].len /\ gone.queue = list[Found(r)].queue
      /\ list[Found(r)] \in E
  BY <1>1, <1>2, <1>3, <1>4, CancelLeaves
<1>6. /\ IF needs_hashtable
         THEN queues' = [queues EXCEPT ![q] = left] /\ UNCHANGED timeline
         ELSE timeline' = left /\ UNCHANGED queues
      /\ UNCHANGED multi_timeline
      /\ removed' = removed \cup {gone.id}
      /\ current_size' = [current_size EXCEPT ![gone.queue] = current_size[gone.queue] - gone.len]
      /\ UNCHANGED <<data, pc, stamp, g_last_timestamp, files, info, calls, apc>>
      /\ UNCHANGED <<current_alg, apc, locals>>
  BY <1>a DEF CancelRemoves, CountCancelled, input, thread, list
<1> HIDE DEF left, gone
<1>7. /\ ListAt(name)' = left
      /\ \A m \in Lists \ {name} : ListAt(m)' = ListAt(m)
  <2>1. CASE needs_hashtable
    <3>1. /\ ListTypes /\ UNCHANGED <<timeline, multi_timeline>>
          /\ queues' = [queues EXCEPT ![q] = left] /\ name = QueueList(q)
      BY <1>6, <1>b, <2>1 DEF Places
    <3> QED BY <3>1, QueueChanges
  <2>2. CASE ~ needs_hashtable
    <3>1. UNCHANGED <<multi_timeline, queues>> /\ timeline' = left /\ name = TimelineList
      BY <1>6, <1>b, <2>2
    <3> QED BY <3>1, TimelineChanges
  <2> QED BY <2>1, <2>2
<1>8. ListsLose({gone.id})
  <2>1. {gone.id} \in SUBSET Members(ListAt(name)) /\ Apart
    BY <1>2, <1>5 DEF Places
  <2>2. Members(ListAt(name)') = Members(ListAt(name)) \ {gone.id} /\ NoneTwice(ListAt(name)')
    BY <1>2, <1>5, <1>7
  <2>3. \A x : {x} \in SUBSET Members(ListAt(name)) /\ Members(ListAt(name)') = Members(ListAt(name)) \ {x}
               => ListsLose({x})
    BY <1>7, <2>1, <2>2, OneListLoses
  <2> QED BY <2>1, <2>2, <2>3
<1>9. ListTypes'
  <2>1. CASE needs_hashtable
    <3>1. left \in ListOf(data, q)
      BY <1>5, <2>1 DEF E, ListOf
    <3>2. left \in Seq(Entry(data))
      BY <3>1, QueueIsList
    <3> QED BY <1>1, <1>6, <2>1, <3>1, <3>2 DEF Places, ListTypes
  <2>2. CASE ~ needs_hashtable
    BY <1>5, <1>6, <2>2 DEF Places, ListTypes, E
  <2> QED BY <2>1, <2>2
<1>10. gone.id \in Reqs /\ gone.len \in Nat /\ gone.queue \in Queues
  BY <1>5, DataAre DEF Simple, Places, StateTypes
<1>11. Held' = Held /\ Accepted' = Accepted
  BY <1>6 DEF Held, Accepted
<1>12. StateTypes'
  <2>1. current_size' \in [Queues -> Int]
    BY <1>6, <1>10 DEF Places, StateTypes
  <2> QED BY <1>6, <1>10, <1>11, <2>1 DEF Places, StateTypes
<1>13. gone.id \in Waiting
  BY <1>2, <1>5, WaitingAre DEF Places
<1>14. Leaves(gone.id)
  BY <1>6, <1>8, <1>11, <1>13 DEF Leaves
<1>15. SchedulerTypes'
  BY <1>6, SchedulersQuiet DEF Places
<1>16. needs_hashtable => gone.queue = data[r].queue
  BY <1>a, <1>5 DEF E, EntryOf
<1> QED BY <1>5, <1>9, <1>12, <1>14, <1>15, <1>16 DEF gone, list

-----------------------------------------------------------------------------
(* A batch is given back.                                                  *)

\* The first sequence of ids leaves.
LEMMA FirstLeaves ==
  ASSUME NEW S, NEW c \in Seq(Seq(S) \ {<<>>}), c # <<>>, Once(c)
  PROVE  /\ Head(c) \in Seq(S) /\ Head(c) # <<>>
         /\ \A k, m \in DOMAIN Head(c) : Head(c)[k] = Head(c)[m] => k = m
         /\ ToSet(Head(c)) \in SUBSET AllIds(c)
         /\ Tail(c) \in Seq(Seq(S) \ {<<>>}) /\ Once(Tail(c))
         /\ AllIds(Tail(c)) = AllIds(c) \ ToSet(Head(c))
<1> DEFINE t == Tail(c)
           h == Head(c)
<1>1. /\ h \in Seq(S) \ {<<>>} /\ t \in Seq(Seq(S) \ {<<>>}) /\ Len(t) = Len(c) - 1
      /\ \A i \in 1 .. Len(t) : t[i] = c[i + 1]
  BY HeadTailProperties
<1>2. h = c[1]
  OBVIOUS
<1> HIDE DEF t, h
<1>3. Len(c) \in Nat \ {0}
  BY EmptySeq, LenProperties
<1>4. DOMAIN c = 1 .. Len(c) /\ DOMAIN t = 1 .. Len(t)
  BY <1>1, LenProperties
<1> DEFINE from == [j \in DOMAIN t |-> j + 1]
<1>5. /\ 1 \in DOMAIN c
      /\ \A j \in DOMAIN t : from[j] \in DOMAIN c \ {1} /\ t[j] = c[from[j]]
      /\ \A i, j \in DOMAIN t : from[i] = from[j] => i = j
      /\ \A i \in DOMAIN c \ {1} : \E j \in DOMAIN t : from[j] = i
  <2> DEFINE n == Len(c)
  <2>1. n \in Nat \ {0} /\ DOMAIN c = 1 .. n /\ DOMAIN t = 1 .. n - 1
    BY <1>1, <1>3, <1>4
  <2>2. \A i \in 1 .. n - 1 : t[i] = c[i + 1]
    BY <1>1
  <2> HIDE DEF n
  <2>3. \A i \in DOMAIN c \ {1} : i - 1 \in DOMAIN t /\ from[i - 1] = i
    BY <2>1
  <2>4. 1 \in DOMAIN c /\ \A i, j \in DOMAIN t : from[i] = from[j] => i = j
    BY <2>1
  <2>5. \A j \in DOMAIN t : from[j] \in DOMAIN c \ {1} /\ t[j] = c[from[j]]
    BY <2>1, <2>2
  <2> HIDE DEF from
  <2> QED BY <2>3, <2>4, <2>5
<1> HIDE DEF from
<1>6. Once(t)
  BY <1>5 DEF Once
<1>7. \A k, m \in DOMAIN h : h[k] = h[m] => k = m
  BY <1>2, <1>5 DEF Once
<1>8. ToSet(h) \in SUBSET AllIds(c)
  BY <1>2, <1>5 DEF AllIds
<1>9. ASSUME NEW x PROVE x \in AllIds(t) <=> x \in AllIds(c) \ ToSet(h)
  <2>1. x \in AllIds(t) <=> \E j \in DOMAIN t : x \in ToSet(t[j])
    BY DEF AllIds
  <2>2. x \in AllIds(c) <=> \E i \in DOMAIN c : x \in ToSet(c[i])
    BY DEF AllIds
  <2>3. \A i, j \in DOMAIN c : x \in ToSet(c[i]) /\ x \in ToSet(c[j]) => i = j
    BY DEF Once, ToSet
  <2> QED BY SMTT(60), <1>2, <1>5, <2>1, <2>2, <2>3
<1> QED BY <1>1, <1>6, <1>7, <1>8, <1>9 DEF t, h

\* The first id of the first sequence leaves, which has others.
LEMMA FirstIdLeaves ==
  ASSUME NEW S, NEW c \in Seq(Seq(S) \ {<<>>}), c # <<>>, Once(c), Len(Head(c)) # 1
  PROVE  LET d == <<Tail(Head(c))>> \o Tail(c)
             x == Head(Head(c))
         IN  /\ x \in S /\ x \in AllIds(c)
             /\ d \in Seq(Seq(S) \ {<<>>}) /\ d # <<>> /\ Once(d)
             /\ AllIds(d) = AllIds(c) \ {x}
<1> DEFINE h == Head(c)
           u == Tail(h)
           one == <<u>>
           d == one \o Tail(c)
           x == Head(h)
<1>1. /\ h \in Seq(S) /\ h # <<>> /\ Tail(c) \in Seq(Seq(S) \ {<<>>})
      /\ Len(Tail(c)) = Len(c) - 1 /\ h = c[1]
      /\ \A i \in 1 .. Len(Tail(c)) : Tail(c)[i] = c[i + 1]
  <2>1. /\ Head(c) \in Seq(S) \ {<<>>} /\ Tail(c) \in Seq(Seq(S) \ {<<>>})
        /\ Len(Tail(c)) = Len(c) - 1
        /\ \A i \in 1 .. Len(Tail(c)) : Tail(c)[i] = c[i + 1]
    BY HeadTailProperties
  <2> QED BY <2>1
<1> HIDE DEF h
<1>2. /\ u \in Seq(S) /\ Len(u) = Len(h) - 1 /\ \A k \in 1 .. Len(u) : u[k] = h[k + 1]
      /\ x = h[1] /\ x \in S /\ Len(h) \in Nat \ {0, 1}
  <2>1. Len(h) \in Nat \ {0, 1}
    BY <1>1, EmptySeq, LenProperties DEF h
  <2>2. x = h[1] /\ x \in S
    BY <1>1, <2>1, ElementOfSeq
  <2>3. u \in Seq(S) /\ Len(u) = Len(h) - 1 /\ \A k \in 1 .. Len(u) : u[k] = h[k + 1]
    BY <1>1, HeadTailProperties
  <2> QED BY <2>1, <2>2, <2>3
<1> HIDE DEF u, x
<1>3. u # <<>>
  BY <1>2, EmptySeq
<1>4. Len(c) \in Nat \ {0} /\ DOMAIN c = 1 .. Len(c)
  BY EmptySeq, LenProperties
<1>5. /\ d \in Seq(Seq(S) \ {<<>>}) /\ Len(d) = Len(c)
      /\ \A i \in 1 .. Len(c) : d[i] = IF i = 1 THEN u ELSE c[i]
  <2>1. one \in Seq(Seq(S) \ {<<>>}) /\ Len(one) = 1 /\ one[1] = u
    BY <1>2, <1>3
  <2> HIDE DEF one
  <2>2. /\ d \in Seq(Seq(S) \ {<<>>}) /\ Len(d) = Len(one) + Len(Tail(c))
        /\ \A i \in 1 .. Len(one) + Len(Tail(c)) :
             d[i] = IF i <= Len(one) THEN one[i] ELSE Tail(c)[i - Len(one)]
    <3> DEFINE X == Seq(S) \ {<<>>}
               t == Tail(c)
    <3>1. one \in Seq(X) /\ t \in Seq(X)
      BY <1>1, <2>1
    <3> HIDE DEF X, t
    <3>2. /\ one \o t \in Seq(X) /\ Len(one \o t) = Len(one) + Len(t)
          /\ \A i \in 1 .. Len(one) + Len(t) :
               (one \o t)[i] = IF i <= Len(one) THEN one[i] ELSE t[i - Len(one)]
      BY <3>1, ConcatProperties
    <3> QED BY <3>2 DEF X, t
  <2> HIDE DEF d
  <2> DEFINE n == Len(c)
  <2>3. n \in Nat \ {0} /\ Len(d) = n /\ Len(one) + Len(Tail(c)) = n /\ Len(Tail(c)) = n - 1
    BY <1>1, <1>4, <2>1, <2>2
  <2> HIDE DEF n
  <2>4. ASSUME NEW i \in 1 .. n PROVE d[i] = IF i = 1 THEN u ELSE c[i]
    <3>1. CASE i = 1
      BY <2>1, <2>2, <2>3, <3>1
    <3>2. CASE i # 1
      <4>1. i - 1 \in 1 .. n - 1 /\ (i - 1) + 1 = i /\ ~ i <= 1 /\ i \in 1 .. n
        BY <2>3, <3>2
      <4>2. d[i] = Tail(c)[i - 1]
        BY <2>1, <2>2, <2>3, <4>1
      <4>3. Tail(c)[i - 1] = c[(i - 1) + 1]
        BY <1>1, <2>3, <4>1
      <4> QED BY <3>2, <4>1, <4>2, <4>3
    <3> QED BY <3>1, <3>2
  <2> QED BY <2>2, <2>3, <2>4 DEF n
<1> HIDE DEF d
<1>6. DOMAIN d = DOMAIN c /\ 1 \in DOMAIN c
  <2>1. DOMAIN d = 1 .. Len(d)
    BY <1>5, LenProperties
  <2> QED BY <1>4, <1>5, <2>1
<1>7. d[1] = u /\ \A i \in DOMAIN c \ {1} : d[i] = c[i]
  BY <1>4, <1>5
<1> DEFINE next == [k \in DOMAIN u |-> k + 1]
<1>8. /\ \A k \in DOMAIN u : next[k] \in DOMAIN h \ {1} /\ u[k] = h[next[k]]
      /\ \A k, m \in DOMAIN u : next[k] = next[m] => k = m
      /\ \A k \in DOMAIN h \ {1} : \E m \in DOMAIN u : next[m] = k
      /\ 1 \in DOMAIN h
  <2> DEFINE n == Len(h)
  <2>1. DOMAIN h = 1 .. Len(h) /\ DOMAIN u = 1 .. Len(u)
    BY <1>1, <1>2, LenProperties
  <2>2. n \in Nat \ {0, 1} /\ DOMAIN h = 1 .. n /\ DOMAIN u = 1 .. n - 1
    BY <1>2, <2>1
  <2>3. \A k \in 1 .. n - 1 : u[k] = h[k + 1]
    BY <1>2
  <2> HIDE DEF n
  <2>4. \A k \in DOMAIN h \ {1} : k - 1 \in DOMAIN u /\ next[k - 1] = k
    BY <2>2
  <2>5. \A k \in DOMAIN u : next[k] \in DOMAIN h \ {1} /\ u[k] = h[next[k]]
    BY <2>2, <2>3
  <2>6. 1 \in DOMAIN h /\ \A k, m \in DOMAIN u : next[k] = next[m] => k = m
    BY <2>2
  <2> HIDE DEF next
  <2> QED BY <2>4, <2>5, <2>6
<1> HIDE DEF next
<1>9. Once(d)
  <2> SUFFICES ASSUME NEW i \in DOMAIN d, NEW j \in DOMAIN d,
                      NEW k \in DOMAIN d[i], NEW m \in DOMAIN d[j], d[i][k] = d[j][m]
               PROVE  i = j /\ k = m
    BY DEF Once
  <2> DEFINE kk == IF i = 1 THEN next[k] ELSE k
             mm == IF j = 1 THEN next[m] ELSE m
  <2>1. /\ i \in DOMAIN c /\ j \in DOMAIN c
        /\ kk \in DOMAIN c[i] /\ c[i][kk] = d[i][k]
        /\ mm \in DOMAIN c[j] /\ c[j][mm] = d[j][m]
    BY <1>1, <1>6, <1>7, <1>8
  <2>2. i = j /\ kk = mm
    <3> HIDE DEF kk, mm
    <3> QED BY <2>1 DEF Once
  <2> QED BY <1>7, <1>8, <2>2
<1>10. ASSUME NEW y PROVE y \in AllIds(d) <=> y \in AllIds(c) \ {x}
  <2>1. y \in AllIds(d) <=> \E i \in DOMAIN d : \E k \in DOMAIN d[i] : y = d[i][k]
    BY DEF AllIds, ToSet
  <2>2. y \in AllIds(c) <=> \E i \in DOMAIN c : \E k \in DOMAIN c[i] : y = c[i][k]
    BY DEF AllIds, ToSet
  <2>3. \A i \in DOMAIN c : \A k \in DOMAIN c[i] : c[i][k] = x <=> i = 1 /\ k = 1
    BY <1>1, <1>2, <1>6, <1>8 DEF Once
  <2>4. ASSUME y \in AllIds(d) PROVE y \in AllIds(c) /\ y # x
    <3>1. PICK i \in DOMAIN d : \E k \in DOMAIN d[i] : y = d[i][k]
      BY <2>1, <2>4
    <3>2. PICK k \in DOMAIN d[i] : y = d[i][k]
      BY <3>1
    <3>3. CASE i = 1
      BY SMTT(60), <1>1, <1>6, <1>7, <1>8, <2>2, <2>3, <3>2, <3>3
    <3>4. CASE i # 1
      BY <1>6, <1>7, <2>2, <2>3, <3>2, <3>4
    <3> QED BY <3>3, <3>4
  <2>5. ASSUME y \in AllIds(c), y # x PROVE y \in AllIds(d)
    <3>1. PICK i \in DOMAIN c : \E k \in DOMAIN c[i] : y = c[i][k]
      BY <2>2, <2>5
    <3>2. PICK k \in DOMAIN c[i] : y = c[i][k]
      BY <3>1
    <3>3. CASE i = 1
      <4>1. k \in DOMAIN h \ {1}
        BY <1>1, <1>2, <2>5, <3>2, <3>3
      <4>2. PICK m \in DOMAIN u : next[m] = k
        BY <1>8, <4>1
      <4> QED BY SMTT(60), <1>1, <1>6, <1>7, <1>8, <2>1, <3>2, <3>3, <4>2
    <3>4. CASE i # 1
      BY <1>6, <1>7, <2>1, <3>2, <3>4
    <3> QED BY <3>3, <3>4
  <2> QED BY <2>4, <2>5
<1>11. x \in AllIds(c)
  <2>1. x = c[1][1] /\ 1 \in DOMAIN c /\ 1 \in DOMAIN c[1]
    BY <1>1, <1>2, <1>6, <1>8
  <2> QED BY <2>1 DEF AllIds, ToSet
<1>12. d # <<>>
  BY <1>4, <1>5, <1>6
<1> QED BY <1>2, <1>5, <1>9, <1>10, <1>11, <1>12 DEF d, x, h, u

\* process_requests_step2 gives back the front of what was selected: one request, or a
\* list.
LEMMA Step2Delivers ==
  ASSUME Places, process_requests_step2, UNCHANGED <<wfqVars, twinsVars>>
  PROVE  StateTypes' /\ ListTypes' /\ SchedulerTypes' /\ \E B : Delivers(B)
<1> DEFINE ids   == Head(info)
           whole == Len(ids) = 1 \/ ListCallback
           left  == IF whole THEN Tail(info) ELSE <<Tail(ids)>> \o Tail(info)
           given == IF whole THEN ids ELSE <<Head(ids)>>
<1>1. /\ apc = "callback" /\ calls' = Append(calls, given) /\ info' = left
      /\ apc' = IF left = <<>> THEN LoopOfScheduler ELSE "callback"
      /\ UNCHANGED <<users, structures, stop, locals, released, refused, removed>>
  BY DEF process_requests_step2, Go
<1>2. info \in IdLists /\ calls \in IdLists /\ info # <<>> /\ Once(info) /\ Once(calls)
  BY <1>1 DEF Places, StateTypes, Apart
<1>3. /\ left \in IdLists /\ Once(left)
      /\ given \in Seq(Reqs) \ {<<>>} /\ \A k, m \in DOMAIN given : given[k] = given[m] => k = m
      /\ ToSet(given) \in SUBSET Chosen /\ AllIds(left) = Chosen \ ToSet(given)
  <2>1. CASE whole
    <3>1. left = Tail(info) /\ given = Head(info)
      BY <2>1
    <3> HIDE DEF left, given
    <3> QED BY <1>2, <3>1, FirstLeaves DEF IdLists, Chosen
  <2>2. CASE ~ whole
    <3> DEFINE x == Head(Head(info))
    <3>1. left = <<Tail(Head(info))>> \o Tail(info) /\ given = <<x>> /\ Len(Head(info)) # 1
      BY <2>2
    <3> HIDE DEF left, given
    <3>2. x \in Reqs /\ x \in AllIds(info) /\ left \in IdLists /\ Once(left)
          /\ AllIds(left) = AllIds(info) \ {x}
      BY <1>2, <3>1, FirstIdLeaves DEF IdLists
    <3> HIDE DEF x
    <3>3. /\ given \in Seq(Reqs) \ {<<>>} /\ ToSet(given) = {x}
          /\ \A k, m \in DOMAIN given : given[k] = given[m] => k = m
      BY <3>1, <3>2 DEF ToSet
    <3> QED BY <3>2, <3>3 DEF Chosen
  <2> QED BY <2>1, <2>2
<1> HIDE DEF left, given, whole
<1>4. calls' \in IdLists /\ Once(calls') /\ Delivered' = Delivered \cup ToSet(given)
  <2>1. calls' \in IdLists
    BY <1>1, <1>2, <1>3, AppendProperties DEF IdLists
  <2>2. calls \in Seq(Seq(Reqs)) /\ given \in Seq(Reqs)
    <3>1. Seq(Reqs) \ {<<>>} \subseteq Seq(Reqs) /\ calls \in Seq(Seq(Reqs) \ {<<>>})
      BY <1>2 DEF IdLists
    <3>2. calls \in Seq(Seq(Reqs))
      BY <3>1, SeqMonotonic
    <3> QED BY <1>3, <3>2
  <2>3. AllIds(calls) = Delivered /\ AllIds(calls') = Delivered'
    BY DEF AllIds, Delivered
  <2>4. ToSet(given) \cap AllIds(calls) = {}
    BY <1>3, <2>3 DEF Places, Apart
  <2>5. Once(calls') /\ AllIds(calls') = AllIds(calls) \cup ToSet(given)
    BY <1>1, <1>2, <1>3, <2>2, <2>4, OneMoreCall
  <2> QED BY <2>1, <2>3, <2>5
<1>5. /\ data' = data /\ pc' = pc /\ stamp' = stamp /\ g_last_timestamp' = g_last_timestamp
      /\ files' = files /\ current_size' = current_size /\ removed' = removed
      /\ current_alg' = current_alg /\ locals' = locals /\ UNCHANGED lists
  BY <1>1 DEF users, input, structures, counters
<1>6. Accepted' = Accepted /\ Held' = Held
  BY <1>5 DEF Accepted, Held
<1>7. apc' = "callback" <=> info' # <<>>
  BY <1>1 DEF LoopOfScheduler
<1>8. StateTypes'
  BY <1>1, <1>3, <1>4, <1>5, <1>6, <1>7 DEF StateTypes, Places
<1>9. ListTypes'
  BY <1>5 DEF ListTypes, Places, lists
<1>10. Delivers(ToSet(given))
  <2>1. ListsLose({})
    BY <1>5, ListsLoseNothing DEF Places
  <2>2. Chosen' = Chosen \ ToSet(given)
    BY <1>1, <1>3 DEF Chosen
  <2> QED BY <1>1, <1>3, <1>4, <1>5, <1>6, <2>1, <2>2 DEF Delivers
<1>11. SchedulerTypes'
  BY <1>1, <1>5 DEF SchedulerTypes, Places, LoopOfScheduler, wfqVars, twinsVars
<1> QED BY <1>8, <1>9, <1>10, <1>11

-----------------------------------------------------------------------------
(* A batch is selected.                                                    *)

\* process_requests_step1 for the entries of a batch that left the lists.
LEMMA Step1Selects ==
  ASSUME Places, NEW batch \in Seq(Entry(data)), NoneTwice(batch), Step1(batch),
         Members(batch) \in SUBSET Waiting, ListsLose(Members(batch)),
         \A i \in DOMAIN batch : InAList(batch[i]),
         UNCHANGED <<users, files, history>>,
         apc # "callback", apc' = "callback" <=> batch # <<>>
  PROVE  StateTypes' /\ Selects(Members(batch))
<1>1. /\ data' = data /\ pc' = pc /\ stamp' = stamp /\ g_last_timestamp' = g_last_timestamp
      /\ files' = files /\ calls' = calls /\ removed' = removed
  BY DEF users, input, history
<1>2. Accepted' = Accepted /\ Held' = Held
  BY <1>1 DEF Accepted, Held
<1>3. info' = IdsIn(batch)
  BY DEF Step1
<1>4. /\ info' \in IdLists /\ AllIds(info') = Members(batch) /\ Once(info')
      /\ batch # <<>> <=> info' # <<>>
  BY <1>3, BatchIds DEF Places, StateTypes
<1>5. current_size' \in [Queues -> Int]
  <2>1. \A q \in Queues : Bytes(OfQueue(Members(batch), q)) \in Nat
    <3> SUFFICES ASSUME NEW q \in Queues PROVE Bytes(OfQueue(Members(batch), q)) \in Nat
      OBVIOUS
    <3> DEFINE U == OfQueue(Members(batch), q)
               f == [r \in Reqs |-> data[r].len]
    <3>1. U \in SUBSET Accepted /\ Accepted \in SUBSET Reqs
      BY DEF OfQueue, Places, Complete, Accepted
    <3>2. IsFiniteSet(U)
      BY <3>1, FS_Subset DEF Places, StateTypes
    <3>3. \A r \in U : f[r] \in Nat
      BY <3>1, DataAre DEF Places, StateTypes
    <3> HIDE DEF U, f
    <3>4. Total(f, U) \in Nat
      BY <3>2, <3>3, SumType
    <3> QED BY <3>4 DEF Total, Bytes, f, U
  <2>2. current_size' = [q \in Queues |-> current_size[q] - Bytes(OfQueue(Members(batch), q))]
    BY DEF Step1, CountTaken
  <2>3. \A q \in Queues : current_size[q] \in Int
    BY DEF Places, StateTypes
  <2> QED BY <2>1, <2>2, <2>3
<1>6. info = <<>>
  BY DEF Places, StateTypes
<1>7. StateTypes'
  BY <1>1, <1>2, <1>4, <1>5 DEF StateTypes, Places
<1>8. Selects(Members(batch))
  <2>1. Processes(Members(batch))
    BY DEF Processes
  <2> QED BY <1>1, <1>2, <1>4, <1>6, <2>1 DEF Selects, Chosen
<1> QED BY <1>7, <1>8

\* A scheduler takes the first entry of a list.
LEMMA ProcessSelects ==
  ASSUME Places, NEW l \in Lists, ListAt(l) # <<>>, ListAt(l) \in Seq(Entry(data)),
         ListAt(l)' = Tail(ListAt(l)), \A m \in Lists \ {l} : ListAt(m)' = ListAt(m),
         Process(Head(ListAt(l))), UNCHANGED <<users, files, history>>, apc # "callback"
  PROVE  /\ StateTypes' /\ Selects(IdSet(Head(ListAt(l))))
         /\ IdSet(Head(ListAt(l))) \in SUBSET Members(ListAt(l))
<1> DEFINE list  == ListAt(l)
           e     == Head(list)
           batch == <<e>>
<1>1. NoneTwice(list) /\ list \in Seq(Entry(data)) /\ list # <<>>
  BY DEF Places, Apart
<1> HIDE DEF list
<1>2. /\ e \in Entry(data) /\ OneEach(e) /\ IdSet(e) \in SUBSET Members(list)
      /\ NoneTwice(Tail(list)) /\ Members(Tail(list)) = Members(list) \ IdSet(e)
  BY <1>1, WithoutHead
<1> HIDE DEF e
<1>3. batch \in Seq(Entry(data)) /\ batch # <<>> /\ DOMAIN batch = {1} /\ batch[1] = e
  BY <1>2
<1> HIDE DEF batch
<1>4. NoneTwice(batch) /\ Members(batch) = IdSet(e)
  BY <1>2, <1>3 DEF NoneTwice, Members
<1>5. Step1(batch) /\ apc' = "callback"
  BY DEF Process, Go, batch, e, list
<1>6. \A U \in SUBSET Members(list) :
        Members(ListAt(l)') = Members(list) \ U /\ NoneTwice(ListAt(l)') => ListsLose(U)
  BY OneListLoses DEF Places, list
<1>7. Members(ListAt(l)') = Members(list) \ IdSet(e) /\ NoneTwice(ListAt(l)')
  BY <1>2 DEF list
<1>8. ListsLose(Members(batch))
  BY <1>2, <1>4, <1>6, <1>7
<1>9. Members(batch) \in SUBSET Waiting
  BY <1>2, <1>4, WaitingAre DEF Places, list
<1>11. \A i \in DOMAIN batch : InAList(batch[i])
  <2>1. 1 \in DOMAIN list /\ e = list[1]
    BY <1>1 DEF e
  <2>2. InAList(e)
    BY <2>1 DEF InAList, list
  <2> QED BY <1>3, <2>2
<1>10. StateTypes' /\ Selects(Members(batch))
  BY <1>3, <1>4, <1>5, <1>8, <1>9, <1>11, Step1Selects
<1> QED BY <1>2, <1>4, <1>10 DEF e, list

\* After a list of entries lost its head.
LEMMA TailTypes ==
  ASSUME NEW E, NEW list \in Seq(E), NoneTwice(list), list # <<>>
  PROVE  Tail(list) \in Seq(E) /\ Members(Tail(list)) \in SUBSET Members(list)
<1>1. Tail(list) \in Seq(E) /\ Members(Tail(list)) = Members(list) \ IdSet(Head(list))
  BY WithoutHead
<1> QED BY <1>1

\* timeorder selects the head of the timeline.
LEMMA TimeorderSelects ==
  ASSUME Places, timeorder_pick, current_alg \notin {"SJF", "aIOLi"},
         UNCHANGED <<wfqVars, twinsVars>>
  PROVE  /\ StateTypes' /\ ListTypes' /\ SchedulerTypes'
         /\ \E l \in Lists : /\ IdSet(Head(ListAt(l))) \in SUBSET Members(ListAt(l))
                             /\ Selects(IdSet(Head(ListAt(l))))
<1>1. /\ timeline # <<>> /\ timeline' = Tail(timeline) /\ Process(Head(timeline))
      /\ UNCHANGED <<users, files, history>> /\ apc = "pick"
      /\ UNCHANGED <<multi_timeline, queues>>
  BY DEF timeorder_pick
<1>2. /\ TimelineList \in Lists /\ ListAt(TimelineList) = timeline
      /\ ListAt(TimelineList)' = timeline'
      /\ \A m \in Lists \ {TimelineList} : ListAt(m)' = ListAt(m)
  BY <1>1, TimelineChanges
<1>3. timeline \in Seq(Entry(data)) /\ NoneTwice(timeline)
  BY <1>2 DEF Places, ListTypes, Apart
<1>4. /\ StateTypes' /\ Selects(IdSet(Head(ListAt(TimelineList))))
      /\ IdSet(Head(ListAt(TimelineList))) \in SUBSET Members(ListAt(TimelineList))
  <2>1. ListAt(TimelineList) # <<>> /\ ListAt(TimelineList) \in Seq(Entry(data))
        /\ ListAt(TimelineList)' = Tail(ListAt(TimelineList)) /\ Process(Head(ListAt(TimelineList)))
        /\ apc # "callback"
    BY <1>1, <1>2, <1>3
  <2> QED BY <1>1, <1>2, <2>1, ProcessSelects
<1>5. ListTypes'
  <2>1. Tail(timeline) \in Seq(Entry(data))
    BY <1>1, <1>3, TailTypes
  <2> QED BY <1>1, <2>1 DEF Places, ListTypes, users, input
<1>6. SchedulerTypes'
  BY <1>1 DEF SchedulerTypes, Places, users, input, wfqVars, twinsVars
<1> QED BY <1>2, <1>4, <1>5, <1>6

\* SJF selects the head of the queue it chose.
LEMMA SJFSelects ==
  ASSUME Places, SJF_pick, current_alg = "SJF", UNCHANGED <<wfqVars, twinsVars>>
  PROVE  /\ StateTypes' /\ ListTypes' /\ SchedulerTypes'
         /\ \E l \in Lists : /\ IdSet(Head(ListAt(l))) \in SUBSET Members(ListAt(l))
                             /\ Selects(IdSet(Head(ListAt(l))))
<1>1. PICK q \in Queues : q = locals.chosen
  BY DEF Places, SchedulerTypes, SJF_pick
<1>2. /\ queues[q] # <<>> /\ queues' = [queues EXCEPT ![q] = Tail(queues[q])]
      /\ Process(Head(queues[q])) /\ apc = "pick"
      /\ UNCHANGED <<users, files, history>> /\ UNCHANGED <<timeline, multi_timeline>>
  BY <1>1 DEF SJF_pick
<1> DEFINE new == Tail(queues[q])
<1>3. /\ QueueList(q) \in Lists /\ ListAt(QueueList(q)) = queues[q]
      /\ ListAt(QueueList(q))' = new
      /\ \A m \in Lists \ {QueueList(q)} : ListAt(m)' = ListAt(m)
  BY <1>2, QueueChanges DEF Places
<1>4. /\ queues[q] \in Seq(Entry(data)) /\ queues[q] \in Seq(EntryOf(data, q))
      /\ NoneTwice(queues[q])
  <2>1. NoneTwice(queues[q])
    BY <1>3 DEF Places, Apart
  <2>2. queues[q] \in ListOf(data, q)
    BY DEF Places, ListTypes
  <2> QED BY <2>1, <2>2, QueueIsList
<1>5. /\ StateTypes' /\ Selects(IdSet(Head(ListAt(QueueList(q)))))
      /\ IdSet(Head(ListAt(QueueList(q)))) \in SUBSET Members(ListAt(QueueList(q)))
  <2>1. ListAt(QueueList(q)) # <<>> /\ ListAt(QueueList(q)) \in Seq(Entry(data))
        /\ ListAt(QueueList(q))' = Tail(ListAt(QueueList(q))) /\ Process(Head(ListAt(QueueList(q))))
        /\ apc # "callback"
    BY <1>2, <1>3, <1>4
  <2> QED BY <1>2, <1>3, <2>1, ProcessSelects
<1>6. ListTypes'
  <2>1. new \in Seq(Entry(data)) /\ new \in ListOf(data, q)
    BY <1>2, <1>4, TailTypes DEF ListOf
  <2>2. queues' = [queues EXCEPT ![q] = new]
    BY <1>2
  <2> HIDE DEF new
  <2> QED BY <1>2, <2>1, <2>2 DEF Places, ListTypes, users, input
<1>7. SchedulerTypes'
  <2>1. apc' = "callback"
    BY <1>2 DEF Process, Go
  <2> QED BY <1>2, <2>1 DEF SchedulerTypes, Places, users, input, wfqVars, twinsVars
<1> QED BY <1>3, <1>5, <1>6, <1>7

\* WFQ and TWINS take the first request of one queue of multi_timeline.
LEMMA MultiSelects ==
  ASSUME Places, NEW i \in 0 .. max_queue_id, multi_timeline[i] # <<>>,
         multi_timeline' = [multi_timeline EXCEPT ![i] = Tail(multi_timeline[i])],
         Process(Head(multi_timeline[i])), apc = "pick",
         UNCHANGED <<users, files, history>>, UNCHANGED <<timeline, queues>>
  PROVE  /\ StateTypes' /\ ListTypes'
         /\ \E l \in Lists : /\ IdSet(Head(ListAt(l))) \in SUBSET Members(ListAt(l))
                             /\ Selects(IdSet(Head(ListAt(l))))
<1> DEFINE new == Tail(multi_timeline[i])
           name == MultiList(i)
<1>1. /\ name \in Lists /\ ListAt(name) = multi_timeline[i]
      /\ ListAt(name)' = new
      /\ \A m \in Lists \ {name} : ListAt(m)' = ListAt(m)
  BY MultiChanges DEF Places
<1>2. /\ multi_timeline[i] \in Seq(Entry(data)) /\ multi_timeline[i] \in Seq(Simple(data))
      /\ NoneTwice(multi_timeline[i])
  <2>1. NoneTwice(multi_timeline[i])
    BY <1>1 DEF Places, Apart
  <2>2. multi_timeline[i] \in Seq(Simple(data)) /\ Simple(data) \subseteq Entry(data)
    BY DEF Places, ListTypes, Entry
  <2>3. multi_timeline[i] \in Seq(Entry(data))
    BY <2>2, SeqMonotonic
  <2> QED BY <2>1, <2>2, <2>3
<1>3. /\ StateTypes' /\ Selects(IdSet(Head(ListAt(name))))
      /\ IdSet(Head(ListAt(name))) \in SUBSET Members(ListAt(name))
  <2>1. ListAt(name) # <<>> /\ ListAt(name) \in Seq(Entry(data))
        /\ ListAt(name)' = Tail(ListAt(name)) /\ Process(Head(ListAt(name)))
        /\ apc # "callback"
    BY <1>1, <1>2
  <2> HIDE DEF name
  <2> QED BY <1>1, <2>1, ProcessSelects
<1>4. ListTypes'
  <2>1. new \in Seq(Simple(data)) /\ Members(new) \in SUBSET Members(multi_timeline[i])
    BY <1>2, TailTypes
  <2>2. multi_timeline' = [multi_timeline EXCEPT ![i] = new]
    OBVIOUS
  <2> HIDE DEF new
  <2>3. \A r \in Members(new) : data[r].queue_id = i
    BY <2>1 DEF Places, ListTypes
  <2> QED BY ZenonT(60), <2>1, <2>2, <2>3 DEF Places, ListTypes, users, input
<1> QED BY <1>1, <1>3, <1>4

\* WFQ selects the head of the current queue.
LEMMA WFQSelects ==
  ASSUME Places, WFQ_pick, current_alg = "WFQ", UNCHANGED twinsVars
  PROVE  /\ StateTypes' /\ ListTypes' /\ SchedulerTypes'
         /\ \E l \in Lists : /\ IdSet(Head(ListAt(l))) \in SUBSET Members(ListAt(l))
                             /\ Selects(IdSet(Head(ListAt(l))))
<1>1. QueueIds \subseteq 0 .. max_queue_id
  BY AlgAssumption DEF QueueIds
<1>2. PICK i \in 0 .. max_queue_id : i = g_current_queue
  BY <1>1 DEF Places, SchedulerTypes
<1>3. /\ multi_timeline[i] # <<>>
      /\ multi_timeline' = [multi_timeline EXCEPT ![i] = Tail(multi_timeline[i])]
      /\ Process(Head(multi_timeline[i])) /\ apc = "pick"
      /\ UNCHANGED <<users, files, history>> /\ UNCHANGED <<timeline, queues>>
      /\ UNCHANGED wfqVars
  BY <1>2 DEF WFQ_pick, MayGo
<1>4. SchedulerTypes'
  BY <1>3 DEF SchedulerTypes, Places, users, input, wfqVars, twinsVars
<1> QED BY <1>3, <1>4, MultiSelects

\* TWINS selects the head of the window.
LEMMA TWINSSelects ==
  ASSUME Places, NEW elapsed \in BOOLEAN, TWINS_pick(elapsed), current_alg = "TWINS",
         UNCHANGED wfqVars
  PROVE  /\ StateTypes' /\ ListTypes' /\ SchedulerTypes'
         /\ \E l \in Lists : /\ IdSet(Head(ListAt(l))) \in SUBSET Members(ListAt(l))
                             /\ Selects(IdSet(Head(ListAt(l))))
<1>1. PICK i \in 0 .. max_queue_id : i = Window(elapsed)
  BY WindowType DEF Places, SchedulerTypes
<1>2. /\ multi_timeline[i] # <<>>
      /\ multi_timeline' = [multi_timeline EXCEPT ![i] = Tail(multi_timeline[i])]
      /\ Process(Head(multi_timeline[i])) /\ apc = "pick"
      /\ UNCHANGED <<users, files, history>> /\ UNCHANGED <<timeline, queues>>
      /\ g_current_twins_server' = i
  BY <1>1 DEF TWINS_pick
<1>3. SchedulerTypes'
  BY <1>2 DEF SchedulerTypes, Places, users, input, wfqVars
<1> QED BY <1>2, <1>3, MultiSelects

-----------------------------------------------------------------------------
(* MLF and aIOLi look at lists: the requests keep their places, with a     *)
(* larger factor.                                                          *)

\* What a look at an entry changes.
LEMMA IncrementedEntry ==
  ASSUME NEW D, NEW e \in Entry(D)
  PROVE  LET g == increment_sched_factor(e)
         IN  /\ g \in Entry(D) /\ g.queue = e.queue /\ g.offset = e.offset /\ g.len = e.len
             /\ g.reqnb = e.reqnb /\ g.timestamp = e.timestamp
             /\ IdSet(g) = IdSet(e) /\ (OneEach(e) => OneEach(g))
             /\ Parts(g) = Parts(e) \/ (Parts(e) = <<e>> /\ Parts(g) = <<g>> /\ g.id = e.id)
<1> DEFINE g == increment_sched_factor(e)
           n == IF e.sched_factor = 0 THEN 1 ELSE Int32(2 * e.sched_factor)
<1>0. e \in [id : DOMAIN D \cup {NoId}, queue : QueuesOf(D), offset : Nat, len : Nat,
             timestamp : Nat, sched_factor : Int, reqnb : Nat,
             subs : {<<>>} \cup Seq(Simple(D))]
  BY DEF Entry, Simple, Virtual
<1>1. n \in Int
  <2>1. 2 * e.sched_factor \in Int
    BY <1>0
  <2> QED BY <2>1, Int32Type
<1>2. g = [e EXCEPT !.sched_factor = n]
  BY <1>0 DEF increment_sched_factor
<1> HIDE DEF g, n
<1>3. /\ g.queue = e.queue /\ g.offset = e.offset /\ g.len = e.len /\ g.reqnb = e.reqnb
      /\ g.timestamp = e.timestamp /\ g.id = e.id /\ g.subs = e.subs /\ g.sched_factor = n
      /\ g = [id |-> g.id, queue |-> g.queue, offset |-> g.offset, len |-> g.len,
              timestamp |-> g.timestamp, sched_factor |-> g.sched_factor,
              reqnb |-> g.reqnb, subs |-> g.subs]
  BY <1>0, <1>2
<1>4. CASE e \in Simple(D)
  <2>1. g \in Simple(D)
    <3>1. /\ e.id \in DOMAIN D /\ e.queue \in QueuesOf(D) /\ e.offset \in Nat /\ e.len \in Nat
          /\ e.timestamp \in Nat /\ e.reqnb = 1 /\ e.subs = <<>>
          /\ e.queue = D[e.id].queue /\ e.offset = D[e.id].offset /\ e.len = D[e.id].len
      BY <1>4 DEF Simple
    <3> QED BY <1>1, <1>3, <3>1 DEF Simple
  <2>2. e \in Entry(D) /\ g \in Entry(D)
    BY <2>1 DEF Entry
  <2>3. IdSet(g) = {g.id} /\ OneEach(g) /\ IdSet(e) = {e.id}
    BY <1>4, <2>1, <2>2, IdsOfEntry
  <2>4. Parts(e) = <<e>> /\ Parts(g) = <<g>>
    BY <1>4, <2>1, <2>2, PartsOfEntry
  <2> QED BY <1>3, <2>2, <2>3, <2>4 DEF g
<1>5. CASE e \in Virtual(D)
  <2>1. g \in Virtual(D)
    <3>1. /\ e.id = NoId /\ e.queue \in QueuesOf(D) /\ e.offset \in Nat /\ e.len \in Nat
          /\ e.timestamp \in Nat /\ e.reqnb \in Nat /\ e.subs \in Seq(Simple(D))
          /\ e.reqnb > 1 /\ Len(e.subs) = e.reqnb
          /\ \A k \in 1 .. Len(e.subs) : e.subs[k].queue = e.queue /\ e.offset <= e.subs[k].offset
      BY <1>5 DEF Virtual
    <3> QED BY <1>1, <1>3, <3>1 DEF Virtual
  <2>2. Parts(g) = g.subs /\ Parts(e) = e.subs /\ g \in Entry(D)
    BY <1>5, <2>1, PartsOfEntry DEF Entry
  <2>3. Parts(g) = Parts(e)
    BY <1>3, <2>2
  <2> QED BY <1>3, <2>2, <2>3 DEF g, IdSet, OneEach
<1> QED BY <1>4, <1>5 DEF Entry

\* What a look at a list changes.
LEMMA GrownList ==
  ASSUME NEW q \in Queues, queues \in [Queues -> Seq(Entry(data))],
         queues[q] \in ListOf(data, q), NoneTwice(queues[q])
  PROVE  /\ Grown(q) \in ListOf(data, q) /\ NoneTwice(Grown(q))
         /\ Len(Grown(q)) = Len(queues[q])
         /\ Members(Grown(q)) = Members(queues[q])
         /\ \A i \in 1 .. Len(queues[q]) : /\ Grown(q)[i] = increment_sched_factor(queues[q][i])
                                           /\ IdSet(Grown(q)[i]) = IdSet(queues[q][i])
                                           /\ Grown(q)[i] \in Entry(data)
<1> DEFINE list == queues[q]
           new == Grown(q)
           n == Len(list)
           E == EntryOf(data, q)
<1>1. list \in Seq(Entry(data)) /\ list \in Seq(E) /\ n \in Nat /\ DOMAIN list = 1 .. n
  BY QueueIsList, LenProperties
<1>2. new = [i \in 1 .. n |-> increment_sched_factor(list[i])]
  BY <1>1 DEF Grown
<1> HIDE DEF new, n
<1>3. \A i \in 1 .. n : list[i] \in E /\ list[i] \in Entry(data) /\ list[i].queue = q
  <2>1. \A i \in 1 .. n : list[i] \in E
    BY <1>1, ElementOfSeq DEF n
  <2> QED BY <2>1 DEF EntryOf
<1>4. \A i \in 1 .. n : /\ new[i] \in Entry(data) /\ new[i].queue = q
                        /\ IdSet(new[i]) = IdSet(list[i])
                        /\ OneEach(list[i]) => OneEach(new[i])
  BY <1>2, <1>3, IncrementedEntry
<1>5. DOMAIN new = 1 .. n /\ \A i \in 1 .. n : new[i] \in E
  BY <1>2, <1>4 DEF EntryOf
<1>6. new \in Seq(E) /\ Len(new) = n
  <2>1. new \in [1 .. n -> E]
    BY <1>2, <1>5
  <2> HIDE DEF E
  <2> QED BY <1>1, <2>1
<1>7. NoneTwice(new)
  BY <1>1, <1>4, <1>5 DEF NoneTwice
<1>8. Members(new) = Members(list)
  BY <1>1, <1>4, <1>5 DEF Members
<1> QED BY <1>2, <1>4, <1>6, <1>7, <1>8 DEF ListOf, new, n

\* Several queues of the hashtable lose requests, the other lists are as they were.
LEMMA QueuesLose ==
  ASSUME Places, UNCHANGED <<timeline, multi_timeline>>,
         NEW B, \A x \in B : \E q \in Queues : x \in Members(queues[q]),
         \A q \in Queues : /\ NoneTwice(queues'[q])
                           /\ Members(queues'[q]) = Members(queues[q]) \ B
  PROVE  ListsLose(B) /\ B \in SUBSET Waiting
<1>1. \A q \in Queues : QueueList(q) \in Lists /\ ListAt(QueueList(q)) = queues[q]
                        /\ ListAt(QueueList(q))' = queues'[q]
  BY ListNames, ListContents
<1>2. B \in SUBSET Waiting
  <2>1. Waiting = UNION {Members(ListAt(l)) : l \in Lists}
    BY WaitingAre DEF Places
  <2> QED BY <1>1, <2>1
<1>3. ASSUME NEW l \in Lists, \A q \in Queues : l # QueueList(q)
      PROVE  Members(ListAt(l)') = Members(ListAt(l)) \ B /\ NoneTwice(ListAt(l)')
  <2>1. ListAt(l)' = ListAt(l)
    BY <1>3, ListNames, ListContents
  <2>2. \A q \in Queues : Members(ListAt(l)) \cap Members(queues[q]) = {}
    BY <1>1, <1>3 DEF Places, Apart
  <2>3. NoneTwice(ListAt(l))
    BY DEF Places, Apart
  <2> QED BY <2>1, <2>2, <2>3
<1>4. ASSUME NEW q \in Queues
      PROVE  /\ Members(ListAt(QueueList(q))') = Members(ListAt(QueueList(q))) \ B
             /\ NoneTwice(ListAt(QueueList(q))')
  BY <1>1
<1>5. ASSUME NEW l \in Lists
      PROVE  Members(ListAt(l)') = Members(ListAt(l)) \ B /\ NoneTwice(ListAt(l)')
  <2>1. CASE \A q \in Queues : l # QueueList(q)
    BY <1>3, <2>1
  <2>2. ASSUME NEW q \in Queues, l = QueueList(q)
        PROVE  Members(ListAt(l)') = Members(ListAt(l)) \ B /\ NoneTwice(ListAt(l)')
    <3>1. ListAt(l) = queues[q] /\ ListAt(l)' = queues'[q]
      BY <2>2, ListContents
    <3> QED BY <3>1
  <2> QED BY <2>1, <2>2
<1> QED BY <1>2, <1>5 DEF ListsLose

\* The queue of a file that a place was found in is a queue of the file.
LEMMA QueueOfFile ==
  ASSUME NEW f \in Files, NEW place
  PROVE  /\ <<f, RT_READ>> \in Queues /\ <<f, RT_WRITE>> \in Queues
         /\ QueueOf(f, place) # NoQueue =>
              /\ QueueOf(f, place) \in Queues /\ FileOf(QueueOf(f, place)) = f
              /\ place[QueueOf(f, place)] # 0 /\ LookedAt(QueueOf(f, place), place)
         /\ QueueOf(f, place) = NoQueue =>
              place[<<f, RT_READ>>] = 0 /\ place[<<f, RT_WRITE>>] = 0
<1>1. /\ <<f, RT_READ>> \in Queues /\ <<f, RT_WRITE>> \in Queues
      /\ <<f, RT_READ>> # NoQueue /\ <<f, RT_WRITE>> # NoQueue
      /\ <<f, RT_READ>>[1] = f /\ <<f, RT_WRITE>>[1] = f
      /\ <<f, RT_READ>>[2] = RT_READ /\ <<f, RT_WRITE>>[2] = RT_WRITE
  BY DEF Queues, Types, NoQueue
<1>2. CASE place[<<f, RT_READ>>] # 0
  BY <1>1, <1>2 DEF QueueOf, FileOf, LookedAt
<1>3. CASE place[<<f, RT_READ>>] = 0 /\ place[<<f, RT_WRITE>>] # 0
  BY <1>1, <1>3 DEF QueueOf, FileOf, LookedAt
<1>4. CASE place[<<f, RT_READ>>] = 0 /\ place[<<f, RT_WRITE>>] = 0
  BY <1>1, <1>4 DEF QueueOf
<1> QED BY <1>2, <1>3, <1>4

\* A scan of aIOLi: the queue it finds is one with a request.
LEMMA ScanFinds ==
  ASSUME Places, aIOLi_scan, current_alg = "aIOLi"
  PROVE  /\ DOMAIN locals' = {"line", "selected", "timestamp", "waiting_options", "known"}
         /\ locals'.selected \in Queues \cup {NoQueue}
         /\ locals'.selected = locals.selected \/ (/\ locals'.selected \in Queues
                                                   /\ queues[locals'.selected] # <<>>)
<1> DEFINE place   == aIOLiPlace
           here    == {f \in files : LineOf[f] = locals.line}
           free    == {f \in here : Visited(f).time = 0}
           Time(f) == Head(queues[QueueOf(f, place)]).timestamp
           able    == {f \in free : QueueOf(f, place) # NoQueue /\ Time(f) < locals.timestamp}
           best    == CHOOSE f \in able : \A g \in able \ {f} :
                        Time(f) < Time(g) \/ (Time(f) = Time(g) /\ f < g)
           seen    == [locals EXCEPT !.waiting_options = @ \/ free # here,
                                     !.selected  = IF able = {} THEN @ ELSE QueueOf(best, place),
                                     !.timestamp = IF able = {} THEN @ ELSE Time(best)]
<1>1. apc = "scan" /\ (locals' = seen \/ locals' = [seen EXCEPT !.line = @ + 1])
  BY ZenonT(60) DEF aIOLi_scan, Go
<1>2. /\ DOMAIN locals = {"line", "selected", "timestamp", "waiting_options", "known"}
      /\ locals.selected \in Queues \cup {NoQueue}
  BY ZenonT(60), <1>1 DEF Places, SchedulerTypes
<1>3. able \in SUBSET Files /\ \A f \in able : QueueOf(f, place) # NoQueue
  BY DEF Places, StateTypes
<1>4. \A f \in able : Time(f) \in Nat /\ queues[QueueOf(f, place)] # <<>>
  <2> SUFFICES ASSUME NEW f \in able
               PROVE  Time(f) \in Nat /\ queues[QueueOf(f, place)] # <<>>
    OBVIOUS
  <2>1. PICK q \in Queues : q = QueueOf(f, place) /\ place[q] # 0
    BY <1>3, QueueOfFile
  <2>2. queues[q] # <<>> /\ queues[q] \in Seq(Entry(data))
    BY <2>1 DEF aIOLiPlace, Places, ListTypes
  <2>3. Head(queues[q]) \in Entry(data)
    BY <2>2
  <2>4. Head(queues[q]).timestamp \in Nat
    BY <2>3 DEF Entry, Simple, Virtual
  <2> QED BY <2>1, <2>2, <2>4
<1> HIDE DEF able, place
<1>5. able # {} => QueueOf(best, place) \in Queues /\ queues[QueueOf(best, place)] # <<>>
  <2> SUFFICES ASSUME able # {}
               PROVE  QueueOf(best, place) \in Queues /\ queues[QueueOf(best, place)] # <<>>
    OBVIOUS
  <2> DEFINE t == [f \in able |-> Time(f)]
             g == [f \in able |-> f]
  <2>1. t \in [able -> Nat] /\ g \in [able -> Nat]
    BY <1>3, <1>4, FilesAssumption
  <2>2. PICK x \in able : \A y \in able : t[x] < t[y] \/ (t[x] = t[y] /\ g[x] <= g[y])
    <3> HIDE DEF t, g
    <3> QED BY <2>1, LeastPair
  <2>3. ASSUME NEW y \in able \ {x} PROVE Time(x) < Time(y) \/ (Time(x) = Time(y) /\ x < y)
    <3>1. x \in Nat /\ y \in Nat
      BY <1>3, FilesAssumption
    <3>2. Time(x) < Time(y) \/ (Time(x) = Time(y) /\ x <= y)
      BY <2>2
    <3> HIDE DEF Time
    <3> QED BY <3>1, <3>2
  <2>4. best \in able
    <3>1. \E z \in able : \A y \in able \ {z} : Time(z) < Time(y) \/ (Time(z) = Time(y) /\ z < y)
      BY <2>3
    <3> HIDE DEF Time
    <3> QED BY <3>1
  <2> HIDE DEF best, Time
  <2> QED BY <1>3, <1>4, <2>4, QueueOfFile
<1> HIDE DEF best, Time, here, free
<1>6. /\ DOMAIN seen = DOMAIN locals /\ seen.selected \in Queues \cup {NoQueue}
      /\ seen.selected = locals.selected \/ (/\ seen.selected \in Queues
                                             /\ queues[seen.selected] # <<>>)
  BY <1>2, <1>5
<1> HIDE DEF seen
<1>7. DOMAIN locals' = DOMAIN seen /\ locals'.selected = seen.selected
  BY <1>1, <1>2, <1>6
<1> QED BY SMTT(60), <1>2, <1>6, <1>7

\* A scan of a line by aIOLi grows factors and quanta, and moves no request.
LEMMA aIOLiScanQuiet ==
  ASSUME Places, aIOLi_scan, current_alg = "aIOLi", UNCHANGED <<wfqVars, twinsVars>>
  PROVE  StateTypes' /\ ListTypes' /\ Still /\ SchedulerTypes'
<1> DEFINE free == {f \in {g \in files : LineOf[g] = locals.line} : Visited(f).time = 0}
<1>1. /\ UNCHANGED <<users, files, counters, info, history>> /\ UNCHANGED <<timeline, multi_timeline>>
      /\ queues' = [q \in Queues |-> IF FileOf(q) \in free /\ LookedAt(q, aIOLiPlace)
                                     THEN Grown(q) ELSE queues[q]]
      /\ apc = "scan" /\ apc' \in {"pick", "scan"}
  BY ZenonT(60) DEF aIOLi_scan, Go
<1>2. /\ data' = data /\ pc' = pc /\ stamp' = stamp /\ g_last_timestamp' = g_last_timestamp
      /\ files' = files /\ current_size' = current_size /\ info' = info /\ calls' = calls
      /\ removed' = removed /\ current_alg' = current_alg
  BY <1>1 DEF users, input, counters, history
<1>3. Accepted' = Accepted /\ Held' = Held
  BY <1>2 DEF Accepted, Held
<1>4. StateTypes'
  BY <1>1, <1>2, <1>3 DEF StateTypes, Places
<1>5. ASSUME NEW q \in Queues
      PROVE  /\ queues'[q] \in ListOf(data, q) /\ NoneTwice(queues'[q])
             /\ Members(queues'[q]) = Members(queues[q])
  <2>1. /\ queues \in [Queues -> Seq(Entry(data))] /\ queues[q] \in ListOf(data, q)
        /\ NoneTwice(queues[q])
    <3>1. QueueList(q) \in Lists /\ ListAt(QueueList(q)) = queues[q]
      BY ListNames, ListContents
    <3> QED BY <3>1 DEF Places, ListTypes, Apart
  <2>2. queues'[q] = Grown(q) \/ queues'[q] = queues[q]
    BY <1>1
  <2> QED BY <2>1, <2>2, GrownList
<1>6. ListTypes'
  <2>1. \A q \in Queues : queues'[q] \in Seq(Entry(data))
    BY <1>5, QueueIsList
  <2>2. queues' \in [Queues -> Seq(Entry(data))]
    BY <1>1, <2>1
  <2> QED BY <1>1, <1>2, <1>5, <2>2 DEF ListTypes, Places
<1>7. ListsLose({})
  BY <1>1, <1>5, QueuesLose
<1>8. Still
  BY <1>2, <1>3, <1>7 DEF Still, Stays
<1>9. SchedulerTypes'
  BY <1>1, <1>2, ScanFinds DEF SchedulerTypes, Places, wfqVars, twinsVars
<1> QED BY SMTT(60), <1>4, <1>6, <1>8, <1>9

\* A visit of a list that is not empty takes its first requests.
LEMMA TakenSome ==
  ASSUME NEW E, NEW list \in Seq(E), list # <<>>, NEW quantum
  PROVE  Taken(list, quantum) \in 1 .. Len(list)
<1> DEFINE T == {n \in DOMAIN list : n < Len(list) =>
                   \/ Used(list, n) >= quantum
                   \/ list[n + 1].len > quantum - Used(list, n)}
<1>1. Len(list) \in Nat \ {0} /\ DOMAIN list = 1 .. Len(list)
  BY EmptySeq, LenProperties
<1>2. T \in SUBSET Nat /\ Len(list) \in T /\ T \in SUBSET (1 .. Len(list))
  BY <1>1
<1>3. Taken(list, quantum) = Min(T)
  BY DEF Taken
<1> HIDE DEF T
<1>4. Min(T) \in T
  BY <1>2, MinNat
<1> QED BY <1>2, <1>3, <1>4

\* aIOLi takes the first requests of the queue it selected.
LEMMA aIOLiSelects ==
  ASSUME Places, aIOLi_drain, current_alg = "aIOLi", UNCHANGED <<wfqVars, twinsVars>>
  PROVE  StateTypes' /\ ListTypes' /\ SchedulerTypes' /\ \E B : Selects(B)
<1>1. PICK q \in Queues : q = locals.selected
  BY SMTT(60) DEF aIOLi_drain, Places, SchedulerTypes
<1> DEFINE list  == queues[q]
           taken == Taken(list, globalinfo[q].nextquantum)
           batch == SubSeq(list, 1, taken)
           new   == SubSeq(list, taken + 1, Len(list))
<1>2. /\ list # <<>> /\ queues' = [queues EXCEPT ![q] = new]
      /\ Step1(batch) /\ apc = "drain" /\ apc' = "callback"
      /\ UNCHANGED <<users, files, history>> /\ UNCHANGED <<timeline, multi_timeline>>
      /\ locals' = locals
  BY <1>1 DEF aIOLi_drain, Go
<1>3. /\ QueueList(q) \in Lists /\ ListAt(QueueList(q)) = list
      /\ ListAt(QueueList(q))' = new
      /\ \A m \in Lists \ {QueueList(q)} : ListAt(m)' = ListAt(m)
  BY <1>2, QueueChanges DEF Places
<1>4. list \in Seq(Entry(data)) /\ list \in Seq(EntryOf(data, q)) /\ NoneTwice(list)
  <2>1. NoneTwice(list)
    BY <1>3 DEF Places, Apart
  <2>2. list \in ListOf(data, q)
    BY DEF Places, ListTypes
  <2> QED BY <2>1, <2>2, QueueIsList
<1> HIDE DEF list
<1>5. taken \in 1 .. Len(list) /\ taken \in 0 .. Len(list)
  <2>1. taken \in 1 .. Len(list)
    BY <1>2, <1>4, TakenSome
  <2>2. Len(list) \in Nat
    BY <1>4, LenProperties
  <2> HIDE DEF taken
  <2> QED BY <2>1, <2>2
<1> HIDE DEF taken
<1>6. /\ new \in Seq(EntryOf(data, q)) /\ NoneTwice(new)
      /\ batch \in Seq(EntryOf(data, q)) /\ NoneTwice(batch)
      /\ Members(new) = Members(list) \ Members(batch)
      /\ Members(batch) \in SUBSET Members(list) /\ Len(batch) = taken
  BY <1>4, <1>5, Rest
<1> HIDE DEF batch, new
<1>7. /\ new \in Seq(Entry(data)) /\ batch \in Seq(Entry(data)) /\ batch # <<>>
  <2>1. new \in Seq(Entry(data)) /\ batch \in Seq(Entry(data))
    BY <1>6, QueueIsList DEF ListOf
  <2>2. batch # <<>>
    <3>1. Len(batch) # 0
      BY <1>5, <1>6
    <3> QED BY <3>1
  <2> QED BY <2>1, <2>2
<1>8. ListsLose(Members(batch))
  BY <1>3, <1>6, OneListLoses DEF Places
<1>9. Members(batch) \in SUBSET Waiting
  BY <1>3, <1>6, WaitingAre DEF Places
<1>13. \A i \in DOMAIN batch : InAList(batch[i])
  <2> SUFFICES ASSUME NEW i \in DOMAIN batch PROVE InAList(batch[i])
    OBVIOUS
  <2>1. i \in 1 .. taken
    BY <1>6, <1>7, LenProperties
  <2>2. batch[i] = list[i]
    BY <1>4, <1>5, <2>1, Rest DEF batch
  <2>3. i \in DOMAIN list
    <3>1. DOMAIN list = 1 .. Len(list) /\ Len(list) \in Nat
      BY <1>4, LenProperties
    <3> QED BY <1>5, <2>1, <3>1
  <2> QED BY <1>3, <2>2, <2>3 DEF InAList
<1>10. StateTypes' /\ Selects(Members(batch))
  BY <1>2, <1>6, <1>7, <1>8, <1>9, <1>13, Step1Selects
<1>11. ListTypes'
  <2>1. new \in ListOf(data, q) /\ queues' = [queues EXCEPT ![q] = new]
    BY <1>2, <1>6 DEF ListOf
  <2> QED BY <1>2, <1>7, <2>1 DEF Places, ListTypes, users, input
<1>12. SchedulerTypes'
  BY <1>2 DEF SchedulerTypes, Places, users, input, wfqVars, twinsVars
<1> QED BY <1>10, <1>11, <1>12

\* The place MLF finds in a queue is that of a request, or 0.
LEMMA MLFPlaceType ==
  ASSUME NEW q \in Queues, Len(Grown(q)) \in Nat
  PROVE  MLFPlace[q] \in 0 .. Len(Grown(q))
<1> DEFINE T == {i \in 1 .. Len(Grown(q)) : Fits(Grown(q)[i], config_mlf_quantum)}
<1>1. MLFPlace[q] = IF T # {} THEN Min(T) ELSE 0
  BY DEF MLFPlace, SelectInSeq
<1>2. T \in SUBSET Nat /\ T \in SUBSET (1 .. Len(Grown(q)))
  OBVIOUS
<1> HIDE DEF T
<1>3. T # {} => Min(T) \in 1 .. Len(Grown(q))
  BY <1>2, MinNat
<1> QED BY <1>1, <1>3

\* The requests MLF takes from the files it goes to, one from each: it takes them from
\* different queues, and each from its place.
LEMMA MLFTakes ==
  ASSUME Places, NEW place, place = MLFPlace, NEW f \in Files,
         MLF_select_request(f, place).proceeds
  PROVE  LET q   == MLF_select_request(f, place).queue
             req == MLF_select_request(f, place).req
         IN  /\ q \in Queues /\ FileOf(q) = f /\ LookedAt(q, place)
             /\ place[q] \in 1 .. Len(Grown(q)) /\ req = Grown(q)[place[q]]
             /\ req \in Entry(data) /\ OneEach(req)
             /\ IdSet(req) \in SUBSET Members(queues[q]) /\ InAList(req)
             /\ RemoveAt(Grown(q), place[q]) \in ListOf(data, q)
             /\ NoneTwice(RemoveAt(Grown(q), place[q]))
             /\ Members(RemoveAt(Grown(q), place[q])) = Members(queues[q]) \ IdSet(req)
<1>1. QueueOf(f, place) # NoQueue
  BY DEF MLF_select_request
<1>2. PICK q \in Queues : q = QueueOf(f, place) /\ FileOf(q) = f /\ LookedAt(q, place) /\ place[q] # 0
  BY <1>1, QueueOfFile
<1> DEFINE list == Grown(q)
           p == place[q]
<1>3. /\ MLF_select_request(f, place).queue = q
      /\ MLF_select_request(f, place).req = list[p]
  BY <1>1, <1>2 DEF MLF_select_request
<1>4. /\ queues \in [Queues -> Seq(Entry(data))] /\ queues[q] \in ListOf(data, q)
      /\ NoneTwice(queues[q])
  <2>1. QueueList(q) \in Lists /\ ListAt(QueueList(q)) = queues[q]
    BY ListNames, ListContents
  <2> QED BY <2>1 DEF Places, ListTypes, Apart
<1>5. /\ list \in ListOf(data, q) /\ NoneTwice(list) /\ Members(list) = Members(queues[q])
      /\ \A i \in 1 .. Len(list) : list[i] \in Entry(data)
  BY <1>4, GrownList
<1>6. /\ list \in Seq(EntryOf(data, q)) /\ Len(list) \in Nat /\ DOMAIN list = 1 .. Len(list)
  BY <1>5, QueueIsList, LenProperties
<1>7. p \in 1 .. Len(list)
  <2>1. p \in 0 .. Len(list)
    BY <1>6, MLFPlaceType
  <2> HIDE DEF list
  <2> QED BY <1>2, <1>6, <2>1
<1>10. InAList(list[p])
  <2>1. QueueList(q) \in Lists /\ ListAt(QueueList(q)) = queues[q]
    BY ListNames, ListContents
  <2>2. /\ Len(list) = Len(queues[q])
        /\ \A i \in 1 .. Len(queues[q]) : IdSet(list[i]) = IdSet(queues[q][i])
    BY <1>4, GrownList
  <2>3. DOMAIN queues[q] = 1 .. Len(queues[q])
    BY <1>4, LenProperties
  <2> HIDE DEF list, p
  <2>4. p \in DOMAIN queues[q] /\ IdSet(list[p]) = IdSet(queues[q][p])
    BY <1>7, <2>2, <2>3
  <2> QED BY <2>1, <2>4 DEF InAList
<1> HIDE DEF list, p
<1>8. /\ RemoveAt(list, p) \in Seq(EntryOf(data, q)) /\ NoneTwice(RemoveAt(list, p))
      /\ Members(RemoveAt(list, p)) = Members(list) \ IdSet(list[p])
  BY <1>5, <1>6, <1>7, WithoutEntry
<1>9. list[p] \in Entry(data) /\ OneEach(list[p]) /\ IdSet(list[p]) \in SUBSET Members(list)
  BY <1>5, <1>6, <1>7 DEF NoneTwice, Members
<1> QED BY <1>2, <1>3, <1>5, <1>7, <1>8, <1>9, <1>10 DEF ListOf, list, p

\* MLF takes at most one request from each file of a line.
LEMMA MLFSelects ==
  ASSUME Places, MLF_visit, current_alg = "MLF", UNCHANGED <<wfqVars, twinsVars>>
  PROVE  StateTypes' /\ ListTypes' /\ SchedulerTypes' /\ \E B : Selects(B)
<1> DEFINE place    == MLFPlace
           here     == FilesHere
           selected == [f \in here |-> MLF_select_request(f, place)]
           going    == {f \in here : selected[f].proceeds}
           Selects_(q) == FileOf(q) \in here /\ selected[FileOf(q)].queue = q
           Req(f)   == selected[f].req
           Queue(f) == selected[f].queue
<1> DEFINE Body(pl, sel) ==
             LET Sel(q) == FileOf(q) \in here /\ sel[FileOf(q)].queue = q
                 go     == {f \in here : sel[f].proceeds}
             IN  /\ queues' = [q \in Queues |->
                      IF FileOf(q) \notin here \/ ~ LookedAt(q, pl) THEN queues[q]
                      ELSE IF Sel(q) /\ FileOf(q) \in go THEN RemoveAt(Grown(q), pl[q])
                      ELSE Grown(q)]
                 /\ \E order \in [1 .. Cardinality(go) -> go] :
                      /\ ToSet(order) = go
                      /\ \A i, j \in DOMAIN order : i < j => order[i] < order[j]
                      /\ Step1([i \in DOMAIN order |-> sel[order[i]].req])
                 /\ NextLine(locals.processed \/ go # {},
                              IF go = {} THEN "schedule" ELSE "callback")
<1>a. \E pl \in {MLFPlace} : \E sel \in {[f \in FilesHere |-> MLF_select_request(f, pl)]} :
        Body(pl, sel)
  BY ZenonT(60) DEF MLF_visit
<1>b. Body(place, selected)
  <2> HIDE DEF Body
  <2>1. PICK pl \in {MLFPlace} : \E sel \in {[f \in FilesHere |-> MLF_select_request(f, pl)]} :
          Body(pl, sel)
    BY <1>a
  <2>2. PICK sel \in {[f \in FilesHere |-> MLF_select_request(f, pl)]} : Body(pl, sel)
    BY <2>1
  <2>3. pl = place
    BY <2>1
  <2>4. sel = selected
    BY <2>2, <2>3
  <2> QED BY <2>2, <2>3, <2>4
<1>1. PICK order \in [1 .. Cardinality(going) -> going] :
        /\ ToSet(order) = going
        /\ \A i, j \in DOMAIN order : i < j => order[i] < order[j]
        /\ Step1([i \in DOMAIN order |-> Req(order[i])])
  BY <1>b, Zenon
<1>2. /\ queues' = [q \in Queues |->
              IF FileOf(q) \notin here \/ ~ LookedAt(q, place) THEN queues[q]
              ELSE IF Selects_(q) /\ FileOf(q) \in going THEN RemoveAt(Grown(q), place[q])
              ELSE Grown(q)]
      /\ NextLine(locals.processed \/ going # {}, IF going = {} THEN "schedule" ELSE "callback")
      /\ apc = "scan"
      /\ UNCHANGED <<users, files, history>> /\ UNCHANGED <<timeline, multi_timeline>>
  <2>1. /\ queues' = [q \in Queues |->
                IF FileOf(q) \notin here \/ ~ LookedAt(q, place) THEN queues[q]
                ELSE IF Selects_(q) /\ FileOf(q) \in going THEN RemoveAt(Grown(q), place[q])
                ELSE Grown(q)]
        /\ NextLine(locals.processed \/ going # {}, IF going = {} THEN "schedule" ELSE "callback")
    BY <1>b, Zenon
  <2>2. /\ apc = "scan"
        /\ UNCHANGED <<users, files, history>> /\ UNCHANGED <<timeline, multi_timeline>>
    BY DEF MLF_visit
  <2> QED BY <2>1, <2>2
<1> HIDE DEF Body
<1>3. apc' = "callback" <=> going # {}
  <2> DEFINE inLoop == IF going = {} THEN "schedule" ELSE "callback"
             done == (MLF_current_hash + 1) % NLines = locals.start
  <2>1. apc' = IF done /\ ~ (locals.processed \/ going # {}) THEN "sleep" ELSE inLoop
    BY <1>2 DEF NextLine, Go
  <2> HIDE DEF going
  <2> QED BY <2>1
<1>4. here \in SUBSET Files /\ IsFiniteSet(going) /\ Cardinality(going) \in Nat
  <2>1. here \in SUBSET files
    BY DEF FilesHere
  <2>2. files \in SUBSET Files /\ IsFiniteSet(files)
    BY DEF Places, StateTypes
  <2>3. going \in SUBSET files
    BY <2>1
  <2> HIDE DEF here, going
  <2>4. IsFiniteSet(going)
    BY <2>2, <2>3, FS_Subset
  <2> QED BY <2>1, <2>2, <2>4, FS_CardinalityType
<1>5. ASSUME NEW f \in going
      PROVE  /\ f \in here /\ f \in Files /\ Queue(f) \in Queues /\ FileOf(Queue(f)) = f
             /\ LookedAt(Queue(f), place)
             /\ Req(f) \in Entry(data) /\ OneEach(Req(f))
             /\ IdSet(Req(f)) \in SUBSET Members(queues[Queue(f)]) /\ InAList(Req(f))
             /\ RemoveAt(Grown(Queue(f)), place[Queue(f)]) \in ListOf(data, Queue(f))
             /\ NoneTwice(RemoveAt(Grown(Queue(f)), place[Queue(f)]))
             /\ Members(RemoveAt(Grown(Queue(f)), place[Queue(f)]))
                  = Members(queues[Queue(f)]) \ IdSet(Req(f))
  <2>1. f \in Files /\ f \in here /\ MLF_select_request(f, place).proceeds
        /\ selected[f] = MLF_select_request(f, place)
    BY <1>4
  <2> HIDE DEF here, going, selected, place
  <2> QED BY <2>1, MLFTakes DEF place
<1> DEFINE B == UNION {IdSet(Req(f)) : f \in going}
           batch == [i \in 1 .. Cardinality(going) |-> Req(order[i])]
<1> HIDE DEF here, selected, place, going
<1>6. \A p, q \in Queues : p # q => Members(queues[p]) \cap Members(queues[q]) = {}
  <2>1. \A q \in Queues : QueueList(q) \in Lists /\ ListAt(QueueList(q)) = queues[q]
    BY ListNames, ListContents
  <2>2. \A p, q \in Queues : p # q => QueueList(p) # QueueList(q)
    BY ListNames
  <2> QED BY <2>1, <2>2 DEF Places, Apart
<1>7. \A f, g \in going : f # g => /\ Queue(f) # Queue(g)
                                   /\ IdSet(Req(f)) \cap IdSet(Req(g)) = {}
  <2> HIDE DEF Req, Queue
  <2> QED BY <1>5, <1>6
<1>8. ASSUME NEW q \in Queues
      PROVE  /\ queues'[q] \in ListOf(data, q) /\ NoneTwice(queues'[q])
             /\ Members(queues'[q]) = Members(queues[q]) \ B
  <2>1. /\ queues \in [Queues -> Seq(Entry(data))] /\ queues[q] \in ListOf(data, q)
        /\ NoneTwice(queues[q])
    <3>1. QueueList(q) \in Lists /\ ListAt(QueueList(q)) = queues[q]
      BY ListNames, ListContents
    <3> QED BY <3>1 DEF Places, ListTypes, Apart
  <2>2. CASE \E f \in going : Queue(f) = q
    <3>1. PICK f \in going : Queue(f) = q
      BY <2>2
    <3>2. queues'[q] = RemoveAt(Grown(q), place[q])
      BY <1>2, <1>5, <3>1
    <3>3. Members(queues[q]) \ IdSet(Req(f)) = Members(queues[q]) \ B
      <4>1. \A g \in going \ {f} : IdSet(Req(g)) \cap Members(queues[q]) = {}
        <5> HIDE DEF Req, Queue
        <5> QED BY <1>5, <1>6, <1>7, <3>1
      <4> QED BY <4>1
    <3> QED BY <1>5, <3>1, <3>2, <3>3
  <2>3. CASE ~ \E f \in going : Queue(f) = q
    <3>1. ~ (Selects_(q) /\ FileOf(q) \in going)
      BY <2>3
    <3>2. queues'[q] = Grown(q) \/ queues'[q] = queues[q]
      BY <1>2, <3>1
    <3>3. queues'[q] \in ListOf(data, q) /\ NoneTwice(queues'[q])
          /\ Members(queues'[q]) = Members(queues[q])
      BY <2>1, <3>2, GrownList
    <3>4. \A f \in going : IdSet(Req(f)) \cap Members(queues[q]) = {}
      <4> HIDE DEF Req, Queue
      <4> QED BY <1>5, <1>6, <2>3
    <3>5. Members(queues[q]) \ B = Members(queues[q])
      BY <3>4
    <3> QED BY <3>3, <3>5
  <2> QED BY <2>2, <2>3
<1>9. \A x \in B : \E q \in Queues : x \in Members(queues[q])
  <2> HIDE DEF Req, Queue
  <2> QED BY <1>5
<1> DEFINE n == Cardinality(going)
<1>10. DOMAIN order = 1 .. n /\ n \in Nat /\ \A i \in 1 .. n : order[i] \in going
  BY <1>4
<1>11. \A i, j \in 1 .. n : i # j => order[i] # order[j]
  <2>1. \A i, j \in 1 .. n : i < j => order[i] < order[j]
    BY <1>1, <1>10
  <2>2. \A i \in 1 .. n : order[i] \in Nat
    BY <1>5, <1>10, FilesAssumption
  <2> HIDE DEF n
  <2> QED BY <1>10, <2>1, <2>2
<1>12. Step1(batch)
  BY <1>1, <1>10
<1>13. \A f \in going : \E i \in 1 .. n : order[i] = f
  BY <1>1, <1>10 DEF ToSet
<1>14. DOMAIN batch = 1 .. n /\ \A i \in 1 .. n : batch[i] = Req(order[i])
  OBVIOUS
<1>15. batch \in Seq(Entry(data)) /\ Len(batch) = n
  <2>1. batch \in [1 .. n -> Entry(data)]
    <3> HIDE DEF Req, Queue, n
    <3>1. \A i \in 1 .. n : Req(order[i]) \in Entry(data)
      BY <1>5, <1>10
    <3> QED BY <3>1 DEF n
  <2> HIDE DEF batch, n
  <2> QED BY <1>10, <2>1
<1> HIDE DEF Req, Queue, batch, n
<1>16. NoneTwice(batch)
  BY <1>5, <1>7, <1>10, <1>11, <1>14 DEF NoneTwice
<1>17. Members(batch) = B
  BY <1>10, <1>13, <1>14 DEF Members
<1>18. batch # <<>> <=> going # {}
  <2>1. n = 0 <=> going = {}
    BY <1>4, FS_EmptySet DEF n
  <2> QED BY <1>10, <1>15, <2>1, EmptySeq
<1> HIDE DEF B
<1>19. ListsLose(B) /\ B \in SUBSET Waiting
  BY <1>2, <1>8, <1>9, QueuesLose
<1>23. \A i \in DOMAIN batch : InAList(batch[i])
  BY <1>5, <1>10, <1>14
<1>20. StateTypes' /\ Selects(B)
  BY <1>2, <1>3, <1>12, <1>15, <1>16, <1>17, <1>18, <1>19, <1>23, Step1Selects
<1>21. ListTypes'
  <2>1. \A q \in Queues : queues'[q] \in Seq(Entry(data))
    BY <1>8, QueueIsList
  <2>2. queues' \in [Queues -> Seq(Entry(data))]
    BY <1>2, <2>1
  <2>3. data' = data
    BY <1>2 DEF users, input
  <2> QED BY <1>2, <1>8, <2>2, <2>3 DEF ListTypes, Places
<1>22. SchedulerTypes'
  BY <1>2 DEF SchedulerTypes, Places, users, input, wfqVars, twinsVars
<1> QED BY <1>20, <1>21, <1>22

-----------------------------------------------------------------------------
(* Every step does one of these things.                                    *)

PlaceStep ==
  \/ Still
  \/ \E r \in Reqs : ComesIn(r) \/ GoesPast(r) \/ ComesBack(r) \/ Leaves(r)
  \/ \E B : Selects(B) \/ Delivers(B)

\* A user's call.
LEMMA UserPlaces ==
  ASSUME Places, NEW r \in Reqs, UserStep(r), UNCHANGED <<wfqVars, twinsVars>>
  PROVE  StateTypes' /\ ListTypes' /\ SchedulerTypes' /\ PlaceStep
<1>1. CASE CallAdd(r)
  BY <1>1, CallAddQuiet DEF PlaceStep
<1>2. CASE Add(r)
  BY <1>2, AddComesIn DEF PlaceStep
<1>3. CASE AddNoop(r)
  BY <1>3, AddNoopGoesPast DEF PlaceStep
<1>4. CASE NoopCallback(r)
  BY <1>4, NoopCallbackComesBack DEF PlaceStep
<1>5. CASE agios_release_request(r)
  BY <1>5, ReleaseQuiet DEF PlaceStep
<1>6. CASE CancelRemoves(r)
  <2> DEFINE gone == Cancelled(SearchedList(r), Found(r), data[r].offset, data[r].len)
  <2>1. StateTypes' /\ ListTypes' /\ SchedulerTypes' /\ Leaves(gone.id) /\ gone \in Simple(data)
    BY <1>6, CancelRemovesLeaves
  <2> HIDE DEF gone
  <2>2. gone.id \in Reqs
    BY <2>1, DataAre DEF Simple, Places, StateTypes
  <2> QED BY <2>1, <2>2 DEF PlaceStep
<1>7. CASE CancelFindsNothing(r)
  BY <1>7, FindsNothingQuiet DEF PlaceStep
<1> QED BY <1>1, <1>2, <1>3, <1>4, <1>5, <1>6, <1>7 DEF UserStep, agios_cancel_request

\* A step of the algorithm.
LEMMA SchedulePlaces ==
  ASSUME Places, schedule
  PROVE  StateTypes' /\ ListTypes' /\ SchedulerTypes' /\ PlaceStep
<1>1. CASE (timeorder \/ NOOP_empty) /\ UNCHANGED <<statics, waitVars>>
  <2>1. current_alg \notin {"SJF", "aIOLi"} /\ UNCHANGED <<wfqVars, twinsVars>>
        /\ (timeorder_test \/ timeorder_pick \/ timeorder_assert \/ NOOP_empty)
    BY <1>1 DEF timeorder, NOOP_empty, statics
  <2>2. CASE timeorder_pick
    BY <2>1, <2>2, TimeorderSelects DEF PlaceStep
  <2>3. CASE timeorder_test \/ timeorder_assert \/ NOOP_empty
    BY <2>1, <2>3, TimeorderQuiet DEF PlaceStep
  <2> QED BY <2>1, <2>2, <2>3
<1>2. CASE SJF /\ UNCHANGED <<statics, waitVars>>
  <2>1. current_alg = "SJF" /\ UNCHANGED <<wfqVars, twinsVars>>
        /\ (SJF_test \/ SJF_scan \/ SJF_shortcut \/ SJF_pick \/ SJF_assert)
    BY <1>2 DEF SJF, statics
  <2>2. CASE SJF_pick
    BY <2>1, <2>2, SJFSelects DEF PlaceStep
  <2>3. CASE SJF_test \/ SJF_scan \/ SJF_shortcut \/ SJF_assert
    BY <2>1, <2>3, SJFQuiet DEF PlaceStep
  <2> QED BY <2>1, <2>2, <2>3
<1>3. CASE WFQ /\ UNCHANGED <<twinsVars, mlfVars, waitVars>>
  <2>1. current_alg = "WFQ" /\ UNCHANGED twinsVars /\ (WFQ_test \/ WFQ_pick \/ WFQ_turn)
    BY <1>3 DEF WFQ
  <2>2. CASE WFQ_pick
    BY <2>1, <2>2, WFQSelects DEF PlaceStep
  <2>3. CASE WFQ_test \/ WFQ_turn
    BY <2>1, <2>3, WFQQuiet DEF PlaceStep
  <2> QED BY <2>1, <2>2, <2>3
<1>4. CASE TWINS /\ UNCHANGED <<wfqVars, mlfVars, waitVars>>
  <2>1. /\ current_alg = "TWINS" /\ UNCHANGED wfqVars
        /\ \/ TWINS_test
           \/ \E elapsed \in BOOLEAN : TWINS_pick(elapsed) \/ TWINS_break(elapsed)
    BY <1>4 DEF TWINS, TWINS_look
  <2>2. CASE TWINS_test \/ \E elapsed \in BOOLEAN : TWINS_break(elapsed)
    BY <2>1, <2>2, TWINSQuiet DEF PlaceStep
  <2>3. ASSUME NEW elapsed \in BOOLEAN, TWINS_pick(elapsed)
        PROVE  StateTypes' /\ ListTypes' /\ SchedulerTypes' /\ PlaceStep
    BY <2>1, <2>3, TWINSSelects DEF PlaceStep
  <2> QED BY <2>1, <2>2, <2>3
<1>5. CASE MLF /\ UNCHANGED <<wfqVars, twinsVars>>
  <2>1. current_alg = "MLF" /\ UNCHANGED <<wfqVars, twinsVars>>
        /\ (MLF_test \/ MLF_skip \/ MLF_visit)
    BY <1>5 DEF MLF
  <2>2. CASE MLF_visit
    BY <2>1, <2>2, MLFSelects DEF PlaceStep
  <2>3. CASE MLF_test \/ MLF_skip
    BY <2>1, <2>3, MLFQuiet DEF PlaceStep
  <2> QED BY <2>1, <2>2, <2>3
<1>6. CASE aIOLi /\ UNCHANGED statics
  <2>1. current_alg = "aIOLi" /\ UNCHANGED <<wfqVars, twinsVars>>
        /\ (aIOLi_test \/ aIOLi_scan \/ aIOLi_check \/ aIOLi_none \/ aIOLi_drain \/ aIOLi_undefined)
    BY <1>6 DEF aIOLi, statics
  <2>2. CASE aIOLi_drain
    BY <2>1, <2>2, aIOLiSelects DEF PlaceStep
  <2>3. CASE aIOLi_scan
    BY <2>1, <2>3, aIOLiScanQuiet DEF PlaceStep
  <2>4. CASE aIOLi_test \/ aIOLi_check \/ aIOLi_none \/ aIOLi_undefined
    BY <2>1, <2>4, aIOLiQuiet DEF PlaceStep
  <2> QED BY <2>1, <2>2, <2>3, <2>4
<1> QED BY <1>1, <1>2, <1>3, <1>4, <1>5, <1>6 DEF schedule

\* Any step, or none.
LEMMA NextPlaces ==
  ASSUME Places, [Next]_vars
  PROVE  StateTypes' /\ ListTypes' /\ SchedulerTypes' /\ PlaceStep
<1>1. CASE CoreNext /\ UNCHANGED <<statics, waitVars>>
  <2>1. UNCHANGED <<wfqVars, twinsVars>>
    BY <1>1 DEF statics
  <2>2. CASE \E r \in Reqs : UserStep(r)
    BY <2>1, <2>2, UserPlaces
  <2>3. CASE agios_exit \/ CheckQueued \/ WakeUp \/ TestStop
    BY <2>1, <2>3, LoopQuiet DEF PlaceStep
  <2>4. CASE process_requests_step2
    BY <2>1, <2>4, Step2Delivers DEF PlaceStep
  <2> QED BY <1>1, <2>2, <2>3, <2>4 DEF CoreNext, ThreadStep
<1>2. CASE Tick /\ UNCHANGED statics
  <2>1. UNCHANGED <<wfqVars, twinsVars>>
    BY <1>2 DEF statics
  <2> QED BY <1>2, <2>1, TickQuiet DEF PlaceStep
<1>3. CASE schedule
  BY <1>3, SchedulePlaces
<1>4. CASE UNCHANGED vars
  <2>1. /\ UNCHANGED <<data, lists, current_size, calls, removed, files>>
        /\ UNCHANGED <<current_alg, apc, locals, pc, stamp, g_last_timestamp, info,
                       wfqVars, twinsVars>>
    BY <1>4 DEF vars, statics, coreVars, users, input, structures, counters, thread, history
  <2>2. Held' = Held /\ Accepted' = Accepted
    BY <2>1 DEF Held, Accepted
  <2>3. SchedulerTypes'
    BY <2>1, SchedulersQuiet DEF Places
  <2>4. StateTypes'
    BY <2>1, <2>2 DEF StateTypes, Places
  <2>5. ListTypes'
    BY <2>1 DEF ListTypes, Places, lists
  <2>6. Still
    BY <2>1, <2>2, ListsLoseNothing DEF Still, Stays, Places
  <2> QED BY <2>3, <2>4, <2>5, <2>6 DEF PlaceStep
<1> QED BY <1>1, <1>2, <1>3, <1>4 DEF Next

\* The places are kept by every step.
LEMMA PlacesKept == Places /\ [Next]_vars => Places'
<1> SUFFICES ASSUME Places, [Next]_vars PROVE Places'
  OBVIOUS
<1>1. StateTypes' /\ ListTypes' /\ SchedulerTypes' /\ PlaceStep
  BY NextPlaces
<1>2. StateTypes /\ ListTypes /\ Apart /\ Complete
  BY DEF Places
<1>3. Apart' /\ Complete'
  <2>1. CASE Still
    BY <1>1, <1>2, <2>1, StillKeeps
  <2>2. ASSUME NEW r \in Reqs, ComesIn(r) \/ GoesPast(r) \/ ComesBack(r) \/ Leaves(r)
        PROVE  Apart' /\ Complete'
    BY <1>1, <1>2, <2>2, ComesInKeeps, GoesPastKeeps, ComesBackKeeps, LeavesKeeps
  <2>3. ASSUME NEW B, Selects(B) \/ Delivers(B) PROVE Apart' /\ Complete'
    BY <1>1, <1>2, <2>3, SelectsKeeps, DeliversKeeps
  <2> QED BY <1>1, <2>1, <2>2, <2>3 DEF PlaceStep
<1> QED BY <1>1, <1>3 DEF Places

\* At the start all lists are empty.
LEMMA PlacesAtStart == LibraryInit => Places
<1> SUFFICES ASSUME LibraryInit PROVE Places
  OBVIOUS
<1> USE DEF LibraryInit, Init, WFQ_init, TWINS_init
<1>1. max_queue_id \in Nat \ {0}
  BY AlgAssumption
<1>2. Held = {} /\ Accepted = {} /\ Chosen = {} /\ Delivered = {}
  BY DEF Held, Accepted, Chosen, AllIds, Delivered
<1>3. \A S : <<>> \in Seq(S) /\ DOMAIN <<>> = {}
  OBVIOUS
<1>4. Members(<<>>) = {} /\ NoneTwice(<<>>)
  BY DEF Members, NoneTwice
<1>5. StateTypes
  <2>1. IsFiniteSet({})
    BY FS_EmptySet
  <2> QED BY <1>2, <1>3, <2>1 DEF StateTypes, IdLists
<1>6. ListTypes
  BY <1>3, <1>4 DEF ListTypes, ListOf
<1>7. SchedulerTypes
  BY <1>1 DEF SchedulerTypes, QueueIds
<1>8. \A l \in Lists : ListAt(l) = <<>>
  BY ListNames, ListContents
<1>9. Waiting = {}
  BY <1>4, <1>8 DEF Waiting, Waits
<1>10. Apart
  BY <1>2, <1>3, <1>4, <1>8, <1>9 DEF Apart, Once
<1>11. Complete
  BY <1>2, <1>9 DEF Complete
<1> QED BY <1>5, <1>6, <1>7, <1>10, <1>11 DEF Places

\* A request that was added is in one place, always: with all the algorithms,
\* for any number of requests, files, lines and queue ids.
THEOREM AlwaysPlaces == Spec => []Places
BY PlacesAtStart, PlacesKept, PTL DEF Spec

-----------------------------------------------------------------------------
(* No request is lost and none is duplicated.                              *)

\* In a sequence of sequences with nothing twice an id has one position, or none.
LEMMA OnePosition ==
  ASSUME NEW ids, Once(ids), NEW r
  PROVE  /\ r \in AllIds(ids) => \E p : Positions(ids, r) = {p}
         /\ r \notin AllIds(ids) => Positions(ids, r) = {}
<1>1. ASSUME NEW x
      PROVE  x \in Positions(ids, r) <=>
               \E i \in DOMAIN ids : \E k \in DOMAIN ids[i] : x = <<i, k>> /\ ids[i][k] = r
  BY DEF Positions
<1>2. r \in AllIds(ids) <=> \E i \in DOMAIN ids : \E k \in DOMAIN ids[i] : ids[i][k] = r
  BY DEF AllIds, ToSet
<1>3. ASSUME r \in AllIds(ids) PROVE \E p : Positions(ids, r) = {p}
  <2>1. PICK i \in DOMAIN ids : \E k \in DOMAIN ids[i] : ids[i][k] = r
    BY <1>2, <1>3
  <2>2. PICK k \in DOMAIN ids[i] : ids[i][k] = r
    BY <2>1
  <2>3. ASSUME NEW x PROVE x \in Positions(ids, r) <=> x = <<i, k>>
    BY <1>1, <2>2 DEF Once
  <2>4. Positions(ids, r) = {<<i, k>>}
    BY <2>3
  <2> QED BY <2>4
<1>4. ASSUME r \notin AllIds(ids) PROVE Positions(ids, r) = {}
  BY <1>1, <1>2, <1>4
<1> QED BY <1>3, <1>4

\* Every list has entries for its elements.
LEMMA ListsOfEntries ==
  ASSUME Places
  PROVE  \A l \in Lists : ListAt(l) \in Seq(Entry(data))
<1> SUFFICES ASSUME NEW l \in Lists PROVE ListAt(l) \in Seq(Entry(data))
  OBVIOUS
<1>1. Simple(data) \subseteq Entry(data)
  BY DEF Entry
<1>2. \A i \in 0 .. max_queue_id : multi_timeline[i] \in Seq(Entry(data))
  <2> SUFFICES ASSUME NEW i \in 0 .. max_queue_id PROVE multi_timeline[i] \in Seq(Entry(data))
    OBVIOUS
  <2>1. multi_timeline[i] \in Seq(Simple(data))
    BY DEF Places, ListTypes
  <2> QED BY <1>1, <2>1, SeqMonotonic
<1>3. timeline \in Seq(Entry(data)) /\ \A q \in Queues : queues[q] \in Seq(Entry(data))
  BY DEF Places, ListTypes
<1> QED BY <1>2, <1>3, ListNames, ListContents

\* The ids in a list, as sequences.
LEMMA ListIds ==
  ASSUME Places, NEW l \in Lists
  PROVE  Once(IdsIn(ListAt(l))) /\ AllIds(IdsIn(ListAt(l))) = Members(ListAt(l))
<1>1. ListAt(l) \in Seq(Entry(data))
  BY ListsOfEntries
<1>2. NoneTwice(ListAt(l)) /\ data \in [Reqs -> Arguments]
  BY DEF Places, Apart, StateTypes
<1> QED BY <1>1, <1>2, BatchIds

\* OnePlace follows.
LEMMA PlacesAreOne == Places => OnePlace
<1> SUFFICES ASSUME Places, NEW r \in Reqs
             PROVE  Cardinality(Slots(r)) + (IF pc[r] = "callback" THEN 1 ELSE 0)
                      + (IF r \in removed THEN 1 ELSE 0)
                    = IF pc[r] \in {"callback", "added"} THEN 1 ELSE 0
  BY DEF OnePlace
<1> DEFINE At(l) == Positions(IdsIn(ListAt(l)), r)
           inLists == UNION {{l} \X At(l) : l \in Lists}
           inInfo  == {<<"info", 0>>} \X Positions(info, r)
           inCalls == {<<"calls", 0>>} \X Positions(calls, r)
<1>1. Slots(r) = inLists \cup inInfo \cup inCalls
  BY DEF Slots
<1>2. \A l \in Lists : /\ r \in Members(ListAt(l)) => \E p : At(l) = {p}
                       /\ r \notin Members(ListAt(l)) => At(l) = {}
  BY ListIds, OnePosition
<1>3. /\ r \in Chosen => \E p : Positions(info, r) = {p}
      /\ r \notin Chosen => Positions(info, r) = {}
  BY OnePosition DEF Chosen, Places, Apart
<1>4. /\ r \in Delivered => \E p : Positions(calls, r) = {p}
      /\ r \notin Delivered => Positions(calls, r) = {}
  <2>1. Delivered = AllIds(calls)
    BY DEF Delivered, AllIds
  <2> QED BY <2>1, OnePosition DEF Places, Apart
<1>5. Waiting = UNION {Members(ListAt(l)) : l \in Lists}
  BY WaitingAre DEF Places
<1> HIDE DEF At
<1>6. r \in Waiting => \E x : inLists = {x}
  <2> SUFFICES ASSUME r \in Waiting PROVE \E x : inLists = {x}
    OBVIOUS
  <2>1. PICK l \in Lists : r \in Members(ListAt(l))
    BY <1>5
  <2>2. \A m \in Lists \ {l} : r \notin Members(ListAt(m))
    BY <2>1 DEF Places, Apart
  <2>3. PICK p : At(l) = {p}
    BY <1>2, <2>1
  <2>4. \A m \in Lists \ {l} : At(m) = {}
    BY <1>2, <2>2
  <2>5. inLists = {<<l, p>>}
    BY <2>3, <2>4
  <2> QED BY <2>5
<1>7. r \notin Waiting => inLists = {}
  BY <1>2, <1>5
<1>8. /\ r \in Chosen => \E x : inInfo = {x}
      /\ r \notin Chosen => inInfo = {}
      /\ r \in Delivered => \E x : inCalls = {x}
      /\ r \notin Delivered => inCalls = {}
  <2>1. ASSUME NEW a, NEW S PROVE (\E p : S = {p}) => \E x : {a} \X S = {x}
    <3> SUFFICES ASSUME NEW p, S = {p} PROVE \E x : {a} \X S = {x}
      OBVIOUS
    <3>1. {a} \X {p} = {<<a, p>>}
      OBVIOUS
    <3> QED BY <3>1
  <2>2. \A a, S : S = {} => {a} \X S = {}
    OBVIOUS
  <2>3. (\E p : Positions(info, r) = {p}) => \E x : inInfo = {x}
    BY ZenonT(60), <2>1
  <2>4. (\E p : Positions(calls, r) = {p}) => \E x : inCalls = {x}
    BY ZenonT(60), <2>1
  <2> QED BY <1>3, <1>4, <2>2, <2>3, <2>4
<1> HIDE DEF inLists, inInfo, inCalls
<1>9. /\ Waiting \cap Chosen = {} /\ Waiting \cap Delivered = {} /\ Waiting \cap Held = {}
      /\ Waiting \cap removed = {} /\ Chosen \cap Delivered = {} /\ Chosen \cap Held = {}
      /\ Chosen \cap removed = {} /\ Delivered \cap Held = {} /\ Delivered \cap removed = {}
      /\ Held \cap removed = {}
      /\ Waiting \cup Chosen \cup Delivered \cup Held \cup removed = Accepted
  BY DEF Places, Apart, Complete
<1>10. (pc[r] = "callback" <=> r \in Held) /\ (pc[r] \in {"callback", "added"} <=> r \in Accepted)
  BY DEF Held, Accepted
<1>11. IF r \in Waiting \cup Chosen \cup Delivered THEN \E x : Slots(r) = {x} ELSE Slots(r) = {}
  <2>1. CASE r \in Waiting
    BY <1>1, <1>6, <1>8, <1>9, <2>1
  <2>2. CASE r \in Chosen
    BY <1>1, <1>7, <1>8, <1>9, <2>2
  <2>3. CASE r \in Delivered
    BY <1>1, <1>7, <1>8, <1>9, <2>3
  <2>4. CASE r \notin Waiting \cup Chosen \cup Delivered
    BY <1>1, <1>7, <1>8, <2>4
  <2> QED BY <2>1, <2>2, <2>3, <2>4
<1>12. Cardinality(Slots(r)) = IF r \in Waiting \cup Chosen \cup Delivered THEN 1 ELSE 0
  BY <1>11, FS_Singleton, FS_EmptySet
<1> QED BY <1>9, <1>10, <1>12

\* No request is lost and none is duplicated, whatever the algorithm and the calls.
THEOREM NothingLost == Spec => []OnePlace
BY AlwaysPlaces, PlacesAreOne, PTL

-----------------------------------------------------------------------------
(* Users see the life that RequestLife promises.                           *)

\* Only what was given back is released, or refused, and not both.
Releases ==
  /\ released \subseteq Delivered /\ refused \subseteq Delivered
  /\ released \cap refused = {}

\* The stage of a request, from where it is.
StageOf(r, given, out, taken, sel, acc) ==
  IF r \in given THEN "released"
  ELSE IF r \in out THEN "delivered"
  ELSE IF r \in taken THEN "cancelled"
  ELSE IF r \in sel THEN "selected"
  ELSE IF r \in acc THEN "queued" ELSE "new"

\* What a user sees of a request follows from the place it is in.
LEMMA StatusIsStage ==
  \A r \in Reqs : Status(r) = StageOf(r, released, Delivered, removed, Held \cup Chosen, Accepted)
<1> SUFFICES ASSUME NEW r \in Reqs
             PROVE  Status(r) = StageOf(r, released, Delivered, removed, Held \cup Chosen, Accepted)
  OBVIOUS
<1>1. Selected(r) <=> r \in Held \cup Chosen
  BY DEF Selected, Held, Chosen, AllIds
<1>2. r \notin Held \cup Chosen => (pc[r] = "added" <=> r \in Accepted)
  BY DEF Held, Accepted
<1> QED BY <1>1, <1>2 DEF Status, StageOf

\* The same of the next state.
LEMMA StatusIsStageNext ==
  \A r \in Reqs :
    Status(r)' = StageOf(r, released', Delivered', removed', Held' \cup Chosen', Accepted')
<1>1. (\A r \in Reqs :
         Status(r) = StageOf(r, released, Delivered, removed, Held \cup Chosen, Accepted))'
  BY StatusIsStage, PTL
<1>2. ASSUME NEW r \in Reqs
      PROVE  (Status(r) = StageOf(r, released, Delivered, removed, Held \cup Chosen, Accepted))'
  BY <1>1
<1> QED BY <1>2 DEF StageOf

\* Only a release releases.
LEMMA ReleaseOrNot ==
  ASSUME Places, [Next]_vars
  PROVE  \/ UNCHANGED <<released, refused>>
         \/ Still /\ \E r \in Reqs : agios_release_request(r)
<1>1. CASE CoreNext /\ UNCHANGED <<statics, waitVars>>
  <2>1. UNCHANGED <<wfqVars, twinsVars>>
    BY <1>1 DEF statics
  <2>2. ASSUME NEW r \in Reqs, UserStep(r)
        PROVE  UNCHANGED <<released, refused>> \/ (Still /\ agios_release_request(r))
    <3>1. CASE agios_release_request(r)
      BY <2>1, <3>1, ReleaseQuiet
    <3>2. CASE CallAdd(r) \/ Add(r) \/ AddNoop(r) \/ NoopCallback(r) \/ agios_cancel_request(r)
      BY <3>2 DEF CallAdd, Add, AddNoop, NoopCallback, agios_cancel_request, CancelRemoves,
                  CancelFindsNothing, history
    <3> QED BY <2>2, <3>1, <3>2 DEF UserStep
  <2>3. CASE agios_exit \/ ThreadStep
    BY <2>3 DEF agios_exit, ThreadStep, CheckQueued, WakeUp, TestStop, process_requests_step2, history
  <2> QED BY <1>1, <2>2, <2>3 DEF CoreNext
<1>2. CASE Tick \/ UNCHANGED vars
  BY <1>2 DEF Tick, vars, coreVars, history
<1>3. CASE schedule
  <2>1. CASE timeorder \/ NOOP_empty \/ SJF
    BY <2>1 DEF timeorder, timeorder_test, timeorder_pick, timeorder_assert, NOOP_empty, SJF,
                SJF_test, SJF_scan, SJF_shortcut, SJF_pick, SJF_assert, history
  <2>2. CASE WFQ \/ TWINS
    BY <2>2 DEF WFQ, WFQ_test, WFQ_pick, WFQ_turn, TWINS, TWINS_test, TWINS_look, TWINS_pick,
                TWINS_break, history
  <2>3. CASE MLF
    BY SMTT(60), <2>3 DEF MLF, MLF_test, MLF_skip, MLF_visit, history
  <2>4. CASE aIOLi
    BY ZenonT(60), <2>4 DEF aIOLi, aIOLi_test, aIOLi_scan, aIOLi_check, aIOLi_none, aIOLi_drain,
                aIOLi_undefined, history
  <2> QED BY <1>3, <2>1, <2>2, <2>3, <2>4 DEF schedule
<1> QED BY <1>1, <1>2, <1>3 DEF Next

\* What was given back stays given back.
LEMMA DeliveredGrows ==
  ASSUME Places, StateTypes', ListTypes', PlaceStep
  PROVE  Delivered \subseteq Delivered'
<1>1. StateTypes /\ ListTypes /\ Apart /\ Complete
  BY DEF Places
<1>2. ASSUME UNCHANGED calls PROVE Delivered' = Delivered
  BY <1>2 DEF Delivered
<1>3. CASE Still
  BY <1>2, <1>3 DEF Still, Stays
<1>4. ASSUME NEW r \in Reqs, ComesIn(r) \/ GoesPast(r) \/ Leaves(r)
      PROVE  Delivered \subseteq Delivered'
  BY <1>2, <1>4 DEF ComesIn, GoesPast, Leaves
<1>5. ASSUME NEW r \in Reqs, ComesBack(r) PROVE Delivered \subseteq Delivered'
  BY <1>1, <1>5, ComesBackKeeps
<1>6. ASSUME NEW B, Selects(B) \/ Delivers(B) PROVE Delivered \subseteq Delivered'
  BY <1>2, <1>6 DEF Selects, Delivers
<1> QED BY <1>3, <1>4, <1>5, <1>6 DEF PlaceStep

\* Every step keeps the releases to requests that were given back.
LEMMA ReleasesKept == Places /\ Releases /\ [Next]_vars => Releases'
<1> SUFFICES ASSUME Places, Releases, [Next]_vars PROVE Releases'
  OBVIOUS
<1>1. Delivered \subseteq Delivered'
  BY NextPlaces, DeliveredGrows
<1>2. CASE UNCHANGED <<released, refused>>
  BY <1>1, <1>2 DEF Releases
<1>3. ASSUME NEW r \in Reqs, agios_release_request(r) PROVE Releases'
  <2>1. /\ r \in Delivered \ (released \cup refused)
        /\ \/ released' = released \cup {r} /\ refused' = refused
           \/ released' = released /\ refused' = refused \cup {r}
    BY <1>3 DEF agios_release_request
  <2> QED BY <1>1, <2>1 DEF Releases
<1> QED BY <1>2, <1>3, ReleaseOrNot

\* Nothing was released at the start.
LEMMA ReleasesAtStart == LibraryInit => Releases
BY DEF LibraryInit, Init, Releases

\* A step moves one request, or the requests of a batch, from one stage to the next.
LEMMA StepOfLife ==
  ASSUME Places, Releases, [Next]_vars
  PROVE  [Life!Next]_([r \in Reqs |-> Status(r)])
<1> DEFINE status == [r \in Reqs |-> Status(r)]
           Now(r)  == StageOf(r, released, Delivered, removed, Held \cup Chosen, Accepted)
           Then(r) == StageOf(r, released', Delivered', removed', Held' \cup Chosen', Accepted')
<1>1. /\ \A r \in Reqs : status[r] = Now(r)
      /\ DOMAIN status = Reqs
      /\ status' = [r \in Reqs |-> Then(r)]
  <2>1. status' = [r \in Reqs |-> Status(r)']
    OBVIOUS
  <2>2. \A r \in Reqs : Status(r)' = Then(r)
    BY StatusIsStageNext
  <2>3. \A r \in Reqs : Status(r) = Now(r)
    BY StatusIsStage
  <2> HIDE DEF Then, Now
  <2> QED BY <2>1, <2>2, <2>3
<1>2. StateTypes' /\ ListTypes' /\ SchedulerTypes' /\ PlaceStep
  BY NextPlaces
<1>3. StateTypes /\ ListTypes /\ Apart /\ Complete
  BY DEF Places
<1>4. Waiting \cup Chosen \cup Delivered \cup Held \cup removed = Accepted /\ Accepted \in SUBSET Reqs
  BY DEF Places, Complete, Accepted
<1>5. /\ Waiting \cap Chosen = {} /\ Waiting \cap Delivered = {} /\ Waiting \cap Held = {}
      /\ Waiting \cap removed = {} /\ Chosen \cap Delivered = {} /\ Chosen \cap Held = {}
      /\ Chosen \cap removed = {} /\ Delivered \cap Held = {} /\ Delivered \cap removed = {}
      /\ Held \cap removed = {}
  BY DEF Places, Apart
<1>6. released \subseteq Delivered
  BY DEF Releases
<1> HIDE DEF status
\* What a move of the abstract specification needs.
<1>7. ASSUME NEW r \in Reqs, NEW from, NEW to, Now(r) = from, Then(r) = to,
             \A s \in Reqs \ {r} : Then(s) = Now(s)
      PROVE  Life!Move(r, from, to)
  <2> HIDE DEF Now, Then
  <2>1. status[r] = from
    BY <1>1, <1>7
  <2>2. status' = [status EXCEPT ![r] = to]
    BY <1>1, <1>7 DEF status
  <2> QED BY <2>1, <2>2 DEF Life!Move, status
<1>8. ASSUME NEW B \in SUBSET Reqs, NEW from, NEW to, \A r \in B : Now(r) = from /\ Then(r) = to,
             \A s \in Reqs \ B : Then(s) = Now(s)
      PROVE  Life!MoveAll(B, from, to)
  <2> HIDE DEF Now, Then
  <2>1. \A r \in B : status[r] = from
    BY <1>1, <1>8
  <2>2. status' = [r \in Reqs |-> IF r \in B THEN to ELSE status[r]]
    BY <1>1, <1>8
  <2> QED BY <2>1, <2>2 DEF Life!MoveAll, status
<1>9. ASSUME \A r \in Reqs : Then(r) = Now(r) PROVE UNCHANGED status
  <2> HIDE DEF Now, Then
  <2> QED BY <1>1, <1>9 DEF status
<1>10. CASE Still /\ UNCHANGED <<released, refused>>
  <2>1. /\ Chosen' = Chosen /\ Delivered' = Delivered /\ Held' = Held /\ Accepted' = Accepted
        /\ removed' = removed /\ released' = released
    BY <1>10 DEF Still, Stays, Chosen, Delivered
  <2>2. UNCHANGED status
    BY <1>9, <2>1
  <2> QED BY <2>2 DEF status
<1>11. ASSUME NEW r \in Reqs, Still, agios_release_request(r)
       PROVE  [Life!Next]_status
  <2>1. /\ Chosen' = Chosen /\ Delivered' = Delivered /\ Held' = Held /\ Accepted' = Accepted
        /\ removed' = removed
    BY <1>11 DEF Still, Stays, Chosen, Delivered
  <2>2. /\ r \in Delivered \ (released \cup refused)
        /\ released' = released \cup {r} \/ released' = released
    BY <1>11 DEF agios_release_request
  <2>3. CASE released' = released
    BY <1>9, <2>1, <2>3
  <2>4. CASE released' = released \cup {r}
    <3>1. Life!Move(r, "delivered", "released")
      BY <1>7, <2>1, <2>2, <2>4 DEF StageOf
    <3> QED BY <3>1 DEF Life!Next, Life!Release
  <2> QED BY <2>2, <2>3, <2>4
<1>12. ASSUME UNCHANGED <<released, refused>>, NEW r \in Reqs,
              ComesIn(r) \/ GoesPast(r) \/ ComesBack(r) \/ Leaves(r)
       PROVE  [Life!Next]_status
  <2>1. CASE ComesIn(r)
    <3>1. /\ Chosen' = Chosen /\ Delivered' = Delivered /\ Held' = Held
          /\ Accepted' = Accepted \cup {r} /\ removed' = removed /\ r \notin Accepted
      BY <2>1 DEF ComesIn, Chosen, Delivered
    <3>2. Life!Move(r, "new", "queued")
      BY <1>4, <1>6, <1>7, <1>12, <3>1 DEF StageOf
    <3> QED BY <3>2 DEF Life!Next, Life!Add
  <2>2. CASE GoesPast(r)
    <3>1. /\ Chosen' = Chosen /\ Delivered' = Delivered /\ Held' = Held \cup {r}
          /\ Accepted' = Accepted \cup {r} /\ removed' = removed /\ r \notin Accepted
      BY <2>2 DEF GoesPast, Chosen, Delivered
    <3>2. Life!Move(r, "new", "selected")
      BY <1>4, <1>6, <1>7, <1>12, <3>1 DEF StageOf
    <3> QED BY <3>2 DEF Life!Next, Life!Bypass
  <2>3. CASE ComesBack(r)
    <3>1. Delivered' = Delivered \cup {r} /\ Chosen' = Chosen
      BY <1>2, <1>3, <2>3, ComesBackKeeps
    <3>2. Held' = Held \ {r} /\ r \in Held /\ Accepted' = Accepted /\ removed' = removed
      BY <2>3 DEF ComesBack
    <3>3. Life!MoveAll({r}, "selected", "delivered")
      BY <1>4, <1>5, <1>6, <1>8, <1>12, <3>1, <3>2 DEF StageOf
    <3> QED BY <3>3 DEF Life!Next, Life!Deliver
  <2>4. CASE Leaves(r)
    <3>1. /\ Chosen' = Chosen /\ Delivered' = Delivered /\ Held' = Held /\ Accepted' = Accepted
          /\ removed' = removed \cup {r} /\ r \in Waiting
      BY <2>4 DEF Leaves, Chosen, Delivered
    <3>2. Life!Move(r, "queued", "cancelled")
      BY <1>4, <1>5, <1>6, <1>7, <1>12, <3>1 DEF StageOf
    <3> QED BY <3>2 DEF Life!Next, Life!Cancel
  <2> QED BY <1>12, <2>1, <2>2, <2>3, <2>4
<1>13. ASSUME UNCHANGED <<released, refused>>, NEW B, Selects(B) \/ Delivers(B)
       PROVE  [Life!Next]_status
  <2>1. CASE Selects(B)
    <3>1. /\ Chosen' = B /\ Delivered' = Delivered /\ Held' = Held /\ Accepted' = Accepted
          /\ removed' = removed /\ B \in SUBSET Waiting /\ Chosen = {}
      <4>1. Chosen = {} /\ Delivered' = Delivered
        BY <1>2, <1>3, <2>1, SelectsKeeps
      <4> QED BY <2>1, <4>1 DEF Selects
    <3>2. B \in SUBSET Reqs
      BY <1>4, <3>1
    <3>3. Life!MoveAll(B, "queued", "selected")
      BY <1>4, <1>5, <1>6, <1>8, <1>13, <3>1, <3>2 DEF StageOf
    <3> QED BY <3>2, <3>3 DEF Life!Next, Life!Select
  <2>2. CASE Delivers(B)
    <3>1. /\ Chosen' = Chosen \ B /\ Delivered' = Delivered \cup B /\ Held' = Held
          /\ Accepted' = Accepted /\ removed' = removed /\ B \in SUBSET Chosen
      BY <2>2 DEF Delivers
    <3>2. B \in SUBSET Reqs
      BY <1>4, <3>1
    <3>3. Life!MoveAll(B, "selected", "delivered")
      BY <1>4, <1>5, <1>6, <1>8, <1>13, <3>1, <3>2 DEF StageOf
    <3> QED BY <3>2, <3>3 DEF Life!Next, Life!Deliver
  <2> QED BY <1>13, <2>1, <2>2
<1> QED BY <1>2, <1>10, <1>11, <1>12, <1>13, ReleaseOrNot DEF PlaceStep, status

\* At the start every request is new to its user.
LEMMA LifeAtStart == LibraryInit => Life!Init
<1> SUFFICES ASSUME LibraryInit PROVE Life!Init
  OBVIOUS
<1>1. /\ released = {} /\ Delivered = {} /\ removed = {} /\ Held = {} /\ Chosen = {}
      /\ Accepted = {}
  BY DEF LibraryInit, Init, Held, Chosen, AllIds, Accepted, Delivered
<1>2. \A r \in Reqs : Status(r) = "new"
  BY <1>1, StatusIsStage DEF StageOf
<1> QED BY <1>2 DEF Life!Init

\* Users see the life RequestLife promises, whatever the algorithm: a request is given
\* back once, and only after it was added; what is cancelled is not given back.
THEOREM LivesAsPromised == Spec => LifeSpec
<1>1. Places /\ Releases /\ [Next]_vars => [Life!Next]_([r \in Reqs |-> Status(r)])
  BY StepOfLife
<1>2. Spec => [](Places /\ Releases)
  BY AlwaysPlaces, ReleasesAtStart, ReleasesKept, PTL DEF Spec
<1>3. Spec => LibraryInit /\ [][Next]_vars
  BY DEF Spec
<1> QED BY <1>1, <1>2, <1>3, LifeAtStart, PTL DEF LifeSpec, Life!Spec
=============================================================================
