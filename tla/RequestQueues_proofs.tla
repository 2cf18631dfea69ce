------------------------ MODULE RequestQueues_proofs ------------------------
(***************************************************************************)
(* What insertion, aggregation and cancellation do to a list, for every    *)
(* list: which requests are in it afterwards, that none is in it twice,    *)
(* what stays true of the entries.                                         *)
(***************************************************************************)
EXTENDS RequestQueues, DataLemmas

-----------------------------------------------------------------------------
(* Integers in an int32_t.                                                 *)

\* A power of two is positive: it counts the subsets of a set.
LEMMA PowerPositive ==
  ASSUME NEW n \in Nat
  PROVE  2 ^ n \in Nat \ {0}
<1> DEFINE S == 1 .. n
<1>1. IsFiniteSet(S) /\ Cardinality(S) = n
  BY FS_Interval
<1> HIDE DEF S
<1>2. IsFiniteSet(SUBSET S) /\ Cardinality(SUBSET S) = 2 ^ n
  BY <1>1, FS_SUBSET
<1>3. SUBSET S # {}
  OBVIOUS
<1>4. Cardinality(SUBSET S) \in Nat \ {0}
  BY <1>2, <1>3, FS_CardinalityType, FS_EmptySet
<1> QED BY <1>2, <1>4

\* Signed arithmetic of a few bits has integers for its results.
LEMMA Int32Type ==
  ASSUME NEW x \in Int
  PROVE  Int32(x) \in Int
<1>1. 2 ^ IntBits \in Nat \ {0} /\ 2 ^ (IntBits - 1) \in Nat \ {0}
  BY IntBitsAssumption, PowerPositive
<1> DEFINE m == 2 ^ IntBits
           h == 2 ^ (IntBits - 1)
<1>2. Int32(x) = ((x + h) % m) - h
  BY DEF Int32
<1> HIDE DEF m, h
<1>3. m \in Nat \ {0} /\ h \in Nat
  BY <1>1 DEF m, h
<1>4. (x + h) % m \in Int
  BY <1>3
<1> QED BY <1>2, <1>3, <1>4

-----------------------------------------------------------------------------
(* What is in a list.  D gives the queue, the offset and the length of the *)
(* requests users may add: data, in the state.                             *)

IsData(D) == \A r \in DOMAIN D : D[r].offset \in Nat /\ D[r].len \in Nat

QueuesOf(D) == {D[r].queue : r \in DOMAIN D}

Simple(D) ==
  {p \in [id : DOMAIN D, queue : QueuesOf(D), offset : Nat, len : Nat, timestamp : Nat,
          sched_factor : Int, reqnb : {1}, subs : {<<>>}] :
     p.queue = D[p.id].queue /\ p.offset = D[p.id].offset /\ p.len = D[p.id].len}

Virtual(D) ==
  {v \in [id : {NoId}, queue : QueuesOf(D), offset : Nat, len : Nat, timestamp : Nat,
          sched_factor : Int, reqnb : Nat, subs : Seq(Simple(D))] :
     /\ v.reqnb > 1 /\ Len(v.subs) = v.reqnb
     /\ \A k \in 1 .. Len(v.subs) : v.subs[k].queue = v.queue /\ v.offset <= v.subs[k].offset}

Entry(D) == Simple(D) \cup Virtual(D)

\* An entry has as many parts as its reqnb says, all of its queue and none before its
\* offset.
LEMMA PartsOfEntry ==
  ASSUME NEW D, NEW e \in Entry(D)
  PROVE  /\ e.reqnb \in Nat \ {0}
         /\ Parts(e) \in Seq(Simple(D)) /\ Len(Parts(e)) = e.reqnb
         /\ \A k \in 1 .. Len(Parts(e)) : /\ Parts(e)[k].queue = e.queue
                                          /\ e.offset <= Parts(e)[k].offset
         /\ e \in Simple(D) => Parts(e) = <<e>>
         /\ e \in Virtual(D) => Parts(e) = e.subs /\ e.reqnb > 1
<1>1. CASE e \in Simple(D)
  <2>1. e.reqnb = 1 /\ Parts(e) = <<e>> /\ e \notin Virtual(D)
    BY <1>1 DEF Simple, Virtual, Parts
  <2>2. <<e>> \in Seq(Simple(D)) /\ Len(<<e>>) = 1 /\ <<e>>[1] = e
    BY <1>1
  <2>3. e.offset <= e.offset
    BY <1>1 DEF Simple
  <2> QED BY <1>1, <2>1, <2>2, <2>3
<1>2. CASE e \in Virtual(D)
  <2>1. /\ e.reqnb > 1 /\ e.reqnb \in Nat /\ e.subs \in Seq(Simple(D)) /\ Len(e.subs) = e.reqnb
        /\ \A k \in 1 .. Len(e.subs) : e.subs[k].queue = e.queue /\ e.offset <= e.subs[k].offset
    BY <1>2 DEF Virtual
  <2>2. e \notin Simple(D)
    BY <2>1 DEF Simple
  <2>3. Parts(e) = e.subs
    BY <2>1 DEF Parts
  <2> QED BY <2>1, <2>2, <2>3
<1> QED BY <1>1, <1>2 DEF Entry

\* The record of a virtual request that takes in one more request.
LEMMA IncludeFields ==
  ASSUME NEW D, IsData(D), NEW req \in Simple(D), NEW agg \in Entry(D)
  PROVE  LET v     == include_in_aggregation(req, agg)
             front == req.offset <= agg.offset
         IN  /\ DOMAIN v = {"id", "queue", "offset", "len", "timestamp", "sched_factor",
                            "reqnb", "subs"}
             /\ v.id = NoId /\ v.queue = agg.queue /\ v.reqnb = agg.reqnb + 1
             /\ v.offset = IF front THEN req.offset ELSE agg.offset
             /\ v.len = IF front THEN agg.len + (agg.offset - req.offset)
                        ELSE End(req) - agg.offset
             /\ v.timestamp \in {req.timestamp, agg.timestamp}
             /\ v.sched_factor = Int32(agg.sched_factor + req.sched_factor)
             /\ v.subs = IF front THEN <<req>> \o Parts(agg) ELSE Append(Parts(agg), req)
             /\ v = [id |-> v.id, queue |-> v.queue, offset |-> v.offset, len |-> v.len,
                     timestamp |-> v.timestamp, sched_factor |-> v.sched_factor,
                     reqnb |-> v.reqnb, subs |-> v.subs]
<1> DEFINE base == IF agg.reqnb = 1 THEN make_virtual_request(agg) ELSE agg
<1>1. agg \in [id : DOMAIN D \cup {NoId}, queue : QueuesOf(D), offset : Nat, len : Nat,
               timestamp : Nat, sched_factor : Int, reqnb : Nat,
               subs : {<<>>} \cup Seq(Simple(D))]
  BY DEF Entry, Simple, Virtual
<1>2. /\ DOMAIN base = {"id", "queue", "offset", "len", "timestamp", "sched_factor",
                        "reqnb", "subs"}
      /\ base.queue = agg.queue /\ base.offset = agg.offset /\ base.len = agg.len
      /\ base.timestamp = agg.timestamp /\ base.sched_factor = agg.sched_factor
      /\ base.reqnb = agg.reqnb /\ base.id = NoId /\ base.subs = Parts(agg)
      /\ base = [id |-> NoId, queue |-> agg.queue, offset |-> agg.offset, len |-> agg.len,
                 timestamp |-> agg.timestamp, sched_factor |-> agg.sched_factor,
                 reqnb |-> agg.reqnb, subs |-> Parts(agg)]
  <2>1. CASE agg.reqnb = 1
    BY <1>1, <2>1 DEF make_virtual_request, Parts
  <2>2. CASE agg.reqnb # 1
    <3>1. agg \in Virtual(D)
      BY <2>2 DEF Entry, Simple
    <3>2. agg.id = NoId
      BY <3>1 DEF Virtual
    <3> QED BY <1>1, <2>2, <3>2 DEF Parts
  <2> QED BY <2>1, <2>2
<1> HIDE DEF base
<1> DEFINE subs0   == IF req.offset <= base.offset THEN <<req>> \o base.subs
                      ELSE Append(base.subs, req)
           len0    == IF req.offset <= base.offset THEN base.len + (base.offset - req.offset)
                      ELSE End(req) - base.offset
           offset0 == IF req.offset <= base.offset THEN req.offset ELSE base.offset
           stamp0  == IF req.timestamp < base.timestamp THEN req.timestamp ELSE base.timestamp
           factor0 == Int32(base.sched_factor + req.sched_factor)
           reqnb0  == base.reqnb + 1
           v == [base EXCEPT !.subs = subs0, !.len = len0, !.offset = offset0,
                             !.timestamp = stamp0, !.sched_factor = factor0, !.reqnb = reqnb0]
<1>3. include_in_aggregation(req, agg) = v
  BY DEF include_in_aggregation, base
<1>4. /\ DOMAIN v = {"id", "queue", "offset", "len", "timestamp", "sched_factor",
                     "reqnb", "subs"}
      /\ v.id = NoId /\ v.queue = agg.queue /\ v.subs = subs0 /\ v.len = len0
      /\ v.offset = offset0 /\ v.timestamp = stamp0 /\ v.sched_factor = factor0
      /\ v.reqnb = reqnb0
      /\ v = [id |-> v.id, queue |-> v.queue, offset |-> v.offset, len |-> v.len,
              timestamp |-> v.timestamp, sched_factor |-> v.sched_factor,
              reqnb |-> v.reqnb, subs |-> v.subs]
  <2> HIDE DEF subs0, len0, offset0, stamp0, factor0, reqnb0
  <2> DEFINE lit == [id |-> NoId, queue |-> agg.queue, offset |-> offset0, len |-> len0,
                     timestamp |-> stamp0, sched_factor |-> factor0,
                     reqnb |-> reqnb0, subs |-> subs0]
  <2>1. DOMAIN base = {"id", "queue", "offset", "len", "timestamp", "sched_factor",
                       "reqnb", "subs"}
        /\ base.queue = agg.queue /\ base.id = NoId
    BY <1>2
  <2>2. DOMAIN v = DOMAIN base
    OBVIOUS
  <2>3. v.id = NoId /\ v.queue = agg.queue
    BY <2>1
  <2>4. v.subs = subs0 /\ v.len = len0 /\ v.offset = offset0
    BY <2>1
  <2>5. v.timestamp = stamp0 /\ v.sched_factor = factor0 /\ v.reqnb = reqnb0
    BY <2>1
  <2>6. v = [k \in DOMAIN v |-> v[k]]
    OBVIOUS
  <2> HIDE DEF v
  <2>7. v = lit
    BY <2>1, <2>2, <2>3, <2>4, <2>5, <2>6
  <2> QED BY <2>1, <2>2, <2>3, <2>4, <2>5, <2>7
<1>5. /\ v.reqnb = agg.reqnb + 1
      /\ v.offset = IF req.offset <= agg.offset THEN req.offset ELSE agg.offset
      /\ v.len = IF req.offset <= agg.offset THEN agg.len + (agg.offset - req.offset)
                 ELSE End(req) - agg.offset
      /\ v.timestamp \in {req.timestamp, agg.timestamp}
      /\ v.sched_factor = Int32(agg.sched_factor + req.sched_factor)
      /\ v.subs = IF req.offset <= agg.offset THEN <<req>> \o Parts(agg)
                  ELSE Append(Parts(agg), req)
  <2> HIDE DEF v
  <2> QED BY <1>2, <1>4
<1> HIDE DEF v
<1> QED BY <1>3, <1>4, <1>5

\* The aggregate begins where the first of the two did, and counts one request more.
LEMMA IncludeExtent ==
  ASSUME NEW D, IsData(D), NEW req \in Simple(D), NEW agg \in Entry(D)
  PROVE  /\ include_in_aggregation(req, agg).queue = agg.queue
         /\ include_in_aggregation(req, agg).reqnb = agg.reqnb + 1
         /\ include_in_aggregation(req, agg).offset =
              IF req.offset <= agg.offset THEN req.offset ELSE agg.offset
BY ZenonT(60), IncludeFields

\* It is an entry, with the parts it had and the request.
LEMMA IncludeIsEntry ==
  ASSUME NEW D, IsData(D), NEW req \in Simple(D), NEW agg \in Entry(D), req.queue = agg.queue
  PROVE  include_in_aggregation(req, agg) \in Virtual(D)
<1> DEFINE v == include_in_aggregation(req, agg)
<1>1. /\ req.offset \in Nat /\ req.len \in Nat /\ req.timestamp \in Nat
      /\ req.sched_factor \in Int /\ req.queue \in QueuesOf(D)
      /\ agg.offset \in Nat /\ agg.len \in Nat /\ agg.timestamp \in Nat
      /\ agg.sched_factor \in Int /\ agg.queue \in QueuesOf(D)
  BY DEF Entry, Simple, Virtual
<1>2. /\ v.id = NoId /\ v.queue = agg.queue /\ v.reqnb = agg.reqnb + 1
      /\ v.offset \in Nat /\ v.len \in Nat /\ v.timestamp \in Nat /\ v.sched_factor \in Int
      /\ v = [id |-> v.id, queue |-> v.queue, offset |-> v.offset, len |-> v.len,
              timestamp |-> v.timestamp, sched_factor |-> v.sched_factor,
              reqnb |-> v.reqnb, subs |-> v.subs]
  <2>1. /\ v.id = NoId /\ v.queue = agg.queue /\ v.reqnb = agg.reqnb + 1
        /\ v.offset = IF req.offset <= agg.offset THEN req.offset ELSE agg.offset
        /\ v.len = IF req.offset <= agg.offset THEN agg.len + (agg.offset - req.offset)
                   ELSE End(req) - agg.offset
        /\ v.timestamp \in {req.timestamp, agg.timestamp}
        /\ v.sched_factor = Int32(agg.sched_factor + req.sched_factor)
        /\ v = [id |-> v.id, queue |-> v.queue, offset |-> v.offset, len |-> v.len,
                timestamp |-> v.timestamp, sched_factor |-> v.sched_factor,
                reqnb |-> v.reqnb, subs |-> v.subs]
    BY ZenonT(60), IncludeFields
  <2> HIDE DEF v
  <2>2. v.sched_factor \in Int
    BY <1>1, <2>1, Int32Type
  <2>3. v.offset \in Nat /\ v.len \in Nat /\ v.timestamp \in Nat
    BY <1>1, <2>1 DEF End
  <2> QED BY <2>1, <2>2, <2>3
<1>3. /\ agg.reqnb \in Nat \ {0} /\ Parts(agg) \in Seq(Simple(D)) /\ Len(Parts(agg)) = agg.reqnb
      /\ \A k \in 1 .. Len(Parts(agg)) : /\ Parts(agg)[k].queue = agg.queue
                                         /\ agg.offset <= Parts(agg)[k].offset
  BY PartsOfEntry
<1>4. /\ v.subs \in Seq(Simple(D)) /\ Len(v.subs) = agg.reqnb + 1
      /\ \A k \in 1 .. Len(v.subs) : v.subs[k].queue = agg.queue /\ v.offset <= v.subs[k].offset
  <2> DEFINE s == Parts(agg)
             one == <<req>>
  <2>0. one \in Seq(Simple(D)) /\ Len(one) = 1 /\ one[1] = req
    OBVIOUS
  <2>a. /\ s \in Seq(Simple(D)) /\ Len(s) = agg.reqnb
        /\ \A k \in 1 .. Len(s) : s[k].queue = agg.queue /\ agg.offset <= s[k].offset
        /\ \A k \in 1 .. Len(s) : s[k].offset \in Nat
    <3>1. \A k \in 1 .. Len(s) : s[k] \in Simple(D)
      BY <1>3, ElementOfSeq
    <3> QED BY <1>3, <3>1 DEF Simple
  <2>b. v.subs = IF req.offset <= agg.offset THEN one \o s ELSE Append(s, req)
    BY IncludeFields
  <2>c. v.offset = IF req.offset <= agg.offset THEN req.offset ELSE agg.offset
    BY ZenonT(60), IncludeFields
  <2> HIDE DEF s, one, v
  <2>1. /\ one \o s \in Seq(Simple(D)) /\ Len(one \o s) = 1 + Len(s)
        /\ \A k \in 1 .. 1 + Len(s) : (one \o s)[k] = IF k <= 1 THEN one[k] ELSE s[k - 1]
    <3>1. /\ one \o s \in Seq(Simple(D)) /\ Len(one \o s) = Len(one) + Len(s)
          /\ \A k \in 1 .. Len(one) + Len(s) :
               (one \o s)[k] = IF k <= Len(one) THEN one[k] ELSE s[k - Len(one)]
      BY <2>0, <2>a, ConcatProperties
    <3> QED BY <2>0, <3>1
  <2>2. /\ Append(s, req) \in Seq(Simple(D)) /\ Len(Append(s, req)) = Len(s) + 1
        /\ \A k \in 1 .. Len(s) : Append(s, req)[k] = s[k]
        /\ Append(s, req)[Len(s) + 1] = req
    BY <2>a, AppendProperties
  <2>3. CASE req.offset <= agg.offset
    <3>1. v.subs = one \o s
      BY <2>b, <2>3
    <3>2. ASSUME NEW k \in 1 .. 1 + Len(s) PROVE /\ (one \o s)[k].queue = agg.queue
                                                   /\ v.offset <= (one \o s)[k].offset
      <4>1. (one \o s)[k] = IF k <= 1 THEN one[k] ELSE s[k - 1]
        BY <2>1
      <4>2. CASE k <= 1
        <5>1. k = 1
          BY <2>a, <4>2
        <5> QED BY <1>1, <2>0, <2>3, <2>c, <4>1, <5>1
      <4>3. CASE ~ (k <= 1)
        <5>1. k - 1 \in 1 .. Len(s)
          BY <4>3
        <5> QED BY <1>1, <2>3, <2>a, <2>c, <4>1, <4>3, <5>1
      <4> QED BY <4>2, <4>3
    <3> QED BY <1>3, <2>1, <2>a, <3>1, <3>2
  <2>4. CASE ~ (req.offset <= agg.offset)
    <3>1. v.subs = Append(s, req)
      BY <2>b, <2>4
    <3>2. ASSUME NEW k \in 1 .. Len(s) + 1 PROVE /\ Append(s, req)[k].queue = agg.queue
                                                   /\ v.offset <= Append(s, req)[k].offset
      <4>1. CASE k \in 1 .. Len(s)
        BY <2>2, <2>4, <2>a, <2>c, <4>1
      <4>2. CASE k \notin 1 .. Len(s)
        <5>1. k = Len(s) + 1
          BY <4>2, <2>a
        <5> QED BY <1>1, <2>2, <2>4, <2>c, <5>1
      <4> QED BY <4>1, <4>2
    <3> QED BY <1>3, <2>2, <2>a, <3>1, <3>2
  <2> QED BY <2>3, <2>4
<1> HIDE DEF v
<1>5. v \in Virtual(D)
  BY SMTT(60), <1>1, <1>2, <1>3, <1>4 DEF Virtual
<1> QED BY <1>5 DEF v

-----------------------------------------------------------------------------
(* The ids in a list.                                                      *)

\* The parts of an entry have different ids.
OneEach(e) == \A k, m \in DOMAIN Parts(e) : Parts(e)[k].id = Parts(e)[m].id => k = m

\* No request is in a list twice.
NoneTwice(list) ==
  /\ \A i \in DOMAIN list : OneEach(list[i])
  /\ \A i, j \in DOMAIN list : i # j => IdSet(list[i]) \cap IdSet(list[j]) = {}

\* The ids of an entry are those of its parts, and a simple request has its own.
LEMMA IdsOfEntry ==
  ASSUME NEW D, NEW e \in Entry(D)
  PROVE  /\ IdSet(e) = {Parts(e)[k].id : k \in 1 .. Len(Parts(e))}
         /\ IdSet(e) = {Parts(e)[k].id : k \in DOMAIN Parts(e)}
         /\ IdSet(e) \in SUBSET DOMAIN D /\ IdSet(e) # {}
         /\ e \in Simple(D) => IdSet(e) = {e.id} /\ OneEach(e)
<1> DEFINE p == Parts(e)
<1>1. /\ p \in Seq(Simple(D)) /\ Len(p) \in Nat \ {0} /\ DOMAIN p = 1 .. Len(p)
      /\ e \in Simple(D) => p = <<e>>
  BY PartsOfEntry, LenProperties
<1>2. \A k \in DOMAIN p : p[k].id \in DOMAIN D
  <2>1. \A k \in DOMAIN p : p[k] \in Simple(D)
    BY <1>1, ElementOfSeq
  <2> QED BY <2>1 DEF Simple
<1>3. IdSet(e) = {p[k].id : k \in DOMAIN p}
  BY DEF IdSet, IdsOf, ToSet
<1>4. ASSUME e \in Simple(D) PROVE IdSet(e) = {e.id} /\ OneEach(e)
  <2>1. p = <<e>>
    BY <1>1, <1>4
  <2> HIDE DEF p
  <2>2. DOMAIN p = {1} /\ p[1] = e
    BY <2>1
  <2> QED BY <1>3, <2>2 DEF OneEach, p
<1> HIDE DEF p
<1>5. 1 \in DOMAIN p
  BY <1>1
<1> QED BY <1>1, <1>2, <1>3, <1>4, <1>5 DEF p

\* A request is in a list when one of the entries has it.
LEMMA MembersAre ==
  ASSUME NEW list
  PROVE  \A x : x \in Members(list) <=> \E i \in DOMAIN list : x \in IdSet(list[i])
BY DEF Members

\* Entries of a list are left where they were or moved, none of them twice: the ids in
\* the new list are those of the entries that are kept.
LEMMA Kept ==
  ASSUME NEW list, NoneTwice(list), NEW new, NEW from \in [DOMAIN new -> DOMAIN list],
         \A i, j \in DOMAIN new : from[i] = from[j] => i = j,
         \A i \in DOMAIN new : Parts(new[i]) = Parts(list[from[i]])
  PROVE  /\ NoneTwice(new)
         /\ Members(new) = UNION {IdSet(list[i]) : i \in {from[j] : j \in DOMAIN new}}
         /\ Members(new) \in SUBSET Members(list)
         /\ Members(new) = Members(list) \ UNION {IdSet(list[i]) :
                                            i \in DOMAIN list \ {from[j] : j \in DOMAIN new}}
<1>1. \A i \in DOMAIN new : IdSet(new[i]) = IdSet(list[from[i]])
  BY DEF IdSet
<1>2. \A i \in DOMAIN new : OneEach(new[i])
  BY DEF OneEach, NoneTwice
<1>3. NoneTwice(new)
  BY <1>1, <1>2 DEF NoneTwice
<1>4. Members(new) = UNION {IdSet(list[i]) : i \in {from[j] : j \in DOMAIN new}}
  BY <1>1 DEF Members
<1>5. Members(new) \in SUBSET Members(list)
  BY <1>1 DEF Members
<1>6. ASSUME NEW x
      PROVE  x \in Members(new) <=>
               /\ x \in Members(list)
               /\ ~ \E i \in DOMAIN list \ {from[j] : j \in DOMAIN new} : x \in IdSet(list[i])
  <2>1. x \in Members(new) <=> \E i \in {from[j] : j \in DOMAIN new} : x \in IdSet(list[i])
    BY <1>4
  <2>2. x \in Members(list) <=> \E i \in DOMAIN list : x \in IdSet(list[i])
    BY MembersAre
  <2>3. \A i, j \in DOMAIN list : x \in IdSet(list[i]) /\ x \in IdSet(list[j]) => i = j
    BY DEF NoneTwice
  <2> QED BY <2>1, <2>2, <2>3
<1> QED BY <1>3, <1>4, <1>5, <1>6

\* One entry is replaced.
LEMMA Replaced ==
  ASSUME NEW list, NoneTwice(list), NEW p \in DOMAIN list, NEW e, OneEach(e),
         \A i \in DOMAIN list \ {p} : IdSet(list[i]) \cap IdSet(e) = {}
  PROVE  /\ NoneTwice([list EXCEPT ![p] = e])
         /\ Members([list EXCEPT ![p] = e]) = (Members(list) \ IdSet(list[p])) \cup IdSet(e)
<1> DEFINE new == [list EXCEPT ![p] = e]
<1>1. DOMAIN new = DOMAIN list /\ new[p] = e /\ \A i \in DOMAIN list \ {p} : new[i] = list[i]
  OBVIOUS
<1> HIDE DEF new
<1>2. NoneTwice(new)
  <2>1. \A i \in DOMAIN new : OneEach(new[i])
    BY <1>1 DEF NoneTwice
  <2>2. ASSUME NEW i \in DOMAIN new, NEW j \in DOMAIN new, i # j
        PROVE  IdSet(new[i]) \cap IdSet(new[j]) = {}
    BY <1>1, <2>2 DEF NoneTwice
  <2> QED BY <2>1, <2>2 DEF NoneTwice
<1>3. ASSUME NEW x
      PROVE  x \in Members(new) <=> x \in (Members(list) \ IdSet(list[p])) \cup IdSet(e)
  <2>1. x \in Members(new) <=> \E i \in DOMAIN list : x \in IdSet(new[i])
    BY <1>1, MembersAre
  <2>2. x \in Members(list) <=> \E i \in DOMAIN list : x \in IdSet(list[i])
    BY MembersAre
  <2>3. \A i, j \in DOMAIN list : x \in IdSet(list[i]) /\ x \in IdSet(list[j]) => i = j
    BY DEF NoneTwice
  <2> QED BY <1>1, <2>1, <2>2, <2>3
<1>4. Members(new) = (Members(list) \ IdSet(list[p])) \cup IdSet(e)
  BY <1>3
<1> QED BY <1>2, <1>4 DEF new

\* new is list with one entry more.  from gives the place each of the others had.
Takes(list, e, new) ==
  \E p \in DOMAIN new : \E from \in [DOMAIN new \ {p} -> DOMAIN list] :
    /\ new[p] = e
    /\ \A i, j \in DOMAIN new \ {p} : from[i] = from[j] => i = j
    /\ \A i \in DOMAIN list : \E j \in DOMAIN new \ {p} : from[j] = i
    /\ \A i \in DOMAIN new \ {p} : new[i] = list[from[i]]

\* A list that takes an entry whose requests are not in it has those it had and the new
\* ones, each once.
LEMMA Inserted ==
  ASSUME NEW list, NoneTwice(list), NEW e, OneEach(e), IdSet(e) \cap Members(list) = {},
         NEW new, Takes(list, e, new)
  PROVE  NoneTwice(new) /\ Members(new) = Members(list) \cup IdSet(e)
<1>a. PICK p \in DOMAIN new : \E from \in [DOMAIN new \ {p} -> DOMAIN list] :
        /\ new[p] = e
        /\ \A i, j \in DOMAIN new \ {p} : from[i] = from[j] => i = j
        /\ \A i \in DOMAIN list : \E j \in DOMAIN new \ {p} : from[j] = i
        /\ \A i \in DOMAIN new \ {p} : new[i] = list[from[i]]
  BY DEF Takes
<1>0. PICK from \in [DOMAIN new \ {p} -> DOMAIN list] :
        /\ new[p] = e
        /\ \A i, j \in DOMAIN new \ {p} : from[i] = from[j] => i = j
        /\ \A i \in DOMAIN list : \E j \in DOMAIN new \ {p} : from[j] = i
        /\ \A i \in DOMAIN new \ {p} : new[i] = list[from[i]]
  BY <1>a
<1>1. \A i \in DOMAIN list : IdSet(list[i]) \cap IdSet(e) = {}
  BY DEF Members
<1>2. \A i \in DOMAIN new : OneEach(new[i])
  BY <1>0 DEF NoneTwice
<1>3. ASSUME NEW i \in DOMAIN new, NEW j \in DOMAIN new, i # j
      PROVE  IdSet(new[i]) \cap IdSet(new[j]) = {}
  BY <1>0, <1>1, <1>3 DEF NoneTwice
<1>4. ASSUME NEW x PROVE x \in Members(new) <=> x \in Members(list) \cup IdSet(e)
  <2>1. x \in Members(new) <=> \E i \in DOMAIN new : x \in IdSet(new[i])
    BY MembersAre
  <2>2. x \in Members(list) <=> \E i \in DOMAIN list : x \in IdSet(list[i])
    BY MembersAre
  <2> QED BY <1>0, <2>1, <2>2
<1> QED BY <1>2, <1>3, <1>4 DEF NoneTwice

\* The entry at i leaves the list.
LEMMA WithoutEntry ==
  ASSUME NEW E, NEW list \in Seq(E), NoneTwice(list), NEW i \in 1 .. Len(list)
  PROVE  /\ RemoveAt(list, i) \in Seq(E)
         /\ NoneTwice(RemoveAt(list, i))
         /\ Members(RemoveAt(list, i)) = Members(list) \ IdSet(list[i])
<1> DEFINE new  == RemoveAt(list, i)
           from == [j \in DOMAIN new |-> IF j < i THEN j ELSE j + 1]
<1>1. /\ new \in Seq(E) /\ Len(new) = Len(list) - 1
      /\ \A j \in 1 .. Len(list) - 1 : new[j] = IF j < i THEN list[j] ELSE list[j + 1]
  BY RemoveAtProperties
<1> HIDE DEF new
<1>2. Len(list) \in Nat /\ DOMAIN list = 1 .. Len(list) /\ DOMAIN new = 1 .. Len(list) - 1
  BY <1>1, LenProperties
<1>3. /\ from \in [DOMAIN new -> DOMAIN list]
      /\ \A j, k \in DOMAIN new : from[j] = from[k] => j = k
      /\ \A j \in DOMAIN new : new[j] = list[from[j]]
      /\ {i} = DOMAIN list \ {from[j] : j \in DOMAIN new}
  <2>1. from \in [DOMAIN new -> DOMAIN list] /\ \A j, k \in DOMAIN new : from[j] = from[k] => j = k
    BY <1>2
  <2>2. \A j \in DOMAIN new : new[j] = list[from[j]]
    BY <1>1, <1>2
  <2>3. ASSUME NEW x \in DOMAIN list, x # i PROVE \E j \in DOMAIN new : from[j] = x
    <3>1. CASE x < i
      <4>1. x \in DOMAIN new /\ from[x] = x
        BY <1>2, <3>1
      <4> QED BY <4>1
    <3>2. CASE x > i
      <4>1. x - 1 \in DOMAIN new /\ from[x - 1] = x
        BY <1>2, <3>2
      <4> QED BY <4>1
    <3> QED BY <1>2, <2>3, <3>1, <3>2
  <2>4. \A j \in DOMAIN new : from[j] # i
    BY <1>2
  <2> QED BY <1>2, <2>1, <2>2, <2>3, <2>4
<1> HIDE DEF from
<1>4. /\ NoneTwice(new)
      /\ Members(new) = Members(list) \ UNION {IdSet(list[k]) :
                                          k \in DOMAIN list \ {from[j] : j \in DOMAIN new}}
  BY <1>3, Kept
<1>5. UNION {IdSet(list[k]) : k \in {i}} = IdSet(list[i])
  OBVIOUS
<1>6. Members(new) = Members(list) \ IdSet(list[i])
  BY <1>3, <1>4, <1>5
<1> QED BY <1>1, <1>4, <1>6 DEF new

\* The list from some entry on, and the entries before it.
LEMMA Rest ==
  ASSUME NEW E, NEW list \in Seq(E), NoneTwice(list), NEW n \in 0 .. Len(list)
  PROVE  LET new == SubSeq(list, n + 1, Len(list))
             batch == SubSeq(list, 1, n)
         IN  /\ new \in Seq(E) /\ NoneTwice(new)
             /\ batch \in Seq(E) /\ NoneTwice(batch)
             /\ Members(new) = Members(list) \ Members(batch)
             /\ Members(batch) \in SUBSET Members(list)
             /\ Len(new) = Len(list) - n /\ Len(batch) = n
             /\ \A j \in 1 .. Len(list) - n : new[j] = list[j + n]
             /\ \A j \in 1 .. n : batch[j] = list[j]
<1> DEFINE new   == SubSeq(list, n + 1, Len(list))
           batch == SubSeq(list, 1, n)
<1>0. Len(list) \in Nat /\ n \in Nat /\ n <= Len(list)
  BY LenProperties
<1>a. DOMAIN list = 1 .. Len(list)
  BY LenProperties
<1>1. /\ new \in Seq(E) /\ Len(new) = Len(list) - n
      /\ \A j \in 1 .. Len(list) - n : new[j] = list[j + n]
  <2>1. \A j \in n + 1 .. Len(list) : list[j] \in E
    BY <1>0, ElementOfSeq
  <2>2. n + 1 \in Int /\ Len(list) \in Int
    BY <1>0
  <2>3. /\ new \in Seq(E) /\ Len(new) = IF n + 1 <= Len(list) THEN Len(list) - (n + 1) + 1 ELSE 0
        /\ \A j \in 1 .. Len(list) - (n + 1) + 1 : new[j] = list[n + 1 + j - 1]
    <3> HIDE DEF new
    <3> QED BY <2>1, <2>2, SubSeqProperties DEF new
  <2> HIDE DEF new
  <2>4. Len(list) - (n + 1) + 1 = Len(list) - n
    BY <1>0
  <2>5. Len(new) = Len(list) - n
    BY SMTT(60), <1>0, <2>3
  <2>6. ASSUME NEW j \in 1 .. Len(list) - n PROVE new[j] = list[j + n]
    <3>1. n + 1 + j - 1 = j + n
      BY <1>0
    <3> QED BY <2>3, <2>4, <3>1
  <2> QED BY <2>3, <2>5, <2>6
<1>2. /\ batch \in Seq(E) /\ Len(batch) = n
      /\ \A j \in 1 .. n : batch[j] = list[j]
  <2>1. \A j \in 1 .. n : list[j] \in E
    BY <1>0, ElementOfSeq
  <2>2. 1 \in Int /\ n \in Int
    BY <1>0
  <2>3. /\ batch \in Seq(E) /\ Len(batch) = IF 1 <= n THEN n - 1 + 1 ELSE 0
        /\ \A j \in 1 .. n - 1 + 1 : batch[j] = list[1 + j - 1]
    <3> HIDE DEF batch
    <3> QED BY <2>1, <2>2, SubSeqProperties DEF batch
  <2> HIDE DEF batch
  <2> QED BY <1>0, <2>3
<1> HIDE DEF new, batch
<1>3. DOMAIN new = 1 .. Len(list) - n /\ DOMAIN batch = 1 .. n
  BY <1>1, <1>2, LenProperties
<1> DEFINE f == [j \in DOMAIN new |-> j + n]
           g == [j \in DOMAIN batch |-> j]
<1>4. /\ f \in [DOMAIN new -> DOMAIN list]
      /\ \A j, k \in DOMAIN new : f[j] = f[k] => j = k
      /\ \A j \in DOMAIN new : new[j] = list[f[j]]
  BY <1>0, <1>1, <1>3, <1>a
<1>5. /\ g \in [DOMAIN batch -> DOMAIN list]
      /\ \A j, k \in DOMAIN batch : g[j] = g[k] => j = k
      /\ \A j \in DOMAIN batch : batch[j] = list[g[j]]
  BY <1>0, <1>2, <1>3, <1>a
<1>6. {g[j] : j \in DOMAIN batch} = DOMAIN list \ {f[j] : j \in DOMAIN new}
  <2>1. ASSUME NEW x \in 1 .. Len(list), x > n PROVE \E j \in DOMAIN new : f[j] = x
    <3>1. x - n \in DOMAIN new /\ f[x - n] = x
      BY <1>0, <1>3, <2>1
    <3> QED BY <3>1
  <2>2. \A j \in DOMAIN new : f[j] > n
    BY <1>0, <1>3
  <2>3. {g[j] : j \in DOMAIN batch} = 1 .. n
    BY <1>3
  <2> QED BY <1>0, <1>a, <2>1, <2>2, <2>3
<1> HIDE DEF f, g
<1>7. /\ NoneTwice(batch) /\ Members(batch) \in SUBSET Members(list)
      /\ Members(batch) = UNION {IdSet(list[i]) : i \in {g[j] : j \in DOMAIN batch}}
  BY SMTT(60), <1>5, Kept
<1>8. /\ NoneTwice(new)
      /\ Members(new) = Members(list) \ UNION {IdSet(list[k]) :
                                          k \in DOMAIN list \ {f[j] : j \in DOMAIN new}}
  BY <1>4, Kept
<1>9. Members(new) = Members(list) \ Members(batch)
  BY <1>6, <1>7, <1>8
<1> QED BY <1>1, <1>2, <1>7, <1>8, <1>9 DEF new, batch

\* The first entry leaves the list.
LEMMA WithoutHead ==
  ASSUME NEW E, NEW list \in Seq(E), NoneTwice(list), list # <<>>
  PROVE  /\ Tail(list) \in Seq(E) /\ Head(list) \in E /\ NoneTwice(Tail(list))
         /\ Members(Tail(list)) = Members(list) \ IdSet(Head(list))
         /\ IdSet(Head(list)) \in SUBSET Members(list)
         /\ OneEach(Head(list)) /\ Head(list) = list[1] /\ 1 \in DOMAIN list
         /\ Len(Tail(list)) = Len(list) - 1
         /\ \A j \in 1 .. Len(list) - 1 : Tail(list)[j] = list[j + 1]
<1>1. Len(list) \in Nat \ {0} /\ DOMAIN list = 1 .. Len(list)
  BY EmptySeq, LenProperties
<1>2. /\ Tail(list) \in Seq(E) /\ Len(Tail(list)) = Len(list) - 1
      /\ \A j \in 1 .. Len(list) - 1 : Tail(list)[j] = list[j + 1]
  BY HeadTailProperties
<1>3. Head(list) = list[1] /\ 1 \in DOMAIN list /\ list[1] \in E
  BY <1>1, ElementOfSeq
<1> DEFINE new  == Tail(list)
           from == [j \in DOMAIN new |-> j + 1]
<1> HIDE DEF new
<1>4. DOMAIN new = 1 .. Len(list) - 1
  BY <1>1, <1>2, LenProperties DEF new
<1>5. /\ from \in [DOMAIN new -> DOMAIN list]
      /\ \A j, k \in DOMAIN new : from[j] = from[k] => j = k
      /\ \A j \in DOMAIN new : new[j] = list[from[j]]
      /\ {1} = DOMAIN list \ {from[j] : j \in DOMAIN new}
  <2>1. /\ from \in [DOMAIN new -> DOMAIN list]
        /\ \A j, k \in DOMAIN new : from[j] = from[k] => j = k
        /\ \A j \in DOMAIN new : from[j] # 1
    BY <1>1, <1>4
  <2>2. \A j \in DOMAIN new : new[j] = list[from[j]]
    BY <1>2, <1>4 DEF new
  <2>3. ASSUME NEW x \in DOMAIN list, x # 1 PROVE \E j \in DOMAIN new : from[j] = x
    <3>1. x - 1 \in DOMAIN new /\ from[x - 1] = x
      BY <1>1, <1>4, <2>3
    <3> QED BY <3>1
  <2> QED BY <1>1, <2>1, <2>2, <2>3
<1> HIDE DEF from
<1>6. /\ NoneTwice(new)
      /\ Members(new) = Members(list) \ UNION {IdSet(list[k]) :
                                          k \in DOMAIN list \ {from[j] : j \in DOMAIN new}}
  BY <1>5, Kept
<1>7. UNION {IdSet(list[k]) : k \in {1}} = IdSet(list[1])
  OBVIOUS
<1>8. Members(new) = Members(list) \ IdSet(list[1])
  BY <1>5, <1>6, <1>7
<1>9. IdSet(list[1]) \in SUBSET Members(list) /\ OneEach(list[1])
  BY <1>3 DEF Members, NoneTwice
<1> QED BY <1>2, <1>3, <1>6, <1>8, <1>9 DEF new

\* An entry is put in at i.
LEMMA WithEntry ==
  ASSUME NEW E, NEW list \in Seq(E), NoneTwice(list), NEW at \in 1 .. Len(list) + 1,
         NEW e \in E, OneEach(e), IdSet(e) \cap Members(list) = {}
  PROVE  /\ InsertAt(list, at, e) \in Seq(E)
         /\ NoneTwice(InsertAt(list, at, e))
         /\ Members(InsertAt(list, at, e)) = Members(list) \cup IdSet(e)
<1>a. /\ InsertAt(list, at, e) \in Seq(E)
      /\ Len(InsertAt(list, at, e)) = Len(list) + 1
      /\ \A j \in 1 .. Len(list) + 1 : InsertAt(list, at, e)[j] =
           IF j < at THEN list[j] ELSE IF j = at THEN e ELSE list[j - 1]
  BY SMTT(60), InsertAtProperties
<1> DEFINE new  == InsertAt(list, at, e)
           from == [j \in DOMAIN new \ {at} |-> IF j < at THEN j ELSE j - 1]
<1>1. /\ new \in Seq(E) /\ Len(new) = Len(list) + 1
      /\ \A j \in 1 .. Len(list) + 1 :
           new[j] = IF j < at THEN list[j] ELSE IF j = at THEN e ELSE list[j - 1]
  BY <1>a
<1> HIDE DEF new
<1>2. Len(list) \in Nat /\ DOMAIN list = 1 .. Len(list) /\ DOMAIN new = 1 .. Len(list) + 1
  BY <1>1, LenProperties
<1>3. /\ at \in DOMAIN new /\ new[at] = e
      /\ from \in [DOMAIN new \ {at} -> DOMAIN list]
      /\ \A j, k \in DOMAIN new \ {at} : from[j] = from[k] => j = k
      /\ \A x \in DOMAIN list : \E j \in DOMAIN new \ {at} : from[j] = x
      /\ \A j \in DOMAIN new \ {at} : new[j] = list[from[j]]
  <2>1. at \in DOMAIN new /\ new[at] = e
    BY <1>1, <1>2
  <2>2. /\ from \in [DOMAIN new \ {at} -> DOMAIN list]
        /\ \A j, k \in DOMAIN new \ {at} : from[j] = from[k] => j = k
    BY <1>2
  <2>3. ASSUME NEW x \in DOMAIN list PROVE \E j \in DOMAIN new \ {at} : from[j] = x
    <3>1. CASE x < at
      <4>1. x \in DOMAIN new \ {at} /\ from[x] = x
        BY <1>2, <3>1
      <4> QED BY <4>1
    <3>2. CASE ~ (x < at)
      <4>1. x + 1 \in DOMAIN new \ {at} /\ from[x + 1] = x
        BY <1>2, <3>2
      <4> QED BY <4>1
    <3> QED BY <3>1, <3>2
  <2>4. \A j \in DOMAIN new \ {at} : new[j] = list[from[j]]
    BY <1>1, <1>2
  <2> QED BY <2>1, <2>2, <2>3, <2>4
<1> HIDE DEF from
<1>4. Takes(list, e, new)
  BY ZenonT(60), <1>3 DEF Takes
<1>5. NoneTwice(new) /\ Members(new) = Members(list) \cup IdSet(e)
  BY <1>4, Inserted
<1> QED BY <1>1, <1>5 DEF new

\* ... or at the end.
LEMMA WithLast ==
  ASSUME NEW E, NEW list \in Seq(E), NoneTwice(list),
         NEW e \in E, OneEach(e), IdSet(e) \cap Members(list) = {}
  PROVE  /\ Append(list, e) \in Seq(E)
         /\ NoneTwice(Append(list, e))
         /\ Members(Append(list, e)) = Members(list) \cup IdSet(e)
<1> DEFINE new  == Append(list, e)
           n    == Len(list) + 1
           from == [j \in DOMAIN new \ {n} |-> j]
<1>1. /\ new \in Seq(E) /\ Len(new) = Len(list) + 1
      /\ \A j \in 1 .. Len(list) : new[j] = list[j]
      /\ new[Len(list) + 1] = e
  BY AppendProperties
<1> HIDE DEF new
<1>2. Len(list) \in Nat /\ DOMAIN list = 1 .. Len(list) /\ DOMAIN new = 1 .. Len(list) + 1
  BY <1>1, LenProperties
<1>3. /\ n \in DOMAIN new /\ new[n] = e
      /\ from \in [DOMAIN new \ {n} -> DOMAIN list]
      /\ \A j, k \in DOMAIN new \ {n} : from[j] = from[k] => j = k
      /\ \A x \in DOMAIN list : \E j \in DOMAIN new \ {n} : from[j] = x
      /\ \A j \in DOMAIN new \ {n} : new[j] = list[from[j]]
  <2>1. n \in DOMAIN new /\ new[n] = e /\ DOMAIN new \ {n} = DOMAIN list
    BY <1>1, <1>2
  <2>2. \A x \in DOMAIN list : from[x] = x
    BY <2>1
  <2> QED BY <1>1, <1>2, <2>1, <2>2
<1> HIDE DEF from, n
<1>4. Takes(list, e, new)
  BY ZenonT(60), <1>3 DEF Takes
<1>5. NoneTwice(new) /\ Members(new) = Members(list) \cup IdSet(e)
  BY <1>4, Inserted
<1> QED BY <1>1, <1>5 DEF new

-----------------------------------------------------------------------------
(* Aggregation.                                                            *)

\* A request that goes into an entry is one of its parts from then on, next to those
\* it had, each of them once.
LEMMA IncludeIds ==
  ASSUME NEW D, IsData(D), NEW req \in Simple(D), NEW agg \in Entry(D), req.queue = agg.queue,
         OneEach(agg), req.id \notin IdSet(agg)
  PROVE  /\ IdSet(include_in_aggregation(req, agg)) = IdSet(agg) \cup {req.id}
         /\ OneEach(include_in_aggregation(req, agg))
<1> DEFINE v   == include_in_aggregation(req, agg)
           s   == Parts(agg)
           one == <<req>>
<1>1. v \in Virtual(D)
  BY IncludeIsEntry
<1>2. Parts(v) = v.subs
  BY <1>1, PartsOfEntry DEF Entry
<1>3. v.subs = IF req.offset <= agg.offset THEN one \o s ELSE Append(s, req)
  BY IncludeFields
<1>4. s \in Seq(Simple(D)) /\ Len(s) \in Nat
  BY PartsOfEntry, LenProperties
<1>5. DOMAIN s = 1 .. Len(s)
  BY <1>4, LenProperties
<1>6. IdSet(agg) = {s[k].id : k \in 1 .. Len(s)}
  BY IdsOfEntry
<1>7. \A k, m \in 1 .. Len(s) : s[k].id = s[m].id => k = m
  BY <1>5 DEF OneEach
<1>8. one \in Seq(Simple(D)) /\ Len(one) = 1 /\ one[1] = req
  OBVIOUS
<1> HIDE DEF s, one, v
<1>9. /\ one \o s \in Seq(Simple(D)) /\ Len(one \o s) = 1 + Len(s)
      /\ \A k \in 1 .. 1 + Len(s) : (one \o s)[k] = IF k <= 1 THEN one[k] ELSE s[k - 1]
  <2>1. /\ one \o s \in Seq(Simple(D)) /\ Len(one \o s) = Len(one) + Len(s)
        /\ \A k \in 1 .. Len(one) + Len(s) :
             (one \o s)[k] = IF k <= Len(one) THEN one[k] ELSE s[k - Len(one)]
    <3>1. one \in Seq(Simple(D)) /\ s \in Seq(Simple(D))
      BY <1>4, <1>8
    <3> QED BY <3>1, ConcatProperties
  <2> QED BY <1>8, <2>1
<1>10. ASSUME NEW k \in 1 .. Len(s) + 1
       PROVE  (one \o s)[k] = IF k = 1 THEN req ELSE s[k - 1]
  <2>1. k \in 1 .. 1 + Len(s) /\ (k <= 1 <=> k = 1)
    BY <1>4
  <2>2. (one \o s)[k] = IF k <= 1 THEN one[k] ELSE s[k - 1]
    BY <1>9, <2>1
  <2> QED BY <1>8, <2>1, <2>2
<1>11. /\ Append(s, req) \in Seq(Simple(D)) /\ Len(Append(s, req)) = Len(s) + 1
       /\ Append(s, req)[Len(s) + 1] = req
  BY <1>4, AppendProperties
<1>12. \A k \in 1 .. Len(s) : Append(s, req)[k] = s[k]
  BY <1>4, AppendProperties
<1> DEFINE at == IF req.offset <= agg.offset THEN 1 ELSE Len(s) + 1
           t  == v.subs
           was == [k \in 1 .. Len(s) + 1 |-> IF req.offset <= agg.offset THEN k - 1 ELSE k]
<1>13. t \in Seq(Simple(D)) /\ Len(t) = Len(s) + 1 /\ at \in 1 .. Len(s) + 1 /\ t[at] = req
  BY <1>3, <1>4, <1>9, <1>10, <1>11
<1>14. ASSUME NEW k \in 1 .. Len(s) + 1, k # at
       PROVE  was[k] \in 1 .. Len(s) /\ t[k] = s[was[k]]
  <2>1. CASE req.offset <= agg.offset
    <3>1. k # 1 /\ k - 1 \in 1 .. Len(s) /\ t = one \o s /\ was[k] = k - 1
      BY <1>3, <1>4, <1>14, <2>1
    <3>2. (one \o s)[k] = s[k - 1]
      BY <1>10, <3>1
    <3> QED BY <3>1, <3>2
  <2>2. CASE ~ (req.offset <= agg.offset)
    <3>1. k \in 1 .. Len(s) /\ t = Append(s, req) /\ was[k] = k
      BY <1>3, <1>4, <1>14, <2>2
    <3> QED BY <1>12, <3>1
  <2> QED BY <2>1, <2>2
<1>15. \A k, m \in 1 .. Len(s) + 1 : was[k] = was[m] => k = m
  OBVIOUS
<1>16. ASSUME NEW m \in 1 .. Len(s) PROVE \E k \in 1 .. Len(s) + 1 : k # at /\ was[k] = m
  <2>1. CASE req.offset <= agg.offset
    <3>1. m + 1 \in 1 .. Len(s) + 1 /\ m + 1 # at /\ was[m + 1] = m
      BY <1>4, <2>1
    <3> QED BY <3>1
  <2>2. CASE ~ (req.offset <= agg.offset)
    <3>1. m \in 1 .. Len(s) + 1 /\ m # at /\ was[m] = m
      BY <1>4, <2>2
    <3> QED BY <3>1
  <2> QED BY <2>1, <2>2
<1> HIDE DEF at, was, t
<1>17. IdSet(v) = {t[k].id : k \in 1 .. Len(s) + 1} /\ DOMAIN Parts(v) = 1 .. Len(s) + 1
  <2>1. IdSet(v) = {Parts(v)[k].id : k \in 1 .. Len(Parts(v))}
    BY <1>1, IdsOfEntry DEF Entry
  <2>2. Parts(v) = t /\ Len(t) = Len(s) + 1
    BY <1>2, <1>13 DEF t
  <2>3. DOMAIN t = 1 .. Len(t)
    BY <1>13, LenProperties
  <2> QED BY <2>1, <2>2, <2>3
<1>18. \A k \in 1 .. Len(s) : s[k].id # req.id
  BY <1>6
<1>19. ASSUME NEW x PROVE x \in IdSet(v) <=> x \in IdSet(agg) \cup {req.id}
  <2>1. x \in IdSet(v) <=> \E k \in 1 .. Len(s) + 1 : x = t[k].id
    BY <1>17
  <2>2. x \in IdSet(agg) <=> \E k \in 1 .. Len(s) : x = s[k].id
    BY <1>6
  <2>3. ASSUME x \in IdSet(agg) PROVE \E k \in 1 .. Len(s) + 1 : x = t[k].id
    <3>1. PICK m \in 1 .. Len(s) : x = s[m].id
      BY <2>2, <2>3
    <3>2. PICK k \in 1 .. Len(s) + 1 : k # at /\ was[k] = m
      BY <1>16
    <3>3. t[k] = s[m]
      BY <1>14, <3>2
    <3> QED BY <3>1, <3>3
  <2>4. \E k \in 1 .. Len(s) + 1 : req.id = t[k].id
    BY <1>13
  <2>5. ASSUME NEW k \in 1 .. Len(s) + 1 PROVE t[k].id \in IdSet(agg) \cup {req.id}
    <3>1. CASE k = at
      BY <1>13, <3>1
    <3>2. CASE k # at
      <4>1. was[k] \in 1 .. Len(s) /\ t[k] = s[was[k]]
        BY <1>14, <3>2
      <4> QED BY <1>6, <4>1
    <3> QED BY <3>1, <3>2
  <2> QED BY <2>1, <2>3, <2>4, <2>5
<1>20. ASSUME NEW k \in 1 .. Len(s) + 1, NEW m \in 1 .. Len(s) + 1, t[k].id = t[m].id
       PROVE  k = m
  <2>1. CASE k = at
    <3>1. ASSUME m # at PROVE FALSE
      <4>1. was[m] \in 1 .. Len(s) /\ t[m] = s[was[m]]
        BY <1>14, <3>1
      <4> QED BY <1>13, <1>18, <1>20, <2>1, <4>1
    <3> QED BY <2>1, <3>1
  <2>2. CASE m = at
    <3>1. ASSUME k # at PROVE FALSE
      <4>1. was[k] \in 1 .. Len(s) /\ t[k] = s[was[k]]
        BY <1>14, <3>1
      <4> QED BY <1>13, <1>18, <1>20, <2>2, <4>1
    <3> QED BY <2>2, <3>1
  <2>3. CASE k # at /\ m # at
    <3>1. was[k] \in 1 .. Len(s) /\ t[k] = s[was[k]]
      BY <1>14, <2>3
    <3>2. was[m] \in 1 .. Len(s) /\ t[m] = s[was[m]]
      BY <1>14, <2>3
    <3>3. was[k] = was[m]
      BY <1>7, <1>20, <3>1, <3>2
    <3> QED BY <1>15, <3>3
  <2> QED BY <2>1, <2>2, <2>3
<1>21. OneEach(v)
  <2>1. Parts(v) = t
    BY <1>2 DEF t
  <2> QED BY <1>17, <1>20, <2>1 DEF OneEach
<1>22. IdSet(v) = IdSet(agg) \cup {req.id}
  BY <1>19
<1> QED BY <1>21, <1>22 DEF v

-----------------------------------------------------------------------------
(* The extents of aggregates.                                              *)

\* Of some requests, each but the first starts inside one that starts before it, or at
\* its end.
Chained(D, S) ==
  \A r \in S : \/ \A s \in S : D[r].offset <= D[s].offset
               \/ \E s \in S : D[s].offset < D[r].offset /\ End(D[s]) >= D[r].offset

StartsIn(D, e) == \E r \in IdSet(e) : D[r].offset = e.offset
EndsIn(D, e)   == \E r \in IdSet(e) : End(D[r]) = End(e)

\* The requests of an entry leave no gap, and its extent starts and ends with them.
NoGap(D, e) == Chained(D, IdSet(e)) /\ StartsIn(D, e) /\ EndsIn(D, e)

NoGapIn(D, list) == \A i \in DOMAIN list : NoGap(D, list[i])

\* Requests that are chained stay so together with others if these start later, and no
\* later than some of the first end.
LEMMA ChainedUnion ==
  ASSUME NEW D, IsData(D), NEW A \in SUBSET DOMAIN D, NEW B \in SUBSET DOMAIN D,
         Chained(D, A), Chained(D, B), NEW a \in A, NEW b \in B,
         \A s \in A : D[a].offset <= D[s].offset, \A s \in B : D[b].offset <= D[s].offset,
         D[a].offset <= D[b].offset, \E s \in A : End(D[s]) >= D[b].offset
  PROVE  Chained(D, A \cup B)
<1>1. \A r \in A \cup B : D[r].offset \in Nat /\ D[r].len \in Nat /\ End(D[r]) \in Nat
  BY DEF IsData, End
<1> SUFFICES ASSUME NEW r \in A \cup B
             PROVE  \/ \A s \in A \cup B : D[r].offset <= D[s].offset
                    \/ \E s \in A \cup B : D[s].offset < D[r].offset /\ End(D[s]) >= D[r].offset
  BY DEF Chained
<1>2. CASE D[r].offset <= D[a].offset
  <2>1. \A s \in A : D[r].offset <= D[s].offset
    BY <1>1, <1>2
  <2>2. \A s \in B : D[r].offset <= D[s].offset
    BY <1>1, <1>2
  <2> QED BY <2>1, <2>2
<1>3. CASE r \in A /\ D[a].offset < D[r].offset
  <2>1. ~ \A s \in A : D[r].offset <= D[s].offset
    BY <1>1, <1>3
  <2> QED BY <1>3, <2>1 DEF Chained
<1>4. CASE r \in B /\ D[b].offset < D[r].offset
  <2>1. ~ \A s \in B : D[r].offset <= D[s].offset
    BY <1>1, <1>4
  <2> QED BY <1>4, <2>1 DEF Chained
<1>5. CASE r \in B /\ D[r].offset <= D[b].offset /\ D[a].offset < D[r].offset
  <2> DEFINE O == {o \in Nat : \E s \in A : D[s].offset = o /\ End(D[s]) >= D[r].offset}
  <2>1. O # {} /\ O \in SUBSET Nat
    <3>1. PICK s \in A : End(D[s]) >= D[b].offset
      OBVIOUS
    <3>2. D[s].offset \in Nat /\ End(D[s]) >= D[r].offset
      BY <1>1, <1>5, <3>1
    <3> QED BY <3>2
  <2> HIDE DEF O
  <2>2. PICK o \in O : \A p \in O : o <= p
    BY <2>1, LeastNat
  <2>3. PICK x \in A : D[x].offset = o /\ End(D[x]) >= D[r].offset
    BY <2>2 DEF O
  <2>4. CASE D[x].offset < D[r].offset
    BY <2>3, <2>4
  <2>5. CASE ~ (D[x].offset < D[r].offset)
    <3>1. D[a].offset < D[x].offset
      BY <1>1, <1>5, <2>5
    <3>2. ~ \A s \in A : D[x].offset <= D[s].offset
      BY <1>1, <3>1
    <3>3. PICK y \in A : D[y].offset < D[x].offset /\ End(D[y]) >= D[x].offset
      BY <3>2 DEF Chained
    <3>4. D[y].offset \in O
      BY <1>1, <2>5, <3>3 DEF O
    <3>5. o <= D[y].offset
      BY <2>2, <3>4
    <3> QED BY <1>1, <2>3, <3>3, <3>5
  <2> QED BY <2>4, <2>5
<1> QED BY <1>1, <1>2, <1>3, <1>4, <1>5

\* What an entry says of its requests.
LEMMA OffsetsOfEntry ==
  ASSUME NEW D, IsData(D), NEW e \in Entry(D)
  PROVE  /\ e.offset \in Nat /\ e.len \in Nat
         /\ \A r \in IdSet(e) : /\ r \in DOMAIN D /\ D[r].queue = e.queue
                                /\ D[r].offset \in Nat /\ D[r].len \in Nat
                                /\ e.offset <= D[r].offset
<1>1. e.offset \in Nat /\ e.len \in Nat
  BY DEF Entry, Simple, Virtual
<1>2. ASSUME NEW r \in IdSet(e)
      PROVE  r \in DOMAIN D /\ D[r].queue = e.queue /\ e.offset <= D[r].offset
  <2>1. PICK k \in 1 .. Len(Parts(e)) : r = Parts(e)[k].id
    BY IdsOfEntry
  <2>2. Parts(e)[k].queue = e.queue /\ e.offset <= Parts(e)[k].offset
    BY PartsOfEntry
  <2>3. Parts(e)[k] \in Simple(D)
    BY PartsOfEntry, ElementOfSeq
  <2> QED BY <2>1, <2>2, <2>3 DEF Simple
<1> QED BY <1>1, <1>2 DEF IsData

\* A simple request leaves no gap.
LEMMA SimpleNoGap ==
  ASSUME NEW D, IsData(D), NEW e \in Simple(D)
  PROVE  NoGap(D, e)
<1>1. e \in Entry(D) /\ IdSet(e) = {e.id}
  <2>1. e \in Entry(D)
    BY DEF Entry
  <2> QED BY <2>1, IdsOfEntry
<1>2. e.id \in DOMAIN D /\ D[e.id].offset = e.offset /\ D[e.id].len = e.len /\ e.offset \in Nat
  BY DEF Simple
<1>3. End(D[e.id]) = End(e)
  BY <1>2 DEF End
<1>4. Chained(D, {e.id})
  BY <1>2 DEF Chained
<1> QED BY <1>1, <1>2, <1>3, <1>4 DEF NoGap, StartsIn, EndsIn

\* Of two entries of which the second starts inside the first, or at its end, the
\* requests leave no gap together.
LEMMA TouchingChained ==
  ASSUME NEW D, IsData(D), NEW a \in Entry(D), NEW b \in Entry(D),
         NoGap(D, a), NoGap(D, b), CHECK_AGGREGATE(a, b)
  PROVE  Chained(D, IdSet(a) \cup IdSet(b))
<1>1. PICK x \in IdSet(a) : D[x].offset = a.offset
  BY DEF NoGap, StartsIn
<1>2. PICK y \in IdSet(b) : D[y].offset = b.offset
  BY DEF NoGap, StartsIn
<1>3. PICK z \in IdSet(a) : End(D[z]) = End(a)
  BY DEF NoGap, EndsIn
<1>4. a.offset <= b.offset /\ End(a) >= b.offset
  BY DEF CHECK_AGGREGATE
<1>5. IdSet(a) \in SUBSET DOMAIN D /\ IdSet(b) \in SUBSET DOMAIN D
  BY IdsOfEntry
<1>6. /\ \A s \in IdSet(a) : D[x].offset <= D[s].offset
      /\ \A s \in IdSet(b) : D[y].offset <= D[s].offset
  BY <1>1, <1>2, OffsetsOfEntry
<1>7. D[x].offset <= D[y].offset /\ End(D[z]) >= D[y].offset
  BY <1>1, <1>2, <1>3, <1>4
<1> QED BY <1>5, <1>6, <1>7, ChainedUnion DEF NoGap

\* The extent after one more request: only one of its ends is computed.
LEMMA IncludeEnd ==
  ASSUME NEW D, IsData(D), NEW req \in Simple(D), NEW agg \in Entry(D)
  PROVE  /\ include_in_aggregation(req, agg).offset =
              IF req.offset <= agg.offset THEN req.offset ELSE agg.offset
         /\ include_in_aggregation(req, agg).len =
              IF req.offset <= agg.offset THEN agg.len + (agg.offset - req.offset)
              ELSE End(req) - agg.offset
BY ZenonT(60), IncludeFields

\* The end of an aggregate is the end of one of its requests.
LEMMA IncludeEnds ==
  ASSUME NEW D, IsData(D), NEW req \in Simple(D), NEW agg \in Entry(D), req.queue = agg.queue,
         OneEach(agg), req.id \notin IdSet(agg), EndsIn(D, agg)
  PROVE  EndsIn(D, include_in_aggregation(req, agg))
<1> DEFINE v == include_in_aggregation(req, agg)
<1>1. IdSet(v) = IdSet(agg) \cup {req.id}
  BY IncludeIds
<1>2. /\ v.offset = IF req.offset <= agg.offset THEN req.offset ELSE agg.offset
      /\ v.len = IF req.offset <= agg.offset THEN agg.len + (agg.offset - req.offset)
                 ELSE End(req) - agg.offset
  BY IncludeEnd
<1> HIDE DEF v
<1>3. /\ req.offset \in Nat /\ req.len \in Nat /\ agg.offset \in Nat /\ agg.len \in Nat
      /\ D[req.id].offset = req.offset /\ D[req.id].len = req.len
  BY OffsetsOfEntry DEF Simple
<1>4. CASE req.offset <= agg.offset
  <2>1. End(v) = End(agg)
    BY <1>2, <1>3, <1>4 DEF End
  <2> QED BY <1>1, <2>1 DEF EndsIn, v
<1>5. CASE ~ (req.offset <= agg.offset)
  <2>1. End(v) = End(D[req.id])
    BY <1>2, <1>3, <1>5 DEF End
  <2> QED BY <1>1, <2>1 DEF EndsIn, v
<1> QED BY <1>4, <1>5

\* A request that touches an entry goes into it without a gap.
LEMMA IncludeNoGap ==
  ASSUME NEW D, IsData(D), NEW req \in Simple(D), NEW agg \in Entry(D), req.queue = agg.queue,
         OneEach(agg), req.id \notin IdSet(agg), NoGap(D, agg),
         CHECK_AGGREGATE(req, agg) \/ CHECK_AGGREGATE(agg, req)
  PROVE  NoGap(D, include_in_aggregation(req, agg))
<1> DEFINE v == include_in_aggregation(req, agg)
<1>1. IdSet(v) = IdSet(agg) \cup {req.id}
  BY IncludeIds
<1>2. v.offset = IF req.offset <= agg.offset THEN req.offset ELSE agg.offset
  BY IncludeExtent
<1>3. EndsIn(D, v)
  BY IncludeEnds DEF NoGap
<1> HIDE DEF v
<1>4. req \in Entry(D) /\ IdSet(req) = {req.id} /\ NoGap(D, req)
  <2>1. req \in Entry(D)
    BY DEF Entry
  <2> QED BY <2>1, IdsOfEntry, SimpleNoGap
<1>5. Chained(D, IdSet(v))
  <2>1. CASE CHECK_AGGREGATE(req, agg)
    <3>1. Chained(D, IdSet(req) \cup IdSet(agg))
      BY <1>4, <2>1, TouchingChained
    <3>2. IdSet(req) \cup IdSet(agg) = IdSet(v)
      BY <1>1, <1>4
    <3> QED BY <3>1, <3>2
  <2>2. CASE CHECK_AGGREGATE(agg, req)
    <3>1. Chained(D, IdSet(agg) \cup IdSet(req))
      BY <1>4, <2>2, TouchingChained
    <3>2. IdSet(agg) \cup IdSet(req) = IdSet(v)
      BY <1>1, <1>4
    <3> QED BY <3>1, <3>2
  <2> QED BY <2>1, <2>2
<1>6. StartsIn(D, v)
  <2>1. D[req.id].offset = req.offset
    BY DEF Simple
  <2>2. \E r \in IdSet(agg) : D[r].offset = agg.offset
    BY DEF NoGap, StartsIn
  <2> QED BY <1>1, <1>2, <2>1, <2>2 DEF StartsIn
<1>7. NoGap(D, v)
  BY <1>3, <1>5, <1>6 DEF NoGap
<1> QED BY <1>7 DEF v

-----------------------------------------------------------------------------
(* Joins.                                                                  *)

\* The parts after one more request, in front of the others or behind them.
LEMMA IncludeParts ==
  ASSUME NEW D, IsData(D), NEW req \in Simple(D), NEW agg \in Entry(D), req.queue = agg.queue
  PROVE  LET v     == include_in_aggregation(req, agg)
             front == req.offset <= agg.offset
         IN  /\ v \in Entry(D) /\ v.reqnb = agg.reqnb + 1
             /\ front => /\ Parts(v)[1] = req
                         /\ \A k \in 1 .. agg.reqnb : Parts(v)[k + 1] = Parts(agg)[k]
                         /\ End(v) = End(agg)
             /\ ~ front => /\ \A k \in 1 .. agg.reqnb : Parts(v)[k] = Parts(agg)[k]
                           /\ Parts(v)[agg.reqnb + 1] = req
                           /\ End(v) = End(req)
<1> DEFINE v     == include_in_aggregation(req, agg)
           front == req.offset <= agg.offset
           p     == Parts(agg)
<1>1. v.subs = IF front THEN <<req>> \o p ELSE Append(p, req)
  BY ZenonT(60), IncludeFields
<1>2. v \in Virtual(D) /\ v \in Entry(D) /\ Parts(v) = v.subs
  <2>1. v \in Virtual(D)
    BY IncludeIsEntry
  <2> QED BY <2>1, PartsOfEntry DEF Entry
<1>3. /\ v.offset = IF front THEN req.offset ELSE agg.offset
      /\ v.len = IF front THEN agg.len + (agg.offset - req.offset) ELSE End(req) - agg.offset
      /\ v.reqnb = agg.reqnb + 1
  BY IncludeEnd, IncludeExtent
<1>4. p \in Seq(Simple(D)) /\ Len(p) = agg.reqnb /\ agg.reqnb \in Nat \ {0}
  BY PartsOfEntry
<1>5. /\ req.offset \in Nat /\ req.len \in Nat /\ agg.offset \in Nat /\ agg.len \in Nat
  BY OffsetsOfEntry DEF Simple
<1> HIDE DEF v, p
<1>6. CASE front
  <2>1. Parts(v) = <<req>> \o p
    BY <1>1, <1>2, <1>6
  <2>2. <<req>> \in Seq(Simple(D)) /\ Len(<<req>>) = 1 /\ <<req>>[1] = req
    OBVIOUS
  <2>3. ASSUME NEW k \in 1 .. agg.reqnb PROVE Parts(v)[k + 1] = p[k]
    BY <1>4, <2>1, <2>2
  <2>4. Parts(v)[1] = req
    BY <1>4, <2>1, <2>2
  <2>5. End(v) = End(agg)
    BY <1>3, <1>5, <1>6 DEF End
  <2> QED BY <1>2, <1>3, <1>6, <2>3, <2>4, <2>5 DEF v, p
<1>7. CASE ~ front
  <2>1. Parts(v) = Append(p, req)
    BY <1>1, <1>2, <1>7
  <2>2. /\ Parts(v)[agg.reqnb + 1] = req
        /\ \A k \in 1 .. agg.reqnb : Parts(v)[k] = p[k]
    BY <1>4, <2>1, AppendProperties
  <2>3. End(v) = End(req)
    BY <1>3, <1>5, <1>7 DEF End
  <2> QED BY <1>2, <1>3, <1>7, <2>2, <2>3 DEF v, p
<1> QED BY <1>6, <1>7

\* An entry has the parts of head, the first n of others behind them, and the end of
\* the last of these.
InARow(v, head, others, n) ==
  /\ \A k \in 1 .. head.reqnb : Parts(v)[k] = Parts(head)[k]
  /\ \A k \in 1 .. n : Parts(v)[head.reqnb + k] = others[k]
  /\ n > 0 => End(v) = End(others[n])

\* Entries of one queue.
EntryOf(D, q) == {e \in Entry(D) : e.queue = q}

\* Two entries become one: the parts of the second go into the first, one after the other.
LEMMA JoinIds ==
  ASSUME NEW D, IsData(D), NEW head \in Entry(D), NEW tail \in Entry(D),
         tail.queue = head.queue, OneEach(head), OneEach(tail),
         IdSet(head) \cap IdSet(tail) = {}, head.offset <= tail.offset
  PROVE  LET v == join_aggregations(head, tail)
         IN  /\ v \in Entry(D) /\ v.queue = head.queue /\ v.offset = head.offset
             /\ v.reqnb = head.reqnb + tail.reqnb
             /\ IdSet(v) = IdSet(head) \cup IdSet(tail)
             /\ OneEach(v)
             /\ EndsIn(D, head) => EndsIn(D, v)
             /\ head.offset < tail.offset => InARow(v, head, Parts(tail), tail.reqnb)
<1> DEFINE p == Parts(tail)
           L == Len(p)
           X == EntryOf(D, head.queue)
           Joined(g) == [n \in 0 .. L |->
                           IF n = 0 THEN head ELSE include_in_aggregation(p[n], g[n - 1])]
           J == CHOOSE g : g = Joined(g)
<1>1. /\ L \in Nat \ {0} /\ L = tail.reqnb
      /\ \A k \in 1 .. L : p[k] \in Simple(D) /\ p[k].queue = head.queue
                           /\ tail.offset <= p[k].offset
  <2>1. /\ tail.reqnb \in Nat \ {0} /\ p \in Seq(Simple(D)) /\ L = tail.reqnb
        /\ \A k \in 1 .. L : p[k].queue = head.queue /\ tail.offset <= p[k].offset
    BY PartsOfEntry
  <2> QED BY <2>1, ElementOfSeq
<1>2. join_aggregations(head, tail) = J[L]
  BY DEF join_aggregations
<1>3. IdSet(tail) = {p[k].id : k \in 1 .. L}
  BY IdsOfEntry
<1>4. \A k, m \in 1 .. L : p[k].id = p[m].id => k = m
  <2>1. p \in Seq(Simple(D))
    BY PartsOfEntry
  <2>2. DOMAIN p = 1 .. L
    BY <2>1, LenProperties
  <2> QED BY <2>2 DEF OneEach
<1> HIDE DEF p, L
<1>5. ASSUME NEW k \in 1 .. L, NEW e \in X
      PROVE  include_in_aggregation(p[k], e) \in X
  <2>1. e \in Entry(D) /\ e.queue = head.queue /\ p[k] \in Simple(D) /\ p[k].queue = e.queue
    BY <1>1, <1>5 DEF EntryOf
  <2>2. include_in_aggregation(p[k], e) \in Virtual(D)
    BY <2>1, IncludeIsEntry
  <2>3. include_in_aggregation(p[k], e).queue = e.queue
    BY <2>1, IncludeExtent
  <2> QED BY <2>1, <2>2, <2>3 DEF EntryOf, Entry
<1> DEFINE step == [a \in (1 .. L) \X X |-> include_in_aggregation(p[a[1]], a[2])]
<1>6. \E g \in [0 .. L -> X] : g = Joined(g)
  <2>1. step \in [(1 .. L) \X X -> X]
    <3>1. ASSUME NEW a \in (1 .. L) \X X PROVE include_in_aggregation(p[a[1]], a[2]) \in X
      BY <1>5
    <3> HIDE DEF X
    <3> QED BY <3>1
  <2>2. head \in X
    BY DEF EntryOf
  <2> HIDE DEF X
  <2>3. PICK g \in [0 .. L -> X] :
          Recurs(head, L, step, g)
    <3> HIDE DEF step
    <3>1. L \in Nat
      BY <1>1
    <3> QED BY <2>1, <2>2, <3>1, RecursionExists
  <2>4. ASSUME NEW i \in 0 .. L, i # 0
        PROVE  step[<<i, g[i - 1]>>] = include_in_aggregation(p[i], g[i - 1])
    <3>1. <<i, g[i - 1]>> \in (1 .. L) \X X
      BY <1>1, <2>4
    <3> QED BY <3>1
  <2>5. g = Joined(g)
    <3> HIDE DEF step
    <3>1. g = [i \in 0 .. L |-> IF i = 0 THEN head ELSE step[<<i, g[i - 1]>>]]
      BY <2>3 DEF Recurs
    <3> QED BY <2>4, <3>1
  <2> HIDE DEF Joined
  <2> QED BY <2>5
<1>7. J = Joined(J)
  <2> HIDE DEF Joined
  <2> QED BY <1>6
<1> HIDE DEF J
<1>8. J[0] = head /\ \A n \in 1 .. L : J[n] = include_in_aggregation(p[n], J[n - 1])
  BY <1>1, <1>7
<1> DEFINE Ok == {n \in Nat : n <= L =>
                    /\ J[n] \in X /\ J[n].offset = head.offset
                    /\ J[n].reqnb = head.reqnb + n
                    /\ IdSet(J[n]) = IdSet(head) \cup {p[k].id : k \in 1 .. n}
                    /\ OneEach(J[n])
                    /\ EndsIn(D, head) => EndsIn(D, J[n])
                    /\ head.offset < tail.offset => InARow(J[n], head, p, n)}
<1>9. 0 \in Ok
  <2>1. IdSet(head) = IdSet(head) \cup {p[k].id : k \in 1 .. 0}
    OBVIOUS
  <2>2. head.reqnb + 0 = head.reqnb
    BY PartsOfEntry
  <2>3. head \in X
    BY DEF EntryOf
  <2>4. InARow(head, head, p, 0)
    BY DEF InARow
  <2> QED BY <1>8, <2>1, <2>2, <2>3, <2>4
<1>10. ASSUME NEW n \in Nat, n \in Ok PROVE n + 1 \in Ok
  <2> SUFFICES ASSUME n + 1 <= L
               PROVE  /\ J[n + 1] \in X /\ J[n + 1].offset = head.offset
                      /\ J[n + 1].reqnb = head.reqnb + (n + 1)
                      /\ IdSet(J[n + 1]) = IdSet(head) \cup {p[k].id : k \in 1 .. n + 1}
                      /\ OneEach(J[n + 1])
                      /\ EndsIn(D, head) => EndsIn(D, J[n + 1])
                      /\ head.offset < tail.offset => InARow(J[n + 1], head, p, n + 1)
    OBVIOUS
  <2> DEFINE e == J[n]
             r == p[n + 1]
  <2>1. /\ e \in X /\ e.offset = head.offset /\ e.reqnb = head.reqnb + n
        /\ IdSet(e) = IdSet(head) \cup {p[k].id : k \in 1 .. n}
        /\ OneEach(e) /\ (EndsIn(D, head) => EndsIn(D, e))
        /\ head.offset < tail.offset => InARow(e, head, p, n)
    BY <1>1, <1>10
  <2>2. n + 1 \in 1 .. L /\ J[n + 1] = include_in_aggregation(r, e)
    <3>1. n + 1 \in 1 .. L /\ n + 1 - 1 = n
      BY <1>1
    <3> QED BY <1>8, <3>1
  <2>3. /\ r \in Simple(D) /\ e \in Entry(D) /\ r.queue = e.queue /\ e.queue = head.queue
        /\ e.offset <= r.offset /\ head.offset \in Nat /\ r.offset \in Nat
    <3>1. r \in Simple(D) /\ r.queue = head.queue /\ tail.offset <= r.offset
      BY <1>1, <2>2
    <3>2. head.offset \in Nat /\ r.offset \in Nat /\ tail.offset \in Nat
      BY <3>1 DEF Entry, Simple, Virtual
    <3>3. e \in Entry(D) /\ e.queue = head.queue
      BY <2>1 DEF EntryOf
    <3> HIDE DEF r, e
    <3> QED BY <2>1, <3>1, <3>2, <3>3
  <2>4. r.id \notin IdSet(e)
    <3>1. r.id \in IdSet(tail)
      BY <1>3, <2>2
    <3>2. r.id \notin {p[k].id : k \in 1 .. n}
      BY <1>1, <1>4, <2>2
    <3> HIDE DEF r, e
    <3> QED BY <2>1, <3>1, <3>2
  <2> HIDE DEF e
  <2>5. J[n + 1] \in X
    <3>1. include_in_aggregation(r, e) \in X
      BY <1>5, <2>1, <2>2
    <3> QED BY <2>2, <3>1
  <2>6. IdSet(J[n + 1]) = IdSet(e) \cup {r.id} /\ OneEach(J[n + 1])
    <3> HIDE DEF r
    <3>1. IdSet(include_in_aggregation(r, e)) = IdSet(e) \cup {r.id}
      BY <2>1, <2>3, <2>4, IncludeIds
    <3>2. OneEach(include_in_aggregation(r, e))
      BY <2>1, <2>3, <2>4, IncludeIds
    <3> QED BY <2>2, <3>1, <3>2
  <2>7. {p[k].id : k \in 1 .. n + 1} = {p[k].id : k \in 1 .. n} \cup {r.id}
    <3>1. \A k \in 1 .. n + 1 : k \in 1 .. n \/ k = n + 1
      OBVIOUS
    <3> QED BY <3>1
  <2>8. J[n + 1].offset = head.offset /\ J[n + 1].reqnb = head.reqnb + (n + 1)
    <3> HIDE DEF r
    <3>1. /\ include_in_aggregation(r, e).offset =
               IF r.offset <= e.offset THEN r.offset ELSE e.offset
          /\ include_in_aggregation(r, e).reqnb = e.reqnb + 1
      BY <2>3, IncludeExtent
    <3>2. head.reqnb \in Nat
      BY PartsOfEntry
    <3>3. include_in_aggregation(r, e).offset = head.offset
      BY <2>1, <2>3, <3>1
    <3> QED BY <2>1, <2>2, <3>1, <3>2, <3>3
  <2>9. IdSet(J[n + 1]) = IdSet(head) \cup {p[k].id : k \in 1 .. n + 1}
    BY <2>1, <2>6, <2>7
  <2>10. EndsIn(D, head) => EndsIn(D, J[n + 1])
    <3> HIDE DEF r
    <3>1. EndsIn(D, e) => EndsIn(D, include_in_aggregation(r, e))
      BY <2>1, <2>3, <2>4, IncludeEnds
    <3> QED BY <2>1, <2>2, <3>1
  <2>11. ASSUME head.offset < tail.offset PROVE InARow(J[n + 1], head, p, n + 1)
    <3>1. tail.offset <= r.offset /\ tail.offset \in Nat
      BY <1>1, <2>2, OffsetsOfEntry
    <3> HIDE DEF r
    <3>2. ~ (r.offset <= e.offset)
      BY <2>1, <2>3, <2>11, <3>1
    <3>3. /\ \A k \in 1 .. e.reqnb : Parts(J[n + 1])[k] = Parts(e)[k]
          /\ Parts(J[n + 1])[e.reqnb + 1] = r
          /\ End(J[n + 1]) = End(r)
      BY <2>2, <2>3, <3>2, IncludeParts
    <3>4. head.reqnb \in Nat
      BY PartsOfEntry
    <3>5. InARow(e, head, p, n)
      BY <2>1, <2>11
    <3>6. ASSUME NEW k \in 1 .. head.reqnb PROVE Parts(J[n + 1])[k] = Parts(head)[k]
      BY <2>1, <3>3, <3>4, <3>5 DEF InARow
    <3>7. ASSUME NEW k \in 1 .. n PROVE Parts(J[n + 1])[head.reqnb + k] = p[k]
      <4>1. head.reqnb + k \in 1 .. e.reqnb
        BY <2>1, <3>4
      <4> QED BY <3>3, <3>5, <4>1 DEF InARow
    <3>8. \A k \in 1 .. n + 1 : k \in 1 .. n \/ k = n + 1
      OBVIOUS
    <3>9. Parts(J[n + 1])[head.reqnb + (n + 1)] = p[n + 1]
      BY <2>1, <3>3, <3>4 DEF r
    <3>10. End(J[n + 1]) = End(p[n + 1])
      BY <3>3 DEF r
    <3> QED BY <3>6, <3>7, <3>8, <3>9, <3>10 DEF InARow
  <2> QED BY <2>5, <2>6, <2>8, <2>9, <2>10, <2>11
<1>11. L \in Ok
  <2> HIDE DEF Ok
  <2>1. Nat \subseteq Ok
    BY <1>9, <1>10, NatIn
  <2> QED BY <1>1, <2>1
<1>12. /\ J[L] \in X /\ J[L].offset = head.offset /\ J[L].reqnb = head.reqnb + L
       /\ IdSet(J[L]) = IdSet(head) \cup {p[k].id : k \in 1 .. L}
       /\ OneEach(J[L]) /\ (EndsIn(D, head) => EndsIn(D, J[L]))
       /\ head.offset < tail.offset => InARow(J[L], head, p, L)
  BY <1>1, <1>11
<1>13. J[L] \in Entry(D) /\ J[L].queue = head.queue
  BY <1>12 DEF EntryOf
<1> QED BY <1>1, <1>2, <1>3, <1>12, <1>13 DEF p, L

\* Two entries that touch are joined without a gap.
LEMMA JoinNoGap ==
  ASSUME NEW D, IsData(D), NEW head \in Entry(D), NEW tail \in Entry(D),
         tail.queue = head.queue, OneEach(head), OneEach(tail),
         IdSet(head) \cap IdSet(tail) = {}, CHECK_AGGREGATE(head, tail),
         NoGap(D, head), NoGap(D, tail)
  PROVE  NoGap(D, join_aggregations(head, tail))
<1>1. head.offset <= tail.offset
  BY DEF CHECK_AGGREGATE
<1> DEFINE v == join_aggregations(head, tail)
<1>2. v.offset = head.offset /\ IdSet(v) = IdSet(head) \cup IdSet(tail) /\ EndsIn(D, v)
  BY <1>1, JoinIds DEF NoGap
<1> HIDE DEF v
<1>3. Chained(D, IdSet(v))
  BY <1>2, TouchingChained
<1>4. StartsIn(D, v)
  BY <1>2 DEF NoGap, StartsIn
<1>5. NoGap(D, v)
  BY <1>2, <1>3, <1>4 DEF NoGap
<1> QED BY <1>5 DEF v

-----------------------------------------------------------------------------
(* Insertion.                                                              *)

\* A list of entries of queue q.
ListOf(D, q) == Seq(EntryOf(D, q))

InOffsetOrder(list) ==
  \A i, j \in DOMAIN list : i < j => list[i].offset <= list[j].offset

NoneOver(list, max) == \A i \in DOMAIN list : list[i].reqnb <= max

\* What an insertion makes entries of: the request, those of the list, one that took the
\* request in, and one that was joined with another after that.
MadeOf(req, list, e) ==
  \/ e = req
  \/ \E a \in DOMAIN list : e = list[a]
  \/ \E a \in DOMAIN list :
       /\ list[a].queue = req.queue
       /\ CHECK_AGGREGATE(req, list[a]) \/ CHECK_AGGREGATE(list[a], req)
       /\ e = include_in_aggregation(req, list[a])
  \/ \E a, b \in DOMAIN list :
       /\ a # b /\ list[a].queue = req.queue /\ list[b].queue = req.queue
       /\ CHECK_AGGREGATE(list[a], req)
       /\ CHECK_AGGREGATE(include_in_aggregation(req, list[a]), list[b])
       /\ e = join_aggregations(include_in_aggregation(req, list[a]), list[b])

Built(req, list, new) == \A j \in DOMAIN new : MadeOf(req, list, new[j])

\* The requests up to the place do not start later than the new one, the next one does
\* not start earlier.
LEMMA PlaceOfInsertion ==
  ASSUME NEW D, NEW req \in Simple(D), NEW queue \in ListOf(D, req.queue)
  PROVE  LET p == InsertionPlace(req, queue)
         IN  /\ p \in 0 .. Len(queue)
             /\ \A j \in 1 .. p : queue[j].offset <= req.offset
             /\ p < Len(queue) => req.offset <= queue[p + 1].offset
<1> DEFINE Late == {i \in 1 .. Len(queue) :
                      \/ queue[i].offset > req.offset
                      \/ queue[i].offset = req.offset /\ queue[i].len > req.len}
           i == IF Late # {} THEN Min(Late) ELSE 0
           p == IF i = 0 THEN Len(queue) ELSE i - 1
<1>1. InsertionPlace(req, queue) = p
  BY DEF InsertionPlace, SelectInSeq
<1>2. Len(queue) \in Nat /\ req.offset \in Nat
  BY LenProperties DEF ListOf, Simple
<1>3. \A j \in 1 .. Len(queue) : queue[j].offset \in Nat
  <2>1. \A j \in 1 .. Len(queue) : queue[j] \in EntryOf(D, req.queue)
    BY ElementOfSeq DEF ListOf
  <2> QED BY <2>1 DEF EntryOf, Entry, Simple, Virtual
<1>4. CASE Late = {}
  <2>1. p = Len(queue)
    BY <1>4
  <2>2. \A j \in 1 .. Len(queue) : queue[j].offset <= req.offset
    BY <1>2, <1>3, <1>4
  <2> HIDE DEF p
  <2> QED BY <1>1, <1>2, <2>1, <2>2
<1>5. CASE Late # {}
  <2> HIDE DEF Late
  <2>1. i \in Late /\ \A j \in Late : i <= j
    <3>1. Late \in SUBSET Nat
      BY DEF Late
    <3> QED BY <1>5, <3>1, MinNat
  <2>2. i \in 1 .. Len(queue) /\ queue[i].offset >= req.offset /\ p = i - 1
    BY SMTT(60), <1>2, <1>3, <2>1 DEF Late
  <2> HIDE DEF i, p
  <2>3. ASSUME NEW j \in 1 .. p PROVE queue[j].offset <= req.offset
    <3>1. j \in 1 .. Len(queue) /\ j < i
      BY <1>2, <2>2
    <3>2. j \notin Late
      BY <2>1, <2>2, <3>1
    <3> QED BY <1>2, <1>3, <3>1, <3>2 DEF Late
  <2>4. p \in 0 .. Len(queue) /\ p + 1 = i
    BY <1>2, <2>2
  <2>5. req.offset <= queue[p + 1].offset
    BY <1>2, <1>3, <2>2, <2>4
  <2> QED BY <1>1, <2>3, <2>4, <2>5
<1> QED BY <1>4, <1>5

\* What holds of a list of one queue holds after a request was put in: it is a list of
\* the queue, with the request, with nothing twice, in offset order if it was.
LEMMA HashtableAdds ==
  ASSUME NEW D, IsData(D), NEW req \in Simple(D), NEW queue \in ListOf(D, req.queue),
         NoneTwice(queue), req.id \notin Members(queue), NEW max \in Nat \ {0}
  PROVE  LET new == hashtable_add_req(req, queue, max)
         IN  /\ new \in ListOf(D, req.queue)
             /\ NoneTwice(new)
             /\ Members(new) = Members(queue) \cup {req.id}
             /\ InOffsetOrder(queue) => InOffsetOrder(new)
             /\ NoneOver(queue, max) => NoneOver(new, max)
             /\ Built(req, queue, new)
<1> DEFINE q == req.queue
           E == EntryOf(D, q)
           p == InsertionPlace(req, queue)
           Fit(a, b)   == CHECK_AGGREGATE(a, b) /\ a.reqnb + b.reqnb <= max
           merged      == include_in_aggregation(req, queue[p])
           hasNext     == p < Len(queue)
           withPrev    == p > 0 /\ Fit(queue[p], req)
           bridgesNext == withPrev /\ hasNext /\ Fit(merged, queue[p + 1])
           withNext    == ~ withPrev /\ hasNext /\ Fit(req, queue[p + 1])
           new == hashtable_add_req(req, queue, max)
           Ok(l) == /\ l \in Seq(E) /\ NoneTwice(l)
                    /\ Members(l) = Members(queue) \cup {req.id}
                    /\ InOffsetOrder(queue) => InOffsetOrder(l)
                    /\ NoneOver(queue, max) => NoneOver(l, max)
                    /\ Built(req, queue, l)
<1>1. new = CASE bridgesNext ->
                   RemoveAt([queue EXCEPT ![p] = join_aggregations(merged, queue[p + 1])], p + 1)
              [] withPrev /\ ~ bridgesNext ->
                   [queue EXCEPT ![p] = merged]
              [] withNext ->
                   [queue EXCEPT ![p + 1] = include_in_aggregation(req, queue[p + 1])]
              [] OTHER ->
                   InsertAt(queue, p + 1, req)
  BY DEF hashtable_add_req, insert_aggregations
<1>2. /\ p \in 0 .. Len(queue)
      /\ \A j \in 1 .. p : queue[j].offset <= req.offset
      /\ p < Len(queue) => req.offset <= queue[p + 1].offset
  BY PlaceOfInsertion
<1>3. queue \in Seq(E)
  BY DEF ListOf
<1>4. Len(queue) \in Nat /\ p \in Nat /\ p <= Len(queue)
  BY <1>2, <1>3, LenProperties
<1>5. DOMAIN queue = 1 .. Len(queue)
  BY <1>3, LenProperties
<1>6. \A j \in 1 .. Len(queue) : queue[j] \in E
  BY <1>3, ElementOfSeq
<1>7. \A e \in E : /\ e \in Entry(D) /\ e.queue = q /\ e.offset \in Nat /\ e.reqnb \in Nat \ {0}
  BY DEF EntryOf, Entry, Simple, Virtual
<1>8. req \in E /\ OneEach(req) /\ IdSet(req) = {req.id} /\ req.offset \in Nat /\ req.reqnb = 1
  <2>1. req \in Entry(D)
    BY DEF Entry
  <2> QED BY <2>1, IdsOfEntry DEF EntryOf, Simple
<1>9. \A j \in 1 .. Len(queue) : req.id \notin IdSet(queue[j]) /\ OneEach(queue[j])
  BY <1>5 DEF Members, NoneTwice
<1> HIDE DEF E, q, p, new
<1> SUFFICES Ok(new)
  BY DEF ListOf, E, q, new
<1>10. ASSUME NEW j \in 1 .. Len(queue)
       PROVE  LET v == include_in_aggregation(req, queue[j])
              IN  /\ v \in E /\ OneEach(v) /\ IdSet(v) = IdSet(queue[j]) \cup {req.id}
                  /\ v.reqnb = queue[j].reqnb + 1
                  /\ v.offset = IF req.offset <= queue[j].offset THEN req.offset
                                ELSE queue[j].offset
  <2>1. /\ queue[j] \in Entry(D) /\ req.queue = queue[j].queue /\ OneEach(queue[j])
        /\ req.id \notin IdSet(queue[j])
    BY <1>6, <1>7, <1>9 DEF q
  <2> DEFINE e == queue[j]
  <2> HIDE DEF e
  <2>2. e \in Entry(D) /\ req.queue = e.queue /\ OneEach(e) /\ req.id \notin IdSet(e)
    BY <2>1 DEF e
  <2>3. include_in_aggregation(req, e) \in Virtual(D)
    BY <2>2, IncludeIsEntry
  <2>4. /\ include_in_aggregation(req, e).queue = e.queue
        /\ include_in_aggregation(req, e).reqnb = e.reqnb + 1
        /\ include_in_aggregation(req, e).offset =
             IF req.offset <= e.offset THEN req.offset ELSE e.offset
    BY <2>2, IncludeExtent
  <2>5. /\ IdSet(include_in_aggregation(req, e)) = IdSet(e) \cup {req.id}
        /\ OneEach(include_in_aggregation(req, e))
    BY <2>2, IncludeIds
  <2>6. include_in_aggregation(req, e) \in E
    BY <2>2, <2>3, <2>4 DEF E, EntryOf, Entry, q
  <2> QED BY <2>4, <2>5, <2>6 DEF e
<1>11. CASE bridgesNext
  <2> DEFINE next == queue[p + 1]
             J    == join_aggregations(merged, next)
             less == RemoveAt(queue, p + 1)
  <2>1. /\ p \in 1 .. Len(queue) /\ p + 1 \in 1 .. Len(queue) /\ p # p + 1
        /\ merged.reqnb + next.reqnb <= max
    BY <1>4, <1>11
  <2>2. queue[p].offset <= req.offset /\ req.offset <= next.offset
    BY <1>2, <1>4, <2>1
  <2>3. /\ merged \in E /\ OneEach(merged) /\ IdSet(merged) = IdSet(queue[p]) \cup {req.id}
        /\ merged.offset = queue[p].offset /\ merged.offset <= next.offset
    <3>1. /\ merged \in E /\ OneEach(merged) /\ IdSet(merged) = IdSet(queue[p]) \cup {req.id}
          /\ merged.offset = IF req.offset <= queue[p].offset THEN req.offset ELSE queue[p].offset
      BY <1>10, <2>1
    <3>2. queue[p].offset \in Nat /\ next.offset \in Nat
      BY <1>6, <1>7, <2>1
    <3> HIDE DEF merged, next
    <3> QED BY <1>8, <2>2, <3>1, <3>2
  <2>4. next \in E /\ OneEach(next) /\ IdSet(merged) \cap IdSet(next) = {}
    <3>1. next \in E /\ OneEach(next) /\ req.id \notin IdSet(next)
      BY <1>6, <1>9, <2>1
    <3>2. IdSet(queue[p]) \cap IdSet(next) = {}
      BY <1>5, <2>1 DEF NoneTwice
    <3> HIDE DEF merged, next
    <3> QED BY <2>3, <3>1, <3>2
  <2>5. /\ J \in E /\ OneEach(J) /\ IdSet(J) = IdSet(queue[p]) \cup IdSet(next) \cup {req.id}
        /\ J.offset = queue[p].offset /\ J.reqnb <= max
    <3>1. /\ merged \in Entry(D) /\ next \in Entry(D)
          /\ next.queue = merged.queue /\ merged.queue = q
      BY <1>7, <2>3, <2>4
    <3> HIDE DEF merged, next
    <3>2. /\ J \in Entry(D) /\ J.queue = merged.queue /\ J.offset = merged.offset
          /\ J.reqnb = merged.reqnb + next.reqnb
          /\ IdSet(J) = IdSet(merged) \cup IdSet(next) /\ OneEach(J)
      BY <2>3, <2>4, <3>1, JoinIds
    <3>3. J \in E
      BY <3>1, <3>2 DEF E, EntryOf
    <3> QED BY <2>1, <2>3, <3>1, <3>2, <3>3
  <2>22. MadeOf(req, queue, J)
    <3>1. queue[p].queue = req.queue /\ next.queue = req.queue
      BY <1>6, <1>7, <2>1 DEF q
    <3>2. CHECK_AGGREGATE(queue[p], req) /\ CHECK_AGGREGATE(merged, next)
      BY <1>11
    <3>3. p \in DOMAIN queue /\ p + 1 \in DOMAIN queue /\ p # p + 1
      BY <1>5, <2>1
    <3> QED BY <3>1, <3>2, <3>3 DEF MadeOf
  <2> HIDE DEF J, next, merged
  <2>6. new = RemoveAt([queue EXCEPT ![p] = J], p + 1)
    BY <1>1, <1>11 DEF J, next
  <2>7. /\ less \in Seq(E) /\ NoneTwice(less) /\ Members(less) = Members(queue) \ IdSet(next)
    BY <1>3, <2>1, WithoutEntry DEF next
  <2>8. Len(less) = Len(queue) - 1
    BY <1>3, <2>1, RemoveAtProperties
  <2>9. \A j \in 1 .. Len(queue) - 1 : less[j] = IF j < p + 1 THEN queue[j] ELSE queue[j + 1]
    BY <1>3, <2>1, RemoveAtProperties
  <2>10. p \in DOMAIN less /\ DOMAIN less = 1 .. Len(queue) - 1
    <3>1. DOMAIN less = 1 .. Len(less)
      BY <2>7, LenProperties
    <3> QED BY <1>4, <2>1, <2>8, <3>1
  <2> HIDE DEF less
  <2>11. new = [less EXCEPT ![p] = J]
    <3> DEFINE mid == [queue EXCEPT ![p] = J]
    <3>1. mid \in Seq(E) /\ Len(mid) = Len(queue)
      BY <1>3, <2>1, <2>5, ExceptSeq
    <3>2. \A j \in 1 .. Len(queue) : mid[j] = IF j = p THEN J ELSE queue[j]
      BY SMTT(60), <1>5
    <3> HIDE DEF mid
    <3>3. new \in Seq(E) /\ Len(new) = Len(queue) - 1
      BY ZenonT(60), <2>1, <2>6, <3>1, RemoveAtProperties DEF mid
    <3>4. \A j \in 1 .. Len(queue) - 1 : new[j] = IF j < p + 1 THEN mid[j] ELSE mid[j + 1]
      BY ZenonT(60), <2>1, <2>6, <3>1, RemoveAtProperties DEF mid
    <3>5. ASSUME NEW j \in 1 .. Len(queue) - 1 PROVE new[j] = IF j = p THEN J ELSE less[j]
      <4>1. j \in 1 .. Len(queue) /\ j + 1 \in 1 .. Len(queue)
        BY <1>4
      <4>2. CASE j = p
        BY <1>4, <2>1, <3>2, <3>4, <4>1, <4>2
      <4>3. CASE j < p
        <5>1. j < p + 1 /\ j # p
          BY <1>4, <4>3
        <5> QED BY <2>9, <3>2, <3>4, <4>1, <5>1
      <4>4. CASE j > p
        <5>1. ~ (j < p + 1) /\ j # p /\ j + 1 # p
          BY <1>4, <4>4
        <5> QED BY <2>9, <3>2, <3>4, <4>1, <5>1
      <4> QED BY <1>4, <4>2, <4>3, <4>4
    <3>6. DOMAIN new = 1 .. Len(queue) - 1 /\ new = [j \in DOMAIN new |-> new[j]]
      <4>1. DOMAIN new = 1 .. Len(new) /\ new \in [1 .. Len(new) -> E]
        BY <3>3, LenProperties
      <4> QED BY <3>3, <4>1
    <3> QED BY <2>10, <3>5, <3>6
  <2>12. \A i \in DOMAIN less \ {p} : IdSet(less[i]) \cap IdSet(J) = {}
    <3> SUFFICES ASSUME NEW i \in DOMAIN less \ {p} PROVE IdSet(less[i]) \cap IdSet(J) = {}
      OBVIOUS
    <3>1. PICK k \in 1 .. Len(queue) : less[i] = queue[k] /\ k # p /\ k # p + 1
      <4>1. CASE i < p
        <5>1. i \in 1 .. Len(queue) /\ i < p + 1 /\ i # p /\ i # p + 1
          BY <1>4, <2>10, <4>1
        <5> QED BY <2>9, <2>10, <5>1
      <4>2. CASE i > p
        <5>1. i + 1 \in 1 .. Len(queue) /\ ~ (i < p + 1) /\ i + 1 # p /\ i + 1 # p + 1
          BY <1>4, <2>10, <4>2
        <5> QED BY <2>9, <2>10, <5>1
      <4> QED BY <1>4, <2>10, <4>1, <4>2
    <3>2. IdSet(queue[k]) \cap IdSet(queue[p]) = {} /\ IdSet(queue[k]) \cap IdSet(next) = {}
      BY <1>5, <2>1, <3>1 DEF NoneTwice, next
    <3>3. req.id \notin IdSet(queue[k])
      BY <1>9
    <3> QED BY <2>5, <3>1, <3>2, <3>3
  <2>13. NoneTwice(new) /\ Members(new) = (Members(less) \ IdSet(less[p])) \cup IdSet(J)
    <3>1. OneEach(J) /\ NoneTwice(less) /\ p \in DOMAIN less
      BY <2>5, <2>7, <2>10
    <3> QED BY <2>11, <2>12, <3>1, Replaced
  <2>14. less[p] = queue[p]
    <3>1. p \in 1 .. Len(queue) - 1 /\ p < p + 1
      BY <1>4, <2>1
    <3> QED BY <2>9, <3>1
  <2>15. IdSet(queue[p]) \in SUBSET Members(queue) /\ IdSet(next) \in SUBSET Members(queue)
    BY <1>5, <2>1 DEF Members, next
  <2>16. Members(new) = Members(queue) \cup {req.id}
    BY <2>5, <2>7, <2>13, <2>14, <2>15
  <2>17. new \in Seq(E)
    BY <2>5, <2>7, <2>10, <2>11, ExceptSeq
  <2>18. DOMAIN new = 1 .. Len(queue) - 1 /\ new[p] = J
         /\ \A j \in 1 .. Len(queue) - 1 : new[j] = IF j = p THEN J ELSE less[j]
    BY <2>10, <2>11
  <2>19. \A j \in 1 .. Len(queue) - 1 :
           /\ new[j].offset = IF j < p + 1 THEN queue[j].offset ELSE queue[j + 1].offset
           /\ j = p \/ new[j].reqnb = IF j < p + 1 THEN queue[j].reqnb ELSE queue[j + 1].reqnb
    BY <1>4, <2>1, <2>5, <2>9, <2>14, <2>18
  <2>20. ASSUME InOffsetOrder(queue) PROVE InOffsetOrder(new)
    <3> SUFFICES ASSUME NEW i \in DOMAIN new, NEW j \in DOMAIN new, i < j
                 PROVE  new[i].offset <= new[j].offset
      BY DEF InOffsetOrder
    <3> DEFINE a == IF i < p + 1 THEN i ELSE i + 1
               b == IF j < p + 1 THEN j ELSE j + 1
    <3>1. a \in 1 .. Len(queue) /\ b \in 1 .. Len(queue) /\ a < b
      BY <1>4, <2>18
    <3>2. queue[a].offset <= queue[b].offset
      BY <1>5, <2>20, <3>1 DEF InOffsetOrder
    <3>3. new[i].offset = queue[a].offset /\ new[j].offset = queue[b].offset
      BY <2>18, <2>19
    <3> QED BY <3>2, <3>3
  <2>21. ASSUME NoneOver(queue, max) PROVE NoneOver(new, max)
    <3> SUFFICES ASSUME NEW j \in DOMAIN new PROVE new[j].reqnb <= max
      BY DEF NoneOver
    <3>1. CASE j = p
      BY <2>5, <2>18, <3>1
    <3>2. CASE j # p
      <4> DEFINE b == IF j < p + 1 THEN j ELSE j + 1
      <4>1. b \in 1 .. Len(queue) /\ new[j].reqnb = queue[b].reqnb
        BY <1>4, <2>18, <2>19, <3>2
      <4> HIDE DEF b
      <4> QED BY <1>5, <2>21, <4>1 DEF NoneOver
    <3> QED BY <3>1, <3>2
  <2>23. Built(req, queue, new)
    <3> SUFFICES ASSUME NEW j \in DOMAIN new PROVE MadeOf(req, queue, new[j])
      BY DEF Built
    <3>1. CASE j = p
      BY <2>18, <2>22, <3>1
    <3>2. CASE j # p
      <4> DEFINE b == IF j < p + 1 THEN j ELSE j + 1
      <4>1. b \in 1 .. Len(queue) /\ new[j] = queue[b]
        BY <1>4, <2>9, <2>18, <3>2
      <4> HIDE DEF b
      <4> QED BY <1>5, <4>1 DEF MadeOf
    <3> QED BY <3>1, <3>2
  <2> QED BY <2>13, <2>16, <2>17, <2>20, <2>21, <2>23
<1>12. ASSUME NEW k \in 1 .. Len(queue), new = [queue EXCEPT ![k] = include_in_aggregation(req, queue[k])],
              queue[k].reqnb + 1 <= max,
              InOffsetOrder(queue) =>
                /\ \A j \in 1 .. Len(queue) : j < k => queue[j].offset <= req.offset
                /\ k = p \/ req.offset <= queue[k].offset,
              CHECK_AGGREGATE(req, queue[k]) \/ CHECK_AGGREGATE(queue[k], req)
       PROVE  Ok(new)
  <2> DEFINE v == include_in_aggregation(req, queue[k])
  <2>1. /\ v \in E /\ OneEach(v) /\ IdSet(v) = IdSet(queue[k]) \cup {req.id}
        /\ v.reqnb = queue[k].reqnb + 1
        /\ v.offset = IF req.offset <= queue[k].offset THEN req.offset ELSE queue[k].offset
    BY <1>10
  <2>11. MadeOf(req, queue, v)
    <3>1. req.queue = queue[k].queue /\ k \in DOMAIN queue
      BY <1>5, <1>6, <1>7 DEF q
    <3> QED BY <1>12, <3>1 DEF MadeOf
  <2> HIDE DEF v
  <2>2. new = [queue EXCEPT ![k] = v]
    BY <1>12 DEF v
  <2>3. new \in Seq(E)
    BY <1>3, <2>1, <2>2, ExceptSeq
  <2>4. \A i \in DOMAIN queue \ {k} : IdSet(queue[i]) \cap IdSet(v) = {}
    <3> SUFFICES ASSUME NEW i \in DOMAIN queue \ {k} PROVE IdSet(queue[i]) \cap IdSet(v) = {}
      OBVIOUS
    <3>1. IdSet(queue[i]) \cap IdSet(queue[k]) = {}
      BY <1>5 DEF NoneTwice
    <3>2. req.id \notin IdSet(queue[i])
      BY <1>5, <1>9
    <3> QED BY <2>1, <3>1, <3>2
  <2>5. NoneTwice(new) /\ Members(new) = (Members(queue) \ IdSet(queue[k])) \cup IdSet(v)
    <3>1. k \in DOMAIN queue /\ OneEach(v)
      BY <1>5, <2>1
    <3> QED BY <2>2, <2>4, <3>1, Replaced
  <2>6. IdSet(queue[k]) \in SUBSET Members(queue)
    BY <1>5 DEF Members
  <2>7. Members(new) = Members(queue) \cup {req.id}
    BY <2>1, <2>5, <2>6
  <2>8. DOMAIN new = 1 .. Len(queue) /\ new[k] = v
        /\ \A j \in 1 .. Len(queue) : j # k => new[j] = queue[j]
    BY <1>5, <2>2
  <2>9. ASSUME InOffsetOrder(queue) PROVE InOffsetOrder(new)
    <3> SUFFICES ASSUME NEW i \in DOMAIN new, NEW j \in DOMAIN new, i < j
                 PROVE  new[i].offset <= new[j].offset
      BY DEF InOffsetOrder
    <3>1. i \in 1 .. Len(queue) /\ j \in 1 .. Len(queue)
      BY <2>8
    <3>2. queue[i].offset <= queue[j].offset
      BY <1>5, <2>9, <3>1 DEF InOffsetOrder
    <3>3. queue[i].offset \in Nat /\ queue[j].offset \in Nat
      BY <1>6, <1>7, <3>1
    <3>4. CASE i # k /\ j # k
      BY <2>8, <3>1, <3>2, <3>4
    <3>5. CASE i = k /\ j # k
      BY <1>8, <2>1, <2>8, <3>1, <3>2, <3>3, <3>5
    <3>6. CASE j = k /\ i # k
      <4>1. queue[i].offset <= req.offset
        BY <1>12, <2>9, <3>1, <3>6
      <4> QED BY <1>8, <2>1, <2>8, <3>1, <3>2, <3>3, <3>6, <4>1
    <3> QED BY <3>1, <3>4, <3>5, <3>6
  <2>10. ASSUME NoneOver(queue, max) PROVE NoneOver(new, max)
    <3> SUFFICES ASSUME NEW j \in DOMAIN new PROVE new[j].reqnb <= max
      BY DEF NoneOver
    <3>1. j \in 1 .. Len(queue) /\ queue[j].reqnb <= max
      BY <1>5, <2>8, <2>10 DEF NoneOver
    <3> QED BY <1>12, <2>1, <2>8, <3>1
  <2>12. Built(req, queue, new)
    <3> SUFFICES ASSUME NEW j \in DOMAIN new PROVE MadeOf(req, queue, new[j])
      BY DEF Built
    <3>1. CASE j = k
      BY <2>8, <2>11, <3>1
    <3>2. CASE j # k
      BY <1>5, <2>8, <3>2 DEF MadeOf
    <3> QED BY <3>1, <3>2
  <2> QED BY <2>3, <2>5, <2>7, <2>9, <2>10, <2>12
<1>13. CASE withPrev /\ ~ bridgesNext
  <2>1. new = [queue EXCEPT ![p] = merged]
    BY <1>1, <1>13
  <2>2. p \in 1 .. Len(queue) /\ queue[p].reqnb + 1 <= max
    BY <1>2, <1>4, <1>8, <1>13
  <2>3. \A j \in 1 .. Len(queue) : j < p => queue[j].offset <= req.offset
    BY <1>2, <1>4
  <2>4. CHECK_AGGREGATE(queue[p], req)
    BY <1>13
  <2> HIDE DEF Ok, Fit
  <2> QED BY <1>12, <2>1, <2>2, <2>3, <2>4
<1>14. CASE withNext
  <2>1. new = [queue EXCEPT ![p + 1] = include_in_aggregation(req, queue[p + 1])]
    BY <1>1, <1>14
  <2>2. p + 1 \in 1 .. Len(queue) /\ queue[p + 1].reqnb + 1 <= max
    <3>1. p + 1 \in 1 .. Len(queue)
      BY <1>4, <1>14
    <3>2. queue[p + 1].reqnb \in Nat
      BY <1>6, <1>7, <3>1
    <3> QED BY <1>8, <1>14, <3>1, <3>2
  <2>3. \A j \in 1 .. Len(queue) : j < p + 1 => queue[j].offset <= req.offset
    BY <1>2, <1>4
  <2>4. req.offset <= queue[p + 1].offset
    BY <1>2, <1>14
  <2>6. CHECK_AGGREGATE(req, queue[p + 1])
    BY <1>14
  <2> DEFINE k == p + 1
  <2> HIDE DEF Ok, Fit, k
  <2>5. /\ k \in 1 .. Len(queue) /\ queue[k].reqnb + 1 <= max /\ req.offset <= queue[k].offset
        /\ CHECK_AGGREGATE(req, queue[k])
        /\ new = [queue EXCEPT ![k] = include_in_aggregation(req, queue[k])]
        /\ \A j \in 1 .. Len(queue) : j < k => queue[j].offset <= req.offset
    BY <2>1, <2>2, <2>3, <2>4, <2>6 DEF k
  <2> QED BY <1>12, <2>5
<1>15. CASE ~ bridgesNext /\ ~ withPrev /\ ~ withNext
  <2>1. new = InsertAt(queue, p + 1, req)
    BY <1>1, <1>15
  <2>2. p + 1 \in 1 .. Len(queue) + 1
    BY <1>2, <1>4
  <2>3. IdSet(req) \cap Members(queue) = {}
    BY <1>8
  <2> DEFINE at == p + 1
  <2> HIDE DEF at
  <2>a. new = InsertAt(queue, at, req) /\ at \in 1 .. Len(queue) + 1
    BY <2>1, <2>2 DEF at
  <2>4. /\ new \in Seq(E) /\ NoneTwice(new) /\ Members(new) = Members(queue) \cup IdSet(req)
    BY <1>3, <1>8, <2>3, <2>a, WithEntry
  <2>5. Len(new) = Len(queue) + 1
    BY <1>3, <1>8, <2>a, InsertAtProperties
  <2>b. \A j \in 1 .. Len(queue) + 1 :
          new[j] = IF j < at THEN queue[j] ELSE IF j = at THEN req ELSE queue[j - 1]
    BY <1>3, <1>8, <2>a, InsertAtProperties
  <2>6. \A j \in 1 .. Len(queue) + 1 :
          new[j] = IF j < p + 1 THEN queue[j] ELSE IF j = p + 1 THEN req ELSE queue[j - 1]
    BY <2>b DEF at
  <2>7. DOMAIN new = 1 .. Len(queue) + 1
    BY <2>4, <2>5, LenProperties
  <2>8. ASSUME InOffsetOrder(queue) PROVE InOffsetOrder(new)
    <3> SUFFICES ASSUME NEW i \in DOMAIN new, NEW j \in DOMAIN new, i < j
                 PROVE  new[i].offset <= new[j].offset
      BY DEF InOffsetOrder
    <3> DEFINE a == IF i < p + 1 THEN i ELSE i - 1
               b == IF j < p + 1 THEN j ELSE j - 1
    <3>1. CASE i # p + 1 /\ j # p + 1
      <4>0. i \in 1 .. Len(queue) + 1 /\ j \in 1 .. Len(queue) + 1
        BY <2>7
      <4>1. a \in 1 .. Len(queue) /\ b \in 1 .. Len(queue) /\ a < b
        BY <1>4, <3>1, <4>0
      <4>2. queue[a].offset <= queue[b].offset
        BY <1>5, <2>8, <4>1 DEF InOffsetOrder
      <4>3. new[i] = queue[a] /\ new[j] = queue[b]
        BY <2>6, <2>7, <3>1
      <4> QED BY <4>2, <4>3
    <3>2. CASE i = p + 1
      <4>1. j - 1 \in 1 .. Len(queue) /\ j # p + 1 /\ ~ (j < p + 1) /\ p < Len(queue)
            /\ p + 1 \in 1 .. Len(queue) /\ (p + 1 < j - 1 \/ p + 1 = j - 1)
        BY <1>4, <2>7, <3>2
      <4>2. new[i] = req /\ new[j] = queue[j - 1]
        BY <1>4, <2>6, <2>7, <3>2, <4>1
      <4>3. queue[p + 1].offset <= queue[j - 1].offset
        <5>1. CASE p + 1 < j - 1
          BY <1>5, <2>8, <4>1, <5>1 DEF InOffsetOrder
        <5>2. CASE p + 1 = j - 1
          <6>1. queue[p + 1].offset \in Nat
            BY <1>6, <1>7, <4>1
          <6> QED BY <5>2, <6>1
        <5> QED BY <4>1, <5>1, <5>2
      <4>4. req.offset <= queue[p + 1].offset
        BY <1>2, <4>1
      <4>5. queue[p + 1].offset \in Nat /\ queue[j - 1].offset \in Nat
        BY <1>6, <1>7, <4>1
      <4> QED BY <1>8, <4>2, <4>3, <4>4, <4>5
    <3>3. CASE j = p + 1
      <4>1. i \in 1 .. p /\ i < p + 1
        BY <1>4, <2>7, <3>3
      <4>2. new[i] = queue[i] /\ new[j] = req
        BY <1>4, <2>6, <2>7, <3>3, <4>1
      <4> QED BY <1>2, <4>1, <4>2
    <3> QED BY <3>1, <3>2, <3>3
  <2>9. ASSUME NoneOver(queue, max) PROVE NoneOver(new, max)
    <3> SUFFICES ASSUME NEW j \in DOMAIN new PROVE new[j].reqnb <= max
      BY DEF NoneOver
    <3>1. CASE j = p + 1
      BY <1>8, <2>6, <2>7, <3>1
    <3>2. CASE j # p + 1
      <4> DEFINE b == IF j < p + 1 THEN j ELSE j - 1
      <4>0. j \in 1 .. Len(queue) + 1
        BY <2>7
      <4>1. b \in 1 .. Len(queue)
        BY <1>4, <3>2, <4>0
      <4>2. new[j] = queue[b]
        BY <2>6, <3>2, <4>0
      <4> HIDE DEF b
      <4> QED BY <1>5, <2>9, <4>1, <4>2 DEF NoneOver
    <3> QED BY <3>1, <3>2
  <2>10. Built(req, queue, new)
    <3> SUFFICES ASSUME NEW j \in DOMAIN new PROVE MadeOf(req, queue, new[j])
      BY DEF Built
    <3>1. CASE j = p + 1
      BY <2>6, <2>7, <3>1 DEF MadeOf
    <3>2. CASE j # p + 1
      <4> DEFINE b == IF j < p + 1 THEN j ELSE j - 1
      <4>0. j \in 1 .. Len(queue) + 1
        BY <2>7
      <4>1. b \in 1 .. Len(queue)
        BY <1>4, <3>2, <4>0
      <4>2. new[j] = queue[b]
        BY <2>6, <3>2, <4>0
      <4> HIDE DEF b
      <4> QED BY <1>5, <4>1, <4>2 DEF MadeOf
    <3> QED BY <3>1, <3>2
  <2> QED BY <1>8, <2>4, <2>8, <2>9, <2>10
<1> HIDE DEF Ok, Fit
<1> QED BY <1>11, <1>13, <1>14, <1>15

\* The same for the timeline, whose requests are of any queue.
LEMMA TimelineAdds ==
  ASSUME NEW D, IsData(D), NEW req \in Simple(D), NEW timeline \in Seq(Entry(D)),
         NoneTwice(timeline), req.id \notin Members(timeline),
         NEW aggregates \in BOOLEAN, NEW max \in Nat \ {0}
  PROVE  LET new == timeline_add_req(req, timeline, aggregates, max)
         IN  /\ new \in Seq(Entry(D))
             /\ NoneTwice(new)
             /\ Members(new) = Members(timeline) \cup {req.id}
             /\ NoneOver(timeline, max) => NoneOver(new, max)
             /\ Built(req, timeline, new)
             /\ ~ aggregates => new = Append(timeline, req)
<1> DEFINE E == Entry(D)
           Good == {i \in 1 .. Len(timeline) :
                      /\ timeline[i].queue = req.queue
                      /\ timeline[i].reqnb < max
                      /\ CHECK_AGGREGATE(req, timeline[i]) \/ CHECK_AGGREGATE(timeline[i], req)}
           i == IF aggregates /\ max > 1 THEN (IF Good # {} THEN Min(Good) ELSE 0) ELSE 0
           v == include_in_aggregation(req, timeline[i])
           new == timeline_add_req(req, timeline, aggregates, max)
<1>1. /\ i = 0 => new = Append(timeline, req)
      /\ i # 0 => new = [timeline EXCEPT ![i] = v]
  BY DEF timeline_add_req, SelectInSeq
<1>2. ~ aggregates => i = 0
  OBVIOUS
<1>3. i # 0 => i \in Good
  <2> SUFFICES ASSUME i # 0 PROVE i \in Good
    OBVIOUS
  <2>1. Good # {} /\ i = Min(Good)
    OBVIOUS
  <2>2. Good \in SUBSET Nat
    OBVIOUS
  <2> HIDE DEF Good
  <2> QED BY <2>1, <2>2, MinNat
<1>4. i # 0 => /\ i \in 1 .. Len(timeline) /\ timeline[i].queue = req.queue /\ timeline[i].reqnb < max
               /\ CHECK_AGGREGATE(req, timeline[i]) \/ CHECK_AGGREGATE(timeline[i], req)
  BY <1>3
<1> HIDE DEF i
<1>5. req \in E /\ OneEach(req) /\ IdSet(req) = {req.id} /\ req.reqnb = 1
  <2>1. req \in Entry(D)
    BY DEF Entry
  <2> QED BY <2>1, IdsOfEntry DEF Simple
<1>6. Len(timeline) \in Nat
  BY LenProperties
<1>7. DOMAIN timeline = 1 .. Len(timeline)
  BY LenProperties
<1> HIDE DEF new
<1>8. CASE i = 0
  <2>1. new = Append(timeline, req)
    BY <1>1, <1>8
  <2>2. IdSet(req) \cap Members(timeline) = {}
    BY <1>5
  <2>3. new \in Seq(E) /\ NoneTwice(new) /\ Members(new) = Members(timeline) \cup IdSet(req)
    BY <1>5, <2>1, <2>2, WithLast
  <2>4. ASSUME NoneOver(timeline, max) PROVE NoneOver(new, max)
    <3>1. Len(new) = Len(timeline) + 1 /\ new[Len(timeline) + 1] = req
      BY <1>5, <2>1, AppendProperties
    <3>2. \A j \in 1 .. Len(timeline) : new[j] = timeline[j]
      BY <1>5, <2>1, AppendProperties
    <3>3. \A j \in 1 .. Len(timeline) : new[j].reqnb <= max
      BY <1>7, <2>4, <3>2 DEF NoneOver
    <3>4. DOMAIN new = 1 .. Len(timeline) + 1
      BY <2>3, <3>1, LenProperties
    <3>5. \A j \in 1 .. Len(timeline) + 1 : j \in 1 .. Len(timeline) \/ j = Len(timeline) + 1
      BY <1>6
    <3> QED BY <1>5, <3>1, <3>3, <3>4, <3>5 DEF NoneOver
  <2>5. Built(req, timeline, new)
    <3>1. Len(new) = Len(timeline) + 1 /\ new[Len(timeline) + 1] = req
      BY <1>5, <2>1, AppendProperties
    <3>2. \A j \in 1 .. Len(timeline) : new[j] = timeline[j]
      BY <1>5, <2>1, AppendProperties
    <3>3. DOMAIN new = 1 .. Len(timeline) + 1
      BY <2>3, <3>1, LenProperties
    <3>4. \A j \in 1 .. Len(timeline) + 1 : j \in 1 .. Len(timeline) \/ j = Len(timeline) + 1
      BY <1>6
    <3>5. MadeOf(req, timeline, req)
      BY DEF MadeOf
    <3>6. \A j \in 1 .. Len(timeline) : MadeOf(req, timeline, new[j])
      BY <1>7, <3>2 DEF MadeOf
    <3> QED BY <3>1, <3>3, <3>4, <3>5, <3>6 DEF Built
  <2> QED BY <1>5, <2>1, <2>3, <2>4, <2>5 DEF new
<1>9. CASE i # 0
  <2> DEFINE e == timeline[i]
  <2>1. /\ i \in 1 .. Len(timeline) /\ i \in DOMAIN timeline /\ e \in Entry(D)
        /\ req.queue = e.queue /\ e.reqnb < max /\ OneEach(e) /\ req.id \notin IdSet(e)
    <3>1. i \in 1 .. Len(timeline) /\ timeline[i].queue = req.queue /\ timeline[i].reqnb < max
      BY <1>4, <1>9
    <3>2. i \in DOMAIN timeline
      BY <1>7, <3>1
    <3>3. OneEach(e) /\ req.id \notin IdSet(e)
      BY <3>2 DEF NoneTwice, Members
    <3> QED BY <3>1, <3>2, <3>3, ElementOfSeq
  <2>12. CHECK_AGGREGATE(req, e) \/ CHECK_AGGREGATE(e, req)
    BY <1>4, <1>9
  <2>13. MadeOf(req, timeline, include_in_aggregation(req, e))
    BY <2>1, <2>12 DEF MadeOf
  <2> HIDE DEF e
  <2>2. v = include_in_aggregation(req, e)
    BY DEF e
  <2> HIDE DEF v
  <2>3. v \in Virtual(D)
    BY <2>1, <2>2, IncludeIsEntry
  <2>4. v.reqnb = e.reqnb + 1
    BY <2>1, <2>2, IncludeExtent
  <2>5. IdSet(v) = IdSet(e) \cup {req.id} /\ OneEach(v)
    BY <2>1, <2>2, IncludeIds
  <2>6. new = [timeline EXCEPT ![i] = v]
    BY <1>1, <1>9
  <2>7. new \in Seq(E)
    <3>1. v \in E
      BY <2>3 DEF Entry
    <3> QED BY <2>1, <2>6, <3>1, ExceptSeq
  <2>8. \A j \in DOMAIN timeline \ {i} : IdSet(timeline[j]) \cap IdSet(v) = {}
    BY <2>1, <2>5 DEF NoneTwice, Members, e
  <2>9. NoneTwice(new) /\ Members(new) = (Members(timeline) \ IdSet(e)) \cup IdSet(v)
    <3>1. i \in DOMAIN timeline /\ OneEach(v)
      BY <2>1, <2>5
    <3> QED BY <2>6, <2>8, <3>1, Replaced DEF e
  <2>10. Members(new) = Members(timeline) \cup {req.id}
    <3>1. IdSet(e) \in SUBSET Members(timeline)
      BY <2>1 DEF Members, e
    <3> QED BY <2>5, <2>9, <3>1
  <2>11. ASSUME NoneOver(timeline, max) PROVE NoneOver(new, max)
    <3> SUFFICES ASSUME NEW j \in DOMAIN new PROVE new[j].reqnb <= max
      BY DEF NoneOver
    <3>1. j \in DOMAIN timeline /\ new[j] = IF j = i THEN v ELSE timeline[j]
      BY <2>6
    <3>2. e.reqnb \in Nat
      BY <2>1, PartsOfEntry
    <3> QED BY <2>1, <2>4, <2>11, <3>1, <3>2 DEF NoneOver
  <2>14. Built(req, timeline, new)
    <3> SUFFICES ASSUME NEW j \in DOMAIN new PROVE MadeOf(req, timeline, new[j])
      BY DEF Built
    <3>1. j \in DOMAIN timeline /\ new[j] = IF j = i THEN v ELSE timeline[j]
      BY <2>6
    <3>2. MadeOf(req, timeline, v) /\ MadeOf(req, timeline, timeline[j])
      BY <2>2, <2>13, <3>1 DEF MadeOf
    <3> QED BY <3>1, <3>2
  <2> QED BY <1>2, <1>9, <2>7, <2>9, <2>10, <2>11, <2>14 DEF new
<1> QED BY <1>8, <1>9

\* A request put in some place of a list.
LEMMA InsertBuilds ==
  ASSUME NEW E, NEW list \in Seq(E), NEW e \in E, NEW i \in 1 .. Len(list) + 1
  PROVE  LET new == InsertAt(list, i, e)
         IN  /\ Built(e, list, new)
             /\ \A j \in DOMAIN new : new[j] = e \/ \E k \in DOMAIN list : new[j] = list[k]
<1> DEFINE new == InsertAt(list, i, e)
<1>1. Len(list) \in Nat /\ DOMAIN list = 1 .. Len(list)
  BY LenProperties
<1>2. /\ new \in Seq(E) /\ Len(new) = Len(list) + 1
      /\ \A j \in 1 .. Len(list) + 1 :
           new[j] = IF j < i THEN list[j] ELSE IF j = i THEN e ELSE list[j - 1]
  BY InsertAtProperties
<1> HIDE DEF new
<1>3. DOMAIN new = 1 .. Len(list) + 1
  BY <1>2, LenProperties
<1>4. ASSUME NEW j \in 1 .. Len(list) + 1
      PROVE  new[j] = e \/ \E k \in DOMAIN list : new[j] = list[k]
  <2>1. CASE j < i
    BY <1>1, <1>2, <2>1
  <2>2. CASE j = i
    BY <1>2, <2>2
  <2>3. CASE j > i
    <3>1. j - 1 \in DOMAIN list /\ new[j] = list[j - 1]
      BY <1>1, <1>2, <2>3
    <3> QED BY <3>1
  <2> QED BY <1>1, <2>1, <2>2, <2>3
<1>5. Built(e, list, new)
  BY <1>3, <1>4 DEF Built, MadeOf
<1> QED BY <1>3, <1>4, <1>5 DEF new

\* An insertion that makes entries of what touches leaves no gap where there was none.
LEMMA BuiltNoGap ==
  ASSUME NEW D, IsData(D), NEW req \in Simple(D), NEW list \in Seq(Entry(D)),
         NoneTwice(list), req.id \notin Members(list), NEW new, Built(req, list, new),
         NoGapIn(D, list)
  PROVE  NoGapIn(D, new)
<1> SUFFICES ASSUME NEW j \in DOMAIN new PROVE NoGap(D, new[j])
  BY DEF NoGapIn
<1>1. \A a \in DOMAIN list : /\ list[a] \in Entry(D) /\ OneEach(list[a]) /\ NoGap(D, list[a])
                             /\ req.id \notin IdSet(list[a])
  BY ElementOfSeq, LenProperties DEF NoneTwice, Members, NoGapIn
<1>2. CASE new[j] = req
  BY <1>2, SimpleNoGap
<1>3. ASSUME NEW a \in DOMAIN list, list[a].queue = req.queue,
             CHECK_AGGREGATE(req, list[a]) \/ CHECK_AGGREGATE(list[a], req)
      PROVE  NoGap(D, include_in_aggregation(req, list[a]))
  BY <1>1, <1>3, IncludeNoGap
<1>4. ASSUME NEW a \in DOMAIN list, NEW b \in DOMAIN list, a # b,
             list[a].queue = req.queue, list[b].queue = req.queue, CHECK_AGGREGATE(list[a], req),
             CHECK_AGGREGATE(include_in_aggregation(req, list[a]), list[b])
      PROVE  NoGap(D, join_aggregations(include_in_aggregation(req, list[a]), list[b]))
  <2> DEFINE merged == include_in_aggregation(req, list[a])
  <2>1. merged \in Entry(D) /\ NoGap(D, merged) /\ merged.queue = req.queue
    BY <1>1, <1>3, <1>4, IncludeParts, IncludeExtent
  <2>2. OneEach(merged) /\ IdSet(merged) = IdSet(list[a]) \cup {req.id}
    BY <1>1, <1>4, IncludeIds
  <2>3. IdSet(merged) \cap IdSet(list[b]) = {}
    BY <1>1, <1>4, <2>2 DEF NoneTwice
  <2> HIDE DEF merged
  <2>4. NoGap(D, join_aggregations(merged, list[b]))
    BY <1>1, <1>4, <2>1, <2>2, <2>3, JoinNoGap DEF merged
  <2> QED BY <2>4 DEF merged
<1> QED BY <1>1, <1>2, <1>3, <1>4 DEF Built, MadeOf

-----------------------------------------------------------------------------
(* Extents that do not overlap.                                            *)


\* One of two extents is behind the other.
Beside(a, b) == \/ a.offset < b.offset /\ End(a) <= b.offset
                \/ b.offset < a.offset /\ End(b) <= a.offset

\* The requests of one file and type that users may add do not overlap.
NoOverlap(D) ==
  \A r, s \in DOMAIN D : r # s /\ D[r].queue = D[s].queue => Beside(D[r], D[s])

\* The parts of an entry follow one another, from its start to its end.
Consecutive(e) ==
  /\ \A j, k \in 1 .. e.reqnb : j < k => End(Parts(e)[j]) <= Parts(e)[k].offset
  /\ Parts(e)[1].offset = e.offset
  /\ End(Parts(e)[e.reqnb]) = End(e)

\* Of the requests S none lies where the entry is that has no part in it.
Clear(D, S, e) == \A r \in S \ IdSet(e) : D[r].queue = e.queue => Beside(D[r], e)

Solid(D, S, e) == Consecutive(e) /\ Clear(D, S, e)

SolidIn(D, S, list) == \A i \in DOMAIN list : Solid(D, S, list[i])

\* What is known of a part of an entry.
LEMMA PartOfEntry ==
  ASSUME NEW D, IsData(D), NEW e \in Entry(D), NEW k \in 1 .. e.reqnb
  PROVE  LET p == Parts(e)[k]
         IN  /\ p \in Simple(D) /\ p.queue = e.queue /\ p.id \in IdSet(e) /\ p.id \in DOMAIN D
             /\ p.offset \in Nat /\ p.len \in Nat /\ End(p) \in Nat /\ p.offset <= End(p)
             /\ D[p.id].queue = p.queue /\ D[p.id].offset = p.offset /\ D[p.id].len = p.len
             /\ End(D[p.id]) = End(p)
<1> DEFINE p == Parts(e)[k]
<1>1. /\ Parts(e) \in Seq(Simple(D)) /\ Len(Parts(e)) = e.reqnb /\ p.queue = e.queue
  BY PartsOfEntry
<1>2. p \in Simple(D) /\ p.id \in IdSet(e)
  <2>1. p \in Simple(D)
    BY <1>1, ElementOfSeq
  <2>2. IdSet(e) = {Parts(e)[m].id : m \in 1 .. Len(Parts(e))}
    BY IdsOfEntry
  <2> QED BY <1>1, <2>1, <2>2
<1> HIDE DEF p
<1>3. /\ p.id \in DOMAIN D /\ p.offset \in Nat /\ p.len \in Nat
      /\ D[p.id].queue = p.queue /\ D[p.id].offset = p.offset /\ D[p.id].len = p.len
  BY <1>2 DEF Simple
<1>4. End(p) \in Nat /\ p.offset <= End(p) /\ End(D[p.id]) = End(p)
  BY <1>3 DEF End
<1> QED BY <1>1, <1>2, <1>3, <1>4 DEF p

\* The parts of an entry that follow one another lie within it.
LEMMA RowSpans ==
  ASSUME NEW D, IsData(D), NEW e \in Entry(D), Consecutive(e)
  PROVE  /\ e.offset \in Nat /\ End(e) \in Nat
         /\ \A k \in 1 .. e.reqnb : e.offset <= Parts(e)[k].offset /\ End(Parts(e)[k]) <= End(e)
<1>1. e.offset \in Nat /\ End(e) \in Nat
  BY OffsetsOfEntry DEF End
<1>2. e.reqnb \in Nat \ {0} /\ e.reqnb \in 1 .. e.reqnb
  BY PartsOfEntry
<1>3. \A k \in 1 .. e.reqnb : /\ Parts(e)[k].offset \in Nat /\ End(Parts(e)[k]) \in Nat
                              /\ Parts(e)[k].offset <= End(Parts(e)[k])
  BY PartOfEntry
<1>4. ASSUME NEW k \in 1 .. e.reqnb
      PROVE  e.offset <= Parts(e)[k].offset /\ End(Parts(e)[k]) <= End(e)
  <2>1. e.offset <= Parts(e)[k].offset
    BY PartsOfEntry
  <2>2. CASE k = e.reqnb
    BY <1>1, <2>1, <2>2 DEF Consecutive
  <2>3. CASE k < e.reqnb
    <3>1. End(Parts(e)[k]) <= Parts(e)[e.reqnb].offset /\ End(Parts(e)[e.reqnb]) = End(e)
      BY <1>2, <2>3 DEF Consecutive
    <3> QED BY <1>1, <1>2, <1>3, <2>1, <3>1
  <2> QED BY <1>2, <2>2, <2>3
<1> QED BY <1>1, <1>4

\* A request that overlaps no other is one by itself.
LEMMA SimpleSolid ==
  ASSUME NEW D, IsData(D), NoOverlap(D), NEW S \in SUBSET DOMAIN D, NEW e \in Simple(D)
  PROVE  Solid(D, S, e)
<1>1. /\ e \in Entry(D) /\ IdSet(e) = {e.id} /\ Parts(e) = <<e>> /\ e.reqnb = 1
  <2>1. e \in Entry(D)
    BY DEF Entry
  <2> QED BY <2>1, IdsOfEntry, PartsOfEntry DEF Simple
<1>2. Consecutive(e)
  BY <1>1 DEF Consecutive
<1>3. e.id \in DOMAIN D /\ D[e.id].queue = e.queue /\ D[e.id].offset = e.offset
      /\ D[e.id].len = e.len
  BY DEF Simple
<1>4. ASSUME NEW r \in S \ IdSet(e), D[r].queue = e.queue PROVE Beside(D[r], e)
  <2>1. Beside(D[r], D[e.id])
    BY <1>1, <1>3, <1>4 DEF NoOverlap
  <2> QED BY <1>3, <2>1 DEF Beside, End
<1> QED BY <1>2, <1>4 DEF Solid, Clear

\* An extent that is beside two others that touch is beside both together.
LEMMA BesideBoth ==
  ASSUME NEW a, NEW b, NEW v, NEW x,
         a.offset \in Nat, End(a) \in Nat, b.offset \in Nat, End(b) \in Nat,
         x.offset \in Nat, End(x) \in Nat,
         a.offset < b.offset, End(a) = b.offset, v.offset = a.offset, End(v) = End(b),
         Beside(x, a), Beside(x, b)
  PROVE  Beside(x, v)
BY DEF Beside

\* A request that touches an entry of this kind extends it at one end: the part
\* that is missing in the middle was cancelled, and no other request lies there.
LEMMA IncludeSolid ==
  ASSUME NEW D, IsData(D), NoOverlap(D), NEW S \in SUBSET DOMAIN D,
         NEW req \in Simple(D), NEW agg \in Entry(D), req.queue = agg.queue,
         OneEach(agg), req.id \in S \ IdSet(agg), Solid(D, S, agg),
         CHECK_AGGREGATE(req, agg) \/ CHECK_AGGREGATE(agg, req)
  PROVE  Solid(D, S, include_in_aggregation(req, agg))
<1> DEFINE v == include_in_aggregation(req, agg)
<1>1. /\ IdSet(v) = IdSet(agg) \cup {req.id} /\ v.queue = agg.queue
      /\ v.offset = IF req.offset <= agg.offset THEN req.offset ELSE agg.offset
  BY IncludeIds, IncludeExtent
<1>2. /\ v.reqnb = agg.reqnb + 1
      /\ req.offset <= agg.offset =>
           /\ Parts(v)[1] = req
           /\ \A k \in 1 .. agg.reqnb : Parts(v)[k + 1] = Parts(agg)[k]
           /\ End(v) = End(agg)
      /\ ~ (req.offset <= agg.offset) =>
           /\ \A k \in 1 .. agg.reqnb : Parts(v)[k] = Parts(agg)[k]
           /\ Parts(v)[agg.reqnb + 1] = req
           /\ End(v) = End(req)
  BY IncludeParts
<1> HIDE DEF v
<1>3. /\ req.offset \in Nat /\ End(req) \in Nat /\ req.offset <= End(req)
      /\ D[req.id].queue = req.queue /\ D[req.id].offset = req.offset /\ D[req.id].len = req.len
  BY DEF Simple, End
<1>4. /\ agg.offset \in Nat /\ End(agg) \in Nat /\ agg.reqnb \in Nat \ {0} /\ agg.offset <= End(agg)
  BY OffsetsOfEntry, PartsOfEntry DEF End
<1>5. Beside(req, agg)
  <2>1. Beside(D[req.id], agg)
    BY <1>3 DEF Solid, Clear
  <2> QED BY <1>3, <2>1 DEF Beside, End
<1>6. \/ req.offset < agg.offset /\ End(req) = agg.offset
      \/ agg.offset < req.offset /\ End(agg) = req.offset
  BY <1>3, <1>4, <1>5 DEF Beside, CHECK_AGGREGATE
<1>7. \A k \in 1 .. agg.reqnb : /\ agg.offset <= Parts(agg)[k].offset
                                /\ End(Parts(agg)[k]) <= End(agg)
                                /\ Parts(agg)[k].offset \in Nat /\ End(Parts(agg)[k]) \in Nat
  BY PartOfEntry, RowSpans DEF Solid
<1>8. \A j, k \in 1 .. agg.reqnb : j < k => End(Parts(agg)[j]) <= Parts(agg)[k].offset
  BY DEF Solid, Consecutive
<1>9. /\ Parts(agg)[1].offset = agg.offset /\ End(Parts(agg)[agg.reqnb]) = End(agg)
  BY DEF Solid, Consecutive
<1>10. Consecutive(v)
  <2>1. CASE req.offset < agg.offset
    <3>1. /\ Parts(v)[1] = req /\ End(v) = End(agg) /\ v.offset = req.offset
          /\ \A k \in 1 .. agg.reqnb : Parts(v)[k + 1] = Parts(agg)[k]
      BY <1>1, <1>2, <1>3, <1>4, <2>1
    <3>2. End(Parts(v)[v.reqnb]) = End(v)
      BY <1>2, <1>4, <1>9, <3>1
    <3>3. ASSUME NEW j \in 1 .. v.reqnb, NEW k \in 1 .. v.reqnb, j < k
          PROVE  End(Parts(v)[j]) <= Parts(v)[k].offset
      <4>1. k - 1 \in 1 .. agg.reqnb /\ Parts(v)[k] = Parts(agg)[k - 1]
        <5>1. k - 1 \in 1 .. agg.reqnb /\ (k - 1) + 1 = k
          BY <1>2, <1>4, <3>3
        <5> QED BY <3>1, <5>1
      <4>2. CASE j = 1
        BY <1>3, <1>4, <1>6, <1>7, <2>1, <3>1, <4>1, <4>2
      <4>3. CASE j # 1
        <5>1. j - 1 \in 1 .. agg.reqnb /\ (j - 1) + 1 = j /\ j - 1 < k - 1
          BY <1>2, <1>4, <3>3, <4>3
        <5>2. Parts(v)[j] = Parts(agg)[j - 1]
          BY <3>1, <5>1
        <5> QED BY <1>8, <4>1, <5>1, <5>2
      <4> QED BY <4>2, <4>3
    <3>4. Parts(v)[1].offset = v.offset
      BY <3>1
    <3> QED BY <3>2, <3>3, <3>4 DEF Consecutive
  <2>2. CASE agg.offset < req.offset
    <3>1. /\ Parts(v)[agg.reqnb + 1] = req /\ End(v) = End(req) /\ v.offset = agg.offset
          /\ \A k \in 1 .. agg.reqnb : Parts(v)[k] = Parts(agg)[k]
      BY <1>1, <1>2, <1>3, <1>4, <2>2
    <3>2. End(Parts(v)[v.reqnb]) = End(v)
      BY <1>2, <3>1
    <3>3. ASSUME NEW j \in 1 .. v.reqnb, NEW k \in 1 .. v.reqnb, j < k
          PROVE  End(Parts(v)[j]) <= Parts(v)[k].offset
      <4>1. j \in 1 .. agg.reqnb /\ Parts(v)[j] = Parts(agg)[j]
        <5>1. j \in 1 .. agg.reqnb
          BY <1>2, <1>4, <3>3
        <5> QED BY <3>1, <5>1
      <4>2. CASE k = agg.reqnb + 1
        BY <1>3, <1>4, <1>6, <1>7, <2>2, <3>1, <4>1, <4>2
      <4>3. CASE k # agg.reqnb + 1
        <5>1. k \in 1 .. agg.reqnb
          BY <1>2, <1>4, <3>3, <4>3
        <5> QED BY <1>8, <3>1, <3>3, <4>1, <5>1
      <4> QED BY <4>2, <4>3
    <3>4. Parts(v)[1].offset = v.offset
      <4>1. 1 \in 1 .. agg.reqnb
        BY <1>4
      <4> QED BY <1>9, <3>1, <4>1
    <3> QED BY <3>2, <3>3, <3>4 DEF Consecutive
  <2> QED BY <1>6, <2>1, <2>2
<1>11. ASSUME NEW r \in S \ IdSet(v), D[r].queue = v.queue PROVE Beside(D[r], v)
  <2>1. r \in S \ IdSet(agg) /\ r # req.id /\ r \in DOMAIN D /\ D[r].queue = agg.queue
    BY <1>1, <1>11
  <2>2. Beside(D[r], agg)
    BY <2>1 DEF Solid, Clear
  <2>3. Beside(D[r], req)
    <3>1. Beside(D[r], D[req.id])
      BY <1>3, <2>1 DEF NoOverlap
    <3> QED BY <1>3, <3>1 DEF Beside, End
  <2>4. D[r].offset \in Nat /\ End(D[r]) \in Nat
    BY <2>1 DEF IsData, End
  <2>5. CASE req.offset < agg.offset
    <3>1. v.offset = req.offset /\ End(v) = End(agg) /\ End(req) = agg.offset
      BY <1>1, <1>2, <1>3, <1>4, <1>6, <2>5
    <3> QED BY <1>3, <1>4, <2>2, <2>3, <2>4, <2>5, <3>1, BesideBoth
  <2>6. CASE agg.offset < req.offset
    <3>1. v.offset = agg.offset /\ End(v) = End(req) /\ End(agg) = req.offset
      BY <1>1, <1>2, <1>3, <1>4, <1>6, <2>6
    <3> QED BY <1>3, <1>4, <2>2, <2>3, <2>4, <2>6, <3>1, BesideBoth
  <2> QED BY <1>6, <2>5, <2>6
<1>12. Solid(D, S, v)
  BY <1>10, <1>11 DEF Solid, Clear
<1> QED BY <1>12 DEF v

\* Nor do two of them that touch and are joined leave room for another request.
LEMMA JoinSolid ==
  ASSUME NEW D, IsData(D), NEW S \in SUBSET DOMAIN D, NEW head \in Entry(D), NEW tail \in Entry(D),
         tail.queue = head.queue, OneEach(head), OneEach(tail),
         IdSet(head) \cap IdSet(tail) = {}, IdSet(tail) \in SUBSET S,
         CHECK_AGGREGATE(head, tail), Solid(D, S, head), Solid(D, S, tail)
  PROVE  Solid(D, S, join_aggregations(head, tail))
<1> DEFINE v == join_aggregations(head, tail)
           h == Parts(head)
           t == Parts(tail)
<1>1. /\ head.offset \in Nat /\ End(head) \in Nat /\ tail.offset \in Nat /\ End(tail) \in Nat
      /\ head.reqnb \in Nat \ {0} /\ tail.reqnb \in Nat \ {0}
  BY OffsetsOfEntry, PartsOfEntry DEF End
<1>2. \A k \in 1 .. head.reqnb : /\ head.offset <= h[k].offset /\ End(h[k]) <= End(head)
                                 /\ h[k].offset \in Nat /\ End(h[k]) \in Nat
  BY PartOfEntry, RowSpans DEF Solid
<1>3. \A k \in 1 .. tail.reqnb : /\ tail.offset <= t[k].offset /\ End(t[k]) <= End(tail)
                                 /\ t[k].offset \in Nat /\ End(t[k]) \in Nat
  BY PartOfEntry, RowSpans DEF Solid
<1>4. head.offset < tail.offset /\ End(head) = tail.offset
  <2>1. 1 \in 1 .. tail.reqnb /\ t[1].offset = tail.offset
    BY <1>1 DEF Solid, Consecutive
  <2>2. /\ t[1].id \in IdSet(tail) /\ t[1].id \in DOMAIN D /\ D[t[1].id].queue = tail.queue
        /\ D[t[1].id].offset = t[1].offset /\ End(D[t[1].id]) = End(t[1])
    BY <2>1, PartOfEntry
  <2>3. Beside(D[t[1].id], head)
    BY <2>2 DEF Solid, Clear
  <2> QED BY <1>1, <2>1, <2>2, <2>3 DEF Beside, CHECK_AGGREGATE
<1>5. /\ v \in Entry(D) /\ v.queue = head.queue /\ v.offset = head.offset
      /\ v.reqnb = head.reqnb + tail.reqnb /\ IdSet(v) = IdSet(head) \cup IdSet(tail)
      /\ InARow(v, head, t, tail.reqnb)
  <2>1. head.offset <= tail.offset
    BY <1>1, <1>4
  <2> QED BY <1>4, <2>1, JoinIds
<1> HIDE DEF v
<1>6. /\ \A k \in 1 .. head.reqnb : Parts(v)[k] = h[k]
      /\ \A k \in 1 .. tail.reqnb : Parts(v)[head.reqnb + k] = t[k]
      /\ End(v) = End(t[tail.reqnb])
  BY <1>1, <1>5 DEF InARow
<1>7. /\ \A j, k \in 1 .. head.reqnb : j < k => End(h[j]) <= h[k].offset
      /\ h[1].offset = head.offset
      /\ \A j, k \in 1 .. tail.reqnb : j < k => End(t[j]) <= t[k].offset
      /\ End(t[tail.reqnb]) = End(tail)
  BY DEF Solid, Consecutive
<1> HIDE DEF h, t
<1>8. Consecutive(v)
  <2>1. Parts(v)[1].offset = v.offset
    <3>1. 1 \in 1 .. head.reqnb
      BY <1>1
    <3> QED BY <1>5, <1>6, <1>7, <3>1
  <2>2. End(Parts(v)[v.reqnb]) = End(v)
    <3>1. tail.reqnb \in 1 .. tail.reqnb
      BY <1>1
    <3> QED BY <1>5, <1>6, <3>1
  <2>3. ASSUME NEW j \in 1 .. v.reqnb, NEW k \in 1 .. v.reqnb, j < k
        PROVE  End(Parts(v)[j]) <= Parts(v)[k].offset
    <3>1. CASE k <= head.reqnb
      <4>1. j \in 1 .. head.reqnb /\ k \in 1 .. head.reqnb
        BY <1>1, <2>3, <3>1
      <4> QED BY <1>6, <1>7, <2>3, <4>1
    <3>2. CASE j <= head.reqnb /\ k > head.reqnb
      <4>1. j \in 1 .. head.reqnb /\ k - head.reqnb \in 1 .. tail.reqnb
            /\ head.reqnb + (k - head.reqnb) = k
        BY <1>1, <1>5, <2>3, <3>2
      <4>2. Parts(v)[j] = h[j] /\ Parts(v)[k] = t[k - head.reqnb]
        BY <1>6, <4>1
      <4> QED BY <1>1, <1>2, <1>3, <1>4, <4>1, <4>2
    <3>3. CASE j > head.reqnb
      <4>1. /\ j - head.reqnb \in 1 .. tail.reqnb /\ head.reqnb + (j - head.reqnb) = j
            /\ k - head.reqnb \in 1 .. tail.reqnb /\ head.reqnb + (k - head.reqnb) = k
            /\ j - head.reqnb < k - head.reqnb
        BY <1>1, <1>5, <2>3, <3>3
      <4>2. Parts(v)[j] = t[j - head.reqnb] /\ Parts(v)[k] = t[k - head.reqnb]
        BY <1>6, <4>1
      <4> QED BY <1>7, <4>1, <4>2
    <3> QED BY <1>1, <1>5, <3>1, <3>2, <3>3
  <2> QED BY <2>1, <2>2, <2>3 DEF Consecutive
<1>9. ASSUME NEW r \in S \ IdSet(v), D[r].queue = v.queue PROVE Beside(D[r], v)
  <2>1. Beside(D[r], head) /\ Beside(D[r], tail)
    BY <1>5, <1>9 DEF Solid, Clear
  <2>2. D[r].offset \in Nat /\ End(D[r]) \in Nat
    BY DEF IsData, End
  <2>3. v.offset = head.offset /\ End(v) = End(tail)
    BY <1>5, <1>6, <1>7
  <2> QED BY <1>1, <1>4, <2>1, <2>2, <2>3, BesideBoth
<1>10. Solid(D, S, v)
  BY <1>8, <1>9 DEF Solid, Clear
<1> QED BY <1>10 DEF v

\* So an insertion leaves room for no request in an entry but for those in it.
LEMMA BuiltSolid ==
  ASSUME NEW D, IsData(D), NoOverlap(D), NEW S \in SUBSET DOMAIN D,
         NEW req \in Simple(D), NEW list \in Seq(Entry(D)), NoneTwice(list),
         Members(list) \in SUBSET S, req.id \in S \ Members(list),
         NEW new, Built(req, list, new), SolidIn(D, S, list)
  PROVE  SolidIn(D, S, new)
<1> SUFFICES ASSUME NEW j \in DOMAIN new PROVE Solid(D, S, new[j])
  BY DEF SolidIn
<1>1. \A a \in DOMAIN list : /\ list[a] \in Entry(D) /\ OneEach(list[a]) /\ Solid(D, S, list[a])
                             /\ IdSet(list[a]) \in SUBSET S /\ req.id \in S \ IdSet(list[a])
  BY ElementOfSeq, LenProperties DEF NoneTwice, Members, SolidIn
<1>2. CASE new[j] = req
  BY <1>2, SimpleSolid
<1>3. ASSUME NEW a \in DOMAIN list, list[a].queue = req.queue,
             CHECK_AGGREGATE(req, list[a]) \/ CHECK_AGGREGATE(list[a], req)
      PROVE  Solid(D, S, include_in_aggregation(req, list[a]))
  BY <1>1, <1>3, IncludeSolid
<1>4. ASSUME NEW a \in DOMAIN list, NEW b \in DOMAIN list, a # b,
             list[a].queue = req.queue, list[b].queue = req.queue, CHECK_AGGREGATE(list[a], req),
             CHECK_AGGREGATE(include_in_aggregation(req, list[a]), list[b])
      PROVE  Solid(D, S, join_aggregations(include_in_aggregation(req, list[a]), list[b]))
  <2> DEFINE merged == include_in_aggregation(req, list[a])
  <2>1. merged \in Entry(D) /\ Solid(D, S, merged) /\ merged.queue = req.queue
    BY <1>1, <1>3, <1>4, IncludeParts, IncludeExtent
  <2>2. OneEach(merged) /\ IdSet(merged) = IdSet(list[a]) \cup {req.id}
    BY <1>1, <1>4, IncludeIds
  <2>3. IdSet(merged) \cap IdSet(list[b]) = {}
    BY <1>1, <1>4, <2>2 DEF NoneTwice
  <2> HIDE DEF merged
  <2>4. Solid(D, S, join_aggregations(merged, list[b]))
    BY <1>1, <1>4, <2>1, <2>2, <2>3, JoinSolid DEF merged
  <2> QED BY <2>4 DEF merged
<1> QED BY <1>1, <1>2, <1>3, <1>4 DEF Built, MadeOf

-----------------------------------------------------------------------------
(* Cancellation.                                                           *)

\* The parts of an entry, seen as a list.
LEMMA PartsAsList ==
  ASSUME NEW D, NEW e \in Entry(D), OneEach(e)
  PROVE  NoneTwice(Parts(e)) /\ Members(Parts(e)) = IdSet(e)
<1> DEFINE s == Parts(e)
<1>1. \A k \in DOMAIN s : s[k] \in Simple(D)
  <2>1. s \in Seq(Simple(D))
    BY PartsOfEntry
  <2> HIDE DEF s
  <2>2. DOMAIN s = 1 .. Len(s)
    BY <2>1, LenProperties
  <2> QED BY <2>1, <2>2, ElementOfSeq
<1>2. IdSet(e) = {s[k].id : k \in DOMAIN s}
  BY IdsOfEntry
<1>3. \A k, m \in DOMAIN s : s[k].id = s[m].id => k = m
  BY DEF OneEach
<1> HIDE DEF s
<1>4. \A k \in DOMAIN s : IdSet(s[k]) = {s[k].id} /\ OneEach(s[k])
  <2> SUFFICES ASSUME NEW k \in DOMAIN s PROVE IdSet(s[k]) = {s[k].id} /\ OneEach(s[k])
    OBVIOUS
  <2>1. s[k] \in Simple(D) /\ s[k] \in Entry(D)
    BY <1>1 DEF Entry
  <2> QED BY <2>1, IdsOfEntry
<1>5. NoneTwice(s)
  BY <1>3, <1>4 DEF NoneTwice
<1>6. Members(s) = IdSet(e)
  BY <1>2, <1>4 DEF Members
<1> QED BY <1>5, <1>6 DEF s

\* A virtual request that is left with fewer parts, of its queue, is one.
LEMMA ShrunkIsEntry ==
  ASSUME NEW D, IsData(D), NEW v \in Virtual(D), v.reqnb > 2,
         NEW subs \in Seq(Simple(D)), Len(subs) = v.reqnb - 1,
         \A k \in 1 .. Len(subs) : subs[k].queue = v.queue
  PROVE  /\ Shrunk(v, subs) \in Virtual(D) /\ Shrunk(v, subs).subs = subs
         /\ Shrunk(v, subs).queue = v.queue
         /\ Shrunk(v, subs).reqnb = v.reqnb - 1
         /\ \A k \in 1 .. Len(subs) : /\ Shrunk(v, subs).offset <= subs[k].offset
                                      /\ End(subs[k]) <= End(Shrunk(v, subs))
         /\ \E k \in 1 .. Len(subs) : Shrunk(v, subs).offset = subs[k].offset
         /\ \E k \in 1 .. Len(subs) : End(Shrunk(v, subs)) = End(subs[k])
<1> DEFINE froms  == {subs[i].offset : i \in DOMAIN subs}
           tos    == {End(subs[i]) : i \in DOMAIN subs}
           stamps == {subs[i].timestamp : i \in DOMAIN subs}
           from   == CHOOSE o \in froms : \A i \in DOMAIN subs : o <= subs[i].offset
           to     == CHOOSE e \in tos : \A i \in DOMAIN subs : e >= End(subs[i])
           eldest == CHOOSE t \in stamps : \A i \in DOMAIN subs : t <= subs[i].timestamp
           w == Shrunk(v, subs)
           n == Len(subs)
<1>1. w = [v EXCEPT !.subs = subs, !.reqnb = v.reqnb - 1, !.timestamp = eldest,
                    !.offset = from, !.len = to - from]
  BY DEF Shrunk
<1>2. /\ v.reqnb \in Nat /\ v.id = NoId /\ v.queue \in QueuesOf(D) /\ v.sched_factor \in Int
      /\ DOMAIN v = {"id", "queue", "offset", "len", "timestamp", "sched_factor", "reqnb", "subs"}
  BY DEF Virtual
<1>3. n \in Nat /\ n > 1 /\ 1 \in 1 .. n
  BY <1>2
<1>4. DOMAIN subs = 1 .. n
  BY LenProperties
<1>5. \A k \in 1 .. n : subs[k] \in Simple(D)
  BY ElementOfSeq
<1>6. \A k \in 1 .. n : /\ subs[k].offset \in Nat /\ End(subs[k]) \in Nat
                        /\ subs[k].offset <= End(subs[k]) /\ subs[k].timestamp \in Nat
  <2> SUFFICES ASSUME NEW p \in Simple(D)
               PROVE  /\ p.offset \in Nat /\ End(p) \in Nat
                      /\ p.offset <= End(p) /\ p.timestamp \in Nat
    BY <1>5
  <2>1. p.offset \in Nat /\ p.len \in Nat /\ p.timestamp \in Nat
    BY DEF Simple
  <2> QED BY <2>1 DEF End
<1> HIDE DEF n, w
<1>7. /\ from \in Nat /\ \A k \in 1 .. n : from <= subs[k].offset
      /\ \E k \in 1 .. n : from = subs[k].offset
  <2>1. froms \in SUBSET Nat /\ froms # {}
    BY <1>3, <1>4, <1>6
  <2>2. \E o \in froms : \A i \in DOMAIN subs : o <= subs[i].offset
    <3>1. PICK o \in froms : \A k \in froms : o <= k
      <4> HIDE DEF froms
      <4> QED BY <2>1, LeastNat
    <3> QED BY <3>1
  <2>3. from \in froms /\ \A i \in DOMAIN subs : from <= subs[i].offset
    BY <2>2
  <2> QED BY <1>4, <2>1, <2>3
<1>8. eldest \in Nat
  <2>1. stamps \in SUBSET Nat /\ stamps # {}
    BY <1>3, <1>4, <1>6
  <2>2. \E o \in stamps : \A i \in DOMAIN subs : o <= subs[i].timestamp
    <3>1. PICK o \in stamps : \A k \in stamps : o <= k
      <4> HIDE DEF stamps
      <4> QED BY <2>1, LeastNat
    <3> QED BY <3>1
  <2>3. eldest \in stamps
    BY <2>2
  <2> QED BY <2>1, <2>3
<1>9. /\ to \in Nat /\ \A k \in 1 .. n : to >= End(subs[k])
      /\ \E k \in 1 .. n : to = End(subs[k])
  <2>1. tos \in SUBSET Nat /\ tos # {}
    BY <1>3, <1>4, <1>6
  <2>2. PICK b \in Nat : \A k \in 1 .. n : End(subs[k]) <= b
    <3> DEFINE f == [k \in 1 .. n |-> End(subs[k])]
    <3>1. f \in [1 .. n -> Nat] /\ \A k \in 1 .. n : f[k] = End(subs[k])
      BY <1>6
    <3> HIDE DEF f
    <3>2. \E b \in Nat : \A k \in 1 .. n : f[k] <= b
      BY <1>3, <3>1, ValuesBounded
    <3> QED BY <3>1, <3>2
  <2>3. \A k \in tos : k <= b
    BY <1>4, <2>2
  <2>4. \E o \in tos : \A k \in tos : k <= o
    <3> HIDE DEF tos
    <3> QED BY <2>1, <2>3, GreatestNat
  <2>5. \E o \in tos : \A i \in DOMAIN subs : o >= End(subs[i])
    <3>1. PICK o \in tos : \A k \in tos : k <= o
      BY <2>4
    <3>2. \A i \in DOMAIN subs : End(subs[i]) \in tos
      OBVIOUS
    <3>3. \A i \in DOMAIN subs : o >= End(subs[i])
      <4> HIDE DEF tos
      <4> QED BY <1>4, <1>6, <2>1, <3>1, <3>2
    <3> QED BY <3>3
  <2>6. to \in tos /\ \A i \in DOMAIN subs : to >= End(subs[i])
    BY <2>5
  <2> QED BY <1>4, <2>1, <2>6
<1> HIDE DEF from, to, eldest
<1>10. to - from \in Nat
  BY SMTT(60), <1>3, <1>6, <1>7, <1>9
<1>11. /\ DOMAIN w = DOMAIN v /\ w.id = v.id /\ w.queue = v.queue
       /\ w.sched_factor = v.sched_factor /\ w.subs = subs /\ w.reqnb = v.reqnb - 1
       /\ w.timestamp = eldest /\ w.offset = from /\ w.len = to - from
  BY <1>1, <1>2
<1>12. w = [k \in DOMAIN w |-> w[k]]
  BY <1>1
<1>13. w \in [id : {NoId}, queue : QueuesOf(D), offset : Nat, len : Nat, timestamp : Nat,
              sched_factor : Int, reqnb : Nat, subs : Seq(Simple(D))]
  <2>1. v.reqnb - 1 \in Nat
    BY <1>2
  <2> QED BY <1>2, <1>7, <1>8, <1>10, <1>11, <1>12, <2>1
<1>14. /\ w.reqnb > 1 /\ Len(w.subs) = w.reqnb
       /\ \A k \in 1 .. Len(w.subs) : w.subs[k].queue = w.queue /\ w.offset <= w.subs[k].offset
  BY <1>2, <1>7, <1>11 DEF n
<1>15. w \in Virtual(D)
  BY <1>13, <1>14 DEF Virtual
<1>16. End(w) = to
  BY <1>7, <1>9, <1>11 DEF End
<1>17. \A k \in 1 .. n : w.offset <= subs[k].offset /\ End(subs[k]) <= End(w)
  BY <1>6, <1>7, <1>9, <1>11, <1>16
<1> QED BY <1>7, <1>9, <1>11, <1>15, <1>16, <1>17 DEF w, n

\* What takes the place of a virtual request in a list when its part k is cancelled.
Lessened(v, k) ==
  LET rest == RemoveAt(v.subs, k) IN IF v.reqnb = 2 THEN rest[1] ELSE Shrunk(v, rest)

\* One part of a virtual request leaves it: what takes its place in the list has the
\* other parts, each once.  Left alone, the other one is a simple request again.
LEMMA PartLeaves ==
  ASSUME NEW D, IsData(D), NEW v \in Virtual(D), OneEach(v), NEW k \in 1 .. Len(v.subs)
  PROVE  LET e == Lessened(v, k)
         IN  /\ e \in Entry(D) /\ e.queue = v.queue /\ e.reqnb = v.reqnb - 1
             /\ OneEach(e)
             /\ IdSet(e) = IdSet(v) \ {v.subs[k].id}
<1> DEFINE s    == v.subs
           rest == RemoveAt(s, k)
           e    == IF v.reqnb = 2 THEN rest[1] ELSE Shrunk(v, rest)
<1>1. /\ v \in Entry(D) /\ Parts(v) = s /\ s \in Seq(Simple(D)) /\ Len(s) = v.reqnb
      /\ v.reqnb \in Nat /\ v.reqnb > 1
      /\ \A m \in 1 .. Len(s) : s[m].queue = v.queue
  <2>1. v \in Entry(D)
    BY DEF Entry
  <2> QED BY <2>1, PartsOfEntry DEF Virtual
<1>2. NoneTwice(s) /\ Members(s) = IdSet(v)
  BY <1>1, PartsAsList
<1> HIDE DEF s
<1>3. k \in 1 .. Len(s)
  BY DEF s
<1>4. s[k] \in Simple(D) /\ IdSet(s[k]) = {s[k].id}
  <2>1. s[k] \in Simple(D)
    BY <1>1, <1>3, ElementOfSeq
  <2> QED BY <2>1, IdsOfEntry DEF Entry
<1>5. /\ rest \in Seq(Simple(D)) /\ NoneTwice(rest)
      /\ Members(rest) = IdSet(v) \ {s[k].id}
  BY <1>1, <1>2, <1>3, <1>4, WithoutEntry
<1>6. /\ Len(rest) = Len(s) - 1
      /\ \A j \in 1 .. Len(s) - 1 : rest[j] = IF j < k THEN s[j] ELSE s[j + 1]
  BY <1>1, <1>3, RemoveAtProperties
<1>7. \A j \in 1 .. Len(rest) : rest[j].queue = v.queue
  <2> SUFFICES ASSUME NEW j \in 1 .. Len(rest) PROVE rest[j].queue = v.queue
    OBVIOUS
  <2> HIDE DEF rest
  <2>1. j \in 1 .. Len(s) /\ j + 1 \in 1 .. Len(s) /\ j \in 1 .. Len(s) - 1
    BY <1>1, <1>6
  <2> QED BY <1>1, <1>6, <2>1
<1> HIDE DEF rest
<1>8. CASE v.reqnb = 2
  <2>1. e = rest[1] /\ Len(rest) = 1 /\ 1 \in 1 .. Len(rest)
    BY <1>1, <1>6, <1>8
  <2>2. DOMAIN rest = {1}
    <3>1. DOMAIN rest = 1 .. Len(rest)
      BY <1>5, LenProperties
    <3> QED BY <2>1, <3>1
  <2> HIDE DEF e
  <2>3. e \in Simple(D) /\ e.queue = v.queue
    <3>1. rest[1] \in Simple(D)
      BY <1>5, <2>1, ElementOfSeq
    <3>2. rest[1].queue = v.queue
      BY <1>7, <2>1
    <3> QED BY <2>1, <3>1, <3>2
  <2>4. e \in Entry(D) /\ e.reqnb = 1
    BY <2>3 DEF Entry, Simple
  <2>5. OneEach(e)
    BY <2>3, <2>4, IdsOfEntry
  <2>6. Members(rest) = IdSet(e)
    BY <2>1, <2>2 DEF Members
  <2> QED BY <1>5, <1>8, <2>3, <2>4, <2>5, <2>6 DEF e, rest, s, Lessened
<1>9. CASE v.reqnb # 2
  <2>1. v.reqnb > 2 /\ Len(rest) = v.reqnb - 1
    BY <1>1, <1>6, <1>9
  <2>2. e = Shrunk(v, rest)
    BY <1>9
  <2> HIDE DEF e
  <2>3. /\ e \in Virtual(D) /\ e.subs = rest /\ e.queue = v.queue /\ e.reqnb = v.reqnb - 1
    BY <1>5, <1>7, <2>1, <2>2, ShrunkIsEntry
  <2>4. e \in Entry(D)
    BY <2>3 DEF Entry
  <2>5. Parts(e) = rest
    BY <2>3, <2>4, PartsOfEntry
  <2>6. \A j \in DOMAIN rest : rest[j] \in Simple(D)
    <3>1. DOMAIN rest = 1 .. Len(rest)
      BY <1>5, LenProperties
    <3> QED BY <1>5, <3>1, ElementOfSeq
  <2>7. \A j \in DOMAIN rest : IdSet(rest[j]) = {rest[j].id}
    BY <2>6, IdsOfEntry DEF Entry
  <2>8. OneEach(e)
    <3>1. \A j, m \in DOMAIN rest : j # m => IdSet(rest[j]) \cap IdSet(rest[m]) = {}
      BY <1>5 DEF NoneTwice
    <3>2. \A j, m \in DOMAIN rest : rest[j].id = rest[m].id => j = m
      BY <2>7, <3>1
    <3> QED BY <2>5, <3>2 DEF OneEach
  <2>9. IdSet(e) = {rest[j].id : j \in DOMAIN rest}
    BY <2>4, <2>5, IdsOfEntry
  <2>10. Members(rest) = {rest[j].id : j \in DOMAIN rest}
    BY <2>7 DEF Members
  <2> QED BY <1>5, <2>3, <2>4, <2>8, <2>9, <2>10 DEF e, rest, s, Lessened
<1> QED BY <1>8, <1>9

\* What the search finds: the entry is, or one of its parts is, what was named.
LEMMA FoundEntry ==
  ASSUME NEW D, NEW list \in Seq(Entry(D)), NEW offset, NEW len,
         FindEntry(list, offset, len) # 0
  PROVE  LET i == FindEntry(list, offset, len)
         IN  /\ i \in 1 .. Len(list)
             /\ list[i].reqnb = 1 => Same(list[i], offset, len)
             /\ list[i].reqnb # 1 => \E k \in DOMAIN list[i].subs : Same(list[i].subs[k], offset, len)
<1> DEFINE Found(req) == IF req.reqnb = 1 THEN Same(req, offset, len)
                         ELSE /\ CouldHold(req, offset, len)
                              /\ \E k \in DOMAIN req.subs : Same(req.subs[k], offset, len)
           Good == {j \in 1 .. Len(list) : Found(list[j])}
           i    == FindEntry(list, offset, len)
<1>1. i = IF Good # {} THEN Min(Good) ELSE 0
  BY DEF FindEntry, SelectInSeq
<1>2. Good # {} /\ i = Min(Good)
  BY <1>1
<1>3. Good \in SUBSET Nat
  OBVIOUS
<1>4. i \in Good
  <2> HIDE DEF Good, i
  <2> QED BY <1>2, <1>3, MinNat
<1> HIDE DEF i
<1> QED BY <1>4 DEF i

\* What holds of a list holds after a cancellation; the request that leaves has the
\* extent that was named and is of the queue of the entry found.  E: the entries of
\* the list are of any queue, or all of one.
LEMMA CancelLeaves ==
  ASSUME NEW D, IsData(D), NEW E \in SUBSET Entry(D),
         \A a \in E : \A b \in Entry(D) : b.queue = a.queue => b \in E,
         NEW list \in Seq(E), NoneTwice(list), NEW offset, NEW len,
         FindEntry(list, offset, len) # 0
  PROVE  LET i    == FindEntry(list, offset, len)
             gone == Cancelled(list, i, offset, len)
             left == CancelEntry(list, i, offset, len)
         IN  /\ i \in 1 .. Len(list) /\ i \in DOMAIN list /\ list[i] \in E
             /\ gone \in Simple(D) /\ gone.offset = offset /\ gone.len = len
             /\ gone.queue = list[i].queue
             /\ gone.id \in Members(list)
             /\ left \in Seq(E) /\ NoneTwice(left)
             /\ Members(left) = Members(list) \ {gone.id}
             /\ \A max \in Nat : NoneOver(list, max) => NoneOver(left, max)
<1> DEFINE i    == FindEntry(list, offset, len)
           gone == Cancelled(list, i, offset, len)
           left == CancelEntry(list, i, offset, len)
           v    == list[i]
<1>1. /\ i \in 1 .. Len(list)
      /\ v.reqnb = 1 => Same(v, offset, len)
      /\ v.reqnb # 1 => \E k \in DOMAIN v.subs : Same(v.subs[k], offset, len)
  <2>1. list \in Seq(Entry(D))
    BY SeqMonotonic
  <2> QED BY <2>1, FoundEntry
<1>2. left = CASE v.reqnb = 1 -> RemoveAt(list, i)
               [] v.reqnb = 2 -> [list EXCEPT ![i] = RemoveAt(v.subs, FindPart(v, offset, len))[1]]
               [] OTHER -> [list EXCEPT ![i] = Shrunk(v, RemoveAt(v.subs, FindPart(v, offset, len)))]
  BY DEF CancelEntry
<1>3. gone = IF v.reqnb = 1 THEN v ELSE v.subs[FindPart(v, offset, len)]
  BY DEF Cancelled
<1> HIDE DEF i, gone, left
<1>4. Len(list) \in Nat
  BY LenProperties
<1>5. DOMAIN list = 1 .. Len(list)
  BY LenProperties
<1>6. i \in DOMAIN list
  BY <1>1, <1>5
<1>7. v \in E /\ v \in Entry(D)
  BY <1>1, ElementOfSeq
<1>8. OneEach(v) /\ IdSet(v) \in SUBSET Members(list)
  BY <1>6 DEF NoneTwice, Members
<1>9. v.reqnb \in Nat
  BY <1>7, PartsOfEntry
<1> HIDE DEF v
<1>10. CASE v.reqnb = 1
  <2>1. v \in Simple(D)
    BY <1>7, <1>10 DEF Entry, Virtual
  <2>2. gone = v /\ left = RemoveAt(list, i) /\ gone.offset = offset /\ gone.len = len
    BY <1>1, <1>2, <1>3, <1>10 DEF Same
  <2>3. IdSet(v) = {gone.id}
    BY <1>7, <2>1, <2>2, IdsOfEntry
  <2>4. left \in Seq(E) /\ NoneTwice(left) /\ Members(left) = Members(list) \ {gone.id}
    BY <1>1, <2>2, <2>3, WithoutEntry DEF v
  <2>5. ASSUME NEW max \in Nat, NoneOver(list, max) PROVE NoneOver(left, max)
    <3>1. /\ Len(left) = Len(list) - 1
          /\ \A j \in 1 .. Len(list) - 1 : left[j] = IF j < i THEN list[j] ELSE list[j + 1]
      BY <1>1, <2>2, RemoveAtProperties
    <3>2. DOMAIN left = 1 .. Len(left)
      BY <2>4, LenProperties
    <3> SUFFICES ASSUME NEW j \in 1 .. Len(left) PROVE left[j].reqnb <= max
      BY <3>2 DEF NoneOver
    <3>3. j \in 1 .. Len(list) /\ j + 1 \in 1 .. Len(list) /\ j \in 1 .. Len(list) - 1
      BY <1>4, <3>1
    <3>4. \A m \in 1 .. Len(list) : list[m].reqnb <= max
      BY <1>5, <2>5 DEF NoneOver
    <3> HIDE DEF i
    <3> QED BY <3>1, <3>3, <3>4
  <2>6. gone.id \in Members(list)
    BY <1>8, <2>3
  <2> QED BY <1>1, <1>6, <1>7, <2>1, <2>2, <2>4, <2>5, <2>6 DEF i, gone, left, v
<1>11. CASE v.reqnb # 1
  <2> DEFINE k    == FindPart(v, offset, len)
             e    == Lessened(v, k)
  <2>1. v \in Virtual(D) /\ v.subs \in Seq(Simple(D))
    BY <1>7, <1>11 DEF Entry, Simple, Virtual
  <2>2. k \in 1 .. Len(v.subs) /\ Same(v.subs[k], offset, len)
    <3> DEFINE Good == {j \in 1 .. Len(v.subs) : Same(v.subs[j], offset, len)}
    <3>1. k = IF Good # {} THEN Min(Good) ELSE 0
      BY DEF FindPart, SelectInSeq
    <3>2. Good # {} /\ Good \in SUBSET Nat
      <4>1. DOMAIN v.subs = 1 .. Len(v.subs)
        BY <2>1, LenProperties
      <4> QED BY <1>1, <1>11, <4>1
    <3>3. k \in Good
      <4> HIDE DEF Good, k
      <4> QED BY <3>1, <3>2, MinNat
    <3> HIDE DEF k
    <3> QED BY <3>3
  <2>3. gone = v.subs[k]
    BY <1>3, <1>11
  <2>4. left = [list EXCEPT ![i] = e]
    BY <1>2, <1>11 DEF Lessened
  <2> HIDE DEF k
  <2>5. /\ e \in Entry(D) /\ e.queue = v.queue /\ e.reqnb = v.reqnb - 1 /\ OneEach(e)
        /\ IdSet(e) = IdSet(v) \ {gone.id}
    BY <1>8, <2>1, <2>2, <2>3, PartLeaves
  <2> HIDE DEF e
  <2>6. /\ gone \in Simple(D) /\ gone.offset = offset /\ gone.len = len /\ gone.queue = v.queue
    <3>1. gone \in Simple(D)
      BY <2>1, <2>2, <2>3, ElementOfSeq
    <3>2. gone.queue = v.queue
      BY <2>1, <2>2, <2>3 DEF Virtual
    <3> QED BY <2>2, <2>3, <3>1, <3>2 DEF Same
  <2>7. gone.id \in IdSet(v)
    <3>1. Parts(v) = v.subs /\ v.subs = Parts(v)
      BY <1>7, <2>1, PartsOfEntry
    <3>2. IdSet(v) = {Parts(v)[m].id : m \in 1 .. Len(Parts(v))}
      BY <1>7, IdsOfEntry
    <3> QED BY <2>2, <2>3, <3>1, <3>2
  <2>8. left \in Seq(E)
    <3>1. e \in E
      BY <1>7, <2>5
    <3> QED BY <1>1, <2>4, <3>1, ExceptSeq
  <2>9. NoneTwice(left) /\ Members(left) = (Members(list) \ IdSet(v)) \cup IdSet(e)
    <3>1. \A j \in DOMAIN list \ {i} : IdSet(list[j]) \cap IdSet(e) = {}
      BY <1>6, <2>5 DEF NoneTwice, v
    <3>2. OneEach(e)
      BY <2>5
    <3> QED BY <1>6, <2>4, <3>1, <3>2, Replaced DEF v
  <2>10. Members(left) = Members(list) \ {gone.id}
    BY <1>8, <2>5, <2>7, <2>9
  <2>11. ASSUME NEW max \in Nat, NoneOver(list, max) PROVE NoneOver(left, max)
    <3> SUFFICES ASSUME NEW j \in DOMAIN left PROVE left[j].reqnb <= max
      BY DEF NoneOver
    <3>1. j \in DOMAIN list /\ left[j] = IF j = i THEN e ELSE list[j]
      BY <2>4
    <3>2. v.reqnb <= max
      BY <1>6, <2>11 DEF NoneOver, v
    <3> QED BY <1>9, <2>5, <2>11, <3>1, <3>2 DEF NoneOver
  <2> QED BY <1>1, <1>6, <1>7, <1>8, <2>6, <2>7, <2>8, <2>9, <2>10, <2>11 DEF i, gone, left, v
<1> QED BY <1>10, <1>11

\* What the entries are after a cancellation: those that were, and what is left of the
\* one that held the request.
LEMMA CancelEntries ==
  ASSUME NEW D, NEW list \in Seq(Entry(D)), NEW offset, NEW len,
         FindEntry(list, offset, len) # 0
  PROVE  LET i    == FindEntry(list, offset, len)
             gone == Cancelled(list, i, offset, len)
             left == CancelEntry(list, i, offset, len)
         IN  \A j \in DOMAIN left :
               \/ \E a \in DOMAIN list : left[j] = list[a]
               \/ \E a \in DOMAIN list : \E k \in 1 .. Len(list[a].subs) :
                    /\ list[a] \in Virtual(D) /\ gone = list[a].subs[k]
                    /\ left[j] = Lessened(list[a], k)
<1> DEFINE i    == FindEntry(list, offset, len)
           v    == list[i]
           gone == Cancelled(list, i, offset, len)
           left == CancelEntry(list, i, offset, len)
<1>1. /\ i \in 1 .. Len(list)
      /\ v.reqnb # 1 => \E k \in DOMAIN v.subs : Same(v.subs[k], offset, len)
  BY FoundEntry
<1>2. left = CASE v.reqnb = 1 -> RemoveAt(list, i)
               [] v.reqnb = 2 -> [list EXCEPT ![i] = RemoveAt(v.subs, FindPart(v, offset, len))[1]]
               [] OTHER -> [list EXCEPT ![i] = Shrunk(v, RemoveAt(v.subs, FindPart(v, offset, len)))]
  BY DEF CancelEntry
<1>3. gone = IF v.reqnb = 1 THEN v ELSE v.subs[FindPart(v, offset, len)]
  BY DEF Cancelled
<1>4. Len(list) \in Nat /\ DOMAIN list = 1 .. Len(list)
  BY LenProperties
<1> HIDE DEF i, gone, left
<1>5. i \in DOMAIN list /\ v \in Entry(D)
  BY <1>1, <1>4, ElementOfSeq
<1>6. CASE v.reqnb = 1
  <2>1. left = RemoveAt(list, i)
    BY <1>2, <1>6
  <2>2. /\ left \in Seq(Entry(D)) /\ Len(left) = Len(list) - 1
        /\ \A j \in 1 .. Len(list) - 1 : left[j] = IF j < i THEN list[j] ELSE list[j + 1]
    BY <1>1, <2>1, RemoveAtProperties
  <2>3. DOMAIN left = 1 .. Len(list) - 1
    BY <2>2, LenProperties
  <2>4. ASSUME NEW j \in DOMAIN left PROVE \E a \in DOMAIN list : left[j] = list[a]
    <3>1. j \in DOMAIN list /\ j + 1 \in DOMAIN list
      BY <1>4, <2>3
    <3> QED BY <2>2, <2>3, <3>1
  <2> QED BY <2>4 DEF i, gone, left
<1>7. CASE v.reqnb # 1
  <2> DEFINE k == FindPart(v, offset, len)
  <2>1. v \in Virtual(D) /\ v.subs \in Seq(Simple(D))
    BY <1>5, <1>7 DEF Entry, Simple, Virtual
  <2>2. k \in 1 .. Len(v.subs)
    <3> DEFINE Good == {j \in 1 .. Len(v.subs) : Same(v.subs[j], offset, len)}
    <3>1. k = IF Good # {} THEN Min(Good) ELSE 0
      BY DEF FindPart, SelectInSeq
    <3>2. Good # {} /\ Good \in SUBSET Nat
      <4>1. DOMAIN v.subs = 1 .. Len(v.subs)
        BY <2>1, LenProperties
      <4> QED BY <1>1, <1>7, <4>1
    <3>3. k \in Good
      <4> HIDE DEF Good, k
      <4> QED BY <3>1, <3>2, MinNat
    <3> HIDE DEF k
    <3> QED BY <3>3
  <2>3. gone = v.subs[k] /\ left = [list EXCEPT ![i] = Lessened(v, k)]
    BY <1>2, <1>3, <1>7 DEF Lessened
  <2> HIDE DEF k
  <2>4. ASSUME NEW j \in DOMAIN left
        PROVE  left[j] = Lessened(v, k) \/ \E a \in DOMAIN list : left[j] = list[a]
    BY <2>3
  <2>5. ASSUME NEW j \in DOMAIN left
        PROVE  \/ \E a \in DOMAIN list : left[j] = list[a]
               \/ \E a \in DOMAIN list : \E m \in 1 .. Len(list[a].subs) :
                    /\ list[a] \in Virtual(D) /\ gone = list[a].subs[m]
                    /\ left[j] = Lessened(list[a], m)
    BY <1>5, <2>1, <2>2, <2>3, <2>4
  <2> QED BY <2>5 DEF i, gone, left
<1> QED BY <1>6, <1>7

\* What is left of an entry lies between what was before it and what was behind it.
LEMMA LessenedSolid ==
  ASSUME NEW D, IsData(D), NoOverlap(D), NEW S \in SUBSET DOMAIN D, NEW v \in Virtual(D),
         OneEach(v), NEW k \in 1 .. Len(v.subs), Solid(D, S, v)
  PROVE  Solid(D, S \ {v.subs[k].id}, Lessened(v, k))
<1> DEFINE s    == v.subs
           rest == RemoveAt(s, k)
           e    == Lessened(v, k)
           id   == s[k].id
<1>1. /\ v \in Entry(D) /\ Parts(v) = s /\ s \in Seq(Simple(D)) /\ Len(s) = v.reqnb
      /\ v.reqnb \in Nat /\ v.reqnb > 1 /\ k \in 1 .. Len(s)
      /\ \A m \in 1 .. Len(s) : s[m].queue = v.queue
  <2>1. v \in Entry(D)
    BY DEF Entry
  <2> QED BY <2>1, PartsOfEntry DEF Virtual
<1>2. e \in Entry(D) /\ e.queue = v.queue /\ e.reqnb = v.reqnb - 1 /\ IdSet(e) = IdSet(v) \ {id}
  BY PartLeaves
<1>3. /\ rest \in Seq(Simple(D)) /\ Len(rest) = v.reqnb - 1
      /\ \A j \in 1 .. v.reqnb - 1 : rest[j] = IF j < k THEN s[j] ELSE s[j + 1]
  <2> HIDE DEF s
  <2>1. /\ rest \in Seq(Simple(D)) /\ Len(rest) = Len(s) - 1
        /\ \A j \in 1 .. Len(s) - 1 : rest[j] = IF j < k THEN s[j] ELSE s[j + 1]
    BY ZenonT(60), <1>1, RemoveAtProperties
  <2> HIDE DEF rest
  <2> QED BY <1>1, <2>1
<1>4. e = IF v.reqnb = 2 THEN rest[1] ELSE Shrunk(v, rest)
  BY DEF Lessened
<1> HIDE DEF s, rest, e, id
<1>5. CASE v.reqnb = 2
  <2>1. e \in Simple(D)
    <3>1. 1 \in 1 .. Len(rest)
      BY <1>3, <1>5
    <3> QED BY <1>3, <1>4, <1>5, <3>1, ElementOfSeq
  <2>2. S \ {id} \in SUBSET DOMAIN D
    OBVIOUS
  <2>3. Solid(D, S \ {id}, e)
    BY <2>1, <2>2, SimpleSolid
  <2> QED BY <2>3 DEF e, id, s
<1>6. CASE v.reqnb # 2
  <2> DEFINE n == v.reqnb - 1
  <2>1. n \in Nat /\ n > 1 /\ v.reqnb > 2 /\ v.reqnb = n + 1
    BY <1>1, <1>6
  <2>2. \A j \in 1 .. n : /\ rest[j].queue = v.queue
                          /\ rest[j] = IF j < k THEN s[j] ELSE s[j + 1]
    <3> SUFFICES ASSUME NEW j \in 1 .. n
                 PROVE  rest[j].queue = v.queue /\ rest[j] = IF j < k THEN s[j] ELSE s[j + 1]
      OBVIOUS
    <3>1. j \in 1 .. Len(s) /\ j + 1 \in 1 .. Len(s)
      BY <1>1, <2>1
    <3> QED BY <1>1, <1>3, <3>1
  <2>3. /\ e \in Virtual(D) /\ e.subs = rest
        /\ \A j \in 1 .. n : e.offset <= rest[j].offset /\ End(rest[j]) <= End(e)
        /\ \E j \in 1 .. n : e.offset = rest[j].offset
        /\ \E j \in 1 .. n : End(e) = End(rest[j])
    <3>1. Len(rest) = n /\ \A j \in 1 .. Len(rest) : rest[j].queue = v.queue
      BY <1>3, <2>2
    <3>2. e = Shrunk(v, rest)
      BY <1>4, <1>6
    <3> HIDE DEF n
    <3>3. Len(rest) = v.reqnb - 1
      BY <1>3
    <3> DEFINE w == Shrunk(v, rest)
    <3>4. /\ w \in Virtual(D) /\ w.subs = rest
          /\ \A j \in 1 .. Len(rest) : w.offset <= rest[j].offset /\ End(rest[j]) <= End(w)
          /\ \E j \in 1 .. Len(rest) : w.offset = rest[j].offset
          /\ \E j \in 1 .. Len(rest) : End(w) = End(rest[j])
      BY SMTT(60), <1>3, <2>1, <3>1, <3>3, ShrunkIsEntry
    <3> QED BY <3>1, <3>2, <3>4
  <2>4. Parts(e) = rest /\ e.reqnb = n
    BY <1>2, <2>3, PartsOfEntry DEF Entry
  <2> HIDE DEF n
  <2>5. /\ \A j, m \in 1 .. v.reqnb : j < m => End(s[j]) <= s[m].offset
        /\ s[1].offset = v.offset /\ End(s[v.reqnb]) = End(v)
    BY <1>1 DEF Solid, Consecutive
  <2>6. \A j, m \in 1 .. n : j < m => End(rest[j]) <= rest[m].offset
    <3> SUFFICES ASSUME NEW j \in 1 .. n, NEW m \in 1 .. n, j < m
                 PROVE  End(rest[j]) <= rest[m].offset
      OBVIOUS
    <3>1. /\ j \in 1 .. v.reqnb /\ j + 1 \in 1 .. v.reqnb
          /\ m \in 1 .. v.reqnb /\ m + 1 \in 1 .. v.reqnb
      BY <2>1
    <3>2. CASE m < k
      BY <1>1, <2>2, <2>5, <3>1, <3>2
    <3>3. CASE j < k /\ ~ (m < k)
      <4>1. rest[j] = s[j] /\ rest[m] = s[m + 1] /\ j < m + 1
        BY <2>2, <3>3
      <4> QED BY <2>5, <3>1, <4>1
    <3>4. CASE ~ (j < k)
      <4>1. rest[j] = s[j + 1] /\ rest[m] = s[m + 1] /\ j + 1 < m + 1
        BY <1>1, <2>2, <3>4
      <4> QED BY <2>5, <3>1, <4>1
    <3> QED BY <3>2, <3>3, <3>4
  <2>7. \A j \in 1 .. n : /\ rest[j].offset \in Nat /\ End(rest[j]) \in Nat
                          /\ rest[j].offset <= End(rest[j])
    BY <1>2, <2>4, PartOfEntry
  <2>8. e.offset \in Nat /\ End(e) \in Nat
    BY <1>2, OffsetsOfEntry DEF End
  <2>9. Consecutive(e)
    <3>1. rest[1].offset = e.offset
      <4>1. PICK j \in 1 .. n : e.offset = rest[j].offset
        BY <2>3
      <4>2. 1 \in 1 .. n /\ (j = 1 \/ 1 < j)
        BY <2>1
      <4> QED BY <2>3, <2>6, <2>7, <4>1, <4>2
    <3>2. End(rest[n]) = End(e)
      <4>1. PICK j \in 1 .. n : End(e) = End(rest[j])
        BY <2>3
      <4>2. n \in 1 .. n /\ (j = n \/ j < n)
        BY <2>1
      <4>3. ASSUME j < n PROVE End(rest[n]) = End(e)
        <5>1. End(rest[j]) <= rest[n].offset /\ rest[n].offset <= End(rest[n])
          BY <2>6, <2>7, <4>2, <4>3
        <5>2. End(rest[n]) <= End(e) /\ End(rest[n]) \in Nat /\ rest[n].offset \in Nat
          BY <2>3, <2>7, <4>2
        <5> QED BY <2>8, <4>1, <5>1, <5>2
      <4> QED BY <4>1, <4>2, <4>3
    <3> QED BY <2>4, <2>6, <3>1, <3>2 DEF Consecutive
  <2>10. ASSUME NEW r \in (S \ {id}) \ IdSet(e), D[r].queue = e.queue PROVE Beside(D[r], e)
    <3>1. r \in S \ IdSet(v) /\ r \in DOMAIN D /\ D[r].queue = v.queue
      BY <1>2, <2>10
    <3>2. Beside(D[r], v)
      BY <3>1 DEF Solid, Clear
    <3>3. D[r].offset \in Nat /\ End(D[r]) \in Nat
      BY <3>1 DEF IsData, End
    <3>4. v.offset <= e.offset /\ End(e) <= End(v) /\ v.offset \in Nat /\ End(v) \in Nat
      <4>1. \A m \in 1 .. v.reqnb : v.offset <= s[m].offset /\ End(s[m]) <= End(v)
        BY <1>1, RowSpans DEF Solid
      <4>2. \A j \in 1 .. n : v.offset <= rest[j].offset /\ End(rest[j]) <= End(v)
        <5> SUFFICES ASSUME NEW j \in 1 .. n
                     PROVE  v.offset <= rest[j].offset /\ End(rest[j]) <= End(v)
          OBVIOUS
        <5>1. j \in 1 .. v.reqnb /\ j + 1 \in 1 .. v.reqnb
          BY <2>1
        <5> QED BY <2>2, <4>1, <5>1
      <4>3. v.offset \in Nat /\ End(v) \in Nat
        BY <1>1, OffsetsOfEntry DEF End
      <4> QED BY <2>3, <4>2, <4>3
    <3>5. PICK x \in DOMAIN D : x # r /\ D[x].queue = D[r].queue /\ D[x].offset = e.offset
                                /\ End(D[x]) <= End(e)
      <4>1. PICK j \in 1 .. n : e.offset = rest[j].offset
        BY <2>3
      <4>2. /\ rest[j].id \in IdSet(e) /\ rest[j].id \in DOMAIN D
            /\ D[rest[j].id].queue = e.queue
            /\ D[rest[j].id].offset = rest[j].offset /\ End(D[rest[j].id]) = End(rest[j])
        BY <1>2, <2>4, PartOfEntry
      <4>3. End(rest[j]) <= End(e)
        BY <2>3
      <4> QED BY <2>10, <4>1, <4>2, <4>3
    <3>6. Beside(D[r], D[x])
      BY <3>1, <3>5 DEF NoOverlap
    <3>7. D[x].offset \in Nat /\ End(D[x]) \in Nat
      BY <3>5 DEF IsData, End
    <3> QED BY <2>8, <3>2, <3>3, <3>4, <3>5, <3>6, <3>7 DEF Beside
  <2>11. Solid(D, S \ {id}, e)
    BY <2>9, <2>10 DEF Solid, Clear
  <2> QED BY <2>11 DEF e, id, s
<1> QED BY <1>5, <1>6

\* What is left of a list leaves no room either, except where the request was.
LEMMA CancelSolid ==
  ASSUME NEW D, IsData(D), NoOverlap(D), NEW S \in SUBSET DOMAIN D,
         NEW list \in Seq(Entry(D)), NoneTwice(list), NEW offset, NEW len,
         FindEntry(list, offset, len) # 0, SolidIn(D, S, list)
  PROVE  LET i == FindEntry(list, offset, len)
         IN  SolidIn(D, S \ {Cancelled(list, i, offset, len).id}, CancelEntry(list, i, offset, len))
<1> DEFINE i    == FindEntry(list, offset, len)
           gone == Cancelled(list, i, offset, len)
           left == CancelEntry(list, i, offset, len)
<1>1. \A j \in DOMAIN left :
         \/ \E a \in DOMAIN list : left[j] = list[a]
         \/ \E a \in DOMAIN list : \E k \in 1 .. Len(list[a].subs) :
              /\ list[a] \in Virtual(D) /\ gone = list[a].subs[k]
              /\ left[j] = Lessened(list[a], k)
  BY CancelEntries
<1> HIDE DEF left, gone
<1>2. ASSUME NEW e, Solid(D, S, e) PROVE Solid(D, S \ {gone.id}, e)
  BY <1>2 DEF Solid, Clear
<1>3. ASSUME NEW a \in DOMAIN list, list[a] \in Virtual(D), NEW k \in 1 .. Len(list[a].subs),
             gone = list[a].subs[k]
      PROVE  Solid(D, S \ {gone.id}, Lessened(list[a], k))
  <2>1. OneEach(list[a]) /\ Solid(D, S, list[a])
    BY DEF NoneTwice, SolidIn
  <2>2. Solid(D, S \ {list[a].subs[k].id}, Lessened(list[a], k))
    BY <1>3, <2>1, LessenedSolid
  <2> QED BY <1>3, <2>2
<1>4. SolidIn(D, S \ {gone.id}, left)
  BY <1>1, <1>2, <1>3 DEF SolidIn
<1> QED BY <1>4 DEF i, gone, left

\* The search finds what is in the list: the extent of an entry holds those of its parts.
LEMMA SearchFinds ==
  ASSUME NEW D, IsData(D), NEW list \in Seq(Entry(D)), \A i \in DOMAIN list : Consecutive(list[i]),
         NEW r \in Members(list)
  PROVE  FindEntry(list, D[r].offset, D[r].len) # 0
<1> DEFINE offset == D[r].offset
           len    == D[r].len
           Found(req) == IF req.reqnb = 1 THEN Same(req, offset, len)
                         ELSE /\ CouldHold(req, offset, len)
                              /\ \E k \in DOMAIN req.subs : Same(req.subs[k], offset, len)
           Good == {j \in 1 .. Len(list) : Found(list[j])}
<1>1. FindEntry(list, offset, len) = IF Good # {} THEN Min(Good) ELSE 0
  BY DEF FindEntry, SelectInSeq
<1>2. PICK i \in 1 .. Len(list) : r \in IdSet(list[i])
  BY LenProperties DEF Members
<1> DEFINE e == list[i]
<1>3. e \in Entry(D) /\ Consecutive(e)
  <2>1. i \in DOMAIN list
    BY LenProperties
  <2> QED BY <2>1, ElementOfSeq
<1>4. PICK k \in 1 .. e.reqnb : r = Parts(e)[k].id
  <2>1. IdSet(e) = {Parts(e)[m].id : m \in 1 .. Len(Parts(e))} /\ Len(Parts(e)) = e.reqnb
    BY <1>3, IdsOfEntry, PartsOfEntry
  <2> QED BY <1>2, <2>1
<1> HIDE DEF e
<1>5. /\ Same(Parts(e)[k], offset, len)
      /\ e.offset <= offset /\ End(e) >= offset + len
  <2>1. /\ D[r].offset = Parts(e)[k].offset /\ D[r].len = Parts(e)[k].len
        /\ Parts(e)[k].offset \in Nat /\ Parts(e)[k].len \in Nat
    BY <1>3, <1>4, PartOfEntry
  <2>2. /\ e.offset <= Parts(e)[k].offset /\ End(Parts(e)[k]) <= End(e)
        /\ End(e) \in Nat
    BY <1>3, RowSpans
  <2> QED BY <2>1, <2>2 DEF Same, End
<1>6. Found(e)
  <2>1. CASE e.reqnb = 1
    <3>1. e \in Simple(D) /\ Parts(e) = <<e>> /\ k = 1
      <4>1. e \in Simple(D)
        BY <1>3, <2>1 DEF Entry, Virtual
      <4> QED BY <1>3, <2>1, <4>1, PartsOfEntry
    <3>2. Parts(e)[k] = e
      BY <3>1
    <3> QED BY <1>5, <2>1, <3>2
  <2>2. CASE e.reqnb # 1
    <3>1. e \in Virtual(D) /\ Parts(e) = e.subs /\ e.subs \in Seq(Simple(D)) /\ Len(e.subs) = e.reqnb
      <4>1. e \in Virtual(D)
        BY <1>3, <2>2 DEF Entry, Simple
      <4> QED BY <1>3, <4>1, PartsOfEntry DEF Virtual
    <3>2. k \in DOMAIN e.subs
      BY <3>1, LenProperties
    <3> QED BY <1>5, <2>2, <3>1, <3>2 DEF CouldHold
  <2> QED BY <2>1, <2>2
<1>7. i \in Good
  BY <1>6 DEF e
<1>8. Min(Good) # 0
  <2>1. Good \in SUBSET Nat /\ Good # {} /\ 0 \notin Good
    BY <1>7
  <2> HIDE DEF Good
  <2> QED BY <2>1, MinNat
<1> HIDE DEF Good
<1> QED BY <1>1, <1>7, <1>8
=============================================================================
