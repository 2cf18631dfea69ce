--------------------------- MODULE RequestQueues ---------------------------
(***************************************************************************)
(* What the insertion, aggregation and cancellation code does to one list  *)
(* of requests: a queue of the hashtable or the timeline, as a sequence.   *)
(*                                                                         *)
(* A request is a record: the user's id, the queue it belongs to (a file   *)
(* and a type), its extent, its rank among the arrivals, the factor MLF    *)
(* and aIOLi multiply their quantum by, and, for a virtual request         *)
(* (reqnb > 1), the sequence of the requests aggregated into it.           *)
(***************************************************************************)
EXTENDS Integers, Sequences, SequencesExt

CONSTANT IntBits   \* the width of an int32_t: 32 in the code, smaller in a run

ASSUME IntBitsAssumption == IntBits \in Nat \ {0}

NoId == 0   \* user_id of a virtual request

\* What is left of x in an int32_t.
Int32(x) == ((x + 2 ^ (IntBits - 1)) % 2 ^ IntBits) - 2 ^ (IntBits - 1)

request_constructor(id, queue, offset, len, timestamp) ==
  [id |-> id, queue |-> queue, offset |-> offset, len |-> len, timestamp |-> timestamp,
   sched_factor |-> 0, reqnb |-> 1, subs |-> <<>>]

End(req) == req.offset + req.len

\* The requests the user knows that stand behind one entry of a list.
Parts(req) == IF req.reqnb = 1 THEN <<req>> ELSE req.subs

IdsOf(parts) == [k \in DOMAIN parts |-> parts[k].id]

\* Their ids in a list: for each entry those of its parts, and all of them.
IdsIn(list)   == [i \in DOMAIN list |-> IdsOf(Parts(list[i]))]
IdSet(req)    == ToSet(IdsOf(Parts(req)))
Members(list) == UNION {IdSet(list[i]) : i \in DOMAIN list}

\* CHECK_AGGREGATE: next starts inside req or right at its end.
CHECK_AGGREGATE(req, next) == req.offset <= next.offset /\ End(req) >= next.offset

\* It takes the timestamp of req; that its constructor took a new one is in MakesVirtual.
make_virtual_request(req) == [req EXCEPT !.id = NoId, !.subs = <<req>>]

\* The new extent is computed from one end only: a request that starts inside
\* agg and ends before it does makes the virtual request shorter.
include_in_aggregation(req, agg) ==
  LET v     == IF agg.reqnb = 1 THEN make_virtual_request(agg) ELSE agg
      front == req.offset <= v.offset
  IN [v EXCEPT !.subs   = IF front THEN <<req>> \o @ ELSE Append(@, req),
               !.len    = IF front THEN @ + (v.offset - req.offset)
                                   ELSE End(req) - v.offset,
               !.offset = IF front THEN req.offset ELSE @,
               !.timestamp = IF req.timestamp < @ THEN req.timestamp ELSE @,
               !.sched_factor = Int32(@ + req.sched_factor),
               !.reqnb  = @ + 1]

\* joined[n]: head after the first n requests of tail.
join_aggregations(head, tail) ==
  LET joined[n \in 0 .. Len(Parts(tail))] ==
        IF n = 0 THEN head ELSE include_in_aggregation(Parts(tail)[n], joined[n - 1])
  IN joined[Len(Parts(tail))]

-----------------------------------------------------------------------------
(* Insertion of a new (hence simple) request.                              *)

\* Mutant: the scan stops at the first request that starts earlier.
InsertionPlace_Descending(req, queue) ==
  LET i == SelectInSeq(queue, LAMBDA tmp : tmp.offset < req.offset)
  IN IF i = 0 THEN Len(queue) ELSE i - 1

\* How many requests stay before req in the offset order.
InsertionPlace(req, queue) ==
  LET Later(tmp) == \/ tmp.offset > req.offset
                    \/ tmp.offset = req.offset /\ tmp.len > req.len
      i == SelectInSeq(queue, Later)
  IN IF i = 0 THEN Len(queue) ELSE i - 1

insert_aggregations(req, p, queue, max) ==
  LET Fits(a, b)  == CHECK_AGGREGATE(a, b) /\ a.reqnb + b.reqnb <= max
      merged      == include_in_aggregation(req, queue[p])
      hasNext     == p < Len(queue)
      withPrev    == p > 0 /\ Fits(queue[p], req)
      bridgesNext == withPrev /\ hasNext /\ Fits(merged, queue[p + 1])
      withNext    == ~ withPrev /\ hasNext /\ Fits(req, queue[p + 1])
  IN CASE bridgesNext ->
            RemoveAt([queue EXCEPT ![p] = join_aggregations(merged, queue[p + 1])], p + 1)
       [] withPrev /\ ~ bridgesNext ->
            [queue EXCEPT ![p] = merged]
       [] withNext ->
            [queue EXCEPT ![p + 1] = include_in_aggregation(req, @)]
       [] OTHER ->
            InsertAt(queue, p + 1, req)

\* Whether the request that req is aggregated with was a simple one: then
\* make_virtual_request constructs another.  A join finds its head virtual already.
MakesVirtual(req, queue, max) ==
  LET Fits(a, b) == CHECK_AGGREGATE(a, b) /\ a.reqnb + b.reqnb <= max
      p        == InsertionPlace(req, queue)
      withPrev == p > 0 /\ Fits(queue[p], req)
      withNext == ~ withPrev /\ p < Len(queue) /\ Fits(req, queue[p + 1])
  IN \/ withPrev /\ queue[p].reqnb = 1
     \/ withNext /\ queue[p + 1].reqnb = 1

\* Mutant: an aggregation that is full takes one more.
hashtable_add_req_OneMore(req, queue, max) ==
  insert_aggregations(req, InsertionPlace(req, queue), queue, max + 1)

hashtable_add_req(req, queue, max) ==
  insert_aggregations(req, InsertionPlace(req, queue), queue, max)

\* Mutant: the file and the type are not compared.
timeline_add_req_AnyFile(req, timeline, aggregates, max) ==
  LET Takes(tmp) == /\ tmp.reqnb < max
                    /\ CHECK_AGGREGATE(req, tmp) \/ CHECK_AGGREGATE(tmp, req)
      i == IF aggregates /\ max > 1 THEN SelectInSeq(timeline, Takes) ELSE 0
  IN IF i = 0 THEN Append(timeline, req)
     ELSE [timeline EXCEPT ![i] = include_in_aggregation(req, @)]

\* Mutant: agios_list_add in the place of agios_list_add_tail.
timeline_add_req_AtHead(req, timeline, aggregates, max) == <<req>> \o timeline

timeline_add_req(req, timeline, aggregates, max) ==
  LET Takes(tmp) == /\ tmp.queue = req.queue
                    /\ tmp.reqnb < max
                    /\ CHECK_AGGREGATE(req, tmp) \/ CHECK_AGGREGATE(tmp, req)
      i == IF aggregates /\ max > 1 THEN SelectInSeq(timeline, Takes) ELSE 0
  IN IF i = 0 THEN Append(timeline, req)
     ELSE [timeline EXCEPT ![i] = include_in_aggregation(req, @)]

-----------------------------------------------------------------------------
(* Cancellation: the list is searched for an offset and a length only.     *)

\* Mutant: the offsets are not compared.
Same_Length(req, offset, len) == req.len = len

Same(req, offset, len) == req.offset = offset /\ req.len = len

\* Mutant: the last request of a virtual request is skipped.
CouldHold_Strict(virtual, offset, len) ==
  virtual.offset <= offset /\ End(virtual) > offset + len

CouldHold(virtual, offset, len) ==
  virtual.offset <= offset /\ End(virtual) >= offset + len

\* Position in list of the entry that is, or holds, the request looked for.
FindEntry(list, offset, len) ==
  LET Found(req) == IF req.reqnb = 1 THEN Same(req, offset, len)
                    ELSE /\ CouldHold(req, offset, len)
                         /\ \E i \in DOMAIN req.subs : Same(req.subs[i], offset, len)
  IN SelectInSeq(list, Found)

FindPart(virtual, offset, len) ==
  SelectInSeq(virtual.subs, LAMBDA sub : Same(sub, offset, len))

\* The request that leaves list when entry i is cancelled.
Cancelled(list, i, offset, len) ==
  IF list[i].reqnb = 1 THEN list[i]
  ELSE list[i].subs[FindPart(list[i], offset, len)]

\* Mutant: the number of requests is not lowered.
Shrunk_KeepsNumber(virtual, subs) ==
  [virtual EXCEPT !.subs = subs, !.offset = subs[1].offset]

\* The extent and the timestamp of a virtual request are recomputed from all that
\* is left in it.
Shrunk(virtual, subs) ==
  LET from == CHOOSE o \in {subs[i].offset : i \in DOMAIN subs} :
                \A i \in DOMAIN subs : o <= subs[i].offset
      to   == CHOOSE e \in {End(subs[i]) : i \in DOMAIN subs} :
                \A i \in DOMAIN subs : e >= End(subs[i])
      eldest == CHOOSE t \in {subs[i].timestamp : i \in DOMAIN subs} :
                  \A i \in DOMAIN subs : t <= subs[i].timestamp
  IN [virtual EXCEPT !.subs = subs, !.reqnb = @ - 1, !.timestamp = eldest,
                     !.offset = from, !.len = to - from]

\* Mutant: the request left alone in its virtual request goes with it.
CancelEntry_DropsPair(list, i, offset, len) ==
  LET req  == list[i]
      subs == RemoveAt(req.subs, FindPart(req, offset, len))
  IN IF req.reqnb \in {1, 2} THEN RemoveAt(list, i)
     ELSE [list EXCEPT ![i] = Shrunk(req, subs)]

CancelEntry(list, i, offset, len) ==
  LET req  == list[i]
      subs == RemoveAt(req.subs, FindPart(req, offset, len))
  IN CASE req.reqnb = 1 -> RemoveAt(list, i)
       [] req.reqnb = 2 -> [list EXCEPT ![i] = subs[1]]
       [] OTHER         -> [list EXCEPT ![i] = Shrunk(req, subs)]
=============================================================================
