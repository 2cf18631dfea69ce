------------------------- MODULE Schedulers_proofs -------------------------
(***************************************************************************)
(* What the schedulers rely on and what they promise, for every instance:  *)
(* that the counters agree with the lists, that no assertion fails, that   *)
(* queues are in the order of the offsets, that requests are served in     *)
(* their order and queues by their weights, that every release finds a     *)
(* record in the dispatch queue it looks in, and every cancellation a      *)
(* request; and that every variable stays in its type.                     *)
(***************************************************************************)
EXTENDS Agios_proofs

-----------------------------------------------------------------------------
(* The counters.                                                           *)

\* The files that have requests in a set.
Busy(W) == {f \in Files : OfFile(W, f) # {}}

\* The counters of the queues, the files and the library are what the requests in W make
\* them, and so are those of the lines of the hashtable.
Numbers(W, size, reqnb, requests, busy) ==
  /\ size = [q \in Queues |-> Bytes(OfQueue(W, q))]
  /\ reqnb = [f \in Files |-> Cardinality(OfFile(W, f))]
  /\ requests = Cardinality(W)
  /\ busy = Cardinality(Busy(W))

LineNumbers(W, reqcounter) == reqcounter = [l \in Lines |-> Cardinality(OfLine(W, l))]

Counted ==
  Numbers(Waiting, current_size, timeline_reqnb, current_reqnb, current_filenb)

CountedInLines == LineNumbers(Waiting, hashlist_reqcounter)

\* What is counted is finite.
LEMMA CountsOf ==
  ASSUME data \in [Reqs -> Arguments], NEW W \in SUBSET Reqs, IsFiniteSet(W)
  PROVE  /\ Cardinality(W) \in Nat
         /\ \A q : IsFiniteSet(OfQueue(W, q)) /\ Bytes(OfQueue(W, q)) \in Nat
         /\ \A f : IsFiniteSet(OfFile(W, f)) /\ Cardinality(OfFile(W, f)) \in Nat
         /\ \A l : IsFiniteSet(OfLine(W, l)) /\ Cardinality(OfLine(W, l)) \in Nat
         /\ IsFiniteSet(Busy(W)) /\ Cardinality(Busy(W)) \in Nat
<1>1. /\ \A q : OfQueue(W, q) \in SUBSET W
      /\ \A f : OfFile(W, f) \in SUBSET W
      /\ \A l : OfLine(W, l) \in SUBSET W
  BY DEF OfQueue, OfFile, OfLine
<1>2. \A U \in SUBSET W : IsFiniteSet(U) /\ Cardinality(U) \in Nat
  BY FS_Subset, FS_CardinalityType
<1>3. ASSUME NEW q PROVE Bytes(OfQueue(W, q)) \in Nat
  <2> DEFINE U == OfQueue(W, q)
             f == [r \in Reqs |-> data[r].len]
  <2>1. IsFiniteSet(U) /\ \A r \in U : f[r] \in Nat
    BY <1>1, <1>2, DataAre
  <2> HIDE DEF U, f
  <2>2. Total(f, U) \in Nat
    BY <2>1, SumType
  <2> QED BY <2>2 DEF Total, Bytes, f, U
<1>4. IsFiniteSet(Busy(W))
  <2> DEFINE f == [r \in W |-> FileOf(data[r].queue)]
  <2>1. \A r \in W : data[r].queue \in Queues
    BY DataAre
  <2>2. \A r \in W : FileOf(data[r].queue) \in Files
    BY <2>1 DEF FileOf, Queues
  <2>3. f \in Surjection(W, Busy(W))
    BY <2>2 DEF Surjection, Busy, OfFile
  <2> QED BY <2>3, FS_Surjection
<1>5. Cardinality(Busy(W)) \in Nat
  BY <1>4, FS_CardinalityType
<1> QED BY <1>1, <1>2, <1>3, <1>4, <1>5

\* What is counted of the requests that are left when some leave.
LEMMA CountsLeft ==
  ASSUME data \in [Reqs -> Arguments], NEW W \in SUBSET Reqs, IsFiniteSet(W), NEW B \in SUBSET W
  PROVE  /\ Cardinality(W \ B) = Cardinality(W) - Cardinality(B)
         /\ \A q : Bytes(OfQueue(W \ B, q)) = Bytes(OfQueue(W, q)) - Bytes(OfQueue(B, q))
         /\ \A f : Cardinality(OfFile(W \ B, f)) = Cardinality(OfFile(W, f)) - Cardinality(OfFile(B, f))
         /\ \A l : Cardinality(OfLine(W \ B, l)) = Cardinality(OfLine(W, l)) - Cardinality(OfLine(B, l))
         /\ Cardinality(Busy(W \ B)) = Cardinality(Busy(W)) -
              Cardinality({f \in Files : OfFile(B, f) # {} /\ Cardinality(OfFile(W \ B, f)) = 0})
<1>1. ASSUME NEW S, IsFiniteSet(S), NEW U \in SUBSET S
      PROVE  Cardinality(S \ U) = Cardinality(S) - Cardinality(U)
  <2>1. S \cap U = U
    OBVIOUS
  <2> QED BY <1>1, <2>1, FS_Difference
<1>2. /\ \A q : IsFiniteSet(OfQueue(W, q))
      /\ \A f : IsFiniteSet(OfFile(W, f))
      /\ \A l : IsFiniteSet(OfLine(W, l))
      /\ IsFiniteSet(Busy(W))
  BY CountsOf
<1>3. /\ \A q : OfQueue(W \ B, q) = OfQueue(W, q) \ OfQueue(B, q) /\ OfQueue(B, q) \in SUBSET OfQueue(W, q)
      /\ \A f : OfFile(W \ B, f) = OfFile(W, f) \ OfFile(B, f) /\ OfFile(B, f) \in SUBSET OfFile(W, f)
      /\ \A l : OfLine(W \ B, l) = OfLine(W, l) \ OfLine(B, l) /\ OfLine(B, l) \in SUBSET OfLine(W, l)
  BY DEF OfQueue, OfFile, OfLine
<1>4. ASSUME NEW q PROVE Bytes(OfQueue(W \ B, q)) = Bytes(OfQueue(W, q)) - Bytes(OfQueue(B, q))
  <2> DEFINE S == OfQueue(W, q)
             U == OfQueue(B, q)
             f == [r \in Reqs |-> data[r].len]
  <2>1. IsFiniteSet(S) /\ U \in SUBSET S
    BY <1>2, <1>3
  <2>2. \A r \in S : f[r] \in Int
    BY DataAre DEF OfQueue
  <2>3. Bytes(S) = Total(f, S) /\ Bytes(U) = Total(f, U) /\ Bytes(S \ U) = Total(f, S \ U)
    BY DEF Bytes, Total
  <2> HIDE DEF S, U, f
  <2>4. Total(f, S \ U) = Total(f, S) - Total(f, U)
    BY <2>1, <2>2, SumDifference
  <2>5. Bytes(S \ U) = Bytes(S) - Bytes(U)
    BY <2>3, <2>4
  <2>6. OfQueue(W \ B, q) = S \ U
    BY <1>3 DEF S, U
  <2> QED BY <2>5, <2>6 DEF S, U
<1>5. \A f : Cardinality(OfFile(W \ B, f)) = Cardinality(OfFile(W, f)) - Cardinality(OfFile(B, f))
  BY <1>1, <1>2, <1>3
<1>6. \A l : Cardinality(OfLine(W \ B, l)) = Cardinality(OfLine(W, l)) - Cardinality(OfLine(B, l))
  BY <1>1, <1>2, <1>3
<1>7. Cardinality(W \ B) = Cardinality(W) - Cardinality(B)
  BY <1>1
<1>8. Cardinality(Busy(W \ B)) = Cardinality(Busy(W)) -
        Cardinality({f \in Files : OfFile(B, f) # {} /\ Cardinality(OfFile(W \ B, f)) = 0})
  <2> DEFINE over == {f \in Files : OfFile(B, f) # {} /\ Cardinality(OfFile(W \ B, f)) = 0}
  <2>1. \A f : Cardinality(OfFile(W \ B, f)) = 0 <=> OfFile(W \ B, f) = {}
    <3>1. W \ B \in SUBSET Reqs /\ IsFiniteSet(W \ B)
      BY FS_Subset
    <3>2. \A f : IsFiniteSet(OfFile(W \ B, f))
      BY <3>1, CountsOf
    <3> QED BY <3>2, FS_EmptySet
  <2>2. over \in SUBSET Busy(W)
    BY <1>3 DEF Busy
  <2>3. Busy(W \ B) = Busy(W) \ over
    BY <1>3, <2>1 DEF Busy
  <2> HIDE DEF over
  <2>4. Cardinality(Busy(W) \ over) = Cardinality(Busy(W)) - Cardinality(over)
    BY <1>1, <1>2, <2>2
  <2> QED BY <2>3, <2>4 DEF over
<1> QED BY <1>4, <1>5, <1>6, <1>7, <1>8

\* What is counted of one request.
LEMMA CountsOfOne ==
  ASSUME data \in [Reqs -> Arguments], NEW r \in Reqs
  PROVE  /\ Cardinality({r}) = 1
         /\ \A q : Bytes(OfQueue({r}, q)) = IF data[r].queue = q THEN data[r].len ELSE 0
         /\ \A f : /\ Cardinality(OfFile({r}, f)) = IF FileOf(data[r].queue) = f THEN 1 ELSE 0
                   /\ OfFile({r}, f) # {} <=> FileOf(data[r].queue) = f
         /\ \A l : Cardinality(OfLine({r}, l)) = IF LineOfQ(data[r].queue) = l THEN 1 ELSE 0
<1>1. Cardinality({r}) = 1 /\ Cardinality({}) = 0 /\ IsFiniteSet({}) /\ IsFiniteSet({r})
  BY FS_Singleton, FS_EmptySet
<1>2. /\ \A q : OfQueue({r}, q) = IF data[r].queue = q THEN {r} ELSE {}
      /\ \A f : OfFile({r}, f) = IF FileOf(data[r].queue) = f THEN {r} ELSE {}
      /\ \A l : OfLine({r}, l) = IF LineOfQ(data[r].queue) = l THEN {r} ELSE {}
  BY DEF OfQueue, OfFile, OfLine
<1>3. Bytes({}) = 0 /\ Bytes({r}) = data[r].len
  <2> DEFINE f == [x \in Reqs |-> data[x].len]
  <2>1. f[r] \in Int /\ f[r] = data[r].len
    BY DataAre
  <2>2. Bytes({}) = Total(f, {}) /\ Bytes({r}) = Total(f, {r}) /\ {} \cup {r} = {r}
    BY DEF Bytes, Total
  <2> HIDE DEF f
  <2>3. Total(f, {}) = 0
    BY SumEmpty
  <2>4. Total(f, {} \cup {r}) = Total(f, {}) + f[r]
    <3>1. r \notin {} /\ \A y \in {} : f[y] \in Int
      OBVIOUS
    <3> QED BY <1>1, <2>1, <3>1, SumAdd
  <2> QED BY <2>1, <2>2, <2>3, <2>4
<1> QED BY <1>1, <1>2, <1>3

\* The same after a step.
LEMMA CountedNext ==
  ASSUME data' = data, NEW V, V = Waiting'
  PROVE  /\ Counted' <=> Numbers(V, current_size', timeline_reqnb', current_reqnb', current_filenb')
         /\ CountedInLines' <=> LineNumbers(V, hashlist_reqcounter')
<1>1. /\ \A q : OfQueue(Waiting, q)' = OfQueue(V, q)
      /\ \A f : OfFile(Waiting, f)' = OfFile(V, f)
      /\ \A l : OfLine(Waiting, l)' = OfLine(V, l)
  BY DEF OfQueue, OfFile, OfLine
<1>2. [r \in Reqs |-> data'[r].len] = [r \in Reqs |-> data[r].len]
  OBVIOUS
<1>3. ASSUME NEW q PROVE Bytes(OfQueue(Waiting, q))' = Bytes(OfQueue(V, q))
  <2>1. Bytes(OfQueue(Waiting, q))' =
          SumFunctionOnSet([r \in Reqs |-> data'[r].len], OfQueue(Waiting, q)')
    BY DEF Bytes
  <2>2. Bytes(OfQueue(V, q)) = SumFunctionOnSet([r \in Reqs |-> data[r].len], OfQueue(V, q))
    BY DEF Bytes
  <2> QED BY <1>1, <1>2, <2>1, <2>2
<1>4. Busy(Waiting)' = Busy(V)
  BY <1>1 DEF Busy
<1>5. [q \in Queues |-> Bytes(OfQueue(Waiting, q))'] = [q \in Queues |-> Bytes(OfQueue(V, q))]
  BY <1>3
<1>6. [f \in Files |-> Cardinality(OfFile(Waiting, f)')] = [f \in Files |-> Cardinality(OfFile(V, f))]
  BY <1>1
<1>7. [l \in Lines |-> Cardinality(OfLine(Waiting, l)')] = [l \in Lines |-> Cardinality(OfLine(V, l))]
  BY <1>1
<1>8. Counted' <=> Numbers(V, current_size', timeline_reqnb', current_reqnb', current_filenb')
  BY <1>4, <1>5, <1>6 DEF Counted, Numbers
<1>9. CountedInLines' <=> LineNumbers(V, hashlist_reqcounter')
  BY <1>7 DEF CountedInLines, LineNumbers
<1> QED BY <1>8, <1>9

\* What a cancellation of r compares before it takes x out.
Named(r, x) ==
  /\ data[x].offset = data[r].offset /\ data[x].len = data[r].len
  /\ needs_hashtable => data[x].queue = data[r].queue

\* What a step does to the counters and to the requests that wait.
CountsStep ==
  \/ UNCHANGED counters /\ Waiting' = Waiting
  \/ \E r \in Reqs \ Waiting : /\ CountNew(data[r].queue, data[r].len)
                               /\ Waiting' = Waiting \cup {r}
  \/ \E r \in Cancellers, x \in Waiting :
       /\ Named(r, x)
       /\ CountCancelled(data[x], LineOfQ(data[r].queue))
       /\ Waiting' = Waiting \ {x}
  \/ \E B \in SUBSET Waiting : CountTaken(B) /\ Waiting' = Waiting \ B

\* Some requests are selected.
LEMMA TakenCounted ==
  ASSUME data \in [Reqs -> Arguments], data' = data,
         NEW W \in SUBSET Reqs, IsFiniteSet(W), W = Waiting,
         NEW B \in SUBSET W, Waiting' = W \ B, CountTaken(B)
  PROVE  /\ Counted => Counted'
         /\ CountedInLines => CountedInLines'
<1> DEFINE V == W \ B
<1>1. /\ \A q : Bytes(OfQueue(V, q)) = Bytes(OfQueue(W, q)) - Bytes(OfQueue(B, q))
      /\ \A f : Cardinality(OfFile(V, f)) = Cardinality(OfFile(W, f)) - Cardinality(OfFile(B, f))
      /\ \A l : Cardinality(OfLine(V, l)) = Cardinality(OfLine(W, l)) - Cardinality(OfLine(B, l))
      /\ Cardinality(V) = Cardinality(W) - Cardinality(B)
      /\ Cardinality(Busy(V)) = Cardinality(Busy(W)) -
           Cardinality({f \in Files : OfFile(B, f) # {} /\ Cardinality(OfFile(V, f)) = 0})
  BY CountsLeft
<1> HIDE DEF V
<1>2. ASSUME Numbers(W, current_size, timeline_reqnb, current_reqnb, current_filenb)
      PROVE  Numbers(V, current_size', timeline_reqnb', current_reqnb', current_filenb')
  <2>1. current_size' = [q \in Queues |-> Bytes(OfQueue(V, q))]
    BY <1>1, <1>2 DEF Numbers, CountTaken
  <2>2. timeline_reqnb' = [f \in Files |-> Cardinality(OfFile(V, f))]
    BY <1>1, <1>2 DEF Numbers, CountTaken
  <2>3. current_reqnb' = Cardinality(V)
    BY <1>1, <1>2 DEF Numbers, CountTaken
  <2>4. current_filenb' = Cardinality(Busy(V))
    <3>1. {f \in Files : OfFile(B, f) # {} /\ timeline_reqnb'[f] = 0} =
          {f \in Files : OfFile(B, f) # {} /\ Cardinality(OfFile(V, f)) = 0}
      BY <2>2
    <3> QED BY <1>1, <1>2, <3>1 DEF Numbers, CountTaken
  <2> QED BY <2>1, <2>2, <2>3, <2>4 DEF Numbers
<1>3. ASSUME LineNumbers(W, hashlist_reqcounter) PROVE LineNumbers(V, hashlist_reqcounter')
  BY <1>1, <1>3 DEF LineNumbers, CountTaken
<1>4. V = Waiting'
  BY DEF V
<1>5. Counted' <=> Numbers(V, current_size', timeline_reqnb', current_reqnb', current_filenb')
  BY <1>4, CountedNext
<1>6. CountedInLines' <=> LineNumbers(V, hashlist_reqcounter')
  BY <1>4, CountedNext
<1> QED BY <1>2, <1>3, <1>5, <1>6 DEF Counted, CountedInLines

\* A request is cancelled; the line is right when it is the one of the request's file.
LEMMA CancelledCounted ==
  ASSUME data \in [Reqs -> Arguments], data' = data,
         NEW W \in SUBSET Reqs, IsFiniteSet(W), W = Waiting,
         NEW r \in W, Waiting' = W \ {r}, NEW l, CountCancelled(data[r], l)
  PROVE  /\ Counted => Counted'
         /\ CountedInLines /\ l = LineOfQ(data[r].queue) => CountedInLines'
<1> DEFINE q == data[r].queue
           n == data[r].len
           f == FileOf(q)
           h == LineOfQ(q)
           V == W \ {r}
<1>1. r \in Reqs /\ q \in Queues /\ f \in Files /\ n \in Nat /\ h \in Lines
  BY DataAre, FilesAssumption DEF Queues, FileOf, LineOfQ
<1>2. /\ \A p : Bytes(OfQueue({r}, p)) = IF q = p THEN n ELSE 0
      /\ \A g : Cardinality(OfFile({r}, g)) = IF f = g THEN 1 ELSE 0
      /\ \A g : OfFile({r}, g) # {} <=> f = g
      /\ \A k : Cardinality(OfLine({r}, k)) = IF h = k THEN 1 ELSE 0
      /\ Cardinality({r}) = 1
  BY <1>1, CountsOfOne
<1>3. {r} \in SUBSET W
  OBVIOUS
<1>4. /\ \A p : Bytes(OfQueue(V, p)) = Bytes(OfQueue(W, p)) - Bytes(OfQueue({r}, p))
      /\ \A g : Cardinality(OfFile(V, g)) = Cardinality(OfFile(W, g)) - Cardinality(OfFile({r}, g))
      /\ \A k : Cardinality(OfLine(V, k)) = Cardinality(OfLine(W, k)) - Cardinality(OfLine({r}, k))
      /\ Cardinality(V) = Cardinality(W) - Cardinality({r})
      /\ Cardinality(Busy(V)) = Cardinality(Busy(W)) -
           Cardinality({g \in Files : OfFile({r}, g) # {} /\ Cardinality(OfFile(V, g)) = 0})
  BY <1>3, CountsLeft
<1>5. /\ \A p : Bytes(OfQueue(W, p)) \in Nat
      /\ \A g : Cardinality(OfFile(W, g)) \in Nat
      /\ \A k : Cardinality(OfLine(W, k)) \in Nat
      /\ Cardinality(Busy(W)) \in Nat
  BY CountsOf
<1>6. /\ current_size' = [current_size EXCEPT ![q] = @ - n]
      /\ timeline_reqnb' = [timeline_reqnb EXCEPT ![f] = @ - 1]
      /\ current_filenb' = current_filenb - IF timeline_reqnb'[f] = 0 THEN 1 ELSE 0
      /\ current_reqnb' = current_reqnb - 1
      /\ hashlist_reqcounter' = [hashlist_reqcounter EXCEPT ![l] = @ - 1]
  BY DEF CountCancelled
<1>7. V = Waiting'
  OBVIOUS
<1> HIDE DEF q, n, f, h, V
<1>8. Cardinality(Busy(V)) =
        Cardinality(Busy(W)) - (IF Cardinality(OfFile(V, f)) = 0 THEN 1 ELSE 0)
  <2> DEFINE over == {g \in Files : OfFile({r}, g) # {} /\ Cardinality(OfFile(V, g)) = 0}
  <2>1. over = IF Cardinality(OfFile(V, f)) = 0 THEN {f} ELSE {}
    BY <1>1, <1>2
  <2>2. Cardinality({f}) = 1 /\ Cardinality({}) = 0
    BY FS_Singleton, FS_EmptySet
  <2>3. Cardinality(over) = IF Cardinality(OfFile(V, f)) = 0 THEN 1 ELSE 0
    BY <2>1, <2>2
  <2> QED BY <1>4, <2>3
<1>9. ASSUME Numbers(W, current_size, timeline_reqnb, current_reqnb, current_filenb)
      PROVE  Numbers(V, current_size', timeline_reqnb', current_reqnb', current_filenb')
  <2>1. current_size' = [p \in Queues |-> Bytes(OfQueue(V, p))]
    <3>1. current_size = [p \in Queues |-> Bytes(OfQueue(W, p))]
      BY <1>9 DEF Numbers
    <3>2. ASSUME NEW p \in Queues PROVE current_size'[p] = Bytes(OfQueue(V, p))
      <4>1. Bytes(OfQueue(V, p)) = IF p = q THEN Bytes(OfQueue(W, p)) - n ELSE Bytes(OfQueue(W, p))
        <5>1. Bytes(OfQueue({r}, p)) = IF q = p THEN n ELSE 0
          BY <1>2
        <5>2. Bytes(OfQueue(V, p)) = Bytes(OfQueue(W, p)) - Bytes(OfQueue({r}, p))
          BY <1>4
        <5>3. Bytes(OfQueue(W, p)) \in Nat
          BY <1>5
        <5> QED BY <1>1, <5>1, <5>2, <5>3
      <4>2. current_size[p] = Bytes(OfQueue(W, p))
        BY <3>1
      <4>3. current_size'[p] = IF p = q THEN current_size[p] - n ELSE current_size[p]
        BY <1>6, <3>1
      <4> QED BY <4>1, <4>2, <4>3
    <3>3. current_size' = [p \in Queues |-> current_size'[p]]
      BY <1>6, <3>1
    <3> QED BY <3>2, <3>3
  <2>2. timeline_reqnb' = [g \in Files |-> Cardinality(OfFile(V, g))]
    <3>1. timeline_reqnb = [g \in Files |-> Cardinality(OfFile(W, g))]
      BY <1>9 DEF Numbers
    <3>2. ASSUME NEW g \in Files PROVE timeline_reqnb'[g] = Cardinality(OfFile(V, g))
      <4>1. Cardinality(OfFile(V, g)) = IF g = f THEN Cardinality(OfFile(W, g)) - 1 ELSE Cardinality(OfFile(W, g))
        <5>1. Cardinality(OfFile({r}, g)) = IF f = g THEN 1 ELSE 0
          BY <1>2
        <5>2. Cardinality(OfFile(V, g)) = Cardinality(OfFile(W, g)) - Cardinality(OfFile({r}, g))
          BY <1>4
        <5>3. Cardinality(OfFile(W, g)) \in Nat
          BY <1>5
        <5> QED BY <1>1, <5>1, <5>2, <5>3
      <4>2. timeline_reqnb[g] = Cardinality(OfFile(W, g))
        BY <3>1
      <4>3. timeline_reqnb'[g] = IF g = f THEN timeline_reqnb[g] - 1 ELSE timeline_reqnb[g]
        BY <1>6, <3>1
      <4> QED BY <4>1, <4>2, <4>3
    <3>3. timeline_reqnb' = [g \in Files |-> timeline_reqnb'[g]]
      BY <1>6, <3>1
    <3> QED BY <3>2, <3>3
  <2>3. current_reqnb' = Cardinality(V)
    BY <1>2, <1>4, <1>6, <1>9 DEF Numbers
  <2>4. current_filenb' = Cardinality(Busy(V))
    <3>1. timeline_reqnb'[f] = Cardinality(OfFile(V, f))
      BY <1>1, <2>2
    <3> QED BY <1>5, <1>6, <1>8, <1>9, <3>1 DEF Numbers
  <2> QED BY <2>1, <2>2, <2>3, <2>4 DEF Numbers
<1>10. ASSUME LineNumbers(W, hashlist_reqcounter), l = h
       PROVE  LineNumbers(V, hashlist_reqcounter')
  <2>1. hashlist_reqcounter = [k \in Lines |-> Cardinality(OfLine(W, k))]
    BY <1>10 DEF LineNumbers
  <2>2. ASSUME NEW k \in Lines PROVE hashlist_reqcounter'[k] = Cardinality(OfLine(V, k))
    <3>1. Cardinality(OfLine(V, k)) =
            IF k = h THEN Cardinality(OfLine(W, k)) - 1 ELSE Cardinality(OfLine(W, k))
      <4>1. Cardinality(OfLine({r}, k)) = IF h = k THEN 1 ELSE 0
        BY <1>2
      <4>2. Cardinality(OfLine(V, k)) = Cardinality(OfLine(W, k)) - Cardinality(OfLine({r}, k))
        BY <1>4
      <4>3. Cardinality(OfLine(W, k)) \in Nat
        BY <1>5
      <4> QED BY <4>1, <4>2, <4>3
    <3>2. hashlist_reqcounter[k] = Cardinality(OfLine(W, k))
      BY <2>1
    <3>3. hashlist_reqcounter'[k] =
            IF k = h THEN hashlist_reqcounter[k] - 1 ELSE hashlist_reqcounter[k]
      BY <1>6, <1>10, <2>1
    <3> QED BY <3>1, <3>2, <3>3
  <2>3. hashlist_reqcounter' = [k \in Lines |-> hashlist_reqcounter'[k]]
    BY <1>6, <2>1
  <2> QED BY <2>2, <2>3 DEF LineNumbers
<1>11. Counted' <=> Numbers(V, current_size', timeline_reqnb', current_reqnb', current_filenb')
  BY <1>7, CountedNext
<1>12. CountedInLines' <=> LineNumbers(V, hashlist_reqcounter')
  BY <1>7, CountedNext
<1> QED BY <1>9, <1>10, <1>11, <1>12 DEF Counted, CountedInLines, h, q

\* A request is added.
LEMMA NewCounted ==
  ASSUME data \in [Reqs -> Arguments], data' = data,
         NEW W \in SUBSET Reqs, IsFiniteSet(W), W = Waiting,
         NEW r \in Reqs \ W, Waiting' = W \cup {r},
         CountNew(data[r].queue, data[r].len)
  PROVE  /\ Counted => Counted'
         /\ CountedInLines => CountedInLines'
<1> DEFINE q == data[r].queue
           n == data[r].len
           f == FileOf(q)
           h == LineOfQ(q)
           V == W \cup {r}
<1>1. q \in Queues /\ f \in Files /\ n \in Nat /\ h \in Lines
  BY DataAre, FilesAssumption DEF Queues, FileOf, LineOfQ
<1>2. /\ \A p : Bytes(OfQueue({r}, p)) = IF q = p THEN n ELSE 0
      /\ \A g : Cardinality(OfFile({r}, g)) = IF f = g THEN 1 ELSE 0
      /\ \A g : OfFile({r}, g) # {} <=> f = g
      /\ \A k : Cardinality(OfLine({r}, k)) = IF h = k THEN 1 ELSE 0
      /\ Cardinality({r}) = 1
  BY CountsOfOne
<1>3. V \in SUBSET Reqs /\ IsFiniteSet(V) /\ {r} \in SUBSET V /\ V \ {r} = W
  BY FS_AddElement
<1>4. /\ \A p : Bytes(OfQueue(V, p)) \in Nat
      /\ \A g : Cardinality(OfFile(V, g)) \in Nat
      /\ \A k : Cardinality(OfLine(V, k)) \in Nat
      /\ Cardinality(Busy(V)) \in Nat /\ Cardinality(V) \in Nat
  BY <1>3, CountsOf
<1>5. /\ current_size' = [current_size EXCEPT ![q] = @ + n]
      /\ timeline_reqnb' = [timeline_reqnb EXCEPT ![f] = @ + 1]
      /\ current_filenb' = current_filenb + IF timeline_reqnb[f] = 0 THEN 1 ELSE 0
      /\ current_reqnb' = current_reqnb + 1
      /\ hashlist_reqcounter' = [hashlist_reqcounter EXCEPT ![h] = @ + 1]
  BY DEF CountNew, LineOfQ
<1>6. V = Waiting'
  OBVIOUS
<1> HIDE DEF q, n, f, h, V
<1>7. /\ \A p : Bytes(OfQueue(W, p)) = Bytes(OfQueue(V, p)) - Bytes(OfQueue({r}, p))
      /\ \A g : Cardinality(OfFile(W, g)) = Cardinality(OfFile(V, g)) - Cardinality(OfFile({r}, g))
      /\ \A k : Cardinality(OfLine(W, k)) = Cardinality(OfLine(V, k)) - Cardinality(OfLine({r}, k))
      /\ Cardinality(W) = Cardinality(V) - Cardinality({r})
      /\ Cardinality(Busy(W)) = Cardinality(Busy(V)) -
           Cardinality({g \in Files : OfFile({r}, g) # {} /\ Cardinality(OfFile(W, g)) = 0})
  <2> DEFINE U == V \ {r}
  <2>1. /\ \A p : Bytes(OfQueue(U, p)) = Bytes(OfQueue(V, p)) - Bytes(OfQueue({r}, p))
        /\ \A g : Cardinality(OfFile(U, g)) = Cardinality(OfFile(V, g)) - Cardinality(OfFile({r}, g))
        /\ \A k : Cardinality(OfLine(U, k)) = Cardinality(OfLine(V, k)) - Cardinality(OfLine({r}, k))
        /\ Cardinality(U) = Cardinality(V) - Cardinality({r})
        /\ Cardinality(Busy(U)) = Cardinality(Busy(V)) -
             Cardinality({g \in Files : OfFile({r}, g) # {} /\ Cardinality(OfFile(U, g)) = 0})
    BY <1>3, CountsLeft
  <2>2. U = W
    BY <1>3
  <2> HIDE DEF U
  <2> QED BY <2>1, <2>2
<1>8. Cardinality(Busy(W)) =
        Cardinality(Busy(V)) - (IF Cardinality(OfFile(W, f)) = 0 THEN 1 ELSE 0)
  <2> DEFINE over == {g \in Files : OfFile({r}, g) # {} /\ Cardinality(OfFile(W, g)) = 0}
  <2>1. over = IF Cardinality(OfFile(W, f)) = 0 THEN {f} ELSE {}
    BY <1>1, <1>2
  <2>2. Cardinality({f}) = 1 /\ Cardinality({}) = 0
    BY FS_Singleton, FS_EmptySet
  <2>3. Cardinality(over) = IF Cardinality(OfFile(W, f)) = 0 THEN 1 ELSE 0
    BY <2>1, <2>2
  <2> QED BY <1>7, <2>3
<1>9. ASSUME Numbers(W, current_size, timeline_reqnb, current_reqnb, current_filenb)
      PROVE  Numbers(V, current_size', timeline_reqnb', current_reqnb', current_filenb')
  <2>1. current_size' = [p \in Queues |-> Bytes(OfQueue(V, p))]
    <3>1. current_size = [p \in Queues |-> Bytes(OfQueue(W, p))]
      BY <1>9 DEF Numbers
    <3>2. ASSUME NEW p \in Queues PROVE current_size'[p] = Bytes(OfQueue(V, p))
      <4>1. Bytes(OfQueue(V, p)) = IF p = q THEN Bytes(OfQueue(W, p)) + n ELSE Bytes(OfQueue(W, p))
        <5>1. Bytes(OfQueue({r}, p)) = IF q = p THEN n ELSE 0
          BY <1>2
        <5>2. Bytes(OfQueue(W, p)) = Bytes(OfQueue(V, p)) - Bytes(OfQueue({r}, p))
          BY <1>7
        <5>3. Bytes(OfQueue(V, p)) \in Nat
          BY <1>4
        <5> QED BY <1>1, <5>1, <5>2, <5>3
      <4>2. current_size[p] = Bytes(OfQueue(W, p))
        BY <3>1
      <4>3. current_size'[p] = IF p = q THEN current_size[p] + n ELSE current_size[p]
        BY <1>5, <3>1
      <4> QED BY <4>1, <4>2, <4>3
    <3>3. current_size' = [p \in Queues |-> current_size'[p]]
      BY <1>5, <3>1
    <3> QED BY <3>2, <3>3
  <2>2. timeline_reqnb' = [g \in Files |-> Cardinality(OfFile(V, g))]
    <3>1. timeline_reqnb = [g \in Files |-> Cardinality(OfFile(W, g))]
      BY <1>9 DEF Numbers
    <3>2. ASSUME NEW g \in Files PROVE timeline_reqnb'[g] = Cardinality(OfFile(V, g))
      <4>1. Cardinality(OfFile(V, g)) = IF g = f THEN Cardinality(OfFile(W, g)) + 1 ELSE Cardinality(OfFile(W, g))
        <5>1. Cardinality(OfFile({r}, g)) = IF f = g THEN 1 ELSE 0
          BY <1>2
        <5>2. Cardinality(OfFile(W, g)) = Cardinality(OfFile(V, g)) - Cardinality(OfFile({r}, g))
          BY <1>7
        <5>3. Cardinality(OfFile(V, g)) \in Nat
          BY <1>4
        <5> QED BY <1>1, <5>1, <5>2, <5>3
      <4>2. timeline_reqnb[g] = Cardinality(OfFile(W, g))
        BY <3>1
      <4>3. timeline_reqnb'[g] = IF g = f THEN timeline_reqnb[g] + 1 ELSE timeline_reqnb[g]
        BY <1>5, <3>1
      <4> QED BY <4>1, <4>2, <4>3
    <3>3. timeline_reqnb' = [g \in Files |-> timeline_reqnb'[g]]
      BY <1>5, <3>1
    <3> QED BY <3>2, <3>3
  <2>3. current_reqnb' = Cardinality(V)
    BY <1>2, <1>4, <1>5, <1>7, <1>9 DEF Numbers
  <2>4. current_filenb' = Cardinality(Busy(V))
    <3>1. timeline_reqnb[f] = Cardinality(OfFile(W, f))
      BY <1>1, <1>9 DEF Numbers
    <3> QED BY <1>4, <1>5, <1>8, <1>9, <3>1 DEF Numbers
  <2> QED BY <2>1, <2>2, <2>3, <2>4 DEF Numbers
<1>10. ASSUME LineNumbers(W, hashlist_reqcounter) PROVE LineNumbers(V, hashlist_reqcounter')
  <2>1. hashlist_reqcounter = [k \in Lines |-> Cardinality(OfLine(W, k))]
    BY <1>10 DEF LineNumbers
  <2>2. ASSUME NEW k \in Lines PROVE hashlist_reqcounter'[k] = Cardinality(OfLine(V, k))
    <3>1. Cardinality(OfLine(V, k)) = IF k = h THEN Cardinality(OfLine(W, k)) + 1 ELSE Cardinality(OfLine(W, k))
      <4>1. Cardinality(OfLine({r}, k)) = IF h = k THEN 1 ELSE 0
        BY <1>2
      <4>2. Cardinality(OfLine(W, k)) = Cardinality(OfLine(V, k)) - Cardinality(OfLine({r}, k))
        BY <1>7
      <4>3. Cardinality(OfLine(V, k)) \in Nat
        BY <1>4
      <4> QED BY <1>1, <4>1, <4>2, <4>3
    <3>2. hashlist_reqcounter[k] = Cardinality(OfLine(W, k))
      BY <2>1
    <3>3. hashlist_reqcounter'[k] = IF k = h THEN hashlist_reqcounter[k] + 1 ELSE hashlist_reqcounter[k]
      BY <1>5, <2>1
    <3> QED BY <3>1, <3>2, <3>3
  <2>3. hashlist_reqcounter' = [k \in Lines |-> hashlist_reqcounter'[k]]
    BY <1>5, <2>1
  <2> QED BY <2>2, <2>3 DEF LineNumbers
<1>11. Counted' <=> Numbers(V, current_size', timeline_reqnb', current_reqnb', current_filenb')
  BY <1>6, CountedNext
<1>12. CountedInLines' <=> LineNumbers(V, hashlist_reqcounter')
  BY <1>6, CountedNext
<1> QED BY <1>9, <1>10, <1>11, <1>12 DEF Counted, CountedInLines

\* A step that changes no counter and moves no request.
LEMMA QuietCounts ==
  ASSUME Places, StateTypes', ListTypes', UNCHANGED counters,
         Still \/ \E x \in Reqs : GoesPast(x) \/ ComesBack(x)
  PROVE  CountsStep
<1>1. StateTypes /\ ListTypes /\ Apart /\ Complete
  BY DEF Places
<1>2. Waiting' = Waiting
  BY <1>1, StillKeeps, GoesPastKeeps, ComesBackKeeps
<1> QED BY <1>2 DEF CountsStep

\* A step that selects a batch.
LEMMA SelectCounts ==
  ASSUME Places, StateTypes', ListTypes', NEW batch, Step1(batch), NEW B, Selects(B)
  PROVE  CountsStep
<1>1. StateTypes /\ ListTypes /\ Apart /\ Complete
  BY DEF Places
<1>2. Waiting' = Waiting \ B /\ B \in SUBSET Waiting
  BY <1>1, SelectsKeeps DEF Selects
<1>3. info' = IdsIn(batch) /\ CountTaken(Members(batch)) /\ Chosen' = B
  BY DEF Step1, Selects
<1>4. AllIds(IdsIn(batch)) = Members(batch)
  <2> DEFINE ids == IdsIn(batch)
  <2>1. DOMAIN ids = DOMAIN batch /\ \A i \in DOMAIN batch : ToSet(ids[i]) = IdSet(batch[i])
    BY DEF IdsIn, IdSet
  <2> HIDE DEF ids
  <2>2. UNION {ToSet(ids[i]) : i \in DOMAIN ids} = UNION {IdSet(batch[i]) : i \in DOMAIN batch}
    BY <2>1
  <2> QED BY <2>2 DEF AllIds, Members, ids
<1>5. Chosen' = AllIds(info')
  BY DEF Chosen, AllIds
<1>6. Members(batch) = B
  BY <1>3, <1>4, <1>5
<1> QED BY <1>2, <1>3, <1>6 DEF CountsStep

\* The calls of the users.
LEMMA UserCounts ==
  ASSUME Places, NEW r \in Reqs, UserStep(r), UNCHANGED <<wfqVars, twinsVars>>
  PROVE  CountsStep
<1>0. StateTypes /\ ListTypes /\ Apart /\ Complete
  BY DEF Places
<1>1. CASE CallAdd(r)
  <2>1. UNCHANGED counters
    BY <1>1 DEF CallAdd, structures
  <2> QED BY <1>1, <2>1, CallAddQuiet, QuietCounts
<1>2. CASE Add(r)
  <2>1. StateTypes' /\ ListTypes' /\ ComesIn(r)
    BY <1>2, AddComesIn
  <2>2. Waiting' = Waiting \cup {r}
    BY <1>0, <2>1, ComesInKeeps
  <2>3. r \notin Waiting
    BY <1>0, <2>1 DEF ComesIn, Complete
  <2>4. CountNew(data[r].queue, data[r].len)
    BY <1>2 DEF Add
  <2> QED BY <2>2, <2>3, <2>4 DEF CountsStep
<1>3. CASE AddNoop(r)
  <2>1. UNCHANGED counters
    BY <1>3 DEF AddNoop
  <2> QED BY <1>3, <2>1, AddNoopGoesPast, QuietCounts
<1>4. CASE NoopCallback(r)
  <2>1. UNCHANGED counters
    BY <1>4 DEF NoopCallback, structures
  <2> QED BY <1>4, <2>1, NoopCallbackComesBack, QuietCounts
<1>5. CASE agios_release_request(r)
  <2>1. UNCHANGED counters
    BY <1>5 DEF agios_release_request
  <2> QED BY <1>5, <2>1, ReleaseQuiet, QuietCounts
<1>6. CASE CancelRemoves(r)
  <2> DEFINE gone == Cancelled(SearchedList(r), Found(r), data[r].offset, data[r].len)
  <2>1. /\ StateTypes' /\ ListTypes' /\ Leaves(gone.id) /\ gone \in Simple(data)
        /\ gone.offset = data[r].offset /\ gone.len = data[r].len
        /\ needs_hashtable => gone.queue = data[r].queue
    BY <1>6, CancelRemovesLeaves
  <2>2. r \in Cancellers /\ CountCancelled(gone, LineOfQ(data[r].queue))
    BY <1>6 DEF CancelRemoves, MayCancel
  <2> HIDE DEF gone
  <2>3. /\ gone.queue = data[gone.id].queue /\ gone.offset = data[gone.id].offset
        /\ gone.len = data[gone.id].len
    BY <2>1 DEF Simple
  <2>4. Named(r, gone.id)
    BY <2>1, <2>3 DEF Named
  <2>5. CountCancelled(data[gone.id], LineOfQ(data[r].queue))
    BY <2>2, <2>3 DEF CountCancelled
  <2>6. gone.id \in Waiting
    BY <2>1 DEF Leaves
  <2>7. Waiting' = Waiting \ {gone.id}
    BY <1>0, <2>1, LeavesKeeps
  <2> QED BY <2>2, <2>4, <2>5, <2>6, <2>7 DEF CountsStep
<1>7. CASE CancelFindsNothing(r)
  <2>1. UNCHANGED counters
    BY <1>7 DEF CancelFindsNothing, structures
  <2> QED BY <1>7, <2>1, FindsNothingQuiet, QuietCounts
<1> QED BY <1>1, <1>2, <1>3, <1>4, <1>5, <1>6, <1>7 DEF UserStep, agios_cancel_request

\* The steps of the algorithms.
LEMMA ScheduleCounts ==
  ASSUME Places, schedule
  PROVE  CountsStep
<1>1. CASE (timeorder \/ NOOP_empty) /\ UNCHANGED <<statics, waitVars>>
  <2>1. current_alg \notin {"SJF", "aIOLi"} /\ UNCHANGED <<wfqVars, twinsVars>>
        /\ (timeorder_test \/ timeorder_pick \/ timeorder_assert \/ NOOP_empty)
    BY <1>1 DEF timeorder, NOOP_empty, statics
  <2>2. CASE timeorder_pick
    <3>1. Step1(<<Head(timeline)>>)
      BY <2>2 DEF timeorder_pick, Process
    <3> QED BY <2>1, <2>2, <3>1, TimeorderSelects, SelectCounts
  <2>3. CASE timeorder_test \/ timeorder_assert \/ NOOP_empty
    <3>1. UNCHANGED counters
      BY <2>3 DEF timeorder_test, timeorder_assert, NOOP_empty, Abort, structures
    <3> QED BY <2>1, <2>3, <3>1, TimeorderQuiet, QuietCounts
  <2> QED BY <2>1, <2>2, <2>3
<1>2. CASE SJF /\ UNCHANGED <<statics, waitVars>>
  <2>1. current_alg = "SJF" /\ UNCHANGED <<wfqVars, twinsVars>>
        /\ (SJF_test \/ SJF_scan \/ SJF_shortcut \/ SJF_pick \/ SJF_assert)
    BY <1>2 DEF SJF, statics
  <2>2. CASE SJF_pick
    <3>1. Step1(<<Head(queues[locals.chosen])>>)
      BY <2>2 DEF SJF_pick, Process
    <3> QED BY <2>1, <2>2, <3>1, SJFSelects, SelectCounts
  <2>3. CASE SJF_test \/ SJF_scan \/ SJF_shortcut \/ SJF_assert
    <3>1. UNCHANGED structures
      BY <2>3 DEF SJF_test, SJF_scan, SJF_shortcut, SJF_assert, Abort
    <3>2. UNCHANGED counters
      BY <3>1 DEF structures
    <3> QED BY <2>1, <2>3, <3>2, SJFQuiet, QuietCounts
  <2> QED BY <2>1, <2>2, <2>3
<1>3. CASE WFQ /\ UNCHANGED <<twinsVars, mlfVars, waitVars>>
  <2>1. current_alg = "WFQ" /\ UNCHANGED twinsVars /\ (WFQ_test \/ WFQ_pick \/ WFQ_turn)
    BY <1>3 DEF WFQ
  <2>2. CASE WFQ_pick
    <3>1. Step1(<<Head(multi_timeline[g_current_queue])>>)
      BY <2>2 DEF WFQ_pick, Process
    <3> QED BY <2>1, <2>2, <3>1, WFQSelects, SelectCounts
  <2>3. CASE WFQ_test \/ WFQ_turn
    <3>1. UNCHANGED counters
      BY <2>3 DEF WFQ_test, WFQ_turn, structures
    <3> QED BY <2>1, <2>3, <3>1, WFQQuiet, QuietCounts
  <2> QED BY <2>1, <2>2, <2>3
<1>4. CASE TWINS /\ UNCHANGED <<wfqVars, mlfVars, waitVars>>
  <2>1. /\ current_alg = "TWINS" /\ UNCHANGED wfqVars
        /\ \/ TWINS_test
           \/ \E elapsed \in BOOLEAN : TWINS_pick(elapsed) \/ TWINS_break(elapsed)
    BY <1>4 DEF TWINS, TWINS_look
  <2>2. CASE TWINS_test \/ \E elapsed \in BOOLEAN : TWINS_break(elapsed)
    <3>1. UNCHANGED counters
      BY <2>2 DEF TWINS_test, TWINS_break, structures
    <3> QED BY <2>1, <2>2, <3>1, TWINSQuiet, QuietCounts
  <2>3. ASSUME NEW elapsed \in BOOLEAN, TWINS_pick(elapsed) PROVE CountsStep
    <3>1. Step1(<<Head(multi_timeline[Window(elapsed)])>>)
      BY <2>3 DEF TWINS_pick, Process
    <3> QED BY <2>1, <2>3, <3>1, TWINSSelects, SelectCounts
  <2> QED BY <2>1, <2>2, <2>3
<1>5. CASE MLF /\ UNCHANGED <<wfqVars, twinsVars>>
  <2>1. current_alg = "MLF" /\ UNCHANGED <<wfqVars, twinsVars>>
        /\ (MLF_test \/ MLF_skip \/ MLF_visit)
    BY <1>5 DEF MLF
  <2>2. CASE MLF_visit
    <3>1. \E batch : Step1(batch)
      BY <2>2 DEF MLF_visit
    <3>2. StateTypes' /\ ListTypes' /\ \E B : Selects(B)
      BY <2>1, <2>2, MLFSelects
    <3> QED BY <3>1, <3>2, SelectCounts
  <2>3. CASE MLF_test \/ MLF_skip
    <3>1. UNCHANGED counters
      BY <2>3 DEF MLF_test, MLF_skip, structures
    <3> QED BY <2>1, <2>3, <3>1, MLFQuiet, QuietCounts
  <2> QED BY <2>1, <2>2, <2>3
<1>6. CASE aIOLi /\ UNCHANGED statics
  <2>1. current_alg = "aIOLi" /\ UNCHANGED <<wfqVars, twinsVars>>
        /\ (aIOLi_test \/ aIOLi_scan \/ aIOLi_check \/ aIOLi_none \/ aIOLi_drain \/ aIOLi_undefined)
    BY SMTT(60), <1>6 DEF aIOLi, statics
  <2>2. CASE aIOLi_drain
    <3>1. \E batch : Step1(batch)
      BY <2>2 DEF aIOLi_drain
    <3>2. StateTypes' /\ ListTypes' /\ \E B : Selects(B)
      BY <2>1, <2>2, aIOLiSelects
    <3> QED BY <3>1, <3>2, SelectCounts
  <2>3. CASE aIOLi_scan
    <3>1. UNCHANGED counters
      BY ZenonT(60), <2>3 DEF aIOLi_scan
    <3> QED BY ZenonT(60), <2>1, <2>3, <3>1, aIOLiScanQuiet, QuietCounts
  <2>4. CASE aIOLi_test \/ aIOLi_check \/ aIOLi_none \/ aIOLi_undefined
    <3>1. UNCHANGED counters
      BY <2>4 DEF aIOLi_test, aIOLi_check, aIOLi_none, aIOLi_undefined, Abort, structures
    <3> QED BY <2>1, <2>4, <3>1, aIOLiQuiet, QuietCounts
  <2> QED BY <2>1, <2>2, <2>3, <2>4
<1> QED BY <1>1, <1>2, <1>3, <1>4, <1>5, <1>6 DEF schedule

\* What the users and the configuration ask for stays the same.
LEMMA InputKept ==
  ASSUME [Next]_vars
  PROVE  UNCHANGED <<data, current_alg>>
<1>1. ASSUME NEW r \in Reqs, UserStep(r) PROVE UNCHANGED input
  BY <1>1 DEF UserStep, CallAdd, Add, AddNoop, NoopCallback, agios_release_request,
       agios_cancel_request, CancelRemoves, CancelFindsNothing, users
<1>2. ASSUME agios_exit \/ ThreadStep PROVE UNCHANGED input
  BY <1>2 DEF agios_exit, ThreadStep, CheckQueued, WakeUp, TestStop, process_requests_step2, users
<1>3. ASSUME Tick PROVE UNCHANGED input
  BY <1>3 DEF Tick, coreVars, users
<1>4. ASSUME schedule PROVE UNCHANGED users
  <2>1. CASE timeorder \/ NOOP_empty \/ SJF
    BY <2>1 DEF timeorder, timeorder_test, timeorder_pick, timeorder_assert, NOOP_empty, SJF,
         SJF_test, SJF_scan, SJF_shortcut, SJF_pick, SJF_assert
  <2>2. CASE WFQ \/ TWINS
    BY <2>2 DEF WFQ, WFQ_test, WFQ_pick, WFQ_turn, TWINS, TWINS_look, TWINS_test, TWINS_pick,
         TWINS_break
  <2>3. CASE MLF
    BY ZenonT(60), <2>3 DEF MLF, MLF_test, MLF_skip, MLF_visit
  <2>4. CASE aIOLi
    BY ZenonT(60), <2>4 DEF aIOLi, aIOLi_test, aIOLi_scan, aIOLi_check, aIOLi_none, aIOLi_drain,
         aIOLi_undefined
  <2> QED BY <1>4, <2>1, <2>2, <2>3, <2>4 DEF schedule
<1>5. CASE UNCHANGED vars
  BY <1>5 DEF vars, coreVars, users, input
<1>6. CASE Next
  BY <1>1, <1>2, <1>3, <1>4, <1>6 DEF Next, CoreNext, users, input
<1> QED BY <1>5, <1>6

\* Any step, or none.
LEMMA NextCounts ==
  ASSUME Places, [Next]_vars
  PROVE  CountsStep
<1>1. CASE CoreNext /\ UNCHANGED <<statics, waitVars>>
  <2>1. UNCHANGED <<wfqVars, twinsVars>>
    BY <1>1 DEF statics
  <2>2. CASE \E r \in Reqs : UserStep(r)
    BY <2>1, <2>2, UserCounts
  <2>3. CASE agios_exit \/ CheckQueued \/ WakeUp \/ TestStop
    <3>1. UNCHANGED counters
      BY <2>3 DEF agios_exit, CheckQueued, WakeUp, TestStop, structures
    <3> QED BY <2>1, <2>3, <3>1, LoopQuiet, QuietCounts
  <2>4. CASE process_requests_step2
    <3>1. UNCHANGED counters
      BY <2>4 DEF process_requests_step2, structures
    <3>2. StateTypes' /\ ListTypes' /\ \E B : Delivers(B)
      BY <2>1, <2>4, Step2Delivers
    <3>3. Waiting' = Waiting
      BY <3>2, DeliversKeeps DEF Places
    <3> QED BY <3>1, <3>3 DEF CountsStep
  <2> QED BY <1>1, <2>2, <2>3, <2>4 DEF CoreNext, ThreadStep
<1>2. CASE Tick /\ UNCHANGED statics
  <2>1. UNCHANGED <<wfqVars, twinsVars>> /\ UNCHANGED counters
    BY <1>2 DEF statics, Tick, coreVars, structures
  <2> QED BY <1>2, <2>1, TickQuiet, QuietCounts
<1>3. CASE schedule
  BY <1>3, ScheduleCounts
<1>4. CASE UNCHANGED vars
  <2>1. UNCHANGED counters /\ UNCHANGED <<lists, pc>>
    BY <1>4 DEF vars, coreVars, structures, users
  <2>2. Waiting' = Waiting
    BY <2>1 DEF Waiting, Waits, ListAt, lists
  <2> QED BY <2>1, <2>2 DEF CountsStep
<1> QED BY <1>1, <1>2, <1>3, <1>4 DEF Next

\* What waits is part of what was accepted.
LEMMA WaitingFinite ==
  ASSUME Places
  PROVE  Waiting \in SUBSET Reqs /\ IsFiniteSet(Waiting)
<1>1. Waiting \in SUBSET Accepted /\ IsFiniteSet(Accepted)
  BY DEF Places, Complete, StateTypes
<1> QED BY <1>1, FS_Subset DEF Waiting

\* The counters are kept by every step.
LEMMA CountedKept == Places /\ Counted /\ [Next]_vars => Counted'
<1> SUFFICES ASSUME Places, Counted, [Next]_vars PROVE Counted'
  OBVIOUS
<1>1. data \in [Reqs -> Arguments] /\ data' = data /\ CountsStep
  BY InputKept, NextCounts DEF Places, StateTypes
<1>2. PICK W \in SUBSET Reqs : W = Waiting /\ IsFiniteSet(W)
  BY WaitingFinite
<1>3. CASE UNCHANGED counters /\ Waiting' = Waiting
  <2>1. Waiting' = W
    BY <1>2, <1>3
  <2>2. Counted' <=> Numbers(W, current_size', timeline_reqnb', current_reqnb', current_filenb')
    BY <1>1, <2>1, CountedNext
  <2>3. Numbers(W, current_size, timeline_reqnb, current_reqnb, current_filenb)
    BY <1>2 DEF Counted
  <2> QED BY <1>3, <2>2, <2>3 DEF counters
<1>4. ASSUME NEW r \in Reqs \ Waiting, CountNew(data[r].queue, data[r].len),
             Waiting' = Waiting \cup {r}
      PROVE  Counted'
  BY <1>1, <1>2, <1>4, NewCounted
<1>5. ASSUME NEW x \in Waiting, NEW l, CountCancelled(data[x], l), Waiting' = Waiting \ {x}
      PROVE  Counted'
  BY <1>1, <1>2, <1>5, CancelledCounted
<1>6. ASSUME NEW B \in SUBSET Waiting, CountTaken(B), Waiting' = Waiting \ B PROVE Counted'
  BY <1>1, <1>2, <1>6, TakenCounted
<1> QED BY <1>1, <1>3, <1>4, <1>5, <1>6 DEF CountsStep

\* At the start nothing waits and all counters are zero.
LEMMA CountedAtStart == LibraryInit => Counted /\ CountedInLines
<1> SUFFICES ASSUME LibraryInit PROVE Counted /\ CountedInLines
  OBVIOUS
<1>1. \A l \in Lists : ListAt(l) = <<>>
  BY ListNames, ListContents DEF LibraryInit, Init
<1>2. Members(<<>>) = {}
  BY DEF Members
<1>3. Waiting = {}
  BY <1>1, <1>2 DEF Waiting, Waits
<1>4. /\ \A q : OfQueue({}, q) = {}
      /\ \A f : OfFile({}, f) = {}
      /\ \A l : OfLine({}, l) = {}
      /\ Busy({}) = {}
  BY DEF OfQueue, OfFile, OfLine, Busy
<1>5. Cardinality({}) = 0
  BY FS_EmptySet
<1>6. Bytes({}) = 0
  BY SumEmpty DEF Bytes, Total
<1>7. /\ current_size = [q \in Queues |-> 0]
      /\ timeline_reqnb = [f \in Files |-> 0]
      /\ hashlist_reqcounter = [l \in Lines |-> 0]
      /\ current_reqnb = 0 /\ current_filenb = 0
  BY DEF LibraryInit, Init
<1>8. Numbers({}, current_size, timeline_reqnb, current_reqnb, current_filenb)
  BY <1>4, <1>5, <1>6, <1>7 DEF Numbers
<1>9. LineNumbers({}, hashlist_reqcounter)
  BY <1>4, <1>5, <1>7 DEF LineNumbers
<1> QED BY <1>3, <1>8, <1>9 DEF Counted, CountedInLines

\* The sizes of the queues, the number of requests of each file and the totals of the
\* library agree with what waits, through insertions, selections and cancellations, in
\* every instance.
THEOREM AlwaysCounted == Spec => []Counted
<1>1. Spec => []Places
  BY AlwaysPlaces
<1> QED BY <1>1, CountedAtStart, CountedKept, PTL DEF Spec

\* A cancellation finds the request whose file was named: nobody cancels, or the
\* algorithm looks in the queue that was named, or files whose requests may have the
\* same extent are in one line of the hashtable.
OneLineIsMeant ==
  \/ Cancellers = {}
  \/ Algs \subseteq {"SJF", "MLF", "aIOLi"}
  \/ \A a, b \in Arguments :
       a.offset = b.offset /\ a.len = b.len => LineOfQ(a.queue) = LineOfQ(b.queue)

\* The counters of the lines are kept by every step.
LEMMA LinesKept ==
  ASSUME OneLineIsMeant
  PROVE  Places /\ current_alg \in Algs /\ CountedInLines /\ [Next]_vars => CountedInLines'
<1> SUFFICES ASSUME Places, current_alg \in Algs, CountedInLines, [Next]_vars
             PROVE  CountedInLines'
  OBVIOUS
<1>1. data \in [Reqs -> Arguments] /\ data' = data /\ CountsStep
  BY InputKept, NextCounts DEF Places, StateTypes
<1>2. PICK W \in SUBSET Reqs : W = Waiting /\ IsFiniteSet(W)
  BY WaitingFinite
<1>3. CASE UNCHANGED counters /\ Waiting' = Waiting
  <2>1. Waiting' = W
    BY <1>2, <1>3
  <2>2. CountedInLines' <=> LineNumbers(W, hashlist_reqcounter')
    BY <1>1, <2>1, CountedNext
  <2>3. LineNumbers(W, hashlist_reqcounter)
    BY <1>2 DEF CountedInLines
  <2> QED BY <1>3, <2>2, <2>3 DEF counters
<1>4. ASSUME NEW r \in Reqs \ Waiting, CountNew(data[r].queue, data[r].len),
             Waiting' = Waiting \cup {r}
      PROVE  CountedInLines'
  BY <1>1, <1>2, <1>4, NewCounted
<1>5. ASSUME NEW r \in Cancellers, NEW x \in Waiting, Named(r, x),
             CountCancelled(data[x], LineOfQ(data[r].queue)), Waiting' = Waiting \ {x}
      PROVE  CountedInLines'
  <2>1. LineOfQ(data[r].queue) = LineOfQ(data[x].queue)
    <3>1. data[r] \in Arguments /\ data[x] \in Arguments
      BY <1>1, <1>2, RequestsAssumption
    <3>2. CASE Algs \subseteq {"SJF", "MLF", "aIOLi"}
      BY <1>5, <3>2 DEF Named, needs_hashtable
    <3>3. CASE \A a, b \in Arguments :
                 a.offset = b.offset /\ a.len = b.len => LineOfQ(a.queue) = LineOfQ(b.queue)
      BY <1>5, <3>1, <3>3 DEF Named
    <3> QED BY <3>2, <3>3 DEF OneLineIsMeant
  <2> QED BY <1>1, <1>2, <1>5, <2>1, CancelledCounted
<1>6. ASSUME NEW B \in SUBSET Waiting, CountTaken(B), Waiting' = Waiting \ B
      PROVE  CountedInLines'
  BY <1>1, <1>2, <1>6, TakenCounted
<1> QED BY <1>1, <1>3, <1>4, <1>5, <1>6 DEF CountsStep

\* What Counted and CountedInLines say, in the words of CountersAgree.
LEMMA CountedAgrees == Places /\ Counted /\ CountedInLines => CountersAgree
<1> SUFFICES ASSUME Places, Counted, CountedInLines PROVE CountersAgree
  OBVIOUS
<1>1. /\ \A q \in Queues : current_size[q] = Bytes(OfQueue(Waiting, q))
      /\ \A f \in Files : timeline_reqnb[f] = Cardinality(OfFile(Waiting, f))
      /\ current_reqnb = Cardinality(Waiting)
      /\ current_filenb = Cardinality(Busy(Waiting))
  BY DEF Counted, Numbers
<1>2. \A l \in Lines : hashlist_reqcounter[l] = Cardinality(OfLine(Waiting, l))
  BY DEF CountedInLines, LineNumbers
<1>3. PICK W \in SUBSET Reqs : W = Waiting /\ IsFiniteSet(W)
  BY WaitingFinite
<1>4. \A f : IsFiniteSet(OfFile(W, f)) /\ Cardinality(OfFile(W, f)) \in Nat
  BY <1>3, CountsOf DEF Places, StateTypes
<1>5. \A f : OfFile(W, f) # {} <=> Cardinality(OfFile(W, f)) > 0
  <2>1. \A f : Cardinality(OfFile(W, f)) = 0 <=> OfFile(W, f) = {}
    BY <1>4, FS_EmptySet
  <2> QED BY <1>4, <2>1
<1>6. {f \in Files : timeline_reqnb[f] > 0} = Busy(Waiting)
  BY <1>1, <1>3, <1>5 DEF Busy
<1> QED BY <1>1, <1>2, <1>6 DEF CountersAgree

\* All counters schedulers rely on, the lines' included, agree with what waits whenever a
\* cancellation means one line.
THEOREM AlwaysCountersAgree ==
  ASSUME OneLineIsMeant
  PROVE  Spec => []CountersAgree
<1>1. LibraryInit => current_alg \in Algs
  BY DEF LibraryInit, Init
<1>2. current_alg \in Algs /\ [Next]_vars => (current_alg \in Algs)'
  BY InputKept
<1> QED BY <1>1, <1>2, AlwaysPlaces, AlwaysCounted, CountedAtStart, LinesKept, CountedAgrees,
           PTL DEF Spec

-----------------------------------------------------------------------------
(* Where the requests of each algorithm are.                               *)

InTimeline == current_alg \in {"TO", "TO-agg", "SW"}

\* Each algorithm has requests in its own lists only.
OwnLists ==
  /\ timeline # <<>> => InTimeline
  /\ \A i \in 0 .. max_queue_id : multi_timeline[i] # <<>> => uses_multi_timeline
  /\ \A q \in Queues : queues[q] # <<>> => needs_hashtable

\* Which algorithms change which lists.
LEMMA ListOwners ==
  ASSUME Places, [Next]_vars
  PROVE  /\ timeline' = timeline \/ InTimeline \/ timeline # <<>>
         /\ multi_timeline' = multi_timeline \/ uses_multi_timeline
         /\ queues' = queues \/ needs_hashtable
<1> DEFINE Goal == /\ timeline' = timeline \/ InTimeline \/ timeline # <<>>
                   /\ multi_timeline' = multi_timeline \/ uses_multi_timeline
                   /\ queues' = queues \/ needs_hashtable
<1>1. ASSUME UNCHANGED lists PROVE Goal
  BY <1>1 DEF lists
<1>2. ASSUME NEW r \in Reqs, UserStep(r) PROVE Goal
  <2>1. CASE CallAdd(r) \/ AddNoop(r) \/ NoopCallback(r) \/ agios_release_request(r)
             \/ CancelFindsNothing(r)
    BY <1>1, <2>1 DEF CallAdd, AddNoop, NoopCallback, agios_release_request,
         CancelFindsNothing, structures
  <2>2. CASE Add(r)
    BY <2>2 DEF Add, Insert, InTimeline
  <2>3. CASE CancelRemoves(r)
    <3>1. CASE needs_hashtable
      BY <2>3, <3>1 DEF CancelRemoves
    <3>2. CASE ~ needs_hashtable
      <4>1. Found(r) = FindEntry(timeline, data[r].offset, data[r].len) /\ Found(r) # 0
        BY <2>3, <3>2 DEF CancelRemoves, Found, SearchedList
      <4>2. timeline \in Seq(Entry(data))
        BY DEF Places, ListTypes
      <4>3. Found(r) \in 1 .. Len(timeline)
        BY <4>1, <4>2, FoundEntry
      <4>4. timeline # <<>>
        BY <4>2, <4>3
      <4> QED BY <2>3, <3>2, <4>4 DEF CancelRemoves
    <3> QED BY <3>1, <3>2
  <2> QED BY <1>2, <2>1, <2>2, <2>3 DEF UserStep, agios_cancel_request
<1>3. ASSUME agios_exit \/ ThreadStep PROVE Goal
  BY <1>1, <1>3 DEF agios_exit, ThreadStep, CheckQueued, WakeUp, TestStop,
       process_requests_step2, structures
<1>4. ASSUME Tick PROVE Goal
  BY <1>1, <1>4 DEF Tick, coreVars, structures
<1>5. ASSUME schedule PROVE Goal
  <2>1. CASE timeorder
    BY <2>1 DEF timeorder, timeorder_test, timeorder_pick, timeorder_assert, Abort, structures,
         lists, InTimeline
  <2>2. CASE NOOP_empty
    BY <1>1, <2>2 DEF NOOP_empty, structures
  <2>3. CASE SJF
    BY <2>3 DEF SJF, SJF_test, SJF_scan, SJF_shortcut, SJF_pick, SJF_assert, Abort, structures,
         lists, needs_hashtable
  <2>4. CASE WFQ \/ TWINS
    BY <2>4 DEF WFQ, WFQ_test, WFQ_pick, WFQ_turn, TWINS, TWINS_look, TWINS_test, TWINS_pick,
         TWINS_break, structures, lists, uses_multi_timeline
  <2>5. CASE MLF
    BY ZenonT(60), <2>5 DEF MLF, MLF_test, MLF_skip, MLF_visit, structures, lists, needs_hashtable
  <2>6. CASE aIOLi
    BY ZenonT(60), <2>6 DEF aIOLi, aIOLi_test, aIOLi_scan, aIOLi_check, aIOLi_none, aIOLi_drain,
         aIOLi_undefined, Abort, structures, lists, needs_hashtable
  <2> QED BY <1>5, <2>1, <2>2, <2>3, <2>4, <2>5, <2>6 DEF schedule
<1>6. CASE UNCHANGED vars
  BY <1>1, <1>6 DEF vars, coreVars, structures
<1>7. CASE Next
  BY <1>2, <1>3, <1>4, <1>5, <1>7 DEF Next, CoreNext
<1> QED BY <1>6, <1>7

\* Every step keeps the requests in the lists of the algorithm.
LEMMA OwnListsKept == Places /\ OwnLists /\ [Next]_vars => OwnLists'
<1> SUFFICES ASSUME Places, OwnLists, [Next]_vars PROVE OwnLists'
  OBVIOUS
<1>1. current_alg' = current_alg
  BY InputKept
<1>2. /\ InTimeline' <=> InTimeline
      /\ needs_hashtable' <=> needs_hashtable
      /\ uses_multi_timeline' <=> uses_multi_timeline
  BY <1>1 DEF InTimeline, needs_hashtable, uses_multi_timeline
<1> QED BY <1>2, ListOwners DEF OwnLists

\* The lists of the other algorithms stay empty, always.
LEMMA AlwaysOwnLists == Spec => []OwnLists
<1>1. LibraryInit => OwnLists
  BY DEF LibraryInit, Init, OwnLists
<1> QED BY <1>1, OwnListsKept, AlwaysPlaces, PTL DEF Spec

\* A list has requests exactly when it is not empty.
LEMMA NonEmptyList ==
  ASSUME Places
  PROVE  \A l \in Lists : ListAt(l) # <<>> <=> Members(ListAt(l)) # {}
<1> SUFFICES ASSUME NEW l \in Lists PROVE ListAt(l) # <<>> <=> Members(ListAt(l)) # {}
  OBVIOUS
<1>1. ListAt(l) \in Seq(Entry(data))
  BY ListsOfEntries
<1> DEFINE list == ListAt(l)
<1> HIDE DEF list
<1>2. list \in Seq(Entry(data))
  BY <1>1 DEF list
<1>3. ASSUME list # <<>> PROVE Members(list) # {}
  <2>1. 1 \in DOMAIN list /\ list[1] \in Entry(data)
    BY <1>2, <1>3
  <2>2. IdSet(list[1]) # {}
    BY <2>1, IdsOfEntry
  <2> QED BY <2>1, <2>2 DEF Members
<1>4. Members(<<>>) = {}
  BY DEF Members
<1> QED BY <1>3, <1>4 DEF list

-----------------------------------------------------------------------------
(* No assertion fails.                                                     *)

\* No call of a user takes requests away from the scheduler, and every request has bytes.
PlainCalls == Cancellers = {} /\ \A a \in Arguments : a.len # 0

\* What a scheduler saw in a list is still there when it comes back to it.
Promise ==
  /\ Alive
  /\ InTimeline /\ apc = "pick" => timeline # <<>>
  /\ current_alg = "SJF" /\ apc \in {"scan", "shortcut", "pick"} /\ locals.chosen # NoQueue =>
       queues[locals.chosen] # <<>>
  /\ current_alg = "aIOLi" /\ apc \in {"scan", "pick", "drain"} /\ locals.selected # NoQueue =>
       queues[locals.selected] # <<>>

\* Lists that are not empty are not emptied.
StaysFull ==
  /\ timeline # <<>> => timeline' # <<>>
  /\ \A q \in Queues : queues[q] # <<>> => queues'[q] # <<>>

\* Requests that stay or come in leave no list empty.
LEMMA FullStays ==
  ASSUME Places, Still \/ \E r \in Reqs : ComesIn(r) \/ GoesPast(r) \/ ComesBack(r)
  PROVE  StaysFull
<1>1. \A l \in Lists : Members(ListAt(l)) \subseteq Members(ListAt(l)')
  <2>1. CASE ListsLose({})
    BY <2>1 DEF ListsLose
  <2>2. ASSUME NEW r, NEW m \in Lists, Members(ListAt(m)') = Members(ListAt(m)) \cup {r},
               \A l \in Lists \ {m} : UNCHANGED ListAt(l)
        PROVE  \A l \in Lists : Members(ListAt(l)) \subseteq Members(ListAt(l)')
    <3> SUFFICES ASSUME NEW l \in Lists PROVE Members(ListAt(l)) \subseteq Members(ListAt(l)')
      OBVIOUS
    <3>1. CASE l = m
      BY <2>2, <3>1
    <3>2. CASE l # m
      <4>1. ListAt(l)' = ListAt(l)
        BY <2>2, <3>2
      <4> QED BY <4>1
    <3> QED BY <3>1, <3>2
  <2> QED BY <2>1, <2>2 DEF Still, ComesIn, GoesPast, ComesBack
<1>2. Members(<<>>) = {}
  BY DEF Members
<1>3. \A l \in Lists : ListAt(l) # <<>> => ListAt(l)' # <<>>
  <2> SUFFICES ASSUME NEW l \in Lists, ListAt(l) # <<>>, ListAt(l)' = <<>> PROVE FALSE
    OBVIOUS
  <2>1. Members(ListAt(l)) # {}
    BY NonEmptyList
  <2>2. Members(ListAt(l)') = {}
    BY <1>2
  <2> QED BY <1>1, <2>1, <2>2
<1> QED BY <1>3, ListNames, ListContents DEF StaysFull

\* The requests in a queue of the hashtable are requests of that queue.
LEMMA MembersOfQueue ==
  ASSUME Places, NEW q \in Queues, NEW r \in Members(queues[q])
  PROVE  r \in Reqs /\ data[r].queue = q /\ r \in Waiting
<1>1. queues[q] \in Seq(EntryOf(data, q)) /\ data \in [Reqs -> Arguments]
  BY DEF Places, ListTypes, ListOf, StateTypes
<1>2. PICK i \in DOMAIN queues[q] : r \in IdSet(queues[q][i])
  BY MembersAre
<1> DEFINE e == queues[q][i]
<1>3. e \in Entry(data) /\ e.queue = q
  <2>1. e \in EntryOf(data, q)
    BY <1>1
  <2> QED BY <2>1 DEF EntryOf
<1> HIDE DEF e
<1>4. PICK k \in 1 .. Len(Parts(e)) : r = Parts(e)[k].id
  BY <1>2, <1>3, IdsOfEntry DEF e
<1>5. Parts(e)[k] \in Simple(data) /\ Parts(e)[k].queue = q
  BY <1>3, PartsOfEntry
<1>6. r \in Reqs /\ data[r].queue = q
  BY <1>1, <1>4, <1>5 DEF Simple
<1>7. r \in Waiting
  <2>1. QueueList(q) \in Lists /\ ListAt(QueueList(q)) = queues[q]
    BY ListNames, ListContents
  <2> QED BY <1>6, <2>1 DEF Waiting, Waits
<1> QED BY <1>6, <1>7

\* A queue with requests has bytes, when every request has.
LEMMA FullHasBytes ==
  ASSUME Places, Counted, PlainCalls, NEW q \in Queues, queues[q] # <<>>
  PROVE  current_size[q] > 0
<1>1. QueueList(q) \in Lists /\ ListAt(QueueList(q)) = queues[q]
  BY ListNames, ListContents
<1>2. PICK r : r \in Members(queues[q])
  BY <1>1, NonEmptyList
<1>3. r \in Reqs /\ data[r].queue = q /\ r \in Waiting
  BY <1>2, MembersOfQueue
<1>4. data \in [Reqs -> Arguments]
  BY DEF Places, StateTypes
<1>5. data[r].len \in Nat \ {0}
  BY <1>3, <1>4, DataAre DEF PlainCalls
<1> DEFINE S == OfQueue(Waiting, q)
           f == [x \in Reqs |-> data[x].len]
<1>6. IsFiniteSet(S) /\ S \in SUBSET Reqs /\ r \in S
  <2>1. S \in SUBSET Waiting /\ r \in S
    BY <1>3 DEF OfQueue
  <2> QED BY <2>1, WaitingFinite, FS_Subset
<1>7. \A x \in S : f[x] \in Nat
  BY <1>4, <1>6, DataAre
<1>8. f[r] = data[r].len /\ current_size[q] = Total(f, S)
  <2>1. current_size[q] = Bytes(S)
    BY DEF Counted, Numbers
  <2> QED BY <1>3, <2>1 DEF Bytes, Total
<1> HIDE DEF S, f
<1>9. Total(f, {r}) <= Total(f, S)
  BY <1>6, <1>7, SumOfPart
<1>10. Total(f, {r}) = f[r]
  <2>1. IsFiniteSet({}) /\ r \notin {} /\ \A y \in {} : f[y] \in Int
    BY FS_EmptySet
  <2>2. f[r] \in Int
    BY <1>5, <1>8
  <2>3. Total(f, {} \cup {r}) = Total(f, {}) + f[r]
    BY <2>1, <2>2, SumAdd
  <2>4. Total(f, {}) = 0 /\ {} \cup {r} = {r}
    BY SumEmpty
  <2> QED BY <2>2, <2>3, <2>4
<1>11. Total(f, S) \in Nat
  BY <1>6, <1>7, SumType
<1> QED BY <1>5, <1>8, <1>9, <1>10, <1>11

\* A queue with bytes has requests, with the algorithms of the hashtable.
LEMMA BytesAreFull ==
  ASSUME Places, Counted, OwnLists, needs_hashtable, NEW q \in Queues, current_size[q] > 0
  PROVE  queues[q] # <<>>
<1>1. current_size[q] = Bytes(OfQueue(Waiting, q))
  BY DEF Counted, Numbers
<1>2. Bytes({}) = 0
  BY SumEmpty DEF Bytes, Total
<1>3. OfQueue(Waiting, q) # {}
  BY <1>1, <1>2
<1>4. PICK r \in Waiting : data[r].queue = q
  BY <1>3 DEF OfQueue
<1>5. PICK l \in Lists : r \in Members(ListAt(l))
  BY <1>4 DEF Waiting, Waits
<1>6. ListAt(l) # <<>>
  BY <1>5, NonEmptyList
<1>7. ~ InTimeline /\ ~ uses_multi_timeline
  BY DEF InTimeline, uses_multi_timeline, needs_hashtable
<1>8. PICK p \in Queues : l = QueueList(p)
  BY <1>6, <1>7, ListNames, ListContents DEF OwnLists
<1>9. r \in Members(queues[p])
  BY <1>5, <1>8, ListContents
<1>10. p = q
  BY <1>4, <1>9, MembersOfQueue
<1> QED BY <1>6, <1>8, <1>10, ListContents

\* The timeline has the requests the counter counts, with the algorithms of the timeline.
LEMMA CountIsTimeline ==
  ASSUME Places, Counted, OwnLists, InTimeline, current_reqnb # 0
  PROVE  timeline # <<>>
<1>1. Waiting # {}
  BY FS_EmptySet DEF Counted, Numbers
<1>2. PICK r \in Waiting : TRUE
  BY <1>1
<1>3. PICK l \in Lists : r \in Members(ListAt(l))
  BY <1>2 DEF Waiting, Waits
<1>4. ListAt(l) # <<>>
  BY <1>3, NonEmptyList
<1>5. ~ needs_hashtable /\ ~ uses_multi_timeline
  BY DEF InTimeline, uses_multi_timeline, needs_hashtable
<1>6. l = TimelineList
  BY <1>4, <1>5, ListNames, ListContents DEF OwnLists
<1> QED BY <1>4, <1>6, ListContents

\* A step that leaves the thread where it is.
LEMMA PromiseWaits ==
  ASSUME Places, Promise, StaysFull, UNCHANGED <<current_alg, apc, locals>>
  PROVE  Promise'
<1>1. Alive' /\ (InTimeline' <=> InTimeline)
  BY DEF Promise, Alive, InTimeline
<1>2. InTimeline /\ apc = "pick" => timeline' # <<>>
  BY DEF Promise, StaysFull
<1>3. ASSUME current_alg = "SJF", apc \in {"scan", "shortcut", "pick"}, locals.chosen # NoQueue
      PROVE  queues'[locals.chosen] # <<>>
  <2>1. locals.chosen \in Queues
    BY <1>3 DEF Places, SchedulerTypes
  <2> QED BY <1>3, <2>1 DEF Promise, StaysFull
<1>4. ASSUME current_alg = "aIOLi", apc \in {"scan", "pick", "drain"}, locals.selected # NoQueue
      PROVE  queues'[locals.selected] # <<>>
  <2>1. locals.selected \in Queues
    BY <1>4 DEF Places, SchedulerTypes
  <2> QED BY <1>4, <2>1 DEF Promise, StaysFull
<1> QED BY <1>1, <1>2, <1>3, <1>4 DEF Promise

\* A step after which the thread has nothing in its hands.
LEMMA PromiseOver ==
  ASSUME apc' \notin {"abort", "scan", "shortcut", "pick", "drain"}
  PROVE  Promise'
BY DEF Promise, Alive

\* The calls of the users.
LEMMA UserPromise ==
  ASSUME Places, Promise, PlainCalls, NEW r \in Reqs, UserStep(r), UNCHANGED <<wfqVars, twinsVars>>
  PROVE  Promise'
<1>1. CASE CallAdd(r)
  <2>1. StaysFull
    BY <1>1, CallAddQuiet, FullStays
  <2>2. UNCHANGED <<current_alg, apc, locals>>
    BY <1>1 DEF CallAdd, input, thread
  <2> QED BY <2>1, <2>2, PromiseWaits
<1>2. CASE Add(r)
  <2>1. StaysFull
    BY <1>2, AddComesIn, FullStays
  <2>2. UNCHANGED <<current_alg, apc, locals>>
    BY <1>2 DEF Add, input, thread
  <2> QED BY <2>1, <2>2, PromiseWaits
<1>3. CASE AddNoop(r)
  <2>1. StaysFull
    BY <1>3, AddNoopGoesPast, FullStays
  <2>2. UNCHANGED <<current_alg, apc, locals>>
    BY <1>3 DEF AddNoop, input, thread
  <2> QED BY <2>1, <2>2, PromiseWaits
<1>4. CASE NoopCallback(r)
  <2>1. StaysFull
    BY <1>4, NoopCallbackComesBack, FullStays
  <2>2. UNCHANGED <<current_alg, apc, locals>>
    BY <1>4 DEF NoopCallback, input, thread
  <2> QED BY <2>1, <2>2, PromiseWaits
<1>5. CASE agios_release_request(r)
  <2>1. StaysFull
    BY <1>5, ReleaseQuiet, FullStays
  <2>2. UNCHANGED <<current_alg, apc, locals>>
    BY <1>5 DEF agios_release_request, users, input, thread
  <2> QED BY <2>1, <2>2, PromiseWaits
<1>6. CASE agios_cancel_request(r)
  BY <1>6 DEF agios_cancel_request, CancelRemoves, CancelFindsNothing, MayCancel, PlainCalls
<1> QED BY <1>1, <1>2, <1>3, <1>4, <1>5, <1>6 DEF UserStep

\* The steps of timeorder and NOOP.
LEMMA TimeorderPromise ==
  ASSUME Places, Counted, OwnLists, Promise, timeorder \/ NOOP_empty
  PROVE  Promise'
<1>1. CASE timeorder_test /\ InTimeline
  <2>1. UNCHANGED <<timeline, current_alg>>
    BY <1>1 DEF timeorder_test, structures, lists, users, input
  <2>2. apc' = "pick" => timeline # <<>>
    BY <1>1, CountIsTimeline DEF timeorder_test, Go
  <2>3. apc' \in {"pick", "test"}
    BY <1>1 DEF timeorder_test, Go
  <2> QED BY <1>1, <2>1, <2>2, <2>3 DEF Promise, Alive, InTimeline
<1>2. CASE timeorder_pick
  BY <1>2, PromiseOver DEF timeorder_pick, Process, Go
<1>3. CASE timeorder_assert /\ InTimeline
  BY <1>3 DEF timeorder_assert, Promise
<1>4. CASE NOOP_empty
  BY <1>4, PromiseOver DEF NOOP_empty, Go
<1> QED BY <1>1, <1>2, <1>3, <1>4 DEF timeorder, InTimeline

\* The steps of SJF: every file it evaluates has a size, and so has the queue it chooses.
LEMMA SJFPromise ==
  ASSUME Places, Counted, OwnLists, Promise, PlainCalls, SJF
  PROVE  Promise'
<1>0. current_alg = "SJF" /\ needs_hashtable /\ ~ InTimeline
  BY DEF SJF, needs_hashtable, InTimeline
<1>1. CASE SJF_test
  <2>1. apc' \in {"scan", "test"} /\ (apc' = "scan" => locals'.chosen = NoQueue)
    BY <1>1 DEF SJF_test, Go, FirstLine
  <2>2. current_alg' = current_alg
    BY <1>1 DEF SJF_test, users, input
  <2> QED BY <1>0, <2>1, <2>2 DEF Promise, Alive, InTimeline
<1>2. CASE SJF_scan
  <2>1. apc = "scan" /\ apc' = "shortcut" /\ UNCHANGED <<queues, current_alg>>
    BY <1>2 DEF SJF_scan, Go, structures, lists, users, input
  <2>2. locals'.chosen # NoQueue => queues[locals'.chosen] # <<>>
    BY <1>0, <1>2, <2>1, SJFScanFinds, BytesAreFull DEF Promise
  <2> QED BY <1>0, <2>1, <2>2 DEF Promise, Alive, InTimeline
<1>3. CASE SJF_shortcut
  <2>1. /\ apc = "shortcut" /\ apc' \in {"schedule", "pick", "scan"}
        /\ UNCHANGED <<queues, current_alg>>
    BY <1>3 DEF SJF_shortcut, Go, structures, lists, users, input
  <2>2. locals'.chosen = locals.chosen
    <3>1. DOMAIN locals = {"line", "chosen", "min", "evaluated"}
      BY <1>0, <2>1 DEF Places, SchedulerTypes
    <3> QED BY <1>3, <3>1 DEF SJF_shortcut
  <2> QED BY <1>0, <2>1, <2>2 DEF Promise, Alive, InTimeline
<1>4. CASE SJF_pick
  BY <1>4, PromiseOver DEF SJF_pick, Process, Go
<1>5. CASE SJF_assert
  <2>1. CASE apc = "scan" /\ \E f \in Evaluated(locals.line) : ~ Sane(f)
    <3>1. PICK f \in Evaluated(locals.line) : ~ Sane(f)
      BY <2>1
    <3>2. PICK t \in Types : queues[<<f, t>>] # <<>>
      BY DEF Evaluated
    <3>3. <<f, t>> \in Queues
      BY DEF Evaluated, Queues, Places, StateTypes
    <3>4. current_size[<<f, t>>] > 0
      BY <3>2, <3>3, FullHasBytes
    <3> QED BY <3>1, <3>4 DEF Sane
  <2>2. CASE apc = "pick" /\ queues[locals.chosen] = <<>>
    <3>1. locals.chosen \in Queues
      BY <1>0, <2>2 DEF Places, SchedulerTypes
    <3>2. locals.chosen # NoQueue
      BY SMTT(60), <3>1 DEF Queues, NoQueue
    <3> QED BY <1>0, <2>2, <3>2 DEF Promise
  <2> QED BY <1>5, <2>1, <2>2 DEF SJF_assert
<1> QED BY <1>1, <1>2, <1>3, <1>4, <1>5 DEF SJF

\* The steps of aIOLi: the queue it selected has requests until it takes some.
LEMMA aIOLiPromise ==
  ASSUME Places, Promise, aIOLi, UNCHANGED statics
  PROVE  Promise'
<1>0. current_alg = "aIOLi" /\ ~ InTimeline /\ UNCHANGED <<wfqVars, twinsVars>>
  BY DEF aIOLi, InTimeline, statics
<1> DEFINE StillFull == locals'.selected # NoQueue => queues'[locals'.selected] # <<>>
<1>1. ASSUME StillFull, apc' # "abort", current_alg' = current_alg PROVE Promise'
  BY <1>0, <1>1 DEF Promise, Alive, InTimeline
<1>2. CASE aIOLi_test \/ aIOLi_none
  <2>1. /\ apc' \in {"scan", "test", "sleep", "schedule"} /\ current_alg' = current_alg
        /\ apc' \in {"test", "sleep"} \/ locals'.selected = NoQueue
    BY <1>2 DEF aIOLi_test, aIOLi_none, Go, FirstScan, users, input
  <2> QED BY <1>1, <2>1, PromiseOver
<1>3. CASE aIOLi_scan
  <2>1. /\ current_alg' = current_alg /\ apc = "scan" /\ apc' # "abort"
    BY ZenonT(60), <1>3 DEF aIOLi_scan, Go, users, input
  <2>2. StaysFull
    BY <1>0, <1>3, aIOLiScanQuiet, FullStays
  <2>3. /\ locals'.selected \in Queues \cup {NoQueue}
        /\ locals'.selected = locals.selected \/ queues[locals'.selected] # <<>>
    BY <1>0, <1>3, ScanFinds
  <2>4. locals.selected # NoQueue => queues[locals.selected] # <<>>
    BY <1>0, <2>1 DEF Promise
  <2>5. StillFull
    BY <2>2, <2>3, <2>4 DEF StaysFull
  <2> QED BY <1>1, <2>1, <2>5
<1>4. CASE aIOLi_check
  <2>1. /\ UNCHANGED <<queues, current_alg>> /\ apc = "pick" /\ apc' \in {"drain", "schedule"}
        /\ locals' = locals \/ locals'.selected = NoQueue
    BY <1>4 DEF aIOLi_check, Go, FirstScan, structures, lists, users, input
  <2>2. locals.selected # NoQueue => queues[locals.selected] # <<>>
    BY <1>0, <2>1 DEF Promise
  <2> QED BY <1>1, <2>1, <2>2
<1>5. CASE aIOLi_drain
  BY <1>5, PromiseOver DEF aIOLi_drain, Go
<1>6. CASE aIOLi_undefined
  BY <1>0, <1>6 DEF aIOLi_undefined, Promise
<1> QED BY <1>2, <1>3, <1>4, <1>5, <1>6 DEF aIOLi

\* Every step keeps the promise.
LEMMA PromiseKept ==
  ASSUME PlainCalls
  PROVE  Places /\ Counted /\ OwnLists /\ Promise /\ [Next]_vars => Promise'
<1> SUFFICES ASSUME Places, Counted, OwnLists, Promise, [Next]_vars PROVE Promise'
  OBVIOUS
<1>1. CASE CoreNext /\ UNCHANGED <<statics, waitVars>>
  <2>1. UNCHANGED <<wfqVars, twinsVars>>
    BY <1>1 DEF statics
  <2>2. CASE \E r \in Reqs : UserStep(r)
    BY <2>1, <2>2, UserPromise
  <2>3. CASE agios_exit
    <3>1. StaysFull
      BY <2>1, <2>3, LoopQuiet, FullStays
    <3>2. UNCHANGED <<current_alg, apc, locals>>
      BY <2>3 DEF agios_exit, users, input
    <3> QED BY <3>1, <3>2, PromiseWaits
  <2>4. CASE CheckQueued \/ WakeUp \/ TestStop
    BY <2>4, PromiseOver DEF CheckQueued, WakeUp, TestStop, Go
  <2>5. CASE process_requests_step2
    <3>1. apc' \in {"callback", "schedule", "pick"} /\ (apc' = "pick" => current_alg = "WFQ")
      BY <2>5 DEF process_requests_step2, Go, LoopOfScheduler
    <3>2. current_alg' = current_alg
      BY InputKept
    <3> QED BY <3>1, <3>2 DEF Promise, Alive, InTimeline
  <2> QED BY <1>1, <2>2, <2>3, <2>4, <2>5 DEF CoreNext, ThreadStep
<1>2. CASE Tick /\ UNCHANGED statics
  <2>1. UNCHANGED <<wfqVars, twinsVars>> /\ UNCHANGED <<current_alg, apc, locals>>
    BY <1>2 DEF statics, Tick, coreVars, users, input, thread
  <2>2. StaysFull
    BY <1>2, <2>1, TickQuiet, FullStays
  <2> QED BY <2>1, <2>2, PromiseWaits
<1>3. CASE schedule
  <2>1. CASE timeorder \/ NOOP_empty
    BY <2>1, TimeorderPromise
  <2>2. CASE SJF
    BY <2>2, SJFPromise
  <2>3. CASE WFQ \/ TWINS \/ MLF
    <3>1. current_alg \in {"WFQ", "TWINS", "MLF"} /\ current_alg' = current_alg
      BY <2>3, InputKept DEF WFQ, TWINS, TWINS_look, MLF
    <3>2. apc' # "abort"
      <4>1. CASE WFQ
        BY <4>1 DEF WFQ, WFQ_test, WFQ_pick, WFQ_turn, Process, Go
      <4>2. CASE TWINS
        BY <4>2 DEF TWINS, TWINS_look, TWINS_test, TWINS_pick, TWINS_break, ReturnWaitingTime,
             Process, Go
      <4>3. CASE MLF
        BY <4>3 DEF MLF, MLF_test, MLF_skip, MLF_visit, NextLine, Go
      <4> QED BY <2>3, <4>1, <4>2, <4>3
    <3> QED BY <3>1, <3>2 DEF Promise, Alive, InTimeline
  <2>4. CASE aIOLi /\ UNCHANGED statics
    BY <2>4, aIOLiPromise
  <2> QED BY <1>3, <2>1, <2>2, <2>3, <2>4 DEF schedule
<1>4. CASE UNCHANGED vars
  <2>1. UNCHANGED <<current_alg, apc, locals, timeline, queues>>
    BY <1>4 DEF vars, coreVars, users, input, thread, structures, lists
  <2>2. StaysFull
    BY <2>1 DEF StaysFull
  <2> QED BY <2>1, <2>2, PromiseWaits
<1> QED BY <1>1, <1>2, <1>3, <1>4 DEF Next

\* When nobody cancels and every request has bytes, no assertion of a scheduler fails and
\* no empty list is read, whatever users add between two looks of the scheduler.
THEOREM NeverAborts ==
  ASSUME PlainCalls
  PROVE  Spec => []NoAbort
<1>1. LibraryInit => Promise
  BY DEF LibraryInit, Init, Promise, Alive
<1>2. Promise => NoAbort
  BY DEF Promise, Alive, NoAbort
<1> QED BY <1>1, <1>2, AlwaysPlaces, AlwaysCounted, AlwaysOwnLists, PromiseKept, PTL DEF Spec

-----------------------------------------------------------------------------
(* What a cancellation takes out is what it named.                         *)

\* An algorithm changes nothing the users did or saw.
LEMMA ScheduleQuiet ==
  ASSUME schedule
  PROVE  UNCHANGED <<users, history>>
<1>1. CASE timeorder \/ NOOP_empty \/ SJF
  BY <1>1 DEF timeorder, timeorder_test, timeorder_pick, timeorder_assert, NOOP_empty, SJF,
       SJF_test, SJF_scan, SJF_shortcut, SJF_pick, SJF_assert
<1>2. CASE WFQ \/ TWINS
  BY <1>2 DEF WFQ, WFQ_test, WFQ_pick, WFQ_turn, TWINS, TWINS_look, TWINS_test, TWINS_pick,
       TWINS_break
<1>3. CASE MLF
  BY ZenonT(60), <1>3 DEF MLF, MLF_test, MLF_skip, MLF_visit
<1>4. CASE aIOLi
  BY ZenonT(60), <1>4 DEF aIOLi, aIOLi_test, aIOLi_scan, aIOLi_check, aIOLi_none, aIOLi_drain,
       aIOLi_undefined
<1> QED BY <1>1, <1>2, <1>3, <1>4 DEF schedule

\* For each request that was taken out a call that answered "true" had named it.
NamedOut ==
  /\ cancel \in [Reqs -> {"uncalled", "true", "false"}]
  /\ \A g \in removed : \E r \in Cancellers : cancel[r] = "true" /\ Named(r, g)

\* What a step does to the answers and to the requests taken out.
CancelStep ==
  \/ UNCHANGED <<cancel, removed>>
  \/ \E r \in Cancellers :
       /\ cancel[r] = "uncalled"
       /\ \E answer \in {"true", "false"} : cancel' = [cancel EXCEPT ![r] = answer]
       /\ \/ removed' = removed /\ (FileOf(data[r].queue) \in files => Found(r) = 0)
          \/ \E g \in Reqs : /\ removed' = removed \cup {g} /\ Named(r, g) /\ g \notin removed
                             /\ cancel' = [cancel EXCEPT ![r] = "true"]

\* Only cancellations answer, and they take out what was named.
LEMMA NextCancels ==
  ASSUME Places, [Next]_vars
  PROVE  CancelStep
<1>1. ASSUME NEW r \in Reqs, CallAdd(r) \/ Add(r) \/ AddNoop(r) \/ NoopCallback(r)
                             \/ agios_release_request(r)
      PROVE  UNCHANGED <<cancel, removed>>
  BY <1>1 DEF CallAdd, Add, AddNoop, NoopCallback, agios_release_request, users, history
<1>2. ASSUME NEW r \in Reqs, CancelRemoves(r), UNCHANGED <<statics, waitVars>>
      PROVE  CancelStep
  <2> DEFINE gone == Cancelled(SearchedList(r), Found(r), data[r].offset, data[r].len)
  <2>1. /\ gone \in Simple(data)
        /\ gone.offset = data[r].offset /\ gone.len = data[r].len
        /\ needs_hashtable => gone.queue = data[r].queue
        /\ gone.id \in Waiting
    BY <1>2, CancelRemovesLeaves DEF statics, Leaves
  <2>2. /\ r \in Cancellers /\ cancel[r] = "uncalled"
        /\ cancel' = [cancel EXCEPT ![r] = "true"] /\ removed' = removed \cup {gone.id}
    BY <1>2 DEF CancelRemoves, MayCancel
  <2> HIDE DEF gone
  <2>3. /\ gone.id \in DOMAIN data /\ gone.queue = data[gone.id].queue
        /\ gone.offset = data[gone.id].offset /\ gone.len = data[gone.id].len
    BY <2>1 DEF Simple
  <2>4. gone.id \in Reqs /\ gone.id \notin removed
    BY <2>1, <2>3 DEF Places, StateTypes, Apart
  <2>5. Named(r, gone.id)
    BY <2>1, <2>3 DEF Named
  <2> QED BY <2>2, <2>4, <2>5 DEF CancelStep
<1>3. ASSUME NEW r \in Reqs, CancelFindsNothing(r) PROVE CancelStep
  <2>1. /\ r \in Cancellers /\ cancel[r] = "uncalled" /\ removed' = removed
        /\ \E answer \in {"true", "false"} : cancel' = [cancel EXCEPT ![r] = answer]
        /\ FileOf(data[r].queue) \in files => Found(r) = 0
    BY <1>3 DEF CancelFindsNothing, MayCancel, history
  <2> QED BY <2>1 DEF CancelStep
<1>4. CASE CoreNext /\ UNCHANGED <<statics, waitVars>>
  <2>1. CASE \E r \in Reqs : UserStep(r)
    BY <1>1, <1>2, <1>3, <1>4, <2>1 DEF UserStep, agios_cancel_request, CancelStep
  <2>2. CASE agios_exit \/ ThreadStep
    <3>1. UNCHANGED <<cancel, removed>>
      BY <2>2 DEF agios_exit, ThreadStep, CheckQueued, WakeUp, TestStop,
           process_requests_step2, users, history
    <3> QED BY <3>1 DEF CancelStep
  <2> QED BY <1>4, <2>1, <2>2 DEF CoreNext
<1>5. CASE Tick \/ schedule \/ UNCHANGED vars
  <2>1. UNCHANGED <<cancel, removed>>
    BY <1>5, ScheduleQuiet DEF Tick, vars, coreVars, users, history
  <2> QED BY <2>1 DEF CancelStep
<1> QED BY <1>4, <1>5 DEF Next

\* Each cancellation keeps the answers that others had.
LEMMA NamedOutKept == Places /\ NamedOut /\ [Next]_vars => NamedOut'
<1> SUFFICES ASSUME Places, NamedOut, [Next]_vars PROVE NamedOut'
  OBVIOUS
<1>1. CancelStep /\ data' = data /\ current_alg' = current_alg
  BY NextCancels, InputKept
<1>2. \A r, g : Named(r, g)' <=> Named(r, g)
  BY <1>1 DEF Named, needs_hashtable
<1>3. CASE UNCHANGED <<cancel, removed>>
  BY <1>2, <1>3 DEF NamedOut
<1>4. ASSUME NEW r \in Cancellers, cancel[r] = "uncalled", NEW answer \in {"true", "false"},
             cancel' = [cancel EXCEPT ![r] = answer],
             \/ removed' = removed
             \/ \E g \in Reqs : removed' = removed \cup {g} /\ Named(r, g) /\ answer = "true"
      PROVE  NamedOut'
  <2>1. r \in Reqs /\ cancel'[r] = answer /\ \A s \in Cancellers : s # r => cancel'[s] = cancel[s]
    BY <1>4, RequestsAssumption DEF NamedOut
  <2>2. cancel' \in [Reqs -> {"uncalled", "true", "false"}]
    BY <1>4 DEF NamedOut
  <2>3. ASSUME NEW g \in removed PROVE \E s \in Cancellers : cancel'[s] = "true" /\ Named(s, g)
    <3>1. PICK s \in Cancellers : cancel[s] = "true" /\ Named(s, g)
      BY <2>3 DEF NamedOut
    <3> QED BY <1>4, <2>1, <3>1
  <2>4. ASSUME NEW g \in removed' PROVE \E s \in Cancellers : cancel'[s] = "true" /\ Named(s, g)
    BY <1>4, <2>1, <2>3, <2>4
  <2> QED BY <1>2, <2>2, <2>4 DEF NamedOut
<1>5. CASE ~ UNCHANGED <<cancel, removed>>
  <2>1. PICK r \in Cancellers :
          /\ cancel[r] = "uncalled"
          /\ \E answer \in {"true", "false"} : cancel' = [cancel EXCEPT ![r] = answer]
          /\ \/ removed' = removed
             \/ \E g \in Reqs : /\ removed' = removed \cup {g} /\ Named(r, g)
                                /\ cancel' = [cancel EXCEPT ![r] = "true"]
    BY <1>1, <1>5 DEF CancelStep
  <2> QED BY <1>4, <2>1
<1> QED BY <1>3, <1>5

\* What agios_cancel_request takes out has the offset and the length that a user asked for
\* who was then told "true"; with SJF, MLF and aIOLi it is of the file and the type asked
\* for as well.
THEOREM CancelledWereNamed == Spec => []NamedOut
<1>1. LibraryInit => NamedOut
  BY DEF LibraryInit, Init, NamedOut
<1> QED BY <1>1, NamedOutKept, AlwaysPlaces, PTL DEF Spec

\* No two requests a user may ask for are taken for one another: the timeline is searched
\* for an offset and a length only.
ExtentsNameOne ==
  \A a, b \in Arguments :
    a.offset = b.offset /\ a.len = b.len
      /\ (Algs \subseteq {"SJF", "MLF", "aIOLi"} => a.queue = b.queue) => a = b

\* Where an extent tells which request is meant, cancellations take out requests like the
\* ones that were cancelled, and no others.
THEOREM CancelsTheirOwn ==
  ASSUME ExtentsNameOne
  PROVE  Spec => []CancelsWhatWasNamed
<1>1. ASSUME Places, current_alg \in Algs, NamedOut PROVE CancelsWhatWasNamed
  <2>1. data \in [Reqs -> Arguments] /\ removed \in SUBSET Reqs
    BY <1>1 DEF Places, StateTypes
  <2>2. ASSUME NEW g \in removed PROVE \E r \in Reqs : cancel[r] = "true" /\ data[r] = data[g]
    <3>1. PICK r \in Cancellers : cancel[r] = "true" /\ Named(r, g)
      BY <1>1, <2>2 DEF NamedOut
    <3>2. r \in Reqs /\ g \in Reqs /\ data[r] \in Arguments /\ data[g] \in Arguments
      BY <2>1, <2>2, <3>1, RequestsAssumption
    <3>3. data[g].offset = data[r].offset /\ data[g].len = data[r].len
          /\ (Algs \subseteq {"SJF", "MLF", "aIOLi"} => data[g].queue = data[r].queue)
      BY <1>1, <3>1 DEF Named, needs_hashtable
    <3>4. data[g] = data[r]
      BY <3>2, <3>3, ExtentsNameOne DEF ExtentsNameOne
    <3> QED BY <3>1, <3>2, <3>4
  <2> QED BY <2>2 DEF CancelsWhatWasNamed
<1>2. LibraryInit => current_alg \in Algs
  BY DEF LibraryInit, Init
<1>3. current_alg \in Algs /\ [Next]_vars => (current_alg \in Algs)'
  BY InputKept
<1>4. Spec => [](current_alg \in Algs)
  BY <1>2, <1>3, PTL DEF Spec
<1>5. Spec => []NamedOut
  BY CancelledWereNamed
<1>6. Spec => []Places
  BY AlwaysPlaces
<1> QED BY <1>1, <1>4, <1>5, <1>6, PTL
-----------------------------------------------------------------------------
(* The waits that are imposed.                                             *)

InfoType == [laststartoff : Nat, lastfinaloff : Nat, predictedoff : Nat, lastaggregation : Nat,
             nextquantum : Nat, shifts : {0, 1}, betters : {0, 1}]

\* A wait for one of the two reasons takes away what could be a reason again: a
\* prediction is followed once, and an aggregation is hoped for once.
OneWait(i) ==
  /\ i \in InfoType
  /\ i.shifts = 1 => i.predictedoff = 0
  /\ i.betters = 1 => i.lastaggregation = 0

WaitsOnce == globalinfo \in [Queues -> InfoType] /\ \A q \in Queues : OneWait(globalinfo[q])

\* A request that proceeds allows both kinds of waits anew.
LEMMA PostprocessWaits ==
  ASSUME NEW D, NEW req \in Entry(D), NEW i \in InfoType
  PROVE  OneWait(waiting_algorithms_postprocess(req, i))
<1> DEFINE n == waiting_algorithms_postprocess(req, i)
<1>1. req.offset \in Nat /\ req.len \in Nat /\ req.reqnb \in Nat
  BY DEF Entry, Simple, Virtual
<1>2. End(req) \in Nat
  BY <1>1 DEF End
<1>3. /\ n \in [laststartoff : Nat, lastfinaloff : Nat, predictedoff : Nat, lastaggregation : Nat,
                nextquantum : Nat, shifts : {0}, betters : {0}]
  BY <1>1, <1>2 DEF waiting_algorithms_postprocess, InfoType
<1> HIDE DEF n
<1>4. n \in InfoType /\ n.shifts = 0 /\ n.betters = 0
  BY <1>3 DEF InfoType
<1>5. OneWait(n)
  BY <1>4 DEF OneWait
<1> QED BY <1>5 DEF n

\* The check imposes a wait only where it leaves no reason for another one.
LEMMA CheckWaits ==
  ASSUME NEW D, NEW req \in Entry(D), NEW w, NEW i, OneWait(i)
  PROVE  OneWait(check_selection(req, w, i).info)
<1> DEFINE shift  == i.predictedoff # 0 /\ req.offset > i.predictedoff
           better == /\ i.predictedoff = 0
                     /\ req.offset > i.lastfinaloff /\ i.lastaggregation > req.reqnb
           last == IF better THEN 0 ELSE i.lastaggregation
           s == IF shift THEN i.shifts + 1 ELSE i.shifts
           b == IF better THEN i.betters + 1 ELSE i.betters
           n == [i EXCEPT !.predictedoff = 0, !.lastaggregation = last, !.shifts  = s,
                          !.betters = b]
<1>1. check_selection(req, w, i).info = n
  BY DEF check_selection
<1>2. /\ i \in InfoType /\ req.offset \in Nat /\ req.reqnb \in Nat \ {0}
      /\ i.shifts = 1 => i.predictedoff = 0
      /\ i.betters = 1 => i.lastaggregation = 0
  <2>1. req.reqnb \in Nat \ {0}
    BY PartsOfEntry
  <2> QED BY <2>1 DEF OneWait, Entry, Simple, Virtual
<1>3. shift => i.shifts = 0
  BY <1>2 DEF InfoType
<1>4. better => i.betters = 0
  BY <1>2 DEF InfoType
<1>5. /\ n.laststartoff = i.laststartoff /\ n.lastfinaloff = i.lastfinaloff
      /\ n.predictedoff = 0 /\ n.nextquantum = i.nextquantum
      /\ n.lastaggregation = last /\ n.shifts = s /\ n.betters = b
      /\ n = [laststartoff |-> n.laststartoff, lastfinaloff |-> n.lastfinaloff,
              predictedoff |-> n.predictedoff, lastaggregation |-> n.lastaggregation,
              nextquantum |-> n.nextquantum, shifts |-> n.shifts, betters |-> n.betters]
  <2>1. DOMAIN i = {"laststartoff", "lastfinaloff", "predictedoff", "lastaggregation",
                    "nextquantum", "shifts", "betters"}
    BY <1>2 DEF InfoType
  <2> HIDE DEF last, s, b
  <2>2. /\ n.laststartoff = i.laststartoff /\ n.lastfinaloff = i.lastfinaloff
        /\ n.predictedoff = 0 /\ n.nextquantum = i.nextquantum
        /\ n.lastaggregation = last /\ n.shifts = s /\ n.betters = b
    BY <2>1
  <2>3. DOMAIN n = DOMAIN i /\ n = [f \in DOMAIN i |-> n[f]]
    OBVIOUS
  <2> HIDE DEF n
  <2>4. n = [laststartoff |-> n.laststartoff, lastfinaloff |-> n.lastfinaloff,
             predictedoff |-> n.predictedoff, lastaggregation |-> n.lastaggregation,
             nextquantum |-> n.nextquantum, shifts |-> n.shifts, betters |-> n.betters]
    BY <2>1, <2>3
  <2> QED BY <2>2, <2>4
<1> HIDE DEF n, shift, better
<1>6. n.shifts \in {0, 1} /\ n.betters \in {0, 1}
  BY <1>2, <1>3, <1>4, <1>5 DEF InfoType
<1>7. n \in InfoType
  BY <1>2, <1>5, <1>6 DEF InfoType
<1>8. n.betters = 1 => n.lastaggregation = 0
  BY <1>2, <1>5 DEF InfoType
<1> QED BY <1>1, <1>5, <1>7, <1>8 DEF OneWait

\* The quantum of the next visit is a number.
LEMMA QuantumType ==
  ASSUME NEW used, NEW quantum \in Nat
  PROVE  adjust_quantum(used, quantum) \in Nat
<1> DEFINE rate     == (used * 100) \div quantum
           required == CASE rate >= 175 -> 2 * quantum
                         [] rate \in 125 .. 174 -> (15 * quantum) \div 10
                         [] rate \in 75 .. 124 -> quantum
                         [] OTHER -> quantum \div 2
<1>1. 2 * quantum \in Nat /\ (15 * quantum) \div 10 \in Nat /\ quantum \div 2 \in Nat
  OBVIOUS
<1>2. required \in Nat
  <2> HIDE DEF rate
  <2> DEFINE A == rate >= 175
             B == rate \in 125 .. 174
             C == rate \in 75 .. 124
  <2>1. required \in {2 * quantum, (15 * quantum) \div 10, quantum, quantum \div 2}
    <3> HIDE DEF A, B, C
    <3>1. (CASE A -> 2 * quantum [] B -> (15 * quantum) \div 10 [] C -> quantum
             [] OTHER -> quantum \div 2)
          \in {2 * quantum, (15 * quantum) \div 10, quantum, quantum \div 2}
      OBVIOUS
    <3> QED BY <3>1 DEF A, B, C
  <2> HIDE DEF required
  <2> QED BY <1>1, <2>1
<1> HIDE DEF required
<1>3. config_aioli_quantum \in Nat /\ MaxAggreg \in Nat
  BY aIOLiAssumption, AlgAssumption
<1>4. adjust_quantum(used, quantum) = IF required = 0 THEN config_aioli_quantum
                                      ELSE IF required > MaxAggreg THEN MaxAggreg ELSE required
  BY DEF adjust_quantum, required
<1> QED BY <1>2, <1>3, <1>4

\* The information kept for a queue after the first m requests of a batch, for all m.
After(i, batch, n) ==
  CHOOSE g : g = [m \in 0 .. n |-> IF m = 0 THEN i
                                   ELSE waiting_algorithms_postprocess(batch[m], g[m - 1])]

\* The last request of the batch allows both kinds of waits anew.
LEMMA AfterBatch ==
  ASSUME NEW D, NEW batch \in Seq(Entry(D)), NEW n \in Nat \ {0}, n = Len(batch),
         NEW i \in InfoType
  PROVE  OneWait(After(i, batch, n)[n])
<1> DEFINE Body(g) == [m \in 0 .. n |-> IF m = 0 THEN i
                                        ELSE waiting_algorithms_postprocess(batch[m], g[m - 1])]
           step == [a \in (1 .. n) \X InfoType |-> waiting_algorithms_postprocess(batch[a[1]], a[2])]
           A == After(i, batch, n)
<1>1. \A m \in 1 .. n : batch[m] \in Entry(D)
  BY ElementOfSeq
<1>2. ASSUME NEW m \in 1 .. n, NEW e \in InfoType
      PROVE  /\ waiting_algorithms_postprocess(batch[m], e) \in InfoType
             /\ OneWait(waiting_algorithms_postprocess(batch[m], e))
  <2>1. OneWait(waiting_algorithms_postprocess(batch[m], e))
    BY <1>1, PostprocessWaits
  <2> QED BY <2>1 DEF OneWait
<1>3. step \in [(1 .. n) \X InfoType -> InfoType]
  <2>1. ASSUME NEW a \in (1 .. n) \X InfoType
        PROVE  waiting_algorithms_postprocess(batch[a[1]], a[2]) \in InfoType
    <3>1. a[1] \in 1 .. n /\ a[2] \in InfoType
      OBVIOUS
    <3> QED BY <1>2, <3>1
  <2> QED BY <2>1
<1>4. \E g \in [0 .. n -> InfoType] : g = Body(g)
  <2>1. PICK g \in [0 .. n -> InfoType] : Recurs(i, n, step, g)
    <3> HIDE DEF step
    <3> QED BY <1>3, RecursionExists
  <2>2. g = [m \in 0 .. n |-> IF m = 0 THEN i ELSE step[<<m, g[m - 1]>>]]
    BY <2>1 DEF Recurs
  <2>3. ASSUME NEW m \in 0 .. n, m # 0
        PROVE  step[<<m, g[m - 1]>>] = waiting_algorithms_postprocess(batch[m], g[m - 1])
    <3>1. m \in 1 .. n /\ m - 1 \in 0 .. n
      BY <2>3
    <3>2. g[m - 1] \in InfoType
      BY <3>1
    <3>3. <<m, g[m - 1]>> \in (1 .. n) \X InfoType
      BY <3>1, <3>2
    <3> QED BY <3>3
  <2> HIDE DEF step
  <2>4. g = Body(g)
    BY <2>2, <2>3
  <2> HIDE DEF Body
  <2> QED BY <2>4
<1>5. A = Body(A)
  <2> HIDE DEF Body
  <2>1. \E g : g = Body(g)
    BY <1>4
  <2>2. A = CHOOSE g : g = Body(g)
    BY DEF After, Body
  <2> QED BY <2>1, <2>2, Zenon
<1> HIDE DEF A
<1>6. A[0] = i /\ \A m \in 1 .. n : A[m] = waiting_algorithms_postprocess(batch[m], A[m - 1])
  <2>1. 0 \in 0 .. n /\ \A m \in 1 .. n : m \in 0 .. n /\ m # 0
    OBVIOUS
  <2> QED BY <1>5, <2>1
<1> DEFINE Ok == {m \in Nat : m <= n => A[m] \in InfoType}
<1>7. Nat \subseteq Ok
  <2>1. 0 \in Ok
    BY <1>6
  <2>2. ASSUME NEW m \in Nat, m \in Ok PROVE m + 1 \in Ok
    <3> SUFFICES ASSUME m + 1 <= n PROVE A[m + 1] \in InfoType
      OBVIOUS
    <3>1. m + 1 \in 1 .. n /\ m + 1 - 1 = m /\ A[m] \in InfoType
      BY <2>2
    <3> QED BY <1>2, <1>6, <3>1
  <2> HIDE DEF Ok
  <2> QED BY <2>1, <2>2, NatIn
<1>8. n \in 1 .. n /\ n - 1 \in Nat /\ n - 1 <= n
  OBVIOUS
<1>9. A[n - 1] \in InfoType
  BY <1>7, <1>8
<1>10. A[n] = waiting_algorithms_postprocess(batch[n], A[n - 1])
  BY <1>6, <1>8
<1> QED BY <1>2, <1>8, <1>9, <1>10 DEF A

\* aIOLi looks whether the request it selected has to wait.
LEMMA aIOLiCheckWaits ==
  ASSUME Places, WaitsOnce, aIOLi_check, current_alg = "aIOLi"
  PROVE  WaitsOnce'
<1>1. PICK q \in Queues : q = locals.selected
  BY SMTT(60) DEF aIOLi_check, Places, SchedulerTypes
<1> DEFINE answer == check_selection(Head(queues[q]), waiting[FileOf(q)], globalinfo[q])
<1>2. queues[q] # <<>> /\ globalinfo' = [globalinfo EXCEPT ![q] = answer.info]
  BY <1>1 DEF aIOLi_check
<1>3. Head(queues[q]) \in Entry(data)
  <2>1. queues[q] \in Seq(Entry(data))
    BY DEF Places, ListTypes
  <2> QED BY <1>2, <2>1
<1>4. OneWait(answer.info)
  BY <1>3, CheckWaits DEF WaitsOnce
<1> HIDE DEF answer
<1>5. answer.info \in InfoType
  BY <1>4 DEF OneWait
<1> QED BY <1>2, <1>4, <1>5 DEF WaitsOnce

\* aIOLi takes a batch.
LEMMA aIOLiDrainWaits ==
  ASSUME Places, WaitsOnce, aIOLi_drain, current_alg = "aIOLi"
  PROVE  WaitsOnce'
<1>1. PICK q \in Queues : q = locals.selected
  BY SMTT(60) DEF aIOLi_drain, Places, SchedulerTypes
<1> DEFINE list    == queues[q]
           quantum == globalinfo[q].nextquantum
           taken   == Taken(list, quantum)
           batch   == SubSeq(list, 1, taken)
           next    == IF quantum = 0 THEN config_aioli_quantum
                      ELSE adjust_quantum(Used(list, taken), quantum)
           last    == After(globalinfo[q], batch, taken)[taken]
<1>2. list # <<>> /\ globalinfo' = [globalinfo EXCEPT ![q] = [last EXCEPT !.nextquantum = next]]
  BY <1>1 DEF aIOLi_drain, After
<1>3. globalinfo[q] \in InfoType /\ quantum \in Nat
  BY DEF WaitsOnce, InfoType
<1>4. next \in Nat
  <2>1. config_aioli_quantum \in Nat
    BY aIOLiAssumption
  <2> HIDE DEF quantum, taken
  <2> QED BY <1>3, <2>1, QuantumType
<1>5. list \in Seq(Entry(data)) /\ NoneTwice(list)
  <2>1. QueueList(q) \in Lists /\ ListAt(QueueList(q)) = queues[q]
    BY ListNames, ListContents
  <2> QED BY <2>1 DEF Places, ListTypes, Apart
<1> HIDE DEF list
<1>6. taken \in 1 .. Len(list) /\ Len(list) \in Nat
  BY <1>2, <1>5, TakenSome, LenProperties
<1> HIDE DEF taken, next
<1>7. taken \in 0 .. Len(list) /\ taken \in Nat \ {0}
  BY <1>6
<1>8. batch \in Seq(Entry(data)) /\ Len(batch) = taken
  BY <1>5, <1>7, Rest
<1> HIDE DEF batch
<1>9. OneWait(last)
  BY <1>3, <1>7, <1>8, AfterBatch
<1> HIDE DEF last
<1>10. OneWait([last EXCEPT !.nextquantum = next])
  <2> DEFINE new == [last EXCEPT !.nextquantum = next]
  <2>1. /\ new \in InfoType /\ new.shifts = last.shifts /\ new.betters = last.betters
        /\ new.predictedoff = last.predictedoff /\ new.lastaggregation = last.lastaggregation
    BY <1>4, <1>9 DEF OneWait, InfoType
  <2> QED BY <1>9, <2>1 DEF OneWait
<1>11. [last EXCEPT !.nextquantum = next] \in InfoType
  BY <1>10 DEF OneWait
<1> QED BY <1>2, <1>10, <1>11 DEF WaitsOnce

\* What MLF makes of the information of the queue it selects a request from.
LEMMA MLFSelectWaits ==
  ASSUME Places, WaitsOnce, NEW place, place = MLFPlace, NEW f \in Files, NEW q \in Queues,
         MLF_select_request(f, place).queue = q
  PROVE  OneWait(MLF_select_request(f, place).info)
<1>1. q = QueueOf(f, place) /\ q # NoQueue
  <2>1. MLF_select_request(f, place).queue = QueueOf(f, place)
    BY DEF MLF_select_request
  <2>2. q # NoQueue
    BY DEF Queues, NoQueue
  <2> QED BY <2>1, <2>2
<1> DEFINE req    == Grown(q)[place[q]]
           answer == check_selection(req, Visited(f), globalinfo[q])
           new    == IF answer.proceeds THEN waiting_algorithms_postprocess(req, answer.info)
                     ELSE answer.info
<1>2. MLF_select_request(f, place).info = new
  BY <1>1 DEF MLF_select_request
<1>3. /\ queues \in [Queues -> Seq(Entry(data))] /\ queues[q] \in ListOf(data, q)
      /\ NoneTwice(queues[q])
  <2>1. QueueList(q) \in Lists /\ ListAt(QueueList(q)) = queues[q]
    BY ListNames, ListContents
  <2> QED BY <2>1 DEF Places, ListTypes, Apart
<1>4. /\ Grown(q) \in ListOf(data, q)
      /\ \A i \in 1 .. Len(Grown(q)) : Grown(q)[i] \in Entry(data)
  BY <1>3, GrownList
<1>5. Len(Grown(q)) \in Nat
  BY <1>4, QueueIsList, LenProperties
<1>6. place[q] \in 1 .. Len(Grown(q))
  <2>1. place[q] \in 0 .. Len(Grown(q))
    BY <1>5, MLFPlaceType
  <2>2. place[q] # 0
    BY <1>1, QueueOfFile
  <2> QED BY <1>5, <2>1, <2>2
<1>7. req \in Entry(data)
  BY <1>4, <1>6
<1> HIDE DEF req
<1>8. OneWait(answer.info)
  BY <1>7, CheckWaits DEF WaitsOnce
<1> HIDE DEF answer
<1>9. OneWait(waiting_algorithms_postprocess(req, answer.info))
  <2>1. answer.info \in InfoType
    BY <1>8 DEF OneWait
  <2> QED BY <1>7, <2>1, PostprocessWaits
<1>10. OneWait(new)
  BY <1>8, <1>9
<1> QED BY <1>2, <1>10

\* MLF visits a line.
LEMMA MLFWaits ==
  ASSUME Places, WaitsOnce, MLF_visit
  PROVE  WaitsOnce'
<1> DEFINE here     == FilesHere
           selected == [f \in here |-> MLF_select_request(f, MLFPlace)]
           Sel(q)   == FileOf(q) \in here /\ selected[FileOf(q)].queue = q
           Body(pl, se) == globalinfo' =
             [q \in Queues |-> IF FileOf(q) \in here /\ se[FileOf(q)].queue = q
                               THEN se[FileOf(q)].info ELSE globalinfo[q]]
<1>1. globalinfo' = [q \in Queues |-> IF Sel(q) THEN selected[FileOf(q)].info ELSE globalinfo[q]]
  <2>1. \E pl \in {MLFPlace} : \E se \in {[f \in here |-> MLF_select_request(f, pl)]} :
          Body(pl, se)
    BY ZenonT(60) DEF MLF_visit
  <2> HIDE DEF Body
  <2>2. PICK pl \in {MLFPlace} : \E se \in {[f \in here |-> MLF_select_request(f, pl)]} : Body(pl, se)
    BY <2>1
  <2>3. PICK se \in {[f \in here |-> MLF_select_request(f, pl)]} : Body(pl, se)
    BY <2>2
  <2>4. pl = MLFPlace /\ se = selected
    BY <2>2, <2>3
  <2>5. Body(MLFPlace, selected)
    BY <2>3, <2>4
  <2> QED BY <2>5 DEF Body
<1>2. ASSUME NEW q \in Queues, Sel(q)
      PROVE  OneWait(selected[FileOf(q)].info)
  <2>1. FileOf(q) \in here /\ here \subseteq Files
    BY <1>2 DEF FilesHere, Places, StateTypes
  <2> HIDE DEF here
  <2>2. selected[FileOf(q)] = MLF_select_request(FileOf(q), MLFPlace)
    BY <2>1
  <2>3. MLF_select_request(FileOf(q), MLFPlace).queue = q
    BY <1>2, <2>2
  <2> HIDE DEF selected, Sel
  <2>4. OneWait(MLF_select_request(FileOf(q), MLFPlace).info)
    BY <2>1, <2>3, MLFSelectWaits
  <2> QED BY <2>2, <2>4
<1> HIDE DEF selected, Sel
<1>3. \A q \in Queues : OneWait(globalinfo'[q])
  <2>1. \A q \in Queues : OneWait(globalinfo[q])
    BY DEF WaitsOnce
  <2> HIDE DEF Sel
  <2>2. ASSUME NEW q \in Queues PROVE OneWait(globalinfo'[q])
    <3>1. globalinfo'[q] = IF Sel(q) THEN selected[FileOf(q)].info ELSE globalinfo[q]
      BY <1>1
    <3> QED BY <1>2, <2>1, <3>1
  <2> QED BY <2>2
<1>4. globalinfo' \in [Queues -> InfoType]
  <2>1. \A q \in Queues : globalinfo'[q] \in InfoType
    BY <1>3 DEF OneWait
  <2>2. globalinfo' = [q \in Queues |-> globalinfo'[q]]
    BY <1>1
  <2> QED BY <2>1, <2>2
<1> QED BY <1>3, <1>4 DEF WaitsOnce

\* Every step keeps the waits of every queue at one for each reason.
LEMMA WaitsOnceKept == Places /\ WaitsOnce /\ [Next]_vars => WaitsOnce'
<1> SUFFICES ASSUME Places, WaitsOnce, [Next]_vars PROVE WaitsOnce'
  OBVIOUS
<1>1. CASE UNCHANGED globalinfo
  BY <1>1 DEF WaitsOnce
<1>2. CASE UNCHANGED waitVars \/ Tick
  BY <1>1, <1>2 DEF waitVars, Tick
<1>3. CASE MLF
  <2>1. MLF_test \/ MLF_skip => UNCHANGED waitVars
    BY DEF MLF_test, MLF_skip
  <2> QED BY <1>2, <1>3, <2>1, MLFWaits DEF MLF
<1>4. CASE aIOLi
  <2>1. aIOLi_test \/ aIOLi_scan \/ aIOLi_none \/ aIOLi_undefined => UNCHANGED globalinfo
    BY ZenonT(60) DEF aIOLi_test, aIOLi_scan, aIOLi_none, aIOLi_undefined, waitVars
  <2> QED BY <1>1, <1>4, <2>1, aIOLiCheckWaits, aIOLiDrainWaits DEF aIOLi
<1>5. CASE UNCHANGED vars
  BY <1>2, <1>5 DEF vars
<1> QED BY <1>2, <1>3, <1>4, <1>5 DEF Next, schedule

\* Between two requests of one queue, MLF and aIOLi make its file wait at most once for a
\* request they predicted and at most once for a larger aggregation: check_selection sets
\* predictedoff or lastaggregation to 0 when it imposes a wait, and only a request that
\* proceeds sets them again.
THEOREM NoSecondWait == Spec => []OneWaitForEachReason
<1>1. LibraryInit => WaitsOnce
  <2> SUFFICES ASSUME LibraryInit PROVE WaitsOnce
    OBVIOUS
  <2> DEFINE first == [laststartoff |-> 0, lastfinaloff |-> 0, predictedoff |-> 0,
                       lastaggregation |-> 0, nextquantum |-> 0, shifts |-> 0, betters |-> 0]
  <2>1. globalinfo = [q \in Queues |-> first]
    BY DEF LibraryInit, waiting_init
  <2>2. first \in InfoType /\ first.shifts = 0 /\ first.betters = 0
    BY DEF InfoType
  <2> HIDE DEF first
  <2>3. OneWait(first)
    BY <2>2 DEF OneWait
  <2> QED BY <2>1, <2>2, <2>3 DEF WaitsOnce
<1>2. WaitsOnce => OneWaitForEachReason
  BY DEF WaitsOnce, OneWait, InfoType, OneWaitForEachReason
<1> QED BY <1>1, <1>2, WaitsOnceKept, AlwaysPlaces, PTL DEF Spec

-----------------------------------------------------------------------------
(* The order of the queues and the size of the aggregations.               *)

\* Entries of the same requests in the same order, with the same extents.
Alike(e, f) ==
  /\ IdSet(e) = IdSet(f) /\ e.queue = f.queue /\ e.offset = f.offset /\ e.len = f.len
  /\ \A k \in 1 .. f.reqnb : /\ Parts(e)[k].offset = Parts(f)[k].offset
                             /\ Parts(e)[k].len = Parts(f)[k].len

\* The entries of a list come from another one, in the same order.
ComesFrom(new, list) ==
  /\ \A i, j \in DOMAIN new : i < j =>
       \E a, b \in DOMAIN list : /\ a < b /\ new[i].offset = list[a].offset
                                 /\ new[j].offset = list[b].offset
  /\ \A i \in DOMAIN new : \E a \in DOMAIN list :
       new[i].reqnb = list[a].reqnb /\ Alike(new[i], list[a])

\* Such a list is in order if the other one is, and has no larger aggregations, none with
\* a gap and none with room for another request.
LEMMA FromOrdered ==
  ASSUME NEW list, NEW new, ComesFrom(new, list)
  PROVE  /\ InOffsetOrder(list) => InOffsetOrder(new)
         /\ \A max : NoneOver(list, max) => NoneOver(new, max)
         /\ \A D : NoGapIn(D, list) => NoGapIn(D, new)
         /\ \A D, S : list \in Seq(Entry(D)) /\ SolidIn(D, S, list) => SolidIn(D, S, new)
<1>1. ASSUME InOffsetOrder(list) PROVE InOffsetOrder(new)
  <2> SUFFICES ASSUME NEW i \in DOMAIN new, NEW j \in DOMAIN new, i < j
               PROVE  new[i].offset <= new[j].offset
    BY DEF InOffsetOrder
  <2>1. PICK a \in DOMAIN list, b \in DOMAIN list :
          a < b /\ new[i].offset = list[a].offset /\ new[j].offset = list[b].offset
    BY DEF ComesFrom
  <2>2. list[a].offset <= list[b].offset
    BY <1>1, <2>1 DEF InOffsetOrder
  <2> QED BY <2>1, <2>2
<1>2. ASSUME NEW max, NoneOver(list, max) PROVE NoneOver(new, max)
  BY <1>2 DEF NoneOver, ComesFrom
<1>3. ASSUME NEW D, NoGapIn(D, list) PROVE NoGapIn(D, new)
  <2>1. ASSUME NEW e, NEW f, NoGap(D, f), Alike(e, f) PROVE NoGap(D, e)
    BY <2>1 DEF NoGap, StartsIn, EndsIn, Alike, End
  <2> QED BY <1>3, <2>1 DEF NoGapIn, ComesFrom
<1>4. ASSUME NEW D, NEW S, list \in Seq(Entry(D)), SolidIn(D, S, list) PROVE SolidIn(D, S, new)
  <2> SUFFICES ASSUME NEW i \in DOMAIN new PROVE Solid(D, S, new[i])
    BY DEF SolidIn
  <2>1. PICK a \in DOMAIN list : new[i].reqnb = list[a].reqnb /\ Alike(new[i], list[a])
    BY DEF ComesFrom
  <2> DEFINE e == new[i]
             f == list[a]
  <2>2. f \in Entry(D) /\ Consecutive(f) /\ Clear(D, S, f)
    BY <1>4, ElementOfSeq, LenProperties DEF SolidIn, Solid
  <2>3. e.reqnb = f.reqnb /\ Alike(e, f)
    BY <2>1
  <2> HIDE DEF e, f
  <2>4. f.reqnb \in Nat \ {0}
    BY <2>2, PartsOfEntry
  <2>5. 1 \in 1 .. f.reqnb /\ f.reqnb \in 1 .. f.reqnb
    BY <2>4
  <2>6. \A k \in 1 .. f.reqnb : /\ Parts(e)[k].offset = Parts(f)[k].offset
                                 /\ End(Parts(e)[k]) = End(Parts(f)[k])
    BY <2>3 DEF Alike, End
  <2>7. e.offset = f.offset /\ End(e) = End(f) /\ IdSet(e) = IdSet(f) /\ e.queue = f.queue
    BY <2>3 DEF Alike, End
  <2>8. Consecutive(e)
    BY <2>2, <2>3, <2>5, <2>6, <2>7 DEF Consecutive
  <2>9. Clear(D, S, e)
    BY <2>2, <2>7 DEF Clear, Beside
  <2> QED BY <2>8, <2>9 DEF Solid, e
<1> QED BY <1>1, <1>2, <1>3, <1>4

\* A list comes from itself.
LEMMA FromItself == \A list : ComesFrom(list, list)
BY DEF ComesFrom, Alike

\* Its entries are entries of the other one, in the same order.
PartOf(new, list) ==
  /\ \A i, j \in DOMAIN new : i < j =>
       \E a, b \in DOMAIN list : a < b /\ new[i] = list[a] /\ new[j] = list[b]
  /\ \A i \in DOMAIN new : \E a \in DOMAIN list : new[i] = list[a]

\* That is what is left when its head, its first n entries or one of its entries are
\* taken.
LEMMA RestIsPart ==
  ASSUME NEW E, NEW list \in Seq(E), NoneTwice(list)
  PROVE  /\ list # <<>> => PartOf(Tail(list), list)
         /\ \A n \in 0 .. Len(list) : PartOf(SubSeq(list, n + 1, Len(list)), list)
         /\ \A i \in 1 .. Len(list) : PartOf(RemoveAt(list, i), list)
<1>1. Len(list) \in Nat /\ DOMAIN list = 1 .. Len(list)
  BY LenProperties
<1>2. ASSUME NEW n \in 0 .. Len(list)
      PROVE  PartOf(SubSeq(list, n + 1, Len(list)), list)
  <2> DEFINE new == SubSeq(list, n + 1, Len(list))
  <2>1. /\ new \in Seq(E) /\ Len(new) = Len(list) - n
        /\ \A j \in 1 .. Len(list) - n : new[j] = list[j + n]
    BY Rest
  <2> HIDE DEF new
  <2>2. DOMAIN new = 1 .. Len(list) - n
    BY <2>1, LenProperties
  <2>3. \A j \in DOMAIN new : j + n \in DOMAIN list /\ new[j] = list[j + n]
    BY <1>1, <2>1, <2>2
  <2>4. \A i, j \in DOMAIN new : i < j => i + n < j + n
    BY <1>1, <2>2
  <2>5. PartOf(new, list)
    BY <2>3, <2>4, Zenon DEF PartOf
  <2> QED BY <2>5 DEF new
<1>3. ASSUME list # <<>> PROVE PartOf(Tail(list), list)
  <2>1. Tail(list) = SubSeq(list, 1 + 1, Len(list)) /\ 1 \in 0 .. Len(list)
    BY <1>1, <1>3
  <2> HIDE DEF PartOf
  <2> QED BY <1>2, <2>1
<1>4. ASSUME NEW k \in 1 .. Len(list) PROVE PartOf(RemoveAt(list, k), list)
  <2> DEFINE new == RemoveAt(list, k)
             at(j) == IF j < k THEN j ELSE j + 1
  <2>1. /\ new \in Seq(E) /\ Len(new) = Len(list) - 1
        /\ \A j \in 1 .. Len(list) - 1 : new[j] = IF j < k THEN list[j] ELSE list[j + 1]
    BY RemoveAtProperties
  <2> HIDE DEF new
  <2>2. DOMAIN new = 1 .. Len(list) - 1
    BY <2>1, LenProperties
  <2>3. \A j \in DOMAIN new : at(j) \in DOMAIN list /\ new[j] = list[at(j)]
    BY <1>1, <2>1, <2>2
  <2>4. \A i, j \in DOMAIN new : i < j => at(i) < at(j)
    BY <1>1, <2>2
  <2> HIDE DEF at
  <2>5. PartOf(new, list)
    BY <2>3, <2>4, Zenon DEF PartOf
  <2> QED BY <2>5 DEF new
<1> QED BY <1>2, <1>3, <1>4

\* Hence that comes from it.
LEMMA FromRest ==
  ASSUME NEW E, NEW list \in Seq(E), NoneTwice(list)
  PROVE  /\ list # <<>> => ComesFrom(Tail(list), list)
         /\ \A n \in 0 .. Len(list) : ComesFrom(SubSeq(list, n + 1, Len(list)), list)
         /\ \A i \in 1 .. Len(list) : ComesFrom(RemoveAt(list, i), list)
<1>1. ASSUME NEW new, PartOf(new, list) PROVE ComesFrom(new, list)
  BY <1>1, Zenon DEF PartOf, ComesFrom, Alike
<1> QED BY <1>1, RestIsPart

\* Looking at the requests of a queue changes neither their order nor their extents.
LEMMA FromGrown ==
  ASSUME Places, NEW q \in Queues
  PROVE  /\ ComesFrom(Grown(q), queues[q])
         /\ \A i \in 1 .. Len(Grown(q)) : ComesFrom(RemoveAt(Grown(q), i), queues[q])
<1>1. /\ queues \in [Queues -> Seq(Entry(data))] /\ queues[q] \in ListOf(data, q)
      /\ NoneTwice(queues[q])
  <2>1. QueueList(q) \in Lists /\ ListAt(QueueList(q)) = queues[q]
    BY ListNames, ListContents
  <2> QED BY <2>1 DEF Places, ListTypes, Apart
<1>2. /\ Grown(q) \in ListOf(data, q) /\ Len(Grown(q)) = Len(queues[q]) /\ NoneTwice(Grown(q))
      /\ \A i \in 1 .. Len(queues[q]) : /\ Grown(q)[i] = increment_sched_factor(queues[q][i])
  BY <1>1, GrownList
<1>3. /\ DOMAIN queues[q] = 1 .. Len(queues[q]) /\ Len(queues[q]) \in Nat
      /\ queues[q] \in Seq(Entry(data)) /\ Grown(q) \in Seq(EntryOf(data, q))
      /\ DOMAIN Grown(q) = 1 .. Len(queues[q])
  BY <1>1, <1>2, QueueIsList, LenProperties
<1> DEFINE list == queues[q]
           grown == Grown(q)
<1> HIDE DEF list, grown
<1>4. \A i \in DOMAIN grown : /\ i \in DOMAIN list /\ grown[i].offset = list[i].offset
                              /\ grown[i].reqnb = list[i].reqnb /\ Alike(grown[i], list[i])
  <2> SUFFICES ASSUME NEW i \in 1 .. Len(list)
               PROVE  /\ grown[i].offset = list[i].offset /\ grown[i].reqnb = list[i].reqnb
                      /\ Alike(grown[i], list[i])
    BY <1>3 DEF list, grown
  <2>1. list[i] \in Entry(data)
    BY <1>3, ElementOfSeq DEF list
  <2>2. grown[i] = increment_sched_factor(list[i])
    BY <1>2 DEF list, grown
  <2> DEFINE e == list[i]
             g == grown[i]
  <2> HIDE DEF e, g
  <2>3. /\ g.queue = e.queue /\ g.offset = e.offset /\ g.len = e.len /\ g.reqnb = e.reqnb
        /\ IdSet(g) = IdSet(e)
        /\ Parts(g) = Parts(e) \/ (Parts(e) = <<e>> /\ Parts(g) = <<g>>)
    BY <2>1, <2>2, IncrementedEntry DEF e, g
  <2>4. \A k \in 1 .. e.reqnb : /\ Parts(g)[k].offset = Parts(e)[k].offset
                                 /\ Parts(g)[k].len = Parts(e)[k].len
    <3>1. e.reqnb = Len(Parts(e))
      BY <2>1, PartsOfEntry DEF e
    <3>2. CASE Parts(e) = <<e>> /\ Parts(g) = <<g>>
      <4>1. \A k \in 1 .. e.reqnb : k = 1
        BY <3>1, <3>2
      <4>2. Parts(e)[1] = e /\ Parts(g)[1] = g
        BY <3>2
      <4> QED BY <2>3, <4>1, <4>2
    <3> QED BY <2>3, <3>2
  <2> QED BY <2>3, <2>4 DEF Alike, e, g
<1>5. ComesFrom(grown, list)
  BY <1>4, Zenon DEF ComesFrom
<1>6. ASSUME NEW k \in 1 .. Len(grown) PROVE ComesFrom(RemoveAt(grown, k), list)
  <2>1. ComesFrom(RemoveAt(grown, k), grown)
    BY <1>2, <1>3, FromRest DEF grown
  <2> DEFINE new == RemoveAt(grown, k)
  <2> HIDE DEF new
  <2>2. ComesFrom(new, grown)
    BY <2>1 DEF new
  <2>3. ComesFrom(new, list)
    <3>1. ASSUME NEW i \in DOMAIN new, NEW j \in DOMAIN new, i < j
          PROVE  \E a, b \in DOMAIN list : /\ a < b /\ new[i].offset = list[a].offset
                                           /\ new[j].offset = list[b].offset
      <4>1. PICK a \in DOMAIN grown, b \in DOMAIN grown :
              a < b /\ new[i].offset = grown[a].offset /\ new[j].offset = grown[b].offset
        BY <2>2, <3>1 DEF ComesFrom
      <4> QED BY <1>4, <4>1
    <3>2. ASSUME NEW i \in DOMAIN new
          PROVE  \E a \in DOMAIN list : new[i].reqnb = list[a].reqnb /\ Alike(new[i], list[a])
      <4>1. PICK a \in DOMAIN grown : new[i].reqnb = grown[a].reqnb /\ Alike(new[i], grown[a])
        BY <2>2, <3>2 DEF ComesFrom
      <4> QED BY <1>4, <4>1 DEF Alike
    <3> QED BY <3>1, <3>2 DEF ComesFrom
  <2> QED BY <2>3 DEF new
<1> QED BY <1>5, <1>6 DEF list, grown

\* What a step does to a queue: requests go, one comes in, or one is cancelled.
QueueStep(q) ==
  \/ ComesFrom(queues'[q], queues[q])
  \/ \E r \in Reqs \ Accepted :
       /\ needs_hashtable /\ data[r].queue = q
       /\ queues'[q] = hashtable_add_req(Request(r), queues[q], max_aggreg_size)
  \/ \E r \in Cancellers :
       /\ needs_hashtable /\ data[r].queue = q
       /\ FindEntry(queues[q], data[r].offset, data[r].len) # 0
       /\ queues'[q] = CancelEntry(queues[q], FindEntry(queues[q], data[r].offset, data[r].len),
                                   data[r].offset, data[r].len)
       /\ removed' = removed \cup
            {Cancelled(queues[q], FindEntry(queues[q], data[r].offset, data[r].len),
                       data[r].offset, data[r].len).id}

\* And to the timeline.
TimelineStep ==
  \/ ComesFrom(timeline', timeline)
  \/ \E r \in Reqs \ Accepted :
       \/ timeline' = timeline_add_req(Request(r), timeline, current_alg = "TO-agg", max_aggreg_size)
       \/ \E i \in 1 .. Len(timeline) + 1 : timeline' = InsertAt(timeline, i, Request(r))
  \/ \E r \in Cancellers :
       /\ FindEntry(timeline, data[r].offset, data[r].len) # 0
       /\ timeline' = CancelEntry(timeline, FindEntry(timeline, data[r].offset, data[r].len),
                                  data[r].offset, data[r].len)
       /\ removed' = removed \cup
            {Cancelled(timeline, FindEntry(timeline, data[r].offset, data[r].len),
                       data[r].offset, data[r].len).id}

ListSteps == TimelineStep /\ \A q \in Queues : QueueStep(q)

\* Lists that are left alone.
LEMMA ListsAlone ==
  ASSUME UNCHANGED <<timeline, queues>>
  PROVE  ListSteps
BY FromItself DEF ListSteps, TimelineStep, QueueStep

\* One queue changes and the others come from what they were.
LEMMA OneQueueSteps ==
  ASSUME Places, UNCHANGED timeline, NEW q \in Queues, NEW new,
         queues' = [queues EXCEPT ![q] = new], QueueStep(q)
  PROVE  ListSteps
<1>1. ASSUME NEW p \in Queues PROVE QueueStep(p)
  <2>1. CASE p # q
    <3>1. queues'[p] = queues[p]
      BY <2>1 DEF Places, ListTypes
    <3> QED BY <3>1, FromItself DEF QueueStep
  <2> QED BY <2>1
<1> QED BY <1>1, FromItself DEF ListSteps, TimelineStep

\* The calls of the users.
LEMMA UserLists ==
  ASSUME Places, NEW r \in Reqs, UserStep(r), UNCHANGED <<wfqVars, twinsVars>>
  PROVE  ListSteps
<1>1. CASE Add(r)
  <2>1. r \in Reqs \ Accepted
    BY <1>1, AddComesIn DEF ComesIn
  <2>2. data[r].queue \in Queues /\ queues \in [Queues -> Seq(Entry(data))]
    BY DataAre DEF Places, StateTypes, ListTypes
  <2>3. Insert(r)
    BY <1>1 DEF Add
  <2>4. CASE needs_hashtable /\ UNCHANGED timeline
             /\ queues' = [queues EXCEPT ![data[r].queue] =
                             hashtable_add_req(Request(r), @, max_aggreg_size)]
    <3> DEFINE q == data[r].queue
               new == hashtable_add_req(Request(r), queues[q], max_aggreg_size)
    <3>1. queues' = [queues EXCEPT ![q] = new] /\ queues'[q] = new
      BY <2>2, <2>4
    <3>2. QueueStep(q)
      BY <2>1, <2>4, <3>1 DEF QueueStep
    <3> HIDE DEF new
    <3> QED BY <2>2, <2>4, <3>1, <3>2, OneQueueSteps
  <2>5. CASE UNCHANGED <<timeline, queues>>
    BY <2>5, ListsAlone
  <2>6. CASE UNCHANGED queues
             /\ \/ timeline' = timeline_add_req(Request(r), timeline, current_alg = "TO-agg", max_aggreg_size)
                \/ \E i \in 1 .. Len(timeline) + 1 : timeline' = InsertAt(timeline, i, Request(r))
    BY <2>1, <2>6, FromItself DEF ListSteps, TimelineStep, QueueStep
  <2> QED BY <2>3, <2>4, <2>5, <2>6 DEF Insert
<1>2. CASE CancelRemoves(r)
  <2>1. r \in Cancellers /\ Found(r) # 0 /\ data[r].queue \in Queues
    BY <1>2, DataAre DEF CancelRemoves, MayCancel, Places, StateTypes
  <2>2. CASE needs_hashtable
    <3> DEFINE q == data[r].queue
               at  == FindEntry(queues[q], data[r].offset, data[r].len)
               new == CancelEntry(queues[q], at, data[r].offset, data[r].len)
    <3>1. queues' = [queues EXCEPT ![q] = new] /\ UNCHANGED timeline
          /\ at # 0
          /\ removed' = removed \cup {Cancelled(queues[q], at, data[r].offset, data[r].len).id}
      BY <1>2, <2>1, <2>2 DEF CancelRemoves, SearchedList, Found
    <3>2. queues'[q] = new
      BY <2>1, <3>1 DEF Places, ListTypes
    <3>3. QueueStep(q)
      BY <2>1, <2>2, <3>1, <3>2 DEF QueueStep
    <3> HIDE DEF new
    <3> QED BY <2>1, <3>1, <3>3, OneQueueSteps
  <2>3. CASE ~ needs_hashtable
    <3>1. /\ UNCHANGED queues /\ FindEntry(timeline, data[r].offset, data[r].len) # 0
          /\ timeline' = CancelEntry(timeline, FindEntry(timeline, data[r].offset, data[r].len),
                                     data[r].offset, data[r].len)
          /\ removed' = removed \cup
               {Cancelled(timeline, FindEntry(timeline, data[r].offset, data[r].len),
                          data[r].offset, data[r].len).id}
      BY <1>2, <2>1, <2>3 DEF CancelRemoves, SearchedList, Found
    <3>2. TimelineStep
      BY <2>1, <3>1 DEF TimelineStep
    <3> QED BY <3>1, <3>2, FromItself DEF ListSteps, QueueStep
  <2> QED BY <2>2, <2>3
<1>3. CASE CallAdd(r) \/ AddNoop(r) \/ NoopCallback(r) \/ agios_release_request(r)
           \/ CancelFindsNothing(r)
  <2>1. UNCHANGED <<timeline, queues>>
    BY <1>3 DEF CallAdd, AddNoop, NoopCallback, agios_release_request, CancelFindsNothing,
         structures, lists
  <2> QED BY <2>1, ListsAlone
<1> QED BY <1>1, <1>2, <1>3 DEF UserStep, agios_cancel_request

\* The lists and the queues are sequences in which no request is twice.
LEMMA PlainLists ==
  ASSUME Places
  PROVE  /\ timeline \in Seq(Entry(data)) /\ NoneTwice(timeline)
         /\ \A q \in Queues : /\ queues[q] \in Seq(Entry(data)) /\ queues[q] \in ListOf(data, q)
                              /\ NoneTwice(queues[q])
<1>1. /\ TimelineList \in Lists /\ ListAt(TimelineList) = timeline
      /\ \A q \in Queues : QueueList(q) \in Lists /\ ListAt(QueueList(q)) = queues[q]
  BY ListNames, ListContents
<1>2. \A l \in Lists : NoneTwice(ListAt(l))
  BY DEF Places, Apart
<1> QED BY <1>1, <1>2 DEF Places, ListTypes

\* The steps of MLF.
LEMMA MLFLists ==
  ASSUME Places, MLF_visit
  PROVE  ListSteps
<1> DEFINE here == FilesHere
           Body(pl, se) == queues' =
             [q \in Queues |->
               IF FileOf(q) \notin here \/ ~ LookedAt(q, pl) THEN queues[q]
               ELSE IF /\ FileOf(q) \in here /\ se[FileOf(q)].queue = q
                       /\ FileOf(q) \in {f \in here : se[f].proceeds}
                    THEN RemoveAt(Grown(q), pl[q])
               ELSE Grown(q)]
<1>1. Body(MLFPlace, [f \in here |-> MLF_select_request(f, MLFPlace)]) /\ UNCHANGED timeline
  <2>1. /\ \E pl \in {MLFPlace} : \E se \in {[f \in here |-> MLF_select_request(f, pl)]} :
             Body(pl, se)
        /\ UNCHANGED timeline
    BY ZenonT(60) DEF MLF_visit
  <2> HIDE DEF Body
  <2>2. PICK pl \in {MLFPlace} : \E se \in {[f \in here |-> MLF_select_request(f, pl)]} : Body(pl, se)
    BY <2>1
  <2>3. PICK se \in {[f \in here |-> MLF_select_request(f, pl)]} : Body(pl, se)
    BY <2>2
  <2> QED BY <2>1, <2>2, <2>3
<1>2. ASSUME NEW q \in Queues PROVE ComesFrom(queues'[q], queues[q])
  <2> DEFINE f  == FileOf(q)
             se == [g \in here |-> MLF_select_request(g, MLFPlace)]
  <2>1. CASE queues'[q] = queues[q] \/ queues'[q] = Grown(q)
    BY <2>1, FromItself, FromGrown
  <2>2. CASE /\ queues'[q] = RemoveAt(Grown(q), MLFPlace[q])
             /\ f \in here /\ se[f].queue = q /\ se[f].proceeds
    <3>1. f \in Files
      BY <2>2 DEF FilesHere, Places, StateTypes
    <3>2. MLF_select_request(f, MLFPlace).proceeds /\ MLF_select_request(f, MLFPlace).queue = q
      BY <2>2
    <3>3. MLFPlace[q] \in 1 .. Len(Grown(q))
      BY <3>1, <3>2, MLFTakes
    <3> QED BY <2>2, <3>3, FromGrown
  <2>3. \/ queues'[q] = queues[q] \/ queues'[q] = Grown(q)
        \/ /\ queues'[q] = RemoveAt(Grown(q), MLFPlace[q])
           /\ f \in here /\ se[f].queue = q /\ f \in {g \in here : se[g].proceeds}
    <3>1. Body(MLFPlace, se)
      BY <1>1
    <3> HIDE DEF se, here
    <3> QED BY <3>1
  <2> QED BY <2>1, <2>2, <2>3
<1> QED BY <1>1, <1>2, FromItself DEF ListSteps, TimelineStep, QueueStep

\* The steps of the algorithms.
LEMMA ScheduleLists ==
  ASSUME Places, schedule
  PROVE  ListSteps
<1>1. CASE timeorder_pick
  <2>1. timeline # <<>> /\ timeline' = Tail(timeline) /\ UNCHANGED queues
    BY <1>1 DEF timeorder_pick
  <2>2. ComesFrom(timeline', timeline)
    BY <2>1, PlainLists, FromRest
  <2> QED BY <2>1, <2>2, FromItself DEF ListSteps, TimelineStep, QueueStep
<1>2. CASE SJF_pick /\ current_alg = "SJF"
  <2>1. PICK q \in Queues : q = locals.chosen
    BY <1>2 DEF SJF_pick, Places, SchedulerTypes
  <2>2. queues[q] # <<>> /\ queues' = [queues EXCEPT ![q] = Tail(queues[q])] /\ UNCHANGED timeline
    BY <1>2, <2>1 DEF SJF_pick
  <2>3. queues'[q] = Tail(queues[q])
    BY <2>2 DEF Places, ListTypes
  <2>4. ComesFrom(queues'[q], queues[q])
    BY <2>2, <2>3, PlainLists, FromRest
  <2> QED BY <2>2, <2>4, OneQueueSteps DEF QueueStep
<1>3. CASE aIOLi_scan
  <2>1. /\ queues' = [q \in Queues |->
              IF FileOf(q) \in {f \in {g \in files : LineOf[g] = locals.line} : Visited(f).time = 0}
                 /\ LookedAt(q, aIOLiPlace)
              THEN Grown(q) ELSE queues[q]]
        /\ UNCHANGED timeline
    BY <1>3, ZenonT(60) DEF aIOLi_scan
  <2>2. ASSUME NEW q \in Queues PROVE ComesFrom(queues'[q], queues[q])
    <3>1. queues'[q] = Grown(q) \/ queues'[q] = queues[q]
      BY <2>1
    <3> QED BY <3>1, FromItself, FromGrown
  <2> QED BY <2>1, <2>2, FromItself DEF ListSteps, TimelineStep, QueueStep
<1>4. CASE aIOLi_drain /\ current_alg = "aIOLi"
  <2>1. PICK q \in Queues : q = locals.selected
    BY <1>4, SMTT(60) DEF aIOLi_drain, Places, SchedulerTypes
  <2> DEFINE taken == Taken(queues[q], globalinfo[q].nextquantum)
             new   == SubSeq(queues[q], taken + 1, Len(queues[q]))
  <2>2. queues[q] # <<>> /\ queues' = [queues EXCEPT ![q] = new] /\ UNCHANGED timeline
    BY <1>4, <2>1 DEF aIOLi_drain
  <2>3. taken \in 0 .. Len(queues[q])
    <3>1. taken \in 1 .. Len(queues[q])
      BY <2>2, PlainLists, TakenSome
    <3>2. Len(queues[q]) \in Nat
      BY PlainLists, LenProperties
    <3> HIDE DEF taken
    <3> QED BY <3>1, <3>2
  <2> HIDE DEF taken
  <2>4. ComesFrom(new, queues[q])
    BY <2>3, PlainLists, FromRest
  <2>5. queues'[q] = new
    BY <2>2 DEF Places, ListTypes
  <2> HIDE DEF new
  <2> QED BY <2>2, <2>4, <2>5, OneQueueSteps DEF QueueStep
<1>5. CASE UNCHANGED <<timeline, queues>>
  BY <1>5, ListsAlone
<1>6. CASE timeorder \/ NOOP_empty \/ SJF
  <2>1. UNCHANGED <<timeline, queues>> \/ timeorder_pick \/ (SJF_pick /\ current_alg = "SJF")
    <3>1. timeorder_test \/ timeorder_assert \/ NOOP_empty => UNCHANGED <<timeline, queues>>
      BY DEF timeorder_test, timeorder_assert, NOOP_empty, Abort, structures, lists
    <3>2. SJF_test \/ SJF_scan \/ SJF_shortcut \/ SJF_assert => UNCHANGED <<timeline, queues>>
      BY DEF SJF_test, SJF_scan, SJF_shortcut, SJF_assert, Abort, structures, lists
    <3>3. timeorder => timeorder_test \/ timeorder_pick \/ timeorder_assert
      BY DEF timeorder
    <3>4. SJF => current_alg = "SJF" /\ (SJF_test \/ SJF_scan \/ SJF_shortcut \/ SJF_pick \/ SJF_assert)
      BY DEF SJF
    <3> QED BY <1>6, <3>1, <3>2, <3>3, <3>4
  <2> QED BY <1>1, <1>2, <1>5, <2>1
<1>7. CASE WFQ \/ TWINS
  <2>1. UNCHANGED <<timeline, queues>>
    BY <1>7 DEF WFQ, WFQ_test, WFQ_pick, WFQ_turn, TWINS, TWINS_look, TWINS_test, TWINS_pick,
         TWINS_break, structures, lists
  <2> QED BY <1>5, <2>1
<1>8. CASE MLF
  <2>1. UNCHANGED <<timeline, queues>> \/ MLF_visit
    BY <1>8 DEF MLF, MLF_test, MLF_skip, structures, lists
  <2> QED BY <1>5, <2>1, MLFLists
<1>9. CASE aIOLi
  <2>1. current_alg = "aIOLi" /\ (UNCHANGED <<timeline, queues>> \/ aIOLi_scan \/ aIOLi_drain)
    BY <1>9 DEF aIOLi, aIOLi_test, aIOLi_check, aIOLi_none, aIOLi_undefined, Abort, structures, lists
  <2> QED BY <1>3, <1>4, <1>5, <2>1
<1> QED BY <1>6, <1>7, <1>8, <1>9 DEF schedule

\* Any step, or none.
LEMMA NextLists ==
  ASSUME Places, [Next]_vars
  PROVE  ListSteps
<1>1. CASE UNCHANGED <<timeline, queues>>
  BY <1>1, ListsAlone
<1>2. CASE CoreNext /\ UNCHANGED <<statics, waitVars>>
  <2>1. CASE \E r \in Reqs : UserStep(r)
    BY <1>2, <2>1, UserLists DEF statics
  <2>2. CASE agios_exit \/ ThreadStep
    <3>1. UNCHANGED <<timeline, queues>>
      BY <2>2 DEF agios_exit, ThreadStep, CheckQueued, WakeUp, TestStop, process_requests_step2,
           structures, lists
    <3> QED BY <1>1, <3>1
  <2> QED BY <1>2, <2>1, <2>2 DEF CoreNext
<1>3. CASE Tick \/ UNCHANGED vars
  <2>1. UNCHANGED <<timeline, queues>>
    BY <1>3 DEF Tick, vars, coreVars, structures, lists
  <2> QED BY <1>1, <2>1
<1> QED BY <1>2, <1>3, ScheduleLists DEF Next

\* In every list an entry holds at most max_aggreg_size requests.
Bounded == /\ NoneOver(timeline, max_aggreg_size)
           /\ \A q \in Queues : NoneOver(queues[q], max_aggreg_size)

\* A request that comes in is in no list.
LEMMA NewComes ==
  ASSUME Places, NEW r \in Reqs \ Accepted
  PROVE  /\ Request(r) \in Simple(data) /\ Request(r) \in Entry(data)
         /\ Request(r).queue = data[r].queue /\ Request(r).id = r
         /\ r \notin removed /\ r \notin Members(timeline)
         /\ \A q \in Queues : r \notin Members(queues[q])
<1>1. /\ Request(r) \in Simple(data) /\ Request(r) \in Entry(data)
      /\ Request(r).queue = data[r].queue /\ Request(r).id = r
  BY NewRequest DEF Places
<1>2. \A l \in Lists : r \notin Members(ListAt(l))
  <2>1. Waiting = UNION {Members(ListAt(l)) : l \in Lists}
    BY WaitingAre DEF Places
  <2> QED BY <2>1 DEF Places, Complete
<1>3. /\ r \notin Members(timeline) /\ \A q \in Queues : r \notin Members(queues[q])
  BY <1>2, ListNames, ListContents
<1>4. r \notin removed
  BY DEF Places, Complete
<1> QED BY <1>1, <1>3, <1>4

\* What is put in a list keeps the bound; what is put in a queue keeps its order as well.
LEMMA EntersInOrder ==
  ASSUME Places, NEW r \in Reqs \ Accepted
  PROVE  /\ \A q \in Queues :
              data[r].queue = q =>
                LET new == hashtable_add_req(Request(r), queues[q], max_aggreg_size)
                IN  /\ InOffsetOrder(queues[q]) => InOffsetOrder(new)
                    /\ NoneOver(queues[q], max_aggreg_size) => NoneOver(new, max_aggreg_size)
                    /\ Built(Request(r), queues[q], new)
         /\ \A new :
              \/ new = timeline_add_req(Request(r), timeline, current_alg = "TO-agg", max_aggreg_size)
              \/ \E i \in 1 .. Len(timeline) + 1 : new = InsertAt(timeline, i, Request(r))
              => /\ NoneOver(timeline, max_aggreg_size) => NoneOver(new, max_aggreg_size)
                 /\ Built(Request(r), timeline, new)
<1> DEFINE e == Request(r)
<1>1. /\ e \in Simple(data) /\ e.queue = data[r].queue /\ e.id = r /\ e \in Entry(data)
  BY NewComes
<1>2. IsData(data) /\ max_aggreg_size \in Nat \ {0}
  BY DataAre, AlgAssumption DEF Places, StateTypes, max_aggreg_size
<1>3. /\ r \notin Members(timeline) /\ \A q \in Queues : r \notin Members(queues[q])
  BY NewComes
<1> HIDE DEF e
<1>4. ASSUME NEW q \in Queues, data[r].queue = q
      PROVE  LET new == hashtable_add_req(e, queues[q], max_aggreg_size)
             IN  /\ InOffsetOrder(queues[q]) => InOffsetOrder(new)
                 /\ NoneOver(queues[q], max_aggreg_size) => NoneOver(new, max_aggreg_size)
                 /\ Built(e, queues[q], new)
  <2>1. queues[q] \in ListOf(data, e.queue) /\ NoneTwice(queues[q]) /\ e.id \notin Members(queues[q])
    BY <1>1, <1>3, <1>4, PlainLists
  <2> QED BY <1>1, <1>2, <2>1, HashtableAdds
<1>5. LET new == timeline_add_req(e, timeline, current_alg = "TO-agg", max_aggreg_size)
      IN  /\ NoneOver(timeline, max_aggreg_size) => NoneOver(new, max_aggreg_size)
          /\ Built(e, timeline, new)
  <2>1. timeline \in Seq(Entry(data)) /\ NoneTwice(timeline) /\ e.id \notin Members(timeline)
    BY <1>1, <1>3, PlainLists
  <2> QED BY <1>1, <1>2, <2>1, TimelineAdds
<1>6. ASSUME NEW i \in 1 .. Len(timeline) + 1
      PROVE  LET new == InsertAt(timeline, i, e)
             IN  /\ NoneOver(timeline, max_aggreg_size) => NoneOver(new, max_aggreg_size)
                 /\ Built(e, timeline, new)
  <2> DEFINE new == InsertAt(timeline, i, e)
  <2>1. /\ Built(e, timeline, new)
        /\ \A j \in DOMAIN new : new[j] = e \/ \E k \in DOMAIN timeline : new[j] = timeline[k]
    <3>1. timeline \in Seq(Entry(data))
      BY PlainLists
    <3> QED BY <1>1, <3>1, InsertBuilds
  <2> HIDE DEF new
  <2>2. e.reqnb = 1
    BY <1>1 DEF Simple
  <2>3. NoneOver(timeline, max_aggreg_size) => NoneOver(new, max_aggreg_size)
    BY <1>2, <2>1, <2>2 DEF NoneOver
  <2> QED BY <2>1, <2>3 DEF new
<1> QED BY <1>4, <1>5, <1>6 DEF e

\* Cancelling keeps the bound.
LEMMA CancelsBounded ==
  ASSUME Places, NEW list \in Seq(Entry(data)), NoneTwice(list), NEW offset, NEW len,
         FindEntry(list, offset, len) # 0, NoneOver(list, max_aggreg_size)
  PROVE  NoneOver(CancelEntry(list, FindEntry(list, offset, len), offset, len), max_aggreg_size)
<1>1. IsData(data) /\ max_aggreg_size \in Nat
  BY DataAre, AlgAssumption DEF Places, StateTypes, max_aggreg_size
<1> QED BY <1>1, CancelLeaves

\* The bound is kept by every step.
LEMMA BoundedKept == Places /\ Bounded /\ [Next]_vars => Bounded'
<1> SUFFICES ASSUME Places, Bounded, [Next]_vars PROVE Bounded'
  OBVIOUS
<1>1. ListSteps /\ max_aggreg_size' = max_aggreg_size
  BY NextLists, InputKept DEF max_aggreg_size, needs_hashtable
<1> DEFINE max == max_aggreg_size
<1>2. NoneOver(timeline, max) /\ \A q \in Queues : NoneOver(queues[q], max)
  BY DEF Bounded
<1>3. ASSUME NEW q \in Queues PROVE NoneOver(queues'[q], max)
  <2>1. QueueStep(q)
    BY <1>1 DEF ListSteps
  <2>2. CASE ComesFrom(queues'[q], queues[q])
    BY <1>2, <2>2, FromOrdered
  <2>3. ASSUME NEW r \in Reqs \ Accepted, data[r].queue = q,
               queues'[q] = hashtable_add_req(Request(r), queues[q], max_aggreg_size)
        PROVE  NoneOver(queues'[q], max)
    BY <1>2, <2>3, EntersInOrder
  <2>4. ASSUME NEW r \in Cancellers, FindEntry(queues[q], data[r].offset, data[r].len) # 0,
               queues'[q] = CancelEntry(queues[q], FindEntry(queues[q], data[r].offset, data[r].len),
                                        data[r].offset, data[r].len)
        PROVE  NoneOver(queues'[q], max)
    BY <1>2, <2>4, PlainLists, CancelsBounded
  <2> QED BY <2>1, <2>2, <2>3, <2>4 DEF QueueStep
<1>4. NoneOver(timeline', max)
  <2>1. TimelineStep
    BY <1>1 DEF ListSteps
  <2>2. CASE ComesFrom(timeline', timeline)
    BY <1>2, <2>2, FromOrdered
  <2>3. ASSUME NEW r \in Reqs \ Accepted,
               \/ timeline' = timeline_add_req(Request(r), timeline, current_alg = "TO-agg", max_aggreg_size)
               \/ \E i \in 1 .. Len(timeline) + 1 : timeline' = InsertAt(timeline, i, Request(r))
        PROVE  NoneOver(timeline', max)
    BY <1>2, <2>3, EntersInOrder
  <2>4. ASSUME NEW r \in Cancellers, FindEntry(timeline, data[r].offset, data[r].len) # 0,
               timeline' = CancelEntry(timeline, FindEntry(timeline, data[r].offset, data[r].len),
                                       data[r].offset, data[r].len)
        PROVE  NoneOver(timeline', max)
    BY <1>2, <2>4, PlainLists, CancelsBounded
  <2> QED BY <2>1, <2>2, <2>3, <2>4 DEF TimelineStep
<1> QED BY <1>1, <1>3, <1>4 DEF Bounded

\* Virtual requests hold no more than max_aggreg_size requests, all of their own file and
\* type and none before their offset: include_in_aggregation, join_aggregations and
\* cancel_request_from_queue keep them so.
THEOREM AlwaysAggregates == Spec => []AggregatesHold
<1>1. LibraryInit => Bounded
  BY DEF LibraryInit, Init, Bounded, NoneOver
<1>2. ASSUME Places, Bounded PROVE AggregatesHold
  <2>1. ASSUME NEW list \in Seq(Entry(data)), NoneOver(list, max_aggreg_size), NEW v \in ToSet(list),
               v.reqnb > 1
        PROVE  /\ v.reqnb = Len(v.subs) /\ v.reqnb <= max_aggreg_size
               /\ \A s \in ToSet(v.subs) : s.reqnb = 1 /\ s.queue = v.queue /\ v.offset <= s.offset
    <3>1. PICK i \in DOMAIN list : v = list[i]
      BY <2>1 DEF ToSet
    <3>2. v \in Entry(data) /\ v.reqnb <= max_aggreg_size
      <4>1. v \in Entry(data)
        BY <3>1, ElementOfSeq, LenProperties
      <4> QED BY <2>1, <3>1, <4>1 DEF NoneOver
    <3>3. v \in Virtual(data)
      BY <2>1, <3>2 DEF Entry, Simple
    <3>4. /\ v.subs \in Seq(Simple(data)) /\ Len(v.subs) = v.reqnb
          /\ \A k \in 1 .. Len(v.subs) : v.subs[k].queue = v.queue /\ v.offset <= v.subs[k].offset
      BY <3>3 DEF Virtual
    <3>5. DOMAIN v.subs = 1 .. Len(v.subs) /\ \A k \in 1 .. Len(v.subs) : v.subs[k].reqnb = 1
      <4>1. \A k \in 1 .. Len(v.subs) : v.subs[k] \in Simple(data)
        BY <3>4, ElementOfSeq
      <4> QED BY <3>4, <4>1, LenProperties DEF Simple
    <3> QED BY <3>2, <3>4, <3>5 DEF ToSet
  <2>2. /\ timeline \in Seq(Entry(data)) /\ NoneOver(timeline, max_aggreg_size)
        /\ \A q \in Queues : queues[q] \in Seq(Entry(data)) /\ NoneOver(queues[q], max_aggreg_size)
    BY <1>2, PlainLists DEF Bounded
  <2> QED BY <2>1, <2>2, Zenon DEF AggregatesHold
<1> QED BY <1>1, <1>2, BoundedKept, AlwaysPlaces, PTL DEF Spec

\* Without cancellations queues stay in the order of the offsets.
LEMMA OrderKept ==
  ASSUME Cancellers = {}
  PROVE  Places /\ OffsetOrder /\ [Next]_vars => OffsetOrder'
<1> SUFFICES ASSUME Places, OffsetOrder, [Next]_vars PROVE OffsetOrder'
  OBVIOUS
<1>1. ListSteps
  BY NextLists
<1>2. \A q \in Queues : InOffsetOrder(queues[q])
  BY DEF OffsetOrder, InOffsetOrder
<1>3. ASSUME NEW q \in Queues PROVE InOffsetOrder(queues'[q])
  <2>1. QueueStep(q)
    BY <1>1 DEF ListSteps
  <2>2. CASE ComesFrom(queues'[q], queues[q])
    BY <1>2, <2>2, FromOrdered
  <2>3. ASSUME NEW r \in Reqs \ Accepted, data[r].queue = q,
               queues'[q] = hashtable_add_req(Request(r), queues[q], max_aggreg_size)
        PROVE  InOffsetOrder(queues'[q])
    BY <1>2, <2>3, EntersInOrder
  <2> QED BY <2>1, <2>2, <2>3 DEF QueueStep
<1> QED BY <1>3 DEF OffsetOrder, InOffsetOrder

\* As long as nothing is cancelled, the queues of the hashtable are in the order of the
\* offsets, through insertion, aggregation, and the steps of SJF, MLF and aIOLi.  (A
\* virtual request that loses its first request starts later than it did: it may then be
\* in front of one that starts earlier.)
THEOREM QueuesInOrder ==
  ASSUME Cancellers = {}
  PROVE  Spec => []OffsetOrder
<1>1. LibraryInit => OffsetOrder
  BY DEF LibraryInit, Init, OffsetOrder
<1> QED BY <1>1, OrderKept, AlwaysPlaces, PTL DEF Spec

-----------------------------------------------------------------------------
(* The shares of WFQ.                                                      *)

\* The requests that went to the users or are on their way, and those of a queue_id.
Out        == Chosen \cup Delivered \cup Held
OfId(S, i) == {r \in S : data[r].queue_id = i}

\* What a queue may still send in this turn, or has saved for the next.
Purse(i) == IF apc \in {"pick", "callback"} /\ i = g_current_queue THEN locals.amount ELSE credit[i]

\* What queue i was served and may still send is in its due.
WithinDue(out, i) == Bytes(OfId(out, i)) + Purse(i) <= due[i]

\* The credit is for the head of the queue, which is longer.
ForHead(i) ==
  credit[i] > 0 /\ ~ (apc \in {"pick", "callback"} /\ i = g_current_queue)
    => multi_timeline[i] # <<>> /\ credit[i] < Head(multi_timeline[i]).len

Share ==
  /\ credit \in [QueueIds -> Nat] /\ due \in [QueueIds -> Nat]
  /\ current_alg # "WFQ" => \A i \in QueueIds : credit[i] = 0
  /\ current_alg = "WFQ" =>
       /\ Held = {}
       /\ apc \in {"pick", "callback"} => locals # <<>> /\ locals.amount \in Nat
       /\ apc \notin {"pick", "callback"} => locals = <<>>
       /\ \A i \in QueueIds : WithinDue(Out, i) /\ ForHead(i)

\* What went out is finite.
LEMMA OutFinite ==
  ASSUME Places
  PROVE  Out \in SUBSET Reqs /\ IsFiniteSet(Out)
<1>1. Out \in SUBSET Accepted /\ IsFiniteSet(Accepted) /\ Accepted \in SUBSET Reqs
  BY DEF Places, Complete, StateTypes, Out, Accepted
<1> QED BY <1>1, FS_Subset

\* The bytes of a set of requests, and of one more.
LEMMA BytesOfId ==
  ASSUME data \in [Reqs -> Arguments], NEW S \in SUBSET Reqs, IsFiniteSet(S), NEW i
  PROVE  /\ Bytes(OfId(S, i)) \in Nat
         /\ \A r \in Reqs \ S : Bytes(OfId(S \cup {r}, i)) =
              Bytes(OfId(S, i)) + IF data[r].queue_id = i THEN data[r].len ELSE 0
<1> DEFINE U == OfId(S, i)
           f == [r \in Reqs |-> data[r].len]
<1>1. U \in SUBSET S /\ IsFiniteSet(U) /\ \A r \in Reqs : f[r] \in Nat /\ f[r] = data[r].len
  BY FS_Subset, DataAre DEF OfId
<1>2. \A V : Bytes(V) = Total(f, V)
  BY DEF Bytes, Total
<1> HIDE DEF f
<1>3. Total(f, U) \in Nat
  <2> HIDE DEF U
  <2>1. \A r \in U : f[r] \in Nat
    BY <1>1
  <2> QED BY <1>1, <2>1, SumType
<1>4. ASSUME NEW r \in Reqs \ S
      PROVE  Bytes(OfId(S \cup {r}, i)) = Bytes(U) + IF data[r].queue_id = i THEN data[r].len ELSE 0
  <2>1. CASE data[r].queue_id = i
    <3>1. OfId(S \cup {r}, i) = U \cup {r} /\ r \notin U
      BY <1>1, <2>1 DEF OfId
    <3> HIDE DEF U
    <3>2. f[r] \in Int /\ \A y \in U : f[y] \in Int
      BY <1>1
    <3>3. Total(f, U \cup {r}) = Total(f, U) + f[r]
      BY <1>1, <3>1, <3>2, SumAdd
    <3> QED BY <1>1, <1>2, <2>1, <3>1, <3>3
  <2>2. CASE data[r].queue_id # i
    <3>1. OfId(S \cup {r}, i) = U
      BY <2>2 DEF OfId
    <3> QED BY <1>2, <1>3, <2>2, <3>1
  <2> QED BY <2>1, <2>2
<1> QED BY <1>2, <1>3, <1>4

\* The bytes of a queue_id after a step.
LEMMA OutNext ==
  ASSUME data' = data, NEW V, V = Out'
  PROVE  \A i : Bytes(OfId(Out, i))' = Bytes(OfId(V, i))
<1> SUFFICES ASSUME NEW i PROVE Bytes(OfId(Out, i))' = Bytes(OfId(V, i))
  OBVIOUS
<1>1. OfId(Out, i)' = OfId(V, i)
  BY DEF OfId
<1>2. [r \in Reqs |-> data'[r].len] = [r \in Reqs |-> data[r].len]
  OBVIOUS
<1>3. Bytes(OfId(Out, i))' = SumFunctionOnSet([r \in Reqs |-> data'[r].len], OfId(Out, i)')
  BY DEF Bytes
<1>4. Bytes(OfId(V, i)) = SumFunctionOnSet([r \in Reqs |-> data[r].len], OfId(V, i))
  BY DEF Bytes
<1> QED BY <1>1, <1>2, <1>3, <1>4

\* What the calls of the users do when NOOP is not the algorithm: none of them selects a
\* request or gives one back, and what goes to a queue of multi_timeline goes to its end.
LEMMA UserServes ==
  ASSUME Places, current_alg # "NOOP", Held = {}, NEW r \in Reqs, UserStep(r)
  PROVE  /\ UNCHANGED <<info, calls, apc, locals, current_alg>> /\ Held' = {}
         /\ \/ UNCHANGED multi_timeline
            \/ /\ pc[r] = "adding"
               /\ multi_timeline' = [multi_timeline EXCEPT ![data[r].queue_id] = Append(@, Request(r))]
<1>1. /\ pc \in [Reqs -> {"new", "adding", "callback", "added"}]
      /\ \A s \in Reqs : pc[s] # "callback"
  BY DEF Places, StateTypes, Held
<1>2. CASE CallAdd(r)
  <2>1. /\ UNCHANGED <<info, calls, apc, locals, current_alg, multi_timeline>>
        /\ pc' = [pc EXCEPT ![r] = "adding"]
    BY <1>2 DEF CallAdd, thread, history, input, structures, lists
  <2> QED BY <1>1, <2>1 DEF Held
<1>3. CASE Add(r)
  <2>1. /\ UNCHANGED <<info, calls, apc, locals, current_alg>>
        /\ pc' = [pc EXCEPT ![r] = "added"] /\ pc[r] = "adding"
    BY <1>3 DEF Add, thread, history, input
  <2>2. \/ UNCHANGED multi_timeline
        \/ multi_timeline' = [multi_timeline EXCEPT ![data[r].queue_id] = Append(@, Request(r))]
    BY <1>3 DEF Add, Insert
  <2> QED BY <1>1, <2>1, <2>2 DEF Held
<1>4. CASE AddNoop(r)
  BY <1>4 DEF AddNoop
<1>5. CASE NoopCallback(r)
  BY <1>1, <1>5 DEF NoopCallback
<1>6. CASE agios_release_request(r) \/ CancelRemoves(r) \/ CancelFindsNothing(r)
  <2>1. UNCHANGED <<info, calls, apc, locals, current_alg, multi_timeline, pc>>
    BY <1>6 DEF agios_release_request, CancelRemoves, CancelFindsNothing, thread, history,
         input, users, structures, lists
  <2> QED BY <1>1, <2>1 DEF Held
<1> QED BY <1>2, <1>3, <1>4, <1>5, <1>6 DEF UserStep, agios_cancel_request

\* What the steps of the users and of the thread do for WFQ.
LEMMA CoreShare ==
  ASSUME Places, current_alg = "WFQ", Held = {}, CoreNext, UNCHANGED <<wfqVars, twinsVars>>
  PROVE  /\ Out' = Out /\ Held' = {} /\ UNCHANGED current_alg
         /\ apc \in {"pick", "callback"} <=> apc' \in {"pick", "callback"}
         /\ UNCHANGED locals
         /\ \/ UNCHANGED multi_timeline
            \/ \E j \in QueueIds, e \in Simple(data) :
                 multi_timeline' = [multi_timeline EXCEPT ![j] = Append(@, e)]
<1>1. ASSUME NEW r \in Reqs, UserStep(r)
      PROVE  /\ UNCHANGED <<info, calls, apc, locals, current_alg>> /\ Held' = {}
             /\ \/ UNCHANGED multi_timeline
                \/ \E j \in QueueIds, e \in Simple(data) :
                     multi_timeline' = [multi_timeline EXCEPT ![j] = Append(@, e)]
  <2>1. data[r].queue_id \in QueueIds /\ Request(r) \in Simple(data)
    BY NewRequest, DataAre DEF Places, StateTypes
  <2> QED BY <1>1, <2>1, UserServes
<1>2. CASE \E r \in Reqs : UserStep(r)
  <2>1. UNCHANGED <<info, calls, apc>> /\ Held' = Held
    BY <1>1, <1>2
  <2>2. Out' = Out
    BY <2>1 DEF Out, Chosen, AllIds, Delivered
  <2> QED BY <1>1, <1>2, <2>2
<1>3. CASE agios_exit \/ CheckQueued \/ WakeUp \/ TestStop
  <2>1. /\ UNCHANGED <<info, calls, pc, locals, multi_timeline, current_alg>>
        /\ apc \in {"pick", "callback"} <=> apc' \in {"pick", "callback"}
    BY <1>3 DEF agios_exit, CheckQueued, WakeUp, TestStop, Go, users, input, history, structures,
         lists
  <2>2. Out' = Out /\ Held' = Held
    BY <2>1 DEF Out, Held, Chosen, AllIds, Delivered
  <2> QED BY <2>1, <2>2
<1>4. CASE process_requests_step2
  <2>1. UNCHANGED <<locals, multi_timeline, current_alg, pc>> /\ apc = "callback"
        /\ apc' \in {"pick", "callback"}
    BY <1>4 DEF process_requests_step2, Go, LoopOfScheduler, users, input, structures, lists
  <2>2. PICK B : Delivers(B)
    BY <1>4, Step2Delivers
  <2>3. Out' = Out
    BY <2>2 DEF Delivers, Out
  <2> QED BY <2>1, <2>2, <2>3 DEF Delivers
<1> QED BY <1>2, <1>3, <1>4 DEF CoreNext, ThreadStep

\* The first entry of a list, and what is left of it.
LEMMA HeadAndTail ==
  ASSUME NEW E, NEW list \in Seq(E)
  PROVE  /\ list # <<>> => Head(list) \in E
         /\ \A e \in E : /\ Append(list, e) \in Seq(E) /\ Append(list, e) # <<>>
                         /\ list # <<>> => Head(Append(list, e)) = Head(list)
<1>1. list # <<>> => Head(list) \in E
  OBVIOUS
<1>2. ASSUME NEW e \in E
      PROVE  /\ Append(list, e) \in Seq(E) /\ Append(list, e) # <<>>
             /\ list # <<>> => Head(Append(list, e)) = Head(list)
  <2>1. /\ Append(list, e) \in Seq(E) /\ Append(list, e) # <<>>
        /\ \A i \in 1 .. Len(list) : Append(list, e)[i] = list[i]
    BY AppendProperties
  <2>2. list # <<>> => 1 \in 1 .. Len(list) /\ Head(list) = list[1]
    OBVIOUS
  <2>3. Head(Append(list, e)) = Append(list, e)[1]
    BY <2>1
  <2> QED BY <2>1, <2>2, <2>3
<1> QED BY <1>1, <1>2

\* A scheduler that takes one simple request.
LEMMA OneSelected ==
  ASSUME data \in [Reqs -> Arguments], NEW e \in Simple(data), Process(e)
  PROVE  /\ e.id \in Reqs /\ data[e.id].len = e.len /\ IdSet(e) = {e.id}
         /\ info' = <<<<e.id>>>> /\ Chosen' = {e.id}
<1>1. e.id \in Reqs /\ data[e.id].len = e.len /\ e.reqnb = 1
  BY DataAre DEF Simple
<1>2. DOMAIN <<e>> = {1} /\ <<e>>[1] = e
  OBVIOUS
<1>3. Parts(e) = <<e>>
  BY <1>1 DEF Parts
<1>4. IdSet(e) = {e.id}
  <2>1. IdsOf(<<e>>) = <<e.id>>
    BY <1>2 DEF IdsOf
  <2>2. ToSet(<<e.id>>) = {e.id}
    BY DEF ToSet
  <2>3. IdSet(e) = ToSet(IdsOf(Parts(e)))
    BY DEF IdSet
  <2> QED BY <1>3, <2>1, <2>2, <2>3
<1>5. info' = <<<<e.id>>>>
  <2>1. info' = IdsIn(<<e>>)
    BY DEF Process, Step1
  <2>2. IdsOf(<<e>>) = <<e.id>>
    BY <1>2 DEF IdsOf
  <2>3. IdsIn(<<e>>) = <<IdsOf(<<e>>)>>
    BY <1>2, <1>3 DEF IdsIn
  <2> QED BY <2>1, <2>2, <2>3
<1>6. Chosen' = {e.id}
  <2>1. Chosen' = UNION {ToSet(info'[i]) : i \in DOMAIN info'}
    BY DEF Chosen, AllIds
  <2>2. DOMAIN info' = {1} /\ info'[1] = <<e.id>>
    BY <1>5
  <2>3. ToSet(<<e.id>>) = {e.id}
    BY DEF ToSet
  <2> QED BY <2>1, <2>2, <2>3, Zenon
<1> QED BY <1>1, <1>4, <1>5, <1>6

\* WFQ selects the request at the head.
LEMMA PickShare ==
  ASSUME Places, WFQ_pick, current_alg = "WFQ", NEW g \in QueueIds, g = g_current_queue
  PROVE  /\ multi_timeline[g] # <<>>
         /\ \E r \in Reqs \ Out : /\ data[r].queue_id = g
                                  /\ data[r].len = Head(multi_timeline[g]).len
                                  /\ Out' = Out \cup {r}
<1> DEFINE list == multi_timeline[g]
           e    == Head(list)
<1>1. QueueIds \subseteq 0 .. max_queue_id
  BY AlgAssumption DEF QueueIds
<1>2. list # <<>> /\ Process(e) /\ UNCHANGED <<pc, calls>> /\ apc = "pick"
  BY DEF WFQ_pick, MayGo, users, history
<1>3. list \in Seq(Simple(data)) /\ \A r \in Members(list) : data[r].queue_id = g
  BY <1>1 DEF Places, ListTypes
<1>4. e \in Simple(data) /\ e = list[1] /\ 1 \in DOMAIN list
  BY <1>2, <1>3
<1> HIDE DEF e
<1>5. e.id \in Reqs /\ data[e.id].len = e.len /\ IdSet(e) = {e.id} /\ Chosen' = {e.id}
  BY <1>2, <1>4, OneSelected DEF Places, StateTypes
<1>6. e.id \in Members(list)
  BY <1>4, <1>5 DEF Members
<1>7. Chosen = {}
  <2>1. info = <<>>
    BY <1>2 DEF Places, StateTypes
  <2> QED BY <2>1 DEF Chosen, AllIds
<1>8. Delivered' = Delivered /\ Held' = Held
  BY <1>2 DEF Delivered, Held
<1>9. Out' = Out \cup {e.id}
  BY <1>5, <1>7, <1>8 DEF Out
<1>10. e.id \notin Out
  <2>1. MultiList(g) \in Lists /\ ListAt(MultiList(g)) = list
    BY <1>1, ListNames, ListContents
  <2>2. e.id \in Waiting
    BY <1>6, <2>1, WaitingAre DEF Places
  <2> QED BY <2>2 DEF Places, Apart, Out
<1> QED BY <1>2, <1>3, <1>5, <1>6, <1>9, <1>10 DEF e

\* The shares are kept by every step of the users and of the thread ...
LEMMA CoreKeepsShare ==
  ASSUME Places, Share, CoreNext, UNCHANGED statics
  PROVE  Share'
<1>1. /\ UNCHANGED <<credit, due, g_current_queue>> /\ UNCHANGED <<wfqVars, twinsVars>>
      /\ UNCHANGED <<data, current_alg>>
  <2>1. UNCHANGED input
    BY Step2Delivers DEF CoreNext, UserStep, CallAdd, Add, AddNoop, NoopCallback,
         agios_release_request, agios_cancel_request, CancelRemoves, CancelFindsNothing, users,
         agios_exit, ThreadStep, CheckQueued, WakeUp, TestStop, process_requests_step2
  <2> QED BY <2>1 DEF statics, wfqVars, input
<1>2. CASE current_alg # "WFQ"
  BY <1>1, <1>2 DEF Share
<1>3. CASE current_alg = "WFQ"
  <2>1. /\ Out' = Out /\ Held' = {} /\ UNCHANGED locals
        /\ apc \in {"pick", "callback"} <=> apc' \in {"pick", "callback"}
        /\ \/ UNCHANGED multi_timeline
           \/ \E j \in QueueIds, e \in Simple(data) :
                multi_timeline' = [multi_timeline EXCEPT ![j] = Append(@, e)]
    BY <1>1, <1>3, CoreShare DEF Share
  <2>2. PICK V : V = Out
    OBVIOUS
  <2>3. \A i : Bytes(OfId(Out, i))' = Bytes(OfId(V, i))
    BY <1>1, <2>1, <2>2, OutNext
  <2>4. ASSUME NEW i \in QueueIds PROVE WithinDue(Out, i)' /\ ForHead(i)'
    <3>1. Purse(i)' = Purse(i)
      BY <1>1, <2>1 DEF Purse
    <3>2. WithinDue(V, i) /\ ForHead(i)
      BY <1>3, <2>2 DEF Share
    <3>3. WithinDue(Out, i)' <=> Bytes(OfId(Out, i))' + Purse(i)' <= due'[i]
      BY DEF WithinDue
    <3>4. WithinDue(Out, i)'
      BY <1>1, <2>3, <3>1, <3>2, <3>3 DEF WithinDue
    <3>5. multi_timeline[i] # <<>> =>
            multi_timeline'[i] # <<>> /\ Head(multi_timeline'[i]) = Head(multi_timeline[i])
      <4>1. ASSUME NEW j \in QueueIds, NEW e \in Simple(data),
                   multi_timeline' = [multi_timeline EXCEPT ![j] = Append(@, e)],
                   multi_timeline[i] # <<>>
            PROVE  multi_timeline'[i] # <<>> /\ Head(multi_timeline'[i]) = Head(multi_timeline[i])
        <5>1. i \in 0 .. max_queue_id
          BY AlgAssumption DEF QueueIds
        <5>2. multi_timeline \in [0 .. max_queue_id -> Seq(Simple(data))]
          BY DEF Places, ListTypes
        <5>3. multi_timeline'[i] = IF i = j THEN Append(multi_timeline[i], e) ELSE multi_timeline[i]
          BY <4>1, <5>1, <5>2
        <5>4. multi_timeline[i] \in Seq(Simple(data))
          BY <5>1, <5>2
        <5> QED BY <4>1, <5>3, <5>4, HeadAndTail
      <4> QED BY <2>1, <4>1
    <3>6. ForHead(i)'
      BY <1>1, <2>1, <3>2, <3>5 DEF ForHead
    <3> QED BY <3>4, <3>6
  <2>5. /\ apc' \in {"pick", "callback"} => locals' # <<>> /\ locals'.amount \in Nat
        /\ apc' \notin {"pick", "callback"} => locals' = <<>>
    BY <1>3, <2>1 DEF Share
  <2> QED BY <1>1, <1>3, <2>1, <2>4, <2>5 DEF Share
<1> QED BY <1>2, <1>3

\* ... by every step of WFQ ...
LEMMA WFQKeepsShare ==
  ASSUME Places, Share, WFQ
  PROVE  Share'
<1>1. /\ current_alg = "WFQ" /\ (WFQ_test \/ WFQ_pick \/ WFQ_turn)
      /\ UNCHANGED <<data, current_alg, pc>>
  BY DEF WFQ, WFQ_test, WFQ_pick, WFQ_turn, users, input
<1>2. /\ Held' = {} /\ data \in [Reqs -> Arguments]
      /\ credit \in [QueueIds -> Nat] /\ due \in [QueueIds -> Nat]
      /\ \A i \in QueueIds : WithinDue(Out, i) /\ ForHead(i)
      /\ apc \in {"pick", "callback"} => locals # <<>> /\ locals.amount \in Nat
      /\ weight \in [QueueIds -> Nat \ {0}]
  <2>1. Held' = {} /\ data \in [Reqs -> Arguments]
    BY <1>1 DEF Share, Held, Places, StateTypes
  <2> QED BY <1>1, <2>1, WeightAssumption DEF Share
<1>3. PICK g \in QueueIds : g = g_current_queue
  BY DEF Places, SchedulerTypes
<1>4. PICK V : V = Out
  OBVIOUS
<1>5. V \in SUBSET Reqs /\ IsFiniteSet(V) /\ \A i : Bytes(OfId(V, i)) \in Nat
  <2>1. V \in SUBSET Reqs /\ IsFiniteSet(V)
    BY <1>4, OutFinite
  <2> QED BY <1>2, <2>1, BytesOfId
<1>6. \A i \in QueueIds : Bytes(OfId(V, i)) + Purse(i) <= due[i]
  BY <1>2, <1>4 DEF WithinDue
<1>7. \A x : <<>> # [amount |-> x]
  <2>1. \A x : "amount" \in DOMAIN [amount |-> x] /\ "amount" \notin DOMAIN <<>>
    OBVIOUS
  <2> QED BY <2>1
<1>8. CASE WFQ_test
  <2>1. /\ apc = "schedule" /\ UNCHANGED <<credit, g_current_queue, multi_timeline>>
        /\ Out' = V
    <3>1. /\ apc = "schedule" /\ UNCHANGED <<credit, g_current_queue, multi_timeline>>
          /\ UNCHANGED <<info, calls, pc>>
      BY <1>8 DEF WFQ_test, structures, lists, history, users
    <3> QED BY <1>4, <3>1 DEF Out, Chosen, AllIds, Delivered, Held
  <2>2. \A i : Bytes(OfId(Out, i))' = Bytes(OfId(V, i))
    BY <1>1, <2>1, OutNext
  <2>3. CASE current_reqnb > 0
    <3>1. /\ locals' = [amount |-> weight[g] + credit[g]] /\ apc' = "pick"
          /\ due' = [due EXCEPT ![g] = @ + weight[g]]
      BY <1>3, <1>8, <2>3 DEF WFQ_test, Go
    <3>2. locals'.amount = weight[g] + credit[g] /\ weight[g] \in Nat /\ credit[g] \in Nat
          /\ locals' # <<>>
      BY <1>2, <1>7, <3>1
    <3>3. due' \in [QueueIds -> Nat]
      BY <1>2, <3>1, <3>2
    <3>4. ASSUME NEW i \in QueueIds PROVE WithinDue(Out, i)' /\ ForHead(i)'
      <4>1. Purse(i) = credit[i] /\ Purse(i)' = IF i = g THEN weight[g] + credit[g] ELSE credit[i]
        BY <1>3, <2>1, <3>1, <3>2 DEF Purse
      <4>2. due'[i] = IF i = g THEN due[i] + weight[g] ELSE due[i]
        BY <1>2, <3>1
      <4>3. Bytes(OfId(V, i)) + Purse(i)' <= due'[i]
        <5>1. Bytes(OfId(V, i)) + credit[i] <= due[i]
          BY <1>6, <4>1
        <5>2. due[i] \in Nat /\ credit[i] \in Nat /\ Bytes(OfId(V, i)) \in Nat
          BY <1>2, <1>5
        <5> QED BY <3>2, <4>1, <4>2, <5>1, <5>2
      <4>4. WithinDue(Out, i)'
        BY <2>2, <4>3 DEF WithinDue
      <4>5. ForHead(i)'
        BY <1>2, <1>3, <2>1, <3>1 DEF ForHead
      <4> QED BY <4>4, <4>5
    <3>5. locals'.amount \in Nat
      BY <3>2
    <3> QED BY <1>1, <1>2, <2>1, <3>1, <3>2, <3>3, <3>4, <3>5 DEF Share
  <2>4. CASE ~ (current_reqnb > 0)
    <3>1. locals' = <<>> /\ apc' = "test" /\ UNCHANGED due
      BY <1>8, <2>4 DEF WFQ_test, Go
    <3>2. ASSUME NEW i \in QueueIds PROVE WithinDue(Out, i)' /\ ForHead(i)'
      <4>1. Purse(i)' = Purse(i)
        BY <2>1, <3>1 DEF Purse
      <4>2. WithinDue(Out, i)'
        BY <1>6, <2>2, <3>1, <4>1 DEF WithinDue
      <4>3. ForHead(i)'
        BY <1>2, <2>1, <3>1 DEF ForHead
      <4> QED BY <4>2, <4>3
    <3> QED BY <1>1, <1>2, <2>1, <3>1, <3>2 DEF Share
  <2> QED BY <2>3, <2>4
<1>9. CASE WFQ_pick
  <2> DEFINE n == Head(multi_timeline[g]).len
  <2>1. /\ apc = "pick" /\ apc' = "callback" /\ UNCHANGED <<credit, due, g_current_queue>>
        /\ locals' = [amount |-> locals.amount - n] /\ locals.amount >= n
        /\ multi_timeline' = [multi_timeline EXCEPT ![g] = Tail(@)]
    BY <1>3, <1>9 DEF WFQ_pick, MayGo, Process, Go, wfqVars
  <2>2. PICK r \in Reqs \ Out : data[r].queue_id = g /\ data[r].len = n /\ Out' = Out \cup {r}
    <3>1. \E r \in Reqs \ Out : data[r].queue_id = g /\ data[r].len = Head(multi_timeline[g]).len
                              /\ Out' = Out \cup {r}
      BY <1>1, <1>3, <1>9, PickShare
    <3> QED BY <3>1
  <2>3. n \in Nat
    BY <1>2, <2>2, DataAre
  <2> HIDE DEF n
  <2>4. \A i : Bytes(OfId(Out, i))' = Bytes(OfId(V, i)) + IF i = g THEN n ELSE 0
    <3>1. r \in Reqs \ V /\ Out' = V \cup {r}
      BY <1>4, <2>2
    <3>2. PICK U : U = V \cup {r}
      OBVIOUS
    <3>3. \A i : Bytes(OfId(Out, i))' = Bytes(OfId(U, i))
      BY <1>1, <3>1, <3>2, OutNext
    <3>4. ASSUME NEW i PROVE Bytes(OfId(U, i)) = Bytes(OfId(V, i)) + IF i = g THEN n ELSE 0
      <4>1. Bytes(OfId(V \cup {r}, i)) = Bytes(OfId(V, i)) + IF data[r].queue_id = i THEN data[r].len ELSE 0
        BY <1>2, <1>5, <3>1, BytesOfId
      <4> QED BY <2>2, <3>2, <4>1
    <3> QED BY <3>3, <3>4
  <2>5. locals'.amount = locals.amount - n /\ locals' # <<>> /\ locals.amount \in Nat
    BY <1>2, <1>7, <2>1
  <2>6. ASSUME NEW i \in QueueIds PROVE WithinDue(Out, i)' /\ ForHead(i)'
    <3>1. /\ Purse(i) = IF i = g THEN locals.amount ELSE credit[i]
          /\ Purse(i)' = IF i = g THEN locals.amount - n ELSE credit[i]
      BY <1>3, <2>1, <2>5 DEF Purse
    <3>2. Bytes(OfId(Out, i))' + Purse(i)' <= due[i]
      <4>1. Bytes(OfId(V, i)) + Purse(i) <= due[i] /\ Bytes(OfId(V, i)) \in Nat
        BY <1>5, <1>6
      <4>2. Bytes(OfId(Out, i))' = Bytes(OfId(V, i)) + IF i = g THEN n ELSE 0
        BY <2>4
      <4>3. credit[i] \in Nat /\ due[i] \in Nat
        BY <1>2
      <4> HIDE DEF OfId, Out
      <4> QED BY <2>3, <2>5, <3>1, <4>1, <4>2, <4>3
    <3>3. WithinDue(Out, i)'
      BY <2>1, <3>2 DEF WithinDue
    <3>4. ForHead(i)'
      <4>1. CASE i = g
        BY <1>3, <2>1, <4>1 DEF ForHead
      <4>2. CASE i # g
        <5>1. multi_timeline'[i] = multi_timeline[i]
          <6>1. multi_timeline \in [0 .. max_queue_id -> Seq(Simple(data))] /\ i \in 0 .. max_queue_id
            BY AlgAssumption DEF Places, ListTypes, QueueIds
          <6> QED BY <2>1, <4>2, <6>1
        <5> QED BY <1>2, <1>3, <2>1, <4>2, <5>1 DEF ForHead
      <4> QED BY <4>1, <4>2
    <3> QED BY <3>3, <3>4
  <2>7. locals'.amount \in Nat
    BY <2>1, <2>3, <2>5
  <2> QED BY <1>1, <1>2, <2>1, <2>5, <2>6, <2>7 DEF Share
<1>10. CASE WFQ_turn
  <2> DEFINE list == multi_timeline[g]
             n    == Head(list).len
  <2>1. /\ apc = "pick" /\ apc' = "schedule" /\ UNCHANGED <<due, multi_timeline>> /\ locals' = <<>>
        /\ credit' = [credit EXCEPT ![g] = IF list # <<>> THEN locals.amount ELSE 0]
        /\ list = <<>> \/ ~ (locals.amount >= n)
        /\ Out' = V
    <3>1. /\ apc = "pick" /\ apc' = "schedule" /\ UNCHANGED <<due, multi_timeline>> /\ locals' = <<>>
          /\ credit' = [credit EXCEPT ![g] = IF list # <<>> THEN locals.amount ELSE 0]
          /\ list = <<>> \/ ~ (locals.amount >= n)
          /\ UNCHANGED <<info, calls, pc>>
      BY <1>3, <1>10 DEF WFQ_turn, MayGo, Go, structures, lists, history, users
    <3> QED BY <1>4, <3>1 DEF Out, Chosen, AllIds, Delivered, Held
  <2>2. \A i : Bytes(OfId(Out, i))' = Bytes(OfId(V, i))
    BY <1>1, <2>1, OutNext
  <2>3. locals.amount \in Nat
    BY <1>2, <2>1
  <2>4. list # <<>> => n \in Nat /\ locals.amount < n
    <3>1. list \in Seq(Simple(data))
      BY AlgAssumption DEF Places, ListTypes, QueueIds
    <3>2. list # <<>> => Head(list) \in Simple(data)
      BY <3>1, HeadAndTail
    <3>3. list # <<>> => n \in Nat
      BY <3>2 DEF Simple
    <3> HIDE DEF n
    <3> QED BY <2>1, <2>3, <3>3
  <2> HIDE DEF n
  <2>5. credit' \in [QueueIds -> Nat]
    BY <1>2, <2>1, <2>3
  <2>6. ASSUME NEW i \in QueueIds PROVE WithinDue(Out, i)' /\ ForHead(i)'
    <3>1. /\ Purse(i) = IF i = g THEN locals.amount ELSE credit[i]
          /\ Purse(i)' = credit'[i]
          /\ credit'[i] = IF i = g THEN (IF list # <<>> THEN locals.amount ELSE 0) ELSE credit[i]
      BY <1>2, <1>3, <2>1 DEF Purse
    <3>2. Bytes(OfId(V, i)) + credit'[i] <= due[i]
      <4>1. Bytes(OfId(V, i)) + Purse(i) <= due[i] /\ Bytes(OfId(V, i)) \in Nat
        BY <1>5, <1>6
      <4>2. credit[i] \in Nat /\ due[i] \in Nat
        BY <1>2
      <4> HIDE DEF OfId, Out, list
      <4> QED BY <2>3, <3>1, <4>1, <4>2
    <3>3. WithinDue(Out, i)'
      BY <2>1, <2>2, <3>1, <3>2 DEF WithinDue
    <3>4. ForHead(i)'
      <4>1. CASE i = g
        <5>1. multi_timeline'[i] = list /\ credit'[i] = IF list # <<>> THEN locals.amount ELSE 0
          BY <2>1, <3>1, <4>1
        <5> HIDE DEF list
        <5>2. credit'[i] > 0 => list # <<>> /\ credit'[i] < n
          BY <2>4, <5>1
        <5> QED BY <5>1, <5>2 DEF ForHead, n
      <4>2. CASE i # g
        BY <1>2, <1>3, <2>1, <3>1, <4>2 DEF ForHead
      <4> QED BY <4>1, <4>2
    <3> QED BY <3>3, <3>4
  <2>7. apc' \notin {"pick", "callback"} /\ locals' = <<>> /\ due' = due
    BY <2>1
  <2> HIDE DEF list
  <2> QED BY <1>1, <1>2, <2>5, <2>6, <2>7 DEF Share
<1> QED BY <1>1, <1>8, <1>9, <1>10

\* ... and by any other.
LEMMA ShareKept == Places /\ Share /\ [Next]_vars => Share'
<1> SUFFICES ASSUME Places, Share, [Next]_vars PROVE Share'
  OBVIOUS
<1>1. CASE CoreNext /\ UNCHANGED <<statics, waitVars>>
  BY <1>1, CoreKeepsShare
<1>2. CASE schedule
  <2>1. CASE WFQ
    BY <2>1, WFQKeepsShare
  <2>2. CASE ~ WFQ
    <3>1. UNCHANGED <<credit, due>> /\ current_alg # "WFQ"
      BY <1>2, <2>2 DEF schedule, timeorder, NOOP_empty, SJF, TWINS, TWINS_look, MLF, aIOLi,
           statics, wfqVars
    <3>2. UNCHANGED current_alg
      BY InputKept
    <3> QED BY <3>1, <3>2 DEF Share
  <2> QED BY <2>1, <2>2
<1>3. CASE UNCHANGED <<coreVars, statics>>
  <2>1. /\ UNCHANGED <<credit, due, g_current_queue, multi_timeline, apc, locals, current_alg>>
        /\ UNCHANGED <<data, info, calls, pc>>
    BY <1>3 DEF coreVars, statics, wfqVars, users, input, structures, lists, thread, history
  <2>2. PICK V : V = Out
    OBVIOUS
  <2>3. Out' = V /\ Held' = Held
    BY <2>1, <2>2 DEF Out, Chosen, AllIds, Delivered, Held
  <2>4. \A i : Bytes(OfId(Out, i))' = Bytes(OfId(V, i))
    BY <2>1, <2>3, OutNext
  <2>5. ASSUME NEW i \in QueueIds
        PROVE  (WithinDue(Out, i)' <=> WithinDue(Out, i)) /\ (ForHead(i)' <=> ForHead(i))
    BY <2>1, <2>2, <2>4 DEF WithinDue, ForHead, Purse
  <2> QED BY <2>1, <2>3, <2>5 DEF Share
<1>4. CASE Tick /\ UNCHANGED statics
  BY <1>3, <1>4 DEF Tick
<1> QED BY <1>1, <1>2, <1>3, <1>4 DEF Next, vars

\* At the start nothing was served and nothing is due.
LEMMA ShareAtStart == LibraryInit => Share
<1> SUFFICES ASSUME LibraryInit PROVE Share
  OBVIOUS
<1>1. /\ info = <<>> /\ calls = <<>> /\ \A r \in Reqs : pc[r] = "new"
      /\ apc = "top" /\ locals = <<>>
      /\ credit = [i \in QueueIds |-> 0] /\ due = [i \in QueueIds |-> 0]
  BY DEF LibraryInit, Init, WFQ_init
<1>2. Out = {} /\ Held = {}
  BY <1>1 DEF Out, Chosen, AllIds, Delivered, Held
<1>3. Bytes({}) = 0
  BY SumEmpty DEF Bytes, Total
<1>4. ASSUME NEW i \in QueueIds PROVE WithinDue(Out, i) /\ ForHead(i)
  <2>1. OfId(Out, i) = {} /\ Purse(i) = 0 /\ due[i] = 0 /\ credit[i] = 0
    BY <1>1, <1>2 DEF OfId, Purse
  <2> QED BY <1>3, <2>1 DEF WithinDue, ForHead
<1> QED BY <1>1, <1>2, <1>4 DEF Share

\* Whatever was added during its turns and however long it waited, WFQ serves no queue
\* more bytes than the weights of its turns add up to.
THEOREM NeverMoreThanShare == Spec => []NoMoreThanShare
<1>1. ASSUME Places, Share PROVE NoMoreThanShare
  <2> SUFFICES ASSUME current_alg = "WFQ", NEW i \in QueueIds PROVE Served(i) <= due[i]
    BY DEF NoMoreThanShare
  <2>1. {r \in Reqs : data[r].queue_id = i /\ (Selected(r) \/ r \in Delivered)} = OfId(Out, i)
    BY OutFinite, <1>1 DEF OfId, Out, Selected, Chosen, AllIds, Held
  <2>2. Bytes(OfId(Out, i)) + Purse(i) <= due[i]
    BY <1>1 DEF Share, WithinDue
  <2>3. Bytes(OfId(Out, i)) \in Nat
    BY <1>1, OutFinite, BytesOfId DEF Places, StateTypes
  <2>4. Purse(i) \in Nat /\ due[i] \in Nat
    BY <1>1 DEF Share, Purse
  <2>5. Served(i) = Bytes(OfId(Out, i))
    BY <2>1 DEF Served
  <2> HIDE DEF Out, OfId
  <2> QED BY <2>2, <2>3, <2>4, <2>5
<1> QED BY <1>1, ShareAtStart, ShareKept, AlwaysPlaces, PTL DEF Spec

\* A queue that is not having its turn has saved less than the request at its head needs,
\* and nothing when it is empty: WFQ_turn sees to it, and neither a request that is added
\* nor another algorithm's step changes that.
THEOREM CreditIsForHead == Spec => []CreditForHead
<1>1. ASSUME Places, Share PROVE CreditForHead
  <2> SUFFICES ASSUME NEW i \in QueueIds, credit[i] > 0, i = g_current_queue => locals = <<>>
               PROVE  multi_timeline[i] # <<>> /\ credit[i] < Head(multi_timeline[i]).len
    BY DEF CreditForHead
  <2>1. credit[i] # 0
    BY <1>1 DEF Share
  <2>2. current_alg = "WFQ"
    BY <1>1, <2>1 DEF Share
  <2> QED BY <1>1, <2>2 DEF Share, ForHead
<1> QED BY <1>1, ShareAtStart, ShareKept, AlwaysPlaces, PTL DEF Spec

-----------------------------------------------------------------------------
(* First come, first served.                                               *)

\* The algorithms that serve in order, one request at a time.
Ordered  == current_alg \in {"TO", "WFQ", "TWINS"}
OneByOne == info = <<>> \/ \E x \in Reqs : info = <<<<x>>>>

\* In a list nobody is behind a request that came later.
LineUp(list) == \A a, b \in DOMAIN list : a < b => list[b].id \notin earlier[list[a].id]

\* What came earlier was added, and is served in order with the request.
EarlierAdded ==
  /\ earlier \in [Reqs -> SUBSET Reqs]
  /\ \A r \in Reqs : \A s \in earlier[r] : pc[s] = "added" /\ s \in InOrderWith(r)

InLine ==
  /\ EarlierAdded
  /\ Ordered =>
       /\ Held = {} /\ OneByOne
       /\ LineUp(timeline) /\ \A i \in 0 .. max_queue_id : LineUp(multi_timeline[i])
       /\ \A r \in Delivered : earlier[r] \cap (Waiting \cup Chosen) = {}
       /\ \A r \in Chosen : earlier[r] \cap Waiting = {}
       /\ FirstComeFirstServed

\* What came earlier than a request is noted when it is added, and stays.
LEMMA EarlierKept ==
  ASSUME Places, EarlierAdded, [Next]_vars
  PROVE  /\ EarlierAdded'
         /\ \A r \in Reqs : pc[r] # "new" => earlier'[r] = earlier[r]
<1>1. UNCHANGED <<data, current_alg>>
  BY InputKept
<1>2. \A r : InOrderWith(r)' = InOrderWith(r)
  BY <1>1 DEF InOrderWith, uses_multi_timeline
<1>3. pc \in [Reqs -> {"new", "adding", "callback", "added"}]
  BY DEF Places, StateTypes
<1>4. CASE UNCHANGED earlier /\ \A s \in Reqs : pc[s] = "added" => pc'[s] = "added"
  BY <1>2, <1>4 DEF EarlierAdded
<1>5. ASSUME NEW r \in Reqs, CallAdd(r)
      PROVE  /\ EarlierAdded' /\ \A s \in Reqs : pc[s] # "new" => earlier'[s] = earlier[s]
  <2>1. /\ pc[r] = "new" /\ pc' = [pc EXCEPT ![r] = "adding"]
        /\ earlier' = [earlier EXCEPT ![r] = {s \in InOrderWith(r) : pc[s] = "added"}]
    BY <1>5 DEF CallAdd
  <2>2. {s \in InOrderWith(r) : pc[s] = "added"} \in SUBSET Reqs
    BY DEF InOrderWith
  <2>3. earlier' \in [Reqs -> SUBSET Reqs] /\ \A s \in Reqs : s # r => earlier'[s] = earlier[s]
    BY <2>1, <2>2 DEF EarlierAdded
  <2>4. ASSUME NEW t \in Reqs, NEW s \in earlier'[t] PROVE pc'[s] = "added" /\ s \in InOrderWith(t)
    <3>1. s \in Reqs /\ pc[s] = "added" /\ s \in InOrderWith(t)
      <4>1. CASE t = r
        BY <2>1, <2>2, <2>4, <4>1 DEF EarlierAdded
      <4>2. CASE t # r
        BY <2>3, <2>4, <4>2 DEF EarlierAdded
      <4> QED BY <4>1, <4>2
    <3> QED BY <1>3, <2>1, <3>1
  <2> QED BY <1>2, <2>1, <2>3, <2>4 DEF EarlierAdded
<1>6. ASSUME NEW r \in Reqs, UserStep(r), ~ CallAdd(r)
      PROVE  UNCHANGED earlier /\ \A s \in Reqs : pc[s] = "added" => pc'[s] = "added"
  BY <1>3, <1>6 DEF UserStep, Add, AddNoop, NoopCallback, agios_release_request,
       agios_cancel_request, CancelRemoves, CancelFindsNothing, users
<1>7. CASE UNCHANGED users
  BY <1>4, <1>7 DEF users
<1>8. agios_exit \/ ThreadStep \/ Tick \/ schedule \/ UNCHANGED vars => UNCHANGED users
  BY ScheduleQuiet DEF agios_exit, ThreadStep, CheckQueued, WakeUp, TestStop,
       process_requests_step2, Tick, vars, coreVars
<1> QED BY <1>4, <1>5, <1>6, <1>7, <1>8 DEF Next, CoreNext

\* The ids in a list of simple requests.
LEMMA SimpleMembers ==
  ASSUME data \in [Reqs -> Arguments], NEW list \in Seq(Simple(data))
  PROVE  /\ Members(list) = {list[a].id : a \in DOMAIN list}
         /\ \A a \in DOMAIN list : list[a] \in Simple(data) /\ list[a].id \in Reqs
<1>1. \A a \in DOMAIN list : list[a] \in Simple(data)
  BY LenProperties, ElementOfSeq
<1>2. ASSUME NEW e \in Simple(data) PROVE IdSet(e) = {e.id} /\ e.id \in Reqs
  <2>1. e.id \in Reqs /\ Parts(e) = <<e>>
    BY DataAre DEF Simple, Parts
  <2>2. IdsOf(<<e>>) = <<e.id>>
    <3>1. DOMAIN <<e>> = {1} /\ <<e>>[1] = e
      OBVIOUS
    <3> QED BY <3>1 DEF IdsOf
  <2>3. ToSet(<<e.id>>) = {e.id}
    BY DEF ToSet
  <2>4. IdSet(e) = ToSet(IdsOf(Parts(e)))
    BY DEF IdSet
  <2> QED BY <2>1, <2>2, <2>3, <2>4
<1> QED BY <1>1, <1>2 DEF Members

\* With TO the timeline has simple requests, since nothing is aggregated.
LEMMA TimelineIsSimple ==
  ASSUME Places, Bounded, current_alg = "TO"
  PROVE  timeline \in Seq(Simple(data))
<1>1. timeline \in Seq(Entry(data)) /\ \A i \in DOMAIN timeline : timeline[i].reqnb <= 1
  BY PlainLists DEF Bounded, NoneOver, max_aggreg_size, needs_hashtable
<1>2. ASSUME NEW i \in DOMAIN timeline PROVE timeline[i] \in Simple(data)
  <2>1. timeline[i] \in Entry(data)
    BY <1>1, LenProperties, ElementOfSeq
  <2>2. timeline[i].reqnb <= 1
    BY <1>1
  <2>3. timeline[i] \notin Virtual(data)
    BY <2>2 DEF Virtual
  <2> QED BY <2>1, <2>3 DEF Entry
<1>3. Len(timeline) \in Nat /\ timeline \in [1 .. Len(timeline) -> Entry(data)]
      /\ DOMAIN timeline = 1 .. Len(timeline)
  BY <1>1, LenProperties
<1> QED BY <1>2, <1>3

\* The line a request waits in, and where the others that it is in order with wait.
LEMMA OneLine ==
  ASSUME Places, Bounded, OwnLists, Ordered, NEW x \in Waiting
  PROVE  \E l \in Lists :
           /\ ListAt(l) \in Seq(Simple(data)) /\ x \in Members(ListAt(l))
           /\ current_alg = "TO" => l = TimelineList
           /\ current_alg # "TO" => \E i \in 0 .. max_queue_id : l = MultiList(i)
           /\ \A s \in Waiting \cap InOrderWith(x) : s \in Members(ListAt(l))
<1>1. Waiting = UNION {Members(ListAt(l)) : l \in Lists}
  BY WaitingAre DEF Places
<1>2. Members(<<>>) = {}
  BY DEF Members
<1>3. ~ needs_hashtable /\ (InTimeline => current_alg = "TO")
      /\ (uses_multi_timeline <=> current_alg # "TO")
  BY DEF Ordered, needs_hashtable, InTimeline, uses_multi_timeline
<1>4. ASSUME NEW l \in Lists, Members(ListAt(l)) # {}
      PROVE  /\ current_alg = "TO" => l = TimelineList
             /\ current_alg # "TO" => \E i \in 0 .. max_queue_id : l = MultiList(i)
  BY <1>2, <1>3, <1>4, ListNames, ListContents DEF OwnLists
<1>5. PICK l \in Lists : x \in Members(ListAt(l))
  BY <1>1
<1>6. CASE current_alg = "TO"
  <2>1. l = TimelineList /\ ListAt(l) = timeline
    BY <1>4, <1>5, <1>6, ListContents
  <2>2. \A s \in Waiting : s \in Members(ListAt(l))
    BY <1>1, <1>4, <1>6, <2>1
  <2> QED BY <1>5, <1>6, <2>1, <2>2, TimelineIsSimple
<1>7. CASE current_alg # "TO"
  <2>1. PICK i \in 0 .. max_queue_id : l = MultiList(i)
    BY <1>4, <1>5, <1>7
  <2>2. /\ ListAt(l) = multi_timeline[i] /\ ListAt(l) \in Seq(Simple(data))
        /\ \A j \in 0 .. max_queue_id : \A r \in Members(multi_timeline[j]) : data[r].queue_id = j
    BY <2>1, ListContents DEF Places, ListTypes
  <2>3. ASSUME NEW s \in Waiting \cap InOrderWith(x) PROVE s \in Members(ListAt(l))
    <3>1. PICK m \in Lists : s \in Members(ListAt(m))
      BY <1>1
    <3>2. PICK j \in 0 .. max_queue_id : m = MultiList(j)
      BY <1>4, <1>7, <3>1
    <3>3. data[s].queue_id = data[x].queue_id
      BY <1>7 DEF InOrderWith
    <3>4. s \in Members(multi_timeline[j]) /\ x \in Members(multi_timeline[i])
      BY <1>5, <2>2, <3>1, <3>2, ListContents
    <3> QED BY <2>2, <3>3, <3>4
  <2> QED BY <1>5, <1>7, <2>1, <2>2, <2>3
<1> QED BY <1>6, <1>7

\* What a step does to a line: some go, or one that is being added goes to its end.
LineStep(new, list) ==
  \/ PartOf(new, list)
  \/ \E r \in Reqs : pc[r] = "adding" /\ new = Append(list, Request(r))

\* A list is part of itself.
LEMMA PartOfItself == \A list : PartOf(list, list)
BY DEF PartOf

\* Every step does that to the timeline of TO ...
LEMMA TimelineLines ==
  ASSUME Places, Bounded, current_alg = "TO", [Next]_vars
  PROVE  LineStep(timeline', timeline)
<1>1. CASE UNCHANGED timeline
  BY <1>1, PartOfItself DEF LineStep
<1>2. timeline \in Seq(Simple(data)) /\ timeline \in Seq(Entry(data)) /\ NoneTwice(timeline)
  BY TimelineIsSimple, PlainLists
<1>3. ASSUME NEW r \in Reqs, UserStep(r) PROVE LineStep(timeline', timeline)
  <2>1. CASE Add(r)
    <3>1. pc[r] = "adding"
      BY <2>1 DEF Add
    <3>2. UNCHANGED timeline
          \/ timeline' = timeline_add_req(Request(r), timeline, FALSE, max_aggreg_size)
      BY <2>1 DEF Add, Insert
    <3>3. timeline_add_req(Request(r), timeline, FALSE, max_aggreg_size) = Append(timeline, Request(r))
      BY DEF timeline_add_req
    <3> QED BY <1>1, <3>1, <3>2, <3>3 DEF LineStep
  <2>2. CASE CancelRemoves(r)
    <3> DEFINE i == FindEntry(timeline, data[r].offset, data[r].len)
    <3>1. /\ i # 0
          /\ timeline' = CancelEntry(timeline, i, data[r].offset, data[r].len)
      BY <2>2 DEF CancelRemoves, SearchedList, Found, needs_hashtable
    <3>2. i \in 1 .. Len(timeline)
      BY <1>2, <3>1, FoundEntry
    <3> HIDE DEF i
    <3>3. timeline[i].reqnb = 1
      <4>1. timeline[i] \in Simple(data)
        BY <1>2, <3>2, ElementOfSeq
      <4> QED BY <4>1 DEF Simple
    <3>4. timeline' = RemoveAt(timeline, i)
      BY <3>1, <3>3 DEF CancelEntry
    <3>5. PartOf(timeline', timeline)
      BY <1>2, <3>2, <3>4, RestIsPart
    <3> QED BY <3>5 DEF LineStep
  <2>3. CASE CallAdd(r) \/ AddNoop(r) \/ NoopCallback(r) \/ agios_release_request(r)
             \/ CancelFindsNothing(r)
    <3>1. UNCHANGED timeline
      BY <2>3 DEF CallAdd, AddNoop, NoopCallback, agios_release_request, CancelFindsNothing,
           structures, lists
    <3> QED BY <1>1, <3>1
  <2> QED BY <1>3, <2>1, <2>2, <2>3 DEF UserStep, agios_cancel_request
<1>4. CASE agios_exit \/ ThreadStep \/ Tick \/ UNCHANGED vars
  <2>1. UNCHANGED timeline
    BY <1>4 DEF agios_exit, ThreadStep, CheckQueued, WakeUp, TestStop, process_requests_step2,
         Tick, vars, coreVars, structures, lists
  <2> QED BY <1>1, <2>1
<1>5. CASE schedule
  <2>1. timeorder \/ NOOP_empty
    BY <1>5 DEF schedule, SJF, WFQ, TWINS, TWINS_look, MLF, aIOLi
  <2>2. UNCHANGED timeline \/ (timeline # <<>> /\ timeline' = Tail(timeline))
    BY <2>1 DEF timeorder, timeorder_test, timeorder_assert, timeorder_pick, NOOP_empty, Abort,
         structures, lists
  <2>3. timeline # <<>> => PartOf(Tail(timeline), timeline)
    BY <1>2, RestIsPart
  <2> QED BY <1>1, <2>2, <2>3 DEF LineStep
<1> QED BY <1>3, <1>4, <1>5 DEF Next, CoreNext

\* ... and to the queues of multi_timeline.
LEMMA MultiLines ==
  ASSUME Places, Ordered, Held = {}, [Next]_vars, NEW i \in 0 .. max_queue_id
  PROVE  LineStep(multi_timeline'[i], multi_timeline[i])
<1>1. CASE UNCHANGED multi_timeline
  BY <1>1, PartOfItself DEF LineStep
<1>2. /\ multi_timeline \in [0 .. max_queue_id -> Seq(Simple(data))]
      /\ \A j \in 0 .. max_queue_id : NoneTwice(multi_timeline[j])
  <2>1. \A j \in 0 .. max_queue_id : /\ MultiList(j) \in Lists
                                     /\ ListAt(MultiList(j)) = multi_timeline[j]
    BY ListNames, ListContents
  <2> QED BY <2>1 DEF Places, ListTypes, Apart
<1>3. ASSUME NEW j \in 0 .. max_queue_id, multi_timeline[j] # <<>>,
             multi_timeline' = [multi_timeline EXCEPT ![j] = Tail(multi_timeline[j])]
      PROVE  LineStep(multi_timeline'[i], multi_timeline[i])
  <2>1. multi_timeline'[i] = IF i = j THEN Tail(multi_timeline[j]) ELSE multi_timeline[i]
    BY <1>2, <1>3
  <2>2. PartOf(Tail(multi_timeline[j]), multi_timeline[j])
    BY <1>2, <1>3, RestIsPart
  <2> QED BY <2>1, <2>2, PartOfItself DEF LineStep
<1>4. ASSUME NEW r \in Reqs, UserStep(r) PROVE LineStep(multi_timeline'[i], multi_timeline[i])
  <2>1. \/ UNCHANGED multi_timeline
        \/ /\ pc[r] = "adding"
           /\ multi_timeline' = [multi_timeline EXCEPT ![data[r].queue_id] = Append(@, Request(r))]
    BY <1>4, UserServes DEF Ordered
  <2>2. CASE /\ pc[r] = "adding"
             /\ multi_timeline' = [multi_timeline EXCEPT ![data[r].queue_id] = Append(@, Request(r))]
    <3>1. \/ multi_timeline'[i] = multi_timeline[i]
          \/ multi_timeline'[i] = Append(multi_timeline[i], Request(r))
      BY <1>2, <2>2
    <3> QED BY <2>2, <3>1, PartOfItself DEF LineStep
  <2> QED BY <1>1, <2>1, <2>2
<1>5. CASE agios_exit \/ ThreadStep \/ Tick \/ UNCHANGED vars
  <2>1. UNCHANGED multi_timeline
    BY <1>5 DEF agios_exit, ThreadStep, CheckQueued, WakeUp, TestStop, process_requests_step2,
         Tick, vars, coreVars, structures, lists
  <2> QED BY <1>1, <2>1
<1>6. CASE schedule
  <2>1. timeorder \/ NOOP_empty \/ WFQ \/ TWINS
    BY <1>6 DEF schedule, SJF, MLF, aIOLi, Ordered
  <2>2. CASE timeorder \/ NOOP_empty
    <3>1. UNCHANGED multi_timeline
      BY <2>2 DEF timeorder, timeorder_test, timeorder_assert, timeorder_pick, NOOP_empty, Abort,
           structures, lists
    <3> QED BY <1>1, <3>1
  <2>3. CASE WFQ
    <3>1. g_current_queue \in 0 .. max_queue_id
      BY AlgAssumption DEF Places, SchedulerTypes, QueueIds
    <3>2. \/ UNCHANGED multi_timeline
          \/ /\ multi_timeline[g_current_queue] # <<>>
             /\ multi_timeline' = [multi_timeline EXCEPT ![g_current_queue] =
                                     Tail(multi_timeline[g_current_queue])]
      BY <2>3 DEF WFQ, WFQ_test, WFQ_pick, WFQ_turn, MayGo, structures, lists
    <3> QED BY <1>1, <1>3, <3>1, <3>2
  <2>4. CASE TWINS
    <3>1. UNCHANGED multi_timeline \/ \E elapsed \in BOOLEAN : TWINS_pick(elapsed)
      BY <2>4 DEF TWINS, TWINS_look, TWINS_test, TWINS_break, structures, lists
    <3>2. ASSUME NEW elapsed \in BOOLEAN, TWINS_pick(elapsed)
          PROVE  LineStep(multi_timeline'[i], multi_timeline[i])
      <4>1. PICK j \in 0 .. max_queue_id : j = Window(elapsed)
        BY WindowType DEF Places, SchedulerTypes
      <4>2. /\ multi_timeline[j] # <<>>
            /\ multi_timeline' = [multi_timeline EXCEPT ![j] = Tail(multi_timeline[j])]
        BY <3>2, <4>1 DEF TWINS_pick
      <4> QED BY <1>3, <4>2
    <3> QED BY <1>1, <3>1, <3>2
  <2> QED BY <2>1, <2>2, <2>3, <2>4
<1> QED BY <1>4, <1>5, <1>6 DEF Next, CoreNext

\* So a line stays in order.
LEMMA StaysInLine ==
  ASSUME Places, EarlierAdded, [Next]_vars, NEW l \in Lists, ListAt(l) \in Seq(Simple(data)),
         LineUp(ListAt(l)), NEW new, LineStep(new, ListAt(l))
  PROVE  \A a, b \in DOMAIN new : a < b => new[b].id \notin earlier'[new[a].id]
<1> DEFINE list == ListAt(l)
<1>1. \A a \in DOMAIN list : /\ list[a].id \in Reqs /\ list[a].id \in Accepted
                             /\ earlier'[list[a].id] = earlier[list[a].id]
  <2> SUFFICES ASSUME NEW a \in DOMAIN list
               PROVE  /\ list[a].id \in Reqs /\ list[a].id \in Accepted
                      /\ earlier'[list[a].id] = earlier[list[a].id]
    OBVIOUS
  <2>1. list[a].id \in Members(list) /\ list[a].id \in Reqs
    BY SimpleMembers DEF Places, StateTypes
  <2>2. list[a].id \in Accepted
    <3>1. list[a].id \in Waiting
      BY <2>1, WaitingAre DEF Places
    <3> QED BY <3>1 DEF Places, Complete
  <2>3. pc[list[a].id] # "new"
    BY <2>2 DEF Accepted
  <2> HIDE DEF list
  <2> QED BY <2>1, <2>2, <2>3, EarlierKept
<1>2. list \in Seq(Simple(data)) /\ LineUp(list)
  OBVIOUS
<1> HIDE DEF list
<1>3. CASE PartOf(new, list)
  <2> SUFFICES ASSUME NEW a \in DOMAIN new, NEW b \in DOMAIN new, a < b
               PROVE  new[b].id \notin earlier'[new[a].id]
    OBVIOUS
  <2>1. PICK c \in DOMAIN list, d \in DOMAIN list : c < d /\ new[a] = list[c] /\ new[b] = list[d]
    BY <1>3 DEF PartOf
  <2> QED BY <1>1, <1>2, <2>1 DEF LineUp
<1>4. ASSUME NEW r \in Reqs, pc[r] = "adding", new = Append(list, Request(r))
      PROVE  \A a, b \in DOMAIN new : a < b => new[b].id \notin earlier'[new[a].id]
  <2>1. Request(r) \in Simple(data) /\ Request(r).id = r
    BY NewRequest DEF Places
  <2>2. /\ Len(list) \in Nat /\ DOMAIN list = 1 .. Len(list)
        /\ DOMAIN new = 1 .. Len(list) + 1 /\ new[Len(list) + 1] = Request(r)
        /\ \A a \in 1 .. Len(list) : new[a] = list[a]
    <3> DEFINE e == Request(r)
    <3> HIDE DEF e
    <3>1. e \in Simple(data) /\ new = Append(list, e)
      BY <1>4, <2>1 DEF e
    <3>2. /\ new \in Seq(Simple(data)) /\ Len(new) = Len(list) + 1 /\ new[Len(list) + 1] = e
          /\ \A a \in 1 .. Len(list) : new[a] = list[a]
      BY <1>2, <3>1, AppendProperties
    <3> QED BY <1>2, <3>2, LenProperties DEF e
  <2> SUFFICES ASSUME NEW a \in DOMAIN new, NEW b \in DOMAIN new, a < b
               PROVE  new[b].id \notin earlier'[new[a].id]
    OBVIOUS
  <2>3. a \in DOMAIN list /\ new[a] = list[a]
    BY <2>2
  <2>4. CASE b \in DOMAIN list
    <3>1. new[b] = list[b]
      BY <2>2, <2>4
    <3> QED BY <1>1, <1>2, <2>3, <2>4, <3>1 DEF LineUp
  <2>5. CASE b \notin DOMAIN list
    <3>1. new[b].id = r
      <4>1. b = Len(list) + 1
        BY <2>2, <2>5
      <4> QED BY <2>1, <2>2, <4>1
    <3>2. r \notin earlier[list[a].id]
      BY <1>1, <1>4, <2>3 DEF EarlierAdded
    <3> QED BY <1>1, <2>3, <3>1, <3>2
  <2> QED BY <2>4, <2>5
<1> QED BY <1>3, <1>4 DEF LineStep, list

\* What starts to wait was not accepted before.
LEMMA WaitsGrow ==
  ASSUME Places, [Next]_vars
  PROVE  Waiting' \in SUBSET (Waiting \cup (Reqs \ Accepted))
<1>1. StateTypes' /\ ListTypes' /\ PlaceStep
  BY NextPlaces
<1>2. StateTypes /\ ListTypes /\ Apart /\ Complete
  BY DEF Places
<1>3. CASE Still
  BY <1>1, <1>2, <1>3, StillKeeps
<1>4. ASSUME NEW r \in Reqs, ComesIn(r) PROVE Waiting' \in SUBSET (Waiting \cup (Reqs \ Accepted))
  <2>1. Waiting' = Waiting \cup {r}
    BY <1>1, <1>2, <1>4, ComesInKeeps
  <2> QED BY <1>4, <2>1 DEF ComesIn
<1>5. ASSUME NEW r \in Reqs, GoesPast(r) \/ ComesBack(r) \/ Leaves(r)
      PROVE  Waiting' \in SUBSET Waiting
  BY <1>1, <1>2, <1>5, GoesPastKeeps, ComesBackKeeps, LeavesKeeps
<1>6. ASSUME NEW B, Selects(B) \/ Delivers(B) PROVE Waiting' \in SUBSET Waiting
  BY <1>1, <1>2, <1>6, SelectsKeeps, DeliversKeeps
<1> QED BY <1>1, <1>3, <1>4, <1>5, <1>6 DEF PlaceStep

\* What a step does to the request that is served: one is taken from the front of a line,
\* or given back, or neither.
ServeStep ==
  \/ UNCHANGED <<info, calls>>
  \/ \E l \in Lists :
       /\ ListAt(l) \in Seq(Simple(data)) /\ ListAt(l) # <<>>
       /\ info = <<>> /\ info' = <<<<Head(ListAt(l)).id>>>> /\ UNCHANGED calls
  \/ \E x \in Reqs : info = <<<<x>>>> /\ info' = <<>> /\ calls' = Append(calls, <<x>>)

\* The request at the head of a list is taken.
LEMMA TakesHead ==
  ASSUME Places, NEW l \in Lists, ListAt(l) \in Seq(Simple(data)), ListAt(l) # <<>>,
         Process(Head(ListAt(l))), UNCHANGED calls, apc = "pick"
  PROVE  ServeStep
<1>1. Head(ListAt(l)) \in Simple(data)
  BY HeadAndTail
<1>2. info' = <<<<Head(ListAt(l)).id>>>>
  BY <1>1, OneSelected DEF Places, StateTypes
<1>3. info = <<>>
  BY DEF Places, StateTypes
<1> QED BY <1>2, <1>3 DEF ServeStep

\* Every step of an algorithm that serves in order does so.
LEMMA NextServes ==
  ASSUME Places, Bounded, Ordered, Held = {}, OneByOne, [Next]_vars
  PROVE  ServeStep /\ Held' = {}
<1>1. ASSUME NEW r \in Reqs, UserStep(r) PROVE ServeStep /\ Held' = {}
  BY <1>1, UserServes DEF ServeStep, Ordered
<1>2. CASE process_requests_step2
  <2>1. apc = "callback" /\ UNCHANGED pc
    BY <1>2 DEF process_requests_step2, users
  <2>2. PICK x \in Reqs : info = <<<<x>>>>
    BY <2>1 DEF OneByOne, Places, StateTypes
  <2>3. Head(info) = <<x>> /\ Len(<<x>>) = 1 /\ Tail(info) = <<>>
    BY <2>2
  <2>4. info' = <<>> /\ calls' = Append(calls, <<x>>)
    BY <1>2, <2>3 DEF process_requests_step2
  <2> QED BY <2>1, <2>2, <2>4 DEF ServeStep, Held
<1>3. CASE UNCHANGED <<info, calls, pc>>
  BY <1>3 DEF ServeStep, Held
<1>4. CASE agios_exit \/ CheckQueued \/ WakeUp \/ TestStop \/ Tick \/ UNCHANGED vars
  <2>1. UNCHANGED <<info, calls, pc>>
    BY <1>4 DEF agios_exit, CheckQueued, WakeUp, TestStop, Tick, vars, coreVars, thread, history,
         users
  <2> QED BY <1>3, <2>1
<1>5. CASE schedule
  <2>1. UNCHANGED <<calls, pc>>
    BY <1>5, ScheduleQuiet DEF users, history
  <2>2. timeorder \/ NOOP_empty \/ WFQ \/ TWINS
    BY <1>5 DEF schedule, SJF, MLF, aIOLi, Ordered
  <2>4. CASE UNCHANGED info
    BY <1>3, <2>1, <2>4
  <2>5. CASE timeorder \/ NOOP_empty
    <3>1. current_alg = "TO" /\ (UNCHANGED info \/ timeorder_pick)
      BY <2>5 DEF timeorder, timeorder_test, timeorder_assert, Abort, NOOP_empty, Ordered
    <3>2. CASE timeorder_pick
      <4>1. timeline # <<>> /\ Process(Head(timeline)) /\ apc = "pick"
        BY <3>2 DEF timeorder_pick
      <4>2. TimelineList \in Lists /\ ListAt(TimelineList) = timeline
        BY ListNames, ListContents
      <4>3. ServeStep
        <5> DEFINE l == TimelineList
        <5>1. l \in Lists /\ ListAt(l) \in Seq(Simple(data)) /\ ListAt(l) # <<>>
              /\ Process(Head(ListAt(l)))
          BY <3>1, <4>1, <4>2, TimelineIsSimple
        <5> HIDE DEF l
        <5> QED BY <2>1, <4>1, <5>1, TakesHead
      <4> QED BY <2>1, <4>3 DEF Held
    <3> QED BY <2>4, <3>1, <3>2
  <2>6. ASSUME NEW i \in 0 .. max_queue_id, multi_timeline[i] # <<>>,
               Process(Head(multi_timeline[i])), apc = "pick"
        PROVE  ServeStep /\ Held' = {}
    <3> DEFINE l == MultiList(i)
    <3>1. l \in Lists /\ ListAt(l) = multi_timeline[i] /\ ListAt(l) \in Seq(Simple(data))
      BY ListNames, ListContents DEF Places, ListTypes
    <3> HIDE DEF l
    <3>2. ListAt(l) # <<>> /\ Process(Head(ListAt(l)))
      BY <2>6, <3>1
    <3>3. ServeStep
      BY <2>1, <2>6, <3>1, <3>2, TakesHead
    <3> QED BY <2>1, <3>3 DEF Held
  <2>7. CASE WFQ
    <3>1. UNCHANGED info \/ WFQ_pick
      BY <2>7 DEF WFQ, WFQ_test, WFQ_turn
    <3>2. g_current_queue \in 0 .. max_queue_id
      BY AlgAssumption DEF Places, SchedulerTypes, QueueIds
    <3>3. CASE WFQ_pick
      <4>1. multi_timeline[g_current_queue] # <<>> /\ Process(Head(multi_timeline[g_current_queue]))
            /\ apc = "pick"
        BY <3>3 DEF WFQ_pick, MayGo
      <4> QED BY <2>6, <3>2, <4>1
    <3> QED BY <2>4, <3>1, <3>3
  <2>8. CASE TWINS
    <3>1. UNCHANGED info \/ \E elapsed \in BOOLEAN : TWINS_pick(elapsed)
      BY <2>8 DEF TWINS, TWINS_look, TWINS_test, TWINS_break
    <3>2. ASSUME NEW elapsed \in BOOLEAN, TWINS_pick(elapsed) PROVE ServeStep /\ Held' = {}
      <4>1. Window(elapsed) \in 0 .. max_queue_id
        BY WindowType DEF Places, SchedulerTypes
      <4>2. multi_timeline[Window(elapsed)] # <<>> /\ Process(Head(multi_timeline[Window(elapsed)]))
            /\ apc = "pick"
        BY <3>2 DEF TWINS_pick
      <4> QED BY <2>6, <4>1, <4>2
    <3> QED BY <2>4, <3>1, <3>2
  <2> QED BY <2>2, <2>5, <2>7, <2>8
<1> QED BY <1>1, <1>2, <1>4, <1>5 DEF Next, CoreNext, ThreadStep

\* Nobody who waits came earlier than the one at the front of the line.
LEMMA FirstInLine ==
  ASSUME Places, Bounded, OwnLists, InLine, Ordered, NEW l \in Lists,
         ListAt(l) \in Seq(Simple(data)), ListAt(l) # <<>>
  PROVE  LET x == Head(ListAt(l)).id
         IN  x \in Waiting /\ earlier[x] \cap Waiting \in SUBSET {x}
<1> DEFINE list == ListAt(l)
           x    == Head(list).id
<1>1. /\ Members(list) = {list[a].id : a \in DOMAIN list} /\ 1 \in DOMAIN list
      /\ x = list[1].id /\ DOMAIN list = 1 .. Len(list) /\ Len(list) \in Nat
  BY SimpleMembers, LenProperties DEF Places, StateTypes
<1>2. x \in Members(list)
  BY <1>1
<1> HIDE DEF x
<1>3. x \in Waiting /\ x \in Reqs
  BY <1>2, WaitingAre DEF Places
<1>4. PICK m \in Lists : /\ ListAt(m) \in Seq(Simple(data)) /\ x \in Members(ListAt(m))
                         /\ current_alg = "TO" => m = TimelineList
                         /\ current_alg # "TO" => \E i \in 0 .. max_queue_id : m = MultiList(i)
                         /\ \A s \in Waiting \cap InOrderWith(x) : s \in Members(ListAt(m))
  BY <1>3, OneLine
<1>5. m = l
  BY <1>2, <1>4 DEF Places, Apart
<1>6. LineUp(list)
  BY <1>4, <1>5, ListContents DEF InLine
<1>7. ASSUME NEW s \in earlier[x] \cap Waiting PROVE s = x
  <2>1. s \in InOrderWith(x)
    BY <1>3, <1>7 DEF InLine, EarlierAdded
  <2>2. PICK b \in DOMAIN list : s = list[b].id
    BY <1>1, <1>4, <1>5, <1>7, <2>1
  <2>3. ~ (1 < b)
    BY <1>1, <1>6, <1>7, <2>2 DEF LineUp
  <2>4. b = 1
    BY <1>1, <2>2, <2>3
  <2> QED BY <1>1, <2>2, <2>4
<1> QED BY <1>3, <1>7 DEF x

\* Those who came earlier than a request that is or was served do not wait any more.
LEMMA InLineKept == Places /\ Bounded /\ OwnLists /\ InLine /\ [Next]_vars => InLine'
<1> SUFFICES ASSUME Places, Bounded, OwnLists, InLine, [Next]_vars PROVE InLine'
  OBVIOUS
<1>1. /\ EarlierAdded' /\ \A r \in Reqs : pc[r] # "new" => earlier'[r] = earlier[r]
      /\ EarlierAdded
  BY EarlierKept DEF InLine
<1>2. (Ordered' <=> Ordered) /\ UNCHANGED <<data, current_alg>>
  BY InputKept DEF Ordered
<1>3. Places' /\ OwnLists'
  BY PlacesKept, OwnListsKept
<1>4. CASE ~ Ordered
  BY <1>1, <1>2, <1>4 DEF InLine
<1>5. CASE Ordered
  <2>1. /\ Held = {} /\ OneByOne
        /\ LineUp(timeline) /\ \A i \in 0 .. max_queue_id : LineUp(multi_timeline[i])
        /\ \A r \in Delivered : earlier[r] \cap (Waiting \cup Chosen) = {}
        /\ \A r \in Chosen : earlier[r] \cap Waiting = {}
        /\ FirstComeFirstServed
    BY <1>5 DEF InLine
  <2>2. ServeStep /\ Held' = {}
    BY <1>5, <2>1, NextServes
  <2>3. LineUp(timeline)'
    <3>1. CASE current_alg = "TO"
      <4>1. TimelineList \in Lists /\ ListAt(TimelineList) = timeline
        BY ListNames, ListContents
      <4>2. timeline \in Seq(Simple(data)) /\ LineStep(timeline', timeline)
        BY <3>1, TimelineIsSimple, TimelineLines
      <4>3. \A a, b \in DOMAIN timeline' : a < b => timeline'[b].id \notin earlier'[timeline'[a].id]
        <5> DEFINE l == TimelineList
        <5>1. l \in Lists /\ ListAt(l) \in Seq(Simple(data)) /\ LineUp(ListAt(l))
              /\ LineStep(timeline', ListAt(l))
          BY <2>1, <4>1, <4>2
        <5> HIDE DEF l
        <5> QED BY <1>1, <5>1, StaysInLine
      <4> QED BY <4>3 DEF LineUp
    <3>2. CASE current_alg # "TO"
      <4>1. timeline' = <<>>
        BY <1>2, <1>3, <1>5, <3>2 DEF OwnLists, InTimeline, Ordered
      <4> QED BY <4>1 DEF LineUp
    <3> QED BY <3>1, <3>2
  <2>4. ASSUME NEW i \in 0 .. max_queue_id PROVE LineUp(multi_timeline[i])'
    <3> DEFINE l == MultiList(i)
               new == multi_timeline'[i]
    <3>1. l \in Lists /\ ListAt(l) = multi_timeline[i] /\ ListAt(l) \in Seq(Simple(data))
      BY ListNames, ListContents DEF Places, ListTypes
    <3> HIDE DEF l
    <3>2. LineUp(ListAt(l)) /\ LineStep(new, ListAt(l))
      BY <1>5, <2>1, <3>1, MultiLines
    <3> HIDE DEF new
    <3>3. \A a, b \in DOMAIN new : a < b => new[b].id \notin earlier'[new[a].id]
      BY <1>1, <3>1, <3>2, StaysInLine
    <3> QED BY <3>3 DEF LineUp, new
  <2>5. Waiting' \in SUBSET (Waiting \cup (Reqs \ Accepted)) /\ Chosen \cup Delivered \subseteq Accepted
        /\ Chosen \in SUBSET Reqs /\ Delivered \in SUBSET Reqs
    BY WaitsGrow DEF Places, Complete, Accepted
  <2>6. \A r \in Accepted : \A s \in earlier'[r] :
          s \in earlier[r] /\ s \in Accepted /\ (s \in Waiting' => s \in Waiting)
    BY <1>1, <2>5 DEF Accepted, EarlierAdded
  <2>7. \A x : ToSet(<<x>>) = {x}
    BY DEF ToSet
  <2>8. ASSUME NEW ids, NEW x, ids = <<<<x>>>> PROVE AllIds(ids) = {x}
    <3>1. DOMAIN ids = {1} /\ ids[1] = <<x>>
      BY <2>8
    <3>2. \A i \in DOMAIN ids : ToSet(ids[i]) = {x}
      BY <2>7, <3>1
    <3> QED BY <3>1, <3>2 DEF AllIds
  <2>9. AllIds(<<>>) = {}
    BY DEF AllIds
  <2>10. CASE UNCHANGED <<info, calls>>
    <3>1. Chosen' = Chosen /\ Delivered' = Delivered /\ OneByOne'
      BY <2>1, <2>10 DEF Chosen, Delivered, OneByOne
    <3>2. \A r \in Delivered' : earlier'[r] \cap (Waiting' \cup Chosen') = {}
      BY <2>1, <2>5, <2>6, <3>1
    <3>3. \A r \in Chosen' : earlier'[r] \cap Waiting' = {}
      BY <2>1, <2>5, <2>6, <3>1
    <3>4. \A i \in DOMAIN calls : \A k \in DOMAIN calls[i] : calls[i][k] \in Delivered
      BY DEF Delivered, ToSet
    <3>5. FirstComeFirstServed'
      <4> SUFFICES ASSUME NEW i \in DOMAIN calls', NEW j \in DOMAIN calls', NEW k \in DOMAIN calls'[i],
                          NEW m \in DOMAIN calls'[j], i < j \/ (i = j /\ k < m)
                   PROVE  calls'[j][m] \notin earlier'[calls'[i][k]]
        BY DEF FirstComeFirstServed
      <4>1. calls[j][m] \notin earlier[calls[i][k]]
        BY <2>1, <2>10 DEF FirstComeFirstServed
      <4> QED BY <2>5, <2>6, <2>10, <3>4, <4>1
    <3> QED BY <1>1, <1>2, <2>2, <2>3, <2>4, <3>1, <3>2, <3>3, <3>5, Zenon DEF InLine
  <2>11. ASSUME NEW l \in Lists, ListAt(l) \in Seq(Simple(data)), ListAt(l) # <<>>,
                info = <<>>, info' = <<<<Head(ListAt(l)).id>>>>, UNCHANGED calls
         PROVE  InLine'
    <3>1. PICK x : x = Head(ListAt(l)).id
      OBVIOUS
    <3>2. x \in Waiting /\ earlier[x] \cap Waiting \in SUBSET {x}
      BY <1>5, <2>11, <3>1, FirstInLine
    <3>3. x \in Reqs /\ x \in Accepted
      BY <3>2 DEF Waiting, Places, Complete
    <3>4. Chosen' = {x} /\ Delivered' = Delivered /\ OneByOne'
      <4>1. info' = <<<<x>>>>
        BY <2>11, <3>1
      <4>2. Chosen' = AllIds(info')
        BY DEF Chosen, AllIds
      <4> QED BY <2>8, <2>11, <3>3, <4>1, <4>2 DEF Delivered, OneByOne
    <3>5. x \notin Waiting'
      BY <1>3, <3>4 DEF Places, Apart
    <3>6. \A r \in Delivered' : earlier'[r] \cap (Waiting' \cup Chosen') = {}
      BY <2>1, <2>5, <2>6, <3>2, <3>4
    <3>7. \A r \in Chosen' : earlier'[r] \cap Waiting' = {}
      BY <2>6, <3>2, <3>3, <3>4, <3>5
    <3>8. \A i \in DOMAIN calls : \A k \in DOMAIN calls[i] : calls[i][k] \in Delivered
      BY DEF Delivered, ToSet
    <3>9. FirstComeFirstServed'
      <4> SUFFICES ASSUME NEW i \in DOMAIN calls', NEW j \in DOMAIN calls', NEW k \in DOMAIN calls'[i],
                          NEW m \in DOMAIN calls'[j], i < j \/ (i = j /\ k < m)
                   PROVE  calls'[j][m] \notin earlier'[calls'[i][k]]
        BY DEF FirstComeFirstServed
      <4>1. calls[j][m] \notin earlier[calls[i][k]]
        BY <2>1, <2>11 DEF FirstComeFirstServed
      <4> QED BY <2>5, <2>6, <2>11, <3>8, <4>1
    <3> QED BY <1>1, <1>2, <2>2, <2>3, <2>4, <3>4, <3>6, <3>7, <3>9, Zenon DEF InLine
  <2>12. ASSUME NEW x \in Reqs, info = <<<<x>>>>, info' = <<>>, calls' = Append(calls, <<x>>)
         PROVE  InLine'
    <3>1. Chosen = {x} /\ Chosen' = {} /\ OneByOne'
      <4>1. Chosen = AllIds(info) /\ Chosen' = AllIds(info')
        BY DEF Chosen, AllIds
      <4> QED BY <2>8, <2>9, <2>12, <4>1 DEF OneByOne
    <3>2. calls \in Seq(Seq(Reqs)) /\ <<x>> \in Seq(Reqs)
      <4>1. calls \in Seq(Seq(Reqs) \ {<<>>}) /\ Seq(Reqs) \ {<<>>} \subseteq Seq(Reqs)
        BY DEF Places, StateTypes, IdLists
      <4> QED BY <4>1, SeqMonotonic
    <3>3. /\ Len(calls) \in Nat /\ DOMAIN calls = 1 .. Len(calls)
          /\ DOMAIN calls' = 1 .. Len(calls) + 1 /\ calls'[Len(calls) + 1] = <<x>>
          /\ \A i \in DOMAIN calls : calls'[i] = calls[i]
      <4>1. /\ calls' \in Seq(Seq(Reqs)) /\ Len(calls') = Len(calls) + 1
            /\ calls'[Len(calls) + 1] = <<x>> /\ \A i \in 1 .. Len(calls) : calls'[i] = calls[i]
        BY <2>12, <3>2, AppendProperties
      <4> QED BY <3>2, <4>1, LenProperties
    <3>4. Delivered' \in SUBSET (Delivered \cup {x})
      <4>1. Delivered' = UNION {ToSet(calls'[i]) : i \in DOMAIN calls'}
        BY DEF Delivered
      <4>2. \A i \in DOMAIN calls' : ToSet(calls'[i]) \in SUBSET (Delivered \cup {x})
        <5> SUFFICES ASSUME NEW i \in DOMAIN calls'
                     PROVE  ToSet(calls'[i]) \in SUBSET (Delivered \cup {x})
          OBVIOUS
        <5>1. CASE i \in DOMAIN calls
          BY <3>3, <5>1 DEF Delivered
        <5>2. CASE i = Len(calls) + 1
          BY <2>7, <3>3, <5>2
        <5> QED BY <3>3, <5>1, <5>2
      <4> QED BY <4>1, <4>2
    <3>5. \A r \in Delivered \cup {x} : r \in Accepted /\ earlier[r] \cap Waiting = {}
      BY <2>1, <2>5, <3>1
    <3>6. \A r \in Delivered' : earlier'[r] \cap (Waiting' \cup Chosen') = {}
      BY <2>6, <3>1, <3>4, <3>5
    <3>7. \A i \in DOMAIN calls : \A k \in DOMAIN calls[i] : calls[i][k] \in Delivered
      BY DEF Delivered, ToSet
    <3>8. FirstComeFirstServed'
      <4> SUFFICES ASSUME NEW i \in DOMAIN calls', NEW j \in DOMAIN calls', NEW k \in DOMAIN calls'[i],
                          NEW m \in DOMAIN calls'[j], i < j \/ (i = j /\ k < m)
                   PROVE  calls'[j][m] \notin earlier'[calls'[i][k]]
        BY DEF FirstComeFirstServed
      <4>1. CASE j \in DOMAIN calls
        <5>1. i \in DOMAIN calls
          BY <3>3, <4>1
        <5>2. calls'[i] = calls[i] /\ calls'[j] = calls[j]
          BY <3>3, <4>1, <5>1
        <5>3. calls[j][m] \notin earlier[calls[i][k]]
          BY <2>1, <4>1, <5>1, <5>2 DEF FirstComeFirstServed
        <5>4. calls[i][k] \in Accepted
          BY <2>5, <3>7, <5>1, <5>2
        <5> QED BY <2>6, <5>2, <5>3, <5>4
      <4>2. CASE j \notin DOMAIN calls
        <5>1. j = Len(calls) + 1 /\ calls'[j] = <<x>>
          BY <3>3, <4>2
        <5>2. m = 1 /\ calls'[j][m] = x
          BY <5>1
        <5>3. i \in DOMAIN calls
          <6>1. CASE i = j
            BY <5>1, <5>2, <6>1
          <6>2. CASE i < j
            BY <3>3, <5>1, <6>2
          <6> QED BY <6>1, <6>2
        <5>4. calls'[i][k] \in Delivered
          BY <3>3, <3>7, <5>3
        <5>5. x \notin earlier[calls'[i][k]] /\ calls'[i][k] \in Accepted
          BY <2>1, <2>5, <3>1, <5>4
        <5> QED BY <2>6, <5>2, <5>5
      <4> QED BY <4>1, <4>2
    <3> QED BY <1>1, <1>2, <2>2, <2>3, <2>4, <3>1, <3>6, <3>8 DEF InLine
  <2> QED BY <2>2, <2>10, <2>11, <2>12 DEF ServeStep
<1> QED BY <1>4, <1>5

\* Of two requests the algorithm serves in the order of their adds, one that was added after
\* the add of the other had returned is not given back first: with TO among all requests,
\* with WFQ and TWINS among those of a queue_id, and whatever is cancelled meanwhile.
THEOREM ServedInOrder == Spec => []FirstComeFirstServed
<1>1. LibraryInit => InLine
  BY DEF LibraryInit, Init, InLine, EarlierAdded, LineUp, OneByOne, Held, Delivered, Chosen, AllIds,
       FirstComeFirstServed
<1>2. LibraryInit => Bounded
  BY DEF LibraryInit, Init, Bounded, NoneOver
<1>3. ASSUME Places, InLine PROVE FirstComeFirstServed
  <2>1. CASE Ordered
    BY <1>3, <2>1 DEF InLine
  <2>2. CASE ~ Ordered
    <3>1. \A r \in Reqs : earlier[r] = {}
      BY <1>3, <2>2 DEF InLine, EarlierAdded, InOrderWith, uses_multi_timeline, Ordered
    <3>2. \A i \in DOMAIN calls : \A k \in DOMAIN calls[i] : calls[i][k] \in Delivered
      BY DEF Delivered, ToSet
    <3>3. Delivered \in SUBSET Reqs
      BY <1>3 DEF Places, Complete, Accepted
    <3> QED BY <3>1, <3>2, <3>3 DEF FirstComeFirstServed
  <2> QED BY <2>1, <2>2
<1> QED BY <1>1, <1>2, <1>3, InLineKept, BoundedKept, AlwaysPlaces, AlwaysOwnLists, PTL DEF Spec

-----------------------------------------------------------------------------
(* The dispatch queues and the releases.                                   *)

DispatchedOnes == {Dispatched(p) : p \in Simple(data)}

\* A record of a dispatch queue with a request that has its extent.
SameExtent ==
  {c \in DispatchedOnes \X Reqs : Same(c[1], data[c[2]].offset, data[c[2]].len)}

\* The parts of the entries of a batch, one after the other: each of its requests, once.
LEMMA BatchParts ==
  ASSUME NEW batch \in Seq(Entry(data)), NoneTwice(batch)
  PROVE  LET parts == FlattenSeq([i \in DOMAIN batch |-> Parts(batch[i])])
         IN  /\ parts \in Seq(Simple(data))
             /\ \A k, m \in DOMAIN parts : parts[k].id = parts[m].id => k = m
             /\ \A r : r \in Members(batch) <=> \E k \in DOMAIN parts : parts[k].id = r
<1> DEFINE pp == [i \in DOMAIN batch |-> Parts(batch[i])]
           parts == FlattenSeq(pp)
<1>1. DOMAIN batch = 1 .. Len(batch) /\ Len(batch) \in Nat
  BY LenProperties
<1>2. \A i \in DOMAIN batch : Parts(batch[i]) \in Seq(Simple(data))
  BY <1>1, ElementOfSeq, PartsOfEntry
<1>3. pp \in Seq(Seq(Simple(data))) /\ DOMAIN pp = DOMAIN batch
  <2>1. pp \in [1 .. Len(batch) -> Seq(Simple(data))]
    BY <1>1, <1>2
  <2> QED BY <1>1, <2>1
<1>4. \A i \in DOMAIN batch : pp[i] = Parts(batch[i])
  OBVIOUS
<1> HIDE DEF pp
<1>5. /\ parts \in Seq(Simple(data))
      /\ Paired(parts, CellsOf(pp, Len(pp)), Holds(pp))
  BY <1>3, FlattenIs
<1>6. DOMAIN pp = 1 .. Len(pp) /\ Len(pp) \in Nat
  BY <1>3, LenProperties
<1> HIDE DEF parts
<1>7. PICK f : Matches(f, parts, CellsOf(pp, Len(pp)), Holds(pp))
  BY <1>5 DEF Paired
<1>8. ASSUME NEW k \in DOMAIN parts
      PROVE  /\ f[k] = <<f[k][1], f[k][2]>>
             /\ f[k][1] \in DOMAIN batch /\ f[k][2] \in DOMAIN Parts(batch[f[k][1]])
             /\ parts[k] = Parts(batch[f[k][1]])[f[k][2]]
  <2>1. f[k] \in CellsOf(pp, Len(pp)) /\ <<parts[k], f[k]>> \in Holds(pp)
    BY <1>7 DEF Matches
  <2>2. parts[k] = pp[f[k][1]][f[k][2]]
    <3>1. PICK c \in CellsOf(pp, Len(pp)) : <<parts[k], f[k]>> = <<pp[c[1]][c[2]], c>>
      BY <2>1 DEF Holds
    <3> QED BY <3>1
  <2>3. f[k][1] \in DOMAIN pp /\ f[k][2] \in DOMAIN pp[f[k][1]] /\ f[k] = <<f[k][1], f[k][2]>>
    BY <1>6, <2>1 DEF CellsOf
  <2> QED BY <1>3, <1>4, <2>2, <2>3
<1>9. ASSUME NEW k \in DOMAIN parts, NEW m \in DOMAIN parts, parts[k].id = parts[m].id
      PROVE  k = m
  <2> DEFINE i == f[k][1]
             j == f[m][1]
  <2>1. /\ i \in DOMAIN batch /\ f[k][2] \in DOMAIN Parts(batch[i])
        /\ j \in DOMAIN batch /\ f[m][2] \in DOMAIN Parts(batch[j])
        /\ parts[k].id = Parts(batch[i])[f[k][2]].id
        /\ parts[m].id = Parts(batch[j])[f[m][2]].id
        /\ f[k] = <<i, f[k][2]>> /\ f[m] = <<j, f[m][2]>>
    BY <1>8
  <2> HIDE DEF i, j
  <2>2. parts[k].id \in IdSet(batch[i]) /\ parts[m].id \in IdSet(batch[j])
    <3>1. \A b \in DOMAIN batch : IdSet(batch[b]) = {Parts(batch[b])[x].id : x \in DOMAIN Parts(batch[b])}
      BY <1>1, ElementOfSeq, IdsOfEntry
    <3> QED BY <2>1, <3>1
  <2>3. i = j
    BY <1>9, <2>1, <2>2 DEF NoneTwice
  <2>4. f[k][2] = f[m][2]
    BY <1>9, <2>1, <2>3 DEF NoneTwice, OneEach
  <2>5. f[k] = f[m]
    BY <2>1, <2>3, <2>4
  <2> QED BY <1>7, <2>5 DEF Matches
<1>10. ASSUME NEW i \in DOMAIN batch, NEW x \in DOMAIN Parts(batch[i])
       PROVE  \E k \in DOMAIN parts : parts[k].id = Parts(batch[i])[x].id
  <2>1. x \in Nat
    <3> DEFINE s == Parts(batch[i])
    <3>1. DOMAIN s = 1 .. Len(s) /\ Len(s) \in Nat
      BY <1>2, LenProperties
    <3> HIDE DEF s
    <3>2. DOMAIN s \subseteq Nat
      BY <3>1
    <3> QED BY <3>2 DEF s
  <2>2. <<i, x>> \in CellsOf(pp, Len(pp))
    BY <1>1, <1>3, <1>4, <1>6, <2>1 DEF CellsOf
  <2>3. PICK k \in DOMAIN parts : f[k] = <<i, x>>
    BY <1>7, <2>2 DEF Matches
  <2>4. parts[k] = Parts(batch[i])[x]
    BY <1>8, <2>3
  <2> QED BY <2>4
<1>11. ASSUME NEW r PROVE r \in Members(batch) <=> \E k \in DOMAIN parts : parts[k].id = r
  <2>1. \A b \in DOMAIN batch : IdSet(batch[b]) = {Parts(batch[b])[x].id : x \in DOMAIN Parts(batch[b])}
    BY <1>1, ElementOfSeq, IdsOfEntry
  <2>2. r \in Members(batch) <=>
          \E i \in DOMAIN batch : \E x \in DOMAIN Parts(batch[i]) : Parts(batch[i])[x].id = r
    BY <2>1, MembersAre
  <2>3. ASSUME NEW k \in DOMAIN parts, parts[k].id = r
        PROVE  \E i \in DOMAIN batch : \E x \in DOMAIN Parts(batch[i]) : Parts(batch[i])[x].id = r
    BY <1>8, <2>3
  <2> QED BY <1>10, <2>2, <2>3
<1> QED BY <1>5, <1>9, <1>11 DEF parts, pp

\* What step 1 appends to a dispatch queue: a record for each request of the batch that is
\* of this queue, with its extent.
LEMMA RecordsOf ==
  ASSUME data \in [Reqs -> Arguments], NEW batch \in Seq(Entry(data)), NoneTwice(batch), NEW q
  PROVE  /\ DispatchRecords(batch, q) \in Seq(DispatchedOnes)
         /\ Paired(DispatchRecords(batch, q), OfQueue(Members(batch), q), SameExtent)
<1> DEFINE parts == FlattenSeq([i \in DOMAIN batch |-> Parts(batch[i])])
           rr == [k \in DOMAIN parts |->
                    IF parts[k].queue = q THEN <<Dispatched(parts[k])>> ELSE <<>>]
           ofq == FlattenSeq(rr)
<1>1. /\ parts \in Seq(Simple(data))
      /\ \A k, m \in DOMAIN parts : parts[k].id = parts[m].id => k = m
      /\ \A r : r \in Members(batch) <=> \E k \in DOMAIN parts : parts[k].id = r
  BY BatchParts
<1>2. DispatchRecords(batch, q) = ofq
  BY DEF DispatchRecords
<1> HIDE DEF parts
<1>3. DOMAIN parts = 1 .. Len(parts) /\ Len(parts) \in Nat
  BY <1>1, LenProperties
<1>4. \A k \in DOMAIN parts : parts[k] \in Simple(data) /\ Dispatched(parts[k]) \in DispatchedOnes
  <2>1. \A k \in DOMAIN parts : parts[k] \in Simple(data)
    BY <1>1, <1>3, ElementOfSeq
  <2> QED BY <2>1 DEF DispatchedOnes
<1>5. rr \in Seq(Seq(DispatchedOnes))
  <2>1. \A d \in DispatchedOnes : <<d>> \in Seq(DispatchedOnes)
    OBVIOUS
  <2>2. <<>> \in Seq(DispatchedOnes)
    OBVIOUS
  <2>3. \A k \in DOMAIN parts : rr[k] \in Seq(DispatchedOnes)
    BY <1>4, <2>1, <2>2
  <2>4. rr \in [1 .. Len(parts) -> Seq(DispatchedOnes)]
    BY <1>3, <2>3
  <2> QED BY <1>3, <2>4
<1>6. /\ DOMAIN rr = DOMAIN parts
      /\ \A k \in DOMAIN parts : rr[k] = IF parts[k].queue = q THEN <<Dispatched(parts[k])>> ELSE <<>>
  OBVIOUS
<1> HIDE DEF rr
<1>7. ofq \in Seq(DispatchedOnes) /\ Paired(ofq, CellsOf(rr, Len(rr)), Holds(rr))
  BY <1>5, FlattenIs
<1>8. DOMAIN rr = 1 .. Len(rr)
  BY <1>5, LenProperties
<1> HIDE DEF ofq
<1>9. PICK g : Matches(g, ofq, CellsOf(rr, Len(rr)), Holds(rr))
  BY <1>7 DEF Paired
<1>10. ASSUME NEW n \in DOMAIN ofq
       PROVE  /\ g[n] = <<g[n][1], 1>> /\ g[n][1] \in DOMAIN parts /\ parts[g[n][1]].queue = q
              /\ ofq[n] = Dispatched(parts[g[n][1]])
  <2> DEFINE k == g[n][1]
             x == g[n][2]
  <2>1. g[n] \in CellsOf(rr, Len(rr)) /\ <<ofq[n], g[n]>> \in Holds(rr)
    BY <1>9 DEF Matches
  <2>2. ofq[n] = rr[k][x]
    <3>1. PICK c \in CellsOf(rr, Len(rr)) : <<ofq[n], g[n]>> = <<rr[c[1]][c[2]], c>>
      BY <2>1 DEF Holds
    <3> QED BY <3>1
  <2>3. k \in DOMAIN rr /\ x \in DOMAIN rr[k] /\ g[n] = <<k, x>>
    BY <1>8, <2>1 DEF CellsOf
  <2> HIDE DEF k, x
  <2>4. DOMAIN <<>> = {}
    OBVIOUS
  <2>5. parts[k].queue = q /\ rr[k] = <<Dispatched(parts[k])>>
    BY <1>6, <2>3, <2>4
  <2>6. x = 1 /\ rr[k][x] = Dispatched(parts[k])
    BY <2>3, <2>5
  <2> QED BY <1>6, <2>2, <2>3, <2>5, <2>6 DEF k
<1> DEFINE W == OfQueue(Members(batch), q)
           h == [n \in DOMAIN ofq |-> parts[g[n][1]].id]
<1>11. \A k \in DOMAIN parts : /\ parts[k].id \in Reqs
                               /\ parts[k].queue = data[parts[k].id].queue
                               /\ Same(Dispatched(parts[k]), data[parts[k].id].offset,
                                       data[parts[k].id].len)
  <2>1. DOMAIN data = Reqs
    BY DataAre
  <2> SUFFICES ASSUME NEW p \in Simple(data)
               PROVE  /\ p.id \in Reqs /\ p.queue = data[p.id].queue
                      /\ Same(Dispatched(p), data[p.id].offset, data[p.id].len)
    BY <1>4
  <2>2. /\ p.id \in Reqs /\ p.queue = data[p.id].queue
        /\ p.offset = data[p.id].offset /\ p.len = data[p.id].len
    BY <2>1 DEF Simple
  <2>3. Dispatched(p).offset = p.offset /\ Dispatched(p).len = p.len
    BY DEF Dispatched, Simple
  <2> QED BY <2>2, <2>3 DEF Same
<1>12. \A n \in DOMAIN ofq : h[n] \in W /\ <<ofq[n], h[n]>> \in SameExtent
  <2> SUFFICES ASSUME NEW n \in DOMAIN ofq PROVE h[n] \in W /\ <<ofq[n], h[n]>> \in SameExtent
    OBVIOUS
  <2>1. PICK k \in DOMAIN parts : k = g[n][1] /\ parts[k].queue = q /\ ofq[n] = Dispatched(parts[k])
    BY <1>10
  <2>2. h[n] = parts[k].id
    BY <2>1
  <2>3. parts[k].id \in Members(batch)
    BY <1>1
  <2> HIDE DEF h
  <2> QED BY <1>4, <1>11, <2>1, <2>2, <2>3 DEF OfQueue, SameExtent
<1>13. ASSUME NEW n \in DOMAIN ofq, NEW m \in DOMAIN ofq, h[n] = h[m] PROVE n = m
  <2>1. g[n][1] = g[m][1]
    BY <1>1, <1>10, <1>13
  <2>2. g[n] = g[m]
    BY <1>10, <2>1
  <2> QED BY <1>9, <2>2 DEF Matches
<1>14. ASSUME NEW r \in W PROVE \E n \in DOMAIN ofq : h[n] = r
  <2>1. PICK k \in DOMAIN parts : parts[k].id = r
    BY <1>1, <1>14 DEF OfQueue
  <2>2. parts[k].queue = q
    BY <1>11, <1>14, <2>1 DEF OfQueue
  <2>3. DOMAIN rr[k] = {1} /\ k \in Nat /\ k \in 1 .. Len(rr)
    BY <1>3, <1>6, <1>8, <2>2
  <2>4. <<k, 1>> \in CellsOf(rr, Len(rr))
    BY <2>3 DEF CellsOf
  <2>5. PICK n \in DOMAIN ofq : g[n] = <<k, 1>>
    BY <1>9, <2>4 DEF Matches
  <2>6. h[n] = r
    BY <2>1, <2>5
  <2> QED BY <2>6
<1>15. Matches(h, ofq, W, SameExtent)
  <2>1. h \in [DOMAIN ofq -> W]
    BY <1>12
  <2> HIDE DEF h, W
  <2> QED BY <1>12, <1>13, <1>14, <2>1 DEF Matches
<1> HIDE DEF h
<1> QED BY <1>2, <1>7, <1>15 DEF Paired

\* The dispatch queues have a record for each request that was selected and is not
\* released, with its extent, and a request that was accepted has its file_t.
Recorded ==
  /\ dispatch \in [Queues -> Seq(DispatchedOnes)]
  /\ \A q \in Queues : Paired(dispatch[q], OfQueue(Out \ released, q), SameExtent)
  /\ \A r \in Accepted : FileOf(data[r].queue) \in files

\* What a step does to the dispatch queues.
DispatchStep ==
  \/ /\ UNCHANGED <<dispatch, released, refused>> /\ Held' \subseteq Held /\ files \subseteq files'
     /\ \A r \in Accepted' \ Accepted : FileOf(data[r].queue) \in files'
  \/ \E r \in Reqs : AddNoop(r) /\ GoesPast(r)
  \/ \E r \in Reqs : agios_release_request(r) /\ Still
  \/ \E B : Selects(B) /\ UNCHANGED <<files, released, refused>>

\* An algorithm changes the dispatch queues when it selects requests.
LEMMA ScheduleDispatch ==
  ASSUME Places, schedule
  PROVE  UNCHANGED files /\ (UNCHANGED dispatch \/ \E B : Selects(B))
<1>1. CASE (timeorder \/ NOOP_empty) /\ UNCHANGED <<statics, waitVars>>
  <2>1. current_alg \notin {"SJF", "aIOLi"} /\ UNCHANGED <<wfqVars, twinsVars>>
        /\ (timeorder_test \/ timeorder_pick \/ timeorder_assert \/ NOOP_empty)
    BY <1>1 DEF timeorder, NOOP_empty, statics
  <2>2. CASE timeorder_pick
    <3>1. UNCHANGED files
      BY <2>2 DEF timeorder_pick
    <3> QED BY <2>1, <2>2, <3>1, TimeorderSelects
  <2>3. CASE timeorder_test \/ timeorder_assert \/ NOOP_empty
    BY <2>3 DEF timeorder_test, timeorder_assert, NOOP_empty, Abort, structures
  <2> QED BY <2>1, <2>2, <2>3
<1>2. CASE SJF /\ UNCHANGED <<statics, waitVars>>
  <2>1. current_alg = "SJF" /\ UNCHANGED <<wfqVars, twinsVars>>
        /\ (SJF_test \/ SJF_scan \/ SJF_shortcut \/ SJF_pick \/ SJF_assert)
    BY <1>2 DEF SJF, statics
  <2>2. CASE SJF_pick
    <3>1. UNCHANGED files
      BY <2>2 DEF SJF_pick
    <3> QED BY <2>1, <2>2, <3>1, SJFSelects
  <2>3. CASE SJF_test \/ SJF_scan \/ SJF_shortcut \/ SJF_assert
    <3>1. UNCHANGED structures
      BY <2>3 DEF SJF_test, SJF_scan, SJF_shortcut, SJF_assert, Abort
    <3> QED BY <3>1 DEF structures
  <2> QED BY <2>1, <2>2, <2>3
<1>3. CASE WFQ /\ UNCHANGED <<twinsVars, mlfVars, waitVars>>
  <2>1. current_alg = "WFQ" /\ UNCHANGED twinsVars /\ (WFQ_test \/ WFQ_pick \/ WFQ_turn)
    BY <1>3 DEF WFQ
  <2>2. CASE WFQ_pick
    <3>1. UNCHANGED files
      BY <2>2 DEF WFQ_pick
    <3> QED BY <2>1, <2>2, <3>1, WFQSelects
  <2>3. CASE WFQ_test \/ WFQ_turn
    BY <2>3 DEF WFQ_test, WFQ_turn, structures
  <2> QED BY <2>1, <2>2, <2>3
<1>4. CASE TWINS /\ UNCHANGED <<wfqVars, mlfVars, waitVars>>
  <2>1. /\ current_alg = "TWINS" /\ UNCHANGED wfqVars
        /\ \/ TWINS_test
           \/ \E elapsed \in BOOLEAN : TWINS_pick(elapsed) \/ TWINS_break(elapsed)
    BY <1>4 DEF TWINS, TWINS_look
  <2>2. CASE TWINS_test \/ \E elapsed \in BOOLEAN : TWINS_break(elapsed)
    BY <2>2 DEF TWINS_test, TWINS_break, structures
  <2>3. ASSUME NEW elapsed \in BOOLEAN, TWINS_pick(elapsed)
        PROVE  UNCHANGED files /\ \E B : Selects(B)
    <3>1. UNCHANGED files
      BY <2>3 DEF TWINS_pick
    <3> QED BY <2>1, <2>3, <3>1, TWINSSelects
  <2> QED BY <2>1, <2>2, <2>3
<1>5. CASE MLF /\ UNCHANGED <<wfqVars, twinsVars>>
  <2>1. current_alg = "MLF" /\ UNCHANGED <<wfqVars, twinsVars>>
        /\ (MLF_test \/ MLF_skip \/ MLF_visit)
    BY <1>5 DEF MLF
  <2>2. CASE MLF_visit
    <3>1. UNCHANGED files
      BY ZenonT(60), <2>2 DEF MLF_visit
    <3> QED BY <2>1, <2>2, <3>1, MLFSelects
  <2>3. CASE MLF_test \/ MLF_skip
    BY <2>3 DEF MLF_test, MLF_skip, structures
  <2> QED BY <2>1, <2>2, <2>3
<1>6. CASE aIOLi /\ UNCHANGED statics
  <2>1. current_alg = "aIOLi" /\ UNCHANGED <<wfqVars, twinsVars>>
        /\ (aIOLi_test \/ aIOLi_scan \/ aIOLi_check \/ aIOLi_none \/ aIOLi_drain \/ aIOLi_undefined)
    BY SMTT(60), <1>6 DEF aIOLi, statics
  <2>2. CASE aIOLi_drain
    <3>1. UNCHANGED files
      BY ZenonT(60), <2>2 DEF aIOLi_drain
    <3> QED BY <2>1, <2>2, <3>1, aIOLiSelects
  <2>3. CASE aIOLi_scan
    BY ZenonT(60), <2>3 DEF aIOLi_scan
  <2>4. CASE aIOLi_test \/ aIOLi_check \/ aIOLi_none \/ aIOLi_undefined
    BY <2>4 DEF aIOLi_test, aIOLi_check, aIOLi_none, aIOLi_undefined, Abort, structures
  <2> QED BY <2>1, <2>2, <2>3, <2>4
<1> QED BY <1>1, <1>2, <1>3, <1>4, <1>5, <1>6 DEF schedule

\* Any step, or none.
LEMMA NextDispatch ==
  ASSUME Places, [Next]_vars
  PROVE  DispatchStep
<1>1. pc \in [Reqs -> {"new", "adding", "callback", "added"}]
  BY DEF Places, StateTypes
<1>2. ASSUME UNCHANGED <<dispatch, released, refused, files, pc>> PROVE DispatchStep
  BY <1>2 DEF DispatchStep, Held, Accepted
<1>3. ASSUME NEW r \in Reqs, UserStep(r), UNCHANGED <<wfqVars, twinsVars>> PROVE DispatchStep
  <2>1. CASE CallAdd(r)
    <3>1. /\ UNCHANGED <<dispatch, released, refused, files>>
          /\ pc[r] = "new" /\ pc' = [pc EXCEPT ![r] = "adding"]
      BY <2>1 DEF CallAdd, structures, history
    <3>2. Held' = Held /\ Accepted' = Accepted
      BY <1>1, <3>1 DEF Held, Accepted
    <3> QED BY <3>1, <3>2 DEF DispatchStep
  <2>2. CASE Add(r)
    <3>1. /\ UNCHANGED <<dispatch, released, refused>> /\ files' = files \cup {FileOf(data[r].queue)}
          /\ pc[r] = "adding" /\ pc' = [pc EXCEPT ![r] = "added"]
      BY <2>2 DEF Add, CountNew, history
    <3>2. Held' = Held /\ Accepted' = Accepted \cup {r}
      BY <1>1, <3>1 DEF Held, Accepted
    <3> QED BY <3>1, <3>2 DEF DispatchStep
  <2>3. CASE AddNoop(r)
    BY <1>3, <2>3, AddNoopGoesPast DEF DispatchStep
  <2>4. CASE NoopCallback(r)
    <3>1. /\ UNCHANGED <<dispatch, released, refused, files>>
          /\ pc[r] = "callback" /\ pc' = [pc EXCEPT ![r] = "added"]
      BY <2>4 DEF NoopCallback, structures
    <3>2. Held' \subseteq Held /\ Accepted' = Accepted
      BY <1>1, <3>1 DEF Held, Accepted
    <3> QED BY <3>1, <3>2 DEF DispatchStep
  <2>5. CASE agios_release_request(r)
    BY <1>3, <2>5, ReleaseQuiet DEF DispatchStep
  <2>6. CASE agios_cancel_request(r)
    <3>1. UNCHANGED <<dispatch, released, refused, files, pc>>
      BY <2>6 DEF agios_cancel_request, CancelRemoves, CancelFindsNothing, structures, history
    <3> QED BY <1>2, <3>1
  <2> QED BY <1>3, <2>1, <2>2, <2>3, <2>4, <2>5, <2>6 DEF UserStep
<1>4. CASE agios_exit \/ ThreadStep \/ Tick \/ UNCHANGED vars
  <2>1. UNCHANGED <<dispatch, released, refused, files, pc>>
    BY <1>4 DEF agios_exit, ThreadStep, CheckQueued, WakeUp, TestStop, process_requests_step2,
         Tick, vars, coreVars, users, structures, history
  <2> QED BY <1>2, <2>1
<1>5. CASE schedule
  <2>1. UNCHANGED <<released, refused, pc>>
    BY <1>5, ScheduleQuiet DEF users, history
  <2>2. UNCHANGED files /\ (UNCHANGED dispatch \/ \E B : Selects(B))
    BY <1>5, ScheduleDispatch
  <2>3. CASE UNCHANGED dispatch
    BY <1>2, <2>1, <2>2, <2>3
  <2>4. CASE \E B : Selects(B)
    BY <2>1, <2>2, <2>4 DEF DispatchStep
  <2> QED BY <2>2, <2>3, <2>4
<1>6. CASE CoreNext /\ UNCHANGED <<statics, waitVars>>
  <2>1. UNCHANGED <<wfqVars, twinsVars>>
    BY <1>6 DEF statics
  <2> QED BY <1>3, <1>4, <1>6, <2>1 DEF CoreNext
<1> QED BY <1>4, <1>5, <1>6 DEF Next

\* What goes out by a step that processes nothing.
LEMMA OutStays ==
  ASSUME Places, StateTypes', ListTypes', PlaceStep, Held' \subseteq Held
  PROVE  Out' = Out \/ \E B : Selects(B)
<1>1. StateTypes /\ ListTypes /\ Apart /\ Complete
  BY DEF Places
<1>2. ASSUME UNCHANGED <<info, calls, Held>> PROVE Out' = Out
  BY <1>2 DEF Out, Chosen, AllIds, Delivered
<1>3. CASE Still
  BY <1>2, <1>3 DEF Still, Stays
<1>4. ASSUME NEW r \in Reqs, ComesIn(r) \/ Leaves(r) PROVE Out' = Out
  BY <1>2, <1>4 DEF ComesIn, Leaves
<1>5. ASSUME NEW r \in Reqs, GoesPast(r) PROVE FALSE
  BY <1>5 DEF GoesPast, Held, Accepted
<1>6. ASSUME NEW r \in Reqs, ComesBack(r) PROVE Out' = Out
  <2>1. Delivered' = Delivered \cup {r} /\ r \in Held /\ Held' = Held \ {r} /\ UNCHANGED info
    BY <1>1, <1>6, ComesBackKeeps DEF ComesBack
  <2>2. Chosen' = Chosen
    BY <2>1 DEF Chosen, AllIds
  <2> QED BY <2>1, <2>2 DEF Out
<1>7. ASSUME NEW B, Delivers(B) PROVE Out' = Out
  BY <1>7 DEF Delivers, Out
<1> QED BY <1>3, <1>4, <1>5, <1>6, <1>7 DEF PlaceStep

\* The invariant after a step.
LEMMA RecordedNext ==
  ASSUME data' = data, NEW V, V = Out' \ released'
  PROVE  Recorded' <=> /\ dispatch' \in [Queues -> Seq(DispatchedOnes)]
                       /\ \A q \in Queues : Paired(dispatch'[q], OfQueue(V, q), SameExtent)
                       /\ \A r \in Accepted' : FileOf(data[r].queue) \in files'
<1>1. Simple(data)' = Simple(data)
  OBVIOUS
<1>2. DispatchedOnes' = DispatchedOnes
  BY <1>1 DEF DispatchedOnes
<1>3. SameExtent' = SameExtent
  BY <1>2 DEF SameExtent
<1>4. ASSUME NEW q PROVE OfQueue(Out \ released, q)' = OfQueue(V, q)
  BY DEF OfQueue
<1>5. ASSUME NEW q PROVE Paired(dispatch[q], OfQueue(Out \ released, q), SameExtent)' <=>
                         Paired(dispatch'[q], OfQueue(V, q), SameExtent)
  BY <1>3, <1>4
<1> QED BY <1>2, <1>5 DEF Recorded

\* Where a release looks, and what it finds: the first record with the extent, or none.
PlaceOf(s, offset, len) == SelectInSeq(s, LAMBDA d : Same(d, offset, len))

LEMMA SelectsFirst ==
  ASSUME NEW s, Len(s) \in Nat, NEW offset, NEW len, NEW i, i = PlaceOf(s, offset, len)
  PROVE  /\ i # 0 => i \in 1 .. Len(s) /\ Same(s[i], offset, len)
         /\ i = 0 => \A j \in 1 .. Len(s) : ~ Same(s[j], offset, len)
<1> DEFINE Good == {j \in 1 .. Len(s) : Same(s[j], offset, len)}
<1>1. i = IF Good # {} THEN Min(Good) ELSE 0
  BY DEF PlaceOf, SelectInSeq
<1>2. Good \in SUBSET Nat
  OBVIOUS
<1>3. Good # {} => i \in Good
  <2> HIDE DEF Good
  <2> QED BY <1>1, <1>2, MinNat
<1>4. 0 \notin Good
  OBVIOUS
<1> QED BY <1>1, <1>3, <1>4

\* A release finds a record and frees it.
LEMMA ReleaseFinds ==
  ASSUME Places, Releases, Recorded, NEW r \in Reqs, agios_release_request(r), Still
  PROVE  /\ UNCHANGED <<refused, files, Accepted>> /\ data' = data
         /\ dispatch' \in [Queues -> Seq(DispatchedOnes)]
         /\ \A q \in Queues : Paired(dispatch'[q], OfQueue(Out' \ released', q), SameExtent)
<1> DEFINE q == data[r].queue
           i == PlaceOf(dispatch[q], data[r].offset, data[r].len)
           W == Out \ released
<1>1. /\ r \in Delivered \ (released \cup refused)
      /\ IF FileOf(q) \in files /\ i # 0
         THEN /\ dispatch' = [dispatch EXCEPT ![q] = RemoveAt(@, i)]
              /\ released' = released \cup {r} /\ UNCHANGED refused
         ELSE refused' = refused \cup {r} /\ UNCHANGED <<dispatch, released>>
      /\ UNCHANGED <<users, files>>
  BY DEF agios_release_request, PlaceOf
<1>2. data' = data /\ UNCHANGED <<files, Accepted>> /\ UNCHANGED <<info, calls, Held>>
  BY <1>1 DEF users, input, Still, Stays
<1>3. Out' = Out
  BY <1>2 DEF Out, Chosen, AllIds, Delivered
<1>4. q \in Queues /\ r \in W /\ r \in Accepted
  <2>1. q \in Queues
    BY DataAre DEF Places, StateTypes
  <2> QED BY <1>1, <2>1 DEF Out, Places, Complete
<1>5. FileOf(q) \in files
  BY <1>4 DEF Recorded
<1>6. dispatch[q] \in Seq(DispatchedOnes) /\ Paired(dispatch[q], OfQueue(W, q), SameExtent)
  BY <1>4 DEF Recorded
<1>7. r \in OfQueue(W, q)
  BY <1>4 DEF OfQueue
<1> HIDE DEF W
<1>8. DOMAIN dispatch[q] = 1 .. Len(dispatch[q]) /\ Len(dispatch[q]) \in Nat
  BY <1>6, LenProperties
<1>9. PICK f : Matches(f, dispatch[q], OfQueue(W, q), SameExtent)
  BY <1>6 DEF Paired
<1>a. /\ i # 0 => i \in 1 .. Len(dispatch[q]) /\ Same(dispatch[q][i], data[r].offset, data[r].len)
      /\ i = 0 => \A j \in 1 .. Len(dispatch[q]) : ~ Same(dispatch[q][j], data[r].offset, data[r].len)
  BY <1>8, SelectsFirst
<1> HIDE DEF i
<1>10. i # 0
  <2> SUFFICES ASSUME i = 0 PROVE FALSE
    OBVIOUS
  <2>1. \A j \in DOMAIN dispatch[q] : ~ Same(dispatch[q][j], data[r].offset, data[r].len)
    BY <1>8, <1>a
  <2>2. PICK j \in DOMAIN dispatch[q] : f[j] = r
    BY <1>7, <1>9 DEF Matches
  <2>3. <<dispatch[q][j], r>> \in SameExtent
    BY <1>9, <2>2 DEF Matches
  <2>4. Same(dispatch[q][j], data[r].offset, data[r].len)
    BY <2>3 DEF SameExtent
  <2> QED BY <2>1, <2>4
<1>11. i \in 1 .. Len(dispatch[q]) /\ Same(dispatch[q][i], data[r].offset, data[r].len)
  BY <1>10, <1>a
<1>12. /\ dispatch' = [dispatch EXCEPT ![q] = RemoveAt(@, i)]
       /\ released' = released \cup {r} /\ UNCHANGED refused
  BY <1>1, <1>5, <1>10 DEF i
<1>13. /\ RemoveAt(dispatch[q], i) \in Seq(DispatchedOnes)
       /\ Paired(RemoveAt(dispatch[q], i), OfQueue(W, q) \ {r}, SameExtent)
  <2>1. <<dispatch[q][i], r>> \in SameExtent
    <3>1. dispatch[q][i] \in DispatchedOnes
      BY <1>6, <1>11, ElementOfSeq
    <3> QED BY <1>11, <3>1 DEF SameExtent
  <2>2. \A x, y, a, b : <<x, a>> \in SameExtent /\ <<y, a>> \in SameExtent /\ <<y, b>> \in SameExtent
                        => <<x, b>> \in SameExtent
    BY DEF SameExtent, Same
  <2>3. RemoveAt(dispatch[q], i) \in Seq(DispatchedOnes)
    BY <1>6, <1>11, RemoveAtProperties
  <2>4. Paired(RemoveAt(dispatch[q], i), OfQueue(W, q) \ {r}, SameExtent)
    BY <1>6, <1>7, <1>11, <2>1, <2>2, PairedRemove
  <2> QED BY <2>3, <2>4
<1>14. dispatch \in [Queues -> Seq(DispatchedOnes)]
  BY DEF Recorded
<1>15. dispatch' \in [Queues -> Seq(DispatchedOnes)]
  BY <1>4, <1>12, <1>13, <1>14
<1>16. Out' \ released' = W \ {r}
  BY <1>3, <1>12 DEF W
<1>17. ASSUME NEW p \in Queues
       PROVE  Paired(dispatch'[p], OfQueue(Out' \ released', p), SameExtent)
  <2>1. CASE p = q
    <3>1. OfQueue(W \ {r}, q) = OfQueue(W, q) \ {r}
      BY DEF OfQueue
    <3>2. dispatch'[q] = RemoveAt(dispatch[q], i)
      BY <1>4, <1>12, <1>14
    <3> QED BY <1>13, <1>16, <2>1, <3>1, <3>2
  <2>2. CASE p # q
    <3>1. OfQueue(W \ {r}, p) = OfQueue(W, p)
      BY <2>2 DEF OfQueue
    <3>2. dispatch'[p] = dispatch[p]
      BY <1>12, <1>14, <2>2
    <3>3. Paired(dispatch[p], OfQueue(W, p), SameExtent)
      BY DEF Recorded, W
    <3> QED BY <1>16, <3>1, <3>2, <3>3
  <2> QED BY <2>1, <2>2
<1> QED BY <1>2, <1>12, <1>15, <1>17

\* What goes out by a step that selects a batch, or with NOOP.
LEMMA OutGrows ==
  ASSUME Places, StateTypes', ListTypes', NEW B
  PROVE  /\ Selects(B) => Out' = Out \cup B /\ Out \cap B = {} /\ B \in SUBSET Reqs
                          /\ Accepted' = Accepted
         /\ GoesPast(B) => Out' = Out \cup {B} /\ B \notin Out /\ Accepted' = Accepted \cup {B}
<1>1. StateTypes /\ ListTypes /\ Apart /\ Complete
  BY DEF Places
<1>2. ASSUME Selects(B)
      PROVE  Out' = Out \cup B /\ Out \cap B = {} /\ B \in SUBSET Reqs /\ Accepted' = Accepted
  <2>1. Chosen' = B /\ info = <<>> /\ UNCHANGED <<calls, Held, Accepted>> /\ B \in SUBSET Waiting
    BY <1>2 DEF Selects
  <2>2. Chosen = {} /\ Delivered' = Delivered
    BY <2>1 DEF Chosen, AllIds, Delivered
  <2>3. Waiting \cap Delivered = {} /\ Waiting \cap Held = {} /\ Waiting \in SUBSET Reqs
    BY <1>1 DEF Apart, Waiting
  <2> QED BY <2>1, <2>2, <2>3 DEF Out
<1>3. ASSUME GoesPast(B)
      PROVE  Out' = Out \cup {B} /\ B \notin Out /\ Accepted' = Accepted \cup {B}
  <2>1. /\ B \in Reqs \ Accepted /\ Held' = Held \cup {B} /\ Accepted' = Accepted \cup {B}
        /\ UNCHANGED <<info, calls>>
    BY <1>3 DEF GoesPast
  <2>2. Chosen' = Chosen /\ Delivered' = Delivered
    BY <2>1 DEF Chosen, AllIds, Delivered
  <2>3. Out \in SUBSET Accepted
    BY <1>1 DEF Complete, Out, Accepted
  <2> QED BY <2>1, <2>2, <2>3 DEF Out
<1> QED BY <1>2, <1>3

\* The records of a batch after those that are there.
LEMMA BatchRecorded ==
  ASSUME Places, Releases, Recorded, NEW B \in SUBSET Reqs, Processes(B), Out \cap B = {}
  PROVE  /\ dispatch' \in [Queues -> Seq(DispatchedOnes)]
         /\ \A q \in Queues : Paired(dispatch'[q], OfQueue((Out \cup B) \ released, q), SameExtent)
<1> DEFINE W == Out \ released
<1>1. PICK batch \in Seq(Entry(data)) : NoneTwice(batch) /\ Members(batch) = B /\ Step1(batch)
  BY DEF Processes
<1>2. dispatch' = [q \in Queues |-> dispatch[q] \o DispatchRecords(batch, q)]
  BY <1>1 DEF Step1
<1>3. released \in SUBSET Out
  BY DEF Releases, Out
<1>4. (Out \cup B) \ released = W \cup B /\ W \cap B = {}
  BY <1>3
<1> HIDE DEF W
<1>5. ASSUME NEW q \in Queues
      PROVE  /\ dispatch'[q] \in Seq(DispatchedOnes)
             /\ Paired(dispatch'[q], OfQueue(W \cup B, q), SameExtent)
  <2>1. dispatch[q] \in Seq(DispatchedOnes) /\ Paired(dispatch[q], OfQueue(W, q), SameExtent)
    BY DEF Recorded, W
  <2>2. /\ DispatchRecords(batch, q) \in Seq(DispatchedOnes)
        /\ Paired(DispatchRecords(batch, q), OfQueue(B, q), SameExtent)
    BY <1>1, RecordsOf DEF Places, StateTypes
  <2>3. OfQueue(W \cup B, q) = OfQueue(W, q) \cup OfQueue(B, q)
        /\ OfQueue(W, q) \cap OfQueue(B, q) = {}
    BY <1>4 DEF OfQueue
  <2>4. dispatch'[q] = dispatch[q] \o DispatchRecords(batch, q)
    BY <1>2
  <2>5. Paired(dispatch[q] \o DispatchRecords(batch, q), OfQueue(W, q) \cup OfQueue(B, q), SameExtent)
    BY <2>1, <2>2, <2>3, PairedConcat
  <2>6. dispatch[q] \o DispatchRecords(batch, q) \in Seq(DispatchedOnes)
    BY <2>1, <2>2, ConcatProperties
  <2> QED BY <2>3, <2>4, <2>5, <2>6
<1>6. dispatch' \in [Queues -> Seq(DispatchedOnes)]
  BY <1>2, <1>5
<1> QED BY <1>4, <1>5, <1>6

\* The record of a request that NOOP takes after those that are there.
LEMMA NoopRecorded ==
  ASSUME Places, Releases, Recorded, NEW r \in Reqs, AddNoop(r), r \notin Out
  PROVE  /\ dispatch' \in [Queues -> Seq(DispatchedOnes)]
         /\ \A q \in Queues : Paired(dispatch'[q], OfQueue((Out \cup {r}) \ released, q), SameExtent)
<1> DEFINE W == Out \ released
           p == data[r].queue
           d == Dispatched(Request(r))
<1>1. dispatch' = [dispatch EXCEPT ![p] = Append(@, d)]
  BY DEF AddNoop
<1>2. /\ p \in Queues
      /\ Request(r) \in Simple(data) /\ Request(r).offset = data[r].offset
      /\ Request(r).len = data[r].len
  <2>1. data \in [Reqs -> Arguments] /\ stamp \in [Reqs -> Nat]
    BY DEF Places, StateTypes
  <2>2. Request(r) \in Simple(data)
    BY NewRequest DEF Places
  <2>3. p \in Queues
    BY <2>1, DataAre
  <2> QED BY <2>2, <2>3 DEF Request, request_constructor
<1>3. d \in DispatchedOnes /\ <<d, r>> \in SameExtent
  <2>1. d \in DispatchedOnes
    BY <1>2 DEF DispatchedOnes
  <2>2. d.offset = data[r].offset /\ d.len = data[r].len
    BY <1>2 DEF Dispatched, Simple
  <2> HIDE DEF d
  <2> QED BY <2>1, <2>2 DEF SameExtent, Same
<1>4. r \notin released
  BY DEF Releases, Out
<1>5. (Out \cup {r}) \ released = W \cup {r} /\ r \notin W
  BY <1>4
<1>6. dispatch \in [Queues -> Seq(DispatchedOnes)]
  BY DEF Recorded
<1> HIDE DEF W, d
<1>7. ASSUME NEW q \in Queues
      PROVE  /\ dispatch'[q] \in Seq(DispatchedOnes)
             /\ Paired(dispatch'[q], OfQueue(W \cup {r}, q), SameExtent)
  <2>1. dispatch[q] \in Seq(DispatchedOnes) /\ Paired(dispatch[q], OfQueue(W, q), SameExtent)
    BY DEF Recorded, W
  <2>2. CASE q = p
    <3>1. dispatch'[q] = Append(dispatch[q], d)
      BY <1>1, <1>6, <2>2
    <3>2. Append(dispatch[q], d) = dispatch[q] \o <<d>> /\ <<d>> \in Seq(DispatchedOnes)
      BY <1>3, <2>1, AppendIsConcat
    <3>3. OfQueue(W \cup {r}, q) = OfQueue(W, q) \cup {r} /\ OfQueue(W, q) \cap {r} = {}
      BY <1>5, <2>2 DEF OfQueue
    <3>4. Paired(<<d>>, {r}, SameExtent)
      BY <1>3, PairedOne
    <3>5. Paired(dispatch[q] \o <<d>>, OfQueue(W, q) \cup {r}, SameExtent)
      BY <2>1, <3>2, <3>3, <3>4, PairedConcat
    <3>6. dispatch[q] \o <<d>> \in Seq(DispatchedOnes)
      BY <2>1, <3>2, ConcatProperties
    <3> QED BY <3>1, <3>2, <3>3, <3>5, <3>6
  <2>3. CASE q # p
    <3>1. dispatch'[q] = dispatch[q]
      BY <1>1, <1>6, <2>3
    <3>2. OfQueue(W \cup {r}, q) = OfQueue(W, q)
      BY <2>3 DEF OfQueue
    <3> QED BY <2>1, <3>1, <3>2
  <2> QED BY <2>2, <2>3
<1>8. dispatch' \in [Queues -> Seq(DispatchedOnes)]
  <2>1. \A q \in Queues : dispatch'[q] \in Seq(DispatchedOnes)
    BY <1>7
  <2>2. DOMAIN dispatch' = Queues /\ dispatch' = [q \in DOMAIN dispatch' |-> dispatch'[q]]
    BY <1>1, <1>6
  <2> QED BY <2>1, <2>2
<1> QED BY <1>5, <1>7, <1>8

\* Every step keeps the records, and refuses no release.
LEMMA RecordedKept == Places /\ Releases /\ Recorded /\ [Next]_vars => Recorded' /\ refused' = refused
<1> SUFFICES ASSUME Places, Releases, Recorded, [Next]_vars PROVE Recorded' /\ refused' = refused
  OBVIOUS
<1>1. StateTypes' /\ ListTypes' /\ PlaceStep /\ DispatchStep
  BY NextPlaces, NextDispatch
<1>2. data' = data
  BY InputKept
<1>3. PICK V : V = Out' \ released'
  OBVIOUS
<1>4. Recorded' <=> /\ dispatch' \in [Queues -> Seq(DispatchedOnes)]
                    /\ \A q \in Queues : Paired(dispatch'[q], OfQueue(V, q), SameExtent)
                    /\ \A r \in Accepted' : FileOf(data[r].queue) \in files'
  BY <1>2, <1>3, RecordedNext
<1>5. /\ dispatch \in [Queues -> Seq(DispatchedOnes)]
      /\ \A q \in Queues : Paired(dispatch[q], OfQueue(Out \ released, q), SameExtent)
      /\ \A r \in Accepted : FileOf(data[r].queue) \in files
  BY DEF Recorded
<1>6. ASSUME NEW B, Selects(B), UNCHANGED <<released, refused>>, files \subseteq files'
      PROVE  Recorded' /\ refused' = refused
  <2>1. Out' = Out \cup B /\ Out \cap B = {} /\ B \in SUBSET Reqs /\ Accepted' = Accepted
    BY <1>1, <1>6, OutGrows
  <2>2. Processes(B)
    BY <1>6 DEF Selects
  <2>3. /\ dispatch' \in [Queues -> Seq(DispatchedOnes)]
        /\ \A q \in Queues : Paired(dispatch'[q], OfQueue((Out \cup B) \ released, q), SameExtent)
    BY <2>1, <2>2, BatchRecorded
  <2>4. V = (Out \cup B) \ released
    BY <1>3, <1>6, <2>1
  <2> QED BY <1>4, <1>5, <1>6, <2>1, <2>3, <2>4
<1>7. CASE /\ UNCHANGED <<dispatch, released, refused>> /\ Held' \subseteq Held /\ files \subseteq files'
           /\ \A r \in Accepted' \ Accepted : FileOf(data[r].queue) \in files'
  <2>1. CASE \E B : Selects(B)
    BY <1>6, <1>7, <2>1
  <2>2. CASE Out' = Out
    <3>1. V = Out \ released
      BY <1>3, <1>7, <2>2
    <3>2. \A r \in Accepted' : FileOf(data[r].queue) \in files'
      BY <1>5, <1>7
    <3> QED BY <1>4, <1>5, <1>7, <3>1, <3>2
  <2> QED BY <1>1, <1>7, <2>1, <2>2, OutStays
<1>8. ASSUME NEW r \in Reqs, AddNoop(r), GoesPast(r) PROVE Recorded' /\ refused' = refused
  <2>1. Out' = Out \cup {r} /\ r \notin Out /\ Accepted' = Accepted \cup {r}
    BY <1>1, <1>8, OutGrows
  <2>2. UNCHANGED <<released, refused>> /\ files' = files \cup {FileOf(data[r].queue)}
    BY <1>8 DEF AddNoop, history
  <2>3. /\ dispatch' \in [Queues -> Seq(DispatchedOnes)]
        /\ \A q \in Queues : Paired(dispatch'[q], OfQueue((Out \cup {r}) \ released, q), SameExtent)
    BY <1>8, <2>1, NoopRecorded
  <2>4. V = (Out \cup {r}) \ released
    BY <1>3, <2>1, <2>2
  <2>5. \A s \in Accepted' : FileOf(data[s].queue) \in files'
    BY <1>5, <2>1, <2>2
  <2> QED BY <1>4, <2>2, <2>3, <2>4, <2>5
<1>9. ASSUME NEW r \in Reqs, agios_release_request(r), Still PROVE Recorded' /\ refused' = refused
  <2>1. /\ UNCHANGED <<refused, files, Accepted>>
        /\ dispatch' \in [Queues -> Seq(DispatchedOnes)]
        /\ \A q \in Queues : Paired(dispatch'[q], OfQueue(Out' \ released', q), SameExtent)
    BY <1>9, ReleaseFinds
  <2> QED BY <1>3, <1>4, <1>5, <2>1
<1> QED BY <1>1, <1>6, <1>7, <1>8, <1>9 DEF DispatchStep

\* At the start the dispatch queues are empty and nothing was released.
LEMMA RecordedAtStart == LibraryInit => Recorded /\ refused = {}
<1> SUFFICES ASSUME LibraryInit PROVE Recorded /\ refused = {}
  OBVIOUS
<1>1. /\ dispatch = [q \in Queues |-> <<>>] /\ released = {} /\ refused = {}
      /\ info = <<>> /\ calls = <<>> /\ pc = [r \in Reqs |-> "new"]
  BY DEF LibraryInit, Init
<1>2. Out = {} /\ Accepted = {}
  BY <1>1 DEF Out, Chosen, AllIds, Delivered, Held, Accepted
<1>3. \A q : OfQueue({} \ {}, q) = {}
  BY DEF OfQueue
<1>4. Paired(<<>>, {}, SameExtent)
  BY PairedEmpty
<1>5. dispatch \in [Queues -> Seq(DispatchedOnes)]
  BY <1>1
<1> QED BY <1>1, <1>2, <1>3, <1>4, <1>5 DEF Recorded

\* The invariant of the releases.
LEMMA AlwaysRecorded == Spec => [](Places /\ Releases /\ Recorded /\ refused = {})
<1>1. Spec => []Places
  BY AlwaysPlaces
<1>2. Places /\ Releases /\ Recorded /\ refused = {} /\ [Next]_vars
        => Recorded' /\ (refused = {})' /\ Releases'
  BY RecordedKept, ReleasesKept
<1> QED BY <1>1, <1>2, RecordedAtStart, ReleasesAtStart, PTL DEF Spec

\* A user who releases what it was given is never told "false", whatever others add,
\* release and cancel, in every instance.
THEOREM NoReleaseRefused == Spec => []ReleaseAccepted
<1>1. refused = {} => ReleaseAccepted
  BY DEF ReleaseAccepted
<1> QED BY <1>1, AlwaysRecorded, PTL

\* The dispatch queue of a file and a type holds one record for each of its requests that
\* is on its way to the user or with the user, in every instance.
THEOREM DispatchHoldsOne == Spec => []DispatchAgrees
<1>1. Places /\ Recorded => DispatchAgrees
  <2> SUFFICES ASSUME Places, Recorded, NEW q \in Queues
               PROVE  Len(dispatch[q]) =
                        Cardinality({r \in Reqs : data[r].queue = q /\ (Selected(r) \/ r \in Delivered)}
                                    \ released)
    BY DEF DispatchAgrees
  <2>1. dispatch[q] \in Seq(DispatchedOnes) /\ Paired(dispatch[q], OfQueue(Out \ released, q), SameExtent)
    BY DEF Recorded
  <2>2. Len(dispatch[q]) = Cardinality(OfQueue(Out \ released, q))
    BY <2>1, PairedLength
  <2>3. Out \in SUBSET Reqs
    BY OutFinite
  <2>4. \A r \in Reqs : r \in Out <=> Selected(r) \/ r \in Delivered
    BY DEF Out, Selected, Chosen, AllIds, Held
  <2>5. OfQueue(Out \ released, q) =
          {r \in Reqs : data[r].queue = q /\ (Selected(r) \/ r \in Delivered)} \ released
    BY <2>3, <2>4 DEF OfQueue
  <2> QED BY <2>2, <2>5
<1> QED BY <1>1, AlwaysRecorded, PTL

-----------------------------------------------------------------------------
(* What the callbacks are given.                                           *)

\* The requests of an entry leave no gap, in any list.
WithoutGaps == /\ NoGapIn(data, timeline)
               /\ \A q \in Queues : NoGapIn(data, queues[q])

\* Without cancellations every step keeps it so.
LEMMA GapsKept ==
  ASSUME Cancellers = {}
  PROVE  Places /\ WithoutGaps /\ [Next]_vars => WithoutGaps'
<1> SUFFICES ASSUME Places, WithoutGaps, [Next]_vars PROVE WithoutGaps'
  OBVIOUS
<1>1. ListSteps /\ data' = data
  BY NextLists, InputKept
<1>2. NoGapIn(data, timeline) /\ \A q \in Queues : NoGapIn(data, queues[q])
  BY DEF WithoutGaps
<1>3. ASSUME NEW r \in Reqs \ Accepted
      PROVE  /\ Request(r) \in Simple(data) /\ Request(r).id \notin Members(timeline)
             /\ \A q \in Queues : Request(r).id \notin Members(queues[q])
  BY <1>3, NewComes
<1>4. IsData(data)
  BY DataAre DEF Places, StateTypes
<1>5. ASSUME NEW q \in Queues PROVE NoGapIn(data, queues'[q])
  <2>1. QueueStep(q)
    BY <1>1 DEF ListSteps
  <2>2. CASE ComesFrom(queues'[q], queues[q])
    BY <1>2, <2>2, FromOrdered
  <2>3. ASSUME NEW r \in Reqs \ Accepted, data[r].queue = q,
               queues'[q] = hashtable_add_req(Request(r), queues[q], max_aggreg_size)
        PROVE  NoGapIn(data, queues'[q])
    BY <1>2, <1>3, <1>4, <2>3, EntersInOrder, PlainLists, BuiltNoGap
  <2> QED BY <2>1, <2>2, <2>3 DEF QueueStep
<1>6. NoGapIn(data, timeline')
  <2>1. TimelineStep
    BY <1>1 DEF ListSteps
  <2>2. CASE ComesFrom(timeline', timeline)
    BY <1>2, <2>2, FromOrdered
  <2>3. ASSUME NEW r \in Reqs \ Accepted,
               \/ timeline' = timeline_add_req(Request(r), timeline, current_alg = "TO-agg", max_aggreg_size)
               \/ \E i \in 1 .. Len(timeline) + 1 : timeline' = InsertAt(timeline, i, Request(r))
        PROVE  NoGapIn(data, timeline')
    BY <1>2, <1>3, <1>4, <2>3, EntersInOrder, PlainLists, BuiltNoGap
  <2> QED BY <2>1, <2>2, <2>3 DEF TimelineStep
<1> QED BY <1>1, <1>5, <1>6 DEF WithoutGaps

\* Requests of one file and type that leave no gap.
Together(S) == (\E q : \A r \in S : data[r].queue = q) /\ Chained(data, S)

\* One request does not.
LEMMA OneTogether ==
  ASSUME Places, NEW r \in Reqs
  PROVE  Together(ToSet(<<r>>))
<1>1. data[r].offset \in Nat
  BY DataAre DEF Places, StateTypes
<1>2. ToSet(<<r>>) = {r}
  BY DEF ToSet
<1> QED BY <1>1, <1>2 DEF Together, Chained

\* Nor do those of an entry.
LEMMA EntryTogether ==
  ASSUME Places, WithoutGaps, NEW l \in Lists, NEW i \in DOMAIN ListAt(l)
  PROVE  Together(IdSet(ListAt(l)[i]))
<1> DEFINE e == ListAt(l)[i]
<1>1. IsData(data)
  BY DataAre DEF Places, StateTypes
<1>2. e \in Entry(data) /\ NoGap(data, e)
  <2>1. CASE l = TimelineList
    <3>1. ListAt(l) = timeline /\ timeline \in Seq(Entry(data))
      BY <2>1, ListContents, PlainLists
    <3> QED BY <3>1, ElementOfSeq, LenProperties DEF WithoutGaps, NoGapIn
  <2>2. ASSUME NEW q \in Queues, l = QueueList(q) PROVE e \in Entry(data) /\ NoGap(data, e)
    <3>1. ListAt(l) = queues[q] /\ queues[q] \in Seq(Entry(data))
      BY <2>2, ListContents, PlainLists
    <3> QED BY <3>1, ElementOfSeq, LenProperties DEF WithoutGaps, NoGapIn
  <2>3. ASSUME NEW k \in 0 .. max_queue_id, l = MultiList(k)
        PROVE  e \in Entry(data) /\ NoGap(data, e)
    <3>1. ListAt(l) = multi_timeline[k] /\ multi_timeline[k] \in Seq(Simple(data))
      BY <2>3, ListContents DEF Places, ListTypes
    <3>2. e \in Simple(data)
      BY <3>1, ElementOfSeq, LenProperties
    <3> QED BY <1>1, <3>2, SimpleNoGap DEF Entry
  <2> QED BY <2>1, <2>2, <2>3, ListNames
<1> HIDE DEF e
<1>3. \A r \in IdSet(e) : data[r].queue = e.queue
  BY <1>1, <1>2, OffsetsOfEntry
<1>4. Together(IdSet(e))
  BY <1>2, <1>3 DEF Together, NoGap
<1> QED BY <1>4 DEF e

\* The requests a callback was given leave no gap; nor do, when they will be given to one
\* callback, those of an element of info_list.
GivenTogether ==
  /\ ListCallback => \A i \in DOMAIN info : Together(ToSet(info[i]))
  /\ \A i \in DOMAIN calls : Together(ToSet(calls[i]))

\* One more callback.
LEMMA OneMoreGiven ==
  ASSUME calls \in IdLists, NEW given, calls' = Append(calls, given), Together(ToSet(given)),
         \A i \in DOMAIN calls : Together(ToSet(calls[i]))
  PROVE  \A i \in DOMAIN calls' : Together(ToSet(calls'[i]))
<1>1. Len(calls) \in Nat /\ DOMAIN calls = 1 .. Len(calls)
  BY LenProperties DEF IdLists
<1>2. /\ DOMAIN calls' = 1 .. Len(calls) + 1
      /\ \A i \in 1 .. Len(calls) : calls'[i] = calls[i]
      /\ calls'[Len(calls) + 1] = given
  BY <1>1 DEF IdLists
<1>3. \A i \in 1 .. Len(calls) + 1 : i \in 1 .. Len(calls) \/ i = Len(calls) + 1
  BY <1>1
<1> QED BY <1>1, <1>2, <1>3

\* process_requests_step2 gives one request, or what it finds in info_list.
LEMMA Step2Together ==
  ASSUME Places, GivenTogether, process_requests_step2, data' = data
  PROVE  GivenTogether'
<1> DEFINE ids   == Head(info)
           whole == Len(ids) = 1 \/ ListCallback
           left  == IF whole THEN Tail(info) ELSE <<Tail(ids)>> \o Tail(info)
           given == IF whole THEN ids ELSE <<Head(ids)>>
<1>1. apc = "callback" /\ calls' = Append(calls, given) /\ info' = left
  BY DEF process_requests_step2
<1>2. /\ info \in IdLists /\ calls \in IdLists /\ info # <<>>
      /\ Head(info) \in Seq(Reqs) /\ Head(info) # <<>>
  <2>1. info \in IdLists /\ calls \in IdLists /\ info # <<>> /\ Once(info)
    BY <1>1 DEF Places, StateTypes, Apart
  <2> QED BY <2>1, FirstLeaves DEF IdLists
<1>3. /\ Tail(info) \in IdLists /\ Len(Tail(info)) = Len(info) - 1
      /\ \A i \in 1 .. Len(Tail(info)) : Tail(info)[i] = info[i + 1]
      /\ Head(info) = info[1]
  BY <1>2, HeadTailProperties DEF IdLists
<1>4. /\ DOMAIN info = 1 .. Len(info) /\ Len(info) \in Nat \ {0}
      /\ DOMAIN Tail(info) = 1 .. Len(Tail(info))
  BY <1>2, <1>3, LenProperties, EmptySeq DEF IdLists
<1>5. Together(ToSet(given))
  <2>1. CASE ListCallback
    <3>1. given = info[1] /\ 1 \in DOMAIN info
      BY <1>3, <1>4, <2>1
    <3> QED BY <2>1, <3>1 DEF GivenTogether
  <2>2. CASE ~ ListCallback
    <3>1. \E r \in Reqs : given = <<r>>
      <4>1. Len(ids) = 1 => ids = <<ids[1]>>
        BY <1>2
      <4>2. ids[1] \in Reqs /\ Head(ids) \in Reqs
        BY <1>2
      <4> QED BY <2>2, <4>1, <4>2
    <3> QED BY <3>1, OneTogether
  <2> QED BY <2>1, <2>2
<1>6. ASSUME ListCallback, NEW i \in DOMAIN info' PROVE Together(ToSet(info'[i]))
  <2>1. info' = Tail(info)
    BY <1>1, <1>6
  <2> HIDE DEF ids, whole, left, given
  <2>2. info'[i] = info[i + 1] /\ i + 1 \in DOMAIN info
    BY <1>3, <1>4, <1>6, <2>1
  <2> QED BY <1>6, <2>2 DEF GivenTogether
<1> HIDE DEF ids, whole, left, given
<1>7. \A i \in DOMAIN calls' : Together(ToSet(calls'[i]))
  BY <1>1, <1>2, <1>5, OneMoreGiven DEF GivenTogether
<1>8. \A S : Together(S)' <=> Together(S)
  BY DEF Together, Chained
<1> QED BY <1>6, <1>7, <1>8 DEF GivenTogether

\* process_requests_step1 notes the requests of entries.
LEMMA SelectsTogether ==
  ASSUME Places, WithoutGaps, GivenTogether, NEW B, Selects(B)
  PROVE  \A i \in DOMAIN info' : Together(ToSet(info'[i]))
<1>1. PICK batch \in Seq(Entry(data)) : Step1(batch) /\ \A i \in DOMAIN batch : InAList(batch[i])
  BY DEF Selects, Processes
<1>2. info' = IdsIn(batch)
  BY <1>1 DEF Step1
<1>3. /\ DOMAIN info' = DOMAIN batch
      /\ \A i \in DOMAIN batch : ToSet(info'[i]) = IdSet(batch[i])
  BY <1>2 DEF IdsIn, IdSet
<1>4. \A i \in DOMAIN batch : Together(IdSet(batch[i]))
  BY <1>1, EntryTogether DEF InAList
<1> QED BY <1>3, <1>4

\* Every step leaves what is given together so.
LEMMA GivenKept == Places /\ WithoutGaps /\ GivenTogether /\ [Next]_vars => GivenTogether'
<1> SUFFICES ASSUME Places, WithoutGaps, GivenTogether, [Next]_vars PROVE GivenTogether'
  OBVIOUS
<1>1. PlaceStep /\ data' = data /\ calls \in IdLists
  BY NextPlaces, InputKept DEF Places, StateTypes
<1>2. \A S : Together(S)' <=> Together(S)
  BY <1>1 DEF Together, Chained
<1>3. ASSUME UNCHANGED <<info, calls>> PROVE GivenTogether'
  BY <1>2, <1>3 DEF GivenTogether
<1>4. CASE Still
  BY <1>3, <1>4 DEF Still, Stays
<1>5. ASSUME NEW r \in Reqs, ComesIn(r) \/ GoesPast(r) \/ Leaves(r) PROVE GivenTogether'
  BY <1>3, <1>5 DEF ComesIn, GoesPast, Leaves
<1>6. ASSUME NEW r \in Reqs, ComesBack(r) PROVE GivenTogether'
  <2>1. UNCHANGED info /\ calls' = Append(calls, <<r>>)
    BY <1>6 DEF ComesBack
  <2>2. \A i \in DOMAIN calls' : Together(ToSet(calls'[i]))
    BY <1>1, <2>1, OneTogether, OneMoreGiven DEF GivenTogether
  <2> QED BY <1>2, <2>1, <2>2 DEF GivenTogether
<1>7. ASSUME NEW B, Selects(B) PROVE GivenTogether'
  <2>1. UNCHANGED calls
    BY <1>7 DEF Selects
  <2>2. \A i \in DOMAIN info' : Together(ToSet(info'[i]))
    BY <1>7, SelectsTogether
  <2> QED BY <1>2, <2>1, <2>2 DEF GivenTogether
<1>8. ASSUME NEW B, Delivers(B) PROVE GivenTogether'
  BY <1>1, <1>8, Step2Together DEF Delivers
<1> QED BY <1>1, <1>4, <1>5, <1>6, <1>7, <1>8 DEF PlaceStep

\* As long as nothing is cancelled, the requests given to a callback are of one file and
\* type and leave no gap, in every instance: an entry starts where one of its requests
\* starts and ends where one of them ends, and aggregation joins entries that touch.
THEOREM ListsAreContiguous ==
  ASSUME Cancellers = {}
  PROVE  Spec => []ListsContiguous
<1>1. LibraryInit => WithoutGaps /\ GivenTogether
  BY DEF LibraryInit, Init, WithoutGaps, NoGapIn, GivenTogether
<1>2. ASSUME GivenTogether PROVE ListsContiguous
  <2>1. ASSUME NEW S, Together(S), NEW r \in S
        PROVE  \/ \A s \in S : data[r].queue = data[s].queue /\ data[r].offset <= data[s].offset
               \/ \E s \in S : /\ data[s].queue = data[r].queue
                               /\ data[s].offset < data[r].offset
                               /\ End(data[s]) >= data[r].offset
    BY <2>1 DEF Together, Chained
  <2>2. \A i \in DOMAIN calls : Together(ToSet(calls[i]))
    BY <1>2 DEF GivenTogether
  <2> QED BY <2>1, <2>2 DEF ListsContiguous
<1> QED BY <1>1, <1>2, GapsKept, GivenKept, AlwaysPlaces, PTL DEF Spec

-----------------------------------------------------------------------------
(* What a cancellation finds.                                              *)

\* Of the requests that were not taken out, each lies beside all the entries that do
\* not hold it.
SolidLists == /\ SolidIn(data, Reqs \ removed, timeline)
              /\ \A q \in Queues : SolidIn(data, Reqs \ removed, queues[q])

\* With fewer requests, that stays so.
LEMMA SolidForFewer ==
  ASSUME NEW D, NEW S, NEW T \in SUBSET S, NEW list, SolidIn(D, S, list)
  PROVE  SolidIn(D, T, list)
BY DEF SolidIn, Solid, Clear

\* Requests that do not overlap are kept apart by every step.
LEMMA SolidKept == Places /\ NoOverlap(data) /\ SolidLists /\ [Next]_vars => SolidLists'
<1> SUFFICES ASSUME Places, NoOverlap(data), SolidLists, [Next]_vars PROVE SolidLists'
  OBVIOUS
<1>1. ListSteps /\ data' = data /\ CancelStep
  BY NextLists, InputKept, NextCancels
<1>2. IsData(data) /\ DOMAIN data = Reqs /\ removed \in SUBSET Reqs
  BY DataAre DEF Places, StateTypes
<1> DEFINE S == Reqs \ removed
           T == Reqs \ removed'
<1>3. S \in SUBSET DOMAIN data /\ T \in SUBSET S
  BY <1>1, <1>2 DEF CancelStep
<1>4. /\ SolidIn(data, S, timeline) /\ Members(timeline) \in SUBSET S
      /\ \A q \in Queues : SolidIn(data, S, queues[q]) /\ Members(queues[q]) \in SUBSET S
  <2>1. \A l \in Lists : Members(ListAt(l)) \in SUBSET S
    BY WaitingAre DEF Places, Apart
  <2> QED BY <2>1, ListNames, ListContents DEF SolidLists
<1>5. ASSUME NEW r \in Reqs \ Accepted
      PROVE  /\ Request(r) \in Simple(data) /\ Request(r).id \in S \ Members(timeline)
             /\ \A q \in Queues : Request(r).id \in S \ Members(queues[q])
  BY <1>5, NewComes
<1> HIDE DEF S, T
<1>6. ASSUME NEW q \in Queues PROVE SolidIn(data, T, queues'[q])
  <2>1. QueueStep(q)
    BY <1>1 DEF ListSteps
  <2>2. queues[q] \in Seq(Entry(data)) /\ NoneTwice(queues[q])
    BY PlainLists
  <2>3. CASE ComesFrom(queues'[q], queues[q])
    BY <1>3, <1>4, <2>2, <2>3, FromOrdered, SolidForFewer
  <2>4. ASSUME NEW r \in Reqs \ Accepted, data[r].queue = q,
               queues'[q] = hashtable_add_req(Request(r), queues[q], max_aggreg_size)
        PROVE  SolidIn(data, T, queues'[q])
    <3>1. Built(Request(r), queues[q], queues'[q])
      BY <2>4, EntersInOrder
    <3>2. SolidIn(data, S, queues'[q])
      BY <1>2, <1>3, <1>4, <1>5, <2>2, <3>1, BuiltSolid
    <3> QED BY <1>3, <3>2, SolidForFewer
  <2>5. ASSUME NEW r \in Cancellers, FindEntry(queues[q], data[r].offset, data[r].len) # 0,
               queues'[q] = CancelEntry(queues[q], FindEntry(queues[q], data[r].offset, data[r].len),
                                        data[r].offset, data[r].len),
               removed' = removed \cup
                 {Cancelled(queues[q], FindEntry(queues[q], data[r].offset, data[r].len),
                            data[r].offset, data[r].len).id}
        PROVE  SolidIn(data, T, queues'[q])
    <3> DEFINE gone == Cancelled(queues[q], FindEntry(queues[q], data[r].offset, data[r].len),
                                 data[r].offset, data[r].len)
    <3>1. SolidIn(data, S \ {gone.id}, queues'[q])
      BY <1>2, <1>3, <1>4, <2>2, <2>5, CancelSolid
    <3>2. T = S \ {gone.id}
      BY <2>5 DEF S, T
    <3> QED BY <3>1, <3>2
  <2> QED BY <2>1, <2>3, <2>4, <2>5 DEF QueueStep
<1>7. SolidIn(data, T, timeline')
  <2>1. TimelineStep
    BY <1>1 DEF ListSteps
  <2>2. timeline \in Seq(Entry(data)) /\ NoneTwice(timeline)
    BY PlainLists
  <2>3. CASE ComesFrom(timeline', timeline)
    BY <1>3, <1>4, <2>2, <2>3, FromOrdered, SolidForFewer
  <2>4. ASSUME NEW r \in Reqs \ Accepted,
               \/ timeline' = timeline_add_req(Request(r), timeline, current_alg = "TO-agg", max_aggreg_size)
               \/ \E i \in 1 .. Len(timeline) + 1 : timeline' = InsertAt(timeline, i, Request(r))
        PROVE  SolidIn(data, T, timeline')
    <3>1. Built(Request(r), timeline, timeline')
      BY <2>4, EntersInOrder
    <3>2. SolidIn(data, S, timeline')
      BY <1>2, <1>3, <1>4, <1>5, <2>2, <3>1, BuiltSolid
    <3> QED BY <1>3, <3>2, SolidForFewer
  <2>5. ASSUME NEW r \in Cancellers, FindEntry(timeline, data[r].offset, data[r].len) # 0,
               timeline' = CancelEntry(timeline, FindEntry(timeline, data[r].offset, data[r].len),
                                       data[r].offset, data[r].len),
               removed' = removed \cup
                 {Cancelled(timeline, FindEntry(timeline, data[r].offset, data[r].len),
                            data[r].offset, data[r].len).id}
        PROVE  SolidIn(data, T, timeline')
    <3> DEFINE gone == Cancelled(timeline, FindEntry(timeline, data[r].offset, data[r].len),
                                 data[r].offset, data[r].len)
    <3>1. SolidIn(data, S \ {gone.id}, timeline')
      BY <1>2, <1>3, <1>4, <2>2, <2>5, CancelSolid
    <3>2. T = S \ {gone.id}
      BY <2>5 DEF S, T
    <3> QED BY <3>1, <3>2
  <2> QED BY <2>1, <2>3, <2>4, <2>5 DEF TimelineStep
<1> QED BY <1>1, <1>6, <1>7 DEF SolidLists, T

\* Where requests are aggregated they do not overlap; where they are not, they may.
ApartIfAggregated == max_aggreg_size > 1 => NoOverlap(data)

KeptApart == ApartIfAggregated /\ (NoOverlap(data) => SolidLists)

\* The search for a request that waits finds one.
LEMMA SearchReaches ==
  ASSUME Places, Bounded, KeptApart, OwnLists, ~ uses_multi_timeline, NEW r \in Reqs, Waits(r)
  PROVE  Found(r) # 0
<1>1. IsData(data) /\ data[r].queue \in Queues /\ max_aggreg_size \in Nat \ {0}
  BY DataAre, AlgAssumption DEF Places, StateTypes, max_aggreg_size
<1>2. SearchedList(r) \in Seq(Entry(data)) /\ r \in Members(SearchedList(r))
  <2>1. PICK l \in Lists : r \in Members(ListAt(l))
    BY DEF Waits
  <2>2. ListAt(l) # <<>>
    BY <2>1 DEF Members
  <2>3. ListAt(l) = SearchedList(r)
    <3>1. CASE l = TimelineList
      <4>1. ListAt(l) = timeline
        BY <3>1, ListContents
      <4>2. ~ needs_hashtable
        BY <2>2, <4>1 DEF OwnLists, InTimeline, needs_hashtable
      <4> QED BY <4>1, <4>2 DEF SearchedList
    <3>2. ASSUME NEW i \in 0 .. max_queue_id, l = MultiList(i) PROVE FALSE
      <4>1. ListAt(l) = multi_timeline[i]
        BY <3>2, ListContents
      <4> QED BY <2>2, <4>1 DEF OwnLists
    <3>3. ASSUME NEW q \in Queues, l = QueueList(q) PROVE ListAt(l) = SearchedList(r)
      <4>1. ListAt(l) = queues[q] /\ queues[q] \in ListOf(data, q)
        BY <3>3, ListContents, PlainLists
      <4>2. needs_hashtable
        BY <2>2, <4>1 DEF OwnLists
      <4>3. data[r].queue = q
        BY <2>1, <4>1, MembersOfQueue
      <4> QED BY <4>1, <4>2, <4>3 DEF SearchedList
    <3> QED BY <3>1, <3>2, <3>3, ListNames
  <2>4. SearchedList(r) \in Seq(Entry(data))
    BY <1>1, PlainLists DEF SearchedList
  <2> QED BY <2>1, <2>3, <2>4
<1>3. \A i \in DOMAIN SearchedList(r) : Consecutive(SearchedList(r)[i])
  <2>1. CASE NoOverlap(data)
    BY <1>1, <2>1 DEF KeptApart, SolidLists, SearchedList, SolidIn, Solid
  <2>2. CASE ~ NoOverlap(data)
    <3> SUFFICES ASSUME NEW i \in DOMAIN SearchedList(r)
                 PROVE  Consecutive(SearchedList(r)[i])
      OBVIOUS
    <3> DEFINE e == SearchedList(r)[i]
    <3>1. e \in Entry(data)
      BY <1>2, ElementOfSeq, LenProperties
    <3>2. e.reqnb <= max_aggreg_size /\ max_aggreg_size = 1
      BY <1>1, <2>2 DEF KeptApart, ApartIfAggregated, Bounded, NoneOver, SearchedList
    <3> HIDE DEF e
    <3>3. e.reqnb = 1
      BY <3>1, <3>2, PartsOfEntry
    <3>4. Parts(e) = <<e>>
      BY <3>3 DEF Parts
    <3>5. Consecutive(e)
      BY <3>3, <3>4 DEF Consecutive
    <3> QED BY <3>5 DEF e
  <2> QED BY <2>1, <2>2
<1> QED BY <1>1, <1>2, <1>3, SearchFinds DEF Found

\* A cancellation of a request that waits in the timeline or in a queue takes a request
\* out: agios_cancel_request finds it, alone or inside a virtual request, however often
\* that one was extended, joined with another and cut.  Where requests are aggregated,
\* this holds of requests that do not overlap: include_in_aggregation computes an extent
\* that ends before some of its requests otherwise, and these are not found.  (WFQ and
\* TWINS keep their requests in multi_timeline, which is not searched.)
THEOREM CancellationsReach ==
  ASSUME Algs \cap {"WFQ", "TWINS"} = {}
  PROVE  Spec /\ ApartIfAggregated => CancelReaches
<1>1. LibraryInit /\ ApartIfAggregated => KeptApart
  <2> SUFFICES ASSUME LibraryInit, ApartIfAggregated PROVE SolidLists
    BY DEF KeptApart
  <2>1. timeline = <<>> /\ \A q \in Queues : queues[q] = <<>>
    BY DEF LibraryInit, Init
  <2> QED BY <2>1 DEF SolidLists, SolidIn
<1>2. Places /\ KeptApart /\ [Next]_vars => KeptApart'
  <2> SUFFICES ASSUME Places, KeptApart, [Next]_vars PROVE KeptApart'
    OBVIOUS
  <2>1. data' = data /\ max_aggreg_size' = max_aggreg_size
    BY InputKept DEF max_aggreg_size, needs_hashtable
  <2>2. NoOverlap(data) => SolidLists'
    BY SolidKept DEF KeptApart
  <2> QED BY <2>1, <2>2 DEF KeptApart, ApartIfAggregated
<1>3. ASSUME Places, Releases, Recorded, Bounded, OwnLists, KeptApart, current_alg \in Algs, [Next]_vars
      PROVE  [\A r \in Reqs : cancel'[r] # cancel[r] /\ Waits(r) => removed' # removed]_coreVars
  <2> SUFFICES ASSUME NEW r \in Reqs, cancel'[r] # cancel[r], Waits(r), removed' = removed
               PROVE  FALSE
    OBVIOUS
  <2>1. CancelStep
    BY <1>3, NextCancels
  <2>2. FileOf(data[r].queue) \in files
    BY <1>3 DEF Recorded, Places, Complete, Waiting
  <2>3. Found(r) # 0
    <3>1. ~ uses_multi_timeline
      BY <1>3 DEF uses_multi_timeline
    <3> QED BY <1>3, <3>1, SearchReaches
  <2>4. PICK s \in Cancellers :
          /\ cancel[s] = "uncalled"
          /\ \E answer \in {"true", "false"} : cancel' = [cancel EXCEPT ![s] = answer]
          /\ \/ removed' = removed /\ (FileOf(data[s].queue) \in files => Found(s) = 0)
             \/ \E g \in Reqs : removed' = removed \cup {g} /\ g \notin removed
    BY <2>1 DEF CancelStep
  <2>5. s = r
    BY <2>4
  <2> QED BY <2>2, <2>3, <2>4, <2>5
<1>4. LibraryInit => Bounded /\ current_alg \in Algs
  BY DEF LibraryInit, Init, Bounded, NoneOver
<1>5. current_alg \in Algs /\ [Next]_vars => (current_alg \in Algs)'
  BY InputKept
<1>6. Spec => [](Places /\ Releases /\ Recorded) /\ []OwnLists /\ []Bounded /\ [](current_alg \in Algs)
  BY <1>4, <1>5, AlwaysRecorded, AlwaysOwnLists, BoundedKept, PTL DEF Spec
<1>7. Spec /\ ApartIfAggregated => []KeptApart
  BY <1>1, <1>2, <1>6, PTL DEF Spec
<1> QED BY <1>3, <1>6, <1>7, PTL DEF Spec, CancelReaches

-----------------------------------------------------------------------------
(* Types.                                                                  *)

\* The requests whose agios_add_request was called.
Begun == {r \in Reqs : pc[r] # "new"}

\* No timestamp is greater than the number of requests that were constructed: one by each
\* call, and at most one by the rest of it, which may make a virtual request.
StampsBounded == /\ g_last_timestamp <= Cardinality(Begun) + Cardinality(Accepted)
                 /\ \A r \in Reqs : stamp[r] <= g_last_timestamp

\* The types of the states that Places leaves open.
Typed == /\ StampsBounded
         /\ hashlist_reqcounter \in [Lines -> Int]
         /\ apc \in AgiosStates /\ stop \in BOOLEAN

\* Only agios_exit moves the stop flag, and every jump of the thread is to a place in it.
LEMMA ThreadTypes ==
  ASSUME apc \in AgiosStates, stop \in BOOLEAN, [Next]_vars
  PROVE  apc' \in AgiosStates /\ stop' \in BOOLEAN
<1>1. ASSUME NEW r \in Reqs, UserStep(r) PROVE UNCHANGED <<apc, stop>>
  BY <1>1 DEF UserStep, CallAdd, Add, AddNoop, NoopCallback, agios_release_request,
       agios_cancel_request, CancelRemoves, CancelFindsNothing, thread
<1>2. CASE agios_exit
  BY <1>2 DEF agios_exit
<1>3. CASE ThreadStep
  BY <1>3 DEF ThreadStep, CheckQueued, WakeUp, TestStop, process_requests_step2, LoopOfScheduler,
       Go, AgiosStates
<1>4. CASE Tick \/ UNCHANGED vars
  BY <1>4 DEF Tick, vars, coreVars, thread
<1>5. CASE schedule
  <2>1. CASE timeorder \/ NOOP_empty \/ SJF
    BY <2>1 DEF timeorder, timeorder_test, timeorder_pick, timeorder_assert, NOOP_empty, SJF,
         SJF_test, SJF_scan, SJF_shortcut, SJF_pick, SJF_assert, Process, Abort, Go, AgiosStates
  <2>2. CASE WFQ \/ TWINS
    BY <2>2 DEF WFQ, WFQ_test, WFQ_pick, WFQ_turn, TWINS, TWINS_look, TWINS_test, TWINS_pick,
         TWINS_break, ReturnWaitingTime, Process, Go, AgiosStates
  <2>3. CASE MLF
    <3>1. /\ stop' = stop
          /\ apc' \in {"scan", "test"} \/ \E p, s : NextLine(p, s) /\ s \in {"schedule", "callback"}
      BY ZenonT(60), <2>3 DEF MLF, MLF_test, MLF_skip, MLF_visit, Go
    <3>2. ASSUME NEW p, NEW s, NextLine(p, s) PROVE apc' \in {"sleep", s}
      BY <3>2 DEF NextLine, Go
    <3> QED BY <1>5, <3>1, <3>2 DEF AgiosStates
  <2>4. CASE aIOLi
    <3>1. stop' = stop /\ apc' \in {"scan", "test", "pick", "drain", "schedule", "sleep", "callback", "abort"}
      BY ZenonT(60), <2>4 DEF aIOLi, aIOLi_test, aIOLi_scan, aIOLi_check, aIOLi_none, aIOLi_drain,
           aIOLi_undefined, Abort, Go
    <3> QED BY <3>1 DEF AgiosStates
  <2> QED BY <1>5, <2>1, <2>2, <2>3, <2>4 DEF schedule
<1> QED BY <1>1, <1>2, <1>3, <1>4, <1>5 DEF Next, CoreNext

\* The counters of the lines stay integers (they may go below zero).
LEMMA LinesTyped ==
  ASSUME Places, hashlist_reqcounter \in [Lines -> Int], [Next]_vars
  PROVE  hashlist_reqcounter' \in [Lines -> Int]
<1>1. data \in [Reqs -> Arguments] /\ CountsStep
  BY NextCounts DEF Places, StateTypes
<1>2. CASE UNCHANGED counters
  BY <1>2 DEF counters
<1>3. \A r \in Reqs : LineOfQ(data[r].queue) \in Lines
  <2>1. \A q \in Queues : LineOfQ(q) \in Lines
    BY FilesAssumption DEF Queues, LineOfQ, FileOf
  <2> QED BY <1>1, <2>1, DataAre
<1>4. ASSUME NEW k \in Lines, NEW n \in {1, -1},
             hashlist_reqcounter' = [hashlist_reqcounter EXCEPT ![k] = @ + n]
      PROVE  hashlist_reqcounter' \in [Lines -> Int]
  <2>1. hashlist_reqcounter[k] + n \in Int
    OBVIOUS
  <2> QED BY <1>4, <2>1
<1>5. ASSUME NEW r \in Reqs, CountNew(data[r].queue, data[r].len)
      PROVE  hashlist_reqcounter' \in [Lines -> Int]
  <2>1. hashlist_reqcounter' = [hashlist_reqcounter EXCEPT ![LineOfQ(data[r].queue)] = @ + 1]
    BY <1>5 DEF CountNew, LineOfQ
  <2> QED BY <1>3, <1>4, <2>1
<1>6. ASSUME NEW r \in Reqs, NEW req, CountCancelled(req, LineOfQ(data[r].queue))
      PROVE  hashlist_reqcounter' \in [Lines -> Int]
  <2>1. PICK k \in Lines : k = LineOfQ(data[r].queue)
    BY <1>3
  <2>2. hashlist_reqcounter' = [hashlist_reqcounter EXCEPT ![k] = @ - 1]
    BY <1>6, <2>1 DEF CountCancelled
  <2>3. hashlist_reqcounter[k] - 1 = hashlist_reqcounter[k] + (-1)
    OBVIOUS
  <2> QED BY <1>4, <2>2, <2>3
<1>7. ASSUME NEW B \in SUBSET Waiting, CountTaken(B) PROVE hashlist_reqcounter' \in [Lines -> Int]
  <2>1. B \in SUBSET Reqs /\ IsFiniteSet(B)
    BY WaitingFinite, FS_Subset
  <2>2. \A l : Cardinality(OfLine(B, l)) \in Nat
    BY <1>1, <2>1, CountsOf
  <2> QED BY <1>7, <2>2 DEF CountTaken
<1> QED BY <1>1, <1>2, <1>5, <1>6, <1>7, RequestsAssumption DEF CountsStep

\* A call takes a timestamp that is one of those there were, or the next one.
LEMMA StampsKept ==
  ASSUME IsFiniteSet(Reqs), Places, StampsBounded, [Next]_vars
  PROVE  StampsBounded'
<1>1. /\ pc \in [Reqs -> {"new", "adding", "callback", "added"}]
      /\ stamp \in [Reqs -> Nat] /\ g_last_timestamp \in Nat
  BY DEF Places, StateTypes
<1>2. /\ Begun \in SUBSET Reqs /\ IsFiniteSet(Begun) /\ Cardinality(Begun) \in Nat
      /\ Accepted \in SUBSET Reqs /\ IsFiniteSet(Accepted) /\ Cardinality(Accepted) \in Nat
  BY FS_Subset, FS_CardinalityType DEF Begun, Accepted
<1>3. CASE UNCHANGED <<pc, stamp, g_last_timestamp>>
  BY <1>3 DEF StampsBounded, Begun, Accepted
<1>4. ASSUME NEW r \in Reqs, CallAdd(r) PROVE StampsBounded'
  <2>1. PICK n \in Incremented : \E t \in Timestamps(n) :
          g_last_timestamp' = n /\ stamp' = [stamp EXCEPT ![r] = t]
    BY <1>4 DEF CallAdd
  <2>2. pc[r] = "new" /\ pc' = [pc EXCEPT ![r] = "adding"]
    BY <1>4 DEF CallAdd
  <2>3. Begun' = Begun \cup {r} /\ r \notin Begun /\ Accepted' = Accepted
    BY <1>1, <2>2 DEF Begun, Accepted
  <2>4. Cardinality(Begun') = Cardinality(Begun) + 1
    BY <1>2, <2>3, FS_AddElement
  <2>5. n \in Nat /\ g_last_timestamp <= n /\ n <= g_last_timestamp + 1
    BY <1>1 DEF Incremented
  <2>6. PICK t \in Timestamps(n) : g_last_timestamp' = n /\ stamp' = [stamp EXCEPT ![r] = t]
    BY <2>1
  <2>7. t \in Nat /\ t <= n
    BY <2>5 DEF Timestamps
  <2>8. ASSUME NEW s \in Reqs PROVE stamp'[s] <= n
    BY <1>1, <2>5, <2>6, <2>7 DEF StampsBounded
  <2>9. n <= Cardinality(Begun') + Cardinality(Accepted')
    BY <1>1, <1>2, <2>3, <2>4, <2>5 DEF StampsBounded
  <2> QED BY <2>6, <2>8, <2>9 DEF StampsBounded
<1>8. ASSUME NEW r \in Reqs, Add(r) PROVE StampsBounded'
  <2>1. /\ g_last_timestamp' \in Nat /\ g_last_timestamp <= g_last_timestamp'
        /\ g_last_timestamp' <= g_last_timestamp + 1
    BY <1>1, <1>8 DEF Add, Incremented
  <2>2. /\ pc[r] = "adding" /\ pc' = [pc EXCEPT ![r] = "added"]
        /\ stamp' = [stamp EXCEPT ![r] = 0]
    BY <1>8 DEF Add
  <2>3. Begun' = Begun /\ Accepted' = Accepted \cup {r} /\ r \notin Accepted
    BY <1>1, <2>2 DEF Begun, Accepted
  <2>4. Cardinality(Accepted') = Cardinality(Accepted) + 1
    BY <1>2, <2>3, FS_AddElement
  <2>5. ASSUME NEW s \in Reqs PROVE stamp'[s] <= g_last_timestamp'
    BY <1>1, <2>1, <2>2 DEF StampsBounded
  <2> QED BY <1>1, <1>2, <2>1, <2>3, <2>4, <2>5 DEF StampsBounded
<1>9. ASSUME NEW r \in Reqs, AddNoop(r) PROVE StampsBounded'
  <2>1. /\ g_last_timestamp' = g_last_timestamp /\ stamp' = [stamp EXCEPT ![r] = 0]
        /\ pc[r] = "adding" /\ pc' = [pc EXCEPT ![r] = "callback"]
    BY <1>9 DEF AddNoop
  <2>2. Begun' = Begun /\ Accepted' = Accepted \cup {r} /\ r \notin Accepted
    BY <1>1, <2>1 DEF Begun, Accepted
  <2>3. Cardinality(Accepted') = Cardinality(Accepted) + 1
    BY <1>2, <2>2, FS_AddElement
  <2> QED BY <1>1, <1>2, <2>1, <2>2, <2>3 DEF StampsBounded
<1>5. ASSUME NEW r \in Reqs, UserStep(r), ~ CallAdd(r), ~ Add(r), ~ AddNoop(r)
      PROVE StampsBounded'
  <2>4. NoopCallback(r) \/ UNCHANGED <<g_last_timestamp, stamp, pc>>
    BY <1>5 DEF UserStep, agios_release_request, agios_cancel_request, CancelRemoves,
         CancelFindsNothing, users
  <2>1. g_last_timestamp' = g_last_timestamp /\ stamp' = stamp
    BY <2>4 DEF NoopCallback
  <2>2. pc' = pc \/ (pc[r] = "callback" /\ pc' = [pc EXCEPT ![r] = "added"])
    BY <2>4 DEF NoopCallback
  <2>3. Begun' = Begun /\ Accepted' = Accepted
    BY <1>1, <2>2 DEF Begun, Accepted
  <2> QED BY <2>1, <2>3 DEF StampsBounded
<1>6. agios_exit \/ ThreadStep \/ Tick \/ schedule \/ UNCHANGED vars => UNCHANGED users
  BY ScheduleQuiet DEF agios_exit, ThreadStep, CheckQueued, WakeUp, TestStop,
       process_requests_step2, Tick, vars, coreVars
<1>7. CASE UNCHANGED users
  BY <1>3, <1>7 DEF users
<1> QED BY <1>4, <1>5, <1>6, <1>7, <1>8, <1>9 DEF Next, CoreNext

\* Every step keeps these types.
LEMMA TypedKept ==
  ASSUME IsFiniteSet(Reqs)
  PROVE  Places /\ Typed /\ [Next]_vars => Typed'
BY ThreadTypes, LinesTyped, StampsKept DEF Typed

\* At the start no call was made.
LEMMA TypedAtStart ==
  ASSUME IsFiniteSet(Reqs)
  PROVE  LibraryInit => Typed
<1> SUFFICES ASSUME LibraryInit PROVE Typed
  OBVIOUS
<1>1. Begun = {} /\ Accepted = {}
  BY DEF LibraryInit, Init, Begun, Accepted
<1>2. Cardinality(Begun) = 0 /\ Cardinality(Accepted) = 0
  BY <1>1, FS_EmptySet
<1>3. StampsBounded
  BY <1>2 DEF LibraryInit, Init, StampsBounded
<1>4. hashlist_reqcounter \in [Lines -> Int]
  <2>1. hashlist_reqcounter = [l \in Lines |-> 0]
    BY DEF LibraryInit, Init
  <2> QED BY <2>1
<1>5. apc \in AgiosStates /\ stop \in BOOLEAN
  BY DEF LibraryInit, Init, AgiosStates
<1> QED BY <1>3, <1>4, <1>5 DEF Typed

\* A sequence that has no request twice is not longer than there are requests.
LEMMA OnceIsShort ==
  ASSUME IsFiniteSet(Reqs), NEW ids \in IdLists, Once(ids), NEW i \in DOMAIN ids
  PROVE  ids[i] \in SeqOf(Reqs, Cardinality(Reqs)) \ {<<>>}
<1>1. ids[i] \in Seq(Reqs) \ {<<>>}
  <2>1. i \in 1 .. Len(ids)
    BY LenProperties DEF IdLists
  <2> QED BY <2>1, ElementOfSeq DEF IdLists
<1>2. PICK s \in Seq(Reqs) : s = ids[i]
  BY <1>1
<1>3. Len(s) \in Nat /\ DOMAIN s = 1 .. Len(s) /\ s \in [1 .. Len(s) -> Reqs]
  BY LenProperties
<1>4. \A k, m \in 1 .. Len(s) : s[k] = s[m] => k = m
  BY <1>2, <1>3 DEF Once
<1>5. s \in Injection(1 .. Len(s), Reqs)
  BY <1>3, <1>4 DEF Injection, IsInjective
<1>6. Cardinality(1 .. Len(s)) = Len(s)
  <2>1. 1 \in Int /\ Len(s) \in Int /\ (IF 1 > Len(s) THEN 0 ELSE Len(s) - 1 + 1) = Len(s)
    BY <1>3
  <2>2. Cardinality(1 .. Len(s)) = IF 1 > Len(s) THEN 0 ELSE Len(s) - 1 + 1
    BY <2>1, FS_Interval
  <2> QED BY <2>1, <2>2
<1>7. Len(s) <= Cardinality(Reqs)
  BY <1>5, <1>6, FS_Injection
<1>8. Cardinality(Reqs) \in Nat
  BY FS_CardinalityType
<1> QED BY <1>1, <1>2, <1>3, <1>7, <1>8 DEF SeqOf

\* Every variable of the library stays in its type: the counters between zero and the number
\* of requests and files there are, the timestamps up to twice the number of requests, since
\* virtual requests take some, and no batch and no callback longer than all requests together.
THEOREM TypeCorrect ==
  ASSUME IsFiniteSet(Reqs), IsFiniteSet(Files)
  PROVE  Spec => []TypeOK
<1>1. ASSUME Places, Counted, Typed, NamedOut, EarlierAdded, Releases, Recorded, refused = {},
             current_alg \in Algs
      PROVE  TypeOK
  <2>1. /\ data \in [Reqs -> Arguments] /\ files \subseteq Files /\ removed \subseteq Reqs
        /\ pc \in [Reqs -> {"new", "adding", "callback", "added"}]
        /\ DOMAIN multi_timeline = 0 .. max_queue_id /\ DOMAIN queues = Queues
        /\ DOMAIN dispatch = Queues
    BY <1>1 DEF Places, StateTypes, ListTypes, Recorded
  <2>2. earlier \in [Reqs -> SUBSET Reqs] /\ cancel \in [Reqs -> {"uncalled", "true", "false"}]
    BY <1>1 DEF EarlierAdded, NamedOut
  <2>3. PICK W \in SUBSET Reqs : W = Waiting /\ IsFiniteSet(W)
    BY <1>1, WaitingFinite
  <2>4. Numbers(W, current_size, timeline_reqnb, current_reqnb, current_filenb)
    BY <1>1, <2>3 DEF Counted
  <2>5. /\ \A q : Bytes(OfQueue(W, q)) \in Nat
        /\ \A f : Cardinality(OfFile(W, f)) \in 0 .. Cardinality(Reqs)
        /\ Cardinality(W) \in 0 .. Cardinality(Reqs)
        /\ Cardinality(Busy(W)) \in 0 .. Cardinality(Files)
    <3>1. \A f : OfFile(W, f) \in SUBSET Reqs
      BY <2>3 DEF OfFile
    <3>2. Busy(W) \in SUBSET Files
      BY DEF Busy
    <3>3. /\ \A U \in SUBSET Reqs : Cardinality(U) \in 0 .. Cardinality(Reqs)
          /\ \A U \in SUBSET Files : Cardinality(U) \in 0 .. Cardinality(Files)
      BY FS_Subset, FS_CardinalityType
    <3>4. \A q : Bytes(OfQueue(W, q)) \in Nat
      BY <2>1, <2>3, CountsOf
    <3> QED BY <3>1, <3>2, <3>3, <3>4
  <2>6. /\ current_size \in [Queues -> Nat]
        /\ timeline_reqnb \in [Files -> 0 .. Cardinality(Reqs)]
        /\ current_reqnb \in 0 .. Cardinality(Reqs)
        /\ current_filenb \in 0 .. Cardinality(Files)
    BY <2>4, <2>5 DEF Numbers
  <2>7. /\ g_last_timestamp \in 0 .. 2 * Cardinality(Reqs)
        /\ stamp \in [Reqs -> 0 .. 2 * Cardinality(Reqs)]
    <3>1. Begun \in SUBSET Reqs /\ Accepted \in SUBSET Reqs
      BY DEF Begun, Accepted
    <3>2. /\ Cardinality(Begun) <= Cardinality(Reqs) /\ Cardinality(Begun) \in Nat
          /\ Cardinality(Accepted) <= Cardinality(Reqs) /\ Cardinality(Accepted) \in Nat
          /\ Cardinality(Reqs) \in Nat
      BY <3>1, FS_Subset, FS_CardinalityType
    <3>3. stamp \in [Reqs -> Nat] /\ g_last_timestamp \in Nat
      BY <1>1 DEF Places, StateTypes
    <3>4. /\ g_last_timestamp <= Cardinality(Begun) + Cardinality(Accepted)
          /\ \A r \in Reqs : stamp[r] <= g_last_timestamp
      BY <1>1 DEF Typed, StampsBounded
    <3> QED BY <3>2, <3>3, <3>4
  <2>8. /\ \A i \in DOMAIN info : info[i] \in SeqOf(Reqs, Cardinality(Reqs)) \ {<<>>}
        /\ \A i \in DOMAIN calls : calls[i] \in SeqOf(Reqs, Cardinality(Reqs)) \ {<<>>}
    <3>1. info \in IdLists /\ calls \in IdLists /\ Once(info) /\ Once(calls)
      BY <1>1 DEF Places, StateTypes, Apart
    <3> QED BY <3>1, OnceIsShort
  <2>9. released \cup refused \cup removed \subseteq Reqs
    <3>1. Complete /\ released \subseteq Delivered
      BY <1>1 DEF Releases, Places
    <3>2. Delivered \subseteq Reqs
      BY <3>1 DEF Complete, Accepted
    <3> QED BY <1>1, <2>1, <3>1, <3>2
  <2>10. hashlist_reqcounter \in [Lines -> Int] /\ apc \in AgiosStates /\ stop \in BOOLEAN
    BY <1>1 DEF Typed
  <2> QED BY <1>1, <2>1, <2>2, <2>6, <2>7, <2>8, <2>9, <2>10 DEF TypeOK
<1>2. LibraryInit => current_alg \in Algs /\ EarlierAdded /\ NamedOut
  BY DEF LibraryInit, Init, EarlierAdded, NamedOut
<1>3. current_alg \in Algs /\ [Next]_vars => (current_alg \in Algs)'
  BY InputKept
<1>4. Places /\ EarlierAdded /\ [Next]_vars => EarlierAdded'
  BY EarlierKept
<1>5. Spec => [](Places /\ Releases /\ Recorded /\ refused = {})
  BY AlwaysRecorded
<1>6. Spec => []Counted
  BY AlwaysCounted
<1>7. Spec => []Typed
  BY <1>5, TypedAtStart, TypedKept, PTL DEF Spec
<1>8. Spec => []NamedOut
  BY CancelledWereNamed
<1>9. Spec => []EarlierAdded
  BY <1>2, <1>4, <1>5, PTL DEF Spec
<1>10. Spec => [](current_alg \in Algs)
  BY <1>2, <1>3, PTL DEF Spec
<1> QED BY <1>1, <1>5, <1>6, <1>7, <1>8, <1>9, <1>10, PTL
=============================================================================
