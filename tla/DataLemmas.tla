----------------------------- MODULE DataLemmas -----------------------------
(***************************************************************************)
(* Facts about the data the models are built from, for every instance of   *)
(* it: natural numbers and their least elements, sums over finite sets,    *)
(* sequences with an element put in or taken out, functions defined by     *)
(* recursion, the concatenation of a sequence of sequences, and running    *)
(* averages.                                                               *)
(*                                                                         *)
(* Induction is over sets of numbers: a set that has 0 and the successor   *)
(* of each of its elements has every natural number.                       *)
(***************************************************************************)
EXTENDS Averages, SequencesExt, FiniteSetTheorems, SequenceTheorems, WellFoundedInduction, TLAPS

-----------------------------------------------------------------------------
(* Natural numbers.                                                        *)

\* The order of the natural numbers as a set of pairs.
LEMMA LessThan == OpToRel(<, Nat) = {p \in Nat \X Nat : p[1] < p[2]}
BY DEF OpToRel

\* Every set of natural numbers that is not empty has a least element.
LEMMA LeastNat ==
  ASSUME NEW T \in SUBSET Nat, T # {}
  PROVE  \E m \in T : \A k \in T : m <= k
<1> DEFINE R == {p \in Nat \X Nat : p[1] < p[2]}
<1>1. IsWellFoundedOn(R, Nat)
  BY LessThan, NatLessThanWellFounded
<1> HIDE DEF R
<1>2. PICK m \in T : \A k \in T : <<k, m>> \notin R
  BY <1>1, WFMin
<1>3. ASSUME NEW k \in T PROVE m <= k
  <2>1. k \in Nat /\ m \in Nat
    OBVIOUS
  <2>2. <<k, m>> \in Nat \X Nat /\ <<k, m>>[1] = k /\ <<k, m>>[2] = m
    BY <2>1
  <2>3. ~ (k < m)
    BY <1>2, <2>2 DEF R
  <2> QED BY <2>1, <2>3
<1> QED BY <1>3

\* What Min (FiniteSetsExt) chooses from a set of natural numbers.
LEMMA MinNat ==
  ASSUME NEW T \in SUBSET Nat, T # {}
  PROVE  Min(T) \in T /\ \A k \in T : Min(T) <= k
BY LeastNat DEF Min

\* Induction.
LEMMA NatIn ==
  ASSUME NEW S, 0 \in S, \A n \in Nat : n \in S => n + 1 \in S
  PROVE  Nat \subseteq S
<1> SUFFICES ASSUME ~ (Nat \subseteq S) PROVE FALSE
  OBVIOUS
<1>1. PICK m \in Nat \ S : \A k \in Nat \ S : m <= k
  BY LeastNat
<1>2. m # 0 /\ m - 1 \in Nat
  BY <1>1
<1>3. m - 1 \in S
  BY <1>1, <1>2
<1> QED BY <1>1, <1>2, <1>3

\* Every set of natural numbers with a bound, and not empty, has a greatest element.
LEMMA GreatestNat ==
  ASSUME NEW T \in SUBSET Nat, T # {}, NEW b \in Nat, \A k \in T : k <= b
  PROVE  \E m \in T : \A k \in T : k <= m
<1> DEFINE U == {n \in Nat : \A k \in T : k <= n}
<1>1. PICK m \in U : \A k \in U : m <= k
  BY LeastNat
<1>2. m \in T
  <2> SUFFICES ASSUME m \notin T PROVE FALSE
    OBVIOUS
  <2>1. \A k \in T : k < m
    BY <1>1
  <2>2. m \in Nat \ {0}
    <3>1. PICK k \in T : k < m
      BY <2>1
    <3>2. k \in Nat /\ m \in Nat
      BY <1>1
    <3> QED BY <3>1, <3>2
  <2>3. m - 1 \in U
    BY <2>1, <2>2
  <2> QED BY <1>1, <2>2, <2>3
<1> QED BY <1>1, <1>2

-----------------------------------------------------------------------------
(* Sums of a function over a finite set of arguments.                      *)

Total(f, S) == SumFunctionOnSet(f, S)

\* The element the fold takes next, and the equation it is defined by.
Pick(S) == CHOOSE x \in S : TRUE
SumStep(f, S, it) ==
  [T \in SUBSET S |-> IF T = {} THEN 0 ELSE f[Pick(T)] + it[T \ {Pick(T)}]]
SumTable(f, S) == CHOOSE it : it = SumStep(f, S, it)

\* The sum of the community modules is the entry of the whole set in a table of sums.
LEMMA SumIsTable ==
  ASSUME NEW f, NEW S
  PROVE  Total(f, S) = SumTable(f, S)[S]
BY DEF Total, SumFunctionOnSet, FoldFunctionOnSet, MapThenFoldSet, SumTable, SumStep, Pick

\* What is picked from a set that is not empty is in it.
LEMMA PickIn ==
  ASSUME NEW S, S # {}
  PROVE  Pick(S) \in S
BY DEF Pick

\* The table exists: there is one for the subsets of at most n elements, whatever n.
LEMMA SumTableExists ==
  ASSUME NEW S, IsFiniteSet(S), NEW f
  PROVE  SumTable(f, S) = SumStep(f, S, SumTable(f, S))
<1> DEFINE Small(n) == {T \in SUBSET S : Cardinality(T) <= n}
           Step(n, it) == [T \in Small(n) |->
                             IF T = {} THEN 0 ELSE f[Pick(T)] + it[T \ {Pick(T)}]]
           Has == {n \in Nat : \E it : it = Step(n, it)}
<1>1. \A T \in SUBSET S : IsFiniteSet(T) /\ Cardinality(T) \in Nat
  BY FS_Subset, FS_CardinalityType
<1>2. ASSUME NEW T \in SUBSET S, T # {}
      PROVE  /\ Pick(T) \in T /\ T \ {Pick(T)} \in SUBSET S
             /\ Cardinality(T \ {Pick(T)}) = Cardinality(T) - 1
  BY <1>1, <1>2, PickIn, FS_RemoveElement
<1>3. 0 \in Has
  <2>1. \A T \in Small(0) : T = {}
    BY <1>1, FS_EmptySet
  <2>2. [T \in Small(0) |-> 0] = Step(0, [T \in Small(0) |-> 0])
    BY <2>1
  <2> QED BY <2>2
<1>4. ASSUME NEW n \in Nat, n \in Has PROVE n + 1 \in Has
  <2>1. PICK it : it = Step(n, it)
    BY <1>4
  <2> DEFINE new == Step(n + 1, it)
  <2>2. ASSUME NEW T \in Small(n + 1), T # {}
        PROVE  new[T \ {Pick(T)}] = it[T \ {Pick(T)}]
    <3> DEFINE U == T \ {Pick(T)}
    <3>1. U \in Small(n) /\ U \in Small(n + 1)
      BY <1>1, <1>2, <2>2
    <3>2. it[U] = Step(n, it)[U]
      BY <2>1
    <3>3. Step(n, it)[U] = new[U]
      BY <3>1
    <3> QED BY <3>2, <3>3
  <2>3. new = Step(n + 1, new)
    BY <2>2
  <2>4. \E x : x = Step(n + 1, x)
    <3> HIDE DEF new, Step
    <3> QED BY <2>3
  <2> HIDE DEF Step
  <2> QED BY <2>4
<1>5. Cardinality(S) \in Has
  <2> HIDE DEF Has
  <2>1. Nat \subseteq Has
    BY <1>3, <1>4, NatIn
  <2> QED BY <1>1, <2>1
<1>6. Small(Cardinality(S)) = SUBSET S
  BY <1>1, FS_Subset
<1>7. \E it : it = SumStep(f, S, it)
  BY <1>5, <1>6 DEF SumStep
<1> QED BY <1>7 DEF SumTable

\* The entry of a table for a set depends on the set and on the function's values on
\* it, not on the set the table was made for.
LEMMA TablesAgree ==
  ASSUME NEW S, IsFiniteSet(S), NEW R, IsFiniteSet(R), NEW f, NEW g,
         NEW U \in SUBSET (S \cap R), \A x \in U : f[x] = g[x]
  PROVE  SumTable(f, S)[U] = SumTable(g, R)[U]
<1> DEFINE Agrees(T) == SumTable(f, S)[T] = SumTable(g, R)[T]
           Ok == {n \in Nat : \A T \in SUBSET U : Cardinality(T) <= n => Agrees(T)}
<1>0. IsFiniteSet(U)
  BY FS_Subset
<1>1. \A T \in SUBSET U : IsFiniteSet(T) /\ Cardinality(T) \in Nat
  BY <1>0, FS_Subset, FS_CardinalityType
<1>2. ASSUME NEW T \in SUBSET U
      PROVE  /\ SumTable(f, S)[T] = IF T = {} THEN 0
                                    ELSE f[Pick(T)] + SumTable(f, S)[T \ {Pick(T)}]
             /\ SumTable(g, R)[T] = IF T = {} THEN 0
                                    ELSE g[Pick(T)] + SumTable(g, R)[T \ {Pick(T)}]
  <2>1. T \in SUBSET S /\ T \in SUBSET R
    OBVIOUS
  <2>2. SumTable(f, S)[T] = SumStep(f, S, SumTable(f, S))[T]
    BY SumTableExists
  <2>3. SumTable(g, R)[T] = SumStep(g, R, SumTable(g, R))[T]
    BY SumTableExists
  <2> QED BY <2>1, <2>2, <2>3 DEF SumStep
<1>3. 0 \in Ok
  <2>1. \A T \in SUBSET U : Cardinality(T) <= 0 => T = {}
    BY <1>1, FS_EmptySet
  <2> QED BY <1>2, <2>1
<1>4. ASSUME NEW n \in Nat, n \in Ok PROVE n + 1 \in Ok
  <2> SUFFICES ASSUME NEW T \in SUBSET U, Cardinality(T) <= n + 1 PROVE Agrees(T)
    OBVIOUS
  <2>0. CASE T = {}
    BY <1>2, <2>0
  <2> SUFFICES ASSUME T # {} PROVE Agrees(T)
    BY <2>0
  <2>1. Pick(T) \in T /\ T \ {Pick(T)} \in SUBSET U
    BY PickIn
  <2>2. Cardinality(T \ {Pick(T)}) <= n
    BY <1>1, <2>1, FS_RemoveElement
  <2>3. Agrees(T \ {Pick(T)})
    BY <1>4, <2>1, <2>2
  <2>4. f[Pick(T)] = g[Pick(T)]
    BY <2>1
  <2> QED BY <1>2, <2>3, <2>4
<1>5. Cardinality(U) \in Ok
  <2> HIDE DEF Ok
  <2>1. Nat \subseteq Ok
    BY <1>3, <1>4, NatIn
  <2> QED BY <1>1, <2>1
<1> QED BY <1>5, <1>1

\* A sum depends on the values of the function on the set only.
LEMMA SumSame ==
  ASSUME NEW S, IsFiniteSet(S), NEW f, NEW g, \A x \in S : f[x] = g[x]
  PROVE  Total(f, S) = Total(g, S)
<1>1. S \in SUBSET (S \cap S)
  OBVIOUS
<1>2. SumTable(f, S)[S] = SumTable(g, S)[S]
  BY <1>1, TablesAgree
<1> QED BY <1>2, SumIsTable

\* Nothing adds up to zero.
LEMMA SumEmpty ==
  ASSUME NEW f
  PROVE  Total(f, {}) = 0
<1>1. SumTable(f, {})[{}] = SumStep(f, {}, SumTable(f, {}))[{}]
  BY SumTableExists, FS_EmptySet
<1> QED BY <1>1, SumIsTable DEF SumStep

\* A sum is the value of the element picked first and the sum of the others.
LEMMA SumPick ==
  ASSUME NEW S, IsFiniteSet(S), S # {}, NEW f
  PROVE  Total(f, S) = f[Pick(S)] + Total(f, S \ {Pick(S)})
<1> DEFINE U == S \ {Pick(S)}
<1>1. IsFiniteSet(U) /\ U \in SUBSET S
  BY FS_RemoveElement
<1>2. SumTable(f, S)[S] = SumStep(f, S, SumTable(f, S))[S]
  BY SumTableExists
<1>3. SumTable(f, S)[S] = f[Pick(S)] + SumTable(f, S)[U]
  BY <1>2 DEF SumStep
<1>4. SumTable(f, S)[U] = SumTable(f, U)[U]
  <2> HIDE DEF U
  <2> QED BY <1>1, TablesAgree
<1> QED BY <1>3, <1>4, SumIsTable

\* The sum of values that are all in a set closed under addition is in that set.
LEMMA SumType ==
  ASSUME NEW S, IsFiniteSet(S), NEW f, NEW V, V = Nat \/ V = Int, \A x \in S : f[x] \in V
  PROVE  Total(f, S) \in V
<1> DEFINE Ok == {n \in Nat : \A T \in SUBSET S : Cardinality(T) <= n => Total(f, T) \in V}
<1>1. \A T \in SUBSET S : IsFiniteSet(T) /\ Cardinality(T) \in Nat
  BY FS_Subset, FS_CardinalityType
<1>2. 0 \in Ok
  <2>1. \A T \in SUBSET S : Cardinality(T) <= 0 => T = {}
    BY <1>1, FS_EmptySet
  <2> QED BY <2>1, SumEmpty
<1>3. ASSUME NEW n \in Nat, n \in Ok PROVE n + 1 \in Ok
  <2> SUFFICES ASSUME NEW T \in SUBSET S, Cardinality(T) <= n + 1, T # {}
               PROVE  Total(f, T) \in V
    BY SumEmpty
  <2>1. Pick(T) \in T /\ T \ {Pick(T)} \in SUBSET S
    BY PickIn
  <2>2. Cardinality(T \ {Pick(T)}) <= n
    BY <1>1, <2>1, FS_RemoveElement
  <2>3. Total(f, T \ {Pick(T)}) \in V
    BY <1>3, <2>1, <2>2
  <2>4. f[Pick(T)] \in V
    BY <2>1
  <2>5. Total(f, T) = f[Pick(T)] + Total(f, T \ {Pick(T)})
    BY <1>1, SumPick
  <2> QED BY <2>3, <2>4, <2>5
<1>4. Cardinality(S) \in Ok
  <2> HIDE DEF Ok
  <2>1. Nat \subseteq Ok
    BY <1>2, <1>3, NatIn
  <2> QED BY <1>1, <2>1
<1> QED BY <1>4, <1>1

\* Any element can be taken out of a sum.
LEMMA SumRemove ==
  ASSUME NEW S, IsFiniteSet(S), NEW f, \A y \in S : f[y] \in Int, NEW x \in S
  PROVE  Total(f, S) = f[x] + Total(f, S \ {x})
<1> DEFINE Out(T) == \A y \in T : Total(f, T) = f[y] + Total(f, T \ {y})
           Ok == {n \in Nat : \A T \in SUBSET S : Cardinality(T) <= n => Out(T)}
<1>1. \A T \in SUBSET S : IsFiniteSet(T) /\ Cardinality(T) \in Nat
  BY FS_Subset, FS_CardinalityType
<1>2. 0 \in Ok
  <2>1. \A T \in SUBSET S : Cardinality(T) <= 0 => T = {}
    BY <1>1, FS_EmptySet
  <2> QED BY <2>1
<1>3. ASSUME NEW n \in Nat, n \in Ok PROVE n + 1 \in Ok
  <2> SUFFICES ASSUME NEW T \in SUBSET S, Cardinality(T) <= n + 1, NEW y \in T
               PROVE  Total(f, T) = f[y] + Total(f, T \ {y})
    OBVIOUS
  <2> DEFINE p == Pick(T)
  <2>1. p \in T
    BY PickIn
  <2>2. Total(f, T) = f[p] + Total(f, T \ {p})
    BY <1>1, SumPick
  <2>3. CASE y = p
    BY <2>2, <2>3
  <2>4. CASE y # p
    <3> HIDE DEF p
    <3> DEFINE U == T \ {p}
               W == T \ {y}
    <3>1. U \in SUBSET S /\ y \in U /\ W \in SUBSET S /\ p \in W
      BY <2>1, <2>4
    <3>2. Cardinality(U) <= n /\ Cardinality(W) <= n
      BY <1>1, <2>1, FS_RemoveElement
    <3>3. Total(f, U) = f[y] + Total(f, U \ {y}) /\ Total(f, W) = f[p] + Total(f, W \ {p})
      BY <1>3, <3>1, <3>2
    <3>4. U \ {y} = W \ {p} /\ U \ {y} \in SUBSET S
      OBVIOUS
    <3>5. f[p] \in Int /\ f[y] \in Int /\ Total(f, U \ {y}) \in Int
      <4> HIDE DEF U
      <4> QED BY <1>1, <2>1, <3>4, SumType
    <3>6. T \ {p} = U /\ T \ {y} = W
      OBVIOUS
    <3> HIDE DEF U, W
    <3>7. Total(f, T) = f[p] + (f[y] + Total(f, U \ {y}))
      BY <2>2, <3>3, <3>6
    <3>8. Total(f, W) = f[p] + Total(f, U \ {y})
      BY <3>3, <3>4
    <3>9. Total(f, T) = f[y] + Total(f, W)
      BY <3>5, <3>7, <3>8
    <3> QED BY <3>6, <3>9
  <2> QED BY <2>3, <2>4
<1>4. Cardinality(S) \in Ok
  <2> HIDE DEF Ok
  <2>1. Nat \subseteq Ok
    BY <1>2, <1>3, NatIn
  <2> QED BY <1>1, <2>1
<1> QED BY <1>4, <1>1

\* One more element adds its value to a sum.
LEMMA SumAdd ==
  ASSUME NEW S, IsFiniteSet(S), NEW x, x \notin S, NEW f, f[x] \in Int, \A y \in S : f[y] \in Int
  PROVE  Total(f, S \cup {x}) = Total(f, S) + f[x]
<1> DEFINE W == S \cup {x}
<1>1. IsFiniteSet(W) /\ W \ {x} = S /\ x \in W /\ \A y \in W : f[y] \in Int
  BY FS_AddElement
<1> HIDE DEF W
<1>2. Total(f, W) = f[x] + Total(f, W \ {x})
  BY <1>1, SumRemove
<1>3. Total(f, S) \in Int
  BY SumType
<1>4. Total(f, W) = f[x] + Total(f, S)
  BY <1>1, <1>2, Zenon
<1>5. Total(f, W) = Total(f, S) + f[x]
  BY <1>3, <1>4
<1> QED BY <1>5 DEF W

\* What a part of the set does not have is what the rest has.
LEMMA SumDifference ==
  ASSUME NEW S, IsFiniteSet(S), NEW f, \A y \in S : f[y] \in Int, NEW U \in SUBSET S
  PROVE  Total(f, S \ U) = Total(f, S) - Total(f, U)
<1> DEFINE Splits(T) == Total(f, S \ T) = Total(f, S) - Total(f, T)
           Ok == {n \in Nat : \A T \in SUBSET S : Cardinality(T) <= n => Splits(T)}
<1>0. \A T \in SUBSET S : IsFiniteSet(T) /\ Cardinality(T) \in Nat
  BY FS_Subset, FS_CardinalityType
<1>1. \A T \in SUBSET S : /\ IsFiniteSet(T) /\ Cardinality(T) \in Nat /\ IsFiniteSet(S \ T)
                          /\ Total(f, T) \in Int /\ Total(f, S \ T) \in Int
  <2> SUFFICES ASSUME NEW T \in SUBSET S
               PROVE  /\ IsFiniteSet(T) /\ Cardinality(T) \in Nat /\ IsFiniteSet(S \ T)
                      /\ Total(f, T) \in Int /\ Total(f, S \ T) \in Int
    OBVIOUS
  <2>1. IsFiniteSet(T) /\ Cardinality(T) \in Nat /\ IsFiniteSet(S \ T)
    BY FS_Subset, FS_CardinalityType
  <2>2. Total(f, T) \in Int
    BY <2>1, SumType
  <2>3. Total(f, S \ T) \in Int
    BY <2>1, SumType
  <2> QED BY <2>1, <2>2, <2>3
<1>2. 0 \in Ok
  <2>1. \A T \in SUBSET S : Cardinality(T) <= 0 => T = {}
    BY <1>0, FS_EmptySet
  <2>2. S \ {} = S
    OBVIOUS
  <2>3. Splits({})
    BY <1>1, <2>2, SumEmpty
  <2> QED BY <2>1, <2>3
<1>3. ASSUME NEW n \in Nat, n \in Ok PROVE n + 1 \in Ok
  <2> SUFFICES ASSUME NEW T \in SUBSET S, Cardinality(T) <= n + 1
               PROVE  Splits(T)
    OBVIOUS
  <2>a. CASE T = {}
    BY <1>2, <2>a, FS_EmptySet
  <2> SUFFICES ASSUME NEW y \in T PROVE Splits(T)
    BY <2>a
  <2> DEFINE V == T \ {y}
  <2>1. V \in SUBSET S /\ Cardinality(V) <= n
    BY <1>0, FS_RemoveElement
  <2>2. Splits(V)
    BY <1>3, <2>1
  <2>3. Total(f, T) = f[y] + Total(f, V)
    BY <1>1, SumRemove
  <2>4. y \in S \ V /\ (S \ V) \ {y} = S \ T
    OBVIOUS
  <2>5. Total(f, S \ V) = f[y] + Total(f, S \ T)
    <3> DEFINE X == S \ V
    <3>1. IsFiniteSet(X) /\ (\A z \in X : f[z] \in Int) /\ y \in X /\ X \ {y} = S \ T
      BY <1>1, <2>1, <2>4
    <3> HIDE DEF X
    <3>2. Total(f, X) = f[y] + Total(f, X \ {y})
      BY <3>1, SumRemove
    <3>3. Total(f, X) = f[y] + Total(f, S \ T)
      BY <3>1, <3>2
    <3> QED BY <3>3 DEF X
  <2>6. f[y] \in Int /\ Total(f, V) \in Int /\ Total(f, S \ T) \in Int /\ Total(f, S) \in Int
    <3> HIDE DEF V
    <3> QED BY <1>1, <2>1
  <2> HIDE DEF V
  <2> QED BY <2>2, <2>3, <2>5, <2>6
<1>4. Cardinality(U) \in Ok
  <2> HIDE DEF Ok
  <2>1. Nat \subseteq Ok
    BY <1>2, <1>3, NatIn
  <2> QED BY <1>1, <2>1
<1> QED BY <1>4, <1>1

\* The sum over two disjoint sets is the sum of their sums.
LEMMA SumUnion ==
  ASSUME NEW S, IsFiniteSet(S), NEW R, IsFiniteSet(R), S \cap R = {},
         NEW f, \A y \in S \cup R : f[y] \in Int
  PROVE  Total(f, S \cup R) = Total(f, S) + Total(f, R)
<1> DEFINE W == S \cup R
<1>1. IsFiniteSet(W) /\ S \in SUBSET W /\ W \ S = R
  BY FS_Union
<1>2. Total(f, W \ S) = Total(f, W) - Total(f, S)
  <2> HIDE DEF W
  <2>1. \A y \in W : f[y] \in Int
    BY DEF W
  <2> QED BY <1>1, <2>1, SumDifference
<1>3. Total(f, W) \in Int /\ Total(f, S) \in Int
  <2>1. Total(f, S) \in Int
    BY SumType
  <2>2. Total(f, W) \in Int
    BY <1>1, SumType
  <2> QED BY <2>1, <2>2
<1> HIDE DEF W
<1>4. Total(f, W) = Total(f, S) + Total(f, R)
  BY <1>1, <1>2, <1>3
<1> QED BY <1>4 DEF W

\* One value of the function changes.
LEMMA SumUpdate ==
  ASSUME NEW S, IsFiniteSet(S), NEW f, \A y \in S : f[y] \in Int, NEW x \in S,
         NEW g, g[x] \in Int, \A y \in S \ {x} : g[y] = f[y]
  PROVE  Total(g, S) = Total(f, S) - f[x] + g[x]
<1>1. IsFiniteSet(S \ {x})
  BY FS_RemoveElement
<1>2. Total(f, S) = f[x] + Total(f, S \ {x})
  BY SumRemove
<1>3. \A y \in S : g[y] \in Int
  OBVIOUS
<1>4. Total(g, S) = g[x] + Total(g, S \ {x})
  BY <1>3, SumRemove
<1>5. Total(g, S \ {x}) = Total(f, S \ {x})
  BY <1>1, SumSame
<1>6. Total(f, S \ {x}) \in Int
  BY <1>1, SumType
<1>7. f[x] \in Int /\ g[x] \in Int
  OBVIOUS
<1> QED BY <1>2, <1>4, <1>5, <1>6, <1>7

\* A sum of natural numbers is at least each of them, and at least the sum over a part
\* of the set.
LEMMA SumOfPart ==
  ASSUME NEW S, IsFiniteSet(S), NEW f, \A y \in S : f[y] \in Nat, NEW U \in SUBSET S
  PROVE  Total(f, U) <= Total(f, S)
<1>1. IsFiniteSet(U) /\ IsFiniteSet(S \ U)
  BY FS_Subset
<1>2. Total(f, S \ U) = Total(f, S) - Total(f, U)
  BY SumDifference
<1>3. Total(f, S \ U) \in Nat
  BY <1>1, SumType
<1>4. Total(f, S) \in Nat
  BY SumType
<1>5. Total(f, U) \in Nat
  BY <1>1, SumType
<1> QED BY <1>2, <1>3, <1>4, <1>5

\* Values that are all zero add up to zero.
LEMMA SumZero ==
  ASSUME NEW S, IsFiniteSet(S), NEW f, \A y \in S : f[y] = 0
  PROVE  Total(f, S) = 0
<1> DEFINE z == [x \in S |-> 0]
           Ok == {n \in Nat : \A T \in SUBSET S : Cardinality(T) <= n => Total(f, T) = 0}
<1>1. \A T \in SUBSET S : IsFiniteSet(T) /\ Cardinality(T) \in Nat
  BY FS_Subset, FS_CardinalityType
<1>2. 0 \in Ok
  <2>1. \A T \in SUBSET S : Cardinality(T) <= 0 => T = {}
    BY <1>1, FS_EmptySet
  <2> QED BY <2>1, SumEmpty
<1>3. ASSUME NEW n \in Nat, n \in Ok PROVE n + 1 \in Ok
  <2> SUFFICES ASSUME NEW T \in SUBSET S, Cardinality(T) <= n + 1, T # {}
               PROVE  Total(f, T) = 0
    BY SumEmpty
  <2>1. Pick(T) \in T /\ T \ {Pick(T)} \in SUBSET S
    BY PickIn
  <2>2. Cardinality(T \ {Pick(T)}) <= n
    BY <1>1, <2>1, FS_RemoveElement
  <2>3. Total(f, T \ {Pick(T)}) = 0
    BY <1>3, <2>1, <2>2
  <2>4. f[Pick(T)] = 0
    BY <2>1
  <2>5. Total(f, T) = f[Pick(T)] + Total(f, T \ {Pick(T)})
    BY <1>1, SumPick
  <2> QED BY <2>3, <2>4, <2>5
<1>4. Cardinality(S) \in Ok
  <2> HIDE DEF Ok
  <2>1. Nat \subseteq Ok
    BY <1>2, <1>3, NatIn
  <2> QED BY <1>1, <2>1
<1> QED BY <1>4, <1>1

-----------------------------------------------------------------------------
(* Sequences.                                                              *)

\* A sequence without its element number i: the elements behind it move up by one.
LEMMA RemoveAtProperties ==
  ASSUME NEW S, NEW s \in Seq(S), NEW i \in 1 .. Len(s)
  PROVE  /\ RemoveAt(s, i) \in Seq(S)
         /\ Len(RemoveAt(s, i)) = Len(s) - 1
         /\ \A j \in 1 .. Len(s) - 1 : RemoveAt(s, i)[j] = IF j < i THEN s[j] ELSE s[j + 1]
<1> DEFINE a == SubSeq(s, 1, i - 1)
           b == SubSeq(s, i + 1, Len(s))
<1>1. Len(s) \in Nat /\ i \in Int
  BY LenProperties
<1>2. \A j \in 1 .. Len(s) : s[j] \in S
  BY ElementOfSeq
<1>3. /\ a \in Seq(S) /\ Len(a) = i - 1
      /\ \A j \in 1 .. i - 1 : a[j] = s[j]
  <2>1. \A j \in 1 .. i - 1 : s[j] \in S
    BY <1>1, <1>2
  <2>2. /\ a \in Seq(S) /\ Len(a) = IF 1 <= i - 1 THEN i - 1 - 1 + 1 ELSE 0
        /\ \A j \in 1 .. i - 1 - 1 + 1 : a[j] = s[1 + j - 1]
    <3> HIDE DEF a
    <3>1. 1 \in Int /\ i - 1 \in Int
      BY <1>1
    <3> QED BY <2>1, <3>1, SubSeqProperties DEF a
  <2> HIDE DEF a
  <2> QED BY <1>1, <2>2
<1>4. /\ b \in Seq(S) /\ Len(b) = Len(s) - i
      /\ \A j \in 1 .. Len(s) - i : b[j] = s[j + i]
  <2>1. \A j \in i + 1 .. Len(s) : s[j] \in S
    BY <1>1, <1>2
  <2>2. /\ b \in Seq(S) /\ Len(b) = IF i + 1 <= Len(s) THEN Len(s) - (i + 1) + 1 ELSE 0
        /\ \A j \in 1 .. Len(s) - (i + 1) + 1 : b[j] = s[i + 1 + j - 1]
    <3> HIDE DEF b
    <3>1. i + 1 \in Int /\ Len(s) \in Int
      BY <1>1
    <3> QED BY <2>1, <3>1, SubSeqProperties DEF b
  <2> HIDE DEF b
  <2> QED BY <1>1, <2>2
<1> HIDE DEF a, b
<1>5. /\ a \o b \in Seq(S) /\ Len(a \o b) = Len(a) + Len(b)
      /\ \A j \in 1 .. Len(a) + Len(b) :
           (a \o b)[j] = IF j <= Len(a) THEN a[j] ELSE b[j - Len(a)]
  BY <1>3, <1>4, ConcatProperties
<1>6. RemoveAt(s, i) = a \o b
  BY DEF RemoveAt, a, b
<1>7. ASSUME NEW j \in 1 .. Len(s) - 1
      PROVE  (a \o b)[j] = IF j < i THEN s[j] ELSE s[j + 1]
  <2>1. j \in 1 .. Len(a) + Len(b) /\ j \in Int
    BY <1>1, <1>3, <1>4
  <2>2. CASE j < i
    <3>1. j \in 1 .. i - 1 /\ j <= Len(a)
      BY <1>1, <1>3, <2>1, <2>2
    <3> QED BY <1>3, <1>5, <2>1, <2>2, <3>1
  <2>3. CASE ~ (j < i)
    <3>1. ~ (j <= Len(a)) /\ j - Len(a) \in 1 .. Len(s) - i /\ j - Len(a) + i = j + 1
      BY <1>1, <1>3, <2>1, <2>3
    <3> QED BY <1>4, <1>5, <2>1, <2>3, <3>1
  <2> QED BY <2>2, <2>3
<1>8. Len(a) + Len(b) = Len(s) - 1
  BY <1>1, <1>3, <1>4
<1> QED BY <1>5, <1>6, <1>7, <1>8

\* A sequence with e as its element number i: the elements from there on move back by
\* one.
LEMMA InsertAtProperties ==
  ASSUME NEW S, NEW s \in Seq(S), NEW i \in 1 .. Len(s) + 1, NEW e \in S
  PROVE  /\ InsertAt(s, i, e) \in Seq(S)
         /\ Len(InsertAt(s, i, e)) = Len(s) + 1
         /\ \A j \in 1 .. Len(s) + 1 : InsertAt(s, i, e)[j] =
              IF j < i THEN s[j] ELSE IF j = i THEN e ELSE s[j - 1]
<1> DEFINE a == SubSeq(s, 1, i - 1)
           b == SubSeq(s, i, Len(s))
           c == <<e>>
<1>1. Len(s) \in Nat /\ i \in Int
  BY LenProperties
<1>2. \A j \in 1 .. Len(s) : s[j] \in S
  BY ElementOfSeq
<1>3. /\ a \in Seq(S) /\ Len(a) = i - 1
      /\ \A j \in 1 .. i - 1 : a[j] = s[j]
  <2>1. \A j \in 1 .. i - 1 : s[j] \in S
    BY <1>1, <1>2
  <2>2. /\ a \in Seq(S) /\ Len(a) = IF 1 <= i - 1 THEN i - 1 - 1 + 1 ELSE 0
        /\ \A j \in 1 .. i - 1 - 1 + 1 : a[j] = s[1 + j - 1]
    <3> HIDE DEF a
    <3>1. 1 \in Int /\ i - 1 \in Int
      BY <1>1
    <3> QED BY <2>1, <3>1, SubSeqProperties DEF a
  <2> HIDE DEF a
  <2> QED BY <1>1, <2>2
<1>4. /\ b \in Seq(S) /\ Len(b) = Len(s) - i + 1
      /\ \A j \in 1 .. Len(s) - i + 1 : b[j] = s[j + i - 1]
  <2>1. \A j \in i .. Len(s) : s[j] \in S
    BY <1>1, <1>2
  <2>2. /\ b \in Seq(S) /\ Len(b) = IF i <= Len(s) THEN Len(s) - i + 1 ELSE 0
        /\ \A j \in 1 .. Len(s) - i + 1 : b[j] = s[i + j - 1]
    <3> HIDE DEF b
    <3>1. Len(s) \in Int
      BY <1>1
    <3> QED BY <1>1, <2>1, <3>1, SubSeqProperties DEF b
  <2> HIDE DEF b
  <2> QED BY <1>1, <2>2
<1>5. c \in Seq(S) /\ Len(c) = 1 /\ c[1] = e
  OBVIOUS
<1> HIDE DEF a, b, c
<1>6. /\ a \o c \in Seq(S) /\ Len(a \o c) = i
      /\ \A j \in 1 .. i : (a \o c)[j] = IF j < i THEN s[j] ELSE e
  <2>1. /\ a \o c \in Seq(S) /\ Len(a \o c) = Len(a) + Len(c)
        /\ \A j \in 1 .. Len(a) + Len(c) :
             (a \o c)[j] = IF j <= Len(a) THEN a[j] ELSE c[j - Len(a)]
    BY <1>3, <1>5, ConcatProperties
  <2> QED BY <1>1, <1>3, <1>5, <2>1
<1> DEFINE ac == a \o c
<1>7. InsertAt(s, i, e) = ac \o b
  BY DEF InsertAt, a, b, c
<1>8. /\ ac \o b \in Seq(S) /\ Len(ac \o b) = Len(ac) + Len(b)
      /\ \A j \in 1 .. Len(ac) + Len(b) :
           (ac \o b)[j] = IF j <= Len(ac) THEN ac[j] ELSE b[j - Len(ac)]
  <2> HIDE DEF ac
  <2>1. ac \in Seq(S)
    BY <1>6 DEF ac
  <2> QED BY <1>4, <2>1, ConcatProperties
<1>9. ac \in Seq(S) /\ Len(ac) = i /\ \A j \in 1 .. i : ac[j] = IF j < i THEN s[j] ELSE e
  BY <1>6
<1> HIDE DEF ac
<1>10. ASSUME NEW j \in 1 .. Len(s) + 1
       PROVE  (ac \o b)[j] = IF j < i THEN s[j] ELSE IF j = i THEN e ELSE s[j - 1]
  <2>1. j \in 1 .. Len(ac) + Len(b) /\ j \in Int
    BY <1>1, <1>9, <1>4
  <2>2. CASE j <= i
    BY <1>1, <1>8, <1>9, <2>1, <2>2
  <2>3. CASE ~ (j <= i)
    <3>1. ~ (j <= Len(ac)) /\ j - Len(ac) \in 1 .. Len(s) - i + 1 /\ j - Len(ac) + i - 1 = j - 1
      BY <1>1, <1>9, <2>1, <2>3
    <3>2. (ac \o b)[j] = b[j - Len(ac)]
      BY <1>8, <2>1, <3>1
    <3>3. b[j - Len(ac)] = s[j - 1]
      BY <1>4, <3>1
    <3> QED BY <1>1, <2>1, <2>3, <3>2, <3>3
  <2> QED BY <2>2, <2>3
<1>11. Len(ac) + Len(b) = Len(s) + 1
  BY <1>1, <1>9, <1>4
<1> QED BY <1>7, <1>8, <1>10, <1>11

\* A function defined by recursion on 0 .. n exists.
Recurs(base, n, step, g) ==
  g = [i \in 0 .. n |-> IF i = 0 THEN base ELSE step[<<i, g[i - 1]>>]]

\* Such a function exists whenever the step stays in the set the base is from.
LEMMA RecursionExists ==
  ASSUME NEW X, NEW base \in X, NEW n \in Nat, NEW step \in [(1 .. n) \X X -> X]
  PROVE  \E g \in [0 .. n -> X] : Recurs(base, n, step, g)
<1> DEFINE Body(m, g) == [i \in 0 .. m |-> IF i = 0 THEN base ELSE step[<<i, g[i - 1]>>]]
           Has == {m \in Nat : m <= n => \E g \in [0 .. m -> X] : g = Body(m, g)}
<1>1. 0 \in Has
  <2> DEFINE z == [i \in 0 .. 0 |-> base]
  <2>1. z \in [0 .. 0 -> X] /\ z = Body(0, z)
    OBVIOUS
  <2>2. \E g \in [0 .. 0 -> X] : g = Body(0, g)
    <3> HIDE DEF z, Body
    <3> QED BY <2>1
  <2> HIDE DEF Body
  <2> QED BY <2>2
<1>2. ASSUME NEW m \in Nat, m \in Has PROVE m + 1 \in Has
  <2> SUFFICES ASSUME m + 1 <= n PROVE \E g \in [0 .. m + 1 -> X] : g = Body(m + 1, g)
    OBVIOUS
  <2>1. PICK g \in [0 .. m -> X] : g = Body(m, g)
    BY <1>2
  <2> DEFINE h == [i \in 0 .. m + 1 |-> IF i <= m THEN g[i] ELSE step[<<i, g[m]>>]]
  <2>2. step[<<m + 1, g[m]>>] \in X
    <3>1. <<m + 1, g[m]>> \in (1 .. n) \X X
      OBVIOUS
    <3> QED BY <3>1
  <2>3. h \in [0 .. m + 1 -> X]
    BY <2>2
  <2>4. ASSUME NEW i \in 0 .. m + 1
        PROVE  h[i] = IF i = 0 THEN base ELSE step[<<i, h[i - 1]>>]
    <3>1. CASE i = 0
      <4>1. g[0] = base
        BY <2>1
      <4> QED BY <3>1, <4>1
    <3>2. CASE i # 0 /\ i <= m
      <4>1. i - 1 \in 0 .. m /\ i \in 0 .. m
        BY <3>2
      <4>2. g[i] = step[<<i, g[i - 1]>>]
        BY <2>1, <3>2, <4>1
      <4>3. h[i] = g[i] /\ h[i - 1] = g[i - 1]
        BY <3>2, <4>1
      <4> QED BY <3>2, <4>2, <4>3
    <3>3. CASE i = m + 1
      <4>1. h[i] = step[<<i, g[m]>>] /\ h[i - 1] = g[m] /\ i # 0
        BY <3>3
      <4> QED BY <4>1
    <3> QED BY <3>1, <3>2, <3>3
  <2>5. h = Body(m + 1, h)
    BY <2>4
  <2> HIDE DEF h, Body
  <2> QED BY <2>3, <2>5
<1>3. n \in Has
  <2> HIDE DEF Has
  <2>1. Nat \subseteq Has
    BY <1>1, <1>2, NatIn
  <2> QED BY <2>1
<1> QED BY <1>3 DEF Recurs

\* The values of a sequence of natural numbers have a bound.
LEMMA ValuesBounded ==
  ASSUME NEW n \in Nat, NEW f \in [1 .. n -> Nat]
  PROVE  \E b \in Nat : \A i \in 1 .. n : f[i] <= b
<1> DEFINE Has == {m \in Nat : m <= n => \E b \in Nat : \A i \in 1 .. m : f[i] <= b}
<1>1. 0 \in Has
  OBVIOUS
<1>2. ASSUME NEW m \in Nat, m \in Has PROVE m + 1 \in Has
  <2> SUFFICES ASSUME m + 1 <= n PROVE \E b \in Nat : \A i \in 1 .. m + 1 : f[i] <= b
    OBVIOUS
  <2>1. PICK b \in Nat : \A i \in 1 .. m : f[i] <= b
    BY <1>2
  <2>2. f[m + 1] \in Nat /\ \A i \in 1 .. m : f[i] \in Nat
    OBVIOUS
  <2>3. \A i \in 1 .. m + 1 : i \in 1 .. m \/ i = m + 1
    OBVIOUS
  <2>4. \A i \in 1 .. m + 1 : f[i] <= b + f[m + 1]
    BY <2>1, <2>2, <2>3
  <2> WITNESS b + f[m + 1] \in Nat
  <2> QED BY <2>4
<1>3. n \in Has
  <2> HIDE DEF Has
  <2>1. Nat \subseteq Has
    BY <1>1, <1>2, NatIn
  <2> QED BY <2>1
<1> QED BY <1>3

-----------------------------------------------------------------------------
(* The averages the library keeps: truncation never takes one past the old *)
(* average or past the new value.                                          *)

\* Dividing by a positive number does not go past the dividend.
LEMMA QuotientShrinks ==
  ASSUME NEW a \in Nat, NEW b \in Nat \ {0}
  PROVE  a \div b \in 0 .. a
<1>1. a \div b \in Int /\ b * (a \div b) <= a /\ a < b * (a \div b) + b
  OBVIOUS
<1> DEFINE q == a \div b
<1>2. q >= 0
  <2>1. SUFFICES ASSUME q <= -1 PROVE FALSE
    BY <1>1
  <2>2. b * q <= b * (-1)
    BY <1>1, <2>1
  <2> QED BY <1>1, <2>2
<1>3. q <= a
  <2>1. q <= b * q
    BY <1>1, <1>2
  <2> QED BY <1>1, <2>1
<1> QED BY <1>1, <1>2, <1>3

\* A new average between the old one and the new value; the first is the value.
Between(new, avg, value, count) ==
  /\ new \in Int
  /\ count = 1 => new = value
  /\ avg <= value => avg <= new /\ new <= value
  /\ value <= avg => value <= new /\ new <= avg

\* update_iterative_average stays between the old average and the new value.
LEMMA AverageBetween ==
  ASSUME NEW avg \in Int, NEW value \in Int, NEW count \in Nat \ {0}
  PROVE  Between(update_iterative_average(avg, value, count), avg, value, count)
<1> USE DEF Between
<1>1. CASE count = 1
  BY <1>1 DEF update_iterative_average
<1>2. CASE count # 1 /\ value - avg >= 0
  <2>1. (value - avg) \div count \in 0 .. (value - avg)
    BY <1>2, QuotientShrinks
  <2>2. update_iterative_average(avg, value, count) = avg + ((value - avg) \div count)
    BY <1>2 DEF update_iterative_average, Quotient
  <2> QED BY <1>2, <2>1, <2>2
<1>3. CASE count # 1 /\ ~ (value - avg >= 0)
  <2>1. - (value - avg) \in Nat
    BY <1>3
  <2>2. (- (value - avg)) \div count \in 0 .. (- (value - avg))
    BY <2>1, QuotientShrinks
  <2>3. update_iterative_average(avg, value, count) = avg + (- ((- (value - avg)) \div count))
    BY <1>3 DEF update_iterative_average, Quotient
  <2> QED BY <1>3, <2>2, <2>3
<1> QED BY <1>1, <1>2, <1>3

\* An average that is in the range of its values stays in it with one more.
LEMMA OneMoreValue ==
  ASSUME NEW values, values \subseteq Int, NEW avg \in Int, NEW value \in Int,
         NEW count \in Nat \ {0},
         count # 1 => InRangeOf(avg, values)
  PROVE  LET new == update_iterative_average(avg, value, count) IN
         new \in Int /\ InRangeOf(new, values \cup {value})
<1> DEFINE new == update_iterative_average(avg, value, count)
<1>1. Between(new, avg, value, count)
  BY AverageBetween
<1>0. SUFFICES new \in Int /\ InRangeOf(new, values \cup {value})
  OBVIOUS
<1> HIDE DEF new
<1>2. CASE count = 1
  <2>1. new = value /\ new \in Int /\ value <= new /\ new <= value
    BY <1>1, <1>2 DEF Between
  <2> QED BY <2>1 DEF InRangeOf
<1>3. CASE count # 1
  <2>1. PICK low \in values : low <= avg
    BY <1>3 DEF InRangeOf
  <2>2. PICK high \in values : avg <= high
    BY <1>3 DEF InRangeOf
  <2>3. low \in Int /\ high \in Int /\ (avg <= value \/ value <= avg) /\ new \in Int
    BY <1>1 DEF Between
  <2>4. (low <= new \/ value <= new) /\ (new <= high \/ new <= value)
    BY <1>1, <1>3, <2>1, <2>2, <2>3 DEF Between
  <2>5. /\ \E v \in values \cup {value} : v <= new
        /\ \E v \in values \cup {value} : new <= v
    BY <2>4
  <2> QED BY <2>3, <2>5 DEF InRangeOf
<1> QED BY <1>2, <1>3

-----------------------------------------------------------------------------
(* Sequences whose elements are matched with the elements of a set.        *)

\* f gives the elements of s those of A, each once; R has the pairs that may be matched.
Matches(f, s, A, R) ==
  /\ f \in [DOMAIN s -> A]
  /\ \A i, j \in DOMAIN s : f[i] = f[j] => i = j
  /\ \A a \in A : \E i \in DOMAIN s : f[i] = a
  /\ \A i \in DOMAIN s : <<s[i], f[i]>> \in R

Paired(s, A, R) == \E f : Matches(f, s, A, R)

\* The empty sequence is matched with the empty set.
LEMMA PairedEmpty ==
  ASSUME NEW R
  PROVE  Paired(<<>>, {}, R)
<1> DEFINE f == [i \in DOMAIN <<>> |-> 0]
<1>1. Matches(f, <<>>, {}, R)
  <2>1. DOMAIN <<>> = {}
    OBVIOUS
  <2> QED BY <2>1 DEF Matches
<1> HIDE DEF f
<1> QED BY <1>1 DEF Paired

\* A sequence with one element.
LEMMA PairedOne ==
  ASSUME NEW R, NEW x, NEW a, <<x, a>> \in R
  PROVE  Paired(<<x>>, {a}, R)
<1> DEFINE f == [i \in {1} |-> a]
<1>1. DOMAIN <<x>> = {1} /\ <<x>>[1] = x
  OBVIOUS
<1>2. Matches(f, <<x>>, {a}, R)
  BY <1>1 DEF Matches
<1> HIDE DEF f
<1> QED BY <1>2 DEF Paired

\* One sequence after the other, with the elements of both sets.
LEMMA PairedConcat ==
  ASSUME NEW S, NEW s \in Seq(S), NEW t \in Seq(S), NEW A, NEW B, A \cap B = {}, NEW R,
         Paired(s, A, R), Paired(t, B, R)
  PROVE  Paired(s \o t, A \cup B, R)
<1>1. PICK f : Matches(f, s, A, R)
  BY DEF Paired
<1>2. PICK g : Matches(g, t, B, R)
  BY DEF Paired
<1> DEFINE n == Len(s)
           m == Len(t)
           st == s \o t
           h == [i \in 1 .. n + m |-> IF i <= n THEN f[i] ELSE g[i - n]]
<1>3. n \in Nat /\ m \in Nat /\ DOMAIN s = 1 .. n /\ DOMAIN t = 1 .. m
  BY LenProperties
<1>4. /\ DOMAIN st = 1 .. n + m
      /\ \A i \in 1 .. n + m : st[i] = IF i <= n THEN s[i] ELSE t[i - n]
  <2>1. st \in Seq(S) /\ Len(st) = n + m
        /\ \A i \in 1 .. n + m : st[i] = IF i <= n THEN s[i] ELSE t[i - n]
    BY ConcatProperties
  <2> HIDE DEF st, n, m
  <2> QED BY <2>1, LenProperties
<1> HIDE DEF n, m, st
<1>5. ASSUME NEW i \in 1 .. n + m
      PROVE  \/ i \in 1 .. n /\ h[i] = f[i] /\ st[i] = s[i]
             \/ i - n \in 1 .. m /\ ~ (i <= n) /\ h[i] = g[i - n] /\ st[i] = t[i - n]
  BY <1>3, <1>4
<1>6. ASSUME NEW i \in 1 .. m PROVE i + n \in 1 .. n + m /\ h[i + n] = g[i]
  BY <1>3
<1>7. ASSUME NEW i \in 1 .. n PROVE i \in 1 .. n + m /\ h[i] = f[i]
  BY <1>3
<1>a. DOMAIN h = 1 .. n + m
  OBVIOUS
<1>b. h = [i \in 1 .. n + m |-> h[i]]
  OBVIOUS
<1> HIDE DEF h
<1>8. /\ \A i \in 1 .. n : f[i] \in A /\ <<s[i], f[i]>> \in R
      /\ \A i \in 1 .. m : g[i] \in B /\ <<t[i], g[i]>> \in R
      /\ \A i, j \in 1 .. n : f[i] = f[j] => i = j
      /\ \A i, j \in 1 .. m : g[i] = g[j] => i = j
      /\ \A a \in A : \E i \in 1 .. n : f[i] = a
      /\ \A b \in B : \E i \in 1 .. m : g[i] = b
  BY <1>1, <1>2, <1>3 DEF Matches
<1>9. \A i \in 1 .. n + m : h[i] \in A \cup B /\ <<st[i], h[i]>> \in R
  BY <1>5, <1>8
<1>10. \A c \in A \cup B : \E i \in 1 .. n + m : h[i] = c
  <2>1. \A a \in A : \E i \in 1 .. n + m : h[i] = a
    BY <1>7, <1>8
  <2>2. ASSUME NEW b \in B PROVE \E i \in 1 .. n + m : h[i] = b
    <3>1. PICK k \in 1 .. m : g[k] = b
      BY <1>8
    <3> QED BY <1>6, <3>1
  <2> QED BY <2>1, <2>2
<1>11. ASSUME NEW i \in 1 .. n + m, NEW j \in 1 .. n + m, h[i] = h[j] PROVE i = j
  <2>1. i \in Int /\ j \in Int /\ n \in Int
    BY <1>3
  <2>2. CASE i \in 1 .. n /\ j \in 1 .. n
    BY <1>7, <1>8, <1>11, <2>2
  <2>3. CASE i - n \in 1 .. m /\ j - n \in 1 .. m /\ h[i] = g[i - n] /\ h[j] = g[j - n]
    <3>1. i - n = j - n
      BY <1>8, <1>11, <2>3
    <3> QED BY <2>1, <3>1
  <2>4. ~ (h[i] \in A /\ h[j] \in B) /\ ~ (h[i] \in B /\ h[j] \in A)
    BY <1>11
  <2>5. \/ i \in 1 .. n /\ h[i] \in A
        \/ i - n \in 1 .. m /\ h[i] = g[i - n] /\ h[i] \in B
    BY <1>5, <1>8
  <2>6. \/ j \in 1 .. n /\ h[j] \in A
        \/ j - n \in 1 .. m /\ h[j] = g[j - n] /\ h[j] \in B
    BY <1>5, <1>8
  <2> QED BY <2>2, <2>3, <2>4, <2>5, <2>6
<1>12. Matches(h, st, A \cup B, R)
  <2>1. h \in [DOMAIN st -> A \cup B]
    BY <1>4, <1>9, <1>b
  <2> QED BY <1>4, <1>9, <1>10, <1>11, <2>1 DEF Matches
<1> QED BY <1>12 DEF Paired, st

\* One element of the sequence is taken out, with one that it could be matched with.
LEMMA PairedRemove ==
  ASSUME NEW S, NEW s \in Seq(S), NEW A, NEW R, Paired(s, A, R),
         NEW i \in 1 .. Len(s), NEW r \in A, <<s[i], r>> \in R,
         \A x, y, a, b : <<x, a>> \in R /\ <<y, a>> \in R /\ <<y, b>> \in R => <<x, b>> \in R
  PROVE  Paired(RemoveAt(s, i), A \ {r}, R)
<1>1. PICK f : Matches(f, s, A, R)
  BY DEF Paired
<1> DEFINE n == Len(s)
           u == RemoveAt(s, i)
<1>2. n \in Nat /\ DOMAIN s = 1 .. n /\ i \in 1 .. n
  BY LenProperties
<1>3. /\ DOMAIN u = 1 .. n - 1
      /\ \A j \in 1 .. n - 1 : u[j] = IF j < i THEN s[j] ELSE s[j + 1]
  <2>1. u \in Seq(S) /\ Len(u) = n - 1
        /\ \A j \in 1 .. n - 1 : u[j] = IF j < i THEN s[j] ELSE s[j + 1]
    BY RemoveAtProperties
  <2> HIDE DEF u, n
  <2> QED BY <2>1, LenProperties
<1> HIDE DEF u, n
<1>4. /\ \A j \in 1 .. n : f[j] \in A /\ <<s[j], f[j]>> \in R
      /\ \A j, k \in 1 .. n : f[j] = f[k] => j = k
      /\ \A a \in A : \E j \in 1 .. n : f[j] = a
  BY <1>1, <1>2 DEF Matches
<1>5. PICK p \in 1 .. n : f[p] = r
  BY <1>4
\* What element p is matched with in the place of r, and where each element was.
<1> DEFINE g == [j \in 1 .. n |-> IF j = p THEN f[i] ELSE f[j]]
           at == [j \in 1 .. n - 1 |-> IF j < i THEN j ELSE j + 1]
           h == [j \in 1 .. n - 1 |-> g[at[j]]]
<1>6. <<s[p], f[i]>> \in R
  BY <1>2, <1>4, <1>5
<1>7. /\ \A j \in 1 .. n \ {i} : g[j] \in A \ {r} /\ <<s[j], g[j]>> \in R
      /\ \A j, k \in 1 .. n \ {i} : g[j] = g[k] => j = k
      /\ \A a \in A \ {r} : \E j \in 1 .. n \ {i} : g[j] = a
  <2>1. ASSUME NEW j \in 1 .. n \ {i} PROVE g[j] \in A \ {r} /\ <<s[j], g[j]>> \in R
    BY <1>2, <1>4, <1>5, <1>6
  <2>2. ASSUME NEW j \in 1 .. n \ {i}, NEW k \in 1 .. n \ {i}, g[j] = g[k] PROVE j = k
    BY <1>2, <1>4, <1>5, <2>2
  <2>3. ASSUME NEW a \in A \ {r} PROVE \E j \in 1 .. n \ {i} : g[j] = a
    <3>1. PICK k \in 1 .. n : f[k] = a
      BY <1>4
    <3>2. CASE k = i
      <4>1. p \in 1 .. n \ {i} /\ g[p] = a
        BY <1>5, <3>1, <3>2
      <4> QED BY <4>1
    <3>3. CASE k # i
      <4>1. k # p
        BY <1>5, <3>1
      <4>2. k \in 1 .. n \ {i} /\ g[k] = a
        BY <3>1, <3>3, <4>1
      <4> QED BY <4>2
    <3> QED BY <3>2, <3>3
  <2> QED BY <2>1, <2>2, <2>3
<1>8. /\ \A j \in 1 .. n - 1 : at[j] \in 1 .. n \ {i} /\ u[j] = s[at[j]]
      /\ \A j, k \in 1 .. n - 1 : at[j] = at[k] => j = k
      /\ \A k \in 1 .. n \ {i} : \E j \in 1 .. n - 1 : at[j] = k
  <2>1. ASSUME NEW j \in 1 .. n - 1 PROVE at[j] \in 1 .. n \ {i} /\ u[j] = s[at[j]]
    BY <1>2, <1>3
  <2>2. ASSUME NEW j \in 1 .. n - 1, NEW k \in 1 .. n - 1, at[j] = at[k] PROVE j = k
    BY <1>2, <2>2
  <2>3. ASSUME NEW k \in 1 .. n \ {i} PROVE \E j \in 1 .. n - 1 : at[j] = k
    <3>1. CASE k < i
      <4>1. k \in 1 .. n - 1 /\ at[k] = k
        BY <1>2, <3>1
      <4> QED BY <4>1
    <3>2. CASE ~ (k < i)
      <4>1. k - 1 \in 1 .. n - 1 /\ ~ (k - 1 < i) /\ (k - 1) + 1 = k
        BY <1>2, <3>2
      <4>2. at[k - 1] = k
        BY <4>1
      <4> QED BY <4>1, <4>2
    <3> QED BY <3>1, <3>2
  <2> QED BY <2>1, <2>2, <2>3
<1> HIDE DEF g, at
<1>9. Matches(h, u, A \ {r}, R)
  <2>1. \A j \in 1 .. n - 1 : h[j] \in A \ {r} /\ <<u[j], h[j]>> \in R
    BY <1>7, <1>8
  <2>2. \A j, k \in 1 .. n - 1 : h[j] = h[k] => j = k
    BY <1>7, <1>8
  <2>3. ASSUME NEW a \in A \ {r} PROVE \E j \in 1 .. n - 1 : h[j] = a
    <3>1. PICK k \in 1 .. n \ {i} : g[k] = a
      BY <1>7
    <3>2. PICK j \in 1 .. n - 1 : at[j] = k
      BY <1>8
    <3> QED BY <3>1, <3>2
  <2>4. h \in [1 .. n - 1 -> A \ {r}]
    BY <2>1
  <2> HIDE DEF h
  <2> QED BY <1>3, <2>1, <2>2, <2>3, <2>4 DEF Matches
<1> HIDE DEF h
<1> QED BY <1>9 DEF Paired, u

\* A sequence has as many elements as the set it is matched with.
LEMMA PairedLength ==
  ASSUME NEW S, NEW s \in Seq(S), NEW A, NEW R, Paired(s, A, R)
  PROVE  Len(s) = Cardinality(A)
<1>1. PICK f : Matches(f, s, A, R)
  BY DEF Paired
<1>2. DOMAIN s = 1 .. Len(s) /\ Len(s) \in Nat
  BY LenProperties
<1>3. IsFiniteSet(1 .. Len(s)) /\ Cardinality(1 .. Len(s)) = Len(s)
  BY <1>2, FS_Interval
<1>4. f \in Bijection(1 .. Len(s), A)
  BY <1>1, <1>2 DEF Matches, Bijection, Injection, Surjection, IsInjective
<1> QED BY <1>3, <1>4, FS_Bijection DEF ExistsBijection

\* The places of a sequence of sequences, those of its first m sequences, and what is
\* at each of them.
CellsOf(seqs, m) ==
  {c \in Nat \X Nat : c[1] \in 1 .. m /\ c[2] \in DOMAIN seqs[c[1]]}
Holds(seqs) == {<<seqs[c[1]][c[2]], c>> : c \in CellsOf(seqs, Len(seqs))}

\* A sequence of sequences one after the other: what is at each of their places, once.
LEMMA FlattenIs ==
  ASSUME NEW S, NEW seqs \in Seq(Seq(S))
  PROVE  /\ FlattenSeq(seqs) \in Seq(S)
         /\ Paired(FlattenSeq(seqs), CellsOf(seqs, Len(seqs)), Holds(seqs))
<1> DEFINE n == Len(seqs)
           Flat(f) == [i \in 1 .. n |-> IF i = 1 THEN seqs[i] ELSE f[i - 1] \o seqs[i]]
           F == CHOOSE f : f = Flat(f)
           R == Holds(seqs)
<1>1. n \in Nat /\ DOMAIN seqs = 1 .. n /\ \A i \in 1 .. n : seqs[i] \in Seq(S)
  BY LenProperties, ElementOfSeq
<1>2. n # 0 => FlattenSeq(seqs) = F[n]
  BY DEF FlattenSeq
<1>3. n = 0 => FlattenSeq(seqs) = <<>>
  BY EmptySeq DEF FlattenSeq
<1>4. \A c \in CellsOf(seqs, n) : <<seqs[c[1]][c[2]], c>> \in R
  BY DEF Holds
<1>c. \A m \in 0 .. n : CellsOf(seqs, m) \subseteq CellsOf(seqs, n)
  BY <1>1 DEF CellsOf
<1> HIDE DEF n, R
<1> DEFINE X == Seq(S)
           step == [a \in (1 .. n) \X X |-> a[2] \o seqs[a[1]]]
<1>5. \E f : f = Flat(f)
  <2>1. step \in [(1 .. n) \X X -> X]
    <3>1. ASSUME NEW a \in (1 .. n) \X X PROVE a[2] \o seqs[a[1]] \in X
      BY <1>1, ConcatProperties
    <3> HIDE DEF X
    <3> QED BY <3>1
  <2>2. <<>> \in X
    BY EmptySeq
  <2>3. PICK g \in [0 .. n -> X] : Recurs(<<>>, n, step, g)
    <3> HIDE DEF X, step
    <3> QED BY <1>1, <2>1, <2>2, RecursionExists
  <2>4. ASSUME NEW i \in 1 .. n
        PROVE  g[i] = IF i = 1 THEN seqs[i] ELSE g[i - 1] \o seqs[i]
    <3>1. i \in 0 .. n /\ i # 0 /\ i - 1 \in 0 .. n
      BY <1>1
    <3>2. g[i] = step[<<i, g[i - 1]>>]
      <4> HIDE DEF X, step
      <4> QED BY <2>3, <3>1 DEF Recurs
    <3>3. g[i - 1] \in X /\ <<i, g[i - 1]>> \in (1 .. n) \X X
      BY <2>3, <3>1
    <3>4. step[<<i, g[i - 1]>>] = g[i - 1] \o seqs[i]
      BY <3>3
    <3>5. g[0] = <<>>
      <4> HIDE DEF X, step
      <4> QED BY <1>1, <2>3 DEF Recurs
    <3>6. CASE i = 1
      <4>1. <<>> \o seqs[i] = seqs[i]
        BY <1>1, ConcatEmptySeq
      <4>2. i - 1 = 0
        BY <3>6
      <4> QED BY <3>2, <3>4, <3>5, <3>6, <4>1, <4>2
    <3> QED BY <3>2, <3>4, <3>6
  <2> DEFINE h == [i \in 1 .. n |-> g[i]]
  <2>5. h = Flat(h)
    <3>1. ASSUME NEW i \in 1 .. n
          PROVE  h[i] = IF i = 1 THEN seqs[i] ELSE h[i - 1] \o seqs[i]
      <4>1. h[i] = g[i] /\ (i # 1 => h[i - 1] = g[i - 1])
        BY <1>1
      <4> QED BY <2>4, <4>1
    <3>2. h = [i \in 1 .. n |-> h[i]]
      OBVIOUS
    <3> HIDE DEF h
    <3> QED BY <3>1, <3>2
  <2> HIDE DEF h, Flat
  <2> QED BY <2>5
<1>6. F = Flat(F)
  <2> HIDE DEF Flat
  <2> QED BY <1>5
<1> HIDE DEF F
<1>7. \A i \in 1 .. n : F[i] = IF i = 1 THEN seqs[i] ELSE F[i - 1] \o seqs[i]
  BY <1>6
<1>8. ASSUME NEW i \in 1 .. n
      PROVE  Paired(seqs[i], {i} \X DOMAIN seqs[i], R)
  <2> DEFINE s == seqs[i]
             f == [k \in DOMAIN s |-> <<i, k>>]
  <2>1. DOMAIN s \subseteq Nat /\ i \in Nat
    <3>1. s \in Seq(S)
      BY <1>1
    <3>2. DOMAIN s = 1 .. Len(s) /\ Len(s) \in Nat
      BY <3>1, LenProperties
    <3> HIDE DEF s
    <3> QED BY <1>1, <3>2
  <2>2. \A k \in DOMAIN s : <<i, k>> \in CellsOf(seqs, n)
    BY <2>1 DEF CellsOf
  <2>3. \A k \in DOMAIN s : <<s[k], <<i, k>>>> \in R
    BY <1>4, <2>2
  <2> HIDE DEF s
  <2>4. Matches(f, s, {i} \X DOMAIN s, R)
    BY <2>3 DEF Matches
  <2> HIDE DEF f
  <2> QED BY <2>4 DEF Paired, s
<1> DEFINE Ok == {m \in Nat : m + 1 <= n =>
                    F[m + 1] \in Seq(S) /\ Paired(F[m + 1], CellsOf(seqs, m + 1), R)}
<1>9. ASSUME NEW m \in Nat, m + 1 <= n
      PROVE  /\ CellsOf(seqs, m + 1) = CellsOf(seqs, m) \cup ({m + 1} \X DOMAIN seqs[m + 1])
             /\ CellsOf(seqs, m) \cap ({m + 1} \X DOMAIN seqs[m + 1]) = {}
  <2>0. m + 1 \in 1 .. n
    BY <1>1, <1>9
  <2>1. DOMAIN seqs[m + 1] \subseteq Nat
    <3> DEFINE s == seqs[m + 1]
    <3>1. s \in Seq(S)
      BY <1>1, <2>0
    <3> HIDE DEF s
    <3>2. DOMAIN s = 1 .. Len(s) /\ Len(s) \in Nat
      BY <3>1, LenProperties
    <3>3. DOMAIN s \subseteq Nat
      BY <3>2
    <3> QED BY <3>3 DEF s
  <2>2. \A k \in Nat : k \in 1 .. m + 1 <=> k \in 1 .. m \/ k = m + 1
    OBVIOUS
  <2>3. m + 1 \notin 1 .. m /\ m + 1 \in Nat
    OBVIOUS
  <2> QED BY <2>1, <2>2, <2>3 DEF CellsOf
<1>10. CellsOf(seqs, 0) = {}
  BY DEF CellsOf
<1>11. 0 \in Ok
  <2> SUFFICES ASSUME 1 <= n
               PROVE  F[1] \in Seq(S) /\ Paired(F[1], CellsOf(seqs, 1), R)
    OBVIOUS
  <2>1. F[1] = seqs[1] /\ 1 \in 1 .. n
    BY <1>1, <1>7
  <2>2. CellsOf(seqs, 1) = {1} \X DOMAIN seqs[1]
    BY <1>9, <1>10
  <2> QED BY <1>1, <1>8, <2>1, <2>2
<1>12. ASSUME NEW m \in Nat, m \in Ok PROVE m + 1 \in Ok
  <2> SUFFICES ASSUME m + 1 + 1 <= n
               PROVE  F[m + 1 + 1] \in Seq(S) /\ Paired(F[m + 1 + 1], CellsOf(seqs, m + 1 + 1), R)
    OBVIOUS
  <2> DEFINE k == m + 1
  <2>1. k \in Nat /\ k + 1 \in 1 .. n /\ k + 1 # 1 /\ (k + 1) - 1 = k /\ k + 1 <= n
    BY <1>1
  <2>2. F[k] \in Seq(S) /\ Paired(F[k], CellsOf(seqs, k), R)
    BY <1>1, <1>12
  <2> HIDE DEF k
  <2>3. F[k + 1] = F[k] \o seqs[k + 1] /\ seqs[k + 1] \in Seq(S)
    BY <1>1, <1>7, <2>1
  <2>4. F[k + 1] \in Seq(S)
    BY <2>2, <2>3, ConcatProperties
  <2>5. Paired(seqs[k + 1], {k + 1} \X DOMAIN seqs[k + 1], R)
    BY <1>8, <2>1
  <2>6. /\ CellsOf(seqs, k + 1) = CellsOf(seqs, k) \cup ({k + 1} \X DOMAIN seqs[k + 1])
        /\ CellsOf(seqs, k) \cap ({k + 1} \X DOMAIN seqs[k + 1]) = {}
    BY <1>9, <2>1
  <2>7. Paired(F[k] \o seqs[k + 1], CellsOf(seqs, k) \cup ({k + 1} \X DOMAIN seqs[k + 1]), R)
    BY <2>2, <2>3, <2>5, <2>6, PairedConcat
  <2> QED BY <2>3, <2>4, <2>6, <2>7 DEF k
<1>13. n # 0 => F[n] \in Seq(S) /\ Paired(F[n], CellsOf(seqs, n), R)
  <2> HIDE DEF Ok
  <2>1. Nat \subseteq Ok
    BY <1>11, <1>12, NatIn
  <2>2. SUFFICES ASSUME n # 0 PROVE F[n] \in Seq(S) /\ Paired(F[n], CellsOf(seqs, n), R)
    OBVIOUS
  <2>3. n - 1 \in Ok /\ (n - 1) + 1 = n /\ n <= n
    BY <1>1, <2>1, <2>2
  <2> QED BY <2>3 DEF Ok
<1>14. CASE n = 0
  <2>1. <<>> \in Seq(S) /\ Paired(<<>>, {}, R)
    BY EmptySeq, PairedEmpty
  <2> QED BY <1>3, <1>10, <1>14, <2>1 DEF n, R
<1>15. CASE n # 0
  BY <1>2, <1>13, <1>15 DEF n, R
<1> QED BY <1>14, <1>15
=============================================================================
