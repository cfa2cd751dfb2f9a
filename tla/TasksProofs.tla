----------------------------- MODULE TasksProofs -----------------------------
(***************************************************************************)
(* Proofs about the trading tasks and their backtest: the quota of a day,   *)
(* the trades of a hunting tick, the cap of a protocol, the refinement of   *)
(* the book, the window of the momentum buffer, the replay and its verdict. *)
(* An invariant is proved for the backtest specification, whose behaviours  *)
(* are those of a live task and those of a replayed one.                    *)
(***************************************************************************)
EXTENDS Backtest, SequenceTheorems, FiniteSetTheorems, FunctionTheorems,
        WellFoundedInduction, TLAPS

-----------------------------------------------------------------------------
(* Induction, sums and quotients.                                           *)

\* Induction on the natural numbers, for a set.
LEMMA NatInd ==
    ASSUME NEW T \in SUBSET Nat, 0 \in T, \A n \in T : n + 1 \in T
    PROVE  \A n \in Nat : n \in T
  <1> SUFFICES ASSUME Nat \ T # {} PROVE FALSE
    OBVIOUS
  <1> DEFINE R == {ss \in Nat \X Nat : ss[1] < ss[2]}
  <1>0. IsWellFoundedOn(R, Nat)
    BY NatLessThanWellFounded DEF OpToRel
  <1> HIDE DEF R
  <1>1. PICK n \in Nat \ T : \A m \in Nat \ T : ~(<<m, n>> \in R)
    BY <1>0, WFMin
  <1>2. \A m \in Nat \ T : ~(m < n)
    BY <1>1 DEF R
  <1>3. n # 0 /\ n - 1 \in Nat
    BY <1>1
  <1>4. n - 1 \in T
    BY <1>2, <1>3
  <1>5. n - 1 + 1 \in T
    BY <1>4
  <1>6. n - 1 + 1 = n
    BY <1>3
  <1> QED BY <1>1, <1>5, <1>6

\* The fold that adds up a function over a finite set, element by element.
Pick(s) == CHOOSE x \in s : TRUE
IsSum(g, f, S) ==
    g = [s \in SUBSET S |-> IF s = {} THEN 0 ELSE f[Pick(s)] + g[s \ {Pick(s)}]]
Total(f, S) == (CHOOSE g : IsSum(g, f, S))[S]

\* The fold is defined.
LEMMA SumExists ==
    ASSUME NEW S, IsFiniteSet(S), NEW f \in [S -> Int]
    PROVE  \E g \in [SUBSET S -> Int] : IsSum(g, f, S)
  <1> DEFINE Small(n) == {s \in SUBSET S : Cardinality(s) <= n}
             Adds(g, s) == g[s] = IF s = {} THEN 0 ELSE f[Pick(s)] + g[s \ {Pick(s)}]
             T == {n \in Nat : \E g \in [Small(n) -> Int] : \A s \in Small(n) : Adds(g, s)}
  <1>1. \A s \in SUBSET S : /\ IsFiniteSet(s) /\ Cardinality(s) \in Nat
                            /\ Cardinality(s) = 0 <=> s = {}
                            /\ Cardinality(s) <= Cardinality(S)
    BY FS_Subset, FS_CardinalityType, FS_EmptySet
  <1>2. \A s \in SUBSET S : s # {} => /\ Pick(s) \in s /\ s \ {Pick(s)} \in SUBSET S
                                      /\ Cardinality(s \ {Pick(s)}) = Cardinality(s) - 1
    <2> SUFFICES ASSUME NEW s \in SUBSET S, s # {}
                 PROVE  /\ Pick(s) \in s /\ s \ {Pick(s)} \in SUBSET S
                        /\ Cardinality(s \ {Pick(s)}) = Cardinality(s) - 1
      OBVIOUS
    <2>1. Pick(s) \in s
      BY DEF Pick
    <2> QED BY <1>1, <2>1, FS_RemoveElement
  <1>3. 0 \in T
    <2>1. Small(0) = {{}}
      BY <1>1, FS_EmptySet
    <2>2. [s \in {{}} |-> 0] \in [Small(0) -> Int]
      BY <2>1
    <2>3. \A s \in Small(0) : Adds([t \in {{}} |-> 0], s)
      BY <2>1
    <2> QED BY <2>2, <2>3
  <1>4. \A n \in T : n + 1 \in T
    <2> SUFFICES ASSUME NEW n \in T PROVE n + 1 \in T
      OBVIOUS
    <2>1. PICK g \in [Small(n) -> Int] : \A s \in Small(n) : Adds(g, s)
      OBVIOUS
    <2> DEFINE h == [s \in Small(n + 1) |-> IF s = {} THEN 0 ELSE f[Pick(s)] + g[s \ {Pick(s)}]]
    <2>2. \A s \in Small(n + 1) : s # {} => s \ {Pick(s)} \in Small(n)
      BY <1>1, <1>2
    <2>3. h \in [Small(n + 1) -> Int]
      BY <1>2, <2>2
    <2>4. \A s \in Small(n) : s \in Small(n + 1) /\ h[s] = g[s]
      BY <1>1, <2>1
    <2>5. \A s \in Small(n + 1) : h[s] = IF s = {} THEN 0 ELSE f[Pick(s)] + g[s \ {Pick(s)}]
      OBVIOUS
    <2> HIDE DEF h
    <2>6. \A s \in Small(n + 1) : Adds(h, s)
      <3> SUFFICES ASSUME NEW s \in Small(n + 1) PROVE Adds(h, s)
        OBVIOUS
      <3>1. CASE s = {}
        BY <2>5, <3>1
      <3>2. CASE s # {}
        <4>1. h[s] = f[Pick(s)] + g[s \ {Pick(s)}]
          BY <2>5, <3>2
        <4>2. h[s \ {Pick(s)}] = g[s \ {Pick(s)}]
          BY <2>2, <2>4, <3>2
        <4> QED BY <3>2, <4>1, <4>2
      <3> QED BY <3>1, <3>2
    <2>7. \E k \in [Small(n + 1) -> Int] : \A s \in Small(n + 1) : Adds(k, s)
      BY <2>3, <2>6
    <2>8. n + 1 \in Nat
      OBVIOUS
    <2> QED BY <2>7, <2>8, Zenon
  <1>5. Cardinality(S) \in T
    <2> HIDE DEF T
    <2>1. T \in SUBSET Nat
      BY DEF T
    <2> QED BY <1>3, <1>4, <2>1, NatInd, FS_CardinalityType
  <1>6. Small(Cardinality(S)) = SUBSET S
    BY <1>1
  <1>7. PICK g \in [SUBSET S -> Int] : \A s \in SUBSET S : Adds(g, s)
    BY <1>5, <1>6
  <1> QED BY <1>7 DEF IsSum

\* A finite set is emptied by picking elements.
LEMMA PickOne ==
    ASSUME NEW S, IsFiniteSet(S), NEW s \in SUBSET S
    PROVE  /\ Cardinality(s) \in Nat
           /\ Cardinality(s) = 0 => s = {}
           /\ s # {} => /\ Pick(s) \in s /\ s \ {Pick(s)} \in SUBSET S
                        /\ Cardinality(s \ {Pick(s)}) = Cardinality(s) - 1
  <1>1. IsFiniteSet(s) /\ Cardinality(s) \in Nat
    BY FS_Subset, FS_CardinalityType
  <1>2. Cardinality(s) = 0 => s = {}
    BY <1>1, FS_EmptySet
  <1>3. ASSUME s # {}
        PROVE  /\ Pick(s) \in s /\ s \ {Pick(s)} \in SUBSET S
               /\ Cardinality(s \ {Pick(s)}) = Cardinality(s) - 1
    <2>1. Pick(s) \in s
      BY <1>3 DEF Pick
    <2> QED BY <1>1, <2>1, FS_RemoveElement
  <1> QED BY <1>1, <1>2, <1>3

\* The total is a value of the fold.
LEMMA TotalIsFold ==
    ASSUME NEW S, IsFiniteSet(S), NEW f \in [S -> Int]
    PROVE  \E g : IsSum(g, f, S) /\ Total(f, S) = g[S]
  BY SumExists DEF Total

\* What adds up equal values multiplies.
LEMMA TotalEqual ==
    ASSUME NEW S, IsFiniteSet(S), NEW v \in Int, NEW f \in [S -> Int],
           \A x \in S : f[x] = v
    PROVE  Total(f, S) = v * Cardinality(S)
  <1>1. PICK g : IsSum(g, f, S) /\ Total(f, S) = g[S]
    BY TotalIsFold
  <1> DEFINE T == {n \in Nat : \A s \in SUBSET S : Cardinality(s) = n => g[s] = v * n}
  <1>2. \A s \in SUBSET S : g[s] = IF s = {} THEN 0 ELSE f[Pick(s)] + g[s \ {Pick(s)}]
    BY <1>1, Zenon DEF IsSum
  <1>3. 0 \in T
    <2> SUFFICES ASSUME NEW s \in SUBSET S, Cardinality(s) = 0 PROVE g[s] = v * 0
      OBVIOUS
    <2>1. s = {}
      BY PickOne
    <2>2. g[s] = 0
      BY <1>2, <2>1, Zenon
    <2> QED BY <2>2
  <1>4. ASSUME NEW n \in T PROVE n + 1 \in T
    <2>1. n \in Nat /\ n + 1 \in Nat
      OBVIOUS
    <2>2. ASSUME NEW s \in SUBSET S, Cardinality(s) = n + 1 PROVE g[s] = v * (n + 1)
      <3>1. s # {}
        <4>1. Cardinality({}) = 0
          BY FS_EmptySet, Zenon
        <4>2. n + 1 # 0
          BY <2>1
        <4> QED BY <2>2, <4>1, <4>2, Zenon
      <3>2. /\ Pick(s) \in s /\ s \ {Pick(s)} \in SUBSET S
            /\ Cardinality(s \ {Pick(s)}) = n
        BY <2>1, <2>2, <3>1, PickOne
      <3>3. g[s \ {Pick(s)}] = v * n
        BY <3>2, Zenon
      <3>4. f[Pick(s)] = v
        BY <3>2
      <3>5. g[s] = v + v * n
        BY <1>2, <3>1, <3>3, <3>4, Zenon
      <3> QED BY <2>1, <3>5
    <2> QED BY <2>1, <2>2, Zenon
  <1>5. Cardinality(S) \in T
    <2> HIDE DEF T
    <2>1. T \in SUBSET Nat
      BY DEF T
    <2> QED BY <1>3, <1>4, <2>1, NatInd, FS_CardinalityType
  <1> QED BY <1>1, <1>5

\* A total counts an increment once.
LEMMA TotalIncrement ==
    ASSUME NEW S, IsFiniteSet(S), NEW f \in [S -> Int], NEW h \in [S -> Int], NEW d \in S,
           \A x \in S : h[x] = IF x = d THEN f[x] + 1 ELSE f[x]
    PROVE  Total(f, S) \in Int /\ Total(h, S) = Total(f, S) + 1
  <1>1. PICK g : IsSum(g, f, S) /\ Total(f, S) = g[S]
    BY TotalIsFold
  <1>2. PICK k : IsSum(k, h, S) /\ Total(h, S) = k[S]
    BY TotalIsFold
  <1> DEFINE Ok(s) == g[s] \in Int /\ k[s] = g[s] + (IF d \in s THEN 1 ELSE 0)
             T == {n \in Nat : \A s \in SUBSET S : Cardinality(s) = n => Ok(s)}
  <1>3. \A s \in SUBSET S : g[s] = IF s = {} THEN 0 ELSE f[Pick(s)] + g[s \ {Pick(s)}]
    BY <1>1, Zenon DEF IsSum
  <1>4. \A s \in SUBSET S : k[s] = IF s = {} THEN 0 ELSE h[Pick(s)] + k[s \ {Pick(s)}]
    BY <1>2, Zenon DEF IsSum
  <1>5. 0 \in T
    <2> SUFFICES ASSUME NEW s \in SUBSET S, Cardinality(s) = 0 PROVE Ok(s)
      OBVIOUS
    <2>1. s = {}
      BY PickOne
    <2>2. g[s] = 0 /\ k[s] = 0
      BY <1>3, <1>4, <2>1, Zenon
    <2> QED BY <2>1, <2>2
  <1>6. \A n \in T : n + 1 \in T
    <2> SUFFICES ASSUME NEW n \in T, NEW s \in SUBSET S, Cardinality(s) = n + 1
                 PROVE  Ok(s)
      OBVIOUS
    <2> HIDE DEF Ok
    <2>0. n \in Nat
      OBVIOUS
    <2>1. s # {}
      BY <2>0, FS_EmptySet
    <2>b. /\ Pick(s) \in s /\ s \ {Pick(s)} \in SUBSET S
          /\ Cardinality(s \ {Pick(s)}) = n
      BY <2>0, <2>1, PickOne
    <2>2. PICK x \in s, r \in SUBSET S : x = Pick(s) /\ r = s \ {x} /\ Cardinality(r) = n
      BY <2>b
    <2> USE DEF Ok
    <2>3. Ok(r)
      BY <2>2
    <2>4. g[s] = f[x] + g[r] /\ k[s] = h[x] + k[r]
      BY <1>3, <1>4, <2>1, <2>2
    <2>5. CASE x = d
      BY <2>2, <2>3, <2>4, <2>5
    <2>6. CASE x # d
      <3>1. d \in s <=> d \in r
        BY <2>2, <2>6
      <3> QED BY <2>2, <2>3, <2>4, <2>6, <3>1
    <2> QED BY <2>5, <2>6
  <1>7. Cardinality(S) \in T
    <2> HIDE DEF T
    <2>1. T \in SUBSET Nat
      BY DEF T
    <2> QED BY <1>5, <1>6, <2>1, NatInd, FS_CardinalityType
  <1> QED BY <1>1, <1>2, <1>7

\* SumValues adds up the values of an allocation, and SeizuresReported the
\* liquidations of all dates.
LEMMA SumValuesTotal ==
    ASSUME NEW alloc
    PROVE  C!SumValues(alloc) = Total([p \in DOMAIN alloc |-> alloc[p].value], DOMAIN alloc)
  <1> DEFINE f == [p \in DOMAIN alloc |-> alloc[p].value]
  <1>1. C!SumValues(alloc) =
            (CHOOSE g : g = [s \in SUBSET DOMAIN alloc |->
                IF s = {} THEN 0 ELSE alloc[Pick(s)].value + g[s \ {Pick(s)}]])[DOMAIN alloc]
    BY DEF C!SumValues, C!MapThenSumSet, C!MapThenFoldSet, Pick
  <1>2. ASSUME NEW g
        PROVE  [s \in SUBSET DOMAIN alloc |->
                    IF s = {} THEN 0 ELSE alloc[Pick(s)].value + g[s \ {Pick(s)}]]
               = [s \in SUBSET DOMAIN alloc |->
                    IF s = {} THEN 0 ELSE f[Pick(s)] + g[s \ {Pick(s)}]]
    <2>1. \A s \in SUBSET DOMAIN alloc : s # {} => Pick(s) \in DOMAIN alloc
      BY DEF Pick
    <2> QED BY <2>1
  <1>3. (CHOOSE g : g = [s \in SUBSET DOMAIN alloc |->
            IF s = {} THEN 0 ELSE alloc[Pick(s)].value + g[s \ {Pick(s)}]])
        = CHOOSE g : IsSum(g, f, DOMAIN alloc)
    <2> HIDE DEF f
    <2> QED BY <1>2, Zenon DEF IsSum
  <1> QED BY <1>1, <1>3 DEF Total

-----------------------------------------------------------------------------
(* The tape of a backtest.                                                  *)

Rows == [at : Int, price : Nat \ {0}]

\* Sorting keeps the rows and puts them in the order of their times: the place
\* of a row is one more than the number of those before it, and no two rows
\* have the same place.
LEMMA SortedRows ==
    ASSUME NEW rows \in Seq(Rows)
    PROVE  /\ Sorted(rows) \in Seq(Rows) /\ Len(Sorted(rows)) = Len(rows)
           /\ \A i, j \in 1 .. Len(rows) : i < j => Sorted(rows)[i].at <= Sorted(rows)[j].at
  <1> DEFINE n == Len(rows)
             D == 1 .. n
             before(i, j) == rows[i].at < rows[j].at \/ (~(rows[j].at < rows[i].at) /\ i < j)
             Front(i) == {j \in D : before(j, i)}
             place(i) == 1 + Cardinality(Front(i))
             P == [i \in D |-> place(i)]
             c(k) == CHOOSE i \in D : place(i) = k
  <1>1. n \in Nat /\ DOMAIN rows = D /\ \A i \in D : rows[i] \in Rows /\ rows[i].at \in Int
    <2>1. n \in Nat /\ DOMAIN rows = D /\ \A i \in D : rows[i] \in Rows
      BY LenProperties, ElementOfSeq
    <2> QED BY <2>1 DEF Rows
  <1>2. /\ \A i \in D : ~before(i, i)
        /\ \A i, j \in D : before(i, j) \/ before(j, i) \/ i = j
        /\ \A i, j, k \in D : before(i, j) /\ before(j, k) => before(i, k)
        /\ \A i, j \in D : before(i, j) => rows[i].at <= rows[j].at
    <2>1. \A i \in D : i \in Int /\ rows[i].at \in Int
      BY <1>1
    <2> HIDE DEF D
    <2>2. \A i \in D : ~before(i, i)
      BY <2>1
    <2>3. \A i, j \in D : before(i, j) \/ before(j, i) \/ i = j
      BY <2>1
    <2>4. \A i, j, k \in D : before(i, j) /\ before(j, k) => before(i, k)
      BY <2>1
    <2>5. \A i, j \in D : before(i, j) => rows[i].at <= rows[j].at
      BY <2>1
    <2> QED BY <2>2, <2>3, <2>4, <2>5
  <1>3. IsFiniteSet(D) /\ Cardinality(D) = n
    <2>1. /\ IsFiniteSet(1 .. n)
          /\ Cardinality(1 .. n) = IF 1 > n THEN 0 ELSE n - 1 + 1
      BY <1>1, FS_Interval, 1 \in Int, n \in Int
    <2> QED BY <1>1, <2>1
  <1> HIDE DEF before
  <1>4. \A i \in D : IsFiniteSet(Front(i)) /\ Cardinality(Front(i)) \in Nat /\ place(i) \in D
    <2> SUFFICES ASSUME NEW i \in D
                 PROVE  IsFiniteSet(Front(i)) /\ Cardinality(Front(i)) \in Nat /\ place(i) \in D
      OBVIOUS
    <2>1. IsFiniteSet(D \ {i}) /\ Cardinality(D \ {i}) = n - 1
      BY <1>3, FS_RemoveElement
    <2>2. Front(i) \in SUBSET (D \ {i})
      BY <1>2
    <2>3. IsFiniteSet(Front(i)) /\ Cardinality(Front(i)) <= n - 1
      BY <2>1, <2>2, FS_Subset
    <2>4. Cardinality(Front(i)) \in Nat
      BY <2>3, FS_CardinalityType
    <2> QED BY <1>1, <2>3, <2>4
  <1>5. \A i, j \in D : before(i, j) => place(i) < place(j)
    <2> SUFFICES ASSUME NEW i \in D, NEW j \in D, before(i, j) PROVE place(i) < place(j)
      OBVIOUS
    <2>1. Front(i) \in SUBSET Front(j) /\ i \in Front(j) /\ i \notin Front(i)
      BY <1>2
    <2>2. Front(i) # Front(j)
      BY <2>1
    <2>3. Cardinality(Front(i)) <= Cardinality(Front(j)) /\ Cardinality(Front(i)) # Cardinality(Front(j))
      <3>1. PICK S, A : /\ S = Front(j) /\ A = Front(i) /\ IsFiniteSet(S)
                        /\ A \in SUBSET S /\ A # S
        BY <1>4, <2>1, <2>2
      <3>2. Cardinality(A) <= Cardinality(S) /\ Cardinality(A) # Cardinality(S)
        BY <3>1, FS_Subset
      <3> QED BY <3>1, <3>2
    <2>4. Cardinality(Front(i)) \in Nat /\ Cardinality(Front(j)) \in Nat
      BY <1>4
    <2> HIDE DEF Front
    <2> QED BY <2>3, <2>4
  <1> HIDE DEF Front
  <1>6. P \in [D -> D] /\ \A i, j \in D : P[i] = P[j] => i = j
    <2>1. P \in [D -> D]
      BY <1>4
    <2>2. ASSUME NEW i \in D, NEW j \in D, P[i] = P[j] PROVE i = j
      <3>1. place(i) = place(j) /\ place(i) \in Int
        BY <1>1, <1>4, <2>2
      <3>2. ~(place(i) < place(j)) /\ ~(place(j) < place(i))
        BY <3>1
      <3> QED BY <1>2, <1>5, <3>2
    <2> QED BY <2>1, <2>2
  <1>7. P \in Surjection(D, D)
    <2>1. P \in Injection(D, D)
      BY <1>6, Fun_IsInj
    <2> HIDE DEF P
    <2> QED BY <1>3, <2>1, FS_Injection
  <1>8. \A k \in D : \E i \in D : place(i) = k
    <2>1. \A k \in D : \E i \in D : P[i] = k
      <3> HIDE DEF P
      <3> QED BY <1>7, Fun_SurjectionProperties
    <2> QED BY <2>1
  <1>9. \A k \in D : c(k) \in D /\ place(c(k)) = k
    BY <1>8
  <1>10. Sorted(rows) = [k \in D |-> rows[c(k)]]
    BY <1>1 DEF Sorted, SortedBy, before, Front
  <1> HIDE DEF place, c
  <1>11. Sorted(rows) \in Seq(Rows) /\ Len(Sorted(rows)) = n
    BY <1>1, <1>9, <1>10
  <1>12. ASSUME NEW i \in D, NEW j \in D, i < j
         PROVE  Sorted(rows)[i].at <= Sorted(rows)[j].at
    <2>1. ~before(c(j), c(i)) /\ c(i) # c(j)
      <3>1. place(c(i)) = i /\ place(c(j)) = j /\ c(i) \in D /\ c(j) \in D
        BY <1>9
      <3>2. before(c(j), c(i)) => j < i
        BY <1>5, <3>1
      <3> QED BY <1>1, <1>12, <3>1, <3>2
    <2>2. before(c(i), c(j))
      BY <1>2, <1>9, <2>1
    <2> QED BY <1>2, <1>9, <1>10, <2>2
  <1> QED BY <1>11, <1>12

\* The binary search of PriceAtCursor, w being the window it is left with.
Half(w) == (w[1] + w[2] + 1) \div 2
SearchStep(g, w) ==
    IF w[1] >= w[2] THEN w[1]
    ELSE IF tape[Half(w)].at > cursor THEN g[<<w[1], Half(w) - 1>>]
    ELSE g[<<Half(w), w[2]>>]
IsSearch(g) ==
    g = [w \in (1 .. Len(tape)) \X (1 .. Len(tape)) |-> SearchStep(g, w)]
Found == (CHOOSE g : IsSearch(g))[<<1, Len(tape)>>]

\* PriceAtCursor is that search.
LEMMA PriceIsFound ==
    PriceAtCursor = IF tape[Found].at > cursor THEN tape[1].price ELSE tape[Found].price
  BY Zenon DEF PriceAtCursor, Found, IsSearch, SearchStep, Half, Later

\* The search is defined: every step leaves it a smaller window.
LEMMA SearchExists ==
    ASSUME tape \in Seq(Rows)
    PROVE  \E g : IsSearch(g)
  <1> DEFINE n == Len(tape)
             W == (1 .. n) \X (1 .. n)
             Small(k) == {w \in W : w[2] - w[1] <= k}
             T == {k \in Nat : \E g \in [Small(k) -> 1 .. n] :
                                   \A w \in Small(k) : g[w] = SearchStep(g, w)}
  <1>1. n \in Nat
    BY LenProperties
  <1>2. \A w \in W : w[1] \in 1 .. n /\ w[2] \in 1 .. n /\ w = <<w[1], w[2]>>
    OBVIOUS
  <1>3. \A w \in W : w[1] < w[2] =>
            /\ <<w[1], Half(w) - 1>> \in W /\ (Half(w) - 1) - w[1] < w[2] - w[1]
            /\ <<Half(w), w[2]>> \in W /\ w[2] - Half(w) < w[2] - w[1]
    BY <1>1 DEF Half
  <1>4. 0 \in T
    <2> DEFINE g == [w \in Small(0) |-> w[1]]
    <2>1. g \in [Small(0) -> 1 .. n]
      OBVIOUS
    <2>2. \A w \in Small(0) : g[w] = SearchStep(g, w)
      BY DEF SearchStep
    <2> QED BY <2>1, <2>2
  <1>5. \A k \in T : k + 1 \in T
    <2> SUFFICES ASSUME NEW k \in T PROVE k + 1 \in T
      OBVIOUS
    <2>1. PICK g \in [Small(k) -> 1 .. n] : \A w \in Small(k) : g[w] = SearchStep(g, w)
      OBVIOUS
    <2> DEFINE h == [w \in Small(k + 1) |-> SearchStep(g, w)]
    <2>2. \A w \in Small(k + 1) : w[1] < w[2] =>
              <<w[1], Half(w) - 1>> \in Small(k) /\ <<Half(w), w[2]>> \in Small(k)
      <3> SUFFICES ASSUME NEW w \in Small(k + 1), w[1] < w[2]
                   PROVE  <<w[1], Half(w) - 1>> \in Small(k) /\ <<Half(w), w[2]>> \in Small(k)
        OBVIOUS
      <3>1. w \in W /\ w[2] - w[1] <= k + 1
        OBVIOUS
      <3>2. Half(w) \in Int
        BY <3>1 DEF Half
      <3> QED BY <1>3, <3>1, <3>2
    <2>3. h \in [Small(k + 1) -> 1 .. n]
      BY <2>2 DEF SearchStep
    <2>4. \A w \in Small(k) : w \in Small(k + 1) /\ h[w] = g[w]
      BY <2>1
    <2>5. \A w \in Small(k + 1) : h[w] = SearchStep(g, w)
      OBVIOUS
    <2> HIDE DEF h
    <2>6. \A w \in Small(k + 1) : h[w] = SearchStep(h, w)
      <3> SUFFICES ASSUME NEW w \in Small(k + 1) PROVE h[w] = SearchStep(h, w)
        OBVIOUS
      <3>1. CASE w[1] >= w[2]
        BY <2>5, <3>1 DEF SearchStep
      <3>2. CASE w[1] < w[2]
        <4>1. ~(w[1] >= w[2])
          BY <1>2, <3>2
        <4>2. /\ h[<<w[1], Half(w) - 1>>] = g[<<w[1], Half(w) - 1>>]
              /\ h[<<Half(w), w[2]>>] = g[<<Half(w), w[2]>>]
          BY <2>2, <2>4, <3>2
        <4> QED BY <2>5, <4>1, <4>2, Zenon DEF SearchStep
      <3> QED BY <1>2, <3>1, <3>2
    <2>7. k + 1 \in Nat
      OBVIOUS
    <2> QED BY <2>3, <2>6, <2>7, Zenon
  <1>6. n \in T
    <2> HIDE DEF T
    <2>1. T \in SUBSET Nat
      BY DEF T
    <2> QED BY <1>1, <1>4, <1>5, <2>1, NatInd
  <1>7. Small(n) = W
    BY <1>1
  <1>8. PICK g \in [W -> 1 .. n] : \A w \in W : g[w] = SearchStep(g, w)
    BY <1>6, <1>7
  <1> QED BY <1>8 DEF IsSearch

\* The search ends at the last row that is not later than the cursor, or at
\* the first row: what is before its window is not later, what is behind is.
LEMMA SearchFinds ==
    ASSUME tape \in Seq(Rows), tape # <<>>, cursor \in Nat,
           \A i, j \in 1 .. Len(tape) : i < j => tape[i].at <= tape[j].at
    PROVE  /\ Found \in 1 .. Len(tape)
           /\ Found = 1 \/ tape[Found].at <= cursor
           /\ \A i \in 1 .. Len(tape) : i > Found => tape[i].at > cursor
  <1> DEFINE n == Len(tape)
             f == CHOOSE g : IsSearch(g)
             F(a, b) == f[<<a, b>>]
             mid(a, b) == (a + b + 1) \div 2
             Good(x) == /\ x \in 1 .. n /\ (x = 1 \/ tape[x].at <= cursor)
                        /\ \A i \in 1 .. n : i > x => tape[i].at > cursor
             Around(a, b) == /\ a <= b /\ (a = 1 \/ tape[a].at <= cursor)
                             /\ \A i \in 1 .. n : i > b => tape[i].at > cursor
             T == {k \in Nat : \A a, b \in 1 .. n :
                      (Around(a, b) /\ b - a <= k) => Good(F(a, b))}
  <1>1. n \in Nat \ {0} /\ \A i \in 1 .. n : tape[i].at \in Int
    <2>1. n \in Nat /\ \A i \in 1 .. n : tape[i] \in Rows
      BY LenProperties, ElementOfSeq
    <2>2. n # 0
      BY EmptySeq
    <2> QED BY <2>1, <2>2 DEF Rows
  <1>2. ASSUME NEW a \in 1 .. n, NEW b \in 1 .. n
        PROVE  F(a, b) = IF a >= b THEN a
                         ELSE IF tape[mid(a, b)].at > cursor THEN F(a, mid(a, b) - 1)
                         ELSE F(mid(a, b), b)
    <2>1. IsSearch(f)
      BY SearchExists, Zenon
    <2> HIDE DEF f
    <2>2. f[<<a, b>>] = SearchStep(f, <<a, b>>)
      BY <2>1 DEF IsSearch
    <2>3. <<a, b>>[1] = a /\ <<a, b>>[2] = b
      OBVIOUS
    <2> QED BY <2>2, <2>3, Zenon DEF SearchStep, Half
  <1>3. \A a, b \in 1 .. n : a < b => /\ mid(a, b) \in 1 .. n /\ mid(a, b) - 1 \in 1 .. n
                                     /\ a <= mid(a, b) - 1 /\ mid(a, b) <= b
    BY <1>1
  <1> HIDE DEF F, mid
  <1>4. 0 \in T
    <2> SUFFICES ASSUME NEW a \in 1 .. n, NEW b \in 1 .. n, Around(a, b), b - a <= 0
                 PROVE  Good(F(a, b))
      OBVIOUS
    <2>1. F(a, b) = a /\ a = b
      BY <1>2
    <2> QED BY <2>1
  <1>5. \A k \in T : k + 1 \in T
    <2> SUFFICES ASSUME NEW k \in T PROVE k + 1 \in T
      OBVIOUS
    <2> HIDE DEF Around, Good
    <2>a. k + 1 \in Nat
      OBVIOUS
    <2> SUFFICES ASSUME NEW a \in 1 .. n, NEW b \in 1 .. n,
                        Around(a, b), b - a <= k + 1
                 PROVE  Good(F(a, b))
      BY <2>a, Zenon
    <2> USE DEF Around, Good
    <2>0. k \in Nat /\ \A x, y \in 1 .. n : (Around(x, y) /\ y - x <= k) => Good(F(x, y))
      OBVIOUS
    <2>1. CASE a >= b
      <3>1. F(a, b) = a /\ a = b
        BY <1>2, <2>1
      <3> QED BY <3>1
    <2>2. CASE a < b /\ tape[mid(a, b)].at > cursor
      <3>1. PICK m \in 1 .. n : m = mid(a, b) /\ m - 1 \in 1 .. n /\ a <= m - 1 /\ m <= b
        BY <1>3, <2>2
      <3>2. F(a, b) = F(a, m - 1)
        BY <1>2, <2>2, <3>1
      <3>3. \A i \in 1 .. n : i > m - 1 => tape[i].at > cursor
        <4> SUFFICES ASSUME NEW i \in 1 .. n, i > m - 1 PROVE tape[i].at > cursor
          OBVIOUS
        <4>1. i = m \/ tape[m].at <= tape[i].at
          OBVIOUS
        <4> QED BY <1>1, <2>2, <3>1, <4>1
      <3>4. Around(a, m - 1) /\ (m - 1) - a <= k
        BY <2>0, <3>1, <3>3
      <3> QED BY <2>0, <3>1, <3>2, <3>4
    <2>3. CASE a < b /\ tape[mid(a, b)].at <= cursor
      <3>1. PICK m \in 1 .. n : m = mid(a, b) /\ a <= m - 1 /\ m <= b
        BY <1>3, <2>3
      <3>2. F(a, b) = F(m, b)
        BY <1>1, <1>2, <2>3, <3>1
      <3>3. Around(m, b) /\ b - m <= k
        BY <2>0, <2>3, <3>1
      <3> QED BY <2>0, <3>1, <3>2, <3>3
    <2>4. a >= b \/ (a < b /\ tape[mid(a, b)].at > cursor)
                 \/ (a < b /\ tape[mid(a, b)].at <= cursor)
      <3> HIDE DEF Around, Good, T
      <3>1. CASE a < b
        <4>1. mid(a, b) \in 1 .. n
          BY <1>3, <3>1
        <4>2. tape[mid(a, b)].at \in Int
          BY <1>1, <4>1
        <4> QED BY <4>2
      <3> QED BY <3>1
    <2> HIDE DEF Good
    <2> QED BY <2>1, <2>2, <2>3, <2>4
  <1>6. n \in T
    <2> HIDE DEF T
    <2>1. T \in SUBSET Nat
      BY DEF T
    <2> QED BY <1>1, <1>4, <1>5, <2>1, NatInd
  <1>7. 1 \in 1 .. n /\ n \in 1 .. n /\ Around(1, n) /\ n - 1 <= n
    BY <1>1
  <1>8. Good(F(1, n))
    BY <1>6, <1>7
  <1> QED BY <1>8 DEF Found, F

-----------------------------------------------------------------------------
(* Configurations.                                                          *)

CfgOK == kind # None => cfg \in [Fields(kind) -> Int] /\ Valid(kind, cfg)

\* An adjustment keeps every field an integer, those of the envelope inside it
\* and the others as they were.
LEMMA AdjustedStays ==
    ASSUME NEW S, cfg \in [S -> Int],
           NEW envelope, \A k \in DOMAIN envelope :
               /\ envelope[k].lo \in Int /\ envelope[k].hi \in Int
               /\ envelope[k].lo <= envelope[k].hi,
           NEW adj \in Adjustments, NEW known, NEW landed \in Landings(adj, known)
    PROVE  LET c == Adjusted(adj, landed, envelope)
           IN  /\ c \in [S -> Int]
               /\ \A k \in DOMAIN envelope \cap S :
                    \/ c[k] = cfg[k]
                    \/ c[k] \in envelope[k].lo .. envelope[k].hi
               /\ \A k \in S \ DOMAIN envelope : c[k] = cfg[k]
  <1>1. \A k \in landed : adj[k] \in Int
    BY AdjustmentsAssumption DEF Landings, BadKeys
  <1>2. \A k \in landed \cap DOMAIN envelope :
            Clamp(adj[k], envelope[k]) \in envelope[k].lo .. envelope[k].hi
    BY <1>1 DEF Clamp
  <1> QED BY <1>2 DEF Adjusted

\* The same, for the three readings of Landings and Adjusted in the kinds.
LEMMA AdjustmentsInKinds ==
    ASSUME NEW adj, NEW landed, NEW envelope, NEW known
    PROVE  /\ M!Adjusted(adj, landed, envelope) = Adjusted(adj, landed, envelope)
           /\ L!Adjusted(adj, landed, envelope) = Adjusted(adj, landed, envelope)
           /\ C!Adjusted(adj, landed, envelope) = Adjusted(adj, landed, envelope)
           /\ H!Adjusted(adj, landed, envelope) = Adjusted(adj, landed, envelope)
           /\ M!Landings(adj, known) = Landings(adj, known)
           /\ L!Landings(adj, known) = Landings(adj, known)
           /\ C!Landings(adj, known) = Landings(adj, known)
           /\ H!Landings(adj, known) = Landings(adj, known)
  BY DEF M!Adjusted, L!Adjusted, C!Adjusted, H!Adjusted, Adjusted,
         M!Clamp, L!Clamp, C!Clamp, H!Clamp, Clamp,
         M!Landings, L!Landings, C!Landings, H!Landings, Landings,
         M!BadKeys, L!BadKeys, C!BadKeys, H!BadKeys, BadKeys

\* Defaults fill in numbers.
LEMMA DefaultsAreInts ==
    ASSUME NEW name \in Registered, NEW raw \in [Fields(name) -> Int]
    PROVE  ApplyDefaults(raw, Defaults(name)) \in [Fields(name) -> Int]
  <1>1. \A k \in DOMAIN Defaults(name) : Defaults(name)[k] \in Int
    BY IntervalAssumption
    DEF Registered, Defaults, M!MomDefaults, L!LPDefaults, C!CCYDefaults, H!LHDefaults
  <1> QED BY <1>1 DEF ApplyDefaults

\* The ranges of the four envelopes, and the fields outside them.
LEMMA Ranges ==
    /\ \A k \in DOMAIN M!MomEnvelope : /\ M!MomEnvelope[k].lo \in Int /\ M!MomEnvelope[k].hi \in Int
                                       /\ M!MomEnvelope[k].lo <= M!MomEnvelope[k].hi
    /\ \A k \in DOMAIN L!LPEnvelope : /\ L!LPEnvelope[k].lo \in Int /\ L!LPEnvelope[k].hi \in Int
                                      /\ L!LPEnvelope[k].lo <= L!LPEnvelope[k].hi
    /\ \A k \in DOMAIN C!CCYEnvelope : /\ C!CCYEnvelope[k].lo \in Int /\ C!CCYEnvelope[k].hi \in Int
                                       /\ C!CCYEnvelope[k].lo <= C!CCYEnvelope[k].hi
    /\ \A k \in DOMAIN H!LHEnvelope : /\ H!LHEnvelope[k].lo \in Int /\ H!LHEnvelope[k].hi \in Int
                                      /\ H!LHEnvelope[k].lo <= H!LHEnvelope[k].hi
  <1>1. \A k \in DOMAIN M!MomEnvelope : /\ M!MomEnvelope[k].lo \in Int /\ M!MomEnvelope[k].hi \in Int
                                        /\ M!MomEnvelope[k].lo <= M!MomEnvelope[k].hi
    BY IntervalAssumption DEF M!MomEnvelope
  <1>2. \A k \in DOMAIN L!LPEnvelope : /\ L!LPEnvelope[k].lo \in Int /\ L!LPEnvelope[k].hi \in Int
                                       /\ L!LPEnvelope[k].lo <= L!LPEnvelope[k].hi
    BY IntervalAssumption DEF L!LPEnvelope
  <1>3. \A k \in DOMAIN C!CCYEnvelope : /\ C!CCYEnvelope[k].lo \in Int /\ C!CCYEnvelope[k].hi \in Int
                                        /\ C!CCYEnvelope[k].lo <= C!CCYEnvelope[k].hi
    BY IntervalAssumption DEF C!CCYEnvelope
  <1>4. \A k \in DOMAIN H!LHEnvelope : /\ H!LHEnvelope[k].lo \in Int /\ H!LHEnvelope[k].hi \in Int
                                       /\ H!LHEnvelope[k].lo <= H!LHEnvelope[k].hi
    BY IntervalAssumption DEF H!LHEnvelope
  <1> QED BY <1>1, <1>2, <1>3, <1>4

\* The fields of a kind are those of its envelope and a few that no
\* adjustment reaches.
LEMMA FieldsOfKinds ==
    /\ Fields("momentum") = {"named", "minCapital"} \cup DOMAIN M!MomEnvelope
    /\ Fields("liquidity_provision") = {"named", "minCapital"} \cup DOMAIN L!LPEnvelope
    /\ Fields("cross_chain_yield") = {"named", "minCapital"} \cup DOMAIN C!CCYEnvelope
    /\ Fields("liquidation_hunting") = {"named", "minCapital", "maxSize"} \cup DOMAIN H!LHEnvelope
    /\ {"named", "minCapital"} \cap DOMAIN M!MomEnvelope = {}
    /\ {"named", "minCapital"} \cap DOMAIN L!LPEnvelope = {}
    /\ {"named", "minCapital"} \cap DOMAIN C!CCYEnvelope = {}
    /\ {"named", "minCapital", "maxSize"} \cap DOMAIN H!LHEnvelope = {}
  <1>1. Fields("momentum") = {"named", "minCapital"} \cup DOMAIN M!MomEnvelope
    BY DEF Fields
  <1>2. Fields("liquidity_provision") = {"named", "minCapital"} \cup DOMAIN L!LPEnvelope
    BY DEF Fields
  <1>3. Fields("cross_chain_yield") = {"named", "minCapital"} \cup DOMAIN C!CCYEnvelope
    BY DEF Fields
  <1>4. Fields("liquidation_hunting") = {"named", "minCapital", "maxSize"} \cup DOMAIN H!LHEnvelope
    BY DEF Fields
  <1>5. /\ {"named", "minCapital"} \cap DOMAIN M!MomEnvelope = {}
        /\ {"named", "minCapital"} \cap DOMAIN L!LPEnvelope = {}
    BY DEF M!MomEnvelope, L!LPEnvelope
  <1>6. /\ {"named", "minCapital"} \cap DOMAIN C!CCYEnvelope = {}
        /\ {"named", "minCapital", "maxSize"} \cap DOMAIN H!LHEnvelope = {}
    BY DEF C!CCYEnvelope, H!LHEnvelope
  <1> QED BY <1>1, <1>2, <1>3, <1>4, <1>5, <1>6

\* What a valid configuration bounds.
LEMMA ValidFields ==
    ASSUME kind # None, CfgOK, kind \in Registered
    PROVE  /\ cfg.minCapital \in Int
           /\ cfg.interval \in Int /\ 1 <= cfg.interval /\ cfg.interval <= MaxInterval
           /\ kind = "momentum" =>
                /\ cfg.maxPos \in Int /\ 10 <= cfg.maxPos /\ cfg.maxPos <= 1000
                /\ cfg.maxDaily \in Int /\ cfg.stop \in Int
           /\ kind = "cross_chain_yield" =>
                cfg.cap \in Int /\ 50 <= cfg.cap /\ cfg.cap <= 1000
           /\ kind = "liquidation_hunting" => cfg.maxDaily \in Int
  <1>1. CASE kind = "momentum"
    <2>1. cfg \in [Fields("momentum") -> Int] /\ M!MomValid(cfg)
      BY <1>1 DEF CfgOK, Valid
    <2>2. /\ "interval" \in DOMAIN M!MomEnvelope \ {"volume"}
          /\ M!MomEnvelope["interval"] = [lo |-> 1, hi |-> MaxInterval]
          /\ "maxPos" \in DOMAIN M!MomEnvelope \ {"volume"}
          /\ M!MomEnvelope["maxPos"] = [lo |-> 10, hi |-> 1000]
          /\ "maxDaily" \in DOMAIN M!MomEnvelope /\ "stop" \in DOMAIN M!MomEnvelope
      BY DEF M!MomEnvelope
    <2>3. cfg["minCapital"] \in Int /\ cfg["interval"] \in Int /\ cfg["maxPos"] \in Int
          /\ cfg["maxDaily"] \in Int /\ cfg["stop"] \in Int
      BY <2>1, <2>2, FieldsOfKinds
    <2>4. cfg["interval"] \in 1 .. MaxInterval /\ cfg["maxPos"] \in 10 .. 1000
      BY <2>1, <2>2, SMTT(20) DEF M!MomValid, M!Validate
    <2> QED BY <1>1, <2>3, <2>4, IntervalAssumption
  <1>2. CASE kind = "liquidity_provision"
    <2>1. cfg \in [Fields("liquidity_provision") -> Int] /\ L!LPValid(cfg)
      BY <1>2 DEF CfgOK, Valid
    <2>2. /\ "interval" \in DOMAIN L!LPEnvelope
          /\ L!LPEnvelope["interval"] = [lo |-> 1, hi |-> MaxInterval]
      BY DEF L!LPEnvelope
    <2>3. cfg["minCapital"] \in Int /\ cfg["interval"] \in Int
      BY <2>1, <2>2, FieldsOfKinds
    <2>4. cfg["interval"] \in 1 .. MaxInterval
      BY <2>1, <2>2 DEF L!LPValid, L!Validate
    <2> QED BY <1>2, <2>3, <2>4, IntervalAssumption
  <1>3. CASE kind = "cross_chain_yield"
    <2>1. cfg \in [Fields("cross_chain_yield") -> Int] /\ C!CCYValid(cfg)
      BY <1>3 DEF CfgOK, Valid
    <2>2. /\ "interval" \in DOMAIN C!CCYEnvelope
          /\ C!CCYEnvelope["interval"] = [lo |-> 1, hi |-> MaxInterval]
          /\ "cap" \in DOMAIN C!CCYEnvelope
          /\ C!CCYEnvelope["cap"] = [lo |-> 50, hi |-> 1000]
      BY DEF C!CCYEnvelope
    <2>3. cfg["minCapital"] \in Int /\ cfg["interval"] \in Int /\ cfg["cap"] \in Int
      BY <2>1, <2>2, FieldsOfKinds
    <2>4. cfg["interval"] \in 1 .. MaxInterval /\ cfg["cap"] \in 50 .. 1000
      BY <2>1, <2>2, SMTT(20) DEF C!CCYValid, C!Validate
    <2> QED BY <1>3, <2>3, <2>4, IntervalAssumption
  <1>4. CASE kind = "liquidation_hunting"
    <2>1. cfg \in [Fields("liquidation_hunting") -> Int] /\ H!LHValid(cfg)
      BY <1>4 DEF CfgOK, Valid
    <2>2. /\ "interval" \in DOMAIN H!LHEnvelope
          /\ H!LHEnvelope["interval"] = [lo |-> 1, hi |-> MaxInterval]
          /\ "maxDaily" \in DOMAIN H!LHEnvelope
      BY DEF H!LHEnvelope
    <2>3. cfg["minCapital"] \in Int /\ cfg["interval"] \in Int /\ cfg["maxDaily"] \in Int
      BY <2>1, <2>2, FieldsOfKinds
    <2>4. cfg["interval"] \in 1 .. MaxInterval
      BY <2>1, <2>2 DEF H!LHValid, H!Validate
    <2> QED BY <1>4, <2>3, <2>4, IntervalAssumption
  <1> QED BY <1>1, <1>2, <1>3, <1>4 DEF Registered

\* The adjustments of each kind keep its configuration valid.
LEMMA AdjustmentKeeps ==
    ASSUME kind # None, CfgOK, NEW adj \in Adjustments
    PROVE  /\ kind = "momentum" /\ M!MomApplyAdjustments(adj) =>
                cfg' \in [Fields(kind) -> Int] /\ Valid(kind, cfg')
           /\ kind = "liquidity_provision" /\ L!LPApplyAdjustments(adj) =>
                cfg' \in [Fields(kind) -> Int] /\ Valid(kind, cfg')
           /\ kind = "cross_chain_yield" /\ C!CCYApplyAdjustments(adj) =>
                cfg' \in [Fields(kind) -> Int] /\ Valid(kind, cfg')
           /\ kind = "liquidation_hunting" /\ H!LHApplyAdjustments(adj) =>
                cfg' \in [Fields(kind) -> Int] /\ Valid(kind, cfg')
  <1>1. CASE kind = "momentum" /\ M!MomApplyAdjustments(adj)
    <2> DEFINE E == M!MomEnvelope
    <2>1. PICK landed \in Landings(adj, DOMAIN E) : cfg' = Adjusted(adj, landed, E)
      BY <1>1, AdjustmentsInKinds DEF M!MomApplyAdjustments
    <2>2. cfg \in [Fields("momentum") -> Int] /\ M!MomValid(cfg)
      BY <1>1 DEF CfgOK, Valid
    <2> HIDE DEF E
    <2>3. /\ cfg' \in [Fields("momentum") -> Int]
          /\ \A k \in DOMAIN E \cap Fields("momentum") :
                cfg'[k] = cfg[k] \/ cfg'[k] \in E[k].lo .. E[k].hi
          /\ \A k \in Fields("momentum") \ DOMAIN E : cfg'[k] = cfg[k]
      BY <2>1, <2>2, AdjustedStays, Ranges DEF E
    <2>4. cfg'["named"] = cfg["named"] /\ cfg'["minCapital"] = cfg["minCapital"]
      BY <2>3, FieldsOfKinds DEF E
    <2>5. \A k \in DOMAIN E \ {"volume"} : cfg'[k] \in E[k].lo .. E[k].hi
      BY <2>2, <2>3, FieldsOfKinds DEF E, M!MomValid, M!Validate
    <2>6. M!MomValid(cfg')
      BY <2>2, <2>4, <2>5 DEF E, M!MomValid, M!Validate
    <2> QED BY <1>1, <2>3, <2>6 DEF Valid
  <1>2. CASE kind = "liquidity_provision" /\ L!LPApplyAdjustments(adj)
    <2> DEFINE E == L!LPEnvelope
    <2>1. PICK landed \in Landings(adj, DOMAIN E \cup {"pull"}) : cfg' = Adjusted(adj, landed, E)
      BY <1>2, AdjustmentsInKinds DEF L!LPApplyAdjustments
    <2>2. cfg \in [Fields("liquidity_provision") -> Int] /\ L!LPValid(cfg)
      BY <1>2 DEF CfgOK, Valid
    <2> HIDE DEF E
    <2>3. /\ cfg' \in [Fields("liquidity_provision") -> Int]
          /\ \A k \in DOMAIN E \cap Fields("liquidity_provision") :
                cfg'[k] = cfg[k] \/ cfg'[k] \in E[k].lo .. E[k].hi
          /\ \A k \in Fields("liquidity_provision") \ DOMAIN E : cfg'[k] = cfg[k]
      BY <2>1, <2>2, AdjustedStays, Ranges DEF E
    <2>4. cfg'["named"] = cfg["named"]
      BY <2>3, FieldsOfKinds DEF E
    <2>5. \A k \in DOMAIN E : cfg'[k] \in E[k].lo .. E[k].hi
      BY <2>2, <2>3, FieldsOfKinds DEF E, L!LPValid, L!Validate
    <2>6. L!LPValid(cfg')
      BY <2>2, <2>4, <2>5 DEF E, L!LPValid, L!Validate
    <2> QED BY <1>2, <2>3, <2>6 DEF Valid
  <1>3. CASE kind = "cross_chain_yield" /\ C!CCYApplyAdjustments(adj)
    <2> DEFINE E == C!CCYEnvelope
    <2>1. PICK landed \in Landings(adj, DOMAIN E) : cfg' = Adjusted(adj, landed, E)
      BY <1>3, AdjustmentsInKinds DEF C!CCYApplyAdjustments
    <2>2. cfg \in [Fields("cross_chain_yield") -> Int] /\ C!CCYValid(cfg)
      BY <1>3 DEF CfgOK, Valid
    <2> HIDE DEF E
    <2>3. /\ cfg' \in [Fields("cross_chain_yield") -> Int]
          /\ \A k \in DOMAIN E \cap Fields("cross_chain_yield") :
                cfg'[k] = cfg[k] \/ cfg'[k] \in E[k].lo .. E[k].hi
          /\ \A k \in Fields("cross_chain_yield") \ DOMAIN E : cfg'[k] = cfg[k]
      BY <2>1, <2>2, AdjustedStays, Ranges DEF E
    <2>4. cfg'["named"] = cfg["named"]
      BY <2>3, FieldsOfKinds DEF E
    <2>5. \A k \in DOMAIN E : cfg'[k] \in E[k].lo .. E[k].hi
      BY <2>2, <2>3, FieldsOfKinds DEF E, C!CCYValid, C!Validate
    <2>6. C!CCYValid(cfg')
      BY <2>2, <2>4, <2>5 DEF E, C!CCYValid, C!Validate
    <2> QED BY <1>3, <2>3, <2>6 DEF Valid
  <1>4. CASE kind = "liquidation_hunting" /\ H!LHApplyAdjustments(adj)
    <2> DEFINE E == H!LHEnvelope
    <2>1. PICK landed \in Landings(adj, DOMAIN E) : cfg' = Adjusted(adj, landed, E)
      BY <1>4, AdjustmentsInKinds DEF H!LHApplyAdjustments
    <2>2. cfg \in [Fields("liquidation_hunting") -> Int] /\ H!LHValid(cfg)
      BY <1>4 DEF CfgOK, Valid
    <2> HIDE DEF E
    <2>3. /\ cfg' \in [Fields("liquidation_hunting") -> Int]
          /\ \A k \in DOMAIN E \cap Fields("liquidation_hunting") :
                cfg'[k] = cfg[k] \/ cfg'[k] \in E[k].lo .. E[k].hi
          /\ \A k \in Fields("liquidation_hunting") \ DOMAIN E : cfg'[k] = cfg[k]
      BY <2>1, <2>2, AdjustedStays, Ranges DEF E
    <2>4. /\ cfg'["named"] = cfg["named"] /\ cfg'["minCapital"] = cfg["minCapital"]
          /\ cfg'["maxSize"] = cfg["maxSize"]
      BY <2>3, FieldsOfKinds DEF E
    <2>5. \A k \in DOMAIN E : cfg'[k] \in E[k].lo .. E[k].hi
      BY <2>2, <2>3, FieldsOfKinds DEF E, H!LHValid, H!Validate
    <2>6. H!LHValid(cfg')
      BY <2>2, <2>4, <2>5 DEF E, H!LHValid, H!Validate
    <2> QED BY <1>4, <2>3, <2>6 DEF Valid
  <1> QED BY <1>1, <1>2, <1>3, <1>4

-----------------------------------------------------------------------------
(* The engine, and what its steps are to the task.                          *)

EngineOK ==
    /\ kind \in Registered \cup {None}
    /\ phase \in {"tick", "advance"} => kind = "momentum"
    /\ cursor \in Nat
    /\ tape \in Seq(Rows)
    /\ \A i, j \in 1 .. Len(tape) : i < j => tape[i].at <= tape[j].at

MomStep ==
    \/ M!MomTickFails \/ M!MomTickEarly \/ M!MomCloseAll \/ M!MomClock \/ M!MomMidnight
    \/ \E price \in Nat \ {0} : M!MomTick(price)
    \/ \E adj \in Adjustments : M!MomApplyAdjustments(adj)

BuildStep == \E name \in Registered : \E raws \in SUBSET [Fields(name) -> Int] : Build(name, raws)

MomentumStep == kind = "momentum" /\ MomStep /\ UNCHANGED otherVars

TaskStep ==
    \/ BuildStep \/ MomentumStep
    \/ AsLiquidityProvision \/ AsCrossChainYield \/ AsLiquidationHunting

\* A tick of the replay sees the price of a row.
LEMMA QuotedPositive ==
    ASSUME EngineOK, tape # <<>>
    PROVE  QuotedPrice \in Nat \ {0}
  <1>1. Found \in 1 .. Len(tape) /\ 1 \in 1 .. Len(tape)
    <2>1. Found \in 1 .. Len(tape)
      BY SearchFinds DEF EngineOK
    <2>2. Len(tape) \in Nat
      BY LenProperties DEF EngineOK
    <2> QED BY <2>1, <2>2
  <1>2. \A i \in 1 .. Len(tape) : tape[i].price \in Nat \ {0}
    <2>1. \A i \in 1 .. Len(tape) : tape[i] \in Rows
      BY ElementOfSeq DEF EngineOK
    <2> QED BY <2>1 DEF Rows
  <1> QED BY <1>1, <1>2, PriceIsFound DEF QuotedPrice

\* Every step of the system is a step of the task, or leaves it alone.
LEMMA StepIsTaskStep ==
    ASSUME EngineOK, BacktestNext
    PROVE  TaskStep \/ UNCHANGED vars
  <1>1. CASE Live
    <2>1. Next
      BY <1>1 DEF Live
    <2>2. CASE \E name \in Registered : Build(name, RawConfigs[name])
      <3>1. PICK name \in Registered : Build(name, RawConfigs[name])
        BY <2>2
      <3>2. RawConfigs[name] \in SUBSET [Fields(name) -> Int]
        BY ConfigsAssumption
      <3> QED BY <3>1, <3>2 DEF TaskStep, BuildStep
    <2>3. CASE AsMomentum
      <3>1. kind = "momentum" /\ M!MomNext /\ UNCHANGED otherVars
        BY <2>3 DEF AsMomentum, otherVars
      <3>2. MomStep
        BY <3>1, QuotesAssumption DEF M!MomNext, MomStep
      <3> QED BY <3>1, <3>2 DEF TaskStep, MomentumStep
    <2> QED BY <2>1, <2>2, <2>3 DEF Next, TaskStep
  <1>2. CASE BuildCandidate
    <2>1. "momentum" \in Registered /\ Candidates \in SUBSET [Fields("momentum") -> Int]
      BY CandidatesAssumption DEF Registered
    <2> QED BY <1>2, <2>1 DEF BuildCandidate, TaskStep, BuildStep
  <1>3. CASE ReplayTick
    <2>1. /\ kind = "momentum" /\ UNCHANGED otherVars
          /\ M!MomTick(QuotedPrice) \/ M!MomTickEarly
      BY <1>3 DEF ReplayTick, EngineOK
    <2>2. QuotedPrice \in Nat \ {0}
      BY <1>3, QuotedPositive DEF ReplayTick
    <2> QED BY <2>1, <2>2 DEF TaskStep, MomentumStep, MomStep
  <1>4. CASE ReplayFails
    BY <1>4 DEF ReplayFails, EngineOK, TaskStep, MomentumStep, MomStep
  <1>5. CASE Advance
    BY <1>5 DEF Advance, EngineOK, TaskStep, MomentumStep, MomStep
  <1>6. CASE ReplayMidnight
    BY <1>6 DEF ReplayMidnight, EngineOK, TaskStep, MomentumStep, MomStep
  <1>7. CASE BuilderFails \/ Finish
    BY <1>7 DEF BuilderFails, Finish
  <1> QED BY <1>1, <1>2, <1>3, <1>4, <1>5, <1>6, <1>7 DEF BacktestNext

\* The tape is a sorted recording and stays what it is; the engine ticks a
\* momentum task only.
LEMMA EngineSafe == BacktestSpec => []EngineOK
  <1>1. BacktestInit => EngineOK
    <2> SUFFICES ASSUME BacktestInit PROVE EngineOK
      OBVIOUS
    <2>1. kind = None /\ phase \in {"build", "live"} /\ cursor = 0
      BY DEF BacktestInit, Init
    <2>2. CASE tape = <<>>
      <3>1. tape \in Seq(Rows) /\ Len(tape) = 0
        BY <2>2
      <3> QED BY <2>1, <3>1 DEF EngineOK
    <2>3. CASE \E rows \in PriceRows : tape = Sorted(rows)
      <3>1. PICK rows \in PriceRows : tape = Sorted(rows)
        BY <2>3
      <3>2. rows \in Seq(Rows)
        BY RowsAssumption DEF Rows
      <3>3. /\ tape \in Seq(Rows)
            /\ \A i, j \in 1 .. Len(tape) : i < j => tape[i].at <= tape[j].at
        BY <3>1, <3>2, SortedRows
      <3> QED BY <2>1, <3>3 DEF EngineOK
    <2> QED BY <2>2, <2>3 DEF BacktestInit
  <1>2. EngineOK /\ [BacktestNext]_<<vars, backtestVars>> => EngineOK'
    <2> SUFFICES ASSUME EngineOK, [BacktestNext]_<<vars, backtestVars>> PROVE EngineOK'
      OBVIOUS
    <2>1. tape' = tape
      BY DEF BacktestNext, Live, BuildCandidate, BuilderFails, ReplayTick, ReplayFails,
             Advance, ReplayMidnight, Finish, backtestVars
    <2>2. cursor' \in Nat
      BY DEF EngineOK, BacktestNext, Live, BuildCandidate, BuilderFails, ReplayTick,
             ReplayFails, Advance, ReplayMidnight, Finish, backtestVars
    <2>3. kind' \in Registered \cup {None} /\ (kind = "momentum" => kind' = kind)
      <3>1. CASE BacktestNext
        <4>1. CASE BuildStep
          <5>1. None # "momentum"
            BY NoneAssumption DEF Registered
          <5> QED BY <4>1, <5>1 DEF BuildStep, Build
        <4>2. CASE MomentumStep
          BY <4>2 DEF MomentumStep, otherVars, EngineOK
        <4>3. CASE AsLiquidityProvision \/ AsCrossChainYield \/ AsLiquidationHunting
          BY <4>3 DEF AsLiquidityProvision, AsCrossChainYield, AsLiquidationHunting, EngineOK
        <4>4. CASE UNCHANGED vars
          BY <4>4 DEF vars, EngineOK
        <4> QED BY <3>1, <4>1, <4>2, <4>3, <4>4, StepIsTaskStep DEF TaskStep
      <3>2. CASE UNCHANGED <<vars, backtestVars>>
        BY <3>2 DEF vars, EngineOK
      <3> QED BY <3>1, <3>2
    <2>4. phase' \in {"tick", "advance"} => kind' = "momentum"
      <3>1. CASE BuildCandidate
        BY <3>1 DEF BuildCandidate, Build
      <3>2. CASE phase' \in {"tick", "advance"} /\ ~BuildCandidate
        <4>1. phase \in {"tick", "advance"}
          BY <3>2 DEF BacktestNext, Live, BuilderFails, ReplayTick, ReplayFails,
                      Advance, ReplayMidnight, Finish, backtestVars
        <4> QED BY <2>3, <4>1 DEF EngineOK
      <3> QED BY <3>1, <3>2
    <2> QED BY <2>1, <2>2, <2>3, <2>4 DEF EngineOK
  <1> QED BY <1>1, <1>2, PTL DEF BacktestSpec

\* The configuration of a task that was built is valid for ever, and the time
\* since its last check is a time.
ConfigOK == CfgOK /\ checkAge \in 0 .. MaxInterval

\* No step leads out of the valid configurations.
LEMMA ConfigSafe == BacktestSpec => []ConfigOK
  <1>1. BacktestInit => ConfigOK
    BY IntervalAssumption DEF BacktestInit, Init, ConfigOK, CfgOK
  <1>2. EngineOK /\ ConfigOK /\ [BacktestNext]_<<vars, backtestVars>> => ConfigOK'
    <2> SUFFICES ASSUME EngineOK, ConfigOK, [BacktestNext]_<<vars, backtestVars>>
                 PROVE  ConfigOK'
      OBVIOUS
    <2>0. checkAge \in 0 .. MaxInterval /\ Older(checkAge) \in 0 .. MaxInterval /\ 0 \in 0 .. MaxInterval
      BY IntervalAssumption DEF ConfigOK, Older
    <2>1. CASE BuildStep
      <3>0. PICK name \in Registered :
                \E raws \in SUBSET [Fields(name) -> Int] : Build(name, raws)
        BY <2>1 DEF BuildStep
      <3>1. PICK raws \in SUBSET [Fields(name) -> Int] : Build(name, raws)
        BY <3>0
      <3>2. PICK raw \in raws : /\ Valid(name, ApplyDefaults(raw, Defaults(name)))
                                /\ cfg' = ApplyDefaults(raw, Defaults(name))
        BY <3>1 DEF Build
      <3>3. cfg' \in [Fields(name) -> Int]
        BY <3>2, DefaultsAreInts
      <3>4. kind' = name /\ checkAge' = checkAge
        BY <3>1 DEF Build
      <3> QED BY <2>0, <3>2, <3>3, <3>4 DEF ConfigOK, CfgOK
    <2>2. ASSUME kind # None, kind' = kind, checkAge' \in 0 .. MaxInterval,
                 cfg' = cfg \/ (cfg' \in [Fields(kind) -> Int] /\ Valid(kind, cfg'))
          PROVE  ConfigOK'
      BY <2>2 DEF ConfigOK, CfgOK
    <2>8. \A name \in Registered : name # None
      BY NoneAssumption
    <2>3. CASE MomentumStep
      <3>1. kind # None /\ kind' = kind
        BY <2>3, <2>8 DEF MomentumStep, otherVars, Registered
      <3>2. CASE \E adj \in Adjustments : M!MomApplyAdjustments(adj)
        <4>1. checkAge' = checkAge
          BY <3>2 DEF M!MomApplyAdjustments
        <4>2. cfg' \in [Fields(kind) -> Int] /\ Valid(kind, cfg')
          BY <2>3, <3>1, <3>2, AdjustmentKeeps DEF ConfigOK, MomentumStep
        <4> QED BY <2>0, <2>2, <3>1, <4>1, <4>2
      <3>3. CASE \/ M!MomTickFails \/ M!MomTickEarly \/ M!MomCloseAll \/ M!MomClock
                 \/ M!MomMidnight \/ \E price \in Nat \ {0} : M!MomTick(price)
        <4>1. cfg' = cfg
          BY <3>3 DEF M!MomTickFails, M!MomTickEarly, M!MomCloseAll, M!MomClock,
                      M!MomMidnight, M!MomTick
        <4>2. checkAge' \in {0, checkAge, Older(checkAge)}
          BY <3>3 DEF M!MomTickFails, M!MomTickEarly, M!MomCloseAll, M!MomClock,
                      M!MomMidnight, M!MomTick, M!Older, Older
        <4> QED BY <2>0, <2>2, <3>1, <4>1, <4>2
      <3> QED BY <2>3, <3>2, <3>3 DEF MomentumStep, MomStep
    <2>4. CASE AsLiquidityProvision
      <3>1. kind # None /\ kind' = kind
        BY <2>4, <2>8 DEF AsLiquidityProvision, Registered
      <3>2. CASE \E adj \in Adjustments : L!LPApplyAdjustments(adj)
        <4>1. checkAge' = checkAge
          BY <3>2 DEF L!LPApplyAdjustments
        <4>2. cfg' \in [Fields(kind) -> Int] /\ Valid(kind, cfg')
          BY <2>4, <3>1, <3>2, AdjustmentKeeps DEF ConfigOK, AsLiquidityProvision
        <4> QED BY <2>0, <2>2, <3>1, <4>1, <4>2
      <3>3. CASE (\E root \in Roots : L!LPTick(root)) \/ L!LPTickIdle \/ L!LPCloseAll \/ L!LPClock
        <4>1. cfg' = cfg
          BY <3>3 DEF L!LPTick, L!LPTickIdle, L!LPCloseAll, L!LPClock
        <4>2. checkAge' \in {0, checkAge, Older(checkAge)}
          BY <3>3 DEF L!LPTick, L!LPTickIdle, L!LPCloseAll, L!LPClock, L!Older, Older
        <4> QED BY <2>0, <2>2, <3>1, <4>1, <4>2
      <3> QED BY <2>4, <3>2, <3>3 DEF AsLiquidityProvision, L!LPNext
    <2>5. CASE AsCrossChainYield
      <3>1. kind # None /\ kind' = kind
        BY <2>5, <2>8 DEF AsCrossChainYield, Registered
      <3>2. CASE \E adj \in Adjustments : C!CCYApplyAdjustments(adj)
        <4>1. checkAge' = checkAge
          BY <3>2 DEF C!CCYApplyAdjustments
        <4>2. cfg' \in [Fields(kind) -> Int] /\ Valid(kind, cfg')
          BY <2>5, <3>1, <3>2, AdjustmentKeeps DEF ConfigOK, AsCrossChainYield
        <4> QED BY <2>0, <2>2, <3>1, <4>1, <4>2
      <3>3. CASE (\E rates \in RateTables : C!CCYTick(rates) \/ C!CCYTickIdle(rates))
                 \/ C!CCYCloseAll \/ C!CCYClock
        <4>1. cfg' = cfg
          BY <3>3 DEF C!CCYTick, C!CCYTickIdle, C!CCYCloseAll, C!CCYClock
        <4>2. checkAge' \in {0, checkAge, Older(checkAge)}
          BY <3>3 DEF C!CCYTick, C!CCYTickIdle, C!CCYCloseAll, C!CCYClock, C!Older, Older
        <4> QED BY <2>0, <2>2, <3>1, <4>1, <4>2
      <3> QED BY <2>5, <3>2, <3>3 DEF AsCrossChainYield, C!CCYNext
    <2>6. CASE AsLiquidationHunting
      <3>1. kind # None /\ kind' = kind
        BY <2>6, <2>8 DEF AsLiquidationHunting, Registered
      <3>2. CASE \E adj \in Adjustments : H!LHApplyAdjustments(adj)
        <4>1. checkAge' = checkAge
          BY <3>2 DEF H!LHApplyAdjustments
        <4>2. cfg' \in [Fields(kind) -> Int] /\ Valid(kind, cfg')
          BY <2>6, <3>1, <3>2, AdjustmentKeeps DEF ConfigOK, AsLiquidationHunting
        <4> QED BY <2>0, <2>2, <3>1, <4>1, <4>2
      <3>3. CASE H!LHTick \/ H!ListProtocol \/ H!ListProtocolFails \/ H!SkipPosition
                 \/ H!Liquidate \/ H!LiquidateFails \/ H!LHReturn \/ H!LHClock \/ H!LHMidnight
        <4>1. cfg' = cfg
          BY <3>3 DEF H!LHTick, H!ListProtocol, H!ListProtocolFails, H!SkipPosition,
                      H!Liquidate, H!LiquidateFails, H!LHReturn, H!LHClock, H!LHMidnight
        <4>2. checkAge' \in {0, checkAge, Older(checkAge)}
          BY <3>3 DEF H!LHTick, H!ListProtocol, H!ListProtocolFails, H!SkipPosition,
                      H!Liquidate, H!LiquidateFails, H!LHReturn, H!LHClock, H!LHMidnight,
                      H!Older, Older
        <4> QED BY <2>0, <2>2, <3>1, <4>1, <4>2
      <3> QED BY <2>6, <3>2, <3>3 DEF AsLiquidationHunting, H!LHNext
    <2>7. CASE UNCHANGED vars
      BY <2>7 DEF vars, ConfigOK, CfgOK
    <2> QED BY <2>1, <2>3, <2>4, <2>5, <2>6, <2>7, StepIsTaskStep DEF TaskStep, vars
  <1> QED BY <1>1, <1>2, EngineSafe, PTL DEF BacktestSpec

-----------------------------------------------------------------------------
(* The daily quota.                                                         *)

TickOK ==
    /\ tick \in [proto : Nat, todo : Seq(Lendings), out : Nat, err : BOOLEAN]
    /\ tick # H!NoTick => dailyDate # NoDay

\* The count belongs to the last date a tick began on; nothing was done later.
CountOK ==
    /\ day \in 0 .. MaxDay /\ dailyTotal \in Nat /\ done \in [0 .. MaxDay -> Nat]
    /\ \/ dailyDate = NoDay /\ dailyTotal = 0 /\ \A d \in 0 .. MaxDay : done[d] = 0
       \/ /\ dailyDate \in 0 .. day /\ done[dailyDate] = dailyTotal
          /\ \A d \in 0 .. MaxDay : d > dailyDate => done[d] = 0

DailyOK == TickOK /\ CountOK

\* What a step may do to the date, the count and the record of what was done.
SameCount == UNCHANGED <<day, dailyDate, dailyTotal, done>>
TurnOver == dailyDate' = day /\ dailyTotal' = M!DailyBase /\ UNCHANGED <<day, done>>
CountEntry ==
    /\ M!DailyBase < cfg.maxDaily
    /\ dailyDate' = day /\ dailyTotal' = M!DailyBase + 1
    /\ done' = [done EXCEPT ![day] = @ + 1] /\ UNCHANGED day
CountSeizure ==
    /\ tick # H!NoTick /\ dailyTotal < cfg.maxDaily
    /\ dailyTotal' = dailyTotal + 1
    /\ done' = [done EXCEPT ![dailyDate] = @ + 1] /\ UNCHANGED <<day, dailyDate>>
Midnight == day < MaxDay /\ day' = day + 1 /\ UNCHANGED <<dailyDate, dailyTotal, done>>

CountStep == SameCount \/ TurnOver \/ CountEntry \/ CountSeizure \/ Midnight

\* Every step is one of these.
LEMMA StepCounts ==
    ASSUME TaskStep
    PROVE  CountStep
  <1>1. CASE BuildStep
    BY <1>1 DEF BuildStep, Build, CountStep, SameCount
  <1>2. CASE MomentumStep
    <2>1. CASE M!MomTickFails \/ M!MomTickEarly
      BY <2>1 DEF M!MomTickFails, M!MomTickEarly, M!MaybeResetDaily, CountStep, TurnOver
    <2>2. CASE M!MomCloseAll \/ M!MomClock \/ \E adj \in Adjustments : M!MomApplyAdjustments(adj)
      BY <2>2 DEF M!MomCloseAll, M!MomClock, M!MomApplyAdjustments, CountStep, SameCount
    <2>3. CASE M!MomMidnight
      BY <2>3 DEF M!MomMidnight, CountStep, Midnight
    <2>4. ASSUME NEW price, M!MomTick(price)
          PROVE  CountStep
      <3>1. day' = day
        BY <2>4 DEF M!MomTick
      <3>2. \/ M!MaybeResetDaily(M!DailyBase) /\ UNCHANGED done
            \/ M!CanEnter(M!PushSample(history, price), price) /\ M!Enter(price)
        BY <2>4 DEF M!MomTick
      <3> QED BY <3>1, <3>2 DEF M!MaybeResetDaily, M!CanEnter, M!Enter, CountStep, TurnOver, CountEntry
    <2> QED BY <1>2, <2>1, <2>2, <2>3, <2>4 DEF MomentumStep, MomStep
  <1>3. CASE AsLiquidityProvision \/ AsCrossChainYield
    BY <1>3 DEF AsLiquidityProvision, AsCrossChainYield, CountStep, SameCount
  <1>4. CASE AsLiquidationHunting
    <2>1. CASE H!LHTick
      BY <2>1 DEF H!LHTick, H!DailyBase, M!DailyBase, CountStep, TurnOver
    <2>2. CASE H!Liquidate
      <3>1. tick # H!NoTick
        BY <2>2 DEF H!Liquidate, H!NoTick
      <3> QED BY <2>2, <3>1 DEF H!Liquidate, CountStep, CountSeizure
    <2>3. CASE H!LHMidnight
      BY <2>3 DEF H!LHMidnight, CountStep, Midnight
    <2>4. CASE \/ H!ListProtocol \/ H!ListProtocolFails \/ H!SkipPosition
               \/ H!LiquidateFails \/ H!LHReturn \/ H!LHClock
               \/ \E adj \in Adjustments : H!LHApplyAdjustments(adj)
      BY <2>4 DEF H!ListProtocol, H!ListProtocolFails, H!SkipPosition, H!LiquidateFails,
                  H!LHReturn, H!LHClock, H!LHApplyAdjustments, CountStep, SameCount
    <2> QED BY <1>4, <2>1, <2>2, <2>3, <2>4 DEF AsLiquidationHunting, H!LHNext
  <1> QED BY <1>1, <1>2, <1>3, <1>4 DEF TaskStep

\* What the head of a tick starts from is what the date already has.
LEMMA BaseIsDone ==
    ASSUME CountOK
    PROVE  M!DailyBase = done[day] /\ M!DailyBase \in Nat
  BY DaysAssumption DEF CountOK, M!DailyBase

\* A step keeps the count right and stays within the quota.
LEMMA CountKept ==
    ASSUME DailyOK, CountStep, cfg.maxDaily \in Int \/ SameCount \/ TurnOver \/ Midnight
    PROVE  /\ CountOK'
           /\ \A d \in 0 .. MaxDay : done'[d] > done[d] => done'[d] <= cfg.maxDaily
  <1>0. CountOK /\ M!DailyBase = done[day] /\ M!DailyBase \in Nat
    BY BaseIsDone DEF DailyOK
  <1>1. CASE SameCount
    BY <1>0, <1>1 DEF SameCount, CountOK
  <1>2. CASE TurnOver
    BY <1>0, <1>2, DaysAssumption DEF TurnOver, CountOK
  <1>3. CASE CountEntry /\ cfg.maxDaily \in Int
    <2>1. done' \in [0 .. MaxDay -> Nat] /\ done'[day] = done[day] + 1
          /\ \A d \in 0 .. MaxDay : d # day => done'[d] = done[d]
      BY <1>0, <1>3 DEF CountEntry, CountOK
    <2>2. dailyDate' = day /\ dailyTotal' = done[day] + 1 /\ day' = day /\ done[day] < cfg.maxDaily
      BY <1>0, <1>3 DEF CountEntry
    <2>3. \A d \in 0 .. MaxDay : d > day => done[d] = 0
      BY <1>0, DaysAssumption DEF CountOK
    <2> QED BY <1>0, <1>3, <2>1, <2>2, <2>3 DEF CountOK
  <1>4. CASE CountSeizure /\ cfg.maxDaily \in Int
    <2>1. dailyDate \in 0 .. day /\ dailyDate \in 0 .. MaxDay
      <3>1. dailyDate # NoDay
        BY <1>4 DEF CountSeizure, DailyOK, TickOK
      <3> QED BY <1>0, <3>1, DaysAssumption DEF CountOK
    <2>2. done' \in [0 .. MaxDay -> Nat] /\ done'[dailyDate] = done[dailyDate] + 1
          /\ \A d \in 0 .. MaxDay : d # dailyDate => done'[d] = done[d]
      BY <1>0, <1>4, <2>1 DEF CountSeizure, CountOK
    <2> QED BY <1>0, <1>4, <2>1, <2>2, DaysAssumption DEF CountSeizure, CountOK
  <1>5. CASE Midnight
    BY <1>0, <1>5, DaysAssumption DEF Midnight, CountOK
  <1> QED BY <1>1, <1>2, <1>3, <1>4, <1>5 DEF CountStep

\* Only a momentum or a liquidation_hunting task counts anything.
LEMMA WhoCounts ==
    ASSUME TaskStep
    PROVE  SameCount \/ kind = "momentum" \/ kind = "liquidation_hunting"
  BY DEF TaskStep, BuildStep, Build, MomentumStep, AsLiquidityProvision, AsCrossChainYield,
         AsLiquidationHunting, SameCount

\* The tick in progress keeps its shape, and one is in progress only once a
\* date has been set.
LEMMA TickKept ==
    ASSUME TickOK, CountOK, TaskStep
    PROVE  TickOK'
  <1> DEFINE Shape == [proto : Nat, todo : Seq(Lendings), out : Nat, err : BOOLEAN]
  <1>0. tick \in Shape /\ H!NoTick \in Shape /\ day # NoDay
    <2>1. H!NoTick \in Shape
      <3>1. <<>> \in Seq(Lendings)
        OBVIOUS
      <3> QED BY <3>1 DEF H!NoTick
    <2>2. day # NoDay
      BY DaysAssumption DEF CountOK
    <2> QED BY <2>1, <2>2 DEF TickOK
  <1>1. CASE UNCHANGED <<tick, dailyDate>>
    BY <1>1 DEF TickOK
  <1>2. CASE tick' = tick /\ dailyDate' = day
    BY <1>0, <1>2 DEF TickOK
  <1>3. CASE BuildStep
    BY <1>1, <1>3 DEF BuildStep, Build
  <1>4. CASE MomentumStep
    <2>1. tick' = tick
      BY <1>4 DEF MomentumStep, otherVars
    <2>2. dailyDate' = dailyDate \/ dailyDate' = day
      BY <1>4 DEF MomentumStep, MomStep, M!MomTickFails, M!MomTickEarly, M!MomCloseAll,
                  M!MomClock, M!MomMidnight, M!MomTick, M!MomApplyAdjustments,
                  M!MaybeResetDaily, M!Enter
    <2> QED BY <1>1, <1>2, <2>1, <2>2
  <1>5. CASE AsLiquidityProvision \/ AsCrossChainYield
    BY <1>1, <1>5 DEF AsLiquidityProvision, AsCrossChainYield
  <1>6. CASE AsLiquidationHunting
    <2>1. CASE H!LHTick
      <3>1. dailyDate' = day /\ (tick' = H!NoTick \/ tick' = [H!NoTick EXCEPT !.proto = 1])
        BY <2>1 DEF H!LHTick
      <3>2. [H!NoTick EXCEPT !.proto = 1] \in Shape
        BY <1>0
      <3> QED BY <1>0, <3>1, <3>2 DEF TickOK
    <2>2. ASSUME tick # H!NoTick, dailyDate' = dailyDate, tick' \in Shape
          PROVE  TickOK'
      BY <2>2 DEF TickOK
    <2>3. ASSUME tick.todo # <<>> \/ tick.proto # 0
          PROVE  tick # H!NoTick
      BY <2>3 DEF H!NoTick
    <2>4. CASE H!ListProtocol
      <3>1. PICK n \in 0 .. MaxLendings : \E answer \in [1 .. n -> Lendings] :
                tick' = [H!Visit(tick.proto) EXCEPT !.todo = answer]
        BY <2>4 DEF H!ListProtocol
      <3>2. PICK answer \in [1 .. n -> Lendings] :
                tick' = [H!Visit(tick.proto) EXCEPT !.todo = answer]
        BY <3>1
      <3>3. answer \in Seq(Lendings)
        BY HuntingAssumption
      <3>4. H!Visit(tick.proto) \in Shape
        BY <1>0, SMTT(20) DEF H!Visit
      <3>5. tick' \in Shape
        BY <3>2, <3>3, <3>4
      <3>6. dailyDate' = dailyDate /\ tick.proto # 0
        BY <2>4, HuntingAssumption DEF H!ListProtocol
      <3> QED BY <2>2, <2>3, <3>5, <3>6
    <2>5. CASE H!ListProtocolFails
      <3>3. PICK v : v = H!Visit(tick.proto)
        OBVIOUS
      <3>4. v \in Shape
        BY <1>0, <3>3 DEF H!Visit
      <3>5. PICK e \in BOOLEAN : tick' = [v EXCEPT !.err = e]
        BY <2>5, <3>3 DEF H!ListProtocolFails
      <3>1. tick' \in Shape
        BY <3>4, <3>5
      <3>2. dailyDate' = dailyDate /\ tick.proto # 0
        BY <2>5, HuntingAssumption DEF H!ListProtocolFails
      <3> QED BY <2>2, <2>3, <3>1, <3>2
    <2>6. CASE H!SkipPosition \/ H!Liquidate \/ H!LiquidateFails
      <3>1. tick.todo # <<>> /\ dailyDate' = dailyDate
        BY <2>6 DEF H!SkipPosition, H!Liquidate, H!LiquidateFails
      <3>2. Tail(tick.todo) \in Seq(Lendings) /\ <<>> \in Seq(Lendings)
        BY <1>0, <3>1
      <3>3. \/ tick' = [tick EXCEPT !.todo = <<>>]
            \/ tick' = [tick EXCEPT !.todo = Tail(tick.todo)]
            \/ tick' = [tick EXCEPT !.todo = Tail(tick.todo), !.out = tick.out + 1]
            \/ \E e \in BOOLEAN : tick' = [tick EXCEPT !.todo = Tail(tick.todo), !.err = e]
        <4>1. CASE H!SkipPosition
          BY <1>0, <4>1 DEF H!SkipPosition
        <4>2. CASE H!Liquidate
          BY <1>0, <4>2 DEF H!Liquidate
        <4>3. CASE H!LiquidateFails
          <5>1. PICK b \in BOOLEAN : tick' = [tick EXCEPT !.todo = Tail(@), !.err = @ \/ b]
            BY <4>3 DEF H!LiquidateFails
          <5>2. (tick.err \/ b) \in BOOLEAN
            OBVIOUS
          <5> QED BY <5>1, <5>2
        <4> QED BY <2>6, <4>1, <4>2, <4>3
      <3>4. tick' \in Shape
        <4>1. ASSUME NEW e \in BOOLEAN PROVE [tick EXCEPT !.todo = Tail(tick.todo), !.err = e] \in Shape
          BY <1>0, <3>2
        <4>2. [tick EXCEPT !.todo = <<>>] \in Shape /\ [tick EXCEPT !.todo = Tail(tick.todo)] \in Shape
          BY <1>0, <3>2
        <4>3. [tick EXCEPT !.todo = Tail(tick.todo), !.out = tick.out + 1] \in Shape
          <5>1. PICK o \in Nat : o = tick.out + 1
            BY <1>0
          <5>2. [tick EXCEPT !.todo = Tail(tick.todo), !.out = o] \in Shape
            BY <1>0, <3>2
          <5> QED BY <5>1, <5>2
        <4> HIDE DEF Shape
        <4> QED BY <3>3, <4>1, <4>2, <4>3
      <3> QED BY <2>2, <2>3, <3>1, <3>4
    <2>7. CASE H!LHReturn
      BY <1>0, <2>7 DEF H!LHReturn, TickOK
    <2>8. CASE H!LHClock \/ H!LHMidnight \/ \E adj \in Adjustments : H!LHApplyAdjustments(adj)
      BY <1>1, <2>8 DEF H!LHClock, H!LHMidnight, H!LHApplyAdjustments
    <2> QED BY <1>6, <2>1, <2>4, <2>5, <2>6, <2>7, <2>8 DEF AsLiquidationHunting, H!LHNext
  <1> QED BY <1>3, <1>4, <1>5, <1>6 DEF TaskStep

\* The invariant of the daily count.
LEMMA DailySafe == BacktestSpec => []DailyOK
  <1>1. BacktestInit => DailyOK
    <2> SUFFICES ASSUME BacktestInit PROVE DailyOK
      OBVIOUS
    <2>1. tick = H!NoTick /\ M!MomInit
      BY DEF BacktestInit, Init
    <2>2. TickOK
      <3>1. <<>> \in Seq(Lendings)
        OBVIOUS
      <3> QED BY <2>1, <3>1 DEF TickOK, H!NoTick
    <2>3. CountOK
      BY <2>1, DaysAssumption DEF CountOK, M!MomInit
    <2> QED BY <2>2, <2>3 DEF DailyOK
  <1>2. EngineOK /\ ConfigOK /\ DailyOK /\ [BacktestNext]_<<vars, backtestVars>> => DailyOK'
    <2> SUFFICES ASSUME EngineOK, ConfigOK, DailyOK, [BacktestNext]_<<vars, backtestVars>>
                 PROVE  DailyOK'
      OBVIOUS
    <2>1. CASE TaskStep
      <3>1. CountStep /\ TickOK'
        BY <2>1, StepCounts, TickKept DEF DailyOK
      <3>2. CASE SameCount
        BY <3>1, <3>2, CountKept DEF DailyOK
      <3>3. CASE kind = "momentum" \/ kind = "liquidation_hunting"
        <4>1. kind # None /\ kind \in Registered
          BY <3>3, NoneAssumption DEF Registered
        <4>2. cfg.maxDaily \in Int
          BY <3>3, <4>1, ValidFields DEF ConfigOK
        <4> QED BY <3>1, <4>2, CountKept DEF DailyOK
      <3> QED BY <2>1, <3>2, <3>3, WhoCounts
    <2>2. CASE UNCHANGED vars
      BY <2>2 DEF vars, DailyOK, TickOK, CountOK
    <2> QED BY <2>1, <2>2, StepIsTaskStep DEF vars
  <1> QED BY <1>1, <1>2, EngineSafe, ConfigSafe, PTL DEF BacktestSpec

\* On no UTC date does a task enter or liquidate more often than the quota in
\* force allows, for every number of days, protocols and positions: RunTick's
\* maybeResetDailyLocked and the checks of the quota agree although midnight
\* may pass during a tick (QuotaPerDay; momentum.go:343-380 and 453-463,
\* liquidation_hunting.go:92-160 and 300-314).
THEOREM QuotaHolds == BacktestSpec => QuotaPerDay
  <1> DEFINE A == \A d \in 0 .. MaxDay : done'[d] > done[d] => done'[d] <= cfg.maxDaily
  <1>1. EngineOK /\ ConfigOK /\ DailyOK /\ [BacktestNext]_<<vars, backtestVars>> => [A]_vars
    <2> SUFFICES ASSUME EngineOK, ConfigOK, DailyOK, [BacktestNext]_<<vars, backtestVars>>,
                        ~UNCHANGED vars
                 PROVE  A
      OBVIOUS
    <2>1. TaskStep /\ CountStep
      BY StepIsTaskStep, StepCounts DEF vars
    <2>2. CASE SameCount
      BY <2>1, <2>2, CountKept
    <2>3. CASE kind = "momentum" \/ kind = "liquidation_hunting"
      <3>1. kind # None /\ kind \in Registered
        BY <2>3, NoneAssumption DEF Registered
      <3>2. cfg.maxDaily \in Int
        BY <2>3, <3>1, ValidFields DEF ConfigOK
      <3> QED BY <2>1, <3>2, CountKept
    <2> QED BY <2>1, <2>2, <2>3, WhoCounts
  <1> QED BY <1>1, EngineSafe, ConfigSafe, DailySafe, PTL DEF BacktestSpec, QuotaPerDay

-----------------------------------------------------------------------------
(* The trades of liquidation_hunting.                                       *)

ReportOK ==
    /\ reported \in Nat
    /\ kind \in {None, "liquidation_hunting"} => reported + tick.out = Total(done, 0 .. MaxDay)

\* The sum that SeizuresReported takes.
LEMMA DoneTotal ==
    H!MapThenSumSet(LAMBDA d : done[d], 0 .. MaxDay) = Total(done, 0 .. MaxDay)
  BY Zenon DEF H!MapThenSumSet, H!MapThenFoldSet, Pick, IsSum, Total

\* The days of a run are finitely many.
LEMMA DaysFinite == IsFiniteSet(0 .. MaxDay)
  BY DaysAssumption, FS_Interval, 0 \in Int, MaxDay \in Int

\* What a step of a liquidation_hunting task does to its trades.
LEMMA HuntingTrades ==
    ASSUME TickOK, reported \in Nat, AsLiquidationHunting
    PROVE  \/ CountSeizure /\ reported' + tick'.out = reported + tick.out + 1 /\ reported' \in Nat
           \/ done' = done /\ reported' + tick'.out = reported + tick.out /\ reported' \in Nat
  <1>0. tick \in [proto : Nat, todo : Seq(Lendings), out : Nat, err : BOOLEAN] /\ H!NoTick.out = 0
    BY DEF TickOK, H!NoTick
  <1>1. CASE H!LHTick
    <2>1. tick = H!NoTick /\ tick'.out = 0
      BY <1>1 DEF H!LHTick, H!Free, H!NoTick
    <2> QED BY <1>0, <1>1, <2>1 DEF H!LHTick
  <1>2. CASE H!ListProtocol
    <2>1. tick'.out = tick.out
      BY <1>0, <1>2 DEF H!ListProtocol, H!Visit
    <2> QED BY <1>0, <1>2, <2>1 DEF H!ListProtocol
  <1>3. CASE H!ListProtocolFails
    <2>1. tick'.out = tick.out
      BY <1>0, <1>3 DEF H!ListProtocolFails, H!Visit
    <2> QED BY <1>0, <1>3, <2>1 DEF H!ListProtocolFails
  <1>4. CASE H!SkipPosition
    <2>1. tick'.out = tick.out
      BY <1>0, <1>4 DEF H!SkipPosition
    <2> QED BY <1>0, <1>4, <2>1 DEF H!SkipPosition
  <1>5. CASE H!Liquidate
    <2>1. tick'.out = tick.out + 1
      BY <1>0, <1>5 DEF H!Liquidate
    <2>2. CountSeizure
      BY <1>5 DEF H!Liquidate, H!NoTick, CountSeizure
    <2> QED BY <1>0, <1>5, <2>1, <2>2 DEF H!Liquidate
  <1>6. CASE H!LiquidateFails
    <2>1. tick'.out = tick.out
      BY <1>0, <1>6 DEF H!LiquidateFails
    <2> QED BY <1>0, <1>6, <2>1 DEF H!LiquidateFails
  <1>7. CASE H!LHReturn
    <2>1. tick'.out = 0
      BY <1>0, <1>7 DEF H!LHReturn
    <2>2. reported' = reported + tick.out
      BY <1>0, <1>7 DEF H!LHReturn
    <2> QED BY <1>0, <1>7, <2>1, <2>2 DEF H!LHReturn
  <1>8. CASE H!LHClock \/ H!LHMidnight \/ \E adj \in Adjustments : H!LHApplyAdjustments(adj)
    BY <1>8 DEF H!LHClock, H!LHMidnight, H!LHApplyAdjustments
  <1> QED BY <1>1, <1>2, <1>3, <1>4, <1>5, <1>6, <1>7, <1>8 DEF AsLiquidationHunting, H!LHNext

\* No error of another position or protocol makes the runner lose the trade of
\* a liquidation that succeeded, for any number of protocols, positions and
\* days (SeizuresReported; liquidation_hunting.go:151-195).
THEOREM SeizuresHold == BacktestSpec => []SeizuresReported
  <1>1. BacktestInit => ReportOK
    <2> SUFFICES ASSUME BacktestInit PROVE ReportOK
      OBVIOUS
    <2>1. /\ reported = 0 /\ tick.out = 0 /\ done \in [0 .. MaxDay -> Int]
          /\ \A d \in 0 .. MaxDay : done[d] = 0
      BY DEF BacktestInit, Init, M!MomInit, H!NoTick
    <2>2. Total(done, 0 .. MaxDay) = 0 * Cardinality(0 .. MaxDay)
      <3>1. PICK S, f : S = 0 .. MaxDay /\ f = done
        OBVIOUS
      <3>2. IsFiniteSet(S) /\ f \in [S -> Int] /\ 0 \in Int /\ \A x \in S : f[x] = 0
        BY <2>1, <3>1, DaysFinite
      <3>3. Total(f, S) = 0 * Cardinality(S)
        BY <3>2, TotalEqual
      <3> QED BY <3>1, <3>3
    <2>3. Cardinality(0 .. MaxDay) \in Nat
      BY DaysFinite, FS_CardinalityType
    <2> QED BY <2>1, <2>2, <2>3 DEF ReportOK
  <1>2. EngineOK /\ DailyOK /\ ReportOK /\ [BacktestNext]_<<vars, backtestVars>> => ReportOK'
    <2> SUFFICES ASSUME EngineOK, DailyOK, ReportOK, [BacktestNext]_<<vars, backtestVars>>
                 PROVE  ReportOK'
      OBVIOUS
    <2>0. None # "momentum" /\ None # "liquidation_hunting"
      BY NoneAssumption DEF Registered
    <2>1. CASE BuildStep
      <3>1. kind = None /\ UNCHANGED <<tick, reported, done>>
        BY <2>1 DEF BuildStep, Build
      <3> QED BY <3>1 DEF ReportOK
    <2>2. CASE MomentumStep \/ AsLiquidityProvision \/ AsCrossChainYield
      <3>1. kind' = kind /\ kind \in Registered \ {"liquidation_hunting"} /\ reported' = reported
        BY <2>2 DEF MomentumStep, otherVars, AsLiquidityProvision, AsCrossChainYield, Registered
      <3>2. kind # None
        BY <3>1, NoneAssumption
      <3> QED BY <3>1, <3>2 DEF ReportOK
    <2>3. CASE AsLiquidationHunting
      <3>0. kind = "liquidation_hunting" /\ kind' = kind
        BY <2>3 DEF AsLiquidationHunting
      <3>1. CASE done' = done /\ reported' + tick'.out = reported + tick.out /\ reported' \in Nat
        BY <3>0, <3>1 DEF ReportOK
      <3>2. CASE CountSeizure /\ reported' + tick'.out = reported + tick.out + 1 /\ reported' \in Nat
        <4>1. dailyDate \in 0 .. MaxDay /\ done \in [0 .. MaxDay -> Nat]
          <5>1. dailyDate # NoDay /\ CountOK
            BY <3>2 DEF CountSeizure, DailyOK, TickOK
          <5> QED BY <5>1, DaysAssumption DEF CountOK
        <4>2. PICK h : h = done'
          OBVIOUS
        <4>3. /\ h \in [0 .. MaxDay -> Int] /\ done \in [0 .. MaxDay -> Int]
              /\ \A d \in 0 .. MaxDay : h[d] = IF d = dailyDate THEN done[d] + 1 ELSE done[d]
          BY <3>2, <4>1, <4>2 DEF CountSeizure
        <4>4. Total(done, 0 .. MaxDay) \in Int /\ Total(h, 0 .. MaxDay) = Total(done, 0 .. MaxDay) + 1
          <5>1. PICK S, f, d : S = 0 .. MaxDay /\ f = done /\ d = dailyDate
            OBVIOUS
          <5>2. /\ IsFiniteSet(S) /\ f \in [S -> Int] /\ h \in [S -> Int] /\ d \in S
                /\ \A x \in S : h[x] = IF x = d THEN f[x] + 1 ELSE f[x]
            BY <4>1, <4>3, <5>1, DaysFinite
          <5>3. Total(f, S) \in Int /\ Total(h, S) = Total(f, S) + 1
            BY <5>2, TotalIncrement
          <5> QED BY <5>1, <5>3
        <4> QED BY <3>0, <3>2, <4>2, <4>4 DEF ReportOK
      <3> QED BY <2>3, <3>1, <3>2, HuntingTrades DEF DailyOK, ReportOK
    <2>4. CASE UNCHANGED vars
      BY <2>4 DEF vars, ReportOK
    <2> QED BY <2>1, <2>2, <2>3, <2>4, StepIsTaskStep DEF TaskStep, vars
  <1>3. ReportOK => SeizuresReported
    BY DoneTotal DEF ReportOK, SeizuresReported, H!SeizuresReported
  <1> QED BY <1>1, <1>2, <1>3, EngineSafe, DailySafe, PTL DEF BacktestSpec

-----------------------------------------------------------------------------
(* The book.                                                                *)

\* Quotients of natural numbers.
LEMMA Quotient ==
    ASSUME NEW x \in Nat, NEW d \in Nat \ {0}
    PROVE  x \div d \in Nat /\ d * (x \div d) <= x /\ x < d * (x \div d + 1)
  OBVIOUS

\* The net value of a band is never more than what was deposited, since
\* 2ab <= a^2 + b^2.
LEMMA LossIsLoss ==
    ASSUME NEW v \in Nat, NEW a \in Nat \ {0}, NEW b \in Nat \ {0}
    PROVE  (v * (2 * a * b)) \div (a * a + b * b) \in 0 .. v
  <1> DEFINE d == a * a + b * b
             x == v * (2 * a * b)
             q == x \div d
  <1>1. a * a \in Nat \ {0} /\ b * b \in Nat \ {0} /\ 2 * a * b \in Nat
    OBVIOUS
  <1>2. d \in Nat \ {0} /\ 2 * a * b <= d
    <2>1. (a - b) * (a - b) >= 0
      OBVIOUS
    <2>2. (a - b) * (a - b) = a * a - 2 * a * b + b * b
      OBVIOUS
    <2> QED BY <1>1, <2>1, <2>2
  <1>3. x \in Nat /\ x <= v * d
    <2> HIDE DEF d
    <2>1. PICK y \in Nat : y = 2 * a * b /\ y <= d
      BY <1>1, <1>2
    <2>2. v * y \in Nat /\ v * y <= v * d
      BY <1>2, <2>1
    <2> QED BY <2>1, <2>2
  <1> HIDE DEF d, x
  <1>4. q \in Nat /\ d * q <= x
    BY <1>2, <1>3, Quotient
  <1> HIDE DEF q
  <1>5. q <= v
    <2> SUFFICES ASSUME q >= v + 1 PROVE FALSE
      BY <1>4
    <2>1. d * q >= d * (v + 1)
      BY <1>2, <1>4
    <2>2. d * (v + 1) = v * d + d
      BY <1>2
    <2>3. v * d \in Nat /\ d * q \in Nat
      BY <1>2, <1>4
    <2> QED BY <1>2, <1>3, <1>4, <2>1, <2>2, <2>3
  <1> QED BY <1>4, <1>5 DEF q, x, d

\* The equal split of cross_chain_yield: what n positions of the amount take is
\* no more than there is, no share is above the cap, and a split into nothing
\* happens only to a handful of dollars.
LEMMA EqualSplit ==
    ASSUME NEW total \in Nat, NEW n \in Nat \ {0}, n <= 20,
           cfg.cap \in Int, 50 <= cfg.cap, cfg.cap <= 1000,
           NEW a, a = C!Amount(total, n)
    PROVE  /\ a \in Nat /\ a * n <= total /\ 1000 * a <= cfg.cap * total
           /\ a = 0 => total < 20
  <1>a. PICK cap \in Nat : cap = cfg.cap /\ 50 <= cap /\ cap <= 1000
    OBVIOUS
  <1> SUFFICES /\ a \in Nat /\ a * n <= total /\ 1000 * a <= cap * total
               /\ a = 0 => total < 20
    BY <1>a
  <1>0. a = IF cap * n < 1000 THEN (total * cap) \div 1000 ELSE total \div n
    BY <1>a DEF C!Amount
  <1>1. CASE cap * n < 1000
    <2>1. PICK x \in Nat : x = total * cap
      OBVIOUS
    <2>2. a \in Nat /\ 1000 * a <= x /\ x < 1000 * a + 1000
      BY <1>0, <1>1, <2>1
    <2>3. 1000 * (a * n) <= 1000 * total
      <3>1. 1000 * a * n <= x * n
        BY <2>2
      <3>2. x * n = total * (cap * n)
        BY <2>1
      <3>3. total * (cap * n) <= total * 1000
        BY <1>1
      <3> QED BY <2>2, <3>1, <3>2, <3>3
    <2>4. a = 0 => total < 20
      <3>1. 50 * total <= x
        BY <1>a, <2>1
      <3> QED BY <2>2, <3>1
    <2>5. a * n \in Nat /\ cap * total = x
      BY <2>1, <2>2
    <2> QED BY <2>2, <2>3, <2>4, <2>5
  <1>2. CASE ~(cap * n < 1000)
    <2>1. a \in Nat /\ n * a <= total /\ total < n * (a + 1)
      BY <1>0, <1>2, Quotient
    <2>2. 1000 * a <= cap * total
      <3>1. PICK c \in Nat : c = cap * n /\ c >= 1000
        BY <1>2
      <3>2. 1000 * a <= c * a
        BY <2>1, <3>1
      <3>3. c * a = cap * (n * a)
        BY <2>1, <3>1
      <3>4. cap * (n * a) <= cap * total
        <4>1. PICK y \in Nat : y = n * a
          BY <2>1
        <4> QED BY <2>1, <4>1
      <3> QED BY <2>1, <3>1, <3>2, <3>3, <3>4
    <2> QED BY <2>1, <2>2
  <1> QED BY <1>1, <1>2

\* An allocation with the same value in every one of finitely many protocols.
Even(alloc, v) ==
    /\ IsFiniteSet(DOMAIN alloc) /\ v \in Nat \ {0}
    /\ \A p \in DOMAIN alloc : alloc[p].value = v

\* An even allocation adds up to its value times the number of its protocols.
LEMMA EvenSum ==
    ASSUME NEW alloc, NEW v, Even(alloc, v)
    PROVE  /\ Cardinality(DOMAIN alloc) \in Nat
           /\ C!SumValues(alloc) = v * Cardinality(DOMAIN alloc)
           /\ C!SumValues(alloc) \in Nat
           /\ C!SumValues(alloc) = 0 <=> DOMAIN alloc = {}
  <1> DEFINE f == [p \in DOMAIN alloc |-> alloc[p].value]
  <1>1. Cardinality(DOMAIN alloc) \in Nat
    BY FS_CardinalityType DEF Even
  <1>2. f \in [DOMAIN alloc -> Int] /\ (\A p \in DOMAIN alloc : f[p] = v) /\ v \in Int
    BY DEF Even
  <1>3. PICK S : S = DOMAIN alloc
    OBVIOUS
  <1>4. C!SumValues(alloc) = Total(f, S)
    BY <1>3, SumValuesTotal
  <1> HIDE DEF f
  <1>5. Total(f, S) = v * Cardinality(S)
    BY <1>2, <1>3, TotalEqual DEF Even
  <1>6. Cardinality(DOMAIN alloc) = 0 <=> DOMAIN alloc = {}
    BY FS_EmptySet DEF Even
  <1>7. \A c \in Nat : v * c \in Nat /\ (v * c = 0 <=> c = 0)
    BY DEF Even
  <1> QED BY <1>1, <1>3, <1>4, <1>5, <1>6, <1>7

\* As many rates as it takes to place everything under a cap of 5% or more.
LEMMA NeededBound ==
    ASSUME cfg.cap \in Int, 50 <= cfg.cap, cfg.cap <= 1000
    PROVE  C!Needed \in Nat /\ C!Needed # 0 /\ C!Needed <= 20
  <1>1. PICK c \in Nat \ {0}, x \in Nat : c = cfg.cap /\ x = 1000 + c - 1 /\ c >= 50
    OBVIOUS
  <1>2. PICK q \in Nat : q = x \div c /\ c * q <= x /\ x < c * (q + 1)
    BY Quotient
  <1>3. q # 0
    BY <1>1, <1>2
  <1>4. ASSUME q >= 21 PROVE FALSE
    <2>1. c * q >= c * 21
      BY <1>4
    <2> QED BY <1>1, <1>2, <2>1
  <1>5. C!Needed = q
    BY <1>1, <1>2 DEF C!Needed
  <1> QED BY <1>3, <1>4, <1>5

\* A target has at least one protocol, and no more than the cap needs.
LEMMA TargetSize ==
    ASSUME NEW rates, NEW n \in Nat \ {0}, Len(rates) = n, DOMAIN rates = 1 .. n,
           C!Needed \in Nat, C!Needed # 0, C!Needed <= 20
    PROVE  LET D == DOMAIN C!ChooseTarget(rates)
           IN  IsFiniteSet(D) /\ Cardinality(D) \in Nat \ {0} /\ Cardinality(D) <= 20
  <1> DEFINE s == C!Sorted(rates)
  <1>1. PICK m \in Nat \ {0} : /\ m = (IF n < C!Needed THEN n ELSE C!Needed)
                               /\ m <= n /\ m <= 20
    OBVIOUS
  <1> DEFINE top == SubSeq(s, 1, m)
             g == [i \in 1 .. m |-> top[i].protocol]
  <1>4. DOMAIN s = 1 .. n /\ s = [k \in 1 .. n |-> s[k]]
    BY DEF C!Sorted, C!SortedBy
  <1> HIDE DEF s
  <1>5. s \in Seq({s[k] : k \in 1 .. n}) /\ Len(s) = n
    BY <1>4
  <1>6. DOMAIN top = 1 .. m
    BY <1>1, <1>5
  <1>7. DOMAIN C!ChooseTarget(rates) = {top[i].protocol : i \in DOMAIN top}
    BY <1>1 DEF C!ChooseTarget, s
  <1> HIDE DEF top
  <1>8. IsFiniteSet(1 .. m) /\ Cardinality(1 .. m) = m
    <2>1. /\ IsFiniteSet(1 .. m)
          /\ Cardinality(1 .. m) = IF 1 > m THEN 0 ELSE m - 1 + 1
      BY FS_Interval, 1 \in Int, m \in Int
    <2> QED BY <2>1
  <1>9. PICK D : D = {top[i].protocol : i \in 1 .. m}
    OBVIOUS
  <1>10. g \in Surjection(1 .. m, D)
    <2>1. g \in [1 .. m -> D]
      BY <1>9
    <2>2. \A y \in D : \E x \in 1 .. m : g[x] = y
      BY <1>9
    <2> QED BY <2>1, <2>2, Fun_IsSurj
  <1> HIDE DEF g
  <1>11. IsFiniteSet(D) /\ Cardinality(D) <= m
    <2>1. PICK X : IsFiniteSet(X) /\ Cardinality(X) = m /\ g \in Surjection(X, D)
      BY <1>8, <1>10
    <2>2. IsFiniteSet(D) /\ Cardinality(D) <= Cardinality(X)
      BY <2>1, FS_Surjection
    <2> QED BY <2>1, <2>2
  <1>12. D # {}
    <2>1. top[1].protocol \in D
      BY <1>9
    <2> QED BY <2>1
  <1>13. Cardinality(D) \in Nat /\ Cardinality(D) # 0
    <2>1. Cardinality(D) \in Nat
      BY <1>11, FS_CardinalityType
    <2>2. Cardinality(D) # 0
      BY <1>11, <1>12, FS_EmptySet
    <2> QED BY <2>1, <2>2
  <1>14. DOMAIN C!ChooseTarget(rates) = D
    BY <1>6, <1>7, <1>9
  <1>15. Cardinality(D) <= 20
    BY <1>1, <1>11, <1>13
  <1> QED BY <1>11, <1>13, <1>14, <1>15

\* The ring buffer of momentum holds samples, and after a push at least one.
Samples == [age : Nat, price : Nat \ {0}]

\* A push adds the newest sample and keeps as many as the buffer has room for.
LEMMA PushKeeps ==
    ASSUME NEW h \in Seq(Samples), NEW price \in Nat \ {0},
           cfg.interval \in Int, 1 <= cfg.interval
    PROVE  LET p == M!PushSample(h, price)
               all == Append(h, [age |-> 0, price |-> price])
               cap == M!LookbackSamples(cfg)
           IN  /\ all \in Seq(Samples) /\ Len(all) = Len(h) + 1
               /\ cap \in Nat /\ cap >= Lookback \div cfg.interval + 1 /\ cap >= 1
               /\ p \in Seq(Samples)
               /\ Len(p) = IF Len(h) + 1 > cap THEN cap ELSE Len(h) + 1
               /\ \A i \in 1 .. Len(p) : p[i] = all[Len(all) - Len(p) + i]
  <1> DEFINE new == [age |-> 0, price |-> price]
             all == Append(h, new)
             cap == M!LookbackSamples(cfg)
             p == M!PushSample(h, price)
  <1>1. new \in Samples
    BY DEF Samples
  <1>2. Len(h) \in Nat /\ all \in Seq(Samples) /\ Len(all) = Len(h) + 1
    <2> HIDE DEF new
    <2> QED BY <1>1, LenProperties, AppendProperties
  <1>3. Lookback \div cfg.interval \in Nat
    BY WindowAssumption, Quotient
  <1>4. cap \in Nat /\ cap >= Lookback \div cfg.interval + 1 /\ cap >= 1
    BY <1>3, WindowAssumption DEF M!LookbackSamples
  <1>5. p = IF Len(all) > cap THEN SubSeq(all, Len(all) - cap + 1, Len(all)) ELSE all
    BY DEF M!PushSample
  <1> HIDE DEF all, cap, p
  <1>6. CASE Len(all) > cap
    <2>1. p = SubSeq(all, Len(all) - cap + 1, Len(all))
      BY <1>5, <1>6
    <2>2. Len(all) - cap + 1 \in 1 .. Len(all) /\ Len(all) \in Nat
      BY <1>2, <1>4, <1>6
    <2>3. /\ p \in Seq(Samples) /\ Len(p) = cap
          /\ \A i \in 1 .. cap : p[i] = all[(Len(all) - cap + 1) + i - 1]
      <3>1. PICK b \in Int, e \in Int : b = Len(all) - cap + 1 /\ e = Len(all)
        BY <2>2
      <3>2. \A i \in b .. e : all[i] \in Samples
        <4>1. \A i \in 1 .. Len(all) : all[i] \in Samples
          BY <1>2, ElementOfSeq
        <4> QED BY <2>2, <3>1, <4>1
      <3>3. /\ SubSeq(all, b, e) \in Seq(Samples)
            /\ Len(SubSeq(all, b, e)) = IF b <= e THEN e - b + 1 ELSE 0
            /\ \A i \in 1 .. e - b + 1 : SubSeq(all, b, e)[i] = all[b + i - 1]
        BY <3>2, SubSeqProperties
      <3> QED BY <1>4, <2>1, <2>2, <3>1, <3>3
    <2>4. \A i \in 1 .. Len(p) : p[i] = all[Len(all) - Len(p) + i]
      <3> SUFFICES ASSUME NEW i \in 1 .. cap PROVE p[i] = all[Len(all) - cap + i]
        BY <2>3
      <3>1. (Len(all) - cap + 1) + i - 1 = Len(all) - cap + i
        BY <1>4, <2>2
      <3> QED BY <2>3, <3>1
    <2>5. Len(p) = IF Len(h) + 1 > cap THEN cap ELSE Len(h) + 1
      BY <1>2, <1>6, <2>3
    <2> QED BY <1>2, <1>4, <2>3, <2>4, <2>5 DEF all, cap, p
  <1>7. CASE ~(Len(all) > cap)
    <2>1. p = all
      BY <1>5, <1>7
    <2> QED BY <1>2, <1>4, <1>7, <2>1 DEF all, cap, p
  <1> QED BY <1>6, <1>7

\* The positions of each kind, and what is needed to close them: momentum
\* closes at the latest sample, liquidity_provision at the last price.
MomBook ==
    /\ history \in Seq(Samples)
    /\ position # None => position \in M!MomPositions /\ history # <<>>
LPBook == position # None => position \in L!LPPositions /\ lastPrice \in Nat \ {0}
CCYBook ==
    /\ capUsed \in Nat
    /\ \E v : /\ Even(position, v)
              /\ DOMAIN position # {} =>
                   1000 * v <= capUsed * (freeCapital + v * Cardinality(DOMAIN position))

BookOK ==
    /\ freeCapital \in Nat /\ booked \in Int /\ capUsed \in Nat
    /\ history \in Seq(Samples)
    /\ kind = None => position = None
    /\ kind = "momentum" => MomBook
    /\ kind = "liquidity_provision" => LPBook
    /\ kind = "cross_chain_yield" => CCYBook

\* Momentum opens with no more than it has, closes for no less than nothing and
\* books the difference.
MomMove ==
    \/ UNCHANGED <<freeCapital, booked, position>>
    \/ /\ position = None /\ position' \in M!MomPositions
       /\ position'.size <= freeCapital /\ freeCapital' = freeCapital - position'.size
       /\ booked' = booked
    \/ /\ position \in M!MomPositions /\ position' = None
       /\ freeCapital' \in Nat /\ freeCapital' >= freeCapital
       /\ freeCapital' + booked = freeCapital + position.size + booked'

\* What an exit brings in is never negative.
LEMMA ExitProceeds ==
    ASSUME NEW pos \in M!MomPositions, NEW price \in Nat \ {0}
    PROVE  M!Proceeds(pos, price) \in Nat
  <1>1. PICK x \in Nat, d \in Nat \ {0} : x = pos.size * price /\ d = pos.entry
    BY DEF M!MomPositions
  <1>2. x \div d \in Nat
    BY Quotient
  <1> QED BY <1>1, <1>2 DEF M!Proceeds

\* The latest price of a buffer that is not empty is a price.
LEMMA LatestIsPrice ==
    ASSUME history \in Seq(Samples), history # <<>>
    PROVE  M!LatestPrice \in Nat \ {0}
  <1>1. Len(history) \in 1 .. Len(history)
    BY EmptySeq
  <1>2. history[Len(history)] \in Samples
    BY <1>1, ElementOfSeq
  <1> QED BY <1>2 DEF Samples, M!LatestPrice

\* Time passing leaves as many samples as there were.
LEMMA ClockKeeps ==
    ASSUME history \in Seq(Samples), M!MomClock
    PROVE  /\ history' \in Seq(Samples) /\ Len(history') = Len(history)
           /\ \A i \in 1 .. Len(history) :
                /\ history'[i].price = history[i].price
                /\ history'[i].age = IF history[i].age > Lookback THEN history[i].age
                                     ELSE history[i].age + 1
  <1> DEFINE n == Len(history)
             new(i) == [history[i] EXCEPT !.age = IF @ > Lookback THEN @ ELSE @ + 1]
  <1>1. n \in Nat /\ DOMAIN history = 1 .. n /\ \A i \in 1 .. n : history[i] \in Samples
    BY LenProperties, ElementOfSeq
  <1>2. history' = [i \in 1 .. n |-> new(i)]
    BY <1>1 DEF M!MomClock
  <1>3. \A i \in 1 .. n : /\ new(i) \in Samples /\ new(i).price = history[i].price
                          /\ new(i).age = IF history[i].age > Lookback THEN history[i].age
                                          ELSE history[i].age + 1
    BY <1>1, WindowAssumption, SMTT(20) DEF Samples
  <1> HIDE DEF new
  <1>4. PICK h : h = history'
    OBVIOUS
  <1>5. h = [i \in 1 .. n |-> new(i)]
    BY <1>2, <1>4
  <1>6. h \in Seq(Samples) /\ Len(h) = n
    BY <1>1, <1>3, <1>5
  <1> QED BY <1>3, <1>4, <1>5, <1>6

\* Every step of a momentum task is one of the moves above.
LEMMA MomentumBook ==
    ASSUME MomentumStep, freeCapital \in Nat, booked \in Int, MomBook,
           cfg.interval \in Int, 1 <= cfg.interval,
           cfg.maxPos \in Int, 10 <= cfg.maxPos, cfg.maxPos <= 1000, cfg.stop \in Int
    PROVE  MomMove /\ freeCapital' \in Nat /\ booked' \in Int /\ MomBook'
  <1>0. history \in Seq(Samples) /\ (position # None => position \in M!MomPositions /\ history # <<>>)
    BY DEF MomBook
  <1>1. ASSUME UNCHANGED <<freeCapital, booked, position, history>>
        PROVE  MomMove /\ freeCapital' \in Nat /\ booked' \in Int /\ MomBook'
    BY <1>1 DEF MomMove, MomBook
  <1>2. CASE \/ M!MomTickFails \/ M!MomTickEarly \/ M!MomMidnight
             \/ \E adj \in Adjustments : M!MomApplyAdjustments(adj)
    BY <1>1, <1>2 DEF M!MomTickFails, M!MomTickEarly, M!MomMidnight, M!MomApplyAdjustments
  <1>3. CASE M!MomCloseAll
    <2>1. position \in M!MomPositions /\ history # <<>>
      BY <1>0, <1>3 DEF M!MomCloseAll
    <2>2. M!Proceeds(position, M!LatestPrice) \in Nat
      BY <1>0, <2>1, LatestIsPrice, ExitProceeds
    <2>3. /\ position' = None /\ history' = history
          /\ freeCapital' = freeCapital + M!Proceeds(position, M!LatestPrice)
          /\ booked' = booked + (M!Proceeds(position, M!LatestPrice) - position.size)
      BY <1>3 DEF M!MomCloseAll, M!Exit, M!Report
    <2>4. PICK made \in Nat, size \in Nat :
             made = M!Proceeds(position, M!LatestPrice) /\ size = position.size
      BY <2>1, <2>2 DEF M!MomPositions
    <2>5. freeCapital' = freeCapital + made /\ booked' = booked + (made - size)
      BY <2>3, <2>4
    <2>6. /\ freeCapital' \in Nat /\ freeCapital' >= freeCapital /\ booked' \in Int
          /\ freeCapital' + booked = freeCapital + size + booked'
      BY <2>4, <2>5
    <2>7. MomMove
      BY <2>1, <2>3, <2>4, <2>6 DEF MomMove
    <2>8. MomBook'
      BY <1>0, <2>3 DEF MomBook
    <2> QED BY <2>6, <2>7, <2>8
  <1>4. CASE M!MomClock
    <2>1. UNCHANGED <<freeCapital, booked, position>>
      BY <1>4 DEF M!MomClock
    <2>2. history' \in Seq(Samples) /\ Len(history') = Len(history)
      BY <1>0, <1>4, ClockKeeps
    <2>3. history # <<>> => history' # <<>>
      BY <1>0, <2>2, EmptySeq
    <2> QED BY <1>0, <2>1, <2>2, <2>3 DEF MomMove, MomBook
  <1>5. ASSUME NEW price \in Nat \ {0}, M!MomTick(price)
        PROVE  MomMove /\ freeCapital' \in Nat /\ booked' \in Int /\ MomBook'
    <2>1. history' \in Seq(Samples) /\ history' # <<>>
      <3>1. history' = M!PushSample(history, price)
        BY <1>5 DEF M!MomTick
      <3>2. PICK p : p = M!PushSample(history, price)
        OBVIOUS
      <3>3. p \in Seq(Samples) /\ Len(p) # 0
        <4>1. Len(history) \in Nat
          BY <1>0, LenProperties
        <4>2. PICK cap \in Nat : /\ cap >= 1 /\ p \in Seq(Samples)
                                 /\ Len(p) = IF Len(history) + 1 > cap THEN cap ELSE Len(history) + 1
          BY <1>0, <3>2, PushKeeps
        <4> QED BY <4>1, <4>2
      <3> QED BY <3>1, <3>2, <3>3, EmptySeq
    <2>2. CASE position # None /\ M!Exit(price)
      <3>1. position \in M!MomPositions
        BY <1>0, <2>2
      <3>2. M!Proceeds(position, price) \in Nat
        BY <3>1, ExitProceeds
      <3>3. PICK made \in Nat, size \in Nat :
               made = M!Proceeds(position, price) /\ size = position.size
        BY <3>1, <3>2 DEF M!MomPositions
      <3>4. /\ freeCapital' = freeCapital + made /\ booked' = booked + (made - size)
            /\ position' = None
        BY <2>2, <3>3 DEF M!Exit, M!Report
      <3>5. /\ freeCapital' \in Nat /\ freeCapital' >= freeCapital /\ booked' \in Int
            /\ freeCapital' + booked = freeCapital + size + booked'
        BY <3>3, <3>4
      <3>6. MomMove
        BY <3>1, <3>3, <3>4, <3>5 DEF MomMove
      <3>7. MomBook'
        BY <2>1, <3>4 DEF MomBook
      <3> QED BY <3>5, <3>6, <3>7
    <2>3. CASE position = None /\ M!CanEnter(history', price) /\ M!Enter(price)
      <3>1. PICK n \in Nat : n = M!Notional /\ n <= freeCapital /\ n > 0
        <4>1. PICK x \in Nat : x = freeCapital * cfg.maxPos
          OBVIOUS
        <4>2. x <= freeCapital * 1000
          BY <4>1
        <4>3. M!Notional > 0
          BY <2>3 DEF M!CanEnter
        <4> QED BY <4>1, <4>2, <4>3 DEF M!Notional
      <3>2. position' = [entry |-> price, stop |-> price * (1000 - cfg.stop), size |-> n]
        BY <2>3, <3>1 DEF M!Enter
      <3>3. freeCapital' = freeCapital - n /\ booked' = booked
        BY <2>3, <3>1 DEF M!Enter
      <3>4. position' \in M!MomPositions /\ position'.size = n
        <4>1. price * (1000 - cfg.stop) \in Int
          OBVIOUS
        <4> QED BY <3>1, <3>2, <4>1 DEF M!MomPositions
      <3> QED BY <2>1, <2>3, <3>1, <3>3, <3>4 DEF MomMove, MomBook
    <2>4. CASE UNCHANGED <<position, freeCapital, booked>>
      BY <1>0, <2>1, <2>4 DEF MomMove, MomBook
    <2> QED BY <1>5, <2>2, <2>3, <2>4 DEF M!MomTick
  <1> QED BY <1>2, <1>3, <1>4, <1>5 DEF MomentumStep, MomStep

\* Liquidity provision deposits all there is, moves it at a loss and closes at
\* a loss, for no less than nothing, and books the loss.
LPMove ==
    \/ UNCHANGED <<freeCapital, booked, position>>
    \/ /\ position = None /\ position' \in L!LPPositions
       /\ position'.value = freeCapital /\ freeCapital' = 0 /\ booked' = booked
    \/ /\ position \in L!LPPositions /\ position' \in L!LPPositions
       /\ position'.value + booked = freeCapital + position.value + booked'
       /\ freeCapital' = 0 /\ booked' <= booked
    \/ /\ position \in L!LPPositions /\ position' = None
       /\ freeCapital' \in Nat /\ freeCapital' >= freeCapital
       /\ freeCapital' + booked = freeCapital + position.value + booked'
       /\ booked' <= booked

\* Closing a band never brings in more than was deposited.
LEMMA NetIsLoss ==
    ASSUME NEW pos \in L!LPPositions, NEW root \in Nat \ {0}
    PROVE  L!NetValue(pos, root) \in Nat /\ L!NetValue(pos, root) <= pos.value
  <1>1. PICK v \in Nat, a \in Nat \ {0} : v = pos.value /\ a = pos.root
    BY DEF L!LPPositions
  <1>2. L!NetValue(pos, root) = (v * (2 * a * root)) \div (a * a + root * root)
    BY <1>1 DEF L!NetValue
  <1>3. (v * (2 * a * root)) \div (a * a + root * root) \in 0 .. v
    BY LossIsLoss
  <1> QED BY <1>1, <1>2, <1>3

\* Every step of a liquidity_provision task is one of the moves above.
LEMMA LiquidityBook ==
    ASSUME AsLiquidityProvision, freeCapital \in Nat, booked \in Int, LPBook
    PROVE  LPMove /\ freeCapital' \in Nat /\ booked' \in Int /\ LPBook'
  <1>1. ASSUME UNCHANGED <<freeCapital, booked, position, lastPrice>>
        PROVE  LPMove /\ freeCapital' \in Nat /\ booked' \in Int /\ LPBook'
    BY <1>1 DEF LPMove, LPBook
  <1>2. ASSUME position # None, L!Close, lastPrice' = lastPrice
        PROVE  LPMove /\ freeCapital' \in Nat /\ booked' \in Int /\ LPBook'
    <2>1. position \in L!LPPositions /\ lastPrice \in Nat \ {0}
      BY <1>2 DEF LPBook
    <2>2. PICK net \in Nat, size \in Nat : /\ net = L!NetValue(position, lastPrice)
                                           /\ size = position.value /\ net <= size
      BY <2>1, NetIsLoss DEF L!LPPositions
    <2>3. /\ position' = None /\ freeCapital' = freeCapital + net
          /\ booked' = booked + (net - size)
      BY <1>2, <2>2 DEF L!Close, L!Report
    <2> QED BY <2>1, <2>2, <2>3 DEF LPMove, LPBook
  <1>3. CASE L!LPTickIdle \/ L!LPClock
    BY <1>1, <1>3 DEF L!LPTickIdle, L!LPClock
  <1>4. CASE L!LPCloseAll
    BY <1>2, <1>4 DEF L!LPCloseAll
  <1>5. CASE \E adj \in Adjustments : L!LPApplyAdjustments(adj)
    <2>1. lastPrice' = lastPrice
      BY <1>5 DEF L!LPApplyAdjustments
    <2>2. (position # None /\ L!Close) \/ UNCHANGED <<position, freeCapital, booked>>
      BY <1>5 DEF L!LPApplyAdjustments
    <2> QED BY <1>1, <1>2, <2>1, <2>2
  <1>6. ASSUME NEW root \in Roots, L!LPTick(root)
        PROVE  LPMove /\ freeCapital' \in Nat /\ booked' \in Int /\ LPBook'
    <2>0. root \in Nat \ {0} /\ lastPrice' = root
      BY <1>6, QuotesAssumption DEF L!LPTick
    <2>1. CASE position = None /\ L!Open(freeCapital, root) /\ UNCHANGED booked
      <3>1. CASE freeCapital > 0
        <4>1. position' = [root |-> root, value |-> freeCapital] /\ freeCapital' = 0
          BY <2>1, <3>1 DEF L!Open
        <4>2. position' \in L!LPPositions /\ position'.value = freeCapital
          BY <2>0, <3>1, <4>1 DEF L!LPPositions
        <4> QED BY <2>0, <2>1, <4>1, <4>2 DEF LPMove, LPBook
      <3>2. CASE ~(freeCapital > 0)
        <4>1. position' = None /\ freeCapital' = freeCapital
          BY <2>1, <3>2 DEF L!Open
        <4> QED BY <2>1, <4>1 DEF LPMove, LPBook
      <3> QED BY <3>1, <3>2
    <2>2. CASE UNCHANGED <<position, freeCapital, booked>>
      BY <2>0, <2>2 DEF LPMove, LPBook
    <2>3. CASE /\ position # None /\ L!Open(freeCapital + L!NetValue(position, root), root)
               /\ L!Report(L!NetValue(position, root) - position.value)
      <3>0. position \in L!LPPositions
        BY <2>3 DEF LPBook
      <3>4. PICK net \in Nat, size \in Nat : /\ net = L!NetValue(position, root)
                                             /\ size = position.value /\ net <= size
        BY <2>0, <3>0, NetIsLoss DEF L!LPPositions
      <3>5. booked' = booked + (net - size)
        BY <2>3, <3>4 DEF L!Report
      <3>1. PICK c \in Nat : /\ c = freeCapital + L!NetValue(position, root)
                             /\ c >= freeCapital /\ c = freeCapital + net
        BY <3>4
      <3>2. CASE c > 0
        <4>1. position' = [root |-> root, value |-> c] /\ freeCapital' = 0
          BY <2>3, <3>1, <3>2 DEF L!Open
        <4>2. position' \in L!LPPositions /\ position'.value = c
          BY <2>0, <3>2, <4>1 DEF L!LPPositions
        <4> QED BY <2>0, <3>0, <3>4, <3>5, <3>1, <4>1, <4>2 DEF LPMove, LPBook
      <3>3. CASE ~(c > 0)
        <4>1. position' = None /\ freeCapital' = c
          BY <2>3, <3>1, <3>3 DEF L!Open
        <4> QED BY <3>0, <3>4, <3>5, <3>1, <4>1 DEF LPMove, LPBook
      <3> QED BY <3>2, <3>3
    <2> QED BY <1>6, <2>1, <2>2, <2>3 DEF L!LPTick
  <1> QED BY <1>3, <1>4, <1>5, <1>6 DEF AsLiquidityProvision, L!LPNext

\* Cross-chain yield moves all there is, at the cost of the bridge, which is
\* all it ever books.
CCYMove ==
    LET held == C!SumValues(position)
        next == C!SumValues(position')
    IN  /\ held \in Nat /\ next \in Nat
        /\ \/ UNCHANGED <<freeCapital, booked, position>>
           \/ /\ freeCapital' + next + booked = freeCapital + held + booked'
              /\ booked' <= booked
              /\ held = 0 => booked' = booked
              /\ held > 0 /\ next = 0 => freeCapital' >= freeCapital

\* Nothing allocated is an even allocation with the sum 0.
LEMMA EmptyEven == Even([p \in {} |-> 0], 1) /\ C!SumValues([p \in {} |-> 0]) = 0
  <1>1. PICK e : e = [p \in {} |-> 0]
    OBVIOUS
  <1>2. DOMAIN e = {}
    BY <1>1
  <1>3. Even(e, 1)
    BY <1>2, FS_EmptySet DEF Even
  <1>4. C!SumValues(e) = 0
    BY <1>2, <1>3, EvenSum
  <1> QED BY <1>1, <1>3, <1>4

\* The cardinality an instanced module speaks of is that of the library.
LEMMA SameCardinality == \A S : C!Cardinality(S) = Cardinality(S)
  BY DEF C!Cardinality, Cardinality

\* What a rebalance leaves, with its intermediate results named.
LEMMA RebalanceIs ==
    ASSUME NEW target, NEW cost, C!Rebalance(target, cost),
           NEW total, total = C!AllCapital - cost,
           NEW a, a = C!Amount(total, Cardinality(DOMAIN target)),
           NEW opened, opened = IF a > 0 THEN DOMAIN target ELSE {}
    PROVE  /\ DOMAIN position' = opened /\ \A p \in opened : position'[p].value = a
           /\ freeCapital' = total - a * Cardinality(opened)
           /\ capUsed' = cfg.cap /\ booked' = booked - cost
  <1>1. a = C!Amount(C!AllCapital - cost, C!Cardinality(DOMAIN target))
    BY SameCardinality
  <1>2. DOMAIN position' = opened /\ \A p \in opened : position'[p].value = a
    BY <1>1 DEF C!Rebalance
  <1>3. freeCapital' = total - a * C!Cardinality(opened)
    BY <1>1 DEF C!Rebalance
  <1>4. capUsed' = cfg.cap /\ booked' = booked - cost
    BY DEF C!Rebalance
  <1> QED BY <1>2, <1>3, <1>4, SameCardinality

\* Every step of a cross_chain_yield task is one of the moves above.
LEMMA YieldBook ==
    ASSUME AsCrossChainYield, freeCapital \in Nat, booked \in Int, CCYBook,
           cfg.cap \in Int, 50 <= cfg.cap, cfg.cap <= 1000
    PROVE  CCYMove /\ freeCapital' \in Nat /\ booked' \in Int /\ CCYBook'
  <1>0. PICK each : /\ Even(position, each)
                    /\ DOMAIN position # {} =>
                      1000 * each <= capUsed * (freeCapital + each * Cardinality(DOMAIN position))
    BY DEF CCYBook
  <1>1. PICK held \in Nat : held = C!SumValues(position) /\ (held = 0 <=> DOMAIN position = {})
    BY <1>0, EvenSum
  <1>2. ASSUME UNCHANGED <<freeCapital, booked, position, capUsed>>
        PROVE  CCYMove /\ freeCapital' \in Nat /\ booked' \in Int /\ CCYBook'
    <2>1. CCYMove
      BY <1>1, <1>2 DEF CCYMove
    <2> QED BY <1>2, <2>1 DEF CCYBook
  <1>3. CASE \/ C!CCYClock \/ \E adj \in Adjustments : C!CCYApplyAdjustments(adj)
             \/ \E rates \in RateTables : C!CCYTickIdle(rates)
    BY <1>2, <1>3 DEF C!CCYClock, C!CCYApplyAdjustments, C!CCYTickIdle
  <1>4. CASE C!CCYCloseAll
    <2>1. /\ freeCapital' = freeCapital + held /\ capUsed' = capUsed
          /\ position' = [p \in {} |-> 0] /\ booked' = booked
      BY <1>1, <1>4 DEF C!CCYCloseAll, C!AllCapital
    <2>2. Even(position', 1) /\ C!SumValues(position') = 0 /\ DOMAIN position' = {}
      BY <2>1, EmptyEven
    <2>3. CCYMove
      <3>1. held # 0
        BY <1>1, <1>4 DEF C!CCYCloseAll
      <3> QED BY <1>1, <2>1, <2>2, <3>1 DEF CCYMove
    <2>4. CCYBook'
      BY <2>1, <2>2 DEF CCYBook
    <2> QED BY <2>1, <2>3, <2>4
  <1>5. ASSUME NEW rates \in RateTables, C!CCYTick(rates)
        PROVE  CCYMove /\ freeCapital' \in Nat /\ booked' \in Int /\ CCYBook'
    <2>1. PICK target, cost : /\ target = C!ChooseTarget(rates) /\ cost = C!BridgeCost(target)
                              /\ C!Rebalance(target, cost)
      BY <1>5 DEF C!CCYTick
    <2>2. PICK n \in Nat \ {0} : Len(rates) = n /\ DOMAIN rates = 1 .. n
      <3>1. rates \in Seq([protocol : Protocols, chain : STRING, apy : Int]) /\ rates # <<>>
        BY <1>5, QuotesAssumption DEF C!CCYTick
      <3> QED BY <3>1, LenProperties, EmptySeq
    <2>3. PICK D : D = DOMAIN target /\ IsFiniteSet(D)
                   /\ Cardinality(D) \in Nat \ {0} /\ Cardinality(D) <= 20
      BY <2>1, <2>2, NeededBound, TargetSize
    <2>4. PICK k \in Nat \ {0} : k = Cardinality(D) /\ k <= 20
      BY <2>3
    <2>5. PICK all \in Nat : all = freeCapital + held /\ all = C!AllCapital
      BY <1>1 DEF C!AllCapital
    <2>6. cost \in Nat /\ 1000 * cost <= 5 * all /\ (held = 0 => cost = 0)
      <3>1. cost = 0 \/ (DOMAIN position # {} /\ cost = (all * 5) \div 1000)
        BY <2>1, <2>5 DEF C!BridgeCost
      <3> QED BY <1>1, <3>1
    <2>7. PICK total \in Nat : total = all - cost /\ total <= all /\ (held = 0 => total = all)
      BY <2>6
    <2>8. PICK a : a = C!Amount(total, k)
      OBVIOUS
    <2>9. a \in Nat /\ a * k <= total /\ 1000 * a <= cfg.cap * total /\ (a = 0 => total < 20)
      BY <2>4, <2>8, EqualSplit
    <2>10. PICK opened : opened = IF a > 0 THEN D ELSE {}
      OBVIOUS
    <2>11. /\ DOMAIN position' = opened /\ \A p \in opened : position'[p].value = a
           /\ freeCapital' = total - a * Cardinality(opened)
           /\ capUsed' = cfg.cap /\ booked' = booked - cost
      <3>1. total = C!AllCapital - cost
        BY <2>5, <2>6, <2>7
      <3>2. a = C!Amount(total, Cardinality(DOMAIN target))
        BY <2>3, <2>4, <2>8
      <3>3. opened = IF a > 0 THEN DOMAIN target ELSE {}
        BY <2>3, <2>10, Zenon
      <3> QED BY <2>1, <3>1, <3>2, <3>3, RebalanceIs
    <2>12. CASE a > 0
      <3>1. /\ DOMAIN position' = D /\ (\A p \in D : position'[p].value = a)
            /\ freeCapital' = total - a * k
        BY <2>4, <2>10, <2>11, <2>12
      <3>2. Even(position', a)
        BY <2>3, <2>9, <2>12, <3>1 DEF Even
      <3>3. C!SumValues(position') = a * k
        BY <2>4, <3>1, <3>2, EvenSum
      <3>4. PICK taken \in Nat : taken = a * k /\ taken <= total /\ taken # 0
        BY <2>9, <2>12
      <3>5. freeCapital' \in Nat /\ freeCapital' + taken = total
        BY <3>1, <3>4
      <3>6. CCYMove
        <4>1. /\ freeCapital' + taken + booked = freeCapital + held + booked'
              /\ booked' <= booked /\ (held = 0 => booked' = booked)
          BY <2>5, <2>6, <2>7, <2>11, <3>5
        <4>2. C!SumValues(position') = taken
          BY <3>3, <3>4
        <4> QED BY <1>1, <3>4, <4>1, <4>2 DEF CCYMove
      <3>7. CCYBook'
        <4>1. 1000 * a <= capUsed' * (freeCapital' + a * Cardinality(DOMAIN position'))
          BY <2>4, <2>9, <2>11, <3>1, <3>4, <3>5
        <4> QED BY <2>11, <3>2, <4>1 DEF CCYBook
      <3>8. booked' \in Int
        BY <2>6, <2>11
      <3> QED BY <3>5, <3>6, <3>7, <3>8
    <2>13. CASE a = 0
      <3>1. DOMAIN position' = {} /\ freeCapital' = total /\ Cardinality({}) = 0
        BY <2>7, <2>9, <2>10, <2>11, <2>13, FS_EmptySet
      <3>2. Even(position', 1)
        BY <3>1, FS_EmptySet DEF Even
      <3>3. C!SumValues(position') = 0
        BY <3>1, <3>2, EvenSum
      <3>4. cost = 0
        BY <2>6, <2>7, <2>9, <2>13
      <3>5. CCYMove
        <4>1. freeCapital' = freeCapital + held
          BY <2>5, <2>6, <2>7, <3>1, <3>4
        <4>2. booked' = booked
          BY <2>11, <3>4
        <4>3. /\ 0 \in Nat /\ freeCapital' >= freeCapital /\ booked' <= booked
              /\ freeCapital' + 0 + booked = freeCapital + held + booked'
          BY <4>1, <4>2
        <4> QED BY <1>1, <3>3, <4>2, <4>3 DEF CCYMove
      <3>6. CCYBook'
        <4>1. capUsed' \in Nat
          BY <2>11
        <4> QED BY <3>1, <3>2, <4>1 DEF CCYBook
      <3>7. booked' \in Int
        BY <2>11, <3>4
      <3> QED BY <3>1, <3>5, <3>6, <3>7
    <2> QED BY <2>9, <2>12, <2>13
  <1> QED BY <1>3, <1>4, <1>5 DEF AsCrossChainYield, C!CCYNext

\* What a step of the task does to its capital.
Moves ==
    \/ UNCHANGED <<freeCapital, booked, kind, position>>
    \/ /\ kind = None /\ kind' \in Registered /\ UNCHANGED <<freeCapital, booked>>
       /\ position' = IF kind' = "cross_chain_yield" THEN [p \in {} |-> 0] ELSE None
    \/ kind = "momentum" /\ kind' = kind /\ MomMove
    \/ kind = "liquidity_provision" /\ kind' = kind /\ LPMove
    \/ kind = "cross_chain_yield" /\ kind' = kind /\ CCYMove

\* Every step keeps the books of its kind and moves capital as that kind does.
LEMMA BookKept ==
    ASSUME EngineOK, ConfigOK, BookOK, TaskStep
    PROVE  BookOK' /\ Moves
  <1>0. \A name \in Registered : name # None
    BY NoneAssumption
  <1>1. CASE BuildStep
    <2>1. PICK name \in Registered :
              \E raws \in SUBSET [Fields(name) -> Int] : Build(name, raws)
      BY <1>1 DEF BuildStep
    <2>2. /\ kind = None /\ kind' = name /\ UNCHANGED <<freeCapital, booked>>
          /\ position' = IF name = "cross_chain_yield" THEN [p \in {} |-> 0] ELSE None
          /\ history' = history /\ capUsed' = capUsed
      BY <2>1 DEF Build
    <2>3. Moves
      BY <2>2 DEF Moves
    <2>4. name = "cross_chain_yield" => CCYBook'
      <3> SUFFICES ASSUME name = "cross_chain_yield" PROVE CCYBook'
        OBVIOUS
      <3>1. Even(position', 1) /\ DOMAIN position' = {}
        BY <2>2, EmptyEven
      <3>2. capUsed' \in Nat
        BY <2>2 DEF BookOK
      <3> QED BY <3>1, <3>2 DEF CCYBook
    <2>5. name # "cross_chain_yield" => MomBook' /\ LPBook'
      BY <2>2 DEF BookOK, MomBook, LPBook
    <2>6. kind' # None
      BY <1>0, <2>2
    <2> QED BY <2>2, <2>3, <2>4, <2>5, <2>6 DEF BookOK
  <1>2. CASE MomentumStep
    <2>1. kind = "momentum" /\ kind' = kind /\ kind # None
      BY <1>0, <1>2 DEF MomentumStep, otherVars, Registered
    <2>2. MomMove /\ freeCapital' \in Nat /\ booked' \in Int /\ MomBook'
      BY <1>2, <2>1, MomentumBook, ValidFields DEF BookOK, ConfigOK, EngineOK
    <2>3. capUsed' = capUsed
      BY <1>2 DEF MomentumStep, otherVars
    <2> QED BY <2>1, <2>2, <2>3 DEF BookOK, Moves, MomBook
  <1>3. CASE AsLiquidityProvision
    <2>1. kind = "liquidity_provision" /\ kind' = kind /\ kind # None
          /\ history' = history /\ capUsed' = capUsed
      BY <1>0, <1>3 DEF AsLiquidityProvision, Registered
    <2>2. LPMove /\ freeCapital' \in Nat /\ booked' \in Int /\ LPBook'
      BY <1>3, <2>1, LiquidityBook DEF BookOK
    <2> QED BY <2>1, <2>2 DEF BookOK, Moves
  <1>4. CASE AsCrossChainYield
    <2>1. kind = "cross_chain_yield" /\ kind' = kind /\ kind # None /\ history' = history
      BY <1>0, <1>4 DEF AsCrossChainYield, Registered
    <2>2. CCYMove /\ freeCapital' \in Nat /\ booked' \in Int /\ CCYBook'
      BY <1>4, <2>1, YieldBook, ValidFields DEF BookOK, ConfigOK, EngineOK
    <2>3. capUsed' \in Nat
      BY <2>2 DEF CCYBook
    <2> QED BY <2>1, <2>2, <2>3 DEF BookOK, Moves
  <1>5. CASE AsLiquidationHunting
    <2>1. kind = "liquidation_hunting" /\ kind' = kind /\ kind # None
          /\ history' = history /\ capUsed' = capUsed
      BY <1>0, <1>5 DEF AsLiquidationHunting, Registered
    <2>2. UNCHANGED <<freeCapital, booked, position>>
      BY <1>5 DEF AsLiquidationHunting, H!LHNext, H!LHTick, H!ListProtocol,
                  H!ListProtocolFails, H!SkipPosition, H!Liquidate, H!LiquidateFails,
                  H!LHReturn, H!LHClock, H!LHMidnight, H!LHApplyAdjustments
    <2> QED BY <2>1, <2>2 DEF BookOK, Moves
  <1> QED BY <1>1, <1>2, <1>3, <1>4, <1>5 DEF TaskStep

\* The books are in order in every reachable state.
LEMMA BookSafe == BacktestSpec => []BookOK
  <1>1. BacktestInit => BookOK
    <2> SUFFICES ASSUME BacktestInit PROVE BookOK
      OBVIOUS
    <2>1. /\ kind = None /\ freeCapital = Seed /\ booked = 0 /\ position = None
          /\ history = <<>> /\ capUsed = 1000
      BY DEF BacktestInit, Init, M!MomInit, C!CCYInit
    <2>2. kind \notin Registered
      BY <2>1, NoneAssumption
    <2>3. history \in Seq(Samples)
      BY <2>1
    <2> QED BY <2>1, <2>2, <2>3, SeedAssumption DEF BookOK, Registered
  <1>2. EngineOK /\ ConfigOK /\ BookOK /\ [BacktestNext]_<<vars, backtestVars>> => BookOK'
    <2> SUFFICES ASSUME EngineOK, ConfigOK, BookOK, [BacktestNext]_<<vars, backtestVars>>
                 PROVE  BookOK'
      OBVIOUS
    <2>1. CASE UNCHANGED vars
      BY <2>1 DEF vars, BookOK, MomBook, LPBook, CCYBook
    <2> QED BY <2>1, BookKept, StepIsTaskStep DEF vars
  <1> QED BY <1>1, <1>2, EngineSafe, ConfigSafe, PTL DEF BacktestSpec

\* No protocol of a cross_chain_yield task ever holds more of the capital than
\* the cap in force at the last move allowed, for all rates, caps within the
\* envelope and any capital: choosing, deduplicating, splitting and paying the
\* bridge agree on it (CapRespected; cross_chain_yield.go:368-402 and 492-543).
THEOREM CapHolds == BacktestSpec => []CapRespected
  <1>1. BookOK => CapRespected
    <2> SUFFICES ASSUME BookOK, kind = "cross_chain_yield", NEW p \in DOMAIN position
                 PROVE  1000 * position[p].value <= capUsed * C!AllCapital
      BY DEF CapRespected, C!CapRespected
    <2>1. PICK each : /\ Even(position, each)
                      /\ 1000 * each <= capUsed * (freeCapital + each * Cardinality(DOMAIN position))
      BY DEF BookOK, CCYBook
    <2>2. position[p].value = each
      BY <2>1 DEF Even
    <2>3. C!SumValues(position) = each * Cardinality(DOMAIN position)
      BY <2>1, EvenSum
    <2> QED BY <2>1, <2>2, <2>3 DEF C!AllCapital
  <1> QED BY <1>1, BookSafe, PTL

\* The four ways a book can change without a gain, by its numbers.
Numbers(f, g, x, y, b, c) ==
    \/ g = f /\ y = x /\ c = b
    \/ x = 0 /\ y > 0 /\ g >= 0 /\ c = b /\ g + y = f + x + (c - b)
    \/ x > 0 /\ y > 0 /\ g >= 0 /\ c <= b /\ g + y = f + x + (c - b)
    \/ x > 0 /\ y = 0 /\ g >= f /\ ~(c > b) /\ g + y = f + x + (c - b)

\* A move of cross_chain_yield is one of them.
LEMMA MoveByNumbers ==
    \A f, g, x, y \in Nat, b, c \in Int :
        /\ g + y + b = f + x + c /\ c <= b /\ (x = 0 => c = b) /\ (x > 0 /\ y = 0 => g >= f)
        => Numbers(f, g, x, y, b, c)
  BY DEF Numbers

\* Each of the four tasks implements the book of PositionBook, whatever the
\* prices, the rates and the adjustments: every change of the capital is what
\* the trades report, opening takes no more than there is, moving never gains,
\* closing leaves nothing open, never takes from what was free and gains for
\* momentum alone (BookRefined; momentum.go:343-444, liquidity_provision.go:
\* 247-323, cross_chain_yield.go:282-312 and 447-543).
THEOREM BookRefinement == BacktestSpec => BookRefined
  <1>0. \A name \in Registered : name # None
    BY NoneAssumption
  <1>1. BacktestInit => Book!Init
    <2> SUFFICES ASSUME BacktestInit PROVE Book!Init
      OBVIOUS
    <2>1. kind = None /\ freeCapital = Seed /\ booked = 0
      BY DEF BacktestInit, Init
    <2>2. Held = 0
      BY <1>0, <2>1 DEF Held, Registered
    <2> QED BY <2>1, <2>2, SeedAssumption DEF Book!Init
  <1>2. EngineOK /\ ConfigOK /\ BookOK /\ [BacktestNext]_<<vars, backtestVars>>
        => [Book!Next]_<<freeCapital, Held, booked>>
    <2> SUFFICES ASSUME EngineOK, ConfigOK, BookOK, [BacktestNext]_<<vars, backtestVars>>
                 PROVE  [Book!Next]_<<freeCapital, Held, booked>>
      OBVIOUS
    <2>1. ASSUME UNCHANGED <<freeCapital, booked, kind, position>>
          PROVE  UNCHANGED <<freeCapital, Held, booked>>
      BY <2>1 DEF Held, C!SumValues
    <2>2. CASE UNCHANGED vars
      BY <2>1, <2>2 DEF vars
    <2>3. CASE TaskStep
      <3>1. Moves
        BY <2>3, BookKept
      <3>2. CASE /\ kind = None /\ kind' \in Registered /\ UNCHANGED <<freeCapital, booked>>
                 /\ position' = IF kind' = "cross_chain_yield" THEN [p \in {} |-> 0] ELSE None
        <4>1. Held = 0
          BY <1>0, <3>2 DEF Held, Registered
        <4>2. C!SumValues([p \in {} |-> 0]) = 0
          BY EmptyEven
        <4>3. Held' = 0
          BY <3>2, <4>2 DEF Held, Registered
        <4> QED BY <3>2, <4>1, <4>3
      <3>3. CASE kind = "momentum" /\ kind' = kind /\ MomMove
        <4>1. /\ Held = IF position = None THEN 0 ELSE position.size
              /\ Held' = IF position' = None THEN 0 ELSE position'.size
          BY <3>3 DEF Held
        <4>2. None \notin M!MomPositions /\ freeCapital \in Nat /\ booked \in Int
          BY NoneAssumption DEF BookOK
        <4>0. booked' \in Int
          BY <2>3, BookKept DEF BookOK
        <4>3. CASE UNCHANGED <<freeCapital, booked, position>>
          BY <4>1, <4>3
        <4>4. CASE /\ position = None /\ position' \in M!MomPositions
                   /\ position'.size <= freeCapital /\ freeCapital' = freeCapital - position'.size
                   /\ booked' = booked
          <5>1. Held = 0 /\ Held' = position'.size /\ position'.size \in Nat \ {0}
            BY <4>1, <4>2, <4>4 DEF M!MomPositions
          <5> QED BY <4>2, <4>4, <5>1 DEF Book!Next, Book!Open, Book!Balanced
        <4>5. CASE /\ position \in M!MomPositions /\ position' = None
                   /\ freeCapital' \in Nat /\ freeCapital' >= freeCapital
                   /\ freeCapital' + booked = freeCapital + position.size + booked'
          <5>1. Held' = 0 /\ Held = position.size /\ position.size \in Nat \ {0}
            BY <4>1, <4>2, <4>5 DEF M!MomPositions
          <5> QED BY <3>3, <4>0, <4>2, <4>5, <5>1 DEF Book!Next, Book!Close, Book!Balanced
        <4> QED BY <3>3, <4>3, <4>4, <4>5 DEF MomMove
      <3>4. CASE kind = "liquidity_provision" /\ kind' = kind /\ LPMove
        <4>1. /\ Held = IF position = None THEN 0 ELSE position.value
              /\ Held' = IF position' = None THEN 0 ELSE position'.value
          BY <3>4 DEF Held
        <4>2. None \notin L!LPPositions /\ freeCapital \in Nat /\ booked \in Int
          BY NoneAssumption DEF BookOK
        <4>0. booked' \in Int
          BY <2>3, BookKept DEF BookOK
        <4>3. CASE UNCHANGED <<freeCapital, booked, position>>
          BY <4>1, <4>3
        <4>4. CASE /\ position = None /\ position' \in L!LPPositions
                   /\ position'.value = freeCapital /\ freeCapital' = 0 /\ booked' = booked
          <5>1. Held = 0 /\ Held' = position'.value /\ position'.value \in Nat \ {0}
            BY <4>1, <4>2, <4>4 DEF L!LPPositions
          <5> QED BY <4>2, <4>4, <5>1 DEF Book!Next, Book!Open, Book!Balanced
        <4>5. CASE /\ position \in L!LPPositions /\ position' \in L!LPPositions
                   /\ position'.value + booked = freeCapital + position.value + booked'
                   /\ freeCapital' = 0 /\ booked' <= booked
          <5>1. /\ Held = position.value /\ position.value \in Nat \ {0}
                /\ Held' = position'.value /\ position'.value \in Nat \ {0}
            BY <4>1, <4>2, <4>5 DEF L!LPPositions
          <5> QED BY <4>0, <4>2, <4>5, <5>1 DEF Book!Next, Book!Move, Book!Balanced
        <4>6. CASE /\ position \in L!LPPositions /\ position' = None
                   /\ freeCapital' \in Nat /\ freeCapital' >= freeCapital
                   /\ freeCapital' + booked = freeCapital + position.value + booked'
                   /\ booked' <= booked
          <5>1. Held' = 0 /\ Held = position.value /\ position.value \in Nat \ {0}
            BY <4>1, <4>2, <4>6 DEF L!LPPositions
          <5> QED BY <4>0, <4>2, <4>6, <5>1 DEF Book!Next, Book!Close, Book!Balanced
        <4> QED BY <3>4, <4>3, <4>4, <4>5, <4>6 DEF LPMove
      <3>5. CASE kind = "cross_chain_yield" /\ kind' = kind /\ CCYMove
        <4>1. Held = C!SumValues(position) /\ Held' = C!SumValues(position')
          BY <3>5 DEF Held
        <4>2. freeCapital \in Nat /\ freeCapital' \in Nat /\ booked \in Int /\ booked' \in Int
          BY <2>3, BookKept DEF BookOK
        <4>3. CASE UNCHANGED <<freeCapital, booked, position>>
          BY <2>1, <3>5, <4>3
        <4>4. CASE ~UNCHANGED <<freeCapital, booked, position>>
          <5>0. PICK x \in Nat, y \in Nat : x = C!SumValues(position) /\ y = C!SumValues(position')
            BY <3>5 DEF CCYMove
          <5>1. Held = x /\ Held' = y
            BY <4>1, <5>0, Zenon
          <5>2. /\ freeCapital' + y + booked = freeCapital + x + booked'
                /\ booked' <= booked /\ (x = 0 => booked' = booked)
                /\ x > 0 /\ y = 0 => freeCapital' >= freeCapital
            <6>1. LET h == C!SumValues(position)  n == C!SumValues(position')
                  IN  /\ freeCapital' + n + booked = freeCapital + h + booked'
                      /\ booked' <= booked
                      /\ h = 0 => booked' = booked
                      /\ h > 0 /\ n = 0 => freeCapital' >= freeCapital
              BY <3>5, <4>4, Zenon DEF CCYMove
            <6> QED BY <5>0, <6>1
          <5>3. Numbers(freeCapital, freeCapital', x, y, booked, booked')
            BY <4>2, <5>2, MoveByNumbers, Zenon
          <5>4. Numbers(freeCapital, freeCapital', Held, Held', booked, booked')
            BY <5>1, <5>3, Zenon
          <5> QED BY <5>4, Zenon DEF Numbers, Book!Next, Book!Open, Book!Move, Book!Close, Book!Balanced
        <4> QED BY <4>3, <4>4
      <3> QED BY <2>1, <3>1, <3>2, <3>3, <3>4, <3>5 DEF Moves
    <2> QED BY <2>2, <2>3, StepIsTaskStep DEF vars
  <1> QED BY <1>1, <1>2, EngineSafe, ConfigSafe, BookSafe, PTL
          DEF BacktestSpec, BookRefined, Book!Spec

-----------------------------------------------------------------------------
(* The prices of a replay.                                                  *)

\* A price that was known at the cursor.
Known(price) ==
    LET known == {i \in DOMAIN tape : tape[i].at <= cursor}
    IN  IF known = {} THEN price = tape[1].price
        ELSE \E i \in known : /\ price = tape[i].price
                              /\ \A j \in known : tape[j].at <= tape[i].at

\* The quote is one: the search ends at the last row that is not later.
LEMMA QuoteIsKnown ==
    ASSUME EngineOK, tape # <<>>
    PROVE  Known(QuotedPrice)
  <1>1. PICK f : f = Found
    OBVIOUS
  <1>2. /\ f \in 1 .. Len(tape) /\ (f = 1 \/ tape[f].at <= cursor)
        /\ \A i \in 1 .. Len(tape) : i > f => tape[i].at > cursor
    BY <1>1, SearchFinds DEF EngineOK
  <1>3. QuotedPrice = IF tape[f].at > cursor THEN tape[1].price ELSE tape[f].price
    BY <1>1, PriceIsFound DEF QuotedPrice
  <1>4. /\ DOMAIN tape = 1 .. Len(tape) /\ Len(tape) \in Nat /\ cursor \in Nat
        /\ \A i \in 1 .. Len(tape) : tape[i].at \in Int
        /\ \A i, j \in 1 .. Len(tape) : i < j => tape[i].at <= tape[j].at
    <2>1. \A i \in 1 .. Len(tape) : tape[i] \in Rows
      BY ElementOfSeq DEF EngineOK
    <2> QED BY <2>1, LenProperties DEF EngineOK, Rows
  <1>5. CASE tape[f].at <= cursor
    <2>1. QuotedPrice = tape[f].price
      BY <1>2, <1>3, <1>4, <1>5
    <2>2. f \in {i \in DOMAIN tape : tape[i].at <= cursor}
      BY <1>2, <1>4, <1>5
    <2>3. \A j \in {i \in DOMAIN tape : tape[i].at <= cursor} : tape[j].at <= tape[f].at
      <3> SUFFICES ASSUME NEW j \in 1 .. Len(tape), tape[j].at <= cursor
                   PROVE  tape[j].at <= tape[f].at
        BY <1>4
      <3>1. ~(j > f)
        BY <1>2, <1>4
      <3> QED BY <1>2, <1>4, <3>1
    <2> QED BY <2>1, <2>2, <2>3 DEF Known
  <1>6. CASE tape[f].at > cursor
    <2>1. QuotedPrice = tape[1].price /\ f = 1
      BY <1>2, <1>3, <1>4, <1>6
    <2>2. \A i \in 1 .. Len(tape) : tape[i].at > cursor
      BY <1>2, <1>4, <1>6, <2>1
    <2>3. {i \in DOMAIN tape : tape[i].at <= cursor} = {}
      BY <1>4, <2>2
    <2> QED BY <2>1, <2>3 DEF Known
  <1> QED BY <1>2, <1>4, <1>5, <1>6

\* A tick that is due leaves the price it saw as the latest sample.
LEMMA TickedLast ==
    ASSUME history \in Seq(Samples), NEW price \in Nat \ {0}, M!MomTick(price),
           cfg.interval \in Int, 1 <= cfg.interval
    PROVE  /\ history' \in Seq(Samples) /\ history' # <<>>
           /\ history'[Len(history')] = [age |-> 0, price |-> price]
  <1> DEFINE p == M!PushSample(history, price)
             all == Append(history, [age |-> 0, price |-> price])
  <1>1. /\ all \in Seq(Samples) /\ Len(all) = Len(history) + 1
        /\ p \in Seq(Samples) /\ Len(p) >= 1 /\ Len(p) \in Nat
        /\ \A i \in 1 .. Len(p) : p[i] = all[Len(all) - Len(p) + i]
    <2>1. Len(history) \in Nat
      BY LenProperties
    <2>2. PICK cap \in Nat : cap >= 1 /\ Len(p) = IF Len(history) + 1 > cap THEN cap ELSE Len(history) + 1
      BY PushKeeps
    <2>3. /\ all \in Seq(Samples) /\ Len(all) = Len(history) + 1 /\ p \in Seq(Samples)
          /\ \A i \in 1 .. Len(p) : p[i] = all[Len(all) - Len(p) + i]
      BY PushKeeps, Zenon
    <2> HIDE DEF p, all
    <2>4. Len(p) >= 1 /\ Len(p) \in Nat
      BY <2>1, <2>2
    <2> QED BY <2>3, <2>4
  <1>2. p[Len(p)] = all[Len(all)]
    <2>1. Len(p) \in 1 .. Len(p) /\ Len(all) \in Nat
      BY <1>1, LenProperties
    <2>2. Len(all) - Len(p) + Len(p) = Len(all)
      BY <1>1, <2>1
    <2>3. p[Len(p)] = all[Len(all) - Len(p) + Len(p)]
      BY <1>1, <2>1
    <2> QED BY <2>2, <2>3
  <1>3. all[Len(all)] = [age |-> 0, price |-> price]
    <2>0. PICK new : new = [age |-> 0, price |-> price]
      OBVIOUS
    <2>1. PICK n \in Nat : n = Len(history) /\ new = [age |-> 0, price |-> price]
      BY <2>0, LenProperties
    <2>2. all = Append(history, new) /\ new \in Samples
      BY <2>1 DEF Samples
    <2>3. all[n + 1] = new
      BY <2>1, <2>2, AppendProperties
    <2> QED BY <1>1, <2>1, <2>3
  <1>4. p # <<>>
    BY <1>1
  <1>5. history' = p
    BY DEF M!MomTick
  <1> HIDE DEF p, all
  <1> QED BY <1>1, <1>2, <1>3, <1>4, <1>5

\* The inductive invariant: a tick is never marked twice at age 0.
LookOK ==
    /\ phase \in {"build", "tick"} => checkAge >= 1
    /\ phase = "advance" /\ checkAge = 0 => Known(M!LatestPrice)

\* The replay never looks ahead, for every list of rows and every period: a
\* tick that is due trades on the latest price recorded by then, or on the
\* earliest row when there is none (NoLookAhead; mock_chain.go:228-261).
THEOREM NoLookAheadHolds == BacktestSpec => []NoLookAhead
  <1>1. BacktestInit => LookOK
    BY IntervalAssumption DEF BacktestInit, Init, LookOK
  <1>2. EngineOK /\ ConfigOK /\ BookOK /\ LookOK /\ [BacktestNext]_<<vars, backtestVars>> => LookOK'
    <2> SUFFICES ASSUME EngineOK, ConfigOK, BookOK, LookOK, [BacktestNext]_<<vars, backtestVars>>
                 PROVE  LookOK'
      OBVIOUS
    <2>0. ASSUME UNCHANGED <<history, checkAge, tape, cursor, phase>> PROVE LookOK'
      BY <2>0 DEF LookOK, Known, M!LatestPrice
    <2>1. CASE UNCHANGED <<vars, backtestVars>>
      BY <2>0, <2>1 DEF vars, backtestVars
    <2>2. CASE Live
      BY <2>2 DEF Live, backtestVars, LookOK
    <2>3. CASE BuildCandidate
      BY <2>3 DEF BuildCandidate, Build, LookOK
    <2>4. CASE BuilderFails \/ ReplayFails \/ Finish
      BY <2>4 DEF BuilderFails, ReplayFails, Finish, LookOK
    <2>5. CASE Advance
      <3>1. checkAge' = M!Older(checkAge) /\ phase' = "tick"
        BY <2>5 DEF Advance, M!MomClock
      <3>2. checkAge' >= 1
        BY <3>1, IntervalAssumption DEF M!Older, ConfigOK
      <3> QED BY <3>1, <3>2 DEF LookOK
    <2>6. CASE ReplayMidnight
      BY <2>0, <2>6 DEF ReplayMidnight, M!MomMidnight, backtestVars
    <2>7. CASE ReplayTick
      <3>0. phase' = "advance" /\ phase = "tick" /\ tape # <<>> /\ UNCHANGED <<tape, cursor>>
        BY <2>7 DEF ReplayTick
      <3>1. CASE M!MomTickEarly
        <4>1. checkAge' = checkAge /\ checkAge >= 1
          BY <3>0, <3>1 DEF M!MomTickEarly, LookOK
        <4> QED BY <3>0, <4>1 DEF LookOK, ConfigOK
      <3>2. CASE M!MomTick(QuotedPrice)
        <4>1. kind = "momentum" /\ kind # None
          BY <3>0, NoneAssumption DEF EngineOK, Registered
        <4>2. PICK price \in Nat \ {0} : price = QuotedPrice /\ Known(price)
          BY <3>0, QuotedPositive, QuoteIsKnown
        <4>3. history'[Len(history')].price = price
          <5>1. history \in Seq(Samples) /\ cfg.interval \in Int /\ 1 <= cfg.interval
            BY <4>1, ValidFields DEF BookOK, ConfigOK, EngineOK
          <5>2. QuotedPrice \in Nat \ {0}
            BY <4>2
          <5>3. history'[Len(history')] = [age |-> 0, price |-> QuotedPrice]
            BY <3>2, <5>1, <5>2, TickedLast, Zenon
          <5> QED BY <4>2, <5>3
        <4>4. M!LatestPrice' = price
          BY <4>3 DEF M!LatestPrice
        <4>5. Known(price)'
          BY <3>0, <4>2 DEF Known
        <4> QED BY <3>0, <4>4, <4>5 DEF LookOK
      <3> QED BY <2>7, <3>1, <3>2 DEF ReplayTick
    <2> QED BY <2>1, <2>2, <2>3, <2>4, <2>5, <2>6, <2>7 DEF BacktestNext
  <1>3. LookOK => NoLookAhead
    BY DEF LookOK, Known, NoLookAhead
  <1> QED BY <1>1, <1>2, <1>3, EngineSafe, ConfigSafe, BookSafe, PTL DEF BacktestSpec

-----------------------------------------------------------------------------
(* The verdict of a backtest.                                               *)

\* A drop is a natural number, and half of the peak gone is 500 or more.
LEMMA DropBounds ==
    ASSUME NEW top \in Int, NEW point \in Int, point <= top
    PROVE  /\ Drop(top, point) \in Nat
           /\ top > 0 /\ 2 * point <= top => Drop(top, point) >= 500
  <1>1. CASE top <= 0
    BY <1>1 DEF Drop
  <1>2. CASE top > 0
    <2>1. PICK x \in Nat, t \in Nat \ {0} : x = (top - point) * 1000 /\ t = top
      BY <1>2
    <2>2. PICK q : q = x \div t
      OBVIOUS
    <2>3. q \in Nat /\ t * q <= x /\ x < t * (q + 1)
      BY <2>2, Quotient
    <2>4. Drop(top, point) = q
      BY <1>2, <2>1, <2>2 DEF Drop
    <2>5. ASSUME 2 * point <= top PROVE q >= 500
      <3>1. x >= 500 * t
        BY <2>1, <2>5
      <3>2. q < 500 => t * (q + 1) <= t * 500
        BY <2>3
      <3> QED BY <2>3, <3>1, <3>2
    <2> QED BY <2>3, <2>4, <2>5
  <1> QED BY <1>1, <1>2

\* What a replayed tick does to the capital, and the profit it reports.
ReplayMove(gain) ==
    \/ UNCHANGED <<freeCapital, position>> /\ gain = 0
    \/ /\ position = None /\ position' \in M!MomPositions
       /\ position'.size <= freeCapital /\ freeCapital' = freeCapital - position'.size
       /\ gain = 0
    \/ /\ position \in M!MomPositions /\ position' = None
       /\ gain + position.size \in Nat
       /\ freeCapital' = freeCapital + (gain + position.size)

\* The value of what is open is a natural number.
LEMMA ValueIsNat ==
    ASSUME BookOK, kind = "momentum"
    PROVE  PositionValue \in Nat /\ (position = None => PositionValue = 0)
  <1>1. position # None => position \in M!MomPositions /\ history # <<>> /\ history \in Seq(Samples)
    BY DEF BookOK, MomBook
  <1> QED BY <1>1, LatestIsPrice, ExitProceeds DEF PositionValue

\* A replayed tick is one of these moves.
LEMMA ReplayMoves ==
    ASSUME EngineOK, ConfigOK, BookOK, ReplayTick
    PROVE  ReplayMove(TradePnL(QuotedPrice)) /\ TradePnL(QuotedPrice) \in Int
  <1>1. kind = "momentum" /\ tape # <<>> /\ QuotedPrice \in Nat \ {0} /\ UNCHANGED otherVars
    BY QuotedPositive DEF ReplayTick, EngineOK
  <1>2. None \notin M!MomPositions
    BY NoneAssumption
  <1>3. MomBook /\ freeCapital \in Nat /\ booked \in Int
    BY <1>1 DEF BookOK
  <1>4. MomentumStep
    BY <1>1 DEF MomentumStep, MomStep, ReplayTick
  <1>5. MomMove
    <2>1. kind # None
      BY <1>1, NoneAssumption DEF Registered
    <2> QED BY <1>1, <1>3, <1>4, <2>1, MomentumBook, ValidFields DEF ConfigOK, EngineOK
  <1>6. CASE UNCHANGED <<freeCapital, position>>
    BY <1>6 DEF ReplayMove, TradePnL
  <1>7. CASE /\ position = None /\ position' \in M!MomPositions
             /\ position'.size <= freeCapital /\ freeCapital' = freeCapital - position'.size
    BY <1>7 DEF ReplayMove, TradePnL
  <1>8. CASE position \in M!MomPositions /\ position' = None
    <2>1. PICK made \in Nat : made = M!Proceeds(position, QuotedPrice)
      BY <1>1, <1>8, ExitProceeds
    <2>2. TradePnL(QuotedPrice) = made - position.size
      BY <1>2, <1>8, <2>1 DEF TradePnL
    <2>3. freeCapital' = freeCapital + made
      BY <1>2, <1>8, <2>1 DEF ReplayTick, M!MomTick, M!MomTickEarly, M!Exit, M!Enter
    <2>4. PICK size \in Nat : size = position.size
      BY <1>8 DEF M!MomPositions
    <2>5. PICK gain \in Int : gain = TradePnL(QuotedPrice) /\ gain + size = made
      BY <2>1, <2>2, <2>4
    <2> QED BY <1>8, <2>1, <2>3, <2>4, <2>5 DEF ReplayMove
  <1> QED BY <1>5, <1>6, <1>7, <1>8 DEF MomMove

\* What is open, at cost.
Size == IF position = None THEN 0 ELSE position.size

\* The ledger of the engine agrees with the capital of the task: the closed
\* profits explain it, the curve shows it whenever nothing is open, and so the
\* peak of the curve is above every flat capital and a halving is a drop of
\* 500 or more.
LedgerOK ==
    /\ pnl \in Int /\ equity \in Int /\ peak \in Int /\ worst \in Int /\ flatPeak \in Int
    /\ freeCapital + Size = Seed + pnl
    /\ position = None => equity = freeCapital
    /\ peak >= flatPeak /\ flatPeak >= Seed
    /\ Seed = 0 => freeCapital = 0 /\ position = None
    /\ Seed > 0 /\ halved => worst >= 500

EarnOK ==
    /\ phase # "live" => LedgerOK
    /\ verdict = "pass" => phase = "done" /\ Passed

\* A replayed tick keeps the ledger.
LEMMA LedgerKept ==
    ASSUME EngineOK, ConfigOK, BookOK, BookOK', LedgerOK, ReplayTick
    PROVE  LedgerOK'
  <1>0. kind' = "momentum"
    BY DEF ReplayTick, otherVars, EngineOK
  <1>1. PICK gain \in Int : ReplayMove(gain) /\ \E count : Mark(gain, count)
    BY ReplayMoves DEF ReplayTick
  <1>2. PICK open \in Nat : open = PositionValue' /\ (position' = None => open = 0)
    <2>1. position' # None => /\ position' \in M!MomPositions /\ history' # <<>>
                              /\ history' \in Seq(Samples)
      BY <1>0 DEF BookOK, MomBook
    <2>2. (history' \in Seq(Samples) /\ history' # <<>>) => M!LatestPrice' \in Nat \ {0}
      <3>1. PICK h : h = history'
        OBVIOUS
      <3>2. ASSUME h \in Seq(Samples), h # <<>> PROVE h[Len(h)].price \in Nat \ {0}
        <4>1. Len(h) \in 1 .. Len(h)
          BY <3>2, EmptySeq
        <4>2. h[Len(h)] \in Samples
          BY <3>2, <4>1, ElementOfSeq
        <4> QED BY <4>2 DEF Samples
      <3> QED BY <3>1, <3>2 DEF M!LatestPrice
    <2>3. position' # None => M!Proceeds(position', M!LatestPrice') \in Nat
      BY <2>1, <2>2, ExitProceeds
    <2> QED BY <2>3 DEF PositionValue
  <1>3. freeCapital \in Nat /\ freeCapital' \in Nat /\ Seed \in Nat
    BY SeedAssumption DEF BookOK
  <1>4. None \notin M!MomPositions
    BY NoneAssumption
  <1>5. PICK size \in Nat, size2 \in Nat : size = Size /\ size2 = Size'
    <2>1. position # None => position \in M!MomPositions
      BY DEF BookOK, MomBook, ReplayTick, EngineOK
    <2>2. position' # None => position' \in M!MomPositions
      BY <1>0 DEF BookOK, MomBook
    <2> QED BY <2>1, <2>2 DEF Size, M!MomPositions
  <1>6. freeCapital' + size2 = freeCapital + size + gain
    <2>1. CASE UNCHANGED <<freeCapital, position>> /\ gain = 0
      BY <1>3, <1>5, <2>1 DEF Size
    <2>2. CASE /\ position = None /\ position' \in M!MomPositions
               /\ position'.size <= freeCapital /\ freeCapital' = freeCapital - position'.size
               /\ gain = 0
      <3>1. size = 0 /\ size2 = position'.size
        BY <1>4, <1>5, <2>2 DEF Size
      <3> QED BY <1>3, <2>2, <3>1
    <2>3. CASE /\ position \in M!MomPositions /\ position' = None
               /\ gain + position.size \in Nat
               /\ freeCapital' = freeCapital + (gain + position.size)
      <3>1. size2 = 0 /\ size = position.size
        BY <1>4, <1>5, <2>3 DEF Size
      <3> QED BY <1>3, <2>3, <3>1
    <2> QED BY <1>1, <2>1, <2>2, <2>3 DEF ReplayMove
  <1>7. PICK point \in Int, top \in Int :
            /\ point = Seed + (pnl + gain) + open /\ top = IF point > peak THEN point ELSE peak
    BY <1>3 DEF LedgerOK
  <1>8. PICK drop \in Nat : /\ drop = Drop(top, point)
                            /\ top > 0 /\ 2 * point <= top => drop >= 500
    <2>1. point <= top
      BY <1>7 DEF LedgerOK
    <2> QED BY <2>1, DropBounds
  <1>9. /\ pnl' = pnl + gain /\ equity' = point /\ peak' = top
        /\ worst' = IF drop > worst THEN drop ELSE worst
    BY <1>1, <1>2, <1>7, <1>8 DEF Mark, EquityPoint
  <1>10. /\ flatPeak' = IF position' = None /\ freeCapital' > flatPeak THEN freeCapital' ELSE flatPeak
         /\ halved' = (halved \/ (position' = None /\ 2 * freeCapital' <= flatPeak'))
    BY <1>1 DEF Mark
  <1>11. freeCapital' + size2 = Seed + (pnl + gain)
    <2>1. freeCapital + size = Seed + pnl /\ pnl \in Int
      BY <1>5, Zenon DEF LedgerOK
    <2>2. PICK left \in Nat : left = freeCapital'
      BY <1>3
    <2>3. left + size2 = freeCapital + size + gain
      BY <1>6, <2>2, Zenon
    <2>4. left + size2 = Seed + (pnl + gain)
      BY <1>3, <2>1, <2>3
    <2> QED BY <2>2, <2>4, Zenon
  <1>12. position' = None => point = freeCapital'
    <2> SUFFICES ASSUME position' = None PROVE point = freeCapital'
      OBVIOUS
    <2>1. size2 = 0 /\ open = 0
      BY <1>2, <1>5 DEF Size
    <2>2. PICK closed \in Int : closed = pnl + gain
      BY DEF LedgerOK
    <2>3. point = Seed + closed + open /\ freeCapital' + size2 = Seed + closed
      BY <1>7, <1>11, <2>2, Zenon
    <2>4. PICK left \in Nat : left = freeCapital'
      BY <1>3
    <2>5. left + size2 = Seed + closed
      BY <2>3, <2>4, Zenon
    <2>6. point = left
      BY <1>3, <2>1, <2>3, <2>5
    <2> QED BY <2>4, <2>6
  <1>13. flatPeak' \in Int /\ flatPeak' >= Seed /\ flatPeak' >= flatPeak /\ peak' >= flatPeak'
    BY <1>3, <1>7, <1>9, <1>10, <1>12 DEF LedgerOK
  <1>14. Seed = 0 => freeCapital' = 0 /\ position' = None
    BY <1>1, <1>3, <1>4 DEF LedgerOK, ReplayMove, M!MomPositions
  <1>15. ASSUME Seed > 0, halved' PROVE worst' >= 500
    <2>1. CASE halved
      BY <1>9, <1>15, <2>1 DEF LedgerOK
    <2>2. CASE position' = None /\ 2 * freeCapital' <= flatPeak'
      <3>1. top > 0 /\ 2 * point <= top
        <4>1. 2 * point <= flatPeak'
          BY <1>12, <2>2, Zenon
        <4>2. top >= flatPeak' /\ flatPeak' >= Seed /\ flatPeak' \in Int
          BY <1>9, <1>13, Zenon
        <4> QED BY <1>3, <1>15, <4>1, <4>2
      <3> QED BY <1>8, <1>9, <3>1 DEF LedgerOK
    <2> QED BY <1>10, <1>15, <2>1, <2>2
  <1>16. /\ pnl' \in Int /\ equity' \in Int /\ peak' \in Int /\ worst' \in Int
    BY <1>7, <1>8, <1>9 DEF LedgerOK
  <1>17. freeCapital' + Size' = Seed + pnl'
    BY <1>5, <1>9, <1>11
  <1> QED BY <1>9, <1>12, <1>13, <1>14, <1>15, <1>16, <1>17 DEF LedgerOK

\* A backtest that passes with nothing open has made money and never lost half
\* of what it had, whatever the rows, the candidate and the period: the equity
\* curve counts an open position on top of the capital it was bought with, but
\* that can only lower the marks of a candidate that closes its positions
\* (PassedIsEarned; engine.go:116-187).
THEOREM PassIsEarned == BacktestSpec => []PassedIsEarned
  <1>1. BacktestInit => EarnOK
    BY SeedAssumption, VerdictAssumption DEF BacktestInit, Init, EarnOK, LedgerOK, Size
  <1>2. EngineOK /\ ConfigOK /\ BookOK /\ BookOK' /\ EarnOK /\ [BacktestNext]_<<vars, backtestVars>>
        => EarnOK'
    <2> SUFFICES ASSUME EngineOK, ConfigOK, BookOK, BookOK', EarnOK,
                        [BacktestNext]_<<vars, backtestVars>>
                 PROVE  EarnOK'
      OBVIOUS
    <2>0. ASSUME UNCHANGED <<freeCapital, position, pnl, equity, peak, worst, flatPeak, halved>>,
                 LedgerOK
          PROVE  LedgerOK'
      BY <2>0 DEF LedgerOK, Size
    <2>1. CASE UNCHANGED <<vars, backtestVars>>
      BY <2>1 DEF vars, backtestVars, EarnOK, LedgerOK, Size, Passed
    <2>2. CASE Live
      BY <2>2 DEF Live, backtestVars, EarnOK, Passed
    <2>3. CASE BuildCandidate
      <3>1. position = None
        BY <2>3 DEF BuildCandidate, Build, BookOK
      <3> QED BY <2>0, <2>3, <3>1 DEF BuildCandidate, Build, EarnOK
    <2>4. CASE BuilderFails \/ ReplayFails
      <3>1. LedgerOK'
        BY <2>0, <2>4 DEF BuilderFails, ReplayFails, EarnOK, vars, M!MomTickFails
      <3> QED BY <2>4, <3>1 DEF BuilderFails, ReplayFails, EarnOK
    <2>5. CASE Finish
      <3>1. LedgerOK'
        BY <2>0, <2>5 DEF Finish, EarnOK, vars
      <3>2. Passed' = Passed
        BY <2>5 DEF Finish, Passed
      <3> QED BY <2>5, <3>1, <3>2 DEF Finish, EarnOK
    <2>6. CASE Advance \/ ReplayMidnight
      <3>1. LedgerOK'
        BY <2>0, <2>6 DEF Advance, ReplayMidnight, M!MomClock, M!MomMidnight, EarnOK, backtestVars
      <3> QED BY <2>6, <3>1 DEF Advance, ReplayMidnight, EarnOK, backtestVars
    <2>7. CASE ReplayTick
      <3>1. LedgerOK'
        BY <2>7, LedgerKept DEF ReplayTick, EarnOK
      <3> QED BY <2>7, <3>1 DEF ReplayTick, EarnOK
    <2> QED BY <2>1, <2>2, <2>3, <2>4, <2>5, <2>6, <2>7 DEF BacktestNext
  <1>3. EarnOK /\ BookOK => PassedIsEarned
    <2> SUFFICES ASSUME EarnOK, BookOK, verdict = "pass", position = None
                 PROVE  freeCapital > Seed /\ ~halved
      BY DEF PassedIsEarned
    <2>1. LedgerOK /\ Passed
      BY DEF EarnOK
    <2>2. freeCapital > Seed
      BY <2>1 DEF LedgerOK, Passed
    <2>3. Seed > 0
      BY <2>1, <2>2, SeedAssumption DEF LedgerOK
    <2> QED BY <2>1, <2>2, <2>3 DEF LedgerOK, Passed
  <1> QED BY <1>1, <1>2, <1>3, EngineSafe, ConfigSafe, BookSafe, PTL DEF BacktestSpec

-----------------------------------------------------------------------------
(* The ring buffer of momentum.                                             *)

\* The buffer h ends with the samples s, and what is before them is too old.
Fits(h, s) ==
    LET old == Len(h) - Len(s)
    IN  /\ old >= 0
        /\ \A i \in 1 .. old : h[i].age > Lookback
        /\ \A i \in 1 .. Len(s) : h[old + i] = s[i]
Inside(s) == \A i \in 1 .. Len(s) : s[i].age <= Lookback
Falling(s) == \A i, j \in 1 .. Len(s) : i <= j => s[j].age <= s[i].age
\* Samples are at least t apart, and the last one is at least c old.
Spaced(s, c, t) == \A i \in 1 .. Len(s) : s[i].age >= c + (Len(s) - i) * t

\* So many samples at a distance of t inside the window leave room in the
\* buffer for one more.
LEMMA FewSamples ==
    ASSUME NEW s \in Seq(Samples), NEW c \in Nat, NEW t \in Nat \ {0}, c >= t,
           Inside(s), Spaced(s, c, t)
    PROVE  Len(s) <= Lookback \div t
  <1>1. PICK n \in Nat : n = Len(s)
    BY LenProperties
  <1>2. PICK q \in Nat : q = Lookback \div t /\ Lookback < t * (q + 1)
    BY WindowAssumption, Quotient
  <1>3. CASE n = 0
    BY <1>1, <1>2, <1>3
  <1>4. CASE n # 0
    <2>1. PICK a \in Nat : a = s[1].age /\ a <= Lookback /\ a >= c + (n - 1) * t
      <3>1. 1 \in 1 .. n /\ s[1] \in Samples
        BY <1>1, <1>4, ElementOfSeq
      <3> QED BY <1>1, <3>1 DEF Samples, Inside, Spaced
    <2>2. n * t <= Lookback
      <3>0. PICK d \in Nat : n = d + 1 /\ n - 1 = d
        BY <1>4
      <3>1. PICK x \in Nat : x = d * t
        OBVIOUS
      <3>2. n * t = x + t /\ (n - 1) * t = x
        BY <3>0, <3>1
      <3> QED BY <2>1, <3>2, WindowAssumption
    <2>3. n >= q + 1 => n * t >= t * (q + 1)
      <3> SUFFICES ASSUME n >= q + 1 PROVE n * t >= t * (q + 1)
        OBVIOUS
      <3>1. PICK e \in Nat : n = (q + 1) + e
        OBVIOUS
      <3>2. PICK w \in Nat, u \in Nat : w = t * (q + 1) /\ u = t * e
        OBVIOUS
      <3>3. n * t = w + u
        BY <3>1, <3>2
      <3> QED BY <3>2, <3>3
    <2>4. PICK y \in Nat, z \in Nat : y = n * t /\ z = t * (q + 1)
      OBVIOUS
    <2>5. ~(n >= q + 1)
      BY <1>2, <2>2, <2>3, <2>4, WindowAssumption
    <2> QED BY <1>1, <1>2, <2>5
  <1> QED BY <1>3, <1>4

\* The new sample is the last one of both, and of the buffer only the oldest
\* ones may have been dropped.
Pushed(h, s, new, h2, s2) ==
    /\ Len(s2) = Len(s) + 1 /\ s2[Len(s) + 1] = new
    /\ \A i \in 1 .. Len(s) : s2[i] = s[i]
    /\ Len(s) + 1 <= Len(h2) /\ Len(h2) <= Len(h) + 1
    /\ h2[Len(h2)] = new
    /\ \A i \in 1 .. Len(h2) - 1 : h2[i] = h[(Len(h) + 1) - Len(h2) + i]

\* A push keeps the samples of the window.
LEMMA PushFits ==
    ASSUME NEW h \in Seq(Samples), NEW s \in Seq(Samples), NEW new \in Samples, new.age = 0,
           NEW h2 \in Seq(Samples), NEW s2 \in Seq(Samples), Pushed(h, s, new, h2, s2),
           NEW t \in Nat \ {0}, NEW c \in Nat, c >= t,
           Fits(h, s), Inside(s), Falling(s), Spaced(s, c, t)
    PROVE  Fits(h2, s2) /\ Inside(s2) /\ Falling(s2) /\ Spaced(s2, 0, t)
  <1>1. PICK n \in Nat, m \in Nat, k \in Nat : n = Len(s) /\ m = Len(h) /\ k = Len(h2)
    BY LenProperties
  <1>2. /\ Len(s2) = n + 1 /\ s2[n + 1] = new /\ \A i \in 1 .. n : s2[i] = s[i]
    BY <1>1, Zenon DEF Pushed
  <1>3. n + 1 <= k /\ k <= m + 1
    BY <1>1, Zenon DEF Pushed
  <1>4. h2[k] = new /\ \A i \in 1 .. k - 1 : h2[i] = h[(m + 1) - k + i]
    BY <1>1, Zenon DEF Pushed
  <1>5. /\ m - n >= 0 /\ \A i \in 1 .. m - n : h[i].age > Lookback
        /\ \A i \in 1 .. n : h[(m - n) + i] = s[i]
    BY <1>1, Zenon DEF Fits
  <1>6. \A i \in 1 .. n : s2[i].age \in Nat /\ s2[i].age <= Lookback
    <2>0. \A i \in 1 .. n : s[i] \in Samples
      BY <1>1, ElementOfSeq, Zenon
    <2>1. \A i \in 1 .. n : s[i].age \in Nat
      BY <2>0 DEF Samples
    <2>2. \A i \in 1 .. n : s[i].age <= Lookback
      BY <1>1, Zenon DEF Inside
    <2> QED BY <1>2, <2>1, <2>2
  <1>7. s2[n + 1].age = 0
    BY <1>2
  <1>8. \A i \in 1 .. n + 1 : i \in 1 .. n \/ i = n + 1
    OBVIOUS
  <1>9. Fits(h2, s2)
    <2>0. PICK o \in Nat : o = k - (n + 1) /\ o <= m - n
      BY <1>3
    <2>1. o = k - (n + 1) /\ o <= m - n /\ o = Len(h2) - Len(s2)
      BY <1>1, <1>2, <2>0, Zenon
    <2>2. ASSUME NEW i \in 1 .. o PROVE h2[i].age > Lookback
      <3>1. PICK j \in 1 .. m - n : j = (m + 1) - k + i
        BY <1>3, <2>1
      <3>2. i \in 1 .. k - 1
        BY <1>3, <2>1
      <3> QED BY <1>4, <1>5, <3>1, <3>2
    <2>3. ASSUME NEW i \in 1 .. n PROVE h2[o + i] = s2[i]
      <3>1. PICK j \in 1 .. k - 1 : j = o + i /\ (m + 1) - k + j = (m - n) + i
        BY <1>3, <2>1
      <3>2. h2[j] = h[(m - n) + i]
        BY <1>4, <3>1
      <3> QED BY <1>2, <1>5, <3>1, <3>2
    <2>4. h2[o + (n + 1)] = s2[n + 1]
      <3>1. o + (n + 1) = k
        BY <2>1
      <3> QED BY <1>2, <1>4, <3>1
    <2>5. \A i \in 1 .. n + 1 : h2[o + i] = s2[i]
      BY <1>8, <2>3, <2>4, Zenon
    <2>6. \A i \in 1 .. Len(s2) : h2[o + i] = s2[i]
      BY <1>2, <2>5, Zenon
    <2>7. o >= 0
      OBVIOUS
    <2>8. \A i \in 1 .. o : h2[i].age > Lookback
      BY <2>2
    <2> QED BY <2>1, <2>6, <2>7, <2>8, Zenon DEF Fits
  <1>10. Inside(s2)
    <2>1. 0 <= Lookback
      BY WindowAssumption
    <2>2. \A i \in 1 .. n + 1 : s2[i].age <= Lookback
      BY <1>6, <1>7, <1>8, <2>1, Zenon
    <2> QED BY <1>2, <2>2, Zenon DEF Inside
  <1>11. Falling(s2)
    <2>1. ASSUME NEW i \in 1 .. n + 1, NEW j \in 1 .. n + 1, i <= j
          PROVE  s2[j].age <= s2[i].age
      <3>1. CASE j \in 1 .. n
        <4>1. i \in 1 .. n
          BY <2>1, <3>1
        <4>2. s[j].age <= s[i].age
          BY <1>1, <2>1, <3>1, <4>1, Zenon DEF Falling
        <4> QED BY <1>2, <3>1, <4>1, <4>2, Zenon
      <3>2. CASE j = n + 1
        <4>1. PICK a \in Nat : a = s2[i].age
          <5>1. 0 \in Nat
            OBVIOUS
          <5>2. s2[i].age \in Nat
            BY <1>6, <1>7, <1>8, <5>1, Zenon
          <5> QED BY <5>2, Zenon
        <4>2. 0 <= a
          OBVIOUS
        <4> QED BY <1>7, <3>2, <4>1, <4>2, Zenon
      <3> QED BY <1>8, <3>1, <3>2, Zenon
    <2>2. \A i, j \in 1 .. n + 1 : i <= j => s2[j].age <= s2[i].age
      BY <2>1
    <2> QED BY <1>2, <2>2, Zenon DEF Falling
  <1>12. Spaced(s2, 0, t)
    <2>1. ASSUME NEW i \in 1 .. n PROVE s2[i].age >= 0 + ((n + 1) - i) * t
      <3>0. s[i].age >= c + (n - i) * t
        BY <1>1, Zenon DEF Spaced
      <3>1. PICK a \in Nat : a = s2[i].age /\ a >= c + (n - i) * t
        BY <1>2, <1>6, <3>0, Zenon
      <3>2. PICK d \in Nat : d = n - i /\ (n + 1) - i = d + 1
        OBVIOUS
      <3>3. PICK x \in Nat : x = d * t
        OBVIOUS
      <3>4. (n - i) * t = x /\ ((n + 1) - i) * t = x + t
        BY <3>2, <3>3
      <3>5. a >= 0 + (x + t)
        BY <3>1, <3>4
      <3> QED BY <3>1, <3>4, <3>5, Zenon
    <2>2. 0 >= 0 + ((n + 1) - (n + 1)) * t
      OBVIOUS
    <2>3. \A i \in 1 .. n + 1 : s2[i].age >= 0 + ((n + 1) - i) * t
      BY <1>7, <1>8, <2>1, <2>2, Zenon
    <2> QED BY <1>2, <2>3, Zenon DEF Spaced
  <1> QED BY <1>9, <1>10, <1>11, <1>12

\* RunTick's append and trim are such a push, if the window has room.
LEMMA PushIs ==
    ASSUME NEW h \in Seq(Samples), NEW s \in Seq(Samples), NEW new \in Samples,
           NEW price \in Nat \ {0}, new = [age |-> 0, price |-> price],
           cfg.interval \in Int, 1 <= cfg.interval,
           Len(s) <= Lookback \div cfg.interval, Len(s) <= Len(h)
    PROVE  /\ M!PushSample(h, price) \in Seq(Samples) /\ Append(s, new) \in Seq(Samples)
           /\ Pushed(h, s, new, M!PushSample(h, price), Append(s, new))
  <1>1. PICK h2, s2, all : /\ h2 = M!PushSample(h, price) /\ s2 = Append(s, new)
                           /\ all = Append(h, new)
    OBVIOUS
  <1>2. PICK n \in Nat, m \in Nat, q \in Nat :
            n = Len(s) /\ m = Len(h) /\ q = Lookback \div cfg.interval
    BY LenProperties, Quotient, WindowAssumption
  <1>3. /\ s2 \in Seq(Samples) /\ Len(s2) = n + 1 /\ s2[n + 1] = new
        /\ \A i \in 1 .. n : s2[i] = s[i]
    BY <1>1, <1>2, AppendProperties
  <1>4. /\ Len(all) = m + 1 /\ all[m + 1] = new
        /\ \A i \in 1 .. m : all[i] = h[i]
    BY <1>1, <1>2, AppendProperties
  <1>5. /\ h2 \in Seq(Samples)
        /\ M!LookbackSamples(cfg) \in Nat /\ M!LookbackSamples(cfg) >= q + 1
        /\ Len(h2) = IF m + 1 > M!LookbackSamples(cfg) THEN M!LookbackSamples(cfg) ELSE m + 1
        /\ \A i \in 1 .. Len(h2) : h2[i] = all[Len(all) - Len(h2) + i]
    BY <1>1, <1>2, PushKeeps, Zenon
  <1>6. PICK k \in Nat : k = Len(h2) /\ n + 1 <= k /\ k <= m + 1
    <2>1. PICK room \in Nat, k \in Nat : room = M!LookbackSamples(cfg) /\ k = Len(h2)
      BY <1>5, LenProperties
    <2>2. room >= q + 1 /\ k = IF m + 1 > room THEN room ELSE m + 1
      BY <1>5, <2>1, Zenon
    <2>3. n <= q /\ n <= m
      BY <1>2, Zenon
    <2>4. n + 1 <= k /\ k <= m + 1
      BY <2>2, <2>3
    <2> QED BY <2>1, <2>4, Zenon
  <1>7. \A i \in 1 .. k : h2[i] = all[(m + 1) - k + i]
    BY <1>4, <1>5, <1>6, Zenon
  <1>8. h2[k] = new
    <2>1. k \in 1 .. k /\ (m + 1) - k + k = m + 1
      BY <1>6
    <2> QED BY <1>4, <1>7, <2>1
  <1>9. \A i \in 1 .. k - 1 : h2[i] = h[(m + 1) - k + i]
    <2> SUFFICES ASSUME NEW i \in 1 .. k - 1 PROVE h2[i] = h[(m + 1) - k + i]
      OBVIOUS
    <2>1. i \in 1 .. k /\ (m + 1) - k + i \in 1 .. m
      BY <1>6
    <2> QED BY <1>4, <1>7, <2>1, Zenon
  <1>10. Pushed(h, s, new, h2, s2)
    BY <1>2, <1>3, <1>6, <1>8, <1>9, Zenon DEF Pushed
  <1> QED BY <1>1, <1>3, <1>5, <1>10, Zenon

\* A set of natural numbers has a least one.
LEMMA Smallest ==
    ASSUME NEW T \in SUBSET Nat, T # {}
    PROVE  \E n \in T : \A m \in T : n <= m
  <1> DEFINE R == {ss \in Nat \X Nat : ss[1] < ss[2]}
  <1>0. IsWellFoundedOn(R, Nat)
    BY NatLessThanWellFounded DEF OpToRel
  <1> HIDE DEF R
  <1>1. PICK n \in T : \A m \in T : ~(<<m, n>> \in R)
    BY <1>0, WFMin
  <1>2. \A m \in T : ~(m < n)
    BY <1>1 DEF R
  <1> QED BY <1>2

\* r is s without its first d samples, which are those outside the window.
Trimmed(s, r, d) ==
    /\ Len(s) = d + Len(r)
    /\ \A i \in 1 .. Len(r) : r[i] = s[d + i]
    /\ \A i \in 1 .. d : s[i].age > Lookback
    /\ \A i \in 1 .. Len(r) : r[i].age <= Lookback

\* Of samples that come in the order of their time, the ones from the first
\* inside the window on are the ones inside the window.
LEMMA FromInsideIs ==
    ASSUME NEW s \in Seq(Samples), Falling(s)
    PROVE  M!FromInside(s) \in Seq(Samples) /\ \E d \in Nat : Trimmed(s, M!FromInside(s), d)
  <1>1. PICK n \in Nat : n = Len(s) /\ DOMAIN s = 1 .. n
    BY LenProperties
  <1>2. PICK inside : inside = {i \in 1 .. n : s[i].age <= Lookback}
    OBVIOUS
  <1>3. PICK r : r = M!FromInside(s)
    OBVIOUS
  <1>4. \A i \in 1 .. n : s[i] \in Samples /\ s[i].age \in Nat
    <2>1. \A i \in 1 .. n : s[i] \in Samples
      BY <1>1, ElementOfSeq, Zenon
    <2> QED BY <2>1 DEF Samples
  <1>5. CASE inside = {}
    <2>1. r = <<>>
      BY <1>1, <1>2, <1>3, <1>5 DEF M!FromInside
    <2>2. r \in Seq(Samples) /\ Len(r) = 0
      BY <2>1
    <2>3. \A i \in 1 .. n : s[i].age > Lookback
      BY <1>2, <1>4, <1>5, WindowAssumption
    <2>4. Trimmed(s, r, n)
      BY <1>1, <2>2, <2>3 DEF Trimmed
    <2> QED BY <1>3, <2>2, <2>4, Zenon
  <1>6. CASE inside # {}
    <2>1. PICK first \in inside : /\ first = CHOOSE i \in inside : \A j \in inside : i <= j
                                  /\ \A j \in inside : first <= j
      <3>1. \E i \in inside : \A j \in inside : i <= j
        <4>1. inside \in SUBSET Nat
          BY <1>2
        <4> QED BY <1>6, <4>1, Smallest, Zenon
      <3> QED BY <3>1, Zenon
    <2>2. r = SubSeq(s, first, n)
      BY <1>1, <1>2, <1>3, <1>6, <2>1, Zenon DEF M!FromInside
    <2>3. first \in 1 .. n /\ s[first].age <= Lookback
      BY <1>2, <2>1
    <2>4. PICK d \in Nat, k \in Nat : d = first - 1 /\ k = n - d /\ first = d + 1 /\ k >= 1
      BY <2>3
    <2>5. \A i \in first .. n : s[i] \in Samples
      BY <1>4, <2>3
    <2>6. /\ SubSeq(s, first, n) \in Seq(Samples)
          /\ Len(SubSeq(s, first, n)) = IF first <= n THEN n - first + 1 ELSE 0
          /\ \A i \in 1 .. n - first + 1 : SubSeq(s, first, n)[i] = s[first + i - 1]
      <3>1. first \in Int /\ n \in Int
        BY <2>3
      <3> QED BY <2>5, <3>1, SubSeqProperties
    <2>7. r \in Seq(Samples) /\ Len(r) = k /\ \A i \in 1 .. k : r[i] = s[d + i]
      <3>1. n - first + 1 = k /\ first <= n /\ \A i \in 1 .. k : first + i - 1 = d + i
        BY <2>3, <2>4
      <3> QED BY <2>2, <2>6, <3>1, Zenon
    <2>8. ASSUME NEW i \in 1 .. d PROVE s[i].age > Lookback
      <3>1. i \in 1 .. n /\ ~(first <= i)
        BY <2>3, <2>4
      <3>2. ~(s[i].age <= Lookback)
        BY <1>2, <2>1, <3>1
      <3> QED BY <1>4, <3>1, <3>2, WindowAssumption
    <2>9. ASSUME NEW i \in 1 .. k PROVE r[i].age <= Lookback
      <3>1. PICK j \in 1 .. n : j = d + i /\ first <= j
        BY <2>3, <2>4
      <3>2. s[j].age <= s[first].age
        BY <1>1, <2>3, <3>1, Zenon DEF Falling
      <3>3. s[j].age <= Lookback
        BY <1>4, <2>3, <3>1, <3>2, WindowAssumption
      <3> QED BY <2>7, <3>1, <3>3, Zenon
    <2>10. n = d + k
      BY <2>4
    <2>11. Trimmed(s, r, d)
      BY <1>1, <2>7, <2>8, <2>9, <2>10 DEF Trimmed
    <2> QED BY <1>3, <2>7, <2>11, Zenon
  <1> QED BY <1>5, <1>6

\* A sample when a tick of time has passed, and samples that are so.
Aged(r) == [r EXCEPT !.age = IF @ > Lookback THEN @ ELSE @ + 1]
Grown(s, o) == Len(o) = Len(s) /\ \A i \in 1 .. Len(s) : o[i] = Aged(s[i])

\* Ageing a sample.
LEMMA AgedIs ==
    ASSUME NEW r \in Samples
    PROVE  /\ Aged(r) \in Samples
           /\ Aged(r).age = IF r.age > Lookback THEN r.age ELSE r.age + 1
  BY WindowAssumption DEF Aged, Samples

\* Time passing keeps the samples of the window.
LEMMA ClockFits ==
    ASSUME NEW h \in Seq(Samples), NEW s \in Seq(Samples), NEW h2 \in Seq(Samples),
           NEW o \in Seq(Samples), NEW s2 \in Seq(Samples), NEW d \in Nat,
           Grown(h, h2), Grown(s, o), Trimmed(o, s2, d),
           NEW c \in Nat, NEW c2 \in Nat, c2 <= c + 1, NEW t \in Nat \ {0},
           Fits(h, s), Inside(s), Falling(s), Spaced(s, c, t)
    PROVE  Fits(h2, s2) /\ Inside(s2) /\ Falling(s2) /\ Spaced(s2, c2, t)
  <1>1. PICK m \in Nat, n \in Nat, k \in Nat : m = Len(h) /\ n = Len(s) /\ k = Len(s2)
    BY LenProperties
  <1>2. /\ Len(h2) = m /\ \A i \in 1 .. m : h2[i] = Aged(h[i])
        /\ Len(o) = n /\ \A i \in 1 .. n : o[i] = Aged(s[i])
    BY <1>1, Zenon DEF Grown
  <1>3. /\ n = d + k /\ \A i \in 1 .. k : s2[i] = o[d + i] /\ s2[i].age <= Lookback
        /\ \A i \in 1 .. d : o[i].age > Lookback
    BY <1>1, <1>2, Zenon DEF Trimmed
  <1>4. /\ m - n >= 0 /\ \A i \in 1 .. m - n : h[i].age > Lookback
        /\ \A i \in 1 .. n : h[(m - n) + i] = s[i]
    BY <1>1, Zenon DEF Fits
  <1>5. \A i \in 1 .. m : h[i] \in Samples
    BY <1>1, ElementOfSeq, Zenon
  <1>6. \A i \in 1 .. n : s[i] \in Samples /\ s[i].age <= Lookback
    BY <1>1, ElementOfSeq, Zenon DEF Inside
  <1>7. \A i \in 1 .. n : s[i].age \in Nat /\ o[i].age = s[i].age + 1
    <2> SUFFICES ASSUME NEW i \in 1 .. n PROVE s[i].age \in Nat /\ o[i].age = s[i].age + 1
      OBVIOUS
    <2>1. s[i].age \in Nat
      BY <1>6 DEF Samples
    <2>2. o[i].age = IF s[i].age > Lookback THEN s[i].age ELSE s[i].age + 1
      BY <1>2, <1>6, AgedIs, Zenon
    <2> QED BY <1>6, <2>1, <2>2, WindowAssumption
  <1>8. PICK old \in Nat : old = m - k /\ old = (m - n) + d
    BY <1>3, <1>4
  <1>9. Fits(h2, s2)
    <2>1. ASSUME NEW i \in 1 .. m - n PROVE h2[i].age > Lookback
      <3>1. i \in 1 .. m /\ h[i].age > Lookback
        BY <1>4
      <3>2. h[i] \in Samples /\ h2[i] = Aged(h[i])
        BY <1>2, <1>5, <3>1, Zenon
      <3>3. h2[i].age = h[i].age
        BY <3>1, <3>2, AgedIs, Zenon
      <3> QED BY <3>1, <3>3, Zenon
    <2>2. ASSUME NEW i \in 1 .. n PROVE h2[(m - n) + i] = o[i]
      <3>1. PICK j \in 1 .. m : j = (m - n) + i
        BY <1>4
      <3> QED BY <1>2, <1>4, <3>1, Zenon
    <2>3. ASSUME NEW i \in 1 .. old PROVE h2[i].age > Lookback
      <3>1. CASE i \in 1 .. m - n
        BY <2>1, <3>1
      <3>2. CASE i \notin 1 .. m - n
        <4>1. PICK j \in 1 .. d : i = (m - n) + j /\ j \in 1 .. n
          BY <1>3, <1>4, <1>8, <3>2
        <4> QED BY <1>3, <2>2, <4>1, Zenon
      <3> QED BY <3>1, <3>2
    <2>4. ASSUME NEW i \in 1 .. k PROVE h2[old + i] = s2[i]
      <3>1. PICK j \in 1 .. n : j = d + i /\ old + i = (m - n) + j
        BY <1>3, <1>4, <1>8
      <3> QED BY <1>3, <2>2, <3>1, Zenon
    <2>5. old >= 0 /\ old = Len(h2) - Len(s2)
      <3>1. old >= 0
        OBVIOUS
      <3> QED BY <1>1, <1>2, <1>8, <3>1, Zenon
    <2>6. \A i \in 1 .. old : h2[i].age > Lookback
      BY <2>3
    <2>7. \A i \in 1 .. k : h2[old + i] = s2[i]
      BY <2>4
    <2> QED BY <1>1, <2>5, <2>6, <2>7, Zenon DEF Fits
  <1>10. Inside(s2)
    BY <1>1, <1>3, Zenon DEF Inside
  <1>11. Falling(s2)
    <2>1. ASSUME NEW i \in 1 .. k, NEW j \in 1 .. k, i <= j
          PROVE  s2[j].age <= s2[i].age
      <3>0. n = d + k
        BY <1>3
      <3>1. PICK a \in 1 .. n, b \in 1 .. n : a = d + i /\ b = d + j /\ a <= b
        <4>1. d + i \in 1 .. n /\ d + j \in 1 .. n /\ d + i <= d + j
          BY <2>1, <3>0
        <4> QED BY <4>1, Zenon
      <3>2. s[b].age <= s[a].age
        BY <1>1, <3>1, Zenon DEF Falling
      <3>3. o[b].age <= o[a].age
        <4>0. PICK x \in Nat : x = s[a].age /\ o[a].age = x + 1
          BY <1>7, Zenon
        <4>1. PICK y \in Nat : y = s[b].age /\ o[b].age = y + 1
          BY <1>7, Zenon
        <4>2. y + 1 <= x + 1
          <5>1. y <= x
            BY <3>2, <4>0, <4>1, Zenon
          <5> QED BY <5>1
        <4> QED BY <4>0, <4>1, <4>2, Zenon
      <3> QED BY <1>3, <3>1, <3>3, Zenon
    <2>2. \A i, j \in 1 .. k : i <= j => s2[j].age <= s2[i].age
      BY <2>1
    <2> QED BY <1>1, <2>2, Zenon DEF Falling
  <1>12. Spaced(s2, c2, t)
    <2>1. ASSUME NEW i \in 1 .. k PROVE s2[i].age >= c2 + (k - i) * t
      <3>1. PICK j \in 1 .. n : j = d + i /\ n - j = k - i
        BY <1>3
      <3>2. PICK x \in Nat, y \in Nat : x = k - i /\ y = x * t
        OBVIOUS
      <3>3. s[j].age >= c + (n - j) * t
        BY <1>1, Zenon DEF Spaced
      <3>4. PICK a \in Nat : a = s[j].age /\ a >= c + y /\ o[j].age = a + 1
        BY <1>7, <3>1, <3>2, <3>3, Zenon
      <3>5. a + 1 >= c2 + y
        BY <3>4, SMTT(20)
      <3>6. s2[i] = o[j]
        BY <1>3, <3>1, Zenon
      <3> QED BY <3>2, <3>4, <3>5, <3>6, Zenon
    <2>2. \A i \in 1 .. k : s2[i].age >= c2 + (k - i) * t
      BY <2>1
    <2> QED BY <1>1, <2>2, Zenon DEF Spaced
  <1> QED BY <1>9, <1>10, <1>11, <1>12

\* What the samples of the window, the buffer, the time since the last sample
\* and the interval have to do with each other.
WindowGood(h, s, c, t) ==
    /\ h \in Seq(Samples) /\ s \in Seq(Samples)
    /\ Fits(h, s) /\ Inside(s) /\ Falling(s) /\ Spaced(s, c, t)

\* An earlier check and a shorter interval ask for less.
LEMMA SpacedLess ==
    ASSUME NEW h, NEW s, NEW c \in Int, NEW t \in Int, WindowGood(h, s, c, t),
           NEW c2 \in Int, NEW t2 \in Int, c2 <= c, t2 <= t
    PROVE  WindowGood(h, s, c2, t2)
  <1>1. PICK n \in Nat : n = Len(s) /\ s \in Seq(Samples)
    BY LenProperties DEF WindowGood
  <1>2. ASSUME NEW i \in 1 .. n PROVE s[i].age >= c2 + (n - i) * t2
    <2>1. s[i].age \in Nat
      <3>1. s[i] \in Samples
        BY <1>1, ElementOfSeq, Zenon
      <3> QED BY <3>1 DEF Samples
    <2>2. s[i].age >= c + (n - i) * t
      BY <1>1, Zenon DEF WindowGood, Spaced
    <2>3. PICK x \in Nat, e \in Nat : x = n - i /\ t = t2 + e
      OBVIOUS
    <2>4. PICK u \in Int, w \in Nat, z \in Int : u = x * t2 /\ w = x * e /\ z = x * t
      OBVIOUS
    <2>5. z = u + w
      BY <2>3, <2>4
    <2>6. PICK a \in Nat : a = s[i].age /\ a >= c + z
      BY <2>1, <2>2, <2>3, <2>4, Zenon
    <2>7. a >= c2 + u
      BY <2>5, <2>6
    <2> QED BY <2>3, <2>4, <2>6, <2>7, Zenon
  <1>3. \A i \in 1 .. n : s[i].age >= c2 + (n - i) * t2
    BY <1>2
  <1>4. Spaced(s, c2, t2)
    BY <1>1, <1>3, Zenon DEF Spaced
  <1> QED BY <1>4, Zenon DEF WindowGood

\* A step of the task, for a tick that takes a sample.
LEMMA TickWindow ==
    ASSUME NEW price \in Nat \ {0}, M!MomTick(price), checkAge \in Nat,
           cfg.interval \in Int, 1 <= cfg.interval,
           WindowGood(history, samples, checkAge, cfg.interval)
    PROVE  WindowGood(history', samples', checkAge', cfg'.interval)
  <1>1. PICK h, s, new, c, t : /\ h = history /\ s = samples /\ c = checkAge /\ t = cfg.interval
                               /\ new = [age |-> 0, price |-> price]
    OBVIOUS
  <1>2. /\ h \in Seq(Samples) /\ s \in Seq(Samples) /\ c \in Nat /\ t \in Nat \ {0}
        /\ Fits(h, s) /\ Inside(s) /\ Falling(s) /\ Spaced(s, c, t)
    <2>1. t \in Nat \ {0}
      BY <1>1
    <2> QED BY <1>1, <2>1, Zenon DEF WindowGood
  <1>3. c >= t
    BY <1>1 DEF M!MomTick, M!Due
  <1>4. PICK h2, s2 : h2 = M!PushSample(h, price) /\ s2 = Append(s, new)
    OBVIOUS
  <1>5. history' = h2 /\ samples' = s2 /\ checkAge' = 0 /\ cfg' = cfg
    BY <1>1, <1>4 DEF M!MomTick
  <1>6. new \in Samples /\ new.age = 0
    BY <1>1 DEF Samples
  <1>7. Len(s) <= Lookback \div cfg.interval
    <2>1. Len(s) <= Lookback \div t
      BY <1>2, <1>3, FewSamples
    <2> QED BY <1>1, <2>1
  <1>8. Len(s) <= Len(h)
    <2>1. PICK n \in Nat, m \in Nat : n = Len(s) /\ m = Len(h)
      BY <1>2, LenProperties
    <2>2. m - n >= 0
      BY <1>2, <2>1, Zenon DEF Fits
    <2> QED BY <2>1, <2>2
  <1>9. h2 \in Seq(Samples) /\ s2 \in Seq(Samples) /\ Pushed(h, s, new, h2, s2)
    BY <1>1, <1>2, <1>4, <1>6, <1>7, <1>8, PushIs, Zenon
  <1>10. Fits(h2, s2) /\ Inside(s2) /\ Falling(s2) /\ Spaced(s2, 0, t)
    BY <1>2, <1>3, <1>6, <1>9, PushFits
  <1> QED BY <1>1, <1>5, <1>9, <1>10, Zenon DEF WindowGood

\* The same, for the clock.
LEMMA ClockWindow ==
    ASSUME M!MomClock, checkAge \in 0 .. MaxInterval,
           cfg.interval \in Int, 1 <= cfg.interval,
           WindowGood(history, samples, checkAge, cfg.interval)
    PROVE  WindowGood(history', samples', checkAge', cfg'.interval)
  <1>1. PICK h, s, c, t : h = history /\ s = samples /\ c = checkAge /\ t = cfg.interval
    OBVIOUS
  <1>2. /\ h \in Seq(Samples) /\ s \in Seq(Samples) /\ c \in Nat /\ t \in Nat \ {0}
        /\ Fits(h, s) /\ Inside(s) /\ Falling(s) /\ Spaced(s, c, t)
    <2>1. t \in Nat \ {0} /\ c \in Nat
      BY <1>1, IntervalAssumption
    <2> QED BY <1>1, <2>1, Zenon DEF WindowGood
  <1>3. PICK m \in Nat, n \in Nat : /\ m = Len(h) /\ DOMAIN h = 1 .. m
                                    /\ n = Len(s) /\ DOMAIN s = 1 .. n
    BY <1>2, LenProperties
  <1>4. PICK h2, o : /\ h2 = [i \in 1 .. m |-> Aged(h[i])]
                     /\ o = [i \in 1 .. n |-> Aged(s[i])]
    OBVIOUS
  <1>5. history' = h2 /\ samples' = M!FromInside(o) /\ cfg' = cfg
    BY <1>1, <1>3, <1>4 DEF M!MomClock, Aged
  <1>6. \A i \in 1 .. m : Aged(h[i]) \in Samples
    <2>1. \A i \in 1 .. m : h[i] \in Samples
      BY <1>2, <1>3, ElementOfSeq, Zenon
    <2> QED BY <2>1, AgedIs, Zenon
  <1>7. \A i \in 1 .. n : Aged(s[i]) \in Samples
    <2>1. \A i \in 1 .. n : s[i] \in Samples
      BY <1>2, <1>3, ElementOfSeq, Zenon
    <2> QED BY <2>1, AgedIs, Zenon
  <1>8. /\ h2 \in Seq(Samples) /\ Len(h2) = m /\ \A i \in 1 .. m : h2[i] = Aged(h[i])
        /\ o \in Seq(Samples) /\ Len(o) = n /\ \A i \in 1 .. n : o[i] = Aged(s[i])
    BY <1>4, <1>6, <1>7
  <1>9. Grown(h, h2) /\ Grown(s, o)
    BY <1>3, <1>8, Zenon DEF Grown
  <1>10. Falling(o)
    <2>1. \A i \in 1 .. n : s[i] \in Samples
      BY <1>2, <1>3, ElementOfSeq, Zenon
    <2>2. ASSUME NEW i \in 1 .. n, NEW j \in 1 .. n, i <= j
          PROVE  o[j].age <= o[i].age
      <3>1. s[j].age <= s[i].age
        BY <1>2, <1>3, <2>2, Zenon DEF Falling
      <3>2. PICK a \in Nat, b \in Nat : a = s[i].age /\ b = s[j].age
        BY <2>1 DEF Samples
      <3>3. o[i].age = IF a > Lookback THEN a ELSE a + 1
        BY <1>8, <2>1, <3>2, AgedIs, Zenon
      <3>4. o[j].age = IF b > Lookback THEN b ELSE b + 1
        BY <1>8, <2>1, <3>2, AgedIs, Zenon
      <3>5. b <= a
        BY <3>1, <3>2, Zenon
      <3> QED BY <3>3, <3>4, <3>5, WindowAssumption
    <2>3. \A i, j \in 1 .. n : i <= j => o[j].age <= o[i].age
      BY <2>2
    <2> QED BY <1>8, <2>3, Zenon DEF Falling
  <1>11. PICK s2 : s2 = M!FromInside(o)
    OBVIOUS
  <1>12. s2 \in Seq(Samples) /\ \E d \in Nat : Trimmed(o, s2, d)
    BY <1>8, <1>10, <1>11, FromInsideIs, Zenon
  <1>13. PICK d \in Nat : Trimmed(o, s2, d)
    BY <1>12
  <1>14. PICK c2 \in Nat : c2 = checkAge' /\ c2 <= c + 1
    BY <1>1, IntervalAssumption DEF M!MomClock, M!Older
  <1>15. Fits(h2, s2) /\ Inside(s2) /\ Falling(s2) /\ Spaced(s2, c2, t)
    BY <1>2, <1>8, <1>9, <1>12, <1>13, <1>14, ClockFits
  <1> QED BY <1>1, <1>5, <1>8, <1>11, <1>12, <1>14, <1>15, Zenon DEF WindowGood

\* The same, for every step of a momentum task that leaves the interval as
\* short as it was.
LEMMA MomentumWindow ==
    ASSUME MomentumStep, ConfigOK, kind \in Registered, kind # None, ~raised',
           ~raised => WindowGood(history, samples, checkAge, cfg.interval)
    PROVE  WindowGood(history', samples', checkAge', cfg'.interval)
  <1>1. kind = "momentum" /\ checkAge \in 0 .. MaxInterval /\ checkAge \in Nat
    BY IntervalAssumption DEF MomentumStep, ConfigOK
  <1>2. cfg.interval \in Int /\ 1 <= cfg.interval
    BY ValidFields DEF ConfigOK
  <1>3. WindowGood(history, samples, checkAge, cfg.interval)
    <2>1. CASE raised' = raised
      BY <2>1, Zenon
    <2>2. CASE \E adj \in Adjustments : M!MomApplyAdjustments(adj)
      BY <2>2, Zenon DEF M!MomApplyAdjustments
    <2>3. raised' = raised \/ \E adj \in Adjustments : M!MomApplyAdjustments(adj)
      BY DEF MomentumStep, MomStep, M!MomTickFails, M!MomTickEarly, M!MomCloseAll, M!MomClock,
             M!MomMidnight, M!MomTick
    <2> QED BY <2>1, <2>2, <2>3
  <1>4. CASE M!MomTickFails \/ M!MomTickEarly \/ M!MomCloseAll \/ M!MomMidnight
    <2>1. /\ history' = history /\ samples' = samples /\ cfg' = cfg
          /\ checkAge' = checkAge \/ checkAge' = 0
      BY <1>4 DEF M!MomTickFails, M!MomTickEarly, M!MomCloseAll, M!MomMidnight
    <2>2. PICK c2 \in Int : c2 = checkAge' /\ c2 <= checkAge
      BY <1>1, <2>1
    <2>3. WindowGood(history, samples, c2, cfg.interval)
      BY <1>1, <1>2, <1>3, <2>2, SpacedLess
    <2> QED BY <2>1, <2>2, <2>3, Zenon
  <1>5. CASE M!MomClock
    BY <1>1, <1>2, <1>3, <1>5, ClockWindow
  <1>6. CASE \E price \in Nat \ {0} : M!MomTick(price)
    BY <1>1, <1>2, <1>3, <1>6, TickWindow
  <1>7. CASE \E adj \in Adjustments : M!MomApplyAdjustments(adj)
    <2>1. PICK adj \in Adjustments : M!MomApplyAdjustments(adj)
      BY <1>7
    <2>2. history' = history /\ samples' = samples /\ checkAge' = checkAge
      BY <2>1 DEF M!MomApplyAdjustments
    <2>3. cfg' \in [Fields("momentum") -> Int]
      BY <1>1, <2>1, AdjustmentKeeps DEF ConfigOK
    <2>4. "interval" \in Fields("momentum")
      BY DEF Fields, M!MomEnvelope
    <2>5. PICK t2 \in Int : t2 = cfg'.interval
      BY <2>3, <2>4
    <2>6. t2 <= cfg.interval
      <3>1. ~(cfg'.interval > cfg.interval)
        BY <2>1 DEF M!MomApplyAdjustments
      <3> QED BY <1>2, <2>5, <3>1
    <2>7. WindowGood(history, samples, checkAge, t2)
      BY <1>1, <1>2, <1>3, <2>6, SpacedLess
    <2> QED BY <2>2, <2>5, <2>7, Zenon
  <1> QED BY <1>4, <1>5, <1>6, <1>7 DEF MomentumStep, MomStep

WindowOK ==
    /\ kind = None => history = <<>> /\ samples = <<>>
    /\ kind = "momentum" /\ ~raised =>
         WindowGood(history, samples, checkAge, cfg.interval)

\* As long as no adjustment has lengthened the interval of a momentum task, its
\* ring buffer ends with all the samples of the lookback window, for every
\* window, interval and pattern of missed ticks: samples are at least an
\* interval apart, so the window never holds more of them than the buffer has
\* room for (WindowComplete; momentum.go:266-283).
THEOREM WindowHolds == BacktestSpec => []WindowComplete
  <1>0. \A name \in Registered : name # None
    BY NoneAssumption
  <1>1. BacktestInit => WindowOK
    BY <1>0 DEF BacktestInit, Init, M!MomInit, WindowOK, Registered
  <1>2. EngineOK /\ ConfigOK /\ WindowOK /\ [BacktestNext]_<<vars, backtestVars>> => WindowOK'
    <2> SUFFICES ASSUME EngineOK, ConfigOK, WindowOK, [BacktestNext]_<<vars, backtestVars>>
                 PROVE  WindowOK'
      OBVIOUS
    <2>1. CASE UNCHANGED vars
      BY <2>1 DEF vars, WindowOK
    <2>2. CASE BuildStep
      <3>1. PICK name \in Registered :
                \E raws \in SUBSET [Fields(name) -> Int] : Build(name, raws)
        BY <2>2 DEF BuildStep
      <3>2. kind' = name /\ history' = <<>> /\ samples' = <<>>
        BY <3>1 DEF Build, WindowOK
      <3>3. WindowGood(<<>>, <<>>, checkAge', cfg'.interval)
        <4>1. <<>> \in Seq(Samples) /\ Len(<<>>) = 0
          OBVIOUS
        <4> QED BY <4>1 DEF WindowGood, Fits, Inside, Falling, Spaced
      <3> QED BY <1>0, <3>2, <3>3 DEF WindowOK
    <2>3. CASE MomentumStep
      <3>1. kind = "momentum" /\ kind' = kind /\ kind \in Registered /\ kind # None
        BY <1>0, <2>3 DEF MomentumStep, otherVars, Registered
      <3>2. ~raised' => WindowGood(history', samples', checkAge', cfg'.interval)
        BY <2>3, <3>1, MomentumWindow DEF WindowOK
      <3> QED BY <3>1, <3>2 DEF WindowOK
    <2>4. CASE AsLiquidityProvision \/ AsCrossChainYield \/ AsLiquidationHunting
      <3>1. kind' = kind /\ kind \in Registered \ {"momentum"}
        BY <2>4 DEF AsLiquidityProvision, AsCrossChainYield, AsLiquidationHunting, Registered
      <3> QED BY <1>0, <3>1 DEF WindowOK
    <2> QED BY <2>1, <2>2, <2>3, <2>4, StepIsTaskStep DEF TaskStep, vars
  <1>3. WindowOK => WindowComplete
    <2> SUFFICES ASSUME WindowOK, kind = "momentum", ~raised
                 PROVE  M!WindowComplete
      BY DEF WindowComplete, M!WindowComplete
    <2>1. /\ samples \in Seq(Samples) /\ Fits(history, samples) /\ Inside(samples)
      BY DEF WindowOK, WindowGood
    <2>2. DOMAIN samples = 1 .. Len(samples)
      BY <2>1, LenProperties
    <2> QED BY <2>1, <2>2, Zenon DEF M!WindowComplete, Fits, Inside
  <1> QED BY <1>1, <1>2, <1>3, EngineSafe, ConfigSafe, PTL DEF BacktestSpec

=============================================================================
