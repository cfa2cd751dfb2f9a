-------------------------- MODULE IntelligenceProofs --------------------------
(***************************************************************************)
(* Proofs about the intelligence package: what the accuracy of a source is  *)
(* computed from, that the index of the knowledge graph agrees with its     *)
(* edges, and that the audit of a snapshot agrees with its digests.         *)
(***************************************************************************)
EXTENDS Intelligence, SequenceTheorems, FiniteSetTheorems, WellFoundedInduction, TLAPS

-----------------------------------------------------------------------------
(* Induction.                                                               *)

\* A set of natural numbers has a least one.
LEMMA Least ==
    ASSUME NEW T \in SUBSET Nat, T # {}
    PROVE  \E n \in T : \A m \in T : n <= m
  <1> DEFINE R == {ss \in Nat \X Nat : ss[1] < ss[2]}
  <1>0. IsWellFoundedOn(R, Nat)
    BY NatLessThanWellFounded DEF OpToRel
  <1> HIDE DEF R
  <1>1. PICK n \in T : \A m \in T : ~(<<m, n>> \in R)
    BY <1>0, WFMin
  <1>2. \A m \in T : ~(m < n)
    BY <1>1 DEF R
  <1> QED BY <1>2

\* Induction on the natural numbers, for a set.
LEMMA NatInd ==
    ASSUME NEW T \in SUBSET Nat, 0 \in T, \A n \in T : n + 1 \in T
    PROVE  \A n \in Nat : n \in T
  <1> SUFFICES ASSUME Nat \ T # {} PROVE FALSE
    OBVIOUS
  <1>1. PICK n \in Nat \ T : \A m \in Nat \ T : n <= m
    BY Least
  <1>2. n # 0 /\ n - 1 \in Nat
    BY <1>1
  <1>3. n - 1 \in T
    BY <1>1, <1>2
  <1>4. n - 1 + 1 \in T /\ n - 1 + 1 = n
    BY <1>2, <1>3
  <1> QED BY <1>1, <1>4

\* A sequence is empty, or ends with an element.
LEMMA SeqEnds ==
    ASSUME NEW A, NEW s \in Seq(A), s # <<>>
    PROVE  \E r \in Seq(A), x \in A : s = Append(r, x) /\ Len(s) = Len(r) + 1
  <1>1. PICK n \in Nat : n = Len(s) /\ n # 0
    BY LenProperties, EmptySeq
  <1>2. \A i \in 1 .. n : s[i] \in A
    BY <1>1, ElementOfSeq
  <1>3. PICK r : r = [i \in 1 .. n - 1 |-> s[i]]
    OBVIOUS
  <1>4. n - 1 \in Nat
    BY <1>1
  <1>5. r \in Seq(A) /\ Len(r) = n - 1 /\ \A i \in 1 .. n - 1 : r[i] = s[i]
    BY <1>2, <1>3, <1>4
  <1>6. s[n] \in A
    BY <1>1, <1>2
  <1>7. PICK x \in A : x = s[n]
    BY <1>6
  <1>8. PICK t : t = Append(r, x)
    OBVIOUS
  <1>9. /\ t \in Seq(A) /\ Len(t) = (n - 1) + 1 /\ t[(n - 1) + 1] = x
        /\ \A i \in 1 .. n - 1 : t[i] = r[i]
    BY <1>5, <1>8, AppendProperties
  <1>10. (n - 1) + 1 = n
    BY <1>4
  <1>11. Len(t) = Len(s) /\ \A i \in 1 .. Len(s) : t[i] = s[i]
    <2>1. \A i \in 1 .. n : i \in 1 .. n - 1 \/ i = n
      BY <1>1
    <2> QED BY <1>1, <1>5, <1>7, <1>9, <1>10, <2>1, Zenon
  <1>12. t = s
    BY <1>9, <1>11, SeqEqual
  <1> QED BY <1>1, <1>5, <1>8, <1>10, <1>12, Zenon

\* Induction on sequences, for a set.
LEMMA SeqInd ==
    ASSUME NEW A, NEW T, <<>> \in T, \A s \in Seq(A), x \in A : s \in T => Append(s, x) \in T
    PROVE  \A s \in Seq(A) : s \in T
  <1> DEFINE N == {n \in Nat : \A s \in Seq(A) : Len(s) = n => s \in T}
  <1>1. 0 \in N
    <2>1. \A s \in Seq(A) : Len(s) = 0 => s = <<>>
      BY EmptySeq
    <2> QED BY <2>1
  <1>2. ASSUME NEW n \in N PROVE n + 1 \in N
    <2>1. ASSUME NEW s \in Seq(A), Len(s) = n + 1 PROVE s \in T
      <3>1. s # <<>>
        BY <1>2, <2>1
      <3>2. PICK r \in Seq(A), x \in A : s = Append(r, x) /\ Len(s) = Len(r) + 1
        BY <3>1, SeqEnds
      <3>3. Len(r) = n
        BY <1>2, <2>1, <3>2, LenProperties
      <3>4. r \in T
        BY <1>2, <3>3
      <3> QED BY <3>2, <3>4
    <2> QED BY <1>2, <2>1
  <1>3. \A n \in Nat : n \in N
    <2>1. N \in SUBSET Nat
      OBVIOUS
    <2> HIDE DEF N
    <2> QED BY <1>1, <1>2, <2>1, NatInd
  <1> QED BY <1>3, LenProperties

-----------------------------------------------------------------------------
(* What is kept of a sequence.                                              *)

KeepStep(g, seq, S, n) ==
    g[n] = IF n = 0 THEN <<>>
           ELSE IF seq[n] \in S THEN Append(g[n - 1], seq[n]) ELSE g[n - 1]
IsKeep(g, seq, S) ==
    g = [n \in 0 .. Len(seq) |->
            IF n = 0 THEN <<>>
            ELSE IF seq[n] \in S THEN Append(g[n - 1], seq[n]) ELSE g[n - 1]]

\* The recursive function of Keep exists and has sequences as its values.
LEMMA KeepExists ==
    ASSUME NEW A, NEW seq \in Seq(A), NEW S
    PROVE  \E g \in [0 .. Len(seq) -> Seq(A)] : IsKeep(g, seq, S)
  <1>0. PICK len \in Nat : len = Len(seq) /\ \A i \in 1 .. len : seq[i] \in A
    BY LenProperties, ElementOfSeq
  <1> DEFINE T == {n \in Nat : n <= len =>
                       \E g \in [0 .. n -> Seq(A)] : \A k \in 0 .. n : KeepStep(g, seq, S, k)}
  <1>1. 0 \in T
    <2>1. [k \in 0 .. 0 |-> <<>>] \in [0 .. 0 -> Seq(A)]
      OBVIOUS
    <2>2. \A k \in 0 .. 0 : KeepStep([j \in 0 .. 0 |-> <<>>], seq, S, k)
      BY DEF KeepStep
    <2> QED BY <2>1, <2>2
  <1>2. ASSUME NEW n \in T PROVE n + 1 \in T
    <2> SUFFICES ASSUME n + 1 <= len
                 PROVE  \E g \in [0 .. n + 1 -> Seq(A)] :
                            \A k \in 0 .. n + 1 : KeepStep(g, seq, S, k)
      <3>1. n + 1 \in Nat
        BY <1>2
      <3> QED BY <3>1, Zenon
    <2>0. n \in Nat /\ n <= len
      BY <1>2
    <2>1. PICK g \in [0 .. n -> Seq(A)] : \A k \in 0 .. n : KeepStep(g, seq, S, k)
      BY <1>2, <2>0
    <2>2. PICK last : last = IF seq[n + 1] \in S THEN Append(g[n], seq[n + 1]) ELSE g[n]
      OBVIOUS
    <2>3. last \in Seq(A)
      <3>1. seq[n + 1] \in A /\ g[n] \in Seq(A)
        BY <1>0, <2>0
      <3>2. Append(g[n], seq[n + 1]) \in Seq(A)
        BY <3>1, AppendProperties
      <3> QED BY <2>2, <3>1, <3>2
    <2>4. PICK h : h = [k \in 0 .. n + 1 |-> IF k = n + 1 THEN last ELSE g[k]]
      OBVIOUS
    <2>5. h \in [0 .. n + 1 -> Seq(A)]
      BY <2>0, <2>3, <2>4
    <2>6. h[n + 1] = last /\ \A k \in 0 .. n : h[k] = g[k]
      BY <2>0, <2>4
    <2>7. ASSUME NEW k \in 0 .. n PROVE KeepStep(h, seq, S, k)
      <3>1. KeepStep(g, seq, S, k) /\ h[k] = g[k]
        BY <2>1, <2>6
      <3>2. k # 0 => k - 1 \in 0 .. n
        BY <2>0
      <3> QED BY <2>6, <3>1, <3>2, Zenon DEF KeepStep
    <2>8. KeepStep(h, seq, S, n + 1)
      <3>1. n + 1 # 0 /\ (n + 1) - 1 = n /\ n \in 0 .. n
        BY <2>0
      <3> QED BY <2>2, <2>6, <3>1, Zenon DEF KeepStep
    <2>9. \A k \in 0 .. n + 1 : k \in 0 .. n \/ k = n + 1
      BY <2>0
    <2> QED BY <2>5, <2>7, <2>8, <2>9, Zenon
  <1>3. len \in T
    <2>1. T \in SUBSET Nat
      OBVIOUS
    <2> HIDE DEF T
    <2> QED BY <1>1, <1>2, <2>1, NatInd
  <1>4. PICK g \in [0 .. len -> Seq(A)] : \A k \in 0 .. len : KeepStep(g, seq, S, k)
    <2>1. len <= len
      OBVIOUS
    <2> QED BY <1>3, <2>1, Zenon
  <1>5. g = [n \in 0 .. len |-> IF n = 0 THEN <<>>
                ELSE IF seq[n] \in S THEN Append(g[n - 1], seq[n]) ELSE g[n - 1]]
    <2>1. g = [n \in 0 .. len |-> g[n]]
      OBVIOUS
    <2> QED BY <1>4, <2>1, Zenon DEF KeepStep
  <1> QED BY <1>0, <1>4, <1>5, Zenon DEF IsKeep

\* Keep is a value of such a function.
LEMMA KeepIs ==
    ASSUME NEW A, NEW seq \in Seq(A), NEW S
    PROVE  \E g : /\ \A n \in 0 .. Len(seq) : KeepStep(g, seq, S, n)
                  /\ Keep(seq, S) = g[Len(seq)]
  <1>1. Keep(seq, S) = (CHOOSE g : IsKeep(g, seq, S))[Len(seq)]
    BY DEF Keep, IsKeep
  <1>2. PICK g : g = CHOOSE f : IsKeep(f, seq, S)
    OBVIOUS
  <1>3. IsKeep(g, seq, S)
    <2>1. \E f : IsKeep(f, seq, S)
      BY KeepExists
    <2> QED BY <1>2, <2>1, Zenon
  <1>4. \A n \in 0 .. Len(seq) : KeepStep(g, seq, S, n)
    <2> SUFFICES ASSUME NEW n \in 0 .. Len(seq) PROVE KeepStep(g, seq, S, n)
      OBVIOUS
    <2>1. PICK f : f = [m \in 0 .. Len(seq) |-> IF m = 0 THEN <<>>
                ELSE IF seq[m] \in S THEN Append(g[m - 1], seq[m]) ELSE g[m - 1]]
      OBVIOUS
    <2>2. f = g
      BY <1>3, <2>1, Zenon DEF IsKeep
    <2>3. f[n] = IF n = 0 THEN <<>>
                 ELSE IF seq[n] \in S THEN Append(g[n - 1], seq[n]) ELSE g[n - 1]
      BY <2>1
    <2> QED BY <2>2, <2>3, Zenon DEF KeepStep
  <1> QED BY <1>1, <1>2, <1>4, Zenon

\* Of nothing, nothing is kept.
LEMMA KeepEmpty ==
    ASSUME NEW S
    PROVE  Keep(<<>>, S) = <<>>
  <1>1. <<>> \in Seq({}) /\ Len(<<>>) = 0 /\ 0 \in 0 .. 0
    OBVIOUS
  <1>2. PICK s : s = <<>>
    OBVIOUS
  <1>3. PICK g : /\ \A n \in 0 .. Len(s) : KeepStep(g, s, S, n)
                 /\ Keep(s, S) = g[Len(s)]
    BY <1>1, <1>2, KeepIs, Zenon
  <1>4. Keep(s, S) = g[0] /\ KeepStep(g, s, S, 0)
    BY <1>1, <1>2, <1>3, Zenon
  <1>5. g[0] = <<>>
    BY <1>4 DEF KeepStep
  <1> QED BY <1>2, <1>4, <1>5, Zenon

\* The last element is kept or not, whatever was kept before it.
LEMMA KeepAppend ==
    ASSUME NEW A, NEW s \in Seq(A), NEW x \in A, NEW S
    PROVE  Keep(Append(s, x), S) = IF x \in S THEN Append(Keep(s, S), x) ELSE Keep(s, S)
  <1>0. PICK t : t = Append(s, x)
    OBVIOUS
  <1>1. PICK n \in Nat : n = Len(s) /\ t = Append(s, x)
    BY <1>0, LenProperties
  <1>2. /\ t \in Seq(A) /\ Len(t) = n + 1 /\ t[n + 1] = x
        /\ \A i \in 1 .. n : t[i] = s[i]
    BY <1>1, AppendProperties
  <1>3. PICK g : /\ \A i \in 0 .. n : KeepStep(g, s, S, i)
                 /\ Keep(s, S) = g[n]
    BY <1>1, KeepIs, Zenon
  <1>4. PICK h : /\ \A i \in 0 .. n + 1 : KeepStep(h, t, S, i)
                 /\ Keep(t, S) = h[n + 1]
    BY <1>2, KeepIs, Zenon
  <1> DEFINE T == {i \in Nat : i <= n => h[i] = g[i]}
  <1>5. 0 \in T
    <2>1. 0 \in 0 .. n /\ 0 \in 0 .. n + 1
      OBVIOUS
    <2>2. h[0] = g[0]
      BY <1>3, <1>4, <2>1, Zenon DEF KeepStep
    <2> QED BY <2>2
  <1>6. ASSUME NEW i \in T PROVE i + 1 \in T
    <2> SUFFICES ASSUME i + 1 <= n PROVE h[i + 1] = g[i + 1]
      BY <1>6
    <2>1. /\ i + 1 \in 0 .. n /\ i + 1 \in 0 .. n + 1 /\ i + 1 \in 1 .. n
          /\ i + 1 # 0 /\ (i + 1) - 1 = i
      BY <1>6
    <2>2. h[i] = g[i]
      BY <1>6
    <2>3. g[i + 1] = IF s[i + 1] \in S THEN Append(g[i], s[i + 1]) ELSE g[i]
      BY <1>3, <2>1, Zenon DEF KeepStep
    <2>4. h[i + 1] = IF t[i + 1] \in S THEN Append(h[i], t[i + 1]) ELSE h[i]
      BY <1>4, <2>1, Zenon DEF KeepStep
    <2>5. t[i + 1] = s[i + 1]
      BY <1>2, <2>1, Zenon
    <2> QED BY <2>2, <2>3, <2>4, <2>5
  <1>7. h[n] = g[n]
    <2>1. T \in SUBSET Nat
      OBVIOUS
    <2>2. n \in T
      <3> HIDE DEF T
      <3> QED BY <1>5, <1>6, <2>1, NatInd
    <2> QED BY <2>2
  <1>8. h[n + 1] = IF t[n + 1] \in S THEN Append(h[n], t[n + 1]) ELSE h[n]
    <2>1. n + 1 \in 0 .. n + 1 /\ n + 1 # 0 /\ (n + 1) - 1 = n
      OBVIOUS
    <2> QED BY <1>4, <2>1, Zenon DEF KeepStep
  <1> QED BY <1>1, <1>2, <1>3, <1>4, <1>7, <1>8, Zenon

Elems(s) == {s[i] : i \in 1 .. Len(s)}
Once(s) == \A i, j \in 1 .. Len(s) : s[i] = s[j] => i = j

\* The elements of a sequence that has grown by one.
LEMMA AppendElems ==
    ASSUME NEW A, NEW s \in Seq(A), NEW x \in A
    PROVE  /\ Append(s, x) \in Seq(A)
           /\ Elems(Append(s, x)) = Elems(s) \cup {x}
           /\ Once(Append(s, x)) <=> Once(s) /\ x \notin Elems(s)
  <1>0. PICK t : t = Append(s, x)
    OBVIOUS
  <1>1. PICK n \in Nat : n = Len(s) /\ t = Append(s, x)
    BY <1>0, LenProperties
  <1>2. /\ t \in Seq(A) /\ Len(t) = n + 1 /\ t[n + 1] = x
        /\ \A i \in 1 .. n : t[i] = s[i]
    BY <1>1, AppendProperties
  <1>3. /\ \A i \in 1 .. n + 1 : i \in 1 .. n \/ i = n + 1
        /\ \A i \in 1 .. n : i \in 1 .. n + 1 /\ i # n + 1
        /\ n + 1 \in 1 .. n + 1
    OBVIOUS
  <1>4. Elems(t) = Elems(s) \cup {x}
    BY <1>1, <1>2, <1>3, Zenon DEF Elems
  <1>5. Once(s) <=> \A i, j \in 1 .. n : s[i] = s[j] => i = j
    BY <1>1, Zenon DEF Once
  <1>6. Once(t) <=> \A i, j \in 1 .. n + 1 : t[i] = t[j] => i = j
    BY <1>2, Zenon DEF Once
  <1>7. x \in Elems(s) <=> \E i \in 1 .. n : s[i] = x
    BY <1>1, Zenon DEF Elems
  <1>8. Once(t) => Once(s) /\ x \notin Elems(s)
    <2> SUFFICES ASSUME Once(t) PROVE Once(s) /\ x \notin Elems(s)
      OBVIOUS
    <2>1. \A i, j \in 1 .. n : s[i] = s[j] => i = j
      <3> SUFFICES ASSUME NEW i \in 1 .. n, NEW j \in 1 .. n, s[i] = s[j] PROVE i = j
        OBVIOUS
      <3>1. t[i] = t[j] /\ i \in 1 .. n + 1 /\ j \in 1 .. n + 1
        BY <1>2, <1>3, Zenon
      <3> QED BY <1>6, <3>1, Zenon
    <2>2. \A i \in 1 .. n : s[i] # x
      <3> SUFFICES ASSUME NEW i \in 1 .. n, s[i] = x PROVE FALSE
        OBVIOUS
      <3>1. t[i] = t[n + 1] /\ i \in 1 .. n + 1 /\ i # n + 1
        BY <1>2, <1>3, Zenon
      <3> QED BY <1>3, <1>6, <3>1, Zenon
    <2> QED BY <1>5, <1>7, <2>1, <2>2, Zenon
  <1>9. Once(s) /\ x \notin Elems(s) => Once(t)
    <2> SUFFICES ASSUME Once(s), x \notin Elems(s),
                        NEW i \in 1 .. n + 1, NEW j \in 1 .. n + 1, t[i] = t[j]
                 PROVE  i = j
      BY <1>6, Zenon
    <2>1. CASE i \in 1 .. n /\ j \in 1 .. n
      BY <1>2, <1>5, <2>1, Zenon
    <2>2. CASE i \in 1 .. n /\ j = n + 1
      BY <1>2, <1>7, <2>2, Zenon
    <2>3. CASE i = n + 1 /\ j \in 1 .. n
      BY <1>2, <1>7, <2>3, Zenon
    <2> QED BY <1>3, <2>1, <2>2, <2>3, Zenon
  <1> QED BY <1>1, <1>2, <1>4, <1>8, <1>9, Zenon

\* What is kept: the elements that are in the set, each as often as before.
LEMMA KeepElems ==
    ASSUME NEW A, NEW s \in Seq(A), NEW S
    PROVE  /\ Keep(s, S) \in Seq(A)
           /\ Elems(Keep(s, S)) = Elems(s) \cap S
           /\ Once(s) => Once(Keep(s, S))
  <1> DEFINE Good(r) == /\ Keep(r, S) \in Seq(A)
                        /\ Elems(Keep(r, S)) = Elems(r) \cap S
                        /\ Once(r) => Once(Keep(r, S))
             T == {r \in Seq(A) : Good(r)}
  <1>1. <<>> \in T
    <2>1. Keep(<<>>, S) = <<>>
      BY KeepEmpty
    <2>2. <<>> \in Seq(A) /\ Elems(<<>>) = {}
      BY DEF Elems
    <2> QED BY <2>1, <2>2
  <1>2. ASSUME NEW r \in Seq(A), NEW x \in A, r \in T PROVE Append(r, x) \in T
    <2>0. PICK t, k, k2 : t = Append(r, x) /\ k = Keep(r, S) /\ k2 = Keep(t, S)
      OBVIOUS
    <2>1. k \in Seq(A) /\ Elems(k) = Elems(r) \cap S /\ (Once(r) => Once(k))
      BY <1>2, <2>0
    <2>2. k2 = IF x \in S THEN Append(k, x) ELSE k
      BY <2>0, KeepAppend, Zenon
    <2>3. t \in Seq(A) /\ Elems(t) = Elems(r) \cup {x} /\ (Once(t) <=> Once(r) /\ x \notin Elems(r))
      <3>1. /\ Append(r, x) \in Seq(A) /\ Elems(Append(r, x)) = Elems(r) \cup {x}
            /\ (Once(Append(r, x)) <=> Once(r) /\ x \notin Elems(r))
        BY AppendElems
      <3>2. t = Append(r, x)
        BY <2>0
      <3> QED BY <3>1, <3>2
    <2>4. CASE x \in S
      <3>1. k2 = Append(k, x)
        BY <2>2, <2>4
      <3>2. /\ k2 \in Seq(A) /\ Elems(k2) = Elems(k) \cup {x}
            /\ (Once(k2) <=> Once(k) /\ x \notin Elems(k))
        BY <2>1, <3>1, AppendElems, Zenon
      <3>3. Elems(k2) = Elems(t) \cap S
        BY <2>1, <2>3, <2>4, <3>2
      <3>4. Once(t) => Once(k2)
        BY <2>1, <2>3, <3>2
      <3> QED BY <2>0, <2>3, <3>2, <3>3, <3>4, Zenon
    <2>5. CASE x \notin S
      <3>1. k2 = k
        BY <2>2, <2>5
      <3>2. Elems(k2) = Elems(t) \cap S
        BY <2>1, <2>3, <2>5, <3>1
      <3> QED BY <2>0, <2>1, <2>3, <3>1, <3>2, Zenon
    <2> QED BY <2>4, <2>5
  <1>3. s \in T
    <2> HIDE DEF T
    <2> QED BY <1>1, <1>2, SeqInd
  <1> QED BY <1>3

\* Keeping all or nothing.
LEMMA KeepAll ==
    ASSUME NEW A, NEW s \in Seq(A), NEW S
    PROVE  /\ Elems(s) \subseteq S => Keep(s, S) = s
           /\ Elems(s) \cap S = {} => Keep(s, S) = <<>>
  <1> DEFINE T == {r \in Seq(A) : /\ Elems(r) \subseteq S => Keep(r, S) = r
                                  /\ Elems(r) \cap S = {} => Keep(r, S) = <<>>}
  <1>1. <<>> \in T
    BY KeepEmpty
  <1>2. ASSUME NEW r \in Seq(A), NEW x \in A, r \in T PROVE Append(r, x) \in T
    <2>0. PICK t, k, k2 : t = Append(r, x) /\ k = Keep(r, S) /\ k2 = Keep(t, S)
      OBVIOUS
    <2>1. (Elems(r) \subseteq S => k = r) /\ (Elems(r) \cap S = {} => k = <<>>)
      BY <1>2, <2>0
    <2>2. k2 = IF x \in S THEN Append(k, x) ELSE k
      BY <2>0, KeepAppend, Zenon
    <2>3. t \in Seq(A) /\ Elems(t) = Elems(r) \cup {x}
      <3>1. /\ Append(r, x) \in Seq(A) /\ Elems(Append(r, x)) = Elems(r) \cup {x}
            /\ (Once(Append(r, x)) <=> Once(r) /\ x \notin Elems(r))
        BY AppendElems
      <3>2. t = Append(r, x)
        BY <2>0
      <3> QED BY <3>1, <3>2
    <2>4. Elems(t) \subseteq S => k2 = t
      BY <2>0, <2>1, <2>2, <2>3
    <2>5. Elems(t) \cap S = {} => k2 = <<>>
      BY <2>1, <2>2, <2>3
    <2> QED BY <2>0, <2>3, <2>4, <2>5, Zenon
  <1>3. s \in T
    <2> HIDE DEF T
    <2> QED BY <1>1, <1>2, SeqInd
  <1> QED BY <1>3

\* Dropping elements from the head that would not be kept changes nothing.
LEMMA KeepSuffix ==
    ASSUME NEW A, NEW s \in Seq(A), NEW S, NEW d \in Nat, d <= Len(s),
           \A i \in 1 .. d : s[i] \notin S
    PROVE  /\ SubSeq(s, d + 1, Len(s)) \in Seq(A)
           /\ Keep(SubSeq(s, d + 1, Len(s)), S) = Keep(s, S)
  <1> DEFINE From(r) == SubSeq(r, d + 1, Len(r))
             T == {r \in Seq(A) : d <= Len(r) /\ (\A i \in 1 .. d : r[i] \notin S) =>
                       From(r) \in Seq(A) /\ Keep(From(r), S) = Keep(r, S)}
  <1>0. ASSUME NEW r \in Seq(A), d <= Len(r)
        PROVE  /\ From(r) \in Seq(A) /\ Len(From(r)) = Len(r) - d
               /\ \A i \in 1 .. Len(r) - d : From(r)[i] = r[d + i]
    <2>1. PICK n \in Nat : n = Len(r) /\ \A i \in 1 .. n : r[i] \in A
      BY LenProperties, ElementOfSeq
    <2>2. \A i \in d + 1 .. n : r[i] \in A
      BY <2>1
    <2>3. /\ SubSeq(r, d + 1, n) \in Seq(A)
          /\ Len(SubSeq(r, d + 1, n)) = IF d + 1 <= n THEN n - (d + 1) + 1 ELSE 0
          /\ \A i \in 1 .. n - (d + 1) + 1 : SubSeq(r, d + 1, n)[i] = r[(d + 1) + i - 1]
      <3>1. d + 1 \in Int /\ n \in Int
        OBVIOUS
      <3> QED BY <2>2, <3>1, SubSeqProperties
    <2>4. PICK f : f = SubSeq(r, d + 1, n)
      OBVIOUS
    <2>5. f \in Seq(A) /\ Len(f) = n - d /\ \A i \in 1 .. n - d : f[i] = r[d + i]
      <3>1. n - (d + 1) + 1 = n - d /\ \A i \in 1 .. n - d : (d + 1) + i - 1 = d + i
        OBVIOUS
      <3>2. (IF d + 1 <= n THEN n - (d + 1) + 1 ELSE 0) = n - d
        BY <1>0, <2>1
      <3> QED BY <2>3, <2>4, <3>1, <3>2, Zenon
    <2> QED BY <2>1, <2>4, <2>5, Zenon
  <1> HIDE DEF From
  <1>1. <<>> \in T
    <2>1. PICK r : r = <<>>
      OBVIOUS
    <2>2. r \in Seq(A) /\ Len(r) = 0
      BY <2>1
    <2>3. ASSUME d <= Len(r) PROVE From(r) = r
      <3>0. From(r) \in Seq(A) /\ Len(From(r)) = Len(r) - d
        BY <1>0, <2>2, <2>3
      <3>1. From(r) \in Seq(A) /\ Len(From(r)) = 0
        BY <2>2, <2>3, <3>0
      <3> QED BY <2>1, <3>1, EmptySeq
    <2> QED BY <2>1, <2>2, <2>3, Zenon
  <1>2. ASSUME NEW r \in Seq(A), NEW x \in A, r \in T PROVE Append(r, x) \in T
    <2>0. PICK t : t = Append(r, x)
      OBVIOUS
    <2>1. PICK n \in Nat : n = Len(r) /\ t = Append(r, x)
      BY <2>0, LenProperties
    <2>2. /\ t \in Seq(A) /\ Len(t) = n + 1 /\ t[n + 1] = x
          /\ \A i \in 1 .. n : t[i] = r[i]
      BY <2>1, AppendProperties
    <2> SUFFICES ASSUME d <= Len(t), \A i \in 1 .. d : t[i] \notin S
                 PROVE  From(t) \in Seq(A) /\ Keep(From(t), S) = Keep(t, S)
      BY <2>1, <2>2, Zenon
    <2>3. PICK f : /\ f = From(t) /\ f \in Seq(A) /\ Len(f) = (n + 1) - d
                   /\ \A i \in 1 .. (n + 1) - d : f[i] = t[d + i]
      <3>1. /\ From(t) \in Seq(A) /\ Len(From(t)) = Len(t) - d
            /\ \A i \in 1 .. Len(t) - d : From(t)[i] = t[d + i]
        BY <1>0, <2>2
      <3> QED BY <2>2, <3>1, Zenon
    <2>4. CASE d <= n
      <3>1. PICK e : /\ e = From(r) /\ e \in Seq(A) /\ Len(e) = n - d
                     /\ \A i \in 1 .. n - d : e[i] = r[d + i]
        BY <1>0, <2>1, <2>4, Zenon
      <3>2. Keep(e, S) = Keep(r, S)
        <4>1. \A i \in 1 .. d : r[i] \notin S
          BY <2>2, <2>4
        <4> QED BY <1>2, <2>1, <2>4, <3>1, <4>1, Zenon
      <3>3. PICK g : g = Append(e, x)
        OBVIOUS
      <3>4. /\ g \in Seq(A) /\ Len(g) = (n - d) + 1 /\ g[(n - d) + 1] = x
            /\ \A i \in 1 .. n - d : g[i] = e[i]
        <4>0. e \in Seq(A)
          BY <3>1
        <4>1. /\ Append(e, x) \in Seq(A) /\ Len(Append(e, x)) = Len(e) + 1
              /\ Append(e, x)[Len(e) + 1] = x
              /\ \A i \in 1 .. Len(e) : Append(e, x)[i] = e[i]
          BY <4>0, AppendProperties
        <4> QED BY <3>1, <3>3, <4>1, Zenon
      <3>5. /\ (n - d) + 1 = (n + 1) - d /\ d + ((n + 1) - d) = n + 1
            /\ \A i \in 1 .. (n + 1) - d : i \in 1 .. n - d \/ i = (n + 1) - d
            /\ \A i \in 1 .. n - d : d + i \in 1 .. n
        BY <2>4
      <3>6. \A i \in 1 .. (n + 1) - d : g[i] = f[i]
        <4>1. ASSUME NEW i \in 1 .. n - d PROVE g[i] = f[i]
          <5>1. i \in 1 .. (n + 1) - d /\ d + i \in 1 .. n
            BY <2>4, <3>5
          <5> QED BY <2>2, <2>3, <3>1, <3>4, <5>1, Zenon
        <4>2. g[(n + 1) - d] = f[(n + 1) - d]
          <5>1. (n + 1) - d \in 1 .. (n + 1) - d
            BY <2>4
          <5> QED BY <2>2, <2>3, <3>4, <3>5, <5>1, Zenon
        <4> QED BY <3>5, <4>1, <4>2, Zenon
      <3>7. f = g
        <4>1. Len(f) = Len(g) /\ \A i \in 1 .. Len(f) : f[i] = g[i]
          BY <2>3, <3>4, <3>5, <3>6, Zenon
        <4> QED BY <2>3, <3>4, <4>1, SeqEqual
      <3>8. Keep(g, S) = Keep(t, S)
        <4>1. Keep(g, S) = IF x \in S THEN Append(Keep(e, S), x) ELSE Keep(e, S)
          <5>1. Keep(Append(e, x), S) = IF x \in S THEN Append(Keep(e, S), x) ELSE Keep(e, S)
            BY <3>1, KeepAppend, SMTT(20)
          <5> QED BY <3>3, <5>1, Zenon
        <4>2. Keep(t, S) = IF x \in S THEN Append(Keep(r, S), x) ELSE Keep(r, S)
          BY <2>1, KeepAppend, Zenon
        <4> QED BY <3>2, <4>1, <4>2
      <3> QED BY <2>3, <3>7, <3>8, Zenon
    <2>5. CASE ~(d <= n)
      <3>1. d = n + 1
        BY <2>2, <2>5
      <3>2. f = <<>>
        BY <2>3, <3>1, EmptySeq
      <3>3. Elems(t) \cap S = {}
        BY <2>2, <3>1 DEF Elems
      <3>4. Keep(t, S) = <<>>
        BY <2>2, <3>3, KeepAll
      <3> QED BY <2>3, <3>2, <3>4, KeepEmpty, Zenon
    <2> QED BY <2>4, <2>5
  <1>3. s \in T
    <2> HIDE DEF T
    <2> QED BY <1>1, <1>2, SeqInd
  <1> QED BY <1>3 DEF From

-----------------------------------------------------------------------------
(* The accuracy tracker.                                                    *)

Outcomes == [age : 0 .. Window, correct : BOOLEAN]
AgedOutcome(o) == [o EXCEPT !.age = IF @ < Window THEN @ + 1 ELSE @]
Old(s) == [i \in DOMAIN s |-> AgedOutcome(s[i])]

\* An outcome that has left the window does not come back.
LEMMA AgedOutcomeIs ==
    ASSUME NEW o \in Outcomes
    PROVE  /\ AgedOutcome(o) \in Outcomes
           /\ AgedOutcome(o) \in LiveOutcomes => o \in LiveOutcomes
           /\ o \in LiveOutcomes <=> o.age < Window
  <1>1. Window \in Nat /\ o.age \in 0 .. Window /\ o.correct \in BOOLEAN
    BY WindowAssumption DEF Outcomes
  <1>2. /\ AgedOutcome(o) \in Outcomes
        /\ AgedOutcome(o).age = IF o.age < Window THEN o.age + 1 ELSE o.age
    BY <1>1 DEF AgedOutcome, Outcomes
  <1>3. \A x \in Outcomes : x \in LiveOutcomes <=> x.age < Window
    BY <1>1 DEF Outcomes, LiveOutcomes
  <1> QED BY <1>1, <1>2, <1>3

\* Ageing goes element by element.
LEMMA OldIs ==
    ASSUME NEW s \in Seq(Outcomes)
    PROVE  /\ Old(s) \in Seq(Outcomes) /\ Len(Old(s)) = Len(s)
           /\ \A i \in 1 .. Len(s) : Old(s)[i] = AgedOutcome(s[i])
  <1>1. PICK n \in Nat : n = Len(s) /\ DOMAIN s = 1 .. n /\ \A i \in 1 .. n : s[i] \in Outcomes
    BY LenProperties, ElementOfSeq
  <1>2. PICK o : o = Old(s)
    OBVIOUS
  <1>3. o = [i \in 1 .. n |-> AgedOutcome(s[i])]
    BY <1>1, <1>2, Zenon DEF Old
  <1>4. \A i \in 1 .. n : AgedOutcome(s[i]) \in Outcomes
    BY <1>1, AgedOutcomeIs
  <1>5. o \in Seq(Outcomes) /\ Len(o) = n /\ \A i \in 1 .. n : o[i] = AgedOutcome(s[i])
    BY <1>3, <1>4
  <1> QED BY <1>1, <1>2, <1>5, Zenon

\* An outcome that is appended grows older with the others.
LEMMA OldAppend ==
    ASSUME NEW s \in Seq(Outcomes), NEW x \in Outcomes
    PROVE  Old(Append(s, x)) = Append(Old(s), AgedOutcome(x))
  <1>0. PICK t : t = Append(s, x)
    OBVIOUS
  <1>1. PICK n \in Nat : n = Len(s) /\ t = Append(s, x)
    BY <1>0, LenProperties
  <1>2. /\ t \in Seq(Outcomes) /\ Len(t) = n + 1 /\ t[n + 1] = x
        /\ \A i \in 1 .. n : t[i] = s[i]
    BY <1>1, AppendProperties
  <1>3. PICK o, y, p, q : /\ o = Old(s) /\ y = AgedOutcome(x)
                          /\ p = Old(t) /\ q = Append(o, y)
    OBVIOUS
  <1>4. y \in Outcomes
    BY <1>3, AgedOutcomeIs, Zenon
  <1>5. o \in Seq(Outcomes) /\ Len(o) = n /\ \A i \in 1 .. n : o[i] = AgedOutcome(s[i])
    BY <1>1, <1>3, OldIs, Zenon
  <1>6. p \in Seq(Outcomes) /\ Len(p) = n + 1 /\ \A i \in 1 .. n + 1 : p[i] = AgedOutcome(t[i])
    BY <1>2, <1>3, OldIs, Zenon
  <1>7. /\ q \in Seq(Outcomes) /\ Len(q) = n + 1 /\ q[n + 1] = y
        /\ \A i \in 1 .. n : q[i] = o[i]
    <2>1. /\ Append(o, y) \in Seq(Outcomes) /\ Len(Append(o, y)) = Len(o) + 1
          /\ Append(o, y)[Len(o) + 1] = y /\ \A i \in 1 .. Len(o) : Append(o, y)[i] = o[i]
      BY <1>4, <1>5, AppendProperties
    <2> QED BY <1>3, <1>5, <2>1, Zenon
  <1>8. /\ \A i \in 1 .. n + 1 : i \in 1 .. n \/ i = n + 1
        /\ \A i \in 1 .. n : i \in 1 .. n + 1
        /\ n + 1 \in 1 .. n + 1
    OBVIOUS
  <1>9. \A i \in 1 .. n + 1 : p[i] = q[i]
    <2>1. ASSUME NEW i \in 1 .. n PROVE p[i] = q[i]
      BY <1>2, <1>5, <1>6, <1>7, <1>8, Zenon
    <2>2. p[n + 1] = q[n + 1]
      BY <1>2, <1>3, <1>6, <1>7, <1>8, Zenon
    <2> QED BY <1>8, <2>1, <2>2, Zenon
  <1>10. p = q
    <2>1. Len(p) = Len(q) /\ \A i \in 1 .. Len(p) : p[i] = q[i]
      BY <1>6, <1>7, <1>9, Zenon
    <2> QED BY <1>6, <1>7, <2>1, SeqEqual
  <1> QED BY <1>1, <1>3, <1>10, Zenon

\* What leaves the window today may as well have been forgotten before.
LEMMA KeepAged ==
    ASSUME NEW s \in Seq(Outcomes)
    PROVE  Keep(Old(Keep(s, LiveOutcomes)), LiveOutcomes) = Keep(Old(s), LiveOutcomes)
  <1> DEFINE L == LiveOutcomes
             T == {r \in Seq(Outcomes) : Keep(Old(Keep(r, L)), L) = Keep(Old(r), L)}
  <1> HIDE DEF L
  <1>1. <<>> \in T
    <2>1. Keep(<<>>, L) = <<>> /\ <<>> \in Seq(Outcomes)
      BY KeepEmpty
    <2> QED BY <2>1
  <1>2. ASSUME NEW r \in Seq(Outcomes), NEW x \in Outcomes, r \in T PROVE Append(r, x) \in T
    <2>1. PICK t, k, y, o : t = Append(r, x) /\ k = Keep(r, L) /\ y = AgedOutcome(x) /\ o = Old(r)
      OBVIOUS
    <2>2. Keep(Old(k), L) = Keep(o, L)
      BY <1>2, <2>1
    <2>3. y \in Outcomes /\ (y \in L => x \in L)
      BY <2>1, AgedOutcomeIs DEF L
    <2>4. k \in Seq(Outcomes)
      <3>1. Keep(r, L) \in Seq(Outcomes)
        BY KeepElems
      <3> QED BY <2>1, <3>1
    <2>5. o \in Seq(Outcomes)
      BY <2>1, OldIs
    <2>6. Old(t) = Append(o, y)
      BY <2>1, OldAppend, Zenon
    <2>7. Keep(Old(t), L) = IF y \in L THEN Append(Keep(o, L), y) ELSE Keep(o, L)
      <3>1. Keep(Append(o, y), L) = IF y \in L THEN Append(Keep(o, L), y) ELSE Keep(o, L)
        BY <2>3, <2>5, KeepAppend
      <3> QED BY <2>6, <3>1, Zenon
    <2>8. Keep(t, L) = IF x \in L THEN Append(k, x) ELSE k
      <3>1. Keep(Append(r, x), L) = IF x \in L THEN Append(Keep(r, L), x) ELSE Keep(r, L)
        BY KeepAppend
      <3> QED BY <2>1, <3>1, Zenon
    <2>9. CASE x \in L
      <3>1. Keep(t, L) = Append(k, x)
        BY <2>8, <2>9
      <3>2. Old(Append(k, x)) = Append(Old(k), y)
        BY <2>1, <2>4, OldAppend
      <3>3. PICK ok : ok = Old(k) /\ ok \in Seq(Outcomes)
        BY <2>4, OldIs
      <3>4. Keep(Append(ok, y), L) = IF y \in L THEN Append(Keep(ok, L), y) ELSE Keep(ok, L)
        BY <2>3, <3>3, KeepAppend
      <3>5. Keep(Append(ok, y), L) = Keep(Old(t), L)
        BY <2>2, <2>7, <3>3, <3>4
      <3>6. Keep(Old(Keep(t, L)), L) = Keep(Old(t), L)
        BY <3>1, <3>2, <3>3, <3>5, Zenon
      <3> QED BY <2>1, <3>6, AppendProperties
    <2>10. CASE x \notin L
      <3>1. Keep(t, L) = k /\ Keep(Old(t), L) = Keep(o, L)
        BY <2>3, <2>7, <2>8, <2>10
      <3>2. Keep(Old(Keep(t, L)), L) = Keep(Old(t), L)
        BY <2>2, <3>1, Zenon
      <3> QED BY <2>1, <3>2, AppendProperties
    <2> QED BY <2>9, <2>10
  <1>3. s \in T
    <2> HIDE DEF T
    <2> QED BY <1>1, <1>2, SeqInd
  <1> QED BY <1>3 DEF L

InOrder(obs) == \A i, j \in DOMAIN obs : i < j => obs[i].age >= obs[j].age

\* Eviction drops nothing that is in the window; if the outcomes are in order
\* it leaves nothing that is not; and a second eviction finds nothing to do.
LEMMA EvictIs ==
    ASSUME NEW obs \in Seq(Outcomes)
    PROVE  /\ EvictExpired(obs) \in Seq(Outcomes)
           /\ Keep(EvictExpired(obs), LiveOutcomes) = Keep(obs, LiveOutcomes)
           /\ InOrder(obs) => Elems(EvictExpired(obs)) \subseteq LiveOutcomes
           /\ EvictExpired(EvictExpired(obs)) = EvictExpired(obs)
  <1>1. PICK n \in Nat : /\ n = Len(obs) /\ DOMAIN obs = 1 .. n
                         /\ \A i \in 1 .. n : obs[i] \in Outcomes
    BY LenProperties, ElementOfSeq
  <1>2. PICK live : live = {i \in 1 .. n : InWindow(obs[i])}
    OBVIOUS
  <1>3. \A i \in 1 .. n : i \in live <=> obs[i] \in LiveOutcomes
    BY <1>1, <1>2, AgedOutcomeIs DEF InWindow
  <1>4. PICK r : r = EvictExpired(obs)
    OBVIOUS
  <1>5. CASE live = {}
    <2>1. r = <<>>
      BY <1>1, <1>2, <1>4, <1>5, Zenon DEF EvictExpired
    <2>2. Elems(obs) \cap LiveOutcomes = {}
      BY <1>1, <1>3, <1>5 DEF Elems
    <2>3. Keep(obs, LiveOutcomes) = <<>>
      BY <2>2, KeepAll
    <2>4. Keep(r, LiveOutcomes) = <<>>
      BY <2>1, KeepEmpty, Zenon
    <2>5. r \in Seq(Outcomes) /\ Elems(r) = {}
      BY <2>1 DEF Elems
    <2>6. EvictExpired(r) = r
      <3>1. DOMAIN r = {}
        BY <2>1
      <3>2. {i \in DOMAIN r : InWindow(r[i])} = {}
        BY <3>1
      <3> QED BY <2>1, <3>2, Zenon DEF EvictExpired
    <2> QED BY <1>4, <2>3, <2>4, <2>5, <2>6
  <1>6. CASE live # {}
    <2>1. PICK first \in live : /\ first = CHOOSE i \in live : \A j \in live : i <= j
                                /\ \A j \in live : first <= j
      <3>1. live \in SUBSET Nat
        BY <1>2
      <3>2. \E i \in live : \A j \in live : i <= j
        BY <1>6, <3>1, Least, Zenon
      <3> QED BY <3>2, Zenon
    <2>2. r = SubSeq(obs, first, n)
      BY <1>1, <1>2, <1>4, <1>6, <2>1, Zenon DEF EvictExpired
    <2>3. first \in 1 .. n /\ obs[first] \in LiveOutcomes
      BY <1>2, <1>3, <2>1
    <2>4. PICK d \in Nat : first = d + 1 /\ d <= n /\ d + 1 <= n
      <3>1. first - 1 \in Nat /\ first = (first - 1) + 1 /\ first - 1 <= n
        BY <2>3
      <3> QED BY <2>3, <3>1
    <2>5. \A i \in 1 .. d : obs[i] \notin LiveOutcomes
      <3> SUFFICES ASSUME NEW i \in 1 .. d PROVE obs[i] \notin LiveOutcomes
        OBVIOUS
      <3>1. i \in 1 .. n /\ ~(first <= i)
        BY <2>4
      <3> QED BY <1>3, <2>1, <3>1
    <2>6. r \in Seq(Outcomes) /\ Keep(r, LiveOutcomes) = Keep(obs, LiveOutcomes)
      <3>1. /\ SubSeq(obs, d + 1, Len(obs)) \in Seq(Outcomes)
            /\ Keep(SubSeq(obs, d + 1, Len(obs)), LiveOutcomes) = Keep(obs, LiveOutcomes)
        BY <1>1, <2>4, <2>5, KeepSuffix
      <3> QED BY <1>1, <2>2, <2>4, <3>1, Zenon
    <2>7. PICK k \in Nat : k = n - d /\ k >= 1
      BY <2>4
    <2>8. Len(r) = k /\ \A i \in 1 .. k : r[i] = obs[d + i]
      <3>1. \A i \in d + 1 .. n : obs[i] \in Outcomes
        BY <1>1
      <3>2. /\ Len(SubSeq(obs, d + 1, n)) = IF d + 1 <= n THEN n - (d + 1) + 1 ELSE 0
            /\ \A i \in 1 .. n - (d + 1) + 1 : SubSeq(obs, d + 1, n)[i] = obs[(d + 1) + i - 1]
        <4>1. d + 1 \in Int /\ n \in Int
          OBVIOUS
        <4> QED BY <3>1, <4>1, SubSeqProperties
      <3>3. /\ n - (d + 1) + 1 = k /\ (IF d + 1 <= n THEN n - (d + 1) + 1 ELSE 0) = k
            /\ \A i \in 1 .. k : (d + 1) + i - 1 = d + i
        BY <2>4, <2>7
      <3> QED BY <2>2, <2>4, <3>2, <3>3, Zenon
    <2>9. InOrder(obs) => Elems(r) \subseteq LiveOutcomes
      <3> SUFFICES ASSUME InOrder(obs), NEW i \in 1 .. k PROVE r[i] \in LiveOutcomes
        BY <2>8, Zenon DEF Elems
      <3>1. PICK j \in 1 .. n : j = d + i /\ first <= j
        BY <2>4, <2>7
      <3>2. CASE j = first
        BY <2>3, <2>8, <3>1, <3>2
      <3>3. CASE j # first
        <4>1. first < j
          BY <2>3, <3>1, <3>3
        <4>2. obs[first].age >= obs[j].age
          BY <1>1, <2>3, <4>1, Zenon DEF InOrder
        <4>3. obs[first] \in Outcomes /\ obs[j] \in Outcomes /\ obs[first].age < Window
          BY <1>1, <2>3, AgedOutcomeIs
        <4>4. obs[j].age < Window
          BY <4>2, <4>3, WindowAssumption DEF Outcomes
        <4>5. obs[j] \in LiveOutcomes
          BY <4>3, <4>4, AgedOutcomeIs
        <4> QED BY <2>8, <3>1, <4>5
      <3> QED BY <3>2, <3>3
    <2>10. EvictExpired(r) = r
      <3>1. DOMAIN r = 1 .. k
        BY <2>6, <2>8, LenProperties
      <3>2. PICK inside : inside = {i \in 1 .. k : InWindow(r[i])}
        OBVIOUS
      <3>3. 1 \in 1 .. k /\ r[1] = obs[first]
        BY <2>4, <2>7, <2>8
      <3>4. InWindow(obs[first])
        BY <1>2, <2>1
      <3>5. 1 \in inside /\ \A j \in inside : 1 <= j
        BY <3>2, <3>3, <3>4
      <3>6. PICK one : one = CHOOSE i \in inside : \A j \in inside : i <= j
        OBVIOUS
      <3>7. one \in inside /\ \A j \in inside : one <= j
        BY <3>5, <3>6, Zenon
      <3>8. one = 1
        <4>1. one \in 1 .. k /\ one <= 1
          BY <3>2, <3>5, <3>7
        <4> QED BY <4>1
      <3>9. EvictExpired(r) = SubSeq(r, 1, k)
        <4>1. inside # {}
          BY <3>5
        <4> QED BY <2>8, <3>1, <3>2, <3>6, <3>8, <4>1, Zenon DEF EvictExpired
      <3>10. SubSeq(r, 1, k) = r
        BY <2>6, <2>8, SubSeqFull
      <3> QED BY <3>9, <3>10
    <2> QED BY <1>4, <2>6, <2>9, <2>10
  <1> QED BY <1>5, <1>6

TrackerOK ==
    /\ outcomes \in [Sources -> Seq(Outcomes)]
    /\ fresh \in [Sources -> Seq(Outcomes)]
    /\ \A s \in Sources : fresh[s] = Keep(outcomes[s], LiveOutcomes)

\* An outcome of the window that is ingested is one more to count.
LEMMA IngestKeeps ==
    ASSUME TrackerOK, NEW s \in Sources, NEW o \in LiveOutcomes, Ingest(s, o)
    PROVE  TrackerOK'
  <1>1. outcomes[s] \in Seq(Outcomes) /\ fresh[s] = Keep(outcomes[s], LiveOutcomes)
    BY DEF TrackerOK
  <1>2. o \in Outcomes
    BY WindowAssumption DEF LiveOutcomes, Outcomes
  <1>3. PICK obs, all, e : obs = outcomes[s] /\ all = Append(obs, o) /\ e = EvictExpired(all)
    OBVIOUS
  <1>4. all \in Seq(Outcomes)
    BY <1>1, <1>2, <1>3, AppendProperties
  <1>5. e \in Seq(Outcomes) /\ Keep(e, LiveOutcomes) = Keep(all, LiveOutcomes)
    BY <1>3, <1>4, EvictIs, Zenon
  <1>6. Keep(all, LiveOutcomes) = Append(fresh[s], o)
    <2>1. obs \in Seq(Outcomes)
      BY <1>1, <1>3
    <2>2. Keep(Append(obs, o), LiveOutcomes) =
              IF o \in LiveOutcomes THEN Append(Keep(obs, LiveOutcomes), o)
              ELSE Keep(obs, LiveOutcomes)
      BY <1>2, <2>1, KeepAppend
    <2>3. Keep(Append(obs, o), LiveOutcomes) = Append(Keep(obs, LiveOutcomes), o)
      BY <2>2
    <2> QED BY <1>1, <1>3, <2>3, Zenon
  <1>7. PICK f : f = Append(fresh[s], o)
    OBVIOUS
  <1>8. f \in Seq(Outcomes) /\ f = Keep(e, LiveOutcomes)
    <2>1. fresh[s] \in Seq(Outcomes)
      BY DEF TrackerOK
    <2>2. f \in Seq(Outcomes)
      BY <1>2, <1>7, <2>1, AppendProperties
    <2> QED BY <1>5, <1>6, <1>7, <2>2, Zenon
  <1>9. outcomes' = [outcomes EXCEPT ![s] = e] /\ fresh' = [fresh EXCEPT ![s] = f]
    BY <1>3, <1>7 DEF Ingest
  <1> QED BY <1>5, <1>8, <1>9 DEF TrackerOK

\* Score forgets only what no longer counts.
LEMMA ScoreKeeps ==
    ASSUME TrackerOK, NEW s, Score(s)
    PROVE  TrackerOK'
  <1>1. outcomes' = [outcomes EXCEPT ![s] = EvictExpired(outcomes[s])] /\ fresh' = fresh
    BY DEF Score
  <1>2. CASE s \notin Sources
    <2>1. outcomes' = outcomes
      BY <1>1, <1>2 DEF TrackerOK
    <2> QED BY <1>1, <2>1 DEF TrackerOK
  <1>3. CASE s \in Sources
    <2>1. PICK e : e = EvictExpired(outcomes[s])
      OBVIOUS
    <2>2. e \in Seq(Outcomes) /\ Keep(e, LiveOutcomes) = Keep(outcomes[s], LiveOutcomes)
      BY <1>3, <2>1, EvictIs DEF TrackerOK
    <2> QED BY <1>1, <1>3, <2>1, <2>2 DEF TrackerOK
  <1> QED BY <1>2, <1>3

\* A day that passes takes the same outcomes out of both.
LEMMA DayKeeps ==
    ASSUME TrackerOK, TrackerClock
    PROVE  TrackerOK'
  <1>1. /\ outcomes' = [s \in Sources |-> Old(outcomes[s])]
        /\ fresh' = [s \in Sources |-> Keep(Old(fresh[s]), LiveOutcomes)]
    BY DEF TrackerClock, Old, AgedOutcome
  <1>2. ASSUME NEW s \in Sources
        PROVE  /\ Old(outcomes[s]) \in Seq(Outcomes)
               /\ Keep(Old(fresh[s]), LiveOutcomes) \in Seq(Outcomes)
               /\ Keep(Old(fresh[s]), LiveOutcomes) = Keep(Old(outcomes[s]), LiveOutcomes)
    <2>1. PICK obs \in Seq(Outcomes), f \in Seq(Outcomes) :
              obs = outcomes[s] /\ f = fresh[s] /\ f = Keep(obs, LiveOutcomes)
      BY DEF TrackerOK
    <2>2. PICK a \in Seq(Outcomes), b \in Seq(Outcomes) : a = Old(obs) /\ b = Old(f)
      BY OldIs
    <2>3. Keep(b, LiveOutcomes) = Keep(a, LiveOutcomes)
      BY <2>1, <2>2, KeepAged, Zenon
    <2>4. Keep(b, LiveOutcomes) \in Seq(Outcomes)
      BY KeepElems
    <2> QED BY <2>1, <2>2, <2>3, <2>4, Zenon
  <1> QED BY <1>1, <1>2 DEF TrackerOK

\* Every step leaves the tracker alone or is one of these.
LEMMA TrackerSteps ==
    ASSUME Next
    PROVE  \/ UNCHANGED trackerVars
           \/ \E s \in Sources, o \in LiveOutcomes : Ingest(s, o)
           \/ \E s : Score(s)
           \/ TrackerClock
  <1>1. CASE NightlyDecay \/ Day \/ Learn
    BY <1>1 DEF NightlyDecay, Day, Learn, GraphStep
  <1>2. \A age \in 0 .. Window - 1, c \in BOOLEAN : [age |-> age, correct |-> c] \in LiveOutcomes
    BY DEF LiveOutcomes
  <1>3. CASE TrackerStep
    BY <1>2, <1>3 DEF TrackerStep, TrackerNext
  <1>4. CASE DigestStep
    <2>1. CASE Finish \/ OnBus \/ Summarize \/ ReadChannel
      BY <2>1 DEF Finish, OnBus, Summarize, ReadChannel, trackerVars
    <2>2. CASE Digest
      BY <2>2 DEF Digest
    <2>3. CASE AnyOutcome
      BY <1>2, <2>3 DEF AnyOutcome, IngestOutcome
    <2>4. CASE DigestClock
      BY <2>4 DEF DigestClock
    <2> QED BY <1>4, <2>1, <2>2, <2>3, <2>4 DEF DigestStep, AggNext, Collect
  <1> QED BY <1>1, <1>3, <1>4 DEF Next

\* The tracker is in order in every reachable state.
LEMMA TrackerSafe == Spec => []TrackerOK
  <1>1. Init => TrackerOK
    <2> SUFFICES ASSUME Init PROVE TrackerOK
      OBVIOUS
    <2>1. outcomes = [s \in Sources |-> <<>>] /\ fresh = [s \in Sources |-> <<>>]
      BY DEF Init, AggInit, TrackerInit
    <2>2. Keep(<<>>, LiveOutcomes) = <<>> /\ <<>> \in Seq(Outcomes)
      BY KeepEmpty
    <2> QED BY <2>1, <2>2 DEF TrackerOK
  <1>2. TrackerOK /\ [Next]_vars => TrackerOK'
    <2> SUFFICES ASSUME TrackerOK, [Next]_vars PROVE TrackerOK'
      OBVIOUS
    <2>1. CASE UNCHANGED trackerVars
      BY <2>1 DEF trackerVars, TrackerOK
    <2>2. CASE Next
      BY <2>1, <2>2, TrackerSteps, IngestKeeps, ScoreKeeps, DayKeeps
    <2> QED BY <2>1, <2>2 DEF vars
  <1> QED BY <1>1, <1>2, PTL DEF Spec

\* The accuracy of a source is computed from the outcomes of the window and
\* nothing else whenever they came in order, and no outcome is ever dropped
\* before its time, for every window and any outcomes (ScoreWindow;
\* accuracy_tracker.go:71-109, 158-180).
THEOREM Scores == Spec => []ScoreWindow
  <1>1. TrackerOK => ScoreWindow
    <2> SUFFICES ASSUME TrackerOK, NEW s \in Sources
                 PROVE  /\ Keep(outcomes[s], LiveOutcomes) = fresh[s]
                        /\ InOrder(outcomes[s]) => EvictExpired(outcomes[s]) = fresh[s]
      BY DEF ScoreWindow, InOrder
    <2>1. PICK obs \in Seq(Outcomes) : obs = outcomes[s] /\ fresh[s] = Keep(obs, LiveOutcomes)
      BY DEF TrackerOK
    <2>2. ASSUME InOrder(obs) PROVE EvictExpired(obs) = Keep(obs, LiveOutcomes)
      <3>1. PICK e : e = EvictExpired(obs)
        OBVIOUS
      <3>2. /\ e \in Seq(Outcomes) /\ Elems(e) \subseteq LiveOutcomes
            /\ Keep(e, LiveOutcomes) = Keep(obs, LiveOutcomes)
        BY <2>2, <3>1, EvictIs, Zenon
      <3>3. Keep(e, LiveOutcomes) = e
        BY <3>2, KeepAll
      <3> QED BY <3>1, <3>2, <3>3, Zenon
    <2> QED BY <2>1, <2>2, Zenon
  <1> QED BY <1>1, TrackerSafe, PTL

-----------------------------------------------------------------------------
(* The snapshot of the aggregator.                                          *)

\* The first elements of a sequence.
LEMMA FirstNIs ==
    ASSUME NEW A, NEW s \in Seq(A), NEW n \in Nat
    PROVE  /\ FirstN(s, n) \in Seq(A) /\ Len(FirstN(s, n)) \in Nat
           /\ n = Len(s) => FirstN(s, n) = s
  <1>1. PICK len \in Nat : len = Len(s) /\ \A i \in 1 .. len : s[i] \in A
    BY LenProperties, ElementOfSeq
  <1>2. PICK m \in Nat : m = (IF Len(s) < n THEN Len(s) ELSE n) /\ m <= len
    BY <1>1
  <1>3. FirstN(s, n) = SubSeq(s, 1, m)
    BY <1>2, Zenon DEF FirstN
  <1>4. SubSeq(s, 1, m) \in Seq(A)
    <2>1. \A i \in 1 .. m : s[i] \in A
      BY <1>1, <1>2
    <2> QED BY <2>1, SubSeqProperties
  <1>5. n = Len(s) => SubSeq(s, 1, m) = s
    <2> SUFFICES ASSUME n = Len(s) PROVE SubSeq(s, 1, m) = s
      OBVIOUS
    <2>1. m = Len(s)
      BY <1>1, <1>2
    <2>2. SubSeq(s, 1, Len(s)) = s
      BY SubSeqFull
    <2> QED BY <2>1, <2>2, Zenon
  <1> QED BY <1>3, <1>4, <1>5, LenProperties

\* The permutations of a finite set are sequences of its elements.
LEMMA PermutationsAre ==
    ASSUME NEW B, IsFiniteSet(B), NEW p \in SetToSeqs(B)
    PROVE  p \in Seq(B)
  <1>1. PICK n \in Nat : n = Cardinality(B)
    BY FS_CardinalityType
  <1>2. p \in [1 .. n -> B]
    BY <1>1, Zenon DEF SetToSeqs
  <1> QED BY <1>2

\* The audit lists the sources of the digests, each with the weight of one.
LEMMA AuditIs ==
    ASSUME NEW B, NEW t \in Seq(B)
    PROVE  LET audit == WeightsAudit(t)
           IN  /\ DOMAIN audit = {t[i].source : i \in 1 .. Len(t)}
               /\ \A s \in DOMAIN audit :
                      \E i \in 1 .. Len(t) : t[i].source = s /\ t[i].accuracy = audit[s]
  <1>1. PICK n \in Nat : n = Len(t) /\ DOMAIN t = 1 .. n
    BY LenProperties
  <1> DEFINE Has(s, i) == /\ t[i].source = s
                          /\ \A j \in 1 .. n : t[j].source = s => j <= i
             last(s) == CHOOSE i \in 1 .. n : Has(s, i)
  <1>2. WeightsAudit(t) = [s \in {t[i].source : i \in 1 .. n} |-> t[last(s)].accuracy]
    <2>1. PICK D : D = DOMAIN t
      OBVIOUS
    <2>2. WeightsAudit(t) =
            [s \in {t[i].source : i \in D} |->
                t[CHOOSE i \in D : /\ t[i].source = s
                                   /\ \A j \in D : t[j].source = s => j <= i].accuracy]
      BY <2>1 DEF WeightsAudit
    <2>3. D = 1 .. n
      BY <1>1, <2>1
    <2> QED BY <2>2, <2>3
  <1>3. ASSUME NEW s \in {t[i].source : i \in 1 .. n}
        PROVE  last(s) \in 1 .. n /\ t[last(s)].source = s
    <2>1. PICK back : back = {n - i : i \in {j \in 1 .. n : t[j].source = s}}
      OBVIOUS
    <2>2. back \in SUBSET Nat /\ back # {}
      BY <1>3, <2>1
    <2>3. PICK b \in back : \A c \in back : b <= c
      BY <2>2, Least
    <2>4. PICK i \in 1 .. n : t[i].source = s /\ b = n - i
      BY <2>1, <2>3
    <2>5. ASSUME NEW j \in 1 .. n, t[j].source = s PROVE j <= i
      <3>1. n - j \in back
        BY <2>1, <2>5
      <3>2. b <= n - j
        BY <2>3, <3>1
      <3> QED BY <2>4, <3>2
    <2>6. Has(s, i)
      BY <2>4, <2>5
    <2>7. \E k \in 1 .. n : Has(s, k)
      BY <2>6
    <2>8. last(s) \in 1 .. n /\ Has(s, last(s))
      <3> HIDE DEF Has
      <3> QED BY <2>7, Zenon
    <2> QED BY <2>8
  <1> HIDE DEF last
  <1> QED BY <1>1, <1>2, <1>3

-----------------------------------------------------------------------------
(* The index of the knowledge graph.                                        *)

\* What is left of a list of distinct elements when one of them is removed.
LEMMA RemoveElems ==
    ASSUME NEW A, NEW s \in Seq(A), Once(s), NEW k \in DOMAIN s
    PROVE  LET r == RemoveAt(s, k)
           IN  /\ r \in Seq(A) /\ Once(r)
               /\ Elems(r) = Elems(s) \ {s[k]}
  <1>1. PICK len \in Nat : len = Len(s) /\ DOMAIN s = 1 .. len /\ k \in 1 .. len
    BY LenProperties
  <1>2. PICK r : r = RemoveAt(s, k)
    OBVIOUS
  <1>3. /\ r \in Seq(A) /\ Len(r) = len - 1
        /\ \A i \in 1 .. len - 1 : r[i] = IF i < k THEN s[i] ELSE s[i + 1]
    <2>1. /\ SubSeq(s, 1, k - 1) \in Seq(A)
          /\ Len(SubSeq(s, 1, k - 1)) = k - 1
          /\ \A i \in 1 .. k - 1 : SubSeq(s, 1, k - 1)[i] = s[i]
      BY <1>1
    <2>2. /\ SubSeq(s, k + 1, len) \in Seq(A)
          /\ Len(SubSeq(s, k + 1, len)) = len - k
          /\ \A i \in 1 .. len - k : SubSeq(s, k + 1, len)[i] = s[k + i]
      BY <1>1
    <2>3. PICK a \in Seq(A), b \in Seq(A) :
                a = SubSeq(s, 1, k - 1) /\ b = SubSeq(s, k + 1, len)
      BY <2>1, <2>2
    <2>4. r = a \o b
      BY <1>1, <1>2, <2>3 DEF RemoveAt
    <2>5. /\ Len(a) = k - 1 /\ \A i \in 1 .. k - 1 : a[i] = s[i]
          /\ Len(b) = len - k /\ \A i \in 1 .. len - k : b[i] = s[k + i]
      BY <2>1, <2>2, <2>3
    <2>6. /\ a \o b \in Seq(A) /\ Len(a \o b) = len - 1
          /\ \A i \in 1 .. len - 1 : (a \o b)[i] = IF i <= k - 1 THEN a[i] ELSE b[i - (k - 1)]
      <3>1. Len(a) + Len(b) = len - 1
        <4>1. Len(a) + Len(b) = (k - 1) + (len - k)
          BY <2>5, Zenon
        <4>2. \A x, y \in Int : (x - 1) + (y - x) = y - 1
          OBVIOUS
        <4>3. k \in Int /\ len \in Int
          BY <1>1
        <4> QED BY <4>1, <4>2, <4>3, Zenon
      <3>2. /\ a \o b \in Seq(A) /\ Len(a \o b) = Len(a) + Len(b)
            /\ \A i \in 1 .. Len(a) + Len(b) : (a \o b)[i] = IF i <= Len(a) THEN a[i] ELSE b[i - Len(a)]
        BY ConcatProperties
      <3> QED BY <2>5, <3>1, <3>2
    <2>7. ASSUME NEW i \in 1 .. len - 1
          PROVE  r[i] = IF i < k THEN s[i] ELSE s[i + 1]
      <3>1. CASE i < k
        BY <1>1, <2>4, <2>5, <2>6, <3>1
      <3>2. CASE ~(i < k)
        <4>1. i - (k - 1) \in 1 .. len - k /\ k + (i - (k - 1)) = i + 1 /\ ~(i <= k - 1)
          BY <1>1, <3>2
        <4> QED BY <2>4, <2>5, <2>6, <3>2, <4>1
      <3> QED BY <3>1, <3>2
    <2> QED BY <2>4, <2>6, <2>7
  <1> DEFINE from(i) == IF i < k THEN i ELSE i + 1
  <1>4. \A i \in 1 .. len - 1 : from(i) \in 1 .. len /\ from(i) # k /\ r[i] = s[from(i)]
    BY <1>1, <1>3
  <1>5. \A i, j \in 1 .. len - 1 : from(i) = from(j) => i = j
    BY <1>1
  <1>6. \A j \in 1 .. len : j # k => \E i \in 1 .. len - 1 : from(i) = j
    <2> SUFFICES ASSUME NEW j \in 1 .. len, j # k
                 PROVE  \E i \in 1 .. len - 1 : from(i) = j
      OBVIOUS
    <2>1. CASE j < k
      BY <1>1, <2>1
    <2>2. CASE j > k
      <3>1. j - 1 \in 1 .. len - 1 /\ from(j - 1) = j
        BY <1>1, <2>2
      <3> QED BY <3>1
    <2> QED BY <1>1, <2>1, <2>2
  <1> HIDE DEF from
  <1>7. Once(r)
    BY <1>1, <1>3, <1>4, <1>5 DEF Once
  <1>8. \A i \in 1 .. len - 1 : r[i] \in Elems(s) \ {s[k]}
    BY <1>1, <1>4 DEF Once, Elems
  <1>9. \A x \in Elems(s) \ {s[k]} : \E i \in 1 .. len - 1 : x = r[i]
    <2> SUFFICES ASSUME NEW x \in Elems(s), x # s[k]
                 PROVE  \E i \in 1 .. len - 1 : x = r[i]
      OBVIOUS
    <2>1. PICK j \in 1 .. len : x = s[j]
      BY <1>1 DEF Elems
    <2>2. PICK i \in 1 .. len - 1 : from(i) = j
      BY <1>6, <2>1
    <2> QED BY <1>4, <2>1, <2>2, Zenon
  <1>10. Elems(r) = Elems(s) \ {s[k]}
    BY <1>3, <1>8, <1>9, ZenonT(30) DEF Elems
  <1> QED BY <1>2, <1>3, <1>7, <1>10

\* A list without elements is empty.
LEMMA EmptyElems ==
    ASSUME NEW A, NEW s \in Seq(A)
    PROVE  s = <<>> <=> Elems(s) = {}
  <1>1. PICK n \in Nat : n = Len(s)
    BY LenProperties
  <1>2. s = <<>> <=> n = 0
    BY <1>1, EmptySeq
  <1>3. n = 0 <=> 1 .. n = {}
    <2>1. n = 0 => \A i \in 1 .. n : FALSE
      BY <1>1
    <2>2. n # 0 => 1 \in 1 .. n
      BY <1>1
    <2> QED BY <2>1, <2>2, Zenon
  <1>4. Elems(s) = {} <=> 1 .. n = {}
    BY <1>1 DEF Elems
  <1> QED BY <1>2, <1>3, <1>4

\* The directions of the edges E of a tuple.
Dirs(E, t) == {d \in Directions : <<t, d>> \in E}

\* The index B lists the directions of the edges E.
IndexOK(E, B) ==
    /\ E \subseteq Tuples \X Directions
    /\ DOMAIN B = {t \in Tuples : Dirs(E, t) # {}}
    /\ \A t \in DOMAIN B : B[t] \in Seq(Directions) /\ Once(B[t]) /\ Elems(B[t]) = Dirs(E, t)

\* A new edge is listed.
LEMMA AddKeeps ==
    ASSUME NEW E, NEW B, IndexOK(E, B), NEW t \in Tuples, NEW d \in Directions, <<t, d>> \notin E
    PROVE  IndexOK(E \cup {<<t, d>>}, IndexAdd(B, <<t, d>>))
  <1>1. PICK E2, B2 : E2 = E \cup {<<t, d>>} /\ B2 = IndexAdd(B, <<t, d>>)
    OBVIOUS
  <1>2. E2 \subseteq Tuples \X Directions
    BY <1>1 DEF IndexOK
  <1>3. d \notin Dirs(E, t)
    BY DEF Dirs
  <1>4. \A u : Dirs(E2, u) = IF u = t THEN Dirs(E, t) \cup {d} ELSE Dirs(E, u)
    BY <1>1 DEF Dirs
  <1>5. DOMAIN B \cup {t} = {u \in Tuples : Dirs(E2, u) # {}}
    BY <1>4 DEF IndexOK
  <1>6. <<t, d>>[1] = t /\ <<t, d>>[2] = d
    OBVIOUS
  <1>7. PICK more \in Seq(Directions) :
            /\ Once(more) /\ Elems(more) = Dirs(E, t) \cup {d}
            /\ DOMAIN B2 = DOMAIN B \cup {t}
            /\ \A u \in DOMAIN B \cup {t} : B2[u] = IF u = t THEN more ELSE B[u]
    <2>1. CASE t \in DOMAIN B
      <3>1. PICK list \in Seq(Directions) : /\ list = B[t] /\ Once(list)
                                            /\ Elems(list) = Dirs(E, t)
        BY <2>1 DEF IndexOK
      <3>2. PICK more \in Seq(Directions) : /\ more = Append(list, d) /\ Once(more)
                                            /\ Elems(more) = Dirs(E, t) \cup {d}
        <4>1. /\ Append(list, d) \in Seq(Directions)
              /\ Elems(Append(list, d)) = Elems(list) \cup {d}
              /\ Once(Append(list, d)) <=> Once(list) /\ d \notin Elems(list)
          BY AppendElems, Zenon
        <4> QED BY <1>3, <3>1, <4>1, Zenon
      <3>3. B2 = [B EXCEPT ![t] = Append(B[t], d)]
        BY <1>1, <1>6, <2>1, Zenon DEF IndexAdd
      <3>4. B2 = [B EXCEPT ![t] = more]
        BY <3>1, <3>2, <3>3, Zenon
      <3> QED BY <2>1, <3>2, <3>4
    <2>2. CASE t \notin DOMAIN B
      <3>1. <<d>> \in Seq(Directions) /\ Len(<<d>>) = 1 /\ <<d>>[1] = d
        OBVIOUS
      <3>2. Once(<<d>>) /\ Elems(<<d>>) = {d}
        <4>1. PICK x : x = <<d>>
          OBVIOUS
        <4>2. Len(x) = 1 /\ x[1] = d
          BY <3>1, <4>1, Zenon
        <4>3. /\ \A i \in 1 .. Len(x) : i = 1
              /\ 1 \in 1 .. Len(x)
          BY <4>2
        <4>4. Once(x)
          BY <4>3, Zenon DEF Once
        <4>5. Elems(x) = {d}
          BY <4>2, <4>3, Zenon DEF Elems
        <4> QED BY <4>1, <4>4, <4>5, Zenon
      <3>3. Dirs(E, t) = {}
        BY <2>2 DEF IndexOK
      <3>4. PICK more \in Seq(Directions) : more = <<d>> /\ Once(more) /\ Elems(more) = {d}
        BY <3>1, <3>2, Zenon
      <3>5. B2 = [u \in DOMAIN B \cup {t} |-> IF u = t THEN <<d>> ELSE B[u]]
        BY <1>1, <1>6, <2>2, Zenon DEF IndexAdd
      <3>6. B2 = [u \in DOMAIN B \cup {t} |-> IF u = t THEN more ELSE B[u]]
        BY <3>4, <3>5, Zenon
      <3> QED BY <3>3, <3>4, <3>6
    <2> QED BY <2>1, <2>2
  <1>8. IndexOK(E2, B2)
    BY <1>2, <1>4, <1>5, <1>7 DEF IndexOK
  <1> QED BY <1>1, <1>8, Zenon

\* What is left of a list of distinct directions when one of them is dropped.
LEMMA DropElems ==
    ASSUME NEW A, NEW s \in Seq(A), Once(s), NEW d \in Elems(s)
    PROVE  /\ Dropped(s, d) \in Seq(A) /\ Once(Dropped(s, d))
           /\ Elems(Dropped(s, d)) = Elems(s) \ {d}
  <1>1. PICK found : found = {i \in DOMAIN s : s[i] = d}
    OBVIOUS
  <1>2. found \in SUBSET Nat /\ found # {}
    <2>1. DOMAIN s = 1 .. Len(s) /\ Len(s) \in Nat
      BY LenProperties
    <2> QED BY <1>1, <2>1 DEF Elems
  <1>3. PICK k : k = CHOOSE i \in found : \A j \in found : i <= j
    OBVIOUS
  <1>4. k \in found
    <2>1. \E i \in found : \A j \in found : i <= j
      BY <1>2, Least
    <2> QED BY <1>3, <2>1, Zenon
  <1>5. k \in DOMAIN s /\ s[k] = d
    BY <1>1, <1>4
  <1>6. Dropped(s, d) = RemoveAt(s, k)
    BY <1>1, <1>2, <1>3, Zenon DEF Dropped
  <1>7. /\ RemoveAt(s, k) \in Seq(A) /\ Once(RemoveAt(s, k))
        /\ Elems(RemoveAt(s, k)) = Elems(s) \ {s[k]}
    BY <1>5, RemoveElems
  <1> QED BY <1>5, <1>6, <1>7, Zenon

\* A removed edge is no longer listed, and a tuple without edges has no list.
LEMMA RemoveKeeps ==
    ASSUME NEW E, NEW B, IndexOK(E, B), NEW t \in Tuples, NEW d \in Directions, <<t, d>> \in E
    PROVE  IndexOK(E \ {<<t, d>>}, IndexRemove(B, <<t, d>>))
  <1>1. PICK E2, B2 : E2 = E \ {<<t, d>>} /\ B2 = IndexRemove(B, <<t, d>>)
    OBVIOUS
  <1>2. E2 \subseteq Tuples \X Directions
    BY <1>1 DEF IndexOK
  <1>3. d \in Dirs(E, t)
    BY DEF Dirs
  <1>4. \A u : Dirs(E2, u) = IF u = t THEN Dirs(E, t) \ {d} ELSE Dirs(E, u)
    BY <1>1 DEF Dirs
  <1>5. PICK list \in Seq(Directions) : /\ list = B[t] /\ Once(list) /\ Elems(list) = Dirs(E, t)
                                        /\ t \in DOMAIN B
    BY <1>3 DEF IndexOK
  <1>6. PICK rest \in Seq(Directions) :
            /\ Elems(rest) = Dirs(E, t) \ {d} /\ Once(rest)
            /\ B2 = IF rest = <<>> THEN Without(B, t) ELSE [B EXCEPT ![t] = rest]
    <2>1. <<t, d>>[1] = t /\ <<t, d>>[2] = d
      OBVIOUS
    <2>2. PICK rest \in Seq(Directions) :
              rest = Dropped(list, d) /\ Once(rest) /\ Elems(rest) = Elems(list) \ {d}
      BY <1>3, <1>5, DropElems
    <2>3. B2 = LET left == Dropped(B[t], d)
               IN  IF left = <<>> THEN Without(B, t) ELSE [B EXCEPT ![t] = left]
      BY <1>1, <2>1 DEF IndexRemove
    <2>4. B2 = IF rest = <<>> THEN Without(B, t) ELSE [B EXCEPT ![t] = rest]
      BY <1>5, <2>2, <2>3
    <2> QED BY <1>5, <2>2, <2>4
  <1>7. rest = <<>> <=> Dirs(E2, t) = {}
    BY <1>4, <1>6, EmptyElems
  <1>8. CASE rest = <<>>
    <2>1. B2 = [u \in DOMAIN B \ {t} |-> B[u]]
      BY <1>6, <1>8 DEF Without
    <2>2. IndexOK(E2, B2)
      BY <1>2, <1>4, <1>7, <1>8, <2>1 DEF IndexOK
    <2> QED BY <1>1, <2>2, Zenon
  <1>9. CASE rest # <<>>
    <2>1. DOMAIN B2 = DOMAIN B /\ \A u \in DOMAIN B : B2[u] = IF u = t THEN rest ELSE B[u]
      BY <1>5, <1>6, <1>9
    <2>2. IndexOK(E2, B2)
      BY <1>2, <1>3, <1>4, <1>6, <1>7, <1>9, <2>1 DEF IndexOK
    <2> QED BY <1>1, <2>2, Zenon
  <1> QED BY <1>8, <1>9

\* When the pass has met one more edge, it is not listed if it was faint.
LEMMA FaintRemoved ==
    ASSUME NEW E, NEW B, IndexOK(E, B), NEW t \in Tuples, NEW d \in Directions,
           <<t, d>> \in Faint => <<t, d>> \in E
    PROVE  IndexOK(E \ (Faint \cap {<<t, d>>}), RemoveFaint(B, <<t, d>>))
  <1>1. CASE <<t, d>> \in Faint
    <2>1. E \ (Faint \cap {<<t, d>>}) = E \ {<<t, d>>}
      BY <1>1
    <2>2. RemoveFaint(B, <<t, d>>) = IndexRemove(B, <<t, d>>)
      BY <1>1 DEF RemoveFaint
    <2>3. IndexOK(E \ {<<t, d>>}, IndexRemove(B, <<t, d>>))
      BY <1>1, RemoveKeeps
    <2> QED BY <2>1, <2>2, <2>3, Zenon
  <1>2. CASE <<t, d>> \notin Faint
    <2>1. E \ (Faint \cap {<<t, d>>}) = E
      BY <1>2
    <2>2. RemoveFaint(B, <<t, d>>) = B
      BY <1>2 DEF RemoveFaint
    <2> QED BY <2>1, <2>2, Zenon
  <1> QED BY <1>1, <1>2

\* When the pass has met the edges of a tuple, the ones left are listed.
LEMMA TuplePruned ==
    ASSUME NEW E, IndexOK(E, byKey), Faint \subseteq E, NEW t \in Tuples
    PROVE  \E F : /\ IndexOK(F, Pruned(t))
                  /\ \A d \in Directions : <<t, d>> \in F <=> <<t, d>> \in E \ Faint
  <1>0. "positive" \in Directions /\ "negative" \in Directions /\ "neutral" \in Directions
    BY DEF Directions
  <1>1. PICK E1, B1 : /\ E1 = E \ (Faint \cap {<<t, "positive">>})
                      /\ B1 = RemoveFaint(byKey, <<t, "positive">>)
    OBVIOUS
  <1>2. IndexOK(E1, B1)
    BY <1>0, <1>1, FaintRemoved
  <1>3. PICK E2, B2 : /\ E2 = E1 \ (Faint \cap {<<t, "negative">>})
                      /\ B2 = RemoveFaint(B1, <<t, "negative">>)
    OBVIOUS
  <1>4. IndexOK(E2, B2)
    <2>1. <<t, "negative">> \in Faint => <<t, "negative">> \in E1
      BY <1>1
    <2> QED BY <1>0, <1>2, <1>3, <2>1, FaintRemoved
  <1>5. PICK E3, B3 : /\ E3 = E2 \ (Faint \cap {<<t, "neutral">>})
                      /\ B3 = RemoveFaint(B2, <<t, "neutral">>)
    OBVIOUS
  <1>6. IndexOK(E3, B3)
    <2>1. <<t, "neutral">> \in Faint => <<t, "neutral">> \in E2
      BY <1>1, <1>3
    <2> QED BY <1>0, <1>4, <1>5, <2>1, FaintRemoved
  <1>7. B3 = Pruned(t)
    BY <1>1, <1>3, <1>5, Zenon DEF Pruned
  <1>8. \A d \in Directions : <<t, d>> \in E3 <=> <<t, d>> \in E \ Faint
    BY <1>1, <1>3, <1>5 DEF Directions
  <1> QED BY <1>6, <1>7, <1>8, Zenon

\* A pass that removes the faint edges leaves the others listed.
LEMMA DecayKeeps ==
    ASSUME NEW E, IndexOK(E, byKey), Faint \subseteq E
    PROVE  IndexOK(E \ Faint, [t \in {u \in DOMAIN byKey : u \in DOMAIN Pruned(u)} |-> Pruned(t)[t]])
  <1>1. PICK E2, B2 : /\ E2 = E \ Faint
                      /\ B2 = [t \in {u \in DOMAIN byKey : u \in DOMAIN Pruned(u)} |-> Pruned(t)[t]]
    OBVIOUS
  <1>2. /\ DOMAIN byKey = {t \in Tuples : Dirs(E, t) # {}}
        /\ E2 \subseteq Tuples \X Directions /\ \A t : Dirs(E2, t) \subseteq Dirs(E, t)
    BY <1>1 DEF IndexOK, Dirs
  <1>3. ASSUME NEW t \in Tuples
        PROVE  /\ t \in DOMAIN Pruned(t) <=> Dirs(E2, t) # {}
               /\ t \in DOMAIN Pruned(t) =>
                    /\ Pruned(t)[t] \in Seq(Directions) /\ Once(Pruned(t)[t])
                    /\ Elems(Pruned(t)[t]) = Dirs(E2, t)
    <2>1. PICK F : /\ IndexOK(F, Pruned(t))
                   /\ \A d \in Directions : <<t, d>> \in F <=> <<t, d>> \in E2
      BY <1>1, TuplePruned
    <2>2. Dirs(F, t) = Dirs(E2, t)
      BY <2>1 DEF Dirs
    <2>3. PICK B : B = Pruned(t)
      OBVIOUS
    <2>4. /\ t \in DOMAIN B <=> Dirs(F, t) # {}
          /\ t \in DOMAIN B => B[t] \in Seq(Directions) /\ Once(B[t]) /\ Elems(B[t]) = Dirs(F, t)
      BY <2>1, <2>3 DEF IndexOK
    <2> QED BY <2>2, <2>3, <2>4, Zenon
  <1>4. DOMAIN B2 = {t \in Tuples : Dirs(E2, t) # {}}
    BY <1>1, <1>2, <1>3
  <1>5. \A t \in DOMAIN B2 : B2[t] \in Seq(Directions) /\ Once(B2[t]) /\ Elems(B2[t]) = Dirs(E2, t)
    BY <1>1, <1>2, <1>3
  <1>6. IndexOK(E2, B2)
    BY <1>2, <1>4, <1>5, Zenon DEF IndexOK
  <1> QED BY <1>1, <1>6, Zenon

\* The inductive invariant of the graph.
GraphOK == IndexOK(DOMAIN edges, byKey)

\* An edge is learnt, after the opposite one was weakened or removed.
LEMMA LearnKeeps ==
    ASSUME GraphOK, NEW t \in Tuples, NEW d \in Directions, NEW strength, Upsert(t, d, strength)
    PROVE  GraphOK'
  <1>1. PICK o : o = Opposite(d)
    OBVIOUS
  <1>2. o = "none" \/ o \in Directions
    BY <1>1 DEF Opposite, Directions
  <1>3. "none" \notin Directions /\ o # d
    BY <1>1 DEF Opposite, Directions
  <1>4. PICK E, B : /\ IndexOK(E, B)
                    /\ DOMAIN edges' = E \cup {<<t, d>>}
                    /\ byKey' = IF <<t, d>> \in E THEN B ELSE IndexAdd(B, <<t, d>>)
    <2>1. CASE /\ <<t, o>> \in DOMAIN edges
               /\ ClampStrength(edges[<<t, o>>].strength - ContradictionPenalty) < DeletionThreshold
      <3>1. <<t, o>> \in Tuples \X Directions
        BY <2>1 DEF GraphOK, IndexOK
      <3>2. o \in Directions
        BY <3>1
      <3>3. PICK E, B : E = DOMAIN edges \ {<<t, o>>} /\ B = IndexRemove(byKey, <<t, o>>)
        OBVIOUS
      <3>4. IndexOK(E, B)
        BY <2>1, <3>2, <3>3, RemoveKeeps, Zenon DEF GraphOK
      <3>5. E = DOMAIN Without(edges, <<t, o>>)
        BY <3>3 DEF Without
      <3>6. DOMAIN edges' = E \cup {<<t, d>>}
        BY <1>1, <2>1, <3>5 DEF Upsert
      <3>7. byKey' = IF <<t, d>> \in E THEN B ELSE IndexAdd(B, <<t, d>>)
        BY <1>1, <2>1, <3>3, <3>5, Zenon DEF Upsert
      <3> QED BY <3>4, <3>6, <3>7
    <2>2. CASE ~ /\ <<t, o>> \in DOMAIN edges
                 /\ ClampStrength(edges[<<t, o>>].strength - ContradictionPenalty) < DeletionThreshold
      <3>1. PICK f : /\ DOMAIN f = DOMAIN edges
                     /\ DOMAIN edges' = DOMAIN f \cup {<<t, d>>}
                     /\ byKey' = IF <<t, d>> \in DOMAIN f THEN byKey ELSE IndexAdd(byKey, <<t, d>>)
        BY <1>1, <2>2 DEF Upsert
      <3> QED BY <3>1 DEF GraphOK
    <2> QED BY <2>1, <2>2
  <1>5. CASE <<t, d>> \in E
    <2>1. DOMAIN edges' = E /\ byKey' = B
      BY <1>4, <1>5
    <2> QED BY <1>4, <2>1, Zenon DEF GraphOK
  <1>6. CASE <<t, d>> \notin E
    <2>1. IndexOK(E \cup {<<t, d>>}, IndexAdd(B, <<t, d>>))
      BY <1>4, <1>6, AddKeeps
    <2> QED BY <1>4, <1>6, <2>1, Zenon DEF GraphOK
  <1> QED BY <1>5, <1>6

\* The index is in order in every reachable state.
LEMMA GraphSafe == Spec => []GraphOK
  <1>1. Init => GraphOK
    <2> SUFFICES ASSUME Init PROVE GraphOK
      OBVIOUS
    <2>1. DOMAIN edges = {} /\ DOMAIN byKey = {}
      BY DEF Init, GraphInit
    <2>2. \A t : Dirs({}, t) = {}
      BY DEF Dirs
    <2> QED BY <2>1, <2>2 DEF GraphOK, IndexOK
  <1>2. GraphOK /\ [Next]_vars => GraphOK'
    <2> SUFFICES ASSUME GraphOK, [Next]_vars PROVE GraphOK'
      OBVIOUS
    <2>1. CASE UNCHANGED graphVars
      BY <2>1 DEF graphVars, GraphOK
    <2>2. CASE NightlyDecay
      <3>1. DOMAIN edges' = DOMAIN edges \ Faint
        BY <2>2 DEF NightlyDecay, GraphStep, Decay
      <3>2. byKey' = [t \in {u \in DOMAIN byKey : u \in DOMAIN Pruned(u)} |-> Pruned(t)[t]]
        BY <2>2, Zenon DEF NightlyDecay, GraphStep, Decay
      <3>3. Faint \subseteq DOMAIN edges /\ IndexOK(DOMAIN edges, byKey)
        BY DEF Faint, Stale, GraphOK
      <3>4. IndexOK(DOMAIN edges \ Faint,
                    [t \in {u \in DOMAIN byKey : u \in DOMAIN Pruned(u)} |-> Pruned(t)[t]])
        BY <3>3, DecayKeeps, Zenon
      <3> QED BY <3>1, <3>2, <3>4, Zenon DEF GraphOK
    <2>3. CASE Day
      <3>1. DOMAIN edges' = DOMAIN edges /\ byKey' = byKey
        BY <2>3 DEF Day, GraphStep, GraphClock
      <3> QED BY <3>1, Zenon DEF GraphOK
    <2>4. CASE Learn
      BY <2>4, LearnKeeps DEF Learn, GraphStep
    <2>5. CASE TrackerStep \/ DigestStep
      BY <2>1, <2>5 DEF TrackerStep, DigestStep
    <2>6. CASE UNCHANGED vars
      BY <2>1, <2>6 DEF vars
    <2> QED BY <2>2, <2>3, <2>4, <2>5, <2>6 DEF Next
  <1> QED BY <1>1, <1>2, PTL DEF Spec

\* The index lists the directions of the edges of a tuple, each once, and no
\* tuple without edges, after any sequence of insertions, contradictions and
\* decays, for every set of tuples and all strengths (IndexExact;
\* knowledge_graph.go:149-203, 308-320).
THEOREM Index == Spec => []IndexExact
  <1>1. GraphOK => IndexExact
    <2> SUFFICES ASSUME GraphOK PROVE IndexExact
      OBVIOUS
    <2>1. DOMAIN edges \subseteq Tuples \X Directions
      BY DEF GraphOK, IndexOK
    <2>2. DOMAIN byKey = {id[1] : id \in DOMAIN edges}
      <3>1. \A t : t \in DOMAIN byKey <=> t \in Tuples /\ \E d \in Directions : <<t, d>> \in DOMAIN edges
        BY DEF GraphOK, IndexOK, Dirs
      <3>2. \A id \in DOMAIN edges : id[1] \in DOMAIN byKey
        BY <2>1, <3>1
      <3>3. ASSUME NEW t \in DOMAIN byKey PROVE \E id \in DOMAIN edges : t = id[1]
        <4>1. PICK d \in Directions : <<t, d>> \in DOMAIN edges
          BY <3>1
        <4>2. <<t, d>>[1] = t
          OBVIOUS
        <4> QED BY <4>1, <4>2, Zenon
      <3> QED BY <3>2, <3>3
    <2>3. ASSUME NEW t \in DOMAIN byKey
          PROVE  /\ \A i, j \in DOMAIN byKey[t] : byKey[t][i] = byKey[t][j] => i = j
                 /\ {byKey[t][i] : i \in DOMAIN byKey[t]} =
                        {id[2] : id \in {e \in DOMAIN edges : e[1] = t}}
      <3>1. PICK list \in Seq(Directions) :
                list = byKey[t] /\ Once(list) /\ Elems(list) = Dirs(DOMAIN edges, t)
        BY DEF GraphOK, IndexOK
      <3>2. DOMAIN list = 1 .. Len(list)
        BY LenProperties
      <3>3. Dirs(DOMAIN edges, t) = {id[2] : id \in {e \in DOMAIN edges : e[1] = t}}
        <4>1. \A id \in DOMAIN edges : id[1] = t => id[2] \in Dirs(DOMAIN edges, t)
          BY <2>1 DEF Dirs
        <4>2. \A d \in Dirs(DOMAIN edges, t) : <<t, d>> \in {e \in DOMAIN edges : e[1] = t}
          BY DEF Dirs
        <4>3. \A d \in Dirs(DOMAIN edges, t) : \E id \in {e \in DOMAIN edges : e[1] = t} : d = id[2]
          BY <4>2
        <4> QED BY <4>1, <4>3
      <3>4. /\ \A i, j \in DOMAIN list : list[i] = list[j] => i = j
            /\ {list[i] : i \in DOMAIN list} = Elems(list)
        BY <3>1, <3>2 DEF Once, Elems
      <3>5. {list[i] : i \in DOMAIN list} = {id[2] : id \in {e \in DOMAIN edges : e[1] = t}}
        BY <3>1, <3>3, <3>4, Zenon
      <3>6. {byKey[t][i] : i \in DOMAIN byKey[t]} = {list[i] : i \in DOMAIN list}
        BY <3>1
      <3>7. \A i, j \in DOMAIN byKey[t] : byKey[t][i] = byKey[t][j] => i = j
        BY <3>1, <3>4
      <3> QED BY <3>5, <3>6, <3>7, Zenon
    <2> QED BY <2>2, <2>3 DEF IndexExact
  <1> QED BY <1>1, GraphSafe, PTL

-----------------------------------------------------------------------------
(* From the bus to the audit of the snapshot.                               *)

\* What the bus, the subscription and the feed hold.
Sigs == {Stamped(sig, age) : sig \in {x \in Signals : x.source \in Sources}, age \in Nat}
OnWire == [channel : Channels, payload : Sigs \cup {Garbage}]
OnOut == [channel : Channels, payload : Sigs]
Fed == [channel : Channels, sig : Sigs]

\* A day makes a signal older and leaves its source.
AgedSignal(sig) ==
    IF sig = Garbage THEN sig ELSE [sig EXCEPT !.age = IF @ < Freshness THEN @ + 1 ELSE @]

\* A signal that grows older is a signal, and it has a source.
LEMMA AgedSignalIs ==
    ASSUME NEW sig \in Sigs
    PROVE  AgedSignal(sig) \in Sigs /\ sig.source \in Sources
  <1>1. PICK x \in Signals, a \in Nat : x.source \in Sources /\ sig = Stamped(x, a)
    BY DEF Sigs
  <1>2. PICK b \in Nat : b = IF a < Freshness THEN a + 1 ELSE a
    OBVIOUS
  <1>3. sig.age = a /\ sig.source = x.source
    BY <1>1 DEF Stamped
  <1>4. [sig EXCEPT !.age = b] = Stamped(x, b)
    BY <1>1 DEF Stamped
  <1>5. [sig EXCEPT !.age = IF @ < Freshness THEN @ + 1 ELSE @] = [sig EXCEPT !.age = b]
    BY <1>2, <1>3
  <1>6. Stamped(x, b) \in Sigs
    BY <1>1 DEF Sigs
  <1> QED BY <1>1, <1>3, <1>4, <1>5, <1>6 DEF AgedSignal

\* The signals read from a channel.
LEMMA RecentIs ==
    ASSUME feed \in Seq(Fed), NEW ch, NEW since, NEW r \in Recent(ch, since)
    PROVE  r \in Seq(Sigs)
  <1>1. PICK new : new = {i \in DOMAIN feed : feed[i].channel = ch /\ feed[i].sig.age < since}
    OBVIOUS
  <1>2. PICK order \in SetToSeqs(new) : r = [i \in DOMAIN order |-> feed[order[i]].sig]
    BY <1>1 DEF Recent
  <1>3. PICK n \in Nat : DOMAIN feed = 1 .. n /\ \A i \in 1 .. n : feed[i] \in Fed
    BY LenProperties, ElementOfSeq
  <1>4. IsFiniteSet(new)
    <2>1. IsFiniteSet(1 .. n)
      BY FS_Interval
    <2> QED BY <1>1, <1>3, <2>1, FS_Subset
  <1>5. order \in Seq(new)
    BY <1>2, <1>4, PermutationsAre
  <1>6. PICK m \in Nat : DOMAIN order = 1 .. m /\ \A i \in 1 .. m : order[i] \in new
    BY <1>5, LenProperties, ElementOfSeq
  <1>7. \A i \in 1 .. m : feed[order[i]].sig \in Sigs
    BY <1>1, <1>3, <1>6 DEF Fed
  <1>8. r \in [1 .. m -> Sigs]
    BY <1>2, <1>6, <1>7
  <1> QED BY <1>8

\* One digest replaces others or changes nothing.
LEMMA BetterIs ==
    ASSUME NEW best, IsFiniteSet(best), NEW d
    PROVE  Better(best, d) \subseteq best \cup {d} /\ IsFiniteSet(Better(best, d))
  <1>1. Better(best, d) \subseteq best \cup {d}
    BY DEF Better
  <1>2. IsFiniteSet(best \cup {d})
    BY FS_AddElement
  <1> QED BY <1>1, <1>2, FS_Subset

\* The knowledge edges of a snapshot are a sequence.
LEMMA EdgesAre ==
    ASSUME NEW views \in [Entities -> Graphs], NEW near \in CollectEdges(views)
    PROVE  \E C : near \in Seq(C)
  <1> DEFINE close(e) == {edge \in DOMAIN views[e] : e \in {edge.a, edge.b}}
             all == UNION {close(e) : e \in Entities}
  <1>1. \A e \in Entities : IsFiniteSet(close(e))
    <2> SUFFICES ASSUME NEW e \in Entities PROVE IsFiniteSet(close(e))
      OBVIOUS
    <2>1. IsFiniteSet(DOMAIN views[e])
      BY GraphsAssumption
    <2>2. close(e) \subseteq DOMAIN views[e]
      OBVIOUS
    <2> QED BY <2>1, <2>2, FS_Subset
  <1>2. PICK sets, f : sets = {close(e) : e \in Entities} /\ f = [e \in Entities |-> close(e)]
    OBVIOUS
  <1> HIDE DEF close
  <1>3. f \in Surjection(Entities, sets)
    BY <1>2 DEF Surjection
  <1>4. IsFiniteSet(sets)
    BY <1>3, GraphsAssumption, FS_Surjection
  <1>5. IsFiniteSet(UNION sets)
    BY <1>1, <1>2, <1>4, FS_UNION
  <1>6. PICK p \in SetToSeqs(all) : near = FirstN(p, MaxEdges)
    BY DEF CollectEdges, close
  <1>7. p \in Seq(UNION sets)
    <2>1. all = UNION sets
      BY <1>2
    <2> HIDE DEF all
    <2> QED BY <1>5, <1>6, <2>1, PermutationsAre
  <1>8. FirstN(p, MaxEdges) \in Seq(UNION sets)
    BY <1>7, FirstNIs, CapsAssumption
  <1> QED BY <1>6, <1>8

\* The audit of a snapshot that is cut to its budget is that of the digests
\* that are left.
LEMMA BudgetIs ==
    ASSUME NEW B, NEW t \in Seq(B), NEW C, NEW near \in Seq(C), NEW dist, NEW r,
           r = EnforceBudget([top |-> t, edges |-> near, audit |-> WeightsAudit(t),
                              truncated |-> FALSE, disturbed |-> dist])
    PROVE  /\ r.top \in Seq(B) /\ r.audit = WeightsAudit(r.top) /\ r.disturbed = dist
  <1>1. PICK lt \in Nat, le \in Nat : lt = Len(t) /\ le = Len(near)
    BY LenProperties
  <1>2. PICK a : a = WeightsAudit(t)
    OBVIOUS
  <1>3. PICK s : s = [top |-> t, edges |-> near, audit |-> a, truncated |-> FALSE, disturbed |-> dist]
    OBVIOUS
  <1>4. /\ s.top = t /\ s.edges = near /\ s.audit = a /\ s.disturbed = dist
        /\ DOMAIN s = {"top", "edges", "audit", "truncated", "disturbed"}
    BY <1>3
  <1>5. PICK over \in Int : over = EstimateTokens(s.top, s.edges) - TokenBudget
    BY <1>1, <1>4, CapsAssumption DEF EstimateTokens
  <1>6. PICK dt \in 0 .. lt : dt = IF over <= 0 THEN 0 ELSE IF over < Len(s.top) THEN over ELSE Len(s.top)
    BY <1>1, <1>4
  <1>7. PICK de \in 0 .. le :
            de = IF over - dt <= 0 THEN 0 ELSE IF over - dt < Len(s.edges) THEN over - dt ELSE Len(s.edges)
    BY <1>1, <1>4
  <1>8. PICK top : top = FirstN(s.top, Len(s.top) - dt)
    OBVIOUS
  <1>9. EnforceBudget(s) =
            [s EXCEPT !.top = top, !.edges = FirstN(@, Len(@) - de), !.truncated = dt + de > 0,
                      !.audit = IF dt + de > 0 THEN WeightsAudit(top) ELSE @]
    BY <1>5, <1>6, <1>7, <1>8 DEF EnforceBudget
  <1>10. /\ EnforceBudget(s).top = top
         /\ EnforceBudget(s).audit = IF dt + de > 0 THEN WeightsAudit(top) ELSE a
         /\ EnforceBudget(s).disturbed = dist
    BY <1>4, <1>9
  <1>11. top \in Seq(B)
    <2>1. PICK k \in Nat : k = lt - dt
      OBVIOUS
    <2>2. top = FirstN(t, k)
      BY <1>1, <1>4, <1>8, <2>1
    <2> QED BY <2>2, FirstNIs
  <1>12. ~(dt + de > 0) => top = t
    <2> SUFFICES ASSUME ~(dt + de > 0) PROVE top = t
      OBVIOUS
    <2>1. lt - dt = lt
      OBVIOUS
    <2>2. top = FirstN(t, lt)
      BY <1>1, <1>4, <1>8, <2>1
    <2> QED BY <1>1, <2>2, FirstNIs
  <1>13. EnforceBudget(s).audit = WeightsAudit(top)
    BY <1>2, <1>10, <1>12
  <1>14. r = EnforceBudget(s)
    BY <1>2, <1>3, Zenon
  <1> QED BY <1>10, <1>11, <1>13, <1>14, Zenon

\* The weight computed from the outcomes of a source.
WeightOf(obs) ==
    LET live == EvictExpired(obs)
    IN  IF Len(live) < MinObservations THEN 50 ELSE (100 * Correct(live)) \div Len(live)

\* Reading a score does not change it.
LEMMA WeightStays ==
    ASSUME NEW obs \in Seq(Outcomes)
    PROVE  WeightOf(EvictExpired(obs)) = WeightOf(obs)
  <1>1. EvictExpired(EvictExpired(obs)) = EvictExpired(obs)
    BY EvictIs
  <1>2. PICK e : e = EvictExpired(obs)
    OBVIOUS
  <1>3. EvictExpired(e) = e
    BY <1>1, <1>2, Zenon
  <1> QED BY <1>2, <1>3, Zenon DEF WeightOf

\* A Summarize call in progress: its digests carry the present weight of their
\* sources unless an outcome arrived or a day passed.
SumGood(s, obs) ==
    /\ DOMAIN s = {"since", "channels", "pending", "best", "disturbed"}
    /\ s.pending \in Seq(Sigs)
    /\ IsFiniteSet(s.best)
    /\ \A d \in s.best : d.source \in Sources
    /\ ~s.disturbed => \A d \in s.best : d.accuracy = WeightOf(obs[d.source])

\* What AuditExact says of a snapshot.
AuditOK(s) ==
    LET digests == {s.top[i] : i \in DOMAIN s.top}
    IN  /\ DOMAIN s.audit = {d.source : d \in digests}
        /\ \A x \in DOMAIN s.audit : \E d \in digests : d.source = x /\ d.accuracy = s.audit[x]
        /\ ~s.disturbed => \A d \in digests : d.accuracy = s.audit[d.source]

\* The snapshot of a call is exact.
LEMMA FinishIs ==
    ASSUME sum # None, SumGood(sum, outcomes), Finish
    PROVE  AuditOK(snap')
  <1>1. PICK best, dist : best = sum.best /\ dist = sum.disturbed
    OBVIOUS
  <1>2. /\ IsFiniteSet(best) /\ \A d \in best : d.source \in Sources
        /\ ~dist => \A d \in best : d.accuracy = WeightOf(outcomes[d.source])
    BY <1>1 DEF SumGood
  <1>3. PICK p \in Ranked(best), views \in [Entities -> Graphs] :
            \E near \in CollectEdges(views) :
                snap' = EnforceBudget([top |-> FirstN(p, MaxSignals), edges |-> near,
                                       audit |-> WeightsAudit(FirstN(p, MaxSignals)),
                                       truncated |-> FALSE, disturbed |-> dist])
    BY <1>1 DEF Finish
  <1>4. PICK near \in CollectEdges(views) :
                snap' = EnforceBudget([top |-> FirstN(p, MaxSignals), edges |-> near,
                                       audit |-> WeightsAudit(FirstN(p, MaxSignals)),
                                       truncated |-> FALSE, disturbed |-> dist])
    BY <1>3
  <1>5. p \in SetToSeqs(best)
    BY <1>3 DEF Ranked
  <1>6. p \in Seq(best)
    BY <1>2, <1>5, PermutationsAre
  <1>7. PICK t \in Seq(best) : t = FirstN(p, MaxSignals)
    BY <1>6, FirstNIs, CapsAssumption
  <1>8. PICK C : near \in Seq(C)
    BY EdgesAre
  <1>9. PICK r : r = EnforceBudget([top |-> t, edges |-> near, audit |-> WeightsAudit(t),
                                    truncated |-> FALSE, disturbed |-> dist])
    OBVIOUS
  <1>10. snap' = r
    BY <1>4, <1>7, <1>9, Zenon
  <1>11. r.top \in Seq(best) /\ r.audit = WeightsAudit(r.top) /\ r.disturbed = dist
    BY <1>8, <1>9, BudgetIs
  <1>a. PICK audit : audit = r.audit
    OBVIOUS
  <1>12. PICK top \in Seq(best) : top = r.top /\ audit = WeightsAudit(top) /\ audit = r.audit
    BY <1>11, <1>a
  <1>13. PICK n \in Nat : n = Len(top) /\ DOMAIN top = 1 .. n /\ \A i \in 1 .. n : top[i] \in best
    BY LenProperties, ElementOfSeq
  <1>14. /\ DOMAIN audit = {top[i].source : i \in 1 .. n}
         /\ \A x \in DOMAIN audit : \E i \in 1 .. n : top[i].source = x /\ top[i].accuracy = audit[x]
    <2>1. /\ DOMAIN WeightsAudit(top) = {top[i].source : i \in 1 .. Len(top)}
          /\ \A x \in DOMAIN WeightsAudit(top) :
                 \E i \in 1 .. Len(top) : top[i].source = x /\ top[i].accuracy = WeightsAudit(top)[x]
      BY AuditIs
    <2>2. audit = WeightsAudit(top) /\ n = Len(top)
      BY <1>12, <1>13
    <2> QED BY <2>1, <2>2, Zenon
  <1>15. PICK digests : digests = {top[i] : i \in DOMAIN top}
    OBVIOUS
  <1>16. DOMAIN audit = {d.source : d \in digests}
    BY <1>13, <1>14, <1>15
  <1>17. \A x \in DOMAIN audit : \E d \in digests : d.source = x /\ d.accuracy = audit[x]
    BY <1>13, <1>14, <1>15
  <1>18. ~dist => \A d \in digests : d.accuracy = audit[d.source]
    <2> SUFFICES ASSUME ~dist, NEW d \in digests PROVE d.accuracy = audit[d.source]
      OBVIOUS
    <2>1. \A c \in digests : c \in best
      BY <1>13, <1>15
    <2>2. d.source \in DOMAIN audit
      BY <1>16
    <2>3. PICK c \in digests : c.source = d.source /\ c.accuracy = audit[d.source]
      BY <1>17, <2>2
    <2> QED BY <1>2, <2>1, <2>3, Zenon
  <1>19. AuditOK(r)
    <2>1. {r.top[i] : i \in DOMAIN r.top} = digests
      BY <1>12, <1>15
    <2>2. r.audit = audit /\ r.disturbed = dist
      BY <1>11, <1>12
    <2>3. AuditOK(r) <=> /\ DOMAIN audit = {d.source : d \in digests}
                         /\ \A x \in DOMAIN audit : \E d \in digests : d.source = x /\ d.accuracy = audit[x]
                         /\ ~dist => \A d \in digests : d.accuracy = audit[d.source]
      BY <2>1, <2>2 DEF AuditOK
    <2> QED BY <1>16, <1>17, <1>18, <2>3
  <1> QED BY <1>10, <1>19, Zenon

\* The inductive invariant of the bus, the feed and the aggregator.
AuditInv ==
    /\ part # "digest" => sum = None
    /\ wire \in Seq(OnWire)
    /\ out \in Seq(OnOut)
    /\ feed \in Seq(Fed)
    /\ sum # None => SumGood(sum, outcomes)
    /\ snap # None => AuditOK(snap)

\* A step on the bus keeps what the bus and the feed hold.
LEMMA BusKeeps ==
    ASSUME AuditInv, OnBus
    PROVE  /\ wire' \in Seq(OnWire) /\ out' \in Seq(OnOut) /\ feed' \in Seq(Fed)
           /\ UNCHANGED <<sum, outcomes>>
  <1>1. wire \in Seq(OnWire) /\ out \in Seq(OnOut) /\ feed \in Seq(Fed)
    BY DEF AuditInv
  <1>2. ASSUME NEW ch \in Channels, NEW sig \in Signals, NEW age \in Stamps, Publish(ch, sig, age)
        PROVE  wire' \in Seq(OnWire) /\ UNCHANGED <<out, feed, sum>>
    <2>1. Stamped(sig, age) \in Sigs
      <3>1. sig.source \in Sources
        BY <1>2 DEF Publish, ValidSignal
      <3>2. \A x \in Signals, a \in Nat : x.source \in Sources => Stamped(x, a) \in Sigs
        BY DEF Sigs
      <3>3. age \in Nat
        BY StampsAssumption
      <3> QED BY <3>1, <3>2, <3>3, Zenon
    <2>2. PICK m \in OnWire : m = [channel |-> ch, payload |-> Stamped(sig, age)]
      BY <2>1 DEF OnWire
    <2>3. wire' = Append(wire, m)
      BY <1>2, <2>2 DEF Publish
    <2> QED BY <1>1, <1>2, <2>3, AppendProperties DEF Publish
  <1>3. ASSUME NEW ch \in Channels, PublishGarbage(ch)
        PROVE  wire' \in Seq(OnWire) /\ UNCHANGED <<out, feed, sum>>
    <2>1. PICK m \in OnWire : m = [channel |-> ch, payload |-> Garbage]
      BY DEF OnWire
    <2>2. wire' = Append(wire, m)
      BY <1>3, <2>1 DEF PublishGarbage
    <2> QED BY <1>1, <1>3, <2>2, AppendProperties DEF PublishGarbage
  <1>4. ASSUME Relay
        PROVE  wire' \in Seq(OnWire) /\ out' \in Seq(OnOut) /\ UNCHANGED <<feed, sum>>
    <2>1. PICK m \in OnWire : m = Head(wire)
      BY <1>1, <1>4, HeadTailProperties DEF Relay
    <2>2. wire' \in Seq(OnWire)
      BY <1>1, <1>4, HeadTailProperties DEF Relay
    <2>3. ASSUME m.payload # Garbage PROVE Append(out, m) \in Seq(OnOut)
      <3>1. m \in OnOut
        BY <2>3 DEF OnWire, OnOut
      <3> QED BY <1>1, <3>1, AppendProperties
    <2>4. out' = out \/ (m.payload # Garbage /\ out' = Append(out, m))
      BY <1>4, <2>1 DEF Relay
    <2> QED BY <1>1, <1>4, <2>2, <2>3, <2>4 DEF Relay
  <1>5. ASSUME Consume
        PROVE  out' \in Seq(OnOut) /\ feed' \in Seq(Fed) /\ UNCHANGED <<wire, sum>>
    <2>1. PICK m \in OnOut : m = Head(out)
      BY <1>1, <1>5, HeadTailProperties DEF Consume
    <2>2. out' \in Seq(OnOut)
      BY <1>1, <1>5, HeadTailProperties DEF Consume
    <2>3. PICK x \in Fed : x = [channel |-> m.channel, sig |-> m.payload]
      BY DEF OnOut, Fed
    <2>4. feed' = Append(feed, x)
      BY <1>5, <2>1, <2>3 DEF Consume
    <2> QED BY <1>1, <1>5, <2>2, <2>4, AppendProperties DEF Consume
  <1> QED BY <1>1, <1>2, <1>3, <1>4, <1>5 DEF OnBus, trackerVars

\* A step of Summarize keeps its digests at the present weights.
LEMMA CollectKeeps ==
    ASSUME AuditInv, TrackerOK, Collect
    PROVE  /\ UNCHANGED <<wire, out, feed>>
           /\ sum' # None => SumGood(sum', outcomes')
  <1>1. CASE Summarize
    <2>1. PICK s : s = [since |-> Freshness, channels |-> Subscribed, pending |-> <<>>, best |-> {},
                        disturbed |-> FALSE]
      OBVIOUS
    <2>2. /\ DOMAIN s = {"since", "channels", "pending", "best", "disturbed"}
          /\ s.pending = <<>> /\ s.best = {}
      BY <2>1
    <2>3. <<>> \in Seq(Sigs) /\ IsFiniteSet({})
      BY FS_EmptySet
    <2>4. \A obs : SumGood(s, obs)
      BY <2>2, <2>3 DEF SumGood
    <2> QED BY <1>1, <2>1, <2>4 DEF Summarize
  <1>2. CASE ReadChannel
    <2>1. SumGood(sum, outcomes)
      BY <1>2 DEF ReadChannel, AuditInv
    <2>2. PICK r \in Recent(Head(sum.channels), sum.since) :
              \E c : sum' = [sum EXCEPT !.pending = r, !.channels = c]
      BY <1>2 DEF ReadChannel
    <2>3. r \in Seq(Sigs)
      BY RecentIs DEF AuditInv
    <2>4. /\ DOMAIN sum' = DOMAIN sum /\ sum'.pending = r
          /\ sum'.best = sum.best /\ sum'.disturbed = sum.disturbed
      BY <2>1, <2>2 DEF SumGood
    <2>5. SumGood(sum', outcomes)
      BY <2>1, <2>3, <2>4 DEF SumGood
    <2> QED BY <1>2, <2>5 DEF ReadChannel
  <1>3. CASE Digest
    <2>1. SumGood(sum, outcomes) /\ sum.pending # <<>> /\ sum.pending \in Seq(Sigs)
      BY <1>3 DEF Digest, AuditInv, SumGood
    <2>2. PICK s \in Sigs, rest \in Seq(Sigs) : s = Head(sum.pending) /\ rest = Tail(sum.pending)
      BY <2>1, HeadTailProperties
    <2>3. s.source \in Sources
      BY AgedSignalIs
    <2>4. PICK w : w = WeightOf(outcomes[s.source])
      OBVIOUS
    <2>5. Weight(s.source) = w
      BY <2>4 DEF Weight, WeightOf
    <2>6. PICK d : d = DigestOf(s, w)
      OBVIOUS
    <2>7. d.source = s.source /\ d.accuracy = w
      BY <2>6 DEF DigestOf
    <2>8. PICK more : more = Better(sum.best, d)
      OBVIOUS
    <2>9. more \subseteq sum.best \cup {d} /\ IsFiniteSet(more)
      BY <2>1, <2>8, BetterIs DEF SumGood
    <2>10. sum' = [sum EXCEPT !.pending = rest, !.best = more] /\ Score(s.source)
      BY <1>3, <2>2, <2>5, <2>6, <2>8 DEF Digest
    <2>11. /\ DOMAIN sum' = DOMAIN sum /\ sum'.pending = rest
           /\ sum'.best = more /\ sum'.disturbed = sum.disturbed
      BY <2>1, <2>10 DEF SumGood
    <2>12. ASSUME NEW x \in Sources PROVE WeightOf(outcomes'[x]) = WeightOf(outcomes[x])
      <3>1. outcomes \in [Sources -> Seq(Outcomes)]
        BY DEF TrackerOK
      <3>2. outcomes'[x] = outcomes[x] \/ outcomes'[x] = EvictExpired(outcomes[x])
        BY <2>10, <3>1 DEF Score
      <3> QED BY <3>1, <3>2, WeightStays
    <2>13. \A c \in more : c.source \in Sources
      BY <2>1, <2>3, <2>7, <2>9 DEF SumGood
    <2>14. ASSUME ~sum.disturbed, NEW c \in more
           PROVE  c.accuracy = WeightOf(outcomes'[c.source])
      <3>1. c \in sum.best \/ c = d
        BY <2>9
      <3>2. c.accuracy = WeightOf(outcomes[c.source])
        BY <2>1, <2>4, <2>7, <2>14, <3>1 DEF SumGood
      <3> QED BY <2>12, <2>13, <3>2
    <2>15. SumGood(sum', outcomes')
      BY <2>1, <2>9, <2>11, <2>13, <2>14 DEF SumGood
    <2> QED BY <1>3, <2>15 DEF Digest
  <1> QED BY <1>1, <1>2, <1>3 DEF Collect

\* A day leaves the signals on the bus and in the feed signals.
LEMMA DigestDayKeeps ==
    ASSUME AuditInv, DigestClock
    PROVE  /\ wire' \in Seq(OnWire) /\ out' \in Seq(OnOut) /\ feed' \in Seq(Fed)
           /\ sum' # None => SumGood(sum', outcomes')
           /\ sum = None => sum' = None
  <1>1. wire \in Seq(OnWire) /\ out \in Seq(OnOut) /\ feed \in Seq(Fed)
    BY DEF AuditInv
  <1>2. /\ wire' = [i \in DOMAIN wire |-> [wire[i] EXCEPT !.payload = AgedSignal(@)]]
        /\ out' = [i \in DOMAIN out |-> [out[i] EXCEPT !.payload = AgedSignal(@)]]
        /\ feed' = [i \in DOMAIN feed |-> [feed[i] EXCEPT !.sig = AgedSignal(@)]]
    BY DEF DigestClock, AgedSignal
  <1>3. AgedSignal(Garbage) = Garbage
    BY DEF AgedSignal
  <1>4. \A x \in Sigs : AgedSignal(x) \in Sigs
    BY AgedSignalIs
  <1>5. \A m \in OnWire : [m EXCEPT !.payload = AgedSignal(@)] \in OnWire
    BY <1>3, <1>4 DEF OnWire
  <1>6. \A m \in OnOut : [m EXCEPT !.payload = AgedSignal(@)] \in OnOut
    BY <1>4 DEF OnOut
  <1>7. \A m \in Fed : [m EXCEPT !.sig = AgedSignal(@)] \in Fed
    BY <1>4 DEF Fed
  <1>8. wire' \in Seq(OnWire)
    <2>1. PICK n \in Nat : DOMAIN wire = 1 .. n /\ \A i \in 1 .. n : wire[i] \in OnWire
      BY <1>1, LenProperties, ElementOfSeq
    <2>2. wire' \in [1 .. n -> OnWire]
      BY <1>2, <1>5, <2>1
    <2> QED BY <2>2
  <1>9. out' \in Seq(OnOut)
    <2>1. PICK n \in Nat : DOMAIN out = 1 .. n /\ \A i \in 1 .. n : out[i] \in OnOut
      BY <1>1, LenProperties, ElementOfSeq
    <2>2. out' \in [1 .. n -> OnOut]
      BY <1>2, <1>6, <2>1
    <2> QED BY <2>2
  <1>10. feed' \in Seq(Fed)
    <2>1. PICK n \in Nat : DOMAIN feed = 1 .. n /\ \A i \in 1 .. n : feed[i] \in Fed
      BY <1>1, LenProperties, ElementOfSeq
    <2>2. feed' \in [1 .. n -> Fed]
      BY <1>2, <1>7, <2>1
    <2> QED BY <2>2
  <1>11. ASSUME sum # None PROVE SumGood(sum', outcomes')
    <2>1. SumGood(sum, outcomes)
      BY <1>11 DEF AuditInv
    <2>2. PICK n : sum' = [sum EXCEPT !.disturbed = TRUE, !.since = n]
      BY <1>11 DEF DigestClock
    <2>3. /\ DOMAIN sum' = DOMAIN sum /\ sum'.pending = sum.pending
          /\ sum'.best = sum.best /\ sum'.disturbed
      BY <2>1, <2>2 DEF SumGood
    <2> QED BY <2>1, <2>3 DEF SumGood
  <1>12. sum = None => sum' = None
    BY DEF DigestClock
  <1> QED BY <1>8, <1>9, <1>10, <1>11, <1>12

\* An outcome marks a Summarize call in progress.
LEMMA OutcomeKeeps ==
    ASSUME AuditInv, AnyOutcome
    PROVE  /\ UNCHANGED <<wire, out, feed>>
           /\ sum' # None => SumGood(sum', outcomes')
  <1>1. UNCHANGED <<wire, out, feed>> /\ Disturb
    BY DEF AnyOutcome, IngestOutcome
  <1>2. ASSUME sum # None PROVE SumGood(sum', outcomes')
    <2>1. SumGood(sum, outcomes)
      BY <1>2 DEF AuditInv
    <2>2. sum' = [sum EXCEPT !.disturbed = TRUE]
      BY <1>1, <1>2 DEF Disturb
    <2>3. /\ DOMAIN sum' = DOMAIN sum /\ sum'.pending = sum.pending
          /\ sum'.best = sum.best /\ sum'.disturbed
      BY <2>1, <2>2 DEF SumGood
    <2> QED BY <2>1, <2>3 DEF SumGood
  <1>3. sum = None => sum' = None
    BY <1>1 DEF Disturb
  <1> QED BY <1>1, <1>2, <1>3

\* The bus and the aggregator are in order in every reachable state.
LEMMA AuditSafe == Spec => []AuditInv
  <1>1. Init => AuditInv
    <2> SUFFICES ASSUME Init PROVE AuditInv
      OBVIOUS
    <2>1. wire = <<>> /\ out = <<>> /\ feed = <<>> /\ sum = None /\ snap = None
      BY DEF Init, AggInit
    <2>2. <<>> \in Seq(OnWire) /\ <<>> \in Seq(OnOut) /\ <<>> \in Seq(Fed)
      OBVIOUS
    <2> QED BY <2>1, <2>2 DEF AuditInv
  <1>2. AuditInv /\ TrackerOK /\ [Next]_vars => AuditInv'
    <2> SUFFICES ASSUME AuditInv, TrackerOK, [Next]_vars PROVE AuditInv'
      OBVIOUS
    <2>1. CASE UNCHANGED <<part, outcomes, aggVars>>
      BY <2>1 DEF aggVars, AuditInv
    <2>2. CASE NightlyDecay \/ Day \/ Learn
      BY <2>1, <2>2 DEF NightlyDecay, Day, Learn, GraphStep, trackerVars
    <2>3. CASE TrackerStep
      <3>1. part = "tracker" /\ UNCHANGED <<part, wire, out, feed, sum, snap>>
        BY <2>3 DEF TrackerStep, aggVars
      <3>2. sum = None
        BY <3>1 DEF AuditInv
      <3> QED BY <3>1, <3>2 DEF AuditInv
    <2>4. CASE DigestStep
      <3>1. part = "digest" /\ part' = part /\ AggNext
        BY <2>4 DEF DigestStep
      <3>2. ASSUME Finish PROVE AuditInv'
        <4>1. sum # None /\ SumGood(sum, outcomes)
          BY <3>2 DEF Finish, AuditInv
        <4>2. AuditOK(snap')
          BY <3>2, <4>1, FinishIs
        <4>3. sum' = None /\ UNCHANGED <<wire, out, feed>>
          BY <3>2 DEF Finish
        <4> QED BY <3>1, <4>2, <4>3 DEF AuditInv
      <3>3. ASSUME OnBus, snap' = None PROVE AuditInv'
        BY <3>1, <3>3, BusKeeps DEF AuditInv
      <3>4. ASSUME Collect, snap' = None PROVE AuditInv'
        BY <3>1, <3>4, CollectKeeps DEF AuditInv
      <3>5. ASSUME AnyOutcome, snap' = None PROVE AuditInv'
        BY <3>1, <3>5, OutcomeKeeps DEF AuditInv
      <3>6. ASSUME DigestClock, snap' = None PROVE AuditInv'
        BY <3>1, <3>6, DigestDayKeeps DEF AuditInv
      <3> QED BY <3>1, <3>2, <3>3, <3>4, <3>5, <3>6 DEF AggNext
    <2>5. CASE UNCHANGED vars
      BY <2>1, <2>5 DEF vars, trackerVars
    <2> QED BY <2>2, <2>3, <2>4, <2>5 DEF Next
  <1> QED BY <1>1, <1>2, TrackerSafe, PTL DEF Spec

\* The audit of every snapshot lists exactly the sources of its digests, each
\* with a weight applied to one of them, and with the one weight applied to all
\* of them when no outcome arrived and no day passed between the digests, for
\* all signals, graphs, caps and budgets and every interleaving of the bus, the
\* tracker and the call (AuditExact; aggregator.go:186-239, 278-319).
THEOREM Audits == Spec => []AuditExact
  <1>1. AuditInv => AuditExact
    BY DEF AuditInv, AuditOK, AuditExact
  <1> QED BY <1>1, AuditSafe, PTL

=============================================================================
