------------------------ MODULE StrategistLoopProofs ------------------------
(***************************************************************************)
(* Proofs about the slow loops, for any nodes, any number of slots, any     *)
(* intervals and any answers of the LLM: the types, the slots of the        *)
(* scheduler and the decision rows.                                         *)
(***************************************************************************)
EXTENDS StrategistLoop, SequenceTheorems, FiniteSetTheorems, TLAPS

\* The waiting list holds the nodes that wait, each once.
WaitingExact ==
    /\ \A i \in DOMAIN waiters : stage[waiters[i]] = "waiting"
    /\ \A i, j \in DOMAIN waiters : waiters[i] = waiters[j] => i = j
    /\ \A n \in Nodes : stage[n] = "waiting" => \E i \in DOMAIN waiters : waiters[i] = n

\* The scheduler never hands out more slots than it has, and none is free
\* while a node waits for one (scheduler.go:64-80).
SlotsExact ==
    /\ Cardinality(Holders) <= MaxLLM
    /\ waiters # <<>> => Cardinality(Holders) = MaxLLM

\* A cycle that has not ended has no row; the changes of the response that is
\* about to be persisted have landed as the task takes them.
CyclesOK ==
    /\ DOMAIN row = Nodes /\ DOMAIN answer = Nodes
    /\ \A n \in Nodes :
         /\ stage[n] # "idle" => row[n] = None
         /\ stage[n] = "persisting" => landed[n] \in Landings(answer[n])

LoopInv == TypeOK /\ WaitingExact /\ SlotsExact /\ CyclesOK /\ RowsTellWhatLanded

-----------------------------------------------------------------------------
\* What a row says of a response is what became of its changes.
LEMMA DecisionTells ==
    ASSUME NEW r, NEW keys \in Landings(r)
    PROVE  /\ keys \subseteq Known
           /\ Decision(r).changes # {} => keys = Decision(r).changes \cap Known
           /\ "parse_error" \in Decision(r).notes => keys = {}
  <1>1. CASE ~Parses(r)
    BY <1>1 DEF Landings, Decision
  <1>2. CASE Parses(r) /\ Rejected(r)
    BY <1>2 DEF Landings, Decision
  <1>3. CASE Parses(r) /\ ~Rejected(r)
    BY <1>3 DEF Landings, Decision, Rejected
  <1> QED BY <1>1, <1>2, <1>3

\* The holders are finitely many.
LEMMA HoldersFinite == IsFiniteSet(Holders) /\ Cardinality(Holders) \in Nat
  BY NodesAssumption, FS_Subset, FS_CardinalityType DEF Holders

\* What giving a slot back does: it becomes free when nobody waits, and is
\* handed to the first of the list otherwise.
LEMMA EndEffect ==
    ASSUME LoopInv, NEW n \in Holders, EndCycle(n)
    PROVE  \/ /\ waiters = <<>> /\ waiters' = <<>>
              /\ stage' = [stage EXCEPT ![n] = "idle"]
           \/ /\ waiters # <<>> /\ waiters' = Tail(waiters)
              /\ Head(waiters) \in Nodes /\ Head(waiters) # n
              /\ stage[Head(waiters)] = "waiting"
              /\ stage' = [m \in Nodes |-> CASE m = n -> "idle"
                                             [] m = Head(waiters) -> "building"
                                             [] OTHER -> stage[m]]
  <1>1. CASE waiters = <<>>
    BY <1>1 DEF EndCycle, AfterRelease
  <1>2. CASE waiters # <<>>
    <2>1. waiters \in Seq(Nodes) /\ stage \in [Nodes -> Stages] /\ n \in Nodes
      BY DEF LoopInv, TypeOK, Holders
    <2>2. Head(waiters) = waiters[1] /\ 1 \in DOMAIN waiters
      BY <1>2, <2>1
    <2>3. Head(waiters) \in Nodes /\ stage[Head(waiters)] = "waiting"
      BY <2>1, <2>2 DEF LoopInv, WaitingExact
    <2>4. Head(waiters) # n
      BY <2>3 DEF Holders
    <2>5. /\ stage' = [[stage EXCEPT ![n] = "idle"] EXCEPT ![Head(waiters)] = "building"]
          /\ waiters' = Tail(waiters)
      BY <1>2 DEF EndCycle, AfterRelease
    <2> QED BY <1>2, <2>1, <2>3, <2>4, <2>5
  <1> QED BY <1>1, <1>2

\* The types, the list and the slots after a cycle has ended.
LEMMA EndKeeps ==
    ASSUME LoopInv, NEW n \in Holders, EndCycle(n)
    PROVE  /\ stage' \in [Nodes -> Stages] /\ waiters' \in Seq(Nodes)
           /\ WaitingExact' /\ SlotsExact'
           /\ \A m \in Nodes : stage'[m] # "idle" => stage[m] # "idle"
           /\ \A m \in Nodes : stage'[m] = "persisting" => stage[m] = "persisting"
  <1>1. waiters \in Seq(Nodes) /\ stage \in [Nodes -> Stages] /\ n \in Nodes
    BY DEF LoopInv, TypeOK, Holders
  <1>2. Cardinality(Holders \ {n}) = Cardinality(Holders) - 1 /\ IsFiniteSet(Holders \ {n})
    BY HoldersFinite, FS_RemoveElement
  <1>3. CASE /\ waiters = <<>> /\ waiters' = <<>>
             /\ stage' = [stage EXCEPT ![n] = "idle"]
    <2>1. Holders' = Holders \ {n}
      BY <1>1, <1>3 DEF Holders, Stages
    <2>2. SlotsExact'
      BY <1>2, <1>3, <2>1, HoldersFinite, MaxLLMAssumption DEF SlotsExact, LoopInv
    <2>3. WaitingExact'
      BY <1>1, <1>3 DEF LoopInv, WaitingExact
    <2> QED BY <1>1, <1>3, <2>2, <2>3 DEF Stages
  <1>4. CASE /\ waiters # <<>> /\ waiters' = Tail(waiters)
             /\ Head(waiters) \in Nodes /\ Head(waiters) # n
             /\ stage[Head(waiters)] = "waiting"
             /\ stage' = [m \in Nodes |-> CASE m = n -> "idle"
                                            [] m = Head(waiters) -> "building"
                                            [] OTHER -> stage[m]]
    <2>1. PICK h \in Nodes : h = Head(waiters) /\ h = waiters[1]
      BY <1>1, <1>4
    <2>2. /\ waiters' \in Seq(Nodes) /\ Len(waiters') = Len(waiters) - 1
          /\ Len(waiters) \in Nat \ {0}
          /\ \A i \in 1 .. Len(waiters') : waiters'[i] = waiters[i + 1]
      BY <1>1, <1>4, HeadTailProperties, EmptySeq
    <2>3. /\ \A m \in Nodes : stage'[m] = IF m = n THEN "idle"
                                         ELSE IF m = h THEN "building" ELSE stage[m]
          /\ stage[h] = "waiting" /\ h # n /\ stage[n] # "waiting"
      BY <1>4, <2>1 DEF Holders
    <2>4. Holders' = (Holders \ {n}) \cup {h}
      BY <2>3 DEF Holders
    <2>5. h \notin Holders \ {n}
      BY <2>3 DEF Holders
    <2>6. Cardinality(Holders') = Cardinality(Holders)
      <3>1. Cardinality((Holders \ {n}) \cup {h}) = Cardinality(Holders \ {n}) + 1
        BY <1>2, <2>5, FS_AddElement
      <3> QED BY <1>2, <2>4, <3>1, HoldersFinite
    <2>7. Cardinality(Holders) = MaxLLM
      BY <1>4 DEF LoopInv, SlotsExact
    <2>8. SlotsExact'
      BY <2>6, <2>7, MaxLLMAssumption DEF SlotsExact
    <2>9. WaitingExact'
      <3>1. DOMAIN waiters = 1 .. Len(waiters) /\ DOMAIN waiters' = 1 .. Len(waiters')
        BY <1>1, <2>2, LenProperties
      <3>2. \A i \in DOMAIN waiters' : /\ waiters'[i] = waiters[i + 1]
                                       /\ i + 1 \in DOMAIN waiters /\ i + 1 # 1
        BY <2>2, <3>1
      <3>3. 1 \in DOMAIN waiters
        BY <2>2, <3>1
      <3>4. \A i \in DOMAIN waiters' : /\ waiters'[i] \in Nodes /\ waiters'[i] # h
                                       /\ stage[waiters'[i]] = "waiting"
        BY <1>1, <2>1, <3>2, <3>3 DEF LoopInv, WaitingExact
      <3>5. \A i \in DOMAIN waiters' : stage'[waiters'[i]] = "waiting"
        BY <2>3, <3>4
      <3>6. \A i, j \in DOMAIN waiters' : waiters'[i] = waiters'[j] => i = j
        <4> SUFFICES ASSUME NEW i \in DOMAIN waiters', NEW j \in DOMAIN waiters',
                            waiters'[i] = waiters'[j]
                     PROVE  i = j
          OBVIOUS
        <4>1. i + 1 = j + 1
          BY <3>2 DEF LoopInv, WaitingExact
        <4> QED BY <2>2, <3>1, <4>1
      <3>7. \A m \in Nodes : stage'[m] = "waiting" => \E i \in DOMAIN waiters' : waiters'[i] = m
        <4> SUFFICES ASSUME NEW m \in Nodes, stage'[m] = "waiting"
                     PROVE  \E i \in DOMAIN waiters' : waiters'[i] = m
          OBVIOUS
        <4>1. stage[m] = "waiting" /\ m # h
          BY <2>3
        <4>2. PICK k \in DOMAIN waiters : waiters[k] = m
          BY <4>1 DEF LoopInv, WaitingExact
        <4>3. k \in 2 .. Len(waiters)
          BY <2>1, <2>2, <3>1, <4>1, <4>2
        <4>4. k - 1 \in DOMAIN waiters' /\ waiters'[k - 1] = waiters[k - 1 + 1]
          BY <2>2, <3>1, <4>3
        <4> QED BY <4>2, <4>3, <4>4
      <3> QED BY <3>5, <3>6, <3>7 DEF WaitingExact
    <2> QED BY <1>1, <1>4, <2>2, <2>3, <2>8, <2>9 DEF Stages
  <1> QED BY <1>3, <1>4, EndEffect

-----------------------------------------------------------------------------
\* The initial state satisfies the inductive invariant.
LEMMA InitInv == Init => LoopInv
  <1> SUFFICES ASSUME Init PROVE LoopInv
    OBVIOUS
  <1>1. TypeOK
    <2>1. now \in 0 .. Interval - 1 /\ waiters \in Seq(Nodes) /\ stage \in [Nodes -> Stages]
      BY IntervalAssumption, EmptySeq DEF Init, Stages
    <2>2. /\ start \in [Nodes -> 0 .. Interval - 1] /\ landed \in [Nodes -> SUBSET Known]
          /\ live \in [Nodes -> BOOLEAN] /\ paused \in [Nodes -> BOOLEAN]
          /\ pending \in [Nodes -> BOOLEAN] /\ halted \in BOOLEAN
      BY DEF Init
    <2> QED BY <2>1, <2>2 DEF TypeOK
  <1>2. WaitingExact
    BY DEF Init, WaitingExact
  <1>3. SlotsExact
    <2>1. Holders = {}
      BY DEF Init, Holders
    <2> QED BY <2>1, FS_EmptySet, MaxLLMAssumption DEF Init, SlotsExact
  <1>4. CyclesOK /\ RowsTellWhatLanded
    BY DEF Init, CyclesOK, RowsTellWhatLanded
  <1> QED BY <1>1, <1>2, <1>3, <1>4 DEF LoopInv

\* The types of the clock, the tickers and the flags.
FlagsOK ==
    /\ now \in 0 .. Interval - 1
    /\ start \in [Nodes -> 0 .. Interval - 1]
    /\ live \in [Nodes -> BOOLEAN] /\ paused \in [Nodes -> BOOLEAN] /\ halted \in BOOLEAN
    /\ pending \in [Nodes -> BOOLEAN]

\* A step outside the cycles leaves the rest of the invariant as it is.
LEMMA FlagStep ==
    ASSUME LoopInv, FlagsOK', UNCHANGED <<stage, waiters, answer, landed, row>>
    PROVE  LoopInv'
  <1>1. TypeOK'
    BY DEF LoopInv, TypeOK, FlagsOK
  <1>2. WaitingExact'
    BY DEF LoopInv, WaitingExact
  <1>3. SlotsExact'
    BY DEF LoopInv, SlotsExact, Holders
  <1>4. CyclesOK' /\ RowsTellWhatLanded'
    BY DEF LoopInv, CyclesOK, RowsTellWhatLanded
  <1> QED BY <1>1, <1>2, <1>3, <1>4 DEF LoopInv

\* A tick is dropped, or begins a cycle: with a slot if one is free and nobody
\* waits, at the end of the list otherwise.
LEMMA TakeTickStep ==
    ASSUME LoopInv, NEW n \in Nodes, TakeTick(n)
    PROVE  LoopInv'
  <1>1. /\ UNCHANGED <<now, start, live, paused, halted, answer>>
        /\ pending' = [pending EXCEPT ![n] = FALSE] /\ stage[n] = "idle"
    BY DEF TakeTick
  <1>2. waiters \in Seq(Nodes) /\ stage \in [Nodes -> Stages] /\ landed \in [Nodes -> SUBSET Known]
    BY DEF LoopInv, TypeOK
  <1>3. pending' \in [Nodes -> BOOLEAN]
    BY <1>1 DEF LoopInv, TypeOK
  <1>4. CASE UNCHANGED <<stage, waiters, landed, row>>
    <2>1. FlagsOK'
      BY <1>1, <1>3 DEF LoopInv, TypeOK, FlagsOK
    <2> QED BY <1>1, <1>4, <2>1, FlagStep
  <1>5. CASE /\ landed' = [landed EXCEPT ![n] = {}]
             /\ row' = [row EXCEPT ![n] = None]
             /\ IF Cardinality(Holders) < MaxLLM /\ waiters = <<>>
                THEN stage' = [stage EXCEPT ![n] = "building"] /\ UNCHANGED waiters
                ELSE /\ stage' = [stage EXCEPT ![n] = "waiting"]
                     /\ waiters' = Append(waiters, n)
    <2>1. \E s \in {"building", "waiting"} : stage' = [stage EXCEPT ![n] = s]
      BY <1>5
    <2>2. CyclesOK' /\ RowsTellWhatLanded'
      <3>1. /\ DOMAIN row' = Nodes /\ DOMAIN answer' = Nodes
            /\ \A m \in Nodes : row'[m] = IF m = n THEN None ELSE row[m]
            /\ \A m \in Nodes \ {n} : landed'[m] = landed[m] /\ stage'[m] = stage[m]
            /\ stage'[n] \in {"building", "waiting"}
        BY <1>1, <1>2, <1>5, <2>1 DEF LoopInv, CyclesOK
      <3> QED BY <1>1, <3>1 DEF LoopInv, CyclesOK, RowsTellWhatLanded
    <2>3. landed' \in [Nodes -> SUBSET Known] /\ stage' \in [Nodes -> Stages]
      BY <1>2, <1>5, <2>1 DEF Stages
    <2>4. CASE /\ Cardinality(Holders) < MaxLLM /\ waiters = <<>>
               /\ stage' = [stage EXCEPT ![n] = "building"] /\ UNCHANGED waiters
      <3>1. Holders' = Holders \cup {n} /\ n \notin Holders
        BY <1>1, <1>2, <2>4 DEF Holders
      <3>2. Cardinality(Holders') = Cardinality(Holders) + 1
        BY <3>1, HoldersFinite, FS_AddElement
      <3>3. SlotsExact'
        BY <2>4, <3>2, HoldersFinite, MaxLLMAssumption DEF SlotsExact
      <3>4. WaitingExact'
        BY <1>1, <1>2, <2>4 DEF LoopInv, WaitingExact
      <3>5. TypeOK'
        BY <1>1, <1>2, <1>3, <2>3, <2>4 DEF LoopInv, TypeOK
      <3> QED BY <2>2, <3>3, <3>4, <3>5 DEF LoopInv
    <2>5. CASE /\ ~(Cardinality(Holders) < MaxLLM /\ waiters = <<>>)
               /\ stage' = [stage EXCEPT ![n] = "waiting"] /\ waiters' = Append(waiters, n)
      <3>1. Holders' = Holders
        BY <1>1, <1>2, <2>5 DEF Holders
      <3>2. Cardinality(Holders) = MaxLLM
        BY <2>5, HoldersFinite, MaxLLMAssumption DEF LoopInv, SlotsExact
      <3>3. SlotsExact'
        BY <3>1, <3>2, MaxLLMAssumption DEF SlotsExact
      <3>4. /\ waiters' \in Seq(Nodes) /\ Len(waiters') = Len(waiters) + 1
            /\ DOMAIN waiters = 1 .. Len(waiters) /\ DOMAIN waiters' = 1 .. Len(waiters')
            /\ Len(waiters) \in Nat
        BY <1>2, <2>5, AppendProperties, LenProperties
      <3>5. /\ \A i \in DOMAIN waiters : waiters'[i] = waiters[i]
            /\ waiters'[Len(waiters) + 1] = n
        BY <1>2, <2>5, <3>4, AppendProperties
      <3>6. \A i \in DOMAIN waiters : waiters[i] # n
        BY <1>1 DEF LoopInv, WaitingExact
      <3>7. DOMAIN waiters' = DOMAIN waiters \cup {Len(waiters) + 1}
        BY <3>4
      <3>8. WaitingExact'
        <4>1. \A i \in DOMAIN waiters : waiters[i] \in Nodes
          BY <1>2, <3>4
        <4>2. \A m \in Nodes : stage'[m] = IF m = n THEN "waiting" ELSE stage[m]
          BY <1>2, <2>5
        <4>3. \A i \in DOMAIN waiters' : stage'[waiters'[i]] = "waiting"
          BY <3>5, <3>7, <4>1, <4>2 DEF LoopInv, WaitingExact
        <4>4. \A i, j \in DOMAIN waiters' : waiters'[i] = waiters'[j] => i = j
          BY <3>5, <3>6, <3>7 DEF LoopInv, WaitingExact
        <4>5. \A m \in Nodes : stage'[m] = "waiting" => \E i \in DOMAIN waiters' : waiters'[i] = m
          BY <3>5, <3>7, <4>2 DEF LoopInv, WaitingExact
        <4> QED BY <4>3, <4>4, <4>5 DEF WaitingExact
      <3>9. TypeOK'
        BY <1>1, <1>2, <1>3, <2>3, <3>4 DEF LoopInv, TypeOK
      <3> QED BY <2>2, <3>3, <3>8, <3>9 DEF LoopInv
    <2> QED BY <1>5, <2>4, <2>5
  <1> QED BY <1>4, <1>5 DEF TakeTick

\* A cancelled node leaves the list wherever it stands in it.
LEMMA GiveUpStep ==
    ASSUME LoopInv, NEW n \in Nodes, GiveUpWaiting(n)
    PROVE  LoopInv'
  <1>1. /\ UNCHANGED <<now, start, live, paused, halted, pending, answer, landed, row>>
        /\ stage[n] = "waiting" /\ stage' = [stage EXCEPT ![n] = "idle"]
    BY DEF GiveUpWaiting
  <1>2. waiters \in Seq(Nodes) /\ stage \in [Nodes -> Stages]
    BY DEF LoopInv, TypeOK
  <1>3. PICK k \in DOMAIN waiters : waiters[k] = n /\ waiters' = RemoveAt(waiters, k)
    BY DEF GiveUpWaiting
  <1>4. PICK len \in Nat : len = Len(waiters) /\ DOMAIN waiters = 1 .. len /\ k \in 1 .. len
    BY <1>2, <1>3, LenProperties
  <1>5. /\ waiters' \in Seq(Nodes) /\ Len(waiters') = len - 1
        /\ \A i \in 1 .. len - 1 : waiters'[i] = IF i < k THEN waiters[i] ELSE waiters[i + 1]
    <2>1. /\ SubSeq(waiters, 1, k - 1) \in Seq(Nodes)
          /\ Len(SubSeq(waiters, 1, k - 1)) = k - 1
          /\ \A i \in 1 .. k - 1 : SubSeq(waiters, 1, k - 1)[i] = waiters[i]
      BY <1>2, <1>4
    <2>2. /\ SubSeq(waiters, k + 1, len) \in Seq(Nodes)
          /\ Len(SubSeq(waiters, k + 1, len)) = len - k
          /\ \A i \in 1 .. len - k : SubSeq(waiters, k + 1, len)[i] = waiters[k + i]
      BY <1>2, <1>4
    <2>3. PICK a \in Seq(Nodes), b \in Seq(Nodes) :
                a = SubSeq(waiters, 1, k - 1) /\ b = SubSeq(waiters, k + 1, len)
      BY <2>1, <2>2
    <2>4. waiters' = a \o b
      BY <1>3, <1>4, <2>3 DEF RemoveAt
    <2>5. /\ Len(a) = k - 1 /\ \A i \in 1 .. k - 1 : a[i] = waiters[i]
          /\ Len(b) = len - k /\ \A i \in 1 .. len - k : b[i] = waiters[k + i]
      BY <2>1, <2>2, <2>3
    <2>6. /\ a \o b \in Seq(Nodes) /\ Len(a \o b) = len - 1
          /\ \A i \in 1 .. len - 1 : (a \o b)[i] = IF i <= k - 1 THEN a[i] ELSE b[i - (k - 1)]
      <3>1. Len(a) + Len(b) = len - 1
        BY <1>4, <2>5
      <3>2. /\ a \o b \in Seq(Nodes) /\ Len(a \o b) = Len(a) + Len(b)
            /\ \A i \in 1 .. Len(a) + Len(b) : (a \o b)[i] = IF i <= Len(a) THEN a[i] ELSE b[i - Len(a)]
        BY ConcatProperties
      <3> QED BY <2>5, <3>1, <3>2
    <2>7. ASSUME NEW i \in 1 .. len - 1
          PROVE  waiters'[i] = IF i < k THEN waiters[i] ELSE waiters[i + 1]
      <3>1. CASE i < k
        BY <1>4, <2>4, <2>5, <2>6, <3>1
      <3>2. CASE ~(i < k)
        <4>1. i - (k - 1) \in 1 .. len - k /\ k + (i - (k - 1)) = i + 1 /\ ~(i <= k - 1)
          BY <1>4, <3>2
        <4> QED BY <2>4, <2>5, <2>6, <3>2, <4>1
      <3> QED BY <3>1, <3>2
    <2> QED BY <2>4, <2>6, <2>7
  <1>6. DOMAIN waiters' = 1 .. len - 1
    BY <1>5, LenProperties
  <1>7. \A m \in Nodes : stage'[m] = IF m = n THEN "idle" ELSE stage[m]
    BY <1>1, <1>2
  <1>8. WaitingExact'
    <2> DEFINE from(i) == IF i < k THEN i ELSE i + 1
    <2>1. \A i \in DOMAIN waiters' :
            /\ from(i) \in DOMAIN waiters /\ from(i) # k
            /\ waiters'[i] = waiters[from(i)]
      BY <1>4, <1>5, <1>6
    <2>2. \A i, j \in DOMAIN waiters' : from(i) = from(j) => i = j
      BY <1>4, <1>6
    <2> HIDE DEF from
    <2>3. \A i \in DOMAIN waiters' : waiters'[i] \in Nodes \ {n} /\ stage[waiters'[i]] = "waiting"
      BY <1>2, <1>3, <1>4, <2>1 DEF LoopInv, WaitingExact
    <2>4. \A i \in DOMAIN waiters' : stage'[waiters'[i]] = "waiting"
      BY <1>7, <2>3
    <2>5. \A i, j \in DOMAIN waiters' : waiters'[i] = waiters'[j] => i = j
      BY <2>1, <2>2 DEF LoopInv, WaitingExact
    <2>6. \A m \in Nodes : stage'[m] = "waiting" => \E i \in DOMAIN waiters' : waiters'[i] = m
      <3> SUFFICES ASSUME NEW m \in Nodes, stage'[m] = "waiting"
                   PROVE  \E i \in DOMAIN waiters' : waiters'[i] = m
        OBVIOUS
      <3>1. stage[m] = "waiting" /\ m # n
        BY <1>7
      <3>2. PICK j \in DOMAIN waiters : waiters[j] = m
        BY <3>1 DEF LoopInv, WaitingExact
      <3>3. j # k /\ j \in 1 .. len
        BY <1>3, <1>4, <3>1, <3>2
      <3>4. CASE j < k
        BY <1>4, <1>5, <1>6, <3>2, <3>3, <3>4
      <3>5. CASE j > k
        <4>1. j - 1 \in 1 .. len - 1 /\ ~(j - 1 < k) /\ j - 1 + 1 = j
          BY <1>4, <3>3, <3>5
        <4> QED BY <1>5, <1>6, <3>2, <4>1
      <3> QED BY <1>4, <3>3, <3>4, <3>5
    <2> QED BY <2>4, <2>5, <2>6 DEF WaitingExact
  <1>9. SlotsExact'
    <2>1. Holders' = Holders
      BY <1>1, <1>7 DEF Holders
    <2>2. waiters # <<>>
      BY <1>3
    <2> QED BY <2>1, <2>2, MaxLLMAssumption DEF LoopInv, SlotsExact
  <1>10. TypeOK'
    BY <1>1, <1>2, <1>5 DEF LoopInv, TypeOK, Stages
  <1>11. CyclesOK' /\ RowsTellWhatLanded'
    BY <1>1, <1>7 DEF LoopInv, CyclesOK, RowsTellWhatLanded
  <1> QED BY <1>8, <1>9, <1>10, <1>11 DEF LoopInv

\* A cycle that ends without a decision.
LEMMA EndStep ==
    ASSUME LoopInv, NEW n \in Holders, EndCycle(n),
           UNCHANGED <<now, start, live, paused, halted, pending, answer, landed, row>>
    PROVE  LoopInv'
  <1>1. TypeOK'
    BY EndKeeps DEF LoopInv, TypeOK
  <1>2. CyclesOK' /\ RowsTellWhatLanded'
    BY EndKeeps DEF LoopInv, CyclesOK, RowsTellWhatLanded
  <1> QED BY EndKeeps, <1>1, <1>2 DEF LoopInv

\* The LLM has answered: the changes land as the task takes them.
LEMMA AnswerStep ==
    ASSUME LoopInv, NEW n \in Nodes, CallReturns(n)
    PROVE  LoopInv'
  <1>1. /\ UNCHANGED <<now, start, live, paused, halted, pending, waiters, row>>
        /\ stage[n] = "calling" /\ stage' = [stage EXCEPT ![n] = "persisting"]
    BY DEF CallReturns
  <1>2. PICK r, keys : /\ answer' = [answer EXCEPT ![n] = r] /\ keys \in Landings(r)
                       /\ landed' = [landed EXCEPT ![n] = keys]
    BY DEF CallReturns
  <1>3. /\ waiters \in Seq(Nodes) /\ stage \in [Nodes -> Stages]
        /\ landed \in [Nodes -> SUBSET Known]
    BY DEF LoopInv, TypeOK
  <1>4. \A m \in Nodes : stage'[m] = IF m = n THEN "persisting" ELSE stage[m]
    BY <1>1, <1>3
  <1>5. TypeOK'
    <2>1. keys \subseteq Known
      BY <1>2, DecisionTells
    <2> QED BY <1>1, <1>2, <1>3, <2>1 DEF LoopInv, TypeOK, Stages
  <1>6. WaitingExact'
    <2>1. \A i \in DOMAIN waiters : waiters[i] \in Nodes
      BY <1>3
    <2> QED BY <1>1, <1>4, <2>1 DEF LoopInv, WaitingExact
  <1>7. SlotsExact'
    <2>1. Holders' = Holders
      BY <1>1, <1>4 DEF Holders
    <2> QED BY <1>1, <2>1 DEF LoopInv, SlotsExact
  <1>8. CyclesOK' /\ RowsTellWhatLanded'
    <2>1. /\ DOMAIN answer' = Nodes
          /\ \A m \in Nodes : /\ answer'[m] = IF m = n THEN r ELSE answer[m]
                              /\ landed'[m] = IF m = n THEN keys ELSE landed[m]
      BY <1>2, <1>3 DEF LoopInv, CyclesOK
    <2>2. row[n] = None
      BY <1>1 DEF LoopInv, CyclesOK
    <2>3. CyclesOK'
      BY <1>1, <1>2, <1>4, <2>1, <2>2 DEF LoopInv, CyclesOK
    <2>4. RowsTellWhatLanded'
      BY <1>1, <2>1, <2>2 DEF LoopInv, RowsTellWhatLanded
    <2> QED BY <2>3, <2>4
  <1> QED BY <1>5, <1>6, <1>7, <1>8 DEF LoopInv

\* The row is written, or not, and the cycle ends.
LEMMA PersistStep ==
    ASSUME LoopInv, NEW n \in Nodes, Persist(n)
    PROVE  LoopInv'
  <1>1. /\ UNCHANGED <<now, start, live, paused, halted, pending, landed>>
        /\ stage[n] = "persisting" /\ EndCycle(n) /\ answer' = [answer EXCEPT ![n] = None]
    BY DEF Persist
  <1>2. n \in Holders
    BY <1>1 DEF Holders
  <1>3. row' = [row EXCEPT ![n] = Decision(answer[n])] \/ row' = row
    BY DEF Persist
  <1>4. TypeOK'
    BY <1>1, <1>2, EndKeeps DEF LoopInv, TypeOK
  <1>5. landed[n] \in Landings(answer[n])
    BY <1>1 DEF LoopInv, CyclesOK
  <1>6. stage'[n] = "idle"
    <2>1. stage \in [Nodes -> Stages]
      BY DEF LoopInv, TypeOK
    <2> QED BY <1>1, <1>2, <2>1, EndEffect
  <1>7. /\ DOMAIN row' = Nodes /\ DOMAIN answer' = Nodes
        /\ \A m \in Nodes \ {n} : row'[m] = row[m] /\ answer'[m] = answer[m]
        /\ row'[n] = Decision(answer[n]) \/ row'[n] = row[n]
    BY <1>1, <1>3 DEF LoopInv, CyclesOK
  <1>8. CyclesOK'
    BY <1>1, <1>2, <1>6, <1>7, EndKeeps DEF LoopInv, CyclesOK
  <1>9. RowsTellWhatLanded'
    <2>1. /\ Decision(answer[n]).changes # {} =>
                landed[n] = Decision(answer[n]).changes \cap Known
          /\ "parse_error" \in Decision(answer[n]).notes => landed[n] = {}
      BY <1>5, DecisionTells
    <2> QED BY <1>1, <1>7, <2>1 DEF LoopInv, RowsTellWhatLanded
  <1> QED BY <1>1, <1>2, <1>4, <1>8, <1>9, EndKeeps DEF LoopInv

\* The invariant is inductive.
LEMMA Inductive == LoopInv /\ [Next]_vars => LoopInv'
  <1> SUFFICES ASSUME LoopInv, [Next]_vars PROVE LoopInv'
    OBVIOUS
  <1>1. ASSUME NEW n \in Nodes, BuildInput(n) PROVE LoopInv'
    <2>1. /\ UNCHANGED <<now, start, live, paused, halted, pending, answer, landed, row>>
          /\ stage[n] = "building" /\ n \in Holders
      BY <1>1 DEF BuildInput, Holders
    <2>2. CASE EndCycle(n)
      BY <2>1, <2>2, EndStep
    <2>3. CASE stage' = [stage EXCEPT ![n] = "calling"] /\ UNCHANGED waiters
      <3>1. waiters \in Seq(Nodes) /\ stage \in [Nodes -> Stages]
        BY DEF LoopInv, TypeOK
      <3>2. \A m \in Nodes : stage'[m] = IF m = n THEN "calling" ELSE stage[m]
        BY <2>3, <3>1
      <3>3. TypeOK'
        BY <2>1, <2>3, <3>1 DEF LoopInv, TypeOK, Stages
      <3>4. WaitingExact'
        <4>1. \A i \in DOMAIN waiters : waiters[i] \in Nodes
          BY <3>1
        <4> QED BY <2>1, <2>3, <3>2, <4>1 DEF LoopInv, WaitingExact
      <3>5. SlotsExact'
        <4>1. Holders' = Holders
          BY <2>1, <3>2 DEF Holders
        <4> QED BY <2>3, <4>1 DEF LoopInv, SlotsExact
      <3>6. CyclesOK' /\ RowsTellWhatLanded'
        BY <2>1, <3>2 DEF LoopInv, CyclesOK, RowsTellWhatLanded
      <3> QED BY <3>3, <3>4, <3>5, <3>6 DEF LoopInv
    <2> QED BY <1>1, <2>2, <2>3 DEF BuildInput
  <1>2. ASSUME NEW n \in Nodes, CallFails(n) PROVE LoopInv'
    BY <1>2, EndStep DEF CallFails, Holders
  <1>3. CASE Clock \/ SetHalted \/ UNCHANGED vars
    <2>1. FlagsOK' /\ UNCHANGED <<stage, waiters, answer, landed, row>>
      <3>1. CASE Clock
        <4>1. now' \in 0 .. Interval - 1
          BY <3>1, IntervalAssumption DEF Clock, LoopInv, TypeOK
        <4>2. pending' \in [Nodes -> BOOLEAN]
          BY <3>1 DEF Clock
        <4> QED BY <3>1, <4>1, <4>2 DEF Clock, LoopInv, TypeOK, FlagsOK
      <3>2. CASE SetHalted
        BY <3>2 DEF SetHalted, LoopInv, TypeOK, FlagsOK
      <3>3. CASE UNCHANGED vars
        BY <3>3 DEF vars, LoopInv, TypeOK, FlagsOK
      <3> QED BY <1>3, <3>1, <3>2, <3>3
    <2> QED BY <2>1, FlagStep
  <1>4. ASSUME NEW n \in Nodes, Cancel(n) \/ Restart(n) \/ \E p \in BOOLEAN : SetPaused(n, p)
        PROVE  LoopInv'
    <2>1. FlagsOK' /\ UNCHANGED <<stage, waiters, answer, landed, row>>
      BY <1>4 DEF Cancel, Restart, SetPaused, LoopInv, TypeOK, FlagsOK
    <2> QED BY <2>1, FlagStep
  <1> QED BY <1>1, <1>2, <1>3, <1>4, TakeTickStep, GiveUpStep, AnswerStep, PersistStep
          DEF Next, Work

\* The inductive invariant holds in every state.
THEOREM Invariance == Spec => []LoopInv
  BY InitInv, Inductive, PTL DEF Spec

-----------------------------------------------------------------------------
\* Every variable keeps its type, the waiting list of the semaphore included.
THEOREM TypeCorrect == Spec => []TypeOK
  BY Invariance, PTL DEF LoopInv

\* The scheduler never hands out more slots than it has and never keeps one
\* back while a node waits, although a slot is given back on every path out
\* of a cycle and waiting nodes may be stopped at any time.
THEOREM Slots == Spec => []SlotsExact
  BY Invariance, PTL DEF LoopInv

\* The list of the semaphore and the loops agree on who waits: nobody waits
\* outside the list, and nobody is in it twice or after having been served.
THEOREM WaitingList == Spec => []WaitingExact
  BY Invariance, PTL DEF LoopInv

\* A decision row tells what the task took of the response, also when other
\* cycles, pauses, stops and restarts come in between.
THEOREM Rows == Spec => []RowsTellWhatLanded
  BY Invariance, PTL DEF LoopInv

=============================================================================
