--------------------------- MODULE ServicesProofs ---------------------------
(***************************************************************************)
(* Proofs about the background services.                                    *)
(***************************************************************************)
EXTENDS Services, TLAPS

-----------------------------------------------------------------------------
(***************************************************************************)
(* The throttle.                                                            *)
(***************************************************************************)

ThrottleOK ==
    /\ level \in 0 .. Full
    /\ idle \in 0 .. Hour
    /\ admitted \in [0 .. Hour - 1 -> Nat]

\* What was admitted in the last a units and what the bucket holds now came
\* out of a full bucket and the refill of a units.
BucketInv ==
    \A a \in 0 .. Hour - 1 : admitted[a] * Hour + Refilled <= Full + a * HourlyCap

ThrottleInv == ThrottleOK /\ BucketInv

\* The bucket's size is a number of parts.
LEMMA FullNat == Full \in Nat
  BY ThrottleAssumption DEF Full

\* refillLocked never overfills the bucket and never takes from it.
LEMMA RefilledRange == ThrottleOK => Refilled \in 0 .. Full /\ Refilled >= level
  <1> SUFFICES ASSUME ThrottleOK PROVE Refilled \in 0 .. Full /\ Refilled >= level
    OBVIOUS
  <1>1. idle * HourlyCap \in Nat
    BY ThrottleAssumption DEF ThrottleOK
  <1> QED BY <1>1, FullNat DEF ThrottleOK, Refilled

\* A full bucket, or one just made, satisfies the invariant.
LEMMA FreshBucket ==
    level = Full /\ idle = 0 /\ admitted = [a \in 0 .. Hour - 1 |-> 0] => ThrottleInv
  <1> SUFFICES ASSUME level = Full, idle = 0, admitted = [a \in 0 .. Hour - 1 |-> 0]
               PROVE  ThrottleInv
    OBVIOUS
  <1>1. ThrottleOK
    BY FullNat, ThrottleAssumption DEF ThrottleOK
  <1>2. ASSUME NEW a \in 0 .. Hour - 1
        PROVE  admitted[a] * Hour + Refilled <= Full + a * HourlyCap
    <2>1. a * HourlyCap \in Nat
      BY ThrottleAssumption
    <2>2. admitted[a] * Hour = 0
      BY ThrottleAssumption
    <2>3. Refilled \in 0 .. Full
      BY <1>1, RefilledRange
    <2> QED BY <2>1, <2>2, <2>3, FullNat
  <1> QED BY <1>1, <1>2 DEF ThrottleInv, BucketInv

\* A message that is admitted costs a token.
LEMMA AdmitKeeps == ASSUME ThrottleInv, NEW e, Admit(e) PROVE ThrottleInv'
  <1>1. Refilled \in 0 .. Full /\ Refilled >= Hour
    BY RefilledRange DEF ThrottleInv, Admit, CanSend
  <1>2. Refilled' = Refilled - Hour
    <2>1. level' = Refilled - Hour /\ idle' = 0
      BY DEF Admit
    <2>2. idle' * HourlyCap = 0
      BY <2>1, ThrottleAssumption
    <2> QED BY <1>1, <2>1, <2>2, FullNat, ThrottleAssumption DEF Refilled, Full
  <1>3. ThrottleOK'
    BY <1>1, FullNat, ThrottleAssumption DEF ThrottleInv, ThrottleOK, Admit, Full
  <1>4. ASSUME NEW a \in 0 .. Hour - 1
        PROVE  admitted'[a] * Hour + Refilled' <= Full + a * HourlyCap
    <2>1. admitted[a] \in Nat /\ admitted'[a] = admitted[a] + 1
      BY DEF ThrottleInv, ThrottleOK, Admit
    <2>2. admitted'[a] * Hour = admitted[a] * Hour + Hour
      BY <2>1, ThrottleAssumption
    <2>3. admitted[a] * Hour \in Nat /\ a * HourlyCap \in Nat
      BY <2>1, ThrottleAssumption
    <2>4. admitted[a] * Hour + Refilled <= Full + a * HourlyCap
      BY DEF ThrottleInv, BucketInv
    <2> QED BY <1>1, <1>2, <2>2, <2>3, <2>4, FullNat, ThrottleAssumption
  <1> QED BY <1>3, <1>4 DEF ThrottleInv, BucketInv, Full

\* A message that is refused costs nothing, but the bucket is refilled.
LEMMA RefuseKeeps == ASSUME ThrottleInv, NEW e, Refuse(e) PROVE ThrottleInv'
  <1>1. Refilled \in 0 .. Full
    BY RefilledRange DEF ThrottleInv
  <1>2. Refilled' = Refilled
    <2>1. level' = Refilled /\ idle' = 0
      BY DEF Refuse
    <2>2. idle' * HourlyCap = 0
      BY <2>1, ThrottleAssumption
    <2> QED BY <1>1, <2>1, <2>2, FullNat, ThrottleAssumption DEF Refilled, Full
  <1>3. ThrottleOK'
    BY <1>1, FullNat, ThrottleAssumption DEF ThrottleInv, ThrottleOK, Refuse, Full
  <1>4. admitted' = admitted
    BY DEF Refuse
  <1> QED BY <1>2, <1>3, <1>4 DEF ThrottleInv, BucketInv, Full

\* In a unit of time at most HourlyCap parts flow in.
LEMMA ThrottleClockKeeps == ASSUME ThrottleInv, ThrottleClock PROVE ThrottleInv'
  <1>1. ThrottleOK'
    BY FullNat, ThrottleAssumption DEF ThrottleInv, ThrottleOK, ThrottleClock, Full
  <1>2. Refilled \in 0 .. Full
    BY RefilledRange DEF ThrottleInv
  <1>3. Refilled' \in 0 .. Full /\ Refilled' <= Refilled + HourlyCap
    <2>1. idle \in Nat /\ (idle' = idle \/ idle' = idle + 1) /\ level' = level /\ level \in 0 .. Full
      BY ThrottleAssumption DEF ThrottleInv, ThrottleOK, ThrottleClock
    <2>2. idle * HourlyCap \in Nat
      BY <2>1, ThrottleAssumption
    <2>3. idle' * HourlyCap = idle * HourlyCap \/ idle' * HourlyCap = idle * HourlyCap + HourlyCap
      BY <2>1, ThrottleAssumption
    <2> DEFINE x == idle * HourlyCap
               y == idle' * HourlyCap
    <2>4. Refilled = (IF level + x > Full THEN Full ELSE level + x)
          /\ Refilled' = (IF level + y > Full THEN Full ELSE level + y)
      BY <2>1 DEF Refilled, Full
    <2> HIDE DEF x, y
    <2>5. x \in Nat /\ (y = x \/ y = x + HourlyCap)
      BY <2>2, <2>3 DEF x, y
    <2> QED BY <2>1, <2>4, <2>5, FullNat, ThrottleAssumption
  <1>4. ASSUME NEW a \in 0 .. Hour - 1
        PROVE  admitted'[a] * Hour + Refilled' <= Full + a * HourlyCap
    <2>1. CASE a = 0
      <3>1. admitted'[a] * Hour = 0 /\ a * HourlyCap = 0
        BY <2>1, ThrottleAssumption DEF ThrottleClock
      <3> QED BY <3>1, <1>3, FullNat
    <2>2. CASE a # 0
      <3>1. a - 1 \in 0 .. Hour - 1 /\ admitted'[a] = admitted[a - 1] /\ admitted[a - 1] \in Nat
        BY <2>2, ThrottleAssumption DEF ThrottleInv, ThrottleOK, ThrottleClock
      <3>2. admitted[a - 1] * Hour + Refilled <= Full + (a - 1) * HourlyCap
        BY <3>1 DEF ThrottleInv, BucketInv
      <3>3. admitted'[a] * Hour = admitted[a - 1] * Hour /\ admitted[a - 1] * Hour \in Nat
        BY <3>1, ThrottleAssumption
      <3>4. a * HourlyCap = (a - 1) * HourlyCap + HourlyCap /\ (a - 1) * HourlyCap \in Nat
        BY <3>1, ThrottleAssumption
      <3> QED BY <1>2, <1>3, <3>2, <3>3, <3>4, FullNat, ThrottleAssumption
    <2> QED BY <2>1, <2>2
  <1> QED BY <1>1, <1>4 DEF ThrottleInv, BucketInv, Full

\* A step that leaves the throttle alone keeps its invariant.
LEMMA ThrottleStays == ASSUME ThrottleInv, UNCHANGED throttleVars PROVE ThrottleInv'
  BY DEF throttleVars, ThrottleInv, ThrottleOK, BucketInv, Refilled, Full

\* Every step of every service keeps the throttle's invariant.
LEMMA ThrottleStep == ThrottleInv /\ [Next]_vars => ThrottleInv'
  <1> SUFFICES ASSUME ThrottleInv, [Next]_vars PROVE ThrottleInv'
    OBVIOUS
  <1>1. ASSUME NEW m \in Messages, Arrive(m) PROVE ThrottleInv'
    BY <1>1, ThrottleStays DEF Arrive
  <1>2. CASE HandleEvent
    <2> DEFINE e == EventType(Head(inbox))
    <2>1. CASE Refuse(e)
      BY <2>1, RefuseKeeps
    <2>2. CASE Admit(e)
      BY <2>2, AdmitKeeps
    <2> QED BY <1>2, <2>1, <2>2 DEF HandleEvent
  <1>3. CASE LookForDigest
    <2>1. CASE Refuse("daily_digest")
      BY <2>1, RefuseKeeps
    <2>2. CASE Admit("daily_digest")
      BY <2>2, AdmitKeeps
    <2> QED BY <1>3, <2>1, <2>2, ThrottleStays DEF LookForDigest
  <1>4. CASE SendOK
    BY <1>4, ThrottleStays DEF SendOK
  <1>5. CASE SendFails
    BY <1>5, ThrottleStays DEF SendFails
  <1>6. CASE Restart
    <2>1. level' = Full /\ idle' = 0 /\ admitted' = [a \in 0 .. Hour - 1 |-> 0]
      BY <1>6 DEF Restart
    <2>2. ThrottleOK'
      BY <2>1, FullNat, ThrottleAssumption DEF ThrottleOK, Full
    <2>3. Refilled' = Full
      <3>1. idle' * HourlyCap = 0
        BY <2>1, ThrottleAssumption
      <3> QED BY <2>1, <3>1, FullNat DEF Refilled, Full
    <2>4. ASSUME NEW a \in 0 .. Hour - 1
          PROVE  admitted'[a] * Hour + Refilled' <= Full + a * HourlyCap
      <3>1. admitted'[a] * Hour = 0 /\ a * HourlyCap \in Nat
        BY <2>1, ThrottleAssumption
      <3> QED BY <3>1, <2>3, FullNat
    <2> QED BY <2>2, <2>4 DEF ThrottleInv, BucketInv, Full
  <1>7. CASE NotifierClock
    BY <1>7, ThrottleClockKeeps DEF NotifierClock
  <1>8. CASE UNCHANGED throttleVars
    BY <1>8, ThrottleStays
  <1>9. CASE NotifierStep
    <2>1. CASE SubscriptionEnds
      BY <1>8, <2>1 DEF SubscriptionEnds
    <2> QED BY <1>9, <2>1, <1>1, <1>2, <1>3, <1>4, <1>5, <1>6, <1>7 DEF NotifierStep, NotifierNext
  <1> QED BY <1>8, <1>9 DEF Next, OfHub, PriceStep, vars

\* The bucket and the cap: 2 * HourlyCap messages do not fit in an hour.
LEMMA BoundFromBucket == ThrottleInv => HourlyBound
  <1> SUFFICES ASSUME ThrottleInv PROVE HourlyBound
    OBVIOUS
  <1> DEFINE n == admitted[Hour - 1]
  <1>1. Hour - 1 \in 0 .. Hour - 1 /\ n \in Nat
    BY ThrottleAssumption DEF ThrottleInv, ThrottleOK
  <1>2. n * Hour + Refilled <= Full + (Hour - 1) * HourlyCap
    BY <1>1 DEF ThrottleInv, BucketInv
  <1>3. (Hour - 1) * HourlyCap = Full - HourlyCap
    BY ThrottleAssumption DEF Full
  <1>4. n * Hour \in Nat /\ n * Hour < 2 * Full
    BY <1>1, <1>2, <1>3, RefilledRange, FullNat, ThrottleAssumption DEF ThrottleInv
  <1>5. ASSUME n >= 2 * HourlyCap PROVE FALSE
    <2> HIDE DEF n
    <2>1. PICK k \in Nat : n = 2 * HourlyCap + k
      <3>1. n - 2 * HourlyCap \in Nat /\ n = 2 * HourlyCap + (n - 2 * HourlyCap)
        BY <1>1, <1>5, ThrottleAssumption
      <3> QED BY <3>1
    <2>2. n * Hour = 2 * Full + k * Hour /\ k * Hour \in Nat
      BY <2>1, ThrottleAssumption DEF Full
    <2> QED BY <1>4, <2>2, FullNat
  <1> QED BY <1>1, <1>5, ThrottleAssumption DEF HourlyBound

\* Whatever the mix of events, digests, failed sends and restarts, a process
\* never sends twice the hourly cap within an hour (throttle.go:79-122).
THEOREM HourlyBoundHolds == Spec => []HourlyBound
  <1>1. Init => ThrottleInv
    BY FreshBucket DEF Init, NotifierInit, ThrottleInit
  <1> QED BY <1>1, ThrottleStep, BoundFromBucket, PTL DEF Spec

-----------------------------------------------------------------------------
(***************************************************************************)
(* The price cache.                                                         *)
(***************************************************************************)

CacheOK ==
    /\ DOMAIN entries \subseteq Pairs /\ DOMAIN flights \subseteq Pairs
    /\ \A p \in DOMAIN entries : entries[p].quote \in 0 .. MaxAge /\ entries[p].stored \in 0 .. MaxAge
    /\ \A p \in DOMAIN flights : flights[p] \in [quote : 0 .. Timeout, fetching : BOOLEAN]
    /\ forgotten \in [Pairs -> 0 .. MaxAge]

\* A quote was at most one call old when it was stored, and it is younger than
\* the last Invalidate that found no flight.
CacheAges ==
    /\ \A p \in DOMAIN entries : entries[p].quote <= entries[p].stored + Timeout
    /\ \A p \in DOMAIN entries : entries[p].quote <= forgotten[p]
    /\ \A p \in DOMAIN flights : flights[p].quote <= forgotten[p]

\* What the last step returned.
ReturnedOK == \A r \in returned :
    r.pair \in Pairs /\ r.quote < TTL + Timeout /\ r.quote <= forgotten[r.pair]

PriceInv == CacheOK /\ CacheAges /\ ReturnedOK

\* A fresh entry may be returned.
LEMMA FreshReturn ==
    ASSUME PriceInv, NEW p \in Pairs, Fresh(p), UNCHANGED forgotten,
           returned' = {[pair |-> p, quote |-> entries[p].quote]}
    PROVE  ReturnedOK'
  <1>1. p \in DOMAIN entries /\ entries[p].stored < TTL
    BY DEF Fresh
  <1>2. entries[p].quote < TTL + Timeout /\ entries[p].quote <= forgotten[p]
    BY <1>1, TTLAssumption DEF PriceInv, CacheOK, CacheAges, MaxAge
  <1> QED BY <1>2 DEF ReturnedOK

\* Get keeps the invariant, whoever calls it.
LEMMA GetKeeps ==
    ASSUME PriceInv, NEW c, NEW p \in Pairs, Get(c, p), UNCHANGED <<entries, forgotten>>
    PROVE  PriceInv'
  <1>1. CASE Fresh(p) /\ returned' = {[pair |-> p, quote |-> entries[p].quote]} /\ UNCHANGED flights
    <2>1. ReturnedOK'
      BY <1>1, FreshReturn
    <2> QED BY <1>1, <2>1 DEF PriceInv, CacheOK, CacheAges, MaxAge
  <1>2. CASE returned' = {} /\ (\/ UNCHANGED flights
                               \/ flights' = Put(flights, p, [quote |-> 0, fetching |-> FALSE]))
    <2>1. ReturnedOK'
      BY <1>2 DEF ReturnedOK
    <2>2. CASE UNCHANGED flights
      BY <2>1, <2>2 DEF PriceInv, CacheOK, CacheAges, MaxAge
    <2>3. CASE flights' = Put(flights, p, [quote |-> 0, fetching |-> FALSE])
      <3>1. DOMAIN flights' = DOMAIN flights \cup {p}
            /\ flights'[p] = [quote |-> 0, fetching |-> FALSE]
            /\ \A q \in DOMAIN flights \ {p} : flights'[q] = flights[q]
        BY <2>3 DEF Put
      <3>2. CacheOK'
        <4>1. [quote |-> 0, fetching |-> FALSE] \in [quote : 0 .. Timeout, fetching : BOOLEAN]
          BY TTLAssumption
        <4>2. \A q \in DOMAIN flights' : flights'[q] \in [quote : 0 .. Timeout, fetching : BOOLEAN]
          BY <3>1, <4>1 DEF PriceInv, CacheOK
        <4> QED BY <3>1, <4>2 DEF PriceInv, CacheOK, MaxAge
      <3>3. CacheAges'
        BY <3>1, TTLAssumption DEF PriceInv, CacheOK, CacheAges, MaxAge
      <3> QED BY <2>1, <3>2, <3>3 DEF PriceInv
    <2> QED BY <1>2, <2>2, <2>3
  <1> QED BY <1>1, <1>2 DEF Get

\* Invalidate keeps the invariant, whoever calls it.
LEMMA InvalidateKeeps ==
    ASSUME PriceInv, NEW p \in Pairs, Invalidate(p), returned' = {}, UNCHANGED flights
    PROVE  PriceInv'
  <1>1. ReturnedOK'
    BY DEF ReturnedOK
  <1>2. CacheOK'
    BY TTLAssumption DEF PriceInv, CacheOK, MaxAge, Invalidate, Forget, Drop
  <1>3. CacheAges'
    BY TTLAssumption DEF PriceInv, CacheOK, CacheAges, MaxAge, Invalidate, Forget, Drop
  <1> QED BY <1>1, <1>2, <1>3 DEF PriceInv

\* Time makes entry, flight and history older alike.
LEMMA PriceClockKeeps == ASSUME PriceInv, PriceClock PROVE PriceInv'
  <1> DEFINE older(a) == IF a < MaxAge THEN a + 1 ELSE a
  <1>1. MaxAge \in Nat /\ MaxAge = TTL + Timeout + 1
    BY TTLAssumption DEF MaxAge
  <1>2. \A a \in 0 .. MaxAge : older(a) \in 0 .. MaxAge
    BY <1>1
  <1>3. \A a, b \in 0 .. MaxAge : a <= b => older(a) <= older(b)
    BY <1>1
  <1>4. \A a, b \in 0 .. MaxAge : a <= b + Timeout => older(a) <= older(b) + Timeout
    BY <1>1, TTLAssumption
  <1>5. DOMAIN entries' = DOMAIN entries
        /\ \A p \in DOMAIN entries : /\ entries'[p].quote = older(entries[p].quote)
                                     /\ entries'[p].stored = older(entries[p].stored)
    BY DEF PriceClock
  <1>6. DOMAIN flights' = DOMAIN flights
        /\ \A p \in DOMAIN flights : flights[p].quote < Timeout
    BY DEF PriceClock
  <1>7. ASSUME NEW p \in DOMAIN flights PROVE flights'[p] \in [quote : {older(flights[p].quote)}, fetching : BOOLEAN]
    <2>1. flights'[p] = [flights[p] EXCEPT !.quote = older(@)]
      BY DEF PriceClock
    <2>2. flights[p] \in [quote : 0 .. Timeout, fetching : BOOLEAN]
      BY DEF PriceInv, CacheOK
    <2> HIDE DEF older
    <2> QED BY <2>1, <2>2
  <1>8. forgotten' = [p \in Pairs |-> older(forgotten[p])]
    BY DEF PriceClock
  <1>9. ReturnedOK'
    BY DEF PriceClock, ReturnedOK
  <1> HIDE DEF older
  <1>10. CacheOK'
    <2>1. \A p \in DOMAIN flights : flights'[p] \in [quote : 0 .. Timeout, fetching : BOOLEAN]
      BY <1>1, <1>6, <1>7, TTLAssumption DEF PriceInv, CacheOK, older
    <2> QED BY <2>1, <1>2, <1>5, <1>6, <1>8 DEF PriceInv, CacheOK, MaxAge
  <1>11. CacheAges'
    <2>1. \A p \in DOMAIN entries : entries[p].quote <= entries[p].stored + Timeout
      BY DEF PriceInv, CacheAges
    <2>2. \A p \in DOMAIN entries' : entries'[p].quote <= entries'[p].stored + Timeout
      BY <2>1, <1>4, <1>5 DEF PriceInv, CacheOK
    <2>3. \A p \in DOMAIN entries' : entries'[p].quote <= forgotten'[p]
      BY <1>3, <1>5, <1>8 DEF PriceInv, CacheOK, CacheAges
    <2>4. \A p \in DOMAIN flights' : flights'[p].quote <= forgotten'[p]
      <3>1. \A p \in DOMAIN flights : flights[p].quote \in 0 .. MaxAge
        BY <1>1, TTLAssumption DEF PriceInv, CacheOK
      <3> QED BY <3>1, <1>3, <1>6, <1>7, <1>8 DEF PriceInv, CacheOK, CacheAges
    <2> QED BY <2>2, <2>3, <2>4 DEF CacheAges
  <1> QED BY <1>9, <1>10, <1>11 DEF PriceInv

\* Every step of every service keeps the invariant of the cache.
LEMMA PriceStepKeeps == PriceInv /\ [Next]_vars => PriceInv'
  <1> SUFFICES ASSUME PriceInv, [Next]_vars PROVE PriceInv'
    OBVIOUS
  <1>1. CASE UNCHANGED priceVars
    BY <1>1 DEF priceVars, PriceInv, CacheOK, CacheAges, ReturnedOK, MaxAge
  <1>2. ASSUME returned' = {}, UNCHANGED <<entries, flights, forgotten>> PROVE PriceInv'
    BY <1>2 DEF PriceInv, CacheOK, CacheAges, ReturnedOK, MaxAge
  <1>3. ASSUME NEW p \in Pairs, DoubleCheck(p) PROVE PriceInv'
    <2>1. CASE Fresh(p) /\ Land(p, {entries[p].quote})
      <3>1. returned' = {[pair |-> p, quote |-> entries[p].quote]}
        BY <2>1 DEF Land
      <3>2. ReturnedOK'
        BY <1>3, <2>1, <3>1, FreshReturn DEF DoubleCheck
      <3> QED BY <1>3, <2>1, <3>2 DEF DoubleCheck, Land, Drop, PriceInv, CacheOK, CacheAges, MaxAge
    <2>2. CASE returned' = {} /\ flights' = [flights EXCEPT ![p] = [quote |-> 0, fetching |-> TRUE]]
      BY <1>3, <2>2, TTLAssumption DEF DoubleCheck, PriceInv, CacheOK, CacheAges, ReturnedOK, MaxAge
    <2> QED BY <1>3, <2>1, <2>2 DEF DoubleCheck
  <1>4. ASSUME NEW p \in Pairs, FetchOK(p) PROVE PriceInv'
    <2>1. returned' = {[pair |-> p, quote |-> flights[p].quote]}
      BY <1>4 DEF FetchOK, Land
    <2>2. flights[p].quote \in 0 .. Timeout /\ flights[p].quote <= forgotten[p]
      BY <1>4 DEF FetchOK, PriceInv, CacheOK, CacheAges
    <2>3. ReturnedOK'
      BY <1>4, <2>1, <2>2, TTLAssumption DEF FetchOK, ReturnedOK
    <2>4. CacheOK'
      BY <1>4, <2>2, TTLAssumption DEF FetchOK, Land, Put, Drop, PriceInv, CacheOK, MaxAge
    <2>5. CacheAges'
      BY <1>4, <2>2, TTLAssumption DEF FetchOK, Land, Put, Drop, PriceInv, CacheOK, CacheAges, MaxAge
    <2> QED BY <2>3, <2>4, <2>5 DEF PriceInv
  <1>5. ASSUME NEW p \in Pairs, FetchFails(p) PROVE PriceInv'
    <2>1. ReturnedOK'
      BY <1>5 DEF FetchFails, Land, ReturnedOK
    <2> QED BY <1>5, <2>1 DEF FetchFails, Land, Drop, PriceInv, CacheOK, CacheAges, MaxAge
  <1>6. ASSUME NEW p \in Pairs, Suspect(p) \/ RefreshForgets(p) PROVE PriceInv'
    BY <1>6, InvalidateKeeps DEF Suspect, RefreshForgets
  <1>7. ASSUME NEW p \in Pairs, SetPinned(p) PROVE PriceInv'
    BY <1>7, <1>2 DEF SetPinned
  <1>8. ASSUME NEW p \in Pairs, NEW c, Get(c, p), UNCHANGED <<entries, forgotten>> PROVE PriceInv'
    BY <1>8, GetKeeps
  <1>9. ASSUME NEW p \in Pairs, RefreshGets(p) \/ CollectPair(p) \/ \E c \in Readers : ReadPrice(c, p)
        PROVE  PriceInv'
    BY <1>8, <1>9 DEF RefreshGets, CollectPair, ReadPrice
  <1>10. CASE StartRefresh \/ StartCollect \/ Stop \/ LoopExits
    BY <1>10, <1>2 DEF StartRefresh, StartCollect, Stop, LoopExits
  <1>11. CASE PriceClock
    BY <1>11, PriceClockKeeps
  <1>12. CASE PriceStep
    BY <1>12, <1>3, <1>4, <1>5, <1>6, <1>7, <1>9, <1>10, <1>11 DEF PriceStep, PriceNext
  <1> QED BY <1>1, <1>12 DEF Next, OfHub, NotifierStep, vars

\* An empty cache satisfies the invariant.
LEMMA PriceInitOK == Init => PriceInv
  BY TTLAssumption DEF Init, PriceInit, PriceInv, CacheOK, CacheAges, ReturnedOK, MaxAge

\* No caller ever gets a price older than the TTL and the longest quote call
\* together, however reads, flights, refreshes and the collector interleave
\* (prices.go:103-141, 249-258).
THEOREM QuoteAgeBoundedHolds == Spec => []QuoteAgeBounded
  <1>1. PriceInv => QuoteAgeBounded
    BY DEF PriceInv, ReturnedOK, QuoteAgeBounded
  <1> QED BY <1>1, PriceInitOK, PriceStepKeeps, PTL DEF Spec

\* After an Invalidate that found no flight no caller gets a price quoted
\* before it (prices.go:117-136 and 199-206).
THEOREM InvalidateForgetsHolds == Spec => []InvalidateForgets
  <1>1. PriceInv => InvalidateForgets
    BY DEF PriceInv, ReturnedOK, InvalidateForgets
  <1> QED BY <1>1, PriceInitOK, PriceStepKeeps, PTL DEF Spec

-----------------------------------------------------------------------------
(***************************************************************************)
(* The websocket hub.                                                       *)
(***************************************************************************)

\* What a client has been sent or has waiting, and the last message it should.
Seen(c) == got[c] \o send[c]
UpTo(c) == IF c \in todo THEN last - 1 ELSE last

HubOK ==
    /\ registered \subseteq Clients /\ todo \subseteq registered
    /\ send \in [Clients -> Seq(Nat)] /\ got \in [Clients -> Seq(Nat)]
    /\ done \in [Clients -> BOOLEAN]
    /\ handler \in [Clients -> {"off", "open", "leaving"}]
    /\ joined \in [Clients -> Nat] /\ last \in Nat
    /\ IF current = NoMessage THEN todo = {} ELSE current = last

Rising(s) == \A i, j \in DOMAIN s : i < j => s[i] < s[j]

\* The messages of a client rise, come from broadcasts that have reached it,
\* and are all there are as long as it serves.
ClientOK(c) ==
    /\ joined[c] <= UpTo(c)
    /\ Rising(Seen(c))
    /\ \A i \in DOMAIN Seen(c) : Seen(c)[i] <= UpTo(c)
    /\ ~done[c] /\ handler[c] = "open" =>
         Seen(c) = [i \in 1 .. UpTo(c) - joined[c] |-> joined[c] + i]

HubInv == HubOK /\ \A c \in registered : ClientOK(c)

\* What is appended to the channel is appended to what the client will see.
LEMMA AppendSeen ==
    ASSUME NEW s \in Seq(Nat), NEW t \in Seq(Nat), NEW x \in Nat
    PROVE  s \o Append(t, x) = Append(s \o t, x)
  OBVIOUS

\* A write moves a message from the channel to the peer.
LEMMA WriteSeen ==
    ASSUME NEW s \in Seq(Nat), NEW t \in Seq(Nat), t # <<>>
    PROVE  Append(s, Head(t)) \o Tail(t) = s \o t
  OBVIOUS

\* A message that is lost leaves the others in order.
LEMMA LoseSeen ==
    ASSUME NEW s \in Seq(Nat), NEW t \in Seq(Nat), t # <<>>, NEW n \in Nat,
           Rising(s \o t), \A i \in DOMAIN (s \o t) : (s \o t)[i] <= n
    PROVE  Rising(s \o Tail(t)) /\ \A i \in DOMAIN (s \o Tail(t)) : (s \o Tail(t))[i] <= n
  <1> DEFINE u == s \o t
             v == s \o Tail(t)
             f(i) == IF i <= Len(s) THEN i ELSE i + 1
  <1>1. u \in Seq(Nat) /\ v \in Seq(Nat)
    OBVIOUS
  <1>2. \A i \in DOMAIN v : f(i) \in DOMAIN u /\ v[i] = u[f(i)]
    BY SMTT(20)
  <1>3. DOMAIN v \subseteq Nat /\ \A i, j \in DOMAIN v : i < j => f(i) < f(j)
    OBVIOUS
  <1> HIDE DEF u, v, f
  <1>4. Rising(v)
    BY <1>2, <1>3 DEF Rising, u
  <1>5. \A i \in DOMAIN v : v[i] <= n
    BY <1>2 DEF u
  <1> QED BY <1>4, <1>5 DEF v

\* A new message goes to the end.
LEMMA GrowSeen ==
    ASSUME NEW s \in Seq(Nat), NEW n \in Nat, NEW m \in Nat, n < m,
           Rising(s), \A i \in DOMAIN s : s[i] <= n
    PROVE  Rising(Append(s, m)) /\ \A i \in DOMAIN Append(s, m) : Append(s, m)[i] <= m
  BY DEF Rising

\* And continues an unbroken run.
LEMMA GrowExact ==
    ASSUME NEW s \in Seq(Nat), NEW lo \in Nat, NEW n \in Nat, lo <= n - 1,
           s = [i \in 1 .. (n - 1) - lo |-> lo + i]
    PROVE  Append(s, n) = [i \in 1 .. n - lo |-> lo + i]
  <1>1. Len(s) = (n - 1) - lo
    OBVIOUS
  <1>2. DOMAIN Append(s, n) = 1 .. n - lo
    BY <1>1
  <1>3. ASSUME NEW i \in 1 .. n - lo PROVE Append(s, n)[i] = lo + i
    <2>1. CASE i = n - lo
      BY <1>1, <2>1
    <2>2. CASE i \in 1 .. (n - 1) - lo
      BY <1>1, <2>2
    <2> QED BY <2>1, <2>2
  <1> DEFINE t == Append(s, n)
  <1>4. t = [i \in DOMAIN t |-> t[i]]
    <2>1. t \in Seq(Nat)
      OBVIOUS
    <2> HIDE DEF t
    <2> QED BY <2>1
  <1> HIDE DEF t
  <1> QED BY <1>2, <1>3, <1>4 DEF t

\* The hub starts with no client.
LEMMA HubInitOK == Init => HubInv
  BY DEF Init, HubInit, HubInv, HubOK, ClientOK

\* A step that leaves the messages, the broadcast and the map alone, and does
\* not reopen a handler, keeps the invariant.
LEMMA HubQuiet ==
    ASSUME HubInv, HubOK', UNCHANGED <<send, got, joined, last, todo>>,
           registered' \subseteq registered,
           \A c \in registered : done'[c] = done[c] \/ done'[c],
           \A c \in registered : handler'[c] = handler[c] \/ handler'[c] # "open"
    PROVE  HubInv'
  BY ZenonT(30) DEF HubInv, ClientOK, Seen, UpTo, Rising

\* A connection is registered between two broadcasts, with nothing to see.
LEMMA ConnectKeeps == ASSUME HubInv, NEW c \in Clients, Connect(c) PROVE HubInv'
  <1>1. HubOK'
    BY DEF HubInv, HubOK, Connect, Unlocked
  <1>2. ASSUME NEW d \in registered', d # c PROVE ClientOK(d)'
    BY <1>2, ZenonT(30) DEF HubInv, HubOK, ClientOK, Seen, UpTo, Rising, Connect
  <1>3. ClientOK(c)'
    <2>1. Seen(c)' = <<>> /\ UpTo(c)' = last /\ joined'[c] = last /\ last \in Nat
      BY DEF HubInv, HubOK, Seen, UpTo, Connect, Unlocked
    <2>2. <<>> = [i \in 1 .. last - last |-> last + i]
      BY <2>1
    <2> QED BY <2>1, <2>2 DEF ClientOK, Rising
  <1> QED BY <1>1, <1>2, <1>3 DEF HubInv

\* When a broadcast starts nobody has been reached.
LEMMA StartBroadcastKeeps == ASSUME HubInv, StartBroadcast PROVE HubInv'
  <1>1. HubOK'
    BY NoMessageAssumption DEF HubInv, HubOK, StartBroadcast, Unlocked, socketVars
  <1>2. ASSUME NEW c \in registered PROVE ClientOK(c)'
    <2>1. UpTo(c)' = UpTo(c) /\ UpTo(c) = last
      BY DEF HubInv, HubOK, UpTo, StartBroadcast, Unlocked
    <2> QED BY <2>1 DEF HubInv, ClientOK, Seen, Rising, StartBroadcast, socketVars
  <1> QED BY <1>1, <1>2 DEF HubInv, StartBroadcast

\* The broadcast reaches a client: the message is the next one for it, or the
\* client is told to go.
LEMMA BroadcastToKeeps == ASSUME HubInv, NEW c \in Clients, BroadcastTo(c) PROVE HubInv'
  <1>1. c \in registered /\ c \in todo /\ current = last /\ last \in Nat
    BY DEF HubInv, HubOK, BroadcastTo
  <1>2. HubOK'
    <2>1. send' \in [Clients -> Seq(Nat)]
      <3>1. Append(send[c], current) \in Seq(Nat)
        BY <1>1 DEF HubInv, HubOK
      <3> QED BY <3>1 DEF HubInv, HubOK, BroadcastTo, SendOrDrop
    <2>2. done' \in [Clients -> BOOLEAN]
      BY DEF HubInv, HubOK, BroadcastTo, SendOrDrop
    <2> QED BY <1>1, <2>1, <2>2 DEF HubInv, HubOK, BroadcastTo
  <1>3. ASSUME NEW d \in registered, d # c PROVE ClientOK(d)'
    BY <1>3 DEF HubInv, HubOK, ClientOK, Seen, UpTo, Rising, BroadcastTo, SendOrDrop
  <1>4. ClientOK(c)'
    <2>1. UpTo(c) = last - 1 /\ UpTo(c)' = last /\ ClientOK(c) /\ joined'[c] = joined[c]
          /\ joined[c] \in Nat /\ handler'[c] = handler[c]
      BY <1>1 DEF HubInv, HubOK, UpTo, BroadcastTo
    <2>2. joined[c] <= last - 1 /\ last - 1 \in Nat
      BY <1>1, <2>1 DEF ClientOK
    <2>3. CASE send' = [send EXCEPT ![c] = Append(@, current)] /\ UNCHANGED done
      <3>1. Seen(c) \in Seq(Nat)
        BY DEF HubInv, HubOK, Seen
      <3>2. Seen(c)' = Append(Seen(c), last)
        <4>1. send'[c] = Append(send[c], last) /\ got'[c] = got[c]
          BY <1>1, <2>3 DEF HubInv, HubOK, BroadcastTo
        <4> QED BY <1>1, <4>1, AppendSeen, SMTT(20) DEF HubInv, HubOK, Seen
      <3>3. Rising(Seen(c)) /\ \A i \in DOMAIN Seen(c) : Seen(c)[i] <= last - 1
        BY <2>1 DEF ClientOK
      <3>4. Rising(Seen(c)') /\ \A i \in DOMAIN Seen(c)' : Seen(c)'[i] <= last
        BY <1>1, <2>2, <3>1, <3>2, <3>3, GrowSeen
      <3>5. ASSUME ~done'[c], handler'[c] = "open"
            PROVE  Seen(c)' = [i \in 1 .. last - joined[c] |-> joined[c] + i]
        <4>1. Seen(c) = [i \in 1 .. (last - 1) - joined[c] |-> joined[c] + i]
          BY <2>1, <2>3, <3>5 DEF ClientOK
        <4>2. Append(Seen(c), last) = [i \in 1 .. last - joined[c] |-> joined[c] + i]
          BY <1>1, <2>1, <2>2, <3>1, <4>1, GrowExact
        <4> QED BY <3>2, <4>2
      <3> QED BY <1>1, <2>1, <2>2, <3>4, <3>5 DEF ClientOK
    <2>4. CASE done' = [done EXCEPT ![c] = TRUE] /\ UNCHANGED send
      <3>1. done'[c] /\ Seen(c)' = Seen(c)
        BY <2>4 DEF HubInv, HubOK, BroadcastTo, Seen
      <3>2. Seen(c) \in Seq(Nat)
        BY DEF HubInv, HubOK, Seen
      <3>3. \A i \in DOMAIN Seen(c) : Seen(c)[i] <= last
        BY <1>1, <2>1, <3>2 DEF ClientOK
      <3> QED BY <1>1, <2>1, <2>2, <3>1, <3>3 DEF ClientOK
    <2> QED BY <2>3, <2>4 DEF BroadcastTo, SendOrDrop
  <1> QED BY <1>2, <1>3, <1>4 DEF HubInv, BroadcastTo

\* A write moves a message on; a write that fails loses it, and the handler.
LEMMA WriteKeeps == ASSUME HubInv, NEW c \in Clients, Write(c) PROVE HubInv'
  <1>1. send[c] \in Seq(Nat) /\ got[c] \in Seq(Nat) /\ send[c] # <<>>
    BY DEF HubInv, HubOK, Write
  <1>2. HubOK'
    <2>1. Tail(send[c]) \in Seq(Nat) /\ Append(got[c], Head(send[c])) \in Seq(Nat)
      BY <1>1
    <2>2. send' \in [Clients -> Seq(Nat)] /\ got' \in [Clients -> Seq(Nat)]
      BY <2>1 DEF HubInv, HubOK, Write
    <2>3. handler' \in [Clients -> {"off", "open", "leaving"}]
      BY DEF HubInv, HubOK, Write
    <2> QED BY <2>2, <2>3 DEF HubInv, HubOK, Write
  <1>3. ASSUME NEW d \in registered, d # c PROVE ClientOK(d)'
    BY <1>3 DEF HubInv, HubOK, ClientOK, Seen, UpTo, Rising, Write
  <1>4. ASSUME c \in registered PROVE ClientOK(c)'
    <2>1. ClientOK(c) /\ UpTo(c)' = UpTo(c) /\ UpTo(c) \in Nat /\ joined'[c] = joined[c]
          /\ done'[c] = done[c]
      BY <1>4 DEF HubInv, HubOK, ClientOK, UpTo, Write
    <2>2. CASE got' = [got EXCEPT ![c] = Append(@, Head(send[c]))] /\ UNCHANGED handler
      <3>1. got'[c] = Append(got[c], Head(send[c])) /\ send'[c] = Tail(send[c])
        BY <2>2 DEF HubInv, HubOK, Write
      <3>2. Seen(c)' = Seen(c)
        BY <1>1, <3>1, WriteSeen DEF Seen
      <3> QED BY <2>1, <2>2, <3>2 DEF ClientOK, Rising
    <2>3. CASE handler' = [handler EXCEPT ![c] = "leaving"] /\ UNCHANGED got
      <3>1. send'[c] = Tail(send[c]) /\ handler'[c] = "leaving" /\ got'[c] = got[c]
        BY <2>3 DEF HubInv, HubOK, Write
      <3>2. Rising(got[c] \o Tail(send[c]))
            /\ \A i \in DOMAIN (got[c] \o Tail(send[c])) : (got[c] \o Tail(send[c]))[i] <= UpTo(c)
        BY <1>1, <2>1, LoseSeen DEF ClientOK, Seen
      <3> QED BY <2>1, <3>1, <3>2 DEF ClientOK, Rising, Seen
    <2> QED BY <2>2, <2>3 DEF Write
  <1> QED BY <1>2, <1>3, <1>4 DEF HubInv, Write

\* Every step of every service keeps the invariant of the hub.
LEMMA HubStepKeeps == HubInv /\ [Next]_vars => HubInv'
  <1> SUFFICES ASSUME HubInv, [Next]_vars PROVE HubInv'
    OBVIOUS
  <1>1. CASE UNCHANGED hubVars
    <2>1. HubOK'
      BY <1>1 DEF HubInv, HubOK, hubVars
    <2> QED BY <1>1, <2>1, HubQuiet DEF hubVars
  <1>2. ASSUME NEW c \in Clients, Write(c) PROVE HubInv'
    BY <1>2, WriteKeeps
  <1>3. ASSUME NEW c \in Clients, LeaveLoop(c) PROVE HubInv'
    <2>1. HubOK'
      BY <1>3 DEF HubInv, HubOK, LeaveLoop
    <2> QED BY <1>3, <2>1, HubQuiet DEF HubInv, HubOK, LeaveLoop
  <1>4. ASSUME NEW c \in Clients, Leave(c) PROVE HubInv'
    <2>1. HubOK'
      BY <1>4 DEF HubInv, HubOK, Leave, Unlocked, RegisteredAfter
    <2> QED BY <1>4, <2>1, HubQuiet DEF HubInv, HubOK, Leave, RegisteredAfter
  <1>5. ASSUME NEW c \in Clients, ReaderFails(c) PROVE HubInv'
    <2>1. HubOK'
      BY <1>5 DEF HubInv, HubOK, ReaderFails
    <2> QED BY <1>5, <2>1, HubQuiet DEF ReaderFails
  <1>6. ASSUME NEW c \in Clients, ReaderCloses(c) PROVE HubInv'
    <2>1. HubOK'
      BY <1>6 DEF HubInv, HubOK, ReaderCloses
    <2> QED BY <1>6, <2>1, HubQuiet DEF HubInv, HubOK, ReaderCloses
  <1>7. ASSUME NEW c \in Clients, PeerLeaves(c) PROVE HubInv'
    <2>1. HubOK'
      BY <1>7 DEF HubInv, HubOK, PeerLeaves
    <2> QED BY <1>7, <2>1, HubQuiet DEF PeerLeaves
  <1>8. CASE EndBroadcast
    <2>1. HubOK'
      BY <1>8 DEF HubInv, HubOK, EndBroadcast, socketVars
    <2> QED BY <1>8, <2>1, HubQuiet DEF EndBroadcast, socketVars
  <1>9. ASSUME NEW c \in Clients, Serving(c) PROVE HubInv'
    BY <1>9, <1>2, <1>3, <1>4, <1>5, <1>6 DEF Serving, SeeDone, PingFails
  <1>10. CASE HubNext
    BY <1>10, <1>3, <1>7, <1>8, <1>9, BroadcastToKeeps, StartBroadcastKeeps, ConnectKeeps
       DEF HubNext, Broadcasting, DeadlinePasses
  <1> QED BY <1>1, <1>10 DEF Next, OfHub, NotifierStep, PriceStep, vars

\* A dashboard that was not told to go has every message since it connected,
\* once and in order; one that was told to go sees none twice or out of order
\* (websocket.go:104-127 and 158-201).
THEOREM NoGapUnlessDroppedHolds == Spec => []NoGapUnlessDropped
  <1>1. HubInv => NoGapUnlessDropped
    BY DEF HubInv, ClientOK, Rising, Seen, UpTo, NoGapUnlessDropped
  <1> QED BY <1>1, HubInitOK, HubStepKeeps, PTL DEF Spec

-----------------------------------------------------------------------------
(***************************************************************************)
(* The daily digest.                                                        *)
(***************************************************************************)

DigestOK ==
    /\ time \in 0 .. DayLength - 1 /\ day \in Days /\ looked \in BOOLEAN
    /\ job \in Jobs \cup {None} /\ (job # None => job.date <= day)
    /\ lastDigest \in Days \cup {None} /\ (lastDigest # None => lastDigest <= day)
    /\ copies \in [Days -> Nat] /\ lost \in [Days -> Nat] /\ restarts \in [Days -> Nat]
    /\ excused \subseteq Days

Sending(d) == job # None /\ job.kind = "digest" /\ job.date = d

\* A digest on its way, and one that may still be due, has a copy to spare.
DigestCount(d) ==
    /\ copies[d] <= 1 + lost[d] + restarts[d]
    /\ d > day => copies[d] = 0
    /\ Sending(d) \/ (d = day /\ lastDigest # d) => copies[d] <= lost[d] + restarts[d]
    /\ Sending(d) => lastDigest = None \/ lastDigest < d
    /\ d = lastDigest => copies[d] >= 1
    /\ d \notin excused => lost[d] = 0 /\ restarts[d] = 0

\* No date passes by without a digest and without an excuse.
DigestSeen ==
    /\ \A d \in Days : d < day /\ d \notin excused => copies[d] = 1 \/ Sending(d)
    /\ looked /\ time >= DigestHour /\ day \notin excused => lastDigest = day \/ Sending(day)

DigestInv == DigestOK /\ (\A d \in Days : DigestCount(d)) /\ DigestSeen

\* The notifier starts with no digest sent.
LEMMA DigestInitOK == Init => DigestInv
  <1> SUFFICES ASSUME NotifierInit PROVE DigestInv
    BY DEF Init
  <1>1. DigestOK
    BY DayAssumption DEF NotifierInit, DigestOK, Days
  <1>2. \A d \in Days : DigestCount(d)
    BY <1>1, NoneAssumption DEF NotifierInit, DigestOK, DigestCount, Sending, Days
  <1>3. DigestSeen
    BY <1>1 DEF NotifierInit, DigestOK, DigestSeen, Days
  <1> QED BY <1>1, <1>2, <1>3 DEF DigestInv

\* A step that leaves the digest, its job and the clock alone.
LEMMA DigestStays ==
    ASSUME DigestInv,
           UNCHANGED <<time, day, job, looked, lastDigest, copies, lost, restarts, excused>>
    PROVE  DigestInv'
  BY DEF DigestInv, DigestOK, DigestCount, DigestSeen, Sending

\* An event is being sent, or dropped.
LEMMA HandleEventDigest == ASSUME DigestInv, HandleEvent PROVE DigestInv'
  <1>1. job = None /\ (job' = job \/ job' = [kind |-> "event", date |-> day])
        /\ UNCHANGED <<time, day, looked, lastDigest, copies, lost, restarts, excused>>
    BY DEF HandleEvent
  <1>2. DigestOK'
    BY <1>1 DEF DigestInv, DigestOK, Jobs, Days
  <1>3. \A d \in Days : ~Sending(d) /\ ~Sending(d)'
    BY <1>1 DEF Sending
  <1>4. \A d \in Days : DigestCount(d)'
    BY <1>1, <1>3 DEF DigestInv, DigestOK, DigestCount
  <1>5. DigestSeen'
    BY <1>1, <1>3 DEF DigestInv, DigestOK, DigestSeen
  <1> QED BY <1>2, <1>4, <1>5 DEF DigestInv

\* The loop looks for the digest: it was sent already, or it is excused, or it
\* is on its way.
LEMMA LookForDigestDigest == ASSUME DigestInv, LookForDigest PROVE DigestInv'
  <1>1. job = None /\ looked' = TRUE /\ UNCHANGED <<time, day, lastDigest, copies, lost, restarts>>
    BY DEF LookForDigest
  <1>2. \A d \in Days : ~Sending(d)
    BY <1>1 DEF Sending
  <1>3. \/ ~DigestDue /\ UNCHANGED <<job, excused>>
        \/ UNCHANGED job /\ excused' = excused \cup {day}
        \/ DigestDue /\ job' = [kind |-> "digest", date |-> day] /\ UNCHANGED excused
    BY DEF LookForDigest
  <1>4. DigestOK'
    <2>1. job' \in Jobs \cup {None} /\ (job' # None => job'.date <= day)
      BY <1>3 DEF DigestInv, DigestOK, Jobs, Days
    <2>2. excused' \subseteq Days
      BY <1>3 DEF DigestInv, DigestOK
    <2> QED BY <1>1, <2>1, <2>2 DEF DigestInv, DigestOK
  <1>5. CASE ~DigestDue /\ UNCHANGED <<job, excused>>
    <2>1. \A d \in Days : DigestCount(d)'
      BY <1>1, <1>2, <1>5 DEF DigestInv, DigestOK, DigestCount, Sending
    <2>2. DigestSeen'
      BY <1>1, <1>2, <1>5 DEF DigestInv, DigestOK, DigestSeen, Sending, DigestDue
    <2> QED BY <1>4, <2>1, <2>2 DEF DigestInv
  <1>6. CASE UNCHANGED job /\ excused' = excused \cup {day}
    <2>1. \A d \in Days : DigestCount(d)'
      BY <1>1, <1>2, <1>6 DEF DigestInv, DigestOK, DigestCount, Sending
    <2>2. DigestSeen'
      BY <1>1, <1>2, <1>6 DEF DigestInv, DigestOK, DigestSeen, Sending
    <2> QED BY <1>4, <2>1, <2>2 DEF DigestInv
  <1>7. CASE DigestDue /\ job' = [kind |-> "digest", date |-> day] /\ UNCHANGED excused
    <2>1. day \in Days /\ job' \in Jobs
      BY <1>7 DEF DigestInv, DigestOK, Jobs
    <2>2. \A d \in Days : Sending(d)' <=> d = day
      BY <1>7, <2>1, NoneAssumption DEF Sending
    <2>3. lastDigest # day
      BY <1>7 DEF DigestDue
    <2>4. \A d \in Days : DigestCount(d)'
      BY <1>1, <1>2, <1>7, <2>2, <2>3 DEF DigestInv, DigestOK, DigestCount, Days
    <2>5. DigestSeen'
      BY <1>1, <1>2, <1>7, <2>1, <2>2 DEF DigestInv, DigestOK, DigestSeen
    <2> QED BY <1>4, <2>4, <2>5 DEF DigestInv
  <1> QED BY <1>3, <1>5, <1>6, <1>7

\* The answer comes: the digest counts for the date it was due on.
LEMMA SendOKDigest == ASSUME DigestInv, SendOK PROVE DigestInv'
  <1>1. job # None /\ job \in Jobs /\ job' = None /\ UNCHANGED <<time, day, looked, lost, restarts, excused>>
    BY DEF DigestInv, DigestOK, SendOK
  <1>2. \A d \in Days : ~Sending(d)'
    BY <1>1 DEF Sending
  <1>3. CASE job.kind = "event"
    <2>1. UNCHANGED <<lastDigest, copies>> /\ \A d \in Days : ~Sending(d)
      BY <1>3 DEF SendOK, Sending
    <2>2. DigestOK'
      BY <1>1, <2>1 DEF DigestInv, DigestOK
    <2>3. \A d \in Days : DigestCount(d)'
      BY <1>1, <1>2, <2>1 DEF DigestInv, DigestOK, DigestCount
    <2>4. DigestSeen'
      BY <1>1, <1>2, <2>1 DEF DigestInv, DigestOK, DigestSeen
    <2> QED BY <2>2, <2>3, <2>4 DEF DigestInv
  <1>4. CASE job.kind = "digest"
    <2> PICK e \in Days : e = job.date
      BY <1>1 DEF Jobs
    <2>1. e <= day /\ Sending(e) /\ lastDigest' = e
          /\ copies' = [copies EXCEPT ![e] = @ + 1] /\ \A d \in Days : Sending(d) => d = e
      BY <1>1, <1>4 DEF DigestInv, DigestOK, Jobs, Sending, SendOK, DigestSent
    <2>2. DigestOK'
      BY <1>1, <2>1 DEF DigestInv, DigestOK
    <2>3. DigestCount(e) /\ DigestOK
      BY <2>1 DEF DigestInv
    <2>4. DigestCount(e)'
      BY <1>1, <1>2, <2>1, <2>3 DEF DigestOK, DigestCount, Days
    <2>5. ASSUME NEW d \in Days, d # e PROVE DigestCount(d)'
      BY <1>1, <1>2, <2>1, <2>3, <2>5, NoneAssumption DEF DigestInv, DigestOK, DigestCount, Days
    <2>6. DigestSeen'
      <3>1. ASSUME NEW d \in Days, d < day, d \notin excused PROVE copies'[d] = 1
        <4>1. CASE d = e
          BY <2>1, <2>3, <3>1, <4>1 DEF DigestOK, DigestCount
        <4>2. CASE d # e
          BY <2>1, <2>3, <3>1, <4>2 DEF DigestInv, DigestOK, DigestSeen
        <4> QED BY <4>1, <4>2
      <3>2. looked /\ time >= DigestHour /\ day \notin excused => lastDigest' = day
        <4>1. lastDigest # day
          BY <2>1, <2>3, NoneAssumption DEF DigestOK, DigestCount, Days
        <4> QED BY <2>1, <4>1 DEF DigestInv, DigestOK, DigestSeen
      <3> QED BY <1>1, <3>1, <3>2 DEF DigestSeen
    <2> QED BY <2>2, <2>4, <2>5, <2>6 DEF DigestInv
  <1> QED BY <1>1, <1>3, <1>4 DEF Jobs

\* A digest that failed, or whose answer was lost, is excused; it stays due.
LEMMA SendFailsDigest == ASSUME DigestInv, SendFails PROVE DigestInv'
  <1>1. job # None /\ job \in Jobs /\ job' = None /\ DigestOK
        /\ UNCHANGED <<time, day, looked, lastDigest, restarts>>
    BY DEF DigestInv, DigestOK, SendFails
  <1>2. \A d \in Days : ~Sending(d)'
    BY <1>1 DEF Sending
  <1>3. CASE job.kind = "event"
    <2>1. UNCHANGED <<copies, lost, excused>> /\ \A d \in Days : ~Sending(d)
      BY <1>3 DEF SendFails, Sending
    <2>2. DigestOK'
      BY <1>1, <2>1 DEF DigestOK
    <2>3. \A d \in Days : DigestCount(d)'
      BY <1>1, <1>2, <2>1 DEF DigestInv, DigestOK, DigestCount
    <2>4. DigestSeen'
      BY <1>1, <1>2, <2>1 DEF DigestInv, DigestOK, DigestSeen
    <2> QED BY <2>2, <2>3, <2>4 DEF DigestInv
  <1>4. CASE job.kind = "digest"
    <2> PICK e \in Days : e = job.date
      BY <1>1 DEF Jobs
    <2>1. e <= day /\ Sending(e) /\ (\A d \in Days : Sending(d) => d = e)
          /\ excused' = excused \cup {e}
      BY <1>1, <1>4 DEF DigestOK, Sending, SendFails
    <2>2. \/ UNCHANGED <<copies, lost>>
          \/ copies' = [copies EXCEPT ![e] = @ + 1] /\ lost' = [lost EXCEPT ![e] = @ + 1]
      BY <1>4 DEF SendFails
    <2>3. DigestOK'
      BY <1>1, <2>1, <2>2 DEF DigestOK
    <2>4. DigestCount(e)
      BY DEF DigestInv
    <2>5. DigestCount(e)'
      <3>1. copies[e] \in Nat /\ lost[e] \in Nat /\ restarts[e] \in Nat /\ e \in Nat /\ day \in Nat
        BY <1>1 DEF DigestOK, Days
      <3>2. \/ copies'[e] = copies[e] /\ lost'[e] = lost[e]
            \/ copies'[e] = copies[e] + 1 /\ lost'[e] = lost[e] + 1
        BY <1>1, <2>2 DEF DigestOK
      <3>3. copies[e] <= lost[e] + restarts[e] /\ lastDigest # e /\ ~(e > day)
        BY <2>1, <2>4, <3>1, NoneAssumption DEF DigestCount
      <3>4. copies'[e] <= lost'[e] + restarts[e] /\ copies'[e] <= 1 + lost'[e] + restarts[e]
        BY <3>1, <3>2, <3>3
      <3> QED BY <1>1, <1>2, <2>1, <3>3, <3>4 DEF DigestCount
    <2>6. ASSUME NEW d \in Days, d # e PROVE DigestCount(d)'
      <3>1. copies'[d] = copies[d] /\ lost'[d] = lost[d] /\ (d \in excused' <=> d \in excused)
        BY <1>1, <2>1, <2>2, <2>6 DEF DigestOK
      <3> QED BY <1>1, <1>2, <3>1 DEF DigestInv, DigestCount
    <2>7. DigestSeen'
      <3>1. ASSUME NEW d \in Days, d < day, d \notin excused' PROVE copies'[d] = 1
        <4>1. d # e /\ copies'[d] = copies[d]
          BY <1>1, <2>1, <2>2, <3>1 DEF DigestOK
        <4> QED BY <2>1, <3>1, <4>1 DEF DigestInv, DigestSeen
      <3>2. looked /\ time >= DigestHour /\ day \notin excused' => lastDigest = day
        BY <1>1, <2>1 DEF DigestInv, DigestOK, DigestSeen
      <3> QED BY <1>1, <3>1, <3>2 DEF DigestSeen
    <2> QED BY <2>3, <2>5, <2>6, <2>7 DEF DigestInv
  <1> QED BY <1>1, <1>3, <1>4 DEF Jobs

\* A restart forgets the digest, and may cut one off.
LEMMA RestartDigest == ASSUME DigestInv, Restart PROVE DigestInv'
  <1>1. job' = None /\ looked' = FALSE /\ lastDigest' = None /\ DigestOK
        /\ restarts' = [restarts EXCEPT ![day] = @ + 1]
        /\ excused' = excused \cup {day} \cup {d \in Days : job = [kind |-> "digest", date |-> d]}
        /\ UNCHANGED <<time, day, lost>>
    BY DEF DigestInv, Restart
  <1>2. \A d \in Days : ~Sending(d)'
    BY <1>1 DEF Sending
  <1>3. ASSUME NEW d \in Days, Sending(d) PROVE d \in excused'
    <2>1. job = [kind |-> "digest", date |-> d]
      BY <1>1, <1>3 DEF DigestOK, Jobs, Sending
    <2> QED BY <1>1, <2>1
  <1>4. /\ copies' \in [Days -> Nat]
        /\ \A d \in Days : \/ copies'[d] = copies[d]
                           \/ Sending(d) /\ copies'[d] = copies[d] + 1
    <2>1. PICK arrived \in 0 .. 1 :
            IF job # None /\ job.kind = "digest"
            THEN copies' = [copies EXCEPT ![job.date] = @ + arrived]
            ELSE arrived = 0 /\ UNCHANGED copies
      BY DEF Restart
    <2> QED BY <1>1, <2>1 DEF DigestOK, Jobs, Sending
  <1>5. DigestOK'
    <2>1. excused' \subseteq Days
      BY <1>1 DEF DigestOK
    <2>2. restarts' \in [Days -> Nat]
      BY <1>1 DEF DigestOK
    <2> QED BY <1>1, <1>4, <2>1, <2>2 DEF DigestOK
  <1>6. ASSUME NEW d \in Days PROVE DigestCount(d)'
    <2>1. DigestCount(d) /\ copies[d] \in Nat /\ lost[d] \in Nat /\ restarts[d] \in Nat /\ d \in Nat
          /\ day \in Nat /\ lost'[d] = lost[d] /\ day' = day /\ copies'[d] \in Nat
      BY <1>1, <1>4 DEF DigestInv, DigestOK, Days
    <2>2. restarts'[d] = IF d = day THEN restarts[d] + 1 ELSE restarts[d]
      BY <1>1 DEF DigestOK
    <2>3. copies'[d] <= 1 + lost[d] + restarts[d]
      BY <1>4, <2>1 DEF DigestCount
    <2>4. d > day => ~Sending(d)
      BY <1>1, <2>1 DEF DigestOK, Sending
    <2>5. d # lastDigest'
      BY <1>1, NoneAssumption
    <2>6. d \notin excused' => lost[d] = 0 /\ restarts'[d] = 0
      BY <1>1, <2>1, <2>2 DEF DigestCount
    <2>7. d > day => copies'[d] = 0
      BY <1>4, <2>1, <2>4 DEF DigestCount
    <2>8. copies'[d] <= 1 + lost[d] + restarts'[d]
      BY <2>1, <2>2, <2>3
    <2>9. d = day => copies'[d] <= lost[d] + restarts'[d]
      BY <2>1, <2>2, <2>3
    <2> QED BY <1>2, <2>1, <2>5, <2>6, <2>7, <2>8, <2>9 DEF DigestCount
  <1>7. DigestSeen'
    <2>1. ASSUME NEW d \in Days, d < day, d \notin excused' PROVE copies'[d] = 1
      <3>1. ~Sending(d) /\ d \notin excused
        BY <1>1, <1>3, <2>1
      <3> QED BY <1>4, <2>1, <3>1 DEF DigestInv, DigestSeen
    <2> QED BY <1>1, <2>1 DEF DigestSeen
  <1> QED BY <1>5, <1>6, <1>7 DEF DigestInv

\* A day that ends has its digest, or one on its way, or an excuse.
LEMMA NotifierClockDigest == ASSUME DigestInv, NotifierClock PROVE DigestInv'
  <1>1. looked' = FALSE /\ DigestOK
        /\ excused' = (IF ~looked /\ DigestDue THEN excused \cup {day} ELSE excused)
        /\ UNCHANGED <<job, lastDigest, copies, lost, restarts>>
    BY DEF DigestInv, NotifierClock
  <1>2. \A d \in Days : Sending(d)' <=> Sending(d)
    BY <1>1 DEF Sending
  <1>3. \/ time < DayLength - 1 /\ time' = time + 1 /\ UNCHANGED day
        \/ time = DayLength - 1 /\ day < MaxDay /\ time' = 0 /\ day' = day + 1
    BY DEF NotifierClock
  <1>4. DigestOK'
    <2>0. time \in 0 .. DayLength - 1 /\ day \in 0 .. MaxDay
      BY <1>1 DEF DigestOK, Days
    <2>1. time' \in 0 .. DayLength - 1 /\ day' \in Days /\ day <= day' /\ day \in Nat
      BY <1>3, <2>0, DayAssumption DEF Days
    <2>2. excused' \subseteq Days
      BY <1>1 DEF DigestOK
    <2>3. job # None => job.date <= day'
      BY <1>1, <2>1 DEF DigestOK, Jobs, Days
    <2>4. lastDigest # None => lastDigest <= day'
      BY <1>1, <2>1 DEF DigestOK, Days
    <2> QED BY <1>1, <2>1, <2>2, <2>3, <2>4 DEF DigestOK
  <1>5. ASSUME NEW d \in Days PROVE DigestCount(d)'
    <2>1. DigestCount(d) /\ d \in Nat /\ day \in Nat /\ (day' = day \/ day' = day + 1)
      BY <1>1, <1>3 DEF DigestInv, DigestOK, Days
    <2>2. d \notin excused' => d \notin excused
      BY <1>1
    <2>3. d > day' => d > day
      BY <2>1
    <2>4. d = day' => d = day \/ copies[d] = 0
      BY <2>1 DEF DigestCount
    <2>5. copies[d] \in Nat /\ lost[d] \in Nat /\ restarts[d] \in Nat
      BY <1>1 DEF DigestOK
    <2>6. Sending(d) \/ (d = day' /\ lastDigest # d) => copies[d] <= lost[d] + restarts[d]
      BY <2>1, <2>4, <2>5 DEF DigestCount
    <2> QED BY <1>1, <1>2, <2>1, <2>2, <2>3, <2>6 DEF DigestCount
  <1>6. DigestSeen'
    <2>1. ASSUME NEW d \in Days, d < day', d \notin excused' PROVE copies[d] = 1 \/ Sending(d)
      <3>1. d \notin excused
        BY <1>1, <2>1
      <3>2. CASE d < day
        BY <3>1, <3>2 DEF DigestInv, DigestSeen
      <3>3. CASE d >= day
        <4>1. d = day /\ time = DayLength - 1
          BY <1>1, <1>3, <2>1, <3>3 DEF DigestOK, Days
        <4>2. time >= DigestHour
          BY <4>1, DayAssumption
        <4>3. looked \/ lastDigest = day
          BY <1>1, <2>1, <4>1, <4>2 DEF DigestDue
        <4>4. lastDigest = day \/ Sending(day)
          BY <3>1, <4>1, <4>2, <4>3 DEF DigestInv, DigestSeen
        <4>5. lastDigest = day => copies[d] = 1
          BY <1>1, <3>1, <4>1 DEF DigestInv, DigestOK, DigestCount
        <4> QED BY <4>1, <4>4, <4>5
      <3> QED BY <1>1, <3>2, <3>3 DEF DigestOK, Days
    <2> QED BY <1>1, <1>2, <2>1 DEF DigestSeen
  <1> QED BY <1>4, <1>5, <1>6 DEF DigestInv

\* Every step of every service keeps the invariant of the digest.
LEMMA DigestStep == DigestInv /\ [Next]_vars => DigestInv'
  <1> SUFFICES ASSUME DigestInv, [Next]_vars PROVE DigestInv'
    OBVIOUS
  <1>1. CASE UNCHANGED notifierVars
    BY <1>1, DigestStays DEF notifierVars
  <1>2. ASSUME NEW m \in Messages, Arrive(m) PROVE DigestInv'
    BY <1>2, DigestStays DEF Arrive
  <1>3. CASE SubscriptionEnds
    BY <1>3, DigestStays DEF SubscriptionEnds
  <1>4. CASE NotifierStep
    BY <1>2, <1>3, <1>4, HandleEventDigest, LookForDigestDigest, SendOKDigest, SendFailsDigest,
       RestartDigest, NotifierClockDigest DEF NotifierStep, NotifierNext
  <1> QED BY <1>1, <1>4 DEF Next, OfHub, PriceStep, vars

\* The digest of a date reaches the chat once, but for lost answers and
\* restarts, and a date without one has an excuse (telegram.go:202-235).
THEOREM DigestOncePerDayHolds == Spec => []DigestOncePerDay
  <1>1. DigestInv => DigestOncePerDay
    BY DEF DigestInv, DigestCount, DigestSeen, Sending, DigestOncePerDay
  <1> QED BY <1>1, DigestInitOK, DigestStep, PTL DEF Spec

=============================================================================
