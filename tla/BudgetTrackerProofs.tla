------------------------ MODULE BudgetTrackerProofs ------------------------
(***************************************************************************)
(* Proofs about the budget ladder, for any number of goroutines that call   *)
(* Refresh, any budget and thresholds, any months and any failures.         *)
(***************************************************************************)
EXTENDS BudgetTracker, TLAPS

LevelOf(hook) == IF hook = "freeze" THEN "breached" ELSE "tight"

\* As long as no record was overwritten by an earlier month, a level's record
\* only grows; whoever is on the way to a hook recorded the level for a month
\* that nobody else is firing it for and that the hook was not called for.
FiredOnce ==
    ~crossed =>
        /\ \A h \in Hooks, m \in Months :
             called[h][m] <= 1 /\ (called[h][m] > 0 => m <= fireHistory[LevelOf(h)])
        /\ \A r \in Refreshers : pc[r] \in Hooks =>
             /\ now[r] <= fireHistory[LevelOf(pc[r])]
             /\ called[pc[r]][now[r]] = 0
             /\ pc[r] = "halve" => called["disable"][now[r]] = 0
        /\ \A r, s \in Refreshers :
             (r # s /\ pc[r] \in Hooks /\ pc[s] \in Hooks /\ LevelOf(pc[r]) = LevelOf(pc[s]))
                => now[r] # now[s]

\* Readings and records are never ahead of the clock, and a lone refresher's
\* reading is never behind a record.
InClockOrder ==
    /\ \A l \in Levels : fireHistory[l] <= month
    /\ \A r \in Refreshers : now[r] <= month /\ (pc[r] # "idle" => r \in live)
    /\ (\A r, s \in live : r = s) =>
         /\ ~crossed
         /\ \A r \in Refreshers, l \in Levels : pc[r] # "idle" => fireHistory[l] <= now[r]

\* Refresher r is going to complete the tight hooks of month m.
Tightening(r, m) ==
    /\ now[r] = m
    /\ pc[r] = "halve" \/ (pc[r] = "disable" /\ called["halve"][m] > 0)

\* Refresher r is about to call fireOnce for the tight level of month m.
Approaching(r, m) == pc[r] = "tight" /\ now[r] = m

TightDone(m) == called["halve"][m] > 0 /\ called["disable"][m] > 0

\* The tight hooks of a month that is recorded, or that was frozen, have been
\* called, have failed, or are about to be called by somebody.
OnLadder ==
    wired => \A m \in Months : ~HookFailed(m) =>
        /\ fireHistory["tight"] = m => TightDone(m) \/ \E r \in Refreshers : Tightening(r, m)
        /\ called["freeze"][m] > 0 =>
             TightDone(m) \/ \E r \in Refreshers : Tightening(r, m) \/ Approaching(r, m)

\* A tracker without actions calls nothing.
Idle ==
    ~wired => /\ \A r \in Refreshers : pc[r] \notin Hooks
              /\ \A h \in Hooks, m \in Months : called[h][m] = 0

-----------------------------------------------------------------------------
\* A spend has one of the three levels.
LEMMA ClassifyType == \A s : classify(s) \in Levelled
  BY DEF classify, Levelled, Levels

\* The initial state satisfies all of the invariants.
LEMMA InitInv == Init => TypeOK /\ FiredOnce /\ InClockOrder /\ OnLadder /\ Idle
  <1> SUFFICES ASSUME Init PROVE TypeOK /\ FiredOnce /\ InClockOrder /\ OnLadder /\ Idle
    OBVIOUS
  <1> USE BoundsAssumption, SpendAssumption
  <1> USE DEF Init, Months, Levels, Hooks, Never
  <1>1. TypeOK
    <2>1. called \in [Hooks -> [Months -> Nat]] /\ pc \in [Refreshers -> PCs]
      BY DEF PCs
    <2>2. fireHistory \in [Levels -> Months \cup {Never}]
          /\ now \in [Refreshers -> Months] /\ read \in [Refreshers -> SpendLevels]
      OBVIOUS
    <2>3. /\ live \subseteq Refreshers /\ wired \in BOOLEAN /\ month \in Months /\ spend \in SpendLevels
          /\ cachedState \in Levelled /\ cachedSpend \in SpendLevels
          /\ errors \in 0 .. MaxErrors /\ failed \subseteq Hooks \X Months
      BY DEF Levelled
    <2>4. crossed \in BOOLEAN
      OBVIOUS
    <2> QED BY <2>1, <2>2, <2>3, <2>4 DEF TypeOK
  <1>2. FiredOnce
    BY DEF FiredOnce
  <1>3. InClockOrder
    BY DEF InClockOrder
  <1>4. OnLadder
    BY DEF OnLadder
  <1>5. Idle
    BY DEF Idle
  <1> QED BY <1>1, <1>2, <1>3, <1>4, <1>5

\* Counting a call keeps the type of the counters.
LEMMA CalledType ==
    ASSUME TypeOK, NEW r \in Refreshers, NEW h \in Hooks, Called(r, h)
    PROVE  called' \in [Hooks -> [Months -> Nat]]
  <1>1. called[h] \in [Months -> Nat] /\ now[r] \in Months
    BY DEF TypeOK
  <1>2. [called[h] EXCEPT ![now[r]] = called[h][now[r]] + 1] \in [Months -> Nat]
    BY <1>1
  <1> QED BY <1>2 DEF TypeOK, Called

\* What the types say about the numbers that are compared.
LEMMA Numbers ==
    ASSUME TypeOK
    PROVE  /\ \A h \in Hooks, m \in Months : called[h][m] \in Nat
           /\ \A r \in Refreshers : now[r] \in Months
           /\ \A l \in Levels : fireHistory[l] \in Nat
           /\ Months \subseteq Nat
  BY BoundsAssumption DEF TypeOK, Months, Never

\* Every step preserves the types.
LEMMA TypeStep == TypeOK /\ [Next]_vars => TypeOK'
  <1> SUFFICES ASSUME TypeOK, [Next]_vars PROVE TypeOK'
    OBVIOUS
  <1> USE BoundsAssumption, SpendAssumption
  <1> USE DEF TypeOK, Goto, PCs, Months, tracker, local, history
  <1>1. CASE UNCHANGED vars
    BY <1>1 DEF vars
  <1>2. ASSUME NEW r \in Refreshers, Refresh(r) PROVE TypeOK'
    BY <1>2 DEF Refresh
  <1>3. ASSUME NEW r \in Refreshers, RefreshFails(r) PROVE TypeOK'
    BY <1>3 DEF RefreshFails, Error
  <1>4. ASSUME NEW r \in Refreshers, UpdateCache(r) PROVE TypeOK'
    BY <1>4, ClassifyType DEF UpdateCache, Levelled
  <1>5. ASSUME NEW r \in Refreshers, NEW l \in Levels, FireSkip(r, l) PROVE TypeOK'
    BY <1>5 DEF FireSkip, AfterLevel, Levels
  <1>6. ASSUME NEW r \in Refreshers, NEW l \in Levels, FireRecord(r, l) PROVE TypeOK'
    <2>1. FirstHook(l) \in PCs /\ 1 \in Months
      BY DEF FirstHook, AfterLevel, Levels, Hooks
    <2>2. pc' \in [Refreshers -> PCs] /\ now' \in [Refreshers -> Months]
      BY <1>6, <2>1 DEF FireRecord
    <2>3. fireHistory' \in [Levels -> Months \cup {Never}]
      BY <1>6 DEF FireRecord
    <2>4. crossed' \in BOOLEAN
      BY <1>6 DEF FireRecord
    <2> QED BY <1>6, <2>2, <2>3, <2>4 DEF FireRecord
  <1>7. ASSUME NEW r \in Refreshers, NEW h \in Hooks, CallHook(r, h) PROVE TypeOK'
    <2>1. called' \in [Hooks -> [Months -> Nat]]
      BY <1>7, CalledType DEF CallHook
    <2>2. pc' \in [Refreshers -> PCs] /\ now' \in [Refreshers -> Months]
      BY <1>7, SMTT(20) DEF CallHook, AfterHook, AfterLevel, Levels, Hooks
    <2> QED BY <1>7, <2>1, <2>2 DEF CallHook
  <1>8. ASSUME NEW r \in Refreshers, NEW h \in Hooks, HookFails(r, h) PROVE TypeOK'
    <2>1. called' \in [Hooks -> [Months -> Nat]]
      BY <1>8, CalledType DEF HookFails
    <2>2. pc' \in [Refreshers -> PCs] /\ now' \in [Refreshers -> Months]
      BY <1>8 DEF HookFails
    <2>3. errors' \in 0 .. MaxErrors
      BY <1>8 DEF HookFails, Error
    <2>4. failed' \subseteq Hooks \X Months
      BY <1>8 DEF HookFails
    <2> QED BY <1>8, <2>1, <2>2, <2>3, <2>4 DEF HookFails
  <1>9. CASE Spend
    BY <1>9 DEF Spend
  <1>10. CASE MonthTurns
    BY <1>10 DEF MonthTurns
  <1> QED BY <1>1, <1>2, <1>3, <1>4, <1>5, <1>6, <1>7, <1>8, <1>9, <1>10 DEF Next, Step

\* A tracker is made with actions or without, for good.
LEMMA WiredStays == [Next]_vars => wired' = wired
  <1> SUFFICES ASSUME [Next]_vars PROVE wired' = wired
    OBVIOUS
  <1>1. CASE UNCHANGED vars \/ Spend \/ MonthTurns
    BY <1>1 DEF vars, Spend, MonthTurns
  <1>2. ASSUME NEW r \in Refreshers, Refresh(r) \/ RefreshFails(r) \/ UpdateCache(r)
        PROVE  wired' = wired
    BY <1>2 DEF Refresh, RefreshFails, UpdateCache
  <1>3. ASSUME NEW r \in Refreshers, NEW l \in Levels, FireSkip(r, l) \/ FireRecord(r, l)
        PROVE  wired' = wired
    BY <1>3 DEF FireSkip, FireRecord
  <1>4. ASSUME NEW r \in Refreshers, NEW h \in Hooks, CallHook(r, h) \/ HookFails(r, h)
        PROVE  wired' = wired
    BY <1>4 DEF CallHook, HookFails
  <1> QED BY <1>1, <1>2, <1>3, <1>4 DEF Next, Step

\* A goroutine that does not end up at a hook, in a step that records and
\* calls nothing, changes none of what FiredOnce is about.
LEMMA QuietStep ==
    ASSUME TypeOK, FiredOnce, UNCHANGED <<fireHistory, called, crossed>>,
           \A r \in Refreshers : pc'[r] \in Hooks => pc'[r] = pc[r] /\ now'[r] = now[r]
    PROVE  FiredOnce'
  BY DEF FiredOnce

\* Every step preserves FiredOnce.
LEMMA FiredStep == TypeOK /\ FiredOnce /\ Idle /\ [Next]_vars => FiredOnce'
  <1> SUFFICES ASSUME TypeOK, FiredOnce, Idle, [Next]_vars PROVE FiredOnce'
    OBVIOUS
  <1> USE BoundsAssumption DEF tracker, local, history
  <1>1. CASE UNCHANGED vars \/ Spend \/ MonthTurns
    BY <1>1, QuietStep DEF vars, Spend, MonthTurns
  <1>2. ASSUME NEW r \in Refreshers, Refresh(r) \/ RefreshFails(r) PROVE FiredOnce'
    BY <1>2, QuietStep DEF Refresh, RefreshFails, TypeOK, Hooks
  <1>3. ASSUME NEW r \in Refreshers, UpdateCache(r) PROVE FiredOnce'
    BY <1>3, ClassifyType, QuietStep DEF UpdateCache, Goto, TypeOK, Hooks, Levelled, Levels
  <1>4. ASSUME NEW r \in Refreshers, NEW l \in Levels, FireSkip(r, l) PROVE FiredOnce'
    BY <1>4, QuietStep DEF FireSkip, Goto, AfterLevel, TypeOK, Hooks
  <1>5. ASSUME NEW r \in Refreshers, NEW l \in Levels, FireRecord(r, l), ~crossed', wired
        PROVE FiredOnce'
    <2> DEFINE hook == IF l = "breached" THEN "freeze" ELSE "halve"
    <2>0. hook \in Hooks /\ LevelOf(hook) = l /\ hook # "idle"
          /\ now[r] \in Nat /\ fireHistory[l] \in Nat
      BY Numbers DEF LevelOf, Hooks, Levels
    <2>1. /\ fireHistory[l] # now[r] /\ ~crossed /\ ~(fireHistory[l] > now[r])
          /\ fireHistory' = [fireHistory EXCEPT ![l] = now[r]]
          /\ pc' = [pc EXCEPT ![r] = hook] /\ UNCHANGED <<now, called>>
      BY <1>5, <2>0 DEF FireRecord, FirstHook, Goto
    <2>2. /\ fireHistory[l] < now[r]
          /\ fireHistory'[l] = now[r]
          /\ \A k \in Levels : fireHistory'[k] \in Nat /\ fireHistory[k] <= fireHistory'[k]
      <3>1. fireHistory[l] < now[r]
        BY <2>0, <2>1
      <3>2. \A k \in Levels : fireHistory'[k] = IF k = l THEN now[r] ELSE fireHistory[k]
        BY <2>1 DEF TypeOK
      <3> QED BY <2>0, <3>1, <3>2, Numbers
    <2>3. \A h \in Hooks : LevelOf(h) \in Levels
      BY DEF LevelOf, Levels
    <2>4. \A h \in Hooks, m \in Months :
              called[h][m] <= 1 /\ (called[h][m] > 0 => m <= fireHistory'[LevelOf(h)])
      BY <2>1, <2>2, <2>3, Numbers DEF FiredOnce
    <2>5. \A h \in Hooks : LevelOf(h) = l => called[h][now[r]] = 0
      BY <2>1, <2>2, Numbers DEF FiredOnce
    <2>6. LevelOf("disable") = "tight" /\ "disable" \in Hooks
          /\ (hook = "halve" => l = "tight")
      BY DEF LevelOf, Hooks, Levels
    <2>7. \A s \in Refreshers : pc'[s] \in Hooks =>
              /\ now[s] <= fireHistory'[LevelOf(pc'[s])]
              /\ called[pc'[s]][now[s]] = 0
              /\ pc'[s] = "halve" => called["disable"][now[s]] = 0
      <3> SUFFICES ASSUME NEW s \in Refreshers, pc'[s] \in Hooks
                   PROVE  /\ now[s] <= fireHistory'[LevelOf(pc'[s])]
                          /\ called[pc'[s]][now[s]] = 0
                          /\ pc'[s] = "halve" => called["disable"][now[s]] = 0
        OBVIOUS
      <3>1. CASE s = r
        <4>1. pc'[s] = hook
          BY <2>1, <3>1 DEF TypeOK
        <4> QED BY <2>0, <2>2, <2>5, <2>6, <3>1, <4>1
      <3>2. CASE s # r
        <4>1. pc'[s] = pc[s]
          BY <2>1, <3>2 DEF TypeOK
        <4>2. now[s] <= fireHistory[LevelOf(pc[s])] /\ LevelOf(pc[s]) \in Levels
          BY <2>1, <2>3, <4>1 DEF FiredOnce
        <4>3. now[s] <= fireHistory'[LevelOf(pc[s])]
          BY <2>2, <4>2, Numbers
        <4> QED BY <2>1, <4>1, <4>3 DEF FiredOnce
      <3> QED BY <3>1, <3>2
    <2>8. \A s, t \in Refreshers :
             (s # t /\ pc'[s] \in Hooks /\ pc'[t] \in Hooks /\ LevelOf(pc'[s]) = LevelOf(pc'[t]))
                => now[s] # now[t]
      <3>1. \A s \in Refreshers \ {r} :
                pc'[s] = pc[s] /\ (pc[s] \in Hooks /\ LevelOf(pc[s]) = l => now[s] < now[r])
        BY <2>1, <2>2, Numbers DEF FiredOnce
      <3>2. LevelOf(pc'[r]) = l
        BY <2>0, <2>1 DEF TypeOK
      <3> QED BY <2>1, <3>1, <3>2, Numbers DEF FiredOnce
    <2> QED BY <2>1, <2>4, <2>7, <2>8 DEF FiredOnce
  <1>6. ASSUME NEW r \in Refreshers, NEW h \in Hooks, CallHook(r, h) \/ HookFails(r, h), ~crossed
        PROVE FiredOnce'
    <2>1. /\ pc[r] = h /\ UNCHANGED <<fireHistory, crossed>>
          /\ called' = [called EXCEPT ![h][now[r]] = called[h][now[r]] + 1]
          /\ \A s \in Refreshers \ {r} : pc'[s] = pc[s] /\ now'[s] = now[s]
          /\ pc'[r] \in Hooks => h = "halve" /\ pc'[r] = "disable" /\ now'[r] = now[r]
      BY <1>6 DEF CallHook, HookFails, Called, Goto, AfterHook, AfterLevel, TypeOK, Hooks
    <2>2. now[r] <= fireHistory[LevelOf(h)] /\ called[h][now[r]] = 0
          /\ (h = "halve" => called["disable"][now[r]] = 0)
      BY <1>6, <2>1 DEF FiredOnce
    <2>3. \A k \in Hooks, m \in Months :
              called'[k][m] = IF k = h /\ m = now[r] THEN 1 ELSE called[k][m]
      BY <2>1, <2>2 DEF TypeOK
    <2>4. \A k \in Hooks, m \in Months :
              called'[k][m] <= 1 /\ (called'[k][m] > 0 => m <= fireHistory[LevelOf(k)])
      BY <1>6, <2>2, <2>3 DEF FiredOnce
    <2>5. LevelOf("halve") = "tight" /\ LevelOf("disable") = "tight"
          /\ "halve" \in Hooks /\ "disable" \in Hooks
      BY DEF LevelOf, Hooks
    <2>6. \A s \in Refreshers : pc'[s] \in Hooks =>
              /\ now'[s] <= fireHistory[LevelOf(pc'[s])]
              /\ called'[pc'[s]][now'[s]] = 0
              /\ pc'[s] = "halve" => called'["disable"][now'[s]] = 0
      <3> SUFFICES ASSUME NEW s \in Refreshers, pc'[s] \in Hooks
                   PROVE  /\ now'[s] <= fireHistory[LevelOf(pc'[s])]
                          /\ called'[pc'[s]][now'[s]] = 0
                          /\ pc'[s] = "halve" => called'["disable"][now'[s]] = 0
        OBVIOUS
      <3>1. CASE s = r
        BY <2>1, <2>2, <2>3, <2>5, <3>1 DEF TypeOK
      <3>2. CASE s # r
        <4>1. pc'[s] = pc[s] /\ now'[s] = now[s] /\ now[s] \in Months
          BY <2>1, <3>2 DEF TypeOK
        <4>2. LevelOf(pc[s]) = LevelOf(h) => now[s] # now[r]
          BY <1>6, <2>1, <3>2, <4>1 DEF FiredOnce
        <4> QED BY <1>6, <2>3, <2>5, <4>1, <4>2 DEF FiredOnce
      <3> QED BY <3>1, <3>2
    <2>7. \A s, t \in Refreshers :
             (s # t /\ pc'[s] \in Hooks /\ pc'[t] \in Hooks /\ LevelOf(pc'[s]) = LevelOf(pc'[t]))
                => now'[s] # now'[t]
      BY <1>6, <2>1, <2>5 DEF FiredOnce
    <2> QED BY <2>1, <2>4, <2>6, <2>7 DEF FiredOnce
  <1>7. ASSUME NEW r \in Refreshers, NEW l \in Levels, FireRecord(r, l), crossed'
        PROVE FiredOnce'
    BY <1>7 DEF FiredOnce
  <1>9. ASSUME NEW r \in Refreshers, NEW l \in Levels, FireRecord(r, l), ~wired
        PROVE FiredOnce'
    <2>1. (\A s \in Refreshers : pc[s] \notin Hooks) /\ \A h \in Hooks, m \in Months : called[h][m] = 0
      BY <1>9 DEF Idle
    <2>2. UNCHANGED called /\ AfterLevel(l) \notin Hooks /\ pc' = [pc EXCEPT ![r] = AfterLevel(l)]
      BY <1>9 DEF FireRecord, FirstHook, Goto, AfterLevel, Hooks
    <2>3. \A s \in Refreshers : pc'[s] \notin Hooks
      BY <2>1, <2>2 DEF TypeOK
    <2> QED BY <2>1, <2>2, <2>3 DEF FiredOnce
  <1>8. ASSUME NEW r \in Refreshers, NEW h \in Hooks, CallHook(r, h) \/ HookFails(r, h), crossed
        PROVE FiredOnce'
    BY <1>8 DEF FiredOnce, CallHook, HookFails
  <1> QED BY <1>1, <1>2, <1>3, <1>4, <1>5, <1>6, <1>7, <1>8, <1>9 DEF Next, Step, TypeOK

\* Every step preserves Idle.
LEMMA IdleStep == TypeOK /\ Idle /\ [Next]_vars => Idle'
  <1> SUFFICES ASSUME TypeOK, Idle, [Next]_vars, ~wired
               PROVE  /\ \A s \in Refreshers : pc'[s] \notin Hooks
                      /\ \A h \in Hooks, m \in Months : called'[h][m] = 0
    BY WiredStays DEF Idle
  <1> USE DEF tracker, local, history
  <1>1. (\A s \in Refreshers : pc[s] \notin Hooks) /\ \A h \in Hooks, m \in Months : called[h][m] = 0
    BY DEF Idle
  <1>2. CASE UNCHANGED <<pc, called>>
    BY <1>1, <1>2
  <1>3. ASSUME NEW r \in Refreshers, NEW label, label \notin Hooks,
               pc' = [pc EXCEPT ![r] = label], UNCHANGED called
        PROVE  /\ \A s \in Refreshers : pc'[s] \notin Hooks
               /\ \A h \in Hooks, m \in Months : called'[h][m] = 0
    BY <1>1, <1>3 DEF TypeOK
  <1>4. "idle" \notin Hooks /\ "cache" \notin Hooks /\ "tight" \notin Hooks /\ "breached" \notin Hooks
    BY DEF Hooks
  <1>5. ASSUME NEW r \in Refreshers, Refresh(r)
        PROVE  pc' = [pc EXCEPT ![r] = "cache"] /\ UNCHANGED called
    BY <1>5 DEF Refresh
  <1>6. ASSUME NEW r \in Refreshers, UpdateCache(r)
        PROVE  UNCHANGED called /\ \E label : label \notin Hooks /\ pc' = [pc EXCEPT ![r] = label]
    BY <1>4, <1>6, ClassifyType DEF UpdateCache, Goto, Levelled, Levels
  <1>7. ASSUME NEW r \in Refreshers, NEW l \in Levels, FireSkip(r, l) \/ FireRecord(r, l)
        PROVE  pc' = [pc EXCEPT ![r] = AfterLevel(l)] /\ UNCHANGED called /\ AfterLevel(l) \notin Hooks
    BY <1>4, <1>7 DEF FireSkip, FireRecord, FirstHook, Goto, AfterLevel
  <1>8. ASSUME NEW r \in Refreshers, NEW h \in Hooks, CallHook(r, h) \/ HookFails(r, h) PROVE FALSE
    BY <1>1, <1>8 DEF CallHook, HookFails
  <1> QED BY <1>2, <1>3, <1>4, <1>5, <1>6, <1>7, <1>8
          DEF Next, Step, vars, Spend, MonthTurns, RefreshFails

\* Every step preserves InClockOrder.
LEMMA ClockStep == TypeOK /\ InClockOrder /\ [Next]_vars => InClockOrder'
  <1> SUFFICES ASSUME TypeOK, InClockOrder, [Next]_vars PROVE InClockOrder'
    OBVIOUS
  <1> USE Numbers, BoundsAssumption DEF tracker, local, history
  <1>0. month \in Nat /\ 1 <= month
    BY DEF TypeOK, Months
  <1>1. CASE UNCHANGED vars \/ Spend
    BY <1>1 DEF vars, Spend, InClockOrder
  <1>2. CASE MonthTurns
    <2>1. UNCHANGED <<live, fireHistory, pc, now, crossed>> /\ month' = month + 1
      BY <1>2 DEF MonthTurns
    <2> QED BY <1>0, <2>1 DEF InClockOrder
  <1>3. ASSUME NEW r \in Refreshers, Refresh(r) \/ RefreshFails(r) PROVE InClockOrder'
    BY <1>0, <1>3 DEF InClockOrder, Refresh, RefreshFails, TypeOK
  \* Whoever moves on inside Refresh keeps its reading or is done.
  <1>4. ASSUME NEW r \in Refreshers, NEW label, Goto(r, label), pc[r] # "idle",
               UNCHANGED <<live, month, fireHistory, crossed>>
        PROVE  InClockOrder'
    BY <1>0, <1>4 DEF Goto, InClockOrder, TypeOK
  <1>5. ASSUME NEW r \in Refreshers, UpdateCache(r) PROVE InClockOrder'
    BY <1>4, <1>5 DEF UpdateCache
  <1>6. ASSUME NEW r \in Refreshers, NEW l \in Levels, FireSkip(r, l) PROVE InClockOrder'
    BY <1>4, <1>6 DEF FireSkip, Levels
  <1>7. ASSUME NEW r \in Refreshers, NEW h \in Hooks, CallHook(r, h) \/ HookFails(r, h)
        PROVE InClockOrder'
    BY <1>4, <1>7 DEF CallHook, HookFails, Hooks
  <1>8. ASSUME NEW r \in Refreshers, NEW l \in Levels, FireRecord(r, l) PROVE InClockOrder'
    <2>1. /\ UNCHANGED <<live, month>> /\ pc[r] # "idle"
          /\ crossed' = (crossed \/ fireHistory[l] > now[r])
      BY <1>8 DEF FireRecord, Levels
    <2>2. /\ \A s \in Refreshers : pc'[s] # "idle" => pc[s] # "idle"
          /\ \A s \in Refreshers : pc'[s] # "idle" => now'[s] = now[s]
          /\ \A s \in Refreshers : now'[s] = now[s] \/ now'[s] = 1
      BY <1>8, <2>1 DEF FireRecord, Goto, TypeOK
    <2>3. \A k \in Levels : fireHistory'[k] = IF k = l THEN now[r] ELSE fireHistory[k]
      BY <1>8 DEF FireRecord, TypeOK
    <2>4. /\ \A k \in Levels : fireHistory'[k] <= month'
          /\ \A s \in Refreshers : now'[s] <= month' /\ (pc'[s] # "idle" => s \in live')
      <3>1. \A s \in Refreshers : now[s] <= month /\ now[s] \in Nat /\ (pc[s] # "idle" => s \in live)
        BY DEF InClockOrder
      <3>2. \A k \in Levels : fireHistory[k] <= month
        BY DEF InClockOrder
      <3>3. \A k \in Levels : fireHistory'[k] <= month'
        BY <2>1, <2>3, <3>1, <3>2
      <3>4. \A s \in Refreshers : now'[s] <= month'
        BY <1>0, <2>1, <2>2, <3>1
      <3>5. \A s \in Refreshers : pc'[s] # "idle" => s \in live'
        BY <2>1, <2>2, <3>1
      <3> QED BY <3>3, <3>4, <3>5
    <2>5. ASSUME \A s, t \in live : s = t
          PROVE  /\ ~crossed'
                 /\ \A s \in Refreshers, k \in Levels :
                      pc'[s] # "idle" => fireHistory'[k] <= now'[s]
      <3>1. ~crossed /\ fireHistory[l] <= now[r]
        BY <2>1, <2>5 DEF InClockOrder
      <3>2. ~(fireHistory[l] > now[r])
        BY <3>1
      <3>3. \A s \in Refreshers : pc'[s] # "idle" => s = r /\ now'[s] = now[s]
        <4>1. \A s \in Refreshers : pc[s] # "idle" => s \in live
          BY DEF InClockOrder
        <4>2. \A s \in Refreshers : pc'[s] # "idle" => s \in live
          BY <2>2, <4>1
        <4>3. r \in live
          BY <2>1, <4>1
        <4> QED BY <2>2, <2>5, <4>2, <4>3
      <3>4. \A k \in Levels : fireHistory'[k] <= now[r]
        BY <2>1, <2>3, <2>5 DEF InClockOrder
      <3> QED BY <2>1, <3>1, <3>2, <3>3, <3>4
    <2> QED BY <2>1, <2>4, <2>5 DEF InClockOrder
  <1> QED BY <1>1, <1>2, <1>3, <1>5, <1>6, <1>7, <1>8 DEF Next, Step

\* What each step does to the counters, the failures and the position of the
\* goroutine that takes it.
LEMMA LadderMoves ==
    ASSUME TypeOK, [Next]_vars, wired
    PROVE  \/ /\ UNCHANGED <<called, failed, fireHistory, pc, now>>
           \/ \E r \in Refreshers :
                /\ UNCHANGED <<called, failed, fireHistory>>
                /\ pc[r] \in {"idle", "cache", "breached"}
                /\ \A s \in Refreshers \ {r} : pc'[s] = pc[s] /\ now'[s] = now[s]
           \/ \E r \in Refreshers :
                /\ UNCHANGED <<called, failed, fireHistory>>
                /\ pc[r] = "tight" /\ fireHistory["tight"] = now[r]
                /\ \A s \in Refreshers \ {r} : pc'[s] = pc[s] /\ now'[s] = now[s]
           \/ \E r \in Refreshers :
                /\ UNCHANGED <<called, failed, now>>
                /\ fireHistory'["tight"] = fireHistory["tight"] /\ pc[r] = "breached"
                /\ \A s \in Refreshers \ {r} : pc'[s] = pc[s]
           \/ \E r \in Refreshers :
                /\ UNCHANGED <<called, failed, now>>
                /\ fireHistory'["tight"] = now[r] /\ pc[r] = "tight" /\ pc'[r] = "halve"
                /\ \A s \in Refreshers \ {r} : pc'[s] = pc[s]
           \/ \E r \in Refreshers, h \in Hooks :
                /\ UNCHANGED <<failed, fireHistory>> /\ pc[r] = h
                /\ called' = [called EXCEPT ![h][now[r]] = called[h][now[r]] + 1]
                /\ h = "freeze" => pc'[r] = "tight" /\ now'[r] = now[r]
                /\ h = "halve" => pc'[r] = "disable" /\ now'[r] = now[r]
                /\ \A s \in Refreshers \ {r} : pc'[s] = pc[s] /\ now'[s] = now[s]
           \/ \E r \in Refreshers, h \in Hooks :
                /\ failed' = failed \cup {<<h, now[r]>>} /\ UNCHANGED fireHistory /\ pc[r] = h
                /\ called' = [called EXCEPT ![h][now[r]] = called[h][now[r]] + 1]
                /\ \A s \in Refreshers \ {r} : pc'[s] = pc[s] /\ now'[s] = now[s]
  <1> USE DEF tracker, local, history
  <1>1. CASE UNCHANGED vars \/ Spend \/ MonthTurns
    BY <1>1 DEF vars, Spend, MonthTurns
  <1> DEFINE Result(r) ==
               /\ UNCHANGED <<called, failed, fireHistory>>
               /\ \A s \in Refreshers \ {r} : pc'[s] = pc[s] /\ now'[s] = now[s]
  <1>2. ASSUME NEW r \in Refreshers, Refresh(r)
        PROVE  Result(r) /\ pc[r] \in {"idle", "cache", "breached"}
    BY <1>2 DEF Refresh, TypeOK
  <1>3. ASSUME NEW r \in Refreshers, RefreshFails(r)
        PROVE  UNCHANGED <<called, failed, fireHistory, pc, now>>
    BY <1>3 DEF RefreshFails
  <1>4. ASSUME NEW r \in Refreshers, UpdateCache(r)
        PROVE  Result(r) /\ pc[r] \in {"idle", "cache", "breached"}
    BY <1>4 DEF UpdateCache, Goto, TypeOK
  <1>5. ASSUME NEW r \in Refreshers, NEW l \in Levels, FireSkip(r, l)
        PROVE  /\ Result(r)
               /\ pc[r] = "breached" \/ (pc[r] = "tight" /\ fireHistory["tight"] = now[r])
    BY <1>5 DEF FireSkip, Goto, TypeOK, Levels
  <1>6. ASSUME NEW r \in Refreshers, NEW l \in Levels, FireRecord(r, l)
        PROVE  /\ UNCHANGED <<called, failed, now>>
               /\ \A s \in Refreshers \ {r} : pc'[s] = pc[s]
               /\ \/ fireHistory'["tight"] = fireHistory["tight"] /\ pc[r] = "breached"
                  \/ fireHistory'["tight"] = now[r] /\ pc[r] = "tight" /\ pc'[r] = "halve"
    BY <1>6 DEF FireRecord, FirstHook, Goto, TypeOK, Levels
  <1>7. ASSUME NEW r \in Refreshers, NEW h \in Hooks, CallHook(r, h)
        PROVE  /\ UNCHANGED <<failed, fireHistory>> /\ pc[r] = h
               /\ called' = [called EXCEPT ![h][now[r]] = called[h][now[r]] + 1]
               /\ h = "freeze" => pc'[r] = "tight" /\ now'[r] = now[r]
               /\ h = "halve" => pc'[r] = "disable" /\ now'[r] = now[r]
               /\ \A s \in Refreshers \ {r} : pc'[s] = pc[s] /\ now'[s] = now[s]
    BY <1>7 DEF CallHook, Called, Goto, AfterHook, AfterLevel, TypeOK
  <1>8. ASSUME NEW r \in Refreshers, NEW h \in Hooks, HookFails(r, h)
        PROVE  /\ failed' = failed \cup {<<h, now[r]>>} /\ UNCHANGED fireHistory /\ pc[r] = h
               /\ called' = [called EXCEPT ![h][now[r]] = called[h][now[r]] + 1]
               /\ \A s \in Refreshers \ {r} : pc'[s] = pc[s] /\ now'[s] = now[s]
    BY <1>8 DEF HookFails, Called, Goto, TypeOK
  <1> QED BY <1>1, <1>2, <1>3, <1>4, <1>5, <1>6, <1>7, <1>8 DEF Next, Step

\* Every step preserves OnLadder.
LEMMA LadderStep == TypeOK /\ OnLadder /\ [Next]_vars => OnLadder'
  <1> SUFFICES ASSUME TypeOK, OnLadder, [Next]_vars, wired, NEW m \in Months, ~HookFailed(m)'
               PROVE  /\ fireHistory'["tight"] = m =>
                           TightDone(m)' \/ \E r \in Refreshers : Tightening(r, m)'
                      /\ called'["freeze"][m] > 0 =>
                           TightDone(m)' \/ \E r \in Refreshers :
                              Tightening(r, m)' \/ Approaching(r, m)'
    BY WiredStays DEF OnLadder
  <1>1. "tight" \in Levels /\ "halve" \in Hooks /\ "disable" \in Hooks /\ "freeze" \in Hooks
    BY DEF Levels, Hooks
  <1>2. /\ fireHistory["tight"] = m /\ ~HookFailed(m) =>
             TightDone(m) \/ \E r \in Refreshers : Tightening(r, m)
        /\ called["freeze"][m] > 0 /\ ~HookFailed(m) =>
             TightDone(m) \/ \E r \in Refreshers : Tightening(r, m) \/ Approaching(r, m)
    BY DEF OnLadder
  <1> USE DEF TightDone, Tightening, Approaching, HookFailed
  <1>3. CASE UNCHANGED <<called, failed, fireHistory, pc, now>>
    BY <1>2, <1>3
  <1>4. ASSUME NEW r \in Refreshers, UNCHANGED <<called, failed, fireHistory>>,
               pc[r] \in {"idle", "cache", "breached"}
                 \/ (pc[r] = "tight" /\ fireHistory["tight"] = now[r]),
               \A s \in Refreshers \ {r} : pc'[s] = pc[s] /\ now'[s] = now[s]
        PROVE  /\ fireHistory'["tight"] = m =>
                    TightDone(m)' \/ \E s \in Refreshers : Tightening(s, m)'
               /\ called'["freeze"][m] > 0 =>
                    TightDone(m)' \/ \E s \in Refreshers : Tightening(s, m)' \/ Approaching(s, m)'
    BY <1>2, <1>4
  <1>5. ASSUME NEW r \in Refreshers, UNCHANGED <<called, failed, now>>,
               \/ fireHistory'["tight"] = fireHistory["tight"] /\ pc[r] = "breached"
               \/ fireHistory'["tight"] = now[r] /\ pc[r] = "tight" /\ pc'[r] = "halve",
               \A s \in Refreshers \ {r} : pc'[s] = pc[s]
        PROVE  /\ fireHistory'["tight"] = m =>
                    TightDone(m)' \/ \E s \in Refreshers : Tightening(s, m)'
               /\ called'["freeze"][m] > 0 =>
                    TightDone(m)' \/ \E s \in Refreshers : Tightening(s, m)' \/ Approaching(s, m)'
    BY <1>2, <1>5
  \* A call: the counters grow, the caller goes on unless it failed for m.
  <1>6. ASSUME NEW r \in Refreshers, NEW h \in Hooks, UNCHANGED fireHistory, pc[r] = h,
               called' = [called EXCEPT ![h][now[r]] = called[h][now[r]] + 1],
               failed' = failed \cup {<<h, now[r]>>} \/
                 (/\ UNCHANGED failed
                  /\ h = "freeze" => pc'[r] = "tight" /\ now'[r] = now[r]
                  /\ h = "halve" => pc'[r] = "disable" /\ now'[r] = now[r]),
               \A s \in Refreshers \ {r} : pc'[s] = pc[s] /\ now'[s] = now[s]
        PROVE  /\ fireHistory'["tight"] = m =>
                    TightDone(m)' \/ \E s \in Refreshers : Tightening(s, m)'
               /\ called'["freeze"][m] > 0 =>
                    TightDone(m)' \/ \E s \in Refreshers : Tightening(s, m)' \/ Approaching(s, m)'
    <2>1. \A k \in Hooks :
             called'[k][m] = IF k = h /\ m = now[r] THEN called[k][m] + 1 ELSE called[k][m]
      BY <1>6 DEF TypeOK
    <2>2. /\ \A k \in Hooks : called[k][m] > 0 => called'[k][m] > 0
          /\ m = now[r] => called'[h][m] > 0
          /\ called'["freeze"][m] > 0 => called["freeze"][m] > 0 \/ (h = "freeze" /\ m = now[r])
      BY <1>1, <2>1, Numbers
    <2>3. CASE m # now[r]
      BY <1>1, <1>2, <1>6, <2>2, <2>3
    <2>4. CASE m = now[r]
      <3>1. /\ UNCHANGED failed
            /\ h = "freeze" => pc'[r] = "tight" /\ now'[r] = m
            /\ h = "halve" => pc'[r] = "disable" /\ now'[r] = m
        BY <1>6, <2>4
      <3>2. CASE h = "freeze"
        BY <1>1, <1>2, <1>6, <2>2, <2>4, <3>1, <3>2
      <3>3. CASE h = "halve"
        BY <1>1, <1>2, <1>6, <2>2, <2>4, <3>1, <3>3
      <3>4. CASE h = "disable"
        BY <1>1, <1>2, <1>6, <2>2, <2>4, <3>1, <3>4
      <3> QED BY <3>2, <3>3, <3>4 DEF Hooks
    <2> QED BY <2>3, <2>4
  <1> QED BY LadderMoves, <1>3, <1>4, <1>5, <1>6

-----------------------------------------------------------------------------
\* The types of the tracker, for every interleaving of Refresh.
THEOREM TypeCorrect == Spec => []TypeOK
  <1> QED BY InitInv, TypeStep, PTL DEF Spec

\* No hook is called twice for a month, for any number of goroutines that call
\* Refresh, unless a Refresh of an earlier month overwrote a later record.
THEOREM AtMostOnce == Spec => []HooksAtMostOnce
  <1>1. FiredOnce => HooksAtMostOnce
    BY DEF FiredOnce, HooksAtMostOnce
  <1>2. TypeOK /\ FiredOnce /\ Idle /\ [Next]_vars => TypeOK' /\ FiredOnce' /\ Idle'
    BY TypeStep, FiredStep, IdleStep
  <1> QED BY <1>1, <1>2, InitInv, PTL DEF Spec

\* A single goroutine that calls Refresh never overwrites a later record.
THEOREM SingleOrder == Spec => []SingleNeverCrosses
  <1>1. InClockOrder => SingleNeverCrosses
    BY DEF InClockOrder, SingleNeverCrosses
  <1>2. TypeOK /\ InClockOrder /\ [Next]_vars => TypeOK' /\ InClockOrder'
    BY TypeStep, ClockStep
  <1> QED BY <1>1, <1>2, InitInv, PTL DEF Spec

\* A month whose offspring are frozen gets the tight hooks too, unless one of
\* its hooks failed or somebody is still firing for it.
THEOREM Ladder == Spec => []LadderComplete
  <1>1. OnLadder /\ Idle => LadderComplete
    <2> SUFFICES ASSUME OnLadder, Idle, NEW m \in Months, called["freeze"][m] > 0, ~HookFailed(m),
                        \A r \in Refreshers : Firing(r) => now[r] # m
                 PROVE  TightDone(m)
      BY DEF LadderComplete, TightDone
    <2>1. wired
      BY DEF Idle, Hooks
    <2> QED BY <2>1 DEF OnLadder, Tightening, Approaching, Firing, Levels, Hooks
  <1>2. TypeOK /\ OnLadder /\ Idle /\ [Next]_vars => TypeOK' /\ OnLadder' /\ Idle'
    BY TypeStep, LadderStep, IdleStep
  <1> QED BY <1>1, <1>2, InitInv, PTL DEF Spec

=============================================================================
