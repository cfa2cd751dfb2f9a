--------------------------- MODULE BudgetTracker ----------------------------
(***************************************************************************)
(* The monthly budget ladder of internal/orchestrator/budget.go.  Refresh   *)
(* reads the clock and the store, then writes the cache under mu, then      *)
(* decides under mu whether the hooks of a level have fired this month, and *)
(* calls them outside the lock.  Refresh may run in several goroutines (Run *)
(* is one of them), so every such access is a step of its own.              *)
(***************************************************************************)
EXTENDS Integers

CONSTANTS
    Refreshers,        \* goroutines that call Refresh
    MonthlyBudget,     \* BudgetConfig.MonthlyBudgetUSD
    TightPct,          \* 100 * TightThreshold
    BreachedPct,       \* 100 * BreachedThreshold
    SpendLevels,       \* month-to-date spends the store may report
    MaxMonth,          \* bound: calendar months, from 1
    MaxErrors          \* bound: failures of the store and of the hooks

ASSUME BudgetAssumption == MonthlyBudget \in Nat \ {0}
ASSUME ThresholdAssumption ==
    TightPct \in Nat \ {0} /\ BreachedPct \in Nat /\ TightPct < BreachedPct
ASSUME SpendAssumption == SpendLevels \subseteq Nat /\ 0 \in SpendLevels
ASSUME BoundsAssumption == MaxMonth \in Nat \ {0} /\ MaxErrors \in Nat

Months == 1 .. MaxMonth
Never == 0
Levels == {"tight", "breached"}
Hooks == {"halve", "disable", "freeze"}

VARIABLES
    live,        \* the goroutines that do call Refresh; never changes
    wired,       \* is there a BudgetActions? NewBudgetTracker takes nil; never changes
    month,       \* the clock, as far as monthOf distinguishes it
    spend,       \* the store: spend of the current month so far
    cachedState, \* BudgetTracker.cachedState
    cachedSpend, \* BudgetTracker.cachedSpend
    fireHistory, \* BudgetTracker.fireHistory, as months
    pc,          \* where each goroutine is inside Refresh
    now,         \* Refresh's local clock reading
    read,        \* Refresh's local spend
    called,      \* history: how often each hook was called for each month
    errors,      \* failures so far
    failed,      \* history: the hooks that returned an error, each with its month
    crossed      \* history: did a Refresh fire for a month already passed?

tracker == <<cachedState, cachedSpend, fireHistory>>
local == <<pc, now, read>>
history == <<called, failed, crossed>>
vars == <<live, wired, month, spend, tracker, local, errors, history>>

\* "breached" and "tight": at the call of fireOnce for that level.
\* "freeze", "halve" and "disable": at the call of that hook.
PCs == {"idle", "cache"} \cup Levels \cup Hooks
Firing(r) == pc[r] \in Levels \cup Hooks

Init ==
    /\ live \in SUBSET Refreshers /\ wired \in BOOLEAN
    /\ month = 1
    /\ spend = 0
    /\ cachedState = "healthy" /\ cachedSpend = 0
    /\ fireHistory = [l \in Levels |-> Never]
    /\ pc = [r \in Refreshers |-> "idle"]
    /\ now = [r \in Refreshers |-> 1]
    /\ read = [r \in Refreshers |-> 0]
    /\ called = [h \in Hooks |-> [m \in Months |-> 0]]
    /\ errors = 0 /\ failed = {} /\ crossed = FALSE

\* A goroutine moves on; the local clock reading dies with the call.
Goto(r, label) ==
    /\ pc' = [pc EXCEPT ![r] = label]
    /\ now' = IF label = "idle" THEN [now EXCEPT ![r] = 1] ELSE now

Error == errors < MaxErrors /\ errors' = errors + 1

\* spend >= MonthlyBudget * threshold, in percent.
classify(s) ==
    CASE 100 * s >= MonthlyBudget * BreachedPct -> "breached"
      [] 100 * s < MonthlyBudget * BreachedPct /\ 100 * s >= MonthlyBudget * TightPct -> "tight"
      [] OTHER -> "healthy"

-----------------------------------------------------------------------------
(* Refresh.                                                                 *)

\* The clock, and the store's answer for the month of that reading.
Refresh(r) ==
    /\ pc[r] = "idle" /\ r \in live
    /\ now' = [now EXCEPT ![r] = month]
    /\ read' = [read EXCEPT ![r] = spend]
    /\ pc' = [pc EXCEPT ![r] = "cache"]
    /\ UNCHANGED <<live, wired, month, spend, tracker, errors, history>>

\* The store fails: Refresh returns and the cache keeps what it had.
RefreshFails(r) ==
    /\ pc[r] = "idle" /\ r \in live /\ Error
    /\ UNCHANGED <<live, wired, month, spend, tracker, local, history>>

\* Variant: the cached state never improves.
UpdateCacheRatchets(r) ==
    /\ pc[r] = "cache"
    /\ cachedSpend' = read[r]
    /\ cachedState' = IF classify(read[r]) = "healthy" THEN cachedState ELSE classify(read[r])
    /\ Goto(r, IF classify(read[r]) = "healthy" THEN "idle" ELSE classify(read[r]))
    /\ read' = [read EXCEPT ![r] = 0]
    /\ UNCHANGED <<live, wired, month, spend, fireHistory, errors, history>>

\* The cache is written; then fireOnce is called for the level, if any.
UpdateCache(r) ==
    /\ pc[r] = "cache"
    /\ cachedSpend' = read[r]
    /\ cachedState' = classify(read[r])
    /\ Goto(r, IF classify(read[r]) = "healthy" THEN "idle" ELSE classify(read[r]))
    /\ read' = [read EXCEPT ![r] = 0]
    /\ UNCHANGED <<live, wired, month, spend, fireHistory, errors, history>>

\* Variant: Refresh returns after breached.
AfterLevelReturns(level) == "idle"

\* What follows a level: Refresh fires tight after breached.
AfterLevel(level) == IF level = "breached" THEN "tight" ELSE "idle"

\* What fireOnce does for a level it has just recorded.
FirstHook(level) ==
    IF ~wired THEN AfterLevel(level) ELSE IF level = "breached" THEN "freeze" ELSE "halve"

\* fireOnce finds that the level has fired in the month of now.
FireSkip(r, level) ==
    /\ pc[r] = level /\ fireHistory[level] = now[r]
    /\ Goto(r, AfterLevel(level))
    /\ UNCHANGED <<live, wired, month, spend, tracker, read, errors, history>>

\* Variant: the level is not recorded.
FireRecordForgets(r, level) ==
    /\ pc[r] = level /\ fireHistory[level] # now[r]
    /\ Goto(r, FirstHook(level))
    /\ UNCHANGED <<live, wired, month, spend, tracker, read, errors, history>>

\* Variant: the month after now is recorded.
FireRecordNextMonth(r, level) ==
    /\ pc[r] = level /\ fireHistory[level] # now[r]
    /\ fireHistory' = [fireHistory EXCEPT ![level] = now[r] + 1]
    /\ crossed' = (crossed \/ fireHistory[level] > now[r])
    /\ Goto(r, FirstHook(level))
    /\ UNCHANGED <<live, wired, month, spend, cachedState, cachedSpend, read, errors,
                   called, failed>>

\* fireOnce records the level, then goes on to call the hooks if there are any.
FireRecord(r, level) ==
    /\ pc[r] = level /\ fireHistory[level] # now[r]
    /\ fireHistory' = [fireHistory EXCEPT ![level] = now[r]]
    /\ crossed' = (crossed \/ fireHistory[level] > now[r])
    /\ Goto(r, FirstHook(level))
    /\ UNCHANGED <<live, wired, month, spend, cachedState, cachedSpend, read, errors,
                   called, failed>>

Called(r, hook) == called' = [called EXCEPT ![hook][now[r]] = @ + 1]

\* What follows a hook that succeeded.
AfterHook(hook) ==
    CASE hook = "halve" -> "disable"
      [] hook = "disable" -> AfterLevel("tight")
      [] OTHER -> AfterLevel("breached")

CallHook(r, hook) ==
    /\ pc[r] = hook /\ Called(r, hook)
    /\ Goto(r, AfterHook(hook))
    /\ UNCHANGED <<live, wired, month, spend, tracker, read, errors, failed, crossed>>

\* A hook fails: fireOnce and Refresh return at once.
HookFails(r, hook) ==
    /\ pc[r] = hook /\ Error /\ Called(r, hook)
    /\ failed' = failed \cup {<<hook, now[r]>>}
    /\ Goto(r, "idle")
    /\ UNCHANGED <<live, wired, month, spend, tracker, read, crossed>>

-----------------------------------------------------------------------------
\* Agents spend, and refunds or corrections lower the sum again.
Spend ==
    /\ spend' \in SpendLevels
    /\ UNCHANGED <<live, wired, month, tracker, local, errors, history>>

MonthTurns ==
    /\ month < MaxMonth
    /\ month' = month + 1
    /\ spend' = 0
    /\ UNCHANGED <<live, wired, tracker, local, errors, history>>

Step(r) ==
    \/ UpdateCache(r)
    \/ \E level \in Levels : FireSkip(r, level) \/ FireRecord(r, level)
    \/ \E hook \in Hooks : CallHook(r, hook) \/ HookFails(r, hook)

Next ==
    \/ \E r \in Refreshers : Refresh(r) \/ RefreshFails(r) \/ Step(r)
    \/ Spend \/ MonthTurns

Spec == Init /\ [][Next]_vars

\* The ticker of Run calls Refresh again and again, and Refresh returns.
FairSpec == Spec /\ \A r \in Refreshers : WF_vars(Refresh(r)) /\ WF_vars(Step(r))

-----------------------------------------------------------------------------
Levelled == {"healthy"} \cup Levels

TypeOK ==
    /\ live \subseteq Refreshers /\ wired \in BOOLEAN
    /\ month \in Months
    /\ spend \in SpendLevels
    /\ cachedState \in Levelled /\ cachedSpend \in SpendLevels
    /\ fireHistory \in [Levels -> Months \cup {Never}]
    /\ pc \in [Refreshers -> PCs]
    /\ now \in [Refreshers -> Months]
    /\ read \in [Refreshers -> SpendLevels]
    /\ called \in [Hooks -> [Months -> Nat]]
    /\ errors \in 0 .. MaxErrors
    /\ failed \subseteq Hooks \X Months /\ crossed \in BOOLEAN

\* "OnTight fires at most once per month, and OnBreached fires at most once
\* per month" (budget.go 148-151), whatever the spend does and however many
\* goroutines refresh, unless a Refresh that read the clock in an earlier
\* month overwrote the record of a later one.
HooksAtMostOnce ==
    ~crossed => \A h \in Hooks, m \in Months : called[h][m] <= 1

\* Run alone never does that: a single refresher fires in clock order, so
\* turning the month cannot make a hook fire twice.
SingleNeverCrosses == (\A r, s \in live : r = s) => ~crossed

HookFailed(m) == \E h \in Hooks : <<h, m>> \in failed

\* "Breached implies tight" (budget.go 178-180): once offspring are frozen for
\* a month, no hook has failed and nobody is firing for that month, the
\* tight hooks have been called too.
LadderComplete ==
    \A m \in Months :
        (/\ called["freeze"][m] > 0 /\ ~HookFailed(m)
         /\ \A r \in Refreshers : Firing(r) => now[r] # m)
            => called["halve"][m] > 0 /\ called["disable"][m] > 0

Overspent(m) == month = m /\ classify(spend) # "healthy"

\* A month that stays overspent gets its strategists halved, unless the call
\* that halves them fails itself: neither a failing freeze, which ends the
\* Refresh that meets the breach first, nor a failing store, nor a second
\* Refresh that finds the level recorded loses it (budget.go 166-190, 233-262).
OverspendHalves ==
    \A m \in Months :
        (/\ live # {} /\ wired
         /\ <>[]Overspent(m)
         /\ [](<<"halve", m>> \notin failed)) => <>(called["halve"][m] > 0)

\* When the spend no longer changes, State settles on its level: a slow
\* Refresh may overwrite the cache with an older reading, but not for ever.
CacheSettles ==
    \A m \in Months, s \in SpendLevels :
        (live # {} /\ <>[](month = m /\ spend = s)) => <>[](cachedState = classify(s))

\* "ensure the tight actions are also in place" (budget.go 178-179) and the
\* hooks fire "exactly once per month per threshold" (budget.go 79-80): a
\* month that stays overspent gets the shadow strategists disabled.
TightActionsInPlace ==
    \A m \in Months :
        (live # {} /\ wired /\ <>[]Overspent(m)) => <>(called["disable"][m] > 0)

=============================================================================
