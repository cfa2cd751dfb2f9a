# Verification of Cambrian

Cambrian is a Go program that runs a population of trading agents, evaluates
them once per epoch, kills, pauses or resumes them, reviews proposals for new
ones and keeps the spending of the whole within a monthly budget. This
directory holds TLA+ models of the parts of it that keep state and make
decisions, TLC configurations that check them on small instances, and TLAPS
proofs of what matters most for every instance.

## Inventory

| Component (source) | State | Operations | Hard behaviour |
|---|---|---|---|
| Circuit breaker (`runtime/circuit_breaker.go`) | atomic `halted`; `reason`, `trippedAt` under a mutex | Trip, Reset, EvaluateTriggers, Run/maybeReset | flag and pair are written in two steps; reset acts on a copy |
| Swarm runtime, lifecycle manager (`runtime/swarm.go`, `lifecycle.go`) | `agents.status` rows; Redis events; map of runner handles | Spawn, Kill, Pause, Resume, publish; LoadAndStart, Run, dispatch, stop, stopAll | lost events, events before the subscription, stop timeouts, crash and restart |
| Node runner (`runtime/node_runner.go`) | pause flag, goroutines of three loops, the task's positions | monitor tick, strategist cycle, heartbeat, close on exit | a tick in progress when the runner is cancelled |
| Epoch loop (`orchestrator/parent.go`, `db_store.go`, `cmd/swarm/main.go`) | tables agents, offspring_proposals, postmortems, epochs; the epoch's locals | load, policy, actions, offspring gates, postmortems, breaker, log | any call fails, the context expires, the process crashes; one stale snapshot |
| Lifecycle policy (`orchestrator/kill_pause.go`) | none | kill, pause, resume rules | boundaries, missing columns, precedence |
| Offspring review (`quality_check.go`, `adversarial.go`, `postmortem.go`) | none | LLM calls and their parsers | outages, replies that do not parse |
| Budget tracker (`orchestrator/budget.go`) | cached state and spend, month of each level's last firing | Refresh, fireOnce, Run | concurrent refreshes, failing hooks, turn of the month |
| Notifier and throttle (`notifications/`) | token bucket, last send per type, digest date | Allow, handleEvent, maybeFireDigest | failing sends, bursts, digest retries |
| Intelligence (`intelligence/`) | outcome windows, signal lists, knowledge graph | Ingest, Score, Publish, aggregate, decay | out-of-order outcomes, index consistency |
| Trading tasks (`agent/tasks/`) | open positions and local balances | RunTick, CloseAllPositions, AdjustParameters | a swap fails half-way |
| Economics (`economics.go`, `treasury.go`, `cost_attribution.go`) | ledgers, debts | Settle, Sweep, Attribute | waterfall order, zero and negative amounts |
| Strategist, bandit, learned rules (`agent/`) | bandit counts, rule list | cycle, Select, Update, Add | caps, malformed decisions |
| Scheduler, hibernation (`runtime/`) | semaphore, sleep window | Acquire, Release, IsAwake | leaked slots, boundaries of the window |
| Price cache and collector (`chain/prices.go`, `backtesting/price_collector.go`) | entries with age, pins, flights | Get, Invalidate, refresh | single flight against Invalidate |
| API and websocket hub (`api/`) | client set, send buffers | register, broadcast, unregister | double close of a slow client |
| Backtesting engine (`backtesting/engine.go`, `mock_chain.go`) | cursor, equity curve | Run, GetQuote, Passed | what a tick may know; what the curve counts |
| Evolution, chain and LLM clients, Redis, database, security, configuration | mostly none | pure functions or I/O | - |

How they interact: the epoch loop calls the lifecycle manager, which writes a
row and publishes an event; the swarm runtime of the same process receives the
event and starts, stops or pauses node runners, which write heartbeats and
trades that the next epoch reads. The breaker is meant to gate the runners and
the budget tracker to gate strategists and offspring; in `main.go` neither is
wired yet (`breakerAdapter` gives a verdict that is only logged). A runner drives
its task and its strategist; the strategist asks the aggregator for a snapshot
and adjusts the task. A backtest drives a task on recorded prices before an
offspring is reviewed. Notifier, hub and price cache run beside all this and
share no state with it or with each other.

What makes each part correct is stated by the properties below; `PROJECT.json`
lists under "hazards" what is hard to test, each at its line.

## Modules

**CircuitBreaker** models every atomic access of the breaker as a step of its
goroutine: the critical section of `mu`, the Load or Store of `halted`, the
comparison with the clock. `trippedAt` is an age that saturates at `Cooldown`,
the only thing the code asks of it. A *deployment* says which operations which
caller uses, so one specification covers the epoch loop alone (`SingleEvaluator`)
and manual overrides. The history variable `overlapped` records that a Trip or
Reset started while another was between its two writes.

**SwarmRuntime** models `LifecycleManager` (row, then event), the Redis
subscription (delivers to whoever is subscribed), the dispatcher and the runner
goroutines. `slot` is a pool of goroutines; `runners` the map of handles.
A runner goes from `staggered` over `looping` and `closing` to `done`; `inTick`
says that RunTick runs, and a tick may end in any of these phases: that it does
not outlive the loops is what the guard of `LoopsExit` (`g.Wait()`) achieves.
Crash and Exit lose everything but the rows. A subscription that fails makes Run
return without stopAll; the group in `main.go` then cancels the context every
runner inherits, but nobody waits for them (`SubscribeFails`). The strategist and
heartbeat loops change nothing that is modelled here: they only exit with the
monitor loop.

**RootOrchestrator** models `runEpochCron` and `RunEpoch`. The tables survive a
crash, the locals (`snaps`, `actions`, `queue`, `due`, ...) do not. Every call
has a failing alternative; `expired` makes all later calls of the epoch fail. An
UPDATE may also be committed and reported as failed (`ActionUnconfirmed`). The
policy, the drawdown fraction, the solvency gate and the verdict parsers are
operators; money is in dimes and fractions are in percent, so all comparisons
are exact. `StartEpoch` reads the tables in one step; the code reads them in
consecutive queries. Which agents' ledgers could not be read is a choice.

**BudgetTracker** models `Refresh` in any number of goroutines: the reading of
clock and store, the write of the cache, the locked decision of `fireOnce`, each
hook. Months are numbers; `fireHistory` is the month last recorded. A tracker
without hooks (`wired` false: `actions` is nil) records levels and calls nothing.
History: how often each hook was called for a month, and which calls `failed`.

**TaskBase** holds what the four trading tasks share: capital, configuration with
defaults, validation and clamping, the interval throttle. **Momentum**,
**LiquidityProvision**, **CrossChainYield** and **LiquidationHunting** each model
one task: Build, RunTick with every outcome of its chain calls, ApplyAdjustments
and CloseAllPositions. The mutex of a task makes an operation one step; a
liquidation tick alone is several steps, because midnight may pass between its
calls. Money is in whole dollars, fractions are in thousandths, a time stamp is
an age that saturates at the longest interval, and a price of the liquidity task
is given by its square root, so that impermanent loss is an integer quotient.
**Tasks** is the registry and the runner's view: one of the four is built and the
agent behaves as that kind. **PositionBook** is the abstract specification: free
and held capital that change only by opening, moving and closing, and always by
exactly what the trades report. Tasks maps `free` to `freeCapital` and `held` to
the capital of the open positions at cost; the history variable `booked` adds up
PnL less FeePaid of the trades, and `bullish` says that only momentum can gain.

**Backtest** extends Tasks with the engine that replays a tape of price rows:
sorting, the cursor, one RunTick per tick with the price the mock returns, the
equity curve with its peak and worst drop, and the verdict. The candidate is a
momentum task, the one that trades on quotes alone and goes flat by itself. The
builder is not in the repository: it is taken to seed the task with StartCapital
and to give it the cursor as its clock. Win rate and Sharpe ratio are reported
and decide nothing; no task calls ExecuteSwap of the mock.

**AccuracyTracker** keeps the outcomes of each source in the order of their
ingestion, with ages for dates; the history variable `fresh` is the definition
of the window. **KnowledgeGraph** has the two maps of the code, the edges and
the index; Decay removes faint edges one by one, as `removeLocked` does.
**Aggregator** is the path of a signal: Publish, the goroutine of
Subscribe, the feed (whose caller is glue outside the repository), and Summarize, which locks the feed once per channel and
the tracker once per signal, so outcomes arrive between its steps. A signal is
stamped by the bus or carries an age its publisher set (`Stamps`). **Kept** is
what is left of a list when elements are removed, as a recursive function that
proofs can open. **Intelligence** composes them. The graph meets the rest only where Summarize
reads it, and its content is a choice there, so a behaviour runs the graph, the
tracker, or tracker and aggregator together.

**StrategistLoop** models the strategist loops of several runners with the
scheduler's slots and their waiting list, the pause and halt flags, the sleep
schedule, cancel and restart, and a cycle: input, LLM call, parsing, the
adjustments key by key in any order, the decision row. Time is the phase of the
strategist interval. A ticker keeps one tick for a loop that is late.

**Throttle** is the token bucket, in parts of a token so that the refill is an
integer, with the cooldown per type. **Notifier** adds the loop: inbox, digest
ticker, and sends that fail or arrive although their answer is lost; a closed
subscription ends the loop for good, and a restart forgets everything. A notifier
without a digest provider (`main.go` sets none) is one whose provider always fails. **Hub** models the broadcast client by client under the read
lock, the handler and the reader of every client, and the panic of a second
close. **PriceCache** models Get with its shared flights, Invalidate, Pin, the
refresh loop and the collector; a price is the age of its quote. **Services**
puts the three side by side; they share nothing, so a behaviour runs one.

**xxxProofs** modules hold the theorems of a component (see Proofs).

**MCxxx** modules give the constants their values for TLC. Operators marked
"Variant" are small deviations from the definition that follows them; they are
not used by any specification and serve to confirm that the properties notice.

## Runs

| Run | Instance | Result |
|---|---|---|
| `breaker` | two callers and Run, cooldown 2, both deployments, every trigger met and missed by one | 40,721 states, all hold |
| `breaker_manual` | the manual deployment | `AutoResets` violated |
| `swarm` | two agents, two runner slots, three moves of the environment | 157,466 states, all hold |
| `swarm_resume` | an agent left paused by an earlier process, one move | `ResumeRestores` violated |
| `epoch` | a funded and a shadow agent, one proposal, two faults, unbounded epochs | 238,770 states, all hold |
| `epoch_healthy` | both agents healthy, no faults | `HealthyResumed` violated |
| `budget` | two refreshers with and without hooks, two months, spends at 0, 80 and 100 of 100, one error | 257,850 states, all hold |
| `budget_hooks` | one refresher, one month, one error | `TightActionsInPlace` violated |
| `tasks` | one agent of each kind, two dates, six adjustments; backtests of 3 candidates on all tapes of up to 3 rows and 4 longer ones | 468,933 states, all hold |
| `intelligence` | two sources, two channels, window 2, stamps 0 and 1, one tuple in three directions | 245,908 states, all hold |
| `strategist` | a funded and a shadow node, one slot, three kinds of answers | 342,912 states, all hold |
| `services` | three days with a cap of 2 an hour; two clients with room for one message; two readers, refresher and collector on one pair | 556,128 states, all hold |

*breaker*: the flag agrees with the locked pair unless two writes overlapped;
with a single evaluator they never overlap, the flag is not cleared before the
cooldown of the last trip is over, and it is cleared eventually.

*swarm*: no live runner is out of reach of its handle; once every event is
handled rows and handles agree, except for agents an event of which was lost;
no tick outlives its runner and positions are flat when it is done, unless closing
itself failed; a
delivered kill cancels its runner and a signal ends the process even if RunTick
hangs.

*epoch*: one postmortem per dead agent, none for the living; the columns of a
proposal never contradict each other; the logged counts are exact in epochs
without failures; death and decisions are final; an agent that stays unfit dies.

*budget*: hooks fire at most once per month unless a Refresh that began in an
earlier month writes late, which a single refresher cannot do; freezing implies
the tight hooks unless one failed; overspending halves strategists unless that
very call failed, whatever else failed before it; the cached state settles.

*tasks*: every task implements PositionBook (`BookRefined`): after every tick,
adjustment and close, free and deployed capital add up to the seed plus the PnL
less the fees of the trades made, to the dollar; no kind but momentum gains;
quotas hold per date across midnights; momentum measures its breakout against
the whole window unless an adjustment lengthened the interval; no protocol holds
more than its cap; every successful liquidation is reported although others
fail. A replay never uses a later price, and a candidate that passes and ends
flat has made money and never fell to half of its capital between two positions.
With a position open at the end the verdict says nothing, because the curve
counts it twice.

*intelligence*: scores count the window when outcomes come in order, and no
outcome is dropped before its time in any order; the index of the graph is exact;
the audit of a snapshot names the sources it shows, with a weight applied to them;
edges nobody confirms disappear.

*strategist*: nobody waits for a slot forever; a node that is left alone and
whose ticker is aligned with its sleep schedule has cycles forever, despite
contention; a decision row that lists changes does not claim one that failed.

*services*: fewer than twice the hourly cap in any hour, failed sends, digests
and events together; one digest per date except for lost answers and restarts;
no message of the hub is lost, doubled or reordered for a client that was not
told to go, and a client that was does leave, unless a double close has brought
down the process; no price older than TTL and call timeout together; none from
before an Invalidate that met no flight.

The four violations are disagreements between comment and code; `PROJECT.json`
quotes both sides under "findings", with those that need no run: what the
passing runs had to except in order to hold is among them, and the note of a
hazard says where a property makes such an exception.

`TypeOK` of breaker, runtime, epoch loop, budget tracker and strategist loop is
proved; no run repeats it.

### Bounds

`Cooldown = 2` distinguishes fresh, part-way and over. `MaxMoves = 3` allows
spawn, pause, resume or kill sequences with a failure or crash among them, on
one agent or across two, while the other runner keeps the dispatcher waiting;
`MaxSlots = 2` blocks a third goroutine, so a new runner beside an abandoned one
is reached for one agent at a time. `MaxFaults = 2` allows a failure and a crash
in one epoch or a failure in each of two; the number of epochs is not bounded.
Two months and one error are enough for a late Refresh and for a failing hook.

Tasks: `MaxInterval = 2` tells apart an interval that has passed and one that has
not; three prices break out, fall back and hit the stop; one midnight separates
two quotas; the rate tables contain a better chain, one protocol twice, and
nothing; two lending protocols with up to two positions let one fail after
another. Tapes of three rows cover every order and every coincidence of times;
the longer ones contain a gain, a crash and a recovery.
Intelligence: up to four outcomes of two sources, in any order, in a window of
two days; signals that are fresh or a unit old when they are published; two
payloads in flight against a channel of capacity one; one tuple is enough for the
index, whose entries are per tuple.
Strategist: one slot and two nodes is the smallest contention; the list then never
has more than one waiter, so the run does not exercise the order of service, which
the model takes from `semaphore.Weighted` (first come, first served). An interval of three with a window of two has aligned and
misaligned phases.
Services: a cap of two in an hour of three units lets the bucket be empty, part
full and full; one restart and three days give a digest before, during and after
a failure; a send channel of one makes a client slow at once; three messages let
a client be dropped and hit again. TTL and timeout of two units let a flight
outlive an entry and an Invalidate.

### Fairness

Only what the scheduler and the timers give: a goroutine inside straight-line
code goes on, a ticker fires again, a select with a timer ends. No caller is
obliged to call; RunTick is not assumed to return; no fault is obliged to occur
or to stop except by its bound; contexts end LLM calls that hang
(`runEpochCron`, 15 minutes).

Intelligence: the decay job's ticker fires and days pass; nobody has to publish
or confirm. Strategist: a loop that can go on does, and time passes. LLM calls
have timeouts; the insert of the decision row runs under the runner's context,
which has none (`strategist.go:216`): that it ends is an assumption. Slots need no
fairness of their own, for `semaphore.Weighted` serves in order of arrival. Swarm:
Run either subscribes or fails to. Hub: its goroutine goes on with a broadcast,
and handler and reader of a client run: a write has a deadline and a ping finds a
peer that left; nobody has to connect or to publish. Tasks, notifier and prices
have safety properties only and no fairness.

Deadlock is checked in every run but `tasks`, where a backtest ends, and
`services`, where the messages and days are used up or the process has panicked.

## Proofs

Every safety invariant and every action property that a passing run checks is
also a theorem, the refinement of PositionBook included; what the runs alone
show is liveness. All theorems hold for every value of the constants that satisfies the
named ASSUMEs of the component's modules: no bound on callers, agents, proposals,
months, faults, messages, samples or rows. The assumptions are what the program
gives its parts (sets of agents and nodes are finite, configuration fields are
integers, durations are positive, graphs are finite) or say that a marker for
"nothing" is none of the values it stands beside. Each theorem rests on an inductive
invariant `Inv` with `Init => Inv`, `Inv /\ [Next]_vars => Inv'` and
`Inv => property`; the bounds of the runs are guards of the models, with any
natural number for the bound.

**CircuitBreakerProofs**, from `Cooldown >= 1`, a Runner that is no caller, and
deployments that are sets of operations. `BreakerInv` is `TypeOK` with

- `ArgSet`: who is about to enter Trip carries a reason (or the pair could be
  half set);
- `WindowInv`: while no two writes overlapped, at most one goroutine is between
  its two writes and the pair already shows what it is going to store. The
  coherence property speaks of quiescent states only, so it says nothing about
  the state one write before; this does;
- `SingleInv`: with a single evaluator the flag excludes: the evaluator is in
  Trip only while it is down, the reset loop in maybeReset only while it is up,
  and the copy of `trippedAt` that maybeReset compares is still current.

It gives `TypeCorrect`, `Coherence` (CoherentUnlessOverlapped), `NoOverlap`
(SingleEvaluatorNeverOverlaps) and `Cooldowns` (the action property
CooldownRespected).

**RootOrchestratorProofs**. `EpochInv` is the conjunction of

- `TablesOK`, the types the argument needs;
- `PlanFits`: what an epoch still has to do fits the tables, that is, every
  action left is for an agent that is alive, at most one per agent, every
  proposal left is pending. This is why one stale snapshot per epoch is safe: it
  follows from the policy (`PlanOne`) when the epoch starts and is kept because
  each action and proposal is dealt with once;
- `Accounted`: a dead agent has its one postmortem, is due for it, or is in the
  history variable `lost`;
- `ProposalRowsConsistent`, inductive by itself given what a decision looks like
  (`DecisionShape`).

It gives `Postmortems`, `ProposalRows` and the action properties `DeathIsFinal`
and `DecisionsAreFinal`. Two more invariants stand beside it:

- `CountsInv`: the log counts the plan, the tables show the outcome. While no call
  of the epoch has failed, the dead are the agents of the kills executed so far
  (`DeathsAsPlanned`), and every approval made one row approved that has left the
  queue (`SpawnsAsDecided`); a bijection between kills and dead agents then gives
  `LoggedCounts`, the exactness of both numbers;
- `TypeInv`: `TypeOK` and one planned action per agent, without which the number
  of kills need not be a number. It gives `TypeCorrect`; the drawdown that the
  policy compares is shown to be a percentage on the way (`DrawdownRange`).

**BudgetTrackerProofs**, from `MaxMonth >= 1` and spends that are naturals. Three
invariants, each inductive together with `TypeOK`:

- `FiredOnce`: while no record was overwritten by an earlier month, a hook was
  called at most once per month and only for months up to its level's record;
  whoever is on the way to a hook has a month nobody else has for that level, and
  the hook was not called for it. This is the argument for deciding under the
  lock and calling outside it;
- `InClockOrder`: records and readings are not ahead of the clock, and the
  reading of a lone refresher is not behind any record;
- `OnLadder`: the tight hooks of a month that is recorded or frozen are done, or
  somebody is on the way to them, or a hook failed (`Idle`: without hooks nothing
  is called at all).

They give `TypeCorrect`, `AtMostOnce` (HooksAtMostOnce), `SingleOrder`
(SingleNeverCrosses) and `Ladder` (LadderComplete).

**SwarmRuntimeProofs**, for any finite set of agents, any rows an earlier process
may have left, and slots enough for every agent. Beside `TypeOK`:

- `FlatInv`: a runner that has not started its loops or has ended without a
  failure holds nothing, and only a looping runner is inside a tick. The second
  part is the work of `g.Wait` and carries the first over a tick that ends late;
  together they give `FlatWhenDoneHolds`;
- `HandlesInv`: a handle points to a runner of its own agent that nobody is
  waiting for and, while the process runs, nobody has cancelled; a process that is
  down has none. Only so can `NoOrphanRunner` be kept when a stop gives up waiting
  and the next event starts a runner beside the abandoned one;
- `AgreementInv`: `QuiescentAgreement` speaks of states without events. What holds
  in between is that the last event on its way to an agent says what its row is,
  a spawn is the first one and finds no handle, and an agent without events agrees
  (`QueueAgrees`). The event that is written and not yet published counts as last.

**StrategistLoopProofs**, for any finite set of nodes. `LoopInv` is `TypeOK` with
`WaitingExact` (the waiting list of the semaphore has exactly the nodes that
wait, once each), `SlotsExact` (no more slots are held than there are, and none
is free while somebody waits), `CyclesOK` (a cycle under way has no row yet and
its changes landed as the task takes them) and the property. It gives
`TypeCorrect`, `Slots`, `WaitingList` and `Rows` (RowsTellWhatLanded).

**TasksProofs** is about `BacktestSpec`, whose behaviours are those of a live task
and those of a replayed one. `EngineOK` and `ConfigOK` say what engine and
configuration keep (valid fields, a sorted tape, an age within the longest
interval). On top of them:

- `DailyOK`: the count belongs to the last date on which a tick began and equals
  what was done on it, nothing was done later. It gives `QuotaHolds`, an action
  property, although a liquidation tick may begin before midnight and end after;
- `ReportOK`: what was reported and what the tick in progress has to report add up
  to what was done on all dates, which gives `SeizuresHold`;
- `BookOK`: capital is a natural number and every open position can be closed
  (momentum has a sample, liquidity a price, yield has equal shares within the
  cap in force at the last move). It gives `CapHolds` and `BookRefinement`: each
  step of each kind is Open, Move, Close or a stutter of PositionBook, and changes
  the capital by what it adds to `booked`;
- `WindowOK`: the buffer ends with the samples of the window, whose ages fall, lie
  an interval apart and are at least as old as the last check, so the window never
  has more samples than the buffer has room for. It gives `WindowHolds`. Without
  the spacing it is not inductive, and an interval that was lengthened breaks the
  spacing: hence the exception in the property;
- `LookOK`: a replayed tick is marked once, at the price known by then, which gives
  `NoLookAheadHolds`; `EarnOK`: the closed profits explain the capital, the curve
  shows it whenever nothing is open, and a halving is a drop of 500 thousandths.
  It gives `PassIsEarned`.

**IntelligenceProofs**. `TrackerOK`: the outcomes of the window are those the
history variable defines, and evicting a prefix of expired ones removes none of
them; it gives `Scores` (ScoreWindow). `GraphOK`: the index has a list for every
tuple with an edge, of exactly its directions, each once; every insertion,
removal and decay (tuple by tuple, `TuplePruned`) keeps it, which gives `Index` (IndexExact). `AuditInv`: the
digests of a Summarize in progress carry the present weight of their sources
unless an outcome or a day disturbed it; reading a score evicts and does not
change it, because eviction is idempotent. It gives `Audits` (AuditExact).

**ServicesProofs**. `ThrottleInv`: what was admitted in the last units and what
the bucket holds now came out of a full bucket and the refill of these units;
it gives `HourlyBoundHolds`. `DigestInv`: a digest on its way, or one that may still be
due, has a copy to spare, and no date passes without a digest or an excuse; it
gives `DigestOncePerDayHolds`. The attempt to prove it showed that a restart while
a digest is under way past midnight excuses the date of that digest and not
only the date of the restart; the history variable `excused` says so now. `HubInv`:
what a client got and what its channel holds, together, are the messages since it
joined, up to the broadcast that has reached it (`NoGapUnlessDroppedHolds`).
`PriceInv`: a quote was at most one call old when it was stored and is younger than
the last Invalidate that met no flight (`QuoteAgeBoundedHolds`,
`InvalidateForgetsHolds`).

*Induction over data.* The library states induction for an operator parameter,
which the provers cannot instantiate. Where an argument goes over a list or a
number (sums over dates, what is kept of a list, insertion into a sorted tape),
the proofs use induction over a *set* instead (`NatInd`, `SeqInd`, `Least`): the
counterexamples form a set of naturals that would have a least member. This is
why those definitions are recursive functions or folds over a fixed set.

*Left to TLC*: liveness under fairness (`AutoResetsSingle`, `KillDelivered`,
`ShutdownCompletes`, `UnfitEventuallyDead`, `OverspendHalves`, `CacheSettles`,
`UnconfirmedForgotten`, `WaitersServed`, `StrategistKeepsRunning`,
`ClientsLeave`) and anything with ENABLED. The four
violated properties are of this kind too.

## Not modelled

- Chain and LLM clients, the Redis client, migrations: I/O without state of their
  own. What their callers see of them (failure, timeout, an answer that is lost,
  at-most-once delivery) is in the models of the callers.
- Economics and treasury: Settle, ComputeSweep and Attribute have no caller in
  the repository; each is arithmetic on one row.
- Evolution: random perturbation of floating-point configurations, without state
  and without a caller. What a configuration may be is checked when a task is
  built (Tasks), and proposals are reviewed in RootOrchestrator.
- Bandit and learned rules: no caller; a table of counts and a capped list.
- API handlers other than the websocket: read-only queries.
- Security and configuration: cryptography, string scrubbing, environment
  parsing.
- Promote and Demote change a class column and publish on channels nobody
  subscribes to. The breaker and hibernation gates are optional and never set by
  `startFromRow`; StrategistLoop models them as the runner would use them.
- Formatters, log output, state summaries and statistics are wording.
- Backtests of the other three kinds: the mock reports no yields and no lending
  positions, so two of them never trade, and a liquidity position is always
  open at the end, where the verdict says nothing.

## Plan

The safety side is proved. What is left:

1. The safety parts of the liveness arguments, as theorems: that an event
   delivered is a handle cancelled (KillDelivered), that a node first in the
   waiting list gets the next slot (WaitersServed), that an unfit agent has a kill
   in every plan (UnfitEventuallyDead).
2. An abstract specification of the lifecycle (rows and the runners they ask for)
   that SwarmRuntime implements between quiescent states.
3. More of the database queries, when callers of them appear.
