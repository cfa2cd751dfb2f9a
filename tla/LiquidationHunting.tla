------------------------- MODULE LiquidationHunting -------------------------
(***************************************************************************)
(* The liquidation_hunting task (internal/agent/tasks/                      *)
(* liquidation_hunting.go).  RunTick asks the chain for the positions of    *)
(* one protocol after another and liquidates those that pass the filters,   *)
(* up to a daily quota.  Each call to the chain takes time and may fail, so *)
(* a tick is several steps; the mutex is held throughout, so nothing else   *)
(* of the task runs between them, but midnight may pass.                    *)
(***************************************************************************)
EXTENDS TaskBase, FiniteSetsExt

CONSTANTS
    NumProtocols, \* cfg.Protocols, visited in order
    Lendings,     \* lending positions the chain may report: [hf, collateral, bonus]
    MaxLendings,  \* bound: positions of one protocol
    MaxDay,       \* bound: midnights that pass
    NoDay         \* the empty dailyDate

VARIABLES
    day,        \* the UTC date
    dailyDate,  \* the date dailyTotal belongs to
    dailyTotal, \* dailyCount: successful liquidations counted for dailyDate
    tick,       \* RunTick in progress: [proto, todo, out, err] or NoTick
    reported,   \* history: liquidations whose trades RunTick returned
    done        \* history: successes by the date of the tick that made them

lhVars == <<freeCapital, booked, cfg, position, checkAge, day, dailyDate, dailyTotal,
            tick, reported, done>>

NoTick == [proto |-> 0, todo |-> <<>>, out |-> 0, err |-> FALSE]

LHDefaults ==
    [hf |-> 1000, interval |-> 1, maxDaily |-> 20, minProfit |-> 5, maxSize |-> 10000]

LHEnvelope ==
    [minProfit |-> [lo |-> 0, hi |-> 100000],
     hf        |-> [lo |-> 500, hi |-> 1500],
     maxDaily  |-> [lo |-> 1, hi |-> 1000],
     interval  |-> [lo |-> 1, hi |-> MaxInterval]]

\* A chain, a protocol or more, numbers in range, a limit of the size and a
\* floor of capital.
LHValid(c) ==
    /\ c.named = 1
    /\ Validate(c, LHEnvelope)
    /\ c.maxSize > 0 /\ c.minCapital >= 0

LHInit ==
    /\ day = 0 /\ dailyDate = NoDay /\ dailyTotal = 0
    /\ tick = NoTick
    /\ reported = 0
    /\ done = [d \in 0 .. MaxDay |-> 0]

Free == tick = NoTick

DailyBase == IF dailyDate \in {NoDay, day} THEN dailyTotal ELSE 0

\* The head of RunTick: the count turns over with the date, the interval, the
\* capital and the quota are checked, and the first protocol is next.
LHTick ==
    /\ Free
    /\ dailyDate' = day /\ dailyTotal' = DailyBase
    /\ checkAge' = IF Due THEN 0 ELSE checkAge
    /\ tick' = IF Due /\ freeCapital >= cfg.minCapital /\ DailyBase < cfg.maxDaily
               THEN [NoTick EXCEPT !.proto = 1] ELSE NoTick
    /\ UNCHANGED <<freeCapital, booked, cfg, position, day, reported, done>>

Visit(proto) == [tick EXCEPT !.proto = proto + 1]

AtRisk(pos) == pos.hf < cfg.hf

\* bonus is in basis points, the collateral amount is taken for dollars.
Eligible(pos) ==
    /\ AtRisk(pos)
    /\ pos.collateral <= cfg.maxSize
    /\ pos.collateral * pos.bonus >= cfg.minProfit * 10000

\* GetLendingPositions of the next protocol answers.
ListProtocol ==
    /\ tick.proto \in 1 .. NumProtocols /\ tick.todo = <<>>
    /\ \E n \in 0 .. MaxLendings : \E answer \in [1 .. n -> Lendings] :
         tick' = [Visit(tick.proto) EXCEPT !.todo = answer]
    /\ UNCHANGED <<freeCapital, booked, cfg, position, checkAge, day, dailyDate, dailyTotal,
                   reported, done>>

ListProtocolFails ==
    /\ tick.proto \in 1 .. NumProtocols /\ tick.todo = <<>>
    /\ tick' = [Visit(tick.proto) EXCEPT !.err = TRUE]
    /\ UNCHANGED <<freeCapital, booked, cfg, position, checkAge, day, dailyDate, dailyTotal,
                   reported, done>>

\* A position that does not pass the filters is skipped; an exhausted quota
\* ends the walk over this protocol's positions.
SkipPosition ==
    /\ tick.todo # <<>>
    /\ ~Eligible(Head(tick.todo)) \/ dailyTotal >= cfg.maxDaily
    /\ tick' = [tick EXCEPT !.todo = IF Eligible(Head(@)) THEN <<>> ELSE Tail(@)]
    /\ UNCHANGED <<freeCapital, booked, cfg, position, checkAge, day, dailyDate, dailyTotal,
                   reported, done>>

\* Variant: the quota is only checked at the head of the tick.
LiquidateUnlimited ==
    /\ tick.todo # <<>>
    /\ Eligible(Head(tick.todo))
    /\ dailyTotal' = dailyTotal + 1
    /\ done' = [done EXCEPT ![dailyDate] = @ + 1]
    /\ tick' = [tick EXCEPT !.todo = Tail(@), !.out = @ + 1]
    /\ UNCHANGED <<freeCapital, booked, cfg, position, checkAge, day, dailyDate, reported>>

\* ExecuteLiquidation succeeds and is counted for the date of the tick.
Liquidate ==
    /\ tick.todo # <<>>
    /\ Eligible(Head(tick.todo)) /\ dailyTotal < cfg.maxDaily
    /\ dailyTotal' = dailyTotal + 1
    /\ done' = [done EXCEPT ![dailyDate] = @ + 1]
    /\ tick' = [tick EXCEPT !.todo = Tail(@), !.out = @ + 1]
    /\ UNCHANGED <<freeCapital, booked, cfg, position, checkAge, day, dailyDate, reported>>

\* It fails, with an error or with a result that says so.
LiquidateFails ==
    /\ tick.todo # <<>>
    /\ Eligible(Head(tick.todo)) /\ dailyTotal < cfg.maxDaily
    /\ \E isError \in BOOLEAN :
         tick' = [tick EXCEPT !.todo = Tail(@), !.err = @ \/ isError]
    /\ UNCHANGED <<freeCapital, booked, cfg, position, checkAge, day, dailyDate, dailyTotal,
                   reported, done>>

\* Variant: an error hides the trades of the tick.
LHReturnError ==
    /\ tick.proto > NumProtocols /\ tick.todo = <<>>
    /\ reported' = IF tick.err THEN reported ELSE reported + tick.out
    /\ tick' = NoTick
    /\ UNCHANGED <<freeCapital, booked, cfg, position, checkAge, day, dailyDate, dailyTotal, done>>

\* The last error is returned only by a tick that made no trade.
LHReturn ==
    /\ tick.proto > NumProtocols /\ tick.todo = <<>>
    /\ reported' = IF tick.err /\ tick.out = 0 THEN reported ELSE reported + tick.out
    /\ tick' = NoTick
    /\ UNCHANGED <<freeCapital, booked, cfg, position, checkAge, day, dailyDate, dailyTotal, done>>

LHApplyAdjustments(adj) ==
    /\ Free
    /\ \E landed \in Landings(adj, DOMAIN LHEnvelope) :
         cfg' = Adjusted(adj, landed, LHEnvelope)
    /\ UNCHANGED <<freeCapital, booked, position, checkAge, day, dailyDate, dailyTotal,
                   tick, reported, done>>

LHClock ==
    /\ checkAge' = Older(checkAge)
    /\ UNCHANGED <<freeCapital, booked, cfg, position, day, dailyDate, dailyTotal, tick,
                   reported, done>>

LHMidnight ==
    /\ day < MaxDay
    /\ day' = day + 1
    /\ UNCHANGED <<freeCapital, booked, cfg, position, checkAge, dailyDate, dailyTotal, tick,
                   reported, done>>

LHNext ==
    \/ LHTick \/ ListProtocol \/ ListProtocolFails \/ SkipPosition
    \/ Liquidate \/ LiquidateFails \/ LHReturn \/ LHClock \/ LHMidnight
    \/ \E adj \in Adjustments : LHApplyAdjustments(adj)

-----------------------------------------------------------------------------

\* Every liquidation that succeeded is in the trades some RunTick returned, or
\* in those of the tick in progress: errors of other positions or protocols
\* never make the runner lose one (liquidation_hunting.go:151-195).
SeizuresReported ==
    reported + tick.out = MapThenSumSet(LAMBDA d : done[d], 0 .. MaxDay)

=============================================================================
