------------------------------ MODULE Backtest ------------------------------
(***************************************************************************)
(* The backtest of an offspring (internal/backtesting/engine.go) on the     *)
(* recorded prices that the mock chain replays (mock_chain.go).  The engine *)
(* builds the candidate's task, drives its RunTick tick by tick, keeps the  *)
(* equity curve and passes or fails the candidate.  The candidate is a      *)
(* momentum task, the one that trades on quotes alone and goes flat by      *)
(* itself.  The builder seeds the task with the engine's StartCapital and   *)
(* hands it the cursor of the mock as its clock.                            *)
(***************************************************************************)
EXTENDS Tasks

CONSTANTS
    Candidates, \* configurations of the genomes under test
    PriceRows,  \* recorded rows of the pair, in any order: sequences of [at, price]
    PeriodEnd   \* last tick of the period, which starts at tick 0

ASSUME PeriodAssumption == PeriodEnd \in Nat \ {0}
ASSUME CandidatesAssumption == Candidates \subseteq [Fields("momentum") -> Int]
ASSUME VerdictAssumption == None # "pass"
ASSUME RowsAssumption == \A rows \in PriceRows : rows \in Seq([at : Int, price : Nat \ {0}])

VARIABLES
    tape,     \* the rows the mock replays, by time
    cursor,   \* the simulated time
    phase,    \* of the engine: "build", "tick", "advance", "done"; "live" without one
    pnl,      \* sum of closedPnLs
    trades,   \* number of trades
    equity,   \* last point of the equity curve
    peak,     \* highest point so far
    worst,    \* largest drop from the peak, in thousandths
    verdict,  \* what OffspringRunner returned, or None
    flatPeak, \* history: the highest capital the task had with nothing open
    halved    \* history: did it ever have half of that, or less?

backtestVars ==
    <<tape, cursor, phase, pnl, trades, equity, peak, worst, verdict, flatPeak, halved>>

\* The variables of a task that momentum does not have, and those of a report.
otherVars == <<kind, lastPrice, rebalanceAge, capUsed, tick, reported>>

\* NewMockChainClient sorts the rows; rows of one time end up in either order,
\* as they come in either order.
Sorted(rows) == SortedBy(rows, LAMBDA r, s : r.at < s.at)

\* A behaviour is a live task, or the backtest of one.
BacktestInit ==
    /\ Init
    /\ \/ phase = "build" /\ tape \in {Sorted(rows) : rows \in PriceRows}
       \/ phase = "live" /\ tape = <<>>
    /\ cursor = 0
    /\ pnl = 0 /\ trades = 0
    /\ equity = Seed /\ peak = Seed /\ worst = 0
    /\ verdict = None
    /\ flatPeak = Seed /\ halved = FALSE

-----------------------------------------------------------------------------
(* The mock chain *)

\* Variant: a row of the very moment of the cursor is not seen yet.
LaterStrict(row) == row.at >= cursor

Later(row) == row.at > cursor

\* priceAtCursor: a binary search for the last row that is not later than the
\* cursor; a cursor before all rows gets the earliest one.
PriceAtCursor ==
    LET n == Len(tape)
        find[w \in (1 .. n) \X (1 .. n)] ==
            LET mid == (w[1] + w[2] + 1) \div 2
            IN  IF w[1] >= w[2] THEN w[1]
                ELSE IF Later(tape[mid]) THEN find[<<w[1], mid - 1>>]
                ELSE find[<<mid, w[2]>>]
        found == find[<<1, n>>]
    IN  IF Later(tape[found]) THEN tape[1].price ELSE tape[found].price

\* GetQuote for one unit: fee and slippage lower the amount that comes out, and
\* momentum looks at the price alone.
QuotedPrice == PriceAtCursor

-----------------------------------------------------------------------------
(* The engine *)

\* The builder makes the task of the candidate, or fails and ends the backtest.
BuildCandidate ==
    /\ phase = "build"
    /\ Build("momentum", Candidates)
    /\ phase' = "tick"
    /\ UNCHANGED <<tape, cursor, pnl, trades, equity, peak, worst, verdict, flatPeak, halved>>

BuilderFails ==
    /\ phase = "build"
    /\ phase' = "done" /\ verdict' = "error"
    /\ UNCHANGED <<tape, cursor, pnl, trades, equity, peak, worst, flatPeak, halved>>
    /\ UNCHANGED vars

PositionValue == IF position = None THEN 0 ELSE M!Proceeds(position, M!LatestPrice)

\* PnL of the trades of a tick: an entry reports none.
TradePnL(price) ==
    IF position # None /\ position' = None
    THEN M!Proceeds(position, price) - position.size ELSE 0

\* Variant: the previous point is carried on, open position and all.
EquityPointRunning(closed, open) == equity + (closed - pnl) + open

\* A point of the curve, from the sum of the closed profits and the value of
\* what is open.
EquityPoint(closed, open) == Seed + closed + open

\* computeMaxDrawdown, point by point.
Drop(top, point) == IF top <= 0 THEN 0 ELSE ((top - point) * 1000) \div top

Mark(gain, count) ==
    LET point == EquityPoint(pnl + gain, PositionValue')
        top == IF point > peak THEN point ELSE peak
    IN  /\ pnl' = pnl + gain
        /\ trades' = trades + count
        /\ equity' = point
        /\ peak' = top
        /\ worst' = IF Drop(top, point) > worst THEN Drop(top, point) ELSE worst
        /\ flatPeak' = IF position' = None /\ freeCapital' > flatPeak
                       THEN freeCapital' ELSE flatPeak
        /\ halved' = (halved \/ (position' = None /\ 2 * freeCapital' <= flatPeak'))

\* SetCursor, RunTick and the point of the curve.  The throttled tick trades
\* nothing and is marked all the same.
ReplayTick ==
    /\ phase = "tick" /\ cursor <= PeriodEnd /\ tape # <<>>
    /\ \/ M!MomTick(QuotedPrice)
       \/ M!MomTickEarly
    /\ Mark(TradePnL(QuotedPrice), IF position' # position THEN 1 ELSE 0)
    /\ phase' = "advance"
    /\ UNCHANGED <<tape, cursor, verdict, otherVars>>

\* No row of the pair: the quote fails, and with it the backtest.
ReplayFails ==
    /\ phase = "tick" /\ cursor <= PeriodEnd /\ tape = <<>>
    /\ M!MomTickFails
    /\ phase' = "done" /\ verdict' = "error"
    /\ UNCHANGED <<tape, cursor, pnl, trades, equity, peak, worst, flatPeak, halved, otherVars>>

Advance ==
    /\ phase = "advance"
    /\ cursor' = cursor + 1 /\ phase' = "tick"
    /\ M!MomClock
    /\ UNCHANGED <<tape, pnl, trades, equity, peak, worst, verdict, flatPeak, halved, otherVars>>

\* Midnight falls between two ticks of the period.
ReplayMidnight ==
    /\ phase = "advance"
    /\ M!MomMidnight
    /\ UNCHANGED <<backtestVars, otherVars>>

Passed == equity > Seed /\ worst < 500 /\ trades > 0

Finish ==
    /\ phase = "tick" /\ cursor > PeriodEnd
    /\ phase' = "done"
    /\ verdict' = IF Passed THEN "pass" ELSE "fail"
    /\ UNCHANGED <<tape, cursor, pnl, trades, equity, peak, worst, flatPeak, halved>>
    /\ UNCHANGED vars

Live == phase = "live" /\ Next /\ UNCHANGED backtestVars

BacktestNext ==
    \/ Live
    \/ BuildCandidate \/ BuilderFails
    \/ ReplayTick \/ ReplayFails \/ Advance \/ ReplayMidnight
    \/ Finish

BacktestSpec == BacktestInit /\ [][BacktestNext]_<<vars, backtestVars>>

-----------------------------------------------------------------------------

\* The price a replayed tick trades on is the latest one recorded by then: the
\* replay never looks ahead, except that before the first row it has only the
\* earliest (mock_chain.go:228-261).
NoLookAhead ==
    (phase = "advance" /\ checkAge = 0) =>
        LET known == {i \in DOMAIN tape : tape[i].at <= cursor}
            price == M!LatestPrice
        IN  IF known = {} THEN price = tape[1].price
            ELSE \E i \in known : /\ price = tape[i].price
                                  /\ \A j \in known : tape[j].at <= tape[i].at

\* An offspring that passes with nothing open has made money, and the capital it
\* had between two positions never fell to half of what it had been: although
\* the curve counts an open position on top of the capital it was bought with,
\* that can only lower the marks of a candidate that closes its positions
\* (engine.go:116-187).  With a position still open at the end the verdict says
\* nothing.
PassedIsEarned ==
    (verdict = "pass" /\ position = None) => (freeCapital > Seed /\ ~halved)

=============================================================================
