------------------------------ MODULE Momentum ------------------------------
(***************************************************************************)
(* The momentum task (internal/agent/tasks/momentum.go): one long position, *)
(* entered when the price breaks out of the lookback window and left on a   *)
(* stop or below the window's middle.  Every operation holds the mutex from *)
(* its first to its last line, so every one of them is a single step.       *)
(***************************************************************************)
EXTENDS TaskBase

CONSTANTS
    Prices,     \* the prices GetQuote may return, all positive
    Lookback,   \* LookbackMinutes, in ticks
    MinSamples, \* the least number of samples kept (5 in the code)
    HeadRoom,   \* the samples kept beyond the window (4 in the code)
    MaxDay,     \* bound: midnights that pass
    NoDay,      \* the empty dailyDate
    None        \* no open position

VARIABLES
    history,    \* the ring buffer, oldest first: [age, price]
    day,        \* the UTC date
    dailyDate,  \* the date dailyTotal belongs to
    dailyTotal, \* entries counted for dailyDate
    samples,    \* history: every sample that is still inside the window
    raised,     \* history: has an adjustment lengthened the interval?
    done        \* history: entries by UTC date

momVars == <<freeCapital, booked, cfg, position, checkAge, history, day, dailyDate,
             dailyTotal, samples, raised, done>>

MomDefaults ==
    [entry |-> 20, exit |-> 10, interval |-> 1, maxPos |-> 250, stop |-> 50, maxDaily |-> 10]

MomEnvelope ==
    [entry    |-> [lo |-> 1, hi |-> 500],  exit    |-> [lo |-> 1, hi |-> 500],
     maxPos   |-> [lo |-> 10, hi |-> 1000], stop   |-> [lo |-> 1, hi |-> 500],
     maxDaily |-> [lo |-> 1, hi |-> 200],  interval |-> [lo |-> 1, hi |-> MaxInterval],
     volume   |-> [lo |-> 0, hi |-> 1]]

\* A chain and a pair of two tokens, numbers in range, and a floor of capital.
MomValid(c) ==
    /\ c.named = 1
    /\ Validate(c, [k \in DOMAIN MomEnvelope \ {"volume"} |-> MomEnvelope[k]])
    /\ c.minCapital >= 0

\* An open position; prices are positive and so is what is bought.
MomPositions == [entry : Nat \ {0}, stop : Int, size : Nat \ {0}]

MomInit ==
    /\ history = <<>> /\ samples = <<>> /\ raised = FALSE
    /\ day = 0 /\ dailyDate = NoDay /\ dailyTotal = 0
    /\ done = [d \in 0 .. MaxDay |-> 0]

-----------------------------------------------------------------------------
(* The ring buffer and its statistics.                                      *)

\* Variant: the buffer covers the window and not one sample more.
LookbackSamplesTight(c) ==
    LET n == Lookback \div c.interval IN IF n < MinSamples THEN MinSamples ELSE n

LookbackSamples(c) ==
    LET n == Lookback \div c.interval
    IN  (IF n < MinSamples THEN MinSamples ELSE n) + HeadRoom

PushSample(h, price) ==
    LET all == Append(h, [age |-> 0, price |-> price])
        cap == LookbackSamples(cfg)
    IN  IF Len(all) > cap THEN SubSeq(all, Len(all) - cap + 1, Len(all)) ELSE all

\* The prices lookbackStats looks at: those in the window, without the latest.
Window(h) ==
    {h[i].price : i \in {j \in 1 .. Len(h) - 1 : h[j].age <= Lookback}}

High(W) == CHOOSE p \in W : \A q \in W : q <= p
Low(W) == CHOOSE p \in W : \A q \in W : p <= q

LatestPrice == history[Len(history)].price

-----------------------------------------------------------------------------
(* RunTick.                                                                 *)

DailyBase == IF dailyDate \in {NoDay, day} THEN dailyTotal ELSE 0

\* maybeResetDailyLocked; total is what the rest of the tick makes of the count.
MaybeResetDaily(total) == dailyDate' = day /\ dailyTotal' = total

Proceeds(pos, price) == (pos.size * price) \div pos.entry

StopHit(price) == 1000 * price <= position.stop
BelowMid(h, price) ==
    LET W == Window(h)
    IN  W # {} /\ 2000 * price <= (High(W) + Low(W)) * (1000 - cfg.exit)

Breakout(h, price) ==
    LET W == Window(h)
    IN  W # {} /\ 1000 * price >= High(W) * (1000 + cfg.entry)

\* Every sample RunTick pushes has volume 0, so the latest volume never
\* exceeds the average and volume confirmation always refuses.
VolumeConfirmed == cfg.volume = 0

Notional == (freeCapital * cfg.maxPos) \div 1000

CanEnter(h, price) ==
    /\ freeCapital >= cfg.minCapital
    /\ DailyBase < cfg.maxDaily
    /\ Breakout(h, price)
    /\ VolumeConfirmed
    /\ Notional > 0

Enter(price) ==
    /\ position' = [entry |-> price, stop |-> price * (1000 - cfg.stop), size |-> Notional]
    /\ freeCapital' = freeCapital - Notional
    /\ UNCHANGED booked
    /\ done' = [done EXCEPT ![day] = @ + 1]
    /\ MaybeResetDaily(DailyBase + 1)

Exit(price) ==
    /\ freeCapital' = freeCapital + Proceeds(position, price)
    /\ Report(Proceeds(position, price) - position.size)
    /\ position' = None

\* The interval has passed: the time is recorded before the quote is asked
\* for, so a failing quote uses the interval up.
MomTickFails ==
    /\ Due
    /\ checkAge' = 0
    /\ MaybeResetDaily(DailyBase)
    /\ UNCHANGED <<freeCapital, booked, cfg, position, history, day, samples, raised, done>>

MomTick(price) ==
    LET h == PushSample(history, price)
    IN  /\ Due
        /\ checkAge' = 0
        /\ history' = h
        /\ samples' = Append(samples, [age |-> 0, price |-> price])
        /\ \/ /\ position # None /\ (StopHit(price) \/ BelowMid(h, price))
              /\ Exit(price)
              /\ MaybeResetDaily(DailyBase) /\ UNCHANGED done
           \/ /\ position = None /\ CanEnter(h, price)
              /\ Enter(price)
           \/ /\ IF position = None THEN ~CanEnter(h, price)
                 ELSE ~StopHit(price) /\ ~BelowMid(h, price)
              /\ MaybeResetDaily(DailyBase)
              /\ UNCHANGED <<position, freeCapital, booked, done>>
        /\ UNCHANGED <<cfg, day, raised>>

\* The throttled call still turns the daily count over.
MomTickEarly ==
    /\ ~Due
    /\ MaybeResetDaily(DailyBase)
    /\ UNCHANGED <<freeCapital, booked, cfg, position, checkAge, history, day, samples, raised, done>>

-----------------------------------------------------------------------------

MomApplyAdjustments(adj) ==
    /\ \E landed \in Landings(adj, DOMAIN MomEnvelope) :
         cfg' = Adjusted(adj, landed, MomEnvelope)
    /\ raised' = (raised \/ cfg'.interval > cfg.interval)
    /\ UNCHANGED <<freeCapital, booked, position, checkAge, history, day, dailyDate,
                   dailyTotal, samples, done>>

MomCloseAll ==
    /\ position # None
    /\ Exit(LatestPrice)
    /\ UNCHANGED <<cfg, checkAge, history, day, dailyDate, dailyTotal, samples, raised, done>>

\* The samples from the first one that is inside the window on.
FromInside(s) ==
    LET inside == {i \in DOMAIN s : s[i].age <= Lookback}
        first == CHOOSE i \in inside : \A j \in inside : i <= j
    IN  IF inside = {} THEN <<>> ELSE SubSeq(s, first, Len(s))

\* Time passes; samples grow older.  Ages beyond the window look alike.
MomClock ==
    LET older(s) == [i \in DOMAIN s |->
            [s[i] EXCEPT !.age = IF @ > Lookback THEN @ ELSE @ + 1]]
    IN  /\ checkAge' = Older(checkAge)
        /\ history' = older(history)
        /\ samples' = FromInside(older(samples))
        /\ UNCHANGED <<freeCapital, booked, cfg, position, day, dailyDate, dailyTotal, raised, done>>

MomMidnight ==
    /\ day < MaxDay
    /\ day' = day + 1
    /\ UNCHANGED <<freeCapital, booked, cfg, position, checkAge, history, dailyDate,
                   dailyTotal, samples, raised, done>>

MomNext ==
    \/ MomTickFails \/ MomTickEarly \/ MomCloseAll \/ MomClock \/ MomMidnight
    \/ \E price \in Prices : MomTick(price)
    \/ \E adj \in Adjustments : MomApplyAdjustments(adj)

-----------------------------------------------------------------------------

\* The ring buffer never loses a sample that still counts: as long as no
\* adjustment has lengthened the interval, the buffer ends with all the samples
\* taken inside the lookback window, and what is before them is too old to
\* count (momentum.go:266-283).  A longer interval shrinks the buffer at the
\* next push, and the window's high is then taken over fewer samples than the
\* window holds.
WindowComplete ==
    LET old == Len(history) - Len(samples)
    IN  ~raised => /\ old >= 0
                   /\ \A i \in 1 .. old : history[i].age > Lookback
                   /\ \A i \in DOMAIN samples :
                        history[old + i] = samples[i] /\ samples[i].age <= Lookback

=============================================================================
