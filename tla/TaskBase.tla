------------------------------ MODULE TaskBase ------------------------------
(***************************************************************************)
(* What the four trading tasks of internal/agent/tasks share: the capital   *)
(* they hold, their configuration with its defaults, its validation and its *)
(* clamped adjustments, and the throttle at the head of every RunTick.      *)
(*                                                                          *)
(* Money is in whole dollars and a quotient is rounded down; fractions are  *)
(* in thousandths.  A time stamp is represented by its age in ticks of the  *)
(* runner's monitor loop, which saturates at MaxInterval, the longest       *)
(* interval the configuration admits: the code only asks whether an         *)
(* interval has passed, and a zero time stamp answers like an old one.      *)
(***************************************************************************)
EXTENDS Integers, Sequences, FiniteSets

CONSTANTS
    Seed,        \* the capital SeedFreeCapital hands to the task
    MaxInterval, \* ceiling of every interval, in ticks (3600 s and more in the code)
    Adjustments, \* config deltas a strategist may send: key -> value
    Bad          \* a value of the wrong JSON type

ASSUME SeedAssumption == Seed \in Nat
ASSUME IntervalAssumption == MaxInterval \in Nat \ {0}
ASSUME BadAssumption == Bad \notin Int
ASSUME AdjustmentsAssumption ==
    \A adj \in Adjustments : \A k \in DOMAIN adj : adj[k] \in Int \cup {Bad}

VARIABLES
    freeCapital, \* USD not deployed
    booked,      \* history: PnL less FeePaid of the trades that closed or moved positions
    cfg,         \* the task's configuration: key -> number
    position,    \* what is open; None or a record, or a function of protocols
    checkAge     \* age of lastCheck

Clamp(v, range) == IF v < range.lo THEN range.lo ELSE IF v > range.hi THEN range.hi ELSE v

ApplyDefaults(raw, defaults) ==
    [k \in DOMAIN raw |-> IF raw[k] = 0 /\ k \in DOMAIN defaults THEN defaults[k] ELSE raw[k]]

Validate(c, envelope) == \A k \in DOMAIN envelope : c[k] \in envelope[k].lo .. envelope[k].hi

BadKeys(adj) == {k \in DOMAIN adj : adj[k] = Bad}

\* The map is walked in an arbitrary order and the walk returns at the first
\* value of a wrong type, so any part of the other keys may have landed.
Landings(adj, known) ==
    LET good == (DOMAIN adj \cap known) \ BadKeys(adj)
    IN  IF BadKeys(adj) \cap known = {} THEN {good} ELSE SUBSET good

Adjusted(adj, landed, envelope) ==
    [k \in DOMAIN cfg |-> IF k \in landed \cap DOMAIN envelope
                          THEN Clamp(adj[k], envelope[k]) ELSE cfg[k]]

\* The guard at the head of RunTick.
Due == checkAge >= cfg.interval

Older(age) == IF age < MaxInterval THEN age + 1 ELSE age

\* The trades of a step carry this PnL less this FeePaid, which is what the
\* economics credit the agent with.  The trade of a pulled position is made and
\* then dropped by ApplyAdjustments; it counts here all the same.  A liquidation
\* reports its bonus as PnL but holds no position and no capital, so it is not
\* booked.
Report(profit) == booked' = booked + profit

\* A sequence in the order of less, equals in the order they came in.
SortedBy(s, less(_, _)) ==
    LET before(i, j) == less(s[i], s[j]) \/ (~less(s[j], s[i]) /\ i < j)
        place(i) == 1 + Cardinality({j \in DOMAIN s : before(j, i)})
    IN  [k \in DOMAIN s |-> s[CHOOSE i \in DOMAIN s : place(i) = k]]

=============================================================================
