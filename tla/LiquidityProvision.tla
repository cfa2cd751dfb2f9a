------------------------- MODULE LiquidityProvision -------------------------
(***************************************************************************)
(* The liquidity_provision task (internal/agent/tasks/                      *)
(* liquidity_provision.go): all the capital in one band around the price,   *)
(* closed and reopened when the price drifts away from the centre.          *)
(*                                                                          *)
(* A price is given by its square root, which is all that is needed to      *)
(* compute the impermanent loss 2 sqrt(r) / (1 + r) - 1 in integers.        *)
(* FeesEarned is never credited by the code and is left out; the bounds of  *)
(* the band are reported and never read.                                    *)
(***************************************************************************)
EXTENDS TaskBase

CONSTANTS
    Roots, \* the square roots of the prices GetQuote may return
    None   \* no open position

VARIABLE lastPrice \* root of the price of the last successful check

lpVars == <<freeCapital, booked, cfg, position, checkAge, lastPrice>>

LPDefaults == [width |-> 100, threshold |-> 30, interval |-> 2]

LPEnvelope ==
    [width     |-> [lo |-> 5, hi |-> 1000],
     threshold |-> [lo |-> 1, hi |-> 500],
     interval  |-> [lo |-> 1, hi |-> MaxInterval]]

\* A chain and a pair of two tokens, and numbers in range.
LPValid(c) == c.named = 1 /\ Validate(c, LPEnvelope)

\* An open band: the root of the price at its centre and what was deposited.
LPPositions == [root : Nat \ {0}, value : Nat \ {0}]

LPInit == lastPrice = 0

TotalCapital == freeCapital + (IF position = None THEN 0 ELSE position.value)

\* Variant: the sign of the loss is lost.
NetValueGains(pos, root) ==
    (pos.value * (2 * pos.root * pos.root + 2 * root * root - 2 * pos.root * root))
        \div (pos.root * pos.root + root * root)

\* value * (1 + ImpermanentLoss(entry, current)).
NetValue(pos, root) ==
    (pos.value * (2 * pos.root * root)) \div (pos.root * pos.root + root * root)

Abs(n) == IF n < 0 THEN -n ELSE n

\* Has the price left the centre by RebalanceThresholdPct or more?
Drifted(root) ==
    1000 * Abs(root * root - position.root * position.root)
        >= cfg.threshold * position.root * position.root

\* openPosition deposits all there is; with nothing it leaves no position.
Open(capital, root) ==
    IF capital > 0
    THEN position' = [root |-> root, value |-> capital] /\ freeCapital' = 0
    ELSE position' = None /\ freeCapital' = capital

LPTick(root) ==
    /\ Due
    /\ TotalCapital >= cfg.minCapital
    /\ checkAge' = 0 /\ lastPrice' = root
    /\ \/ position = None /\ Open(freeCapital, root) /\ UNCHANGED booked
       \/ /\ position # None /\ ~Drifted(root)
          /\ UNCHANGED <<position, freeCapital, booked>>
       \/ /\ position # None /\ Drifted(root)
          /\ Open(freeCapital + NetValue(position, root), root)
          /\ Report(NetValue(position, root) - position.value)
    /\ UNCHANGED cfg

\* Too little capital, or no usable quote: the interval is used up.
LPTickIdle ==
    /\ Due
    /\ checkAge' = 0
    /\ UNCHANGED <<freeCapital, booked, cfg, position, lastPrice>>

Close ==
    /\ freeCapital' = freeCapital + NetValue(position, lastPrice)
    /\ Report(NetValue(position, lastPrice) - position.value)
    /\ position' = None

\* pull_liquidity is one more key of the same map; a value of another type
\* ends the walk like that of any other key.
LPApplyAdjustments(adj) ==
    \E landed \in Landings(adj, DOMAIN LPEnvelope \cup {"pull"}) :
        /\ cfg' = Adjusted(adj, landed, LPEnvelope)
        /\ IF "pull" \in landed /\ adj["pull"] = 1 /\ position # None
           THEN Close ELSE UNCHANGED <<position, freeCapital, booked>>
        /\ UNCHANGED <<checkAge, lastPrice>>

LPCloseAll ==
    /\ position # None
    /\ Close
    /\ UNCHANGED <<cfg, checkAge, lastPrice>>

LPClock ==
    /\ checkAge' = Older(checkAge)
    /\ UNCHANGED <<freeCapital, booked, cfg, position, lastPrice>>

LPNext ==
    \/ \E root \in Roots : LPTick(root)
    \/ LPTickIdle \/ LPCloseAll \/ LPClock
    \/ \E adj \in Adjustments : LPApplyAdjustments(adj)

=============================================================================
