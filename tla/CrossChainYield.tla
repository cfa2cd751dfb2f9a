-------------------------- MODULE CrossChainYield --------------------------
(***************************************************************************)
(* The cross_chain_yield task (internal/agent/tasks/cross_chain_yield.go):  *)
(* capital spread over lending protocols, moved as a whole when the blended *)
(* yield of the best ones beats that of the current ones.  Yields are in    *)
(* basis points.  A position keeps the yield it was opened with: the code   *)
(* compares new rates with that number, not with the present rate.          *)
(***************************************************************************)
EXTENDS TaskBase, FiniteSetsExt

CONSTANTS
    RateTables, \* what the chains may answer: sequences of [protocol, chain, apy]
    Protocols   \* the protocols of those tables

VARIABLES
    rebalanceAge, \* age of lastRebalance
    capUsed       \* history: MaxSingleProtocolPct at the last rebalance

ccyVars == <<freeCapital, booked, cfg, position, checkAge, rebalanceAge, capUsed>>

CCYDefaults == [interval |-> 2, rebalance |-> MaxInterval, cap |-> 1000, minDiff |-> 50]

CCYEnvelope ==
    [minDiff   |-> [lo |-> 1, hi |-> 5000],
     cap       |-> [lo |-> 50, hi |-> 1000],
     rebalance |-> [lo |-> 1, hi |-> MaxInterval],
     bridge    |-> [lo |-> 0, hi |-> 10000],
     interval  |-> [lo |-> 1, hi |-> MaxInterval]]

\* A chain, a protocol or more, and numbers in range.
CCYValid(c) == c.named = 1 /\ Validate(c, CCYEnvelope)

CCYInit == rebalanceAge = MaxInterval /\ capUsed = 1000

\* position is the allocation: a function from the protocols in use to
\* [chain, value, apy].
SumValues(alloc) == MapThenSumSet(LAMBDA p : alloc[p].value, DOMAIN alloc)
WeightedAPY(alloc) == MapThenSumSet(LAMBDA p : alloc[p].value * alloc[p].apy, DOMAIN alloc)

AllCapital == freeCapital + SumValues(position)

-----------------------------------------------------------------------------
(* The decision.                                                            *)

\* The stable sort by falling yield.
Sorted(rates) == SortedBy(rates, LAMBDA r, q : r.apy > q.apy)

\* As many rates as it takes to place all the capital under the cap.
Needed == (1000 + cfg.cap - 1) \div cfg.cap

\* Keyed by protocol: of two rates of one protocol the later, lower one stays.
ChooseTarget(rates) ==
    LET top == SubSeq(Sorted(rates), 1, IF Len(rates) < Needed THEN Len(rates) ELSE Needed)
        last(p) == CHOOSE i \in DOMAIN top : top[i].protocol = p
                       /\ \A j \in DOMAIN top : top[j].protocol = p => j <= i
    IN  [p \in {top[i].protocol : i \in DOMAIN top} |-> top[last(p)]]

TargetSum(target) == MapThenSumSet(LAMBDA p : target[p].apy, DOMAIN target)

\* targetAPY - curAPY >= MinYieldDiffBps, without the fractions.
WorthMoving(target) ==
    LET n == Cardinality(DOMAIN target)
        total == SumValues(position)
    IN  IF total <= 0 THEN TargetSum(target) >= cfg.minDiff * n
        ELSE TargetSum(target) * total - WeightedAPY(position) * n >= cfg.minDiff * n * total

BridgeCost(target) ==
    IF /\ DOMAIN position # {}
       /\ \E p \in DOMAIN target : target[p].chain \notin {position[q].chain : q \in DOMAIN position}
    THEN (AllCapital * 5) \div 1000 ELSE 0

-----------------------------------------------------------------------------
(* RunTick and the other operations.                                        *)

\* Variant: the equal split is not bounded by the cap.
AmountUncapped(total, n) == total \div n

\* The equal split, bounded by the cap.
Amount(total, n) == IF cfg.cap * n < 1000 THEN (total * cfg.cap) \div 1000 ELSE total \div n

\* Variant: the bridge is paid once more from what is free.
RebalancePaysTwice(target, cost) ==
    LET total == AllCapital - cost
        amount == Amount(total, Cardinality(DOMAIN target))
        opened == IF amount > 0 THEN DOMAIN target ELSE {}
    IN  /\ position' = [p \in opened |->
               [chain |-> target[p].chain, value |-> amount, apy |-> target[p].apy]]
        /\ freeCapital' = total - cost - amount * Cardinality(opened)
        /\ booked' = booked - cost
        /\ rebalanceAge' = 0
        /\ capUsed' = cfg.cap

\* Everything is closed, the bridge is paid and the rest is deployed.
Rebalance(target, cost) ==
    LET total == AllCapital - cost
        amount == Amount(total, Cardinality(DOMAIN target))
        opened == IF amount > 0 THEN DOMAIN target ELSE {}
    IN  /\ position' = [p \in opened |->
               [chain |-> target[p].chain, value |-> amount, apy |-> target[p].apy]]
        /\ freeCapital' = total - amount * Cardinality(opened)
        /\ booked' = booked - cost
        /\ rebalanceAge' = 0
        /\ capUsed' = cfg.cap

CCYTick(rates) ==
    LET target == ChooseTarget(rates)
    IN  /\ Due
        /\ checkAge' = 0
        /\ AllCapital >= cfg.minCapital
        /\ rates # <<>>
        /\ rebalanceAge >= cfg.rebalance
        /\ WorthMoving(target)
        /\ BridgeCost(target) <= cfg.bridge
        /\ Rebalance(target, BridgeCost(target))
        /\ UNCHANGED cfg

\* Any of the early returns: too little capital, a chain that does not answer,
\* no rates, a rebalance too recent, too small a gain, too dear a bridge.
CCYTickIdle(rates) ==
    LET target == ChooseTarget(rates)
    IN  /\ Due
        /\ checkAge' = 0
        /\ \/ AllCapital < cfg.minCapital
           \/ rates = <<>>
           \/ rebalanceAge < cfg.rebalance
           \/ ~WorthMoving(target)
           \/ BridgeCost(target) > cfg.bridge
        /\ UNCHANGED <<freeCapital, booked, cfg, position, rebalanceAge, capUsed>>

CCYApplyAdjustments(adj) ==
    /\ \E landed \in Landings(adj, DOMAIN CCYEnvelope) :
         cfg' = Adjusted(adj, landed, CCYEnvelope)
    /\ UNCHANGED <<freeCapital, booked, position, checkAge, rebalanceAge, capUsed>>

CCYCloseAll ==
    /\ DOMAIN position # {}
    /\ freeCapital' = AllCapital
    /\ position' = [p \in {} |-> 0]
    /\ UNCHANGED <<booked, cfg, checkAge, rebalanceAge, capUsed>>

CCYClock ==
    /\ checkAge' = Older(checkAge)
    /\ rebalanceAge' = Older(rebalanceAge)
    /\ UNCHANGED <<freeCapital, booked, cfg, position, capUsed>>

CCYNext ==
    \/ \E rates \in RateTables : CCYTick(rates) \/ CCYTickIdle(rates)
    \/ CCYCloseAll \/ CCYClock
    \/ \E adj \in Adjustments : CCYApplyAdjustments(adj)

-----------------------------------------------------------------------------

\* No protocol holds more than the cap in force when the capital was last
\* moved, as a share of all the capital the task then had: choosing the rates,
\* dropping the second rate of a protocol, splitting and paying the bridge must
\* agree on it (cross_chain_yield.go:368-402 and 492-543).
CapRespected ==
    \A p \in DOMAIN position : 1000 * position[p].value <= capUsed * AllCapital

=============================================================================
