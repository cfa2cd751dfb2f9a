-------------------------------- MODULE Tasks --------------------------------
(***************************************************************************)
(* The task of one agent.  The registry (internal/agent/tasks/registry.go)  *)
(* builds one of the four kinds from a stored configuration; from then on   *)
(* the task behaves as that kind, and the variables of the others stay as   *)
(* they are.  The runner of the agent calls RunTick from its monitor loop,  *)
(* ApplyAdjustments from its strategist loop and CloseAllPositions when it  *)
(* ends; all of them take the mutex of the task.                            *)
(***************************************************************************)
EXTENDS TaskBase

CONSTANTS
    RawConfigs, \* stored configurations: kind -> set of key -> number
    Wired,      \* kinds whose SetXDeps has been called
    \* of the four kinds:
    Prices, Lookback, MinSamples, HeadRoom, Roots, RateTables, Protocols,
    NumProtocols, Lendings, MaxLendings, MaxDay, NoDay, None

VARIABLES
    kind, \* the kind that was built, or None
    history, day, dailyDate, dailyTotal, samples, raised, done,
    lastPrice, rebalanceAge, capUsed, tick, reported

M == INSTANCE Momentum
L == INSTANCE LiquidityProvision
C == INSTANCE CrossChainYield
H == INSTANCE LiquidationHunting

vars == <<kind, freeCapital, booked, cfg, position, checkAge, history, day, dailyDate,
          dailyTotal, samples, raised, done, lastPrice, rebalanceAge, capUsed,
          tick, reported>>

Registered == {"momentum", "liquidity_provision", "cross_chain_yield", "liquidation_hunting"}

\* The fields of the configuration of a kind.
Fields(name) ==
    {"named", "minCapital"} \cup
    CASE name = "momentum" -> DOMAIN M!MomEnvelope
      [] name = "liquidity_provision" -> DOMAIN L!LPEnvelope
      [] name = "cross_chain_yield" -> DOMAIN C!CCYEnvelope
      [] name = "liquidation_hunting" -> DOMAIN H!LHEnvelope \cup {"maxSize"}

ASSUME WiredAssumption == Wired \subseteq Registered
ASSUME ConfigsAssumption ==
    \A name \in Registered : RawConfigs[name] \subseteq [Fields(name) -> Int]
ASSUME QuotesAssumption ==
    /\ Prices \subseteq Nat \ {0} /\ Roots \subseteq Nat \ {0}
    /\ RateTables \subseteq Seq([protocol : Protocols, chain : STRING, apy : Int])
ASSUME WindowAssumption ==
    Lookback \in Nat /\ MinSamples \in Nat /\ HeadRoom \in Nat \ {0}
ASSUME DaysAssumption == MaxDay \in Nat /\ NoDay \notin Nat
ASSUME HuntingAssumption == NumProtocols \in Nat /\ MaxLendings \in Nat
ASSUME NoneAssumption ==
    None \notin Registered \cup M!MomPositions \cup L!LPPositions

Defaults(name) ==
    CASE name = "momentum" -> M!MomDefaults
      [] name = "liquidity_provision" -> L!LPDefaults
      [] name = "cross_chain_yield" -> C!CCYDefaults
      [] name = "liquidation_hunting" -> H!LHDefaults

Valid(name, c) ==
    CASE name = "momentum" -> M!MomValid(c)
      [] name = "liquidity_provision" -> L!LPValid(c)
      [] name = "cross_chain_yield" -> C!CCYValid(c)
      [] name = "liquidation_hunting" -> H!LHValid(c)

Init ==
    /\ kind = None
    /\ freeCapital = Seed /\ booked = 0
    /\ cfg = [k \in {} |-> 0]
    /\ position = None
    /\ checkAge = MaxInterval
    /\ M!MomInit /\ L!LPInit /\ C!CCYInit
    /\ tick = H!NoTick /\ reported = 0

\* Build, the factory and the constructor of the kind, and SeedFreeCapital.
\* An unknown kind, a kind that is not wired or a configuration that does not
\* validate is an error and leaves no task.
Build(name, raws) ==
    /\ kind = None
    /\ name \in Wired
    /\ \E raw \in raws :
         LET c == ApplyDefaults(raw, Defaults(name))
         IN  Valid(name, c) /\ cfg' = c
    /\ kind' = name
    /\ position' = IF name = "cross_chain_yield" THEN [p \in {} |-> 0] ELSE None
    /\ UNCHANGED <<freeCapital, booked, checkAge, history, day, dailyDate, dailyTotal,
                   samples, raised, done, lastPrice, rebalanceAge, capUsed, tick, reported>>

AsMomentum ==
    /\ kind = "momentum" /\ M!MomNext
    /\ UNCHANGED <<kind, lastPrice, rebalanceAge, capUsed, tick, reported>>

AsLiquidityProvision ==
    /\ kind = "liquidity_provision" /\ L!LPNext
    /\ UNCHANGED <<kind, history, day, dailyDate, dailyTotal, samples, raised, done,
                   rebalanceAge, capUsed, tick, reported>>

AsCrossChainYield ==
    /\ kind = "cross_chain_yield" /\ C!CCYNext
    /\ UNCHANGED <<kind, history, day, dailyDate, dailyTotal, samples, raised, done,
                   lastPrice, tick, reported>>

AsLiquidationHunting ==
    /\ kind = "liquidation_hunting" /\ H!LHNext
    /\ UNCHANGED <<kind, history, samples, raised, lastPrice, rebalanceAge, capUsed>>

Next ==
    \/ \E name \in Registered : Build(name, RawConfigs[name])
    \/ AsMomentum \/ AsLiquidityProvision \/ AsCrossChainYield \/ AsLiquidationHunting

Spec == Init /\ [][Next]_vars

-----------------------------------------------------------------------------

\* The capital in open positions, at cost.
Held ==
    CASE kind = "momentum" -> IF position = None THEN 0 ELSE position.size
      [] kind = "liquidity_provision" -> IF position = None THEN 0 ELSE position.value
      [] kind = "cross_chain_yield" -> C!SumValues(position)
      [] OTHER -> 0

Book == INSTANCE PositionBook
        WITH free <- freeCapital, held <- Held, bullish <- (kind = "momentum")

\* Each of the four tasks keeps its book: after every tick, adjustment and
\* close the free capital and the capital in positions add up to what was seeded
\* plus the PnL less the FeePaid of the trades made on the way, so that proceeds
\* are credited once and the bridge is paid once; only momentum ever books a
\* gain, for an impermanent loss has a sign, a bridge costs and lending interest
\* is never credited; and none deploys more than there is (momentum.go:343-444,
\* liquidity_provision.go:247-323, cross_chain_yield.go:282-312 and 447-543).
BookRefined == Book!Spec

\* On no UTC date does a task enter (momentum) or liquidate
\* (liquidation_hunting) more often than the quota then in force allows, the
\* date being the one the tick began on, whatever midnights and adjustments
\* come in between (momentum.go:343-380 and 453-463, liquidation_hunting.go:
\* 92-160 and 300-314).
QuotaPerDay ==
    [][\A d \in 0 .. MaxDay : done'[d] > done[d] => done'[d] <= cfg.maxDaily]_vars

\* For a momentum task: without a lengthened interval, the ring buffer holds
\* every sample of the lookback window (momentum.go:266-283).
WindowComplete == kind = "momentum" => M!WindowComplete

\* For a cross_chain_yield task: no protocol ever holds a larger share of the
\* capital than the cap in force at the last move allowed it, bridge cost,
\* duplicate rates and rounding included (cross_chain_yield.go:368-402, 492-543).
CapRespected == kind = "cross_chain_yield" => C!CapRespected

\* For a liquidation_hunting task: no error of another position or protocol
\* makes the runner lose the trade of a liquidation that succeeded
\* (liquidation_hunting.go:151-195).
SeizuresReported == kind = "liquidation_hunting" => H!SeizuresReported

=============================================================================
