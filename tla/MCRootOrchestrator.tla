------------------------- MODULE MCRootOrchestrator -------------------------
(***************************************************************************)
(* A funded agent that may fall into drawdown or debt, a shadow agent whose *)
(* balance may be unrecorded and whose heartbeat may stop, and a proposal   *)
(* of the funded one.                                                       *)
(***************************************************************************)
EXTENDS RootOrchestrator

CONSTANTS a1, a2

MCAgents == {a1, a2}
MCClass == [a \in MCAgents |-> IF a = a1 THEN "funded" ELSE "shadow"]
MCParent == [p \in 1 .. NumProposals |-> a1]
MCReserve == [p \in 1 .. NumProposals |-> 20]

Healthy == [balance |-> 100, peak |-> 100, losing |-> 0, debt |-> 0,
            beatMins |-> 10, profit |-> 20]

\* A drawdown of exactly 40 percent; a heartbeat just past the grace period.
MCRows == [a \in MCAgents |->
    IF a = a1
    THEN {Healthy, [Healthy EXCEPT !.balance = 60], [Healthy EXCEPT !.debt = 1]}
    ELSE {Healthy, [Healthy EXCEPT !.balance = Null, !.peak = 0, !.beatMins = Null],
          [Healthy EXCEPT !.balance = 120, !.beatMins = 11]}]

HealthyRows == [a \in MCAgents |-> {Healthy}]

MCCfg == [DefaultLifecyclePolicyConfig EXCEPT !.maxDebt = 0]

=============================================================================
