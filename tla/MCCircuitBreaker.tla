-------------------------- MODULE MCCircuitBreaker --------------------------
(***************************************************************************)
(* Two goroutines besides Run.  The first deployment is the one the epoch   *)
(* loop uses; in the second an operator may trip and reset by hand while    *)
(* two epochs evaluate.                                                     *)
(***************************************************************************)
EXTENDS CircuitBreaker

CONSTANTS epochLoop, operator

MCCallers == {epochLoop, operator}

SingleUse == [c \in MCCallers |-> IF c = epochLoop THEN {"evaluate"} ELSE {}]
ManualUse == [c \in MCCallers |-> IF c = epochLoop THEN {"evaluate", "trip"} ELSE Ops]

MCDeployments == {SingleUse, ManualUse}
ManualDeployments == {ManualUse}

Calm == [snapshots |-> {}, funded |-> 0, stops |-> 0,
         requests |-> 0, errors |-> 0, windowMins |-> 5]

\* Each threshold exactly met and missed by one, and a first trigger that
\* hides the later ones.
MCOutcomes ==
    { Calm,
      [Calm EXCEPT !.snapshots = {[asset |-> "SOL", pct1h |-> -15, absPct |-> 0]},
                   !.funded = 2, !.stops = 2],
      [Calm EXCEPT !.snapshots = {[asset |-> "ETH", pct1h |-> 14, absPct |-> 14],
                                  [asset |-> "BTC", pct1h |-> 40, absPct |-> 40]}],
      [Calm EXCEPT !.funded = 3, !.stops = 1],
      [Calm EXCEPT !.funded = 4, !.stops = 2],
      [Calm EXCEPT !.requests = 10, !.errors = 3],
      [Calm EXCEPT !.requests = 10, !.errors = 3, !.windowMins = 4] }

=============================================================================
