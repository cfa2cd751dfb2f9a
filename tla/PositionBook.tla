---------------------------- MODULE PositionBook ----------------------------
(***************************************************************************)
(* The capital of a trading task, whatever its strategy: some of it is free *)
(* and the rest is in positions, and both change only by opening, by moving *)
(* and by closing positions.  Every dollar is accounted for: what a task    *)
(* has is what it was seeded with plus what its trades report, their PnL    *)
(* less the fees they paid.                                                 *)
(***************************************************************************)
EXTENDS Integers

VARIABLES
    free,    \* capital that is not deployed
    held,    \* capital in open positions, at cost
    booked,  \* PnL less fees of the trades so far
    bullish  \* can a position of this strategy be closed at a profit?

\* What is there changes by what is reported, to the dollar.
Balanced == free' + held' = free + held + (booked' - booked)

Init == free \in Nat /\ held = 0 /\ booked = 0

\* Opening takes no more than there is and reports nothing.
Open ==
    /\ held = 0 /\ held' > 0
    /\ free' >= 0 /\ booked' = booked
    /\ Balanced

\* All positions are exchanged for others; that may cost something, and earns
\* nothing.
Move ==
    /\ held > 0 /\ held' > 0
    /\ free' >= 0 /\ booked' <= booked
    /\ Balanced

\* Everything is closed, for no less than nothing; only a position on the price
\* itself can have gained.
Close ==
    /\ held > 0 /\ held' = 0
    /\ free' >= free /\ (booked' > booked => bullish)
    /\ Balanced

Next == Open \/ Move \/ Close

Spec == Init /\ [][Next]_<<free, held, booked>>

=============================================================================
