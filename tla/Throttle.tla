------------------------------- MODULE Throttle -------------------------------
(***************************************************************************)
(* The token bucket and the cooldowns of the notifier                       *)
(* (internal/notifications/throttle.go).  An hour has Hour units of time;   *)
(* the bucket is in parts of a token, Hour parts to a token, so HourlyCap   *)
(* parts flow in per unit.  The clock of the process is monotonic.          *)
(***************************************************************************)
EXTENDS Integers

CONSTANTS
    HourlyCap, \* tokens of a full bucket, and of an hour's refill
    Hour,      \* units in an hour
    Cooldown,  \* units between two messages of one type
    EventTypes

ASSUME ThrottleAssumption ==
    HourlyCap \in Nat \ {0} /\ Hour \in Nat \ {0} /\ Cooldown \in 0 .. Hour

VARIABLES
    level,   \* parts in the bucket at the last refill
    idle,    \* units since the last refill, at most Hour
    sentAge, \* event type -> units since it was admitted, at most Cooldown
    admitted \* history: age -> messages admitted at most that many units ago

throttleVars == <<level, idle, sentAge, admitted>>

Full == HourlyCap * Hour

\* NewThrottle.
ThrottleInit ==
    /\ level = Full
    /\ idle = 0
    /\ sentAge = [e \in EventTypes |-> Cooldown]
    /\ admitted = [a \in 0 .. Hour - 1 |-> 0]

\* Variant: the bucket overflows.
RefilledUnbounded == level + idle * HourlyCap

\* refillLocked.
Refilled == IF level + idle * HourlyCap > Full THEN Full ELSE level + idle * HourlyCap

CanSend(e) == sentAge[e] >= Cooldown /\ Refilled >= Hour

\* Allow answers yes: the token is gone and the cooldown begins, whatever
\* becomes of the message.
Admit(e) ==
    /\ CanSend(e)
    /\ level' = Refilled - Hour
    /\ idle' = 0
    /\ sentAge' = [sentAge EXCEPT ![e] = 0]
    /\ admitted' = [a \in 0 .. Hour - 1 |-> admitted[a] + 1]

\* Allow answers no, after its refill.
Refuse(e) ==
    /\ ~CanSend(e)
    /\ level' = Refilled
    /\ idle' = 0
    /\ UNCHANGED <<sentAge, admitted>>

ThrottleClock ==
    /\ idle' = IF idle < Hour THEN idle + 1 ELSE idle
    /\ sentAge' = [e \in EventTypes |-> IF sentAge[e] < Cooldown THEN sentAge[e] + 1 ELSE Cooldown]
    /\ admitted' = [a \in 0 .. Hour - 1 |-> IF a = 0 THEN 0 ELSE admitted[a - 1]]
    /\ UNCHANGED level

=============================================================================
