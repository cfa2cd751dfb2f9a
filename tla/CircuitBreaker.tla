--------------------------- MODULE CircuitBreaker ---------------------------
(***************************************************************************)
(* The process-wide circuit breaker of internal/runtime/circuit_breaker.go. *)
(* The breaker keeps an atomic flag (halted) and, under a mutex, the reason *)
(* and the time of the last trip.  Trip and Reset write the locked pair     *)
(* first and the flag afterwards, in two separate steps, so calls of        *)
(* different goroutines interleave between the two.  Every step below is    *)
(* one atomic access of the code: one critical section of mu, one Load or   *)
(* one Store of halted, one reading of the clock.                           *)
(*                                                                          *)
(* trippedAt is represented by its age, the time since the trip, which      *)
(* saturates at Cooldown: the code only ever asks whether the age has       *)
(* reached Cooldown.                                                        *)
(***************************************************************************)
EXTENDS Integers

CONSTANTS
    Callers,    \* goroutines that call Trip, Reset or EvaluateTriggers
    Runner,     \* the goroutine inside CircuitBreaker.Run
    Deployments,\* the ways a process uses the breaker: caller -> operations
    Outcomes,   \* the EpochOutcome values EvaluateTriggers may be given
    Cooldown,   \* BreakerConfig.Cooldown, in clock ticks
    NotTripped  \* the zero time.Time of trippedAt

Ops == {"trip", "reset", "evaluate"}

ASSUME CooldownAssumption == Cooldown \in Nat \ {0}
ASSUME RunnerAssumption == Runner \notin Callers
ASSUME DeploymentsAssumption == Deployments \subseteq [Callers -> SUBSET Ops]
ASSUME NotTrippedAssumption == NotTripped \notin Int

Threads == Callers \cup {Runner}
Ages == 0 .. Cooldown
TripTimes == Ages \cup {NotTripped}
Triggers == {"market_crash", "mass_stop_out", "rpc_error_burst"}
Reasons == {"none", "manual_override"} \cup Triggers

VARIABLES
    halted,     \* CircuitBreaker.halted
    reason,     \* CircuitBreaker.reason, guarded by mu
    trippedAge, \* age of CircuitBreaker.trippedAt, guarded by mu
    pc,         \* what each goroutine does next
    arg,        \* the reason a goroutine inside Trip was called with
    seen,       \* maybeReset's local copy of trippedAt, as an age
    uses,       \* uses[c]: the operations goroutine c calls; never changes
    sinceTrip,  \* history: age of the last Trip's locked write
    overlapped  \* history: did a Trip or Reset start inside another's window?

vars == <<halted, reason, trippedAge, pc, arg, seen, uses, sinceTrip, overlapped>>

PCs == {"idle", "trip", "trip_store", "reset", "reset_store",
        "poll_read", "poll_check", "stopped"}

\* Goroutines between the locked write and the Store of the flag.
Writers == {t \in Threads : pc[t] \in {"trip_store", "reset_store"}}

Goto(t, label) == pc' = [pc EXCEPT ![t] = label]

Init ==
    /\ halted = FALSE
    /\ reason = "none"
    /\ trippedAge = NotTripped
    /\ pc = [t \in Threads |-> "idle"]
    /\ arg = [t \in Threads |-> "none"]
    /\ seen = NotTripped
    /\ uses \in Deployments
    /\ sinceTrip = Cooldown
    /\ overlapped = FALSE

-----------------------------------------------------------------------------
(* EvaluateTriggers.  Percentages are integers, so the code's fractions     *)
(* become cross-multiplied comparisons.                                     *)

Magnitude(snap) ==
    IF snap.absPct # 0 THEN snap.absPct
    ELSE IF snap.pct1h < 0 THEN -snap.pct1h ELSE snap.pct1h

MarketMoved(o) ==
    \E snap \in o.snapshots : snap.asset \in {"SOL", "ETH"} /\ Magnitude(snap) >= 15

MassStopOut(o) == o.funded > 0 /\ 2 * o.stops >= o.funded

RPCBurst(o) ==
    o.requests > 0 /\ o.windowMins >= 5 /\ 10 * o.errors >= 3 * o.requests

FirstTrigger(o) ==
    CASE MarketMoved(o) -> "market_crash"
      [] ~MarketMoved(o) /\ MassStopOut(o) -> "mass_stop_out"
      [] ~MarketMoved(o) /\ ~MassStopOut(o) /\ RPCBurst(o) -> "rpc_error_burst"
      [] OTHER -> "none"

\* Variant: the flag is not read first.
EvaluateTriggersUnguarded(c) ==
    /\ pc[c] = "idle" /\ "evaluate" \in uses[c]
    /\ \E o \in Outcomes :
         /\ FirstTrigger(o) # "none"
         /\ arg' = [arg EXCEPT ![c] = FirstTrigger(o)]
    /\ Goto(c, "trip")
    /\ UNCHANGED <<uses, halted, reason, trippedAge, seen, sinceTrip, overlapped>>

\* The flag is read first: on a halted breaker, and when no trigger fires,
\* the call returns and changes nothing.  Otherwise it goes on to Trip.
EvaluateTriggers(c) ==
    /\ pc[c] = "idle" /\ "evaluate" \in uses[c]
    /\ ~halted
    /\ \E o \in Outcomes :
         /\ FirstTrigger(o) # "none"
         /\ arg' = [arg EXCEPT ![c] = FirstTrigger(o)]
    /\ Goto(c, "trip")
    /\ UNCHANGED <<uses, halted, reason, trippedAge, seen, sinceTrip, overlapped>>

\* Trip called from outside EvaluateTriggers: the manual override.
CallTrip(c) ==
    /\ pc[c] = "idle" /\ "trip" \in uses[c]
    /\ arg' = [arg EXCEPT ![c] = "manual_override"]
    /\ Goto(c, "trip")
    /\ UNCHANGED <<uses, halted, reason, trippedAge, seen, sinceTrip, overlapped>>

CallReset(c) ==
    /\ pc[c] = "idle" /\ "reset" \in uses[c]
    /\ Goto(c, "reset")
    /\ UNCHANGED <<uses, halted, reason, trippedAge, arg, seen, sinceTrip, overlapped>>

-----------------------------------------------------------------------------
(* Trip and Reset: the critical section of mu, then the Store of halted.    *)

\* Variant: the trip time is not recorded.
TripLockedNoTime(c) ==
    /\ pc[c] = "trip"
    /\ reason' = arg[c]
    /\ sinceTrip' = 0
    /\ overlapped' = (overlapped \/ Writers # {})
    /\ Goto(c, "trip_store")
    /\ UNCHANGED <<uses, halted, trippedAge, arg, seen>>

TripLocked(c) ==
    /\ pc[c] = "trip"
    /\ reason' = arg[c]
    /\ trippedAge' = 0
    /\ sinceTrip' = 0
    /\ overlapped' = (overlapped \/ Writers # {})
    /\ Goto(c, "trip_store")
    /\ UNCHANGED <<uses, halted, arg, seen>>

\* Variant: the flag is not set.
TripStoreForgets(c) ==
    /\ pc[c] = "trip_store"
    /\ Goto(c, "idle")
    /\ UNCHANGED <<uses, halted, reason, trippedAge, arg, seen, sinceTrip, overlapped>>

TripStore(c) ==
    /\ pc[c] = "trip_store"
    /\ halted' = TRUE
    /\ Goto(c, "idle")
    /\ UNCHANGED <<uses, reason, trippedAge, arg, seen, sinceTrip, overlapped>>

ResetLocked(t) ==
    /\ pc[t] = "reset"
    /\ reason' = "none"
    /\ trippedAge' = NotTripped
    /\ overlapped' = (overlapped \/ Writers # {})
    /\ Goto(t, "reset_store")
    /\ UNCHANGED <<uses, halted, arg, seen, sinceTrip>>

ResetStore(t) ==
    /\ pc[t] = "reset_store"
    /\ halted' = FALSE
    /\ Goto(t, "idle")
    /\ UNCHANGED <<uses, reason, trippedAge, arg, seen, sinceTrip, overlapped>>

-----------------------------------------------------------------------------
(* Run: one maybeReset per tick, until the context is cancelled.            *)

\* maybeReset's Load of the flag; a breaker that is not halted is left alone.
PollHalted ==
    /\ pc[Runner] = "idle"
    /\ halted
    /\ Goto(Runner, "poll_read")
    /\ UNCHANGED <<uses, halted, reason, trippedAge, arg, seen, sinceTrip, overlapped>>

\* maybeReset copies trippedAt under mu and returns when it is zero.
PollRead ==
    /\ pc[Runner] = "poll_read"
    /\ seen' = trippedAge
    /\ Goto(Runner, IF trippedAge = NotTripped THEN "idle" ELSE "poll_check")
    /\ UNCHANGED <<uses, halted, reason, trippedAge, arg, sinceTrip, overlapped>>

\* Variant: one tick too early.
PollCheckEarly ==
    /\ pc[Runner] = "poll_check"
    /\ Goto(Runner, IF seen >= Cooldown - 1 THEN "reset" ELSE "idle")
    /\ seen' = NotTripped
    /\ UNCHANGED <<uses, halted, reason, trippedAge, arg, sinceTrip, overlapped>>

\* maybeReset compares the copy with the clock and calls Reset.
PollCheck ==
    /\ pc[Runner] = "poll_check"
    /\ Goto(Runner, IF seen >= Cooldown THEN "reset" ELSE "idle")
    /\ seen' = NotTripped
    /\ UNCHANGED <<uses, halted, reason, trippedAge, arg, sinceTrip, overlapped>>

\* ctx.Done() wins the select of Run.
Cancel ==
    /\ pc[Runner] = "idle"
    /\ Goto(Runner, "stopped")
    /\ UNCHANGED <<uses, halted, reason, trippedAge, arg, seen, sinceTrip, overlapped>>

-----------------------------------------------------------------------------
Older(age) == IF age \in Ages /\ age < Cooldown THEN age + 1 ELSE age

\* The clock advances.
Tick ==
    /\ trippedAge' = Older(trippedAge)
    /\ seen' = Older(seen)
    /\ sinceTrip' = Older(sinceTrip)
    /\ UNCHANGED <<uses, halted, reason, pc, arg, overlapped>>

Finish(t) == TripLocked(t) \/ TripStore(t) \/ ResetLocked(t) \/ ResetStore(t)

Next ==
    \/ \E c \in Callers : EvaluateTriggers(c) \/ CallTrip(c) \/ CallReset(c)
    \/ \E t \in Threads : Finish(t)
    \/ PollHalted \/ PollRead \/ PollCheck \/ Cancel
    \/ Tick

Spec == Init /\ [][Next]_vars

\* The clock runs, the ticker of Run keeps firing, and a goroutine inside
\* Trip or Reset (straight-line code) reaches its end.  Nobody is obliged to
\* call the breaker, and the context need not ever be cancelled.
Fairness ==
    /\ WF_vars(Tick)
    /\ WF_vars(PollHalted) /\ WF_vars(PollRead) /\ WF_vars(PollCheck)
    /\ \A t \in Threads : WF_vars(Finish(t))

FairSpec == Spec /\ Fairness

-----------------------------------------------------------------------------
\* The deployment the comments describe: one goroutine, the epoch loop,
\* evaluates the triggers and nobody overrides the breaker by hand.
SingleEvaluator ==
    /\ \A c \in Callers : uses[c] \subseteq {"evaluate"}
    /\ \A c, d \in Callers : uses[c] # {} /\ uses[d] # {} => c = d

\* Types of the variables; the locked pair is set and cleared together.
TypeOK ==
    /\ halted \in BOOLEAN
    /\ reason \in Reasons
    /\ trippedAge \in TripTimes
    /\ reason = "none" <=> trippedAge = NotTripped
    /\ pc \in [Threads -> PCs]
    /\ arg \in [Threads -> Reasons]
    /\ seen \in TripTimes
    /\ uses \in Deployments
    /\ sinceTrip \in Ages
    /\ overlapped \in BOOLEAN

\* The flag that NodeRunners read agrees with the reason and time that Reason
\* and TrippedAt report whenever no Trip or Reset is between its two writes,
\* unless two of them have overlapped (Trip, Reset: circuit_breaker.go 87-105).
CoherentUnlessOverlapped ==
    (Writers = {} /\ ~overlapped) => (halted <=> trippedAge # NotTripped)

\* With a single evaluator no Trip or Reset ever starts inside the window of
\* another: EvaluateTriggers trips only a breaker that is not halted and
\* maybeReset resets only one that is, so the unlocked flag is enough.
SingleEvaluatorNeverOverlaps == SingleEvaluator => ~overlapped

\* "the cooldown restarts from now": with a single evaluator the auto-reset
\* of maybeReset clears the flag only when the last trip is Cooldown old.
CooldownRespected ==
    [][(SingleEvaluator /\ halted /\ ~halted') => sinceTrip >= Cooldown]_vars

\* With a single evaluator a tripped breaker auto-resets, as long as Run runs.
AutoResetsSingle ==
    (SingleEvaluator /\ halted) ~> (~halted \/ pc[Runner] = "stopped")

\* "A tripped breaker auto-resets after Cooldown", for every use of the API:
\* once the callers leave the breaker alone the flag is cleared, unless Run
\* is stopped (circuit_breaker.go 35-38).
AutoResets ==
    <>[](\A c \in Callers : pc[c] = "idle")
        => (halted ~> (~halted \/ pc[Runner] = "stopped"))

=============================================================================
