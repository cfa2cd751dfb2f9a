------------------------ MODULE CircuitBreakerProofs ------------------------
(***************************************************************************)
(* Proofs about the circuit breaker, for any set of callers, any use they   *)
(* make of the API and any cooldown.                                        *)
(***************************************************************************)
EXTENDS CircuitBreaker, TLAPS

\* A goroutine about to enter Trip's critical section carries a real reason.
ArgSet == \A t \in Threads : pc[t] = "trip" => arg[t] # "none"

\* While no two windows have overlapped, at most one goroutine is between
\* its two writes, and the locked pair already shows what it will store.
WindowInv ==
    ~overlapped =>
        /\ \A t, u \in Writers : t = u
        /\ Writers = {} => (halted <=> trippedAge # NotTripped)
        /\ \A t \in Threads : pc[t] = "trip_store" => trippedAge # NotTripped
        /\ \A t \in Threads : pc[t] = "reset_store" => trippedAge = NotTripped

\* With a single evaluator the flag itself excludes: the evaluator is inside
\* Trip only while the flag is down, Run is inside maybeReset only while it
\* is up, and what Run has read is still the age of the last trip.
SingleInv ==
    SingleEvaluator =>
        /\ ~overlapped
        /\ pc[Runner] \notin {"trip", "trip_store"}
        /\ pc[Runner] \in {"poll_read", "poll_check", "reset", "reset_store"} => halted
        /\ \A c \in Callers : pc[c] \in {"idle", "trip", "trip_store"}
        /\ \A c \in Callers : pc[c] # "idle" => ~halted /\ uses[c] # {}
        /\ trippedAge # NotTripped => trippedAge = sinceTrip
        /\ pc[Runner] = "poll_check" => seen = trippedAge /\ seen # NotTripped
        /\ pc[Runner] \in {"reset", "reset_store"} => sinceTrip = Cooldown

BreakerInv == TypeOK /\ ArgSet /\ WindowInv /\ SingleInv

-----------------------------------------------------------------------------
\* FirstTrigger names a trigger or nothing, whatever the outcome.
LEMMA FirstTriggerType == \A o : FirstTrigger(o) \in Triggers \cup {"none"}
  BY DEF FirstTrigger, Triggers

\* The initial state satisfies the inductive invariant.
LEMMA InitInv == Init => BreakerInv
  <1> SUFFICES ASSUME Init PROVE BreakerInv
    OBVIOUS
  <1> USE CooldownAssumption, RunnerAssumption, NotTrippedAssumption
  <1>1. TypeOK
    <2>1. "idle" \in PCs /\ "none" \in Reasons
      BY DEF PCs, Reasons
    <2>2. NotTripped \in TripTimes /\ Cooldown \in Ages
      BY DEF TripTimes, Ages
    <2> QED BY <2>1, <2>2 DEF Init, TypeOK
  <1>2. ArgSet /\ WindowInv /\ SingleInv
    BY DEF Init, ArgSet, WindowInv, SingleInv, Writers, Threads
  <1> QED BY <1>1, <1>2 DEF BreakerInv

\* Every step preserves the types, the pairing of reason and time, and the
\* reasons that goroutines carry into Trip.
LEMMA TypeStep == TypeOK /\ ArgSet /\ [Next]_vars => TypeOK' /\ ArgSet'
  <1> SUFFICES ASSUME TypeOK, ArgSet, [Next]_vars PROVE TypeOK' /\ ArgSet'
    OBVIOUS
  <1> USE CooldownAssumption, RunnerAssumption, NotTrippedAssumption
  <1> USE DEF TypeOK, ArgSet, Goto, PCs, Threads
  <1>1. CASE UNCHANGED vars
    BY <1>1 DEF vars
  <1>2. ASSUME NEW c \in Callers, EvaluateTriggers(c) PROVE TypeOK' /\ ArgSet'
    BY <1>2, FirstTriggerType DEF EvaluateTriggers, Reasons
  <1>3. ASSUME NEW c \in Callers, CallTrip(c) PROVE TypeOK' /\ ArgSet'
    BY <1>3 DEF CallTrip, Reasons
  <1>4. ASSUME NEW c \in Callers, CallReset(c) PROVE TypeOK' /\ ArgSet'
    BY <1>4 DEF CallReset
  <1>5. ASSUME NEW t \in Threads, TripLocked(t) PROVE TypeOK' /\ ArgSet'
    BY <1>5 DEF TripLocked, TripTimes, Ages
  <1>6. ASSUME NEW t \in Threads, TripStore(t) PROVE TypeOK' /\ ArgSet'
    BY <1>6 DEF TripStore
  <1>7. ASSUME NEW t \in Threads, ResetLocked(t) PROVE TypeOK' /\ ArgSet'
    BY <1>7 DEF ResetLocked, TripTimes, Reasons
  <1>8. ASSUME NEW t \in Threads, ResetStore(t) PROVE TypeOK' /\ ArgSet'
    BY <1>8 DEF ResetStore
  <1>9. CASE PollHalted
    BY <1>9 DEF PollHalted
  <1>10. CASE PollRead
    BY <1>10 DEF PollRead
  <1>11. CASE PollCheck
    BY <1>11 DEF PollCheck, TripTimes
  <1>12. CASE Cancel
    BY <1>12 DEF Cancel
  <1>13. CASE Tick
    BY <1>13 DEF Tick, Older, TripTimes, Ages
  <1> QED BY <1>1, <1>2, <1>3, <1>4, <1>5, <1>6, <1>7, <1>8, <1>9, <1>10,
             <1>11, <1>12, <1>13 DEF Next, Finish

\* Every step preserves WindowInv: entering a window while another goroutine
\* is in one raises overlapped, and leaving one stores what the pair shows.
LEMMA WindowStep == TypeOK /\ WindowInv /\ [Next]_vars => WindowInv'
  <1> SUFFICES ASSUME TypeOK, WindowInv, [Next]_vars, ~overlapped' PROVE
          /\ \A t, u \in Writers' : t = u
          /\ Writers' = {} => (halted' <=> trippedAge' # NotTripped)
          /\ \A t \in Threads : pc'[t] = "trip_store" => trippedAge' # NotTripped
          /\ \A t \in Threads : pc'[t] = "reset_store" => trippedAge' = NotTripped
    BY DEF WindowInv
  <1> DEFINE Goal ==
          /\ \A t, u \in Writers' : t = u
          /\ Writers' = {} => (halted' <=> trippedAge' # NotTripped)
          /\ \A t \in Threads : pc'[t] = "trip_store" => trippedAge' # NotTripped
          /\ \A t \in Threads : pc'[t] = "reset_store" => trippedAge' = NotTripped
  <1> USE CooldownAssumption, RunnerAssumption, NotTrippedAssumption
  <1> USE DEF TypeOK, WindowInv, Goto, Writers, Threads
  <1>1. CASE UNCHANGED vars
    BY <1>1 DEF vars
  <1>2. ASSUME NEW c \in Callers, EvaluateTriggers(c) \/ CallTrip(c) \/ CallReset(c)
        PROVE Goal
    BY <1>2 DEF EvaluateTriggers, CallTrip, CallReset
  <1>3. ASSUME NEW t \in Threads, TripLocked(t) PROVE Goal
    <2>1. Writers = {} /\ ~overlapped
      BY <1>3 DEF TripLocked
    <2>2. Writers' = {t}
      BY <1>3, <2>1 DEF TripLocked
    <2> QED BY <1>3, <2>1, <2>2 DEF TripLocked
  <1>4. ASSUME NEW t \in Threads, TripStore(t) PROVE Goal
    BY <1>4 DEF TripStore
  <1>5. ASSUME NEW t \in Threads, ResetLocked(t) PROVE Goal
    <2>1. Writers = {} /\ ~overlapped
      BY <1>5 DEF ResetLocked
    <2>2. Writers' = {t}
      BY <1>5, <2>1 DEF ResetLocked
    <2> QED BY <1>5, <2>1, <2>2 DEF ResetLocked
  <1>6. ASSUME NEW t \in Threads, ResetStore(t) PROVE Goal
    BY <1>6 DEF ResetStore
  <1>7. CASE PollHalted \/ PollRead \/ PollCheck \/ Cancel
    BY <1>7 DEF PollHalted, PollRead, PollCheck, Cancel
  <1>8. CASE Tick
    BY <1>8 DEF Tick, Older, TripTimes, Ages
  <1> QED BY <1>1, <1>2, <1>3, <1>4, <1>5, <1>6, <1>7, <1>8 DEF Next, Finish

\* Every step preserves SingleInv.
LEMMA SingleStep == TypeOK /\ SingleInv /\ [Next]_vars => SingleInv'
  <1> SUFFICES ASSUME TypeOK, SingleInv, [Next]_vars, SingleEvaluator' PROVE
          SingleInv'
    BY DEF SingleInv
  <1> USE CooldownAssumption, RunnerAssumption, NotTrippedAssumption
  <1>0. SingleEvaluator
    <2>1. uses' = uses
      BY DEF Next, vars, EvaluateTriggers, CallTrip, CallReset, Finish, TripLocked,
             TripStore, ResetLocked, ResetStore, PollHalted, PollRead, PollCheck,
             Cancel, Tick
    <2> QED BY <2>1 DEF SingleEvaluator
  <1> USE DEF TypeOK, SingleInv, SingleEvaluator, Goto, Threads
  <1>1. CASE UNCHANGED vars
    BY <1>0, <1>1 DEF vars
  <1>2. ASSUME NEW c \in Callers, EvaluateTriggers(c) PROVE SingleInv'
    BY <1>0, <1>2 DEF EvaluateTriggers
  <1>3. ASSUME NEW c \in Callers, CallTrip(c) \/ CallReset(c) PROVE FALSE
    BY <1>0, <1>3 DEF CallTrip, CallReset
  <1>4. ASSUME NEW t \in Threads, TripLocked(t) PROVE SingleInv'
    <2>1. t \in Callers /\ ~halted
      BY <1>0, <1>4 DEF TripLocked
    <2>2. Writers = {}
      BY <1>0, <1>4, <2>1 DEF TripLocked, Writers
    <2> QED BY <1>0, <1>4, <2>1, <2>2 DEF TripLocked
  <1>5. ASSUME NEW t \in Threads, TripStore(t) PROVE SingleInv'
    BY <1>0, <1>5 DEF TripStore
  <1>6. ASSUME NEW t \in Threads, ResetLocked(t) PROVE SingleInv'
    <2>1. t = Runner /\ halted
      BY <1>0, <1>6 DEF ResetLocked
    <2>2. Writers = {}
      BY <1>0, <1>6, <2>1 DEF ResetLocked, Writers
    <2> QED BY <1>0, <1>6, <2>1, <2>2 DEF ResetLocked
  <1>7. ASSUME NEW t \in Threads, ResetStore(t) PROVE SingleInv'
    BY <1>0, <1>7 DEF ResetStore
  <1>8. CASE PollHalted
    BY <1>0, <1>8 DEF PollHalted
  <1>9. CASE PollRead
    BY <1>0, <1>9 DEF PollRead
  <1>10. CASE PollCheck
    BY <1>0, <1>10 DEF PollCheck, TripTimes, Ages
  <1>11. CASE Cancel
    BY <1>0, <1>11 DEF Cancel
  <1>12. CASE Tick
    BY <1>0, <1>12 DEF Tick, Older, TripTimes, Ages
  <1> QED BY <1>1, <1>2, <1>3, <1>4, <1>5, <1>6, <1>7, <1>8, <1>9, <1>10,
             <1>11, <1>12 DEF Next, Finish

\* The inductive invariant holds in every reachable state.
LEMMA Invariance == Spec => []BreakerInv
  <1>1. BreakerInv /\ [Next]_vars => BreakerInv'
    BY TypeStep, WindowStep, SingleStep DEF BreakerInv
  <1> QED BY <1>1, InitInv, PTL DEF Spec

-----------------------------------------------------------------------------
\* The variables keep their types, and reason and trip time are always set
\* and cleared together.
THEOREM TypeCorrect == Spec => []TypeOK
  <1>1. BreakerInv => TypeOK
    BY DEF BreakerInv
  <1> QED BY <1>1, Invariance, PTL

\* However Trip and Reset interleave, the flag disagrees with the locked pair
\* in a quiescent state only after two of them have overlapped.
THEOREM Coherence == Spec => []CoherentUnlessOverlapped
  <1>1. BreakerInv => CoherentUnlessOverlapped
    BY DEF BreakerInv, WindowInv, CoherentUnlessOverlapped
  <1> QED BY <1>1, Invariance, PTL

\* A single evaluator beside Run never makes two windows overlap, so with
\* Coherence the flag and the locked pair always agree in that deployment.
THEOREM NoOverlap == Spec => []SingleEvaluatorNeverOverlaps
  <1>1. BreakerInv => SingleEvaluatorNeverOverlaps
    BY DEF BreakerInv, SingleInv, SingleEvaluatorNeverOverlaps
  <1> QED BY <1>1, Invariance, PTL

\* With a single evaluator, the flag is cleared only a full cooldown after
\* the last trip.
THEOREM Cooldowns == Spec => CooldownRespected
  <1>1. BreakerInv /\ [Next]_vars =>
          [(SingleEvaluator /\ halted /\ ~halted') => sinceTrip >= Cooldown]_vars
    <2> SUFFICES ASSUME BreakerInv, Next, SingleEvaluator, halted, ~halted'
                 PROVE  sinceTrip >= Cooldown
      BY DEF vars
    <2>1. \E t \in Threads : ResetStore(t)
      BY DEF Next, EvaluateTriggers, CallTrip, CallReset, Finish, TripLocked,
             TripStore, ResetLocked, PollHalted, PollRead, PollCheck, Cancel, Tick
    <2>2. pc[Runner] = "reset_store"
      BY <2>1 DEF ResetStore, BreakerInv, SingleInv, Threads
    <2> QED BY <2>2, CooldownAssumption DEF BreakerInv, SingleInv
  <1> QED BY <1>1, Invariance, PTL DEF Spec, CooldownRespected

=============================================================================
