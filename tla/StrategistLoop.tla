---------------------------- MODULE StrategistLoop ----------------------------
(***************************************************************************)
(* The slow loops of the nodes: the strategist ticker, the sleep schedule   *)
(* of shadow nodes, the slots the scheduler hands out for LLM calls, and    *)
(* one cycle of the strategist (internal/runtime/node_runner.go,            *)
(* scheduler.go and hibernation.go, internal/agent/strategist.go).          *)
(*                                                                         *)
(* Time is the phase of the strategist interval.  A ticker fires at the     *)
(* phase its node was started in; the sleep schedule is anchored to the     *)
(* creation of the agent.  A loop at its select takes a tick at once, so    *)
(* the clock does not run past it; a loop that waits or calls is slow, and  *)
(* the ticker keeps one tick for it.                                        *)
(***************************************************************************)
EXTENDS Integers, Sequences, FiniteSets, SequencesExt

CONSTANTS
    Nodes,       \* the agents that have a runner
    Shadows,     \* those of class "shadow" with a sleep schedule
    Anchor,      \* node -> phase the agent was created in
    MaxLLM,      \* slots of the scheduler
    Interval,    \* StrategistInterval
    AwakeWindow, \* AwakeWindowMinutes, in the same unit
    Responses,   \* what the LLM may answer: [text, signal, changes]
    Known,       \* the keys the task knows
    Refused,     \* a value of a type the task refuses
    None

ASSUME MaxLLMAssumption == MaxLLM \in Nat \ {0}
ASSUME IntervalAssumption == Interval \in Nat \ {0} /\ AwakeWindow \in Nat
ASSUME NodesAssumption ==
    /\ IsFiniteSet(Nodes) /\ Shadows \subseteq Nodes
    /\ Anchor \in [Nodes -> 0 .. Interval - 1]

VARIABLES
    now,     \* phase of the clock
    start,   \* node -> phase its runner was started in
    live,    \* node -> is its context not cancelled?
    paused,  \* node -> the pause flag
    halted,  \* the circuit breaker is tripped
    pending, \* node -> does the ticker's channel hold a tick?
    stage,   \* node -> where its strategist loop is
    waiters, \* the waiting list of the semaphore, in order
    answer,  \* node -> the response being applied, or None
    landed,  \* history: node -> keys of the task its last cycle changed
    row      \* node -> the decision row its last cycle wrote, or None

vars == <<now, start, live, paused, halted, pending, stage, waiters, answer, landed, row>>

Stages == {"idle", "waiting", "building", "calling", "persisting"}

TypeOK ==
    /\ now \in 0 .. Interval - 1
    /\ start \in [Nodes -> 0 .. Interval - 1]
    /\ live \in [Nodes -> BOOLEAN] /\ paused \in [Nodes -> BOOLEAN] /\ halted \in BOOLEAN
    /\ pending \in [Nodes -> BOOLEAN]
    /\ stage \in [Nodes -> Stages]
    /\ waiters \in Seq(Nodes)
    /\ landed \in [Nodes -> SUBSET Known]

Init ==
    /\ now = 0
    /\ start \in [Nodes -> 0 .. Interval - 1]
    /\ live = [n \in Nodes |-> TRUE]
    /\ paused = [n \in Nodes |-> FALSE]
    /\ halted = FALSE
    /\ pending = [n \in Nodes |-> FALSE]
    /\ stage = [n \in Nodes |-> "idle"]
    /\ waiters = <<>>
    /\ answer = [n \in Nodes |-> None]
    /\ landed = [n \in Nodes |-> {}]
    /\ row = [n \in Nodes |-> None]

-----------------------------------------------------------------------------
(* The sleep schedule *)

\* Variant: only the half of the window after the boundary counts.
IsAwakeAtAfter(phase) == phase < AwakeWindow \div 2

\* isAwakeAt: within half a window of a boundary of the cycle.
IsAwakeAt(phase) ==
    LET half == AwakeWindow \div 2
    IN  phase < half \/ phase >= Interval - half

\* Decide, through IsAwake: a funded node, a schedule without a window and a
\* window as long as the interval are always awake.
IsAwake(n, t) ==
    \/ n \notin Shadows
    \/ AwakeWindow = 0
    \/ AwakeWindow >= Interval
    \/ IsAwakeAt((t - Anchor[n]) % Interval)

-----------------------------------------------------------------------------
(* The slots *)

Holders == {n \in Nodes : stage[n] \in {"building", "calling", "persisting"}}

\* Variant: a slot that is given back wakes nobody.
AfterReleaseForgets(n, st) == [stage |-> st, waiters |-> waiters]

\* Release: the slot goes to the first in the list, if there is one.
AfterRelease(n, st) ==
    IF waiters = <<>> THEN [stage |-> st, waiters |-> waiters]
    ELSE [stage |-> [st EXCEPT ![Head(waiters)] = "building"], waiters |-> Tail(waiters)]

\* A cycle ends, whatever the path: the deferred Release runs.
EndCycle(n) ==
    LET r == AfterRelease(n, [stage EXCEPT ![n] = "idle"])
    IN  stage' = r.stage /\ waiters' = r.waiters

-----------------------------------------------------------------------------
(* The loop and its cycle *)

\* A tick is dropped while the node is paused, the breaker is tripped or the
\* node sleeps; else the loop asks for a slot, behind those that wait.
TakeTick(n) ==
    /\ stage[n] = "idle" /\ live[n] /\ pending[n]
    /\ pending' = [pending EXCEPT ![n] = FALSE]
    /\ \/ /\ paused[n] \/ halted \/ ~IsAwake(n, now)
          /\ UNCHANGED <<stage, waiters, landed, row>>
       \/ /\ ~paused[n] /\ ~halted /\ IsAwake(n, now)
          /\ landed' = [landed EXCEPT ![n] = {}]
          /\ row' = [row EXCEPT ![n] = None]
          /\ IF Cardinality(Holders) < MaxLLM /\ waiters = <<>>
             THEN stage' = [stage EXCEPT ![n] = "building"] /\ UNCHANGED waiters
             ELSE /\ stage' = [stage EXCEPT ![n] = "waiting"]
                  /\ waiters' = Append(waiters, n)
    /\ UNCHANGED <<now, start, live, paused, halted, answer>>

\* Acquire returns the error of a cancelled context; its element leaves the
\* list.
GiveUpWaiting(n) ==
    /\ stage[n] = "waiting" /\ ~live[n]
    /\ stage' = [stage EXCEPT ![n] = "idle"]
    /\ \E i \in DOMAIN waiters : waiters[i] = n /\ waiters' = RemoveAt(waiters, i)
    /\ UNCHANGED <<now, start, live, paused, halted, pending, answer, landed, row>>

\* buildInput: the task's summary may fail and end the cycle.
BuildInput(n) ==
    /\ stage[n] = "building"
    /\ \/ stage' = [stage EXCEPT ![n] = "calling"] /\ UNCHANGED waiters
       \/ EndCycle(n)
    /\ UNCHANGED <<now, start, live, paused, halted, pending, answer, landed, row>>

\* The LLM call fails: no row.
CallFails(n) ==
    /\ stage[n] = "calling"
    /\ EndCycle(n)
    /\ UNCHANGED <<now, start, live, paused, halted, pending, answer, landed, row>>

\* parseStrategistResponse: the first balanced object, in fences or not.
Parses(r) == r.text \in {"object", "fenced"}

Rejected(r) == \E k \in DOMAIN r.changes \cap Known : r.changes[k] = Refused

\* ApplyAdjustments: the map is walked in any order up to a refused value.
Landings(r) ==
    LET good == {k \in DOMAIN r.changes \cap Known : r.changes[k] # Refused}
    IN  IF ~Parses(r) THEN {{}} ELSE IF Rejected(r) THEN SUBSET good ELSE {good}

\* The LLM answers; the response is parsed and its changes are applied.
CallReturns(n) ==
    /\ stage[n] = "calling"
    /\ \E r \in Responses :
         /\ answer' = [answer EXCEPT ![n] = r]
         /\ \E keys \in Landings(r) : landed' = [landed EXCEPT ![n] = keys]
    /\ stage' = [stage EXCEPT ![n] = "persisting"]
    /\ UNCHANGED <<now, start, live, paused, halted, pending, waiters, row>>

ActionSignals == {"", "continue", "pause", "aggressive", "defensive"}

\* Variant: the changes are recorded whether or not the task took them.
DecisionOptimistic(r) ==
    [notes |-> IF Parses(r) THEN {} ELSE {"parse_error"}, changes |-> DOMAIN r.changes]

\* The decision row: what went wrong is noted in its reasoning, and changes
\* the task refused are left out.
Decision(r) ==
    IF ~Parses(r) THEN [notes |-> {"parse_error"}, changes |-> {}]
    ELSE [notes |-> {note \in {"unknown_action_signal", "apply_error"} :
                        IF note = "apply_error" THEN Rejected(r)
                        ELSE r.signal \notin ActionSignals},
          changes |-> IF Rejected(r) THEN {} ELSE DOMAIN r.changes]

\* LogStrategistDecision, which may fail.
Persist(n) ==
    /\ stage[n] = "persisting"
    /\ \/ live[n] /\ row' = [row EXCEPT ![n] = Decision(answer[n])]
       \/ UNCHANGED row
    /\ answer' = [answer EXCEPT ![n] = None]
    /\ EndCycle(n)
    /\ UNCHANGED <<now, start, live, paused, halted, pending, landed>>

-----------------------------------------------------------------------------
(* The environment *)

\* Time passes, and the tickers whose phase it is fire; a tick for a channel
\* that is full is lost.
Clock ==
    LET t == (now + 1) % Interval
    IN  /\ \A n \in Nodes : ~(stage[n] = "idle" /\ live[n] /\ pending[n])
        /\ now' = t
        /\ pending' = [n \in Nodes |-> pending[n] \/ (live[n] /\ start[n] = t)]
        /\ UNCHANGED <<start, live, paused, halted, stage, waiters, answer, landed, row>>

\* Pause, Resume.
SetPaused(n, p) ==
    /\ paused[n] # p
    /\ paused' = [paused EXCEPT ![n] = p]
    /\ UNCHANGED <<now, start, live, halted, pending, stage, waiters, answer, landed, row>>

\* The breaker trips or is reset.
SetHalted ==
    /\ halted' = ~halted
    /\ UNCHANGED <<now, start, live, paused, pending, stage, waiters, answer, landed, row>>

\* The runner's context is cancelled.
Cancel(n) ==
    /\ live[n]
    /\ live' = [live EXCEPT ![n] = FALSE]
    /\ UNCHANGED <<now, start, paused, halted, pending, stage, waiters, answer, landed, row>>

\* A new runner of the agent, with a new ticker, once the old one is gone.
Restart(n) ==
    /\ ~live[n] /\ stage[n] = "idle"
    /\ live' = [live EXCEPT ![n] = TRUE]
    /\ start' = [start EXCEPT ![n] = now]
    /\ pending' = [pending EXCEPT ![n] = FALSE]
    /\ paused' = [paused EXCEPT ![n] = FALSE]
    /\ UNCHANGED <<now, halted, stage, waiters, answer, landed, row>>

Work(n) ==
    \/ TakeTick(n) \/ GiveUpWaiting(n) \/ BuildInput(n) \/ CallFails(n) \/ CallReturns(n)
    \/ Persist(n)

Next ==
    \/ \E n \in Nodes : Work(n) \/ Cancel(n) \/ Restart(n) \/ \E p \in BOOLEAN : SetPaused(n, p)
    \/ Clock \/ SetHalted

\* Loops that can go on do: the LLM clients have a timeout, and the insert of
\* the decision row, whose context has none, is assumed to end.  Time passes.
Spec ==
    /\ Init /\ [][Next]_vars
    /\ \A n \in Nodes : WF_vars(Work(n))
    /\ WF_vars(Clock)

-----------------------------------------------------------------------------

\* Nobody waits for a slot forever: every path out of a cycle gives the slot
\* back, to the node that has waited longest, and a node that is stopped while
\* it waits leaves the list (node_runner.go:301-322, scheduler.go:64-80).
WaitersServed == \A n \in Nodes : stage[n] = "waiting" ~> stage[n] # "waiting"

\* The phases no further from a boundary of the sleep cycle than half the
\* window; all of them for a node that never sleeps.
AlignedPhases(n) ==
    LET after(t) == (t - Anchor[n]) % Interval
    IN  {t \in 0 .. Interval - 1 :
            n \in Shadows => 2 * after(t) < AwakeWindow \/ 2 * (Interval - after(t)) <= AwakeWindow}

\* A node that is no longer paused, halted or stopped, and whose ticker fires
\* near a boundary of its sleep cycle or that does not sleep, has strategist
\* cycles for ever, although other nodes compete for the slots and ticks are
\* dropped or come late (node_runner.go:258-297, hibernation.go:60-122).
StrategistKeepsRunning ==
    \A n \in Nodes :
        <>[](live[n] /\ ~paused[n] /\ ~halted /\ start[n] \in AlignedPhases(n))
            => []<>(stage[n] = "building")

\* A decision row with config changes means that the task took every change it
\* knows, and a row of a response that did not parse means that it took none;
\* a row written while the node was paused or stopped is no exception
\* (strategist.go:149-220).
RowsTellWhatLanded ==
    \A n \in Nodes :
        row[n] # None =>
            /\ row[n].changes # {} => landed[n] = row[n].changes \cap Known
            /\ "parse_error" \in row[n].notes => landed[n] = {}

=============================================================================
