---------------------------- MODULE SwarmRuntime ----------------------------
(***************************************************************************)
(* The agent lifecycle: LifecycleManager writes a status row and then       *)
(* publishes a lifecycle:* event (internal/runtime/lifecycle.go), and the   *)
(* SwarmRuntime of the same process turns the events it receives into       *)
(* NodeRunner goroutines (internal/runtime/swarm.go, node_runner.go).       *)
(*                                                                          *)
(* The rows survive a crash; handles, goroutines, the subscription and      *)
(* undelivered events do not.  The manager's caller is the epoch loop,      *)
(* which kills and pauses live agents and resumes paused ones; it performs  *)
(* one operation at a time.                                                 *)
(***************************************************************************)
EXTENDS Integers, Sequences, FiniteSets

CONSTANTS
    Agents,     \* agent ids
    Rows,       \* the agents table an earlier process may have left
    Broken,     \* agents whose row startFromRow refuses (task or model unknown)
    Holders,    \* agents whose task holds positions between ticks
    NoAgent,    \* the agent of an unused runner slot
    MaxSlots,   \* bound: runner goroutines alive at once
    MaxMoves    \* bound: operations, failures and crashes together

ASSUME AgentsAssumption ==
    Broken \subseteq Agents /\ Holders \subseteq Agents /\ NoAgent \notin Agents
ASSUME RowsAssumption == Rows \subseteq [Agents -> {"absent", "active", "paused", "dead"}]
ASSUME BoundsAssumption ==
    MaxSlots \in Nat \ {0} /\ MaxMoves \in Nat

Slots == 1 .. MaxSlots

\* The slots are enough for every agent to have one.
ASSUME SlotsAssumption ==
    \E f \in [Agents -> Slots] : \A a, b \in Agents : f[a] = f[b] => a = b

NoSlot == 0
EventOps == {"spawn", "kill", "pause", "resume"}
Events == [op : EventOps, agent : Agents]
NoEvent == [op |-> "none", agent |-> NoAgent]

VARIABLES
    status,   \* agents.status: the database row of each agent
    pending,  \* the event between the row's write and its publish
    inbox,    \* events in the subscription's channel
    phase,    \* where the process is between boot and exit
    runners,  \* SwarmRuntime.runners: agent -> slot of its handle
    slot,     \* the NodeRunner goroutines
    waiting,  \* slots whose done channel stop or stopAll is waiting on
    missed,   \* history: agents with an event that never took effect
    moves     \* operations, failures and crashes so far

vars == <<status, pending, inbox, phase, runners, slot, waiting, missed, moves>>

\* The environment spends one of its MaxMoves moves.
Move == moves < MaxMoves /\ moves' = moves + 1

\* "booted": LoadAndStart has returned and Run has not subscribed yet.
\* "stopping": the context is cancelled, Run has not selected it yet.
\* "drained": stopAll is waiting, or Run has returned.  "deaf": Run returned
\* because its channel was closed, while the rest of the process goes on.
Phases == {"down", "booted", "running", "stopping", "drained", "deaf"}

RunnerPhases == {"free", "staggered", "looping", "closing", "done"}

Runner == [agent : Agents \cup {NoAgent}, phase : RunnerPhases, cancelled : BOOLEAN,
           paused : BOOLEAN, inTick : BOOLEAN, open : BOOLEAN, failed : BOOLEAN]

FreeSlot == [agent |-> NoAgent, phase |-> "free", cancelled |-> FALSE,
             paused |-> FALSE, inTick |-> FALSE, open |-> FALSE, failed |-> FALSE]

Live(i) == slot[i].phase \in {"staggered", "looping", "closing"}
HasHandle(a) == runners[a] # NoSlot

\* A slot whose goroutine is gone and that nobody refers to may be reused;
\* which one is of no consequence.
Unused(i) ==
    /\ slot[i].phase \in {"free", "done"}
    /\ i \notin waiting
    /\ \A a \in Agents : runners[a] # i

FirstUnused(i) == Unused(i) /\ \A j \in Slots : Unused(j) => i <= j

Started(a) == [FreeSlot EXCEPT !.agent = a, !.phase = "staggered"]

Init ==
    /\ status \in Rows
    /\ pending = NoEvent
    /\ inbox = <<>>
    /\ phase = "down"
    /\ runners = [a \in Agents |-> NoSlot]
    /\ slot = [i \in Slots |-> FreeSlot]
    /\ waiting = {}
    /\ missed = {}
    /\ moves = 0

-----------------------------------------------------------------------------
(* LifecycleManager: the row first, then the event.                         *)

swarmVars == <<inbox, phase, runners, slot, waiting, missed>>

\* The epoch loop runs from the end of boot until the context is cancelled.
Operate(op, a, from, to) ==
    /\ phase \in {"booted", "running", "deaf"}
    /\ pending = NoEvent /\ Move
    /\ status[a] \in from
    /\ status' = [status EXCEPT ![a] = to]
    /\ pending' = [op |-> op, agent |-> a]
    /\ UNCHANGED swarmVars

Spawn(a) == Operate("spawn", a, {"absent"}, "active")
Kill(a) == Operate("kill", a, {"active", "paused"}, "dead")
Pause(a) == Operate("pause", a, {"active"}, "paused")
Resume(a) == Operate("resume", a, {"paused"}, "active")

\* Redis delivers to whoever is subscribed at this moment.
Publish ==
    /\ pending # NoEvent
    /\ inbox' = IF phase \in {"running", "stopping"} THEN Append(inbox, pending) ELSE inbox
    /\ missed' = IF phase \in {"running", "stopping"} THEN missed
                 ELSE missed \cup {pending.agent}
    /\ pending' = NoEvent
    /\ UNCHANGED <<status, phase, runners, slot, waiting, moves>>

\* publish logs the error of bus.Publish and the operation still succeeds.
PublishFails ==
    /\ pending # NoEvent /\ Move
    /\ missed' = missed \cup {pending.agent}
    /\ pending' = NoEvent
    /\ UNCHANGED <<status, inbox, phase, runners, slot, waiting>>

-----------------------------------------------------------------------------
(* Boot: LoadAndStart, then Run subscribes in a goroutine of its own while  *)
(* the epoch loop may already be operating.                                 *)

Loadable == {a \in Agents \ Broken : status[a] = "active"}

LoadAndStart ==
    /\ phase = "down"
    /\ LET place == CHOOSE f \in [Loadable -> Slots] :
                        \A a, b \in Loadable : f[a] = f[b] => a = b
       IN
         /\ runners' = [a \in Agents |-> IF a \in Loadable THEN place[a] ELSE NoSlot]
         /\ slot' = [i \in Slots |->
                       IF \E a \in Loadable : place[a] = i
                       THEN Started(CHOOSE a \in Loadable : place[a] = i)
                       ELSE FreeSlot]
    /\ phase' = "booted"
    /\ missed' = {}
    /\ UNCHANGED <<status, pending, inbox, waiting, moves>>

\* The list query fails: main logs a warning and carries on with no runner.
LoadFails ==
    /\ phase = "down" /\ Move
    /\ phase' = "booted"
    /\ missed' = Agents
    /\ UNCHANGED <<status, pending, inbox, runners, slot, waiting>>

Subscribe ==
    /\ phase = "booted"
    /\ phase' = "running"
    /\ UNCHANGED <<status, pending, inbox, runners, slot, waiting, missed, moves>>

\* The group's context, the parent of every runner's, is cancelled.
CancelAll ==
    slot' = [i \in Slots |-> IF Live(i) THEN [slot[i] EXCEPT !.cancelled = TRUE]
                             ELSE slot[i]]

\* The handshake fails: Run returns the error without stopAll, and main's group
\* cancels its context for it.  The handles stay and nobody waits for them.
SubscribeFails ==
    /\ phase = "booted" /\ Move
    /\ phase' = "drained"
    /\ CancelAll
    /\ UNCHANGED <<status, pending, inbox, runners, waiting, missed>>

-----------------------------------------------------------------------------
(* dispatch: one event at a time; stop blocks the dispatcher.               *)

Receive(op) ==
    /\ phase \in {"running", "stopping"}
    /\ waiting = {}
    /\ inbox # <<>> /\ Head(inbox).op = op
    /\ inbox' = Tail(inbox)
    /\ UNCHANGED <<status, pending, phase>>

\* spawnByID: nothing if a handle exists, and only if the row, read again,
\* is active.  A cancelled context makes the read fail.
DispatchSpawn ==
    /\ Receive("spawn")
    /\ LET a == Head(inbox).agent
           starts == ~HasHandle(a) /\ phase = "running"
                       /\ status[a] = "active" /\ a \notin Broken
       IN  \/ /\ starts
              /\ \E i \in Slots :
                   /\ FirstUnused(i)
                   /\ slot' = [slot EXCEPT ![i] = Started(a)]
                   /\ runners' = [runners EXCEPT ![a] = i]
              /\ UNCHANGED missed
           \/ /\ ~starts
              /\ UNCHANGED <<slot, runners, missed>>
    /\ UNCHANGED <<waiting, moves>>

\* ListActiveAgents fails inside spawnByID: logged, and the event is gone.
DispatchSpawnFails ==
    /\ Move
    /\ Receive("spawn")
    /\ missed' = missed \cup {Head(inbox).agent}
    /\ UNCHANGED <<runners, slot, waiting>>

\* Variant: the handle is dropped, and nobody cancels the runner.
DispatchKillNoCancel ==
    /\ Receive("kill")
    /\ runners' = [runners EXCEPT ![Head(inbox).agent] = NoSlot]
    /\ UNCHANGED <<slot, waiting, missed, moves>>

\* Variant: the runner is cancelled, and the handle stays.
DispatchKillKeepsHandle ==
    /\ Receive("kill")
    /\ LET i == runners[Head(inbox).agent]
       IN  slot' = [j \in Slots |-> IF j = i THEN [slot[j] EXCEPT !.cancelled = TRUE]
                                    ELSE slot[j]]
    /\ UNCHANGED <<runners, waiting, missed, moves>>

\* stop: drop the handle, cancel, wait for done.
DispatchKill ==
    /\ Receive("kill")
    /\ LET a == Head(inbox).agent
           i == runners[a]
       IN  IF HasHandle(a)
           THEN /\ runners' = [runners EXCEPT ![a] = NoSlot]
                /\ slot' = [slot EXCEPT ![i].cancelled = TRUE]
                /\ waiting' = {i}
           ELSE UNCHANGED <<runners, slot, waiting>>
    /\ UNCHANGED <<missed, moves>>

DispatchPause ==
    /\ Receive("pause")
    /\ LET a == Head(inbox).agent
       IN  slot' = IF HasHandle(a) THEN [slot EXCEPT ![runners[a]].paused = TRUE] ELSE slot
    /\ UNCHANGED <<runners, waiting, missed, moves>>

\* A resume that finds no handle is dropped: it does not start a runner.
DispatchResume ==
    /\ Receive("resume")
    /\ LET a == Head(inbox).agent
       IN  IF HasHandle(a)
           THEN /\ slot' = [slot EXCEPT ![runners[a]].paused = FALSE]
                /\ UNCHANGED missed
           ELSE /\ missed' = missed \cup {a}
                /\ UNCHANGED slot
    /\ UNCHANGED <<runners, waiting, moves>>

\* The done channel of a stopped runner is closed.
StopDone(i) ==
    /\ i \in waiting /\ slot[i].phase = "done"
    /\ waiting' = waiting \ {i}
    /\ slot' = [slot EXCEPT ![i] = FreeSlot]
    /\ UNCHANGED <<status, pending, inbox, phase, runners, missed, moves>>

\* Variant: stop waits for done without a timer.
StopTimeoutNever(i) ==
    /\ i \in waiting /\ FALSE
    /\ UNCHANGED vars

\* Fifteen seconds have passed: the runner is left to itself.
StopTimeout(i) ==
    /\ i \in waiting /\ Live(i)
    /\ waiting' = waiting \ {i}
    /\ UNCHANGED <<status, pending, inbox, phase, runners, slot, missed, moves>>

-----------------------------------------------------------------------------
(* Shutdown.                                                                *)

\* SIGTERM.  A Run that has not subscribed yet may fail to do so under the
\* cancelled context, and returns without stopAll.
Signal ==
    /\ phase \in {"booted", "running", "deaf"}
    /\ phase' \in CASE phase = "booted" -> {"stopping", "drained"}
                    [] phase = "running" -> {"stopping"}
                    [] phase = "deaf" -> {"drained"}
    /\ CancelAll
    /\ UNCHANGED <<status, pending, inbox, runners, waiting, missed, moves>>

\* stopAll empties the map, cancels every handle and waits for all of them.
StopAll ==
    /\ waiting = {}
    /\ \/ phase = "stopping" /\ phase' = "drained"
       \/ phase = "running" /\ inbox = <<>> /\ phase' = "deaf"   \* channel closed
    /\ waiting' = {runners[a] : a \in {b \in Agents : HasHandle(b)}}
    /\ slot' = [i \in Slots |-> IF i \in waiting'
                                THEN [slot[i] EXCEPT !.cancelled = TRUE] ELSE slot[i]]
    /\ runners' = [a \in Agents |-> NoSlot]
    /\ UNCHANGED <<status, pending, inbox, missed, moves>>

\* What is left of a process that has ended.
Gone ==
    /\ phase' = "down"
    /\ inbox' = <<>> /\ pending' = NoEvent
    /\ runners' = [a \in Agents |-> NoSlot]
    /\ slot' = [i \in Slots |-> FreeSlot]
    /\ waiting' = {} /\ missed' = {}
    /\ UNCHANGED status

Exit ==
    /\ phase = "drained" /\ waiting = {}
    /\ Gone /\ UNCHANGED moves

Crash ==
    /\ phase # "down" /\ Move
    /\ Gone

-----------------------------------------------------------------------------
(* The goroutine of one runner: the stagger delay, the loops, and           *)
(* CloseAllPositions once every loop has returned.                          *)

Update(i, runner) ==
    /\ slot' = [slot EXCEPT ![i] = runner]
    /\ UNCHANGED <<status, pending, inbox, phase, runners, waiting, missed, moves>>

Step(i, from, runner) == slot[i].phase = from /\ Update(i, runner)

\* Cancelled during the stagger, the goroutine ends without calling Run; when
\* both are ready the select may still choose the delay.
StaggerOver(i) ==
    \/ Step(i, "staggered", [slot[i] EXCEPT !.phase = "looping"])
    \/ /\ slot[i].cancelled
       /\ Step(i, "staggered", [slot[i] EXCEPT !.phase = "done"])

\* monitorLoop reads the pause flag when the tick fires; RunTick takes time.
TickStart(i) ==
    /\ ~slot[i].paused /\ ~slot[i].inTick
    /\ Step(i, "looping", [slot[i] EXCEPT !.inTick = TRUE])

\* RunTick returns, having opened, kept or closed a position.  Nothing but the
\* wait in Run keeps it from doing so when the runner has gone on or ended.
TickEnd(i) ==
    /\ slot[i].inTick
    /\ \E open \in BOOLEAN :
         /\ open => slot[i].agent \in Holders
         /\ Update(i, [slot[i] EXCEPT !.inTick = FALSE, !.open = open])

\* Variant: Run does not wait for the loops.
LoopsExitUnwaited(i) ==
    /\ slot[i].cancelled
    /\ Step(i, "looping", [slot[i] EXCEPT !.phase = "closing", !.paused = FALSE])

\* g.Wait() returns: every loop has seen the cancelled context.
LoopsExit(i) ==
    /\ slot[i].cancelled /\ ~slot[i].inTick
    /\ Step(i, "looping", [slot[i] EXCEPT !.phase = "closing", !.paused = FALSE])

CloseAllPositions(i) ==
    \/ Step(i, "closing", [slot[i] EXCEPT !.phase = "done", !.open = FALSE])
    \/ Step(i, "closing", [slot[i] EXCEPT !.phase = "done", !.failed = TRUE])

-----------------------------------------------------------------------------
Dispatch ==
    \/ DispatchSpawn \/ DispatchSpawnFails
    \/ DispatchKill \/ DispatchPause \/ DispatchResume

Next ==
    \/ \E a \in Agents : Spawn(a) \/ Kill(a) \/ Pause(a) \/ Resume(a)
    \/ Publish \/ PublishFails
    \/ LoadAndStart \/ LoadFails \/ Subscribe \/ SubscribeFails
    \/ Dispatch
    \/ \E i \in Slots : StopDone(i) \/ StopTimeout(i)
    \/ Signal \/ StopAll \/ Exit \/ Crash
    \/ \E i \in Slots : StaggerOver(i) \/ TickStart(i) \/ TickEnd(i)
                          \/ LoopsExit(i) \/ CloseAllPositions(i)

Spec == Init /\ [][Next]_vars

\* The code between two selects runs to its end: the manager publishes what
\* it has written, boot completes, Run keeps selecting, a wait ends by its
\* channel or its timer.  RunTick is not assumed to return, and nobody has to
\* operate, signal or crash.
Fairness ==
    /\ WF_vars(Publish \/ PublishFails)
    /\ WF_vars(LoadAndStart) /\ WF_vars(Subscribe \/ SubscribeFails)
    /\ WF_vars(Dispatch)
    /\ \A i \in Slots : WF_vars(StopDone(i) \/ StopTimeout(i))
    /\ WF_vars(phase = "stopping" /\ StopAll) /\ WF_vars(Exit)
    /\ \A i \in Slots : WF_vars(StaggerOver(i)) /\ WF_vars(LoopsExit(i))
                          /\ WF_vars(CloseAllPositions(i))

FairSpec == Spec /\ Fairness

-----------------------------------------------------------------------------
TypeOK ==
    /\ status \in [Agents -> {"absent", "active", "paused", "dead"}]
    /\ pending \in Events \cup {NoEvent}
    /\ inbox \in Seq(Events)
    /\ phase \in Phases
    /\ runners \in [Agents -> Slots \cup {NoSlot}]
    /\ slot \in [Slots -> Runner]
    /\ waiting \subseteq Slots
    /\ missed \subseteq Agents
    /\ moves \in 0 .. MaxMoves

\* A goroutine that nobody has cancelled is the one its agent's handle points
\* to, so that kill, pause and stopAll can reach it, and no agent has two of
\* them (startFromRow, stop, stopAll: swarm.go 217-334).
NoOrphanRunner ==
    \A i \in Slots : (Live(i) /\ ~slot[i].cancelled) => runners[slot[i].agent] = i

\* The runtime's view of one agent agrees with its row.
Agrees(a) ==
    CASE status[a] = "active" -> HasHandle(a) /\ ~slot[runners[a]].paused
                                   /\ ~slot[runners[a]].cancelled
      [] status[a] = "paused" -> HasHandle(a) => slot[runners[a]].paused
      [] OTHER -> ~HasHandle(a)

\* When every event has been handled, the handles agree with the rows for
\* all agents whose events all took effect: no order of operations, delivery
\* and dispatch, and no restart, leaves the two apart.
QuiescentAgreement ==
    (phase = "running" /\ pending = NoEvent /\ inbox = <<>>) =>
        \A a \in Agents \ (missed \cup Broken) : Agrees(a)

\* No tick outlives its runner, and a runner that has ended holds no position
\* unless CloseAllPositions itself failed: a tick that was under way when the
\* runner was cancelled cannot open one behind the close, for Run waits for the
\* loops first (g.Wait: node_runner.go 183-201).
FlatWhenDone ==
    \A i \in Slots : slot[i].phase = "done" =>
        ~slot[i].inTick /\ (slot[i].open => slot[i].failed)

\* A kill that has reached the subscription cancels the agent's runner, unless
\* the process ends first: a runner that hangs in stop cannot block it for ever.
KillDelivered ==
    \A a \in Agents :
        (\E n \in DOMAIN inbox : inbox[n] = [op |-> "kill", agent |-> a]) ~>
            (phase = "down" \/ \A i \in Slots :
                (slot[i].agent = a /\ Live(i)) => slot[i].cancelled)

\* After a signal the process exits even if RunTick never returns.
ShutdownCompletes == (phase \in {"stopping", "drained"}) ~> (phase = "down")

\* "Resume reverses Pause" and the runtime "reacts by stopping or starting
\* NodeRunners" (lifecycle.go 132, node_runner.go 108-110): an agent that was
\* paused and then stays active, in a process that stays up, ends up with a
\* runner that is not paused.
ResumeRestores ==
    \A a \in Agents \ Broken :
        (<>(status[a] = "paused") /\ <>[](phase = "running" /\ status[a] = "active"))
            => <>(HasHandle(a) /\ ~slot[runners[a]].paused)

=============================================================================
