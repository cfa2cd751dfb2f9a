------------------------ MODULE SwarmRuntimeProofs ------------------------
(***************************************************************************)
(* Proofs about the swarm runtime, for any agents, any rows an earlier      *)
(* process may have left, any number of runner slots that is enough for the *)
(* agents, and any number of operations, failures and crashes.              *)
(***************************************************************************)
EXTENDS SwarmRuntime, TLAPS

\* A runner that has not started its loops, or that has ended without a
\* failure, holds no position, and only one that is looping is inside a tick.
Flat(r) ==
    /\ r.phase = "staggered" => ~r.open
    /\ r.phase = "done" => (r.open => r.failed)
    /\ r.inTick => r.phase = "looping"

FlatInv == \A i \in Slots : Flat(slot[i])

\* A handle points to a runner of its agent that nobody is waiting for, and
\* the process that is down has none.
HandlesInv ==
    /\ \A a \in Agents : HasHandle(a) =>
         /\ slot[runners[a]].agent = a /\ runners[a] \notin waiting
         /\ phase \in {"booted", "running"} => ~slot[runners[a]].cancelled
    /\ phase = "down" => /\ waiting = {} /\ inbox = <<>> /\ pending = NoEvent
                         /\ \A a \in Agents : ~HasHandle(a)
    /\ \A i \in Slots : Live(i) => slot[i].agent \in Agents
    /\ NoOrphanRunner

\* The events on their way, the one not yet published last.
Queue == IF pending = NoEvent THEN inbox ELSE Append(inbox, pending)

\* The status the row has when an event is written.
Target(op) == CASE op = "pause" -> "paused" [] op = "kill" -> "dead" [] OTHER -> "active"

\* With the events q on their way, the last one to agent a says what its row
\* st is, a spawn is its first and finds no handle (has is false), and when there
\* is none the handle agrees with the row (ag).
Consistent(q, a, st, has, ag) ==
    /\ \A n \in DOMAIN q : q[n].agent = a =>
         /\ st # "absent"
         /\ (\A m \in DOMAIN q : m > n => q[m].agent # a) => st = Target(q[n].op)
         /\ q[n].op = "spawn" => ~has /\ \A m \in DOMAIN q : m < n => q[m].agent # a
    /\ (\A n \in DOMAIN q : q[n].agent # a) => ag

QueueAgrees(a) == Consistent(Queue, a, status[a], HasHandle(a), Agrees(a))

AgreementInv ==
    phase \in {"booted", "running"} => \A a \in Agents \ (missed \cup Broken) : QueueAgrees(a)

-----------------------------------------------------------------------------
\* A free slot and a runner just started are runners.
LEMMA RunnerTypes == FreeSlot \in Runner /\ \A a \in Agents : Started(a) \in Runner
  BY DEF FreeSlot, Started, Runner, RunnerPhases

\* A runner just started is staggered, not paused and not cancelled, and flat.
LEMMA StartedFields ==
    ASSUME NEW a \in Agents
    PROVE  /\ Started(a).agent = a /\ Started(a).phase = "staggered"
           /\ ~Started(a).cancelled /\ ~Started(a).paused /\ ~Started(a).open
           /\ ~Started(a).inTick
  BY DEF FreeSlot, Started

\* What the updates of a runner leave alone.
LEMMA Updates ==
    ASSUME NEW r \in Runner
    PROVE  /\ [r EXCEPT !.cancelled = TRUE] \in Runner
           /\ [r EXCEPT !.paused = TRUE] \in Runner
           /\ [r EXCEPT !.paused = FALSE] \in Runner
           /\ \A p \in RunnerPhases : [r EXCEPT !.phase = p] \in Runner
           /\ [r EXCEPT !.inTick = TRUE] \in Runner
           /\ \A b \in BOOLEAN : [r EXCEPT !.inTick = FALSE, !.open = b] \in Runner
           /\ [r EXCEPT !.phase = "closing", !.paused = FALSE] \in Runner
           /\ [r EXCEPT !.phase = "done", !.open = FALSE] \in Runner
           /\ [r EXCEPT !.phase = "done", !.failed = TRUE] \in Runner
  BY DEF RunnerPhases, Runner

\* Replacing one runner.
LEMMA Replace ==
    ASSUME NEW f \in [Slots -> Runner], NEW i \in Slots, NEW r \in Runner
    PROVE  [f EXCEPT ![i] = r] \in [Slots -> Runner]
  OBVIOUS

\* No event is the one that is not there.
LEMMA NoEventFact == NoEvent \notin Events
  BY AgentsAssumption DEF NoEvent, Events

\* Boot gives every agent it loads a slot of its own.
LEMMA LoadResult ==
    ASSUME LoadAndStart
    PROVE  /\ runners' \in [Agents -> Slots \cup {NoSlot}] /\ slot' \in [Slots -> Runner]
           /\ \A a \in Agents : runners'[a] # NoSlot <=> a \in Loadable
           /\ \A a \in Loadable : slot'[runners'[a]] = Started(a)
           /\ \A i \in Slots : slot'[i] = FreeSlot \/
                               \E a \in Loadable : runners'[a] = i /\ slot'[i] = Started(a)
  <1> DEFINE Good(f) == f \in [Loadable -> Slots] /\ \A a, b \in Loadable : f[a] = f[b] => a = b
             place == CHOOSE f \in [Loadable -> Slots] : \A a, b \in Loadable : f[a] = f[b] => a = b
  <1>1. Good(place)
    <2>1. PICK g \in [Agents -> Slots] : \A a, b \in Agents : g[a] = g[b] => a = b
      BY SlotsAssumption
    <2> DEFINE h == [a \in Loadable |-> g[a]]
    <2>2. h \in [Loadable -> Slots] /\ \A a, b \in Loadable : h[a] = h[b] => a = b
      BY <2>1 DEF Loadable
    <2>3. \E f \in [Loadable -> Slots] : \A a, b \in Loadable : f[a] = f[b] => a = b
      BY <2>2
    <2> QED BY <2>3
  <1>2. runners' = [a \in Agents |-> IF a \in Loadable THEN place[a] ELSE NoSlot]
    BY DEF LoadAndStart
  <1>3. slot' = [i \in Slots |-> IF \E a \in Loadable : place[a] = i
                                 THEN Started(CHOOSE a \in Loadable : place[a] = i)
                                 ELSE FreeSlot]
    BY DEF LoadAndStart
  <1>4. Loadable \subseteq Agents /\ \A i \in Slots : i # NoSlot
    BY BoundsAssumption DEF Loadable, Slots, NoSlot
  <1> HIDE DEF place
  <1>5. \A i \in Slots : slot'[i] = FreeSlot \/
                         \E a \in Loadable : place[a] = i /\ slot'[i] = Started(a)
    <2> SUFFICES ASSUME NEW i \in Slots, \E a \in Loadable : place[a] = i
                 PROVE  \E a \in Loadable : place[a] = i /\ slot'[i] = Started(a)
      BY <1>3
    <2> DEFINE c == CHOOSE a \in Loadable : place[a] = i
    <2>1. c \in Loadable /\ place[c] = i
      OBVIOUS
    <2>2. slot'[i] = Started(c)
      BY <1>3
    <2> HIDE DEF c
    <2> QED BY <2>1, <2>2
  <1>6. \A a \in Loadable : slot'[place[a]] = Started(a)
    <2> SUFFICES ASSUME NEW a \in Loadable PROVE slot'[place[a]] = Started(a)
      OBVIOUS
    <2> DEFINE i == place[a]
               c == CHOOSE b \in Loadable : place[b] = i
    <2>1. i \in Slots /\ c \in Loadable /\ place[c] = i
      BY <1>1
    <2>2. c = a
      BY <1>1, <2>1
    <2>3. slot'[i] = Started(c)
      BY <1>3, <2>1
    <2> QED BY <2>2, <2>3
  <1>7. slot' \in [Slots -> Runner]
    <2>1. \A i \in Slots : slot'[i] \in Runner
      BY <1>4, <1>5, RunnerTypes
    <2> QED BY <1>3, <2>1
  <1> QED BY <1>1, <1>2, <1>4, <1>5, <1>6, <1>7 DEF NoSlot

\* The initial state has the types.
LEMMA InitType == Init => TypeOK
  BY RowsAssumption, BoundsAssumption, RunnerTypes
     DEF Init, TypeOK, Phases, NoSlot

\* A receive takes an event of an agent from the inbox.
LEMMA ReceiveType ==
    ASSUME TypeOK, NEW op, Receive(op)
    PROVE  /\ Head(inbox) \in Events /\ Head(inbox).agent \in Agents /\ Head(inbox).op = op
           /\ inbox' \in Seq(Events) /\ inbox' = Tail(inbox) /\ inbox # <<>>
           /\ phase \in {"running", "stopping"} /\ waiting = {}
           /\ UNCHANGED <<status, pending, phase>>
  <1>1. inbox \in Seq(Events) /\ inbox # <<>>
    BY DEF TypeOK, Receive
  <1>2. Head(inbox) \in Events /\ Tail(inbox) \in Seq(Events)
    BY <1>1
  <1> QED BY <1>1, <1>2 DEF Receive, Events

\* Every step keeps the types.
LEMMA TypeStep == TypeOK /\ [Next]_vars => TypeOK'
  <1> SUFFICES ASSUME TypeOK, [Next]_vars PROVE TypeOK'
    OBVIOUS
  <1>1. ASSUME NEW a \in Agents, Spawn(a) \/ Kill(a) \/ Pause(a) \/ Resume(a) PROVE TypeOK'
    <2>1. ASSUME NEW op \in EventOps, NEW from, NEW to \in {"active", "paused", "dead"},
                 Operate(op, a, from, to)
          PROVE  TypeOK'
      <3>1. [op |-> op, agent |-> a] \in Events
        BY DEF Events
      <3>2. moves' \in 0 .. MaxMoves
        BY <2>1, BoundsAssumption DEF TypeOK, Operate, Move
      <3> QED BY <2>1, <3>1, <3>2 DEF TypeOK, Operate, swarmVars
    <2> QED BY <1>1, <2>1 DEF Spawn, Kill, Pause, Resume, EventOps
  <1>2. CASE Publish \/ PublishFails
    <2>1. pending \in Events /\ pending.agent \in Agents
      BY <1>2 DEF TypeOK, Publish, PublishFails, Events
    <2>2. Append(inbox, pending) \in Seq(Events)
      BY <2>1 DEF TypeOK
    <2>3. moves' \in 0 .. MaxMoves
      BY <1>2, BoundsAssumption DEF TypeOK, Publish, PublishFails, Move
    <2> QED BY <1>2, <2>1, <2>2, <2>3 DEF TypeOK, Publish, PublishFails
  <1>3. CASE LoadAndStart
    BY <1>3, LoadResult DEF TypeOK, LoadAndStart, Phases
  <1>4. CASE LoadFails \/ Subscribe
    BY <1>4, BoundsAssumption DEF TypeOK, LoadFails, Subscribe, Phases, Move
  <1>15. CASE SubscribeFails
    <2>1. slot' \in [Slots -> Runner]
      BY <1>15, Updates DEF TypeOK, SubscribeFails, CancelAll
    <2>2. moves' \in 0 .. MaxMoves
      BY <1>15, BoundsAssumption DEF TypeOK, SubscribeFails, Move
    <2> QED BY <1>15, <2>1, <2>2 DEF TypeOK, SubscribeFails, Phases
  <1>5. CASE DispatchSpawn
    <2>1. Receive("spawn")
      BY <1>5 DEF DispatchSpawn
    <2> PICK a \in Agents : a = Head(inbox).agent
      BY <2>1, ReceiveType
    <2>2. slot' \in [Slots -> Runner] /\ runners' \in [Agents -> Slots \cup {NoSlot}] /\ missed' = missed
      <3>1. \/ \E i \in Slots : slot' = [slot EXCEPT ![i] = Started(a)] /\ runners' = [runners EXCEPT ![a] = i]
            \/ UNCHANGED <<slot, runners>>
        BY <1>5 DEF DispatchSpawn
      <3>2. missed' = missed
        BY <1>5 DEF DispatchSpawn
      <3>3. Started(a) \in Runner
        BY RunnerTypes
      <3> QED BY <3>1, <3>2, <3>3, Replace DEF TypeOK
    <2> QED BY <1>5, <2>1, <2>2, ReceiveType DEF TypeOK, DispatchSpawn
  <1>6. CASE DispatchSpawnFails
    <2>1. Receive("spawn") /\ moves' \in 0 .. MaxMoves
      BY <1>6, BoundsAssumption DEF DispatchSpawnFails, TypeOK, Move
    <2>2. missed' \subseteq Agents
      BY <1>6, <2>1, ReceiveType DEF DispatchSpawnFails, TypeOK
    <2> QED BY <1>6, <2>1, <2>2, ReceiveType DEF TypeOK, DispatchSpawnFails
  <1>7. CASE DispatchKill
    <2>1. Receive("kill")
      BY <1>7 DEF DispatchKill
    <2> PICK a \in Agents : a = Head(inbox).agent
      BY <2>1, ReceiveType
    <2>2. runners[a] # NoSlot => runners[a] \in Slots
      BY DEF TypeOK
    <2>3. slot' \in [Slots -> Runner]
      <3>1. slot' = slot \/ (runners[a] \in Slots
                             /\ slot' = [slot EXCEPT ![runners[a]] = [slot[runners[a]] EXCEPT !.cancelled = TRUE]])
        BY <1>7, <2>2 DEF DispatchKill, HasHandle
      <3>2. \A i \in Slots : slot[i] \in Runner /\ [slot[i] EXCEPT !.cancelled = TRUE] \in Runner
        BY Updates DEF TypeOK
      <3> QED BY <3>1, <3>2, Replace DEF TypeOK
    <2>4. runners' \in [Agents -> Slots \cup {NoSlot}] /\ waiting' \subseteq Slots
      BY <1>7, <2>2 DEF DispatchKill, TypeOK, HasHandle
    <2> QED BY <1>7, <2>1, <2>3, <2>4, ReceiveType DEF TypeOK, DispatchKill
  <1>8. CASE DispatchPause \/ DispatchResume
    <2>1. Receive("pause") \/ Receive("resume")
      BY <1>8 DEF DispatchPause, DispatchResume
    <2> PICK a \in Agents : a = Head(inbox).agent
      BY <2>1, ReceiveType
    <2>2. runners[a] # NoSlot => runners[a] \in Slots
      BY DEF TypeOK
    <2>3. slot' \in [Slots -> Runner]
      <3>1. \/ slot' = slot
            \/ /\ runners[a] \in Slots
               /\ \/ slot' = [slot EXCEPT ![runners[a]] = [slot[runners[a]] EXCEPT !.paused = TRUE]]
                  \/ slot' = [slot EXCEPT ![runners[a]] = [slot[runners[a]] EXCEPT !.paused = FALSE]]
        BY <1>8, <2>2 DEF DispatchPause, DispatchResume, HasHandle
      <3>2. \A i \in Slots : slot[i] \in Runner /\ [slot[i] EXCEPT !.paused = TRUE] \in Runner
                               /\ [slot[i] EXCEPT !.paused = FALSE] \in Runner
        BY Updates DEF TypeOK
      <3> QED BY <3>1, <3>2, Replace DEF TypeOK
    <2>4. missed' \subseteq Agents
      BY <1>8 DEF DispatchPause, DispatchResume, TypeOK
    <2> QED BY <1>8, <2>1, <2>3, <2>4, ReceiveType DEF TypeOK, DispatchPause, DispatchResume
  <1>9. ASSUME NEW i \in Slots, StopDone(i) \/ StopTimeout(i) PROVE TypeOK'
    BY <1>9, RunnerTypes DEF TypeOK, StopDone, StopTimeout
  <1>10. CASE Signal
    <2>1. slot' \in [Slots -> Runner]
      BY <1>10, Updates DEF TypeOK, Signal, CancelAll
    <2>2. phase' \in {"stopping", "drained"}
      BY <1>10 DEF Signal
    <2> QED BY <1>10, <2>1, <2>2 DEF TypeOK, Signal, Phases
  <1>11. CASE StopAll
    <2>1. slot' \in [Slots -> Runner]
      BY <1>11, Updates DEF TypeOK, StopAll
    <2>2. waiting' \subseteq Slots
      BY <1>11 DEF TypeOK, StopAll, HasHandle
    <2> QED BY <1>11, <2>1, <2>2 DEF TypeOK, StopAll, Phases, NoSlot
  <1>12. CASE Exit \/ Crash
    <2>1. slot' \in [Slots -> Runner]
      BY <1>12, RunnerTypes DEF Exit, Crash, Gone
    <2>2. moves' \in 0 .. MaxMoves
      BY <1>12, BoundsAssumption DEF Exit, Crash, Move, TypeOK
    <2>3. runners' \in [Agents -> Slots \cup {NoSlot}] /\ phase' \in Phases /\ inbox' \in Seq(Events)
          /\ pending' = NoEvent /\ waiting' = {} /\ missed' = {} /\ status' = status
      <3>1. Gone
        BY <1>12 DEF Exit, Crash
      <3>2. <<>> \in Seq(Events)
        OBVIOUS
      <3> QED BY <3>1, <3>2 DEF Gone, Phases
    <2> QED BY <2>1, <2>2, <2>3 DEF TypeOK
  <1>13. ASSUME NEW i \in Slots,
                StaggerOver(i) \/ TickStart(i) \/ TickEnd(i) \/ LoopsExit(i) \/ CloseAllPositions(i)
         PROVE  TypeOK'
    <2>1. ASSUME NEW update \in Runner, Update(i, update) PROVE TypeOK'
      BY <2>1 DEF TypeOK, Update
    <2>2. slot[i] \in Runner
      BY DEF TypeOK
    <2>3. "looping" \in RunnerPhases /\ "done" \in RunnerPhases
      BY DEF RunnerPhases
    <2>4. CASE StaggerOver(i)
      BY <2>1, <2>2, <2>3, <2>4, Updates DEF StaggerOver, Step
    <2>5. CASE TickStart(i)
      BY <2>1, <2>2, <2>5, Updates DEF TickStart, Step
    <2>6. CASE TickEnd(i)
      <3>1. PICK open \in BOOLEAN :
              Update(i, [slot[i] EXCEPT !.inTick = FALSE, !.open = open])
        BY <2>6 DEF TickEnd
      <3> QED BY <2>1, <2>2, <3>1, Updates
    <2>7. CASE LoopsExit(i)
      BY <2>1, <2>2, <2>7, Updates DEF LoopsExit, Step
    <2>8. CASE CloseAllPositions(i)
      BY <2>1, <2>2, <2>8, Updates DEF CloseAllPositions, Step
    <2> QED BY <1>13, <2>4, <2>5, <2>6, <2>7, <2>8
  <1>14. CASE UNCHANGED vars
    BY <1>14 DEF vars, TypeOK
  <1> QED BY <1>1, <1>2, <1>3, <1>4, <1>5, <1>6, <1>7, <1>8, <1>9, <1>10, <1>11, <1>12, <1>13, <1>14, <1>15
          DEF Next, Dispatch

\* Rows, events, handles and runners keep their types.
THEOREM TypeCorrect == Spec => []TypeOK
  BY InitType, TypeStep, PTL DEF Spec

-----------------------------------------------------------------------------
(***************************************************************************)
(* What the steps do to the runners, slot by slot.                          *)
(***************************************************************************)

\* Two runners that differ in their flags at most.
Alike(u, r) ==
    /\ u.agent = r.agent /\ u.phase = r.phase
    /\ u.inTick = r.inTick /\ u.open = r.open /\ u.failed = r.failed

\* A kill drops the handle of its agent and cancels the runner.
LEMMA KillEffect ==
    ASSUME TypeOK, DispatchKill, NEW a \in Agents, a = Head(inbox).agent
    PROVE  /\ \A b \in Agents : runners'[b] = IF b = a THEN NoSlot ELSE runners[b]
           /\ \A i \in Slots :
                /\ Alike(slot'[i], slot[i]) /\ slot'[i].paused = slot[i].paused
                /\ slot'[i].cancelled = IF i = runners[a] THEN TRUE ELSE slot[i].cancelled
           /\ waiting' = IF HasHandle(a) THEN {runners[a]} ELSE waiting
           /\ missed' = missed
  <1>1. CASE HasHandle(a)
    <2> PICK k \in Slots : k = runners[a]
      BY <1>1 DEF HasHandle, TypeOK
    <2>1. runners' = [runners EXCEPT ![a] = NoSlot]
          /\ slot' = [slot EXCEPT ![k] = [slot[k] EXCEPT !.cancelled = TRUE]]
          /\ waiting' = {k} /\ missed' = missed
      BY <1>1 DEF DispatchKill
    <2>2. \A i \in Slots : slot'[i] = IF i = k THEN [slot[i] EXCEPT !.cancelled = TRUE] ELSE slot[i]
      BY <2>1 DEF TypeOK
    <2>3. \A i \in Slots : slot[i] \in Runner
      BY DEF TypeOK
    <2>4. \A i \in Slots :
            /\ Alike(slot'[i], slot[i]) /\ slot'[i].paused = slot[i].paused
            /\ slot'[i].cancelled = IF i = k THEN TRUE ELSE slot[i].cancelled
      <3> SUFFICES ASSUME NEW i \in Slots
                   PROVE  /\ Alike(slot'[i], slot[i]) /\ slot'[i].paused = slot[i].paused
                          /\ slot'[i].cancelled = IF i = k THEN TRUE ELSE slot[i].cancelled
        OBVIOUS
      <3>1. CASE i = k
        BY <2>2, <2>3, <3>1 DEF Alike, Runner
      <3>2. CASE i # k
        BY <2>2, <3>2 DEF Alike
      <3> QED BY <3>1, <3>2
    <2>5. \A b \in Agents : runners'[b] = IF b = a THEN NoSlot ELSE runners[b]
      BY <2>1 DEF TypeOK
    <2> QED BY <1>1, <2>1, <2>4, <2>5
  <1>2. CASE ~HasHandle(a)
    <2>1. UNCHANGED <<runners, slot, waiting, missed>>
      BY <1>2 DEF DispatchKill
    <2>2. runners[a] = NoSlot /\ NoSlot \notin Slots
      BY <1>2 DEF HasHandle, NoSlot, Slots
    <2> QED BY <1>2, <2>1, <2>2 DEF Alike
  <1> QED BY <1>1, <1>2

\* Pause and resume set the flag of the agent's runner, if there is one.
LEMMA PauseEffect ==
    ASSUME TypeOK, NEW b \in BOOLEAN, NEW a \in Agents,
           slot' = IF HasHandle(a) THEN [slot EXCEPT ![runners[a]].paused = b] ELSE slot
    PROVE  \A i \in Slots :
             /\ Alike(slot'[i], slot[i]) /\ slot'[i].cancelled = slot[i].cancelled
             /\ slot'[i].paused = IF i = runners[a] THEN b ELSE slot[i].paused
  <1> SUFFICES ASSUME NEW i \in Slots
               PROVE  /\ Alike(slot'[i], slot[i]) /\ slot'[i].cancelled = slot[i].cancelled
                      /\ slot'[i].paused = IF i = runners[a] THEN b ELSE slot[i].paused
    OBVIOUS
  <1>1. slot[i] \in Runner
    BY DEF TypeOK
  <1>2. CASE i = runners[a]
    <2>1. HasHandle(a)
      BY <1>2 DEF HasHandle, NoSlot, Slots
    <2>2. slot'[i] = [slot[i] EXCEPT !.paused = b]
      BY <1>2, <2>1 DEF TypeOK
    <2> QED BY <1>1, <1>2, <2>2 DEF Alike, Runner
  <1>3. CASE i # runners[a]
    <2>1. slot'[i] = slot[i]
      BY <1>3 DEF TypeOK
    <2> QED BY <1>3, <2>1 DEF Alike
  <1> QED BY <1>2, <1>3

\* A failed subscription, a signal and stopAll cancel runners and do nothing
\* else to them.
LEMMA CancelEffect ==
    ASSUME TypeOK, SubscribeFails \/ Signal \/ StopAll
    PROVE  /\ \A i \in Slots : Alike(slot'[i], slot[i]) /\ slot'[i].paused = slot[i].paused
           /\ \A i \in Slots : slot'[i].cancelled = slot[i].cancelled \/ slot'[i].cancelled
           /\ SubscribeFails \/ Signal => \A i \in Slots : Live(i) => slot'[i].cancelled
           /\ StopAll => \A i \in waiting' : slot'[i].cancelled
  <1>1. \A i \in Slots : slot[i] \in Runner
    BY DEF TypeOK
  <1>2. CASE SubscribeFails \/ Signal
    <2>1. \A i \in Slots :
            slot'[i] = IF Live(i) THEN [slot[i] EXCEPT !.cancelled = TRUE] ELSE slot[i]
      BY <1>2 DEF SubscribeFails, Signal, CancelAll
    <2>2. ~StopAll
      BY <1>2 DEF SubscribeFails, Signal, StopAll
    <2> QED BY <1>1, <2>1, <2>2 DEF Alike, Runner
  <1>3. CASE StopAll
    <2>1. \A i \in Slots :
            slot'[i] = IF i \in waiting' THEN [slot[i] EXCEPT !.cancelled = TRUE] ELSE slot[i]
      BY <1>3 DEF StopAll
    <2>2. waiting' \subseteq Slots
      BY <1>3 DEF StopAll, TypeOK, HasHandle
    <2>3. ~SubscribeFails /\ ~Signal
      BY <1>3 DEF SubscribeFails, Signal, StopAll
    <2> QED BY <1>1, <2>1, <2>2, <2>3 DEF Alike, Runner
  <1> QED BY <1>2, <1>3

RunnerStep(i) == StaggerOver(i) \/ TickStart(i) \/ TickEnd(i) \/ LoopsExit(i) \/ CloseAllPositions(i)

\* A runner's own step concerns its slot; it keeps its agent, it comes no
\* nearer to being cancelled, and only a cancelled one forgets its pause.
LEMMA RunnerEffect ==
    ASSUME TypeOK, NEW i \in Slots, RunnerStep(i)
    PROVE  /\ UNCHANGED <<status, pending, inbox, phase, runners, waiting, missed, moves>>
           /\ \A j \in Slots : j # i => slot'[j] = slot[j]
           /\ slot'[i].agent = slot[i].agent /\ slot'[i].cancelled = slot[i].cancelled
           /\ ~slot[i].cancelled => slot'[i].paused = slot[i].paused
           /\ Live(i)' => Live(i)
           /\ FlatInv => Flat(slot'[i])
  <1> DEFINE P == /\ UNCHANGED <<status, pending, inbox, phase, runners, waiting, missed, moves>>
                  /\ \A j \in Slots : j # i => slot'[j] = slot[j]
  <1>1. slot[i] \in Runner
    BY DEF TypeOK
  <1>2. ASSUME NEW from \in {"staggered", "looping", "closing"}, NEW update, Step(i, from, update)
        PROVE  P /\ Live(i) /\ slot'[i] = update /\ slot[i].phase = from
    BY <1>2 DEF Step, Update, TypeOK, Live
  <1> HIDE DEF P
  <1>3. CASE StaggerOver(i)
    <2>1. CASE Step(i, "staggered", [slot[i] EXCEPT !.phase = "looping"])
      <3>1. P /\ Live(i) /\ slot'[i] = [slot[i] EXCEPT !.phase = "looping"] /\ slot[i].phase = "staggered"
        BY <1>2, <2>1
      <3> QED BY <1>1, <3>1 DEF P, Runner, FlatInv, Flat
    <2>2. CASE slot[i].cancelled /\ Step(i, "staggered", [slot[i] EXCEPT !.phase = "done"])
      <3>1. P /\ Live(i) /\ slot'[i] = [slot[i] EXCEPT !.phase = "done"] /\ slot[i].phase = "staggered"
        BY <1>2, <2>2
      <3> QED BY <1>1, <3>1 DEF P, Runner, FlatInv, Flat
    <2> QED BY <1>3, <2>1, <2>2 DEF StaggerOver
  <1>4. CASE TickStart(i)
    <2>1. P /\ Live(i) /\ slot'[i] = [slot[i] EXCEPT !.inTick = TRUE] /\ slot[i].phase = "looping"
      BY <1>2, <1>4 DEF TickStart
    <2> QED BY <1>1, <2>1 DEF P, Runner, FlatInv, Flat
  <1>5. CASE TickEnd(i)
    <2>1. PICK open \in BOOLEAN : Update(i, [slot[i] EXCEPT !.inTick = FALSE, !.open = open])
      BY <1>5 DEF TickEnd
    <2>2. P /\ slot'[i] = [slot[i] EXCEPT !.inTick = FALSE, !.open = open]
      BY <2>1 DEF P, Update, TypeOK
    <2>3. Live(i)' => Live(i)
      BY <1>1, <2>2 DEF Live, Runner
    <2>4. FlatInv => slot[i].phase = "looping"
      BY <1>5 DEF TickEnd, FlatInv, Flat
    <2> QED BY <1>1, <2>2, <2>3, <2>4 DEF P, Runner, Flat
  <1>6. CASE LoopsExit(i)
    <2>1. P /\ Live(i) /\ slot'[i] = [slot[i] EXCEPT !.phase = "closing", !.paused = FALSE]
          /\ slot[i].cancelled /\ ~slot[i].inTick
      BY <1>2, <1>6 DEF LoopsExit
    <2> QED BY <1>1, <2>1 DEF P, Runner, FlatInv, Flat
  <1>7. CASE CloseAllPositions(i)
    <2>1. CASE Step(i, "closing", [slot[i] EXCEPT !.phase = "done", !.open = FALSE])
      <3>1. P /\ Live(i) /\ slot'[i] = [slot[i] EXCEPT !.phase = "done", !.open = FALSE] /\ slot[i].phase = "closing"
        BY <1>2, <2>1
      <3> QED BY <1>1, <3>1 DEF P, Runner, FlatInv, Flat
    <2>2. CASE Step(i, "closing", [slot[i] EXCEPT !.phase = "done", !.failed = TRUE])
      <3>1. P /\ Live(i) /\ slot'[i] = [slot[i] EXCEPT !.phase = "done", !.failed = TRUE] /\ slot[i].phase = "closing"
        BY <1>2, <2>2
      <3> QED BY <1>1, <3>1 DEF P, Runner, FlatInv, Flat
    <2> QED BY <1>7, <2>1, <2>2 DEF CloseAllPositions
  <1> QED BY <1>3, <1>4, <1>5, <1>6, <1>7 DEF RunnerStep

\* A spawn that starts a runner puts it in a slot nobody refers to.
LEMMA SpawnEffect ==
    ASSUME TypeOK, DispatchSpawn, NEW a \in Agents, a = Head(inbox).agent
    PROVE  /\ UNCHANGED <<waiting, moves, missed>>
           /\ \/ /\ ~HasHandle(a) /\ status[a] = "active" /\ phase = "running" /\ a \notin Broken
                 /\ \E k \in Slots :
                      /\ k \notin waiting /\ \A b \in Agents : runners[b] # k
                      /\ \A b \in Agents : runners'[b] = IF b = a THEN k ELSE runners[b]
                      /\ \A i \in Slots : slot'[i] = IF i = k THEN Started(a) ELSE slot[i]
              \/ /\ ~(~HasHandle(a) /\ status[a] = "active" /\ phase = "running" /\ a \notin Broken)
                 /\ UNCHANGED <<slot, runners>>
  <1> DEFINE starts == ~HasHandle(a) /\ phase = "running" /\ status[a] = "active" /\ a \notin Broken
  <1>1. UNCHANGED <<waiting, moves>>
        /\ \/ /\ starts
              /\ \E i \in Slots :
                   /\ FirstUnused(i)
                   /\ slot' = [slot EXCEPT ![i] = Started(a)]
                   /\ runners' = [runners EXCEPT ![a] = i]
              /\ UNCHANGED missed
           \/ ~starts /\ UNCHANGED <<slot, runners, missed>>
    BY DEF DispatchSpawn
  <1>2. CASE starts
    <2>1. PICK k \in Slots : /\ FirstUnused(k) /\ slot' = [slot EXCEPT ![k] = Started(a)]
                             /\ runners' = [runners EXCEPT ![a] = k]
      BY <1>1, <1>2
    <2>2. k \notin waiting /\ \A b \in Agents : runners[b] # k
      BY <2>1 DEF FirstUnused, Unused
    <2>3. /\ \A b \in Agents : runners'[b] = IF b = a THEN k ELSE runners[b]
          /\ \A i \in Slots : slot'[i] = IF i = k THEN Started(a) ELSE slot[i]
      BY <2>1 DEF TypeOK
    <2> QED BY <1>1, <1>2, <2>2, <2>3
  <1> QED BY <1>1, <1>2

-----------------------------------------------------------------------------
\* Every step keeps the runners that have not looped, and those done, flat.
LEMMA FlatStep == TypeOK /\ FlatInv /\ [Next]_vars => FlatInv'
  <1> SUFFICES ASSUME TypeOK, FlatInv, [Next]_vars PROVE FlatInv'
    OBVIOUS
  <1>1. CASE UNCHANGED slot
    BY <1>1 DEF FlatInv
  <1>2. ASSUME \A i \in Slots : Alike(slot'[i], slot[i]) PROVE FlatInv'
    BY <1>2 DEF FlatInv, Flat, Alike
  <1>3. Flat(FreeSlot) /\ \A a \in Agents : Flat(Started(a))
    BY StartedFields DEF FreeSlot, Flat
  <1>4. CASE LoadAndStart
    <2>1. \A i \in Slots : slot'[i] = FreeSlot \/ \E a \in Agents : slot'[i] = Started(a)
      BY <1>4, LoadResult DEF Loadable
    <2> QED BY <1>3, <2>1 DEF FlatInv
  <1>5. CASE DispatchSpawn
    <2> PICK a \in Agents : a = Head(inbox).agent
      BY <1>5, ReceiveType DEF DispatchSpawn
    <2> QED BY <1>1, <1>3, <1>5, SpawnEffect DEF FlatInv
  <1>6. CASE DispatchKill
    <2> PICK a \in Agents : a = Head(inbox).agent
      BY <1>6, ReceiveType DEF DispatchKill
    <2> QED BY <1>2, <1>6, KillEffect
  <1>7. CASE DispatchPause
    <2> PICK a \in Agents : a = Head(inbox).agent
      BY <1>7, ReceiveType DEF DispatchPause
    <2>1. slot' = IF HasHandle(a) THEN [slot EXCEPT ![runners[a]].paused = TRUE] ELSE slot
      BY <1>7 DEF DispatchPause
    <2> QED BY <1>2, <2>1, PauseEffect
  <1>8. CASE DispatchResume
    <2> PICK a \in Agents : a = Head(inbox).agent
      BY <1>8, ReceiveType DEF DispatchResume
    <2>1. slot' = IF HasHandle(a) THEN [slot EXCEPT ![runners[a]].paused = FALSE] ELSE slot
      BY <1>8 DEF DispatchResume
    <2> QED BY <1>2, <2>1, PauseEffect
  <1>9. CASE SubscribeFails \/ Signal \/ StopAll
    BY <1>2, <1>9, CancelEffect
  <1>10. ASSUME NEW i \in Slots, StopDone(i) PROVE FlatInv'
    <2>1. \A j \in Slots : slot'[j] = IF j = i THEN FreeSlot ELSE slot[j]
      BY <1>10 DEF StopDone, TypeOK
    <2> QED BY <1>3, <2>1 DEF FlatInv
  <1>11. CASE Exit \/ Crash
    <2>1. \A j \in Slots : slot'[j] = FreeSlot
      BY <1>11 DEF Exit, Crash, Gone
    <2> QED BY <1>3, <2>1 DEF FlatInv
  <1>12. ASSUME NEW i \in Slots, RunnerStep(i) PROVE FlatInv'
    BY <1>12, RunnerEffect DEF FlatInv
  <1> QED BY <1>1, <1>4, <1>5, <1>6, <1>7, <1>8, <1>9, <1>10, <1>11, <1>12
          DEF Next, Dispatch, Spawn, Kill, Pause, Resume, Operate, swarmVars, Publish, PublishFails,
              LoadFails, Subscribe, DispatchSpawnFails, StopTimeout, RunnerStep, vars

\* No tick outlives its runner, and one that has ended holds no position unless
\* CloseAllPositions failed: the wait for the loops comes before the close, so
\* only a looping runner is ever inside a tick (Run: node_runner.go 183-201).
THEOREM FlatWhenDoneHolds == Spec => []FlatWhenDone
  <1>1. Init => FlatInv
    BY DEF Init, FlatInv, Flat, FreeSlot
  <1>2. FlatInv => FlatWhenDone
    BY DEF FlatInv, Flat, FlatWhenDone
  <1> QED BY <1>1, <1>2, FlatStep, InitType, TypeStep, PTL DEF Spec

-----------------------------------------------------------------------------
\* Every step keeps handles and runners together.
LEMMA HandlesStep == TypeOK /\ HandlesInv /\ [Next]_vars => HandlesInv'
  <1> SUFFICES ASSUME TypeOK, HandlesInv, [Next]_vars PROVE HandlesInv'
    OBVIOUS
  <1> USE DEF HasHandle, Live
  <1>1. \A a \in Agents : HasHandle(a) => runners[a] \in Slots
    BY DEF TypeOK
  <1>2. \A i \in Slots : i # NoSlot
    BY DEF Slots, NoSlot
  <1>3. ASSUME UNCHANGED <<slot, runners, waiting>>, phase' = phase \/ phase' \in {"running", "booted"},
               phase' \in {"running", "booted"} => phase \in {"running", "booted"},
               phase' = "down" => inbox' = inbox /\ pending' = pending
        PROVE  HandlesInv'
    BY <1>3 DEF HandlesInv, NoOrphanRunner
  <1>4. CASE UNCHANGED vars
    BY <1>3, <1>4 DEF vars
  <1>5. ASSUME NEW a \in Agents, Spawn(a) \/ Kill(a) \/ Pause(a) \/ Resume(a) PROVE HandlesInv'
    BY <1>3, <1>5 DEF Spawn, Kill, Pause, Resume, Operate, swarmVars
  <1>6. CASE Publish \/ PublishFails
    <2>1. phase # "down"
      BY <1>6 DEF Publish, PublishFails, HandlesInv
    <2> QED BY <1>3, <1>6, <2>1 DEF Publish, PublishFails
  <1>7. CASE LoadAndStart
    <2>1. \A a \in Agents : runners'[a] # NoSlot => a \in Loadable /\ slot'[runners'[a]] = Started(a)
      BY <1>7, LoadResult
    <2>2. \A i \in Slots : slot'[i] = FreeSlot \/
                           \E a \in Loadable : runners'[a] = i /\ slot'[i] = Started(a)
      BY <1>7, LoadResult
    <2>3. FreeSlot.phase = "free" /\ Loadable \subseteq Agents
      BY DEF FreeSlot, Loadable
    <2>4. waiting' = {} /\ phase' = "booted"
      BY <1>7 DEF LoadAndStart, HandlesInv
    <2>5. NoOrphanRunner' /\ \A i \in Slots : Live(i)' => slot'[i].agent \in Agents
      BY <2>2, <2>3, StartedFields DEF NoOrphanRunner
    <2> QED BY <2>1, <2>4, <2>5, <2>3, StartedFields DEF HandlesInv
  <1>8. CASE LoadFails
    <2>1. phase' = "booted" /\ UNCHANGED <<runners, slot, waiting>> /\ phase = "down"
      BY <1>8 DEF LoadFails
    <2> QED BY <2>1 DEF HandlesInv, NoOrphanRunner
  <1>9. CASE Subscribe
    BY <1>3, <1>9 DEF Subscribe
  <1>10. CASE DispatchSpawn
    <2>1. Receive("spawn")
      BY <1>10 DEF DispatchSpawn
    <2> PICK a \in Agents : a = Head(inbox).agent
      BY <2>1, ReceiveType
    <2>2. phase' = phase /\ phase \in {"running", "stopping"} /\ waiting = {} /\ waiting' = {}
      BY <1>10, <2>1, ReceiveType, SpawnEffect
    <2>3. CASE UNCHANGED <<slot, runners>>
      BY <1>3, <2>2, <2>3
    <2>4. CASE ~HasHandle(a) /\ phase = "running" /\ \E k \in Slots :
                      /\ k \notin waiting /\ \A b \in Agents : runners[b] # k
                      /\ \A b \in Agents : runners'[b] = IF b = a THEN k ELSE runners[b]
                      /\ \A i \in Slots : slot'[i] = IF i = k THEN Started(a) ELSE slot[i]
      <3>1. PICK k \in Slots :
                      /\ k \notin waiting /\ \A b \in Agents : runners[b] # k
                      /\ \A b \in Agents : runners'[b] = IF b = a THEN k ELSE runners[b]
                      /\ \A i \in Slots : slot'[i] = IF i = k THEN Started(a) ELSE slot[i]
        BY <2>4
      <3>2. NoOrphanRunner'
        <4> SUFFICES ASSUME NEW i \in Slots, Live(i)', ~slot'[i].cancelled
                     PROVE  runners'[slot'[i].agent] = i
          BY DEF NoOrphanRunner
        <4>1. CASE i = k
          BY <3>1, <4>1, StartedFields
        <4>2. CASE i # k
          <5>1. slot'[i] = slot[i] /\ runners[slot[i].agent] = i
            BY <3>1, <4>2 DEF HandlesInv, NoOrphanRunner
          <5>2. slot[i].agent \in Agents
            BY <5>1 DEF HandlesInv
          <5> QED BY <1>2, <2>4, <3>1, <5>1, <5>2
        <4> QED BY <4>1, <4>2
      <3>3. ASSUME NEW b \in Agents, runners'[b] # NoSlot
            PROVE  slot'[runners'[b]].agent = b /\ ~slot'[runners'[b]].cancelled
        <4>1. CASE b = a
          BY <3>1, <4>1, StartedFields
        <4>2. CASE b # a
          BY <1>1, <2>2, <2>4, <3>1, <3>3, <4>2 DEF HandlesInv
        <4> QED BY <4>1, <4>2
      <3>4. \A i \in Slots : Live(i)' => slot'[i].agent \in Agents
        BY <3>1, StartedFields DEF HandlesInv
      <3> QED BY <2>2, <3>2, <3>3, <3>4 DEF HandlesInv
    <2> QED BY <1>10, <2>3, <2>4, SpawnEffect
  <1>11. CASE DispatchSpawnFails
    <2>1. phase' = phase /\ phase \in {"running", "stopping"}
      BY <1>11, ReceiveType DEF DispatchSpawnFails
    <2> QED BY <1>3, <1>11, <2>1 DEF DispatchSpawnFails
  <1>12. CASE DispatchKill
    <2> PICK a \in Agents : a = Head(inbox).agent
      BY <1>12, ReceiveType DEF DispatchKill
    <2>1. phase' = phase /\ phase \in {"running", "stopping"} /\ waiting = {}
      BY <1>12, ReceiveType DEF DispatchKill
    <2>2. /\ \A b \in Agents : runners'[b] = IF b = a THEN NoSlot ELSE runners[b]
          /\ \A i \in Slots :
               /\ Alike(slot'[i], slot[i]) /\ slot'[i].paused = slot[i].paused
               /\ slot'[i].cancelled = IF i = runners[a] THEN TRUE ELSE slot[i].cancelled
          /\ waiting' = IF HasHandle(a) THEN {runners[a]} ELSE waiting
      BY <1>12, KillEffect
    <2>3. ASSUME NEW b \in Agents, runners'[b] # NoSlot
          PROVE  /\ slot'[runners'[b]].agent = b /\ runners'[b] \notin waiting'
                 /\ phase' \in {"booted", "running"} => ~slot'[runners'[b]].cancelled
      <3>1. b # a /\ runners'[b] = runners[b] /\ runners[b] \in Slots
        BY <1>1, <2>2, <2>3
      <3>2. runners[b] # runners[a]
        BY <3>1, <2>3 DEF HandlesInv
      <3>3. runners[b] \notin waiting'
        BY <2>1, <2>2, <3>2
      <3>4. slot[runners[b]].agent = b /\ (phase \in {"booted", "running"} => ~slot[runners[b]].cancelled)
        BY <2>3, <3>1 DEF HandlesInv
      <3>5. slot'[runners[b]].agent = b /\ slot'[runners[b]].cancelled = slot[runners[b]].cancelled
        BY <2>2, <3>1, <3>2, <3>4 DEF Alike
      <3> QED BY <2>1, <3>1, <3>3, <3>4, <3>5
    <2>4. \A i \in Slots : Live(i)' => slot'[i].agent \in Agents
      BY <2>2 DEF HandlesInv, Alike
    <2>5. NoOrphanRunner'
      <3> SUFFICES ASSUME NEW i \in Slots, Live(i)', ~slot'[i].cancelled
                   PROVE  runners'[slot'[i].agent] = i
        BY DEF NoOrphanRunner
      <3>1. i # runners[a] /\ slot'[i].agent = slot[i].agent /\ Live(i) /\ ~slot[i].cancelled
        BY <2>2 DEF Alike
      <3>2. runners[slot[i].agent] = i /\ slot[i].agent \in Agents
        BY <3>1 DEF HandlesInv, NoOrphanRunner
      <3> QED BY <2>2, <3>1, <3>2
    <2> QED BY <2>1, <2>3, <2>4, <2>5 DEF HandlesInv
  <1>13. ASSUME \A i \in Slots : Alike(slot'[i], slot[i]) /\ slot'[i].cancelled = slot[i].cancelled,
                UNCHANGED <<runners, waiting, phase>>, phase # "down"
         PROVE  HandlesInv'
    <2>1. NoOrphanRunner' /\ \A i \in Slots : Live(i)' => slot'[i].agent \in Agents
      BY <1>13 DEF HandlesInv, NoOrphanRunner, Alike
    <2> QED BY <1>1, <1>13, <2>1 DEF HandlesInv, Alike
  <1>14. CASE DispatchPause
    <2> PICK a \in Agents : a = Head(inbox).agent
      BY <1>14, ReceiveType DEF DispatchPause
    <2>1. slot' = IF HasHandle(a) THEN [slot EXCEPT ![runners[a]].paused = TRUE] ELSE slot
      BY <1>14 DEF DispatchPause
    <2>2. UNCHANGED <<runners, waiting, phase>> /\ phase # "down"
      BY <1>14, ReceiveType DEF DispatchPause
    <2> QED BY <1>13, <2>1, <2>2, PauseEffect
  <1>15. CASE DispatchResume
    <2> PICK a \in Agents : a = Head(inbox).agent
      BY <1>15, ReceiveType DEF DispatchResume
    <2>1. slot' = IF HasHandle(a) THEN [slot EXCEPT ![runners[a]].paused = FALSE] ELSE slot
      BY <1>15 DEF DispatchResume
    <2>2. UNCHANGED <<runners, waiting, phase>> /\ phase # "down"
      BY <1>15, ReceiveType DEF DispatchResume
    <2> QED BY <1>13, <2>1, <2>2, PauseEffect
  <1>16. ASSUME NEW i \in Slots, StopDone(i) PROVE HandlesInv'
    <2>1. \A j \in Slots : slot'[j] = IF j = i THEN FreeSlot ELSE slot[j]
      BY <1>16 DEF StopDone, TypeOK
    <2>2. FreeSlot.phase = "free"
      BY DEF FreeSlot
    <2>3. UNCHANGED <<runners, phase>> /\ waiting' \subseteq waiting /\ phase # "down" /\ i \in waiting
      BY <1>16 DEF StopDone, HandlesInv
    <2>4. NoOrphanRunner' /\ \A j \in Slots : Live(j)' => slot'[j].agent \in Agents
      BY <2>1, <2>2, <2>3 DEF HandlesInv, NoOrphanRunner
    <2> QED BY <1>1, <2>1, <2>3, <2>4 DEF HandlesInv
  <1>17. ASSUME NEW i \in Slots, StopTimeout(i) PROVE HandlesInv'
    <2>1. UNCHANGED <<slot, runners, phase>> /\ waiting' \subseteq waiting /\ phase # "down"
      BY <1>17 DEF StopTimeout, HandlesInv
    <2> QED BY <2>1 DEF HandlesInv, NoOrphanRunner
  <1>18. CASE SubscribeFails \/ Signal
    <2>1. UNCHANGED <<runners, waiting>> /\ phase' \in {"stopping", "drained"}
      BY <1>18 DEF SubscribeFails, Signal
    <2>2. \A i \in Slots : Alike(slot'[i], slot[i]) /\ (Live(i) => slot'[i].cancelled)
      BY <1>18, CancelEffect
    <2>3. NoOrphanRunner' /\ \A j \in Slots : Live(j)' => slot'[j].agent \in Agents
      BY <2>1, <2>2 DEF HandlesInv, NoOrphanRunner, Alike
    <2> QED BY <1>1, <2>1, <2>2, <2>3 DEF HandlesInv, Alike
  <1>19. CASE StopAll
    <2>1. /\ \A a \in Agents : runners'[a] = NoSlot
          /\ phase' \in {"deaf", "drained"}
          /\ \A a \in Agents : HasHandle(a) => runners[a] \in waiting'
      BY <1>19 DEF StopAll
    <2>2. /\ \A i \in Slots : Alike(slot'[i], slot[i])
          /\ \A i \in Slots : slot'[i].cancelled = slot[i].cancelled \/ slot'[i].cancelled
          /\ \A i \in waiting' : slot'[i].cancelled
      BY <1>19, CancelEffect
    <2>3. ASSUME NEW i \in Slots, Live(i)' PROVE slot'[i].cancelled /\ slot'[i].agent \in Agents
      <3>1. Live(i) /\ slot'[i].agent = slot[i].agent /\ slot[i].agent \in Agents
        BY <2>2, <2>3 DEF Alike, HandlesInv
      <3>2. CASE slot[i].cancelled
        BY <2>2, <3>1, <3>2
      <3>3. CASE ~slot[i].cancelled
        BY <1>2, <2>1, <2>2, <3>1, <3>3 DEF HandlesInv, NoOrphanRunner
      <3> QED BY <3>1, <3>2, <3>3
    <2> QED BY <2>1, <2>3 DEF HandlesInv, NoOrphanRunner
  <1>20. CASE Exit \/ Crash
    <2>1. Gone
      BY <1>20 DEF Exit, Crash
    <2>2. /\ \A i \in Slots : slot'[i] = FreeSlot
          /\ \A a \in Agents : runners'[a] = NoSlot
          /\ waiting' = {} /\ inbox' = <<>> /\ pending' = NoEvent
      BY <2>1 DEF Gone
    <2>3. FreeSlot.phase = "free"
      BY DEF FreeSlot
    <2> QED BY <2>2, <2>3 DEF HandlesInv, NoOrphanRunner
  <1>21. ASSUME NEW i \in Slots, RunnerStep(i) PROVE HandlesInv'
    <2>1. /\ UNCHANGED <<pending, inbox, phase, runners, waiting>>
          /\ \A j \in Slots : /\ slot'[j].agent = slot[j].agent /\ slot'[j].cancelled = slot[j].cancelled
                              /\ Live(j)' => Live(j)
      BY <1>21, RunnerEffect
    <2>2. NoOrphanRunner' /\ \A j \in Slots : Live(j)' => slot'[j].agent \in Agents
      BY <2>1 DEF HandlesInv, NoOrphanRunner
    <2> QED BY <1>1, <2>1, <2>2 DEF HandlesInv
  <1> QED BY <1>4, <1>5, <1>6, <1>7, <1>8, <1>9, <1>10, <1>11, <1>12, <1>14, <1>15, <1>16, <1>17,
             <1>18, <1>19, <1>20, <1>21 DEF Next, Dispatch, RunnerStep

\* A process that is down has no handle.
LEMMA HandlesInit == Init => HandlesInv
  BY DEF Init, HandlesInv, NoOrphanRunner, HasHandle, Live, FreeSlot

\* A goroutine that nobody has cancelled is the one its agent's handle points
\* to (startFromRow, stop, stopAll: swarm.go 217-334).
THEOREM NoOrphanRunnerHolds == Spec => []NoOrphanRunner
  <1>1. HandlesInv => NoOrphanRunner
    BY DEF HandlesInv
  <1> QED BY <1>1, HandlesInit, HandlesStep, InitType, TypeStep, PTL DEF Spec

-----------------------------------------------------------------------------
(***************************************************************************)
(* Rows, events on their way and handles agree.                             *)
(***************************************************************************)

\* The queue is a sequence of events.
LEMMA QueueType == TypeOK => Queue \in Seq(Events)
  BY DEF TypeOK, Queue

\* The element at the end of a sequence and those before it.
LEMMA AppendFacts ==
    ASSUME NEW q \in Seq(Events), NEW e \in Events
    PROVE  /\ DOMAIN q = 1 .. Len(q) /\ Len(q) \in Nat
           /\ DOMAIN Append(q, e) = 1 .. Len(q) + 1
           /\ Append(q, e)[Len(q) + 1] = e
           /\ \A n \in 1 .. Len(q) : Append(q, e)[n] = q[n]
  OBVIOUS

\* The elements of the tail.
LEMMA TailFacts ==
    ASSUME NEW q \in Seq(Events), q # <<>>
    PROVE  /\ DOMAIN q = 1 .. Len(q) /\ Len(q) \in Nat \ {0} /\ q[1] = Head(q)
           /\ DOMAIN Tail(q) = 1 .. Len(q) - 1
           /\ \A n \in 1 .. Len(q) - 1 : Tail(q)[n] = q[n + 1]
  OBVIOUS

\* An event of another agent at the end makes no difference.
LEMMA OthersAppend ==
    ASSUME NEW q \in Seq(Events), NEW e \in Events, NEW a, e.agent # a,
           NEW st, NEW has, NEW ag
    PROVE  Consistent(Append(q, e), a, st, has, ag) <=> Consistent(q, a, st, has, ag)
  <1> DEFINE t == Append(q, e)
             N == Len(q)
  <1>1. /\ DOMAIN q = 1 .. N /\ N \in Nat /\ DOMAIN t = 1 .. N + 1 /\ t[N + 1] = e
        /\ \A n \in 1 .. N : t[n] = q[n]
    BY AppendFacts
  <1> HIDE DEF t, N
  <1>2. \A n \in DOMAIN t : t[n].agent = a => n \in 1 .. N
    BY <1>1
  <1>3. \A n \in DOMAIN q : n \in DOMAIN t /\ t[n] = q[n]
    BY <1>1
  <1>4. \A n \in DOMAIN q : (\A m \in DOMAIN t : m > n => t[m].agent # a)
                            <=> (\A m \in DOMAIN q : m > n => q[m].agent # a)
    BY <1>1, <1>2, <1>3
  <1>5. \A n \in DOMAIN q : (\A m \in DOMAIN t : m < n => t[m].agent # a)
                            <=> (\A m \in DOMAIN q : m < n => q[m].agent # a)
    BY <1>1, <1>2, <1>3
  <1>6. (\A n \in DOMAIN t : t[n].agent # a) <=> (\A n \in DOMAIN q : q[n].agent # a)
    BY <1>1, <1>2, <1>3
  <1>7. Consistent(t, a, st, has, ag) <=> Consistent(q, a, st, has, ag)
    BY <1>1, <1>2, <1>3, <1>4, <1>5, <1>6 DEF Consistent
  <1> QED BY <1>7 DEF t

\* The row of an agent is written and its event is put at the end.
LEMMA MineAppend ==
    ASSUME NEW q \in Seq(Events), NEW e \in Events, NEW a, e.agent = a,
           NEW st, NEW has, NEW ag, NEW ag2, Consistent(q, a, st, has, ag),
           e.op = "spawn" => ~has /\ st = "absent"
    PROVE  Consistent(Append(q, e), a, Target(e.op), has, ag2)
  <1> DEFINE t == Append(q, e)
             N == Len(q)
  <1>1. /\ DOMAIN q = 1 .. N /\ N \in Nat /\ DOMAIN t = 1 .. N + 1 /\ t[N + 1] = e
        /\ \A n \in 1 .. N : t[n] = q[n]
    BY AppendFacts
  <1> HIDE DEF t, N
  <1>2. Target(e.op) # "absent"
    BY DEF Target
  <1>3. N + 1 \in DOMAIN t /\ t[N + 1].agent = a
    BY <1>1
  <1>4. ASSUME NEW n \in DOMAIN t, t[n].agent = a
        PROVE  /\ (\A m \in DOMAIN t : m > n => t[m].agent # a) => Target(e.op) = Target(t[n].op)
               /\ t[n].op = "spawn" => ~has /\ \A m \in DOMAIN t : m < n => t[m].agent # a
    <2>1. CASE n = N + 1
      <3>1. t[n] = e
        BY <1>1, <2>1
      <3>2. e.op = "spawn" => \A m \in DOMAIN q : q[m].agent # a
        BY DEF Consistent
      <3>3. e.op = "spawn" => \A m \in DOMAIN t : m < n => t[m].agent # a
        BY <1>1, <2>1, <3>2
      <3> QED BY <3>1, <3>3
    <2>2. CASE n \in 1 .. N
      <3>1. t[n] = q[n] /\ n \in DOMAIN q /\ n < N + 1
        BY <1>1, <2>2
      <3>2. q[n].op = "spawn" => ~has /\ \A m \in DOMAIN q : m < n => q[m].agent # a
        BY <1>4, <3>1 DEF Consistent
      <3>3. q[n].op = "spawn" => \A m \in DOMAIN t : m < n => t[m].agent # a
        BY <1>1, <2>2, <3>2
      <3> QED BY <1>3, <3>1, <3>2, <3>3
    <2> QED BY <1>1, <2>1, <2>2
  <1>5. Consistent(t, a, Target(e.op), has, ag2)
    BY <1>2, <1>3, <1>4 DEF Consistent
  <1> QED BY <1>5 DEF t

\* The first event is taken; for its agent there is no spawn behind it.
LEMMA QueueTail ==
    ASSUME NEW q \in Seq(Events), q # <<>>, NEW a, NEW st, NEW has, NEW ag, NEW has2, NEW ag2,
           Consistent(q, a, st, has, ag),
           Head(q).agent # a => has2 = has /\ ag2 = ag,
           Head(q).agent = a /\ st = Target(Head(q).op) => ag2
    PROVE  Consistent(Tail(q), a, st, has2, ag2)
  <1> DEFINE t == Tail(q)
             N == Len(q)
  <1>1. /\ DOMAIN q = 1 .. N /\ N \in Nat \ {0} /\ q[1] = Head(q)
        /\ DOMAIN t = 1 .. N - 1 /\ \A n \in 1 .. N - 1 : t[n] = q[n + 1]
    BY TailFacts
  <1> HIDE DEF t, N
  <1>2. \A n \in DOMAIN t : n \in Nat /\ n >= 1 /\ n + 1 \in DOMAIN q /\ t[n] = q[n + 1]
    BY <1>1
  <1>3. \A m \in DOMAIN q : m = 1 \/ (m - 1 \in DOMAIN t /\ t[m - 1] = q[m] /\ m \in Nat)
    BY <1>1
  <1>4. ASSUME NEW n \in DOMAIN t, t[n].agent = a
        PROVE  /\ st # "absent"
               /\ (\A m \in DOMAIN t : m > n => t[m].agent # a) => st = Target(t[n].op)
               /\ t[n].op = "spawn" => ~has2 /\ \A m \in DOMAIN t : m < n => t[m].agent # a
    <2>1. n + 1 \in DOMAIN q /\ q[n + 1] = t[n] /\ n \in Nat /\ n >= 1
      BY <1>2
    <2>2. ASSUME \A m \in DOMAIN t : m > n => t[m].agent # a PROVE st = Target(t[n].op)
      <3>1. \A m \in DOMAIN q : m > n + 1 => q[m].agent # a
        BY <1>3, <2>1, <2>2
      <3> QED BY <1>4, <2>1, <3>1 DEF Consistent
    <2>3. ASSUME t[n].op = "spawn" PROVE ~has2 /\ \A m \in DOMAIN t : m < n => t[m].agent # a
      <3>1. ~has /\ \A m \in DOMAIN q : m < n + 1 => q[m].agent # a
        BY <1>4, <2>1, <2>3 DEF Consistent
      <3>2. 1 \in DOMAIN q /\ 1 < n + 1
        BY <1>1, <2>1
      <3>3. Head(q).agent # a
        BY <1>1, <3>1, <3>2
      <3>4. \A m \in DOMAIN t : m < n => t[m].agent # a
        BY <1>2, <2>1, <3>1
      <3> QED BY <3>1, <3>3, <3>4
    <2> QED BY <1>4, <2>1, <2>2, <2>3 DEF Consistent
  <1>5. ASSUME \A n \in DOMAIN t : t[n].agent # a PROVE ag2
    <2>1. CASE Head(q).agent = a
      <3>1. 1 \in DOMAIN q /\ \A m \in DOMAIN q : m > 1 => q[m].agent # a
        BY <1>1, <1>3, <1>5
      <3> QED BY <1>1, <2>1, <3>1 DEF Consistent
    <2>2. CASE Head(q).agent # a
      <3>1. \A m \in DOMAIN q : q[m].agent # a
        BY <1>1, <1>3, <1>5, <2>2
      <3> QED BY <2>2, <3>1 DEF Consistent
    <2> QED BY <2>1, <2>2
  <1>6. Consistent(t, a, st, has2, ag2)
    BY <1>4, <1>5 DEF Consistent
  <1> QED BY <1>6 DEF t

\* What matters for the agreement of one agent.
LEMMA AgreementStays ==
    ASSUME TypeOK, NEW a \in Agents, QueueAgrees(a), Queue' = Queue,
           status'[a] = status[a], runners'[a] = runners[a],
           HasHandle(a) => /\ slot'[runners[a]].paused = slot[runners[a]].paused
                           /\ slot'[runners[a]].cancelled = slot[runners[a]].cancelled
    PROVE  QueueAgrees(a)'
  <1>1. HasHandle(a)' <=> HasHandle(a)
    BY DEF HasHandle
  <1>2. Agrees(a)' <=> Agrees(a)
    BY <1>1 DEF Agrees, HasHandle
  <1> QED BY <1>1, <1>2 DEF QueueAgrees, Consistent

\* An operation writes the row of its agent and puts its event in the queue.
LEMMA AgreementOperate ==
    ASSUME TypeOK, NEW a \in Agents, NEW b \in Agents, QueueAgrees(b),
           Spawn(a) \/ Kill(a) \/ Pause(a) \/ Resume(a)
    PROVE  QueueAgrees(b)'
  <1>1. PICK e \in Events : /\ e.agent = a /\ pending = NoEvent /\ pending' = e
                            /\ status' = [status EXCEPT ![a] = Target(e.op)]
                            /\ e.op = "spawn" => status[a] = "absent"
                            /\ UNCHANGED swarmVars
    <2>1. ASSUME NEW op \in EventOps, NEW from, Operate(op, a, from, Target(op)),
                 op = "spawn" => from = {"absent"}
          PROVE  \E e \in Events : /\ e.agent = a /\ pending = NoEvent /\ pending' = e
                                   /\ status' = [status EXCEPT ![a] = Target(e.op)]
                                   /\ e.op = "spawn" => status[a] = "absent"
                                   /\ UNCHANGED swarmVars
      <3> DEFINE e == [op |-> op, agent |-> a]
      <3>1. e \in Events /\ e.agent = a /\ e.op = op
        BY DEF Events
      <3>2. pending' = e /\ pending = NoEvent /\ status' = [status EXCEPT ![a] = Target(op)]
            /\ status[a] \in from /\ UNCHANGED swarmVars
        BY <2>1 DEF Operate
      <3> HIDE DEF e
      <3> QED BY <2>1, <3>1, <3>2
    <2>2. Target("spawn") = "active" /\ Target("kill") = "dead"
          /\ Target("pause") = "paused" /\ Target("resume") = "active"
      BY DEF Target
    <2>3. "spawn" \in EventOps /\ "kill" \in EventOps /\ "pause" \in EventOps /\ "resume" \in EventOps
      BY DEF EventOps
    <2> QED BY <2>1, <2>2, <2>3 DEF Spawn, Kill, Pause, Resume
  <1>2. Queue = inbox /\ inbox \in Seq(Events) /\ Queue' = Append(inbox, e)
    BY <1>1, NoEventFact DEF Queue, swarmVars, TypeOK
  <1>3. HasHandle(b)' <=> HasHandle(b)
    BY <1>1 DEF HasHandle, swarmVars
  <1>4. CASE b = a
    <2>1. status'[b] = Target(e.op)
      BY <1>1, <1>4 DEF TypeOK
    <2>2. e.op = "spawn" => status[b] = "absent" /\ ~HasHandle(b)
      <3> SUFFICES ASSUME e.op = "spawn" PROVE status[b] = "absent" /\ ~HasHandle(b)
        OBVIOUS
      <3>1. status[b] = "absent"
        BY <1>1, <1>4
      <3>2. \A n \in DOMAIN inbox : inbox[n].agent # b
        BY <1>2, <3>1 DEF QueueAgrees, Consistent
      <3>3. Agrees(b)
        BY <1>2, <3>2 DEF QueueAgrees, Consistent
      <3> QED BY <3>1, <3>3 DEF Agrees
    <2>3. Consistent(inbox, b, status[b], HasHandle(b), Agrees(b))
      BY <1>2 DEF QueueAgrees
    <2>4. Consistent(Append(inbox, e), b, Target(e.op), HasHandle(b), Agrees(b)')
      BY <1>1, <1>2, <1>4, <2>2, <2>3, MineAppend
    <2> QED BY <1>2, <1>3, <2>1, <2>4 DEF QueueAgrees, Consistent
  <1>5. CASE b # a
    <2>1. status'[b] = status[b]
      BY <1>1, <1>5 DEF TypeOK
    <2>2. Agrees(b)' <=> Agrees(b)
      BY <1>1, <2>1 DEF Agrees, HasHandle, swarmVars
    <2>3. Consistent(Append(inbox, e), b, status[b], HasHandle(b), Agrees(b))
      BY <1>1, <1>2, <1>5, OthersAppend DEF QueueAgrees
    <2> QED BY <1>2, <1>3, <2>1, <2>2, <2>3 DEF QueueAgrees, Consistent
  <1> QED BY <1>4, <1>5

\* An event is delivered or lost; a lost one concerns its agent only.
LEMMA AgreementPublish ==
    ASSUME TypeOK, NEW b \in Agents, QueueAgrees(b), Publish \/ PublishFails, b \notin missed'
    PROVE  QueueAgrees(b)'
  <1>1. pending \in Events /\ pending # NoEvent /\ pending' = NoEvent /\ inbox \in Seq(Events)
        /\ UNCHANGED <<status, runners, slot>>
    BY DEF TypeOK, Publish, PublishFails
  <1>2. Queue = Append(inbox, pending)
    BY <1>1 DEF Queue
  <1>3. CASE inbox' = Append(inbox, pending)
    <2>1. Queue' = Queue
      BY <1>1, <1>2, <1>3 DEF Queue
    <2> QED BY <1>1, <2>1, AgreementStays
  <1>4. CASE inbox' = inbox /\ pending.agent # b
    <2>1. Queue' = inbox
      BY <1>1, <1>4 DEF Queue
    <2>2. Consistent(inbox, b, status[b], HasHandle(b), Agrees(b))
      BY <1>1, <1>2, <1>4, OthersAppend DEF QueueAgrees
    <2>3. (Agrees(b)' <=> Agrees(b)) /\ (HasHandle(b)' <=> HasHandle(b)) /\ status'[b] = status[b]
      BY <1>1 DEF Agrees, HasHandle
    <2> QED BY <2>1, <2>2, <2>3 DEF QueueAgrees, Consistent
  <1> QED BY <1>3, <1>4 DEF Publish, PublishFails

\* An event is taken from the inbox: it remains to see that the handle agrees
\* when it was the last one to its agent.
LEMMA AgreementReceive ==
    ASSUME TypeOK, NEW op, Receive(op), NEW b \in Agents, QueueAgrees(b),
           Head(inbox).agent # b =>
             /\ runners'[b] = runners[b]
             /\ HasHandle(b) => /\ slot'[runners[b]].paused = slot[runners[b]].paused
                                /\ slot'[runners[b]].cancelled = slot[runners[b]].cancelled,
           Head(inbox).agent = b /\ status[b] = Target(op) => Agrees(b)'
    PROVE  QueueAgrees(b)'
  <1>1. inbox \in Seq(Events) /\ inbox # <<>> /\ Head(inbox).op = op
        /\ inbox' = Tail(inbox) /\ UNCHANGED <<status, pending>>
    BY ReceiveType DEF TypeOK
  <1>2. Queue \in Seq(Events) /\ Queue # <<>> /\ Head(Queue) = Head(inbox) /\ Queue' = Tail(Queue)
    <2>1. CASE pending = NoEvent
      BY <1>1, <2>1 DEF Queue
    <2>2. CASE pending # NoEvent
      <3>1. pending \in Events
        BY <2>2 DEF TypeOK
      <3>2. Append(inbox, pending) \in Seq(Events) /\ Append(inbox, pending) # <<>>
            /\ Head(Append(inbox, pending)) = Head(inbox)
        BY <1>1, <3>1
      <3>3. Tail(Append(inbox, pending)) = Append(Tail(inbox), pending)
        BY <1>1, <3>1
      <3> QED BY <1>1, <2>2, <3>2, <3>3 DEF Queue
    <2> QED BY <2>1, <2>2
  <1>3. Head(inbox).agent # b => (HasHandle(b)' <=> HasHandle(b)) /\ (Agrees(b)' <=> Agrees(b))
    BY <1>1 DEF HasHandle, Agrees
  <1>4. CASE Head(inbox).agent = b
    <2>1. Consistent(Tail(Queue), b, status[b], HasHandle(b)', Agrees(b)')
      BY <1>1, <1>2, <1>4, QueueTail DEF QueueAgrees
    <2> QED BY <1>1, <1>2, <2>1 DEF QueueAgrees, Consistent
  <1>5. CASE Head(inbox).agent # b
    <2>1. Consistent(Tail(Queue), b, status[b], HasHandle(b), Agrees(b))
      BY <1>1, <1>2, <1>5, QueueTail DEF QueueAgrees
    <2> QED BY <1>1, <1>2, <1>3, <1>5, <2>1 DEF QueueAgrees, Consistent
  <1> QED BY <1>4, <1>5

\* Every step keeps the agreement.
LEMMA AgreementStep == TypeOK /\ HandlesInv /\ AgreementInv /\ [Next]_vars => AgreementInv'
  <1> SUFFICES ASSUME TypeOK, HandlesInv, AgreementInv, [Next]_vars,
                      phase' \in {"booted", "running"},
                      NEW b \in Agents, b \notin missed', b \notin Broken
               PROVE  QueueAgrees(b)'
    BY DEF AgreementInv
  <1>1. ASSUME phase \in {"booted", "running"}, missed \subseteq missed' PROVE QueueAgrees(b)
    BY <1>1 DEF AgreementInv
  <1>2. HasHandle(b) => runners[b] \in Slots /\ slot[runners[b]].agent = b /\ runners[b] \notin waiting
    BY DEF HandlesInv, HasHandle, TypeOK
  <1>3. ASSUME phase' = phase \/ phase = "booted", UNCHANGED <<status, pending, inbox, runners, slot, missed>>
        PROVE  QueueAgrees(b)'
    <2>1. Queue' = Queue
      BY <1>3 DEF Queue
    <2> QED BY <1>1, <1>3, <2>1, AgreementStays
  <1>4. CASE UNCHANGED vars
    BY <1>3, <1>4 DEF vars
  <1>5. ASSUME NEW a \in Agents, Spawn(a) \/ Kill(a) \/ Pause(a) \/ Resume(a) PROVE QueueAgrees(b)'
    <2>1. UNCHANGED <<phase, missed>>
      BY <1>5 DEF Spawn, Kill, Pause, Resume, Operate, swarmVars
    <2> QED BY <1>1, <1>5, <2>1, AgreementOperate
  <1>6. CASE Publish \/ PublishFails
    <2>1. phase' = phase /\ missed \subseteq missed'
      BY <1>6 DEF Publish, PublishFails
    <2> QED BY <1>1, <1>6, <2>1, AgreementPublish
  <1>7. CASE LoadAndStart
    <2>1. inbox = <<>> /\ pending = NoEvent /\ UNCHANGED <<inbox, pending, status>>
      BY <1>7 DEF LoadAndStart, HandlesInv
    <2>2. Queue' = <<>>
      BY <2>1 DEF Queue
    <2>3. Agrees(b)'
      <3>1. runners'[b] # NoSlot <=> status[b] = "active"
        BY <1>7, LoadResult DEF Loadable
      <3>2. runners'[b] # NoSlot => slot'[runners'[b]] = Started(b)
        BY <1>7, LoadResult
      <3>3. ~Started(b).paused /\ ~Started(b).cancelled
        BY StartedFields
      <3> QED BY <2>1, <3>1, <3>2, <3>3 DEF Agrees, HasHandle
    <2> QED BY <2>2, <2>3 DEF QueueAgrees, Consistent
  <1>8. CASE LoadFails
    BY <1>8 DEF LoadFails
  <1>9. CASE Subscribe
    BY <1>3, <1>9 DEF Subscribe
  <1>10. ASSUME NEW op, Receive(op), missed \subseteq missed' PROVE QueueAgrees(b) /\ phase = "running"
    <2>1. phase' = phase /\ phase \in {"running", "stopping"}
      BY <1>10, ReceiveType
    <2> QED BY <1>1, <1>10, <2>1
  <1>11. CASE DispatchSpawn
    <2> PICK a \in Agents : a = Head(inbox).agent
      BY <1>11, ReceiveType DEF DispatchSpawn
    <2>1. Receive("spawn") /\ missed' = missed /\ QueueAgrees(b) /\ phase = "running" /\ status' = status
      BY <1>10, <1>11, SpawnEffect, ReceiveType DEF DispatchSpawn
    <2>2. Target("spawn") = "active"
      BY DEF Target
    <2>3. b = a => ~HasHandle(b)
      <3> SUFFICES ASSUME b = a PROVE ~HasHandle(b)
        OBVIOUS
      <3>1. inbox \in Seq(Events) /\ inbox # <<>> /\ Head(inbox).op = "spawn"
        BY <2>1, ReceiveType DEF TypeOK
      <3>2. 1 \in DOMAIN Queue /\ Queue[1] = Head(inbox)
        <4>1. CASE pending = NoEvent
          BY <3>1, <4>1, TailFacts DEF Queue
        <4>2. CASE pending # NoEvent
          BY <3>1, <4>2, AppendFacts, TailFacts DEF Queue, TypeOK
        <4> QED BY <4>1, <4>2
      <3> QED BY <2>1, <3>1, <3>2 DEF QueueAgrees, Consistent
    <2>4. CASE UNCHANGED <<slot, runners>>
                /\ ~(~HasHandle(a) /\ status[a] = "active" /\ phase = "running" /\ a \notin Broken)
      <3>1. b = a => status[b] # "active"
        BY <2>1, <2>3, <2>4
      <3> QED BY <2>1, <2>2, <2>4, <3>1, AgreementReceive
    <2>5. CASE \E k \in Slots :
                 /\ k \notin waiting /\ \A c \in Agents : runners[c] # k
                 /\ \A c \in Agents : runners'[c] = IF c = a THEN k ELSE runners[c]
                 /\ \A i \in Slots : slot'[i] = IF i = k THEN Started(a) ELSE slot[i]
      <3>1. PICK k \in Slots :
                 /\ k \notin waiting /\ \A c \in Agents : runners[c] # k
                 /\ \A c \in Agents : runners'[c] = IF c = a THEN k ELSE runners[c]
                 /\ \A i \in Slots : slot'[i] = IF i = k THEN Started(a) ELSE slot[i]
        BY <2>5
      <3>2. a # b => /\ runners'[b] = runners[b]
                     /\ HasHandle(b) => slot'[runners[b]] = slot[runners[b]]
        BY <1>2, <3>1
      <3>3. a = b /\ status[b] = "active" => Agrees(b)'
        <4>1. k # NoSlot
          BY DEF Slots, NoSlot
        <4> QED BY <2>1, <3>1, <4>1, StartedFields DEF Agrees, HasHandle
      <3> QED BY <2>1, <2>2, <3>2, <3>3, AgreementReceive
    <2> QED BY <1>11, <2>4, <2>5, SpawnEffect
  <1>12. CASE DispatchSpawnFails
    <2>1. Receive("spawn") /\ missed \subseteq missed' /\ Head(inbox).agent # b
          /\ UNCHANGED <<runners, slot>>
      BY <1>12 DEF DispatchSpawnFails
    <2> QED BY <1>10, <2>1, AgreementReceive
  <1>13. CASE DispatchKill
    <2> PICK a \in Agents : a = Head(inbox).agent
      BY <1>13, ReceiveType DEF DispatchKill
    <2>1. Receive("kill") /\ missed' = missed /\ QueueAgrees(b) /\ status' = status
      BY <1>10, <1>13, KillEffect, ReceiveType DEF DispatchKill
    <2>2. Target("kill") = "dead"
      BY DEF Target
    <2>3. a # b => /\ runners'[b] = runners[b]
                   /\ HasHandle(b) => /\ slot'[runners[b]].paused = slot[runners[b]].paused
                                      /\ slot'[runners[b]].cancelled = slot[runners[b]].cancelled
      <3> SUFFICES ASSUME a # b
                   PROVE  /\ runners'[b] = runners[b]
                          /\ HasHandle(b) => /\ slot'[runners[b]].paused = slot[runners[b]].paused
                                             /\ slot'[runners[b]].cancelled = slot[runners[b]].cancelled
        OBVIOUS
      <3>1. HasHandle(b) => runners[b] # runners[a]
        BY <1>2 DEF HandlesInv, HasHandle
      <3> QED BY <1>2, <1>13, <3>1, KillEffect
    <2>4. a = b /\ status[b] = "dead" => Agrees(b)'
      BY <1>13, <2>1, KillEffect DEF Agrees, HasHandle
    <2> QED BY <2>1, <2>2, <2>3, <2>4, AgreementReceive
  <1>14. CASE DispatchPause
    <2> PICK a \in Agents : a = Head(inbox).agent
      BY <1>14, ReceiveType DEF DispatchPause
    <2>1. Receive("pause") /\ UNCHANGED <<missed, runners>> /\ status' = status
          /\ slot' = IF HasHandle(a) THEN [slot EXCEPT ![runners[a]].paused = TRUE] ELSE slot
      BY <1>14, ReceiveType DEF DispatchPause
    <2>2. Target("pause") = "paused"
      BY DEF Target
    <2>3. \A i \in Slots : /\ slot'[i].cancelled = slot[i].cancelled
                           /\ slot'[i].paused = IF i = runners[a] THEN TRUE ELSE slot[i].paused
      BY <2>1, PauseEffect
    <2>4. a # b /\ HasHandle(b) => runners[b] # runners[a]
      BY <1>2 DEF HandlesInv, HasHandle
    <2>5. a = b /\ status[b] = "paused" => Agrees(b)'
      BY <1>2, <2>1, <2>3 DEF Agrees, HasHandle
    <2> QED BY <1>2, <1>10, <2>1, <2>2, <2>3, <2>4, <2>5, AgreementReceive
  <1>15. CASE DispatchResume
    <2> PICK a \in Agents : a = Head(inbox).agent
      BY <1>15, ReceiveType DEF DispatchResume
    <2>1. Receive("resume") /\ missed \subseteq missed' /\ UNCHANGED <<runners, status>>
          /\ slot' = (IF HasHandle(a) THEN [slot EXCEPT ![runners[a]].paused = FALSE] ELSE slot)
          /\ (~HasHandle(a) => a \in missed')
      BY <1>15, ReceiveType DEF DispatchResume
    <2>2. Target("resume") = "active"
      BY DEF Target
    <2>3. \A i \in Slots : /\ slot'[i].cancelled = slot[i].cancelled
                           /\ slot'[i].paused = IF i = runners[a] THEN FALSE ELSE slot[i].paused
      <3>1. slot' = IF HasHandle(a) THEN [slot EXCEPT ![runners[a]].paused = FALSE] ELSE slot
        BY <2>1
      <3>2. PICK f \in BOOLEAN : f = FALSE
        OBVIOUS
      <3>3. slot' = IF HasHandle(a) THEN [slot EXCEPT ![runners[a]].paused = f] ELSE slot
        BY <3>1, <3>2
      <3>4. \A i \in Slots : /\ slot'[i].cancelled = slot[i].cancelled
                             /\ slot'[i].paused = IF i = runners[a] THEN f ELSE slot[i].paused
        BY <3>3, PauseEffect
      <3> QED BY <3>2, <3>4
    <2>4. a # b /\ HasHandle(b) => runners[b] # runners[a]
      BY <1>2 DEF HandlesInv, HasHandle
    <2>5. phase = "running" /\ QueueAgrees(b)
      BY <1>10, <2>1
    <2>6. a = b /\ status[b] = "active" => Agrees(b)'
      <3> SUFFICES ASSUME a = b, status[b] = "active" PROVE Agrees(b)'
        OBVIOUS
      <3>1. HasHandle(b)
        BY <2>1
      <3>2. ~slot[runners[b]].cancelled
        BY <2>5, <3>1 DEF HandlesInv
      <3> QED BY <1>2, <2>1, <2>3, <3>1, <3>2 DEF Agrees, HasHandle
    <2> QED BY <1>2, <2>1, <2>2, <2>3, <2>4, <2>5, <2>6, AgreementReceive
  <1>16. ASSUME NEW i \in Slots, StopDone(i) PROVE QueueAgrees(b)'
    <2>1. UNCHANGED <<status, pending, inbox, phase, runners, missed>> /\ i \in waiting
          /\ \A j \in Slots : j # i => slot'[j] = slot[j]
      BY <1>16 DEF StopDone, TypeOK
    <2>2. Queue' = Queue
      BY <2>1 DEF Queue
    <2> QED BY <1>1, <1>2, <2>1, <2>2, AgreementStays
  <1>17. ASSUME NEW i \in Slots, StopTimeout(i) PROVE QueueAgrees(b)'
    BY <1>3, <1>17 DEF StopTimeout
  <1>18. CASE SubscribeFails \/ Signal \/ StopAll \/ Exit \/ Crash
    BY <1>18 DEF SubscribeFails, Signal, StopAll, Exit, Crash, Gone
  <1>19. ASSUME NEW i \in Slots, RunnerStep(i) PROVE QueueAgrees(b)'
    <2>1. UNCHANGED <<status, pending, inbox, phase, runners, missed>>
          /\ (\A j \in Slots : j # i => slot'[j] = slot[j])
          /\ slot'[i].cancelled = slot[i].cancelled
          /\ (~slot[i].cancelled => slot'[i].paused = slot[i].paused)
      BY <1>19, RunnerEffect
    <2>2. Queue' = Queue
      BY <2>1 DEF Queue
    <2>3. HasHandle(b) => ~slot[runners[b]].cancelled
      BY <2>1 DEF HandlesInv
    <2> QED BY <1>1, <1>2, <2>1, <2>2, <2>3, AgreementStays
  <1> QED BY <1>4, <1>5, <1>6, <1>7, <1>8, <1>9, <1>11, <1>12, <1>13, <1>14, <1>15, <1>16, <1>17,
             <1>18, <1>19 DEF Next, Dispatch, RunnerStep

\* When every event has been handled, the handles agree with the rows of all
\* agents whose events all took effect (lifecycle.go; swarm.go 140-334).
THEOREM QuiescentAgreementHolds == Spec => []QuiescentAgreement
  <1>1. Init => AgreementInv
    BY DEF Init, AgreementInv
  <1>2. AgreementInv => QuiescentAgreement
    BY DEF AgreementInv, QuiescentAgreement, QueueAgrees, Consistent, Queue
  <1> QED BY <1>1, <1>2, AgreementStep, HandlesInit, HandlesStep, InitType, TypeStep, PTL DEF Spec

=============================================================================
