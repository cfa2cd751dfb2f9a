----------------------- MODULE RootOrchestratorProofs -----------------------
(***************************************************************************)
(* Proofs about the epoch loop, for any agents and proposals, any values of *)
(* their columns, any thresholds and any number of faults.                  *)
(***************************************************************************)
EXTENDS RootOrchestrator, FiniteSetTheorems, FunctionTheorems, TLAPS

Reasons == RejectTags \cup {"none"}

\* The types of the tables and locals that the argument needs.
TablesOK ==
    /\ status \in [Agents -> {"active", "paused", "dead"}]
    /\ prop \in [Proposals -> [status : ProposalStatus, reason : Reasons, verdict : Verdicts]]
    /\ postmortems \in [Agents -> Nat]
    /\ DOMAIN queue \subseteq Proposals
    /\ due \subseteq Agents

\* What an epoch still has to do fits the tables: every action left is for an
\* agent that is alive, no two are for the same agent, every proposal left is
\* pending; between epochs nothing is left.
PlanFits ==
    /\ \A x \in actions : x.agent \in Agents /\ status[x.agent] # "dead"
    /\ \A x, y \in actions : x.agent = y.agent => x = y
    /\ \A p \in DOMAIN queue : prop[p].status = "pending"
    /\ pc = "idle" => actions = {} /\ DOMAIN queue = {} /\ due = {}

\* An agent whose postmortem is due has died without one; a dead agent has
\* one, will get one in this epoch, or has lost it.
Accounted ==
    \A a \in Agents :
        /\ postmortems[a] <= 1
        /\ status[a] # "dead" => postmortems[a] = 0
        /\ a \in due => status[a] = "dead" /\ postmortems[a] = 0
        /\ status[a] = "dead" => postmortems[a] = 1 \/ a \in due \cup lost

EpochInv == TablesOK /\ PlanFits /\ Accounted /\ ProposalRowsConsistent

-----------------------------------------------------------------------------
\* What the policy plans for one agent of the snapshot.
Plan(a) == PolicyFor(applyDefaults(Cfg), a, AgentSnapshot(a), FALSE)

\* The policy plans at most one action for an agent.
LEMMA PlanOne ==
    ASSUME NEW a, NEW x \in Plan(a), NEW y \in Plan(a)
    PROVE  x.agent = a /\ x = y
  <1>1. \A cfg, s, b : \A u, v \in PolicyFor(cfg, a, s, b) : u.agent = a /\ u = v
    BY DEF PolicyFor, Action
  <1> QED BY <1>1, Zenon DEF Plan

\* A decision gives a reason exactly when it rejects, and carries the verdict
\* reject exactly when the quality check was the reason.
LEMMA DecisionShape ==
    ASSUME NEW o, NEW reserve, NEW quality \in Replies, NEW adversarial \in Replies,
           NEW backtest, NEW d,
           d = processOffspring(o, reserve, quality, adversarial, backtest)
    PROVE  /\ d.outcome \in {"approved", "rejected", "revise"}
           /\ d.tag \in Reasons /\ d.verdict \in Verdicts
           /\ d.outcome = "rejected" <=> d.tag # "none"
           /\ d.verdict = "reject" <=> d.tag = "quality_reject"
  <1>1. QualityCheck(quality) \in Verdicts
    BY DEF QualityCheck, normalizeVerdict, Verdicts, Replies
  <1> QED BY <1>1 DEF processOffspring, Decided, Reasons, RejectTags, Verdicts

\* The initial state satisfies the inductive invariant.
LEMMA InitInv == Init => EpochInv
  <1> SUFFICES ASSUME Init PROVE EpochInv
    OBVIOUS
  <1>1. DOMAIN queue = {}
    BY DEF Init
  <1>2. TablesOK
    BY <1>1 DEF Init, TablesOK, ProposalStatus, Reasons, Verdicts
  <1>3. PlanFits
    BY <1>1 DEF Init, PlanFits
  <1>4. Accounted /\ ProposalRowsConsistent
    BY DEF Init, Accounted, ProposalRowsConsistent
  <1> QED BY <1>2, <1>3, <1>4 DEF EpochInv

\* Loading a snapshot: the plan it makes fits the tables it was read from.
LEMMA StartStep == EpochInv /\ StartEpoch => EpochInv'
  <1> SUFFICES ASSUME EpochInv, StartEpoch PROVE EpochInv'
    OBVIOUS
  <1>1. UNCHANGED <<status, prop, postmortems, lost>> /\ due' = {} /\ pc' = "epoch"
    BY DEF StartEpoch
  <1>2. DOMAIN queue' = Undecided
    BY DEF StartEpoch
  <1>3. due = {} /\ actions = {}
    BY DEF EpochInv, PlanFits, StartEpoch
  <1>4. \A x \in actions' : \E a \in Loaded : x \in Plan(a)
    BY DEF StartEpoch, DeterministicLifecyclePolicy, Plan
  <1>5. \A x \in actions' : x.agent \in Agents /\ status[x.agent] # "dead"
    BY <1>4, PlanOne DEF Loaded
  <1>6. \A x, y \in actions' : x.agent = y.agent => x = y
    BY <1>4, PlanOne
  <1>7. TablesOK' /\ PlanFits'
    BY <1>1, <1>2, <1>5, <1>6 DEF EpochInv, TablesOK, PlanFits, Undecided
  <1>8. Accounted' /\ ProposalRowsConsistent'
    BY <1>1, <1>3 DEF EpochInv, Accounted, ProposalRowsConsistent
  <1> QED BY <1>7, <1>8 DEF EpochInv

\* Executing one action, whatever becomes of it.
LEMMA ActionStep ==
    ASSUME EpochInv, NEW x \in actions,
           ExecuteAction(x) \/ ActionFails(x) \/ ActionUnconfirmed(x)
    PROVE  EpochInv'
  <1>1. /\ UNCHANGED <<prop, postmortems, queue, pc>>
        /\ actions' = actions \ {x} /\ pc = "epoch" /\ x.agent \in Agents
        /\ status[x.agent] # "dead"
    BY DEF ExecuteAction, ActionFails, ActionUnconfirmed, Execute, EpochInv, PlanFits
  <1>2. \/ UNCHANGED <<status, due, lost>>
        \/ /\ status' = [status EXCEPT ![x.agent] = TargetStatus(x.kind)]
           /\ \/ due' = due \cup postmortemInputFor(x) /\ lost' = lost
              \/ due' = due /\ lost' = IF x.kind = "kill" THEN lost \cup {x.agent} ELSE lost
    BY DEF ExecuteAction, ActionFails, ActionUnconfirmed, Written
  <1>3. TargetStatus(x.kind) \in {"active", "paused", "dead"}
        /\ (TargetStatus(x.kind) = "dead" <=> x.kind = "kill")
    BY DEF TargetStatus
  <1>4. TablesOK'
    BY <1>1, <1>2, <1>3 DEF EpochInv, TablesOK, postmortemInputFor
  <1>5. PlanFits'
    <2>1. \A y \in actions' : y.agent \in Agents /\ y.agent # x.agent
      BY <1>1 DEF EpochInv, PlanFits
    <2>2. \A y \in actions' : status'[y.agent] = status[y.agent]
      BY <1>2, <2>1 DEF EpochInv, TablesOK
    <2> QED BY <1>1, <2>1, <2>2 DEF EpochInv, PlanFits
  <1>6. Accounted'
    BY <1>1, <1>2, <1>3 DEF EpochInv, TablesOK, Accounted, postmortemInputFor
  <1>7. ProposalRowsConsistent'
    BY <1>1 DEF EpochInv, ProposalRowsConsistent
  <1> QED BY <1>4, <1>5, <1>6, <1>7 DEF EpochInv

\* What deciding a proposal does to its row and to the others.
LEMMA ProposalStep ==
    ASSUME EpochInv, NEW p \in Proposals, ProcessOffspring(p)
    PROVE  EpochInv'
  <1>1. /\ UNCHANGED <<status, postmortems, pc, actions, due, lost>>
        /\ pc = "epoch" /\ p \in DOMAIN queue /\ DOMAIN queue' = DOMAIN queue \ {p}
    BY DEF ProcessOffspring
  <1>2. prop[p].status = "pending"
    BY <1>1 DEF EpochInv, PlanFits
  <1>3. prop[p].reason = "none" /\ prop[p].verdict # "reject"
    BY <1>2 DEF EpochInv, ProposalRowsConsistent
  <1>4. \/ UNCHANGED prop
        \/ \E quality, adversarial \in Replies, backtest \in BacktestReplies :
              PersistOffspringDecision(p,
                  processOffspring(queue[p], Reserve[p], quality, adversarial, backtest))
    BY DEF ProcessOffspring
  <1>5. /\ prop' \in [Proposals -> [status : ProposalStatus, reason : Reasons, verdict : Verdicts]]
        /\ \A r \in Proposals \ {p} : prop'[r] = prop[r]
        /\ (prop'[p].status = "rejected") <=> (prop'[p].reason # "none")
        /\ (prop'[p].verdict = "reject") <=> (prop'[p].reason = "quality_reject")
    <2>1. CASE UNCHANGED prop
      BY <1>2, <1>3, <2>1 DEF EpochInv, TablesOK
    <2>2. ASSUME NEW quality \in Replies, NEW adversarial \in Replies, NEW backtest,
                 PersistOffspringDecision(p,
                    processOffspring(queue[p], Reserve[p], quality, adversarial, backtest))
          PROVE <1>5!:
      <3> DEFINE d == processOffspring(queue[p], Reserve[p], quality, adversarial, backtest)
      <3>1. /\ d.outcome \in {"approved", "rejected", "revise"}
            /\ d.tag \in Reasons /\ d.verdict \in Verdicts
            /\ d.outcome = "rejected" <=> d.tag # "none"
            /\ d.verdict = "reject" <=> d.tag = "quality_reject"
        BY DecisionShape
      <3>2. prop' = [prop EXCEPT ![p] =
                [status |-> IF d.outcome = "revise" THEN "pending" ELSE d.outcome,
                 reason |-> d.tag,
                 verdict |-> IF d.verdict = "none" THEN prop[p].verdict ELSE d.verdict]]
        BY <2>2 DEF PersistOffspringDecision, EpochInv, TablesOK
      <3> HIDE DEF d
      <3> QED BY <1>2, <1>3, <3>1, <3>2 DEF EpochInv, TablesOK, ProposalStatus
    <2> QED BY <1>4, <2>1, <2>2
  <1>6. TablesOK'
    BY <1>1, <1>5 DEF EpochInv, TablesOK
  <1>7. PlanFits'
    BY <1>1, <1>5 DEF EpochInv, TablesOK, PlanFits
  <1>8. Accounted'
    BY <1>1 DEF EpochInv, Accounted
  <1>9. ProposalRowsConsistent'
    BY <1>5 DEF EpochInv, ProposalRowsConsistent
  <1> QED BY <1>6, <1>7, <1>8, <1>9 DEF EpochInv

\* The rest of an epoch, its surroundings, and stuttering.
LEMMA OtherSteps ==
    ASSUME EpochInv,
           \/ StartFails \/ LogEpoch \/ Expire \/ Crash \/ UNCHANGED vars
           \/ \E a \in Agents : GeneratePostmortem(a) \/ AgentActivity(a)
           \/ \E p \in Proposals : Submit(p)
    PROVE  EpochInv'
  <1> USE DEF EpochInv
  <1>1. CASE StartFails \/ UNCHANGED vars \/ Expire
    BY <1>1 DEF StartFails, vars, Expire, tables, locals, history,
                TablesOK, PlanFits, Accounted, ProposalRowsConsistent
  <1>2. CASE LogEpoch
    <2>1. /\ UNCHANGED <<status, prop, postmortems, actions, queue, due, lost>>
          /\ actions = {} /\ DOMAIN queue = {} /\ due = {}
      BY <1>2 DEF LogEpoch
    <2> QED BY <2>1 DEF TablesOK, PlanFits, Accounted, ProposalRowsConsistent
  <1>3. CASE Crash
    <2>1. /\ UNCHANGED <<status, prop, postmortems>> /\ actions' = {}
          /\ DOMAIN queue' = {} /\ due' = {} /\ lost' = lost \cup due
      BY <1>3 DEF Crash, tables
    <2> QED BY <2>1 DEF TablesOK, PlanFits, Accounted, ProposalRowsConsistent
  <1>4. ASSUME NEW a \in Agents, GeneratePostmortem(a) PROVE EpochInv'
    <2>1. /\ UNCHANGED <<status, prop, actions, queue, pc>> /\ pc = "epoch"
          /\ a \in due /\ due' = due \ {a}
          /\ \/ postmortems' = [postmortems EXCEPT ![a] = @ + 1] /\ lost' = lost
             \/ UNCHANGED postmortems /\ lost' = lost \cup {a}
      BY <1>4 DEF GeneratePostmortem, PersistPostmortem
    <2> QED BY <2>1 DEF TablesOK, PlanFits, Accounted, ProposalRowsConsistent
  <1>5. ASSUME NEW a \in Agents, AgentActivity(a) PROVE EpochInv'
    BY <1>5 DEF AgentActivity, locals, history,
                TablesOK, PlanFits, Accounted, ProposalRowsConsistent
  <1>6. ASSUME NEW p \in Proposals, Submit(p) PROVE EpochInv'
    <2>1. /\ UNCHANGED <<status, postmortems, actions, queue, pc, due, lost>>
          /\ prop[p].status = "absent"
          /\ prop' = [prop EXCEPT ![p] = [prop[p] EXCEPT !.status = "pending"]]
      BY <1>6 DEF Submit, locals, history, TablesOK
    <2> QED BY <2>1 DEF TablesOK, PlanFits, Accounted, ProposalRowsConsistent, ProposalStatus
  <1> QED BY <1>1, <1>2, <1>3, <1>4, <1>5, <1>6

\* The invariant is inductive.
LEMMA Inductive == EpochInv /\ [Next]_vars => EpochInv'
  BY StartStep, ActionStep, ProposalStep, OtherSteps DEF Next, EpochStep

\* The inductive invariant holds in every state of every sequence of epochs,
\* failed and crashed ones included.
THEOREM Invariance == Spec => []EpochInv
  BY InitInv, Inductive, PTL DEF Spec

-----------------------------------------------------------------------------
\* Only the dead have a postmortem, nobody has two, and between epochs a dead
\* agent without one is an agent whose kill or postmortem failed.
THEOREM Postmortems == Spec => []PostmortemsMatchDeaths
  <1>1. EpochInv => PostmortemsMatchDeaths
    BY DEF EpochInv, TablesOK, PlanFits, Accounted, PostmortemsMatchDeaths
  <1> QED BY <1>1, Invariance, PTL

\* The columns of a proposal never contradict each other, over any number of
\* epochs that revise, retry or fail to write.
THEOREM ProposalRows == Spec => []ProposalRowsConsistent
  <1>1. EpochInv => ProposalRowsConsistent
    BY DEF EpochInv
  <1> QED BY <1>1, Invariance, PTL

\* No action of any epoch brings a dead agent back, although SetAgentStatus
\* writes whatever it is told.
THEOREM DeathIsFinal == Spec => DeadIsFinal
  <1>1. EpochInv /\ [Next]_vars =>
            [\A a \in Agents : status[a] = "dead" => status'[a] = "dead"]_vars
    <2> SUFFICES ASSUME EpochInv, Next, NEW a \in Agents, status[a] = "dead"
                 PROVE  status'[a] = "dead"
      OBVIOUS
    <2>1. CASE UNCHANGED status
      BY <2>1
    <2>2. CASE \E x \in actions : Written(x)
      BY <2>2 DEF EpochInv, TablesOK, PlanFits, Written
    <2>3. UNCHANGED status \/ \E x \in actions : Written(x)
      BY DEF Next, EpochStep, StartEpoch, StartFails, ExecuteAction, ActionFails,
             ActionUnconfirmed, ProcessOffspring, GeneratePostmortem, LogEpoch, Expire,
             Crash, AgentActivity, Submit, tables
    <2> QED BY <2>1, <2>2, <2>3
  <1> QED BY <1>1, Invariance, PTL DEF Spec, DeadIsFinal

\* A proposal that was approved or rejected keeps its row for ever.
THEOREM DecisionsAreFinal == Spec => DecisionsFinal
  <1>1. EpochInv /\ [Next]_vars =>
            [\A p \in Proposals :
                prop[p].status \in {"approved", "rejected"} => prop'[p] = prop[p]]_vars
    <2> SUFFICES ASSUME EpochInv, Next, NEW p \in Proposals,
                        prop[p].status \in {"approved", "rejected"}
                 PROVE  prop'[p] = prop[p]
      OBVIOUS
    <2>1. CASE UNCHANGED prop
      BY <2>1
    <2>2. ASSUME NEW r \in Proposals, Submit(r) PROVE prop'[p] = prop[p]
      BY <2>2 DEF EpochInv, TablesOK, Submit
    <2>3. ASSUME NEW r \in Proposals, ProcessOffspring(r) PROVE prop'[p] = prop[p]
      <3>1. r \in DOMAIN queue /\ prop[r].status = "pending"
        BY <2>3 DEF ProcessOffspring, EpochInv, PlanFits
      <3>2. UNCHANGED prop \/ \E d : PersistOffspringDecision(r, d)
        BY <2>3 DEF ProcessOffspring
      <3> QED BY <3>1, <3>2 DEF PersistOffspringDecision, EpochInv, TablesOK
    <2>4. \/ UNCHANGED prop
          \/ \E r \in Proposals : Submit(r) \/ ProcessOffspring(r)
      BY DEF Next, EpochStep, StartEpoch, StartFails, ExecuteAction, ActionFails,
             ActionUnconfirmed, Execute, GeneratePostmortem, LogEpoch, Expire,
             Crash, AgentActivity, tables
    <2> QED BY <2>1, <2>2, <2>3, <2>4
  <1> QED BY <1>1, Invariance, PTL DEF Spec, DecisionsFinal

-----------------------------------------------------------------------------
(* The counts of the log.  LogEpoch counts the plan and the decisions, the  *)
(* tables show the outcomes: the invariant relates the two along an epoch   *)
(* in which no call has failed.                                             *)

\* No two planned actions are for the same agent, and the agents that died
\* are those of the kills already executed.
DeathsAsPlanned ==
    /\ actions \subseteq planned
    /\ \A x \in planned : x.agent \in Agents
    /\ \A x, y \in planned : x.agent = y.agent => x = y
    /\ died = {x.agent : x \in {y \in planned \ actions : y.kind = "kill"}}

\* Every approval so far has made one row approved, of a proposal that is no
\* longer in the queue.
SpawnsAsDecided ==
    /\ approvals = Cardinality(spawned)
    /\ spawned \cap DOMAIN queue = {}

CountsInv ==
    /\ pc \in {"idle", "epoch"} /\ spawned \subseteq Proposals
    /\ pc = "epoch" => epochLog.final = FALSE
    /\ (pc = "epoch" /\ clean) => DeathsAsPlanned /\ SpawnsAsDecided
    /\ LoggedCountsExact

\* Once every action has been executed, as many agents have died as kills
\* were planned: the actions are one per agent.
LEMMA KillsAreDeaths ==
    ASSUME DeathsAsPlanned, actions = {}
    PROVE  Cardinality({x \in planned : x.kind = "kill"}) = Cardinality(died)
  <1> DEFINE K == {x \in planned : x.kind = "kill"}
             f == [x \in K |-> x.agent]
  <1>1. f \in [K -> Agents] /\ \A x, y \in K : f[x] = f[y] => x = y
    BY DEF DeathsAsPlanned
  <1>2. f \in Injection(K, Agents)
    BY <1>1, Fun_IsInj
  <1>3. IsFiniteSet(K)
    BY <1>2, AgentsAssumption, FS_Injection
  <1>4. f \in [K -> died] /\ \A a \in died : \E x \in K : f[x] = a
    BY DEF DeathsAsPlanned
  <1>5. f \in Bijection(K, died)
    BY <1>1, <1>4, Fun_IsBij
  <1>6. ExistsBijection(K, died)
    BY <1>5 DEF ExistsBijection
  <1> QED BY <1>3, <1>6, FS_Bijection

\* The initial state counts nothing.
LEMMA CountsInit == Init => CountsInv
  BY DEF Init, CountsInv, LoggedCountsExact, Seeded

\* A new epoch starts with a plan of one action per agent and empty counts.
LEMMA CountsStart == CountsInv /\ StartEpoch => CountsInv'
  <1> SUFFICES ASSUME StartEpoch PROVE CountsInv'
    OBVIOUS
  <1>1. /\ pc' = "epoch" /\ actions' = planned' /\ approvals' = 0
        /\ died' = {} /\ spawned' = {} /\ epochLog'.final = FALSE
    BY DEF StartEpoch, Seeded
  <1>2. \A x \in planned' : \E a \in Loaded : x \in Plan(a)
    BY DEF StartEpoch, DeterministicLifecyclePolicy, Plan
  <1>3. DeathsAsPlanned'
    BY <1>1, <1>2, PlanOne DEF DeathsAsPlanned, Loaded
  <1>4. SpawnsAsDecided'
    BY <1>1, FS_EmptySet DEF SpawnsAsDecided
  <1> QED BY <1>1, <1>3, <1>4 DEF CountsInv, LoggedCountsExact

\* An executed kill moves its agent from the plan to the dead; a failed one
\* ends the exactness of the epoch.
LEMMA CountsAction ==
    ASSUME CountsInv, NEW x \in actions,
           ExecuteAction(x) \/ ActionFails(x) \/ ActionUnconfirmed(x)
    PROVE  CountsInv'
  <1>1. /\ UNCHANGED <<queue, pc, planned, approvals, spawned, epochLog>>
        /\ actions' = actions \ {x} /\ pc = "epoch"
    BY DEF ExecuteAction, ActionFails, ActionUnconfirmed, Execute
  <1>2. CASE clean'
    <2>1. Written(x) /\ clean
      BY <1>2 DEF ExecuteAction, ActionFails, ActionUnconfirmed, Succeeds, Fails
    <2>2. DeathsAsPlanned /\ SpawnsAsDecided
      BY <1>1, <2>1 DEF CountsInv
    <2>3. {y \in planned' \ actions' : y.kind = "kill"} =
            {y \in planned \ actions : y.kind = "kill"}
                \cup (IF x.kind = "kill" THEN {x} ELSE {})
      BY <1>1, <2>2 DEF DeathsAsPlanned
    <2>4. died' = {y.agent : y \in {z \in planned' \ actions' : z.kind = "kill"}}
      BY <2>1, <2>2, <2>3 DEF DeathsAsPlanned, Written
    <2>5. DeathsAsPlanned' /\ SpawnsAsDecided'
      BY <1>1, <2>2, <2>4 DEF DeathsAsPlanned, SpawnsAsDecided
    <2> QED BY <1>1, <2>5 DEF CountsInv, LoggedCountsExact
  <1> QED BY <1>1, <1>2 DEF CountsInv, LoggedCountsExact

\* A decision is counted exactly when its row becomes approved, unless a call
\* failed.
LEMMA CountsProposal ==
    ASSUME CountsInv, NEW p \in Proposals, ProcessOffspring(p)
    PROVE  CountsInv'
  <1>1. /\ UNCHANGED <<pc, actions, planned, died, epochLog>> /\ pc = "epoch"
        /\ p \in DOMAIN queue /\ DOMAIN queue' = DOMAIN queue \ {p}
    BY DEF ProcessOffspring
  <1>2. spawned' \in {spawned, spawned \cup {p}}
    BY DEF ProcessOffspring
  <1>3. CASE clean'
    <2>1. /\ clean
          /\ \/ approvals' = approvals + 1 /\ spawned' = spawned \cup {p}
             \/ approvals' = approvals /\ spawned' = spawned
      BY <1>3 DEF ProcessOffspring, Succeeds, Fails
    <2>2. DeathsAsPlanned /\ SpawnsAsDecided
      BY <1>1, <2>1 DEF CountsInv
    <2>3. IsFiniteSet(spawned)
      <3>1. IsFiniteSet(1 .. NumProposals)
        BY ProposalsAssumption, FS_Interval, 1 \in Int, NumProposals \in Int
      <3> QED BY <3>1, FS_Subset DEF CountsInv, Proposals
    <2>4. p \notin spawned
      BY <1>1, <2>2 DEF SpawnsAsDecided
    <2>5. Cardinality(spawned \cup {p}) = Cardinality(spawned) + 1
      BY <2>3, <2>4, FS_AddElement
    <2>6. SpawnsAsDecided'
      BY <1>1, <2>1, <2>2, <2>5 DEF SpawnsAsDecided
    <2>7. DeathsAsPlanned'
      BY <1>1, <2>2 DEF DeathsAsPlanned
    <2> QED BY <1>1, <1>2, <2>6, <2>7 DEF CountsInv, LoggedCountsExact
  <1> QED BY <1>1, <1>2, <1>3 DEF CountsInv, LoggedCountsExact

\* The log itself, and the steps that count nothing.
LEMMA CountsOther ==
    ASSUME CountsInv,
           \/ StartFails \/ LogEpoch \/ Expire \/ Crash \/ UNCHANGED vars
           \/ \E a \in Agents : GeneratePostmortem(a) \/ AgentActivity(a)
           \/ \E p \in Proposals : Submit(p)
    PROVE  CountsInv'
  <1>1. CASE LogEpoch
    <2>1. pc = "epoch" /\ pc' = "idle" /\ actions = {} /\ UNCHANGED <<died, spawned>>
      BY <1>1 DEF LogEpoch
    <2>2. CASE clean'
      <3>a. epochLog' = [killed |-> Cardinality({x \in planned : x.kind = "kill"}),
                          spawned |-> approvals, tripped |-> Trips, final |-> TRUE]
        BY <1>1, <2>2, Zenon DEF LogEpoch, Fails
      <3>b. clean
        BY <1>1, <2>2, Zenon DEF LogEpoch, Succeeds, Fails
      <3>1. /\ clean
            /\ epochLog'.killed = Cardinality({x \in planned : x.kind = "kill"})
            /\ epochLog'.spawned = approvals
        BY <3>a, <3>b
      <3>2. DeathsAsPlanned /\ SpawnsAsDecided
        BY <2>1, <3>1 DEF CountsInv
      <3>3. /\ epochLog'.killed = Cardinality(died')
            /\ epochLog'.spawned = Cardinality(spawned')
        BY <2>1, <3>1, <3>2, KillsAreDeaths DEF SpawnsAsDecided
      <3> QED BY <2>1, <3>3 DEF CountsInv, LoggedCountsExact
    <2> QED BY <2>1, <2>2 DEF CountsInv, LoggedCountsExact
  <1>2. CASE Crash
    <2>1. pc' = "idle" /\ pc = "epoch" /\ UNCHANGED <<epochLog, spawned>>
      BY <1>2 DEF Crash, tables
    <2> QED BY <2>1 DEF CountsInv, LoggedCountsExact
  <1>3. ASSUME UNCHANGED <<pc, actions, planned, approvals, epochLog, died, spawned, queue>>,
               clean' => clean
        PROVE  CountsInv'
    BY <1>3 DEF CountsInv, LoggedCountsExact, DeathsAsPlanned, SpawnsAsDecided
  <1>4. CASE StartFails \/ Expire \/ UNCHANGED vars
    BY <1>3, <1>4 DEF StartFails, Expire, vars, tables, locals, history
  <1>5. ASSUME NEW a \in Agents, GeneratePostmortem(a) PROVE CountsInv'
    BY <1>3, <1>5 DEF GeneratePostmortem, Succeeds, Fails
  <1>6. ASSUME NEW a \in Agents, AgentActivity(a) PROVE CountsInv'
    BY <1>3, <1>6 DEF AgentActivity, locals, history
  <1>7. ASSUME NEW p \in Proposals, Submit(p) PROVE CountsInv'
    BY <1>3, <1>7 DEF Submit, locals, history
  <1> QED BY <1>1, <1>2, <1>4, <1>5, <1>6, <1>7

\* In an epoch in which no call failed, the kills and approvals that LogEpoch
\* writes are the deaths and approvals of the other tables, although it
\* counts what was planned and decided.
THEOREM LoggedCounts == Spec => []LoggedCountsExact
  <1>1. CountsInv /\ [Next]_vars => CountsInv'
    BY CountsStart, CountsAction, CountsProposal, CountsOther DEF Next, EpochStep
  <1>2. CountsInv => LoggedCountsExact
    BY DEF CountsInv
  <1> QED BY CountsInit, <1>1, <1>2, PTL DEF Spec

-----------------------------------------------------------------------------
(* The types.  The log's count of kills is a number because the plan of an  *)
(* epoch has one action per agent, so the plan is part of the invariant.    *)

OnePlanned == \A x, y \in planned : x.agent = y.agent => x = y

TypeInv == TypeOK /\ OnePlanned

\* The drawdown of a snapshot is a percentage.
LEMMA DrawdownRange ==
    ASSUME NEW peak \in Nat, NEW balance \in Int
    PROVE  DrawdownPct(peak, balance) \in 0 .. 100
  <1>1. CASE peak <= 0 \/ balance >= peak \/ balance <= 0
    BY <1>1 DEF DrawdownPct
  <1>2. CASE peak > 0 /\ balance < peak /\ balance > 0
    <2> DEFINE n == (peak - balance) * 100
               q == n \div peak
    <2>1. n \in Nat /\ n <= 100 * peak
      BY <1>2
    <2>2. q \in Int /\ peak * q <= n /\ n < peak * q + peak
      BY <1>2, <2>1
    <2>3. q >= 0
      BY <1>2, <2>1, <2>2
    <2>4. q <= 100
      BY <1>2, <2>1, <2>2
    <2> QED BY <1>2, <2>2, <2>3, <2>4 DEF DrawdownPct
  <1> QED BY <1>1, <1>2

\* What LoadEpochState makes of a row that is active or paused.
LEMMA SnapshotType ==
    ASSUME TypeOK, NEW a \in Loaded
    PROVE  AgentSnapshot(a) \in Snapshots
  <1>1. a \in Agents /\ status[a] \in {"active", "paused"} /\ IsRow(row[a])
    BY AgentsAssumption DEF TypeOK, Loaded
  <1> DEFINE balance == IF row[a].balance = Null THEN 0 ELSE row[a].balance
  <1>2. balance \in Int /\ row[a].peak \in Nat
    BY <1>1 DEF IsRow
  <1>3. DrawdownPct(row[a].peak, balance) \in 0 .. 100
    BY <1>2, DrawdownRange
  <1>4. Class[a] \in {"funded", "shadow"}
    BY <1>1, AgentsAssumption
  <1>5. row[a].losing \in Nat /\ row[a].debt \in Nat /\ row[a].beatMins \in Nat \cup {Null}
    BY <1>1 DEF IsRow
  <1> HIDE DEF balance
  <1>6. AgentSnapshot(a) =
            [status |-> status[a], class |-> Class[a], balance |-> balance,
             drawdownPct |-> DrawdownPct(row[a].peak, balance),
             losing |-> row[a].losing, debt |-> row[a].debt, beatMins |-> row[a].beatMins,
             verdict |-> "none", netProfitWindow |-> 0]
    BY DEF AgentSnapshot, balance
  <1> QED BY <1>1, <1>2, <1>3, <1>4, <1>5, <1>6 DEF Snapshots

\* What the policy plans for an agent is a lifecycle action.
LEMMA PlanType ==
    ASSUME NEW a \in Agents, NEW x \in Plan(a)
    PROVE  x \in LifecycleActions
  <1>1. \A cfg, s : killReason(cfg, s) \in
            {"balance_below_minimum", "max_drawdown_exceeded", "other", "none"}
    BY DEF killReason
  <1>2. \A cfg, s, b : PolicyFor(cfg, a, s, b) \subseteq LifecycleActions
    BY <1>1 DEF PolicyFor, Action, LifecycleActions
  <1> QED BY <1>2 DEF Plan

\* A plan has as many kills as it has: a number.
LEMMA KillsCounted ==
    ASSUME TypeInv
    PROVE  Cardinality({x \in planned : x.kind = "kill"}) \in Nat
  <1> DEFINE K == {x \in planned : x.kind = "kill"}
             f == [x \in K |-> x.agent]
  <1>1. f \in [K -> Agents] /\ \A x, y \in K : f[x] = f[y] => x = y
    BY DEF TypeInv, TypeOK, OnePlanned, LifecycleActions
  <1>2. f \in Injection(K, Agents)
    BY <1>1, Fun_IsInj
  <1>3. IsFiniteSet(K)
    BY <1>2, AgentsAssumption, FS_Injection
  <1> QED BY <1>3, FS_CardinalityType

\* The initial state has the types.
LEMMA TypeInit == Init => TypeInv
  <1> SUFFICES ASSUME Init PROVE TypeInv
    OBVIOUS
  <1>1. DOMAIN queue = {} /\ DOMAIN snaps = {}
    BY DEF Init
  <1>2. prop \in [Proposals -> [status : ProposalStatus, reason : RejectTags \cup {"none"},
                               verdict : Verdicts]]
    BY DEF Init, ProposalStatus, Verdicts
  <1>3. epochLog \in [killed : Nat, spawned : Nat, tripped : BOOLEAN, final : BOOLEAN]
    BY DEF Init, Seeded
  <1>4. expired \in BOOLEAN /\ clean \in BOOLEAN
    BY Zenon DEF Init
  <1>5. faults \in 0 .. MaxFaults
    BY BoundAssumption DEF Init
  <1> QED BY <1>1, <1>2, <1>3, <1>4, <1>5 DEF Init, TypeInv, TypeOK, OnePlanned

\* A new epoch.
LEMMA TypeStart == TypeInv /\ StartEpoch => TypeInv'
  <1> SUFFICES ASSUME TypeInv, StartEpoch PROVE TypeInv'
    OBVIOUS
  <1>1. \A x \in planned' : \E a \in Loaded : x \in Plan(a)
    BY DEF StartEpoch, DeterministicLifecyclePolicy, Plan
  <1>2. planned' \subseteq LifecycleActions /\ OnePlanned'
    BY <1>1, PlanOne, PlanType DEF OnePlanned, Loaded
  <1>3. DOMAIN snaps' \subseteq Agents /\ \A a \in DOMAIN snaps' : snaps'[a] \in Snapshots
    <2>1. snaps' = [a \in Loaded |-> AgentSnapshot(a)]
      BY DEF StartEpoch
    <2> QED BY <2>1, SnapshotType DEF TypeInv, Loaded
  <1>4. /\ DOMAIN queue' \subseteq Proposals
        /\ \A p \in DOMAIN queue' : queue'[p] \in [profit : Int, debt : Nat]
    <2>1. PICK unread \in SUBSET Undecided :
            queue' = [p \in Undecided |->
                        [profit |-> IF p \in unread THEN 0 ELSE row[Parent[p]].profit,
                         debt |-> row[Parent[p]].debt]]
      BY DEF StartEpoch
    <2>2. ASSUME NEW p \in Undecided
          PROVE  row[Parent[p]].profit \in Int /\ row[Parent[p]].debt \in Nat
      BY ProposalsAssumption, AgentsAssumption DEF Undecided, TypeInv, TypeOK, IsRow
    <2> QED BY <2>1, <2>2 DEF Undecided
  <1>5. faults' \in 0 .. MaxFaults /\ clean' \in BOOLEAN
    <2>1. clean' \in BOOLEAN
      BY Zenon DEF StartEpoch
    <2>2. faults' = faults \/ (faults < MaxFaults /\ faults' = faults + 1)
      BY Zenon DEF StartEpoch, Fault
    <2> QED BY <2>1, <2>2, BoundAssumption DEF TypeInv, TypeOK
  <1>6. epochLog' \in [killed : Nat, spawned : Nat, tripped : BOOLEAN, final : BOOLEAN]
    BY DEF StartEpoch, Seeded
  <1>7. /\ UNCHANGED <<status, row, prop, postmortems, lost>> /\ pc' = "epoch"
        /\ actions' = planned' /\ approvals' = 0 /\ due' = {} /\ expired' = FALSE
        /\ died' = {} /\ spawned' = {}
    BY DEF StartEpoch
  <1> QED BY <1>2, <1>3, <1>4, <1>5, <1>6, <1>7 DEF TypeInv, TypeOK

\* The count of failures stays within its bound.
LEMMA FaultTypes ==
    ASSUME TypeOK, Succeeds \/ Fails \/ Fault
    PROVE  /\ faults' \in 0 .. MaxFaults
           /\ Succeeds \/ Fails => clean' \in BOOLEAN
  <1>1. faults' = faults \/ (faults < MaxFaults /\ faults' = faults + 1)
    BY Zenon DEF Succeeds, Fails, Fault
  <1>2. Succeeds \/ Fails => clean' \in BOOLEAN
    BY Zenon DEF TypeOK, Succeeds, Fails
  <1> QED BY <1>1, <1>2, BoundAssumption DEF TypeOK

\* Executing an action.
LEMMA TypeAction ==
    ASSUME TypeInv, NEW x \in actions,
           ExecuteAction(x) \/ ActionFails(x) \/ ActionUnconfirmed(x)
    PROVE  TypeInv'
  <1>1. /\ UNCHANGED <<row, prop, postmortems, epochLog, pc, snaps, planned, queue,
                       approvals, expired, spawned>>
        /\ actions' = actions \ {x}
    BY DEF ExecuteAction, ActionFails, ActionUnconfirmed, Execute
  <1>2. x.agent \in Agents /\ TargetStatus(x.kind) \in {"active", "paused", "dead"}
    BY DEF TypeInv, TypeOK, LifecycleActions, TargetStatus
  <1>3. faults' \in 0 .. MaxFaults /\ clean' \in BOOLEAN
    BY FaultTypes DEF TypeInv, ExecuteAction, ActionFails, ActionUnconfirmed
  <1>4. status' \in [Agents -> {"active", "paused", "dead"}] /\ died' \subseteq Agents
    BY <1>2 DEF TypeInv, TypeOK, ExecuteAction, ActionFails, ActionUnconfirmed, Written
  <1>5. due' \subseteq Agents /\ lost' \subseteq Agents
    BY <1>2 DEF TypeInv, TypeOK, ExecuteAction, ActionFails, ActionUnconfirmed,
                postmortemInputFor
  <1> QED BY <1>1, <1>3, <1>4, <1>5 DEF TypeInv, TypeOK, OnePlanned

\* Deciding a proposal.
LEMMA TypeProposal ==
    ASSUME TypeInv, EpochInv', NEW p \in Proposals, ProcessOffspring(p)
    PROVE  TypeInv'
  <1>1. /\ UNCHANGED <<status, row, postmortems, epochLog, pc, snaps, actions, planned,
                       due, expired, died, lost>>
        /\ queue' = [r \in DOMAIN queue \ {p} |-> queue[r]]
    BY DEF ProcessOffspring
  <1>2. approvals' \in Nat /\ spawned' \subseteq Proposals
    BY DEF ProcessOffspring, TypeInv, TypeOK
  <1>3. faults' \in 0 .. MaxFaults /\ clean' \in BOOLEAN
    <2>1. \/ Fault /\ clean' = FALSE
          \/ Succeeds \/ Fails
      BY DEF ProcessOffspring
    <2> QED BY <2>1, FaultTypes DEF TypeInv
  <1>4. prop' \in [Proposals -> [status : ProposalStatus, reason : RejectTags \cup {"none"},
                                verdict : Verdicts]]
    BY DEF EpochInv, TablesOK, Reasons
  <1>5. /\ DOMAIN queue' \subseteq Proposals
        /\ \A r \in DOMAIN queue' : queue'[r] \in [profit : Int, debt : Nat]
    BY <1>1 DEF TypeInv, TypeOK
  <1> QED BY <1>1, <1>2, <1>3, <1>4, <1>5 DEF TypeInv, TypeOK, OnePlanned

\* The rest.
LEMMA TypeOther ==
    ASSUME TypeInv, EpochInv',
           \/ StartFails \/ LogEpoch \/ Expire \/ Crash \/ UNCHANGED vars
           \/ \E a \in Agents : GeneratePostmortem(a) \/ AgentActivity(a)
           \/ \E p \in Proposals : Submit(p)
    PROVE  TypeInv'
  <1>0. prop' \in [Proposals -> [status : ProposalStatus, reason : RejectTags \cup {"none"},
                                verdict : Verdicts]]
        /\ postmortems' \in [Agents -> Nat]
    BY DEF EpochInv, TablesOK, Reasons
  <1>1. CASE LogEpoch
    <2>1. /\ UNCHANGED <<status, row, prop, postmortems, actions, queue, due,
                         died, spawned, lost>>
          /\ pc' = "idle" /\ actions = {} /\ DOMAIN snaps' = {} /\ planned' = {}
          /\ approvals' = 0 /\ expired' = FALSE
      BY <1>1 DEF LogEpoch
    <2>2. faults' \in 0 .. MaxFaults /\ clean' \in BOOLEAN
      <3>1. Succeeds \/ Fails
        BY <1>1, Zenon DEF LogEpoch
      <3> QED BY <3>1, FaultTypes DEF TypeInv
    <2>3. epochLog' \in [killed : Nat, spawned : Nat, tripped : BOOLEAN, final : BOOLEAN]
      <3>1. Trips \in BOOLEAN
        BY DEF Trips, EvaluateEpoch
      <3>2. \/ epochLog' = [killed |-> Cardinality({x \in planned : x.kind = "kill"}),
                            spawned |-> approvals, tripped |-> Trips, final |-> TRUE]
            \/ UNCHANGED epochLog
        BY <1>1, Zenon DEF LogEpoch
      <3>3. approvals \in Nat /\ Cardinality({x \in planned : x.kind = "kill"}) \in Nat
        BY KillsCounted DEF TypeInv, TypeOK
      <3>4. CASE UNCHANGED epochLog
        BY <3>4 DEF TypeInv, TypeOK
      <3>5. \A k, n \in Nat, t \in BOOLEAN :
                [killed |-> k, spawned |-> n, tripped |-> t, final |-> TRUE]
                    \in [killed : Nat, spawned : Nat, tripped : BOOLEAN, final : BOOLEAN]
        OBVIOUS
      <3>6. [killed |-> Cardinality({x \in planned : x.kind = "kill"}),
             spawned |-> approvals, tripped |-> Trips, final |-> TRUE]
                \in [killed : Nat, spawned : Nat, tripped : BOOLEAN, final : BOOLEAN]
        BY <3>1, <3>3, <3>5, Zenon
      <3>7. CASE epochLog' = [killed |-> Cardinality({x \in planned : x.kind = "kill"}),
                              spawned |-> approvals, tripped |-> Trips, final |-> TRUE]
        BY <3>6, <3>7, Zenon
      <3> QED BY <3>2, <3>4, <3>7, Zenon
    <2> QED BY <2>1, <2>2, <2>3 DEF TypeInv, TypeOK, OnePlanned
  <1>2. CASE Crash
    <2>1. /\ UNCHANGED <<status, row, prop, postmortems, epochLog, died, spawned, clean>>
          /\ pc' = "idle" /\ DOMAIN snaps' = {} /\ actions' = {} /\ planned' = {}
          /\ DOMAIN queue' = {} /\ due' = {} /\ expired' = FALSE /\ approvals' = 0
          /\ lost' = lost \cup due /\ faults < MaxFaults /\ faults' = faults + 1
      BY <1>2 DEF Crash, tables
    <2>2. faults' \in 0 .. MaxFaults
      BY <2>1, BoundAssumption DEF TypeInv, TypeOK
    <2>3. clean' \in BOOLEAN /\ expired' \in BOOLEAN
      BY <2>1, Zenon DEF TypeInv, TypeOK
    <2> QED BY <2>1, <2>2, <2>3 DEF TypeInv, TypeOK, OnePlanned
  <1>3. CASE StartFails \/ Expire
    <2>1. faults' \in 0 .. MaxFaults
      BY <1>3, FaultTypes DEF StartFails, Expire, TypeInv
    <2>2. /\ UNCHANGED <<tables, pc, snaps, actions, planned, queue, approvals, due, history>>
          /\ expired' \in {expired, TRUE}
      BY <1>3 DEF StartFails, Expire, locals
    <2> QED BY <2>1, <2>2 DEF TypeInv, TypeOK, OnePlanned, tables, history
  <1>4. CASE UNCHANGED vars
    BY <1>4 DEF vars, tables, locals, history, TypeInv, TypeOK, OnePlanned
  <1>5. ASSUME NEW a \in Agents, GeneratePostmortem(a) PROVE TypeInv'
    <2>1. /\ UNCHANGED <<status, row, prop, epochLog, pc, snaps, actions, planned, queue,
                         approvals, expired, died, spawned>>
          /\ due' = due \ {a} /\ lost' \in {lost, lost \cup {a}} /\ (Succeeds \/ Fails)
      BY <1>5 DEF GeneratePostmortem
    <2>2. faults' \in 0 .. MaxFaults /\ clean' \in BOOLEAN
      BY <2>1, FaultTypes DEF TypeInv
    <2> QED BY <1>0, <2>1, <2>2 DEF TypeInv, TypeOK, OnePlanned
  <1>6. ASSUME NEW a \in Agents, AgentActivity(a) PROVE TypeInv'
    <2>1. UNCHANGED <<status, prop, postmortems, epochLog, locals, faults, history>>
      BY <1>6 DEF AgentActivity
    <2>2. \A b \in Agents : row'[b] \in Rows[b]
      BY <1>6 DEF AgentActivity, TypeInv, TypeOK
    <2> QED BY <2>1, <2>2 DEF TypeInv, TypeOK, OnePlanned, locals, history
  <1>7. ASSUME NEW p \in Proposals, Submit(p) PROVE TypeInv'
    BY <1>0, <1>7 DEF Submit, TypeInv, TypeOK, OnePlanned, locals, history
  <1> QED BY <1>1, <1>2, <1>3, <1>4, <1>5, <1>6, <1>7

\* Tables, locals and history of the epoch loop keep their types; above all,
\* the plan of an epoch has at most one action per agent, so what LogEpoch
\* counts is finite, and the drawdown that the policy compares is a percentage.
THEOREM TypeCorrect == Spec => []TypeOK
  <1>1. TypeInv /\ EpochInv /\ EpochInv' /\ [Next]_vars => TypeInv'
    BY TypeStart, TypeAction, TypeProposal, TypeOther DEF Next, EpochStep
  <1>2. TypeInv => TypeOK
    BY DEF TypeInv
  <1> QED BY TypeInit, <1>1, <1>2, Invariance, PTL DEF Spec

=============================================================================
