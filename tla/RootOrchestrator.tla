-------------------------- MODULE RootOrchestrator --------------------------
(***************************************************************************)
(* The epoch loop: runEpochCron (cmd/swarm/main.go) starts one epoch after  *)
(* another and RootOrchestrator.RunEpoch (internal/orchestrator/parent.go)  *)
(* carries each one out against the tables of PostgresEpochStore            *)
(* (db_store.go): load a snapshot, kill or pause by the deterministic       *)
(* policy (kill_pause.go), review the offspring proposals, write the        *)
(* postmortems, evaluate the breaker, log the epoch.                        *)
(*                                                                          *)
(* Every call an epoch makes may fail, its context may expire, and the      *)
(* process may crash between two of them; the tables survive, the epoch's   *)
(* local state does not.  Money is counted in dimes.                        *)
(***************************************************************************)
EXTENDS Integers, FiniteSets

CONSTANTS
    Agents,          \* agent ids
    NumProposals,    \* offspring_proposals ids are 1 .. NumProposals, by age
    Class,           \* node_class of each agent
    Parent,          \* proposing agent of each proposal
    Reserve,         \* seed + API reserve + failure buffer of each proposal
    Rows,            \* Rows[a]: the values the columns of agent a may take
    Null,            \* SQL NULL
    Cfg,             \* LifecyclePolicyCfg
    BacktestReplies, \* what the backtest answers; {"passed"} if not configured
    MaxFaults        \* bound: failed calls, expired contexts and crashes

Proposals == 1 .. NumProposals

DefaultLifecyclePolicyConfig ==
    [minBalance |-> 10, maxDrawdownPct |-> 40, maxLosing |-> 5,
     maxDebt |-> 50, graceMins |-> 10, weakProfit |-> 1]

\* A field that is zero takes its default.
applyDefaults(cfg) ==
    [f \in DOMAIN DefaultLifecyclePolicyConfig |->
        IF cfg[f] = 0 THEN DefaultLifecyclePolicyConfig[f] ELSE cfg[f]]

\* The columns of agents that LoadEpochState reads, with the profit of the
\* agent's latest ledger row.
IsRow(r) ==
    /\ DOMAIN r = {"balance", "peak", "losing", "debt", "beatMins", "profit"}
    /\ r.balance \in Int \cup {Null} /\ r.peak \in Nat /\ r.losing \in Nat
    /\ r.debt \in Nat /\ r.beatMins \in Nat \cup {Null} /\ r.profit \in Int

ASSUME ProposalsAssumption ==
    /\ NumProposals \in Nat
    /\ Parent \in [Proposals -> Agents] /\ Reserve \in [Proposals -> Nat]
ASSUME AgentsAssumption ==
    /\ IsFiniteSet(Agents) /\ Null \notin Int
    /\ Class \in [Agents -> {"funded", "shadow"}]
    /\ DOMAIN Rows = Agents /\ \A a \in Agents : \A r \in Rows[a] : IsRow(r)
ASSUME CfgAssumption == Cfg \in [DOMAIN DefaultLifecyclePolicyConfig -> Nat]
ASSUME BacktestAssumption == BacktestReplies \subseteq {"passed", "failed", "error"}
ASSUME BoundAssumption == MaxFaults \in Nat

VARIABLES
    status,      \* agents.status
    row,         \* the other columns of agents
    prop,        \* the rows of offspring_proposals
    postmortems, \* how many postmortems rows each agent has
    epochLog,    \* the current row of epochs
    pc,          \* is an epoch running?
    snaps,       \* EpochState.Snapshots, by agent
    actions,     \* lifecycle actions still to execute
    planned,     \* result.LifecycleActions
    queue,       \* EpochState.OffspringProposals still to process, by id
    approvals,   \* how many decisions of this epoch approved
    due,         \* EpochState.DeadAgents still without a postmortem
    expired,     \* is the epoch's context done?
    faults,      \* failures so far
    died,        \* history: agents that died during this epoch
    spawned,     \* history: proposals whose row became approved in this epoch
    clean,       \* history: no call of this epoch has failed
    lost         \* history: dead agents whose postmortem was given up

tables == <<status, row, prop, postmortems, epochLog>>
locals == <<pc, snaps, actions, planned, queue, approvals, due, expired>>
history == <<died, spawned, clean, lost>>
vars == <<tables, locals, faults, history>>

ProposalStatus == {"absent", "pending", "approved", "rejected"}
RejectTags == {"insolvent", "quality_reject", "adversarial_reject", "backtest_failed"}
Verdicts == {"none", "approve", "reject", "revise"}
Seeded == [killed |-> 0, spawned |-> 0, tripped |-> FALSE, final |-> FALSE]

Init ==
    /\ status = [a \in Agents |-> "active"]
    /\ row \in [Agents -> UNION {Rows[a] : a \in Agents}]
    /\ \A a \in Agents : row[a] \in Rows[a]
    /\ prop = [p \in Proposals |-> [status |-> "absent", reason |-> "none", verdict |-> "none"]]
    /\ postmortems = [a \in Agents |-> 0]
    /\ epochLog = Seeded
    /\ pc = "idle"
    /\ snaps = <<>> /\ actions = {} /\ planned = {} /\ queue = <<>>
    /\ approvals = 0 /\ due = {} /\ expired = FALSE
    /\ faults = 0
    /\ died = {} /\ spawned = {} /\ clean = TRUE /\ lost = {}

\* A call fails although the context is alive.
Fault == ~expired /\ faults < MaxFaults /\ faults' = faults + 1

\* A call succeeds; it fails, by a fault or because the context is done.
Succeeds == ~expired /\ UNCHANGED faults /\ UNCHANGED clean
Fails == (Fault \/ (expired /\ UNCHANGED faults)) /\ clean' = FALSE

-----------------------------------------------------------------------------
(* DeterministicLifecyclePolicy.                                            *)

killReason(cfg, s) ==
    CASE s.balance < cfg.minBalance -> "balance_below_minimum"
      [] s.balance >= cfg.minBalance /\ s.drawdownPct >= cfg.maxDrawdownPct ->
            "max_drawdown_exceeded"
      [] s.balance >= cfg.minBalance /\ s.drawdownPct < cfg.maxDrawdownPct
            /\ (\/ s.losing >= cfg.maxLosing
                \/ s.debt > cfg.maxDebt
                \/ s.beatMins # Null /\ s.beatMins > cfg.graceMins) -> "other"
      [] OTHER -> "none"

pauses(cfg, s, budgetTight) ==
    \/ s.verdict = "pause"
    \/ s.verdict = "defensive" /\ s.class = "shadow"
    \/ budgetTight /\ s.class = "shadow"
    \/ s.balance > 0 /\ s.netProfitWindow < cfg.weakProfit

Action(a, kind, reason) == [agent |-> a, kind |-> kind, reason |-> reason]

\* Variant: the loop goes on to the pause rule after a kill.
PolicyForFallsThrough(cfg, a, s, budgetTight) ==
    (IF killReason(cfg, s) # "none" THEN {Action(a, "kill", killReason(cfg, s))} ELSE {})
        \cup (IF pauses(cfg, s, budgetTight) /\ s.status = "active"
              THEN {Action(a, "pause", "policy")} ELSE {})

\* At most one action per agent: kill, else pause, else resume.
PolicyFor(cfg, a, s, budgetTight) ==
    CASE s.status = "dead" -> {}
      [] s.status # "dead" /\ killReason(cfg, s) # "none" ->
            {Action(a, "kill", killReason(cfg, s))}
      [] s.status # "dead" /\ killReason(cfg, s) = "none" /\ pauses(cfg, s, budgetTight) ->
            IF s.status = "paused" THEN {} ELSE {Action(a, "pause", "policy")}
      [] OTHER -> IF s.status = "paused" THEN {Action(a, "resume", "policy")} ELSE {}

DeterministicLifecyclePolicy(cfg, ss, budgetTight) ==
    UNION {PolicyFor(cfg, a, ss[a], budgetTight) : a \in DOMAIN ss}

TargetStatus(kind) ==
    CASE kind = "kill" -> "dead" [] kind = "pause" -> "paused" [] OTHER -> "active"

-----------------------------------------------------------------------------
(* LoadEpochState.  A missing balance counts as zero; the strategist        *)
(* verdict, the profit window and BudgetTight are left at their zero value. *)

DrawdownPct(peak, balance) ==
    IF peak <= 0 \/ balance >= peak THEN 0
    ELSE IF balance <= 0 THEN 100 ELSE ((peak - balance) * 100) \div peak

AgentSnapshot(a) ==
    LET balance == IF row[a].balance = Null THEN 0 ELSE row[a].balance
    IN  [status |-> status[a], class |-> Class[a], balance |-> balance,
         drawdownPct |-> DrawdownPct(row[a].peak, balance),
         losing |-> row[a].losing, debt |-> row[a].debt, beatMins |-> row[a].beatMins,
         verdict |-> "none", netProfitWindow |-> 0]

\* Variant: the query asks for active agents only.
LoadedActive == {a \in Agents : status[a] = "active"}

\* Variant: the query asks for decided proposals too.
Submitted == {p \in Proposals : prop[p].status # "absent"}

Loaded == {a \in Agents : status[a] \in {"active", "paused"}}
Undecided == {p \in Proposals : prop[p].status = "pending"}

\* seedEpochRow, LoadEpochState and the policy.  latestLedgerFor turns any
\* error into an empty ledger, so some parents may appear to have no profit.
StartEpoch ==
    /\ pc = "idle"
    /\ pc' = "epoch"
    /\ snaps' = [a \in Loaded |-> AgentSnapshot(a)]
    /\ planned' = DeterministicLifecyclePolicy(applyDefaults(Cfg), snaps', FALSE)
    /\ actions' = planned'
    /\ \E unread \in SUBSET Undecided :
         /\ queue' = [p \in Undecided |->
                        [profit |-> IF p \in unread THEN 0 ELSE row[Parent[p]].profit,
                         debt |-> row[Parent[p]].debt]]
         /\ IF unread = {} THEN UNCHANGED faults /\ clean' = TRUE
                           ELSE Fault /\ clean' = FALSE
    /\ approvals' = 0 /\ due' = {} /\ expired' = FALSE
    /\ died' = {} /\ spawned' = {}
    /\ epochLog' = Seeded
    /\ UNCHANGED <<status, row, prop, postmortems, lost>>

\* The seed or one of the two list queries fails: the epoch is skipped.
StartFails ==
    /\ pc = "idle" /\ Fault
    /\ UNCHANGED <<tables, locals, history>>

-----------------------------------------------------------------------------
(* executeAction, in the order of the snapshots, which the query leaves     *)
(* open.  A failed action is skipped, whether or not its UPDATE took effect. *)

Execute(x) ==
    /\ pc = "epoch" /\ x \in actions
    /\ actions' = actions \ {x}
    /\ UNCHANGED <<row, prop, postmortems, epochLog, pc, snaps, planned, queue,
                   approvals, expired, spawned>>

Written(x) ==
    /\ status' = [status EXCEPT ![x.agent] = TargetStatus(x.kind)]
    /\ died' = IF x.kind = "kill" THEN died \cup {x.agent} ELSE died

\* Every killed agent has a genome in the snapshot, so its input is built.
postmortemInputFor(x) == IF x.kind = "kill" THEN {x.agent} ELSE {}

ExecuteAction(x) ==
    /\ Execute(x) /\ Succeeds /\ Written(x)
    /\ due' = due \cup postmortemInputFor(x)
    /\ UNCHANGED lost

\* Variant: a failed kill is taken for a death.
ActionFailsStillDue(x) ==
    /\ Execute(x) /\ Fails
    /\ due' = due \cup postmortemInputFor(x)
    /\ UNCHANGED <<status, died, lost>>

ActionFails(x) ==
    /\ Execute(x) /\ Fails
    /\ UNCHANGED <<status, died, due, lost>>

\* The connection is lost after the UPDATE has been committed.
ActionUnconfirmed(x) ==
    /\ Execute(x) /\ Fault /\ clean' = FALSE
    /\ Written(x)
    /\ lost' = IF x.kind = "kill" THEN lost \cup {x.agent} ELSE lost
    /\ UNCHANGED due

-----------------------------------------------------------------------------
(* processOffspring: solvency, quality check, adversarial review, backtest. *)

Replies == {"approve", "reject", "revise", "garbled", "error"}

\* A reply outside the closed set, or one that does not parse, means revise.
normalizeVerdict(reply) == IF reply \in {"approve", "reject"} THEN reply ELSE "revise"

\* A reviewer that cannot be reached is skipped, not counted against.
QualityCheck(reply) == IF reply = "error" THEN "none" ELSE normalizeVerdict(reply)

\* Bull, bear and synthesis calls; the synthesis is parsed by the same rules.
AdversarialReview(reply) == IF reply = "error" THEN "none" ELSE normalizeVerdict(reply)

Solvent(o, reserve) == o.profit > 0 /\ o.debt <= 0 /\ o.profit >= reserve

Decided(outcome, tag, verdict) == [outcome |-> outcome, tag |-> tag, verdict |-> verdict]

processOffspring(o, reserve, quality, adversarial, backtest) ==
    LET q == QualityCheck(quality)
        v == AdversarialReview(adversarial)
    IN  CASE ~Solvent(o, reserve) -> Decided("rejected", "insolvent", "none")
          [] Solvent(o, reserve) /\ q = "reject" -> Decided("rejected", "quality_reject", q)
          [] Solvent(o, reserve) /\ q # "reject" /\ v = "reject" ->
                Decided("rejected", "adversarial_reject", q)
          [] Solvent(o, reserve) /\ q # "reject" /\ v # "reject" /\ backtest # "passed" ->
                Decided("rejected", "backtest_failed", q)
          [] OTHER -> Decided(IF "revise" \in {q, v} THEN "revise" ELSE "approved", "none", q)

\* Variant: only an approval changes the status.
PersistApprovalOnly(p, d) ==
    prop' = [prop EXCEPT ![p] =
        [status |-> IF d.outcome = "approved" THEN "approved" ELSE "pending",
         reason |-> d.tag,
         verdict |-> IF d.verdict = "none" THEN @.verdict ELSE d.verdict]]

\* The UPDATE keeps the old verdict when the quality check gave none.
PersistOffspringDecision(p, d) ==
    prop' = [prop EXCEPT ![p] =
        [status |-> IF d.outcome = "revise" THEN "pending" ELSE d.outcome,
         reason |-> d.tag,
         verdict |-> IF d.verdict = "none" THEN @.verdict ELSE d.verdict]]

\* The decision is written, or the write fails and the row stays as it was.
\* An LLM outage is a fault, and a done context fails every call.
ProcessOffspring(p) ==
    /\ pc = "epoch" /\ actions = {}
    /\ p \in DOMAIN queue /\ \A r \in DOMAIN queue : p <= r
    /\ \E quality, adversarial \in Replies, backtest \in BacktestReplies :
         LET d == processOffspring(queue[p], Reserve[p], quality, adversarial, backtest)
             outage == "error" \in {quality, adversarial}
         IN
           /\ expired => quality = "error" /\ adversarial = "error"
           /\ approvals' = IF d.outcome = "approved" THEN approvals + 1 ELSE approvals
           /\ \/ /\ IF outage THEN Fault /\ clean' = FALSE ELSE Succeeds
                 /\ PersistOffspringDecision(p, d)
                 /\ spawned' = IF d.outcome = "approved" THEN spawned \cup {p} ELSE spawned
              \/ Fails /\ UNCHANGED <<prop, spawned>>
    /\ queue' = [r \in DOMAIN queue \ {p} |-> queue[r]]
    /\ UNCHANGED <<status, row, postmortems, epochLog, pc, snaps, actions, planned,
                   due, expired, died, lost>>

-----------------------------------------------------------------------------
(* Postmortems, the breaker, the log.                                       *)

PersistPostmortem(a) == postmortems' = [postmortems EXCEPT ![a] = @ + 1]

\* One transport or database error and the agent never gets a postmortem; a
\* reply that does not parse is stored as one of unknown category.
GeneratePostmortem(a) ==
    /\ pc = "epoch" /\ actions = {} /\ queue = <<>> /\ a \in due
    /\ due' = due \ {a}
    /\ \/ Succeeds /\ UNCHANGED lost
          /\ PersistPostmortem(a)
       \/ Fails /\ lost' = lost \cup {a}      \* logged nowhere, never retried
          /\ UNCHANGED postmortems
    /\ UNCHANGED <<status, row, prop, epochLog, pc, snaps, actions, planned, queue,
                   approvals, expired, died, spawned>>

\* breakerAdapter: half of the funded nodes hit stop-loss.
EvaluateEpoch(funded, stops) == funded > 0 /\ 2 * stops >= funded

\* breakerOutcome: every drawdown kill that was planned counts, against the
\* funded agents of the snapshot.
Trips ==
    LET funded == Cardinality({a \in DOMAIN snaps : snaps[a].class = "funded"})
        stops == Cardinality({x \in planned : x.reason = "max_drawdown_exceeded"})
    IN  EvaluateEpoch(funded, stops)

\* Variant: every lifecycle action counts as a kill.
LogEpochCountsAll ==
    /\ pc = "epoch" /\ actions = {} /\ queue = <<>> /\ due = {}
    /\ pc' = "idle"
    /\ Succeeds
    /\ epochLog' = [killed |-> Cardinality(planned), spawned |-> approvals,
                    tripped |-> Trips, final |-> TRUE]
    /\ snaps' = <<>> /\ planned' = {} /\ approvals' = 0 /\ expired' = FALSE
    /\ UNCHANGED <<status, row, prop, postmortems, actions, queue, due,
                   died, spawned, lost>>

\* LogEpoch counts what was planned and decided.
LogEpoch ==
    /\ pc = "epoch" /\ actions = {} /\ queue = <<>> /\ due = {}
    /\ pc' = "idle"
    /\ \/ Succeeds
          /\ epochLog' = [killed |-> Cardinality({x \in planned : x.kind = "kill"}),
                          spawned |-> approvals, tripped |-> Trips, final |-> TRUE]
       \/ Fails /\ UNCHANGED epochLog
    /\ snaps' = <<>> /\ planned' = {} /\ approvals' = 0 /\ expired' = FALSE
    /\ UNCHANGED <<status, row, prop, postmortems, actions, queue, due,
                   died, spawned, lost>>

-----------------------------------------------------------------------------
(* The surroundings.                                                        *)

\* The fifteen minutes of the epoch's context are over, or it is cancelled.
Expire ==
    /\ pc = "epoch" /\ Fault
    /\ expired' = TRUE
    /\ UNCHANGED <<tables, pc, snaps, actions, planned, queue, approvals, due, history>>

\* The process ends and restarts; a cron that boots starts a new epoch.
Crash ==
    /\ pc = "epoch" /\ faults < MaxFaults /\ faults' = faults + 1
    /\ pc' = "idle"
    /\ snaps' = <<>> /\ actions' = {} /\ planned' = {} /\ queue' = <<>>
    /\ due' = {} /\ expired' = FALSE /\ approvals' = 0
    /\ lost' = lost \cup due
    /\ UNCHANGED <<tables, died, spawned, clean>>

\* Trading, settlement and heartbeats change the columns of a live agent.
AgentActivity(a) ==
    /\ status[a] # "dead"
    /\ \E r \in Rows[a] : row' = [row EXCEPT ![a] = r]
    /\ UNCHANGED <<status, prop, postmortems, epochLog, locals, faults, history>>

\* An agent submits a proposal.
Submit(p) ==
    /\ prop[p].status = "absent" /\ status[Parent[p]] = "active"
    /\ prop' = [prop EXCEPT ![p].status = "pending"]
    /\ UNCHANGED <<status, row, postmortems, epochLog, locals, faults, history>>

EpochStep ==
    \/ \E x \in actions : ExecuteAction(x) \/ ActionFails(x) \/ ActionUnconfirmed(x)
    \/ \E p \in Proposals : ProcessOffspring(p)
    \/ \E a \in Agents : GeneratePostmortem(a)
    \/ LogEpoch

Next ==
    \/ StartEpoch \/ StartFails \/ EpochStep
    \/ Expire \/ Crash
    \/ \E a \in Agents : AgentActivity(a)
    \/ \E p \in Proposals : Submit(p)

Spec == Init /\ [][Next]_vars

\* The ticker fires again after every epoch, and every call returns: an LLM
\* call that hangs is ended by the epoch's context.
FairSpec == Spec /\ WF_vars(StartEpoch) /\ WF_vars(EpochStep)

-----------------------------------------------------------------------------
Snapshots ==
    [status : {"active", "paused"}, class : {"funded", "shadow"}, balance : Int,
     drawdownPct : 0 .. 100, losing : Nat, debt : Nat, beatMins : Nat \cup {Null},
     verdict : {"none"}, netProfitWindow : {0}]

LifecycleActions ==
    [agent : Agents, kind : {"kill", "pause", "resume"},
     reason : {"policy", "balance_below_minimum", "max_drawdown_exceeded", "other"}]

TypeOK ==
    /\ status \in [Agents -> {"active", "paused", "dead"}]
    /\ \A a \in Agents : row[a] \in Rows[a]
    /\ prop \in [Proposals -> [status : ProposalStatus, reason : RejectTags \cup {"none"},
                               verdict : Verdicts]]
    /\ postmortems \in [Agents -> Nat]
    /\ epochLog \in [killed : Nat, spawned : Nat, tripped : BOOLEAN, final : BOOLEAN]
    /\ pc \in {"idle", "epoch"}
    /\ DOMAIN snaps \subseteq Agents /\ \A a \in DOMAIN snaps : snaps[a] \in Snapshots
    /\ planned \subseteq LifecycleActions /\ actions \subseteq planned
    /\ DOMAIN queue \subseteq Proposals
    /\ \A p \in DOMAIN queue : queue[p] \in [profit : Int, debt : Nat]
    /\ approvals \in Nat /\ due \subseteq Agents /\ expired \in BOOLEAN
    /\ faults \in 0 .. MaxFaults
    /\ died \subseteq Agents /\ spawned \subseteq Proposals /\ clean \in BOOLEAN
    /\ lost \subseteq Agents

\* Only the dead have a postmortem and nobody has two, across retries, expired
\* contexts and crashes; between epochs a dead agent without one is an agent
\* whose kill or postmortem failed (RunEpoch: parent.go 230-260).
PostmortemsMatchDeaths ==
    \A a \in Agents :
        /\ postmortems[a] <= 1
        /\ postmortems[a] = 1 => status[a] = "dead"
        /\ (pc = "idle" /\ status[a] = "dead" /\ a \notin lost) => postmortems[a] = 1

\* The columns of a proposal never contradict each other, although a decision
\* that brings no new verdict keeps the one of an earlier epoch: a reason is
\* recorded exactly for the rejected, and a row that holds the verdict reject
\* is closed by that very review (PersistOffspringDecision: db_store.go 288-334).
ProposalRowsConsistent ==
    \A p \in Proposals :
        /\ (prop[p].status = "rejected") <=> (prop[p].reason # "none")
        /\ (prop[p].verdict = "reject") <=> (prop[p].reason = "quality_reject")

\* In an epoch in which no call failed, the kills and approvals of the epochs
\* row are the deaths and approvals the other tables show (LogEpoch counts
\* the plan, not the outcome: db_store.go 398-461).
LoggedCountsExact ==
    (pc = "idle" /\ epochLog.final /\ clean) =>
        /\ epochLog.killed = Cardinality(died)
        /\ epochLog.spawned = Cardinality(spawned)

\* Death is final: SetAgentStatus writes whatever it is told, from a snapshot
\* that may be old, yet no later action of the same or of a later epoch
\* brings an agent back (DeterministicLifecyclePolicy: kill_pause.go 97-133).
DeadIsFinal ==
    [][\A a \in Agents : status[a] = "dead" => status'[a] = "dead"]_vars

\* A proposal that was approved or rejected is never decided again.
DecisionsFinal ==
    [][\A p \in Proposals :
        prop[p].status \in {"approved", "rejected"} => prop'[p] = prop[p]]_vars

\* An agent that stays unfit dies: a kill that failed, or was cut off by a
\* crash or a timeout, is decided again by a later epoch.
UnfitEventuallyDead ==
    \A a \in Agents :
        <>[](status[a] = "dead" \/ killReason(applyDefaults(Cfg), AgentSnapshot(a)) # "none")
            => <>(status[a] = "dead")

\* "Healthy and currently paused -> resume" (kill_pause.go 123), and missing
\* data is "no signal" (db_store.go 24-27): a paused agent whose columns give
\* no reason against it is resumed.
HealthyResumed ==
    \A a \in Agents :
        <>[](killReason(applyDefaults(Cfg), AgentSnapshot(a)) = "none")
            => [](status[a] = "paused" => <>(status[a] = "active"))

=============================================================================
