----------------------------- MODULE Intelligence -----------------------------
(***************************************************************************)
(* The intelligence package: the knowledge graph with its nightly decay,    *)
(* the accuracy tracker, and the path of a signal to the snapshot of the    *)
(* strategist, which composes the tracker with the bus and the aggregator.  *)
(* The graph meets the rest only where Summarize reads it, and its content  *)
(* is a choice there, so a behaviour runs one part.                         *)
(***************************************************************************)
EXTENDS KnowledgeGraph, Aggregator

CONSTANTS
    Parts,      \* the parts a run looks at
    MaxOutcomes \* bound: outcomes on record in the tracker by itself

ASSUME PartsAssumption == Parts \subseteq {"graph", "tracker", "digest"}

VARIABLE part

vars == <<part, trackerVars, aggVars, graphVars>>

Init ==
    /\ part \in Parts
    /\ AggInit
    /\ GraphInit

GraphStep(A) == part = "graph" /\ A /\ UNCHANGED <<part, trackerVars, aggVars>>

NightlyDecay == GraphStep(Decay)

Day == GraphStep(GraphClock)

Learn == \E t \in Tuples, d \in Directions, s \in Strengths : GraphStep(Upsert(t, d, s))

TrackerStep == part = "tracker" /\ TrackerNext(MaxOutcomes) /\ UNCHANGED <<part, aggVars, graphVars>>

DigestStep == part = "digest" /\ AggNext /\ UNCHANGED <<part, graphVars>>

Next == NightlyDecay \/ Day \/ Learn \/ TrackerStep \/ DigestStep

\* The decay job runs every night, and time passes; nobody has to publish,
\* to learn or to summarize.
Spec == Init /\ [][Next]_vars /\ WF_vars(NightlyDecay) /\ WF_vars(Day)

=============================================================================
