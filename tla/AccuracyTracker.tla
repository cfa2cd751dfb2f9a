--------------------------- MODULE AccuracyTracker ---------------------------
(***************************************************************************)
(* The rolling record of signal outcomes per source                         *)
(* (internal/intelligence/accuracy_tracker.go).  ObservedAt is represented  *)
(* by its age, which saturates at Window: an outcome that is Window old or  *)
(* older has left the window.                                               *)
(***************************************************************************)
EXTENDS Kept, FiniteSets

CONSTANTS
    Sources,         \* agents that publish signals
    Window,          \* the window, in days of the model (30 in the code)
    MinObservations  \* below it a source is neutral (5 in the code)

ASSUME WindowAssumption == Window \in Nat \ {0}

VARIABLES
    outcomes, \* bySource: source -> sequence of [age, correct]
    fresh     \* history: source -> the outcomes ingested that are in the window

trackerVars == <<outcomes, fresh>>

TrackerInit ==
    /\ outcomes = [s \in Sources |-> <<>>]
    /\ fresh = [s \in Sources |-> <<>>]

InWindow(o) == o.age < Window

\* The outcomes that are in the window.
LiveOutcomes == [age : 0 .. Window - 1, correct : BOOLEAN]

\* Variant: the scan stops one outcome early, so the last one is never trimmed.
EvictExpiredLate(obs) ==
    LET live == {i \in DOMAIN obs : obs[i].age < Window \/ i = Len(obs)}
        first == CHOOSE i \in live : \A j \in live : i <= j
    IN  IF live = {} THEN <<>> ELSE SubSeq(obs, first, Len(obs))

\* evictExpiredLocked: the head is trimmed up to the first outcome that is
\* still in the window, and no further.
EvictExpired(obs) ==
    LET live == {i \in DOMAIN obs : InWindow(obs[i])}
        first == CHOOSE i \in live : \A j \in live : i <= j
    IN  IF live = {} THEN <<>> ELSE SubSeq(obs, first, Len(obs))

\* The outcomes on record, for the bounds of the runs.
OnRecord == Cardinality(UNION {{s} \X DOMAIN outcomes[s] : s \in Sources})

\* An outcome outside the window is dropped at once.
Ingest(s, o) ==
    /\ InWindow(o)
    /\ outcomes' = [outcomes EXCEPT ![s] = EvictExpired(Append(@, o))]
    /\ fresh' = [fresh EXCEPT ![s] = Append(@, o)]

\* Score evicts before it counts, so a call of it changes the record.
Score(s) ==
    /\ outcomes' = [outcomes EXCEPT ![s] = EvictExpired(@)]
    /\ UNCHANGED fresh

Correct(obs) == Cardinality({i \in DOMAIN obs : obs[i].correct})

\* The weight a consumer applies, in percent.
Weight(s) ==
    LET obs == EvictExpired(outcomes[s])
    IN  IF Len(obs) < MinObservations THEN 50 ELSE (100 * Correct(obs)) \div Len(obs)

\* A day passes.
TrackerClock ==
    LET older(seq) == [i \in DOMAIN seq |->
            [seq[i] EXCEPT !.age = IF @ < Window THEN @ + 1 ELSE @]]
    IN  /\ outcomes' = [s \in Sources |-> older(outcomes[s])]
        /\ fresh' = [s \in Sources |-> Keep(older(fresh[s]), LiveOutcomes)]

\* The tracker by itself: outcomes come in any order, scores are read.
TrackerNext(bound) ==
    \/ \E s \in Sources, age \in 0 .. Window - 1, c \in BOOLEAN :
         OnRecord < bound /\ Ingest(s, [age |-> age, correct |-> c])
    \/ \E s \in Sources : Score(s)
    \/ TrackerClock

-----------------------------------------------------------------------------

\* The score counts the outcomes of the window and nothing else, whenever the
\* outcomes on record were ingested in the order they were observed in; an
\* outcome that arrives late may stay beyond its time behind a younger one, but
\* none is ever dropped before its time (accuracy_tracker.go:71-109, 158-180).
ScoreWindow ==
    \A s \in Sources :
        LET obs == outcomes[s]
            inOrder == \A i, j \in DOMAIN obs : i < j => obs[i].age >= obs[j].age
        IN  /\ Keep(obs, LiveOutcomes) = fresh[s]
            /\ inOrder => EvictExpired(obs) = fresh[s]

=============================================================================
