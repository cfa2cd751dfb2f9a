--------------------------- MODULE KnowledgeGraph ---------------------------
(***************************************************************************)
(* The market knowledge graph and its nightly decay                         *)
(* (internal/intelligence/knowledge_graph.go and decay_job.go).  An edge is *)
(* stored under its tuple and its direction; a second map indexes the       *)
(* directions of a tuple.  A strength is in 0 .. Scale, rounded down.        *)
(* LastValidated is represented by its age, which saturates at              *)
(* DecayInterval.                                                           *)
(***************************************************************************)
EXTENDS SequencesExt

CONSTANTS
    Tuples,       \* the (entity_a, relationship, entity_b) tuples
    Scale,        \* the strength 1.0
    Strengths,    \* strengths the evidence may have
    DecayInterval \* the days after which an edge is stale (30 in the code)

ASSUME ScaleAssumption == Scale \in Nat /\ Scale % 10 = 0
ASSUME StrengthsAssumption == Strengths \subseteq 0 .. Scale
ASSUME DecayAssumption == DecayInterval \in Nat \ {0}

VARIABLES
    edges, \* <<tuple, direction>> -> [strength, age], for the edges there are
    byKey  \* tuple -> its directions in the order they were added

graphVars == <<edges, byKey>>

Directions == {"positive", "negative", "neutral"}
DeletionThreshold == Scale \div 10
ContradictionPenalty == Scale \div 5

GraphInit ==
    /\ edges = [id \in {} |-> [strength |-> 0, age |-> 0]]
    /\ byKey = [t \in {} |-> <<>>]

Opposite(d) ==
    CASE d = "positive" -> "negative"
      [] d = "negative" -> "positive"
      [] d = "neutral" -> "none"

ClampStrength(s) == IF s < 0 THEN 0 ELSE IF s > Scale THEN Scale ELSE s

Without(f, x) == [y \in DOMAIN f \ {x} |-> f[y]]

\* Variant: the index keeps the direction when another one is left.
IndexRemoveKeeps(index, id) ==
    IF Len(index[id[1]]) > 1 THEN index ELSE Without(index, id[1])

\* A list without the direction where it is first found.
Dropped(list, d) ==
    LET found == {i \in DOMAIN list : list[i] = d}
    IN  IF found = {} THEN list
        ELSE RemoveAt(list, CHOOSE i \in found : \A j \in found : i <= j)

\* removeLocked: the direction leaves the list, and an empty list the map.
IndexRemove(index, id) ==
    LET rest == Dropped(index[id[1]], id[2])
    IN  IF rest = <<>> THEN Without(index, id[1]) ELSE [index EXCEPT ![id[1]] = rest]

IndexAdd(index, id) ==
    IF id[1] \in DOMAIN index THEN [index EXCEPT ![id[1]] = Append(@, id[2])]
    ELSE [t \in DOMAIN index \cup {id[1]} |-> IF t = id[1] THEN <<id[2]>> ELSE index[t]]

\* Upsert: the opposite edge is weakened first and removed when it is faint;
\* then the edge is reinforced by averaging, or inserted.
Upsert(t, d, strength) ==
    LET opp == <<t, Opposite(d)>>
        id == <<t, d>>
        weaker == ClampStrength(edges[opp].strength - ContradictionPenalty)
        hit == opp \in DOMAIN edges
        gone == hit /\ weaker < DeletionThreshold
        edges1 == IF gone THEN Without(edges, opp)
                  ELSE IF hit THEN [edges EXCEPT ![opp].strength = weaker] ELSE edges
        index1 == IF gone THEN IndexRemove(byKey, opp) ELSE byKey
        known == id \in DOMAIN edges1
        new == [strength |-> IF known THEN (edges1[id].strength + strength) \div 2 ELSE strength,
                age |-> 0]
    IN  /\ edges' = [e \in DOMAIN edges1 \cup {id} |-> IF e = id THEN new ELSE edges1[e]]
        /\ byKey' = IF known THEN index1 ELSE IndexAdd(index1, id)

Stale == {id \in DOMAIN edges : edges[id].age >= DecayInterval}

Decayed(id) == IF id \in Stale THEN (edges[id].strength * 95) \div 100 ELSE edges[id].strength

\* Variant: faint edges stay in the graph.
FaintNone == {}

\* The stale edges that decay pushes below the threshold.
Faint == {id \in Stale : Decayed(id) < DeletionThreshold}

\* An index when the pass has met this edge.
RemoveFaint(index, id) == IF id \in Faint THEN IndexRemove(index, id) ELSE index

\* The index when the pass has met the edges of a tuple.  Tuples share no list,
\* so the order in which the pass goes from tuple to tuple does not matter.
Pruned(t) ==
    LET two == RemoveFaint(RemoveFaint(byKey, <<t, "positive">>), <<t, "negative">>)
    IN  RemoveFaint(two, <<t, "neutral">>)

\* RunOnce of the decay job: one pass over all edges, under the lock.
Decay ==
    /\ Stale # {}
    /\ edges' = [id \in DOMAIN edges \ Faint |-> [edges[id] EXCEPT !.strength = Decayed(id)]]
    /\ byKey' = [t \in {u \in DOMAIN byKey : u \in DOMAIN Pruned(u)} |-> Pruned(t)[t]]

GraphClock ==
    /\ edges' = [id \in DOMAIN edges |->
           [edges[id] EXCEPT !.age = IF @ < DecayInterval THEN @ + 1 ELSE @]]
    /\ UNCHANGED byKey

-----------------------------------------------------------------------------

\* The index lists every direction of a tuple that has an edge, each once, and
\* no tuple without edges, after any sequence of insertions, contradictions
\* that remove the opposite edge, and decays (knowledge_graph.go:149-203 and
\* 308-320).
IndexExact ==
    /\ DOMAIN byKey = {id[1] : id \in DOMAIN edges}
    /\ \A t \in DOMAIN byKey :
         /\ \A i, j \in DOMAIN byKey[t] : byKey[t][i] = byKey[t][j] => i = j
         /\ {byKey[t][i] : i \in DOMAIN byKey[t]} = {id[2] : id \in {e \in DOMAIN edges : e[1] = t}}

\* Knowledge that is never confirmed again is forgotten: every edge is
\* validated again and again or is gone again and again, because each stale
\* pass weakens it until it falls below the threshold (knowledge_graph.go:
\* 248-274, decay_job.go:63-81).
UnconfirmedForgotten ==
    \A id \in Tuples \X Directions :
        []<>(id \notin DOMAIN edges \/ edges[id].age = 0)

=============================================================================
