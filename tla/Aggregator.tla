------------------------------ MODULE Aggregator ------------------------------
(***************************************************************************)
(* From a published signal to the intel snapshot of the strategist          *)
(* (internal/intelligence/bus.go and aggregator.go).  Publish validates and *)
(* sends; the goroutine of Subscribe decodes; the consumer appends to the   *)
(* feed.  Summarize takes the feed's lock once per channel and the          *)
(* tracker's lock once per signal, so outcomes are ingested and time passes *)
(* between its digests.  PublishedAt is represented by its age, which       *)
(* saturates at Freshness.                                                  *)
(***************************************************************************)
EXTENDS AccuracyTracker, SequencesExt

CONSTANTS
    Channels,    \* channels of the bus: [kind, chain, sentiment]
    Signals,     \* signals the agents may publish; some are not valid
    Subscribed,  \* the channels of the summarized agent, in order
    Entities,    \* the entities of the summarized agent
    Graphs,      \* contents of the knowledge graph: edge -> strength
    MaxSignals,  \* cap on the digests of a snapshot
    MaxEdges,    \* cap on its knowledge edges
    TokenBudget, \* cap on its estimated tokens
    Freshness,   \* signals of this age are too old
    Stamps,      \* ages of the stamps publishers set; 0 for one they leave unset
    OutCap,      \* capacity of the channel Subscribe returns (64 in the code)
    MaxDigestOutcomes, \* bound: outcomes on record while signals are digested
    MaxMessages, \* bound: payloads on their way and signals in the feed
    Garbage,     \* a payload that does not decode
    None

ASSUME CapsAssumption ==
    MaxSignals \in Nat \ {0} /\ MaxEdges \in Nat \ {0} /\ TokenBudget \in Nat
ASSUME StampsAssumption == Stamps \subseteq Nat
ASSUME GraphsAssumption == IsFiniteSet(Entities) /\ \A g \in Graphs : IsFiniteSet(DOMAIN g)

VARIABLES
    wire, \* payloads the subscription has not read: sequence of [channel, payload]
    out,  \* the channel Subscribe returned
    feed, \* byChannel, flattened: sequence of [channel, sig] in arrival order
    sum,  \* the Summarize call in progress, or None
    snap  \* the snapshot the last step returned, or None

aggVars == <<wire, out, feed, sum, snap>>

Sentiments == {"bull", "bear", "neutral"}

\* validateSignal.
ValidSignal(ch, sig) ==
    /\ sig.source \in Sources
    /\ sig.type # ""
    /\ sig.confidence \in 0 .. 100
    /\ IF ch.kind = "signals"
       THEN sig.sentiment \in Sentiments /\ ch.chain # "" /\ ch.sentiment = sig.sentiment
       ELSE sig.sentiment \in Sentiments \cup {""}

\* A signal with the age of its stamp.
Stamped(sig, age) ==
    [age |-> age, source |-> sig.source, type |-> sig.type, confidence |-> sig.confidence,
     sentiment |-> sig.sentiment]

Room == Len(wire) + Len(out) + Len(feed) < MaxMessages

\* Publish: the signal keeps the stamp its publisher gave it, or is stamped now
\* (age 0).  An invalid signal, or one that Redis does not accept, changes
\* nothing.
Publish(ch, sig, age) ==
    /\ ValidSignal(ch, sig)
    /\ Room
    /\ wire' = Append(wire, [channel |-> ch, payload |-> Stamped(sig, age)])
    /\ UNCHANGED <<out, feed, sum>>

\* Another client of Redis writes what is not a signal.
PublishGarbage(ch) ==
    /\ Room
    /\ wire' = Append(wire, [channel |-> ch, payload |-> Garbage])
    /\ UNCHANGED <<out, feed, sum>>

\* The goroutine of Subscribe: what does not decode is dropped, the rest waits
\* for room in the channel.
Relay ==
    /\ wire # <<>>
    /\ \/ /\ Head(wire).payload = Garbage
          /\ UNCHANGED out
       \/ /\ Head(wire).payload # Garbage
          /\ Len(out) < OutCap
          /\ out' = Append(out, Head(wire))
    /\ wire' = Tail(wire)
    /\ UNCHANGED <<feed, sum>>

\* Append puts a signal of the subscription into the feed.  What calls it for
\* each signal is glue that is not in src (external).
Consume ==
    /\ out # <<>>
    /\ feed' = Append(feed, [channel |-> Head(out).channel, sig |-> Head(out).payload])
    /\ out' = Tail(out)
    /\ UNCHANGED <<wire, sum>>

\* Recent: the signals of a channel younger than since, the youngest first.
\* Signals of one age may come in any order.
Recent(ch, since) ==
    LET new == {i \in DOMAIN feed : feed[i].channel = ch /\ feed[i].sig.age < since}
        byAge(order) == \A i, j \in DOMAIN order :
                            i < j => feed[order[i]].sig.age <= feed[order[j]].sig.age
    IN  {[i \in DOMAIN order |-> feed[order[i]].sig] : order \in {p \in SetToSeqs(new) : byAge(p)}}

\* Summarize begins: now, and with it since, is read once.
Summarize ==
    /\ sum = None
    /\ sum' = [since |-> Freshness, channels |-> Subscribed, pending |-> <<>>, best |-> {},
               disturbed |-> FALSE]
    /\ UNCHANGED <<wire, out, feed, outcomes, fresh>>

\* collectSignals reads the next channel.
ReadChannel ==
    /\ sum # None /\ sum.pending = <<>> /\ sum.channels # <<>>
    /\ \E r \in Recent(Head(sum.channels), sum.since) :
         sum' = [sum EXCEPT !.pending = r, !.channels = Tail(@)]
    /\ UNCHANGED <<wire, out, feed, outcomes, fresh>>

\* One digest per (source, type): the higher weighted, then the more recent.
Better(best, d) ==
    LET same == {c \in best : c.source = d.source /\ c.type = d.type}
        beats(c) == d.weighted > c.weighted \/ (d.weighted = c.weighted /\ d.age < c.age)
    IN  IF \A c \in same : beats(c) THEN (best \ same) \cup {d} ELSE best

\* A signal with the accuracy of its source.
DigestOf(s, w) ==
    [source |-> s.source, type |-> s.type, sentiment |-> s.sentiment,
     confidence |-> s.confidence, accuracy |-> w, weighted |-> s.confidence * w, age |-> s.age]

\* digest of one signal, under the tracker's lock.
Digest ==
    /\ sum # None /\ sum.pending # <<>>
    /\ LET s == Head(sum.pending)
           d == DigestOf(s, Weight(s.source))
       IN  /\ sum' = [sum EXCEPT !.pending = Tail(@), !.best = Better(@, d)]
           /\ Score(s.source)
    /\ UNCHANGED <<wire, out, feed>>

\* The digests in rank order; digests that tie in weight and age come in any
\* order (the code then orders by the name of the source).
Ranked(best) ==
    LET before(d, c) == \/ d.weighted > c.weighted
                        \/ d.weighted = c.weighted /\ d.age <= c.age
    IN  {p \in SetToSeqs(best) : \A i, j \in DOMAIN p : i < j => before(p[i], p[j])}

FirstN(seq, n) == SubSeq(seq, 1, IF Len(seq) < n THEN Len(seq) ELSE n)

\* collectEdges: Neighbors of each entity (each call sees the graph of its own
\* moment), an edge once, the strongest first; edges of one strength come in
\* any order.
CollectEdges(views) ==
    LET near(e) == {edge \in DOMAIN views[e] : e \in {edge.a, edge.b}}
        all == UNION {near(e) : e \in Entities}
        strength(edge) == LET e == CHOOSE x \in Entities : edge \in near(x) IN views[e][edge]
        falling(p) == \A i, j \in DOMAIN p : i < j => strength(p[i]) >= strength(p[j])
    IN  {FirstN(p, MaxEdges) : p \in {q \in SetToSeqs(all) : falling(q)}}

\* weightsAudit: source -> the weight of its last digest in rank order.
WeightsAudit(top) ==
    [s \in {top[i].source : i \in DOMAIN top} |->
        top[CHOOSE i \in DOMAIN top : /\ top[i].source = s
                                      /\ \A j \in DOMAIN top : top[j].source = s => j <= i].accuracy]

\* estimateTokens: a line for each digest and each edge.
EstimateTokens(top, edges) == 1 + Len(top) + Len(edges)

\* Variant: the audit of the snapshot before its truncation is kept.
EnforceBudgetKeepsAudit(s) ==
    LET over == EstimateTokens(s.top, s.edges) - TokenBudget
        dropTop == IF over <= 0 THEN 0 ELSE IF over < Len(s.top) THEN over ELSE Len(s.top)
        top == FirstN(s.top, Len(s.top) - dropTop)
    IN  [s EXCEPT !.top = top, !.truncated = dropTop > 0]

\* enforceBudget: digests are dropped from the end, then edges, until the
\* snapshot fits; then the audit is made again.
EnforceBudget(s) ==
    LET over == EstimateTokens(s.top, s.edges) - TokenBudget
        lower(n, len) == IF n <= 0 THEN 0 ELSE IF n < len THEN n ELSE len
        dropTop == lower(over, Len(s.top))
        dropEdges == lower(over - dropTop, Len(s.edges))
        top == FirstN(s.top, Len(s.top) - dropTop)
        cut == dropTop + dropEdges > 0
    IN  [s EXCEPT !.top = top, !.edges = FirstN(@, Len(@) - dropEdges), !.truncated = cut,
                  !.audit = IF cut THEN WeightsAudit(top) ELSE @]

\* The rest of Summarize touches nothing that others change but the graph.
Finish ==
    /\ sum # None /\ sum.pending = <<>> /\ sum.channels = <<>>
    /\ \E p \in Ranked(sum.best), views \in [Entities -> Graphs] :
         \E near \in CollectEdges(views) :
             LET top == FirstN(p, MaxSignals)
             IN  snap' = EnforceBudget([top |-> top, edges |-> near,
                                        audit |-> WeightsAudit(top), truncated |-> FALSE,
                                        disturbed |-> sum.disturbed])
    /\ sum' = None
    /\ UNCHANGED <<wire, out, feed, outcomes, fresh>>

Disturb == sum' = IF sum = None THEN None ELSE [sum EXCEPT !.disturbed = TRUE]

\* An outcome arrives, perhaps between two digests.
IngestOutcome(s, o) == Ingest(s, o) /\ Disturb /\ UNCHANGED <<wire, out, feed>>

\* A day passes, perhaps between two digests.
DigestClock ==
    LET aged(sig) == IF sig = Garbage THEN sig
                     ELSE [sig EXCEPT !.age = IF @ < Freshness THEN @ + 1 ELSE @]
        onBus(seq) == [i \in DOMAIN seq |-> [seq[i] EXCEPT !.payload = aged(@)]]
    IN  /\ TrackerClock
        /\ feed' = [i \in DOMAIN feed |-> [feed[i] EXCEPT !.sig = aged(@)]]
        /\ wire' = onBus(wire)
        /\ out' = onBus(out)
        /\ sum # None => sum.since = Freshness
        /\ sum' = IF sum = None THEN None
                  ELSE [sum EXCEPT !.disturbed = TRUE, !.since = @ + 1]

AggInit ==
    /\ TrackerInit
    /\ wire = <<>> /\ out = <<>> /\ feed = <<>> /\ sum = None /\ snap = None

OnBus ==
    /\ \/ \E ch \in Channels, sig \in Signals, age \in Stamps : Publish(ch, sig, age)
       \/ \E ch \in Channels : PublishGarbage(ch)
       \/ Relay
       \/ Consume
    /\ UNCHANGED trackerVars

Collect == Summarize \/ ReadChannel \/ Digest

AnyOutcome ==
    /\ OnRecord < MaxDigestOutcomes
    /\ \E s \in Sources, age \in 0 .. Window - 1, c \in BOOLEAN :
           IngestOutcome(s, [age |-> age, correct |-> c])

AggNext ==
    \/ Finish
    \/ (OnBus \/ Collect \/ AnyOutcome \/ DigestClock) /\ snap' = None

-----------------------------------------------------------------------------

\* The audit of a snapshot lists exactly the sources of its digests, each with
\* a weight applied to one of them, although digests are dropped after the
\* audit was first made; and with the one weight applied to all of them when
\* no outcome arrived and no day passed between the digests (aggregator.go:
\* 186-239 and 278-319).
AuditExact ==
    snap # None =>
        LET digests == {snap.top[i] : i \in DOMAIN snap.top}
        IN  /\ DOMAIN snap.audit = {d.source : d \in digests}
            /\ \A s \in DOMAIN snap.audit :
                   \E d \in digests : d.source = s /\ d.accuracy = snap.audit[s]
            /\ ~snap.disturbed => \A d \in digests : d.accuracy = snap.audit[d.source]

=============================================================================
