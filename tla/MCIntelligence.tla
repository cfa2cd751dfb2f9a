---------------------------- MODULE MCIntelligence ----------------------------
(***************************************************************************)
(* Two sources whose signals share a type across a sentiment channel and    *)
(* the warnings, a signal that fails validation, a budget that drops a      *)
(* digest or a digest and an edge, and one tuple of the graph with all its  *)
(* directions.                                                              *)
(***************************************************************************)
EXTENDS Intelligence

Bull == [kind |-> "signals", chain |-> "solana", sentiment |-> "bull"]
Warnings == [kind |-> "warnings", chain |-> "", sentiment |-> ""]

Sig(s, t, c, m) == [source |-> s, type |-> t, confidence |-> c, sentiment |-> m]

MCChannels == {Bull, Warnings}
MCSubscribed == <<Bull, Warnings>>
MCSignals == 
    {Sig("a", "flow", 80, "bull"), Sig("a", "yield", 80, ""), Sig("b", "flow", 70, ""),
     Sig("b", "flow", 120, "bull")}

Edge(x, y) == [a |-> x, b |-> y]
MCGraphs == {[e \in {} |-> 0], [e \in {Edge("SOL", "ETH"), Edge("SOL", "USDC")} |-> IF e.b = "ETH" THEN 60 ELSE 40]}

=============================================================================
