-------------------------- MODULE MCStrategistLoop --------------------------
(***************************************************************************)
(* Two nodes compete for one slot; one is a shadow that sleeps a third      *)
(* of the interval.  The model answers with good changes, with an unknown   *)
(* key and an unknown signal, with one refused value beside a good one, or  *)
(* with prose.                                                              *)
(***************************************************************************)
EXTENDS StrategistLoop

Answer(text, signal, changes) == [text |-> text, signal |-> signal, changes |-> changes]

MCResponses ==
    {Answer("fenced", "sell_all", [entry |-> 1, colour |-> 1]),
     Answer("object", "continue", [entry |-> 1, interval |-> Refused]),
     Answer("prose", "", [entry |-> 1])}

MCAnchor == [n \in Nodes |-> 0]

=============================================================================
