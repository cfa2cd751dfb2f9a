------------------------------ MODULE MCServices ------------------------------
(***************************************************************************)
(* Notifier: three days of three units, the digest due from the second one, *)
(* a cap of two messages in three units, and two messages: a trip and a     *)
(* lifecycle event of another name than kill or spawn.  Hub: two clients    *)
(* with room for one message each.  Prices: two tasks, the refresher and    *)
(* the collector on one pair.                                               *)
(***************************************************************************)
EXTENDS Services

MCMessages ==
    {[channel |-> "circuit_breaker", action |-> ""],
     [channel |-> "lifecycle", action |-> "promoted"]}

=============================================================================
