--------------------------- MODULE MCBudgetTracker --------------------------
(***************************************************************************)
(* The default thresholds on a budget of 100, each met exactly; Run and     *)
(* possibly one other goroutine, over a turn of the month.                  *)
(***************************************************************************)
EXTENDS BudgetTracker

MCSpendLevels == {0, 80, 100}

=============================================================================
