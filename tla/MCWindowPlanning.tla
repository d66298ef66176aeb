-------------------------- MODULE MCWindowPlanning --------------------------
(***************************************************************************)
(* Four windows: two text units; rows 1-2 of a table; row 3 of that table; *)
(* a text unit too long for the budget.                                    *)
(***************************************************************************)
EXTENDS WindowPlanning

MCViewLast == <<1, 2, 4, 5, 6>>
MCViewUnit == <<1, 2, 3, 3, 4>>
MCWindowLast == <<2, 3, 4, 5>>
MCOverBudget == {4}

=============================================================================
