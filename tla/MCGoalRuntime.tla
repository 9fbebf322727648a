---------------------------- MODULE MCGoalRuntime ----------------------------
(* A Session with a Goal at work and one in the queue, with a budget. *)
EXTENDS GoalRuntime

MCIds == 1..9
MCMarks == 1..8
MCBudgets == {None, 1}

AGoal(id, status, budget) ==
  [id |-> id, status |-> status, budget |-> budget, used |-> 0, base |-> 0, turns |-> 0, reset |-> FALSE]

MCSessions == {
  [goal |-> AGoal(1, "active", None), queue |-> <<AGoal(2, "queued", 1)>>, pending |-> None]}
=============================================================================
