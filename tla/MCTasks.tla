------------------------------ MODULE MCTasks ------------------------------
(* Two tasks, two places for timers: one that can be used again.             *)
EXTENDS Tasks
=============================================================================
