--------------------------- MODULE MCRunnerTests ---------------------------
(* RunnerTests for TLC, with the number of tasks of the longest test. *)
EXTENDS RunnerTests

SixTasks == 1..6

=============================================================================
