-------------------------- MODULE MCAsyncTaskRunner --------------------------
(* AsyncTaskRunner for TLC: the labels of the tasks bound the calls of      *)
(* schedule_task, so that nothing else has to be bounded.                   *)
EXTENDS AsyncTaskRunner

=============================================================================
