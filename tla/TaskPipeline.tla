----------------------------- MODULE TaskPipeline -----------------------------
(***************************************************************************)
(* What AsyncTaskRunner promises, with no thread, no queue and no sentinel *)
(* in it: tasks run one at a time in the order in which they were          *)
(* scheduled, each result is handed out once, in the same order, and       *)
(* closing drops what waits, lets what runs finish and leaves nothing      *)
(* behind that could run.                                                  *)
(***************************************************************************)
EXTENDS Sequences

CONSTANTS Clients, Tasks,
          NoTask,  \* what runs while nothing runs
          Nobody   \* to whom nothing has been handed yet

VARIABLES waiting,   \* the tasks that will run, in order
          running,   \* the one that runs
          finished,  \* the tasks whose results nobody has taken yet
          given,     \* the last result handed out, and to whom
          phase      \* "open", then "closing", then "closed"

vars == <<waiting, running, finished, given, phase>>

Init ==
  /\ waiting = <<>> /\ finished = <<>>
  /\ running = NoTask
  /\ given = [to |-> Nobody, value |-> NoTask]
  /\ phase = "open"

\* A task that comes while the pipeline closes may also be dropped.
Schedule(x) ==
  /\ phase # "closed"
  /\ waiting' = Append(waiting, x)
  /\ UNCHANGED <<running, finished, given, phase>>

Start ==
  /\ phase # "closed"
  /\ running = NoTask /\ waiting # <<>>
  /\ running' = Head(waiting)
  /\ waiting' = Tail(waiting)
  /\ UNCHANGED <<finished, given, phase>>

Finish ==
  /\ phase # "closed"
  /\ running # NoTask
  /\ finished' = Append(finished, running)
  /\ running' = NoTask
  /\ UNCHANGED <<waiting, given, phase>>

Give(c) ==
  /\ phase = "open"
  /\ finished # <<>>
  /\ given' = [to |-> c, value |-> Head(finished)]
  /\ finished' = Tail(finished)
  /\ UNCHANGED <<waiting, running, phase>>

Close ==
  /\ phase = "open"
  /\ phase' = "closing"
  /\ waiting' = <<>>
  /\ UNCHANGED <<running, finished, given>>

Closed ==
  /\ phase = "closing"
  /\ waiting = <<>> /\ running = NoTask
  /\ phase' = "closed"
  /\ UNCHANGED <<waiting, running, finished, given>>

Next ==
  \/ \E x \in Tasks : Schedule(x)
  \/ Start \/ Finish
  \/ \E c \in Clients : Give(c)
  \/ Close \/ Closed

Spec == Init /\ [][Next]_vars

=============================================================================
