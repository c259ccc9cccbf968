--------------------------- MODULE AsyncTaskRunner ---------------------------
(***************************************************************************)
(* ltb::util::AsyncTaskRunner: clients schedule tasks, one worker thread   *)
(* runs them one after the other, and clients invoke the callbacks of the  *)
(* finished ones.  Both queues between them are BlockingQueues, here in    *)
(* the form of the FifoQueue that BlockingQueue is proved to implement:    *)
(* a call on a queue is one step, what a thread does between two such      *)
(* calls is another.  Which value or error a task returns, and so which of *)
(* its two callbacks is invoked, is left out.                              *)
(***************************************************************************)
EXTENDS Naturals, Sequences

CONSTANTS Clients,    \* the threads that use the runner
          Worker,     \* task_thread_
          Tasks,      \* labels of the calls of schedule_task
          Sentinel,   \* the null pointer that ends task_run_loop
          NoTask,     \* what popping nothing would return
          Unset,      \* the value of processing_ before its initializer
          Limits      \* max_updates of the polls

ASSUME WorkerAssumption == Worker \notin Clients
ASSUME TasksAssumption == Sentinel \notin Tasks /\ NoTask \notin Tasks \cup {Sentinel}
ASSUME LimitsAssumption == Limits \subseteq Nat

VARIABLES
  todo, todoLeft, taken,   \* tasks_to_do_, and the last thing popped from it
  done, doneLeft, handed,  \* finished_tasks_, and the last thing popped from it
  worker,     \* where task_thread_ is in task_run_loop
  processing, \* processing_, Unset before its initializer has run
  life,       \* of the runner: its construction, its use, its destruction
  client,     \* where each client is
  polling,    \* the clients inside invoke_callbacks_for_finished_tasks
  updates,    \* max_updates - i, in the polling loop of each client
  more,       \* whether the last poll of each client returned true
  ready,      \* history: how often task_ready_callback was called
  backlog     \* history: the tasks that were waiting when ~AsyncTaskRunner began

workerVars == <<worker, processing, ready>>
clientVars == <<client, polling, updates, more>>
todoVars   == <<todo, todoLeft, taken>>
doneVars   == <<done, doneLeft, handed>>
vars == <<todoVars, doneVars, workerVars, clientVars, life, backlog>>

ToDo == INSTANCE FifoQueue
  WITH log <- todo, left <- todoLeft, out <- taken, Threads <- {Worker},
       Items <- Tasks \cup {Sentinel}, Nobody <- Worker, NoItem <- NoTask
Done == INSTANCE FifoQueue
  WITH log <- done, left <- doneLeft, out <- handed, Threads <- Clients,
       Items <- Tasks, Nobody <- Worker, NoItem <- NoTask

Waiting  == {todo[i] : i \in todoLeft + 1..Len(todo)}
Finished == {done[i] : i \in 1..Len(done)}
Started  == Finished \cup (IF worker \in {"run", "publish"} THEN {taken.value} ELSE {})
Unpolled == Len(done) - doneLeft

\* The lives of the runner after the join: then its members are destroyed.
Joined == {"joined", "emptied", "destroyed", "undefined"}

TypeOK ==
  /\ todo \in Seq(Tasks \cup {Sentinel}) /\ todoLeft \in 0..Len(todo)
  /\ taken \in [to : {Worker}, value : Tasks \cup {Sentinel, NoTask}]
  /\ done \in Seq(Tasks) /\ doneLeft \in 0..Len(done)
  /\ handed \in [to : Clients \cup {Worker}, value : Tasks \cup {NoTask}]
  /\ worker \in {"pop", "begin", "run", "publish", "notify", "end", "delete", "exited", "terminated"}
  /\ processing \in BOOLEAN \cup {Unset}
  /\ life \in {"constructing", "alive", "cleared", "poisoned"} \cup Joined
  /\ client \in [Clients -> {"idle", "poll", "result", "pop", "callback", "destroying"}]
  /\ polling \subseteq Clients
  /\ updates \in [Clients -> Nat]
  /\ more \in [Clients -> BOOLEAN]
  /\ ready \in Nat
  /\ backlog \subseteq Tasks \cup {Sentinel}

Init ==
  /\ ToDo!Init /\ Done!Init
  /\ worker = "pop"
  /\ processing = Unset
  /\ life = "constructing"
  /\ client = [c \in Clients |-> "idle"]
  /\ polling = {}
  /\ updates = [c \in Clients |-> 0]
  /\ more = [c \in Clients |-> FALSE]
  /\ ready = 0
  /\ backlog = {}

\* The thread starts before the initializer of processing_, declared after it.
Constructed ==
  /\ life = "constructing"
  /\ processing' = FALSE
  /\ life' = "alive"
  /\ UNCHANGED <<todoVars, doneVars, worker, ready, clientVars, backlog>>

-----------------------------------------------------------------------------
\* task_run_loop, on the worker thread.
WorkerGoTo(from, to) == worker = from /\ worker' = to

PopTask ==
  /\ ToDo!Take(Worker)
  /\ WorkerGoTo("pop", IF taken'.value = Sentinel THEN "exited" ELSE "begin")
  /\ UNCHANGED <<doneVars, processing, ready, clientVars, life, backlog>>

BeginTask ==
  /\ WorkerGoTo("begin", "run")
  /\ processing' = TRUE
  /\ UNCHANGED <<todoVars, doneVars, ready, clientVars, life, backlog>>

\* The task returns a value or an error ...
RunTask ==
  /\ WorkerGoTo("run", "publish")
  /\ UNCHANGED <<todoVars, doneVars, processing, ready, clientVars, life, backlog>>

\* ... or throws out of the thread function, which ends the whole program.
TaskThrows ==
  /\ WorkerGoTo("run", "terminated")
  /\ UNCHANGED <<todoVars, doneVars, processing, ready, clientVars, life, backlog>>

\* Fault: the callback is left out while earlier results are still there.
PublishResultQuietly ==
  /\ WorkerGoTo("publish", IF Unpolled = 0 THEN "notify" ELSE "end")
  /\ Done!Put(taken.value)
  /\ UNCHANGED <<todoVars, processing, ready, clientVars, life, backlog>>

\* Fault: the newest result comes out first.
PublishResultInFront ==
  /\ WorkerGoTo("publish", "notify")
  /\ done' = SubSeq(done, 1, doneLeft) \o <<taken.value>> \o SubSeq(done, doneLeft + 1, Len(done))
  /\ UNCHANGED <<todoVars, doneLeft, handed, processing, ready, clientVars, life, backlog>>

PublishResult ==
  /\ WorkerGoTo("publish", "notify")
  /\ Done!Put(taken.value)
  /\ UNCHANGED <<todoVars, processing, ready, clientVars, life, backlog>>

TaskReady ==
  /\ WorkerGoTo("notify", "end")
  /\ ready' = ready + 1
  /\ UNCHANGED <<todoVars, doneVars, processing, clientVars, life, backlog>>

EndTask ==
  /\ WorkerGoTo("end", "delete")
  /\ processing' = FALSE
  /\ UNCHANGED <<todoVars, doneVars, ready, clientVars, life, backlog>>

\* Fault: the loop ends when no task is waiting.
DeleteTaskAndStop ==
  /\ WorkerGoTo("delete", IF Waiting = {} THEN "exited" ELSE "pop")
  /\ UNCHANGED <<todoVars, doneVars, processing, ready, clientVars, life, backlog>>

\* The task, and all that it has captured, is deleted before the next one.
DeleteTask ==
  /\ WorkerGoTo("delete", "pop")
  /\ UNCHANGED <<todoVars, doneVars, processing, ready, clientVars, life, backlog>>

-----------------------------------------------------------------------------
\* Fault: tasks are accepted before the constructor has finished.
ScheduleTaskEarly(x) ==
  /\ life \in {"constructing", "alive"}
  /\ ToDo!Put(x)
  /\ UNCHANGED <<doneVars, workerVars, clientVars, life, backlog>>

\* schedule_task with a task that is not null: called by a client that is idle
\* or in a callback, by the running task and task_ready_callback, and by the
\* destructors of what tasks and callbacks have captured, in the worker's loop,
\* in ~AsyncTaskRunner's clear, and when finished_tasks_ is destroyed.
ScheduleTask(x) ==
  /\ \/ life = "alive" /\ \E c \in Clients : client[c] \in {"idle", "callback"}
     \/ worker \in {"run", "notify", "delete"}
     \/ life = "cleared" /\ backlog # {}
     \/ life = "joined" /\ Unpolled > 0
  /\ ToDo!Put(x)
  /\ UNCHANGED <<doneVars, workerVars, clientVars, life, backlog>>

ClientGoTo(c, p) == client' = [client EXCEPT ![c] = p]

\* invoke_callbacks_for_finished_tasks(max_updates).
Poll(c, max_updates) ==
  /\ life = "alive" /\ client[c] = "idle"
  /\ ClientGoTo(c, "poll")
  /\ polling' = polling \cup {c}
  /\ updates' = [updates EXCEPT ![c] = max_updates]
  /\ more' = [more EXCEPT ![c] = FALSE]
  /\ UNCHANGED <<todoVars, doneVars, workerVars, life, backlog>>

\* Fault: the limit is not respected.
PollAgainBeyond(c) ==
  /\ client[c] = "poll"
  /\ Unpolled > 0
  /\ ClientGoTo(c, "pop")
  /\ UNCHANGED <<todoVars, doneVars, workerVars, polling, updates, more, life, backlog>>

\* Fault: a result is taken without asking whether there is one.
PollAgainBlindly(c) ==
  /\ client[c] = "poll" /\ updates[c] > 0
  /\ ClientGoTo(c, "pop")
  /\ UNCHANGED <<todoVars, doneVars, workerVars, polling, updates, more, life, backlog>>

\* The loop's condition holds: finished_tasks_ is not empty at this moment.
PollAgain(c) ==
  /\ client[c] = "poll" /\ updates[c] > 0
  /\ Unpolled > 0
  /\ ClientGoTo(c, "pop")
  /\ UNCHANGED <<todoVars, doneVars, workerVars, polling, updates, more, life, backlog>>

\* It does not hold, and finished_tasks_ is asked again for the result.
PollStop(c) ==
  /\ client[c] = "poll"
  /\ updates[c] = 0 \/ Unpolled = 0
  /\ ClientGoTo(c, "result")
  /\ UNCHANGED <<todoVars, doneVars, workerVars, polling, updates, more, life, backlog>>

\* Fault: a poll that has used up its updates says that there are more.
PollReturnFull(c) ==
  /\ client[c] = "result"
  /\ more' = [more EXCEPT ![c] = updates[c] = 0]
  /\ ClientGoTo(c, "idle")
  /\ polling' = polling \ {c}
  /\ UNCHANGED <<todoVars, doneVars, workerVars, updates, life, backlog>>

PollReturn(c) ==
  /\ client[c] = "result"
  /\ more' = [more EXCEPT ![c] = Unpolled > 0]
  /\ ClientGoTo(c, "idle")
  /\ polling' = polling \ {c}
  /\ UNCHANGED <<todoVars, doneVars, workerVars, updates, life, backlog>>

\* invoke_next_callback_blocking: called by a client, or in the polling loop.
InvokeNext(c) ==
  /\ life = "alive" /\ client[c] = "idle"
  /\ ClientGoTo(c, "pop")
  /\ more' = [more EXCEPT ![c] = FALSE]
  /\ UNCHANGED <<todoVars, doneVars, workerVars, polling, updates, life, backlog>>

PopFinished(c) ==
  /\ client[c] = "pop"
  /\ Done!Take(c)
  /\ ClientGoTo(c, "callback")
  /\ UNCHANGED <<todoVars, workerVars, polling, updates, more, life, backlog>>

CallbackReturns(c) ==
  /\ client[c] = "callback"
  /\ \/ c \notin polling /\ ClientGoTo(c, "idle") /\ UNCHANGED updates
     \/ /\ c \in polling
        /\ ClientGoTo(c, "poll")
        /\ updates' = [updates EXCEPT ![c] = @ - 1]
  /\ UNCHANGED <<todoVars, doneVars, workerVars, polling, more, life, backlog>>

\* An exception of a callback also leaves the polling loop.
CallbackThrows(c) ==
  /\ client[c] = "callback"
  /\ ClientGoTo(c, "idle")
  /\ polling' = polling \ {c}
  /\ UNCHANGED <<todoVars, doneVars, workerVars, updates, more, life, backlog>>

-----------------------------------------------------------------------------
\* Fault: the waiting tasks are not cleared.
DestroyKeepingTasks(c) ==
  /\ life = "alive"
  /\ \A d \in Clients : client[d] = "idle"
  /\ backlog' = Waiting
  /\ life' = "cleared"
  /\ ClientGoTo(c, "destroying")
  /\ UNCHANGED <<todoVars, doneVars, workerVars, polling, updates, more>>

\* ~AsyncTaskRunner, on a client's thread, when no client is inside a call.
Destroy(c) ==
  /\ life = "alive"
  /\ \A d \in Clients : client[d] = "idle"
  /\ backlog' = Waiting
  /\ ToDo!Clear
  /\ life' = "cleared"
  /\ ClientGoTo(c, "destroying")
  /\ UNCHANGED <<doneVars, workerVars, polling, updates, more>>

\* Fault: the sentinel is pushed before the queue is cleared.
PushSentinelThenClear(c) ==
  /\ client[c] = "destroying" /\ life = "cleared"
  /\ todo' = Append(todo, Sentinel)
  /\ todoLeft' = Len(todo')
  /\ life' = "poisoned"
  /\ UNCHANGED <<taken, doneVars, workerVars, clientVars, backlog>>

PushSentinel(c) ==
  /\ client[c] = "destroying" /\ life = "cleared"
  /\ ToDo!Put(Sentinel)
  /\ life' = "poisoned"
  /\ UNCHANGED <<doneVars, workerVars, clientVars, backlog>>

DestructorGoesTo(c, from, to) ==
  /\ client[c] = "destroying"
  /\ life = from /\ life' = to
  /\ UNCHANGED <<todoVars, doneVars, workerVars, polling, updates, more, backlog>>

\* Fault: the thread is detached instead of joined.
JoinDetaching(c) == DestructorGoesTo(c, "poisoned", "joined") /\ UNCHANGED client

Join(c) ==
  /\ worker = "exited"
  /\ DestructorGoesTo(c, "poisoned", "joined")
  /\ UNCHANGED client

\* After the destructor's body, the members are destroyed with what they hold,
\* finished_tasks_ first, and then tasks_to_do_, which tasks have reached that
\* were scheduled behind the sentinel.
DestroyResults(c) == DestructorGoesTo(c, "joined", "emptied") /\ UNCHANGED client
DestroyTasks(c)   == DestructorGoesTo(c, "emptied", "destroyed") /\ ClientGoTo(c, "idle")

\* Where the destructor of what such a task has captured schedules another one,
\* a queue that is being destroyed is pushed into: anything may come of it.
ScheduleIntoDestroyed(c) ==
  /\ Waiting # {}
  /\ DestructorGoesTo(c, "emptied", "undefined")
  /\ UNCHANGED client

-----------------------------------------------------------------------------
WorkerStep ==
  \/ PopTask \/ BeginTask \/ RunTask \/ PublishResult \/ TaskReady \/ EndTask \/ DeleteTask

\* What a client inside a call, or the destructor, does by itself.
ClientStep(c) ==
  \/ PollAgain(c) \/ PollStop(c) \/ PollReturn(c)
  \/ PopFinished(c) \/ CallbackReturns(c)
  \/ PushSentinel(c) \/ Join(c) \/ DestroyResults(c) \/ DestroyTasks(c)

Next ==
  /\ worker # "terminated"
  /\ \/ Constructed \/ WorkerStep \/ TaskThrows
     \/ \E x \in Tasks : ScheduleTask(x)
     \/ \E c \in Clients :
          \/ (\E n \in Limits : Poll(c, n)) \/ InvokeNext(c) \/ ClientStep(c)
          \/ CallbackThrows(c) \/ Destroy(c) \/ ScheduleIntoDestroyed(c)

Spec == Init /\ [][Next]_vars

\* Every thread inside the runner's code is scheduled again and again, every
\* task returns and every callback does.  No client is obliged to call.
FairSpec ==
  /\ Spec
  /\ WF_vars(Constructed)
  /\ WF_vars(WorkerStep)
  /\ \A c \in Clients : WF_vars(worker # "terminated" /\ ClientStep(c))

-----------------------------------------------------------------------------
\* A task that was waiting when the destructor began never runs, although the
\* worker goes on, and tasks go on arriving, until the sentinel reaches it.
BacklogNeverRuns == backlog \cap Started = {}

\* While a task runs, and until its result is reported, processing_ is true,
\* although the thread starts before the initializer of processing_ has run.
ProcessingWhileRunning ==
  worker \in {"run", "publish", "notify", "end"} => processing = TRUE

Sentinels == {i \in DOMAIN todo : todo[i] = Sentinel}

\* Once the thread is joined it has left its loop, at the sentinel: every task
\* scheduled before that has run and its result is there, except for those the
\* destructor cleared.  What is left for ~BlockingQueue to delete, with no thread
\* to run it, are tasks that came behind the sentinel, and only their captured
\* destructors can meet a queue that is being destroyed.
FateOfTasks ==
  life \in Joined =>
    /\ worker = "exited"
    /\ todoLeft \in Sentinels
    /\ Finished = {todo[i] : i \in 1..todoLeft - 1} \ backlog

\* What a client has seen in finished_tasks_ is there when it takes it, as long
\* as it is the only one: a poll that asks first never blocks, and when it
\* returns true, neither does the call that comes next.
SeenIsThere ==
  \A c \in Clients :
    more[c] \/ (c \in polling /\ client[c] = "pop") => Unpolled > 0

\* The pipeline behind the two queues, the thread and the sentinel.  Behind the
\* sentinel, nothing waits any more that will ever run.
LastToRun == IF Sentinels = {} THEN Len(todo) ELSE (CHOOSE i \in Sentinels : TRUE) - 1

Pipeline == INSTANCE TaskPipeline WITH
  waiting  <- SubSeq(todo, todoLeft + 1, LastToRun),
  running  <- IF worker \in {"begin", "run", "publish", "terminated"} THEN taken.value ELSE NoTask,
  finished <- SubSeq(done, doneLeft + 1, Len(done)),
  given    <- handed,
  phase    <- CASE life \in {"constructing", "alive"} -> "open"
                [] life \in {"cleared", "poisoned"}   -> "closing"
                [] life \in Joined                   -> "closed",
  Nobody   <- Worker

\* Tasks run one at a time and in order, their results come out in that order,
\* once each, and after destruction has begun only the running task and tasks
\* that arrive before the sentinel still run, all of them before it ends.
ImplementsPipeline == Pipeline!Spec

\* Every poll returns, although tasks may finish as fast as it takes them, and
\* so does the destructor, whatever is waiting or being scheduled meanwhile.
CallsReturn ==
  /\ \A c \in Clients : c \in polling ~> c \notin polling \/ worker = "terminated"
  /\ life = "cleared" ~> life \in {"destroyed", "undefined"} \/ worker = "terminated"

\* A scheduled task is run, unless the runner is destroyed first.
TasksFinish ==
  \A x \in Tasks : x \in Waiting ~>
    x \in Finished \/ life \notin {"constructing", "alive"} \/ worker = "terminated"

=============================================================================
