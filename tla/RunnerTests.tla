---------------------------- MODULE RunnerTests ----------------------------
(***************************************************************************)
(* The tests of AsyncTaskRunner: what Main calls, and what it checks.  The *)
(* last test gives the runner a callback that pushes into a BlockingQueue  *)
(* of the test's own, out of which Main pops until all tasks are done:     *)
(* here the detailed BlockingQueue, on which the worker of one object and  *)
(* the client of the other meet.  Checks of the time that passed are left  *)
(* out: nothing in the code bounds it.                                     *)
(***************************************************************************)
EXTENDS AsyncTaskRunner

CONSTANTS Main,            \* the thread of the test: Clients is {Main}
          Nobody, NoItem

VARIABLES owner, sleeping, woken, queue, pc, op, item, trash, out, log, notified,
          test,     \* the test that is run, or the subcase
          line,     \* how far it has come
          called,   \* history: the callbacks invoked, for which task
          answers,  \* history: what the polls returned
          caught    \* history: the exceptions that left a call of the runner

\* block_until_a_task_completes
Completed == INSTANCE BlockingQueue WITH
  Threads <- {Main, Worker}, Items <- Tasks, Copied <- {}, HasCallback <- FALSE, Spurious <- FALSE

completedVars == <<owner, sleeping, woken, queue, pc, op, item, trash, out, log, notified>>
testVars == <<test, line, called, answers, caught>>
allVars == <<vars, completedVars, testVars>>

-----------------------------------------------------------------------------
\* The tests as the sequences of their calls.
Schedule(n)     == [i \in 1..n |-> [call |-> "schedule", arg |-> i]]
Times(n, call)  == [i \in 1..n |-> [call |-> call, arg |-> i]]
PollUpTo(limit) == <<[call |-> "poll", arg |-> limit]>>

NoCallbacks      == Schedule(2) \o Times(2, "invoke")
CorrectCallbacks == Schedule(3) \o Times(3, "invoke")
RunsInOrder      == Schedule(5) \o Times(5, "invoke")
RunsOneAtATime   == Schedule(5) \o Times(5, "invoke")
KillsThread      == Schedule(5)
AllProcessed     == Schedule(6) \o Times(6, "await")

Scripts ==
  [no_callbacks |-> NoCallbacks, correct_callbacks |-> CorrectCallbacks,
   in_order |-> RunsInOrder, one_at_a_time |-> RunsOneAtATime, kills |-> KillsThread,
   default      |-> AllProcessed \o PollUpTo(10),
   all_at_once  |-> AllProcessed \o PollUpTo(6),
   in_chunks    |-> AllProcessed \o PollUpTo(3) \o PollUpTo(2) \o PollUpTo(1),
   one_by_one   |-> AllProcessed \o [i \in 1..6 |-> PollUpTo(1)[1]]]

Notifies(t) == t \in {"default", "all_at_once", "in_chunks", "one_by_one"}

\* What the CHECKs expect of the polls, and of the callbacks.
Expected(t) ==
  CASE t = "in_chunks"  -> <<TRUE, TRUE, FALSE>>
    [] t = "one_by_one" -> <<TRUE, TRUE, TRUE, TRUE, TRUE, FALSE>>
    [] OTHER            -> <<FALSE>>
Fails(t, x)  == t = "correct_callbacks" /\ x = 2   \* make_unexpected
Throws(t, x) == t = "correct_callbacks" /\ x = 3   \* just_throw
Given(t)     == t \in {"correct_callbacks", "in_order"}

TestsInit ==
  /\ Init /\ Completed!Init
  /\ test \in DOMAIN Scripts
  /\ line = 1
  /\ called = <<>> /\ answers = <<>> /\ caught = {}

-----------------------------------------------------------------------------
\* Main is outside all calls, and its next one is this.
Calls(call) ==
  /\ client[Main] = "idle" /\ pc[Main] = "idle" /\ life = "alive"
  /\ line <= Len(Scripts[test]) /\ Scripts[test][line].call = call
  /\ line' = line + 1
  /\ UNCHANGED <<test, called, answers, caught>>

MainCalls ==
  LET arg == Scripts[test][line].arg
  IN  \/ /\ Calls("schedule") /\ ScheduleTask(arg) /\ UNCHANGED completedVars
      \/ /\ Calls("invoke") /\ InvokeNext(Main) /\ UNCHANGED completedVars
      \/ /\ Calls("poll") /\ Poll(Main, arg) /\ UNCHANGED completedVars
      \/ /\ Calls("await") /\ Completed!CallOther(Main, "pop") /\ UNCHANGED vars

\* task_runner goes out of scope.
LeavesScope ==
  /\ line > Len(Scripts[test]) /\ pc[Main] = "idle"
  /\ Destroy(Main)
  /\ UNCHANGED <<completedVars, testVars>>

MainInside ==
  /\ \/ (PollAgain(Main) \/ PollStop(Main) \/ PopFinished(Main)) /\ UNCHANGED completedVars
     \/ (PushSentinel(Main) \/ Join(Main)) /\ UNCHANGED completedVars
     \/ (DestroyResults(Main) \/ DestroyTasks(Main)) /\ UNCHANGED completedVars
     \/ Completed!Step(Main) /\ UNCHANGED vars
  /\ UNCHANGED testVars

PollAnswers ==
  /\ PollReturn(Main)
  /\ answers' = Append(answers, more'[Main])
  /\ UNCHANGED <<completedVars, test, line, called, caught>>

\* The result chooses the callback, if there is one.
Callback ==
  LET x == handed.value
  IN  /\ IF Throws(test, x) THEN CallbackThrows(Main) /\ caught' = caught \cup {x}
                            ELSE CallbackReturns(Main) /\ UNCHANGED caught
      /\ called' = IF ~Given(test) \/ Throws(test, x) THEN called
                   ELSE Append(called, [task |-> x, error |-> Fails(test, x)])
      /\ UNCHANGED <<completedVars, test, line, answers>>

MainStep == MainCalls \/ LeavesScope \/ MainInside \/ PollAnswers \/ Callback

\* task_complete_callback is one call of emplace_back.
EmplaceBack ==
  /\ worker = "notify" /\ Notifies(test)
  /\ Completed!CallPush(Worker, ready + 1)
  /\ UNCHANGED vars

WorkerThread ==
  /\ \/ EmplaceBack
     \/ Completed!Step(Worker) /\ UNCHANGED vars
     \/ /\ PopTask \/ BeginTask \/ RunTask \/ PublishResult \/ EndTask \/ DeleteTask
        /\ UNCHANGED completedVars
     \/ /\ Notifies(test) => pc[Worker] = "idle" /\ Len(log) = ready + 1
        /\ TaskReady
        /\ UNCHANGED completedVars
  /\ UNCHANGED testVars

Construction == Constructed /\ UNCHANGED <<completedVars, testVars>>

TestsNext == Construction \/ MainStep \/ WorkerThread

TestsSpec ==
  /\ TestsInit
  /\ [][TestsNext]_allVars
  /\ WF_allVars(Construction) /\ WF_allVars(MainStep) /\ WF_allVars(WorkerThread)

-----------------------------------------------------------------------------
\* The CHECKs hold in every interleaving: each result goes to the callback it
\* is for, in the order of the tasks, only just_throw throws, and once the ready
\* callback has been heard six times, each poll knows whether it leaves results.
ChecksHold ==
  /\ \A n \in DOMAIN called : called[n] = [task |-> n, error |-> Fails(test, n)]
  /\ \A x \in caught : Throws(test, x)
  /\ \A n \in DOMAIN answers : answers[n] = Expected(test)[n]

\* Every test ends, with its runner destroyed and the tasks it has waited for
\* done: the worker calls back once per task, never before the result is there,
\* and its last push into the test's queue wakes Main wherever it is.
Scheduled == SelectSeq(Scripts[test], LAMBDA s : s.call = "schedule")
TestsEnd == <>(life = "destroyed" /\ (test # "kills" => Len(done) = Len(Scheduled)))

=============================================================================
