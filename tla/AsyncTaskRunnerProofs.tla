------------------------ MODULE AsyncTaskRunnerProofs ------------------------
(***************************************************************************)
(* What holds of AsyncTaskRunner for every set of clients, every set of    *)
(* tasks and all limits of the polls.                                      *)
(***************************************************************************)
EXTENDS AsyncTaskRunner, SequenceTheorems, TLAPS

\* What the worker has taken and not published, what left the queue of tasks in
\* whatever way, and what the worker has begun or is about to.
InHand   == IF worker \in {"begin", "run", "publish", "terminated"} THEN {taken.value} ELSE {}
Popped   == {todo[i] : i \in 1..todoLeft}
Launched == Finished \cup InHand

\* Nobody can do anything before the constructor has finished.
NothingBeforeConstruction ==
  life = "constructing" => todo = <<>> /\ worker = "pop"

\* No task is scheduled twice, and the sentinel is pushed only once.
NoneTwice == \A i, j \in 1..Len(todo) : todo[i] = todo[j] => i = j

\* The destructor runs alone, and nothing is called before or after it.
ClientsAtRest ==
  /\ life # "alive" => \A c \in Clients : client[c] \in {"idle", "destroying"}
  /\ \A c \in Clients : client[c] = "destroying" =>
       /\ life \in {"cleared", "poisoned", "joined", "emptied", "undefined"}
       /\ \A d \in Clients \ {c} : client[d] = "idle"
  /\ life \in Joined => worker = "exited"

\* A client inside the polling loop is in one of its places, and pops only as
\* long as there are updates left.
PollingPlaces ==
  \A c \in polling :
    /\ client[c] \in {"poll", "result", "pop", "callback"}
    /\ client[c] \in {"pop", "callback"} => updates[c] > 0

\* What the worker begins are the tasks that have left the queue, other than
\* those that were cleared.
LaunchedInOrder ==
  /\ InHand \subseteq Tasks
  /\ Launched \subseteq Popped
  /\ backlog \subseteq Popped
  /\ backlog \cap Launched = {}
  /\ Popped \subseteq Launched \cup backlog \cup {Sentinel}
  /\ life \in {"constructing", "alive"} => backlog = {}

\* The sentinel is pushed by the destructor and ends the worker's loop.
SentinelEndsLoop ==
  /\ Sentinels # {} => life \in {"poisoned"} \cup Joined
  /\ worker # "exited" => \A i \in Sentinels : i > todoLeft
  /\ worker = "exited" => todoLeft \in Sentinels

Inv ==
  /\ TypeOK /\ ProcessingWhileRunning
  /\ NothingBeforeConstruction /\ NoneTwice
  /\ ClientsAtRest /\ PollingPlaces
  /\ LaunchedInOrder /\ SentinelEndsLoop

\* More than was asked for is said only between two calls.
MoreBetweenCalls ==
  \A c \in Clients : client[c] \notin {"idle", "destroying"} => ~more[c]

-----------------------------------------------------------------------------
\* The destructor from its join on.
EndStep(c) == Join(c) \/ DestroyResults(c) \/ DestroyTasks(c) \/ ScheduleIntoDestroyed(c)

LEMMA EndSteps ==
  ASSUME NEW c, EndStep(c)
  PROVE  /\ UNCHANGED <<todo, todoLeft, taken, done, doneLeft, handed, worker, processing, ready,
                        polling, updates, more, backlog>>
         /\ client[c] = "destroying"
         /\ \/ life = "poisoned" /\ life' = "joined" /\ worker = "exited" /\ client' = client
            \/ life = "joined" /\ life' = "emptied" /\ client' = client
            \/ life = "emptied" /\ life' = "undefined" /\ client' = client
            \/ life = "emptied" /\ life' = "destroyed" /\ ClientGoTo(c, "idle")
  BY DEF EndStep, Join, DestroyResults, DestroyTasks, ScheduleIntoDestroyed, DestructorGoesTo,
     todoVars, doneVars, workerVars

\* Types are preserved by every step: an update is counted down only in a poll
\* that has one left, and only tasks are published.
LEMMA TypesPreserved ==
  ASSUME Inv, [Next]_vars
  PROVE  TypeOK'
<1> USE DEF TypeOK
<1>0. /\ TypeOK /\ PollingPlaces /\ InHand \subseteq Tasks
      /\ Len(todo) \in Nat /\ Len(done) \in Nat
  BY LenProperties DEF Inv, LaunchedInOrder
<1>1. CASE UNCHANGED vars
  BY <1>0, <1>1 DEF vars, todoVars, doneVars, workerVars, clientVars
<1>2. CASE Constructed
  BY <1>0, <1>2 DEF Constructed, todoVars, doneVars, clientVars
<1>3. CASE PopTask
  <2>1. todoLeft + 1 \in 1..Len(todo)
    BY <1>0, <1>3 DEF PopTask, ToDo!Take
  <2>2. todo[todoLeft + 1] \in Tasks \cup {Sentinel}
    BY <1>0, <2>1, ElementOfSeq
  <2>3. QED
    BY <1>0, <1>3, <2>1, <2>2 DEF PopTask, ToDo!Take, ToDo!Return, WorkerGoTo, doneVars, clientVars
<1>4. CASE RunTask \/ TaskThrows \/ DeleteTask
  BY <1>0, <1>4 DEF RunTask, TaskThrows, DeleteTask, WorkerGoTo, todoVars, doneVars, clientVars
<1>5. CASE BeginTask \/ EndTask
  BY <1>0, <1>5 DEF BeginTask, EndTask, WorkerGoTo, todoVars, doneVars, clientVars
<1>6. CASE TaskReady
  BY <1>0, <1>6 DEF TaskReady, WorkerGoTo, todoVars, doneVars, clientVars
<1>7. CASE PublishResult
  <2>1. taken.value \in Tasks
    BY <1>0, <1>7 DEF PublishResult, WorkerGoTo, InHand
  <2>2. done' \in Seq(Tasks) /\ Len(done') = Len(done) + 1
    BY <1>0, <1>7, <2>1, AppendProperties DEF PublishResult, Done!Put
  <2>3. QED
    BY <1>0, <1>7, <2>2 DEF PublishResult, Done!Put, WorkerGoTo, todoVars, clientVars
<1>8. ASSUME NEW x \in Tasks \cup {Sentinel}, ToDo!Put(x),
             UNCHANGED <<doneVars, workerVars, clientVars, backlog>>, life' \in {life, "poisoned"}
      PROVE  TypeOK'
  <2>1. todo' \in Seq(Tasks \cup {Sentinel}) /\ Len(todo') = Len(todo) + 1
    BY <1>0, <1>8, AppendProperties DEF ToDo!Put
  <2>2. QED
    BY <1>0, <1>8, <2>1 DEF ToDo!Put, doneVars, workerVars, clientVars
<1>9. ASSUME NEW x \in Tasks, ScheduleTask(x) PROVE TypeOK'
  BY <1>8, <1>9 DEF ScheduleTask
<1>10. ASSUME NEW c \in Clients, PushSentinel(c) PROVE TypeOK'
  BY <1>8, <1>10 DEF PushSentinel
<1>11. ASSUME NEW c \in Clients, NEW n \in Limits, Poll(c, n) PROVE TypeOK'
  BY <1>0, <1>11, LimitsAssumption DEF Poll, ClientGoTo, todoVars, doneVars, workerVars
<1>12. ASSUME NEW c \in Clients, PollAgain(c) \/ PollStop(c) \/ CallbackThrows(c)
       PROVE  TypeOK'
  BY ZenonT(40), <1>0, <1>12 DEF PollAgain, PollStop, CallbackThrows, ClientGoTo, todoVars, doneVars, workerVars
<1>13. ASSUME NEW c \in Clients, PollReturn(c) PROVE TypeOK'
  BY <1>0, <1>13 DEF PollReturn, ClientGoTo, todoVars, doneVars, workerVars
<1>14. ASSUME NEW c \in Clients, InvokeNext(c) PROVE TypeOK'
  BY <1>0, <1>14 DEF InvokeNext, ClientGoTo, todoVars, doneVars, workerVars
<1>15. ASSUME NEW c \in Clients, PopFinished(c) PROVE TypeOK'
  <2>1. doneLeft + 1 \in 1..Len(done)
    BY <1>0, <1>15 DEF PopFinished, Done!Take
  <2>2. done[doneLeft + 1] \in Tasks
    BY <1>0, <2>1, ElementOfSeq
  <2>3. QED
    BY <1>0, <1>15, <2>1, <2>2 DEF PopFinished, Done!Take, Done!Return, ClientGoTo, todoVars, workerVars
<1>16. ASSUME NEW c \in Clients, CallbackReturns(c) PROVE TypeOK'
  <2>1. c \in polling => updates[c] - 1 \in Nat
    BY <1>0, <1>16 DEF CallbackReturns, PollingPlaces
  <2>2. updates' \in [Clients -> Nat]
    BY <1>0, <1>16, <2>1 DEF CallbackReturns
  <2>3. client' \in [Clients -> {"idle", "poll", "result", "pop", "callback", "destroying"}]
    BY <1>0, <1>16 DEF CallbackReturns, ClientGoTo
  <2>4. QED
    BY <1>0, <1>16, <2>2, <2>3 DEF CallbackReturns, todoVars, doneVars, workerVars
<1>17. ASSUME NEW c \in Clients, Destroy(c) PROVE TypeOK'
  <2>1. Waiting \subseteq Tasks \cup {Sentinel}
    BY <1>0, ElementOfSeq DEF Waiting
  <2>2. QED
    BY <1>0, <1>17, <2>1 DEF Destroy, ToDo!Clear, ClientGoTo, doneVars, workerVars
<1>18. ASSUME NEW c \in Clients, EndStep(c) PROVE TypeOK'
  <2>1. client' \in [Clients -> {"idle", "poll", "result", "pop", "callback", "destroying"}]
    BY <1>0, <1>18, EndSteps DEF ClientGoTo
  <2>2. life' \in Joined
    BY <1>18, EndSteps DEF Joined
  <2>3. QED
    BY <1>0, <1>18, <2>1, <2>2, EndSteps
<1>19. QED
  BY <1>1, <1>2, <1>3, <1>4, <1>5, <1>6, <1>7, <1>9, <1>10, <1>11, <1>12, <1>13, <1>14,
     <1>15, <1>16, <1>17, <1>18 DEF Next, WorkerStep, ClientStep, EndStep

-----------------------------------------------------------------------------
\* The initializer of processing_ cannot come after the worker has set it: as
\* long as the constructor runs, there is nothing for the worker to take.
LEMMA ProcessingPreserved ==
  ASSUME Inv, [Next]_vars
  PROVE  ProcessingWhileRunning' /\ NothingBeforeConstruction'
<1> USE DEF ProcessingWhileRunning, NothingBeforeConstruction
<1>0. /\ ProcessingWhileRunning /\ NothingBeforeConstruction
      /\ todoLeft \in 0..Len(todo) /\ Len(todo) \in Nat
      /\ worker \in {"run", "publish", "notify", "end"} \/ worker \in {"pop", "begin", "delete", "exited", "terminated"}
  BY LenProperties DEF Inv, TypeOK
<1>1. CASE UNCHANGED vars
  BY <1>0, <1>1 DEF vars, todoVars, workerVars
<1>2. CASE Constructed
  BY <1>0, <1>2 DEF Constructed
<1>3. CASE PopTask
  <2>1. todo # <<>>
    BY <1>0, <1>3, EmptySeq DEF PopTask, ToDo!Take
  <2>2. QED
    BY <1>0, <1>3, <2>1 DEF PopTask, WorkerGoTo
<1>4. CASE BeginTask \/ RunTask \/ TaskThrows \/ PublishResult \/ TaskReady \/ EndTask \/ DeleteTask
  BY <1>0, <1>4 DEF BeginTask, RunTask, TaskThrows, PublishResult, TaskReady, EndTask, DeleteTask, WorkerGoTo
<1>5. ASSUME NEW x \in Tasks, ScheduleTask(x)
      PROVE  ProcessingWhileRunning' /\ NothingBeforeConstruction'
  BY <1>0, <1>5 DEF ScheduleTask, workerVars
<1>6. ASSUME NEW c \in Clients,
             \/ \E n \in Limits : Poll(c, n)
             \/ InvokeNext(c) \/ ClientStep(c) \/ CallbackThrows(c) \/ Destroy(c) \/ EndStep(c)
      PROVE  ProcessingWhileRunning' /\ NothingBeforeConstruction'
  <2>1. UNCHANGED <<worker, processing>> /\ (life' = "constructing" => life = life' /\ todo' = todo)
    <3>1. CASE EndStep(c)
      BY <3>1, EndSteps
    <3>2. QED
      BY <1>6, <3>1 DEF Poll, InvokeNext, ClientStep, PollAgain, PollStop, PollReturn, PopFinished,
         CallbackReturns, PushSentinel, CallbackThrows, Destroy, EndStep, workerVars, todoVars
  <2>2. QED
    BY <1>0, <2>1
<1>7. QED
  BY <1>1, <1>2, <1>3, <1>4, <1>5, <1>6 DEF Next, WorkerStep, EndStep

\* No call overlaps the destructor, and none comes after it.
LEMMA ClientsAtRestPreserved ==
  ASSUME Inv, [Next]_vars
  PROVE  ClientsAtRest'
<1> USE DEF ClientsAtRest
<1>0. /\ ClientsAtRest
      /\ client \in [Clients -> {"idle", "poll", "result", "pop", "callback", "destroying"}]
  BY DEF Inv, TypeOK
<1>1. CASE UNCHANGED vars
  BY <1>0, <1>1 DEF vars, workerVars, clientVars
<1>2. CASE Constructed
  BY <1>0, <1>2 DEF Constructed, clientVars, Joined
<1>3. CASE WorkerStep \/ TaskThrows
  <2>1. UNCHANGED <<life, client>> /\ worker # "exited"
    BY <1>3 DEF WorkerStep, PopTask, BeginTask, RunTask, TaskThrows, PublishResult, TaskReady, EndTask,
       DeleteTask, WorkerGoTo, clientVars
  <2>2. QED
    BY <1>0, <2>1
<1>4. ASSUME NEW x \in Tasks, ScheduleTask(x) PROVE ClientsAtRest'
  BY <1>0, <1>4 DEF ScheduleTask, workerVars, clientVars
<1>5. ASSUME NEW c \in Clients,
             \/ \E n \in Limits : Poll(c, n)
             \/ InvokeNext(c) \/ PollAgain(c) \/ PollStop(c) \/ PollReturn(c) \/ PopFinished(c)
             \/ CallbackReturns(c) \/ CallbackThrows(c)
      PROVE  ClientsAtRest'
  <2>1. UNCHANGED <<life, worker>> /\ life = "alive"
    BY <1>0, <1>5 DEF Poll, InvokeNext, PollAgain, PollStop, PollReturn, PopFinished, CallbackReturns,
       CallbackThrows, workerVars
  <2>2. PICK p \in {"idle", "poll", "result", "pop", "callback"} : ClientGoTo(c, p)
    BY <1>5 DEF Poll, InvokeNext, PollAgain, PollStop, PollReturn, PopFinished, CallbackReturns, CallbackThrows
  <2>3. \A d \in Clients : client'[d] # "destroying"
    BY <1>0, <2>1, <2>2 DEF ClientGoTo
  <2>4. QED
    BY <2>1, <2>3 DEF Joined
<1>6. ASSUME NEW c \in Clients, Destroy(c) PROVE ClientsAtRest'
  BY <1>0, <1>6 DEF Destroy, ClientGoTo, Joined
<1>7. ASSUME NEW c \in Clients, PushSentinel(c) PROVE ClientsAtRest'
  BY <1>0, <1>7 DEF PushSentinel, clientVars, Joined
<1>8. ASSUME NEW c \in Clients, EndStep(c) PROVE ClientsAtRest'
  BY <1>0, <1>8, EndSteps DEF ClientGoTo, Joined
<1>9. QED
  BY <1>1, <1>2, <1>3, <1>4, <1>5, <1>6, <1>7, <1>8 DEF Next, ClientStep, EndStep

\* A poll goes through its loop only as long as there are updates left.
LEMMA PollingPlacesPreserved ==
  ASSUME Inv, [Next]_vars
  PROVE  PollingPlaces'
<1> USE DEF PollingPlaces
<1>0. /\ PollingPlaces
      /\ client \in [Clients -> {"idle", "poll", "result", "pop", "callback", "destroying"}]
      /\ polling \subseteq Clients
      /\ updates \in [Clients -> Nat]
  BY DEF Inv, TypeOK
<1>1. CASE UNCHANGED clientVars
  BY <1>0, <1>1 DEF clientVars
<1>2. CASE UNCHANGED vars \/ Constructed \/ WorkerStep \/ TaskThrows \/ \E x \in Tasks : ScheduleTask(x)
  BY <1>1, <1>2 DEF vars, Constructed, WorkerStep, PopTask, BeginTask, RunTask, TaskThrows, PublishResult,
     TaskReady, EndTask, DeleteTask, ScheduleTask
<1>3. ASSUME NEW c \in Clients, NEW n \in Limits, Poll(c, n) PROVE PollingPlaces'
  BY <1>0, <1>3 DEF Poll, ClientGoTo
<1>4. ASSUME NEW c \in Clients,
             PollAgain(c) \/ PollStop(c) \/ PollReturn(c) \/ InvokeNext(c) \/ PopFinished(c)
      PROVE  PollingPlaces'
  BY <1>0, <1>4 DEF PollAgain, PollStop, PollReturn, InvokeNext, PopFinished, ClientGoTo
<1>5. ASSUME NEW c \in Clients, CallbackReturns(c) \/ CallbackThrows(c) PROVE PollingPlaces'
  BY <1>0, <1>5 DEF CallbackReturns, CallbackThrows, ClientGoTo
<1>6. ASSUME NEW c \in Clients, Destroy(c) \/ EndStep(c) PROVE PollingPlaces'
  BY <1>0, <1>6, EndSteps DEF Destroy, ClientGoTo
<1>7. ASSUME NEW c \in Clients, PushSentinel(c) PROVE PollingPlaces'
  BY <1>1, <1>7 DEF PushSentinel
<1>8. QED
  BY <1>2, <1>3, <1>4, <1>5, <1>6, <1>7 DEF Next, ClientStep, EndStep

-----------------------------------------------------------------------------
\* What a sequence holds after an append.
LEMMA AppendExtends ==
  ASSUME NEW S, NEW s \in Seq(S), NEW x \in S
  PROVE  /\ Append(s, x) \in Seq(S)
         /\ Len(s) \in Nat /\ Len(Append(s, x)) = Len(s) + 1
         /\ DOMAIN s = 1..Len(s) /\ DOMAIN Append(s, x) = 1..Len(s) + 1
         /\ \A i \in 1..Len(s) : Append(s, x)[i] = s[i]
         /\ Append(s, x)[Len(s) + 1] = x
  BY AppendProperties, LenProperties

\* The queue of tasks changes in three ways only: something new is scheduled, the
\* worker takes the oldest, or the destructor clears it.
LEMMA ToDoSteps ==
  ASSUME Inv, [Next]_vars
  PROVE  \/ \E x \in Tasks \cup {Sentinel} : ToDo!Put(x)
         \/ PopTask
         \/ \E c \in Clients : Destroy(c)
         \/ UNCHANGED <<todo, todoLeft>>
<1>1. CASE UNCHANGED vars
  BY <1>1 DEF vars, todoVars
<1>2. CASE Next
  <2>1. ASSUME NEW c \in Clients, EndStep(c) PROVE UNCHANGED <<todo, todoLeft>>
    BY <2>1, EndSteps
  <2>2. QED
    BY <1>2, <2>1 DEF Next, WorkerStep, ClientStep, EndStep, Constructed, BeginTask, RunTask, TaskThrows,
       PublishResult, TaskReady, EndTask, DeleteTask, ScheduleTask, Poll, PollAgain, PollStop, PollReturn,
       InvokeNext, PopFinished, CallbackReturns, CallbackThrows, PushSentinel, todoVars
<1>3. QED
  BY <1>1, <1>2

\* Nothing enters the queue of tasks twice, and what has left it has left it.
LEMMA NoneTwicePreserved ==
  ASSUME Inv, [Next]_vars
  PROVE  NoneTwice' /\ Popped \subseteq Popped'
<1>0. /\ NoneTwice
      /\ todo \in Seq(Tasks \cup {Sentinel}) /\ Len(todo) \in Nat /\ todoLeft \in 0..Len(todo)
  BY LenProperties DEF Inv, TypeOK
<1>1. ASSUME NEW x \in Tasks \cup {Sentinel}, ToDo!Put(x)
      PROVE  NoneTwice' /\ Popped \subseteq Popped'
  <2>1. /\ Len(todo') = Len(todo) + 1 /\ todo'[Len(todo) + 1] = x
        /\ \A i \in 1..Len(todo) : todo'[i] = todo[i] /\ todo[i] # x
        /\ todoLeft' = todoLeft
    BY <1>0, <1>1, AppendExtends DEF ToDo!Put, ToDo!Arrived
  <2>2. QED
    BY <1>0, <2>1 DEF NoneTwice, Popped
<1>2. CASE todo' = todo /\ todoLeft' \in todoLeft..Len(todo)
  BY <1>0, <1>2 DEF NoneTwice, Popped
<1>3. CASE PopTask
  BY <1>0, <1>2, <1>3 DEF PopTask, ToDo!Take
<1>4. ASSUME NEW c \in Clients, Destroy(c) PROVE NoneTwice' /\ Popped \subseteq Popped'
  BY <1>0, <1>2, <1>4 DEF Destroy, ToDo!Clear
<1>5. CASE UNCHANGED <<todo, todoLeft>>
  BY <1>0, <1>5 DEF NoneTwice, Popped
<1>6. QED
  BY <1>1, <1>3, <1>4, <1>5, ToDoSteps

\* The worker begins tasks that it has taken from the queue, which the cleared
\* ones have left for good.
LEMMA LaunchedInOrderPreserved ==
  ASSUME Inv, [Next]_vars
  PROVE  LaunchedInOrder'
<1>0. /\ LaunchedInOrder /\ NoneTwice /\ Popped \subseteq Popped'
      /\ todo \in Seq(Tasks \cup {Sentinel}) /\ Len(todo) \in Nat /\ todoLeft \in 0..Len(todo)
      /\ done \in Seq(Tasks)
  BY NoneTwicePreserved, LenProperties DEF Inv, TypeOK
<1>1. ASSUME InHand' \subseteq Tasks, Launched' = Launched, Popped' = Popped, backlog' = backlog,
             life' \in {"constructing", "alive"} => life \in {"constructing", "alive"}
      PROVE  LaunchedInOrder'
  BY <1>0, <1>1 DEF LaunchedInOrder
<1>2. ASSUME NEW x \in Tasks \cup {Sentinel}, ToDo!Put(x) PROVE Popped' = Popped
  <2>1. todo' = Append(todo, x) /\ todoLeft' = todoLeft
    BY <1>2 DEF ToDo!Put
  <2>2. \A i \in 1..Len(todo) : todo'[i] = todo[i]
    BY <1>0, <2>1, AppendExtends
  <2>3. QED
    BY <1>0, <2>1, <2>2 DEF Popped
<1>3. ASSUME UNCHANGED <<worker, taken, done, backlog>>, Popped' = Popped,
             life' \in {"constructing", "alive"} => life \in {"constructing", "alive"}
      PROVE  LaunchedInOrder'
  BY <1>0, <1>1, <1>3 DEF LaunchedInOrder, InHand, Finished, Launched
<1>4. CASE PopTask
  <2>1. /\ todoLeft + 1 \in 1..Len(todo) /\ todoLeft' = todoLeft + 1 /\ todo' = todo
        /\ done' = done /\ backlog' = backlog /\ taken'.value = todo[todoLeft + 1]
        /\ worker = "pop" /\ worker' = IF taken'.value = Sentinel THEN "exited" ELSE "begin"
        /\ life' = life
    BY <1>0, <1>4 DEF PopTask, ToDo!Take, ToDo!Return, WorkerGoTo, doneVars
  <2>2. todo[todoLeft + 1] \in Tasks \cup {Sentinel}
    BY <1>0, <2>1, ElementOfSeq
  <2>3. todo[todoLeft + 1] \notin Popped /\ Popped' = Popped \cup {todo[todoLeft + 1]}
    BY <1>0, <2>1 DEF NoneTwice, Popped
  <2>4. InHand = {} /\ InHand' = {todo[todoLeft + 1]} \ {Sentinel}
    BY <2>1 DEF InHand
  <2>5. Finished' = Finished
    BY <2>1 DEF Finished
  <2>6. QED
    BY <1>0, <2>1, <2>2, <2>3, <2>4, <2>5 DEF LaunchedInOrder, Launched
<1>5. CASE PublishResult
  <2>1. InHand = {taken.value} /\ InHand \subseteq Tasks /\ InHand' = {} /\ backlog' = backlog
    BY <1>0, <1>5 DEF PublishResult, WorkerGoTo, InHand, LaunchedInOrder
  <2>2. done' = Append(done, taken.value) /\ UNCHANGED <<todo, todoLeft, life>>
    BY <1>5 DEF PublishResult, Done!Put, todoVars
  <2>3. /\ Len(done) \in Nat /\ Len(done') = Len(done) + 1 /\ done'[Len(done) + 1] = taken.value
        /\ \A i \in 1..Len(done) : done'[i] = done[i]
    BY <1>0, <2>1, <2>2, AppendExtends
  <2>4. Finished' = Finished \cup {taken.value}
    BY <2>3 DEF Finished
  <2>5. QED
    BY <1>1, <2>1, <2>2, <2>4 DEF Launched, Popped
<1>6. CASE Constructed \/ BeginTask \/ RunTask \/ TaskThrows \/ TaskReady \/ EndTask \/ DeleteTask
  <2>1. InHand' = InHand /\ Finished' = Finished /\ Popped' = Popped /\ backlog' = backlog
    BY <1>6 DEF Constructed, BeginTask, RunTask, TaskThrows, TaskReady, EndTask, DeleteTask, WorkerGoTo,
       todoVars, doneVars, Finished, InHand, Popped
  <2>2. life' \in {"constructing", "alive"} => life \in {"constructing", "alive"}
    BY <1>6 DEF Constructed, BeginTask, RunTask, TaskThrows, TaskReady, EndTask, DeleteTask
  <2>3. QED
    BY <1>0, <1>1, <2>1, <2>2 DEF LaunchedInOrder, Launched
<1>7. ASSUME NEW c \in Clients, Destroy(c) PROVE LaunchedInOrder'
  <2>1. /\ todo' = todo /\ todoLeft' = Len(todo) /\ backlog' = Waiting
        /\ done' = done /\ worker' = worker /\ taken' = taken
        /\ life = "alive" /\ life' = "cleared"
    BY <1>7 DEF Destroy, ToDo!Clear, doneVars, workerVars
  <2>2. Popped' = Popped \cup Waiting /\ Waiting \cap Popped = {}
    BY <1>0, <2>1 DEF Waiting, Popped, NoneTwice
  <2>3. InHand' = InHand /\ Finished' = Finished
    BY <2>1 DEF InHand, Finished
  <2>4. QED
    BY <1>0, <2>1, <2>2, <2>3 DEF LaunchedInOrder, Launched
<1>8. ASSUME NEW c \in Clients,
             \/ \E n \in Limits : Poll(c, n)
             \/ InvokeNext(c) \/ PollAgain(c) \/ PollStop(c) \/ PollReturn(c) \/ PopFinished(c)
             \/ CallbackReturns(c) \/ CallbackThrows(c)
      PROVE  LaunchedInOrder'
  BY <1>3, <1>8 DEF Poll, InvokeNext, PollAgain, PollStop, PollReturn, PopFinished, CallbackReturns,
     CallbackThrows, Done!Take, workerVars, todoVars, doneVars, Popped
<1>9. ASSUME NEW c \in Clients, PushSentinel(c) PROVE LaunchedInOrder'
  BY <1>2, <1>3, <1>9 DEF PushSentinel, ToDo!Put, doneVars, workerVars
<1>10. ASSUME NEW c \in Clients, EndStep(c) PROVE LaunchedInOrder'
  BY <1>3, <1>10, EndSteps DEF Popped
<1>11. ASSUME NEW x \in Tasks, ScheduleTask(x) PROVE LaunchedInOrder'
  BY <1>2, <1>3, <1>11 DEF ScheduleTask, ToDo!Put, doneVars, workerVars
<1>12. CASE UNCHANGED vars
  BY <1>3, <1>12 DEF vars, todoVars, doneVars, workerVars, Popped
<1>13. QED
  BY <1>4, <1>5, <1>6, <1>7, <1>8, <1>9, <1>10, <1>11, <1>12 DEF Next, WorkerStep, ClientStep, EndStep

\* The worker leaves its loop when it takes the sentinel and never otherwise.
LEMMA SentinelEndsLoopPreserved ==
  ASSUME Inv, [Next]_vars
  PROVE  SentinelEndsLoop'
<1>0. /\ SentinelEndsLoop /\ ClientsAtRest
      /\ todo \in Seq(Tasks \cup {Sentinel}) /\ Len(todo) \in Nat /\ todoLeft \in 0..Len(todo)
      /\ DOMAIN todo = 1..Len(todo)
  BY LenProperties DEF Inv, TypeOK
<1>1. ASSUME UNCHANGED <<todo, todoLeft>>, worker' = "exited" <=> worker = "exited",
             life \in {"poisoned"} \cup Joined => life' \in {"poisoned"} \cup Joined
      PROVE  SentinelEndsLoop'
  BY <1>0, <1>1 DEF SentinelEndsLoop, Sentinels
<1>2. ASSUME NEW x \in Tasks \cup {Sentinel}, ToDo!Put(x)
      PROVE  /\ todoLeft' = todoLeft
             /\ Sentinels' = Sentinels \cup (IF x = Sentinel THEN {Len(todo) + 1} ELSE {})
  <2>1. todo' = Append(todo, x) /\ todoLeft' = todoLeft
    BY <1>2 DEF ToDo!Put
  <2>2. /\ DOMAIN todo' = 1..Len(todo) + 1 /\ todo'[Len(todo) + 1] = x
        /\ \A i \in 1..Len(todo) : todo'[i] = todo[i]
    BY <1>0, <2>1, AppendExtends
  <2>3. QED
    BY <1>0, <2>1, <2>2 DEF Sentinels
<1>3. ASSUME NEW x \in Tasks, ScheduleTask(x) PROVE SentinelEndsLoop'
  <2>1. todoLeft' = todoLeft /\ Sentinels' = Sentinels
    BY <1>2, <1>3, TasksAssumption DEF ScheduleTask
  <2>2. QED
    BY <1>0, <1>3, <2>1 DEF SentinelEndsLoop, ScheduleTask, workerVars
<1>4. ASSUME NEW c \in Clients, PushSentinel(c) PROVE SentinelEndsLoop'
  <2>1. todoLeft' = todoLeft /\ Sentinels' = Sentinels \cup {Len(todo) + 1}
    BY <1>2, <1>4 DEF PushSentinel
  <2>2. Sentinels = {} /\ life' = "poisoned" /\ worker' = worker
    BY <1>0, <1>4 DEF SentinelEndsLoop, PushSentinel, workerVars, Joined
  <2>3. QED
    BY <1>0, <2>1, <2>2 DEF SentinelEndsLoop
<1>5. CASE PopTask
  <2>1. /\ todoLeft + 1 \in 1..Len(todo) /\ todoLeft' = todoLeft + 1 /\ todo' = todo
        /\ taken'.value = todo[todoLeft + 1] /\ life' = life
        /\ worker = "pop" /\ worker' = IF taken'.value = Sentinel THEN "exited" ELSE "begin"
    BY <1>0, <1>5 DEF PopTask, ToDo!Take, ToDo!Return, WorkerGoTo
  <2>2. Sentinels' = Sentinels /\ (todoLeft + 1 \in Sentinels <=> todo[todoLeft + 1] = Sentinel)
    BY <1>0, <2>1 DEF Sentinels
  <2>3. \A i \in Sentinels : i \in Nat /\ i > todoLeft
    BY <1>0, <2>1 DEF SentinelEndsLoop, Sentinels
  <2>4. CASE todo[todoLeft + 1] = Sentinel
    BY <1>0, <2>1, <2>2, <2>3, <2>4 DEF SentinelEndsLoop
  <2>5. CASE todo[todoLeft + 1] # Sentinel
    <3>1. \A i \in Sentinels : i > todoLeft + 1
      BY <1>0, <2>2, <2>3, <2>5
    <3>2. QED
      BY <1>0, <2>1, <2>2, <2>5, <3>1 DEF SentinelEndsLoop
  <2>6. QED
    BY <2>4, <2>5
<1>6. CASE Constructed \/ BeginTask \/ RunTask \/ TaskThrows \/ PublishResult \/ TaskReady \/ EndTask \/ DeleteTask
  BY <1>1, <1>6 DEF Joined, Constructed, BeginTask, RunTask, TaskThrows, PublishResult, TaskReady, EndTask, DeleteTask,
     WorkerGoTo, todoVars
<1>7. ASSUME NEW c \in Clients, Destroy(c) PROVE SentinelEndsLoop'
  BY <1>0, <1>7 DEF Destroy, ToDo!Clear, SentinelEndsLoop, Sentinels, workerVars, Joined
<1>8. ASSUME NEW c \in Clients,
             \/ \E n \in Limits : Poll(c, n)
             \/ InvokeNext(c) \/ PollAgain(c) \/ PollStop(c) \/ PollReturn(c) \/ PopFinished(c)
             \/ CallbackReturns(c) \/ CallbackThrows(c)
      PROVE  SentinelEndsLoop'
  BY <1>1, <1>8 DEF Poll, InvokeNext, PollAgain, PollStop, PollReturn, PopFinished, CallbackReturns,
     CallbackThrows, workerVars, todoVars
<1>9. ASSUME NEW c \in Clients, EndStep(c) PROVE SentinelEndsLoop'
  BY <1>1, <1>9, EndSteps DEF Joined
<1>10. CASE UNCHANGED vars
  BY <1>1, <1>10 DEF vars, todoVars, workerVars
<1>11. QED
  BY <1>3, <1>4, <1>5, <1>6, <1>7, <1>8, <1>9, <1>10 DEF Next, WorkerStep, ClientStep, EndStep

-----------------------------------------------------------------------------
\* It holds at first ...
LEMMA InitInv == Init => Inv
  BY EmptySeq DEF Init, ToDo!Init, Done!Init, Inv, TypeOK, ProcessingWhileRunning, NothingBeforeConstruction,
     NoneTwice, ClientsAtRest, PollingPlaces, LaunchedInOrder, Launched, Finished, InHand, Popped,
     SentinelEndsLoop, Sentinels, Joined

\* ... and every step preserves it.
LEMMA NextInv == Inv /\ [Next]_vars => Inv'
  BY TypesPreserved, ProcessingPreserved, ClientsAtRestPreserved, PollingPlacesPreserved, NoneTwicePreserved,
     LaunchedInOrderPreserved, SentinelEndsLoopPreserved DEF Inv

\* Every state has the types the module declares.
THEOREM TypeCorrect == Spec => []TypeOK
  BY InitInv, NextInv, PTL DEF Spec, Inv

\* A task that was waiting when the destructor began never runs, whatever is
\* scheduled meanwhile and however long the worker goes on.
THEOREM BacklogIsDropped == Spec => []BacklogNeverRuns
<1>1. Inv => BacklogNeverRuns
  BY DEF Inv, LaunchedInOrder, Launched, InHand, BacklogNeverRuns, Started
<1>2. QED
  BY <1>1, InitInv, NextInv, PTL DEF Spec

\* While a task runs, processing_ is true, although the thread starts before the
\* initializer of processing_ has run.
THEOREM ProcessingIsTrue == Spec => []ProcessingWhileRunning
  BY InitInv, NextInv, PTL DEF Spec, Inv

\* Once the thread is joined, exactly those tasks have run that were scheduled
\* before the sentinel and not cleared, and what is left came behind it.
THEOREM TasksMeetTheirFate == Spec => []FateOfTasks
<1>1. ASSUME Inv, life \in Joined
      PROVE  /\ worker = "exited" /\ todoLeft \in Sentinels
             /\ Finished = {todo[i] : i \in 1..todoLeft - 1} \ backlog
  <2>1. worker = "exited" /\ todoLeft \in Sentinels
    BY <1>1 DEF Inv, ClientsAtRest, SentinelEndsLoop
  <2>2. todoLeft \in 1..Len(todo) /\ todo[todoLeft] = Sentinel /\ Len(todo) \in Nat
    BY <1>1, <2>1, LenProperties DEF Inv, TypeOK, Sentinels
  <2>3. {todo[i] : i \in 1..todoLeft - 1} = Popped \ {Sentinel}
    BY <1>1, <2>2 DEF Inv, NoneTwice, Popped
  <2>4. Launched = Finished /\ Sentinel \notin Finished
    <3>1. Finished \subseteq Tasks
      BY <1>1, ElementOfSeq DEF Inv, TypeOK, Finished
    <3>2. QED
      BY <2>1, <3>1, TasksAssumption DEF Launched, InHand
  <2>5. QED
    BY <1>1, <2>1, <2>3, <2>4 DEF Inv, LaunchedInOrder
<1>2. Inv => FateOfTasks
  BY <1>1 DEF FateOfTasks
<1>3. QED
  BY <1>2, InitInv, NextInv, PTL DEF Spec

-----------------------------------------------------------------------------
\* What a client has seen is there when it comes back for it, if nobody else
\* takes results.
LEMMA SeenIsTherePreserved ==
  ASSUME Inv, MoreBetweenCalls, SeenIsThere, [Next]_vars,
         \A c, d \in Clients : c = d
  PROVE  MoreBetweenCalls' /\ SeenIsThere'
<1> USE DEF MoreBetweenCalls, SeenIsThere, Unpolled
<1>0. /\ MoreBetweenCalls /\ SeenIsThere /\ PollingPlaces
      /\ client \in [Clients -> {"idle", "poll", "result", "pop", "callback", "destroying"}]
      /\ polling \subseteq Clients
      /\ more \in [Clients -> BOOLEAN]
      /\ done \in Seq(Tasks) /\ Len(done) \in Nat /\ doneLeft \in 0..Len(done)
  BY LenProperties DEF Inv, TypeOK
<1>1. ASSUME UNCHANGED <<client, polling, more, doneLeft>>, Len(done') \in Nat, Len(done') >= Len(done)
      PROVE  MoreBetweenCalls' /\ SeenIsThere'
  BY <1>0, <1>1
<1>2. CASE PublishResult
  <2>1. taken.value \in Tasks
    BY <1>2 DEF Inv, LaunchedInOrder, InHand, PublishResult, WorkerGoTo
  <2>2. Len(done') = Len(done) + 1
    BY <1>0, <1>2, <2>1, AppendExtends DEF PublishResult, Done!Put
  <2>3. QED
    BY <1>0, <1>1, <1>2, <2>2 DEF PublishResult, Done!Put, clientVars
<1>3. CASE \/ UNCHANGED vars \/ Constructed \/ PopTask \/ BeginTask \/ RunTask \/ TaskThrows
           \/ TaskReady \/ EndTask \/ DeleteTask
           \/ \E x \in Tasks : ScheduleTask(x)
           \/ \E c \in Clients : PushSentinel(c)
  BY <1>0, <1>1, <1>3 DEF vars, Constructed, PopTask, BeginTask, RunTask, TaskThrows, TaskReady, EndTask,
     DeleteTask, ScheduleTask, PushSentinel, doneVars, clientVars
\* There is one client only: it says what it has seen and nobody else comes.
<1>4. ASSUME NEW c \in Clients, NEW n \in Limits, Poll(c, n) PROVE MoreBetweenCalls' /\ SeenIsThere'
  BY <1>0, <1>4 DEF Poll, ClientGoTo
<1>5. ASSUME NEW c \in Clients, PollAgain(c) PROVE MoreBetweenCalls' /\ SeenIsThere'
  BY <1>0, <1>5 DEF PollAgain, ClientGoTo, doneVars
<1>6. ASSUME NEW c \in Clients, PollStop(c) PROVE MoreBetweenCalls' /\ SeenIsThere'
  BY <1>0, <1>6 DEF PollStop, ClientGoTo, doneVars
<1>7. ASSUME NEW c \in Clients, PollReturn(c) PROVE MoreBetweenCalls' /\ SeenIsThere'
  BY <1>0, <1>7 DEF PollReturn, ClientGoTo, doneVars
<1>8. ASSUME NEW c \in Clients, InvokeNext(c) PROVE MoreBetweenCalls' /\ SeenIsThere'
  BY <1>0, <1>8 DEF InvokeNext, ClientGoTo, doneVars, PollingPlaces
<1>9. ASSUME NEW c \in Clients, PopFinished(c) PROVE MoreBetweenCalls' /\ SeenIsThere'
  BY <1>0, <1>9 DEF PopFinished, ClientGoTo
<1>10. ASSUME NEW c \in Clients, CallbackReturns(c) PROVE MoreBetweenCalls' /\ SeenIsThere'
  BY <1>0, <1>10 DEF CallbackReturns, ClientGoTo, doneVars
<1>11. ASSUME NEW c \in Clients, CallbackThrows(c) PROVE MoreBetweenCalls' /\ SeenIsThere'
  BY <1>0, <1>11 DEF CallbackThrows, ClientGoTo, doneVars
<1>12. ASSUME NEW c \in Clients, Destroy(c) \/ EndStep(c) PROVE MoreBetweenCalls' /\ SeenIsThere'
  BY <1>0, <1>12, EndSteps DEF Destroy, ClientGoTo, doneVars
<1>13. QED
  BY <1>2, <1>3, <1>4, <1>5, <1>6, <1>7, <1>8, <1>9, <1>10, <1>11, <1>12 DEF Next, WorkerStep, ClientStep, EndStep

\* With one client, a poll that asks before it takes never blocks, and after a
\* poll that returned true neither does the next call.
THEOREM WhatWasSeenIsThere ==
  ASSUME \A c, d \in Clients : c = d
  PROVE  Spec => []SeenIsThere
<1>1. Init => MoreBetweenCalls /\ SeenIsThere
  BY DEF Init, MoreBetweenCalls, SeenIsThere
<1>2. QED
  BY <1>1, InitInv, NextInv, SeenIsTherePreserved, PTL DEF Spec

-----------------------------------------------------------------------------
\* What is left of a sequence, from some place to its end, gets longer by the
\* element appended; what is left up to an earlier place stays as it is.
LEMMA RestOfAppend ==
  ASSUME NEW S, NEW s \in Seq(S), NEW x \in S, NEW n \in 0..Len(s)
  PROVE  SubSeq(Append(s, x), n + 1, Len(s) + 1) = Append(SubSeq(s, n + 1, Len(s)), x)
<1> DEFINE a == Append(s, x)
           r == SubSeq(s, n + 1, Len(s))
           l == SubSeq(a, n + 1, Len(s) + 1)
<1>1. /\ Len(s) \in Nat /\ n \in Nat /\ n <= Len(s)
      /\ a \in Seq(S) /\ Len(a) = Len(s) + 1
      /\ \A i \in 1..Len(s) : a[i] = s[i]
      /\ a[Len(s) + 1] = x
  BY AppendExtends
<1>2. \A i \in 1..Len(s) : s[i] \in S
  BY ElementOfSeq
<1> HIDE DEF a
<1>3. /\ r \in Seq(S) /\ Len(r) = Len(s) - n
      /\ \A i \in 1..Len(s) - n : r[i] = s[n + i]
  <2>1. /\ r \in Seq(S) /\ Len(r) = IF n + 1 <= Len(s) THEN Len(s) - (n + 1) + 1 ELSE 0
        /\ \A i \in 1..Len(s) - (n + 1) + 1 : r[i] = s[n + 1 + i - 1]
    BY <1>1, <1>2, SubSeqProperties
  <2>2. QED
    BY <1>1, <2>1
<1>4. /\ l \in Seq(S) /\ Len(l) = Len(s) - n + 1
      /\ \A i \in 1..Len(s) - n + 1 : l[i] = a[n + i]
  <2>1. \A i \in n + 1..Len(s) + 1 : a[i] \in S
    BY <1>1, <1>2
  <2>2. /\ l \in Seq(S) /\ Len(l) = IF n + 1 <= Len(s) + 1 THEN Len(s) + 1 - (n + 1) + 1 ELSE 0
        /\ \A i \in 1..Len(s) + 1 - (n + 1) + 1 : l[i] = a[n + 1 + i - 1]
    BY <1>1, <2>1, SubSeqProperties
  <2>3. QED
    BY <1>1, <2>2
<1> HIDE DEF r, l
<1>5. /\ Append(r, x) \in Seq(S) /\ Len(Append(r, x)) = Len(s) - n + 1
      /\ \A i \in 1..Len(s) - n : Append(r, x)[i] = r[i]
      /\ Append(r, x)[Len(s) - n + 1] = x
  BY <1>1, <1>3, AppendExtends
<1>6. ASSUME NEW i \in 1..Len(l) PROVE l[i] = Append(r, x)[i]
  <2>1. CASE i = Len(s) - n + 1
    BY <1>1, <1>4, <1>5, <2>1
  <2>2. CASE i \in 1..Len(s) - n
    <3>1. n + i \in 1..Len(s) /\ i \in 1..Len(s) - n + 1
      BY <1>1, <2>2
    <3>2. l[i] = s[n + i] /\ Append(r, x)[i] = s[n + i]
      BY <1>1, <1>3, <1>4, <1>5, <2>2, <3>1
    <3>3. QED
      BY <3>2
  <2>3. i \in 1..Len(s) - n \/ i = Len(s) - n + 1
    <3>1. i \in 1..Len(s) - n + 1 /\ Len(s) - n \in Nat
      BY <1>1, <1>4
    <3>2. QED
      BY <3>1
  <2>4. QED
    BY <2>1, <2>2, <2>3
<1>7. l = Append(r, x)
  BY <1>4, <1>5, <1>6, SeqEqual
<1>8. QED
  BY <1>7 DEF l, a, r

\* A part of a sequence does not see what is appended to it.
LEMMA PartOfAppend ==
  ASSUME NEW S, NEW s \in Seq(S), NEW x \in S, NEW n \in Nat, NEW m \in 0..Len(s)
  PROVE  SubSeq(Append(s, x), n + 1, m) = SubSeq(s, n + 1, m)
<1> DEFINE a == Append(s, x)
           r == SubSeq(s, n + 1, m)
           l == SubSeq(a, n + 1, m)
<1>1. /\ Len(s) \in Nat /\ m \in Nat /\ m <= Len(s)
      /\ \A i \in 1..Len(s) : a[i] = s[i]
  BY AppendExtends
<1>2. \A i \in n + 1..m : s[i] \in S /\ a[i] = s[i]
  BY <1>1, ElementOfSeq
<1> HIDE DEF a
<1>3. /\ r \in Seq(S) /\ Len(r) = IF n + 1 <= m THEN m - (n + 1) + 1 ELSE 0
      /\ \A i \in 1..m - (n + 1) + 1 : r[i] = s[n + 1 + i - 1]
  BY <1>1, <1>2, SubSeqProperties
<1>4. /\ l \in Seq(S) /\ Len(l) = IF n + 1 <= m THEN m - (n + 1) + 1 ELSE 0
      /\ \A i \in 1..m - (n + 1) + 1 : l[i] = a[n + 1 + i - 1]
  BY <1>1, <1>2, SubSeqProperties
<1> HIDE DEF r, l
<1>5. ASSUME NEW i \in 1..Len(l) PROVE l[i] = r[i]
  <2>1. i \in 1..m - (n + 1) + 1 /\ n + 1 + i - 1 \in n + 1..m
    BY <1>1, <1>4
  <2>2. QED
    BY <1>2, <1>3, <1>4, <2>1
<1>6. l = r
  BY <1>3, <1>4, <1>5, SeqEqual
<1>7. QED
  BY <1>6 DEF l, a, r

\* What is left of a sequence begins with the element at its place.
LEMMA FrontOfRest ==
  ASSUME NEW S, NEW s \in Seq(S), NEW n \in Nat, NEW m \in n + 1..Len(s)
  PROVE  /\ SubSeq(s, n + 1, m) # <<>>
         /\ Head(SubSeq(s, n + 1, m)) = s[n + 1]
         /\ Tail(SubSeq(s, n + 1, m)) = SubSeq(s, n + 1 + 1, m)
<1>1. Len(s) \in Nat /\ n + 1 \in 1..Len(s) /\ m \in n + 1..Len(s)
  BY LenProperties
<1>2. \A i \in n + 1..m : s[i] \in S
  BY <1>1, ElementOfSeq
<1>3. Len(SubSeq(s, n + 1, m)) = m - n
  BY <1>1, <1>2, SubSeqProperties
<1>4. SubSeq(s, n + 1, m) # <<>>
  BY <1>1, <1>3, EmptySeq
<1>5. QED
  BY <1>1, <1>4, HeadTailOfSubSeq

-----------------------------------------------------------------------------
\* What the pipeline's variables stand for.
ToRun   == SubSeq(todo, todoLeft + 1, LastToRun)
Ungiven == SubSeq(done, doneLeft + 1, Len(done))
Running == IF worker \in {"begin", "run", "publish", "terminated"} THEN taken.value ELSE NoTask
Phase   == CASE life \in {"constructing", "alive"} -> "open"
             [] life \in {"cleared", "poisoned"}   -> "closing"
             [] life \in Joined                   -> "closed"

\* Everything up to the sentinel will run, and all of it if there is none.
LEMMA LastBeforeSentinel ==
  ASSUME Inv
  PROVE  /\ Sentinels = {} => LastToRun = Len(todo)
         /\ \A i \in Sentinels : LastToRun = i - 1 /\ i \in 1..Len(todo)
<1>1. NoneTwice /\ DOMAIN todo = 1..Len(todo)
  BY LenProperties DEF Inv, TypeOK
<1>2. \A i, j \in Sentinels : i = j
  BY <1>1 DEF Sentinels, NoneTwice
<1>3. ASSUME NEW i \in Sentinels PROVE (CHOOSE j \in Sentinels : TRUE) = i
  BY <1>2
<1>4. QED
  BY <1>1, <1>3 DEF LastToRun, Sentinels

\* What is scheduled will run after everything else, or comes too late.
LEMMA SchedulingAppends ==
  ASSUME Inv, NEW x \in Tasks, ToDo!Put(x)
  PROVE  ToRun' = IF Sentinels = {} THEN Append(ToRun, x) ELSE ToRun
<1>0. /\ todo \in Seq(Tasks \cup {Sentinel}) /\ Len(todo) \in Nat /\ todoLeft \in 0..Len(todo)
      /\ x \in Tasks \cup {Sentinel} /\ x # Sentinel
      /\ DOMAIN todo = 1..Len(todo)
  BY TasksAssumption, LenProperties DEF Inv, TypeOK
<1>1. todo' = Append(todo, x) /\ todoLeft' = todoLeft
  BY DEF ToDo!Put
<1>2. /\ Len(todo') = Len(todo) + 1 /\ DOMAIN todo' = 1..Len(todo) + 1
      /\ todo'[Len(todo) + 1] = x
      /\ \A i \in 1..Len(todo) : todo'[i] = todo[i]
  BY <1>0, <1>1, AppendExtends
<1>3. Sentinels' = Sentinels
  BY <1>0, <1>2 DEF Sentinels
<1>4. CASE Sentinels = {}
  <2>1. LastToRun = Len(todo) /\ LastToRun' = Len(todo) + 1
    BY <1>2, <1>3, <1>4 DEF LastToRun
  <2>2. SubSeq(Append(todo, x), todoLeft + 1, Len(todo) + 1)
          = Append(SubSeq(todo, todoLeft + 1, Len(todo)), x)
    BY <1>0, RestOfAppend
  <2>3. QED
    BY <1>1, <1>4, <2>1, <2>2 DEF ToRun
<1>5. CASE Sentinels # {}
  <2>1. LastToRun' = LastToRun
    BY <1>3, <1>5 DEF LastToRun
  <2>2. LastToRun \in 0..Len(todo)
    BY <1>0, <1>5, LastBeforeSentinel
  <2>3. SubSeq(Append(todo, x), todoLeft + 1, LastToRun) = SubSeq(todo, todoLeft + 1, LastToRun)
    BY <1>0, <2>2, PartOfAppend
  <2>4. QED
    BY <1>1, <1>5, <2>1, <2>3 DEF ToRun
<1>6. QED
  BY <1>4, <1>5

\* The sentinel itself is not seen by the pipeline, neither when it is pushed ...
LEMMA PushingSentinelIsInvisible ==
  ASSUME Inv, ToDo!Put(Sentinel), Sentinels = {}
  PROVE  ToRun' = ToRun
<1>0. todo \in Seq(Tasks \cup {Sentinel}) /\ Len(todo) \in Nat /\ todoLeft \in 0..Len(todo)
      /\ DOMAIN todo = 1..Len(todo)
  BY LenProperties DEF Inv, TypeOK
<1>1. todo' = Append(todo, Sentinel) /\ todoLeft' = todoLeft
  BY DEF ToDo!Put
<1>2. /\ DOMAIN todo' = 1..Len(todo) + 1 /\ todo'[Len(todo) + 1] = Sentinel
      /\ \A i \in 1..Len(todo) : todo'[i] = todo[i]
  BY <1>0, <1>1, AppendExtends
<1>3. Sentinels' = {Len(todo) + 1}
  BY <1>0, <1>2 DEF Sentinels
<1>4. LastToRun' = Len(todo) /\ LastToRun = Len(todo)
  BY <1>0, <1>3 DEF LastToRun
<1>5. SubSeq(Append(todo, Sentinel), todoLeft + 1, Len(todo)) = SubSeq(todo, todoLeft + 1, Len(todo))
  BY <1>0, PartOfAppend
<1>6. QED
  BY <1>1, <1>4, <1>5 DEF ToRun

\* ... nor when it is taken; every task taken is the first of those that will run.
LEMMA PoppingStarts ==
  ASSUME Inv, PopTask
  PROVE  IF taken'.value = Sentinel
         THEN ToRun' = ToRun
         ELSE ToRun # <<>> /\ taken'.value = Head(ToRun) /\ ToRun' = Tail(ToRun)
<1>0. /\ todo \in Seq(Tasks \cup {Sentinel}) /\ Len(todo) \in Nat /\ todoLeft \in 0..Len(todo)
      /\ DOMAIN todo = 1..Len(todo)
      /\ worker # "exited" /\ \A i \in Sentinels : i > todoLeft
  BY LenProperties DEF Inv, TypeOK, SentinelEndsLoop, PopTask, WorkerGoTo
<1>1. /\ todoLeft + 1 \in 1..Len(todo) /\ todoLeft' = todoLeft + 1 /\ todo' = todo
      /\ taken'.value = todo[todoLeft + 1]
  BY <1>0 DEF PopTask, ToDo!Take, ToDo!Return
<1>2. LastToRun' = LastToRun
  BY <1>1 DEF LastToRun, Sentinels
<1>3. CASE taken'.value = Sentinel
  <2>1. LastToRun = todoLeft
    <3>1. todoLeft + 1 \in Sentinels
      BY <1>0, <1>1, <1>3 DEF Sentinels
    <3>2. \A i \in Sentinels : LastToRun = i - 1
      BY LastBeforeSentinel
    <3>3. QED
      BY <1>0, <3>1, <3>2
  <2>2. SubSeq(todo, todoLeft + 1, todoLeft) = <<>> /\ SubSeq(todo, todoLeft + 1 + 1, todoLeft) = <<>>
    BY <1>0, SubSeqEmpty
  <2>3. QED
    BY <1>1, <1>2, <1>3, <2>1, <2>2 DEF ToRun
<1>4. CASE taken'.value # Sentinel
  <2>1. LastToRun \in todoLeft + 1..Len(todo)
    <3>1. CASE Sentinels = {}
      BY <1>0, <1>1, <3>1, LastBeforeSentinel
    <3>2. ASSUME NEW i \in Sentinels PROVE LastToRun \in todoLeft + 1..Len(todo)
      <4>1. i \in 1..Len(todo) /\ i > todoLeft /\ i # todoLeft + 1 /\ LastToRun = i - 1
        BY <1>0, <1>1, <1>4, LastBeforeSentinel DEF Sentinels
      <4>2. QED
        BY <1>0, <4>1
    <3>3. QED
      BY <3>1, <3>2
  <2>2. /\ SubSeq(todo, todoLeft + 1, LastToRun) # <<>>
        /\ Head(SubSeq(todo, todoLeft + 1, LastToRun)) = todo[todoLeft + 1]
        /\ Tail(SubSeq(todo, todoLeft + 1, LastToRun)) = SubSeq(todo, todoLeft + 1 + 1, LastToRun)
    <3>1. todoLeft \in Nat
      BY <1>0
    <3>2. QED
      BY <1>0, <2>1, <3>1, FrontOfRest
  <2>3. QED
    BY <1>1, <1>2, <1>4, <2>2 DEF ToRun
<1>5. QED
  BY <1>3, <1>4

\* When the worker has left its loop, nothing is left that would run.
LEMMA NothingRunsAfterExit ==
  ASSUME Inv, worker = "exited"
  PROVE  ToRun = <<>>
<1>1. todoLeft \in Sentinels
  BY DEF Inv, SentinelEndsLoop
<1>2. LastToRun = todoLeft - 1 /\ todoLeft \in Nat
  BY <1>1, LastBeforeSentinel, LenProperties DEF Inv, TypeOK
<1>3. QED
  BY <1>2, SubSeqEmpty DEF ToRun

-----------------------------------------------------------------------------
\* The phases of the pipeline, case by case.
LEMMA Phases ==
  /\ life \in {"constructing", "alive"} => Phase = "open"
  /\ life \in {"cleared", "poisoned"} => Phase = "closing"
  /\ life \in Joined => Phase = "closed"
  /\ life' \in {"constructing", "alive"} => Phase' = "open"
  /\ life' \in {"cleared", "poisoned"} => Phase' = "closing"
  /\ life' \in Joined => Phase' = "closed"
  BY DEF Phase, Joined

\* Every step is a step of the pipeline, or one it does not see.
LEMMA StepImplementsPipeline ==
  ASSUME Inv, [Next]_vars
  PROVE  [Pipeline!Next]_(Pipeline!vars)
<1> USE DEF Running
<1>0. /\ todo \in Seq(Tasks \cup {Sentinel}) /\ Len(todo) \in Nat /\ todoLeft \in 0..Len(todo)
      /\ done \in Seq(Tasks) /\ Len(done) \in Nat /\ doneLeft \in 0..Len(done)
      /\ life \in {"constructing", "alive", "cleared", "poisoned"} \cup Joined
      /\ ClientsAtRest /\ SentinelEndsLoop
      /\ life \in Joined => worker = "exited"
  BY LenProperties DEF Inv, TypeOK, ClientsAtRest
<1>1. ASSUME UNCHANGED <<ToRun, Running, Ungiven, handed, Phase>> PROVE UNCHANGED Pipeline!vars
  BY <1>1 DEF Pipeline!vars, ToRun, Ungiven, Phase
<1>2. ASSUME UNCHANGED <<todo, todoLeft>> PROVE UNCHANGED ToRun
  BY <1>2 DEF ToRun, LastToRun, Sentinels
<1>3. ASSUME NEW x \in Tasks, ScheduleTask(x) PROVE Pipeline!Schedule(x) \/ UNCHANGED Pipeline!vars
  <2>1. UNCHANGED <<Running, Ungiven, handed, Phase>>
    BY <1>3 DEF ScheduleTask, ToDo!Put, Ungiven, Phase, doneVars, workerVars
  <2>2. (ToRun' = Append(ToRun, x) /\ Sentinels = {}) \/ ToRun' = ToRun
    BY <1>3, SchedulingAppends DEF ScheduleTask
  <2>3. Sentinels = {} => Phase # "closed"
    BY <1>0, Phases DEF SentinelEndsLoop
  <2>4. QED
    BY <1>1, <2>1, <2>2, <2>3 DEF Pipeline!Schedule, ToRun, Ungiven, Phase
<1>4. CASE PopTask
  <2>1. UNCHANGED <<Ungiven, handed, Phase>> /\ Running = NoTask /\ Phase # "closed"
    BY <1>0, <1>4, Phases DEF PopTask, WorkerGoTo, Ungiven, Phase, doneVars
  <2>2. CASE taken'.value = Sentinel
    BY <1>1, <1>4, <2>1, <2>2, PoppingStarts DEF PopTask, WorkerGoTo
  <2>3. CASE taken'.value # Sentinel
    <3>1. ToRun # <<>> /\ taken'.value = Head(ToRun) /\ ToRun' = Tail(ToRun)
      BY <1>4, <2>3, PoppingStarts
    <3>2. Running' = taken'.value
      BY <1>4, <2>3 DEF PopTask, WorkerGoTo
    <3>3. Pipeline!Start
      BY <2>1, <3>1, <3>2 DEF Pipeline!Start, ToRun, Ungiven, Phase
    <3>4. QED
      BY <3>3 DEF Pipeline!Next
  <2>4. QED
    BY <2>2, <2>3
<1>5. CASE PublishResult
  <2>1. UNCHANGED <<todo, todoLeft, doneLeft, handed, Phase>>
    BY <1>5 DEF PublishResult, Done!Put, todoVars, Phase
  <2>2. taken.value \in Tasks /\ Running = taken.value /\ Running' = NoTask
    BY <1>5 DEF Inv, LaunchedInOrder, InHand, PublishResult, WorkerGoTo
  <2>3. Ungiven' = Append(Ungiven, Running)
    <3>1. done' = Append(done, taken.value) /\ Len(done') = Len(done) + 1
      BY <1>0, <1>5, <2>2, AppendExtends DEF PublishResult, Done!Put
    <3>2. QED
      BY ZenonT(40), <1>0, <2>1, <2>2, <3>1, RestOfAppend DEF Ungiven
  <2>4. Running # NoTask /\ Phase # "closed"
    BY <1>0, <1>5, <2>2, TasksAssumption, Phases DEF PublishResult, WorkerGoTo
  <2>5. Pipeline!Finish
    BY <1>2, <2>1, <2>2, <2>3, <2>4 DEF Pipeline!Finish, ToRun, Ungiven, Phase
  <2>6. QED
    BY <2>5 DEF Pipeline!Next
<1>6. ASSUME NEW c \in Clients, PopFinished(c) PROVE Pipeline!Give(c)
  <2>1. /\ UNCHANGED <<todo, todoLeft, done, Running, Phase>>
        /\ doneLeft + 1 \in 1..Len(done) /\ doneLeft' = doneLeft + 1
        /\ handed' = [to |-> c, value |-> done[doneLeft + 1]]
    BY <1>0, <1>6 DEF PopFinished, Done!Take, Done!Return, todoVars, workerVars, Phase
  <2>2. Ungiven # <<>> /\ Head(Ungiven) = done[doneLeft + 1] /\ Ungiven' = Tail(Ungiven)
    <3>1. doneLeft \in Nat /\ Len(done) \in doneLeft + 1..Len(done)
      BY <1>0, <2>1
    <3>2. QED
      BY <1>0, <2>1, <3>1, FrontOfRest DEF Ungiven
  <2>3. Phase = "open"
    BY <1>0, <1>6, Phases DEF PopFinished, ClientsAtRest
  <2>4. QED
    BY <1>2, <2>1, <2>2, <2>3 DEF Pipeline!Give, ToRun, Ungiven, Phase
<1>7. ASSUME NEW c \in Clients, Destroy(c) PROVE Pipeline!Close
  <2>1. /\ UNCHANGED <<todo, Running, Ungiven, handed>>
        /\ todoLeft' = Len(todo)
        /\ Phase = "open" /\ Phase' = "closing"
    BY <1>7, Phases DEF Destroy, ToDo!Clear, Ungiven, doneVars, workerVars
  <2>2. Sentinels = {} /\ Sentinels' = Sentinels
    BY <1>0, <1>7, <2>1 DEF Destroy, SentinelEndsLoop, Sentinels, Joined
  <2>3. LastToRun' = Len(todo)
    BY <2>1, <2>2 DEF LastToRun
  <2>4. ToRun' = <<>>
    BY <1>0, <2>1, <2>3, SubSeqEmpty DEF ToRun
  <2>5. QED
    BY <2>1, <2>4 DEF Pipeline!Close, ToRun, Ungiven, Phase
<1>8. ASSUME NEW c \in Clients, PushSentinel(c) PROVE UNCHANGED Pipeline!vars
  <2>1. Sentinels = {}
    BY <1>0, <1>8 DEF SentinelEndsLoop, PushSentinel, Joined
  <2>2. ToRun' = ToRun
    BY <1>8, <2>1, PushingSentinelIsInvisible DEF PushSentinel
  <2>3. UNCHANGED <<Running, Ungiven, handed, Phase>>
    BY <1>8, Phases DEF PushSentinel, ToDo!Put, Ungiven, doneVars, workerVars
  <2>4. QED
    BY <1>1, <2>2, <2>3
<1>9. ASSUME NEW c \in Clients, Join(c) PROVE Pipeline!Closed
  <2>1. /\ UNCHANGED <<todo, todoLeft, Running, Ungiven, handed>>
        /\ Phase = "closing" /\ Phase' = "closed" /\ Running = NoTask
    BY <1>9, Phases, EndSteps DEF EndStep, Joined, Ungiven, Join, DestructorGoesTo
  <2>2. ToRun = <<>>
    BY <1>9, NothingRunsAfterExit DEF Join
  <2>3. QED
    BY <1>2, <2>1, <2>2 DEF Pipeline!Closed, ToRun, Ungiven, Phase
<1>10. CASE \/ BeginTask \/ RunTask \/ TaskThrows \/ TaskReady \/ EndTask \/ DeleteTask
  BY <1>1, <1>2, <1>10 DEF BeginTask, RunTask, TaskThrows, TaskReady, EndTask, DeleteTask, WorkerGoTo,
     todoVars, doneVars, Ungiven, Phase
<1>11. CASE Constructed
  BY <1>1, <1>2, <1>11, Phases DEF Constructed, todoVars, doneVars, Ungiven
<1>12. ASSUME NEW c \in Clients,
              \/ \E n \in Limits : Poll(c, n)
              \/ InvokeNext(c) \/ PollAgain(c) \/ PollStop(c) \/ PollReturn(c)
              \/ CallbackReturns(c) \/ CallbackThrows(c)
       PROVE  UNCHANGED Pipeline!vars
  BY <1>1, <1>2, <1>12 DEF Poll, InvokeNext, PollAgain, PollStop, PollReturn, CallbackReturns, CallbackThrows,
     todoVars, doneVars, workerVars, Ungiven, Phase
<1>13. CASE UNCHANGED vars
  BY <1>1, <1>2, <1>13 DEF vars, todoVars, doneVars, workerVars, Ungiven, Phase
<1>14. ASSUME NEW c \in Clients, EndStep(c), ~Join(c) PROVE UNCHANGED Pipeline!vars
  <2>1. life \in Joined /\ life' \in Joined
    BY <1>14, EndSteps DEF Joined, Join, EndStep, DestroyResults, DestroyTasks, ScheduleIntoDestroyed,
       DestructorGoesTo
  <2>2. UNCHANGED <<ToRun, Running, Ungiven, handed, Phase>>
    BY <1>2, <1>14, <2>1, EndSteps, Phases DEF Ungiven
  <2>3. QED
    BY <1>1, <2>2
<1>15. QED
  BY <1>3, <1>4, <1>5, <1>6, <1>7, <1>8, <1>9, <1>10, <1>11, <1>12, <1>13, <1>14
  DEF Next, WorkerStep, ClientStep, EndStep, Pipeline!Next

\* AsyncTaskRunner implements the pipeline: tasks run one at a time and in order,
\* their results are handed out in that order, once each, and what waits when the
\* destructor begins is dropped.
THEOREM AsyncTaskRunnerIsPipeline == Spec => ImplementsPipeline
<1>1. Init => Pipeline!Init
  <2> SUFFICES ASSUME Init PROVE Pipeline!Init
    OBVIOUS
  <2>1. /\ todo = <<>> /\ todoLeft = 0 /\ done = <<>> /\ doneLeft = 0
        /\ worker = "pop" /\ handed = [to |-> Worker, value |-> NoTask]
        /\ life = "constructing"
    BY DEF Init, ToDo!Init, Done!Init
  <2>2. Sentinels = {}
    BY <2>1 DEF Sentinels
  <2>3. LastToRun = 0
    BY <2>1, <2>2 DEF LastToRun
  <2>4. ToRun = <<>> /\ Ungiven = <<>> /\ Phase = "open" /\ Running = NoTask
    BY <2>1, <2>3, SubSeqEmpty, Phases DEF ToRun, Ungiven, Running
  <2>5. QED
    BY <2>1, <2>4 DEF Pipeline!Init, ToRun, Ungiven, Phase, Running
<1>2. QED
  BY <1>1, InitInv, NextInv, StepImplementsPipeline, PTL DEF Spec, ImplementsPipeline, Pipeline!Spec

-----------------------------------------------------------------------------
\* None of the waits inside the runner is for ever.

\* The worker can make a step: there is something to take, and the result it is
\* about to publish is not there yet.
WorkerMoves ==
  /\ worker \notin {"exited", "terminated"}
  /\ worker = "pop" => todoLeft < Len(todo)
  /\ worker = "publish" => taken.value \notin Finished

\* The destructor can: the sentinel has not been pushed, or the worker has left.
DestructorMoves(c) ==
  /\ client[c] = "destroying"
  /\ \/ life = "cleared" /\ \A i \in 1..Len(todo) : todo[i] # Sentinel
     \/ life \in {"poisoned", "joined", "emptied"} /\ worker = "exited"

DestructorGoesOn ==
  /\ life \in {"cleared", "joined", "emptied"} => \E c \in Clients : DestructorMoves(c)
  /\ life = "poisoned" =>
       worker = "terminated" \/ WorkerMoves \/ \E c \in Clients : DestructorMoves(c)

\* The steps of the worker until it asks for the next task, and until it has done
\* all that with what is at this place of the queue.
WorkerPlace ==
  IF worker = "begin" THEN 6
  ELSE IF worker = "run" THEN 5
  ELSE IF worker = "publish" THEN 4
  ELSE IF worker = "notify" THEN 3
  ELSE IF worker = "end" THEN 2
  ELSE IF worker = "delete" THEN 1
  ELSE 0
StepsUntil(place) == 7 * (place - todoLeft) + WorkerPlace

WorkerComesNearer ==
  \A place \in todoLeft..Len(todo) :
    /\ place > 0 => todo'[place] = todo[place]
    /\ place >= todoLeft' =>
         /\ StepsUntil(place) \in Nat /\ StepsUntil(place)' \in Nat
         /\ StepsUntil(place)' <= StepsUntil(place)
         /\ WorkerStep => StepsUntil(place)' < StepsUntil(place)

\* The steps of a client until its poll returns.
PollPlace(c) ==
  IF client[c] = "poll" THEN 3
  ELSE IF client[c] = "pop" THEN 2
  ELSE IF client[c] = "callback" THEN 1
  ELSE 0
PollSteps(c) == 4 * updates[c] + PollPlace(c)

PollComesNearer ==
  \A c \in polling : c \in polling' =>
    /\ PollSteps(c) \in Nat /\ PollSteps(c)' \in Nat
    /\ PollSteps(c)' <= PollSteps(c)
    /\ ClientStep(c) => PollSteps(c)' < PollSteps(c)

\* When the destructor has begun, it is on some client's thread, the sentinel is
\* there as soon as it has pushed it, and what runs has not been finished.
DestructorIsThere ==
  /\ life \in {"cleared", "poisoned", "joined", "emptied"} =>
       \E c \in Clients : client[c] = "destroying"
  /\ life = "poisoned" => Sentinels # {}
  /\ InHand \cap Finished = {}

\* A task comes into the worker's hand when it leaves the queue, before which it
\* has never been there.
LEMMA InHandIsNew ==
  ASSUME Inv, InHand \cap Finished = {}, [Next]_vars
  PROVE  (InHand \cap Finished = {})'
<1>0. /\ NoneTwice /\ Launched \subseteq Popped
      /\ todo \in Seq(Tasks \cup {Sentinel}) /\ Len(todo) \in Nat /\ todoLeft \in 0..Len(todo)
      /\ done \in Seq(Tasks) /\ Len(done) \in Nat
  BY LenProperties DEF Inv, TypeOK, LaunchedInOrder
<1>1. CASE PopTask
  <2>1. /\ todoLeft + 1 \in 1..Len(todo) /\ taken'.value = todo[todoLeft + 1]
        /\ Finished' = Finished
    BY <1>0, <1>1 DEF PopTask, ToDo!Take, ToDo!Return, doneVars, Finished
  <2>2. todo[todoLeft + 1] \notin Popped
    BY <1>0, <2>1 DEF NoneTwice, Popped
  <2>3. QED
    BY <1>0, <2>1, <2>2 DEF InHand, Launched
<1>2. CASE PublishResult
  BY <1>2 DEF PublishResult, WorkerGoTo, InHand
<1>3. ASSUME UNCHANGED <<done, taken>>,
             worker' \in {"begin", "run", "publish", "terminated"} =>
               worker \in {"begin", "run", "publish", "terminated"}
      PROVE  (InHand \cap Finished = {})'
  BY <1>3 DEF InHand, Finished
<1>4. CASE \/ UNCHANGED vars \/ Constructed \/ BeginTask \/ RunTask \/ TaskThrows
           \/ TaskReady \/ EndTask \/ DeleteTask
  BY <1>3, <1>4 DEF vars, Constructed, BeginTask, RunTask, TaskThrows, TaskReady, EndTask, DeleteTask,
     WorkerGoTo, todoVars, doneVars, workerVars
<1>5. ASSUME NEW x \in Tasks, ScheduleTask(x) PROVE (InHand \cap Finished = {})'
  BY <1>3, <1>5 DEF ScheduleTask, ToDo!Put, doneVars, workerVars
<1>6. ASSUME NEW c \in Clients,
             \/ \E n \in Limits : Poll(c, n)
             \/ InvokeNext(c) \/ PollAgain(c) \/ PollStop(c) \/ PollReturn(c) \/ PopFinished(c)
             \/ CallbackReturns(c) \/ CallbackThrows(c)
      PROVE  (InHand \cap Finished = {})'
  BY <1>3, <1>6 DEF Poll, InvokeNext, PollAgain, PollStop, PollReturn, PopFinished, Done!Take,
     CallbackReturns, CallbackThrows, todoVars, doneVars, workerVars
<1>7. ASSUME NEW c \in Clients, Destroy(c) \/ PushSentinel(c) PROVE (InHand \cap Finished = {})'
  BY <1>3, <1>7 DEF Destroy, PushSentinel, ToDo!Clear, ToDo!Put, doneVars, workerVars
<1>8. ASSUME NEW c \in Clients, EndStep(c) PROVE (InHand \cap Finished = {})'
  BY <1>3, <1>8, EndSteps
<1>9. QED
  BY <1>1, <1>2, <1>4, <1>5, <1>6, <1>7, <1>8 DEF Next, WorkerStep, ClientStep, EndStep

LEMMA DestructorIsTherePreserved ==
  ASSUME Inv, DestructorIsThere, [Next]_vars
  PROVE  DestructorIsThere'
<1> DEFINE Destroying(p, l, s) ==
             /\ l \in {"cleared", "poisoned", "joined", "emptied"} => \E c \in Clients : p[c] = "destroying"
             /\ l = "poisoned" => s # {}
<1>0. /\ ClientsAtRest /\ Destroying(client, life, Sentinels)
      /\ client \in [Clients -> {"idle", "poll", "result", "pop", "callback", "destroying"}]
      /\ todo \in Seq(Tasks \cup {Sentinel}) /\ Len(todo) \in Nat
      /\ DOMAIN todo = 1..Len(todo)
  BY LenProperties DEF Inv, TypeOK, DestructorIsThere
<1>1. Sentinels \subseteq Sentinels'
  <2>1. ASSUME NEW x \in Tasks \cup {Sentinel}, ToDo!Put(x) PROVE Sentinels \subseteq Sentinels'
    <3>1. todo' = Append(todo, x)
      BY <2>1 DEF ToDo!Put
    <3>2. DOMAIN todo' = 1..Len(todo) + 1 /\ \A i \in 1..Len(todo) : todo'[i] = todo[i]
      BY <1>0, <3>1, AppendExtends
    <3>3. QED
      BY <1>0, <3>2 DEF Sentinels
  <2>2. CASE todo' = todo
    BY <2>2 DEF Sentinels
  <2>3. QED
    BY <2>1, <2>2, ToDoSteps DEF PopTask, ToDo!Take, Destroy, ToDo!Clear
<1>2. ASSUME UNCHANGED <<client, life>> PROVE Destroying(client', life', Sentinels')
  BY <1>0, <1>1, <1>2
<1>3. ASSUME UNCHANGED vars \/ WorkerStep \/ TaskThrows \/ \E x \in Tasks : ScheduleTask(x)
      PROVE  Destroying(client', life', Sentinels')
  BY <1>2, <1>3 DEF vars, WorkerStep, PopTask, BeginTask, RunTask, TaskThrows, PublishResult, TaskReady,
     EndTask, DeleteTask, ScheduleTask, clientVars
<1>4. ASSUME Constructed PROVE Destroying(client', life', Sentinels')
  BY <1>4 DEF Constructed
<1>5. ASSUME NEW c \in Clients,
             \/ \E n \in Limits : Poll(c, n)
             \/ InvokeNext(c) \/ PollAgain(c) \/ PollStop(c) \/ PollReturn(c) \/ PopFinished(c)
             \/ CallbackReturns(c) \/ CallbackThrows(c)
      PROVE  Destroying(client', life', Sentinels')
  <2>1. life' = life /\ client[c] \notin {"destroying"}
    BY <1>5 DEF Poll, InvokeNext, PollAgain, PollStop, PollReturn, PopFinished, CallbackReturns, CallbackThrows
  <2>2. \A d \in Clients \ {c} : client'[d] = client[d]
    BY <1>0, <1>5 DEF Poll, InvokeNext, PollAgain, PollStop, PollReturn, PopFinished, CallbackReturns,
       CallbackThrows, ClientGoTo
  <2>3. QED
    BY <1>0, <1>1, <2>1, <2>2
<1>6. ASSUME NEW c \in Clients, Destroy(c) PROVE Destroying(client', life', Sentinels')
  <2>1. life' = "cleared" /\ client'[c] = "destroying"
    BY <1>0, <1>6 DEF Destroy, ClientGoTo
  <2>2. QED
    BY <2>1
<1>7. ASSUME NEW c \in Clients, PushSentinel(c) PROVE Destroying(client', life', Sentinels')
  <2>1. todo' = Append(todo, Sentinel) /\ client' = client /\ client[c] = "destroying"
    BY <1>7 DEF PushSentinel, ToDo!Put, clientVars
  <2>2. DOMAIN todo' = 1..Len(todo) + 1 /\ todo'[Len(todo) + 1] = Sentinel
    BY <1>0, <2>1, AppendExtends
  <2>3. Len(todo) + 1 \in Sentinels'
    BY <1>0, <2>2 DEF Sentinels
  <2>4. QED
    BY <2>1, <2>3
<1>8. ASSUME NEW c \in Clients, EndStep(c) PROVE Destroying(client', life', Sentinels')
  <2>1. client[c] = "destroying" /\ life' # "poisoned" /\ (client' = client \/ life' = "destroyed")
    BY <1>8, EndSteps
  <2>2. QED
    BY <2>1
<1> HIDE DEF Destroying
<1>9. Destroying(client', life', Sentinels')
  BY <1>3, <1>4, <1>5, <1>6, <1>7, <1>8 DEF Next, ClientStep, EndStep
<1>10. QED
  BY <1>9, InHandIsNew DEF DestructorIsThere, Destroying

\* The queue of tasks is not empty as long as the sentinel is in it.
LEMMA DestructorIsNotStuck ==
  ASSUME Inv, DestructorIsThere
  PROVE  DestructorGoesOn
<1>0. /\ SentinelEndsLoop /\ Len(todo) \in Nat /\ todoLeft \in 0..Len(todo)
      /\ worker \in {"pop", "begin", "run", "publish", "notify", "end", "delete", "exited", "terminated"}
      /\ DOMAIN todo = 1..Len(todo)
  BY LenProperties DEF Inv, TypeOK
<1>1. CASE life = "cleared"
  <2>1. Sentinels = {}
    BY <1>0, <1>1 DEF SentinelEndsLoop, Joined
  <2>2. QED
    BY <1>0, <1>1, <2>1 DEF DestructorIsThere, DestructorGoesOn, DestructorMoves, Sentinels
<1>2. CASE life = "poisoned"
  <2>1. CASE worker = "exited"
    BY <1>2, <2>1 DEF DestructorIsThere, DestructorGoesOn, DestructorMoves
  <2>2. CASE worker # "exited"
    <3>1. PICK i \in Sentinels : i > todoLeft /\ i \in 1..Len(todo)
      BY <1>0, <1>2, <2>2 DEF DestructorIsThere, SentinelEndsLoop, Sentinels
    <3>2. todoLeft < Len(todo)
      BY <1>0, <3>1
    <3>3. worker = "publish" => taken.value \notin Finished
      BY DEF DestructorIsThere, InHand
    <3>4. QED
      BY <1>0, <1>2, <2>2, <3>2, <3>3 DEF DestructorGoesOn, WorkerMoves
  <2>3. QED
    BY <2>1, <2>2
<1>3. CASE life \in {"joined", "emptied"}
  <2>1. worker = "exited"
    BY <1>3 DEF Inv, ClientsAtRest, Joined
  <2>2. QED
    BY <1>3, <2>1 DEF DestructorIsThere, DestructorGoesOn, DestructorMoves
<1>4. QED
  BY <1>1, <1>2, <1>3 DEF DestructorGoesOn

\* From when the destructor has begun until it returns, the thread that destroys
\* the runner or the worker can go on, unless a task has thrown: the join waits
\* for a worker that has the sentinel before it, never for one that sleeps.
THEOREM DestructorIsNeverStuck == Spec => []DestructorGoesOn
<1>1. Init => DestructorIsThere
  BY DEF Init, DestructorIsThere, InHand
<1>2. QED
  BY <1>1, InitInv, NextInv, DestructorIsTherePreserved, DestructorIsNotStuck, PTL DEF Spec

-----------------------------------------------------------------------------
\* Nothing overtakes what is in the queue, and each step of the worker brings it
\* nearer, whatever is scheduled meanwhile.
LEMMA StepsBringNearer ==
  ASSUME Inv, [Next]_vars
  PROVE  WorkerComesNearer
<1>0. /\ todo \in Seq(Tasks \cup {Sentinel}) /\ Len(todo) \in Nat /\ todoLeft \in 0..Len(todo)
  BY LenProperties DEF Inv, TypeOK
<1>1. WorkerPlace \in 0..6 /\ WorkerPlace' \in 0..6
  BY DEF WorkerPlace
<1>2. SUFFICES ASSUME NEW place \in todoLeft..Len(todo)
               PROVE  /\ place > 0 => todo'[place] = todo[place]
                      /\ place >= todoLeft' =>
                           /\ StepsUntil(place) \in Nat /\ StepsUntil(place)' \in Nat
                           /\ StepsUntil(place)' <= StepsUntil(place)
                           /\ WorkerStep => StepsUntil(place)' < StepsUntil(place)
  BY DEF WorkerComesNearer
<1>3. /\ todoLeft' \in Nat /\ todoLeft' >= todoLeft
      /\ place > 0 => todo'[place] = todo[place]
  <2>1. ASSUME NEW x \in Tasks \cup {Sentinel}, ToDo!Put(x)
        PROVE  todoLeft' = todoLeft /\ (place > 0 => todo'[place] = todo[place])
    <3>1. todo' = Append(todo, x) /\ todoLeft' = todoLeft
      BY <2>1 DEF ToDo!Put
    <3>2. \A i \in 1..Len(todo) : todo'[i] = todo[i]
      BY <1>0, <3>1, AppendExtends
    <3>3. QED
      BY <1>0, <3>1, <3>2
  <2>2. CASE PopTask
    BY <1>0, <2>2 DEF PopTask, ToDo!Take
  <2>3. ASSUME NEW c \in Clients, Destroy(c) PROVE todo' = todo /\ todoLeft' = Len(todo)
    BY <2>3 DEF Destroy, ToDo!Clear
  <2>4. QED
    BY <1>0, <2>1, <2>2, <2>3, ToDoSteps
<1>4. \/ PopTask /\ todoLeft' = todoLeft + 1 /\ WorkerPlace = 0 /\ WorkerPlace' <= 6
      \/ ~PopTask /\ WorkerStep /\ WorkerPlace' < WorkerPlace
      \/ ~WorkerStep /\ WorkerPlace' <= WorkerPlace
  <2>1. CASE PopTask
    BY <1>1, <2>1 DEF PopTask, ToDo!Take, WorkerGoTo, WorkerPlace
  <2>2. CASE ~PopTask /\ WorkerStep
    BY <2>2 DEF WorkerStep, BeginTask, RunTask, PublishResult, TaskReady, EndTask, DeleteTask, WorkerGoTo,
       WorkerPlace
  <2>3. CASE ~WorkerStep
    <3>1. CASE TaskThrows
      BY <2>3, <3>1 DEF TaskThrows, WorkerGoTo, WorkerPlace
    <3>2. CASE worker' = worker
      BY <2>3, <3>2 DEF WorkerPlace
    <3>3. TaskThrows \/ worker' = worker
      <4>1. ASSUME NEW c \in Clients, EndStep(c) PROVE worker' = worker
        BY <4>1, EndSteps
      <4>2. QED
        BY <2>3, <4>1 DEF Next, ClientStep, EndStep, Constructed, ScheduleTask, Poll, PollAgain, PollStop,
           PollReturn, InvokeNext, PopFinished, CallbackReturns, CallbackThrows, Destroy, PushSentinel,
           vars, workerVars
    <3>4. QED
      BY <2>3, <3>1, <3>2, <3>3
  <2>4. QED
    BY <2>1, <2>2, <2>3
<1>5. PopTask => WorkerStep
  BY DEF WorkerStep
<1> DEFINE l == todoLeft
           l1 == todoLeft'
           w == WorkerPlace
           w1 == WorkerPlace'
           s == StepsUntil(place)
           s1 == StepsUntil(place)'
<1>6. s = 7 * (place - l) + w /\ s1 = 7 * (place - l1) + w1
  BY DEF StepsUntil
<1>7. /\ place \in Nat /\ place >= l /\ l \in Nat /\ l1 \in Nat /\ l1 >= l
      /\ w \in 0..6 /\ w1 \in 0..6
  BY <1>0, <1>1, <1>3
<1>8. \/ WorkerStep /\ l1 = l + 1 /\ w = 0 /\ w1 <= 6
      \/ WorkerStep /\ w1 < w
      \/ ~WorkerStep /\ w1 <= w
  BY <1>4, <1>5
<1> HIDE DEF l, l1, w, w1, s, s1
<1>9. place >= l1 => s \in Nat /\ s1 \in Nat /\ s1 <= s /\ (WorkerStep => s1 < s)
  BY <1>6, <1>7, <1>8
<1>10. QED
  BY <1>3, <1>9 DEF l1, s, s1

\* What waits in the queue, a task or the sentinel that the destructor waits for,
\* has a number of steps before it that no other step increases and every step of
\* the worker makes smaller, until the worker takes it, has run it and is back, or
\* the queue is cleared.
THEOREM EveryStepOfTheWorkerCounts == Spec => [][WorkerComesNearer]_vars
  BY InitInv, NextInv, StepsBringNearer, PTL DEF Spec

\* However fast the tasks finish, a poll has a number of steps before it that no
\* other thread increases and each step of its own makes smaller.
THEOREM EveryStepOfAPollCounts == Spec => [][PollComesNearer]_vars
<1>1. ASSUME Inv, Inv', [Next]_vars PROVE PollComesNearer
  <2> SUFFICES ASSUME NEW c \in polling, c \in polling'
               PROVE  /\ PollSteps(c) \in Nat /\ PollSteps(c)' \in Nat
                      /\ PollSteps(c)' <= PollSteps(c)
                      /\ ClientStep(c) => PollSteps(c)' < PollSteps(c)
    BY DEF PollComesNearer
  <2> DEFINE u == updates[c]
             u1 == updates'[c]
             place == PollPlace(c)
             place1 == PollPlace(c)'
  <2>0. /\ c \in Clients /\ client \in [Clients -> {"idle", "poll", "result", "pop", "callback", "destroying"}]
        /\ updates \in [Clients -> Nat] /\ updates' \in [Clients -> Nat]
        /\ client[c] \in {"poll", "result", "pop", "callback"}
    BY <1>1 DEF Inv, TypeOK, PollingPlaces
  <2>1. u \in Nat /\ u1 \in Nat /\ place \in 0..3 /\ place1 \in 0..3
    BY <2>0 DEF PollPlace
  <2>2. ASSUME ClientStep(c)
        PROVE  (u1 = u /\ place1 < place) \/ (u1 = u - 1 /\ place1 = 3)
    <3>1. CASE PollAgain(c) \/ PollStop(c) \/ PopFinished(c)
      BY <2>0, <3>1 DEF PollAgain, PollStop, PopFinished, ClientGoTo, PollPlace
    <3>2. CASE CallbackReturns(c)
      BY <2>0, <3>2 DEF CallbackReturns, ClientGoTo, PollPlace
    <3>3. ~(PollReturn(c) \/ PushSentinel(c) \/ EndStep(c))
      BY <2>0, EndSteps DEF PollReturn, PushSentinel
    <3>4. QED
      BY <2>2, <3>1, <3>2, <3>3 DEF ClientStep, EndStep
  <2>3. ASSUME ~ClientStep(c)
        PROVE  u1 = u /\ place1 = place
    <3>1. ~(\/ CallbackThrows(c) \/ InvokeNext(c) \/ Destroy(c) \/ EndStep(c)
           \/ \E n \in Limits : Poll(c, n))
      BY <2>0, EndSteps DEF CallbackThrows, InvokeNext, Destroy, Poll
    <3>2. ASSUME NEW d \in Clients, d # c,
                 \/ \E n \in Limits : Poll(d, n)
                 \/ InvokeNext(d) \/ ClientStep(d) \/ CallbackThrows(d) \/ Destroy(d) \/ EndStep(d)
          PROVE  client'[c] = client[c] /\ updates'[c] = updates[c]
      <4>1. CASE EndStep(d)
        BY <2>0, <3>2, <4>1, EndSteps DEF ClientGoTo
      <4>2. QED
        BY <2>0, <3>2, <4>1 DEF ClientStep, EndStep, Poll, InvokeNext, PollAgain, PollStop, PollReturn,
           PopFinished, CallbackReturns, CallbackThrows, Destroy, PushSentinel, ClientGoTo, clientVars
    <3>3. ASSUME \/ UNCHANGED vars \/ Constructed \/ WorkerStep \/ TaskThrows
                 \/ \E x \in Tasks : ScheduleTask(x)
          PROVE  client'[c] = client[c] /\ updates'[c] = updates[c]
      <4>1. UNCHANGED clientVars
        BY <3>3 DEF vars, Constructed, WorkerStep, PopTask, BeginTask, RunTask, TaskThrows, PublishResult,
           TaskReady, EndTask, DeleteTask, ScheduleTask
      <4>2. QED
        BY <4>1 DEF clientVars
    <3>4. client'[c] = client[c] /\ updates'[c] = updates[c]
      BY <1>1, <2>3, <3>1, <3>2, <3>3 DEF Next, EndStep
    <3>5. QED
      BY <3>4 DEF PollPlace
  <2>4. PollSteps(c) = 4 * u + place /\ PollSteps(c)' = 4 * u1 + place1
    BY DEF PollSteps
  <2> HIDE DEF u, u1, place, place1
  <2>5. QED
    BY <2>1, <2>2, <2>3, <2>4
<1>2. QED
  BY <1>1, InitInv, NextInv, PTL DEF Spec

=============================================================================
