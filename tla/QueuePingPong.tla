---------------------------- MODULE QueuePingPong ----------------------------
(***************************************************************************)
(* The way the test interleaved_data uses two BlockingQueues as the only   *)
(* synchronization between two threads: Main sends the even numbers        *)
(* through even_bq and gets the odd ones back through odds_bq, and what a  *)
(* thread has got it appends to shared_data, which nothing else protects.  *)
(* The variables of BlockingQueue are those of even_bq.                    *)
(***************************************************************************)
EXTENDS BlockingQueue

CONSTANTS Main, Second,  \* the two threads: Threads is {Main, Second}
          MaxNumber      \* where the loops end, 10 in the test

VARIABLES oddOwner, oddSleeping, oddWoken, oddQueue, oddPc, oddOp, oddItem,
          oddTrash, oddOut, oddLog, oddNotified,
          todo,       \* what each thread does between its calls
          i,          \* the counter of each loop
          sharedData  \* shared_data

Odds == INSTANCE BlockingQueue WITH
  owner <- oddOwner, sleeping <- oddSleeping, woken <- oddWoken,
  queue <- oddQueue, pc <- oddPc, op <- oddOp, item <- oddItem,
  trash <- oddTrash, out <- oddOut, log <- oddLog, notified <- oddNotified

oddVars == <<oddOwner, oddSleeping, oddWoken, oddQueue, oddPc, oddOp, oddItem,
             oddTrash, oddOut, oddLog, oddNotified>>
testVars == <<todo, i, sharedData>>

PingPongInit ==
  /\ Init /\ Odds!Init
  /\ todo = [t \in Threads |-> IF t = Main THEN "push" ELSE "pop"]
  /\ i = [t \in Threads |-> IF t = Main THEN 0 ELSE 1]
  /\ sharedData = <<>>

Then(t, s) == todo' = [todo EXCEPT ![t] = s]

\* The thread is outside all calls.
Runs(t) == pc[t] = "idle" /\ oddPc[t] = "idle"

\* The end of the body of the loop.
NextRound(t, s) ==
  /\ i' = [i EXCEPT ![t] = @ + 2]
  /\ Then(t, IF i[t] + 2 < MaxNumber THEN s ELSE "stop")

\* even_bq.push_back(i); odds_bq.push_back(i) ends the loop of the other thread.
PushBack(t) ==
  /\ todo[t] = "push" /\ Runs(t)
  /\ \/ t = Main /\ CallPush(t, i[t]) /\ Then(t, "pop") /\ UNCHANGED <<oddVars, i>>
     \/ t = Second /\ Odds!CallPush(t, i[t]) /\ NextRound(t, "pop") /\ UNCHANGED vars
  /\ UNCHANGED sharedData

\* odds_bq.pop_front(), even_bq.pop_front()
PopFront(t) ==
  /\ todo[t] = "pop" /\ Runs(t)
  /\ \/ t = Main /\ Odds!CallOther(t, "pop") /\ UNCHANGED vars
     \/ t = Second /\ CallOther(t, "pop") /\ UNCHANGED oddVars
  /\ Then(t, "append")
  /\ UNCHANGED <<i, sharedData>>

ToAdd(t) == IF t = Main THEN oddOut.value ELSE out.value

\* shared_data.emplace_back(to_add) takes its time.
BeginAppend(t) ==
  /\ todo[t] = "append" /\ Runs(t)
  /\ Then(t, "appending")
  /\ UNCHANGED <<vars, oddVars, i, sharedData>>

EndAppend(t) ==
  /\ todo[t] = "appending"
  /\ sharedData' = Append(sharedData, ToAdd(t))
  /\ IF t = Main THEN NextRound(t, "push") ELSE Then(t, "push") /\ UNCHANGED i
  /\ UNCHANGED <<vars, oddVars>>

Inside(t) ==
  /\ \/ Step(t) /\ UNCHANGED oddVars
     \/ Odds!Step(t) /\ UNCHANGED vars
  /\ UNCHANGED testVars

PingPongStep(t) ==
  PushBack(t) \/ PopFront(t) \/ BeginAppend(t) \/ EndAppend(t) \/ Inside(t)

-----------------------------------------------------------------------------
WritesInTurn ==
  /\ ~ \A t \in Threads : todo[t] = "appending"
  /\ \A n \in DOMAIN sharedData : sharedData[n] = n - 1

AllWritten ==
  /\ \A t \in Threads : todo[t] = "stop" /\ Runs(t)
  /\ Len(sharedData) = MaxNumber
  /\ queue = <<>> /\ oddQueue = <<>>

=============================================================================
