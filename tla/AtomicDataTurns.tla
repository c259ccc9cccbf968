--------------------------- MODULE AtomicDataTurns ---------------------------
(***************************************************************************)
(* The way two threads take turns on one AtomicData, as the test           *)
(* interleaved_atomic_data does: each waits until it is its turn, appends  *)
(* the current number, passes the turn on and, with the mutex released,    *)
(* calls notify_one.  The data is the current number, from 0 to one more   *)
(* than max_number; it is odd exactly when writing_odds is true.           *)
(***************************************************************************)
EXTENDS AtomicData, Naturals, Sequences

CONSTANTS Odd, Even,  \* the two threads
          MaxNumber   \* max_number, which is odd: who reaches it, stops

VARIABLES todo,   \* what each thread does between its calls
          allData \* who appended which number: all_data, odds and even in one

turnVars == <<todo, allData>>

TurnsInit ==
  /\ Init /\ data = 0
  /\ todo = [t \in Threads |-> "wait"]
  /\ allData = <<>>

Then(t, s) == todo' = [todo EXCEPT ![t] = s]

\* writing_odds, and its negation for the thread that writes the even numbers.
MyTurn(t) == {n \in Values : n % 2 = IF t = Odd THEN 1 ELSE 0}

\* Fault: the predicate is left out.
WaitForNothing(t) ==
  /\ todo[t] = "wait"
  /\ Call(t, "wait", Values)
  /\ UNCHANGED turnVars

WaitForTurn(t) ==
  /\ todo[t] = "wait"
  /\ Call(t, "wait", MyTurn(t))
  /\ UNCHANGED turnVars

\* The function appends the number, counts on, and decides whether to stop.
TakeTurn(t) ==
  /\ pc[t] = "func"
  /\ FuncEnds(t, seen[t] + 1)
  /\ allData' = Append(allData, <<t, seen[t]>>)
  /\ Then(t, IF seen[t] + 1 >= MaxNumber THEN "notify last" ELSE "notify")

Waiting(t) ==
  /\ \/ Guard(t) \/ Func(t) \/ PredicateFalse(t) \/ WakeUp(t)
  /\ UNCHANGED turnVars

\* Fault: the thread that has written its last number stops at once.
PassTurnUnlessLast(t) ==
  /\ todo[t] \in {"notify", "notify last"}
  /\ IF todo[t] = "notify" THEN Notify(t, NotifyOne)
                           ELSE pc[t] = "idle" /\ UNCHANGED vars
  /\ Then(t, IF todo[t] = "notify" THEN "wait" ELSE "stop")
  /\ UNCHANGED allData

PassTurn(t) ==
  /\ todo[t] \in {"notify", "notify last"}
  /\ Notify(t, NotifyOne)
  /\ Then(t, IF todo[t] = "notify" THEN "wait" ELSE "stop")
  /\ UNCHANGED allData

TurnsStep(t) == WaitForTurn(t) \/ Waiting(t) \/ TakeTurn(t) \/ PassTurn(t)

BothStopped == \A t \in Threads : todo[t] = "stop"

\* The numbers are written in order, each by the thread whose turn it was.
InOrder ==
  \A i \in DOMAIN allData : allData[i] = <<IF i % 2 = 1 THEN Even ELSE Odd, i - 1>>

\* One notification per turn, given after the mutex was released and perhaps
\* before the other thread went to sleep, is enough: both threads finish, with
\* every number written.
AllWritten == BothStopped /\ Len(allData) = MaxNumber + 1 /\ data = MaxNumber + 1

=============================================================================
