------------------------- MODULE MCBlockingQueueLive -------------------------
(***************************************************************************)
(* BlockingQueue under fairness.  Every thread inside a member function is *)
(* scheduled again and again, but the mutex owes it nothing: that no       *)
(* waiter starves comes from the threads making a bounded number of calls. *)
(***************************************************************************)
EXTENDS BlockingQueue

CONSTANT MaxCalls \* how many member functions the threads call together

VARIABLE calls \* how many they have called

LiveInit == Init /\ calls = 0

LiveCall(t) ==
  /\ calls < MaxCalls
  /\ Call(t)
  /\ calls' = calls + 1

LiveStep(t) == Step(t) /\ UNCHANGED calls

LiveNext ==
  \E t \in Threads :
    \/ LiveCall(t) \/ LiveStep(t)
    \/ Destructor(t) /\ UNCHANGED calls

LiveSpec ==
  /\ LiveInit
  /\ [][LiveNext]_<<vars, calls>>
  /\ \A t \in Threads : WF_<<vars, calls>>(LiveStep(t))

\* No consumer is left asleep in pop_front for good beside an item.
ConsumersServed ==
  \A t \in Threads : []<>(op[t] # "pop" \/ queue = <<>>)

\* Every other call ends, whatever the other threads do: only the pop_front
\* without a timeout may block for good.
CallsReturn ==
  \A t \in Threads : op[t] \notin {"none", "pop"} ~> op[t] = "none"

=============================================================================
