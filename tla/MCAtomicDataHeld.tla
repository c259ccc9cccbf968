-------------------------- MODULE MCAtomicDataHeld --------------------------
(***************************************************************************)
(* AtomicData under fairness, with ScopedLocks that may be kept for good.  *)
(* Every thread inside a member function is scheduled again and again and  *)
(* every function passed in returns.  The mutex owes a thread nothing, so  *)
(* the calls are bounded: nobody starves because others go on calling.     *)
(***************************************************************************)
EXTENDS AtomicData, Naturals

CONSTANT MaxCalls \* how many calls, notifications included, the threads make

VARIABLE calls \* how many they have made

AllPredicates == SUBSET Values

HoldInit == Init /\ calls = 0

HoldCall(t) ==
  /\ calls < MaxCalls
  /\ Calls(t) \/ Notifies(t)
  /\ calls' = calls + 1

HoldStep(t) == Step(t) /\ UNCHANGED calls

HoldNext ==
  \/ \E t \in Threads :
       HoldCall(t) \/ HoldStep(t) \/ (ReleaseLock(t) /\ UNCHANGED calls)
  \/ Destroy /\ UNCHANGED calls

\* The steps of a thread are fair, the release of a ScopedLock is not.
HoldSpec ==
  /\ HoldInit
  /\ [][HoldNext]_<<vars, calls>>
  /\ \A t \in Threads : WF_<<vars, calls>>(HoldStep(t))

\* "the maximum length of time this function will wait before returning": a
\* wait with a duration returns, though nobody notifies it or lets it pass.
TimedWaitReturns ==
  \A t \in Threads : op[t] = "wait_for" ~> op[t] = "none"

=============================================================================
