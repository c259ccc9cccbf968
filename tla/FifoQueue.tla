------------------------------ MODULE FifoQueue ------------------------------
(***************************************************************************)
(* What BlockingQueue promises its callers, with no mutex, no condition    *)
(* variable and no intermediate step: every call takes effect at one       *)
(* instant, items leave in the order in which they arrived, and no item    *)
(* leaves twice.  The queue is a log of arrivals and the number of items   *)
(* that have left it.                                                      *)
(***************************************************************************)
EXTENDS Naturals, Sequences

CONSTANTS Threads, Items,
          Nobody,   \* to whom nothing has been returned yet
          NoItem    \* what a pop that delivers nothing returns (std::nullopt)

VARIABLES log,      \* every item that ever entered, in order of arrival
          left,     \* how many of them have left again
          out       \* the last value returned to a caller, and to whom

vars == <<log, left, out>>

Arrived == {log[i] : i \in 1..Len(log)}

Return(t, v) == out' = [to |-> t, value |-> v]

Init ==
  /\ log = <<>>
  /\ left = 0
  /\ out = [to |-> Nobody, value |-> NoItem]

\* push_back and emplace_back: items are labels of calls, so none comes twice.
Put(x) ==
  /\ x \notin Arrived
  /\ log' = Append(log, x)
  /\ UNCHANGED <<left, out>>

\* pop_front delivers the oldest item present.
Take(t) ==
  /\ left < Len(log)
  /\ Return(t, log[left + 1])
  /\ left' = left + 1
  /\ UNCHANGED log

\* pop_front with a timeout gives up, only if there is nothing to deliver.
GiveUp(t) ==
  /\ left = Len(log)
  /\ Return(t, NoItem)
  /\ UNCHANGED <<log, left>>

\* clear removes everything present at one instant.
Clear ==
  /\ left' = Len(log)
  /\ UNCHANGED <<log, out>>

\* size (and empty, whether it is 0).
Size(t) ==
  /\ Return(t, Len(log) - left)
  /\ UNCHANGED <<log, left>>

Next ==
  \/ \E x \in Items : Put(x)
  \/ \E t \in Threads : Take(t) \/ GiveUp(t) \/ Size(t)
  \/ Clear

Spec == Init /\ [][Next]_vars

=============================================================================
