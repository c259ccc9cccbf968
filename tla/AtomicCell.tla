----------------------------- MODULE AtomicCell -----------------------------
(***************************************************************************)
(* What AtomicData promises its callers, with no mutex, no condition       *)
(* variable and no intermediate step: a use of the data happens at one     *)
(* instant, under the predicate the caller gave, and while a thread has a  *)
(* ScopedLock nobody uses the data at all.                                 *)
(***************************************************************************)
CONSTANTS Threads, Values, Predicates,
          Nobody    \* the holder of a cell that is not locked

VARIABLES cell,     \* the data
          holder,   \* the thread that has a ScopedLock
          out       \* the last use: by whom, under which predicate, of what

vars == <<cell, holder, out>>

\* A predicate is the set of the values for which it is true.
Report(t, p, v) == out' = [by |-> t, under |-> p, old |-> cell, new |-> v]

Init ==
  /\ cell \in Values
  /\ holder = Nobody
  /\ out = [by |-> Nobody, under |-> Values, old |-> cell, new |-> cell]

\* The caller's function sees a value its predicate allows, and leaves another.
Use(t, p, v) ==
  /\ holder = Nobody
  /\ cell \in p
  /\ cell' = v
  /\ Report(t, p, v)
  /\ UNCHANGED holder

\* A timed wait gives up, only with a predicate that is false at that moment.
GiveUp(t, p) ==
  /\ holder = Nobody
  /\ cell \notin p
  /\ Report(t, p, cell)
  /\ UNCHANGED <<cell, holder>>

Hold(t) ==
  /\ holder = Nobody
  /\ holder' = t
  /\ UNCHANGED <<cell, out>>

Release(t) ==
  /\ holder = t
  /\ holder' = Nobody
  /\ UNCHANGED <<cell, out>>

Next ==
  \E t \in Threads :
    \/ \E p \in Predicates, v \in Values : Use(t, p, v)
    \/ \E p \in Predicates : GiveUp(t, p)
    \/ Hold(t) \/ Release(t)

Spec == Init /\ [][Next]_vars

=============================================================================
