--------------------------- MODULE AtomicDataGate ---------------------------
(***************************************************************************)
(* The way one thread lets many pass, as the test atomic_data_notify_all   *)
(* does: every other thread waits for write_away and counts itself, the    *)
(* main thread sets write_away, calls notify_all with the mutex released   *)
(* and waits for the others to end.                                        *)
(***************************************************************************)
EXTENDS AtomicData, Naturals

CONSTANT Main \* the thread that opens the gate

VARIABLE todo \* what each thread does next, outside its calls

Others == Threads \ {Main}

GateInit ==
  /\ Init /\ data = [write_away |-> FALSE, num_threads |-> 0]
  /\ todo = [t \in Threads |-> IF t = Main THEN "open" ELSE "wait"]

Then(t, s) == todo' = [todo EXCEPT ![t] = s]

\* Fault: the gate is not looked at.
PassGate(t) ==
  /\ t \in Others /\ todo[t] = "wait"
  /\ Call(t, "use", Values)
  /\ Then(t, "count")

WaitForGate(t) ==
  /\ t \in Others /\ todo[t] = "wait"
  /\ Call(t, "wait", {v \in Values : v.write_away})
  /\ Then(t, "count")

CountItself(t) ==
  /\ todo[t] = "count"
  /\ FuncEnds(t, [seen[t] EXCEPT !.num_threads = @ + 1])
  /\ Then(t, "stop")

Open(t) ==
  /\ t = Main /\ todo[t] = "open"
  /\ Call(t, "use", Values)
  /\ Then(t, "opening")

Opened(t) ==
  /\ todo[t] = "opening"
  /\ FuncEnds(t, [seen[t] EXCEPT !.write_away = TRUE])
  /\ Then(t, "notify")

\* Fault: one thread is notified instead of all.
LetOnePass(t) ==
  /\ todo[t] = "notify"
  /\ Notify(t, NotifyOne)
  /\ Then(t, "join")

LetAllPass(t) ==
  /\ todo[t] = "notify"
  /\ Notify(t, NotifyAll)
  /\ Then(t, "join")

\* The main thread joins the others, then reads how many there were.
JoinAll(t) ==
  /\ todo[t] = "join"
  /\ \A u \in Others : todo[u] = "stop"
  /\ Call(t, "use", Values)
  /\ Then(t, "read")

Counted(t) ==
  /\ todo[t] = "read"
  /\ FuncEnds(t, seen[t])
  /\ Then(t, "stop")

Inside(t) ==
  /\ Guard(t) \/ Func(t) \/ PredicateFalse(t) \/ WakeUp(t)
  /\ UNCHANGED todo

GateStep(t) ==
  \/ WaitForGate(t) \/ CountItself(t) \/ Inside(t)
  \/ Open(t) \/ Opened(t) \/ LetAllPass(t) \/ JoinAll(t) \/ Counted(t)

Ended == \A t \in Threads : todo[t] = "stop"

\* Nobody counts itself before the gate is open, and nobody counts twice or is
\* overwritten by another: what has been counted is who has passed.
EachCountsOnce ==
  data # Torn =>
    /\ data.num_threads = Cardinality({t \in Others : todo[t] = "stop"})
    /\ data.num_threads > 0 => data.write_away

\* One notify_all lets everybody pass, whoever was asleep when it was called
\* and whoever came later, and the count read at the end is complete.
AllCounted == Ended /\ out.old.num_threads = Cardinality(Others)

=============================================================================
