----------------------------- MODULE AtomicData -----------------------------
(***************************************************************************)
(* ltb::util::AtomicData: a value behind one mutex and one condition       *)
(* variable, both owned through shared pointers, so that the ScopedLock    *)
(* handed to a caller may outlive the object.  The functions the callers   *)
(* pass in read the value and then change it piece by piece: while one of  *)
(* them runs, the data is Torn.                                            *)
(***************************************************************************)
EXTENDS FiniteSets, Monitor

CONSTANTS Values,     \* what the data may be between two uses
          Torn,       \* what it is in the middle of one
          Predicates, \* the callers' predicates: sets of values
          Spurious    \* whether a wait may end without a notification

ASSUME TornAssumption == Torn \notin Values
ASSUME PredicatesAssumption ==
  Predicates \subseteq SUBSET Values /\ Values \in Predicates
ASSUME SpuriousAssumption == Spurious \in BOOLEAN

VARIABLES data,   \* data_
          pc,     \* where each thread is
          op,     \* the member function each thread is in
          under,  \* the predicate each thread has given
          seen,   \* what the function under way of each thread was called with
          refs,   \* who owns a shared pointer to the mutex
          out     \* the last use: by whom, under which predicate, of what

callVars == <<pc, op, under, seen>>
vars == <<monitorVars, data, callVars, refs, out>>

This  == "this"   \* the owner of lock_ and condition_: the object itself
ASSUME ThisAssumption == This \notin Threads

Uses  == {"use", "load"}
Waits == {"wait", "wait_for"}
Ops   == {"none", "scoped_lock"} \cup Uses \cup Waits
PCs   == {"idle", "lock", "check", "expired", "waiting", "timedout", "func",
          "holding", "releasing"}

TypeOK ==
  /\ MonitorTypeOK
  /\ data \in Values \cup {Torn}
  /\ pc \in [Threads -> PCs]
  /\ op \in [Threads -> Ops]
  /\ under \in [Threads -> Predicates]
  /\ seen \in [Threads -> Values \cup {Torn}]
  /\ refs \subseteq Threads \cup {This}
  /\ out \in [by : Threads \cup {Nobody}, under : Predicates, old : Values, new : Values]

Init ==
  /\ MonitorInit
  /\ data \in Values
  /\ pc = [t \in Threads |-> "idle"]
  /\ op = [t \in Threads |-> "none"]
  /\ under = [t \in Threads |-> Values]
  /\ seen = [t \in Threads |-> Torn]
  /\ refs = {This}
  /\ out = [by |-> Nobody, under |-> Values, old |-> data, new |-> data]

-----------------------------------------------------------------------------
GoTo(t, p) == pc' = [pc EXCEPT ![t] = p]

Report(t, old, new) ==
  out' = [by |-> t, under |-> under[t], old |-> old, new |-> new]

Return(t) ==
  /\ GoTo(t, "idle")
  /\ op' = [op EXCEPT ![t] = "none"]
  /\ under' = [under EXCEPT ![t] = Values]
  /\ seen' = [seen EXCEPT ![t] = Torn]

\* use_safely, load, store (a use that ignores what it sees) and both forms of
\* wait_to_use_safely: a use is under the predicate that is always true.
Call(t, o, p) ==
  /\ This \in refs
  /\ pc[t] = "idle"
  /\ o \in Waits \cup Uses /\ (o \in Uses => p = Values)
  /\ op' = [op EXCEPT ![t] = o]
  /\ under' = [under EXCEPT ![t] = p]
  /\ GoTo(t, "lock")
  /\ UNCHANGED <<monitorVars, data, seen, refs, out>>

\* Fault: a plain use does not lock the mutex.
GuardWaitsOnly(t) ==
  /\ pc[t] = "lock" /\ op[t] # "scoped_lock"
  /\ IF op[t] \in Waits THEN Lock(t) ELSE UNCHANGED monitorVars
  /\ GoTo(t, "check")
  /\ UNCHANGED <<data, op, under, seen, refs, out>>

\* Fault: load reads the data without locking the mutex.
GuardNotLoad(t) ==
  /\ pc[t] = "lock"
  /\ \/ /\ op[t] \in {"use"} \cup Waits
        /\ Lock(t)
        /\ GoTo(t, "check")
        /\ UNCHANGED <<op, under, seen, out>>
     \/ /\ op[t] = "load"
        /\ Report(t, data, data)
        /\ Return(t)
        /\ UNCHANGED monitorVars
  /\ UNCHANGED <<data, refs>>

Guard(t) ==
  /\ pc[t] = "lock" /\ op[t] # "scoped_lock"
  /\ Lock(t)
  /\ GoTo(t, "check")
  /\ UNCHANGED <<data, op, under, seen, refs, out>>

\* Fault: a thread that was roused does not look at its predicate again.
FuncUnchecked(t) ==
  /\ pc[t] \in {"check", "expired"}
  /\ data \in under[t] \/ pc[t] = "expired"
  /\ seen' = [seen EXCEPT ![t] = data]
  /\ data' = Torn
  /\ GoTo(t, "func")
  /\ UNCHANGED <<monitorVars, op, under, refs, out>>

\* The predicate holds and the caller's function begins, with the mutex held.
Func(t) ==
  /\ pc[t] \in {"check", "expired"}
  /\ data \in under[t]
  /\ seen' = [seen EXCEPT ![t] = data]
  /\ data' = Torn
  /\ GoTo(t, "func")
  /\ UNCHANGED <<monitorVars, op, under, refs, out>>

\* It ends, by returning or by throwing: the guard's destructor unlocks.  The
\* function load passes in works on a copy of the data.
FuncEnds(t, v) ==
  /\ pc[t] = "func"
  /\ op[t] = "load" => v = seen[t]
  /\ data' = v
  /\ Report(t, seen[t], v)
  /\ Unlock(t)
  /\ Return(t)
  /\ UNCHANGED refs

-----------------------------------------------------------------------------
\* The predicate does not hold: sleep ...
PredicateFalse(t) ==
  /\ pc[t] = "check"
  /\ data \notin under[t]
  /\ Wait(t)
  /\ GoTo(t, "waiting")
  /\ UNCHANGED <<data, op, under, seen, refs, out>>

\* ... or return false, once the time is over.
GiveUp(t) ==
  /\ pc[t] = "expired"
  /\ data \notin under[t]
  /\ Report(t, data, data)
  /\ Unlock(t)
  /\ Return(t)
  /\ UNCHANGED <<data, refs>>

Timeout(t) ==
  /\ pc[t] = "waiting" /\ op[t] = "wait_for"
  /\ Rouse(t)
  /\ GoTo(t, "timedout")
  /\ UNCHANGED <<data, op, under, seen, refs, out>>

SpuriousWakeup(t) ==
  /\ Spurious
  /\ pc[t] = "waiting"
  /\ Rouse(t)
  /\ UNCHANGED <<data, callVars, refs, out>>

\* A notified wait_for may still find, by its clock, that the time is over.
WakeUp(t) ==
  /\ Relock(t)
  /\ \/ pc[t] = "waiting" /\ GoTo(t, "check")
     \/ pc[t] = "timedout" /\ GoTo(t, "expired")
     \/ pc[t] = "waiting" /\ op[t] = "wait_for" /\ GoTo(t, "expired")
  /\ UNCHANGED <<data, op, under, seen, refs, out>>

\* notify_one and notify_all do not lock the mutex, and a caller may hold it,
\* through a ScopedLock or because the call is made by the function passed in.
Notify(t, N) ==
  /\ This \in refs
  /\ pc[t] \in {"idle", "holding"} \/ (pc[t] = "func" /\ op[t] # "load")
  /\ N
  /\ UNCHANGED <<data, callVars, refs, out>>

Notifies(t) == Notify(t, NotifyOne) \/ Notify(t, NotifyAll)

-----------------------------------------------------------------------------
\* scoped_lock copies the shared pointer, then locks ...
CallScopedLock(t) ==
  /\ This \in refs
  /\ pc[t] = "idle"
  /\ refs' = refs \cup {t}
  /\ op' = [op EXCEPT ![t] = "scoped_lock"]
  /\ GoTo(t, "lock")
  /\ UNCHANGED <<monitorVars, data, under, seen, out>>

ScopedLock(t) ==
  /\ pc[t] = "lock" /\ op[t] = "scoped_lock"
  /\ Lock(t)
  /\ op' = [op EXCEPT ![t] = "none"]
  /\ GoTo(t, "holding")
  /\ UNCHANGED <<data, under, seen, refs, out>>

\* Fault: with its members declared the other way round, ScopedLock gives up
\* the mutex before it unlocks it.
ReleaseMutexFirst(t) ==
  /\ pc[t] = "holding"
  /\ refs' = refs \ {t}
  /\ GoTo(t, "releasing")
  /\ UNCHANGED <<monitorVars, data, op, under, seen, out>>

\* ... and ScopedLock is destroyed from its last member to its first.
ReleaseLock(t) ==
  /\ pc[t] = "holding"
  /\ Unlock(t)
  /\ GoTo(t, "releasing")
  /\ UNCHANGED <<data, op, under, seen, refs, out>>

ReleaseMutex(t) ==
  /\ pc[t] = "releasing"
  /\ refs' = refs \ {t}
  /\ GoTo(t, "idle")
  /\ UNCHANGED <<monitorVars, data, op, under, seen, out>>

\* The object is destroyed when nobody is inside one of its member functions;
\* a ScopedLock may still be held.
Destroy ==
  /\ This \in refs
  /\ \A t \in Threads : pc[t] \in {"idle", "holding", "releasing"}
  /\ refs' = refs \ {This}
  /\ UNCHANGED <<monitorVars, data, callVars, out>>

-----------------------------------------------------------------------------
Calls(t) ==
  \/ \E o \in Ops, p \in Predicates : Call(t, o, p)
  \/ CallScopedLock(t)

\* What a thread inside a member function, or in ~ScopedLock, does by itself.
Step(t) ==
  \/ Guard(t) \/ Func(t) \/ \E v \in Values : FuncEnds(t, v)
  \/ PredicateFalse(t) \/ GiveUp(t) \/ Timeout(t) \/ WakeUp(t)
  \/ ScopedLock(t) \/ ReleaseMutex(t)

Next ==
  \/ \E t \in Threads :
       Calls(t) \/ Step(t) \/ ReleaseLock(t) \/ SpuriousWakeup(t) \/ Notifies(t)
  \/ Destroy

Spec == Init /\ [][Next]_vars

-----------------------------------------------------------------------------
\* The mutex is held while the caller's function or predicate runs and as long
\* as a ScopedLock lives, and by no thread that sleeps or is in no call.
MutexDiscipline ==
  \A t \in Threads :
    /\ owner = t <=> pc[t] \in {"check", "expired", "func", "holding"}
    /\ t \in sleeping => pc[t] = "waiting"
    /\ t \in woken => pc[t] \in {"waiting", "timedout"}
    /\ pc[t] \in {"waiting", "timedout"} => (t \in sleeping <=> t \notin woken)

\* The mutex exists as long as anybody uses it: a ScopedLock keeps it alive
\* after the object is gone, and unlocks it before giving it up.
MutexOutlivesLock ==
  owner # Nobody \/ sleeping \cup woken # {} => refs # {}

\* The object lives while anybody is inside one of its member functions, and
\* whoever has or is about to get a ScopedLock has a reference to the mutex.
ReferencesHeld ==
  \A t \in Threads :
    /\ pc[t] \notin {"idle", "holding", "releasing"} => This \in refs
    /\ pc[t] = "holding" \/ (pc[t] = "lock" /\ op[t] = "scoped_lock") => t \in refs

\* The data is torn while the function of some thread runs, which was called
\* with a value that its predicate allows, and at no other time.
TornOnlyInFunc ==
  /\ data = Torn => \E t \in Threads : pc[t] = "func"
  /\ \A t \in Threads : pc[t] = "func" => data = Torn /\ seen[t] \in Values \cap under[t]

\* The cell as an observer sees it: while a function runs, its change has not
\* happened yet.
CellValue ==
  IF data = Torn THEN seen[CHOOSE t \in Threads : pc[t] = "func"] ELSE data
CellHolder ==
  IF \E t \in Threads : pc[t] = "holding"
  THEN CHOOSE t \in Threads : pc[t] = "holding"
  ELSE Nobody

Cell == INSTANCE AtomicCell WITH cell <- CellValue, holder <- CellHolder

\* No use of the data overlaps another: each takes effect at one instant, with
\* its predicate true, a wait_for that returns false had a false predicate
\* when it did, and a ScopedLock keeps everybody else out.
ImplementsCell == Cell!Spec

=============================================================================
