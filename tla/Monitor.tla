------------------------------- MODULE Monitor -------------------------------
(***************************************************************************)
(* One std::mutex with one std::condition_variable, as BlockingQueue and   *)
(* AtomicData use the pair: lock and unlock, wait (release and sleep in    *)
(* one step), notify_one, notify_all, wakeups nobody asked for, and the    *)
(* reacquisition that ends every wait.  Both types belong to the standard  *)
(* library, so this module is the project's assumption about them.         *)
(***************************************************************************)
CONSTANTS Threads,  \* the threads that share the object
          Nobody    \* the owner of a mutex that is free

ASSUME NobodyAssumption == Nobody \notin Threads

VARIABLES owner,    \* the thread that holds the mutex, or Nobody
          sleeping, \* threads blocked inside condition_variable::wait
          woken     \* threads roused from the wait that must relock the mutex

monitorVars == <<owner, sleeping, woken>>

MonitorTypeOK ==
  /\ owner \in Threads \cup {Nobody}
  /\ sleeping \subseteq Threads
  /\ woken \subseteq Threads

MonitorInit ==
  /\ owner = Nobody
  /\ sleeping = {}
  /\ woken = {}

Lock(t) ==
  /\ owner = Nobody
  /\ owner' = t
  /\ UNCHANGED <<sleeping, woken>>

Unlock(t) ==
  /\ owner = t
  /\ owner' = Nobody
  /\ UNCHANGED <<sleeping, woken>>

\* The mutex is released and the thread falls asleep in one atomic step.
Wait(t) ==
  /\ owner = t
  /\ owner' = Nobody
  /\ sleeping' = sleeping \cup {t}
  /\ UNCHANGED woken

\* The thread leaves the wait: a timeout, or a spurious wakeup.
Rouse(t) ==
  /\ t \in sleeping
  /\ sleeping' = sleeping \ {t}
  /\ woken' = woken \cup {t}
  /\ UNCHANGED owner

\* Any one sleeper is roused; with no sleeper the notification is lost.
NotifyOne ==
  \/ \E t \in sleeping : Rouse(t)
  \/ sleeping = {} /\ UNCHANGED monitorVars

NotifyAll ==
  /\ sleeping' = {}
  /\ woken' = woken \cup sleeping
  /\ UNCHANGED owner

\* A wait returns only with the mutex held again.
Relock(t) ==
  /\ t \in woken
  /\ owner = Nobody
  /\ owner' = t
  /\ woken' = woken \ {t}
  /\ UNCHANGED sleeping

=============================================================================
