---------------------------- MODULE BlockingQueue ----------------------------
(***************************************************************************)
(* ltb::util::BlockingQueue: a std::queue behind one mutex and one         *)
(* condition variable.  A step of this module is what a thread does        *)
(* between two points at which another thread can observe or disturb it:   *)
(* the queue is only touched with the mutex held, so a whole critical      *)
(* section is one step, but the notification, the callback and the end of  *)
(* the parameter that follow a push, and the destructors that follow a     *)
(* clear, happen unlocked and are steps of their own.                      *)
(***************************************************************************)
EXTENDS Naturals, Sequences, FiniteSets, Monitor

CONSTANTS Items,       \* labels of the pushes: each push brings a new item
          NoItem,
          Copied,      \* items without a move constructor: what moves others copies them
          HasCallback, \* whether the constructor was given a notify_callback
          Spurious     \* whether a wait may end without a notification

ASSUME ThreadsAssumption == IsFiniteSet(Threads)
ASSUME ItemsAssumption == NoItem \notin Items
ASSUME CopiedAssumption == Copied \subseteq Items
ASSUME CallbackAssumption == HasCallback \in BOOLEAN

VARIABLES queue,    \* queue_
          pc,       \* where each thread is
          op,       \* the member function each thread is in
          item,     \* the argument of the push each thread is in
          trash,    \* queue_to_delete of the clear each thread is in
          out,      \* the last value returned to a caller, and to whom
          log,      \* history: all items in the order in which they were queued
          notified  \* history: how often notify_callback_ returned

callVars == <<pc, op, item>>
vars == <<monitorVars, queue, callVars, trash, out, log, notified>>

Ops  == {"none", "push", "pop", "pop_for", "clear", "size"}
Pops == {"pop", "pop_for"}
PCs  == {"idle", "lock", "critical", "expired", "waiting", "timedout", "reentering",
         "notify", "callback", "returning", "deleting"}

Queued == {log[i] : i \in 1..Len(log)}
Fresh  == Items \ (Queued \cup {item[t] : t \in Threads})

TypeOK ==
  /\ MonitorTypeOK
  /\ queue \in Seq(Items)
  /\ pc \in [Threads -> PCs]
  /\ op \in [Threads -> Ops]
  /\ item \in [Threads -> Items \cup {NoItem}]
  /\ trash \in [Threads -> Seq(Items)]
  /\ out \in [to : Threads \cup {Nobody}, value : Items \cup {NoItem} \cup Nat]
  /\ log \in Seq(Items)
  /\ notified \in Nat

Init ==
  /\ MonitorInit
  /\ queue = <<>>
  /\ pc = [t \in Threads |-> "idle"]
  /\ op = [t \in Threads |-> "none"]
  /\ item = [t \in Threads |-> NoItem]
  /\ trash = [t \in Threads |-> <<>>]
  /\ out = [to |-> Nobody, value |-> NoItem]
  /\ log = <<>>
  /\ notified = 0

-----------------------------------------------------------------------------
GoTo(t, p) == pc' = [pc EXCEPT ![t] = p]
At(t, p, o) == pc[t] = p /\ op[t] = o

Return(t, v) == out' = [to |-> t, value |-> v]

\* The member function t was in is over.  A push made by the destructor of an
\* item that clear is deleting returns into that clear, and the item is gone.
Leave(t) ==
  /\ item' = [item EXCEPT ![t] = NoItem]
  /\ \/ /\ trash[t] = <<>>
        /\ op' = [op EXCEPT ![t] = "none"]
        /\ GoTo(t, "idle")
        /\ UNCHANGED trash
     \/ /\ trash[t] # <<>>
        /\ op' = [op EXCEPT ![t] = "clear"]
        /\ GoTo(t, "deleting")
        /\ trash' = [trash EXCEPT ![t] = Tail(@)]

\* Entering a member function: every one of them locks the mutex first.
Enter(t, o, x) ==
  /\ op' = [op EXCEPT ![t] = o]
  /\ item' = [item EXCEPT ![t] = x]
  /\ GoTo(t, "lock")
  /\ UNCHANGED <<monitorVars, queue, trash, out, log, notified>>

CallPush(t, x) == pc[t] = "idle" /\ x \in Fresh /\ Enter(t, "push", x)

CallOther(t, o) ==
  /\ pc[t] = "idle"
  /\ o \in Ops \ {"none", "push"}
  /\ Enter(t, o, NoItem)

Guard(t) ==
  /\ pc[t] = "lock"
  /\ Lock(t)
  /\ GoTo(t, "critical")
  /\ UNCHANGED <<queue, op, item, trash, out, log, notified>>

-----------------------------------------------------------------------------
\* push_back and emplace_back: queue under the lock, then notify unlocked.
Push(t) ==
  /\ At(t, "critical", "push")
  /\ queue' = Append(queue, item[t])
  /\ log' = Append(log, item[t])
  /\ Unlock(t)
  /\ GoTo(t, "notify")
  /\ UNCHANGED <<op, item, trash, out, notified>>

\* Fault: notifying only when the queue was empty before the push.
NotifyWhenFirst(t) ==
  /\ pc[t] = "notify"
  /\ IF Len(queue) = 1 THEN NotifyOne ELSE UNCHANGED monitorVars
  /\ GoTo(t, IF HasCallback THEN "callback" ELSE "returning")
  /\ UNCHANGED <<queue, op, item, trash, out, log, notified>>

\* Fault: the callback is left out when a consumer was there to be notified.
NotifyOneWay(t) ==
  /\ pc[t] = "notify"
  /\ NotifyOne
  /\ GoTo(t, IF HasCallback /\ sleeping = {} THEN "callback" ELSE "returning")
  /\ UNCHANGED <<queue, op, item, trash, out, log, notified>>

Notify(t) ==
  /\ pc[t] = "notify"
  /\ NotifyOne
  /\ GoTo(t, IF HasCallback THEN "callback" ELSE "returning")
  /\ UNCHANGED <<queue, op, item, trash, out, log, notified>>

Callback(t) ==
  /\ pc[t] = "callback"
  /\ notified' = notified + 1
  /\ GoTo(t, "returning")
  /\ UNCHANGED <<monitorVars, queue, op, item, trash, out, log>>

\* The parameter of push_back, passed by value, ends with the call: if it was
\* copied into the queue, it is whole and its destructor may push an item ...
ParameterPushing(t, x) ==
  /\ pc[t] = "returning"
  /\ item[t] \in Copied
  /\ x \in Fresh
  /\ Enter(t, "push", x)

\* ... and otherwise, or with emplace_back, which has none, the push is over.
EndPush(t) ==
  /\ pc[t] = "returning"
  /\ Leave(t)
  /\ UNCHANGED <<monitorVars, queue, out, log, notified>>

-----------------------------------------------------------------------------
\* Fault: the front item is moved from and stays.
PopTakeWithoutPop(t) ==
  /\ op[t] \in Pops
  /\ pc[t] \in {"critical", "expired"}
  /\ queue # <<>>
  /\ Return(t, Head(queue))
  /\ queue' = [queue EXCEPT ![1] = NoItem]
  /\ Unlock(t)
  /\ Leave(t)
  /\ UNCHANGED <<log, notified>>

\* Both forms of pop_front: take the front item if there is one ...
PopTake(t) ==
  /\ op[t] \in Pops
  /\ pc[t] \in {"critical", "expired"}
  /\ queue # <<>>
  /\ Return(t, Head(queue))
  /\ queue' = Tail(queue)
  /\ Unlock(t)
  /\ Leave(t)
  /\ UNCHANGED <<log, notified>>

\* ... unless it is copied out of the queue: then the item that pop destroys is
\* whole, and if its destructor pushes, the thread waits for its own mutex ...
PopPushing(t) ==
  /\ op[t] \in Pops
  /\ pc[t] \in {"critical", "expired"}
  /\ queue # <<>>
  /\ Head(queue) \in Copied
  /\ GoTo(t, "reentering")
  /\ UNCHANGED <<monitorVars, queue, op, item, trash, out, log, notified>>

\* Fault: the wait has no predicate.
PopWaitBlindly(t) ==
  /\ op[t] \in Pops
  /\ pc[t] = "critical"
  /\ Wait(t)
  /\ GoTo(t, "waiting")
  /\ UNCHANGED <<queue, op, item, trash, out, log, notified>>

\* ... sleep if there is none ...
PopWait(t) ==
  /\ op[t] \in Pops
  /\ pc[t] = "critical"
  /\ queue = <<>>
  /\ Wait(t)
  /\ GoTo(t, "waiting")
  /\ UNCHANGED <<queue, op, item, trash, out, log, notified>>

\* Fault: after the timeout the predicate is not evaluated again.
PopGiveUpUnchecked(t) ==
  /\ pc[t] = "expired"
  /\ Return(t, NoItem)
  /\ Unlock(t)
  /\ Leave(t)
  /\ UNCHANGED <<queue, log, notified>>

\* ... and, with a timeout that has passed, return std::nullopt.
PopGiveUp(t) ==
  /\ pc[t] = "expired"
  /\ queue = <<>>
  /\ Return(t, NoItem)
  /\ Unlock(t)
  /\ Leave(t)
  /\ UNCHANGED <<queue, log, notified>>

Timeout(t) ==
  /\ At(t, "waiting", "pop_for")
  /\ Rouse(t)
  /\ GoTo(t, "timedout")
  /\ UNCHANGED <<queue, op, item, trash, out, log, notified>>

SpuriousWakeup(t) ==
  /\ Spurious
  /\ pc[t] = "waiting"
  /\ Rouse(t)
  /\ UNCHANGED <<queue, callVars, trash, out, log, notified>>

\* Fault: every wakeup starts the timeout anew.
WakeUpAnew(t) ==
  /\ Relock(t)
  /\ GoTo(t, "critical")
  /\ UNCHANGED <<queue, op, item, trash, out, log, notified>>

\* A notified wait_for may still find, by its clock, that the time is over:
\* either way the predicate is evaluated once more with the mutex held.
WakeUp(t) ==
  /\ Relock(t)
  /\ \/ pc[t] = "waiting" /\ GoTo(t, "critical")
     \/ pc[t] = "timedout" /\ GoTo(t, "expired")
     \/ At(t, "waiting", "pop_for") /\ GoTo(t, "expired")
  /\ UNCHANGED <<queue, op, item, trash, out, log, notified>>

-----------------------------------------------------------------------------
\* Fault: the items are deleted with the mutex held.
SwapKeepingLock(t) ==
  /\ At(t, "critical", "clear")
  /\ trash' = [trash EXCEPT ![t] = queue]
  /\ queue' = <<>>
  /\ GoTo(t, "deleting")
  /\ UNCHANGED <<monitorVars, op, item, out, log, notified>>

\* Fault: the items to delete are a copy of those in the queue.
SwapCopying(t) ==
  /\ At(t, "critical", "clear")
  /\ trash' = [trash EXCEPT ![t] = queue]
  /\ Unlock(t)
  /\ GoTo(t, "deleting")
  /\ UNCHANGED <<queue, op, item, out, log, notified>>

\* clear: swap the items out under the lock, delete them afterwards.
Swap(t) ==
  /\ At(t, "critical", "clear")
  /\ trash' = [trash EXCEPT ![t] = queue]
  /\ queue' = <<>>
  /\ Unlock(t)
  /\ GoTo(t, "deleting")
  /\ UNCHANGED <<op, item, out, log, notified>>

Delete(t) ==
  /\ pc[t] = "deleting"
  /\ trash[t] # <<>>
  /\ trash' = [trash EXCEPT ![t] = Tail(@)]
  /\ UNCHANGED <<monitorVars, queue, callVars, out, log, notified>>

\* The destructor of the front item pushes into the queue being cleared.
DeletePushing(t, x) ==
  /\ pc[t] = "deleting"
  /\ trash[t] # <<>>
  /\ x \in Fresh
  /\ Enter(t, "push", x)

Cleared(t) ==
  /\ pc[t] = "deleting"
  /\ trash[t] = <<>>
  /\ Leave(t)
  /\ UNCHANGED <<monitorVars, queue, out, log, notified>>

\* size, and empty, which asks whether it is 0.
Size(t) ==
  /\ At(t, "critical", "size")
  /\ Return(t, Len(queue))
  /\ Unlock(t)
  /\ Leave(t)
  /\ UNCHANGED <<queue, log, notified>>

-----------------------------------------------------------------------------
Call(t) ==
  \/ \E x \in Items : CallPush(t, x)
  \/ \E o \in Ops : CallOther(t, o)

\* What a thread inside a member function does by itself.
Step(t) ==
  \/ Guard(t) \/ Push(t) \/ Notify(t) \/ Callback(t) \/ EndPush(t)
  \/ PopTake(t) \/ PopWait(t) \/ PopGiveUp(t) \/ Timeout(t) \/ WakeUp(t)
  \/ Swap(t) \/ Delete(t) \/ Cleared(t) \/ Size(t)

\* What the destructor of an item does that pushes into this queue.
Destructor(t) ==
  \/ \E x \in Items : DeletePushing(t, x) \/ ParameterPushing(t, x)
  \/ PopPushing(t)

Next == \E t \in Threads : Call(t) \/ Step(t) \/ SpuriousWakeup(t) \/ Destructor(t)

Spec == Init /\ [][Next]_vars

-----------------------------------------------------------------------------
\* A push under way brings an item of its own, which is not in the log before
\* the critical section of that push.
PushesBringNewItems ==
  /\ \A t \in Threads : op[t] = "push" =>
       /\ item[t] \in Items
       /\ pc[t] \in {"lock", "critical"} => item[t] \notin Queued
  /\ \A t, u \in Threads : item[t] = item[u] => t = u \/ item[t] = NoItem

\* A thread that waits for the mutex it holds, as every other one then will.
LockedUp == \E t \in Threads : pc[t] = "reentering"

\* The mutex and the condition variable agree with where the threads are.  The
\* notification, the callback and the destructors that clear and the end of a
\* push run may call the queue again: none of them finds its own thread holding
\* mutex_.  The destructor that pop_front runs does, and locks the queue up for
\* good if it pushes, which takes an item that was copied, at the front.
MutexDiscipline ==
  \A t \in Threads :
    /\ owner = t <=> pc[t] \in {"critical", "expired", "reentering"}
    /\ t \in sleeping => pc[t] = "waiting"
    /\ t \in woken => pc[t] \in {"waiting", "timedout"}
    /\ pc[t] \in {"waiting", "timedout"} => /\ op[t] \in Pops
                                            /\ t \in sleeping <=> t \notin woken
    /\ pc[t] = "reentering" => /\ op[t] \in Pops
                               /\ queue # <<>> /\ Head(queue) \in Copied

\* Threads that have been given what they need to take one more item.
Bound ==
  woken \cup {t \in Threads : pc[t] = "notify"}
        \cup {t \in Threads : op[t] \in Pops /\ pc[t] \in {"critical", "expired"}}

\* No wakeup is lost: while a consumer sleeps in pop_front, every item in the
\* queue has a thread under way that will take it or rouse one that can,
\* although push_back notifies after it has released the mutex.
NoLostWakeup == sleeping # {} /\ ~LockedUp => Len(queue) <= Cardinality(Bound)

\* Threads that have queued an item and not yet reported it.
Reporting == {t \in Threads : pc[t] \in {"notify", "callback"}}

\* The callback is invoked once for every item added, whoever adds it and
\* from wherever, with the exception of those whose push is still under way.
CallbackPerItem ==
  HasCallback => Len(log) = notified + Cardinality(Reporting)

\* Items being deleted by clear left the queue together: each queue_to_delete
\* is a run of consecutive arrivals, oldest first, all of them out of the
\* queue, and no two clears hold the same item.
TrashInArrivalOrder ==
  LET left == Len(log) - Len(queue)
      HeldFrom(t, i) == trash[t] = SubSeq(log, i, i + Len(trash[t]) - 1)
  IN  /\ \A t \in Threads :
           \E i \in 1..left + 1 : i + Len(trash[t]) <= left + 1 /\ HeldFrom(t, i)
      /\ \A t, u \in Threads : \A i \in DOMAIN trash[t], j \in DOMAIN trash[u] :
           trash[t][i] = trash[u][j] => t = u /\ i = j

\* The queue is what the log of arrivals still holds ...
QueueIsRestOfLog ==
  /\ Len(queue) <= Len(log)
  /\ \A i \in DOMAIN queue : queue[i] = log[Len(log) - Len(queue) + i]

\* ... and the number of items that have left it is the difference.
Fifo == INSTANCE FifoQueue WITH left <- Len(log) - Len(queue)

\* BlockingQueue is a linearizable first-in first-out queue: one step inside
\* each call is the step of FifoQueue, and every other step is invisible.
ImplementsFifo == Fifo!Spec

=============================================================================
