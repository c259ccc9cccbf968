------------------------- MODULE BlockingQueueProofs -------------------------
(***************************************************************************)
(* What holds of BlockingQueue for every finite set of threads, every set  *)
(* of items, with and without a callback and spurious wakeups.             *)
(***************************************************************************)
EXTENDS BlockingQueue, FiniteSetTheorems, SequenceTheorems, TLAPS

\* Leave keeps the types of the four variables it may change.
LEMMA LeaveTypes ==
  ASSUME TypeOK, NEW t \in Threads, Leave(t)
  PROVE  /\ pc' \in [Threads -> PCs]
         /\ op' \in [Threads -> Ops]
         /\ item' \in [Threads -> Items \cup {NoItem}]
         /\ trash' \in [Threads -> Seq(Items)]
<1>1. trash[t] # <<>> => Tail(trash[t]) \in Seq(Items)
  BY HeadTailProperties DEF TypeOK
<1>2. item' \in [Threads -> Items \cup {NoItem}]
  BY DEF Leave, TypeOK
<1>3. CASE trash[t] = <<>>
  BY <1>2, <1>3 DEF Leave, TypeOK, GoTo, PCs, Ops
<1>4. CASE trash[t] # <<>>
  <2>1. pc' \in [Threads -> PCs]
  BY <1>4 DEF Leave, TypeOK, GoTo, PCs
  <2>2. op' \in [Threads -> Ops]
  BY <1>4 DEF Leave, TypeOK, GoTo, Ops
  <2>3. trash' \in [Threads -> Seq(Items)]
  BY <1>4, <1>1 DEF Leave, TypeOK
  <2>4. QED BY <2>1, <2>2, <2>3, <1>2
<1>5. QED BY <1>3, <1>4

\* A thread that leaves a member function is at rest, or back in its clear.
LEMMA LeaveEffect ==
  ASSUME TypeOK, NEW t \in Threads, Leave(t)
  PROVE  /\ pc'[t] \in {"idle", "deleting"}
         /\ op'[t] \in {"none", "clear"}
         /\ item'[t] = NoItem
         /\ \A u \in Threads \ {t} : /\ pc'[u] = pc[u]
                                     /\ op'[u] = op[u]
                                     /\ item'[u] = item[u]
                                     /\ trash'[u] = trash[u]
  BY DEF Leave, TypeOK, GoTo

\* Types are preserved by every step of a state in which pushes bring items.
LEMMA TypesPreserved ==
  ASSUME TypeOK, PushesBringNewItems, [Next]_vars
  PROVE  TypeOK'
<1> USE DEF TypeOK, MonitorTypeOK
<1>1. CASE UNCHANGED vars
  BY <1>1 DEF vars, monitorVars, callVars
<1>2. ASSUME NEW t \in Threads, NEW o \in Ops, NEW x \in Items \cup {NoItem}, Enter(t, o, x)
      PROVE  TypeOK'
  BY <1>2 DEF Enter, GoTo, monitorVars, PCs
<1>3. ASSUME NEW t \in Threads, Guard(t) PROVE TypeOK'
  BY <1>3 DEF Guard, Lock, GoTo, PCs
<1>4. ASSUME NEW t \in Threads, Push(t) PROVE TypeOK'
  <2>1. item[t] \in Items
    BY <1>4 DEF PushesBringNewItems, Push, At
  <2>2. queue' \in Seq(Items) /\ log' \in Seq(Items)
    BY <1>4, <2>1, AppendProperties DEF Push
  <2>3. QED
    BY <1>4, <2>2 DEF Push, Unlock, GoTo, PCs
<1>5. ASSUME NEW t \in Threads, Notify(t) PROVE TypeOK'
  <2>1. MonitorTypeOK'
    BY <1>5 DEF Notify, NotifyOne, Rouse, monitorVars
  <2>2. QED
    BY <1>5, <2>1 DEF Notify, GoTo, PCs
<1>6. ASSUME NEW t \in Threads, Callback(t) PROVE TypeOK'
  BY <1>6 DEF Callback, GoTo, PCs, monitorVars
<1>7. ASSUME NEW t \in Threads, PopTake(t) PROVE TypeOK'
  <2>1. Head(queue) \in Items /\ queue' \in Seq(Items)
    BY <1>7, HeadTailProperties DEF PopTake
  <2>2. QED
    BY <1>7, <2>1, LeaveTypes DEF PopTake, Return, Unlock
<1>8. ASSUME NEW t \in Threads, PopWait(t) PROVE TypeOK'
  BY <1>8 DEF PopWait, Wait, GoTo, PCs
<1>9. ASSUME NEW t \in Threads, PopGiveUp(t) PROVE TypeOK'
  BY <1>9, LeaveTypes DEF PopGiveUp, Return, Unlock
<1>10. ASSUME NEW t \in Threads, Timeout(t) PROVE TypeOK'
  BY <1>10 DEF Timeout, Rouse, GoTo, PCs
<1>11. ASSUME NEW t \in Threads, SpuriousWakeup(t) PROVE TypeOK'
  BY <1>11 DEF SpuriousWakeup, Rouse, callVars
<1>12. ASSUME NEW t \in Threads, WakeUp(t) PROVE TypeOK'
  BY <1>12 DEF WakeUp, Relock, GoTo, PCs
<1>13. ASSUME NEW t \in Threads, Swap(t) PROVE TypeOK'
  BY <1>13 DEF Swap, Unlock, GoTo, PCs
<1>14. ASSUME NEW t \in Threads, Delete(t) PROVE TypeOK'
  BY <1>14, HeadTailProperties DEF Delete, callVars, monitorVars
<1>15. ASSUME NEW t \in Threads, Cleared(t) PROVE TypeOK'
  BY <1>15, LeaveTypes DEF Cleared, monitorVars
<1>16. ASSUME NEW t \in Threads, Size(t) PROVE TypeOK'
  <2>1. Len(queue) \in Nat
    BY LenProperties
  <2>2. QED
    BY <1>16, <2>1, LeaveTypes DEF Size, Return, Unlock
<1>17. ASSUME NEW t \in Threads, Call(t) PROVE TypeOK'
  BY <1>2, <1>17 DEF Call, CallPush, CallOther, Ops
<1>18. ASSUME NEW t \in Threads, EndPush(t) PROVE TypeOK'
  BY <1>18, LeaveTypes DEF EndPush, monitorVars
<1>19. ASSUME NEW t \in Threads, PopPushing(t) PROVE TypeOK'
  BY <1>19 DEF PopPushing, GoTo, PCs, monitorVars
<1>20. ASSUME NEW t \in Threads, Destructor(t) PROVE TypeOK'
  BY <1>2, <1>19, <1>20 DEF Destructor, DeletePushing, ParameterPushing, Ops
<1>21. QED
  BY <1>1, <1>3, <1>4, <1>5, <1>6, <1>7, <1>8, <1>9, <1>10, <1>11, <1>12, <1>13,
     <1>14, <1>15, <1>16, <1>17, <1>18, <1>20 DEF Next, Step

-----------------------------------------------------------------------------
\* Every step keeps the mutex and the wait set in agreement with the threads.
LEMMA MutexDisciplinePreserved ==
  ASSUME TypeOK, MutexDiscipline, [Next]_vars
  PROVE  MutexDiscipline'
<1> USE NobodyAssumption DEF TypeOK, MonitorTypeOK, MutexDiscipline, Pops
<1>1. CASE UNCHANGED vars
  BY <1>1 DEF vars, monitorVars, callVars
<1>2. ASSUME NEW t \in Threads, NEW o \in Ops, NEW x \in Items \cup {NoItem},
             pc[t] \in {"idle", "deleting", "returning"}, Enter(t, o, x)
      PROVE  MutexDiscipline'
  BY <1>2 DEF Enter, GoTo, monitorVars
<1>3. ASSUME NEW t \in Threads, Guard(t) PROVE MutexDiscipline'
  BY <1>3 DEF Guard, Lock, GoTo
<1>4. ASSUME NEW t \in Threads, Push(t) PROVE MutexDiscipline'
  <2>1. \A u \in Threads \ {t} : pc[u] # "reentering"
    BY <1>4 DEF Push, At
  <2>2. QED
    BY <1>4, <2>1 DEF Push, At, Unlock, GoTo
<1>5. ASSUME NEW t \in Threads, Notify(t) PROVE MutexDiscipline'
  <2>1. /\ owner' = owner
        /\ \A u \in Threads : /\ u \in sleeping' => u \in sleeping
                              /\ u \in woken' => u \in woken \/ u \in sleeping
                              /\ u \in sleeping => u \in sleeping' <=> u \notin woken'
                              /\ u \in woken => u \in woken' /\ (u \in sleeping' <=> u \in sleeping)
    BY <1>5 DEF Notify, NotifyOne, Rouse, monitorVars
  <2>2. /\ pc'[t] \in {"callback", "returning"} /\ op' = op /\ queue' = queue
        /\ \A u \in Threads \ {t} : pc'[u] = pc[u]
    BY <1>5 DEF Notify, GoTo
  <2>3. QED
    BY <1>5, <2>1, <2>2 DEF Notify
<1>6. ASSUME NEW t \in Threads, Callback(t) PROVE MutexDiscipline'
  BY <1>6 DEF Callback, GoTo, monitorVars
<1>7. ASSUME NEW t \in Threads, PopTake(t) PROVE MutexDiscipline'
  <2>1. /\ pc[t] \in {"critical", "expired"} /\ Leave(t)
        /\ owner = t /\ owner' = Nobody /\ UNCHANGED <<sleeping, woken>>
    BY <1>7 DEF PopTake, Unlock
  <2>2. \A u \in Threads : pc'[u] # "reentering"
    <3>1. \A u \in Threads \ {t} : pc[u] # "reentering" /\ pc'[u] = pc[u]
      BY <2>1, LeaveEffect
    <3>2. pc'[t] # "reentering"
      BY <2>1, LeaveEffect
    <3>3. QED
      BY <3>1, <3>2
  <2>3. QED
    BY <2>1, <2>2, LeaveEffect
<1>8. ASSUME NEW t \in Threads, PopWait(t) PROVE MutexDiscipline'
  BY <1>8 DEF PopWait, Wait, GoTo
<1>9. ASSUME NEW t \in Threads, PopGiveUp(t) PROVE MutexDiscipline'
  BY <1>9, LeaveEffect DEF PopGiveUp, Unlock
<1>10. ASSUME NEW t \in Threads, Timeout(t) PROVE MutexDiscipline'
  BY <1>10 DEF Timeout, At, Rouse, GoTo
<1>11. ASSUME NEW t \in Threads, SpuriousWakeup(t) PROVE MutexDiscipline'
  BY <1>11 DEF SpuriousWakeup, Rouse, callVars, GoTo
<1>12. ASSUME NEW t \in Threads, WakeUp(t) PROVE MutexDiscipline'
  BY <1>12 DEF WakeUp, Relock, At, GoTo
<1>13. ASSUME NEW t \in Threads, Swap(t) PROVE MutexDiscipline'
  <2>1. \A u \in Threads \ {t} : pc[u] # "reentering"
    BY <1>13 DEF Swap, At
  <2>2. QED
    BY <1>13, <2>1 DEF Swap, At, Unlock, GoTo
<1>14. ASSUME NEW t \in Threads, Delete(t) PROVE MutexDiscipline'
  BY <1>14 DEF Delete, monitorVars, callVars, GoTo
<1>15. ASSUME NEW t \in Threads, Cleared(t) PROVE MutexDiscipline'
  BY <1>15, LeaveEffect DEF Cleared, monitorVars
<1>16. ASSUME NEW t \in Threads, Size(t) PROVE MutexDiscipline'
  BY ZenonT(40), <1>16, LeaveEffect DEF Size, At, Unlock
<1>17. ASSUME NEW t \in Threads, Call(t) PROVE MutexDiscipline'
  BY <1>2, <1>17 DEF Call, CallPush, CallOther, Ops
<1>18. ASSUME NEW t \in Threads, EndPush(t) PROVE MutexDiscipline'
  BY <1>18, LeaveEffect DEF EndPush, monitorVars
<1>19. ASSUME NEW t \in Threads, PopPushing(t) PROVE MutexDiscipline'
  BY <1>19 DEF PopPushing, GoTo, monitorVars
<1>20. ASSUME NEW t \in Threads, Destructor(t) PROVE MutexDiscipline'
  BY <1>2, <1>19, <1>20 DEF Destructor, DeletePushing, ParameterPushing, Ops
<1>21. QED
  BY <1>1, <1>3, <1>4, <1>5, <1>6, <1>7, <1>8, <1>9, <1>10, <1>11, <1>12, <1>13, <1>14, <1>15,
     <1>16, <1>17, <1>18, <1>20 DEF Next, Step

-----------------------------------------------------------------------------
\* What a sequence holds after an append.
LEMMA AppendAddsItem ==
  ASSUME NEW s \in Seq(Items), NEW x \in Items
  PROVE  {Append(s, x)[i] : i \in 1..Len(Append(s, x))} = {s[i] : i \in 1..Len(s)} \cup {x}
<1> DEFINE a == Append(s, x)
<1>1. /\ Len(a) = Len(s) + 1 /\ Len(s) \in Nat
      /\ \A i \in 1..Len(s) : a[i] = s[i]
      /\ a[Len(s) + 1] = x
  BY AppendProperties, LenProperties
<1>2. 1..Len(a) = 1..Len(s) \cup {Len(s) + 1}
  BY <1>1
<1> HIDE DEF a
<1>3. {a[i] : i \in 1..Len(a)} = {s[i] : i \in 1..Len(s)} \cup {x}
  BY <1>1, <1>2
<1>4. QED
  BY <1>3 DEF a

\* No step makes two pushes bring the same item, or an old one.
LEMMA PushesPreserved ==
  ASSUME TypeOK, MutexDiscipline, PushesBringNewItems, [Next]_vars
  PROVE  PushesBringNewItems'
<1>0. /\ pc \in [Threads -> PCs]
      /\ op \in [Threads -> Ops]
      /\ item \in [Threads -> Items \cup {NoItem}]
      /\ log \in Seq(Items)
  BY DEF TypeOK
<1>1. CASE UNCHANGED vars
  BY <1>1 DEF vars, callVars, Queued, PushesBringNewItems
<1>2. ASSUME NEW t \in Threads, NEW x \in Items \cup {NoItem}, NEW o \in Ops,
             (x \in Fresh /\ o = "push") \/ (x = NoItem /\ o # "push"), Enter(t, o, x)
      PROVE  PushesBringNewItems'
  <2>1. Queued' = Queued
    BY <1>2 DEF Enter, Queued
  <2>2. QED
    BY <1>0, <1>2, <2>1, ItemsAssumption DEF Enter, Fresh, GoTo, PushesBringNewItems
<1>3. ASSUME NEW t \in Threads, log' = log,
             \A u \in Threads \ {t} : pc'[u] = pc[u] /\ op'[u] = op[u] /\ item'[u] = item[u],
             \/ op'[t] # "push" /\ item'[t] = NoItem
             \/ /\ op'[t] = op[t] /\ item'[t] = item[t]
                /\ op[t] = "push" /\ pc'[t] \in {"lock", "critical"} => pc[t] \in {"lock", "critical"}
      PROVE  PushesBringNewItems'
  <2>1. Queued' = Queued
    BY <1>3 DEF Queued
  <2>2. QED
    BY <1>3, <2>1 DEF PushesBringNewItems
<1>4. ASSUME NEW t \in Threads, Push(t) PROVE PushesBringNewItems'
  <2>1. Queued' = Queued \cup {item[t]}
    <3>1. item[t] \in Items
      BY <1>4 DEF Push, At, PushesBringNewItems
    <3>2. log' = Append(log, item[t])
      BY <1>4 DEF Push
    <3>3. QED
      BY ONLY <1>0, <3>1, <3>2, AppendAddsItem DEF Queued
  <2>2. \A u \in Threads : op[u] = "push" /\ item[u] = item[t] => u = t
    BY <1>4, ItemsAssumption DEF Push, At, PushesBringNewItems
  <2>3. pc'[t] = "notify" /\ (\A u \in Threads \ {t} : pc'[u] = pc[u]) /\ op' = op /\ item' = item
    BY <1>0, <1>4 DEF Push, GoTo
  <2>4. QED
    BY <2>1, <2>2, <2>3 DEF PushesBringNewItems
<1>5. ASSUME NEW t \in Threads, Guard(t) PROVE PushesBringNewItems'
  BY <1>0, <1>3, <1>5 DEF Guard, GoTo
<1>6. ASSUME NEW t \in Threads, Notify(t) PROVE PushesBringNewItems'
  BY <1>0, <1>3, <1>6 DEF Notify, GoTo
<1>7. ASSUME NEW t \in Threads, Callback(t) PROVE PushesBringNewItems'
  BY <1>0, <1>3, <1>7 DEF Callback, GoTo
<1>8. ASSUME NEW t \in Threads, PopTake(t) PROVE PushesBringNewItems'
  BY <1>3, <1>8, LeaveEffect DEF PopTake
<1>9. ASSUME NEW t \in Threads, PopWait(t) PROVE PushesBringNewItems'
  BY <1>0, <1>3, <1>9 DEF PopWait, GoTo
<1>10. ASSUME NEW t \in Threads, PopGiveUp(t) PROVE PushesBringNewItems'
  BY <1>3, <1>10, LeaveEffect DEF PopGiveUp
<1>11. ASSUME NEW t \in Threads, Timeout(t) PROVE PushesBringNewItems'
  BY <1>0, <1>3, <1>11 DEF Timeout, At, GoTo
<1>12. ASSUME NEW t \in Threads, SpuriousWakeup(t) PROVE PushesBringNewItems'
  BY <1>3, <1>12 DEF SpuriousWakeup, callVars
<1>13. ASSUME NEW t \in Threads, WakeUp(t) PROVE PushesBringNewItems'
  BY <1>0, <1>3, <1>13 DEF WakeUp, Relock, At, GoTo, MutexDiscipline, Pops
<1>14. ASSUME NEW t \in Threads, Swap(t) PROVE PushesBringNewItems'
  BY <1>0, <1>3, <1>14 DEF Swap, GoTo
<1>15. ASSUME NEW t \in Threads, Delete(t) PROVE PushesBringNewItems'
  BY <1>3, <1>15 DEF Delete, callVars
<1>16. ASSUME NEW t \in Threads, Cleared(t) PROVE PushesBringNewItems'
  BY <1>3, <1>16, LeaveEffect DEF Cleared
<1>17. ASSUME NEW t \in Threads, Size(t) PROVE PushesBringNewItems'
  BY <1>3, <1>17, LeaveEffect DEF Size
<1>18. ASSUME NEW t \in Threads, Call(t) \/ Destructor(t) PROVE PushesBringNewItems'
  <2>1. ASSUME NEW x \in Items, CallPush(t, x) \/ DeletePushing(t, x) \/ ParameterPushing(t, x)
        PROVE  PushesBringNewItems'
    BY <1>2, <2>1 DEF CallPush, DeletePushing, ParameterPushing, Ops
  <2>2. ASSUME NEW o \in Ops, CallOther(t, o) PROVE PushesBringNewItems'
    BY <1>2, <2>2 DEF CallOther
  <2>3. ASSUME PopPushing(t) PROVE PushesBringNewItems'
    BY <1>0, <1>3, <2>3 DEF PopPushing, GoTo
  <2>4. QED
    BY <1>18, <2>1, <2>2, <2>3 DEF Call, Destructor
<1>19. ASSUME NEW t \in Threads, EndPush(t) PROVE PushesBringNewItems'
  BY <1>3, <1>19, LeaveEffect DEF EndPush
<1>20. QED
  BY <1>1, <1>4, <1>5, <1>6, <1>7, <1>8, <1>9, <1>10, <1>11, <1>12, <1>13, <1>14, <1>15,
     <1>16, <1>17, <1>18, <1>19 DEF Next, Step

-----------------------------------------------------------------------------
\* The inductive invariant.
Inv == TypeOK /\ MutexDiscipline /\ PushesBringNewItems

\* It holds at first ...
LEMMA InitInv == Init => Inv
  BY NobodyAssumption DEF Init, Inv, TypeOK, MonitorTypeOK, MonitorInit, MutexDiscipline,
     PushesBringNewItems, Queued, PCs, Ops, Pops

\* ... and every step preserves it.
LEMMA NextInv == Inv /\ [Next]_vars => Inv'
  BY TypesPreserved, MutexDisciplinePreserved, PushesPreserved DEF Inv

\* Every state has the types the module declares.
THEOREM TypeCorrect == Spec => []TypeOK
  BY InitInv, NextInv, PTL DEF Spec, Inv

\* The mutex is held in critical sections only: of the caller's code that may
\* call the queue again, only the destructor of the item that pop_front takes
\* out finds it held, and locks the queue up if the item was copied and pushes.
THEOREM MutexIsDisciplined == Spec => []MutexDiscipline
  BY InitInv, NextInv, PTL DEF Spec, Inv

-----------------------------------------------------------------------------
\* The threads that are bound to take an item, or to rouse one that will, are
\* finitely many; a set that grows does not get fewer elements.
LEMMA BoundIsFinite ==
  /\ Inv => IsFiniteSet(Bound) /\ Cardinality(Bound) \in Nat
  /\ Inv' => IsFiniteSet(Bound') /\ Cardinality(Bound') \in Nat
  BY ThreadsAssumption, FS_Subset, FS_CardinalityType DEF Inv, TypeOK, MonitorTypeOK, Bound

\* Nobody unlocks what a thread holds that waits for it.
LEMMA StaysLockedUp ==
  ASSUME Inv, [Next]_vars, LockedUp
  PROVE  LockedUp'
<1>0. /\ TypeOK /\ MutexDiscipline /\ pc \in [Threads -> PCs]
  BY DEF Inv, TypeOK
<1>1. PICK t \in Threads : pc[t] = "reentering"
  BY DEF LockedUp
<1>2. ASSUME NEW u \in Threads, pc[u] # "reentering", \A v \in Threads \ {u} : pc'[v] = pc[v]
      PROVE  LockedUp'
  BY <1>1, <1>2 DEF LockedUp
<1>3. ASSUME NEW u \in Threads, Leave(u), pc[u] # "reentering" PROVE LockedUp'
  BY <1>0, <1>2, <1>3, LeaveEffect
<1>4. ASSUME NEW u \in Threads, NEW p \in PCs, GoTo(u, p), pc[u] # "reentering" PROVE LockedUp'
  BY <1>0, <1>2, <1>4 DEF GoTo
<1>5. ASSUME UNCHANGED pc PROVE LockedUp'
  BY <1>5 DEF LockedUp
<1>6. ASSUME NEW u \in Threads,
             PopTake(u) \/ PopGiveUp(u) \/ Cleared(u) \/ Size(u) \/ EndPush(u)
      PROVE  LockedUp'
  BY <1>3, <1>6 DEF PopTake, PopGiveUp, Cleared, Size, EndPush, At
<1>7. ASSUME NEW u \in Threads,
             \/ Guard(u) \/ Push(u) \/ Notify(u) \/ Callback(u) \/ PopWait(u) \/ Timeout(u)
             \/ Swap(u) \/ PopPushing(u)
      PROVE  LockedUp'
  BY <1>4, <1>7 DEF Guard, Push, Notify, Callback, PopWait, Timeout, Swap, PopPushing, At, PCs
<1>8. ASSUME NEW u \in Threads, WakeUp(u) PROVE LockedUp'
  BY <1>0, <1>4, <1>8 DEF MutexDiscipline, WakeUp, Relock, At, PCs
<1>9. ASSUME NEW u \in Threads, Call(u) \/ \E x \in Items : DeletePushing(u, x) \/ ParameterPushing(u, x)
      PROVE  LockedUp'
  BY <1>4, <1>9 DEF Call, CallPush, CallOther, DeletePushing, ParameterPushing, Enter, PCs
<1>10. ASSUME NEW u \in Threads, Delete(u) \/ SpuriousWakeup(u) PROVE LockedUp'
  BY <1>5, <1>10 DEF Delete, SpuriousWakeup, callVars
<1>11. QED
  BY <1>5, <1>6, <1>7, <1>8, <1>9, <1>10 DEF Next, Step, Destructor, vars, callVars

\* No step leaves a consumer asleep beside an item nobody is bound to take.
LEMMA NoLostWakeupPreserved ==
  ASSUME Inv, Inv', NoLostWakeup, [Next]_vars
  PROVE  NoLostWakeup'
<1>0. /\ pc \in [Threads -> PCs] /\ op \in [Threads -> Ops] /\ queue \in Seq(Items)
      /\ sleeping \subseteq Threads /\ woken \subseteq Threads
      /\ Len(queue) \in Nat
  BY LenProperties DEF Inv, TypeOK, MonitorTypeOK
<1>1. IsFiniteSet(Bound) /\ Cardinality(Bound) \in Nat
  BY BoundIsFinite
<1>2. IsFiniteSet(Bound') /\ Cardinality(Bound') \in Nat
  BY BoundIsFinite
\* Nothing was added, nobody fell asleep, and every bound thread still is one.
<1>3. ASSUME sleeping' \subseteq sleeping, queue' = queue, Bound \subseteq Bound'
      PROVE  NoLostWakeup'
  <2>1. Cardinality(Bound) <= Cardinality(Bound')
    BY <1>2, <1>3, FS_Subset
  <2>2. QED
    BY <1>0, <1>1, <1>2, <1>3, <2>1, StaysLockedUp DEF NoLostWakeup
\* There is nothing to be taken.
<1>4. ASSUME queue' = <<>> PROVE NoLostWakeup'
  BY <1>2, <1>4, EmptySeq DEF NoLostWakeup
<1>5. CASE UNCHANGED vars
  BY <1>3, <1>5 DEF vars, monitorVars, callVars, Bound
<1>6. ASSUME NEW t \in Threads, Push(t) PROVE NoLostWakeup'
  <2>1. t \notin Bound /\ Bound' = Bound \cup {t}
    BY <1>0, <1>6 DEF Inv, MutexDiscipline, Push, At, Unlock, GoTo, Bound, Pops
  <2>2. Cardinality(Bound') = Cardinality(Bound) + 1
    BY <1>1, <2>1, FS_AddElement
  <2>3. Len(queue') = Len(queue) + 1
    BY <1>0, <1>6, AppendProperties DEF Inv, PushesBringNewItems, Push, At
  <2>4. sleeping' = sleeping
    BY <1>6 DEF Push, Unlock
  <2>5. QED
    BY <1>0, <1>1, <2>2, <2>3, <2>4, StaysLockedUp DEF NoLostWakeup
\* Taking an item unbinds the thread that takes it, and no other.
<1>7. ASSUME NEW t \in Threads, PopTake(t) PROVE NoLostWakeup'
  <2>1. woken' = woken /\ \A u \in Threads \ {t} : pc'[u] = pc[u] /\ op'[u] = op[u]
    <3>1. TypeOK /\ Leave(t) /\ woken' = woken
      BY <1>7 DEF Inv, PopTake, Unlock
    <3>2. QED
      BY <3>1, LeaveEffect
  <2>2. t \in Bound /\ Bound \ {t} \subseteq Bound'
    BY <1>0, <1>7, <2>1 DEF PopTake, Bound
  <2>3. Cardinality(Bound) - 1 <= Cardinality(Bound')
    <3>1. Cardinality(Bound \ {t}) = Cardinality(Bound) - 1
      BY <1>1, <2>2, FS_RemoveElement
    <3>2. Cardinality(Bound \ {t}) <= Cardinality(Bound')
      BY <1>2, <2>2, FS_Subset
    <3>3. QED
      BY <3>1, <3>2
  <2>4. Len(queue') = Len(queue) - 1
    BY <1>0, <1>7, HeadTailProperties DEF PopTake
  <2>5. sleeping' = sleeping
    BY <1>7 DEF PopTake, Unlock
  <2>6. QED
    BY <1>0, <1>1, <1>2, <2>3, <2>4, <2>5, StaysLockedUp DEF NoLostWakeup
\* A notification passes the duty on from the pusher to the sleeper it rouses.
<1>8. ASSUME NEW t \in Threads, Notify(t) PROVE NoLostWakeup'
  <2>1. queue' = queue
    BY <1>8 DEF Notify
  <2>2. CASE sleeping = {}
    BY <1>8, <2>2 DEF Notify, NotifyOne, monitorVars, NoLostWakeup, Rouse
  <2>3. ASSUME NEW s \in sleeping, Rouse(s) PROVE NoLostWakeup'
    <3>1. s \in Threads /\ s # t /\ s \notin Bound /\ t \in Bound
      BY <1>0, <1>8, <2>3 DEF Inv, MutexDiscipline, Notify, Bound
    <3>2. \A u \in Threads \ {t} : pc'[u] = pc[u] /\ op'[u] = op[u]
      BY <1>0, <1>8 DEF Notify, GoTo
    <3>3. (Bound \ {t}) \cup {s} \subseteq Bound'
      BY <1>0, <2>3, <3>1, <3>2 DEF Rouse, Bound
    <3>4. Cardinality((Bound \ {t}) \cup {s}) = Cardinality(Bound)
      <4>1. IsFiniteSet(Bound \ {t}) /\ Cardinality(Bound \ {t}) = Cardinality(Bound) - 1
        BY <1>1, <3>1, FS_RemoveElement
      <4>2. Cardinality((Bound \ {t}) \cup {s}) = Cardinality(Bound \ {t}) + 1
        BY <3>1, <4>1, FS_AddElement
      <4>3. QED
        BY <1>1, <4>1, <4>2
    <3>5. Cardinality(Bound) <= Cardinality(Bound')
      BY <1>2, <3>3, <3>4, FS_Subset
    <3>6. QED
      BY <1>0, <1>1, <1>2, <2>1, <2>3, <3>5, StaysLockedUp DEF NoLostWakeup
  <2>4. QED
    BY <1>8, <2>2, <2>3 DEF Notify, NotifyOne
<1>9. ASSUME NEW t \in Threads, PopWait(t) PROVE NoLostWakeup'
  BY <1>4, <1>9 DEF PopWait
<1>10. ASSUME NEW t \in Threads, PopGiveUp(t) \/ Swap(t) PROVE NoLostWakeup'
  BY <1>4, <1>10 DEF PopGiveUp, Swap
<1>11. ASSUME NEW t \in Threads, Guard(t) PROVE NoLostWakeup'
  BY <1>0, <1>3, <1>11 DEF Guard, Lock, GoTo, Bound
<1>12. ASSUME NEW t \in Threads, Callback(t) \/ EndPush(t) \/ Cleared(t) PROVE NoLostWakeup'
  BY <1>0, <1>3, <1>12, LeaveEffect DEF Inv, Callback, EndPush, Cleared, GoTo, monitorVars, Bound
<1>13. ASSUME NEW t \in Threads, Size(t) PROVE NoLostWakeup'
  BY <1>0, <1>3, <1>13, LeaveEffect DEF Inv, Size, At, Unlock, Bound, Pops
<1>14. ASSUME NEW t \in Threads, Timeout(t) \/ SpuriousWakeup(t) PROVE NoLostWakeup'
  BY <1>0, <1>3, <1>14 DEF Timeout, SpuriousWakeup, At, Rouse, GoTo, callVars, Bound
<1>15. ASSUME NEW t \in Threads, WakeUp(t) PROVE NoLostWakeup'
  BY <1>0, <1>3, <1>15 DEF Inv, MutexDiscipline, WakeUp, At, Relock, GoTo, Bound
<1>16. ASSUME NEW t \in Threads, Delete(t) PROVE NoLostWakeup'
  BY <1>3, <1>16 DEF Delete, monitorVars, callVars, Bound
<1>17. ASSUME NEW t \in Threads, NEW o \in Ops, NEW x \in Items \cup {NoItem},
              pc[t] \in {"idle", "deleting", "returning"}, Enter(t, o, x)
       PROVE  NoLostWakeup'
  BY <1>0, <1>3, <1>17 DEF Enter, GoTo, monitorVars, Bound
<1>18. ASSUME NEW t \in Threads, PopPushing(t) PROVE NoLostWakeup'
  BY <1>0, <1>18 DEF PopPushing, GoTo, LockedUp, NoLostWakeup
<1>19. ASSUME NEW t \in Threads, Call(t) \/ Destructor(t) PROVE NoLostWakeup'
  BY <1>17, <1>18, <1>19 DEF Call, CallPush, CallOther, Destructor, DeletePushing, ParameterPushing, Ops
<1>20. QED
  BY <1>5, <1>6, <1>7, <1>8, <1>9, <1>10, <1>11, <1>12, <1>13, <1>14, <1>15, <1>16, <1>19
  DEF Next, Step

\* No wakeup is lost: while a consumer sleeps, every item in the queue has a
\* thread under way to it.
THEOREM NoWakeupIsLost == Spec => []NoLostWakeup
<1>1. Init => NoLostWakeup
  BY DEF Init, MonitorInit, NoLostWakeup
<1>2. QED
  BY <1>1, InitInv, NextInv, NoLostWakeupPreserved, PTL DEF Spec

-----------------------------------------------------------------------------
\* Every push is reported once: it makes its thread report, and a thread stops
\* reporting where the callback returns and nowhere else.
LEMMA CallbackPerItemPreserved ==
  ASSUME Inv, CallbackPerItem, [Next]_vars
  PROVE  CallbackPerItem'
<1> SUFFICES ASSUME HasCallback PROVE Len(log') = notified' + Cardinality(Reporting')
  BY DEF CallbackPerItem
<1>0. /\ TypeOK
      /\ pc \in [Threads -> PCs] /\ log \in Seq(Items)
      /\ Len(log) \in Nat /\ notified \in Nat
      /\ Len(log) = notified + Cardinality(Reporting)
  BY LenProperties DEF Inv, TypeOK, CallbackPerItem
<1>1. IsFiniteSet(Reporting) /\ Cardinality(Reporting) \in Nat
  BY ThreadsAssumption, FS_Subset, FS_CardinalityType DEF Reporting
<1>2. CASE UNCHANGED <<log, notified>> /\ Reporting' = Reporting
  BY <1>0, <1>2
<1>3. CASE UNCHANGED vars
  BY <1>2, <1>3 DEF vars, callVars, Reporting
<1>4. ASSUME NEW t \in Threads, Push(t) PROVE Len(log') = notified' + Cardinality(Reporting')
  <2>1. t \notin Reporting /\ Reporting' = Reporting \cup {t}
    BY <1>0, <1>4 DEF Push, At, GoTo, Reporting
  <2>2. Len(log') = Len(log) + 1
    BY <1>0, <1>4, AppendProperties DEF Inv, PushesBringNewItems, Push, At
  <2>3. Cardinality(Reporting') = Cardinality(Reporting) + 1
    BY <1>1, <2>1, FS_AddElement
  <2>4. QED
    BY <1>0, <1>1, <1>4, <2>2, <2>3 DEF Push
<1>5. ASSUME NEW t \in Threads, Callback(t) PROVE Len(log') = notified' + Cardinality(Reporting')
  <2>1. GoTo(t, "returning") /\ log' = log /\ notified' = notified + 1 /\ t \in Reporting
    BY <1>5 DEF Callback, Reporting
  <2>2. Reporting' = Reporting \ {t}
    BY <1>0, <2>1 DEF GoTo, Reporting
  <2>3. Cardinality(Reporting') = Cardinality(Reporting) - 1
    BY <1>1, <2>1, <2>2, FS_RemoveElement
  <2>4. QED
    BY <1>0, <1>1, <2>1, <2>3
<1>6. ASSUME NEW t \in Threads, Notify(t) PROVE Len(log') = notified' + Cardinality(Reporting')
  BY <1>0, <1>2, <1>6 DEF Notify, GoTo, Reporting
<1>7. ASSUME NEW t \in Threads, Leave(t), t \notin Reporting, UNCHANGED <<log, notified>>
      PROVE  Len(log') = notified' + Cardinality(Reporting')
  <2>1. Reporting' = Reporting
    BY <1>0, <1>7, LeaveEffect DEF Reporting
  <2>2. QED
    BY <1>2, <1>7, <2>1
<1>8. ASSUME NEW t \in Threads, PopTake(t) \/ PopGiveUp(t) \/ Size(t) \/ Cleared(t) \/ EndPush(t)
      PROVE  Len(log') = notified' + Cardinality(Reporting')
  BY <1>7, <1>8 DEF PopTake, PopGiveUp, Size, Cleared, EndPush, At, Reporting
<1>9. ASSUME NEW t \in Threads, NEW p \in PCs, GoTo(t, p), t \notin Reporting,
             p \notin {"notify", "callback"}, UNCHANGED <<log, notified>>
      PROVE  Len(log') = notified' + Cardinality(Reporting')
  <2>1. Reporting' = Reporting
    BY <1>0, <1>9 DEF GoTo, Reporting
  <2>2. QED
    BY <1>2, <1>9, <2>1
<1>10. ASSUME NEW t \in Threads,
              Guard(t) \/ PopWait(t) \/ Timeout(t) \/ WakeUp(t) \/ Swap(t) \/ PopPushing(t)
       PROVE  Len(log') = notified' + Cardinality(Reporting')
  BY <1>9, <1>10 DEF Inv, MutexDiscipline, Guard, PopWait, Timeout, WakeUp, Relock, Swap, PopPushing, At,
     Reporting, PCs
<1>11. ASSUME NEW t \in Threads, Delete(t) \/ SpuriousWakeup(t)
       PROVE  Len(log') = notified' + Cardinality(Reporting')
  BY <1>2, <1>11 DEF Delete, SpuriousWakeup, callVars, Reporting
<1>12. ASSUME NEW t \in Threads,
              Call(t) \/ \E x \in Items : DeletePushing(t, x) \/ ParameterPushing(t, x)
       PROVE  Len(log') = notified' + Cardinality(Reporting')
  BY <1>9, <1>12 DEF Call, CallPush, CallOther, DeletePushing, ParameterPushing, Enter, Reporting, PCs
<1>13. QED
  BY <1>3, <1>4, <1>5, <1>6, <1>8, <1>10, <1>11, <1>12 DEF Next, Step, Destructor

\* The callback has been invoked once for every item added, except for those
\* whose push is still under way.
THEOREM CallbackOncePerItem == Spec => []CallbackPerItem
<1>1. Init => CallbackPerItem
  <2> SUFFICES ASSUME Init PROVE Cardinality(Reporting) = 0 /\ Len(log) = 0 /\ notified = 0
    BY DEF CallbackPerItem
  <2>1. Reporting = {}
    BY DEF Init, Reporting
  <2>2. QED
    BY <2>1, FS_EmptySet DEF Init
<1>2. QED
  BY <1>1, InitInv, NextInv, CallbackPerItemPreserved, PTL DEF Spec

-----------------------------------------------------------------------------
\* What the queue holds and what remains of the log are the same, so the front
\* of the queue is the oldest arrival that has not left.
LEMMA QueueIsRestOfLogPreserved ==
  ASSUME Inv, QueueIsRestOfLog, [Next]_vars
  PROVE  QueueIsRestOfLog'
<1>0. /\ queue \in Seq(Items) /\ Len(queue) \in Nat /\ DOMAIN queue = 1..Len(queue)
      /\ log \in Seq(Items) /\ Len(log) \in Nat
  BY LenProperties DEF Inv, TypeOK
<1>1. ASSUME queue' = queue, log' = log PROVE QueueIsRestOfLog'
  BY <1>1 DEF QueueIsRestOfLog
<1>2. ASSUME queue' = <<>>, log' = log PROVE QueueIsRestOfLog'
  BY <1>0, <1>2, EmptySeq DEF QueueIsRestOfLog
<1>3. ASSUME NEW t \in Threads, Push(t) PROVE QueueIsRestOfLog'
  <2>1. item[t] \in Items
    BY <1>3 DEF Inv, PushesBringNewItems, Push, At
  <2>2. /\ queue' \in Seq(Items) /\ Len(queue') = Len(queue) + 1 /\ queue'[Len(queue) + 1] = item[t]
        /\ \A i \in 1..Len(queue) : queue'[i] = queue[i]
    BY <1>0, <1>3, <2>1, AppendProperties DEF Push
  <2>3. /\ Len(log') = Len(log) + 1 /\ log'[Len(log) + 1] = item[t]
        /\ \A i \in 1..Len(log) : log'[i] = log[i]
    BY <1>0, <1>3, <2>1, AppendProperties DEF Push
  <2>4. DOMAIN queue' = 1..Len(queue) + 1
    BY <2>2, LenProperties
  <2>5. ASSUME NEW i \in 1..Len(queue) + 1
        PROVE  queue'[i] = log'[Len(log') - Len(queue') + i]
    <3>1. CASE i = Len(queue) + 1
      BY <1>0, <2>2, <2>3, <3>1
    <3>2. CASE i \in 1..Len(queue)
      <4>1. /\ Len(log') - Len(queue') + i = Len(log) - Len(queue) + i
            /\ Len(log) - Len(queue) + i \in 1..Len(log)
        BY <1>0, <2>2, <2>3, <3>2 DEF QueueIsRestOfLog
      <4>2. QED
        BY <1>0, <2>2, <2>3, <3>2, <4>1 DEF QueueIsRestOfLog
    <3>3. QED
      BY <1>0, <3>1, <3>2
  <2>6. QED
    BY <1>0, <2>2, <2>3, <2>4, <2>5 DEF QueueIsRestOfLog
<1>4. ASSUME NEW t \in Threads, PopTake(t) PROVE QueueIsRestOfLog'
  <2>1. /\ queue' \in Seq(Items) /\ Len(queue') = Len(queue) - 1
        /\ \A i \in 1..Len(queue') : queue'[i] = queue[i + 1]
        /\ log' = log
    BY <1>0, <1>4, HeadTailProperties DEF PopTake
  <2>2. DOMAIN queue' = 1..Len(queue) - 1
    BY <2>1, LenProperties
  <2>3. Len(queue) > 0
    BY <1>0, <1>4, EmptySeq DEF PopTake
  <2>4. ASSUME NEW i \in 1..Len(queue) - 1
        PROVE  queue'[i] = log[Len(log) - Len(queue') + i]
    <3>1. i + 1 \in 1..Len(queue) /\ i \in 1..Len(queue')
      BY <1>0, <2>1
    <3>2. queue'[i] = log[Len(log) - Len(queue) + (i + 1)]
      BY <1>0, <2>1, <3>1 DEF QueueIsRestOfLog
    <3>3. Len(log) - Len(queue) + (i + 1) = Len(log) - Len(queue') + i
      BY <1>0, <2>1
    <3>4. QED
      BY <3>2, <3>3
  <2>5. QED
    BY <1>0, <2>1, <2>2, <2>3, <2>4 DEF QueueIsRestOfLog
<1>5. ASSUME NEW t \in Threads,
             \/ Guard(t) \/ Notify(t) \/ Callback(t) \/ PopWait(t) \/ PopGiveUp(t) \/ Timeout(t)
             \/ SpuriousWakeup(t) \/ WakeUp(t) \/ Delete(t) \/ Cleared(t) \/ Size(t)
             \/ EndPush(t) \/ PopPushing(t)
      PROVE  QueueIsRestOfLog'
  BY <1>1, <1>5 DEF Guard, Notify, Callback, PopWait, PopGiveUp, Timeout, SpuriousWakeup, WakeUp,
     Delete, Cleared, Size, EndPush, PopPushing
<1>6. ASSUME NEW t \in Threads, Swap(t) PROVE QueueIsRestOfLog'
  BY <1>2, <1>6 DEF Swap
<1>7. ASSUME NEW t \in Threads,
             Call(t) \/ \E x \in Items : DeletePushing(t, x) \/ ParameterPushing(t, x)
      PROVE  QueueIsRestOfLog'
  BY <1>1, <1>7 DEF Call, CallPush, CallOther, DeletePushing, ParameterPushing, Enter
<1>8. QED
  BY <1>1, <1>3, <1>4, <1>5, <1>6, <1>7 DEF Next, Step, Destructor, vars

\* Every step is a step of the abstract queue, or one it does not see.
LEMMA StepImplementsFifo ==
  ASSUME Inv, QueueIsRestOfLog, [Next]_vars
  PROVE  [Fifo!Next]_(Fifo!vars)
<1>0. /\ queue \in Seq(Items) /\ Len(queue) \in Nat /\ DOMAIN queue = 1..Len(queue)
      /\ log \in Seq(Items) /\ Len(log) \in Nat /\ Len(queue) <= Len(log)
  BY LenProperties DEF Inv, TypeOK, QueueIsRestOfLog
<1>1. ASSUME queue' = queue, log' = log, out' = out PROVE UNCHANGED Fifo!vars
  BY <1>1 DEF Fifo!vars
<1>2. ASSUME NEW t \in Threads, Push(t) PROVE Fifo!Put(item[t]) /\ item[t] \in Items
  <2>1. item[t] \in Items /\ item[t] \notin Queued
    BY <1>2 DEF Inv, PushesBringNewItems, Push, At
  <2>2. item[t] \notin Fifo!Arrived
    BY <2>1 DEF Queued, Fifo!Arrived
  <2>3. Len(queue') = Len(queue) + 1 /\ Len(log') = Len(log) + 1
    BY <1>0, <1>2, <2>1, AppendProperties DEF Push
  <2>4. QED
    <3>1. Len(log') - Len(queue') = Len(log) - Len(queue)
      BY <1>0, <2>3
    <3>2. QED
      BY <1>2, <2>1, <2>2, <3>1 DEF Push, Fifo!Put
<1>3. ASSUME NEW t \in Threads, PopTake(t) PROVE Fifo!Take(t)
  <2>1. Len(queue) > 0 /\ Head(queue) = queue[1]
    BY <1>0, <1>3, EmptySeq DEF PopTake
  <2>2. Head(queue) = log[Len(log) - Len(queue) + 1]
    BY <1>0, <2>1 DEF QueueIsRestOfLog
  <2>3. Len(queue') = Len(queue) - 1
    BY <1>0, <1>3, HeadTailProperties DEF PopTake
  <2>4. QED
    <3>1. /\ Len(log) - Len(queue) < Len(log)
          /\ Len(log) - Len(queue') = Len(log) - Len(queue) + 1
      BY <1>0, <2>1, <2>3
    <3>2. log' = log /\ out' = [to |-> t, value |-> log[Len(log) - Len(queue) + 1]]
      BY <1>3, <2>2 DEF PopTake, Return
    <3>3. QED
      BY <3>1, <3>2 DEF Fifo!Take, Fifo!Return
<1>4. ASSUME NEW t \in Threads, PopGiveUp(t) PROVE Fifo!GiveUp(t)
  BY <1>0, <1>4, EmptySeq DEF PopGiveUp, Return, Fifo!GiveUp, Fifo!Return
<1>5. ASSUME NEW t \in Threads, Swap(t) PROVE Fifo!Clear
  BY <1>0, <1>5, EmptySeq DEF Swap, Fifo!Clear
<1>6. ASSUME NEW t \in Threads, Size(t) PROVE Fifo!Size(t)
  BY <1>0, <1>6 DEF Size, Return, Fifo!Size, Fifo!Return
<1>7. ASSUME NEW t \in Threads,
             \/ Guard(t) \/ Notify(t) \/ Callback(t) \/ PopWait(t) \/ Timeout(t)
             \/ SpuriousWakeup(t) \/ WakeUp(t) \/ Delete(t) \/ Cleared(t)
             \/ EndPush(t) \/ Call(t) \/ Destructor(t)
      PROVE  UNCHANGED Fifo!vars
  BY <1>1, <1>7 DEF Guard, Notify, Callback, PopWait, Timeout, SpuriousWakeup, WakeUp, Delete,
     Cleared, EndPush, Call, CallPush, CallOther, Destructor, DeletePushing, ParameterPushing,
     PopPushing, Enter
<1>8. CASE UNCHANGED vars
  BY <1>1, <1>8 DEF vars
<1>9. QED
  BY <1>2, <1>3, <1>4, <1>5, <1>6, <1>7, <1>8 DEF Next, Step, Fifo!Next

\* BlockingQueue implements the first-in first-out queue: the push, the pop,
\* the timeout, the clear and the size each take effect at one instant.
THEOREM BlockingQueueIsFifo == Spec => ImplementsFifo
<1>1. Init => Fifo!Init /\ QueueIsRestOfLog
  BY EmptySeq DEF Init, Fifo!Init, QueueIsRestOfLog
<1>2. QED
  BY <1>1, InitInv, NextInv, QueueIsRestOfLogPreserved, StepImplementsFifo, PTL
  DEF Spec, ImplementsFifo, Fifo!Spec

-----------------------------------------------------------------------------
\* How many items have left the queue, and the runs of arrivals that clears are
\* deleting, element by element; nothing arrives twice.
Left == Len(log) - Len(queue)

TrashIsRun(t, i) == i + Len(trash[t]) <= Left + 1 /\ \A k \in 1..Len(trash[t]) : trash[t][k] = log[i + k - 1]

TrashInRuns == \A t \in Threads : \E i \in 1..Left + 1 : TrashIsRun(t, i)

NothingInTwoTrashes ==
  \A t, u \in Threads : \A i \in 1..Len(trash[t]), j \in 1..Len(trash[u]) :
    trash[t][i] = trash[u][j] => t = u /\ i = j

ArrivedOnce == \A i, j \in 1..Len(log) : log[i] = log[j] => i = j

\* A step takes at most the front off a trash, unless it is the swap of a clear.
Shrinks(t) == trash'[t] = trash[t] \/ (trash[t] # <<>> /\ trash'[t] = Tail(trash[t]))

\* Only a swap fills a trash.
LEMMA TrashSteps ==
  ASSUME Inv, [Next]_vars
  PROVE  \/ \A t \in Threads : Shrinks(t)
         \/ \E t \in Threads : Swap(t)
<1>0. TypeOK /\ trash \in [Threads -> Seq(Items)]
  BY DEF Inv, TypeOK
<1>1. ASSUME NEW t \in Threads, Leave(t) PROVE \A u \in Threads : Shrinks(u)
  BY <1>0, <1>1 DEF Leave, Shrinks
<1>2. ASSUME UNCHANGED trash PROVE \A u \in Threads : Shrinks(u)
  BY <1>2 DEF Shrinks
<1>3. ASSUME NEW t \in Threads, Delete(t) PROVE \A u \in Threads : Shrinks(u)
  BY <1>0, <1>3 DEF Delete, Shrinks
<1>4. ASSUME NEW t \in Threads,
             PopTake(t) \/ PopGiveUp(t) \/ Cleared(t) \/ Size(t) \/ EndPush(t)
      PROVE  \A u \in Threads : Shrinks(u)
  BY <1>1, <1>4 DEF PopTake, PopGiveUp, Cleared, Size, EndPush
<1>5. ASSUME NEW t \in Threads,
             \/ Guard(t) \/ Push(t) \/ Notify(t) \/ Callback(t) \/ PopWait(t) \/ Timeout(t)
             \/ SpuriousWakeup(t) \/ WakeUp(t) \/ Call(t) \/ Destructor(t)
      PROVE  \A u \in Threads : Shrinks(u)
  BY <1>2, <1>5 DEF Guard, Push, Notify, Callback, PopWait, Timeout, SpuriousWakeup, WakeUp, Call,
     CallPush, CallOther, Destructor, DeletePushing, ParameterPushing, PopPushing, Enter
<1>6. CASE UNCHANGED vars
  BY <1>2, <1>6 DEF vars
<1>7. QED
  BY <1>3, <1>4, <1>5, <1>6 DEF Next, Step

\* What has left the queue stays in the log, and no push brings it again.
LEMMA LogSteps ==
  ASSUME Inv, QueueIsRestOfLog, ArrivedOnce, [Next]_vars
  PROVE  /\ ArrivedOnce'
         /\ Left \in Nat /\ Left <= Len(log) /\ Left' \in Nat /\ Left <= Left'
         /\ \A i \in 1..Left : log'[i] = log[i]
<1>0. /\ queue \in Seq(Items) /\ Len(queue) \in Nat /\ log \in Seq(Items) /\ Len(log) \in Nat
      /\ Len(queue) <= Len(log)
  BY LenProperties DEF Inv, TypeOK, QueueIsRestOfLog
<1>1. ASSUME UNCHANGED <<queue, log>>
      PROVE  ArrivedOnce' /\ Left' = Left /\ \A i \in 1..Left : log'[i] = log[i]
  BY <1>1 DEF ArrivedOnce, Left
<1>2. ASSUME NEW t \in Threads, Push(t)
      PROVE  ArrivedOnce' /\ Left' = Left /\ \A i \in 1..Left : log'[i] = log[i]
  <2>1. item[t] \in Items /\ item[t] \notin Queued
    BY <1>2 DEF Inv, PushesBringNewItems, Push, At
  <2>2. /\ Len(log') = Len(log) + 1 /\ log'[Len(log) + 1] = item[t]
        /\ \A i \in 1..Len(log) : log'[i] = log[i] /\ log[i] # item[t]
        /\ Len(queue') = Len(queue) + 1
    BY <1>0, <1>2, <2>1, AppendProperties DEF Push, Queued
  <2>3. 1..Len(log) + 1 = 1..Len(log) \cup {Len(log) + 1}
    BY <1>0
  <2>4. ArrivedOnce'
    BY <2>2, <2>3 DEF ArrivedOnce
  <2>5. QED
    BY <1>0, <2>2, <2>4 DEF Left
<1>3. ASSUME NEW t \in Threads, PopTake(t)
      PROVE  ArrivedOnce' /\ Left' = Left + 1 /\ \A i \in 1..Left : log'[i] = log[i]
  <2>1. Len(queue') = Len(queue) - 1 /\ log' = log
    BY <1>0, <1>3, HeadTailProperties DEF PopTake
  <2>2. QED
    BY <1>0, <2>1 DEF ArrivedOnce, Left
<1>4. ASSUME NEW t \in Threads, Swap(t)
      PROVE  ArrivedOnce' /\ Left' = Len(log) /\ \A i \in 1..Left : log'[i] = log[i]
  <2>1. Len(queue') = 0 /\ log' = log
    BY <1>4, EmptySeq DEF Swap
  <2>2. QED
    BY <1>0, <2>1 DEF ArrivedOnce, Left
<1>5. ASSUME NEW t \in Threads,
             \/ Guard(t) \/ Notify(t) \/ Callback(t) \/ PopWait(t) \/ PopGiveUp(t) \/ Timeout(t)
             \/ SpuriousWakeup(t) \/ WakeUp(t) \/ Delete(t) \/ Cleared(t) \/ Size(t)
             \/ EndPush(t) \/ Call(t) \/ Destructor(t)
      PROVE  UNCHANGED <<queue, log>>
  BY <1>5 DEF Guard, Notify, Callback, PopWait, PopGiveUp, Timeout, SpuriousWakeup, WakeUp, Delete,
     Cleared, Size, EndPush, Call, CallPush, CallOther, Destructor, DeletePushing, ParameterPushing,
     PopPushing, Enter
<1>6. CASE UNCHANGED vars
  BY <1>0, <1>1, <1>6 DEF vars, Left
<1>7. Left \in Nat /\ Left <= Len(log)
  BY <1>0 DEF Left
<1>8. QED
  BY <1>0, <1>1, <1>2, <1>3, <1>4, <1>5, <1>6, <1>7 DEF Next, Step

\* A trash that has lost its front is still a run, starting one later.
LEMMA ShrunkIsRun ==
  ASSUME Inv, NEW t \in Threads, Shrinks(t), NEW i \in 1..Left + 1, TrashIsRun(t, i),
         Left \in Nat, Left' \in Nat, Left <= Left', \A k \in 1..Left : log'[k] = log[k]
  PROVE  \E j \in 1..Left' + 1 : TrashIsRun(t, j)'
<1>0. trash[t] \in Seq(Items) /\ Len(trash[t]) \in Nat
  BY LenProperties DEF Inv, TypeOK
<1>1. CASE trash'[t] = trash[t]
  <2>1. i \in 1..Left' + 1
    OBVIOUS
  <2>2. i + Len(trash'[t]) <= Left' + 1
    BY <1>0, <1>1 DEF TrashIsRun
  <2>3. ASSUME NEW k \in 1..Len(trash'[t]) PROVE trash'[t][k] = log'[i + k - 1]
    <3>1. k \in 1..Len(trash[t]) /\ i + k - 1 \in 1..Left
      BY <1>0, <1>1 DEF TrashIsRun
    <3>2. QED
      BY <1>1, <3>1 DEF TrashIsRun
  <2>4. QED
    BY <2>1, <2>2, <2>3 DEF TrashIsRun
<1>2. CASE trash[t] # <<>> /\ trash'[t] = Tail(trash[t])
  <2> DEFINE n == Len(trash[t])
  <2>0. n \in Nat \ {0} /\ i + n <= Left + 1 /\ i \in Nat
    BY <1>0, <1>2, EmptySeq DEF TrashIsRun
  <2>1. /\ Len(trash'[t]) = n - 1
        /\ \A k \in 1..Len(trash'[t]) : trash'[t][k] = trash[t][k + 1]
    BY <1>0, <1>2, HeadTailProperties
  <2> HIDE DEF n
  <2>2. i + 1 \in 1..Left' + 1
    BY <2>0
  <2>3. i + 1 + Len(trash'[t]) <= Left' + 1
    <3>1. i + 1 + (n - 1) <= Left' + 1
      BY <2>0
    <3>2. QED
      BY <2>1, <3>1
  <2>4. ASSUME NEW k \in 1..Len(trash'[t]) PROVE trash'[t][k] = log'[i + 1 + k - 1]
    <3>1. k + 1 \in 1..n /\ i + (k + 1) - 1 \in 1..Left /\ i + 1 + k - 1 = i + (k + 1) - 1
      BY <2>0, <2>1
    <3>2. trash[t][k + 1] = log[i + (k + 1) - 1]
      BY <3>1 DEF TrashIsRun, n
    <3>3. QED
      BY <2>1, <3>1, <3>2
  <2>5. QED
    BY <2>2, <2>3, <2>4 DEF TrashIsRun
<1>3. QED
  BY <1>1, <1>2 DEF Shrinks

\* Nor does it hold anything that it did not hold before.
LEMMA ShrunkIsPart ==
  ASSUME Inv, NEW t \in Threads, Shrinks(t)
  PROVE  \E d \in {0, 1} : \A k \in 1..Len(trash'[t]) : /\ k + d \in 1..Len(trash[t])
                                                        /\ trash'[t][k] = trash[t][k + d]
<1>0. trash[t] \in Seq(Items) /\ Len(trash[t]) \in Nat
  BY LenProperties DEF Inv, TypeOK
<1>1. CASE trash'[t] = trash[t]
  <2>1. \A k \in 1..Len(trash'[t]) : k + 0 \in 1..Len(trash[t]) /\ trash'[t][k] = trash[t][k + 0]
    <3>1. \A k \in 1..Len(trash[t]) : k + 0 = k
      BY <1>0
    <3>2. QED
      BY <1>1, <3>1
  <2>2. QED
    BY <2>1
<1>2. CASE trash[t] # <<>> /\ trash'[t] = Tail(trash[t])
  <2>1. /\ Len(trash'[t]) = Len(trash[t]) - 1
        /\ \A k \in 1..Len(trash'[t]) : trash'[t][k] = trash[t][k + 1]
    BY <1>0, <1>2, HeadTailProperties
  <2>2. \A k \in 1..Len(trash'[t]) : k + 1 \in 1..Len(trash[t]) /\ trash'[t][k] = trash[t][k + 1]
    BY <1>0, <2>1
  <2>3. QED
    BY <2>2
<1>3. QED
  BY <1>1, <1>2 DEF Shrinks

\* A swap takes everything that is left of the log, which no other clear holds.
LEMMA SwapTakesTheRest ==
  ASSUME Inv, QueueIsRestOfLog, NEW t \in Threads, Swap(t)
  PROVE  /\ Left \in Nat /\ Len(log) \in Nat /\ Left <= Len(log) /\ Left' = Len(log) /\ log' = log
         /\ Len(trash'[t]) = Len(log) - Left
         /\ \A k \in 1..Len(trash'[t]) : Left + k \in 1..Len(log) /\ trash'[t][k] = log[Left + k]
         /\ \A u \in Threads \ {t} : trash'[u] = trash[u]
<1>1. /\ queue \in Seq(Items) /\ Len(queue) \in Nat /\ DOMAIN queue = 1..Len(queue) /\ Len(log) \in Nat
      /\ Len(queue) <= Len(log)
      /\ \A i \in 1..Len(queue) : queue[i] = log[Len(log) - Len(queue) + i]
  BY LenProperties DEF Inv, TypeOK, QueueIsRestOfLog
<1>2. trash'[t] = queue /\ log' = log /\ Len(queue') = 0 /\ \A u \in Threads \ {t} : trash'[u] = trash[u]
  BY EmptySeq DEF Inv, TypeOK, Swap
<1>3. Left \in Nat /\ Left <= Len(log) /\ Left' = Len(log) /\ Len(queue) = Len(log) - Left
  BY <1>1, <1>2 DEF Left
<1>4. \A k \in 1..Len(queue) : Left + k \in 1..Len(log) /\ queue[k] = log[Left + k]
  BY <1>1, <1>3 DEF Left
<1>5. QED
  BY <1>1, <1>2, <1>3, <1>4

\* Every trash stays a run of the log, and no item gets into two of them.
LEMMA TrashPreserved ==
  ASSUME Inv, QueueIsRestOfLog, ArrivedOnce, TrashInRuns, NothingInTwoTrashes, [Next]_vars
  PROVE  TrashInRuns' /\ NothingInTwoTrashes'
<1>0. /\ Left \in Nat /\ Left <= Len(log) /\ Left' \in Nat /\ Left <= Left'
      /\ \A i \in 1..Left : log'[i] = log[i]
  BY LogSteps
<1>1. CASE \A t \in Threads : Shrinks(t)
  <2>1. TrashInRuns'
    <3>1. ASSUME NEW t \in Threads PROVE \E j \in 1..Left' + 1 : TrashIsRun(t, j)'
      <4>1. PICK i \in 1..Left + 1 : TrashIsRun(t, i)
        BY DEF TrashInRuns
      <4>2. Shrinks(t)
        BY <1>1
      <4>3. QED
        BY <1>0, <4>1, <4>2, ShrunkIsRun
    <3>2. QED
      BY <3>1 DEF TrashInRuns
  <2>2. NothingInTwoTrashes'
    <3> SUFFICES ASSUME NEW t \in Threads, NEW u \in Threads,
                        NEW i \in 1..Len(trash'[t]), NEW j \in 1..Len(trash'[u]),
                        trash'[t][i] = trash'[u][j]
                 PROVE  t = u /\ i = j
      BY DEF NothingInTwoTrashes
    <3>1. PICK d \in {0, 1} : \A k \in 1..Len(trash'[t]) : /\ k + d \in 1..Len(trash[t])
                                                           /\ trash'[t][k] = trash[t][k + d]
      BY <1>1, ShrunkIsPart
    <3>2. CASE t = u
      <4>0. /\ i + d \in 1..Len(trash[t]) /\ j + d \in 1..Len(trash[t])
            /\ trash[t][i + d] = trash[t][j + d]
        BY <3>1, <3>2
      <4>1. i + d = j + d
        BY <4>0 DEF NothingInTwoTrashes
      <4>2. i \in Int /\ j \in Int /\ d \in Int
        BY <3>1
      <4>3. QED
        BY <3>2, <4>1, <4>2
    <3>3. PICK e \in {0, 1} : \A k \in 1..Len(trash'[u]) : /\ k + e \in 1..Len(trash[u])
                                                           /\ trash'[u][k] = trash[u][k + e]
      BY <1>1, ShrunkIsPart
    <3>4. t = u
      <4>1. /\ i + d \in 1..Len(trash[t]) /\ j + e \in 1..Len(trash[u])
            /\ trash[t][i + d] = trash[u][j + e]
        BY <3>1, <3>3
      <4>2. QED
        BY <4>1 DEF NothingInTwoTrashes
    <3>5. QED
      BY <3>2, <3>4
  <2>3. QED
    BY <2>1, <2>2
<1>2. ASSUME NEW t \in Threads, Swap(t) PROVE TrashInRuns' /\ NothingInTwoTrashes'
  <2> PICK l \in Nat : l = Left
    BY <1>0
  <2>0. /\ Len(log) \in Nat /\ Left' = Len(log) /\ log' = log
        /\ Len(trash'[t]) = Len(log) - l
        /\ \A k \in 1..Len(trash'[t]) : l + k \in 1..Len(log) /\ trash'[t][k] = log[l + k]
        /\ \A u \in Threads \ {t} : trash'[u] = trash[u]
    BY <1>2, SwapTakesTheRest
  <2>1. TrashIsRun(t, l + 1)' /\ l + 1 \in 1..Left' + 1
    <3>1. l + 1 + Len(trash'[t]) <= Left' + 1 /\ l + 1 \in 1..Left' + 1
      BY <1>0, <2>0
    <3>2. ASSUME NEW k \in 1..Len(trash'[t]) PROVE trash'[t][k] = log'[l + 1 + k - 1]
      <4>1. l + 1 + k - 1 = l + k
        BY <2>0
      <4>2. QED
        BY <2>0, <4>1
    <3>3. QED
      BY <3>1, <3>2 DEF TrashIsRun
  <2>2. TrashInRuns'
    <3>1. ASSUME NEW u \in Threads \ {t} PROVE \E j \in 1..Left' + 1 : TrashIsRun(u, j)'
      <4>1. PICK i \in 1..Left + 1 : TrashIsRun(u, i)
        BY DEF TrashInRuns
      <4>2. Shrinks(u)
        BY <2>0 DEF Shrinks
      <4>3. QED
        BY <1>0, <4>1, <4>2, ShrunkIsRun
    <3>2. QED
      BY <2>1, <3>1 DEF TrashInRuns
  \* What a clear holds already had left the queue; what this one takes had not.
  <2>3. ASSUME NEW u \in Threads \ {t}, NEW i \in 1..Len(trash'[u]), NEW j \in 1..Len(trash'[t])
        PROVE  trash'[u][i] # trash'[t][j]
    <3>1. PICK p \in 1..Left + 1 : TrashIsRun(u, p)
      BY DEF TrashInRuns
    <3>2. trash[u] \in Seq(Items) /\ Len(trash[u]) \in Nat /\ i \in 1..Len(trash[u])
      BY <2>0, LenProperties DEF Inv, TypeOK
    <3>3. p + i - 1 \in 1..Left /\ trash'[u][i] = log[p + i - 1]
      BY <1>0, <2>0, <3>1, <3>2 DEF TrashIsRun
    <3>4. l + j \in 1..Len(log) /\ trash'[t][j] = log[l + j] /\ p + i - 1 \in 1..Len(log)
      BY <1>0, <2>0, <3>3
    <3>5. p + i - 1 # l + j
      BY <1>0, <3>3
    <3>6. QED
      BY <3>3, <3>4, <3>5 DEF ArrivedOnce
  <2>4. ASSUME NEW i \in 1..Len(trash'[t]), NEW j \in 1..Len(trash'[t]), trash'[t][i] = trash'[t][j]
        PROVE  i = j
    <3>1. l + i \in 1..Len(log) /\ l + j \in 1..Len(log) /\ log[l + i] = log[l + j]
      BY <2>0, <2>4
    <3>2. l + i = l + j
      BY <3>1 DEF ArrivedOnce
    <3>3. QED
      BY <1>0, <3>2
  <2>5. NothingInTwoTrashes'
    <3> SUFFICES ASSUME NEW u \in Threads, NEW v \in Threads,
                        NEW i \in 1..Len(trash'[u]), NEW j \in 1..Len(trash'[v]),
                        trash'[u][i] = trash'[v][j]
                 PROVE  u = v /\ i = j
      BY DEF NothingInTwoTrashes
    <3>1. CASE u = t /\ v = t
      BY <2>4, <3>1
    <3>2. CASE u # t /\ v # t
      BY <2>0, <3>2 DEF NothingInTwoTrashes
    <3>3. CASE (u = t /\ v # t) \/ (u # t /\ v = t)
      BY <2>3, <3>3
    <3>4. QED
      BY <3>1, <3>2, <3>3
  <2>6. QED
    BY <2>2, <2>5
<1>3. QED
  BY <1>1, <1>2, TrashSteps

\* Runs of the log, described as the model does.
LEMMA RunsAreInOrder ==
  ASSUME Inv, QueueIsRestOfLog, TrashInRuns, NothingInTwoTrashes
  PROVE  TrashInArrivalOrder
<1>1. /\ log \in Seq(Items) /\ Len(log) \in Nat /\ Len(queue) \in Nat /\ Len(queue) <= Len(log)
      /\ \A t \in Threads : trash[t] \in Seq(Items)
  BY LenProperties DEF Inv, TypeOK, QueueIsRestOfLog
<1>2. ASSUME NEW t \in Threads
      PROVE  \E i \in 1..Left + 1 : /\ i + Len(trash[t]) <= Left + 1
                                    /\ trash[t] = SubSeq(log, i, i + Len(trash[t]) - 1)
  <2> DEFINE n == Len(trash[t])
  <2>1. PICK i \in 1..Left + 1 : TrashIsRun(t, i)
    BY DEF TrashInRuns
  <2>2. n \in Nat /\ i + n <= Left + 1 /\ Left \in Nat /\ Left <= Len(log)
    BY <1>1, <2>1, LenProperties DEF TrashIsRun, Left
  <2> HIDE DEF n
  <2>3. \A k \in i..i + n - 1 : log[k] \in Items
    <3>1. \A k \in i..i + n - 1 : k \in 1..Len(log)
      BY <1>1, <2>2
    <3>2. QED
      BY <1>1, <3>1, ElementOfSeq
  <2> DEFINE s == SubSeq(log, i, i + n - 1)
  <2>4. /\ s \in Seq(Items) /\ Len(s) = IF i <= i + n - 1 THEN i + n - 1 - i + 1 ELSE 0
        /\ \A k \in 1..i + n - 1 - i + 1 : s[k] = log[i + k - 1]
    BY <2>2, <2>3, SubSeqProperties
  <2> HIDE DEF s
  <2>5. i + n - 1 - i + 1 = n /\ Len(s) = n
    BY <2>2, <2>4
  <2>6. \A k \in 1..n : s[k] = log[i + k - 1]
    BY <2>4, <2>5
  <2>7. \A k \in 1..Len(trash[t]) : trash[t][k] = s[k]
    BY <2>1, <2>6 DEF TrashIsRun, n
  <2>8. trash[t] = s
    BY <1>1, <2>4, <2>5, <2>7, SeqEqual DEF n
  <2>9. QED
    BY <2>2, <2>8 DEF s, n
<1>3. \A t \in Threads : DOMAIN trash[t] = 1..Len(trash[t])
  BY <1>1, LenProperties
<1>4. \A t, u \in Threads : \A i \in DOMAIN trash[t], j \in DOMAIN trash[u] :
        trash[t][i] = trash[u][j] => t = u /\ i = j
  BY <1>3 DEF NothingInTwoTrashes
<1>5. QED
  BY <1>2, <1>4 DEF TrashInArrivalOrder, Left

\* What clears are deleting left the queue together, in the order of arrival, and
\* no item is deleted by two of them.
THEOREM TrashIsInOrder == Spec => []TrashInArrivalOrder
<1>1. Init => QueueIsRestOfLog /\ ArrivedOnce /\ TrashInRuns /\ NothingInTwoTrashes
  <2> SUFFICES ASSUME Init
               PROVE  QueueIsRestOfLog /\ ArrivedOnce /\ TrashInRuns /\ NothingInTwoTrashes
    OBVIOUS
  <2>1. /\ Len(queue) = 0 /\ Len(log) = 0 /\ DOMAIN queue = {}
        /\ \A t \in Threads : Len(trash[t]) = 0
    BY DEF Init
  <2>2. TrashInRuns
    <3>1. Left = 0 /\ 1 \in 1..0 + 1
      BY <2>1 DEF Left
    <3>2. \A t \in Threads : TrashIsRun(t, 1)
      BY <2>1, <3>1 DEF TrashIsRun
    <3>3. QED
      BY <3>1, <3>2 DEF TrashInRuns
  <2>3. QED
    BY <2>1, <2>2 DEF QueueIsRestOfLog, ArrivedOnce, NothingInTwoTrashes
<1>2. QED
  BY <1>1, InitInv, NextInv, QueueIsRestOfLogPreserved, LogSteps, TrashPreserved, RunsAreInOrder, PTL
  DEF Spec

-----------------------------------------------------------------------------
\* Calls do not hold each other up for good, and do not keep each other going.

\* A thread inside a member function can make a step of its own: it does not
\* sleep without a timeout, and does not need a mutex that somebody has.
Moves(t) ==
  \/ (pc[t] = "lock" \/ t \in woken) /\ owner = Nobody
  \/ pc[t] = "critical" /\ op[t] # "none"
  \/ pc[t] = "expired" /\ op[t] \in Pops
  \/ pc[t] \in {"notify", "callback", "returning", "deleting"}
  \/ t \in sleeping /\ op[t] = "pop_for"

\* Nobody is in a call, or sleeps in a pop_front without a timeout and there is
\* nothing to pop, or somebody can go on, unless the destructor of an item that
\* was copied has pushed in a pop_front.
NobodyIsStuck ==
  \/ LockedUp
  \/ \E t \in Threads : Moves(t)
  \/ \A t \in Threads : pc[t] = "idle" \/ (t \in sleeping /\ op[t] = "pop" /\ queue = <<>>)

\* Whoever has locked the mutex knows what for.
InCriticalSections ==
  \A t \in Threads :
    /\ pc[t] \in {"lock", "critical"} => op[t] # "none"
    /\ pc[t] = "expired" => op[t] \in Pops

\* The steps of a call until it returns or its thread falls asleep, with those
\* its notification brings another thread.  An item is one more step, in the
\* queue and in the trash.
CallSteps(t) ==
  IF pc[t] = "lock" THEN IF op[t] = "push" THEN 8 ELSE 5
  ELSE IF pc[t] = "critical" THEN IF op[t] = "push" THEN 7 ELSE 4
  ELSE IF pc[t] = "notify" THEN 5
  ELSE IF pc[t] = "waiting" THEN IF t \in woken THEN 5 ELSE 3
  ELSE IF pc[t] \in {"callback", "timedout"} THEN 2
  ELSE IF pc[t] \in {"expired", "returning", "deleting"} THEN 1
  ELSE 0

Holders == Threads \cup {Nobody}
StepsOf == [h \in Holders |->
             IF h = Nobody THEN Len(queue) ELSE CallSteps(h) + Len(trash[h])]

\* The steps are counted as pairs of a thread and a number.
Pairs(f, S) == UNION {{h} \X (1..f[h]) : h \in S}
StepsLeft == Cardinality(Pairs(StepsOf, Holders))

FewerStepsLeft ==
  /\ StepsLeft \in Nat /\ StepsLeft' \in Nat
  /\ (\E t \in Threads : Step(t)) => StepsLeft' < StepsLeft

LEMMA InCriticalSectionsPreserved ==
  ASSUME Inv, InCriticalSections, [Next]_vars
  PROVE  InCriticalSections'
<1>0. /\ pc \in [Threads -> PCs] /\ op \in [Threads -> Ops]
      /\ TypeOK /\ MutexDiscipline
  BY DEF Inv, TypeOK
<1> USE DEF InCriticalSections, Pops
<1>1. CASE UNCHANGED vars
  BY <1>1 DEF vars, callVars
<1>2. ASSUME NEW t \in Threads, Leave(t) PROVE InCriticalSections'
  BY <1>0, <1>2, LeaveEffect
<1>3. ASSUME NEW t \in Threads, NEW o \in Ops \ {"none"}, NEW x, Enter(t, o, x)
      PROVE  InCriticalSections'
  BY <1>0, <1>3 DEF Enter, GoTo
<1>4. ASSUME NEW t \in Threads, Guard(t) PROVE InCriticalSections'
  BY <1>0, <1>4 DEF Guard, GoTo
<1>5. ASSUME NEW t \in Threads, WakeUp(t) PROVE InCriticalSections'
  BY <1>0, <1>5 DEF WakeUp, GoTo, At, MutexDiscipline, Relock
<1>6. ASSUME NEW t \in Threads, Push(t) \/ PopWait(t) \/ Timeout(t) \/ Swap(t)
      PROVE  InCriticalSections'
  BY <1>0, <1>6 DEF Push, PopWait, Timeout, Swap, GoTo
<1>7. ASSUME NEW t \in Threads, Notify(t) \/ Callback(t) \/ PopPushing(t) PROVE InCriticalSections'
  BY <1>0, <1>7 DEF Notify, Callback, PopPushing, GoTo
<1>8. ASSUME NEW t \in Threads, PopTake(t) \/ PopGiveUp(t) \/ Cleared(t) \/ Size(t) \/ EndPush(t)
      PROVE  InCriticalSections'
  BY <1>2, <1>8 DEF PopTake, PopGiveUp, Cleared, Size, EndPush
<1>9. ASSUME NEW t \in Threads, Delete(t) \/ SpuriousWakeup(t) PROVE InCriticalSections'
  BY <1>0, <1>9 DEF Delete, SpuriousWakeup, callVars
<1>10. ASSUME NEW t \in Threads,
              Call(t) \/ \E x \in Items : DeletePushing(t, x) \/ ParameterPushing(t, x)
       PROVE  InCriticalSections'
  BY <1>3, <1>10 DEF Call, CallPush, CallOther, DeletePushing, ParameterPushing, Ops
<1>11. QED
  BY <1>1, <1>4, <1>5, <1>6, <1>7, <1>8, <1>9, <1>10 DEF Next, Step, Destructor

\* If nobody can go on, the mutex is free and nobody waits for it: those in a call
\* sleep, nobody has been roused and nobody is about to notify, so that no wakeup
\* is lost means that there is nothing to pop.
LEMMA NotStuck ==
  ASSUME Inv, InCriticalSections, NoLostWakeup
  PROVE  NobodyIsStuck
<1>0. /\ MutexDiscipline /\ pc \in [Threads -> PCs] /\ queue \in Seq(Items) /\ Len(queue) \in Nat
      /\ owner \in Threads \cup {Nobody} /\ woken \subseteq Threads
  BY LenProperties DEF Inv, TypeOK, MonitorTypeOK
<1> SUFFICES ASSUME ~LockedUp, \A t \in Threads : ~Moves(t)
             PROVE  \A t \in Threads :
                      pc[t] = "idle" \/ (t \in sleeping /\ op[t] = "pop" /\ queue = <<>>)
  BY DEF NobodyIsStuck
<1>1. \A t \in Threads :
        pc[t] \notin {"critical", "expired", "reentering", "notify", "callback", "returning", "deleting"}
  BY DEF Moves, InCriticalSections, LockedUp
<1>2. owner = Nobody
  BY <1>0, <1>1 DEF MutexDiscipline
<1>3. woken = {} /\ \A t \in Threads : pc[t] # "lock"
  BY <1>0, <1>2 DEF Moves
<1>4. \A t \in Threads : pc[t] \in {"idle", "waiting", "timedout"}
  BY <1>0, <1>1, <1>3 DEF PCs
<1>5. \A t \in Threads : pc[t] = "idle" \/ (t \in sleeping /\ op[t] = "pop")
  BY <1>0, <1>3, <1>4 DEF MutexDiscipline, Moves, Pops
<1>6. ASSUME sleeping # {} PROVE queue = <<>>
  <2>1. Bound = {}
    BY <1>1, <1>3 DEF Bound
  <2>2. Len(queue) <= 0
    BY <1>6, <2>1, FS_EmptySet DEF NoLostWakeup
  <2>3. QED
    BY <1>0, <2>2, EmptySeq
<1>7. QED
  BY <1>5, <1>6

\* However many threads there are and wherever they are in their calls, one of
\* them can go on, unless all that are in a call are in a pop_front without a
\* timeout and there is nothing to pop.
THEOREM SomebodyGoesOn == Spec => []NobodyIsStuck
<1>1. Init => InCriticalSections
  BY DEF Init, InCriticalSections
<1>2. Init => NoLostWakeup
  BY DEF Init, MonitorInit, NoLostWakeup
<1>3. QED
  BY <1>1, <1>2, InitInv, NextInv, NoLostWakeupPreserved, InCriticalSectionsPreserved, NotStuck, PTL
  DEF Spec

-----------------------------------------------------------------------------
\* Of finitely many things that have each a number, the pairs are finitely many ...
LEMMA PairsFinite ==
  ASSUME NEW S, IsFiniteSet(S), NEW f, \A h \in S : f[h] \in Nat
  PROVE  IsFiniteSet(Pairs(f, S)) /\ Cardinality(Pairs(f, S)) \in Nat
<1> DEFINE row   == [h \in S |-> {h} \X (1..f[h])]
           rows  == {{h} \X (1..f[h]) : h \in S}
<1>1. row \in Surjection(S, rows)
  BY DEF Surjection
<1>2. IsFiniteSet(rows)
  BY <1>1, FS_Surjection
<1>3. ASSUME NEW h \in S PROVE IsFiniteSet({h} \X (1..f[h]))
  <2>1. 1 \in Int /\ f[h] \in Int
    OBVIOUS
  <2>2. IsFiniteSet(1..f[h])
    BY <2>1, FS_Interval
  <2>3. IsFiniteSet({h})
    BY FS_Singleton
  <2>4. QED
    BY <2>2, <2>3, FS_Product
<1>4. IsFiniteSet(UNION rows)
  BY <1>2, <1>3, FS_UNION
<1>5. QED
  BY <1>4, FS_CardinalityType DEF Pairs

\* ... and as many as the numbers of two of them and the pairs of the others.
LEMMA PairsOfTwo ==
  ASSUME NEW S, IsFiniteSet(S), NEW f, \A h \in S : f[h] \in Nat,
         NEW a \in S, NEW b \in S, a # b
  PROVE  Cardinality(Pairs(f, S)) = Cardinality(Pairs(f, S \ {a, b})) + f[a] + f[b]
<1> DEFINE rest == Pairs(f, S \ {a, b})
           mine == {a} \X (1..f[a])
           yours == {b} \X (1..f[b])
<1>1. IsFiniteSet(rest) /\ Cardinality(rest) \in Nat
  <2>1. IsFiniteSet(S \ {a, b})
    BY FS_Difference
  <2>2. QED
    BY <2>1, PairsFinite
<1>2. ASSUME NEW h \in S
      PROVE  IsFiniteSet({h} \X (1..f[h])) /\ Cardinality({h} \X (1..f[h])) = f[h]
  <2>1. 1 \in Int /\ f[h] \in Int /\ f[h] \in Nat
    OBVIOUS
  <2>2. IsFiniteSet(1..f[h]) /\ Cardinality(1..f[h]) = f[h]
    BY SMTT(30), <2>1, FS_Interval
  <2>3. IsFiniteSet({h}) /\ Cardinality({h}) = 1
    BY FS_Singleton
  <2>4. /\ IsFiniteSet({h} \X (1..f[h]))
        /\ Cardinality({h} \X (1..f[h])) = Cardinality({h}) * Cardinality(1..f[h])
    BY <2>2, <2>3, FS_Product
  <2>5. QED
    BY <2>1, <2>2, <2>3, <2>4
<1>3. /\ Pairs(f, S) = (rest \cup mine) \cup yours
      /\ rest \cap mine = {} /\ (rest \cup mine) \cap yours = {}
  BY DEF Pairs
<1>4. IsFiniteSet(mine) /\ Cardinality(mine) = f[a] /\ IsFiniteSet(yours) /\ Cardinality(yours) = f[b]
  BY <1>2
<1> HIDE DEF rest, mine, yours
<1>5. Cardinality({}) = 0
  BY FS_EmptySet
<1> DEFINE both == rest \cup mine
<1>6. IsFiniteSet(both) /\ Cardinality(both) = Cardinality(rest) + f[a]
  <2>1. /\ IsFiniteSet(both)
        /\ Cardinality(both) = Cardinality(rest) + Cardinality(mine) - Cardinality(rest \cap mine)
    BY <1>1, <1>4, FS_Union
  <2>2. f[a] \in Nat
    OBVIOUS
  <2>3. /\ Cardinality(rest \cap mine) = 0
        /\ Cardinality(both) = Cardinality(rest) + f[a] - 0
    BY <1>3, <1>4, <1>5, <2>1, Zenon
  <2>4. QED
    BY <1>1, <2>1, <2>2, <2>3
<1> HIDE DEF both
<1>7. Cardinality(both \cup yours) = Cardinality(rest) + f[a] + f[b]
  <2>1. Cardinality(both \cup yours) = Cardinality(both) + Cardinality(yours) - Cardinality(both \cap yours)
    BY <1>4, <1>6, FS_Union
  <2>2. f[a] \in Nat /\ f[b] \in Nat
    OBVIOUS
  <2>3. both \cap yours = {}
    BY <1>3 DEF both
  <2>4. Cardinality(both \cup yours) = Cardinality(both) + f[b] - 0
    BY <1>4, <1>5, <2>1, <2>3, Zenon
  <2>5. QED
    BY <1>1, <1>6, <2>2, <2>4
<1>8. QED
  BY <1>3, <1>7 DEF rest, both

\* So fewer are left when two have less together and nobody else has more.
LEMMA FewerPairs ==
  ASSUME NEW S, IsFiniteSet(S), NEW f, NEW g, \A h \in S : f[h] \in Nat /\ g[h] \in Nat,
         NEW a \in S, NEW b \in S, a # b,
         \A h \in S \ {a, b} : g[h] <= f[h],
         g[a] + g[b] < f[a] + f[b]
  PROVE  Cardinality(Pairs(g, S)) < Cardinality(Pairs(f, S))
<1>1. Pairs(g, S \ {a, b}) \subseteq Pairs(f, S \ {a, b})
  <2> SUFFICES ASSUME NEW h \in S \ {a, b}, NEW p \in {h} \X (1..g[h])
               PROVE  p \in {h} \X (1..f[h])
    BY DEF Pairs
  <2>1. p[1] = h /\ p[2] \in 1..g[h] /\ p = <<p[1], p[2]>>
    OBVIOUS
  <2>2. p[2] \in 1..f[h]
    BY <2>1
  <2>3. QED
    BY <2>1, <2>2
<1>2. IsFiniteSet(S \ {a, b})
  BY FS_Difference
<1>3. /\ IsFiniteSet(Pairs(f, S \ {a, b})) /\ Cardinality(Pairs(f, S \ {a, b})) \in Nat
      /\ IsFiniteSet(Pairs(g, S \ {a, b})) /\ Cardinality(Pairs(g, S \ {a, b})) \in Nat
  BY <1>2, PairsFinite
<1>4. Cardinality(Pairs(g, S \ {a, b})) <= Cardinality(Pairs(f, S \ {a, b}))
  BY <1>1, <1>3, FS_Subset
<1>5. /\ Cardinality(Pairs(f, S)) = Cardinality(Pairs(f, S \ {a, b})) + f[a] + f[b]
      /\ Cardinality(Pairs(g, S)) = Cardinality(Pairs(g, S \ {a, b})) + g[a] + g[b]
  BY PairsOfTwo
<1>6. f[a] \in Nat /\ f[b] \in Nat /\ g[a] \in Nat /\ g[b] \in Nat
  OBVIOUS
<1>7. QED
  BY <1>3, <1>4, <1>5, <1>6

-----------------------------------------------------------------------------
LEMMA HoldersFinite ==
  /\ IsFiniteSet(Holders) /\ Nobody \notin Threads
  /\ TypeOK => /\ \A h \in Holders : StepsOf[h] \in Nat
               /\ \A t \in Threads : StepsOf[t] = CallSteps(t) + Len(trash[t])
               /\ StepsOf[Nobody] = Len(queue)
               /\ StepsLeft \in Nat
<1>1. IsFiniteSet(Holders) /\ Nobody \notin Threads
  BY ThreadsAssumption, NobodyAssumption, FS_AddElement DEF Holders
<1>2. ASSUME TypeOK
      PROVE  /\ \A h \in Holders : StepsOf[h] \in Nat
             /\ \A t \in Threads : StepsOf[t] = CallSteps(t) + Len(trash[t])
             /\ StepsOf[Nobody] = Len(queue)
  <2>1. Len(queue) \in Nat /\ \A t \in Threads : Len(trash[t]) \in Nat
    BY <1>2, LenProperties DEF TypeOK
  <2>2. \A t \in Threads : CallSteps(t) \in Nat
    BY DEF CallSteps
  <2> HIDE DEF CallSteps
  <2>3. QED
    BY <1>1, <2>1, <2>2 DEF StepsOf, Holders
<1>3. QED
  BY <1>1, <1>2, PairsFinite DEF StepsLeft

\* A thread that returns, or goes on deleting, has no more steps than items to
\* delete.
LEMMA LeaveSteps ==
  ASSUME TypeOK, NEW t \in Threads, Leave(t)
  PROVE  CallSteps(t)' + Len(trash'[t]) <= Len(trash[t])
<1>0. trash \in [Threads -> Seq(Items)] /\ pc \in [Threads -> PCs] /\ Len(trash[t]) \in Nat
  BY LenProperties DEF TypeOK
<1>1. CASE trash[t] = <<>>
  <2>1. pc'[t] = "idle" /\ trash'[t] = <<>>
    BY <1>0, <1>1 DEF Leave, GoTo
  <2>2. CallSteps(t)' = 0
    BY <2>1 DEF CallSteps
  <2>3. QED
    BY <1>1, <2>1, <2>2, EmptySeq
<1>2. CASE trash[t] # <<>>
  <2>1. pc'[t] = "deleting" /\ trash'[t] = Tail(trash[t])
    BY <1>0, <1>2 DEF Leave, GoTo
  <2>2. CallSteps(t)' = 1
    BY <2>1 DEF CallSteps
  <2>3. Len(Tail(trash[t])) = Len(trash[t]) - 1
    BY <1>0, <1>2, HeadTailProperties
  <2>4. Len(trash'[t]) = Len(trash[t]) - 1
    BY <2>1, <2>3
  <2> DEFINE less == CallSteps(t)'
             shorter == Len(trash'[t])
             longer == Len(trash[t])
  <2>5. less = 1 /\ shorter = longer - 1 /\ longer \in Nat
    BY <1>0, <2>2, <2>4
  <2> HIDE DEF less, shorter, longer
  <2>6. less + shorter <= longer
    BY <2>5
  <2>7. QED
    BY <2>6 DEF less, shorter, longer
<1>3. QED
  BY <1>1, <1>2

\* Every step of a thread inside a member function is one of those that are left.
LEMMA StepLeavesFewer ==
  ASSUME Inv, TypeOK', NEW t \in Threads, Step(t)
  PROVE  StepsLeft' < StepsLeft
<1> DEFINE Others == \A u \in Threads \ {t} :
                       /\ pc'[u] = pc[u] /\ op'[u] = op[u] /\ trash'[u] = trash[u]
                       /\ u \in woken' <=> u \in woken
<1>0. /\ pc \in [Threads -> PCs] /\ op \in [Threads -> Ops] /\ trash \in [Threads -> Seq(Items)]
      /\ queue \in Seq(Items) /\ queue' \in Seq(Items)
      /\ Len(queue) \in Nat /\ Len(trash[t]) \in Nat /\ Len(queue') \in Nat /\ Len(trash'[t]) \in Nat
      /\ TypeOK /\ MutexDiscipline
  BY LenProperties DEF Inv, TypeOK
<1>1. /\ IsFiniteSet(Holders) /\ Nobody \notin Threads /\ Holders = Threads \cup {Nobody}
      /\ \A h \in Holders : StepsOf[h] \in Nat /\ StepsOf'[h] \in Nat
      /\ \A u \in Threads : /\ StepsOf[u] = CallSteps(u) + Len(trash[u])
                            /\ StepsOf'[u] = CallSteps(u)' + Len(trash'[u])
      /\ StepsOf[Nobody] = Len(queue) /\ StepsOf'[Nobody] = Len(queue')
  <2>1. TypeOK' => /\ \A h \in Holders : StepsOf'[h] \in Nat
                   /\ \A u \in Threads : StepsOf'[u] = CallSteps(u)' + Len(trash'[u])
                   /\ StepsOf'[Nobody] = Len(queue')
    <3>1. ASSUME TypeOK'
          PROVE  Len(queue') \in Nat /\ \A u \in Threads : Len(trash'[u]) \in Nat
      BY <3>1, LenProperties DEF TypeOK
    <3>2. \A u \in Threads : CallSteps(u)' \in Nat
      BY DEF CallSteps
    <3> HIDE DEF CallSteps
    <3>3. QED
      BY <3>1, <3>2, HoldersFinite DEF StepsOf, Holders
  <2>2. QED
    BY <1>0, <2>1, HoldersFinite DEF Holders
\* What a thread does to itself and to the queue.
<1>2. ASSUME Others,
             CallSteps(t)' + Len(trash'[t]) + Len(queue') < CallSteps(t) + Len(trash[t]) + Len(queue)
      PROVE  StepsLeft' < StepsLeft
  <2>1. \A u \in Threads \ {t} : StepsOf'[u] = StepsOf[u]
    <3>1. \A u \in Threads \ {t} : CallSteps(u)' = CallSteps(u)
      BY <1>2 DEF CallSteps
    <3>2. QED
      BY <1>1, <1>2, <3>1
  <2>2. \A h \in Holders \ {t, Nobody} : StepsOf'[h] <= StepsOf[h]
    BY <1>1, <2>1
  <2>3. StepsOf'[t] + StepsOf'[Nobody] < StepsOf[t] + StepsOf[Nobody]
    BY <1>1, <1>2
  <2>4. t \in Holders /\ Nobody \in Holders /\ t # Nobody
    BY <1>1
  <2>5. QED
    BY <1>1, <2>2, <2>3, <2>4, FewerPairs DEF StepsLeft
\* What it does when it returns.
<1>3. ASSUME Leave(t), woken' = woken, CallSteps(t) + Len(queue) > Len(queue')
      PROVE  StepsLeft' < StepsLeft
  <2>1. CallSteps(t)' + Len(trash'[t]) <= Len(trash[t])
    BY <1>0, <1>3, LeaveSteps
  <2>2. Others
    BY <1>0, <1>3, LeaveEffect
  <2>3. CallSteps(t) \in Nat /\ CallSteps(t)' \in Nat
    BY DEF CallSteps
  <2> HIDE DEF Others
  <2>4. QED
    BY <1>0, <1>2, <1>3, <2>1, <2>2, <2>3
\* What it does when it goes on.
<1>4. ASSUME UNCHANGED <<op, trash>>, NEW p \in PCs, pc' = [pc EXCEPT ![t] = p],
             woken' \ {t} = woken \ {t},
             CallSteps(t)' + Len(queue') < CallSteps(t) + Len(queue)
      PROVE  StepsLeft' < StepsLeft
  <2>1. Others
    BY <1>0, <1>4
  <2>2. CallSteps(t) \in Nat /\ CallSteps(t)' \in Nat
    BY DEF CallSteps
  <2> HIDE DEF Others
  <2>3. QED
    BY <1>0, <1>2, <1>4, <2>1, <2>2
<1>5. CASE Guard(t)
  <2>1. pc' = [pc EXCEPT ![t] = "critical"] /\ UNCHANGED <<op, trash, woken, queue>> /\ pc[t] = "lock"
    BY <1>5 DEF Guard, Lock, GoTo
  <2>2. CallSteps(t)' < CallSteps(t)
    BY <1>0, <2>1 DEF CallSteps
  <2>3. CallSteps(t) \in Nat /\ CallSteps(t)' \in Nat
    BY DEF CallSteps
  <2>4. QED
    BY <1>0, <1>4, <2>1, <2>2, <2>3 DEF PCs
<1>6. CASE Push(t)
  <2>1. /\ pc' = [pc EXCEPT ![t] = "notify"] /\ UNCHANGED <<op, trash, woken>>
        /\ pc[t] = "critical" /\ op[t] = "push" /\ queue' = Append(queue, item[t])
    BY <1>6 DEF Push, At, Unlock, GoTo
  <2>2. item[t] \in Items
    BY <2>1 DEF Inv, PushesBringNewItems
  <2>3. Len(queue') = Len(queue) + 1
    BY <1>0, <2>1, <2>2, AppendProperties
  <2>4. CallSteps(t)' = 5 /\ CallSteps(t) = 7
    BY <1>0, <2>1 DEF CallSteps
  <2>5. QED
    BY <1>0, <1>4, <2>1, <2>3, <2>4 DEF PCs
<1>7. CASE Notify(t)
  <2>1. pc[t] = "notify" /\ queue' = queue /\ CallSteps(t) = 5
    BY <1>7 DEF Notify, CallSteps
  <2>2. /\ CallSteps(t)' + Len(trash'[t]) <= Len(trash[t]) + 2
        /\ \A u \in Threads \ {t} : pc'[u] = pc[u] /\ op'[u] = op[u] /\ trash'[u] = trash[u]
    <3>1. /\ pc'[t] \in {"callback", "returning"} /\ UNCHANGED <<op, trash>>
          /\ \A u \in Threads \ {t} : pc'[u] = pc[u]
      BY <1>0, <1>7 DEF Notify, GoTo
    <3>2. CallSteps(t)' \in {1, 2}
      BY <3>1 DEF CallSteps
    <3>3. QED
      BY <1>0, <3>1, <3>2
  <2>3. CallSteps(t)' \in Nat
    BY DEF CallSteps
  <2>4. CASE woken' = woken
    BY <1>0, <1>2, <2>1, <2>2, <2>3, <2>4
  <2>5. ASSUME NEW u \in sleeping, Rouse(u) PROVE StepsLeft' < StepsLeft
    <3>1. u \in Threads /\ u # t /\ pc[u] = "waiting" /\ u \notin woken
      BY <1>0, <2>1, <2>5 DEF TypeOK, MonitorTypeOK, MutexDiscipline
    <3>2. woken' = woken \cup {u}
      BY <2>5 DEF Rouse
    <3>3. CallSteps(u)' = 5 /\ CallSteps(u) = 3
      BY <2>2, <3>1, <3>2 DEF CallSteps
    <3>4. \A v \in Threads \ {t, u} : CallSteps(v)' = CallSteps(v)
      BY <2>2, <3>2 DEF CallSteps
    <3>5. \A h \in Holders \ {t, u} : StepsOf'[h] <= StepsOf[h]
      BY <1>1, <2>1, <2>2, <3>4
    <3>6. StepsOf'[t] + StepsOf'[u] < StepsOf[t] + StepsOf[u]
      <4>1. Len(trash[u]) \in Nat /\ trash'[u] = trash[u]
        BY <1>0, <2>2, <3>1, LenProperties
      <4>2. QED
        BY SMTT(30), <1>0, <1>1, <2>1, <2>2, <2>3, <3>1, <3>3, <4>1
    <3>7. t \in Holders /\ u \in Holders
      BY <1>1, <3>1
    <3>8. QED
      BY <1>1, <3>1, <3>5, <3>6, <3>7, FewerPairs DEF StepsLeft
  <2>6. QED
    BY <1>7, <2>4, <2>5 DEF Notify, NotifyOne, monitorVars
<1>8. CASE EndPush(t) \/ Cleared(t)
  <2>1. Leave(t) /\ woken' = woken /\ queue' = queue /\ pc[t] \in {"returning", "deleting"}
    BY <1>8 DEF EndPush, Cleared, monitorVars
  <2>2. CallSteps(t) = 1
    BY <2>1 DEF CallSteps
  <2>3. QED
    BY <1>0, <1>3, <2>1, <2>2
<1>9. CASE PopTake(t) \/ PopGiveUp(t) \/ Size(t)
  <2>1. Leave(t) /\ woken' = woken /\ pc[t] \in {"critical", "expired"}
    BY <1>9 DEF PopTake, PopGiveUp, Size, At, Unlock
  <2>2. Len(queue') <= Len(queue)
    <3>1. queue' = queue \/ (queue # <<>> /\ queue' = Tail(queue))
      BY <1>9 DEF PopTake, PopGiveUp, Size
    <3>2. QED
      BY <1>0, <3>1, HeadTailProperties
  <2>3. CallSteps(t) \in {1, 4, 7}
    BY <2>1 DEF CallSteps
  <2>4. QED
    BY <1>0, <1>3, <2>1, <2>2, <2>3
<1>10. CASE PopWait(t)
  <2>1. /\ pc' = [pc EXCEPT ![t] = "waiting"] /\ UNCHANGED <<op, trash, woken, queue>>
        /\ pc[t] = "critical" /\ op[t] # "push" /\ t \notin woken
    BY <1>0, <1>10 DEF PopWait, Wait, GoTo, Pops, MutexDiscipline
  <2>2. CallSteps(t)' = 3 /\ CallSteps(t) = 4
    BY <1>0, <2>1 DEF CallSteps
  <2>3. QED
    BY <1>0, <1>4, <2>1, <2>2 DEF PCs
<1>11. CASE Timeout(t)
  <2>1. /\ pc' = [pc EXCEPT ![t] = "timedout"] /\ UNCHANGED <<op, trash, queue>>
        /\ woken' = woken \cup {t} /\ pc[t] = "waiting"
    BY <1>11 DEF Timeout, At, Rouse, GoTo
  <2>2. CallSteps(t)' = 2 /\ CallSteps(t) \in {3, 5}
    BY <1>0, <2>1 DEF CallSteps
  <2>3. QED
    BY <1>0, <1>4, <2>1, <2>2 DEF PCs
<1>12. CASE WakeUp(t)
  <2>1. /\ UNCHANGED <<op, trash, queue>> /\ woken' = woken \ {t} /\ t \in woken
        /\ \/ pc[t] = "waiting" /\ op[t] \in Pops /\ pc' = [pc EXCEPT ![t] = "critical"]
           \/ pc[t] \in {"waiting", "timedout"} /\ pc' = [pc EXCEPT ![t] = "expired"]
    BY <1>0, <1>12 DEF WakeUp, Relock, GoTo, At, MutexDiscipline
  <2>2. pc'[t] \in {"critical", "expired"} /\ pc' = [pc EXCEPT ![t] = pc'[t]]
    BY <1>0, <2>1
  <2>3. CallSteps(t)' < CallSteps(t)
    BY <1>0, <2>1 DEF CallSteps, Pops
  <2>4. CallSteps(t) \in Nat /\ CallSteps(t)' \in Nat
    BY DEF CallSteps
  <2>5. QED
    BY <1>0, <1>4, <2>1, <2>2, <2>3, <2>4 DEF PCs
<1>13. CASE Swap(t)
  <2>1. /\ pc' = [pc EXCEPT ![t] = "deleting"] /\ UNCHANGED <<op, woken>>
        /\ trash' = [trash EXCEPT ![t] = queue] /\ queue' = <<>>
        /\ pc[t] = "critical" /\ op[t] = "clear"
    BY <1>13 DEF Swap, At, Unlock, GoTo
  <2>2. CallSteps(t)' = 1 /\ CallSteps(t) = 4
    BY <1>0, <2>1 DEF CallSteps
  <2>3. Len(trash'[t]) = Len(queue) /\ Len(queue') = 0
    BY <1>0, <2>1, EmptySeq
  <2>4. Others
    BY <1>0, <2>1
  <2> HIDE DEF Others
  <2>5. QED
    BY <1>0, <1>2, <2>2, <2>3, <2>4
<1>14. CASE Delete(t)
  <2>1. /\ UNCHANGED <<pc, op, woken, queue>>
        /\ trash[t] # <<>> /\ trash' = [trash EXCEPT ![t] = Tail(@)]
    BY <1>14 DEF Delete, callVars, monitorVars
  <2>2. Len(trash'[t]) = Len(trash[t]) - 1
    BY <1>0, <2>1, HeadTailProperties
  <2>3. CallSteps(t)' = CallSteps(t) /\ CallSteps(t) \in Nat
    BY <2>1 DEF CallSteps
  <2>4. Others
    BY <1>0, <2>1
  <2> HIDE DEF Others
  <2>5. QED
    BY <1>0, <1>2, <2>1, <2>2, <2>3, <2>4
<1>15. CASE Callback(t)
  <2>1. /\ pc' = [pc EXCEPT ![t] = "returning"] /\ UNCHANGED <<op, trash, woken, queue>>
        /\ pc[t] = "callback"
    BY <1>15 DEF Callback, GoTo, monitorVars
  <2>2. CallSteps(t)' = 1 /\ CallSteps(t) = 2
    BY <1>0, <2>1 DEF CallSteps
  <2>3. QED
    BY <1>0, <1>4, <2>1, <2>2 DEF PCs
<1>16. QED
  BY <1>5, <1>6, <1>7, <1>8, <1>9, <1>10, <1>11, <1>12, <1>13, <1>14, <1>15 DEF Step

\* Between two calls, and but for spurious wakeups and destructors that push, the
\* threads make finitely many steps, however many they are and however they
\* interleave: no two consumers wake each other for ever, no clear goes on deleting.
THEOREM EveryStepCounts == Spec => [][FewerStepsLeft]_vars
<1>1. Inv => StepsLeft \in Nat
  BY HoldersFinite DEF Inv
<1>2. Inv /\ Inv' /\ StepsLeft \in Nat /\ (StepsLeft \in Nat)' /\ [Next]_vars => FewerStepsLeft
  <2>1. ASSUME Inv, Inv', NEW t \in Threads, Step(t) PROVE StepsLeft' < StepsLeft
    BY <2>1, StepLeavesFewer DEF Inv
  <2>2. QED
    BY <2>1 DEF FewerStepsLeft
<1>3. QED
  BY <1>1, <1>2, InitInv, NextInv, PTL DEF Spec

=============================================================================
