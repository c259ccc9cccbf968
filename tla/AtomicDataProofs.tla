-------------------------- MODULE AtomicDataProofs --------------------------
(***************************************************************************)
(* What holds of AtomicData for every set of threads, every set of values  *)
(* and every set of predicates.                                            *)
(***************************************************************************)
EXTENDS AtomicData, TLAPS

\* The inductive invariant.
Inv == TypeOK /\ MutexDiscipline /\ ReferencesHeld /\ TornOnlyInFunc

\* It holds at first.
LEMMA InitInv ==
  Init => Inv
<1> SUFFICES ASSUME Init PROVE Inv
  OBVIOUS
<1> USE NobodyAssumption, PredicatesAssumption, TornAssumption DEF Init, MonitorInit
<1>1. TypeOK
  BY DEF TypeOK, MonitorTypeOK, PCs, Ops
<1>2. MutexDiscipline /\ ReferencesHeld /\ TornOnlyInFunc
  BY DEF MutexDiscipline, ReferencesHeld, TornOnlyInFunc
<1>3. QED BY <1>1, <1>2 DEF Inv

-----------------------------------------------------------------------------
\* Types are preserved: a function never sees torn data.
LEMMA TypesPreserved ==
  ASSUME Inv, [Next]_vars
  PROVE  TypeOK'
<1> USE PredicatesAssumption DEF Inv, TypeOK, MonitorTypeOK, Return, Report, GoTo
<1>1. CASE UNCHANGED vars
  BY <1>1 DEF vars, monitorVars, callVars
<1>2. ASSUME NEW t \in Threads, Calls(t) PROVE TypeOK'
  BY <1>2 DEF Calls, Call, CallScopedLock, monitorVars, PCs, Ops, Uses, Waits
<1>3. ASSUME NEW t \in Threads, Guard(t) PROVE TypeOK'
  BY <1>3 DEF Guard, Lock, PCs
<1>4. ASSUME NEW t \in Threads, Func(t) PROVE TypeOK'
  BY <1>4 DEF Func, monitorVars, PCs
<1>5. ASSUME NEW t \in Threads, NEW v \in Values, FuncEnds(t, v) PROVE TypeOK'
  <2>1. seen[t] \in Values
    BY <1>5 DEF FuncEnds, TornOnlyInFunc
  <2>2. QED
    BY <1>5, <2>1 DEF FuncEnds, Unlock, PCs, Ops
<1>6. ASSUME NEW t \in Threads, PredicateFalse(t) PROVE TypeOK'
  BY <1>6 DEF PredicateFalse, Wait, PCs
<1>7. ASSUME NEW t \in Threads, GiveUp(t) PROVE TypeOK'
  <2>1. data \in Values
    BY <1>7 DEF GiveUp, TornOnlyInFunc, MutexDiscipline
  <2>2. QED
    BY <1>7, <2>1 DEF GiveUp, Unlock, PCs, Ops
<1>8. ASSUME NEW t \in Threads, Timeout(t) PROVE TypeOK'
  BY <1>8 DEF Timeout, Rouse, PCs
<1>9. ASSUME NEW t \in Threads, SpuriousWakeup(t) PROVE TypeOK'
  BY <1>9 DEF SpuriousWakeup, Rouse, callVars
<1>10. ASSUME NEW t \in Threads, WakeUp(t) PROVE TypeOK'
  BY <1>10 DEF WakeUp, Relock, PCs
<1>11. ASSUME NEW t \in Threads, Notifies(t) PROVE TypeOK'
  BY <1>11 DEF Notifies, Notify, NotifyOne, NotifyAll, Rouse, callVars, monitorVars
<1>12. ASSUME NEW t \in Threads, ScopedLock(t) \/ ReleaseLock(t) \/ ReleaseMutex(t)
       PROVE  TypeOK'
  BY <1>12 DEF ScopedLock, ReleaseLock, ReleaseMutex, Lock, Unlock, monitorVars, PCs, Ops
<1>13. CASE Destroy
  BY <1>13 DEF Destroy, callVars, monitorVars
<1>14. QED
  BY <1>1, <1>2, <1>3, <1>4, <1>5, <1>6, <1>7, <1>8, <1>9, <1>10, <1>11, <1>12, <1>13
     DEF Next, Step

-----------------------------------------------------------------------------
\* Every step keeps the mutex and the wait set in agreement with the threads.
LEMMA MutexDisciplinePreserved ==
  ASSUME Inv, [Next]_vars
  PROVE  MutexDiscipline'
<1> USE NobodyAssumption DEF Inv, TypeOK, MonitorTypeOK, MutexDiscipline, Return, GoTo
<1>1. CASE UNCHANGED vars
  BY <1>1 DEF vars, monitorVars, callVars
<1>2. ASSUME NEW t \in Threads, Calls(t) PROVE MutexDiscipline'
  <2>1. pc[t] = "idle" /\ pc' = [pc EXCEPT ![t] = "lock"] /\ UNCHANGED monitorVars
    BY <1>2 DEF Calls, Call, CallScopedLock
  <2>2. QED
    BY <2>1 DEF monitorVars
<1>3. ASSUME NEW t \in Threads, Guard(t) PROVE MutexDiscipline'
  BY <1>3 DEF Guard, Lock
<1>4. ASSUME NEW t \in Threads, Func(t) PROVE MutexDiscipline'
  BY <1>4 DEF Func, monitorVars
<1>5. ASSUME NEW t \in Threads, NEW v \in Values, FuncEnds(t, v) PROVE MutexDiscipline'
  BY <1>5 DEF FuncEnds, Unlock
<1>6. ASSUME NEW t \in Threads, PredicateFalse(t) PROVE MutexDiscipline'
  BY <1>6 DEF PredicateFalse, Wait
<1>7. ASSUME NEW t \in Threads, GiveUp(t) PROVE MutexDiscipline'
  BY <1>7 DEF GiveUp, Unlock
<1>8. ASSUME NEW t \in Threads, Timeout(t) PROVE MutexDiscipline'
  BY <1>8 DEF Timeout, Rouse
<1>9. ASSUME NEW t \in Threads, SpuriousWakeup(t) PROVE MutexDiscipline'
  BY <1>9 DEF SpuriousWakeup, Rouse, callVars
<1>10. ASSUME NEW t \in Threads, WakeUp(t) PROVE MutexDiscipline'
  BY <1>10 DEF WakeUp, Relock
<1>11. ASSUME NEW t \in Threads, Notifies(t) PROVE MutexDiscipline'
  <2>1. /\ owner' = owner /\ sleeping' \subseteq sleeping
        /\ woken' = woken \cup (sleeping \ sleeping')
    BY <1>11 DEF Notifies, Notify, NotifyOne, NotifyAll, Rouse, monitorVars
  <2>2. pc' = pc
    BY <1>11 DEF Notifies, Notify, callVars
  <2>3. QED
    BY <2>1, <2>2
<1>12. ASSUME NEW t \in Threads, ScopedLock(t) \/ ReleaseLock(t) \/ ReleaseMutex(t)
       PROVE  MutexDiscipline'
  BY <1>12 DEF ScopedLock, ReleaseLock, ReleaseMutex, Lock, Unlock, monitorVars
<1>13. CASE Destroy
  BY <1>13 DEF Destroy, callVars, monitorVars
<1>14. QED
  BY <1>1, <1>2, <1>3, <1>4, <1>5, <1>6, <1>7, <1>8, <1>9, <1>10, <1>11, <1>12, <1>13
     DEF Next, Step

-----------------------------------------------------------------------------
\* Nobody is inside a call on a destroyed object, and a ScopedLock keeps the
\* mutex it was given.
LEMMA ReferencesHeldPreserved ==
  ASSUME Inv, [Next]_vars
  PROVE  ReferencesHeld'
<1> USE ThisAssumption DEF Inv, TypeOK, MonitorTypeOK, MutexDiscipline, ReferencesHeld, Return, GoTo
<1>1. CASE UNCHANGED vars
  BY <1>1 DEF vars, callVars
<1>2. ASSUME NEW t \in Threads, Calls(t) PROVE ReferencesHeld'
  BY <1>2 DEF Calls, Call, CallScopedLock, Uses, Waits
<1>3. ASSUME NEW t \in Threads, Guard(t) PROVE ReferencesHeld'
  BY <1>3 DEF Guard
<1>4. ASSUME NEW t \in Threads, Func(t) PROVE ReferencesHeld'
  BY <1>4 DEF Func
<1>5. ASSUME NEW t \in Threads, NEW v \in Values, FuncEnds(t, v) PROVE ReferencesHeld'
  BY <1>5 DEF FuncEnds
<1>6. ASSUME NEW t \in Threads, PredicateFalse(t) PROVE ReferencesHeld'
  BY <1>6 DEF PredicateFalse
<1>7. ASSUME NEW t \in Threads, GiveUp(t) PROVE ReferencesHeld'
  BY <1>7 DEF GiveUp
<1>8. ASSUME NEW t \in Threads, Timeout(t) PROVE ReferencesHeld'
  BY <1>8 DEF Timeout, Rouse
<1>9. ASSUME NEW t \in Threads, SpuriousWakeup(t) PROVE ReferencesHeld'
  BY <1>9 DEF SpuriousWakeup, callVars
<1>10. ASSUME NEW t \in Threads, WakeUp(t) PROVE ReferencesHeld'
  BY <1>10 DEF WakeUp, Relock
<1>11. ASSUME NEW t \in Threads, Notifies(t) PROVE ReferencesHeld'
  BY <1>11 DEF Notifies, Notify, callVars
<1>12. ASSUME NEW t \in Threads, ScopedLock(t) \/ ReleaseLock(t) \/ ReleaseMutex(t)
       PROVE  ReferencesHeld'
  BY <1>12 DEF ScopedLock, ReleaseLock, ReleaseMutex
<1>13. CASE Destroy
  BY <1>13 DEF Destroy, callVars
<1>14. QED
  BY <1>1, <1>2, <1>3, <1>4, <1>5, <1>6, <1>7, <1>8, <1>9, <1>10, <1>11, <1>12, <1>13
     DEF Next, Step

\* At most one function runs at a time, because its thread holds the mutex.
LEMMA TornOnlyInFuncPreserved ==
  ASSUME Inv, [Next]_vars
  PROVE  TornOnlyInFunc'
<1> USE TornAssumption DEF Inv, TypeOK, MutexDiscipline, TornOnlyInFunc, Return, GoTo
<1>1. CASE UNCHANGED vars
  BY <1>1 DEF vars, callVars
<1>2. ASSUME NEW t \in Threads, Calls(t) PROVE TornOnlyInFunc'
  BY <1>2 DEF Calls, Call, CallScopedLock
<1>3. ASSUME NEW t \in Threads, Guard(t) PROVE TornOnlyInFunc'
  BY <1>3 DEF Guard
<1>4. ASSUME NEW t \in Threads, Func(t) PROVE TornOnlyInFunc'
  <2>1. data \in Values
    BY <1>4 DEF Func
  <2>2. QED
    BY <1>4, <2>1 DEF Func
<1>5. ASSUME NEW t \in Threads, NEW v \in Values, FuncEnds(t, v) PROVE TornOnlyInFunc'
  <2>1. owner = t /\ \A u \in Threads \ {t} : pc[u] # "func"
    BY <1>5 DEF FuncEnds, Unlock
  <2>2. QED
    BY <1>5, <2>1 DEF FuncEnds
<1>6. ASSUME NEW t \in Threads, PredicateFalse(t) PROVE TornOnlyInFunc'
  BY <1>6 DEF PredicateFalse
<1>7. ASSUME NEW t \in Threads, GiveUp(t) PROVE TornOnlyInFunc'
  BY <1>7 DEF GiveUp
<1>8. ASSUME NEW t \in Threads, Timeout(t) PROVE TornOnlyInFunc'
  BY <1>8 DEF Timeout
<1>9. ASSUME NEW t \in Threads, SpuriousWakeup(t) PROVE TornOnlyInFunc'
  BY <1>9 DEF SpuriousWakeup, callVars
<1>10. ASSUME NEW t \in Threads, WakeUp(t) PROVE TornOnlyInFunc'
  BY <1>10 DEF WakeUp
<1>11. ASSUME NEW t \in Threads, Notifies(t) PROVE TornOnlyInFunc'
  BY <1>11 DEF Notifies, Notify, callVars
<1>12. ASSUME NEW t \in Threads, ScopedLock(t) \/ ReleaseLock(t) \/ ReleaseMutex(t)
       PROVE  TornOnlyInFunc'
  BY <1>12 DEF ScopedLock, ReleaseLock, ReleaseMutex
<1>13. CASE Destroy
  BY <1>13 DEF Destroy, callVars
<1>14. QED
  BY <1>1, <1>2, <1>3, <1>4, <1>5, <1>6, <1>7, <1>8, <1>9, <1>10, <1>11, <1>12, <1>13
     DEF Next, Step

\* It holds in every reachable state.
LEMMA InvHolds == Spec => []Inv
<1>1. Init => Inv
  BY InitInv
<1>2. Inv /\ [Next]_vars => Inv'
  BY TypesPreserved, MutexDisciplinePreserved, ReferencesHeldPreserved,
     TornOnlyInFuncPreserved DEF Inv
<1>3. QED
  BY <1>1, <1>2, PTL DEF Spec

-----------------------------------------------------------------------------
\* Every reachable state of AtomicData has the declared types: in particular
\* no load and no function is ever given data that another is changing.
THEOREM TypeCorrect == Spec => []TypeOK
<1>1. Inv => TypeOK
  BY DEF Inv
<1>2. QED BY <1>1, InvHolds, PTL

\* The mutex is held while the caller's function or predicate runs, and as
\* long as a ScopedLock lives, and by nobody else.
THEOREM MutexIsDisciplined == Spec => []MutexDiscipline
<1>1. Inv => MutexDiscipline
  BY DEF Inv
<1>2. QED BY <1>1, InvHolds, PTL

\* No mutex is destroyed while somebody holds it or waits to lock it again,
\* though the object may be destroyed before the last ScopedLock.
THEOREM MutexOutlivesEveryLock == Spec => []MutexOutlivesLock
<1>1. Inv => MutexOutlivesLock
  <2> SUFFICES ASSUME Inv, owner # Nobody \/ sleeping \cup woken # {}
               PROVE  refs # {}
    BY DEF MutexOutlivesLock
  <2>1. \E t \in Threads : pc[t] \notin {"idle", "holding", "releasing"} \/ pc[t] = "holding"
    <3>1. CASE owner # Nobody
      BY <3>1 DEF Inv, TypeOK, MonitorTypeOK, MutexDiscipline
    <3>2. CASE sleeping \cup woken # {}
      BY <3>2 DEF Inv, TypeOK, MonitorTypeOK, MutexDiscipline
    <3>3. QED BY <3>1, <3>2
  <2>2. QED BY <2>1 DEF Inv, ReferencesHeld
<1>2. QED BY <1>1, InvHolds, PTL

-----------------------------------------------------------------------------
\* What the abstract cell holds, and who holds it, as seen from the thread
\* that has the mutex, and when nobody has it.
CellAgrees ==
  /\ \A t \in Threads : pc[t] = "func" => CellValue = seen[t] /\ CellHolder = Nobody
  /\ \A t \in Threads : pc[t] = "holding" => CellValue = data /\ CellHolder = t
  /\ (\A t \in Threads : pc[t] \notin {"func", "holding"})
        => CellValue = data /\ CellHolder = Nobody

\* It is so in every state of the invariant: only one thread has the mutex.
LEMMA CellFromOwner == Inv => CellAgrees
<1> SUFFICES ASSUME Inv PROVE CellAgrees
  OBVIOUS
<1>1. \A t, u \in Threads : pc[t] \in {"func", "holding"} /\ pc[u] \in {"func", "holding"} => t = u
  BY DEF Inv, MutexDiscipline
<1>2. ASSUME NEW t \in Threads, pc[t] = "func"
      PROVE  CellValue = seen[t] /\ CellHolder = Nobody
  <2>1. (CHOOSE u \in Threads : pc[u] = "func") = t
    BY <1>1, <1>2
  <2>2. data = Torn
    BY <1>2 DEF Inv, TornOnlyInFunc
  <2>3. QED
    BY <1>1, <1>2, <2>1, <2>2 DEF CellValue, CellHolder
<1>3. ASSUME NEW t \in Threads, pc[t] = "holding"
      PROVE  CellValue = data /\ CellHolder = t
  <2>1. (CHOOSE u \in Threads : pc[u] = "holding") = t
    BY <1>1, <1>3
  <2>2. data # Torn
    BY <1>1, <1>3 DEF Inv, TornOnlyInFunc
  <2>3. QED
    BY <1>3, <2>1, <2>2 DEF CellValue, CellHolder
<1>4. ASSUME \A t \in Threads : pc[t] \notin {"func", "holding"}
      PROVE  CellValue = data /\ CellHolder = Nobody
  BY <1>4 DEF CellValue, CellHolder, Inv, TornOnlyInFunc
<1>5. QED BY <1>2, <1>3, <1>4 DEF CellAgrees

\* A step that starts and ends no function and no ScopedLock, and changes
\* neither the data nor what a function has seen, is invisible in the cell.
LEMMA InvisibleStep ==
  ASSUME Inv, Inv', UNCHANGED <<data, out>>,
         \A t \in Threads : pc[t] = "func" <=> pc'[t] = "func",
         \A t \in Threads : pc[t] = "holding" <=> pc'[t] = "holding",
         \A t \in Threads : pc[t] = "func" => seen'[t] = seen[t]
  PROVE  UNCHANGED Cell!vars
<1>1. CellAgrees /\ CellAgrees'
  BY CellFromOwner, PTL
<1>2. UNCHANGED <<CellValue, CellHolder>>
  <2>1. CASE \E t \in Threads : pc[t] = "func"
    BY <2>1, <1>1 DEF CellAgrees
  <2>2. CASE \E t \in Threads : pc[t] = "holding"
    BY <2>2, <1>1 DEF CellAgrees
  <2>3. CASE \A t \in Threads : pc[t] \notin {"func", "holding"}
    BY <2>3, <1>1 DEF CellAgrees
  <2>4. QED BY <2>1, <2>2, <2>3
<1>3. QED BY <1>2 DEF Cell!vars

\* Every step is a step of the abstract cell, or invisible there: a use takes
\* effect when the caller's function ends, a wait that gives up does so when
\* it finds its predicate false, and a ScopedLock when it locks and unlocks.
LEMMA CellStep ==
  ASSUME Inv, Inv', [Next]_vars
  PROVE  [Cell!Next]_Cell!vars
<1>1. CellAgrees /\ CellAgrees'
  BY CellFromOwner, PTL
<1>2. ASSUME NEW t \in Threads, owner = t
      PROVE  \A u \in Threads \ {t} : pc[u] \notin {"func", "holding"}
  BY <1>2 DEF Inv, MutexDiscipline
<1>3. ASSUME NEW t \in Threads, NEW p, NEW q,
             pc[t] = p, pc' = [pc EXCEPT ![t] = q],
             {p, q} \cap {"func", "holding"} = {},
             \A u \in Threads \ {t} : seen'[u] = seen[u],
             UNCHANGED <<data, out>>
      PROVE  UNCHANGED Cell!vars
  BY <1>3, InvisibleStep DEF Inv, TypeOK
<1>4. CASE UNCHANGED vars
  BY <1>4, InvisibleStep DEF vars, callVars
<1>5. ASSUME NEW t \in Threads, Calls(t) PROVE UNCHANGED Cell!vars
  <2>1. /\ pc[t] = "idle" /\ pc' = [pc EXCEPT ![t] = "lock"]
        /\ UNCHANGED <<data, seen, out>>
    BY <1>5 DEF Calls, Call, CallScopedLock, GoTo
  <2>2. QED
    BY ZenonT(40), <2>1, <1>3
<1>6. ASSUME NEW t \in Threads, Guard(t) PROVE UNCHANGED Cell!vars
  BY <1>6, <1>3 DEF Guard, GoTo
<1>7. ASSUME NEW t \in Threads, Func(t) PROVE UNCHANGED Cell!vars
  <2>1. owner = t /\ pc[t] \notin {"func", "holding"}
    BY <1>7 DEF Func, Inv, MutexDiscipline
  <2>2. CellValue = data /\ CellHolder = Nobody
    BY <1>1, <1>2, <2>1 DEF CellAgrees
  <2>3. pc'[t] = "func" /\ seen'[t] = data
    BY <1>7 DEF Func, GoTo, Inv, TypeOK
  <2>4. CellValue' = data /\ CellHolder' = Nobody
    BY <1>1, <2>3 DEF CellAgrees
  <2>5. QED
    BY <1>7, <2>2, <2>4 DEF Func, Cell!vars
<1>8. ASSUME NEW t \in Threads, NEW v \in Values, FuncEnds(t, v) PROVE Cell!Next
  <2>1. owner = t /\ pc[t] = "func" /\ seen[t] \in under[t] /\ under[t] \in Predicates
    BY <1>8 DEF FuncEnds, Unlock, Inv, TypeOK, TornOnlyInFunc
  <2>2. CellValue = seen[t] /\ CellHolder = Nobody
    BY <1>1, <2>1 DEF CellAgrees
  <2>3. \A u \in Threads : pc'[u] \notin {"func", "holding"}
    BY <1>8, <1>2, <2>1 DEF FuncEnds, Return, GoTo, Inv, TypeOK
  <2>4. CellValue' = v /\ CellHolder' = Nobody
    BY <1>8, <1>1, <2>3 DEF CellAgrees, FuncEnds
  <2>5. Cell!Use(t, under[t], v)
    BY <1>8, <2>1, <2>2, <2>4 DEF FuncEnds, Report, Cell!Use, Cell!Report
  <2>6. QED
    BY <2>1, <2>5 DEF Cell!Next
<1>9. ASSUME NEW t \in Threads, PredicateFalse(t) PROVE UNCHANGED Cell!vars
  <2>1. /\ pc[t] = "check" /\ pc' = [pc EXCEPT ![t] = "waiting"]
        /\ UNCHANGED <<data, seen, out>>
    BY <1>9 DEF PredicateFalse, GoTo
  <2>2. QED
    BY ZenonT(40), <2>1, <1>3
<1>10. ASSUME NEW t \in Threads, GiveUp(t) PROVE Cell!Next
  <2>1. owner = t /\ pc[t] = "expired" /\ under[t] \in Predicates
    BY <1>10 DEF GiveUp, Unlock, Inv, TypeOK
  <2>2. CellValue = data /\ CellHolder = Nobody
    BY <1>1, <1>2, <2>1 DEF CellAgrees
  <2>3. \A u \in Threads : pc'[u] \notin {"func", "holding"}
    BY <1>10, <1>2, <2>1 DEF GiveUp, Return, GoTo, Inv, TypeOK
  <2>4. CellValue' = data /\ CellHolder' = Nobody
    BY <1>10, <1>1, <2>3 DEF CellAgrees, GiveUp
  <2>5. Cell!GiveUp(t, under[t])
    BY <1>10, <2>2, <2>4 DEF GiveUp, Report, Cell!GiveUp, Cell!Report
  <2>6. QED
    BY <2>1, <2>5 DEF Cell!Next
<1>11. ASSUME NEW t \in Threads, Timeout(t) PROVE UNCHANGED Cell!vars
  BY <1>11, <1>3 DEF Timeout, GoTo
<1>12. ASSUME NEW t \in Threads, SpuriousWakeup(t) \/ Notifies(t) PROVE UNCHANGED Cell!vars
  BY <1>12, InvisibleStep DEF SpuriousWakeup, Notifies, Notify, callVars
<1>13. ASSUME NEW t \in Threads, WakeUp(t) PROVE UNCHANGED Cell!vars
  BY <1>13, <1>3 DEF WakeUp, GoTo
<1>14. ASSUME NEW t \in Threads, ScopedLock(t) PROVE Cell!Next
  <2>1. owner' = t /\ pc'[t] = "holding" /\ owner = Nobody
    BY <1>14 DEF ScopedLock, Lock, GoTo, Inv, TypeOK
  <2>2. CellValue = data /\ CellHolder = Nobody
    BY <1>1, <2>1, NobodyAssumption DEF CellAgrees, Inv, MutexDiscipline
  <2>3. CellValue' = data /\ CellHolder' = t
    BY <1>14, <1>1, <2>1 DEF CellAgrees, ScopedLock
  <2>4. Cell!Hold(t)
    BY <1>14, <2>2, <2>3 DEF ScopedLock, Cell!Hold
  <2>5. QED
    BY <2>4 DEF Cell!Next
<1>15. ASSUME NEW t \in Threads, ReleaseLock(t) PROVE Cell!Next
  <2>1. owner = t /\ pc[t] = "holding"
    BY <1>15 DEF ReleaseLock, Unlock
  <2>2. CellValue = data /\ CellHolder = t
    BY <1>1, <2>1 DEF CellAgrees
  <2>3. \A u \in Threads : pc'[u] \notin {"func", "holding"}
    BY <1>15, <1>2, <2>1 DEF ReleaseLock, GoTo, Inv, TypeOK
  <2>4. CellValue' = data /\ CellHolder' = Nobody
    BY <1>15, <1>1, <2>3 DEF CellAgrees, ReleaseLock
  <2>5. Cell!Release(t)
    BY <1>15, <2>2, <2>4 DEF ReleaseLock, Cell!Release
  <2>6. QED
    BY <2>5 DEF Cell!Next
<1>16. ASSUME NEW t \in Threads, ReleaseMutex(t) PROVE UNCHANGED Cell!vars
  BY ZenonT(40), <1>16, <1>3 DEF ReleaseMutex, GoTo
<1>17. CASE Destroy
  BY <1>17, InvisibleStep DEF Destroy, callVars
<1>18. QED
  BY <1>4, <1>5, <1>6, <1>7, <1>8, <1>9, <1>10, <1>11, <1>12, <1>13, <1>14, <1>15,
     <1>16, <1>17 DEF Next, Step

\* AtomicData implements AtomicCell: uses of the data by different threads
\* behave as if each happened at one instant, under a true predicate.
THEOREM AtomicDataIsAtomic == Spec => ImplementsCell
<1>1. Init => Cell!Init
  <2> SUFFICES ASSUME Init PROVE Cell!Init
    OBVIOUS
  <2>1. CellValue = data /\ CellHolder = Nobody
    BY InitInv, CellFromOwner DEF CellAgrees, Init
  <2>2. QED
    BY <2>1 DEF Init, Cell!Init
<1>2. Inv /\ Inv' /\ [Next]_vars => [Cell!Next]_Cell!vars
  BY CellStep
<1>3. QED
  BY <1>1, <1>2, InvHolds, PTL DEF Spec, ImplementsCell, Cell!Spec

=============================================================================
