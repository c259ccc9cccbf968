-------------------------- MODULE ThreadTestProofs --------------------------
(***************************************************************************)
(* ThreadTests for any last number and any number of threads.  In          *)
(* interleaved_atomic_data and atomic_data_notify_all what the threads do  *)
(* with their AtomicData rests on what AtomicDataProofs shows of every use *)
(* of one; in interleaved_data two BlockingQueues keep two threads apart.  *)
(***************************************************************************)
EXTENDS ThreadTests, Sequences, SequenceTheorems, FiniteSetTheorems, TLAPS

TurnData == INSTANCE AtomicDataProofs WITH
  Threads <- TurnThreads, Values <- Numbers, Spurious <- FALSE,
  Predicates <- TurnPredicates

GateData == INSTANCE AtomicDataProofs WITH
  Threads <- GateThreads, Values <- Shared, Spurious <- FALSE,
  Predicates <- GatePredicates

\* interleaved_atomic_data: the AtomicData is one that AtomicDataProofs is about ...
LEMMA TurnDataInv ==
  /\ TurnData!Init => TurnData!Inv
  /\ TurnData!Inv /\ [TurnData!Next]_(TurnData!vars) => TurnData!Inv'
<1>1. /\ Nobody \notin TurnThreads /\ "this" \notin TurnThreads
      /\ Torn \notin Numbers /\ FALSE \in BOOLEAN
      /\ TurnPredicates \subseteq SUBSET Numbers /\ Numbers \in TurnPredicates
  BY TestThreadsAssumption, TornAssumption DEF TurnThreads, TurnPredicates, Parity
<1>2. TurnData!This \notin TurnThreads
  BY <1>1 DEF TurnData!This
<1>3. TurnData!Init => TurnData!Inv
  BY <1>1, <1>2, TurnData!InitInv
<1>4. TurnData!Inv /\ [TurnData!Next]_(TurnData!vars) => TurnData!Inv'
  BY <1>1, <1>2, TurnData!TypesPreserved, TurnData!MutexDisciplinePreserved,
     TurnData!ReferencesHeldPreserved, TurnData!TornOnlyInFuncPreserved DEF TurnData!Inv
<1> QED  BY <1>3, <1>4

\* ... with two threads, a last number that is odd, and the two predicates.
LEMMA TurnsSetting ==
  /\ MaxNumber \in Nat /\ MaxNumber % 2 = 1
  /\ TurnThreads = {Odd, Even} /\ Odd # Even
  /\ Numbers = 0 .. MaxNumber + 1
  /\ \A t \in TurnThreads : Turns!MyTurn(t) \in TurnPredicates
BY MaxNumberAssumption, TestThreadsAssumption
   DEF TurnThreads, Numbers, TurnPredicates, Turns!MyTurn, Parity

\* The current number is how many have been written, and whoever reads it in
\* its function is the thread whose turn it is.  A thread that has written its
\* last number never calls again, so nobody goes beyond the last one.
TurnsInv ==
  LET current == Len(allData)
      last(t) == todo[t] \in {"notify last", "stop"}
  IN  /\ TurnData!Inv
      /\ todo \in [TurnThreads -> {"wait", "notify", "notify last", "stop"}]
      /\ allData \in Seq(TurnThreads \X Nat)
      /\ current <= MaxNumber + 1
      /\ \A t \in TurnThreads : pc[t] # "idle" => todo[t] = "wait" /\ under[t] = Turns!MyTurn(t)
      /\ data # Torn => data = current
      /\ \A t \in TurnThreads : pc[t] = "func" => seen[t] = current
      /\ current >= MaxNumber => last(Even)
      /\ current = MaxNumber + 1 => last(Odd)
      /\ Turns!InOrder

\* What a thread does to the AtomicData is a step of AtomicData.
LEMMA TurnsUseAtomicData ==
  ASSUME NEW t \in TurnThreads
  PROVE  /\ Turns!vars = TurnData!vars
         /\ \A o, p : Turns!Call(t, o, p) <=> TurnData!Call(t, o, p)
         /\ \A v : Turns!FuncEnds(t, v) <=> TurnData!FuncEnds(t, v)
         /\ Turns!Guard(t) <=> TurnData!Guard(t)
         /\ Turns!Func(t) <=> TurnData!Func(t)
         /\ Turns!PredicateFalse(t) <=> TurnData!PredicateFalse(t)
         /\ Turns!WakeUp(t) <=> TurnData!WakeUp(t)
         /\ Turns!Notify(t, Turns!NotifyOne) <=> TurnData!Notify(t, TurnData!NotifyOne)
BY Zenon DEF Turns!vars, TurnData!vars, Turns!callVars, TurnData!callVars,
   Turns!monitorVars, TurnData!monitorVars, Turns!Call, TurnData!Call, Turns!FuncEnds,
   TurnData!FuncEnds, Turns!Guard, TurnData!Guard, Turns!Func, TurnData!Func,
   Turns!PredicateFalse, TurnData!PredicateFalse, Turns!WakeUp, TurnData!WakeUp,
   Turns!Notify, TurnData!Notify, Turns!NotifyOne, TurnData!NotifyOne, Turns!Rouse,
   TurnData!Rouse, Turns!Relock, TurnData!Relock, Turns!Lock, TurnData!Lock, Turns!Unlock,
   TurnData!Unlock, Turns!Wait, TurnData!Wait, Turns!GoTo, TurnData!GoTo, Turns!Return,
   TurnData!Return, Turns!Report, TurnData!Report, Turns!This, TurnData!This, Turns!Waits,
   TurnData!Waits, Turns!Uses, TurnData!Uses

\* A thread whose function runs is one whose turn it is, and which has not
\* written its last number.
LEMMA TurnAtHand ==
  ASSUME TurnsInv, NEW t \in TurnThreads, pc[t] = "func"
  PROVE  /\ seen[t] = Len(allData) /\ Len(allData) \in 0 .. MaxNumber
         /\ Len(allData) % 2 = IF t = Odd THEN 1 ELSE 0
         /\ seen[t] + 1 \in Numbers
<1>1. seen[t] = Len(allData) /\ todo[t] = "wait" /\ under[t] = Turns!MyTurn(t)
  BY DEF TurnsInv
<1>2. seen[t] \in Turns!MyTurn(t)
  BY <1>1 DEF TurnsInv, TurnData!Inv, TurnData!TornOnlyInFunc
<1>3. Len(allData) \in 0 .. MaxNumber + 1 /\ Len(allData) % 2 = IF t = Odd THEN 1 ELSE 0
  BY <1>1, <1>2, TurnsSetting DEF Turns!MyTurn
<1>4. Len(allData) # MaxNumber + 1
  <2>1. MaxNumber + 1 >= MaxNumber /\ t \in {Odd, Even}
    BY TurnsSetting
  <2> QED  BY <1>1, <2>1 DEF TurnsInv
<1>5. Len(allData) \in 0 .. MaxNumber /\ Len(allData) + 1 \in Numbers
  BY <1>3, <1>4, TurnsSetting
<1> QED  BY <1>1, <1>3, <1>5

\* So the whole test is a run of AtomicData.
LEMMA TurnsAreSteps ==
  ASSUME TurnsInv, NEW t \in TurnThreads, Turns!TurnsStep(t)
  PROVE  [TurnData!Next]_(TurnData!vars)
<1>1. ASSUME Turns!WaitForTurn(t) PROVE TurnData!Next
  <2>1. TurnData!Call(t, "wait", Turns!MyTurn(t))
    BY <1>1, TurnsUseAtomicData, Zenon DEF Turns!WaitForTurn
  <2>2. "wait" \in TurnData!Ops /\ Turns!MyTurn(t) \in TurnPredicates
    BY TurnsSetting DEF TurnData!Ops, TurnData!Waits
  <2> QED  BY <2>1, <2>2, Zenon DEF TurnData!Next, TurnData!Calls
<1>2. ASSUME Turns!Waiting(t) PROVE TurnData!Next
  <2>1. \/ TurnData!Guard(t) \/ TurnData!Func(t)
        \/ TurnData!PredicateFalse(t) \/ TurnData!WakeUp(t)
    BY <1>2, TurnsUseAtomicData, Zenon DEF Turns!Waiting
  <2> QED  BY <2>1, Zenon DEF TurnData!Next, TurnData!Step
<1>3. ASSUME Turns!TakeTurn(t) PROVE TurnData!Next
  <2>1. pc[t] = "func" /\ TurnData!FuncEnds(t, seen[t] + 1)
    BY <1>3, TurnsUseAtomicData, Zenon DEF Turns!TakeTurn
  <2>2. seen[t] + 1 \in Numbers
    BY <2>1, TurnAtHand
  <2> QED  BY <2>1, <2>2, Zenon DEF TurnData!Next, TurnData!Step
<1>4. ASSUME Turns!PassTurn(t) PROVE TurnData!Next
  <2>1. TurnData!Notify(t, TurnData!NotifyOne)
    BY <1>4, TurnsUseAtomicData, Zenon DEF Turns!PassTurn
  <2> QED  BY <2>1, Zenon DEF TurnData!Next, TurnData!Notifies
<1> QED  BY <1>1, <1>2, <1>3, <1>4, Zenon DEF Turns!TurnsStep

\* What a sequence is after one more element.
LEMMA Appended ==
  ASSUME NEW S, NEW s \in Seq(S), NEW e \in S
  PROVE  /\ Append(s, e) \in Seq(S) /\ Len(Append(s, e)) = Len(s) + 1
         /\ \A n \in 1 .. Len(s) : Append(s, e)[n] = s[n]
         /\ Append(s, e)[Len(s) + 1] = e
BY AppendProperties

\* Every step of a thread preserves the invariant.
LEMMA TurnsStepPreservesInv ==
  ASSUME TurnsInv, NEW t \in TurnThreads, Turns!TurnsStep(t)
  PROVE  TurnsInv'
<1> DEFINE current == Len(allData)
<1>1. TurnData!Inv'
  <2>1. TurnData!Inv /\ [TurnData!Next]_(TurnData!vars)
    BY TurnsAreSteps DEF TurnsInv
  <2> QED  BY <2>1, TurnDataInv
<1>2. /\ MaxNumber \in Nat /\ MaxNumber % 2 = 1 /\ TurnThreads = {Odd, Even} /\ Odd # Even
      /\ pc \in [TurnThreads -> TurnData!PCs] /\ under \in [TurnThreads -> TurnPredicates]
      /\ seen \in [TurnThreads -> Numbers \cup {Torn}]
      /\ current \in Nat
  <2>1. current \in Nat
    BY LenProperties DEF TurnsInv
  <2>2. pc \in [TurnThreads -> TurnData!PCs] /\ under \in [TurnThreads -> TurnPredicates]
        /\ seen \in [TurnThreads -> Numbers \cup {Torn}]
    BY Zenon DEF TurnsInv, TurnData!Inv, TurnData!TypeOK
  <2> QED  BY <2>1, <2>2, Zenon, TurnsSetting
<1>3. ASSUME Turns!WaitForTurn(t) PROVE TurnsInv'
  <2>1. /\ todo[t] = "wait" /\ TurnData!Call(t, "wait", Turns!MyTurn(t))
        /\ todo' = todo /\ allData' = allData
    BY <1>3, TurnsUseAtomicData, Zenon DEF Turns!WaitForTurn, Turns!turnVars
  <2> QED  BY ZenonT(40), <1>1, <1>2, <2>1 DEF TurnsInv, TurnData!Call, TurnData!GoTo, Turns!InOrder,
              Turns!MyTurn
<1>4. ASSUME Turns!Waiting(t) PROVE TurnsInv'
  <2>1. /\ \/ TurnData!Guard(t) \/ TurnData!Func(t)
           \/ TurnData!PredicateFalse(t) \/ TurnData!WakeUp(t)
        /\ todo' = todo /\ allData' = allData
    BY <1>4, TurnsUseAtomicData, Zenon DEF Turns!Waiting, Turns!turnVars
  <2>2. CASE TurnData!Func(t)
    <3>1. data # Torn
      BY <2>2, TornAssumption DEF TurnData!Func, TurnsInv, TurnData!Inv,
         TurnData!MutexDiscipline, TurnData!TornOnlyInFunc, TurnData!TypeOK
    <3> QED  BY <1>1, <1>2, <2>1, <2>2, <3>1 DEF TurnsInv, TurnData!Func, TurnData!GoTo,
                Turns!InOrder, Turns!MyTurn
  <2>3. CASE TurnData!Guard(t) \/ TurnData!PredicateFalse(t) \/ TurnData!WakeUp(t)
    <3>1. /\ pc[t] # "idle" /\ data' = data /\ seen' = seen /\ under' = under
          /\ \A u \in TurnThreads : pc'[u] = "func" => pc[u] = "func"
          /\ \A u \in TurnThreads : pc'[u] # "idle" => pc[u] # "idle"
      BY <1>2, <2>3 DEF TurnData!Guard, TurnData!PredicateFalse, TurnData!WakeUp,
         TurnData!GoTo
    <3> QED  BY <1>1, <2>1, <3>1 DEF TurnsInv, Turns!InOrder, Turns!MyTurn
  <2> QED  BY <2>1, <2>2, <2>3
<1>5. ASSUME Turns!TakeTurn(t) PROVE TurnsInv'
  <2> DEFINE pair == <<t, seen[t]>>
             next == IF seen[t] + 1 >= MaxNumber THEN "notify last" ELSE "notify"
  <2>1. /\ pc[t] = "func" /\ TurnData!FuncEnds(t, seen[t] + 1)
        /\ allData' = Append(allData, pair)
        /\ todo' = [todo EXCEPT ![t] = next]
    BY <1>5, TurnsUseAtomicData, Zenon DEF Turns!TakeTurn, Turns!Then
  <2>2. /\ seen[t] = current /\ current \in 0 .. MaxNumber
        /\ current % 2 = IF t = Odd THEN 1 ELSE 0
    BY <2>1, TurnAtHand
  <2>3. /\ allData' \in Seq(TurnThreads \X Nat) /\ Len(allData') = current + 1
        /\ \A n \in 1 .. current : allData'[n] = allData[n]
        /\ allData'[current + 1] = pair
    <3>1. pair \in TurnThreads \X Nat
      BY <2>2
    <3>2. allData \in Seq(TurnThreads \X Nat)
      BY DEF TurnsInv
    <3> HIDE DEF pair
    <3>3. /\ Append(allData, pair) \in Seq(TurnThreads \X Nat)
          /\ Len(Append(allData, pair)) = Len(allData) + 1
          /\ \A n \in 1 .. Len(allData) : Append(allData, pair)[n] = allData[n]
          /\ Append(allData, pair)[Len(allData) + 1] = pair
      BY <3>1, <3>2, Appended
    <3>4. allData' = Append(allData, pair)
      BY <2>1
    <3> QED  BY <3>3, <3>4, Zenon
  <2>4. Turns!InOrder'
    <3>1. DOMAIN allData' = 1 .. current + 1 /\ DOMAIN allData = 1 .. current
      BY <2>3, LenProperties DEF TurnsInv
    <3> SUFFICES ASSUME NEW n \in 1 .. current + 1
                 PROVE  allData'[n] = <<IF n % 2 = 1 THEN Even ELSE Odd, n - 1>>
      BY <3>1 DEF Turns!InOrder
    <3>2. CASE n \in 1 .. current
      BY <2>3, <3>1, <3>2 DEF TurnsInv, Turns!InOrder
    <3>3. CASE n = current + 1
      <4>1. t = IF n % 2 = 1 THEN Even ELSE Odd
        BY <1>2, <2>2, <3>3
      <4>2. seen[t] = n - 1
        BY <2>2, <3>3
      <4> QED  BY <2>3, <3>3, <4>1, <4>2
    <3> QED  BY <3>2, <3>3
  <2>5. /\ data' = current + 1
        /\ \A u \in TurnThreads : pc'[u] # "idle" =>
             u # t /\ pc[u] # "idle" /\ under'[u] = under[u]
        /\ \A u \in TurnThreads : pc'[u] # "func"
    <3>1. \A u \in TurnThreads : pc[u] = "func" => u = t
      BY <2>1 DEF TurnsInv, TurnData!Inv, TurnData!MutexDiscipline
    <3> QED  BY <1>2, <2>1, <2>2, <3>1 DEF TurnData!FuncEnds, TurnData!Return, TurnData!GoTo
  <2>6. todo' \in [TurnThreads -> {"wait", "notify", "notify last", "stop"}]
    BY <2>1 DEF TurnsInv
  <2>7. \A u \in TurnThreads : pc'[u] # "idle" =>
          todo'[u] = "wait" /\ under'[u] = Turns!MyTurn(u)
    BY <2>1, <2>5 DEF TurnsInv
  <2>8. /\ current + 1 >= MaxNumber => todo'[Even] \in {"notify last", "stop"}
        /\ current + 1 = MaxNumber + 1 => todo'[Odd] \in {"notify last", "stop"}
    <3>1. todo[t] = "wait" /\ todo \in [TurnThreads -> {"wait", "notify", "notify last", "stop"}]
      BY <2>1 DEF TurnsInv
    <3>2. CASE t = Even
      <4>1. current # MaxNumber
        BY <1>2, <2>2, <3>2
      <4>2. current + 1 # MaxNumber + 1
        BY <1>2, <2>2, <4>1
      <4>3. current + 1 >= MaxNumber => next = "notify last"
        BY <2>2
      <4> HIDE DEF next, current
      <4>4. todo'[Even] = next
        BY <2>1, <3>1, <3>2, Zenon
      <4> QED  BY <4>2, <4>3, <4>4, Zenon
    <3>3. CASE t = Odd
      <4>1. current + 1 # MaxNumber
        BY <1>2, <2>2, <3>3
      <4>2. current >= MaxNumber => todo[Even] \in {"notify last", "stop"}
        BY DEF TurnsInv
      <4>3. current + 1 >= MaxNumber => current >= MaxNumber
        BY <1>2, <2>2, <4>1
      <4>4. current + 1 = MaxNumber + 1 => next = "notify last"
        BY <1>2, <2>2
      <4> HIDE DEF next, current
      <4>5. todo'[Odd] = next /\ todo'[Even] = todo[Even]
        BY <1>2, <2>1, <3>1, <3>3, Zenon
      <4> QED  BY <4>2, <4>3, <4>4, <4>5, Zenon
    <3> QED  BY <1>2, <3>2, <3>3
  <2>9. current + 1 <= MaxNumber + 1
    BY <1>2, <2>2
  <2> HIDE DEF current
  <2> QED  BY <1>1, <2>3, <2>4, <2>5, <2>6, <2>7, <2>8, <2>9, Zenon DEF TurnsInv,
              Turns!MyTurn
<1>6. ASSUME Turns!PassTurn(t) PROVE TurnsInv'
  <2>1. /\ todo[t] \in {"notify", "notify last"} /\ TurnData!Notify(t, TurnData!NotifyOne)
        /\ todo' = [todo EXCEPT ![t] = IF todo[t] = "notify" THEN "wait" ELSE "stop"]
        /\ allData' = allData
    BY <1>6, TurnsUseAtomicData, Zenon DEF Turns!PassTurn, Turns!Then
  <2>2. data' = data /\ pc' = pc /\ under' = under /\ seen' = seen
    BY <2>1 DEF TurnData!Notify, TurnData!callVars
  <2>3. pc[t] = "idle"
    BY <2>1 DEF TurnsInv
  <2> QED  BY <1>1, <1>2, <2>1, <2>2, <2>3 DEF TurnsInv, Turns!InOrder, Turns!MyTurn
<1> QED  BY <1>3, <1>4, <1>5, <1>6, Zenon DEF Turns!TurnsStep

\* It holds at the beginning ...
LEMMA TurnsInitInv ==
  ASSUME Turns!TurnsInit
  PROVE  TurnsInv
<1>1. Turns!Init /\ data = 0 /\ todo = [t \in TurnThreads |-> "wait"] /\ allData = <<>>
  BY DEF Turns!TurnsInit
<1>2. TurnData!Init
  BY <1>1, Zenon DEF Turns!Init, TurnData!Init, Turns!MonitorInit, TurnData!MonitorInit,
     Turns!This, TurnData!This
<1>3. TurnData!Inv
  BY <1>2, TurnDataInv
<1>4. pc = [t \in TurnThreads |-> "idle"]
  BY <1>2 DEF TurnData!Init
<1>5. Len(allData) = 0 /\ allData \in Seq(TurnThreads \X Nat) /\ DOMAIN allData = {}
  BY <1>1
<1>6. ~(0 >= MaxNumber) /\ 0 # MaxNumber + 1 /\ 0 <= MaxNumber + 1
  BY TurnsSetting
<1> QED  BY <1>1, <1>3, <1>4, <1>5, <1>6 DEF TurnsInv, Turns!InOrder

\* ... and steps of nobody preserve it too.
LEMMA TurnsInvStays ==
  ASSUME TurnsInv, UNCHANGED <<TurnData!vars, todo, allData>>
  PROVE  TurnsInv'
<1>1. TurnData!Inv'
  BY TurnDataInv DEF TurnsInv
<1> QED  BY <1>1 DEF TurnsInv, TurnData!vars, TurnData!callVars, Turns!InOrder, Turns!MyTurn


-----------------------------------------------------------------------------
\* Nobody is left asleep.  A thread that sleeps although it is its turn has
\* another one about to notify it, and a thread stops after its last turn only.
TurnsAwake ==
  /\ "this" \in refs
  /\ \A t \in TurnThreads : pc[t] # "idle" =>
       pc[t] \in {"lock", "check", "waiting", "func"} /\ op[t] = "wait"
  /\ \A t \in sleeping : data \in Turns!MyTurn(t) =>
       \E u \in TurnThreads : todo[u] \in {"notify", "notify last"}
  /\ todo[Even] \in {"notify last", "stop"} => Len(allData) >= MaxNumber
  /\ todo[Odd] \in {"notify last", "stop"} => Len(allData) = MaxNumber + 1

\* A thread can make a step of its own: it is neither at its end nor asleep, and
\* does not need a mutex that somebody has.
TurnMoves(t) ==
  \/ pc[t] = "idle" /\ todo[t] # "stop"
  \/ pc[t] \in {"check", "func"}
  \/ (pc[t] = "lock" \/ t \in woken) /\ owner = Nobody

\* The steps of a thread until it sleeps or its function has been called, with
\* those it brings another thread by its notification.
TurnRank(t) ==
  IF todo[t] # "wait" THEN IF todo[t] = "stop" THEN 0 ELSE 6
  ELSE IF pc[t] = "idle" THEN 3
  ELSE IF pc[t] = "lock" \/ t \in woken THEN 2
  ELSE IF pc[t] = "check" THEN 1
  ELSE 0

\* The steps that are left, at most: seven for each number.
TurnsLeft == 7 * (MaxNumber + 1 - Len(allData)) + TurnRank(Odd) + TurnRank(Even)

\* What the invariants say of the threads.
LEMMA TurnPlaces ==
  ASSUME TurnsInv, TurnsAwake
  PROVE  /\ sleeping \subseteq TurnThreads /\ woken \subseteq TurnThreads
         /\ todo \in [TurnThreads -> {"wait", "notify", "notify last", "stop"}]
         /\ pc \in [TurnThreads -> {"idle", "lock", "check", "waiting", "func"}]
         /\ \A t \in TurnThreads :
              /\ owner = t <=> pc[t] \in {"check", "func"}
              /\ t \in sleeping \/ t \in woken <=> pc[t] = "waiting"
              /\ ~(t \in sleeping /\ t \in woken)
              /\ pc[t] # "idle" => todo[t] = "wait" /\ under[t] = Turns!MyTurn(t)
         /\ owner \in TurnThreads \cup {Nobody}
         /\ TurnThreads = {Odd, Even} /\ Odd # Even
         /\ Len(allData) \in 0 .. MaxNumber + 1 /\ MaxNumber \in Nat /\ MaxNumber % 2 = 1
         /\ Len(allData) \in Nat
<1>1. /\ TurnData!MonitorTypeOK /\ TurnData!MutexDiscipline /\ pc \in [TurnThreads -> TurnData!PCs]
      /\ todo \in [TurnThreads -> {"wait", "notify", "notify last", "stop"}]
      /\ \A t \in TurnThreads : pc[t] # "idle" => todo[t] = "wait" /\ under[t] = Turns!MyTurn(t)
  BY DEF TurnsInv, TurnData!Inv, TurnData!TypeOK
<1>2. pc \in [TurnThreads -> {"idle", "lock", "check", "waiting", "func"}]
  BY <1>1 DEF TurnsAwake
<1>3. Len(allData) \in 0 .. MaxNumber + 1 /\ Len(allData) \in Nat
  <2>1. allData \in Seq(TurnThreads \X Nat) /\ Len(allData) <= MaxNumber + 1
    BY DEF TurnsInv
  <2>2. Len(allData) \in Nat
    BY <2>1, LenProperties
  <2> QED  BY <2>1, <2>2, TurnsSetting
<1> QED  BY <1>1, <1>2, <1>3, TurnsSetting DEF TurnData!MonitorTypeOK, TurnData!MutexDiscipline

\* While one of the two has not stopped, one of them can go on, and when both
\* have, everything is written.
LEMMA TurnsDoNotStick ==
  ASSUME TurnsInv, TurnsAwake
  PROVE  Turns!AllWritten \/ \E t \in TurnThreads : TurnMoves(t)
<1>1. CASE Turns!BothStopped
  <2>1. todo[Odd] = "stop" /\ todo[Even] = "stop"
    BY <1>1, TurnPlaces DEF Turns!BothStopped
  <2>2. Len(allData) = MaxNumber + 1
    BY <2>1 DEF TurnsAwake
  <2>3. \A t \in TurnThreads : pc[t] # "func"
    BY <2>1, TurnPlaces
  <2>4. data = MaxNumber + 1
    BY <2>2, <2>3 DEF TurnsInv, TurnData!Inv, TurnData!TornOnlyInFunc
  <2> QED  BY <1>1, <2>2, <2>4 DEF Turns!AllWritten
<1>2. CASE ~Turns!BothStopped
  <2> SUFFICES ASSUME \A t \in TurnThreads : ~TurnMoves(t)
               PROVE  FALSE
    OBVIOUS
  <2>1. /\ owner = Nobody
        /\ \A t \in TurnThreads : t \in sleeping \/ (todo[t] = "stop" /\ pc[t] = "idle")
    BY TurnPlaces DEF TurnMoves
  <2>2. data = Len(allData)
    BY <2>1, TurnPlaces DEF TurnsInv, TurnData!Inv, TurnData!TornOnlyInFunc
  <2>3. PICK t \in TurnThreads : t \in sleeping /\ todo[t] = "wait"
    BY <1>2, <2>1, TurnPlaces DEF Turns!BothStopped
  <2>4. PICK u \in TurnThreads : u # t /\ (u = Odd <=> t = Even)
    BY TurnsSetting
  <2>5. /\ \A x \in TurnThreads : x \in sleeping => data \notin Turns!MyTurn(x)
        /\ \A x \in TurnThreads : todo[x] \notin {"notify", "notify last"}
    BY <2>1, TurnPlaces DEF TurnsAwake
  <2>6. data \in 0 .. MaxNumber + 1 /\ data % 2 = IF u = Odd THEN 1 ELSE 0
    <3>1. data \in Numbers /\ data \notin Turns!MyTurn(t)
      BY <2>2, <2>3, <2>5, TurnPlaces, TurnsSetting
    <3>2. data % 2 # IF t = Odd THEN 1 ELSE 0
      BY <3>1 DEF Turns!MyTurn
    <3>3. data \in 0 .. MaxNumber + 1 /\ t \in {Odd, Even} /\ Odd # Even /\ MaxNumber \in Nat
      BY <3>1, TurnsSetting
    <3> QED  BY <2>4, <3>2, <3>3
  <2>7. todo[u] = "stop"
    <3>1. data \in Turns!MyTurn(u)
      BY <2>6, TurnsSetting DEF Turns!MyTurn
    <3> QED  BY <2>1, <2>5, <3>1
  <2>8. CASE u = Even
    <3>1. data >= MaxNumber
      BY <2>2, <2>7, <2>8 DEF TurnsAwake
    <3>2. data = MaxNumber + 1
      BY <2>6, <2>8, <3>1, TurnsSetting
    <3>3. todo[Odd] \in {"notify last", "stop"}
      BY <2>2, <3>2 DEF TurnsInv
    <3> QED  BY <2>3, <2>4, <2>8, <3>3, TurnsSetting
  <2>9. CASE u = Odd
    <3>1. data = MaxNumber + 1
      BY <2>2, <2>7, <2>9 DEF TurnsAwake
    <3> QED  BY <2>6, <2>9, <3>1, TurnsSetting
  <2> QED  BY <2>8, <2>9, TurnsSetting
<1> QED  BY <1>1, <1>2

\* Every step keeps that so, and is one of those that are left.
LEMMA TurnsStepLeavesFewer ==
  ASSUME TurnsInv, TurnsAwake, NEW t \in TurnThreads, Turns!TurnsStep(t)
  PROVE  TurnsAwake' /\ TurnsLeft' < TurnsLeft
<1> DEFINE current == Len(allData)
<1>0. TurnsInv'
  BY TurnsStepPreservesInv
<1>1. PICK u \in TurnThreads : TurnThreads = {t, u} /\ t # u
  BY TurnsSetting
<1>2. /\ current \in 0 .. MaxNumber + 1 /\ MaxNumber \in Nat /\ MaxNumber % 2 = 1
      /\ sleeping \subseteq {t, u} /\ woken \subseteq {t, u}
      /\ todo \in [{t, u} -> {"wait", "notify", "notify last", "stop"}]
      /\ pc \in [{t, u} -> {"idle", "lock", "check", "waiting", "func"}]
      /\ op \in [{t, u} -> TurnData!Ops]
      /\ \A x \in {t, u} :
           /\ owner = x <=> pc[x] \in {"check", "func"}
           /\ x \in sleeping \/ x \in woken <=> pc[x] = "waiting"
           /\ ~(x \in sleeping /\ x \in woken)
           /\ pc[x] # "idle" => op[x] = "wait" /\ todo[x] = "wait"
  BY <1>1, TurnPlaces DEF TurnsAwake, TurnsInv, TurnData!Inv, TurnData!TypeOK
<1>2a. current \in Nat /\ MaxNumber \in Nat
  BY TurnPlaces, Zenon
<1>3. \A x \in {t, u} : TurnRank(x) \in Nat /\ TurnRank(x)' \in Nat
  BY DEF TurnRank
<1>4. (Odd = t /\ Even = u) \/ (Odd = u /\ Even = t)
  BY <1>1, TurnsSetting
<1>5. ASSUME TurnRank(t)' + TurnRank(u)' < TurnRank(t) + TurnRank(u), allData' = allData
      PROVE  TurnsLeft' < TurnsLeft
  <2>1. TurnRank(Odd)' + TurnRank(Even)' < TurnRank(Odd) + TurnRank(Even)
    BY <1>3, <1>4, <1>5
  <2>2. /\ TurnRank(Odd) \in Nat /\ TurnRank(Even) \in Nat
        /\ TurnRank(Odd)' \in Nat /\ TurnRank(Even)' \in Nat
    BY <1>3, <1>4
  <2>3. current \in Nat /\ MaxNumber \in Nat
    BY <1>2a
  <2>4. current' = current
    BY <1>5
  <2> QED  BY <2>1, <2>2, <2>3, <2>4 DEF TurnsLeft
<1>6. CASE Turns!WaitForTurn(t)
  <2>1. /\ todo[t] = "wait" /\ pc[t] = "idle" /\ pc' = [pc EXCEPT ![t] = "lock"]
        /\ op' = [op EXCEPT ![t] = "wait"]
        /\ UNCHANGED <<todo, owner, sleeping, woken, data, refs, allData>>
    <3>1. todo[t] = "wait" /\ UNCHANGED <<todo, allData>> /\ TurnData!Call(t, "wait", Turns!MyTurn(t))
      BY <1>6, TurnsUseAtomicData, Zenon DEF Turns!WaitForTurn, Turns!turnVars
    <3> QED  BY <3>1 DEF TurnData!Call, TurnData!GoTo, TurnData!monitorVars
  <2>2. TurnsAwake'
    BY <1>1, <1>2, <2>1 DEF TurnsAwake, Turns!MyTurn
  <2>3. TurnRank(t) = 3 /\ TurnRank(t)' = 2 /\ TurnRank(u)' = TurnRank(u)
    <3>1. /\ todo'[t] = "wait" /\ pc'[t] = "lock"
          /\ todo'[u] = todo[u] /\ pc'[u] = pc[u] /\ woken' = woken
      BY <1>1, <1>2, <2>1
    <3> QED  BY <2>1, <3>1 DEF TurnRank
  <2> QED  BY <1>3, <1>5, <2>1, <2>2, <2>3
<1>7. CASE Turns!Waiting(t)
  <2>1. /\ \/ TurnData!Guard(t) \/ TurnData!Func(t)
           \/ TurnData!PredicateFalse(t) \/ TurnData!WakeUp(t)
        /\ todo' = todo /\ allData' = allData
    BY <1>7, TurnsUseAtomicData, Zenon DEF Turns!Waiting, Turns!turnVars
  <2>2. pc[t] # "idle" /\ pc[t] \notin {"expired", "timedout"} /\ op[t] = "wait"
    BY <1>1, <1>2, <2>1 DEF TurnData!Guard, TurnData!Func, TurnData!PredicateFalse, TurnData!WakeUp,
       TurnData!Relock
  <2>3. CASE TurnData!Guard(t) \/ TurnData!WakeUp(t)
    <3>1. /\ pc[t] = "lock" \/ t \in woken
          /\ pc' = [pc EXCEPT ![t] = "check"] /\ woken' = woken \ {t}
          /\ UNCHANGED <<sleeping, data, op, refs>>
      BY <1>2, <2>2, <2>3 DEF TurnData!Guard, TurnData!WakeUp, TurnData!Relock, TurnData!Lock, TurnData!GoTo
    <3>2. TurnsAwake'
      BY <1>1, <1>2, <2>1, <3>1 DEF TurnsAwake, Turns!MyTurn
    <3>3. TurnRank(t) = 2 /\ TurnRank(t)' = 1 /\ TurnRank(u)' = TurnRank(u)
      <4>1. /\ todo[t] = "wait" /\ todo'[t] = "wait" /\ pc[t] # "idle" /\ pc'[t] = "check"
            /\ todo'[u] = todo[u] /\ pc'[u] = pc[u] /\ t \notin woken'
            /\ u \in woken' <=> u \in woken
        BY <1>1, <1>2, <2>1, <2>2, <3>1
      <4> QED  BY <3>1, <4>1 DEF TurnRank
    <3> QED  BY <1>3, <1>5, <2>1, <3>2, <3>3
  <2>4. CASE TurnData!Func(t)
    <3>1. /\ pc[t] = "check" /\ pc' = [pc EXCEPT ![t] = "func"] /\ data' = Torn
          /\ UNCHANGED <<sleeping, woken, op, refs>>
      BY <2>2, <2>4 DEF TurnData!Func, TurnData!GoTo, TurnData!monitorVars
    <3>2. TurnsAwake'
      BY <1>1, <1>2, <2>1, <3>1, TornAssumption DEF TurnsAwake, Turns!MyTurn
    <3>3. TurnRank(t) = 1 /\ TurnRank(t)' = 0 /\ TurnRank(u)' = TurnRank(u)
      <4>1. /\ todo[t] = "wait" /\ todo'[t] = "wait" /\ pc'[t] = "func"
            /\ todo'[u] = todo[u] /\ pc'[u] = pc[u] /\ t \notin woken /\ woken' = woken
        BY <1>1, <1>2, <2>1, <2>2, <3>1
      <4> QED  BY <3>1, <4>1 DEF TurnRank
    <3> QED  BY <1>3, <1>5, <2>1, <3>2, <3>3
  <2>5. CASE TurnData!PredicateFalse(t)
    <3>1. /\ pc[t] = "check" /\ pc' = [pc EXCEPT ![t] = "waiting"] /\ data \notin under[t]
          /\ sleeping' = sleeping \cup {t} /\ UNCHANGED <<data, woken, op, refs>>
      BY <2>2, <2>5 DEF TurnData!PredicateFalse, TurnData!Wait, TurnData!GoTo
    <3>2. under[t] = Turns!MyTurn(t)
      BY <3>1 DEF TurnsInv
    <3>3. TurnsAwake'
      BY <1>1, <1>2, <2>1, <3>1, <3>2 DEF TurnsAwake, Turns!MyTurn
    <3>4. TurnRank(t) = 1 /\ TurnRank(t)' = 0 /\ TurnRank(u)' = TurnRank(u)
      <4>1. /\ todo[t] = "wait" /\ todo'[t] = "wait" /\ pc'[t] = "waiting"
            /\ todo'[u] = todo[u] /\ pc'[u] = pc[u] /\ t \notin woken /\ woken' = woken
        BY <1>1, <1>2, <2>1, <2>2, <3>1
      <4> QED  BY <3>1, <4>1 DEF TurnRank
    <3> QED  BY <1>3, <1>5, <2>1, <3>3, <3>4
  <2> QED  BY <2>1, <2>3, <2>4, <2>5
<1>8. CASE Turns!TakeTurn(t)
  <2> DEFINE next == IF seen[t] + 1 >= MaxNumber THEN "notify last" ELSE "notify"
  <2>1. /\ pc[t] = "func" /\ TurnData!FuncEnds(t, seen[t] + 1)
        /\ allData' = Append(allData, <<t, seen[t]>>)
        /\ todo' = [todo EXCEPT ![t] = next]
    BY <1>8, TurnsUseAtomicData, Zenon DEF Turns!TakeTurn, Turns!Then
  <2>2. /\ pc' = [pc EXCEPT ![t] = "idle"] /\ op' = [op EXCEPT ![t] = "none"]
        /\ UNCHANGED <<sleeping, woken, refs>>
    BY <2>1 DEF TurnData!FuncEnds, TurnData!Return, TurnData!GoTo, TurnData!Unlock
  <2>3. /\ seen[t] = current /\ current \in 0 .. MaxNumber
        /\ current % 2 = IF t = Odd THEN 1 ELSE 0
    BY <2>1, TurnAtHand
  <2>4. Len(allData') = current + 1
    <3>1. allData \in Seq(TurnThreads \X Nat)
      BY DEF TurnsInv
    <3>2. <<t, seen[t]>> \in TurnThreads \X Nat
      BY <2>3
    <3>3. Len(Append(allData, <<t, seen[t]>>)) = Len(allData) + 1
      BY <3>1, <3>2, Appended
    <3> QED  BY <2>1, <3>3
  <2>5. TurnsAwake'
    <3>1. next \in {"notify", "notify last"}
      OBVIOUS
    <3>2. todo'[t] = next /\ todo'[u] = todo[u]
      BY <1>1, <1>2, <2>1
    <3>3. /\ todo'[Even] \in {"notify last", "stop"} => current + 1 >= MaxNumber
          /\ todo'[Odd] \in {"notify last", "stop"} => current + 1 = MaxNumber + 1
      <4>1. todo[u] \in {"notify last", "stop"} =>
              IF u = Even THEN current >= MaxNumber ELSE current = MaxNumber + 1
        BY <1>4 DEF TurnsAwake
      <4>2. MaxNumber \in Nat /\ MaxNumber % 2 = 1 /\ current \in 0 .. MaxNumber
        BY <1>2, <2>3
      <4>3. current + 1 >= MaxNumber /\ t = Odd => current + 1 = MaxNumber + 1
        BY <2>3, <4>2
      <4>4. next \in {"notify last", "stop"} => current + 1 >= MaxNumber
        BY <2>3
      <4>5. current >= MaxNumber => current + 1 >= MaxNumber
        BY <4>2
      <4>6. todo'[t] \in {"notify last", "stop"} => current + 1 >= MaxNumber
        BY <3>2, <4>4
      <4>7. u = Odd => todo'[u] \notin {"notify last", "stop"}
        <5>1. current # MaxNumber + 1 /\ (u = Odd => u # Even)
          BY <4>2, TurnsSetting
        <5> HIDE DEF next, current
        <5> QED  BY <3>2, <4>1, <5>1, Zenon
      <4>8. u = Even /\ todo'[u] \in {"notify last", "stop"} => current + 1 >= MaxNumber
        BY <3>2, <4>1, <4>5
      <4> HIDE DEF next, current
      <4> QED  BY <1>4, <4>3, <4>6, <4>7, <4>8, Zenon
    <3> HIDE DEF next, current
    <3> QED  BY <1>1, <1>2, <2>1, <2>2, <2>4, <3>1, <3>2, <3>3 DEF TurnsAwake
  <2>6. TurnRank(t)' = 6 /\ TurnRank(u)' = TurnRank(u) /\ TurnRank(t) = 0
    BY <1>1, <1>2, <2>1, <2>2 DEF TurnRank
  <2>7. TurnsLeft' < TurnsLeft
    <3>1. TurnRank(Odd)' + TurnRank(Even)' = TurnRank(Odd) + TurnRank(Even) + 6
      BY <1>3, <1>4, <2>6
    <3>2. /\ TurnRank(Odd) \in Nat /\ TurnRank(Even) \in Nat
          /\ TurnRank(Odd)' \in Nat /\ TurnRank(Even)' \in Nat
      BY <1>3, <1>4
    <3>3. current \in Nat /\ MaxNumber \in Nat
      BY <1>2a
    <3> QED  BY <2>4, <3>1, <3>2, <3>3 DEF TurnsLeft
  <2> QED  BY <2>5, <2>7
<1>9. CASE Turns!PassTurn(t)
  <2>1. /\ todo[t] \in {"notify", "notify last"} /\ TurnData!Notify(t, TurnData!NotifyOne)
        /\ todo' = [todo EXCEPT ![t] = IF todo[t] = "notify" THEN "wait" ELSE "stop"]
        /\ allData' = allData
    BY <1>9, TurnsUseAtomicData, Zenon DEF Turns!PassTurn, Turns!Then
  <2>2. pc[t] = "idle" /\ sleeping \subseteq {u}
    BY <1>1, <1>2, <2>1
  <2>3. /\ sleeping' = {} /\ woken' = woken \cup sleeping
        /\ UNCHANGED <<data, pc, op, refs>>
    BY <1>1, <1>2, <2>1, <2>2 DEF TurnData!Notify, TurnData!NotifyOne, TurnData!Rouse,
       TurnData!callVars, TurnData!monitorVars
  <2>4. TurnsAwake'
    BY <1>1, <1>2, <1>4, <2>1, <2>3 DEF TurnsAwake
  <2>5. TurnRank(t)' \in {0, 3} /\ TurnRank(t) = 6
    <3>1. /\ todo[t] # "wait" /\ todo[t] # "stop" /\ todo'[t] \in {"wait", "stop"}
          /\ pc'[t] = "idle"
      BY <1>2, <2>1, <2>2, <2>3
    <3> QED  BY <3>1 DEF TurnRank
  <2>6. TurnRank(u)' \in {TurnRank(u), 2}
    <3>1. todo'[u] = todo[u] /\ pc'[u] = pc[u] /\ (u \in woken => u \in woken')
      BY <1>1, <1>2, <2>1, <2>3
    <3> QED  BY <3>1 DEF TurnRank
  <2>7. TurnRank(t)' + TurnRank(u)' < TurnRank(t) + TurnRank(u)
    BY <1>3, <2>5, <2>6
  <2> QED  BY <1>5, <2>1, <2>4, <2>7
<1> QED  BY <1>6, <1>7, <1>8, <1>9 DEF Turns!TurnsStep

\* It is so at the beginning, and stays so while nothing happens.
LEMMA TurnsInitAwake ==
  ASSUME Turns!TurnsInit
  PROVE  TurnsAwake
<1>1. /\ Turns!Init /\ todo = [t \in TurnThreads |-> "wait"]
  BY DEF Turns!TurnsInit
<1>2. pc = [t \in TurnThreads |-> "idle"] /\ sleeping = {} /\ "this" \in refs
  BY <1>1 DEF Turns!Init, Turns!MonitorInit, Turns!This
<1> QED  BY <1>1, <1>2, TurnsSetting DEF TurnsAwake

LEMMA TurnsAwakeStays ==
  ASSUME TurnsAwake, UNCHANGED <<TurnData!vars, todo, allData>>
  PROVE  TurnsAwake'
BY DEF TurnsAwake, TurnData!vars, TurnData!callVars, TurnData!monitorVars, Turns!MyTurn

-----------------------------------------------------------------------------
\* atomic_data_notify_all: another AtomicData that AtomicDataProofs is about ...
LEMMA GateDataInv ==
  /\ GateData!Init => GateData!Inv
  /\ GateData!Inv /\ [GateData!Next]_(GateData!vars) => GateData!Inv'
  /\ Torn \notin Shared
<1>1. /\ Nobody \notin GateThreads /\ "this" \notin GateThreads
      /\ Torn \notin Shared /\ FALSE \in BOOLEAN
      /\ GatePredicates \subseteq SUBSET Shared /\ Shared \in GatePredicates
  BY TestThreadsAssumption, TornAssumption DEF GateThreads, GatePredicates
<1>2. GateData!This \notin GateThreads
  BY <1>1 DEF GateData!This
<1>3. GateData!Init => GateData!Inv
  BY <1>1, <1>2, GateData!InitInv
<1>4. GateData!Inv /\ [GateData!Next]_(GateData!vars) => GateData!Inv'
  BY <1>1, <1>2, GateData!TypesPreserved, GateData!MutexDisciplinePreserved,
     GateData!ReferencesHeldPreserved, GateData!TornOnlyInFuncPreserved DEF GateData!Inv
<1> QED  BY <1>1, <1>3, <1>4

\* ... with some threads besides the main one, which fit the counter.
LEMMA GateSetting ==
  /\ IsFiniteSet(GateThreads) /\ Main \in GateThreads
  /\ Shared = [write_away : BOOLEAN, num_threads : 0 .. Cardinality(Gate!Others)]
  /\ Shared \in GatePredicates /\ {v \in Shared : v.write_away} \in GatePredicates
<1>1. IsFiniteSet(GateThreads)
  BY TestThreadsAssumption, FS_AddElement DEF GateThreads
<1>2. Gate!Others = Writers
  BY TestThreadsAssumption DEF Gate!Others, GateThreads
<1> QED  BY <1>1, <1>2 DEF GateThreads, Shared, GatePredicates

\* The threads that have passed.
Passed == {t \in Gate!Others : todo[t] = "stop"}

CountIsPassed(v) == v.num_threads = Cardinality(Passed) /\ (v.num_threads > 0 => v.write_away)

\* What the data says of who has passed, or, while a function runs, what the
\* function was called with: only the thread in that function can change it.
GateInv ==
  /\ GateData!Inv
  /\ todo \in [GateThreads ->
                 {"open", "opening", "notify", "join", "read", "wait", "count", "stop"}]
  /\ \A t \in Gate!Others :
       /\ todo[t] \in {"wait", "count", "stop"}
       /\ pc[t] # "idle" => todo[t] = "count" /\ under[t] = {v \in Shared : v.write_away}
  /\ todo[Main] \notin {"wait", "count"}
  /\ pc[Main] # "idle" => todo[Main] \in {"opening", "read"}
  /\ data # Torn => CountIsPassed(data)
  /\ \A t \in GateThreads : pc[t] = "func" => CountIsPassed(seen[t])

\* What a thread does to the AtomicData is a step of AtomicData.
LEMMA GateUsesAtomicData ==
  ASSUME NEW t \in GateThreads
  PROVE  /\ Gate!vars = GateData!vars
         /\ \A o, p : Gate!Call(t, o, p) <=> GateData!Call(t, o, p)
         /\ \A v : Gate!FuncEnds(t, v) <=> GateData!FuncEnds(t, v)
         /\ Gate!Guard(t) <=> GateData!Guard(t)
         /\ Gate!Func(t) <=> GateData!Func(t)
         /\ Gate!PredicateFalse(t) <=> GateData!PredicateFalse(t)
         /\ Gate!WakeUp(t) <=> GateData!WakeUp(t)
         /\ Gate!Notify(t, Gate!NotifyAll) <=> GateData!Notify(t, GateData!NotifyAll)
BY Zenon DEF Gate!vars, GateData!vars, Gate!callVars, GateData!callVars, Gate!monitorVars,
   GateData!monitorVars, Gate!Call, GateData!Call, Gate!FuncEnds, GateData!FuncEnds,
   Gate!Guard, GateData!Guard, Gate!Func, GateData!Func, Gate!PredicateFalse,
   GateData!PredicateFalse, Gate!WakeUp, GateData!WakeUp, Gate!Notify, GateData!Notify,
   Gate!NotifyAll, GateData!NotifyAll, Gate!Rouse, GateData!Rouse, Gate!Relock,
   GateData!Relock, Gate!Lock, GateData!Lock, Gate!Unlock, GateData!Unlock, Gate!Wait,
   GateData!Wait, Gate!GoTo, GateData!GoTo, Gate!Return, GateData!Return, Gate!Report,
   GateData!Report, Gate!This, GateData!This, Gate!Waits, GateData!Waits, Gate!Uses,
   GateData!Uses

\* What the function of a thread was called with: the true count, and, if the
\* thread is one that waits, an open gate.
LEMMA CountAtHand ==
  ASSUME GateInv, NEW t \in GateThreads, pc[t] = "func"
  PROVE  /\ seen[t] \in Shared /\ CountIsPassed(seen[t])
         /\ t # Main => todo[t] = "count" /\ seen[t].write_away
         /\ t = Main => todo[t] \in {"opening", "read"}
<1>1. seen[t] \in Shared \cap under[t]
  BY DEF GateInv, GateData!Inv, GateData!TornOnlyInFunc
<1>2. CountIsPassed(seen[t])
  BY DEF GateInv
<1>3. ASSUME t # Main PROVE todo[t] = "count" /\ seen[t].write_away
  BY <1>1, <1>3 DEF GateInv, Gate!Others
<1>4. ASSUME t = Main PROVE todo[t] \in {"opening", "read"}
  BY <1>4 DEF GateInv
<1> QED  BY <1>1, <1>2, <1>3, <1>4

\* There is room for the thread that counts itself, since it has not passed.
LEMMA OneMorePasses ==
  ASSUME GateInv, NEW t \in Gate!Others, todo[t] # "stop"
  PROVE  /\ Cardinality(Passed \cup {t}) = Cardinality(Passed) + 1
         /\ Cardinality(Passed) \in Nat
         /\ Cardinality(Passed) + 1 \in 0 .. Cardinality(Gate!Others)
<1>1. IsFiniteSet(Gate!Others)
  BY FS_Subset, GateSetting DEF Gate!Others
<1>2. Passed \subseteq Gate!Others /\ t \notin Passed /\ Passed \cup {t} \subseteq Gate!Others
  BY DEF Passed
<1>3. IsFiniteSet(Passed) /\ Cardinality(Passed) \in Nat
  BY <1>1, <1>2, FS_Subset, FS_CardinalityType
<1>4. Cardinality(Passed \cup {t}) = Cardinality(Passed) + 1
  BY <1>2, <1>3, FS_AddElement
<1>5. Cardinality(Passed \cup {t}) <= Cardinality(Gate!Others) /\ Cardinality(Gate!Others) \in Nat
  BY <1>1, <1>2, FS_Subset, FS_CardinalityType
<1> QED  BY <1>3, <1>4, <1>5

\* What each function leaves in the data: one more has been counted, or the
\* gate is open.
LEMMA ValuesLeft ==
  ASSUME NEW s \in Shared
  PROVE  LET counted == [s EXCEPT !.num_threads = @ + 1]
             opened == [s EXCEPT !.write_away = TRUE]
         IN  /\ counted.num_threads = s.num_threads + 1 /\ counted.write_away = s.write_away
             /\ s.num_threads + 1 \in 0 .. Cardinality(Gate!Others) => counted \in Shared
             /\ opened.num_threads = s.num_threads /\ opened.write_away = TRUE
             /\ opened \in Shared
BY GateSetting

\* So the whole test is a run of AtomicData.
LEMMA GateStepsAreSteps ==
  ASSUME GateInv, NEW t \in GateThreads, Gate!GateStep(t)
  PROVE  [GateData!Next]_(GateData!vars)
<1>1. ASSUME Gate!WaitForGate(t) PROVE GateData!Next
  <2>1. GateData!Call(t, "wait", {v \in Shared : v.write_away})
    BY <1>1, GateUsesAtomicData, Zenon DEF Gate!WaitForGate
  <2>2. "wait" \in GateData!Ops /\ {v \in Shared : v.write_away} \in GatePredicates
    BY GateSetting DEF GateData!Ops, GateData!Waits
  <2> QED  BY <2>1, <2>2, Zenon DEF GateData!Next, GateData!Calls
<1>2. ASSUME Gate!Open(t) \/ Gate!JoinAll(t) PROVE GateData!Next
  <2>1. GateData!Call(t, "use", Shared)
    BY <1>2, GateUsesAtomicData, Zenon DEF Gate!Open, Gate!JoinAll
  <2>2. "use" \in GateData!Ops /\ Shared \in GatePredicates
    BY GateSetting DEF GateData!Ops, GateData!Uses
  <2> QED  BY <2>1, <2>2, Zenon DEF GateData!Next, GateData!Calls
<1>3. ASSUME NEW v \in Shared, GateData!FuncEnds(t, v) PROVE GateData!Next
  BY <1>3, Zenon DEF GateData!Next, GateData!Step
<1>4. ASSUME Gate!CountItself(t) PROVE GateData!Next
  <2>1. /\ todo[t] = "count" /\ pc[t] = "func"
        /\ GateData!FuncEnds(t, [seen[t] EXCEPT !.num_threads = @ + 1])
    BY <1>4, GateUsesAtomicData, Zenon DEF Gate!CountItself, GateData!FuncEnds
  <2>2. t \in Gate!Others /\ todo[t] # "stop"
    BY <2>1 DEF GateInv, Gate!Others
  <2>3. seen[t] \in Shared /\ seen[t].num_threads + 1 \in 0 .. Cardinality(Gate!Others)
    BY <2>1, <2>2, CountAtHand, OneMorePasses DEF CountIsPassed
  <2> QED  BY <2>1, <2>3, <1>3, ValuesLeft
<1>5. ASSUME Gate!Opened(t) \/ Gate!Counted(t) PROVE GateData!Next
  <2>1. \/ GateData!FuncEnds(t, [seen[t] EXCEPT !.write_away = TRUE])
        \/ GateData!FuncEnds(t, seen[t])
    BY <1>5, GateUsesAtomicData, Zenon DEF Gate!Opened, Gate!Counted
  <2>2. pc[t] = "func"
    BY <2>1 DEF GateData!FuncEnds
  <2>3. seen[t] \in Shared
    BY <2>2, CountAtHand
  <2> QED  BY <2>1, <2>3, <1>3, ValuesLeft
<1>6. ASSUME Gate!Inside(t) PROVE GateData!Next
  <2>1. \/ GateData!Guard(t) \/ GateData!Func(t)
        \/ GateData!PredicateFalse(t) \/ GateData!WakeUp(t)
    BY <1>6, GateUsesAtomicData, Zenon DEF Gate!Inside
  <2> QED  BY <2>1, Zenon DEF GateData!Next, GateData!Step
<1>7. ASSUME Gate!LetAllPass(t) PROVE GateData!Next
  <2>1. GateData!Notify(t, GateData!NotifyAll)
    BY <1>7, GateUsesAtomicData, Zenon DEF Gate!LetAllPass
  <2> QED  BY <2>1, Zenon DEF GateData!Next, GateData!Notifies
<1> QED  BY <1>1, <1>2, <1>4, <1>5, <1>6, <1>7, Zenon DEF Gate!GateStep

\* Every step of a thread preserves the invariant.
LEMMA GateStepPreservesInv ==
  ASSUME GateInv, NEW t \in GateThreads, Gate!GateStep(t)
  PROVE  GateInv'
<1>1. GateData!Inv'
  <2>1. GateData!Inv /\ [GateData!Next]_(GateData!vars)
    BY GateStepsAreSteps DEF GateInv
  <2> QED  BY <2>1, GateDataInv
<1>2. /\ pc \in [GateThreads -> GateData!PCs] /\ under \in [GateThreads -> GatePredicates]
      /\ seen \in [GateThreads -> Shared \cup {Torn}]
  BY Zenon DEF GateInv, GateData!Inv, GateData!TypeOK
<1>3. Main \in GateThreads /\ Gate!Others = GateThreads \ {Main}
  BY GateSetting DEF Gate!Others
<1>4. ASSUME Passed' = Passed
      PROVE  \A v : CountIsPassed(v)' <=> CountIsPassed(v)
  BY <1>4 DEF CountIsPassed
<1>5. ASSUME Gate!WaitForGate(t) PROVE GateInv'
  <2>1. /\ t \in Gate!Others /\ todo[t] = "wait"
        /\ GateData!Call(t, "wait", {v \in Shared : v.write_away})
        /\ todo' = [todo EXCEPT ![t] = "count"]
    BY <1>5, GateUsesAtomicData, Zenon DEF Gate!WaitForGate, Gate!Then
  <2>2. Passed' = Passed
    BY <2>1, <1>3 DEF GateInv, Passed
  <2> QED  BY <1>1, <1>2, <1>3, <2>1, <2>2 DEF GateInv, GateData!Call, GateData!GoTo,
              CountIsPassed
<1>6. ASSUME Gate!Open(t) PROVE GateInv'
  <2>1. /\ t = Main /\ todo[t] = "open" /\ GateData!Call(t, "use", Shared)
        /\ todo' = [todo EXCEPT ![t] = "opening"]
    BY <1>6, GateUsesAtomicData, Zenon DEF Gate!Open, Gate!Then
  <2>2. Passed' = Passed
    BY <2>1, <1>3 DEF GateInv, Passed
  <2> QED  BY <1>1, <1>2, <1>3, <2>1, <2>2 DEF GateInv, GateData!Call, GateData!GoTo,
              CountIsPassed
<1>7. ASSUME Gate!JoinAll(t) PROVE GateInv'
  <2>1. /\ t = Main /\ todo[t] = "join" /\ GateData!Call(t, "use", Shared)
        /\ todo' = [todo EXCEPT ![t] = "read"]
    <3>1. /\ todo[t] = "join" /\ GateData!Call(t, "use", Shared)
          /\ todo' = [todo EXCEPT ![t] = "read"]
      BY <1>7, GateUsesAtomicData, Zenon DEF Gate!JoinAll, Gate!Then
    <3> QED  BY <3>1, <1>3 DEF GateInv
  <2>2. Passed' = Passed
    BY <2>1, <1>3 DEF GateInv, Passed
  <2> QED  BY <1>1, <1>2, <1>3, <2>1, <2>2 DEF GateInv, GateData!Call, GateData!GoTo,
              CountIsPassed
<1>8. ASSUME Gate!LetAllPass(t) PROVE GateInv'
  <2>1. /\ t = Main /\ todo[t] = "notify" /\ GateData!Notify(t, GateData!NotifyAll)
        /\ todo' = [todo EXCEPT ![t] = "join"]
    <3>1. /\ todo[t] = "notify" /\ GateData!Notify(t, GateData!NotifyAll)
          /\ todo' = [todo EXCEPT ![t] = "join"]
      BY <1>8, GateUsesAtomicData, Zenon DEF Gate!LetAllPass, Gate!Then
    <3> QED  BY <3>1, <1>3 DEF GateInv
  <2>2. Passed' = Passed
    BY <2>1, <1>3 DEF GateInv, Passed
  <2>3. data' = data /\ pc' = pc /\ under' = under /\ seen' = seen
    BY <2>1 DEF GateData!Notify, GateData!callVars
  <2> QED  BY <1>1, <1>3, <2>1, <2>2, <2>3 DEF GateInv, CountIsPassed
<1>9. ASSUME Gate!Inside(t) PROVE GateInv'
  <2>1. /\ \/ GateData!Guard(t) \/ GateData!Func(t)
           \/ GateData!PredicateFalse(t) \/ GateData!WakeUp(t)
        /\ todo' = todo
    BY <1>9, GateUsesAtomicData, Zenon DEF Gate!Inside
  <2>2. Passed' = Passed
    BY <2>1 DEF Passed
  <2>3. CASE GateData!Func(t)
    <3>1. data # Torn
      BY <2>3, GateDataInv DEF GateData!Func, GateInv, GateData!Inv,
         GateData!MutexDiscipline, GateData!TornOnlyInFunc, GateData!TypeOK
    <3> QED  BY <1>1, <1>2, <1>3, <2>1, <2>2, <2>3, <3>1 DEF GateInv, GateData!Func,
                GateData!GoTo, CountIsPassed
  <2>4. CASE GateData!Guard(t) \/ GateData!PredicateFalse(t) \/ GateData!WakeUp(t)
    <3>1. /\ pc[t] # "idle" /\ data' = data /\ seen' = seen /\ under' = under
          /\ \A u \in GateThreads : pc'[u] = "func" => pc[u] = "func"
          /\ \A u \in GateThreads : pc'[u] # "idle" => pc[u] # "idle"
      BY <1>2, <2>4 DEF GateData!Guard, GateData!PredicateFalse, GateData!WakeUp,
         GateData!GoTo
    <3> QED  BY <1>1, <1>3, <2>1, <2>2, <3>1 DEF GateInv, CountIsPassed
  <2> QED  BY <2>1, <2>3, <2>4
<1>10. ASSUME NEW v, GateData!FuncEnds(t, v), NEW s, todo' = [todo EXCEPT ![t] = s],
              CountIsPassed(v)',
              (t \in Gate!Others /\ s = "stop") \/ (t = Main /\ s \in {"notify", "stop"})
       PROVE  GateInv'
  <2>1. \A u \in GateThreads : pc[u] = "func" => u = t
    BY <1>10 DEF GateData!FuncEnds, GateInv, GateData!Inv, GateData!MutexDiscipline
  <2>2. /\ data' = v
        /\ \A u \in GateThreads : pc'[u] # "idle" =>
             u # t /\ pc[u] # "idle" /\ under'[u] = under[u]
        /\ \A u \in GateThreads : pc'[u] # "func"
    BY <1>2, <1>10, <2>1 DEF GateData!FuncEnds, GateData!Return, GateData!GoTo
  <2> QED  BY <1>1, <1>3, <1>10, <2>2 DEF GateInv
<1>11. ASSUME Gate!CountItself(t) PROVE GateInv'
  <2> PICK v : v = [seen[t] EXCEPT !.num_threads = @ + 1]
    OBVIOUS
  <2>1. /\ todo[t] = "count" /\ GateData!FuncEnds(t, v) /\ pc[t] = "func"
        /\ todo' = [todo EXCEPT ![t] = "stop"]
    BY <1>11, GateUsesAtomicData, Zenon DEF Gate!CountItself, Gate!Then, GateData!FuncEnds
  <2>2. t \in Gate!Others /\ todo[t] # "stop"
    BY <2>1, <1>3 DEF GateInv
  <2>3. Passed' = Passed \cup {t}
    BY <2>1, <2>2, <1>3 DEF GateInv, Passed
  <2>4. seen[t] \in Shared /\ CountIsPassed(seen[t]) /\ seen[t].write_away
    BY <2>1, <2>2, <1>3, CountAtHand
  <2>5. v.num_threads = seen[t].num_threads + 1 /\ v.write_away = seen[t].write_away
    BY <2>4, ValuesLeft
  <2>6. CountIsPassed(v)'
    <3>1. v.num_threads = Cardinality(Passed')
      BY <2>2, <2>3, <2>4, <2>5, OneMorePasses DEF CountIsPassed
    <3> QED  BY <2>4, <2>5, <3>1 DEF CountIsPassed
  <2> QED  BY <1>10, <2>1, <2>2, <2>6
<1>12. ASSUME Gate!Opened(t) \/ Gate!Counted(t) PROVE GateInv'
  <2>1. PICK v, s :
          /\ GateData!FuncEnds(t, v) /\ todo' = [todo EXCEPT ![t] = s]
          /\ s \in {"notify", "stop"}
          /\ v = [seen[t] EXCEPT !.write_away = TRUE] \/ v = seen[t]
          /\ todo[t] \in {"opening", "read"}
    BY <1>12, GateUsesAtomicData, Zenon DEF Gate!Opened, Gate!Counted, Gate!Then
  <2>2. t = Main /\ pc[t] = "func"
    BY <2>1, <1>3 DEF GateInv, GateData!FuncEnds
  <2>3. seen[t] \in Shared /\ CountIsPassed(seen[t])
    BY <2>2, CountAtHand
  <2>4. CountIsPassed(v)
    BY <2>1, <2>3, ValuesLeft DEF CountIsPassed
  <2>5. Passed' = Passed
    BY <2>1, <2>2, <1>3 DEF GateInv, Passed
  <2>6. CountIsPassed(v)'
    BY <2>4, <2>5 DEF CountIsPassed
  <2> QED  BY <1>10, <2>1, <2>2, <2>6
<1> QED  BY <1>5, <1>6, <1>7, <1>8, <1>9, <1>11, <1>12, Zenon DEF Gate!GateStep

\* It holds at the beginning ...
LEMMA GateInitInv ==
  ASSUME Gate!GateInit
  PROVE  GateInv
<1>1. /\ Gate!Init /\ data = [write_away |-> FALSE, num_threads |-> 0]
      /\ todo = [t \in GateThreads |-> IF t = Main THEN "open" ELSE "wait"]
  BY DEF Gate!GateInit
<1>2. GateData!Init
  BY <1>1, Zenon DEF Gate!Init, GateData!Init, Gate!MonitorInit, GateData!MonitorInit,
     Gate!This, GateData!This
<1>3. GateData!Inv
  BY <1>2, GateDataInv
<1>4. pc = [t \in GateThreads |-> "idle"]
  BY <1>2 DEF GateData!Init
<1>5. Passed = {}
  BY <1>1 DEF Passed, Gate!Others
<1>6. data.num_threads = 0 /\ Cardinality(Passed) = 0
  BY <1>1, <1>5, FS_EmptySet
<1>7. CountIsPassed(data)
  BY <1>6 DEF CountIsPassed
<1> QED  BY <1>1, <1>3, <1>4, <1>7, GateSetting DEF GateInv, Gate!Others

\* ... and steps of nobody preserve it too.
LEMMA GateInvStays ==
  ASSUME GateInv, UNCHANGED <<GateData!vars, todo>>
  PROVE  GateInv'
<1>1. GateData!Inv'
  BY GateDataInv DEF GateInv
<1> QED  BY <1>1 DEF GateInv, GateData!vars, GateData!callVars, CountIsPassed, Passed

\* What has been counted is who has passed.
LEMMA GateInvCounts ==
  ASSUME GateInv
  PROVE  Gate!EachCountsOnce
<1>1. Gate!EachCountsOnce <=> (data # Torn => CountIsPassed(data))
  BY Zenon DEF Gate!EachCountsOnce, CountIsPassed, Passed, Cardinality, Gate!Cardinality
<1> QED  BY <1>1 DEF GateInv

-----------------------------------------------------------------------------
\* Nobody is left behind the gate: when all have been notified, the gate is open
\* for everybody who looks, and before that nobody has been woken up.
Notified == todo[Main] \in {"join", "read", "stop"}

GateAwake ==
  /\ "this" \in refs
  /\ \A t \in GateThreads : pc[t] # "idle" =>
       pc[t] \in {"lock", "check", "waiting", "func"} /\ op[t] \in {"wait", "use"}
  /\ \A t \in Gate!Others : todo[t] = "count" => pc[t] # "idle"
  /\ pc[Main] # "waiting"
  /\ pc[Main] = "idle" <=> todo[Main] \in {"open", "notify", "join", "stop"}
  /\ pc[Main] # "idle" => under[Main] = Shared
  /\ data # Torn => data.write_away = (Notified \/ todo[Main] = "notify")
  /\ \A t \in GateThreads : pc[t] = "func" =>
       seen[t].write_away = (Notified \/ todo[Main] = "notify")
  /\ IF Notified THEN sleeping = {} ELSE woken = {}
  /\ todo[Main] \in {"read", "stop"} => \A t \in Gate!Others : todo[t] = "stop"
  /\ todo[Main] = "stop" => out.old.num_threads = Cardinality(Gate!Others)

\* A thread can make a step of its own: it is neither at its end nor asleep, and
\* waits neither for other threads nor for a mutex that somebody has.
GateMoves(t) ==
  \/ /\ pc[t] = "idle" /\ todo[t] # "stop"
     /\ todo[t] = "join" => \A u \in Gate!Others : todo[u] = "stop"
  \/ pc[t] \in {"check", "func"}
  \/ (pc[t] = "lock" \/ t \in woken) /\ owner = Nobody

\* The steps each thread still has before it.  A thread that looks before all
\* are notified may fall asleep and have to look again.
MainRank ==
  IF todo[Main] = "open" THEN 9
  ELSE IF todo[Main] = "opening" THEN
    IF pc[Main] = "lock" THEN 8 ELSE IF pc[Main] = "check" THEN 7 ELSE 6
  ELSE IF todo[Main] = "notify" THEN 5
  ELSE IF todo[Main] = "join" THEN 4
  ELSE IF todo[Main] = "read" THEN
    IF pc[Main] = "lock" THEN 3 ELSE IF pc[Main] = "check" THEN 2 ELSE 1
  ELSE 0

WriterRank(t) ==
  IF todo[t] = "stop" THEN 0
  ELSE IF pc[t] = "idle" THEN 7
  ELSE IF pc[t] = "lock" THEN 6
  ELSE IF pc[t] = "check" THEN IF Notified THEN 2 ELSE 5
  ELSE IF t \in sleeping THEN 4
  ELSE IF t \in woken THEN 3
  ELSE 1

GateRank(t) == IF t = Main THEN MainRank ELSE WriterRank(t)

\* The steps that are left, at most: seven for each thread that waits, nine for
\* the one that opens.
GateLeft == {step \in GateThreads \X (1 .. 9) : step[2] <= GateRank(step[1])}

\* What the invariants say of the threads.
LEMMA GatePlaces ==
  ASSUME GateInv, GateAwake
  PROVE  /\ sleeping \subseteq GateThreads /\ woken \subseteq GateThreads
         /\ todo \in [GateThreads ->
              {"open", "opening", "notify", "join", "read", "wait", "count", "stop"}]
         /\ pc \in [GateThreads -> {"idle", "lock", "check", "waiting", "func"}]
         /\ \A t \in GateThreads :
              /\ owner = t <=> pc[t] \in {"check", "func"}
              /\ t \in sleeping \/ t \in woken <=> pc[t] = "waiting"
              /\ ~(t \in sleeping /\ t \in woken)
         /\ owner \in GateThreads \cup {Nobody}
         /\ \A t \in Gate!Others :
              /\ todo[t] \in {"wait", "count", "stop"} /\ (todo[t] = "count" <=> pc[t] # "idle")
              /\ t \in GateThreads /\ t # Main
         /\ Main \in GateThreads /\ Gate!Others = GateThreads \ {Main}
         /\ todo[Main] \in {"open", "opening", "notify", "join", "read", "stop"}
<1>1. /\ GateData!MonitorTypeOK /\ GateData!MutexDiscipline /\ pc \in [GateThreads -> GateData!PCs]
      /\ todo \in [GateThreads ->
           {"open", "opening", "notify", "join", "read", "wait", "count", "stop"}]
      /\ \A t \in Gate!Others :
           todo[t] \in {"wait", "count", "stop"} /\ (pc[t] # "idle" => todo[t] = "count")
      /\ todo[Main] \notin {"wait", "count"}
  BY DEF GateInv, GateData!Inv, GateData!TypeOK
<1>2. pc \in [GateThreads -> {"idle", "lock", "check", "waiting", "func"}]
  BY <1>1 DEF GateAwake
<1>3. Main \in GateThreads /\ Gate!Others = GateThreads \ {Main}
  BY GateSetting DEF Gate!Others
<1> QED  BY <1>1, <1>2, <1>3 DEF GateAwake, GateData!MonitorTypeOK, GateData!MutexDiscipline

\* While somebody has not ended, somebody can go on, and when all have, all have
\* been counted.
LEMMA GateDoesNotStick ==
  ASSUME GateInv, GateAwake
  PROVE  Gate!AllCounted \/ \E t \in GateThreads : GateMoves(t)
<1>1. CASE \A t \in GateThreads : todo[t] = "stop"
  <2>1. out.old.num_threads = Cardinality(Gate!Others)
    BY <1>1, GatePlaces DEF GateAwake
  <2> QED  BY <1>1, <2>1, Zenon DEF Gate!AllCounted, Gate!Ended, Cardinality, Gate!Cardinality
<1>2. CASE ~ \A t \in GateThreads : todo[t] = "stop"
  <2> SUFFICES ASSUME \A t \in GateThreads : ~GateMoves(t)
               PROVE  FALSE
    OBVIOUS
  <2>1. \A t \in GateThreads : pc[t] \notin {"check", "func"} /\ owner # t
    BY GatePlaces DEF GateMoves
  <2>2. owner = Nobody
    BY <2>1, GatePlaces
  <2>3. \A t \in GateThreads : pc[t] = "idle" \/ t \in sleeping
    BY <2>1, <2>2, GatePlaces DEF GateMoves
  <2>4. todo[Main] \in {"join", "stop"} /\ pc[Main] = "idle"
    BY <2>3, GatePlaces DEF GateMoves, GateAwake
  <2>5. \A t \in Gate!Others : todo[t] = "stop"
    <3>1. sleeping = {}
      BY <2>4 DEF GateAwake, Notified
    <3> QED  BY <2>3, <3>1, GatePlaces DEF GateMoves
  <2> QED  BY <1>2, <2>4, <2>5, GatePlaces DEF GateMoves
<1> QED  BY <1>1, <1>2

\* The steps of a thread are at most nine.
LEMMA GateRankIsSmall ==
  \A t \in GateThreads : GateRank(t) \in 0 .. 9 /\ GateRank(t)' \in 0 .. 9
BY DEF GateRank, MainRank, WriterRank

\* If one thread has fewer steps before it and the others have no more, some of
\* those that were left are gone.
LEMMA FewerAreLeft ==
  ASSUME NEW t \in GateThreads, GateRank(t)' < GateRank(t),
         \A u \in GateThreads \ {t} : GateRank(u)' <= GateRank(u)
  PROVE  GateLeft' \subseteq GateLeft /\ GateLeft' # GateLeft
<1>1. \A u \in GateThreads : GateRank(u)' <= GateRank(u)
  BY GateRankIsSmall
<1>2. GateLeft' = {step \in GateThreads \X (1 .. 9) : step[2] <= GateRank(step[1])'}
  BY DEF GateLeft
<1>3. GateLeft' \subseteq GateLeft
  <2> SUFFICES ASSUME NEW u \in GateThreads, NEW n \in 1 .. 9, n <= GateRank(u)'
               PROVE  n <= GateRank(u)
    BY <1>2 DEF GateLeft
  <2> QED  BY <1>1, GateRankIsSmall
<1>4. <<t, GateRank(t)>> \in GateLeft \ GateLeft'
  <2>1. GateRank(t) \in 1 .. 9 /\ ~(GateRank(t) <= GateRank(t)')
    BY GateRankIsSmall
  <2> QED  BY <1>2, <2>1 DEF GateLeft
<1> QED  BY <1>3, <1>4

\* Every step keeps that so, and is one of those that are left.
LEMMA GateStepLeavesFewer ==
  ASSUME GateInv, GateAwake, NEW t \in GateThreads, Gate!GateStep(t)
  PROVE  GateAwake' /\ GateLeft' \subseteq GateLeft /\ GateLeft' # GateLeft
<1>1. /\ sleeping \subseteq GateThreads /\ woken \subseteq GateThreads
      /\ todo \in [GateThreads ->
           {"open", "opening", "notify", "join", "read", "wait", "count", "stop"}]
      /\ pc \in [GateThreads -> {"idle", "lock", "check", "waiting", "func"}]
      /\ Main \in GateThreads /\ Gate!Others = GateThreads \ {Main}
      /\ \A u \in GateThreads : owner = u <=> pc[u] \in {"check", "func"}
      /\ \A u \in GateThreads : u \in sleeping \/ u \in woken <=> pc[u] = "waiting"
      /\ \A u \in GateThreads : ~(u \in sleeping /\ u \in woken)
      /\ \A u \in Gate!Others : todo[u] \in {"wait", "count", "stop"}
      /\ \A u \in Gate!Others : todo[u] = "count" <=> pc[u] # "idle"
  BY GatePlaces
<1>2. op \in [GateThreads -> GateData!Ops] /\ under \in [GateThreads -> GatePredicates]
      /\ seen \in [GateThreads -> Shared \cup {Torn}] /\ data \in Shared \cup {Torn}
  BY DEF GateInv, GateData!Inv, GateData!TypeOK
<1>3. ASSUME \A u \in GateThreads \ {t} :
               /\ todo'[u] = todo[u] /\ pc'[u] = pc[u]
               /\ (u \in sleeping' <=> u \in sleeping) /\ (u \in woken' <=> u \in woken),
             Notified' = Notified, GateRank(t)' < GateRank(t)
      PROVE  GateLeft' \subseteq GateLeft /\ GateLeft' # GateLeft
  <2>1. \A u \in GateThreads \ {t} : GateRank(u)' = GateRank(u)
    BY <1>3 DEF GateRank, MainRank, WriterRank
  <2> QED  BY <1>3, <2>1, GateRankIsSmall, FewerAreLeft
<1>4. CASE Gate!WaitForGate(t)
  <2>1. /\ t # Main /\ todo[t] = "wait" /\ GateData!Call(t, "wait", {v \in Shared : v.write_away})
        /\ todo' = [todo EXCEPT ![t] = "count"]
    BY <1>4, GateUsesAtomicData, Zenon DEF Gate!WaitForGate, Gate!Then, Gate!Others
  <2>2. /\ pc[t] = "idle" /\ pc' = [pc EXCEPT ![t] = "lock"] /\ op' = [op EXCEPT ![t] = "wait"]
        /\ under' = [under EXCEPT ![t] = {v \in Shared : v.write_away}]
        /\ UNCHANGED <<owner, sleeping, woken, data, seen, refs, out>>
    BY <2>1 DEF GateData!Call, GateData!GoTo, GateData!monitorVars
  <2>3. GateAwake'
    BY <1>1, <1>2, <2>1, <2>2 DEF GateAwake, Notified
  <2>4. GateRank(t) = 7 /\ GateRank(t)' = 6
    <3>1. todo'[t] = "count" /\ pc'[t] = "lock"
      BY <1>1, <2>1, <2>2
    <3> QED  BY <2>1, <2>2, <3>1 DEF GateRank, WriterRank
  <2> QED  BY <1>1, <1>3, <2>1, <2>2, <2>3, <2>4 DEF Notified
<1>5. CASE Gate!Open(t) \/ Gate!JoinAll(t)
  <2>1. /\ t = Main /\ GateData!Call(t, "use", Shared)
        /\ \/ todo[t] = "open" /\ todo' = [todo EXCEPT ![t] = "opening"]
           \/ /\ todo[t] = "join" /\ todo' = [todo EXCEPT ![t] = "read"]
              /\ \A u \in Gate!Others : todo[u] = "stop"
    <3>1. /\ GateData!Call(t, "use", Shared)
          /\ \/ todo[t] = "open" /\ todo' = [todo EXCEPT ![t] = "opening"]
             \/ /\ todo[t] = "join" /\ todo' = [todo EXCEPT ![t] = "read"]
                /\ \A u \in Gate!Others : todo[u] = "stop"
      BY <1>5, GateUsesAtomicData, Zenon DEF Gate!Open, Gate!JoinAll, Gate!Then
    <3> QED  BY <1>1, <3>1
  <2>2. /\ pc[t] = "idle" /\ pc' = [pc EXCEPT ![t] = "lock"] /\ op' = [op EXCEPT ![t] = "use"]
        /\ under' = [under EXCEPT ![t] = Shared]
        /\ UNCHANGED <<owner, sleeping, woken, data, seen, refs, out>>
    BY <2>1 DEF GateData!Call, GateData!GoTo, GateData!monitorVars
  <2>3. GateAwake'
    BY <1>1, <1>2, <2>1, <2>2 DEF GateAwake, Notified
  <2>4. GateRank(t)' < GateRank(t)
    <3>1. todo'[t] = (IF todo[t] = "open" THEN "opening" ELSE "read") /\ pc'[t] = "lock"
      BY <1>1, <2>1, <2>2
    <3> QED  BY <2>1, <3>1 DEF GateRank, MainRank
  <2> QED  BY <1>1, <1>3, <2>1, <2>2, <2>3, <2>4 DEF Notified
<1>6. CASE Gate!LetAllPass(t)
  <2>1. /\ t = Main /\ todo[t] = "notify" /\ GateData!Notify(t, GateData!NotifyAll)
        /\ todo' = [todo EXCEPT ![t] = "join"]
    <3>1. /\ todo[t] = "notify" /\ GateData!Notify(t, GateData!NotifyAll)
          /\ todo' = [todo EXCEPT ![t] = "join"]
      BY <1>6, GateUsesAtomicData, Zenon DEF Gate!LetAllPass, Gate!Then
    <3> QED  BY <1>1, <3>1
  <2>2. /\ sleeping' = {} /\ woken' = woken \cup sleeping
        /\ UNCHANGED <<data, pc, op, under, seen, refs, out>>
    BY <2>1 DEF GateData!Notify, GateData!NotifyAll, GateData!callVars
  <2>3. GateAwake'
    BY <1>1, <2>1, <2>2 DEF GateAwake, Notified
  <2>4. GateRank(t) = 5 /\ GateRank(t)' = 4
    BY <1>1, <2>1 DEF GateRank, MainRank
  <2>5. \A u \in GateThreads \ {t} : GateRank(u)' <= GateRank(u)
    <3> SUFFICES ASSUME NEW u \in GateThreads \ {t}
                 PROVE  WriterRank(u)' <= WriterRank(u)
      BY <2>1 DEF GateRank
    <3>1. /\ todo'[u] = todo[u] /\ pc'[u] = pc[u] /\ u \notin sleeping'
          /\ u \in woken' <=> u \in sleeping \/ u \in woken
      BY <1>1, <2>1, <2>2
    <3> QED  BY <3>1, <2>1 DEF WriterRank, Notified
  <2> QED  BY <2>3, <2>4, <2>5, FewerAreLeft
<1>7. CASE Gate!Inside(t)
  <2>1. /\ \/ GateData!Guard(t) \/ GateData!Func(t)
           \/ GateData!PredicateFalse(t) \/ GateData!WakeUp(t)
        /\ todo' = todo
    BY <1>7, GateUsesAtomicData, Zenon DEF Gate!Inside
  <2>2. /\ pc[t] # "idle" /\ pc[t] \notin {"expired", "timedout"}
        /\ t # Main => todo[t] = "count" /\ under[t] = {v \in Shared : v.write_away}
        /\ t = Main => todo[t] \in {"opening", "read"} /\ under[t] = Shared
    <3>1. pc[t] # "idle"
      BY <1>1, <2>1 DEF GateData!Guard, GateData!Func, GateData!PredicateFalse, GateData!WakeUp,
         GateData!Relock
    <3> QED  BY <1>1, <3>1 DEF GateAwake, GateInv
  <2>3. CASE GateData!Guard(t) \/ GateData!WakeUp(t)
    <3>1. /\ pc[t] = "lock" \/ (pc[t] = "waiting" /\ t \in woken)
          /\ pc' = [pc EXCEPT ![t] = "check"] /\ woken' = woken \ {t}
          /\ UNCHANGED <<sleeping, data, op, under, seen, refs, out>>
      BY <1>1, <2>2, <2>3 DEF GateAwake, GateData!Guard, GateData!WakeUp, GateData!Relock,
         GateData!Lock, GateData!GoTo
    <3>2. GateAwake'
      BY <1>1, <2>1, <2>2, <3>1 DEF GateAwake, Notified
    <3>3. GateRank(t)' < GateRank(t)
      <4>1. /\ todo'[t] = todo[t] /\ pc'[t] = "check" /\ todo' = todo
            /\ t \in woken => Notified /\ t \notin sleeping /\ t # Main
        BY <1>1, <2>1, <2>2, <3>1 DEF GateAwake
      <4> QED  BY <2>2, <3>1, <4>1 DEF GateRank, MainRank, WriterRank, Notified
    <3> QED  BY <1>1, <1>3, <2>1, <3>1, <3>2, <3>3 DEF Notified
  <2>4. CASE GateData!Func(t)
    <3>1. /\ pc[t] = "check" /\ pc' = [pc EXCEPT ![t] = "func"] /\ data' = Torn
          /\ seen' = [seen EXCEPT ![t] = data]
          /\ UNCHANGED <<sleeping, woken, op, under, refs, out>>
      BY <2>2, <2>4 DEF GateData!Func, GateData!GoTo, GateData!monitorVars
    <3>2. data # Torn
      BY <1>1, <3>1 DEF GateInv, GateData!Inv, GateData!TornOnlyInFunc
    <3>3. GateAwake'
      BY <1>1, <1>2, <2>1, <2>2, <3>1, <3>2 DEF GateAwake, Notified
    <3>4. GateRank(t)' < GateRank(t)
      <4>1. /\ todo'[t] = todo[t] /\ pc'[t] = "func" /\ todo' = todo
            /\ t \notin sleeping' /\ t \notin woken'
        BY <1>1, <2>1, <2>2, <3>1
      <4> QED  BY <2>2, <3>1, <4>1 DEF GateRank, MainRank, WriterRank
    <3> QED  BY <1>1, <1>3, <2>1, <3>1, <3>3, <3>4 DEF Notified
  <2>5. CASE GateData!PredicateFalse(t)
    <3>1. /\ pc[t] = "check" /\ pc' = [pc EXCEPT ![t] = "waiting"] /\ data \notin under[t]
          /\ sleeping' = sleeping \cup {t} /\ UNCHANGED <<data, woken, op, under, seen, refs, out>>
      BY <2>2, <2>5 DEF GateData!PredicateFalse, GateData!Wait, GateData!GoTo
    <3>2. data \in Shared
      BY <1>1, <1>2, <3>1 DEF GateInv, GateData!Inv, GateData!TornOnlyInFunc
    <3>3. t # Main /\ ~Notified
      BY <2>2, <3>1, <3>2, GateDataInv DEF GateAwake
    <3>4. GateAwake'
      BY <1>1, <2>1, <2>2, <3>1, <3>3 DEF GateAwake, Notified
    <3>5. GateRank(t) = 5 /\ GateRank(t)' = 4
      <4>1. /\ todo'[t] = todo[t] /\ pc'[t] = "waiting" /\ t \in sleeping'
        BY <1>1, <2>1, <3>1
      <4> QED  BY <2>2, <3>1, <3>3, <4>1 DEF GateRank, WriterRank
    <3> QED  BY <1>1, <1>3, <2>1, <3>1, <3>4, <3>5 DEF Notified
  <2> QED  BY <2>1, <2>3, <2>4, <2>5
<1>8. CASE Gate!CountItself(t) \/ Gate!Opened(t) \/ Gate!Counted(t)
  <2>1. PICK v, s :
          /\ GateData!FuncEnds(t, v) /\ todo' = [todo EXCEPT ![t] = s]
          /\ \/ todo[t] = "count" /\ s = "stop" /\ v = [seen[t] EXCEPT !.num_threads = @ + 1]
             \/ todo[t] = "opening" /\ s = "notify" /\ v = [seen[t] EXCEPT !.write_away = TRUE]
             \/ todo[t] = "read" /\ s = "stop" /\ v = seen[t]
    BY <1>8, GateUsesAtomicData, Zenon DEF Gate!CountItself, Gate!Opened, Gate!Counted, Gate!Then
  <2>2. /\ pc[t] = "func" /\ data' = v
        /\ pc' = [pc EXCEPT ![t] = "idle"] /\ op' = [op EXCEPT ![t] = "none"]
        /\ under' = [under EXCEPT ![t] = Shared] /\ seen' = [seen EXCEPT ![t] = Torn]
        /\ out'.old = seen[t]
        /\ UNCHANGED <<sleeping, woken, refs>>
    BY <2>1 DEF GateData!FuncEnds, GateData!Return, GateData!GoTo, GateData!Unlock,
       GateData!Report
  <2>3. /\ seen[t] \in Shared /\ CountIsPassed(seen[t])
        /\ t # Main => todo[t] = "count" /\ seen[t].write_away
        /\ t = Main => todo[t] \in {"opening", "read"}
    BY <2>2, CountAtHand
  <2>4. v.write_away = (Notified \/ todo[Main] = "notify" \/ todo[t] = "opening")
    <3>1. v.write_away = IF todo[t] = "opening" THEN TRUE ELSE seen[t].write_away
      BY <2>1, <2>3, ValuesLeft
    <3>2. seen[t].write_away = (Notified \/ todo[Main] = "notify")
      BY <2>2 DEF GateAwake
    <3> QED  BY <3>1, <3>2
  <2>5. todo[t] = "read" => seen[t].num_threads = Cardinality(Gate!Others)
    <3> SUFFICES ASSUME todo[t] = "read" PROVE Passed = Gate!Others
      BY <2>3 DEF CountIsPassed
    <3>1. t = Main
      BY <2>3
    <3> QED  BY <3>1 DEF GateAwake, Passed
  <2>6. /\ \A u \in GateThreads \ {t} : pc[u] # "func" /\ todo'[u] = todo[u] /\ pc'[u] = pc[u]
        /\ todo'[t] = s /\ pc'[t] = "idle"
    BY <1>1, <2>1, <2>2
  <2>7. Notified' = (Notified \/ todo[t] = "read") /\ Notified' = Notified
    BY <1>1, <2>1, <2>3, <2>6 DEF Notified
  <2>8. todo'[Main] = "notify" <=> todo[Main] = "notify" \/ todo[t] = "opening"
    BY <1>1, <2>1, <2>3, <2>6
  <2>9. GateAwake'
    <3>1. "this" \in refs'
      BY <2>2 DEF GateAwake
    <3>2. \A u \in GateThreads : pc'[u] # "idle" =>
            pc'[u] \in {"lock", "check", "waiting", "func"} /\ op'[u] \in {"wait", "use"}
      BY <1>2, <2>2, <2>6 DEF GateAwake
    <3>3. \A u \in Gate!Others : todo'[u] = "count" => pc'[u] # "idle"
      BY <1>1, <2>1, <2>6 DEF GateAwake
    <3>4. /\ pc'[Main] # "waiting"
          /\ pc'[Main] = "idle" <=> todo'[Main] \in {"open", "notify", "join", "stop"}
          /\ pc'[Main] # "idle" => under'[Main] = Shared
      BY <1>1, <1>2, <2>1, <2>2, <2>3, <2>6 DEF GateAwake
    <3>5. data' # Torn => data'.write_away = (Notified' \/ todo'[Main] = "notify")
      BY <2>2, <2>4, <2>7, <2>8
    <3>6. \A u \in GateThreads : pc'[u] # "func"
      BY <2>6
    <3>7. IF Notified' THEN sleeping' = {} ELSE woken' = {}
      BY <2>2, <2>7 DEF GateAwake
    <3>8. todo'[Main] \in {"read", "stop"} => \A u \in Gate!Others : todo'[u] = "stop"
      BY <1>1, <2>1, <2>3, <2>6 DEF GateAwake
    <3>9. todo'[Main] = "stop" => out'.old.num_threads = Cardinality(Gate!Others)
      BY <1>1, <2>1, <2>2, <2>3, <2>5, <2>6 DEF GateAwake
    <3> QED  BY <3>1, <3>2, <3>3, <3>4, <3>5, <3>6, <3>7, <3>8, <3>9 DEF GateAwake
  <2>10. GateRank(t)' < GateRank(t)
    <3>1. t \notin sleeping /\ t \notin woken
      BY <1>1, <2>2
    <3>2. t # Main => GateRank(t) = 1
      BY <2>2, <2>3, <3>1 DEF GateRank, WriterRank
    <3>3. t = Main => GateRank(t) = IF todo[t] = "opening" THEN 6 ELSE 1
      BY <2>2, <2>3 DEF GateRank, MainRank
    <3>4. GateRank(t)' = IF todo[t] = "opening" THEN 5 ELSE 0
      BY <2>1, <2>3, <2>6 DEF GateRank, MainRank, WriterRank
    <3> QED  BY <2>3, <3>2, <3>3, <3>4
  <2> QED  BY <1>3, <2>2, <2>6, <2>7, <2>9, <2>10
<1> QED  BY <1>4, <1>5, <1>6, <1>7, <1>8 DEF Gate!GateStep

\* The steps that are left are finitely many.
LEMMA GateLeftIsFinite == IsFiniteSet(GateLeft)
<1>1. IsFiniteSet(GateThreads \X (1 .. 9))
  <2>1. IsFiniteSet(1 .. 9)
    <3>1. 1 \in Int /\ 9 \in Int
      OBVIOUS
    <3> QED  BY <3>1, FS_Interval, Zenon
  <2>2. IsFiniteSet(GateThreads)
    BY GateSetting
  <2> QED  BY <2>1, <2>2, FS_Product, Zenon
<1> QED  BY <1>1, FS_Subset DEF GateLeft

\* It is so at the beginning, and stays so while nothing happens.
LEMMA GateInitAwake ==
  ASSUME Gate!GateInit
  PROVE  GateAwake
<1>1. /\ Gate!Init /\ data = [write_away |-> FALSE, num_threads |-> 0]
      /\ todo = [t \in GateThreads |-> IF t = Main THEN "open" ELSE "wait"]
  BY DEF Gate!GateInit
<1>2. pc = [t \in GateThreads |-> "idle"] /\ sleeping = {} /\ woken = {} /\ "this" \in refs
  BY <1>1 DEF Gate!Init, Gate!MonitorInit, Gate!This
<1>3. todo[Main] = "open" /\ \A t \in Gate!Others : todo[t] = "wait"
  BY <1>1, GateSetting DEF Gate!Others
<1>4. data.write_away = FALSE
  BY <1>1
<1> QED  BY <1>2, <1>3, <1>4, GateSetting DEF GateAwake, Notified

LEMMA GateAwakeStays ==
  ASSUME GateAwake, UNCHANGED <<GateData!vars, todo>>
  PROVE  GateAwake'
BY DEF GateAwake, Notified, GateData!vars, GateData!callVars, GateData!monitorVars

-----------------------------------------------------------------------------
\* interleaved_data: the two threads.
LEMMA PingPongSetting == QueueThreads = {Main, Second} /\ Main # Second
BY TestThreadsAssumption DEF QueueThreads

\* What a push in a call of its own does to its thread and to the queue ...
PushMoves(p, p1, q, q1, x) ==
  \/ p = "lock" /\ p1 = "critical" /\ q1 = q
  \/ p = "critical" /\ p1 = "notify" /\ q1 = Append(q, x)
  \/ /\ p \in {"notify", "callback", "returning"} /\ q1 = q
     /\ p1 \in {"callback", "returning", "idle"}

\* ... and what a pop without timeout does.
PopMoves(p, p1, q, q1, v1) ==
  \/ p \in {"lock", "waiting"} /\ p1 = "critical" /\ q1 = q
  \/ p = "critical" /\ p1 = "waiting" /\ q1 = q
  \/ p = "critical" /\ p1 = "idle" /\ q # <<>> /\ q1 = Tail(q) /\ v1 = Head(q)

Pushing == {"lock", "critical", "notify", "callback", "returning"}
Popping == {"lock", "critical", "waiting"}

\* A step of a thread that is in a push into even_bq.
LEMMA EvenPushMoves ==
  ASSUME NEW t \in QueueThreads, PingPong!Step(t), pc[t] \in Pushing, op[t] = "push",
         pc \in [QueueThreads -> PingPong!PCs], trash[t] = <<>>
  PROVE  /\ pc' = [pc EXCEPT ![t] = pc'[t]]
         /\ PushMoves(pc[t], pc'[t], queue, queue', item[t])
         /\ pc'[t] # "idle" => op' = op /\ item' = item
         /\ op' = op \/ op' = [op EXCEPT ![t] = "none"]
         /\ item' = item \/ item' = [item EXCEPT ![t] = NoItem]
         /\ trash' = trash /\ out' = out
<1> USE DEF PushMoves, Pushing, PingPong!At, PingPong!GoTo, PingPong!Pops
<1>1. CASE PingPong!Guard(t)
  BY <1>1 DEF PingPong!Guard
<1>2. CASE PingPong!Push(t)
  BY <1>2 DEF PingPong!Push
<1>3. CASE PingPong!Notify(t) \/ PingPong!Callback(t) \/ PingPong!EndPush(t)
  BY <1>3 DEF PingPong!Notify, PingPong!Callback, PingPong!EndPush, PingPong!Leave
<1>4. ~(\/ PingPong!PopTake(t) \/ PingPong!PopWait(t)
       \/ PingPong!PopGiveUp(t) \/ PingPong!Timeout(t))
  BY DEF PingPong!PopTake, PingPong!PopWait, PingPong!PopGiveUp, PingPong!Timeout
<1>5. ~(\/ PingPong!WakeUp(t) \/ PingPong!Swap(t) \/ PingPong!Delete(t)
       \/ PingPong!Cleared(t) \/ PingPong!Size(t))
  BY DEF PingPong!WakeUp, PingPong!Swap, PingPong!Delete, PingPong!Cleared, PingPong!Size
<1> QED  BY <1>1, <1>2, <1>3, <1>4, <1>5 DEF PingPong!Step

\* A step of a thread that is in a pop from even_bq.
LEMMA EvenPopMoves ==
  ASSUME NEW t \in QueueThreads, PingPong!Step(t), pc[t] \in Popping, op[t] = "pop",
         pc \in [QueueThreads -> PingPong!PCs], trash[t] = <<>>
  PROVE  /\ pc' = [pc EXCEPT ![t] = pc'[t]]
         /\ PopMoves(pc[t], pc'[t], queue, queue', out'.value)
         /\ pc'[t] # "idle" => op' = op /\ item' = item /\ out' = out
         /\ op' = op \/ op' = [op EXCEPT ![t] = "none"]
         /\ item' = item \/ item' = [item EXCEPT ![t] = NoItem]
         /\ trash' = trash
<1> USE DEF PopMoves, Popping, PingPong!At, PingPong!GoTo, PingPong!Pops
<1>1. CASE PingPong!Guard(t)
  BY <1>1 DEF PingPong!Guard
<1>2. CASE PingPong!PopTake(t)
  BY <1>2 DEF PingPong!PopTake, PingPong!Leave, PingPong!Return
<1>3. CASE PingPong!PopWait(t)
  BY <1>3 DEF PingPong!PopWait
<1>4. CASE PingPong!WakeUp(t)
  BY <1>4 DEF PingPong!WakeUp
<1>5. ~(\/ PingPong!Push(t) \/ PingPong!Notify(t) \/ PingPong!Callback(t)
       \/ PingPong!EndPush(t) \/ PingPong!PopGiveUp(t) \/ PingPong!Timeout(t))
  BY DEF PingPong!Push, PingPong!Notify, PingPong!Callback, PingPong!EndPush,
     PingPong!PopGiveUp, PingPong!Timeout
<1>6. ~(\/ PingPong!Swap(t) \/ PingPong!Delete(t)
       \/ PingPong!Cleared(t) \/ PingPong!Size(t))
  BY DEF PingPong!Swap, PingPong!Delete, PingPong!Cleared, PingPong!Size
<1> QED  BY <1>1, <1>2, <1>3, <1>4, <1>5, <1>6 DEF PingPong!Step

\* A step of a thread that is in a push into odds_bq.
LEMMA OddPushMoves ==
  ASSUME NEW t \in QueueThreads, PingPong!Odds!Step(t), oddPc[t] \in Pushing,
         oddOp[t] = "push",
         oddPc \in [QueueThreads -> PingPong!Odds!PCs], oddTrash[t] = <<>>
  PROVE  /\ oddPc' = [oddPc EXCEPT ![t] = oddPc'[t]]
         /\ PushMoves(oddPc[t], oddPc'[t], oddQueue, oddQueue', oddItem[t])
         /\ oddPc'[t] # "idle" => oddOp' = oddOp /\ oddItem' = oddItem
         /\ oddOp' = oddOp \/ oddOp' = [oddOp EXCEPT ![t] = "none"]
         /\ oddItem' = oddItem \/ oddItem' = [oddItem EXCEPT ![t] = NoItem]
         /\ oddTrash' = oddTrash /\ oddOut' = oddOut
<1> USE DEF PushMoves, Pushing, PingPong!Odds!At, PingPong!Odds!GoTo, PingPong!Odds!Pops
<1>1. CASE PingPong!Odds!Guard(t)
  BY <1>1 DEF PingPong!Odds!Guard
<1>2. CASE PingPong!Odds!Push(t)
  BY <1>2 DEF PingPong!Odds!Push
<1>3. CASE PingPong!Odds!Notify(t) \/ PingPong!Odds!Callback(t) \/ PingPong!Odds!EndPush(t)
  BY <1>3 DEF PingPong!Odds!Notify, PingPong!Odds!Callback, PingPong!Odds!EndPush, PingPong!Odds!Leave
<1>4. ~(\/ PingPong!Odds!PopTake(t) \/ PingPong!Odds!PopWait(t)
       \/ PingPong!Odds!PopGiveUp(t) \/ PingPong!Odds!Timeout(t))
  BY DEF PingPong!Odds!PopTake, PingPong!Odds!PopWait, PingPong!Odds!PopGiveUp,
     PingPong!Odds!Timeout
<1>5. ~(\/ PingPong!Odds!WakeUp(t) \/ PingPong!Odds!Swap(t) \/ PingPong!Odds!Delete(t)
       \/ PingPong!Odds!Cleared(t) \/ PingPong!Odds!Size(t))
  BY DEF PingPong!Odds!WakeUp, PingPong!Odds!Swap, PingPong!Odds!Delete,
     PingPong!Odds!Cleared, PingPong!Odds!Size
<1> QED  BY <1>1, <1>2, <1>3, <1>4, <1>5 DEF PingPong!Odds!Step

\* A step of a thread that is in a pop from odds_bq.
LEMMA OddPopMoves ==
  ASSUME NEW t \in QueueThreads, PingPong!Odds!Step(t), oddPc[t] \in Popping,
         oddOp[t] = "pop",
         oddPc \in [QueueThreads -> PingPong!Odds!PCs], oddTrash[t] = <<>>
  PROVE  /\ oddPc' = [oddPc EXCEPT ![t] = oddPc'[t]]
         /\ PopMoves(oddPc[t], oddPc'[t], oddQueue, oddQueue', oddOut'.value)
         /\ oddPc'[t] # "idle" => oddOp' = oddOp /\ oddItem' = oddItem /\ oddOut' = oddOut
         /\ oddOp' = oddOp \/ oddOp' = [oddOp EXCEPT ![t] = "none"]
         /\ oddItem' = oddItem \/ oddItem' = [oddItem EXCEPT ![t] = NoItem]
         /\ oddTrash' = oddTrash
<1> USE DEF PopMoves, Popping, PingPong!Odds!At, PingPong!Odds!GoTo, PingPong!Odds!Pops
<1>1. CASE PingPong!Odds!Guard(t)
  BY <1>1 DEF PingPong!Odds!Guard
<1>2. CASE PingPong!Odds!PopTake(t)
  BY <1>2 DEF PingPong!Odds!PopTake, PingPong!Odds!Leave, PingPong!Odds!Return
<1>3. CASE PingPong!Odds!PopWait(t)
  BY <1>3 DEF PingPong!Odds!PopWait
<1>4. CASE PingPong!Odds!WakeUp(t)
  BY <1>4 DEF PingPong!Odds!WakeUp
<1>5. ~(\/ PingPong!Odds!Push(t) \/ PingPong!Odds!Notify(t) \/ PingPong!Odds!Callback(t)
       \/ PingPong!Odds!EndPush(t) \/ PingPong!Odds!PopGiveUp(t) \/ PingPong!Odds!Timeout(t))
  BY DEF PingPong!Odds!Push, PingPong!Odds!Notify, PingPong!Odds!Callback,
     PingPong!Odds!EndPush, PingPong!Odds!PopGiveUp, PingPong!Odds!Timeout
<1>6. ~(\/ PingPong!Odds!Swap(t) \/ PingPong!Odds!Delete(t)
       \/ PingPong!Odds!Cleared(t) \/ PingPong!Odds!Size(t))
  BY DEF PingPong!Odds!Swap, PingPong!Odds!Delete, PingPong!Odds!Cleared, PingPong!Odds!Size
<1> QED  BY <1>1, <1>2, <1>3, <1>4, <1>5, <1>6 DEF PingPong!Odds!Step

\* A thread inside no call of a queue makes no step in it.
LEMMA StepsAreInCalls ==
  ASSUME NEW t \in QueueThreads
  PROVE  /\ PingPong!Step(t) => pc[t] # "idle"
         /\ PingPong!Odds!Step(t) => oddPc[t] # "idle"
<1>1. PingPong!Step(t) => pc[t] # "idle"
  BY DEF PingPong!Step, PingPong!At, PingPong!Guard, PingPong!Push, PingPong!Notify,
     PingPong!Callback, PingPong!EndPush, PingPong!PopTake, PingPong!PopWait, PingPong!PopGiveUp,
     PingPong!Timeout, PingPong!WakeUp, PingPong!Swap, PingPong!Delete, PingPong!Cleared,
     PingPong!Size
<1>2. PingPong!Odds!Step(t) => oddPc[t] # "idle"
  BY DEF PingPong!Odds!Step, PingPong!Odds!At, PingPong!Odds!Guard, PingPong!Odds!Push,
     PingPong!Odds!Notify, PingPong!Odds!Callback, PingPong!Odds!EndPush, PingPong!Odds!PopTake,
     PingPong!Odds!PopWait, PingPong!Odds!PopGiveUp, PingPong!Odds!Timeout,
     PingPong!Odds!WakeUp, PingPong!Odds!Swap, PingPong!Odds!Delete,
     PingPong!Odds!Cleared, PingPong!Odds!Size
<1> QED  BY <1>1, <1>2

\* A queue of one item.
LEMMA OneItem ==
  ASSUME NEW x
  PROVE  /\ Append(<<>>, x) = <<x>> /\ <<x>> # <<>>
         /\ Head(<<x>>) = x /\ Tail(<<x>>) = <<>>
OBVIOUS

-----------------------------------------------------------------------------
PingPongTypes ==
  /\ pc \in [QueueThreads -> PingPong!PCs] /\ oddPc \in [QueueThreads -> PingPong!Odds!PCs]
  /\ op \in [QueueThreads -> PingPong!Ops] /\ oddOp \in [QueueThreads -> PingPong!Odds!Ops]
  /\ item \in [QueueThreads -> QueueItems \cup {NoItem}]
  /\ oddItem \in [QueueThreads -> QueueItems \cup {NoItem}]
  /\ trash = [t \in QueueThreads |-> <<>>] /\ oddTrash = [t \in QueueThreads |-> <<>>]
  /\ todo \in [QueueThreads -> {"push", "pop", "append", "appending", "stop"}]
  /\ i \in [QueueThreads -> Nat]
  /\ sharedData \in Seq(Nat)

\* The calls of each thread are those its loop makes.
CallsOfLoops ==
  /\ pc[Main] # "idle" => op[Main] = "push" /\ pc[Main] \in Pushing /\ todo[Main] = "pop"
  /\ pc[Second] # "idle" =>
       op[Second] = "pop" /\ pc[Second] \in Popping /\ todo[Second] = "append"
  /\ oddPc[Main] # "idle" =>
       oddOp[Main] = "pop" /\ oddPc[Main] \in Popping /\ todo[Main] = "append"
  /\ oddPc[Second] # "idle" =>
       oddOp[Second] = "push" /\ oddPc[Second] \in Pushing /\ todo[Second] \in {"pop", "stop"}

\* The next number is in one place: with Main that sends it, in even_bq, with
\* Second that has got it, with Second that sends the next, in odds_bq, with
\* Main that has got it, and then with Main that sends the next, unless it stops.
NumberIsAt(place) ==
  /\ place = 0 <=> todo[Main] = "push" \/ pc[Main] \in {"lock", "critical"}
  /\ place = 1 <=> queue # <<>>
  /\ place = 2 <=> todo[Second] \in {"append", "appending"} /\ pc[Second] = "idle"
  /\ place = 3 <=> todo[Second] = "push" \/ oddPc[Second] \in {"lock", "critical"}
  /\ place = 4 <=> oddQueue # <<>>
  /\ place = 5 <=> todo[Main] \in {"append", "appending"} /\ oddPc[Main] = "idle"
  /\ place = 6 <=> todo[Main] = "stop"

\* It is the length of sharedData, wherever it is.
NumberIsLength(place) ==
  LET n == Len(sharedData)
  IN  /\ place \in {0, 1, 2} => i[Main] = n /\ i[Second] = n + 1
      /\ place = 3 => i[Main] + 1 = n /\ i[Second] = IF todo[Second] = "push" THEN n ELSE n + 2
      /\ place \in {4, 5} => i[Main] + 1 = n /\ i[Second] = n + 2
      /\ pc[Main] \in {"lock", "critical"} => item[Main] = n
      /\ queue # <<>> => queue = <<n>>
      /\ place = 2 => out.value = n
      /\ oddPc[Second] \in {"lock", "critical"} => oddItem[Second] = n
      /\ oddQueue # <<>> => oddQueue = <<n>>
      /\ place = 5 => oddOut.value = n

WrittenInOrder == \A n \in DOMAIN sharedData : sharedData[n] = n - 1

PingPongInv ==
  /\ PingPongTypes
  /\ CallsOfLoops
  /\ \E place \in 0 .. 6 : NumberIsAt(place) /\ NumberIsLength(place)
  /\ WrittenInOrder

\* A push or a pop of either thread leaves the number where it was or passes it
\* on to the next place.
LEMMA InsidePreservesInv ==
  ASSUME PingPongInv, NEW t \in QueueThreads, PingPong!Inside(t)
  PROVE  PingPongInv'
<1>1. PICK place \in 0 .. 6 : NumberIsAt(place) /\ NumberIsLength(place)
  BY DEF PingPongInv
<1>2. UNCHANGED <<todo, i, sharedData>>
  BY DEF PingPong!Inside, PingPong!testVars
<1>3. WrittenInOrder'
  BY <1>2 DEF PingPongInv, WrittenInOrder
<1>4. CASE PingPong!Step(t) /\ UNCHANGED PingPong!oddVars
  <2>1. UNCHANGED <<oddPc, oddOp, oddItem, oddTrash, oddOut, oddQueue>>
    BY <1>4 DEF PingPong!oddVars
  <2>2. pc[t] # "idle" /\ trash[t] = <<>>
    BY <1>4, StepsAreInCalls DEF PingPongInv, PingPongTypes
  <2>3. CASE t = Main
    <3>1. /\ pc' = [pc EXCEPT ![t] = pc'[t]]
          /\ PushMoves(pc[t], pc'[t], queue, queue', item[t])
          /\ pc'[t] # "idle" => op' = op /\ item' = item
          /\ op' = op \/ op' = [op EXCEPT ![t] = "none"]
          /\ item' = item \/ item' = [item EXCEPT ![t] = NoItem]
          /\ trash' = trash /\ out' = out
      BY <1>4, <2>2, <2>3, EvenPushMoves DEF PingPongInv, CallsOfLoops, PingPongTypes
    <3>2. PingPongTypes' /\ CallsOfLoops'
      BY <1>2, <2>1, <2>3, <3>1, PingPongSetting DEF PingPongInv, PingPongTypes,
         CallsOfLoops, PushMoves, Pushing, PingPong!PCs, PingPong!Ops
    <3>3. CASE pc[t] = "critical"
      <4>1. place = 0 /\ queue = <<>> /\ item[t] = Len(sharedData)
        BY <1>1, <2>3, <3>3 DEF NumberIsAt, NumberIsLength
      <4>2. queue' = <<item[t]>> /\ pc'[t] = "notify"
        BY <3>1, <3>3, <4>1, OneItem DEF PushMoves
      <4>3. queue' # <<>> /\ queue' = <<Len(sharedData)>> /\ todo[t] = "pop" /\ t # Second
        BY <2>2, <2>3, <4>1, <4>2, OneItem, PingPongSetting DEF PingPongInv, CallsOfLoops
      <4>4. pc'[Main] = "notify" /\ pc'[Second] = pc[Second]
        BY <2>3, <3>1, <4>2, <4>3, PingPongSetting DEF PingPongInv, PingPongTypes
      <4>5. NumberIsAt(1)'
        BY <1>1, <1>2, <2>1, <2>3, <4>1, <4>3, <4>4 DEF NumberIsAt
      <4>6. NumberIsLength(1)'
        BY <1>1, <1>2, <2>1, <2>3, <4>1, <4>3, <4>4 DEF NumberIsAt, NumberIsLength
      <4> QED  BY <1>3, <3>2, <4>5, <4>6 DEF PingPongInv
    <3>4. CASE pc[t] # "critical"
      <4>1. queue' = queue /\ (pc'[t] \in {"lock", "critical"} <=> pc[t] \in {"lock", "critical"})
        BY <3>1, <3>4 DEF PushMoves
      <4>2. NumberIsAt(place)' /\ NumberIsLength(place)'
        BY <1>1, <1>2, <2>1, <2>3, <3>1, <4>1, PingPongSetting DEF PingPongInv,
           PingPongTypes, CallsOfLoops, NumberIsAt, NumberIsLength
      <4> QED  BY <1>1, <1>3, <3>2, <4>2 DEF PingPongInv
    <3> QED  BY <3>3, <3>4
  <2>4. CASE t = Second
    <3>1. /\ pc' = [pc EXCEPT ![t] = pc'[t]]
          /\ PopMoves(pc[t], pc'[t], queue, queue', out'.value)
          /\ pc'[t] # "idle" => op' = op /\ item' = item /\ out' = out
          /\ op' = op \/ op' = [op EXCEPT ![t] = "none"]
          /\ item' = item \/ item' = [item EXCEPT ![t] = NoItem]
          /\ trash' = trash
      BY <1>4, <2>2, <2>4, EvenPopMoves DEF PingPongInv, CallsOfLoops, PingPongTypes
    <3>2. PingPongTypes' /\ CallsOfLoops'
      BY <1>2, <2>1, <2>4, <3>1, PingPongSetting DEF PingPongInv, PingPongTypes,
         CallsOfLoops, PopMoves, Popping, PingPong!PCs, PingPong!Ops
    <3>3. CASE pc'[t] = "idle"
      <4>1. queue # <<>> /\ queue' = Tail(queue) /\ out'.value = Head(queue)
        BY <3>1, <3>3 DEF PopMoves
      <4>2. place = 1 /\ queue = <<Len(sharedData)>>
        BY <1>1, <4>1 DEF NumberIsAt, NumberIsLength
      <4>3. queue' = <<>> /\ out'.value = Len(sharedData)
        BY <4>1, <4>2, OneItem
      <4>4. NumberIsAt(2)' /\ NumberIsLength(2)'
        BY <1>1, <1>2, <2>1, <2>2, <2>4, <3>1, <3>3, <4>2, <4>3, PingPongSetting DEF
           PingPongInv, PingPongTypes, CallsOfLoops, NumberIsAt, NumberIsLength
      <4> QED  BY <1>3, <3>2, <4>4 DEF PingPongInv
    <3>4. CASE pc'[t] # "idle"
      <4>1. queue' = queue /\ item' = item /\ out' = out
        BY <3>1, <3>4 DEF PopMoves
      <4>2. NumberIsAt(place)' /\ NumberIsLength(place)'
        BY <1>1, <1>2, <2>1, <2>2, <2>4, <3>1, <3>4, <4>1, PingPongSetting DEF
           PingPongInv, PingPongTypes, CallsOfLoops, NumberIsAt, NumberIsLength
      <4> QED  BY <1>1, <1>3, <3>2, <4>2 DEF PingPongInv
    <3> QED  BY <3>3, <3>4
  <2> QED  BY <2>3, <2>4, PingPongSetting
<1>5. CASE PingPong!Odds!Step(t) /\ UNCHANGED PingPong!vars
  <2>1. UNCHANGED <<pc, op, item, trash, out, queue>>
    BY <1>5 DEF PingPong!vars, PingPong!callVars
  <2>2. oddPc[t] # "idle" /\ oddTrash[t] = <<>>
    BY <1>5, StepsAreInCalls DEF PingPongInv, PingPongTypes
  <2>3. CASE t = Second
    <3>1. /\ oddPc' = [oddPc EXCEPT ![t] = oddPc'[t]]
          /\ PushMoves(oddPc[t], oddPc'[t], oddQueue, oddQueue', oddItem[t])
          /\ oddPc'[t] # "idle" => oddOp' = oddOp /\ oddItem' = oddItem
          /\ oddOp' = oddOp \/ oddOp' = [oddOp EXCEPT ![t] = "none"]
          /\ oddItem' = oddItem \/ oddItem' = [oddItem EXCEPT ![t] = NoItem]
          /\ oddTrash' = oddTrash /\ oddOut' = oddOut
      BY <1>5, <2>2, <2>3, OddPushMoves DEF PingPongInv, CallsOfLoops, PingPongTypes
    <3>2. PingPongTypes' /\ CallsOfLoops'
      BY <1>2, <2>1, <2>3, <3>1, PingPongSetting DEF PingPongInv, PingPongTypes,
         CallsOfLoops, PushMoves, Pushing, PingPong!Odds!PCs, PingPong!Odds!Ops
    <3>3. CASE oddPc[t] = "critical"
      <4>1. place = 3 /\ oddQueue = <<>> /\ oddItem[t] = Len(sharedData) /\ todo[t] # "push"
        BY <1>1, <2>2, <2>3, <3>3 DEF NumberIsAt, NumberIsLength, PingPongInv, CallsOfLoops
      <4>2. oddQueue' = <<oddItem[t]>> /\ oddPc'[t] = "notify"
        BY <3>1, <3>3, <4>1, OneItem DEF PushMoves
      <4>3. NumberIsAt(4)' /\ NumberIsLength(4)'
        BY <1>1, <1>2, <2>1, <2>3, <3>1, <4>1, <4>2, OneItem, PingPongSetting DEF
           PingPongInv, PingPongTypes, CallsOfLoops, NumberIsAt, NumberIsLength
      <4> QED  BY <1>3, <3>2, <4>3 DEF PingPongInv
    <3>4. CASE oddPc[t] # "critical"
      <4>1. /\ oddQueue' = oddQueue
            /\ oddPc'[t] \in {"lock", "critical"} <=> oddPc[t] \in {"lock", "critical"}
        BY <3>1, <3>4 DEF PushMoves
      <4>2. NumberIsAt(place)' /\ NumberIsLength(place)'
        BY <1>1, <1>2, <2>1, <2>3, <3>1, <4>1, PingPongSetting DEF PingPongInv,
           PingPongTypes, CallsOfLoops, NumberIsAt, NumberIsLength
      <4> QED  BY <1>1, <1>3, <3>2, <4>2 DEF PingPongInv
    <3> QED  BY <3>3, <3>4
  <2>4. CASE t = Main
    <3>1. /\ oddPc' = [oddPc EXCEPT ![t] = oddPc'[t]]
          /\ PopMoves(oddPc[t], oddPc'[t], oddQueue, oddQueue', oddOut'.value)
          /\ oddPc'[t] # "idle" => oddOp' = oddOp /\ oddItem' = oddItem /\ oddOut' = oddOut
          /\ oddOp' = oddOp \/ oddOp' = [oddOp EXCEPT ![t] = "none"]
          /\ oddItem' = oddItem \/ oddItem' = [oddItem EXCEPT ![t] = NoItem]
          /\ oddTrash' = oddTrash
      BY <1>5, <2>2, <2>4, OddPopMoves DEF PingPongInv, CallsOfLoops, PingPongTypes
    <3>2. PingPongTypes' /\ CallsOfLoops'
      BY <1>2, <2>1, <2>4, <3>1, PingPongSetting DEF PingPongInv, PingPongTypes,
         CallsOfLoops, PopMoves, Popping, PingPong!Odds!PCs, PingPong!Odds!Ops
    <3>3. CASE oddPc'[t] = "idle"
      <4>1. oddQueue # <<>> /\ oddQueue' = Tail(oddQueue) /\ oddOut'.value = Head(oddQueue)
        BY <3>1, <3>3 DEF PopMoves
      <4>2. place = 4 /\ oddQueue = <<Len(sharedData)>>
        BY <1>1, <4>1 DEF NumberIsAt, NumberIsLength
      <4>3. oddQueue' = <<>> /\ oddOut'.value = Len(sharedData)
        BY <4>1, <4>2, OneItem
      <4>4. NumberIsAt(5)' /\ NumberIsLength(5)'
        BY <1>1, <1>2, <2>1, <2>2, <2>4, <3>1, <3>3, <4>2, <4>3, PingPongSetting DEF
           PingPongInv, PingPongTypes, CallsOfLoops, NumberIsAt, NumberIsLength
      <4> QED  BY <1>3, <3>2, <4>4 DEF PingPongInv
    <3>4. CASE oddPc'[t] # "idle"
      <4>1. oddQueue' = oddQueue /\ oddItem' = oddItem /\ oddOut' = oddOut
        BY <3>1, <3>4 DEF PopMoves
      <4>2. NumberIsAt(place)' /\ NumberIsLength(place)'
        BY <1>1, <1>2, <2>1, <2>2, <2>4, <3>1, <3>4, <4>1, PingPongSetting DEF
           PingPongInv, PingPongTypes, CallsOfLoops, NumberIsAt, NumberIsLength
      <4> QED  BY <1>1, <1>3, <3>2, <4>2 DEF PingPongInv
    <3> QED  BY <3>3, <3>4
  <2> QED  BY <2>3, <2>4, PingPongSetting
<1> QED  BY <1>4, <1>5 DEF PingPong!Inside

\* A thread between its calls makes the next one, or writes the number it has.
LEMMA BetweenPreservesInv ==
  ASSUME PingPongInv, NEW t \in QueueThreads,
         \/ PingPong!PushBack(t) \/ PingPong!PopFront(t)
         \/ PingPong!BeginAppend(t) \/ PingPong!EndAppend(t)
  PROVE  PingPongInv'
<1>1. PICK place \in 0 .. 6 : NumberIsAt(place) /\ NumberIsLength(place)
  BY DEF PingPongInv
<1>2. PingPongTypes /\ CallsOfLoops /\ WrittenInOrder /\ t \in {Main, Second} /\ Main # Second
  BY PingPongSetting DEF PingPongInv
<1> USE DEF PingPong!Runs, PingPong!Then, PingPong!NextRound
<1>3. CASE PingPong!PushBack(t)
  <2>1. /\ todo[t] = "push" /\ pc[t] = "idle" /\ oddPc[t] = "idle" /\ sharedData' = sharedData
        /\ \/ t = Main /\ PingPong!CallPush(t, i[t]) /\ PingPong!Then(t, "pop")
              /\ UNCHANGED <<PingPong!oddVars, i>>
           \/ t = Second /\ PingPong!Odds!CallPush(t, i[t]) /\ PingPong!NextRound(t, "pop")
              /\ UNCHANGED PingPong!vars
    BY <1>3 DEF PingPong!PushBack
  <2>2. WrittenInOrder'
    BY <1>2, <2>1 DEF WrittenInOrder
  <2>3. CASE t = Main
    <3>1. /\ i[t] \in QueueItems /\ op' = [op EXCEPT ![t] = "push"]
          /\ item' = [item EXCEPT ![t] = i[t]]
          /\ pc' = [pc EXCEPT ![t] = "lock"] /\ todo' = [todo EXCEPT ![t] = "pop"]
          /\ UNCHANGED <<queue, trash, out, oddPc, oddOp, oddItem, oddTrash, oddOut, oddQueue, i>>
      BY <1>2, <2>1, <2>3 DEF PingPong!CallPush, PingPong!Enter, PingPong!GoTo,
         PingPong!Fresh, PingPong!oddVars
    <3>2. PingPongTypes' /\ CallsOfLoops'
      BY <1>2, <2>1, <2>3, <3>1 DEF PingPongTypes, CallsOfLoops, Pushing, PingPong!PCs,
         PingPong!Ops
    <3>3. NumberIsAt(place)' /\ NumberIsLength(place)'
      BY <1>1, <1>2, <2>1, <2>3, <3>1 DEF PingPongTypes, NumberIsAt, NumberIsLength
    <3> QED  BY <1>1, <2>2, <3>2, <3>3 DEF PingPongInv
  <2>4. CASE t = Second
    <3> PICK next : next = IF i[t] + 2 < LoopEnd THEN "pop" ELSE "stop"
      OBVIOUS
    <3>1. /\ i[t] \in QueueItems /\ oddOp' = [oddOp EXCEPT ![t] = "push"]
          /\ oddItem' = [oddItem EXCEPT ![t] = i[t]]
          /\ oddPc' = [oddPc EXCEPT ![t] = "lock"] /\ todo' = [todo EXCEPT ![t] = next]
          /\ i' = [i EXCEPT ![t] = @ + 2] /\ next \in {"pop", "stop"}
          /\ UNCHANGED <<queue, trash, out, pc, op, item, oddTrash, oddOut, oddQueue>>
      BY <1>2, <2>1, <2>4 DEF PingPong!Odds!CallPush, PingPong!Odds!Enter,
         PingPong!Odds!GoTo, PingPong!Odds!Fresh, PingPong!vars, PingPong!callVars
    <3>2. PingPongTypes' /\ CallsOfLoops'
      BY <1>2, <2>1, <2>4, <3>1 DEF PingPongTypes, CallsOfLoops, Pushing, PingPong!Odds!PCs,
         PingPong!Odds!Ops
    <3>3. NumberIsAt(place)' /\ NumberIsLength(place)'
      BY <1>1, <1>2, <2>1, <2>4, <3>1 DEF PingPongTypes, NumberIsAt, NumberIsLength
    <3> QED  BY <1>1, <2>2, <3>2, <3>3 DEF PingPongInv
  <2> QED  BY <1>2, <2>3, <2>4
<1>4. CASE PingPong!PopFront(t)
  <2>1. /\ todo[t] = "pop" /\ pc[t] = "idle" /\ oddPc[t] = "idle"
        /\ UNCHANGED <<i, sharedData>>
        /\ todo' = [todo EXCEPT ![t] = "append"]
        /\ \/ t = Main /\ PingPong!Odds!CallOther(t, "pop") /\ UNCHANGED PingPong!vars
           \/ t = Second /\ PingPong!CallOther(t, "pop") /\ UNCHANGED PingPong!oddVars
    BY <1>4 DEF PingPong!PopFront
  <2>2. WrittenInOrder'
    BY <1>2, <2>1 DEF WrittenInOrder
  <2>3. CASE t = Main
    <3>1. /\ oddOp' = [oddOp EXCEPT ![t] = "pop"] /\ oddItem' = [oddItem EXCEPT ![t] = NoItem]
          /\ oddPc' = [oddPc EXCEPT ![t] = "lock"]
          /\ UNCHANGED <<queue, trash, out, pc, op, item, oddTrash, oddOut, oddQueue>>
      BY <1>2, <2>1, <2>3 DEF PingPong!Odds!CallOther, PingPong!Odds!Enter,
         PingPong!Odds!GoTo, PingPong!vars, PingPong!callVars
    <3>2. PingPongTypes' /\ CallsOfLoops'
      BY <1>2, <2>1, <2>3, <3>1 DEF PingPongTypes, CallsOfLoops, Popping, PingPong!Odds!PCs,
         PingPong!Odds!Ops
    <3>3. NumberIsAt(place)' /\ NumberIsLength(place)'
      BY <1>1, <1>2, <2>1, <2>3, <3>1 DEF PingPongTypes, NumberIsAt, NumberIsLength
    <3> QED  BY <1>1, <2>2, <3>2, <3>3 DEF PingPongInv
  <2>4. CASE t = Second
    <3>1. /\ op' = [op EXCEPT ![t] = "pop"] /\ item' = [item EXCEPT ![t] = NoItem]
          /\ pc' = [pc EXCEPT ![t] = "lock"]
          /\ UNCHANGED <<queue, trash, out, oddPc, oddOp, oddItem, oddTrash, oddOut, oddQueue>>
      BY <1>2, <2>1, <2>4 DEF PingPong!CallOther, PingPong!Enter, PingPong!GoTo,
         PingPong!oddVars
    <3>2. PingPongTypes' /\ CallsOfLoops'
      BY <1>2, <2>1, <2>4, <3>1 DEF PingPongTypes, CallsOfLoops, Popping, PingPong!PCs,
         PingPong!Ops
    <3>3. NumberIsAt(place)' /\ NumberIsLength(place)'
      BY <1>1, <1>2, <2>1, <2>4, <3>1 DEF PingPongTypes, NumberIsAt, NumberIsLength
    <3> QED  BY <1>1, <2>2, <3>2, <3>3 DEF PingPongInv
  <2> QED  BY <1>2, <2>3, <2>4
<1>5. CASE PingPong!BeginAppend(t)
  <2>1. /\ todo[t] = "append" /\ pc[t] = "idle" /\ oddPc[t] = "idle"
        /\ todo' = [todo EXCEPT ![t] = "appending"]
        /\ UNCHANGED <<i, sharedData, queue, trash, out, pc, op, item,
                       oddPc, oddOp, oddItem, oddTrash, oddOut, oddQueue>>
    BY <1>5 DEF PingPong!BeginAppend, PingPong!vars, PingPong!callVars, PingPong!oddVars
  <2>2. PingPongTypes' /\ CallsOfLoops' /\ WrittenInOrder'
    BY <1>2, <2>1 DEF PingPongTypes, CallsOfLoops, WrittenInOrder
  <2>3. NumberIsAt(place)' /\ NumberIsLength(place)'
    BY <1>1, <1>2, <2>1 DEF PingPongTypes, NumberIsAt, NumberIsLength
  <2> QED  BY <1>1, <2>2, <2>3 DEF PingPongInv
<1>6. CASE PingPong!EndAppend(t)
  <2> PICK n : n = Len(sharedData)
    OBVIOUS
  <2>1. /\ todo[t] = "appending"
        /\ sharedData' = Append(sharedData, PingPong!ToAdd(t))
        /\ UNCHANGED <<queue, trash, out, pc, op, item,
                       oddPc, oddOp, oddItem, oddTrash, oddOut, oddQueue>>
    BY <1>6 DEF PingPong!EndAppend, PingPong!vars, PingPong!callVars, PingPong!oddVars
  <2>2. /\ pc[t] = "idle" /\ oddPc[t] = "idle"
        /\ IF t = Main THEN place = 5 /\ oddOut.value = n ELSE place = 2 /\ out.value = n
    BY <1>1, <1>2, <2>1 DEF CallsOfLoops, NumberIsAt, NumberIsLength
  <2>3. sharedData' = Append(sharedData, n) /\ sharedData \in Seq(Nat) /\ n \in Nat
    BY <1>2, <2>1, <2>2, LenProperties DEF PingPong!ToAdd, PingPongTypes
  <2>4. /\ sharedData' \in Seq(Nat) /\ Len(sharedData') = n + 1
        /\ \A k \in 1 .. n : sharedData'[k] = sharedData[k]
        /\ sharedData'[n + 1] = n
    BY <2>3, Appended
  <2>5. WrittenInOrder'
    <3>1. DOMAIN sharedData' = 1 .. n + 1 /\ DOMAIN sharedData = 1 .. n
      BY <2>3, <2>4, LenProperties
    <3> QED  BY <1>2, <2>3, <2>4, <3>1 DEF WrittenInOrder
  <2>6. CASE t = Main
    <3> PICK next : next = IF i[t] + 2 < LoopEnd THEN "push" ELSE "stop"
      OBVIOUS
    <3>1. /\ i' = [i EXCEPT ![t] = @ + 2] /\ todo' = [todo EXCEPT ![t] = next]
          /\ next \in {"push", "stop"}
      BY <1>6, <2>6 DEF PingPong!EndAppend
    <3>2. PingPongTypes' /\ CallsOfLoops'
      BY <1>2, <2>1, <2>2, <2>4, <2>6, <3>1 DEF PingPongTypes, CallsOfLoops
    <3>3. CASE next = "push"
      <4>1. NumberIsAt(0)' /\ NumberIsLength(0)'
        BY <1>1, <1>2, <2>1, <2>2, <2>3, <2>4, <2>6, <3>1, <3>3
           DEF PingPongTypes, CallsOfLoops, NumberIsAt, NumberIsLength
      <4> QED  BY <2>5, <3>2, <4>1 DEF PingPongInv
    <3>4. CASE next = "stop"
      <4>1. NumberIsAt(6)' /\ NumberIsLength(6)'
        BY <1>1, <1>2, <2>1, <2>2, <2>3, <2>4, <2>6, <3>1, <3>4
           DEF PingPongTypes, CallsOfLoops, NumberIsAt, NumberIsLength
      <4> QED  BY <2>5, <3>2, <4>1 DEF PingPongInv
    <3> QED  BY <3>1, <3>3, <3>4
  <2>7. CASE t = Second
    <3>1. i' = i /\ todo' = [todo EXCEPT ![t] = "push"]
      BY <1>2, <1>6, <2>7 DEF PingPong!EndAppend
    <3>2. PingPongTypes' /\ CallsOfLoops'
      BY <1>2, <2>1, <2>2, <2>4, <2>7, <3>1 DEF PingPongTypes, CallsOfLoops
    <3>3. NumberIsAt(3)' /\ NumberIsLength(3)'
      BY <1>1, <1>2, <2>1, <2>2, <2>3, <2>4, <2>7, <3>1
         DEF PingPongTypes, CallsOfLoops, NumberIsAt, NumberIsLength
    <3> QED  BY <2>5, <3>2, <3>3 DEF PingPongInv
  <2> QED  BY <1>2, <2>6, <2>7
<1> QED  BY <1>3, <1>4, <1>5, <1>6

\* It holds at the beginning ...
LEMMA PingPongInitInv ==
  ASSUME PingPong!PingPongInit
  PROVE  PingPongInv
<1>1. /\ PingPong!Init /\ PingPong!Odds!Init
      /\ todo = [t \in QueueThreads |-> IF t = Main THEN "push" ELSE "pop"]
      /\ i = [t \in QueueThreads |-> IF t = Main THEN 0 ELSE 1]
      /\ sharedData = <<>>
  BY DEF PingPong!PingPongInit
<1>2. /\ queue = <<>> /\ oddQueue = <<>>
      /\ pc = [t \in QueueThreads |-> "idle"] /\ oddPc = [t \in QueueThreads |-> "idle"]
      /\ op = [t \in QueueThreads |-> "none"] /\ oddOp = [t \in QueueThreads |-> "none"]
      /\ item = [t \in QueueThreads |-> NoItem] /\ oddItem = [t \in QueueThreads |-> NoItem]
      /\ trash = [t \in QueueThreads |-> <<>>] /\ oddTrash = [t \in QueueThreads |-> <<>>]
  BY <1>1 DEF PingPong!Init, PingPong!Odds!Init
<1>3. Len(sharedData) = 0 /\ sharedData \in Seq(Nat) /\ DOMAIN sharedData = {}
  BY <1>1
<1>4. PingPongTypes /\ CallsOfLoops /\ WrittenInOrder
  BY <1>1, <1>2, <1>3, PingPongSetting DEF PingPongTypes, CallsOfLoops, WrittenInOrder,
     PingPong!PCs, PingPong!Ops, PingPong!Odds!PCs, PingPong!Odds!Ops
<1>5. NumberIsAt(0) /\ NumberIsLength(0)
  BY <1>1, <1>2, <1>3, PingPongSetting DEF NumberIsAt, NumberIsLength
<1> QED  BY <1>4, <1>5 DEF PingPongInv

\* ... and steps of nobody preserve it too.
LEMMA PingPongInvStays ==
  ASSUME PingPongInv, UNCHANGED <<PingPong!vars, PingPong!oddVars, PingPong!testVars>>
  PROVE  PingPongInv'
BY DEF PingPong!vars, PingPong!callVars, PingPong!oddVars, PingPong!testVars, PingPongInv,
   PingPongTypes, CallsOfLoops, NumberIsAt, NumberIsLength, WrittenInOrder

\* Where the number is tells who may write.
LEMMA PingPongInvWrites ==
  ASSUME PingPongInv
  PROVE  PingPong!WritesInTurn
BY PingPongSetting DEF PingPongInv, NumberIsAt, CallsOfLoops, WrittenInOrder,
   PingPong!WritesInTurn

-----------------------------------------------------------------------------
\* Neither thread is left asleep.  A queue as its two users see it: one thread
\* pushes into it, the other one pops.
QueueOf(o, s, w, q, l) == [owner |-> o, sleeping |-> s, woken |-> w, queue |-> q, log |-> l]
EvenQueue == QueueOf(owner, sleeping, woken, queue, log)
OddQueue  == QueueOf(oddOwner, oddSleeping, oddWoken, oddQueue, oddLog)

\* A step of thread t in its push of x, and one in its pop.
PushStep(t, p, p1, x, q, q1) ==
  \/ /\ p = "lock" /\ p1 = "critical" /\ q.owner = Nobody
     /\ q1 = QueueOf(t, q.sleeping, q.woken, q.queue, q.log)
  \/ /\ p = "critical" /\ p1 = "notify"
     /\ q1 = QueueOf(Nobody, q.sleeping, q.woken, Append(q.queue, x), Append(q.log, x))
  \/ /\ p = "notify" /\ p1 = "returning"
     /\ q1 = QueueOf(q.owner, {}, q.woken \cup q.sleeping, q.queue, q.log)
  \/ p = "returning" /\ p1 = "idle" /\ q1 = q

PopStep(t, p, p1, q, q1) ==
  \/ /\ p = "lock" /\ p1 = "critical" /\ q.owner = Nobody
     /\ q1 = QueueOf(t, q.sleeping, q.woken, q.queue, q.log)
  \/ /\ p = "critical" /\ p1 = "idle" /\ q.queue # <<>>
     /\ q1 = QueueOf(Nobody, q.sleeping, q.woken, Tail(q.queue), q.log)
  \/ /\ p = "critical" /\ p1 = "waiting" /\ q.queue = <<>>
     /\ q1 = QueueOf(Nobody, q.sleeping \cup {t}, q.woken, q.queue, q.log)
  \/ /\ p = "waiting" /\ p1 = "critical" /\ t \in q.woken /\ q.owner = Nobody
     /\ q1 = QueueOf(t, q.sleeping, q.woken \ {t}, q.queue, q.log)

\* The thread that pops sleeps while there is an item only if the other one is
\* about to notify it.
QueueAwake(q, a, p, b, c) ==
  /\ p \in {"idle", "lock", "critical", "notify", "returning"}
  /\ c \in {"idle", "lock", "critical", "waiting"}
  /\ q.owner = a <=> p = "critical"
  /\ q.owner = b <=> c = "critical"
  /\ q.owner \in {a, b, Nobody}
  /\ q.sleeping \subseteq {b} /\ q.woken \subseteq {b}
  /\ b \in q.sleeping \/ b \in q.woken <=> c = "waiting"
  /\ ~(b \in q.sleeping /\ b \in q.woken)
  /\ b \in q.sleeping /\ q.queue # <<>> => p = "notify"

\* The steps of a thread with p its place in its push and c that in its pop until
\* it appends, with those it brings the other thread by its notification.
LoopRank(s, p, c, roused) ==
  IF p = "lock" THEN 11
  ELSE IF p = "critical" THEN 10
  ELSE IF p = "notify" THEN 9
  ELSE IF p = "returning" THEN 6
  ELSE IF c = "lock" \/ roused THEN 4
  ELSE IF c = "critical" THEN 3
  ELSE IF c = "waiting" THEN 2
  ELSE IF s = "push" THEN 12
  ELSE IF s = "pop" THEN 5
  ELSE IF s = "append" THEN 1
  ELSE 0

\* A step in a push keeps that so, and leaves fewer steps to both.
LEMMA PushKeepsAwake ==
  ASSUME NEW a, NEW b, a # b, a # Nobody, b # Nobody, NEW p, NEW p1, NEW c, NEW x,
         NEW q, NEW q1,
         QueueAwake(q, a, p, b, c), PushStep(a, p, p1, x, q, q1)
  PROVE  /\ QueueAwake(q1, a, p1, b, c)
         /\ \A s, u, d : s \in {"pop", "stop"} /\ (c # "idle" => d = "idle") =>
              LoopRank(s, p1, "idle", FALSE) + LoopRank(u, d, c, b \in q1.woken)
                < LoopRank(s, p, "idle", FALSE) + LoopRank(u, d, c, b \in q.woken)
<1>1. CASE p = "lock" /\ p1 = "critical" /\ q.owner = Nobody /\ q1 = QueueOf(a, q.sleeping, q.woken, q.queue, q.log)
  <2>1. q1.owner = a /\ q1.sleeping = q.sleeping /\ q1.woken = q.woken /\ q1.queue = q.queue
    BY <1>1 DEF QueueOf
  <2> QED  BY <1>1, <2>1 DEF QueueAwake, LoopRank
<1>2. CASE /\ p = "critical" /\ p1 = "notify"
           /\ q1 = QueueOf(Nobody, q.sleeping, q.woken, Append(q.queue, x), Append(q.log, x))
  <2>1. q1.owner = Nobody /\ q1.sleeping = q.sleeping /\ q1.woken = q.woken
    BY <1>2 DEF QueueOf
  <2> QED  BY <1>2, <2>1 DEF QueueAwake, LoopRank
<1>3. CASE /\ p = "notify" /\ p1 = "returning"
           /\ q1 = QueueOf(q.owner, {}, q.woken \cup q.sleeping, q.queue, q.log)
  <2>1. /\ q1.owner = q.owner /\ q1.sleeping = {} /\ q1.woken = q.woken \cup q.sleeping
        /\ q1.queue = q.queue
    BY <1>3 DEF QueueOf
  <2>2. QueueAwake(q1, a, p1, b, c)
    BY <1>3, <2>1 DEF QueueAwake
  <2>3. (b \in q1.woken <=> c = "waiting") /\ (b \in q.woken => c = "waiting")
    BY <2>1 DEF QueueAwake
  <2>4. ASSUME NEW s \in {"pop", "stop"}
        PROVE  /\ LoopRank(s, p, "idle", FALSE) = 9 /\ LoopRank(s, p1, "idle", FALSE) = 6
    BY <1>3 DEF LoopRank
  <2>5. ASSUME NEW u, NEW d, c # "idle" => d = "idle"
        PROVE  /\ LoopRank(u, d, c, b \in q.woken) \in Nat
               /\ LoopRank(u, d, c, b \in q1.woken) \in
                    {LoopRank(u, d, c, b \in q.woken), LoopRank(u, d, c, b \in q.woken) + 2}
    <3>1. CASE c = "waiting"
      BY <2>3, <2>5, <3>1 DEF LoopRank
    <3>2. CASE c # "waiting"
      BY <2>3, <3>2 DEF LoopRank
    <3> QED  BY <3>1, <3>2
  <2>6. ASSUME NEW s \in {"pop", "stop"}, NEW u, NEW d, c # "idle" => d = "idle"
        PROVE  LoopRank(s, p1, "idle", FALSE) + LoopRank(u, d, c, b \in q1.woken)
                 < LoopRank(s, p, "idle", FALSE) + LoopRank(u, d, c, b \in q.woken)
    <3> DEFINE m == LoopRank(u, d, c, b \in q.woken)
               n == LoopRank(u, d, c, b \in q1.woken)
               k == LoopRank(s, p1, "idle", FALSE)
    <3>1. m \in Nat /\ n \in {m, m + 2} /\ k = 6 /\ LoopRank(s, p, "idle", FALSE) = 9
      BY <2>4, <2>5, <2>6, Zenon
    <3> HIDE DEF m, n, k
    <3>2. k + n < 9 + m
      BY <3>1
    <3> QED  BY <3>1, <3>2, Zenon DEF m, n, k
  <2> QED  BY <2>2, <2>6, Zenon
<1>4. CASE p = "returning" /\ p1 = "idle" /\ q1 = q
  <2>1. QueueAwake(q1, a, p1, b, c)
    BY <1>4 DEF QueueAwake
  <2>2. ASSUME NEW s \in {"pop", "stop"}, NEW u, NEW d, c # "idle" => d = "idle"
        PROVE  LoopRank(s, p1, "idle", FALSE) + LoopRank(u, d, c, b \in q1.woken)
                 < LoopRank(s, p, "idle", FALSE) + LoopRank(u, d, c, b \in q.woken)
    <3> DEFINE m == LoopRank(u, d, c, b \in q.woken)
               k == LoopRank(s, p1, "idle", FALSE)
    <3>1. m \in Nat
      BY DEF LoopRank
    <3>2. k \in {0, 5} /\ LoopRank(s, p, "idle", FALSE) = 6
      BY <1>4, <2>2 DEF LoopRank
    <3> HIDE DEF m, k
    <3>3. k + m < 6 + m
      BY <3>1, <3>2
    <3> QED  BY <1>4, <3>2, <3>3, Zenon DEF m, k
  <2> QED  BY <2>1, <2>2, Zenon
<1> QED  BY <1>1, <1>2, <1>3, <1>4 DEF PushStep

\* So does a step in a pop.
LEMMA PopKeepsAwake ==
  ASSUME NEW a, NEW b, a # b, a # Nobody, b # Nobody, NEW p, NEW c, NEW c1,
         NEW q, NEW q1,
         QueueAwake(q, a, p, b, c), PopStep(b, c, c1, q, q1),
         q.queue = <<>> \/ Tail(q.queue) = <<>>
  PROVE  /\ QueueAwake(q1, a, p, b, c1)
         /\ LoopRank("append", "idle", c1, b \in q1.woken)
              < LoopRank("append", "idle", c, b \in q.woken)
<1>1. CASE c = "lock" /\ c1 = "critical" /\ q.owner = Nobody /\ q1 = QueueOf(b, q.sleeping, q.woken, q.queue, q.log)
  <2>1. q1.owner = b /\ q1.sleeping = q.sleeping /\ q1.woken = q.woken /\ q1.queue = q.queue
    BY <1>1 DEF QueueOf
  <2> QED  BY <1>1, <2>1 DEF QueueAwake, LoopRank
<1>2. CASE /\ c = "critical" /\ c1 = "idle" /\ q.queue # <<>>
           /\ q1 = QueueOf(Nobody, q.sleeping, q.woken, Tail(q.queue), q.log)
  <2>1. q1.owner = Nobody /\ q1.sleeping = q.sleeping /\ q1.woken = q.woken
    BY <1>2 DEF QueueOf
  <2> QED  BY <1>2, <2>1 DEF QueueAwake, LoopRank
<1>3. CASE /\ c = "critical" /\ c1 = "waiting" /\ q.queue = <<>>
           /\ q1 = QueueOf(Nobody, q.sleeping \cup {b}, q.woken, q.queue, q.log)
  <2>1. /\ q1.owner = Nobody /\ q1.sleeping = q.sleeping \cup {b} /\ q1.woken = q.woken
        /\ q1.queue = <<>>
    BY <1>3 DEF QueueOf
  <2>2. QueueAwake(q1, a, p, b, c1)
    BY <1>3, <2>1 DEF QueueAwake
  <2>3. b \notin q.woken /\ b \notin q1.woken
    BY <1>3, <2>1 DEF QueueAwake
  <2>4. LoopRank("append", "idle", c, b \in q.woken) = 3
    BY <1>3, <2>3 DEF LoopRank
  <2>5. LoopRank("append", "idle", c1, b \in q1.woken) = 2
    BY <1>3, <2>3 DEF LoopRank
  <2> QED  BY <2>2, <2>4, <2>5
<1>4. CASE /\ c = "waiting" /\ c1 = "critical" /\ b \in q.woken /\ q.owner = Nobody
           /\ q1 = QueueOf(b, q.sleeping, q.woken \ {b}, q.queue, q.log)
  <2>1. /\ q1.owner = b /\ q1.sleeping = q.sleeping /\ q1.woken = q.woken \ {b}
        /\ q1.queue = q.queue
    BY <1>4 DEF QueueOf
  <2> QED  BY <1>4, <2>1 DEF QueueAwake, LoopRank
<1> QED  BY <1>1, <1>2, <1>3, <1>4 DEF PopStep

\* A step of a thread in its push into even_bq, as the other thread sees it.
LEMMA EvenPushSteps ==
  ASSUME NEW t \in QueueThreads, NEW u, PingPong!Step(t), pc[t] \in Pushing, op[t] = "push",
         pc \in [QueueThreads -> PingPong!PCs], trash[t] = <<>>, sleeping \subseteq {u},
         item \in [QueueThreads -> QueueItems \cup {NoItem}], pc[t] # "callback"
  PROVE  /\ PushStep(t, pc[t], pc'[t], item[t], EvenQueue, EvenQueue')
         /\ pc'[t] = "idle" => item'[t] = NoItem
         /\ \A v \in QueueThreads \ {t} : item'[v] = item[v]
<1> USE DEF PushStep, QueueOf, EvenQueue, Pushing, PingPong!At, PingPong!GoTo, PingPong!Pops
<1>1. CASE PingPong!Guard(t)
  BY <1>1 DEF PingPong!Guard, PingPong!Lock
<1>2. CASE PingPong!Push(t)
  BY <1>2 DEF PingPong!Push, PingPong!Unlock
<1>3. CASE PingPong!Notify(t)
  <2>1. sleeping' = {} /\ woken' = woken \cup sleeping /\ owner' = owner
    BY <1>3 DEF PingPong!Notify, PingPong!NotifyOne, PingPong!Rouse, PingPong!monitorVars
  <2>2. pc[t] = "notify" /\ pc'[t] = "returning" /\ UNCHANGED <<item, queue, log>>
    BY <1>3 DEF PingPong!Notify
  <2> QED  BY <2>1, <2>2
<1>4. ~(\/ PingPong!PopTake(t) \/ PingPong!PopWait(t) \/ PingPong!Callback(t)
       \/ PingPong!PopGiveUp(t) \/ PingPong!Timeout(t))
  BY DEF PingPong!PopTake, PingPong!PopWait, PingPong!PopGiveUp, PingPong!Timeout, PingPong!Callback
<1>5. ~(\/ PingPong!WakeUp(t) \/ PingPong!Swap(t) \/ PingPong!Delete(t)
       \/ PingPong!Cleared(t) \/ PingPong!Size(t))
  BY DEF PingPong!WakeUp, PingPong!Swap, PingPong!Delete, PingPong!Cleared, PingPong!Size
<1>6. CASE PingPong!EndPush(t)
  <2>1. pc[t] = "returning" /\ pc'[t] = "idle" /\ item' = [item EXCEPT ![t] = NoItem]
    BY <1>6 DEF PingPong!EndPush, PingPong!Leave
  <2>2. UNCHANGED <<owner, sleeping, woken, queue, log>>
    BY <1>6 DEF PingPong!EndPush, PingPong!monitorVars
  <2> QED  BY <2>1, <2>2
<1> QED  BY <1>1, <1>2, <1>3, <1>4, <1>5, <1>6 DEF PingPong!Step

\* A step of a thread in its pop from even_bq, as the other thread sees it.
LEMMA EvenPopSteps ==
  ASSUME NEW t \in QueueThreads, PingPong!Step(t), pc[t] \in Popping, op[t] = "pop",
         pc \in [QueueThreads -> PingPong!PCs], trash[t] = <<>>,
         item \in [QueueThreads -> QueueItems \cup {NoItem}]
  PROVE  /\ PopStep(t, pc[t], pc'[t], EvenQueue, EvenQueue')
         /\ item'[t] \in {item[t], NoItem}
         /\ \A v \in QueueThreads \ {t} : item'[v] = item[v]
<1> USE DEF PopStep, QueueOf, EvenQueue, Popping, PingPong!At, PingPong!GoTo, PingPong!Pops
<1>1. CASE PingPong!Guard(t)
  BY <1>1 DEF PingPong!Guard, PingPong!Lock
<1>2. CASE PingPong!PopTake(t)
  <2>1. /\ pc[t] = "critical" /\ pc'[t] = "idle" /\ queue # <<>> /\ queue' = Tail(queue)
        /\ owner' = Nobody /\ UNCHANGED <<sleeping, woken, log>>
        /\ item' = [item EXCEPT ![t] = NoItem]
    BY <1>2 DEF PingPong!PopTake, PingPong!Leave, PingPong!Unlock
  <2> QED  BY <2>1
<1>3. CASE PingPong!PopWait(t)
  BY <1>3 DEF PingPong!PopWait, PingPong!Wait
<1>4. CASE PingPong!WakeUp(t)
  BY <1>4 DEF PingPong!WakeUp, PingPong!Relock
<1>5. ~(\/ PingPong!Push(t) \/ PingPong!Notify(t) \/ PingPong!Callback(t)
       \/ PingPong!EndPush(t) \/ PingPong!PopGiveUp(t) \/ PingPong!Timeout(t))
  BY DEF PingPong!Push, PingPong!Notify, PingPong!Callback, PingPong!EndPush,
     PingPong!PopGiveUp, PingPong!Timeout
<1>6. ~(\/ PingPong!Swap(t) \/ PingPong!Delete(t) \/ PingPong!Cleared(t) \/ PingPong!Size(t))
  BY DEF PingPong!Swap, PingPong!Delete, PingPong!Cleared, PingPong!Size
<1> QED  BY <1>1, <1>2, <1>3, <1>4, <1>5, <1>6 DEF PingPong!Step

\* A step of a thread in its push into odds_bq, as the other thread sees it.
LEMMA OddPushSteps ==
  ASSUME NEW t \in QueueThreads, NEW u, PingPong!Odds!Step(t), oddPc[t] \in Pushing, oddOp[t] = "push",
         oddPc \in [QueueThreads -> PingPong!Odds!PCs], oddTrash[t] = <<>>, oddSleeping \subseteq {u},
         oddItem \in [QueueThreads -> QueueItems \cup {NoItem}], oddPc[t] # "callback"
  PROVE  /\ PushStep(t, oddPc[t], oddPc'[t], oddItem[t], OddQueue, OddQueue')
         /\ oddPc'[t] = "idle" => oddItem'[t] = NoItem
         /\ \A v \in QueueThreads \ {t} : oddItem'[v] = oddItem[v]
<1> USE DEF PushStep, QueueOf, OddQueue, Pushing, PingPong!Odds!At, PingPong!Odds!GoTo, PingPong!Odds!Pops
<1>1. CASE PingPong!Odds!Guard(t)
  BY <1>1 DEF PingPong!Odds!Guard, PingPong!Odds!Lock
<1>2. CASE PingPong!Odds!Push(t)
  BY <1>2 DEF PingPong!Odds!Push, PingPong!Odds!Unlock
<1>3. CASE PingPong!Odds!Notify(t)
  <2>1. oddSleeping' = {} /\ oddWoken' = oddWoken \cup oddSleeping /\ oddOwner' = oddOwner
    BY <1>3 DEF PingPong!Odds!Notify, PingPong!Odds!NotifyOne, PingPong!Odds!Rouse, PingPong!Odds!monitorVars
  <2>2. oddPc[t] = "notify" /\ oddPc'[t] = "returning" /\ UNCHANGED <<oddItem, oddQueue, oddLog>>
    BY <1>3 DEF PingPong!Odds!Notify
  <2> QED  BY <2>1, <2>2
<1>4. ~(\/ PingPong!Odds!PopTake(t) \/ PingPong!Odds!PopWait(t) \/ PingPong!Odds!Callback(t)
       \/ PingPong!Odds!PopGiveUp(t) \/ PingPong!Odds!Timeout(t))
  BY DEF PingPong!Odds!PopTake, PingPong!Odds!PopWait, PingPong!Odds!PopGiveUp, PingPong!Odds!Timeout, PingPong!Odds!Callback
<1>5. ~(\/ PingPong!Odds!WakeUp(t) \/ PingPong!Odds!Swap(t) \/ PingPong!Odds!Delete(t)
       \/ PingPong!Odds!Cleared(t) \/ PingPong!Odds!Size(t))
  BY DEF PingPong!Odds!WakeUp, PingPong!Odds!Swap, PingPong!Odds!Delete, PingPong!Odds!Cleared, PingPong!Odds!Size
<1>6. CASE PingPong!Odds!EndPush(t)
  <2>1. oddPc[t] = "returning" /\ oddPc'[t] = "idle" /\ oddItem' = [oddItem EXCEPT ![t] = NoItem]
    BY <1>6 DEF PingPong!Odds!EndPush, PingPong!Odds!Leave
  <2>2. UNCHANGED <<oddOwner, oddSleeping, oddWoken, oddQueue, oddLog>>
    BY <1>6 DEF PingPong!Odds!EndPush, PingPong!Odds!monitorVars
  <2> QED  BY <2>1, <2>2
<1> QED  BY <1>1, <1>2, <1>3, <1>4, <1>5, <1>6 DEF PingPong!Odds!Step

\* A step of a thread in its pop from odds_bq, as the other thread sees it.
LEMMA OddPopSteps ==
  ASSUME NEW t \in QueueThreads, PingPong!Odds!Step(t), oddPc[t] \in Popping, oddOp[t] = "pop",
         oddPc \in [QueueThreads -> PingPong!Odds!PCs], oddTrash[t] = <<>>,
         oddItem \in [QueueThreads -> QueueItems \cup {NoItem}]
  PROVE  /\ PopStep(t, oddPc[t], oddPc'[t], OddQueue, OddQueue')
         /\ oddItem'[t] \in {oddItem[t], NoItem}
         /\ \A v \in QueueThreads \ {t} : oddItem'[v] = oddItem[v]
<1> USE DEF PopStep, QueueOf, OddQueue, Popping, PingPong!Odds!At, PingPong!Odds!GoTo, PingPong!Odds!Pops
<1>1. CASE PingPong!Odds!Guard(t)
  BY <1>1 DEF PingPong!Odds!Guard, PingPong!Odds!Lock
<1>2. CASE PingPong!Odds!PopTake(t)
  <2>1. /\ oddPc[t] = "critical" /\ oddPc'[t] = "idle" /\ oddQueue # <<>> /\ oddQueue' = Tail(oddQueue)
        /\ oddOwner' = Nobody /\ UNCHANGED <<oddSleeping, oddWoken, oddLog>>
        /\ oddItem' = [oddItem EXCEPT ![t] = NoItem]
    BY <1>2 DEF PingPong!Odds!PopTake, PingPong!Odds!Leave, PingPong!Odds!Unlock
  <2> QED  BY <2>1
<1>3. CASE PingPong!Odds!PopWait(t)
  BY <1>3 DEF PingPong!Odds!PopWait, PingPong!Odds!Wait
<1>4. CASE PingPong!Odds!WakeUp(t)
  BY <1>4 DEF PingPong!Odds!WakeUp, PingPong!Odds!Relock
<1>5. ~(\/ PingPong!Odds!Push(t) \/ PingPong!Odds!Notify(t) \/ PingPong!Odds!Callback(t)
       \/ PingPong!Odds!EndPush(t) \/ PingPong!Odds!PopGiveUp(t) \/ PingPong!Odds!Timeout(t))
  BY DEF PingPong!Odds!Push, PingPong!Odds!Notify, PingPong!Odds!Callback,
     PingPong!Odds!EndPush, PingPong!Odds!PopGiveUp, PingPong!Odds!Timeout
<1>6. ~(\/ PingPong!Odds!Swap(t) \/ PingPong!Odds!Delete(t) \/ PingPong!Odds!Cleared(t) \/ PingPong!Odds!Size(t))
  BY DEF PingPong!Odds!Swap, PingPong!Odds!Delete, PingPong!Odds!Cleared, PingPong!Odds!Size
<1> QED  BY <1>1, <1>2, <1>3, <1>4, <1>5, <1>6 DEF PingPong!Odds!Step

EvenAwake == QueueAwake(EvenQueue, Main, pc[Main], Second, pc[Second])
OddAwake  == QueueAwake(OddQueue, Second, oddPc[Second], Main, oddPc[Main])

\* What a thread is about to push has not been pushed, and is in no push.
PushesAreNew ==
  /\ log \in Seq(Nat) /\ oddLog \in Seq(Nat)
  /\ \A k \in 1 .. Len(log) : log[k] <= i[Main] /\ (todo[Main] = "push" => log[k] < i[Main])
  /\ \A k \in 1 .. Len(oddLog) : oddLog[k] < i[Second]
  /\ item[Second] = NoItem /\ (pc[Main] = "idle" => item[Main] = NoItem)
  /\ oddItem[Main] = NoItem /\ (oddPc[Second] = "idle" => oddItem[Second] = NoItem)

\* The loops end together, and not before everything is written.
LoopsEnd ==
  /\ i[Main] % 2 = 0 /\ i[Main] <= LoopEnd /\ (todo[Main] = "stop" <=> i[Main] = LoopEnd)
  /\ i[Second] % 2 = 1 /\ (todo[Second] = "stop" <=> i[Second] > LoopEnd)
  /\ Len(sharedData) <= LoopEnd
  /\ todo[Main] = "stop" => Len(sharedData) = LoopEnd /\ i[Second] = LoopEnd + 1

PingPongAwake == EvenAwake /\ OddAwake /\ PushesAreNew /\ LoopsEnd

\* A thread can make a step of its own: it is neither at its end nor asleep, what
\* it pushes is new, and it does not need a mutex that somebody has.
PingPongMoves(t) ==
  \/ /\ pc[t] = "idle" /\ oddPc[t] = "idle" /\ todo[t] # "stop"
     /\ todo[t] = "push" => i[t] \in IF t = Main THEN PingPong!Fresh ELSE PingPong!Odds!Fresh
  \/ pc[t] \in {"critical", "notify", "returning"}
  \/ (pc[t] = "lock" \/ t \in woken) /\ owner = Nobody
  \/ oddPc[t] \in {"critical", "notify", "returning"}
  \/ (oddPc[t] = "lock" \/ t \in oddWoken) /\ oddOwner = Nobody

PingPongRank(t) ==
  IF t = Main THEN LoopRank(todo[Main], pc[Main], oddPc[Main], Main \in oddWoken)
              ELSE LoopRank(todo[Second], oddPc[Second], pc[Second], Second \in woken)

\* The steps that are left, at most: thirteen for each number.
PingPongLeft == 13 * (LoopEnd - Len(sharedData)) + PingPongRank(Main) + PingPongRank(Second)

\* If the two have fewer steps before them, fewer are left.
LEMMA PingPongRanksCount ==
  ASSUME PingPongInv, Len(sharedData)' = Len(sharedData),
         PingPongRank(Main)' + PingPongRank(Second)' < PingPongRank(Main) + PingPongRank(Second)
  PROVE  PingPongLeft' < PingPongLeft
<1>1. Len(sharedData) \in Nat /\ LoopEnd \in Nat
  BY LenProperties, MaxNumberAssumption DEF PingPongInv, PingPongTypes, LoopEnd
<1>2. /\ PingPongRank(Main) \in Nat /\ PingPongRank(Second) \in Nat
      /\ PingPongRank(Main)' \in Nat /\ PingPongRank(Second)' \in Nat
  BY DEF PingPongRank, LoopRank
<1>3. PingPongLeft' = 13 * (LoopEnd - Len(sharedData)) + PingPongRank(Main)' + PingPongRank(Second)'
  BY DEF PingPongLeft
<1> HIDE DEF PingPongRank, LoopEnd
<1> QED  BY <1>1, <1>2, <1>3 DEF PingPongLeft

\* A step of Main in its push keeps all that, and is one of those that are left.
LEMMA EvenPushLeavesFewer ==
  ASSUME PingPongInv, PingPongAwake, PingPong!Step(Main), pc[Main] \in Pushing,
         UNCHANGED <<todo, i, sharedData, OddQueue, oddPc, oddItem>>
  PROVE  PingPongAwake' /\ PingPongLeft' < PingPongLeft
<1>1. PICK place \in 0 .. 6 : NumberIsAt(place) /\ NumberIsLength(place)
  BY DEF PingPongInv
<1>2. /\ Main \in QueueThreads /\ Second \in QueueThreads /\ Main # Second /\ Main # Nobody /\ Second # Nobody
      /\ QueueThreads = {Main, Second}
  BY PingPongSetting, TestThreadsAssumption
<1>3. /\ op[Main] = "push" /\ todo[Main] \in {"pop"} /\ oddPc[Main] = "idle"
      /\ pc[Second] # "idle" => oddPc[Second] = "idle"
      /\ pc \in [QueueThreads -> PingPong!PCs] /\ trash[Main] = <<>>
      /\ item \in [QueueThreads -> QueueItems \cup {NoItem}]
  BY <1>2, PingPongSetting DEF PingPongInv, PingPongTypes, CallsOfLoops, Pushing
<1>4. sleeping \subseteq {Second} /\ pc[Main] # "callback" /\ Main \notin oddWoken
  BY <1>3 DEF PingPongAwake, EvenAwake, OddAwake, QueueAwake, EvenQueue, OddQueue, QueueOf, Pushing
<1>5. /\ PushStep(Main, pc[Main], pc'[Main], item[Main], EvenQueue, EvenQueue')
      /\ pc'[Main] = "idle" => item'[Main] = NoItem
      /\ item'[Second] = item[Second]
  BY <1>2, <1>3, <1>4, EvenPushSteps
<1>6. /\ pc' = [pc EXCEPT ![Main] = pc'[Main]]
      /\ (pc'[Main] # "idle" => item' = item)
  BY <1>2, <1>3, EvenPushMoves
<1>7. /\ QueueAwake(EvenQueue, Main, pc[Main], Second, pc[Second]) /\ todo[Main] \in {"pop", "stop"}
      /\ pc'[Second] = pc[Second]
  BY <1>2, <1>3, <1>6 DEF PingPongAwake, EvenAwake
<1>8. /\ QueueAwake(EvenQueue', Main, pc'[Main], Second, pc[Second])
      /\ LoopRank(todo[Main], pc'[Main], "idle", FALSE)
           + LoopRank(todo[Second], oddPc[Second], pc[Second], Second \in EvenQueue'.woken)
         < LoopRank(todo[Main], pc[Main], "idle", FALSE)
           + LoopRank(todo[Second], oddPc[Second], pc[Second], Second \in EvenQueue.woken)
  <2>1. /\ QueueAwake(EvenQueue', Main, pc'[Main], Second, pc[Second])
        /\ \A s, u, d : s \in {"pop", "stop"} /\ (pc[Second] # "idle" => d = "idle") =>
             LoopRank(s, pc'[Main], "idle", FALSE) + LoopRank(u, d, pc[Second], Second \in EvenQueue'.woken)
               < LoopRank(s, pc[Main], "idle", FALSE) + LoopRank(u, d, pc[Second], Second \in EvenQueue.woken)
    BY ZenonT(40), <1>2, <1>5, <1>7, PushKeepsAwake
  <2> QED  BY <1>3, <1>7, <2>1, Zenon
<1>9. EvenAwake'
  BY <1>7, <1>8 DEF EvenAwake
<1>10. OddAwake'
  BY DEF PingPongAwake, OddAwake
<1>11. PushesAreNew'
  <2>1. log' = log \/ (log' = Append(log, item[Main]) /\ pc[Main] = "critical")
    BY <1>5 DEF PushStep, EvenQueue, QueueOf
  <2>2. oddLog' = oddLog
    BY DEF OddQueue, QueueOf
  <2>3. pc[Main] = "critical" =>
          /\ item[Main] \in Nat
          /\ item[Main] <= i[Main] /\ todo[Main] # "push"
    <3> SUFFICES ASSUME pc[Main] = "critical"
                 PROVE  item[Main] \in Nat /\ item[Main] <= i[Main] /\ todo[Main] # "push"
      OBVIOUS
    <3>1. place = 0 /\ item[Main] = Len(sharedData) /\ todo[Main] # "push"
      BY <1>1, <1>3 DEF NumberIsAt, NumberIsLength
    <3>2. Len(sharedData) \in Nat
      BY LenProperties DEF PingPongInv, PingPongTypes
    <3> QED  BY <1>1, <3>1, <3>2 DEF NumberIsLength
  <2>4. log' \in Seq(Nat) /\ \A k \in 1 .. Len(log') :
          (log'[k] = item[Main] /\ pc[Main] = "critical") \/ (k \in 1 .. Len(log) /\ log'[k] = log[k])
    <3>1. log \in Seq(Nat) /\ Len(log) \in Nat
      BY LenProperties DEF PingPongAwake, PushesAreNew
    <3>2. CASE log' = log
      BY <3>1, <3>2
    <3>3. CASE log' = Append(log, item[Main]) /\ pc[Main] = "critical"
      <4>1. /\ log' \in Seq(Nat) /\ Len(log') = Len(log) + 1
            /\ \A k \in 1 .. Len(log) : log'[k] = log[k]
            /\ log'[Len(log) + 1] = item[Main]
        BY <2>3, <3>1, <3>3, Appended
      <4>2. \A k \in 1 .. Len(log') : k \in 1 .. Len(log) \/ k = Len(log) + 1
        BY <3>1, <4>1
      <4> QED  BY <3>3, <4>1, <4>2
    <3> QED  BY <2>1, <3>2, <3>3
  <2> QED  BY <1>3, <1>5, <1>6, <1>7, <2>2, <2>3, <2>4 DEF PingPongAwake, PushesAreNew
<1>12. LoopsEnd'
  BY DEF PingPongAwake, LoopsEnd
<1>13. PingPongRank(Main)' + PingPongRank(Second)' < PingPongRank(Main) + PingPongRank(Second)
  <2>1. EvenQueue.woken = woken /\ EvenQueue'.woken = woken' /\ oddWoken' = oddWoken
    BY DEF EvenQueue, OddQueue, QueueOf
  <2>2. /\ PingPongRank(Main) = LoopRank(todo[Main], pc[Main], "idle", FALSE)
        /\ PingPongRank(Second) = LoopRank(todo[Second], oddPc[Second], pc[Second], Second \in woken)
    BY <1>2, <1>3, <1>4 DEF PingPongRank, LoopRank
  <2>3. /\ PingPongRank(Main)' = LoopRank(todo[Main], pc'[Main], "idle", FALSE)
        /\ PingPongRank(Second)' = LoopRank(todo[Second], oddPc[Second], pc[Second], Second \in woken')
    BY <1>2, <1>3, <1>4, <1>7, <2>1 DEF PingPongRank, LoopRank
  <2>4. PingPongRank(Main)' + PingPongRank(Second)' < PingPongRank(Main) + PingPongRank(Second)
    BY <1>8, <2>1, <2>2, <2>3, Zenon
  <2>5. /\ PingPongRank(Main) \in Nat /\ PingPongRank(Second) \in Nat
        /\ PingPongRank(Main)' \in Nat /\ PingPongRank(Second)' \in Nat
    BY DEF PingPongRank, LoopRank
  <2> HIDE DEF PingPongRank
  <2> QED  BY <2>4, <2>5
<1> QED  BY <1>9, <1>10, <1>11, <1>12, <1>13, PingPongRanksCount DEF PingPongAwake

\* So does a step of Second in its pop.
LEMMA EvenPopLeavesFewer ==
  ASSUME PingPongInv, PingPongAwake, PingPong!Step(Second), pc[Second] \in Popping,
         UNCHANGED <<todo, i, sharedData, OddQueue, oddPc, oddItem>>
  PROVE  PingPongAwake' /\ PingPongLeft' < PingPongLeft
<1>1. PICK place \in 0 .. 6 : NumberIsAt(place) /\ NumberIsLength(place)
  BY DEF PingPongInv
<1>2. /\ Main \in QueueThreads /\ Second \in QueueThreads /\ Main # Second /\ Main # Nobody /\ Second # Nobody
      /\ QueueThreads = {Main, Second}
  BY PingPongSetting, TestThreadsAssumption
<1>3. /\ op[Second] = "pop" /\ todo[Second] = "append" /\ oddPc[Second] = "idle"
      /\ pc \in [QueueThreads -> PingPong!PCs] /\ trash[Second] = <<>>
      /\ item \in [QueueThreads -> QueueItems \cup {NoItem}]
  BY <1>2, PingPongSetting DEF PingPongInv, PingPongTypes, CallsOfLoops, Popping
<1>4. queue = <<>> \/ Tail(queue) = <<>>
  BY <1>1, OneItem DEF NumberIsLength
<1>5. /\ PopStep(Second, pc[Second], pc'[Second], EvenQueue, EvenQueue')
      /\ item'[Second] \in {item[Second], NoItem} /\ item'[Main] = item[Main]
  BY <1>2, <1>3, EvenPopSteps
<1>6. pc' = [pc EXCEPT ![Second] = pc'[Second]]
  BY <1>2, <1>3, EvenPopMoves
<1>7. /\ QueueAwake(EvenQueue, Main, pc[Main], Second, pc[Second])
      /\ pc'[Main] = pc[Main]
      /\ EvenQueue.queue = queue
  BY <1>2, <1>3, <1>6 DEF PingPongAwake, EvenAwake, EvenQueue, QueueOf
<1>8. /\ QueueAwake(EvenQueue', Main, pc[Main], Second, pc'[Second])
      /\ LoopRank("append", "idle", pc'[Second], Second \in EvenQueue'.woken)
         < LoopRank("append", "idle", pc[Second], Second \in EvenQueue.woken)
  BY <1>2, <1>4, <1>5, <1>7, PopKeepsAwake
<1>9. EvenAwake'
  BY <1>7, <1>8 DEF EvenAwake
<1>10. OddAwake'
  BY DEF PingPongAwake, OddAwake
<1>11. PushesAreNew'
  <2>1. log' = log /\ oddLog' = oddLog
    BY <1>5 DEF PopStep, EvenQueue, OddQueue, QueueOf
  <2> QED  BY <1>5, <1>7, <2>1 DEF PingPongAwake, PushesAreNew
<1>12. LoopsEnd'
  BY DEF PingPongAwake, LoopsEnd
<1>13. PingPongRank(Main)' + PingPongRank(Second)' < PingPongRank(Main) + PingPongRank(Second)
  <2>1. EvenQueue.woken = woken /\ EvenQueue'.woken = woken' /\ oddWoken' = oddWoken
    BY DEF EvenQueue, OddQueue, QueueOf
  <2>2. /\ PingPongRank(Second) = LoopRank("append", "idle", pc[Second], Second \in woken)
        /\ PingPongRank(Second)' = LoopRank("append", "idle", pc'[Second], Second \in woken')
    BY <1>2, <1>3 DEF PingPongRank
  <2>3. PingPongRank(Main)' = PingPongRank(Main)
    BY <1>2, <1>7, <2>1 DEF PingPongRank
  <2>4. PingPongRank(Second)' < PingPongRank(Second)
    BY <1>8, <2>1, <2>2, Zenon
  <2>5. /\ PingPongRank(Main) \in Nat /\ PingPongRank(Second) \in Nat
        /\ PingPongRank(Main)' \in Nat /\ PingPongRank(Second)' \in Nat
    BY DEF PingPongRank, LoopRank
  <2> HIDE DEF PingPongRank
  <2> QED  BY <2>3, <2>4, <2>5
<1> QED  BY <1>9, <1>10, <1>11, <1>12, <1>13, PingPongRanksCount DEF PingPongAwake

\* A step of Second in its push keeps all that, and is one of those that are left.
LEMMA OddPushLeavesFewer ==
  ASSUME PingPongInv, PingPongAwake, PingPong!Odds!Step(Second), oddPc[Second] \in Pushing,
         UNCHANGED <<todo, i, sharedData, EvenQueue, pc, item>>
  PROVE  PingPongAwake' /\ PingPongLeft' < PingPongLeft
<1>1. PICK place \in 0 .. 6 : NumberIsAt(place) /\ NumberIsLength(place)
  BY DEF PingPongInv
<1>2. /\ Second \in QueueThreads /\ Main \in QueueThreads /\ Second # Main /\ Second # Nobody /\ Main # Nobody
      /\ QueueThreads = {Second, Main}
  BY PingPongSetting, TestThreadsAssumption
<1>3. /\ oddOp[Second] = "push" /\ todo[Second] \in {"pop", "stop"} /\ pc[Second] = "idle"
      /\ oddPc[Main] # "idle" => pc[Main] = "idle"
      /\ oddPc \in [QueueThreads -> PingPong!Odds!PCs] /\ oddTrash[Second] = <<>>
      /\ oddItem \in [QueueThreads -> QueueItems \cup {NoItem}]
  BY <1>2, PingPongSetting DEF PingPongInv, PingPongTypes, CallsOfLoops, Pushing
<1>4. oddSleeping \subseteq {Main} /\ oddPc[Second] # "callback" /\ Second \notin woken
  BY <1>3 DEF PingPongAwake, EvenAwake, OddAwake, QueueAwake, EvenQueue, OddQueue, QueueOf, Pushing
<1>5. /\ PushStep(Second, oddPc[Second], oddPc'[Second], oddItem[Second], OddQueue, OddQueue')
      /\ oddPc'[Second] = "idle" => oddItem'[Second] = NoItem
      /\ oddItem'[Main] = oddItem[Main]
  BY <1>2, <1>3, <1>4, OddPushSteps
<1>6. /\ oddPc' = [oddPc EXCEPT ![Second] = oddPc'[Second]]
      /\ (oddPc'[Second] # "idle" => oddItem' = oddItem)
  BY <1>2, <1>3, OddPushMoves
<1>7. /\ QueueAwake(OddQueue, Second, oddPc[Second], Main, oddPc[Main]) /\ todo[Second] \in {"pop", "stop"}
      /\ oddPc'[Main] = oddPc[Main]
  BY <1>2, <1>3, <1>6 DEF PingPongAwake, OddAwake
<1>8. /\ QueueAwake(OddQueue', Second, oddPc'[Second], Main, oddPc[Main])
      /\ LoopRank(todo[Second], oddPc'[Second], "idle", FALSE)
           + LoopRank(todo[Main], pc[Main], oddPc[Main], Main \in OddQueue'.woken)
         < LoopRank(todo[Second], oddPc[Second], "idle", FALSE)
           + LoopRank(todo[Main], pc[Main], oddPc[Main], Main \in OddQueue.woken)
  <2>1. /\ QueueAwake(OddQueue', Second, oddPc'[Second], Main, oddPc[Main])
        /\ \A s, u, d : s \in {"pop", "stop"} /\ (oddPc[Main] # "idle" => d = "idle") =>
             LoopRank(s, oddPc'[Second], "idle", FALSE) + LoopRank(u, d, oddPc[Main], Main \in OddQueue'.woken)
               < LoopRank(s, oddPc[Second], "idle", FALSE) + LoopRank(u, d, oddPc[Main], Main \in OddQueue.woken)
    BY ZenonT(40), <1>2, <1>5, <1>7, PushKeepsAwake
  <2> QED  BY <1>3, <1>7, <2>1, Zenon
<1>9. OddAwake'
  BY <1>7, <1>8 DEF OddAwake
<1>10. EvenAwake'
  BY DEF PingPongAwake, EvenAwake
<1>11. PushesAreNew'
  <2>1. oddLog' = oddLog \/ (oddLog' = Append(oddLog, oddItem[Second]) /\ oddPc[Second] = "critical")
    BY <1>5 DEF PushStep, OddQueue, QueueOf
  <2>2. log' = log
    BY DEF EvenQueue, QueueOf
  <2>3. oddPc[Second] = "critical" =>
          /\ oddItem[Second] \in Nat
          /\ oddItem[Second] < i[Second]
    <3> SUFFICES ASSUME oddPc[Second] = "critical"
                 PROVE  oddItem[Second] \in Nat /\ oddItem[Second] < i[Second]
      OBVIOUS
    <3>1. place = 3 /\ oddItem[Second] = Len(sharedData) /\ todo[Second] # "push"
      BY <1>1, <1>3 DEF NumberIsAt, NumberIsLength
    <3>2. Len(sharedData) \in Nat
      BY LenProperties DEF PingPongInv, PingPongTypes
    <3> QED  BY <1>1, <3>1, <3>2 DEF NumberIsLength
  <2>4. oddLog' \in Seq(Nat) /\ \A k \in 1 .. Len(oddLog') :
          (oddLog'[k] = oddItem[Second] /\ oddPc[Second] = "critical") \/ (k \in 1 .. Len(oddLog) /\ oddLog'[k] = oddLog[k])
    <3>1. oddLog \in Seq(Nat) /\ Len(oddLog) \in Nat
      BY LenProperties DEF PingPongAwake, PushesAreNew
    <3>2. CASE oddLog' = oddLog
      BY <3>1, <3>2
    <3>3. CASE oddLog' = Append(oddLog, oddItem[Second]) /\ oddPc[Second] = "critical"
      <4>1. /\ oddLog' \in Seq(Nat) /\ Len(oddLog') = Len(oddLog) + 1
            /\ \A k \in 1 .. Len(oddLog) : oddLog'[k] = oddLog[k]
            /\ oddLog'[Len(oddLog) + 1] = oddItem[Second]
        BY <2>3, <3>1, <3>3, Appended
      <4>2. \A k \in 1 .. Len(oddLog') : k \in 1 .. Len(oddLog) \/ k = Len(oddLog) + 1
        BY <3>1, <4>1
      <4> QED  BY <3>3, <4>1, <4>2
    <3> QED  BY <2>1, <3>2, <3>3
  <2> QED  BY <1>3, <1>5, <1>6, <1>7, <2>2, <2>3, <2>4 DEF PingPongAwake, PushesAreNew
<1>12. LoopsEnd'
  BY DEF PingPongAwake, LoopsEnd
<1>13. PingPongRank(Main)' + PingPongRank(Second)' < PingPongRank(Main) + PingPongRank(Second)
  <2>1. OddQueue.woken = oddWoken /\ OddQueue'.woken = oddWoken' /\ woken' = woken
    BY DEF EvenQueue, OddQueue, QueueOf
  <2>2. /\ PingPongRank(Second) = LoopRank(todo[Second], oddPc[Second], "idle", FALSE)
        /\ PingPongRank(Main) = LoopRank(todo[Main], pc[Main], oddPc[Main], Main \in oddWoken)
    BY <1>2, <1>3, <1>4 DEF PingPongRank, LoopRank
  <2>3. /\ PingPongRank(Second)' = LoopRank(todo[Second], oddPc'[Second], "idle", FALSE)
        /\ PingPongRank(Main)' = LoopRank(todo[Main], pc[Main], oddPc[Main], Main \in oddWoken')
    BY <1>2, <1>3, <1>4, <1>7, <2>1 DEF PingPongRank, LoopRank
  <2>4. PingPongRank(Second)' + PingPongRank(Main)' < PingPongRank(Second) + PingPongRank(Main)
    BY <1>8, <2>1, <2>2, <2>3, Zenon
  <2>5. /\ PingPongRank(Main) \in Nat /\ PingPongRank(Second) \in Nat
        /\ PingPongRank(Main)' \in Nat /\ PingPongRank(Second)' \in Nat
    BY DEF PingPongRank, LoopRank
  <2> HIDE DEF PingPongRank
  <2> QED  BY <2>4, <2>5
<1> QED  BY <1>9, <1>10, <1>11, <1>12, <1>13, PingPongRanksCount DEF PingPongAwake

\* So does a step of Main in its pop.
LEMMA OddPopLeavesFewer ==
  ASSUME PingPongInv, PingPongAwake, PingPong!Odds!Step(Main), oddPc[Main] \in Popping,
         UNCHANGED <<todo, i, sharedData, EvenQueue, pc, item>>
  PROVE  PingPongAwake' /\ PingPongLeft' < PingPongLeft
<1>1. PICK place \in 0 .. 6 : NumberIsAt(place) /\ NumberIsLength(place)
  BY DEF PingPongInv
<1>2. /\ Second \in QueueThreads /\ Main \in QueueThreads /\ Second # Main /\ Second # Nobody /\ Main # Nobody
      /\ QueueThreads = {Second, Main}
  BY PingPongSetting, TestThreadsAssumption
<1>3. /\ oddOp[Main] = "pop" /\ todo[Main] = "append" /\ pc[Main] = "idle"
      /\ oddPc \in [QueueThreads -> PingPong!Odds!PCs] /\ oddTrash[Main] = <<>>
      /\ oddItem \in [QueueThreads -> QueueItems \cup {NoItem}]
  BY <1>2, PingPongSetting DEF PingPongInv, PingPongTypes, CallsOfLoops, Popping
<1>4. oddQueue = <<>> \/ Tail(oddQueue) = <<>>
  BY <1>1, OneItem DEF NumberIsLength
<1>5. /\ PopStep(Main, oddPc[Main], oddPc'[Main], OddQueue, OddQueue')
      /\ oddItem'[Main] \in {oddItem[Main], NoItem} /\ oddItem'[Second] = oddItem[Second]
  BY <1>2, <1>3, OddPopSteps
<1>6. oddPc' = [oddPc EXCEPT ![Main] = oddPc'[Main]]
  BY <1>2, <1>3, OddPopMoves
<1>7. /\ QueueAwake(OddQueue, Second, oddPc[Second], Main, oddPc[Main])
      /\ oddPc'[Second] = oddPc[Second]
      /\ OddQueue.queue = oddQueue
  BY <1>2, <1>3, <1>6 DEF PingPongAwake, OddAwake, OddQueue, QueueOf
<1>8. /\ QueueAwake(OddQueue', Second, oddPc[Second], Main, oddPc'[Main])
      /\ LoopRank("append", "idle", oddPc'[Main], Main \in OddQueue'.woken)
         < LoopRank("append", "idle", oddPc[Main], Main \in OddQueue.woken)
  BY <1>2, <1>4, <1>5, <1>7, PopKeepsAwake
<1>9. OddAwake'
  BY <1>7, <1>8 DEF OddAwake
<1>10. EvenAwake'
  BY DEF PingPongAwake, EvenAwake
<1>11. PushesAreNew'
  <2>1. oddLog' = oddLog /\ log' = log
    BY <1>5 DEF PopStep, OddQueue, EvenQueue, QueueOf
  <2> QED  BY <1>5, <1>7, <2>1 DEF PingPongAwake, PushesAreNew
<1>12. LoopsEnd'
  BY DEF PingPongAwake, LoopsEnd
<1>13. PingPongRank(Main)' + PingPongRank(Second)' < PingPongRank(Main) + PingPongRank(Second)
  <2>1. OddQueue.woken = oddWoken /\ OddQueue'.woken = oddWoken' /\ woken' = woken
    BY DEF EvenQueue, OddQueue, QueueOf
  <2>2. /\ PingPongRank(Main) = LoopRank("append", "idle", oddPc[Main], Main \in oddWoken)
        /\ PingPongRank(Main)' = LoopRank("append", "idle", oddPc'[Main], Main \in oddWoken')
    BY <1>2, <1>3 DEF PingPongRank
  <2>3. PingPongRank(Second)' = PingPongRank(Second)
    BY <1>2, <1>7, <2>1 DEF PingPongRank
  <2>4. PingPongRank(Main)' < PingPongRank(Main)
    BY <1>8, <2>1, <2>2, Zenon
  <2>5. /\ PingPongRank(Main) \in Nat /\ PingPongRank(Second) \in Nat
        /\ PingPongRank(Main)' \in Nat /\ PingPongRank(Second)' \in Nat
    BY DEF PingPongRank, LoopRank
  <2> HIDE DEF PingPongRank
  <2> QED  BY <2>3, <2>4, <2>5
<1> QED  BY <1>9, <1>10, <1>11, <1>12, <1>13, PingPongRanksCount DEF PingPongAwake

\* A step between the calls keeps all that too, and is one of those that are left.
LEMMA BetweenLeavesFewer ==
  ASSUME PingPongInv, PingPongAwake, NEW t \in QueueThreads,
         \/ PingPong!PushBack(t) \/ PingPong!PopFront(t)
         \/ PingPong!BeginAppend(t) \/ PingPong!EndAppend(t)
  PROVE  PingPongAwake' /\ PingPongLeft' < PingPongLeft
<1>1. PICK place \in 0 .. 6 : NumberIsAt(place) /\ NumberIsLength(place)
  BY DEF PingPongInv
<1>2. /\ PingPongTypes /\ CallsOfLoops /\ t \in {Main, Second} /\ Main # Second
      /\ QueueThreads = {Main, Second}
  BY PingPongSetting DEF PingPongInv
<1>3. LoopEnd \in Nat /\ LoopEnd % 2 = 0 /\ Len(sharedData) \in Nat
  <2>1. LoopEnd \in Nat /\ LoopEnd % 2 = 0
    BY MaxNumberAssumption DEF LoopEnd
  <2> QED  BY <1>2, <2>1, LenProperties DEF PingPongTypes
<1>4. /\ pc[Main] = "idle" <=> pc[Main] \notin Pushing
      /\ pc[t] = "idle" => t \notin woken
      /\ oddPc[t] = "idle" => t \notin oddWoken
  BY <1>2 DEF PingPongAwake, EvenAwake, OddAwake, QueueAwake, EvenQueue, OddQueue, QueueOf, Pushing
<1>5. /\ PingPongRank(Main) \in Nat /\ PingPongRank(Second) \in Nat
      /\ PingPongRank(Main)' \in Nat /\ PingPongRank(Second)' \in Nat
  BY DEF PingPongRank, LoopRank
<1>6. ASSUME NEW u \in QueueThreads, u # t, PingPongRank(u)' = PingPongRank(u),
             PingPongRank(t)' < PingPongRank(t), sharedData' = sharedData
      PROVE  PingPongLeft' < PingPongLeft
  <2>1. (t = Main /\ u = Second) \/ (t = Second /\ u = Main)
    BY <1>2, <1>6
  <2>2. PingPongRank(Main)' + PingPongRank(Second)' < PingPongRank(Main) + PingPongRank(Second)
    <3> HIDE DEF PingPongRank
    <3> QED  BY <1>5, <1>6, <2>1
  <2> QED  BY <1>6, <2>2, PingPongRanksCount
<1>7. CASE PingPong!PushBack(t)
  <2>1. /\ todo[t] = "push" /\ pc[t] = "idle" /\ oddPc[t] = "idle" /\ sharedData' = sharedData
        /\ \/ t = Main /\ PingPong!CallPush(t, i[t]) /\ PingPong!Then(t, "pop")
              /\ UNCHANGED <<PingPong!oddVars, i>>
           \/ t = Second /\ PingPong!Odds!CallPush(t, i[t]) /\ PingPong!NextRound(t, "pop")
              /\ UNCHANGED PingPong!vars
    BY <1>7 DEF PingPong!PushBack, PingPong!Runs
  <2>2. CASE t = Main
    <3>1. /\ pc' = [pc EXCEPT ![t] = "lock"] /\ item' = [item EXCEPT ![t] = i[t]]
          /\ todo' = [todo EXCEPT ![t] = "pop"]
          /\ UNCHANGED <<owner, sleeping, woken, queue, log, oddOwner, oddSleeping, oddWoken,
                         oddQueue, oddLog, oddPc, oddItem, i>>
      BY <1>2, <2>1, <2>2 DEF PingPong!CallPush, PingPong!Enter, PingPong!GoTo, PingPong!Then,
         PingPong!oddVars, PingPong!monitorVars
    <3>2. /\ pc'[Main] = "lock" /\ pc'[Second] = pc[Second]
          /\ todo'[Main] = "pop" /\ todo'[Second] = todo[Second] /\ item'[Second] = item[Second]
      BY <1>2, <2>2, <3>1 DEF PingPongTypes
    <3>3. EvenAwake' /\ OddAwake'
      BY <2>1, <2>2, <3>1, <3>2 DEF PingPongAwake, EvenAwake, OddAwake, QueueAwake, EvenQueue,
         OddQueue, QueueOf
    <3>4. PushesAreNew'
      BY <2>1, <2>2, <3>1, <3>2 DEF PingPongAwake, PushesAreNew
    <3>5. LoopsEnd'
      BY <2>1, <2>2, <3>1, <3>2 DEF PingPongAwake, LoopsEnd
    <3>6. PingPongRank(Main) = 12 /\ PingPongRank(Main)' = 11
      BY <1>4, <2>1, <2>2, <3>2 DEF PingPongRank, LoopRank
    <3>7. PingPongRank(Second)' = PingPongRank(Second)
      BY <1>2, <3>1, <3>2 DEF PingPongRank
    <3> QED  BY <1>2, <1>6, <2>1, <2>2, <3>3, <3>4, <3>5, <3>6, <3>7 DEF PingPongAwake
  <2>3. CASE t = Second
    <3> PICK next : next = IF i[t] + 2 < LoopEnd THEN "pop" ELSE "stop"
      OBVIOUS
    <3>1. /\ oddPc' = [oddPc EXCEPT ![t] = "lock"] /\ oddItem' = [oddItem EXCEPT ![t] = i[t]]
          /\ todo' = [todo EXCEPT ![t] = next] /\ i' = [i EXCEPT ![t] = @ + 2]
          /\ UNCHANGED <<owner, sleeping, woken, queue, log, oddOwner, oddSleeping, oddWoken,
                         oddQueue, oddLog, pc, item>>
      BY <1>2, <2>1, <2>3 DEF PingPong!Odds!CallPush, PingPong!Odds!Enter, PingPong!Odds!GoTo,
         PingPong!NextRound, PingPong!Then, PingPong!vars, PingPong!monitorVars,
         PingPong!callVars, PingPong!Odds!monitorVars
    <3>2. /\ oddPc'[Second] = "lock" /\ oddPc'[Main] = oddPc[Main]
          /\ todo'[Second] = next /\ todo'[Main] = todo[Main] /\ oddItem'[Main] = oddItem[Main]
          /\ i'[Second] = i[Second] + 2 /\ i'[Main] = i[Main] /\ i[Second] \in Nat
      BY <1>2, <2>3, <3>1 DEF PingPongTypes
    <3>3. EvenAwake' /\ OddAwake'
      BY <2>1, <2>3, <3>1, <3>2 DEF PingPongAwake, EvenAwake, OddAwake, QueueAwake, EvenQueue,
         OddQueue, QueueOf
    <3>4. PushesAreNew'
      <4>1. \A k \in 1 .. Len(oddLog) : oddLog[k] < i[Second] + 2
        <5> SUFFICES ASSUME NEW k \in 1 .. Len(oddLog) PROVE oddLog[k] < i[Second] + 2
          OBVIOUS
        <5>1. oddLog[k] \in Nat /\ oddLog[k] < i[Second]
          BY ElementOfSeq DEF PingPongAwake, PushesAreNew
        <5> QED  BY <3>2, <5>1
      <4> QED  BY <2>1, <2>3, <3>1, <3>2, <4>1 DEF PingPongAwake, PushesAreNew
    <3>5. LoopsEnd'
      <4>1. todo[Main] # "stop"
        BY <1>1, <2>1, <2>3 DEF NumberIsAt
      <4>2. i[Second] % 2 = 1 /\ i[Second] \in Nat
        BY <3>2 DEF PingPongAwake, LoopsEnd
      <4>3. (i[Second] + 2) % 2 = 1
        BY <4>2
      <4>4. i[Second] + 2 < LoopEnd \/ i[Second] + 2 > LoopEnd
        BY <1>3, <4>2, <4>3
      <4>5. next = "stop" <=> i[Second] + 2 > LoopEnd
        BY <1>3, <2>3, <4>2, <4>4
      <4> QED  BY <2>1, <3>2, <4>1, <4>3, <4>5 DEF PingPongAwake, LoopsEnd
    <3>6. PingPongRank(Second) = 12 /\ PingPongRank(Second)' = 11
      BY <1>2, <1>4, <2>1, <2>3, <3>2 DEF PingPongRank, LoopRank
    <3>7. PingPongRank(Main)' = PingPongRank(Main)
      BY <3>1, <3>2 DEF PingPongRank
    <3> QED  BY <1>2, <1>6, <2>1, <2>3, <3>3, <3>4, <3>5, <3>6, <3>7 DEF PingPongAwake
  <2> QED  BY <1>2, <2>2, <2>3
<1>8. CASE PingPong!PopFront(t)
  <2>1. /\ todo[t] = "pop" /\ pc[t] = "idle" /\ oddPc[t] = "idle"
        /\ UNCHANGED <<i, sharedData>>
        /\ todo' = [todo EXCEPT ![t] = "append"]
        /\ \/ t = Main /\ PingPong!Odds!CallOther(t, "pop") /\ UNCHANGED PingPong!vars
           \/ t = Second /\ PingPong!CallOther(t, "pop") /\ UNCHANGED PingPong!oddVars
    BY <1>8 DEF PingPong!PopFront, PingPong!Runs, PingPong!Then
  <2>2. CASE t = Main
    <3>1. /\ oddPc' = [oddPc EXCEPT ![t] = "lock"] /\ oddItem' = [oddItem EXCEPT ![t] = NoItem]
          /\ UNCHANGED <<owner, sleeping, woken, queue, log, oddOwner, oddSleeping, oddWoken,
                         oddQueue, oddLog, pc, item>>
      BY <1>2, <2>1, <2>2 DEF PingPong!Odds!CallOther, PingPong!Odds!Enter, PingPong!Odds!GoTo,
         PingPong!vars, PingPong!monitorVars, PingPong!callVars, PingPong!Odds!monitorVars
    <3>2. /\ oddPc'[Main] = "lock" /\ oddPc'[Second] = oddPc[Second]
          /\ todo'[Main] = "append" /\ todo'[Second] = todo[Second]
          /\ oddItem'[Second] = oddItem[Second] /\ oddItem'[Main] = NoItem
      BY <1>2, <2>2, <3>1, <2>1 DEF PingPongTypes
    <3>3. EvenAwake' /\ OddAwake'
      BY <2>1, <2>2, <3>1, <3>2 DEF PingPongAwake, EvenAwake, OddAwake, QueueAwake, EvenQueue,
         OddQueue, QueueOf
    <3>4. PushesAreNew' /\ LoopsEnd'
      BY <2>1, <2>2, <3>1, <3>2 DEF PingPongAwake, PushesAreNew, LoopsEnd
    <3>5. PingPongRank(Main) = 5 /\ PingPongRank(Main)' = 4
      BY <1>4, <2>1, <2>2, <3>1, <3>2 DEF PingPongRank, LoopRank
    <3>6. PingPongRank(Second)' = PingPongRank(Second)
      BY <1>2, <3>1, <3>2 DEF PingPongRank
    <3> QED  BY <1>2, <1>6, <2>1, <2>2, <3>3, <3>4, <3>5, <3>6 DEF PingPongAwake
  <2>3. CASE t = Second
    <3>1. /\ pc' = [pc EXCEPT ![t] = "lock"] /\ item' = [item EXCEPT ![t] = NoItem]
          /\ UNCHANGED <<owner, sleeping, woken, queue, log, oddOwner, oddSleeping, oddWoken,
                         oddQueue, oddLog, oddPc, oddItem>>
      BY <1>2, <2>1, <2>3 DEF PingPong!CallOther, PingPong!Enter, PingPong!GoTo,
         PingPong!oddVars, PingPong!monitorVars
    <3>2. /\ pc'[Second] = "lock" /\ pc'[Main] = pc[Main]
          /\ todo'[Second] = "append" /\ todo'[Main] = todo[Main]
          /\ item'[Main] = item[Main] /\ item'[Second] = NoItem
      BY <1>2, <2>3, <3>1, <2>1 DEF PingPongTypes
    <3>3. EvenAwake' /\ OddAwake'
      BY <2>1, <2>3, <3>1, <3>2 DEF PingPongAwake, EvenAwake, OddAwake, QueueAwake, EvenQueue,
         OddQueue, QueueOf
    <3>4. PushesAreNew' /\ LoopsEnd'
      BY <2>1, <2>3, <3>1, <3>2 DEF PingPongAwake, PushesAreNew, LoopsEnd
    <3>5. PingPongRank(Second) = 5 /\ PingPongRank(Second)' = 4
      BY <1>2, <1>4, <2>1, <2>3, <3>1, <3>2 DEF PingPongRank, LoopRank
    <3>6. PingPongRank(Main)' = PingPongRank(Main)
      BY <3>1, <3>2 DEF PingPongRank
    <3> QED  BY <1>2, <1>6, <2>1, <2>3, <3>3, <3>4, <3>5, <3>6 DEF PingPongAwake
  <2> QED  BY <1>2, <2>2, <2>3
<1>9. CASE PingPong!BeginAppend(t)
  <2>1. /\ todo[t] = "append" /\ pc[t] = "idle" /\ oddPc[t] = "idle"
        /\ todo' = [todo EXCEPT ![t] = "appending"]
        /\ UNCHANGED <<PingPong!vars, PingPong!oddVars, i, sharedData>>
    BY <1>9 DEF PingPong!BeginAppend, PingPong!Runs, PingPong!Then
  <2>2. UNCHANGED <<owner, sleeping, woken, queue, log, pc, item, oddOwner, oddSleeping, oddWoken,
                    oddQueue, oddLog, oddPc, oddItem>>
    BY <2>1 DEF PingPong!vars, PingPong!monitorVars, PingPong!callVars, PingPong!oddVars
  <2>3. todo'[t] = "appending" /\ \A u \in QueueThreads \ {t} : todo'[u] = todo[u]
    BY <1>2, <2>1 DEF PingPongTypes
  <2>4. EvenAwake' /\ OddAwake' /\ PushesAreNew' /\ LoopsEnd'
    BY <1>2, <2>1, <2>2, <2>3 DEF PingPongAwake, EvenAwake, OddAwake, EvenQueue, OddQueue, QueueOf,
       PushesAreNew, LoopsEnd
  <2>5. PingPongRank(t) = 1 /\ PingPongRank(t)' = 0
    BY <1>2, <1>4, <2>1, <2>2, <2>3 DEF PingPongRank, LoopRank
  <2>6. \A u \in QueueThreads \ {t} : PingPongRank(u)' = PingPongRank(u)
    BY <1>2, <2>2, <2>3 DEF PingPongRank
  <2> QED  BY <1>2, <1>6, <2>1, <2>4, <2>5, <2>6 DEF PingPongAwake
<1>10. CASE PingPong!EndAppend(t)
  <2> PICK n : n = Len(sharedData)
    OBVIOUS
  <2>1. /\ todo[t] = "appending" /\ sharedData' = Append(sharedData, PingPong!ToAdd(t))
        /\ UNCHANGED <<PingPong!vars, PingPong!oddVars>>
    BY <1>10 DEF PingPong!EndAppend
  <2>2. UNCHANGED <<owner, sleeping, woken, queue, log, pc, item, oddOwner, oddSleeping, oddWoken,
                    oddQueue, oddLog, oddPc, oddItem>>
    BY <2>1 DEF PingPong!vars, PingPong!monitorVars, PingPong!callVars, PingPong!oddVars
  <2>3. /\ pc[t] = "idle" /\ oddPc[t] = "idle"
        /\ place = IF t = Main THEN 5 ELSE 2
    BY <1>1, <1>2, <2>1 DEF CallsOfLoops, NumberIsAt
  <2>4. PingPong!ToAdd(t) = n
    BY <1>1, <1>2, <2>3 DEF PingPong!ToAdd, NumberIsLength
  <2>5. Len(sharedData') = n + 1 /\ n \in Nat
    <3>1. sharedData \in Seq(Nat) /\ n \in Nat
      BY <1>2, <1>3 DEF PingPongTypes
    <3> QED  BY <2>1, <2>4, <3>1, Appended
  <2>6. todo[Main] # "stop" /\ i[Main] \in Nat /\ i[Second] \in Nat
    BY <1>1, <1>2, <2>3 DEF NumberIsAt, PingPongTypes
  <2>7. i[Main] < LoopEnd /\ i[Main] % 2 = 0
    BY <1>3, <2>6 DEF PingPongAwake, LoopsEnd
  <2>8. EvenAwake' /\ OddAwake'
    BY <2>2 DEF PingPongAwake, EvenAwake, OddAwake, EvenQueue, OddQueue, QueueOf
  <2>9. ASSUME NEW u \in QueueThreads, u # t, PingPongRank(u)' = PingPongRank(u),
               PingPongRank(t) = 0, PingPongRank(t)' \in {0, 12}
        PROVE  PingPongLeft' < PingPongLeft
    <3>1. (t = Main /\ u = Second) \/ (t = Second /\ u = Main)
      BY <1>2, <2>9
    <3>2. PingPongLeft' = 13 * (LoopEnd - (n + 1)) + PingPongRank(Main)' + PingPongRank(Second)'
      BY <2>5 DEF PingPongLeft
    <3>3. PingPongLeft = 13 * (LoopEnd - n) + PingPongRank(Main) + PingPongRank(Second)
      BY DEF PingPongLeft
    <3>4. PingPongRank(Main)' + PingPongRank(Second)' <= PingPongRank(Main) + PingPongRank(Second) + 12
      <4> HIDE DEF PingPongRank
      <4> QED  BY <1>5, <2>9, <3>1
    <3> HIDE DEF PingPongRank, PingPongLeft, LoopEnd
    <3> QED  BY SMTT(30), <1>3, <1>5, <2>5, <3>2, <3>3, <3>4
  <2>10. CASE t = Main
    <3> PICK next : next = IF i[t] + 2 < LoopEnd THEN "push" ELSE "stop"
      OBVIOUS
    <3>1. /\ i' = [i EXCEPT ![t] = @ + 2] /\ todo' = [todo EXCEPT ![t] = next]
          /\ next \in {"push", "stop"}
      BY <1>10, <2>10 DEF PingPong!EndAppend, PingPong!NextRound, PingPong!Then
    <3>2. /\ i'[Main] = i[Main] + 2 /\ i'[Second] = i[Second]
          /\ todo'[Main] = next /\ todo'[Second] = todo[Second]
      BY <1>2, <2>10, <3>1 DEF PingPongTypes
    <3>3. PushesAreNew'
      <4>1. \A k \in 1 .. Len(log) : log[k] < i[Main] + 2
        <5> SUFFICES ASSUME NEW k \in 1 .. Len(log) PROVE log[k] < i[Main] + 2
          OBVIOUS
        <5>1. log[k] \in Nat /\ log[k] <= i[Main]
          BY ElementOfSeq DEF PingPongAwake, PushesAreNew
        <5> QED  BY <2>6, <5>1
      <4>2. \A k \in 1 .. Len(log) : log[k] <= i[Main] + 2
        <5> SUFFICES ASSUME NEW k \in 1 .. Len(log) PROVE log[k] <= i[Main] + 2
          OBVIOUS
        <5>1. log[k] \in Nat /\ log[k] <= i[Main]
          BY ElementOfSeq DEF PingPongAwake, PushesAreNew
        <5> QED  BY <2>6, <5>1
      <4> QED  BY <2>2, <3>2, <4>1, <4>2 DEF PingPongAwake, PushesAreNew
    <3>4. LoopsEnd'
      <4>1. i[Main] + 1 = n /\ i[Second] = n + 2
        BY <1>1, <2>3, <2>10 DEF NumberIsLength
      <4>2. (i[Main] + 2) % 2 = 0 /\ i[Main] + 2 <= LoopEnd
        BY <1>3, <2>6, <2>7
      <4>3. next = "stop" <=> i[Main] + 2 = LoopEnd
        BY <1>3, <2>6, <2>10, <4>2
      <4>4. n + 1 <= LoopEnd /\ (next = "stop" => n + 1 = LoopEnd /\ i[Second] = LoopEnd + 1)
        BY <1>3, <2>5, <2>6, <4>1, <4>2, <4>3
      <4> QED  BY <2>5, <3>2, <4>2, <4>3, <4>4 DEF PingPongAwake, LoopsEnd
    <3>5. PingPongRank(t) = 0 /\ PingPongRank(t)' \in {0, 12}
      BY <1>4, <2>1, <2>2, <2>3, <2>10, <3>1, <3>2 DEF PingPongRank, LoopRank
    <3>6. PingPongRank(Second)' = PingPongRank(Second)
      BY <1>2, <2>2, <3>2 DEF PingPongRank
    <3> QED  BY <1>2, <2>8, <2>9, <2>10, <3>3, <3>4, <3>5, <3>6 DEF PingPongAwake
  <2>11. CASE t = Second
    <3>1. i' = i /\ todo' = [todo EXCEPT ![t] = "push"]
      BY <1>2, <1>10, <2>11 DEF PingPong!EndAppend, PingPong!Then
    <3>2. todo'[Second] = "push" /\ todo'[Main] = todo[Main]
      BY <1>2, <2>11, <3>1 DEF PingPongTypes
    <3>3. PushesAreNew'
      BY <2>2, <3>1, <3>2 DEF PingPongAwake, PushesAreNew
    <3>4. LoopsEnd'
      <4>1. i[Main] = n
        BY <1>1, <1>2, <2>3, <2>11 DEF NumberIsLength
      <4>2. n + 1 <= LoopEnd
        BY <1>3, <2>5, <2>7, <4>1
      <4> QED  BY <2>1, <2>5, <2>6, <2>11, <3>1, <3>2, <4>2 DEF PingPongAwake, LoopsEnd
    <3>5. PingPongRank(t) = 0 /\ PingPongRank(t)' = 12
      BY <1>2, <1>4, <2>1, <2>2, <2>3, <2>11, <3>2 DEF PingPongRank, LoopRank
    <3>6. PingPongRank(Main)' = PingPongRank(Main)
      BY <2>2, <3>2 DEF PingPongRank
    <3> QED  BY <1>2, <2>8, <2>9, <2>11, <3>3, <3>4, <3>5, <3>6 DEF PingPongAwake
  <2> QED  BY <1>2, <2>10, <2>11
<1> QED  BY <1>7, <1>8, <1>9, <1>10

\* Every step keeps all that, and is one of those that are left.
LEMMA PingPongStepLeavesFewer ==
  ASSUME PingPongInv, PingPongAwake, NEW t \in QueueThreads, PingPong!PingPongStep(t)
  PROVE  PingPongAwake' /\ PingPongLeft' < PingPongLeft
<1>1. CASE PingPong!Inside(t)
  <2>1. UNCHANGED <<todo, i, sharedData>>
    BY <1>1 DEF PingPong!Inside, PingPong!testVars
  <2>2. CASE PingPong!Step(t) /\ UNCHANGED PingPong!oddVars
    <3>1. pc[t] # "idle" /\ UNCHANGED <<OddQueue, oddPc, oddItem>>
      BY <2>2, StepsAreInCalls DEF PingPong!oddVars, OddQueue, QueueOf
    <3> QED  BY <2>1, <2>2, <3>1, PingPongSetting, EvenPushLeavesFewer, EvenPopLeavesFewer
             DEF PingPongInv, CallsOfLoops
  <2>3. CASE PingPong!Odds!Step(t) /\ UNCHANGED PingPong!vars
    <3>1. oddPc[t] # "idle" /\ UNCHANGED <<EvenQueue, pc, item>>
      BY <2>3, StepsAreInCalls DEF PingPong!vars, PingPong!monitorVars, PingPong!callVars,
         EvenQueue, QueueOf
    <3> QED  BY <2>1, <2>3, <3>1, PingPongSetting, OddPushLeavesFewer, OddPopLeavesFewer
             DEF PingPongInv, CallsOfLoops
  <2> QED  BY <1>1, <2>2, <2>3 DEF PingPong!Inside
<1> QED  BY <1>1, BetweenLeavesFewer DEF PingPong!PingPongStep

\* The number that a thread is about to push is one the queue has not had.
LEMMA PushesAreFresh ==
  ASSUME PingPongInv, PingPongAwake
  PROVE  /\ todo[Main] = "push" => i[Main] \in PingPong!Fresh
         /\ todo[Second] = "push" => i[Second] \in PingPong!Odds!Fresh
<1>1. /\ i \in [QueueThreads -> Nat] /\ QueueThreads = {Main, Second}
      /\ LoopEnd \in Nat /\ LoopEnd % 2 = 0 /\ QueueItems = 0 .. LoopEnd - 1
  BY MaxNumberAssumption, PingPongSetting DEF PingPongInv, PingPongTypes, LoopEnd, QueueItems
<1>2. ASSUME todo[Main] = "push" PROVE i[Main] \in PingPong!Fresh
  <2>1. i[Main] \in QueueItems
    BY <1>1, <1>2 DEF PingPongAwake, LoopsEnd
  <2>2. \A k \in 1 .. Len(log) : log[k] # i[Main]
    <3> SUFFICES ASSUME NEW k \in 1 .. Len(log) PROVE log[k] # i[Main]
      OBVIOUS
    <3>1. log[k] \in Nat /\ log[k] < i[Main]
      BY <1>2, ElementOfSeq DEF PingPongAwake, PushesAreNew
    <3> QED  BY <1>1, <3>1
  <2>3. \A u \in QueueThreads : item[u] # i[Main]
    <3>1. item[Main] = NoItem /\ item[Second] = NoItem
      BY <1>2 DEF PingPongInv, CallsOfLoops, PingPongAwake, PushesAreNew
    <3> QED  BY <1>1, <2>1, <3>1, NoItemAssumption
  <2> QED  BY <2>1, <2>2, <2>3 DEF PingPong!Fresh, PingPong!Queued
<1>3. ASSUME todo[Second] = "push" PROVE i[Second] \in PingPong!Odds!Fresh
  <2>1. i[Second] \in QueueItems
    <3>1. i[Second] \in Nat /\ i[Second] <= LoopEnd /\ i[Second] % 2 = 1
      BY <1>1, <1>3 DEF PingPongAwake, LoopsEnd
    <3> QED  BY <1>1, <3>1
  <2>2. \A k \in 1 .. Len(oddLog) : oddLog[k] # i[Second]
    <3> SUFFICES ASSUME NEW k \in 1 .. Len(oddLog) PROVE oddLog[k] # i[Second]
      OBVIOUS
    <3>1. oddLog[k] \in Nat /\ oddLog[k] < i[Second]
      BY ElementOfSeq DEF PingPongAwake, PushesAreNew
    <3> QED  BY <1>1, <3>1
  <2>3. \A u \in QueueThreads : oddItem[u] # i[Second]
    <3>1. oddItem[Main] = NoItem /\ oddItem[Second] = NoItem
      BY <1>3 DEF PingPongInv, CallsOfLoops, PingPongAwake, PushesAreNew
    <3> QED  BY <1>1, <2>1, <3>1, NoItemAssumption
  <2> QED  BY <2>1, <2>2, <2>3 DEF PingPong!Odds!Fresh, PingPong!Odds!Queued
<1> QED  BY <1>2, <1>3

\* While one of the two has not ended, one of them can go on, and when both have,
\* everything is written.
LEMMA PingPongDoesNotStick ==
  ASSUME PingPongInv, PingPongAwake
  PROVE  PingPong!AllWritten \/ \E t \in QueueThreads : PingPongMoves(t)
<1> SUFFICES ASSUME \A t \in QueueThreads : ~PingPongMoves(t)
             PROVE  PingPong!AllWritten
  OBVIOUS
<1>1. PICK place \in 0 .. 6 : NumberIsAt(place) /\ NumberIsLength(place)
  BY DEF PingPongInv
<1>2. /\ QueueThreads = {Main, Second} /\ Main # Second
      /\ todo \in [QueueThreads -> {"push", "pop", "append", "appending", "stop"}]
  BY PingPongSetting DEF PingPongInv, PingPongTypes
<1>3. \A t \in QueueThreads : pc[t] = "idle" /\ oddPc[t] = "idle" => todo[t] = "stop"
  BY <1>2, PushesAreFresh DEF PingPongMoves
<1>4. \A t \in QueueThreads :
        /\ pc[t] \notin {"critical", "notify", "returning"}
        /\ oddPc[t] \notin {"critical", "notify", "returning"}
        /\ ~((pc[t] = "lock" \/ t \in woken) /\ owner = Nobody)
        /\ ~((oddPc[t] = "lock" \/ t \in oddWoken) /\ oddOwner = Nobody)
  BY DEF PingPongMoves
<1>5. /\ pc[Main] = "idle"
      /\ pc[Second] = "idle" \/ (Second \in sleeping /\ queue = <<>>)
  BY <1>2, <1>4 DEF PingPongAwake, EvenAwake, QueueAwake, EvenQueue, QueueOf
<1>6. /\ oddPc[Second] = "idle"
      /\ oddPc[Main] = "idle" \/ (Main \in oddSleeping /\ oddQueue = <<>>)
  BY <1>2, <1>4 DEF PingPongAwake, OddAwake, QueueAwake, OddQueue, QueueOf
<1>7. /\ pc[Second] # "idle" => todo[Second] = "append"
      /\ oddPc[Main] # "idle" => todo[Main] = "append"
  BY DEF PingPongInv, CallsOfLoops
<1>8. place # 0 /\ place # 2 /\ place # 3 /\ place # 5
  BY <1>1, <1>2, <1>3, <1>5, <1>6, <1>7 DEF NumberIsAt
<1>9. place # 1
  <2> SUFFICES ASSUME place = 1 PROVE FALSE
    OBVIOUS
  <2>1. todo[Second] = "stop" /\ todo[Main] # "stop"
    BY <1>1, <1>2, <1>3, <1>5, <1>6 DEF NumberIsAt
  <2>2. i[Main] = Len(sharedData) /\ i[Second] = Len(sharedData) + 1
    BY <1>1 DEF NumberIsLength
  <2>3. LoopEnd \in Nat /\ Len(sharedData) \in Nat
    BY LenProperties, MaxNumberAssumption DEF PingPongInv, PingPongTypes, LoopEnd
  <2>4. i[Second] > LoopEnd /\ i[Main] <= LoopEnd /\ i[Main] # LoopEnd
    BY <2>1 DEF PingPongAwake, LoopsEnd
  <2> QED  BY <2>2, <2>3, <2>4
<1>10. place # 4
  BY <1>1, <1>2, <1>3, <1>5, <1>6 DEF NumberIsAt
<1>11. place = 6
  BY <1>8, <1>9, <1>10
<1>12. todo[Main] = "stop" /\ queue = <<>> /\ oddQueue = <<>>
  BY <1>1, <1>11 DEF NumberIsAt
<1>13. Len(sharedData) = LoopEnd /\ todo[Second] = "stop"
  <2>1. LoopEnd \in Nat
    BY MaxNumberAssumption DEF LoopEnd
  <2> QED  BY <1>12, <2>1 DEF PingPongAwake, LoopsEnd
<1> QED  BY <1>2, <1>5, <1>6, <1>7, <1>12, <1>13 DEF PingPong!AllWritten, PingPong!Runs

\* It is so at the beginning, and stays so while nothing happens.
LEMMA PingPongInitAwake ==
  ASSUME PingPong!PingPongInit
  PROVE  PingPongAwake
<1>1. /\ PingPong!Init /\ PingPong!Odds!Init
      /\ todo = [t \in QueueThreads |-> IF t = Main THEN "push" ELSE "pop"]
      /\ i = [t \in QueueThreads |-> IF t = Main THEN 0 ELSE 1]
      /\ sharedData = <<>>
  BY DEF PingPong!PingPongInit
<1>2. /\ queue = <<>> /\ log = <<>> /\ owner = Nobody /\ sleeping = {} /\ woken = {}
      /\ pc = [t \in QueueThreads |-> "idle"] /\ item = [t \in QueueThreads |-> NoItem]
  BY <1>1 DEF PingPong!Init, PingPong!MonitorInit
<1>3. /\ oddQueue = <<>> /\ oddLog = <<>> /\ oddOwner = Nobody /\ oddSleeping = {} /\ oddWoken = {}
      /\ oddPc = [t \in QueueThreads |-> "idle"] /\ oddItem = [t \in QueueThreads |-> NoItem]
  BY <1>1 DEF PingPong!Odds!Init, PingPong!Odds!MonitorInit
<1>4. EvenAwake /\ OddAwake
  BY <1>2, <1>3, PingPongSetting, TestThreadsAssumption DEF EvenAwake, OddAwake, QueueAwake,
     EvenQueue, OddQueue, QueueOf
<1>5. PushesAreNew
  BY <1>1, <1>2, <1>3, PingPongSetting DEF PushesAreNew
<1>6. LoopsEnd
  <2>1. LoopEnd \in Nat /\ LoopEnd >= 2
    BY MaxNumberAssumption DEF LoopEnd
  <2>2. i[Main] = 0 /\ i[Second] = 1 /\ todo[Main] = "push" /\ todo[Second] = "pop"
        /\ Len(sharedData) = 0
    BY <1>1, PingPongSetting
  <2> QED  BY <2>1, <2>2 DEF LoopsEnd
<1> QED  BY <1>4, <1>5, <1>6 DEF PingPongAwake

LEMMA PingPongAwakeStays ==
  ASSUME PingPongAwake, UNCHANGED <<PingPong!vars, PingPong!oddVars, PingPong!testVars>>
  PROVE  PingPongAwake'
BY DEF PingPong!vars, PingPong!callVars, PingPong!monitorVars, PingPong!oddVars,
   PingPong!testVars, PingPongAwake, EvenAwake, OddAwake, EvenQueue, OddQueue, QueueOf,
   PushesAreNew, LoopsEnd

-----------------------------------------------------------------------------
\* The program that runs one of the tests: the objects of the others rest.
TestsInv ==
  /\ test = "interleaved_atomic_data" => TurnsInv
  /\ test = "atomic_data_notify_all" => GateInv
  /\ test = "interleaved_data" => PingPongInv
  /\ test # "interleaved_atomic_data" => allData = <<>>

\* Every behaviour of the tests keeps the invariant of the one that is run.
LEMMA TestsInvHolds == TestsSpec => []TestsInv
<1>1. TestsInit => TestsInv
  BY TurnsInitInv, GateInitInv, PingPongInitInv, Zenon DEF TestsInit, TestsInv
<1>2. TestsInv /\ [TestsNext]_testVars => TestsInv'
  <2> SUFFICES ASSUME TestsInv, [TestsNext]_testVars
               PROVE  TestsInv'
    OBVIOUS
  <2>1. ASSUME NEW t \in TurnThreads, StepOfTurns(t) PROVE TestsInv'
    <3>1. test' = test /\ test = "interleaved_atomic_data" /\ Turns!TurnsStep(t)
      BY <2>1 DEF StepOfTurns
    <3>2. TurnsInv'
      BY <3>1, TurnsStepPreservesInv DEF TestsInv
    <3> QED  BY <3>1, <3>2 DEF TestsInv
  <2>2. ASSUME NEW t \in GateThreads, StepOfGate(t) PROVE TestsInv'
    <3>1. /\ test' = test /\ test = "atomic_data_notify_all" /\ Gate!GateStep(t)
          /\ allData' = allData
      BY <2>2 DEF StepOfGate
    <3>2. GateInv'
      BY <3>1, GateStepPreservesInv DEF TestsInv
    <3> QED  BY <3>1, <3>2 DEF TestsInv
  <2>3. ASSUME NEW t \in QueueThreads, StepOfPingPong(t) PROVE TestsInv'
    <3>1. /\ test' = test /\ test = "interleaved_data" /\ PingPong!PingPongStep(t)
          /\ allData' = allData
      BY <2>3 DEF StepOfPingPong, dataVars
    <3>2. PingPongInv'
      BY <3>1, InsidePreservesInv, BetweenPreservesInv DEF TestsInv, PingPong!PingPongStep
    <3> QED  BY <3>1, <3>2 DEF TestsInv
  <2>4. CASE UNCHANGED testVars
    <3>1. test' = test /\ allData' = allData
      BY <2>4 DEF testVars, dataVars
    <3>2. /\ UNCHANGED <<TurnData!vars, todo, allData>> /\ UNCHANGED <<GateData!vars, todo>>
          /\ UNCHANGED <<PingPong!vars, PingPong!oddVars, PingPong!testVars>>
      BY <2>4 DEF testVars, dataVars, queueVars, TurnData!vars, TurnData!callVars,
         TurnData!monitorVars, GateData!vars, GateData!callVars, GateData!monitorVars,
         PingPong!vars, PingPong!callVars, PingPong!monitorVars, PingPong!oddVars,
         PingPong!testVars
    <3> QED  BY <3>1, <3>2, TurnsInvStays, GateInvStays, PingPongInvStays DEF TestsInv
  <2> QED  BY <2>1, <2>2, <2>3, <2>4, Zenon DEF TestsNext
<1> QED  BY <1>1, <1>2, PTL DEF TestsSpec

\* interleaved_atomic_data: the numbers are written in order, each by the
\* thread whose turn it was, for whatever odd number the two threads stop at.
THEOREM NumbersComeInOrder == TestsSpec => []InOrder
<1>1. TurnsInv => Turns!InOrder
  BY DEF TurnsInv
<1>2. allData = <<>> => Turns!InOrder
  BY DEF Turns!InOrder
<1>3. TestsInv => InOrder
  BY <1>1, <1>2 DEF TestsInv, InOrder
<1> QED  BY <1>3, TestsInvHolds, PTL

\* atomic_data_notify_all: nobody counts itself before the gate is open, and
\* nobody counts twice or is overwritten by another, however many threads there
\* are.
THEOREM EverybodyCountsOnce == TestsSpec => []EachCountsOnce
<1>1. TestsInv => EachCountsOnce
  BY GateInvCounts DEF TestsInv, EachCountsOnce
<1> QED  BY <1>1, TestsInvHolds, PTL

\* interleaved_data: the two threads never write at the same time, and what they
\* write comes in order, for whatever number their loops end at.
THEOREM QueuesOrderWrites == TestsSpec => []WritesInTurn
<1>1. TestsInv => WritesInTurn
  BY PingPongInvWrites DEF TestsInv, WritesInTurn
<1> QED  BY <1>1, TestsInvHolds, PTL

-----------------------------------------------------------------------------
\* None of the tests gets stuck, and none of them goes on for ever.

\* What a test is heading for, or somebody who can make a step of its own.
SomebodyGoesOn ==
  /\ test = "interleaved_atomic_data" =>
       Turns!AllWritten \/ \E t \in TurnThreads : TurnMoves(t)
  /\ test = "atomic_data_notify_all" =>
       Gate!AllCounted \/ \E t \in GateThreads : GateMoves(t)
  /\ test = "interleaved_data" =>
       PingPong!AllWritten \/ \E t \in QueueThreads : PingPongMoves(t)

\* Fewer steps are left after a step than before it.
FewerStepsLeft ==
  /\ test \in {"interleaved_atomic_data", "atomic_data_notify_all", "interleaved_data"}
  /\ test = "interleaved_atomic_data" =>
       TurnsLeft \in Nat /\ TurnsLeft' \in Nat /\ TurnsLeft' < TurnsLeft
  /\ test = "atomic_data_notify_all" =>
       IsFiniteSet(GateLeft) /\ GateLeft' \subseteq GateLeft /\ GateLeft' # GateLeft
  /\ test = "interleaved_data" =>
       PingPongLeft \in Nat /\ PingPongLeft' \in Nat /\ PingPongLeft' < PingPongLeft

\* In two of the tests the steps are counted.
StepsCounted ==
  /\ test = "interleaved_atomic_data" => TurnsLeft \in Nat
  /\ test = "interleaved_data" => PingPongLeft \in Nat

TestsAwake ==
  /\ TestsInv
  /\ test = "interleaved_atomic_data" => TurnsAwake
  /\ test = "atomic_data_notify_all" => GateAwake
  /\ test = "interleaved_data" => PingPongAwake

LEMMA TurnsLeftIsNat ==
  ASSUME TurnsInv, TurnsAwake
  PROVE  TurnsLeft \in Nat
<1>1. Len(allData) \in 0 .. MaxNumber + 1 /\ MaxNumber \in Nat
  BY TurnPlaces
<1>2. TurnRank(Odd) \in Nat /\ TurnRank(Even) \in Nat
  BY DEF TurnRank
<1> HIDE DEF TurnRank
<1> QED  BY <1>1, <1>2 DEF TurnsLeft

LEMMA PingPongLeftIsNat ==
  ASSUME PingPongInv, PingPongAwake
  PROVE  PingPongLeft \in Nat
<1>1. Len(sharedData) \in Nat /\ LoopEnd \in Nat
  BY LenProperties, MaxNumberAssumption DEF PingPongInv, PingPongTypes, LoopEnd
<1>2. Len(sharedData) <= LoopEnd
  BY DEF PingPongAwake, LoopsEnd
<1>3. PingPongRank(Main) \in Nat /\ PingPongRank(Second) \in Nat
  BY DEF PingPongRank, LoopRank
<1> HIDE DEF PingPongRank, LoopEnd
<1> QED  BY <1>1, <1>2, <1>3 DEF PingPongLeft

LEMMA StepsAreCounted == TestsAwake => StepsCounted
BY TurnsLeftIsNat, PingPongLeftIsNat DEF TestsAwake, TestsInv, StepsCounted

\* Every step of the test that is run keeps its invariants, and is one of those
\* that were left.
LEMMA TestsStepLeavesFewer ==
  ASSUME TestsAwake, TestsInv', TestsNext
  PROVE  TestsAwake' /\ (StepsCounted /\ StepsCounted' => FewerStepsLeft)
<1> DEFINE Goal == TestsAwake' /\ (StepsCounted /\ StepsCounted' => FewerStepsLeft)
<1>1. ASSUME NEW t \in TurnThreads, StepOfTurns(t) PROVE Goal
  <2>1. test' = test /\ test = "interleaved_atomic_data" /\ Turns!TurnsStep(t)
    BY <1>1 DEF StepOfTurns
  <2>2. TurnsAwake' /\ TurnsLeft' < TurnsLeft
    BY <2>1, TurnsStepLeavesFewer DEF TestsAwake, TestsInv
  <2> QED  BY <2>1, <2>2 DEF TestsAwake, StepsCounted, FewerStepsLeft
<1>2. ASSUME NEW t \in GateThreads, StepOfGate(t) PROVE Goal
  <2>1. test' = test /\ test = "atomic_data_notify_all" /\ Gate!GateStep(t)
    BY <1>2 DEF StepOfGate
  <2>2. GateAwake' /\ GateLeft' \subseteq GateLeft /\ GateLeft' # GateLeft
    BY <2>1, GateStepLeavesFewer DEF TestsAwake, TestsInv
  <2> QED  BY <2>1, <2>2, GateLeftIsFinite DEF TestsAwake, FewerStepsLeft
<1>3. ASSUME NEW t \in QueueThreads, StepOfPingPong(t) PROVE Goal
  <2>1. test' = test /\ test = "interleaved_data" /\ PingPong!PingPongStep(t)
    BY <1>3 DEF StepOfPingPong
  <2>2. PingPongAwake' /\ PingPongLeft' < PingPongLeft
    BY <2>1, PingPongStepLeavesFewer DEF TestsAwake, TestsInv
  <2> QED  BY <2>1, <2>2 DEF TestsAwake, StepsCounted, FewerStepsLeft
<1> QED  BY <1>1, <1>2, <1>3, Zenon DEF TestsNext

LEMMA TestsAwakeStays ==
  ASSUME TestsAwake, TestsInv', UNCHANGED testVars
  PROVE  TestsAwake'
<1>1. test' = test
  BY DEF testVars
<1>2. /\ UNCHANGED <<TurnData!vars, todo, allData>> /\ UNCHANGED <<GateData!vars, todo>>
      /\ UNCHANGED <<PingPong!vars, PingPong!oddVars, PingPong!testVars>>
  BY DEF testVars, dataVars, queueVars, TurnData!vars, TurnData!callVars,
     TurnData!monitorVars, GateData!vars, GateData!callVars, GateData!monitorVars,
     PingPong!vars, PingPong!callVars, PingPong!monitorVars, PingPong!oddVars,
     PingPong!testVars
<1> QED  BY <1>1, <1>2, TurnsAwakeStays, GateAwakeStays, PingPongAwakeStays DEF TestsAwake

\* Every behaviour of the tests keeps both invariants of the one that is run.
LEMMA TestsAwakeHolds == TestsSpec => []TestsAwake
<1>1. TestsInit /\ TestsInv => TestsAwake
  BY TurnsInitAwake, GateInitAwake, PingPongInitAwake, Zenon DEF TestsInit, TestsAwake
<1>2. TestsAwake /\ TestsInv' /\ [TestsNext]_testVars => TestsAwake'
  BY TestsStepLeavesFewer, TestsAwakeStays
<1> QED  BY <1>1, <1>2, TestsInvHolds, PTL DEF TestsSpec

\* However many threads there are and whatever number the tests count to, nobody
\* sleeps through the last notification: as long as a test is not through, one of
\* its threads can make a step, and when none can, everything is written, or
\* everybody is counted, as the test expects.
THEOREM NobodyIsLeftAsleep == TestsSpec => []SomebodyGoesOn
<1>1. TestsAwake => SomebodyGoesOn
  BY TurnsDoNotStick, GateDoesNotStick, PingPongDoesNotStick
     DEF TestsAwake, TestsInv, SomebodyGoesOn
<1> QED  BY <1>1, TestsAwakeHolds, PTL

\* Every step of a test, whichever thread makes it, leaves fewer steps: the
\* notifications that wake up nobody, and the predicates that are false when they
\* are looked at again, come to an end however the threads interleave.
THEOREM TestsComeToAnEnd == TestsSpec => [][FewerStepsLeft]_testVars
<1>1. TestsAwake /\ TestsInv' /\ StepsCounted /\ StepsCounted' /\ [TestsNext]_testVars
        => [FewerStepsLeft]_testVars
  BY TestsStepLeavesFewer
<1> QED  BY <1>1, TestsAwakeHolds, TestsInvHolds, StepsAreCounted, PTL DEF TestsSpec

=============================================================================
