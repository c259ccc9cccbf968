--------------------------- MODULE GuardStackProofs ---------------------------
(***************************************************************************)
(* What holds of GuardStack for every set of values and any number of      *)
(* guards, nested in any way.                                              *)
(***************************************************************************)
EXTENDS GuardStack, SequenceTheorems, TLAPS

\* A guard whose argument was passed as a value has its own, which is what was
\* passed until an init function that takes it returns.
KeepsItsOwn(g) ==
  g.passed # Reference =>
    /\ g.arg # Reference
    /\ g.phase = "init" \/ ~g.init_takes => g.arg = g.passed

GuardRecord ==
  [id : Nat \ {0}, phase : {"init", "alive", "destroy"},
   passed : Values \cup {Reference}, arg : Values \cup {Reference},
   init_takes : BOOLEAN, destroy_takes : BOOLEAN, unwound : BOOLEAN]
Guard == {g \in GuardRecord : KeepsItsOwn(g)}
Entry == [id : Nat \ {0}, value : Values]

TypeOK ==
  /\ x \in Values
  /\ stack \in Seq(Guard)
  /\ held \in Seq(Entry)
  /\ made \in Nat
  /\ unwinding \in BOOLEAN /\ terminated \in BOOLEAN

\* Guards are destroyed in the reverse order of their making, so the youngest is
\* on top, and a new one is younger than all of them.
YoungestOnTop ==
  /\ \A i, j \in DOMAIN stack : i < j => stack[i].id < stack[j].id
  /\ \A i \in DOMAIN stack : stack[i].id <= made

\* What an init function that took the guard's own argument pushed is what it left
\* there.
LeftByInit ==
  \A i \in DOMAIN held, j \in DOMAIN stack :
    held[i].id = stack[j].id /\ stack[j].passed # Reference /\ stack[j].init_takes =>
      stack[j].arg = held[i].value

Inv == TypeOK /\ YoungestOnTop /\ HeldByGuards /\ LeftByInit

-----------------------------------------------------------------------------
\* What Last and Front say of a sequence that is not empty.
LEMMA LastFront ==
  ASSUME NEW S, NEW s \in Seq(S), s # <<>>
  PROVE  /\ Len(s) \in Nat \ {0} /\ DOMAIN s = 1..Len(s)
         /\ Last(s) \in S /\ Last(s) = s[Len(s)]
         /\ Front(s) \in Seq(S) /\ DOMAIN Front(s) = 1..Len(s) - 1
         /\ \A i \in 1..Len(s) - 1 : Front(s)[i] = s[i]
<1>1. Len(s) \in Nat \ {0} /\ DOMAIN s = 1..Len(s)
  BY EmptySeq, LenProperties
<1>2. \A i \in 1..Len(s) : s[i] \in S
  BY ElementOfSeq
<1>3. /\ Front(s) \in Seq(S)
      /\ Len(Front(s)) = IF 1 <= Len(s) - 1 THEN Len(s) - 1 - 1 + 1 ELSE 0
      /\ \A i \in 1..Len(s) - 1 - 1 + 1 : Front(s)[i] = s[1 + i - 1]
  <2>1. 1 \in Int /\ Len(s) - 1 \in Int /\ \A i \in 1..Len(s) - 1 : s[i] \in S
    BY <1>1, <1>2
  <2>2. QED
    BY <2>1, SubSeqProperties DEF Front
<1>4. Len(Front(s)) = Len(s) - 1
  <2>1. Len(Front(s)) = IF 1 <= Len(s) - 1 THEN Len(s) - 1 - 1 + 1 ELSE 0
    BY <1>3
  <2>2. \A n \in Nat \ {0} : (IF 1 <= n - 1 THEN n - 1 - 1 + 1 ELSE 0) = n - 1
    OBVIOUS
  <2>3. QED
    BY <1>1, <2>1, <2>2
<1>5. DOMAIN Front(s) = 1..Len(s) - 1
  BY <1>3, <1>4, LenProperties
<1>6. ASSUME NEW i \in 1..Len(s) - 1 PROVE Front(s)[i] = s[i]
  <2>1. i \in 1..Len(s) - 1 - 1 + 1 /\ 1 + i - 1 = i
    BY <1>1
  <2>2. Front(s)[i] = s[1 + i - 1]
    BY <1>3, <2>1
  <2>3. QED
    BY <2>1, <2>2
<1>7. Last(s) \in S /\ Last(s) = s[Len(s)]
  BY <1>1, <1>2 DEF Last
<1>8. QED
  BY <1>1, <1>3, <1>5, <1>6, <1>7

\* What a sequence holds after an append.
LEMMA AppendExtends ==
  ASSUME NEW S, NEW s \in Seq(S), NEW e \in S
  PROVE  /\ Append(s, e) \in Seq(S)
         /\ Len(s) \in Nat /\ DOMAIN s = 1..Len(s) /\ DOMAIN Append(s, e) = 1..Len(s) + 1
         /\ \A i \in 1..Len(s) : Append(s, e)[i] = s[i]
         /\ Append(s, e)[Len(s) + 1] = e
  BY AppendProperties, LenProperties

\* Replacing the last element changes nothing else.
LEMMA ReplaceLast ==
  ASSUME NEW S, NEW s \in Seq(S), s # <<>>, NEW e \in S
  PROVE  /\ Append(Front(s), e) \in Seq(S)
         /\ DOMAIN Append(Front(s), e) = 1..Len(s)
         /\ \A i \in 1..Len(s) : Append(Front(s), e)[i] = IF i = Len(s) THEN e ELSE s[i]
<1>1. /\ Len(s) \in Nat \ {0} /\ Front(s) \in Seq(S) /\ DOMAIN Front(s) = 1..Len(s) - 1
      /\ \A i \in 1..Len(s) - 1 : Front(s)[i] = s[i]
  BY LastFront
<1>2. Len(Front(s)) = Len(s) - 1
  <2>1. Len(Front(s)) \in Nat /\ 1..Len(Front(s)) = 1..Len(s) - 1
    BY <1>1, LenProperties
  <2>2. QED
    BY <1>1, <2>1
<1>3. /\ Append(Front(s), e) \in Seq(S)
      /\ DOMAIN Append(Front(s), e) = 1..Len(Front(s)) + 1
      /\ \A i \in 1..Len(Front(s)) : Append(Front(s), e)[i] = Front(s)[i]
      /\ Append(Front(s), e)[Len(Front(s)) + 1] = e
  BY <1>1, AppendExtends
<1>4. Len(s) - 1 + 1 = Len(s)
  BY <1>1
<1>5. ASSUME NEW i \in 1..Len(s) PROVE Append(Front(s), e)[i] = IF i = Len(s) THEN e ELSE s[i]
  BY <1>1, <1>2, <1>3, <1>4
<1>6. QED
  BY <1>2, <1>3, <1>4, <1>5

\* What is on top once an init function has returned.
AfterInit(t, v) ==
  [t EXCEPT !.phase = "alive", !.arg = IF t.init_takes /\ @ # Reference THEN v ELSE @]

\* It is a guard like any other, with what its init function left.
LEMMA AfterInitIsGuard ==
  ASSUME NEW t \in Guard, t.phase = "init", NEW v \in Values
  PROVE  LET g == AfterInit(t, v) IN
         /\ g \in Guard /\ g.id = t.id /\ g.phase # "init"
         /\ g.init_takes = t.init_takes /\ g.passed = t.passed
         /\ g.init_takes /\ g.passed # Reference => g.arg = v
<1> DEFINE g == AfterInit(t, v)
<1>1. t \in GuardRecord /\ KeepsItsOwn(t)
  BY DEF Guard
<1>2. /\ g \in GuardRecord /\ g.id = t.id /\ g.phase = "alive"
      /\ g.init_takes = t.init_takes /\ g.passed = t.passed
      /\ g.arg = IF t.init_takes /\ t.arg # Reference THEN v ELSE t.arg
  BY <1>1 DEF AfterInit, GuardRecord
<1>3. v # Reference
  BY ReferenceAssumption
<1> HIDE DEF g
<1>4. KeepsItsOwn(g)
  BY <1>1, <1>2, <1>3 DEF KeepsItsOwn
<1>5. g.init_takes /\ g.passed # Reference => g.arg = v
  BY <1>1, <1>2 DEF KeepsItsOwn
<1>6. QED
  BY <1>2, <1>4, <1>5 DEF Guard, g

-----------------------------------------------------------------------------
\* Every step keeps the types.
LEMMA TypesPreserved ==
  ASSUME Inv, [GuardNext]_guardVars
  PROVE  TypeOK'
<1> USE DEF TypeOK
<1>0. TypeOK
  BY DEF Inv
<1>1. CASE UNCHANGED guardVars
  BY <1>0, <1>1 DEF guardVars
<1>2. ASSUME stack # <<>> PROVE Top \in Guard /\ Front(stack) \in Seq(Guard)
  BY <1>0, <1>2, LastFront DEF Top
<1>3. ASSUME stack # <<>>, NEW g \in Guard, SetTop(g) PROVE stack' \in Seq(Guard)
  BY <1>0, <1>3, ReplaceLast DEF SetTop
<1>4. ASSUME NEW v \in Values, SetVariable(v) PROVE TypeOK'
  BY <1>0, <1>4 DEF SetVariable
<1>5. ASSUME NEW argument \in {x, Reference}, NEW init \in Callable, NEW destroy \in Callable,
             MakeGuard(argument, init, destroy)
      PROVE  TypeOK'
  <2>1. NewGuard(argument, init, destroy) \in Guard
    BY <1>0, <1>5 DEF NewGuard, Stored, TakesArgument, Guard, GuardRecord, KeepsItsOwn
  <2>2. stack' \in Seq(Guard)
    BY <1>0, <1>5, <2>1, AppendExtends DEF MakeGuard
  <2>3. QED
    BY <1>0, <1>5, <2>2 DEF MakeGuard
<1>6. ASSUME NEW v \in Values, InitReturns(v) PROVE TypeOK'
  <2>1. stack # <<>> /\ Top \in Guard
    BY <1>2, <1>6 DEF InitReturns, InPhase
  <2>2. AfterInit(Top, v) \in Guard /\ SetTop(AfterInit(Top, v))
    BY <1>6, <2>1, AfterInitIsGuard DEF InitReturns, InPhase, AfterInit
  <2>3. stack' \in Seq(Guard)
    BY <1>3, <2>1, <2>2
  <2>4. [id |-> Top.id, value |-> v] \in Entry
    BY <2>1 DEF Guard, GuardRecord, KeepsItsOwn, Entry
  <2>5. held' \in Seq(Entry)
    BY <1>0, <1>6, <2>4, AppendExtends DEF InitReturns
  <2>6. QED
    BY <1>0, <1>6, <2>3, <2>5 DEF InitReturns
<1>7. CASE LeaveScope \/ UnwindScope
  <2>1. stack # <<>> /\ Top \in Guard
    BY <1>2, <1>7 DEF LeaveScope, UnwindScope, InPhase
  <2>2. /\ [Top EXCEPT !.phase = "destroy"] \in Guard
        /\ [Top EXCEPT !.phase = "destroy", !.unwound = TRUE] \in Guard
    BY <2>1 DEF Guard, GuardRecord, KeepsItsOwn
  <2>3. stack' \in Seq(Guard)
    BY <1>3, <1>7, <2>1, <2>2 DEF LeaveScope, UnwindScope
  <2>4. QED
    BY <1>0, <1>7, <2>3 DEF LeaveScope, UnwindScope
<1>8. ASSUME NEW v \in Values, DestroyReturns(v) PROVE TypeOK'
  <2>1. stack # <<>> /\ Top \in Guard /\ stack' \in Seq(Guard) /\ Top.phase = "destroy"
    BY <1>2, <1>8 DEF DestroyReturns, InPhase
  <2>2. held # <<>>
    <3>1. Len(stack) \in DOMAIN stack /\ Top = stack[Len(stack)]
      BY <1>0, <2>1, LastFront DEF Top
    <3>2. Len(stack) \in Initialized
      BY <2>1, <3>1 DEF Initialized
    <3>3. \E i \in DOMAIN held : held[i].id = stack[Len(stack)].id
      BY <3>2 DEF Inv, HeldByGuards
    <3>4. QED
      BY <3>3
  <2>3. held' \in Seq(Entry)
    BY <1>0, <1>8, <2>2, LastFront DEF DestroyReturns
  <2>4. unwinding' \in BOOLEAN
    BY <1>8, <2>1 DEF DestroyReturns, Guard, GuardRecord, KeepsItsOwn
  <2>5. QED
    BY <1>0, <1>8, <2>1, <2>3, <2>4 DEF DestroyReturns
<1>9. CASE Throw \/ Catch \/ Terminate
  BY <1>0, <1>9 DEF Throw, Catch, Terminate
<1>10. CASE UnwindInit
  BY <1>0, <1>2, <1>10 DEF UnwindInit, InPhase
<1>11. QED
  BY <1>1, <1>4, <1>5, <1>6, <1>7, <1>8, <1>9, <1>10 DEF GuardNext

-----------------------------------------------------------------------------
\* What a step does to the stack and to what is held is one of five things.
LEMMA Untouched ==
  ASSUME Inv, UNCHANGED <<stack, held, made>>
  PROVE  YoungestOnTop' /\ HeldByGuards' /\ LeftByInit'
  BY ZenonT(40) DEF Inv, YoungestOnTop, HeldByGuards, LeftByInit, Initialized

\* A guard is made: nothing is held for it.
LEMMA Made ==
  ASSUME Inv, NEW g \in Guard, g.id = made + 1, g.phase = "init",
         stack' = Append(stack, g), made' = made + 1, held' = held
  PROVE  YoungestOnTop' /\ HeldByGuards' /\ LeftByInit'
<1> DEFINE n == Len(stack)
<1>0. made \in Nat /\ YoungestOnTop /\ HeldByGuards /\ LeftByInit
  BY DEF Inv, TypeOK
<1>1. /\ n \in Nat /\ DOMAIN stack = 1..n /\ DOMAIN stack' = 1..n + 1
      /\ \A i \in 1..n : stack'[i] = stack[i]
      /\ stack'[n + 1] = g
  BY AppendExtends DEF Inv, TypeOK
<1>2. \A i \in 1..n : stack[i].id \in Nat /\ stack[i].id <= made
  <2>1. \A i \in 1..n : stack[i] \in Guard
    BY ElementOfSeq DEF Inv, TypeOK
  <2>2. QED
    BY <1>0, <1>1, <2>1 DEF YoungestOnTop, Guard, GuardRecord, KeepsItsOwn
<1> HIDE DEF n
<1>3. 1..n + 1 = 1..n \cup {n + 1}
  BY <1>1
<1>4. YoungestOnTop'
  BY <1>0, <1>1, <1>2, <1>3 DEF YoungestOnTop
<1>5. Initialized' = Initialized
  BY <1>1, <1>3 DEF Initialized
<1>6. \A i \in Initialized : stack'[i] = stack[i]
  BY <1>1 DEF Initialized
<1>7. HeldByGuards'
  <2>1. {stack'[i].id : i \in Initialized'} = {stack[i].id : i \in Initialized}
    BY <1>5, <1>6
  <2>2. QED
    BY <1>0, <2>1 DEF HeldByGuards
<1>8. \A i \in DOMAIN held : held[i].id # made + 1
  <2>1. ASSUME NEW i \in DOMAIN held PROVE held[i].id # made + 1
    <3>1. PICK j \in Initialized : held[i].id = stack[j].id
      BY <1>0 DEF HeldByGuards
    <3>2. QED
      BY <1>0, <1>1, <1>2, <3>1 DEF Initialized
  <2>2. QED
    BY <2>1
<1>9. LeftByInit'
  BY <1>0, <1>1, <1>3, <1>8 DEF LeftByInit
<1>10. QED
  BY <1>4, <1>7, <1>9

\* An init function returns: the value that it pushed is the youngest, and the
\* guard keeps the same one, if it keeps a copy and init took it.
LEMMA Pushed ==
  ASSUME Inv, stack # <<>>, Top.phase = "init",
         NEW v \in Values, NEW g \in Guard, g.id = Top.id, g.phase # "init",
         g.init_takes = Top.init_takes, g.passed = Top.passed,
         g.init_takes /\ g.passed # Reference => g.arg = v,
         SetTop(g), held' = Append(held, [id |-> Top.id, value |-> v]), made' = made
  PROVE  YoungestOnTop' /\ HeldByGuards' /\ LeftByInit'
<1> DEFINE n == Len(stack)
           m == Len(held)
           e == [id |-> Top.id, value |-> v]
<1>0. made \in Nat /\ YoungestOnTop /\ HeldByGuards /\ LeftByInit
  BY DEF Inv, TypeOK
<1>1. /\ n \in Nat \ {0} /\ DOMAIN stack = 1..n /\ DOMAIN stack' = 1..n
      /\ \A i \in 1..n : stack'[i] = IF i = n THEN g ELSE stack[i]
      /\ Top = stack[n] /\ Top \in Guard
  <2>1. stack \in Seq(Guard) /\ stack' = Append(Front(stack), g)
    BY DEF Inv, TypeOK, SetTop
  <2>2. n \in Nat \ {0} /\ DOMAIN stack = 1..n /\ Top = stack[n] /\ Top \in Guard
    BY <2>1, LastFront DEF Top
  <2>3. /\ DOMAIN stack' = 1..n
        /\ \A i \in 1..n : stack'[i] = IF i = n THEN g ELSE stack[i]
    BY <2>1, ReplaceLast
  <2>4. QED
    BY <2>2, <2>3
<1>2. \A i \in 1..n : stack[i].id \in Nat
  <2>1. \A i \in 1..n : stack[i] \in Guard
    BY ElementOfSeq DEF Inv, TypeOK
  <2>2. QED
    BY <2>1 DEF Guard, GuardRecord, KeepsItsOwn
<1>3. /\ m \in Nat /\ DOMAIN held = 1..m /\ DOMAIN held' = 1..m + 1
      /\ \A i \in 1..m : held'[i] = held[i]
      /\ held'[m + 1] = e
  <2>1. e \in Entry
    BY <1>1 DEF Guard, GuardRecord, KeepsItsOwn, Entry
  <2>2. QED
    BY <2>1, AppendExtends DEF Inv, TypeOK
<1> HIDE DEF n, m
<1>4. e.id = stack[n].id /\ e.value = v /\ g.id = stack[n].id
  BY <1>1
<1> HIDE DEF e
<1>5. 1..m + 1 = 1..m \cup {m + 1}
  BY <1>3
<1>6. \A i \in 1..n : stack'[i].id = stack[i].id
  BY <1>1, <1>4
<1>7. YoungestOnTop'
  BY <1>0, <1>1, <1>6 DEF YoungestOnTop
<1>8. n \in 1..n /\ n \notin Initialized /\ Initialized \subseteq 1..n /\ Initialized' = Initialized \cup {n}
  BY <1>1 DEF Initialized
\* Whatever is held so far belongs to a guard below the one on top.
<1>9. \A i \in 1..m : held[i].id \in Nat /\ held[i].id < e.id
  <2>1. ASSUME NEW i \in 1..m PROVE held[i].id \in Nat /\ held[i].id < e.id
    <3>1. PICK j \in Initialized : held[i].id = stack[j].id
      BY <1>0, <1>3 DEF HeldByGuards
    <3>2. j \in 1..n /\ j < n
      BY <1>1, <1>8, <3>1
    <3>3. QED
      BY <1>0, <1>1, <1>2, <1>4, <1>8, <3>1, <3>2 DEF YoungestOnTop
  <2>2. QED
    BY <2>1
<1>10. HeldByGuards'
  <2>1. {held'[i].id : i \in DOMAIN held'} = {held[i].id : i \in DOMAIN held} \cup {e.id}
    BY <1>3, <1>5
  <2>2. {stack'[i].id : i \in Initialized'} = {stack[i].id : i \in Initialized} \cup {e.id}
    BY <1>4, <1>6, <1>8
  <2>3. \A i, j \in DOMAIN held' : i < j => held'[i].id < held'[j].id
    BY <1>0, <1>3, <1>5, <1>9 DEF HeldByGuards
  <2>4. QED
    BY <1>0, <2>1, <2>2, <2>3 DEF HeldByGuards
<1>11. LeftByInit'
  <2> SUFFICES ASSUME NEW i \in DOMAIN held', NEW j \in DOMAIN stack',
                      held'[i].id = stack'[j].id, stack'[j].passed # Reference,
                      stack'[j].init_takes
               PROVE  stack'[j].arg = held'[i].value
    BY DEF LeftByInit
  <2>1. CASE i \in 1..m /\ j # n
    BY <1>0, <1>1, <1>3, <2>1 DEF LeftByInit
  <2>2. CASE i \in 1..m /\ j = n
    BY <1>1, <1>3, <1>4, <1>6, <1>9, <2>2
  <2>3. CASE i = m + 1 /\ j # n
    <3>1. stack[j].id < stack[n].id
      BY <1>0, <1>1, <2>3 DEF YoungestOnTop
    <3>2. QED
      BY <1>1, <1>2, <1>3, <1>4, <1>6, <2>3, <3>1
  <2>4. CASE i = m + 1 /\ j = n
    BY <1>1, <1>3, <1>4, <2>4
  <2>5. QED
    BY <1>3, <1>5, <2>1, <2>2, <2>3, <2>4
<1>12. QED
  BY <1>7, <1>10, <1>11

\* A guard goes on to its destroy function.
LEMMA Moved ==
  ASSUME Inv, stack # <<>>, Top.phase # "init",
         NEW g \in Guard, g.id = Top.id, g.phase # "init", g.arg = Top.arg,
         g.passed = Top.passed, g.init_takes = Top.init_takes,
         SetTop(g), UNCHANGED <<held, made>>
  PROVE  YoungestOnTop' /\ HeldByGuards' /\ LeftByInit'
<1> DEFINE n == Len(stack)
<1>1. /\ n \in Nat \ {0} /\ DOMAIN stack = 1..n /\ DOMAIN stack' = 1..n
      /\ \A i \in 1..n : stack'[i] = IF i = n THEN g ELSE stack[i]
      /\ Top = stack[n] /\ Top \in Guard
  <2>1. stack \in Seq(Guard) /\ stack' = Append(Front(stack), g)
    BY DEF Inv, TypeOK, SetTop
  <2>2. n \in Nat \ {0} /\ DOMAIN stack = 1..n /\ Top = stack[n] /\ Top \in Guard
    BY <2>1, LastFront DEF Top
  <2>3. /\ DOMAIN stack' = 1..n
        /\ \A i \in 1..n : stack'[i] = IF i = n THEN g ELSE stack[i]
    BY <2>1, ReplaceLast
  <2>4. QED
    BY <2>2, <2>3
<1> HIDE DEF n
<1>2. \A i \in 1..n : /\ stack'[i].id = stack[i].id /\ stack'[i].arg = stack[i].arg
                      /\ stack'[i].passed = stack[i].passed
                      /\ stack'[i].init_takes = stack[i].init_takes
                      /\ stack'[i].phase # "init" <=> stack[i].phase # "init"
  BY <1>1
<1>3. Initialized' = Initialized /\ \A i \in Initialized : stack'[i].id = stack[i].id
  BY <1>1, <1>2 DEF Initialized
<1>4. YoungestOnTop'
  BY <1>1, <1>2 DEF Inv, YoungestOnTop
<1>5. HeldByGuards'
  <2>1. {stack'[i].id : i \in Initialized'} = {stack[i].id : i \in Initialized}
    BY <1>3
  <2>2. QED
    BY <2>1 DEF Inv, HeldByGuards
<1>6. LeftByInit'
  BY <1>1, <1>2 DEF Inv, LeftByInit
<1>7. QED
  BY <1>4, <1>5, <1>6

\* A guard whose init function throws is gone, and nothing was held for it.
LEMMA Dropped ==
  ASSUME Inv, stack # <<>>, Top.phase = "init",
         stack' = Front(stack), UNCHANGED <<held, made>>
  PROVE  YoungestOnTop' /\ HeldByGuards' /\ LeftByInit'
<1> DEFINE n == Len(stack)
<1>1. /\ n \in Nat \ {0} /\ DOMAIN stack = 1..n /\ DOMAIN stack' = 1..n - 1
      /\ \A i \in 1..n - 1 : stack'[i] = stack[i]
      /\ Top = stack[n]
  BY LastFront DEF Inv, TypeOK, Top
<1> HIDE DEF n
<1>2. Initialized' = Initialized /\ \A i \in Initialized : stack'[i] = stack[i]
  BY <1>1 DEF Initialized
<1>3. \A i \in 1..n - 1 : i \in 1..n
  BY <1>1
<1>4. YoungestOnTop'
  BY <1>1, <1>3 DEF Inv, YoungestOnTop
<1>5. HeldByGuards'
  <2>1. {stack'[i].id : i \in Initialized'} = {stack[i].id : i \in Initialized}
    BY <1>2
  <2>2. QED
    BY <2>1 DEF Inv, HeldByGuards
<1>6. LeftByInit'
  BY <1>1, <1>3 DEF Inv, LeftByInit
<1>7. QED
  BY <1>4, <1>5, <1>6

\* A destroy function returns: the value it pops is the one that its own guard
\* pushed, because that is the youngest.
LEMMA Popped ==
  ASSUME Inv, stack # <<>>, Top.phase # "init",
         stack' = Front(stack), held' = Front(held), made' = made
  PROVE  YoungestOnTop' /\ HeldByGuards' /\ LeftByInit'
<1> DEFINE n == Len(stack)
           m == Len(held)
<1>0. /\ YoungestOnTop /\ HeldByGuards /\ LeftByInit
      /\ stack \in Seq(Guard) /\ held \in Seq(Entry)
  BY DEF Inv, TypeOK
<1>1. /\ n \in Nat \ {0} /\ DOMAIN stack = 1..n /\ DOMAIN stack' = 1..n - 1
      /\ \A i \in 1..n - 1 : stack'[i] = stack[i]
      /\ Top = stack[n]
  BY <1>0, LastFront DEF Top
<1>2. \A i \in 1..n : stack[i].id \in Nat
  <2>1. \A i \in 1..n : stack[i] \in Guard
    BY <1>0, ElementOfSeq
  <2>2. QED
    BY <2>1 DEF Guard, GuardRecord, KeepsItsOwn
<1>3. n \in 1..n /\ n \in Initialized
  BY <1>1 DEF Initialized
<1>4. PICK k \in DOMAIN held : held[k].id = stack[n].id
  BY <1>0, <1>3 DEF HeldByGuards
<1>5. held # <<>>
  BY <1>4
<1>6. /\ m \in Nat \ {0} /\ DOMAIN held = 1..m /\ DOMAIN held' = 1..m - 1
      /\ \A i \in 1..m - 1 : held'[i] = held[i]
  BY <1>0, <1>5, LastFront
<1> HIDE DEF n, m
<1>7. 1..n = 1..n - 1 \cup {n} /\ n \notin 1..n - 1 /\ 1..m = 1..m - 1 \cup {m} /\ m \notin 1..m - 1
  BY <1>1, <1>6
\* No guard below the one on top has its id.
<1>8. \A i \in 1..n - 1 : stack[i].id # stack[n].id
  <2>1. \A i \in 1..n - 1 : i \in 1..n /\ i < n
    BY <1>1
  <2>2. \A i \in 1..n - 1 : stack[i].id < stack[n].id
    BY <1>0, <1>1, <1>3, <2>1 DEF YoungestOnTop
  <2>3. QED
    BY <1>2, <1>3, <2>1, <2>2
\* What is popped was pushed by the guard on top.
<1>9. held[m].id = stack[n].id
  <2>1. m \in DOMAIN held
    BY <1>6, <1>7
  <2>2. PICK j \in Initialized : held[m].id = stack[j].id
    BY <1>0, <2>1 DEF HeldByGuards
  <2>3. j \in 1..n /\ (j < n \/ j = n)
    BY <1>1, <2>2 DEF Initialized
  <2>4. k = m \/ k < m
    BY <1>4, <1>6
  <2>5. k < m => held[k].id < held[m].id
    BY <1>0, <1>4, <2>1 DEF HeldByGuards
  <2>6. j < n => stack[j].id < stack[n].id
    BY <1>0, <1>1, <1>3, <2>3 DEF YoungestOnTop
  <2>7. stack[j].id \in Nat /\ stack[n].id \in Nat
    BY <1>2, <1>3, <2>3
  <2>8. QED
    BY <1>4, <2>2, <2>3, <2>4, <2>5, <2>6, <2>7
<1>10. \A i \in 1..m - 1 : held[i].id # stack[n].id
  <2>1. \A i \in 1..m - 1 : i \in 1..m /\ m \in 1..m /\ i < m
    BY <1>6
  <2>2. \A i \in 1..m - 1 : held[i].id < held[m].id
    BY <1>0, <1>6, <2>1 DEF HeldByGuards
  <2>3. \A i \in 1..m : held[i].id \in Nat
    <3>1. \A i \in 1..m : held[i] \in Entry
      BY <1>0, ElementOfSeq DEF m
    <3>2. QED
      BY <3>1 DEF Entry
  <2>4. QED
    BY <1>9, <2>1, <2>2, <2>3
<1>11. YoungestOnTop'
  BY <1>0, <1>1, <1>7 DEF YoungestOnTop
<1>12. Initialized' = Initialized \ {n}
  BY <1>1, <1>7 DEF Initialized
<1>13. HeldByGuards'
  <2>1. {held'[i].id : i \in DOMAIN held'} = {held[i].id : i \in DOMAIN held} \ {stack[n].id}
    <3>1. {held'[i].id : i \in DOMAIN held'} = {held[i].id : i \in 1..m - 1}
      BY <1>6
    <3>2. {held[i].id : i \in DOMAIN held} = {held[i].id : i \in 1..m - 1} \cup {stack[n].id}
      BY <1>6, <1>7, <1>9
    <3>3. QED
      BY <1>10, <3>1, <3>2
  <2>2. {stack'[i].id : i \in Initialized'} = {stack[i].id : i \in Initialized} \ {stack[n].id}
    <3>1. \A i \in Initialized \ {n} : i \in 1..n - 1 /\ stack'[i] = stack[i] /\ stack[i].id # stack[n].id
      BY <1>1, <1>7, <1>8 DEF Initialized
    <3>2. {stack'[i].id : i \in Initialized'} = {stack[i].id : i \in Initialized \ {n}}
      BY <1>12, <3>1
    <3>3. QED
      BY <1>3, <3>1, <3>2
  <2>3. \A i, j \in DOMAIN held' : i < j => held'[i].id < held'[j].id
    BY <1>0, <1>6, <1>7 DEF HeldByGuards
  <2>4. QED
    BY <1>0, <2>1, <2>2, <2>3 DEF HeldByGuards
<1>14. LeftByInit'
  BY <1>0, <1>1, <1>6, <1>7 DEF LeftByInit
<1>15. QED
  BY <1>11, <1>13, <1>14

-----------------------------------------------------------------------------
\* The inductive invariant holds at first ...
LEMMA InitInv ==
  ASSUME GuardInit
  PROVE  Inv
<1>1. stack = <<>> /\ held = <<>> /\ DOMAIN stack = {} /\ DOMAIN held = {}
  BY DEF GuardInit
<1>2. TypeOK
  BY EmptySeq DEF GuardInit, TypeOK
<1>3. {held[i].id : i \in DOMAIN held} = {} /\ {stack[i].id : i \in Initialized} = {}
  BY <1>1 DEF Initialized
<1>4. QED
  BY <1>1, <1>2, <1>3 DEF Inv, YoungestOnTop, HeldByGuards, LeftByInit

\* ... and every step preserves it.
LEMMA NextInv ==
  ASSUME Inv, [GuardNext]_guardVars
  PROVE  Inv'
<1>1. TypeOK'
  BY TypesPreserved
<1>2. stack # <<>> => Top \in Guard
  BY LastFront DEF Inv, TypeOK, Top
<1>3. CASE UNCHANGED guardVars
  BY <1>1, <1>3, Untouched DEF guardVars, Inv
<1>4. ASSUME (\E v \in Values : SetVariable(v)) \/ Throw \/ Catch \/ Terminate
      PROVE  YoungestOnTop' /\ HeldByGuards' /\ LeftByInit'
  BY <1>4, Untouched DEF SetVariable, Throw, Catch, Terminate
<1>5. ASSUME NEW argument \in {x, Reference}, NEW init \in Callable, NEW destroy \in Callable,
             MakeGuard(argument, init, destroy)
      PROVE  YoungestOnTop' /\ HeldByGuards' /\ LeftByInit'
  <2> DEFINE g == NewGuard(argument, init, destroy)
  <2>1. g \in Guard /\ g.id = made + 1 /\ g.phase = "init"
    BY <1>5 DEF Inv, TypeOK, NewGuard, Stored, TakesArgument, Guard, GuardRecord, KeepsItsOwn
  <2>2. stack' = Append(stack, g) /\ made' = made + 1 /\ held' = held
    BY <1>5 DEF MakeGuard
  <2> HIDE DEF g
  <2>3. QED
    BY <2>1, <2>2, Made
<1>6. ASSUME NEW v \in Values, InitReturns(v)
      PROVE  YoungestOnTop' /\ HeldByGuards' /\ LeftByInit'
  <2> DEFINE g == AfterInit(Top, v)
  <2>1. /\ stack # <<>> /\ Top.phase = "init" /\ SetTop(g) /\ made' = made
        /\ held' = Append(held, [id |-> Top.id, value |-> v])
    BY <1>6 DEF InitReturns, InPhase, AfterInit
  <2>2. /\ g \in Guard /\ g.id = Top.id /\ g.phase # "init" /\ g.init_takes = Top.init_takes
        /\ g.passed = Top.passed /\ (g.init_takes /\ g.passed # Reference => g.arg = v)
    BY <1>2, <2>1, AfterInitIsGuard
  <2> HIDE DEF g
  <2>3. QED
    BY <2>1, <2>2, Pushed
<1>7. ASSUME NEW g \in Guard, stack # <<>>, Top.phase = "alive",
             g = [Top EXCEPT !.phase = "destroy"] \/ g = [Top EXCEPT !.phase = "destroy", !.unwound = TRUE],
             SetTop(g), UNCHANGED <<held, made>>
      PROVE  YoungestOnTop' /\ HeldByGuards' /\ LeftByInit'
  <2>1. /\ g.id = Top.id /\ g.phase # "init" /\ g.arg = Top.arg
        /\ g.passed = Top.passed /\ g.init_takes = Top.init_takes
    BY <1>2, <1>7 DEF Guard, GuardRecord, KeepsItsOwn
  <2>2. QED
    BY <1>7, <2>1, Moved
<1>8. ASSUME LeaveScope \/ UnwindScope PROVE YoungestOnTop' /\ HeldByGuards' /\ LeftByInit'
  <2>1. stack # <<>> /\ Top.phase = "alive" /\ UNCHANGED <<held, made>>
    BY <1>8 DEF LeaveScope, UnwindScope, InPhase
  <2>2. /\ [Top EXCEPT !.phase = "destroy"] \in Guard
        /\ [Top EXCEPT !.phase = "destroy", !.unwound = TRUE] \in Guard
    BY <1>2, <2>1 DEF Guard, GuardRecord, KeepsItsOwn
  <2>3. QED
    BY <1>7, <1>8, <2>1, <2>2 DEF LeaveScope, UnwindScope
<1>9. ASSUME NEW v \in Values, DestroyReturns(v)
      PROVE  YoungestOnTop' /\ HeldByGuards' /\ LeftByInit'
  BY <1>9, Popped DEF DestroyReturns, InPhase
<1>10. ASSUME UnwindInit PROVE YoungestOnTop' /\ HeldByGuards' /\ LeftByInit'
  BY <1>10, Dropped DEF UnwindInit, InPhase
<1>11. QED
  BY <1>1, <1>3, <1>4, <1>5, <1>6, <1>8, <1>9, <1>10 DEF GuardNext, Inv

\* Every state has these types.
THEOREM TypeCorrect == GuardSpec => []TypeOK
  BY InitInv, NextInv, PTL DEF GuardSpec, Inv

\* However guards are nested, and whatever throws: what is held is what the living
\* guards pushed, so each destroy function pops the value of its own guard.
THEOREM EachInitIsUndone == GuardSpec => []HeldByGuards
  BY InitInv, NextInv, PTL DEF GuardSpec, Inv

\* A guard whose argument was passed as a value has it to itself: its destroy
\* function gets what its init function left in the argument, or what was passed
\* if that did not take it, whatever has become of the caller's variable.
THEOREM DestroyGetsWhatInitLeft == GuardSpec => []GivenWhatInitLeft
<1>1. Inv => GivenWhatInitLeft
  <2> SUFFICES ASSUME Inv, NEW j \in DOMAIN stack,
                      stack[j].phase = "alive", stack[j].passed # Reference
               PROVE  /\ ~stack[j].init_takes => Argument(stack[j]) = stack[j].passed
                      /\ stack[j].init_takes =>
                           \A i \in DOMAIN held :
                             held[i].id = stack[j].id => Argument(stack[j]) = held[i].value
    BY DEF GivenWhatInitLeft
  <2>1. stack[j] \in Guard
    BY ElementOfSeq DEF Inv, TypeOK
  <2>2. stack[j].arg # Reference /\ (~stack[j].init_takes => stack[j].arg = stack[j].passed)
    BY <2>1 DEF Guard, KeepsItsOwn
  <2>3. Argument(stack[j]) = stack[j].arg
    BY <2>2 DEF Argument
  <2>4. QED
    BY <2>2, <2>3 DEF Inv, LeftByInit
<1>2. QED
  BY <1>1, InitInv, NextInv, PTL DEF GuardSpec

=============================================================================
