----------------------------- MODULE ThreadTests -----------------------------
(***************************************************************************)
(* The tests in which threads share an object, interleaved_atomic_data and *)
(* atomic_data_notify_all with an AtomicData, interleaved_data with two    *)
(* BlockingQueues, of which the test program runs one.  Every thread of    *)
(* it, inside and outside its calls, goes on sooner or later.              *)
(***************************************************************************)
EXTENDS Integers, FiniteSets

CONSTANTS Odd, Even,     \* the threads of interleaved_atomic_data
          Main, Second,  \* the threads of interleaved_data
          Writers,       \* the threads that Main starts in atomic_data_notify_all
          MaxNumber,     \* the last number that is written
          Nobody, Torn, NoItem

ASSUME MaxNumberAssumption == MaxNumber \in Nat /\ MaxNumber % 2 = 1
ASSUME TestThreadsAssumption ==
  /\ Odd # Even /\ Main # Second
  /\ IsFiniteSet(Writers) /\ Main \notin Writers
  /\ {"this", Nobody} \cap (Writers \cup {Odd, Even, Main, Second}) = {}

VARIABLES owner, sleeping, woken, data, pc, op, under, seen, refs, out,
          todo, allData,
          queue, item, trash, log, notified, i, sharedData,
          oddOwner, oddSleeping, oddWoken, oddQueue, oddPc, oddOp, oddItem,
          oddTrash, oddOut, oddLog, oddNotified,
          test  \* the test that is run

TurnThreads  == {Odd, Even}
GateThreads  == Writers \cup {Main}
QueueThreads == {Main, Second}

Numbers == 0 .. MaxNumber + 1
Parity(r) == {n \in Numbers : n % 2 = r}
TurnPredicates == {Numbers, Parity(0), Parity(1)}

Turns == INSTANCE AtomicDataTurns WITH
  Threads <- TurnThreads, Values <- Numbers, Spurious <- FALSE,
  Predicates <- TurnPredicates

Shared == [write_away : BOOLEAN, num_threads : 0 .. Cardinality(Writers)]
GatePredicates == {Shared, {v \in Shared : v.write_away}}

Gate == INSTANCE AtomicDataGate WITH
  Threads <- GateThreads, Values <- Shared, Spurious <- FALSE,
  Predicates <- GatePredicates

ASSUME TornAssumption == Torn \notin Numbers \cup Shared

QueueItems == 0 .. MaxNumber
ASSUME NoItemAssumption == NoItem \notin QueueItems

LoopEnd == MaxNumber + 1

PingPong == INSTANCE QueuePingPong WITH
  Threads <- QueueThreads, Items <- QueueItems, MaxNumber <- LoopEnd,
  Copied <- {}, HasCallback <- FALSE, Spurious <- FALSE

dataVars  == <<data, under, seen, refs, allData>>
queueVars == <<queue, item, trash, log, notified, i, sharedData, oddOwner, oddSleeping,
               oddWoken, oddQueue, oddPc, oddOp, oddItem, oddTrash, oddOut, oddLog, oddNotified>>
testVars  == <<owner, sleeping, woken, pc, op, out, todo, dataVars, queueVars, test>>

NoQueue ==
  /\ queue = <<>> /\ item = <<>> /\ trash = <<>> /\ log = <<>> /\ notified = 0
  /\ i = <<>> /\ sharedData = <<>>
  /\ PingPong!Odds!Init

TestsInit ==
  \/ test = "interleaved_atomic_data" /\ Turns!TurnsInit /\ NoQueue
  \/ test = "atomic_data_notify_all" /\ Gate!GateInit /\ allData = <<>> /\ NoQueue
  \/ /\ test = "interleaved_data" /\ PingPong!PingPongInit
     /\ data = 0 /\ under = <<>> /\ seen = <<>> /\ refs = {} /\ allData = <<>>

StepOfTurns(t) ==
  /\ test = "interleaved_atomic_data"
  /\ Turns!TurnsStep(t)
  /\ UNCHANGED <<queueVars, test>>

StepOfGate(t) ==
  /\ test = "atomic_data_notify_all"
  /\ Gate!GateStep(t)
  /\ UNCHANGED <<queueVars, allData, test>>

StepOfPingPong(t) ==
  /\ test = "interleaved_data"
  /\ PingPong!PingPongStep(t)
  /\ UNCHANGED <<dataVars, test>>

TestsNext ==
  \/ \E t \in TurnThreads : StepOfTurns(t)
  \/ \E t \in GateThreads : StepOfGate(t)
  \/ \E t \in QueueThreads : StepOfPingPong(t)

TestsSpec ==
  /\ TestsInit
  /\ [][TestsNext]_testVars
  /\ \A t \in TurnThreads : WF_testVars(StepOfTurns(t))
  /\ \A t \in GateThreads : WF_testVars(StepOfGate(t))
  /\ \A t \in QueueThreads : WF_testVars(StepOfPingPong(t))

\* interleaved_atomic_data: the numbers are written in order, each by the
\* thread whose turn it was.
InOrder == Turns!InOrder

\* One notification per turn, given after the mutex was released and perhaps
\* before the other thread went to sleep, is enough: both threads finish, with
\* every number written.
BothFinish == <>(test = "interleaved_atomic_data" => Turns!AllWritten)

\* atomic_data_notify_all: nobody counts itself before the gate is open, and
\* nobody counts twice or is overwritten by another.
EachCountsOnce == test = "atomic_data_notify_all" => Gate!EachCountsOnce

\* One notify_all lets everybody pass, whoever was asleep when it was called
\* and whoever came later, and the count read at the end is complete.
EverybodyPasses == <>(test = "atomic_data_notify_all" => Gate!AllCounted)

\* interleaved_data: the queues keep the two threads apart, so that they never
\* write shared_data at the same time, and what they write comes in order.
WritesInTurn == test = "interleaved_data" => PingPong!WritesInTurn

\* Neither of them is left asleep, though every notification comes after the
\* unlock, perhaps when the answer is there already: both loops end, and leave
\* every number in shared_data and both queues empty.
PingPongEnds == <>(test = "interleaved_data" => PingPong!AllWritten)

=============================================================================
