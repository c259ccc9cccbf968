# Formal models of ltb-util

TLA+ models, TLC runs and TLAPS proofs for the parts of `ltb-util` that are hard
to test: the classes that several threads share, and the small stateful helpers
around them. Paths below are relative to the repository; `util/` stands for
`src/include/ltb/util/`.

## 1. The system

The library is a set of headers. Three of them hold all of its concurrency:

```
   clients ── schedule_task ──► tasks_to_do_ (BlockingQueue) ──► task_thread_
      ▲                                                             │ runs the task
      └── callbacks ◄── finished_tasks_ (BlockingQueue) ◄───────────┘
                             │ notify_callback_ = task_ready_callback
   threads ── use_safely / wait_to_use_safely / notify / scoped_lock ──► AtomicData
```

| component | state | operations | what is hard | what makes it correct |
|---|---|---|---|---|
| `BlockingQueue` (`util/blocking_queue.hpp`) | `mutex_`, `condition_`, `queue_`, `notify_callback_` | `push_back`, `emplace_back`, `pop_front` (with and without timeout), `clear`, `size`, `empty` | the notification and the callback come after the unlock; a timeout races a push; destructors push again, run by `clear` without the mutex and by `pop_front` with it | no wakeup is lost; first in, first out; each item leaves once; nothing but the destructor of an item that was copied out can find its own thread holding the mutex |
| `AsyncTaskRunner` (`util/async_task_runner.hpp`) | two `BlockingQueue`s, `task_thread_`, `processing_` | constructor, `schedule_task`, `invoke_next_callback_blocking`, `invoke_callbacks_for_finished_tasks`, `processing`, destructor, `task_run_loop` | the thread starts before the object is complete; the poll asks and takes in two calls; tasks arrive while the destructor runs, and while the members are destroyed after it | the backlog never runs after destruction began; the destructor returns; results come out in order; a poll neither blocks nor goes on for ever |
| `AtomicData`, `ScopedLock` (`util/atomic_data.hpp`) | `lock_`, `condition_` (shared pointers), `data_` | `use_safely`, `load`, `store`, `wait_to_use_safely` (with and without duration), `notify_one`, `notify_all`, `scoped_lock` | waiters with different predicates share a condition variable; notifications are not made under the mutex; a lock may outlive the object | uses never overlap; predicates hold when the function runs; the mutex outlives every lock |
| `Error`, `ContextError`, error callbacks (`util/error.hpp`, `src/src/error.cpp`, `util/error_callback.hpp`) | location, severity, message, debug message | construction, `append_message`, copy, move, `==`, `make_context_error`, `throw_error`, `invoke_if_non_null` | the debug message is stored and is all that `==` looks at | it never lags behind the message; it says where the error arose |
| `GenericGuard` (`util/generic_guard.hpp`) | destroy function, arguments | `make_guard`, destructor | an init function that throws; nesting; arguments kept as values or references | destroy runs once per successful init, in reverse order, with the guard's own argument |
| `Flags`, `enum_bits` (`util/enum_flags.hpp`, `util/enum_bits.hpp`) | bits | `make_flags`, `add_flag`, `remove_flag`, `toggle_flag`, `has_flag`, `all_flags` | width of the underlying type; bits of no enumerator | flags behave as sets of enumerators |
| `next_power_of_2` (`src/src/power_of_2.cpp`), `AlmostEquals` (`src/include/google/AlmostEquals.h`) | none | pure functions | wrap around at both ends | agreement with a reference definition |
| duration (`util/duration.hpp`) | none | `to_hours` to `to_nanos`, `duration_hours` to `duration_nanos` | integer division cuts off; integer types of different widths | a span loses what its coarsest unit loses, once |
| file (`src/src/file_utils.cpp`) | a stream, a size | `read_file_to_string` | text mode reads fewer characters than were counted; other programs write to the file between two steps; failures nobody looks at | every character of the text in its place, and blanks where nothing was read |
| timer, string, container, hash, variant, uuid, CUDA helpers | at most one time point | one-liners | little | left out, see section 8 |

Interaction: `AsyncTaskRunner` calls its two queues and nothing else; the second
queue calls the ready callback on the worker's thread; `AtomicData` and
`BlockingQueue` use a standard mutex and condition variable each. Everything a
callback, a task, a predicate or a destructor does is the caller's code. The
models let it use the same object where the code can stand that, and in one place
where it cannot:

- The notify callback of a `BlockingQueue` may call the queue. To the other threads
  that is one more thread inside a member function, and the model has no other form
  of it. Destructors that `clear` runs may push, and so may the parameter of
  `push_back` when the call is over.
- Elements are constructed, moved and destroyed by the queue with the mutex held
  (`util/blocking_queue.hpp:57`, `:71`, `:83`, `:84`). A moved-from element is taken
  to have a destructor that does nothing. An element without a move constructor,
  like the `NastyObject` of the test, is copied, so what `pop_front` destroys under
  the mutex is whole, and if its destructor pushes, the thread waits for itself.
  The model has such items (`Copied`) and gets stuck as the code does. Constructors
  that use the queue are left out.
- Tasks, the ready callback, callbacks of results and captured destructors may
  schedule tasks. A callback that itself polls is left out.
- A function given to `use_safely` may call `notify_one` and `notify_all`, which lock
  nothing, but no other member function of its object.

## 2. Modules

| module | models | state and actions |
|---|---|---|
| `Monitor` | `std::mutex` with one `std::condition_variable` (an assumption about the standard library, not code of the repository) | `owner`, `sleeping`, `woken`; `Lock`, `Unlock`, `Wait` (release and sleep in one step), `NotifyOne` (any one sleeper; lost if nobody sleeps), `NotifyAll`, `Rouse` (timeout or spurious wakeup), `Relock` |
| `FifoQueue` | what `BlockingQueue` promises: every call takes effect at one instant | `log` of arrivals, how many have `left`, `out`; `Put`, `Take`, `GiveUp`, `Clear`, `Size` |
| `BlockingQueue` | `util/blocking_queue.hpp` | `queue` is `queue_`, `trash` is `queue_to_delete`; one action per critical section, and one for each thing that happens unlocked: `Notify`, `Callback`, `EndPush`, `Delete`. `Destructor` is that of an item that pushes into its queue (the `NastyObject` of the tests): run by `clear` (`DeletePushing`), at the end of `push_back` (`ParameterPushing`), or by `pop_front` under the mutex (`PopPushing`) |
| `AsyncTaskRunner` | `util/async_task_runner.hpp` over two instances of `FifoQueue` | `worker` is the position in `task_run_loop`, `client` that of each client, `processing` is `processing_`; one action per call on a queue and per step between two such calls. `life` goes on after the join: `DestroyResults` and `DestroyTasks` are the destruction of the members, `ScheduleIntoDestroyed` what a captured destructor may do to a queue that is being destroyed, after which nothing is said |
| `TaskPipeline` | what `AsyncTaskRunner` promises: tasks in order, one at a time, results once and in order | `waiting`, `running`, `finished`, `given`, `phase`; `Schedule`, `Start`, `Finish`, `Give`, `Close`, `Closed` |
| `RunnerTests` | the tests of `src/src/async_task_runner.cpp` | the script of each test as the sequence of its calls, on top of the actions of `AsyncTaskRunner`; in the last test the ready callback pushes into an instance of the detailed `BlockingQueue`, from which the test pops |
| `AtomicCell` | what `AtomicData` promises: uses at one instant, under a true predicate, and none while a `ScopedLock` lives | `cell`, `holder`, `out`; `Use`, `GiveUp`, `Hold`, `Release` |
| `AtomicData` | `util/atomic_data.hpp` | `data` is `data_`, `Torn` in the middle of a function; `refs` are the owners of the shared mutex; a predicate is the set of values for which it is true |
| `QueuePingPong` | the way the test `interleaved_data` uses two queues to keep two threads apart | the loops of the two threads on top of two instances of `BlockingQueue`; `sharedData` is written in two steps, so that two writers at once would show |
| `AtomicDataTurns`, `AtomicDataGate` | the way the tests `interleaved_atomic_data` and `atomic_data_notify_all` use `AtomicData` | the scripts of the threads on top of the actions of `AtomicData` |
| `ThreadTests` | the three tests of the two rows above, of which the program runs one | the objects of the three tests next to each other; a step is a step of a thread of the test that is run. The last number and the threads are parameters |
| `ErrorMessage` | `Error` with `create_debug_message`, `append_message`, `operator==`; `ContextError`; `throw_error`, `invoke_if_non_null` | a text is the sequence of its pieces; `error` is what each variable of type `Error` or `ContextError` holds |
| `GuardStack` | `util/generic_guard.hpp` | `stack` is the guards whose constructor has begun and whose destructor has not ended, the innermost last, each with what it has `Stored` of its argument; `held` is what init functions pushed and destroy functions will pop; one action per call, return, exception and unwinding |
| `Words` | the unsigned type of a given number of bits that the three modules below work with (the operators of the language, not code of the repository) | a value is the number its ones read as; `\|`, `&`, `^^` join, intersect and compare the places of the ones. The community module `Bitwise` says the same with recursive operators, which cannot be proved about |
| `EnumBits`, `EnumFlags` | `util/enum_bits.hpp`, `util/enum_flags.hpp` | `flags` is the bits of each variable of type `Flags<E>`, as the natural number they read as; one action per group of operators |
| `NextPowerOf2` | `src/src/power_of_2.cpp` | `value`, one action per statement |
| `Duration` | `util/duration.hpp` | `span`; one action expresses it in a unit and an integer type and makes a `Duration` of that number again |
| `FileRead` | `src/src/file_utils.cpp` | `file`, `pos`, `size`, `result`; `windows` says whether text mode translates line ends; one action per access to the file, one of them for each character, and one for other programs |
| `AlmostEquals` | `src/include/google/AlmostEquals.h`, `util/comparison_utils.hpp` | the two patterns compared, what the distance function returned, and the answer |
| `BlockingQueueProofs`, `AsyncTaskRunnerProofs`, `AtomicDataProofs`, `ErrorMessageProofs`, `GuardStackProofs`, `AlmostEqualsProofs` | theorems about the module of that name | see section 6 |
| `FunctionProofs` | theorems about `Words`, `EnumFlags`, `NextPowerOf2`, `Duration` and `FileRead` | see section 6 |
| `ThreadTestProofs` | theorems about `ThreadTests` | see section 6 |
| `MC...` | instances for TLC | symmetry, bounds on calls, fairness |

Why a whole critical section is one step: the data of `BlockingQueue` is read
and written with its mutex held only, so no other thread can tell its pieces
apart (and `MutexDiscipline` shows that the mutex is held where the model says).
The functions given to `AtomicData` may take as long as they like, so there the
beginning and the end of a function are two steps, with the data `Torn` between.
`AsyncTaskRunner` uses `FifoQueue` instead of `BlockingQueue`, which is sound
because `BlockingQueue` is proved to implement it.

Abstractions, all of them named in the modules:

- an item of a queue, like a task, is the label of the call that brought it, so
  no two are equal; `emplace_back` differs from `push_back` only in how the
  element is constructed, `empty` from `size` only in the comparison with 0, and
  `store` is a `use_safely` whose function ignores what it sees;
- which value or error a task returns, and thus which of its callbacks runs, is
  left out, except in `RunnerTests`; that the callback returns or throws is not;
- the checks of the tests that compare times are left out, and with them the test
  "runs tasks asynchronously", which has no others: nothing in the code bounds how
  long a thread takes;
- `schedule_task` with a null task throws before it touches anything;
- allocation does not fail, and constructing or moving an item does not throw or
  use the queue; a moved-from item has a destructor that does nothing;
- a call that locks the mutex twice from one thread (a function given to
  `use_safely` that uses the same object, any use by the holder of a
  `ScopedLock`) is outside the contract;
- guards take one argument, passed as a value or by `std::ref`, which stands for all
  of them;
  an init function that throws has had no effect before;
- a moved-from `Error` is not used again;
- a `Duration` is converted to and from signed integer types only, not `float`;
  the periods of the units are small numbers of which one divides the next;
- the file that is read is a regular one; what text mode does on Windows, a pair CR LF
  read as LF and an end at the mark Control-Z, is an assumption about its library;
- the bits a `FloatingPoint` holds are those it was made from, but the processor
  may replace a NaN by another NaN;
- an `AtomicData` is not copied, and a `ScopedLock` is destroyed by the thread that
  got it, never assigned to while it holds a lock (the members would then be
  assigned in the order of `atomic_data.hpp:14-17`, the mutex before the lock on
  it); the object is destroyed when no thread is inside a call on it.

Definitions with a comment that begins with "Fault:" are variants of an action
with a plausible mistake in it. No specification uses them. They document what
each property is for: with the variant in place of the action, the property is
violated.

## 3. Runs

| run | question | instance |
|---|---|---|
| `queue_safety` | every interleaving of every member function: wakeups, callbacks, discipline of the mutex, what clears hold, refinement of `FifoQueue` | 3 threads, 3 items, one of them copied, callback, spurious wakeups; 1,113,539 states |
| `queue_liveness` | no consumer sleeps for good beside an item; every call but the untimed pop returns | 3 threads, 2 items, 4 calls in all |
| `runner` | the life of a runner from its constructor to its destructor; what is left after the join; refinement of `TaskPipeline`; under fairness, the destructor and the polls return and tasks are run | 1 client, 4 tasks, polls of at most 2 updates; 177,203 states |
| `runner_tests` | every check of the runner's tests that is not about time, and that the tests end | the numbers of the tests, up to 6 tasks; 9 tests and subcases; 7,479 states |
| `data_safety` | every interleaving of every member function with any predicates; refinement of `AtomicCell` | 3 threads, 2 values, all 4 predicates, spurious wakeups; 187,221 states |
| `thread_tests` | two threads taking turns with `notify_one` after the unlock; one `notify_all` lets everybody pass; two queues as the only synchronization of two threads | the numbers of the tests, 0 to 9; 4 waiting threads, where the test has 50 |
| `utilities` | the stored debug message is never stale; nested guards, exceptions from everywhere; the text of a file | 2 variables, 2 files, 3 lines, messages of up to 2 words, 1 context; 3 guards, 2 values, arguments by value and by reference; files of up to 3 characters, CR, LF and the mark of the end among them; 1.7 million states |
| `functions` | flags as sets of enumerators; the next power of two; durations through several units | 2 variables, 3 enumerators in 5 bits; all numbers of 5 bits; 5 units, 3 widths; 24,541 states |
| `almost_equal` | the distance between two floating-point numbers | all pairs of patterns with 3 exponent and 2 fraction bits |
| `data_held_wait`, `error_file`, `power_of_zero` | three statements of the documentation that the code does not keep, section 5 | small |

What the properties say is written above each of them; these are the ones that
carry most:

- `NoLostWakeup`: while a consumer sleeps, each queued item has a thread under
  way that takes it or rouses one that can. This is the argument for notifying
  after the unlock, and for `notify_one` instead of `notify_all`; it also covers
  a notification that reaches a consumer whose timeout has passed.
- `ImplementsFifo`, `ImplementsCell`: linearizability of the two shared objects.
- `MutexDiscipline`: of all that may call the queue again, only the destruction of a
  copied item in `pop_front` runs with the mutex held by its own thread.
- `TrashInArrivalOrder`: overlapping clears share no item, and each holds a run of
  consecutive arrivals. That a clear deletes its run from the front is how `Delete`
  is written, after `blocking_queue.hpp:108-111`; no property is needed to say so.
- `ImplementsPipeline`: behind two queues, a thread and a sentinel is one pipeline.
  Each task runs once, in order, each result comes out once, in the same order,
  and the destructor returns only when nothing runs and nothing can run any more.
- `FateOfTasks`: after the join every task that was scheduled before the sentinel has
  run and its result is there, except for those the destructor cleared. What the
  destruction of the members deletes came behind the sentinel.
- `BacklogNeverRuns`, `CallsReturn`: what waits when the destructor begins
  never runs, though tasks keep arriving from the running task and from
  destructors, and the sentinel is reached all the same. Tasks that arrive
  between `clear` and the sentinel do run; those behind it are dropped.
- `SeenIsThere`: with one client the check-then-pop of
  `invoke_callbacks_for_finished_tasks` is safe, and so is a call made because it
  has returned true. With two clients neither is: one may take the result the
  other has seen. The repository promises nothing about that, so no run claims it.
- `ChecksHold`, `TestsEnd`: the last test of the runner knows from a queue of its
  own, filled by the ready callback, that all results are there before it polls.
  A callback that came before its result, or not for each, would show.
- `WritesInTurn`, `PingPongEnds`: two queues alone order the writes of two threads,
  although a push notifies after its item may have been taken and answered.
- `HeldByGuards`: every init function that returned is undone once, the youngest
  first, whichever way scopes are left and wherever guards are nested.
- `GivenWhatInitLeft`: an argument passed as a value is the guard's own. Whatever the
  program or the functions of other guards, by reference, do to the caller's variable,
  the destroy function gets what the init function left.
- `EqualUpToTheRest`: flags with the same enumerators are equal or differ in every
  bit that no enumerator has. They may differ: `all_flags` is not equal to all
  flags added one by one.
- `LostOnce`: however often a span is turned into numbers of whatever units, in
  whatever order, it is the original cut off towards zero at the coarsest unit,
  as long as the numbers fit the types asked for.
- `TextOfFile`: nobody looks at whether `read` got what `tellg` announced, so the
  string may end in blanks, as it does on Windows for any text of more than a line.
  If no other program interferes, the rest of it is the text of the file, every
  character in its place, and all of the file where text mode does nothing.
- `ReturnsNextPower`: the least power of two that is not less, for every number but
  0 (section 5), and 0 where the type has none.
- `AnswersByPlace`, `AnswersByUlps`: the arithmetic on bit patterns counts
  representable numbers, also across zero and up to infinity; no NaN is almost
  equal to anything.
- `MutexOutlivesLock`: the order of the members of `ScopedLock` is what keeps the
  mutex alive until it is unlocked, when the object is gone already.

### Bounds, and why they are enough

- Three threads: a sleeper, a thread that notifies and a thread that takes the
  item in between are the actors of every race on a condition variable.
- Three items in `queue_safety`: one being deleted, one that its destructor
  pushes, one that another thread pushes. One of them is copied where others are
  moved, so that a run may lock up and may not. Items are used once, so the state
  space is finite without a bound on calls.
- Four tasks in `runner`: when the destructor begins, one can run and one wait,
  one arrives before the sentinel and one behind it; without a destructor, a poll
  that ends at its limit leaves more than it took.
- `Limits = {2}` in `runner`: a poll that ends at its limit and one that ends early.
- Five units, the factors between them 3, 2, 4 and 2, and widths of 3, 5 and 8 bits:
  spans of either sign that fit all of the types, some of them, or the widest
  only. A file of three characters can shrink and grow by more than one, and has
  room for a line end with something before or after it.
- Three guards: two nested and one made inside a function of either.
- Three enumerators in five bits: two bits of no enumerator, so that they could
  differ from each other. Five bits take three shifts, so that the doubling of the
  shift matters and the last shift reaches beyond the number.
- Three exponent and two fraction bits: denormalized, normalized and infinite
  numbers, several NaNs, and more numbers than the tolerance reaches.
- `MaxCalls` in `queue_liveness` and `data_held_wait` bounds the calls made
  together; the mutex is not fair, and only a bound on the calls of the others
  makes starvation impossible.
- `MaxWords` in `ErrorMessage`: one appended word shows all that appending does.
- The runs that follow tests have the tests' own numbers and no other bound, with
  one exception: four threads wait at the gate of `atomic_data_notify_all`, where the
  test has 50. `EverybodyCountsOnce` and the progress theorems of section 6 are about
  any number.

Symmetry is used in the runs that check invariants and refinement only.
Deadlock checking is off where the system really may stop: threads that have
used up their calls, a destroyed object, a client that does not call any more, and
in `queue_safety` a queue that a copied item has locked up. (While somebody sleeps
there, the spurious wakeup is always possible, so the check would say little;
`NobodyIsStuck` of section 6 is the statement that means something.)

## 4. Fairness

`queue_liveness`, `thread_tests`, `runner_tests`, `data_held_wait`: weak fairness of
the steps of each thread that is inside a member function, because the operating
system schedules runnable threads and a timeout passes. No fairness for the
mutex, for calls, or for spurious wakeups (which the liveness runs leave out:
infinitely many of them could keep the mutex from a thread for ever). The
functions passed in return. In the two runs that follow tests the threads also
go on between their calls, as the loops of the tests do. In `data_held_wait` a
`ScopedLock` need not be destroyed.

`runner`: weak fairness of the worker, of each client inside a call and
of the constructor; tasks and callbacks return. No client is obliged to call
anything, and an exception of a task ends the program.

## 5. Where documentation and code disagree

- `data_held_wait`: `util/atomic_data.hpp:78` calls the duration "the maximum
  length of time this function will wait before returning", but
  `wait_to_use_safely` locks the mutex first, for as long as that takes, and
  locks it again after the timeout. While somebody keeps a `ScopedLock`, the
  timed wait does not return.
- `error_file`: `util/error.hpp:69` promises "[file:line] error message" and
  `src/src/error.cpp:19` says that the file is prepended; `create_debug_message`
  leaves the file out. Since `operator==` compares debug messages, errors from
  the same line of different files with the same message are equal.
- `power_of_zero`: `util/power_of_2.hpp:11` promises "The next power of 2 greater than
  or equal to `value`", which is 1 for 0; `next_power_of_2` returns 0. The test expects
  that, with the comment "Some underflow/overflow happening here :/"
  (`src/src/power_of_2.cpp:35`).

Three more things the models reach that no text of the repository denies, so no run
counts them as a violation:

- An element that is copied, and whose destructor pushes into its queue, locks the
  queue up when it is popped (`util/blocking_queue.hpp:84`). `NastyObject` in the test
  is such an element; the test clears the queue and never pops from it.
- A task left behind the sentinel is deleted with `tasks_to_do_`, after the join. If
  the destructor of what it has captured schedules another task, it pushes into a
  queue that is being destroyed, which is undefined (`util/async_task_runner.hpp:94`).
- On Windows, `read_file_to_string` returns as many characters too many as the file has
  line ends, all of them blanks at the end, because the stream is opened in text mode
  and sized in characters of the file (`src/src/file_utils.cpp:12`).

## 6. Proofs

All theorems are checked by TLAPS to the last leaf. None has an assumption of its
own besides those named here; the runs evaluate the assumptions of the modules.

### BlockingQueueProofs

For every finite set of threads, every set of items, with and without callback and
spurious wakeups:

| theorem | statement |
|---|---|
| `TypeCorrect` | `Spec => []TypeOK` |
| `MutexIsDisciplined` | `Spec => []MutexDiscipline` |
| `NoWakeupIsLost` | `Spec => []NoLostWakeup` |
| `CallbackOncePerItem` | `Spec => []CallbackPerItem` |
| `TrashIsInOrder` | `Spec => []TrashInArrivalOrder` |
| `BlockingQueueIsFifo` | `Spec => ImplementsFifo` |
| `SomebodyGoesOn` | `Spec => []NobodyIsStuck` |
| `EveryStepCounts` | `Spec => [][FewerStepsLeft]_vars` |

Assumptions: `Threads` is finite, `Nobody` is no thread, `NoItem` is no item, and
the items that are copied are items. The inductive invariant is `TypeOK /\
MutexDiscipline /\ PushesBringNewItems`: the last part says that a push under way
brings an item that is not in the log yet, which the abstract `Put` demands.
`NoLostWakeup` is inductive on top of it, unless a thread has locked itself up,
which lasts (`StaysLockedUp`). The argument counts: a push adds one item and one
thread that will notify; a notification turns the notifier into a roused thread or
finds nobody asleep; a thread leaves `Bound` only by taking an item or by finding
the queue empty. The refinement needs `QueueIsRestOfLog` besides, that the queue is
the tail of the log from the number of items that have left. `TrashInArrivalOrder`
needs that, that nothing arrives twice (`ArrivedOnce`), and itself in two parts,
`TrashInRuns` and `NothingInTwoTrashes`: a swap takes a run that starts where
everything that has left ends, and deleting only shortens a run at its front.

The last two are what is not temporal in a proof that the calls return. As long as
a thread is inside a member function, some thread can make a step, unless all that
are sleep in `pop_front` and the queue is empty, or a copied item has locked the queue
up; and each such step makes the
natural number `StepsLeft` smaller: up to eight steps for a call, those its
notification brings another thread among them, and one for each item in the queue
or in a trash. Calls, destructors that push and spurious wakeups may make it
larger; without them the calls come to their end. The number is a count of pairs
(`PairsOfTwo`, `FewerPairs`), because a sum over a set of any size would need an
induction rule.

### AsyncTaskRunnerProofs

For every set of clients, every set of tasks and all limits of the polls:

| theorem | statement |
|---|---|
| `TypeCorrect` | `Spec => []TypeOK` |
| `BacklogIsDropped` | `Spec => []BacklogNeverRuns` |
| `ProcessingIsTrue` | `Spec => []ProcessingWhileRunning` |
| `TasksMeetTheirFate` | `Spec => []FateOfTasks` |
| `WhatWasSeenIsThere` | `Spec => []SeenIsThere`, if there is one client |
| `AsyncTaskRunnerIsPipeline` | `Spec => ImplementsPipeline` |
| `DestructorIsNeverStuck` | `Spec => []DestructorGoesOn` |
| `EveryStepOfTheWorkerCounts` | `Spec => [][WorkerComesNearer]_vars` |
| `EveryStepOfAPollCounts` | `Spec => [][PollComesNearer]_vars` |

The hypothesis of `WhatWasSeenIsThere` is that any two clients are the same; with
two the property is false (section 3). The inductive invariant is the conjunction of
eight parts. None of the properties is inductive alone: `BacklogNeverRuns` needs
`LaunchedInOrder`, that what the worker has begun had left the queue before and was
not among what was cleared, and this needs that no label is queued twice
(`NoneTwice`). `FateOfTasks` needs `ClientsAtRest`, that the destructor runs alone
and joins before it goes on, and `SentinelEndsLoop`: the sentinel is in the log only
after the destructor has pushed it, and the worker has left its loop exactly when
the sentinel has left the queue. With `LaunchedInOrder`, what has left the queue is
then what was begun, what was cleared and the sentinel, and nothing begun is still
in hand. The constructor's race with the thread is `NothingBeforeConstruction`:
nothing can be scheduled before `processing_` is initialized, so the worker is still
at its first pop. The refinement follows step by step: popping a task is `Start`,
publishing its result `Finish`, popping that result `Give`, clearing the queue
`Close`, joining the thread `Closed`; the other steps are invisible. What waits
behind the sentinel is cut off in the mapping, because it never runs.

The last three are the steps of `CallsReturn` and `TasksFinish` that are not
temporal. Until the destructor and the destruction of the members are over, the
thread they run on or the worker can go on, unless a task has thrown or something
has been pushed into a queue that is being destroyed; the invariant behind it,
`DestructorIsThere`, adds that some client is destroying the runner, that the
sentinel is pushed as soon as the join waits for it, and that the result of the task
in hand has not been published. For each place of the task queue, the number
`StepsUntil(place)` gets smaller with every step of the worker and larger with none,
so a task or the sentinel is reached although tasks go on arriving from other tasks,
callbacks and destructors: nothing that arrives later gets before it. Likewise
`PollSteps(c)`, which starts at the limit of the poll, so that a poll ends although
tasks finish all the time. With the fairness of section 4 the liveness properties
follow by the usual rule.

### AtomicDataProofs

For every set of threads, values and predicates:

| theorem | statement |
|---|---|
| `TypeCorrect` | `Spec => []TypeOK` |
| `MutexIsDisciplined` | `Spec => []MutexDiscipline` |
| `MutexOutlivesEveryLock` | `Spec => []MutexOutlivesLock` |
| `AtomicDataIsAtomic` | `Spec => ImplementsCell` |

Assumptions: `Nobody` and `"this"` are no threads, `Torn` is no value, the
predicate that is always true is among the predicates. The inductive invariant
is `TypeOK /\ MutexDiscipline /\ ReferencesHeld /\ TornOnlyInFunc`. It is needed
whole: `TypeOK` alone is not inductive, because only the mutex keeps a function
from being called with torn data, and the mutex is of use only as long as
somebody owns it. For the refinement, `CellAgrees` says what the abstract cell
is, seen from the one thread that has the mutex; it makes every step either one
of the four abstract steps or invisible.

### ThreadTestProofs

For the three tests in which threads share an object, in the specification that
`thread_tests` checks:

| theorem | statement | for |
|---|---|---|
| `NumbersComeInOrder` | `TestsSpec => []InOrder` | any odd last number |
| `EverybodyCountsOnce` | `TestsSpec => []EachCountsOnce` | any finite set of waiting threads |
| `QueuesOrderWrites` | `TestsSpec => []WritesInTurn` | any number at which the loops end |
| `NobodyIsLeftAsleep` | `TestsSpec => []SomebodyGoesOn` | all of these |
| `TestsComeToAnEnd` | `TestsSpec => [][FewerStepsLeft]_testVars` | all of these |

`ThreadTests` assumes that the last number is odd, as 9 is, that the threads are
different and finitely many, and that the marks for a free mutex, for data in
the middle of a change and for no item are neither threads nor values. There is an inductive
invariant for each test, and `TestsInv` says that the one of the test that is run
holds. The first two rest on `AtomicDataProofs`, whose lemmas are instantiated
with the threads, values and predicates of each test (`TurnDataInv`,
`GateDataInv`): while its invariant holds, every step of the test is a step of
`AtomicData` (`TurnsAreSteps`, `GateStepsAreSteps`), because the value a function
leaves fits the type. That again needs the invariant of the test: nobody goes
beyond the last number, since a thread that has written its last one never calls
again, and nobody counts itself twice, since the threads that have passed are
fewer than all until the last one has. The link between the counter and the shared
data is the value a function was called with (`seen`): as long as it runs, no
other thread can change what it has read.

`QueuesOrderWrites` is about two detailed queues at once. The invariant
says that the next number is in one place of seven, with a thread that sends it,
in a queue, with a thread that has got it, or at the end, and that it is the
length of `sharedData` wherever it is. Two lemmas for each queue say all a push and
a pop do to the thread and to the queue; what the mutex and the condition variable
do plays no part in the safety of this test, only in its progress.

Progress is what the last two theorems are about. The invariant `TestsAwake` adds
for each test who may be asleep. In the first, a thread sleeps only on the
other's number, and whose turn it is has been woken, or will be by a notification
that is under way. In the second, nobody sleeps once the opener has
notified, and the opener joins the others only after that. In the third, a pop sleeps
only while the next number is somewhere else. So one of the threads can make a
step until the test is through (`SomebodyGoesOn`). And every step leaves fewer:
there are seven for each number of the first test and twelve for each of the third,
and a finite set of steps, of which each takes one away, in the second. A
notification that finds nobody, and a thread that wakes up and finds the predicate
false, are among the steps. So whatever the scheduler does, the tests come to an
end; under weak fairness of each thread that is `BothFinish`, `EverybodyPasses`
and `PingPongEnds`, for any numbers.

Here, in `BlockingQueueProofs` and in `AsyncTaskRunnerProofs`, that a thread "can
make a step" is stated by its guards (`TurnMoves`, `Moves`, `WorkerMoves` and so on),
since the prover does not deal with `ENABLED`. TLC has found the two equal in every
state of small instances (three threads; two clients and three tasks; the tests).

### ErrorMessageProofs, GuardStackProofs

For all files, lines and words; for every set of values and any number of guards:

| theorem | statement |
|---|---|
| `ComparingTexts` (errors) | `Spec => []EqualMeansSameText` |
| `EachInitIsUndone` (guards) | `GuardSpec => []HeldByGuards` |
| `DestroyGetsWhatInitLeft` (guards) | `GuardSpec => []GivenWhatInitLeft` |

The invariant of `ErrorMessage` says that the debug message of each error is the
one `create_debug_message` would make now. Equal debug messages come from equal
messages and lines, because the second piece of each says whether there is a line,
and so where the message begins; that lines are integers is all that is assumed
(and that the bound on messages is a positive number). The invariant of
`GuardStack` adds that guards lie on the stack in the order of their making: only
then is the value on top of `held` the one the innermost guard will pop. For the
arguments it says that a guard that was passed a value never holds a reference and
holds what was passed until its init function returns (`KeepsItsOwn`), and that what
an init function pushed is what it left (`LeftByInit`). That a reference is no value is
assumed.

### FunctionProofs, AlmostEqualsProofs

| theorem | statement | for |
|---|---|---|
| `FlagsActAsSet` | `Spec => []ActsAsSet` of `EnumFlags` | every width, every enumeration that fits it, any variables |
| `FlagsEqualUpToTheRest` | `Spec => []EqualUpToTheRest` | the same, if the bits passed to the constructor are those of enumerators |
| `NextPowerIsReturned` | `PowerSpec => []ReturnsNextPower` | every width and every number of that width but 0 |
| `TextIsOfFile` | `FileSpec => []TextOfFile` | all characters and files |
| `CoarsestUnitDecides` | `SpanSpec => []LostOnce` | all units one of which divides the other, all widths, all spans that are integers |
| `TypeCorrect` (`AlmostEquals`) | `Spec => []TypeOK`: the unsigned arithmetic never wraps around | every number of exponent and fraction patterns, every tolerance |
| `AnswersAreRight` | `Spec => []AnswersByPlace` | the same |
| `AnswersAreRightForValues` | `Spec => []AnswersByUlps` | the same |

`Words` assumes at least one bit, `EnumFlags` what the code asserts (a finite
enumeration without gaps that has no more values than the type has bits) and that
raw bits are values of the type, `FileRead` that CR, LF and the mark are different,
`NextPowerOf2` that the shifts double from 1 until
they reach the width, as 1 to 32 do for 64 bits.

Everything about flags rests on one fact: a value is determined by the places of
its ones, and each set of places is that of a value (`DigitsDetermine`,
`DigitsExist`). Both are inductions over the number of places; they are made by the
least counterexample (`LeastNumber`), since no installed prover can use the
library's induction rule. With it `|`, `&`, `^^`, the complement, `to_bits` and the
shift have the ones they should (`OnesOfOperators`, `OnesOfComplement`,
`OnesOfPower`, `OnesOfShift`), the members of flags are their ones below the number
of enumerators, the rest is those above (`MembersAreOnes`, `RestIsOnes`), and an
operation on flags is one on sets of places. `make_flags` goes through its arguments
recursively; that it ends with the join of all of them is again a least
counterexample (`JoinedAreOnes`). `EqualUpToTheRest` is not inductive: its invariant
says that each variable has all of the places above the enumerators or none. The
invariant of `next_power_of_2` says that after shifts that add up to m-1 the ones of
`value` are the places at most m-1 below a one of the decremented number; when m has
passed the width these are all places up to the highest one.

`TextIsOfFile` takes the contents to be sequences of characters. Its invariant
counts the places that belong to the text: as long as nobody has written to the
file, the characters read are those of the text up to `pos`, each in its place, and
none of the places passed holds the mark of the end (`ReadSoFar`). `Duration`
assumes that of two units one divides the other. For durations, the invariant
relates the span to the original, cut off at the coarsest unit so far; the lemmas
`CoarserUnit`, `FinerUnit` and `TruncatedAgain` say that cutting off twice is
cutting off at the coarser of the two units.

`AlmostEquals` assumes at least one pattern of each part and a tolerance that is a
natural number. A number's place counts from zero in both directions
(`BiasedIsOrdinal`), the distance function returns the difference of two places
(`DistanceIsDifference`), and everything up to infinity is a number
(`NumbersEndAtInfinity`). The inductive invariant is `TypeOK /\ AnswersByPlace`.
That places count values takes more: values grow with their places
(`ValuesGrow`), every place up to infinity is taken (`PlacesAreTaken`), so the
representable values between two numbers are as many as the places
(`PlacesCountUlps`). The values have powers of two in them; that these double and
grow is had by counting subsets (`PowersCountSubsets`).

### Only model-checked

- The liveness properties: fairness and `ENABLED` are beyond the prover. For the
  queue, the runner and the three tests that share objects, what is left to
  believe is the temporal rule itself: as long as somebody can go on, somebody
  does, and a natural number gets smaller only so often. For the
  queue this gives `CallsReturn` when finitely many calls are made, as in
  `queue_liveness`: the mutex is not fair, and who keeps calling may starve others.
- Deadlock freedom of `AtomicData` outside its two tests.
- `ChecksHold` of `RunnerTests`: its scripts have fixed numbers and its
  constants are names, so the run has looked at everything there is.

## 7. Plan

Done: all modules of section 2, their runs, and the proofs of section 6. Left:

- For `AtomicData` with any callers, what `SomebodyGoesOn` and `EveryStepCounts` are
  for `BlockingQueue`. Its waits may last for ever, so progress depends on who
  calls; for the callers of the two tests it is proved.
- `RunnerTests` for scripts with any numbers of tasks.

## 8. Not modelled

`Result` is an alias of a library type. `timer` keeps one time point and prints
differences. `string`, `hash_utils`, `variant_utils`, `type_string`,
`priority_tag` and `ignore` are stateless one-liners, most of them resolved by the
compiler. `container_utils` calls one standard algorithm in each function; the one
thing that can go wrong, removing by a reference to an element, is the caller's.
`uuid` is not part of the build and forwards to a library. The CUDA and OptiX
helpers turn a vendor's status codes into exceptions. Build files hold no program
logic. The tests of `Flags` in `src/src/enum_flags.cpp` are single values of
operators that `ActsAsSet` compares with sets for all values. The variant of
`almost_equal` for CUDA is never compiled: `comparison_utils.hpp:6` asks for
`__CUDACC`, the compiler defines `__CUDACC__`.

Outside the models of modelled parts are: copying an `AtomicData`, an element
whose constructor or move throws or uses the queue, a callback that polls the
runner it was called by, assigning to a `ScopedLock` that holds a lock, a
function that throws while it changes an `AtomicData`, a runner destroyed by its
own task, numbers of type `float` in `Duration`, opening a directory in
`read_file_to_string`, and callers that break a precondition named in section 2.
