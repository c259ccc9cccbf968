----------------------------- MODULE GuardStack -----------------------------
(***************************************************************************)
(* util/generic_guard.hpp: a GenericGuard calls an init function when it   *)
(* is made and a destroy function when it is destroyed, with the arguments *)
(* it was made with.  They are passed as values, and then the guard has    *)
(* its own, or as references, by std::ref.                                 *)
(* The program nests guards as it likes, also inside the functions they    *)
(* call, and exceptions may leave any function.                            *)
(* Init functions push a value onto something that destroy functions pop   *)
(* from, as in the header's example.                                       *)
(***************************************************************************)
EXTENDS Integers, Sequences, SequencesExt

CONSTANTS Values,    \* of the argument
          Reference, \* what a guard stores that refers to the caller's variable
          MaxGuards  \* bound: guards made in all

ASSUME ReferenceAssumption == Reference \notin Values
ASSUME MaxGuardsAssumption == MaxGuards \in Nat

VARIABLES x,           \* the caller's variable that is passed as the argument
          stack,       \* the guards whose phase is "init", "alive" or "destroy"
          held,        \* what init functions pushed and nothing has popped yet
          made,        \* how many guards have been made
          unwinding,   \* an exception is on its way
          terminated   \* std::terminate has been called

guardVars == <<x, stack, held, made, unwinding, terminated>>

\* How a function can be called: with the argument, without it, or both.
Callable == SUBSET {"args", "none"} \ {{}}

Running == ~unwinding /\ ~terminated
Top == Last(stack)
InPhase(phase) == stack # <<>> /\ Top.phase = phase
SetTop(guard) == stack' = Append(Front(stack), guard)

\* call_func prefers the call with the arguments.
TakesArgument(func) == "args" \in func

GuardInit ==
  /\ x \in Values
  /\ stack = <<>> /\ held = <<>>
  /\ made = 0
  /\ unwinding = FALSE /\ terminated = FALSE

\* The program assigns to its variable.
SetVariable(v) ==
  /\ Running
  /\ x' = v
  /\ UNCHANGED <<stack, held, made, unwinding, terminated>>

\* Fault: the types of the arguments are not decayed, and a variable that is
\* passed as a value is stored as a reference to it.
StoredUndecayed(argument) == Reference

\* decay and make_tuple: a copy of the value or of the reference that is passed.
Stored(argument) == argument

NewGuard(argument, init, destroy) ==
  [id |-> made + 1, phase |-> "init",
   passed |-> argument,  \* history
   arg |-> Stored(argument),
   init_takes |-> TakesArgument(init), destroy_takes |-> TakesArgument(destroy),
   unwound |-> FALSE]  \* not destroyed because of an exception

\* make_guard: the argument, or the reference to it, is copied, then the init
\* function is called.
MakeGuard(argument, init, destroy) ==
  /\ Running /\ made < MaxGuards
  /\ made' = made + 1
  /\ stack' = Append(stack, NewGuard(argument, init, destroy))
  /\ UNCHANGED <<x, held, unwinding, terminated>>

\* The init function pushes a value and returns.  If it takes the argument, it
\* got the guard's own one, may have changed it, and pushed what it left there.
InitReturns(v) ==
  /\ Running /\ InPhase("init")
  /\ held' = Append(held, [id |-> Top.id, value |-> v])
  /\ SetTop([Top EXCEPT !.phase = "alive",
                        !.arg = IF Top.init_takes /\ @ # Reference THEN v ELSE @])
  /\ x' = IF Top.init_takes /\ Top.arg = Reference THEN v ELSE x
  /\ UNCHANGED <<made, unwinding, terminated>>

\* The end of the guard's scope: ~GenericGuard calls the destroy function.
LeaveScope ==
  /\ Running /\ InPhase("alive")
  /\ SetTop([Top EXCEPT !.phase = "destroy"])
  /\ UNCHANGED <<x, held, made, unwinding, terminated>>

\* The destroy function has popped and returned.  It may have changed its argument.
DestroyReturns(v) ==
  /\ Running /\ InPhase("destroy")
  /\ x' = IF Top.destroy_takes /\ Top.arg = Reference THEN v ELSE x
  /\ held' = Front(held)
  /\ stack' = Front(stack)
  /\ unwinding' = Top.unwound
  /\ UNCHANGED <<made, terminated>>

\* Whatever runs at the moment throws, or something it calls does.
Throw ==
  /\ Running
  /\ unwinding' = TRUE
  /\ UNCHANGED <<x, stack, held, made, terminated>>

\* Some function between two guards catches the exception.
Catch ==
  /\ unwinding /\ ~terminated
  /\ unwinding' = FALSE
  /\ UNCHANGED <<x, stack, held, made, terminated>>

\* Fault: the guard is destroyed like any other.
UnwindInitWithDestroy ==
  /\ unwinding /\ ~terminated /\ InPhase("init")
  /\ SetTop([Top EXCEPT !.phase = "destroy", !.unwound = TRUE])
  /\ unwinding' = FALSE
  /\ UNCHANGED <<x, held, made, terminated>>

\* The init function throws out of the constructor: the guard has never lived.
UnwindInit ==
  /\ unwinding /\ ~terminated /\ InPhase("init")
  /\ stack' = Front(stack)
  /\ UNCHANGED <<x, held, made, unwinding, terminated>>

\* The exception leaves the scope of a guard.
UnwindScope ==
  /\ unwinding /\ ~terminated /\ InPhase("alive")
  /\ SetTop([Top EXCEPT !.phase = "destroy", !.unwound = TRUE])
  /\ unwinding' = FALSE
  /\ UNCHANGED <<x, held, made, terminated>>

\* An exception leaves a destroy function, and with it a destructor, or main.
Terminate ==
  /\ unwinding /\ ~terminated
  /\ stack = <<>> \/ InPhase("destroy")
  /\ terminated' = TRUE
  /\ UNCHANGED <<x, stack, held, made, unwinding>>

GuardNext ==
  \/ \E v \in Values : SetVariable(v)
  \/ \E argument \in {x, Reference}, init, destroy \in Callable : MakeGuard(argument, init, destroy)
  \/ \E v \in Values : InitReturns(v)
  \/ LeaveScope
  \/ \E v \in Values : DestroyReturns(v)
  \/ Throw
  \/ Catch
  \/ UnwindInit
  \/ UnwindScope
  \/ Terminate

GuardSpec == GuardInit /\ [][GuardNext]_guardVars

----------------------------------------------------------------------------

\* The guards whose init function has returned and whose destroy function has not.
Initialized == {i \in DOMAIN stack : stack[i].phase # "init"}

\* What is held is what the living guards pushed, in the order they were made:
\* each init that returned gets one destroy, the youngest first, and an init
\* that threw gets none, whichever way the scopes are left, and however deep
\* guards are made inside the functions of others.
HeldByGuards ==
  /\ {held[i].id : i \in DOMAIN held} = {stack[i].id : i \in Initialized}
  /\ \A i, j \in DOMAIN held : i < j => held[i].id < held[j].id

\* What a function of the guard gets that takes the argument.
Argument(guard) == IF guard.arg = Reference THEN x ELSE guard.arg

\* A guard whose argument was passed as a value has it to itself.  When the guard
\* dies, its destroy function gets what its init function left in the argument,
\* or, if that did not take it, what the argument was when the guard was made,
\* whatever the caller has assigned to the variable meanwhile and whatever the
\* functions of other guards have done to it through references.
GivenWhatInitLeft ==
  \A j \in DOMAIN stack :
    stack[j].phase = "alive" /\ stack[j].passed # Reference =>
      /\ ~stack[j].init_takes => Argument(stack[j]) = stack[j].passed
      /\ stack[j].init_takes =>
           \A i \in DOMAIN held : held[i].id = stack[j].id => Argument(stack[j]) = held[i].value

=============================================================================
