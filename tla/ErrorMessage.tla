---------------------------- MODULE ErrorMessage ----------------------------
(***************************************************************************)
(* ltb::util::Error: where an error arose, how severe it is, its message,  *)
(* and a second message for debugging that is made from the others once,   *)
(* when the error is constructed, and that operator== compares.  A         *)
(* ContextError holds an Error and a context, and answers with the texts   *)
(* of its error.  A text is the sequence of the pieces it is concatenated  *)
(* from.                                                                   *)
(***************************************************************************)
EXTENDS Integers, Sequences

CONSTANTS Slots,      \* the variables that hold errors
          Files, Lines, Words, Contexts,
          NoError,    \* in a variable that holds none, or a moved-from one
          NoContext,  \* of an Error that is not part of a ContextError
          MaxWords    \* bound: words in a message

ASSUME LinesAssumption == Lines \subseteq Int
ASSUME MaxWordsAssumption == MaxWords \in Nat \ {0}

VARIABLES error,    \* the errors in the variables
          thrown    \* the text of the last exception thrown for an error

vars == <<error, thrown>>

Severities == {"Error", "Warning"}

\* create_debug_message: "[:line] message", or "[] message" without a line.
CreateDebugMessage(location, message) ==
  <<"[">> \o (IF location.line >= 0 THEN <<":", location.line>> ELSE <<>>)
          \o <<"] ">> \o message

NewError(location, severity, message) ==
  [location |-> location, severity |-> severity, message |-> message,
   debug |-> CreateDebugMessage(location, message), context |-> NoContext]

Held == {error[s] : s \in Slots} \ {NoError}

Init ==
  /\ error = [s \in Slots |-> NoError]
  /\ thrown = <<>>

\* LTB_MAKE_ERROR and LTB_MAKE_WARNING.
Make(s, file, line, severity, w) ==
  /\ error' = [error EXCEPT ![s] =
       NewError([file |-> file, line |-> line], severity, <<w>>)]
  /\ UNCHANGED thrown

\* Fault: the message of a copy is extended, its debug message is not.
AppendInPlace(s, e, w) ==
  /\ Len(e.message) < MaxWords
  /\ error' = [error EXCEPT ![s] = [e EXCEPT !.message = Append(@, w)]]
  /\ UNCHANGED thrown

AppendMessage(s, e, w) ==
  /\ Len(e.message) < MaxWords
  /\ error' = [error EXCEPT ![s] = NewError(e.location, e.severity, Append(e.message, w))]
  /\ UNCHANGED thrown

\* Fault: only the message is assigned to a variable that holds an error.
AssignMessage(s, e) ==
  /\ error' = [error EXCEPT ![s] =
       IF @ = NoError THEN e ELSE [@ EXCEPT !.message = e.message]]
  /\ UNCHANGED thrown

Assign(s, e) ==
  /\ error' = [error EXCEPT ![s] = e]
  /\ UNCHANGED thrown

\* The error of t is moved into s.
Move(s, t) ==
  /\ s # t /\ error[t] # NoError
  /\ error' = [error EXCEPT ![s] = error[t], ![t] = NoError]
  /\ UNCHANGED thrown

\* make_context_error; the context of a ContextError is not kept.
MakeContextError(s, e, c) ==
  /\ error' = [error EXCEPT ![s] = [e EXCEPT !.context = c]]
  /\ UNCHANGED thrown

\* throw_error, called directly or as a callback.
ThrowError(e) ==
  /\ thrown' = e.debug
  /\ UNCHANGED error

\* A callback that stores what it gets; ignore_errors is no callback at all.
InvokeIfNonNull(callback, s, e) ==
  \/ callback = "ignore_errors" /\ UNCHANGED vars
  \/ callback = "throw_error" /\ ThrowError(e)
  \/ callback = "store" /\ Assign(s, [e EXCEPT !.context = NoContext])

\* operator==.
Equal(e, f) == e.debug = f.debug

Next ==
  \/ \E s \in Slots, file \in Files, line \in Lines, v \in Severities, w \in Words :
       Make(s, file, line, v, w)
  \/ \E e \in Held :
       \/ \E s \in Slots :
            \/ Assign(s, e)
            \/ \E w \in Words : AppendMessage(s, e, w)
            \/ \E c \in Contexts : MakeContextError(s, e, c)
            \/ \E callback \in {"ignore_errors", "throw_error", "store"} :
                 InvokeIfNonNull(callback, s, e)
  \/ \E s, t \in Slots : Move(s, t)

Spec == Init /\ [][Next]_vars

\* However an error came about, equal errors have the same message, and the
\* same line or none at all: the debug message never lags behind the others.
EqualMeansSameText ==
  \A e, f \in Held : Equal(e, f) =>
    /\ e.message = f.message
    /\ \/ e.location.line = f.location.line
       \/ e.location.line < 0 /\ f.location.line < 0

\* "Error message with file and line number [file:line] error message": the
\* debug message says in which file the error arose, if it says the line.
DebugNamesFile ==
  \A e \in Held : e.location.line >= 0 => \E i \in DOMAIN e.debug : e.debug[i] = e.location.file

=============================================================================
