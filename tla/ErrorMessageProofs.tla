------------------------- MODULE ErrorMessageProofs -------------------------
(***************************************************************************)
(* Proofs about ErrorMessage, for all variables, files, lines, words and   *)
(* contexts.                                                               *)
(***************************************************************************)
EXTENDS ErrorMessage, SequenceTheorems, TLAPS

\* What a debug message is made of.
Pieces == {"[", ":", "] "} \cup Int \cup Words

\* How many pieces stand before the message.
Ahead(location) == IF location.line >= 0 THEN 4 ELSE 2

Locations == [file : Files, line : Lines]

\* The errors that a constructor leaves: nothing is said of the debug message
\* but that it was made from the others.
Errors ==
  {e \in [location : Locations, severity : Severities, message : Seq(Words),
          debug : Seq(Pieces), context : Contexts \cup {NoContext}] :
     e.debug = CreateDebugMessage(e.location, e.message)}

\* Every variable holds such an error, or none.
Inv == error \in [Slots -> Errors \cup {NoError}]

-----------------------------------------------------------------------------
\* What a debug message begins with: a bracket, and the line if there is one.
Opening(line) == <<"[">> \o (IF line >= 0 THEN <<":", line>> ELSE <<>>) \o <<"] ">>

\* The two forms of it.
LEMMA Openings ==
  ASSUME NEW line \in Int
  PROVE  /\ Opening(line) \in Seq(Pieces)
         /\ line >= 0 => /\ Len(Opening(line)) = 4
                         /\ Opening(line)[2] = ":" /\ Opening(line)[3] = line
         /\ line < 0 => Len(Opening(line)) = 2 /\ Opening(line)[2] = "] "
<1>1. PICK open \in Pieces : open = "["
  BY DEF Pieces
<1>2. PICK colon \in Pieces : colon = ":"
  BY DEF Pieces
<1>3. PICK number \in Pieces : number = line
  BY DEF Pieces
<1>4. PICK close \in Pieces : close = "] "
  BY DEF Pieces
<1>5. PICK one : one = <<open>> /\ one \in Seq(Pieces) /\ Len(one) = 1
  <2>1. <<open>> \in Seq(Pieces) /\ Len(<<open>>) = 1
    OBVIOUS
  <2> QED  BY <2>1, Zenon
<1>6. PICK two : /\ two = <<colon, number>> /\ two \in Seq(Pieces) /\ Len(two) = 2
                 /\ two[1] = colon /\ two[2] = number
  <2>1. /\ <<colon, number>> \in Seq(Pieces) /\ Len(<<colon, number>>) = 2
        /\ <<colon, number>>[1] = colon /\ <<colon, number>>[2] = number
    OBVIOUS
  <2> QED  BY <2>1, Zenon
<1>7. PICK last : /\ last = <<close>> /\ last \in Seq(Pieces) /\ Len(last) = 1
                  /\ last[1] = close
  <2>1. <<close>> \in Seq(Pieces) /\ Len(<<close>>) = 1 /\ <<close>>[1] = close
    OBVIOUS
  <2> QED  BY <2>1, Zenon
<1>8. /\ one \o two \in Seq(Pieces) /\ Len(one \o two) = 3
      /\ (one \o two)[2] = colon /\ (one \o two)[3] = number
  BY <1>5, <1>6, ConcatProperties
<1>9. /\ (one \o two) \o last \in Seq(Pieces) /\ Len((one \o two) \o last) = 4
      /\ ((one \o two) \o last)[2] = colon /\ ((one \o two) \o last)[3] = number
  BY <1>7, <1>8, ConcatProperties
<1>10. /\ one \o last \in Seq(Pieces) /\ Len(one \o last) = 2
       /\ (one \o last)[2] = close
  BY <1>5, <1>7, ConcatProperties
<1>11. CASE line >= 0
  <2>1. Opening(line) = (one \o two) \o last
    BY <1>1, <1>2, <1>3, <1>4, <1>5, <1>6, <1>7, <1>11, Zenon DEF Opening
  <2>2. ~(line < 0)
    BY <1>11
  <2> QED  BY <1>2, <1>3, <1>9, <2>1, <2>2, Zenon
<1>12. CASE line < 0
  <2>1. ~(line >= 0)
    BY <1>12
  <2>2. one \o <<>> = one
    BY <1>5, ConcatEmptySeq
  <2>3. Opening(line) = one \o last
    BY <1>1, <1>4, <1>5, <1>7, <2>1, <2>2, Zenon DEF Opening
  <2> QED  BY <1>4, <1>10, <2>1, <2>3, Zenon
<1>13. line >= 0 \/ line < 0
  OBVIOUS
<1> QED  BY <1>11, <1>12, <1>13, Zenon

\* Where the elements of two sequences are in their concatenation.
LEMMA ConcatParts ==
  ASSUME NEW P, NEW s \in Seq(P), NEW t \in Seq(P)
  PROVE  /\ s \o t \in Seq(P)
         /\ Len(s \o t) = Len(s) + Len(t)
         /\ \A i \in 1..Len(s) : (s \o t)[i] = s[i]
         /\ \A i \in 1..Len(t) : (s \o t)[Len(s) + i] = t[i]
<1> DEFINE m == Len(s)
           n == Len(t)
<1>1. m \in Nat /\ n \in Nat
  OBVIOUS
<1>2. \A i \in 1..m + n : (s \o t)[i] = IF i <= m THEN s[i] ELSE t[i - m]
  BY ConcatProperties
<1>3. s \o t \in Seq(P) /\ Len(s \o t) = m + n
  BY ConcatProperties
<1> HIDE DEF m, n
<1>4. \A i \in 1..m : i \in 1..m + n /\ i <= m
  BY <1>1
<1>5. \A i \in 1..n : m + i \in 1..m + n /\ ~(m + i <= m) /\ m + i - m = i
  BY <1>1
<1>6. \A i \in 1..m : (s \o t)[i] = s[i]
  <2> TAKE i \in 1..m
  <2>1. (s \o t)[i] = IF i <= m THEN s[i] ELSE t[i - m]
    BY <1>2, <1>4, Zenon
  <2> QED  BY <1>4, <2>1, Zenon
<1>7. \A i \in 1..n : (s \o t)[m + i] = t[i]
  <2> TAKE i \in 1..n
  <2>1. PICK j \in 1..m + n : j = m + i
    BY <1>5, Zenon
  <2>2. ~(j <= m) /\ j - m = i
    BY <1>1, <2>1
  <2>3. (s \o t)[j] = IF j <= m THEN s[j] ELSE t[j - m]
    BY <1>2, Zenon
  <2> QED  BY <2>1, <2>2, <2>3, Zenon
<1> QED  BY <1>3, <1>6, <1>7 DEF m, n

\* create_debug_message, piece by piece.
LEMMA DebugMessageInPieces ==
  ASSUME NEW location \in Locations, NEW message \in Seq(Words)
  PROVE  LET debug == CreateDebugMessage(location, message)
             a == Ahead(location)
         IN  /\ debug \in Seq(Pieces)
             /\ Len(debug) = a + Len(message)
             /\ debug[2] = IF location.line >= 0 THEN ":" ELSE "] "
             /\ location.line >= 0 => debug[3] = location.line
             /\ \A i \in 1..Len(message) : debug[a + i] = message[i]
<1> DEFINE line == location.line
           head == Opening(line)
<1>1. line \in Int
  BY LinesAssumption DEF Locations
<1>2. message \in Seq(Pieces)
  <2>1. Words \subseteq Pieces
    BY DEF Pieces
  <2> QED  BY <2>1
<1>3. CreateDebugMessage(location, message) = head \o message
  BY DEF CreateDebugMessage, Opening
<1>4. head \in Seq(Pieces)
  BY <1>1, Openings
<1>5. /\ head \o message \in Seq(Pieces)
      /\ Len(head \o message) = Len(head) + Len(message)
      /\ \A i \in 1..Len(head) : (head \o message)[i] = head[i]
      /\ \A i \in 1..Len(message) : (head \o message)[Len(head) + i] = message[i]
  <2> HIDE DEF head
  <2> QED  BY <1>2, <1>4, ConcatParts
<1>6. CASE line >= 0
  <2>1. Len(head) = 4 /\ head[2] = ":" /\ head[3] = line
    BY <1>1, <1>6, Openings
  <2>2. Ahead(location) = 4
    BY <1>6 DEF Ahead
  <2>3. location.line >= 0 /\ line = location.line
    BY <1>6
  <2>4. 2 \in 1..4 /\ 3 \in 1..4
    OBVIOUS
  <2> HIDE DEF head, line
  <2> QED  BY <1>3, <1>5, <2>1, <2>2, <2>3, <2>4, Zenon
<1>7. CASE line < 0
  <2>1. Len(head) = 2 /\ head[2] = "] "
    BY <1>1, <1>7, Openings
  <2>2. Ahead(location) = 2
    BY <1>1, <1>7 DEF Ahead
  <2>3. ~(location.line >= 0)
    BY <1>1, <1>7
  <2>4. 2 \in 1..2
    OBVIOUS
  <2> HIDE DEF head, line
  <2> QED  BY <1>3, <1>5, <2>1, <2>2, <2>3, <2>4, Zenon
<1>8. line >= 0 \/ line < 0
  BY <1>1
<1> QED  BY <1>6, <1>7, <1>8, Zenon

\* No two texts have the same debug message, and no two lines either.
LEMMA SameDebugMessage ==
  ASSUME NEW k \in Locations, NEW l \in Locations,
         NEW m \in Seq(Words), NEW n \in Seq(Words),
         CreateDebugMessage(k, m) = CreateDebugMessage(l, n)
  PROVE  m = n /\ (k.line = l.line \/ (k.line < 0 /\ l.line < 0))
<1> DEFINE d == CreateDebugMessage(k, m)
<1>1. k.line \in Int /\ l.line \in Int
  BY LinesAssumption DEF Locations
<1>2. /\ Len(d) = Ahead(k) + Len(m)
      /\ d[2] = IF k.line >= 0 THEN ":" ELSE "] "
      /\ k.line >= 0 => d[3] = k.line
      /\ \A i \in 1..Len(m) : d[Ahead(k) + i] = m[i]
  BY DebugMessageInPieces, Zenon
<1>3. /\ Len(d) = Ahead(l) + Len(n)
      /\ d[2] = IF l.line >= 0 THEN ":" ELSE "] "
      /\ l.line >= 0 => d[3] = l.line
      /\ \A i \in 1..Len(n) : d[Ahead(l) + i] = n[i]
  <2> DEFINE c == CreateDebugMessage(l, n)
  <2>1. /\ Len(c) = Ahead(l) + Len(n)
        /\ c[2] = IF l.line >= 0 THEN ":" ELSE "] "
        /\ l.line >= 0 => c[3] = l.line
        /\ \A i \in 1..Len(n) : c[Ahead(l) + i] = n[i]
    BY DebugMessageInPieces, Zenon
  <2>2. d = c
    OBVIOUS
  <2> HIDE DEF c, d
  <2> QED  BY <2>1, <2>2, Zenon
<1> HIDE DEF d
<1>4. ":" # "] "
  OBVIOUS
<1>5. k.line >= 0 <=> l.line >= 0
  BY <1>2, <1>3, <1>4, Zenon
<1>6. Ahead(k) = Ahead(l) /\ Ahead(k) \in Nat
  BY <1>5 DEF Ahead
<1>7. Len(m) = Len(n)
  <2>1. Len(m) \in Nat /\ Len(n) \in Nat
    OBVIOUS
  <2>2. \A a, x, y \in Nat : a + x = a + y => x = y
    OBVIOUS
  <2> QED  BY <1>2, <1>3, <1>6, <2>1, <2>2, Zenon
<1>8. m = n
  <2>1. \A i \in 1..Len(m) : m[i] = n[i]
    BY <1>2, <1>3, <1>6, <1>7, Zenon
  <2> QED  BY <1>7, <2>1
<1>9. k.line = l.line \/ (k.line < 0 /\ l.line < 0)
  <2>1. k.line >= 0 => k.line = l.line
    BY <1>2, <1>3, <1>5, Zenon
  <2>2. ~(k.line >= 0) => k.line < 0 /\ l.line < 0
    BY <1>1, <1>5
  <2> QED  BY <2>1, <2>2, Zenon
<1> QED  BY <1>8, <1>9

\* What the constructors leave.
LEMMA NewErrors ==
  ASSUME NEW location \in Locations, NEW severity \in Severities,
         NEW message \in Seq(Words)
  PROVE  NewError(location, severity, message) \in Errors
<1>1. CreateDebugMessage(location, message) \in Seq(Pieces)
  BY DebugMessageInPieces, Zenon
<1> QED  BY <1>1 DEF NewError, Errors

-----------------------------------------------------------------------------
\* Every operation stores an error that a constructor made, or a copy of one.
LEMMA StepPreservesInv ==
  ASSUME Inv, [Next]_vars
  PROVE  Inv'
<1> USE DEF Inv
<1>1. \A e \in Held : e \in Errors
  BY DEF Held
<1>2. \A e \in Errors, c \in Contexts \cup {NoContext} : [e EXCEPT !.context = c] \in Errors
  BY DEF Errors
<1>3. ASSUME NEW s \in Slots, NEW file \in Files, NEW line \in Lines,
             NEW v \in Severities, NEW w \in Words, Make(s, file, line, v, w)
      PROVE  Inv'
  <2>1. [file |-> file, line |-> line] \in Locations
    BY DEF Locations
  <2>2. <<w>> \in Seq(Words)
    OBVIOUS
  <2>3. NewError([file |-> file, line |-> line], v, <<w>>) \in Errors
    BY <2>1, <2>2, NewErrors
  <2> QED  BY <1>3, <2>3 DEF Make
<1>4. ASSUME NEW e \in Held, NEW s \in Slots, Assign(s, e)
      PROVE  Inv'
  BY <1>1, <1>4 DEF Assign
<1>5. ASSUME NEW e \in Held, NEW s \in Slots, NEW w \in Words, AppendMessage(s, e, w)
      PROVE  Inv'
  <2>1. /\ e.location \in Locations /\ e.severity \in Severities
        /\ Append(e.message, w) \in Seq(Words)
    BY <1>1 DEF Errors
  <2>2. NewError(e.location, e.severity, Append(e.message, w)) \in Errors
    BY <2>1, NewErrors
  <2> QED  BY <1>5, <2>2 DEF AppendMessage
<1>6. ASSUME NEW e \in Held, NEW s \in Slots, NEW c \in Contexts, MakeContextError(s, e, c)
      PROVE  Inv'
  BY <1>1, <1>2, <1>6 DEF MakeContextError
<1>7. ASSUME NEW e \in Held, NEW s \in Slots,
             NEW callback \in {"ignore_errors", "throw_error", "store"},
             InvokeIfNonNull(callback, s, e)
      PROVE  Inv'
  BY <1>1, <1>2, <1>7 DEF InvokeIfNonNull, ThrowError, Assign, vars
<1>8. ASSUME NEW s \in Slots, NEW t \in Slots, Move(s, t)
      PROVE  Inv'
  BY <1>8 DEF Move
<1>9. CASE UNCHANGED vars
  BY <1>9 DEF vars
<1> QED  BY <1>3, <1>4, <1>5, <1>6, <1>7, <1>8, <1>9 DEF Next

\* However an error came about, equal errors have the same message and the same
\* line or none at all: the debug message never lags behind the others, and says
\* all of them but the file.
THEOREM ComparingTexts == Spec => []EqualMeansSameText
<1>1. Init => Inv
  BY DEF Init, Inv
<1>2. Inv /\ [Next]_vars => Inv'
  BY StepPreservesInv
<1>3. Inv => EqualMeansSameText
  <2> SUFFICES ASSUME Inv, NEW e \in Held, NEW f \in Held, Equal(e, f)
               PROVE  /\ e.message = f.message
                      /\ \/ e.location.line = f.location.line
                         \/ e.location.line < 0 /\ f.location.line < 0
    BY DEF EqualMeansSameText
  <2>1. e \in Errors /\ f \in Errors
    BY DEF Inv, Held
  <2>2. /\ e.location \in Locations /\ f.location \in Locations
        /\ e.message \in Seq(Words) /\ f.message \in Seq(Words)
        /\ e.debug = CreateDebugMessage(e.location, e.message)
        /\ f.debug = CreateDebugMessage(f.location, f.message)
    BY <2>1 DEF Errors
  <2>3. CreateDebugMessage(e.location, e.message) = CreateDebugMessage(f.location, f.message)
    BY <2>2 DEF Equal
  <2> QED  BY <2>2, <2>3, SameDebugMessage
<1> QED  BY <1>1, <1>2, <1>3, PTL DEF Spec

=============================================================================
