------------------------------ MODULE FileRead ------------------------------
(***************************************************************************)
(* read_file_to_string of src/file_utils.cpp: it asks for the size of the  *)
(* file, makes a string of that many blanks, goes back to the beginning    *)
(* and reads over them, character after character, until the string or     *)
(* the file ends.  Nothing keeps other programs from writing to the file   *)
(* in between, and nobody looks how far reading got.                       *)
(* The stream is opened in text mode.  On most systems that changes        *)
(* nothing.  On Windows, where the project is built and tested as well, a  *)
(* line ends with two characters that are read as one, and a text may have *)
(* a mark at its end, but the size counts all characters of the file.      *)
(***************************************************************************)
EXTENDS Integers, Sequences, FiniteSets

CONSTANTS Contents,  \* what the file may hold: sequences of characters
          NoFile,    \* there is none
          Blank,     \* the character ' '
          CR, LF,    \* the two characters that end a line on Windows
          EndMark    \* the character that ends a text on Windows

ASSUME CharactersAssumption == CR # LF /\ CR # EndMark /\ LF # EndMark

VARIABLES file,
          windows,   \* text mode does something
          at,        \* the next statement
          pos,       \* how many characters of the file the stream is past
          size,      \* what tellg returned
          result,    \* the string
          got,       \* how many characters of the string have been read
          disturbed  \* history: the file has changed since it was opened, or
                     \* reading it has failed midway

fileVars == <<file, windows, at, pos, size, result, got, disturbed>>

FileInit ==
  /\ file \in Contents \cup {NoFile}
  /\ windows \in BOOLEAN
  /\ at = "open"
  /\ pos = 0 /\ size = 0 /\ result = <<>> /\ got = 0
  /\ disturbed = FALSE

Open ==
  /\ at = "open"
  /\ at' = IF file = NoFile THEN "error" ELSE "tell"
  /\ UNCHANGED <<file, windows, pos, size, result, got, disturbed>>

\* seekg to the end and tellg.
Tell ==
  /\ at = "tell"
  /\ pos' = Len(file) /\ size' = Len(file)
  /\ at' = "rewind"
  /\ UNCHANGED <<file, windows, result, got, disturbed>>

\* tellg returns -1: the result is a success with an empty string.
TellFails ==
  /\ at = "tell"
  /\ at' = "empty"
  /\ UNCHANGED <<file, windows, pos, size, result, got, disturbed>>

\* Fault: the stream is not taken back to the beginning.
BufferWithoutRewind ==
  /\ at = "rewind"
  /\ result' = [i \in 1..size |-> Blank]
  /\ at' = "read"
  /\ UNCHANGED <<file, windows, pos, size, got, disturbed>>

\* The string, and seekg to the beginning.
Rewind ==
  /\ at = "rewind"
  /\ result' = [i \in 1..size |-> Blank]
  /\ pos' = 0
  /\ at' = "read"
  /\ UNCHANGED <<file, windows, size, got, disturbed>>

\* The file has no more to read at a place: it ends, or its text does.
Ends(i) == i \in DOMAIN file => windows /\ file[i] = EndMark

\* The two characters from a place on are the end of a line, to be read as LF.
LineEnds(i) == windows /\ i + 1 <= Len(file) /\ file[i] = CR /\ file[i + 1] = LF

\* A step of read: one more character.
Read ==
  /\ at = "read" /\ got < size /\ ~Ends(pos + 1)
  /\ LET next == IF LineEnds(pos + 1) THEN pos + 2 ELSE pos + 1
     IN  pos' = next /\ result' = [result EXCEPT ![got + 1] = file[next]]
  /\ got' = got + 1
  /\ UNCHANGED <<file, windows, at, size, disturbed>>

\* The string is full or there is no more to read, and the function returns.
ReadEnds ==
  /\ at = "read" /\ (got = size \/ Ends(pos + 1))
  /\ at' = "done"
  /\ UNCHANGED <<file, windows, pos, size, result, got, disturbed>>

\* Reading fails before.
ReadFails ==
  /\ at = "read" /\ got < size /\ ~Ends(pos + 1)
  /\ disturbed' = TRUE
  /\ at' = "done"
  /\ UNCHANGED <<file, windows, pos, size, result, got>>

\* Another program changes the contents.
Rewrite(contents) ==
  /\ at \in {"tell", "rewind", "read"}
  /\ file # contents /\ file' = contents
  /\ disturbed' = TRUE
  /\ UNCHANGED <<windows, at, pos, size, result, got>>

FileNext == \/ Open \/ Tell \/ TellFails \/ Rewind \/ Read \/ ReadEnds \/ ReadFails
            \/ \E contents \in Contents : Rewrite(contents)

FileSpec == FileInit /\ [][FileNext]_fileVars

-----------------------------------------------------------------------------
\* The places of the file that belong to its text: on Windows none from the mark
\* of its end on, and of the end of a line only the second.
TextPlaces ==
  {i \in 1..Len(file) : ~LineEnds(i) /\ \A k \in 1..i : ~(windows /\ file[k] = EndMark)}

\* The text is that of the file if nobody has written to it meanwhile and reading
\* did not fail: every character of it is in its place.  Where text mode does
\* nothing that is all of the file.  Whatever happened, the string is as long as
\* the file was when its size was asked for, and ends in blanks where nothing was
\* read.
TextOfFile ==
  at = "done" =>
    /\ Len(result) = size
    /\ \A i \in got + 1 .. size : result[i] = Blank
    /\ ~disturbed =>
         /\ got = Cardinality(TextPlaces)
         /\ \A i \in TextPlaces : result[Cardinality({k \in TextPlaces : k <= i})] = file[i]
         /\ ~windows => result = file

=============================================================================
