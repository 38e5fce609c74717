------------------------------ MODULE CsvParser ------------------------------
(***************************************************************************)
(* csv::source, csv::parser and the iterators over rows and cells on top of *)
(* them: the stream is read into a buffer of Size characters, the parser    *)
(* takes characters from the buffer until it has a token, and the iterators *)
(* decide from the parser's state whether the row, and the input, go on.    *)
(*                                                                          *)
(* The module gives the steps; CsvInfo is the program that takes them.  A   *)
(* step of the program at a cell or at the end of a row is joined to        *)
(* NextCell or NextRow there.                                               *)
(***************************************************************************)
EXTENDS CsvChars, Integers

CONSTANT Size  \* of the buffer

ASSUME SizeAssumption == Size \in Nat \ {0}

VARIABLES
  text,     \* what the stream holds
  read,     \* how many of its characters were read into the buffer so far
  eofbit,   \* a read came to the end of the stream
  failed,   \* badbit: a read failed
  index,    \* the place of the next character in the buffer
  inRead,   \* characters in the buffer: the last inRead of those read
  state,    \* parser::current_state
  token,    \* parser::token
  cell,     \* cells_iterator::token: the token that was handed out
  cells,    \* history: the cells handed out before a read failed
  step      \* "token": in parser::process; "cell": a cell was handed out;
            \* "row": the row's cells are at an end; "end": so are the rows;
            \* "idle": no file is open

streamVars == <<text, read, eofbit, failed>>
bufferVars == <<index, inRead>>
parserVars == <<state, token, cell, cells>>
readVars == <<streamVars, bufferVars, parserVars, step>>

ParserTypeOK ==
  /\ text \in Seq(Chars)
  /\ read \in 0 .. Len(text)
  /\ eofbit \in BOOLEAN
  /\ failed \in BOOLEAN
  /\ inRead \in 0 .. Size
  /\ index \in 0 .. inRead
  /\ inRead <= read
  /\ state \in States
  /\ token \in Seq(Chars)
  /\ cell \in Seq(Chars)
  /\ cells \in Seq([value : Seq(Chars), end : States])
  /\ step \in {"idle", "token", "cell", "row", "end"}

ParserInit ==
  /\ text = <<>>
  /\ read = 0
  /\ eofbit = FALSE
  /\ failed = FALSE
  /\ index = 0
  /\ inRead = 0
  /\ state = "INIT"
  /\ token = <<>>
  /\ cell = <<>>
  /\ cells = <<>>
  /\ step = "idle"

-----------------------------------------------------------------------------
(* source *)

\* source::empty, and source::eof once step is "token".
Empty == inRead = index
SourceEof == Empty /\ eofbit
\* Mutant: the stream's end is not looked at.
SourceNotFailed == ~failed

SourceGood == ~failed /\ ~SourceEof

\* The rows iterator is made: it fetches the first token of the first row.
OpenStream(newText) ==
  /\ text' = newText
  /\ read' = 0
  /\ eofbit' = FALSE
  /\ failed' = FALSE
  /\ index' = 0
  /\ inRead' = 0
  /\ state' = "INIT"
  /\ token' = <<>>
  /\ cell' = <<>>
  /\ cells' = <<>>
  /\ step' = "token"

\* get() of an empty buffer.  A read that gets fewer characters than it asked
\* for has seen the end; one that gets none leaves the buffer empty.
CanRefill == step = "token" /\ SourceGood /\ Empty

\* Mutant: the place in the buffer is not reset.
RefillKeepingIndex ==
  /\ CanRefill
  /\ LET rest == Len(text) - read
         got == IF rest < Size THEN rest ELSE Size IN
       /\ read' = read + got
       /\ inRead' = got
       /\ eofbit' = (got < Size)
  /\ UNCHANGED <<text, failed, index, parserVars, step>>

Refill ==
  /\ CanRefill
  /\ LET rest == Len(text) - read
         got == IF rest < Size THEN rest ELSE Size IN
       /\ read' = read + got
       /\ inRead' = got
       /\ eofbit' = (got < Size)
  /\ index' = 0
  /\ UNCHANGED <<text, failed, parserVars, step>>

\* A read the system refuses sets badbit, and no character is got: a disk
\* error, or a directory that was opened as if it were a file.
RefillFails ==
  /\ CanRefill
  /\ failed' = TRUE
  /\ inRead' = 0
  /\ index' = 0
  /\ UNCHANGED <<text, read, eofbit, parserVars, step>>

-----------------------------------------------------------------------------
(* parser::process and get_token *)

\* The token is swapped out and cleared.  At the end of the input the parser's
\* state says so, whatever the last character was.
HandOut(atEnd, endState) ==
  LET end == IF atEnd THEN "END_INPUT" ELSE endState IN
    /\ state' = end
    /\ cell' = token
    /\ cells' = IF failed THEN cells
                ELSE Append(cells, [value |-> token, end |-> end])
    /\ token' = <<>>
    /\ step' = "cell"

\* The character get() takes from the buffer.
Char == text[read - inRead + index + 1]

CanTake == step = "token" /\ SourceGood /\ ~Empty

TakeChar ==
  /\ CanTake
  /\ index' = index + 1
  /\ IF Char = Dropped
     THEN UNCHANGED <<parserVars, step>>
     ELSE IF Separates(state, Char)
     THEN HandOut(index' = inRead /\ eofbit, After(state, Char))
     ELSE /\ state' = After(state, Char)
          /\ token' = Grown(token, state, Char)
          /\ UNCHANGED <<cell, cells, step>>
  /\ UNCHANGED <<streamVars, inRead>>

\* The loop ends without a separator: no more characters, or no more reads.
EndOfSource ==
  /\ step = "token"
  /\ ~SourceGood
  /\ HandOut(SourceEof, state)
  /\ UNCHANGED <<streamVars, bufferVars>>

-----------------------------------------------------------------------------
(* the iterators *)

Eol == state \in {"END_LINE", "END_INPUT"}
Eof == state = "END_INPUT"

\* ++ of cells_iterator: the row is at its end, or the next token is fetched.
NextCell ==
  /\ step = "cell"
  /\ step' = IF Eol THEN "row" ELSE "token"
  /\ UNCHANGED <<streamVars, bufferVars, parserVars>>

\* ++ of rows_iterator, after all cells of the row were visited.
NextRow ==
  /\ step = "row"
  /\ step' = IF Eof THEN "end" ELSE "token"
  /\ UNCHANGED <<streamVars, bufferVars, parserVars>>

-----------------------------------------------------------------------------
\* The buffer is invisible: read through it the text gives the same cells as
\* read character by character, whatever the size of the buffer and wherever
\* a refill falls, in a quoted cell, after an escape or at the end.
Reader == INSTANCE CsvReader WITH pos <- read - inRead + index
ImplementsReader == Reader!ReaderSpec
=============================================================================
