------------------------------ MODULE CsvReader ------------------------------
(***************************************************************************)
(* What reading a CSV text promises: the characters are taken one after the *)
(* other, none lost and none twice, and a cell is handed out at each        *)
(* separator and at the end of the text.  There is no buffer here.          *)
(*                                                                          *)
(* The only freedom is at the very end: a separator that is the last        *)
(* character of the text may end the input, or leave one more, empty, cell  *)
(* to be handed out.  When the stream fails nothing more is promised of the *)
(* cells than that those handed out before are cells of the text.           *)
(***************************************************************************)
EXTENDS CsvChars, Integers

VARIABLES
  text,    \* the text that is read
  pos,     \* how many of its characters were taken
  state,   \* of the parser
  token,   \* what was read of the next cell
  cells,   \* the cells handed out: their value, and the state at their end
  failed   \* the stream cannot be read any more

readerVars == <<text, pos, state, token, cells, failed>>

HandOut(end) ==
  /\ state' = end
  /\ cells' = Append(cells, [value |-> token, end |-> end])
  /\ token' = <<>>

ReaderInit ==
  /\ text = <<>>
  /\ pos = 0
  /\ state = "INIT"
  /\ token = <<>>
  /\ cells = <<>>
  /\ failed = FALSE

\* The next text is opened.
Open ==
  /\ text' \in Seq(Chars)
  /\ pos' = 0
  /\ state' = "INIT"
  /\ token' = <<>>
  /\ cells' = <<>>
  /\ failed' = FALSE

CanTake == pos < Len(text) /\ ~failed /\ state # "END_INPUT"

Take ==
  /\ CanTake
  /\ text[pos + 1] # Dropped
  /\ ~Separates(state, text[pos + 1])
  /\ pos' = pos + 1
  /\ state' = After(state, text[pos + 1])
  /\ token' = Grown(token, state, text[pos + 1])
  /\ UNCHANGED <<text, cells, failed>>

Drop ==
  /\ CanTake
  /\ text[pos + 1] = Dropped
  /\ pos' = pos + 1
  /\ UNCHANGED <<text, state, token, cells, failed>>

Separate ==
  /\ CanTake
  /\ Separates(state, text[pos + 1])
  /\ pos' = pos + 1
  /\ \/ HandOut(After(state, text[pos + 1]))
     \/ pos' = Len(text) /\ HandOut("END_INPUT")
  /\ UNCHANGED <<text, failed>>

HandOutLast ==
  /\ pos = Len(text)
  /\ ~failed
  /\ state # "END_INPUT"
  /\ HandOut("END_INPUT")
  /\ UNCHANGED <<text, pos, failed>>

Fail ==
  /\ ~failed
  /\ failed' = TRUE
  /\ UNCHANGED <<text, pos, state, token, cells>>

\* What was read of a cell when the stream failed is not a cell of the text.
Discard ==
  /\ failed
  /\ token' = <<>>
  /\ UNCHANGED <<text, pos, state, cells, failed>>

ReaderNext ==
  Open \/ Take \/ Drop \/ Separate \/ HandOutLast \/ Fail \/ Discard

ReaderSpec == ReaderInit /\ [][ReaderNext]_readerVars
=============================================================================
