------------------------------ MODULE CsvChars ------------------------------
(***************************************************************************)
(* What one character does to the CSV parser: csv::parser::internal_process *)
(* without the place the characters come from.  The states keep the names   *)
(* of parser::state; those no character and no end of input leads to        *)
(* (START_TOKEN, MAY_ESCAPE, MAY_ESCAPE_END, ERROR) are left out.           *)
(***************************************************************************)
EXTENDS Sequences

CONSTANTS
  Ordinary,   \* characters that only stand for themselves
  Delimiter,  \* ends a cell, as does NewLine, which also ends the row
  Quote,
  Escape,
  NewLine,
  Dropped     \* a character whose code is not positive: never looked at

ASSUME CharactersAssumption ==
  /\ {Delimiter, Quote, Escape, NewLine, Dropped} \cap Ordinary = {}
  /\ Delimiter \notin {Quote, Escape, NewLine, Dropped}
  /\ Quote \notin {Escape, NewLine, Dropped}
  /\ Escape \notin {NewLine, Dropped}
  /\ NewLine # Dropped

Chars == Ordinary \cup {Delimiter, Quote, Escape, NewLine, Dropped}

States == {"INIT", "IN_TOKEN", "IN_ESCAPE", "END_ESCAPE_IN_TOKEN",
           "ESCAPE_OF_ESCAPE", "END_TOKEN", "END_LINE", "END_INPUT"}

\* The character ends the cell: a separator outside of quotes.
Separates(state, c) == c \in {Delimiter, NewLine} /\ state # "IN_ESCAPE"

\* The parser's state after the character.
After(state, c) ==
  IF state = "IN_ESCAPE" THEN (IF c = Quote THEN "END_ESCAPE_IN_TOKEN" ELSE state)
  ELSE IF c = Delimiter THEN "END_TOKEN"
  ELSE IF c = NewLine THEN "END_LINE"
  ELSE IF c = Escape THEN "ESCAPE_OF_ESCAPE"
  ELSE IF c = Quote /\ state # "ESCAPE_OF_ESCAPE" THEN "IN_ESCAPE"
  ELSE IF c \in Ordinary /\ state = "ESCAPE_OF_ESCAPE" THEN "IN_TOKEN"
  ELSE state

\* What the token is after the character.  The character that ends an escape
\* is swallowed unless it is a quote.
Grown(token, state, c) ==
  IF \/ c \in Ordinary /\ state # "ESCAPE_OF_ESCAPE"
     \/ c = Quote /\ state = "ESCAPE_OF_ESCAPE"
     \/ c \in {Escape, Delimiter, NewLine} /\ state = "IN_ESCAPE"
  THEN Append(token, c)
  ELSE token
=============================================================================
