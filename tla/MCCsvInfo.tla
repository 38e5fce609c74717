----------------------------- MODULE MCCsvInfo -----------------------------
(***************************************************************************)
(* Every text of up to five characters, read through a buffer of two, with  *)
(* quotes, escapes, blanks and a character that is never looked at; and     *)
(* command lines of two files, with and without header rows.                *)
(***************************************************************************)
EXTENDS CsvReport

Texts(chars, n) == UNION {[1 .. k -> chars] : k \in 0 .. n}

CommandLine(files, headers, others) ==
  [files |-> files, headers |-> headers, others |-> others]

MCInputs ==
  {CommandLine(<<t>>, 0, 0) : t \in Texts({"a", ",", "'", "/", "n"}, 5)}
  \cup {CommandLine(<<t>>, 2, 0) : t \in Texts({"a", " ", ",", "n", "?"}, 4)}
  \cup {CommandLine(<<t, u>>, 1, 0) : t \in Texts({"a", ",", "n"}, 4) \cup {NoSuchFile},
                                      u \in Texts({"a", ",", "n"}, 3)}
  \cup {CommandLine(<<t, u>>, 2, 1) : t \in Texts({"a", ",", "n"}, 3),
                                      u \in Texts({"a", ",", "n"}, 3) \cup {NoSuchFile}}
=============================================================================
