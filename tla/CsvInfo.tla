------------------------------- MODULE CsvInfo -------------------------------
(***************************************************************************)
(* csv_info: the files of the command line are read one after the other     *)
(* into one csv_info, which counts the values and the missing values of     *)
(* each column; what cannot be read is reported at the end, file by file.   *)
(*                                                                          *)
(* What kind of value a cell holds, and the samples of each kind, are left  *)
(* out: a cell is missing, or it is not.                                    *)
(***************************************************************************)
EXTENDS CsvParser

CONSTANTS
  Blank,       \* the characters trim() removes
  Inputs,      \* command lines: files, header rows of the first file, of others
  NoSuchFile,  \* a file name that opens nothing
  MaxCount     \* bound on the counters once a read has failed: they stay there

ASSUME InputsAssumption ==
  /\ Blank \subseteq Chars
  /\ MaxCount \in Nat
  /\ \A input \in Inputs :
       /\ input.files \in Seq(Seq(Chars) \cup {NoSuchFile})
       /\ input.files # <<>>
       /\ input.headers \in Nat
       /\ input.others \in Nat

VARIABLES
  args,     \* app_args
  fileNo,   \* the file that is read, or to be read next
  skips,    \* header_skips: header rows of the next file that is processed
  toSkip,   \* header rows this file still has
  columns,  \* csv_info::data: <<>> as long as no width is expected
  count,    \* cells of the row so far that count
  rows,     \* rows of this file's data that were processed
  errors,   \* the reports, one for each file that failed
  unread,   \* history: the files a read of which failed
  phase     \* "open", "header", "data", "found" or "reported"

infoVars == <<columns, count, rows>>
mainVars == <<args, fileNo, skips, errors>>
vars == <<readVars, infoVars, mainVars, toSkip, unread, phase>>

Kinds == {"no_such_file", "empty_file", "invalid_columns_count",
          "csv_parsing_error"}

TypeOK ==
  /\ ParserTypeOK
  /\ args \in Inputs
  /\ fileNo \in 1 .. Len(args.files) + 1
  /\ skips \in Nat
  /\ toSkip \in Nat
  /\ columns \in Seq([total : Nat, missing : Nat])
  /\ count \in Nat
  /\ rows \in Nat
  /\ unread \in SUBSET (1 .. Len(args.files))
  /\ errors \in Seq([kind : Kinds, file : Nat])
  /\ phase \in {"open", "header", "data", "reported", "found"}

Init ==
  /\ ParserInit
  /\ args \in Inputs
  /\ fileNo = 1
  /\ skips = args.headers
  /\ toSkip = 0
  /\ columns = <<>>
  /\ count = 0
  /\ rows = 0
  /\ errors = <<>>
  /\ unread = {}
  /\ phase = "open"

\* Only after a failed read, when the iterators go on for ever, may a counter
\* grow without end.
Next1(n) == IF unread # {} /\ n >= MaxCount THEN n ELSE n + 1

\* csv_info::expected() < 0: no width is expected yet.
NoWidth == columns = <<>>

-----------------------------------------------------------------------------
(* main and process_file *)

\* Mutant: a failed file counts as the first one.
ErrorEndsHeaders(kind) ==
  /\ errors' = Append(errors, [kind |-> kind, file |-> fileNo])
  /\ fileNo' = fileNo + 1
  /\ phase' = "open"
  /\ skips' = args.others
  /\ UNCHANGED args

\* A file has failed; the next one is opened with the same number of headers.
Error(kind) ==
  /\ errors' = Append(errors, [kind |-> kind, file |-> fileNo])
  /\ fileNo' = fileNo + 1
  /\ phase' = "open"
  /\ UNCHANGED <<args, skips>>

NoFile ==
  /\ phase = "open"
  /\ fileNo <= Len(args.files)
  /\ args.files[fileNo] = NoSuchFile
  /\ Error("no_such_file")
  /\ UNCHANGED <<readVars, infoVars, toSkip, unread>>

\* csv_info::process begins: without a width one row at least is a header.
OpenFile ==
  /\ phase = "open"
  /\ fileNo <= Len(args.files)
  /\ args.files[fileNo] # NoSuchFile
  /\ OpenStream(args.files[fileNo])
  /\ toSkip' = IF skips = 0 /\ NoWidth THEN 1 ELSE skips
  /\ phase' = IF toSkip' = 0 THEN "data" ELSE "header"
  /\ count' = 0
  /\ rows' = 0
  /\ UNCHANGED <<columns, mainVars, unread>>

\* The rows are at their end.  What process returns is not looked at.
FileDone ==
  /\ step = "end"
  /\ phase \in {"header", "data"}
  /\ fileNo' = fileNo + 1
  /\ skips' = args.others
  /\ phase' = "open"
  /\ step' = "idle"
  /\ UNCHANGED <<streamVars, bufferVars, parserVars, infoVars, args, errors, toSkip, unread>>

Report ==
  /\ phase = "open"
  /\ fileNo > Len(args.files)
  /\ phase' = IF errors = <<>> THEN "found" ELSE "reported"
  /\ UNCHANGED <<readVars, infoVars, mainVars, toSkip, unread>>

\* An exception closes the file.
Close ==
  /\ step' = "idle"
  /\ UNCHANGED <<streamVars, bufferVars, parserVars, infoVars, toSkip, unread>>

-----------------------------------------------------------------------------
(* handle_first *)

\* Empty cells at the beginning of a header row are not counted.
HeaderCell ==
  /\ phase = "header"
  /\ NextCell
  /\ count' = IF count = 0 /\ cell = <<>> THEN 0 ELSE Next1(count)
  /\ UNCHANGED <<columns, rows, mainVars, toSkip, unread, phase>>

HeaderFits == count # 0 /\ (NoWidth \/ count = Len(columns))

\* The first header row sets the width, the others must have it.
HeaderRow ==
  /\ phase = "header"
  /\ HeaderFits
  /\ NextRow
  /\ columns' = IF NoWidth
                THEN [i \in 1 .. count |-> [total |-> 0, missing |-> 0]]
                ELSE columns
  /\ toSkip' = toSkip - 1
  /\ phase' = IF toSkip' = 0 THEN "data" ELSE "header"
  /\ count' = 0
  /\ UNCHANGED <<rows, mainVars, unread>>

HeaderFails ==
  /\ phase = "header"
  /\ step = "row"
  /\ ~HeaderFits
  /\ Error(IF count = 0 THEN "empty_file" ELSE "invalid_columns_count")
  /\ Close

-----------------------------------------------------------------------------
(* process_line and set_guessing *)

IsMissing(value) == \A i \in DOMAIN value : value[i] \in Blank

Guessed(column, value) ==
  [total |-> Next1(column.total),
   missing |-> IF IsMissing(value) THEN Next1(column.missing) ELSE column.missing]

DataCell ==
  /\ phase = "data"
  /\ count < Len(columns)
  /\ NextCell
  /\ columns' = [columns EXCEPT ![count + 1] = Guessed(@, cell)]
  /\ count' = count + 1
  /\ UNCHANGED <<rows, mainVars, toSkip, unread, phase>>

\* A row that is too short is taken as it is.
DataRow ==
  /\ phase = "data"
  /\ NextRow
  /\ count' = 0
  /\ rows' = Next1(rows)
  /\ UNCHANGED <<columns, mainVars, toSkip, unread, phase>>

\* A row that is too long throws invalid_columns_count, which is no
\* std::exception: catch (...) makes another exception of it.
TooManyCells ==
  /\ phase = "data"
  /\ step = "cell"
  /\ count = Len(columns)
  /\ Error(IF rows > 0 THEN "csv_parsing_error" ELSE "empty_file")
  /\ Close

-----------------------------------------------------------------------------
FetchToken ==
  /\ Refill \/ TakeChar \/ EndOfSource
  /\ UNCHANGED <<infoVars, mainVars, toSkip, unread, phase>>

ReadFails ==
  /\ RefillFails
  /\ unread' = unread \cup {fileNo}
  /\ UNCHANGED <<infoVars, mainVars, toSkip, phase>>

Finished ==
  /\ phase \in {"reported", "found"}
  /\ UNCHANGED vars

Steps ==
  \/ NoFile \/ OpenFile \/ FetchToken \/ FileDone \/ Report \/ Finished
  \/ HeaderCell \/ HeaderRow \/ HeaderFails
  \/ DataCell \/ DataRow \/ TooManyCells

Next == Steps \/ ReadFails

\* csv_info has one thread: as long as it can take a step it takes one.  That
\* a read fails is never bound to happen.
Fairness == WF_vars(Steps)

Spec == Init /\ [][Next]_vars /\ Fairness

-----------------------------------------------------------------------------
\* csv_info comes to its report unless a read fails: the rows of a file end
\* however it ends, inside of quotes, after an escape or at the very end of
\* the buffer.  (After a failed read the iterators go on for ever.)
ReportsUnlessReadFails ==
  <>(unread # {} \/ phase \in {"reported", "found"})
=============================================================================
