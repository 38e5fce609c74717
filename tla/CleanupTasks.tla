---------------------------- MODULE CleanupTasks ----------------------------
(***************************************************************************)
(* cleanup_task: every column of a data set is read, cleaned and normalized *)
(* by a thread of its own (std::async), the calling thread collects the     *)
(* futures in the order of the columns, checks that the columns fit and     *)
(* writes them, row by row, to one export file.  One cleanup_task serves    *)
(* data_clean (statistics are returned) and prepare4models (a bool is).     *)
(*                                                                          *)
(* A column is the sequence of its row numbers: which row every entry       *)
(* belongs to is what the threads must agree on, since they see only their  *)
(* own file.  Values are abstracted here (module MissingFix has them).      *)
(***************************************************************************)
EXTENDS Integers, Sequences

CONSTANTS
  NumColumns,  \* columns of the schema, in the order they are exported
  Files,       \* the contents a column's file may have: sequences of row numbers
  NoFile,      \* a column whose file is missing or cannot be opened
  DropSets     \* the sets of rows filter.rows may ask to drop

ASSUME ColumnsAssumption == NumColumns \in Nat \ {0}
ASSUME FilesAssumption   == Files \subseteq Seq(Nat) /\ NoFile \notin Files
ASSUME DropAssumption    == \A drop \in DropSets : drop \subseteq Nat

Columns == 1 .. NumColumns

VARIABLES
  job,        \* the configuration and the files it names: a value of Jobs
  pc,         \* where the calling thread is
  spawned,    \* the tasks of columns 1 .. spawned were started
  collected,  \* the futures of columns 1 .. collected were read with get()
  worker,     \* the thread of each column
  result,     \* what the thread of each column returned
  row,        \* rows handed to the output stream so far
  lines,      \* the lines of this job in the export file; a line is the set of
              \* its cells <<column, row number>>, a cell counts once the text
              \* that ends it (a comma; the index and the line end) is there
  opened,     \* the export file was created, or truncated, by this job
  lossy,      \* the stream went bad: nothing more reaches the file
  outcome     \* the answer the caller got

vars == <<job, pc, spawned, collected, worker, result, row, lines, opened,
          lossy, outcome>>

mainVars == <<pc, spawned, collected, outcome>>
fileVars == <<row, lines, opened, lossy>>

\* What the fixes and the normalization make of a column: they succeed, the
\* column is refused (its statistics are no good), or something throws.
Normalizations == {"good", "bad_stats", "throws"}

Jobs == [file       : [Columns -> Files \cup {NoFile}],
         drop       : DropSets,
         norm       : [Columns -> Normalizations],
         source     : BOOLEAN,    \* the source location exists
         export_dir : BOOLEAN]    \* the directory of the export file exists

\* column_result: "named" is the id kept inside the data, which a default
\* constructed result lacks.
Results == [named : BOOLEAN, rows : Seq(Nat)]
DefaultResult == [named |-> FALSE, rows |-> <<>>]

-----------------------------------------------------------------------------
\* Mutant: the tail std::remove_if leaves behind is not cut off.
DropWithoutErase(rows, unwanted) ==
  LET kept == SelectSeq(rows, LAMBDA r : r \notin unwanted)
  IN  kept \o SubSeq(rows, Len(kept) + 1, Len(rows))

\* preform_action(filterout_conf): the entries of unwanted rows are removed,
\* the others keep their order, the column keeps its id.  kept[n] is what
\* std::remove_if has moved to the front after n entries; it is SelectSeq
\* spelled out as a function the proofs can unfold.
DropRows(rows, unwanted) ==
  LET kept[n \in 0 .. Len(rows)] ==
        IF n = 0 THEN <<>>
        ELSE IF rows[n] \in unwanted THEN kept[n - 1]
        ELSE Append(kept[n - 1], rows[n])
  IN  kept[Len(rows)]

\* process_tasks, when nothing throws.  The fixes change values only.
CleanColumn(c) ==
  LET kept == DropRows(job.file[c], job.drop)
  IN  IF job.norm[c] = "bad_stats" /\ kept # <<>>
      THEN DefaultResult
      ELSE [named |-> TRUE, rows |-> kept]

\* validate_results asks this of every column.
Exportable(res) == res.named /\ res.rows # <<>>

TotalRows == Len(result[1].rows)

-----------------------------------------------------------------------------
Init ==
  /\ job \in Jobs
  /\ pc = "check"
  /\ spawned = 0
  /\ collected = 0
  /\ worker = [c \in Columns |-> "idle"]
  /\ result = [c \in Columns |-> DefaultResult]
  /\ row = 0
  /\ lines = <<>>
  /\ opened = FALSE
  /\ lossy = FALSE
  /\ outcome = "running"

(***************************************************************************)
(* The threads of the columns: column_task::operator() and process, on      *)
(* copies of the arguments.  Nothing here is shared.                        *)
(***************************************************************************)

\* The file is looked for, opened and read.  Without it, or without a row in
\* it, the thread is done at once with a result that has no id.
ReadColumn(c) ==
  /\ worker[c] = "reading"
  /\ IF job.file[c] \in {NoFile, <<>>}
     THEN /\ worker' = [worker EXCEPT ![c] = "done"]
          /\ result' = [result EXCEPT ![c] = DefaultResult]
     ELSE /\ worker' = [worker EXCEPT ![c] = "cleaning"]
          /\ UNCHANGED result
  /\ UNCHANGED <<job, mainVars, fileVars>>

\* Drop, fix, normalize: either the future gets the result or norm_error.
CleanRows(c) ==
  /\ worker[c] = "cleaning"
  /\ IF job.norm[c] = "throws"
     THEN /\ worker' = [worker EXCEPT ![c] = "failed"]
          /\ UNCHANGED result
     ELSE /\ worker' = [worker EXCEPT ![c] = "done"]
          /\ result' = [result EXCEPT ![c] = CleanColumn(c)]
  /\ UNCHANGED <<job, mainVars, fileVars>>

Worker(c) == ReadColumn(c) \/ CleanRows(c)

(***************************************************************************)
(* The calling thread.                                                      *)
(***************************************************************************)

\* cleanup_task::operator(): both paths are looked at before anything starts.
CheckPaths ==
  /\ pc = "check"
  /\ pc' = IF job.source /\ job.export_dir THEN "spawn" ELSE "unwind"
  /\ UNCHANGED <<job, spawned, collected, worker, result, fileVars, outcome>>

\* Mutant: one task more than there are columns.
SpawnOneTooMany ==
  /\ pc = "spawn"
  /\ spawned' = spawned + 1
  /\ worker' = [c \in Columns |-> IF c = spawned + 1 THEN "reading" ELSE worker[c]]
  /\ pc' = IF spawned = NumColumns THEN "collect" ELSE "spawn"
  /\ UNCHANGED <<job, collected, result, fileVars, outcome>>

\* std::async(std::launch::async, ...) for the next column.
Spawn ==
  /\ pc = "spawn"
  /\ spawned < NumColumns
  /\ spawned' = spawned + 1
  /\ worker' = [worker EXCEPT ![spawned + 1] = "reading"]
  /\ pc' = IF spawned + 1 = NumColumns THEN "collect" ELSE "spawn"
  /\ UNCHANGED <<job, collected, result, fileVars, outcome>>

\* std::async throws std::system_error when no thread can be had.
SpawnFails ==
  /\ pc = "spawn"
  /\ spawned < NumColumns
  /\ pc' = "unwind"
  /\ UNCHANGED <<job, spawned, collected, worker, result, fileVars, outcome>>

\* Mutant: a future is only ready when its thread has a result.
CollectResultsOnly ==
  /\ pc = "collect"
  /\ collected < NumColumns
  /\ worker[collected + 1] = "done"
  /\ collected' = collected + 1
  /\ pc' = IF collected' = NumColumns THEN "validate" ELSE "collect"
  /\ UNCHANGED <<job, spawned, worker, result, fileVars, outcome>>

\* tasks[i].get(), in the order of the columns, blocks until that thread ends
\* and rethrows what it threw.
Collect ==
  LET next == collected + 1
  IN  /\ pc = "collect"
      /\ collected < NumColumns
      /\ worker[next] \in {"done", "failed"}
      /\ IF worker[next] = "failed"
         THEN pc' = "unwind" /\ UNCHANGED collected
         ELSE /\ collected' = next
              /\ pc' = IF next = NumColumns THEN "validate" ELSE "collect"
      /\ UNCHANGED <<job, spawned, worker, result, fileVars, outcome>>

\* validate_results: one column that is not exportable refuses them all.
ValidateResults ==
  /\ pc = "validate"
  /\ IF \A c \in Columns : Exportable(result[c])
     THEN pc' = "sizes" /\ UNCHANGED outcome
     ELSE pc' = "done" /\ outcome' = "refused"
  /\ UNCHANGED <<job, spawned, collected, worker, result, fileVars>>

\* Mutant: columns that are long enough will do.
ValidateLongEnough ==
  /\ pc = "sizes"
  /\ pc' = IF \A c \in Columns : Len(result[c].rows) >= TotalRows
           THEN "open" ELSE "unwind"
  /\ UNCHANGED <<job, spawned, collected, worker, result, fileVars, outcome>>

\* validate_output: columns of different lengths are an exception.
ValidateOutput ==
  /\ pc = "sizes"
  /\ pc' = IF \A c \in Columns : Len(result[c].rows) = TotalRows
           THEN "open" ELSE "unwind"
  /\ UNCHANGED <<job, spawned, collected, worker, result, fileVars, outcome>>

\* The std::ofstream truncates what was there; the headers are written.
OpenExport ==
  /\ pc = "open"
  /\ opened' = TRUE
  /\ pc' = "rows"
  /\ UNCHANGED <<job, spawned, collected, worker, result, row, lines, lossy,
                 outcome>>

OpenFails ==
  /\ pc = "open"
  /\ pc' = "done"
  /\ outcome' = "refused"
  /\ UNCHANGED <<job, spawned, collected, worker, result, fileVars>>

\* Mutant: entries at one position are taken to be of one row.
AllColumns(i) == Columns

\* The columns from the first one on whose entry at position i belongs to the
\* row of the first column's entry.
AgreeingColumns(i) ==
  {c \in Columns : \A d \in 1 .. c : result[d].rows[i] = result[1].rows[i]}

\* Mutant: the stream's errors are cleared before every line.
PrintRowAfterClear ==
  LET i == row + 1
      agreeing == AgreeingColumns(i)
  IN  /\ pc = "rows"
      /\ row < TotalRows
      /\ row' = i
      /\ lines' = Append(lines, {<<c, result[c].rows[i]>> : c \in agreeing})
      /\ pc' = IF agreeing = Columns THEN "rows" ELSE "unwind"
      /\ UNCHANGED <<job, spawned, collected, worker, result, opened, lossy,
                     outcome>>

\* print_row: the cells that agree are written; the first that does not throws,
\* and its line ends there.
PrintRow ==
  LET i == row + 1
      agreeing == AgreeingColumns(i)
      cells == {<<c, result[c].rows[i]>> : c \in agreeing}
  IN  /\ pc = "rows"
      /\ row < TotalRows
      /\ row' = i
      /\ lines' = IF lossy THEN lines ELSE Append(lines, cells)
      /\ pc' = IF agreeing = Columns THEN "rows" ELSE "unwind"
      /\ UNCHANGED <<job, spawned, collected, worker, result, opened, lossy,
                     outcome>>

\* The lines when of the last one only the first n cells reach the file.
CutLines(n) ==
  [i \in DOMAIN lines |->
     IF i = Len(lines) THEN {cell \in lines[i] : cell[1] <= n} ELSE lines[i]]

\* The disk is full, say.  The last line may be cut, the stream stays bad and
\* nobody asks it.
LoseWrites ==
  /\ pc = "rows"
  /\ ~lossy
  /\ lossy' = TRUE
  /\ \E n \in Columns : lines' = CutLines(n)
  /\ UNCHANGED <<job, mainVars, worker, result, row, opened>>

\* export_data returns true, and the results are made from the columns.
FinishExport ==
  /\ pc = "rows"
  /\ row = TotalRows
  /\ pc' = "done"
  /\ outcome' = "exported"
  /\ UNCHANGED <<job, spawned, collected, worker, result, fileVars>>

\* Mutants: futures whose destructor does not wait; an exception turned into the
\* empty result.
UnwindDetached ==
  /\ pc = "unwind"
  /\ pc' = "done"
  /\ outcome' = "exception"
  /\ UNCHANGED <<job, spawned, collected, worker, result, fileVars>>

UnwindRefused ==
  /\ pc = "unwind"
  /\ \A c \in 1 .. spawned : worker[c] \in {"done", "failed"}
  /\ pc' = "done"
  /\ outcome' = "refused"
  /\ UNCHANGED <<job, spawned, collected, worker, result, fileVars>>

\* An exception leaves process(): the vector of futures is destroyed, and the
\* destructor of a future of std::async waits for its thread.
Unwind ==
  /\ pc = "unwind"
  /\ \A c \in 1 .. spawned : worker[c] \in {"done", "failed"}
  /\ pc' = "done"
  /\ outcome' = "exception"
  /\ UNCHANGED <<job, spawned, collected, worker, result, fileVars>>

Main ==
  \/ CheckPaths
  \/ Spawn \/ SpawnFails
  \/ Collect
  \/ ValidateResults \/ ValidateOutput
  \/ OpenExport \/ OpenFails
  \/ PrintRow \/ FinishExport
  \/ Unwind

\* Nothing is left to do: keeps the end of the job apart from a deadlock.
Finished == pc = "done" /\ UNCHANGED vars

Next ==
  \/ Main
  \/ LoseWrites
  \/ \E c \in Columns : Worker(c)
  \/ Finished

\* Both the calling thread and the threads of the columns keep running; the
\* disk owes nothing.
Fairness ==
  /\ WF_vars(Main)
  /\ \A c \in Columns : WF_vars(Worker(c))

Spec == Init /\ [][Next]_vars /\ Fairness
-----------------------------------------------------------------------------
(***************************************************************************)
(* Properties.                                                              *)
(***************************************************************************)

\* A line has a cell for every column.
Whole(line) == \A c \in Columns : \E cell \in line : cell[1] = c

\* The line of the i-th row, if all columns agree on which row that is.
FullLine(i) == {<<c, result[1].rows[i]>> : c \in Columns}

\* Every variable has the type its C++ counterpart has.
TypeOK ==
  /\ job \in Jobs
  /\ pc \in {"check", "spawn", "collect", "validate", "sizes", "open", "rows",
             "unwind", "done"}
  /\ spawned \in 0 .. NumColumns
  /\ collected \in 0 .. NumColumns
  /\ worker \in [Columns -> {"idle", "reading", "cleaning", "done", "failed"}]
  /\ result \in [Columns -> Results]
  /\ row \in Nat
  /\ lines \in Seq(SUBSET (Columns \X Nat))
  /\ opened \in BOOLEAN
  /\ lossy \in BOOLEAN
  /\ outcome \in {"running", "exported", "refused", "exception"}

\* No thread of a column outlives the call, however it is left: by its results,
\* by an early refusal, or by the exception of another column's thread, of
\* std::async itself or of print_row.
ThreadsJoined ==
  pc = "done" => \A c \in Columns : worker[c] \notin {"reading", "cleaning"}

\* An earlier export is truncated only once every thread has answered and every
\* column is there and of the same length: a refused job leaves it alone.
TruncatedOnlyIfFit ==
  opened => \A c \in Columns :
              /\ worker[c] = "done"
              /\ Exportable(result[c])
              /\ Len(result[c].rows) = TotalRows

\* A job that answers "exported" had columns that agree on the row of every
\* entry although each thread dropped rows on its own; and unless writes were
\* lost the file has one whole line for each of these rows, in their order.
ExportIsAligned ==
  outcome = "exported" =>
    /\ \A c \in Columns : result[c].rows = result[1].rows
    /\ ~lossy => lines = [i \in 1 .. TotalRows |-> FullLine(i)]

\* No row that some action asked to drop shows up in the file, in any column,
\* not even in the line an exception cut.
DroppedRowsStayOut ==
  \A i \in DOMAIN lines : \A cell \in lines[i] : cell[2] \notin job.drop

\* However the job ends, a whole line in the file is the line of its row, in
\* place; only the last line may lack a cell; and a file with a whole line for
\* every row was reported.  So a file that lost something, be it to an exception
\* or to a disk nobody asked about (which still answers "exported"), has fewer
\* whole lines than the first column has rows.
CutExportIsShort ==
  opened /\ pc = "done" =>
    /\ Len(lines) <= TotalRows
    /\ \A i \in DOMAIN lines :
         lines[i] = FullLine(i) \/ (i = Len(lines) /\ ~Whole(lines[i]))
    /\ (\A i \in 1 .. TotalRows : i \in DOMAIN lines /\ Whole(lines[i]))
         => outcome = "exported"

(***************************************************************************)
(* The inductive invariant behind these properties, in the layers in which  *)
(* it is proved.                                                            *)
(***************************************************************************)

\* A thread cleans only rows it has read.
ReadBeforeCleaning ==
  \A c \in Columns : worker[c] = "cleaning" => job.file[c] \in Files

\* How far the calling thread is against how far the threads are.
InStep ==
  /\ \A c \in Columns : worker[c] = "idle" <=> c > spawned
  /\ pc = "check" => spawned = 0
  /\ pc \in {"collect", "validate", "sizes", "open", "rows"}
       => spawned = NumColumns
  /\ \A c \in 1 .. collected : worker[c] = "done"
  /\ pc \in {"validate", "sizes", "open", "rows"} => collected = NumColumns
  /\ outcome = "running" <=> pc # "done"

\* What the checks before the export have established once they are passed.
CheckedBeforeOpen ==
  /\ pc \in {"sizes", "open", "rows"} =>
       \A c \in Columns : Exportable(result[c])
  /\ pc = "open" => \A c \in Columns : Len(result[c].rows) = TotalRows
  /\ opened => pc \in {"rows", "unwind", "done"}
  /\ pc = "rows" => opened
  /\ outcome = "exported" => opened
  /\ outcome = "refused" => ~opened

\* The export so far: the rows before the current one agreed in every column,
\* and the row an exception cut did not; only the last line can be cut.
WrittenSoFar ==
  /\ row <= TotalRows /\ Len(lines) <= row
  /\ ~opened => row = 0 /\ lines = <<>> /\ ~lossy
  /\ pc = "rows" \/ outcome = "exported" =>
       /\ \A i \in 1 .. row : AgreeingColumns(i) = Columns
       /\ ~lossy => lines = [i \in 1 .. row |-> FullLine(i)]
  /\ outcome = "exported" => row = TotalRows
  /\ \A i \in DOMAIN lines :
       lines[i] = FullLine(i) \/ (i = Len(lines) /\ ~Whole(lines[i]))
  /\ opened /\ (pc = "unwind" \/ outcome = "exception") =>
       /\ row \in 1 .. TotalRows
       /\ row \in DOMAIN lines => ~Whole(lines[row])

\* Dropping was done before anything else could see the rows.
DroppedEarly ==
  /\ \A c \in Columns : result[c].rows \in Seq(Nat \ job.drop)
  /\ lines \in Seq(SUBSET (Columns \X (Nat \ job.drop)))

\* Taken together, the invariant that is inductive.
IInv ==
  /\ TypeOK
  /\ ReadBeforeCleaning
  /\ InStep
  /\ ThreadsJoined
  /\ CheckedBeforeOpen
  /\ TruncatedOnlyIfFit
  /\ WrittenSoFar
  /\ DroppedEarly

\* The caller gets an answer whatever the threads do, since a failed thread makes
\* its future ready too.
AlwaysAnswers == <>(outcome # "running")

\* The job as the application sees it.
fileSeen == IF ~opened THEN "untouched"
            ELSE IF lossy THEN "lossy"
            ELSE IF outcome = "exported" THEN "complete"
            ELSE "partial"

Job == INSTANCE CleanupJob WITH file <- fileSeen

\* One cleanup_task is one job of CleanupJob: no thread, retry or partial write
\* shows in its answer.
ImplementsJob == Job!JobSpec
=============================================================================
