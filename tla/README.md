# A verification project for the data cleaning and model experiment programs

The repository holds a family of command line programs (C++, POSIX threads by
`std::async`) that prepare tables of numbers for machine learning, run
classification and regression experiments on them, keep the best model, and use
it for predictions. This directory models them in TLA+, checks the models with
TLC on small instances, and proves the properties that matter most, for every
value of the constants, with TLAPS. Paths below are relative to `src/src/`.

## 1. The system

### Components, state, operations

| component | state it keeps | operations | hard behaviour |
|---|---|---|---|
| **configuration of `data_clean` and `prepare4models`** (`libs/cleanup_operatiosn/details/command_processing*.hpp`, `dataclean_conf.hpp`, `schema_data.hpp`) | a list of actions per column, built entry by entry; the schema; the final list | read the message, take or refuse an entry, read the schema, combine | order of the entries, an entry that cannot be read, ids of no column |
| **`cleanup_task`** (`libs/cleanup_operatiosn/details/cleanup_tasks.hpp`, `column_task.hpp`) | a future per column, the collected columns, the export file | one thread per column: drop rows, fix missing values, normalize; collect; validate; export row by row | interleaving, exceptions between futures, a half written export, write errors |
| **fixes for missing values** (`libs/dataclean_mode_gen/src/missingfix_task.cpp`, `libs/sources_handling/include/source_data.h`) | the column, the list of invalid rows, two iterators | constant, linear, k-neighborhood and cubic fix | iterators that move over two lists in step |
| **`detect_duplicates`** (`apps/detect_duplicates`) | a report per column, shared with the threads | scan a column for duplications, then for outliers; merge the reports | references into a vector that is overwritten, files that vanish, exit codes |
| **`run_experiments`: data** (`libs/sources_handling/src/row_data_input.cpp`, `libs/model_data`, `libs/transform_action`) | a table by columns, a lookup table of classes | read, shuffle, number the classes, take the rows to learn from and to test on | unsigned arithmetic, rows that must stay together |
| **`run_experiments`: threads** (`apps/run_experiments/src/pipeline_execute.cpp`) | two levels of futures, variables borrowed by reference | train, test, run the experiments of a model, report | lifetimes across threads, exceptions at every level |
| **`run_experiments`**, `generate_model`: configuration (`src/process_input.cpp` of each) | lists of models and experiments | read models, experiments, modes | parts that are missing or cannot be read, fields read and never looked at |
| **`generate_model`** (`apps/generate_model`, `libs/classifier_models_actions`) | a trained model, the model file | read, train, test, run experiments, save the model | a step that throws, a process killed while it writes, a disk that is full |
| **`model_prediction`** (`apps/model_prediction`, `libs/model_prediction`) | a row, a list of fixes, a loaded model, the results | read the message, load the model, read a row, fix it, normalize it, predict | files that change underneath, a fix that repeats, places of the schema used for the row |
| **`csv_parser`, `csv_info`** (`libs/csv_parser`, `apps/csv_info`) | a buffer, a state machine, counts per column | refill, next cell, next row, count | buffer boundaries, quotes and escapes at the end of a file, reads that fail, one file's failure and the next file |
| `json_parser` (where the programs above use it), `logging`, `libs/system` | - | reading and writing of messages | a list cut at its first bad element |
| `ml_models`, models actions, `experiments`, `scores_evaluation`, `libs/utils` | models of OpenCV and libsvm, scores | numerical | floating point |
| scripts, tools, `etc`, tests, vendored libsvm | - | - | - |

### How they interact

The programs do not talk to each other; they pass files. `prepare4models` and
`data_clean` read one file per column and write one export file; that file is
what `run_experiments` and `generate_model` read; `generate_model` writes the
model that `model_prediction` loads. Inside a program a main thread starts
threads with `std::async(std::launch::async, ...)`, keeps their futures in a
vector and calls `get()` in the order of the vector. Three facts of C++ shape
every model of threads here:

* an exception stored in a future is thrown by `get()`, in the calling thread;
* the destructor of such a future waits for its thread, so an exception that
  leaves the function joins the threads that are left, while the variables of
  the function are destroyed in the reverse order of their declaration;
* `std::async` itself may throw (`std::system_error`) when no thread can be had.

### What makes each correct

* Configuration: what is configured for a column is what its last entry of a
  kind says; rows dropped from one column are dropped from all.
* `cleanup_task`: one answer, no thread left behind, a reported export whose
  lines are rows of the data set and hold no dropped row, no export truncated in
  vain, and a cut export that can be told from a whole one.
* Fixes: a missing value is computed from measured values only, the nearest
  ones, and nothing is read outside the column.
* `detect_duplicates`: the reported rows are exactly the duplicated ones; every
  entry of the configuration is answered for; the exit code does not depend on
  the schedule.
* `run_experiments`: rows stay rows; nothing is both learned from and tested
  on; labels belong to their samples; no thread reads a destroyed variable; the
  answer does not depend on the schedule.
* `generate_model`: what it answers is true of the model file, whatever failed.
* `model_prediction`: every line of the data gets the one result its message
  asks for, in order, or the whole is refused for a reason; and it ends.
* `csv_info`: the buffer cannot be seen in the cells; the report is that of the
  texts, and a file that fails does not spoil the ones after it; and it ends.

## 2. Modules

| module | models | state and actions against the code |
|---|---|---|
| `CleanupJob` | what one cleanup promises its caller: one answer and the state of the export file | abstract; refined by `CleanupTasks` |
| `CleanupTasks` | `cleanup_task::operator()` and everything below it | `spawned`, `collected` are the vectors of futures and results in `process`; `worker`, `result` the column threads (`Worker`); `row`, `lines`, `opened`, `lossy` the export stream. One action per step of the calling thread: `Spawn`, `Collect`, `ValidateResults`, `ValidateOutput`, `OpenExport`, `PrintRow`, `FinishExport`, and `Unwind` for an exception leaving the function |
| `CleanupConf` | reading of the message up to `dataclean_conf` | `actions` is `dataclean_conf_preliminery::actions`; `TakeEntry` is `read_actions` with `do_insert` and `insert`; `Finalize` is the constructor of `dataclean_conf` |
| `MissingFix` | `fix_na`, `slice`, `slice_some`, the four `preform_action`s | `start` and `pivot` are the two iterators; `Step` is one round of the loop of `slice_some`; a value is where it comes from: measured, missing, fixed, or read outside. The list of invalid rows is what the readers leave of a message: sorted, with repeats; the count is any `int`, taken as unsigned (`Wrap`) |
| `DuplicateScan` | `duplication_action`, `outliers_detector` on one column | `lookup`, `legal`, `missings` as in the classes; one action per entry of a pass; `PickOutlier` stands for Grubbs' test, `MatchOutlier` maps a value back to a row |
| `DetectDuplicates` | `main`, `find_duplications`, `find_outliers`, `merge` | `scan` and `search` are the threads, `found` and `actions` the vectors of reports, `input` what a thread copied from `actions`; `Vanish` is somebody else removing a file |
| `ModelConf` | `process_input.cpp` of `run_experiments` | operators only: `Refusal` is the exception the first part that is refused throws, in the order `process` reads them; `Configuration` is the `pipeline::config` of a message that is taken |
| `TrainingData` | from the message and the export file to the matrices of one model | `conf` is `pipeline::config`, `table` is `classifier::read_result`; `ReadMessage`, `OpenSource`, `ReadLine`, `EndOfFile`, `SwapRows`, `MakeTable`, `Train`, `Test` follow the calls; row counts are unsigned (`% Wrap`) |
| `ExperimentRuns` | `run_experiments`, `run_task`, `model2experiment`, `experiment_task` | `model`, `exper` are the two levels of threads, `testRes` the variable the inner ones borrow, `answer` and `error` what a future holds |
| `CsvChars` | the state machine of `parser::process`, one character at a time | `After` is the next state, `Separates` says that a token ends, `Grown` what becomes of the token. Characters are in classes: ordinary, delimiter, quote, escape, end of line, dropped |
| `CsvReader` | what reading a text promises: its characters one by one, a cell at each separator and at the end | abstract; refined by `CsvParser` |
| `CsvParser` | `csv::source` and its buffer, `csv::parser`, the iterators over rows and cells | `index`, `inRead`, `eofbit`, `failed` are the source and its stream; `step` says who has control: the parser (`token`), or the program at a cell or at a row's end. `Refill`, `TakeChar`, `EndOfSource`, `NextCell`, `NextRow` |
| `CsvInfo` | `csv_info`'s `main`, `process_file`, `handle_first`, `process_line` | the program on top of `CsvParser`: `columns` is `csv_info::data`, `skips` is `header_skips`; `HeaderCell`, `DataCell` and the like join a step of the program to one of the iterators |
| `CsvReport` | the report `csv_info` should make, told from the texts alone | a definition without buffer, parser state or order of steps, for `ReportIsOfTheTexts` |
| `ModelFile` | the file between `generate_model` and `model_prediction` | no file, a cut one, a whole one, and whose model is in it |
| `GenerateModel` | `execute` of `generate_model`, `saving_model`, what `main` answers | `gpc` is the step; each step may throw (`StepThrows`), `Killed` ends the process anywhere |
| `Prediction` | `model_prediction` from its message to its answer | `ppc` is the step; `row` the cells by where they come from and what was applied to them, `at` the place `fix_missing_vals` searches from, `Applied` the loop over the normalizations of a row; `SourceVanishes` is somebody else removing the data |
| `ModelLife` | the two over one model file | the programs interleave at each step; nothing locks the file. `held` is a history variable, no part of the code: what was at the path from where the prediction looks for it to where it loads it |
| `MC*` | constants for TLC | - |
| `*_proofs` | theorems | see section 5 |

`DetectDuplicates` leaves out what a thread finds in a column, `DuplicateScan`
is exactly that; `ExperimentRuns` leaves out what a model learns from,
`TrainingData` is that, on top of `ModelConf`, which says what each message
configures. `ModelLife` composes `GenerateModel` and `Prediction`
over the model file; `CsvInfo` is built on `CsvParser`, and the pair is compared
with `CsvReader` (step by step) and `CsvReport` (at the end). The entries of a `CleanupConf` are the `job` of a
`CleanupTasks`, and the fix a column thread makes there is `MissingFix`.

Abstractions, by module: in `CleanupTasks` a column is the sequence of its row
numbers, since what the threads must agree on is rows, not values, and a disk
that fails cuts a line between two cells (a cell counts once the comma or the
line end behind it is in the file; a number cut in the middle has none); in
`CleanupConf` the attributes of an algorithm are readable or not (`whole`), and a
list of rows ends at its first element that is not a row (`Taken`); in `ModelConf`
a part of a message is missing, unreadable, unknown or good; in
`TrainingData` a cell is the line it was read from, and only labels have values;
in `ExperimentRuns` and `DetectDuplicates` whether a step of a thread throws is
an input, fixed in advance (`plan`, `job`), so that what the answer ought to be
can be stated. Undefined behaviour is a choice among what may come of it: an
iterator that leaves a column reads something (`MissingFix`, up to `Overrun`
places away, beyond which the program is taken to have crashed; so is a fix that
computes from no neighbours, for a count of 0), `erase` of the
end of a vector takes its last element or crashes (`CleanupConf`), a row written
past its end is survived or not (`Prediction`). In `CsvInfo` a cell is missing
or it is not; in `Prediction` a value is where it comes from, and what a model
says of it is a choice; in `ModelLife` what is loaded from a cut file, or from
that of another algorithm, is refused, nothing, or garbage.

## 3. Runs

All are run with the deadlock check on: a state the program stops in has an
explicit stuttering action.

| run | properties | bounds, and why they are enough |
|---|---|---|
| `cleanup_tasks` | `TypeOK`, `ThreadsJoined`, `TruncatedOnlyIfFit`, `ExportIsAligned`, `DroppedRowsStayOut`, `CutExportIsShort`; `AlwaysAnswers` (liveness), `ImplementsJob` (refinement) | three columns: one that has answered, one that throws, one still running. A disk that fails after any line or in the middle of it. Files that differ in length, in a row in the middle, or only in a dropped row; no, one, or all rows dropped |
| `duplicate_scan` | `TypeOK`, `DuplicationsAreExact`, `HeadingsAreDisjoint`, `OutliersAreFound`, `MissingsAreExact` | every column of up to four rows over three values and "missing", two of which round to one: a value seen three times, mixed with another and with a missing one |
| `missing_fix` | `TypeOK`, `MeasuredIfKept`, `NearestIfFenced`, `OnlyRowZeroIsLeft` | seven rows, any of them missing, two neighbours on each side: a row with a run of missing rows on each side of it; row 2 twice in the list, beside up to four others; columns that lack row 0 or 3, or all rows but one, or all; counts of 2, of 0, and a negative one that wraps around |
| `missing_fix_dropped` | `NeighboursAreMeasured` (violated) | the same |
| `cleanup_conf` | `ConfTypeOK`, `LastEntryWins`, `ConfigurationIsComplete` | messages of up to four entries: two of a kind for a column with two others between them; lists of rows that are whole, empty, or cut by an element that is no row |
| `cleanup_conf_const` | `ConstFixIsTaken` (violated) | the same |
| `detect_duplicates` | `TypeOK`, `InputsAreIntact`, `ThreadsJoined`, `ReportIsComplete`, `CodeIsDetermined`; `AlwaysAnswers` | two columns and two entries of a kind: an entry that fails while another runs, and two entries for one column; one file that vanishes |
| `training_data` | `TypeOK`, `RowsStayTogether`, `LearnedOrTested`, `LabelsFitSamples` | a message for each way one can be refused, each part missing or unreadable, and the good ones; three lines, two columns, two classes; splits at both ends, between, beyond, and one that is no number. A split is checked by exact arithmetic, so three rows already show rounding |
| `training_data_overrun` | `NoOverrun` (violated) | the same |
| `experiment_runs` | `TypeOK`, `BorrowedIsAlive`, `AnswerIsDetermined`; `AlwaysAnswers` | two models with two experiments: an inner thread still running when its sibling has thrown, and an outer one when its sibling has failed |
| `csv_info` | `ReportIsOfTheTexts`; `ImplementsReader` (refinement), `ReportsUnlessReadFails` (liveness) | a buffer of two characters and every text of up to five over the classes: separators, quotes and escapes at each place of the buffer and at the end, lengths that are and are not a multiple of its size; two files, one of which may be missing, with 0 to 2 header rows; a read that fails anywhere |
| `model_life` | `RowsAreAnswered`, `AnswerTellsTheFile`; `ProgramsEnd` (liveness) | two runs of `generate_model` beside one prediction: a save that is killed, then one that succeeds, between looking for the file and reading it; three columns, up to two lines with every mix of missing values, fixes (two for a column, one that is missing itself) and normalizations; each way a message or a schema may be wrong |

Bounds that cut behaviour are named in the modules: `MaxRows`, `MaxEntries`,
`MaxGone`, `MaxLines`, `MaxModels`, `MaxExperiments`, `MaxRuns`, `MaxCount` (the
counters of `csv_info` after a failed read, when its iterators go on for ever; before
that they have no bound) and `Overrun`. `Wrap` is
2^16 in the runs, where the program has 2^32: in `TrainingData` what matters is
that it is larger than any product of a row count and a percentage, which
`SplitAssumption` says; in `MissingFix`, that a negative count becomes more
neighbours than any column has.

### What the runs show

* `data_clean` and `prepare4models` never leave a thread behind and always give
  an answer; a reported export is aligned. The one thing a caller cannot see is
  a failing disk: write errors are never looked at, and a lossy export is
  reported as a success. `CutExportIsShort` is what is left to go by, for that
  case and for an exception alike: whole lines are right and in place, only the
  last one can be cut, and a file with as many whole lines as the first column has
  rows was reported; so an export that lost something has fewer.
* `detect_duplicates` hands a reference into a vector to its threads, and it is
  right to: the futures are joined before the vector is overwritten, for every
  schedule (`InputsAreIntact`). Its mutant shows how little it takes to lose it.
  A second `filter.dup` of a column is taken from the message and scanned with a
  policy of its own, but nothing of it is reported: the searches start from the
  first report of their column and `merge` adds none for a column that is there
  already (`ReportIsComplete`), although its comment says that no report about
  duplications must be left behind (`apps/detect_duplicates/src/outliers_task.cpp:201-203`).
* A message of `run_experiments` whose percentage cannot be read is not refused:
  nothing is kept for testing and the rows are not shuffled, whatever it asks for
  (`LearnedOrTested`, `RowsStayTogether` are stated for what the message says). A
  list of rows to drop that has an element which is no row is cut there
  (`LastEntryWins`, `ConfigurationIsComplete`), also without a word.
* `run_experiments` borrows variables across two levels of threads, safely for
  the same reason (`BorrowedIsAlive`). Its answer is the same for every schedule,
  unless a thread cannot be started, which may happen to any of them
  (`AnswerIsDetermined`).
* The buffer of the CSV parser is invisible but for one thing: a text whose last
  character is a separator and whose length is a multiple of the buffer's has
  one more, empty, row, since the end is then only seen by a refill that gets
  nothing (`HasTail` of `CsvReport` says so; the abstract reader allows both). After a
  read that failed the iterators never end, which is why the liveness of
  `csv_info` is stated for reads that succeed.
* `generate_model` never lies about its file as long as the disk works: a null
  model or a missing directory is seen before the file is truncated. A failing
  disk is not seen, and a killed process leaves a cut file
  (`AnswerTellsTheFile`).
* `model_prediction` answers for every line, in order, from one model that was
  whole at the path after it had looked for it; and a job it fails has one of
  the reasons `RowsAreAnswered` lists, at each of its steps: the message or the
  data is refused, the data file was gone before a line was read, the model file
  was not readable for a while before it was loaded, or a line meets a model for
  rows of another width. There are
  three exceptions a caller has to know, each stated in the property: without a
  column "index" nothing is answered at all; if it is not the last column, the
  values behind it are lost and the program may die; and a last line that is
  short and lacks its newline is dropped without a word. It does not end for a
  fix whose value counts as missing (the premise of `ProgramsEnd`).
* Three statements of the repository's own comments and tests do not hold; see
  `findings` in `PROJECT.json`. A row dropped from a column is still in the list
  of its invalid rows, which makes the fixes use missing rows as neighbours; so
  does a row the message lists twice, since the list is sorted but not made
  unique. `MeasuredIfKept` and `NearestIfFenced` are stated for lists without
  either, and `OnlyRowZeroIsLeft` for all of them. A
  constant fix is never taken, since its column id is read into an `int`. A
  split above 100 percent, which the configuration accepts, makes the clipping
  that is "not to overflow" wrap around.

Each property has a mutant (`PROJECT.json`, operators marked *Mutant* in the
modules): a plausible bug in a mapped definition that makes TLC report exactly
that property.

## 4. Fairness

Weak fairness of the main thread and of each thread that `std::async` has
started (`Fairness` in `CleanupTasks`, `DetectDuplicates`, `ExperimentRuns`).
The code justifies no more and needs no more: no loop waits for anything but a
future, `std::launch::async` promises a thread of its own, and once a thread can
take its next step it stays able to until it takes it. What the surroundings do
is never fair: thread creation need not fail, the disk need not, files need not
vanish. In `CsvInfo` and
`ModelLife` each program is a single thread that runs as long as it has a step
to take: weak fairness of its steps together. A read that fails, a process that
is killed, a run that is started and a file that is removed are left out of the
fairness: they may happen, and need not. `DuplicateScan`, `MissingFix`,
`CleanupConf` and `TrainingData` are sequential; their termination is not
stated, and they have no fairness.

## 5. Proofs

| theorem | says |
|---|---|
| `DataClean_proofs`: `TypeCorrect`, `NoThreadLeft`, `NeverTruncatedInVain`, `ReportedExportIsAligned`, `CutExportIsRecognisable`, `DroppedRowsNeverExported` | the six invariants of `cleanup_tasks`, for any number of columns, any files and any sets of rows to drop |
| `DataClean_proofs`: `Invariance` | the inductive invariant the six follow from |
| `DataClean_proofs`: `ConfTypeCorrect`, `LastEntriesWin`, `ConfigurationCompletes` | the three invariants of `CleanupConf`, for any columns and rows, and messages of any length |
| `DataClean_proofs`: `JobSafety` | the safety part of the refinement: `CleanupTasks` starts as a `CleanupJob` does and every step is a step of it or a stutter |
| `MissingFix_proofs`: `FixTypeCorrect`, `OnlyRowZero`, `NeighboursMeasured`, `NeighboursAreNearest` | the four invariants of `MissingFix`, for columns and lists of invalid rows of any length, with repeats, any count of neighbours and any reads beyond the lists. `MeasuredIfKept` and `NearestIfFenced` have a premise of their own: each row of the list is in the column and is listed once |
| `DuplicateScan_proofs`: `ScanTypeCorrect`, `StreamIsExact`, `MissingsAreReported`, `HeadingsAreExclusive`, `PicksAreFound` | types; that the streamed lookup reports exactly the duplicated rows; and the invariants `MissingsAreExact`, `HeadingsAreDisjoint` and `OutliersAreFound`; for files of any length, any values and any rounding |
| `ExperimentRuns_proofs`: `TypeCorrect`, `BorrowedStaysAlive`, `AnswerDoesNotDependOnSpeed` | types, that no thread reads a destroyed variable, and `AnswerIsDetermined`, for any number of models and experiments |
| `DetectDuplicates_proofs`: `TypesAreKept`, `ThreadInvariance`, `NoThreadLeft`, `NoStaleInput`, `CodeFollowsFiles`, `CompleteReport` | types, where threads may be, and the invariants `ThreadsJoined`, `InputsAreIntact`, `CodeIsDetermined` and `ReportIsComplete`, for any columns, configurations and files |
| `CsvInfo_proofs`: `BufferInvariance`, `BufferIsInvisible` | the refinement `ImplementsReader`: for a buffer of any size and files of any length, every step of `csv_info` is a step of the reader without a buffer, or none |
| `CsvInfo_proofs`: `TypeCorrectness`, `CellsAreOfTheText`, `RowsAreRead`, `FilesAreJudged`, `CountsAreOfTheRows`, `ReportIsRight` | types; what was handed out, which row is read, what became of the files and what was counted at every step; and from these `ReportIsOfTheTexts`: for any command line, any texts and a buffer of any size the report is the one the texts deserve |
| `TrainingData_proofs`: `DataTypeCorrect`, `ReadInvariance`, `RowsAreOfOneLine` | types, and `RowsStayTogether`, for any number of columns, any lines and any messages |
| `TrainingData_proofs`: `SamplesInvariance`, `RowsAreUsedOnce`, `LabelsAreOfTheirRows` | `LearnedOrTested` and `LabelsFitSamples`, for files of any length, any labels and any percentages, the ones that wrap around included |
| `ModelLife_proofs`: `FileInvariance`, `SavedIsSaved` | `AnswerTellsTheFile`, for any number of runs, whatever is killed when, beside any prediction |
| `ModelLife_proofs`: `PredictionInvariance`, `EveryRowIsAnswered` | `RowsAreAnswered`, for any message, any fixes and normalizations, data of any length, and whatever becomes of the two files meanwhile |

The assumptions are those of the modules' `ASSUME`s, which TLC evaluates for the
constants of each run. They say what the code justifies: sets of rows and of
characters are what their names say, a buffer and a number of neighbours are
positive, the classes of a file are finitely many (`ClassesAssumption`), an
iterator that leaves a list reads at least one place beyond it
(`OverrunAssumption`). `DataClean_proofs` extends both
`CleanupTasks` and `CleanupConf`, whose names are disjoint. The arguments:

* `CleanupTasks`. The invariants are not inductive: that a printed line is
  aligned says nothing until it is known what the checks before the export have
  established. `IInv` (defined in `CleanupTasks`) adds, layer by layer, what each
  phase of the calling thread knows: a thread cleans only what it has read
  (`ReadBeforeCleaning`); threads up to `spawned` were started, those up to
  `collected` are done (`InStep`); past the checks all results are exportable
  and of one length, and the file is open only then (`CheckedBeforeOpen`); the
  lines in the file are the first `row` rows of all columns unless the stream
  was lost, each whole line is that of its row, and only the last can have been cut, by
  an exception or by the disk (`WrittenSoFar`); and no column still
  has a row to be dropped once it is cleaned (`DroppedEarly`). Rows are
  dropped by a recursive function over the column, so `DropRowsType` first shows
  by induction that this function exists and returns a sequence without dropped
  rows.
* `CleanupConf`. `Latest` is what the loop over the message keeps: a column is in
  the list once, if an entry was for it, and has what the last entry of each kind
  said. That needs the last entry to exist and to become the new one when the
  message grows (`LastEntry`), and that an entry sets one part and leaves the
  others (`OnePartIsSet`). `Complete` is what `Finalize` makes of such a list.
* `MissingFix`, in three layers. `Progress`: what is measured is what the list does
  not name, the rows before the next one are fixed, and the loops end with as many
  neighbours as they look for. `InStep`, the heart of it: as long as the iterator
  over the column is inside, the one over the invalid rows stands exactly where
  the rows end that the first one has still before it, so that comparing the two
  tells a missing row (this needs each row of the list to be in the column, `Kept`,
  and to be listed once, `ListedOnce`; the run `missing_fix_dropped` shows what
  happens without). `Exact`: what a loop has taken
  are all measured rows it has passed, hence the nearest ones.
* `DuplicateScan`. What has been reported after `pos` rows depends on what is in
  `lookup`: `LookupIsExact` says that it holds, of the rows read so far that have
  a value, exactly those that are no duplications: of each rounded value the
  first row (`keep: first`) or the last one (`keep: last`). With it one
  step of the scan reports a row exactly when the whole column would. `SetAside`
  says which rows without a value each of the two passes has met so far, once
  each; the report takes them from the pass that the policy left running.
  `Headings` keeps the rest apart: the second pass takes a row only if the first
  did not report it, and an outlier is found behind the place where the last one
  of its value was, so it is another row. That a picked value is found at all is a
  matter of counting (`Counted`): of each value at most as many were picked as
  there are rows that hold it, and as many were matched as rows were passed.
* `ExperimentRuns`. `BorrowedIsAlive` needs `Books(i)`: while the thread of a
  model is where its variable does not exist, none of its experiments runs; it is
  joined before the variable goes because every experiment below `at[i]` has
  ended when the thread returns, and an exception waits for all of them.
  `Known` says the same of the calling thread and the models. `IInv` was checked
  by TLC before it was proved. The answer: `Settled(i)` says that what a model
  answers, or fails with, is what its plan says, whichever of its experiments was
  faster, and `Gathered` that the calling thread has the answers of the models
  before the next one, or the failure of the first that fails.
* `DetectDuplicates`, in three layers. `TInv`: an entry's thread is idle before
  the entry is launched and has returned after its answer was read, so when the
  calling thread is done with a round none of its threads runs; `Unwind` waits.
  `Handed`: the report of a thread that has not copied it yet is as it was built,
  since only the report of a thread that has returned is overwritten, and none is
  destroyed before all are joined. `CInv`, while nothing vanishes: what each step
  has established about the files (`Established`), what an answer tells about its
  file (`Answers`; this needs `Handed`: the search reads the file its copy names),
  and that an exception on its way carries the code the files call for (`Code`).
  `ListType` first shows that removing entries leaves columns only. `RInv` adds
  what the report holds: what each future has answered is collected in the order
  of the entries (`Collected`), and the first report of each column is added once
  (`Reported`); `merge` is a recursive function, so what it returns is an induction
  over its entries (`MergedUpTo`), and so is that nothing of a later one is in it
  (`OfFirst`).
* `CsvInfo`. The abstract position is `read - inRead + index`, so a refill must
  not move it: `Buffer` says that the buffer holds the last characters that were
  read, `Progress` that the end was only seen when all was read and that nobody
  asks for a token after the end. Then each step maps: `Refill` to a stutter,
  `TakeChar` to `Take`, `Drop` or `Separate`, the end to `HandOutLast`, and after
  a failed read everything to `Fail`, `Discard` or a stutter.
* `CsvInfo`, the report. `ReportIsOfTheTexts` speaks of the end and of whole texts, so
  `ReportInv` says at each step how much of the texts has been dealt with, in layers
  each of which needs the one before. `Blocks`: all blocks but the last are whole,
  which decides whether an empty cell follows the text. `LexInv`: the cells that were
  handed out are the first of the text's, the token holds what is kept of the next
  one so far, and the parser's state is the mode of the text at this place. `RowInv`:
  the counters say which row is read and how much of it was counted (a header row from
  its first filled cell, `WidthTo`). `FileInv`: the errors are those of the files
  before, the width and the header rows are those they leave (`DueIs`), and all
  rows so far fit (`Fits`), so that an exception comes at the first that does not,
  which is what `Kind` asks for (`KindOfHead`, `KindOfRow`, `KindOfAll`). `Totals`: as
  long as there is no error a column's counters are the sizes of the sets of cells
  `Seen`; that only the first file can set a width then (`FirstOfFiles`) keeps the
  counters from being reset. `CsvReport` is written with recursive functions; that
  they have the values their definitions say is derived from the induction on
  natural numbers (`SetInduction`, `RecursionOnNat`), and that `InOrder` lists a set of
  places in order from that (`InOrderIs`).
* `TrainingData`, in two layers. `RInv`: while a file is read its columns hold the
  first `pos` lines in order (`InOrder`), afterwards the same lines in the same
  order each (`Together`), which a swap of two places in every column keeps
  (`SwapKeepsElements`). `WInv`: what was copied are the windows the percentage
  calls for (`Copied`). The arithmetic is in lemmas of its own: the two parts
  are all of the rows if the percentage is at most 100 (`SplitInside`); whatever it
  is, a window that fits has as many labels as rows, although they are cut in a
  different order (`WindowsFit`). That the classes are numbered without a gap is an
  induction over the recursive function that fills the lookup table
  (`ColumnIsNumbered`, from `InsertNumbers`); that there are no more numbers than
  classes, which the types need, counts them.
* `ModelLife`, the file. `Progress` relates the step `generate_model` is at to what
  is at the path: up to the opening it is what was there `before`, while writing a
  cut file of a model that is not null, and after it the whole model of this run.
* `ModelLife`, the prediction. `RowsAreAnswered` speaks of the end, so `PredInv`
  says what has been established at each step: that the message is good and the
  header a row before anything is read (`Established`), so that a failure there
  has a refusal as its reason; that, once rows are read, the model in memory is one of
  those that were at the path (`HeldSoFar`); of the row at hand, that
  each cell has the value it should have or still lacks it at or behind the place
  the search has come to (`CellsSoFar`); and a result for each row before it
  (`ResultsSoFar`). The program finds a column by its place in the schema, the
  property by its id: they agree once the header is known to have no id twice
  (`PlacesOfIds`, by counting). That a cell is normalized by every entry for its
  column once, in the order of the message, takes two inductions: `Sorted`, told by
  ranks, is a permutation in the order of the places (`SortedByPlace`), and the loop
  over it keeps the order of those that go to one place (`AppliedInOrder`).

Only model-checked: liveness (`AlwaysAnswers`, `ProgramsEnd`,
`ReportsUnlessReadFails`, and the liveness of `ImplementsJob`), since fairness
and `ENABLED` are beyond the prover. Every invariant a passing run checks is also
proved. There are no `RECURSIVE` operators in the project.

## 6. Plan

Done, in this order: `CleanupJob` and `CleanupTasks` (the core: threads and the
export), `DuplicateScan`, `DetectDuplicates`, `MissingFix`, `CleanupConf`,
`TrainingData`, `ExperimentRuns`, their proofs; then the CSV reader and
`csv_info`, the life of a model file, and their proofs and those of
`DetectDuplicates`; the message of `run_experiments` (`ModelConf`) and the lists
that are cut in `CleanupConf`; the proofs about `TrainingData`, then those about
`MissingFix`, `CleanupConf` and `Prediction`, and the invariants that were left of
`ExperimentRuns`, `DetectDuplicates` and `DuplicateScan`; and last the report of
`csv_info`, for which `CsvReport` was stated anew with recursive functions.

Left, models: `generate_model`'s own reader of its message and its own use of what
`TrainingData` models; the confusion matrix of `libs/experiments` against its
definition.

Left, proofs: none of an invariant; the safety part of `ImplementsJob` is proved
(`JobSafety`), its liveness and the other liveness properties are not.

## 7. Not modelled

* Floating point: interpolation, normalization, Grubbs' test, ROC and
  Kolmogorov-Smirnov. What they compute is no matter of states; what they read
  is, and is modelled where they run over data (`MissingFix`, `DuplicateScan`).
* OpenCV and libsvm behind `ml_models`: external, they succeed, return nothing
  or throw, which is an input.
* `generate_model`'s reader of its message (`process_input.cpp`): a good
  configuration is an input of `GenerateModel`, as the list of models is of
  `ExperimentRuns`.
* `fast_parser` (`csv_parser_details.hpp`): nothing in the repository uses it.
  The kinds of values `csv_info` guesses, and the samples it keeps of them.
* Wording and layout of messages, logs and reports; the JSON syntax.
* Python scripts, build files, test inputs, the vendored libsvm.
* Two programs writing the same export file at once: nothing in the repository
  does that.

## 8. Running it

    tlc -workers 2 -config MCCleanupTasks.cfg MCCleanupTasks.tla
    tlapm DataClean_proofs.tla

A run takes from a few seconds to two minutes, each proof module a few minutes. Which
configuration belongs to which module, what a run is expected to say, and the
source lines of every definition, are in `PROJECT.json`.
