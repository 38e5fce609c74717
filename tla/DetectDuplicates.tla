-------------------------- MODULE DetectDuplicates --------------------------
(***************************************************************************)
(* The detect_duplicates program: one thread per filter.dup entry scans a   *)
(* column for duplications, and, once all of these have answered, one       *)
(* thread per outlier.find entry searches a column for outliers, starting   *)
(* from the report the first round made of that column.  What a thread      *)
(* finds in a column is module DuplicateScan; here it is who reads whose    *)
(* data when, and which report or exit code the caller gets in the end.     *)
(*                                                                          *)
(* The thread of an outlier search is handed a reference into the vector of *)
(* reports the calling thread later overwrites and destroys: it copies its  *)
(* input only after it has started to run.                                  *)
(***************************************************************************)
EXTENDS Integers, Sequences, FiniteSets

CONSTANTS
  Columns,     \* the columns of the data set
  NoColumn,    \* what stands for an entry parse_command has to remove: no
               \* column id, or no valid "keep" policy
  MaxEntries,  \* bound on the entries of one kind in a configuration
  MaxGone      \* bound on the files that vanish while the program runs

ASSUME NoColumnAssumption   == NoColumn \notin Columns
ASSUME MaxEntriesAssumption == MaxEntries \in Nat
ASSUME MaxGoneAssumption    == MaxGone \in Nat

VARIABLES
  job,       \* the configuration and the files it names: a value of Jobs
  dups,      \* app_args::duplications, the columns of the entries
  outs,      \* app_args::outliers, the columns of the entries
  gone,      \* columns whose file was removed by someone else
  pc,        \* where the calling thread is
  scan,      \* the threads of find_duplications, one for an entry of dups
  search,    \* the threads of find_outliers, one for an entry of outs
  next,      \* the next entry the calling thread launches or collects
  found,     \* all_duplications_report, for an entry the conf it answers
  actions,   \* the vector actions of find_outliers
  ignored,   \* by search thread: the conf whose rows its predicate skips
  input,     \* by search thread: the report it copied from actions
  thrown,    \* the exit code of the exception that is being unwound
  outcome    \* the exit code of the program

vars == <<job, dups, outs, gone, pc, scan, search, next, found, actions,
          ignored, input, thrown, outcome>>

argVars    == <<job, dups, outs, gone>>
threadVars == <<scan, search, input>>
reportVars == <<found, actions, ignored>>

Running == 1       \* outcome: not answered yet; no exit code of the program

\* The exit codes main maps exceptions to.
NoSuchPath   == -3
AccessDenied == -5
NoActions    == -5         \* the same code as AccessDenied
InvalidPath  == -4
RuntimeError == -2
ConfError    == -7
Codes == {0, NoSuchPath, AccessDenied, InvalidPath, RuntimeError, ConfError}

Tasks == 1 .. MaxEntries

Lists == UNION {[1 .. n -> Columns \cup {NoColumn}] : n \in 0 .. MaxEntries}

Jobs == [dups    : Lists,
         outs    : Lists,
         access  : [Columns -> {"readable", "unreadable", "missing"}],
         source  : BOOLEAN,   \* the directory of the data set exists
         conf    : BOOLEAN]   \* the JSON names a data source and actions

\* An outlier_report: conf is the filter.dup entry whose duplications it has,
\* 0 when it has none; searched says that it has the outliers too, and
\* skipped which duplications that search left out.
Report(column, conf) ==
  [column |-> column, conf |-> conf, searched |-> FALSE, skipped |-> 0]
Reports == [column : Columns, conf : 0 .. MaxEntries, searched : BOOLEAN,
            skipped : 0 .. MaxEntries]
NoReport == [column |-> NoColumn, conf |-> 0, searched |-> FALSE, skipped |-> 0]

ThreadStates == {"idle", "started", "copied", "returned", "failed"}
Active(state) == state \in {"started", "copied"}

Access(c) == IF c \in gone THEN "missing" ELSE job.access[c]

Entries(seq) == {seq[i] : i \in DOMAIN seq}

\* parse_command removes the entries it cannot use from a list.
Named(seq) ==
  LET named[n \in 0 .. Len(seq)] ==
        IF n = 0 THEN <<>>
        ELSE IF seq[n] = NoColumn THEN named[n - 1]
        ELSE Append(named[n - 1], seq[n])
  IN  named[Len(seq)]

\* std::find_if on col_id: the first entry for a column, 0 if there is none.
FirstFor(c, seq) ==
  IF c \in Entries(seq)
  THEN CHOOSE i \in DOMAIN seq : seq[i] = c /\ \A j \in 1 .. i - 1 : seq[j] # c
  ELSE 0

-----------------------------------------------------------------------------
Init ==
  /\ job \in Jobs
  /\ dups = <<>>
  /\ outs = <<>>
  /\ gone = {}
  /\ pc = "parse"
  /\ scan = [i \in Tasks |-> "idle"]
  /\ search = [i \in Tasks |-> "idle"]
  /\ next = 1
  /\ found = <<>>
  /\ actions = <<>>
  /\ ignored = [i \in Tasks |-> 0]
  /\ input = [i \in Tasks |-> NoReport]
  /\ thrown = 0
  /\ outcome = Running

(***************************************************************************)
(* The threads.  "missing" and "unreadable" files alike cannot be opened.   *)
(***************************************************************************)

\* find_duplicates: the file is opened, scanned and reported on.
ScanColumn(i) ==
  /\ scan[i] = "started"
  /\ scan' = [scan EXCEPT ![i] = IF Access(dups[i]) = "readable"
                                 THEN "returned" ELSE "failed"]
  /\ UNCHANGED <<argVars, pc, search, next, reportVars, input, thrown, outcome>>

\* The lambda of run_task reads its reference: detect_outliers takes a copy.
CopyInput(i) ==
  /\ search[i] = "started"
  /\ search' = [search EXCEPT ![i] = "copied"]
  /\ input' = [input EXCEPT ![i] = IF i \in DOMAIN actions THEN actions[i]
                                   ELSE NoReport]
  /\ UNCHANGED <<argVars, pc, scan, next, reportVars, thrown, outcome>>

\* detect_outliers, on the copy.
DetectOutliers(i) ==
  /\ search[i] = "copied"
  /\ search' = [search EXCEPT ![i] =
                  IF input[i] # NoReport /\ Access(input[i].column) = "readable"
                  THEN "returned" ELSE "failed"]
  /\ UNCHANGED <<argVars, pc, scan, next, reportVars, input, thrown, outcome>>

Thread(i) == ScanColumn(i) \/ CopyInput(i) \/ DetectOutliers(i)

\* What the future of search thread i holds.
Answer(i) == [input[i] EXCEPT !.searched = TRUE, !.skipped = ignored[i]]

\* Someone else removes the file of a column.
Vanish(c) ==
  /\ outcome = Running
  /\ Cardinality(gone) < MaxGone
  /\ job.access[c] = "readable"
  /\ gone' = gone \cup {c}
  /\ UNCHANGED <<job, dups, outs, pc, threadVars, next, reportVars, thrown, outcome>>

(***************************************************************************)
(* The calling thread.                                                      *)
(***************************************************************************)
Finish(code) ==
  /\ outcome' = code
  /\ pc' = "done"

\* An exception leaves the current function; Unwind is where it goes.
Throw(code) ==
  /\ thrown' = code
  /\ pc' = "unwind"

\* Mutant: entries without a usable column are only removed from outliers.
ParseKeepingDups ==
  /\ pc = "parse"
  /\ dups' = job.dups
  /\ outs' = Named(job.outs)
  /\ IF job.conf /\ job.source
     THEN pc' = "launch_scans" /\ UNCHANGED outcome
     ELSE Finish(InvalidPath)
  /\ UNCHANGED <<job, gone, threadVars, next, reportVars, thrown>>

\* parse_command, and main up to the call of find_duplications.
ParseCommand ==
  /\ pc = "parse"
  /\ dups' = Named(job.dups)
  /\ outs' = Named(job.outs)
  /\ IF ~job.conf THEN Finish(ConfError)
     ELSE IF dups' = <<>> /\ outs' = <<>> THEN Finish(NoActions)
     ELSE IF ~job.source THEN Finish(InvalidPath)
     ELSE pc' = "launch_scans" /\ UNCHANGED outcome
  /\ UNCHANGED <<job, gone, threadVars, next, reportVars, thrown>>

\* Mutant: filter_dup is constructed without looking for its file.
LaunchUnchecked ==
  /\ pc = "launch_scans"
  /\ next \in DOMAIN dups
  /\ scan' = [scan EXCEPT ![next] = "started"]
  /\ next' = next + 1
  /\ UNCHANGED <<argVars, pc, search, input, reportVars, thrown, outcome>>

\* run_task: the constructor of filter_dup looks for the file, in the calling
\* thread, while the threads of earlier entries may be running.
LaunchScan ==
  /\ pc = "launch_scans"
  /\ next \in DOMAIN dups
  /\ IF Access(dups[next]) = "missing"
     THEN Throw(NoSuchPath) /\ UNCHANGED <<scan, next>>
     ELSE /\ scan' = [scan EXCEPT ![next] = "started"]
          /\ next' = next + 1
          /\ UNCHANGED <<pc, thrown>>
  /\ UNCHANGED <<argVars, search, input, reportVars, outcome>>

ScansLaunched ==
  /\ pc = "launch_scans"
  /\ next \notin DOMAIN dups
  /\ pc' = "get_scans"
  /\ next' = 1
  /\ UNCHANGED <<argVars, threadVars, reportVars, thrown, outcome>>

\* Mutant: only a result is waited for, never an exception.
GetReturned ==
  /\ pc = "get_scans"
  /\ next \in DOMAIN dups
  /\ scan[next] = "returned"
  /\ found' = Append(found, next)
  /\ next' = next + 1
  /\ UNCHANGED <<argVars, threadVars, pc, actions, ignored, thrown, outcome>>

\* report[i] = results[i].get().
GetScan ==
  /\ pc = "get_scans"
  /\ next \in DOMAIN dups
  /\ \/ /\ scan[next] = "returned"
        /\ found' = Append(found, next)
        /\ next' = next + 1
        /\ UNCHANGED <<pc, thrown>>
     \/ /\ scan[next] = "failed"
        /\ Throw(AccessDenied)
        /\ UNCHANGED <<found, next>>
  /\ UNCHANGED <<argVars, threadVars, actions, ignored, outcome>>

\* actions_data: for every outlier.find entry the report of its column, or a
\* fresh one if no filter.dup names the column; make_path looks for the file
\* of a fresh one.
BuildActions ==
  LET conf(i) == FirstFor(outs[i], dups)
  IN  /\ pc = "get_scans"
      /\ next \notin DOMAIN dups
      /\ IF \E i \in DOMAIN outs : conf(i) = 0 /\ Access(outs[i]) = "missing"
         THEN Throw(NoSuchPath) /\ UNCHANGED <<actions, next>>
         ELSE /\ actions' = [i \in DOMAIN outs |-> Report(outs[i], conf(i))]
              /\ next' = 1
              /\ pc' = "launch_searches"
              /\ UNCHANGED thrown
      /\ UNCHANGED <<argVars, threadVars, found, ignored, outcome>>

\* run_task: the predicate copies the rows to ignore before the thread
\* starts, the report itself goes by reference.
LaunchSearch ==
  /\ pc = "launch_searches"
  /\ next \in DOMAIN outs
  /\ ignored' = [ignored EXCEPT ![next] = actions[next].conf]
  /\ search' = [search EXCEPT ![next] = "started"]
  /\ next' = next + 1
  /\ UNCHANGED <<argVars, pc, scan, input, found, actions, thrown, outcome>>

SearchesLaunched ==
  /\ pc = "launch_searches"
  /\ next \notin DOMAIN outs
  /\ pc' = "get_searches"
  /\ next' = 1
  /\ UNCHANGED <<argVars, threadVars, reportVars, thrown, outcome>>

\* std::async throws std::system_error when no thread can be started.
NoThread ==
  /\ \/ pc = "launch_scans" /\ next \in DOMAIN dups /\ Access(dups[next]) # "missing"
     \/ pc = "launch_searches" /\ next \in DOMAIN outs
  /\ Throw(RuntimeError)
  /\ UNCHANGED <<argVars, threadVars, next, reportVars, outcome>>

\* actions[i] = tasks[i].get(): the element thread i was given is overwritten.
GetSearch ==
  /\ pc = "get_searches"
  /\ next \in DOMAIN outs
  /\ \/ /\ search[next] = "returned"
        /\ actions' = [actions EXCEPT ![next] = Answer(next)]
        /\ next' = next + 1
        /\ UNCHANGED <<pc, thrown>>
     \/ /\ search[next] = "failed"
        /\ Throw(AccessDenied)
        /\ UNCHANGED <<actions, next>>
  /\ UNCHANGED <<argVars, threadVars, found, ignored, outcome>>

\* Mutant: the reports of the first round are put behind the others unless a
\* searched column has taken their place in the list.
MergeByPosition ==
  /\ pc = "get_searches"
  /\ next \notin DOMAIN outs
  /\ actions' = actions \o [k \in 1 .. (IF Len(found) > Len(actions)
                                        THEN Len(found) - Len(actions) ELSE 0)
                              |-> Report(dups[Len(actions) + k], Len(actions) + k)]
  /\ Finish(0)
  /\ UNCHANGED <<argVars, threadVars, next, found, ignored, thrown>>

\* merge: the reports of columns no search has reported on are added, the
\* first one of each column; then the program prints actions.
Merge ==
  LET merged[n \in 0 .. Len(found)] ==
        IF n = 0 THEN actions
        ELSE LET c == dups[found[n]]
             IN  IF \E k \in DOMAIN merged[n - 1] : merged[n - 1][k].column = c
                 THEN merged[n - 1]
                 ELSE Append(merged[n - 1], Report(c, found[n]))
  IN  /\ pc = "get_searches"
      /\ next \notin DOMAIN outs
      /\ actions' = merged[Len(found)]
      /\ Finish(0)
      /\ UNCHANGED <<argVars, threadVars, next, found, ignored, thrown>>

\* Mutant: the futures are declared before the vector, so that actions is
\* destroyed before the threads are waited for.
UnwindActionsFirst ==
  /\ pc = "unwind"
  /\ actions' = <<>>
  /\ IF \E i \in Tasks : Active(scan[i]) \/ Active(search[i])
     THEN UNCHANGED <<pc, outcome>>
     ELSE Finish(thrown)
  /\ UNCHANGED <<argVars, threadVars, next, found, ignored, thrown>>

\* Mutant: the futures of the first round are not waited for.
UnwindDetached ==
  /\ pc = "unwind"
  /\ \A i \in Tasks : ~Active(search[i])
  /\ actions' = <<>>
  /\ Finish(thrown)
  /\ UNCHANGED <<argVars, threadVars, next, found, ignored, thrown>>

\* The exception on its way to main: the destructor of a future std::async
\* made waits for the thread, then actions is destroyed, then main maps the
\* exception to an exit code.
Unwind ==
  /\ pc = "unwind"
  /\ \A i \in Tasks : ~Active(scan[i]) /\ ~Active(search[i])
  /\ actions' = <<>>
  /\ Finish(thrown)
  /\ UNCHANGED <<argVars, threadVars, next, found, ignored, thrown>>

Main ==
  \/ ParseCommand \/ LaunchScan \/ ScansLaunched \/ GetScan \/ BuildActions
  \/ LaunchSearch \/ SearchesLaunched \/ GetSearch \/ Merge \/ Unwind

Done == outcome # Running /\ UNCHANGED vars

Next ==
  \/ Main
  \/ NoThread
  \/ \E i \in Tasks : Thread(i)
  \/ \E c \in Columns : Vanish(c)
  \/ Done

\* The scheduler runs every thread that can run.
Fairness ==
  /\ WF_vars(Main)
  /\ \A i \in Tasks : WF_vars(Thread(i))

Spec == Init /\ [][Next]_vars /\ Fairness

-----------------------------------------------------------------------------
\* The variables have their types; a search thread holds a report it could
\* read, and no thread runs beyond the entries of the configuration.
TypeOK ==
  /\ job \in Jobs
  /\ dups \in Seq(Columns) /\ Len(dups) <= MaxEntries
  /\ outs \in Seq(Columns) /\ Len(outs) <= MaxEntries
  /\ gone \subseteq Columns
  /\ pc \in {"parse", "launch_scans", "get_scans", "launch_searches",
             "get_searches", "unwind", "done"}
  /\ scan \in [Tasks -> ThreadStates \ {"copied"}]
  /\ search \in [Tasks -> ThreadStates]
  /\ next \in 1 .. MaxEntries + 1
  /\ found \in Seq(DOMAIN dups)
  /\ actions \in Seq(Reports)
  /\ ignored \in [Tasks -> 0 .. MaxEntries]
  /\ input \in [Tasks -> Reports \cup {NoReport}]
  /\ thrown \in Codes
  /\ outcome \in Codes \cup {Running}

\* What a search thread copied is the report that was built for its entry: it
\* never reads an element that the calling thread has overwritten with an
\* answer or that was destroyed while an exception was unwound.
InputsAreIntact ==
  \A i \in Tasks :
    search[i] \in {"copied", "returned", "failed"} =>
      input[i] = Report(outs[i], FirstFor(outs[i], dups))

\* The exit code is not returned while a thread of either round still runs:
\* not even when a later entry's file turns out to be missing during the
\* launch, or an earlier future rethrows.
ThreadsJoined ==
  outcome # Running => \A i \in Tasks : ~Active(scan[i]) /\ ~Active(search[i])

\* A printed report has, in the order of the configuration, a searched entry
\* for every outlier.find, with the duplications of the first filter.dup of
\* the column, the rows of which (and no others) the search left out; then
\* one entry for every other column a filter.dup names.  A later filter.dup of
\* a column, with a policy of its own, was scanned and answered as well, but
\* merge leaves its report behind: no entry has its duplications, and no
\* search left out its rows.
ReportIsComplete ==
  outcome = 0 =>
    /\ Len(actions) = Len(outs) + Cardinality(Entries(dups) \ Entries(outs))
    /\ \A i \in DOMAIN outs :
         LET conf == FirstFor(outs[i], dups)
         IN  actions[i] = [column |-> outs[i], conf |-> conf,
                           searched |-> TRUE, skipped |-> conf]
    /\ \A c \in Entries(dups) \ Entries(outs) :
         \E k \in DOMAIN actions : actions[k] = Report(c, FirstFor(c, dups))
    /\ \A j \in DOMAIN dups :
         /\ j \in Entries(found)
         /\ j # FirstFor(dups[j], dups) =>
              \A k \in DOMAIN actions :
                j \notin {actions[k].conf, actions[k].skipped}

\* The exit code the files and the configuration call for.
ExpectedCode ==
  LET files == job.access
      scanned == {files[c] : c \in Entries(dups)}
      searched == {files[c] : c \in Entries(outs)}
  IN  IF ~job.conf THEN ConfError
      ELSE IF dups = <<>> /\ outs = <<>> THEN NoActions
      ELSE IF ~job.source THEN InvalidPath
      ELSE IF "missing" \in scanned THEN NoSuchPath
      ELSE IF "unreadable" \in scanned THEN AccessDenied
      ELSE IF "missing" \in searched THEN NoSuchPath
      ELSE IF "unreadable" \in searched THEN AccessDenied
      ELSE 0

\* As long as no file vanishes and threads can be started, the exit code
\* depends on the configuration and the files only, never on which of the
\* threads was faster: a missing file wins over an unreadable one.
CodeIsDetermined ==
  outcome # Running /\ gone = {} /\ thrown # RuntimeError =>
    outcome = ExpectedCode

\* Whatever the threads run into, the program ends with an exit code.
AlwaysAnswers == <>(outcome # Running)
=============================================================================
