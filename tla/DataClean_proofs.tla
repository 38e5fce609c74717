---------------------------- MODULE DataClean_proofs --------------------------
(***************************************************************************)
(* Proofs about the two modules of data_clean and prepare4models: the       *)
(* cleanup tasks (CleanupTasks), for every number of columns, all contents  *)
(* of the files and all sets of dropped rows, and the reading of their      *)
(* configuration (CleanupConf), for every set of columns, entries and       *)
(* schema files.  The inductive invariants IInv and ConfInv are proved      *)
(* layer by layer; what the runs check of safety follows from them.         *)
(***************************************************************************)
EXTENDS CleanupTasks, CleanupConf, WellFoundedInduction, TLAPS

(***************************************************************************)
(* Induction over the natural numbers, stated for a set of numbers: from    *)
(* the least number that is missing from it.                                *)
(***************************************************************************)

\* A set that has 0 and, with every number, the next one has all of them.
LEMMA SetInduction ==
  ASSUME NEW S, 0 \in S, \A n \in Nat : n \in S => n + 1 \in S
  PROVE  Nat \subseteq S
<1> SUFFICES ASSUME Nat \ S # {} PROVE FALSE
  OBVIOUS
<1>1. PICK x \in Nat \ S : \A y \in Nat \ S : <<y, x>> \notin OpToRel(<, Nat)
  BY NatLessThanWellFounded, WFMin
<1>2. x # 0 /\ x - 1 \in Nat
  OBVIOUS
<1>3. <<x - 1, x>> \in OpToRel(<, Nat)
  BY <1>2 DEF OpToRel
<1>4. x - 1 \in S
  BY <1>1, <1>2, <1>3
<1> QED BY <1>2, <1>4

(***************************************************************************)
(* Dropping rows.                                                           *)
(***************************************************************************)

\* Whatever is dropped from whatever column, the result is a sequence of row
\* numbers and none of them is unwanted (rowcleanup_task.cpp, preform_action).
LEMMA DropRowsType ==
  ASSUME NEW rows \in Seq(Nat), NEW unwanted
  PROVE  DropRows(rows, unwanted) \in Seq(Nat \ unwanted)
<1> DEFINE Entry(f, n) == IF n = 0 THEN <<>>
                          ELSE IF rows[n] \in unwanted THEN f[n - 1]
                          ELSE Append(f[n - 1], rows[n])
           Fills(f, m) == f = [n \in 0 .. m |-> Entry(f, n)]
           S == {m \in Nat : \E f : Fills(f, m)}
           kept == CHOOSE f : Fills(f, Len(rows))
           T == {m \in Nat : m <= Len(rows) => kept[m] \in Seq(Nat \ unwanted)}
<1>1. \E f : Fills(f, 0)
  <2> DEFINE f0 == [n \in 0 .. 0 |-> <<>>]
  <2>1. Fills(f0, 0)
    OBVIOUS
  <2> QED BY <2>1
<1>2. ASSUME NEW m \in Nat, NEW f, Fills(f, m)
      PROVE  \E g : Fills(g, m + 1)
  <2> DEFINE g == [n \in 0 .. m + 1 |-> IF n <= m THEN f[n] ELSE Entry(f, n)]
  <2>1. ASSUME NEW n \in 0 .. m + 1 PROVE g[n] = Entry(g, n)
    <3>1. CASE n \in 0 .. m
      <4>1. g[n] = f[n] /\ (n # 0 => g[n - 1] = f[n - 1])
        BY <3>1
      <4>2. f[n] = Entry(f, n)
        BY <1>2, <3>1
      <4> QED BY <4>1, <4>2
    <3>2. CASE n = m + 1
      <4>1. g[n] = Entry(f, n) /\ g[n - 1] = f[n - 1]
        BY <3>2
      <4> QED BY <4>1
    <3> QED BY <3>1, <3>2
  <2>2. Fills(g, m + 1)
    <3> HIDE DEF Entry
    <3> QED BY <2>1
  <2> QED BY <2>2
<1>3. \E f : Fills(f, Len(rows))
  <2> HIDE DEF Fills
  <2>1. 0 \in S /\ \A m \in Nat : m \in S => m + 1 \in S
    BY <1>1, <1>2
  <2>2. Nat \subseteq S
    <3> HIDE DEF S
    <3> QED BY <2>1, SetInduction
  <2>3. Len(rows) \in Nat
    OBVIOUS
  <2> QED BY <2>2, <2>3
<1>4. Fills(kept, Len(rows))
  <2> HIDE DEF Fills
  <2> QED BY <1>3
<1>5. DropRows(rows, unwanted) = kept[Len(rows)]
  BY DEF DropRows
<1> HIDE DEF kept
<1>6. \A n \in 0 .. Len(rows) : kept[n] = Entry(kept, n)
  BY <1>4
<1>7. 0 \in T
  <2>1. kept[0] = <<>>
    BY <1>6
  <2>2. <<>> \in Seq(Nat \ unwanted)
    OBVIOUS
  <2> QED BY <2>1, <2>2
<1>8. ASSUME NEW m \in Nat, m \in T PROVE m + 1 \in T
  <2> SUFFICES ASSUME m + 1 <= Len(rows)
               PROVE  kept[m + 1] \in Seq(Nat \ unwanted)
    OBVIOUS
  <2>1. kept[m + 1] = Entry(kept, m + 1)
    BY <1>6
  <2>2. kept[m] \in Seq(Nat \ unwanted) /\ rows[m + 1] \in Nat
    BY <1>8
  <2> QED BY <2>1, <2>2
<1>9. Nat \subseteq T
  <2> HIDE DEF T
  <2> QED BY <1>7, <1>8, SetInduction
<1>10. Len(rows) \in Nat
  OBVIOUS
<1> QED BY <1>5, <1>9, <1>10

\* What a thread hands over is a column result without any unwanted row,
\* whether its column was refused or not (column_task.hpp, process_tasks).
LEMMA CleanColumnType ==
  ASSUME NEW c \in Columns, job \in Jobs, job.file[c] \in Files
  PROVE  /\ CleanColumn(c) \in Results
         /\ CleanColumn(c).rows \in Seq(Nat \ job.drop)
<1>1. job.file[c] \in Seq(Nat)
  BY FilesAssumption
<1>2. DropRows(job.file[c], job.drop) \in Seq(Nat \ job.drop)
  BY <1>1, DropRowsType
<1>3. DropRows(job.file[c], job.drop) \in Seq(Nat)
  BY <1>2
<1> QED BY <1>2, <1>3 DEF CleanColumn, DefaultResult, Results

(***************************************************************************)
(* Types.                                                                   *)
(***************************************************************************)

Typed == TypeOK /\ ReadBeforeCleaning

LEMMA TypedInit == Init => Typed
<1> SUFFICES ASSUME Init PROVE Typed
  OBVIOUS
<1>1. DefaultResult \in Results
  BY DEF DefaultResult, Results
<1>2. result \in [Columns -> Results] /\ ReadBeforeCleaning
  BY <1>1 DEF Init, ReadBeforeCleaning
<1>3. lines \in Seq(SUBSET (Columns \X Nat))
  BY DEF Init
<1>4. worker \in [Columns -> {"idle", "reading", "cleaning", "done", "failed"}]
  BY DEF Init
<1>5. spawned \in 0 .. NumColumns /\ collected \in 0 .. NumColumns
  BY ColumnsAssumption DEF Init
<1>6. TypeOK
  BY <1>2, <1>3, <1>4, <1>5 DEF Init, TypeOK
<1> QED BY <1>2, <1>6 DEF Typed

\* Cutting the last line changes no other and adds nothing to it.
LEMMA CutLinesType ==
  ASSUME NEW S, lines \in Seq(SUBSET S), NEW n
  PROVE  /\ CutLines(n) \in Seq(SUBSET S)
         /\ Len(CutLines(n)) = Len(lines)
         /\ DOMAIN CutLines(n) = DOMAIN lines
         /\ \A i \in DOMAIN lines :
              CutLines(n)[i] = IF i = Len(lines)
                               THEN {cell \in lines[i] : cell[1] <= n}
                               ELSE lines[i]
<1>1. \A i \in 1 .. Len(lines) : CutLines(n)[i] \in SUBSET S
  <2>1. \A i \in 1 .. Len(lines) : lines[i] \in SUBSET S
    OBVIOUS
  <2> QED BY <2>1 DEF CutLines
<1>2. Len(lines) \in Nat /\ DOMAIN lines = 1 .. Len(lines)
  OBVIOUS
<1>3. CutLines(n) \in [1 .. Len(lines) -> SUBSET S]
  BY <1>1, <1>2 DEF CutLines
<1> QED BY <1>2, <1>3 DEF CutLines

LEMMA TypedStep == Typed /\ [Next]_vars => Typed'
<1> SUFFICES ASSUME Typed, [Next]_vars PROVE Typed'
  OBVIOUS
<1> USE DEF Typed, TypeOK, ReadBeforeCleaning
<1>1. ASSUME NEW c \in Columns, ReadColumn(c) PROVE Typed'
  <2>1. job.file[c] \in Files \cup {NoFile}
    BY DEF Jobs
  <2>2. DefaultResult \in Results
    BY DEF DefaultResult, Results
  <2> QED BY <1>1, <2>1, <2>2 DEF ReadColumn, mainVars, fileVars
<1>2. ASSUME NEW c \in Columns, CleanRows(c) PROVE Typed'
  <2>1. CleanColumn(c) \in Results
    BY <1>2, CleanColumnType DEF CleanRows
  <2> QED BY <1>2, <2>1 DEF CleanRows, mainVars, fileVars
<1>3. CASE CheckPaths
  BY <1>3 DEF CheckPaths, fileVars
<1>4. CASE Spawn
  BY <1>4, ColumnsAssumption DEF Spawn, fileVars, Columns
<1>5. CASE SpawnFails
  BY <1>5 DEF SpawnFails, fileVars
<1>6. CASE Collect
  BY <1>6, ColumnsAssumption DEF Collect, fileVars
<1>7. CASE ValidateResults
  BY <1>7 DEF ValidateResults, fileVars
<1>8. CASE ValidateOutput
  BY <1>8 DEF ValidateOutput, fileVars
<1>9. CASE OpenExport
  BY <1>9 DEF OpenExport
<1>10. CASE OpenFails
  BY <1>10 DEF OpenFails, fileVars
<1>11. CASE PrintRow
  <2> DEFINE cells == {<<c, result[c].rows[row + 1]>> :
                        c \in AgreeingColumns(row + 1)}
  <2>1. 1 \in Columns /\ result[1].rows \in Seq(Nat)
    BY ColumnsAssumption DEF Columns, Results
  <2>2. row + 1 \in 1 .. Len(result[1].rows)
    BY <1>11, <2>1 DEF PrintRow, TotalRows
  <2>3. ASSUME NEW c \in AgreeingColumns(row + 1)
        PROVE  <<c, result[c].rows[row + 1]>> \in Columns \X Nat
    <3>1. c \in Columns /\ result[c].rows[row + 1] = result[1].rows[row + 1]
      BY DEF AgreeingColumns, Columns
    <3>2. result[1].rows[row + 1] \in Nat
      BY <2>1, <2>2
    <3> QED BY <3>1, <3>2
  <2>4. cells \in SUBSET (Columns \X Nat)
    BY <2>3
  <2>5. lines' \in Seq(SUBSET (Columns \X Nat))
    BY <1>11, <2>4 DEF PrintRow
  <2> QED BY <1>11, <2>5 DEF PrintRow
<1>12. CASE LoseWrites
  <2> DEFINE S == Columns \X Nat
  <2>1. lines' \in Seq(SUBSET S)
    <3>1. lines \in Seq(SUBSET S)
      OBVIOUS
    <3>2. PICK n \in Columns : lines' = CutLines(n)
      BY <1>12 DEF LoseWrites
    <3> HIDE DEF S
    <3> QED BY <3>1, <3>2, CutLinesType
  <2> QED BY <1>12, <2>1 DEF LoseWrites, mainVars
<1>13. CASE FinishExport
  BY <1>13 DEF FinishExport, fileVars
<1>14. CASE Unwind
  BY <1>14 DEF Unwind, fileVars
<1>15. CASE UNCHANGED vars
  BY <1>15 DEF vars
<1> QED BY <1>1, <1>2, <1>3, <1>4, <1>5, <1>6, <1>7, <1>8, <1>9, <1>10, <1>11,
           <1>12, <1>13, <1>14, <1>15 DEF Next, Main, Worker, Finished

\* Type correctness, including that every line of the export is a set of cells
\* of existing columns and that threads only return rows they have read.
THEOREM TypeCorrect == Spec => []TypeOK
<1>1. Typed => TypeOK
  BY DEF Typed
<1> QED BY TypedInit, TypedStep, <1>1, PTL DEF Spec

LEMMA AlwaysTyped == Spec => []Typed
BY TypedInit, TypedStep, PTL DEF Spec

(***************************************************************************)
(* The threads and the calling thread.                                      *)
(***************************************************************************)

\* The two layers the joining of the threads rests on.
Joined == Typed /\ InStep /\ ThreadsJoined

LEMMA JoinedInit == Init => InStep /\ ThreadsJoined
BY ColumnsAssumption DEF Init, InStep, ThreadsJoined, Columns

LEMMA JoinedStep == Joined /\ [Next]_vars => (InStep /\ ThreadsJoined)'
<1> SUFFICES ASSUME Joined, [Next]_vars PROVE (InStep /\ ThreadsJoined)'
  OBVIOUS
<1> USE ColumnsAssumption DEF Joined, Typed, TypeOK, InStep, ThreadsJoined, Columns
<1>1. ASSUME NEW c \in Columns, ReadColumn(c) PROVE (InStep /\ ThreadsJoined)'
  BY <1>1 DEF ReadColumn, mainVars, fileVars
<1>2. ASSUME NEW c \in Columns, CleanRows(c) PROVE (InStep /\ ThreadsJoined)'
  BY <1>2 DEF CleanRows, mainVars, fileVars
<1>3. CASE CheckPaths
  BY <1>3 DEF CheckPaths, fileVars
<1>4. CASE Spawn
  BY <1>4 DEF Spawn, fileVars
<1>5. CASE SpawnFails
  BY <1>5 DEF SpawnFails, fileVars
<1>6. CASE Collect
  BY <1>6 DEF Collect, fileVars
<1>7. CASE ValidateResults
  BY <1>7 DEF ValidateResults, fileVars
<1>8. CASE ValidateOutput
  BY <1>8 DEF ValidateOutput, fileVars
<1>9. CASE OpenExport
  BY <1>9 DEF OpenExport
<1>10. CASE OpenFails
  BY <1>10 DEF OpenFails, fileVars
<1>11. CASE PrintRow
  BY <1>11 DEF PrintRow
<1>12. CASE LoseWrites
  BY <1>12 DEF LoseWrites, mainVars
<1>13. CASE FinishExport
  BY <1>13 DEF FinishExport, fileVars
<1>14. CASE Unwind
  BY <1>14 DEF Unwind, fileVars
<1>15. CASE UNCHANGED vars
  BY <1>15 DEF vars
<1> QED BY <1>1, <1>2, <1>3, <1>4, <1>5, <1>6, <1>7, <1>8, <1>9, <1>10, <1>11,
           <1>12, <1>13, <1>14, <1>15 DEF Next, Main, Worker, Finished

LEMMA AlwaysJoined == Spec => []Joined
<1>1. Init => Joined
  BY TypedInit, JoinedInit DEF Joined
<1>2. Joined /\ [Next]_vars => Joined'
  BY TypedStep, JoinedStep DEF Joined
<1> QED BY <1>1, <1>2, PTL DEF Spec

\* However many columns there are and however the call is left, no thread is
\* still reading or cleaning when the caller has its answer.
THEOREM NoThreadLeft == Spec => []ThreadsJoined
<1>1. Joined => ThreadsJoined
  BY DEF Joined
<1> QED BY AlwaysJoined, <1>1, PTL

(***************************************************************************)
(* The checks before the export.                                            *)
(***************************************************************************)

Fit == Joined /\ CheckedBeforeOpen /\ TruncatedOnlyIfFit

LEMMA FitInit == Init => CheckedBeforeOpen /\ TruncatedOnlyIfFit
BY DEF Init, CheckedBeforeOpen, TruncatedOnlyIfFit

\* Once all futures are collected no thread can change a result.
LEMMA CollectedIsFinal ==
  ASSUME Joined, collected = NumColumns, NEW c \in Columns
  PROVE  worker[c] = "done"
BY DEF Joined, InStep, Columns

LEMMA FitStep ==
  Fit /\ [Next]_vars => (CheckedBeforeOpen /\ TruncatedOnlyIfFit)'
<1> SUFFICES ASSUME Fit, [Next]_vars
             PROVE  (CheckedBeforeOpen /\ TruncatedOnlyIfFit)'
  OBVIOUS
<1> DEFINE Goal == (CheckedBeforeOpen /\ TruncatedOnlyIfFit)'
<1> USE DEF CheckedBeforeOpen, TruncatedOnlyIfFit
<1>0. CheckedBeforeOpen /\ TruncatedOnlyIfFit /\ TypeOK
  BY DEF Fit, Joined, Typed
<1>1. ASSUME NEW c \in Columns, Worker(c) PROVE Goal
  <2>1. worker[c] # "done"
    BY <1>1 DEF Worker, ReadColumn, CleanRows
  <2>2. collected # NumColumns
    BY <2>1, CollectedIsFinal DEF Fit
  <2>3. ~opened /\ pc \notin {"sizes", "open", "rows"}
    BY <2>1, <2>2, <1>0 DEF Fit, Joined, InStep
  <2>4. UNCHANGED <<pc, opened, outcome>>
    BY <1>1 DEF Worker, ReadColumn, CleanRows, mainVars, fileVars
  <2> QED BY <2>3, <2>4, <1>0
<1>2. CASE CheckPaths
  BY <1>0, <1>2 DEF CheckPaths, fileVars, TotalRows
<1>3. CASE Spawn
  BY <1>0, <1>3 DEF Spawn, fileVars, TotalRows
<1>4. CASE SpawnFails
  BY <1>0, <1>4 DEF SpawnFails, fileVars, TotalRows
<1>5. CASE Collect
  BY <1>0, <1>5 DEF Collect, fileVars, TotalRows
<1>6. CASE ValidateResults
  BY <1>0, <1>6 DEF ValidateResults, fileVars, TotalRows
<1>7. CASE ValidateOutput
  BY <1>0, <1>7 DEF ValidateOutput, fileVars, TotalRows
<1>8. CASE OpenExport
  <2>1. \A c \in Columns : worker[c] = "done"
    BY <1>8, CollectedIsFinal DEF Fit, OpenExport, Joined, InStep
  <2>2. pc = "open" /\ pc' = "rows" /\ opened' /\ outcome # "refused"
    BY <1>8 DEF Fit, Joined, InStep, OpenExport
  <2>3. UNCHANGED <<result, worker, outcome>>
    BY <1>8 DEF OpenExport
  <2>4. TruncatedOnlyIfFit'
    BY <1>0, <2>1, <2>2, <2>3 DEF TotalRows
  <2> QED BY <1>0, <2>2, <2>3, <2>4
<1>9. CASE OpenFails
  BY <1>0, <1>9 DEF OpenFails, fileVars, TotalRows
<1>10. CASE PrintRow
  BY <1>0, <1>10 DEF PrintRow, TotalRows
<1>11. CASE LoseWrites
  BY <1>0, <1>11 DEF LoseWrites, mainVars, TotalRows
<1>12. CASE FinishExport
  BY <1>0, <1>12 DEF FinishExport, fileVars, TotalRows
<1>13. CASE Unwind
  BY <1>0, <1>13 DEF Unwind, fileVars, TotalRows
<1>14. CASE UNCHANGED vars
  BY <1>0, <1>14 DEF vars, TotalRows
<1> QED BY <1>1, <1>2, <1>3, <1>4, <1>5, <1>6, <1>7, <1>8, <1>9, <1>10, <1>11,
           <1>12, <1>13, <1>14 DEF Next, Main, Finished

LEMMA AlwaysFit == Spec => []Fit
<1>1. Init => Fit
  BY TypedInit, JoinedInit, FitInit DEF Fit, Joined
<1>2. Fit /\ [Next]_vars => Fit'
  BY TypedStep, JoinedStep, FitStep DEF Fit, Joined
<1> QED BY <1>1, <1>2, PTL DEF Spec

\* An earlier export is never truncated for columns that do not fit together,
\* for any number of columns and any order in which their threads end.
THEOREM NeverTruncatedInVain == Spec => []TruncatedOnlyIfFit
<1>1. Fit => TruncatedOnlyIfFit
  BY DEF Fit
<1> QED BY AlwaysFit, <1>1, PTL

(***************************************************************************)
(* The lines of the export.                                                 *)
(***************************************************************************)

Written == Fit /\ WrittenSoFar

LEMMA WrittenInit == Init => WrittenSoFar
<1> SUFFICES ASSUME Init PROVE WrittenSoFar
  OBVIOUS
<1>1. 1 \in Columns
  BY ColumnsAssumption DEF Columns
<1>2. TotalRows = 0
  BY <1>1 DEF Init, TotalRows, DefaultResult
<1> QED BY <1>2 DEF Init, WrittenSoFar

\* Where every column agrees, the cells print_row writes are the whole line.
LEMMA AgreeingLine ==
  ASSUME NEW i, AgreeingColumns(i) = Columns
  PROVE  {<<c, result[c].rows[i]>> : c \in AgreeingColumns(i)} = FullLine(i)
<1>1. \A c \in Columns : result[c].rows[i] = result[1].rows[i]
  BY DEF AgreeingColumns, Columns
<1> QED BY <1>1 DEF FullLine

\* Where one does not, the line lacks a column.
LEMMA CutLine ==
  ASSUME NEW i, AgreeingColumns(i) # Columns
  PROVE  ~Whole({<<c, result[c].rows[i]>> : c \in AgreeingColumns(i)})
<1>1. PICK c \in Columns : c \notin AgreeingColumns(i)
  BY DEF AgreeingColumns
<1>2. ASSUME NEW cell \in {<<d, result[d].rows[i]>> : d \in AgreeingColumns(i)}
      PROVE  cell[1] # c
  BY <1>1
<1> QED BY <1>1, <1>2 DEF Whole

\* Of whole lines, the one a failing disk cuts lacks a column or is still whole.
LEMMA CutLinesAreCut ==
  ASSUME lines \in Seq(SUBSET (Columns \X Nat)), NEW n \in Columns,
         \A i \in DOMAIN lines : lines[i] = FullLine(i),
         NEW i \in DOMAIN lines
  PROVE  CutLines(n)[i] = FullLine(i) \/ (i = Len(lines) /\ ~Whole(CutLines(n)[i]))
<1> DEFINE S == Columns \X Nat
<1>0. CutLines(n)[i] = IF i = Len(lines) THEN {cell \in lines[i] : cell[1] <= n}
                       ELSE lines[i]
  <2>1. lines \in Seq(SUBSET S)
    OBVIOUS
  <2> HIDE DEF S
  <2> QED BY <2>1, CutLinesType
<1>1. CASE i # Len(lines)
  BY <1>0, <1>1
<1>2. CASE i = Len(lines) /\ n = NumColumns
  <2>1. \A cell \in FullLine(i) : cell[1] <= n
    BY <1>2, ColumnsAssumption DEF FullLine, Columns
  <2>2. {cell \in FullLine(i) : cell[1] <= n} = FullLine(i)
    BY <2>1
  <2> QED BY <1>0, <1>2, <2>2
<1>3. CASE i = Len(lines) /\ n # NumColumns
  <2>1. NumColumns \in Columns /\ ~(NumColumns <= n)
    BY <1>3, ColumnsAssumption DEF Columns
  <2>2. \A cell \in CutLines(n)[i] : cell[1] <= n
    BY <1>0, <1>3
  <2>3. \A cell \in CutLines(n)[i] : cell[1] # NumColumns
    BY <2>1, <2>2
  <2> QED BY <1>3, <2>1, <2>3 DEF Whole
<1> QED BY <1>1, <1>2, <1>3

LEMMA WrittenStep == Written /\ [Next]_vars => WrittenSoFar'
<1> SUFFICES ASSUME Written, [Next]_vars PROVE WrittenSoFar'
  OBVIOUS
<1>0. /\ WrittenSoFar /\ CheckedBeforeOpen /\ TypeOK
      /\ outcome = "running" <=> pc # "done"
      /\ 1 \in Columns /\ result[1].rows \in Seq(Nat) /\ TotalRows \in Nat
  BY ColumnsAssumption
     DEF Written, Fit, Joined, Typed, InStep, TypeOK, Results, TotalRows, Columns
<1>a. ASSUME UNCHANGED <<result, fileVars>>, pc' = "rows" => pc = "rows",
             outcome' \in {"exported", "exception"} => outcome' = outcome,
             pc' = "unwind" => pc = "unwind" \/ ~opened
      PROVE  WrittenSoFar'
  BY <1>0, <1>a DEF WrittenSoFar, fileVars, TotalRows, FullLine, AgreeingColumns
<1>1. ASSUME NEW c \in Columns, Worker(c) PROVE WrittenSoFar'
  <2>1. worker[c] # "done" /\ UNCHANGED <<mainVars, fileVars>>
    BY <1>1 DEF Worker, ReadColumn, CleanRows
  <2>2. ~opened
    BY <2>1 DEF Written, Fit, TruncatedOnlyIfFit
  <2>3. pc # "rows" /\ outcome # "exported"
    BY <2>2, <1>0 DEF CheckedBeforeOpen
  <2>4. Len(result'[1].rows) \in Nat
    <3>1. result' \in [Columns -> Results]
      BY TypedStep DEF Written, Fit, Joined, Typed, TypeOK
    <3> QED BY <3>1, <1>0 DEF Results
  <2> QED BY <2>1, <2>2, <2>3, <2>4, <1>0
          DEF WrittenSoFar, mainVars, fileVars, TotalRows
<1>2. CASE CheckPaths
  BY <1>0, <1>2, <1>a DEF CheckPaths, CheckedBeforeOpen
<1>3. CASE Spawn
  BY <1>0, <1>3, <1>a DEF Spawn
<1>4. CASE SpawnFails
  BY <1>0, <1>4, <1>a DEF SpawnFails, CheckedBeforeOpen
<1>5. CASE Collect
  BY <1>0, <1>5, <1>a DEF Collect, CheckedBeforeOpen
<1>6. CASE ValidateResults
  BY <1>0, <1>6, <1>a DEF ValidateResults
<1>7. CASE ValidateOutput
  BY <1>0, <1>7, <1>a DEF ValidateOutput, CheckedBeforeOpen
<1>8. CASE OpenExport
  <2>1. /\ ~opened /\ pc' = "rows" /\ outcome = "running"
        /\ UNCHANGED <<result, row, lines, lossy, outcome>>
    BY <1>0, <1>8 DEF OpenExport, CheckedBeforeOpen
  <2>2. row = 0 /\ lines = <<>>
    BY <2>1, <1>0 DEF WrittenSoFar
  <2>3. lines = [i \in 1 .. row |-> FullLine(i)] /\ 1 .. row = {}
    BY <2>2
  <2> QED BY <2>1, <2>2, <2>3, <1>0 DEF WrittenSoFar, TotalRows, FullLine
<1>9. CASE OpenFails
  BY <1>0, <1>9, <1>a DEF OpenFails
<1>10. CASE PrintRow
  <2> DEFINE i == row + 1
             cells == {<<c, result[c].rows[i]>> : c \in AgreeingColumns(i)}
  <2>1. /\ pc = "rows" /\ outcome = "running" /\ opened
        /\ row < TotalRows /\ row' = i
        /\ lines' = IF lossy THEN lines ELSE Append(lines, cells)
        /\ pc' = IF AgreeingColumns(i) = Columns THEN "rows" ELSE "unwind"
        /\ UNCHANGED <<result, opened, lossy, outcome>>
    BY <1>0, <1>10 DEF PrintRow, CheckedBeforeOpen
  <2>2. /\ row \in Nat /\ row <= TotalRows /\ Len(lines) <= row
        /\ \A j \in 1 .. row : AgreeingColumns(j) = Columns
        /\ ~lossy => lines = [j \in 1 .. row |-> FullLine(j)]
    BY <2>1, <1>0 DEF WrittenSoFar, TypeOK
  <2>3. lines \in Seq(SUBSET (Columns \X Nat))
    BY <1>0 DEF TypeOK
  <2>4. row' <= TotalRows' /\ TotalRows' = TotalRows /\ row' \in 1 .. TotalRows
    BY <2>1, <2>2, <1>0 DEF TotalRows
  <2> HIDE DEF cells
  <2>5. Len(lines') <= row'
    BY <2>1, <2>2, <2>3
  <2>5a. \A j \in DOMAIN lines :
          lines[j] = FullLine(j) \/ (j = Len(lines) /\ ~Whole(lines[j]))
    BY <1>0 DEF WrittenSoFar
  <2>6. CASE AgreeingColumns(i) = Columns
    <3>1. cells = FullLine(i)
      BY <2>6, AgreeingLine DEF cells
    <3>2. ~lossy => lines' = [j \in 1 .. row' |-> FullLine(j)]
      BY <2>1, <2>2, <2>3, <3>1
    <3>3. \A j \in 1 .. row' : AgreeingColumns(j) = Columns
      BY <2>1, <2>2, <2>6
    <3>4. \A j : /\ AgreeingColumns(j)' = AgreeingColumns(j)
                 /\ FullLine(j)' = FullLine(j)
      BY <2>1 DEF AgreeingColumns, FullLine
    <3>5. \A j \in DOMAIN lines' :
            lines'[j] = FullLine(j) \/ (j = Len(lines') /\ ~Whole(lines'[j]))
      BY <2>1, <2>5a, <3>2
    <3> QED BY <2>1, <2>4, <2>5, <2>6, <3>2, <3>3, <3>4, <3>5 DEF WrittenSoFar
  <2>7. CASE AgreeingColumns(i) # Columns
    <3>1. ~Whole(cells)
      BY <2>7, CutLine DEF cells
    <3>2. row' \in DOMAIN lines' => lines'[row'] = cells
      BY <2>1, <2>2, <2>3
    <3>3. \A j : FullLine(j)' = FullLine(j)
      BY <2>1 DEF FullLine
    <3>4. \A j \in DOMAIN lines' :
            lines'[j] = FullLine(j) \/ (j = Len(lines') /\ ~Whole(lines'[j]))
      <4>1. CASE lossy
        BY <2>1, <2>5a, <4>1
      <4>2. CASE ~lossy
        BY <2>1, <2>2, <2>3, <3>1, <4>2
      <4> QED BY <4>1, <4>2
    <3> QED BY <2>1, <2>4, <2>5, <2>7, <3>1, <3>2, <3>3, <3>4 DEF WrittenSoFar
  <2> QED BY <2>6, <2>7
<1>11. CASE LoseWrites
  <2>1. PICK n \in Columns : lines' = CutLines(n)
    BY <1>11 DEF LoseWrites
  <2>2. /\ pc = "rows" /\ ~lossy /\ lossy' /\ opened /\ outcome = "running"
        /\ UNCHANGED <<result, row, pc, opened, outcome>>
    BY <1>0, <1>11 DEF LoseWrites, mainVars, CheckedBeforeOpen
  <2>3. /\ row \in Nat /\ row <= TotalRows
        /\ lines = [j \in 1 .. row |-> FullLine(j)]
        /\ \A j \in 1 .. row : AgreeingColumns(j) = Columns
        /\ lines \in Seq(SUBSET (Columns \X Nat))
    BY <2>2, <1>0 DEF WrittenSoFar, TypeOK
  <2>4. /\ Len(lines') = Len(lines) /\ DOMAIN lines' = DOMAIN lines
        /\ Len(lines) <= row
    BY <2>1, <2>3, <1>0, CutLinesType DEF WrittenSoFar
  <2>5. \A i \in DOMAIN lines' :
          lines'[i] = FullLine(i) \/ (i = Len(lines') /\ ~Whole(lines'[i]))
    <3>1. \A i \in DOMAIN lines : lines[i] = FullLine(i)
      BY <2>3
    <3> QED BY <2>1, <2>3, <2>4, <3>1, CutLinesAreCut
  <2>6. /\ TotalRows' = TotalRows
        /\ \A j : /\ AgreeingColumns(j)' = AgreeingColumns(j)
                  /\ FullLine(j)' = FullLine(j)
    BY <2>2 DEF TotalRows, AgreeingColumns, FullLine
  <2> QED BY <2>2, <2>3, <2>4, <2>5, <2>6 DEF WrittenSoFar
<1>12. CASE FinishExport
  BY <1>0, <1>12 DEF FinishExport, fileVars, WrittenSoFar, CheckedBeforeOpen,
     TotalRows, FullLine, AgreeingColumns
<1>13. CASE Unwind
  BY <1>0, <1>13 DEF Unwind, fileVars, WrittenSoFar, TotalRows, FullLine
<1>14. CASE UNCHANGED vars
  BY <1>0, <1>14 DEF vars, WrittenSoFar, TotalRows, FullLine, AgreeingColumns
<1> QED BY <1>1, <1>2, <1>3, <1>4, <1>5, <1>6, <1>7, <1>8, <1>9, <1>10, <1>11,
           <1>12, <1>13, <1>14 DEF Next, Main, Finished

LEMMA AlwaysWritten == Spec => []Written
<1>1. Init => Written
  BY TypedInit, JoinedInit, FitInit, WrittenInit DEF Written, Fit, Joined
<1>2. Written /\ [Next]_vars => Written'
  BY TypedStep, JoinedStep, FitStep, WrittenStep DEF Written, Fit, Joined
<1> QED BY <1>1, <1>2, PTL DEF Spec

\* For any number of columns and any files: an export that was reported had
\* columns that agree on the row of every entry, and its file, if no write was
\* lost, has exactly the whole lines of these rows, in their order.
THEOREM ReportedExportIsAligned == Spec => []ExportIsAligned
<1>1. Written => ExportIsAligned
  <2> SUFFICES ASSUME Written, outcome = "exported"
               PROVE  /\ \A c \in Columns : result[c].rows = result[1].rows
                      /\ ~lossy => lines = [i \in 1 .. TotalRows |-> FullLine(i)]
    BY DEF ExportIsAligned, FullLine
  <2>1. /\ \A c \in Columns : Len(result[c].rows) = TotalRows
        /\ \A c \in Columns : result[c].rows \in Seq(Nat)
        /\ 1 \in Columns
    BY ColumnsAssumption DEF Written, Fit, CheckedBeforeOpen, TruncatedOnlyIfFit,
       Joined, Typed, TypeOK, Results, Columns
  <2>2. /\ row = TotalRows
        /\ \A i \in 1 .. TotalRows : AgreeingColumns(i) = Columns
        /\ ~lossy => lines = [i \in 1 .. TotalRows |-> FullLine(i)]
    BY DEF Written, WrittenSoFar
  <2>3. \A i \in 1 .. TotalRows : \A c \in Columns :
          result[c].rows[i] = result[1].rows[i]
    BY <2>2 DEF AgreeingColumns, Columns
  <2>4. ASSUME NEW c \in Columns PROVE result[c].rows = result[1].rows
    <3>1. ASSUME NEW d \in Columns PROVE result[d].rows \in [1 .. TotalRows -> Nat]
      BY <2>1
    <3>2. result[c].rows \in [1 .. TotalRows -> Nat]
          /\ result[1].rows \in [1 .. TotalRows -> Nat]
      BY <3>1, <2>1
    <3>3. \A i \in 1 .. TotalRows : result[c].rows[i] = result[1].rows[i]
      BY <2>3
    <3> DEFINE f == result[c].rows
               g == result[1].rows
    <3>4. /\ f = [i \in 1 .. TotalRows |-> f[i]]
          /\ g = [i \in 1 .. TotalRows |-> g[i]]
      BY <3>2
    <3> HIDE DEF f, g
    <3>5. f = g
      BY <3>3, <3>4 DEF f, g
    <3> QED BY <3>5 DEF f, g
  <2> QED BY <2>2, <2>4
<1> QED BY AlwaysWritten, <1>1, PTL

\* For any number of columns and rows, and wherever the job throws or the disk
\* fails: the file is a prefix of the lines of the rows, only its last line may
\* be cut, and a file with a whole line for every row was reported.
THEOREM CutExportIsRecognisable == Spec => []CutExportIsShort
<1>1. Written => CutExportIsShort
  <2> SUFFICES ASSUME Written, opened, pc = "done"
               PROVE  /\ Len(lines) <= TotalRows
                      /\ \A i \in DOMAIN lines :
                           lines[i] = FullLine(i)
                           \/ (i = Len(lines) /\ ~Whole(lines[i]))
                      /\ (\A i \in 1 .. TotalRows :
                            i \in DOMAIN lines /\ Whole(lines[i]))
                           => outcome = "exported"
    BY DEF CutExportIsShort
  <2>1. /\ row <= TotalRows /\ Len(lines) <= row
        /\ \A i \in DOMAIN lines :
             lines[i] = FullLine(i) \/ (i = Len(lines) /\ ~Whole(lines[i]))
        /\ outcome = "exception" =>
             row \in 1 .. TotalRows /\ (row \in DOMAIN lines => ~Whole(lines[row]))
    BY DEF Written, WrittenSoFar
  <2>2. /\ lines \in Seq(SUBSET (Columns \X Nat)) /\ TotalRows \in Nat
        /\ row \in Nat
    BY ColumnsAssumption DEF Written, Fit, Joined, Typed, TypeOK, Results,
       TotalRows, Columns
  <2>3. outcome \in {"exported", "exception"}
    BY DEF Written, Fit, Joined, Typed, TypeOK, InStep, CheckedBeforeOpen
  <2> QED BY <2>1, <2>2, <2>3
<1> QED BY AlwaysWritten, <1>1, PTL

(***************************************************************************)
(* Dropped rows.                                                            *)
(***************************************************************************)

LEMMA DroppedInit == Init => DroppedEarly
<1> SUFFICES ASSUME Init PROVE DroppedEarly
  OBVIOUS
<1>1. \A c \in Columns : result[c].rows = <<>>
  BY DEF Init, DefaultResult
<1>2. lines = <<>>
  BY DEF Init
<1>3. \A X : <<>> \in Seq(X)
  OBVIOUS
<1> QED BY <1>1, <1>2, <1>3 DEF DroppedEarly

LEMMA DroppedStep == Typed /\ DroppedEarly /\ [Next]_vars => DroppedEarly'
<1> SUFFICES ASSUME Typed, DroppedEarly, [Next]_vars PROVE DroppedEarly'
  OBVIOUS
<1>0. job' = job /\ TypeOK /\ ReadBeforeCleaning
  BY DEF Typed, Next, Main, Worker, ReadColumn, CleanRows, CheckPaths, Spawn,
     SpawnFails, Collect, ValidateResults, ValidateOutput, OpenExport, OpenFails,
     PrintRow, LoseWrites, FinishExport, Unwind, Finished, vars
<1>1. ASSUME NEW c \in Columns, ReadColumn(c) PROVE DroppedEarly'
  <2>1. DefaultResult.rows \in Seq(Nat \ job.drop)
    BY DEF DefaultResult
  <2> QED BY <1>0, <1>1, <2>1 DEF ReadColumn, fileVars, DroppedEarly, TypeOK
<1>2. ASSUME NEW c \in Columns, CleanRows(c) PROVE DroppedEarly'
  <2>1. CleanColumn(c).rows \in Seq(Nat \ job.drop)
    BY <1>0, <1>2, CleanColumnType DEF CleanRows, ReadBeforeCleaning, TypeOK
  <2> QED BY <1>0, <1>2, <2>1 DEF CleanRows, fileVars, DroppedEarly, TypeOK
<1>3. CASE PrintRow
  <2> DEFINE i == row + 1
             cells == {<<c, result[c].rows[i]>> : c \in AgreeingColumns(i)}
  <2>1. 1 \in Columns /\ row \in Nat /\ row < Len(result[1].rows)
    BY <1>0, <1>3, ColumnsAssumption DEF PrintRow, TotalRows, TypeOK, Columns
  <2>2. result[1].rows[i] \in Nat \ job.drop
    BY <2>1 DEF DroppedEarly
  <2>3. ASSUME NEW c \in AgreeingColumns(i)
        PROVE  <<c, result[c].rows[i]>> \in Columns \X (Nat \ job.drop)
    <3>1. c \in Columns /\ result[c].rows[i] = result[1].rows[i]
      BY DEF AgreeingColumns, Columns
    <3> QED BY <3>1, <2>2
  <2>4. cells \in SUBSET (Columns \X (Nat \ job.drop))
    BY <2>3
  <2>5. lines' = (IF lossy THEN lines ELSE Append(lines, cells))
        /\ result' = result
    BY <1>3 DEF PrintRow
  <2> HIDE DEF cells
  <2> QED BY <1>0, <2>4, <2>5 DEF DroppedEarly
<1>4. CASE LoseWrites
  <2> DEFINE S == Columns \X (Nat \ job.drop)
  <2>1. PICK n \in Columns : lines' = CutLines(n)
    BY <1>4 DEF LoseWrites
  <2>2. lines \in Seq(SUBSET S)
    BY DEF DroppedEarly
  <2>3. lines' \in Seq(SUBSET S)
    <3> HIDE DEF S
    <3> QED BY <2>1, <2>2, CutLinesType
  <2> QED BY <1>0, <1>4, <2>3 DEF LoseWrites, DroppedEarly
<1>5. CASE UNCHANGED <<result, lines>>
  BY <1>0, <1>5 DEF DroppedEarly
<1>6. CheckPaths \/ Spawn \/ SpawnFails \/ Collect \/ ValidateResults
        \/ ValidateOutput \/ OpenExport \/ OpenFails \/ FinishExport
        \/ Unwind \/ Finished \/ UNCHANGED vars
      => UNCHANGED <<result, lines>>
  BY DEF CheckPaths, Spawn, SpawnFails, Collect, ValidateResults, ValidateOutput,
     OpenExport, OpenFails, FinishExport, Unwind, Finished, vars, fileVars
<1> QED BY <1>1, <1>2, <1>3, <1>4, <1>5, <1>6 DEF Next, Main, Worker

\* No row that was to be dropped reaches the export, whatever the files hold and
\* whichever columns the rows to drop were asked for.
THEOREM DroppedRowsNeverExported == Spec => []DroppedRowsStayOut
<1>1. DroppedEarly => DroppedRowsStayOut
  <2> SUFFICES ASSUME DroppedEarly, NEW i \in DOMAIN lines, NEW cell \in lines[i]
               PROVE  cell[2] \notin job.drop
    BY DEF DroppedRowsStayOut
  <2>1. lines[i] \in SUBSET (Columns \X (Nat \ job.drop))
    BY DEF DroppedEarly
  <2>2. cell \in Columns \X (Nat \ job.drop)
    BY <2>1
  <2> QED BY <2>2
<1> QED BY TypedInit, TypedStep, DroppedInit, DroppedStep, <1>1, PTL DEF Spec

\* The whole inductive invariant: IInv holds of every behaviour.
THEOREM Invariance == Spec => []IInv
<1>1. Written /\ DroppedEarly => IInv
  BY DEF IInv, Written, Fit, Joined, Typed
<1>2. Spec => []DroppedEarly
  BY TypedInit, TypedStep, DroppedInit, DroppedStep, PTL DEF Spec
<1> QED BY AlwaysWritten, <1>1, <1>2, PTL

(***************************************************************************)
(* The job as the application sees it.                                      *)
(***************************************************************************)

LEMMA JobStep == Written /\ [Next]_vars => [Job!JobNext]_(Job!jobVars)
<1> SUFFICES ASSUME Written, [Next]_vars
             PROVE  Job!JobNext \/ UNCHANGED <<outcome, fileSeen>>
  BY DEF Job!jobVars
<1>0. /\ outcome = "running" <=> pc # "done"
      /\ opened => pc \in {"rows", "unwind", "done"}
      /\ pc = "rows" => opened
      /\ ~opened => ~lossy
  BY DEF Written, Fit, Joined, InStep, CheckedBeforeOpen, WrittenSoFar
<1>1. ASSUME NEW c \in Columns, Worker(c) PROVE UNCHANGED <<outcome, fileSeen>>
  BY <1>1 DEF Worker, ReadColumn, CleanRows, mainVars, fileVars, fileSeen
<1>2. CASE CheckPaths \/ Spawn \/ SpawnFails \/ Collect \/ ValidateOutput
             \/ PrintRow \/ UNCHANGED vars
  BY <1>2 DEF CheckPaths, Spawn, SpawnFails, Collect, ValidateOutput, PrintRow,
     vars, fileVars, fileSeen
<1>3. CASE ValidateResults
  BY <1>0, <1>3 DEF ValidateResults, fileVars, fileSeen, Job!JobNext, Job!Refuse
<1>4. CASE OpenExport
  BY <1>0, <1>4 DEF OpenExport, fileSeen, Job!JobNext, Job!Truncate
<1>5. CASE OpenFails
  BY <1>0, <1>5 DEF OpenFails, fileVars, fileSeen, Job!JobNext, Job!Refuse
<1>6. CASE LoseWrites
  BY <1>0, <1>6 DEF LoseWrites, mainVars, fileSeen, Job!JobNext, Job!LoseWrites
<1>7. CASE FinishExport
  BY <1>0, <1>7 DEF FinishExport, fileVars, fileSeen, Job!JobNext, Job!Answer
<1>8. CASE Unwind
  BY <1>0, <1>8 DEF Unwind, fileVars, fileSeen, Job!JobNext, Job!Throw
<1> QED BY <1>1, <1>2, <1>3, <1>4, <1>5, <1>6, <1>7, <1>8
        DEF Next, Main, Finished

\* The safety part of ImplementsJob: every behaviour of the threads is one job
\* of CleanupJob, the file it leaves included.
THEOREM JobSafety == Spec => Job!JobInit /\ [][Job!JobNext]_(Job!jobVars)
<1>1. Init => Job!JobInit
  BY DEF Init, Job!JobInit, fileSeen
<1> QED BY AlwaysWritten, JobStep, <1>1, PTL DEF Spec

(***************************************************************************)
(* Lists with one set of actions per column.                                *)
(***************************************************************************)

\* A set of actions with its parts.
Actions(id, drop, fix, norm) == [id |-> id, drop |-> drop, fix |-> fix, norm |-> norm]
DropPart(part) == [drop |-> part]
FixPart(part) == [fix |-> part]
NormPart(part) == [norm |-> part]

\* An entry sets one part of the actions of a column and leaves the others
\* (dataclean_conf_preliminery, insert).
LEMMA OnePartIsSet ==
  ASSUME NEW id, NEW drop, NEW fix, NEW norm, NEW new
  PROVE  /\ With(Actions(id, drop, fix, norm), DropPart(new)) = Actions(id, new, fix, norm)
         /\ With(Actions(id, drop, fix, norm), FixPart(new)) = Actions(id, drop, new, norm)
         /\ With(Actions(id, drop, fix, norm), NormPart(new)) = Actions(id, drop, fix, new)
<1>1. DOMAIN Actions(id, drop, fix, norm) = {"id", "drop", "fix", "norm"}
  BY DEF Actions
<1>2. /\ DOMAIN DropPart(new) = {"drop"} /\ DropPart(new)["drop"] = new
      /\ DOMAIN FixPart(new) = {"fix"} /\ FixPart(new)["fix"] = new
      /\ DOMAIN NormPart(new) = {"norm"} /\ NormPart(new)["norm"] = new
  BY DEF DropPart, FixPart, NormPart
<1> QED BY <1>1, <1>2 DEF With, Actions

\* What is read of a list of rows is what stands before everything that is no row.
LEMMA TakenAreRows ==
  ASSUME NEW list \in Seq(Nat \cup {NotARow})
  PROVE  Taken(list) = Rows(list)
<1>1. ASSUME NEW i \in DOMAIN list
      PROVE  (\A k \in 1 .. i : list[k] # NotARow)
               <=> NotARow \notin Elements(SubSeq(list, 1, i))
  <2>1. /\ DOMAIN SubSeq(list, 1, i) = 1 .. i
        /\ \A k \in 1 .. i : SubSeq(list, 1, i)[k] = list[k]
    OBVIOUS
  <2> QED BY <2>1 DEF Elements
<1> QED BY <1>1 DEF Taken, Rows, Elements

\* The place of a column in a list that has it once is the one that is found.
LEMMA OnlyPlace ==
  ASSUME NEW list, \A i, j \in DOMAIN list : i # j => list[i].id # list[j].id,
         DOMAIN list \subseteq Nat, NEW id, PlacesOf(list, id) # {}
  PROVE  /\ FirstOf(PlacesOf(list, id)) \in DOMAIN list
         /\ list[FirstOf(PlacesOf(list, id))].id = id
<1>1. PICK i \in DOMAIN list : PlacesOf(list, id) = {i} /\ list[i].id = id
  BY DEF PlacesOf
<1>2. FirstOf(PlacesOf(list, id)) = i
  BY <1>1 DEF FirstOf
<1> QED BY <1>1, <1>2

(***************************************************************************)
(* What the entries that were taken ask for.                                *)
(***************************************************************************)
LastAsked(id, kind) == message[LastOf(EntriesFor(id, kind))]
HasLast(places) == places = {} \/ \E i \in places : \A j \in places : j <= i

\* A column is in the list once, if an entry is for it, and it has what the last
\* entries say.
Latest ==
  /\ message \in Seq(Entries)
  /\ actions \in Seq(ColumnActions)
  /\ \A i, j \in DOMAIN actions : i # j => actions[i].id # actions[j].id
  /\ \A id : PlacesOf(actions, id) # {}
         <=> \E i \in DOMAIN message : Target(message[i]) = id
  /\ \A id, kind : HasLast(EntriesFor(id, kind))
  /\ \A i \in DOMAIN actions : \A id : actions[i].id = id => actions[i] = Asked(id)

\* The last entry for a column is the new one, if it is for it, or else the one
\* it was (read_actions).
LEMMA LastEntry ==
  ASSUME message \in Seq(Entries), NEW e \in Entries, message' = Append(message, e),
         NEW id, NEW kind, HasLast(EntriesFor(id, kind))
  PROVE  /\ HasLast(EntriesFor(id, kind))'
         /\ e.action = kind /\ Target(e) = id =>
              /\ EntriesFor(id, kind)' # {}
              /\ LastAsked(id, kind)' = e
         /\ ~(e.action = kind /\ Target(e) = id) =>
              /\ EntriesFor(id, kind)' = EntriesFor(id, kind)
              /\ EntriesFor(id, kind) # {} =>
                   LastAsked(id, kind)' = LastAsked(id, kind)
<1> DEFINE n == Len(message)
           places == EntriesFor(id, kind)
<1>1. n \in Nat /\ DOMAIN message = 1 .. n /\ DOMAIN message' = 1 .. n + 1
  OBVIOUS
<1>2. message'[n + 1] = e /\ \A i \in 1 .. n : message'[i] = message[i]
  OBVIOUS
<1>3. places \subseteq 1 .. n
  BY <1>1 DEF EntriesFor
<1>4. places' = {i \in 1 .. n + 1 : message'[i].action = kind /\ Target(message'[i]) = id}
  BY <1>1 DEF EntriesFor, Target
<1>5. places = {i \in 1 .. n : message[i].action = kind /\ Target(message[i]) = id}
  BY <1>1 DEF EntriesFor
<1>6. CASE e.action = kind /\ Target(e) = id
  <2>1. places' = places \cup {n + 1}
    BY <1>1, <1>2, <1>4, <1>5, <1>6
  <2> HIDE DEF places, n
  <2>2. \A j \in places' : j <= n + 1
    BY <1>1, <1>3, <2>1
  <2>3. HasLast(places)'
    BY <2>1, <2>2 DEF HasLast
  <2>4. LastOf(places') = n + 1
    <3>1. n + 1 \in places' /\ \A i \in places' : i = n + 1 \/ ~(n + 1 <= i)
      BY <1>1, <1>3, <2>1
    <3> QED BY <2>2, <3>1 DEF LastOf
  <2>5. LastAsked(id, kind)' = message'[LastOf(places')]
    BY DEF LastAsked, LastOf, places
  <2> QED BY <1>2, <1>6, <2>1, <2>3, <2>4, <2>5 DEF places
<1>7. CASE ~(e.action = kind /\ Target(e) = id)
  <2>1. places' = places
    BY <1>1, <1>2, <1>4, <1>5, <1>7
  <2> HIDE DEF places, n
  <2>2. HasLast(places)'
    BY <2>1 DEF HasLast, places
  <2>3. places # {} => LastOf(places) \in places
    BY DEF HasLast, LastOf, places
  <2>4. places # {} => message'[LastOf(places)] = message[LastOf(places)]
    BY <1>2, <1>3, <2>3
  <2>5. LastAsked(id, kind)' = message'[LastOf(places')]
    BY DEF LastAsked, LastOf, places
  <2>6. LastAsked(id, kind) = message[LastOf(places)]
    BY DEF LastAsked, places
  <2> QED BY <1>7, <2>1, <2>2, <2>4, <2>5, <2>6 DEF places
<1> QED BY <1>6, <1>7

\* What a message asks for a column, with the part that one more entry sets.
LEMMA AskedOfOneMore ==
  ASSUME message \in Seq(Entries), NEW e \in Entries,
         message' = Append(message, e),
         Known(e), NEW id, \A kind : HasLast(EntriesFor(id, kind))
  PROVE  Asked(id)' = IF id = Target(e) THEN With(Asked(id), Field(e))
                           ELSE Asked(id)
<1> DEFINE Drop == IF EntriesFor(id, "filter.rows") = {} THEN {}
                   ELSE Rows(LastAsked(id, "filter.rows").rows)
           Fix == IF EntriesFor(id, "fix.missing") = {} THEN Default
                  ELSE [algo |-> LastAsked(id, "fix.missing").algo,
                        rows |-> Rows(LastAsked(id, "fix.missing").rows)]
           Norm == IF EntriesFor(id, "normalized") = {} THEN ""
                   ELSE LastAsked(id, "normalized").algo
<1>1. /\ Asked(id) = Actions(id, Drop, Fix, Norm)
      /\ Asked(id)' = Actions(id, Drop', Fix', Norm')
  BY DEF Asked, Actions, LastAsked
<1>0. ASSUME NEW kind
      PROVE  IF e.action = kind /\ Target(e) = id
             THEN EntriesFor(id, kind)' # {} /\ LastAsked(id, kind)' = e
             ELSE /\ EntriesFor(id, kind)' = EntriesFor(id, kind)
                  /\ EntriesFor(id, kind) # {} => LastAsked(id, kind)' = LastAsked(id, kind)
  BY LastEntry
<1>2. IF id = Target(e) /\ e.action = "filter.rows"
      THEN Drop' = Rows(e.rows) ELSE Drop' = Drop
  BY <1>0
<1>3. IF id = Target(e) /\ e.action = "fix.missing"
      THEN Fix' = [algo |-> e.algo, rows |-> Rows(e.rows)] ELSE Fix' = Fix
  BY <1>0
<1>4. IF id = Target(e) /\ e.action = "normalized" THEN Norm' = e.algo ELSE Norm' = Norm
  <2>1. CASE e.action = "normalized" /\ Target(e) = id
    BY <1>0, <2>1
  <2>2. CASE ~(e.action = "normalized" /\ Target(e) = id)
    <3>1. EntriesFor(id, "normalized")' = EntriesFor(id, "normalized")
      BY <1>0, <2>2
    <3>2. EntriesFor(id, "normalized") # {} =>
            LastAsked(id, "normalized")' = LastAsked(id, "normalized")
      BY <1>0, <2>2
    <3>3. Norm' = Norm
      BY <3>1, <3>2
    <3> QED BY <2>2, <3>3
  <2> QED BY <2>1, <2>2
<1> HIDE DEF Drop, Fix, Norm
<1>5. Rows(e.rows) = Taken(e.rows)
  <2>1. e.rows \in Seq(Nat \cup {NotARow})
    BY InputAssumption DEF EntryType
  <2> QED BY <2>1, TakenAreRows
<1>6. CASE id # Target(e)
  BY <1>1, <1>2, <1>3, <1>4, <1>6
<1>7. CASE id = Target(e) /\ e.action = "filter.rows"
  <2>1. Field(e) = DropPart(Taken(e.rows))
    BY <1>7 DEF Field, DropPart, FixPart, NormPart
  <2> QED BY <1>1, <1>2, <1>3, <1>4, <1>5, <1>7, <2>1, OnePartIsSet
<1>8. CASE id = Target(e) /\ e.action = "fix.missing"
  <2>1. Field(e) = FixPart([algo |-> e.algo, rows |-> Taken(e.rows)])
    BY <1>8 DEF Field, DropPart, FixPart, NormPart
  <2> QED BY <1>1, <1>2, <1>3, <1>4, <1>5, <1>8, <2>1, OnePartIsSet
<1>9. CASE id = Target(e) /\ e.action = "normalized"
  <2>1. Field(e) = NormPart(e.algo)
    BY <1>9 DEF Field, DropPart, FixPart, NormPart
  <2> QED BY <1>1, <1>2, <1>3, <1>4, <1>9, <2>1, OnePartIsSet
<1> QED BY <1>6, <1>7, <1>8, <1>9 DEF Known

\* A column no entry is for gets what a new set of actions has.
LEMMA NothingAsked ==
  ASSUME NEW id, ~\E i \in DOMAIN message : Target(message[i]) = id
  PROVE  Asked(id) = Fresh(id)
<1>1. \A kind : EntriesFor(id, kind) = {}
  BY DEF EntriesFor
<1> QED BY <1>1 DEF Asked, Fresh

NormType == {"", "znorm"}
FixType == [algo : {"", "const", "linear"}, rows : SUBSET RowNumbers]

LEMMA ActionsType ==
  ASSUME NEW id \in ColumnIds \cup {NoColumn}, NEW drop \in SUBSET RowNumbers,
         NEW fix \in FixType, NEW norm \in NormType
  PROVE  /\ Actions(id, drop, fix, norm) \in ColumnActions
         /\ Actions(id, drop, fix, norm).id = id
BY DEF Actions, ColumnActions, FixType, NormType

\* The actions of a column after one more entry for it are well typed.
LEMMA FieldType ==
  ASSUME NEW e \in Entries, Accepted(e), NEW act \in ColumnActions
  PROVE  /\ With(act, Field(e)) \in ColumnActions
         /\ With(act, Field(e)).id = act.id
<1>1. act = Actions(act.id, act.drop, act.fix, act.norm)
  BY DEF ColumnActions, Actions
<1>2. /\ act.id \in ColumnIds \cup {NoColumn} /\ act.drop \in SUBSET RowNumbers
      /\ act.fix \in FixType
      /\ act.norm \in NormType
  BY DEF ColumnActions, FixType, NormType
<1>3. Taken(e.rows) \in SUBSET RowNumbers
  <2>1. e.rows \in RowLists
    BY InputAssumption DEF EntryType
  <2>2. e.rows \in Seq(Nat \cup {NotARow})
    BY <2>1, InputAssumption
  <2>3. \A i \in DOMAIN e.rows :
          (\A k \in 1 .. i : e.rows[k] # NotARow) => e.rows[i] # NotARow
    BY <2>2
  <2> QED BY <2>1, <2>3 DEF Taken, RowNumbers, Elements
<1>4. CASE e.action = "filter.rows"
  <2>1. Field(e) = DropPart(Taken(e.rows))
    BY <1>4 DEF Field, DropPart, FixPart, NormPart
  <2>2. With(act, Field(e)) = Actions(act.id, Taken(e.rows), act.fix, act.norm)
    BY <1>1, <2>1, OnePartIsSet
  <2> QED BY <1>2, <1>3, <2>2, ActionsType
<1>5. CASE e.action = "fix.missing"
  <2> DEFINE new == [algo |-> e.algo, rows |-> Taken(e.rows)]
  <2>1. Field(e) = FixPart(new)
    BY <1>5 DEF Field, DropPart, FixPart, NormPart
  <2>2. new \in FixType
    BY <1>3, <1>5 DEF Accepted, Known, FixType
  <2> HIDE DEF new
  <2>3. With(act, Field(e)) = Actions(act.id, act.drop, new, act.norm)
    BY <1>1, <2>1, OnePartIsSet
  <2>4. Actions(act.id, act.drop, new, act.norm) \in ColumnActions
    BY <1>2, <2>2, ActionsType
  <2>5. Actions(act.id, act.drop, new, act.norm).id = act.id
    BY <1>2, <2>2, ActionsType
  <2> QED BY <2>3, <2>4, <2>5
<1>6. CASE e.action = "normalized"
  <2>1. Field(e) = NormPart(e.algo) /\ e.algo \in NormType
    BY <1>6 DEF Field, NormPart, Accepted, Known, NormType
  <2>2. With(act, Field(e)) = Actions(act.id, act.drop, act.fix, e.algo)
    BY <1>1, <2>1, OnePartIsSet
  <2> QED BY <1>2, <2>1, <2>2, ActionsType
<1> QED BY <1>4, <1>5, <1>6 DEF Accepted, Known

\* A new set of actions is one for a column, or for none.
LEMMA FreshType ==
  ASSUME NEW id \in ColumnIds \cup {NoColumn}
  PROVE  Fresh(id) \in ColumnActions /\ Fresh(id).id = id
BY DEF Fresh, ColumnActions, Default

\* The column of an entry that is taken.
LEMMA TargetType ==
  ASSUME NEW e \in Entries, Accepted(e)
  PROVE  Target(e) \in ColumnIds \cup {NoColumn}
BY AsNumberAssumption, InputAssumption DEF EntryType, Accepted, Known, Target

LEMMA LatestStep == Latest /\ TakeEntry => Latest'
<1> SUFFICES ASSUME Latest, TakeEntry PROVE Latest'
  OBVIOUS
<1>1. PICK e \in Entries : /\ Accepted(e) /\ message' = Append(message, e)
                           /\ actions' = Insert(actions, Target(e), Field(e))
  BY DEF TakeEntry
<1> DEFINE t == Target(e)
           n == Len(actions)
<1>2. /\ message \in Seq(Entries) /\ actions \in Seq(ColumnActions)
      /\ DOMAIN actions = 1 .. n /\ n \in Nat
      /\ \A i, j \in DOMAIN actions : i # j => actions[i].id # actions[j].id
      /\ \A id : PlacesOf(actions, id) # {}
             <=> \E i \in DOMAIN message : Target(message[i]) = id
      /\ \A id, kind : HasLast(EntriesFor(id, kind))
      /\ \A i \in DOMAIN actions : \A id : actions[i].id = id => actions[i] = Asked(id)
  BY DEF Latest
<1>3. message' \in Seq(Entries)
  BY <1>1, <1>2
<1>4. \A id, kind : HasLast(EntriesFor(id, kind))'
  BY <1>1, <1>2, LastEntry
<1>5. Known(e) /\ t \in ColumnIds \cup {NoColumn}
  BY <1>1, TargetType DEF Accepted
<1>6. \A id : Asked(id)' = IF id = t THEN With(Asked(id), Field(e))
                              ELSE Asked(id)
  BY <1>1, <1>2, <1>5, AskedOfOneMore
<1>7. \A id : (\E i \in DOMAIN message' : Target(message'[i]) = id)
                <=> id = t \/ \E i \in DOMAIN message : Target(message[i]) = id
  <2>1. /\ DOMAIN message' = 1 .. Len(message) + 1 /\ DOMAIN message = 1 .. Len(message)
        /\ Len(message) \in Nat /\ message'[Len(message) + 1] = e
        /\ \A i \in 1 .. Len(message) : message'[i] = message[i]
    BY <1>1, <1>2
  <2> QED BY <2>1
<1> HIDE DEF t
<1>8. CASE PlacesOf(actions, t) = {}
  <2> DEFINE new == With(Fresh(t), Field(e))
  <2>1. actions' = Append(actions, new)
    BY <1>1, <1>8 DEF Insert, t
  <2>2. new \in ColumnActions /\ new.id = t
    BY <1>1, <1>5, FreshType, FieldType
  <2>3. new = Asked(t)'
    <3>1. Asked(t) = Fresh(t)
      BY <1>2, <1>8, NothingAsked
    <3> QED BY <1>6, <3>1
  <2> HIDE DEF new
  <2>4. /\ actions' \in Seq(ColumnActions) /\ DOMAIN actions' = 1 .. n + 1
        /\ actions'[n + 1] = new /\ \A i \in 1 .. n : actions'[i] = actions[i]
    BY <1>2, <2>1, <2>2
  <2>5. \A i \in 1 .. n : actions[i].id # t
    BY <1>2, <1>8 DEF PlacesOf
  <2>6. \A i, j \in DOMAIN actions' : i # j => actions'[i].id # actions'[j].id
    <3> SUFFICES ASSUME NEW i \in 1 .. n + 1, NEW j \in 1 .. n + 1, i # j
                 PROVE  actions'[i].id # actions'[j].id
      BY <2>4
    <3>1. CASE i = n + 1
      BY <1>2, <2>2, <2>4, <2>5, <3>1
    <3>2. CASE j = n + 1
      BY <1>2, <2>2, <2>4, <2>5, <3>2
    <3>3. CASE i # n + 1 /\ j # n + 1
      BY <1>2, <2>4, <3>3
    <3> QED BY <3>1, <3>2, <3>3
  <2>7. \A id : PlacesOf(actions', id) # {} <=> id = t \/ PlacesOf(actions, id) # {}
    BY <1>2, <2>2, <2>4 DEF PlacesOf
  <2>8. \A i \in DOMAIN actions' : \A id : actions'[i].id = id => actions'[i] = Asked(id)'
    <3> SUFFICES ASSUME NEW i \in 1 .. n + 1, NEW id, actions'[i].id = id
                 PROVE  actions'[i] = Asked(id)'
      BY <2>4
    <3>1. CASE i = n + 1
      BY <2>2, <2>3, <2>4, <3>1
    <3>2. CASE i \in 1 .. n
      BY <1>2, <1>6, <2>4, <2>5, <3>2
    <3> QED BY <1>2, <3>1, <3>2
  <2>9. \A id : PlacesOf(actions', id) # {}
                 <=> \E i \in DOMAIN message' : Target(message'[i]) = id
    BY <1>2, <1>7, <2>7
  <2>10. \A id : (PlacesOf(actions, id) # {})'
                  <=> (\E i \in DOMAIN message : Target(message[i]) = id)'
    BY <2>9 DEF PlacesOf, Target
  <2> QED BY <1>3, <1>4, <2>4, <2>6, <2>8, <2>10 DEF Latest
<1>9. CASE PlacesOf(actions, t) # {}
  <2> DEFINE at == FirstOf(PlacesOf(actions, t))
             new == With(actions[at], Field(e))
  <2>1. actions' = [actions EXCEPT ![at] = new]
    BY <1>1, <1>9 DEF Insert, t
  <2>2. at \in 1 .. n /\ actions[at].id = t
    <3>1. /\ DOMAIN actions \subseteq Nat
          /\ \A i, j \in DOMAIN actions : i # j => actions[i].id # actions[j].id
      BY <1>2
    <3>2. at \in DOMAIN actions /\ actions[at].id = t
      BY <1>9, <3>1, OnlyPlace
    <3> QED BY <1>2, <3>2
  <2> HIDE DEF at
  <2>3. new \in ColumnActions /\ new.id = t
    <3>1. actions[at] \in ColumnActions
      BY <1>2, <2>2
    <3> QED BY <1>1, <2>2, <3>1, FieldType
  <2>4. new = Asked(t)'
    BY <1>2, <1>6, <2>2
  <2> HIDE DEF new
  <2>5. /\ actions' \in Seq(ColumnActions) /\ DOMAIN actions' = 1 .. n
        /\ actions'[at] = new /\ \A i \in 1 .. n : i # at => actions'[i] = actions[i]
    BY <1>2, <2>1, <2>2, <2>3
  <2>6. \A i \in 1 .. n : actions'[i].id = actions[i].id
    BY <2>2, <2>3, <2>5
  <2>7. \A i, j \in DOMAIN actions' : i # j => actions'[i].id # actions'[j].id
    BY <1>2, <2>5, <2>6
  <2>8. \A id : PlacesOf(actions', id) # {} <=> id = t \/ PlacesOf(actions, id) # {}
    BY <1>2, <2>2, <2>5, <2>6 DEF PlacesOf
  <2>9. \A i \in DOMAIN actions' : \A id : actions'[i].id = id => actions'[i] = Asked(id)'
    <3> SUFFICES ASSUME NEW i \in 1 .. n, NEW id, actions'[i].id = id
                 PROVE  actions'[i] = Asked(id)'
      BY <2>5
    <3>1. CASE i = at
      BY <2>3, <2>4, <2>5, <3>1
    <3>2. CASE i # at
      BY <1>2, <1>6, <2>2, <2>5, <3>2
    <3> QED BY <3>1, <3>2
  <2>10. \A id : PlacesOf(actions', id) # {}
                  <=> \E i \in DOMAIN message' : Target(message'[i]) = id
    BY <1>2, <1>7, <2>8
  <2>11. \A id : (PlacesOf(actions, id) # {})'
                  <=> (\E i \in DOMAIN message : Target(message[i]) = id)'
    BY <2>10 DEF PlacesOf, Target
  <2> QED BY <1>3, <1>4, <2>5, <2>7, <2>9, <2>11 DEF Latest
<1> QED BY <1>8, <1>9

\* As long as nothing more is read, nothing more is asked for.
LEMMA NothingMoreAsked ==
  ASSUME message' = message
  PROVE  /\ \A id : Asked(id)' = Asked(id)
         /\ \A id, kind : EntriesFor(id, kind)' = EntriesFor(id, kind)
<1>1. \A id, kind : EntriesFor(id, kind)' = EntriesFor(id, kind)
  BY DEF EntriesFor, Target
<1>2. \A id, kind : LastAsked(id, kind)' = LastAsked(id, kind)
  BY <1>1 DEF LastAsked, LastOf
<1> DEFINE Drop(id) == IF EntriesFor(id, "filter.rows") = {} THEN {}
                       ELSE Rows(LastAsked(id, "filter.rows").rows)
           Fix(id) == IF EntriesFor(id, "fix.missing") = {} THEN Default
                      ELSE [algo |-> LastAsked(id, "fix.missing").algo,
                            rows |-> Rows(LastAsked(id, "fix.missing").rows)]
           Norm(id) == IF EntriesFor(id, "normalized") = {} THEN ""
                       ELSE LastAsked(id, "normalized").algo
<1>3. ASSUME NEW id PROVE Asked(id)' = Asked(id)
  <2>1. /\ Asked(id) = Actions(id, Drop(id), Fix(id), Norm(id))
        /\ Asked(id)' = Actions(id, Drop(id)', Fix(id)', Norm(id)')
    BY DEF Asked, Actions, LastAsked
  <2>2. Drop(id)' = Drop(id)
    BY <1>1, <1>2
  <2>3. Fix(id)' = Fix(id)
    BY <1>1, <1>2
  <2>4. Norm(id)' = Norm(id)
    <3>1. EntriesFor(id, "normalized")' = EntriesFor(id, "normalized")
      BY <1>1
    <3>2. LastAsked(id, "normalized")' = LastAsked(id, "normalized")
      BY <1>2
    <3> QED BY <3>1, <3>2
  <2> HIDE DEF Drop, Fix, Norm
  <2> QED BY <2>1, <2>2, <2>3, <2>4
<1> QED BY <1>1, <1>3

LEMMA LatestStays == Latest /\ UNCHANGED <<message, actions>> => Latest'
<1> SUFFICES ASSUME Latest, UNCHANGED <<message, actions>> PROVE Latest'
  OBVIOUS
<1>1. \A id, kind : HasLast(EntriesFor(id, kind))'
  BY NothingMoreAsked DEF Latest, HasLast
<1>2. \A id : (PlacesOf(actions, id) # {})'
                <=> (\E i \in DOMAIN message : Target(message[i]) = id)'
  BY DEF Latest, PlacesOf, Target
<1> QED BY <1>1, <1>2, NothingMoreAsked DEF Latest

(***************************************************************************)
(* The configuration of the columns of the schema.                          *)
(***************************************************************************)

\* Of all columns the rows to be dropped; of each what was asked for it; and the
\* columns in the order of the schema file.
Complete ==
  configured = "configured" /\ Index \in Elements(header) =>
    /\ \A i \in DOMAIN conf : \A id :
         conf[i].id = id => conf[i] = [Asked(id) EXCEPT !.drop = AllDrops]
    /\ \A i, j \in DOMAIN header :
         i < j /\ Index \notin {header[i], header[j]} =>
           \E k, l \in DOMAIN conf :
             k < l /\ conf[k].id = header[i] /\ conf[l].id = header[j]

Shapes ==
  /\ header \in Headers /\ located \in BOOLEAN
  /\ reading \in {"read", "schema", "done"}
  /\ refused \in Entries \cup {None}
  /\ \A i \in DOMAIN conf : conf[i].drop \subseteq RowNumbers
  /\ configured \in {"running", "configured", "json_error", "invalid_conf", "crashed"}
  /\ reading # "done" => configured = "running"

ConfInv == Shapes /\ Latest /\ Complete

LEMMA ConfInvInitially == ConfInit => ConfInv
<1> SUFFICES ASSUME ConfInit PROVE ConfInv
  OBVIOUS
<1>1. /\ message = <<>> /\ actions = <<>> /\ conf = <<>> /\ configured = "running"
      /\ DOMAIN <<>> = {} /\ <<>> \in Seq(Entries) /\ <<>> \in Seq(ColumnActions)
  BY DEF ConfInit
<1>2. Latest
  BY <1>1 DEF Latest, PlacesOf, EntriesFor, HasLast
<1> QED BY <1>1, <1>2 DEF ConfInit, ConfInv, Shapes, Complete

\* What of a list comes after a place.
LEMMA RestOfList ==
  ASSUME NEW S, NEW list \in Seq(S), NEW p \in 1 .. Len(list)
  PROVE  /\ SubSeq(list, p + 1, Len(list)) \in Seq(S)
         /\ Len(SubSeq(list, p + 1, Len(list))) = Len(list) - p
         /\ \A i \in 1 .. Len(list) - p : SubSeq(list, p + 1, Len(list))[i] = list[p + i]
<1> DEFINE n == Len(list)
<1>1. n \in Nat /\ n = Len(list) /\ p \in 1 .. n /\ DOMAIN list = 1 .. n
  OBVIOUS
<1> HIDE DEF n
<1>2. Len(SubSeq(list, p + 1, n)) = IF p + 1 <= n THEN n - (p + 1) + 1 ELSE 0
  BY <1>1
<1>3. SubSeq(list, p + 1, n) \in Seq(S)
  BY <1>1
<1>4. ASSUME NEW i \in 1 .. n - p
      PROVE  SubSeq(list, p + 1, n)[i] = list[p + i]
  <2>1. i \in 1 .. n - (p + 1) + 1 /\ p + 1 + i - 1 = p + i
    BY <1>1
  <2>2. SubSeq(list, p + 1, n)[i] = list[p + 1 + i - 1]
    BY <1>1, <2>1
  <2> QED BY <2>1, <2>2
<1> QED BY <1>1, <1>2, <1>3, <1>4

\* Two lists, one after the other.
LEMMA PartsOfConcat ==
  ASSUME NEW S, NEW list1 \in Seq(S), NEW list2 \in Seq(S)
  PROVE  /\ Len(list1 \o list2) = Len(list1) + Len(list2)
         /\ DOMAIN (list1 \o list2) = 1 .. Len(list1) + Len(list2)
         /\ \A i \in 1 .. Len(list1) + Len(list2) :
              (list1 \o list2)[i] =
                IF i <= Len(list1) THEN list1[i] ELSE list2[i - Len(list1)]
OBVIOUS

\* The columns of a schema: those of the file without the first "index"
\* (get_schema).
LEMMA SchemaIsHeader ==
  ASSUME header \in Headers, Index \in Elements(header),
         NEW schema \in Schemas
  PROVE  \E p \in DOMAIN header :
           /\ header[p] = Index
           /\ DOMAIN schema = 1 .. Len(header) - 1
           /\ \A i \in 1 .. p - 1 : schema[i] = header[i]
           /\ \A i \in p .. Len(header) - 1 : schema[i] = header[i + 1]
<1> DEFINE places == {i \in DOMAIN header : header[i] = Index}
           p == FirstOf(places)
<1>1. /\ header \in Seq(ColumnIds \cup {Index}) /\ Len(header) \in Nat
      /\ DOMAIN header = 1 .. Len(header)
  BY InputAssumption
<1>2. places # {} /\ places \subseteq Nat
  BY <1>1 DEF Elements
<1>3. p \in places
  <2> HIDE DEF places
  <2>1. PICK i \in places : \A j \in places : <<j, i>> \notin OpToRel(<, Nat)
    BY <1>2, NatLessThanWellFounded, WFMin
  <2>2. \A j \in places : i <= j
    <3> SUFFICES ASSUME NEW j \in places, j < i PROVE FALSE
      BY <1>2
    <3>1. <<j, i>> \in OpToRel(<, Nat)
      BY <1>2 DEF OpToRel
    <3> QED BY <2>1, <3>1
  <2> QED BY <2>2 DEF FirstOf
<1>4. schema = SubSeq(header, 1, p - 1) \o SubSeq(header, p + 1, Len(header))
  BY <1>2 DEF Schemas
<1> HIDE DEF p
<1>5. p \in 1 .. Len(header) /\ header[p] = Index
  BY <1>1, <1>3
<1> DEFINE before == SubSeq(header, 1, p - 1)
           after == SubSeq(header, p + 1, Len(header))
<1>6. /\ before \in Seq(ColumnIds \cup {Index}) /\ Len(before) = p - 1
      /\ \A i \in 1 .. p - 1 : before[i] = header[i]
  BY <1>1, <1>5
<1>7. /\ after \in Seq(ColumnIds \cup {Index}) /\ Len(after) = Len(header) - p
      /\ \A i \in 1 .. Len(header) - p : after[i] = header[p + i]
  BY <1>1, <1>5, RestOfList
<1> HIDE DEF before, after
<1>8. /\ DOMAIN (before \o after) = 1 .. Len(header) - 1
      /\ \A i \in 1 .. p - 1 : (before \o after)[i] = before[i]
      /\ \A i \in p .. Len(header) - 1 : (before \o after)[i] = after[i - (p - 1)]
  <2>1. /\ Len(before \o after) = Len(before) + Len(after)
        /\ DOMAIN (before \o after) = 1 .. Len(before) + Len(after)
        /\ \A i \in 1 .. Len(before) + Len(after) :
             (before \o after)[i] =
               IF i <= Len(before) THEN before[i] ELSE after[i - Len(before)]
    BY <1>6, <1>7, PartsOfConcat
  <2>2. Len(before) + Len(after) = Len(header) - 1
    BY <1>1, <1>5, <1>6, <1>7
  <2>3. \A i \in 1 .. p - 1 : i \in 1 .. Len(header) - 1 /\ i <= Len(before)
    BY <1>1, <1>5, <1>6
  <2>4. \A i \in p .. Len(header) - 1 : i \in 1 .. Len(header) - 1 /\ ~(i <= Len(before))
    BY <1>1, <1>5, <1>6
  <2> QED BY <1>6, <2>1, <2>2, <2>3, <2>4
<1>9. \A i \in p .. Len(header) - 1 : after[i - (p - 1)] = header[i + 1]
  BY <1>1, <1>5, <1>7
<1>10. schema = before \o after
  BY <1>4 DEF before, after
<1> QED BY <1>1, <1>5, <1>6, <1>8, <1>9, <1>10

\* What is configured for a column is what was asked for it, but for the rows to be
\* dropped (make_actions).
LEMMA MadeAsAsked ==
  ASSUME Latest, NEW id
  PROVE  /\ MakeActions(id) = [Asked(id) EXCEPT !.drop = AllDrops]
         /\ MakeActions(id).id = id
<1>1. Asked(id).id = id /\ [Asked(id) EXCEPT !.drop = AllDrops].id = id
  BY DEF Asked
<1>2. CASE PlacesOf(actions, id) = {}
  <2>1. Asked(id) = Fresh(id)
    BY <1>2, NothingAsked DEF Latest
  <2> QED BY <1>1, <1>2, <2>1 DEF MakeActions
<1>3. CASE PlacesOf(actions, id) # {}
  <2> DEFINE at == FirstOf(PlacesOf(actions, id))
  <2>1. at \in DOMAIN actions /\ actions[at].id = id
    BY <1>3, OnlyPlace DEF Latest
  <2>2. actions[at] = Asked(id)
    BY <2>1 DEF Latest
  <2> QED BY <1>1, <1>3, <2>2 DEF MakeActions
<1> QED BY <1>2, <1>3

LEMMA FinalizeStep == ConfInv /\ Finalize => ConfInv'
<1> SUFFICES ASSUME ConfInv, Finalize PROVE ConfInv'
  OBVIOUS
<1>1. UNCHANGED <<header, located, message, refused, actions>> /\ reading' = "done"
  BY DEF Finalize, input
<1>2. Latest' /\ Latest
  BY <1>1, LatestStays DEF ConfInv
<1>3. AllDrops' = AllDrops /\ AllDrops \subseteq RowNumbers
  <2>1. \A act \in Elements(actions) : act.drop \subseteq RowNumbers
    <3>1. \A i \in DOMAIN actions : actions[i] \in ColumnActions
      BY <1>2 DEF Latest
    <3>2. \A act \in ColumnActions : act.drop \subseteq RowNumbers
      BY DEF ColumnActions
    <3> QED BY <3>1, <3>2 DEF Elements
  <2> QED BY <1>1, <2>1 DEF AllDrops, Elements
<1>4. CASE configured' = "configured"
  <2>1. PICK schema \in Schemas :
          conf' = [i \in DOMAIN schema |-> MakeActions(schema[i])]
    BY <1>4 DEF Finalize
  <2>2. /\ DOMAIN conf' = DOMAIN schema
        /\ \A i \in DOMAIN schema : conf'[i].id = schema[i]
        /\ \A i \in DOMAIN schema :
             conf'[i] = [Asked(schema[i]) EXCEPT !.drop = AllDrops]
    BY <1>2, <2>1, MadeAsAsked
  <2>3. \A i \in DOMAIN conf' : \A id :
          conf'[i].id = id => conf'[i] = [Asked(id)' EXCEPT !.drop = AllDrops']
    BY <1>1, <1>3, <2>2, NothingMoreAsked
  <2>4. \A i \in DOMAIN conf' : conf'[i].drop \subseteq RowNumbers
    <3>1. \A id : [Asked(id) EXCEPT !.drop = AllDrops].drop = AllDrops
      BY DEF Asked
    <3> QED BY <1>3, <2>2, <3>1
  <2>5. ASSUME Index \in Elements(header),
               NEW i \in DOMAIN header, NEW j \in DOMAIN header, i < j,
               Index \notin {header[i], header[j]}
        PROVE  \E k, l \in DOMAIN conf' :
                 k < l /\ conf'[k].id = header[i] /\ conf'[l].id = header[j]
    <3>1. PICK p \in DOMAIN header :
             /\ header[p] = Index
             /\ DOMAIN schema = 1 .. Len(header) - 1
             /\ \A m \in 1 .. p - 1 : schema[m] = header[m]
             /\ \A m \in p .. Len(header) - 1 : schema[m] = header[m + 1]
      BY <2>5, SchemaIsHeader DEF ConfInv, Shapes
    <3>2. DOMAIN header = 1 .. Len(header) /\ Len(header) \in Nat
      BY InputAssumption DEF ConfInv, Shapes
    <3>3. i # p /\ j # p
      BY <2>5, <3>1
    <3> DEFINE To(m) == IF m < p THEN m ELSE m - 1
    <3>4. \A m \in DOMAIN header \ {p} :
             To(m) \in DOMAIN schema /\ schema[To(m)] = header[m]
      <4> TAKE m \in DOMAIN header \ {p}
      <4>1. CASE m < p
        BY <3>1, <3>2, <4>1
      <4>2. CASE ~(m < p)
        <5>1. m - 1 \in p .. Len(header) - 1 /\ (m - 1) + 1 = m
          BY <3>2, <4>2
        <5>2. schema[m - 1] = header[m] /\ m - 1 \in DOMAIN schema
          BY <3>1, <3>2, <5>1
        <5> QED BY <4>2, <5>2
      <4> QED BY <4>1, <4>2
    <3>5. To(i) < To(j)
      BY <2>5, <3>2, <3>3
    <3> HIDE DEF To
    <3> QED BY <2>2, <3>3, <3>4, <3>5
  <2>6. Complete'
    BY <1>1, <2>3, <2>5 DEF Complete, Elements
  <2> QED BY <1>1, <1>2, <1>4, <2>4, <2>6 DEF ConfInv, Shapes
<1>5. CASE configured' = "crashed" /\ UNCHANGED conf
  BY <1>1, <1>2, <1>5 DEF ConfInv, Shapes, Complete
<1> QED BY <1>4, <1>5 DEF Finalize

LEMMA ConfStep == ConfInv /\ [ConfNext]_confVars => ConfInv'
<1> SUFFICES ASSUME ConfInv, [ConfNext]_confVars PROVE ConfInv'
  OBVIOUS
<1>1. CASE RefuseMessage \/ RefuseEntry \/ EndOfEntries
  <2>1. /\ UNCHANGED <<header, located, message, actions, conf>>
        /\ reading' \in {"schema", "done"}
        /\ configured' \in {"running", "json_error", "invalid_conf"}
        /\ reading' = "schema" => configured' = "running"
        /\ refused' \in Entries \cup {None}
    BY <1>1
       DEF RefuseMessage, RefuseEntry, EndOfEntries, Refusal,
           input, ConfInv, Shapes
  <2> QED BY <2>1, LatestStays DEF ConfInv, Shapes, Complete
<1>2. CASE TakeEntry
  <2>1. Latest'
    BY <1>2, LatestStep DEF ConfInv
  <2>2. UNCHANGED <<header, located, reading, refused, conf, configured>> /\ reading = "read"
    BY <1>2 DEF TakeEntry, input
  <2> QED BY <2>1, <2>2 DEF ConfInv, Shapes, Complete
<1>3. CASE Finalize
  BY <1>3, FinalizeStep
<1>4. CASE Configured \/ UNCHANGED confVars
  <2>1. UNCHANGED confVars
    BY <1>4 DEF Configured
  <2>2. Shapes' /\ Latest'
    BY <2>1, LatestStays DEF ConfInv, Shapes, confVars
  <2>3. Complete'
    BY <2>1, NothingMoreAsked
       DEF ConfInv, Complete, confVars, AllDrops, Elements
  <2> QED BY <2>2, <2>3 DEF ConfInv
<1> QED BY <1>1, <1>2, <1>3, <1>4 DEF ConfNext

\* The rows all columns drop are those that were asked for of some.
LEMMA DropsAreAsked ==
  ASSUME Latest
  PROVE  AllDrops =
           UNION {Asked(id).drop : id \in {Target(message[i]) : i \in DOMAIN message}}
<1> DEFINE named == {Target(message[i]) : i \in DOMAIN message}
<1>1. \A i \in DOMAIN actions : actions[i].id \in named /\ actions[i] = Asked(actions[i].id)
  BY DEF Latest, PlacesOf
<1>2. \A id \in named : \E i \in DOMAIN actions : actions[i] = Asked(id)
  BY DEF Latest, PlacesOf
<1> HIDE DEF named
<1>3. Elements(actions) = {Asked(id) : id \in named}
  BY <1>1, <1>2 DEF Elements
<1>4. UNION {act.drop : act \in {Asked(id) : id \in named}}
        = UNION {Asked(id).drop : id \in named}
  OBVIOUS
<1> QED BY <1>3, <1>4 DEF AllDrops, named

LEMMA WhatConfInvSays ==
  ASSUME ConfInv
  PROVE  ConfTypeOK /\ LastEntryWins /\ ConfigurationIsComplete
<1>1. ConfTypeOK
  BY DEF ConfInv, Shapes, Latest, ConfTypeOK
<1>2. LastEntryWins
  BY DEF ConfInv, Latest, LastEntryWins
<1>3. ConfigurationIsComplete
  BY DropsAreAsked DEF ConfInv, Complete, ConfigurationIsComplete
<1> QED BY <1>1, <1>2, <1>3

LEMMA SpecConfInv == ConfSpec => []ConfInv
<1>1. ConfInit => ConfInv
  BY ConfInvInitially
<1>2. ConfInv /\ [ConfNext]_confVars => ConfInv'
  BY ConfStep
<1> QED BY <1>1, <1>2, PTL DEF ConfSpec

\* Every variable keeps its type: the lists of rows that are read hold row numbers
\* only, and a column is in the list of actions once, however often the message
\* names it (dataclean_conf_preliminery, insert).
THEOREM ConfTypeCorrect == ConfSpec => []ConfTypeOK
BY SpecConfInv, WhatConfInvSays, PTL

\* A column's actions are at every moment those of the last entry of each kind that
\* was taken for it, however the entries alternate (dataclean_conf_preliminery).
THEOREM LastEntriesWin == ConfSpec => []LastEntryWins
BY SpecConfInv, WhatConfInvSays, PTL

\* With an "index" in the schema, all its other columns are configured in its order,
\* each with the rows any column of the message is to drop and with the fix and the
\* normalization asked for it (dataclean_conf, make_actions).
THEOREM ConfigurationCompletes ==
  ConfSpec => []ConfigurationIsComplete
BY SpecConfInv, WhatConfInvSays, PTL
==============================================================================
