------------------------- MODULE MissingFix_proofs -------------------------
(***************************************************************************)
(* Proofs about MissingFix, for columns of any length, any rows dropped     *)
(* from them, any rows listed as invalid, any number of neighbours and any  *)
(* reads outside of the lists: the types, that no row but row 0 is left     *)
(* missing, and what the neighbours are that a fix is computed from.        *)
(***************************************************************************)
EXTENDS MissingFix, FiniteSetTheorems, TLAPS

(***************************************************************************)
(* The lists.                                                               *)
(***************************************************************************)

\* The rows of a list come in order.
Ordered(list) ==
  /\ list \in Seq(RowNumbers)
  /\ \A i, j \in DOMAIN list : i < j => list[i] < list[j]

LEMMA ListsAreLists ==
  ASSUME column \in ColumnRows, invalid \in InvalidRows
  PROVE  Ordered(column) /\ invalid \in Seq(RowNumbers)
BY ListsAssumption DEF Ordered

\* The column has every invalid row, and each is listed once.
Aligned == Kept /\ ListedOnce

LEMMA ListsAreOrdered ==
  ASSUME column \in ColumnRows, invalid \in InvalidRows, Aligned
  PROVE  Ordered(column) /\ Ordered(invalid)
<1>1. \A i, j \in DOMAIN invalid : i < j => invalid[i] < invalid[j]
  <2> SUFFICES ASSUME NEW i \in DOMAIN invalid, NEW j \in DOMAIN invalid, i < j
               PROVE  invalid[i] < invalid[j]
    OBVIOUS
  <2>1. invalid \in Seq(RowNumbers) /\ invalid[i] <= invalid[j]
    BY ListsAssumption
  <2>2. i \in Nat /\ j \in Nat
    BY <2>1
  <2>3. invalid[i] \in Nat /\ invalid[j] \in Nat
    <3>1. invalid[i] \in RowNumbers /\ invalid[j] \in RowNumbers
      BY <2>1
    <3> QED BY <3>1, RowsAssumption
  <2>4. invalid[i] # invalid[j]
    BY <2>2 DEF Aligned, ListedOnce
  <2> QED BY <2>1, <2>3, <2>4
<1> QED BY <1>1, ListsAreLists DEF Ordered

\* Where a row of the column is.
LEMMA PlaceIsThere ==
  ASSUME NEW row \in Elements(column)
  PROVE  PlaceOf(row) \in DOMAIN column /\ column[PlaceOf(row)] = row
BY DEF PlaceOf, Elements

LEMMA AppendType ==
  ASSUME NEW S, NEW s \in Seq(S), NEW e \in S
  PROVE  Append(s, e) \in Seq(S)
OBVIOUS

\* Whatever is read is an entry.
LEMMA EntryType ==
  ASSUME column \in Seq(RowNumbers), value \in [Elements(column) -> Origins],
         NEW i, NEW entry \in EntryAt(i)
  PROVE  entry \in Entries
<1>1. CASE i \in DOMAIN column
  <2>1. column[i] \in RowNumbers /\ column[i] \in Elements(column)
    BY <1>1 DEF Elements
  <2>2. value[column[i]] \in Origins
    BY <2>1
  <2> QED BY <1>1, <2>1, <2>2 DEF EntryAt, Entries
<1>2. CASE i \notin DOMAIN column
  BY <1>2 DEF EntryAt, Entries, Garbage
<1> QED BY <1>1, <1>2

(***************************************************************************)
(* Types, and which fix can be where.                                       *)
(***************************************************************************)
Typed ==
  /\ TypeOK
  /\ kind = "linear" => count = 1
  /\ pc \in {"next", "below", "above"} => kind \in {"linear", "k"} /\ Len(column) >= 2
  /\ pc \in {"below", "above"} =>
       next <= Len(invalid) /\ IsSliced(invalid[next])

LEMMA TypedInit == Init => Typed
<1> SUFFICES ASSUME Init PROVE Typed
  OBVIOUS
<1>1. column \in ColumnRows /\ invalid \in InvalidRows /\ invalid \in Seq(RowNumbers)
  BY ListsAssumption DEF Init
<1>2. value \in [Elements(column) -> Origins]
  BY DEF Init, Origins
<1>3. /\ kind \in {"const", "linear", "k", "cubic"}
      /\ kind = "linear" => count = 1
      /\ count \in Nat
  <2>1. \A c \in Counts : c % Wrap \in Nat
    BY CountsAssumption
  <2> QED BY <2>1 DEF Init
<1>4. Len(invalid) \in Nat
  BY <1>1
<1>5. <<>> \in Seq(Entries)
  OBVIOUS
<1>6. next = 1 /\ pivot = 0 /\ left = 0 /\ below = <<>> /\ above = <<>> /\ pc = "begin"
  BY DEF Init
<1>7. TypeOK
  BY <1>1, <1>2, <1>3, <1>4, <1>5, <1>6 DEF TypeOK
<1> QED BY <1>3, <1>6, <1>7 DEF Typed

\* The rows that a fix over all invalid rows changes keep their type.
LEMMA FillAllType ==
  ASSUME value \in [Elements(column) -> Origins]
  PROVE  FillAll \in [Elements(column) -> Origins]
BY DEF FillAll, Origins

\* What one turn of the loop does, on either side of the row.
LEMMA TurnBelow ==
  ASSUME Typed, StepBelow
  PROVE  /\ pc = "below" /\ left > 0
         /\ start' = start - 1
         /\ \/ pc' = "below" /\ start' \in 1 - Overrun .. Len(column) + Overrun
            \/ pc' = "crashed"
         /\ UNCHANGED <<column, invalid, kind, count, value, next, above>>
         /\ \E entry \in EntryAt(start), row \in InvalidAt(pivot) :
              \/ entry.row = row /\ pivot' = pivot - 1 /\ UNCHANGED <<left, below>>
              \/ /\ entry.row # row /\ below' = Append(below, entry)
                 /\ left' = left - 1 /\ UNCHANGED pivot
BY DEF StepBelow, Step, input

LEMMA TurnAbove ==
  ASSUME Typed, StepAbove
  PROVE  /\ pc = "above" /\ left > 0
         /\ start' = start + 1
         /\ \/ pc' = "above" /\ start' \in 1 - Overrun .. Len(column) + Overrun
            \/ pc' = "crashed"
         /\ UNCHANGED <<column, invalid, kind, count, value, next, below>>
         /\ \E entry \in EntryAt(start), row \in InvalidAt(pivot) :
              \/ entry.row = row /\ pivot' = pivot + 1 /\ UNCHANGED <<left, above>>
              \/ /\ entry.row # row /\ above' = Append(above, entry)
                 /\ left' = left - 1 /\ UNCHANGED pivot
BY DEF StepAbove, Step, input

\* The knots are read from the column.
LEMMA KnotsType ==
  ASSUME column \in Seq(RowNumbers), value \in [Elements(column) -> Origins]
  PROVE  [i \in Knots |-> [row |-> column[i], from |-> value[column[i]]]]
           \in [Knots -> Entries]
<1>1. ASSUME NEW i \in Knots
      PROVE  [row |-> column[i], from |-> value[column[i]]] \in Entries
  <2>1. column[i] \in RowNumbers /\ column[i] \in Elements(column)
    BY DEF Knots, Elements
  <2>2. value[column[i]] \in Origins
    BY <2>1
  <2> QED BY <2>1, <2>2 DEF Entries
<1> QED BY <1>1

LEMMA TypedStep == Typed /\ [Next]_vars => Typed'
<1> SUFFICES ASSUME Typed, [Next]_vars PROVE Typed'
  OBVIOUS
<1>1. /\ column \in ColumnRows /\ invalid \in InvalidRows
      /\ column \in Seq(RowNumbers) /\ invalid \in Seq(RowNumbers)
      /\ Len(column) \in Nat /\ Len(invalid) \in Nat
      /\ count \in Nat /\ Overrun \in Nat \ {0}
      /\ value \in [Elements(column) -> Origins]
  <2>1. column \in ColumnRows /\ invalid \in InvalidRows
    BY DEF Typed, TypeOK
  <2>2. column \in Seq(RowNumbers) /\ invalid \in Seq(RowNumbers)
    BY <2>1, ListsAreLists DEF Ordered
  <2> QED BY <2>1, <2>2, OverrunAssumption DEF Typed, TypeOK
<1> USE <1>1
<1>2. UNCHANGED input
  BY DEF Next, vars, input, FixConst, FixCubic, BeginFix, SkipRow, LookBelow, StepBelow,
         LookAbove, StepAbove, Step, WriteFix, AllFixed, Ended
<1>3. \A i : EntryAt(i) \subseteq Entries
  BY EntryType
<1>4. Elements(column)' = Elements(column) /\ Knots' = Knots
  BY <1>2 DEF input, Elements, Knots
<1>5. CASE FixConst
  BY <1>2, <1>4, <1>5, FillAllType DEF FixConst, Typed, TypeOK, IsSliced, input
<1>6. CASE FixCubic
  <2>1. /\ pc = "begin" /\ kind = "cubic"
        /\ value' \in {value, FillAll}
        /\ pc' \in {"done", "crashed"}
        /\ \/ below' = below
           \/ below' = [i \in Knots |-> [row |-> column[i], from |-> value[column[i]]]]
        /\ above' \in {<<entry>> : entry \in EntryAt(Len(column) + 1)} \cup {<<>>}
        /\ UNCHANGED <<next, start, pivot, left>>
    BY <1>6 DEF FixCubic
  <2>2. above' \in Seq(Entries)
    <3>1. \A entry \in Entries : <<entry>> \in Seq(Entries)
      OBVIOUS
    <3>2. <<>> \in Seq(Entries)
      OBVIOUS
    <3>3. CASE above' = <<>>
      BY <3>2, <3>3
    <3>4. ASSUME NEW entry \in EntryAt(Len(column) + 1), above' = <<entry>>
          PROVE  above' \in Seq(Entries)
      BY <1>3, <3>1, <3>4
    <3> QED BY <2>1, <3>3, <3>4
  <2>3. below' = <<>> \/ below' \in [Knots -> Entries]
    BY <2>1, KnotsType DEF Typed, TypeOK
  <2>4. value' \in [Elements(column) -> Origins]
    BY <2>1, FillAllType
  <2> HIDE DEF Knots
  <2> QED BY <1>2, <1>4, <2>1, <2>2, <2>3, <2>4 DEF Typed, TypeOK, IsSliced, input
<1>7. CASE BeginFix \/ SkipRow \/ AllFixed
  BY <1>2, <1>4, <1>7 DEF BeginFix, SkipRow, AllFixed, Typed, TypeOK, IsSliced, input
<1>8. CASE LookBelow \/ LookAbove
  <2>1. invalid[next] \in Elements(column) /\ next <= Len(invalid)
    BY <1>8 DEF LookBelow, LookAbove, Typed, IsSliced
  <2>2. PlaceOf(invalid[next]) \in 1 .. Len(column)
    BY <2>1, PlaceIsThere
  <2>3. /\ start' \in 1 - Overrun .. Len(column) + Overrun
        /\ pivot' \in Int /\ left' \in 0 .. count
    <3>1. next \in Nat /\ left \in 0 .. count
      BY DEF Typed, TypeOK
    <3>2. /\ start' \in {PlaceOf(invalid[next]) - 1, PlaceOf(invalid[next]) + 1}
          /\ pivot' \in {next - 1, next + 1}
          /\ left' \in {0, count}
      BY <1>8 DEF LookBelow, LookAbove
    <3> QED BY <2>2, <3>1, <3>2
  <2>4. below' \in Seq(Entries) /\ above' \in Seq(Entries)
    <3>1. <<>> \in Seq(Entries)
      OBVIOUS
    <3>2. below \in Seq(Entries)
      BY <1>8 DEF LookBelow, LookAbove, Typed, TypeOK
    <3> QED BY <1>8, <3>1, <3>2 DEF LookBelow, LookAbove, Typed, TypeOK
  <2>5. /\ pc \in {"next", "below"} /\ pc' \in {"below", "above"}
        /\ IsSliced(invalid[next])
        /\ UNCHANGED <<value, next>>
    BY <1>8 DEF LookBelow, LookAbove, Typed
  <2> QED BY <1>2, <1>4, <2>1, <2>3, <2>4, <2>5 DEF Typed, TypeOK, IsSliced, input
<1>9. CASE StepBelow
  <2>1. PICK entry \in EntryAt(start), row \in InvalidAt(pivot) :
          \/ pivot' = pivot - 1 /\ UNCHANGED <<left, below>>
          \/ below' = Append(below, entry) /\ left' = left - 1 /\ UNCHANGED pivot
    BY <1>9, TurnBelow
  <2>2. below' \in Seq(Entries)
    <3>1. below \in Seq(Entries) /\ entry \in Entries
      BY <1>3, <1>9, TurnBelow DEF Typed, TypeOK
    <3> QED BY <2>1, <3>1, AppendType
  <2>3. left' \in 0 .. count /\ pivot' \in Int
    <3>1. left \in 1 .. count /\ pivot \in Int
      BY <1>9, TurnBelow DEF Typed, TypeOK
    <3> QED BY <2>1, <3>1
  <2> QED BY <1>2, <1>4, <1>9, <2>2, <2>3, TurnBelow DEF Typed, TypeOK, IsSliced, input
<1>10. CASE StepAbove
  <2>1. PICK entry \in EntryAt(start), row \in InvalidAt(pivot) :
          \/ pivot' = pivot + 1 /\ UNCHANGED <<left, above>>
          \/ above' = Append(above, entry) /\ left' = left - 1 /\ UNCHANGED pivot
    BY <1>10, TurnAbove
  <2>2. above' \in Seq(Entries)
    <3>1. above \in Seq(Entries) /\ entry \in Entries
      BY <1>3, <1>10, TurnAbove DEF Typed, TypeOK
    <3> QED BY <2>1, <3>1, AppendType
  <2>3. left' \in 0 .. count /\ pivot' \in Int
    <3>1. left \in 1 .. count /\ pivot \in Int
      BY <1>10, TurnAbove DEF Typed, TypeOK
    <3> QED BY <2>1, <3>1
  <2> QED BY <1>2, <1>4, <1>10, <2>2, <2>3, TurnAbove DEF Typed, TypeOK, IsSliced, input
<1>11. CASE WriteFix
  <2>1. value' \in [Elements(column) -> Origins]
    BY <1>11 DEF WriteFix, Origins
  <2>2. next' \in 1 .. Len(invalid) + 1
    BY <1>11 DEF WriteFix, Typed, TypeOK
  <2> QED BY <1>2, <1>4, <1>11, <2>1, <2>2 DEF WriteFix, Typed, TypeOK, IsSliced, input
<1>12. CASE Ended \/ UNCHANGED vars
  BY <1>2, <1>4, <1>12 DEF Ended, vars, Typed, TypeOK, IsSliced, input
<1> QED BY <1>5, <1>6, <1>7, <1>8, <1>9, <1>10, <1>11, <1>12 DEF Next

\* Every variable has its type, whatever was dropped from the column and
\* wherever the two iterators come to (slice.h, slice_some).
THEOREM FixTypeCorrect == Spec => []TypeOK
<1>1. Typed => TypeOK
  BY DEF Typed
<1> QED BY TypedInit, TypedStep, <1>1, PTL DEF Spec

-----------------------------------------------------------------------------
(***************************************************************************)
(* No row is left missing.                                                  *)
(***************************************************************************)

\* What was measured is what is not invalid; the rows before the next one are
\* fixed already; and the loop above a row ends with all the neighbours it wants,
\* so that there are never too few of them to write.
Progress ==
  /\ \A r \in Elements(column) : value[r] = "measured" <=> r \notin Elements(invalid)
  /\ pc \in {"next", "below", "above"} =>
       \A i \in 1 .. next - 1 :
          invalid[i] \in Elements(column) \ {0} => value[invalid[i]] = "fixed"
  /\ pc = "begin" => next = 1
  /\ pc = "below" => above = <<>>
  /\ pc = "above" => Len(above) = count - left

LEMMA ProgressInit == Init => Progress
BY DEF Init, Progress

\* What FillAll leaves.
LEMMA FillAllLeaves ==
  ASSUME Typed, Progress
  PROVE  \A r \in Elements(column) :
           /\ FillAll[r] \in {"fixed", "measured"}
           /\ FillAll[r] = "measured" <=> r \notin Elements(invalid)
<1>1. DOMAIN value = Elements(column)
  BY DEF Typed, TypeOK
<1> QED BY <1>1 DEF FillAll, Progress

LEMMA ProgressStep == Typed /\ Progress /\ [Next]_vars => Progress'
<1> SUFFICES ASSUME Typed, Progress, [Next]_vars PROVE Progress'
  OBVIOUS
<1>1. UNCHANGED input
  BY DEF Next, vars, input, FixConst, FixCubic, BeginFix, SkipRow, LookBelow, StepBelow,
         LookAbove, StepAbove, Step, WriteFix, AllFixed, Ended
<1>2. Elements(column)' = Elements(column) /\ Elements(invalid)' = Elements(invalid)
  BY <1>1 DEF input, Elements
<1>3. next \in Nat /\ next <= Len(invalid) + 1 /\ Len(invalid) \in Nat
  BY ListsAssumption DEF Typed, TypeOK
<1>4. CASE FixConst \/ FixCubic
  <2>1. value' \in {value, FillAll} /\ pc' \in {"done", "crashed"}
    BY <1>4 DEF FixConst, FixCubic
  <2> QED BY <1>1, <1>2, <2>1, FillAllLeaves DEF Progress, input
<1>5. CASE BeginFix \/ AllFixed
  <2>1. /\ pc \in {"begin", "next"} /\ pc' \in {"next", "done"} /\ UNCHANGED <<value, next>>
        /\ pc = "next" => pc' = "done"
    BY <1>5 DEF BeginFix, AllFixed
  <2>2. pc' = "next" => 1 .. next' - 1 = {}
    BY <2>1 DEF Progress
  <2> QED BY <1>1, <1>2, <2>1, <2>2 DEF Progress, input
<1>6. CASE SkipRow
  <2>1. /\ pc' = "next" /\ pc = "next" /\ next' = next + 1 /\ UNCHANGED value
        /\ invalid[next] \notin Elements(column) \ {0}
    BY <1>6 DEF SkipRow, IsSliced
  <2>2. \A i \in 1 .. next' - 1 : i \in 1 .. next - 1 \/ i = next
    BY <1>3, <2>1
  <2> QED BY <1>1, <1>2, <2>1, <2>2 DEF Progress, input
<1>7. CASE LookBelow \/ LookAbove
  <2>1. count \in Nat
    BY DEF Typed, TypeOK
  <2>2. /\ pc \in {"next", "below"} /\ pc' \in {"below", "above"} /\ UNCHANGED <<value, next>>
        /\ above' = <<>>
        /\ pc' = "above" => left' = count
    BY <1>7 DEF LookBelow, LookAbove, Progress
  <2>3. pc' = "above" => Len(above') = count' - left'
    BY <1>1, <2>1, <2>2 DEF input
  <2> QED BY <1>1, <1>2, <2>2, <2>3 DEF Progress, input
<1>8. CASE StepBelow
  BY <1>1, <1>2, <1>8, TurnBelow DEF Progress, input
<1>9. CASE StepAbove
  <2>1. PICK entry \in EntryAt(start), row \in InvalidAt(pivot) :
          \/ UNCHANGED <<left, above>>
          \/ above' = Append(above, entry) /\ left' = left - 1
    BY <1>9, TurnAbove
  <2>2. above \in Seq(Entries) /\ left \in Nat /\ count \in Nat /\ Len(above) = count - left
    BY <1>9, TurnAbove DEF Typed, TypeOK, Progress
  <2>3. Len(above') = count' - left'
    <3>1. CASE UNCHANGED <<left, above>>
      BY <1>1, <2>2, <3>1 DEF input
    <3>2. CASE above' = Append(above, entry) /\ left' = left - 1
      <4>1. Len(above') = Len(above) + 1
        BY <2>2, <3>2
      <4> QED BY <1>1, <2>2, <3>2, <4>1 DEF input
    <3> QED BY <2>1, <3>1, <3>2
  <2> QED BY <1>1, <1>2, <1>9, <2>3, TurnAbove DEF Progress, input
<1>10. CASE WriteFix /\ count = 0
  <2>1. pc' = "crashed" /\ UNCHANGED value
    BY <1>10 DEF WriteFix
  <2> QED BY <1>1, <1>2, <2>1 DEF Progress, input
<1>11. CASE WriteFix /\ count # 0
  <2>1. /\ pc = "above" /\ pc' = "next" /\ left = 0 /\ next' = next + 1
        /\ value' = IF Len(below) + Len(above) < count THEN value
                    ELSE [value EXCEPT ![invalid[next]] = "fixed"]
    BY <1>11 DEF WriteFix
  <2>2. /\ invalid[next] \in Elements(column) /\ next \in DOMAIN invalid
        /\ DOMAIN value = Elements(column)
    BY <1>3, <2>1 DEF Typed, TypeOK, IsSliced
  <2>3. ~(Len(below) + Len(above) < count)
    <3>1. Len(below) \in Nat /\ count \in Nat /\ Len(above) = count - left
      BY <2>1 DEF Typed, TypeOK, Progress
    <3> QED BY <2>1, <3>1
  <2>4. /\ value'[invalid[next]] = "fixed"
        /\ \A r \in Elements(column) : r # invalid[next] => value'[r] = value[r]
    BY <2>1, <2>2, <2>3
  <2>5. \A r \in Elements(column) : value'[r] = "measured" <=> r \notin Elements(invalid)
    <3>1. invalid[next] \in Elements(invalid)
      BY <2>2 DEF Elements
    <3> QED BY <2>4, <3>1 DEF Progress
  <2>6. ASSUME NEW i \in 1 .. next' - 1, invalid[i] \in Elements(column) \ {0}
        PROVE  value'[invalid[i]] = "fixed"
    <3>1. i \in 1 .. next - 1 \/ i = next
      BY <1>3, <2>1
    <3> QED BY <2>1, <2>4, <2>6, <3>1 DEF Progress
  <2> QED BY <1>1, <1>2, <2>1, <2>5, <2>6 DEF Progress, input
<1>12. CASE Ended \/ UNCHANGED vars
  BY <1>1, <1>2, <1>12 DEF Ended, vars, Progress, input
<1> QED BY <1>4, <1>5, <1>6, <1>7, <1>8, <1>9, <1>10, <1>11, <1>12 DEF Next

LEMMA NoneIsLeftStep ==
  Typed /\ Progress /\ OnlyRowZeroIsLeft /\ [Next]_vars => OnlyRowZeroIsLeft'
<1> SUFFICES ASSUME Typed, Progress, OnlyRowZeroIsLeft, [Next]_vars PROVE OnlyRowZeroIsLeft'
  OBVIOUS
<1>1. UNCHANGED input
  BY DEF Next, vars, input, FixConst, FixCubic, BeginFix, SkipRow, LookBelow, StepBelow,
         LookAbove, StepAbove, Step, WriteFix, AllFixed, Ended
<1>2. Elements(column)' = Elements(column)
  BY <1>1 DEF input, Elements
<1>3. CASE FixConst \/ FixCubic
  <2>1. pc' = "done" /\ Len(column) >= 2 => value' = FillAll
    <3>1. Len(column) >= 2 => column # <<>>
      OBVIOUS
    <3> QED BY <1>3, <3>1 DEF FixConst, FixCubic
  <2> QED BY <1>1, <1>2, <2>1, FillAllLeaves DEF OnlyRowZeroIsLeft, input
<1>4. CASE BeginFix
  BY <1>1, <1>4 DEF BeginFix, OnlyRowZeroIsLeft, input
<1>5. CASE AllFixed
  <2>1. pc = "next" /\ UNCHANGED value /\ kind \in {"linear", "k"}
    BY <1>5 DEF AllFixed, Typed
  <2>2. \A i \in DOMAIN invalid : i \in 1 .. next - 1
    BY <1>5, ListsAssumption DEF AllFixed, Typed, TypeOK
  <2>3. ASSUME NEW r \in Elements(column), value[r] = "missing"
        PROVE  r = 0
    <3>1. r \in Elements(invalid)
      BY <2>3 DEF Progress
    <3>2. PICK i \in DOMAIN invalid : r = invalid[i]
      BY <3>1 DEF Elements
    <3> QED BY <2>1, <2>2, <2>3, <3>2 DEF Progress
  <2> QED BY <1>1, <1>2, <2>1, <2>3 DEF OnlyRowZeroIsLeft, input
<1>6. CASE SkipRow \/ LookBelow \/ LookAbove \/ WriteFix
  BY <1>6 DEF SkipRow, LookBelow, LookAbove, WriteFix, OnlyRowZeroIsLeft
<1>7. CASE StepBelow
  BY <1>7, TurnBelow DEF OnlyRowZeroIsLeft
<1>8. CASE StepAbove
  BY <1>8, TurnAbove DEF OnlyRowZeroIsLeft
<1>9. CASE Ended \/ UNCHANGED vars
  BY <1>1, <1>2, <1>9 DEF Ended, vars, OnlyRowZeroIsLeft, input
<1> QED BY <1>3, <1>4, <1>5, <1>6, <1>7, <1>8, <1>9 DEF Next

\* Unless a read faults, every missing value of a column of two rows or more is
\* replaced, however long the runs of missing rows are and at both ends; only
\* row 0 is passed over, and only by the fixes that look for neighbours
\* (linear_fix, kneighborhood_fix: fix_na).
THEOREM OnlyRowZero == Spec => []OnlyRowZeroIsLeft
<1>1. Init => OnlyRowZeroIsLeft
  BY DEF Init, OnlyRowZeroIsLeft
<1> QED BY <1>1, TypedInit, TypedStep, ProgressInit, ProgressStep, NoneIsLeftStep, PTL DEF Spec

-----------------------------------------------------------------------------
(***************************************************************************)
(* The two iterators.                                                       *)
(***************************************************************************)

\* As long as the iterator over the column is within it, the other one stands
\* where the invalid rows end that the first has still before it.
InStep ==
  /\ pc = "below" =>
       /\ pivot < next /\ start < PlaceOf(invalid[next])
       /\ start >= 1 => \A i \in DOMAIN invalid : i <= pivot <=> invalid[i] <= column[start]
  /\ pc = "above" =>
       /\ pivot > next /\ start > PlaceOf(invalid[next])
       /\ start <= Len(column) =>
            \A i \in DOMAIN invalid : i >= pivot <=> invalid[i] >= column[start]

Measuring == Aligned => InStep /\ NeighboursAreMeasured

\* Places and rows come in the same order.
LEMMA OrderedNumbers ==
  ASSUME NEW list, Ordered(list)
  PROVE  /\ Len(list) \in Nat /\ DOMAIN list = 1 .. Len(list)
         /\ \A i \in DOMAIN list : i \in Nat /\ list[i] \in Nat
         /\ \A i, j \in DOMAIN list : i < j <=> list[i] < list[j]
         /\ \A i, j \in DOMAIN list : i <= j <=> list[i] <= list[j]
<1>1. list \in Seq(RowNumbers) /\ Len(list) \in Nat /\ DOMAIN list = 1 .. Len(list)
  BY DEF Ordered
<1>2. \A i \in DOMAIN list : i \in Nat /\ list[i] \in Nat
  <2>1. \A i \in DOMAIN list : i \in Nat
    BY <1>1
  <2>2. \A i \in DOMAIN list : list[i] \in RowNumbers
    BY <1>1
  <2>3. \A i \in DOMAIN list : list[i] \in Nat
    BY <2>2, RowsAssumption
  <2> QED BY <2>1, <2>3
<1>3. ASSUME NEW i \in DOMAIN list, NEW j \in DOMAIN list
      PROVE  (i < j <=> list[i] < list[j]) /\ (i <= j <=> list[i] <= list[j])
  <2>1. i < j => list[i] < list[j]
    BY DEF Ordered
  <2>2. j < i => list[j] < list[i]
    BY DEF Ordered
  <2>3. i \in Nat /\ j \in Nat /\ list[i] \in Nat /\ list[j] \in Nat
    BY <1>2
  <2>4. i = j => list[i] = list[j]
    OBVIOUS
  <2>5. i < j \/ i = j \/ j < i
    BY <2>3
  <2> QED BY <2>1, <2>2, <2>3, <2>4, <2>5
<1> QED BY <1>1, <1>2, <1>3

\* Between two entries of the column there is no row.
LEMMA NoRowBetween ==
  ASSUME Ordered(column), NEW i \in DOMAIN column, i + 1 \in DOMAIN column,
         NEW r \in Elements(column)
  PROVE  /\ r <= column[i] <=> r < column[i + 1]
         /\ r >= column[i + 1] <=> r > column[i]
         /\ r \in Nat /\ column[i] \in Nat /\ column[i + 1] \in Nat
<1>1. PICK j \in DOMAIN column : r = column[j]
  BY DEF Elements
<1>2. i \in Nat /\ j \in Nat /\ r \in Nat /\ column[i] \in Nat /\ column[i + 1] \in Nat
  BY <1>1, OrderedNumbers
<1>3. /\ j <= i <=> r <= column[i]
      /\ j < i + 1 <=> r < column[i + 1]
      /\ i + 1 <= j <=> column[i + 1] <= r
      /\ i < j <=> column[i] < r
  BY <1>1, OrderedNumbers
<1>4. (j <= i <=> j < i + 1) /\ (i + 1 <= j <=> i < j)
  BY <1>2
<1>5. (r <= column[i] <=> r < column[i + 1]) /\ (column[i + 1] <= r <=> column[i] < r)
  BY <1>3, <1>4
<1> QED BY <1>2, <1>5

\* An invalid row of the column is the one the other iterator names.
LEMMA NamedBelow ==
  ASSUME Ordered(invalid), NEW r \in Elements(invalid), pivot \in Int,
         pivot <= Len(invalid),
         \A i \in DOMAIN invalid : i <= pivot <=> invalid[i] <= r
  PROVE  pivot \in DOMAIN invalid /\ invalid[pivot] = r
<1>1. PICK i \in DOMAIN invalid : r = invalid[i]
  BY DEF Elements
<1>2. r \in Nat /\ i \in Nat
  BY <1>1, OrderedNumbers
<1>3. i <= pivot
  BY <1>1, <1>2
<1>4. pivot \in DOMAIN invalid
  BY <1>2, <1>3, OrderedNumbers
<1>5. invalid[pivot] <= invalid[i]
  BY <1>1, <1>4
<1>6. pivot <= i
  BY <1>4, <1>5, OrderedNumbers
<1> QED BY <1>1, <1>2, <1>3, <1>4, <1>6

LEMMA NamedAbove ==
  ASSUME Ordered(invalid), NEW r \in Elements(invalid), pivot \in Int, pivot >= 1,
         \A i \in DOMAIN invalid : i >= pivot <=> invalid[i] >= r
  PROVE  pivot \in DOMAIN invalid /\ invalid[pivot] = r
<1>1. PICK i \in DOMAIN invalid : r = invalid[i]
  BY DEF Elements
<1>2. r \in Nat /\ i \in Nat
  BY <1>1, OrderedNumbers
<1>3. i >= pivot
  BY <1>1, <1>2
<1>4. pivot \in DOMAIN invalid
  BY <1>2, <1>3, OrderedNumbers
<1>5. invalid[pivot] >= invalid[i]
  BY <1>1, <1>4
<1>6. i <= pivot
  <2>1. invalid[pivot] \in Nat /\ invalid[i] \in Nat
    BY <1>4, OrderedNumbers
  <2>2. invalid[i] <= invalid[pivot]
    BY <1>5, <2>1
  <2> QED BY <1>4, <2>2, OrderedNumbers
<1> QED BY <1>1, <1>2, <1>3, <1>4, <1>6

\* Both iterators move past an invalid row, and only one past a measured row:
\* they stay in step.
LEMMA StaysInStepBelow ==
  ASSUME Ordered(column), Ordered(invalid), Aligned, start \in DOMAIN column,
         start - 1 \in DOMAIN column, NEW p \in Int, p <= Len(invalid), NEW q \in Int,
         \A i \in DOMAIN invalid : i <= p <=> invalid[i] <= column[start],
         \/ q = p - 1 /\ (p \in DOMAIN invalid => invalid[p] = column[start])
         \/ q = p /\ column[start] \notin Elements(invalid)
  PROVE  \A i \in DOMAIN invalid : i <= q <=> invalid[i] <= column[start - 1]
<1> SUFFICES ASSUME NEW i \in DOMAIN invalid
             PROVE  i <= q <=> invalid[i] <= column[start - 1]
  OBVIOUS
<1>1. i \in Nat /\ invalid[i] \in Nat /\ column[start] \in Nat /\ Len(invalid) \in Nat
  BY OrderedNumbers
<1>2. invalid[i] \in Elements(invalid) /\ invalid[i] \in Elements(column)
  BY DEF Elements, Aligned, Kept
<1>3. invalid[i] <= column[start - 1] <=> invalid[i] < column[start]
  <2>1. start \in Int
    BY OrderedNumbers
  <2>2. DEFINE k == start - 1
  <2>3. k \in DOMAIN column /\ k + 1 \in DOMAIN column
    BY <2>1
  <2>4. k + 1 = start
    BY <2>1
  <2> HIDE DEF k
  <2>5. /\ invalid[i] <= column[k] <=> invalid[i] < column[k + 1]
        /\ invalid[i] >= column[k + 1] <=> invalid[i] > column[k]
    BY <1>2, <2>3, NoRowBetween
  <2> QED BY <2>4, <2>5 DEF k
<1>4. CASE q = p /\ column[start] \notin Elements(invalid)
  BY <1>1, <1>2, <1>3, <1>4
<1>5. CASE q = p - 1 /\ p \in DOMAIN invalid /\ invalid[p] = column[start]
  <2>1. i < p <=> invalid[i] < invalid[p]
    BY <1>5, OrderedNumbers
  <2> QED BY <1>1, <1>3, <1>5, <2>1
<1>6. CASE q = p - 1 /\ p \notin DOMAIN invalid
  <2>1. ~(i <= p)
    BY <1>1, <1>6, OrderedNumbers
  <2> QED BY <1>1, <1>3, <1>6, <2>1
<1> QED BY <1>4, <1>5, <1>6

LEMMA StaysInStepAbove ==
  ASSUME Ordered(column), Ordered(invalid), Aligned, start \in DOMAIN column,
         start + 1 \in DOMAIN column, NEW p \in Int, p >= 1, NEW q \in Int,
         \A i \in DOMAIN invalid : i >= p <=> invalid[i] >= column[start],
         \/ q = p + 1 /\ (p \in DOMAIN invalid => invalid[p] = column[start])
         \/ q = p /\ column[start] \notin Elements(invalid)
  PROVE  \A i \in DOMAIN invalid : i >= q <=> invalid[i] >= column[start + 1]
<1> SUFFICES ASSUME NEW i \in DOMAIN invalid
             PROVE  i >= q <=> invalid[i] >= column[start + 1]
  OBVIOUS
<1>1. i \in Nat /\ invalid[i] \in Nat /\ column[start] \in Nat /\ Len(invalid) \in Nat
  BY OrderedNumbers
<1>2. invalid[i] \in Elements(invalid) /\ invalid[i] \in Elements(column)
  BY DEF Elements, Aligned, Kept
<1>3. invalid[i] >= column[start + 1] <=> invalid[i] > column[start]
  <2>1. start \in Int
    BY OrderedNumbers
  <2>2. DEFINE k == start
  <2>3. k \in DOMAIN column /\ k + 1 \in DOMAIN column
    BY <2>1
  <2>4. k + 1 = start + 1
    BY <2>1
  <2> HIDE DEF k
  <2>5. /\ invalid[i] <= column[k] <=> invalid[i] < column[k + 1]
        /\ invalid[i] >= column[k + 1] <=> invalid[i] > column[k]
    BY <1>2, <2>3, NoRowBetween
  <2> QED BY <2>4, <2>5 DEF k
<1>4. CASE q = p /\ column[start] \notin Elements(invalid)
  BY <1>1, <1>2, <1>3, <1>4
<1>5. CASE q = p + 1 /\ p \in DOMAIN invalid /\ invalid[p] = column[start]
  <2>1. i > p <=> invalid[i] > invalid[p]
    BY <1>5, OrderedNumbers, <1>1
  <2> QED BY <1>1, <1>3, <1>5, <2>1
<1>6. CASE q = p + 1 /\ p \notin DOMAIN invalid
  <2>1. ~(i >= p)
    BY <1>1, <1>6, OrderedNumbers
  <2> QED BY <1>1, <1>3, <1>6, <2>1
<1> QED BY <1>4, <1>5, <1>6

\* What is read at a place.
LEMMA EntryWithin ==
  ASSUME Progress, start \in DOMAIN column, NEW entry \in EntryAt(start)
  PROVE  /\ entry.row = column[start]
         /\ column[start] \notin Elements(invalid) => entry.from = "measured"
<1>1. column[start] \in Elements(column)
  BY DEF Elements
<1> QED BY <1>1 DEF EntryAt, Progress

LEMMA EntryOutside ==
  ASSUME start \notin DOMAIN column, NEW entry \in EntryAt(start)
  PROVE  entry.from = Garbage
BY DEF EntryAt

\* A turn of the loop keeps the iterators in step, passes over invalid rows only
\* and finds measured entries only, or what is outside of the column.
LEMMA TurnBelowInStep ==
  ASSUME Typed, Progress, Aligned, InStep, StepBelow
  PROVE  /\ pivot' < next /\ start' < PlaceOf(invalid[next])
         /\ start' >= 1 =>
              \A i \in DOMAIN invalid : i <= pivot' <=> invalid[i] <= column[start']
         /\ \E entry \in EntryAt(start) :
              \/ /\ UNCHANGED <<left, below>>
                 /\ start \in DOMAIN column /\ pivot \in DOMAIN invalid =>
                      column[start] \in Elements(invalid)
              \/ /\ below' = Append(below, entry) /\ left' = left - 1
                 /\ entry.from \in {"measured", Garbage}
                 /\ start \in DOMAIN column => column[start] \notin Elements(invalid)
<1>1. /\ pc = "below" /\ start' = start - 1
      /\ UNCHANGED <<column, invalid, next>>
  BY TurnBelow
<1>2. PICK entry \in EntryAt(start), row \in InvalidAt(pivot) :
        \/ entry.row = row /\ pivot' = pivot - 1 /\ UNCHANGED <<left, below>>
        \/ /\ entry.row # row /\ below' = Append(below, entry)
           /\ left' = left - 1 /\ UNCHANGED pivot
  BY TurnBelow
<1>3. Ordered(column) /\ Ordered(invalid)
  BY ListsAreOrdered DEF Typed, TypeOK
<1>4. /\ start \in Int /\ pivot \in Int /\ next \in Nat
      /\ next >= 1 /\ next <= Len(invalid)
      /\ Len(column) \in Nat /\ Len(invalid) \in Nat
  <2>1. Len(column) \in Nat /\ Len(invalid) \in Nat
    BY <1>3, OrderedNumbers
  <2> QED BY <1>1, <2>1, OverrunAssumption DEF Typed, TypeOK
<1>5. PlaceOf(invalid[next]) \in 1 .. Len(column)
  <2>1. invalid[next] \in Elements(column)
    BY <1>1 DEF Typed, IsSliced
  <2> QED BY <2>1, <1>3, PlaceIsThere, OrderedNumbers
<1>6. /\ pivot < next /\ start < PlaceOf(invalid[next])
      /\ start >= 1 => \A i \in DOMAIN invalid : i <= pivot <=> invalid[i] <= column[start]
  BY <1>1 DEF InStep
<1>7. (start >= 1) <=> start \in DOMAIN column
  BY <1>3, <1>4, <1>5, <1>6, OrderedNumbers
<1>8. (start' >= 1) => start - 1 \in DOMAIN column /\ start \in DOMAIN column
  BY <1>1, <1>3, <1>4, <1>5, <1>6, OrderedNumbers
<1>9. pivot \in DOMAIN invalid => row = invalid[pivot]
  BY <1>2 DEF InvalidAt
<1>10. start \in DOMAIN column => entry.row = column[start]
  BY EntryWithin
<1>11. pivot' < next /\ start' < PlaceOf(invalid[next])
  BY <1>1, <1>2, <1>4, <1>5, <1>6
<1>12. CASE entry.row = row /\ pivot' = pivot - 1 /\ UNCHANGED <<left, below>>
  <2>1. start \in DOMAIN column /\ pivot \in DOMAIN invalid =>
          invalid[pivot] = column[start] /\ column[start] \in Elements(invalid)
    BY <1>9, <1>10, <1>12 DEF Elements
  <2>2. ASSUME start' >= 1
        PROVE  \A i \in DOMAIN invalid : i <= pivot' <=> invalid[i] <= column[start']
    <3>1. pivot' \in Int
      BY <1>4, <1>12
    <3>2. \A i \in DOMAIN invalid : i <= pivot' <=> invalid[i] <= column[start - 1]
      BY <1>3, <1>4, <1>6, <1>7, <1>8, <1>12, <2>1, <2>2, <3>1, StaysInStepBelow
    <3> QED BY <1>1, <3>2
  <2> QED BY <1>2, <1>11, <1>12, <2>1, <2>2
<1>13. CASE /\ entry.row # row /\ below' = Append(below, entry)
            /\ left' = left - 1 /\ UNCHANGED pivot
  <2>1. start \in DOMAIN column => column[start] \notin Elements(invalid)
    <3> SUFFICES ASSUME start \in DOMAIN column, column[start] \in Elements(invalid)
                 PROVE  FALSE
      OBVIOUS
    <3>1. pivot \in DOMAIN invalid /\ invalid[pivot] = column[start]
      BY <1>3, <1>4, <1>6, <1>7, NamedBelow
    <3> QED BY <1>9, <1>10, <1>13, <3>1
  <2>2. entry.from \in {"measured", Garbage}
    BY <2>1, EntryWithin, EntryOutside
  <2>3. ASSUME start' >= 1
        PROVE  \A i \in DOMAIN invalid : i <= pivot' <=> invalid[i] <= column[start']
    <3>1. \A i \in DOMAIN invalid : i <= pivot <=> invalid[i] <= column[start - 1]
      BY <1>3, <1>4, <1>6, <1>7, <1>8, <2>1, <2>3, StaysInStepBelow
    <3> QED BY <1>1, <1>13, <3>1
  <2> QED BY <1>2, <1>11, <1>13, <2>1, <2>2, <2>3
<1> QED BY <1>2, <1>12, <1>13

LEMMA TurnAboveInStep ==
  ASSUME Typed, Progress, Aligned, InStep, StepAbove
  PROVE  /\ pivot' > next /\ start' > PlaceOf(invalid[next])
         /\ start' <= Len(column) =>
              \A i \in DOMAIN invalid : i >= pivot' <=> invalid[i] >= column[start']
         /\ \E entry \in EntryAt(start) :
              \/ /\ UNCHANGED <<left, above>>
                 /\ start \in DOMAIN column /\ pivot \in DOMAIN invalid =>
                      column[start] \in Elements(invalid)
              \/ /\ above' = Append(above, entry) /\ left' = left - 1
                 /\ entry.from \in {"measured", Garbage}
                 /\ start \in DOMAIN column => column[start] \notin Elements(invalid)
<1>1. /\ pc = "above" /\ start' = start + 1
      /\ UNCHANGED <<column, invalid, next>>
  BY TurnAbove
<1>2. PICK entry \in EntryAt(start), row \in InvalidAt(pivot) :
        \/ entry.row = row /\ pivot' = pivot + 1 /\ UNCHANGED <<left, above>>
        \/ /\ entry.row # row /\ above' = Append(above, entry)
           /\ left' = left - 1 /\ UNCHANGED pivot
  BY TurnAbove
<1>3. Ordered(column) /\ Ordered(invalid)
  BY ListsAreOrdered DEF Typed, TypeOK
<1>4. /\ start \in Int /\ pivot \in Int /\ next \in Nat
      /\ next >= 1 /\ next <= Len(invalid)
      /\ Len(column) \in Nat /\ Len(invalid) \in Nat
  <2>1. Len(column) \in Nat /\ Len(invalid) \in Nat
    BY <1>3, OrderedNumbers
  <2> QED BY <1>1, <2>1, OverrunAssumption DEF Typed, TypeOK
<1>5. PlaceOf(invalid[next]) \in 1 .. Len(column)
  <2>1. invalid[next] \in Elements(column)
    BY <1>1 DEF Typed, IsSliced
  <2> QED BY <2>1, <1>3, PlaceIsThere, OrderedNumbers
<1>6. /\ pivot > next /\ start > PlaceOf(invalid[next])
      /\ start <= Len(column) => \A i \in DOMAIN invalid : i >= pivot <=> invalid[i] >= column[start]
  BY <1>1 DEF InStep
<1>7. (start <= Len(column)) <=> start \in DOMAIN column
  BY <1>3, <1>4, <1>5, <1>6, OrderedNumbers
<1>8. (start' <= Len(column)) => start + 1 \in DOMAIN column /\ start \in DOMAIN column
  BY <1>1, <1>3, <1>4, <1>5, <1>6, OrderedNumbers
<1>9. pivot \in DOMAIN invalid => row = invalid[pivot]
  BY <1>2 DEF InvalidAt
<1>10. start \in DOMAIN column => entry.row = column[start]
  BY EntryWithin
<1>11. pivot' > next /\ start' > PlaceOf(invalid[next])
  BY <1>1, <1>2, <1>4, <1>5, <1>6
<1>12. CASE entry.row = row /\ pivot' = pivot + 1 /\ UNCHANGED <<left, above>>
  <2>1. start \in DOMAIN column /\ pivot \in DOMAIN invalid =>
          invalid[pivot] = column[start] /\ column[start] \in Elements(invalid)
    BY <1>9, <1>10, <1>12 DEF Elements
  <2>2. ASSUME start' <= Len(column)
        PROVE  \A i \in DOMAIN invalid : i >= pivot' <=> invalid[i] >= column[start']
    <3>1. pivot' \in Int
      BY <1>4, <1>12
    <3>2. \A i \in DOMAIN invalid : i >= pivot' <=> invalid[i] >= column[start + 1]
      BY <1>3, <1>4, <1>6, <1>7, <1>8, <1>12, <2>1, <2>2, <3>1, StaysInStepAbove
    <3> QED BY <1>1, <3>2
  <2> QED BY <1>2, <1>11, <1>12, <2>1, <2>2
<1>13. CASE /\ entry.row # row /\ above' = Append(above, entry)
            /\ left' = left - 1 /\ UNCHANGED pivot
  <2>1. start \in DOMAIN column => column[start] \notin Elements(invalid)
    <3> SUFFICES ASSUME start \in DOMAIN column, column[start] \in Elements(invalid)
                 PROVE  FALSE
      OBVIOUS
    <3>1. pivot \in DOMAIN invalid /\ invalid[pivot] = column[start]
      BY <1>3, <1>4, <1>6, <1>7, NamedAbove
    <3> QED BY <1>9, <1>10, <1>13, <3>1
  <2>2. entry.from \in {"measured", Garbage}
    BY <2>1, EntryWithin, EntryOutside
  <2>3. ASSUME start' <= Len(column)
        PROVE  \A i \in DOMAIN invalid : i >= pivot' <=> invalid[i] >= column[start']
    <3>1. \A i \in DOMAIN invalid : i >= pivot <=> invalid[i] >= column[start + 1]
      BY <1>3, <1>4, <1>6, <1>7, <1>8, <2>1, <2>3, StaysInStepAbove
    <3> QED BY <1>1, <1>13, <3>1
  <2> QED BY <1>2, <1>11, <1>13, <2>1, <2>2, <2>3
<1> QED BY <1>2, <1>12, <1>13

LEMMA AppendElements ==
  ASSUME NEW S, NEW s \in Seq(S), NEW e
  PROVE  Elements(Append(s, e)) = Elements(s) \cup {e}
<1>1. /\ DOMAIN s = 1 .. Len(s) /\ Len(s) \in Nat
      /\ DOMAIN Append(s, e) = 1 .. Len(s) + 1
      /\ Append(s, e)[Len(s) + 1] = e
      /\ \A i \in 1 .. Len(s) : Append(s, e)[i] = s[i]
  OBVIOUS
<1>2. 1 .. Len(s) + 1 = (1 .. Len(s)) \cup {Len(s) + 1}
  BY <1>1
<1> QED BY <1>1, <1>2 DEF Elements

\* Both iterators start beside the row.
LEMMA StartInStep ==
  ASSUME Typed, Aligned, NEW row \in Elements(invalid), NEW n \in DOMAIN invalid,
         row = invalid[n]
  PROVE  /\ PlaceOf(row) - 1 \in DOMAIN column =>
              \A i \in DOMAIN invalid :
                 i <= n - 1 <=> invalid[i] <= column[PlaceOf(row) - 1]
         /\ PlaceOf(row) + 1 \in DOMAIN column =>
              \A i \in DOMAIN invalid :
                 i >= n + 1 <=> invalid[i] >= column[PlaceOf(row) + 1]
         /\ PlaceOf(row) \in 1 .. Len(column) /\ Len(column) \in Nat
<1>1. Ordered(column) /\ Ordered(invalid)
  BY ListsAreOrdered DEF Typed, TypeOK
<1> DEFINE k == PlaceOf(row)
<1>2. row \in Elements(column)
  BY DEF Aligned, Kept
<1>3. k \in DOMAIN column /\ column[k] = row
  BY <1>2, PlaceIsThere
<1>4. k \in 1 .. Len(column) /\ Len(column) \in Nat /\ k \in Int /\ n \in Nat
  BY <1>1, <1>3, OrderedNumbers
<1>5. ASSUME NEW i \in DOMAIN invalid
      PROVE  /\ i \in Nat /\ invalid[i] \in Elements(column)
             /\ i < n <=> invalid[i] < row
             /\ n < i <=> row < invalid[i]
  <2>1. invalid[i] \in Elements(column)
    BY DEF Elements, Aligned, Kept
  <2> QED BY <1>1, <2>1, OrderedNumbers
<1> HIDE DEF k
<1>6. ASSUME k - 1 \in DOMAIN column, NEW i \in DOMAIN invalid
      PROVE  i <= n - 1 <=> invalid[i] <= column[k - 1]
  <2> DEFINE m == k - 1
  <2>1. m \in DOMAIN column /\ m + 1 \in DOMAIN column /\ m + 1 = k
    BY <1>3, <1>4, <1>6
  <2> HIDE DEF m
  <2>2. invalid[i] <= column[m] <=> invalid[i] < column[m + 1]
    BY <1>1, <1>5, <2>1, NoRowBetween
  <2>3. invalid[i] <= column[m] <=> i < n
    BY <1>3, <1>5, <2>1, <2>2
  <2> QED BY <1>4, <1>5, <2>3 DEF m
<1>7. ASSUME k + 1 \in DOMAIN column, NEW i \in DOMAIN invalid
      PROVE  i >= n + 1 <=> invalid[i] >= column[k + 1]
  <2>1. invalid[i] >= column[k + 1] <=> invalid[i] > column[k]
    BY <1>1, <1>3, <1>5, <1>7, NoRowBetween
  <2>2. invalid[i] \in Nat /\ row \in Nat
    BY <1>1, OrderedNumbers
  <2>3. invalid[i] >= column[k + 1] <=> n < i
    BY <1>3, <1>5, <2>1, <2>2
  <2> QED BY <1>4, <1>5, <2>3
<1> QED BY <1>4, <1>6, <1>7 DEF k

LEMMA MeasuringInit == Init => Measuring
<1>1. Elements(<<>>) = {}
  BY DEF Elements
<1> QED BY <1>1 DEF Init, Measuring, InStep, NeighboursAreMeasured, Neighbours

LEMMA MeasuringStep == Typed /\ Progress /\ Measuring /\ [Next]_vars => Measuring'
<1> SUFFICES ASSUME Typed, Progress, Measuring, [Next]_vars, Aligned'
             PROVE  InStep' /\ NeighboursAreMeasured'
  BY DEF Measuring
<1>0. UNCHANGED input
  BY DEF Next, vars, input, FixConst, FixCubic, BeginFix, SkipRow, LookBelow, StepBelow,
         LookAbove, StepAbove, Step, WriteFix, AllFixed, Ended
<1>1. Aligned /\ InStep /\ NeighboursAreMeasured
  BY <1>0 DEF Measuring, Aligned, Kept, ListedOnce, input, Elements
<1>2. Elements(<<>>) = {}
  BY DEF Elements
<1>3. CASE FixCubic
  <2>1. /\ pc' \in {"done", "crashed"}
        /\ \/ below' = below
           \/ below' = [i \in Knots |-> [row |-> column[i], from |-> value[column[i]]]]
        /\ above' \in {<<entry>> : entry \in EntryAt(Len(column) + 1)} \cup {<<>>}
    BY <1>3 DEF FixCubic
  <2>2. ASSUME NEW e \in Elements(below')
        PROVE  e.from \in {"measured", Garbage}
    <3>1. CASE below' = below
      BY <1>1, <2>2, <3>1 DEF NeighboursAreMeasured, Neighbours
    <3>2. CASE below' = [i \in Knots |-> [row |-> column[i], from |-> value[column[i]]]]
      <4>1. PICK i \in Knots : e.from = value[column[i]]
        BY <2>2, <3>2 DEF Elements
      <4>2. column[i] \in Elements(column) /\ column[i] \notin Elements(invalid)
        BY DEF Knots, Elements
      <4> QED BY <4>1, <4>2 DEF Progress
    <3> QED BY <2>1, <3>1, <3>2
  <2>3. ASSUME NEW e \in Elements(above')
        PROVE  e.from \in {"measured", Garbage}
    <3>1. PICK entry \in EntryAt(Len(column) + 1) : above' = <<entry>>
      BY <1>2, <2>1, <2>3
    <3>2. e = entry
      BY <2>3, <3>1 DEF Elements
    <3>3. Len(column) + 1 \notin DOMAIN column
      BY ListsAssumption DEF Typed, TypeOK
    <3> QED BY <3>2, <3>3 DEF EntryAt
  <2>4. Elements(below)' = Elements(below') /\ Elements(above)' = Elements(above')
    BY DEF Elements
  <2> QED BY <2>1, <2>2, <2>3, <2>4 DEF InStep, NeighboursAreMeasured, Neighbours
<1>4. CASE FixConst \/ BeginFix \/ SkipRow \/ WriteFix \/ AllFixed
  BY <1>1, <1>4 DEF FixConst, BeginFix, SkipRow, WriteFix, AllFixed, InStep,
     NeighboursAreMeasured, Neighbours, Elements
<1>5. CASE LookBelow
  <2>1. /\ next \in DOMAIN invalid /\ next \in Int
        /\ invalid[next] \in Elements(invalid)
    BY <1>5, ListsAssumption DEF LookBelow, Typed, TypeOK, Elements
  <2>2. /\ pc' = "below" /\ start' = PlaceOf(invalid[next]) - 1 /\ pivot' = next - 1
        /\ below' = <<>> /\ above' = <<>> /\ UNCHANGED <<column, invalid, next>>
    BY <1>0, <1>5 DEF LookBelow, input
  <2>3. PlaceOf(invalid[next])' = PlaceOf(invalid[next])
    BY <2>2 DEF PlaceOf
  <2>4. PlaceOf(invalid[next]) \in 1 .. Len(column) /\ Len(column) \in Nat
    BY <1>1, <2>1, StartInStep
  <2>5. start' >= 1 => PlaceOf(invalid[next]) - 1 \in DOMAIN column
    BY <2>2, <2>4, ListsAssumption DEF Typed, TypeOK
  <2>6. start' >= 1 =>
          \A i \in DOMAIN invalid : i <= pivot' <=> invalid[i] <= column[start']
    BY <1>1, <2>1, <2>2, <2>5, StartInStep
  <2>7. pivot' < next /\ start' < PlaceOf(invalid[next])
    BY <2>1, <2>2, <2>4
  <2> QED BY <1>2, <2>2, <2>3, <2>6, <2>7
        DEF InStep, NeighboursAreMeasured, Neighbours, Elements
<1>6. CASE LookAbove
  <2>1. /\ next \in DOMAIN invalid /\ next \in Int
        /\ invalid[next] \in Elements(invalid)
    BY <1>6, ListsAssumption DEF LookAbove, Typed, TypeOK, Elements
  <2>2. /\ pc' = "above" /\ start' = PlaceOf(invalid[next]) + 1 /\ pivot' = next + 1
        /\ UNCHANGED <<column, invalid, next, below, above>>
    BY <1>0, <1>6 DEF LookAbove, input
  <2>3. PlaceOf(invalid[next])' = PlaceOf(invalid[next])
    BY <2>2 DEF PlaceOf
  <2>4. PlaceOf(invalid[next]) \in 1 .. Len(column) /\ Len(column) \in Nat
    BY <1>1, <2>1, StartInStep
  <2>5. start' <= Len(column) => PlaceOf(invalid[next]) + 1 \in DOMAIN column
    BY <2>2, <2>4, ListsAssumption DEF Typed, TypeOK
  <2>6. start' <= Len(column) =>
          \A i \in DOMAIN invalid : i >= pivot' <=> invalid[i] >= column[start']
    BY <1>1, <2>1, <2>2, <2>5, StartInStep
  <2>7. pivot' > next /\ start' > PlaceOf(invalid[next])
    BY <2>1, <2>2, <2>4
  <2> QED BY <1>1, <2>2, <2>3, <2>6, <2>7
        DEF InStep, NeighboursAreMeasured, Neighbours, Elements
<1>7. CASE StepBelow
  <2>1. PICK entry \in EntryAt(start) :
          \/ UNCHANGED below
          \/ below' = Append(below, entry) /\ entry.from \in {"measured", Garbage}
    BY <1>1, <1>7, TurnBelowInStep
  <2>2. /\ pc = "below" /\ pc' \in {"below", "crashed"} /\ UNCHANGED above
        /\ below \in Seq(Entries)
    BY <1>7, TurnBelow DEF Typed, TypeOK
  <2>3. \/ /\ Elements(below') \subseteq Elements(below) \cup {entry}
           /\ UNCHANGED below \/ entry.from \in {"measured", Garbage}
        \/ Elements(below') = Elements(below)
    BY <2>1, <2>2, AppendElements
  <2>4. NeighboursAreMeasured'
    BY <1>1, <2>2, <2>3 DEF NeighboursAreMeasured, Neighbours, Elements
  <2>5. InStep'
    <3>1. PlaceOf(invalid[next])' = PlaceOf(invalid[next]) /\ UNCHANGED <<column, invalid, next>>
      BY <1>7, TurnBelow DEF PlaceOf
    <3> QED BY <1>1, <1>7, <2>2, <3>1, TurnBelowInStep DEF InStep
  <2> QED BY <2>4, <2>5
<1>8. CASE StepAbove
  <2>1. PICK entry \in EntryAt(start) :
          \/ UNCHANGED above
          \/ above' = Append(above, entry) /\ entry.from \in {"measured", Garbage}
    BY <1>1, <1>8, TurnAboveInStep
  <2>2. /\ pc = "above" /\ pc' \in {"above", "crashed"} /\ UNCHANGED below
        /\ above \in Seq(Entries)
    BY <1>8, TurnAbove DEF Typed, TypeOK
  <2>3. \/ /\ Elements(above') \subseteq Elements(above) \cup {entry}
           /\ UNCHANGED above \/ entry.from \in {"measured", Garbage}
        \/ Elements(above') = Elements(above)
    BY <2>1, <2>2, AppendElements
  <2>4. NeighboursAreMeasured'
    BY <1>1, <2>2, <2>3 DEF NeighboursAreMeasured, Neighbours, Elements
  <2>5. InStep'
    <3>1. PlaceOf(invalid[next])' = PlaceOf(invalid[next]) /\ UNCHANGED <<column, invalid, next>>
      BY <1>8, TurnAbove DEF PlaceOf
    <3> QED BY <1>1, <1>8, <2>2, <3>1, TurnAboveInStep DEF InStep
  <2> QED BY <2>4, <2>5
<1>9. CASE Ended \/ UNCHANGED vars
  BY <1>1, <1>9 DEF Ended, vars, InStep, NeighboursAreMeasured, Neighbours, Elements, PlaceOf
<1> QED BY <1>3, <1>4, <1>5, <1>6, <1>7, <1>8, <1>9 DEF Next

\* What the comment on slice promises (slice.h): as long as no invalid row was
\* dropped from the column and none is listed twice, no neighbour is itself a
\* missing value or one that an earlier fix made up, however the two iterators
\* run past invalid rows and out of their lists.
THEOREM NeighboursMeasured == Spec => []MeasuredIfKept
<1>1. Measuring => MeasuredIfKept
  BY DEF Measuring, Aligned, MeasuredIfKept
<1> QED BY <1>1, TypedInit, TypedStep, ProgressInit, ProgressStep, MeasuringInit, MeasuringStep,
           PTL DEF Spec

-----------------------------------------------------------------------------
(***************************************************************************)
(* The nearest neighbours.                                                  *)
(***************************************************************************)
RowsOf(list) == {entry.row : entry \in Elements(list)}

\* The measured rows between the row and a place in the column.
PassedBelow(row, at) ==
  {r \in Measured : r < row /\ (at >= 1 => r > column[at])}
PassedAbove(row, at) ==
  {r \in Measured : r > row /\ (at <= Len(column) => r < column[at])}

\* Within the lists a loop has found, at every turn, all that it has passed.
Exact ==
  Aligned /\ pc \in {"below", "above"} /\ Fenced(invalid[next]) =>
    /\ pc = "below" =>
         /\ RowsOf(below) = PassedBelow(invalid[next], start)
         /\ Cardinality(RowsOf(below)) = count - left
    /\ pc = "above" =>
         /\ RowsOf(below) = NearestBelow(invalid[next])
         /\ RowsOf(above) = PassedAbove(invalid[next], start)
         /\ Cardinality(RowsOf(above)) = count - left

LEMMA MeasuredIsFinite ==
  ASSUME Ordered(column)
  PROVE  IsFiniteSet(Measured)
<1>1. CASE Len(column) = 0
  <2>1. Measured = {}
    BY <1>1, OrderedNumbers DEF Measured, Elements
  <2> QED BY <2>1, FS_EmptySet
<1>2. CASE Len(column) # 0
  <2>1. Len(column) \in DOMAIN column /\ column[Len(column)] \in Nat
    BY <1>2, OrderedNumbers
  <2>2. ASSUME NEW r \in Measured
        PROVE  r \in 0 .. column[Len(column)]
    <3>1. PICK i \in DOMAIN column : r = column[i]
      BY DEF Measured, Elements
    <3>2. i <= Len(column) /\ r \in Nat
      BY <3>1, OrderedNumbers
    <3>3. column[i] <= column[Len(column)]
      BY <2>1, <3>2, OrderedNumbers
    <3> QED BY <2>1, <3>1, <3>2, <3>3
  <2>3. IsFiniteSet(0 .. column[Len(column)])
    BY <2>1, FS_Interval
  <2>4. Measured \subseteq 0 .. column[Len(column)]
    BY <2>2
  <2> QED BY <2>3, <2>4, FS_Subset
<1> QED BY <1>1, <1>2

\* Beyond a place of the column comes the next one, or nothing.
LEMMA NextPlace ==
  ASSUME Ordered(column), NEW at \in DOMAIN column, NEW r \in Elements(column)
  PROVE  /\ (at - 1 >= 1 => r > column[at - 1]) <=> r >= column[at]
         /\ (at + 1 <= Len(column) => r < column[at + 1]) <=> r <= column[at]
         /\ at >= 1 /\ at <= Len(column) /\ at \in Nat
<1>1. PICK j \in DOMAIN column : r = column[j]
  BY DEF Elements
<1>2. /\ at \in 1 .. Len(column) /\ j \in 1 .. Len(column) /\ Len(column) \in Nat
      /\ DOMAIN column = 1 .. Len(column)
      /\ column[at] \in Nat /\ r \in Nat
  BY <1>1, OrderedNumbers
<1>3. (at <= j <=> column[at] <= r) /\ (j <= at <=> r <= column[at])
  BY <1>1, OrderedNumbers
<1>4. (at - 1 >= 1 => r > column[at - 1]) <=> r >= column[at]
  <2>1. CASE at - 1 >= 1
    <3> DEFINE k == at - 1
    <3>1. k \in DOMAIN column /\ k + 1 = at
      BY <1>2, <2>1
    <3>2. k + 1 \in DOMAIN column
      BY <3>1
    <3> HIDE DEF k
    <3>3. r >= column[k + 1] <=> r > column[k]
      BY <3>1, <3>2, NoRowBetween
    <3> QED BY <2>1, <3>1, <3>3 DEF k
  <2>2. CASE ~(at - 1 >= 1)
    <3>1. at <= j
      BY <1>2, <2>2
    <3> QED BY <1>2, <1>3, <2>2, <3>1
  <2> QED BY <2>1, <2>2
<1>5. (at + 1 <= Len(column) => r < column[at + 1]) <=> r <= column[at]
  <2>1. CASE at + 1 <= Len(column)
    <3>1. at + 1 \in DOMAIN column
      BY <1>2, <2>1
    <3> QED BY <2>1, <3>1, NoRowBetween
  <2>2. CASE ~(at + 1 <= Len(column))
    <3>1. j <= at
      BY <1>2, <2>2
    <3> QED BY <1>3, <2>2, <3>1
  <2> QED BY <2>1, <2>2
<1> QED BY <1>2, <1>4, <1>5

\* What the loop has found when its iterator is at a place is all there is.
LEMMA PassMoreBelow ==
  ASSUME Ordered(column), NEW row \in Nat, NEW at \in DOMAIN column, column[at] < row
  PROVE  /\ PassedBelow(row, at - 1) =
              PassedBelow(row, at) \cup (IF column[at] \in Measured THEN {column[at]} ELSE {})
         /\ column[at] \notin PassedBelow(row, at)
<1>1. ASSUME NEW r \in Measured
      PROVE  /\ r \in Nat /\ column[at] \in Nat
             /\ r \in PassedBelow(row, at - 1) <=> r < row /\ r >= column[at]
             /\ r \in PassedBelow(row, at) <=> r < row /\ r > column[at]
  <2>1. r \in Elements(column)
    BY DEF Measured
  <2>2. at >= 1 /\ at <= Len(column)
    BY NextPlace, <2>1
  <2>3. r \in PassedBelow(row, at) <=> r < row /\ r > column[at]
    BY <1>1, <2>2 DEF PassedBelow
  <2>4. r \in PassedBelow(row, at - 1) <=> r < row /\ r >= column[at]
    BY <1>1, <2>1, NextPlace DEF PassedBelow
  <2>5. r \in Nat /\ column[at] \in Nat
    BY <2>1, OrderedNumbers DEF Elements
  <2> QED BY <2>3, <2>4, <2>5
<1>2. \A r : r \in PassedBelow(row, at - 1) \/ r \in PassedBelow(row, at) => r \in Measured
  BY DEF PassedBelow
<1>3. column[at] \in Nat
  BY OrderedNumbers
<1> QED BY <1>1, <1>2, <1>3

\* As many as are wanted, counted out from the row, are the nearest.
LEMMA EnoughAreBelow ==
  ASSUME IsFiniteSet(Measured), Ordered(column), count \in Nat, NEW row \in Nat, NEW at \in Int,
         at <= Len(column), Cardinality(PassedBelow(row, at)) = count,
         Cardinality(NearestBelow(row)) = count
  PROVE  PassedBelow(row, at) = NearestBelow(row)
<1> DEFINE F == PassedBelow(row, at)
<1>1. F \subseteq Measured /\ NearestBelow(row) \subseteq Measured
  BY DEF PassedBelow, NearestBelow
<1>2. IsFiniteSet(F) /\ IsFiniteSet(NearestBelow(row))
  BY <1>1, FS_Subset
<1>3. \A r \in Measured : r \in Nat
  BY OrderedNumbers DEF Measured, Elements
<1>4. ASSUME NEW r \in F
      PROVE  r \in NearestBelow(row)
  <2> DEFINE Q == {q \in Measured : r <= q /\ q < row}
  <2>1. (at >= 1) => column[at] \in Nat
    BY OrderedNumbers
  <2>2. Q \subseteq F
    <3> SUFFICES ASSUME NEW q \in Q PROVE q \in F
      OBVIOUS
    <3>1. r \in Nat /\ q \in Nat /\ r \in Measured /\ r < row
      BY <1>3 DEF PassedBelow
    <3>2. (at >= 1) => r > column[at]
      BY DEF PassedBelow
    <3>3. (at >= 1) => q > column[at]
      BY <2>1, <3>1, <3>2
    <3>4. q \in Measured /\ q < row
      BY <3>1
    <3> QED BY <3>3, <3>4 DEF PassedBelow
  <2>3. Cardinality(Q) <= Cardinality(F)
    BY <1>2, <2>2, FS_Subset
  <2>4. r \in Measured /\ r < row
    BY DEF PassedBelow
  <2> QED BY <2>3, <2>4 DEF NearestBelow
<1> HIDE DEF F
<1>5. F \in SUBSET NearestBelow(row)
  BY <1>4
<1>6. Cardinality(NearestBelow(row)) = Cardinality(F)
  BY DEF F
<1>7. NearestBelow(row) = F
  BY <1>2, <1>5, <1>6, FS_Subset
<1> QED BY <1>7 DEF F

\* A loop that still looks has not passed the nearest rows, and is within both
\* lists if there are neighbours enough and an invalid row beyond them.
LEMMA StillWithinBelow ==
  ASSUME IsFiniteSet(Measured), Ordered(column), Ordered(invalid), count \in Nat,
         NEW row \in Nat, Fenced(row), start \in Int, pivot \in Int, left \in Nat, left > 0,
         start <= Len(column), pivot <= Len(invalid), invalid # <<>>,
         Cardinality(PassedBelow(row, start)) = count - left,
         start \in DOMAIN column =>
            \A i \in DOMAIN invalid : i <= pivot <=> invalid[i] <= column[start]
  PROVE  start \in DOMAIN column /\ pivot \in DOMAIN invalid
<1>1. Cardinality(NearestBelow(row)) = count
  BY DEF Fenced
<1>2. ~(NearestBelow(row) \subseteq PassedBelow(row, start))
  <2> SUFFICES ASSUME NearestBelow(row) \subseteq PassedBelow(row, start) PROVE FALSE
    OBVIOUS
  <2>1. IsFiniteSet(PassedBelow(row, start))
    <3>1. PassedBelow(row, start) \subseteq Measured
      BY DEF PassedBelow
    <3> QED BY <3>1, FS_Subset
  <2>2. Cardinality(NearestBelow(row)) <= Cardinality(PassedBelow(row, start))
    BY <2>1, FS_Subset
  <2> QED BY <1>1, <2>2
<1>3. PICK r \in NearestBelow(row) : r \notin PassedBelow(row, start)
  BY <1>2
<1>4. r \in Measured /\ r < row /\ r \in Nat
  <2>1. r \in Measured /\ r < row
    BY DEF NearestBelow
  <2> QED BY <2>1, OrderedNumbers DEF Measured, Elements
<1>5. ~(start >= 1 => r > column[start])
  BY <1>3, <1>4 DEF PassedBelow
<1>6. start \in DOMAIN column
  BY <1>5, OrderedNumbers
<1>7. r <= column[start]
  BY <1>4, <1>5, <1>6, OrderedNumbers
<1>8. invalid[1] < r
  BY DEF Fenced
<1>9. 1 \in DOMAIN invalid /\ invalid[1] \in Nat
  BY OrderedNumbers
<1>10. invalid[1] <= column[start]
  BY <1>4, <1>6, <1>7, <1>8, <1>9, OrderedNumbers
<1>11. 1 <= pivot
  BY <1>6, <1>9, <1>10
<1> QED BY <1>6, <1>9, <1>11, OrderedNumbers

\* What the loop has found when its iterator is at a place is all there is.
LEMMA PassMoreAbove ==
  ASSUME Ordered(column), NEW row \in Nat, NEW at \in DOMAIN column, column[at] > row
  PROVE  /\ PassedAbove(row, at + 1) =
              PassedAbove(row, at) \cup (IF column[at] \in Measured THEN {column[at]} ELSE {})
         /\ column[at] \notin PassedAbove(row, at)
<1>1. ASSUME NEW r \in Measured
      PROVE  /\ r \in Nat /\ column[at] \in Nat
             /\ r \in PassedAbove(row, at + 1) <=> r > row /\ r <= column[at]
             /\ r \in PassedAbove(row, at) <=> r > row /\ r < column[at]
  <2>1. r \in Elements(column)
    BY DEF Measured
  <2>2. at >= 1 /\ at <= Len(column)
    BY NextPlace, <2>1
  <2>3. r \in PassedAbove(row, at) <=> r > row /\ r < column[at]
    BY <1>1, <2>2 DEF PassedAbove
  <2>4. r \in PassedAbove(row, at + 1) <=> r > row /\ r <= column[at]
    BY <1>1, <2>1, NextPlace DEF PassedAbove
  <2>5. r \in Nat /\ column[at] \in Nat
    BY <2>1, OrderedNumbers DEF Elements
  <2> QED BY <2>3, <2>4, <2>5
<1>2. \A r : r \in PassedAbove(row, at + 1) \/ r \in PassedAbove(row, at) => r \in Measured
  BY DEF PassedAbove
<1>3. column[at] \in Nat
  BY OrderedNumbers
<1> QED BY <1>1, <1>2, <1>3

\* As many as are wanted, counted out from the row, are the nearest.
LEMMA EnoughAreAbove ==
  ASSUME IsFiniteSet(Measured), Ordered(column), count \in Nat, NEW row \in Nat, NEW at \in Int,
         at >= 1, Cardinality(PassedAbove(row, at)) = count,
         Cardinality(NearestAbove(row)) = count
  PROVE  PassedAbove(row, at) = NearestAbove(row)
<1> DEFINE F == PassedAbove(row, at)
<1>1. F \subseteq Measured /\ NearestAbove(row) \subseteq Measured
  BY DEF PassedAbove, NearestAbove
<1>2. IsFiniteSet(F) /\ IsFiniteSet(NearestAbove(row))
  BY <1>1, FS_Subset
<1>3. \A r \in Measured : r \in Nat
  BY OrderedNumbers DEF Measured, Elements
<1>4. ASSUME NEW r \in F
      PROVE  r \in NearestAbove(row)
  <2> DEFINE Q == {q \in Measured : row < q /\ q <= r}
  <2>1. (at <= Len(column)) => column[at] \in Nat
    BY OrderedNumbers
  <2>2. Q \subseteq F
    <3> SUFFICES ASSUME NEW q \in Q PROVE q \in F
      OBVIOUS
    <3>1. r \in Nat /\ q \in Nat /\ r \in Measured /\ r > row
      BY <1>3 DEF PassedAbove
    <3>2. (at <= Len(column)) => r < column[at]
      BY DEF PassedAbove
    <3>3. (at <= Len(column)) => q < column[at]
      BY <2>1, <3>1, <3>2
    <3>4. q \in Measured /\ q > row
      BY <3>1
    <3> QED BY <3>3, <3>4 DEF PassedAbove
  <2>3. Cardinality(Q) <= Cardinality(F)
    BY <1>2, <2>2, FS_Subset
  <2>4. r \in Measured /\ r > row
    BY DEF PassedAbove
  <2> QED BY <2>3, <2>4 DEF NearestAbove
<1> HIDE DEF F
<1>5. F \in SUBSET NearestAbove(row)
  BY <1>4
<1>6. Cardinality(NearestAbove(row)) = Cardinality(F)
  BY DEF F
<1>7. NearestAbove(row) = F
  BY <1>2, <1>5, <1>6, FS_Subset
<1> QED BY <1>7 DEF F

\* A loop that still looks has not passed the nearest rows, and is within both
\* lists if there are neighbours enough and an invalid row beyond them.
LEMMA StillWithinAbove ==
  ASSUME IsFiniteSet(Measured), Ordered(column), Ordered(invalid), count \in Nat,
         NEW row \in Nat, Fenced(row), start \in Int, pivot \in Int, left \in Nat, left > 0,
         start >= 1, pivot >= 1, invalid # <<>>,
         Cardinality(PassedAbove(row, start)) = count - left,
         start \in DOMAIN column =>
            \A i \in DOMAIN invalid : i >= pivot <=> invalid[i] >= column[start]
  PROVE  start \in DOMAIN column /\ pivot \in DOMAIN invalid
<1>1. Cardinality(NearestAbove(row)) = count
  BY DEF Fenced
<1>2. ~(NearestAbove(row) \subseteq PassedAbove(row, start))
  <2> SUFFICES ASSUME NearestAbove(row) \subseteq PassedAbove(row, start) PROVE FALSE
    OBVIOUS
  <2>1. IsFiniteSet(PassedAbove(row, start))
    <3>1. PassedAbove(row, start) \subseteq Measured
      BY DEF PassedAbove
    <3> QED BY <3>1, FS_Subset
  <2>2. Cardinality(NearestAbove(row)) <= Cardinality(PassedAbove(row, start))
    BY <2>1, FS_Subset
  <2> QED BY <1>1, <2>2
<1>3. PICK r \in NearestAbove(row) : r \notin PassedAbove(row, start)
  BY <1>2
<1>4. r \in Measured /\ r > row /\ r \in Nat
  <2>1. r \in Measured /\ r > row
    BY DEF NearestAbove
  <2> QED BY <2>1, OrderedNumbers DEF Measured, Elements
<1>5. ~(start <= Len(column) => r < column[start])
  BY <1>3, <1>4 DEF PassedAbove
<1>6. start \in DOMAIN column
  BY <1>5, OrderedNumbers
<1>7. r >= column[start]
  BY <1>4, <1>5, <1>6, OrderedNumbers
<1>8. invalid[Len(invalid)] > r
  BY DEF Fenced
<1>9. Len(invalid) \in DOMAIN invalid /\ invalid[Len(invalid)] \in Nat
  BY OrderedNumbers
<1>10. invalid[Len(invalid)] >= column[start]
  BY <1>4, <1>6, <1>7, <1>8, <1>9, OrderedNumbers
<1>11. Len(invalid) >= pivot
  BY <1>6, <1>9, <1>10
<1> QED BY <1>6, <1>9, <1>11, OrderedNumbers

\* A turn of the loop passes one more row, and finds it if it was measured.
LEMMA TurnBelowIsExact ==
  ASSUME Typed, Progress, Aligned, InStep, StepBelow, Fenced(invalid[next]),
         RowsOf(below) = PassedBelow(invalid[next], start),
         Cardinality(RowsOf(below)) = count - left
  PROVE  /\ RowsOf(below') = PassedBelow(invalid[next], start')
         /\ Cardinality(RowsOf(below')) = count - left'
<1> DEFINE row == invalid[next]
<1>1. /\ pc = "below" /\ start' = start - 1 /\ left > 0
      /\ next \in DOMAIN invalid /\ below \in Seq(Entries)
  BY TurnBelow, ListsAssumption DEF Typed, TypeOK
<1>2. Ordered(column) /\ Ordered(invalid)
  BY ListsAreOrdered DEF Typed, TypeOK
<1>3. /\ start \in Int /\ pivot \in Int /\ left \in Nat /\ count \in Nat /\ next \in Nat
      /\ Len(column) \in Nat /\ Len(invalid) \in Nat /\ row \in Nat /\ invalid # <<>>
  <2>1. Len(column) \in Nat /\ Len(invalid) \in Nat /\ row \in Nat /\ next \in Nat
    BY <1>1, <1>2, OrderedNumbers
  <2>2. start \in Int /\ pivot \in Int /\ left \in Nat /\ count \in Nat
    BY <1>1, OverrunAssumption, <2>1 DEF Typed, TypeOK
  <2> QED BY <1>1, <2>1, <2>2
<1>4. row \in Elements(column) /\ PlaceOf(row) \in DOMAIN column /\ column[PlaceOf(row)] = row
  <2>1. row \in Elements(column)
    BY <1>1 DEF Aligned, Kept, Elements
  <2> QED BY <2>1, PlaceIsThere
<1>5. /\ start < PlaceOf(row) /\ pivot < next
      /\ start \in DOMAIN column =>
           \A i \in DOMAIN invalid : i <= pivot <=> invalid[i] <= column[start]
  BY <1>1, <1>2, OrderedNumbers DEF InStep
<1>6. start <= Len(column) /\ pivot <= Len(invalid)
  <2>1. PlaceOf(row) \in Nat /\ PlaceOf(row) <= Len(column) /\ PlaceOf(row) >= 1
    BY <1>2, <1>4, OrderedNumbers
  <2>2. next <= Len(invalid) /\ next >= 1
    BY <1>1, <1>2, OrderedNumbers
  <2> QED BY <1>3, <1>5, <2>1, <2>2
<1>7. start \in DOMAIN column /\ pivot \in DOMAIN invalid
  BY <1>1, <1>2, <1>3, <1>5, <1>6, MeasuredIsFinite, StillWithinBelow
<1>8. column[start] < row
  <2>1. PlaceOf(row) \in Nat /\ start \in Nat /\ column[start] \in Nat
    BY <1>2, <1>4, <1>7, OrderedNumbers
  <2> QED BY <1>2, <1>3, <1>4, <1>5, <1>7, <2>1, OrderedNumbers
<1>9. /\ PassedBelow(row, start') =
           PassedBelow(row, start) \cup (IF column[start] \in Measured THEN {column[start]} ELSE {})
      /\ column[start] \notin PassedBelow(row, start)
  BY <1>1, <1>2, <1>3, <1>7, <1>8, PassMoreBelow
<1>10. column[start] \in Measured <=> column[start] \notin Elements(invalid)
  BY <1>7 DEF Measured, Elements
<1>11. PICK entry \in EntryAt(start) :
         \/ /\ UNCHANGED <<left, below>>
            /\ start \in DOMAIN column /\ pivot \in DOMAIN invalid =>
                 column[start] \in Elements(invalid)
         \/ /\ below' = Append(below, entry) /\ left' = left - 1
            /\ start \in DOMAIN column => column[start] \notin Elements(invalid)
  BY TurnBelowInStep
<1>12. CASE UNCHANGED <<left, below>> /\ column[start] \in Elements(invalid)
  <2>1. PassedBelow(row, start') = PassedBelow(row, start)
    BY <1>9, <1>10, <1>12
  <2> QED BY <1>12, <2>1
<1>13. CASE /\ below' = Append(below, entry) /\ left' = left - 1
            /\ column[start] \notin Elements(invalid)
  <2>1. entry.row = column[start]
    BY <1>7, EntryWithin
  <2>2. Elements(below') = Elements(below) \cup {entry}
    BY <1>1, <1>13, AppendElements
  <2>3. RowsOf(below') = RowsOf(below) \cup {column[start]}
    BY <2>1, <2>2 DEF RowsOf
  <2>4. RowsOf(below') = PassedBelow(row, start')
    BY <1>9, <1>10, <1>13, <2>3
  <2>5. IsFiniteSet(RowsOf(below))
    <3>1. PassedBelow(row, start) \subseteq Measured
      BY DEF PassedBelow
    <3> QED BY <1>2, <3>1, MeasuredIsFinite, FS_Subset
  <2>6. Cardinality(RowsOf(below')) = Cardinality(RowsOf(below)) + 1
    <3>1. column[start] \notin RowsOf(below)
      BY <1>9
    <3> HIDE DEF row
    <3>2. Cardinality(RowsOf(below) \cup {column[start]}) = Cardinality(RowsOf(below)) + 1
      BY <2>5, <3>1, FS_AddElement
    <3> QED BY <2>3, <3>2
  <2> QED BY <1>3, <1>13, <2>4, <2>6
<1> QED BY <1>7, <1>11, <1>12, <1>13

\* A turn of the loop passes one more row, and finds it if it was measured.
LEMMA TurnAboveIsExact ==
  ASSUME Typed, Progress, Aligned, InStep, StepAbove, Fenced(invalid[next]),
         RowsOf(above) = PassedAbove(invalid[next], start),
         Cardinality(RowsOf(above)) = count - left
  PROVE  /\ RowsOf(above') = PassedAbove(invalid[next], start')
         /\ Cardinality(RowsOf(above')) = count - left'
<1> DEFINE row == invalid[next]
<1>1. /\ pc = "above" /\ start' = start + 1 /\ left > 0
      /\ next \in DOMAIN invalid /\ above \in Seq(Entries)
  BY TurnAbove, ListsAssumption DEF Typed, TypeOK
<1>2. Ordered(column) /\ Ordered(invalid)
  BY ListsAreOrdered DEF Typed, TypeOK
<1>3. /\ start \in Int /\ pivot \in Int /\ left \in Nat /\ count \in Nat /\ next \in Nat
      /\ Len(column) \in Nat /\ Len(invalid) \in Nat /\ row \in Nat /\ invalid # <<>>
  <2>1. Len(column) \in Nat /\ Len(invalid) \in Nat /\ row \in Nat /\ next \in Nat
    BY <1>1, <1>2, OrderedNumbers
  <2>2. start \in Int /\ pivot \in Int /\ left \in Nat /\ count \in Nat
    BY <1>1, OverrunAssumption, <2>1 DEF Typed, TypeOK
  <2> QED BY <1>1, <2>1, <2>2
<1>4. row \in Elements(column) /\ PlaceOf(row) \in DOMAIN column /\ column[PlaceOf(row)] = row
  <2>1. row \in Elements(column)
    BY <1>1 DEF Aligned, Kept, Elements
  <2> QED BY <2>1, PlaceIsThere
<1>5. /\ start > PlaceOf(row) /\ pivot > next
      /\ start \in DOMAIN column =>
           \A i \in DOMAIN invalid : i >= pivot <=> invalid[i] >= column[start]
  BY <1>1, <1>2, OrderedNumbers DEF InStep
<1>6. start >= 1 /\ pivot >= 1
  <2>1. PlaceOf(row) \in Nat /\ PlaceOf(row) <= Len(column) /\ PlaceOf(row) >= 1
    BY <1>2, <1>4, OrderedNumbers
  <2>2. next <= Len(invalid) /\ next >= 1
    BY <1>1, <1>2, OrderedNumbers
  <2> QED BY <1>3, <1>5, <2>1, <2>2
<1>7. start \in DOMAIN column /\ pivot \in DOMAIN invalid
  BY <1>1, <1>2, <1>3, <1>5, <1>6, MeasuredIsFinite, StillWithinAbove
<1>8. column[start] > row
  <2>1. PlaceOf(row) \in Nat /\ start \in Nat /\ column[start] \in Nat
    BY <1>2, <1>4, <1>7, OrderedNumbers
  <2> QED BY <1>2, <1>3, <1>4, <1>5, <1>7, <2>1, OrderedNumbers
<1>9. /\ PassedAbove(row, start') =
           PassedAbove(row, start) \cup (IF column[start] \in Measured THEN {column[start]} ELSE {})
      /\ column[start] \notin PassedAbove(row, start)
  BY <1>1, <1>2, <1>3, <1>7, <1>8, PassMoreAbove
<1>10. column[start] \in Measured <=> column[start] \notin Elements(invalid)
  BY <1>7 DEF Measured, Elements
<1>11. PICK entry \in EntryAt(start) :
         \/ /\ UNCHANGED <<left, above>>
            /\ start \in DOMAIN column /\ pivot \in DOMAIN invalid =>
                 column[start] \in Elements(invalid)
         \/ /\ above' = Append(above, entry) /\ left' = left - 1
            /\ start \in DOMAIN column => column[start] \notin Elements(invalid)
  BY TurnAboveInStep
<1>12. CASE UNCHANGED <<left, above>> /\ column[start] \in Elements(invalid)
  <2>1. PassedAbove(row, start') = PassedAbove(row, start)
    BY <1>9, <1>10, <1>12
  <2> QED BY <1>12, <2>1
<1>13. CASE /\ above' = Append(above, entry) /\ left' = left - 1
            /\ column[start] \notin Elements(invalid)
  <2>1. entry.row = column[start]
    BY <1>7, EntryWithin
  <2>2. Elements(above') = Elements(above) \cup {entry}
    BY <1>1, <1>13, AppendElements
  <2>3. RowsOf(above') = RowsOf(above) \cup {column[start]}
    BY <2>1, <2>2 DEF RowsOf
  <2>4. RowsOf(above') = PassedAbove(row, start')
    BY <1>9, <1>10, <1>13, <2>3
  <2>5. IsFiniteSet(RowsOf(above))
    <3>1. PassedAbove(row, start) \subseteq Measured
      BY DEF PassedAbove
    <3> QED BY <1>2, <3>1, MeasuredIsFinite, FS_Subset
  <2>6. Cardinality(RowsOf(above')) = Cardinality(RowsOf(above)) + 1
    <3>1. column[start] \notin RowsOf(above)
      BY <1>9
    <3> HIDE DEF row
    <3>2. Cardinality(RowsOf(above) \cup {column[start]}) = Cardinality(RowsOf(above)) + 1
      BY <2>5, <3>1, FS_AddElement
    <3> QED BY <2>3, <3>2
  <2> QED BY <1>3, <1>13, <2>4, <2>6
<1> QED BY <1>7, <1>11, <1>12, <1>13

LEMMA ExactInit == Init => Exact
BY DEF Init, Exact

\* What the nearest rows are depends on the input only.
LEMMA SameNearest ==
  ASSUME UNCHANGED <<column, invalid, count, next>>
  PROVE  /\ Measured' = Measured /\ (Aligned' <=> Aligned)
         /\ Fenced(invalid[next])' = Fenced(invalid[next])
         /\ NearestBelow(invalid[next])' = NearestBelow(invalid[next])
         /\ PassedBelow(invalid[next], start)' = PassedBelow(invalid[next], start')
         /\ PassedAbove(invalid[next], start)' = PassedAbove(invalid[next], start')
         /\ RowsOf(below)' = RowsOf(below') /\ RowsOf(above)' = RowsOf(above')
<1>1. Measured' = Measured
  BY DEF Measured, Elements
<1>2. Aligned' <=> Aligned
  BY DEF Aligned, Kept, ListedOnce, Elements
<1>3. NearestBelow(invalid[next])' = NearestBelow(invalid[next])
  BY <1>1 DEF NearestBelow
<1>4. NearestAbove(invalid[next])' = NearestAbove(invalid[next])
  BY <1>1 DEF NearestAbove
<1>5. Fenced(invalid[next])' = Fenced(invalid[next])
  BY <1>3, <1>4 DEF Fenced
<1>6. PassedBelow(invalid[next], start)' = PassedBelow(invalid[next], start')
  BY <1>1 DEF PassedBelow
<1>7. PassedAbove(invalid[next], start)' = PassedAbove(invalid[next], start')
  BY <1>1 DEF PassedAbove
<1>8. RowsOf(below)' = RowsOf(below') /\ RowsOf(above)' = RowsOf(above')
  BY DEF RowsOf, Elements
<1> QED BY <1>1, <1>2, <1>3, <1>5, <1>6, <1>7, <1>8

LEMMA ExactStep == Typed /\ Progress /\ Measuring /\ Exact /\ [Next]_vars => Exact'
<1> SUFFICES ASSUME Typed, Progress, Measuring, Exact, [Next]_vars,
                    Aligned', pc' \in {"below", "above"}, Fenced(invalid[next])'
             PROVE  /\ (pc = "below" =>
                          /\ RowsOf(below) = PassedBelow(invalid[next], start)
                          /\ Cardinality(RowsOf(below)) = count - left)'
                    /\ (pc = "above" =>
                          /\ RowsOf(below) = NearestBelow(invalid[next])
                          /\ RowsOf(above) = PassedAbove(invalid[next], start)
                          /\ Cardinality(RowsOf(above)) = count - left)'
  BY DEF Exact
<1>1. CASE UNCHANGED vars
  <2>1. UNCHANGED <<column, invalid, count, next, pc, start, left, below, above>>
    BY <1>1 DEF vars
  <2> QED BY <2>1, SameNearest DEF Exact
<1>2. CASE Next
  <2>1. LookBelow \/ LookAbove \/ StepBelow \/ StepAbove
    <3>1. ~(FixConst \/ FixCubic)
      BY DEF FixConst, FixCubic
    <3>2. ~(BeginFix \/ SkipRow \/ WriteFix \/ AllFixed)
      BY DEF BeginFix, SkipRow, WriteFix, AllFixed
    <3>3. ~Ended
      BY DEF Ended, vars
    <3> QED BY <1>2, <3>1, <3>2, <3>3 DEF Next
  <2>2. UNCHANGED <<column, invalid, count, next>>
    BY <2>1 DEF LookBelow, LookAbove, StepBelow, StepAbove, Step, input
  <2>3. Aligned /\ Fenced(invalid[next])
    BY <2>2, SameNearest
  <2>4. InStep
    BY <2>3 DEF Measuring
  <2>5. /\ (pc' = "below" =>
                 /\ RowsOf(below') = PassedBelow(invalid[next], start')
                 /\ Cardinality(RowsOf(below')) = count - left')
             => (pc = "below" =>
                   /\ RowsOf(below) = PassedBelow(invalid[next], start)
                   /\ Cardinality(RowsOf(below)) = count - left)'
        /\ (pc' = "above" =>
                 /\ RowsOf(below') = NearestBelow(invalid[next])
                 /\ RowsOf(above') = PassedAbove(invalid[next], start')
                 /\ Cardinality(RowsOf(above')) = count - left')
             => (pc = "above" =>
                   /\ RowsOf(below) = NearestBelow(invalid[next])
                   /\ RowsOf(above) = PassedAbove(invalid[next], start)
                   /\ Cardinality(RowsOf(above)) = count - left)'
    BY <2>2, SameNearest
  <2>6. pc \in {"next", "below", "above"}
    BY <2>1 DEF LookBelow, LookAbove, StepBelow, StepAbove
  <2> DEFINE row == invalid[next]
  <2>7. /\ Ordered(column) /\ Ordered(invalid) /\ IsFiniteSet(Measured)
        /\ count \in Nat
        /\ next \in DOMAIN invalid /\ row \in Nat
    <3>1. Ordered(column) /\ Ordered(invalid)
      BY <2>3, ListsAreOrdered DEF Typed, TypeOK
    <3>2. next \in DOMAIN invalid
      BY <2>1, <3>1, OrderedNumbers DEF LookBelow, LookAbove, StepBelow, StepAbove, Typed, TypeOK
    <3>3. count \in Nat
      BY DEF Typed, TypeOK
    <3> QED BY <3>1, <3>2, <3>3, MeasuredIsFinite, OrderedNumbers
  <2>8. /\ row \in Elements(column) /\ PlaceOf(row) \in DOMAIN column
        /\ column[PlaceOf(row)] = row
    <3>1. row \in Elements(column)
      BY <2>3, <2>7 DEF Aligned, Kept, Elements
    <3> QED BY <3>1, PlaceIsThere
  <2>9. /\ Cardinality(NearestBelow(row)) = count
        /\ RowsOf(<<>>) = {} /\ Cardinality({}) = 0
    BY <2>3, FS_EmptySet DEF Fenced, RowsOf, Elements
  <2>10. CASE LookBelow
    <3>1. PassedBelow(row, PlaceOf(row) - 1) = {}
      <4> SUFFICES ASSUME NEW r \in Measured, r < row,
                          PlaceOf(row) - 1 >= 1 => r > column[PlaceOf(row) - 1]
                   PROVE  FALSE
        BY DEF PassedBelow
      <4>1. r \in Elements(column)
        BY DEF Measured
      <4>2. r >= column[PlaceOf(row)] /\ r \in Nat
        BY <2>7, <2>8, <4>1, NextPlace, OrderedNumbers DEF Elements
      <4> QED BY <2>7, <2>8, <4>2
    <3>2. PlaceOf(row) = 1 => count = 0
      <4> SUFFICES ASSUME PlaceOf(row) = 1 PROVE count = 0
        OBVIOUS
      <4>1. NearestBelow(row) \subseteq PassedBelow(row, 0)
        BY DEF NearestBelow, PassedBelow
      <4>2. NearestBelow(row) = {}
        BY <3>1, <4>1
      <4> QED BY <2>7, <2>9, <4>2
    <3>3. /\ below' = <<>> /\ left' = count /\ start' = PlaceOf(row) - 1 /\ pc' = "below"
      BY <2>10, <3>2 DEF LookBelow
    <3>4. /\ RowsOf(below') = PassedBelow(row, start')
          /\ Cardinality(RowsOf(below')) = count - left'
      <4>1. RowsOf(below') = {} /\ Cardinality(RowsOf(below')) = 0
        BY <2>9, <3>3
      <4>2. PassedBelow(row, start') = {}
        BY <3>1, <3>3
      <4>3. count - left' = 0
        BY <2>7, <3>3
      <4> QED BY <4>1, <4>2, <4>3
    <3> QED BY <2>5, <3>3, <3>4
  <2>11. CASE LookAbove
    <3>1. /\ start' = PlaceOf(row) + 1 /\ left' = count /\ pc' = "above" /\ pc = "below"
          /\ left = 0 /\ UNCHANGED <<below, above>>
      BY <2>11 DEF LookAbove
    <3>2. PassedAbove(row, PlaceOf(row) + 1) = {}
      <4> SUFFICES ASSUME NEW r \in Measured, r > row,
                          PlaceOf(row) + 1 <= Len(column) => r < column[PlaceOf(row) + 1]
                   PROVE  FALSE
        BY DEF PassedAbove
      <4>1. r \in Elements(column)
        BY DEF Measured
      <4>2. r <= column[PlaceOf(row)] /\ r \in Nat
        BY <2>7, <2>8, <4>1, NextPlace, OrderedNumbers DEF Elements
      <4> QED BY <2>7, <2>8, <4>2
    <3>3. /\ RowsOf(below) = PassedBelow(row, start)
          /\ Cardinality(RowsOf(below)) = count
      BY <2>3, <2>7, <3>1 DEF Exact
    <3>4. start \in Int /\ start <= Len(column)
      <4>1. start \in Int /\ start < PlaceOf(row)
        BY <2>4, <2>7, <3>1, OverrunAssumption, OrderedNumbers DEF Typed, TypeOK, InStep
      <4> QED BY <2>7, <2>8, <4>1, OrderedNumbers
    <3>5. RowsOf(below) = NearestBelow(row)
      BY <2>7, <2>9, <3>3, <3>4, EnoughAreBelow
    <3>6. above' = <<>>
      BY <3>1 DEF Progress
    <3>7. /\ RowsOf(above') = PassedAbove(row, start')
          /\ Cardinality(RowsOf(above')) = count - left'
      <4>1. RowsOf(above') = {} /\ Cardinality(RowsOf(above')) = 0
        BY <2>9, <3>6
      <4>2. PassedAbove(row, start') = {}
        BY <3>1, <3>2
      <4>3. count - left' = 0
        BY <2>7, <3>1
      <4> QED BY <4>1, <4>2, <4>3
    <3> QED BY <2>5, <3>1, <3>5, <3>7
  <2>12. CASE StepBelow
    <3>1. pc = "below" /\ pc' = "below"
      BY <2>12, TurnBelow
    <3>2. /\ RowsOf(below') = PassedBelow(row, start')
          /\ Cardinality(RowsOf(below')) = count - left'
      BY <2>3, <2>4, <2>12, <3>1, TurnBelowIsExact DEF Exact
    <3> QED BY <2>5, <3>1, <3>2
  <2>13. CASE StepAbove
    <3>1. pc = "above" /\ pc' = "above" /\ UNCHANGED below
      BY <2>13, TurnAbove
    <3>2. /\ RowsOf(above') = PassedAbove(row, start')
          /\ Cardinality(RowsOf(above')) = count - left'
      BY <2>3, <2>4, <2>13, <3>1, TurnAboveIsExact DEF Exact
    <3>3. RowsOf(below) = NearestBelow(row)
      BY <2>3, <3>1 DEF Exact
    <3> QED BY <2>5, <3>1, <3>2, <3>3
  <2> QED BY <2>1, <2>10, <2>11, <2>12, <2>13
<1> QED BY <1>1, <1>2

\* If no invalid row was dropped or is listed twice, then where there are
\* neighbours enough on both sides and an invalid row beyond them, a fix is computed from just the nearest measured rows, as many as it
\* asks for on each side (slice, slice_some).
THEOREM NeighboursAreNearest == Spec => []NearestIfFenced
<1>1. Typed /\ Progress /\ Measuring /\ Exact => NearestIfFenced
  <2> SUFFICES ASSUME Typed, Progress, Measuring, Exact,
                      pc = "above", left = 0, Aligned, Fenced(invalid[next])
               PROVE  /\ {entry.row : entry \in Elements(below)} = NearestBelow(invalid[next])
                      /\ {entry.row : entry \in Elements(above)} = NearestAbove(invalid[next])
                      /\ NeighboursAreMeasured
    BY DEF NearestIfFenced, Aligned
  <2> DEFINE row == invalid[next]
  <2>1. Ordered(column) /\ Ordered(invalid)
    BY ListsAreOrdered DEF Typed, TypeOK
  <2>2. next \in DOMAIN invalid /\ row \in Nat /\ count \in Nat
    <3>1. next \in DOMAIN invalid
      BY <2>1, OrderedNumbers DEF Typed, TypeOK
    <3> QED BY <2>1, <3>1, OrderedNumbers DEF Typed, TypeOK
  <2>3. /\ RowsOf(below) = NearestBelow(row)
        /\ RowsOf(above) = PassedAbove(row, start)
        /\ Cardinality(RowsOf(above)) = count
    BY <2>2 DEF Exact
  <2>4. start \in Int /\ start >= 1
    <3>1. row \in Elements(column)
      BY <2>2 DEF Aligned, Kept, Elements
    <3>2. PlaceOf(row) \in Nat /\ PlaceOf(row) >= 1
      BY <2>1, <3>1, PlaceIsThere, OrderedNumbers
    <3>3. start \in Int /\ start > PlaceOf(row)
      BY <2>1, OverrunAssumption, OrderedNumbers DEF Typed, TypeOK, Measuring, InStep
    <3> QED BY <3>2, <3>3
  <2>5. RowsOf(above) = NearestAbove(row)
    <3>1. Cardinality(NearestAbove(row)) = count
      BY DEF Fenced
    <3> QED BY <2>1, <2>2, <2>3, <2>4, <3>1, MeasuredIsFinite, EnoughAreAbove
  <2> QED BY <2>3, <2>5 DEF RowsOf, Measuring
<1> QED BY <1>1, TypedInit, TypedStep, ProgressInit, ProgressStep, MeasuringInit, MeasuringStep,
           ExactInit, ExactStep, PTL DEF Spec
=============================================================================
