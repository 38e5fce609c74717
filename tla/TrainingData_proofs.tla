------------------------- MODULE TrainingData_proofs -------------------------
(***************************************************************************)
(* Proofs about TrainingData, for any number of columns, any lines, labels, *)
(* messages and percentages: the cells of a row stay together, and what is  *)
(* learned from and what is tested on are the rows that were read, once.    *)
(***************************************************************************)
EXTENDS TrainingData, WellFoundedInduction, FiniteSetTheorems, TLAPS

(***************************************************************************)
(* Induction over the natural numbers, stated for a set of numbers: from    *)
(* the least number that is missing from it.                                *)
(***************************************************************************)

\* A set that has 0 and, with every number, the next one has all of them.
LEMMA SetInduction ==
  ASSUME NEW S, 0 \in S, \A n \in Nat : n \in S => n + 1 \in S
  PROVE  Nat \subseteq S
<1> SUFFICES ASSUME Nat \ S # {} PROVE FALSE
  OBVIOUS
<1>1. PICK x \in Nat \ S : \A y \in Nat \ S : <<y, x>> \notin OpToRel(<, Nat)
  BY NatLessThanWellFounded, WFMin
<1>2. x # 0 /\ x - 1 \in Nat
  OBVIOUS
<1>3. <<x - 1, x>> \in OpToRel(<, Nat)
  BY <1>2 DEF OpToRel
<1>4. x - 1 \in S
  BY <1>1, <1>2, <1>3
<1> QED BY <1>2, <1>4

(***************************************************************************)
(* The inductive invariant.                                                 *)
(***************************************************************************)

\* The first n lines in every column.
FirstLines(n) == [c \in Columns |-> [i \in 1 .. n |-> i]]

\* The file is read, and nothing was wrong with it.
WasRead ==
  pc \in {"shuffle", "map", "train", "test"} \/ outcome \in {"tested", "overrun"}

\* The file fits the bounds; only what is done has an outcome.
Shapes ==
  /\ message \in Messages
  /\ file \in Seq(Lines) /\ Len(file) <= MaxLines
  /\ pos \in 0 .. Len(file)
  /\ pc # "done" => outcome = "running"

\* From the message on the configuration is the message's.
Configured ==
  (pc \notin {"message", "done"} \/ outcome \in {"tested", "overrun"}) =>
    conf = Configuration(message)

\* While the file is read, its columns are in its order.
InOrder ==
  /\ pc \in {"message", "open"} => pos = 0 /\ table = FirstLines(0)
  /\ pc = "read" => table = FirstLines(pos) /\ \A l \in 1 .. pos : Usable(l)

\* Afterwards they are in some order, the same in all of them.
Together ==
  WasRead =>
    /\ table \in [Columns -> Seq(Nat)]
    /\ \A c \in Columns : table[c] = table[1]
    /\ Elements(table[1]) = 1 .. Rows
    /\ ~conf.randomized => \A i \in 1 .. Rows : table[1][i] = i
    /\ Rows <= Len(file)
    /\ \A l \in 1 .. Rows : Usable(l)
    /\ Rows < Len(file) => file[Rows + 1].cells = 0

ShuffledIfAsked == pc = "shuffle" => conf.randomized

RInv == Shapes /\ Configured /\ InOrder /\ Together /\ ShuffledIfAsked

(***************************************************************************)
(* What main may catch of the reading of a message.                         *)
(***************************************************************************)

Refusals == {"none", "json_error", "exception", "invalid_conf", "runtime_error"}

\* The first refusal is one of the refusals (process_input.cpp, process).
LEMMA FirstIsRefusal ==
  ASSUME NEW refusals \in Seq(Refusals)
  PROVE  First(refusals) \in Refusals
<1> DEFINE found == {i \in DOMAIN refusals : refusals[i] # "none"}
<1>1. CASE found = {}
  BY <1>1 DEF First, Refusals
<1>2. CASE found # {}
  <2>0. found \subseteq Nat /\ found \subseteq DOMAIN refusals
    OBVIOUS
  <2> HIDE DEF found
  <2>1. PICK i \in found : \A j \in found : <<j, i>> \notin OpToRel(<, Nat)
    BY <1>2, <2>0, NatLessThanWellFounded, WFMin
  <2>2. \A j \in found : i <= j
    <3> SUFFICES ASSUME NEW j \in found, j < i PROVE FALSE
      BY <2>0
    <3>1. <<j, i>> \in OpToRel(<, Nat)
      BY <2>0 DEF OpToRel
    <3> QED BY <2>1, <3>1
  <2>3. (CHOOSE k \in found : \A j \in found : k <= j) \in found
    BY <2>2
  <2> DEFINE least == CHOOSE k \in found : \A j \in found : k <= j
  <2>4. First(refusals) = refusals[least]
    BY <1>2 DEF First, found
  <2> HIDE DEF least
  <2>5. least \in DOMAIN refusals
    BY <2>0, <2>3 DEF least
  <2> QED BY <2>4, <2>5
<1> QED BY <1>1, <1>2

\* What refuses the parts of a message, in their order (process_input.cpp, process).
PartRefusals(m) == <<SourceRefusal(m), LabelRefusal(m), EvaluationRefusal(m),
                     ValidationRefusal(m), ModelsRefusal(m)>>

LEMMA PartRefusalsType ==
  ASSUME NEW m \in MessageType
  PROVE  PartRefusals(m) \in Seq(Refusals)
<1>1. SourceRefusal(m) \in Refusals /\ LabelRefusal(m) \in Refusals
  BY DEF SourceRefusal, LabelRefusal, OrAbsent, Refusals
<1>2. EvaluationRefusal(m) \in Refusals /\ ValidationRefusal(m) \in Refusals
  BY DEF EvaluationRefusal, ValidationRefusal, OrAbsent, Refusals
<1>3. ModelsRefusal(m) \in Refusals
  <2> DEFINE refusals == [i \in DOMAIN m.actions |-> ModelRefusal(m.actions[i])]
  <2>1. \A entry : ModelRefusal(entry) \in Refusals
    BY DEF ModelRefusal, Refusals
  <2>2. m.actions \in Seq(ModelType)
    BY DEF MessageType
  <2>3. refusals \in Seq(Refusals)
    BY <2>1, <2>2
  <2>4. First(refusals) \in Refusals
    BY <2>3, FirstIsRefusal
  <2> QED BY <2>4 DEF ModelsRefusal, OrAbsent, Refusals
<1> QED BY <1>1, <1>2, <1>3 DEF PartRefusals

\* A message is refused with one of these exceptions, if it is (process_input.cpp).
LEMMA RefusalType ==
  ASSUME NEW m \in MessageType
  PROVE  Refusal(m) \in Refusals
<1>1. First(PartRefusals(m)) \in Refusals
  BY PartRefusalsType, FirstIsRefusal
<1> QED BY <1>1 DEF PartRefusals, Refusal, Refusals

(***************************************************************************)
(* Rows stay together.                                                      *)
(***************************************************************************)

LEMMA ReadInit == Init => RInv
<1> SUFFICES ASSUME Init PROVE RInv
  OBVIOUS
<1> USE LinesAssumption DEF Init
<1>1. Shapes
  <2>1. file = <<>> /\ <<>> \in Seq(Lines) /\ Len(<<>>) = 0
    OBVIOUS
  <2>2. Len(file) <= MaxLines /\ pos \in 0 .. Len(file)
    BY <2>1
  <2> QED BY <2>1, <2>2 DEF Shapes
<1>2. InOrder
  <2>1. table = FirstLines(0)
    BY DEF FirstLines
  <2> QED BY <2>1 DEF InOrder
<1> QED BY <1>1, <1>2 DEF RInv, Configured, Together, ShuffledIfAsked, WasRead

\* Two places of a sequence that are exchanged leave its length and its elements
\* as they were (row_data_input.cpp, shuffle_row).
LEMMA SwapKeepsElements ==
  ASSUME NEW s \in Seq(Nat), NEW i \in 1 .. Len(s), NEW j \in 1 .. Len(s),
         NEW t, t = [s EXCEPT ![i] = s[j], ![j] = s[i]]
  PROVE  t \in Seq(Nat) /\ Len(t) = Len(s) /\ Elements(t) = Elements(s)
<1>1. t \in Seq(Nat) /\ Len(t) = Len(s) /\ DOMAIN t = 1 .. Len(s) /\ DOMAIN s = 1 .. Len(s)
  OBVIOUS
<1>2. \A k \in 1 .. Len(s) : t[k] = IF k = j THEN s[i] ELSE IF k = i THEN s[j] ELSE s[k]
  OBVIOUS
<1>3. \A k \in 1 .. Len(s) : \E l \in 1 .. Len(s) : t[k] = s[l]
  BY <1>2
<1>4. \A k \in 1 .. Len(s) : \E l \in 1 .. Len(s) : s[k] = t[l]
  <2> TAKE k \in 1 .. Len(s)
  <2>1. CASE k = i
    BY <2>1, <1>2
  <2>2. CASE k = j
    BY <2>2, <1>2
  <2>3. CASE k # i /\ k # j
    BY <2>3, <1>2
  <2> QED BY <2>1, <2>2, <2>3
<1>5. Elements(t) \subseteq Elements(s)
  BY <1>1, <1>3 DEF Elements
<1>6. Elements(s) \subseteq Elements(t)
  <2> SUFFICES ASSUME NEW k \in DOMAIN s PROVE s[k] \in Elements(t)
    BY DEF Elements
  <2>1. PICK l \in DOMAIN t : s[k] = t[l]
    BY <1>1, <1>4
  <2> QED BY <2>1 DEF Elements
<1> QED BY <1>1, <1>5, <1>6

\* What is known once all that was read of the file is in the columns, and the
\* shuffle, if there is one, comes next.
LEMMA ReadIsDone ==
  ASSUME RInv, NEW n \in 0 .. Len(file), table' = FirstLines(n), file' = file, conf' = conf,
         pos' \in 0 .. Len(file), message' = message,
         \A l \in 1 .. n : Usable(l), n < Len(file) => file[n + 1].cells = 0,
         pc' = (IF conf.randomized THEN "shuffle" ELSE "map"), outcome' = outcome,
         pc = "read"
  PROVE  RInv'
<1> USE LinesAssumption
<1>1. 1 \in Columns
  BY DEF Columns
<1>2. DEFINE s == [i \in 1 .. n |-> i]
<1>3. s \in Seq(Nat) /\ Len(s) = n /\ DOMAIN s = 1 .. n
  BY DEF RInv, Shapes
<1>4. \A c \in Columns : table'[c] = s
  BY DEF FirstLines
<1>5. table' \in [Columns -> Seq(Nat)]
  BY <1>3 DEF FirstLines
<1>6. Elements(s) = 1 .. n
  BY <1>3 DEF Elements
<1> HIDE DEF s
<1>7. table'[1] = s /\ Rows' = n
  BY <1>1, <1>3, <1>4 DEF Rows
<1>8. \A i \in 1 .. n : s[i] = i
  BY DEF s
<1>9. Together'
  BY <1>1, <1>3, <1>4, <1>5, <1>6, <1>7, <1>8 DEF Together, Usable, Elements
<1>10. Shapes' /\ Configured' /\ InOrder' /\ ShuffledIfAsked'
  BY DEF RInv, Shapes, Configured, InOrder, ShuffledIfAsked, Configuration
<1> QED BY <1>9, <1>10 DEF RInv

LEMMA ReadStep == RInv /\ [Next]_vars => RInv'
<1> SUFFICES ASSUME RInv, [Next]_vars PROVE RInv'
  OBVIOUS
<1> USE LinesAssumption
<1>0. 1 \in Columns /\ Len(file) \in Nat
  BY DEF Columns, RInv, Shapes
<1>1. CASE ReadMessage
  <2>1. Shapes' /\ InOrder' /\ ShuffledIfAsked'
    BY <1>1 DEF ReadMessage, Fail, RInv, Shapes, InOrder, ShuffledIfAsked
  <2>2. pc' \in {"open", "done"} /\ outcome' \in Refusals \cup {"running"}
    <3>1. Refusal(message) \in Refusals
      BY MessagesAssumption, RefusalType DEF RInv, Shapes
    <3> QED BY <1>1, <3>1 DEF ReadMessage, Fail, RInv, Shapes
  <2>3. pc' = "open" => conf' = Configuration(message)
    BY <1>1 DEF ReadMessage, Fail
  <2>4. message' = message
    BY <1>1 DEF ReadMessage
  <2>5. Configured' /\ ~WasRead'
    BY <2>2, <2>3, <2>4 DEF Configured, WasRead, Refusals, Configuration
  <2> QED BY <2>1, <2>5 DEF RInv, Together
<1>2. CASE OpenSource
  <2>1. Shapes'
    <3>1. CASE source' = "good"
      <4>1. PICK n \in 0 .. MaxLines : file' \in [1 .. n -> Lines]
        BY <1>2, <3>1 DEF OpenSource
      <4>2. file' \in Seq(Lines) /\ Len(file') = n
        BY <4>1
      <4>3. message' = message /\ pos' = 0 /\ pc' = "read" /\ outcome' = outcome
        BY <1>2, <3>1 DEF OpenSource, RInv, InOrder
      <4>4. Len(file') <= MaxLines /\ pos' \in 0 .. Len(file')
        BY <4>2, <4>3
      <4> QED BY <1>2, <4>2, <4>3, <4>4 DEF OpenSource, RInv, Shapes
    <3>2. CASE source' # "good"
      BY <1>2, <3>2 DEF OpenSource, Fail, RInv, Shapes
    <3> QED BY <3>1, <3>2
  <2>2. InOrder' /\ ShuffledIfAsked'
    <3>1. pos' = 0 /\ table' = FirstLines(0) /\ pc' \in {"read", "done"}
      BY <1>2 DEF OpenSource, Fail, RInv, InOrder
    <3>2. \A l \in 1 .. pos' : Usable(l)'
      BY <3>1
    <3> QED BY <3>1, <3>2 DEF InOrder, ShuffledIfAsked, FirstLines
  <2>3. Configured' /\ ~WasRead'
    BY <1>2 DEF OpenSource, Fail, RInv, Shapes, Configured, WasRead, Configuration
  <2> QED BY <2>1, <2>2, <2>3 DEF RInv, Together
<1>3. CASE ReadLine
  <2> DEFINE line == file[pos + 1]
  <2>1. /\ pc = "read" /\ pos < Len(file) /\ pos \in Nat /\ pos' = pos + 1
        /\ UNCHANGED input
        /\ table = FirstLines(pos) /\ \A l \in 1 .. pos : Usable(l)
    BY <1>3 DEF ReadLine, RInv, Shapes, InOrder
  <2>2. line \in LineType
    BY <2>1 DEF RInv, Shapes
  <2>3. table' = [c \in Columns |-> IF c <= line.cells
                                    THEN Append(table[c], pos + 1) ELSE table[c]]
    BY <1>3, <2>1 DEF ReadLine
  <2>4. CASE line.spoilt # "no"
    <3>1. pc' = "done" /\ outcome' \notin {"running", "tested", "overrun"}
      BY <1>3, <2>2, <2>4 DEF ReadLine, Fail, LineType
    <3> QED BY <2>1, <3>1 DEF RInv, Shapes, Configured, InOrder, Together,
                              ShuffledIfAsked, WasRead, input
  <2>5. CASE line.spoilt = "no" /\ line.cells < NumColumns
    <3>1. ReadingDone(line.cells = 0 /\ table[1] # <<>>)
      BY <1>3, <2>5 DEF ReadLine
    <3>2. CASE line.cells = 0 /\ table[1] # <<>>
      <4>1. table' = FirstLines(pos)
        <5>1. \A c \in Columns : ~(c <= line.cells)
          BY <3>2 DEF Columns
        <5> QED BY <2>1, <2>3, <5>1 DEF FirstLines
      <4>2. /\ pc' = (IF conf.randomized THEN "shuffle" ELSE "map")
            /\ outcome' = outcome
        BY <3>1, <3>2 DEF ReadingDone
      <4>3. pos \in 0 .. Len(file) /\ pos' \in 0 .. Len(file)
        BY <1>0, <2>1
      <4>4. file' = file /\ conf' = conf /\ message' = message
        BY <2>1 DEF input
      <4>5. pos < Len(file) => file[pos + 1].cells = 0
        BY <3>2
      <4> QED BY <2>1, <4>1, <4>2, <4>3, <4>4, <4>5, ReadIsDone
    <3>3. CASE ~(line.cells = 0 /\ table[1] # <<>>)
      <4>1. pc' = "done" /\ outcome' = "runtime_error"
        BY <3>1, <3>3 DEF ReadingDone, Fail
      <4> QED BY <2>1, <4>1 DEF RInv, Shapes, Configured, InOrder, Together,
                                ShuffledIfAsked, WasRead, input
    <3> QED BY <3>2, <3>3
  <2>6. CASE line.spoilt = "no" /\ ~(line.cells < NumColumns)
    <3>1. UNCHANGED <<pc, outcome, swaps>>
      BY <1>3, <2>6 DEF ReadLine
    <3>2. table' = FirstLines(pos + 1)
      <4>1. \A c \in Columns : c <= line.cells
        BY <2>2, <2>6 DEF Columns, LineType
      <4>2. Append([i \in 1 .. pos |-> i], pos + 1) = [i \in 1 .. pos + 1 |-> i]
        <5>1. [i \in 1 .. pos |-> i] \in Seq(Nat) /\ Len([i \in 1 .. pos |-> i]) = pos
          BY <2>1
        <5> QED BY <2>1, <5>1
      <4>3. \A c \in Columns : table[c] = [i \in 1 .. pos |-> i]
        BY <2>1 DEF FirstLines
      <4> QED BY <2>3, <4>1, <4>2, <4>3 DEF FirstLines
    <3>3. \A l \in 1 .. pos + 1 : Usable(l)
      <4>1. Usable(pos + 1)
        BY <2>2, <2>6 DEF Usable, LineType
      <4> QED BY <2>1, <4>1
    <3> QED BY <1>0, <2>1, <3>1, <3>2, <3>3
        DEF RInv, Shapes, Configured, Configuration, InOrder, Together,
            ShuffledIfAsked, WasRead, input, Usable
  <2> QED BY <2>4, <2>5, <2>6
<1>4. CASE EndOfFile
  <2>1. /\ pc = "read" /\ pos = Len(file) /\ pos' = pos /\ table' = table
        /\ UNCHANGED input /\ ReadingDone(table[1] # <<>>)
        /\ table = FirstLines(pos) /\ \A l \in 1 .. pos : Usable(l)
    BY <1>4 DEF EndOfFile, RInv, Shapes, InOrder
  <2>2. CASE table[1] # <<>>
    <3>1. /\ pc' = (IF conf.randomized THEN "shuffle" ELSE "map")
          /\ outcome' = outcome
      BY <2>1, <2>2 DEF ReadingDone
    <3>2. file' = file /\ conf' = conf /\ message' = message
      BY <2>1 DEF input
    <3>3. pos \in 0 .. Len(file) /\ pos' \in 0 .. Len(file) /\ ~(pos < Len(file))
      BY <1>0, <2>1
    <3> QED BY <2>1, <3>1, <3>2, <3>3, ReadIsDone
  <2>3. CASE ~(table[1] # <<>>)
    <3>1. pc' = "done" /\ outcome' = "runtime_error"
      BY <2>1, <2>3 DEF ReadingDone, Fail
    <3> QED BY <2>1, <3>1 DEF RInv, Shapes, Configured, InOrder, Together,
                              ShuffledIfAsked, WasRead, input
  <2> QED BY <2>2, <2>3
<1>5. CASE SwapRows
  <2>1. /\ pc = "shuffle" /\ conf.randomized
        /\ UNCHANGED <<input, pc, pos, outcome>>
        /\ WasRead
    BY <1>5 DEF SwapRows, RInv, ShuffledIfAsked, WasRead
  <2>2. PICK i, j \in 1 .. Rows :
          table' = [c \in Columns |->
                      [table[c] EXCEPT ![i] = table[c][j], ![j] = table[c][i]]]
    BY <1>5 DEF SwapRows
  <2>3. /\ table \in [Columns -> Seq(Nat)]
        /\ \A c \in Columns : table[c] = table[1]
        /\ Elements(table[1]) = 1 .. Rows
        /\ Rows <= Len(file)
        /\ \A l \in 1 .. Rows : Usable(l)
        /\ Rows < Len(file) => file[Rows + 1].cells = 0
    BY <2>1 DEF RInv, Together
  <2> DEFINE t == [table[1] EXCEPT ![i] = table[1][j], ![j] = table[1][i]]
  <2>4. table[1] \in Seq(Nat)
    BY <1>0, <2>3
  <2>5. t \in Seq(Nat) /\ Len(t) = Rows /\ Elements(t) = 1 .. Rows
    <3>1. Len(table[1]) = Rows /\ i \in 1 .. Len(table[1]) /\ j \in 1 .. Len(table[1])
      BY <2>4 DEF Rows
    <3> QED BY ONLY <2>3, <2>4, <3>1, SwapKeepsElements DEF t
  <2>6. \A c \in Columns : table'[c] = t
    BY <2>2, <2>3
  <2>7. DOMAIN table' = Columns
    BY <2>2
  <2>8. table' = [c \in Columns |-> t]
    BY <2>2, <2>3
  <2> HIDE DEF t
  <2>9. table'[1] = t /\ Rows' = Rows
    BY <1>0, <2>5, <2>6 DEF Rows
  <2>10. file' = file /\ conf' = conf /\ message' = message
    BY <2>1 DEF input
  <2>11. Together'
    <3>1. table' \in [Columns -> Seq(Nat)]
      BY <2>5, <2>8
    <3>2. Elements(table'[1]) = 1 .. Rows'
      BY <2>5, <2>9
    <3>3. \A c \in Columns : table'[c] = table'[1]
      BY <2>6, <2>9
    <3>4. Rows' <= Len(file')
      BY <2>3, <2>9, <2>10
    <3>5. \A l \in 1 .. Rows' : Usable(l)'
      BY <2>3, <2>9, <2>10 DEF Usable
    <3>6. Rows' < Len(file') => file'[Rows' + 1].cells = 0
      BY <2>3, <2>9, <2>10
    <3>7. conf'.randomized
      BY <2>1, <2>10
    <3> QED BY <3>1, <3>2, <3>3, <3>4, <3>5, <3>6, <3>7 DEF Together, Elements
  <2> QED BY <2>1, <2>10, <2>11
      DEF RInv, Shapes, Configured, Configuration, InOrder, ShuffledIfAsked
<1>6. CASE Shuffled \/ MakeTable \/ Train
  <2>1. /\ UNCHANGED <<input, pos, table, outcome>>
        /\ pc \in {"shuffle", "map", "train"}
        /\ pc' \in {"map", "train", "test"}
    BY <1>6 DEF Shuffled, MakeTable, Train
  <2> QED BY <2>1 DEF RInv, Shapes, Configured, Configuration, InOrder, Together,
                      ShuffledIfAsked, WasRead, input, Rows, Usable, Elements
<1>7. CASE Test
  <2>1. /\ UNCHANGED <<input, pos, table>>
        /\ pc = "test" /\ pc' = "done"
    BY <1>7 DEF Test
  <2> QED BY <2>1 DEF RInv, Shapes, Configured, Configuration, InOrder, Together,
                      ShuffledIfAsked, WasRead, input, Rows, Usable, Elements
<1>8. CASE Ended \/ UNCHANGED vars
  BY <1>8 DEF Ended, vars, RInv, Shapes, Configured, Configuration, InOrder, Together,
              ShuffledIfAsked, WasRead, Rows, Usable, Elements
<1> QED BY <1>1, <1>2, <1>3, <1>4, <1>5, <1>6, <1>7, <1>8 DEF Next

\* In every state, what the invariant says of a file that is being read, was read
\* and is used (row_data_input.cpp, read_entries and shuffle).
THEOREM ReadInvariance == Spec => []RInv
BY ReadInit, ReadStep, PTL DEF Spec

LEMMA ReadAsAsked == RInv => RowsStayTogether
<1> SUFFICES ASSUME RInv, WasRead PROVE RowsStayTogether
  BY DEF RowsStayTogether, WasRead
<1>1. conf = Configuration(message)
  BY DEF RInv, Configured, WasRead
<1>2. ~message.randomized => ~conf.randomized
  BY <1>1 DEF Configuration
<1> QED BY <1>2 DEF RInv, Together, RowsStayTogether

\* RowsStayTogether holds for any number of columns, any lines and messages
\* (row_data_input.cpp, read_entries and shuffle).
THEOREM RowsAreOfOneLine == Spec => []RowsStayTogether
BY ReadInvariance, ReadAsAsked, PTL

(***************************************************************************)
(* How many rows are copied.                                                *)
(***************************************************************************)

LEMMA ModSmall ==
  ASSUME NEW x \in Nat, NEW w \in Nat, x < w
  PROVE  x % w = x
OBVIOUS

LEMMA ModType ==
  ASSUME NEW x \in Int, NEW w \in Nat \ {0}
  PROVE  x % w \in 0 .. w - 1
OBVIOUS

\* With at most 100 percent to be kept, the file is split at a row that is there,
\* and the two parts are all of it (split_rows.cpp).
LEMMA SplitInside ==
  ASSUME NEW kept \in 0 .. 100, NEW size \in 0 .. MaxLines
  PROVE  LET at == SpliterAt(kept, size)
         IN  /\ at \in 0 .. size
             /\ SpliterNegate(kept, size) = size - at
             /\ 100 * at <= (100 - kept) * size
             /\ (100 - kept) * size < 100 * (at + 1)
<1> USE LinesAssumption, SplitAssumption
<1> DEFINE p == 100 - kept
           x == size * p
           a == x \div 100
<1>1. p \in 0 .. 100 /\ p < Wrap /\ size < Wrap
  OBVIOUS
<1>2. p % Wrap = p
  BY <1>1, ModSmall
<1>3. x \in Nat /\ x <= size * 100 /\ x = (100 - kept) * size
  OBVIOUS
<1> HIDE DEF x, p
<1>4. a \in 0 .. size /\ 100 * a <= x /\ x < 100 * (a + 1)
  BY <1>3
<1> HIDE DEF a
<1>5. a % Wrap = a
  BY <1>1, <1>4, ModSmall
<1>6. SpliterAt(kept, size) = a
  BY <1>2, <1>5 DEF SpliterAt, a, x, p
<1>7. (size - a) % Wrap = size - a
  BY <1>1, <1>4, ModSmall
<1>8. SpliterNegate(kept, size) = size - a
  BY <1>6, <1>7 DEF SpliterNegate
<1> QED BY <1>3, <1>4, <1>6, <1>8

\* Wherever the file is split, the labels of a window that fits are as many as
\* its rows: both are cut, in unsigned arithmetic, in a different order
\* (row_data_input.cpp, data_matrix and prepare4labels_copy).
LEMMA WindowsFit ==
  ASSUME Rows \in 0 .. MaxLines, NEW split \in Int
  PROVE  LET off == SpliterAt(split, Rows)
             n == SpliterNegate(split, Rows)
         IN  /\ off \in Nat
             /\ MatrixRows(off, 0) \in 0 .. Rows
             /\ LabelRows(off, 0) = MatrixRows(off, 0)
             /\ MatrixRows(n, off) \in Nat
             /\ Fits(n, off) /\ ~NoRows =>
                  /\ off + MatrixRows(n, off) <= Rows
                  /\ LabelRows(n, off) = MatrixRows(n, off)
<1> USE LinesAssumption, SplitAssumption
<1> DEFINE off == SpliterAt(split, Rows)
           n == SpliterNegate(split, Rows)
<1>1. Wrap \in Nat \ {0} /\ Rows < Wrap /\ Rows \in Nat
  OBVIOUS
<1>2. off \in 0 .. Wrap - 1
  <2> DEFINE p == (100 - split) % Wrap
             a == (Rows * p) \div 100
  <2>1. p \in Int
    BY <1>1, ModType
  <2> HIDE DEF p
  <2>2. a \in Int
    BY <1>1, <2>1
  <2> HIDE DEF a
  <2>3. a % Wrap \in 0 .. Wrap - 1
    BY <1>1, <2>2, ModType
  <2> QED BY <2>3 DEF SpliterAt, a, p
<1>3. n = (Rows - off) % Wrap
  BY DEF SpliterNegate
<1> HIDE DEF off
<1>4. n \in 0 .. Wrap - 1
  BY <1>1, <1>2, <1>3, ModType
<1> HIDE DEF n
<1>5. Smaller(off, Rows) \in 0 .. Rows /\ Smaller(off, Rows) < Wrap
  BY <1>1, <1>2 DEF Smaller
<1>6. MatrixRows(off, 0) = Smaller(off, Rows)
  <2>1. (Smaller(off, Rows) + 0) % Wrap = Smaller(off, Rows)
    BY <1>5, ModSmall
  <2> QED BY <1>5, <2>1 DEF MatrixRows, Clipped
<1>7. LabelRows(off, 0) = Smaller(off, Rows)
  <2>1. (off + 0) % Wrap = off
    BY <1>1, <1>2, ModSmall
  <2>2. off > Rows => (off - (off - Rows)) % Wrap = Rows
    BY <1>1, <1>2, ModSmall
  <2> QED BY <1>1, <1>2, <2>1, <2>2 DEF LabelRows, Clipped, Smaller
<1>8. MatrixRows(n, off) \in Nat
  <2> DEFINE m == Smaller(n, Rows)
             e == (m + off) % Wrap
             l == (m - (e - Rows)) % Wrap
  <2>1. m \in Nat
    BY <1>1, <1>4 DEF Smaller
  <2> HIDE DEF m
  <2>2. e \in Int
    BY <1>1, <1>2, <2>1, ModType
  <2> HIDE DEF e
  <2>3. l \in Nat
    BY <1>1, <2>1, <2>2, ModType
  <2> QED BY <2>1, <2>3 DEF MatrixRows, Clipped, m, e, l
<1>9. ASSUME Fits(n, off), ~NoRows
      PROVE  /\ off + MatrixRows(n, off) <= Rows
             /\ LabelRows(n, off) = MatrixRows(n, off)
  <2>1. off + MatrixRows(n, off) <= Rows
    BY <1>9 DEF Fits
  <2>2. off <= Rows
    BY <1>1, <1>2, <1>8, <2>1
  <2>3. n = Rows - off
    BY <1>1, <1>2, <1>3, <2>2, ModSmall
  <2>4. (n + off) % Wrap = Rows
    BY <1>1, <1>2, <2>3, ModSmall
  <2>5. Smaller(n, Rows) = n
    BY <1>1, <1>2, <2>3 DEF Smaller
  <2>6. MatrixRows(n, off) = n /\ LabelRows(n, off) = n
    BY <1>1, <2>4, <2>5 DEF MatrixRows, LabelRows, Clipped
  <2> QED BY <2>1, <2>6
<1> QED BY <1>2, <1>5, <1>6, <1>7, <1>8, <1>9 DEF off, n

(***************************************************************************)
(* The numbers of the classes.                                              *)
(***************************************************************************)

\* The values vs are numbered from 0, each with a number of its own.
Numbering(tbl, vs) ==
  /\ IsFiniteSet(vs)
  /\ DOMAIN tbl = vs
  /\ \A v \in vs : tbl[v] \in 0 .. Cardinality(vs) - 1
  /\ \A v, w \in vs : tbl[v] = tbl[w] => v = w
  /\ \A m \in 0 .. Cardinality(vs) - 1 : \E v \in vs : tbl[v] = m

\* One more value, new or not, leaves the numbers without a gap
\* (dc_lookup_table.cpp, table::insert).
LEMMA InsertNumbers ==
  ASSUME NEW tbl, NEW vs, NEW v, Numbering(tbl, vs)
  PROVE  Numbering(Insert(tbl, v), vs \cup {v})
<1> DEFINE new == Insert(tbl, v)
<1>1. IsFiniteSet(vs) /\ DOMAIN tbl = vs /\ Cardinality(vs) \in Nat
  BY FS_CardinalityType DEF Numbering
<1>2. IsFiniteSet(vs \cup {v})
  BY <1>1, FS_AddElement
<1>3. DOMAIN new = vs \cup {v}
  BY <1>1 DEF Insert
<1>4. \A w \in vs : new[w] = tbl[w]
  BY <1>1 DEF Insert
<1>5. CASE v \in vs
  <2>1. vs \cup {v} = vs
    BY <1>5
  <2> HIDE DEF new
  <2>2. Numbering(new, vs \cup {v})
    BY <1>1, <1>3, <1>4, <2>1 DEF Numbering
  <2> QED BY <2>2 DEF new
<1>6. CASE v \notin vs
  <2>1. Cardinality(vs \cup {v}) = Cardinality(vs) + 1
    BY <1>1, <1>6, FS_AddElement
  <2>2. new[v] = Cardinality(vs)
    BY <1>1, <1>6 DEF Insert
  <2> HIDE DEF new
  <2> DEFINE n == Cardinality(vs)
             all == vs \cup {v}
  <2>3. \A w \in all : new[w] \in 0 .. n
    BY <1>1, <1>4, <2>2 DEF Numbering
  <2>4. \A w, u \in all : new[w] = new[u] => w = u
    BY <1>1, <1>4, <2>2 DEF Numbering
  <2>5. \A m \in 0 .. n : \E w \in all : new[w] = m
    <3> TAKE m \in 0 .. n
    <3>1. CASE m = n
      BY <2>2, <3>1
    <3>2. CASE m \in 0 .. n - 1
      BY <1>4, <3>2 DEF Numbering
    <3> QED BY <1>1, <3>1, <3>2
  <2>6. Cardinality(all) - 1 = n
    BY <1>1, <2>1
  <2>7. Numbering(new, all)
    BY <1>2, <1>3, <2>3, <2>4, <2>5, <2>6 DEF Numbering
  <2> QED BY <2>7 DEF new
<1> QED BY <1>5, <1>6

\* The numbers of the values of a whole column (mapvalues_task.cpp, make_table).
LEMMA ColumnIsNumbered ==
  ASSUME NEW length \in Nat, NEW values, DOMAIN values = 1 .. length, Len(values) = length
  PROVE  Numbering(Numbered(values), {values[i] : i \in 1 .. length})
<1> DEFINE Entry(f, n) == IF n = 0 THEN NoCodes ELSE Insert(f[n - 1], values[n])
           Fills(f, m) == f = [n \in 0 .. m |-> Entry(f, n)]
           S == {m \in Nat : \E f : Fills(f, m)}
           entries == CHOOSE f : Fills(f, length)
           Seen(m) == {values[i] : i \in 1 .. m}
           T == {m \in Nat : m <= length => Numbering(entries[m], Seen(m))}
<1>1. \E f : Fills(f, 0)
  <2> DEFINE f0 == [n \in 0 .. 0 |-> NoCodes]
  <2>1. Fills(f0, 0)
    OBVIOUS
  <2> QED BY <2>1
<1>2. ASSUME NEW m \in Nat, NEW f, Fills(f, m)
      PROVE  \E g : Fills(g, m + 1)
  <2> DEFINE g == [n \in 0 .. m + 1 |-> IF n <= m THEN f[n] ELSE Entry(f, n)]
  <2>1. ASSUME NEW n \in 0 .. m + 1 PROVE g[n] = Entry(g, n)
    <3>1. CASE n \in 0 .. m
      <4>1. g[n] = f[n] /\ (n # 0 => g[n - 1] = f[n - 1])
        BY <3>1
      <4>2. f[n] = Entry(f, n)
        BY <1>2, <3>1
      <4> QED BY <4>1, <4>2
    <3>2. CASE n = m + 1
      <4>1. g[n] = Entry(f, n) /\ g[n - 1] = f[n - 1]
        BY <3>2
      <4> QED BY <4>1
    <3> QED BY <3>1, <3>2
  <2>2. Fills(g, m + 1)
    <3> HIDE DEF Entry
    <3> QED BY <2>1
  <2> QED BY <2>2
<1>3. \E f : Fills(f, length)
  <2> HIDE DEF Fills
  <2>1. 0 \in S /\ \A m \in Nat : m \in S => m + 1 \in S
    BY <1>1, <1>2
  <2>2. Nat \subseteq S
    <3> HIDE DEF S
    <3> QED BY <2>1, SetInduction
  <2> QED BY <2>2
<1>4. Fills(entries, length)
  <2> HIDE DEF Fills
  <2> QED BY <1>3
<1>5. Numbered(values) = entries[length]
  BY DEF Numbered
<1> HIDE DEF entries
<1>6. \A n \in 0 .. length : entries[n] = Entry(entries, n)
  BY <1>4
<1>7. 0 \in T
  <2>1. entries[0] = NoCodes
    BY <1>6
  <2>2. Seen(0) = {}
    OBVIOUS
  <2>3. IsFiniteSet({}) /\ Cardinality({}) = 0
    BY FS_EmptySet
  <2>4. DOMAIN NoCodes = {}
    BY DEF NoCodes
  <2>5. Numbering(NoCodes, {})
    BY <2>3, <2>4 DEF Numbering
  <2> QED BY <2>1, <2>2, <2>5
<1>8. ASSUME NEW m \in Nat, m \in T PROVE m + 1 \in T
  <2> SUFFICES ASSUME m + 1 <= length
               PROVE  Numbering(entries[m + 1], Seen(m + 1))
    OBVIOUS
  <2>1. entries[m + 1] = Insert(entries[m], values[m + 1])
    BY <1>6
  <2>2. Numbering(entries[m], Seen(m))
    BY <1>8
  <2>3. Seen(m + 1) = Seen(m) \cup {values[m + 1]}
    OBVIOUS
  <2> HIDE DEF Seen
  <2> QED BY <2>1, <2>2, <2>3, InsertNumbers
<1>9. Nat \subseteq T
  <2> HIDE DEF T
  <2> QED BY <1>7, <1>8, SetInduction
<1>10. Numbering(entries[length], Seen(length))
  <2>1. length \in T
    <3> HIDE DEF T
    <3> QED BY <1>9
  <2> QED BY <2>1
<1> QED BY <1>5, <1>10

(***************************************************************************)
(* What is learned from and what is tested on.                              *)
(***************************************************************************)

\* What is learned from and tested on: so many rows, from that row on.
Learned == IF NoRows THEN 0 ELSE MatrixRows(SpliterAt(conf.split, Rows), 0)
Kept == IF NoRows THEN 0
        ELSE MatrixRows(SpliterNegate(conf.split, Rows), SpliterAt(conf.split, Rows))

LabelOf(row) ==
  IF conf.classifier THEN codes[label[row]] ELSE label[row]

\* n rows were copied, from the one behind off on, and their labels.
Copied(samples, n, off) ==
  /\ n \in Nat /\ off \in Nat
  /\ n = 0 \/ off + n <= Rows
  /\ samples.rows \in Seq(Nat) /\ Len(samples.rows) = n
  /\ \A k \in 1 .. n : samples.rows[k] = table[1][off + k]
  /\ conf.labelled =>
       /\ Len(samples.labels) = n
       /\ \A k \in 1 .. n : samples.labels[k] = LabelOf(table[1][off + k])

Coded ==
  /\ \A k \in 1 .. Rows : label[table[1][k]] \in DOMAIN codes
  /\ Numbering(codes, DOMAIN codes)

WInv ==
  /\ pc \in {"train", "test"} \/ outcome = "tested" =>
       (conf.labelled /\ conf.classifier => Coded)
  /\ pc = "test" \/ outcome = "tested" => Copied(train, Learned, 0)
  /\ outcome = "tested" => Copied(test, Kept, SpliterAt(conf.split, Rows))

\* A window that is inside of the columns is copied with the labels of its rows.
LEMMA WindowIsCopied ==
  ASSUME RInv, WasRead, conf.labelled /\ conf.classifier => Coded,
         NEW n, NEW off \in Nat,
         ~NoRows => /\ MatrixRows(n, off) \in Nat
                    /\ off + MatrixRows(n, off) <= Rows
                    /\ LabelRows(n, off) = MatrixRows(n, off)
  PROVE  Copied(Samples(n, off), IF NoRows THEN 0 ELSE MatrixRows(n, off), off)
<1> USE LinesAssumption
<1>1. CASE NoRows
  BY <1>1 DEF Copied, Samples, NoSamples
<1>2. CASE ~NoRows
  <2> DEFINE m == MatrixRows(n, off)
             s == Samples(n, off)
  <2>1. m \in Nat /\ off + m <= Rows /\ LabelRows(n, off) = m
    BY <1>2
  <2>2. s = [rows |-> Window(m, off), labels |-> Transform(Labels(n, off))]
    BY <1>2 DEF Samples
  <2>3. Rows \in Nat /\ 1 \in Columns /\ NumColumns \in Columns
    BY DEF RInv, Together, Rows, Columns
  <2> HIDE DEF m
  <2>4. /\ s.rows \in Seq(Nat) /\ Len(s.rows) = m
        /\ \A k \in 1 .. m : s.rows[k] = table[1][off + k]
    <3>1. s.rows = [k \in 1 .. m |-> table[1][off + k]]
      BY <2>2 DEF Window
    <3>2. table[1] \in Seq(Nat) /\ Len(table[1]) = Rows
      BY <2>3 DEF RInv, Together, Rows
    <3>3. \A k \in 1 .. m : table[1][off + k] \in Nat
      <4> TAKE k \in 1 .. m
      <4>1. off + k \in 1 .. Rows
        BY <2>1, <2>3
      <4> QED BY <3>2, <4>1
    <3> QED BY <2>1, <3>1, <3>3
  <2>5. ASSUME conf.labelled
        PROVE  /\ Len(s.labels) = m
               /\ \A k \in 1 .. m : s.labels[k] = LabelOf(table[1][off + k])
    <3> DEFINE values == [k \in 1 .. m |-> label[table[NumColumns][off + k]]]
    <3>1. Labels(n, off) = values
      BY <2>1, <2>5 DEF Labels
    <3>2. \A k \in 1 .. m : values[k] = label[table[1][off + k]]
      BY <2>3 DEF RInv, Together
    <3>3. DOMAIN values = 1 .. m /\ Len(values) = m
      BY <2>1
    <3>4. s.labels = Transform(values)
      BY <2>2, <3>1
    <3> HIDE DEF values
    <3>5. CASE conf.classifier
      <4>1. \A k \in 1 .. m : values[k] \in DOMAIN codes
        <5> TAKE k \in 1 .. m
        <5>1. off + k \in 1 .. Rows
          BY <2>1, <2>3
        <5> QED BY <2>5, <3>2, <3>5, <5>1 DEF Coded
      <4>2. s.labels = [k \in 1 .. m |-> codes[values[k]]]
        BY <3>3, <3>4, <3>5, <4>1 DEF Transform
      <4> QED BY <2>1, <3>2, <3>5, <4>2 DEF LabelOf
    <3>6. CASE ~conf.classifier
      BY <2>1, <3>2, <3>3, <3>4, <3>6 DEF Transform, LabelOf
    <3> QED BY <3>5, <3>6
  <2> HIDE DEF s
  <2>6. Copied(s, m, off)
    BY <2>1, <2>4, <2>5 DEF Copied
  <2> QED BY <1>2, <2>6 DEF s, m
<1> QED BY <1>1, <1>2

\* What the two lemmas on windows need of a file that was read.
LEMMA ReadSizes ==
  ASSUME RInv, WasRead
  PROVE  Rows \in 0 .. MaxLines /\ conf.split \in Int
<1>1. Len(file) \in Nat /\ Rows \in Nat
  BY LinesAssumption DEF RInv, Shapes, Together, Rows, Columns
<1>2. Rows \in 0 .. MaxLines
  BY <1>1, LinesAssumption DEF RInv, Shapes, Together
<1>3. conf = Configuration(message) /\ message \in MessageType
  BY MessagesAssumption DEF RInv, Shapes, Configured, WasRead
<1>4. conf.split \in Int
  <2>1. message.arg \in Splits \cup {Unread}
    BY <1>3 DEF MessageType
  <2>2. conf.split = IF message.arg = Unread THEN 0 ELSE message.arg
    BY <1>3 DEF Configuration
  <2>3. \A split \in Splits : split \in Int
    BY UnreadAssumption
  <2> QED BY <2>1, <2>2, <2>3
<1> QED BY <1>2, <1>4

\* What the windows depend on.
LEMMA WindowsUnchanged ==
  ASSUME UNCHANGED <<input, table, codes>>
  PROVE  /\ Rows' = Rows /\ conf' = conf /\ table' = table
         /\ Learned' = Learned /\ Kept' = Kept
         /\ SpliterAt(conf.split, Rows)' = SpliterAt(conf.split, Rows)
         /\ \A row : LabelOf(row)' = LabelOf(row)
         /\ Coded' <=> Coded
<1>1. Rows' = Rows /\ conf' = conf /\ table' = table /\ label' = label /\ codes' = codes
  BY DEF input, Rows
<1>2. SpliterAt(conf.split, Rows)' = SpliterAt(conf.split, Rows)
  BY <1>1 DEF SpliterAt
<1>3. SpliterNegate(conf.split, Rows)' = SpliterNegate(conf.split, Rows)
  BY <1>1, <1>2 DEF SpliterNegate
<1>4. ASSUME NEW n, NEW off PROVE MatrixRows(n, off)' = MatrixRows(n, off)
  BY <1>1 DEF MatrixRows, Clipped, Smaller
<1>5. Learned' = Learned /\ Kept' = Kept
  BY <1>1, <1>2, <1>3, <1>4 DEF Learned, Kept, NoRows, MatrixRows, Clipped, Smaller
<1>6. \A row : LabelOf(row)' = LabelOf(row)
  BY <1>1 DEF LabelOf
<1>7. Coded' <=> Coded
  BY <1>1 DEF Coded, Numbering
<1> QED BY <1>1, <1>2, <1>5, <1>6, <1>7

LEMMA SamplesInit == Init => WInv
BY DEF Init, WInv

LEMMA SamplesStep == RInv /\ WInv /\ [Next]_vars => WInv'
<1> SUFFICES ASSUME RInv, WInv, [Next]_vars PROVE WInv'
  OBVIOUS
<1> USE LinesAssumption
<1>1. CASE ReadMessage
  <2>1. Refusal(message) \in Refusals
    BY MessagesAssumption, RefusalType DEF RInv, Shapes
  <2>2. pc' \in {"open", "done"} /\ outcome' \in Refusals \cup {"running"}
    BY <1>1, <2>1 DEF ReadMessage, Fail, RInv, Shapes
  <2> QED BY <2>2 DEF WInv, Refusals
<1>2. CASE OpenSource
  <2>1. pc' \in {"read", "done"} /\ outcome' # "tested"
    BY <1>2 DEF OpenSource, Fail, RInv, Shapes
  <2> QED BY <2>1 DEF WInv
<1>3. CASE ReadLine \/ EndOfFile
  <2>1. outcome = "running" /\ pc = "read"
    BY <1>3 DEF ReadLine, EndOfFile, RInv, Shapes
  <2>2. pc' \in {"read", "shuffle", "map", "done"} /\ outcome' # "tested"
    BY <1>3, <2>1 DEF ReadLine, EndOfFile, ReadingDone, Fail
  <2> QED BY <2>2 DEF WInv
<1>4. CASE SwapRows \/ Shuffled
  <2>1. pc' \in {"shuffle", "map"} /\ outcome' # "tested"
    BY <1>4 DEF SwapRows, Shuffled, RInv, Shapes
  <2> QED BY <2>1 DEF WInv
<1>5. CASE MakeTable
  <2>1. /\ pc = "map" /\ pc' = "train" /\ outcome' = "running"
        /\ UNCHANGED <<input, table>> /\ WasRead
        /\ codes' = IF conf.classifier THEN Numbered(Labels(Rows, 0)) ELSE codes
    BY <1>5 DEF MakeTable, RInv, Shapes, WasRead
  <2>2. ASSUME conf.labelled, conf.classifier PROVE Coded'
    <3> DEFINE values == Labels(Rows, 0)
               length == Rows
    <3>1. Rows \in Nat /\ Rows < Wrap /\ NumColumns \in Columns
      BY <2>1, ReadSizes, SplitAssumption DEF Columns
    <3>2. LabelRows(Rows, 0) = Rows
      <4>1. (Rows + 0) % Wrap = Rows
        BY <3>1, ModSmall, SplitAssumption
      <4> QED BY <3>1, <4>1 DEF LabelRows, Clipped, Smaller
    <3>3. table[NumColumns] = table[1]
      BY <2>1, <3>1 DEF RInv, Together
    <3>4. values = [k \in 1 .. Rows |-> label[table[1][0 + k]]]
      BY <2>2, <3>2, <3>3 DEF Labels
    <3> HIDE DEF values
    <3>5. /\ DOMAIN values = 1 .. length /\ Len(values) = length
          /\ \A k \in 1 .. Rows : values[k] = label[table[1][k]]
      BY <3>1, <3>4
    <3>6. Numbering(codes', {values[k] : k \in 1 .. length})
      <4>1. codes' = Numbered(values)
        BY <2>1, <2>2 DEF values
      <4>2. length \in Nat
        BY <3>1
      <4> HIDE DEF length
      <4> QED BY <3>5, <4>1, <4>2, ColumnIsNumbered
    <3>7. DOMAIN codes' = {values[k] : k \in 1 .. length}
      BY <3>6 DEF Numbering
    <3>8. Rows' = Rows /\ table' = table /\ label' = label
      BY <2>1 DEF Rows, input
    <3>9. Numbering(codes', DOMAIN codes')
      BY <3>6, <3>7
    <3>10. \A k \in 1 .. Rows : label[table[1][k]] \in DOMAIN codes'
      BY <3>5, <3>7
    <3>11. Numbering(codes, DOMAIN codes)'
      BY <3>9 DEF Numbering
    <3> QED BY <3>8, <3>10, <3>11 DEF Coded
  <2> QED BY <2>1, <2>2 DEF WInv, input
<1>6. CASE Train
  <2> DEFINE n == SpliterAt(conf.split, Rows)
  <2>1. /\ pc = "train" /\ pc' = "test" /\ outcome' = "running"
        /\ UNCHANGED <<input, table, codes, test>> /\ WasRead
        /\ train' = Samples(n, 0)
    BY <1>6 DEF Train, RInv, Shapes, WasRead
  <2>2. Rows \in 0 .. MaxLines /\ conf.split \in Int
    BY <2>1, ReadSizes
  <2>3. conf.labelled /\ conf.classifier => Coded
    BY <2>1 DEF WInv
  <2>4. /\ MatrixRows(n, 0) \in 0 .. Rows
        /\ LabelRows(n, 0) = MatrixRows(n, 0)
    BY <2>2, WindowsFit
  <2>5. MatrixRows(n, 0) \in Nat /\ 0 + MatrixRows(n, 0) <= Rows
    BY <2>2, <2>4
  <2>6. Copied(Samples(n, 0), IF NoRows THEN 0 ELSE MatrixRows(n, 0), 0)
    <3> HIDE DEF n
    <3> QED BY <2>1, <2>3, <2>4, <2>5, WindowIsCopied
  <2>7. Copied(train', Learned, 0)
    BY <2>1, <2>6 DEF Learned
  <2>8. Copied(train, Learned, 0)'
    BY <2>1, <2>7, WindowsUnchanged DEF Copied
  <2>9. (conf.labelled /\ conf.classifier => Coded)'
    BY <2>1, <2>3, WindowsUnchanged
  <2> QED BY <2>1, <2>8, <2>9 DEF WInv
<1>7. CASE Test
  <2> DEFINE n == SpliterNegate(conf.split, Rows)
             off == SpliterAt(conf.split, Rows)
  <2>1. /\ pc = "test" /\ pc' = "done"
        /\ UNCHANGED <<input, table, codes, train>> /\ WasRead
        /\ outcome' = IF Fits(n, off) THEN "tested" ELSE "overrun"
        /\ test' = IF Fits(n, off) THEN Samples(n, off) ELSE test
    BY <1>7 DEF Test, RInv, Shapes, WasRead
  <2> SUFFICES ASSUME Fits(n, off) PROVE WInv'
    BY <2>1 DEF WInv
  <2>2. Rows \in 0 .. MaxLines /\ conf.split \in Int
    BY <2>1, ReadSizes
  <2>3. (conf.labelled /\ conf.classifier => Coded) /\ Copied(train, Learned, 0)
    BY <2>1 DEF WInv
  <2>4. /\ off \in Nat
        /\ ~NoRows => /\ MatrixRows(n, off) \in Nat
                      /\ off + MatrixRows(n, off) <= Rows
                      /\ LabelRows(n, off) = MatrixRows(n, off)
    BY <2>2, WindowsFit
  <2>5. Copied(Samples(n, off), IF NoRows THEN 0 ELSE MatrixRows(n, off), off)
    <3> HIDE DEF n, off
    <3> QED BY <2>1, <2>3, <2>4, WindowIsCopied
  <2>6. Copied(test', Kept, off)
    BY <2>1, <2>5 DEF Kept
  <2>7. Copied(test, Kept, SpliterAt(conf.split, Rows))'
    BY <2>1, <2>6, WindowsUnchanged DEF Copied
  <2>8. Copied(train, Learned, 0)'
    BY <2>1, <2>3, WindowsUnchanged DEF Copied
  <2>9. (conf.labelled /\ conf.classifier => Coded)'
    BY <2>1, <2>3, WindowsUnchanged
  <2> QED BY <2>1, <2>7, <2>8, <2>9 DEF WInv
<1>8. CASE Ended \/ UNCHANGED vars
  <2>1. UNCHANGED <<input, table, codes, pc, train, test, outcome>>
    BY <1>8 DEF Ended, vars, input
  <2> QED BY <2>1, WindowsUnchanged DEF WInv, Copied
<1> QED BY <1>1, <1>2, <1>3, <1>4, <1>5, <1>6, <1>7, <1>8 DEF Next

\* In every state, what was copied for the model so far are the windows of rows that
\* the percentage calls for, with their labels (training_input_task.cpp,
\* testing_input_task.cpp).
THEOREM SamplesInvariance == Spec => [](RInv /\ WInv)
<1>1. RInv /\ WInv /\ [Next]_vars => (RInv /\ WInv)'
  BY ReadStep, SamplesStep
<1> QED BY ReadInit, SamplesInit, <1>1, PTL DEF Spec

\* A sequence is its first places and those after them.
LEMMA PartsOfSequence ==
  ASSUME NEW s \in Seq(Nat), NEW t \in Seq(Nat), NEW u \in Seq(Nat),
         Len(u) = Len(s) + Len(t),
         \A k \in 1 .. Len(s) : s[k] = u[k],
         \A k \in 1 .. Len(t) : t[k] = u[Len(s) + k]
  PROVE  s \o t = u
<1>1. s \o t \in Seq(Nat) /\ Len(s \o t) = Len(u)
  OBVIOUS
<1>2. ASSUME NEW k \in 1 .. Len(u) PROVE (s \o t)[k] = u[k]
  <2>1. CASE k <= Len(s)
    BY <2>1
  <2>2. CASE k > Len(s)
    <3>1. k - Len(s) \in 1 .. Len(t) /\ k = Len(s) + (k - Len(s))
      BY <2>2
    <3>2. (s \o t)[k] = t[k - Len(s)]
      BY <1>1, <2>2
    <3> QED BY <3>1, <3>2
  <2> QED BY <2>1, <2>2
<1> QED BY <1>1, <1>2

LEMMA SharesAreAsAsked == RInv /\ WInv => LearnedOrTested
<1> DEFINE kept == IF message.arg = Unread THEN 0 ELSE message.arg
<1> SUFFICES ASSUME RInv, WInv, outcome = "tested", message.validation = "precent",
                    kept <= 100
             PROVE  /\ train.rows \o test.rows = table[1]
                    /\ 100 * Len(train.rows) <= (100 - kept) * Rows
                    /\ (100 - kept) * Rows < 100 * (Len(train.rows) + 1)
  BY DEF LearnedOrTested
<1>1. WasRead
  BY DEF WasRead
<1>2. Rows \in 0 .. MaxLines
  BY <1>1, ReadSizes
<1>3. conf.split = kept /\ ~NoRows
  BY <1>1 DEF RInv, Configured, WasRead, Configuration, NoRows
<1>4. kept \in 0 .. 100
  <2>1. message \in MessageType
    BY MessagesAssumption DEF RInv, Shapes
  <2>2. message.arg \in Splits \cup {Unread}
    BY <2>1 DEF MessageType
  <2>3. \A split \in Splits : split \in Nat
    BY UnreadAssumption
  <2>4. kept \in Nat
    BY <2>2, <2>3
  <2> QED BY <2>4
<1> HIDE DEF kept
<1> DEFINE at == SpliterAt(kept, Rows)
<1>5. /\ at \in 0 .. Rows
      /\ SpliterNegate(kept, Rows) = Rows - at
      /\ 100 * at <= (100 - kept) * Rows
      /\ (100 - kept) * Rows < 100 * (at + 1)
  BY <1>2, <1>4, SplitInside
<1>6. Learned = MatrixRows(at, 0) /\ Kept = MatrixRows(Rows - at, at)
  BY <1>3, <1>5 DEF Learned, Kept
<1> HIDE DEF at
<1>7. Rows < Wrap /\ Wrap \in Nat
  BY <1>2, LinesAssumption, SplitAssumption
<1>8. Learned = at
  <2>1. (at + 0) % Wrap = at
    BY <1>2, <1>5, <1>7, ModSmall
  <2> QED BY <1>2, <1>5, <1>6, <2>1 DEF MatrixRows, Clipped, Smaller
<1>9. Kept = Rows - at
  <2>1. (Rows - at + at) % Wrap = Rows
    BY <1>2, <1>5, <1>7, ModSmall
  <2> QED BY <1>2, <1>5, <1>6, <2>1 DEF MatrixRows, Clipped, Smaller
<1>10. /\ train.rows \in Seq(Nat) /\ Len(train.rows) = at
       /\ \A k \in 1 .. at : train.rows[k] = table[1][k]
  <2>1. \A k \in 1 .. at : train.rows[k] = table[1][0 + k]
    BY <1>8 DEF WInv, Copied
  <2> QED BY <1>2, <1>5, <1>8, <2>1 DEF WInv, Copied
<1>11. /\ test.rows \in Seq(Nat) /\ Len(test.rows) = Rows - at
       /\ \A k \in 1 .. Rows - at : test.rows[k] = table[1][at + k]
  BY <1>3, <1>9 DEF WInv, Copied, at
<1>12. table[1] \in Seq(Nat) /\ Len(table[1]) = Rows
  BY <1>1, LinesAssumption DEF RInv, Together, Rows, Columns
<1>13. train.rows \o test.rows = table[1]
  <2>1. Len(table[1]) = Len(train.rows) + Len(test.rows)
    BY <1>2, <1>5, <1>10, <1>11, <1>12
  <2>2. \A k \in 1 .. Len(train.rows) : train.rows[k] = table[1][k]
    BY <1>10
  <2>3. \A k \in 1 .. Len(test.rows) : test.rows[k] = table[1][Len(train.rows) + k]
    BY <1>10, <1>11
  <2>4. train.rows \in Seq(Nat) /\ test.rows \in Seq(Nat) /\ table[1] \in Seq(Nat)
    BY <1>10, <1>11, <1>12
  <2> HIDE DEF at
  <2> QED BY <2>1, <2>2, <2>3, <2>4, PartsOfSequence
<1> QED BY <1>5, <1>10, <1>13

\* LearnedOrTested holds for any files, of any length, and any percentages
\* (split_rows.cpp, training_input_task.cpp, testing_input_task.cpp).
THEOREM RowsAreUsedOnce == Spec => []LearnedOrTested
BY SamplesInvariance, SharesAreAsAsked, PTL

LEMMA LabelsAreTheirs == RInv /\ WInv => LabelsFitSamples
<1> SUFFICES ASSUME RInv, WInv, outcome = "tested", message.labelled,
                    NEW samples \in {train, test}
             PROVE  /\ Len(samples.labels) = Len(samples.rows)
                    /\ message.type = "classifier" =>
                         /\ \A k \in DOMAIN samples.rows :
                              samples.labels[k] = codes[label[samples.rows[k]]]
                         /\ \A v, w \in DOMAIN codes : codes[v] = codes[w] => v = w
                         /\ Elements([v \in DOMAIN codes |-> codes[v]]) =
                              0 .. Cardinality(DOMAIN codes) - 1
                    /\ message.type = "regression" =>
                         \A k \in DOMAIN samples.rows :
                           samples.labels[k] = label[samples.rows[k]]
  BY DEF LabelsFitSamples
<1>1. conf.labelled /\ (conf.classifier <=> message.type = "classifier")
  <2>1. conf = Configuration(message)
    BY DEF RInv, Configured
  <2>2. conf.labelled = message.labelled
    BY <2>1 DEF Configuration
  <2>3. conf.classifier = (message.type = "classifier")
    BY <2>1 DEF Configuration
  <2> QED BY <2>2, <2>3
<1>2. \E n, off : Copied(samples, n, off)
  BY DEF WInv
<1>3. PICK n : /\ Len(samples.labels) = n /\ Len(samples.rows) = n
               /\ \A k \in DOMAIN samples.rows : samples.labels[k] = LabelOf(samples.rows[k])
  <2>1. PICK n, off : Copied(samples, n, off)
    BY <1>2
  <2>2. \A k \in 1 .. n : samples.labels[k] = LabelOf(samples.rows[k])
    BY <1>1, <2>1 DEF Copied
  <2>3. DOMAIN samples.rows = 1 .. n /\ Len(samples.rows) = n /\ Len(samples.labels) = n
    BY <1>1, <2>1 DEF Copied
  <2> QED BY <2>2, <2>3
<1>4. ASSUME message.type = "classifier"
      PROVE  /\ \A v, w \in DOMAIN codes : codes[v] = codes[w] => v = w
             /\ Elements([v \in DOMAIN codes |-> codes[v]]) =
                  0 .. Cardinality(DOMAIN codes) - 1
  <2>1. Numbering(codes, DOMAIN codes)
    BY <1>1, <1>4 DEF WInv, Coded
  <2>2. Elements([v \in DOMAIN codes |-> codes[v]]) = {codes[v] : v \in DOMAIN codes}
    BY DEF Elements
  <2>3. {codes[v] : v \in DOMAIN codes} = 0 .. Cardinality(DOMAIN codes) - 1
    BY <2>1 DEF Numbering
  <2> QED BY <2>1, <2>2, <2>3 DEF Numbering
<1> QED BY <1>1, <1>3, <1>4 DEF LabelOf

\* LabelsFitSamples holds for any labels and any files, wherever they are split
\* (row_data_input.cpp, prepare4labels_copy; dc_lookup_table.cpp, table::insert).
THEOREM LabelsAreOfTheirRows == Spec => []LabelsFitSamples
BY SamplesInvariance, LabelsAreTheirs, PTL

(***************************************************************************)
(* Types.                                                                   *)
(***************************************************************************)

\* Nothing was copied before the file was opened, and the variables have their
\* types.
Typed ==
  /\ TypeOK
  /\ pc \in {"message", "open"} => train = NoSamples /\ test = NoSamples

\* A part that is not refused is there (process_input.cpp, process).
LEMMA NothingRefused ==
  ASSUME NEW refusals \in Seq(Refusals), First(refusals) = "none", NEW i \in DOMAIN refusals
  PROVE  refusals[i] = "none"
<1> SUFFICES ASSUME refusals[i] # "none" PROVE FALSE
  OBVIOUS
<1> DEFINE found == {k \in DOMAIN refusals : refusals[k] # "none"}
<1>1. found # {} /\ found \subseteq Nat
  OBVIOUS
<1> HIDE DEF found
<1>2. PICK n \in found : \A j \in found : <<j, n>> \notin OpToRel(<, Nat)
  BY <1>1, NatLessThanWellFounded, WFMin
<1>3. \A j \in found : n <= j
  <2> SUFFICES ASSUME NEW j \in found, j < n PROVE FALSE
    BY <1>1
  <2>1. <<j, n>> \in OpToRel(<, Nat)
    BY <1>1 DEF OpToRel
  <2> QED BY <1>2, <2>1
<1> DEFINE least == CHOOSE k \in found : \A j \in found : k <= j
<1>4. least \in found
  BY <1>3
<1>5. First(refusals) = refusals[least]
  BY <1>1 DEF First, found
<1> HIDE DEF least
<1> QED BY <1>4, <1>5 DEF found

\* The configuration of a message that was not refused.
LEMMA ConfigurationType ==
  ASSUME NEW m \in MessageType, Refusal(m) = "none"
  PROVE  Configuration(m) \in Confs
<1>1. First(PartRefusals(m)) = "none"
  BY DEF Refusal, PartRefusals
<1>2. PartRefusals(m) \in Seq(Refusals) /\ 4 \in DOMAIN PartRefusals(m)
      /\ PartRefusals(m)[4] = ValidationRefusal(m)
  BY PartRefusalsType DEF PartRefusals
<1>3. ValidationRefusal(m) = "none"
  BY <1>1, <1>2, NothingRefused
<1>4. m.validation \in {"precent", "k-fold"}
  BY <1>3 DEF ValidationRefusal, OrAbsent, MessageType
<1>5. m.arg \in Splits \cup {Unread} /\ m.labelled \in BOOLEAN /\ m.randomized \in BOOLEAN
  BY DEF MessageType
<1>6. (IF m.arg = Unread THEN 0 ELSE m.arg) \in Splits \cup {0}
  BY <1>5
<1>7. (m.validation = "precent" /\ m.arg # Unread /\ m.randomized) \in BOOLEAN
      /\ (m.type = "classifier") \in BOOLEAN
  OBVIOUS
<1> QED BY <1>4, <1>5, <1>6, <1>7 DEF Configuration, Confs

LEMMA TypedInit == Init => Typed
<1> SUFFICES ASSUME Init PROVE Typed
  OBVIOUS
<1> USE LinesAssumption DEF Init
<1>1. message \in MessageType
  BY MessagesAssumption
<1>2. file = <<>> /\ <<>> \in Seq(Lines) /\ Len(<<>>) = 0 /\ DOMAIN <<>> = {}
  OBVIOUS
<1>3. label \in [DOMAIN file -> Classes]
  BY <1>2
<1>4. conf \in Confs
  BY DEF NoConf, Confs
<1>5. /\ train.rows \in Seq(DOMAIN file) /\ Len(train.labels) <= MaxLines
      /\ test.rows \in Seq(DOMAIN file) /\ Len(test.labels) <= MaxLines
  BY DEF NoSamples
<1>6. \A c \in Columns : table[c] \in Seq(DOMAIN file)
  OBVIOUS
<1>7. DOMAIN codes = {}
  BY DEF NoCodes
<1> QED BY <1>1, <1>2, <1>3, <1>4, <1>5, <1>6, <1>7 DEF Typed, TypeOK

\* What was copied are rows of the file.
LEMMA CopiedType ==
  ASSUME RInv, WasRead, NEW samples, NEW n, NEW off, Copied(samples, n, off)
  PROVE  /\ samples.rows \in Seq(DOMAIN file)
         /\ conf.labelled => Len(samples.labels) <= MaxLines
<1>1. /\ Rows \in Nat /\ Rows <= MaxLines /\ MaxLines \in Nat
      /\ table[1] \in Seq(Nat) /\ Elements(table[1]) = 1 .. Rows
      /\ Rows <= Len(file) /\ DOMAIN file = 1 .. Len(file) /\ Len(file) \in Nat
      /\ DOMAIN table[1] = 1 .. Rows
  <2>1. 1 \in Columns
    BY LinesAssumption DEF Columns
  <2>2. table[1] \in Seq(Nat)
    BY <2>1 DEF RInv, Together
  <2> QED BY <2>2, LinesAssumption, ReadSizes DEF RInv, Shapes, Together, Rows
<1>2. /\ n \in Nat /\ off \in Nat /\ (n = 0 \/ off + n <= Rows)
      /\ samples.rows \in Seq(Nat) /\ Len(samples.rows) = n
      /\ \A k \in 1 .. n : samples.rows[k] = table[1][off + k]
      /\ conf.labelled => Len(samples.labels) = n
  BY DEF Copied
<1>3. \A k \in 1 .. n : samples.rows[k] \in DOMAIN file
  <2> TAKE k \in 1 .. n
  <2>1. off + k \in 1 .. Rows
    BY <1>1, <1>2
  <2>2. table[1][off + k] \in Elements(table[1])
    BY <1>1, <2>1 DEF Elements
  <2>3. table[1][off + k] \in 1 .. Rows
    BY <1>1, <2>2
  <2>4. 1 .. Rows \subseteq DOMAIN file
    BY <1>1
  <2> QED BY <1>2, <2>3, <2>4
<1>4. samples.rows \in Seq(DOMAIN file)
  BY <1>2, <1>3
<1>5. n <= MaxLines
  BY <1>1, <1>2
<1> QED BY <1>2, <1>4, <1>5

\* Without a label column there are no labels.
LEMMA NoLabelsType ==
  ASSUME ~conf.labelled, NEW n, NEW off
  PROVE  Len(Samples(n, off).labels) <= MaxLines
<1>1. Len(<<>>) = 0 /\ 0 <= MaxLines
  BY LinesAssumption
<1>2. Labels(n, off) = <<>>
  BY DEF Labels
<1>3. Transform(<<>>) = <<>>
  BY DEF Transform
<1> QED BY <1>1, <1>2, <1>3 DEF Samples, NoSamples

\* Only classes are numbered, and no two of them alike.
LEMMA CodesType ==
  ASSUME NEW tbl, NEW vs \in SUBSET Classes, Numbering(tbl, vs)
  PROVE  /\ DOMAIN tbl \subseteq Classes
         /\ \A v \in DOMAIN tbl : tbl[v] \in 0 .. Cardinality(Classes) - 1
<1>1. /\ Cardinality(vs) <= Cardinality(Classes)
      /\ Cardinality(vs) \in Nat /\ Cardinality(Classes) \in Nat
  BY ClassesAssumption, FS_Subset, FS_CardinalityType
<1> QED BY <1>1 DEF Numbering

\* What only moves on keeps the types.
LEMMA TypesKept ==
  ASSUME Typed, UNCHANGED <<input, pos, table, swaps, codes, train, test>>,
         pc' \in {"message", "open", "read", "shuffle", "map", "train", "test", "done"},
         pc' \in {"message", "open"} => pc \in {"message", "open"},
         outcome' \in {"running", "runtime_error", "invalid_conf", "malformat_input",
                      "bad_lexical_cast", "json_error", "exception", "tested", "overrun"}
  PROVE  Typed'
BY DEF Typed, TypeOK, input

\* The rows of a column that was read are those of lines of the file.
LEMMA ColumnsType ==
  ASSUME RInv, WasRead
  PROVE  \A c \in Columns : table[c] \in Seq(DOMAIN file)
<1> TAKE c \in Columns
<1>1. 1 \in Columns
  BY LinesAssumption DEF Columns
<1>2. table[1] \in Seq(Nat) /\ table[c] = table[1] /\ Elements(table[1]) = 1 .. Rows
  BY <1>1 DEF RInv, Together
<1>3. Rows \in Nat /\ Rows <= Len(file) /\ Len(file) \in Nat /\ DOMAIN file = 1 .. Len(file)
  BY <1>2 DEF RInv, Shapes, Together, Rows
<1>4. \A i \in DOMAIN table[1] : table[1][i] \in 1 .. Rows
  BY <1>2 DEF Elements
<1>5. \A i \in DOMAIN table[1] : table[1][i] \in DOMAIN file
  BY <1>3, <1>4
<1> QED BY <1>2, <1>5

\* What was copied when it is copied, and the columns when they are read.
ColumnsTyped == WasRead => \A c \in Columns : table[c] \in Seq(DOMAIN file)

CopiedTyped(samples) ==
  /\ samples.rows \in Seq(DOMAIN file)
  /\ conf.labelled => Len(samples.labels) <= MaxLines

WindowsTyped ==
  /\ pc = "test" \/ outcome = "tested" => CopiedTyped(train)
  /\ outcome = "tested" => CopiedTyped(test)

LEMMA ReadIsTyped == RInv /\ WInv => ColumnsTyped /\ WindowsTyped
<1> SUFFICES ASSUME RInv, WInv PROVE ColumnsTyped /\ WindowsTyped
  OBVIOUS
<1>1. ColumnsTyped
  BY ColumnsType DEF ColumnsTyped
<1>2. ASSUME pc = "test" \/ outcome = "tested" PROVE CopiedTyped(train)
  <2>1. WasRead /\ Copied(train, Learned, 0)
    BY <1>2 DEF WasRead, WInv
  <2> QED BY <2>1, CopiedType DEF CopiedTyped
<1>3. ASSUME outcome = "tested" PROVE CopiedTyped(test)
  <2>1. WasRead /\ Copied(test, Kept, SpliterAt(conf.split, Rows))
    BY <1>3 DEF WasRead, WInv
  <2> QED BY <2>1, CopiedType DEF CopiedTyped
<1> QED BY <1>1, <1>2, <1>3 DEF WindowsTyped

\* All of the label column: as many labels as there are rows, or none.
LEMMA LabelColumn ==
  ASSUME RInv, WasRead, label \in [DOMAIN file -> Classes]
  PROVE  \E n \in Nat : /\ DOMAIN Labels(Rows, 0) = 1 .. n
                        /\ Len(Labels(Rows, 0)) = n
                        /\ \A k \in 1 .. n : Labels(Rows, 0)[k] \in Classes
<1>1. CASE ~conf.labelled
  <2>1. Labels(Rows, 0) = <<>>
    BY <1>1 DEF Labels
  <2>2. DOMAIN <<>> = 1 .. 0 /\ Len(<<>>) = 0
    OBVIOUS
  <2> QED BY <2>1, <2>2
<1>2. CASE conf.labelled
  <2>1. Rows \in Nat /\ Rows < Wrap /\ NumColumns \in Columns
    BY ReadSizes, LinesAssumption, SplitAssumption DEF Columns
  <2>2. LabelRows(Rows, 0) = Rows
    <3>1. (Rows + 0) % Wrap = Rows
      BY <2>1, ModSmall, SplitAssumption
    <3> QED BY <2>1, <3>1 DEF LabelRows, Clipped, Smaller
  <2>3. Labels(Rows, 0) = [k \in 1 .. Rows |-> label[table[NumColumns][0 + k]]]
    BY <1>2, <2>2 DEF Labels
  <2>4. table[NumColumns] \in Seq(DOMAIN file) /\ Len(table[NumColumns]) = Rows
    BY <2>1, ColumnsType DEF RInv, Together, Rows
  <2>5. \A k \in 1 .. Rows : label[table[NumColumns][0 + k]] \in Classes
    <3> TAKE k \in 1 .. Rows
    <3>1. 0 + k \in 1 .. Len(table[NumColumns])
      BY <2>1, <2>4
    <3>2. table[NumColumns][0 + k] \in DOMAIN file
      BY <2>4, <3>1
    <3> QED BY <3>2
  <2> QED BY <2>1, <2>3, <2>5
<1> QED BY <1>1, <1>2

LEMMA TypedStep ==
  RInv /\ WInv /\ RInv' /\ WInv' /\ Typed /\ [Next]_vars => Typed'
<1> SUFFICES ASSUME RInv, WInv, RInv', WInv', Typed, [Next]_vars PROVE Typed'
  OBVIOUS
<1>0. /\ 1 \in Columns /\ MaxLines \in Nat /\ Len(file) \in Nat /\ Len(file) <= MaxLines
      /\ DOMAIN file = 1 .. Len(file) /\ pos \in 0 .. Len(file)
  BY LinesAssumption DEF Columns, RInv, Shapes
<1>00. ColumnsTyped' /\ WindowsTyped'
  BY ReadIsTyped, PTL
<1>1. CASE ReadMessage
  <2>1. Refusal(message) \in Refusals /\ message \in MessageType
    BY MessagesAssumption, RefusalType DEF RInv, Shapes
  <2>2. /\ pc' \in {"open", "done"} /\ outcome' \in Refusals \cup {"running"}
        /\ outcome' # "none" /\ pc = "message"
    BY <1>1, <2>1 DEF ReadMessage, Fail, RInv, Shapes
  <2>3. conf' \in Confs
    BY <1>1, <2>1, ConfigurationType DEF ReadMessage, Typed, TypeOK
  <2>4. UNCHANGED <<message, source, file, label, pos, table, swaps, codes, train, test>>
    BY <1>1 DEF ReadMessage
  <2> QED BY <2>2, <2>3, <2>4 DEF Typed, TypeOK, Refusals
<1>2. CASE OpenSource
  <2>1. /\ pc = "open" /\ source' \in Sources /\ pc' \in {"read", "done"}
        /\ UNCHANGED <<message, conf, pos, table, swaps, codes, train, test>>
        /\ outcome' \in {"running", "runtime_error", "invalid_conf"}
    BY <1>2 DEF OpenSource, Fail, RInv, Shapes
  <2>2. /\ pos = 0 /\ table = FirstLines(0) /\ train = NoSamples /\ test = NoSamples
    BY <2>1 DEF RInv, InOrder, Typed
  <2>3. file' \in Seq(Lines) /\ Len(file') \in Nat
    BY DEF RInv, Shapes
  <2>4. label' \in [DOMAIN file' -> Classes]
    BY <1>2 DEF OpenSource, Typed, TypeOK
  <2>5. pos' \in 0 .. Len(file')
    BY <2>1, <2>2, <2>3
  <2>6. \A c \in Columns : table'[c] \in Seq(DOMAIN file')
    BY <2>1, <2>2 DEF FirstLines
  <2>7. /\ train'.rows \in Seq(DOMAIN file') /\ Len(train'.labels) <= MaxLines
        /\ test'.rows \in Seq(DOMAIN file') /\ Len(test'.labels) <= MaxLines
    <3>1. train' = NoSamples /\ test' = NoSamples
      BY <2>1, <2>2
    <3>2. <<>> \in Seq(DOMAIN file') /\ Len(<<>>) <= MaxLines
      BY <1>0
    <3> QED BY <3>1, <3>2 DEF NoSamples
  <2> QED BY <2>1, <2>3, <2>4, <2>5, <2>6, <2>7 DEF Typed, TypeOK
<1>3. CASE ReadLine \/ EndOfFile
  <2>1. /\ pc = "read" /\ UNCHANGED <<input, codes, train, test>>
        /\ table = FirstLines(pos) /\ outcome = "running"
    BY <1>3 DEF ReadLine, EndOfFile, RInv, Shapes, InOrder
  <2>2. /\ table[1] = [i \in 1 .. pos |-> i] /\ Rows = pos
        /\ table[1] # <<>> => pos # 0
    BY <1>0, <2>1 DEF FirstLines, Rows
  <2>3. ASSUME NEW ok \in BOOLEAN, ReadingDone(ok), ok => table[1] # <<>>
        PROVE  /\ swaps' \in 0 .. MaxLines
               /\ pc' \in {"shuffle", "map", "done"}
               /\ outcome' \in {"running", "runtime_error"}
    <3>1. CASE ok
      <4>1. Rows - 1 \in 0 .. MaxLines /\ 0 \in 0 .. MaxLines
        BY <1>0, <2>2, <2>3, <3>1
      <4> QED BY <2>1, <2>3, <3>1, <4>1 DEF ReadingDone
    <3>2. CASE ~ok
      BY <2>3, <3>2 DEF ReadingDone, Fail, Typed, TypeOK
    <3> QED BY <3>1, <3>2
  <2>4. /\ swaps' \in 0 .. MaxLines
        /\ pc' \in {"read", "shuffle", "map", "done"}
        /\ outcome' \in {"running", "runtime_error", "bad_lexical_cast", "malformat_input"}
    <3>1. CASE EndOfFile
      <4>1. ReadingDone(table[1] # <<>>)
        BY <3>1 DEF EndOfFile
      <4> QED BY <2>3, <4>1
    <3>2. CASE ReadLine
      <4> DEFINE line == file[pos + 1]
      <4>1. line \in LineType
        BY <1>0, <3>2, LinesAssumption DEF ReadLine, RInv, Shapes
      <4>2. CASE line.spoilt # "no"
        BY <3>2, <4>1, <4>2 DEF ReadLine, Fail, LineType, Typed, TypeOK
      <4>3. CASE line.spoilt = "no" /\ line.cells < NumColumns
        <5>1. ReadingDone(line.cells = 0 /\ table[1] # <<>>)
          BY <3>2, <4>3 DEF ReadLine
        <5> QED BY <2>3, <5>1
      <4>4. CASE line.spoilt = "no" /\ ~(line.cells < NumColumns)
        <5>1. UNCHANGED <<pc, outcome, swaps>>
          BY <3>2, <4>4 DEF ReadLine
        <5> QED BY <2>1, <5>1 DEF Typed, TypeOK
      <4> QED BY <4>2, <4>3, <4>4
    <3> QED BY <1>3, <3>1, <3>2
  <2>5. pos' \in 0 .. Len(file') /\ file' = file
    BY <2>1 DEF input, RInv, Shapes
  <2>6. \A c \in Columns : table'[c] \in Seq(DOMAIN file')
    <3>1. ASSUME NEW c \in Columns PROVE table[c] \in Seq(DOMAIN file)
      BY DEF Typed, TypeOK
    <3>2. CASE EndOfFile
      BY <2>5, <3>1, <3>2 DEF EndOfFile
    <3>3. CASE ReadLine
      <4>1. pos + 1 \in DOMAIN file
        BY <1>0, <3>3 DEF ReadLine
      <4>2. \A c \in Columns : table'[c] \in {Append(table[c], pos + 1), table[c]}
        BY <3>3 DEF ReadLine
      <4>3. \A c \in Columns : Append(table[c], pos + 1) \in Seq(DOMAIN file)
        BY <3>1, <4>1
      <4> QED BY <2>5, <3>1, <4>2, <4>3
    <3> QED BY <1>3, <3>2, <3>3
  <2> QED BY <2>1, <2>4, <2>5, <2>6 DEF Typed, TypeOK, input
<1>4. CASE SwapRows
  <2>1. /\ pc = "shuffle" /\ UNCHANGED <<input, pc, pos, codes, train, test, outcome>>
        /\ swaps > 0 /\ swaps' = swaps - 1
    BY <1>4 DEF SwapRows
  <2>2. \A c \in Columns : table'[c] \in Seq(DOMAIN file)'
    <3>1. WasRead'
      BY <2>1 DEF WasRead
    <3> QED BY <1>00, <3>1 DEF ColumnsTyped
  <2>3. swaps' \in 0 .. MaxLines
    BY <1>0, <2>1 DEF Typed, TypeOK
  <2> QED BY <2>1, <2>2, <2>3 DEF Typed, TypeOK, input
<1>5. CASE Shuffled
  BY <1>5, TypesKept DEF Shuffled, Typed, TypeOK
<1>6. CASE MakeTable
  <2>1. /\ pc = "map" /\ pc' = "train" /\ WasRead
        /\ UNCHANGED <<input, pos, table, swaps, train, test, outcome>>
        /\ codes' = IF conf.classifier THEN Numbered(Labels(Rows, 0)) ELSE codes
    BY <1>6 DEF MakeTable, WasRead
  <2>2. /\ DOMAIN codes' \subseteq Classes
        /\ \A v \in DOMAIN codes' : codes'[v] \in 0 .. Cardinality(Classes) - 1
    <3>1. CASE ~conf.classifier
      BY <2>1, <3>1 DEF Typed, TypeOK
    <3>2. CASE conf.classifier
      <4> DEFINE values == Labels(Rows, 0)
      <4>1. PICK n \in Nat : /\ DOMAIN values = 1 .. n /\ Len(values) = n
                             /\ \A k \in 1 .. n : values[k] \in Classes
        <5>1. label \in [DOMAIN file -> Classes]
          BY DEF Typed, TypeOK
        <5> QED BY <2>1, <5>1, LabelColumn
      <4>2. Numbering(Numbered(values), {values[k] : k \in 1 .. n})
        <5> HIDE DEF values
        <5> QED BY <4>1, ColumnIsNumbered
      <4>3. {values[k] : k \in 1 .. n} \in SUBSET Classes
        BY <4>1
      <4> HIDE DEF values
      <4>4. codes' = Numbered(values)
        BY <2>1, <3>2 DEF values
      <4> QED BY <4>2, <4>3, <4>4, CodesType
    <3> QED BY <3>1, <3>2
  <2> QED BY <2>1, <2>2 DEF Typed, TypeOK, input
<1>7. CASE Train
  <2>1. /\ pc = "train" /\ pc' = "test" /\ WasRead'
        /\ UNCHANGED <<input, pos, table, swaps, codes, test, outcome>>
        /\ train' = Samples(SpliterAt(conf.split, Rows), 0)
    BY <1>7 DEF Train, WasRead
  <2>3. train'.rows \in Seq(DOMAIN file') /\ Len(train'.labels) <= MaxLines
    <3>1. train'.rows \in Seq(DOMAIN file') /\ (conf'.labelled => Len(train'.labels) <= MaxLines)
      BY <1>00, <2>1 DEF WindowsTyped, CopiedTyped
    <3>2. ~conf.labelled => Len(train'.labels) <= MaxLines
      BY <2>1, NoLabelsType
    <3> QED BY <2>1, <3>1, <3>2 DEF input
  <2> QED BY <2>1, <2>3 DEF Typed, TypeOK, input
<1>8. CASE Test
  <2>1. /\ pc = "test" /\ pc' = "done" /\ outcome' \in {"tested", "overrun"} /\ WasRead'
        /\ UNCHANGED <<input, pos, table, swaps, codes, train>>
        /\ \/ outcome' = "overrun" /\ test' = test
           \/ /\ outcome' = "tested"
              /\ test' = Samples(SpliterNegate(conf.split, Rows), SpliterAt(conf.split, Rows))
    BY <1>8 DEF Test, WasRead
  <2>2. CASE outcome' = "overrun"
    BY <2>1, <2>2, TypesKept
  <2>3. CASE outcome' = "tested"
    <3>2. test'.rows \in Seq(DOMAIN file') /\ (conf'.labelled => Len(test'.labels) <= MaxLines)
      BY <1>00, <2>3 DEF WindowsTyped, CopiedTyped
    <3>3. ~conf.labelled => Len(test'.labels) <= MaxLines
      BY <2>1, <2>3, NoLabelsType
    <3>4. test'.rows \in Seq(DOMAIN file') /\ Len(test'.labels) <= MaxLines
      BY <2>1, <3>2, <3>3 DEF input
    <3> QED BY <2>1, <3>4 DEF Typed, TypeOK, input
  <2> QED BY <2>1, <2>2, <2>3
<1>9. CASE Ended \/ UNCHANGED vars
  BY <1>9 DEF Ended, vars, Typed, TypeOK
<1> QED BY <1>1, <1>2, <1>3, <1>4, <1>5, <1>6, <1>7, <1>8, <1>9 DEF Next

\* TypeOK holds for any messages, any files of at most MaxLines lines, and any labels
\* (row_data_input.cpp, process_input.cpp).
THEOREM DataTypeCorrect == Spec => []TypeOK
<1>1. Typed => TypeOK
  BY DEF Typed
<1> QED BY SamplesInvariance, TypedInit, TypedStep, <1>1, PTL DEF Spec
=============================================================================
