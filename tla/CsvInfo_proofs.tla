--------------------------- MODULE CsvInfo_proofs ---------------------------
(***************************************************************************)
(* What csv_info does, for any command line, any texts and any size of the  *)
(* buffer.                                                                  *)
(*                                                                          *)
(* First, the buffer of its parser is invisible: every step of the program  *)
(* is a step of the reader without a buffer, or none.                       *)
(*                                                                          *)
(* Then, its report is the one CsvReport tells from the texts alone.  The   *)
(* argument goes outwards: recursive functions and lists of places (a       *)
(* theory of their own), the cells of a text and its rows; the types; what  *)
(* the parser has handed out (LexInv); where in the rows the program is     *)
(* (RowInv); what became of the files (FileInv); what the columns counted   *)
(* (Totals); and the report.                                                *)
(***************************************************************************)
EXTENDS CsvReport, FiniteSetTheorems, WellFoundedInduction, TLAPS

USE SizeAssumption

(***************************************************************************)
(* The invariant: the buffer holds the last characters that were read; the  *)
(* stream is only at its end when all was read; a failed stream is not at   *)
(* its end; and whoever reads a token has not come to the end of the input. *)
(***************************************************************************)
Buffer ==
  /\ text \in Seq(Chars)
  /\ read \in 0 .. Len(text)
  /\ inRead \in 0 .. Size
  /\ inRead <= read
  /\ index \in 0 .. inRead
  /\ eofbit \in BOOLEAN
  /\ failed \in BOOLEAN

Progress ==
  /\ eofbit => read = Len(text)
  /\ failed => ~eofbit
  /\ step = "token" => state # "END_INPUT"
  /\ args \in Inputs
  /\ fileNo \in Nat \ {0}

IInv == Buffer /\ Progress

LEMMA InitIInv == Init => IInv
<1> SUFFICES ASSUME Init PROVE IInv
  OBVIOUS
<1>1. <<>> \in Seq(Chars) /\ Len(<<>>) = 0
  OBVIOUS
<1>2. Buffer
  <2>1. text \in Seq(Chars) /\ read \in 0 .. Len(text)
    BY <1>1 DEF Init, ParserInit
  <2>2. inRead \in 0 .. Size /\ inRead <= read /\ index \in 0 .. inRead
    BY DEF Init, ParserInit
  <2>3. eofbit \in BOOLEAN /\ failed \in BOOLEAN
    BY DEF Init, ParserInit
  <2>4. QED
    BY <2>1, <2>2, <2>3 DEF Buffer
<1>3. Progress
  BY <1>1 DEF Init, ParserInit, Progress
<1>4. QED
  BY <1>2, <1>3 DEF IInv

\* No character leads to the end of the input.
LEMMA AfterIsNotEnd ==
  ASSUME NEW s, s # "END_INPUT", NEW c
  PROVE  After(s, c) # "END_INPUT"
BY DEF After

\* The file that is opened is a text.
LEMMA OpenedIsText ==
  ASSUME IInv, OpenFile
  PROVE  args.files[fileNo] \in Seq(Chars)
<1>1. args.files \in Seq(Seq(Chars) \cup {NoSuchFile}) /\ fileNo \in 1 .. Len(args.files)
  BY InputsAssumption DEF IInv, Progress, OpenFile
<1>2. args.files[fileNo] \in Seq(Chars) \cup {NoSuchFile}
  BY <1>1
<1>3. QED
  BY <1>2 DEF OpenFile

LEMMA OpenIInv == IInv /\ OpenFile => IInv'
<1> SUFFICES ASSUME IInv, OpenFile PROVE IInv'
  OBVIOUS
<1>1. OpenStream(args.files[fileNo]) /\ UNCHANGED <<args, fileNo>>
  BY DEF OpenFile, mainVars
<1>2. text' \in Seq(Chars)
  BY <1>1, OpenedIsText DEF OpenStream
<1>3. Len(text') \in Nat
  BY <1>2
<1>4. Buffer'
  <2>1. read' \in 0 .. Len(text')
    BY <1>1, <1>3 DEF OpenStream
  <2>2. inRead' \in 0 .. Size /\ inRead' <= read' /\ index' \in 0 .. inRead'
    BY <1>1 DEF OpenStream
  <2>3. eofbit' \in BOOLEAN /\ failed' \in BOOLEAN
    BY <1>1 DEF OpenStream
  <2>4. QED
    BY <1>2, <2>1, <2>2, <2>3 DEF Buffer
<1>5. Progress'
  BY <1>1 DEF OpenStream, IInv, Progress
<1>6. QED
  BY <1>4, <1>5 DEF IInv

LEMMA RefillIInv ==
  ASSUME IInv, Refill, UNCHANGED <<args, fileNo>>
  PROVE  IInv'
<1> DEFINE rest == Len(text) - read
           got == IF rest < Size THEN rest ELSE Size
<1>1. rest \in Nat /\ got \in 0 .. Size /\ read + got \in 0 .. Len(text)
  BY DEF IInv, Buffer
<1>2. got < Size => read + got = Len(text)
  BY DEF IInv, Buffer
<1>3. /\ read' = read + got
      /\ inRead' = got
      /\ eofbit' = (got < Size)
      /\ index' = 0
      /\ UNCHANGED <<text, failed, state, step>>
      /\ ~failed
  BY DEF Refill, CanRefill, SourceGood, parserVars
<1> HIDE DEF got
<1>4. QED
  BY <1>1, <1>2, <1>3 DEF IInv, Buffer, Progress

LEMMA RefillFailsIInv ==
  ASSUME IInv, RefillFails, UNCHANGED <<args, fileNo>>
  PROVE  IInv'
BY DEF RefillFails, CanRefill, SourceGood, SourceEof, parserVars, IInv, Buffer, Progress

LEMMA TakeCharIInv ==
  ASSUME IInv, TakeChar, UNCHANGED <<args, fileNo>>
  PROVE  IInv'
<1>1. index' \in 0 .. inRead' /\ UNCHANGED <<text, read, eofbit, failed, inRead>>
  BY DEF TakeChar, CanTake, Empty, streamVars, IInv, Buffer
<1>2. step' = "token" => state' # "END_INPUT"
  BY AfterIsNotEnd DEF TakeChar, CanTake, HandOut, parserVars, IInv, Progress
<1>3. QED
  BY <1>1, <1>2 DEF IInv, Buffer, Progress

LEMMA EndOfSourceIInv ==
  ASSUME IInv, EndOfSource, UNCHANGED <<args, fileNo>>
  PROVE  IInv'
BY DEF EndOfSource, HandOut, streamVars, bufferVars, IInv, Buffer, Progress

\* The iterators go on to the next token only before the end of the input.
LEMMA IteratorIInv ==
  ASSUME IInv, NextCell \/ NextRow, UNCHANGED <<args, fileNo>>
  PROVE  IInv'
BY DEF NextCell, NextRow, Eol, Eof, streamVars, bufferVars, parserVars, IInv, Buffer,
       Progress

\* Steps that leave the stream, the buffer and the parser as they are.
LEMMA RestIInv ==
  ASSUME IInv, UNCHANGED <<streamVars, bufferVars, state, args>>,
         step' \in {step, "idle"}, fileNo' \in {fileNo, fileNo + 1}
  PROVE  IInv'
BY DEF streamVars, bufferVars, IInv, Buffer, Progress

\* What such a step leaves of the reader's view.
Aside ==
  /\ UNCHANGED <<streamVars, bufferVars, parserVars, args>>
  /\ step' \in {step, "idle"}
  /\ fileNo' \in {fileNo, fileNo + 1}

LEMMA AsideSteps ==
  \/ NoFile \/ FileDone \/ Report \/ HeaderFails \/ TooManyCells \/ Finished
  \/ UNCHANGED vars
  => Aside
BY DEF NoFile, FileDone, Report, HeaderFails, TooManyCells, Finished, Aside, Error,
       Close, vars, readVars, mainVars

LEMMA IterateSteps ==
  HeaderCell \/ HeaderRow \/ DataCell \/ DataRow =>
    (NextCell \/ NextRow) /\ UNCHANGED <<args, fileNo>>
BY DEF HeaderCell, HeaderRow, DataCell, DataRow, mainVars

LEMMA NextIInv == IInv /\ [Next]_vars => IInv'
<1> SUFFICES ASSUME IInv, [Next]_vars PROVE IInv'
  OBVIOUS
<1>1. CASE Aside
  BY <1>1, RestIInv DEF Aside, parserVars
<1>2. CASE OpenFile
  BY <1>2, OpenIInv
<1>3. CASE FetchToken
  BY <1>3, RefillIInv, TakeCharIInv, EndOfSourceIInv DEF FetchToken, mainVars
<1>4. CASE ReadFails
  BY <1>4, RefillFailsIInv DEF ReadFails, mainVars
<1>5. CASE HeaderCell \/ HeaderRow \/ DataCell \/ DataRow
  BY <1>5, IterateSteps, IteratorIInv
<1>6. QED
  BY <1>1, <1>2, <1>3, <1>4, <1>5, AsideSteps DEF Next, Steps

\* The buffer is always a window onto the text that ends where reading has
\* come to, in every reachable state.
THEOREM BufferInvariance == Spec => []IInv
BY InitIInv, NextIInv, PTL DEF Spec

-----------------------------------------------------------------------------
(***************************************************************************)
(* The refinement.  The reader without a buffer is at the place of the next *)
(* character in the text: what was read, less what is left in the buffer.   *)
(***************************************************************************)
Pos == read - inRead + index

\* Both read the same characters the same way.
LEMMA SameCharacters ==
  /\ Reader!Chars = Chars
  /\ \A s, c : Reader!After(s, c) = After(s, c)
  /\ \A s, c : Reader!Separates(s, c) = Separates(s, c)
  /\ \A t, s, c : Reader!Grown(t, s, c) = Grown(t, s, c)
BY DEF Reader!Chars, Chars, Reader!After, After, Reader!Separates, Separates,
       Reader!Grown, Grown

LEMMA InitReader == Init => Reader!ReaderInit
BY DEF Init, ParserInit, Reader!ReaderInit

\* A step that changes nothing the reader knows of.
Unseen == UNCHANGED <<text, Pos, state, token, cells, failed>>

LEMMA UnseenIsStutter == Unseen => UNCHANGED Reader!readerVars
BY DEF Unseen, Pos, Reader!readerVars

LEMMA OpenReader ==
  ASSUME IInv, OpenFile
  PROVE  Reader!Open
<1>1. OpenStream(args.files[fileNo])
  BY DEF OpenFile
<1>2. args.files[fileNo] \in Seq(Reader!Chars)
  BY OpenedIsText, SameCharacters
<1>3. QED
  BY <1>1, <1>2 DEF OpenStream, Reader!Open

\* The buffer is empty when it is filled: the place in the text stays.
LEMMA RefillReader ==
  ASSUME IInv, Refill
  PROVE  Unseen
<1> DEFINE rest == Len(text) - read
           got == IF rest < Size THEN rest ELSE Size
<1>1. rest \in Nat /\ got \in Int
  BY DEF IInv, Buffer
<1>2. /\ read' = read + got
      /\ inRead' = got
      /\ index' = 0
      /\ inRead = index
      /\ UNCHANGED <<text, failed, state, token, cells>>
  BY DEF Refill, CanRefill, Empty, parserVars
<1> HIDE DEF got
<1>3. Pos' = Pos
  BY <1>1, <1>2 DEF Pos, IInv, Buffer
<1>4. QED
  BY <1>2, <1>3 DEF Unseen

LEMMA RefillFailsReader ==
  ASSUME IInv, RefillFails
  PROVE  Reader!Fail
<1>1. /\ ~failed /\ failed'
      /\ read' = read /\ inRead' = 0 /\ index' = 0 /\ inRead = index
      /\ UNCHANGED <<text, state, token, cells>>
  BY DEF RefillFails, CanRefill, SourceGood, Empty, parserVars, IInv, Buffer
<1>2. read' - inRead' + index' = read - inRead + index
  BY <1>1 DEF IInv, Buffer
<1>3. QED
  BY <1>1, <1>2 DEF Reader!Fail

\* The character at the place of the buffer is the next one of the text.
LEMMA TakeCharReader ==
  ASSUME IInv, TakeChar
  PROVE  Reader!Take \/ Reader!Drop \/ Reader!Separate
<1>1. /\ Pos < Len(text) /\ ~failed /\ state # "END_INPUT"
      /\ Char = text[Pos + 1]
  BY DEF TakeChar, CanTake, SourceGood, Empty, Char, Pos, IInv, Buffer, Progress
<1>2. /\ UNCHANGED <<text, failed, read, inRead, eofbit>>
      /\ Pos' = Pos + 1
  BY DEF TakeChar, streamVars, Pos, IInv, Buffer
<1>3. Reader!CanTake
  BY <1>1 DEF Pos, Reader!CanTake
<1>4. CASE Char = Dropped
  <2>1. UNCHANGED <<state, token, cells>>
    BY <1>4 DEF TakeChar, parserVars
  <2>2. QED
    BY <1>1, <1>2, <1>3, <1>4, <2>1 DEF Pos, Reader!Drop
<1>5. CASE Char # Dropped /\ Separates(state, Char)
  <2> DEFINE atEnd == index' = inRead /\ eofbit
             end == IF atEnd THEN "END_INPUT" ELSE After(state, Char)
  <2>1. /\ state' = end
        /\ cells' = Append(cells, [value |-> token, end |-> end])
        /\ token' = <<>>
    BY <1>1, <1>5 DEF TakeChar, HandOut
  <2>2. atEnd => Pos' = Len(text)
    BY <1>2 DEF Pos, IInv, Buffer, Progress
  <2>3. Reader!HandOut(end)
    BY <2>1 DEF Reader!HandOut
  <2>4. /\ Reader!Separates(state, text[Pos + 1])
        /\ Reader!After(state, text[Pos + 1]) = After(state, Char)
    BY <1>1, <1>5, SameCharacters
  <2>5. \/ Reader!HandOut(Reader!After(state, text[Pos + 1]))
        \/ Pos' = Len(text) /\ Reader!HandOut("END_INPUT")
    BY <2>2, <2>3, <2>4
  <2> HIDE DEF atEnd, end
  <2>6. QED
    BY <1>2, <1>3, <2>4, <2>5 DEF Pos, Reader!Separate
<1>6. CASE Char # Dropped /\ ~Separates(state, Char)
  <2>1. /\ state' = After(state, Char)
        /\ token' = Grown(token, state, Char)
        /\ UNCHANGED cells
    BY <1>6 DEF TakeChar
  <2>2. /\ ~Reader!Separates(state, text[Pos + 1])
        /\ state' = Reader!After(state, text[Pos + 1])
        /\ token' = Reader!Grown(token, state, text[Pos + 1])
    BY <1>1, <1>6, <2>1, SameCharacters
  <2>3. QED
    BY <1>1, <1>2, <1>3, <1>6, <2>1, <2>2 DEF Pos, Reader!Take
<1>7. QED
  BY <1>4, <1>5, <1>6

\* Without a separator a cell ends with the text, or with the stream's failure.
LEMMA EndOfSourceReader ==
  ASSUME IInv, EndOfSource
  PROVE  Reader!HandOutLast \/ Reader!Discard
<1>1. /\ step = "token" /\ ~SourceGood /\ state # "END_INPUT"
      /\ UNCHANGED <<text, read, eofbit, failed, index, inRead>>
      /\ Pos' = Pos
  BY DEF EndOfSource, streamVars, bufferVars, Pos, IInv, Progress
<1>2. token' = <<>>
  BY DEF EndOfSource, HandOut
<1>3. CASE failed
  <2>1. ~SourceEof
    BY <1>3 DEF SourceEof, IInv, Progress
  <2>2. UNCHANGED <<state, cells>>
    BY <1>3, <2>1 DEF EndOfSource, HandOut
  <2>3. QED
    BY <1>1, <1>2, <1>3, <2>2 DEF Pos, Reader!Discard
<1>4. CASE ~failed
  <2>1. SourceEof
    BY <1>1, <1>4 DEF SourceGood
  <2>2. Pos = Len(text)
    BY <2>1 DEF SourceEof, Empty, Pos, IInv, Buffer, Progress
  <2>3. /\ state' = "END_INPUT"
        /\ cells' = Append(cells, [value |-> token, end |-> "END_INPUT"])
    BY <1>4, <2>1 DEF EndOfSource, HandOut
  <2>4. Reader!HandOut("END_INPUT")
    BY <1>2, <2>3 DEF Reader!HandOut
  <2>5. QED
    BY <1>1, <1>4, <2>2, <2>4 DEF Pos, Reader!HandOutLast
<1>5. QED
  BY <1>3, <1>4

LEMMA RestReader ==
  Aside \/ NextCell \/ NextRow => Unseen
BY DEF Aside, NextCell, NextRow, streamVars, bufferVars, parserVars, Unseen, Pos

LEMMA NextReader == IInv /\ [Next]_vars => [Reader!ReaderNext]_(Reader!readerVars)
<1> SUFFICES ASSUME IInv, [Next]_vars
             PROVE  Reader!ReaderNext \/ UNCHANGED Reader!readerVars
  OBVIOUS
<1>1. CASE Aside \/ HeaderCell \/ HeaderRow \/ DataCell \/ DataRow
  BY <1>1, IterateSteps, RestReader, UnseenIsStutter
<1>2. CASE OpenFile
  BY <1>2, OpenReader DEF Reader!ReaderNext
<1>3. CASE FetchToken
  <2>1. CASE Refill
    BY <2>1, RefillReader, UnseenIsStutter
  <2>2. CASE TakeChar
    BY <2>2, TakeCharReader DEF Reader!ReaderNext
  <2>3. CASE EndOfSource
    BY <2>3, EndOfSourceReader DEF Reader!ReaderNext
  <2>4. QED
    BY <1>3, <2>1, <2>2, <2>3 DEF FetchToken
<1>4. CASE ReadFails
  BY <1>4, RefillFailsReader DEF ReadFails, Reader!ReaderNext
<1>5. QED
  BY <1>1, <1>2, <1>3, <1>4, AsideSteps DEF Next, Steps

\* Read through the buffer, a text gives the cells it gives read character by
\* character: no character is lost, taken twice or read in the wrong state at a
\* refill, for every size of the buffer, every text and any number of files.
THEOREM BufferIsInvisible == Spec => ImplementsReader
<1>1. Init => Reader!ReaderInit
  BY InitReader
<1>2. IInv /\ [Next]_vars => [Reader!ReaderNext]_(Reader!readerVars)
  BY NextReader
<1>3. QED
  BY <1>1, <1>2, BufferInvariance, PTL DEF Spec, ImplementsReader, Reader!ReaderSpec

-----------------------------------------------------------------------------
(***************************************************************************)
(* Induction over the natural numbers, stated for a set of numbers: from    *)
(* the least number that is missing from it.                                *)
(***************************************************************************)

\* A set that has 0 and, with every number, the next one has all of them.
LEMMA SetInduction ==
  ASSUME NEW S, 0 \in S, \A n \in Nat : n \in S => n + 1 \in S
  PROVE  Nat \subseteq S
<1> SUFFICES ASSUME Nat \ S # {} PROVE FALSE
  OBVIOUS
<1>1. PICK x \in Nat \ S : \A y \in Nat \ S : <<y, x>> \notin OpToRel(<, Nat)
  BY NatLessThanWellFounded, WFMin
<1>2. x # 0 /\ x - 1 \in Nat
  OBVIOUS
<1>3. <<x - 1, x>> \in OpToRel(<, Nat)
  BY <1>2 DEF OpToRel
<1>4. x - 1 \in S
  BY <1>1, <1>2, <1>3
<1> QED BY <1>2, <1>4

\* There is a function that begins with a and goes on as g says.
Begins(f, n, V, a, g) ==
  /\ f \in [0 .. n -> V]
  /\ f[0] = a
  /\ \A i \in 0 .. n - 1 : f[i + 1] = g[<<i, f[i]>>]

LEMMA BeginningsAgree ==
  ASSUME NEW V, NEW a, NEW g, NEW n \in Nat, NEW m \in Nat, n <= m,
         NEW f, Begins(f, n, V, a, g), NEW h, Begins(h, m, V, a, g)
  PROVE  f[n] = h[n]
<1> DEFINE S == {i \in Nat : i <= n => f[i] = h[i]}
<1>1. 0 \in S
  BY DEF Begins
<1>2. ASSUME NEW i \in Nat, i \in S PROVE i + 1 \in S
  <2> SUFFICES ASSUME i + 1 <= n PROVE f[i + 1] = h[i + 1]
    OBVIOUS
  <2>1. i \in 0 .. n - 1 /\ i \in 0 .. m - 1 /\ f[i] = h[i]
    BY <1>2
  <2> QED BY <2>1 DEF Begins
<1>3. Nat \subseteq S
  <2> HIDE DEF S
  <2> QED BY <1>1, <1>2, SetInduction
<1> QED BY <1>3

Continues(f, V, a, g) ==
  /\ f \in [Nat -> V]
  /\ f[0] = a
  /\ \A i \in Nat : f[i + 1] = g[<<i, f[i]>>]

LEMMA RecursionOnNat ==
  ASSUME NEW V, NEW a \in V, NEW g \in [Nat \X V -> V]
  PROVE  \E f : Continues(f, V, a, g)
<1> DEFINE S == {n \in Nat : \E f : Begins(f, n, V, a, g)}
           F(n) == CHOOSE f : Begins(f, n, V, a, g)
           r == [n \in Nat |-> F(n)[n]]
<1>1. 0 \in S
  <2> DEFINE f0 == [i \in 0 .. 0 |-> a]
  <2>1. Begins(f0, 0, V, a, g)
    BY DEF Begins
  <2> QED BY <2>1
<1>2. ASSUME NEW n \in Nat, n \in S PROVE n + 1 \in S
  <2>1. PICK f : Begins(f, n, V, a, g)
    BY <1>2
  <2> DEFINE h == [i \in 0 .. n + 1 |-> IF i = n + 1 THEN g[<<n, f[n]>>] ELSE f[i]]
  <2>2. f[n] \in V /\ g[<<n, f[n]>>] \in V
    BY <2>1 DEF Begins
  <2>3. h \in [0 .. n + 1 -> V]
    BY <2>1, <2>2 DEF Begins
  <2>4. \A i \in 0 .. n : h[i] = f[i]
    OBVIOUS
  <2>5. h[n + 1] = g[<<n, f[n]>>]
    OBVIOUS
  <2> HIDE DEF h
  <2>6. h[0] = a
    BY <2>1, <2>4 DEF Begins
  <2>7. ASSUME NEW i \in 0 .. n PROVE h[i + 1] = g[<<i, h[i]>>]
    <3>1. CASE i = n
      BY <2>4, <2>5, <3>1
    <3>2. CASE i \in 0 .. n - 1
      <4>1. h[i + 1] = f[i + 1] /\ h[i] = f[i]
        BY <2>4, <3>2
      <4> QED BY <2>1, <3>2, <4>1 DEF Begins
    <3> QED BY <3>1, <3>2
  <2>8. Begins(h, n + 1, V, a, g)
    BY <2>3, <2>6, <2>7 DEF Begins
  <2> QED BY <2>8
<1>3. Nat \subseteq S
  <2> HIDE DEF S
  <2> QED BY <1>1, <1>2, SetInduction
<1>4. \A n \in Nat : Begins(F(n), n, V, a, g)
  BY <1>3
<1> HIDE DEF F
<1>5. r \in [Nat -> V]
  BY <1>4 DEF Begins
<1>6. r[0] = a
  BY <1>4 DEF Begins
<1>7. ASSUME NEW n \in Nat PROVE r[n + 1] = g[<<n, r[n]>>]
  <2>1. F(n + 1)[n + 1] = g[<<n, F(n + 1)[n]>>]
    <3>1. Begins(F(n + 1), n + 1, V, a, g) /\ n \in 0 .. (n + 1) - 1
      BY <1>4
    <3> QED BY <3>1 DEF Begins
  <2>2. F(n)[n] = F(n + 1)[n]
    <3>1. Begins(F(n), n, V, a, g) /\ Begins(F(n + 1), n + 1, V, a, g)
      BY <1>4
    <3> QED BY <3>1, BeginningsAgree
  <2> QED BY <2>1, <2>2
<1> QED BY <1>5, <1>6, <1>7 DEF Continues

(***************************************************************************)
(* The members of a set in increasing order.                                *)
(***************************************************************************)

LEMMA InOrderSteps ==
  ASSUME NEW set
  PROVE  /\ InOrder(set, 0) = <<>>
         /\ \A n \in Nat :
              /\ InOrder(set, n) \in Seq(Nat)
              /\ InOrder(set, n + 1) = IF n + 1 \in set THEN Append(InOrder(set, n), n + 1)
                                       ELSE InOrder(set, n)
<1> DEFINE V == Seq(Nat)
           g == [p \in Nat \X V |-> IF p[1] + 1 \in set THEN Append(p[2], p[1] + 1) ELSE p[2]]
           Step(f, i) == IF i = 0 THEN <<>>
                         ELSE IF i \in set THEN Append(f[i - 1], i) ELSE f[i - 1]
           upTo == CHOOSE f : f = [i \in Nat |-> Step(f, i)]
<1>1. g \in [Nat \X V -> V] /\ <<>> \in V
  OBVIOUS
<1>2. PICK f : Continues(f, V, <<>>, g)
  <2> HIDE DEF g, V
  <2> QED BY <1>1, RecursionOnNat
<1>3. \A i \in Nat : f[i + 1] = IF i + 1 \in set THEN Append(f[i], i + 1) ELSE f[i]
  <2> TAKE i \in Nat
  <2>1. <<i, f[i]>> \in Nat \X V
    BY <1>2 DEF Continues
  <2> QED BY <1>2, <2>1 DEF Continues
<1> HIDE DEF g
<1>4. \A i \in Nat : f[i] = Step(f, i)
  <2> TAKE i \in Nat
  <2>1. CASE i = 0
    BY <1>2, <2>1 DEF Continues
  <2>2. CASE i # 0
    <3>1. i - 1 \in Nat /\ (i - 1) + 1 = i
      BY <2>2
    <3>2. f[(i - 1) + 1] = IF (i - 1) + 1 \in set THEN Append(f[i - 1], (i - 1) + 1) ELSE f[i - 1]
      BY <1>3, <3>1
    <3> QED BY <2>2, <3>1, <3>2
  <2> QED BY <2>1, <2>2
<1>5. f = [i \in Nat |-> Step(f, i)]
  <2> HIDE DEF Step
  <2> QED BY <1>2, <1>4 DEF Continues
<1>6. upTo = [i \in Nat |-> Step(upTo, i)]
  <2> HIDE DEF Step
  <2> QED BY <1>5
<1>7. \A n : InOrder(set, n) = upTo[n]
  BY DEF InOrder
<1> HIDE DEF upTo
<1>8. \A i \in Nat : upTo[i] = Step(upTo, i)
  <2> HIDE DEF Step
  <2> QED BY <1>6
<1>9. upTo[0] = <<>>
  BY <1>8
<1>10. \A i \in Nat : upTo[i + 1] = IF i + 1 \in set THEN Append(upTo[i], i + 1) ELSE upTo[i]
  <2> TAKE i \in Nat
  <2>1. i + 1 \in Nat /\ i + 1 # 0 /\ (i + 1) - 1 = i
    OBVIOUS
  <2>2. upTo[i + 1] = Step(upTo, i + 1)
    BY <1>8, <2>1
  <2> QED BY <2>1, <2>2
<1>11. \A n \in Nat : upTo[n] \in Seq(Nat)
  <2> DEFINE S == {n \in Nat : upTo[n] \in Seq(Nat)}
  <2>1. 0 \in S
    <3>1. <<>> \in Seq(Nat) /\ 0 \in Nat
      OBVIOUS
    <3> HIDE DEF upTo, V, Step
    <3> QED BY <1>9, <3>1
  <2>2. ASSUME NEW n \in Nat, n \in S PROVE n + 1 \in S
    <3>1. n + 1 \in Nat /\ upTo[n] \in Seq(Nat)
      BY <2>2
    <3>2. Append(upTo[n], n + 1) \in Seq(Nat)
      BY <3>1
    <3> QED BY <1>10, <3>1, <3>2
  <2>3. Nat \subseteq S
    <3> HIDE DEF S
    <3> QED BY <2>1, <2>2, SetInduction
  <2> QED BY <2>3
<1> QED BY <1>7, <1>9, <1>10, <1>11

\* A sequence lists what of a set is among 1 .. n, in increasing order.
Lists(seq, set, n) ==
  /\ seq \in Seq(Nat)
  /\ \A i \in DOMAIN seq : seq[i] \in set /\ seq[i] \in 1 .. n
  /\ \A p \in 1 .. n : p \in set => \E i \in DOMAIN seq : seq[i] = p
  /\ \A i, j \in DOMAIN seq : i < j => seq[i] < seq[j]

\* How a sequence grows at its end.
LEMMA AppendedIs ==
  ASSUME NEW S, NEW seq \in Seq(S), NEW e \in S
  PROVE  /\ Append(seq, e) \in Seq(S) /\ Len(Append(seq, e)) = Len(seq) + 1
         /\ Len(seq) \in Nat /\ DOMAIN seq = 1 .. Len(seq)
         /\ DOMAIN Append(seq, e) = 1 .. Len(seq) + 1
         /\ Append(seq, e)[Len(seq) + 1] = e
         /\ \A i \in 1 .. Len(seq) : Append(seq, e)[i] = seq[i]
OBVIOUS

LEMMA ListsOneMore ==
  ASSUME NEW set, NEW n \in Nat, NEW seq, Lists(seq, set, n)
  PROVE  Lists(IF n + 1 \in set THEN Append(seq, n + 1) ELSE seq, set, n + 1)
<1>1. /\ seq \in Seq(Nat)
      /\ \A i \in DOMAIN seq : seq[i] \in set /\ seq[i] \in 1 .. n
      /\ \A p \in 1 .. n : p \in set => \E i \in DOMAIN seq : seq[i] = p
      /\ \A i, j \in DOMAIN seq : i < j => seq[i] < seq[j]
  BY DEF Lists
<1>2. 1 .. n + 1 = (1 .. n) \cup {n + 1}
  OBVIOUS
<1>3. CASE n + 1 \notin set
  <2>1. \A i \in DOMAIN seq : seq[i] \in set /\ seq[i] \in 1 .. n + 1
    BY <1>1, <1>2
  <2>2. \A p \in 1 .. n + 1 : p \in set => \E i \in DOMAIN seq : seq[i] = p
    BY <1>1, <1>2, <1>3
  <2> QED BY <1>1, <1>3, <2>1, <2>2 DEF Lists
<1>4. CASE n + 1 \in set
  <2> DEFINE new == Append(seq, n + 1)
             l == Len(seq)
  <2>1. /\ new \in Seq(Nat) /\ l \in Nat /\ DOMAIN seq = 1 .. l
        /\ DOMAIN new = 1 .. l + 1 /\ 1 .. l + 1 = (1 .. l) \cup {l + 1}
        /\ new[l + 1] = n + 1 /\ \A i \in 1 .. l : new[i] = seq[i]
    BY <1>1, AppendedIs
  <2> HIDE DEF new, l
  <2>2. \A i \in DOMAIN new : new[i] \in set /\ new[i] \in 1 .. n + 1
    <3> TAKE i \in DOMAIN new
    <3>1. CASE i = l + 1
      BY <1>2, <1>4, <2>1, <3>1
    <3>2. CASE i \in 1 .. l
      BY <1>1, <1>2, <2>1, <3>2
    <3> QED BY <2>1, <3>1, <3>2
  <2>3. \A p \in 1 .. n + 1 : p \in set => \E i \in DOMAIN new : new[i] = p
    <3> SUFFICES ASSUME NEW p \in 1 .. n + 1, p \in set
                 PROVE  \E i \in DOMAIN new : new[i] = p
      OBVIOUS
    <3>1. CASE p = n + 1
      BY <2>1, <3>1
    <3>2. CASE p \in 1 .. n
      <4>1. PICK i \in DOMAIN seq : seq[i] = p
        BY <1>1, <3>2
      <4> QED BY <2>1, <4>1
    <3> QED BY <1>2, <3>1, <3>2
  <2>4. \A i, j \in DOMAIN new : i < j => new[i] < new[j]
    <3> SUFFICES ASSUME NEW i \in DOMAIN new, NEW j \in DOMAIN new, i < j
                 PROVE  new[i] < new[j]
      OBVIOUS
    <3>1. i \in 1 .. l
      BY <2>1
    <3>2. CASE j = l + 1
      <4>1. seq[i] \in 1 .. n
        BY <1>1, <2>1, <3>1
      <4> QED BY <2>1, <3>1, <3>2, <4>1
    <3>3. CASE j \in 1 .. l
      BY <1>1, <2>1, <3>1, <3>3
    <3> QED BY <2>1, <3>2, <3>3
  <2> QED BY <1>4, <2>1, <2>2, <2>3, <2>4 DEF Lists, new
<1> QED BY <1>3, <1>4

LEMMA InOrderIs ==
  ASSUME NEW set, NEW n \in Nat
  PROVE  Lists(InOrder(set, n), set, n)
<1> DEFINE S == {m \in Nat : Lists(InOrder(set, m), set, m)}
<1>1. 0 \in S
  <2>1. InOrder(set, 0) = <<>> /\ <<>> \in Seq(Nat) /\ DOMAIN <<>> = {} /\ 1 .. 0 = {}
    BY InOrderSteps
  <2> QED BY <2>1 DEF Lists
<1>2. ASSUME NEW m \in Nat, m \in S PROVE m + 1 \in S
  <2>1. Lists(IF m + 1 \in set THEN Append(InOrder(set, m), m + 1) ELSE InOrder(set, m),
              set, m + 1)
    BY <1>2, ListsOneMore
  <2>2. InOrder(set, m + 1) = IF m + 1 \in set THEN Append(InOrder(set, m), m + 1)
                              ELSE InOrder(set, m)
    BY InOrderSteps
  <2> QED BY <2>1, <2>2
<1>3. Nat \subseteq S
  <2> HIDE DEF S
  <2> QED BY <1>1, <1>2, SetInduction
<1> QED BY <1>3

\* What counts of a set is which numbers up to the last it has.
LEMMA InOrderSame ==
  ASSUME NEW set, NEW other, NEW n \in Nat,
         \A p \in 1 .. n : p \in set <=> p \in other
  PROVE  InOrder(set, n) = InOrder(other, n)
<1> DEFINE S == {m \in Nat : m <= n => InOrder(set, m) = InOrder(other, m)}
<1>1. 0 \in S
  BY InOrderSteps
<1>2. ASSUME NEW m \in Nat, m \in S PROVE m + 1 \in S
  <2> SUFFICES ASSUME m + 1 <= n PROVE InOrder(set, m + 1) = InOrder(other, m + 1)
    OBVIOUS
  <2>1. (m + 1 \in set) = (m + 1 \in other)
    OBVIOUS
  <2>2. InOrder(set, m) = InOrder(other, m)
    BY <1>2
  <2>3. /\ InOrder(set, m + 1) = IF m + 1 \in set THEN Append(InOrder(set, m), m + 1)
                                 ELSE InOrder(set, m)
        /\ InOrder(other, m + 1) = IF m + 1 \in other THEN Append(InOrder(other, m), m + 1)
                                   ELSE InOrder(other, m)
    BY InOrderSteps
  <2> QED BY <2>1, <2>2, <2>3
<1>3. Nat \subseteq S
  <2> HIDE DEF S
  <2> QED BY <1>1, <1>2, SetInduction
<1> QED BY <1>3

-----------------------------------------------------------------------------
(***************************************************************************)
(* Places in a list: the k-th thing that ends ends where the list says, and *)
(* begins after the one before it.                                          *)
(***************************************************************************)

\* A list is a function of its places.
LEMMA ListedType ==
  ASSUME NEW set, NEW n \in Nat, NEW seq, Lists(seq, set, n)
  PROVE  /\ Len(seq) \in Nat /\ DOMAIN seq = 1 .. Len(seq)
         /\ \A k \in 1 .. Len(seq) : seq[k] \in 1 .. n /\ seq[k] \in Nat /\ seq[k] \in set
<1>1. seq \in Seq(Nat)
  BY DEF Lists
<1>2. Len(seq) \in Nat /\ DOMAIN seq = 1 .. Len(seq)
  BY <1>1
<1>3. \A k \in DOMAIN seq : seq[k] \in set /\ seq[k] \in 1 .. n
  BY DEF Lists
<1> QED BY <1>2, <1>3

LEMMA ListedGrows ==
  ASSUME NEW set, NEW n \in Nat, NEW seq, Lists(seq, set, n),
         NEW i \in 1 .. Len(seq), NEW j \in 1 .. Len(seq), i < j
  PROVE  seq[i] < seq[j]
<1>1. i \in DOMAIN seq /\ j \in DOMAIN seq
  BY ListedType
<1> QED BY <1>1 DEF Lists

LEMMA ListedHas ==
  ASSUME NEW set, NEW n \in Nat, NEW seq, Lists(seq, set, n),
         NEW p \in 1 .. n, p \in set
  PROVE  \E i \in 1 .. Len(seq) : seq[i] = p
<1>1. \E i \in DOMAIN seq : seq[i] = p
  BY DEF Lists
<1> QED BY <1>1, ListedType

LEMMA StartIs ==
  ASSUME NEW set, NEW n \in Nat, NEW seq, Lists(seq, set, n),
         NEW k \in 1 .. Len(seq)
  PROVE  Start(seq, k) \in 1 .. seq[k]
<1>1. CASE k = 1
  BY <1>1, ListedType DEF Start
<1>2. CASE k # 1
  <2>1. k - 1 \in 1 .. Len(seq) /\ k \in 1 .. Len(seq) /\ k - 1 < k
    BY <1>2, ListedType
  <2>2. seq[k - 1] < seq[k] /\ seq[k - 1] \in Nat /\ seq[k] \in Nat
    BY <2>1, ListedType, ListedGrows
  <2>3. Start(seq, k) = seq[k - 1] + 1
    BY <1>2 DEF Start
  <2> QED BY <2>2, <2>3
<1> QED BY <1>1, <1>2

\* Whoever has passed the k-th place and not the next one is at the next one
\* with the next member of the set.
LEMMA NextListed ==
  ASSUME NEW set, NEW n \in Nat, NEW seq, Lists(seq, set, n),
         NEW k \in Nat, k < Len(seq), NEW p \in Nat,
         Start(seq, k + 1) <= p + 1, p < seq[k + 1]
  PROVE  IF p + 1 \in set THEN seq[k + 1] = p + 1 ELSE p + 1 < seq[k + 1]
<1>1. k + 1 \in 1 .. Len(seq) /\ seq[k + 1] \in 1 .. n /\ seq[k + 1] \in set
  <2>1. Len(seq) \in Nat
    BY ListedType
  <2>2. k + 1 \in 1 .. Len(seq)
    BY <2>1
  <2> QED BY <2>2, ListedType
<1>2. CASE p + 1 \notin set
  BY <1>1, <1>2
<1>3. CASE p + 1 \in set
  <2>1. p + 1 \in 1 .. n
    BY <1>1
  <2>2. PICK i \in 1 .. Len(seq) : seq[i] = p + 1
    BY <1>3, <2>1, ListedHas
  <2>3. CASE i < k + 1
    <3>1. k # 0 /\ k \in 1 .. Len(seq) /\ i <= k /\ k + 1 # 1 /\ (k + 1) - 1 = k
      BY <1>1, <2>2, <2>3, ListedType
    <3>2. Start(seq, k + 1) = seq[k] + 1 /\ seq[k] \in Nat
      BY <3>1, ListedType DEF Start
    <3>3. i = k \/ seq[i] < seq[k]
      BY <2>2, <3>1, ListedGrows
    <3> QED BY <2>2, <3>2, <3>3
  <2>4. CASE i = k + 1
    BY <1>3, <2>2, <2>4
  <2>5. CASE k + 1 < i
    <3>1. seq[k + 1] < seq[i]
      BY <1>1, <2>2, <2>5, ListedGrows
    <3> QED BY <1>1, <2>2, <3>1
  <2>6. i \in Nat
    BY <2>2, ListedType
  <2> QED BY <2>3, <2>4, <2>5, <2>6
<1> QED BY <1>2, <1>3

\* The last member of the set is the last in the list.
IsLast(last, set, n) ==
  /\ last \in set
  /\ last \in 1 .. n
  /\ \A p \in 1 .. n : p \in set => p <= last

LEMMA LastListed ==
  ASSUME NEW set, NEW n \in Nat, NEW seq, Lists(seq, set, n),
         NEW last, IsLast(last, set, n)
  PROVE  /\ Len(seq) # 0
         /\ seq[Len(seq)] = last
         /\ \A k \in 1 .. Len(seq) : (seq[k] = last) = (k = Len(seq))
<1>1. PICK i \in 1 .. Len(seq) : seq[i] = last
  BY ListedHas DEF IsLast
<1>2. Len(seq) \in 1 .. Len(seq) /\ Len(seq) # 0
  BY <1>1, ListedType
<1>3. \A k \in 1 .. Len(seq) : seq[k] <= last
  BY ListedType DEF IsLast
<1>4. \A k \in 1 .. Len(seq) : k < Len(seq) => seq[k] < seq[Len(seq)]
  BY <1>2, ListedGrows
<1>5. seq[Len(seq)] = last
  <2>1. seq[Len(seq)] \in Nat /\ seq[Len(seq)] <= last
    BY <1>2, <1>3, ListedType
  <2>2. i = Len(seq) \/ seq[i] < seq[Len(seq)]
    BY <1>1, <1>2, <1>4, ListedType
  <2>3. last \in Nat
    BY <1>1, ListedType
  <2> QED BY <1>1, <2>1, <2>2, <2>3
<1>6. ASSUME NEW k \in 1 .. Len(seq) PROVE (seq[k] = last) = (k = Len(seq))
  <2>0. seq[k] \in Nat /\ Len(seq) \in Nat
    BY ListedType
  <2>1. k \in Nat /\ k <= Len(seq)
    BY <2>0
  <2>2. k < Len(seq) => seq[k] < last
    BY <1>4, <1>5
  <2> QED BY <1>5, <2>0, <2>1, <2>2
<1> QED BY <1>2, <1>5, <1>6

(***************************************************************************)
(* How each character of a text is read.                                    *)
(***************************************************************************)
LEMMA ModeSteps ==
  ASSUME NEW t \in Seq(Chars)
  PROVE  /\ Mode(t)[1] = "plain"
         /\ \A i \in 1 .. Len(t) : Mode(t)[i + 1] = ModeAfter(Mode(t)[i], t[i])
<1> DEFINE V == {"plain", "quoted", "escaped"}
           g == [p \in Nat \X V |-> ModeAfter(p[2], t[p[1] + 1])]
           Step(f, i) == IF i = 1 THEN "plain" ELSE ModeAfter(f[i - 1], t[i - 1])
           mode == CHOOSE f : f = [i \in 1 .. Len(t) + 1 |-> Step(f, i)]
<1>1. g \in [Nat \X V -> V] /\ "plain" \in V
  <2>1. \A m \in V : \A c : ModeAfter(m, c) \in V
    BY DEF ModeAfter
  <2> QED BY <2>1
<1>2. PICK f : Continues(f, V, "plain", g)
  <2> HIDE DEF g, V
  <2> QED BY <1>1, RecursionOnNat
<1>3. \A i \in Nat : f[i + 1] = ModeAfter(f[i], t[i + 1])
  <2> TAKE i \in Nat
  <2>1. <<i, f[i]>> \in Nat \X V
    BY <1>2 DEF Continues
  <2> QED BY <1>2, <2>1 DEF Continues
<1>4. f[0] = "plain"
  BY <1>2 DEF Continues
<1> HIDE DEF g, V
<1>5. Len(t) \in Nat
  OBVIOUS
<1> DEFINE m == [i \in 1 .. Len(t) + 1 |-> f[i - 1]]
<1>6. \A i \in 1 .. Len(t) + 1 : m[i] = Step(m, i)
  <2> TAKE i \in 1 .. Len(t) + 1
  <2>1. CASE i = 1
    BY <1>4, <1>5, <2>1
  <2>2. CASE i # 1
    <3>1. i - 1 \in 1 .. Len(t) + 1 /\ (i - 1) - 1 \in Nat /\ ((i - 1) - 1) + 1 = i - 1
      BY <1>5, <2>2
    <3>2. m[i] = f[i - 1] /\ m[i - 1] = f[(i - 1) - 1]
      BY <3>1
    <3>3. f[((i - 1) - 1) + 1] = ModeAfter(f[(i - 1) - 1], t[((i - 1) - 1) + 1])
      BY <1>3, <3>1
    <3> QED BY <2>2, <3>1, <3>2, <3>3
  <2> QED BY <2>1, <2>2
<1>7. m = [i \in 1 .. Len(t) + 1 |-> Step(m, i)]
  <2>1. m = [i \in 1 .. Len(t) + 1 |-> m[i]]
    OBVIOUS
  <2> HIDE DEF Step, m
  <2> QED BY <1>6, <2>1
<1> HIDE DEF m
<1>8. mode = [i \in 1 .. Len(t) + 1 |-> Step(mode, i)]
  <2> HIDE DEF Step
  <2> QED BY <1>7
<1>9. Mode(t) = mode
  BY DEF Mode
<1> HIDE DEF mode
<1>10. \A i \in 1 .. Len(t) + 1 : mode[i] = Step(mode, i)
  <2> HIDE DEF Step
  <2> QED BY <1>8
<1>11. mode[1] = "plain"
  BY <1>5, <1>10
<1>12. \A i \in 1 .. Len(t) : mode[i + 1] = ModeAfter(mode[i], t[i])
  <2> TAKE i \in 1 .. Len(t)
  <2>1. i + 1 \in 1 .. Len(t) + 1 /\ i + 1 # 1 /\ (i + 1) - 1 = i
    BY <1>5
  <2>2. mode[i + 1] = Step(mode, i + 1)
    BY <1>10, <2>1
  <2> QED BY <2>1, <2>2
<1> QED BY <1>9, <1>11, <1>12

(***************************************************************************)
(* The cells of a text.                                                     *)
(***************************************************************************)

\* The places where cells end, and which of them is the last.
LastPlace(t) == IF HasTail(t) THEN Len(t) + 1 ELSE Len(t)

LEMMA EndsAre ==
  ASSUME NEW t \in Seq(Chars)
  PROVE  /\ Len(t) \in Nat
         /\ Lists(Ends(t), EndPlaces(t), Len(t) + 1)
         /\ Len(Ends(t)) \in Nat \ {0}
         /\ \A k \in 1 .. Len(Ends(t)) : (Ends(t)[k] = LastPlace(t)) = (k = Len(Ends(t)))
<1>1. Len(t) \in Nat /\ Len(t) + 1 \in Nat
  OBVIOUS
<1>2. Lists(Ends(t), EndPlaces(t), Len(t) + 1)
  BY <1>1, InOrderIs DEF Ends
<1>3. LastPlace(t) \in EndPlaces(t) /\ LastPlace(t) \in 1 .. Len(t) + 1
  <2>1. CASE HasTail(t)
    BY <1>1, <2>1 DEF LastPlace, EndPlaces
  <2>2. CASE ~HasTail(t)
    BY <1>1, <2>2 DEF LastPlace, EndPlaces, HasTail, Separators
  <2> QED BY <2>1, <2>2
<1>4. \A p \in 1 .. Len(t) + 1 : p \in EndPlaces(t) => p <= LastPlace(t)
  BY <1>1 DEF LastPlace, EndPlaces, Separators
<1>5. Len(Ends(t)) \in Nat
  BY <1>1, <1>2, ListedType
<1>6. /\ Len(Ends(t)) # 0
      /\ \A k \in 1 .. Len(Ends(t)) : (Ends(t)[k] = LastPlace(t)) = (k = Len(Ends(t)))
  <2>1. IsLast(LastPlace(t), EndPlaces(t), Len(t) + 1)
    BY <1>3, <1>4 DEF IsLast
  <2> QED BY <1>1, <1>2, <2>1, LastListed
<1> QED BY <1>1, <1>2, <1>5, <1>6

\* No character is kept of no place.
LEMMA KeptNone ==
  ASSUME NEW t, NEW n \in Nat
  PROVE  KeptFrom(t, n + 1, n) = <<>>
<1> DEFINE places == InOrder({i \in n + 1 .. n : IsKept(t, i)}, n)
<1>1. Lists(places, {i \in n + 1 .. n : IsKept(t, i)}, n)
  BY InOrderIs
<1>2. \A k \in 1 .. Len(places) : places[k] \in n + 1 .. n
  <2> HIDE DEF places
  <2> QED BY <1>1, ListedType
<1>3. Len(places) \in Nat /\ DOMAIN places = 1 .. Len(places)
  <2> HIDE DEF places
  <2> QED BY <1>1, ListedType
<1>4. DOMAIN places = {}
  <2> HIDE DEF places
  <2> QED BY <1>2, <1>3
<1>5. KeptFrom(t, n + 1, n) = [i \in DOMAIN places |-> t[places[i]]]
  BY DEF KeptFrom
<1>6. [i \in DOMAIN places |-> t[places[i]]] = <<>>
  <2> HIDE DEF places
  <2> QED BY <1>4
<1> QED BY <1>5, <1>6

-----------------------------------------------------------------------------
\* What is kept grows with the place by the characters that are kept.
LEMMA KeptStep ==
  ASSUME NEW t \in Seq(Chars), NEW f \in Nat \ {0}, NEW p \in Nat, f <= p + 1, p < Len(t)
  PROVE  /\ KeptFrom(t, f, p) \in Seq(Chars)
         /\ KeptFrom(t, f, p + 1) = IF IsKept(t, p + 1) THEN Append(KeptFrom(t, f, p), t[p + 1])
                                    ELSE KeptFrom(t, f, p)
<1> DEFINE less == {i \in f .. p : IsKept(t, i)}
           more == {i \in f .. p + 1 : IsKept(t, i)}
           places == InOrder(less, p)
           kept == KeptFrom(t, f, p)
           l == Len(places)
<1>1. Lists(places, less, p)
  BY InOrderIs
<1>2. \A i \in 1 .. l : places[i] \in 1 .. p
  <2> HIDE DEF less, places
  <2> QED BY <1>1, ListedType
<1>3. l \in Nat /\ DOMAIN places = 1 .. l /\ places \in Seq(Nat)
  <2> HIDE DEF less, places
  <2> QED BY <1>1, ListedType DEF Lists
<1>4. kept = [i \in 1 .. l |-> t[places[i]]]
  BY <1>3 DEF KeptFrom
<1>5. \A i \in 1 .. Len(t) : t[i] \in Chars
  OBVIOUS
<1>6. \A i \in 1 .. l : t[places[i]] \in Chars
  <2> HIDE DEF places, l
  <2> TAKE i \in 1 .. l
  <2>1. places[i] \in 1 .. Len(t)
    BY <1>2
  <2> QED BY <1>5, <2>1
<1>7. kept \in Seq(Chars) /\ Len(kept) = l
  <2> HIDE DEF places, l, kept
  <2> QED BY <1>3, <1>4, <1>6
<1>8. InOrder(more, p) = places
  <2>1. \A q \in 1 .. p : q \in more <=> q \in less
    OBVIOUS
  <2> HIDE DEF more, less
  <2> QED BY <2>1, InOrderSame
<1>9. InOrder(more, p + 1) = IF p + 1 \in more THEN Append(places, p + 1) ELSE places
  <2> HIDE DEF more, places
  <2> QED BY <1>8, InOrderSteps
<1>10. p + 1 \in more <=> IsKept(t, p + 1)
  OBVIOUS
<1> DEFINE new == InOrder(more, p + 1)
<1>11. KeptFrom(t, f, p + 1) = [i \in DOMAIN new |-> t[new[i]]]
  BY DEF KeptFrom
<1> HIDE DEF more, less, places, kept, new, l
<1>12. CASE ~IsKept(t, p + 1)
  <2>1. new = places
    BY <1>9, <1>10, <1>12 DEF new
  <2>2. KeptFrom(t, f, p + 1) = kept
    BY <1>3, <1>4, <1>11, <2>1
  <2> QED BY <1>7, <1>12, <2>2 DEF kept
<1>13. CASE IsKept(t, p + 1)
  <2>1. new = Append(places, p + 1)
    BY <1>9, <1>10, <1>13 DEF new
  <2>2. /\ DOMAIN new = 1 .. l + 1 /\ new[l + 1] = p + 1
        /\ \A i \in 1 .. l : new[i] = places[i]
    BY <1>3, <2>1, AppendedIs DEF l
  <2>3. t[p + 1] \in Chars
    BY <1>5
  <2> DEFINE longer == Append(kept, t[p + 1])
  <2>4. /\ longer \in Seq(Chars) /\ DOMAIN longer = 1 .. l + 1 /\ longer[l + 1] = t[p + 1]
        /\ \A i \in 1 .. l : longer[i] = kept[i]
    BY <1>7, <2>3, AppendedIs
  <2> HIDE DEF longer
  <2>5. longer = [i \in 1 .. l + 1 |-> longer[i]]
    BY <2>4
  <2>6. 1 .. l + 1 = (1 .. l) \cup {l + 1}
    BY <1>3
  <2>7. \A i \in 1 .. l + 1 : longer[i] = t[new[i]]
    BY <1>4, <2>2, <2>4, <2>6
  <2>8. KeptFrom(t, f, p + 1) = longer
    BY <1>11, <2>2, <2>5, <2>7
  <2> QED BY <1>7, <1>13, <2>8 DEF kept, longer
<1> QED BY <1>12, <1>13

(***************************************************************************)
(* The rows of a text.                                                      *)
(***************************************************************************)
LastsOfRows(t) == {k \in DOMAIN Ends(t) : LastOfRow(t, Ends(t), k)}

EndsOfRows(t) == RowEnds(t, Ends(t))

LEMMA RowEndsAre ==
  ASSUME NEW t \in Seq(Chars)
  PROVE  /\ Lists(EndsOfRows(t), LastsOfRows(t), Len(Ends(t)))
         /\ Len(EndsOfRows(t)) \in Nat \ {0}
         /\ \A r \in 1 .. Len(EndsOfRows(t)) :
              (EndsOfRows(t)[r] = Len(Ends(t))) = (r = Len(EndsOfRows(t)))
<1> DEFINE n == Len(Ends(t))
<1>1. n \in Nat \ {0} /\ DOMAIN Ends(t) = 1 .. n
  BY EndsAre, ListedType
<1>2. Lists(EndsOfRows(t), LastsOfRows(t), n)
  BY <1>1, InOrderIs DEF RowEnds, EndsOfRows, LastsOfRows
<1>3. IsLast(n, LastsOfRows(t), n)
  <2>1. n \in LastsOfRows(t)
    BY <1>1 DEF LastsOfRows, LastOfRow
  <2> QED BY <1>1, <2>1 DEF IsLast
<1>4. Len(EndsOfRows(t)) \in Nat
  BY <1>1, <1>2, ListedType
<1> HIDE DEF n
<1>5. /\ Len(EndsOfRows(t)) # 0
      /\ \A r \in 1 .. Len(EndsOfRows(t)) :
           (EndsOfRows(t)[r] = n) = (r = Len(EndsOfRows(t)))
  BY <1>1, <1>2, <1>3, LastListed
<1> QED BY <1>2, <1>4, <1>5 DEF n

\* The rows of a text, row by row and cell by cell.
LEMMA RowsAre ==
  ASSUME NEW t \in Seq(Chars)
  PROVE  /\ DOMAIN RowsOf(t) = 1 .. Len(EndsOfRows(t))
         /\ Len(RowsOf(t)) = Len(EndsOfRows(t))
         /\ \A r \in 1 .. Len(EndsOfRows(t)) :
              RowsOf(t)[r] = RowAt(t, Ends(t), Start(EndsOfRows(t), r), EndsOfRows(t)[r])
<1> DEFINE n == Len(EndsOfRows(t))
<1>1. n \in Nat /\ DOMAIN EndsOfRows(t) = 1 .. n
  BY RowEndsAre, EndsAre, ListedType
<1>2. RowsOf(t) = [r \in 1 .. n |-> RowAt(t, Ends(t), Start(EndsOfRows(t), r), EndsOfRows(t)[r])]
  BY <1>1 DEF RowsOf, RowsOfCells, RowsEndingAt, EndsOfRows
<1> HIDE DEF n
<1>3. DOMAIN RowsOf(t) = 1 .. n /\ Len(RowsOf(t)) = n
  BY <1>1, <1>2
<1> QED BY <1>2, <1>3 DEF n

LEMMA RowIs ==
  ASSUME NEW t \in Seq(Chars), NEW r \in 1 .. Len(EndsOfRows(t)),
         NEW row, row = RowsOf(t)[r]
  PROVE  /\ Start(EndsOfRows(t), r) \in Nat \ {0} /\ EndsOfRows(t)[r] \in Nat
         /\ Start(EndsOfRows(t), r) <= EndsOfRows(t)[r]
         /\ EndsOfRows(t)[r] <= Len(Ends(t))
         /\ DOMAIN row = 1 .. EndsOfRows(t)[r] - Start(EndsOfRows(t), r) + 1
         /\ Len(row) = EndsOfRows(t)[r] - Start(EndsOfRows(t), r) + 1
         /\ \A k \in 1 .. EndsOfRows(t)[r] - Start(EndsOfRows(t), r) + 1 :
              row[k] = CellAt(t, Ends(t), Start(EndsOfRows(t), r) + k - 1)
<1> DEFINE a == Start(EndsOfRows(t), r)
           b == EndsOfRows(t)[r]
<1>1. b \in 1 .. Len(Ends(t)) /\ b \in Nat
  BY RowEndsAre, EndsAre, ListedType
<1>2. a \in 1 .. b
  BY RowEndsAre, EndsAre, StartIs
<1>3. row = [k \in 1 .. b - a + 1 |-> CellAt(t, Ends(t), a + k - 1)]
  BY RowsAre DEF RowAt
<1> HIDE DEF a, b
<1>4. a \in Nat \ {0} /\ a <= b /\ b <= Len(Ends(t)) /\ b - a + 1 \in Nat
  BY <1>1, <1>2
<1>5. DOMAIN row = 1 .. b - a + 1 /\ Len(row) = b - a + 1
  BY <1>3, <1>4
<1> QED BY <1>1, <1>3, <1>4, <1>5 DEF a, b

-----------------------------------------------------------------------------
(***************************************************************************)
(* The types of the program's own variables, after failed reads too.        *)
(***************************************************************************)
ParserTypes ==
  /\ state \in States
  /\ token \in Seq(Chars)
  /\ cell \in Seq(Chars)
  /\ cells \in Seq([value : Seq(Chars), end : States])
  /\ step \in {"idle", "token", "cell", "row", "end"}

Column == [total : Nat, missing : Nat]

FileTypes ==
  /\ fileNo \in 1 .. Len(args.files) + 1
  /\ phase \in {"header", "data"} => fileNo <= Len(args.files)
  /\ skips \in Nat
  /\ errors \in Seq([kind : Kinds, file : Nat])
  /\ unread \in SUBSET (1 .. Len(args.files))
  /\ phase \in {"open", "header", "data", "reported", "found"}
  /\ step = "token" => phase \in {"header", "data"}

CountTypes ==
  /\ toSkip \in Nat
  /\ phase = "header" => toSkip # 0
  /\ columns \in Seq(Column)
  /\ count \in Nat
  /\ rows \in Nat

Typed == ParserTypes /\ FileTypes /\ CountTypes

LEMMA TypedIsTypeOK == IInv /\ Typed => TypeOK
BY DEF IInv, Buffer, Progress, Typed, ParserTypes, FileTypes, CountTypes, Column,
       TypeOK, ParserTypeOK

\* The command line that was given is one of those that can be given.
LEMMA InputIs ==
  ASSUME IInv
  PROVE  /\ args.files \in Seq(Seq(Chars) \cup {NoSuchFile})
         /\ Len(args.files) \in Nat \ {0}
         /\ args.headers \in Nat
         /\ args.others \in Nat
         /\ MaxCount \in Nat
<1>1. args.files \in Seq(Seq(Chars) \cup {NoSuchFile}) /\ args.files # <<>>
  BY InputsAssumption DEF IInv, Progress
<1>2. Len(args.files) \in Nat \ {0}
  BY <1>1
<1> QED BY <1>1, <1>2, InputsAssumption DEF IInv, Progress

LEMMA InitTyped == Init => Typed
<1> SUFFICES ASSUME Init PROVE Typed
  OBVIOUS
<1>1. <<>> \in Seq(Chars) /\ <<>> \in Seq(Column) /\ <<>> \in Seq([kind : Kinds, file : Nat])
      /\ <<>> \in Seq([value : Seq(Chars), end : States])
  OBVIOUS
<1>2. Len(args.files) \in Nat \ {0} /\ args.headers \in Nat
  BY InitIInv, InputIs
<1>3. ParserTypes
  BY <1>1 DEF Init, ParserInit, ParserTypes, States
<1>4. FileTypes
  BY <1>1, <1>2 DEF Init, ParserInit, FileTypes
<1>5. CountTypes
  BY <1>1 DEF Init, CountTypes
<1> QED BY <1>3, <1>4, <1>5 DEF Typed

LEMMA AfterType ==
  ASSUME NEW s \in States, NEW c, NEW w \in Seq(Chars), c \in Chars
  PROVE  After(s, c) \in States /\ Grown(w, s, c) \in Seq(Chars)
BY DEF After, Grown, States

\* The next character is one of the text.
LEMMA CharIs ==
  ASSUME IInv, CanTake
  PROVE  /\ Pos \in Nat /\ Pos < read /\ Pos < Len(text)
         /\ Char = text[Pos + 1] /\ Char \in Chars
<1>1. Pos \in Nat /\ Pos < read /\ read <= Len(text) /\ Char = text[Pos + 1]
  BY DEF CanTake, Empty, Char, Pos, IInv, Buffer
<1>2. text \in Seq(Chars)
  BY DEF IInv, Buffer
<1>3. Pos + 1 \in 1 .. Len(text) /\ Len(text) \in Nat /\ read \in Nat
  BY <1>1, <1>2 DEF IInv, Buffer
<1>4. text[Pos + 1] \in Chars
  BY <1>2, <1>3
<1> QED BY <1>1, <1>3, <1>4

\* A cell that is handed out.
LEMMA HandOutTypes ==
  ASSUME ParserTypes, NEW atEnd, NEW end \in States, HandOut(atEnd, end)
  PROVE  ParserTypes'
<1> DEFINE last == IF atEnd THEN "END_INPUT" ELSE end
           new == [value |-> token, end |-> last]
<1>1. last \in States
  BY DEF States
<1>2. new \in [value : Seq(Chars), end : States]
  BY <1>1 DEF ParserTypes
<1>3. Append(cells, new) \in Seq([value : Seq(Chars), end : States])
  <2> HIDE DEF new
  <2> QED BY <1>2 DEF ParserTypes
<1>4. cells' \in Seq([value : Seq(Chars), end : States])
  BY <1>3 DEF HandOut, ParserTypes
<1>5. state' \in States /\ token' \in Seq(Chars) /\ cell' \in Seq(Chars) /\ step' = "cell"
  BY <1>1 DEF HandOut, ParserTypes
<1> QED BY <1>4, <1>5 DEF ParserTypes

LEMMA FetchTypes ==
  ASSUME IInv, ParserTypes, FetchToken
  PROVE  ParserTypes'
<1>1. CASE Refill
  BY <1>1 DEF Refill, parserVars, ParserTypes
<1>2. CASE TakeChar
  <2>1. Char \in Chars
    BY <1>2, CharIs DEF TakeChar
  <2>2. After(state, Char) \in States /\ Grown(token, state, Char) \in Seq(Chars)
    BY <2>1, AfterType DEF ParserTypes
  <2>3. CASE Char = Dropped
    BY <1>2, <2>3 DEF TakeChar, parserVars, ParserTypes
  <2>4. CASE Char # Dropped /\ Separates(state, Char)
    <3>1. HandOut(index' = inRead /\ eofbit, After(state, Char))
      BY <1>2, <2>4 DEF TakeChar
    <3> QED BY <2>2, <3>1, HandOutTypes
  <2>5. CASE Char # Dropped /\ ~Separates(state, Char)
    BY <1>2, <2>2, <2>5 DEF TakeChar, ParserTypes
  <2> QED BY <2>3, <2>4, <2>5
<1>3. CASE EndOfSource
  <2>1. HandOut(SourceEof, state) /\ state \in States
    BY <1>3 DEF EndOfSource, ParserTypes
  <2> QED BY <2>1, HandOutTypes
<1> QED BY <1>1, <1>2, <1>3 DEF FetchToken

\* Steps that leave the parser's words and cells as they are.
LEMMA RestTypes ==
  ASSUME ParserTypes, UNCHANGED parserVars,
         step' \in {step, "idle", "token", "row", "end"}
  PROVE  ParserTypes'
BY DEF ParserTypes, parserVars

LEMMA NextParserTypes ==
  ASSUME IInv, ParserTypes, [Next]_vars
  PROVE  ParserTypes'
<1>1. CASE Aside
  <2>1. UNCHANGED parserVars /\ step' \in {step, "idle", "token", "row", "end"}
    BY <1>1 DEF Aside
  <2> QED BY <2>1, RestTypes
<1>2. CASE OpenFile
  <2>1. <<>> \in Seq(Chars) /\ <<>> \in Seq([value : Seq(Chars), end : States])
    OBVIOUS
  <2> QED BY <1>2, <2>1 DEF OpenFile, OpenStream, ParserTypes, States
<1>3. CASE FetchToken
  BY <1>3, FetchTypes
<1>4. CASE ReadFails
  <2>1. UNCHANGED parserVars /\ step' = step
    BY <1>4 DEF ReadFails, RefillFails
  <2> QED BY <2>1, RestTypes
<1>5. CASE HeaderCell \/ HeaderRow \/ DataCell \/ DataRow
  <2>1. UNCHANGED parserVars /\ step' \in {step, "idle", "token", "row", "end"}
    BY <1>5, IterateSteps DEF NextCell, NextRow
  <2> QED BY <2>1, RestTypes
<1>6. QED
  BY <1>1, <1>2, <1>3, <1>4, <1>5, AsideSteps DEF Next, Steps

\* A file that failed is reported, and the next one is its turn.
LEMMA ErrorTypes ==
  ASSUME IInv, FileTypes, NEW kind \in Kinds, Error(kind), fileNo <= Len(args.files),
         unread' = unread, step' # "token"
  PROVE  FileTypes'
<1> DEFINE new == [kind |-> kind, file |-> fileNo]
<1>1. Len(args.files) \in Nat
  BY InputIs
<1>2. new \in [kind : Kinds, file : Nat]
  BY <1>1 DEF FileTypes
<1>3. Append(errors, new) \in Seq([kind : Kinds, file : Nat])
  <2> HIDE DEF new
  <2> QED BY <1>2 DEF FileTypes
<1>4. errors' \in Seq([kind : Kinds, file : Nat])
  BY <1>3 DEF Error
<1>5. fileNo' \in 1 .. Len(args'.files) + 1
  BY <1>1 DEF Error, FileTypes
<1> QED BY <1>4, <1>5 DEF Error, FileTypes

LEMMA NextFileTypes ==
  ASSUME IInv, FileTypes, [Next]_vars
  PROVE  FileTypes'
<1>1. Len(args.files) \in Nat
  BY InputIs
<1>2. CASE NoFile
  <2>1. /\ Error("no_such_file") /\ "no_such_file" \in Kinds /\ fileNo <= Len(args.files)
        /\ unread' = unread /\ step' = step /\ step # "token"
    BY <1>2 DEF NoFile, Kinds, readVars, FileTypes
  <2> QED BY <2>1, ErrorTypes
<1>3. CASE HeaderFails
  <2>1. /\ Error(IF count = 0 THEN "empty_file" ELSE "invalid_columns_count")
        /\ (IF count = 0 THEN "empty_file" ELSE "invalid_columns_count") \in Kinds
        /\ fileNo <= Len(args.files) /\ unread' = unread /\ step' # "token"
    BY <1>3 DEF HeaderFails, Close, Kinds, FileTypes
  <2> QED BY <2>1, ErrorTypes
<1>4. CASE TooManyCells
  <2>1. /\ Error(IF rows > 0 THEN "csv_parsing_error" ELSE "empty_file")
        /\ (IF rows > 0 THEN "csv_parsing_error" ELSE "empty_file") \in Kinds
        /\ fileNo <= Len(args.files) /\ unread' = unread /\ step' # "token"
    BY <1>4 DEF TooManyCells, Close, Kinds, FileTypes
  <2> QED BY <2>1, ErrorTypes
<1>5. CASE OpenFile
  BY <1>1, <1>5 DEF OpenFile, OpenStream, mainVars, FileTypes
<1>6. CASE FileDone
  <2>1. args.others \in Nat
    BY InputIs
  <2> QED BY <1>1, <1>6, <2>1 DEF FileDone, FileTypes
<1>7. CASE Report
  BY <1>7 DEF Report, mainVars, readVars, FileTypes
<1>8. CASE FetchToken
  BY <1>8 DEF FetchToken, mainVars, Refill, TakeChar, EndOfSource, CanRefill, CanTake, FileTypes
<1>9. CASE ReadFails
  <2>1. fileNo \in 1 .. Len(args.files)
    BY <1>1, <1>9 DEF ReadFails, RefillFails, CanRefill, FileTypes
  <2> QED BY <1>9, <2>1 DEF ReadFails, RefillFails, mainVars, FileTypes
<1>10. CASE HeaderCell \/ DataCell \/ HeaderRow \/ DataRow
  BY <1>10 DEF HeaderCell, DataCell, HeaderRow, DataRow, NextCell, NextRow, mainVars, FileTypes
<1>11. CASE Finished \/ UNCHANGED vars
  BY <1>11 DEF Finished, vars, mainVars, readVars, FileTypes
<1>12. QED
  BY <1>2, <1>3, <1>4, <1>5, <1>6, <1>7, <1>8, <1>9, <1>10, <1>11 DEF Next, Steps

LEMMA GuessedType ==
  ASSUME NEW column \in Column, NEW value, MaxCount \in Nat
  PROVE  Guessed(column, value) \in Column
BY DEF Guessed, Next1, Column

LEMMA NextCountTypes ==
  ASSUME IInv, FileTypes, CountTypes, [Next]_vars
  PROVE  CountTypes'
<1>1. MaxCount \in Nat
  BY InputIs
<1>2. CASE OpenFile
  BY <1>2 DEF OpenFile, CountTypes, FileTypes
<1>3. CASE HeaderCell
  BY <1>1, <1>3 DEF HeaderCell, Next1, CountTypes
<1>4. CASE HeaderRow
  <2>1. [i \in 1 .. count |-> [total |-> 0, missing |-> 0]] \in Seq(Column)
    BY DEF CountTypes, Column
  <2>2. columns' \in Seq(Column)
    BY <1>4, <2>1 DEF HeaderRow, CountTypes
  <2> QED BY <1>4, <2>2 DEF HeaderRow, CountTypes
<1>5. CASE DataCell
  <2>1. columns \in Seq(Column) /\ count \in Nat
    BY DEF CountTypes
  <2>2. count + 1 \in 1 .. Len(columns)
    BY <1>5, <2>1 DEF DataCell
  <2>3. columns[count + 1] \in Column
    BY <2>1, <2>2
  <2>4. Guessed(columns[count + 1], cell) \in Column
    BY <1>1, <2>3, GuessedType
  <2>5. columns' = [columns EXCEPT ![count + 1] = Guessed(columns[count + 1], cell)]
    BY <1>5 DEF DataCell
  <2>6. columns' \in Seq(Column)
    BY <2>1, <2>2, <2>4, <2>5
  <2> QED BY <1>5, <2>6 DEF DataCell, CountTypes
<1>6. CASE DataRow
  BY <1>1, <1>6 DEF DataRow, Next1, CountTypes
<1>7. CASE \/ NoFile \/ HeaderFails \/ TooManyCells \/ FileDone \/ Report \/ FetchToken
           \/ ReadFails \/ Finished \/ UNCHANGED vars
  <2>1. UNCHANGED <<infoVars, toSkip>> /\ phase' \in {phase, "open", "found", "reported"}
    BY <1>7 DEF NoFile, HeaderFails, TooManyCells, Error, Close, FileDone, Report, FetchToken,
                ReadFails, Finished, vars
  <2> QED BY <2>1 DEF infoVars, CountTypes
<1>8. QED
  BY <1>2, <1>3, <1>4, <1>5, <1>6, <1>7 DEF Next, Steps

\* Every variable has its type in every reachable state, reads that fail and
\* rows that never end included: in particular no file past the last one is
\* read, the buffer never holds more than was read, and a header row is only
\* skipped as long as there is one to skip.
THEOREM TypeCorrectness == Spec => []TypeOK
<1>1. Init => IInv /\ Typed
  BY InitIInv, InitTyped
<1>2. IInv /\ Typed /\ [Next]_vars => (IInv /\ Typed)'
  BY NextIInv, NextParserTypes, NextFileTypes, NextCountTypes DEF Typed
<1>3. IInv /\ Typed => TypeOK
  BY TypedIsTypeOK
<1> QED BY <1>1, <1>2, <1>3, PTL DEF Spec

-----------------------------------------------------------------------------
(***************************************************************************)
(* As long as every read succeeds the buffer is filled in blocks: all but   *)
(* the last are whole.                                                      *)
(***************************************************************************)
Blocks ==
  unread = {} =>
    /\ ~failed
    /\ ~eofbit => read % Size = 0
    /\ eofbit => inRead = Len(text) % Size

LEMMA PartOfABlock ==
  ASSUME NEW a \in Nat, NEW s \in Nat \ {0}, NEW r \in Nat, r < s, a % s = 0
  PROVE  (a + r) % s = r
OBVIOUS

LEMMA WholeBlock ==
  ASSUME NEW a \in Nat, NEW s \in Nat \ {0}, a % s = 0
  PROVE  (a + s) % s = 0
<1> DEFINE q == a \div s
<1>1. a = s * q /\ q \in Nat
  OBVIOUS
<1> HIDE DEF q
<1>2. (q + 1) * s = a + s
  BY <1>1
<1>3. ((q + 1) * s) % s = 0
  BY <1>1
<1> QED BY <1>2, <1>3

LEMMA RefillBlocks ==
  ASSUME IInv, Blocks, Refill, unread' = unread
  PROVE  Blocks'
<1> SUFFICES ASSUME unread = {} PROVE Blocks'
  BY DEF Blocks
<1> DEFINE rest == Len(text) - read
           got == IF rest < Size THEN rest ELSE Size
<1>1. /\ read' = read + got /\ inRead' = got /\ eofbit' = (got < Size)
      /\ UNCHANGED <<text, failed>> /\ ~eofbit
  BY DEF Refill, CanRefill, SourceGood, SourceEof
<1>2. rest \in Nat /\ read \in Nat /\ Len(text) = read + rest /\ Len(text) \in Nat
  BY DEF IInv, Buffer
<1>3. read % Size = 0 /\ ~failed
  BY <1>1 DEF Blocks
<1> HIDE DEF rest
<1>4. CASE rest < Size
  <2>1. (read + rest) % Size = rest
    BY <1>2, <1>3, <1>4, PartOfABlock
  <2>2. got = rest
    BY <1>4
  <2> HIDE DEF got
  <2>3. eofbit' /\ inRead' = Len(text) % Size
    BY <1>1, <1>2, <1>4, <2>1, <2>2
  <2> QED BY <1>1, <1>3, <2>3 DEF Blocks
<1>5. CASE ~(rest < Size)
  <2>1. (read + Size) % Size = 0
    BY <1>2, <1>3, WholeBlock
  <2>2. got = Size
    BY <1>5
  <2> HIDE DEF got
  <2>3. ~(got < Size) /\ read + got = read + Size
    BY <2>2
  <2>4. read' % Size = 0
    BY <1>1, <2>1, <2>3
  <2>5. ~eofbit'
    BY <1>1, <2>3
  <2> QED BY <1>1, <1>3, <2>4, <2>5 DEF Blocks
<1> QED BY <1>4, <1>5

LEMMA InitBlocks == Init => Blocks
BY DEF Init, ParserInit, Blocks

LEMMA NextBlocks == IInv /\ Blocks /\ [Next]_vars => Blocks'
<1> SUFFICES ASSUME IInv, Blocks, [Next]_vars PROVE Blocks'
  OBVIOUS
<1>1. CASE UNCHANGED <<streamVars, inRead, unread>>
  BY <1>1 DEF streamVars, Blocks
<1>2. CASE OpenFile
  <2>1. 0 % Size = 0
    OBVIOUS
  <2>2. read' = 0 /\ ~eofbit' /\ ~failed'
    BY <1>2 DEF OpenFile, OpenStream
  <2> QED BY <2>1, <2>2 DEF Blocks
<1>3. CASE Refill /\ unread' = unread
  BY <1>3, RefillBlocks
<1>4. CASE ReadFails
  BY <1>4 DEF ReadFails, Blocks
<1>5. Next => \/ UNCHANGED <<streamVars, inRead, unread>> \/ OpenFile
              \/ (Refill /\ unread' = unread) \/ ReadFails
  BY DEF Next, Steps, NoFile, FileDone, Report, HeaderFails, TooManyCells, Close, Finished,
         FetchToken, TakeChar, EndOfSource, HeaderCell, HeaderRow, DataCell, DataRow,
         NextCell, NextRow, vars, readVars, bufferVars
<1>6. UNCHANGED vars => UNCHANGED <<streamVars, inRead, unread>>
  BY DEF vars, readVars, bufferVars
<1> QED BY <1>1, <1>2, <1>3, <1>4, <1>5, <1>6

-----------------------------------------------------------------------------
(***************************************************************************)
(* The parser reads the text as it should be read: what it has of the next  *)
(* cell is what is kept from the cell's start on, in the mode the text has  *)
(* at that place.                                                           *)
(***************************************************************************)
ModeOf(s) == CASE s = "IN_ESCAPE" -> "quoted"
               [] s = "ESCAPE_OF_ESCAPE" -> "escaped"
               [] OTHER -> "plain"

LEMMA ModeOfAfter ==
  ASSUME NEW s \in States, NEW c \in Chars
  PROVE  /\ c # Dropped => ModeOf(After(s, c)) = ModeAfter(ModeOf(s), c)
         /\ ModeAfter(ModeOf(s), Dropped) = ModeOf(s)
BY CharactersAssumption DEF ModeOf, After, ModeAfter, Chars

\* A cell ends at a character exactly if it separates in the mode of the place.
LEMMA SeparatorOf ==
  ASSUME NEW t \in Seq(Chars), NEW p \in 1 .. Len(t), NEW s \in States,
         ModeOf(s) = Mode(t)[p]
  PROVE  p \in EndPlaces(t) <=> Separates(s, t[p])
<1>1. p # Len(t) + 1
  OBVIOUS
<1>2. (p \in EndPlaces(t)) = (t[p] \in {Delimiter, NewLine} /\ Mode(t)[p] # "quoted")
  BY <1>1 DEF EndPlaces, Separators
<1>3. (Mode(t)[p] # "quoted") = (s # "IN_ESCAPE")
  BY DEF ModeOf
<1> QED BY <1>2, <1>3 DEF Separates

\* The character at a place that is read in the mode of a state.
LEMMA CharacterOf ==
  ASSUME NEW t \in Seq(Chars), NEW p \in 1 .. Len(t), NEW s \in States, NEW w,
         ModeOf(s) = Mode(t)[p]
  PROVE  /\ t[p] = Dropped => ~IsKept(t, p) /\ ~Separates(s, t[p])
         /\ t[p] # Dropped /\ ~Separates(s, t[p]) =>
              Grown(w, s, t[p]) = IF IsKept(t, p) THEN Append(w, t[p]) ELSE w
<1> DEFINE c == t[p]
           m == Mode(t)[p]
<1>1. c \in Chars
  OBVIOUS
<1>2. IsKept(t, p) = CASE m = "quoted" -> c \notin {Quote, Dropped}
                       [] m = "escaped" -> c = Quote
                       [] OTHER -> c \in Ordinary
  BY DEF IsKept
<1>3. m = ModeOf(s)
  OBVIOUS
<1> HIDE DEF c, m
<1>4. c = Dropped => ~IsKept(t, p) /\ ~Separates(s, c)
  BY <1>2, CharactersAssumption DEF Separates
<1>5. c # Dropped /\ ~Separates(s, c) =>
        Grown(w, s, c) = IF IsKept(t, p) THEN Append(w, c) ELSE w
  BY <1>1, <1>2, <1>3, CharactersAssumption DEF Separates, Grown, ModeOf, Chars
<1> QED BY <1>4, <1>5 DEF c

\* A reader that was handed h cells is at the place p, with w of the next one.
Reading(t, h, p, w, s) ==
  /\ Start(Ends(t), h + 1) <= p + 1
  /\ p < Ends(t)[h + 1]
  /\ w = KeptFrom(t, Start(Ends(t), h + 1), p)
  /\ ModeOf(s) = Mode(t)[p + 1]

LEMMA EndIs ==
  ASSUME NEW t \in Seq(Chars), NEW k \in 1 .. Len(Ends(t))
  PROVE  /\ Ends(t)[k] \in 1 .. Len(t) + 1
         /\ Ends(t)[k] \in Nat
         /\ Ends(t)[k] \in EndPlaces(t)
         /\ Start(Ends(t), k) \in 1 .. Ends(t)[k]
<1>1. Len(t) + 1 \in Nat
  BY EndsAre
<1>2. Lists(Ends(t), EndPlaces(t), Len(t) + 1)
  BY EndsAre
<1>3. Start(Ends(t), k) \in 1 .. Ends(t)[k]
  BY <1>1, <1>2, StartIs
<1> QED BY <1>1, <1>2, <1>3, ListedType

LEMMA ReadingBegins ==
  ASSUME NEW t \in Seq(Chars)
  PROVE  Reading(t, 0, 0, <<>>, "INIT")
<1>1. Start(Ends(t), 1) = 1
  BY DEF Start
<1>2. 1 \in 1 .. Len(Ends(t)) /\ Len(t) \in Nat
  BY EndsAre
<1>3. 0 < Ends(t)[1]
  BY <1>2, EndIs
<1>4. KeptFrom(t, 1, 0) = <<>>
  BY KeptNone
<1>5. Mode(t)[1] = "plain"
  BY ModeSteps
<1> QED BY <1>1, <1>3, <1>4, <1>5 DEF Reading, ModeOf

\* Where the next cell starts and what is kept up to the place.
LEMMA ReadingIs ==
  ASSUME NEW t \in Seq(Chars), NEW h \in Nat, h < Len(Ends(t)), NEW p \in Nat, p < Len(t),
         NEW w, NEW s \in States, Reading(t, h, p, w, s)
  PROVE  /\ h + 1 \in 1 .. Len(Ends(t))
         /\ Start(Ends(t), h + 1) \in Nat \ {0}
         /\ Ends(t)[h + 1] \in Nat
         /\ p + 1 \in 1 .. Len(t) /\ t[p + 1] \in Chars
         /\ Mode(t)[p + 2] = ModeAfter(ModeOf(s), t[p + 1])
         /\ IF Separates(s, t[p + 1]) THEN Ends(t)[h + 1] = p + 1 ELSE p + 1 < Ends(t)[h + 1]
<1>1. Len(Ends(t)) \in Nat /\ Len(t) \in Nat
  BY EndsAre
<1>2. h + 1 \in 1 .. Len(Ends(t)) /\ p + 1 \in 1 .. Len(t) /\ (p + 1) + 1 = p + 2
  BY <1>1
<1>3. Ends(t)[h + 1] \in Nat
  BY <1>2, EndIs
<1>4. Start(Ends(t), h + 1) \in 1 .. Ends(t)[h + 1]
  BY <1>2, EndIs
<1>5. ModeOf(s) = Mode(t)[p + 1]
  BY DEF Reading
<1>6. Mode(t)[p + 2] = ModeAfter(ModeOf(s), t[p + 1])
  BY <1>2, <1>5, ModeSteps
<1>7. IF p + 1 \in EndPlaces(t) THEN Ends(t)[h + 1] = p + 1 ELSE p + 1 < Ends(t)[h + 1]
  <2>1. Lists(Ends(t), EndPlaces(t), Len(t) + 1) /\ Len(t) + 1 \in Nat
    BY <1>1, EndsAre
  <2>2. Start(Ends(t), h + 1) <= p + 1 /\ p < Ends(t)[h + 1]
    BY DEF Reading
  <2> QED BY <2>1, <2>2, NextListed
<1>8. p + 1 \in EndPlaces(t) <=> Separates(s, t[p + 1])
  BY <1>2, <1>5, SeparatorOf
<1>9. t[p + 1] \in Chars
  BY <1>2
<1>10. IF Separates(s, t[p + 1]) THEN Ends(t)[h + 1] = p + 1 ELSE p + 1 < Ends(t)[h + 1]
  BY <1>7, <1>8
<1> QED BY <1>2, <1>3, <1>4, <1>6, <1>9, <1>10

LEMMA ReadsOn ==
  ASSUME NEW t \in Seq(Chars), NEW h \in Nat, h < Len(Ends(t)), NEW p \in Nat, p < Len(t),
         NEW w, NEW s \in States, Reading(t, h, p, w, s), ~Separates(s, t[p + 1])
  PROVE  IF t[p + 1] = Dropped THEN Reading(t, h, p + 1, w, s)
         ELSE Reading(t, h, p + 1, Grown(w, s, t[p + 1]), After(s, t[p + 1]))
<1> DEFINE f == Start(Ends(t), h + 1)
           c == t[p + 1]
<1>1. /\ f \in Nat \ {0} /\ Ends(t)[h + 1] \in Nat /\ p + 1 \in 1 .. Len(t) /\ c \in Chars
      /\ Mode(t)[p + 2] = ModeAfter(ModeOf(s), c)
      /\ p + 1 < Ends(t)[h + 1]
  BY ReadingIs
<1>2. f <= p + 1 /\ w = KeptFrom(t, f, p) /\ ModeOf(s) = Mode(t)[p + 1]
  BY DEF Reading
<1>3. KeptFrom(t, f, p + 1) = IF IsKept(t, p + 1) THEN Append(w, c) ELSE w
  <2> HIDE DEF f
  <2> QED BY <1>1, <1>2, KeptStep
<1>4. /\ c = Dropped => ~IsKept(t, p + 1)
      /\ c # Dropped => Grown(w, s, c) = IF IsKept(t, p + 1) THEN Append(w, c) ELSE w
  <2>1. p + 1 \in 1 .. Len(t) /\ ModeOf(s) = Mode(t)[p + 1]
    BY <1>1, <1>2
  <2> QED BY <2>1, CharacterOf
<1>5. f <= (p + 1) + 1 /\ (p + 1) + 1 = p + 2
  BY <1>1, <1>2
<1>6. /\ c # Dropped => ModeOf(After(s, c)) = ModeAfter(ModeOf(s), c)
      /\ ModeAfter(ModeOf(s), Dropped) = ModeOf(s)
  BY <1>1, ModeOfAfter
<1> HIDE DEF c
<1>7. CASE c = Dropped
  BY <1>1, <1>3, <1>4, <1>5, <1>6, <1>7 DEF Reading, c
<1>8. CASE c # Dropped
  BY <1>1, <1>3, <1>4, <1>5, <1>6, <1>8 DEF Reading, c
<1> QED BY <1>7, <1>8 DEF c

\* At a separator the token is the cell, and the next one begins behind it.
LEMMA ReadsCell ==
  ASSUME NEW t \in Seq(Chars), NEW h \in Nat, h < Len(Ends(t)), NEW p \in Nat, p < Len(t),
         NEW w, NEW s \in States, Reading(t, h, p, w, s), Separates(s, t[p + 1])
  PROVE  /\ w = CellAt(t, Ends(t), h + 1)
         /\ Ends(t)[h + 1] = p + 1
         /\ h + 1 < Len(Ends(t)) => Reading(t, h + 1, p + 1, <<>>, After(s, t[p + 1]))
         /\ (h + 1 = Len(Ends(t))) = (p + 1 = Len(t) /\ Len(t) % Size # 0)
<1> DEFINE c == t[p + 1]
           e == Ends(t)
<1>1. /\ h + 1 \in 1 .. Len(e) /\ p + 1 \in 1 .. Len(t) /\ c \in Chars
      /\ Mode(t)[p + 2] = ModeAfter(ModeOf(s), c)
      /\ e[h + 1] = p + 1
  BY ReadingIs
<1>2. w = KeptFrom(t, Start(e, h + 1), p) /\ ModeOf(s) = Mode(t)[p + 1]
  BY DEF Reading
<1>3. w = CellAt(t, e, h + 1)
  <2>1. e[h + 1] - 1 = p
    BY <1>1
  <2> QED BY <1>2, <2>1 DEF CellAt
<1>4. ASSUME h + 1 < Len(e)
      PROVE  Reading(t, h + 1, p + 1, <<>>, After(s, c))
  <2>1. (h + 1) + 1 # 1 /\ ((h + 1) + 1) - 1 = h + 1 /\ (p + 1) + 1 = p + 2
    OBVIOUS
  <2>2. Start(e, (h + 1) + 1) = p + 2
    BY <1>1, <2>1 DEF Start
  <2>3. Len(e) \in Nat /\ (h + 1) + 1 \in 1 .. Len(e)
    <3>1. Len(e) \in Nat
      BY EndsAre
    <3> QED BY <1>4, <3>1
  <2>4. e[h + 1] < e[(h + 1) + 1]
    <3>1. h + 1 < (h + 1) + 1
      OBVIOUS
    <3> QED BY <1>1, <2>3, <3>1, EndsAre, ListedGrows
  <2>5. KeptFrom(t, (p + 1) + 1, p + 1) = <<>>
    BY KeptNone
  <2>6. c # Dropped
    BY CharactersAssumption DEF Separates
  <2>7. ModeOf(After(s, c)) = Mode(t)[p + 2]
    BY <1>1, <2>6, ModeOfAfter
  <2> HIDE DEF e, c
  <2> QED BY <1>1, <2>1, <2>2, <2>4, <2>5, <2>7 DEF Reading, e, c
<1>5. (h + 1 = Len(e)) = (p + 1 = Len(t) /\ Len(t) % Size # 0)
  <2>1. (h + 1 = Len(e)) = (p + 1 = LastPlace(t))
    BY <1>1, EndsAre
  <2>2. p + 1 \in Separators(t)
    BY <1>1, <1>2 DEF Separators, Separates, ModeOf
  <2>3. Len(t) \in Nat /\ p + 1 <= Len(t) /\ p + 1 # Len(t) + 1
    BY <1>1
  <2>4. (p + 1 = LastPlace(t)) = (p + 1 = Len(t) /\ Len(t) % Size # 0)
    BY <2>2, <2>3 DEF LastPlace, HasTail
  <2> QED BY <2>1, <2>4
<1> QED BY <1>1, <1>3, <1>4, <1>5

\* At the end of the text the token is the last cell.
LEMMA ReadsTail ==
  ASSUME NEW t \in Seq(Chars), NEW h \in Nat, h < Len(Ends(t)),
         NEW w, NEW s, Reading(t, h, Len(t), w, s)
  PROVE  w = CellAt(t, Ends(t), h + 1) /\ h + 1 = Len(Ends(t))
<1> DEFINE e == Ends(t)
<1>1. Len(e) \in Nat /\ Len(t) \in Nat
  BY EndsAre
<1>2. h + 1 \in 1 .. Len(e)
  BY <1>1
<1>3. e[h + 1] \in 1 .. Len(t) + 1 /\ e[h + 1] \in EndPlaces(t)
  BY <1>2, EndIs
<1>4. Len(t) < e[h + 1] /\ w = KeptFrom(t, Start(e, h + 1), Len(t))
  BY DEF Reading
<1>5. e[h + 1] = Len(t) + 1 /\ e[h + 1] - 1 = Len(t)
  BY <1>1, <1>3, <1>4
<1>6. Len(t) + 1 = LastPlace(t)
  <2>1. Len(t) + 1 \notin Separators(t)
    BY <1>1 DEF Separators
  <2>2. HasTail(t)
    BY <1>3, <1>5, <2>1 DEF EndPlaces
  <2> QED BY <2>2 DEF LastPlace
<1>7. h + 1 = Len(e)
  BY <1>2, <1>5, <1>6, EndsAre
<1> QED BY <1>4, <1>5, <1>7 DEF CellAt

-----------------------------------------------------------------------------
\* The cells that were handed out of the text.
Handed == Len(cells)

\* The last of them, and what the parser's state says of it.
HandedRight(t, h, c, s) ==
  /\ h # 0
  /\ c = CellAt(t, Ends(t), h)
  /\ h < Len(Ends(t)) => (s = "END_LINE" <=> t[Ends(t)[h]] = NewLine)

InText ==
  /\ Handed <= Len(Ends(text))
  /\ state = "END_INPUT" <=> Handed = Len(Ends(text))
  /\ Handed < Len(Ends(text)) => Reading(text, Handed, Pos, token, state)
  /\ step # "token" => HandedRight(text, Handed, cell, state)

LexInv == unread = {} /\ step # "idle" => InText

LEMMA InitLex == Init => LexInv
BY DEF Init, ParserInit, LexInv

LEMMA OpenLex ==
  ASSUME IInv, OpenFile
  PROVE  InText'
<1>1. text' \in Seq(Chars)
  BY OpenedIsText DEF OpenFile, OpenStream
<1>2. /\ state' = "INIT" /\ token' = <<>> /\ cells' = <<>> /\ step' = "token"
      /\ read' - inRead' + index' = 0
  BY DEF OpenFile, OpenStream
<1>3. Reading(text', 0, 0, <<>>, "INIT") /\ Len(Ends(text')) \in Nat \ {0}
  BY <1>1, ReadingBegins, EndsAre
<1>4. Len(cells') = 0
  BY <1>2
<1> QED BY <1>2, <1>3, <1>4 DEF InText, Handed, Pos

\* How many cells were handed out once one more is.
LEMMA HandedOut ==
  ASSUME ParserTypes, ~failed, NEW atEnd, NEW end, HandOut(atEnd, end)
  PROVE  /\ Handed \in Nat /\ Handed' = Handed + 1
         /\ cell' = token /\ token' = <<>> /\ step' = "cell"
         /\ state' = IF atEnd THEN "END_INPUT" ELSE end
<1> DEFINE last == IF atEnd THEN "END_INPUT" ELSE end
           new == [value |-> token, end |-> last]
<1>1. cells' = Append(cells, new) /\ cells \in Seq([value : Seq(Chars), end : States])
  BY DEF HandOut, ParserTypes
<1>2. Handed \in Nat /\ Handed' = Handed + 1
  <2> HIDE DEF new
  <2> QED BY <1>1 DEF Handed
<1> QED BY <1>2 DEF HandOut

\* In the middle of a text there is a next cell to read.
LEMMA TokenIs ==
  ASSUME IInv, ParserTypes, InText, step = "token"
  PROVE  /\ text \in Seq(Chars) /\ state \in States /\ Handed \in Nat
         /\ Len(Ends(text)) \in Nat /\ Handed < Len(Ends(text))
         /\ Reading(text, Handed, Pos, token, state)
<1>1. text \in Seq(Chars) /\ state # "END_INPUT" /\ state \in States
  BY DEF IInv, Buffer, Progress, ParserTypes
<1>2. Handed \in Nat /\ Len(Ends(text)) \in Nat
  BY <1>1, EndsAre DEF ParserTypes, Handed
<1>3. Handed < Len(Ends(text))
  BY <1>1, <1>2 DEF InText
<1> QED BY <1>1, <1>2, <1>3 DEF InText

LEMMA ReadLex ==
  ASSUME IInv, ParserTypes, InText, TakeChar, Char = Dropped \/ ~Separates(state, Char)
  PROVE  InText'
<1>1. step = "token" /\ Pos \in Nat /\ Pos < Len(text) /\ Char = text[Pos + 1]
  BY CharIs DEF TakeChar, CanTake
<1>2. /\ text \in Seq(Chars) /\ state \in States /\ Handed \in Nat
      /\ Len(Ends(text)) \in Nat /\ Handed < Len(Ends(text))
      /\ Reading(text, Handed, Pos, token, state)
  BY <1>1, TokenIs
<1>3. ~Separates(state, Char)
  BY CharactersAssumption DEF Separates
<1>4. /\ text' = text /\ Pos' = Pos + 1 /\ cells' = cells /\ step' = "token"
      /\ IF Char = Dropped THEN state' = state /\ token' = token
         ELSE state' = After(state, Char) /\ token' = Grown(token, state, Char)
  BY <1>1, <1>3 DEF TakeChar, streamVars, parserVars, Pos, IInv, Buffer
<1>5. IF Char = Dropped THEN Reading(text, Handed, Pos + 1, token, state)
      ELSE Reading(text, Handed, Pos + 1, Grown(token, state, Char), After(state, Char))
  BY <1>1, <1>2, <1>3, ReadsOn
<1>6. Reading(text', Handed', Pos', token', state')
  BY <1>4, <1>5 DEF Handed
<1>7. state' # "END_INPUT"
  BY <1>1, <1>4, AfterIsNotEnd DEF IInv, Progress
<1>8. Handed' < Len(Ends(text')) /\ Handed' <= Len(Ends(text')) /\ Handed' # Len(Ends(text'))
  BY <1>2, <1>4 DEF Handed
<1> QED BY <1>4, <1>6, <1>7, <1>8 DEF InText

\* What the program takes for the end of the input is the end of the text.
LEMMA AtEndIs ==
  ASSUME IInv, Blocks, unread = {}, CanTake
  PROVE  index + 1 = inRead /\ eofbit <=> Pos + 1 = Len(text) /\ Len(text) % Size # 0
<1>1. /\ inRead \in Nat /\ index \in Nat /\ index < inRead /\ read \in Nat
      /\ read <= Len(text) /\ Len(text) \in Nat /\ Pos = read - inRead + index
  BY DEF CanTake, Empty, Pos, IInv, Buffer
<1>2. eofbit => read = Len(text) /\ inRead = Len(text) % Size
  BY DEF Blocks, IInv, Progress
<1>3. ~eofbit => read % Size = 0
  BY DEF Blocks
<1>4. ASSUME index + 1 = inRead, eofbit
      PROVE  Pos + 1 = Len(text) /\ Len(text) % Size # 0
  BY <1>1, <1>2, <1>4
<1>5. ASSUME Pos + 1 = Len(text), Len(text) % Size # 0
      PROVE  index + 1 = inRead /\ eofbit
  <2>1. read = Len(text) /\ index + 1 = inRead
    BY <1>1, <1>5
  <2> QED BY <1>3, <1>5, <2>1
<1> QED BY <1>4, <1>5

\* The state that ends a line stands for a new line.
LEMMA EndLineIs ==
  ASSUME NEW s, NEW c, Separates(s, c)
  PROVE  After(s, c) = "END_LINE" <=> c = NewLine
BY CharactersAssumption DEF Separates, After

LEMMA SeparateLex ==
  ASSUME IInv, ParserTypes, Blocks, unread = {}, InText, TakeChar,
         Char # Dropped, Separates(state, Char)
  PROVE  InText'
<1> DEFINE atEnd == index + 1 = inRead /\ eofbit
           e == Ends(text)
           h == Handed
<1>1. /\ step = "token" /\ Pos \in Nat /\ Pos < Len(text) /\ Char = text[Pos + 1]
      /\ CanTake /\ ~failed
  BY CharIs DEF TakeChar, CanTake, SourceGood
<1>2. /\ text \in Seq(Chars) /\ state \in States /\ h \in Nat
      /\ Len(e) \in Nat /\ h < Len(e)
      /\ Reading(text, h, Pos, token, state)
  BY <1>1, TokenIs
<1>3. HandOut(atEnd, After(state, Char))
  BY DEF TakeChar, HandOut
<1>4. /\ Handed' = h + 1 /\ cell' = token /\ token' = <<>> /\ step' = "cell"
      /\ state' = IF atEnd THEN "END_INPUT" ELSE After(state, Char)
  <2> HIDE DEF atEnd, h
  <2> QED BY <1>1, <1>3, HandedOut DEF h
<1>5. text' = text /\ Pos' = Pos + 1
  BY DEF TakeChar, streamVars, Pos, IInv, Buffer
<1>6. /\ token = CellAt(text, e, h + 1)
      /\ e[h + 1] = Pos + 1
      /\ h + 1 < Len(e) => Reading(text, h + 1, Pos + 1, <<>>, After(state, Char))
      /\ h + 1 = Len(e) <=> Pos + 1 = Len(text) /\ Len(text) % Size # 0
  BY <1>1, <1>2, ReadsCell
<1>7. atEnd <=> h + 1 = Len(e)
  BY <1>1, <1>6, AtEndIs
<1>8. After(state, Char) # "END_INPUT" /\ (After(state, Char) = "END_LINE" <=> Char = NewLine)
  BY <1>1, AfterIsNotEnd, EndLineIs DEF IInv, Progress
<1>9. Handed' <= Len(Ends(text'))
  BY <1>2, <1>4, <1>5
<1> HIDE DEF atEnd, h
<1>10. state' = "END_INPUT" <=> Handed' = Len(Ends(text'))
  BY <1>4, <1>5, <1>7, <1>8
<1>11. Handed' < Len(Ends(text')) => state' = After(state, Char) /\ h + 1 < Len(e)
  BY <1>2, <1>4, <1>5, <1>7
<1>12. Handed' < Len(Ends(text')) => Reading(text', Handed', Pos', token', state')
  BY <1>4, <1>5, <1>6, <1>11
<1>13. HandedRight(text', Handed', cell', state')
  <2>1. Handed' # 0 /\ cell' = CellAt(text', Ends(text'), Handed')
    BY <1>2, <1>4, <1>5, <1>6
  <2>2. Handed' < Len(Ends(text')) =>
          (state' = "END_LINE" <=> text'[Ends(text')[Handed']] = NewLine)
    BY <1>1, <1>4, <1>5, <1>6, <1>8, <1>11
  <2> QED BY <2>1, <2>2 DEF HandedRight
<1> QED BY <1>9, <1>10, <1>12, <1>13 DEF InText

LEMMA TailLex ==
  ASSUME IInv, ParserTypes, Blocks, unread = {}, InText, EndOfSource
  PROVE  InText'
<1>1. ~failed /\ SourceEof /\ HandOut(SourceEof, state) /\ step = "token"
  BY DEF EndOfSource, SourceGood, Blocks
<1>2. /\ text \in Seq(Chars) /\ state \in States /\ Handed \in Nat
      /\ Len(Ends(text)) \in Nat /\ Handed < Len(Ends(text))
      /\ Reading(text, Handed, Pos, token, state)
  BY <1>1, TokenIs
<1>3. Pos = Len(text)
  BY <1>1 DEF SourceEof, Empty, Pos, IInv, Buffer, Progress
<1>4. /\ Handed' = Handed + 1 /\ cell' = token /\ step' = "cell" /\ state' = "END_INPUT"
  BY <1>1, HandedOut
<1>5. token = CellAt(text, Ends(text), Handed + 1) /\ Handed + 1 = Len(Ends(text))
  BY <1>2, <1>3, ReadsTail
<1>6. text' = text
  BY DEF EndOfSource, streamVars
<1>7. HandedRight(text', Handed', cell', state')
  BY <1>2, <1>4, <1>5, <1>6 DEF HandedRight
<1>8. Handed' = Len(Ends(text')) /\ ~(Handed' < Len(Ends(text'))) /\ Handed' <= Len(Ends(text'))
  BY <1>2, <1>4, <1>5, <1>6
<1> QED BY <1>4, <1>7, <1>8 DEF InText

\* Steps between two cells leave the reader where it is.
LEMMA RestLex ==
  ASSUME InText, UNCHANGED <<text, Pos, state, token, cell, cells>>,
         step' = "token" \/ step # "token"
  PROVE  InText'
BY DEF InText, Handed

LEMMA NextLex == IInv /\ ParserTypes /\ Blocks /\ LexInv /\ [Next]_vars => LexInv'
<1> SUFFICES ASSUME IInv, ParserTypes, Blocks, LexInv, [Next]_vars,
                    unread' = {}, step' # "idle"
             PROVE  InText'
  BY DEF LexInv
<1>1. CASE OpenFile
  BY <1>1, OpenLex
<1>2. CASE ReadFails
  BY <1>2 DEF ReadFails
<1>3. CASE FetchToken
  <2>1. unread = {} /\ InText
    BY <1>3 DEF FetchToken, Refill, TakeChar, EndOfSource, CanRefill, CanTake, LexInv
  <2>2. CASE Refill
    <3>1. UNCHANGED <<text, Pos, state, token, cell, cells>> /\ step' = "token"
      BY <2>2, RefillReader DEF Unseen, Refill, CanRefill, parserVars
    <3> QED BY <2>1, <3>1, RestLex
  <2>3. CASE TakeChar
    BY <2>1, <2>3, ReadLex, SeparateLex
  <2>4. CASE EndOfSource
    BY <2>1, <2>4, TailLex
  <2> QED BY <1>3, <2>2, <2>3, <2>4 DEF FetchToken
<1>4. CASE HeaderCell \/ HeaderRow \/ DataCell \/ DataRow
  <2>1. (NextCell \/ NextRow) /\ unread = {}
    BY <1>4, IterateSteps DEF HeaderCell, HeaderRow, DataCell, DataRow
  <2>2. InText
    BY <2>1 DEF NextCell, NextRow, LexInv
  <2>3. UNCHANGED <<text, Pos, state, token, cell, cells>> /\ step # "token"
    BY <2>1 DEF NextCell, NextRow, streamVars, bufferVars, parserVars, Pos
  <2> QED BY <2>2, <2>3, RestLex
<1>5. CASE Aside
  <2>1. step' = step /\ UNCHANGED <<text, Pos, state, token, cell, cells>>
    BY <1>5 DEF Aside, streamVars, bufferVars, parserVars, Pos
  <2>2. unread = {}
    BY DEF Next, Steps, NoFile, OpenFile, FetchToken, FileDone, Report, Finished, HeaderCell,
           HeaderRow, HeaderFails, DataCell, DataRow, TooManyCells, Close, ReadFails, vars
  <2>3. InText
    BY <2>1, <2>2 DEF LexInv
  <2> QED BY <2>1, <2>3, RestLex
<1>6. QED
  BY <1>1, <1>2, <1>3, <1>4, <1>5, AsideSteps DEF Next, Steps

\* As long as every read succeeds each cell that is handed out is the next cell
\* of the text, with just the characters its quotes and escapes leave, and the
\* parser's state tells whether its row, and the input, end with it: wherever
\* the refills fall, for every size of the buffer and every text.
THEOREM CellsAreOfTheText == Spec => []LexInv
<1>1. Init => IInv /\ Typed /\ Blocks /\ LexInv
  BY InitIInv, InitTyped, InitBlocks, InitLex
<1>2. IInv /\ Typed /\ Blocks /\ LexInv /\ [Next]_vars => (IInv /\ Typed /\ Blocks /\ LexInv)'
  BY NextIInv, NextParserTypes, NextFileTypes, NextCountTypes, NextBlocks, NextLex DEF Typed
<1> QED BY <1>1, <1>2, PTL DEF Spec

-----------------------------------------------------------------------------
(***************************************************************************)
(* The width of a row, cell by cell.                                        *)
(***************************************************************************)
First(set) == CHOOSE k \in set : \A l \in set : k <= l

\* The least number of a set is one of it, and the only one that is least.
LEMMA FirstIs ==
  ASSUME NEW set, set \subseteq Nat, set # {}
  PROVE  /\ First(set) \in set
         /\ \A l \in set : First(set) <= l
         /\ \A k \in set : (\A l \in set : k <= l) => First(set) = k
<1>1. PICK x \in set : \A y \in set : <<y, x>> \notin OpToRel(<, Nat)
  BY NatLessThanWellFounded, WFMin
<1>2. \A y \in set : x <= y
  <2> TAKE y \in set
  <2>1. x \in Nat /\ y \in Nat
    OBVIOUS
  <2>2. ~(y < x)
    BY <1>1, <2>1 DEF OpToRel
  <2> QED BY <2>1, <2>2
<1>3. First(set) \in set /\ \A l \in set : First(set) <= l
  BY <1>2 DEF First
<1>4. ASSUME NEW k \in set, \A l \in set : k <= l
      PROVE  First(set) = k
  <2>1. k <= First(set) /\ First(set) <= k /\ k \in Nat /\ First(set) \in Nat
    BY <1>3, <1>4
  <2> QED BY <2>1
<1> QED BY <1>3, <1>4

Filled(row, n) == {k \in 1 .. n : row[k] # <<>>}

\* The width of the first n cells of a row.
WidthTo(row, n) ==
  IF Filled(row, n) = {} THEN 0 ELSE n - First(Filled(row, n)) + 1

LEMMA WidthOfNone ==
  ASSUME NEW row
  PROVE  WidthTo(row, 0) = 0
BY DEF WidthTo, Filled

LEMMA WidthOfMore ==
  ASSUME NEW row, NEW n \in Nat
  PROVE  /\ WidthTo(row, n) \in Nat
         /\ WidthTo(row, n + 1) = IF WidthTo(row, n) = 0 /\ row[n + 1] = <<>> THEN 0
                                  ELSE WidthTo(row, n) + 1
<1> DEFINE less == Filled(row, n)
           more == Filled(row, n + 1)
<1>1. less \subseteq Nat /\ more \subseteq Nat /\ \A k \in less : k <= n
  BY DEF Filled
<1>2. more = IF row[n + 1] = <<>> THEN less ELSE less \cup {n + 1}
  <2>1. 1 .. n + 1 = (1 .. n) \cup {n + 1}
    OBVIOUS
  <2> QED BY <2>1 DEF Filled
<1>3. /\ WidthTo(row, n) = IF less = {} THEN 0 ELSE n - First(less) + 1
      /\ WidthTo(row, n + 1) = IF more = {} THEN 0 ELSE (n + 1) - First(more) + 1
  BY DEF WidthTo
<1> HIDE DEF less, more
<1>4. CASE less = {}
  <2>1. CASE row[n + 1] = <<>>
    BY <1>2, <1>3, <1>4, <2>1
  <2>2. CASE row[n + 1] # <<>>
    <3>1. more = {n + 1}
      BY <1>2, <1>4, <2>2
    <3>2. First(more) = n + 1
      BY <1>1, <3>1, FirstIs
    <3> QED BY <1>3, <1>4, <2>2, <3>1, <3>2
  <2> QED BY <2>1, <2>2
<1>5. CASE less # {}
  <2>1. First(less) \in less /\ \A l \in less : First(less) <= l
    BY <1>1, <1>5, FirstIs
  <2>2. First(less) \in Nat /\ First(less) <= n
    BY <1>1, <2>1
  <2>3. First(less) \in more /\ \A l \in more : First(less) <= l
    BY <1>2, <2>1, <2>2
  <2>4. First(more) = First(less) /\ more # {}
    BY <1>1, <2>3, FirstIs
  <2>5. WidthTo(row, n) = n - First(less) + 1 /\ WidthTo(row, n) # 0 /\ WidthTo(row, n) \in Nat
    BY <1>3, <1>5, <2>2
  <2>6. WidthTo(row, n + 1) = WidthTo(row, n) + 1
    BY <1>3, <2>2, <2>4, <2>5
  <2> QED BY <2>5, <2>6
<1> QED BY <1>4, <1>5

LEMMA WidthOfAll ==
  ASSUME NEW row, NEW n \in Nat, DOMAIN row = 1 .. n, Len(row) = n
  PROVE  Width(row) = WidthTo(row, n) /\ Width(row) \in Nat
<1>1. Width(row) = WidthTo(row, n)
  BY DEF Width, WidthTo, Filled, First
<1> QED BY <1>1, WidthOfMore

(***************************************************************************)
(* Where the program is in the rows of a text when h cells were handed out: *)
(* in the r-th row, or behind the last one.                                 *)
(***************************************************************************)
RowPlace(t, r, h, now) ==
  IF now = "end" THEN r = Len(EndsOfRows(t)) + 1
  ELSE /\ r <= Len(EndsOfRows(t))
       /\ Start(EndsOfRows(t), r) <= h + 1
       /\ h <= EndsOfRows(t)[r]
       /\ now = "token" => h < EndsOfRows(t)[r]
       /\ now = "cell" => Start(EndsOfRows(t), r) <= h
       /\ now = "row" => h = EndsOfRows(t)[r]

\* The cells of the row that were visited: the one that was just handed out is
\* not yet.
VisitedOf(t, r, h, now) ==
  h - Start(EndsOfRows(t), r) + (IF now = "cell" THEN 0 ELSE 1)

LEMMA RowBegins ==
  ASSUME NEW t \in Seq(Chars)
  PROVE  RowPlace(t, 1, 0, "token") /\ VisitedOf(t, 1, 0, "token") = 0
<1>1. Start(EndsOfRows(t), 1) = 1
  BY DEF Start
<1>2. 1 \in 1 .. Len(EndsOfRows(t)) /\ 1 <= Len(EndsOfRows(t))
  BY RowEndsAre
<1>3. EndsOfRows(t)[1] \in Nat /\ 1 <= EndsOfRows(t)[1]
  BY <1>1, <1>2, RowIs
<1> QED BY <1>1, <1>2, <1>3 DEF RowPlace, VisitedOf

\* A row that is read, or has been read, is one of the text.
LEMMA RowPlaceIs ==
  ASSUME NEW t \in Seq(Chars), NEW r \in Nat \ {0}, NEW h \in Nat, NEW now,
         RowPlace(t, r, h, now), now # "end"
  PROVE  /\ r \in 1 .. Len(EndsOfRows(t))
         /\ Start(EndsOfRows(t), r) \in Nat \ {0}
         /\ EndsOfRows(t)[r] \in Nat
         /\ EndsOfRows(t)[r] <= Len(Ends(t))
         /\ Start(EndsOfRows(t), r) <= h + 1
         /\ h <= EndsOfRows(t)[r]
<1>1. Len(EndsOfRows(t)) \in Nat
  BY RowEndsAre
<1>2. r \in 1 .. Len(EndsOfRows(t))
  BY <1>1 DEF RowPlace
<1> QED BY <1>2, RowIs DEF RowPlace

LEMMA CellOfRow ==
  ASSUME NEW t \in Seq(Chars), NEW r \in Nat \ {0}, NEW h \in Nat,
         RowPlace(t, r, h, "token")
  PROVE  /\ RowPlace(t, r, h + 1, "cell")
         /\ VisitedOf(t, r, h + 1, "cell") = VisitedOf(t, r, h, "token")
<1>1. /\ Start(EndsOfRows(t), r) \in Nat /\ EndsOfRows(t)[r] \in Nat
      /\ Start(EndsOfRows(t), r) <= h + 1
  BY RowPlaceIs
<1>2. h < EndsOfRows(t)[r] /\ r <= Len(EndsOfRows(t))
  BY DEF RowPlace
<1> QED BY <1>1, <1>2 DEF RowPlace, VisitedOf

\* A cell was visited: it is the next one of the row, and whether it is the last
\* one is what the text says of it.
LEMMA AfterCell ==
  ASSUME NEW t \in Seq(Chars), NEW r \in Nat \ {0}, NEW h \in Nat,
         RowPlace(t, r, h, "cell"), NEW v, v = VisitedOf(t, r, h, "cell")
  PROVE  /\ v \in Nat
         /\ IF LastOfRow(t, Ends(t), h) THEN RowPlace(t, r, h, "row")
            ELSE RowPlace(t, r, h, "token")
         /\ VisitedOf(t, r, h, "row") = v + 1
         /\ VisitedOf(t, r, h, "token") = v + 1
         /\ v + 1 <= Len(RowsOf(t)[r])
         /\ RowsOf(t)[r][v + 1] = CellAt(t, Ends(t), h)
<1> DEFINE a == Start(EndsOfRows(t), r)
           b == EndsOfRows(t)[r]
<1>1. /\ r \in 1 .. Len(EndsOfRows(t)) /\ a \in Nat \ {0} /\ b \in Nat
      /\ b <= Len(Ends(t)) /\ h <= b
  BY RowPlaceIs
<1>2. a <= h /\ v = h - a
  <2>1. v = h - a + 0 /\ a <= h
    BY DEF RowPlace, VisitedOf
  <2> HIDE DEF a
  <2> QED BY <1>1, <2>1
<1>3. v \in Nat /\ v + 1 \in 1 .. b - a + 1 /\ a + (v + 1) - 1 = h
  <2> HIDE DEF a, b
  <2> QED BY <1>1, <1>2
<1>4. Len(RowsOf(t)[r]) = b - a + 1 /\ RowsOf(t)[r][v + 1] = CellAt(t, Ends(t), a + (v + 1) - 1)
  <2>1. /\ Len(RowsOf(t)[r]) = b - a + 1
        /\ \A k \in 1 .. b - a + 1 : RowsOf(t)[r][k] = CellAt(t, Ends(t), a + k - 1)
    BY <1>1, RowIs
  <2> HIDE DEF a, b
  <2> QED BY <1>3, <2>1
<1>5. VisitedOf(t, r, h, "row") = v + 1 /\ VisitedOf(t, r, h, "token") = v + 1
  BY <1>1, <1>2 DEF VisitedOf
<1>6. IF h \in LastsOfRows(t) THEN b = h ELSE h < b
  <2>1. h - 1 \in Nat /\ (h - 1) + 1 = h
    BY <1>1, <1>2
  <2>2. r - 1 \in Nat /\ (r - 1) + 1 = r /\ r - 1 < Len(EndsOfRows(t))
    BY <1>1
  <2>3. Lists(EndsOfRows(t), LastsOfRows(t), Len(Ends(t))) /\ Len(Ends(t)) \in Nat
    BY RowEndsAre, EndsAre
  <2>4. Start(EndsOfRows(t), (r - 1) + 1) <= (h - 1) + 1 /\ h - 1 < EndsOfRows(t)[(r - 1) + 1]
    BY <1>1, <1>2, <2>1, <2>2
  <2>5. IF (h - 1) + 1 \in LastsOfRows(t) THEN EndsOfRows(t)[(r - 1) + 1] = (h - 1) + 1
        ELSE (h - 1) + 1 < EndsOfRows(t)[(r - 1) + 1]
    BY <2>1, <2>2, <2>3, <2>4, NextListed
  <2> QED BY <2>1, <2>2, <2>5
<1>7. h \in LastsOfRows(t) <=> LastOfRow(t, Ends(t), h)
  <2>1. DOMAIN Ends(t) = 1 .. Len(Ends(t)) /\ Len(Ends(t)) \in Nat
    <3>1. Lists(Ends(t), EndPlaces(t), Len(t) + 1) /\ Len(t) + 1 \in Nat
      BY EndsAre
    <3> QED BY <3>1, ListedType
  <2>2. h \in 1 .. Len(Ends(t))
    BY <1>1, <1>2, <2>1
  <2> QED BY <2>1, <2>2 DEF LastsOfRows
<1>8. IF LastOfRow(t, Ends(t), h) THEN RowPlace(t, r, h, "row") ELSE RowPlace(t, r, h, "token")
  <2>1. r <= Len(EndsOfRows(t)) /\ a <= h + 1
    BY <1>1, <1>2
  <2>2. CASE LastOfRow(t, Ends(t), h)
    BY <1>1, <1>6, <1>7, <2>1, <2>2 DEF RowPlace
  <2>3. CASE ~LastOfRow(t, Ends(t), h)
    BY <1>1, <1>6, <1>7, <2>1, <2>3 DEF RowPlace
  <2> QED BY <2>2, <2>3
<1> QED BY <1>3, <1>4, <1>5, <1>8

\* A row was visited: all of it, and the next one is entered if there is one.
LEMMA AfterRow ==
  ASSUME NEW t \in Seq(Chars), NEW r \in Nat \ {0}, NEW h \in Nat,
         RowPlace(t, r, h, "row")
  PROVE  /\ VisitedOf(t, r, h, "row") = Len(RowsOf(t)[r])
         /\ IF h = Len(Ends(t)) THEN RowPlace(t, r + 1, h, "end")
            ELSE RowPlace(t, r + 1, h, "token") /\ VisitedOf(t, r + 1, h, "token") = 0
<1> DEFINE a == Start(EndsOfRows(t), r)
           b == EndsOfRows(t)[r]
           n == Len(EndsOfRows(t))
<1>1. r \in 1 .. n /\ a \in Nat \ {0} /\ b \in Nat
  BY RowPlaceIs
<1>2. h = b
  BY DEF RowPlace
<1>3. VisitedOf(t, r, h, "row") = Len(RowsOf(t)[r])
  <2>1. Len(RowsOf(t)[r]) = b - a + 1
    BY <1>1, RowIs
  <2> QED BY <1>1, <1>2, <2>1 DEF VisitedOf
<1>4. n \in Nat /\ ((b = Len(Ends(t))) = (r = n))
  BY <1>1, RowEndsAre
<1>5. CASE h = Len(Ends(t))
  BY <1>2, <1>3, <1>4, <1>5 DEF RowPlace
<1>6. CASE h # Len(Ends(t))
  <2>1. r + 1 \in 1 .. n /\ r + 1 <= n /\ r < r + 1
    BY <1>1, <1>2, <1>4, <1>6
  <2>2. r + 1 # 1 /\ (r + 1) - 1 = r
    BY <1>1
  <2>3. Start(EndsOfRows(t), r + 1) = h + 1
    BY <1>2, <2>2 DEF Start
  <2>4. EndsOfRows(t)[r + 1] \in Nat /\ h + 1 <= EndsOfRows(t)[r + 1]
    BY <2>1, <2>3, RowIs
  <2>5. h < EndsOfRows(t)[r + 1] /\ h <= EndsOfRows(t)[r + 1]
    BY <2>4
  <2>6. h - (h + 1) + 1 = 0
    OBVIOUS
  <2>7. RowPlace(t, r + 1, h, "token")
    BY <2>1, <2>3, <2>5 DEF RowPlace
  <2>8. VisitedOf(t, r + 1, h, "token") = 0
    BY <2>3, <2>6 DEF VisitedOf
  <2> QED BY <1>3, <1>6, <2>7, <2>8
<1> QED BY <1>5, <1>6

-----------------------------------------------------------------------------
(***************************************************************************)
(* The verdicts of the files, one after the other.                          *)
(***************************************************************************)

\* A text has a row, and its rows have widths.
LEMMA RowWidths ==
  ASSUME NEW t \in Seq(Chars)
  PROVE  /\ Len(RowsOf(t)) \in Nat \ {0} /\ DOMAIN RowsOf(t) = 1 .. Len(RowsOf(t))
         /\ RowsOf(t) # <<>>
         /\ \A r \in 1 .. Len(RowsOf(t)) :
              /\ Len(RowsOf(t)[r]) \in Nat /\ DOMAIN RowsOf(t)[r] = 1 .. Len(RowsOf(t)[r])
              /\ Width(RowsOf(t)[r]) = WidthTo(RowsOf(t)[r], Len(RowsOf(t)[r]))
              /\ Width(RowsOf(t)[r]) \in Nat
<1>1. /\ Len(RowsOf(t)) = Len(EndsOfRows(t)) /\ Len(RowsOf(t)) \in Nat \ {0}
      /\ DOMAIN RowsOf(t) = 1 .. Len(RowsOf(t))
  BY RowsAre, RowEndsAre
<1>2. ASSUME NEW r \in 1 .. Len(RowsOf(t))
      PROVE  /\ Len(RowsOf(t)[r]) \in Nat /\ DOMAIN RowsOf(t)[r] = 1 .. Len(RowsOf(t)[r])
             /\ Width(RowsOf(t)[r]) = WidthTo(RowsOf(t)[r], Len(RowsOf(t)[r]))
             /\ Width(RowsOf(t)[r]) \in Nat
  <2> DEFINE row == RowsOf(t)[r]
             n == EndsOfRows(t)[r] - Start(EndsOfRows(t), r) + 1
  <2>1. /\ Len(row) = n /\ DOMAIN row = 1 .. n /\ n \in Nat
    BY <1>1, RowIs
  <2> HIDE DEF n, row
  <2>2. Width(row) = WidthTo(row, n) /\ Width(row) \in Nat
    BY <2>1, WidthOfAll
  <2> QED BY <2>1, <2>2 DEF row
<1>3. RowsOf(t) # <<>>
  <2>1. Len(<<>>) = 0
    OBVIOUS
  <2> QED BY <1>1, <2>1
<1> QED BY <1>1, <1>2, <1>3

\* The width the rows are held to.
LEMMA ExpectedIs ==
  ASSUME NEW t \in Seq(Chars), NEW w \in Nat, NEW s \in Nat
  PROVE  /\ Expected(RowsOf(t), w, s) \in Nat
         /\ Expected(RowsOf(t), w, s) = IF w = 0 /\ s # 0 THEN Width(RowsOf(t)[1]) ELSE w
<1>1. RowsOf(t) # <<>> /\ 1 \in 1 .. Len(RowsOf(t))
  BY RowWidths
<1>2. Width(RowsOf(t)[1]) \in Nat
  BY <1>1, RowWidths
<1> QED BY <1>1, <1>2 DEF Expected

LEMMA VerdictWidth ==
  ASSUME NEW file \in Seq(Chars) \cup {NoSuchFile}, NEW w \in Nat, NEW headers \in Nat
  PROVE  Verdict(file, w, headers).width \in Nat
<1>1. CASE file = NoSuchFile
  BY <1>1 DEF Verdict
<1>2. CASE file # NoSuchFile
  <2> DEFINE skip == IF headers = 0 /\ w = 0 THEN 1 ELSE headers
  <2>1. file \in Seq(Chars) /\ skip \in Nat
    BY <1>2
  <2>2. Verdict(file, w, headers).width = Expected(RowsOf(file), w, skip)
    BY <1>2 DEF Verdict, VerdictOfRows, VerdictHeldTo
  <2> HIDE DEF skip
  <2>3. Expected(RowsOf(file), w, skip) \in Nat
    BY <2>1, ExpectedIs
  <2> QED BY <2>2, <2>3
<1> QED BY <1>1, <1>2

\* What is known before the i-th file.
WidthBy(verdicts, i) == IF i = 1 THEN 0 ELSE verdicts[i - 1].width

NoneGoodBy(verdicts, i) == \A j \in 1 .. i - 1 : verdicts[j].kind # "none"

HeadersBy(input, verdicts, i) ==
  IF NoneGoodBy(verdicts, i) THEN input.headers ELSE input.others

IsInput(input) ==
  /\ input.files \in Seq(Seq(Chars) \cup {NoSuchFile})
  /\ input.headers \in Nat
  /\ input.others \in Nat

\* What a file leaves for the next one: the width, and whether none was good.
Left(verdict, none) == <<verdict.width, none /\ verdict.kind # "none">>

LEMMA LeftIs ==
  ASSUME NEW verdict, NEW none
  PROVE  /\ Left(verdict, none)[1] = verdict.width
         /\ Left(verdict, none)[2] <=> none /\ verdict.kind # "none"
BY DEF Left

LEMMA VerdictsAre ==
  ASSUME NEW input, IsInput(input)
  PROVE  /\ DOMAIN Verdicts(input) = 1 .. Len(input.files)
         /\ \A i \in 1 .. Len(input.files) :
              Verdicts(input)[i] = Verdict(input.files[i], WidthBy(Verdicts(input), i),
                                           HeadersBy(input, Verdicts(input), i))
<1> DEFINE n == Len(input.files)
           V == Nat \X BOOLEAN
           Of(i, s) == Verdict(input.files[i], s[1], IF s[2] THEN input.headers ELSE input.others)
           g == [p \in Nat \X V |-> IF p[1] + 1 \in 1 .. n
                                    THEN Left(Of(p[1] + 1, p[2]), p[2][2]) ELSE p[2]]
           Step(f, i) == Verdict(input.files[i], WidthBy(f, i), HeadersBy(input, f, i))
           verdict == CHOOSE f : f = [i \in 1 .. n |-> Step(f, i)]
<1>1. n \in Nat /\ \A i \in 1 .. n : input.files[i] \in Seq(Chars) \cup {NoSuchFile}
  BY DEF IsInput
<1> HIDE DEF n
<1>2. \A i \in 1 .. n, s \in V : Of(i, s).width \in Nat
  <2> TAKE i \in 1 .. n, s \in V
  <2>1. s[1] \in Nat /\ (IF s[2] THEN input.headers ELSE input.others) \in Nat
    BY DEF IsInput
  <2> QED BY <1>1, <2>1, VerdictWidth
<1> HIDE DEF Of
<1>3. g \in [Nat \X V -> V] /\ <<0, TRUE>> \in V
  BY <1>2 DEF Left
<1>4. PICK f : Continues(f, V, <<0, TRUE>>, g)
  <2> HIDE DEF g, V
  <2> QED BY <1>3, RecursionOnNat
<1>5. f[0] = <<0, TRUE>> /\ \A i \in Nat : f[i] \in V
  BY <1>4 DEF Continues
<1>6. \A i \in Nat : i + 1 \in 1 .. n => f[i + 1] = Left(Of(i + 1, f[i]), f[i][2])
  <2> TAKE i \in Nat
  <2>1. <<i, f[i]>> \in Nat \X V
    BY <1>5
  <2> QED BY <1>4, <2>1 DEF Continues
<1> HIDE DEF g, V
<1> DEFINE v == [i \in 1 .. n |-> Of(i, f[i - 1])]
<1>7. \A i \in 1 .. n : v[i] = Of(i, f[i - 1])
  OBVIOUS
<1>8. DOMAIN v = 1 .. n /\ v = [i \in 1 .. n |-> v[i]]
  OBVIOUS
<1> HIDE DEF v
<1>9. \A i \in 1 .. n : f[i] = Left(v[i], f[i - 1][2])
  <2> TAKE i \in 1 .. n
  <2>1. i - 1 \in Nat /\ (i - 1) + 1 = i
    BY <1>1
  <2> QED BY <1>6, <1>7, <2>1
<1>10. \A i \in 1 .. n : f[i - 1][1] = WidthBy(v, i)
  <2> TAKE i \in 1 .. n
  <2>1. CASE i = 1
    <3>1. i - 1 = 0
      BY <2>1
    <3>2. f[i - 1] = <<0, TRUE>>
      BY <1>5, <3>1
    <3> QED BY <2>1, <3>2 DEF WidthBy
  <2>2. CASE i # 1
    <3>1. i - 1 \in 1 .. n
      BY <1>1, <2>2
    <3>2. f[i - 1] = Left(v[i - 1], f[(i - 1) - 1][2])
      BY <1>9, <3>1
    <3> QED BY <2>2, <3>2, LeftIs DEF WidthBy
  <2> QED BY <2>1, <2>2
<1>11. \A i \in Nat : i <= n => (f[i][2] <=> \A j \in 1 .. i : v[j].kind # "none")
  <2> DEFINE S == {i \in Nat : i <= n => (f[i][2] <=> \A j \in 1 .. i : v[j].kind # "none")}
  <2>1. 0 \in S
    <3>1. f[0][2] = TRUE
      BY <1>5
    <3> QED BY <3>1
  <2>2. ASSUME NEW i \in Nat, i \in S PROVE i + 1 \in S
    <3> SUFFICES ASSUME i + 1 <= n
                 PROVE  f[i + 1][2] <=> \A j \in 1 .. i + 1 : v[j].kind # "none"
      OBVIOUS
    <3>1. i + 1 \in 1 .. n /\ (i + 1) - 1 = i /\ i <= n
      BY <1>1
    <3>2. f[i + 1] = Left(v[i + 1], f[i][2])
      BY <1>9, <3>1
    <3>3. f[i + 1][2] <=> f[i][2] /\ v[i + 1].kind # "none"
      BY <3>2, LeftIs
    <3>4. f[i][2] <=> \A j \in 1 .. i : v[j].kind # "none"
      BY <2>2, <3>1
    <3>5. 1 .. i + 1 = (1 .. i) \cup {i + 1}
      OBVIOUS
    <3> QED BY <3>3, <3>4, <3>5
  <2>3. Nat \subseteq S
    <3> HIDE DEF S
    <3> QED BY <2>1, <2>2, SetInduction
  <2> QED BY <2>3
<1>12. \A i \in 1 .. n : v[i] = Step(v, i)
  <2> TAKE i \in 1 .. n
  <2>1. i - 1 \in Nat /\ i - 1 <= n
    BY <1>1
  <2>2. f[i - 1][2] <=> NoneGoodBy(v, i)
    BY <1>11, <2>1 DEF NoneGoodBy
  <2>3. v[i] = Of(i, f[i - 1]) /\ f[i - 1][1] = WidthBy(v, i)
    BY <1>7, <1>10
  <2> QED BY <2>2, <2>3 DEF Of, HeadersBy
<1>13. v = [i \in 1 .. n |-> Step(v, i)]
  <2> HIDE DEF Step
  <2> QED BY <1>8, <1>12
<1>14. verdict = [i \in 1 .. n |-> Step(verdict, i)]
  <2> HIDE DEF Step
  <2> QED BY <1>13
<1>15. Verdicts(input) = verdict
  BY DEF Verdicts, WidthBy, NoneGoodBy, HeadersBy, n
<1> HIDE DEF verdict
<1>16. DOMAIN verdict = 1 .. n /\ \A i \in 1 .. n : verdict[i] = Step(verdict, i)
  <2> HIDE DEF Step
  <2> QED BY <1>14
<1> QED BY <1>15, <1>16 DEF n

\* What is known before a file is a width and a number of header rows.
LEMMA KnownBefore ==
  ASSUME NEW input, IsInput(input), NEW i \in 1 .. Len(input.files) + 1
  PROVE  /\ WidthBy(Verdicts(input), i) \in Nat
         /\ HeadersBy(input, Verdicts(input), i) \in Nat
<1> DEFINE S == {k \in Nat : k <= Len(input.files) => WidthBy(Verdicts(input), k + 1) \in Nat}
<1>1. Len(input.files) \in Nat
      /\ \A k \in 1 .. Len(input.files) : input.files[k] \in Seq(Chars) \cup {NoSuchFile}
  BY DEF IsInput
<1>2. \A k : HeadersBy(input, Verdicts(input), k) \in Nat
  BY DEF IsInput, HeadersBy
<1>3. 0 \in S
  BY DEF WidthBy
<1>4. ASSUME NEW k \in Nat, k \in S PROVE k + 1 \in S
  <2> SUFFICES ASSUME k + 1 <= Len(input.files)
               PROVE  WidthBy(Verdicts(input), (k + 1) + 1) \in Nat
    OBVIOUS
  <2>1. k + 1 \in 1 .. Len(input.files) /\ (k + 1) + 1 # 1 /\ ((k + 1) + 1) - 1 = k + 1
    BY <1>1
  <2>2. WidthBy(Verdicts(input), k + 1) \in Nat
    BY <1>1, <1>4
  <2>3. Verdicts(input)[k + 1] = Verdict(input.files[k + 1], WidthBy(Verdicts(input), k + 1),
                                         HeadersBy(input, Verdicts(input), k + 1))
    BY <2>1, VerdictsAre
  <2>4. Verdicts(input)[k + 1].width \in Nat
    BY <1>1, <1>2, <2>1, <2>2, <2>3, VerdictWidth
  <2> QED BY <2>1, <2>4 DEF WidthBy
<1>5. Nat \subseteq S
  <2> HIDE DEF S
  <2> QED BY <1>3, <1>4, SetInduction
<1>6. i - 1 \in Nat /\ i - 1 <= Len(input.files) /\ (i - 1) + 1 = i
  BY <1>1
<1>7. WidthBy(Verdicts(input), (i - 1) + 1) \in Nat
  BY <1>5, <1>6
<1> QED BY <1>2, <1>6, <1>7

(***************************************************************************)
(* The kind of a file's error, from its first row that does not fit.        *)
(***************************************************************************)
BadHeads(all, held, skip) ==
  {r \in DOMAIN all : r <= skip /\ Width(all[r]) \notin {held} \ {0}}

BadRows(all, held, skip) == {r \in DOMAIN all : r > skip /\ Len(all[r]) > held}

\* The first n rows fit.
Fits(all, held, skip, n) ==
  \A q \in 1 .. n :
    IF q <= skip THEN held # 0 /\ Width(all[q]) = held ELSE Len(all[q]) <= held

LEMMA KindOfAll ==
  ASSUME NEW t \in Seq(Chars), NEW held \in Nat, NEW skip \in Nat
  PROVE  Fits(RowsOf(t), held, skip, Len(RowsOf(t))) <=>
           Kind(RowsOf(t), held, skip) = "none"
<1> DEFINE all == RowsOf(t)
           n == Len(all)
<1>1. n \in Nat /\ DOMAIN all = 1 .. n
      /\ \A r \in 1 .. n : Len(all[r]) \in Nat /\ Width(all[r]) \in Nat
  BY RowWidths
<1>2. Kind(all, held, skip) = KindAfter(all, BadHeads(all, held, skip), BadRows(all, held, skip), skip)
  BY DEF Kind, BadHeads, BadRows
<1> HIDE DEF all, n
<1>3. (BadHeads(all, held, skip) = {} /\ BadRows(all, held, skip) = {}) <=>
        Kind(all, held, skip) = "none"
  BY <1>2 DEF KindAfter, HeaderKind, DataKind
<1>4. ASSUME Fits(all, held, skip, n)
      PROVE  BadHeads(all, held, skip) = {} /\ BadRows(all, held, skip) = {}
  BY <1>1, <1>4 DEF Fits, BadHeads, BadRows
<1>5. ASSUME BadHeads(all, held, skip) = {}, BadRows(all, held, skip) = {}
      PROVE  Fits(all, held, skip, n)
  <2> SUFFICES ASSUME NEW q \in 1 .. n
               PROVE  IF q <= skip THEN held # 0 /\ Width(all[q]) = held ELSE Len(all[q]) <= held
    BY DEF Fits
  <2>1. CASE q <= skip
    <3>1. Width(all[q]) \in {held} \ {0}
      BY <1>1, <1>5, <2>1 DEF BadHeads
    <3> QED BY <2>1, <3>1
  <2>2. CASE ~(q <= skip)
    <3>1. q > skip /\ Len(all[q]) \in Nat
      BY <1>1, <2>2
    <3>2. ASSUME Len(all[q]) > held PROVE FALSE
      <4>1. q \in BadRows(all, held, skip)
        BY <1>1, <3>1, <3>2 DEF BadRows
      <4> QED BY <1>5, <4>1
    <3> QED BY <2>2, <3>1, <3>2
  <2> QED BY <2>1, <2>2
<1> QED BY <1>3, <1>4, <1>5 DEF all, n

LEMMA KindOfHead ==
  ASSUME NEW t \in Seq(Chars), NEW held \in Nat, NEW skip \in Nat,
         NEW r \in 1 .. Len(RowsOf(t)), r <= skip,
         Fits(RowsOf(t), held, skip, r - 1), Width(RowsOf(t)[r]) \notin {held} \ {0}
  PROVE  Kind(RowsOf(t), held, skip) =
           IF Width(RowsOf(t)[r]) = 0 THEN "empty_file" ELSE "invalid_columns_count"
<1> DEFINE all == RowsOf(t)
           heads == BadHeads(all, held, skip)
<1>1. DOMAIN all = 1 .. Len(all) /\ Len(all) \in Nat
  BY RowWidths
<1>2. Kind(all, held, skip) = KindAfter(all, heads, BadRows(all, held, skip), skip)
  BY DEF Kind, BadHeads, BadRows
<1>3. r \in heads /\ heads \subseteq Nat
  BY <1>1 DEF BadHeads
<1>4. \A s \in heads : r <= s
  <2> TAKE s \in heads
  <2>1. s \in 1 .. Len(all) /\ s <= skip /\ Width(all[s]) \notin {held} \ {0}
    BY <1>1 DEF BadHeads
  <2>2. s \in 1 .. r - 1 => held # 0 /\ Width(all[s]) = held
    BY <2>1 DEF Fits
  <2> QED BY <2>1, <2>2
<1> HIDE DEF heads, all
<1>5. First(heads) = r
  BY <1>3, <1>4, FirstIs
<1>6. heads # {}
  BY <1>3
<1>7. Kind(all, held, skip) = HeaderKind(all[r])
  BY <1>2, <1>5, <1>6 DEF KindAfter, First
<1> QED BY <1>7 DEF HeaderKind, all

LEMMA KindOfRow ==
  ASSUME NEW t \in Seq(Chars), NEW held \in Nat, NEW skip \in Nat,
         NEW r \in 1 .. Len(RowsOf(t)), r > skip,
         Fits(RowsOf(t), held, skip, r - 1), Len(RowsOf(t)[r]) > held
  PROVE  Kind(RowsOf(t), held, skip) =
           IF r = skip + 1 THEN "empty_file" ELSE "csv_parsing_error"
<1> DEFINE all == RowsOf(t)
           bad == BadRows(all, held, skip)
<1>1. DOMAIN all = 1 .. Len(all) /\ Len(all) \in Nat
      /\ \A q \in 1 .. Len(all) : Len(all[q]) \in Nat
  BY RowWidths
<1>2. Kind(all, held, skip) = KindAfter(all, BadHeads(all, held, skip), bad, skip)
  BY DEF Kind, BadHeads, BadRows
<1>3. BadHeads(all, held, skip) = {}
  <2>1. ASSUME NEW s \in BadHeads(all, held, skip) PROVE FALSE
    <3>1. s \in 1 .. r - 1 /\ s <= skip /\ Width(all[s]) \notin {held} \ {0}
      BY <1>1 DEF BadHeads
    <3>2. held # 0 /\ Width(all[s]) = held
      BY <3>1 DEF Fits
    <3> QED BY <3>1, <3>2
  <2> QED BY <2>1
<1>4. r \in bad
  BY <1>1 DEF BadRows
<1>5. skip + 1 \in bad <=> r = skip + 1
  <2>1. CASE r = skip + 1
    BY <1>4, <2>1
  <2>2. CASE r # skip + 1
    <3>1. skip + 1 \in 1 .. r - 1 /\ skip + 1 \in 1 .. Len(all) /\ ~(skip + 1 <= skip)
      BY <1>1, <2>2
    <3>2. Len(all[skip + 1]) <= held /\ Len(all[skip + 1]) \in Nat
      BY <1>1, <3>1 DEF Fits
    <3>3. skip + 1 \notin bad
      BY <3>2 DEF BadRows
    <3> QED BY <2>2, <3>3
  <2> QED BY <2>1, <2>2
<1> HIDE DEF bad, all
<1>6. Kind(all, held, skip) = DataKind(bad, skip) /\ bad # {}
  BY <1>2, <1>3, <1>4 DEF KindAfter
<1> QED BY <1>5, <1>6 DEF DataKind, all

\* A file that is good sets a width.
LEMMA GoodHasWidth ==
  ASSUME NEW file \in Seq(Chars) \cup {NoSuchFile}, NEW w \in Nat, NEW headers \in Nat,
         Verdict(file, w, headers).kind = "none"
  PROVE  Verdict(file, w, headers).width # 0
<1> DEFINE skip == IF headers = 0 /\ w = 0 THEN 1 ELSE headers
           held == Expected(RowsOf(file), w, skip)
<1>1. file # NoSuchFile
  BY DEF Verdict
<1>2. file \in Seq(Chars) /\ skip \in Nat /\ (w = 0 => skip # 0)
  BY <1>1
<1>3. /\ Verdict(file, w, headers).width = held
      /\ Verdict(file, w, headers).kind = Kind(RowsOf(file), held, skip)
  BY <1>1 DEF Verdict, VerdictOfRows, VerdictHeldTo
<1> HIDE DEF skip
<1>4. held \in Nat /\ held = IF w = 0 /\ skip # 0 THEN Width(RowsOf(file)[1]) ELSE w
  BY <1>2, ExpectedIs
<1>5. CASE w # 0
  BY <1>3, <1>4, <1>5
<1>6. CASE w = 0
  <2> HIDE DEF held
  <2>1. Fits(RowsOf(file), held, skip, Len(RowsOf(file)))
    BY <1>2, <1>3, <1>4, KindOfAll
  <2>2. 1 \in 1 .. Len(RowsOf(file)) /\ 1 <= skip
    BY <1>2, <1>6, RowWidths
  <2>3. held # 0
    BY <2>1, <2>2 DEF Fits
  <2> QED BY <1>3, <2>3
<1> QED BY <1>5, <1>6

-----------------------------------------------------------------------------
(***************************************************************************)
(* The program goes through the rows of the text, and counts their cells.   *)
(***************************************************************************)
WidthBefore == WidthBy(Verdicts(args), fileNo)

HeadersNow == HeadersBy(args, Verdicts(args), fileNo)

Skip == IF HeadersNow = 0 /\ WidthBefore = 0 THEN 1 ELSE HeadersNow

LEMMA KnownNow ==
  ASSUME IInv, FileTypes
  PROVE  /\ IsInput(args)
         /\ WidthBefore \in Nat /\ HeadersNow \in Nat /\ Skip \in Nat
         /\ WidthBefore = 0 => Skip # 0
<1>1. IsInput(args)
  BY InputIs DEF IsInput
<1>2. fileNo \in 1 .. Len(args.files) + 1
  BY DEF FileTypes
<1>3. WidthBefore \in Nat /\ HeadersNow \in Nat
  BY <1>1, <1>2, KnownBefore DEF WidthBefore, HeadersNow
<1> QED BY <1>1, <1>3 DEF Skip

\* What is known before the file does not change while it is read.
LEMMA KnownStays ==
  ASSUME UNCHANGED <<args, fileNo>>
  PROVE  UNCHANGED <<WidthBefore, HeadersNow, Skip>>
BY DEF WidthBefore, HeadersNow, Skip

\* The row that is read, or is to be read next.
RowNo == Skip - toSkip + rows + 1

Visited == VisitedOf(text, RowNo, Handed, step)

\* What is counted of the first v cells of a row.
CountAt(now, row, v) == IF now = "header" THEN WidthTo(row, v) ELSE v

InRow ==
  /\ step # "idle"
  /\ toSkip <= Skip
  /\ phase = IF toSkip = 0 THEN "data" ELSE "header"
  /\ phase = "header" => rows = 0
  /\ RowPlace(text, RowNo, Handed, step)
  /\ step # "end" => count = CountAt(phase, RowsOf(text)[RowNo], Visited)

RowInv == unread = {} /\ phase \in {"header", "data"} => InRow

\* Before a file is opened its header rows and its width are those it is due.
DueIs ==
  /\ skips = HeadersNow
  /\ phase \notin {"header", "data"} => Len(columns) = WidthBefore

LEMMA InitRow == Init => RowInv
BY DEF Init, RowInv

LEMMA RowNoIs ==
  ASSUME IInv, Typed, InRow
  PROVE  RowNo \in Nat \ {0} /\ Handed \in Nat /\ text \in Seq(Chars)
         /\ Skip \in Nat /\ toSkip \in Nat /\ rows \in Nat
<1>1. Skip \in Nat /\ toSkip \in Nat /\ rows \in Nat /\ toSkip <= Skip
  BY KnownNow DEF Typed, CountTypes, InRow
<1>2. RowNo \in Nat \ {0}
  BY <1>1 DEF RowNo
<1>3. Handed \in Nat /\ text \in Seq(Chars)
  BY DEF Typed, ParserTypes, Handed, IInv, Buffer
<1> QED BY <1>1, <1>2, <1>3

LEMMA OpenRow ==
  ASSUME IInv, Typed, DueIs, OpenFile
  PROVE  InRow' /\ RowNo' = 1 /\ Skip' = Skip /\ toSkip' = Skip
<1>1. WidthBefore \in Nat /\ HeadersNow \in Nat /\ Skip \in Nat
  BY KnownNow DEF Typed
<1>2. NoWidth <=> WidthBefore = 0
  <2>1. Len(columns) = WidthBefore /\ columns \in Seq(Column)
    BY DEF OpenFile, DueIs, Typed, CountTypes
  <2>2. columns = <<>> <=> Len(columns) = 0
    BY <2>1
  <2> QED BY <2>1, <2>2 DEF NoWidth
<1>3. UNCHANGED <<args, fileNo>> /\ rows' = 0 /\ count' = 0
  BY DEF OpenFile, mainVars
<1>4. Skip' = Skip
  BY <1>3, KnownStays
<1>5. toSkip' = Skip
  BY <1>2 DEF OpenFile, DueIs, Skip
<1>6. phase' = IF toSkip' = 0 THEN "data" ELSE "header"
  BY DEF OpenFile
<1>7. RowNo' = 1
  BY <1>1, <1>3, <1>4, <1>5 DEF RowNo
<1>8. text' \in Seq(Chars) /\ cells' = <<>> /\ step' = "token"
  BY OpenedIsText DEF OpenFile, OpenStream
<1>9. Handed' = 0
  BY <1>8 DEF Handed
<1>10. RowPlace(text', 1, 0, "token") /\ VisitedOf(text', 1, 0, "token") = 0
  BY <1>8, RowBegins
<1>11. RowPlace(text', RowNo', Handed', step') /\ Visited' = 0
  BY <1>7, <1>8, <1>9, <1>10 DEF Visited
<1>12. count' = CountAt(phase', RowsOf(text')[RowNo'], Visited')
  BY <1>3, <1>11, WidthOfNone DEF CountAt
<1>13. step' # "idle" /\ toSkip' <= Skip'
  BY <1>1, <1>4, <1>5, <1>8
<1> QED BY <1>3, <1>4, <1>5, <1>6, <1>7, <1>11, <1>12, <1>13 DEF InRow

\* What a step of the parser changes of it: a cell is handed out, or none.
LEMMA FetchIs ==
  ASSUME IInv, Typed, Blocks, unread = {}, FetchToken
  PROVE  /\ step = "token" /\ text' = text
         /\ UNCHANGED <<args, fileNo, toSkip, rows, columns, count, phase, errors, unread, skips>>
         /\ \/ Handed' = Handed /\ step' = "token"
            \/ Handed' = Handed + 1 /\ step' = "cell"
<1>1. step = "token" /\ text' = text
  BY DEF FetchToken, Refill, TakeChar, EndOfSource, CanRefill, CanTake, streamVars
<1>2. UNCHANGED <<args, fileNo, toSkip, rows, columns, count, phase, errors, unread, skips>>
  BY DEF FetchToken, infoVars, mainVars
<1>3. ParserTypes /\ ~failed
  BY DEF Typed, Blocks
<1>4. CASE Refill
  BY <1>1, <1>2, <1>4 DEF Refill, parserVars, Handed
<1>5. CASE TakeChar /\ ~(Char # Dropped /\ Separates(state, Char))
  BY <1>1, <1>2, <1>5 DEF TakeChar, parserVars, Handed
<1>6. CASE TakeChar /\ Char # Dropped /\ Separates(state, Char)
  <2>1. HandOut(index' = inRead /\ eofbit, After(state, Char))
    BY <1>6 DEF TakeChar
  <2> QED BY <1>1, <1>2, <1>3, <2>1, HandedOut
<1>7. CASE EndOfSource
  <2>1. HandOut(SourceEof, state)
    BY <1>7 DEF EndOfSource
  <2> QED BY <1>1, <1>2, <1>3, <2>1, HandedOut
<1> QED BY <1>4, <1>5, <1>6, <1>7 DEF FetchToken

LEMMA FetchRow ==
  ASSUME IInv, Typed, Blocks, unread = {}, InRow, FetchToken
  PROVE  InRow' /\ RowNo' = RowNo
<1>1. /\ step = "token" /\ text' = text
      /\ UNCHANGED <<args, fileNo, toSkip, rows, columns, count, phase, errors, unread, skips>>
      /\ \/ Handed' = Handed /\ step' = "token"
         \/ Handed' = Handed + 1 /\ step' = "cell"
  BY FetchIs
<1>2. Skip' = Skip /\ RowNo' = RowNo
  BY <1>1, KnownStays DEF RowNo
<1>3. RowNo \in Nat \ {0} /\ Handed \in Nat /\ text \in Seq(Chars)
  BY RowNoIs
<1>4. RowPlace(text, RowNo, Handed, "token")
  BY <1>1 DEF InRow
<1>5. RowPlace(text', RowNo', Handed', step') /\ Visited' = Visited
  <2>1. CASE Handed' = Handed /\ step' = "token"
    BY <1>1, <1>2, <1>4, <2>1 DEF Visited
  <2>2. CASE Handed' = Handed + 1 /\ step' = "cell"
    BY <1>1, <1>2, <1>3, <1>4, <2>2, CellOfRow DEF Visited
  <2> QED BY <1>1, <2>1, <2>2
<1>6. step # "end" /\ step' # "idle"
  BY <1>1
<1> QED BY <1>1, <1>2, <1>5, <1>6 DEF InRow

\* The parser's state says whether the row, and the input, end with the cell.
LEMMA EolIs ==
  ASSUME IInv, ParserTypes, InText, step \in {"cell", "row"}
  PROVE  /\ Eol <=> LastOfRow(text, Ends(text), Handed)
         /\ Eof <=> Handed = Len(Ends(text))
         /\ cell = CellAt(text, Ends(text), Handed)
<1>1. Handed \in Nat /\ Len(Ends(text)) \in Nat /\ Handed <= Len(Ends(text))
  BY EndsAre DEF ParserTypes, Handed, InText, IInv, Buffer
<1>2. /\ state = "END_INPUT" <=> Handed = Len(Ends(text))
      /\ HandedRight(text, Handed, cell, state)
  BY DEF InText
<1>3. Handed < Len(Ends(text)) => (state = "END_LINE" <=> text[Ends(text)[Handed]] = NewLine)
  BY <1>2 DEF HandedRight
<1>4. Eol <=> LastOfRow(text, Ends(text), Handed)
  BY <1>1, <1>2, <1>3 DEF Eol, LastOfRow
<1>5. Eof <=> Handed = Len(Ends(text))
  BY <1>2 DEF Eof
<1> QED BY <1>2, <1>4, <1>5 DEF HandedRight

\* The cell that was handed out is the next one of its row.
LEMMA CellIs ==
  ASSUME IInv, Typed, InText, InRow, step = "cell"
  PROVE  /\ Visited \in Nat
         /\ Visited + 1 <= Len(RowsOf(text)[RowNo])
         /\ cell = RowsOf(text)[RowNo][Visited + 1]
         /\ RowNo \in 1 .. Len(RowsOf(text))
         /\ count = CountAt(phase, RowsOf(text)[RowNo], Visited)
<1>1. RowNo \in Nat \ {0} /\ Handed \in Nat /\ text \in Seq(Chars)
  BY RowNoIs
<1>2. /\ RowPlace(text, RowNo, Handed, "cell")
      /\ Visited = VisitedOf(text, RowNo, Handed, "cell")
      /\ count = CountAt(phase, RowsOf(text)[RowNo], Visited)
  BY DEF InRow, Visited
<1>3. /\ Visited \in Nat /\ Visited + 1 <= Len(RowsOf(text)[RowNo])
      /\ RowsOf(text)[RowNo][Visited + 1] = CellAt(text, Ends(text), Handed)
  BY <1>1, <1>2, AfterCell
<1>4. cell = CellAt(text, Ends(text), Handed)
  BY EolIs DEF Typed
<1>5. RowNo \in 1 .. Len(RowsOf(text))
  BY <1>1, <1>2, RowPlaceIs, RowsAre
<1> QED BY <1>2, <1>3, <1>4, <1>5

LEMMA NextCellRow ==
  ASSUME IInv, Typed, InText, InRow, NextCell,
         UNCHANGED <<args, fileNo, toSkip, rows, phase>>,
         count' = CountAt(phase, RowsOf(text)[RowNo], Visited + 1)
  PROVE  InRow' /\ RowNo' = RowNo
<1>1. /\ step = "cell" /\ step' = (IF Eol THEN "row" ELSE "token")
      /\ text' = text /\ Handed' = Handed
  BY DEF NextCell, streamVars, parserVars, Handed
<1>2. Skip' = Skip /\ RowNo' = RowNo
  BY <1>1, KnownStays DEF RowNo
<1>3. RowNo \in Nat \ {0} /\ Handed \in Nat /\ text \in Seq(Chars)
  BY RowNoIs
<1>4. /\ RowPlace(text, RowNo, Handed, "cell")
      /\ Visited = VisitedOf(text, RowNo, Handed, "cell")
  BY <1>1 DEF InRow, Visited
<1>5. /\ IF LastOfRow(text, Ends(text), Handed) THEN RowPlace(text, RowNo, Handed, "row")
         ELSE RowPlace(text, RowNo, Handed, "token")
      /\ VisitedOf(text, RowNo, Handed, "row") = Visited + 1
      /\ VisitedOf(text, RowNo, Handed, "token") = Visited + 1
  BY <1>3, <1>4, AfterCell
<1>6. Eol <=> LastOfRow(text, Ends(text), Handed)
  BY <1>1, EolIs DEF Typed
<1>7. RowPlace(text', RowNo', Handed', step') /\ Visited' = Visited + 1
  <2>1. CASE Eol
    BY <1>1, <1>2, <1>5, <1>6, <2>1 DEF Visited
  <2>2. CASE ~Eol
    BY <1>1, <1>2, <1>5, <1>6, <2>2 DEF Visited
  <2> QED BY <2>1, <2>2
<1>8. count' = CountAt(phase', RowsOf(text')[RowNo'], Visited')
  BY <1>1, <1>2, <1>7
<1>9. step' # "idle"
  BY <1>1
<1> QED BY <1>2, <1>7, <1>8, <1>9 DEF InRow

LEMMA HeaderCellRow ==
  ASSUME IInv, Typed, InText, InRow, unread = {}, HeaderCell
  PROVE  InRow' /\ RowNo' = RowNo
<1> DEFINE row == RowsOf(text)[RowNo]
<1>1. /\ Visited \in Nat /\ cell = row[Visited + 1]
      /\ count = WidthTo(row, Visited)
  BY CellIs DEF HeaderCell, NextCell, CountAt
<1>2. count' = IF count = 0 /\ cell = <<>> THEN 0 ELSE count + 1
  BY DEF HeaderCell, Next1
<1> HIDE DEF row
<1>3. count' = WidthTo(row, Visited + 1)
  BY <1>1, <1>2, WidthOfMore
<1>4. count' = CountAt(phase, RowsOf(text)[RowNo], Visited + 1)
  BY <1>3 DEF HeaderCell, CountAt, row
<1> QED BY <1>4, NextCellRow DEF HeaderCell, mainVars

LEMMA DataCellRow ==
  ASSUME IInv, Typed, InText, InRow, unread = {}, DataCell
  PROVE  InRow' /\ RowNo' = RowNo
<1>1. count = Visited
  BY CellIs DEF DataCell, NextCell, CountAt
<1>2. count' = CountAt(phase, RowsOf(text)[RowNo], Visited + 1)
  BY <1>1 DEF DataCell, CountAt
<1> QED BY <1>2, NextCellRow DEF DataCell, mainVars

\* At the end of a row all of it was counted.
LEMMA RowIsDone ==
  ASSUME IInv, Typed, InRow, step = "row"
  PROVE  /\ RowNo \in 1 .. Len(RowsOf(text))
         /\ count = IF phase = "header" THEN Width(RowsOf(text)[RowNo])
                    ELSE Len(RowsOf(text)[RowNo])
<1>1. RowNo \in Nat \ {0} /\ Handed \in Nat /\ text \in Seq(Chars)
  BY RowNoIs
<1>2. /\ RowPlace(text, RowNo, Handed, "row")
      /\ Visited = VisitedOf(text, RowNo, Handed, "row")
      /\ count = CountAt(phase, RowsOf(text)[RowNo], Visited)
  BY DEF InRow, Visited
<1>3. Visited = Len(RowsOf(text)[RowNo])
  BY <1>1, <1>2, AfterRow
<1>4. RowNo \in 1 .. Len(RowsOf(text))
  BY <1>1, <1>2, RowPlaceIs, RowsAre
<1>5. Width(RowsOf(text)[RowNo]) = WidthTo(RowsOf(text)[RowNo], Len(RowsOf(text)[RowNo]))
  BY <1>1, <1>4, RowWidths
<1> QED BY <1>2, <1>3, <1>4, <1>5 DEF CountAt

LEMMA NextRowRow ==
  ASSUME IInv, Typed, InText, InRow, NextRow, UNCHANGED <<args, fileNo>>,
         count' = 0, rows' \in Nat, toSkip' \in Nat, toSkip' <= toSkip,
         Skip - toSkip' + rows' = Skip - toSkip + rows + 1,
         phase' = IF toSkip' = 0 THEN "data" ELSE "header",
         phase' = "header" => rows' = 0
  PROVE  InRow' /\ RowNo' = RowNo + 1
<1>1. /\ step = "row" /\ step' = (IF Eof THEN "end" ELSE "token")
      /\ text' = text /\ Handed' = Handed
  BY DEF NextRow, streamVars, parserVars, Handed
<1>2. RowNo \in Nat \ {0} /\ Handed \in Nat /\ text \in Seq(Chars) /\ Skip \in Nat
      /\ toSkip \in Nat /\ rows \in Nat
  BY RowNoIs
<1>3. Skip' = Skip
  BY KnownStays
<1>4. RowNo' = RowNo + 1
  BY <1>2, <1>3 DEF RowNo
<1>5. RowPlace(text, RowNo, Handed, "row")
  BY <1>1 DEF InRow
<1>6. IF Handed = Len(Ends(text)) THEN RowPlace(text, RowNo + 1, Handed, "end")
      ELSE /\ RowPlace(text, RowNo + 1, Handed, "token")
           /\ VisitedOf(text, RowNo + 1, Handed, "token") = 0
  BY <1>2, <1>5, AfterRow
<1>7. Eof <=> Handed = Len(Ends(text))
  BY <1>1, EolIs DEF Typed
<1>8. /\ RowPlace(text', RowNo', Handed', step')
      /\ step' # "end" => Visited' = 0
  <2>1. CASE Eof
    BY <1>1, <1>4, <1>6, <1>7, <2>1
  <2>2. CASE ~Eof
    BY <1>1, <1>4, <1>6, <1>7, <2>2 DEF Visited
  <2> QED BY <2>1, <2>2
<1>9. step' # "end" => count' = CountAt(phase', RowsOf(text')[RowNo'], Visited')
  BY <1>8, WidthOfNone DEF CountAt
<1>10. toSkip' <= Skip' /\ step' # "idle"
  BY <1>1, <1>2, <1>3 DEF InRow
<1> QED BY <1>4, <1>8, <1>9, <1>10 DEF InRow

LEMMA HeaderRowRow ==
  ASSUME IInv, Typed, InText, InRow, unread = {}, HeaderRow
  PROVE  InRow' /\ RowNo' = RowNo + 1
<1>1. toSkip \in Nat \ {0} /\ rows = 0 /\ Skip \in Nat
  BY RowNoIs DEF HeaderRow, InRow, Typed, CountTypes
<1>2. /\ NextRow /\ UNCHANGED <<args, fileNo>> /\ count' = 0 /\ rows' = rows
      /\ toSkip' = toSkip - 1 /\ phase' = IF toSkip' = 0 THEN "data" ELSE "header"
  BY DEF HeaderRow, mainVars
<1>3. /\ rows' \in Nat /\ toSkip' \in Nat /\ toSkip' <= toSkip
      /\ Skip - toSkip' + rows' = Skip - toSkip + rows + 1 /\ rows' = 0
  BY <1>1, <1>2
<1> QED BY <1>2, <1>3, NextRowRow

LEMMA DataRowRow ==
  ASSUME IInv, Typed, InText, InRow, unread = {}, DataRow
  PROVE  InRow' /\ RowNo' = RowNo + 1
<1>1. toSkip = 0 /\ rows \in Nat /\ Skip \in Nat
  BY RowNoIs DEF DataRow, InRow
<1>2. /\ NextRow /\ UNCHANGED <<args, fileNo>> /\ count' = 0 /\ rows' = rows + 1
      /\ toSkip' = toSkip /\ phase' = "data"
  BY DEF DataRow, mainVars, Next1
<1>3. /\ rows' \in Nat /\ toSkip' \in Nat /\ toSkip' <= toSkip
      /\ Skip - toSkip' + rows' = Skip - toSkip + rows + 1
  BY <1>1, <1>2
<1> QED BY <1>1, <1>2, <1>3, NextRowRow

LEMMA NextRowInv ==
  ASSUME IInv, Typed, Blocks, LexInv, unread = {} => DueIs, RowInv, [Next]_vars
  PROVE  RowInv'
<1> SUFFICES ASSUME unread' = {}, phase' \in {"header", "data"} PROVE InRow'
  BY DEF RowInv
<1>1. unread = {} /\ ~ReadFails
  BY DEF Next, Steps, NoFile, OpenFile, FetchToken, FileDone, Report, Finished, HeaderCell,
         HeaderRow, HeaderFails, DataCell, DataRow, TooManyCells, Close, ReadFails, vars
<1>2. CASE OpenFile
  BY <1>1, <1>2, OpenRow
<1>3. CASE NoFile \/ FileDone \/ Report \/ HeaderFails \/ TooManyCells
  BY <1>3 DEF NoFile, FileDone, Report, HeaderFails, TooManyCells, Error
<1>4. CASE Finished \/ UNCHANGED vars
  <2>1. /\ UNCHANGED <<args, fileNo, text, cells, step, toSkip, rows, count, phase>>
        /\ InRow
    BY <1>1, <1>4 DEF Finished, vars, readVars, streamVars, parserVars, infoVars, mainVars, RowInv
  <2>2. Skip' = Skip
    BY <2>1, KnownStays
  <2> QED BY <2>1, <2>2 DEF InRow, RowNo, Visited, Handed
<1>5. CASE FetchToken
  <2>1. InRow
    BY <1>1, <1>5 DEF FetchToken, RowInv
  <2> QED BY <1>1, <1>5, <2>1, FetchRow
<1>6. CASE HeaderCell \/ HeaderRow \/ DataCell \/ DataRow
  <2>1. InRow
    BY <1>1, <1>6 DEF HeaderCell, HeaderRow, DataCell, DataRow, RowInv
  <2>2. InText
    BY <1>1, <2>1 DEF LexInv, InRow
  <2> QED BY <1>1, <1>6, <2>1, <2>2, HeaderCellRow, HeaderRowRow, DataCellRow, DataRowRow
<1>7. QED
  BY <1>1, <1>2, <1>3, <1>4, <1>5, <1>6 DEF Next, Steps

-----------------------------------------------------------------------------
(***************************************************************************)
(* The files before the one that is read were reported as they deserve, and *)
(* the rows of this one fit so far.                                         *)
(***************************************************************************)
Held == Expected(RowsOf(text), WidthBefore, Skip)

Reports(input, n) ==
  {[kind |-> Verdicts(input)[i].kind, file |-> i] :
     i \in {j \in 1 .. n - 1 : Verdicts(input)[j].kind # "none"}}

\* A list of errors in the order of their files, all before a file f.
InFileOrder(list, f) ==
  /\ \A i \in DOMAIN list : list[i].file < f
  /\ \A i, j \in DOMAIN list : i < j => list[i].file < list[j].file

Members(list) == {list[i] : i \in DOMAIN list}

ErrorsAre ==
  /\ Members(errors) = Reports(args, fileNo)
  /\ InFileOrder(errors, fileNo)

RowsFit ==
  /\ args.files[fileNo] # NoSuchFile
  /\ text = args.files[fileNo]
  /\ Len(columns) = IF RowNo = 1 THEN WidthBefore ELSE Held
  /\ phase = "data" => count <= Len(columns)
  /\ Fits(RowsOf(text), Held, Skip, RowNo - 1)

InFile == phase \in {"header", "data"} => RowsFit

AtReport ==
  phase \in {"found", "reported"} =>
    /\ fileNo = Len(args.files) + 1
    /\ phase = "found" <=> errors = <<>>

FileInv == unread = {} => DueIs /\ ErrorsAre /\ InFile /\ AtReport

LEMMA InitFile == Init => FileInv
<1> SUFFICES ASSUME Init PROVE DueIs /\ ErrorsAre /\ InFile /\ AtReport
  BY DEF FileInv
<1>1. fileNo = 1 /\ 1 .. fileNo - 1 = {}
  BY DEF Init
<1>2. NoneGoodBy(Verdicts(args), fileNo) /\ WidthBefore = 0
  BY <1>1 DEF NoneGoodBy, WidthBefore, WidthBy
<1>3. columns = <<>> /\ Len(<<>>) = 0
  BY DEF Init
<1>4. DueIs
  BY <1>2, <1>3 DEF Init, DueIs, HeadersNow, HeadersBy
<1>5. Reports(args, fileNo) = {}
  BY <1>1 DEF Reports
<1>6. errors = <<>> /\ DOMAIN <<>> = {}
  BY DEF Init
<1>7. ErrorsAre
  BY <1>5, <1>6 DEF ErrorsAre, Members, InFileOrder
<1>8. InFile /\ AtReport
  BY DEF Init, InFile, AtReport
<1> QED BY <1>4, <1>7, <1>8

LEMMA FitsOneMore ==
  ASSUME NEW all, NEW held, NEW skip, NEW n \in Nat, Fits(all, held, skip, n),
         IF n + 1 <= skip THEN held # 0 /\ Width(all[n + 1]) = held
         ELSE Len(all[n + 1]) <= held
  PROVE  Fits(all, held, skip, n + 1)
<1>1. 1 .. n + 1 = (1 .. n) \cup {n + 1}
  OBVIOUS
<1> QED BY <1>1 DEF Fits

\* The width the rows are held to is the one that is expected, or else the
\* first header row's.
LEMMA HeldIs ==
  ASSUME IInv, Typed
  PROVE  /\ Held \in Nat
         /\ WidthBefore \in Nat /\ Skip \in Nat /\ (WidthBefore = 0 => Skip # 0)
         /\ Held = IF WidthBefore = 0 /\ Skip # 0 THEN Width(RowsOf(text)[1]) ELSE WidthBefore
<1>1. text \in Seq(Chars)
  BY DEF IInv, Buffer
<1>2. WidthBefore \in Nat /\ Skip \in Nat /\ (WidthBefore = 0 => Skip # 0)
  BY KnownNow DEF Typed
<1> QED BY <1>1, <1>2, ExpectedIs DEF Held

\* What becomes of the file that is read.
LEMMA VerdictNow ==
  ASSUME IInv, Typed, phase \in {"header", "data"}, RowsFit
  PROVE  /\ fileNo \in 1 .. Len(args.files)
         /\ Verdicts(args)[fileNo].width = Held
         /\ Verdicts(args)[fileNo].kind = Kind(RowsOf(text), Held, Skip)
         /\ Verdicts(args)[fileNo].data
              = [r \in 1 .. Len(RowsOf(text)) - Skip |-> RowsOf(text)[Skip + r]]
<1>1. fileNo \in 1 .. Len(args.files)
  BY InputIs DEF Typed, FileTypes
<1>2. Verdicts(args)[fileNo] = Verdict(args.files[fileNo], WidthBefore, HeadersNow)
  BY <1>1, KnownNow, VerdictsAre DEF WidthBefore, HeadersNow, Typed
<1>3. Verdicts(args)[fileNo] = VerdictOfRows(RowsOf(text), WidthBefore, Skip)
  BY <1>2 DEF Verdict, RowsFit, Skip
<1> QED BY <1>1, <1>3 DEF VerdictOfRows, VerdictHeldTo, Held

(***************************************************************************)
(* A file is done.                                                          *)
(***************************************************************************)
LEMMA KnownNext ==
  ASSUME IInv, Typed, args' = args, fileNo' = fileNo + 1
  PROVE  /\ WidthBefore' = Verdicts(args)[fileNo].width
         /\ HeadersNow' = IF Verdicts(args)[fileNo].kind = "none" THEN args.others
                          ELSE HeadersNow
<1>1. fileNo \in Nat \ {0}
  BY DEF IInv, Progress
<1>2. fileNo + 1 # 1 /\ (fileNo + 1) - 1 = fileNo
  BY <1>1
<1>3. WidthBefore' = Verdicts(args)[fileNo].width
  BY <1>2 DEF WidthBefore, WidthBy
<1>4. 1 .. fileNo = (1 .. fileNo - 1) \cup {fileNo}
  BY <1>1
<1>5. NoneGoodBy(Verdicts(args), fileNo + 1) <=>
        NoneGoodBy(Verdicts(args), fileNo) /\ Verdicts(args)[fileNo].kind # "none"
  BY <1>2, <1>4 DEF NoneGoodBy
<1>6. HeadersNow' = HeadersBy(args, Verdicts(args), fileNo + 1)
  BY DEF HeadersNow
<1> QED BY <1>3, <1>5, <1>6 DEF HeadersNow, HeadersBy

LEMMA ReportsNext ==
  ASSUME NEW input, NEW n \in Nat \ {0}
  PROVE  Reports(input, n + 1) =
           IF Verdicts(input)[n].kind = "none" THEN Reports(input, n)
           ELSE Reports(input, n) \cup {[kind |-> Verdicts(input)[n].kind, file |-> n]}
<1> DEFINE bad(m) == {j \in 1 .. m - 1 : Verdicts(input)[j].kind # "none"}
           new(i) == [kind |-> Verdicts(input)[i].kind, file |-> i]
<1>1. 1 .. (n + 1) - 1 = (1 .. n - 1) \cup {n}
  OBVIOUS
<1>2. bad(n + 1) = IF Verdicts(input)[n].kind = "none" THEN bad(n) ELSE bad(n) \cup {n}
  BY <1>1
<1>3. Reports(input, n) = {new(i) : i \in bad(n)} /\ Reports(input, n + 1) = {new(i) : i \in bad(n + 1)}
  BY DEF Reports
<1> HIDE DEF bad, new
<1> QED BY <1>2, <1>3 DEF new

Failure == [kind : Kinds, file : Nat]

LEMMA FilesOf ==
  ASSUME NEW list \in Seq(Failure)
  PROVE  \A i \in DOMAIN list : list[i].file \in Nat
<1>1. \A i \in DOMAIN list : list[i] \in Failure
  OBVIOUS
<1>2. \A e \in Failure : e.file \in Nat
  BY DEF Failure
<1> QED BY <1>1, <1>2

\* A list of errors that grows by one of a later file.
LEMMA ErrorsOneMore ==
  ASSUME NEW list \in Seq(Failure), NEW e \in Failure,
         NEW f \in Nat, e.file = f, InFileOrder(list, f)
  PROVE  /\ Members(Append(list, e)) = Members(list) \cup {e}
         /\ InFileOrder(Append(list, e), f + 1)
<1> DEFINE l == Len(list)
           new == Append(list, e)
<1>1. /\ l \in Nat /\ DOMAIN list = 1 .. l /\ DOMAIN new = 1 .. l + 1
      /\ new[l + 1] = e /\ \A i \in 1 .. l : new[i] = list[i]
  BY AppendedIs
<1>2. 1 .. l + 1 = (1 .. l) \cup {l + 1}
  BY <1>1
<1>3. /\ \A i \in 1 .. l : list[i].file \in Nat /\ list[i].file < f
      /\ \A i, j \in 1 .. l : i < j => list[i].file < list[j].file
  <2>1. \A i \in DOMAIN list : list[i].file \in Nat
    BY FilesOf
  <2> QED BY <1>1, <2>1 DEF InFileOrder
<1> HIDE DEF l, new
<1>4. Members(new) = Members(list) \cup {e}
  BY <1>1, <1>2 DEF Members
<1>5. ASSUME NEW i \in DOMAIN new PROVE new[i].file < f + 1
  <2>1. CASE i = l + 1
    BY <1>1, <2>1
  <2>2. CASE i \in 1 .. l
    <3>1. new[i] = list[i] /\ list[i].file < f /\ list[i].file \in Nat
      BY <1>1, <1>3, <2>2
    <3> QED BY <3>1
  <2> QED BY <1>1, <1>2, <2>1, <2>2
<1>6. ASSUME NEW i \in DOMAIN new, NEW j \in DOMAIN new, i < j
      PROVE  new[i].file < new[j].file
  <2>1. i \in 1 .. l
    BY <1>1, <1>6
  <2>2. CASE j = l + 1
    BY <1>1, <1>3, <2>1, <2>2
  <2>3. CASE j \in 1 .. l
    BY <1>1, <1>3, <1>6, <2>1, <2>3
  <2> QED BY <1>1, <1>2, <2>2, <2>3
<1>7. InFileOrder(new, f + 1)
  BY <1>5, <1>6 DEF InFileOrder
<1> QED BY <1>4, <1>7 DEF new

\* The error of a file, if it is the one the file deserves.
LEMMA ErrorFile ==
  ASSUME IInv, Typed, DueIs, ErrorsAre, fileNo <= Len(args.files),
         Verdicts(args)[fileNo].kind \in Kinds, Error(Verdicts(args)[fileNo].kind),
         Len(columns) = Verdicts(args)[fileNo].width, columns' = columns
  PROVE  DueIs' /\ ErrorsAre' /\ InFile' /\ AtReport'
<1> DEFINE kind == Verdicts(args)[fileNo].kind
           e == [kind |-> kind, file |-> fileNo]
<1>1. /\ args' = args /\ fileNo' = fileNo + 1 /\ phase' = "open" /\ skips' = skips
      /\ errors' = Append(errors, e)
  BY DEF Error
<1>2. kind # "none" /\ fileNo \in Nat \ {0}
  BY DEF Kinds, IInv, Progress
<1>3. DueIs'
  BY <1>1, <1>2, KnownNext DEF DueIs
<1>4. errors \in Seq(Failure) /\ e \in Failure /\ e.file = fileNo
  BY <1>2 DEF Typed, FileTypes, Failure
<1>5. Reports(args, fileNo + 1) = Reports(args, fileNo) \cup {e}
  BY <1>2, ReportsNext
<1> HIDE DEF e, kind
<1>6. /\ Members(errors') = Members(errors) \cup {e}
      /\ InFileOrder(errors', fileNo + 1)
  <2>1. InFileOrder(errors, fileNo) /\ fileNo \in Nat
    BY <1>2 DEF ErrorsAre
  <2> QED BY <1>1, <1>4, <2>1, ErrorsOneMore
<1>7. ErrorsAre'
  BY <1>1, <1>5, <1>6 DEF ErrorsAre
<1> QED BY <1>1, <1>3, <1>7 DEF InFile, AtReport

LEMMA NoFileFile ==
  ASSUME IInv, Typed, DueIs, ErrorsAre, NoFile
  PROVE  DueIs' /\ ErrorsAre' /\ InFile' /\ AtReport'
<1>1. fileNo \in 1 .. Len(args.files) /\ args.files[fileNo] = NoSuchFile
  BY InputIs DEF NoFile, Typed, FileTypes
<1>2. Verdicts(args)[fileNo] = Verdict(args.files[fileNo], WidthBefore, HeadersNow)
  BY <1>1, KnownNow, VerdictsAre DEF WidthBefore, HeadersNow, Typed
<1>3. Verdicts(args)[fileNo].kind = "no_such_file" /\ Verdicts(args)[fileNo].width = WidthBefore
  BY <1>1, <1>2 DEF Verdict
<1>4. /\ Error(Verdicts(args)[fileNo].kind) /\ Verdicts(args)[fileNo].kind \in Kinds
      /\ columns' = columns /\ fileNo <= Len(args.files)
      /\ Len(columns) = Verdicts(args)[fileNo].width
  BY <1>3 DEF NoFile, Kinds, infoVars, DueIs
<1> QED BY <1>4, ErrorFile

LEMMA HeaderFailsFile ==
  ASSUME IInv, Typed, InRow, DueIs, ErrorsAre, RowsFit, HeaderFails
  PROVE  DueIs' /\ ErrorsAre' /\ InFile' /\ AtReport'
<1>1. /\ phase = "header" /\ step = "row" /\ rows = 0 /\ toSkip # 0 /\ columns' = columns
      /\ Error(IF count = 0 THEN "empty_file" ELSE "invalid_columns_count")
  BY DEF HeaderFails, Close, infoVars, InRow
<1>2. /\ RowNo \in Nat \ {0} /\ text \in Seq(Chars)
      /\ Skip \in Nat /\ toSkip \in Nat /\ RowNo <= Skip
  BY <1>1, RowNoIs DEF RowNo, InRow
<1>3. RowNo \in 1 .. Len(RowsOf(text)) /\ count = Width(RowsOf(text)[RowNo])
  BY <1>1, RowIsDone
<1>4. /\ Held \in Nat /\ WidthBefore \in Nat
      /\ Held = IF WidthBefore = 0 /\ Skip # 0 THEN Width(RowsOf(text)[1]) ELSE WidthBefore
  BY HeldIs
<1>5. NoWidth <=> Len(columns) = 0
  BY DEF NoWidth, Typed, CountTypes
<1>6. count = 0 \/ (Len(columns) # 0 /\ count # Len(columns))
  BY <1>5 DEF HeaderFails, HeaderFits
<1>7. Len(columns) = IF RowNo = 1 THEN WidthBefore ELSE Held
  BY DEF RowsFit
<1>8. Len(columns) = Held
  <2>1. CASE RowNo = 1 /\ WidthBefore = 0
    BY <1>2, <1>3, <1>4, <1>6, <1>7, <2>1
  <2>2. CASE RowNo = 1 /\ WidthBefore # 0
    BY <1>4, <1>7, <2>2
  <2>3. CASE RowNo # 1
    BY <1>7, <2>3
  <2> QED BY <2>1, <2>2, <2>3
<1>9. Width(RowsOf(text)[RowNo]) \notin {Held} \ {0}
  BY <1>3, <1>6, <1>8
<1>10. Fits(RowsOf(text), Held, Skip, RowNo - 1)
  BY DEF RowsFit
<1>11. Kind(RowsOf(text), Held, Skip) = IF count = 0 THEN "empty_file" ELSE "invalid_columns_count"
  BY <1>2, <1>3, <1>4, <1>9, <1>10, KindOfHead
<1>12. /\ fileNo \in 1 .. Len(args.files) /\ Verdicts(args)[fileNo].width = Held
       /\ Verdicts(args)[fileNo].kind = IF count = 0 THEN "empty_file" ELSE "invalid_columns_count"
  BY <1>1, <1>11, VerdictNow
<1>13. Verdicts(args)[fileNo].kind \in Kinds /\ Error(Verdicts(args)[fileNo].kind)
       /\ fileNo <= Len(args.files)
  BY <1>1, <1>12 DEF Kinds
<1> QED BY <1>1, <1>8, <1>12, <1>13, ErrorFile

LEMMA TooManyFile ==
  ASSUME IInv, Typed, InText, InRow, DueIs, ErrorsAre, RowsFit, TooManyCells
  PROVE  DueIs' /\ ErrorsAre' /\ InFile' /\ AtReport'
<1>1. /\ phase = "data" /\ step = "cell" /\ toSkip = 0 /\ columns' = columns
      /\ count = Len(columns)
      /\ Error(IF rows > 0 THEN "csv_parsing_error" ELSE "empty_file")
  BY DEF TooManyCells, Close, infoVars, InRow
<1>2. /\ text \in Seq(Chars) /\ Skip \in Nat /\ rows \in Nat /\ RowNo = Skip + rows + 1
  BY <1>1, RowNoIs DEF RowNo
<1>3. /\ RowNo \in 1 .. Len(RowsOf(text)) /\ count = Visited
      /\ Visited \in Nat /\ Visited + 1 <= Len(RowsOf(text)[RowNo])
  BY <1>1, CellIs DEF CountAt
<1>4. /\ Held \in Nat /\ WidthBefore \in Nat
      /\ Held = IF WidthBefore = 0 /\ Skip # 0 THEN Width(RowsOf(text)[1]) ELSE WidthBefore
  BY HeldIs
<1>5. Len(columns) = Held
  <2>1. Len(columns) = IF RowNo = 1 THEN WidthBefore ELSE Held
    BY DEF RowsFit
  <2>2. RowNo = 1 => Skip = 0
    BY <1>2
  <2> QED BY <1>4, <2>1, <2>2
<1>6. Len(RowsOf(text)[RowNo]) > Held
  <2> DEFINE l == Len(RowsOf(text)[RowNo])
  <2>1. l \in Nat
    BY <1>2, <1>3, RowWidths
  <2>2. Visited + 1 <= l /\ Held = Visited /\ Visited \in Nat
    BY <1>1, <1>3, <1>5
  <2> HIDE DEF l
  <2>3. l > Held
    BY <2>1, <2>2
  <2> QED BY <2>3 DEF l
<1>7. Fits(RowsOf(text), Held, Skip, RowNo - 1) /\ RowNo > Skip
  BY <1>2 DEF RowsFit
<1>8. Kind(RowsOf(text), Held, Skip) = IF RowNo = Skip + 1 THEN "empty_file" ELSE "csv_parsing_error"
  BY <1>2, <1>3, <1>4, <1>6, <1>7, KindOfRow
<1>9. Kind(RowsOf(text), Held, Skip) = IF rows > 0 THEN "csv_parsing_error" ELSE "empty_file"
  BY <1>2, <1>8
<1>10. /\ fileNo \in 1 .. Len(args.files) /\ Verdicts(args)[fileNo].width = Held
       /\ Verdicts(args)[fileNo].kind = IF rows > 0 THEN "csv_parsing_error" ELSE "empty_file"
  BY <1>1, <1>9, VerdictNow
<1>11. Verdicts(args)[fileNo].kind \in Kinds /\ Error(Verdicts(args)[fileNo].kind)
       /\ fileNo <= Len(args.files)
  BY <1>1, <1>10 DEF Kinds
<1> QED BY <1>1, <1>5, <1>10, <1>11, ErrorFile

\* A file whose rows are at their end is good.
LEMMA DoneIs ==
  ASSUME IInv, Typed, InRow, RowsFit, step = "end"
  PROVE  /\ RowNo = Len(RowsOf(text)) + 1 /\ Len(columns) = Held
         /\ Verdicts(args)[fileNo].kind = "none"
         /\ Verdicts(args)[fileNo].width = Held
<1>1. text \in Seq(Chars) /\ Skip \in Nat /\ Held \in Nat
  BY RowNoIs, HeldIs
<1>2. Len(RowsOf(text)) \in Nat \ {0} /\ Len(RowsOf(text)) = Len(EndsOfRows(text))
  BY <1>1, RowsAre, RowWidths
<1>3. RowNo = Len(RowsOf(text)) + 1
  BY <1>2 DEF InRow, RowPlace
<1>4. RowNo # 1 /\ RowNo - 1 = Len(RowsOf(text))
  BY <1>2, <1>3
<1>5. Fits(RowsOf(text), Held, Skip, Len(RowsOf(text))) /\ Len(columns) = Held
  BY <1>4 DEF RowsFit
<1>6. Kind(RowsOf(text), Held, Skip) = "none"
  BY <1>1, <1>5, KindOfAll
<1>7. phase \in {"header", "data"}
  BY DEF InRow
<1> QED BY <1>3, <1>5, <1>6, <1>7, VerdictNow

LEMMA FileDoneFile ==
  ASSUME IInv, Typed, InRow, DueIs, ErrorsAre, RowsFit, FileDone
  PROVE  DueIs' /\ ErrorsAre' /\ InFile' /\ AtReport'
<1>1. /\ step = "end" /\ args' = args /\ fileNo' = fileNo + 1 /\ phase' = "open"
      /\ skips' = args.others /\ errors' = errors /\ columns' = columns
  BY DEF FileDone, infoVars
<1>2. Len(columns) = Held /\ Verdicts(args)[fileNo].kind = "none" /\ Verdicts(args)[fileNo].width = Held
  BY <1>1, DoneIs
<1>3. DueIs'
  BY <1>1, <1>2, KnownNext DEF DueIs
<1>4. fileNo \in Nat \ {0}
  BY DEF IInv, Progress
<1>5. Reports(args, fileNo + 1) = Reports(args, fileNo)
  BY <1>2, <1>4, ReportsNext
<1>6. InFileOrder(errors, fileNo + 1)
  <2>1. errors \in Seq(Failure) /\ InFileOrder(errors, fileNo)
    BY DEF ErrorsAre, Typed, FileTypes, Failure
  <2>2. \A i \in DOMAIN errors : errors[i].file \in Nat
    BY <2>1, FilesOf
  <2> QED BY <1>4, <2>1, <2>2 DEF InFileOrder
<1>7. ErrorsAre'
  BY <1>1, <1>5, <1>6 DEF ErrorsAre
<1> QED BY <1>1, <1>3, <1>7 DEF InFile, AtReport

-----------------------------------------------------------------------------
(***************************************************************************)
(* The steps inside of a file, and all steps.                               *)
(***************************************************************************)
LEMMA OpenFileFile ==
  ASSUME IInv, Typed, DueIs, ErrorsAre, OpenFile
  PROVE  DueIs' /\ ErrorsAre' /\ InFile' /\ AtReport'
<1>1. /\ UNCHANGED <<args, fileNo, skips, errors, columns>> /\ count' = 0
      /\ args.files[fileNo] # NoSuchFile /\ text' = args.files[fileNo]
      /\ phase = "open" /\ phase' \in {"header", "data"}
  BY DEF OpenFile, OpenStream, mainVars
<1>2. UNCHANGED <<WidthBefore, HeadersNow, Skip>>
  BY <1>1, KnownStays
<1>3. RowNo' = 1 /\ 1 .. RowNo' - 1 = {}
  BY OpenRow
<1>4. Len(columns) = WidthBefore /\ Len(columns) \in Nat
  BY <1>1 DEF DueIs, Typed, CountTypes
<1>5. RowsFit'
  BY <1>1, <1>2, <1>3, <1>4 DEF RowsFit, Fits
<1>6. DueIs'
  BY <1>1, <1>2 DEF DueIs
<1>7. ErrorsAre'
  BY <1>1 DEF ErrorsAre
<1> QED BY <1>1, <1>5, <1>6, <1>7 DEF InFile, AtReport

\* A step that stays in its row.
LEMMA StaysFile ==
  ASSUME DueIs, ErrorsAre, RowsFit, phase \in {"header", "data"},
         UNCHANGED <<args, fileNo, text, errors, skips, phase>>, RowNo' = RowNo,
         Len(columns') = Len(columns), phase = "data" => count' <= Len(columns)
  PROVE  DueIs' /\ ErrorsAre' /\ InFile' /\ AtReport'
<1>1. UNCHANGED <<WidthBefore, HeadersNow, Skip>>
  BY KnownStays
<1>2. Held' = Held
  BY <1>1 DEF Held
<1>3. RowsFit'
  BY <1>1, <1>2 DEF RowsFit
<1>4. DueIs'
  BY <1>1 DEF DueIs
<1>5. ErrorsAre'
  BY DEF ErrorsAre
<1> QED BY <1>3, <1>4, <1>5 DEF InFile, AtReport

\* A row that fits is behind it.
LEMMA OneMoreFile ==
  ASSUME DueIs, ErrorsAre, RowsFit, phase \in {"header", "data"}, phase' \in {"header", "data"},
         UNCHANGED <<args, fileNo, text, errors, skips>>,
         RowNo \in Nat \ {0}, RowNo' = RowNo + 1, count' = 0,
         Len(columns') = Held, Held \in Nat,
         IF RowNo <= Skip THEN Held # 0 /\ Width(RowsOf(text)[RowNo]) = Held
         ELSE Len(RowsOf(text)[RowNo]) <= Held
  PROVE  DueIs' /\ ErrorsAre' /\ InFile' /\ AtReport'
<1>1. UNCHANGED <<WidthBefore, HeadersNow, Skip>>
  BY KnownStays
<1>2. Held' = Held
  BY <1>1 DEF Held
<1>3. RowNo - 1 \in Nat /\ (RowNo - 1) + 1 = RowNo /\ RowNo' - 1 = RowNo /\ RowNo' # 1
  OBVIOUS
<1>4. Fits(RowsOf(text), Held, Skip, RowNo - 1)
  BY DEF RowsFit
<1>5. Fits(RowsOf(text), Held, Skip, (RowNo - 1) + 1)
  BY <1>3, <1>4, FitsOneMore
<1>6. RowsFit'
  BY <1>1, <1>2, <1>3, <1>5 DEF RowsFit
<1>7. DueIs'
  BY <1>1 DEF DueIs
<1>8. ErrorsAre'
  BY DEF ErrorsAre
<1> QED BY <1>6, <1>7, <1>8 DEF InFile, AtReport

LEMMA HeaderRowFile ==
  ASSUME IInv, Typed, InText, InRow, unread = {}, DueIs, ErrorsAre, RowsFit, HeaderRow
  PROVE  DueIs' /\ ErrorsAre' /\ InFile' /\ AtReport'
<1>1. /\ phase = "header" /\ step = "row" /\ rows = 0 /\ toSkip # 0 /\ count' = 0
      /\ phase' \in {"header", "data"}
      /\ UNCHANGED <<args, fileNo, text, errors, skips>>
  BY DEF HeaderRow, NextRow, InRow, mainVars, streamVars
<1>2. /\ RowNo \in Nat \ {0} /\ text \in Seq(Chars)
      /\ Skip \in Nat /\ toSkip \in Nat /\ RowNo <= Skip
  BY <1>1, RowNoIs DEF RowNo, InRow
<1>3. RowNo \in 1 .. Len(RowsOf(text)) /\ count = Width(RowsOf(text)[RowNo])
  BY <1>1, RowIsDone
<1>4. /\ Held \in Nat /\ WidthBefore \in Nat
      /\ Held = IF WidthBefore = 0 /\ Skip # 0 THEN Width(RowsOf(text)[1]) ELSE WidthBefore
  BY HeldIs
<1>5. /\ NoWidth <=> Len(columns) = 0
      /\ count \in Nat
  BY DEF NoWidth, Typed, CountTypes
<1>6. count # 0 /\ (Len(columns) = 0 \/ count = Len(columns))
  BY <1>5 DEF HeaderRow, HeaderFits
<1>7. Len(columns) = IF RowNo = 1 THEN WidthBefore ELSE Held
  BY DEF RowsFit
<1>8. Len(columns') = count
  <2>1. CASE NoWidth
    <3>1. columns' = [i \in 1 .. count |-> [total |-> 0, missing |-> 0]]
      BY <2>1 DEF HeaderRow
    <3> QED BY <1>5, <3>1
  <2>2. CASE ~NoWidth
    BY <1>5, <1>6, <2>2 DEF HeaderRow
  <2> QED BY <2>1, <2>2
<1>9. count = Held
  <2>1. CASE RowNo = 1 /\ WidthBefore = 0
    BY <1>2, <1>3, <1>4, <2>1
  <2>2. CASE RowNo = 1 /\ WidthBefore # 0
    BY <1>4, <1>6, <1>7, <2>2
  <2>3. CASE RowNo # 1 /\ Len(columns) # 0
    BY <1>6, <1>7, <2>3
  <2>4. CASE RowNo # 1 /\ Len(columns) = 0
    <3>1. Held = 0 /\ 1 \in 1 .. RowNo - 1 /\ 1 <= Skip
      BY <1>2, <1>7, <2>4
    <3>2. Fits(RowsOf(text), Held, Skip, RowNo - 1)
      BY DEF RowsFit
    <3>3. Held # 0
      BY <3>1, <3>2 DEF Fits
    <3> QED BY <3>1, <3>3
  <2> QED BY <2>1, <2>2, <2>3, <2>4
<1>10. RowNo' = RowNo + 1
  BY HeaderRowRow
<1> QED BY <1>1, <1>2, <1>3, <1>4, <1>6, <1>8, <1>9, <1>10, OneMoreFile

LEMMA DataRowFile ==
  ASSUME IInv, Typed, InText, InRow, unread = {}, DueIs, ErrorsAre, RowsFit, DataRow
  PROVE  DueIs' /\ ErrorsAre' /\ InFile' /\ AtReport'
<1>1. /\ phase = "data" /\ step = "row" /\ toSkip = 0 /\ count' = 0 /\ columns' = columns
      /\ phase' \in {"header", "data"}
      /\ UNCHANGED <<args, fileNo, text, errors, skips>>
  BY DEF DataRow, NextRow, InRow, mainVars, streamVars
<1>2. /\ RowNo \in Nat \ {0} /\ Skip \in Nat /\ rows \in Nat /\ RowNo = Skip + rows + 1
  BY <1>1, RowNoIs DEF RowNo
<1>3. count = Len(RowsOf(text)[RowNo]) /\ count <= Len(columns)
  BY <1>1, RowIsDone DEF RowsFit
<1>4. /\ Held \in Nat /\ WidthBefore \in Nat
      /\ Held = IF WidthBefore = 0 /\ Skip # 0 THEN Width(RowsOf(text)[1]) ELSE WidthBefore
  BY HeldIs
<1>5. Len(columns) = Held
  <2>1. Len(columns) = IF RowNo = 1 THEN WidthBefore ELSE Held
    BY DEF RowsFit
  <2>2. RowNo = 1 => Skip = 0
    BY <1>2
  <2> QED BY <1>4, <2>1, <2>2
<1>6. RowNo' = RowNo + 1
  BY DataRowRow
<1>7. ~(RowNo <= Skip)
  BY <1>2
<1>8. Len(RowsOf(text)[RowNo]) <= Held /\ Len(columns') = Held
  BY <1>1, <1>3, <1>5
<1> QED BY <1>1, <1>2, <1>4, <1>6, <1>7, <1>8, OneMoreFile

LEMMA StaysHere ==
  ASSUME IInv, Typed, Blocks, InText, InRow, unread = {}, DueIs, ErrorsAre, RowsFit,
         HeaderCell \/ DataCell \/ (FetchToken /\ phase \in {"header", "data"})
  PROVE  DueIs' /\ ErrorsAre' /\ InFile' /\ AtReport'
<1>1. Len(columns) \in Nat /\ count \in Nat
  BY DEF Typed, CountTypes
<1>2. CASE HeaderCell
  <2>1. /\ phase = "header" /\ columns' = columns
        /\ UNCHANGED <<args, fileNo, text, errors, skips, phase>>
    BY <1>2 DEF HeaderCell, NextCell, streamVars, mainVars
  <2>2. RowNo' = RowNo
    BY <1>2, HeaderCellRow
  <2> QED BY <2>1, <2>2, StaysFile
<1>3. CASE DataCell
  <2>1. /\ phase = "data" /\ count < Len(columns) /\ count' = count + 1
        /\ UNCHANGED <<args, fileNo, text, errors, skips, phase>>
        /\ columns' = [columns EXCEPT ![count + 1] = Guessed(columns[count + 1], cell)]
    BY <1>3 DEF DataCell, NextCell, streamVars, mainVars
  <2>2. Len(columns') = Len(columns)
    BY <2>1 DEF Typed, CountTypes
  <2>3. count' <= Len(columns)
    BY <1>1, <2>1
  <2>4. RowNo' = RowNo
    BY <1>3, DataCellRow
  <2> QED BY <2>1, <2>2, <2>3, <2>4, StaysFile
<1>4. CASE FetchToken /\ phase \in {"header", "data"}
  <2>1. UNCHANGED <<args, fileNo, text, errors, skips, phase, columns, count>>
    BY <1>4, FetchIs
  <2>2. RowNo' = RowNo
    BY <1>4, FetchRow
  <2>3. phase = "data" => count' <= Len(columns)
    BY <2>1 DEF RowsFit
  <2> QED BY <1>4, <2>1, <2>2, <2>3, StaysFile
<1> QED BY <1>2, <1>3, <1>4

LEMMA ReportFile ==
  ASSUME IInv, Typed, DueIs, ErrorsAre, Report
  PROVE  DueIs' /\ ErrorsAre' /\ InFile' /\ AtReport'
<1>1. /\ UNCHANGED <<args, fileNo, skips, errors, columns>> /\ phase = "open"
      /\ phase' = (IF errors = <<>> THEN "found" ELSE "reported") /\ fileNo > Len(args.files)
  BY DEF Report, mainVars, infoVars
<1>2. UNCHANGED <<WidthBefore, HeadersNow, Skip>>
  BY <1>1, KnownStays
<1>3. fileNo = Len(args.files) + 1
  <2>1. Len(args.files) \in Nat /\ fileNo \in 1 .. Len(args.files) + 1
    BY InputIs DEF Typed, FileTypes
  <2> QED BY <1>1, <2>1
<1>4. DueIs'
  BY <1>1, <1>2 DEF DueIs
<1>5. ErrorsAre'
  BY <1>1 DEF ErrorsAre
<1> QED BY <1>1, <1>3, <1>4, <1>5 DEF InFile, AtReport

LEMMA StutterFile ==
  ASSUME FileInv, unread = {}, Finished \/ UNCHANGED vars
  PROVE  DueIs' /\ ErrorsAre' /\ InFile' /\ AtReport'
<1>1. UNCHANGED <<args, fileNo, skips, errors, columns, text, toSkip, rows, count, phase>>
  BY DEF Finished, vars, readVars, streamVars, infoVars, mainVars
<1>2. UNCHANGED <<WidthBefore, HeadersNow, Skip>>
  BY <1>1, KnownStays
<1>3. UNCHANGED <<Held, RowNo>>
  BY <1>1, <1>2 DEF Held, RowNo
<1> QED BY <1>1, <1>2, <1>3 DEF FileInv, DueIs, ErrorsAre, InFile, RowsFit, AtReport

LEMMA NextFile ==
  ASSUME IInv, Typed, Blocks, LexInv, RowInv, FileInv, [Next]_vars
  PROVE  FileInv'
<1> SUFFICES ASSUME unread' = {} PROVE DueIs' /\ ErrorsAre' /\ InFile' /\ AtReport'
  BY DEF FileInv
<1>1. unread = {} /\ ~ReadFails
  BY DEF Next, Steps, NoFile, OpenFile, FetchToken, FileDone, Report, Finished, HeaderCell,
         HeaderRow, HeaderFails, DataCell, DataRow, TooManyCells, Close, ReadFails, vars
<1>2. DueIs /\ ErrorsAre /\ InFile /\ AtReport
  BY <1>1 DEF FileInv
<1>3. phase \in {"header", "data"} => InRow /\ RowsFit /\ InText
  BY <1>1, <1>2 DEF RowInv, InFile, LexInv, InRow
<1>4. CASE OpenFile \/ NoFile \/ Report
  BY <1>2, <1>4, OpenFileFile, NoFileFile, ReportFile
<1>5. CASE Finished \/ UNCHANGED vars
  BY <1>1, <1>5, StutterFile
<1>6. CASE FileDone \/ HeaderFails \/ TooManyCells
  <2>1. phase \in {"header", "data"}
    BY <1>6 DEF FileDone, HeaderFails, TooManyCells
  <2> QED BY <1>2, <1>3, <1>6, <2>1, FileDoneFile, HeaderFailsFile, TooManyFile
<1>7. CASE HeaderRow \/ DataRow
  <2>1. phase \in {"header", "data"}
    BY <1>7 DEF HeaderRow, DataRow
  <2> QED BY <1>1, <1>2, <1>3, <1>7, <2>1, HeaderRowFile, DataRowFile
<1>8. CASE HeaderCell \/ DataCell \/ FetchToken
  <2>1. CASE phase \in {"header", "data"}
    BY <1>1, <1>2, <1>3, <1>8, <2>1, StaysHere
  <2>2. CASE phase \notin {"header", "data"}
    <3>1. FetchToken
      BY <1>8, <2>2 DEF HeaderCell, DataCell
    <3>2. UNCHANGED <<args, fileNo, skips, errors, columns, phase>>
      BY <1>1, <3>1, FetchIs
    <3>3. UNCHANGED <<WidthBefore, HeadersNow, Skip>>
      BY <3>2, KnownStays
    <3> QED BY <1>2, <2>2, <3>2, <3>3 DEF DueIs, ErrorsAre, InFile, AtReport
  <2> QED BY <2>1, <2>2
<1> QED
  BY <1>1, <1>4, <1>5, <1>6, <1>7, <1>8 DEF Next, Steps

-----------------------------------------------------------------------------
(***************************************************************************)
(* The cells of a column that were counted so far: all of the files before, *)
(* and those of this one in the rows before and in this row up to count.    *)
(***************************************************************************)
SeenOf(cellSet, f, now, r, k, c) ==
  {p \in cellSet : \/ p[1] < f
                   \/ /\ p[1] = f /\ now = "data"
                      /\ p[2] <= r \/ (p[2] = r + 1 /\ c <= k)}

CellsOf(c) == ColumnCells(Verdicts(args), c)
MissesOf(c) == MissingCells(Verdicts(args), c)

Seen(c) == SeenOf(CellsOf(c), fileNo, phase, rows, count, c)
SeenMissing(c) == SeenOf(MissesOf(c), fileNo, phase, rows, count, c)

Counted(n, set) == IsFiniteSet(set) /\ n = Cardinality(set)

AllCounted ==
  \A c \in DOMAIN columns :
    Counted(columns[c].total, Seen(c)) /\ Counted(columns[c].missing, SeenMissing(c))

Totals == unread = {} /\ errors = <<>> => AllCounted

IsGrid(cellSet) == cellSet \subseteq (Nat \ {0}) \X (Nat \ {0})

LEMMA CountedNone == Counted(0, {})
BY FS_EmptySet DEF Counted

LEMMA CountedMore ==
  ASSUME NEW n \in Nat, NEW set, NEW p, Counted(n, set), p \notin set
  PROVE  Counted(n + 1, set \cup {p})
BY FS_AddElement DEF Counted

\* What the cells of a column are.
LEMMA CellIn ==
  ASSUME NEW verdicts, NEW c, NEW i, NEW r
  PROVE  <<i, r>> \in ColumnCells(verdicts, c) <=>
           i \in DOMAIN verdicts /\ r \in DOMAIN verdicts[i].data /\ c <= Len(verdicts[i].data[r])
<1> DEFINE of(j) == {<<j, s>> : s \in {q \in DOMAIN verdicts[j].data :
                                          c <= Len(verdicts[j].data[q])}}
<1>1. ColumnCells(verdicts, c) = UNION {of(j) : j \in DOMAIN verdicts}
  BY DEF ColumnCells
<1>2. \A j : <<i, r>> \in of(j) <=>
               j = i /\ r \in DOMAIN verdicts[i].data /\ c <= Len(verdicts[i].data[r])
  OBVIOUS
<1> HIDE DEF of
<1> QED BY <1>1, <1>2

LEMMA CellsArePairs ==
  ASSUME NEW verdicts, NEW c, NEW p \in ColumnCells(verdicts, c)
  PROVE  p = <<p[1], p[2]>>
BY DEF ColumnCells

LEMMA MissIn ==
  ASSUME NEW verdicts, NEW c, NEW i, NEW r
  PROVE  <<i, r>> \in MissingCells(verdicts, c) <=>
           <<i, r>> \in ColumnCells(verdicts, c) /\ IsMissing(verdicts[i].data[r][c])
BY DEF MissingCells

LEMMA MissesAreCells ==
  ASSUME NEW verdicts, NEW c
  PROVE  MissingCells(verdicts, c) \subseteq ColumnCells(verdicts, c)
BY DEF MissingCells

LEMMA DataRows ==
  ASSUME NEW file \in Seq(Chars) \cup {NoSuchFile}, NEW w \in Nat, NEW headers \in Nat
  PROVE  DOMAIN Verdict(file, w, headers).data \subseteq Nat \ {0}
<1>1. CASE file = NoSuchFile
  BY <1>1 DEF Verdict
<1>2. CASE file # NoSuchFile
  <2> DEFINE skip == IF headers = 0 /\ w = 0 THEN 1 ELSE headers
             all == RowsOf(file)
             n == Len(all) - skip
  <2>1. file \in Seq(Chars) /\ skip \in Nat
    BY <1>2
  <2>2. Verdict(file, w, headers).data = [r \in 1 .. n |-> all[skip + r]]
    BY <1>2 DEF Verdict, VerdictOfRows, VerdictHeldTo
  <2> HIDE DEF skip
  <2>3. n \in Int
    BY <2>1, RowWidths
  <2> HIDE DEF n, all
  <2>4. DOMAIN Verdict(file, w, headers).data = 1 .. n
    BY <2>2
  <2> QED BY <2>3, <2>4
<1> QED BY <1>1, <1>2

LEMMA Grid ==
  ASSUME IInv, Typed, NEW c
  PROVE  IsGrid(CellsOf(c)) /\ MissesOf(c) \subseteq CellsOf(c)
<1>1. IsInput(args)
  BY KnownNow DEF Typed
<1>2. DOMAIN Verdicts(args) = 1 .. Len(args.files)
  BY <1>1, VerdictsAre
<1>3. \A i \in 1 .. Len(args.files) : DOMAIN Verdicts(args)[i].data \subseteq Nat \ {0}
  <2> TAKE i \in 1 .. Len(args.files)
  <2>1. args.files[i] \in Seq(Chars) \cup {NoSuchFile} /\ i \in 1 .. Len(args.files) + 1
    BY <1>1 DEF IsInput
  <2>2. /\ WidthBy(Verdicts(args), i) \in Nat
        /\ HeadersBy(args, Verdicts(args), i) \in Nat
    BY <1>1, <2>1, KnownBefore
  <2>3. Verdicts(args)[i] = Verdict(args.files[i], WidthBy(Verdicts(args), i),
                                    HeadersBy(args, Verdicts(args), i))
    BY <1>1, VerdictsAre
  <2> QED BY <2>1, <2>2, <2>3, DataRows
<1>4. ASSUME NEW p \in CellsOf(c) PROVE p \in (Nat \ {0}) \X (Nat \ {0})
  <2>1. p = <<p[1], p[2]>>
    BY CellsArePairs DEF CellsOf
  <2>2. p[1] \in DOMAIN Verdicts(args) /\ p[2] \in DOMAIN Verdicts(args)[p[1]].data
    BY <2>1, CellIn DEF CellsOf
  <2>3. p[1] \in Nat \ {0} /\ p[2] \in Nat \ {0}
    BY <1>2, <1>3, <2>2
  <2> QED BY <2>1, <2>3
<1> QED BY <1>4, MissesAreCells DEF IsGrid, CellsOf, MissesOf

\* The cells of the file that is read.
LEMMA CellsHere ==
  ASSUME IInv, Typed, phase \in {"header", "data"}, RowsFit, NEW c, NEW r
  PROVE  /\ <<fileNo, r>> \in CellsOf(c) <=>
              r \in 1 .. Len(RowsOf(text)) - Skip /\ c <= Len(RowsOf(text)[Skip + r])
         /\ <<fileNo, r>> \in MissesOf(c) <=>
              <<fileNo, r>> \in CellsOf(c) /\ IsMissing(RowsOf(text)[Skip + r][c])
<1>1. /\ fileNo \in 1 .. Len(args.files)
      /\ Verdicts(args)[fileNo].data
           = [q \in 1 .. Len(RowsOf(text)) - Skip |-> RowsOf(text)[Skip + q]]
  BY VerdictNow
<1>2. DOMAIN Verdicts(args) = 1 .. Len(args.files)
  BY KnownNow, VerdictsAre DEF Typed
<1>3. /\ DOMAIN Verdicts(args)[fileNo].data = 1 .. Len(RowsOf(text)) - Skip
      /\ r \in 1 .. Len(RowsOf(text)) - Skip =>
           Verdicts(args)[fileNo].data[r] = RowsOf(text)[Skip + r]
  BY <1>1
<1>4. <<fileNo, r>> \in CellsOf(c) <=>
        r \in 1 .. Len(RowsOf(text)) - Skip /\ c <= Len(RowsOf(text)[Skip + r])
  BY <1>1, <1>2, <1>3, CellIn DEF CellsOf
<1> QED BY <1>3, <1>4, MissIn DEF CellsOf, MissesOf

(***************************************************************************)
(* How what was seen changes.                                               *)
(***************************************************************************)
LEMMA SeenNone ==
  ASSUME NEW cellSet, IsGrid(cellSet), NEW f, NEW now, NEW r, NEW k, NEW c \in Nat \ {0},
         now # "data" \/ (r = 0 /\ k = 0)
  PROVE  SeenOf(cellSet, f, now, r, k, c) = {p \in cellSet : p[1] < f}
<1>1. \A p \in cellSet : p[2] \in Nat \ {0}
  BY DEF IsGrid
<1>2. ASSUME NEW p \in cellSet
      PROVE  ~(now = "data" /\ (p[2] <= r \/ (p[2] = r + 1 /\ c <= k)))
  BY <1>1
<1> QED BY <1>2 DEF SeenOf

LEMMA SeenRow ==
  ASSUME NEW cellSet, IsGrid(cellSet), NEW f, NEW r \in Nat, NEW k \in Nat, NEW c \in Nat \ {0},
         \A p \in cellSet : p[1] = f /\ p[2] = r + 1 => c <= k
  PROVE  SeenOf(cellSet, f, "data", r + 1, 0, c) = SeenOf(cellSet, f, "data", r, k, c)
<1>1. \A p \in cellSet : p[2] \in Nat \ {0}
  BY DEF IsGrid
<1>2. ASSUME NEW p \in cellSet, p[1] = f
      PROVE  (p[2] <= r + 1 \/ (p[2] = (r + 1) + 1 /\ c <= 0)) <=>
               (p[2] <= r \/ (p[2] = r + 1 /\ c <= k))
  BY <1>1, <1>2
<1> QED BY <1>2 DEF SeenOf

LEMMA SeenOther ==
  ASSUME NEW cellSet, NEW f, NEW r, NEW k \in Nat, NEW c \in Nat \ {0}, c # k + 1
  PROVE  SeenOf(cellSet, f, "data", r, k + 1, c) = SeenOf(cellSet, f, "data", r, k, c)
<1>1. c <= k + 1 <=> c <= k
  OBVIOUS
<1> QED BY <1>1 DEF SeenOf

LEMMA SeenCell ==
  ASSUME NEW cellSet, IsGrid(cellSet), NEW f \in Nat, NEW r \in Nat, NEW k \in Nat
  PROVE  /\ SeenOf(cellSet, f, "data", r, k + 1, k + 1) =
              SeenOf(cellSet, f, "data", r, k, k + 1) \cup ({<<f, r + 1>>} \cap cellSet)
         /\ <<f, r + 1>> \notin SeenOf(cellSet, f, "data", r, k, k + 1)
<1>1. \A p \in cellSet : p[1] \in Nat /\ p[2] \in Nat \ {0} /\ p = <<p[1], p[2]>>
  BY DEF IsGrid
<1>2. k + 1 <= k + 1 /\ ~(k + 1 <= k)
  OBVIOUS
<1>3. <<f, r + 1>> \notin SeenOf(cellSet, f, "data", r, k, k + 1)
  BY <1>2 DEF SeenOf
<1>4. ASSUME NEW p \in cellSet
      PROVE  p \in SeenOf(cellSet, f, "data", r, k + 1, k + 1) <=>
               p \in SeenOf(cellSet, f, "data", r, k, k + 1) \/ p = <<f, r + 1>>
  BY <1>1, <1>2 DEF SeenOf
<1>5. SeenOf(cellSet, f, "data", r, k + 1, k + 1) \subseteq cellSet
      /\ SeenOf(cellSet, f, "data", r, k, k + 1) \subseteq cellSet
  BY DEF SeenOf
<1>6. SeenOf(cellSet, f, "data", r, k + 1, k + 1) =
        SeenOf(cellSet, f, "data", r, k, k + 1) \cup ({<<f, r + 1>>} \cap cellSet)
  BY <1>4, <1>5
<1> QED BY <1>3, <1>6

LEMMA SeenFile ==
  ASSUME NEW cellSet, IsGrid(cellSet), NEW f \in Nat, NEW now, NEW r, NEW k, NEW c,
         \A p \in cellSet : p[1] = f => now = "data" /\ p[2] <= r
  PROVE  SeenOf(cellSet, f, now, r, k, c) = {p \in cellSet : p[1] < f + 1}
<1>1. \A p \in cellSet : p[1] \in Nat
  BY DEF IsGrid
<1>2. ASSUME NEW p \in cellSet PROVE p[1] < f + 1 <=> p[1] < f \/ p[1] = f
  BY <1>1
<1> QED BY <1>2 DEF SeenOf

-----------------------------------------------------------------------------
(***************************************************************************)
(* The counters of the columns.                                             *)
(***************************************************************************)
SeenSame(cellSet, c) ==
  SeenOf(cellSet, fileNo', phase', rows', count', c) = SeenOf(cellSet, fileNo, phase, rows, count, c)

\* A step that counts nothing.
LEMMA NothingCounted ==
  ASSUME AllCounted, UNCHANGED <<args, columns>>,
         \A c \in DOMAIN columns : SeenSame(CellsOf(c), c) /\ SeenSame(MissesOf(c), c)
  PROVE  AllCounted'
<1> SUFFICES ASSUME NEW c \in DOMAIN columns
             PROVE  Counted(columns[c].total, Seen(c)') /\ Counted(columns[c].missing, SeenMissing(c)')
  BY DEF AllCounted
<1>1. Counted(columns[c].total, Seen(c)) /\ Counted(columns[c].missing, SeenMissing(c))
  BY DEF AllCounted
<1>2. CellsOf(c)' = CellsOf(c) /\ MissesOf(c)' = MissesOf(c)
  BY DEF CellsOf, MissesOf
<1>3. Seen(c)' = Seen(c) /\ SeenMissing(c)' = SeenMissing(c)
  BY <1>2 DEF Seen, SeenMissing, SeenSame
<1> QED BY <1>1, <1>3

LEMMA ColumnsAre ==
  ASSUME Typed
  PROVE  /\ Len(columns) \in Nat /\ DOMAIN columns = 1 .. Len(columns)
         /\ DOMAIN columns \subseteq Nat \ {0}
         /\ \A c \in DOMAIN columns : columns[c].total \in Nat /\ columns[c].missing \in Nat
<1>1. columns \in Seq(Column)
  BY DEF Typed, CountTypes
<1>2. \A column \in Column : column.total \in Nat /\ column.missing \in Nat
  BY DEF Column
<1>3. \A c \in DOMAIN columns : columns[c] \in Column
  BY <1>1
<1> QED BY <1>1, <1>2, <1>3

\* No row of the file that is read was counted, before and after the step.
LEMMA NoneCounted ==
  ASSUME IInv, Typed, AllCounted, UNCHANGED <<args, fileNo, columns>>,
         phase # "data", phase' # "data" \/ (rows' = 0 /\ count' = 0)
  PROVE  AllCounted'
<1> SUFFICES ASSUME NEW c \in DOMAIN columns
             PROVE  SeenSame(CellsOf(c), c) /\ SeenSame(MissesOf(c), c)
  BY NothingCounted
<1>1. c \in Nat \ {0} /\ IsGrid(CellsOf(c)) /\ IsGrid(MissesOf(c))
  BY ColumnsAre, Grid DEF IsGrid
<1> QED BY <1>1, SeenNone DEF SeenSame

LEMMA DataRowTotals ==
  ASSUME IInv, Typed, InRow, unread = {}, RowsFit, AllCounted, DataRow
  PROVE  AllCounted'
<1>1. /\ phase = "data" /\ phase' = "data" /\ step = "row" /\ toSkip = 0
      /\ UNCHANGED <<args, fileNo, columns>> /\ rows' = rows + 1 /\ count' = 0
  BY DEF DataRow, NextRow, InRow, mainVars, Next1
<1>2. rows \in Nat /\ count \in Nat /\ fileNo \in Nat /\ Skip \in Nat /\ RowNo = Skip + rows + 1
  BY <1>1, RowNoIs DEF Typed, CountTypes, RowNo, IInv, Progress
<1>3. count = Len(RowsOf(text)[RowNo])
  BY <1>1, RowIsDone
<1> SUFFICES ASSUME NEW c \in DOMAIN columns
             PROVE  SeenSame(CellsOf(c), c) /\ SeenSame(MissesOf(c), c)
  BY <1>1, NothingCounted
<1>4. c \in Nat \ {0} /\ IsGrid(CellsOf(c)) /\ IsGrid(MissesOf(c))
      /\ MissesOf(c) \subseteq CellsOf(c)
  BY ColumnsAre, Grid DEF IsGrid
<1>5. ASSUME NEW p \in CellsOf(c), p[1] = fileNo, p[2] = rows + 1 PROVE c <= count
  <2>1. p = <<fileNo, rows + 1>>
    BY <1>5, CellsArePairs DEF CellsOf
  <2>2. c <= Len(RowsOf(text)[Skip + (rows + 1)])
    BY <1>1, <2>1, CellsHere
  <2>3. Skip + (rows + 1) = RowNo
    BY <1>2
  <2> QED BY <1>3, <2>2, <2>3
<1>6. /\ SeenOf(CellsOf(c), fileNo, "data", rows + 1, 0, c)
           = SeenOf(CellsOf(c), fileNo, "data", rows, count, c)
      /\ SeenOf(MissesOf(c), fileNo, "data", rows + 1, 0, c)
           = SeenOf(MissesOf(c), fileNo, "data", rows, count, c)
  BY <1>2, <1>4, <1>5, SeenRow
<1> QED BY <1>1, <1>6 DEF SeenSame

LEMMA FileDoneTotals ==
  ASSUME IInv, Typed, InRow, RowsFit, AllCounted, FileDone
  PROVE  AllCounted'
<1>1. /\ phase \in {"header", "data"} /\ phase' = "open" /\ step = "end"
      /\ UNCHANGED <<args, columns>> /\ fileNo' = fileNo + 1
  BY DEF FileDone, infoVars
<1>2. /\ rows \in Nat /\ toSkip \in Nat /\ fileNo \in Nat /\ Skip \in Nat
      /\ RowNo = Skip - toSkip + rows + 1
      /\ phase = "header" => toSkip # 0 /\ rows = 0
      /\ phase = "data" => toSkip = 0
  BY <1>1, RowNoIs DEF Typed, CountTypes, RowNo, IInv, Progress, InRow
<1>3. RowNo = Len(RowsOf(text)) + 1 /\ Len(RowsOf(text)) \in Nat
  <2>1. text \in Seq(Chars)
    BY RowNoIs
  <2> QED BY <1>1, <2>1, DoneIs, RowWidths
<1> SUFFICES ASSUME NEW c \in DOMAIN columns
             PROVE  SeenSame(CellsOf(c), c) /\ SeenSame(MissesOf(c), c)
  BY <1>1, NothingCounted
<1>4. c \in Nat \ {0} /\ IsGrid(CellsOf(c)) /\ IsGrid(MissesOf(c))
      /\ MissesOf(c) \subseteq CellsOf(c)
  BY ColumnsAre, Grid DEF IsGrid
<1>5. ASSUME NEW p \in CellsOf(c), p[1] = fileNo PROVE phase = "data" /\ p[2] <= rows
  <2>1. p = <<fileNo, p[2]>>
    BY <1>5, CellsArePairs DEF CellsOf
  <2>2. p[2] \in 1 .. Len(RowsOf(text)) - Skip
    BY <1>1, <2>1, CellsHere
  <2>3. Len(RowsOf(text)) = Skip - toSkip + rows
    BY <1>2, <1>3
  <2>4. CASE phase = "header"
    BY <1>2, <2>2, <2>3, <2>4
  <2>5. CASE phase = "data"
    BY <1>2, <2>2, <2>3, <2>5
  <2> QED BY <1>1, <2>4, <2>5
<1>6. /\ SeenOf(CellsOf(c), fileNo, phase, rows, count, c) = {p \in CellsOf(c) : p[1] < fileNo + 1}
      /\ SeenOf(MissesOf(c), fileNo, phase, rows, count, c)
           = {p \in MissesOf(c) : p[1] < fileNo + 1}
  BY <1>2, <1>4, <1>5, SeenFile
<1>7. /\ SeenOf(CellsOf(c), fileNo', phase', rows', count', c)
           = {p \in CellsOf(c) : p[1] < fileNo + 1}
      /\ SeenOf(MissesOf(c), fileNo', phase', rows', count', c)
           = {p \in MissesOf(c) : p[1] < fileNo + 1}
  BY <1>1, <1>4, SeenNone
<1> QED BY <1>6, <1>7 DEF SeenSame

\* Only the first file can set the width if there was no error.
LEMMA FirstOfFiles ==
  ASSUME IInv, Typed, phase = "header", errors = <<>>, ErrorsAre, RowsFit, InRow, NoWidth
  PROVE  fileNo = 1
<1>1. IsInput(args) /\ WidthBefore \in Nat /\ fileNo \in 1 .. Len(args.files)
      /\ Len(args.files) \in Nat
  BY KnownNow, InputIs DEF Typed, FileTypes
<1>2. Len(columns) = 0
  BY DEF NoWidth
<1>3. WidthBefore = 0
  <2>1. CASE RowNo = 1
    BY <1>2, <2>1 DEF RowsFit
  <2>2. CASE RowNo # 1
    <3>1. RowNo \in Nat \ {0} /\ Skip \in Nat /\ toSkip \in Nat /\ rows = 0 /\ toSkip # 0
      BY RowNoIs DEF InRow
    <3>2. 1 \in 1 .. RowNo - 1 /\ 1 <= Skip
      BY <2>2, <3>1 DEF RowNo, InRow
    <3>3. Held = 0 /\ Fits(RowsOf(text), Held, Skip, RowNo - 1)
      BY <1>2, <2>2 DEF RowsFit
    <3> QED BY <3>2, <3>3 DEF Fits
  <2> QED BY <2>1, <2>2
<1>4. ASSUME fileNo # 1 PROVE FALSE
  <2> DEFINE b == fileNo - 1
  <2>1. b \in 1 .. Len(args.files) /\ b \in 1 .. Len(args.files) + 1 /\ b \in 1 .. fileNo - 1
    BY <1>1, <1>4
  <2>2. Verdicts(args)[b].width = 0
    BY <1>3, <1>4 DEF WidthBefore, WidthBy
  <2>3. Reports(args, fileNo) = {}
    BY DEF ErrorsAre, Members
  <2> HIDE DEF b
  <2>4. Verdicts(args)[b].kind = "none"
    BY <2>1, <2>3 DEF Reports
  <2>5. /\ args.files[b] \in Seq(Chars) \cup {NoSuchFile}
        /\ WidthBy(Verdicts(args), b) \in Nat
        /\ HeadersBy(args, Verdicts(args), b) \in Nat
    BY <1>1, <2>1, KnownBefore DEF IsInput
  <2>6. Verdicts(args)[b] = Verdict(args.files[b], WidthBy(Verdicts(args), b),
                                    HeadersBy(args, Verdicts(args), b))
    BY <1>1, <2>1, VerdictsAre
  <2> QED BY <2>2, <2>4, <2>5, <2>6, GoodHasWidth
<1> QED BY <1>4

LEMMA HeaderRowTotals ==
  ASSUME IInv, Typed, InRow, ErrorsAre, errors = <<>>, RowsFit, AllCounted, HeaderRow
  PROVE  AllCounted'
<1>1. /\ phase = "header" /\ rows' = 0 /\ count' = 0 /\ UNCHANGED <<args, fileNo>>
  BY DEF HeaderRow, InRow, mainVars
<1>2. CASE ~NoWidth
  BY <1>1, <1>2, NoneCounted DEF HeaderRow
<1>3. CASE NoWidth
  <2>1. fileNo = 1
    BY <1>1, <1>3, FirstOfFiles
  <2>2. columns' = [i \in 1 .. count |-> [total |-> 0, missing |-> 0]] /\ count \in Nat
    BY <1>3 DEF HeaderRow, Typed, CountTypes
  <2> SUFFICES ASSUME NEW c \in 1 .. count
               PROVE  Counted(0, Seen(c)') /\ Counted(0, SeenMissing(c)')
    BY <2>2 DEF AllCounted
  <2>3. c \in Nat \ {0} /\ IsGrid(CellsOf(c)) /\ IsGrid(MissesOf(c))
    BY <2>2, Grid DEF IsGrid
  <2>4. /\ SeenOf(CellsOf(c), 1, phase', 0, 0, c) = {p \in CellsOf(c) : p[1] < 1}
        /\ SeenOf(MissesOf(c), 1, phase', 0, 0, c) = {p \in MissesOf(c) : p[1] < 1}
    BY <2>3, SeenNone
  <2>5. CellsOf(c)' = CellsOf(c) /\ MissesOf(c)' = MissesOf(c)
    BY <1>1 DEF CellsOf, MissesOf
  <2>6. Seen(c)' = {p \in CellsOf(c) : p[1] < 1} /\ SeenMissing(c)' = {p \in MissesOf(c) : p[1] < 1}
    BY <1>1, <2>1, <2>4, <2>5 DEF Seen, SeenMissing
  <2>7. Seen(c)' = {} /\ SeenMissing(c)' = {}
    <3>1. \A p \in CellsOf(c) : p[1] \in Nat \ {0}
      BY <2>3 DEF IsGrid
    <3>2. \A p \in MissesOf(c) : p[1] \in Nat \ {0}
      BY <2>3 DEF IsGrid
    <3> QED BY <2>6, <3>1, <3>2
  <2> QED BY <2>7, CountedNone
<1> QED BY <1>2, <1>3

-----------------------------------------------------------------------------
LEMMA DataCellTotals ==
  ASSUME IInv, Typed, InText, InRow, unread = {}, RowsFit, AllCounted, DataCell
  PROVE  AllCounted'
<1> DEFINE k == count + 1
           p == <<fileNo, rows + 1>>
           row == RowsOf(text)[RowNo]
<1>1. /\ phase = "data" /\ phase' = "data" /\ step = "cell" /\ toSkip = 0 /\ count < Len(columns)
      /\ UNCHANGED <<args, fileNo, rows>> /\ count' = k
      /\ columns' = [columns EXCEPT ![k] = Guessed(columns[k], cell)]
  BY DEF DataCell, NextCell, InRow, mainVars
<1>2. /\ rows \in Nat /\ count \in Nat /\ fileNo \in Nat \ {0} /\ Skip \in Nat
      /\ RowNo = Skip + rows + 1
  BY <1>1, RowNoIs DEF Typed, CountTypes, RowNo, IInv, Progress
<1>3. /\ count = Visited /\ cell = row[k] /\ k <= Len(row) /\ RowNo \in 1 .. Len(RowsOf(text))
      /\ Len(RowsOf(text)) \in Nat
  <2>1. text \in Seq(Chars)
    BY RowNoIs
  <2> QED BY <1>1, <2>1, CellIs, RowWidths DEF CountAt
<1>4. DOMAIN columns' = DOMAIN columns /\ k \in DOMAIN columns
      /\ columns'[k] = Guessed(columns[k], cell)
      /\ \A c \in DOMAIN columns : c # k => columns'[c] = columns[c]
  BY <1>1, <1>2, ColumnsAre
<1>5. /\ p \in CellsOf(k)
      /\ p \in MissesOf(k) <=> IsMissing(cell)
  <2>1. Skip + (rows + 1) = RowNo /\ rows + 1 \in 1 .. Len(RowsOf(text)) - Skip
    BY <1>2, <1>3
  <2> HIDE DEF k
  <2> QED BY <1>1, <1>3, <2>1, CellsHere
<1> SUFFICES ASSUME NEW c \in DOMAIN columns
             PROVE  /\ Counted(columns'[c].total, Seen(c)')
                    /\ Counted(columns'[c].missing, SeenMissing(c)')
  BY <1>4 DEF AllCounted
<1>6. Counted(columns[c].total, Seen(c)) /\ Counted(columns[c].missing, SeenMissing(c))
  BY DEF AllCounted
<1>7. c \in Nat \ {0} /\ IsGrid(CellsOf(c)) /\ IsGrid(MissesOf(c))
      /\ columns[c].total \in Nat /\ columns[c].missing \in Nat
  BY ColumnsAre, Grid DEF IsGrid
<1>8. CellsOf(c)' = CellsOf(c) /\ MissesOf(c)' = MissesOf(c)
  BY <1>1 DEF CellsOf, MissesOf
<1>9. /\ Seen(c) = SeenOf(CellsOf(c), fileNo, "data", rows, count, c)
      /\ SeenMissing(c) = SeenOf(MissesOf(c), fileNo, "data", rows, count, c)
      /\ Seen(c)' = SeenOf(CellsOf(c), fileNo, "data", rows, count + 1, c)
      /\ SeenMissing(c)' = SeenOf(MissesOf(c), fileNo, "data", rows, count + 1, c)
  BY <1>1, <1>8 DEF Seen, SeenMissing
<1>10. CASE c # k
  <2>1. /\ SeenOf(CellsOf(c), fileNo, "data", rows, count + 1, c)
             = SeenOf(CellsOf(c), fileNo, "data", rows, count, c)
        /\ SeenOf(MissesOf(c), fileNo, "data", rows, count + 1, c)
             = SeenOf(MissesOf(c), fileNo, "data", rows, count, c)
    BY <1>2, <1>7, <1>10, SeenOther
  <2> QED BY <1>4, <1>6, <1>9, <1>10, <2>1
<1>11. CASE c = k
  <2>1. /\ Seen(c)' = Seen(c) \cup ({p} \cap CellsOf(c)) /\ p \notin Seen(c)
        /\ SeenMissing(c)' = SeenMissing(c) \cup ({p} \cap MissesOf(c)) /\ p \notin SeenMissing(c)
    <3>1. /\ SeenOf(CellsOf(k), fileNo, "data", rows, k, k)
               = SeenOf(CellsOf(k), fileNo, "data", rows, count, k) \cup ({p} \cap CellsOf(k))
          /\ p \notin SeenOf(CellsOf(k), fileNo, "data", rows, count, k)
      BY <1>2, <1>7, <1>11, SeenCell
    <3>2. /\ SeenOf(MissesOf(k), fileNo, "data", rows, k, k)
               = SeenOf(MissesOf(k), fileNo, "data", rows, count, k) \cup ({p} \cap MissesOf(k))
          /\ p \notin SeenOf(MissesOf(k), fileNo, "data", rows, count, k)
      BY <1>2, <1>7, <1>11, SeenCell
    <3> QED BY <1>9, <1>11, <3>1, <3>2
  <2>2. /\ columns'[c].total = columns[c].total + 1
        /\ columns'[c].missing = IF IsMissing(cell) THEN columns[c].missing + 1
                                 ELSE columns[c].missing
    BY <1>4, <1>11 DEF Guessed, Next1
  <2>3. p \in CellsOf(c) /\ (p \in MissesOf(c) <=> IsMissing(cell))
    BY <1>5, <1>11
  <2> HIDE DEF p, k
  <2>4. Counted(columns[c].total + 1, Seen(c) \cup {p})
    BY <1>6, <1>7, <2>1, CountedMore
  <2>5. Seen(c)' = Seen(c) \cup {p}
    BY <2>1, <2>3
  <2>6. Counted(columns'[c].total, Seen(c)')
    BY <2>2, <2>4, <2>5
  <2>7. Counted(columns'[c].missing, SeenMissing(c)')
    <3>1. CASE IsMissing(cell)
      <4>1. Counted(columns[c].missing + 1, SeenMissing(c) \cup {p})
        BY <1>6, <1>7, <2>1, CountedMore
      <4>2. SeenMissing(c)' = SeenMissing(c) \cup {p}
        BY <2>1, <2>3, <3>1
      <4> QED BY <2>2, <3>1, <4>1, <4>2
    <3>2. CASE ~IsMissing(cell)
      <4>1. SeenMissing(c)' = SeenMissing(c)
        BY <2>1, <2>3, <3>2
      <4> QED BY <1>6, <2>2, <3>2, <4>1
    <3> QED BY <3>1, <3>2
  <2> QED BY <2>6, <2>7
<1> QED BY <1>10, <1>11

LEMMA NextTotals ==
  ASSUME IInv, Typed, Blocks, LexInv, RowInv, FileInv, Totals, [Next]_vars
  PROVE  Totals'
<1> SUFFICES ASSUME unread' = {}, errors' = <<>> PROVE AllCounted'
  BY DEF Totals
<1>1. unread = {} /\ ~ReadFails
  BY DEF Next, Steps, NoFile, OpenFile, FetchToken, FileDone, Report, Finished, HeaderCell,
         HeaderRow, HeaderFails, DataCell, DataRow, TooManyCells, Close, ReadFails, vars
<1>2. ~(NoFile \/ HeaderFails \/ TooManyCells)
  <2>1. ASSUME NEW kind PROVE ~Error(kind)
    <3>1. SUFFICES ASSUME Error(kind) PROVE FALSE
      OBVIOUS
    <3>2. errors' = Append(errors, [kind |-> kind, file |-> fileNo]) /\ errors \in Seq(Failure)
      BY <3>1 DEF Error, Typed, FileTypes, Failure
    <3>3. Append(errors, [kind |-> kind, file |-> fileNo]) # <<>>
      BY <3>2
    <3> QED BY <3>2, <3>3
  <2> QED BY <2>1 DEF NoFile, HeaderFails, TooManyCells
<1>3. errors = <<>>
  BY <1>1, <1>2 DEF Next, Steps, OpenFile, FetchToken, FileDone, Report, Finished, HeaderCell,
         HeaderRow, DataCell, DataRow, mainVars, vars
<1>4. AllCounted /\ ErrorsAre /\ InFile
  BY <1>1, <1>3 DEF Totals, FileInv
<1>5. phase \in {"header", "data"} => InRow /\ RowsFit /\ InText
  BY <1>1, <1>4 DEF RowInv, InFile, LexInv, InRow
<1>6. CASE OpenFile \/ Report \/ HeaderCell
  <2>1. UNCHANGED <<args, fileNo, columns>> /\ phase # "data"
        /\ (phase' # "data" \/ (rows' = 0 /\ count' = 0))
    BY <1>6 DEF OpenFile, Report, HeaderCell, mainVars, infoVars
  <2> QED BY <1>4, <2>1, NoneCounted
<1>7. CASE Finished \/ UNCHANGED vars \/ FetchToken
  <2>1. UNCHANGED <<args, fileNo, columns, phase, rows, count>>
    BY <1>7 DEF Finished, FetchToken, vars, mainVars, infoVars
  <2>2. \A c \in DOMAIN columns : SeenSame(CellsOf(c), c) /\ SeenSame(MissesOf(c), c)
    BY <2>1 DEF SeenSame
  <2> QED BY <1>4, <2>1, <2>2, NothingCounted
<1>8. CASE FileDone
  <2>1. phase \in {"header", "data"}
    BY <1>8 DEF FileDone
  <2> QED BY <1>4, <1>5, <1>8, <2>1, FileDoneTotals
<1>9. CASE HeaderRow \/ DataRow \/ DataCell
  <2>1. phase \in {"header", "data"}
    BY <1>9 DEF HeaderRow, DataRow, DataCell
  <2> QED BY <1>1, <1>3, <1>4, <1>5, <1>9, <2>1, HeaderRowTotals, DataRowTotals, DataCellTotals
<1> QED
  BY <1>1, <1>2, <1>6, <1>7, <1>8, <1>9 DEF Next, Steps

LEMMA InitTotals == Init => Totals
<1> SUFFICES ASSUME Init PROVE AllCounted
  BY DEF Totals
<1>1. columns = <<>> /\ DOMAIN <<>> = {}
  BY DEF Init
<1> QED BY <1>1 DEF AllCounted

-----------------------------------------------------------------------------
(***************************************************************************)
(* The report.                                                              *)
(***************************************************************************)
ReportInv == IInv /\ Typed /\ Blocks /\ LexInv /\ RowInv /\ FileInv /\ Totals

LEMMA InitReportInv == Init => ReportInv
BY InitIInv, InitTyped, InitBlocks, InitLex, InitRow, InitFile, InitTotals DEF ReportInv

LEMMA NextReportInv == ReportInv /\ [Next]_vars => ReportInv'
<1> SUFFICES ASSUME ReportInv, [Next]_vars PROVE ReportInv'
  OBVIOUS
<1>1. IInv /\ Typed /\ Blocks /\ LexInv /\ RowInv /\ FileInv /\ Totals
  BY DEF ReportInv
<1>2. IInv' /\ Typed'
  BY <1>1, NextIInv, NextParserTypes, NextFileTypes, NextCountTypes DEF Typed
<1>3. Blocks' /\ LexInv'
  BY <1>1, NextBlocks, NextLex DEF Typed
<1>4. RowInv'
  BY <1>1, NextRowInv DEF FileInv
<1>5. FileInv'
  BY <1>1, NextFile
<1>6. Totals'
  BY <1>1, NextTotals
<1> QED BY <1>2, <1>3, <1>4, <1>5, <1>6 DEF ReportInv

\* At the end every cell of a column was seen.
LEMMA AllSeen ==
  ASSUME IInv, Typed, phase # "data", fileNo = Len(args.files) + 1, NEW c \in Nat \ {0}
  PROVE  Seen(c) = CellsOf(c) /\ SeenMissing(c) = MissesOf(c)
<1>1. IsGrid(CellsOf(c)) /\ IsGrid(MissesOf(c)) /\ MissesOf(c) \subseteq CellsOf(c)
  BY Grid DEF IsGrid
<1>2. DOMAIN Verdicts(args) = 1 .. Len(args.files) /\ Len(args.files) \in Nat
  BY KnownNow, VerdictsAre, InputIs DEF Typed
<1>3. ASSUME NEW p \in CellsOf(c) PROVE p[1] < fileNo
  <2>1. p = <<p[1], p[2]>>
    BY CellsArePairs DEF CellsOf
  <2>2. p[1] \in DOMAIN Verdicts(args)
    BY <2>1, CellIn DEF CellsOf
  <2> QED BY <1>2, <2>2
<1>4. /\ Seen(c) = {p \in CellsOf(c) : p[1] < fileNo}
      /\ SeenMissing(c) = {p \in MissesOf(c) : p[1] < fileNo}
  BY <1>1, SeenNone DEF Seen, SeenMissing
<1> QED BY <1>1, <1>3, <1>4

LEMMA ReportIs == ReportInv => ReportIsOfTheTexts
<1> SUFFICES ASSUME ReportInv, phase \in {"reported", "found"}, unread = {}
             PROVE  IsReport(Verdicts(args))
  BY DEF ReportIsOfTheTexts
<1> DEFINE verdicts == Verdicts(args)
           bad == {i \in DOMAIN verdicts : verdicts[i].kind # "none"}
           list == {[kind |-> verdicts[i].kind, file |-> i] : i \in bad}
<1>1. /\ IInv /\ Typed /\ DueIs /\ ErrorsAre
      /\ fileNo = Len(args.files) + 1 /\ (phase = "found" <=> errors = <<>>)
      /\ phase \notin {"header", "data"} /\ phase # "data"
  BY DEF ReportInv, FileInv, AtReport
<1>2. DOMAIN verdicts = 1 .. Len(args.files) /\ Len(args.files) \in Nat \ {0}
  BY <1>1, KnownNow, VerdictsAre, InputIs DEF Typed
<1>3. list = Reports(args, fileNo)
  <2>1. 1 .. fileNo - 1 = DOMAIN verdicts
    BY <1>1, <1>2
  <2> QED BY <2>1 DEF Reports
<1>4. Members(errors) = list
  BY <1>1, <1>3 DEF ErrorsAre
<1>5. errors = <<>> <=> Members(errors) = {}
  <2>1. errors \in Seq(Failure)
    BY <1>1 DEF Typed, FileTypes, Failure
  <2>2. errors = <<>> <=> DOMAIN errors = {}
    BY <2>1
  <2> QED BY <2>2 DEF Members
<1>6. (phase = "found") <=> (bad = {})
  BY <1>1, <1>4, <1>5
<1>7. \A i, j \in DOMAIN errors : i < j => errors[i].file < errors[j].file
  BY <1>1 DEF ErrorsAre, InFileOrder
<1>8. Len(columns) = verdicts[Len(args.files)].width
  <2>1. fileNo # 1 /\ fileNo - 1 = Len(args.files)
    BY <1>1, <1>2
  <2> QED BY <1>1, <2>1 DEF DueIs, WidthBefore, WidthBy
<1>9. ASSUME phase = "found", NEW c \in DOMAIN columns
      PROVE  /\ columns[c].total = Cardinality(ColumnCells(verdicts, c))
             /\ columns[c].missing = Cardinality(MissingCells(verdicts, c))
  <2>1. Counted(columns[c].total, Seen(c)) /\ Counted(columns[c].missing, SeenMissing(c))
    BY <1>1, <1>9 DEF ReportInv, Totals, AllCounted
  <2>2. c \in Nat \ {0}
    BY <1>1, ColumnsAre
  <2>3. Seen(c) = CellsOf(c) /\ SeenMissing(c) = MissesOf(c)
    BY <1>1, <2>2, AllSeen
  <2> QED BY <2>1, <2>3 DEF Counted, CellsOf, MissesOf
<1> HIDE DEF verdicts
<1>10. {errors[i] : i \in DOMAIN errors} = list
  BY <1>4 DEF Members
<1>11. IsReport(verdicts)
  BY <1>6, <1>7, <1>8, <1>9, <1>10 DEF IsReport
<1> QED BY <1>11 DEF verdicts

\* In a file all reads of which have succeeded the row that is read is the one
\* its counters say: as many header rows are behind it as were skipped, as many
\* data rows as were processed, and in the row itself just the cells that are
\* counted were handed out, header rows counted from their first filled cell.
THEOREM RowsAreRead == Spec => []RowInv
<1>1. ReportInv => RowInv
  BY DEF ReportInv
<1> QED BY <1>1, InitReportInv, NextReportInv, PTL DEF Spec

\* A file is opened with the width and the number of header rows the files
\* before it leave, the errors so far are exactly those the files before it
\* deserve, and every row that was passed in it has the width it must have: an
\* exception comes at the first row that does not fit, and nowhere else.
THEOREM FilesAreJudged == Spec => []FileInv
<1>1. ReportInv => FileInv
  BY DEF ReportInv
<1> QED BY <1>1, InitReportInv, NextReportInv, PTL DEF Spec

\* While no file has failed the counters of each column are the numbers of its
\* values and of its missing values in the data rows read so far.
THEOREM CountsAreOfTheRows == Spec => []Totals
<1>1. ReportInv => Totals
  BY DEF ReportInv
<1> QED BY <1>1, InitReportInv, NextReportInv, PTL DEF Spec

\* When every read has succeeded the report of csv_info is the one the texts
\* deserve, for every command line, every text and every size of the buffer.
THEOREM ReportIsRight == Spec => []ReportIsOfTheTexts
BY InitReportInv, NextReportInv, ReportIs, PTL DEF Spec
=============================================================================
