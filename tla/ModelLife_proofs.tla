-------------------------- MODULE ModelLife_proofs --------------------------
(***************************************************************************)
(* What generate_model says of its model file is true, for any number of    *)
(* runs, any predictions beside them, and processes killed anywhere; and    *)
(* what model_prediction answers is what its message and its data ask for,  *)
(* whatever these are and whatever becomes of the files beside it.          *)
(***************************************************************************)
EXTENDS ModelLife, FiniteSetTheorems, WellFoundedInduction, TLAPS

USE RunsAssumption

\* The types of what generate_model and the file are made of.
Typed ==
  /\ runs \in 0 .. MaxRuns
  /\ gpc \in {"idle", "read", "table", "train", "test", "experiments", "save",
              "writing", "saved"}
  /\ trained \in {NoModel, runs}
  /\ answer \in {"none", "saved", "failed"}
  /\ modelFile \in Files

\* As long as a run goes on it has said nothing.  Up to the opening of the file
\* the path is what it was; from then on it is the trained model's, which is
\* there as a whole at the end unless the disk has failed.
Progress ==
  /\ gpc # "idle" => answer = "none"
  /\ gpc \in {"read", "table", "train", "test", "experiments", "save"} =>
       modelFile = before
  /\ gpc = "writing" => trained = runs
  /\ gpc = "saved" /\ ~diskFailed => modelFile = WholeFile(runs)

IInv == Typed /\ Progress /\ AnswerTellsTheFile

LEMMA InitIInv == Init => IInv
BY DEF Init, FileInit, GenInit, IInv, Typed, Progress, AnswerTellsTheFile, Files, Models,
       NoFile, WholeFile

\* A step of generate_model keeps the invariant.
LEMMA GenNextIInv == IInv /\ GenNext => IInv'
<1> SUFFICES ASSUME IInv, GenNext PROVE IInv'
  OBVIOUS
<1>0. CutFile(runs) \in Files /\ WholeFile(runs) \in Files
  BY DEF IInv, Typed, Files, Models
<1> USE DEF IInv, Typed, Progress, AnswerTellsTheFile, fileVars, NoModel
<1>1. CASE StartRun
  BY <1>1 DEF StartRun
<1>2. CASE ReadData \/ MakeTable \/ TestModel \/ RunExperiments
  BY <1>2 DEF ReadData, MakeTable, TestModel, RunExperiments, Step
<1>3. CASE TrainModel
  BY <1>3 DEF TrainModel
<1>4. CASE StepThrows
  BY <1>4 DEF StepThrows, Report
<1>5. CASE SaveRefused
  BY <1>5 DEF SaveRefused, Report
<1>6. CASE OpenFile
  BY <1>0, <1>6 DEF OpenFile
<1>7. CASE OpenFails
  BY <1>7 DEF OpenFails, Report
<1>8. CASE WriteFile
  BY <1>0, <1>8 DEF WriteFile
<1>9. CASE WriteFails
  BY <1>9 DEF WriteFails, Report
<1>10. CASE ReportSaved
  BY <1>10 DEF ReportSaved
<1>11. CASE Killed
  BY <1>11 DEF Killed
<1>12. QED
  BY <1>1, <1>2, <1>3, <1>4, <1>5, <1>6, <1>7, <1>8, <1>9, <1>10, <1>11
     DEF GenNext, GenSteps

\* A step of neither program but generate_model touches what it speaks of.
LEMMA OthersKeepIInv == IInv /\ UNCHANGED <<fileVars, genVars>> => IInv'
BY DEF IInv, Typed, Progress, AnswerTellsTheFile, fileVars, genVars

LEMMA NextIInv == IInv /\ [Next]_vars => IInv'
<1>1. Generate => GenNext
  BY DEF Generate
<1>2. Predict \/ Finished \/ UNCHANGED vars => UNCHANGED <<fileVars, genVars>>
  BY DEF Predict, PredNext, Finished, vars
<1>3. QED
  BY <1>1, <1>2, GenNextIInv, OthersKeepIInv DEF Next

\* The invariant the answers rest on: it relates the step generate_model is at
\* to what is at the path, and holds in every reachable state.
THEOREM FileInvariance == Spec => []IInv
BY InitIInv, NextIInv, PTL DEF Spec

\* generate_model answers "saved" only if the whole model of its last run is at
\* the path, and reports an error only if the path is as it found it, unless
\* the disk has failed: for any number of runs, whatever is killed when.
THEOREM SavedIsSaved == Spec => []AnswerTellsTheFile
<1>1. IInv => AnswerTellsTheFile
  BY DEF IInv
<1>2. QED
  BY <1>1, FileInvariance, PTL

(***************************************************************************)
(* Induction over the natural numbers, stated for a set of numbers: from    *)
(* the least number that is missing from it.                                *)
(***************************************************************************)

\* A set that has 0 and, with every number, the next one has all of them.
LEMMA SetInduction ==
  ASSUME NEW S, 0 \in S, \A n \in Nat : n \in S => n + 1 \in S
  PROVE  Nat \subseteq S
<1> SUFFICES ASSUME Nat \ S # {} PROVE FALSE
  OBVIOUS
<1>1. PICK x \in Nat \ S : \A y \in Nat \ S : <<y, x>> \notin OpToRel(<, Nat)
  BY NatLessThanWellFounded, WFMin
<1>2. x # 0 /\ x - 1 \in Nat
  OBVIOUS
<1>3. <<x - 1, x>> \in OpToRel(<, Nat)
  BY <1>2 DEF OpToRel
<1>4. x - 1 \in S
  BY <1>1, <1>2, <1>3
<1> QED BY <1>2, <1>4

(***************************************************************************)
(* The order the normalizations are applied in.                             *)
(***************************************************************************)

\* The place of an entry's column, and which of two entries is applied first.
PlaceOf(entries, i) == Place(entries[i].column)
Before(entries, i, j) ==
  \/ PlaceOf(entries, i) < PlaceOf(entries, j)
  \/ PlaceOf(entries, i) = PlaceOf(entries, j) /\ i < j
Earlier(entries, i) == {j \in DOMAIN entries : Before(entries, j, i)}

\* Sorted has every entry once, each before the ones that are applied later

\* (std::sort in normalized::normalized).
LEMMA SortedByPlace ==
  ASSUME NEW entries, NEW n \in Nat, DOMAIN entries = 1 .. n,
         \A i \in 1 .. n : PlaceOf(entries, i) \in Nat
  PROVE  /\ DOMAIN Sorted(entries) = 1 .. n
         /\ \A r \in 1 .. n : Sorted(entries)[r] \in 1 .. n
         /\ \A i \in 1 .. n : \E r \in 1 .. n : Sorted(entries)[r] = i
         /\ \A r, q \in 1 .. n :
              r < q => Before(entries, Sorted(entries)[r], Sorted(entries)[q])
<1> DEFINE Rank(i) == Cardinality(Earlier(entries, i)) + 1
           rank == [i \in 1 .. n |-> Rank(i)]
           sorted == Sorted(entries)
<1>1. sorted = [r \in 1 .. n |-> CHOOSE i \in 1 .. n : Rank(i) = r]
  BY DEF Sorted, Earlier, Before, PlaceOf
<1>2. IsFiniteSet(1 .. n) /\ Cardinality(1 .. n) = n
  BY FS_Interval
<1>3. ASSUME NEW i \in 1 .. n
      PROVE  /\ IsFiniteSet(Earlier(entries, i))
             /\ Cardinality(Earlier(entries, i)) \in Nat
             /\ Cardinality(Earlier(entries, i)) < n
  <2>1. Earlier(entries, i) \subseteq (1 .. n) \ {i}
    BY DEF Earlier, Before
  <2>2. IsFiniteSet((1 .. n) \ {i}) /\ Cardinality((1 .. n) \ {i}) = n - 1
    BY <1>2, FS_RemoveElement
  <2>3. /\ IsFiniteSet(Earlier(entries, i))
        /\ Cardinality(Earlier(entries, i)) <= n - 1
    BY <2>1, <2>2, FS_Subset
  <2>4. Cardinality(Earlier(entries, i)) \in Nat
    BY <2>3, FS_CardinalityType
  <2> QED BY <2>3, <2>4
<1>4. ASSUME NEW i \in 1 .. n, NEW j \in 1 .. n, Before(entries, i, j)
      PROVE  Rank(i) < Rank(j)
  <2>1. Earlier(entries, i) \in SUBSET Earlier(entries, j)
    BY <1>4 DEF Earlier, Before
  <2>2. i \in Earlier(entries, j) /\ i \notin Earlier(entries, i)
    BY <1>4 DEF Earlier, Before
  <2>3. IsFiniteSet(Earlier(entries, j))
    BY <1>3
  <2>4. /\ Cardinality(Earlier(entries, i)) <= Cardinality(Earlier(entries, j))
        /\ Cardinality(Earlier(entries, j)) # Cardinality(Earlier(entries, i))
    BY <2>1, <2>2, <2>3, FS_Subset
  <2> QED BY <1>3, <2>4
<1>5. \A i, j \in 1 .. n : i # j => Before(entries, i, j) \/ Before(entries, j, i)
  BY DEF Before
<1>6. \A i \in 1 .. n : Rank(i) \in 1 .. n
  BY <1>3
<1> HIDE DEF Rank, sorted
<1>7. \A i, j \in 1 .. n : Rank(i) = Rank(j) => i = j
  <2> SUFFICES ASSUME NEW i \in 1 .. n, NEW j \in 1 .. n, Rank(i) = Rank(j), i # j
               PROVE  FALSE
    OBVIOUS
  <2>1. ~(Rank(i) < Rank(j)) /\ ~(Rank(j) < Rank(i))
    BY <1>6
  <2> QED BY <1>4, <1>5, <2>1
<1>8. \A r \in 1 .. n : \E i \in 1 .. n : Rank(i) = r
  <2>1. rank \in [1 .. n -> 1 .. n] /\ \A i, j \in 1 .. n : rank[i] = rank[j] => i = j
    BY <1>6, <1>7
  <2>2. rank \in Injection(1 .. n, 1 .. n)
    BY <2>1 DEF Injection, IsInjective
  <2>3. rank \in Surjection(1 .. n, 1 .. n)
    BY <1>2, <2>2, FS_Injection
  <2>4. \A r \in 1 .. n : \E i \in 1 .. n : rank[i] = r
    BY <2>3 DEF Surjection
  <2> QED BY <2>4
<1>9. \A r \in 1 .. n : sorted[r] \in 1 .. n /\ Rank(sorted[r]) = r
  BY <1>1, <1>8
<1>10. \A i \in 1 .. n : \E r \in 1 .. n : sorted[r] = i
  BY <1>6, <1>7, <1>9
<1>11. ASSUME NEW r \in 1 .. n, NEW q \in 1 .. n, r < q
       PROVE  Before(entries, sorted[r], sorted[q])
  <2>1. sorted[r] # sorted[q]
    BY <1>9, <1>11
  <2>2. ~Before(entries, sorted[q], sorted[r])
    BY <1>4, <1>9, <1>11
  <2> QED BY <1>5, <1>9, <2>1, <2>2
<1>12. DOMAIN sorted = 1 .. n
  BY <1>1
<1> QED BY <1>9, <1>10, <1>11, <1>12 DEF sorted

\* seq has the entries among the first m in the order that go to place p, in the
\* order of the message.
Collects(seq, m, p) ==
  /\ seq \in Seq(Nat)
  /\ \A i \in DOMAIN seq : \E r \in 1 .. m : NormPlace(norms[r]) = p /\ seq[i] = norms[r]
  /\ \A r \in 1 .. m : NormPlace(norms[r]) = p => \E i \in DOMAIN seq : seq[i] = norms[r]
  /\ \A i, j \in DOMAIN seq : i < j => seq[i] < seq[j]

\* One more entry goes behind those before it.
LEMMA CollectsOneMore ==
  ASSUME norms \in Seq(Nat), NEW p, NEW m \in Nat, m + 1 <= Len(norms), NEW seq,
         \A r, q \in 1 .. Len(norms) :
           r < q /\ NormPlace(norms[r]) = p /\ NormPlace(norms[q]) = p => norms[r] < norms[q],
         Collects(seq, m, p)
  PROVE  Collects(IF NormPlace(norms[m + 1]) = p THEN Append(seq, norms[m + 1]) ELSE seq,
                  m + 1, p)
<1> DEFINE Goes(r) == NormPlace(norms[r]) = p
           n == Len(norms)
<1>1. n \in Nat /\ \A r \in 1 .. n : norms[r] \in Nat
  OBVIOUS
<1>2. \A r, q \in 1 .. n : r < q /\ Goes(r) /\ Goes(q) => norms[r] < norms[q]
  OBVIOUS
<1>3. /\ seq \in Seq(Nat)
      /\ \A i \in DOMAIN seq : \E r \in 1 .. m : Goes(r) /\ seq[i] = norms[r]
      /\ \A r \in 1 .. m : Goes(r) => \E i \in DOMAIN seq : seq[i] = norms[r]
      /\ \A i, j \in DOMAIN seq : i < j => seq[i] < seq[j]
  BY DEF Collects
<1> HIDE DEF Goes, n
<1>4. m + 1 \in 1 .. n /\ 1 .. m \subseteq 1 .. n
  BY <1>1 DEF n
<1>5. 1 .. m + 1 = (1 .. m) \cup {m + 1}
  OBVIOUS
<1>6. CASE ~Goes(m + 1)
  <2>1. /\ \A i \in DOMAIN seq : \E r \in 1 .. m + 1 : Goes(r) /\ seq[i] = norms[r]
        /\ \A r \in 1 .. m + 1 : Goes(r) => \E i \in DOMAIN seq : seq[i] = norms[r]
    BY <1>3, <1>5, <1>6
  <2> QED BY <1>3, <1>6, <2>1 DEF Collects, Goes
<1>7. CASE Goes(m + 1)
  <2> DEFINE new == Append(seq, norms[m + 1])
             l == Len(seq)
  <2>1. /\ new \in Seq(Nat) /\ l \in Nat /\ DOMAIN seq = 1 .. l
        /\ DOMAIN new = (1 .. l) \cup {l + 1}
        /\ new[l + 1] = norms[m + 1] /\ \A i \in 1 .. l : new[i] = seq[i]
    BY <1>1, <1>3, <1>4
  <2> HIDE DEF new, l
  <2>2. \A i \in 1 .. l : new[i] < new[l + 1]
    <3> SUFFICES ASSUME NEW i \in 1 .. l PROVE new[i] < new[l + 1]
      OBVIOUS
    <3>1. PICK r \in 1 .. m : Goes(r) /\ seq[i] = norms[r]
      BY <1>3, <2>1
    <3>2. norms[r] < norms[m + 1]
      BY <1>2, <1>4, <1>7, <3>1
    <3> QED BY <2>1, <3>1, <3>2
  <2>3. \A i, j \in DOMAIN new : i < j => new[i] < new[j]
    <3> SUFFICES ASSUME NEW i \in DOMAIN new, NEW j \in DOMAIN new, i < j
                 PROVE  new[i] < new[j]
      OBVIOUS
    <3>1. i \in 1 .. l
      BY <2>1
    <3>2. CASE j = l + 1
      BY <2>2, <3>1, <3>2
    <3>3. CASE j \in 1 .. l
      BY <1>3, <2>1, <3>1, <3>3
    <3> QED BY <2>1, <3>2, <3>3
  <2>4. \A i \in DOMAIN new : \E r \in 1 .. m + 1 : Goes(r) /\ new[i] = norms[r]
    <3> SUFFICES ASSUME NEW i \in DOMAIN new
                 PROVE  \E r \in 1 .. m + 1 : Goes(r) /\ new[i] = norms[r]
      OBVIOUS
    <3>1. CASE i = l + 1
      BY <1>5, <1>7, <2>1, <3>1
    <3>2. CASE i \in 1 .. l
      <4>1. PICK r \in 1 .. m : Goes(r) /\ seq[i] = norms[r]
        BY <1>3, <2>1, <3>2
      <4> QED BY <1>5, <2>1, <3>2, <4>1
    <3> QED BY <2>1, <3>1, <3>2
  <2>5. \A r \in 1 .. m + 1 : Goes(r) => \E i \in DOMAIN new : new[i] = norms[r]
    <3> SUFFICES ASSUME NEW r \in 1 .. m + 1, Goes(r)
                 PROVE  \E i \in DOMAIN new : new[i] = norms[r]
      OBVIOUS
    <3>1. CASE r = m + 1
      BY <2>1, <3>1
    <3>2. CASE r \in 1 .. m
      <4>1. PICK i \in DOMAIN seq : seq[i] = norms[r]
        BY <1>3, <3>2
      <4> QED BY <2>1, <4>1
    <3> QED BY <1>5, <3>1, <3>2
  <2> QED BY <1>7, <2>1, <2>3, <2>4, <2>5 DEF Collects, Goes, new
<1> QED BY <1>6, <1>7 DEF Goes

\* A cell gets every entry for its place once, in the order of the message
\* (normalized_data::operator()).
LEMMA AppliedInOrder ==
  ASSUME norms \in Seq(Nat), NEW p,
         \A r, q \in 1 .. Len(norms) :
           r < q /\ NormPlace(norms[r]) = p /\ NormPlace(norms[q]) = p => norms[r] < norms[q]
  PROVE  Collects(Applied(p), Len(norms), p)
<1> DEFINE Entry(f, i) == IF i = 0 THEN <<>>
                          ELSE IF NormPlace(norms[i]) = p THEN Append(f[i - 1], norms[i])
                          ELSE f[i - 1]
           Fills(f, m) == f = [i \in 0 .. m |-> Entry(f, i)]
           S == {m \in Nat : \E f : Fills(f, m)}
           first == CHOOSE f : Fills(f, Len(norms))
           T == {m \in Nat : m <= Len(norms) => Collects(first[m], m, p)}
<1>1. \E f : Fills(f, 0)
  <2> DEFINE f0 == [i \in 0 .. 0 |-> <<>>]
  <2>1. Fills(f0, 0)
    OBVIOUS
  <2> QED BY <2>1
<1>2. ASSUME NEW m \in Nat, NEW f, Fills(f, m)
      PROVE  \E g : Fills(g, m + 1)
  <2> DEFINE g == [i \in 0 .. m + 1 |-> IF i <= m THEN f[i] ELSE Entry(f, i)]
  <2>1. ASSUME NEW i \in 0 .. m + 1 PROVE g[i] = Entry(g, i)
    <3>1. CASE i \in 0 .. m
      <4>1. g[i] = f[i] /\ (i # 0 => g[i - 1] = f[i - 1])
        BY <3>1
      <4>2. f[i] = Entry(f, i)
        BY <1>2, <3>1
      <4> QED BY <4>1, <4>2
    <3>2. CASE i = m + 1
      <4>1. g[i] = Entry(f, i) /\ g[i - 1] = f[i - 1]
        BY <3>2
      <4> QED BY <4>1
    <3> QED BY <3>1, <3>2
  <2>2. Fills(g, m + 1)
    <3> HIDE DEF Entry
    <3> QED BY <2>1
  <2> QED BY <2>2
<1>3. Len(norms) \in Nat
  OBVIOUS
<1>4. \E f : Fills(f, Len(norms))
  <2> HIDE DEF Fills
  <2>1. 0 \in S /\ \A m \in Nat : m \in S => m + 1 \in S
    BY <1>1, <1>2
  <2>2. Nat \subseteq S
    <3> HIDE DEF S
    <3> QED BY <2>1, SetInduction
  <2> QED BY <1>3, <2>2
<1>5. Fills(first, Len(norms))
  <2> HIDE DEF Fills
  <2> QED BY <1>4
<1>6. Applied(p) = first[Len(norms)]
  BY DEF Applied
<1> HIDE DEF first
<1>7. \A i \in 0 .. Len(norms) : first[i] = Entry(first, i)
  BY <1>5
<1>8. 0 \in T
  <2>1. first[0] = <<>>
    BY <1>3, <1>7
  <2>2. <<>> \in Seq(Nat) /\ DOMAIN <<>> = {}
    OBVIOUS
  <2>3. Collects(<<>>, 0, p)
    BY <2>2 DEF Collects
  <2> QED BY <2>1, <2>3
<1>9. ASSUME NEW m \in Nat, m \in T PROVE m + 1 \in T
  <2> SUFFICES ASSUME m + 1 <= Len(norms)
               PROVE  Collects(first[m + 1], m + 1, p)
    OBVIOUS
  <2>1. Collects(first[m], m, p)
    BY <1>3, <1>9
  <2>2. first[m + 1] = IF NormPlace(norms[m + 1]) = p THEN Append(first[m], norms[m + 1])
                       ELSE first[m]
    BY <1>3, <1>7
  <2> QED BY <2>1, <2>2, CollectsOneMore
<1>10. Nat \subseteq T
  <2> HIDE DEF T
  <2> QED BY <1>8, <1>9, SetInduction
<1> QED BY <1>3, <1>6, <1>10

(***************************************************************************)
(* The columns of the data file.                                            *)
(***************************************************************************)

\* If the header is read as a row no id is there twice, and each is at its place

\* (schema_mapper).
LEMMA PlacesOfIds ==
  ASSUME job.header \in Seq(STRING), HeaderIsRow
  PROVE  /\ \A p \in 1 .. Len(job.header) : Place(job.header[p]) = p
         /\ \A id \in Ids : Place(id) \in 1 .. Len(job.header) /\ job.header[Place(id)] = id
<1> DEFINE n == Len(job.header)
           header == [p \in 1 .. n |-> job.header[p]]
<1>1. n \in Nat /\ DOMAIN job.header = 1 .. n
  OBVIOUS
<1>2. IsFiniteSet(1 .. n) /\ Cardinality(1 .. n) = n
  BY <1>1, FS_Interval
<1>3. header \in Surjection(1 .. n, Ids)
  BY <1>1 DEF Ids, Surjection
<1>4. header \in Injection(1 .. n, Ids)
  BY <1>2, <1>3, FS_Surjection DEF HeaderIsRow, ColumnsNum
<1>5. \A p, q \in 1 .. n : job.header[p] = job.header[q] => p = q
  BY <1>4 DEF Injection, IsInjective
<1>6. ASSUME NEW p \in 1 .. n PROVE Place(job.header[p]) = p
  <2>1. \A i \in DOMAIN job.header :
          (/\ job.header[i] = job.header[p]
           /\ \A j \in 1 .. i - 1 : job.header[j] # job.header[p]) <=> i = p
    BY <1>1, <1>5
  <2> QED BY <1>1, <2>1 DEF Place
<1> QED BY <1>1, <1>6 DEF Ids

(***************************************************************************)
(* model_prediction: what each of its steps has established.                *)
(***************************************************************************)

\* A row is at hand, which has a cell for each column but the last.
AtRow == ppc \in {"fix", "norm", "predict"}
Width == Len(job.header) - 1
SortedNorms == Sorted(job.norms)

\* A result; and the stages of the program.
Outcome == [line : Nat, status : {"ok", "model error", "removed"},
            cells : Seq(Cell), model : Int]
Stages == {"schema", "command", "verify", "open", "load", "read", "fix",
            "norm", "predict", "done"}

\* The types of what model_prediction is made of.
PredTyped ==
  /\ job \in Jobs
  /\ ppc \in Stages
  /\ lineNo \in 0 .. Len(job.lines)
  /\ at \in Nat
  /\ row \in Seq(Cell)
  /\ loaded \in Int
  /\ results \in Seq(Outcome)
  /\ ppc # "done" => outcome = "none"

\* Nothing is loaded or read before the message and the header are known to be
\* good; a line that was read is a row, but for the last one.
Established ==
  /\ ppc \in {"schema", "command", "verify", "open", "load"} =>
       loaded = NoModel /\ lineNo = 0 /\ results = <<>>
  /\ ppc \notin {"schema", "done"} => job.header # <<>>
  /\ ppc \notin {"schema", "command", "done"} => CommandIsGood /\ norms = SortedNorms
  /\ ppc \in {"load", "read", "fix", "norm", "predict"} => HeaderIsRow \/ HeaderIsAll
  /\ ppc # "done" =>
       \A n \in 1 .. lineNo : n \in WholeLines \/ (ppc = "read" /\ Unterminated(n))

\* The value of a cell is the one it should have, or it is still to be fixed:
\* behind the place the search for missing values has come to.
IsFixed(n, p) == p \in Lacking(n) => ColumnFixes(p) # {}
StillLacks(n, p, from) == from = Measured /\ p \in Lacking(n) /\ p >= at

\* The cells of the row at hand.
CellsSoFar ==
  AtRow =>
    /\ lineNo # 0 /\ Width > 0 /\ DOMAIN row = 1 .. Width
    /\ \A n : n = lineNo =>
         /\ ppc = "fix" =>
              \A p \in 1 .. Width :
                \/ IsFixed(n, p) /\ row[p].from = ValueOf(n, p)
                \/ StillLacks(n, p, row[p].from)
         /\ ppc # "fix" =>
              CanBeFixed(n) /\ \A p \in 1 .. Width : row[p].from = ValueOf(n, p)
    /\ ppc = "predict" =>
         \A p \in 1 .. Width : \A seq : row[p].norms = seq => IsNormalized(seq, p)

\* The lines that were dealt with.
Handled == IF AtRow \/ (lineNo # 0 /\ lineNo \notin WholeLines) THEN lineNo - 1 ELSE lineNo

NothingToAnswer == Index \notin Ids \/ Len(job.header) < 2
ResultsSoFar ==
  ppc # "done" =>
    IF NothingToAnswer THEN results = <<>>
    ELSE /\ Len(results) = Handled
         /\ \A n \in DOMAIN results : \A r : results[n] = r => IsResultOf(r, n)

PredInv == PredTyped /\ Established /\ CellsSoFar /\ ResultsSoFar /\ RowsAreAnswered

\* While lines are read, the model in memory is one that was at the path.
Reading == ppc \in {"read", "fix", "norm", "predict"}
HeldSoFar == held \subseteq Files /\ (Reading => ModelIsHeld)

\* What a message and its data file are made of.
LEMMA JobIsTyped ==
  ASSUME job \in Jobs
  PROVE  /\ job.header \in Seq(STRING) /\ job.norms \in Seq([column : STRING, good : BOOLEAN])
         /\ job.fixes \in Seq([column : STRING, missing : BOOLEAN])
         /\ job.lines \in Seq([tokens : Nat, missing : SUBSET Nat])
         /\ job.form \in {"text", "path", "path of 256", "long path"}
BY JobsAssumption DEF JobType

\* What depends on the message and the data file alone stays while they do.
LEMMA JobStays ==
  ASSUME job' = job
  PROVE  /\ Ids' = Ids /\ Width' = Width /\ SortedNorms' = SortedNorms
         /\ WholeLines' = WholeLines /\ LinesAreWhole' = LinesAreWhole
         /\ CommandIsGood' = CommandIsGood /\ HeaderIsRow' = HeaderIsRow
         /\ HeaderIsAll' = HeaderIsAll /\ WritesPastEnd' = WritesPastEnd
         /\ IsRefused' = IsRefused /\ NothingToAnswer' = NothingToAnswer
         /\ \A n : Unterminated(n)' = Unterminated(n)
BY DEF Ids, Width, SortedNorms, Sorted, Place, WholeLines, LinesAreWhole, CommandIsGood,
       HeaderIsRow, HeaderIsAll, WritesPastEnd, IsRefused, NothingToAnswer, Unterminated,
       ColumnsNum, RowLength

\* So does what each cell should be.
LEMMA CellsStay ==
  ASSUME job' = job
  PROVE  /\ \A n : Lacking(n)' = Lacking(n)
         /\ \A p : ColumnFixes(p)' = ColumnFixes(p)
         /\ \A p : ColumnNorms(p)' = ColumnNorms(p)
         /\ \A n : CanBeFixed(n)' = CanBeFixed(n)
         /\ \A n, p : IsFixed(n, p)' = IsFixed(n, p)
         /\ \A n, p : ValueOf(n, p)' = ValueOf(n, p)
         /\ \A seq, p : IsNormalized(seq, p)' = IsNormalized(seq, p)
<1>1. Features' = Features
  BY DEF Features
<1>2. \A n : Lacking(n)' = Lacking(n)
  BY <1>1 DEF Lacking
<1>3. \A p : ColumnFixes(p)' = ColumnFixes(p)
  BY DEF ColumnFixes
<1>4. \A p : ColumnNorms(p)' = ColumnNorms(p)
  BY DEF ColumnNorms
<1>5. \A n : CanBeFixed(n)' = CanBeFixed(n)
  BY <1>2, <1>3 DEF CanBeFixed
<1>6. \A n, p : IsFixed(n, p)' = IsFixed(n, p)
  BY <1>2, <1>3 DEF IsFixed
<1>7. \A n, p : ValueOf(n, p)' = ValueOf(n, p)
  BY DEF ValueOf, Features, Lacking, ColumnFixes
<1>8. \A seq, p : IsNormalized(seq, p)' = IsNormalized(seq, p)
  BY <1>4 DEF IsNormalized
<1> QED BY <1>2, <1>3, <1>4, <1>5, <1>6, <1>7, <1>8

\* And, while the model in memory is the same, what each result should be.
LEMMA ResultsStay ==
  ASSUME job' = job, loaded' = loaded
  PROVE  \A r, n : IsResultOf(r, n)' = IsResultOf(r, n)
<1>1. /\ \A n : CanBeFixed(n)' = CanBeFixed(n)
      /\ \A n, p : ValueOf(n, p)' = ValueOf(n, p)
      /\ \A seq, p : IsNormalized(seq, p)' = IsNormalized(seq, p)
  BY CellsStay
<1>2. ASSUME NEW r, NEW n PROVE IsResultOf(r, n)' = IsResultOf(r, n)
  BY <1>1 DEF IsResultOf
<1> QED BY <1>2

\* What was at the path is held as long as it is not looked for again.
LEMMA HeldStays ==
  ASSUME job' = job, loaded' = loaded, held' = held
  PROVE  (ModelIsHeld' <=> ModelIsHeld) /\ (Unreadable' <=> Unreadable)
<1>1. \A file : Fits(file)' <=> Fits(file)
  BY DEF Fits
<1>2. Unreadable' <=> Unreadable
  BY <1>1 DEF Unreadable
<1> QED BY <1>1, <1>2 DEF ModelIsHeld

\* While nothing was answered there is nothing to be said of the answer; and when

\* the program has ended, only that.
LEMMA WhileRunning ==
  ASSUME outcome' = "none" PROVE RowsAreAnswered'
BY DEF RowsAreAnswered

LEMMA WhenDone ==
  ASSUME PredTyped', ppc' = "done", RowsAreAnswered' PROVE PredInv'
BY DEF PredInv, Established, CellsSoFar, ResultsSoFar, AtRow

LEMMA FailureIsAllowed ==
  ASSUME outcome' = "failed",
         \/ IsRefused' \/ (~sourceThere' /\ lineNo' = 0)
         \/ Unreadable' \/ (job'.model = "other width" /\ lineNo' # 0)
  PROVE  RowsAreAnswered'
BY DEF RowsAreAnswered

\* Up to the first line of data there is nothing to report.
LEMMA NothingReported ==
  ASSUME PredTyped', Established', lineNo' = 0, results' = <<>>, ~AtRow', ppc' # "done"
  PROVE  PredInv'
<1>1. ResultsSoFar' /\ CellsSoFar'
  BY DEF ResultsSoFar, CellsSoFar, Handled, AtRow
<1>2. RowsAreAnswered'
  BY WhileRunning DEF PredTyped
<1> QED BY <1>1, <1>2 DEF PredInv

\* The lines of the data file are rows from which something is read only if the

\* header was one.
LEMMA LineIsOfRows ==
  ASSUME PredTyped, Established, ppc \in {"load", "read", "fix", "norm", "predict"},
         job.lines # <<>>
  PROVE  /\ HeaderIsRow /\ ColumnsNum = Len(job.header) /\ RowLength = Width
         /\ Len(job.header) \in Nat \ {0}
<1>1. HeaderIsRow /\ job.header # <<>>
  BY DEF Established, HeaderIsAll
<1>2. job.header \in Seq(STRING)
  BY JobIsTyped DEF PredTyped
<1> QED BY <1>1, <1>2 DEF HeaderIsRow, RowLength, Width

\* Whatever is at the path, the model it is of is a number.
LEMMA ModelIsNumber ==
  ASSUME modelFile \in Files PROVE modelFile.model \in Int
BY RunsAssumption DEF Files, NoFile, CutFile, WholeFile, Models, NoModel

LEMMA NoneIsGarbled ==
  ASSUME NEW file \in Files PROVE file.model # Garbled
BY RunsAssumption DEF Files, NoFile, CutFile, WholeFile, Models, NoModel, Garbled

\* The steps before the first line: they read the schema and the message, look for

\* the files, and load the model.
LEMMA BeforeReading ==
  ASSUME PredInv, modelFile \in Files, Watch,
         ReadSchema \/ ProcessCommand \/ VerifyPaths \/ OpenSource \/ LoadModel
  PROVE  PredInv'
<1>1. /\ PredTyped /\ Established /\ ppc \in {"schema", "command", "verify", "open", "load"}
      /\ loaded = NoModel /\ lineNo = 0 /\ results = <<>> /\ outcome = "none"
  BY DEF PredInv, PredTyped, Established, ReadSchema, ProcessCommand, VerifyPaths,
         OpenSource, LoadModel
<1>2. /\ job' = job /\ sourceThere' = sourceThere /\ lineNo' = 0 /\ at' = at /\ row' = row
      /\ results' = <<>> /\ results' = results
  BY <1>1 DEF ReadSchema, ProcessCommand, VerifyPaths, OpenSource, LoadModel, rowVars
<1>3. ASSUME loaded' \in Int, ppc' \in Stages, ppc' # "done" => outcome' = "none"
      PROVE  PredTyped'
  BY <1>1, <1>2, <1>3 DEF PredTyped
<1>4. ASSUME PredTyped', Established', ~AtRow', ppc' # "done"
      PROVE  PredInv'
  BY <1>2, <1>4, NothingReported
<1>5. ASSUME loaded' = NoModel, ppc' = "done", outcome' = "failed",
             IsRefused' \/ ~sourceThere' \/ Unreadable'
      PROVE  PredInv'
  <2>1. PredTyped'
    BY <1>3, <1>5 DEF Stages, NoModel
  <2>2. RowsAreAnswered'
    BY <1>2, <1>5, FailureIsAllowed
  <2> QED BY <1>5, <2>1, <2>2, WhenDone
<1> USE DEF End, Goto
<1>6. CASE ReadSchema
  <2>1. CASE ppc' = "done"
    <3>1. job.form = "long path" \/ ~sourceThere \/ job.header = <<>>
      BY <1>6, <2>1 DEF ReadSchema
    <3>2. job.form = "long path" \/ job.header = <<>> => IsRefused
      BY DEF IsRefused
    <3>3. IsRefused' \/ ~sourceThere'
      BY <1>2, <3>1, <3>2, JobStays
    <3> QED BY <1>1, <1>5, <1>6, <2>1, <3>3 DEF ReadSchema
  <2>2. CASE ppc' = "command"
    <3>1. job.header # <<>> /\ loaded' = NoModel /\ outcome' = "none"
      BY <1>1, <1>6, <2>2 DEF ReadSchema
    <3>2. PredTyped'
      BY <1>3, <2>2, <3>1 DEF Stages, NoModel
    <3>3. Established'
      BY <1>2, <2>2, <3>1 DEF Established
    <3> QED BY <1>4, <2>2, <3>2, <3>3 DEF AtRow
  <2> QED BY <1>6, <2>1, <2>2 DEF ReadSchema
<1>7. CASE ProcessCommand
  <2>1. CASE ppc' = "done"
    <3>1. ~CommandIsGood
      BY <1>7, <2>1 DEF ProcessCommand
    <3>2. IsRefused
      <4>1. job.form \in {"text", "path", "path of 256", "long path"}
        BY <1>1, JobIsTyped DEF PredTyped
      <4> QED BY <3>1, <4>1 DEF CommandIsGood, IsRefused
    <3>3. IsRefused'
      BY <1>2, <3>2, JobStays
    <3> QED BY <1>1, <1>5, <1>7, <2>1, <3>3 DEF ProcessCommand
  <2>2. CASE ppc' = "verify"
    <3>1. /\ CommandIsGood /\ norms' = SortedNorms /\ loaded' = NoModel /\ outcome' = "none"
          /\ job.header # <<>>
      BY <1>1, <1>7, <2>2 DEF ProcessCommand, SortedNorms, Established
    <3>2. PredTyped'
      BY <1>3, <2>2, <3>1 DEF Stages, NoModel
    <3>3. CommandIsGood' /\ norms' = SortedNorms'
      BY <1>2, <3>1, JobStays
    <3>4. Established'
      BY <1>2, <2>2, <3>1, <3>3 DEF Established
    <3> QED BY <1>4, <2>2, <3>2, <3>4 DEF AtRow
  <2> QED BY <1>7, <2>1, <2>2 DEF ProcessCommand
<1>8. CASE VerifyPaths
  <2>1. CASE ppc' = "done"
    <3>1. ~sourceThere \/ modelFile = NoFile
      BY <1>8, <2>1 DEF VerifyPaths
    <3>2. ASSUME modelFile = NoFile PROVE Unreadable'
      <4>1. held' = {NoFile} /\ NoFile.state = "none"
        BY <1>8, <3>2 DEF VerifyPaths, Watch, NoFile
      <4> QED BY <4>1 DEF Unreadable, Fits
    <3> QED BY <1>1, <1>2, <1>5, <1>8, <2>1, <3>1, <3>2 DEF VerifyPaths
  <2>2. CASE ppc' = "open"
    <3>1. /\ CommandIsGood /\ norms' = SortedNorms /\ loaded' = NoModel /\ outcome' = "none"
          /\ job.header # <<>>
      BY <1>1, <1>8, <2>2 DEF VerifyPaths, Established
    <3>2. PredTyped'
      BY <1>3, <2>2, <3>1 DEF Stages, NoModel
    <3>3. CommandIsGood' /\ norms' = SortedNorms'
      BY <1>2, <3>1, JobStays
    <3>4. Established'
      BY <1>2, <2>2, <3>1, <3>3 DEF Established
    <3> QED BY <1>4, <2>2, <3>2, <3>4 DEF AtRow
  <2> QED BY <1>8, <2>1, <2>2 DEF VerifyPaths
<1>9. CASE OpenSource
  <2>1. CASE ppc' = "done" /\ outcome' = "failed"
    <3>1. ~sourceThere \/ ~HeaderIsRow
      BY <1>9, <2>1 DEF OpenSource, GotoOrCrash
    <3>2. ~HeaderIsRow => IsRefused
      BY DEF HeaderIsRow, ColumnsNum, IsRefused
    <3>3. IsRefused' \/ ~sourceThere'
      BY <1>2, <3>1, <3>2, JobStays
    <3> QED BY <1>1, <1>5, <1>9, <2>1, <3>3 DEF OpenSource
  <2>2. CASE ppc' = "done" /\ outcome' = "crashed"
    <3>1. WritesPastEnd /\ loaded' = NoModel
      BY <1>1, <1>9, <2>2 DEF OpenSource, GotoOrCrash
    <3>2. PredTyped'
      BY <1>3, <2>2, <3>1 DEF Stages, NoModel
    <3>3. RowsAreAnswered'
      BY <1>2, <2>2, <3>1, JobStays DEF RowsAreAnswered
    <3> QED BY <2>2, <3>2, <3>3, WhenDone
  <2>3. CASE ppc' = "load" /\ outcome' = outcome
    <3>1. /\ CommandIsGood /\ norms' = SortedNorms /\ loaded' = NoModel
          /\ job.header # <<>> /\ (HeaderIsRow \/ HeaderIsAll)
      BY <1>1, <1>9, <2>3 DEF OpenSource, Established, GotoOrCrash
    <3>2. PredTyped'
      BY <1>1, <1>3, <2>3, <3>1 DEF Stages, NoModel
    <3>3. CommandIsGood' /\ norms' = SortedNorms' /\ (HeaderIsRow' \/ HeaderIsAll')
      BY <1>2, <3>1, JobStays
    <3>4. Established'
      BY <1>2, <2>3, <3>1, <3>3 DEF Established
    <3> QED BY <1>4, <2>3, <3>2, <3>4 DEF AtRow
  <2> QED BY <1>9, <2>1, <2>2, <2>3 DEF OpenSource, GotoOrCrash
<1>10. CASE LoadModel
  <2>1. CASE ppc' = "done"
    <3>1. outcome' = "failed" /\ loaded' = NoModel
      BY <1>1, <1>10, <2>1 DEF LoadModel
    <3>2. ~Fits(modelFile) /\ modelFile \in held'
      BY <1>10, <2>1 DEF LoadModel, Fits, Watch
    <3>3. Unreadable'
      BY <1>2, <3>2 DEF Unreadable, Fits
    <3> QED BY <1>5, <2>1, <3>1, <3>3
  <2>2. CASE ppc' = "read"
    <3>1. /\ CommandIsGood /\ norms' = SortedNorms /\ outcome' = "none"
          /\ job.header # <<>> /\ (HeaderIsRow \/ HeaderIsAll)
      BY <1>1, <1>10, <2>2 DEF LoadModel, Established
    <3>2. loaded' \in Int
      <4>1. loaded' \in {NoModel, Garbled, modelFile.model}
        BY <1>10, <2>2 DEF LoadModel
      <4>2. modelFile.model \in Int
        BY ModelIsNumber
      <4> QED BY <4>1, <4>2 DEF NoModel, Garbled
    <3>3. PredTyped'
      BY <1>3, <2>2, <3>1, <3>2 DEF Stages
    <3>4. CommandIsGood' /\ norms' = SortedNorms' /\ (HeaderIsRow' \/ HeaderIsAll')
      BY <1>2, <3>1, JobStays
    <3>5. Established'
      BY <1>2, <2>2, <3>1, <3>4 DEF Established
    <3> QED BY <1>4, <2>2, <3>3, <3>5 DEF AtRow
  <2> QED BY <1>10, <2>1, <2>2 DEF LoadModel
<1> QED BY <1>6, <1>7, <1>8, <1>9, <1>10

\* What holds of the data file at each step behind the loading of the model.
LEMMA WhileReading ==
  ASSUME PredInv, ppc \in {"read", "fix", "norm", "predict"}
  PROVE  /\ PredTyped /\ Established /\ CellsSoFar /\ outcome = "none"
         /\ lineNo \in 0 .. Len(job.lines) /\ Len(job.lines) \in Nat
         /\ DOMAIN job.lines = 1 .. Len(job.lines)
         /\ row \in Seq(Cell) /\ results \in Seq(Outcome)
         /\ job \in Jobs /\ job.header \in Seq(STRING)
         /\ CommandIsGood /\ norms = SortedNorms /\ job.header # <<>>
         /\ (HeaderIsRow \/ HeaderIsAll)
         /\ \A n \in 1 .. lineNo : n \in WholeLines \/ (ppc = "read" /\ Unterminated(n))
         /\ IF NothingToAnswer THEN results = <<>>
            ELSE /\ Len(results) = Handled
                 /\ \A n \in DOMAIN results : \A r : results[n] = r => IsResultOf(r, n)
<1>1. /\ PredTyped /\ Established /\ CellsSoFar /\ outcome = "none"
      /\ lineNo \in 0 .. Len(job.lines) /\ row \in Seq(Cell) /\ results \in Seq(Outcome)
      /\ job \in Jobs
  BY DEF PredInv, PredTyped
<1>2. Len(job.lines) \in Nat /\ DOMAIN job.lines = 1 .. Len(job.lines) /\ job.header \in Seq(STRING)
  <2>1. job.lines \in Seq([tokens : Nat, missing : SUBSET Nat]) /\ job.header \in Seq(STRING)
    BY <1>1, JobIsTyped
  <2> QED BY <2>1
<1>3. /\ CommandIsGood /\ norms = SortedNorms /\ job.header # <<>>
      /\ (HeaderIsRow \/ HeaderIsAll)
      /\ \A n \in 1 .. lineNo : n \in WholeLines \/ (ppc = "read" /\ Unterminated(n))
  BY <1>1 DEF Established
<1>4. IF NothingToAnswer THEN results = <<>>
      ELSE /\ Len(results) = Handled
           /\ \A n \in DOMAIN results : \A r : results[n] = r => IsResultOf(r, n)
  BY DEF PredInv, ResultsSoFar
<1> QED BY <1>1, <1>2, <1>3, <1>4

\* If the program is not to end, its results stay: what was said of them still holds.
LEMMA SameResults ==
  ASSUME PredInv, ppc \in {"read", "fix", "norm", "predict"}, ppc' # "done",
         job' = job, loaded' = loaded, results' = results, Handled' = Handled
  PROVE  ResultsSoFar'
<1>1. NothingToAnswer' = NothingToAnswer /\ \A r, n : IsResultOf(r, n)' = IsResultOf(r, n)
  BY JobStays, ResultsStay
<1>2. IF NothingToAnswer THEN results = <<>>
      ELSE /\ Len(results) = Handled
           /\ \A n \in DOMAIN results : \A r : results[n] = r => IsResultOf(r, n)
  BY WhileReading
<1> QED BY <1>1, <1>2 DEF ResultsSoFar

\* A line that has the width of the header is taken (read, parse_row).
LEMMA ReadRowStep == PredInv /\ ReadRow => PredInv'
<1> SUFFICES ASSUME PredInv, ReadRow PROVE PredInv'
  OBVIOUS
<1>0. PICK n : n = lineNo + 1
  OBVIOUS
<1>1. /\ ppc = "read" /\ lineNo # Len(job.lines) /\ job.lines[n].tokens = ColumnsNum
      /\ lineNo' = n /\ at' = 1 /\ UNCHANGED <<job, sourceThere, norms, loaded, results>>
      /\ row' = [p \in 1 .. RowLength |->
                  [from |-> IF job.header[p] = Index THEN Zero ELSE Measured, norms |-> <<>>]]
  BY <1>0 DEF ReadRow, NoMoreLines, CurrentIsWhole
<1>2. /\ PredTyped /\ Established /\ outcome = "none" /\ lineNo \in 0 .. Len(job.lines)
      /\ Len(job.lines) \in Nat /\ DOMAIN job.lines = 1 .. Len(job.lines)
      /\ job.header \in Seq(STRING) /\ results \in Seq(Outcome) /\ job \in Jobs
      /\ CommandIsGood /\ norms = SortedNorms /\ job.header # <<>>
      /\ \A m \in 1 .. lineNo : m \in WholeLines \/ Unterminated(m)
  BY <1>1, WhileReading
<1>3. n \in 1 .. Len(job.lines) /\ job.lines # <<>>
  BY <1>0, <1>1, <1>2
<1>4. /\ HeaderIsRow /\ ColumnsNum = Len(job.header) /\ RowLength = Width
      /\ Len(job.header) \in Nat \ {0}
  BY <1>1, <1>2, <1>3, LineIsOfRows
<1>5. n \in WholeLines /\ \A m \in 1 .. lineNo : m \in WholeLines
  BY <1>1, <1>2, <1>3, <1>4 DEF WholeLines, Unterminated
<1>6. Width \in Nat /\ DOMAIN row' = 1 .. Width
  BY <1>1, <1>4 DEF Width
<1>7. row' \in Seq(Cell)
  <2>1. \A p \in 1 .. Width :
          [from |-> IF job.header[p] = Index THEN Zero ELSE Measured, norms |-> <<>>] \in Cell
    BY DEF Cell, Zero, Measured
  <2>2. row' \in [1 .. Width -> Cell]
    BY <1>1, <1>4, <2>1
  <2> QED BY <1>6, <2>2
<1>8. ppc' \in Stages /\ (ppc' # "done" => outcome' = "none")
  BY <1>1, <1>2 DEF ReadRow, GotoOrCrash, Goto, End, Stages
<1>9. PredTyped'
  BY <1>1, <1>2, <1>3, <1>7, <1>8 DEF PredTyped
<1>10. CASE ppc' = "done"
  <2>1. outcome' = "crashed" /\ WritesPastEnd
    BY <1>1, <1>10 DEF ReadRow, GotoOrCrash, Goto, End
  <2>2. RowsAreAnswered'
    BY <1>1, <2>1, JobStays DEF RowsAreAnswered
  <2> QED BY <1>9, <1>10, <2>2, WhenDone
<1>11. CASE ppc' # "done"
  <2>1. ppc' = IF Width = 0 THEN "read" ELSE "fix"
    BY <1>1, <1>4, <1>11 DEF ReadRow, GotoOrCrash, Goto, End
  <2>2. Established'
    <3>1. \A m \in 1 .. lineNo' : m \in WholeLines'
      BY <1>0, <1>1, <1>2, <1>5, JobStays
    <3>2. CommandIsGood' /\ norms' = SortedNorms' /\ HeaderIsRow' /\ job'.header # <<>>
      BY <1>1, <1>2, <1>4, JobStays
    <3> QED BY <2>1, <3>1, <3>2 DEF Established
  <2>3. CellsSoFar'
    <3>1. CASE Width = 0
      BY <2>1, <3>1 DEF CellsSoFar, AtRow
    <3>2. CASE Width # 0
      <4>1. ASSUME NEW p \in 1 .. Width
            PROVE  \/ IsFixed(n, p) /\ row'[p].from = ValueOf(n, p)
                   \/ p \in Lacking(n) /\ p >= 1 /\ row'[p].from = Measured
        <5>1. row'[p].from = IF job.header[p] = Index THEN Zero ELSE Measured
          BY <1>1, <1>4
        <5>2. p \in Features <=> job.header[p] # Index
          BY DEF Features, Width
        <5>3. CASE p \in Lacking(n)
          BY <5>1, <5>2, <5>3 DEF Lacking
        <5>4. CASE p \notin Lacking(n)
          BY <5>1, <5>2, <5>4 DEF IsFixed, ValueOf
        <5> QED BY <5>3, <5>4
      <4>2. \A p \in 1 .. Width' :
              \/ IsFixed(n, p)' /\ row'[p].from = ValueOf(n, p)'
              \/ row'[p].from = Measured /\ p \in Lacking(n)' /\ p >= at'
        BY <1>1, <4>1, JobStays, CellsStay
      <4>3. Width' = Width
        BY <1>1, JobStays
      <4> QED BY <1>1, <1>3, <1>6, <2>1, <3>2, <4>2, <4>3 DEF CellsSoFar, AtRow, StillLacks
    <3> QED BY <3>1, <3>2
  <2>4. Handled = lineNo
    BY <1>1, <1>2, <1>5 DEF Handled, AtRow
  <2>5. ResultsSoFar'
    <3>1. CASE Width = 0
      <4>1. NothingToAnswer
        <5> DEFINE w == Len(job.header)
        <5>1. w \in Nat /\ w - 1 = 0
          BY <1>4, <3>1 DEF Width
        <5> HIDE DEF w
        <5>2. w < 2
          BY <5>1
        <5> QED BY <5>2 DEF NothingToAnswer, w
      <4> QED BY <1>1, <4>1, JobStays, WhileReading DEF ResultsSoFar
    <3>2. CASE Width # 0
      <4>1. Handled' = lineNo
        BY <1>0, <1>1, <1>2, <2>1, <3>2 DEF Handled, AtRow
      <4> QED BY <1>1, <1>11, <2>4, <4>1, SameResults
    <3> QED BY <3>1, <3>2
  <2> QED BY <1>8, <1>9, <1>11, <2>2, <2>3, <2>5, WhileRunning DEF PredInv
<1> QED BY <1>10, <1>11

\* A line of another width ends the reading, or is dropped if it is the last one
\* and not ended (read).
LEMMA SpoiltRowStep == PredInv /\ SpoiltRow => PredInv'
<1> SUFFICES ASSUME PredInv, SpoiltRow PROVE PredInv'
  OBVIOUS
<1>0. PICK n : n = lineNo + 1
  OBVIOUS
<1>1. /\ ppc = "read" /\ lineNo # Len(job.lines) /\ job.lines[n].tokens # ColumnsNum
      /\ lineNo' = n /\ UNCHANGED <<job, sourceThere, norms, loaded, results, row, at>>
  BY <1>0 DEF SpoiltRow, NoMoreLines, CurrentIsWhole
<1>2. /\ PredTyped /\ Established /\ outcome = "none" /\ lineNo \in 0 .. Len(job.lines)
      /\ Len(job.lines) \in Nat /\ DOMAIN job.lines = 1 .. Len(job.lines)
      /\ CommandIsGood /\ norms = SortedNorms /\ job.header # <<>>
      /\ \A m \in 1 .. lineNo : m \in WholeLines \/ Unterminated(m)
  BY <1>1, WhileReading
<1>3. n \in 1 .. Len(job.lines) /\ job.lines # <<>>
  BY <1>0, <1>1, <1>2
<1>4. /\ HeaderIsRow /\ ColumnsNum = Len(job.header) /\ RowLength = Width
      /\ Len(job.header) \in Nat \ {0}
  BY <1>1, <1>2, <1>3, LineIsOfRows
<1>5. n \notin WholeLines /\ \A m \in 1 .. lineNo : m \in WholeLines
  BY <1>0, <1>1, <1>2, <1>3, <1>4 DEF WholeLines, Unterminated
<1>6. ppc' \in Stages /\ (ppc' # "done" => outcome' = "none")
  BY <1>1, <1>2 DEF SpoiltRow, Goto, End, Stages
<1>7. PredTyped'
  BY <1>1, <1>2, <1>3, <1>6 DEF PredTyped
<1>8. CASE ppc' = "done"
  <2>1. outcome' = "failed" /\ ~Unterminated(lineNo)'
    BY <1>1, <1>8 DEF SpoiltRow, Goto, End, Unterminated
  <2>2. ~LinesAreWhole
    BY <1>1, <1>2, <1>3, <1>5, <2>1 DEF LinesAreWhole, Unterminated
  <2>3. IsRefused'
    BY <1>1, <2>2, JobStays DEF IsRefused
  <2> QED BY <1>7, <1>8, <2>1, <2>3, WhenDone, FailureIsAllowed
<1>9. CASE ppc' # "done"
  <2>1. ppc' = "read" /\ Unterminated(n)
    BY <1>1, <1>9 DEF SpoiltRow, Goto, End, Unterminated
  <2>2. Established'
    <3>1. \A m \in 1 .. lineNo' : m \in WholeLines' \/ Unterminated(m)'
      BY <1>0, <1>1, <1>2, <1>5, <2>1, JobStays
    <3>2. CommandIsGood' /\ norms' = SortedNorms' /\ HeaderIsRow' /\ job'.header # <<>>
      BY <1>1, <1>2, <1>4, JobStays
    <3> QED BY <2>1, <3>1, <3>2 DEF Established
  <2>3. CellsSoFar'
    BY <2>1 DEF CellsSoFar, AtRow
  <2>4. Handled = lineNo
    BY <1>1, <1>2, <1>5 DEF Handled, AtRow
  <2>5. Handled' = lineNo
    <3>1. n \notin WholeLines' /\ n # 0 /\ n - 1 = lineNo
      BY <1>0, <1>1, <1>2, <1>5, JobStays
    <3> QED BY <1>1, <3>1 DEF Handled
  <2>6. ResultsSoFar'
    BY <1>1, <1>9, <2>4, <2>5, SameResults
  <2> QED BY <1>6, <1>7, <1>9, <2>2, <2>3, <2>6, WhileRunning DEF PredInv
<1> QED BY <1>8, <1>9

\* At the end of the file everything was answered (read_row::operator()).
LEMMA EndOfFileStep == PredInv /\ HeldSoFar /\ Watch /\ EndOfFile => PredInv'
<1> SUFFICES ASSUME PredInv, HeldSoFar, Watch, EndOfFile PROVE PredInv'
  OBVIOUS
<1>1. /\ ppc = "read" /\ lineNo = Len(job.lines) /\ ppc' = "done" /\ outcome' = "answered"
      /\ UNCHANGED <<job, sourceThere, norms, loaded, lineNo, row, at, results>>
  BY DEF EndOfFile, NoMoreLines, End, rowVars
<1>2. /\ PredTyped /\ lineNo \in 0 .. Len(job.lines)
      /\ Len(job.lines) \in Nat /\ DOMAIN job.lines = 1 .. Len(job.lines)
      /\ \A m \in 1 .. lineNo : m \in WholeLines \/ Unterminated(m)
      /\ IF NothingToAnswer THEN results = <<>>
         ELSE /\ Len(results) = Handled
              /\ \A n \in DOMAIN results : \A r : results[n] = r => IsResultOf(r, n)
  BY <1>1, WhileReading
<1>3. PredTyped'
  BY <1>1, <1>2 DEF PredTyped, Stages
<1>0. ModelIsHeld'
  <2>1. held' = held /\ ModelIsHeld
    BY <1>1 DEF Watch, HeldSoFar, Reading
  <2> QED BY <1>1, <2>1, HeldStays
<1>4. CASE NothingToAnswer
  <2>1. results' = <<>> /\ NothingToAnswer'
    BY <1>1, <1>2, <1>4, JobStays
  <2> QED BY <1>0, <1>1, <1>3, <2>1, WhenDone DEF RowsAreAnswered, NothingToAnswer
<1>5. CASE ~NothingToAnswer
  <2>1. LinesAreWhole
    BY <1>1, <1>2 DEF LinesAreWhole, Unterminated
  <2>2. WholeLines = 1 .. Handled /\ Handled \in Nat
    <3>1. WholeLines \subseteq 1 .. lineNo /\ \A m \in 1 .. lineNo - 1 : m \in WholeLines
      BY <1>1, <1>2 DEF WholeLines, Unterminated
    <3>2. CASE lineNo = 0 \/ lineNo \in WholeLines
      <4>1. Handled = lineNo
        BY <1>1, <3>2 DEF Handled, AtRow
      <4>2. 1 .. lineNo \subseteq WholeLines
        BY <1>2, <3>1, <3>2
      <4>3. WholeLines = 1 .. lineNo
        BY <3>1, <4>2
      <4>4. lineNo \in Nat
        BY <1>2
      <4> QED BY <4>1, <4>3, <4>4
    <3>3. CASE lineNo # 0 /\ lineNo \notin WholeLines
      <4>1. Handled = lineNo - 1
        BY <1>1, <3>3 DEF Handled, AtRow
      <4>2. lineNo - 1 \in Nat /\ 1 .. lineNo = (1 .. lineNo - 1) \cup {lineNo}
        BY <1>2, <3>3
      <4>3. WholeLines \subseteq 1 .. lineNo - 1
        BY <3>1, <3>3, <4>2
      <4> QED BY <3>1, <4>1, <4>2, <4>3
    <3> QED BY <3>2, <3>3
  <2>3. Len(results) = Cardinality(WholeLines)
    <3>1. Cardinality(1 .. Handled) = Handled
      BY <2>2, FS_Interval
    <3> QED BY <1>2, <1>5, <2>2, <3>1
  <2>4. \A n \in DOMAIN results : IsResultOf(results[n], n)
    BY <1>2, <1>5
  <2>5. /\ LinesAreWhole' /\ ~NothingToAnswer' /\ Len(results') = Cardinality(WholeLines')
    BY <1>1, <1>5, <2>1, <2>3, JobStays
  <2>6. \A n \in DOMAIN results' : \A r : results'[n] = r => IsResultOf(r, n)'
    BY <1>1, <1>2, <1>5, ResultsStay
  <2>7. (\A n \in DOMAIN results : IsResultOf(results[n], n))'
    BY <2>6 DEF IsResultOf, IsNormalized
  <2>8. RowsAreAnswered'
    BY <1>0, <1>1, <2>5, <2>7 DEF RowsAreAnswered, NothingToAnswer
  <2> QED BY <1>1, <1>3, <2>8, WhenDone
<1> QED BY <1>4, <1>5

\* A set of numbers that has one has a least one.
LEMMA LeastOf ==
  ASSUME NEW S, S \subseteq Nat, S # {}
  PROVE  LET m == CHOOSE p \in S : \A q \in S : p <= q
         IN  m \in S /\ \A q \in S : m <= q
<1>1. PICK p \in S : \A q \in S : <<q, p>> \notin OpToRel(<, Nat)
  BY NatLessThanWellFounded, WFMin
<1>2. ASSUME NEW q \in S PROVE p <= q
  <2>1. ~(q < p)
    BY <1>1 DEF OpToRel
  <2> QED BY <2>1
<1> QED BY <1>2

\* The row at hand is that of the last line that was read, and has a cell for each

\* column but the last.
LEMMA RowAtHand ==
  ASSUME PredInv, AtRow
  PROVE  /\ lineNo \in 1 .. Len(job.lines) /\ Len(job.lines) \in Nat /\ lineNo \in WholeLines
         /\ Len(job.header) \in Nat /\ Width \in Nat /\ Width > 0
         /\ HeaderIsRow /\ RowLength = Width /\ DOMAIN row = 1 .. Width
         /\ Handled = lineNo - 1
         /\ ppc \in {"read", "fix", "norm", "predict"} /\ ppc # "read" /\ ppc # "done"
<1>1. ppc \in {"read", "fix", "norm", "predict"} /\ ppc # "read" /\ ppc # "done"
  BY DEF AtRow
<1>2. /\ PredTyped /\ Established /\ CellsSoFar
      /\ lineNo \in 0 .. Len(job.lines) /\ Len(job.lines) \in Nat
      /\ DOMAIN job.lines = 1 .. Len(job.lines)
      /\ \A n \in 1 .. lineNo : n \in WholeLines \/ (ppc = "read" /\ Unterminated(n))
  BY <1>1, WhileReading
<1>3. lineNo # 0 /\ Width > 0 /\ DOMAIN row = 1 .. Width
  BY <1>2 DEF CellsSoFar
<1>4. lineNo \in 1 .. Len(job.lines) /\ lineNo \in WholeLines
  BY <1>1, <1>2, <1>3
<1>5. HeaderIsRow /\ RowLength = Width /\ Len(job.header) \in Nat \ {0}
  <2>1. job.lines # <<>>
    BY <1>2, <1>4
  <2> QED BY <1>1, <1>2, <2>1, LineIsOfRows
<1>6. Handled = lineNo - 1
  BY DEF Handled
<1>7. Width \in Nat
  <2> DEFINE w == Len(job.header)
  <2>1. w \in Nat \ {0}
    BY <1>5
  <2> HIDE DEF w
  <2>2. w - 1 \in Nat
    BY <2>1
  <2> QED BY <2>2 DEF Width, w
<1> QED BY <1>1, <1>2, <1>3, <1>4, <1>5, <1>6, <1>7

\* An entry of the message is for a place if it names the column that is there

\* (match_column, schema_mapper).
LEMMA EntriesByPlace ==
  ASSUME PredInv, AtRow, NEW p \in 1 .. Width
  PROVE  /\ FixesOf(p) = ColumnFixes(p) /\ ColumnFixes(p) \subseteq Nat
         /\ {k \in DOMAIN job.norms : Place(job.norms[k].column) = p} = ColumnNorms(p)
<1>1. /\ HeaderIsRow /\ Len(job.header) \in Nat /\ p \in 1 .. Len(job.header)
      /\ job \in Jobs /\ job.header \in Seq(STRING) /\ CommandIsGood
  <2>1. p \in 1 .. Len(job.header)
    BY RowAtHand DEF Width
  <2> QED BY <2>1, RowAtHand, WhileReading
<1>2. \A id \in Ids : Place(id) = p <=> id = job.header[p]
  BY <1>1, PlacesOfIds
<1>3. /\ \A k \in DOMAIN job.fixes : job.fixes[k].column \in Ids
      /\ \A k \in DOMAIN job.norms : job.norms[k].column \in Ids
  BY <1>1 DEF CommandIsGood
<1>4. FixesOf(p) = ColumnFixes(p)
  BY <1>2, <1>3 DEF FixesOf, ColumnFixes
<1>5. {k \in DOMAIN job.norms : Place(job.norms[k].column) = p} = ColumnNorms(p)
  BY <1>2, <1>3 DEF ColumnNorms
<1>6. ColumnFixes(p) \subseteq Nat
  <2>1. job.fixes \in Seq([column : STRING, missing : BOOLEAN])
    BY <1>1, JobIsTyped
  <2>2. DOMAIN job.fixes \subseteq Nat
    BY <2>1
  <2> QED BY <2>2 DEF ColumnFixes
<1> QED BY <1>4, <1>5, <1>6

\* What the search for missing values finds are cells that lack a value and were

\* not fixed; and it finds all that are still to be fixed (fix_missing_vals::find).
LEMMA SearchIsExact ==
  ASSUME PredInv, ppc = "fix", NEW p \in 1 .. Width, NEW n, n = lineNo
  PROVE  /\ p \in MissingFrom => p \in Lacking(n)
         /\ StillLacks(n, p, row[p].from) => p \in MissingFrom
         /\ p \notin MissingFrom => IsFixed(n, p) /\ row[p].from = ValueOf(n, p)
<1>1. AtRow
  BY DEF AtRow
<1>2. /\ p \in DOMAIN row
      /\ \/ IsFixed(n, p) /\ row[p].from = ValueOf(n, p)
         \/ StillLacks(n, p, row[p].from)
  BY <1>1, WhileReading, RowAtHand DEF CellsSoFar
<1>3. Lacking(n) \subseteq job.lines[n].missing /\ Lacking(n) \subseteq Features
  BY DEF Lacking
<1>4. ASSUME p \in MissingFrom PROVE p \in Lacking(n)
  <2> SUFFICES ASSUME p \notin Lacking(n) PROVE FALSE
    OBVIOUS
  <2>1. row[p].from = IF p \in Features THEN Measured ELSE Zero
    BY <1>2 DEF StillLacks, ValueOf
  <2>2. row[p].from = Measured /\ p \in job.lines[n].missing
    BY <1>4, <2>1 DEF MissingFrom, IsMissing, Measured, Zero
  <2>3. p \in Features
    BY <2>1, <2>2 DEF Measured, Zero
  <2> QED BY <2>2, <2>3 DEF Lacking
<1>5. ASSUME StillLacks(n, p, row[p].from) PROVE p \in MissingFrom
  BY <1>2, <1>3, <1>5 DEF StillLacks, MissingFrom, IsMissing, Measured
<1> QED BY <1>2, <1>4, <1>5

\* The first of them.
LEMMA FirstIsLacking ==
  ASSUME PredInv, ppc = "fix", MissingFrom # {}, NEW n, n = lineNo
  PROVE  /\ FirstMissing \in 1 .. Width /\ FirstMissing \in Lacking(n)
         /\ \A q \in MissingFrom : FirstMissing <= q
<1>1. AtRow
  BY DEF AtRow
<1>2. MissingFrom \subseteq 1 .. Width
  BY <1>1, RowAtHand DEF MissingFrom
<1>3. MissingFrom \subseteq Nat
  BY <1>2
<1>4. FirstMissing \in MissingFrom /\ \A q \in MissingFrom : FirstMissing <= q
  BY <1>3, LeastOf DEF FirstMissing
<1> QED BY <1>2, <1>4, SearchIsExact

\* A step that goes on with the row at hand has only to leave its cells right.
LEMMA SameRow ==
  ASSUME PredInv, AtRow, job' = job, sourceThere' = sourceThere, norms' = norms,
         loaded' = loaded, lineNo' = lineNo, results' = results,
         AtRow', outcome' = "none", row' \in Seq(Cell), at' \in Nat, CellsSoFar'
  PROVE  PredInv'
<1>1. /\ PredTyped /\ Established /\ CommandIsGood /\ norms = SortedNorms
      /\ job.header # <<>> /\ HeaderIsRow
      /\ \A m \in 1 .. lineNo : m \in WholeLines
  BY RowAtHand, WhileReading
<1>2. ppc' \in Stages /\ ppc' # "done" /\ ppc' \in {"fix", "norm", "predict"}
  BY DEF AtRow, Stages
<1>3. PredTyped'
  BY <1>1, <1>2 DEF PredTyped
<1>4. Established'
  <2>1. \A m \in 1 .. lineNo' : m \in WholeLines'
    BY <1>1, JobStays
  <2>2. CommandIsGood' /\ norms' = SortedNorms' /\ HeaderIsRow' /\ job'.header # <<>>
    BY <1>1, JobStays
  <2> QED BY <1>2, <2>1, <2>2 DEF Established
<1>5. ResultsSoFar'
  <2>1. Handled' = lineNo - 1
    BY DEF Handled
  <2> QED BY <1>2, <2>1, RowAtHand, SameResults
<1> QED BY <1>3, <1>4, <1>5, WhileRunning DEF PredInv

\* A missing value is replaced by the first fix for its column; what is still to be

\* fixed is behind it (fix_missing_vals::operator()).
LEMMA FixCellStep == PredInv /\ FixCell => PredInv'
<1> SUFFICES ASSUME PredInv, FixCell PROVE PredInv'
  OBVIOUS
<1>0. PICK n : n = lineNo
  OBVIOUS
<1> DEFINE fm == FirstMissing
           fix == FirstFix(fm)
<1>1. /\ ppc = "fix" /\ MissingFrom # {} /\ FixesOf(fm) # {} /\ at' = fm
      /\ row' = [row EXCEPT ![fm].from = fix]
      /\ UNCHANGED <<job, sourceThere, ppc, norms, loaded, lineNo, results, outcome>>
  BY DEF FixCell
<1>2. AtRow /\ AtRow' /\ outcome' = "none" /\ row \in Seq(Cell)
  BY <1>1, WhileReading DEF AtRow
<1>3. fm \in 1 .. Width /\ fm \in Lacking(n) /\ \A q \in MissingFrom : fm <= q
  BY <1>0, <1>1, FirstIsLacking
<1>4. DOMAIN row = 1 .. Width /\ Width \in Nat /\ Width > 0 /\ lineNo # 0
  BY <1>2, RowAtHand
<1>5. FixesOf(fm) = ColumnFixes(fm) /\ ColumnFixes(fm) \subseteq Nat
  BY <1>2, <1>3, EntriesByPlace
<1>6. fix \in Nat
  BY <1>1, <1>5, LeastOf DEF FirstFix
<1>7. fix = ValueOf(n, fm) /\ IsFixed(n, fm)
  BY <1>1, <1>3, <1>5 DEF FirstFix, ValueOf, IsFixed, Lacking
<1> HIDE DEF fm, fix
<1>8. /\ DOMAIN row' = 1 .. Width /\ row'[fm].from = fix
      /\ \A p \in 1 .. Width : p # fm => row'[p].from = row[p].from
  <2>1. row[fm] \in Cell
    BY <1>2, <1>3, <1>4
  <2> QED BY <1>1, <1>3, <1>4, <2>1 DEF Cell
<1>9. row' \in Seq(Cell)
  <2>1. [row[fm] EXCEPT !.from = fix] \in Cell
    <3>1. row[fm] \in Cell
      BY <1>2, <1>3, <1>4
    <3> QED BY <1>6, <3>1 DEF Cell
  <2>2. row' = [row EXCEPT ![fm] = [row[fm] EXCEPT !.from = fix]]
    BY <1>1
  <2> QED BY <1>2, <1>3, <1>4, <2>1, <2>2
<1>10. ASSUME NEW p \in 1 .. Width
       PROVE  \/ IsFixed(n, p) /\ row'[p].from = ValueOf(n, p)
              \/ p \in Lacking(n) /\ p >= fm /\ row'[p].from = Measured
  <2>1. CASE p = fm
    BY <1>7, <1>8, <2>1
  <2>2. CASE p # fm
    <3>1. row'[p].from = row[p].from
      BY <1>8, <2>2
    <3>2. CASE p \in MissingFrom
      <4>1. p \in Lacking(n) /\ p >= fm
        BY <1>0, <1>1, <1>3, <3>2, SearchIsExact
      <4>2. \/ IsFixed(n, p) /\ row[p].from = ValueOf(n, p)
            \/ row[p].from = Measured
        BY <1>0, <1>1, <1>2, WhileReading DEF CellsSoFar, StillLacks
      <4> QED BY <3>1, <4>1, <4>2
    <3>3. CASE p \notin MissingFrom
      BY <1>0, <1>1, <3>1, <3>3, SearchIsExact
    <3> QED BY <3>2, <3>3
  <2> QED BY <2>1, <2>2
<1>11. CellsSoFar'
  <2>1. \A p \in 1 .. Width' :
          \/ IsFixed(n, p)' /\ row'[p].from = ValueOf(n, p)'
          \/ row'[p].from = Measured /\ p \in Lacking(n)' /\ p >= at'
    BY <1>1, <1>10, JobStays, CellsStay
  <2>2. Width' = Width
    BY <1>1, JobStays
  <2> QED BY <1>0, <1>1, <1>4, <1>8, <2>1, <2>2 DEF CellsSoFar, StillLacks
<1>12. at' \in Nat
  BY <1>1, <1>3
<1> QED BY <1>1, <1>2, <1>9, <1>11, <1>12, SameRow

\* When the search finds nothing more each cell has its value.
LEMMA RowIsFixedStep == PredInv /\ RowIsFixed => PredInv'
<1> SUFFICES ASSUME PredInv, RowIsFixed PROVE PredInv'
  OBVIOUS
<1>0. PICK n : n = lineNo
  OBVIOUS
<1>1. /\ ppc = "fix" /\ MissingFrom = {} /\ ppc' = "norm" /\ outcome' = outcome
      /\ UNCHANGED <<job, sourceThere, norms, loaded, lineNo, row, at, results>>
  BY DEF RowIsFixed, Goto, rowVars
<1>2. AtRow /\ AtRow' /\ outcome' = "none" /\ row' \in Seq(Cell) /\ at' \in Nat
  BY <1>1, WhileReading DEF AtRow, PredTyped
<1>3. DOMAIN row = 1 .. Width /\ Width \in Nat /\ Width > 0 /\ lineNo # 0
  BY <1>2, RowAtHand
<1>4. \A p \in 1 .. Width : IsFixed(n, p) /\ row[p].from = ValueOf(n, p)
  BY <1>0, <1>1, SearchIsExact
<1>5. CanBeFixed(n)
  <2>1. Lacking(n) \subseteq 1 .. Width
    BY DEF Lacking, Features, Width
  <2> QED BY <1>4, <2>1 DEF CanBeFixed, IsFixed
<1>6. CellsSoFar'
  <2>1. CanBeFixed(n)' /\ \A p \in 1 .. Width' : row'[p].from = ValueOf(n, p)'
    BY <1>1, <1>4, <1>5, JobStays, CellsStay
  <2>2. Width' = Width
    BY <1>1, JobStays
  <2> QED BY <1>0, <1>1, <1>3, <2>1, <2>2 DEF CellsSoFar
<1> QED BY <1>1, <1>2, <1>6, SameRow

\* The result a row is given: results get it behind those of the lines before it,
\* if there is an index column (prediction_output).
ResultOf(status, model) == [line |-> lineNo, status |-> status, cells |-> row, model |-> model]
IsAnswer(status, model) ==
  /\ ResultOf(status, model) \in Outcome
  /\ \A r, n : r = ResultOf(status, model) /\ n = lineNo => IsResultOf(r, n)

LEMMA RowIsAnswered ==
  ASSUME PredInv, AtRow, job' = job, sourceThere' = sourceThere, norms' = norms,
         loaded' = loaded, lineNo' = lineNo, row' = row, at' = at,
         ppc' = "read", outcome' = "none",
         NEW status, NEW model, IsAnswer(status, model), Deliver(status, model)
  PROVE  PredInv'
<1>0. PICK n : n = lineNo
  OBVIOUS
<1>1. /\ PredTyped /\ Established /\ CommandIsGood /\ norms = SortedNorms
      /\ job.header # <<>> /\ HeaderIsRow /\ row \in Seq(Cell) /\ results \in Seq(Outcome)
      /\ \A m \in 1 .. lineNo : m \in WholeLines
  BY RowAtHand, WhileReading
<1>2. /\ n \in WholeLines /\ n \in Nat /\ n # 0 /\ Handled = n - 1 /\ Len(job.header) >= 2
  <2> DEFINE w == Len(job.header)
  <2>1. w \in Nat /\ w - 1 > 0
    BY RowAtHand DEF Width
  <2> HIDE DEF w
  <2>2. w >= 2
    BY <2>1
  <2> QED BY <1>0, <2>2, RowAtHand DEF w
<1>3. PICK res : res = ResultOf(status, model)
  OBVIOUS
<1>4. res \in Outcome /\ IsResultOf(res, n)
  BY <1>0, <1>3 DEF IsAnswer
<1>5. results' = IF Index \in Ids THEN Append(results, res) ELSE results
  BY <1>3 DEF Deliver, Numbered, ResultOf
<1>6. PredTyped'
  <2>1. results' \in Seq(Outcome)
    BY <1>1, <1>4, <1>5
  <2> QED BY <1>1, <2>1 DEF PredTyped, Stages
<1>7. Established'
  <2>1. \A m \in 1 .. lineNo' : m \in WholeLines'
    BY <1>1, JobStays
  <2>2. CommandIsGood' /\ norms' = SortedNorms' /\ HeaderIsRow' /\ job'.header # <<>>
    BY <1>1, JobStays
  <2> QED BY <2>1, <2>2 DEF Established
<1>8. CellsSoFar'
  BY DEF CellsSoFar, AtRow
<1>9. Handled' = n
  <2>1. n \in WholeLines'
    BY <1>2, JobStays
  <2> QED BY <1>0, <2>1 DEF Handled, AtRow
<1>10. NothingToAnswer <=> Index \notin Ids
  <2> DEFINE w == Len(job.header)
  <2>1. w \in Nat /\ w >= 2
    BY <1>2, RowAtHand
  <2> HIDE DEF w
  <2>2. ~(w < 2)
    BY <2>1
  <2> QED BY <2>2 DEF NothingToAnswer, w
<1>11. IF NothingToAnswer THEN results = <<>>
       ELSE /\ Len(results) = n - 1
            /\ \A m \in DOMAIN results : \A r : results[m] = r => IsResultOf(r, m)
  BY <1>2, WhileReading, RowAtHand
<1>12. ResultsSoFar'
  <2>1. CASE NothingToAnswer
    <3>1. results' = <<>> /\ NothingToAnswer'
      BY <1>5, <1>10, <1>11, <2>1, JobStays
    <3> QED BY <3>1 DEF ResultsSoFar
  <2>2. CASE ~NothingToAnswer
    <3>1. results' = Append(results, res) /\ ~NothingToAnswer'
      BY <1>5, <1>10, <2>2, JobStays
    <3>2. /\ Len(results') = n /\ results'[n] = res /\ DOMAIN results' = 1 .. n
          /\ DOMAIN results = 1 .. n - 1
          /\ \A m \in 1 .. n - 1 : results'[m] = results[m]
      BY <1>1, <1>2, <1>4, <1>11, <2>2, <3>1
    <3>4. \A m \in DOMAIN results' : \A r : results'[m] = r => IsResultOf(r, m)
      <4> SUFFICES ASSUME NEW m \in 1 .. n, NEW r, results'[m] = r
                   PROVE  IsResultOf(r, m)
        BY <3>2
      <4>1. CASE m = n
        BY <1>4, <3>2, <4>1
      <4>2. CASE m # n
        <5>1. m \in 1 .. n - 1
          BY <1>2, <4>2
        <5> QED BY <1>11, <2>2, <3>2, <5>1
      <4> QED BY <4>1, <4>2
    <3>5. \A m \in DOMAIN results' : \A r : results'[m] = r => IsResultOf(r, m)'
      BY <3>4, ResultsStay
    <3> QED BY <1>9, <3>1, <3>2, <3>5 DEF ResultsSoFar
  <2> QED BY <2>1, <2>2
<1> QED BY <1>6, <1>7, <1>8, <1>12, WhileRunning DEF PredInv

\* A row with a value that nothing replaces is reported as removed

\* (verify_fix).
LEMMA RemoveRowStep == PredInv /\ RemoveRow => PredInv'
<1> SUFFICES ASSUME PredInv, RemoveRow PROVE PredInv'
  OBVIOUS
<1>1. /\ ppc = "fix" /\ MissingFrom # {} /\ FixesOf(FirstMissing) = {}
      /\ ppc' = "read" /\ outcome' = outcome /\ Deliver("removed", NoModel)
      /\ UNCHANGED <<job, sourceThere, norms, loaded, lineNo, row, at>>
  BY DEF RemoveRow, Goto
<1>2. AtRow /\ outcome' = "none"
  BY <1>1, WhileReading DEF AtRow
<1>3. \A r, n : r = ResultOf("removed", NoModel) /\ n = lineNo => IsResultOf(r, n)
  <2> SUFFICES ASSUME NEW r, NEW n, r = ResultOf("removed", NoModel), n = lineNo
               PROVE  IsResultOf(r, n)
    OBVIOUS
  <2>1. FirstMissing \in 1 .. Width /\ FirstMissing \in Lacking(n)
    BY <1>1, FirstIsLacking
  <2>2. ColumnFixes(FirstMissing) = {}
    BY <1>1, <1>2, <2>1, EntriesByPlace
  <2>3. ~CanBeFixed(n)
    BY <2>1, <2>2 DEF CanBeFixed
  <2> QED BY <2>3 DEF IsResultOf, ResultOf
<1>4. ResultOf("removed", NoModel) \in Outcome
  <2>1. row \in Seq(Cell) /\ lineNo \in Nat
    BY <1>1, WhileReading
  <2> QED BY <2>1 DEF ResultOf, Outcome, NoModel
<1> QED BY <1>1, <1>2, <1>3, <1>4, RowIsAnswered DEF IsAnswer

\* The model is asked for a row whose cells are as the message says; what it throws

\* passes to main (apply_model, predicate).
LEMMA PredictRowStep == PredInv /\ HeldSoFar /\ Watch /\ PredictRow => PredInv'
<1> SUFFICES ASSUME PredInv, HeldSoFar, Watch, PredictRow PROVE PredInv'
  OBVIOUS
<1>1. /\ ppc = "predict"
      /\ UNCHANGED <<job, sourceThere, norms, loaded, lineNo, row, at>>
  BY DEF PredictRow
<1>2. /\ AtRow /\ outcome = "none" /\ PredTyped /\ CellsSoFar /\ lineNo \in Nat
      /\ row \in Seq(Cell) /\ results \in Seq(Outcome)
  BY <1>1, WhileReading DEF AtRow
<1>3. CASE ppc' = "read"
  <2>1. outcome' = "none"
    BY <1>2, <1>3 DEF PredictRow, Goto, End
  <2>2. PICK status \in {"ok", "model error"} :
          Deliver(status, loaded) /\ (loaded = NoModel => status = "model error")
    BY <1>3 DEF PredictRow, Goto, End
  <2>3. \A r, n : r = ResultOf(status, loaded) /\ n = lineNo => IsResultOf(r, n)
    <3> SUFFICES ASSUME NEW r, NEW n, r = ResultOf(status, loaded), n = lineNo
                 PROVE  IsResultOf(r, n)
      OBVIOUS
    <3>1. /\ DOMAIN row = 1 .. Width /\ CanBeFixed(n)
          /\ \A p \in 1 .. Width : row[p].from = ValueOf(n, p)
          /\ \A p \in 1 .. Width : \A seq : row[p].norms = seq => IsNormalized(seq, p)
      BY <1>1, <1>2 DEF CellsSoFar
    <3>2. r.line = n /\ r.status = status /\ r.cells = row /\ r.model = loaded
      BY DEF ResultOf
    <3> QED BY <2>2, <3>1, <3>2 DEF IsResultOf, Width
  <2>4. ResultOf(status, loaded) \in Outcome
    <3>1. loaded \in Int /\ lineNo \in Nat
      BY <1>2 DEF PredTyped
    <3> QED BY <1>2, <2>2, <3>1 DEF ResultOf, Outcome
  <2> QED BY <1>1, <1>2, <1>3, <2>1, <2>2, <2>3, <2>4, RowIsAnswered DEF IsAnswer
<1>4. CASE ppc' # "read"
  <2>1. /\ ppc' = "done" /\ outcome' = "failed" /\ results' = results
        /\ loaded = Garbled \/ job.model = "other width"
    BY <1>4 DEF PredictRow, Goto, End
  <2>2. PredTyped'
    BY <1>1, <1>2, <2>1 DEF PredTyped, Stages
  <2>3. Unreadable' \/ (job'.model = "other width" /\ lineNo' # 0)
    <3>1. held' = held /\ ModelIsHeld /\ held \subseteq Files
      BY <1>1 DEF Watch, HeldSoFar, Reading
    <3>2. lineNo # 0
      BY <1>2 DEF CellsSoFar
    <3>3. loaded = Garbled => Unreadable
      <4>1. \A file \in held : file.model # Garbled
        BY <3>1, NoneIsGarbled
      <4> QED BY <3>1, <4>1 DEF ModelIsHeld, Garbled, NoModel
    <3>4. Unreadable' <=> Unreadable
      BY <1>1, <3>1, HeldStays
    <3> QED BY <1>1, <2>1, <3>2, <3>3, <3>4
  <2> QED BY <2>1, <2>2, <2>3, WhenDone, FailureIsAllowed
<1> QED BY <1>3, <1>4

\* The entries of the message as they are applied to a cell: each for its column

\* once, in the order of the message.
LEMMA CellIsNormalized ==
  ASSUME PredInv, AtRow, NEW p \in 1 .. Width, NEW seq, Applied(p) = seq
  PROVE  IsNormalized(seq, p) /\ seq \in Seq(Nat)
<1> DEFINE k == Len(job.norms)
<1>1. /\ norms = Sorted(job.norms) /\ CommandIsGood /\ HeaderIsRow
      /\ job.norms \in Seq([column : STRING, good : BOOLEAN]) /\ job.header \in Seq(STRING)
  BY RowAtHand, WhileReading, JobIsTyped DEF SortedNorms
<1>2. k \in Nat /\ DOMAIN job.norms = 1 .. k
  BY <1>1
<1>3. \A i \in 1 .. k : job.norms[i].column \in Ids
  BY <1>1, <1>2 DEF CommandIsGood
<1>4. \A i \in 1 .. k : PlaceOf(job.norms, i) \in Nat
  <2>1. \A id \in Ids : Place(id) \in 1 .. Len(job.header)
    BY <1>1, PlacesOfIds
  <2>2. \A id \in Ids : Place(id) \in Nat
    BY <2>1
  <2> QED BY <1>3, <2>2 DEF PlaceOf
<1> HIDE DEF k
<1>5. /\ DOMAIN norms = 1 .. k
      /\ \A r \in 1 .. k : norms[r] \in 1 .. k
      /\ \A i \in 1 .. k : \E r \in 1 .. k : norms[r] = i
      /\ \A r, q \in 1 .. k : r < q => Before(job.norms, norms[r], norms[q])
  BY <1>1, <1>2, <1>4, SortedByPlace
<1>6. norms \in Seq(Nat) /\ Len(norms) = k
  <2>1. norms = [r \in 1 .. k |-> norms[r]]
    BY <1>1, <1>2, <1>5 DEF Sorted
  <2>2. norms \in [1 .. k -> Nat]
    BY <1>5, <2>1
  <2> QED BY <1>2, <1>5, <2>2
<1>7. \A r \in 1 .. k : NormPlace(norms[r]) = PlaceOf(job.norms, norms[r])
  BY DEF NormPlace, PlaceOf
<1>8. \A r, q \in 1 .. Len(norms) :
        r < q /\ NormPlace(norms[r]) = p /\ NormPlace(norms[q]) = p => norms[r] < norms[q]
  BY <1>4, <1>5, <1>6, <1>7 DEF Before
<1>9. Collects(seq, k, p)
  BY <1>6, <1>8, AppliedInOrder
<1>10. seq \in Seq(Nat)
  BY <1>9 DEF Collects
<1>11. {i \in 1 .. k : NormPlace(i) = p} = ColumnNorms(p)
  BY <1>2, EntriesByPlace DEF NormPlace
<1>12. {seq[i] : i \in DOMAIN seq} = ColumnNorms(p)
  <2>1. \A i \in DOMAIN seq : seq[i] \in {j \in 1 .. k : NormPlace(j) = p}
    BY <1>5, <1>9 DEF Collects
  <2>2. \A j \in 1 .. k : NormPlace(j) = p => \E i \in DOMAIN seq : seq[i] = j
    BY <1>5, <1>9 DEF Collects
  <2> QED BY <1>11, <2>1, <2>2
<1> QED BY <1>9, <1>10, <1>12 DEF IsNormalized, Collects

\* Then each cell is normalized; an entry with bad statistics, or one for a column

\* the row does not have, ends the program (normalized_data::operator()).
LEMMA NormalizeRowStep == PredInv /\ NormalizeRow => PredInv'
<1> SUFFICES ASSUME PredInv, NormalizeRow PROVE PredInv'
  OBVIOUS
<1>0. PICK n : n = lineNo
  OBVIOUS
<1>1. /\ ppc = "norm" /\ row' = [p \in DOMAIN row |-> [row[p] EXCEPT !.norms = Applied(p)]]
      /\ UNCHANGED <<job, sourceThere, norms, loaded, lineNo, at, results>>
  BY DEF NormalizeRow
<1>2. /\ AtRow /\ outcome = "none" /\ PredTyped /\ CellsSoFar /\ row \in Seq(Cell)
      /\ CommandIsGood /\ norms = SortedNorms /\ job.header \in Seq(STRING)
      /\ job.norms \in Seq([column : STRING, good : BOOLEAN])
  BY <1>1, WhileReading, JobIsTyped DEF AtRow
<1>3. /\ DOMAIN row = 1 .. Width /\ Width \in Nat /\ Width > 0 /\ lineNo # 0
      /\ HeaderIsRow /\ RowLength = Width
  BY <1>2, RowAtHand
<1>4. \A p \in 1 .. Width : row[p] \in Cell
  BY <1>2, <1>3
<1>5. /\ DOMAIN row' = 1 .. Width
      /\ \A p \in 1 .. Width : row'[p] = [row[p] EXCEPT !.norms = Applied(p)]
  BY <1>1, <1>3
<1>6. \A p \in 1 .. Width :
        row'[p] \in Cell /\ row'[p].from = row[p].from /\ row'[p].norms = Applied(p)
  <2> SUFFICES ASSUME NEW p \in 1 .. Width
               PROVE  row'[p] \in Cell /\ row'[p].from = row[p].from
                      /\ row'[p].norms = Applied(p)
    OBVIOUS
  <2>1. PICK seq : seq = Applied(p)
    OBVIOUS
  <2>2. seq \in Seq(Nat)
    BY <1>2, <2>1, CellIsNormalized
  <2>3. row'[p] = [row[p] EXCEPT !.norms = seq]
    BY <1>5, <2>1
  <2> QED BY <1>4, <2>1, <2>2, <2>3 DEF Cell
<1>7. row' \in Seq(Cell)
  <2>1. row' \in [1 .. Width -> Cell]
    BY <1>1, <1>3, <1>6
  <2> QED BY <1>3, <2>1
<1>8. CASE ppc' = "predict"
  <2>1. AtRow' /\ outcome' = "none" /\ at' \in Nat
    BY <1>1, <1>2, <1>8 DEF AtRow, NormalizeRow, GotoOrCrash, Goto, End, PredTyped
  <2>2. CanBeFixed(n) /\ \A p \in 1 .. Width : row'[p].from = ValueOf(n, p)
    BY <1>0, <1>1, <1>2, <1>6 DEF CellsSoFar
  <2>3. \A p \in 1 .. Width : \A seq : row'[p].norms = seq => IsNormalized(seq, p)
    BY <1>2, <1>6, CellIsNormalized
  <2>4. /\ CanBeFixed(n)' /\ \A p \in 1 .. Width' : row'[p].from = ValueOf(n, p)'
        /\ \A p \in 1 .. Width' : \A seq : row'[p].norms = seq => IsNormalized(seq, p)'
    BY <1>1, <2>2, <2>3, JobStays, CellsStay
  <2>5. Width' = Width
    BY <1>1, JobStays
  <2>6. CellsSoFar'
    BY <1>0, <1>1, <1>3, <1>5, <1>8, <2>4, <2>5 DEF CellsSoFar
  <2> QED BY <1>1, <1>2, <1>7, <2>1, <2>6, SameRow
<1>9. CASE ppc' # "predict"
  <2>1. ppc' = "done" /\ outcome' \in {"failed", "crashed"}
    BY <1>9 DEF NormalizeRow, GotoOrCrash, Goto, End
  <2>2. PredTyped'
    BY <1>1, <1>2, <1>7, <2>1 DEF PredTyped, Stages
  <2>3. DOMAIN norms = DOMAIN job.norms /\ \A i \in DOMAIN norms : norms[i] \in DOMAIN job.norms
    <3>1. DOMAIN job.norms = 1 .. Len(job.norms) /\ Len(job.norms) \in Nat
      BY <1>2
    <3>2. \A i \in 1 .. Len(job.norms) : PlaceOf(job.norms, i) \in Nat
      <4>1. \A id \in Ids : Place(id) \in 1 .. Len(job.header)
        BY <1>2, <1>3, PlacesOfIds
      <4>2. \A id \in Ids : Place(id) \in Nat
        BY <4>1
      <4> QED BY <1>2, <3>1, <4>2 DEF PlaceOf, CommandIsGood
    <3> QED BY <1>2, <3>1, <3>2, SortedByPlace DEF SortedNorms
  <2>4. CASE outcome' = "failed"
    <3>1. ~NormsAreGood
      BY <1>9, <2>4 DEF NormalizeRow, GotoOrCrash, Goto, End
    <3>2. IsRefused
      BY <2>3, <3>1 DEF NormsAreGood, IsRefused
    <3>3. IsRefused'
      BY <1>1, <3>2, JobStays
    <3> QED BY <2>1, <2>2, <2>4, <3>3, WhenDone, FailureIsAllowed
  <2>5. CASE outcome' = "crashed"
    <3>1. PICK i \in DOMAIN norms : NormPlace(norms[i]) > Len(row)
      BY <1>9, <2>5 DEF NormalizeRow, GotoOrCrash, Goto, End
    <3>2. PICK j \in DOMAIN job.norms : j = norms[i]
      BY <2>3, <3>1
    <3>3. Place(job.norms[j].column) > RowLength
      <4>1. Len(row) = Width
        BY <1>2, <1>3
      <4> QED BY <1>3, <3>1, <3>2, <4>1 DEF NormPlace
    <3>4. job.norms[j].column \in Ids
      BY <1>2 DEF CommandIsGood
    <3>5. WritesPastEnd \/ \E m \in DOMAIN job.norms : job.norms[m].column = Index
      BY <3>3, <3>4 DEF WritesPastEnd
    <3>6. WritesPastEnd' \/ \E m \in DOMAIN job'.norms : job'.norms[m].column = Index
      BY <1>1, <3>5, JobStays
    <3>7. RowsAreAnswered'
      BY <2>5, <3>6 DEF RowsAreAnswered
    <3> QED BY <2>1, <2>2, <3>7, WhenDone
  <2> QED BY <2>1, <2>4, <2>5
<1> QED BY <1>8, <1>9

\* The data file may vanish, or nothing happen at all.
LEMMA NothingHappens ==
  ASSUME PredInv, Watch \/ UNCHANGED held,
         UNCHANGED <<job, ppc, norms, loaded, rowVars, outcome>>,
         sourceThere' = sourceThere \/ ~sourceThere'
  PROVE  PredInv'
<1>1. UNCHANGED <<job, ppc, norms, loaded, lineNo, row, at, results, outcome>>
  BY DEF rowVars
<1>2. /\ PredTyped /\ Established /\ CellsSoFar /\ ResultsSoFar /\ RowsAreAnswered
  BY DEF PredInv
<1>3. PredTyped'
  BY <1>1, <1>2 DEF PredTyped
<1>4. Established'
  BY <1>1, <1>2, JobStays DEF Established
<1>5. CellsSoFar'
  BY <1>1, <1>2, JobStays, CellsStay DEF CellsSoFar, StillLacks, AtRow
<1>6. Handled' = Handled
  BY <1>1, JobStays DEF Handled, AtRow
<1>7. ResultsSoFar'
  BY <1>1, <1>2, <1>6, JobStays, ResultsStay DEF ResultsSoFar
<1>8. RowsAreAnswered'
  <2>0. outcome # "none" =>
          (ModelIsHeld' <=> ModelIsHeld) /\ (Unreadable' <=> Unreadable)
    <3>1. outcome # "none" => held' = held
      BY <1>2 DEF PredTyped, Watch
    <3> QED BY <1>1, <3>1, HeldStays
  <2>1. CASE outcome = "answered" /\ NothingToAnswer
    <3>0. ModelIsHeld'
      BY <1>2, <2>0, <2>1 DEF RowsAreAnswered
    <3>1. results' = <<>> /\ NothingToAnswer' /\ outcome' = "answered"
      BY <1>1, <1>2, <2>1, JobStays DEF RowsAreAnswered, NothingToAnswer
    <3> QED BY <3>0, <3>1 DEF RowsAreAnswered, NothingToAnswer
  <2>2. CASE outcome = "answered" /\ ~NothingToAnswer
    <3>0. ModelIsHeld'
      BY <1>2, <2>0, <2>2 DEF RowsAreAnswered
    <3>1. /\ LinesAreWhole /\ Len(results) = Cardinality(WholeLines)
          /\ \A n \in DOMAIN results : \A r : results[n] = r => IsResultOf(r, n)
      BY <1>2, <2>2 DEF RowsAreAnswered, NothingToAnswer
    <3>2. /\ LinesAreWhole' /\ Len(results') = Cardinality(WholeLines')
          /\ ~NothingToAnswer' /\ outcome' = "answered"
      BY <1>1, <2>2, <3>1, JobStays
    <3>3. \A n \in DOMAIN results' : \A r : results'[n] = r => IsResultOf(r, n)'
      BY <1>1, <3>1, ResultsStay
    <3>4. (\A n \in DOMAIN results : IsResultOf(results[n], n))'
      BY <3>3 DEF IsResultOf, IsNormalized
    <3> QED BY <3>0, <3>2, <3>4 DEF RowsAreAnswered, NothingToAnswer
  <2>3. CASE outcome = "failed"
    <3>1. \/ IsRefused \/ (~sourceThere /\ lineNo = 0)
          \/ Unreadable \/ (job.model = "other width" /\ lineNo # 0)
      BY <1>2, <2>3 DEF RowsAreAnswered
    <3>2. \/ IsRefused' \/ (~sourceThere' /\ lineNo' = 0)
          \/ Unreadable' \/ (job'.model = "other width" /\ lineNo' # 0)
      BY <1>1, <2>0, <2>3, <3>1, JobStays
    <3> QED BY <1>1, <2>3, <3>2, FailureIsAllowed
  <2>4. CASE outcome = "crashed"
    <3>1. WritesPastEnd \/ \E i \in DOMAIN job.norms : job.norms[i].column = Index
      BY <1>2, <2>4 DEF RowsAreAnswered
    <3>2. WritesPastEnd' \/ \E i \in DOMAIN job'.norms : job'.norms[i].column = Index
      BY <1>1, <3>1, JobStays
    <3>3. outcome' = "crashed"
      BY <1>1, <2>4
    <3> QED BY <3>2, <3>3 DEF RowsAreAnswered
  <2>5. CASE outcome \notin {"answered", "failed", "crashed"}
    <3>1. outcome' \notin {"answered", "failed", "crashed"}
      BY <1>1, <2>5
    <3> QED BY <3>1 DEF RowsAreAnswered
  <2> QED BY <2>1, <2>2, <2>3, <2>4, <2>5
<1> QED BY <1>3, <1>4, <1>5, <1>7, <1>8 DEF PredInv

\* Every step of model_prediction keeps the invariant, and so does whatever

\* else happens.
LEMMA PredInvIsKept ==
  ASSUME PredInv, HeldSoFar, modelFile \in Files, [Next]_vars PROVE PredInv'
<1>1. CASE Predict
  <2>0. Watch
    BY <1>1 DEF Predict
  <2>1. CASE ReadSchema \/ ProcessCommand \/ VerifyPaths \/ OpenSource \/ LoadModel
    BY <2>0, <2>1, BeforeReading
  <2>2. CASE ReadRow
    BY <2>2, ReadRowStep
  <2>3. CASE SpoiltRow
    BY <2>3, SpoiltRowStep
  <2>4. CASE EndOfFile
    BY <2>0, <2>4, EndOfFileStep
  <2>5. CASE FixCell
    BY <2>5, FixCellStep
  <2>6. CASE RemoveRow
    BY <2>6, RemoveRowStep
  <2>7. CASE RowIsFixed
    BY <2>7, RowIsFixedStep
  <2>8. CASE NormalizeRow
    BY <2>8, NormalizeRowStep
  <2>9. CASE PredictRow
    BY <2>0, <2>9, PredictRowStep
  <2>10. CASE SourceVanishes
    BY <2>0, <2>10, NothingHappens DEF SourceVanishes
  <2> QED BY <1>1, <2>1, <2>2, <2>3, <2>4, <2>5, <2>6, <2>7, <2>8, <2>9, <2>10
          DEF Predict, PredNext, PredSteps
<1>2. CASE UNCHANGED predVars /\ (Watch \/ UNCHANGED held)
  BY <1>2, NothingHappens DEF predVars
<1> QED BY <1>1, <1>2 DEF Next, Generate, Finished, vars

\* The model is loaded from what is at the path then; no other step changes it, and
\* what was there is forgotten only where the path is looked for (loading_model).
LEMMA HeldIsKept ==
  ASSUME HeldSoFar, modelFile \in Files, [Next]_vars PROVE HeldSoFar'
<1>1. CASE UNCHANGED vars
  <2>1. UNCHANGED <<job, loaded, held, ppc>>
    BY <1>1 DEF vars, predVars
  <2> QED BY <2>1, HeldStays DEF HeldSoFar, Reading
<1>2. CASE Generate \/ Predict
  <2>1. Watch
    BY <1>2 DEF Generate, Predict
  <2>2. held' \subseteq Files
    BY <2>1 DEF Watch, HeldSoFar
  <2>3. CASE LoadModel /\ ppc' = "read"
    <3>1. job' = job /\ modelFile \in held'
      BY <2>1, <2>3 DEF LoadModel, Watch
    <3>2. \/ job.model = "bare path" /\ loaded' = NoModel
          \/ Fits(modelFile) /\ loaded' = modelFile.model
          \/ ~Fits(modelFile) /\ loaded' \in {NoModel, Garbled}
      BY <2>3 DEF LoadModel, Fits, End
    <3>3. ModelIsHeld'
      BY <3>1, <3>2 DEF ModelIsHeld, Unreadable, Fits
    <3> QED BY <2>2, <3>3 DEF HeldSoFar
  <2>4. CASE ~Reading'
    BY <2>2, <2>4 DEF HeldSoFar
  <2>5. CASE UNCHANGED <<job, loaded>> /\ Reading /\ Reading'
    <3>1. held' = held
      BY <2>1, <2>5 DEF Watch, Reading
    <3> QED BY <2>2, <2>5, <3>1, HeldStays DEF HeldSoFar
  <2>6. ~Reading' \/ (LoadModel /\ ppc' = "read") \/ (UNCHANGED <<job, loaded>> /\ Reading)
    <3>1. CASE Generate \/ SourceVanishes
      BY <3>1 DEF Generate, predVars, SourceVanishes, Reading
    <3>2. CASE ReadSchema \/ ProcessCommand \/ VerifyPaths \/ OpenSource \/ LoadModel
      BY <3>2 DEF ReadSchema, ProcessCommand, VerifyPaths, OpenSource, LoadModel, GotoOrCrash,
                  Goto, End, Reading
    <3>3. CASE \/ ReadRow \/ SpoiltRow \/ EndOfFile \/ FixCell \/ RemoveRow \/ RowIsFixed
               \/ NormalizeRow \/ PredictRow
      BY <3>3 DEF ReadRow, SpoiltRow, EndOfFile, FixCell, RemoveRow, RowIsFixed, NormalizeRow,
                  PredictRow, Reading
    <3> QED BY <1>2, <3>1, <3>2, <3>3 DEF Predict, PredNext, PredSteps
  <2> QED BY <2>3, <2>4, <2>5, <2>6
<1> QED BY <1>1, <1>2 DEF Next, Finished

\* It holds when model_prediction is started.
LEMMA PredInvAtFirst == PredInit => PredInv
<1> SUFFICES ASSUME PredInit PROVE PredInv
  OBVIOUS
<1>1. /\ job \in Jobs /\ ppc = "schema" /\ norms = <<>> /\ loaded = NoModel /\ lineNo = 0
      /\ row = <<>> /\ at = 0 /\ results = <<>> /\ outcome = "none"
  BY DEF PredInit
<1>2. PredTyped
  <2>1. Len(job.lines) \in Nat
    <3>1. job.lines \in Seq([tokens : Nat, missing : SUBSET Nat])
      BY <1>1, JobIsTyped
    <3> QED BY <3>1
  <2> QED BY <1>1, <2>1 DEF PredTyped, Stages, NoModel
<1>3. Established /\ CellsSoFar
  BY <1>1 DEF Established, CellsSoFar, AtRow
<1>4. ResultsSoFar
  BY <1>1 DEF ResultsSoFar, Handled, AtRow
<1>5. RowsAreAnswered
  BY <1>1 DEF RowsAreAnswered
<1> QED BY <1>2, <1>3, <1>4, <1>5 DEF PredInv

\* What model_prediction has established at each of its steps, in every reachable
\* state.
THEOREM PredictionInvariance == Spec => [](PredInv /\ HeldSoFar)
<1>1. Init => PredInv /\ HeldSoFar
  BY PredInvAtFirst DEF Init, PredInit, HeldSoFar, Reading
<1>2. IInv /\ PredInv /\ HeldSoFar /\ [Next]_vars => PredInv' /\ HeldSoFar'
  BY PredInvIsKept, HeldIsKept DEF IInv, Typed
<1>3. QED
  BY <1>1, <1>2, FileInvariance, PTL DEF Spec

\* model_prediction reports one result for each row of its data file, in their order,
\* each for the values the message asks for and of one model that was at the path as a
\* whole between its being looked for and its being loaded; and it fails or crashes only
\* for a reason in its message, its data or what was at the paths: for any message, any
\* fixes and normalizations, data of any length, and whatever is done to the two files.
THEOREM EveryRowIsAnswered == Spec => []RowsAreAnswered
<1>1. PredInv => RowsAreAnswered
  BY DEF PredInv
<1>2. QED
  BY <1>1, PredictionInvariance, PTL
=============================================================================
