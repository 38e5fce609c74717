---------------------------- MODULE DuplicateScan ----------------------------
(***************************************************************************)
(* What detect_duplicates does to one column: a first pass over its file    *)
(* reports the rows whose rounded value another row has (filter.dup), a     *)
(* second pass collects the remaining values, Grubbs' test picks outliers   *)
(* from them by value, and every picked value is mapped back to a row       *)
(* (outlier.find).  Each pass is a stream: an entry is seen once.           *)
(*                                                                          *)
(* An entry of a column file is a value and its row number; the row number  *)
(* is taken to be the position of the entry.                                *)
(***************************************************************************)
EXTENDS Integers, Sequences

CONSTANTS
  Values,      \* the values entries may have
  Missing,     \* the value that stands for "no value" (the largest double)
  Round,       \* what round_by makes of a value at the resolution asked for
  MaxRows      \* bound on the length of a file

ASSUME MissingAssumption == Missing \notin Values
ASSUME RoundAssumption   == Round \in [Values -> Values]
ASSUME MaxRowsAssumption == MaxRows \in Nat

VARIABLES
  file,        \* the values of the column, by row
  policy,      \* keep the "first" or the "last" row of a value; "none": only
               \* outliers were asked for
  phase,       \* what is done with the column now
  pos,         \* entries read in this pass
  lookup,      \* duplication_base::lookup, as the rows of its entries
  dups,        \* rows reported as duplications
  missings,    \* rows reported as missing
  legal,       \* outliers_detector::legal_input, as the rows of its entries
  unseen,      \* outliers_detector::missings
  sample,      \* rows whose values are still in the input of Grubbs' test
  picked,      \* the values the test has picked, in order
  matched,     \* how many of them were mapped back to a row
  offset,      \* where the search for a value's next row starts in legal
  outliers     \* rows reported as outliers

vars == <<file, policy, phase, pos, lookup, dups, missings, legal, unseen,
          sample, picked, matched, offset, outliers>>

scanVars    == <<lookup, dups, missings>>
detectVars  == <<legal, unseen>>
outlierVars == <<sample, picked, matched, offset, outliers>>

Policies == {"first", "last", "none"}

Elements(seq) == {seq[i] : i \in DOMAIN seq}

\* The rounded value by which the entries of lookup are ordered.
Key(r) == Round[file[r]]

-----------------------------------------------------------------------------
Init ==
  /\ file \in UNION {[1 .. n -> Values \cup {Missing}] : n \in 0 .. MaxRows}
  /\ policy \in Policies
  /\ phase = IF policy = "none" THEN "collect" ELSE "scan"
  /\ pos = 0
  /\ lookup = {}
  /\ dups = <<>>
  /\ missings = <<>>
  /\ legal = <<>>
  /\ unseen = <<>>
  /\ sample = {}
  /\ picked = <<>>
  /\ matched = 0
  /\ offset = [v \in Values |-> 0]
  /\ outliers = <<>>

(***************************************************************************)
(* The first pass: duplication_action::apply_action on every entry.         *)
(***************************************************************************)

\* Mutant: the entry of the other row stays, as std::set::insert would have it.
KeepLastByInsert(r, same) ==
  /\ lookup' = IF same = {} THEN lookup \cup {r} ELSE lookup
  /\ dups' = IF same = {} THEN dups ELSE Append(dups, CHOOSE q \in same : TRUE)

\* duplication_first: an insertion into the set that fails is a duplication.
KeepFirst(r, same) ==
  IF same = {}
  THEN lookup' = lookup \cup {r} /\ UNCHANGED dups
  ELSE dups' = Append(dups, r) /\ UNCHANGED lookup

\* duplication_last: the entry of the earlier row is erased and reported.
KeepLast(r, same) ==
  /\ lookup' = (lookup \ same) \cup {r}
  /\ dups' = IF same = {} THEN dups ELSE Append(dups, CHOOSE q \in same : TRUE)

\* A missing value is set aside before it is rounded.
ScanEntry ==
  LET r == pos + 1
      same == {q \in lookup : Key(q) = Key(r)}
  IN  /\ phase = "scan"
      /\ pos < Len(file)
      /\ pos' = r
      /\ IF file[r] = Missing
         THEN missings' = Append(missings, r) /\ UNCHANGED <<lookup, dups>>
         ELSE /\ IF policy = "first" THEN KeepFirst(r, same) ELSE KeepLast(r, same)
              /\ UNCHANGED missings
      /\ UNCHANGED <<file, policy, phase, detectVars, outlierVars>>

\* The report of the duplications is the input of the second pass.
EndScan ==
  /\ phase = "scan"
  /\ pos = Len(file)
  /\ phase' = "collect"
  /\ pos' = 0
  /\ UNCHANGED <<file, policy, scanVars, detectVars, outlierVars>>

(***************************************************************************)
(* The second pass: outliers_detector::apply_action on every entry.         *)
(***************************************************************************)

\* Mutant: missing values go into the sample.
CollectMissingToo ==
  LET r == pos + 1
  IN  /\ phase = "collect"
      /\ pos < Len(file)
      /\ pos' = r
      /\ legal' = IF r \in Elements(dups) THEN legal ELSE Append(legal, r)
      /\ UNCHANGED <<file, policy, phase, unseen, scanVars, outlierVars>>

\* A missing value is only counted, a duplication is ignored.
CollectEntry ==
  LET r == pos + 1
  IN  /\ phase = "collect"
      /\ pos < Len(file)
      /\ pos' = r
      /\ unseen' = IF file[r] = Missing THEN Append(unseen, r) ELSE unseen
      /\ legal' = IF file[r] = Missing \/ r \in Elements(dups)
                  THEN legal ELSE Append(legal, r)
      /\ UNCHANGED <<file, policy, phase, scanVars, outlierVars>>

EndCollect ==
  /\ phase = "collect"
  /\ pos = Len(file)
  /\ phase' = "test"
  /\ sample' = Elements(legal)
  /\ UNCHANGED <<file, policy, pos, scanVars, detectVars, picked, matched,
                 offset, outliers>>

(***************************************************************************)
(* grubbstest: which value is the most extreme and whether it is extreme    *)
(* enough is left open.                                                     *)
(***************************************************************************)

\* Mutant: the value that was picked stays in the sample.
PickAgain ==
  /\ phase = "test"
  /\ Len(picked) <= MaxRows
  /\ \E r \in sample : picked' = Append(picked, file[r])
  /\ UNCHANGED <<file, policy, phase, pos, scanVars, detectVars, sample,
                 matched, offset, outliers>>

\* find_outlier takes one entry with the value out of its input.
PickOutlier ==
  /\ phase = "test"
  /\ \E r \in sample : picked' = Append(picked, file[r]) /\ sample' = sample \ {r}
  /\ UNCHANGED <<file, policy, phase, pos, scanVars, detectVars, matched, offset,
                 outliers>>

NoMoreOutliers ==
  /\ phase = "test"
  /\ phase' = "match"
  /\ UNCHANGED <<file, policy, pos, scanVars, detectVars, outlierVars>>

(***************************************************************************)
(* outliers_detector::finding: picked values become rows again.             *)
(***************************************************************************)

\* The places in legal, from the value's offset on, that hold the value.
Places(v) == {i \in offset[v] + 1 .. Len(legal) : file[legal[i]] = v}

First(places) == CHOOSE i \in places : \A j \in places : i <= j

\* Mutant: every search starts at the beginning.
MatchFromStart ==
  LET v == picked[matched + 1]
      places == {i \in DOMAIN legal : file[legal[i]] = v}
  IN  /\ phase = "match"
      /\ matched < Len(picked)
      /\ matched' = matched + 1
      /\ outliers' = Append(outliers, legal[First(places)])
      /\ UNCHANGED <<file, policy, phase, pos, scanVars, detectVars, sample,
                     picked, offset>>

MatchOutlier ==
  LET v == picked[matched + 1]
      places == Places(v)
  IN  /\ phase = "match"
      /\ matched < Len(picked)
      /\ matched' = matched + 1
      /\ IF places = {}
         THEN UNCHANGED <<outliers, offset>>
         ELSE /\ outliers' = Append(outliers, legal[First(places)])
              /\ offset' = [offset EXCEPT ![v] = First(places)]
      /\ UNCHANGED <<file, policy, phase, pos, scanVars, detectVars, sample,
                     picked>>

\* Mutant: both passes report what is missing.
FinishWithBoth ==
  /\ phase = "match"
  /\ matched = Len(picked)
  /\ phase' = "done"
  /\ missings' = missings \o unseen
  /\ UNCHANGED <<file, policy, pos, lookup, dups, detectVars, outlierVars>>

\* The missing rows are taken from the second pass if the first had none.
Finish ==
  /\ phase = "match"
  /\ matched = Len(picked)
  /\ phase' = "done"
  /\ missings' = IF missings = <<>> THEN unseen ELSE missings
  /\ UNCHANGED <<file, policy, pos, lookup, dups, detectVars, outlierVars>>

\* The report of the column is complete.
Reported == phase = "done" /\ UNCHANGED vars

Next ==
  \/ ScanEntry \/ EndScan
  \/ CollectEntry \/ EndCollect
  \/ PickOutlier \/ NoMoreOutliers
  \/ MatchOutlier \/ Finish
  \/ Reported

Spec == Init /\ [][Next]_vars
-----------------------------------------------------------------------------
(***************************************************************************)
(* Properties.                                                              *)
(***************************************************************************)

Rows == 1 .. MaxRows

\* Every variable has the type its C++ counterpart has.
TypeOK ==
  /\ file \in Seq(Values \cup {Missing}) /\ Len(file) <= MaxRows
  /\ policy \in Policies
  /\ phase \in {"scan", "collect", "test", "match", "done"}
  /\ pos \in 0 .. Len(file)
  /\ lookup \subseteq 1 .. Len(file)
  /\ dups \in Seq(Rows) /\ missings \in Seq(Rows)
  /\ legal \in Seq(Rows) /\ unseen \in Seq(Rows)
  /\ sample \subseteq Rows
  /\ picked \in Seq(Values)
  /\ matched \in 0 .. Len(picked)
  /\ offset \in [Values -> 0 .. Len(legal)]
  /\ outliers \in Seq(Rows)

Present(r) == file[r] # Missing
SameKey(q, r) == Present(q) /\ Present(r) /\ Key(q) = Key(r)

\* The rows filter.dup is to report among the first n, looked up in the whole
\* column instead of a stream.
Duplications(n) ==
  CASE policy = "first" -> {r \in 1 .. n : \E q \in 1 .. r - 1 : SameKey(q, r)}
    [] policy = "last"  -> {r \in 1 .. n : \E q \in r + 1 .. n : SameKey(q, r)}
    [] policy = "none"  -> {}

\* However rows of equal values alternate with others, the stream reports just
\* the rows that a search of the whole column would: for each rounded value
\* exactly the first, or the last, row is not reported.
DuplicationsAreExact ==
  Elements(dups) = Duplications(IF phase = "scan" THEN pos ELSE Len(file))

\* Why it is exact: after every entry lookup has, of the rows read so far, the one
\* of each rounded value that is not to be reported.
LookupIsExact ==
  phase = "scan" =>
    /\ policy # "none"
    /\ lookup = {r \in 1 .. pos : Present(r)} \ Duplications(pos)

\* Only rows that have a value are tested.
SampleIsPresent ==
  /\ \A i \in DOMAIN legal : legal[i] \in 1 .. Len(file) /\ Present(legal[i])
  /\ \A r \in sample : r \in 1 .. Len(file) /\ Present(r)

\* No row is reported twice or under two headings: duplications, missing values
\* and outliers are different rows.
HeadingsAreDisjoint ==
  /\ \A seq \in {dups, missings, outliers} :
       \A i, j \in DOMAIN seq : i # j => seq[i] # seq[j]
  /\ Elements(dups) \cap Elements(missings) = {}
  /\ Elements(outliers) \cap (Elements(dups) \cup Elements(missings)) = {}

\* Every outlier Grubbs' test picked is found again in a row with its value,
\* although only values were passed to the test: the search that comes up empty
\* is never taken.
OutliersAreFound ==
  phase \in {"match", "done"} =>
    /\ Len(outliers) = matched
    /\ \A i \in DOMAIN outliers : file[outliers[i]] = picked[i]

\* Whichever pass counts them, each missing value is in the finished report once.
MissingsAreExact ==
  phase = "done" =>
    /\ Elements(missings) = {r \in 1 .. Len(file) : file[r] = Missing}
    /\ \A i, j \in DOMAIN missings : i # j => missings[i] # missings[j]
=============================================================================
