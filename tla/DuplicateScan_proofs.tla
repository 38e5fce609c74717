------------------------ MODULE DuplicateScan_proofs ------------------------
(***************************************************************************)
(* Proofs about DuplicateScan, for files of any length, any values and any  *)
(* rounding: the types; that the streaming pass reports exactly the         *)
(* duplications of the whole column; that the rows without a value are      *)
(* reported, each once; that no row is reported twice; and that every value *)
(* the test picks is found in a row.                                        *)
(***************************************************************************)
EXTENDS DuplicateScan, FiniteSetTheorems, WellFoundedInduction, TLAPS

\* The first of some places is one of them, and the least.
LEMMA FirstIsPlace ==
  ASSUME NEW n \in Nat, NEW places \in SUBSET (1 .. n), places # {}
  PROVE  First(places) \in places /\ \A i \in places : First(places) <= i
<1>0. places \subseteq Nat
  OBVIOUS
<1>1. PICK i \in places : \A j \in places : <<j, i>> \notin OpToRel(<, Nat)
  BY <1>0, NatLessThanWellFounded, WFMin
<1>2. \A j \in places : i <= j
  <2> SUFFICES ASSUME NEW j \in places, j < i PROVE FALSE
    OBVIOUS
  <2>1. <<j, i>> \in OpToRel(<, Nat)
    BY DEF OpToRel
  <2> QED BY <1>1, <2>1
<1> QED BY <1>2 DEF First

(***************************************************************************)
(* Types.                                                                   *)
(***************************************************************************)

Typed == TypeOK /\ SampleIsPresent

LEMMA TypedInit == Init => Typed
<1> SUFFICES ASSUME Init PROVE Typed
  OBVIOUS
<1>1. PICK n \in 0 .. MaxRows : file \in [1 .. n -> Values \cup {Missing}]
  BY DEF Init
<1>2. file \in Seq(Values \cup {Missing}) /\ Len(file) = n
  BY <1>1, MaxRowsAssumption
<1>3. Len(file) <= MaxRows /\ Len(file) \in Nat
  BY <1>1, <1>2, MaxRowsAssumption
<1>4. offset \in [Values -> 0 .. Len(legal)]
  BY DEF Init
<1> QED BY <1>2, <1>3, <1>4 DEF Init, Typed, TypeOK, SampleIsPresent

LEMMA TypedStep == Typed /\ [Next]_vars => Typed'
<1> SUFFICES ASSUME Typed, [Next]_vars PROVE Typed'
  OBVIOUS
<1> USE MaxRowsAssumption DEF Typed, TypeOK, SampleIsPresent, Rows, Present
<1>0. Len(file) \in Nat /\ \A r \in 1 .. Len(file) : r \in Rows
  OBVIOUS
<1>1. CASE ScanEntry
  <2> DEFINE r == pos + 1
             same == {q \in lookup : Key(q) = Key(r)}
  <2>1. r \in 1 .. Len(file) /\ r \in Rows
    BY <1>1 DEF ScanEntry
  <2>2. same # {} => (CHOOSE q \in same : TRUE) \in same
    OBVIOUS
  <2>3. same # {} => (CHOOSE q \in same : TRUE) \in Rows
    BY <2>2, <1>0
  <2> HIDE DEF same
  <2>4. same \subseteq lookup
    BY DEF same
  <2> DEFINE other == CHOOSE q \in same : TRUE
  <2> HIDE DEF other
  <2>5. same # {} => other \in Rows
    BY <2>3 DEF other
  <2>6. /\ pos' = r
        /\ missings' = missings \/ missings' = Append(missings, r)
        /\ UNCHANGED <<file, policy, phase, detectVars, outlierVars>>
    BY <1>1 DEF ScanEntry
  <2>7. \/ UNCHANGED <<lookup, dups>>
        \/ KeepFirst(r, same)
        \/ KeepLast(r, same)
    BY <1>1 DEF ScanEntry, same
  <2>8. /\ lookup' \subseteq lookup \cup {r}
        /\ \/ dups' = dups
           \/ dups' = Append(dups, r)
           \/ same # {} /\ dups' = Append(dups, other)
    BY <2>7, <2>4 DEF KeepFirst, KeepLast, other
  <2>9. dups' \in Seq(Rows) /\ missings' \in Seq(Rows)
    <3>1. ASSUME NEW q \in Rows PROVE Append(dups, q) \in Seq(Rows)
      OBVIOUS
    <3>2. Append(missings, r) \in Seq(Rows)
      BY <2>1
    <3> QED BY <2>1, <2>5, <2>6, <2>8, <3>1, <3>2
  <2>10. lookup' \subseteq 1 .. Len(file)
    BY <2>1, <2>8
  <2> QED BY <2>1, <2>6, <2>9, <2>10 DEF detectVars, outlierVars
<1>2. CASE EndScan
  BY <1>2 DEF EndScan, scanVars, detectVars, outlierVars
<1>3. CASE CollectEntry
  <2> DEFINE r == pos + 1
  <2>1. r \in 1 .. Len(file) /\ r \in Rows
    BY <1>3 DEF CollectEntry
  <2>2. /\ pos' = r
        /\ unseen' = unseen \/ unseen' = Append(unseen, r)
        /\ legal' = legal \/ (legal' = Append(legal, r) /\ file[r] # Missing)
        /\ UNCHANGED <<file, policy, phase, scanVars, outlierVars>>
    BY <1>3 DEF CollectEntry
  <2>3. unseen' \in Seq(Rows)
    <3>1. ASSUME NEW q \in Rows PROVE Append(unseen, q) \in Seq(Rows)
      OBVIOUS
    <3> QED BY <2>1, <2>2, <3>1
  <2>4. CASE legal' = legal
    BY <2>1, <2>2, <2>3, <2>4 DEF scanVars, outlierVars
  <2>5. CASE legal' = Append(legal, r) /\ file[r] # Missing
    <3>1. legal' \in Seq(Rows) /\ Len(legal') = Len(legal) + 1
      BY <2>1, <2>5
    <3>2. \A i \in DOMAIN legal' : legal'[i] = r \/ (i \in DOMAIN legal /\ legal'[i] = legal[i])
      BY <2>1, <2>5
    <3>3. \A i \in DOMAIN legal' :
             legal'[i] \in 1 .. Len(file) /\ file[legal'[i]] # Missing
      BY <2>1, <2>5, <3>2
    <3>4. offset \in [Values -> 0 .. Len(legal')]
      BY <3>1
    <3>5. /\ UNCHANGED <<file, policy, phase, lookup, dups, missings>>
          /\ UNCHANGED <<sample, picked, matched, offset, outliers>>
          /\ pos' \in 0 .. Len(file)
      BY <2>1, <2>2 DEF scanVars, outlierVars
    <3>6. TypeOK'
      BY <2>3, <3>1, <3>4, <3>5
    <3>7. SampleIsPresent'
      BY <3>3, <3>5
    <3> QED BY <3>6, <3>7
  <2> QED BY <2>2, <2>4, <2>5
<1>4. CASE EndCollect
  BY <1>4, <1>0 DEF EndCollect, scanVars, detectVars, Elements
<1>5. CASE PickOutlier
  <2>1. PICK r \in sample : picked' = Append(picked, file[r]) /\ sample' = sample \ {r}
    BY <1>5 DEF PickOutlier
  <2>2. file[r] \in Values
    BY <2>1
  <2>3. picked' \in Seq(Values) /\ Len(picked') = Len(picked) + 1
    BY <2>1, <2>2
  <2> QED BY <1>5, <2>1, <2>3 DEF PickOutlier, scanVars, detectVars
<1>6. CASE NoMoreOutliers
  BY <1>6 DEF NoMoreOutliers, scanVars, detectVars, outlierVars
<1>7. CASE MatchOutlier
  <2> DEFINE v == picked[matched + 1]
             places == Places(v)
  <2>1. v \in Values /\ matched' = matched + 1 /\ matched' \in 0 .. Len(picked)
    BY <1>7 DEF MatchOutlier
  <2>2. places \in SUBSET (1 .. Len(legal))
    BY <2>1 DEF Places
  <2> HIDE DEF places
  <2>3. places # {} => First(places) \in 1 .. Len(legal)
    <3>1. Len(legal) \in Nat
      OBVIOUS
    <3> QED BY <2>2, <3>1, FirstIsPlace
  <2>4. /\ \/ UNCHANGED <<outliers, offset>>
           \/ /\ places # {}
              /\ outliers' = Append(outliers, legal[First(places)])
              /\ offset' = [offset EXCEPT ![v] = First(places)]
        /\ UNCHANGED <<file, policy, phase, pos, scanVars, detectVars, sample,
                       picked>>
    BY <1>7 DEF MatchOutlier, places
  <2>5. ASSUME NEW i \in 1 .. Len(legal)
        PROVE  /\ Append(outliers, legal[i]) \in Seq(Rows)
               /\ [offset EXCEPT ![v] = i] \in [Values -> 0 .. Len(legal)]
    <3>1. legal[i] \in Rows
      OBVIOUS
    <3>2. ASSUME NEW q \in Rows PROVE Append(outliers, q) \in Seq(Rows)
      OBVIOUS
    <3>3. i \in 0 .. Len(legal)
      OBVIOUS
    <3>4. [offset EXCEPT ![v] = i] \in [Values -> 0 .. Len(legal)]
      BY <2>1, <3>3
    <3> QED BY <3>1, <3>2, <3>4
  <2>6. outliers' \in Seq(Rows) /\ offset' \in [Values -> 0 .. Len(legal)]
    <3>1. CASE UNCHANGED <<outliers, offset>>
      BY <3>1
    <3>2. CASE /\ places # {}
               /\ outliers' = Append(outliers, legal[First(places)])
               /\ offset' = [offset EXCEPT ![v] = First(places)]
      BY ONLY <3>2, <2>3, <2>5
    <3> QED BY <2>4, <3>1, <3>2
  <2> QED BY <2>1, <2>4, <2>6 DEF scanVars, detectVars
<1>8. CASE Finish
  BY <1>8 DEF Finish, detectVars, outlierVars
<1>9. CASE UNCHANGED vars
  BY <1>9 DEF vars
<1> QED BY <1>1, <1>2, <1>3, <1>4, <1>5, <1>6, <1>7, <1>8, <1>9
        DEF Next, Reported

\* Type correctness for files of any length: the offsets stay within the values
\* that were collected and only values that are present are ever tested.
THEOREM ScanTypeCorrect == Spec => []TypeOK
<1>1. Typed => TypeOK
  BY DEF Typed
<1> QED BY TypedInit, TypedStep, <1>1, PTL DEF Spec

(***************************************************************************)
(* The streaming pass is exact.  What makes it so is that lookup always has *)
(* one row of every rounded value, and which one.                           *)
(***************************************************************************)

Exact == LookupIsExact /\ DuplicationsAreExact

PresentUpTo(n) == {r \in 1 .. n : Present(r)}

\* An entry without a value changes nothing.
LEMMA MissingEntry ==
  ASSUME NEW n \in Nat, ~Present(n + 1), policy \in Policies
  PROVE  /\ Duplications(n + 1) = Duplications(n)
         /\ PresentUpTo(n + 1) = PresentUpTo(n)
<1>1. PresentUpTo(n + 1) = PresentUpTo(n)
  BY DEF PresentUpTo
<1>2. CASE policy = "first"
  BY <1>1, <1>2 DEF Duplications, SameKey
<1>3. CASE policy = "last"
  <2>1. ASSUME NEW r \in 1 .. n + 1
        PROVE (\E q \in r + 1 .. n + 1 : SameKey(q, r))
                <=> r \in 1 .. n /\ \E q \in r + 1 .. n : SameKey(q, r)
    BY DEF SameKey
  <2> QED BY <1>1, <2>1, <1>3 DEF Duplications
<1>4. CASE policy = "none"
  BY <1>1, <1>4 DEF Duplications
<1> QED BY <1>2, <1>3, <1>4 DEF Policies

\* Keeping the first row of a value: a new entry is a duplication just when its
\* value is in lookup, since the first row of its value is.
LEMMA FirstEntry ==
  ASSUME NEW n \in Nat, Present(n + 1), policy = "first",
         NEW seen, seen = PresentUpTo(n) \ Duplications(n)
  PROVE  IF \E q \in seen : Key(q) = Key(n + 1)
         THEN /\ Duplications(n + 1) = Duplications(n) \cup {n + 1}
              /\ PresentUpTo(n + 1) \ Duplications(n + 1) = seen
         ELSE /\ Duplications(n + 1) = Duplications(n)
              /\ PresentUpTo(n + 1) \ Duplications(n + 1) = seen \cup {n + 1}
<1> DEFINE r == n + 1
           earlier == {q \in 1 .. n : SameKey(q, r)}
<1>1. /\ PresentUpTo(r) = PresentUpTo(n) \cup {r}
      /\ r \notin PresentUpTo(n)
  BY DEF PresentUpTo
<1>2. /\ Duplications(r) = Duplications(n) \cup (IF earlier # {} THEN {r} ELSE {})
      /\ Duplications(n) \subseteq 1 .. n
  <2>1. ASSUME NEW d \in 1 .. n PROVE 1 .. d - 1 \subseteq 1 .. n
    OBVIOUS
  <2>2. 1 .. r - 1 = 1 .. n /\ 1 .. r = (1 .. n) \cup {r}
    OBVIOUS
  <2> QED BY <2>2 DEF Duplications
<1>3. ASSUME earlier # {} PROVE \E q \in seen : Key(q) = Key(r)
  <2> DEFINE q == First(earlier)
  <2>1. q \in earlier /\ \A p \in earlier : q <= p
    <3>1. earlier \in SUBSET (1 .. n)
      OBVIOUS
    <3> HIDE DEF earlier
    <3> QED BY <1>3, <3>1, FirstIsPlace
  <2> HIDE DEF q
  <2>2. q \in 1 .. n /\ SameKey(q, r)
    BY <2>1
  <2>3. ASSUME NEW p \in 1 .. q - 1 PROVE ~SameKey(p, q)
    <3> SUFFICES ASSUME SameKey(p, q) PROVE FALSE
      OBVIOUS
    <3>1. p \in earlier
      BY <2>2 DEF SameKey
    <3>2. q <= p
      BY <2>1, <3>1
    <3> QED BY <3>2, <2>2
  <2>4. q \notin Duplications(n)
    BY <2>3 DEF Duplications
  <2>5. q \in seen
    BY <2>2, <2>4 DEF PresentUpTo, SameKey
  <2> QED BY <2>2, <2>5 DEF SameKey
<1>4. ASSUME NEW q \in seen, Key(q) = Key(r) PROVE earlier # {}
  <2>1. q \in 1 .. n /\ SameKey(q, r)
    BY <1>4 DEF PresentUpTo, SameKey
  <2> QED BY <2>1
<1> HIDE DEF earlier
<1>5. CASE earlier # {}
  BY <1>1, <1>2, <1>3, <1>5
<1>6. CASE earlier = {}
  <2>1. ~\E q \in seen : Key(q) = Key(r)
    BY <1>4, <1>6
  <2>2. r \notin Duplications(n)
    BY <1>2
  <2> QED BY <1>1, <1>2, <1>6, <2>1, <2>2
<1> QED BY <1>5, <1>6

\* Keeping the last row of a value: the one row lookup has of the new entry's
\* value becomes a duplication, the earlier ones already are.
LEMMA LastEntry ==
  ASSUME NEW n \in Nat, Present(n + 1), policy = "last",
         NEW seen, seen = PresentUpTo(n) \ Duplications(n),
         NEW same, same = {q \in seen : Key(q) = Key(n + 1)}
  PROVE  /\ Duplications(n + 1) = Duplications(n) \cup same
         /\ PresentUpTo(n + 1) \ Duplications(n + 1) = (seen \ same) \cup {n + 1}
         /\ \A p, q \in same : p = q
<1> DEFINE r == n + 1
<1>1. /\ PresentUpTo(r) = PresentUpTo(n) \cup {r}
      /\ PresentUpTo(n) \subseteq 1 .. n
  BY DEF PresentUpTo
<1>2. Duplications(n) \subseteq 1 .. n
  BY DEF Duplications
<1>3. ASSUME NEW d \in Duplications(r) PROVE d \in Duplications(n) \cup same
  <2>1. PICK q \in d + 1 .. r : SameKey(q, d)
    BY <1>3 DEF Duplications
  <2>2. d \in 1 .. n
    BY <1>3, <2>1 DEF Duplications
  <2>3. CASE q \in d + 1 .. n
    BY <2>1, <2>2, <2>3 DEF Duplications
  <2>4. CASE q = r
    <3>1. Present(d) /\ Key(d) = Key(r)
      BY <2>1, <2>4 DEF SameKey
    <3> QED BY <2>2, <3>1 DEF PresentUpTo
  <2> QED BY <2>1, <2>2, <2>3, <2>4
<1>4. ASSUME NEW d \in Duplications(n) PROVE d \in Duplications(r)
  BY <1>4 DEF Duplications
<1>5. ASSUME NEW d \in same PROVE d \in Duplications(r)
  <2>1. d \in 1 .. n /\ SameKey(r, d)
    BY <1>5 DEF PresentUpTo, SameKey
  <2>2. r \in d + 1 .. r
    BY <2>1
  <2> QED BY <2>1, <2>2 DEF Duplications
<1>6. Duplications(r) = Duplications(n) \cup same
  BY <1>3, <1>4, <1>5
<1>7. r \notin Duplications(r)
  BY DEF Duplications
<1>8. ASSUME NEW p \in same, NEW q \in same PROVE ~(p < q)
  <2> SUFFICES ASSUME p < q PROVE FALSE
    OBVIOUS
  <2>1. p \in 1 .. n /\ q \in p + 1 .. n /\ SameKey(q, p)
    BY DEF PresentUpTo, SameKey
  <2>2. p \in Duplications(n)
    BY <2>1 DEF Duplications
  <2> QED BY <2>2
<1>9. \A p, q \in same : p = q
  <2>1. same \subseteq Nat
    BY <1>1
  <2> QED BY <1>8, <2>1
<1>10. same \subseteq seen
  OBVIOUS
<1> HIDE DEF r
<1>11. PresentUpTo(r) \ Duplications(r) = (seen \ same) \cup {r}
  BY <1>1, <1>6, <1>7
<1> QED BY <1>6, <1>9, <1>11 DEF r

LEMMA ElementsOfAppend ==
  ASSUME NEW S, NEW s \in Seq(S), NEW e \in S
  PROVE  Elements(Append(s, e)) = Elements(s) \cup {e}
<1>1. /\ Len(Append(s, e)) = Len(s) + 1
      /\ DOMAIN Append(s, e) = 1 .. Len(s) + 1
      /\ \A i \in 1 .. Len(s) : Append(s, e)[i] = s[i]
      /\ Append(s, e)[Len(s) + 1] = e
  OBVIOUS
<1>2. DOMAIN s = 1 .. Len(s) /\ Len(s) \in Nat
  OBVIOUS
<1>3. 1 .. Len(s) + 1 = (1 .. Len(s)) \cup {Len(s) + 1}
  BY <1>2
<1> QED BY <1>1, <1>2, <1>3 DEF Elements

LEMMA ExactInit == Init => Exact
<1> SUFFICES ASSUME Init PROVE Exact
  OBVIOUS
<1>1. Elements(dups) = {}
  BY DEF Init, Elements
<1>2. Duplications(0) = {}
  BY DEF Duplications, Init, Policies
<1>3. policy = "none" => phase # "scan" /\ \A n : Duplications(n) = {}
  BY DEF Init, Duplications
<1>4. phase # "scan" => policy = "none"
  BY DEF Init
<1>5. pos = 0 /\ lookup = {}
  BY DEF Init
<1> QED BY <1>1, <1>2, <1>3, <1>4, <1>5
        DEF Exact, LookupIsExact, DuplicationsAreExact

LEMMA ExactStep == Typed /\ Exact /\ [Next]_vars => Exact'
<1> SUFFICES ASSUME Typed, Exact, [Next]_vars PROVE Exact'
  OBVIOUS
<1>1. file' = file /\ policy' = policy
  BY DEF Next, vars, ScanEntry, EndScan, CollectEntry, EndCollect, PickOutlier,
         NoMoreOutliers, MatchOutlier, Finish, Reported
<1>2. \A n : Duplications(n)' = Duplications(n)
  BY <1>1 DEF Duplications, SameKey, Present, Key
<1>3. \A r : Present(r)' = Present(r)
  BY <1>1 DEF Present
<1>4. CASE ScanEntry
  <2> DEFINE r == pos + 1
             same == {q \in lookup : Key(q) = Key(r)}
  <2>1. /\ pos \in Nat /\ r \in Rows /\ lookup \subseteq Rows
        /\ dups \in Seq(Rows) /\ policy \in Policies
    BY <1>4, MaxRowsAssumption DEF ScanEntry, Typed, TypeOK, Rows
  <2>2. /\ policy # "none"
        /\ lookup = PresentUpTo(pos) \ Duplications(pos)
        /\ Elements(dups) = Duplications(pos)
    BY <1>4 DEF ScanEntry, Exact, LookupIsExact, DuplicationsAreExact, PresentUpTo
  <2>3. SUFFICES /\ lookup' = PresentUpTo(r) \ Duplications(r)
                 /\ Elements(dups') = Duplications(r)
    <3>1. phase' = "scan" /\ pos' = r /\ phase = "scan"
      BY <1>4 DEF ScanEntry
    <3>2. Elements(dups)' = Elements(dups')
      BY DEF Elements
    <3> QED BY <1>1, <1>2, <1>3, <2>2, <3>1, <3>2
            DEF Exact, LookupIsExact, DuplicationsAreExact, PresentUpTo
  <2>4. CASE ~Present(r)
    <3>1. UNCHANGED <<lookup, dups>>
      BY <1>4, <2>4 DEF ScanEntry, Present
    <3> QED BY <2>1, <2>2, <2>4, <3>1, MissingEntry
  <2>5. CASE Present(r) /\ policy = "first"
    <3>1. KeepFirst(r, same)
      BY <1>4, <2>5 DEF ScanEntry, Present
    <3>2. same = {} <=> ~\E q \in lookup : Key(q) = Key(r)
      OBVIOUS
    <3>3. Elements(Append(dups, r)) = Elements(dups) \cup {r}
      BY <2>1, ElementsOfAppend
    <3>4. IF same # {}
          THEN /\ Duplications(r) = Duplications(pos) \cup {r}
               /\ PresentUpTo(r) \ Duplications(r) = lookup
          ELSE /\ Duplications(r) = Duplications(pos)
               /\ PresentUpTo(r) \ Duplications(r) = lookup \cup {r}
      BY <2>1, <2>2, <2>5, <3>2, FirstEntry
    <3> HIDE DEF r, same
    <3> QED BY <2>2, <3>1, <3>3, <3>4 DEF KeepFirst
  <2>6. CASE Present(r) /\ policy = "last"
    <3>1. KeepLast(r, same)
      BY <1>4, <2>6 DEF ScanEntry, Present
    <3>2. /\ Duplications(r) = Duplications(pos) \cup same
          /\ PresentUpTo(r) \ Duplications(r) = (lookup \ same) \cup {r}
          /\ \A p, q \in same : p = q
      <4>1. /\ pos \in Nat /\ Present(pos + 1) /\ policy = "last"
            /\ lookup = PresentUpTo(pos) \ Duplications(pos)
        BY <2>1, <2>2, <2>6
      <4>2. same = {q \in lookup : Key(q) = Key(pos + 1)}
        OBVIOUS
      <4> HIDE DEF same
      <4> QED BY <4>1, <4>2, LastEntry
    <3>3. same \subseteq Rows
      BY <2>1
    <3> HIDE DEF r, same
    <3> DEFINE other == CHOOSE q \in same : TRUE
    <3>4. same # {} => other \in same
      OBVIOUS
    <3> HIDE DEF other
    <3>5. same # {} => same = {other}
      BY <3>2, <3>4
    <3>6. same # {} => Elements(Append(dups, other)) = Elements(dups) \cup {other}
      BY <2>1, <3>3, <3>4, ElementsOfAppend
    <3> QED BY <2>2, <3>1, <3>2, <3>5, <3>6 DEF KeepLast, other
  <2> QED BY <2>1, <2>2, <2>4, <2>5, <2>6 DEF Policies
<1>5. CASE ~ScanEntry
  <2>1. /\ dups' = dups
        /\ \/ phase' = phase /\ (phase = "scan" => pos' = pos /\ lookup' = lookup)
           \/ phase = "scan" /\ pos = Len(file) /\ phase' = "collect"
           \/ phase # "scan" /\ phase' # "scan"
    BY <1>5 DEF Next, vars, EndScan, CollectEntry, EndCollect, PickOutlier,
         NoMoreOutliers, MatchOutlier, Finish, Reported, scanVars
  <2>2. Elements(dups)' = Elements(dups) /\ Len(file)' = Len(file)
    BY <1>1, <2>1 DEF Elements
  <2>3. CASE phase' = phase /\ (phase = "scan" => pos' = pos /\ lookup' = lookup)
    BY <1>1, <1>2, <1>3, <2>2, <2>3 DEF Exact, LookupIsExact, DuplicationsAreExact
  <2>4. CASE phase = "scan" /\ pos = Len(file) /\ phase' = "collect"
    BY <1>1, <1>2, <2>2, <2>4 DEF Exact, LookupIsExact, DuplicationsAreExact
  <2>5. CASE phase # "scan" /\ phase' # "scan"
    BY <1>1, <1>2, <2>2, <2>5 DEF Exact, LookupIsExact, DuplicationsAreExact
  <2> QED BY <2>1, <2>3, <2>4, <2>5
<1> QED BY <1>4, <1>5

\* duplication_first and duplication_last report just what a search of the whole
\* column would, after every entry: the pass forgets all but one row of a value
\* and loses nothing by it, whatever the rounding is.
THEOREM StreamIsExact == Spec => []DuplicationsAreExact
<1>1. Exact => DuplicationsAreExact
  BY DEF Exact
<1> QED BY TypedInit, TypedStep, ExactInit, ExactStep, <1>1, PTL DEF Spec

(***************************************************************************)
(* What is reported under the three headings.                               *)
(***************************************************************************)

Distinct(seq) == \A i, j \in DOMAIN seq : i # j => seq[i] # seq[j]

LEMMA DistinctAppend ==
  ASSUME NEW S, NEW s \in Seq(S), NEW e \in S, Distinct(s), e \notin Elements(s)
  PROVE  Distinct(Append(s, e))
<1>1. /\ DOMAIN Append(s, e) = 1 .. Len(s) + 1
      /\ \A i \in 1 .. Len(s) : Append(s, e)[i] = s[i]
      /\ Append(s, e)[Len(s) + 1] = e
      /\ DOMAIN s = 1 .. Len(s) /\ Len(s) \in Nat
  OBVIOUS
<1>2. \A i \in 1 .. Len(s) : s[i] # e
  BY <1>1 DEF Elements
<1> QED BY <1>1, <1>2 DEF Distinct

\* The rows without a value among the first n.
Gone(n) == {r \in 1 .. n : ~Present(r)}

\* Each pass sets the rows without a value aside, once.
SetAside ==
  /\ Distinct(missings) /\ Distinct(unseen)
  /\ phase = "scan" => Elements(missings) = Gone(pos) /\ unseen = <<>>
  /\ phase = "collect" => Elements(unseen) = Gone(pos)
  /\ phase \in {"test", "match"} => Elements(unseen) = Gone(Len(file))
  /\ phase \in {"collect", "test", "match"} =>
       Elements(missings) = IF policy = "none" THEN {} ELSE Gone(Len(file))
  /\ phase = "scan" => policy # "none"
  /\ phase = "done" => Elements(missings) = Gone(Len(file))

LEMMA SetAsideInit == Init => SetAside
<1> SUFFICES ASSUME Init PROVE SetAside
  OBVIOUS
<1>1. Distinct(<<>>) /\ Elements(<<>>) = {}
  BY DEF Distinct, Elements
<1>2. Gone(0) = {}
  BY DEF Gone
<1> QED BY <1>1, <1>2 DEF Init, SetAside, Policies

LEMMA SetAsideStep == Typed /\ SetAside /\ [Next]_vars => SetAside'
<1> SUFFICES ASSUME Typed, SetAside, [Next]_vars PROVE SetAside'
  OBVIOUS
<1>0. /\ missings \in Seq(Rows) /\ unseen \in Seq(Rows) /\ pos \in Nat
      /\ Len(file) \in Nat /\ \A r \in 1 .. Len(file) : r \in Rows
  BY MaxRowsAssumption DEF Typed, TypeOK, Rows
<1>1. /\ file' = file /\ policy' = policy
      /\ \A n : Gone(n)' = Gone(n)
  <2>1. file' = file /\ policy' = policy
    BY DEF Next, vars, ScanEntry, EndScan, CollectEntry, EndCollect, PickOutlier,
           NoMoreOutliers, MatchOutlier, Finish, Reported
  <2> QED BY <2>1 DEF Gone, Present
<1>2. /\ Distinct(missings)' <=> Distinct(missings')
      /\ Distinct(unseen)' <=> Distinct(unseen')
      /\ Elements(missings)' = Elements(missings')
      /\ Elements(unseen)' = Elements(unseen')
  BY DEF Distinct, Elements
<1>3. ASSUME NEW n \in Nat
      PROVE  /\ Gone(n + 1) = Gone(n) \cup (IF file[n + 1] = Missing THEN {n + 1} ELSE {})
             /\ n + 1 \notin Gone(n)
  BY DEF Gone, Present
<1>4. CASE ScanEntry
  <2>1. /\ phase = "scan" /\ phase' = "scan" /\ pos' = pos + 1 /\ pos + 1 \in Rows
        /\ unseen' = unseen
        /\ missings' = IF file[pos + 1] = Missing THEN Append(missings, pos + 1)
                       ELSE missings
    BY <1>0, <1>4 DEF ScanEntry, detectVars
  <2>2. Elements(missings) = Gone(pos) /\ unseen = <<>> /\ Distinct(missings) /\ Distinct(unseen)
        /\ policy # "none"
    BY <2>1 DEF SetAside
  <2>3. Elements(missings') = Gone(pos + 1) /\ Distinct(missings')
    <3>1. pos + 1 \notin Elements(missings)
      BY <1>0, <1>3, <2>2
    <3>2. /\ Elements(Append(missings, pos + 1)) = Elements(missings) \cup {pos + 1}
          /\ Distinct(Append(missings, pos + 1))
      BY <1>0, <2>1, <2>2, <3>1, ElementsOfAppend, DistinctAppend
    <3>3. Gone(pos + 1) = Gone(pos) \cup (IF file[pos + 1] = Missing THEN {pos + 1} ELSE {})
      BY <1>0, <1>3
    <3> QED BY <2>1, <2>2, <3>2, <3>3
  <2> QED BY <1>1, <1>2, <2>1, <2>2, <2>3 DEF SetAside
<1>5. CASE EndScan
  <2>1. /\ phase = "scan" /\ phase' = "collect" /\ pos' = 0 /\ pos = Len(file)
        /\ unseen' = unseen /\ missings' = missings
    BY <1>5 DEF EndScan, detectVars, scanVars
  <2>2. Elements(<<>>) = {} /\ Gone(0) = {}
    BY DEF Elements, Gone
  <2> QED BY <1>1, <1>2, <2>1, <2>2 DEF SetAside
<1>6. CASE CollectEntry
  <2>1. /\ phase = "collect" /\ phase' = "collect" /\ pos' = pos + 1 /\ pos + 1 \in Rows
        /\ missings' = missings
        /\ unseen' = IF file[pos + 1] = Missing THEN Append(unseen, pos + 1) ELSE unseen
    BY <1>0, <1>6 DEF CollectEntry, scanVars
  <2>2. Elements(unseen) = Gone(pos) /\ Distinct(unseen)
    BY <2>1 DEF SetAside
  <2>3. Elements(unseen') = Gone(pos + 1) /\ Distinct(unseen')
    <3>1. pos + 1 \notin Elements(unseen)
      BY <1>0, <1>3, <2>2
    <3>2. /\ Elements(Append(unseen, pos + 1)) = Elements(unseen) \cup {pos + 1}
          /\ Distinct(Append(unseen, pos + 1))
      BY <1>0, <2>1, <2>2, <3>1, ElementsOfAppend, DistinctAppend
    <3>3. Gone(pos + 1) = Gone(pos) \cup (IF file[pos + 1] = Missing THEN {pos + 1} ELSE {})
      BY <1>0, <1>3
    <3> QED BY <2>1, <2>2, <3>2, <3>3
  <2> QED BY <1>1, <1>2, <2>1, <2>3 DEF SetAside
<1>7. CASE EndCollect \/ PickOutlier \/ NoMoreOutliers \/ MatchOutlier \/ UNCHANGED vars
  <2>1. /\ unseen' = unseen /\ missings' = missings
        /\ \/ phase = "collect" /\ phase' = "test" /\ pos = Len(file)
           \/ phase \in {"test", "match"} /\ phase' \in {"test", "match"}
           \/ phase' = phase /\ pos' = pos
    BY <1>7 DEF EndCollect, PickOutlier, NoMoreOutliers, MatchOutlier, vars, detectVars,
                scanVars
  <2> QED BY <1>1, <1>2, <2>1 DEF SetAside
<1>8. CASE Finish
  <2>1. /\ phase = "match" /\ phase' = "done" /\ unseen' = unseen
        /\ missings' = IF missings = <<>> THEN unseen ELSE missings
    BY <1>8 DEF Finish, detectVars
  <2>2. Elements(<<>>) = {}
    BY DEF Elements
  <2>3. policy = "none" => missings = <<>>
    <3>1. policy = "none" => Elements(missings) = {}
      BY <2>1 DEF SetAside
    <3>2. Elements(missings) = {} => missings = <<>>
      <4>1. Len(missings) # 0 => missings[1] \in Elements(missings)
        BY <1>0 DEF Elements
      <4>2. Len(missings) = 0 => missings = <<>>
        BY <1>0
      <4> QED BY <4>1, <4>2
    <3> QED BY <3>1, <3>2
  <2>4. Distinct(missings') /\ Elements(missings') = Gone(Len(file))
    BY <2>1, <2>2, <2>3 DEF SetAside
  <2> QED BY <1>1, <1>2, <2>1, <2>4 DEF SetAside
<1>9. CASE Reported
  BY <1>9, <1>1, <1>2 DEF Reported, vars, SetAside
<1> QED BY <1>4, <1>5, <1>6, <1>7, <1>8, <1>9 DEF Next

\* MissingsAreExact holds for files of any length, whichever pass looks for what is
\* missing (duplication_action.cpp and outliers_action.cpp, apply_action).
THEOREM MissingsAreReported == Spec => []MissingsAreExact
<1>1. Typed /\ SetAside /\ [Next]_vars => (Typed /\ SetAside)'
  BY TypedStep, SetAsideStep
<1>2. Typed /\ SetAside => MissingsAreExact
  BY DEF SetAside, MissingsAreExact, Distinct, Gone, Present
<1> QED BY TypedInit, SetAsideInit, <1>1, <1>2, PTL DEF Spec

\* An outlier is a row of the sample; the rows of a value are found one after
\* another, and each of them is at or before the place the next search starts
\* behind.
Headings ==
  /\ Distinct(dups)
  /\ Distinct(legal)
  /\ phase = "scan" => legal = <<>>
  /\ phase = "collect" => Elements(legal) \subseteq 1 .. pos
  /\ Elements(legal) \cap Elements(dups) = {}
  /\ phase \in {"scan", "collect", "test"} => outliers = <<>>
  /\ Distinct(outliers)
  /\ \A i \in DOMAIN outliers :
       /\ outliers[i] \in Elements(legal)
       /\ \A p \in DOMAIN legal : legal[p] = outliers[i] => p <= offset[file[outliers[i]]]

LEMMA HeadingsInit == Init => Headings
<1> SUFFICES ASSUME Init PROVE Headings
  OBVIOUS
<1>1. Distinct(<<>>) /\ Elements(<<>>) = {} /\ DOMAIN <<>> = {}
  BY DEF Distinct, Elements
<1> QED BY <1>1 DEF Init, Headings

\* A duplication is reported once: no row of lookup has been reported before.
LEMMA DupsStayDistinct ==
  ASSUME Typed, Exact, Distinct(dups), ScanEntry
  PROVE  Distinct(dups')
<1> DEFINE r == pos + 1
           same == {q \in lookup : Key(q) = Key(r)}
           other == CHOOSE q \in same : TRUE
<1>1. /\ pos \in Nat /\ r \in Rows /\ lookup \subseteq Rows /\ dups \in Seq(Rows)
  BY MaxRowsAssumption DEF ScanEntry, Typed, TypeOK, Rows
<1>2. /\ lookup = PresentUpTo(pos) \ Duplications(pos)
      /\ Elements(dups) = Duplications(pos)
      /\ Duplications(pos) \subseteq 1 .. pos
  <2>1. Duplications(pos) \subseteq 1 .. pos
    <3>1. policy \in Policies
      BY DEF Typed, TypeOK
    <3> QED BY <3>1 DEF Duplications, Policies
  <2> QED BY <2>1 DEF ScanEntry, Exact, LookupIsExact, DuplicationsAreExact, PresentUpTo
<1>3. same # {} => other \in same
  OBVIOUS
<1>4. same \subseteq lookup
  OBVIOUS
<1>5. \/ dups' = dups
      \/ dups' = Append(dups, r)
      \/ same # {} /\ dups' = Append(dups, other)
  <2> HIDE DEF r
  <2> QED BY DEF ScanEntry, KeepFirst, KeepLast, r
<1> HIDE DEF same, other
<1>6. r \notin Elements(dups) /\ (same # {} => other \notin Elements(dups) /\ other \in Rows)
  BY <1>1, <1>2, <1>3, <1>4
<1> HIDE DEF r
<1> QED BY <1>1, <1>5, <1>6, DistinctAppend

LEMMA HeadingsStep == Typed /\ Exact /\ Headings /\ [Next]_vars => Headings'
<1> SUFFICES ASSUME Typed, Exact, Headings, [Next]_vars PROVE Headings'
  OBVIOUS
<1>0. /\ legal \in Seq(Rows) /\ outliers \in Seq(Rows) /\ dups \in Seq(Rows) /\ pos \in Nat
      /\ Len(file) \in Nat /\ \A r \in 1 .. Len(file) : r \in Rows
  BY MaxRowsAssumption DEF Typed, TypeOK, Rows
<1>1. file' = file
  BY DEF Next, vars, ScanEntry, EndScan, CollectEntry, EndCollect, PickOutlier,
         NoMoreOutliers, MatchOutlier, Finish, Reported
<1>2. /\ Distinct(dups)' <=> Distinct(dups')
      /\ Distinct(legal)' <=> Distinct(legal')
      /\ Distinct(outliers)' <=> Distinct(outliers')
      /\ Elements(dups)' = Elements(dups')
      /\ Elements(legal)' = Elements(legal')
  BY DEF Distinct, Elements
<1>3. Elements(<<>>) = {} /\ DOMAIN <<>> = {}
  BY DEF Elements
<1>4. CASE ScanEntry
  <2>1. /\ phase = "scan" /\ phase' = "scan" /\ legal' = legal /\ outliers' = outliers
        /\ offset' = offset
    BY <1>4 DEF ScanEntry, detectVars, outlierVars
  <2>2. Distinct(dups')
    BY <1>4, DupsStayDistinct DEF Headings
  <2> QED BY <1>1, <1>2, <1>3, <2>1, <2>2 DEF Headings
<1>5. CASE EndScan
  <2>1. /\ phase = "scan" /\ phase' = "collect" /\ pos' = 0
        /\ UNCHANGED <<dups, legal, outliers, offset>>
    BY <1>5 DEF EndScan, scanVars, detectVars, outlierVars
  <2> QED BY <1>1, <1>2, <1>3, <2>1 DEF Headings
<1>6. CASE CollectEntry
  <2> DEFINE r == pos + 1
  <2>1. /\ phase = "collect" /\ phase' = "collect" /\ pos' = r /\ r \in Rows
        /\ UNCHANGED <<dups, outliers, offset>>
        /\ legal' = legal \/ (legal' = Append(legal, r) /\ r \notin Elements(dups))
    BY <1>0, <1>6 DEF CollectEntry, scanVars, outlierVars
  <2>2. /\ Distinct(legal) /\ Elements(legal) \subseteq 1 .. pos /\ outliers = <<>>
        /\ Elements(legal) \cap Elements(dups) = {}
    BY <2>1 DEF Headings
  <2>3. r \notin Elements(legal) /\ Elements(legal) \subseteq 1 .. r
    BY <1>0, <2>2
  <2>4. /\ Elements(Append(legal, r)) = Elements(legal) \cup {r}
        /\ Distinct(Append(legal, r))
    BY <1>0, <2>1, <2>2, <2>3, ElementsOfAppend, DistinctAppend
  <2>5. /\ Distinct(legal') /\ Elements(legal') \subseteq 1 .. r
        /\ Elements(legal') \cap Elements(dups) = {}
    <3>1. CASE legal' = legal
      BY <2>2, <2>3, <3>1
    <3>2. CASE legal' = Append(legal, r) /\ r \notin Elements(dups)
      <4>1. legal' = Append(legal, r) /\ r \notin Elements(dups)
        BY <3>2
      <4>2. Elements(legal') = Elements(legal) \cup {r} /\ Distinct(legal')
        BY <2>4, <4>1
      <4>3. r \in 1 .. r
        BY <1>0
      <4> HIDE DEF r
      <4> QED BY <2>2, <2>3, <4>1, <4>2, <4>3
    <3> QED BY <2>1, <3>1, <3>2
  <2> QED BY <1>1, <1>2, <1>3, <2>1, <2>2, <2>5 DEF Headings
<1>7. CASE EndCollect \/ PickOutlier \/ NoMoreOutliers \/ Finish \/ Reported \/ UNCHANGED vars
  <2>1. /\ UNCHANGED <<dups, legal, outliers, offset, pos>>
        /\ \/ phase = "collect" /\ phase' = "test"
           \/ phase' \in {"match", "done"}
           \/ phase' = phase
    BY <1>7 DEF EndCollect, PickOutlier, NoMoreOutliers, Finish, Reported, vars, scanVars,
                detectVars, outlierVars
  <2> QED BY <1>1, <1>2, <2>1 DEF Headings
<1>8. CASE MatchOutlier
  <2> DEFINE v == picked[matched + 1]
             places == Places(v)
             p == First(places)
  <2>1. /\ phase = "match" /\ phase' = "match" /\ UNCHANGED <<dups, legal>>
        /\ v \in Values
        /\ \/ UNCHANGED <<outliers, offset>>
           \/ /\ places # {}
              /\ outliers' = Append(outliers, legal[p])
              /\ offset' = [offset EXCEPT ![v] = p]
    BY <1>8 DEF MatchOutlier, scanVars, detectVars, Typed, TypeOK
  <2>2. CASE UNCHANGED <<outliers, offset>>
    BY <1>1, <1>2, <2>1, <2>2 DEF Headings
  <2>3. CASE /\ places # {}
             /\ outliers' = Append(outliers, legal[p])
             /\ offset' = [offset EXCEPT ![v] = p]
    <3>1. offset \in [Values -> 0 .. Len(legal)] /\ Len(legal) \in Nat
      BY <1>0 DEF Typed, TypeOK
    <3>2. places \in SUBSET (1 .. Len(legal))
      BY <2>1, <3>1 DEF Places
    <3>3. p \in places
      <4> HIDE DEF places
      <4> QED BY <2>3, <3>1, <3>2, FirstIsPlace
    <3>4. /\ p \in DOMAIN legal /\ p > offset[v] /\ file[legal[p]] = v /\ legal[p] \in Rows
          /\ p \in Nat
      BY <1>0, <2>1, <3>1, <3>3 DEF Places
    <3> HIDE DEF places, p
    <3>5. legal[p] \in Elements(legal)
      BY <3>4 DEF Elements
    <3>6. legal[p] \notin Elements(outliers)
      <4> SUFFICES ASSUME NEW i \in DOMAIN outliers, outliers[i] = legal[p] PROVE FALSE
        BY DEF Elements
      <4>1. p <= offset[file[legal[p]]]
        BY <3>4 DEF Headings
      <4> QED BY <2>1, <3>1, <3>4, <4>1
    <3>7. Distinct(outliers')
      BY <1>0, <2>3, <3>4, <3>6, DistinctAppend DEF Headings
    <3>8. ASSUME NEW i \in DOMAIN outliers'
          PROVE  /\ outliers'[i] \in Elements(legal)
                 /\ \A q \in DOMAIN legal :
                      legal[q] = outliers'[i] => q <= offset'[file[outliers'[i]]]
      <4>1. CASE i \in DOMAIN outliers
        <5>1. outliers'[i] = outliers[i]
          BY <1>0, <2>3, <3>4, <4>1
        <5>2. /\ outliers[i] \in Elements(legal)
              /\ \A q \in DOMAIN legal :
                   legal[q] = outliers[i] => q <= offset[file[outliers[i]]]
          BY <4>1 DEF Headings
        <5>3. file[outliers[i]] \in Values
          <6>1. PICK k \in DOMAIN legal : outliers[i] = legal[k]
            BY <5>2 DEF Elements
          <6>2. file \in Seq(Values \cup {Missing}) /\ legal[k] \in 1 .. Len(file)
                /\ file[legal[k]] # Missing
            BY <6>1 DEF Typed, TypeOK, SampleIsPresent, Present
          <6> QED BY <6>1, <6>2
        <5>4. offset[file[outliers[i]]] <= offset'[file[outliers[i]]]
          <6>1. offset'[file[outliers[i]]] =
                  IF file[outliers[i]] = v THEN p ELSE offset[file[outliers[i]]]
            BY <2>3, <3>1, <5>3
          <6>2. offset[file[outliers[i]]] \in Nat
            BY <3>1, <5>3
          <6> QED BY <3>4, <6>1, <6>2
        <5>5. offset[file[outliers[i]]] \in Nat /\ offset'[file[outliers[i]]] \in Nat
          BY <2>1, <2>3, <3>1, <3>4, <5>3
        <5>6. ASSUME NEW q \in DOMAIN legal, legal[q] = outliers'[i]
              PROVE  q <= offset'[file[outliers'[i]]]
          <6>1. q <= offset[file[outliers[i]]] /\ q \in Nat
            BY <1>0, <5>1, <5>2, <5>6
          <6> QED BY <5>1, <5>4, <5>5, <6>1
        <5> QED BY <5>1, <5>2, <5>6
      <4>2. CASE i \notin DOMAIN outliers
        <5>1. outliers'[i] = legal[p]
          BY <1>0, <2>3, <3>4, <4>2
        <5>2. offset'[v] = p
          BY <2>1, <2>3, <3>1
        <5>3. \A q \in DOMAIN legal : legal[q] = legal[p] => q = p
          BY <3>4 DEF Headings, Distinct
        <5> QED BY <3>4, <3>5, <5>1, <5>2, <5>3
      <4> QED BY <4>1, <4>2
    <3> QED BY <1>1, <1>2, <2>1, <3>7, <3>8 DEF Headings
  <2> QED BY <2>1, <2>2, <2>3
<1> QED BY <1>4, <1>5, <1>6, <1>7, <1>8 DEF Next

\* HeadingsAreDisjoint holds for files of any length, any values and any rounding,
\* and whatever values the test picks (outliers_action.cpp, finding).
THEOREM HeadingsAreExclusive == Spec => []HeadingsAreDisjoint
<1> DEFINE I == Typed /\ Exact /\ SetAside /\ Headings
<1>1. Init => I
  BY TypedInit, ExactInit, SetAsideInit, HeadingsInit
<1>2. I /\ [Next]_vars => I'
  BY TypedStep, ExactStep, SetAsideStep, HeadingsStep
<1>3. I => HeadingsAreDisjoint
  <2> SUFFICES ASSUME I PROVE HeadingsAreDisjoint
    OBVIOUS
  <2>1. \A r \in Elements(dups) : Present(r)
    <3>1. Elements(dups) = Duplications(IF phase = "scan" THEN pos ELSE Len(file))
      BY DEF Exact, DuplicationsAreExact
    <3>2. ASSUME NEW n, NEW r \in Duplications(n) PROVE Present(r)
      <4>1. policy \in Policies
        BY DEF Typed, TypeOK
      <4> QED BY <3>2, <4>1 DEF Duplications, SameKey, Policies
    <3> QED BY <3>1, <3>2
  <2>2. \A r \in Elements(missings) : ~Present(r)
    BY DEF SetAside, Gone, Typed, TypeOK
  <2>3. \A r \in Elements(outliers) : r \in Elements(legal)
    BY DEF Headings, Elements
  <2>4. \A r \in Elements(legal) : Present(r) /\ r \notin Elements(dups)
    BY DEF Typed, SampleIsPresent, Headings, Elements
  <2>5. Distinct(dups) /\ Distinct(missings) /\ Distinct(outliers)
    BY DEF SetAside, Headings
  <2>6. \A seq \in {dups, missings, outliers} : Distinct(seq)
    BY <2>5
  <2> QED BY <2>1, <2>2, <2>3, <2>4, <2>6 DEF HeadingsAreDisjoint, Distinct
<1> HIDE DEF I
<1>4. Spec => []I
  BY <1>1, <1>2, PTL DEF Spec
<1> QED BY <1>3, <1>4, PTL

(***************************************************************************)
(* Every picked value has a row.  What makes it so is a count: of a value   *)
(* no more can be picked than were collected, and the search for its next   *)
(* row has passed just as many rows with it as were matched.                *)
(***************************************************************************)

\* Among the first n of some picked values those that are v, among the first n
\* collected rows those with the value v, and the rows with it that may still
\* be picked.
PicksIn(seq, v, n) == {i \in 1 .. n : seq[i] = v}
Held(v, n) == {i \in 1 .. n : file[legal[i]] = v}
LeftOf(v) == {r \in sample : file[r] = v}

LEMMA PicksAreCounted ==
  ASSUME NEW seq, NEW v, NEW n \in Nat
  PROVE  /\ IsFiniteSet(PicksIn(seq, v, n)) /\ Cardinality(PicksIn(seq, v, n)) \in Nat
         /\ IsFiniteSet(Held(v, n)) /\ Cardinality(Held(v, n)) \in Nat
         /\ PicksIn(seq, v, 0) = {} /\ Held(v, 0) = {}
<1>1. IsFiniteSet(1 .. n)
  BY FS_Interval
<1>2. PicksIn(seq, v, n) \in SUBSET (1 .. n) /\ Held(v, n) \in SUBSET (1 .. n)
  BY DEF PicksIn, Held
<1>3. IsFiniteSet(PicksIn(seq, v, n)) /\ IsFiniteSet(Held(v, n))
  BY <1>1, <1>2, FS_Subset
<1>4. PicksIn(seq, v, 0) = {} /\ Held(v, 0) = {}
  BY DEF PicksIn, Held
<1> QED BY <1>3, <1>4, FS_CardinalityType

LEMMA OneMorePick ==
  ASSUME NEW seq, NEW v, NEW n \in Nat
  PROVE  Cardinality(PicksIn(seq, v, n + 1)) =
           Cardinality(PicksIn(seq, v, n)) + IF seq[n + 1] = v THEN 1 ELSE 0
<1>1. 1 .. n + 1 = (1 .. n) \cup {n + 1} /\ n + 1 \notin 1 .. n
  OBVIOUS
<1>2. n + 1 \notin PicksIn(seq, v, n)
  BY <1>1 DEF PicksIn
<1>3. CASE seq[n + 1] = v
  <2>1. PicksIn(seq, v, n + 1) = PicksIn(seq, v, n) \cup {n + 1}
    BY <1>1, <1>3 DEF PicksIn
  <2> QED BY <1>2, <1>3, <2>1, FS_AddElement, PicksAreCounted
<1>4. CASE seq[n + 1] # v
  <2>1. PicksIn(seq, v, n + 1) = PicksIn(seq, v, n)
    BY <1>1, <1>4 DEF PicksIn
  <2> QED BY <1>4, <2>1, PicksAreCounted
<1> QED BY <1>3, <1>4

LEMMA FewerPicks ==
  ASSUME NEW seq, NEW v, NEW n \in Nat, NEW m \in n .. Len(seq), Len(seq) \in Nat
  PROVE  Cardinality(PicksIn(seq, v, n)) <= Cardinality(PicksIn(seq, v, m))
<1>1. PicksIn(seq, v, n) \in SUBSET PicksIn(seq, v, m)
  BY DEF PicksIn
<1>2. IsFiniteSet(PicksIn(seq, v, m))
  BY PicksAreCounted
<1> QED BY <1>1, <1>2, FS_Subset

\* The places of different rows are different.
LEMMA RowsHavePlaces ==
  ASSUME Typed, NEW v
  PROVE  Cardinality({r \in Elements(legal) : file[r] = v})
           <= Cardinality(Held(v, Len(legal)))
<1> DEFINE S == {r \in Elements(legal) : file[r] = v}
           T == Held(v, Len(legal))
           f == [r \in S |-> CHOOSE i \in DOMAIN legal : legal[i] = r]
<1>1. DOMAIN legal = 1 .. Len(legal) /\ Len(legal) \in Nat
  BY DEF Typed, TypeOK
<1>2. ASSUME NEW r \in S PROVE f[r] \in T /\ legal[f[r]] = r
  <2>1. \E i \in DOMAIN legal : legal[i] = r
    BY DEF Elements
  <2>2. f[r] \in DOMAIN legal /\ legal[f[r]] = r
    BY <2>1
  <2> QED BY <1>1, <2>2 DEF Held
<1>3. f \in [S -> T]
  BY <1>2
<1> HIDE DEF f
<1>4. f \in Injection(S, T)
  BY <1>2, <1>3 DEF Injection, IsInjective
<1>5. IsFiniteSet(T)
  BY <1>1, PicksAreCounted
<1> QED BY <1>4, <1>5, FS_Injection

\* What the two counts are in each phase.
Counted ==
  /\ phase \in {"scan", "collect"} => picked = <<>>
  /\ phase \in {"scan", "collect", "test"} =>
       matched = 0 /\ outliers = <<>> /\ \A v \in Values : offset[v] = 0
  /\ phase = "test" =>
       \A v \in Values :
         Cardinality(PicksIn(picked, v, Len(picked))) + Cardinality(LeftOf(v))
           <= Cardinality(Held(v, Len(legal)))
  /\ phase = "match" =>
       \A v \in Values :
         /\ Cardinality(PicksIn(picked, v, Len(picked))) <= Cardinality(Held(v, Len(legal)))
         /\ Cardinality(PicksIn(picked, v, matched)) = Cardinality(Held(v, offset[v]))
  /\ OutliersAreFound

LEMMA CountedInit == Init => Counted
BY DEF Init, Counted, OutliersAreFound, Policies

LEMMA LeftIsFinite ==
  ASSUME Typed, NEW v
  PROVE  IsFiniteSet(LeftOf(v)) /\ Cardinality(LeftOf(v)) \in Nat
<1>1. Len(file) \in Nat /\ LeftOf(v) \in SUBSET (1 .. Len(file))
  BY DEF Typed, TypeOK, SampleIsPresent, LeftOf
<1>2. IsFiniteSet(1 .. Len(file))
  BY <1>1, FS_Interval
<1> QED BY <1>1, <1>2, FS_Subset, FS_CardinalityType

\* The next value of the match phase has a place that was not passed.
LEMMA PlaceIsLeft ==
  ASSUME Typed, Counted, phase = "match", matched < Len(picked)
  PROVE  Places(picked[matched + 1]) # {}
<1> DEFINE v == picked[matched + 1]
<1>1. /\ picked \in Seq(Values) /\ matched \in Nat /\ Len(picked) \in Nat
      /\ matched + 1 \in 1 .. Len(picked) /\ v \in Values
      /\ Len(legal) \in Nat /\ offset[v] \in 0 .. Len(legal)
  BY DEF Typed, TypeOK
<1>2. /\ Cardinality(PicksIn(picked, v, Len(picked))) <= Cardinality(Held(v, Len(legal)))
      /\ Cardinality(PicksIn(picked, v, matched)) = Cardinality(Held(v, offset[v]))
  BY <1>1 DEF Counted
<1>3. Cardinality(PicksIn(picked, v, matched + 1)) = Cardinality(PicksIn(picked, v, matched)) + 1
  BY <1>1, OneMorePick
<1>4. Cardinality(PicksIn(picked, v, matched + 1)) <= Cardinality(PicksIn(picked, v, Len(picked)))
  BY <1>1, FewerPicks
<1>5. Held(v, offset[v]) # Held(v, Len(legal))
  <2>1. /\ matched \in Nat /\ matched + 1 \in Nat /\ Len(picked) \in Nat
        /\ Len(legal) \in Nat /\ offset[v] \in Nat
    BY <1>1
  <2>2. \A n \in Nat : /\ Cardinality(PicksIn(picked, v, n)) \in Nat
                       /\ Cardinality(Held(v, n)) \in Nat
    BY PicksAreCounted
  <2> HIDE DEF v
  <2> QED BY <1>2, <1>3, <1>4, <2>1, <2>2
<1>6. PICK i \in 1 .. Len(legal) : file[legal[i]] = v /\ ~(i <= offset[v])
  BY <1>1, <1>5 DEF Held
<1>7. i \in Places(v)
  BY <1>1, <1>6 DEF Places
<1> QED BY <1>7

\* Searching on from the last place of a value passes exactly one more row of it.
LEMMA OneMorePlace ==
  ASSUME Typed, NEW v \in Values, Places(v) # {}
  PROVE  LET p == First(Places(v))
         IN  /\ p \in 1 .. Len(legal) /\ file[legal[p]] = v
             /\ Cardinality(Held(v, p)) = Cardinality(Held(v, offset[v])) + 1
<1> DEFINE p == First(Places(v))
<1>1. Len(legal) \in Nat /\ offset[v] \in 0 .. Len(legal)
  BY DEF Typed, TypeOK
<1>2. Places(v) \in SUBSET (1 .. Len(legal))
  BY <1>1 DEF Places
<1>3. p \in Places(v) /\ \A i \in Places(v) : p <= i
  BY <1>1, <1>2, FirstIsPlace
<1>4. p \in 1 .. Len(legal) /\ offset[v] < p /\ file[legal[p]] = v
  BY <1>1, <1>3 DEF Places
<1> HIDE DEF p
<1>5. ASSUME NEW i \in offset[v] + 1 .. p - 1 PROVE file[legal[i]] # v
  <2>1. file[legal[i]] = v => i \in Places(v)
    BY <1>1, <1>4 DEF Places
  <2>2. ~(p <= i)
    BY <1>1, <1>4
  <2> QED BY <1>3, <2>1, <2>2
<1>6. Held(v, p) = Held(v, offset[v]) \cup {p}
  <2>1. 1 .. p = (1 .. offset[v]) \cup (offset[v] + 1 .. p - 1) \cup {p}
    BY <1>1, <1>4
  <2> QED BY <1>4, <1>5, <2>1 DEF Held
<1>7. p \notin Held(v, offset[v])
  BY <1>1, <1>4 DEF Held
<1>8. offset[v] \in Nat
  BY <1>1
<1>9. Cardinality(Held(v, p)) = Cardinality(Held(v, offset[v])) + 1
  BY <1>6, <1>7, <1>8, PicksAreCounted, FS_AddElement
<1> QED BY <1>4, <1>9 DEF p

\* A picked value is no longer among those that may be picked.
LEMMA PickCounts ==
  ASSUME Typed, NEW r \in sample, NEW v \in Values
  PROVE  Cardinality(PicksIn(Append(picked, file[r]), v, Len(picked) + 1))
           + Cardinality({q \in sample \ {r} : file[q] = v})
         = Cardinality(PicksIn(picked, v, Len(picked))) + Cardinality(LeftOf(v))
<1> DEFINE more == Append(picked, file[r])
           n == Len(picked)
           left == {q \in sample \ {r} : file[q] = v}
<1>1. /\ picked \in Seq(Values) /\ n \in Nat /\ file[r] \in Values
      /\ more[n + 1] = file[r] /\ \A i \in 1 .. n : more[i] = picked[i]
  BY DEF Typed, TypeOK, SampleIsPresent, Present
<1> HIDE DEF more
<1>2. PicksIn(more, v, n) = PicksIn(picked, v, n)
  BY <1>1 DEF PicksIn
<1>3. Cardinality(PicksIn(more, v, n + 1)) =
        Cardinality(PicksIn(picked, v, n)) + IF file[r] = v THEN 1 ELSE 0
  BY <1>1, <1>2, OneMorePick
<1>4. IsFiniteSet(LeftOf(v)) /\ Cardinality(LeftOf(v)) \in Nat
      /\ Cardinality(PicksIn(picked, v, n)) \in Nat
  BY <1>1, LeftIsFinite, PicksAreCounted
<1>5. Cardinality(left) = Cardinality(LeftOf(v)) - IF file[r] = v THEN 1 ELSE 0
  <2>1. CASE file[r] = v
    <3>1. left = LeftOf(v) \ {r} /\ r \in LeftOf(v)
      BY <2>1 DEF LeftOf
    <3>2. Cardinality(LeftOf(v) \ {r}) = Cardinality(LeftOf(v)) - 1
      BY ONLY <1>4, <3>1, FS_RemoveElement
    <3> QED BY ONLY <2>1, <3>1, <3>2
  <2>2. CASE file[r] # v
    <3>1. left = LeftOf(v)
      BY <2>2 DEF LeftOf
    <3> HIDE DEF left
    <3>2. Cardinality(left) = Cardinality(LeftOf(v)) - 0
      BY <1>4, <3>1
    <3> QED BY <2>2, <3>2
  <2> QED BY <2>1, <2>2
<1> HIDE DEF left, n
<1>6. Cardinality(PicksIn(more, v, n + 1)) + Cardinality(left) =
        Cardinality(PicksIn(picked, v, n)) + Cardinality(LeftOf(v))
  BY <1>3, <1>4, <1>5
<1> QED BY <1>6 DEF more, n, left

LEMMA CountedStep == Typed /\ Counted /\ [Next]_vars => Counted'
<1> SUFFICES ASSUME Typed, Counted, [Next]_vars PROVE Counted'
  OBVIOUS
<1>0. /\ picked \in Seq(Values) /\ Len(picked) \in Nat /\ matched \in 0 .. Len(picked)
      /\ legal \in Seq(Rows) /\ Len(legal) \in Nat /\ outliers \in Seq(Rows)
      /\ offset \in [Values -> 0 .. Len(legal)]
  BY DEF Typed, TypeOK
<1>1. file' = file
  BY DEF Next, vars, ScanEntry, EndScan, CollectEntry, EndCollect, PickOutlier,
         NoMoreOutliers, MatchOutlier, Finish, Reported
<1>2. CASE ScanEntry \/ EndScan \/ CollectEntry
  <2>1. /\ phase \in {"scan", "collect"} /\ phase' \in {"scan", "collect"}
        /\ UNCHANGED <<picked, matched, outliers, offset>>
    BY <1>2 DEF ScanEntry, EndScan, CollectEntry, outlierVars
  <2> QED BY <2>1 DEF Counted, OutliersAreFound
<1>3. CASE EndCollect
  <2>1. /\ phase = "collect" /\ phase' = "test" /\ sample' = Elements(legal)
        /\ UNCHANGED <<legal, picked, matched, outliers, offset>>
    BY <1>3 DEF EndCollect, detectVars
  <2>2. picked = <<>> /\ Len(picked) = 0
    BY <2>1 DEF Counted
  <2>3. ASSUME NEW v \in Values
        PROVE  Cardinality(PicksIn(picked, v, 0))
                 + Cardinality({r \in Elements(legal) : file[r] = v})
                 <= Cardinality(Held(v, Len(legal)))
    <3> DEFINE S == {r \in Elements(legal) : file[r] = v}
    <3>1. Cardinality(PicksIn(picked, v, 0)) = 0
      BY PicksAreCounted, FS_EmptySet
    <3>2. S \in SUBSET (1 .. Len(file)) /\ Len(file) \in Nat
      BY DEF Typed, TypeOK, SampleIsPresent, Elements
    <3>3. IsFiniteSet(1 .. Len(file))
      BY <3>2, FS_Interval
    <3>4. Cardinality(S) \in Nat
      BY <3>2, <3>3, FS_Subset, FS_CardinalityType
    <3>5. Cardinality(S) <= Cardinality(Held(v, Len(legal)))
      BY RowsHavePlaces
    <3> HIDE DEF S
    <3>6. 0 + Cardinality(S) <= Cardinality(Held(v, Len(legal)))
      BY <3>4, <3>5
    <3> QED BY <3>1, <3>6 DEF S
  <2> QED BY <1>1, <2>1, <2>2, <2>3 DEF Counted, LeftOf, Held, OutliersAreFound
<1>4. CASE PickOutlier
  <2>1. PICK r \in sample : picked' = Append(picked, file[r]) /\ sample' = sample \ {r}
    BY <1>4 DEF PickOutlier
  <2>2. /\ phase = "test" /\ phase' = "test" /\ UNCHANGED <<legal, matched, outliers, offset>>
    BY <1>4 DEF PickOutlier, detectVars
  <2>3. Len(picked') = Len(picked) + 1
    BY <1>0, <2>1
  <2>4. ASSUME NEW v \in Values
        PROVE  (Cardinality(PicksIn(picked, v, Len(picked))) + Cardinality(LeftOf(v))
                 <= Cardinality(Held(v, Len(legal))))'
    <3>1. Cardinality(PicksIn(picked, v, Len(picked))) + Cardinality(LeftOf(v))
            <= Cardinality(Held(v, Len(legal)))
      BY <2>2 DEF Counted
    <3>2. Cardinality(PicksIn(Append(picked, file[r]), v, Len(picked) + 1))
            + Cardinality({q \in sample \ {r} : file[q] = v})
          <= Cardinality(Held(v, Len(legal)))
      BY <3>1, PickCounts
    <3>3. LeftOf(v)' = {q \in sample \ {r} : file[q] = v}
      BY <1>1, <2>1 DEF LeftOf
    <3>4. Held(v, Len(legal))' = Held(v, Len(legal))
      BY <1>1, <2>2 DEF Held
    <3>5. PicksIn(picked, v, Len(picked))' = PicksIn(Append(picked, file[r]), v, Len(picked) + 1)
      BY <2>1, <2>3 DEF PicksIn
    <3> QED BY <3>2, <3>3, <3>4, <3>5
  <2> QED BY <2>2, <2>4 DEF Counted, OutliersAreFound
<1>5. CASE NoMoreOutliers
  <2>1. /\ phase = "test" /\ phase' = "match"
        /\ UNCHANGED <<legal, picked, matched, outliers, offset>>
    BY <1>5 DEF NoMoreOutliers, outlierVars, detectVars
  <2>2. matched = 0 /\ outliers = <<>> /\ \A v \in Values : offset[v] = 0
    BY <2>1 DEF Counted
  <2>3. ASSUME NEW v \in Values
        PROVE  /\ Cardinality(PicksIn(picked, v, Len(picked))) <= Cardinality(Held(v, Len(legal)))
               /\ Cardinality(PicksIn(picked, v, matched)) = Cardinality(Held(v, offset[v]))
    <3>1. Cardinality(PicksIn(picked, v, Len(picked))) + Cardinality(LeftOf(v))
            <= Cardinality(Held(v, Len(legal)))
      BY <2>1 DEF Counted
    <3>2. /\ Cardinality(PicksIn(picked, v, Len(picked))) \in Nat
          /\ Cardinality(Held(v, Len(legal))) \in Nat
          /\ Cardinality(LeftOf(v)) \in Nat
      BY <1>0, PicksAreCounted, LeftIsFinite
    <3>3. PicksIn(picked, v, matched) = {} /\ Held(v, offset[v]) = {}
      BY <2>2, PicksAreCounted
    <3> QED BY <3>1, <3>2, <3>3
  <2> QED BY <1>1, <2>1, <2>2, <2>3 DEF Counted, Held, OutliersAreFound
<1>6. CASE MatchOutlier
  <2> DEFINE w == picked[matched + 1]
             p == First(Places(w))
  <2>1. /\ phase = "match" /\ phase' = "match" /\ matched < Len(picked)
        /\ matched' = matched + 1 /\ UNCHANGED <<legal, picked>>
    BY <1>6 DEF MatchOutlier, detectVars
  <2>2. Places(w) # {}
    BY <2>1, PlaceIsLeft
  <2>3. outliers' = Append(outliers, legal[p]) /\ offset' = [offset EXCEPT ![w] = p]
    BY <1>6, <2>2 DEF MatchOutlier
  <2>4. w \in Values
    BY <1>0, <2>1
  <2>5. /\ p \in 1 .. Len(legal) /\ file[legal[p]] = w
        /\ Cardinality(Held(w, p)) = Cardinality(Held(w, offset[w])) + 1
    BY <2>2, <2>4, OneMorePlace
  <2> HIDE DEF p
  <2>6. /\ Len(outliers) = matched /\ \A i \in DOMAIN outliers : file[outliers[i]] = picked[i]
    BY <2>1 DEF Counted, OutliersAreFound
  <2>7. /\ Len(outliers') = matched'
        /\ \A i \in DOMAIN outliers' : file[outliers'[i]] = picked[i]
    <3>1. legal[p] \in Rows
      BY <1>0, <2>5
    <3>2. /\ Len(outliers') = matched + 1 /\ DOMAIN outliers' = 1 .. matched + 1
          /\ DOMAIN outliers = 1 .. matched
          /\ \A i \in 1 .. matched : outliers'[i] = outliers[i]
          /\ outliers'[matched + 1] = legal[p]
      BY <1>0, <2>3, <2>6, <3>1
    <3> QED BY <1>0, <2>1, <2>5, <2>6, <3>2
  <2>8. ASSUME NEW v \in Values
        PROVE  Cardinality(PicksIn(picked, v, matched + 1)) = Cardinality(Held(v, offset'[v]))
    <3>1. Cardinality(PicksIn(picked, v, matched)) = Cardinality(Held(v, offset[v]))
      BY <2>1 DEF Counted
    <3>2. Cardinality(PicksIn(picked, v, matched + 1)) =
            Cardinality(PicksIn(picked, v, matched)) + IF w = v THEN 1 ELSE 0
      BY <1>0, OneMorePick
    <3>3. Cardinality(PicksIn(picked, v, matched)) \in Nat
      BY <1>0, PicksAreCounted
    <3>4. CASE v = w
      <4>1. offset'[v] = p
        BY <1>0, <2>3, <3>4
      <4> HIDE DEF w
      <4> QED BY <2>5, <3>1, <3>2, <3>4, <4>1
    <3>5. CASE v # w
      <4>1. offset'[v] = offset[v]
        BY <1>0, <2>3, <3>5
      <4> HIDE DEF w
      <4> QED BY <3>1, <3>2, <3>3, <3>5, <4>1
    <3> QED BY <3>4, <3>5
  <2>9. ASSUME NEW v \in Values
        PROVE  /\ Cardinality(PicksIn(picked, v, Len(picked))) <= Cardinality(Held(v, Len(legal)))
    BY <2>1 DEF Counted
  <2> QED BY <1>1, <2>1, <2>7, <2>8, <2>9 DEF Counted, Held, OutliersAreFound
<1>7. CASE Finish
  <2>1. /\ phase = "match" /\ phase' = "done" /\ UNCHANGED <<picked, matched, outliers>>
    BY <1>7 DEF Finish, outlierVars
  <2> QED BY <1>1, <2>1 DEF Counted, OutliersAreFound
<1>8. CASE Reported \/ UNCHANGED vars
  <2>1. UNCHANGED <<phase, legal, sample, picked, matched, offset, outliers>>
    BY <1>8 DEF Reported, vars
  <2> QED BY <1>1, <2>1 DEF Counted, Held, LeftOf, OutliersAreFound
<1> QED BY <1>2, <1>3, <1>4, <1>5, <1>6, <1>7, <1>8 DEF Next

\* Every outlier the test picks is found again in a row with its value, for files
\* of any length and whatever the test picks: the branch of finding that skips a
\* value it cannot find is never taken (outliers_action.cpp).
THEOREM PicksAreFound == Spec => []OutliersAreFound
<1>1. Typed /\ Counted => OutliersAreFound
  BY DEF Counted
<1> QED BY <1>1, TypedInit, TypedStep, CountedInit, CountedStep, PTL DEF Spec
=============================================================================
