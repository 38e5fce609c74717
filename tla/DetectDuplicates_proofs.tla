----------------------- MODULE DetectDuplicates_proofs -----------------------
(***************************************************************************)
(* Proofs about detect_duplicates, for any columns and any number of        *)
(* entries: no thread is left behind, what a search thread copies is what   *)
(* was built for it, the exit code follows from the files, and the report   *)
(* that is printed is complete.                                             *)
(***************************************************************************)
EXTENDS DetectDuplicates, FiniteSetTheorems, WellFoundedInduction, TLAPS

USE NoColumnAssumption, MaxEntriesAssumption

(***************************************************************************)
(* Induction over the natural numbers, stated for a set of numbers: from    *)
(* the least number that is missing from it.                                *)
(***************************************************************************)

\* A set that has 0 and, with every number, the next one has all of them.
LEMMA SetInduction ==
  ASSUME NEW S, 0 \in S, \A n \in Nat : n \in S => n + 1 \in S
  PROVE  Nat \subseteq S
<1> SUFFICES ASSUME Nat \ S # {} PROVE FALSE
  OBVIOUS
<1>1. PICK x \in Nat \ S : \A y \in Nat \ S : <<y, x>> \notin OpToRel(<, Nat)
  BY NatLessThanWellFounded, WFMin
<1>2. x # 0 /\ x - 1 \in Nat
  OBVIOUS
<1>3. <<x - 1, x>> \in OpToRel(<, Nat)
  BY <1>2 DEF OpToRel
<1>4. x - 1 \in S
  BY <1>1, <1>2, <1>3
<1> QED BY <1>2, <1>4

(***************************************************************************)
(* The entries that are kept.                                               *)
(***************************************************************************)

\* Whatever entries are removed, those that are left name columns, and they are
\* no more than there were (command_processing.cpp, remove_if).
LEMMA NamedType ==
  ASSUME NEW seq \in Seq(Columns \cup {NoColumn})
  PROVE  Named(seq) \in Seq(Columns) /\ Len(Named(seq)) <= Len(seq)
<1> DEFINE Entry(f, n) == IF n = 0 THEN <<>>
                          ELSE IF seq[n] = NoColumn THEN f[n - 1]
                          ELSE Append(f[n - 1], seq[n])
           Fills(f, m) == f = [n \in 0 .. m |-> Entry(f, n)]
           S == {m \in Nat : \E f : Fills(f, m)}
           named == CHOOSE f : Fills(f, Len(seq))
           Fine(m) == named[m] \in Seq(Columns) /\ Len(named[m]) <= m
           T == {m \in Nat : m <= Len(seq) => Fine(m)}
<1>1. \E f : Fills(f, 0)
  <2> DEFINE f0 == [n \in 0 .. 0 |-> <<>>]
  <2>1. Fills(f0, 0)
    OBVIOUS
  <2> QED BY <2>1
<1>2. ASSUME NEW m \in Nat, NEW f, Fills(f, m)
      PROVE  \E g : Fills(g, m + 1)
  <2> DEFINE g == [n \in 0 .. m + 1 |-> IF n <= m THEN f[n] ELSE Entry(f, n)]
  <2>1. ASSUME NEW n \in 0 .. m + 1 PROVE g[n] = Entry(g, n)
    <3>1. CASE n \in 0 .. m
      <4>1. g[n] = f[n] /\ (n # 0 => g[n - 1] = f[n - 1])
        BY <3>1
      <4>2. f[n] = Entry(f, n)
        BY <1>2, <3>1
      <4> QED BY <4>1, <4>2
    <3>2. CASE n = m + 1
      <4>1. g[n] = Entry(f, n) /\ g[n - 1] = f[n - 1]
        BY <3>2
      <4> QED BY <4>1
    <3> QED BY <3>1, <3>2
  <2>2. Fills(g, m + 1)
    <3> HIDE DEF Entry
    <3> QED BY <2>1
  <2> QED BY <2>2
<1>3. \E f : Fills(f, Len(seq))
  <2> HIDE DEF Fills
  <2>1. 0 \in S /\ \A m \in Nat : m \in S => m + 1 \in S
    BY <1>1, <1>2
  <2>2. Nat \subseteq S
    <3> HIDE DEF S
    <3> QED BY <2>1, SetInduction
  <2>3. Len(seq) \in Nat
    OBVIOUS
  <2> QED BY <2>2, <2>3
<1>4. Fills(named, Len(seq))
  <2> HIDE DEF Fills
  <2> QED BY <1>3
<1>5. Named(seq) = named[Len(seq)]
  BY DEF Named
<1> HIDE DEF named
<1>6. \A n \in 0 .. Len(seq) : named[n] = Entry(named, n)
  BY <1>4
<1>7. 0 \in T
  <2>1. named[0] = <<>>
    BY <1>6
  <2>2. <<>> \in Seq(Columns) /\ Len(<<>>) <= 0
    OBVIOUS
  <2>3. Fine(0)
    BY <2>1, <2>2, Zenon
  <2> QED BY <2>3
<1>8. ASSUME NEW m \in Nat, m \in T PROVE m + 1 \in T
  <2> SUFFICES ASSUME m + 1 <= Len(seq) PROVE Fine(m + 1)
    OBVIOUS
  <2>1. named[m + 1] = Entry(named, m + 1)
    BY <1>6
  <2>2. Fine(m) /\ seq[m + 1] \in Columns \cup {NoColumn}
    BY <1>8
  <2>3. CASE seq[m + 1] = NoColumn
    BY <2>1, <2>2, <2>3
  <2>4. CASE seq[m + 1] \in Columns
    <3>1. named[m + 1] = Append(named[m], seq[m + 1])
      BY <2>1, <2>4
    <3>2. /\ Append(named[m], seq[m + 1]) \in Seq(Columns)
          /\ Len(Append(named[m], seq[m + 1])) = Len(named[m]) + 1
      BY <2>2, <2>4
    <3> QED BY <2>2, <3>1, <3>2
  <2> QED BY <2>2, <2>3, <2>4
<1>9. Nat \subseteq T
  <2> HIDE DEF T
  <2> QED BY <1>7, <1>8, SetInduction
<1>10. Len(seq) \in Nat
  OBVIOUS
<1> QED BY <1>5, <1>9, <1>10

\* The entries of a configuration, when parse_command is done with them.
LEMMA ListType ==
  ASSUME NEW list \in Lists
  PROVE  Named(list) \in Seq(Columns) /\ Len(Named(list)) <= MaxEntries
<1>1. PICK n \in 0 .. MaxEntries : list \in [1 .. n -> Columns \cup {NoColumn}]
  BY DEF Lists
<1>2. list \in Seq(Columns \cup {NoColumn}) /\ Len(list) = n
  BY <1>1
<1>3. QED
  BY <1>1, <1>2, NamedType

-----------------------------------------------------------------------------
(***************************************************************************)
(* Types, and where a thread may be at each step of the calling thread.     *)
(***************************************************************************)
Typed ==
  /\ job \in Jobs
  /\ dups \in Seq(Columns) /\ Len(dups) <= MaxEntries
  /\ outs \in Seq(Columns) /\ Len(outs) <= MaxEntries
  /\ pc \in {"parse", "launch_scans", "get_scans", "launch_searches",
             "get_searches", "unwind", "done"}
  /\ scan \in [Tasks -> ThreadStates \ {"copied"}]
  /\ search \in [Tasks -> ThreadStates]
  /\ next \in Nat \ {0}
  /\ thrown \in Codes
  /\ outcome # Running => pc = "done"

\* A thread is idle or has an entry.  Before an entry is launched its thread is
\* idle, and after its answer was read it has returned.
Threads ==
  /\ \A i \in Tasks : /\ scan[i] # "idle" => i <= Len(dups)
                      /\ search[i] # "idle" => i <= Len(outs)
  /\ pc = "parse" => \A i \in Tasks : scan[i] = "idle"
  /\ pc = "launch_scans" => \A i \in Tasks : i >= next => scan[i] = "idle"
  /\ pc = "get_scans" => \A i \in Tasks : i < next => scan[i] \in {"idle", "returned"}
  /\ pc \in {"launch_searches", "get_searches"} => \A i \in Tasks : ~Active(scan[i])
  /\ pc \in {"parse", "launch_scans", "get_scans"} =>
       \A i \in Tasks : search[i] = "idle"
  /\ pc = "launch_searches" => \A i \in Tasks : i >= next => search[i] = "idle"
  /\ pc = "get_searches" => \A i \in Tasks : i < next => search[i] \in {"idle", "returned"}
  /\ pc = "done" => \A i \in Tasks : ~Active(scan[i]) /\ ~Active(search[i])

TInv == Typed /\ Threads

LEMMA InitTInv == Init => TInv
<1> SUFFICES ASSUME Init PROVE TInv
  OBVIOUS
<1>1. <<>> \in Seq(Columns) /\ Len(<<>>) <= MaxEntries
  OBVIOUS
<1>2. Typed
  BY <1>1 DEF Init, Typed, ThreadStates, Codes, Running
<1>3. Threads
  BY DEF Init, Threads
<1>4. QED
  BY <1>2, <1>3 DEF TInv

LEMMA ParseTInv ==
  ASSUME TInv, ParseCommand
  PROVE  TInv'
<1>1. /\ dups' \in Seq(Columns) /\ Len(dups') <= MaxEntries
      /\ outs' \in Seq(Columns) /\ Len(outs') <= MaxEntries
  BY ListType DEF ParseCommand, TInv, Typed, Jobs
<1>2. /\ UNCHANGED <<job, scan, search, next, thrown>>
      /\ pc = "parse"
      /\ \/ pc' = "done"
         \/ pc' = "launch_scans" /\ UNCHANGED outcome
  BY DEF ParseCommand, Finish, threadVars
<1>3. Typed'
  BY <1>1, <1>2 DEF TInv, Typed
<1>4. Threads'
  BY <1>1, <1>2 DEF TInv, Typed, Threads, Active
<1>5. QED
  BY <1>3, <1>4 DEF TInv

\* A step of a thread only moves its own state, from an active one.
ThreadMoves(i) ==
  /\ UNCHANGED <<job, dups, outs, pc, next, thrown, outcome>>
  /\ \/ /\ scan[i] = "started"
        /\ scan' = [scan EXCEPT ![i] = scan'[i]]
        /\ scan'[i] \in {"returned", "failed"}
        /\ search' = search
     \/ /\ Active(search[i])
        /\ search' = [search EXCEPT ![i] = search'[i]]
        /\ search'[i] \in {"copied", "returned", "failed"}
        /\ scan' = scan

LEMMA ThreadMovesOnly ==
  ASSUME TInv, NEW i \in Tasks, Thread(i)
  PROVE  ThreadMoves(i)
<1>1. CASE ScanColumn(i)
  BY <1>1 DEF ScanColumn, argVars, ThreadMoves, TInv, Typed
<1>2. CASE CopyInput(i)
  BY <1>2 DEF CopyInput, argVars, ThreadMoves, Active, TInv, Typed
<1>3. CASE DetectOutliers(i)
  BY <1>3 DEF DetectOutliers, argVars, ThreadMoves, Active, TInv, Typed
<1>4. QED
  BY <1>1, <1>2, <1>3 DEF Thread

LEMMA ThreadTInv ==
  ASSUME TInv, NEW i \in Tasks, Thread(i)
  PROVE  TInv'
<1>1. ThreadMoves(i)
  BY ThreadMovesOnly
<1>2. Typed'
  BY <1>1 DEF ThreadMoves, TInv, Typed, ThreadStates
<1>3. \A j \in Tasks :
        /\ scan'[j] = scan[j] \/ (scan[j] = "started" /\ scan'[j] \in {"returned", "failed"})
        /\ search'[j] = search[j] \/ Active(search[j])
  BY <1>1 DEF ThreadMoves, TInv, Typed
<1>4. Threads'
  BY <1>1, <1>3 DEF ThreadMoves, TInv, Threads, Active
<1>5. QED
  BY <1>2, <1>4 DEF TInv

\* An exception in the calling thread.
LEMMA ThrowTInv ==
  ASSUME TInv, outcome = Running, NEW code \in Codes, Throw(code),
         UNCHANGED <<argVars, threadVars, next, outcome>>
  PROVE  TInv'
<1>1. /\ UNCHANGED <<job, dups, outs, scan, search, next, outcome>>
      /\ pc' = "unwind" /\ thrown' = code
  BY DEF argVars, threadVars, Throw
<1>2. Typed'
  BY <1>1 DEF TInv, Typed
<1>3. Threads'
  BY <1>1 DEF TInv, Threads
<1>4. QED
  BY <1>2, <1>3 DEF TInv

\* The answer of the calling thread, when no thread is left.
LEMMA FinishTInv ==
  ASSUME TInv, NEW code, Finish(code),
         \A i \in Tasks : ~Active(scan[i]) /\ ~Active(search[i]),
         UNCHANGED <<argVars, threadVars, next, thrown>>
  PROVE  TInv'
<1>1. /\ UNCHANGED <<job, dups, outs, scan, search, next, thrown>>
      /\ pc' = "done"
  BY DEF argVars, threadVars, Finish
<1>2. Typed'
  BY <1>1 DEF TInv, Typed
<1>3. Threads'
  BY <1>1 DEF TInv, Threads
<1>4. QED
  BY <1>2, <1>3 DEF TInv

\* An entry's number is the number of a thread.
LEMMA NextIsTask ==
  ASSUME TInv
  PROVE  /\ DOMAIN dups = 1 .. Len(dups) /\ DOMAIN outs = 1 .. Len(outs)
         /\ Len(dups) \in Nat /\ Len(outs) \in Nat
         /\ next \in DOMAIN dups \/ next \in DOMAIN outs => next \in Tasks
  BY DEF TInv, Typed, Tasks

LEMMA LaunchTInv ==
  ASSUME TInv, LaunchScan \/ ScansLaunched \/ LaunchSearch \/ SearchesLaunched \/ NoThread
  PROVE  TInv'
<1> USE NextIsTask
<1>1. CASE LaunchScan /\ Access(dups[next]) = "missing"
  <2>1. outcome = Running /\ NoSuchPath \in Codes
    BY <1>1 DEF LaunchScan, TInv, Typed, Codes
  <2>2. Throw(NoSuchPath) /\ UNCHANGED <<argVars, threadVars, next, outcome>>
    BY <1>1 DEF LaunchScan, threadVars
  <2> QED BY <2>1, <2>2, ThrowTInv
<1>2. CASE LaunchScan /\ Access(dups[next]) # "missing"
  <2>1. /\ UNCHANGED <<job, dups, outs, pc, search, thrown, outcome>>
        /\ pc = "launch_scans" /\ next \in 1 .. Len(dups) /\ next \in Tasks
        /\ scan' = [scan EXCEPT ![next] = "started"] /\ next' = next + 1
    BY <1>2 DEF LaunchScan, argVars
  <2>2. Typed'
    BY <2>1 DEF TInv, Typed, ThreadStates
  <2>3. \A i \in Tasks : scan'[i] = IF i = next THEN "started" ELSE scan[i]
    BY <2>1 DEF TInv, Typed
  <2>4. \A i \in Tasks : i \in Nat /\ next \in Nat
    BY DEF Tasks, TInv, Typed
  <2>5. Threads'
    BY <2>1, <2>3, <2>4 DEF TInv, Threads
  <2> QED BY <2>2, <2>5 DEF TInv
<1>3. CASE ScansLaunched
  BY <1>3 DEF ScansLaunched, TInv, Typed, Threads, argVars, reportVars, threadVars, Tasks
<1>4. CASE LaunchSearch
  <2>1. /\ UNCHANGED <<job, dups, outs, pc, scan, thrown, outcome>>
        /\ pc = "launch_searches" /\ next \in 1 .. Len(outs) /\ next \in Tasks
        /\ search' = [search EXCEPT ![next] = "started"] /\ next' = next + 1
    BY <1>4 DEF LaunchSearch, argVars
  <2>2. Typed'
    BY <2>1 DEF TInv, Typed, ThreadStates
  <2>3. \A i \in Tasks : search'[i] = IF i = next THEN "started" ELSE search[i]
    BY <2>1 DEF TInv, Typed
  <2>4. \A i \in Tasks : i \in Nat /\ next \in Nat
    BY DEF Tasks, TInv, Typed
  <2>5. Threads'
    BY <2>1, <2>3, <2>4 DEF TInv, Threads, Active
  <2> QED BY <2>2, <2>5 DEF TInv
<1>5. CASE SearchesLaunched
  BY <1>5 DEF SearchesLaunched, TInv, Typed, Threads, argVars, reportVars, threadVars, Tasks
<1>6. CASE NoThread
  <2>1. outcome = Running /\ RuntimeError \in Codes
    BY <1>6 DEF NoThread, TInv, Typed, Codes
  <2> QED BY <1>6, <2>1, ThrowTInv DEF NoThread
<1>7. QED
  BY <1>1, <1>2, <1>3, <1>4, <1>5, <1>6

LEMMA CollectTInv ==
  ASSUME TInv, GetScan \/ BuildActions \/ GetSearch \/ Merge \/ Unwind
  PROVE  TInv'
<1> USE NextIsTask
<1>1. CASE GetScan
  <2>1. outcome = Running /\ AccessDenied \in Codes
    BY <1>1 DEF GetScan, TInv, Typed, Codes
  <2>2. CASE scan[next] = "failed"
    <3>1. Throw(AccessDenied) /\ UNCHANGED <<argVars, threadVars, next, outcome>>
      BY <1>1, <2>2 DEF GetScan
    <3> QED BY <2>1, <3>1, ThrowTInv
  <2>3. CASE scan[next] # "failed"
    <3>1. /\ UNCHANGED <<job, dups, outs, pc, scan, search, thrown, outcome>>
          /\ pc = "get_scans" /\ scan[next] = "returned" /\ next' = next + 1
      BY <1>1, <2>3 DEF GetScan, argVars, threadVars
    <3>2. Typed'
      BY <3>1 DEF TInv, Typed
    <3>3. \A i \in Tasks : i \in Nat /\ next \in Nat
      BY DEF Tasks, TInv, Typed
    <3>4. Threads'
      BY <3>1, <3>3 DEF TInv, Threads
    <3> QED BY <3>2, <3>4 DEF TInv
  <2> QED BY <2>2, <2>3
<1>2. CASE BuildActions
  <2>1. outcome = Running /\ NoSuchPath \in Codes
    BY <1>2 DEF BuildActions, TInv, Typed, Codes
  <2>2. CASE pc' = "launch_searches"
    <3>1. /\ UNCHANGED <<job, dups, outs, scan, search, thrown, outcome>>
          /\ pc = "get_scans" /\ next \notin 1 .. Len(dups) /\ next' = 1
      BY <1>2, <2>2 DEF BuildActions, argVars, threadVars, Throw
    <3>2. Typed'
      BY <2>2, <3>1 DEF TInv, Typed
    <3>3. next > Len(dups)
      BY <3>1 DEF TInv, Typed
    <3>4. \A i \in Tasks : ~Active(scan[i])
      <4> TAKE i \in Tasks
      <4>1. scan[i] # "idle" => i < next
        BY <3>3 DEF TInv, Threads, Typed, Tasks
      <4>2. scan[i] \in {"idle", "returned"}
        BY <3>1, <4>1 DEF TInv, Threads
      <4> QED BY <4>2 DEF Active
    <3>5. Threads'
      BY <2>2, <3>1, <3>4 DEF TInv, Threads
    <3> QED BY <3>2, <3>5 DEF TInv
  <2>3. CASE pc' # "launch_searches"
    <3>1. Throw(NoSuchPath) /\ UNCHANGED <<argVars, threadVars, next, outcome>>
      BY <1>2, <2>3 DEF BuildActions
    <3> QED BY <2>1, <3>1, ThrowTInv
  <2> QED BY <2>2, <2>3
<1>3. CASE GetSearch
  <2>1. outcome = Running /\ AccessDenied \in Codes
    BY <1>3 DEF GetSearch, TInv, Typed, Codes
  <2>2. CASE search[next] = "failed"
    <3>1. Throw(AccessDenied) /\ UNCHANGED <<argVars, threadVars, next, outcome>>
      BY <1>3, <2>2 DEF GetSearch
    <3> QED BY <2>1, <3>1, ThrowTInv
  <2>3. CASE search[next] # "failed"
    <3>1. /\ UNCHANGED <<job, dups, outs, pc, scan, search, thrown, outcome>>
          /\ pc = "get_searches" /\ search[next] = "returned" /\ next' = next + 1
      BY <1>3, <2>3 DEF GetSearch, argVars, threadVars
    <3>2. Typed'
      BY <3>1 DEF TInv, Typed
    <3>3. \A i \in Tasks : i \in Nat /\ next \in Nat
      BY DEF Tasks, TInv, Typed
    <3>4. Threads'
      BY <3>1, <3>3 DEF TInv, Threads
    <3> QED BY <3>2, <3>4 DEF TInv
  <2> QED BY <2>2, <2>3
<1>4. CASE Merge
  <2>1. /\ pc = "get_searches" /\ next \notin 1 .. Len(outs) /\ Finish(0)
        /\ UNCHANGED <<argVars, threadVars, next, thrown>>
    BY <1>4 DEF Merge
  <2>2. next > Len(outs)
    BY <2>1 DEF TInv, Typed
  <2>3. \A i \in Tasks : ~Active(scan[i]) /\ ~Active(search[i])
    <3> TAKE i \in Tasks
    <3>1. search[i] # "idle" => i < next
      BY <2>2 DEF TInv, Threads, Typed, Tasks
    <3>2. search[i] \in {"idle", "returned"} /\ ~Active(scan[i])
      BY <2>1, <3>1 DEF TInv, Threads
    <3> QED BY <3>2 DEF Active
  <2> QED BY <2>1, <2>3, FinishTInv
<1>5. CASE Unwind
  BY <1>5, FinishTInv DEF Unwind
<1>6. QED
  BY <1>1, <1>2, <1>3, <1>4, <1>5

LEMMA NextTInv == TInv /\ [Next]_vars => TInv'
<1> SUFFICES ASSUME TInv, [Next]_vars PROVE TInv'
  OBVIOUS
<1>1. ASSUME NEW c \in Columns, Vanish(c) PROVE TInv'
  BY <1>1 DEF Vanish, TInv, Typed, Threads, threadVars, reportVars
<1>2. CASE UNCHANGED vars
  BY <1>2 DEF vars, TInv, Typed, Threads
<1>3. QED
  BY <1>1, <1>2, ParseTInv, ThreadTInv, LaunchTInv, CollectTInv DEF Next, Main, Done

\* The threads of both rounds are where the calling thread expects them, in
\* every reachable state.
THEOREM ThreadInvariance == Spec => []TInv
BY InitTInv, NextTInv, PTL DEF Spec

\* No exit code is returned while a thread still runs, for any number of
\* entries: the destructors of the futures make an exception wait.
THEOREM NoThreadLeft == Spec => []ThreadsJoined
<1>1. TInv => ThreadsJoined
  BY DEF TInv, Typed, Threads, ThreadsJoined
<1>2. QED
  BY <1>1, ThreadInvariance, PTL
-----------------------------------------------------------------------------
(***************************************************************************)
(* What a search thread is given.                                           *)
(***************************************************************************)
Built(i) == Report(outs[i], FirstFor(outs[i], dups))

\* The reports of a round that is being launched are as they were built, and
\* so is the one of a thread that has not read it yet: no report is overwritten
\* before its own thread has returned, and none is destroyed before all have.
Handed ==
  /\ pc = "launch_searches" =>
       /\ DOMAIN actions = DOMAIN outs
       /\ \A i \in DOMAIN outs : actions[i] = Built(i)
  /\ \A i \in Tasks : search[i] = "started" => i \in DOMAIN actions /\ actions[i] = Built(i)
  /\ DOMAIN input = Tasks
  /\ InputsAreIntact

IInv == TInv /\ Handed

LEMMA InitIInv == Init => IInv
<1>1. Init => Handed
  BY DEF Init, Handed, InputsAreIntact
<1>2. QED
  BY <1>1, InitTInv DEF IInv

\* Steps that leave the reports, the search threads and their inputs alone.
LEMMA SameSearches ==
  ASSUME Handed, UNCHANGED <<dups, outs, search, input, actions>>,
         pc' # "launch_searches"
  PROVE  Handed'
BY DEF Handed, InputsAreIntact, Built, FirstFor, Entries

LEMMA SearchHanded ==
  ASSUME IInv, NEW i \in Tasks, CopyInput(i) \/ DetectOutliers(i)
  PROVE  Handed'
<1>1. /\ UNCHANGED <<dups, outs, pc, actions>>
      /\ search' = [search EXCEPT ![i] = search'[i]]
      /\ search'[i] \in {"copied", "returned", "failed"}
      /\ DOMAIN input' = Tasks
      /\ \A j \in Tasks \ {i} : input'[j] = input[j]
  BY DEF CopyInput, DetectOutliers, argVars, reportVars, IInv, TInv, Typed, Handed
<1>2. \A j : Built(j)' = Built(j)
  BY <1>1 DEF Built, FirstFor, Entries
<1>3. input'[i] = Built(i)
  <2>1. CASE CopyInput(i)
    <3>1. search[i] = "started" /\ i \in DOMAIN actions /\ actions[i] = Built(i)
      BY <2>1 DEF CopyInput, IInv, Handed
    <3> QED BY <2>1, <3>1 DEF CopyInput, IInv, Handed
  <2>2. CASE DetectOutliers(i)
    BY <2>2 DEF DetectOutliers, IInv, Handed, InputsAreIntact, Built
  <2> QED BY <2>1, <2>2
<1>4. \A j \in Tasks \ {i} : search'[j] = search[j] /\ input'[j] = input[j]
  BY <1>1 DEF IInv, TInv, Typed
<1>5. InputsAreIntact'
  BY <1>1, <1>2, <1>3, <1>4 DEF IInv, Handed, InputsAreIntact, Built
<1>6. QED
  BY <1>1, <1>2, <1>4, <1>5 DEF IInv, Handed

LEMMA MainHanded ==
  ASSUME IInv, TInv', Main
  PROVE  Handed'
<1> USE DEF argVars, threadVars, reportVars
<1>1. CASE ParseCommand
  <2>1. \A i \in Tasks : search'[i] = "idle"
    BY <1>1 DEF ParseCommand, IInv, TInv, Threads
  <2>2. pc' # "launch_searches"
    BY <1>1 DEF ParseCommand, Finish
  <2>3. DOMAIN input' = Tasks
    BY <1>1 DEF ParseCommand, IInv, Handed
  <2> QED BY <2>1, <2>2, <2>3 DEF Handed, InputsAreIntact
<1>2. CASE LaunchScan
  BY <1>2, SameSearches DEF LaunchScan, Throw, IInv
<1>3. CASE ScansLaunched
  BY <1>3, SameSearches DEF ScansLaunched, IInv
<1>4. CASE GetScan
  BY <1>4, SameSearches DEF GetScan, Throw, IInv
<1>5. CASE BuildActions
  <2>1. \A i \in Tasks : search'[i] = "idle"
    BY <1>5 DEF BuildActions, IInv, TInv, Threads
  <2>2. /\ UNCHANGED <<dups, outs>>
        /\ pc' = "launch_searches" =>
             actions' = [i \in DOMAIN outs |-> Report(outs[i], FirstFor(outs[i], dups))]
    BY <1>5 DEF BuildActions, Throw
  <2>3. \A i \in DOMAIN outs : Built(i)' = Built(i)
    BY <2>2 DEF Built, FirstFor, Entries
  <2>4. DOMAIN input' = Tasks
    BY <1>5 DEF BuildActions, IInv, Handed
  <2> QED BY <2>1, <2>2, <2>3, <2>4 DEF Handed, InputsAreIntact, Built
<1>6. CASE LaunchSearch
  <2>1. /\ UNCHANGED <<dups, outs, pc, input, actions>> /\ pc = "launch_searches"
        /\ next \in DOMAIN outs
        /\ search' = [search EXCEPT ![next] = "started"]
    BY <1>6 DEF LaunchSearch
  <2>2. \A i : Built(i)' = Built(i)
    BY <2>1 DEF Built, FirstFor, Entries
  <2>3. \A i \in Tasks : search'[i] = IF i = next THEN "started" ELSE search[i]
    BY <2>1 DEF IInv, TInv, Typed
  <2>4. InputsAreIntact'
    BY <2>1, <2>2, <2>3 DEF IInv, Handed, InputsAreIntact, Built
  <2> QED BY <2>1, <2>2, <2>3, <2>4 DEF IInv, Handed
<1>7. CASE SearchesLaunched
  BY <1>7, SameSearches DEF SearchesLaunched, IInv
<1>8. CASE GetSearch
  <2>1. CASE actions' = actions
    BY <1>8, <2>1, SameSearches DEF GetSearch, Throw, IInv
  <2>2. CASE actions' # actions
    <3>1. /\ UNCHANGED <<dups, outs, search, input, pc>> /\ pc = "get_searches"
          /\ search[next] = "returned"
          /\ actions' = [actions EXCEPT ![next] = Answer(next)]
      BY <1>8, <2>2 DEF GetSearch
    <3>2. \A i : Built(i)' = Built(i)
      BY <3>1 DEF Built, FirstFor, Entries
    <3>3. InputsAreIntact'
      BY <3>1, <3>2 DEF IInv, Handed, InputsAreIntact, Built
    <3>4. \A i \in Tasks : search'[i] = "started" =>
            i \in DOMAIN actions' /\ actions'[i] = actions[i]
      BY <3>1 DEF IInv, Handed
    <3> QED BY <3>1, <3>2, <3>3, <3>4 DEF IInv, Handed
  <2> QED BY <2>1, <2>2
<1>9. CASE Merge \/ Unwind
  <2>1. /\ UNCHANGED <<dups, outs, search, input>> /\ pc' = "done"
    BY <1>9 DEF Merge, Unwind, Finish
  <2>2. \A i \in Tasks : search'[i] # "started"
    BY <2>1 DEF TInv, Threads, Active
  <2>3. InputsAreIntact'
    BY <2>1 DEF IInv, Handed, InputsAreIntact, FirstFor, Entries
  <2> QED BY <2>1, <2>2, <2>3 DEF IInv, Handed
<1>10. QED
  BY <1>1, <1>2, <1>3, <1>4, <1>5, <1>6, <1>7, <1>8, <1>9 DEF Main

LEMMA NextIInv == IInv /\ [Next]_vars => IInv'
<1> SUFFICES ASSUME IInv, [Next]_vars PROVE IInv'
  OBVIOUS
<1> USE DEF argVars, threadVars, reportVars
<1>1. TInv'
  BY NextTInv DEF IInv
<1>2. ASSUME pc' = pc, UNCHANGED <<dups, outs, search, input, actions>> PROVE Handed'
  <2>1. \A i : Built(i)' = Built(i)
    BY <1>2 DEF Built, FirstFor, Entries
  <2>2. InputsAreIntact'
    BY <1>2, <2>1 DEF IInv, Handed, InputsAreIntact, Built
  <2> QED BY <1>2, <2>1, <2>2 DEF IInv, Handed
<1>3. ASSUME NEW c \in Columns, Vanish(c) PROVE Handed'
  BY <1>2, <1>3 DEF Vanish
<1>4. CASE UNCHANGED vars
  BY <1>1, <1>2, <1>4 DEF vars, IInv
<1>5. CASE NoThread
  BY <1>1, <1>5, SameSearches DEF NoThread, Throw, IInv
<1>6. ASSUME NEW i \in Tasks, ScanColumn(i) PROVE Handed'
  BY <1>2, <1>6 DEF ScanColumn
<1>7. QED
  BY <1>1, <1>3, <1>4, <1>5, <1>6, MainHanded, SearchHanded DEF Next, Thread, Done, IInv

\* No search thread ever copies a report that was overwritten by an answer or
\* destroyed by an exception, for any number of entries, whichever columns they
\* name and in whatever order the threads run.
THEOREM NoStaleInput == Spec => []InputsAreIntact
<1>1. Spec => []IInv
  BY InitIInv, NextIInv, PTL DEF Spec
<1>2. IInv => InputsAreIntact
  BY DEF IInv, Handed
<1>3. QED
  BY <1>1, <1>2, PTL
-----------------------------------------------------------------------------
(***************************************************************************)
(* The exit code, while no file vanishes.                                   *)
(***************************************************************************)
File(c) == job.access[c]

\* The program got as far as launching threads.
Starts == job.conf /\ job.source /\ ~(dups = <<>> /\ outs = <<>>)

\* What each step of the calling thread has established about the files.
Established ==
  /\ pc = "parse" => next = 1
  /\ pc \notin {"parse", "done"} => Starts
  /\ pc = "launch_scans" => \A j \in DOMAIN dups : j < next => File(dups[j]) # "missing"
  /\ pc = "get_scans" =>
       /\ \A j \in DOMAIN dups : File(dups[j]) # "missing"
       /\ \A j \in DOMAIN dups : j < next => File(dups[j]) = "readable"
  /\ pc \in {"launch_searches", "get_searches"} =>
       /\ \A j \in DOMAIN dups : File(dups[j]) = "readable"
       /\ \A j \in DOMAIN outs : File(outs[j]) # "missing"
  /\ pc = "get_searches" => \A j \in DOMAIN outs : j < next => File(outs[j]) = "readable"

\* What an answer of a thread tells about its file.
Answers ==
  \A i \in Tasks : /\ scan[i] = "returned" => File(dups[i]) = "readable"
                   /\ scan[i] = "failed" => File(dups[i]) # "readable"
                   /\ search[i] = "returned" => File(outs[i]) = "readable"
                   /\ search[i] = "failed" => File(outs[i]) # "readable"

Code ==
  /\ pc = "unwind" /\ thrown # RuntimeError => thrown = ExpectedCode
  /\ pc = "done" /\ thrown # RuntimeError => outcome = ExpectedCode

CInv == IInv /\ (gone = {} => Established /\ Answers /\ Code)

LEMMA InitCInv == Init => CInv
<1>1. Init => Established /\ Answers /\ Code
  BY DEF Init, Established, Answers, Code
<1>2. QED
  BY <1>1, InitIInv DEF CInv

\* The exit code by the first thing that is wrong with the files.
LEMMA CodeCases ==
  ASSUME Starts
  PROVE  /\ (\E j \in DOMAIN dups : File(dups[j]) = "missing") =>
              ExpectedCode = NoSuchPath
         /\ (\A j \in DOMAIN dups : File(dups[j]) # "missing")
            /\ (\E j \in DOMAIN dups : File(dups[j]) = "unreadable") =>
              ExpectedCode = AccessDenied
         /\ (\A j \in DOMAIN dups : File(dups[j]) = "readable")
            /\ (\E j \in DOMAIN outs : File(outs[j]) = "missing") =>
              ExpectedCode = NoSuchPath
         /\ (\A j \in DOMAIN dups : File(dups[j]) = "readable")
            /\ (\A j \in DOMAIN outs : File(outs[j]) # "missing")
            /\ (\E j \in DOMAIN outs : File(outs[j]) = "unreadable") =>
              ExpectedCode = AccessDenied
         /\ (\A j \in DOMAIN dups : File(dups[j]) = "readable")
            /\ (\A j \in DOMAIN outs : File(outs[j]) = "readable") =>
              ExpectedCode = 0
<1> DEFINE scanned == {File(c) : c \in Entries(dups)}
           searched == {File(c) : c \in Entries(outs)}
<1>1. ExpectedCode = IF "missing" \in scanned THEN NoSuchPath
                     ELSE IF "unreadable" \in scanned THEN AccessDenied
                     ELSE IF "missing" \in searched THEN NoSuchPath
                     ELSE IF "unreadable" \in searched THEN AccessDenied
                     ELSE 0
  BY DEF Starts, ExpectedCode, File
<1>2. \A f : /\ f \in scanned <=> \E j \in DOMAIN dups : File(dups[j]) = f
             /\ f \in searched <=> \E j \in DOMAIN outs : File(outs[j]) = f
  BY DEF Entries
<1> HIDE DEF scanned, searched
<1>3. "missing" # "readable" /\ "unreadable" # "readable" /\ "unreadable" # "missing"
  OBVIOUS
<1>4. QED
  BY <1>1, <1>2, <1>3

\* Every file is one of the three kinds.
LEMMA FileKinds ==
  ASSUME TInv
  PROVE  /\ \A j \in DOMAIN dups : File(dups[j]) \in {"readable", "unreadable", "missing"}
         /\ \A j \in DOMAIN outs : File(outs[j]) \in {"readable", "unreadable", "missing"}
<1>1. /\ \A j \in DOMAIN dups : dups[j] \in Columns
      /\ \A j \in DOMAIN outs : outs[j] \in Columns
  BY DEF TInv, Typed
<1>2. \A c \in Columns : File(c) \in {"readable", "unreadable", "missing"}
  BY DEF TInv, Typed, Jobs, File
<1>3. QED
  BY <1>1, <1>2

\* Steps of the threads: a search reads the file of the report it was given.
LEMMA ThreadCode ==
  ASSUME CInv, gone = {}, NEW i \in Tasks, Thread(i)
  PROVE  Established' /\ Answers' /\ Code'
<1>1. ThreadMoves(i) /\ TInv
  BY ThreadMovesOnly DEF CInv, IInv
<1>2. Established' /\ Code'
  BY <1>1 DEF CInv, Established, Code, ThreadMoves, Starts, File, ExpectedCode
<1>3. \A c : Access(c) = File(c)
  BY DEF Access, File, CInv
<1>4. CASE ScanColumn(i)
  <2>1. /\ UNCHANGED <<job, dups, outs, search>>
        /\ scan' = [scan EXCEPT ![i] = IF File(dups[i]) = "readable"
                                       THEN "returned" ELSE "failed"]
    BY <1>3, <1>4 DEF ScanColumn, argVars
  <2>2. Answers'
    BY <1>1, <2>1 DEF Answers, File, CInv, TInv, Typed
  <2> QED BY <1>2, <2>2
<1>5. CASE CopyInput(i)
  <2>1. /\ UNCHANGED <<job, dups, outs, scan>>
        /\ search' = [search EXCEPT ![i] = "copied"]
    BY <1>5 DEF CopyInput, argVars
  <2>2. Answers'
    BY <1>1, <2>1 DEF Answers, File, CInv, TInv, Typed
  <2> QED BY <1>2, <2>2
<1>6. CASE DetectOutliers(i)
  <2>1. input[i] = Built(i)
    BY <1>6 DEF DetectOutliers, CInv, IInv, Handed, InputsAreIntact, Built
  <2>2. input[i].column = outs[i]
    BY <2>1 DEF Built, Report
  <2>3. i \in 1 .. Len(outs)
    BY <1>1, <1>6 DEF DetectOutliers, TInv, Typed, Threads, Tasks
  <2>4. outs[i] \in Columns
    BY <1>1, <2>3 DEF TInv, Typed
  <2>5. input[i] # NoReport
    <3>1. NoReport.column = NoColumn
      BY DEF NoReport
    <3> QED BY <2>2, <2>4, <3>1
  <2>6. /\ UNCHANGED <<job, dups, outs, scan>>
        /\ search' = [search EXCEPT ![i] = IF File(outs[i]) = "readable"
                                           THEN "returned" ELSE "failed"]
    BY <1>3, <1>6, <2>2, <2>5 DEF DetectOutliers, argVars
  <2>7. Answers'
    BY <1>1, <2>6 DEF Answers, File, CInv, TInv, Typed
  <2> QED BY <1>2, <2>7
<1>7. QED
  BY <1>4, <1>5, <1>6 DEF Thread

\* An exception whose code is the one the files call for.
LEMMA ThrowCode ==
  ASSUME Established, Answers, pc \notin {"parse", "done"}, NEW code, Throw(code),
         code # RuntimeError => code = ExpectedCode,
         UNCHANGED <<job, dups, outs, scan, search>>
  PROVE  Established' /\ Answers' /\ Code'
<1>1. /\ pc' = "unwind" /\ thrown' = code
      /\ UNCHANGED <<job, dups, outs, scan, search>>
  BY DEF Throw
<1>2. ExpectedCode' = ExpectedCode
  BY <1>1 DEF ExpectedCode, Entries
<1>3. Starts'
  BY <1>1 DEF Established, Starts
<1>4. QED
  BY <1>1, <1>2, <1>3 DEF Established, Answers, Code, File

\* The first round.
LEMMA ScansCode ==
  ASSUME CInv, gone = {}, ParseCommand \/ LaunchScan \/ ScansLaunched \/ GetScan \/ NoThread
  PROVE  Established' /\ Answers' /\ Code'
<1> USE DEF argVars, threadVars, reportVars
<1>1. TInv /\ Established /\ Answers /\ Code
  BY DEF CInv, IInv
<1>2. DOMAIN dups = 1 .. Len(dups) /\ DOMAIN outs = 1 .. Len(outs) /\ next \in Nat
      /\ Len(dups) \in Nat
  BY <1>1, NextIsTask DEF TInv, Typed
<1>3. \A c : Access(c) = File(c)
  BY DEF Access, File
<1>4. CASE ParseCommand
  <2>1. \A i \in Tasks : scan'[i] = "idle" /\ search'[i] = "idle"
    BY <1>1, <1>4 DEF ParseCommand, TInv, Threads
  <2>2. Answers'
    BY <2>1 DEF Answers
  <2>3. CASE pc' = "launch_scans"
    <3>1. job.conf /\ job.source /\ ~(dups' = <<>> /\ outs' = <<>>) /\ job' = job
      BY <1>4, <2>3 DEF ParseCommand, Finish
    <3>2. next' = 1 /\ DOMAIN dups' = 1 .. Len(dups')
      <4>1. pc = "parse" /\ next' = next
        BY <1>4 DEF ParseCommand
      <4>2. dups' \in Seq(Columns)
        BY <1>1, ParseTInv, <1>4 DEF TInv, Typed
      <4> QED BY <1>1, <4>1, <4>2 DEF Established
    <3> QED BY <2>2, <2>3, <3>1, <3>2 DEF Established, Code, Starts
  <2>4. CASE pc' # "launch_scans"
    <3>1. /\ pc' = "done" /\ job' = job
          /\ outcome' = IF ~job.conf THEN ConfError
                        ELSE IF dups' = <<>> /\ outs' = <<>> THEN NoActions
                        ELSE InvalidPath
          /\ ~job.conf \/ (dups' = <<>> /\ outs' = <<>>) \/ ~job.source
      BY <1>4, <2>4 DEF ParseCommand, Finish
    <3>2. outcome' = ExpectedCode'
      BY <3>1 DEF ExpectedCode
    <3> QED BY <2>2, <3>1, <3>2 DEF Established, Code
  <2> QED BY <2>3, <2>4
<1>5. CASE LaunchScan /\ Access(dups[next]) = "missing"
  <2>1. NoSuchPath = ExpectedCode
    <3>1. Starts /\ next \in DOMAIN dups
      BY <1>1, <1>5 DEF LaunchScan, Established
    <3> QED BY <1>3, <1>5, <3>1, CodeCases
  <2> QED BY <1>1, <1>5, <2>1, ThrowCode DEF LaunchScan
<1>6. CASE LaunchScan /\ Access(dups[next]) # "missing"
  <2>1. /\ UNCHANGED <<job, dups, outs, pc, search>>
        /\ pc = "launch_scans" /\ next \in DOMAIN dups
        /\ scan' = [scan EXCEPT ![next] = "started"] /\ next' = next + 1
    BY <1>6 DEF LaunchScan
  <2>2. Answers'
    <3>1. next \in Tasks
      BY <1>1, <2>1, NextIsTask
    <3> QED BY <1>1, <2>1, <3>1 DEF Answers, File, TInv, Typed
  <2>3. \A j \in DOMAIN dups : j < next + 1 => j < next \/ j = next
    BY <1>2
  <2>4. Established' /\ Code'
    BY <1>1, <1>3, <1>6, <2>1, <2>3 DEF Established, Starts, Code, File
  <2> QED BY <2>2, <2>4
<1>7. CASE ScansLaunched
  <2>1. /\ UNCHANGED <<job, dups, outs, scan, search>>
        /\ pc = "launch_scans" /\ next \notin DOMAIN dups
        /\ pc' = "get_scans" /\ next' = 1
    BY <1>7 DEF ScansLaunched
  <2>2. \A j \in DOMAIN dups : j < next /\ ~(j < 1)
    BY <1>1, <1>2, <2>1 DEF TInv, Typed
  <2>3. Established' /\ Answers' /\ Code'
    BY <1>1, <2>1, <2>2 DEF Established, Starts, Code, File, Answers
  <2> QED BY <2>3
<1>8. CASE GetScan
  <2>1. /\ Starts /\ next \in DOMAIN dups /\ next \in Tasks
        /\ \A j \in DOMAIN dups : File(dups[j]) # "missing"
        /\ UNCHANGED <<job, dups, outs, scan, search>> /\ pc = "get_scans"
    BY <1>1, <1>8, NextIsTask DEF GetScan, Established
  <2>2. CASE scan[next] = "failed"
    <3>1. File(dups[next]) = "unreadable"
      BY <1>1, <2>1, <2>2, FileKinds DEF Answers
    <3>2. AccessDenied = ExpectedCode
      BY <2>1, <3>1, CodeCases
    <3> QED BY <1>1, <1>8, <2>1, <2>2, <3>2, ThrowCode DEF GetScan
  <2>3. CASE scan[next] # "failed"
    <3>1. scan[next] = "returned" /\ next' = next + 1 /\ pc' = pc
      BY <1>8, <2>3 DEF GetScan
    <3>2. File(dups[next]) = "readable"
      BY <1>1, <2>1, <3>1 DEF Answers
    <3>3. \A j \in DOMAIN dups : j < next + 1 => j < next \/ j = next
      BY <1>2
    <3> QED BY <1>1, <2>1, <3>1, <3>2, <3>3 DEF Established, Starts, Code, File, Answers
  <2> QED BY <2>2, <2>3
<1>9. CASE NoThread
  <2>1. /\ UNCHANGED <<job, dups, outs, scan, search>>
        /\ pc \notin {"parse", "done"} /\ Throw(RuntimeError)
    BY <1>9 DEF NoThread
  <2> QED BY <1>1, <2>1, ThrowCode
<1>10. QED
  BY <1>4, <1>5, <1>6, <1>7, <1>8, <1>9

\* The second round.
LEMMA SearchesCode ==
  ASSUME CInv, gone = {},
         BuildActions \/ LaunchSearch \/ SearchesLaunched \/ GetSearch \/ Merge \/ Unwind
  PROVE  Established' /\ Answers' /\ Code'
<1> USE DEF argVars, threadVars, reportVars
<1>1. TInv /\ Established /\ Answers /\ Code
  BY DEF CInv, IInv
<1>2. DOMAIN dups = 1 .. Len(dups) /\ DOMAIN outs = 1 .. Len(outs) /\ next \in Nat
      /\ Len(dups) \in Nat /\ Len(outs) \in Nat
  BY <1>1, NextIsTask DEF TInv, Typed
<1>3. \A c : Access(c) = File(c)
  BY DEF Access, File
<1>4. CASE BuildActions
  <2>1. /\ pc = "get_scans" /\ next \notin DOMAIN dups /\ Starts
        /\ UNCHANGED <<job, dups, outs, scan, search>>
    BY <1>1, <1>4 DEF BuildActions, Established
  <2>2. \A j \in DOMAIN dups : File(dups[j]) = "readable"
    <3>1. \A j \in DOMAIN dups : j < next
      BY <1>1, <1>2, <2>1 DEF TInv, Typed
    <3> QED BY <1>1, <2>1, <3>1 DEF Established
  <2>3. CASE pc' # "launch_searches"
    <3>1. /\ \E i \in DOMAIN outs : File(outs[i]) = "missing"
          /\ Throw(NoSuchPath)
      BY <1>3, <1>4, <2>3 DEF BuildActions
    <3>2. NoSuchPath = ExpectedCode
      BY <2>1, <2>2, <3>1, CodeCases
    <3> QED BY <1>1, <2>1, <3>1, <3>2, ThrowCode
  <2>4. CASE pc' = "launch_searches"
    <3>1. \A i \in DOMAIN outs : ~(FirstFor(outs[i], dups) = 0 /\ Access(outs[i]) = "missing")
      BY <1>4, <2>4 DEF BuildActions, Throw
    <3>2. ASSUME NEW i \in DOMAIN outs, File(outs[i]) = "missing" PROVE FALSE
      <4>1. outs[i] \in Entries(dups)
        BY <1>3, <3>1, <3>2 DEF FirstFor
      <4> QED BY <2>2, <3>2, <4>1 DEF Entries
    <3> QED BY <1>1, <2>1, <2>2, <2>4, <3>2 DEF Established, Starts, Code, File, Answers
  <2> QED BY <2>3, <2>4
<1>5. CASE LaunchSearch
  <2>1. /\ UNCHANGED <<job, dups, outs, pc, scan>>
        /\ pc = "launch_searches" /\ next \in DOMAIN outs
        /\ search' = [search EXCEPT ![next] = "started"]
    BY <1>5 DEF LaunchSearch
  <2>2. Answers'
    BY <1>1, <2>1 DEF Answers, File, TInv, Typed
  <2>3. Established' /\ Code'
    BY <1>1, <2>1 DEF Established, Starts, Code, File
  <2> QED BY <2>2, <2>3
<1>6. CASE SearchesLaunched
  <2>1. /\ UNCHANGED <<job, dups, outs, scan, search>>
        /\ pc = "launch_searches" /\ pc' = "get_searches" /\ next' = 1
    BY <1>6 DEF SearchesLaunched
  <2>2. \A j \in DOMAIN outs : ~(j < 1)
    BY <1>2
  <2> QED BY <1>1, <2>1, <2>2 DEF Established, Starts, Code, File, Answers
<1>7. CASE GetSearch
  <2>1. /\ Starts /\ next \in DOMAIN outs /\ next \in Tasks
        /\ \A j \in DOMAIN dups : File(dups[j]) = "readable"
        /\ \A j \in DOMAIN outs : File(outs[j]) # "missing"
        /\ UNCHANGED <<job, dups, outs, scan, search>> /\ pc = "get_searches"
    BY <1>1, <1>7, NextIsTask DEF GetSearch, Established
  <2>2. CASE search[next] = "failed"
    <3>1. File(outs[next]) = "unreadable"
      BY <1>1, <2>1, <2>2, FileKinds DEF Answers
    <3>2. AccessDenied = ExpectedCode
      BY <2>1, <3>1, CodeCases
    <3> QED BY <1>1, <1>7, <2>1, <2>2, <3>2, ThrowCode DEF GetSearch
  <2>3. CASE search[next] # "failed"
    <3>1. search[next] = "returned" /\ next' = next + 1 /\ pc' = pc
      BY <1>7, <2>3 DEF GetSearch
    <3>2. File(outs[next]) = "readable"
      BY <1>1, <2>1, <3>1 DEF Answers
    <3>3. \A j \in DOMAIN outs : j < next + 1 => j < next \/ j = next
      BY <1>2
    <3> QED BY <1>1, <2>1, <3>1, <3>2, <3>3 DEF Established, Starts, Code, File, Answers
  <2> QED BY <2>2, <2>3
<1>8. CASE Merge
  <2>1. /\ pc = "get_searches" /\ next \notin DOMAIN outs /\ Starts
        /\ UNCHANGED <<job, dups, outs, scan, search>>
        /\ pc' = "done" /\ outcome' = 0
    BY <1>1, <1>8 DEF Merge, Finish, Established
  <2>2. \A j \in DOMAIN outs : j < next
    BY <1>1, <1>2, <2>1 DEF TInv, Typed
  <2>3. 0 = ExpectedCode
    BY <1>1, <2>1, <2>2, CodeCases DEF Established
  <2>4. ExpectedCode' = ExpectedCode
    BY <2>1 DEF ExpectedCode, Entries
  <2> QED BY <1>1, <2>1, <2>3, <2>4 DEF Established, Code, File, Answers
<1>9. CASE Unwind
  <2>1. /\ pc = "unwind" /\ UNCHANGED <<job, dups, outs, scan, search, thrown>>
        /\ pc' = "done" /\ outcome' = thrown
    BY <1>9 DEF Unwind, Finish
  <2>2. ExpectedCode' = ExpectedCode
    BY <2>1 DEF ExpectedCode, Entries
  <2> QED BY <1>1, <2>1, <2>2 DEF Established, Code, File, Answers
<1>10. QED
  BY <1>4, <1>5, <1>6, <1>7, <1>8, <1>9

LEMMA NextCInv == CInv /\ [Next]_vars => CInv'
<1> SUFFICES ASSUME CInv, [Next]_vars PROVE CInv'
  OBVIOUS
<1>1. IInv'
  BY NextIInv DEF CInv
<1> SUFFICES ASSUME gone' = {} PROVE Established' /\ Answers' /\ Code'
  BY <1>1 DEF CInv
<1>2. ASSUME NEW c \in Columns PROVE ~Vanish(c)
  BY DEF Vanish
<1>3. CASE UNCHANGED vars
  <2>1. /\ UNCHANGED <<job, dups, outs, pc, scan, search, next, thrown, outcome>>
        /\ Established /\ Answers /\ Code
    BY <1>3 DEF vars, CInv
  <2>2. ExpectedCode' = ExpectedCode
    BY <2>1 DEF ExpectedCode, Entries
  <2> QED BY <2>1, <2>2 DEF Established, Answers, Code, Starts, File
<1>4. ASSUME Main \/ NoThread \/ \E i \in Tasks : Thread(i) PROVE gone = {}
  BY <1>4 DEF Main, NoThread, Thread, ParseCommand, LaunchScan, ScansLaunched, GetScan,
     BuildActions, LaunchSearch, SearchesLaunched, GetSearch, Merge, Unwind,
     ScanColumn, CopyInput, DetectOutliers, argVars
<1>5. QED
  BY <1>2, <1>3, <1>4, ThreadCode, ScansCode, SearchesCode DEF Next, Main, Done

\* As long as no file vanishes and threads can be started, the exit code is the
\* one the files call for, however the threads are scheduled and for any
\* configuration: find_duplications and find_outliers answer in entry order.
THEOREM CodeFollowsFiles == Spec => []CodeIsDetermined
<1>1. Spec => []CInv
  BY InitCInv, NextCInv, PTL DEF Spec
<1>2. CInv => CodeIsDetermined
  BY DEF CInv, IInv, TInv, Typed, Code, CodeIsDetermined
<1>3. QED
  BY <1>1, <1>2, PTL
-----------------------------------------------------------------------------
(***************************************************************************)
(* The list that is printed.                                                *)
(***************************************************************************)

\* The entry of a column in a list is the first one that names it.
LEMMA FirstForIs ==
  ASSUME NEW S, NEW seq \in Seq(S), NEW c
  PROVE  /\ FirstFor(c, seq) \in 0 .. Len(seq)
         /\ \A i \in 1 .. Len(seq) :
              seq[i] = c /\ (\A j \in 1 .. i - 1 : seq[j] # c) => FirstFor(c, seq) = i
         /\ FirstFor(c, seq) # 0 => seq[FirstFor(c, seq)] = c
<1> DEFINE First(i) == seq[i] = c /\ \A j \in 1 .. i - 1 : seq[j] # c
           T == {i \in 1 .. Len(seq) : seq[i] = c}
<1>1. DOMAIN seq = 1 .. Len(seq) /\ Len(seq) \in Nat
  OBVIOUS
<1>2. ASSUME c \in Entries(seq) PROVE \E i \in DOMAIN seq : First(i)
  <2>1. T # {} /\ T \subseteq Nat
    BY <1>1, <1>2 DEF Entries
  <2>2. PICK i \in T : \A j \in T : <<j, i>> \notin OpToRel(<, Nat)
    BY <2>1, NatLessThanWellFounded, WFMin
  <2>3. ASSUME NEW j \in 1 .. i - 1 PROVE seq[j] # c
    <3>1. <<j, i>> \in OpToRel(<, Nat) /\ j \in 1 .. Len(seq)
      BY <1>1 DEF OpToRel
    <3> QED BY <2>2, <3>1
  <2> QED BY <1>1, <2>3
<1>3. \A i, j \in DOMAIN seq : First(i) /\ First(j) => i = j
  <2> TAKE i, j \in DOMAIN seq
  <2>1. i \in Nat /\ j \in Nat /\ i # 0 /\ j # 0
    BY <1>1
  <2>2. CASE i < j
    BY <2>1, <2>2
  <2>3. CASE j < i
    BY <2>1, <2>3
  <2> QED BY <2>1, <2>2, <2>3
<1>4. c \in Entries(seq) =>
        FirstFor(c, seq) \in DOMAIN seq /\ First(FirstFor(c, seq))
  BY <1>2 DEF FirstFor
<1>5. c \notin Entries(seq) => FirstFor(c, seq) = 0
  BY DEF FirstFor
<1>6. \A i \in DOMAIN seq : First(i) => c \in Entries(seq)
  BY DEF Entries
<1>6a. FirstFor(c, seq) # 0 => seq[FirstFor(c, seq)] = c
  BY <1>4, <1>5
<1> HIDE DEF First
<1>7. \A i \in DOMAIN seq : First(i) => FirstFor(c, seq) = i
  BY <1>3, <1>4, <1>6
<1>8. FirstFor(c, seq) \in 0 .. Len(seq)
  BY <1>1, <1>4, <1>5
<1> QED BY <1>1, <1>6a, <1>7, <1>8 DEF First

LEMMA ReportType ==
  ASSUME TInv, NEW c \in Columns
  PROVE  /\ FirstFor(c, dups) \in 0 .. MaxEntries
         /\ \A n \in 0 .. MaxEntries : Report(c, n) \in Reports
<1>1. FirstFor(c, dups) \in 0 .. MaxEntries
  BY FirstForIs DEF TInv, Typed
<1>2. \A n \in 0 .. MaxEntries : Report(c, n) \in Reports
  BY DEF Report, Reports
<1> QED BY <1>1, <1>2

\* The columns of the first n filter.dup entries that no search reported on.
ScanColumns(n) == {dups[j] : j \in 1 .. n}
Unsearched(n) == ScanColumns(n) \ Entries(outs)

LEMMA OneMoreColumn ==
  ASSUME NEW n \in Nat
  PROVE  ScanColumns(n + 1) = ScanColumns(n) \cup {dups[n + 1]}
<1>1. 1 .. n + 1 = (1 .. n) \cup {n + 1}
  OBVIOUS
<1> QED BY <1>1 DEF ScanColumns

\* A report has the duplications of no filter.dup but the first of its column,
\* and skipped the rows of no other.
OfFirst(report) ==
  /\ report.conf = FirstFor(report.column, dups)
  /\ report.skipped \in {0, report.conf}

\* A list that merge has made of the answers and of the first n reports of the
\* first round.
MergedUpTo(list, n) ==
  /\ list \in Seq(Reports)
  /\ IsFiniteSet(Unsearched(n))
  /\ Len(list) = Len(outs) + Cardinality(Unsearched(n))
  /\ \A i \in 1 .. Len(outs) : list[i] = actions[i]
  /\ {list[k].column : k \in DOMAIN list} = Entries(outs) \cup ScanColumns(n)
  /\ \A c \in Unsearched(n) :
       \E k \in DOMAIN list : list[k] = Report(c, FirstFor(c, dups))
  /\ \A k \in DOMAIN list : OfFirst(list[k])

\* The answers of the searches, all of them in the order of the entries.
Answered ==
  /\ actions \in Seq(Reports)
  /\ DOMAIN actions = DOMAIN outs
  /\ \A i \in DOMAIN outs : actions[i].column = outs[i] /\ OfFirst(actions[i])

LEMMA MergedNone ==
  ASSUME TInv, Answered
  PROVE  MergedUpTo(actions, 0)
<1>1. ScanColumns(0) = {} /\ Unsearched(0) = {}
  BY DEF ScanColumns, Unsearched
<1>2. IsFiniteSet({}) /\ Cardinality({}) = 0
  BY FS_EmptySet
<1>3. /\ DOMAIN outs = 1 .. Len(outs) /\ Len(outs) \in Nat
      /\ DOMAIN actions = 1 .. Len(actions) /\ Len(actions) \in Nat
  BY NextIsTask DEF Answered
<1>4. Len(actions) = Len(outs)
  BY <1>3 DEF Answered
<1>5. {actions[k].column : k \in DOMAIN actions} = Entries(outs)
  BY DEF Answered, Entries
<1>6. IsFiniteSet(Unsearched(0)) /\ Cardinality(Unsearched(0)) = 0
  BY <1>1, <1>2
<1>7. Len(actions) = Len(outs) + Cardinality(Unsearched(0))
  BY <1>3, <1>4, <1>6
<1>8. {actions[k].column : k \in DOMAIN actions} = Entries(outs) \cup ScanColumns(0)
  BY <1>1, <1>5
<1> QED BY <1>1, <1>6, <1>7, <1>8 DEF MergedUpTo, Answered

\* A report whose column is in the list already is not added.
LEMMA MergedPresent ==
  ASSUME TInv, NEW n \in Nat, n + 1 \in DOMAIN dups, NEW list, MergedUpTo(list, n),
         \E k \in DOMAIN list : list[k].column = dups[n + 1]
  PROVE  MergedUpTo(list, n + 1)
<1>1. dups[n + 1] \in Entries(outs) \cup ScanColumns(n)
  BY DEF MergedUpTo
<1>2. Unsearched(n + 1) = Unsearched(n)
  BY <1>1, OneMoreColumn DEF Unsearched
<1>3. Entries(outs) \cup ScanColumns(n + 1) = Entries(outs) \cup ScanColumns(n)
  BY <1>1, OneMoreColumn
<1> QED BY <1>2, <1>3 DEF MergedUpTo

\* One whose column is new is the first of its column, and is added.
LEMMA MergedNew ==
  ASSUME TInv, NEW n \in Nat, n + 1 \in DOMAIN dups, NEW list, MergedUpTo(list, n),
         ~\E k \in DOMAIN list : list[k].column = dups[n + 1]
  PROVE  MergedUpTo(Append(list, Report(dups[n + 1], n + 1)), n + 1)
<1> DEFINE c == dups[n + 1]
           r == Report(c, n + 1)
           more == Append(list, r)
<1>1. c \notin Entries(outs) /\ c \notin ScanColumns(n)
  BY DEF MergedUpTo
<1>2. Unsearched(n + 1) = Unsearched(n) \cup {c} /\ c \notin Unsearched(n)
  BY <1>1, OneMoreColumn DEF Unsearched
<1>3. /\ IsFiniteSet(Unsearched(n + 1))
      /\ Cardinality(Unsearched(n + 1)) = Cardinality(Unsearched(n)) + 1
  BY <1>2, FS_AddElement DEF MergedUpTo
<1>4. c \in Columns /\ n + 1 \in 1 .. Len(dups) /\ n + 1 \in 0 .. MaxEntries
  BY NextIsTask DEF TInv, Typed
<1>5. r \in Reports /\ r.column = c
  <2>1. r \in Reports
    BY <1>4, ReportType
  <2> QED BY <2>1 DEF Report
<1>6. FirstFor(c, dups) = n + 1
  <2>1. \A j \in 1 .. (n + 1) - 1 : dups[j] # c
    BY <1>1 DEF ScanColumns
  <2>2. dups \in Seq(Columns)
    BY DEF TInv, Typed
  <2> QED BY <1>4, <2>1, <2>2, FirstForIs
<1>7. /\ list \in Seq(Reports) /\ Len(list) \in Nat /\ Len(outs) \in Nat
      /\ Cardinality(Unsearched(n)) \in Nat
      /\ Len(list) = Len(outs) + Cardinality(Unsearched(n))
  BY FS_CardinalityType, NextIsTask DEF MergedUpTo
<1> HIDE DEF r
<1>8. /\ more \in Seq(Reports) /\ Len(more) = Len(list) + 1
      /\ DOMAIN more = 1 .. Len(list) + 1 /\ DOMAIN list = 1 .. Len(list)
      /\ \A k \in 1 .. Len(list) : more[k] = list[k]
      /\ more[Len(list) + 1] = r
  BY <1>5, <1>7
<1> HIDE DEF more, c
<1>9. Len(more) = Len(outs) + Cardinality(Unsearched(n + 1))
  BY <1>3, <1>7, <1>8
<1>10. \A i \in 1 .. Len(outs) : more[i] = actions[i]
  <2>1. \A i \in 1 .. Len(outs) : i \in 1 .. Len(list)
    BY <1>7
  <2> QED BY <1>8, <2>1 DEF MergedUpTo
<1>11. {more[k].column : k \in DOMAIN more} = Entries(outs) \cup ScanColumns(n + 1)
  <2>1. DOMAIN more = DOMAIN list \cup {Len(list) + 1}
    BY <1>7, <1>8
  <2>2. {more[k].column : k \in DOMAIN more} = {list[k].column : k \in DOMAIN list} \cup {c}
    BY <1>5, <1>8, <2>1
  <2>3. ScanColumns(n + 1) = ScanColumns(n) \cup {c}
    BY OneMoreColumn DEF c
  <2> QED BY <2>2, <2>3 DEF MergedUpTo
<1>12. ASSUME NEW d \in Unsearched(n + 1)
       PROVE  \E k \in DOMAIN more : more[k] = Report(d, FirstFor(d, dups))
  <2>1. CASE d = c
    <3>1. more[Len(list) + 1] = Report(d, FirstFor(d, dups)) /\ Len(list) + 1 \in DOMAIN more
      BY <1>6, <1>7, <1>8, <2>1 DEF r
    <3> QED BY <3>1
  <2>2. CASE d \in Unsearched(n)
    <3>1. PICK k \in DOMAIN list : list[k] = Report(d, FirstFor(d, dups))
      BY <2>2 DEF MergedUpTo
    <3>2. k \in DOMAIN more /\ more[k] = list[k]
      BY <1>7, <1>8
    <3> QED BY <3>1, <3>2
  <2> QED BY <1>2, <2>1, <2>2
<1>13. \A k \in DOMAIN more : OfFirst(more[k])
  <2>1. OfFirst(r)
    BY <1>5, <1>6 DEF r, c, Report, OfFirst
  <2>2. \A k \in DOMAIN list : OfFirst(list[k])
    BY DEF MergedUpTo
  <2> QED BY <1>7, <1>8, <2>1, <2>2
<1>14. MergedUpTo(more, n + 1)
  BY <1>3, <1>8, <1>9, <1>10, <1>11, <1>12, <1>13 DEF MergedUpTo
<1> QED BY <1>14 DEF more, r, c

\* What merge leaves in actions, when the first round has reported on every
\* entry (report_merge.cpp).
LEMMA MergeIs ==
  ASSUME TInv, Answered, found \in Seq(Nat), Len(found) = Len(dups),
         \A k \in DOMAIN found : found[k] = k, Merge
  PROVE  \E list : actions' = list /\ MergedUpTo(list, Len(dups))
<1> DEFINE Step(list, n) ==
             LET c == dups[found[n]]
             IN  IF \E k \in DOMAIN list : list[k].column = c
                 THEN list
                 ELSE Append(list, Report(c, found[n]))
           Entry(f, n) == IF n = 0 THEN actions ELSE Step(f[n - 1], n)
           Fills(f, m) == f = [n \in 0 .. m |-> Entry(f, n)]
           S == {m \in Nat : \E f : Fills(f, m)}
           merged == CHOOSE f : Fills(f, Len(found))
           T == {m \in Nat : m <= Len(found) => MergedUpTo(merged[m], m)}
<1>1. \E f : Fills(f, 0)
  <2> DEFINE f0 == [n \in 0 .. 0 |-> actions]
  <2>1. Fills(f0, 0)
    OBVIOUS
  <2> QED BY <2>1
<1>2. ASSUME NEW m \in Nat, NEW f, Fills(f, m)
      PROVE  \E g : Fills(g, m + 1)
  <2> HIDE DEF Step
  <2> DEFINE g == [n \in 0 .. m + 1 |-> IF n <= m THEN f[n] ELSE Entry(f, n)]
  <2>1. ASSUME NEW n \in 0 .. m + 1 PROVE g[n] = Entry(g, n)
    <3>1. CASE n \in 0 .. m
      <4>1. g[n] = f[n] /\ (n # 0 => g[n - 1] = f[n - 1])
        BY <3>1
      <4>2. f[n] = Entry(f, n)
        BY <1>2, <3>1
      <4> QED BY <4>1, <4>2
    <3>2. CASE n = m + 1
      <4>1. g[n] = Entry(f, n) /\ g[n - 1] = f[n - 1]
        BY <3>2
      <4> QED BY <4>1
    <3> QED BY <3>1, <3>2
  <2>2. Fills(g, m + 1)
    <3> HIDE DEF Entry
    <3> QED BY <2>1
  <2> QED BY <2>2
<1>3. Len(found) \in Nat
  OBVIOUS
<1>4. \E f : Fills(f, Len(found))
  <2> HIDE DEF Fills
  <2>1. 0 \in S /\ \A m \in Nat : m \in S => m + 1 \in S
    BY <1>1, <1>2
  <2>2. Nat \subseteq S
    <3> HIDE DEF S
    <3> QED BY <2>1, SetInduction
  <2> QED BY <1>3, <2>2
<1>5. Fills(merged, Len(found))
  <2> HIDE DEF Fills
  <2> QED BY <1>4
<1>6. actions' = merged[Len(found)]
  BY DEF Merge
<1> HIDE DEF merged
<1>7. \A n \in 0 .. Len(found) : merged[n] = Entry(merged, n)
  BY <1>5
<1>8. 0 \in T
  <2>1. merged[0] = actions
    BY <1>3, <1>7
  <2> QED BY <2>1, MergedNone
<1>9. ASSUME NEW m \in Nat, m \in T PROVE m + 1 \in T
  <2> SUFFICES ASSUME m + 1 <= Len(found) PROVE MergedUpTo(merged[m + 1], m + 1)
    OBVIOUS
  <2>1. MergedUpTo(merged[m], m)
    BY <1>3, <1>9
  <2>2. m + 1 \in DOMAIN found /\ m + 1 \in DOMAIN dups /\ found[m + 1] = m + 1
    BY <1>3, NextIsTask
  <2>3. merged[m + 1] = IF \E k \in DOMAIN merged[m] : merged[m][k].column = dups[m + 1]
                        THEN merged[m]
                        ELSE Append(merged[m], Report(dups[m + 1], m + 1))
    <3>1. merged[m + 1] = Entry(merged, m + 1)
      BY <1>3, <1>7
    <3>2. m + 1 # 0 /\ (m + 1) - 1 = m
      OBVIOUS
    <3> QED BY <2>2, <3>1, <3>2
  <2> QED BY <2>1, <2>2, <2>3, MergedPresent, MergedNew
<1>10. Nat \subseteq T
  <2> HIDE DEF T
  <2> QED BY <1>8, <1>9, SetInduction
<1>11. MergedUpTo(merged[Len(found)], Len(found))
  BY <1>3, <1>10
<1> QED BY <1>6, <1>11

-----------------------------------------------------------------------------
(***************************************************************************)
(* Which reports there are at each step of the calling thread.              *)
(***************************************************************************)
Collected ==
  /\ gone \subseteq Columns
  /\ next <= MaxEntries + 1
  /\ pc = "parse" => next = 1
  /\ pc \in {"launch_scans", "get_scans"} => next <= Len(dups) + 1
  /\ pc \in {"launch_searches", "get_searches"} => next <= Len(outs) + 1
  /\ found \in Seq(DOMAIN dups)
  /\ pc \in {"parse", "launch_scans"} => found = <<>>
  /\ pc = "get_scans" => Len(found) = next - 1
  /\ pc \in {"launch_searches", "get_searches"} => Len(found) = Len(dups)
  /\ \A k \in DOMAIN found : found[k] = k
  /\ pc = "unwind" => thrown # 0
  /\ outcome \in Codes \cup {Running}

\* The report of an entry that was searched.
Searched(i) ==
  [column |-> outs[i], conf |-> FirstFor(outs[i], dups),
   searched |-> TRUE, skipped |-> FirstFor(outs[i], dups)]

\* The entries before next have their answers, the others what was built, and
\* every predicate skips the rows of the first filter.dup entry of its column.
Reported ==
  /\ actions \in Seq(Reports)
  /\ ignored \in [Tasks -> 0 .. MaxEntries]
  /\ input \in [Tasks -> Reports \cup {NoReport}]
  /\ pc = "launch_searches" =>
       \A i \in DOMAIN outs : i < next => ignored[i] = FirstFor(outs[i], dups)
  /\ pc = "get_searches" =>
       /\ DOMAIN actions = DOMAIN outs
       /\ \A i \in DOMAIN outs :
            /\ actions[i].column = outs[i]
            /\ ignored[i] = FirstFor(outs[i], dups)
            /\ i < next => actions[i] = Searched(i)
  /\ ReportIsComplete

RInv == IInv /\ Collected /\ Reported

LEMMA InitRInv == Init => RInv
<1> SUFFICES ASSUME Init PROVE RInv
  OBVIOUS
<1>1. <<>> \in Seq(DOMAIN dups) /\ <<>> \in Seq(Reports) /\ DOMAIN <<>> = {}
  OBVIOUS
<1>2. Collected
  BY <1>1 DEF Init, Collected, Running
<1>3. outcome # 0
  BY DEF Init, Running
<1>4. Reported
  BY <1>1, <1>3 DEF Init, Reported, ReportIsComplete
<1> QED BY <1>2, <1>4, InitIInv DEF RInv

LEMMA CodesAre == Codes = {0, -2, -3, -4, -5, -7}
BY DEF Codes, NoSuchPath, AccessDenied, InvalidPath, RuntimeError, ConfError

\* Steps that leave the lists alone, and an answer that is not 0.
LEMMA SameReport ==
  ASSUME ReportIsComplete, UNCHANGED <<dups, outs, actions>>,
         (outcome' = outcome /\ (outcome = 0 => found' = found)) \/ outcome' # 0
  PROVE  ReportIsComplete'
<1>1. Entries(dups)' = Entries(dups) /\ Entries(outs)' = Entries(outs)
  BY DEF Entries
<1> QED BY <1>1 DEF ReportIsComplete

LEMMA NextCollected ==
  ASSUME RInv, [Next]_vars
  PROVE  Collected'
<1> USE DEF argVars, threadVars, reportVars
<1>1. /\ DOMAIN dups = 1 .. Len(dups) /\ DOMAIN outs = 1 .. Len(outs)
      /\ Len(dups) \in 0 .. MaxEntries /\ Len(outs) \in 0 .. MaxEntries
      /\ next \in 1 .. MaxEntries + 1
      /\ Collected /\ TInv
  BY NextIsTask DEF RInv, IInv, TInv, Typed, Collected
<1>2. CASE ParseCommand
  <2>1. /\ pc = "parse" /\ next' = 1 /\ found = <<>> /\ UNCHANGED <<gone, found>>
        /\ pc' \in {"launch_scans", "done"}
        /\ outcome' \in Codes \cup {Running}
    BY <1>1, <1>2 DEF ParseCommand, Finish, Collected, Codes, NoActions, AccessDenied
  <2>2. found' \in Seq(DOMAIN dups') /\ DOMAIN found' = {}
    BY <2>1
  <2>3. Len(dups') \in Nat
    BY <1>1, <1>2, ParseTInv DEF TInv, Typed
  <2> QED BY <1>1, <2>1, <2>2, <2>3 DEF Collected
<1>3. ASSUME NEW code, Throw(code), code # 0,
             UNCHANGED <<gone, dups, outs, next, found, outcome>>
      PROVE  Collected'
  BY <1>1, <1>3 DEF Throw, Collected
<1>4. NoSuchPath # 0 /\ AccessDenied # 0 /\ RuntimeError # 0
  BY DEF NoSuchPath, AccessDenied, RuntimeError
<1>5. CASE LaunchScan \/ NoThread
  <2>1. CASE LaunchScan /\ pc' = pc
    BY <1>1, <1>5, <2>1 DEF LaunchScan, Throw, Collected
  <2>2. CASE LaunchScan /\ pc' # pc
    BY <1>3, <1>4, <1>5, <2>2 DEF LaunchScan
  <2> QED BY <1>3, <1>4, <1>5, <2>1, <2>2 DEF NoThread
<1>6. CASE ScansLaunched
  BY <1>1, <1>6 DEF ScansLaunched, Collected
<1>7. CASE GetScan
  <2>1. CASE pc' = pc
    <3>0. /\ UNCHANGED <<gone, dups, outs, thrown, outcome, pc>>
          /\ pc = "get_scans" /\ next \in DOMAIN dups
          /\ found' = Append(found, next) /\ next' = next + 1
      BY <1>7, <2>1 DEF GetScan, Throw
    <3>1. /\ next \in 1 .. Len(dups)
          /\ found \in Seq(DOMAIN dups) /\ Len(found) = next - 1
          /\ \A k \in 1 .. Len(found) : found[k] = k
      <4>1. found \in Seq(DOMAIN dups) /\ Len(found) = next - 1
        BY <1>1, <3>0 DEF Collected
      <4>2. DOMAIN found = 1 .. Len(found)
        BY <4>1
      <4> QED BY <1>1, <3>0, <4>1, <4>2 DEF Collected
    <3>2. /\ found' \in Seq(DOMAIN dups) /\ Len(found') = next
          /\ \A k \in 1 .. Len(found') : found'[k] = k
      BY <1>1, <3>0, <3>1
    <3> QED BY <1>1, <3>0, <3>1, <3>2 DEF Collected
  <2>2. CASE pc' # pc
    BY <1>3, <1>4, <1>7, <2>2 DEF GetScan
  <2> QED BY <2>1, <2>2
<1>8. CASE BuildActions
  <2>1. CASE pc' = "launch_searches"
    <3>1. /\ UNCHANGED <<gone, dups, outs, thrown, outcome, found>>
          /\ pc = "get_scans" /\ next = Len(dups) + 1 /\ next' = 1
      BY <1>1, <1>8, <2>1 DEF BuildActions, Throw, Collected
    <3> QED BY <1>1, <2>1, <3>1 DEF Collected
  <2>2. CASE pc' # "launch_searches"
    BY <1>3, <1>4, <1>8, <2>2 DEF BuildActions
  <2> QED BY <2>1, <2>2
<1>9. CASE LaunchSearch
  BY <1>1, <1>9 DEF LaunchSearch, Collected
<1>10. CASE SearchesLaunched
  BY <1>1, <1>10 DEF SearchesLaunched, Collected
<1>11. CASE GetSearch
  <2>1. CASE pc' = pc
    BY <1>1, <1>11, <2>1 DEF GetSearch, Throw, Collected
  <2>2. CASE pc' # pc
    BY <1>3, <1>4, <1>11, <2>2 DEF GetSearch
  <2> QED BY <2>1, <2>2
<1>12. CASE Merge \/ Unwind
  <2>1. /\ UNCHANGED <<gone, dups, outs, next, found, thrown>>
        /\ pc' = "done" /\ outcome' \in Codes
    BY <1>1, <1>12 DEF Merge, Unwind, Finish, TInv, Typed, Codes
  <2> QED BY <1>1, <2>1 DEF Collected
<1>13. ASSUME NEW i \in Tasks, Thread(i) PROVE Collected'
  BY <1>1, <1>13 DEF Thread, ScanColumn, CopyInput, DetectOutliers, Collected
<1>14. ASSUME NEW c \in Columns, Vanish(c) PROVE Collected'
  BY <1>1, <1>14 DEF Vanish, Collected
<1>15. CASE UNCHANGED vars
  BY <1>1, <1>15 DEF vars, Collected
<1> QED BY <1>2, <1>5, <1>6, <1>7, <1>8, <1>9, <1>10, <1>11, <1>12, <1>13, <1>14, <1>15
        DEF Next, Main, Done

\* What a search adds to a report of the first round.
LEMMA SearchedReport ==
  ASSUME NEW i, NEW c, NEW n, input[i] = Report(c, n)
  PROVE  Answer(i) = [column |-> c, conf |-> n, searched |-> TRUE, skipped |-> ignored[i]]
<1> DEFINE fields == {"column", "conf", "searched", "skipped"}
           e == Answer(i)
           r == [column |-> c, conf |-> n, searched |-> TRUE, skipped |-> ignored[i]]
<1>1. e = [x \in fields |-> e[x]] /\ r = [x \in fields |-> r[x]]
  BY DEF Answer, Report
<1>2. e.column = r.column /\ e.conf = r.conf /\ e.searched = r.searched
      /\ e.skipped = r.skipped
  BY DEF Answer, Report
<1>3. \A x \in fields : e[x] = r[x]
  BY <1>2
<1> HIDE DEF e, r
<1>4. e = r
  BY <1>1, <1>3
<1> QED BY <1>4 DEF e, r

LEMMA NextReported ==
  ASSUME RInv, [Next]_vars, IInv'
  PROVE  Reported'
<1> USE DEF argVars, threadVars, reportVars
<1>1. /\ DOMAIN dups = 1 .. Len(dups) /\ DOMAIN outs = 1 .. Len(outs)
      /\ Len(dups) \in 0 .. MaxEntries /\ Len(outs) \in 0 .. MaxEntries
      /\ \A i \in DOMAIN outs : i \in Tasks /\ outs[i] \in Columns
      /\ next \in 1 .. MaxEntries + 1
      /\ Collected /\ Reported /\ TInv /\ Handed
  BY NextIsTask DEF RInv, IInv, TInv, Typed, Collected, Tasks
<1>2. \A i \in DOMAIN outs : /\ FirstFor(outs[i], dups) \in 0 .. MaxEntries
                            /\ Built(i) \in Reports
                            /\ Built(i).column = outs[i]
                            /\ Built(i).conf = FirstFor(outs[i], dups)
  BY <1>1, ReportType DEF Built, Report
\* Steps that change none of the reports, and answer with no 0.
<1>3. ASSUME UNCHANGED <<dups, outs, actions, ignored, input>>,
             (pc' = pc /\ next' = next) \/ pc' \notin {"launch_searches", "get_searches"},
             (outcome' = outcome /\ (outcome = 0 => found' = found)) \/ outcome' # 0
      PROVE  Reported'
  <2>1. ReportIsComplete'
    BY <1>1, <1>3, SameReport DEF Reported
  <2>2. \A i : Searched(i)' = Searched(i)
    BY <1>3 DEF Searched
  <2> QED BY <1>1, <1>3, <2>1, <2>2 DEF Reported
<1>4. CASE ParseCommand
  <2>1. /\ UNCHANGED <<actions, ignored, input>>
        /\ pc' \in {"launch_scans", "done"}
        /\ outcome' # 0 \/ (outcome' = outcome /\ outcome = Running)
    BY <1>1, <1>4 DEF ParseCommand, Finish, TInv, Typed, NoActions, ConfError, InvalidPath
  <2>2. outcome' # 0
    BY <2>1 DEF Running
  <2> QED BY <1>1, <2>1, <2>2 DEF Reported, ReportIsComplete
<1>5. CASE LaunchScan \/ ScansLaunched \/ GetScan \/ NoThread
  <2>1. /\ UNCHANGED <<dups, outs, actions, ignored, input, outcome>>
        /\ pc' \notin {"launch_searches", "get_searches"} /\ pc # "done"
    BY <1>5 DEF LaunchScan, ScansLaunched, GetScan, NoThread, Throw
  <2>2. outcome # 0
    BY <1>1, <2>1 DEF TInv, Typed, Running
  <2> QED BY <1>3, <2>1, <2>2
<1>6. CASE BuildActions
  <2>1. CASE pc' = "launch_searches"
    <3>1. /\ UNCHANGED <<dups, outs, ignored, input, outcome>> /\ next' = 1
          /\ actions' = [i \in DOMAIN outs |-> Built(i)]
          /\ outcome = Running
      BY <1>1, <1>6, <2>1 DEF BuildActions, Throw, Built, TInv, Typed
    <3>2. actions' \in Seq(Reports)
      BY <1>1, <1>2, <3>1
    <3>3. outcome' # 0
      BY <3>1 DEF Running
    <3> QED BY <1>1, <2>1, <3>1, <3>2, <3>3 DEF Reported, ReportIsComplete
  <2>2. CASE pc' # "launch_searches"
    BY <1>3, <1>6, <2>2 DEF BuildActions, Throw
  <2> QED BY <2>1, <2>2
<1>7. CASE LaunchSearch
  <2>1. /\ UNCHANGED <<dups, outs, actions, input, outcome, pc, found>>
        /\ pc = "launch_searches" /\ next \in DOMAIN outs /\ next' = next + 1
        /\ ignored' = [ignored EXCEPT ![next] = actions[next].conf]
    BY <1>7 DEF LaunchSearch
  <2>2. actions[next].conf = FirstFor(outs[next], dups)
    BY <1>1, <1>2, <2>1 DEF Handed
  <2>3. ignored' \in [Tasks -> 0 .. MaxEntries]
    BY <1>1, <1>2, <2>1, <2>2 DEF Reported
  <2>4. \A i \in DOMAIN outs : i < next' => ignored'[i] = FirstFor(outs[i], dups)
    <3> TAKE i \in DOMAIN outs
    <3>1. CASE i = next
      BY <1>1, <2>1, <2>2, <3>1 DEF Reported
    <3>2. CASE i # next
      BY <1>1, <2>1, <3>2 DEF Reported
    <3> QED BY <3>1, <3>2
  <2>5. ReportIsComplete'
    BY <1>1, <2>1, SameReport DEF Reported
  <2> QED BY <1>1, <2>1, <2>3, <2>4, <2>5 DEF Reported
<1>8. CASE SearchesLaunched
  <2>1. /\ UNCHANGED <<dups, outs, actions, ignored, input, outcome, found>>
        /\ pc = "launch_searches" /\ next \notin DOMAIN outs
        /\ pc' = "get_searches" /\ next' = 1
    BY <1>8 DEF SearchesLaunched
  <2>2. \A i \in DOMAIN outs : i < next /\ ~(i < 1)
    BY <1>1, <2>1
  <2>3. /\ DOMAIN actions = DOMAIN outs
        /\ \A i \in DOMAIN outs : actions[i].column = outs[i]
    BY <1>1, <1>2, <2>1 DEF Handed
  <2>4. \A i \in DOMAIN outs : ignored[i] = FirstFor(outs[i], dups)
    BY <1>1, <2>1, <2>2 DEF Reported
  <2>5. ReportIsComplete'
    BY <1>1, <2>1, SameReport DEF Reported
  <2> QED BY <1>1, <2>1, <2>2, <2>3, <2>4, <2>5 DEF Reported
<1>9. CASE GetSearch
  <2>1. CASE pc' = pc
    <3>1. /\ UNCHANGED <<dups, outs, ignored, input, outcome, pc>>
          /\ pc = "get_searches" /\ next \in DOMAIN outs /\ next' = next + 1
          /\ search[next] = "returned"
          /\ actions' = [actions EXCEPT ![next] = Answer(next)]
      BY <1>9, <2>1 DEF GetSearch, Throw
    <3>2. input[next] = Built(next)
      BY <1>1, <3>1 DEF Handed, InputsAreIntact, Built
    <3>3. ignored[next] = FirstFor(outs[next], dups)
      BY <1>1, <3>1 DEF Reported
    <3>4. Answer(next) = Searched(next)
      BY <3>2, <3>3, SearchedReport DEF Searched, Built
    <3>5. Searched(next) \in Reports /\ Searched(next).column = outs[next]
      BY <1>1, <1>2, <3>1 DEF Searched, Reports
    <3>6. /\ actions' \in Seq(Reports) /\ DOMAIN actions' = DOMAIN outs
          /\ actions'[next] = Searched(next)
          /\ \A i \in DOMAIN outs \ {next} : actions'[i] = actions[i]
      BY <1>1, <3>1, <3>4, <3>5 DEF Reported
    <3>7. \A i \in DOMAIN outs : actions'[i].column = outs[i]
      BY <1>1, <3>1, <3>5, <3>6 DEF Reported
    <3>8. \A i \in DOMAIN outs : i < next' => actions'[i] = Searched(i)
      <4> TAKE i \in DOMAIN outs
      <4>1. i # next /\ i < next' => i < next
        BY <1>1, <3>1
      <4> QED BY <1>1, <3>1, <3>6, <4>1 DEF Reported
    <3>9. \A i : Searched(i)' = Searched(i)
      BY <3>1 DEF Searched
    <3>10. outcome' # 0
      BY <1>1, <3>1 DEF TInv, Typed, Running
    <3> QED BY <1>1, <3>1, <3>6, <3>7, <3>8, <3>9, <3>10 DEF Reported, ReportIsComplete
  <2>2. CASE pc' # pc
    BY <1>3, <1>9, <2>2 DEF GetSearch, Throw
  <2> QED BY <2>1, <2>2
<1>10. CASE Merge
  <2>1. /\ UNCHANGED <<dups, outs, ignored, input>> /\ pc' = "done" /\ outcome' = 0
        /\ pc = "get_searches" /\ next \notin DOMAIN outs
    BY <1>10 DEF Merge, Finish
  <2>2. Answered
    <3>1. \A i \in DOMAIN outs : OfFirst(actions[i]) /\ actions[i].column = outs[i]
      BY <1>1, <2>1 DEF Reported, Searched, OfFirst
    <3> QED BY <1>1, <2>1, <3>1 DEF Reported, Answered
  <2>3. found \in Seq(Nat) /\ Len(found) = Len(dups) /\ \A k \in DOMAIN found : found[k] = k
    BY <1>1, <2>1 DEF Collected
  <2>4. PICK list : actions' = list /\ MergedUpTo(list, Len(dups))
    BY <1>1, <1>10, <2>2, <2>3, MergeIs
  <2>5. ScanColumns(Len(dups)) = Entries(dups)
    BY <1>1 DEF ScanColumns, Entries
  <2>6. \A i \in DOMAIN outs : actions[i] = Searched(i)
    BY <1>1, <2>1 DEF Reported
  <2>7. /\ list \in Seq(Reports)
        /\ Len(list) = Len(outs) + Cardinality(Entries(dups) \ Entries(outs))
        /\ \A i \in DOMAIN outs : list[i] = Searched(i)
        /\ \A c \in Entries(dups) \ Entries(outs) :
             \E k \in DOMAIN list : list[k] = Report(c, FirstFor(c, dups))
    BY <1>1, <2>4, <2>5, <2>6 DEF MergedUpTo, Unsearched
  <2>8. ASSUME NEW j \in DOMAIN dups, j # FirstFor(dups[j], dups),
               NEW k \in DOMAIN list
        PROVE  j \notin {list[k].conf, list[k].skipped}
    <3>1. /\ list[k].conf = FirstFor(list[k].column, dups)
          /\ list[k].skipped \in {0, list[k].conf}
      BY <2>4 DEF MergedUpTo, OfFirst
    <3>2. j # 0 /\ dups \in Seq(Columns)
      BY <1>1 DEF TInv, Typed
    <3>3. list[k].conf # j
      BY <2>8, <3>1, <3>2, FirstForIs
    <3> QED BY <3>1, <3>2, <3>3
  <2>9. \A j \in DOMAIN dups : j \in Entries(found)
    BY <1>1, <2>3 DEF Entries
  <2>10. ReportIsComplete'
    <3>1. found' = found
      BY <1>10 DEF Merge
    <3>2. Entries(found)' = Entries(found)
      BY <3>1 DEF Entries
    <3> QED BY <2>1, <2>4, <2>7, <2>8, <2>9, <3>2 DEF ReportIsComplete, Searched
  <2> QED BY <1>1, <2>1, <2>4, <2>7, <2>10 DEF Reported
<1>11. CASE Unwind
  <2>1. /\ UNCHANGED <<dups, outs, ignored, input>> /\ pc' = "done" /\ outcome' # 0
        /\ actions' = <<>>
    BY <1>1, <1>11 DEF Unwind, Finish, Collected
  <2>2. <<>> \in Seq(Reports)
    OBVIOUS
  <2> QED BY <1>1, <2>1, <2>2 DEF Reported, ReportIsComplete
<1>12. ASSUME NEW i \in Tasks, Thread(i) PROVE Reported'
  <2>1. /\ UNCHANGED <<dups, outs, actions, ignored, pc, next, outcome, found>>
        /\ input' \in [Tasks -> Reports \cup {NoReport}]
    <3>1. CASE ScanColumn(i) \/ DetectOutliers(i)
      BY <1>1, <3>1 DEF ScanColumn, DetectOutliers, Reported
    <3>2. CASE CopyInput(i)
      <4>1. \A k \in DOMAIN actions : actions[k] \in Reports
        BY <1>1 DEF Reported
      <4> QED BY <1>1, <3>2, <4>1 DEF CopyInput, Reported
    <3> QED BY <1>12, <3>1, <3>2 DEF Thread
  <2>2. ReportIsComplete'
    BY <1>1, <2>1, SameReport DEF Reported
  <2>3. \A k : Searched(k)' = Searched(k)
    BY <2>1 DEF Searched
  <2> QED BY <1>1, <2>1, <2>2, <2>3 DEF Reported
<1>13. ASSUME NEW c \in Columns, Vanish(c) PROVE Reported'
  BY <1>3, <1>13 DEF Vanish
<1>14. CASE UNCHANGED vars
  BY <1>3, <1>14 DEF vars
<1> QED BY <1>4, <1>5, <1>6, <1>7, <1>8, <1>9, <1>10, <1>11, <1>12, <1>13, <1>14
        DEF Next, Main, Done

LEMMA NextRInv == RInv /\ [Next]_vars => RInv'
BY NextIInv, NextCollected, NextReported DEF RInv

LEMMA ReportsInvariance == Spec => []RInv
BY InitRInv, NextRInv, PTL DEF Spec

\* The variables have their types for any columns and any number of entries:
\* no report of the second round is about a column that is none, and no thread
\* answers with what stands for a report it could not read.
THEOREM TypesAreKept == Spec => []TypeOK
<1>1. RInv => TypeOK
  BY DEF RInv, IInv, TInv, Typed, Collected, Reported, TypeOK
<1> QED BY <1>1, ReportsInvariance, PTL

\* The report that is printed is complete for any configuration, in whatever
\* order the threads answer: find_outliers keeps the order of the entries, and
\* merge adds the first report of every column that was not searched, once.
\* Every filter.dup was scanned, but of the later ones of a column nothing is
\* in the report: merge and actions_data only take the first.
THEOREM CompleteReport == Spec => []ReportIsComplete
<1>1. RInv => ReportIsComplete
  BY DEF RInv, Reported
<1> QED BY <1>1, ReportsInvariance, PTL
=============================================================================
