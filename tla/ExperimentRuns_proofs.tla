----------------------- MODULE ExperimentRuns_proofs -----------------------
(***************************************************************************)
(* Proofs about ExperimentRuns, for any number of models and experiments:   *)
(* the types, and that no thread outlives what it holds a reference to.     *)
(***************************************************************************)
EXTENDS ExperimentRuns, TLAPS

(***************************************************************************)
(* Types.                                                                   *)
(***************************************************************************)
LEMMA TypedInit == Init => TypeOK
BY MaxModelsAssumption, MaxExperimentsAssumption
   DEF Init, TypeOK, Models, Experiments, Unfinished, Cause, NoCause, Causes,
       Unanswered

\* Every exception that is raised is a value of Causes.
LEMMA CauseType ==
  ASSUME NEW i \in 0 .. MaxModels, NEW j \in 0 .. MaxExperiments,
         NEW step \in {"none", "train", "test", "experiment", "thread"}
  PROVE  Cause(i, step, j) \in Causes
BY DEF Cause, Causes

LEMMA TypedStep == TypeOK /\ [Next]_vars => TypeOK'
<1> SUFFICES ASSUME TypeOK, [Next]_vars PROVE TypeOK'
  OBVIOUS
<1> USE MaxModelsAssumption, MaxExperimentsAssumption
    DEF TypeOK, Models, Experiments, Unfinished
<1>1. ASSUME NEW i \in Models, NEW j \in Experiments, RunExperiment(i, j)
      PROVE  TypeOK'
  BY <1>1 DEF RunExperiment, input, mainVars, modelVars
<1>2. ASSUME NEW i \in Models, TrainAndTest(i) PROVE TypeOK'
  <2>1. Cause(i, plan[i].step, 0) \in Causes \/ plan[i].step = "good"
    <3>1. plan[i].step \in {"good", "train", "test"}
      BY DEF Plans
    <3> QED BY <3>1, CauseType
  <2> QED BY <1>2, <2>1 DEF TrainAndTest, input, mainVars
<1>3. ASSUME NEW i \in Models, LaunchExperiment(i) PROVE TypeOK'
  BY <1>3 DEF LaunchExperiment, input, mainVars
<1>4. ASSUME NEW i \in Models, NoExperimentThread(i) PROVE TypeOK'
  <2>1. Cause(i, "thread", at[i]) \in Causes
    BY <1>4, CauseType DEF NoExperimentThread
  <2> QED BY <1>4, <2>1 DEF NoExperimentThread, input, mainVars
<1>5. ASSUME NEW i \in Models, ExperimentsLaunched(i) PROVE TypeOK'
  BY <1>5 DEF ExperimentsLaunched, input, mainVars
<1>6. ASSUME NEW i \in Models, CollectExperiment(i) PROVE TypeOK'
  <2>1. at[i] \in Experiments /\ at[i] + 1 \in 1 .. expers + 1
    <3>1. at[i] \in 1 .. expers + 1 /\ expers \in 1 .. MaxExperiments /\ at[i] <= expers
      BY <1>6 DEF CollectExperiment
    <3> QED BY <3>1
  <2>2. Cause(i, "experiment", at[i]) \in Causes
    BY <2>1, CauseType
  <2>3. Append(answer[i], <<i, at[i]>>) \in Seq(Pairs)
    <3>1. <<i, at[i]>> \in Pairs /\ answer[i] \in Seq(Pairs)
      BY <2>1 DEF Pairs
    <3>2. ASSUME NEW S, NEW s \in Seq(S), NEW e \in S PROVE Append(s, e) \in Seq(S)
      OBVIOUS
    <3> QED BY <3>1, <3>2
  <2>4. /\ UNCHANGED <<models, expers, plan, pc, next, testRes, exper, result, thrown,
                       outcome>>
        /\ \/ /\ answer' = [answer EXCEPT ![i] = Append(answer[i], <<i, at[i]>>)]
              /\ at' = [at EXCEPT ![i] = at[i] + 1]
              /\ UNCHANGED <<model, error>>
           \/ /\ model' = [model EXCEPT ![i] = "unwinding"]
              /\ error' = [error EXCEPT ![i] = Cause(i, "experiment", at[i])]
              /\ UNCHANGED <<at, answer>>
    BY <1>6 DEF CollectExperiment, input, mainVars
  <2>5. at' \in [Models -> 1 .. expers + 1] /\ answer' \in [Models -> Seq(Pairs)]
    <3>1. at' \in [Models -> 1 .. expers + 1]
      BY <2>1, <2>4
    <3>2. ASSUME NEW a \in Seq(Pairs)
          PROVE  [answer EXCEPT ![i] = a] \in [Models -> Seq(Pairs)]
      OBVIOUS
    <3>3. [answer EXCEPT ![i] = Append(answer[i], <<i, at[i]>>)] \in [Models -> Seq(Pairs)]
      BY <2>3, <3>2
    <3> QED BY <2>4, <3>1, <3>3
  <2>6. error' \in [Models -> Causes]
    BY <2>2, <2>4
  <2>7. model' \in [Models -> Unfinished \cup {"idle", "returned", "failed"}]
    BY <2>4
  <2> QED BY <2>4, <2>5, <2>6, <2>7
<1>7. ASSUME NEW i \in Models, ReturnAnswer(i) PROVE TypeOK'
  BY <1>7 DEF ReturnAnswer, input, mainVars
<1>8. ASSUME NEW i \in Models, UnwindModel(i) PROVE TypeOK'
  BY <1>8 DEF UnwindModel, input, mainVars
<1>9. CASE LaunchModel
  BY <1>9 DEF LaunchModel, input
<1>10. CASE NoModelThread
  <2>1. Cause(next, "thread", 0) \in Causes
    BY <1>10, CauseType DEF NoModelThread
  <2> QED BY <1>10, <2>1 DEF NoModelThread, input, modelVars
<1>11. CASE ModelsLaunched
  BY <1>11 DEF ModelsLaunched, input, modelVars
<1>12. CASE GetModel
  <2>1. next \in Models
    BY <1>12 DEF GetModel
  <2>2. result \o answer[next] \in Seq(Pairs) /\ error[next] \in Causes
    BY <2>1
  <2>3. /\ UNCHANGED <<models, expers, plan, model, at, testRes, exper, answer, error,
                       outcome>>
        /\ \/ /\ result' = result \o answer[next]
              /\ next' = next + 1
              /\ UNCHANGED <<pc, thrown>>
           \/ /\ thrown' = error[next]
              /\ pc' = "unwind"
              /\ UNCHANGED <<next, result>>
    BY <1>12 DEF GetModel, input, modelVars
  <2>4. result' \in Seq(Pairs) /\ thrown' \in Causes
    BY <2>2, <2>3
  <2>5. next' \in 1 .. models + 1 /\ pc' \in {"launch", "collect", "unwind", "done"}
    BY <1>12, <2>3 DEF GetModel
  <2> QED BY <2>3, <2>4, <2>5
<1>13. CASE Report
  <2>1. outcome'.code \in {1, 0, -1, -2} /\ outcome'.cause = NoCause
    BY <1>13 DEF Report
  <2>2. NoCause \in Causes
    BY CauseType DEF NoCause
  <2> QED BY <1>13, <2>1, <2>2 DEF Report, input, modelVars
<1>14. CASE Unwind
  BY <1>14 DEF Unwind, input, modelVars
<1>15. CASE UNCHANGED vars
  BY <1>15 DEF vars
<1> QED BY <1>1, <1>2, <1>3, <1>4, <1>5, <1>6, <1>7, <1>8, <1>9, <1>10, <1>11,
           <1>12, <1>13, <1>14, <1>15 DEF Next, Main, ModelThread, Done

\* Type correctness, including that no list is read past its end.
THEOREM TypeCorrect == Spec => []TypeOK
BY TypedInit, TypedStep, PTL DEF Spec

(***************************************************************************)
(* References.                                                              *)
(***************************************************************************)

\* What the threads of its experiments may be doing in each state of a
\* model's thread.  While it launches, those from at[i] on have no thread yet;
\* while it collects, those before at[i] have ended and those the
\* configuration does not have never had a thread.
Books(i) ==
  /\ model[i] \in {"idle", "training"} =>
       \A j \in Experiments : exper[i][j] = "idle"
  /\ model[i] = "launching" =>
       \A j \in Experiments : j >= at[i] => exper[i][j] = "idle"
  /\ model[i] = "collecting" =>
       \A j \in Experiments : j < at[i] \/ j > expers => exper[i][j] # "running"
  /\ model[i] \in {"returned", "failed"} =>
       \A j \in Experiments : exper[i][j] # "running"
  /\ model[i] \in {"launching", "collecting", "unwinding"} => testRes[i] = "alive"

\* What the calling thread knows of the threads of the models: which of them
\* have no thread yet, which have ended, and that all have at the end.
Known ==
  /\ \A i \in Models : i > models \/ (pc = "launch" /\ i >= next) => model[i] = "idle"
  /\ pc = "collect" => \A i \in Models : i < next => model[i] = "returned"
  /\ pc = "done" => \A i \in Models : model[i] \notin Unfinished

IInv == TypeOK /\ Known /\ \A i \in Models : Books(i)

LEMMA IInvInit == Init => IInv
BY TypedInit DEF Init, IInv, Known, Books, Unfinished

\* A model's thread, or one of its experiments', does not touch the books of
\* another model.
LEMMA BooksOfOthers ==
  ASSUME NEW i \in Models, NEW k \in Models, Books(k),
         model'[k] = model[k], at'[k] = at[k], testRes'[k] = testRes[k],
         exper'[k] = exper[k], expers' = expers
  PROVE  Books(k)'
BY DEF Books, Experiments

LEMMA IInvStep == IInv /\ [Next]_vars => IInv'
<1> SUFFICES ASSUME IInv, [Next]_vars PROVE (Known /\ \A i \in Models : Books(i))'
  BY TypedStep DEF IInv
<1> USE MaxModelsAssumption, MaxExperimentsAssumption
    DEF IInv, TypeOK, Models, Experiments
<1>1. ASSUME NEW i \in Models, NEW j \in Experiments, RunExperiment(i, j)
      PROVE  (Known /\ \A k \in Models : Books(k))'
  <2>1. exper[i][j] = "running" /\ Books(i)
    BY <1>1 DEF RunExperiment
  <2>2. Books(i)'
    BY <1>1, <2>1 DEF RunExperiment, Books, input, mainVars, modelVars, Unfinished
  <2>3. ASSUME NEW k \in Models, k # i PROVE Books(k)'
    BY <1>1, <2>3, BooksOfOthers DEF RunExperiment, input, mainVars, modelVars
  <2> QED BY <1>1, <2>2, <2>3 DEF RunExperiment, Known, input, mainVars, modelVars
<1>2. ASSUME NEW i \in Models, ModelThread(i) \/ NoExperimentThread(i)
      PROVE  (Known /\ \A k \in Models : Books(k))'
  <2> USE DEF TrainAndTest, LaunchExperiment, ExperimentsLaunched, NoExperimentThread,
              CollectExperiment, ReturnAnswer, UnwindModel, input, mainVars, Unfinished
  <2>1. /\ model[i] \in Unfinished
        /\ \A k \in Models : k # i => model'[k] = model[k] /\ at'[k] = at[k]
                                      /\ testRes'[k] = testRes[k] /\ exper'[k] = exper[k]
        /\ UNCHANGED <<models, expers, pc, next>>
    BY <1>2 DEF ModelThread
  <2>2. ASSUME NEW k \in Models, k # i PROVE Books(k)'
    BY <2>1, <2>2, BooksOfOthers
  <2>3. Known'
    BY <2>1 DEF Known
  <2>4. Books(i)
    OBVIOUS
  <2>5. ASSUME TrainAndTest(i) PROVE Books(i)'
    BY <2>4, <2>5 DEF Books
  <2>6. ASSUME LaunchExperiment(i) PROVE Books(i)'
    BY <2>4, <2>6 DEF Books
  <2>7. ASSUME ExperimentsLaunched(i) PROVE Books(i)'
    <3>1. /\ model'[i] = "collecting" /\ at'[i] = 1 /\ exper' = exper
          /\ testRes' = testRes /\ testRes[i] = "alive" /\ expers' = expers
      BY <2>4, <2>7 DEF Books
    <3>2. \A j \in Experiments : j > expers => exper[i][j] # "running"
      <4>1. /\ \A j \in Experiments : j >= at[i] => exper[i][j] = "idle"
            /\ at[i] \in 1 .. expers + 1 /\ expers \in Int
        BY <2>4, <2>7 DEF Books
      <4>2. \A j \in Experiments : j > expers => j >= at[i]
        BY ONLY <4>1 DEF Experiments
      <4> QED BY ONLY <4>1, <4>2
    <3>3. \A j \in Experiments : ~(j < 1)
      OBVIOUS
    <3> QED BY ONLY <3>1, <3>2, <3>3 DEF Books
  <2>8. ASSUME CollectExperiment(i) PROVE Books(i)'
    <3>1. /\ model[i] = "collecting" /\ testRes' = testRes /\ exper' = exper
          /\ expers' = expers /\ testRes[i] = "alive"
          /\ \A j \in Experiments : j < at[i] \/ j > expers => exper[i][j] # "running"
      BY <2>4, <2>8 DEF Books
    <3>2. \/ model'[i] = "unwinding"
          \/ /\ model'[i] = "collecting" /\ at'[i] = at[i] + 1
             /\ exper[i][at[i]] = "returned"
      <4>1. i \in DOMAIN model /\ i \in DOMAIN at
        OBVIOUS
      <4>2. \/ model' = [model EXCEPT ![i] = "unwinding"]
            \/ /\ model' = model /\ at' = [at EXCEPT ![i] = at[i] + 1]
               /\ exper[i][at[i]] = "returned"
        BY <2>8
      <4> QED BY ONLY <3>1, <4>1, <4>2
    <3>3. \A j \in Experiments : j < at[i] + 1 => j < at[i] \/ j = at[i]
      OBVIOUS
    <3>4. CASE model'[i] = "unwinding"
      BY ONLY <3>1, <3>4 DEF Books
    <3>5. CASE /\ model'[i] = "collecting" /\ at'[i] = at[i] + 1
               /\ exper[i][at[i]] = "returned"
      <4>1. \A j \in Experiments : j < at[i] + 1 \/ j > expers => exper[i][j] # "running"
        BY ONLY <3>1, <3>3, <3>5
      <4> QED BY ONLY <3>1, <3>5, <4>1 DEF Books
    <3> QED BY ONLY <3>2, <3>4, <3>5
  <2>9. ASSUME ReturnAnswer(i) PROVE Books(i)'
    <3>1. /\ model'[i] = "returned" /\ exper' = exper
          /\ at[i] > expers /\ at[i] \in Int /\ expers \in Int
          /\ \A j \in Experiments : j < at[i] \/ j > expers => exper[i][j] # "running"
      BY <2>4, <2>9 DEF Books
    <3>2. \A j \in Experiments : j < at[i] \/ j > expers
      BY <3>1
    <3> QED BY <3>1, <3>2 DEF Books
  <2>10. ASSUME UnwindModel(i) PROVE Books(i)'
    BY <2>4, <2>10 DEF Books
  <2>11. ASSUME NoExperimentThread(i) PROVE Books(i)'
    BY <2>4, <2>11 DEF Books
  <2>12. Books(i)'
    BY ONLY <1>2, <2>5, <2>6, <2>7, <2>8, <2>9, <2>10, <2>11 DEF ModelThread
  <2> QED BY <2>2, <2>3, <2>12
<1>3. CASE LaunchModel
  <2>1. next \in Models /\ model[next] = "idle" /\ Books(next)
    BY <1>3 DEF LaunchModel, Known
  <2>2. ASSUME NEW k \in Models, k = next PROVE Books(k)'
    BY <1>3, <2>1, <2>2 DEF LaunchModel, Books, input
  <2>3. ASSUME NEW k \in Models, k # next PROVE Books(k)'
    BY <1>3, <2>3, BooksOfOthers DEF LaunchModel, input
  <2>4. Known'
    BY <1>3, <2>1 DEF LaunchModel, Known, input
  <2> QED BY <2>2, <2>3, <2>4
<1>4. ASSUME UNCHANGED <<input, modelVars, exper>>
      PROVE  \A k \in Models : Books(k)'
  BY <1>4, BooksOfOthers DEF input, modelVars
<1>5. CASE NoModelThread
  BY <1>4, <1>5 DEF NoModelThread, Known, input, modelVars
<1>6. CASE ModelsLaunched
  BY <1>4, <1>6 DEF ModelsLaunched, Known, input, modelVars
<1>7. CASE GetModel
  BY <1>4, <1>7 DEF GetModel, Known, input, modelVars
<1>8. CASE Report
  <2>1. /\ pc = "collect" /\ next > models /\ pc' = "done"
        /\ UNCHANGED <<models, model, input, modelVars, exper>>
    BY <1>8 DEF Report, input, modelVars
  <2>2. ASSUME NEW k \in Models PROVE model[k] \in {"idle", "returned"}
    BY <2>1 DEF Known
  <2>3. Known'
    BY <2>1, <2>2 DEF Known, Unfinished
  <2> QED BY <1>4, <2>1, <2>3
<1>9. CASE Unwind
  BY <1>4, <1>9 DEF Unwind, Known, input, modelVars
<1>10. CASE UNCHANGED vars
  BY <1>4, <1>10 DEF vars, Known, input, modelVars
<1> QED BY <1>1, <1>2, <1>3, <1>5, <1>6, <1>7, <1>8, <1>9, <1>10 DEF Next, Main, Done

LEMMA AlwaysIInv == Spec => []IInv
BY IInvInit, IInvStep, PTL DEF Spec

\* However many models and experiments there are, and however the threads end:
\* the data outlives every model's thread, and test_res every experiment that
\* reads it (pipeline_execute.cpp, run_experiments and model2experiment).
THEOREM BorrowedStaysAlive == Spec => []BorrowedIsAlive
<1>1. IInv => BorrowedIsAlive
  <2> SUFFICES ASSUME IInv, NEW i \in Models
               PROVE  /\ model[i] \in Unfinished => pc # "done"
                      /\ \A j \in Experiments : exper[i][j] = "running" => testRes[i] = "alive"
    BY DEF BorrowedIsAlive
  <2>1. model[i] \in Unfinished => pc # "done"
    BY DEF IInv, Known
  <2>2. /\ Books(i)
        /\ model[i] \in {"training", "launching", "collecting", "unwinding", "idle",
                         "returned", "failed"}
    BY DEF IInv, TypeOK, Unfinished
  <2>3. \A j \in Experiments : exper[i][j] = "running" => testRes[i] = "alive"
    BY <2>2 DEF Books
  <2> QED BY <2>1, <2>3
<1> QED BY AlwaysIInv, <1>1, PTL

-----------------------------------------------------------------------------
(***************************************************************************)
(* The answer.                                                              *)
(***************************************************************************)

\* What the answers of the first n models make up when nothing goes wrong.
Entries(n) == [k \in 1 .. n * expers |-> EntryAt(k)]

\* What is certain of a model, whichever of its experiments was faster.
Settled(i) ==
  /\ \A j \in Experiments :
       /\ exper[i][j] = "returned" => plan[i].exper[j] # "throws"
       /\ exper[i][j] = "failed" => plan[i].exper[j] = "throws"
  /\ model[i] \in {"launching", "collecting", "returned"} => plan[i].step = "good"
  /\ model[i] \in {"idle", "training", "launching"} => answer[i] = <<>>
  /\ model[i] = "collecting" =>
       /\ answer[i] = [j \in 1 .. at[i] - 1 |-> <<i, j>>]
       /\ \A j \in 1 .. at[i] - 1 : plan[i].exper[j] # "throws"
  /\ model[i] = "returned" =>
       answer[i] = [j \in 1 .. expers |-> <<i, j>>] /\ Failure(i) = NoCause
  /\ model[i] \in {"unwinding", "failed"} =>
       error[i].step = "thread" \/ (error[i] = Failure(i) /\ Failure(i) # NoCause)

\* The first model that fails.
FailsFirst(i) ==
  /\ i \in 1 .. models /\ Failure(i) # NoCause
  /\ \A k \in 1 .. models : k < i => Failure(k) = NoCause

\* What is certain of what the calling thread has so far.
Gathered ==
  /\ pc = "launch" => result = <<>>
  /\ pc = "collect" => result = Entries(next - 1)
  /\ pc = "unwind" /\ thrown.step # "thread" =>
       \E i \in 1 .. models : FailsFirst(i) /\ thrown = Failure(i)

\* What Failure says of a model, case by case.
LEMMA FailureCases ==
  ASSUME TypeOK, NEW i \in Models
  PROVE  /\ plan[i].step # "good" => Failure(i) = Cause(i, plan[i].step, 0)
         /\ plan[i].step = "good" /\ (\A j \in 1 .. expers : plan[i].exper[j] # "throws")
              => Failure(i) = NoCause
         /\ \A j \in 1 .. expers :
              /\ plan[i].step = "good" /\ plan[i].exper[j] = "throws"
              /\ \A k \in 1 .. j - 1 : plan[i].exper[k] # "throws"
              => Failure(i) = Cause(i, "experiment", j)
<1>1. plan[i].step # "good" => Failure(i) = Cause(i, plan[i].step, 0)
  BY DEF Failure
<1>2. ASSUME plan[i].step = "good", \A j \in 1 .. expers : plan[i].exper[j] # "throws"
      PROVE  Failure(i) = NoCause
  <2>1. {j \in 1 .. expers : plan[i].exper[j] = "throws"} = {}
    BY <1>2
  <2> QED BY <1>2, <2>1 DEF Failure
<1>3. ASSUME NEW j \in 1 .. expers,
             plan[i].step = "good", plan[i].exper[j] = "throws",
             \A k \in 1 .. j - 1 : plan[i].exper[k] # "throws"
      PROVE  Failure(i) = Cause(i, "experiment", j)
  <2> DEFINE bad == {k \in 1 .. expers : plan[i].exper[k] = "throws"}
  <2>1. j \in bad /\ j \in Int
    BY <1>3
  <2>2. \A k \in bad : k \in Int /\ j <= k
    <3> SUFFICES ASSUME NEW k \in bad PROVE k \in Int /\ j <= k
      OBVIOUS
    <3>1. k \in 1 .. expers /\ plan[i].exper[k] = "throws"
      OBVIOUS
    <3>2. k \notin 1 .. j - 1
      BY <1>3, <3>1
    <3> QED BY <2>1, <3>1, <3>2
  <2> HIDE DEF bad
  <2>3. (CHOOSE l \in bad : \A k \in bad : l <= k) = j
    <3>1. \A l \in bad : (\A k \in bad : l <= k) => l = j
      BY <2>1, <2>2
    <3> QED BY <2>1, <2>2, <3>1
  <2>4. bad # {}
    BY <2>1
  <2>5. Failure(i) = IF plan[i].step # "good" THEN Cause(i, plan[i].step, 0)
                     ELSE IF bad = {} THEN NoCause
                     ELSE Cause(i, "experiment", CHOOSE l \in bad : \A k \in bad : l <= k)
    BY DEF Failure, bad
  <2> QED BY <1>3, <2>3, <2>4, <2>5
<1> QED BY <1>1, <1>2, <1>3

\* A cause names its model, and so it is not "no cause".
LEMMA CauseIsOne ==
  ASSUME NEW i \in Models, NEW step, NEW j
  PROVE  Cause(i, step, j) # NoCause /\ Cause(i, step, j).step = step
BY MaxModelsAssumption DEF Cause, NoCause, Models

\* Nobody changes the configuration.
LEMMA SameInput == [Next]_vars => UNCHANGED input
BY DEF Next, Main, ModelThread, LaunchModel, NoModelThread, ModelsLaunched, GetModel, Report,
       Unwind, TrainAndTest, LaunchExperiment, NoExperimentThread, ExperimentsLaunched,
       CollectExperiment, ReturnAnswer, UnwindModel, RunExperiment, Done, vars, input

LEMMA SameFailure ==
  ASSUME UNCHANGED input
  PROVE  /\ \A i : Failure(i)' = Failure(i)
         /\ \A i : FailsFirst(i)' = FailsFirst(i)
<1>1. \A i : Failure(i)' = Failure(i)
  BY DEF Failure, input
<1>2. models' = models
  BY DEF input
<1> QED BY <1>1, <1>2 DEF FailsFirst

LEMMA SettledOfOthers ==
  ASSUME NEW i, Settled(i), UNCHANGED input,
         model'[i] = model[i], at'[i] = at[i], exper'[i] = exper[i], answer'[i] = answer[i],
         error'[i] = error[i]
  PROVE  Settled(i)'
<1>1. Failure(i)' = Failure(i)
  BY SameFailure
<1> QED BY <1>1 DEF Settled, input

LEMMA SettledInit == Init => \A i \in Models : Settled(i)
BY DEF Init, Settled, Experiments

LEMMA SettledStep ==
  ASSUME IInv, [Next]_vars, \A i \in Models : Settled(i)
  PROVE  \A i \in Models : Settled(i)'
<1> USE DEF TypeOK, Models, Experiments
<1>0. UNCHANGED input /\ TypeOK
  BY SameInput DEF IInv
<1>1. \A k : Failure(k)' = Failure(k)
  BY <1>0, SameFailure
<1>2. ASSUME UNCHANGED <<modelVars, exper>> PROVE \A k \in Models : Settled(k)'
  BY <1>0, <1>2, SettledOfOthers DEF modelVars
<1>3. ASSUME NEW i \in Models, NEW j \in Experiments, RunExperiment(i, j)
      PROVE  \A k \in Models : Settled(k)'
  <2>1. /\ exper[i][j] = "running" /\ UNCHANGED <<model, at, answer, error, plan, expers>>
        /\ exper' = [exper EXCEPT ![i][j] =
                       IF plan[i].exper[j] = "throws" THEN "failed" ELSE "returned"]
    BY <1>3 DEF RunExperiment, modelVars, input
  <2>2. ASSUME NEW k \in Models, k # i PROVE Settled(k)'
    <3>1. exper'[k] = exper[k]
      BY <1>0, <2>1, <2>2
    <3> QED BY <1>0, <2>1, <3>1, SettledOfOthers
  <2>3. \A l \in Experiments :
          /\ exper'[i][l] = "returned" => plan[i].exper[l] # "throws"
          /\ exper'[i][l] = "failed" => plan[i].exper[l] = "throws"
    <3> SUFFICES ASSUME NEW l \in Experiments
                 PROVE  /\ exper'[i][l] = "returned" => plan[i].exper[l] # "throws"
                        /\ exper'[i][l] = "failed" => plan[i].exper[l] = "throws"
      OBVIOUS
    <3>1. CASE l = j
      BY <1>0, <2>1, <3>1
    <3>2. CASE l # j
      <4>1. exper'[i][l] = exper[i][l]
        BY <1>0, <2>1, <3>2
      <4> QED BY <4>1 DEF Settled
    <3> QED BY <3>1, <3>2
  <2>4. Settled(i)'
    BY <1>1, <2>1, <2>3 DEF Settled
  <2> QED BY <2>2, <2>4
<1>4. ASSUME NEW i \in Models, ModelThread(i) \/ NoExperimentThread(i)
      PROVE  \A k \in Models : Settled(k)'
  <2> USE DEF TrainAndTest, LaunchExperiment, ExperimentsLaunched, NoExperimentThread,
              CollectExperiment, ReturnAnswer, UnwindModel, mainVars
  <2>1. \A k \in Models : k # i =>
          /\ model'[k] = model[k] /\ at'[k] = at[k] /\ answer'[k] = answer[k]
          /\ error'[k] = error[k] /\ exper'[k] = exper[k]
    BY <1>0, <1>4 DEF ModelThread
  <2>2. ASSUME NEW k \in Models, k # i PROVE Settled(k)'
    BY <1>0, <2>1, <2>2, SettledOfOthers
  <2>3. Settled(i) /\ UNCHANGED <<plan, expers>>
    BY <1>0 DEF input
  <2>4. at[i] \in 1 .. expers + 1 /\ expers \in 1 .. MaxExperiments /\ MaxExperiments \in Nat
    BY <1>0, MaxExperimentsAssumption
  <2>5. ASSUME TrainAndTest(i) PROVE Settled(i)'
    <3>1. \/ /\ plan[i].step = "good" /\ model'[i] = "launching" /\ UNCHANGED error
          \/ /\ plan[i].step # "good" /\ model'[i] = "failed"
             /\ error'[i] = Cause(i, plan[i].step, 0)
      BY <1>0, <2>5
    <3>2. UNCHANGED <<at, exper, answer>> /\ model[i] = "training"
      BY <2>5
    <3>3. plan[i].step # "good" =>
            Failure(i) = Cause(i, plan[i].step, 0) /\ Failure(i) # NoCause
      BY <1>0, FailureCases, CauseIsOne
    <3> QED BY <1>1, <2>3, <3>1, <3>2, <3>3 DEF Settled
  <2>6. ASSUME LaunchExperiment(i) PROVE Settled(i)'
    <3>1. /\ model[i] = "launching" /\ at[i] \in Experiments
          /\ UNCHANGED <<model, answer, error>>
          /\ exper' = [exper EXCEPT ![i][at[i]] = "running"]
      BY <2>4, <2>6
    <3>2. \A l \in Experiments : exper'[i][l] \in {exper[i][l], "running"}
      BY <1>0, <3>1
    <3> QED BY <1>1, <2>3, <3>1, <3>2 DEF Settled
  <2>7. ASSUME ExperimentsLaunched(i) PROVE Settled(i)'
    <3>1. /\ model[i] = "launching" /\ model'[i] = "collecting" /\ at'[i] = 1
          /\ UNCHANGED <<answer, error, exper>>
      BY <1>0, <2>7
    <3>2. answer[i] = <<>> /\ plan[i].step = "good"
      BY <2>3, <3>1 DEF Settled
    <3>3. <<>> = [j \in 1 .. 0 |-> <<i, j>>]
      OBVIOUS
    <3>4. answer'[i] = [j \in 1 .. at'[i] - 1 |-> <<i, j>>] /\ 1 .. at'[i] - 1 = {}
      BY <3>1, <3>2, <3>3
    <3> QED BY <1>1, <2>3, <3>1, <3>2, <3>4 DEF Settled
  <2>8. ASSUME CollectExperiment(i) PROVE Settled(i)'
    <3> DEFINE n == at[i]
    <3>1. /\ model[i] = "collecting" /\ n \in 1 .. expers /\ n \in Experiments
          /\ UNCHANGED exper
      BY <2>4, <2>8
    <3>2. /\ answer[i] = [j \in 1 .. n - 1 |-> <<i, j>>]
          /\ \A j \in 1 .. n - 1 : plan[i].exper[j] # "throws"
          /\ plan[i].step = "good"
      BY <3>1 DEF Settled
    <3>3. CASE /\ exper[i][n] = "returned"
               /\ answer' = [answer EXCEPT ![i] = Append(answer[i], <<i, n>>)]
               /\ at' = [at EXCEPT ![i] = n + 1]
               /\ UNCHANGED <<model, error>>
      <4>1. answer'[i] = Append(answer[i], <<i, n>>) /\ at'[i] = n + 1
        BY <1>0, <3>3
      <4>2. Append([j \in 1 .. n - 1 |-> <<i, j>>], <<i, n>>) = [j \in 1 .. n |-> <<i, j>>]
        BY <3>1
      <4>3. answer'[i] = [j \in 1 .. at'[i] - 1 |-> <<i, j>>]
        BY <3>1, <3>2, <4>1, <4>2
      <4>4. \A j \in 1 .. at'[i] - 1 : plan[i].exper[j] # "throws"
        <5>1. plan[i].exper[n] # "throws"
          BY <3>1, <3>3 DEF Settled
        <5>2. \A j \in 1 .. at'[i] - 1 : j \in 1 .. n - 1 \/ j = n
          BY <3>1, <4>1
        <5> QED BY <3>2, <5>1, <5>2
      <4> QED BY <1>1, <2>3, <3>1, <3>3, <4>3, <4>4 DEF Settled
    <3>4. CASE /\ exper[i][n] = "failed"
               /\ model' = [model EXCEPT ![i] = "unwinding"]
               /\ error' = [error EXCEPT ![i] = Cause(i, "experiment", n)]
               /\ UNCHANGED <<at, answer>>
      <4>1. model'[i] = "unwinding" /\ error'[i] = Cause(i, "experiment", n)
        BY <1>0, <3>4
      <4>2. plan[i].exper[n] = "throws"
        BY <3>1, <3>4 DEF Settled
      <4>3. Failure(i) = Cause(i, "experiment", n)
        BY <1>0, <3>1, <3>2, <4>2, FailureCases
      <4>4. Failure(i) # NoCause
        BY <4>3, CauseIsOne
      <4> QED BY <1>1, <2>3, <3>1, <3>4, <4>1, <4>3, <4>4 DEF Settled
    <3> QED BY <2>8, <3>3, <3>4
  <2>9. ASSUME ReturnAnswer(i) PROVE Settled(i)'
    <3>1. /\ model[i] = "collecting" /\ model'[i] = "returned" /\ at[i] - 1 = expers
          /\ UNCHANGED <<exper, answer, error>>
      BY <1>0, <2>4, <2>9
    <3>2. /\ answer[i] = [j \in 1 .. expers |-> <<i, j>>]
          /\ \A j \in 1 .. expers : plan[i].exper[j] # "throws"
          /\ plan[i].step = "good"
      BY <3>1 DEF Settled
    <3>3. Failure(i) = NoCause
      BY <1>0, <3>2, FailureCases
    <3> QED BY <1>1, <2>3, <3>1, <3>2, <3>3 DEF Settled
  <2>10. ASSUME UnwindModel(i) PROVE Settled(i)'
    <3>1. /\ model[i] = "unwinding" /\ model'[i] = "failed"
          /\ UNCHANGED <<at, exper, answer, error>>
      BY <1>0, <2>10
    <3> QED BY <1>1, <2>3, <3>1 DEF Settled
  <2>11. ASSUME NoExperimentThread(i) PROVE Settled(i)'
    <3>1. /\ model[i] = "launching" /\ model'[i] = "unwinding"
          /\ error'[i] = Cause(i, "thread", at[i])
          /\ UNCHANGED <<at, exper, answer>>
      BY <1>0, <2>11
    <3>2. error'[i].step = "thread"
      BY <3>1, CauseIsOne
    <3> QED BY <1>1, <2>3, <3>1, <3>2 DEF Settled
  <2>12. Settled(i)'
    BY ONLY <1>4, <2>5, <2>6, <2>7, <2>8, <2>9, <2>10, <2>11 DEF ModelThread
  <2> QED BY <2>2, <2>12
<1>5. CASE LaunchModel
  <2>1. /\ next \in Models /\ model[next] = "idle"
        /\ model' = [model EXCEPT ![next] = "training"]
        /\ UNCHANGED <<at, answer, error, exper>>
    <3>1. /\ pc = "launch" /\ next \in 1 .. models
          /\ model' = [model EXCEPT ![next] = "training"]
          /\ UNCHANGED <<at, answer, error, exper>>
      BY <1>0, <1>5 DEF LaunchModel
    <3>2. next \in Models
      BY <1>0, <3>1, MaxModelsAssumption
    <3>3. model[next] = "idle"
      BY <3>1, <3>2 DEF Known, IInv
    <3> QED BY <3>1, <3>2, <3>3
  <2>2. ASSUME NEW k \in Models, k # next PROVE Settled(k)'
    <3>1. model'[k] = model[k]
      BY <1>0, <2>1, <2>2
    <3> QED BY <1>0, <2>1, <3>1, SettledOfOthers
  <2>3. Settled(next) /\ model'[next] = "training"
    BY <1>0, <2>1
  <2>4. ASSUME NEW k \in Models, k = next PROVE Settled(k)'
    <3>1. Settled(k) /\ model[k] = "idle" /\ model'[k] = "training"
      BY <2>1, <2>3, <2>4
    <3>2. UNCHANGED <<plan, expers>>
      BY <1>0 DEF input
    <3> QED BY <1>1, <2>1, <3>1, <3>2 DEF Settled
  <2> QED BY <2>2, <2>4
<1>6. CASE NoModelThread \/ ModelsLaunched \/ GetModel \/ Report \/ Unwind
  BY <1>2, <1>6 DEF NoModelThread, ModelsLaunched, GetModel, Report, Unwind, modelVars
<1>7. CASE UNCHANGED vars
  BY <1>2, <1>7 DEF vars, modelVars
<1> QED BY <1>3, <1>4, <1>5, <1>6, <1>7 DEF Next, Main, Done

LEMMA DivisionByExperiments ==
  ASSUME NEW e \in Nat \ {0}, NEW n \in Nat, NEW r \in 0 .. e - 1
  PROVE  (n * e + r) \div e = n /\ (n * e + r) % e = r
OBVIOUS

LEMMA SameElements ==
  ASSUME NEW S, NEW s \in Seq(S), NEW t \in Seq(S), Len(s) = Len(t),
         \A k \in 1 .. Len(s) : s[k] = t[k]
  PROVE  s = t
OBVIOUS

LEMMA ConcatIs ==
  ASSUME NEW S, NEW s \in Seq(S), NEW t \in Seq(S), NEW u \in Seq(S),
         Len(u) = Len(s) + Len(t),
         \A k \in 1 .. Len(s) : u[k] = s[k],
         \A k \in 1 .. Len(t) : u[Len(s) + k] = t[k]
  PROVE  s \o t = u
<1>1. /\ s \o t \in Seq(S) /\ Len(s \o t) = Len(u)
      /\ Len(s) \in Nat /\ Len(t) \in Nat
  OBVIOUS
<1>2. ASSUME NEW k \in 1 .. Len(u)
      PROVE  (s \o t)[k] = u[k]
  <2>1. CASE k <= Len(s)
    BY <1>1, <2>1
  <2>2. CASE ~(k <= Len(s))
    <3>1. k - Len(s) \in 1 .. Len(t) /\ Len(s) + (k - Len(s)) = k
      BY <1>1, <2>2
    <3>2. (s \o t)[k] = t[k - Len(s)]
      BY <1>1, <2>2
    <3>3. u[Len(s) + (k - Len(s))] = t[k - Len(s)]
      BY <3>1
    <3> QED BY <3>1, <3>2, <3>3
  <2> QED BY <2>1, <2>2
<1> DEFINE c == s \o t
<1>3. c \in Seq(S) /\ Len(c) = Len(u) /\ \A k \in 1 .. Len(c) : c[k] = u[k]
  BY <1>1, <1>2
<1> HIDE DEF c
<1>4. c = u
  BY <1>3, SameElements
<1> QED BY <1>4 DEF c

\* The entries of one more model continue the list (pipeline_execute.cpp,
\* run_experiments: std::back_inserter).
LEMMA OneModelMore ==
  ASSUME NEW n \in Nat, expers \in Nat \ {0}
  PROVE  Entries(n) \o [j \in 1 .. expers |-> <<n + 1, j>>] = Entries(n + 1)
<1> DEFINE m == n * expers
           own == [j \in 1 .. expers |-> <<n + 1, j>>]
<1>1. m \in Nat /\ (n + 1) * expers = m + expers /\ m + expers \in Nat
  OBVIOUS
<1>2. ASSUME NEW k \in 1 .. expers
      PROVE  EntryAt(m + k) = <<n + 1, k>>
  <2>1. k - 1 \in 0 .. expers - 1 /\ (m + k) - 1 = n * expers + (k - 1)
    BY <1>1
  <2>2. (n * expers + (k - 1)) \div expers = n /\ (n * expers + (k - 1)) % expers = k - 1
    BY <2>1, DivisionByExperiments
  <2> QED BY <2>1, <2>2 DEF EntryAt
<1> DEFINE S == {EntryAt(k) : k \in 1 .. m + expers}
<1> HIDE DEF m
<1>3. Entries(n) = [k \in 1 .. m |-> EntryAt(k)]
  BY DEF Entries, m
<1>4. Entries(n + 1) = [k \in 1 .. m + expers |-> EntryAt(k)]
  BY <1>1 DEF Entries
<1>5. Entries(n) \in Seq(S) /\ Len(Entries(n)) = m
  <2>1. \A k \in 1 .. m : EntryAt(k) \in S
    <3>1. \A k \in 1 .. m : k \in 1 .. m + expers
      BY <1>1
    <3> QED BY <3>1
  <2> HIDE DEF S
  <2> QED BY <1>1, <1>3, <2>1
<1>6. Entries(n + 1) \in Seq(S) /\ Len(Entries(n + 1)) = m + expers
  <2>1. \A k \in 1 .. m + expers : EntryAt(k) \in S
    OBVIOUS
  <2> HIDE DEF S
  <2> QED BY <1>1, <1>4, <2>1
<1>7. own \in Seq(S) /\ Len(own) = expers
  <2>1. \A j \in 1 .. expers : <<n + 1, j>> \in S
    <3> SUFFICES ASSUME NEW j \in 1 .. expers PROVE <<n + 1, j>> \in S
      OBVIOUS
    <3>1. m + j \in 1 .. m + expers
      BY <1>1
    <3> QED BY <1>2, <3>1
  <2> HIDE DEF S
  <2> QED BY <2>1
<1> HIDE DEF S
<1>8. \A k \in 1 .. m : Entries(n + 1)[k] = Entries(n)[k]
  BY <1>1, <1>3, <1>4
<1>9. \A k \in 1 .. expers : Entries(n + 1)[m + k] = own[k]
  <2> SUFFICES ASSUME NEW k \in 1 .. expers PROVE Entries(n + 1)[m + k] = own[k]
    OBVIOUS
  <2>1. m + k \in 1 .. m + expers
    BY <1>1
  <2> QED BY <1>2, <1>4, <2>1
<1> HIDE DEF own
<1>10. Entries(n) \o own = Entries(n + 1)
  <2>1. \A k \in 1 .. Len(Entries(n)) : Entries(n + 1)[k] = Entries(n)[k]
    BY <1>5, <1>8
  <2>2. \A k \in 1 .. Len(own) : Entries(n + 1)[Len(Entries(n)) + k] = own[k]
    BY <1>5, <1>7, <1>9
  <2>3. Len(Entries(n + 1)) = Len(Entries(n)) + Len(own)
    BY <1>5, <1>6, <1>7
  <2> QED BY <1>5, <1>6, <1>7, <2>1, <2>2, <2>3, ConcatIs
<1> QED BY <1>10 DEF own

LEMMA GatheredInit == Init => Gathered
BY DEF Init, Gathered

LEMMA GatheredStep ==
  ASSUME IInv, [Next]_vars, Gathered, \A i \in Models : Settled(i)
  PROVE  Gathered'
<1>0. UNCHANGED input /\ TypeOK
  BY SameInput DEF IInv
<1>1. /\ \A i : FailsFirst(i)' = FailsFirst(i) /\ Failure(i)' = Failure(i)
      /\ Entries(next - 1)' = Entries(next' - 1)
      /\ expers' = expers /\ models' = models
  BY <1>0, SameFailure DEF Entries, EntryAt, input
<1>2. /\ models \in Nat /\ next \in Nat /\ next >= 1 /\ expers \in Nat \ {0}
      /\ \A i \in 1 .. models : i \in Models
  BY <1>0, MaxModelsAssumption, MaxExperimentsAssumption DEF TypeOK, Models, Experiments
<1>3. ASSUME UNCHANGED <<pc, next, result, thrown>> PROVE Gathered'
  BY <1>1, <1>3 DEF Gathered
<1>4. ASSUME NEW i \in Models,
             \/ ModelThread(i) \/ NoExperimentThread(i)
             \/ \E j \in Experiments : RunExperiment(i, j)
      PROVE  Gathered'
  <2>1. UNCHANGED mainVars
    BY <1>4 DEF ModelThread, TrainAndTest, LaunchExperiment, NoExperimentThread,
       ExperimentsLaunched, CollectExperiment, ReturnAnswer, UnwindModel, RunExperiment
  <2> QED BY <1>3, <2>1 DEF mainVars
<1>5. CASE LaunchModel
  BY <1>1, <1>5 DEF LaunchModel, Gathered
<1>6. CASE NoModelThread
  <2>1. thrown' = Cause(next, "thread", 0) /\ pc' = "unwind"
    BY <1>6 DEF NoModelThread
  <2>2. thrown'.step = "thread"
    BY <2>1 DEF Cause
  <2> QED BY <2>1, <2>2 DEF Gathered
<1>7. CASE ModelsLaunched
  <2>1. pc' = "collect" /\ next' = 1 /\ result' = <<>>
    BY <1>7 DEF ModelsLaunched, Gathered
  <2>2. Entries(0) = <<>>
    BY <1>2 DEF Entries
  <2> QED BY <1>1, <2>1, <2>2 DEF Gathered
<1>8. CASE GetModel
  <2>1. pc = "collect" /\ next \in 1 .. models /\ next \in Models
    BY <1>2, <1>8 DEF GetModel
  <2>2. Settled(next) /\ result = Entries(next - 1)
    BY <2>1 DEF Gathered
  <2>3. CASE /\ model[next] = "returned" /\ result' = result \o answer[next]
             /\ next' = next + 1 /\ UNCHANGED <<pc, thrown>>
    <3>1. answer[next] = [j \in 1 .. expers |-> <<(next - 1) + 1, j>>]
      <4>1. answer[next] = [j \in 1 .. expers |-> <<next, j>>]
        BY <2>2, <2>3 DEF Settled
      <4>2. next = (next - 1) + 1
        BY <1>2
      <4> QED BY <4>1, <4>2
    <3>2. result' = Entries((next - 1) + 1)
      <4>1. next - 1 \in Nat
        BY <1>2
      <4> QED BY <1>2, <2>2, <2>3, <3>1, <4>1, OneModelMore
    <3>3. (next - 1) + 1 = next' - 1
      BY <1>2, <2>3
    <3> QED BY <1>1, <2>1, <2>3, <3>2, <3>3 DEF Gathered
  <2>4. CASE /\ model[next] = "failed" /\ thrown' = error[next] /\ pc' = "unwind"
    <3>1. ASSUME thrown'.step # "thread"
          PROVE  FailsFirst(next) /\ thrown' = Failure(next)
      <4>1. error[next] = Failure(next) /\ Failure(next) # NoCause
        BY <2>2, <2>4, <3>1 DEF Settled
      <4>2. ASSUME NEW k \in 1 .. models, k < next
            PROVE  Failure(k) = NoCause
        <5>1. k \in Models /\ model[k] = "returned" /\ Settled(k)
          BY <1>2, <2>1, <4>2 DEF IInv, Known
        <5> QED BY <5>1 DEF Settled
      <4> QED BY <2>1, <2>4, <4>1, <4>2 DEF FailsFirst
    <3> QED BY <1>1, <2>1, <2>4, <3>1 DEF Gathered
  <2> QED BY <1>8, <2>3, <2>4 DEF GetModel
<1>9. CASE Report \/ Unwind
  BY <1>9 DEF Report, Unwind, Gathered
<1>10. CASE UNCHANGED vars
  BY <1>3, <1>10 DEF vars
<1> QED BY <1>4, <1>5, <1>6, <1>7, <1>8, <1>9, <1>10 DEF Next, Main, Done

LEMMA SameAnswer ==
  ASSUME UNCHANGED input
  PROVE  Failing' = Failing /\ FirstFailure' = FirstFailure /\ AllReports' = AllReports
<1>1. Failing' = Failing
  BY DEF Failing, Failure, input
<1>2. FirstFailure' = FirstFailure
  BY <1>1 DEF FirstFailure, Failure, input
<1>3. AllReports' = AllReports
  BY DEF AllReports, EntryAt, input
<1> QED BY <1>1, <1>2, <1>3

LEMMA AnswerStep ==
  ASSUME IInv, [Next]_vars, Gathered, \A i \in Models : Settled(i), AnswerIsDetermined
  PROVE  AnswerIsDetermined'
<1>0. UNCHANGED input /\ TypeOK
  BY SameInput DEF IInv
<1>1. Failing' = Failing /\ FirstFailure' = FirstFailure /\ AllReports' = AllReports
  BY <1>0, SameAnswer
<1>3. /\ models \in Nat \ {0} /\ next \in Nat /\ expers \in Nat \ {0} /\ next <= models + 1
      /\ \A i \in 1 .. models : i \in Models
  BY <1>0, MaxModelsAssumption, MaxExperimentsAssumption DEF TypeOK, Models, Experiments
<1>4. CASE Report
  <2>1. pc = "collect" /\ next = models + 1 /\ next - 1 = models
    BY <1>3, <1>4 DEF Report
  <2>2. result = Entries(models)
    BY <2>1 DEF Gathered
  <2>3. ASSUME NEW k \in 1 .. models
        PROVE  Failure(k) = NoCause
    <3>1. k < next
      BY <1>3, <2>1
    <3>2. k \in Models /\ model[k] = "returned" /\ Settled(k)
      BY <1>3, <2>1, <3>1 DEF IInv, Known
    <3> QED BY <3>2 DEF Settled
  <2>4. Failing = {}
    BY <2>3 DEF Failing
  <2>5. result # <<>>
    <3>1. models * expers \in Nat /\ models * expers >= 1
      BY <1>3
    <3>2. 1 \in DOMAIN Entries(models)
      BY <3>1 DEF Entries
    <3> QED BY <2>2, <3>2
  <2>6. outcome' = [code |-> IF result = <<>> THEN -2 ELSE 0, cause |-> NoCause,
                    entries |-> SelectSeq(result, LAMBDA e :
                                  plan[e[1]].exper[e[2]] = "report")]
    BY <1>4 DEF Report
  <2>7. SelectSeq(result, LAMBDA e : plan[e[1]].exper[e[2]] = "report") = AllReports
    BY <2>2 DEF AllReports, ReportsOf, Entries
  <2> QED BY <1>1, <2>4, <2>5, <2>6, <2>7 DEF AnswerIsDetermined
<1>5. CASE Unwind
  <2>1. /\ pc = "unwind" /\ thrown' = thrown
        /\ outcome' = [code |-> -1, cause |-> thrown, entries |-> <<>>]
    BY <1>5 DEF Unwind
  <2>2. CASE thrown.step = "thread"
    BY <2>1, <2>2 DEF AnswerIsDetermined
  <2>3. CASE thrown.step # "thread"
    <3>1. PICK i \in 1 .. models : FailsFirst(i) /\ thrown = Failure(i)
      BY <2>1, <2>3 DEF Gathered
    <3>2. i \in Failing
      BY <3>1 DEF FailsFirst, Failing
    <3>3. ASSUME NEW k \in Failing PROVE k \in Int /\ i <= k
      <4>1. k \in 1 .. models /\ Failure(k) # NoCause
        BY DEF Failing
      <4>2. ~(k < i)
        BY <3>1, <4>1 DEF FailsFirst
      <4> QED BY <1>3, <3>1, <4>1, <4>2
    <3>4. (CHOOSE l \in Failing : \A k \in Failing : l <= k) = i
      <4>1. \A l \in Failing : (\A k \in Failing : l <= k) => l = i
        BY <3>2, <3>3
      <4> QED BY <3>2, <3>3, <4>1
    <3>5. FirstFailure = thrown
      BY <3>1, <3>4 DEF FirstFailure
    <3> QED BY <1>1, <2>1, <3>2, <3>5 DEF AnswerIsDetermined
  <2> QED BY <2>2, <2>3
<1>6. ASSUME pc' # "done"
      PROVE  AnswerIsDetermined'
  BY <1>6 DEF AnswerIsDetermined
<1>7. CASE UNCHANGED vars
  BY <1>1, <1>7 DEF AnswerIsDetermined, vars
<1>8. CASE LaunchModel \/ NoModelThread \/ ModelsLaunched \/ GetModel
  BY <1>6, <1>8, <1>0 DEF LaunchModel, NoModelThread, ModelsLaunched, GetModel, TypeOK
<1>9. ASSUME NEW i \in Models,
             \/ ModelThread(i) \/ NoExperimentThread(i)
             \/ \E j \in Experiments : RunExperiment(i, j)
      PROVE  AnswerIsDetermined'
  <2>1. UNCHANGED mainVars
    BY <1>9 DEF ModelThread, TrainAndTest, LaunchExperiment, NoExperimentThread,
       ExperimentsLaunched, CollectExperiment, ReturnAnswer, UnwindModel, RunExperiment
  <2> QED BY <1>1, <2>1 DEF mainVars, AnswerIsDetermined
<1> QED BY <1>4, <1>5, <1>7, <1>8, <1>9 DEF Next, Main, Done

\* Which thread is faster does not show in the answer, for any number of models
\* and experiments: all reports in the order of the configuration, or the
\* failure of the first model that fails (pipeline_execute.cpp, run_experiments
\* and model2experiment; main.cpp).
THEOREM AnswerDoesNotDependOnSpeed == Spec => []AnswerIsDetermined
<1> DEFINE AllSettled == \A i \in Models : Settled(i)
<1>1. Init => AllSettled /\ Gathered /\ AnswerIsDetermined
  <2>1. Init => AnswerIsDetermined
    BY DEF Init, AnswerIsDetermined
  <2> QED BY <2>1, SettledInit, GatheredInit
<1>2. IInv /\ AllSettled /\ Gathered /\ AnswerIsDetermined /\ [Next]_vars
        => (AllSettled /\ Gathered /\ AnswerIsDetermined)'
  <2> SUFFICES ASSUME IInv, AllSettled, Gathered, AnswerIsDetermined, [Next]_vars
               PROVE  AllSettled' /\ Gathered' /\ AnswerIsDetermined'
    OBVIOUS
  <2>1. \A i \in Models : Settled(i)'
    BY SettledStep
  <2>2. Gathered' /\ AnswerIsDetermined'
    BY GatheredStep, AnswerStep
  <2> QED BY <2>1, <2>2
<1> HIDE DEF AllSettled
<1> QED BY <1>1, <1>2, AlwaysIInv, PTL DEF Spec
=============================================================================
