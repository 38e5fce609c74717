--------------------------- MODULE ExperimentRuns ---------------------------
(***************************************************************************)
(* The threads of run_experiments.  experiment::run reads the data and      *)
(* starts one thread per model; such a thread trains its model, tests it,   *)
(* and starts one thread per experiment on what the test predicted.  What   *)
(* a model learns from and is tested on is module TrainingData; here it is  *)
(* who reads whose variables when, and what the caller gets in the end.     *)
(*                                                                          *)
(* Both kinds of threads capture references: a model's thread to the data   *)
(* of experiment::run, an experiment's thread to test_res, a local variable *)
(* of the model's thread.                                                   *)
(***************************************************************************)
EXTENDS Integers, Sequences, FiniteSets

CONSTANTS
  MaxModels,      \* bound on the models of a configuration
  MaxExperiments  \* bound on its experiments

\* process_actions and labels2experiments refuse an empty list.
ASSUME MaxModelsAssumption      == MaxModels \in Nat \ {0}
ASSUME MaxExperimentsAssumption == MaxExperiments \in Nat \ {0}

Models == 1 .. MaxModels
Experiments == 1 .. MaxExperiments

VARIABLES
  models,   \* how many models the configuration has
  expers,   \* how many experiments
  plan,     \* what would happen to each model: a value of Plans
  pc,       \* where the calling thread is
  next,     \* the next model it launches or collects
  model,    \* the threads of run_task
  at,       \* by model: the next experiment its thread launches or collects
  testRes,  \* by model: the variable test_res of its thread
  exper,    \* by model and experiment: the threads of experiment_task
  answer,   \* by model: output_results
  error,    \* by model: the exception its future holds, or is unwinding
  result,   \* the result of run_experiments
  thrown,   \* the exception the calling thread is unwinding
  outcome   \* what main has answered

vars == <<models, expers, plan, pc, next, model, at, testRes, exper, answer,
          error, result, thrown, outcome>>

input     == <<models, expers, plan>>
mainVars  == <<pc, next, result, thrown, outcome>>
modelVars == <<model, at, testRes, answer, error>>

\* A model can fail while it is trained or tested; each experiment can give a
\* report, give an empty one (null_verifier, or no data), or throw.
Plans == [step  : {"good", "train", "test"},
          exper : [Experiments -> {"report", "blank", "throws"}]]

\* An exception, by what raised it; 0 stands for "none of the models" and for
\* "none of the experiments".
Cause(i, step, j) == [model |-> i, step |-> step, exper |-> j]
NoCause == Cause(0, "none", 0)
Causes == [model : 0 .. MaxModels,
           step  : {"none", "train", "test", "experiment", "thread"},
           exper : 0 .. MaxExperiments]

Pairs == Models \X Experiments

\* What main has answered: its exit code, the exception it answers with, and
\* the entries it prints; not yet answered, the code is none of the program.
Unanswered == [code |-> 1, cause |-> NoCause, entries |-> <<>>]

-----------------------------------------------------------------------------
Init ==
  /\ models \in Models
  /\ expers \in Experiments
  /\ plan \in [Models -> Plans]
  /\ pc = "launch"
  /\ next = 1
  /\ model = [i \in Models |-> "idle"]
  /\ at = [i \in Models |-> 1]
  /\ testRes = [i \in Models |-> "none"]
  /\ exper = [i \in Models |-> [j \in Experiments |-> "idle"]]
  /\ answer = [i \in Models |-> <<>>]
  /\ error = [i \in Models |-> NoCause]
  /\ result = <<>>
  /\ thrown = NoCause
  /\ outcome = Unanswered

(***************************************************************************)
(* An experiment's thread: run_experiment.                                  *)
(***************************************************************************)
RunExperiment(i, j) ==
  /\ exper[i][j] = "running"
  /\ exper' = [exper EXCEPT ![i][j] =
                 IF plan[i].exper[j] = "throws" THEN "failed" ELSE "returned"]
  /\ UNCHANGED <<input, mainVars, modelVars>>

(***************************************************************************)
(* A model's thread: model2experiment.                                      *)
(***************************************************************************)

\* train and test, on the data of the calling thread.
TrainAndTest(i) ==
  /\ model[i] = "training"
  /\ IF plan[i].step = "good"
     THEN /\ testRes' = [testRes EXCEPT ![i] = "alive"]
          /\ model' = [model EXCEPT ![i] = "launching"]
          /\ UNCHANGED error
     ELSE /\ model' = [model EXCEPT ![i] = "failed"]
          /\ error' = [error EXCEPT ![i] = Cause(i, plan[i].step, 0)]
          /\ UNCHANGED testRes
  /\ UNCHANGED <<input, mainVars, at, exper, answer>>

LaunchExperiment(i) ==
  /\ model[i] = "launching"
  /\ at[i] <= expers
  /\ exper' = [exper EXCEPT ![i][at[i]] = "running"]
  /\ at' = [at EXCEPT ![i] = at[i] + 1]
  /\ UNCHANGED <<input, mainVars, model, testRes, answer, error>>

\* std::async throws std::system_error when no thread can be started.
NoExperimentThread(i) ==
  /\ model[i] = "launching"
  /\ at[i] <= expers
  /\ model' = [model EXCEPT ![i] = "unwinding"]
  /\ error' = [error EXCEPT ![i] = Cause(i, "thread", at[i])]
  /\ UNCHANGED <<input, mainVars, at, testRes, exper, answer>>

ExperimentsLaunched(i) ==
  /\ model[i] = "launching"
  /\ at[i] > expers
  /\ model' = [model EXCEPT ![i] = "collecting"]
  /\ at' = [at EXCEPT ![i] = 1]
  /\ UNCHANGED <<input, mainVars, testRes, exper, answer, error>>

\* Mutant: whichever experiment has ended is collected.
CollectAny(i) ==
  \E j \in 1 .. expers :
    /\ model[i] = "collecting"
    /\ at[i] <= expers
    /\ \A k \in DOMAIN answer[i] : answer[i][k] # <<i, j>>
    /\ \/ /\ exper[i][j] = "returned"
          /\ answer' = [answer EXCEPT ![i] = Append(answer[i], <<i, j>>)]
          /\ at' = [at EXCEPT ![i] = at[i] + 1]
          /\ UNCHANGED <<model, error>>
       \/ /\ exper[i][j] = "failed"
          /\ model' = [model EXCEPT ![i] = "unwinding"]
          /\ error' = [error EXCEPT ![i] = Cause(i, "experiment", j)]
          /\ UNCHANGED <<at, answer>>
    /\ UNCHANGED <<input, mainVars, testRes, exper>>

\* task.get(), in the order in which the experiments were launched.
CollectExperiment(i) ==
  LET j == at[i]
  IN  /\ model[i] = "collecting"
      /\ j <= expers
      /\ \/ /\ exper[i][j] = "returned"
            /\ answer' = [answer EXCEPT ![i] = Append(answer[i], <<i, j>>)]
            /\ at' = [at EXCEPT ![i] = j + 1]
            /\ UNCHANGED <<model, error>>
         \/ /\ exper[i][j] = "failed"
            /\ model' = [model EXCEPT ![i] = "unwinding"]
            /\ error' = [error EXCEPT ![i] = Cause(i, "experiment", j)]
            /\ UNCHANGED <<at, answer>>
      /\ UNCHANGED <<input, mainVars, testRes, exper>>

ReturnAnswer(i) ==
  /\ model[i] = "collecting"
  /\ at[i] > expers
  /\ model' = [model EXCEPT ![i] = "returned"]
  /\ testRes' = [testRes EXCEPT ![i] = "gone"]
  /\ UNCHANGED <<input, mainVars, at, exper, answer, error>>

\* Mutant: task_list is declared before test_res, which dies first.
UnwindTestFirst(i) ==
  /\ model[i] = "unwinding"
  /\ testRes' = [testRes EXCEPT ![i] = "gone"]
  /\ IF \E j \in Experiments : exper[i][j] = "running"
     THEN UNCHANGED model
     ELSE model' = [model EXCEPT ![i] = "failed"]
  /\ UNCHANGED <<input, mainVars, at, exper, answer, error>>

\* The locals are destroyed in reverse: task_list, whose futures wait for
\* their threads, then test_res.
UnwindModel(i) ==
  /\ model[i] = "unwinding"
  /\ \A j \in Experiments : exper[i][j] # "running"
  /\ testRes' = [testRes EXCEPT ![i] = "gone"]
  /\ model' = [model EXCEPT ![i] = "failed"]
  /\ UNCHANGED <<input, mainVars, at, exper, answer, error>>

ModelThread(i) ==
  \/ TrainAndTest(i) \/ LaunchExperiment(i) \/ ExperimentsLaunched(i)
  \/ CollectExperiment(i) \/ ReturnAnswer(i) \/ UnwindModel(i)

(***************************************************************************)
(* The calling thread: run_experiments, and main around it.                 *)
(***************************************************************************)
\* Mutant: the end of the list is not looked for where it is.
LaunchPastEnd ==
  /\ pc = "launch"
  /\ next <= MaxModels
  /\ model' = [model EXCEPT ![next] = "training"]
  /\ next' = next + 1
  /\ UNCHANGED <<input, pc, at, testRes, exper, answer, error, result, thrown,
                 outcome>>

\* run_task, for each model.
LaunchModel ==
  /\ pc = "launch"
  /\ next <= models
  /\ model' = [model EXCEPT ![next] = "training"]
  /\ next' = next + 1
  /\ UNCHANGED <<input, pc, at, testRes, exper, answer, error, result, thrown,
                 outcome>>

NoModelThread ==
  /\ pc = "launch"
  /\ next <= models
  /\ thrown' = Cause(next, "thread", 0)
  /\ pc' = "unwind"
  /\ UNCHANGED <<input, next, modelVars, exper, result, outcome>>

ModelsLaunched ==
  /\ pc = "launch"
  /\ next > models
  /\ pc' = "collect"
  /\ next' = 1
  /\ UNCHANGED <<input, modelVars, exper, result, thrown, outcome>>

\* Mutant: only a result is waited for, never an exception.
GetReturned ==
  /\ pc = "collect"
  /\ next <= models
  /\ model[next] = "returned"
  /\ result' = result \o answer[next]
  /\ next' = next + 1
  /\ UNCHANGED <<input, pc, modelVars, exper, thrown, outcome>>

\* task.get(), in the order of the models.
GetModel ==
  /\ pc = "collect"
  /\ next <= models
  /\ \/ /\ model[next] = "returned"
        /\ result' = result \o answer[next]
        /\ next' = next + 1
        /\ UNCHANGED <<pc, thrown>>
     \/ /\ model[next] = "failed"
        /\ thrown' = error[next]
        /\ pc' = "unwind"
        /\ UNCHANGED <<next, result>>
  /\ UNCHANGED <<input, modelVars, exper, outcome>>

\* main after exp.run: an empty result is an error of its own, and
\* report_success leaves out the entries that have nothing to show.
Report ==
  LET Shown(entry) == plan[entry[1]].exper[entry[2]] = "report"
  IN  /\ pc = "collect"
      /\ next > models
      /\ outcome' = [code |-> IF result = <<>> THEN -2 ELSE 0, cause |-> NoCause,
                     entries |-> SelectSeq(result, Shown)]
      /\ pc' = "done"
      /\ UNCHANGED <<input, next, modelVars, exper, result, thrown>>

Unfinished == {"training", "launching", "collecting", "unwinding"}

\* The exception on its way to main: the futures of the models wait for their
\* threads, then the data is destroyed.
Unwind ==
  /\ pc = "unwind"
  /\ \A i \in Models : model[i] \notin Unfinished
  /\ outcome' = [code |-> -1, cause |-> thrown, entries |-> <<>>]
  /\ pc' = "done"
  /\ UNCHANGED <<input, next, modelVars, exper, result, thrown>>

Main == LaunchModel \/ ModelsLaunched \/ GetModel \/ Report \/ Unwind

Done == pc = "done" /\ UNCHANGED vars

Next ==
  \/ Main
  \/ NoModelThread
  \/ \E i \in Models : ModelThread(i) \/ NoExperimentThread(i)
  \/ \E i \in Models, j \in Experiments : RunExperiment(i, j)
  \/ Done

\* The scheduler runs every thread that can run.
Fairness ==
  /\ WF_vars(Main)
  /\ \A i \in Models : WF_vars(ModelThread(i))
  /\ \A i \in Models, j \in Experiments : WF_vars(RunExperiment(i, j))

Spec == Init /\ [][Next]_vars /\ Fairness

-----------------------------------------------------------------------------
\* The variables have their types.
TypeOK ==
  /\ models \in Models
  /\ expers \in Experiments
  /\ plan \in [Models -> Plans]
  /\ pc \in {"launch", "collect", "unwind", "done"}
  /\ next \in 1 .. models + 1
  /\ model \in [Models -> Unfinished \cup {"idle", "returned", "failed"}]
  /\ at \in [Models -> 1 .. expers + 1]
  /\ testRes \in [Models -> {"none", "alive", "gone"}]
  /\ exper \in [Models -> [Experiments -> {"idle", "running", "returned", "failed"}]]
  /\ answer \in [Models -> Seq(Pairs)]
  /\ error \in [Models -> Causes]
  /\ result \in Seq(Pairs)
  /\ thrown \in Causes
  /\ outcome.code \in {1, 0, -1, -2} /\ outcome.cause \in Causes

\* What a thread holds a reference to is alive as long as the thread runs: the
\* data of experiment::run for a model's thread, test_res for the thread of an
\* experiment, also when an exception ends the function that owns it.
BorrowedIsAlive ==
  \A i \in Models :
    /\ model[i] \in Unfinished => pc # "done"
    /\ \A j \in Experiments : exper[i][j] = "running" => testRes[i] = "alive"

\* What goes wrong with a model when all threads can be started.
Failure(i) ==
  LET bad == {j \in 1 .. expers : plan[i].exper[j] = "throws"}
  IN  IF plan[i].step # "good" THEN Cause(i, plan[i].step, 0)
      ELSE IF bad = {} THEN NoCause
      ELSE Cause(i, "experiment", CHOOSE j \in bad : \A k \in bad : j <= k)

\* The entry that an answer has at place k if nothing goes wrong and nothing
\* is left out.
EntryAt(k) == <<((k - 1) \div expers) + 1, ((k - 1) % expers) + 1>>

\* The models something goes wrong with, and what goes wrong with the first.
Failing == {i \in 1 .. models : Failure(i) # NoCause}
FirstFailure == Failure(CHOOSE i \in Failing : \A k \in Failing : i <= k)

\* The entries of a list for which there is a report.
ReportsOf(list, plans) ==
  SelectSeq(list, LAMBDA e : plans[e[1]].exper[e[2]] = "report")

\* Every report, model by model and for each of them in the order of the
\* experiments.
AllReports == ReportsOf([k \in 1 .. models * expers |-> EntryAt(k)], plan)

\* Unless it is a thread that could not be started that ends it, the answer does
\* not depend on which thread is faster: it is the failure of the first model
\* that fails, also if threads were missing for a later one, or else all reports
\* in the order of the configuration.
AnswerIsDetermined ==
  pc = "done" /\ thrown.step # "thread" =>
    IF Failing = {}
    THEN outcome = [code |-> 0, cause |-> NoCause, entries |-> AllReports]
    ELSE outcome = [code |-> -1, cause |-> FirstFailure, entries |-> <<>>]

\* Whatever the threads run into, the program ends with an answer.
AlwaysAnswers == <>(pc = "done")
=============================================================================
