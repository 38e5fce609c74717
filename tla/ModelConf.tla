------------------------------ MODULE ModelConf ------------------------------
(***************************************************************************)
(* How run_experiments reads its message: in a fixed order the source, the  *)
(* label column, the evaluations, the way of validation and the models; the *)
(* first part that is refused decides which exception is thrown.            *)
(*                                                                          *)
(* A part is in the message or not, and its values can be read or not: a    *)
(* missing part throws std::exception, for __child::get throws a copy of    *)
(* the exception's base class and never comes back with a bad stream.       *)
(***************************************************************************)
EXTENDS Integers, Sequences

CONSTANTS
  Splits,  \* the percentages that may be asked to be kept for testing
  Unread   \* a percentage that is no number

ASSUME UnreadAssumption == Splits \subseteq Nat /\ Unread \notin Nat

Parts == {"datasource", "model", "evaluation", "validation", "actions"}

\* An entry of "actions".  attr: its attributes are missing, one of them cannot
\* be read, one names something unknown, or all are as they should be.
ModelType ==
  [action : {"model.norm-bayes", "model.mlp", "model.svm", "unread", "unknown"},
   attr   : {"absent", "unread", "unknown", "read"}]

MessageType ==
  [text       : {"empty", "broken", "json"},
   parts      : SUBSET Parts,          \* in the message
   unread     : SUBSET Parts,          \* not all of its values can be read
   type       : {"classifier", "regression", "unknown"},
   labelled   : BOOLEAN,               \* the label column is in the source
   evaluation : Seq({"cm", "mse", "unknown"}),
   validation : {"precent", "k-fold", "unknown"},
   attr       : BOOLEAN,               \* the validation has attributes
   arg        : Splits \cup {Unread},
   randomized : BOOLEAN,               \* false, too, if it is not there
   actions    : Seq(ModelType)]

\* The first of the refusals, if there is one.
First(refusals) ==
  LET found == {i \in DOMAIN refusals : refusals[i] # "none"}
  IN  IF found = {} THEN "none"
      ELSE refusals[CHOOSE i \in found : \A j \in found : i <= j]

\* Of a part that is there, what refuses it.
OrAbsent(m, part, refusal) == IF part \in m.parts THEN refusal ELSE "exception"

\* get_souce_location.
SourceRefusal(m) ==
  OrAbsent(m, "datasource", IF "datasource" \in m.unread THEN "json_error" ELSE "none")

\* get_label_id, name2type.
LabelRefusal(m) ==
  OrAbsent(m, "model",
           IF "model" \in m.unread THEN "json_error"
           ELSE IF m.type = "unknown" THEN "invalid_conf" ELSE "none")

\* is_supported, by the type the message names and not by the models'.
Supported(name, type) == name \in IF type = "classifier" THEN {"mse", "cm"} ELSE {"mse"}

\* get_experiments, labels2experiments, process_experiment_entry.
EvaluationRefusal(m) ==
  OrAbsent(m, "evaluation",
           IF m.evaluation = <<>> THEN "json_error"
           ELSE IF \E i \in DOMAIN m.evaluation : ~Supported(m.evaluation[i], m.type)
           THEN "invalid_conf" ELSE "none")

\* get_input_type, name2input_t.  Whether "arg" could be read is not looked at.
ValidationRefusal(m) ==
  OrAbsent(m, "validation",
           IF "validation" \in m.unread \/ m.validation = "unknown" THEN "json_error"
           ELSE IF ~m.attr THEN "exception" ELSE "none")

\* process_action_entry and the reader of the model it names.
ModelRefusal(entry) ==
  CASE entry.action = "unread" -> "json_error"
    [] entry.action = "unknown" -> "invalid_conf"
    [] entry.action = "model.norm-bayes" -> "none"
    [] entry.attr = "absent" -> "exception"
    [] entry.attr = "unread" -> IF entry.action = "model.mlp" THEN "invalid_conf"
                                ELSE "json_error"
    [] entry.attr = "unknown" -> "runtime_error"
    [] OTHER -> "none"

\* get_model_generators, process_actions.
ModelsRefusal(m) ==
  OrAbsent(m, "actions",
           IF m.actions = <<>> THEN "invalid_conf"
           ELSE First([i \in DOMAIN m.actions |-> ModelRefusal(m.actions[i])]))

\* process_input and process: the exception they throw, or "none".
Refusal(m) ==
  CASE m.text = "empty"  -> "invalid_conf"
    [] m.text = "broken" -> "runtime_error"
    [] OTHER -> First(<<SourceRefusal(m), LabelRefusal(m), EvaluationRefusal(m),
                        ValidationRefusal(m), ModelsRefusal(m)>>)

\* pipeline::config, the part of it the data depend on.
Confs == [randomized : BOOLEAN,  \* rand_modeldata_read
          labelled   : BOOLEAN,  \* the label column is in the header
          classifier : BOOLEAN,  \* the labels are classes
          policy     : {"precent", "k-fold"},
          split      : Splits \cup {0}]

\* What no message has said yet.
NoConf == [randomized |-> FALSE, labelled |-> FALSE, classifier |-> TRUE,
           policy |-> "precent", split |-> 0]

\* process, at its end.  A percentage that is no number is 0, and nothing after it
\* is read: the rows are not shuffled then either.
Configuration(m) ==
  [randomized |-> m.validation = "precent" /\ m.arg # Unread /\ m.randomized,
   labelled   |-> m.labelled,
   classifier |-> m.type = "classifier",
   policy     |-> m.validation,
   split      |-> IF m.arg = Unread THEN 0 ELSE m.arg]
=============================================================================
