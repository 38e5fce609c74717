-------------------------- MODULE MCTrainingData --------------------------
(***************************************************************************)
(* Two columns; files of up to three lines, which may be complete, too      *)
(* long, too short, empty or spoilt; percentages at both ends of their      *)
(* range, between them, beyond it and unreadable; and a message for each    *)
(* way it can be refused.                                                   *)
(***************************************************************************)
EXTENDS TrainingData

Line(cells, spoilt) == [cells |-> cells, spoilt |-> spoilt]

MCLines == {Line(2, "no"), Line(3, "no"), Line(1, "no"), Line(0, "no"),
            Line(2, "cast"), Line(1, "value")}

Sound ==
  [text |-> "json", parts |-> Parts, unread |-> {}, type |-> "classifier",
   labelled |-> TRUE, evaluation |-> <<"mse", "cm">>, validation |-> "precent",
   attr |-> TRUE, arg |-> 33, randomized |-> FALSE,
   actions |-> <<[action |-> "model.svm", attr |-> "read"]>>]

Accepted ==
  {[Sound EXCEPT !.type = type, !.labelled = labelled, !.arg = arg,
                 !.randomized = randomized, !.evaluation = <<"mse">>] :
     type \in {"classifier", "regression"}, labelled \in BOOLEAN,
     arg \in Splits \cup {Unread}, randomized \in BOOLEAN}
  \cup {[Sound EXCEPT !.validation = "k-fold", !.randomized = TRUE]}

Others ==
  {[Sound EXCEPT !.text = text] : text \in {"empty", "broken"}}
  \cup {[Sound EXCEPT !.parts = parts, !.unread = unread] :
          parts \in SUBSET Parts, unread \in {{}} \cup {{part} : part \in Parts}}
  \cup {[Sound EXCEPT !.type = type, !.evaluation = evaluation] :
          type \in {"classifier", "regression", "unknown"},
          evaluation \in {<<>>, <<"mse", "cm">>, <<"mse", "unknown">>}}
  \cup {[Sound EXCEPT !.validation = validation, !.attr = attr] :
          validation \in {"k-fold", "unknown", "precent"}, attr \in BOOLEAN}
  \cup {[Sound EXCEPT !.actions = actions] :
          actions \in {<<>>} \cup {<<model, [action |-> "model.mlp", attr |-> "read"]>> :
                                  model \in ModelType}}

MCMessages == Accepted \cup {m \in Others : Refusal(m) # "none"}
=============================================================================
