---------------------------- MODULE MCModelLife ----------------------------
(***************************************************************************)
(* Two runs of generate_model beside one prediction.  The jobs: data files  *)
(* of up to two lines with all combinations of missing values, fixes and    *)
(* normalizations; and one for each way a message, a schema or a model file *)
(* may be wrong.                                                            *)
(***************************************************************************)
EXTENDS ModelLife

Whole(missing) == [tokens |-> 3, missing |-> missing]
Short == [tokens |-> 2, missing |-> {}]
Blank == [tokens |-> 0, missing |-> {}]

MCLines ==
  {<<>>, <<Whole({})>>, <<Whole({1, 2}), Whole({3})>>, <<Whole({2}), Short>>,
   <<Short, Whole({})>>, <<Blank>>, <<Whole({3}), Whole({1, 2})>>}

Fix(column) == [column |-> column, missing |-> FALSE]
MCFixes ==
  {<<>>, <<Fix("a")>>, <<Fix("a"), Fix("b"), Fix("a")>>,
   <<[Fix("a") EXCEPT !.missing = TRUE], Fix("b")>>}

Norm(column) == [column |-> column, good |-> TRUE]
MCNorms ==
  {<<>>, <<Norm("b"), Norm("a"), Norm("b")>>, <<Norm(Index)>>}

Job(form, header, lines, newline, fixes, norm, model) ==
  [form |-> form, header |-> header, lines |-> lines, newline |-> newline,
   fixes |-> fixes, norms |-> norm, model |-> model]

TwoLines == <<Whole({1}), Whole({})>>

OneLine == <<[tokens |-> 2, missing |-> {}]>>

MCJobs ==
  {Job("text", <<"a", "b", Index>>, lines, TRUE, fixes, norm, "fits") :
     lines \in MCLines, fixes \in MCFixes, norm \in MCNorms}
  \cup {Job("text", <<"a", "b", Index>>, lines, FALSE, <<Fix("a")>>, <<>>, "fits") :
     lines \in MCLines}
  \cup {Job("text", header, TwoLines, TRUE, <<Fix("b"), Fix("a")>>, norm, "fits") :
     header \in {<<Index, "a", "b">>, <<"a", Index, "b">>, <<"a", "b", "c">>},
     norm \in MCNorms \ {<<>>}}
  \cup {Job("text", header, <<>>, newline, <<>>, <<>>, "fits") :
     header \in {<<"a", "a", Index>>, <<>>, <<Index>>, <<"a">>}, newline \in BOOLEAN}
  \cup {Job(form, <<"a", Index>>, OneLine, TRUE, fixes, <<>>, "fits") :
     form \in {"text", "path", "path of 256", "long path"},
     fixes \in {<<>>, <<Fix("c")>>}}
  \cup {Job("text", <<"a", Index>>, OneLine, TRUE, <<>>, norm, model) :
     norm \in {<<>>, <<Norm("c")>>, <<[Norm("a") EXCEPT !.good = FALSE]>>},
     model \in {"fits", "other width", "other algorithm", "unknown", "bare path"}}
=============================================================================
