------------------------------ MODULE MCAnswers ------------------------------
(* Instances of Answers for TLC. *)
EXTENDS Answers, TLC

\* "a", "request-a", which is answered under the same name, and the empty id
MCIds == {<<"a">>, <<Prefix, "a">>, <<>>}

AnswersSymmetry == Permutations(Workers)
==============================================================================
