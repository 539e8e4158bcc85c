--------------------------- MODULE MCPostFeedback ---------------------------
(* Instances of PostFeedback for TLC.                                      *)
EXTENDS PostFeedback, TLC

CONSTANTS e1, e2, s1, s2, v1, v2

(* Values are interchangeable: no property tells them apart.               *)
ValueSymmetry == Permutations({v1, v2})
=============================================================================
