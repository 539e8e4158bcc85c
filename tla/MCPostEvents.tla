---------------------------- MODULE MCPostEvents ----------------------------
(* Instances of PostEvents for TLC.                                        *)
EXTENDS PostEvents, TLC

CONSTANTS e1, e2, n1, n2, global, transport, none

TwoEffects == {e1, e2}
OneEffect  == {e1}
OneOutside == {global}
OneNode    == {n1}
TwoNodes   == {n1, n2}

(* Nodes are interchangeable, and so are effects: no property tells them   *)
(* apart.                                                                  *)
Symmetric == Permutations({n1, n2}) \cup Permutations({e1, e2})
=============================================================================
