------------------------------ MODULE MCRings ------------------------------
(* The rings of one effect on their own, for the run that refutes.         *)
EXTENDS PropertyRings

Spec == RingsInit /\ [][RingsNext]_ringVars
=============================================================================
