--------------------------- MODULE MCEffectCycle ---------------------------
(* The cycle of one plugin on its own, for the runs that refute.           *)
EXTENDS EffectCycle

MCCyclePlugin ==
  {[outputs |-> 2, has_enabled |-> FALSE, through |-> TRUE],
   [outputs |-> 1, has_enabled |-> TRUE, through |-> FALSE]}

Spec == CycleInit /\ [][CycleNext]_cycleVars
=============================================================================
