SPECIFICATION Spec
CONSTANTS
  e1 = e1
  e2 = e2
  s1 = s1
  s2 = s2
  v1 = v1
  v2 = v2
  None = None
  Effect = {e1, e2}
  Symbol = {s1}
  Value = {v1, v2}
  Kinds = {"param_set", "output_set", "midi_mapped", "transport", "log"}
  MaxEvents = 4
  OffEffects = {e2}
SYMMETRY ValueSymmetry
INVARIANTS
  BatchIsSummarised
  OthersUpToDate
CHECK_DEADLOCK FALSE
