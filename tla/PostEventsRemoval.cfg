SPECIFICATION Spec
CONSTANTS
  e1 = e1
  e2 = e2
  n1 = n1
  n2 = n2
  global = global
  transport = transport
  none = none
  Effect <- TwoEffects
  Node <- TwoNodes
  Outside <- OneOutside
  Global <- global
  Transport <- transport
  None <- none
  SemMax = 1
  Ops = {"add", "map", "remove", "remove_all", "remove_multi"}
  DeactivateFails = FALSE
INVARIANTS
  EventsNameInstances
SYMMETRY Symmetric
