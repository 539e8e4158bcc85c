SPECIFICATION Spec
CONSTANTS
  e1 = e1
  e2 = e2
  n1 = n1
  n2 = n2
  global = global
  transport = transport
  none = none
  Effect <- OneEffect
  Node <- OneNode
  Outside <- OneOutside
  Global <- global
  Transport <- transport
  None <- none
  SemMax = 1
  Ops = {"add", "map", "remove"}
  DeactivateFails = FALSE
INVARIANTS
  AllEffectsValid
