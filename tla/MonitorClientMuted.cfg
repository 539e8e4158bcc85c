SPECIFICATION Spec
CONSTANTS
  Full = 2
  SemMax = 1
  Commands <- AllCommands
INVARIANTS
  AudibleAfterFadeIn
