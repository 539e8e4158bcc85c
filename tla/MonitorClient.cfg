SPECIFICATION FairSpec
CONSTANTS
  Full = 2
  SemMax = 2
  Commands <- AllCommands
INVARIANTS
  AtMostOneStalePost
  WaitSeesCycle
  FadesSound
PROPERTIES
  WaitsReturn
