SPECIFICATION Spec
CONSTANTS
  e1 = e1
  e2 = e2
  n1 = n1
  n2 = n2
  global = global
  transport = transport
  none = none
  Effect <- OneEffect
  Node <- TwoNodes
  Outside <- OneOutside
  Global <- global
  Transport <- transport
  None <- none
  SemMax = 2
  Ops = {"add", "transport", "monitor_on", "remove", "remove_all", "monitor_off", "finish", "spurious_ready"}
  DeactivateFails = TRUE
INVARIANTS
  NodesAccounted
  ConsumerExclusion
  HandshakeNeverStalls
  NoLostWakeup
PROPERTIES
  NoRestartAfterClose
  ImplementsQueue
CHECK_DEADLOCK FALSE
