SPECIFICATION PluginsSpec
CONSTANTS
  Plugin <- MCPlugin
  Request = {"short", "long"}
  Size <- MCSize
  Room = 6
  SemMax = 3
  e1 = e1
  e2 = e2
  gain = gain
  wrong = wrong
  Effect = {e1, e2}
  Symbol = {gain, wrong}
  Unknown = {wrong}
  ResetPort = gain
  Value = {0, 1}
  Default = 0
  None = none
  ParamList <- MCParamList
  MaxScheduled = 2
INVARIANTS
  NothingLeft
  UsedIsHeld
  FlagsTellTruth
  CallsAreAlone
  RingsSound
  RemoveLeavesNoDangling
  LastValueWins
PROPERTIES
  RequestsAreQueue
  WorkerLives
