SPECIFICATION EngineSpec
CONSTANTS
  CyclePlugin <- MCCyclePlugin
  Source = {s1, s2}
  RingRoom = 7
  ValueMax = 3
  TicksPerBeat = 2
  Tempo = {1, 3}
  Meter = {3, 4}
  FrameMax = 2
  OrderMax = 2
  One = 20
  CvLimit <- MCCvLimit
  PortLimit <- MCPortLimit
  CvLevel = 110
  CvStep = 10
  MidiTop = {15, 127}
  ShmSize = 11
  TextMax = 2
  SpecialType = 7
  Port = {p1, p2}
  Peak = 2
  MonitorMax = 2
  PeakEventMax = 2
  CcEffect = {0, 1}
  CcSymbol = {g}
  CcDevice = {0}
  CcMax = 3
  HmiPort = {w1, w2, w3}
  HmiOwner <- MCHmiOwner
  Actuator = {1, 2}
  HmiMax = 2
  RecvSize = 2
  CommandMax = 3
  LengthMax = 4
  WithFeedback = TRUE
  ConnectMax = 4
  CcPort = {p, q}
  CcSlots = 2
  Channel = {0}
  CcNumber = {0, 1}
  m1 = m1
  m2 = m2
  gain = gain
  wrong = wrong
  c1 = c1
  c2 = c2
  Plugin = {m1, m2}
  GlobalEffect = global
  Symbol = {gain, wrong}
  Unknown = {wrong}
  Controller = {c1, c2}
  None = none
  Slots = 3
SYMMETRY MCSymmetry
INVARIANTS
  CvSourcesSound
  BypassEndsNotes
  OutputsNotStranded
  TransportReported
  PositionAgrees
  ConversionsSound
  SerialInOrder
  MonitorsReported
  AssignmentsSound
  AddressingsSound
  CommandsArrive
  ServerStops
  NobodyOutlivesItsThings
  LookupsAreWhole
  MappingsSound
