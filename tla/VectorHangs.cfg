SPECIFICATION Spec
CONSTANTS
  RingRoom = 7
  ValueMax = 3
INVARIANT VectorsAreSet
