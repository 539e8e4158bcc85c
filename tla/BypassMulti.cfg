SPECIFICATION Spec
CONSTANTS
  CyclePlugin <- MCCyclePlugin
  Source = {s1, s2}
INVARIANT BypassAsAsked
