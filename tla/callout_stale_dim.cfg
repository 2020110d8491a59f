\* An input that arrives while the callout thread decides to dim.
SPECIFICATION Spec
CONSTANTS
  UInt32Range = 1000
  Listeners = {l1, l2}
  Keys = {"none"}
  Batteries = {"PWR"}
  InitTimeout = 2
  Timeouts = {}
  LoadTime = 1
  MaxTime = 5
  MaxLag = 0
  KthreadAdd = {TRUE}
SYMMETRY ListenerSymmetry
INVARIANTS InputBrightens
CHECK_DEADLOCK FALSE
