\* Dimming under every interleaving of an iteration with input, delays and a
\* timeout that the administrator changes.  The only key raises a brightness
\* that is at its top, so that values do not multiply.
SPECIFICATION Spec
CONSTANTS
  UInt32Range = 1000
  Listeners = {l1}
  Keys = {"none", "up"}
  Batteries = {"PWR"}
  InitTimeout = 1
  Timeouts = {2}
  LoadTime = 1
  MaxTime = 6
  MaxLag = 1
  KthreadAdd = {TRUE}
INVARIANTS TypeOK DimmedOnTime
CHECK_DEADLOCK FALSE
