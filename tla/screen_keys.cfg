\* Two keyboards and a process that writes both levels, from the ends of the
\* scale and the levels around each clamp.
SPECIFICATION Spec
CONSTANTS
  UInt32Range = 1000
  KeyThreads = {k1, k2}
  Writers = {w1}
  Written = {5, 50, 101}
  Writable = {"low", "high"}
  PowerModes = {"PWR"}
  InitHigh <- EdgeLevels
  MaxKeys = 3
SYMMETRY KeySymmetry
INVARIANTS TypeOK
PROPERTIES KeysAreAtomic
CHECK_DEADLOCK FALSE
