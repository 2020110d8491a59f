\* Changes of the properties of two interfaces, other messages, and a signal.
SPECIFICATION Spec
CONSTANTS
  Names <- MCNames
  Messages <- MCMessages
  Upper <- MCUpper
  Malloc = {TRUE, FALSE}
  MaxQueue = 2
INVARIANTS TypeOK FollowsLastStatus StartsMatchStops
PROPERTIES EndsOnSignal
CHECK_DEADLOCK FALSE
