\* Load, with every way it can fail, input of two devices, sysctls, unload,
\* and battery states that leave the power lock held.
SPECIFICATION MCSpec
CONSTANTS
  kbd = kbd
  mouse = mouse
  lid = lid
  Nodes <- MCNodes
  Begins <- MCBegins
  Inside <- MCInside
  Keyboards = {kbd}
  MaxReports <- MCMaxReports
  Handlers = {h1}
  MayFail = {"pwr", "bl"}
  BatteryKnown = {TRUE, FALSE}
INVARIANTS TypeOK UsedAreUp AllDestroyed
PROPERTIES LoaderReturns KeysAreHandled
CHECK_DEADLOCK FALSE
