\* Two callers and a reader in the shared structure, with calls that fail.
SPECIFICATION Spec
CONSTANTS
  Setters = {s1, s2}
  Readers = {r1}
  Levels = {0, 40, 100}
  QueryFails = {TRUE, FALSE}
  UpdateFails = {TRUE, FALSE}
INVARIANTS TypeOK PanelShowsRequested SettlesOnRequest CacheFollowsPanel
CHECK_DEADLOCK FALSE
