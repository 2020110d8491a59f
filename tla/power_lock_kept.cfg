\* A battery that runs out, and two callers.
SPECIFICATION FairSpec
CONSTANTS
  Threads = {t1, t2}
  States = {"discharging", "critical+discharging"}
  QueryFails = {FALSE}
PROPERTIES QueriesReturn
CHECK_DEADLOCK FALSE
