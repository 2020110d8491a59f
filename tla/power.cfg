\* Three callers while the charger is plugged and unplugged and the battery runs
\* low, with the battery states the driver knows and queries that fail.
SPECIFICATION FairSpec
CONSTANTS
  Threads = {t1, t2, t3}
  States = {"none", "charging", "discharging", "critical"}
  QueryFails = {TRUE, FALSE}
INVARIANTS TypeOK RecentMode
PROPERTIES QueriesReturn
CHECK_DEADLOCK FALSE
