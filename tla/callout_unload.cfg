\* Unloading against the callout thread, input, a timeout of zero, a battery
\* state the driver does not know and a kthread_add that failed.
SPECIFICATION FairSpec
CONSTANTS
  UInt32Range = 1000
  Listeners = {l1}
  Keys = {"none"}
  Batteries = {"PWR", "IVL"}
  InitTimeout = 1
  Timeouts = {0}
  LoadTime = 0
  MaxTime = 2
  MaxLag = 0
  KthreadAdd = {TRUE, FALSE}
INVARIANTS ThreadOutlivesNoCallout DestroyIsWoken
PROPERTIES UnloadCompletes
CHECK_DEADLOCK FALSE
