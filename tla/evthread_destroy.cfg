\* Listener, reports and destroy under fair scheduling, with and without the
\* thread and the client.
SPECIFICATION FairSpec
CONSTANTS
  MaxPending = 2
  KthreadAdd = {TRUE, FALSE}
  Register = {TRUE, FALSE}
INVARIANTS TypeOK WaitedForThread SleeperIsBlocked DestroyIsWoken
PROPERTIES DestroyReturns KeepsPromise
CHECK_DEADLOCK FALSE
