------------------------- MODULE EvdevThreadProofs -------------------------
(***************************************************************************)
(* Proofs of the safety invariants of EvdevThread, for every capacity of   *)
(* the ring buffer and every outcome of registration and thread creation.  *)
(***************************************************************************)
EXTENDS EvdevThread, TLAPS

LEMMA TypeInit == Init => TypeOK
<1> SUFFICES ASSUME Init PROVE TypeOK
  OBVIOUS
<1>1. pending \in 0..MaxPending
  BY EvdevThreadAssumption DEF Init
<1>2. pc \in ThreadPcs
  BY DEF Init, ThreadPcs
<1>3. QED
  BY <1>1, <1>2 DEF Init, TypeOK, LoaderPcs

\* What the listener's own steps and those of destroy have in common: they
\* leave the buffer alone or clear it.
LEMMA BufferType ==
  ASSUME TypeOK, pending' = pending \/ pending' = 0
  PROVE  pending' \in 0..MaxPending
BY EvdevThreadAssumption DEF TypeOK

LEMMA TypeNext == TypeOK /\ [Next]_vars => TypeOK'
<1> SUFFICES ASSUME TypeOK, [Next]_vars PROVE TypeOK'
  OBVIOUS
<1> USE DEF clientVars, edataVars
<1>1. ASSUME ThreadNext PROVE TypeOK'
  <2>1. pending' \in 0..MaxPending
    BY <1>1, BufferType DEF ThreadNext, ThreadStart, ThreadTop, ThreadWoken,
         ThreadCall, ThreadReturn, ThreadCheck, ThreadShutdown, ThreadExit
  <2>2. pc' \in ThreadPcs
    BY <1>1 DEF ThreadNext, ThreadStart, ThreadTop, ThreadWoken, ThreadCall,
         ThreadReturn, ThreadCheck, ThreadShutdown, ThreadExit, ThreadGoto,
         ThreadPcs
  <2>3. lpc' \in LoaderPcs
    BY <1>1 DEF TypeOK, ThreadNext, ThreadStart, ThreadTop, ThreadWoken,
         ThreadCall, ThreadReturn, ThreadCheck, ThreadShutdown, ThreadExit,
         LoaderPcs
  <2>4. flags' \subseteq {"CLIENTREG", "THREAD", "SHUTDOWN"}
    BY <1>1 DEF TypeOK, ThreadNext, ThreadStart, ThreadTop, ThreadWoken,
         ThreadCall, ThreadReturn, ThreadCheck, ThreadShutdown, ThreadExit
  <2>5. /\ active' \in BOOLEAN /\ cbset' \in BOOLEAN /\ blocked' \in BOOLEAN
        /\ registered' \in BOOLEAN /\ revoked' \in BOOLEAN
        /\ freed' \in BOOLEAN /\ waited' \in BOOLEAN
    BY <1>1 DEF TypeOK, ThreadNext, ThreadStart, ThreadTop, ThreadWoken,
         ThreadCall, ThreadReturn, ThreadCheck, ThreadShutdown, ThreadExit
  <2>6. QED BY <2>1, <2>2, <2>3, <2>4, <2>5 DEF TypeOK
<1>2. CASE Report
  <2>1. pending' \in 0..MaxPending
    BY <1>2, EvdevThreadAssumption DEF TypeOK, Report
  <2>2. pc' \in ThreadPcs /\ lpc' \in LoaderPcs
    BY <1>2 DEF TypeOK, Report, ThreadPcs, LoaderPcs
  <2>3. QED BY <1>2, <2>1, <2>2 DEF TypeOK, Report
<1>3. ASSUME LoaderNext PROVE TypeOK'
  <2>1. pending' \in 0..MaxPending
    BY <1>3, BufferType DEF LoaderNext, DestroyNext, SetCallback,
         RegisterClient, RegisterFlag, UnregisterClient, UnregisterClear,
         UnregisterFlag, DestroyDeactivate, DestroyStop, DestroyDispose,
         DestroyClear, DestroyFree
  <2>2. pc' \in ThreadPcs
    BY <1>3 DEF TypeOK, LoaderNext, DestroyNext, SetCallback, RegisterClient,
         RegisterFlag, UnregisterClient, UnregisterClear, UnregisterFlag,
         DestroyDeactivate, DestroyStop, DestroyDispose, DestroyClear,
         DestroyFree, ThreadPcs
  <2>3. lpc' \in LoaderPcs
    BY <1>3 DEF LoaderNext, DestroyNext, SetCallback, RegisterClient,
         RegisterFlag, UnregisterClient, UnregisterClear, UnregisterFlag,
         DestroyDeactivate, DestroyStop, DestroyDispose, DestroyClear,
         DestroyFree, LoaderGoto, LoaderPcs
  <2>4. flags' \subseteq {"CLIENTREG", "THREAD", "SHUTDOWN"}
    BY <1>3 DEF TypeOK, LoaderNext, DestroyNext, SetCallback, RegisterClient,
         RegisterFlag, UnregisterClient, UnregisterClear, UnregisterFlag,
         DestroyDeactivate, DestroyStop, DestroyDispose, DestroyClear,
         DestroyFree
  <2>5. registered' \in BOOLEAN /\ revoked' \in BOOLEAN
    BY <1>3, EvdevThreadAssumption DEF TypeOK, LoaderNext, DestroyNext,
         SetCallback, RegisterClient, RegisterFlag, UnregisterClient,
         UnregisterClear, UnregisterFlag, DestroyDeactivate, DestroyStop,
         DestroyDispose, DestroyClear, DestroyFree
  <2>6. /\ active' \in BOOLEAN /\ cbset' \in BOOLEAN /\ blocked' \in BOOLEAN
        /\ freed' \in BOOLEAN /\ waited' \in BOOLEAN
    BY <1>3 DEF TypeOK, LoaderNext, DestroyNext, SetCallback, RegisterClient,
         RegisterFlag, UnregisterClient, UnregisterClear, UnregisterFlag,
         DestroyDeactivate, DestroyStop, DestroyDispose, DestroyClear,
         DestroyFree
  <2>7. QED BY <2>1, <2>2, <2>3, <2>4, <2>5, <2>6 DEF TypeOK
<1>4. CASE UNCHANGED vars
  BY <1>4 DEF TypeOK, vars
<1>5. QED BY <1>1, <1>2, <1>3, <1>4 DEF Next

\* The flags, the buffer and both threads keep their types.
THEOREM TypeCorrect == Spec => []TypeOK
BY TypeInit, TypeNext, PTL DEF Spec

-----------------------------------------------------------------------------

\* The steps of the loader from the unregistration on: no report can come.
Unregistered == {"unclear", "unflag", "deactivate", "stop", "await", "dispose",
                 "clear", "free", "done"}

\* Destroy sleeps with the client unregistered, so that only the listener's own
\* wakeup ends the sleep, and that is the listener's last step.
WaitInv ==
  /\ lpc \in Unregistered => ~registered
  /\ waited => lpc \in {"await", "dispose", "clear", "free", "done"}
  /\ waited /\ lpc # "await" => pc = "exited"
  /\ freed => lpc = "done"

LEMMA WaitInit == Init => WaitInv
BY DEF Init, WaitInv, Unregistered

LEMMA WaitStep == WaitInv /\ [Next]_vars => WaitInv'
<1> SUFFICES ASSUME WaitInv, [Next]_vars PROVE WaitInv'
  OBVIOUS
<1> USE DEF WaitInv, Unregistered, clientVars, edataVars
<1>1. ASSUME ThreadNext PROVE WaitInv'
  <2>1. CASE ThreadExit
    BY <2>1 DEF ThreadExit, ThreadGoto
  <2>2. CASE ThreadStart \/ ThreadTop \/ ThreadWoken \/ ThreadCall
    BY <2>2 DEF ThreadStart, ThreadTop, ThreadWoken, ThreadCall, ThreadGoto
  <2>3. CASE ThreadReturn \/ ThreadCheck \/ ThreadShutdown
    BY <2>3 DEF ThreadReturn, ThreadCheck, ThreadShutdown, ThreadGoto
  <2>4. QED BY <1>1, <2>1, <2>2, <2>3 DEF ThreadNext
<1>2. CASE Report
  BY <1>2 DEF Report
<1>3. ASSUME LoaderNext PROVE WaitInv'
  <2>1. CASE SetCallback \/ RegisterClient \/ RegisterFlag \/ UnregisterClient
    BY <2>1 DEF SetCallback, RegisterClient, RegisterFlag, UnregisterClient,
         LoaderGoto
  <2>2. CASE UnregisterClear \/ UnregisterFlag \/ DestroyDeactivate
    BY <2>2 DEF UnregisterClear, UnregisterFlag, DestroyDeactivate, LoaderGoto
  <2>3. CASE DestroyStop
    BY <2>3 DEF DestroyStop, LoaderGoto
  <2>4. CASE DestroyDispose \/ DestroyClear \/ DestroyFree
    BY <2>4 DEF DestroyDispose, DestroyClear, DestroyFree, LoaderGoto
  <2>5. QED BY <1>3, <2>1, <2>2, <2>3, <2>4 DEF LoaderNext, DestroyNext
<1>4. CASE UNCHANGED vars
  BY <1>4 DEF vars
<1>5. QED BY <1>1, <1>2, <1>3, <1>4 DEF Next

\* When framework_evthread_destroy did sleep for its listener, the structures
\* are freed after the listener's last access.
THEOREM WaitSuffices == Spec => []WaitedForThread
<1>1. WaitInv => WaitedForThread
  BY DEF WaitInv, WaitedForThread
<1>2. QED BY WaitInit, WaitStep, <1>1, PTL DEF Spec

\* A listener asleep is always one that the next report wakes.
THEOREM SleeperWakeable == Spec => []SleeperIsBlocked
<1>1. Init => SleeperIsBlocked
  BY DEF Init, SleeperIsBlocked
<1>2. SleeperIsBlocked /\ [Next]_vars => SleeperIsBlocked'
  <2> SUFFICES ASSUME SleeperIsBlocked, [Next]_vars PROVE SleeperIsBlocked'
    OBVIOUS
  <2> USE DEF SleeperIsBlocked, clientVars, edataVars
  <2>1. CASE ThreadNext
    BY <2>1 DEF ThreadNext, ThreadStart, ThreadTop, ThreadWoken, ThreadCall,
         ThreadReturn, ThreadCheck, ThreadShutdown, ThreadExit, ThreadGoto
  <2>2. CASE Report
    BY <2>2 DEF Report
  <2>3. CASE LoaderNext
    BY <2>3 DEF LoaderNext, DestroyNext, SetCallback, RegisterClient,
         RegisterFlag, UnregisterClient, UnregisterClear, UnregisterFlag,
         DestroyDeactivate, DestroyStop, DestroyDispose, DestroyClear,
         DestroyFree
  <2>4. CASE UNCHANGED vars
    BY <2>4 DEF vars
  <2>5. QED BY <2>1, <2>2, <2>3, <2>4 DEF Next
<1>3. QED BY <1>1, <1>2, PTL DEF Spec

-----------------------------------------------------------------------------

\* The loader has withdrawn the callback.
Withdrawn == {"stop", "await", "dispose", "clear", "free", "done"}

\* A callback is set only while the gate is open, and the flags tell the loader
\* where the listener is: without THREAD it has not started or has ended, with
\* SHUTDOWN it has left its loop.  (A listener that called a withdrawn callback
\* has brought the kernel down.)
GateInv ==
  /\ cbset => lpc # "setcb" /\ lpc \notin Withdrawn
  /\ "THREAD" \notin flags => pc \in {"none", "start", "exited", "crashed"}
  /\ "SHUTDOWN" \in flags => pc \in {"exit", "exited"}

LEMMA GateInit == Init => GateInv
BY DEF Init, GateInv

LEMMA GateStep == GateInv /\ [Next]_vars => GateInv'
<1> SUFFICES ASSUME GateInv, [Next]_vars PROVE GateInv'
  OBVIOUS
<1> USE DEF GateInv, Withdrawn, clientVars, edataVars
<1>1. ASSUME ThreadNext PROVE GateInv'
  <2>1. CASE ThreadStart
    BY <2>1 DEF ThreadStart, ThreadGoto
  <2>2. CASE ThreadTop \/ ThreadWoken \/ ThreadCall
    BY <2>2 DEF ThreadTop, ThreadWoken, ThreadCall, ThreadGoto
  <2>3. CASE ThreadReturn \/ ThreadCheck
    BY <2>3 DEF ThreadReturn, ThreadCheck, ThreadGoto
  <2>4. CASE ThreadShutdown
    BY <2>4 DEF ThreadShutdown, ThreadGoto
  <2>5. CASE ThreadExit
    BY <2>5 DEF ThreadExit, ThreadGoto
  <2>6. QED BY <1>1, <2>1, <2>2, <2>3, <2>4, <2>5 DEF ThreadNext
<1>2. CASE Report
  BY <1>2 DEF Report
<1>3. ASSUME LoaderNext PROVE GateInv'
  <2>1. CASE SetCallback \/ RegisterClient \/ RegisterFlag \/ UnregisterClient
    BY <2>1 DEF SetCallback, RegisterClient, RegisterFlag, UnregisterClient,
         LoaderGoto
  <2>2. CASE UnregisterClear \/ UnregisterFlag \/ DestroyDeactivate
    BY <2>2 DEF UnregisterClear, UnregisterFlag, DestroyDeactivate, LoaderGoto
  <2>3. CASE DestroyStop
    BY <2>3 DEF DestroyStop, LoaderGoto
  <2>4. CASE DestroyDispose \/ DestroyClear \/ DestroyFree
    BY <2>4 DEF DestroyDispose, DestroyClear, DestroyFree, LoaderGoto
  <2>5. QED BY <1>3, <2>1, <2>2, <2>3, <2>4 DEF LoaderNext, DestroyNext
<1>4. CASE UNCHANGED vars
  BY <1>4 DEF vars
<1>5. QED BY <1>1, <1>2, <1>3, <1>4 DEF Next

\* From the moment the loader has cleared active the listener goes to sleep no
\* more, and THREAD is the mark of a listener that still has its wakeup to send.
WakeInv ==
  /\ lpc \in {"stop", "await"} => ~active
  /\ "THREAD" \in flags => pc \notin {"none", "start", "exited"}
  /\ DestroyIsWoken

LEMMA WakeInit == Init => WakeInv
BY DEF Init, WakeInv, DestroyIsWoken

LEMMA WakeStep == WaitInv /\ WakeInv /\ [Next]_vars => WakeInv'
<1> SUFFICES ASSUME WaitInv, WakeInv, [Next]_vars PROVE WakeInv'
  OBVIOUS
<1> USE DEF WakeInv, DestroyIsWoken, clientVars, edataVars
<1>1. ASSUME ThreadNext PROVE WakeInv'
  <2>1. CASE ThreadStart
    BY <2>1 DEF ThreadStart, ThreadGoto
  <2>2. CASE ThreadTop \/ ThreadWoken \/ ThreadCall
    BY <2>2 DEF ThreadTop, ThreadWoken, ThreadCall, ThreadGoto
  <2>3. CASE ThreadReturn \/ ThreadCheck
    BY <2>3 DEF ThreadReturn, ThreadCheck, ThreadGoto
  <2>4. CASE ThreadShutdown
    BY <2>4 DEF ThreadShutdown, ThreadGoto
  <2>5. CASE ThreadExit
    BY <2>5 DEF ThreadExit, ThreadGoto
  <2>6. QED BY <1>1, <2>1, <2>2, <2>3, <2>4, <2>5 DEF ThreadNext
<1>2. CASE Report
  BY <1>2 DEF Report
<1>3. ASSUME LoaderNext PROVE WakeInv'
  <2>1. CASE SetCallback \/ RegisterClient \/ RegisterFlag \/ UnregisterClient
    BY <2>1 DEF SetCallback, RegisterClient, RegisterFlag, UnregisterClient,
         LoaderGoto
  <2>2. CASE UnregisterClear \/ UnregisterFlag \/ DestroyDeactivate
    BY <2>2 DEF UnregisterClear, UnregisterFlag, DestroyDeactivate, LoaderGoto
  <2>3. CASE DestroyStop
    BY <2>3 DEF DestroyStop, LoaderGoto
  <2>4. CASE DestroyDispose \/ DestroyClear \/ DestroyFree
    BY <2>4 DEF DestroyDispose, DestroyClear, DestroyFree, LoaderGoto
  <2>5. QED BY <1>3, <2>1, <2>2, <2>3, <2>4 DEF LoaderNext, DestroyNext
<1>4. CASE UNCHANGED vars
  BY <1>4 DEF vars
<1>5. QED BY <1>1, <1>2, <1>3, <1>4 DEF Next

\* A framework_evthread_destroy that sleeps has a listener on its way to the
\* wakeup, in every order of the flags, the two wakeups and the reports.
THEOREM NoLostWakeup == Spec => []DestroyIsWoken
<1>1. WakeInv => DestroyIsWoken
  BY DEF WakeInv
<1>2. QED
  BY WaitInit, WaitStep, WakeInit, WakeStep, <1>1, PTL DEF Spec

\* Every step of a listener or of its loader is a step of the contract, or
\* leaves the gate and the callback alone.
LEMMA PromiseStep ==
  ASSUME WaitInv, GateInv, [Next]_vars
  PROVE  [Promise!Next]_(Promise!vars)
<1> USE DEF Promise!vars, Gate, clientVars, edataVars
<1>1. ASSUME ThreadNext PROVE [Promise!Next]_(Promise!vars)
  <2>1. CASE ThreadCall
    <3>1. CASE cbset
      <4>1. Gate = "open"
        BY <3>1 DEF GateInv, Withdrawn
      <4>2. Promise!Call
        BY <2>1, <3>1, <4>1 DEF ThreadCall, ThreadGoto, Promise!Call
      <4>3. QED BY <4>2 DEF Promise!Next
    <3>2. CASE ~cbset
      BY <2>1, <3>2 DEF ThreadCall, ThreadGoto
    <3>3. QED BY <3>1, <3>2
  <2>2. CASE ThreadReturn
    <3>1. Promise!Return
      BY <2>2 DEF ThreadReturn, ThreadGoto, Promise!Return
    <3>2. QED BY <3>1 DEF Promise!Next
  <2>3. CASE ThreadExit
    <3>1. CASE lpc = "await"
      <4>1. Promise!Leave
        BY <2>3, <3>1 DEF ThreadExit, ThreadGoto, Promise!Leave
      <4>2. QED BY <4>1 DEF Promise!Next
    <3>2. CASE lpc # "await"
      BY <2>3, <3>2 DEF ThreadExit, ThreadGoto
    <3>3. QED BY <3>1, <3>2
  <2>4. CASE ThreadStart \/ ThreadTop \/ ThreadWoken
    BY <2>4 DEF ThreadStart, ThreadTop, ThreadWoken, ThreadGoto
  <2>5. CASE ThreadCheck \/ ThreadShutdown
    BY <2>5 DEF ThreadCheck, ThreadShutdown, ThreadGoto
  <2>6. QED BY <1>1, <2>1, <2>2, <2>3, <2>4, <2>5 DEF ThreadNext
<1>2. ASSUME Report PROVE [Promise!Next]_(Promise!vars)
  <2>1. lpc # "await"
    BY <1>2 DEF Report, WaitInv, Unregistered
  <2>2. QED BY <1>2, <2>1 DEF Report
<1>3. ASSUME LoaderNext PROVE [Promise!Next]_(Promise!vars)
  <2>1. CASE SetCallback
    <3>1. Promise!Open
      BY <2>1 DEF SetCallback, LoaderGoto, Promise!Open
    <3>2. QED BY <3>1 DEF Promise!Next
  <2>2. CASE DestroyDeactivate
    <3>1. Promise!Shut
      BY <2>2 DEF DestroyDeactivate, LoaderGoto, Promise!Shut
    <3>2. QED BY <3>1 DEF Promise!Next
  <2>3. CASE DestroyStop
    <3>1. CASE "THREAD" \in flags /\ "SHUTDOWN" \notin flags
      BY <2>3, <3>1 DEF DestroyStop, LoaderGoto
    <3>2. CASE "THREAD" \notin flags \/ "SHUTDOWN" \in flags
      <4>1. pc # "incall"
        BY <3>2 DEF GateInv
      <4>2. Promise!Leave
        BY <2>3, <3>2, <4>1 DEF DestroyStop, LoaderGoto, Promise!Leave
      <4>3. QED BY <4>2 DEF Promise!Next
    <3>3. QED BY <3>1, <3>2
  <2>4. CASE RegisterClient \/ RegisterFlag \/ UnregisterClient
    BY <2>4 DEF RegisterClient, RegisterFlag, UnregisterClient, LoaderGoto
  <2>5. CASE UnregisterClear \/ UnregisterFlag
    BY <2>5 DEF UnregisterClear, UnregisterFlag, LoaderGoto
  <2>6. CASE DestroyDispose \/ DestroyClear \/ DestroyFree
    BY <2>6 DEF DestroyDispose, DestroyClear, DestroyFree, LoaderGoto
  <2>7. QED BY <1>3, <2>1, <2>2, <2>3, <2>4, <2>5, <2>6
              DEF LoaderNext, DestroyNext
<1>4. CASE UNCHANGED vars
  BY <1>4 DEF vars
<1>5. QED BY <1>1, <1>2, <1>3, <1>4 DEF Next

\* framework_evdev_thread.c implements the contract framework_evdev.c is built
\* on: no callback outside the time one is set, and framework_evthread_destroy
\* goes on to dispose and free only outside the callback.
THEOREM ListenerRefined == Spec => KeepsPromise
<1>1. Init => Promise!Init
  BY DEF Init, Promise!Init, Gate
<1>2. QED
  BY <1>1, WaitInit, WaitStep, GateInit, GateStep, PromiseStep,
     PTL DEF Spec, KeepsPromise, Promise!Spec
=============================================================================
