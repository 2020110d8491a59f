--------------------------- MODULE CalloutProofs ---------------------------
(***************************************************************************)
(* Proofs of the safety invariants of Callout for every set of listeners,  *)
(* keys, timeouts and every bound.                                         *)
(***************************************************************************)
EXTENDS Callout, TLAPS

(***************************************************************************)
(* Type correctness                                                        *)
(***************************************************************************)

\* A wrapped number fits a uint32_t.
LEMMA WrapType == ASSUME NEW n \in Int PROVE Wrap(n) \in 0..(UInt32Range - 1)
BY UInt32RangeAssumption DEF Wrap

\* Whatever level is found and whatever was decided, changebrightness stores a
\* uint32_t.
LEMMA ChangeApplyType ==
  ASSUME NEW d \in {"keep", "bottom", "top", "add"},
         NEW current \in 0..(UInt32Range - 1), NEW r \in Int
  PROVE  ChangeApply(d, current, r) \in 0..(UInt32Range - 1)
<1>1. CASE d = "add"
  BY <1>1, WrapType, UInt32RangeAssumption DEF ChangeApply
<1>2. CASE d # "add"
  BY <1>2, UInt32RangeAssumption DEF ChangeApply, MaxBrightness
<1>3. QED BY <1>1, <1>2

LEMMA DecisionType ==
  ASSUME NEW read, NEW r
  PROVE  ChangeDecision(read, r) \in {"keep", "bottom", "top", "add"}
BY DEF ChangeDecision

LEMMA RelativeType == ASSUME NEW k PROVE Relative(k) \in Int
BY DEF Relative, IncrementLevel

\* The brightness that a thread computes is a uint32_t.
LEMMA BrightnessType == ASSUME TypeOK PROVE BrightnessFor \in 0..(UInt32Range - 1)
<1>1. MaxBrightness \in 0..(UInt32Range - 1)
  BY UInt32RangeAssumption DEF MaxBrightness
<1>2. ASSUME power # "IVL"
      PROVE  DefaultLow[power] \in 0..(UInt32Range - 1) /\ high[power] \in 0..(UInt32Range - 1)
  BY <1>2, UInt32RangeAssumption DEF TypeOK, DefaultLow, Modes
<1>3. QED BY <1>1, <1>2 DEF BrightnessFor

LEMMA TypeInit == Init => TypeOK
<1> SUFFICES ASSUME Init PROVE TypeOK
  OBVIOUS
<1> USE UInt32RangeAssumption, CalloutAssumption DEF Init
<1>1. DefaultHigh \in [Modes -> 0..(UInt32Range - 1)]
  BY DEF DefaultHigh, Modes
<1>2. BrightnessFor \in 0..(UInt32Range - 1)
  <2>1. level = "HIGH" /\ high = DefaultHigh /\ power \in {"BAT", "PWR", "IVL"}
    OBVIOUS
  <2>2. QED BY <1>1, <2>1 DEF BrightnessFor, Modes, MaxBrightness
<1>3. pc \in ThreadPcs
  BY DEF ThreadPcs
<1>4. NoChange \in [mode : Modes, read : 0..(UInt32Range - 1)]
  BY DEF NoChange, Modes
<1>5. /\ lpc \in [Listeners -> ListenerPcs]
      /\ lkey \in [Listeners -> {"none", "up", "down"}]
      /\ lchg \in [Listeners -> [mode : Modes, read : 0..(UInt32Range - 1)]]
      /\ lval \in [Listeners -> 0..(UInt32Range - 1)]
  BY <1>4 DEF ListenerPcs
<1>6. /\ power \in {"BAT", "PWR", "IVL"}
      /\ pwrowner \in {"none", "loader", "thread", "sysctl"} \union Listeners
      /\ timeout \in [Modes -> Nat]
  OBVIOUS
<1>7. /\ now \in Nat /\ last_input \in Nat /\ tmo \in Nat /\ li \in Nat
      /\ elapsed \in Nat /\ wake_at \in Nat /\ lag \in Nat
      /\ val \in 0..(UInt32Range - 1)
  OBVIOUS
<1>8. QED
  BY <1>1, <1>2, <1>3, <1>5, <1>6, <1>7 DEF TypeOK, UnloadPcs

LEMMA TypeNext == TypeOK /\ [Next]_vars => TypeOK'
<1> SUFFICES ASSUME TypeOK, [Next]_vars PROVE TypeOK'
  OBVIOUS
<1> USE UInt32RangeAssumption, CalloutAssumption
<1>1. ASSUME ThreadNext PROVE TypeOK'
  <2>1. CASE ThreadStart \/ ThreadUndrop \/ ThreadTop \/ ThreadTimeout
    BY <2>1 DEF TypeOK, ThreadStart, ThreadUndrop, ThreadTop, ThreadTimeout,
         ThreadGoto, ThreadPcs, envVars, coVars, lsVars
  <2>2. CASE ThreadCheckTimeout
    BY <2>2 DEF TypeOK, ThreadCheckTimeout, ThreadGoto, ThreadPcs, envVars,
         lsVars
  <2>3. CASE ThreadStop
    BY <2>3 DEF TypeOK, ThreadStop, ThreadGoto, ThreadPcs, UnloadPcs, envVars,
         coVars, lsVars
  <2>4. CASE ThreadGetTimeout
    BY <2>4 DEF TypeOK, ThreadGetTimeout, ThreadGoto, PowerQuery, ThreadPcs,
         Modes, coVars, lsVars
  <2>5. CASE ThreadGetLastInput
    BY <2>5 DEF TypeOK, ThreadGetLastInput, ThreadGoto, ThreadPcs, envVars,
         coVars, lsVars
  <2>6. CASE ThreadDimCheck
    BY <2>6 DEF TypeOK, ThreadDimCheck, ThreadGoto, ThreadPcs, Smaller,
         envVars, lsVars
  <2>7. CASE ThreadBrightness
    BY <2>7, BrightnessType DEF TypeOK, ThreadBrightness, ThreadGoto,
         PowerQuery, ThreadPcs, coVars, lsVars
  <2>8. CASE ThreadSet
    BY <2>8 DEF TypeOK, ThreadSet, ThreadGoto, ThreadPcs, coVars, lsVars
  <2>9. CASE ThreadSleep
    BY <2>9 DEF TypeOK, ThreadSleep, ThreadGoto, ThreadPcs, NextSeconds,
         envVars, coVars, lsVars
  <2>10. QED
    BY <1>1, <2>1, <2>4, <2>5, <2>6, <2>7, <2>8, <2>9, <2>2, <2>3 DEF ThreadNext
<1>2. ASSUME NEW l \in Listeners, OnInput(l) \/ IntrNext(l) PROVE TypeOK'
  <2>1. CASE OnInput(l)
    BY <2>1 DEF TypeOK, OnInput, ListenerGoto, ListenerPcs, envVars, coVars,
         thVars
  <2>2. CASE IntrDropCheck(l) \/ IntrRaise(l) \/ IntrNoKey(l)
    BY <2>2 DEF TypeOK, IntrDropCheck, IntrRaise, IntrNoKey, ListenerGoto,
         ListenerPcs, envVars, coVars, thVars
  <2>3. CASE IntrBrightness(l)
    BY <2>3, BrightnessType DEF TypeOK, IntrBrightness, ListenerGoto,
         ListenerPcs, PowerQuery, coVars, thVars
  <2>4. CASE IntrKeyRead(l)
    BY <2>4 DEF TypeOK, IntrKeyRead, ListenerGoto, ListenerPcs, PowerQuery,
         Modes, coVars, thVars
  <2>5. CASE IntrKeyApply(l)
    <3> DEFINE m == lchg[l].mode
               r == Relative(lkey[l])
               d == ChangeDecision(lchg[l].read, r)
    <3>1. m \in Modes /\ high[m] \in 0..(UInt32Range - 1)
      BY DEF TypeOK
    <3>2. ChangeApply(d, high[m], r) \in 0..(UInt32Range - 1)
      BY <3>1, ChangeApplyType, DecisionType, RelativeType
    <3>3. high' = [high EXCEPT ![m] = ChangeApply(d, high[m], r)]
      BY <2>5 DEF IntrKeyApply
    <3>4. high' \in [Modes -> 0..(UInt32Range - 1)]
      BY <3>1, <3>2, <3>3 DEF TypeOK
    <3>5. NoChange \in [mode : Modes, read : 0..(UInt32Range - 1)]
      BY DEF NoChange, Modes
    <3>6. QED
      BY <2>5, <3>4, <3>5 DEF TypeOK, IntrKeyApply, ListenerGoto, ListenerPcs,
           coVars, thVars
  <2>6. CASE IntrSet(l)
    BY <2>6 DEF TypeOK, IntrSet, ListenerGoto, ListenerPcs, coVars, thVars
  <2>7. QED
    BY <1>2, <2>1, <2>2, <2>3, <2>4, <2>5, <2>6 DEF IntrNext
<1>3. ASSUME UnloadClearCallback \/ UnloadNext PROVE TypeOK'
  <2>1. CASE UnloadClearCallback \/ UnloadSetDrop \/ UnloadFree
    BY <2>1 DEF TypeOK, UnloadClearCallback, UnloadSetDrop, UnloadFree,
         UnloadGoto, UnloadPcs, envVars, thVars, lsVars
  <2>2. CASE UnloadStopThread
    <3>1. pc' \in ThreadPcs /\ upc' \in UnloadPcs /\ active' \in BOOLEAN
      BY <2>2 DEF TypeOK, UnloadStopThread, UnloadGoto, UnloadPcs, ThreadPcs
    <3>2. QED
      BY <2>2, <3>1 DEF TypeOK, UnloadStopThread, envVars, lsVars
  <2>3. QED BY <1>3, <2>1, <2>2 DEF UnloadNext
<1>4. CASE Tick
  BY <1>4 DEF TypeOK, Tick, envVars, coVars, lsVars
<1>5. CASE PowerChange
  BY <1>5 DEF TypeOK, PowerChange, coVars, thVars, lsVars
<1>6. ASSUME NEW m \in Modes, NEW v \in Timeouts, SysctlTimeout(m, v)
      PROVE  TypeOK'
  BY <1>6 DEF TypeOK, SysctlTimeout, coVars, thVars, lsVars
<1>7. CASE SysctlPowermode
  BY <1>7 DEF TypeOK, SysctlPowermode, PowerQuery, coVars, thVars, lsVars
<1>8. CASE UNCHANGED vars
  BY <1>8 DEF TypeOK, vars, envVars, coVars, thVars, lsVars
<1>9. QED
  BY <1>1, <1>2, <1>3, <1>4, <1>5, <1>6, <1>7, <1>8 DEF Next

\* Every variable of the model keeps its type; the brightness levels stay
\* within a uint32_t through the unsigned arithmetic of changebrightness.
THEOREM TypeCorrect == Spec => []TypeOK
<1>1. QED BY TypeInit, TypeNext, PTL DEF Spec

(***************************************************************************)
(* The callout thread is through with co when co is freed                  *)
(***************************************************************************)

\* Until destroy takes the lock, active is FALSE only for a thread that has
\* withdrawn; from the moment destroy may free co, the thread is at its end.
\* What is in between is the wait, and only the thread ends it.
UnloadInv ==
  /\ upc \in {"loaded", "setdrop", "stopthread"} /\ ~active
       => pc \in {"stop", "exited"}
  /\ upc \in {"free", "done"} => pc \in {"stop", "exited"}
  /\ freed => upc = "done"

LEMMA UnloadInit == Init => UnloadInv
BY DEF Init, UnloadInv

LEMMA UnloadStep == UnloadInv /\ [Next]_vars => UnloadInv'
<1> SUFFICES ASSUME UnloadInv, [Next]_vars PROVE UnloadInv'
  OBVIOUS
<1> USE DEF UnloadInv
<1>1. ASSUME ThreadNext PROVE UnloadInv'
  <2>1. CASE ThreadCheckTimeout
    BY <2>1 DEF ThreadCheckTimeout, ThreadGoto
  <2>2. CASE ThreadStop
    BY <2>2 DEF ThreadStop, ThreadGoto, coVars
  <2>3. CASE ThreadStart \/ ThreadUndrop \/ ThreadTop \/ ThreadGetTimeout
             \/ ThreadGetLastInput
    BY <2>3 DEF ThreadStart, ThreadUndrop, ThreadTop, ThreadGetTimeout,
         ThreadGetLastInput, ThreadGoto, coVars
  <2>4. CASE ThreadDimCheck \/ ThreadBrightness \/ ThreadSet \/ ThreadSleep
             \/ ThreadTimeout
    BY <2>4 DEF ThreadDimCheck, ThreadBrightness, ThreadSet, ThreadSleep,
         ThreadTimeout, ThreadGoto, coVars
  <2>5. QED BY <1>1, <2>1, <2>2, <2>3, <2>4 DEF ThreadNext
<1>2. ASSUME NEW l \in Listeners, OnInput(l) \/ IntrNext(l) PROVE UnloadInv'
  <2>1. upc' = upc /\ pc' = pc /\ active' = active /\ freed' = freed
    BY <1>2 DEF OnInput, IntrNext, IntrDropCheck, IntrRaise, IntrBrightness,
         IntrNoKey, IntrKeyRead, IntrKeyApply, IntrSet, coVars, thVars
  <2>2. QED BY <2>1
<1>3. CASE UnloadClearCallback \/ UnloadSetDrop \/ UnloadFree
  BY <1>3 DEF UnloadClearCallback, UnloadSetDrop, UnloadFree, UnloadGoto, thVars
<1>4. CASE UnloadStopThread
  BY <1>4 DEF UnloadStopThread, UnloadGoto
<1>5. ASSUME Tick \/ PowerChange \/ SysctlPowermode
               \/ (\E m \in Modes, v \in Timeouts : SysctlTimeout(m, v))
      PROVE  UnloadInv'
  BY <1>5 DEF Tick, PowerChange, SysctlTimeout, SysctlPowermode, coVars, thVars
<1>6. CASE UNCHANGED vars
  BY <1>6 DEF vars, coVars, thVars
<1>7. QED
  BY <1>1, <1>2, <1>3, <1>4, <1>5, <1>6 DEF Next, UnloadNext

\* framework_callout_destroy never frees co under a callout thread that still
\* uses it: the wait in destroy and the thread's own withdrawal suffice in every
\* interleaving, with any number of listeners.
THEOREM CalloutOutlived == Spec => []ThreadOutlivesNoCallout
<1>1. UnloadInv => ThreadOutlivesNoCallout
  BY DEF UnloadInv, ThreadOutlivesNoCallout
<1>2. QED BY UnloadInit, UnloadStep, <1>1, PTL DEF Spec

(***************************************************************************)
(* The deadline of a bright screen                                         *)
(***************************************************************************)

\* An input in progress is at most MaxLag old until it has raised the level.
InputInv ==
  /\ last_input <= now
  /\ \A l \in Listeners :
       lpc[l] \in {"intr", "raise"} => now <= last_input + MaxLag

\* Past its look at the clock, the thread knows the last input up to its own
\* delay; a level that is HIGH in spite of an expired timeout was raised since.
DecidedInv ==
  pc \in {"brightness", "set", "sleep"} =>
    \/ pc = "brightness" /\ PowerBlocked
    \/ /\ elapsed < tmo => now - elapsed <= last_input + lag
       /\ elapsed >= tmo /\ level = "HIGH" => now <= last_input + MaxLag + lag

\* The alarm is at most a timeout away, is late by at most the delay, and for a
\* bright screen is within the timeout and two delays of the last input.
AlarmInv ==
  pc = "asleep" =>
    /\ wake_at <= now + tmo
    /\ now <= wake_at + lag
    /\ level = "HIGH" => wake_at <= last_input + tmo + 2 * MaxLag

DimInv ==
  /\ InputInv
  /\ lag <= MaxLag
  /\ pc = "dimcheck" => li <= last_input
  /\ DecidedInv
  /\ AlarmInv

LEMMA DimInit == Init => DimInv
BY CalloutAssumption DEF Init, DimInv, InputInv, DecidedInv, AlarmInv

\* The parts of DimInv read no more than this.
LEMMA DimFrame ==
  ASSUME DimInv,
         UNCHANGED <<now, last_input, lpc, lag, pc, li, elapsed, tmo, wake_at,
                     level, pwrowner>>
  PROVE  DimInv'
BY DEF DimInv, InputInv, DecidedInv, AlarmInv, PowerBlocked

\* A step of the callout thread.
LEMMA DimThread == TypeOK /\ DimInv /\ ThreadNext => DimInv'
<1> SUFFICES ASSUME TypeOK, DimInv, ThreadNext PROVE DimInv'
  OBVIOUS
<1> USE CalloutAssumption
<1>1. CASE ThreadStart \/ ThreadUndrop \/ ThreadTop \/ ThreadGetTimeout
           \/ ThreadCheckTimeout
  <2>1. /\ pc' \notin {"dimcheck", "brightness", "set", "sleep", "asleep"}
        /\ UNCHANGED <<now, last_input, lpc, lag>>
    BY <1>1 DEF ThreadStart, ThreadUndrop, ThreadTop, ThreadGetTimeout,
         ThreadCheckTimeout, ThreadGoto, lsVars
  <2>2. QED
    BY <2>1 DEF DimInv, InputInv, DecidedInv, AlarmInv
<1>2. CASE ThreadTimeout \/ ThreadStop
  <2>1. /\ pc' \notin {"dimcheck", "brightness", "set", "sleep", "asleep"}
        /\ UNCHANGED <<now, last_input, lpc, lag>>
    BY <1>2 DEF ThreadTimeout, ThreadStop, ThreadGoto, thVars, lsVars
  <2>2. QED
    BY <2>1 DEF DimInv, InputInv, DecidedInv, AlarmInv
<1>3. CASE ThreadGetLastInput
  <2>1. /\ pc' = "dimcheck" /\ li' = last_input
        /\ UNCHANGED <<now, last_input, lpc, lag>>
    BY <1>3 DEF ThreadGetLastInput, ThreadGoto, lsVars
  <2>2. QED
    BY <2>1 DEF TypeOK, DimInv, InputInv, DecidedInv, AlarmInv
<1>4. CASE ThreadDimCheck
  <2>1. /\ pc = "dimcheck" /\ pc' = "brightness"
        /\ elapsed' = now - Smaller(li, now)
        /\ level' = IF elapsed' >= tmo THEN "DIM" ELSE level
        /\ UNCHANGED <<now, last_input, lpc, lag, tmo, li>>
    BY <1>4 DEF ThreadDimCheck, ThreadGoto, lsVars
  <2>2. now - elapsed' <= last_input + lag
    BY <2>1 DEF TypeOK, DimInv, InputInv, Smaller
  <2>3. ~(elapsed' >= tmo /\ level' = "HIGH")
    BY <2>1
  <2>4. DecidedInv'
    BY <2>1, <2>2, <2>3 DEF DecidedInv
  <2>5. QED
    BY <2>1, <2>4 DEF DimInv, InputInv, AlarmInv
<1>5. CASE ThreadBrightness \/ ThreadSet
  <2>1. /\ pc \in {"brightness", "set"} /\ pc' \in {"set", "sleep"}
        /\ pc = "brightness" => ~PowerBlocked
        /\ UNCHANGED <<now, last_input, lpc, lag, tmo, elapsed, level>>
    BY <1>5 DEF ThreadBrightness, ThreadSet, ThreadGoto, PowerQuery,
         PowerBlocked, coVars, lsVars
  <2>2. QED
    BY <2>1 DEF DimInv, InputInv, DecidedInv, AlarmInv
<1>6. CASE ThreadSleep
  <2>1. /\ pc = "sleep" /\ pc' = "asleep"
        /\ wake_at' = now + NextSeconds /\ lag' = 0
        /\ UNCHANGED <<now, last_input, lpc, tmo, level>>
    BY <1>6 DEF ThreadSleep, ThreadGoto, coVars, lsVars
  <2>2. NextSeconds \in Nat /\ NextSeconds <= tmo
    BY DEF NextSeconds, TypeOK
  <2>3. level = "HIGH" => now + NextSeconds <= last_input + tmo + 2 * MaxLag
    BY <2>1 DEF NextSeconds, TypeOK, DimInv, DecidedInv
  <2>4. AlarmInv'
    BY <2>1, <2>2, <2>3 DEF AlarmInv, TypeOK
  <2>5. QED
    BY <2>1, <2>4 DEF DimInv, InputInv, DecidedInv, TypeOK
<1>7. QED
  BY <1>1, <1>2, <1>3, <1>4, <1>5, <1>6 DEF ThreadNext

\* A step of a listener.
LEMMA DimListener ==
  ASSUME TypeOK, DimInv, NEW l \in Listeners, OnInput(l) \/ IntrNext(l)
  PROVE  DimInv'
<1> USE CalloutAssumption
<1>1. CASE OnInput(l)
  <2>1. /\ last_input' = now
        /\ UNCHANGED <<now, lag, pc, li, elapsed, tmo, wake_at, level, pwrowner>>
    BY <1>1 DEF OnInput, envVars, coVars, thVars
  <2>2. InputInv'
    BY <2>1 DEF InputInv, TypeOK
  <2>3. QED
    BY <2>1, <2>2 DEF DimInv, InputInv, DecidedInv, AlarmInv, PowerBlocked, TypeOK
<1>2. CASE IntrDropCheck(l)
  <2>1. /\ lpc[l] = "intr"
        /\ \A k \in Listeners : lpc'[k] = lpc[k] \/ k = l
        /\ UNCHANGED <<now, last_input, lag, pc, li, elapsed, tmo, wake_at,
                       level, pwrowner>>
    BY <1>2 DEF IntrDropCheck, ListenerGoto, envVars, coVars, thVars, TypeOK
  <2>2. InputInv'
    BY <2>1 DEF DimInv, InputInv
  <2>3. QED
    BY <2>1, <2>2 DEF DimInv, DecidedInv, AlarmInv, PowerBlocked
<1>3. CASE IntrRaise(l)
  <2>1. /\ lpc[l] = "raise" /\ level' = "HIGH"
        /\ \A k \in Listeners : lpc'[k] = lpc[k] \/ lpc'[k] = "brightness"
        /\ UNCHANGED <<now, last_input, lag, pc, li, elapsed, tmo, wake_at,
                       pwrowner>>
    BY <1>3 DEF IntrRaise, ListenerGoto, envVars, thVars, TypeOK
  <2>2. now <= last_input + MaxLag
    BY <2>1 DEF DimInv, InputInv
  <2>3. InputInv'
    BY <2>1 DEF DimInv, InputInv
  <2>4. DecidedInv'
    BY <2>1, <2>2 DEF DimInv, DecidedInv, PowerBlocked, TypeOK
  <2>5. AlarmInv'
    BY <2>1, <2>2 DEF DimInv, AlarmInv, TypeOK
  <2>6. QED
    BY <2>1, <2>3, <2>4, <2>5 DEF DimInv
<1>4. CASE IntrBrightness(l) \/ IntrNoKey(l) \/ IntrKeyRead(l)
           \/ IntrKeyApply(l) \/ IntrSet(l)
  <2>1. UNCHANGED <<now, last_input, lag, pc, li, elapsed, tmo, wake_at, level>>
    BY <1>4 DEF IntrBrightness, IntrNoKey, IntrKeyRead, IntrKeyApply, IntrSet,
         coVars, thVars
  <2>2. \A k \in Listeners :
          lpc'[k] = lpc[k] \/ lpc'[k] \in {"key", "keyapply", "set", "idle"}
    BY <1>4 DEF IntrBrightness, IntrNoKey, IntrKeyRead, IntrKeyApply, IntrSet,
         ListenerGoto, TypeOK
  <2>3. PowerBlocked => PowerBlocked'
    BY <1>4 DEF IntrBrightness, IntrNoKey, IntrKeyRead, IntrKeyApply, IntrSet,
         PowerQuery, PowerBlocked, envVars
  <2>4. InputInv'
    BY <2>1, <2>2 DEF DimInv, InputInv
  <2>5. DecidedInv' /\ AlarmInv'
    BY <2>1, <2>3 DEF DimInv, DecidedInv, AlarmInv
  <2>6. QED
    BY <2>1, <2>4, <2>5 DEF DimInv
<1>5. QED BY <1>1, <1>2, <1>3, <1>4 DEF IntrNext

\* A second passes.
LEMMA DimTick == TypeOK /\ DimInv /\ Tick => DimInv'
<1> SUFFICES ASSUME TypeOK, DimInv, Tick PROVE DimInv'
  OBVIOUS
<1> USE CalloutAssumption DEF TypeOK
<1>1. /\ now' = now + 1
      /\ lag' = IF ThreadRunnable THEN lag + 1 ELSE lag
      /\ ThreadRunnable => lag < MaxLag
      /\ UNCHANGED <<last_input, lpc, pc, li, elapsed, tmo, wake_at, level,
                     pwrowner>>
  BY DEF Tick, envVars, coVars, lsVars
<1>2. InputInv'
  BY <1>1 DEF DimInv, InputInv, Tick
<1>3. lag' <= MaxLag
  BY <1>1 DEF DimInv
<1>4. DecidedInv'
  <2> SUFFICES ASSUME pc \in {"brightness", "set", "sleep"},
                      ~(pc = "brightness" /\ PowerBlocked)
               PROVE  DecidedInv'
    BY <1>1 DEF DecidedInv, PowerBlocked
  <2>1. ThreadRunnable
    BY DEF ThreadRunnable, PowerBlocked
  <2>2. lag' = lag + 1
    BY <1>1, <2>1
  <2>3. QED
    BY <1>1, <2>2 DEF DimInv, DecidedInv
<1>5. AlarmInv'
  <2> SUFFICES ASSUME pc = "asleep" PROVE AlarmInv'
    BY <1>1 DEF AlarmInv
  <2>1. now' <= wake_at + lag'
    BY <1>1 DEF DimInv, AlarmInv, ThreadRunnable
  <2>2. QED
    BY <1>1, <2>1 DEF DimInv, AlarmInv
<1>6. QED
  BY <1>1, <1>2, <1>3, <1>4, <1>5 DEF DimInv

LEMMA DimStep == TypeOK /\ DimInv /\ [Next]_vars => DimInv'
<1> SUFFICES ASSUME TypeOK, DimInv, [Next]_vars PROVE DimInv'
  OBVIOUS
<1>1. CASE UnloadClearCallback \/ UnloadSetDrop \/ UnloadFree
  BY <1>1, DimFrame DEF UnloadClearCallback, UnloadSetDrop, UnloadFree, envVars,
       thVars, lsVars
<1>2. CASE UnloadStopThread
  <2>1. /\ pc' = pc \/ pc' = "top"
        /\ UNCHANGED <<now, last_input, lpc, lag, li, elapsed, tmo, wake_at,
                       level, pwrowner>>
    BY <1>2 DEF UnloadStopThread, envVars, lsVars
  <2>2. CASE pc' = pc
    BY <2>1, <2>2, DimFrame
  <2>3. CASE pc' = "top"
    BY <2>1, <2>3 DEF DimInv, InputInv, DecidedInv, AlarmInv
  <2>4. QED BY <2>1, <2>2, <2>3
<1>3. CASE PowerChange \/ (\E m \in Modes, v \in Timeouts : SysctlTimeout(m, v))
  BY <1>3, DimFrame DEF PowerChange, SysctlTimeout, coVars, thVars, lsVars
<1>4. CASE SysctlPowermode
  <2>1. /\ PowerBlocked => PowerBlocked'
        /\ UNCHANGED <<now, last_input, lpc, lag, pc, li, elapsed, tmo, wake_at,
                       level>>
    BY <1>4 DEF SysctlPowermode, PowerQuery, PowerBlocked, coVars, thVars, lsVars
  <2>2. QED BY <2>1 DEF DimInv, InputInv, DecidedInv, AlarmInv
<1>5. CASE UNCHANGED vars
  BY <1>5, DimFrame DEF vars, envVars, coVars, thVars, lsVars
<1>6. QED
  BY <1>1, <1>2, <1>3, <1>4, <1>5, DimThread, DimListener, DimTick DEF Next, UnloadNext

\* Whatever the interleaving of inputs, changes of the timeout, of the power
\* source and of the delays, a thread asleep with a bright screen is within the
\* timeout it read and three scheduling delays of the last input.
THEOREM DimDeadline == Spec => []DimmedOnTime
<1>1. TypeOK /\ DimInv => DimmedOnTime
  BY CalloutAssumption DEF TypeOK, DimInv, AlarmInv, DimmedOnTime
<1>2. Init => TypeOK /\ DimInv
  BY TypeInit, DimInit
<1>3. (TypeOK /\ DimInv) /\ [Next]_vars => (TypeOK /\ DimInv)'
  BY TypeNext, DimStep
<1>4. QED BY <1>1, <1>2, <1>3, PTL DEF Spec

(***************************************************************************)
(* The wait of framework_callout_destroy                                   *)
(***************************************************************************)

\* A thread whose co->active is set is in its loop, and the wakeup at its end
\* goes to a destroy that sleeps.
WakeInv ==
  /\ active => pc \notin {"stop", "exited"}
  /\ upc = "await" => pc # "exited"

LEMMA WakeInit == Init => WakeInv
BY DEF Init, WakeInv

LEMMA WakeStep == WakeInv /\ [Next]_vars => WakeInv'
<1> SUFFICES ASSUME WakeInv, [Next]_vars PROVE WakeInv'
  OBVIOUS
<1> USE DEF WakeInv
<1>1. ASSUME ThreadNext PROVE WakeInv'
  <2>1. CASE ThreadCheckTimeout
    BY <2>1 DEF ThreadCheckTimeout, ThreadGoto
  <2>2. CASE ThreadStop
    BY <2>2 DEF ThreadStop, ThreadGoto, coVars
  <2>3. CASE ThreadStart \/ ThreadUndrop \/ ThreadTop \/ ThreadGetTimeout
             \/ ThreadGetLastInput
    BY <2>3 DEF ThreadStart, ThreadUndrop, ThreadTop, ThreadGetTimeout,
         ThreadGetLastInput, ThreadGoto, coVars
  <2>4. CASE ThreadDimCheck \/ ThreadBrightness \/ ThreadSet \/ ThreadSleep
             \/ ThreadTimeout
    BY <2>4 DEF ThreadDimCheck, ThreadBrightness, ThreadSet, ThreadSleep,
         ThreadTimeout, ThreadGoto, coVars
  <2>5. QED BY <1>1, <2>1, <2>2, <2>3, <2>4 DEF ThreadNext
<1>2. ASSUME NEW l \in Listeners, OnInput(l) \/ IntrNext(l) PROVE WakeInv'
  <2>1. upc' = upc /\ pc' = pc /\ active' = active
    BY <1>2 DEF OnInput, IntrNext, IntrDropCheck, IntrRaise, IntrBrightness,
         IntrNoKey, IntrKeyRead, IntrKeyApply, IntrSet, coVars, thVars
  <2>2. QED BY <2>1
<1>3. CASE UnloadClearCallback \/ UnloadSetDrop \/ UnloadFree
  BY <1>3 DEF UnloadClearCallback, UnloadSetDrop, UnloadFree, UnloadGoto, thVars
<1>4. CASE UnloadStopThread
  BY <1>4 DEF UnloadStopThread, UnloadGoto
<1>5. ASSUME Tick \/ PowerChange \/ SysctlPowermode
               \/ (\E m \in Modes, v \in Timeouts : SysctlTimeout(m, v))
      PROVE  WakeInv'
  BY <1>5 DEF Tick, PowerChange, SysctlTimeout, SysctlPowermode, coVars, thVars
<1>6. CASE UNCHANGED vars
  BY <1>6 DEF vars, coVars, thVars
<1>7. QED
  BY <1>1, <1>2, <1>3, <1>4, <1>5, <1>6 DEF Next, UnloadNext

\* A framework_callout_destroy that sleeps has a thread that is going to wake
\* it, at the latest when the alarm it set goes off: the wakeup of destroy may
\* miss the thread, the wakeup of the thread cannot miss destroy.
THEOREM NoLostWakeup == Spec => []DestroyIsWoken
<1>1. DimInv /\ WakeInv => DestroyIsWoken
  BY DEF DimInv, AlarmInv, WakeInv, DestroyIsWoken
<1>2. Init => TypeOK /\ DimInv
  BY TypeInit, DimInit
<1>3. (TypeOK /\ DimInv) /\ [Next]_vars => (TypeOK /\ DimInv)'
  BY TypeNext, DimStep
<1>4. QED BY WakeInit, WakeStep, <1>1, <1>2, <1>3, PTL DEF Spec
=============================================================================
