------------------------------- MODULE Callout -------------------------------
(***************************************************************************)
(* framework_callout.c with the part of framework_evdev.c that feeds it.   *)
(*                                                                         *)
(* Processes                                                               *)
(*  - the callout thread (framework_callout_thread): once per alarm it     *)
(*    reads the timeout, the power mode and the time of the last input,    *)
(*    dims when the timeout has passed and sleeps until the next deadline; *)
(*  - the listener threads: each runs framework_evdev_oninput and, when a  *)
(*    callback is registered, framework_callout_inputintr;                 *)
(*  - the unloading thread: framework_callout_destroy;                     *)
(*  - the machine: seconds pass, the power source changes, the             *)
(*    administrator writes timeout_secs and reads powermode.               *)
(*                                                                         *)
(* One action is one critical section or one call that can be interleaved. *)
(* co->lock is never held across a call that blocks, except by msleep,     *)
(* which releases it, so a section under it is one action and the lock     *)
(* itself needs no variable.                                               *)
(***************************************************************************)
EXTENDS ScreenConfig

CONSTANTS
  Listeners,    \* the listener threads
  Keys,         \* what input can carry: subset of {"none", "up", "down"}
  Batteries,    \* power modes a query may find: subset of {"BAT","PWR","IVL"}
  InitTimeout,  \* timeout_secs at load (10 in framework_screen_init)
  Timeouts,     \* values the administrator writes to timeout_secs
  LoadTime,     \* time_uptime when the module is loaded
  MaxTime,      \* bound on the clock
  MaxLag,       \* seconds a runnable thread may be delayed, per iteration
  KthreadAdd    \* outcomes of kthread_add: subset of BOOLEAN

ASSUME CalloutAssumption ==
  /\ Keys \subseteq {"none", "up", "down"}
  /\ Batteries \subseteq {"BAT", "PWR", "IVL"}
  /\ InitTimeout \in Nat /\ Timeouts \subseteq Nat
  /\ LoadTime \in Nat /\ MaxTime \in Nat /\ MaxLag \in Nat
  /\ KthreadAdd \subseteq BOOLEAN

VARIABLES
  now,          \* time_uptime
  last_input,   \* framework_evdev.last_input
  cbset,        \* framework_evdev.cbfunc is framework_callout_inputintr
  power,        \* what the battery reports at present
  pwrowner,     \* the thread that left framework_power.lock locked, or "none"
  timeout,      \* timeout_secs of each mode
  high,         \* brightness_high of each mode
  hw,           \* brightness of the panel
  level,        \* co->current_level
  active,       \* co->active
  drop,         \* framework_callout_drop
  freed,        \* co was destroyed and freed
  pc, tmo, li, elapsed, val,   \* the callout thread and its locals
  wake_at,      \* when its msleep times out
  lag,          \* seconds it has been runnable in the current iteration
  lpc, lkey, lchg, lval,       \* the listeners and their locals
  upc           \* the unloading thread

envVars == <<power, pwrowner, timeout, high, hw>>
coVars  == <<level, active, drop, cbset, freed>>
thVars  == <<pc, tmo, li, elapsed, val, wake_at, lag>>
lsVars  == <<lpc, lkey, lchg, lval>>
vars    == <<now, last_input, envVars, coVars, thVars, lsVars, upc>>

ThreadPcs == {"none", "start", "undrop", "top", "timeout", "checktimeout",
              "lastinput", "dimcheck", "brightness", "set", "sleep",
              "asleep", "stop", "exited"}
ListenerPcs == {"idle", "intr", "raise", "brightness", "key", "keyapply", "set"}
UnloadPcs == {"loaded", "setdrop", "stopthread", "await", "free", "done"}

NoChange == [mode |-> "PWR", read |-> 0]

TypeOK ==
  /\ now \in Nat /\ last_input \in Nat
  /\ power \in {"BAT", "PWR", "IVL"} 
  /\ pwrowner \in {"none", "loader", "thread", "sysctl"} \union Listeners
  /\ timeout \in [Modes -> Nat]
  /\ high \in [Modes -> 0..(UInt32Range - 1)] /\ hw \in 0..(UInt32Range - 1)
  /\ level \in {"DIM", "HIGH"} /\ active \in BOOLEAN
  /\ drop \in BOOLEAN /\ cbset \in BOOLEAN /\ freed \in BOOLEAN
  /\ pc \in ThreadPcs /\ tmo \in Nat /\ li \in Nat /\ elapsed \in Nat
  /\ val \in 0..(UInt32Range - 1) /\ wake_at \in Nat /\ lag \in Nat
  /\ lpc \in [Listeners -> ListenerPcs]
  /\ lkey \in [Listeners -> {"none", "up", "down"}]
  /\ lchg \in [Listeners -> [mode : Modes, read : 0..(UInt32Range - 1)]]
  /\ lval \in [Listeners -> 0..(UInt32Range - 1)]
  /\ upc \in UnloadPcs

-----------------------------------------------------------------------------
(* Helpers                                                                 *)

Smaller(a, b) == IF a < b THEN a ELSE b

\* framework_pwr_getpowermode as its callers see it.  A battery state the
\* driver does not know makes it return IVL with framework_power.lock held:
\* later queries block, except those of the same thread, for which mtx_lock
\* only counts a recursion (module Power has the detail).
PowerQuery(self) ==
  /\ pwrowner \in {"none", self}
  /\ pwrowner' = IF power = "IVL" THEN self ELSE pwrowner

\* A query of the callout thread blocks, for ever.
PowerBlocked == pwrowner \notin {"none", "thread"}

\* framework_callout_getbrightnessfor.  The mode that the query found and the
\* level of the screen are read in one step: a level that changes between the
\* two is one that changed before the query.
BrightnessFor ==
  IF power = "IVL" THEN MaxBrightness
  ELSE IF level = "DIM" THEN DefaultLow[power] ELSE high[power]

ListenerGoto(l, from, to) ==
  /\ lpc[l] = from
  /\ lpc' = [lpc EXCEPT ![l] = to]

-----------------------------------------------------------------------------
(* framework_callout_init has run: the screen is set to the high level, or *)
(* to the maximum by a loader that found an unknown battery state and went *)
(* on with the lock held; kthread_add succeeded, or failed and was only    *)
(* logged.                                                                 *)

Init ==
  /\ now = LoadTime /\ last_input = 0
  /\ power \in Batteries
  /\ pwrowner = IF power = "IVL" THEN "loader" ELSE "none"
  /\ timeout = [m \in Modes |-> InitTimeout]
  /\ high = DefaultHigh
  /\ level = "HIGH" /\ active = TRUE /\ drop = TRUE
  /\ cbset = FALSE /\ freed = FALSE
  /\ hw = BrightnessFor
  /\ \E created \in KthreadAdd : pc = IF created THEN "start" ELSE "none"
  /\ tmo = 0 /\ li = 0 /\ elapsed = 0 /\ val = 0 /\ wake_at = 0 /\ lag = 0
  /\ lpc = [l \in Listeners |-> "idle"]
  /\ lkey = [l \in Listeners |-> "none"]
  /\ lchg = [l \in Listeners |-> NoChange]
  /\ lval = [l \in Listeners |-> 0]
  /\ upc = "loaded"

-----------------------------------------------------------------------------
(* The callout thread                                                      *)

ThreadGoto(from, to) == pc = from /\ pc' = to

\* framework_evdev_setintrfunc(framework_callout_inputintr, co)
ThreadStart ==
  /\ ThreadGoto("start", "undrop")
  /\ cbset' = TRUE
  /\ UNCHANGED <<now, last_input, envVars, level, active, drop, freed,
                 tmo, li, elapsed, val, wake_at, lag, lsVars, upc>>

\* framework_callout_drop = 0
ThreadUndrop ==
  /\ ThreadGoto("undrop", "top")
  /\ drop' = FALSE
  /\ UNCHANGED <<now, last_input, envVars, level, active, cbset, freed,
                 tmo, li, elapsed, val, wake_at, lag, lsVars, upc>>

\* while (co->active), under co->lock
ThreadTop ==
  /\ \/ active /\ ThreadGoto("top", "timeout")
     \/ ~active /\ ThreadGoto("top", "stop")
  /\ UNCHANGED <<now, last_input, envVars, coVars,
                 tmo, li, elapsed, val, wake_at, lag, lsVars, upc>>

\* framework_callout_getcurrenttimeout: 0 when the power mode is invalid
ThreadGetTimeout ==
  /\ ThreadGoto("timeout", "checktimeout")
  /\ PowerQuery("thread")
  /\ tmo' = IF power = "IVL" THEN 0 ELSE timeout[power]
  /\ UNCHANGED <<now, last_input, power, timeout, high, hw, coVars,
                 li, elapsed, val, wake_at, lag, lsVars, upc>>

WithdrawStaysActive ==
  /\ \/ tmo = 0 /\ ThreadGoto("checktimeout", "stop")
     \/ tmo # 0 /\ ThreadGoto("checktimeout", "lastinput")
  /\ UNCHANGED <<now, last_input, envVars, coVars,
                 tmo, li, elapsed, val, wake_at, lag, lsVars, upc>>

\* A zero timeout makes the thread withdraw: it clears co->active itself.
\* "stop" is the code after the last FRAMEWORK_CALLOUT_UNLOCK.
ThreadCheckTimeout ==
  /\ \/ tmo = 0 /\ ThreadGoto("checktimeout", "stop") /\ active' = FALSE
     \/ tmo # 0 /\ ThreadGoto("checktimeout", "lastinput") /\ UNCHANGED active
  /\ UNCHANGED <<now, last_input, envVars, level, drop, cbset, freed,
                 tmo, li, elapsed, val, wake_at, lag, lsVars, upc>>

\* framework_evdev_getlastinput, with co->lock released
ThreadGetLastInput ==
  /\ ThreadGoto("lastinput", "dimcheck")
  /\ li' = last_input
  /\ UNCHANGED <<now, last_input, envVars, coVars,
                 tmo, elapsed, val, wake_at, lag, lsVars, upc>>

DimCheckOffByOne ==
  /\ ThreadGoto("dimcheck", "brightness")
  /\ elapsed' = now - Smaller(li, now)
  /\ level' = IF elapsed' > tmo THEN "DIM" ELSE level
  /\ UNCHANGED <<now, last_input, envVars, active, drop, cbset, freed,
                 tmo, li, val, wake_at, lag, lsVars, upc>>

DimCheckSwapped ==
  /\ ThreadGoto("dimcheck", "brightness")
  /\ elapsed' = Smaller(li, now) - now
  /\ UNCHANGED <<now, last_input, envVars, coVars, tmo, li, val, wake_at, lag,
                 lsVars, upc>>

\* Elapsed time since the input that was read, and the decision to dim.  The
\* level is never raised here (the else branch is commented out in the code).
ThreadDimCheck ==
  /\ ThreadGoto("dimcheck", "brightness")
  /\ elapsed' = now - Smaller(li, now)
  /\ level' = IF elapsed' >= tmo THEN "DIM" ELSE level
  /\ UNCHANGED <<now, last_input, envVars, active, drop, cbset, freed,
                 tmo, li, val, wake_at, lag, lsVars, upc>>

\* framework_callout_getbrightnessfor
ThreadBrightness ==
  /\ ThreadGoto("brightness", "set")
  /\ PowerQuery("thread")
  /\ val' = BrightnessFor
  /\ UNCHANGED <<now, last_input, power, timeout, high, hw, coVars,
                 tmo, li, elapsed, wake_at, lag, lsVars, upc>>

\* framework_bl_setbrightness with the value computed before
ThreadSet ==
  /\ ThreadGoto("set", "sleep")
  /\ hw' = val
  /\ val' = 0
  /\ UNCHANGED <<now, last_input, power, pwrowner, timeout, high, coVars,
                 tmo, li, elapsed, wake_at, lag, lsVars, upc>>

\* next_seconds
NextSeconds == IF elapsed < tmo THEN tmo - elapsed ELSE tmo

\* msleep(co, &co->lock, 0, "sigwait", next_wait).  co->active is not tested
\* again between the unlocked calls above and this sleep.  A second stands for
\* its ticks: the one tick more of tvtohz is within the delays of Tick.
ThreadSleep ==
  /\ ThreadGoto("sleep", "asleep")
  /\ wake_at' = now + NextSeconds
  /\ li' = 0 /\ elapsed' = 0 /\ lag' = 0
  /\ UNCHANGED <<now, last_input, envVars, coVars, tmo, val, lsVars, upc>>

\* msleep returns because its time is over.  At the bound of the clock an armed alarm counts as
\* expired, so that the bound stops no thread.
ThreadTimeout ==
  /\ ThreadGoto("asleep", "top")
  /\ now >= wake_at \/ now >= MaxTime
  /\ UNCHANGED <<now, last_input, envVars, coVars,
                 tmo, li, elapsed, val, wake_at, lag, lsVars, upc>>

StopSilently ==
  /\ ThreadGoto("stop", "exited")
  /\ UNCHANGED <<now, last_input, envVars, coVars,
                 tmo, li, elapsed, val, wake_at, lag, lsVars, upc>>

\* wakeup(co): the unloading thread continues when it sleeps on co.
ThreadStop ==
  /\ ThreadGoto("stop", "exited")
  /\ upc' = IF upc = "await" THEN "free" ELSE upc
  /\ UNCHANGED <<now, last_input, envVars, coVars,
                 tmo, li, elapsed, val, wake_at, lag, lsVars>>

ThreadNext ==
  \/ ThreadStart \/ ThreadUndrop \/ ThreadTop \/ ThreadGetTimeout
  \/ ThreadCheckTimeout \/ ThreadGetLastInput \/ ThreadDimCheck
  \/ ThreadBrightness \/ ThreadSet \/ ThreadSleep \/ ThreadTimeout
  \/ ThreadStop

-----------------------------------------------------------------------------
(* The listeners.  A step that dereferences co needs it to be allocated:   *)
(* with co freed the kernel faults and the listener takes no further step. *)

\* framework_evdev_oninput up to the unlock; the callback pointer is copied.
OnInput(l) ==
  /\ ListenerGoto(l, "idle", IF cbset THEN "intr" ELSE "idle")
  /\ last_input' = now
  /\ \E k \in Keys : lkey' = [lkey EXCEPT ![l] = IF cbset THEN k ELSE "none"]
  /\ UNCHANGED <<now, envVars, coVars, thVars, lchg, lval, upc>>

\* if (framework_callout_drop) return
IntrDropCheck(l) ==
  /\ ListenerGoto(l, "intr", IF drop THEN "idle" ELSE "raise")
  /\ lkey' = [lkey EXCEPT ![l] = IF drop THEN "none" ELSE @]
  /\ UNCHANGED <<now, last_input, envVars, coVars, thVars, lchg, lval, upc>>

\* current_level = HIGH under the write lock of co
IntrRaise(l) ==
  /\ ListenerGoto(l, "raise", "brightness")
  /\ ~freed
  /\ level' = "HIGH"
  /\ UNCHANGED <<now, last_input, envVars, active, drop, cbset, freed,
                 thVars, lkey, lchg, lval, upc>>

\* framework_callout_getbrightnessfor
IntrBrightness(l) ==
  /\ ListenerGoto(l, "brightness", "key")
  /\ ~freed
  /\ PowerQuery(l)
  /\ lval' = [lval EXCEPT ![l] = BrightnessFor]
  /\ UNCHANGED <<now, last_input, power, timeout, high, hw, coVars, thVars,
                 lkey, lchg, upc>>

\* No key code, or one the key handler has no entry for
IntrNoKey(l) ==
  /\ ListenerGoto(l, "key", "set")
  /\ ~freed
  /\ lkey[l] = "none"
  /\ UNCHANGED <<now, last_input, envVars, coVars, thVars, lkey, lchg, lval, upc>>

\* framework_keyhandler_handlekey up to the first unlock in changebrightness
IntrKeyRead(l) ==
  /\ ~freed
  /\ lkey[l] # "none"
  /\ PowerQuery(l)
  /\ IF power = "IVL"
     THEN /\ ListenerGoto(l, "key", "set")
          /\ UNCHANGED lchg
     ELSE /\ ListenerGoto(l, "key", "keyapply")
          /\ lchg' = [lchg EXCEPT ![l] = [mode |-> power, read |-> high[power]]]
  /\ UNCHANGED <<now, last_input, power, timeout, high, hw, coVars, thVars,
                 lkey, lval, upc>>

\* the second critical section of changebrightness
IntrKeyApply(l) ==
  /\ ListenerGoto(l, "keyapply", "set")
  /\ LET m == lchg[l].mode
         r == Relative(lkey[l])
     IN  high' = [high EXCEPT
                    ![m] = ChangeApply(ChangeDecision(lchg[l].read, r), @, r)]
  /\ lchg' = [lchg EXCEPT ![l] = NoChange]
  /\ UNCHANGED <<now, last_input, power, pwrowner, timeout, hw, coVars, thVars,
                 lkey, lval, upc>>

\* framework_bl_setbrightness with the value computed before the key
IntrSet(l) ==
  /\ ListenerGoto(l, "set", "idle")
  /\ hw' = lval[l]
  /\ lval' = [lval EXCEPT ![l] = 0]
  /\ lkey' = [lkey EXCEPT ![l] = "none"]
  /\ UNCHANGED <<now, last_input, power, pwrowner, timeout, high, coVars,
                 thVars, lchg, upc>>

IntrNext(l) ==
  \/ IntrDropCheck(l) \/ IntrRaise(l) \/ IntrBrightness(l) \/ IntrNoKey(l)
  \/ IntrKeyRead(l) \/ IntrKeyApply(l) \/ IntrSet(l)

-----------------------------------------------------------------------------
(* framework_callout_destroy                                               *)

UnloadGoto(from, to) == upc = from /\ upc' = to

\* framework_evdev_setintrfunc(NULL, NULL)
UnloadClearCallback ==
  /\ UnloadGoto("loaded", "setdrop")
  /\ cbset' = FALSE
  /\ UNCHANGED <<now, last_input, envVars, level, active, drop, freed, thVars,
                 lsVars>>

\* framework_callout_drop = 1
UnloadSetDrop ==
  /\ UnloadGoto("setdrop", "stopthread")
  /\ drop' = TRUE
  /\ UNCHANGED <<now, last_input, envVars, level, active, cbset, freed, thVars,
                 lsVars>>

UnloadNoWait ==
  /\ UnloadGoto("stopthread", "free")
  /\ active' = FALSE
  /\ pc' = IF pc = "asleep" THEN "top" ELSE pc
  /\ UNCHANGED <<now, last_input, envVars, level, drop, cbset, freed,
                 tmo, li, elapsed, val, wake_at, lag, lsVars>>

\* Under co->lock: an active thread is told to stop, woken and waited for;
\* one that has withdrawn is not.
UnloadStopThread ==
  /\ \/ /\ active
        /\ UnloadGoto("stopthread", "await")
        /\ active' = FALSE
        /\ pc' = IF pc = "asleep" THEN "top" ELSE pc
     \/ /\ ~active
        /\ UnloadGoto("stopthread", "free")
        /\ UNCHANGED <<active, pc>>
  /\ UNCHANGED <<now, last_input, envVars, level, drop, cbset, freed,
                 tmo, li, elapsed, val, wake_at, lag, lsVars>>

\* rw_destroy, mtx_destroy, free
UnloadFree ==
  /\ UnloadGoto("free", "done")
  /\ freed' = TRUE
  /\ UNCHANGED <<now, last_input, envVars, level, active, drop, cbset, thVars,
                 lsVars>>

UnloadNext == UnloadSetDrop \/ UnloadStopThread \/ UnloadFree

-----------------------------------------------------------------------------
(* The machine                                                             *)

\* The callout thread could take a step at once.
ThreadRunnable ==
  \/ pc \notin {"none", "asleep", "exited"}
     /\ ~(PowerBlocked /\ pc \in {"timeout", "brightness"})
  \/ pc = "asleep" /\ now >= wake_at

\* A second passes.  A runnable callout thread is delayed by at most MaxLag
\* seconds per iteration, and an input raises the level within MaxLag.
Tick ==
  /\ now < MaxTime
  /\ ThreadRunnable => lag < MaxLag
  /\ \A l \in Listeners : lpc[l] \in {"intr", "raise"} =>
                            now < last_input + MaxLag
  /\ now' = now + 1
  /\ lag' = IF ThreadRunnable THEN lag + 1 ELSE lag
  /\ UNCHANGED <<last_input, envVars, coVars, pc, tmo, li, elapsed, val,
                 wake_at, lsVars, upc>>

PowerChange ==
  /\ power' \in Batteries \ {power}
  /\ UNCHANGED <<now, last_input, pwrowner, timeout, high, hw, coVars, thVars,
                 lsVars, upc>>

\* hw.framework.screen.{battery,power}.timeout_secs: any value is accepted
\* (the handler is instantiated with max_value 0) and nothing is woken.
SysctlTimeout(m, v) ==
  /\ timeout' = [timeout EXCEPT ![m] = v]
  /\ UNCHANGED <<now, last_input, power, pwrowner, high, hw, coVars, thVars,
                 lsVars, upc>>

\* hw.framework.powermode is read: framework_sysctl_power_source
SysctlPowermode ==
  /\ PowerQuery("sysctl")
  /\ UNCHANGED <<now, last_input, power, timeout, high, hw, coVars, thVars,
                 lsVars, upc>>

Next ==
  \/ ThreadNext
  \/ \E l \in Listeners : OnInput(l) \/ IntrNext(l)
  \/ UnloadClearCallback \/ UnloadNext
  \/ Tick
  \/ PowerChange
  \/ \E m \in Modes, v \in Timeouts : SysctlTimeout(m, v)
  \/ SysctlPowermode

Spec == Init /\ [][Next]_vars

\* The scheduler runs every runnable thread, and time diverges whatever the
\* others do at one instant (strong fairness: a handler that is about to raise
\* the level disables Tick for a moment).  Input, changes of the machine and
\* the decision to unload may never come.
Fairness ==
  /\ WF_vars(ThreadNext)
  /\ \A l \in Listeners : WF_vars(IntrNext(l))
  /\ WF_vars(UnloadNext)
  /\ SF_vars(Tick)

FairSpec == Spec /\ Fairness

-----------------------------------------------------------------------------
(* Properties                                                              *)

\* framework_callout_destroy frees co only when the callout thread has done
\* its last access to it: what is left of the thread is wakeup on the address
\* and kthread_exit.  It relies on the wait in destroy and on the thread's
\* own withdrawal clearing co->active under the lock.
ThreadOutlivesNoCallout == freed => pc \in {"stop", "exited"}

\* While framework_callout_destroy sleeps without a timeout on co there is a
\* thread left that will wake it: the thread is not past its wakeup, and if it
\* missed the one of destroy, between the test of co->active and its msleep, it
\* has an alarm no further away than one timeout.  (A kthread_add that failed
\* at load leaves nobody.)
DestroyIsWoken ==
  upc = "await" /\ pc # "none" =>
    /\ pc # "exited"
    /\ pc = "asleep" => wake_at <= now + tmo

\* A bright screen never outlasts its deadline: whenever the thread sleeps
\* with the level HIGH, at most the timeout it read has passed since the last
\* input, give or take the scheduling delays (three of them: the input's, the
\* iteration's and the alarm's).  With MaxLag = 0 the deadline is exact.
DimmedOnTime ==
  pc = "asleep" /\ level = "HIGH" => now <= last_input + tmo + 3 * MaxLag

\* Unloading ends: no interleaving of the sleeps and wakeups on co leaves
\* framework_callout_destroy and the callout thread both asleep.  Two failures
\* before it are excepted, after which it does wait for ever: a kthread_add
\* that failed at load, and a thread that is stuck in its query of the power
\* mode because another one left framework_power.lock held.
UnloadCompletes ==
  upc = "setdrop" /\ pc # "none" ~>
    (upc = "done" \/ (PowerBlocked /\ pc \in {"timeout", "brightness"}))

\* No interrupt handler is about to use co once it is freed.
\* framework_callout.c:164 "no longer accept any further input signals"
NoInputAfterFree ==
  freed => \A l \in Listeners : lpc[l] \notin {"raise", "brightness", "key"}

\* With every thread at rest, an input of this very second has left the panel
\* at the high level.  man/framework.4:54 "Upon user input, it immediately
\* increases screen brightness back to previous levels."
InputBrightens ==
  /\ pc = "asleep" /\ cbset /\ upc = "loaded"
  /\ \A l \in Listeners : lpc[l] = "idle"
  /\ last_input = now
  => hw = high[power]
=============================================================================
