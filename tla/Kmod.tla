-------------------------------- MODULE Kmod --------------------------------
(***************************************************************************)
(* framework.c: loading and unloading the module, composed with everything *)
(* that runs in between.                                                   *)
(*                                                                         *)
(* Processes                                                               *)
(*  - the loader: framework_init, its undo, framework_destroy, and the     *)
(*    kernel that calls them through framework_modevent;                   *)
(*  - the listeners of Evdev, here with framework_callout_inputintr;       *)
(*  - the dimming thread, as Callout has it in detail: here one step per   *)
(*    iteration, which uses everything an iteration uses;                  *)
(*  - processes in a sysctl handler.                                       *)
(* What matters is which component a step uses and which are destroyed     *)
(* when; levels, timeouts and modes are in the components' own modules.    *)
(***************************************************************************)
EXTENDS Evdev

CONSTANTS
  Handlers,     \* processes that read and write sysctls
  MayFail,      \* components whose init may return an error
  BatteryKnown  \* whether the driver knows the battery state ACPI returns

Components == {"state", "screen", "pwr", "keyhandler", "bl", "sysctl", "evdev",
               "callout"}

\* Of the init functions only these two have a path that returns an error or
\* NULL: the others allocate with M_WAITOK and return 0.
ASSUME KmodAssumption ==
  /\ MayFail \subseteq {"pwr", "bl"}
  /\ BatteryKnown \subseteq BOOLEAN
  /\ Device \intersect Handlers = {}
  /\ {"nobody", "loader", "thread"} \intersect (Device \union Handlers) = {}

VARIABLES
  comp,      \* per component: "raw", "part": init failed half way, "up", "down",
             \* "bad": destroyed without being up
  status,    \* framework_data.status
  phase,     \* the loader: what framework_modevent is doing
  todo,      \* the init or destroy calls that are left
  drop,      \* framework_callout_drop
  coactive,  \* co->active
  copc,      \* the loader in framework_callout_destroy
  cpc,       \* the dimming thread
  tree,      \* the sysctl tree exists
  handling,  \* the processes in a handler
  asking,    \* those in the handler of powermode that have not asked yet
  pwrowner,  \* who returned with framework_power.lock held, or "nobody"
  due        \* history, per device: a key is due at the key handler

loaderVars  == <<comp, status, phase, todo, copc>>
calloutVars == <<drop, coactive, cpc>>
sysctlVars  == <<tree, handling, asking>>
vars        == <<evdevVars, loaderVars, calloutVars, sysctlVars, pwrowner,
                 due>>

\* the calls of framework_init
InitOrder    == <<"state", "screen", "pwr", "keyhandler", "bl", "sysctl",
                  "evdev", "callout">>

KeyhandlerFirst == <<"callout", "keyhandler", "evdev", "sysctl", "bl", "pwr",
                     "screen", "state">>

\* the calls of framework_destroy
DestroyOrder == <<"callout", "evdev", "sysctl", "bl", "keyhandler", "pwr",
                  "screen", "state">>

\* the calls switch (undo) falls through, and framework_state_destroy
UndoCases    == <<"evdev", "sysctl", "bl", "keyhandler", "pwr", "screen">>
UndoMissesOne(undo) == SubSeq(UndoCases, 8 - undo, 6) \o <<"state">>
UndoCalls(undo) == SubSeq(UndoCases, 7 - undo, 6) \o <<"state">>

Init ==
  /\ EvdevInit
  /\ comp = [c \in Components |-> "raw"]
  /\ status = 0 /\ phase = "init" /\ todo = InitOrder
  /\ drop = TRUE /\ coactive = FALSE /\ copc = "out" /\ cpc = "none"
  /\ tree = FALSE /\ handling = {} /\ asking = {} /\ pwrowner = "nobody"
  /\ due = [d \in Device |-> FALSE]

\* framework_pwr_getpowermode, whose query returns with the lock held when the
\* driver does not know the battery state.  Power has its sections one by one.
PowerQuery(self) ==
  /\ pwrowner \in {"nobody", self}
  /\ \E known \in BatteryKnown : pwrowner' = IF known THEN pwrowner ELSE self

-----------------------------------------------------------------------------
(* framework_init                                                          *)

Initialising(c) == phase = "init" /\ todo # <<>> /\ Head(todo) = c

\* state, screen, power, key handler and backlight: no thread of the module's
\* runs yet.  In a power init that fails the lock is initialised already, and is
\* left held if it was the query that failed.
InitComponent == \E c \in {"state", "screen", "pwr", "keyhandler", "bl"} :
  /\ Initialising(c)
  /\ \/ /\ comp' = [comp EXCEPT ![c] = "up"]
        /\ todo' = Tail(todo)
        /\ UNCHANGED <<phase, status, pwrowner>>
     \/ /\ c \in MayFail
        /\ \/ UNCHANGED pwrowner
           \/ c = "pwr" /\ PowerQuery("loader")
        /\ comp' = IF c = "pwr" THEN [comp EXCEPT ![c] = "part"] ELSE comp
        /\ todo' = UndoCalls(Len(InitOrder) - Len(todo) - 1)
        /\ phase' = "undo" /\ status' = 2
  /\ UNCHANGED <<copc, evdevVars, calloutVars, sysctlVars, due>>

\* framework_sysctl_init
InitSysctl ==
  /\ Initialising("sysctl")
  /\ comp' = [comp EXCEPT !["sysctl"] = "up"] /\ tree' = TRUE
  /\ todo' = Tail(todo)
  /\ UNCHANGED <<status, phase, copc, evdevVars, calloutVars, handling, asking,
                 pwrowner, due>>

\* framework_evdev_init, step by step
InitEvdev ==
  /\ Initialising("evdev")
  /\ \/ ConnectorInit \/ MatchDevice \/ RegisterDevice \/ ScanDone
  /\ IF epc' = "up"
     THEN comp' = [comp EXCEPT !["evdev"] = "up"] /\ todo' = Tail(todo)
     ELSE UNCHANGED <<comp, todo>>
  /\ UNCHANGED <<status, phase, copc, calloutVars, sysctlVars, pwrowner, due>>

\* framework_callout_init: getbrightnessfor, the thread created, and status = 1
InitCallout ==
  /\ Initialising("callout")
  /\ PowerQuery("loader")
  /\ comp' = [comp EXCEPT !["callout"] = "up"]
  /\ coactive' = TRUE /\ cpc' = "start"
  /\ todo' = <<>> /\ phase' = "loaded" /\ status' = 1
  /\ UNCHANGED <<copc, evdevVars, drop, sysctlVars, due>>

-----------------------------------------------------------------------------
(* framework_destroy and the undo of framework_init                        *)

\* MOD_UNLOAD: from the administrator, or from the kernel after a MOD_LOAD
\* that returned an error.
Unload ==
  /\ \/ phase = "loaded"
     \/ phase = "undo" /\ todo = <<>>
  /\ phase' = "unload"
  /\ todo' = IF status = 1 THEN DestroyOrder ELSE <<>>
  /\ UNCHANGED <<comp, status, copc, evdevVars, calloutVars, sysctlVars,
                 pwrowner, due>>

Destroying(c) == phase \in {"undo", "unload"} /\ todo # <<>> /\ Head(todo) = c

Destroyed(c) ==
  /\ comp' = [comp EXCEPT ![c] = IF @ = "up" THEN "down" ELSE "bad"]
  /\ todo' = Tail(todo)

\* backlight, key handler, power, screen and state
DestroyComponent == \E c \in {"state", "screen", "pwr", "keyhandler", "bl"} :
  /\ Destroying(c)
  /\ Destroyed(c)
  /\ UNCHANGED <<status, phase, copc, evdevVars, calloutVars, sysctlVars,
                 pwrowner, due>>

\* framework_sysctl_destroy: sysctl_ctx_free removes the tree and waits for the
\* handlers to return, then mtx_destroy
RemoveTree ==
  /\ Destroying("sysctl") /\ tree
  /\ tree' = FALSE
  /\ UNCHANGED <<loaderVars, evdevVars, calloutVars, handling, asking,
                 pwrowner, due>>

DestroySysctl ==
  /\ Destroying("sysctl") /\ ~tree /\ handling = {}
  /\ Destroyed("sysctl")
  /\ UNCHANGED <<status, phase, copc, evdevVars, calloutVars, sysctlVars,
                 pwrowner, due>>

\* framework_evdev_destroy, step by step
DestroyEvdev ==
  /\ Destroying("evdev")
  /\ DestroyBegin \/ ConnectorDestroy
  /\ IF epc' = "down" THEN Destroyed("evdev") ELSE UNCHANGED <<comp, todo>>
  /\ UNCHANGED <<status, phase, copc, calloutVars, sysctlVars, pwrowner, due>>

\* framework_callout_destroy: clear the callback, then the flag
DestroyCalloutCallback ==
  /\ Destroying("callout") /\ copc = "out" /\ copc' = "drop"
  /\ cbfunc' = FALSE
  /\ UNCHANGED <<comp, status, phase, todo, bindings, evactive, evlock, clientVars,
                 gate, key, pc, epc, next, calloutVars, sysctlVars,
                 pwrowner, due>>

DestroyCalloutDrop ==
  /\ Destroying("callout") /\ copc = "drop" /\ copc' = "stop"
  /\ drop' = TRUE
  /\ UNCHANGED <<comp, status, phase, todo, evdevVars, coactive, cpc, sysctlVars,
                 pwrowner, due>>

StopAlwaysWaits ==
  /\ Destroying("callout") /\ copc = "stop" /\ copc' = "await"
  /\ coactive' = FALSE
  /\ UNCHANGED <<comp, status, phase, todo, evdevVars, drop, cpc, sysctlVars,
                 pwrowner, due>>

\* under co->lock: an active thread is woken and waited for
DestroyCalloutStop ==
  /\ Destroying("callout") /\ copc = "stop"
  /\ copc' = IF coactive THEN "await" ELSE "free"
  /\ coactive' = FALSE
  /\ UNCHANGED <<comp, status, phase, todo, evdevVars, drop, cpc, sysctlVars,
                 pwrowner, due>>

DestroyCalloutFree ==
  /\ Destroying("callout") /\ copc = "free" /\ copc' = "done"
  /\ Destroyed("callout")
  /\ UNCHANGED <<status, phase, evdevVars, calloutVars, sysctlVars,
                 pwrowner, due>>

InitNext ==
  \/ InitComponent \/ InitSysctl \/ InitEvdev \/ InitCallout

DestroyNext ==
  \/ DestroyComponent \/ RemoveTree \/ DestroySysctl \/ DestroyEvdev
  \/ DestroyCalloutCallback \/ DestroyCalloutDrop \/ DestroyCalloutStop
  \/ DestroyCalloutFree

-----------------------------------------------------------------------------
(* The dimming thread                                                      *)

CalloutGoto(from, to) == cpc = from /\ cpc' = to

\* framework_evdev_setintrfunc
ThreadStart ==
  /\ CalloutGoto("start", "undrop")
  /\ evlock = "up" /\ cbfunc' = TRUE
  /\ UNCHANGED <<bindings, evactive, evlock, clientVars, gate, key, pc, epc, next,
                 loaderVars, drop, coactive, sysctlVars, pwrowner, due>>

\* framework_callout_drop = 0
ThreadUndrop ==
  /\ CalloutGoto("undrop", "top")
  /\ drop' = FALSE
  /\ UNCHANGED <<evdevVars, loaderVars, coactive, sysctlVars, pwrowner, due>>

\* while (co->active), at the start, after a wakeup or after the timeout of the
\* sleep, which ends every sleep
ThreadTop ==
  /\ CalloutGoto("top", IF coactive THEN "iterate" ELSE "end")
  /\ UNCHANGED <<evdevVars, loaderVars, drop, coactive, sysctlVars,
                 pwrowner, due>>

\* an iteration, up to the sleep, or to the break of a thread that gets a timeout
\* of 0: it is set to that, or the query failed and the lock is the thread's
ThreadIterate ==
  /\ PowerQuery("thread")
  /\ \/ CalloutGoto("iterate", "top") /\ UNCHANGED coactive
     \/ CalloutGoto("iterate", "end") /\ coactive' = FALSE
  /\ UNCHANGED <<evdevVars, loaderVars, drop, sysctlVars, due>>

\* wakeup(co)
ThreadEnd ==
  /\ CalloutGoto("end", "exited")
  /\ copc' = IF copc = "await" THEN "free" ELSE copc
  /\ UNCHANGED <<comp, status, phase, todo, evdevVars, drop, coactive, sysctlVars,
                 pwrowner, due>>

CalloutNext ==
  \/ ThreadStart \/ ThreadUndrop \/ ThreadTop \/ ThreadIterate \/ ThreadEnd

-----------------------------------------------------------------------------
(* The listeners inside framework_callout_inputintr, and the devices       *)

IntrGoto(d, from, to) ==
  pc[d] = from /\ pc' = [pc EXCEPT ![d] = to] /\ UNCHANGED key

\* the look at framework_callout_drop
IntrDrop(d) ==
  /\ \/ drop /\ CallbackReturns(d, "intr")
     \/ ~drop /\ IntrGoto(d, "intr", "level") /\ UNCHANGED gate
  /\ UNCHANGED <<edataVars, clientVars, epc, next, loaderVars, calloutVars,
                 sysctlVars, pwrowner, due>>

\* getbrightnessfor, which asks for the power mode
IntrLevel(d) ==
  /\ IntrGoto(d, "level", IF key[d] THEN "key" ELSE "panel")
  /\ PowerQuery(d)
  /\ UNCHANGED <<edataVars, clientVars, gate, epc, next, loaderVars, calloutVars,
                 sysctlVars, due>>

\* framework_keyhandler_handlekey, which asks for it again
IntrKey(d) ==
  /\ IntrGoto(d, "key", "panel")
  /\ PowerQuery(d)
  /\ due' = [due EXCEPT ![d] = FALSE]
  /\ UNCHANGED <<edataVars, clientVars, gate, epc, next, loaderVars, calloutVars,
                 sysctlVars>>

\* framework_bl_setbrightness
IntrPanel(d) ==
  /\ CallbackReturns(d, "panel")
  /\ UNCHANGED <<edataVars, clientVars, gate, epc, next, loaderVars, calloutVars,
                 sysctlVars, pwrowner, due>>

ListenerStep(d) ==
  \/ ListenerNext(d) /\ UNCHANGED <<loaderVars, calloutVars, sysctlVars,
                                           pwrowner, due>>
  \/ IntrDrop(d) \/ IntrLevel(d) \/ IntrKey(d) \/ IntrPanel(d)

\* A key that finds its listener asleep in a module that takes input is due at
\* the key handler, unless the buffer overflows before the listener reads it.
Report(d, kind) ==
  /\ Push(d, kind)
  /\ due' = [due EXCEPT ![d] =
               \/ @ /\ (pc[d] = "woken" => Len(buffer[d]) < MaxReports[d])
               \/ kind = "key" /\ pc[d] = "asleep" /\ buffer[d] = <<>>
                  /\ cbfunc /\ ~drop /\ phase = "loaded"]
  /\ UNCHANGED <<loaderVars, calloutVars, sysctlVars, pwrowner>>

-----------------------------------------------------------------------------
(* The sysctl handlers                                                     *)

HandlerCall(h) ==
  /\ tree /\ h \notin handling
  /\ handling' = handling \union {h}
  /\ \E asks \in SUBSET {h} : asking' = asking \union asks
  /\ UNCHANGED <<evdevVars, loaderVars, calloutVars, tree, pwrowner, due>>

\* framework_sysctl_power_source gets the power mode
HandlerAsks(h) ==
  /\ h \in asking
  /\ PowerQuery(h)
  /\ asking' = asking \ {h}
  /\ UNCHANGED <<evdevVars, loaderVars, calloutVars, tree, handling, due>>

HandlerReturn(h) ==
  /\ h \in handling \ asking
  /\ handling' = handling \ {h}
  /\ UNCHANGED <<evdevVars, loaderVars, calloutVars, tree, asking, pwrowner, due>>

HandlerStep(h) == HandlerAsks(h) \/ HandlerReturn(h)

-----------------------------------------------------------------------------

MonitoredDevices == {Nodes[i].dev : i \in {j \in DOMAIN Nodes : Monitored(Nodes[j])}}

Next ==
  \/ InitNext \/ Unload \/ DestroyNext
  \/ CalloutNext
  \/ \E d \in MonitoredDevices : ListenerStep(d)
  \/ \E d \in MonitoredDevices : \E kind \in {"other"} \union
                                   {k \in {"key"} : d \in Keyboards} : Report(d, kind)
  \/ \E h \in Handlers : HandlerCall(h) \/ HandlerStep(h)

Spec == Init /\ [][Next]_vars

\* The kernel schedules the loader, every thread and every handler it has
\* started.  Input, sysctls and the unload may never come.
loader == <<todo, copc, tree, epc, next>>

Fairness ==
  /\ WF_loader(InitNext \/ DestroyNext)
  /\ WF_cpc(CalloutNext)
  /\ \A d \in MonitoredDevices : WF_pc(ListenerStep(d))
  /\ \A h \in Handlers : WF_sysctlVars(HandlerStep(h))

FairSpec == Spec /\ Fairness

-----------------------------------------------------------------------------
(* Properties                                                              *)

TypeOK ==
  /\ EvdevTypeOK
  /\ comp \in [Components -> {"raw", "part", "up", "down", "bad"}]
  /\ status \in 0..2 /\ phase \in {"init", "undo", "loaded", "unload"}
  /\ todo \in Seq(Components)
  /\ drop \in BOOLEAN /\ coactive \in BOOLEAN
  /\ copc \in {"out", "drop", "stop", "await", "free", "done"}
  /\ cpc \in {"none", "start", "undrop", "top", "iterate", "end", "exited"}
  /\ tree \in BOOLEAN /\ handling \subseteq Handlers /\ asking \subseteq handling
  /\ pwrowner \in {"nobody", "loader", "thread"} \union Device \union Handlers
  /\ due \in [Device -> BOOLEAN]

\* What the next step of a thread uses.
ListenerUses(place) ==
  CASE place = "lock"  -> {"evdev"}
    [] place = "level" -> {"pwr", "screen"}
    [] place = "key"   -> {"keyhandler", "pwr", "screen"}
    [] place = "panel" -> {"bl"}
    [] OTHER           -> {}

CalloutUses(place) ==
  CASE place = "start"               -> {"evdev"}
    [] place = "top"                 -> {"callout"}
    [] place = "iterate"             -> {"callout", "evdev", "pwr", "screen", "bl"}
    [] OTHER                         -> {}

\* The handlers of debug, dimblock, brightness_current, powermode and of the
\* levels and timeouts, in this order.
HandlerUses == {"sysctl", "state", "bl", "pwr", "screen"}

InUse == UNION ({ListenerUses(pc[d]) : d \in Device} \union {CalloutUses(cpc)}
                  \union {HandlerUses : h \in handling})

\* No component is used before it is initialised or after it is destroyed, by
\* listeners in their callback, the dimming thread or sysctl handlers, whenever
\* the module is loaded and unloaded.  (That a listener may use co after free is
\* the finding of Callout.)
UsedAreUp == \A c \in InUse : comp[c] = "up" \/ (c = "evdev" /\ evlock = "up")

\* framework_init that fails destroys what it had initialised, and nothing but
\* that; framework_destroy destroys everything, once, and nothing after a failed
\* load.  (The lock of a power init that failed is left behind.)
AllDestroyed ==
  /\ \A c \in Components : comp[c] # "bad"
  /\ phase = "unload" /\ todo = <<>> => \A c \in Components : comp[c] # "up"

\* Who is about to ask for the power mode, and who would wait for ever because
\* another one left framework_power.lock held.
AtQuery ==
  {t \in {"loader"} : Initialising("callout")} \union
  {t \in {"thread"} : cpc = "iterate"} \union
  {d \in Device : pc[d] \in {"level", "key"}} \union
  asking

Blocked == {t \in AtQuery : pwrowner \notin {"nobody", t}}

\* Whose next step the loader waits for: its own query, the dimming thread in
\* framework_callout_destroy, the listener in framework_evthread_destroy, the
\* handlers in sysctl_ctx_free.
WaitedFor ==
  {t \in {"loader"} : Initialising("callout")} \union
  {t \in {"thread"} : copc = "await"} \union
  {d \in Device : epc = "wait" /\ Unbound(d)} \union
  {h \in handling : Destroying("sysctl") /\ ~tree}

\* Every load, undo and unload returns: no listener, handler or dimming thread
\* makes the loader wait for ever, but for one thing.  A battery state the driver
\* does not know leaves framework_power.lock held (the finding of Power): the
\* loader hangs if it needs that lock or waits for someone who does.
LoaderReturns == []<>(todo = <<>> \/ WaitedFor \intersect Blocked # {})

\* A key that finds the listener of its keyboard asleep reaches the key handler,
\* whatever is reported behind it, or the module is unloaded, or the listener is
\* stuck behind a framework_power.lock that was left held.
KeysAreHandled ==
  \A d \in Keyboards : due[d] ~> (~due[d] \/ phase = "unload" \/ d \in Blocked)
=============================================================================
