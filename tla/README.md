# framework-kmod: TLA+ models and proofs

framework-kmod is a FreeBSD kernel module for Framework laptops. It watches the
input devices, dims the backlight after a time without input, brightens it
again on input, and changes the brightness levels on the brightness keys. Two
user programs come with it (`dbus/`, `xss/`). This directory holds TLA+ models
of its components, TLC configurations that check them on small instances, and
TLAPS proofs of the properties that matter most.

To check: `tlc -config <run>.cfg <module>.tla` for each run of `PROJECT.json`,
`tlapm M.tla` for each of the eight modules `CalloutProofs`, `EvdevThreadProofs`,
`KmodProofs`, `ScreenProofs`, `BacklightProofs`, `PowerProofs`, `DimBlockProofs` and `DbusProofs`.

## 1. Inventory

Paths are below `src/`. "Hard" names what a test would hardly reach.

| component | state | operations | talks to |
|---|---|---|---|
| callout (`kmod/framework_callout.c`) | `active`, `current_level`, the global `framework_callout_drop` | init, the dimming thread, the input interrupt, destroy | evdev (registers the interrupt, reads the last input), power, screen, backlight, key handler |
| evdev connector (`kmod/framework_evdev.c`) | list of bindings, `last_input`, `cbfunc` | init (match devices), oninput, setintrfunc, getlastinput, destroy | listeners, callout |
| evdev listener (`kmod/framework_evdev_thread.c`) | `flags`, `active`, `cbfunc`, the evdev client's buffer and `ec_blocked` | init, registerclient, the thread, unregisterclient, destroy | kernel's evdev, evdev connector |
| power source (`kmod/framework_power.c`) | `power_state`, a lock, a battery structure | init, getpowermode | ACPI battery |
| screen configuration (`kmod/framework_screen.c`) | per power mode: low and high level, timeout | init, changebrightness, getters, setters | key handler, sysctl, callout |
| key handler (`kmod/framework_keyhandler.c`) | table of keys | init, handlekey, destroy | screen, power |
| backlight (`kmod/framework_backlight.c`) | one shared `props` structure, no lock | init, getbrightness, setbrightness | kernel's backlight |
| driver state (`kmod/framework_state.c`) | counter of dim blockers | inc, dec, get | sysctl |
| sysctl tree (`kmod/framework_sysctl.c`) | the tree | one handler per variable | screen, state, power, backlight |
| utilities (`kmod/framework_utils.c`) | none | device lookup, screen configuration of the current mode | power |
| load and unload (`kmod/framework.c`) | `status`, the undo count | init, destroy | everything, and the kernel that calls it |
| dbus bridge (`dbus/framework_debus.c`) | list of players, the parsed message, `active` | a message loop; prints starts and stops | session bus, signals; whoever reads its output |
| screen saver bridge (`xss/framework_xss.c`) | running flag | a loop that queries and prints | none |

Threads in the kernel: one dimming thread, one listener per matched input
device, processes in sysctl handlers, and the thread that loads and unloads.

What is hard, and what makes each component correct:

* **callout**: the thread releases its lock around every call it makes, so that
  the last input, the level and the panel can change between its look and its
  act; destroy and the thread sleep and wake on one channel; interrupt handlers
  are not counted when the structure is freed. Correct means: a screen without
  input is dimmed at its deadline, an input brightens it, nothing uses the
  structure after it is freed, and unloading ends.
* **listener**: reports, the listener and destroy use one sleep channel, and
  evdev signals only a client that is marked blocked. Correct means: a sleeping
  listener can be woken, destroy returns, and frees only when the listener is
  through.
* **screen**: each read and each write of a level is a critical section of its
  own and the arithmetic is unsigned. Correct means: keys and writes take effect
  as if atomic, and levels stay on the scale.
* **backlight**: no lock on the shared structure, calls can fail. Correct means:
  the panel shows what somebody asked for.
* **power**: samples are taken outside the lock and one path returns with it
  held. Correct means: queries return, with an answer that is not older than
  the queries that overlap.
* **driver state**: the sysctl handler decides on a copy of the counter.
  Correct means: the counter never exceeds the players that block, so that
  dimming is not blocked for ever.
* **load and unload**: the undo falls through a switch from the middle, the kernel
  unloads a module whose load failed, and the components are destroyed while the
  dimming thread, listeners and sysctl handlers run. Correct means: nothing is used
  before it is initialised or after it is destroyed, everything initialised is destroyed
  once, and load and unload return.
* **evdev connector**: its lock is released around the destruction of each listener
  while listeners are in `oninput`, which looks at `active` before it takes
  that lock; the client's buffer is small and cleared as a whole. Correct means: no
  listener takes a destroyed lock, and a key that wakes its listener is handled.
* **dbus bridge**: one structure is parsed into for all messages, and all
  players share an entry. Correct means: a name is taken for playing as its last
  status says, starts and stops match, and a signal ends the program.

## 2. Modules

| module | models | in |
|---|---|---|
| `ScreenConfig` | the levels' data and the two halves of `framework_screen_config_changebrightness` | extended by `Callout`, `Screen` |
| `Callout` | the dimming thread, the interrupt in every listener, destroy, the clock | `MCCallout`, `CalloutProofs` |
| `EvdevThread` | one listener, its client, registration and destroy | `EvdevThreadProofs` |
| `Listener` | abstract: what the connector relies on of a listener | implemented by `EvdevThread`, instantiated by `Evdev` |
| `Evdev` | the connector: device matching, the bindings, buffers with contents, `oninput`, destroy | extended by `Kmod` |
| `Kmod` | load, its undo, unload, composed with `Evdev`, the dimming thread and sysctl handlers | `MCKmod`, `KmodProofs` |
| `BrightnessStore` | abstract: what keys and sysctl writes do to the levels, atomically | `Screen` |
| `Screen` | the levels under key threads and sysctl writers | `MCScreen`, `ScreenProofs` |
| `Backlight` | the shared structure under callers and readers | `BacklightProofs` |
| `Power` | queries of the power mode | `PowerProofs` |
| `DimBlock` | the counter of dim blockers and its sysctl handler | `DimBlockProofs` |
| `Dbus` | the main loop of the dbus bridge, the bus, signals | `MCDbus`, `DbusProofs` |

Every action is one critical section, or one call that can be interleaved; the
program counters (`pc`, `lpc`, `upc`, `kpc`, ...) name the place in the C
function. A lock that is never held across an interleaving point needs no
variable. Variables carry the names of the C fields; those marked "history"
are not in the code and only record what a property speaks about. The `map` of
`PROJECT.json` gives the lines behind each definition. Operators placed before a
definition with a name of their own (`UnloadNoWait`, `ExitSilently`,
`KeyStoresLocal`, ...) are faulty variants of it, each of which breaks the property
it is listed with under `mutants`; no specification uses them.

### Callout

Composes the dimming thread with the listeners that call
`framework_evdev_oninput` and `framework_callout_inputintr`, with
`framework_callout_destroy`, and with a clock. `ThreadTop` ... `ThreadStop` are
one iteration of `framework_callout_thread`; `pc = "stop"` is the code after the
last unlock. `IntrRaise` and the later handler steps need `~freed`: a handler
that would use the freed structure stays where it is, and `NoInputAfterFree`
says that no handler ever gets there. A power query is one step here (its own
interleavings are in `Power`); that it may leave its lock held is `pwrowner`: the thread's,
a listener's, that of a reader of `powermode` (`SysctlPowermode`), or the loader's, whose query
in `framework_callout_init` belongs to `Init`.
The mode and the level that `framework_callout_getbrightnessfor` reads are read in
one step. Time: `Tick` is one second of `time_uptime`; a runnable dimming thread is
delayed by at most `MaxLag` seconds per iteration and an input needs at most
`MaxLag` seconds to raise the level. At `MaxTime` the clock stops, and an armed
alarm counts as expired, so that the bound itself puts no thread to sleep for ever.

### EvdevThread

`framework_evdev_matchdevs` and `framework_evdev_destroy` determine the order of the loader's
steps. The client's buffer is a count of reports. `Report` is the kernel's
`evdev_client_push` with `evdev_notify_event`, modelled from what the code relies
on: it wakes the channel only when the client is blocked, and clears the mark; a full buffer is
emptied for the new report, which is signalled as any other.
`waited` is history: destroy slept for the listener. `KeepsPromise` is the refinement of
`Listener`: `Gate` tells from the place of the loader whether a callback is set,
withdrawn, or destroy has gone past its wait, and the listener is `busy` in its
callback.

### Listener, Evdev and Kmod

`Kmod` is what runs in the kernel as a whole, with each part reduced to what it uses and
waits for. It extends `Evdev`, which has a listener per monitored device: in place of the
sleeps and flags of `EvdevThread`, its loader and its listeners make the steps of
`Listener` (`Contract(d)`), so that what `Kmod` shows holds of any listener that keeps the
promise `EvdevThread` is checked to keep. The buffers hold the kinds of events here: a
wakeup reads the first and clears all, and a cleared event can be read again when the
buffer is empty. `Push` is the kernel's evdev as the code relies on it, with a bounded
buffer. The pair of constants `Begins` and `Inside` stands for the string comparisons of
`framework_evdev_matchname`.

`comp` is the state of each component; `todo` are the calls of `framework_init`, of its undo or of
`framework_destroy` that are left, the first in progress; `epc` and `copc` are the places in
`framework_evdev_init`, `framework_evdev_destroy` and `framework_callout_destroy`. `Unload` is
`MOD_UNLOAD`, which the kernel also sends after a load that failed. An iteration of the dimming
thread is one step (`Callout` has it in detail); removing the sysctl tree waits for the handlers in
it. `ListenerUses`, `CalloutUses` and `HandlerUses` list the components that the next step of each
thread needs, `UsedAreUp` compares them with `comp`. `due` is history: a key that
found its listener asleep and has not reached the key handler.

A query of the power mode is `PowerQuery`, as in `Callout`: it needs `framework_power.lock`, and with a
battery state the driver does not know (`BatteryKnown`) it leaves that lock held. `pwrowner` is who holds it.
The loader queries in `framework_pwr_init` and `framework_callout_init`, the dimming thread in each iteration,
a listener twice (`IntrLevel`, `IntrKey`), and a handler of `powermode` (`asking`, `HandlerAsks`)
once before it returns. `AtQuery`, `Blocked` and `WaitedFor` are who is about to query, who of
these would wait for ever, and whom the loader waits for.

### Dbus

One iteration of the loop is `Test`, `Pop` (zero, pop and parse) or `Sleep`, and one of
`ChooseNone`, `SignalStart`, `SignalStop` and `PlayerFails`. A message carries the properties in the
order of the dictionary; a string value of any property ends up in `playback_status`, the
last wins. The list of players is searched from its head and one entry is removed, as `LIST_FOREACH`
and `LIST_REMOVE` do; that a name is on it only once is shown (`TypeOK`), not assumed. `wants` is history and follows the meaning of the messages, not the parse; `balance` counts
the starts without a stop that were printed.

### Screen and BrightnessStore

`KeyRead` and `KeyApply` are the two sections of `changebrightness`: the decision is
taken on the value read, and the assignment adds to the value found. `KeysAreAtomic`
is the refinement of `BrightnessStore`: each key step is a `Press` of the abstract
specification and each sysctl step a `Store` or a stutter. A key that was
overtaken within one increment of an end of the scale is excepted
(see Disagreements).

### Backlight, Power, DimBlock

`Backlight` splits `framework_bl_setbrightness` into its query, its comparison, its
assignment to the shared structure, the update and the cache; `mishaps` records
which disturbances have happened, because two of its properties hold only
without some of them. `Power` splits a query into the unlocked sample and its two
sections. `recent` is history. `DimBlock` has the read and the change of the
sysctl handler as two steps.

## 3. Runs

| run | properties | what it shows |
|---|---|---|
| `callout_dimming` | `TypeOK`, `DimmedOnTime` | a bright screen is dimmed within the timeout the thread read plus three scheduling delays, under input, keys, delays and a changed timeout |
| `callout_unload` | `ThreadOutlivesNoCallout`, `DestroyIsWoken`, `UnloadCompletes` | the structure outlives the thread's accesses; a destroy that sleeps has a thread left to wake it; unload ends in every interleaving of the sleeps and wakeups, unless `kthread_add` had failed, or the thread is at a query while a listener, the loader or a reader of `powermode` holds the power lock |
| `evthread_destroy` | `TypeOK`, `WaitedForThread`, `SleeperIsBlocked`, `DestroyIsWoken`, `DestroyReturns`, `KeepsPromise` | a destroy that slept for its listener frees after it, and one that sleeps is going to be woken; a sleeping listener can be woken; destroy returns; the listener implements `Listener` |
| `kmod` | `TypeOK`, `UsedAreUp`, `AllDestroyed`, `LoaderReturns`, `KeysAreHandled` | load with every way to fail, and unload, under input of two devices, the dimming thread and sysctl handlers; a power lock that was left held hangs those who need it and the loader that waits for them, and nothing else |
| `dbus` | `TypeOK`, `FollowsLastStatus`, `StartsMatchStops`, `EndsOnSignal` | the bridge under all sequences of messages of two interfaces, a `malloc` that fails, and a signal at any moment |
| `screen_keys` | `TypeOK`, `KeysAreAtomic` | two keyboards and a writer of both levels act as the atomic store |
| `backlight` | `TypeOK`, `PanelShowsRequested`, `SettlesOnRequest`, `CacheFollowsPanel` | two callers, a reader and failing calls in the structure without a lock |
| `power` | `TypeOK`, `RecentMode`, `QueriesReturn` | answers are recent and queries return, for the battery states the driver knows |
| `dimblock` | `TypeOK`, `NeverMoreThanBlocking` | the counter is never too large and never wraps, whatever is written |
| `callout_free_race` | `NoInputAfterFree` (violated) | a handler in flight, or a thread that starts late, meets the freed structure |
| `callout_stale_dim` | `InputBrightens` (violated) | an input while the thread decides to dim is undone |
| `power_lock_kept` | `QueriesReturn` (violated) | a critical, discharging battery leaves the lock held |

**Bounds.** `UInt32Range = 1000` stands for 2^32: the code compares with 0, 10 and
100 only, and anything a subtraction below 0 leaves is far above 100 in both. `MaxTime` is
long enough for an input, a whole timeout of either value and all delays
(`callout_dimming`: 6, one past the deadline 0 + 2 + 3 of the longer timeout without
input and the deadline 1 + 1 + 3 of the shorter after an input of second 1),
and for unload to arrive in each iteration (`callout_unload`). `MaxLag` is 1 where
delays are the question and 0 where only the order of steps is. One listener is
enough for the passing callout runs because a handler's step disturbs the thread only through
`level`, `last_input` and the power lock, which one listener can set at every
moment; the two safety theorems hold for any number. The `up` key of `callout_dimming` finds
the level at its top, so that the key's steps are interleaved without
multiplying values; `Screen` has the values. `MaxPending = 2` tells apart an
empty, a filled and a full buffer, which the next report empties. `MaxKeys = 3` gives two keys that overlap and one that
starts from what they leave; `EdgeLevels` are the ends, the levels an increment from them and
levels that are no multiple of it. Two callers and three brightness levels, three
queries, three players and two strays give every overlap of the two sections of an
operation. `MaxCount = 15` stands for 2^32 - 1; it only has to exceed the number of players.

In `kmod`, a keyboard monitored for its short name, a mouse monitored for its full one and a lid
switch that is not monitored cover the three outcomes of the matching, and two listeners let
one be in its callback while the other is destroyed. The buffer of the keyboard takes two
reports (the real one eight), so that a key with an event behind it and an overflow occur; the
mouse's takes one. One process in the sysctl handlers is enough: handlers
share nothing in this model but the wait for all of them and the power lock, which the dimming thread and
the listeners keep as well. Only power and backlight may
fail, because no other init has a path that returns an error. `MCKmod` has two kinds of
behaviours, because their product is too large: those with input of both devices have battery states the
driver knows, so that no lock is left held, a handler of `powermode` is as any other, and the exceptions of the two liveness properties never
apply; in those with any battery state (`BatteryKnown`) the mouse is monitored and destroyed but gives no
input. What a listener, the dimming thread, a handler and the loader do to one another through the lock does
not depend on a second listener, and `KmodProofs` has the safety properties without this restriction. In `dbus`, two names are the
fewest for a status to reach the wrong one, two messages may wait, and the messages have a status alone,
before and behind another string, with a value that is no string, and none.

Deadlock is not checked: unloaded components, stopped clocks and used-up keys end
a behaviour rightly.

**Fairness.** The kernel schedules each runnable thread, hence weak fairness of the
dimming thread, the handlers, the listener and the steps of an unload that has begun. `Tick`
has strong fairness: time diverges, although a handler about to raise the level
disables it for a moment. Weak fairness of a query is enough because the only
section that could be starved is the one behind a lock that is never given back.
In `Kmod` the loader's steps within a call, each thread and a handler's steps (its query and its return) are fair, with the
variables they change as subscripts; in `Dbus` the main loop. Nothing makes messages and signals arrive, input come, the battery change or the administrator unload.

## 4. Proofs

Every invariant of the passing runs and both refinements are theorems: proved by TLAPS for all
values of the constants that satisfy the named assumptions. Each proof has the three facts
`Init => IInv`, `IInv /\ [Next]_vars => IInv'` and `IInv => Inv`, one step per action, and a final
temporal step. The inductive invariants were checked with TLC before they were proved.

**Types.** Every module has `TypeCorrect`, `Spec => []TypeOK`. In `Callout` and `Screen` it says that the
unsigned arithmetic of `changebrightness` stays in the word in every interleaving of the two
sections (`ChangeApplyType`, `AssignedFits`), which rests on `Wrap`; in `EvdevThread` and `Kmod` that the client's
buffer stays within its capacity, in `Dbus` that a name is listed at most once.

**Callout** (`CalloutProofs`)

* `CalloutOutlived`: `ThreadOutlivesNoCallout`. `freed` alone says nothing about the steps
  before it, so `UnloadInv` adds that an `active` that is false before unload has
  begun to stop the thread can only be the thread's own withdrawal, after its last
  unlock, and that unload is past its wait only when the thread has stopped.
  Listeners, keys, power and time do not touch its variables.
* `NoLostWakeup`: `DestroyIsWoken`, what `UnloadCompletes` has of safety: destroy may sleep on co without a
  timeout because the thread is not past its wakeup (`WakeInv`: whoever leaves the loop has found or made
  `active` false) and, if it missed the wakeup of destroy, has an alarm (`AlarmInv`).
* `DimDeadline`: `DimmedOnTime`. `DimInv` follows the iteration: the input that was read is
  no later than the last one; after the decision, an elapsed time below the timeout
  is right up to `lag`, and a level that is HIGH in spite of an expired timeout
  was raised by an input at most `MaxLag + lag` ago; the alarm is set
  no later than the elapsed time allows; `lag` bounds what an iteration adds. The
  three `MaxLag` of the property are the input's, the iteration's and the alarm's.

**Listener** (`EvdevThreadProofs`)

* `WaitSuffices`: `WaitedForThread`. The listener and reports share the channel destroy sleeps
  on, so `WaitInv` needs that a client that destroy has unregistered gets no report: then
  only the listener's end can wake destroy.
* `SleeperWakeable`: `SleeperIsBlocked`, which is inductive by itself.
* `NoLostWakeup`: `DestroyIsWoken`, what `DestroyReturns` has of safety: THREAD is the mark of a listener
  with its wakeup still to send, and once `active` is cleared it sleeps no more (`WakeInv`).
* `ListenerRefined`: `KeepsPromise`, the refinement of `Listener`. `GateInv` says that a callback is set only
  before the loader has withdrawn it, and what the flags THREAD and SHUTDOWN, by which
  destroy goes, tell of the place of the listener; with `WaitInv`, each step of the listener, the loader or
  the kernel is a step of `Listener` or a stutter (`PromiseStep`). The outcomes of `kthread_add` and of the
  registration are constants, so that it holds also where these fail.

**The module as a whole** (`KmodProofs`), for any list of device nodes, any matching, buffer capacities
and sysctl processes, also when power locks are left held. `KmodAssumption` restricts the init calls that may
fail to the two that have an error path, and has the names of the threads differ. `TypeCorrect` includes
that the kept lock has one owner and only a process in a handler is about to query (`OwnerInv`).

* `EverythingDestroyed`: `AllDestroyed`. `LoaderInv` reads the state of all components off `todo`: in
  `framework_init` those whose call is done are up and no other was touched; after a failed load or in an
  unload exactly those are up that are still to be destroyed. The heart is `FailedCall`: the case at which the
  undo enters its switch leaves exactly the calls of what was initialised.
* `NoUseAfterDestroy`: `UsedAreUp`. It needs who can be where: only a listener with a binding can
  call back, and while `framework_evthread_destroy` works, the one that has just lost its binding
  (`EvdevInv`); `framework_callout_destroy` is past its wait only when the dimming thread has left its loop
  (`CalloutInv`); no process is left in a handler when the sysctl component goes (`SysctlInv`); and the
  places in the connector's init and destroy follow its component (`PlaceInv`). With `LoaderInv`, that one of
  `evdev`, `sysctl` and `callout` is up means that what its threads use is up (`EarlyUp`), because what is
  initialised before them is destroyed after them. `Listener` is all that is used of a listener here, and
  `ListenerRefined` is what justifies it.

**Screen** (`ScreenProofs`), for any number of keyboards, writers and keys

* `KeysImplementStore`: `KeysAreAtomic`. `PressClamps` is the reason: a decision taken on the level read and
  applied to the level found is the clamped increment of the level found, when the two are the same or both
  at least an increment from either end. `KeyPresses` applies it to a key's second section, `SysctlStores`
  gives the writes. `TypeOK` is the only invariant it needs.

**Backlight** (`BacklightProofs`), for any levels, callers and readers, at least one caller. Every step,
each with the mishaps it records:

* `PanelRequested`: `PanelShowsRequested`. Not the panel alone but the shared structure and all that is wanted
  come from what was asked (`AskedInv`).
* `CacheCorrect`: `CacheFollowsPanel`. `CacheInv`: while nothing has overlapped, one thread at a time is in the
  structure, and at each of its places it knows how cache, structure and panel compare.
* `PanelSettles`: `SettlesOnRequest`. `SettleInv`: the structure differs from the panel only while an update
  of it is on its way, and as long as the panel shows what nobody wants, some caller is still before
  its assignment or the structure already holds what somebody wants.

**Power** (`PowerProofs`): `ModeIsRecent`, `RecentMode` for any number of queries. `power_state` is
whatever was stored last, in any order, so `RecentInv` has the samples of all queries on their way in the
history as well as the mode any of them would read.

**Driver state** (`DimBlockProofs`): `CountBounded`, `NeverMoreThanBlocking` for every finite set of players, any
strays and a `MaxCount` above the number of players. The property is not inductive: the stop of a player that
read 0 takes a blocking player away and leaves the counter. `CountInv` bounds it by the players that
will still take 1 away (`Counted`), which needs that strays never start.

**Dbus bridge** (`DbusProofs`), for any names, messages and queue. `DbusAssumption` takes from the players'
interface that `PlaybackStatus` has one of its three values and that no other property has such a
value.

* `LastStatusFollowed`: `FollowsLastStatus`; `StartsAndStopsMatch`: `StartsMatchStops`. `DbusInv` has a status
  in the parsed message only with a name (the zeroing of `parsed_msg` before each parse), each name at
  most once on the list (`PlayersInv`), the list in agreement with what is asked for except
  for the one message that is parsed and not handled (`FollowInv`), and the balance equal to the
  finite number of names in play (`CountInv`). `Parsed` says what the loop over the properties leaves in the
  structure, `Found`, `Started` and `Removed` what the operations on the list do.

Only model-checked, because liveness under fairness is out of this prover's reach: `UnloadCompletes`,
`DestroyReturns`, `QueriesReturn`, `LoaderReturns`, `KeysAreHandled` and `EndsOnSignal`. `NoInputAfterFree` and
`InputBrightens` are violated and have no theorem.

## 5. Disagreements

The three violated runs are the findings of `PROJECT.json`. Reading the code
for the models brought out further disagreements, which no run is spent on:

* `framework_evdev_thread.c:384`: destroy goes by the flags THREAD and SHUTDOWN that the
  listener sets itself. It waits neither for a listener the scheduler has not run yet
  nor for one that has set SHUTDOWN but not finished, and frees client and edata under it.
  Both happen in `EvdevThread` (`lpc = "done"` while `pc` is `"start"` or `"exit"`).
* `framework_screen.c:135`: a write of `brightness_high` between the two sections of a key
  lets the subtraction wrap (comment at 128: "we would reduce below zero, shich we
  cannot"); this is the exception of `KeysAreAtomic`.
* `framework_evdev_thread.c:181`: the key code is taken from the first event of the buffer, and all
  are cleared: a key behind another event is lost; and an event that was cleared is read again by a
  listener that is woken with an empty buffer. Nor does a key survive that is in the buffer when it
  overflows (`framework_evdev.c:86`: eight reports), unless the listener has read it.
* `framework_callout.c:278`: unload may go on at the thread's `wakeup`, before the thread has left the
  module's code (comment at 342: "wait for thread to finish").
* `framework_sysctl.c:158`: `sysctl_cache` is tested without a lock, so that a debug message of an
  ending thread can take the lock that `framework_sysctl_destroy` destroys.
* `framework_power.c:165`: a power init that fails leaves its mutex initialised (`"part"` of `Kmod`).
* `framework.c:67`: "2 = deinit", but `framework_destroy` leaves `status` at 1.
* `framework_debus.c:290`: any string property overwrites the playback status, whatever its key: a
  `LoopStatus` behind a `PlaybackStatus` hides it (the exception of `FollowsLastStatus`).
* `framework_debus.c:278`: the name of a player is the first argument, which is the interface's name
  and the same for all players (comment at 78: "Represents state of a known playback program"):
  of two players, the first stop is printed while the other still plays.
* `framework_debus.c:421`: the players that play when the program ends get no stop printed.
* `framework_callout.c:175`: the brightness is computed before the key is handled
  and set after it (182), so the panel shows a key's effect one input late.
* `framework_callout.c:274`: a sleeping thread is not woken when `timeout_secs` changes.
* `framework_power.c:145`: the lock that is left held (the finding of `power_lock_kept`) stops more than
  queries. A listener blocks at `framework_callout.c:175`, before the key handler at 180; a process that reads
  `powermode` at `framework_sysctl.c:131`; the dimming thread at either of its queries; the loader at
  `framework_callout.c:307`, so that the load never returns. Unload then waits for ever for the listener, the
  process or the thread; and when the owner is the dimming thread, it leaves at `framework_callout.c:230` with
  the lock. This is the exception of `UnloadCompletes`, `LoaderReturns` and `KeysAreHandled` (`PowerBlocked`,
  `Blocked`).
* `framework_callout.c:314`: `kthread_add` may fail with only a message; unload then
  waits for ever (the exception `pc # "none"` of `UnloadCompletes`).
* `framework_evdev_thread.c:197`: the callback is tested in a copy and called through
  the original, which destroy may have cleared (`pc = "crashed"`).
* `framework_evdev_thread.c:171`: the listener sleeps without a look at the buffer, so
  a report that came while it was busy waits for the next one.
* `framework_evdev_thread.c:337`: CLIENTREG is set whatever `evdev_register_client`
  returned, and unload disposes of a client that is on no list.
* `framework_screen.c:154`: two overlapping keys at 90 reach 110 (comment at 147:
  "cap at a 100"); nothing keeps the high level above the low one.
* `framework_backlight.c:128`: a read of `brightness_current` between assignment and
  update makes the update write the old value.
* `framework_power.c:124`: the error of a failed battery query is overwritten, and the
  zeroed structure counts as a charger. Samples may be stored out of order.
* `framework_sysctl.c:205`: a written value that equals the counter is ignored, so two
  players that write 1 count once.

## 6. Not modelled

* The screen saver bridge (`xss/`): a loop that queries and prints; its state is the running flag
  and the last state printed. `src/Makefile` does not build it.
* The debug level and all messages: `Kmod` has the handler, which may run while the tree is removed,
  but not its value.
* Failures the code does not act upon: of `kthread_add` in `Kmod` (`Callout` and `EvdevThread` have
  it) and of `evdev_register_client` (`EvdevThread` has it). In `Kmod` co after free is left to `Callout`, client and
  edata after free to `EvdevThread`; `UsedAreUp` is about the components' locks and structures.
* Devices that come or go after loading, which the code does not follow; changes of the backlight by others.
* In the dbus bridge, the connection, which ends the program before the loop when it fails.

That the driver ignores the dim block counter is documented (`man/framework.4`,
BUGS). Mutexes are taken to count recursion, as a kernel without INVARIANTS does.

## 7. Plan

Done, in this order because dimming and unloading are what the driver is for:
`Callout`, `EvdevThread`, `Screen` with `BrightnessStore`, `Backlight`, `Power`, `DimBlock`,
the first theorems, then `Listener`, `Evdev` and `Kmod` for the module as a whole, and `Dbus`.

Then the proofs of section 4: first those of dimming and unloading, then the counter of dim blockers,
the refinement `EvdevThread` => `Listener` that `Kmod` is built on, `Kmod`, `Backlight`, `Power`,
the refinement `Screen` => `BrightnessStore`, and `Dbus`.

Next:

1. `Dimmer`, an abstract specification of what the driver promises (bright after input, dark
   after the timeout), which `Callout` refines in runs without delays, with the step theorem in
   `CalloutProofs`.
2. In `KmodProofs`, the safety part of `LoaderReturns`: what each wait of the loader waits for is still
   able to end.

Runs are few: a new passing run takes the place of a violated one, whose disagreement is then
described above.
