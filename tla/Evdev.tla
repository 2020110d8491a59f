------------------------------- MODULE Evdev -------------------------------
(***************************************************************************)
(* framework_evdev.c: the connector between the input devices and the      *)
(* interrupt function of the callout.                                      *)
(*                                                                         *)
(* Processes                                                               *)
(*  - the loader, in framework_evdev_init and framework_evdev_destroy;     *)
(*  - one listener thread per binding, from its wakeup to its call of      *)
(*    framework_evdev_oninput; how it starts, waits and ends is Listener,  *)
(*    which EvdevThread implements;                                        *)
(*  - the devices, which report.                                           *)
(* The interrupt function itself is left to the module that extends this   *)
(* one: a listener at "intr" is inside it.                                 *)
(*                                                                         *)
(* Sections under framework_evdev.lock are one action each.  bindings is   *)
(* touched by the loader alone, so that the calls of one                   *)
(* framework_evdev_matchdevs up to the registration are one action too.    *)
(***************************************************************************)
EXTENDS Integers, Sequences

CONSTANTS
  Nodes,       \* input/event nodes in the kernel's order: [dev, short, full]
  Begins,      \* pairs <<entry, name>>: the name begins with the entry
  Inside,      \* pairs <<name, entry>>: the name occurs in the entry
  Keyboards,   \* the devices with brightness keys
  MaxReports   \* per device: reports its client's buffer holds

Device == {Nodes[i].dev : i \in DOMAIN Nodes}

ASSUME EvdevAssumption ==
  /\ Nodes \in Seq([dev : Device, short : STRING, full : STRING])
  /\ \A i, j \in DOMAIN Nodes : Nodes[i].dev = Nodes[j].dev => i = j
  /\ Keyboards \subseteq Device
  /\ MaxReports \in [Device -> Nat \ {0}]

VARIABLES
  bindings,    \* framework_evdev.bindings, head first
  cbfunc,      \* framework_evdev.cbfunc is the interrupt function of the callout
  evactive,    \* framework_evdev.active
  evlock,      \* framework_evdev.lock: "raw", "up" after mtx_init, "down" after mtx_destroy
  gate,        \* per device: gate of Listener
  registered,  \* devices whose client is registered
  buffer,      \* per device: what the reports in its client's buffer begin with
  key,         \* per device: have_keycode, for a key the key handler knows
  pc,          \* per device: the listener
  epc,         \* the loader in framework_evdev_init and framework_evdev_destroy
  next         \* the node the loader visits next

clientVars == <<registered, buffer>>
edataVars  == <<bindings, cbfunc, evactive, evlock>>
evdevVars  == <<edataVars, clientVars, gate, key, pc, epc, next>>

EventKinds   == {"key", "other"}
ListenerPcs  == {"none", "asleep", "woken", "oninput", "lock", "intr"}
InCallback   == {"oninput", "lock", "intr", "level", "key", "panel"}
Contract(d)  == INSTANCE Listener WITH gate <- gate[d], busy <- pc[d] \in InCallback

EvdevInit ==
  /\ bindings = <<>> /\ cbfunc = FALSE /\ evactive = FALSE /\ evlock = "raw"
  /\ registered = {}
  /\ gate = [d \in Device |-> "new"]
  /\ buffer = [d \in Device |-> <<>>]
  /\ key = [d \in Device |-> FALSE]
  /\ pc = [d \in Device |-> "none"]
  /\ epc = "out" /\ next = 1

-----------------------------------------------------------------------------
(* framework_evdev_init                                                    *)

\* framework_evdev_devnames
DevNames == {"TouchPad", "Mouse", "hcons0", "hmt0", "hms0", "sysmouse",
             "kbdmux", "psm", "atkbd"}

\* A short name begins with an entry; a full name occurs in an entry.
MatchName(name, partial) ==
  \E entry \in DevNames :
    IF partial THEN <<name, entry>> \in Inside ELSE <<entry, name>> \in Begins

Monitored(node) == MatchName(node.short, FALSE) \/ MatchName(node.full, TRUE)

ConnectorInit ==
  /\ epc = "out"
  /\ bindings' = <<>> /\ cbfunc' = FALSE /\ evactive' = TRUE /\ evlock' = "up"
  /\ epc' = "scan" /\ next' = 1
  /\ UNCHANGED <<clientVars, gate, key, pc>>

\* framework_util_matchcdev_drv1 at the next node, and framework_evdev_matchdevs
\* for it, up to the registration: a monitored device gets a listener with its
\* callback set and a binding at the head of the list.
MatchDevice ==
  /\ epc = "scan" /\ next <= Len(Nodes)
  /\ next' = next + 1
  /\ IF Monitored(Nodes[next])
     THEN \E d \in {Nodes[next].dev} :
            /\ pc' = [pc EXCEPT ![d] = "asleep"]
            /\ gate' = [gate EXCEPT ![d] = "open"] /\ Contract(d)!Open
            /\ bindings' = <<d>> \o bindings
            /\ epc' = "register"
     ELSE UNCHANGED <<gate, pc, bindings, epc>>
  /\ UNCHANGED <<cbfunc, evactive, evlock, clientVars, key>>

\* framework_evthread_registerclient of the new binding
RegisterDevice ==
  /\ epc = "register" /\ epc' = "scan"
  /\ registered' = registered \union {Head(bindings)}
  /\ UNCHANGED <<edataVars, buffer, gate, key, pc, next>>

\* the end of the iteration; state = 1
ScanDone ==
  /\ epc = "scan" /\ next > Len(Nodes)
  /\ epc' = "up"
  /\ UNCHANGED <<edataVars, clientVars, gate, key, pc, next>>

-----------------------------------------------------------------------------
(* framework_evdev_destroy                                                 *)

\* The callback is withdrawn and oninput switched off under the lock, which is
\* then given up for the first binding.
DestroyBegin ==
  /\ epc = "up" /\ epc' = "unbind"
  /\ cbfunc' = FALSE /\ evactive' = FALSE
  /\ UNCHANGED <<bindings, evlock, clientVars, gate, key, pc, next>>

UnbindKeepsClient ==
  /\ epc = "unbind" /\ bindings # <<>>
  /\ bindings' = Tail(bindings)
  /\ epc' = "stop"
  /\ UNCHANGED <<cbfunc, evactive, evlock, clientVars, gate, key, pc, next>>

\* The first binding leaves the list and its client is unregistered and cleared.
Unbind ==
  /\ epc = "unbind" /\ bindings # <<>>
  /\ bindings' = Tail(bindings)
  /\ registered' = registered \ {Head(bindings)}
  /\ buffer' = [buffer EXCEPT ![Head(bindings)] = <<>>]
  /\ epc' = "stop"
  /\ UNCHANGED <<cbfunc, evactive, evlock, gate, key, pc, next>>

\* The binding whose listener is being destroyed: unregistered, but not gone.
Unbound(d) == gate[d] \in {"open", "shut"} /\ d \notin registered

\* framework_evthread_destroy: withdraw the callback, then wait and free
StopListener ==
  /\ epc = "stop" /\ epc' = "wait"
  /\ UNCHANGED <<edataVars, clientVars, key, pc, next>>
  /\ \E d \in Device : /\ Unbound(d)
                       /\ gate' = [gate EXCEPT ![d] = "shut"] /\ Contract(d)!Shut

FreeListener ==
  /\ epc = "wait" /\ epc' = "unbind"
  /\ UNCHANGED <<edataVars, clientVars, key, pc, next>>
  /\ \E d \in Device : /\ Unbound(d)
                       /\ gate' = [gate EXCEPT ![d] = "gone"] /\ Contract(d)!Leave

\* the list is empty: mtx_destroy, state = 0
DestroyDone ==
  /\ epc = "unbind" /\ bindings = <<>>
  /\ epc' = "down" /\ evlock' = "down"
  /\ UNCHANGED <<bindings, cbfunc, evactive, clientVars, gate, key, pc, next>>

ConnectorDestroy ==
  Unbind \/ StopListener \/ FreeListener \/ DestroyDone

-----------------------------------------------------------------------------
(* A listener, and the devices                                             *)

\* evdev_client_push and evdev_notify_event, external: a report finds the
\* listener asleep and wakes it, or waits in the buffer.  A full buffer is
\* emptied but for a mark that something was dropped.
Push(d, kind) ==
  /\ d \in registered
  /\ buffer' = [buffer EXCEPT ![d] = IF Len(@) < MaxReports[d] THEN Append(@, kind)
                                     ELSE <<"other">>]
  /\ pc' = [pc EXCEPT ![d] = IF @ = "asleep" THEN "woken" ELSE @]
  /\ UNCHANGED <<edataVars, registered, gate, key, epc, next>>

WakesForLast(d) ==
  /\ pc[d] = "woken"
  /\ UNCHANGED <<edataVars, registered, gate, epc, next>>
  /\ pc' = [pc EXCEPT ![d] = "oninput"] /\ Contract(d)!Call
  /\ key' = [key EXCEPT ![d] = buffer[d] # <<>> /\ buffer[d][Len(buffer[d])] = "key"]
  /\ buffer' = [buffer EXCEPT ![d] = <<>>]

\* The listener reads the code of the first event, clears the buffer and calls
\* oninput.  Clearing leaves the events where they are: one that was cleared
\* before the listener got to it can still be read.
ListenerWakes(d) ==
  /\ pc[d] = "woken"
  /\ UNCHANGED <<edataVars, registered, gate, epc, next>>
  /\ pc' = [pc EXCEPT ![d] = "oninput"] /\ Contract(d)!Call
  /\ \E have \in IF buffer[d] # <<>> THEN {Head(buffer[d]) = "key"}
              ELSE {k \in BOOLEAN : k => d \in Keyboards} :
       key' = [key EXCEPT ![d] = have]
  /\ buffer' = [buffer EXCEPT ![d] = <<>>]

\* The callback returns; the listener sleeps.
CallbackReturns(d, from) ==
  /\ pc[d] = from /\ UNCHANGED gate
  /\ pc' = [pc EXCEPT ![d] = "asleep"] /\ Contract(d)!Return
  /\ key' = [key EXCEPT ![d] = FALSE]

\* framework_evdev_oninput: the look at active, without the lock
OnInput(d) ==
  /\ \/ /\ evactive /\ pc[d] = "oninput"
        /\ pc' = [pc EXCEPT ![d] = "lock"] /\ UNCHANGED key
     \/ ~evactive /\ CallbackReturns(d, "oninput")
  /\ UNCHANGED <<edataVars, clientVars, gate, epc, next>>

\* framework_evdev_oninput: last_input and the copy of the callback, under the
\* lock.  A lock that is gone faults.
OnInputLocked(d) ==
  /\ evlock = "up"
  /\ \/ /\ cbfunc /\ pc[d] = "lock"
        /\ pc' = [pc EXCEPT ![d] = "intr"] /\ UNCHANGED key
     \/ ~cbfunc /\ CallbackReturns(d, "lock")
  /\ UNCHANGED <<edataVars, clientVars, gate, epc, next>>

ListenerNext(d) == ListenerWakes(d) \/ OnInput(d) \/ OnInputLocked(d)

-----------------------------------------------------------------------------

\* Only devices with a binding report to the module.
EvdevTypeOK ==
  /\ bindings \in Seq(Device) /\ cbfunc \in BOOLEAN /\ evactive \in BOOLEAN
  /\ evlock \in {"raw", "up", "down"}
  /\ gate \in [Device -> {"new", "open", "shut", "gone"}]
  /\ registered \subseteq {bindings[i] : i \in DOMAIN bindings}
  /\ buffer \in [Device -> Seq(EventKinds)]
  /\ \A d \in Device : Len(buffer[d]) <= MaxReports[d]
  /\ key \in [Device -> BOOLEAN]
  /\ pc \in [Device -> ListenerPcs \union InCallback]
  /\ epc \in {"out", "scan", "register", "up", "unbind", "stop", "wait", "down"}
  /\ next \in 1..(Len(Nodes) + 1)
=============================================================================
