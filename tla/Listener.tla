------------------------------ MODULE Listener ------------------------------
(***************************************************************************)
(* Abstract: what framework_evdev.c relies on of a listener thread.  The   *)
(* callback is called only while the gate is open, by one call at a time,  *)
(* and framework_evthread_destroy does not let go of a listener that is    *)
(* inside its callback.  EvdevThread implements it, Evdev is built on it.  *)
(***************************************************************************)

VARIABLES
  gate,   \* "new", "open": a callback is set, "shut": withdrawn, "gone": freed
  busy    \* the listener is inside the callback

vars == <<gate, busy>>

Init == gate = "new" /\ busy = FALSE

\* framework_evthread_setcb
Open == gate = "new" /\ gate' = "open" /\ UNCHANGED busy

\* the callback is called, and returns
Call   == gate = "open" /\ ~busy /\ busy' = TRUE /\ UNCHANGED gate
Return == busy /\ busy' = FALSE /\ UNCHANGED gate

\* framework_evthread_destroy withdraws the callback
Shut == gate = "open" /\ gate' = "shut" /\ UNCHANGED busy

\* framework_evthread_destroy is done with the thread
Leave == gate = "shut" /\ ~busy /\ gate' = "gone" /\ UNCHANGED busy

Next == Open \/ Call \/ Return \/ Shut \/ Leave

Spec == Init /\ [][Next]_vars
=============================================================================
