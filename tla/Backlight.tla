----------------------------- MODULE Backlight -----------------------------
(***************************************************************************)
(* framework_backlight.c: the structure framework_backlight.props is both  *)
(* the buffer that a query fills and the argument of an update, and no     *)
(* lock protects it.  Callers of framework_bl_setbrightness are the callout*)
(* and the listener threads; framework_bl_getbrightness is also what the   *)
(* read-only sysctl brightness_current runs.                               *)
(***************************************************************************)
EXTENDS Naturals

CONSTANTS
  Setters,      \* threads that call framework_bl_setbrightness
  Readers,      \* processes that read brightness_current
  Levels,       \* brightness values
  QueryFails,   \* BACKLIGHT_GET_STATUS may fail: subset of BOOLEAN
  UpdateFails   \* BACKLIGHT_UPDATE_STATUS may fail: subset of BOOLEAN

ASSUME BacklightAssumption ==
  Levels \subseteq Nat /\ Levels # {} /\ Setters # {}
  /\ QueryFails \subseteq BOOLEAN /\ UpdateFails \subseteq BOOLEAN
  /\ Setters \intersect Readers = {}

Threads == Setters \union Readers

VARIABLES
  hw,           \* brightness of the panel
  props,        \* framework_backlight.props.brightness
  cached,       \* sc->cached_brightness
  pc,           \* where each thread is
  want,         \* the argument of the last setbrightness
  asked,        \* history: every brightness asked for so far
  mishaps       \* history: which of "setters" (two of them in the structure at
                \* a time), "reader" (one with somebody else) and "failure" (of
                \* a call) have happened so far

vars == <<hw, props, cached, pc, want, asked, mishaps>>

TypeOK ==
  /\ hw \in Levels /\ props \in Levels /\ cached \in Levels
  /\ pc \in [Threads -> {"idle", "loaded", "failed", "assign",
                       "update", "cache"}]
  /\ want \in [Threads -> Levels] /\ asked \subseteq Levels
  /\ mishaps \subseteq {"setters", "reader", "failure"}

\* framework_bl_init has loaded the properties.
Init ==
  /\ hw \in Levels /\ props = hw /\ cached = hw
  /\ pc = [t \in Threads |-> "idle"] /\ want = [t \in Threads |-> hw]
  /\ asked = {hw} /\ mishaps = {}

Goto(t, from, to) == pc[t] = from /\ pc' = [pc EXCEPT ![t] = to]

\* What the arrival of t, and the failure of its query, add to the mishaps
Arrives(t, failed) ==
  LET others == {u \in Threads \ {t} : pc[u] # "idle"}
  IN  mishaps' = mishaps
        \union (IF t \in Setters /\ others \intersect Setters # {}
                THEN {"setters"} ELSE {})
        \union (IF others # {} /\ ({t} \union others) \intersect Readers # {}
                THEN {"reader"} ELSE {})
        \union (IF failed THEN {"failure"} ELSE {})

LoadClears(failed) == props' = IF failed THEN 0 ELSE hw

\* framework_bl_loadprops: a failed query leaves the structure as it was.
Load(failed) == props' = IF failed THEN props ELSE hw

\* framework_bl_setbrightness up to the return of framework_bl_loadprops
SetBegin(t, b) ==
  /\ \E failed \in QueryFails :
       /\ Load(failed) /\ Arrives(t, failed)
       /\ Goto(t, "idle", IF failed THEN "failed" ELSE "loaded")
  /\ want' = [want EXCEPT ![t] = b]
  /\ asked' = asked \union {b}
  /\ UNCHANGED <<hw, cached>>

CompareCached(t) ==
  /\ t \in Setters
  /\ Goto(t, "loaded", IF want[t] = cached THEN "idle" ELSE "assign")
  /\ UNCHANGED <<hw, props, cached, want, asked, mishaps>>

\* current_level is read from the shared structure, whoever filled it last;
\* after a failed query it is 0.
SetCompare(t) ==
  /\ t \in Setters
  /\ \/ Goto(t, "loaded", IF want[t] = props THEN "idle" ELSE "assign")
     \/ Goto(t, "failed", IF want[t] = 0 THEN "idle" ELSE "assign")
  /\ UNCHANGED <<hw, props, cached, want, asked, mishaps>>

AssignRaw(t) ==
  /\ Goto(t, "assign", "update")
  /\ props' = (want[t] * 255) \div 100
  /\ UNCHANGED <<hw, cached, want, asked, mishaps>>

\* props.brightness = brightness
SetAssign(t) ==
  /\ Goto(t, "assign", "update")
  /\ props' = want[t]
  /\ UNCHANGED <<hw, cached, want, asked, mishaps>>

UpdateForgetsError(t) ==
  /\ Goto(t, "update", "cache")
  /\ \/ hw' = props /\ UNCHANGED mishaps
     \/ TRUE \in UpdateFails /\ UNCHANGED hw
        /\ mishaps' = mishaps \union {"failure"}
  /\ UNCHANGED <<props, cached, want, asked>>

\* BACKLIGHT_UPDATE_STATUS writes what the structure holds now.
SetUpdate(t) ==
  /\ \/ Goto(t, "update", "cache") /\ hw' = props /\ UNCHANGED mishaps
     \/ /\ TRUE \in UpdateFails
        /\ Goto(t, "update", "idle")
        /\ mishaps' = mishaps \union {"failure"}
        /\ UNCHANGED hw
  /\ UNCHANGED <<props, cached, want, asked>>

\* cached_brightness = brightness
SetCache(t) ==
  /\ Goto(t, "cache", "idle")
  /\ cached' = want[t]
  /\ UNCHANGED <<hw, props, want, asked, mishaps>>

\* framework_bl_getbrightness for the sysctl: a query and a read
GetLoad(t) ==
  /\ \E failed \in QueryFails :
       /\ Load(failed) /\ Arrives(t, failed)
       /\ Goto(t, "idle", IF failed THEN "failed" ELSE "loaded")
  /\ UNCHANGED <<hw, cached, want, asked>>

GetReturn(t) ==
  /\ t \in Readers
  /\ Goto(t, "loaded", "idle") \/ Goto(t, "failed", "idle")
  /\ UNCHANGED <<hw, props, cached, want, asked, mishaps>>

Next ==
  \/ \E t \in Setters :
       \/ \E b \in Levels : SetBegin(t, b)
       \/ SetCompare(t) \/ SetAssign(t) \/ SetUpdate(t) \/ SetCache(t)
  \/ \E t \in Readers : GetLoad(t) \/ GetReturn(t)

Spec == Init /\ [][Next]_vars

-----------------------------------------------------------------------------
(* Properties                                                              *)

Idle == \A t \in Threads : pc[t] = "idle"

\* Whatever the threads meet in the shared structure and whichever calls
\* fail, the panel shows only a brightness that some caller asked for.
PanelShowsRequested == hw \in asked

\* Two callers that overlap in the shared structure leave the panel at a
\* brightness that one of them asked for last, and neither undoes the other for
\* good, as long as no call fails and nobody reads the sysctl in between.
SettlesOnRequest ==
  Idle /\ mishaps \subseteq {"setters"} => \E t \in Setters : hw = want[t]

\* The cached value follows the panel, also when queries and updates fail, as
\* long as one thread at a time is in the structure.
CacheFollowsPanel == Idle /\ mishaps \subseteq {"failure"} => cached = hw
=============================================================================
