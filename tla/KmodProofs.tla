----------------------------- MODULE KmodProofs -----------------------------
(***************************************************************************)
(* Proofs about Kmod for every list of input devices, every set of names   *)
(* that match, every size of the buffers and every number of sysctl        *)
(* handlers.                                                               *)
(***************************************************************************)
EXTENDS Kmod, SequenceTheorems, TLAPS

(***************************************************************************)
(* The two orders                                                          *)
(***************************************************************************)

\* The place of a component among the calls of framework_init, and among those
\* of framework_destroy
InitPos == [state |-> 1, screen |-> 2, pwr |-> 3, keyhandler |-> 4, bl |-> 5,
            sysctl |-> 6, evdev |-> 7, callout |-> 8]
DestroyPos == [callout |-> 1, evdev |-> 2, sysctl |-> 3, bl |-> 4,
               keyhandler |-> 5, pwr |-> 6, screen |-> 7, state |-> 8]

\* todo is the end of order.
EndOf(order) ==
  /\ todo \in Seq(Components) /\ Len(todo) <= 8
  /\ \A i \in 1..Len(todo) : todo[i] = order[8 - Len(todo) + i]

\* The orders name every component at its place.
LEMMA Orders ==
  /\ InitOrder \in Seq(Components) /\ Len(InitOrder) = 8
  /\ DestroyOrder \in Seq(Components) /\ Len(DestroyOrder) = 8
  /\ \A i \in 1..8 : InitPos[InitOrder[i]] = i /\ DestroyPos[DestroyOrder[i]] = i
BY DEF InitOrder, DestroyOrder, InitPos, DestroyPos, Components

\* Two components have two places.
LEMMA Places ==
  /\ \A c \in Components : InitPos[c] \in 1..8 /\ DestroyPos[c] \in 1..8
  /\ \A c, e \in Components : InitPos[c] = InitPos[e] => c = e
  /\ \A c, e \in Components : DestroyPos[c] = DestroyPos[e] => c = e
BY DEF InitPos, DestroyPos, Components

\* The call that is due, and what is left after it
LEMMA NextCall ==
  ASSUME NEW order, EndOf(order), todo # <<>>
  PROVE  /\ Len(todo) \in 1..8
         /\ Head(todo) = order[9 - Len(todo)]
         /\ todo' = Tail(todo) => EndOf(order)' /\ Len(todo') = Len(todo) - 1
<1>1. Len(todo) \in 1..8
  <2>1. Len(todo) \in Nat \ {0}
    BY EmptySeq, Zenon DEF EndOf
  <2>2. Len(todo) <= 8
    BY DEF EndOf
  <2>3. \A n \in Nat \ {0} : n <= 8 => n \in 1..8
    OBVIOUS
  <2>4. QED BY <2>1, <2>2, <2>3, Zenon
<1>2. Head(todo) = order[9 - Len(todo)]
  <2>1. todo[1] = order[8 - Len(todo) + 1]
    BY <1>1 DEF EndOf
  <2>2. 8 - Len(todo) + 1 = 9 - Len(todo)
    BY <1>1
  <2>3. Head(todo) = todo[1]
    BY DEF EndOf
  <2>4. QED BY <2>1, <2>2, <2>3, Zenon
<1>3. /\ Tail(todo) \in Seq(Components) /\ Len(Tail(todo)) = Len(todo) - 1
      /\ \A i \in 1..Len(Tail(todo)) : Tail(todo)[i] = todo[i + 1]
  BY HeadTailProperties, Zenon DEF EndOf
<1>4. ASSUME todo' = Tail(todo) PROVE EndOf(order)' /\ Len(todo') = Len(todo) - 1
  <2>1. ASSUME NEW i \in 1..Len(Tail(todo))
        PROVE  Tail(todo)[i] = order[8 - Len(Tail(todo)) + i]
    <3>1. i + 1 \in 1..Len(todo) /\ 8 - Len(todo) + (i + 1) = 8 - Len(Tail(todo)) + i
      BY <1>1, <1>3
    <3>2. Tail(todo)[i] = todo[i + 1] /\ todo[i + 1] = order[8 - Len(todo) + (i + 1)]
      BY <1>3, <3>1, Zenon DEF EndOf
    <3>3. QED BY <3>1, <3>2, Zenon
  <2>2. \A n \in 1..8 : n - 1 <= 8
    OBVIOUS
  <2>3. Len(Tail(todo)) <= 8
    BY <1>1, <1>3, <2>2, Zenon
  <2>4. QED BY <1>3, <1>4, <2>1, <2>3, Zenon DEF EndOf
<1>5. QED BY <1>1, <1>2, <1>4

\* A power or backlight init that fails undoes what was initialised before it,
\* in the order of framework_destroy.
LEMMA UndoIsEnd ==
  ASSUME NEW n \in {1, 3}, todo' = UndoCalls(n)
  PROVE  EndOf(DestroyOrder)' /\ Len(todo') = n + 1
BY DEF UndoCalls, UndoCases, EndOf, DestroyOrder, Components

(***************************************************************************)
(* Which components are up                                                 *)
(***************************************************************************)

CompStates == {"raw", "part", "up", "down", "bad"}

\* In framework_init the components whose call is done are up, and nothing else
\* is touched; a loaded module has all of them; on the way out, after a failed
\* load or by an unload, exactly those are up that are still to be destroyed.
LoaderInv ==
  /\ comp \in [Components -> CompStates] /\ \A c \in Components : comp[c] # "bad"
  /\ phase \in {"init", "undo", "loaded", "unload"} /\ status \in 0..2
  /\ phase = "init" =>
       /\ EndOf(InitOrder) /\ todo # <<>> /\ status = 0
       /\ \A c \in Components :
            comp[c] = IF InitPos[c] + Len(todo) <= 8 THEN "up" ELSE "raw"
  /\ phase = "loaded" =>
       todo = <<>> /\ status = 1 /\ \A c \in Components : comp[c] = "up"
  /\ phase \in {"undo", "unload"} =>
       /\ EndOf(DestroyOrder) /\ status \in {1, 2}
       /\ \A c \in Components : comp[c] = "up" <=> DestroyPos[c] + Len(todo) > 8
  /\ phase = "undo" => status = 2

\* A call of framework_init that succeeds
LEMMA InitCall ==
  ASSUME LoaderInv, NEW c \in Components, Initialising(c), c # "callout",
         comp' = [comp EXCEPT ![c] = "up"], todo' = Tail(todo),
         UNCHANGED <<phase, status>>
  PROVE  LoaderInv'
<1> DEFINE n == Len(todo)
           m == Len(todo')
<1>1. EndOf(InitOrder) /\ todo # <<>> /\ phase = "init"
  BY DEF Initialising, LoaderInv
<1>2. n \in 1..8
  BY <1>1, NextCall, Zenon
<1>3. c = InitOrder[9 - n] /\ EndOf(InitOrder)' /\ m = n - 1
  BY <1>1, NextCall, Zenon DEF Initialising
<1>4. \A e \in Components : comp[e] = IF InitPos[e] + n <= 8 THEN "up" ELSE "raw"
  BY <1>1 DEF LoaderInv
<1> HIDE DEF n, m
<1>5. InitPos[c] = 9 - n
  BY <1>2, <1>3, Orders
<1>6. m # 0
  BY <1>2, <1>3, <1>5 DEF InitPos, Components
<1>7. \A e \in Components : comp'[e] = IF InitPos[e] + m <= 8 THEN "up" ELSE "raw"
  <2> TAKE e \in Components
  <2>1. InitPos[e] \in 1..8 /\ (InitPos[e] = InitPos[c] => e = c)
    BY Places
  <2>2. InitPos[e] + m <= 8 <=> InitPos[e] + n <= 8 \/ InitPos[e] = 9 - n
    BY <1>2, <1>3, <2>1
  <2>3. CASE e = c
    BY <1>5, <2>2, <2>3 DEF LoaderInv
  <2>4. CASE e # c
    BY <1>4, <1>5, <2>1, <2>2, <2>4 DEF LoaderInv
  <2>5. QED BY <2>3, <2>4
<1>8. comp' \in [Components -> CompStates] /\ \A e \in Components : comp'[e] # "bad"
  BY DEF LoaderInv, CompStates
<1>9. todo' # <<>>
  BY <1>6, EmptySeq, Zenon DEF m
<1>10. QED BY <1>1, <1>3, <1>7, <1>8, <1>9 DEF LoaderInv, m

\* framework_callout_init is the last call: all components are up.
LEMMA LastCall ==
  ASSUME LoaderInv, Initialising("callout"),
         comp' = [comp EXCEPT !["callout"] = "up"],
         todo' = <<>>, phase' = "loaded", status' = 1
  PROVE  LoaderInv'
<1> DEFINE n == Len(todo)
<1>1. EndOf(InitOrder) /\ todo # <<>>
  BY DEF Initialising, LoaderInv
<1>2. n \in 1..8 /\ InitOrder[9 - n] = "callout"
  BY <1>1, NextCall, Zenon DEF Initialising
<1>3. \A e \in Components : comp[e] = IF InitPos[e] + n <= 8 THEN "up" ELSE "raw"
  BY DEF LoaderInv, Initialising
<1> HIDE DEF n
<1>4. n = 1
  <2>1. InitPos["callout"] = 9 - n
    BY <1>2, Orders
  <2>2. QED BY <1>2, <2>1 DEF InitPos
<1>5. \A e \in Components : comp'[e] = "up"
  <2> TAKE e \in Components
  <2>1. CASE e = "callout"
    BY <2>1 DEF LoaderInv
  <2>2. CASE e # "callout"
    <3>1. InitPos[e] \in 1..7
      BY <2>2 DEF InitPos, Components
    <3>2. QED BY <1>3, <1>4, <2>2, <3>1 DEF LoaderInv
  <2>3. QED BY <2>1, <2>2
<1>6. comp' \in [Components -> CompStates]
  BY DEF LoaderInv, CompStates
<1>7. QED BY <1>5, <1>6 DEF LoaderInv

\* framework_init fails at the power source or at the backlight, before there
\* is a thread, and is left with what it has to undo.
LEMMA FailedCall ==
  ASSUME LoaderInv, NEW c \in MayFail, Initialising(c),
         comp' = IF c = "pwr" THEN [comp EXCEPT ![c] = "part"] ELSE comp,
         todo' = UndoCalls(Len(InitOrder) - Len(todo) - 1),
         phase' = "undo", status' = 2
  PROVE  LoaderInv'
<1> DEFINE n == Len(todo)
           m == Len(todo')
<1>1. EndOf(InitOrder) /\ todo # <<>>
  BY DEF Initialising, LoaderInv
<1>2. n \in 1..8 /\ InitOrder[9 - n] = c
  BY <1>1, NextCall, Zenon DEF Initialising
<1>3. \A e \in Components : comp[e] = IF InitPos[e] + n <= 8 THEN "up" ELSE "raw"
  BY DEF LoaderInv, Initialising
<1>4. todo' = UndoCalls(Len(InitOrder) - n - 1)
  OBVIOUS
<1> HIDE DEF n
<1>5. c \in {"pwr", "bl"} /\ InitPos[c] = 9 - n
  BY <1>2, KmodAssumption, Orders DEF Components
<1>6. n = IF c = "pwr" THEN 6 ELSE 4
  BY <1>2, <1>5 DEF InitPos
<1>7. Len(InitOrder) - n - 1 = 7 - n
  BY <1>2, Orders
<1>8. EndOf(DestroyOrder)' /\ m = 8 - n
  <2>1. todo' = UndoCalls(7 - n)
    BY <1>4, <1>7, Zenon
  <2>2. 7 - n \in {1, 3} /\ (7 - n) + 1 = 8 - n
    BY <1>5, <1>6
  <2>3. EndOf(DestroyOrder)' /\ m = (7 - n) + 1
    BY <2>1, <2>2, UndoIsEnd, Zenon
  <2>4. QED BY <2>2, <2>3, Zenon
<1> HIDE DEF m
<1>9. \A e \in Components : comp'[e] = "up" <=> DestroyPos[e] + m > 8
  <2> TAKE e \in Components
  <2>1. comp'[e] = "up" <=> InitPos[e] + n <= 8
    <3>1. CASE e = c
      BY <1>3, <1>5, <1>6, <3>1 DEF LoaderInv, InitPos
    <3>2. CASE e # c
      BY <1>3, <3>2 DEF LoaderInv
    <3>3. QED BY <3>1, <3>2
  <2>2. InitPos[e] + n <= 8 <=> DestroyPos[e] + (8 - n) > 8
    BY <1>5, <1>6 DEF InitPos, DestroyPos, Components
  <2>3. QED BY <1>8, <2>1, <2>2
<1>10. comp' \in [Components -> CompStates] /\ \A e \in Components : comp'[e] # "bad"
  BY DEF LoaderInv, CompStates
<1>11. QED BY <1>8, <1>9, <1>10 DEF LoaderInv, m

\* A component whose destroy is due is up, and is destroyed by it.
LEMMA DestroyCall ==
  ASSUME LoaderInv, NEW c \in Components, Destroying(c)
  PROVE  /\ comp[c] = "up" /\ DestroyPos[c] = 9 - Len(todo)
         /\ \A e \in Components : comp[e] = "up" <=> DestroyPos[c] <= DestroyPos[e]
         /\ Destroyed(c) /\ UNCHANGED <<phase, status>> => LoaderInv'
<1> DEFINE n == Len(todo)
           m == Len(todo')
<1>1. EndOf(DestroyOrder) /\ todo # <<>> /\ phase \in {"undo", "unload"}
  BY DEF Destroying, LoaderInv
<1>2. /\ n \in 1..8 /\ DestroyOrder[9 - n] = c
      /\ todo' = Tail(todo) => EndOf(DestroyOrder)' /\ m = n - 1
  BY <1>1, NextCall, Zenon DEF Destroying
<1>3. \A e \in Components : comp[e] = "up" <=> DestroyPos[e] + n > 8
  BY <1>1 DEF LoaderInv
<1>4. n \in 1..8 /\ c = DestroyOrder[9 - n]
  BY <1>2
<1> HIDE DEF n, m
<1>5. DestroyPos[c] = 9 - n
  BY <1>4, Orders
<1>6. comp[c] = "up"
  BY <1>3, <1>4, <1>5
<1>7. ASSUME Destroyed(c), UNCHANGED <<phase, status>> PROVE LoaderInv'
  <2>1. EndOf(DestroyOrder)' /\ m = n - 1 /\ comp' = [comp EXCEPT ![c] = "down"]
    BY <1>2, <1>6, <1>7 DEF Destroyed
  <2>2. \A e \in Components : comp'[e] = "up" <=> DestroyPos[e] + m > 8
    <3> TAKE e \in Components
    <3>1. DestroyPos[e] \in 1..8 /\ (DestroyPos[e] = DestroyPos[c] => e = c)
      BY Places
    <3>2. DestroyPos[e] + m > 8 <=> DestroyPos[e] + n > 8 /\ DestroyPos[e] # 9 - n
      BY <1>4, <2>1, <3>1
    <3>3. CASE e = c
      BY <1>5, <2>1, <3>2, <3>3 DEF LoaderInv
    <3>4. CASE e # c
      BY <1>3, <1>5, <2>1, <3>1, <3>2, <3>4 DEF LoaderInv
    <3>5. QED BY <3>3, <3>4
  <2>3. comp' \in [Components -> CompStates] /\ \A e \in Components : comp'[e] # "bad"
    BY <2>1 DEF LoaderInv, CompStates
  <2>4. QED BY <1>1, <1>7, <2>1, <2>2, <2>3 DEF LoaderInv, m
<1>8. \A e \in Components : comp[e] = "up" <=> DestroyPos[c] <= DestroyPos[e]
  BY <1>3, <1>4, <1>5, Places
<1>9. QED BY <1>5, <1>6, <1>7, <1>8 DEF n

\* MOD_UNLOAD calls framework_destroy only for a module that was loaded.
LEMMA UnloadCall == ASSUME LoaderInv, Unload PROVE LoaderInv'
<1>1. CASE phase = "loaded"
  <2>1. todo' = DestroyOrder /\ UNCHANGED <<comp, status>> /\ phase' = "unload"
    BY <1>1 DEF Unload, LoaderInv
  <2>2. EndOf(DestroyOrder)' /\ Len(todo') = 8
    BY <2>1, Orders DEF EndOf
  <2>3. \A e \in Components : DestroyPos[e] + 8 > 8
    BY Places
  <2>4. QED BY <1>1, <2>1, <2>2, <2>3, Zenon DEF LoaderInv
<1>2. CASE phase = "undo" /\ todo = <<>>
  <2>1. todo' = todo /\ UNCHANGED <<comp, status>> /\ phase' = "unload"
    BY <1>2 DEF Unload, LoaderInv
  <2>2. QED BY <1>2, <2>1 DEF LoaderInv, EndOf
<1>3. QED BY <1>1, <1>2 DEF Unload

\* The threads, the devices and the handlers leave the loader where it is.
LEMMA OthersKeepLoader ==
  ASSUME \/ CalloutNext
         \/ \E d \in MonitoredDevices : ListenerStep(d)
         \/ \E d \in MonitoredDevices : \E kind : Report(d, kind)
         \/ \E h \in Handlers : HandlerCall(h) \/ HandlerStep(h)
         \/ UNCHANGED vars
  PROVE  UNCHANGED <<comp, status, phase, todo>>
BY DEF CalloutNext, ThreadStart, ThreadUndrop, ThreadTop, ThreadIterate,
     ThreadEnd, ListenerStep, IntrDrop, IntrLevel, IntrKey, IntrPanel, Report,
     HandlerCall, HandlerStep, HandlerAsks,
         HandlerReturn, vars, loaderVars

LEMMA LoaderInit == Init => LoaderInv
<1> SUFFICES ASSUME Init PROVE LoaderInv
  OBVIOUS
<1>1. EndOf(InitOrder) /\ todo # <<>> /\ Len(todo) = 8
  <2>1. todo = InitOrder /\ todo \in Seq(Components) /\ Len(todo) = 8
    BY Orders DEF Init
  <2>2. \A i \in 1..8 : 8 - 8 + i = i
    OBVIOUS
  <2>3. \A i \in 1..Len(todo) : todo[i] = InitOrder[8 - Len(todo) + i]
    BY <2>1, <2>2, Zenon
  <2>4. todo # <<>>
    BY <2>1, EmptySeq
  <2>5. QED BY <2>1, <2>3, <2>4 DEF EndOf
<1>2. \A c \in Components : ~(InitPos[c] + 8 <= 8)
  BY Places
<1>3. \A c \in Components :
        comp[c] = IF InitPos[c] + Len(todo) <= 8 THEN "up" ELSE "raw"
  BY <1>1, <1>2, Zenon DEF Init
<1>4. QED BY <1>1, <1>3 DEF Init, LoaderInv, CompStates

LEMMA LoaderStep == LoaderInv /\ [Next]_vars => LoaderInv'
<1> SUFFICES ASSUME LoaderInv, [Next]_vars PROVE LoaderInv'
  OBVIOUS
<1> USE DEF loaderVars
<1>1. ASSUME UNCHANGED <<comp, status, phase, todo>> PROVE LoaderInv'
  BY <1>1 DEF LoaderInv, EndOf
<1>2. CASE InitComponent
  <2>1. PICK c \in {"state", "screen", "pwr", "keyhandler", "bl"} :
          /\ Initialising(c)
          /\ \/ /\ comp' = [comp EXCEPT ![c] = "up"]
                /\ todo' = Tail(todo)
                /\ UNCHANGED <<phase, status>>
             \/ /\ c \in MayFail
                /\ comp' = IF c = "pwr" THEN [comp EXCEPT ![c] = "part"] ELSE comp
                /\ todo' = UndoCalls(Len(InitOrder) - Len(todo) - 1)
                /\ phase' = "undo" /\ status' = 2
    BY <1>2, Zenon DEF InitComponent
  <2>2. c \in Components /\ c # "callout"
    BY DEF Components
  <2>3. QED BY <2>1, <2>2, InitCall, FailedCall, Zenon
<1>3. CASE InitSysctl
  <2>1. "sysctl" \in Components
    BY DEF Components
  <2>2. QED BY <1>3, <2>1, InitCall, Zenon DEF InitSysctl
<1>4. CASE InitEvdev
  <2>1. "evdev" \in Components
    BY DEF Components
  <2>2. CASE epc' = "up"
    BY <1>4, <2>1, <2>2, InitCall, Zenon DEF InitEvdev
  <2>3. CASE epc' # "up"
    BY <1>1, <1>4, <2>3 DEF InitEvdev
  <2>4. QED BY <2>2, <2>3
<1>5. CASE InitCallout
  BY <1>5, LastCall, Zenon DEF InitCallout
<1>6. CASE Unload
  BY <1>6, UnloadCall
<1>7. CASE DestroyComponent
  <2>1. PICK c \in {"state", "screen", "pwr", "keyhandler", "bl"} :
          Destroying(c) /\ Destroyed(c) /\ UNCHANGED <<phase, status>>
    BY <1>7 DEF DestroyComponent
  <2>2. c \in Components
    BY DEF Components
  <2>3. QED BY <2>1, <2>2, DestroyCall, Zenon
<1>8. CASE RemoveTree
  BY <1>1, <1>8 DEF RemoveTree
<1>9. CASE DestroySysctl
  <2>1. "sysctl" \in Components
    BY DEF Components
  <2>2. Destroying("sysctl") /\ Destroyed("sysctl") /\ UNCHANGED <<phase, status>>
    BY <1>9 DEF DestroySysctl
  <2>3. QED BY <2>1, <2>2, DestroyCall, Zenon
<1>10. CASE DestroyEvdev
  <2>1. "evdev" \in Components
    BY DEF Components
  <2>2. CASE epc' = "down"
    <3>1. Destroying("evdev") /\ Destroyed("evdev") /\ UNCHANGED <<phase, status>>
      BY <1>10, <2>2 DEF DestroyEvdev
    <3>2. QED BY <2>1, <3>1, DestroyCall, Zenon
  <2>3. CASE epc' # "down"
    BY <1>1, <1>10, <2>3 DEF DestroyEvdev
  <2>4. QED BY <2>2, <2>3
<1>11. CASE DestroyCalloutCallback \/ DestroyCalloutDrop \/ DestroyCalloutStop
  BY <1>1, <1>11 DEF DestroyCalloutCallback, DestroyCalloutDrop, DestroyCalloutStop
<1>12. CASE DestroyCalloutFree
  <2>1. "callout" \in Components
    BY DEF Components
  <2>2. Destroying("callout") /\ Destroyed("callout") /\ UNCHANGED <<phase, status>>
    BY <1>12 DEF DestroyCalloutFree
  <2>3. QED BY <2>1, <2>2, DestroyCall, Zenon
<1>13. CASE \/ CalloutNext
            \/ \E d \in MonitoredDevices : ListenerStep(d)
            \/ \E d \in MonitoredDevices : \E kind : Report(d, kind)
            \/ \E h \in Handlers : HandlerCall(h) \/ HandlerStep(h)
            \/ UNCHANGED vars
  BY <1>1, <1>13, OthersKeepLoader, Zenon
<1>14. QED
  BY <1>2, <1>3, <1>4, <1>5, <1>6, <1>7, <1>8, <1>9, <1>10, <1>11, <1>12, <1>13
     DEF Next, InitNext, DestroyNext

\* framework_init that fails destroys what it had initialised, framework_destroy
\* destroys every component once: for every point of failure the source has,
\* every set of devices and any traffic meanwhile.
THEOREM EverythingDestroyed == Spec => []AllDestroyed
<1>1. ASSUME LoaderInv PROVE AllDestroyed
  <2>1. ASSUME phase = "unload", todo = <<>>, NEW c \in Components
        PROVE  comp[c] # "up"
    <3>1. comp[c] = "up" <=> DestroyPos[c] + 0 > 8
      BY <1>1, <2>1 DEF LoaderInv
    <3>2. QED BY <3>1, Places
  <2>2. QED BY <1>1, <2>1 DEF LoaderInv, AllDestroyed
<1>2. QED BY LoaderInit, LoaderStep, <1>1, PTL DEF Spec

(***************************************************************************)
(* The bindings and their listeners                                        *)
(***************************************************************************)

Bound == {bindings[i] : i \in 1..Len(bindings)}

\* Devices whose listener may call back
Live == {d \in Device : gate[d] \in {"open", "shut"}}

\* A binding put at the head of the list
LEMMA AddBinding ==
  ASSUME NEW S, NEW list \in Seq(S), NEW d \in S,
         d \notin {list[i] : i \in 1..Len(list)},
         \A i, j \in 1..Len(list) : list[i] = list[j] => i = j
  PROVE  LET longer == <<d>> \o list
         IN  /\ longer \in Seq(S) /\ longer # <<>> /\ Head(longer) = d
             /\ {longer[i] : i \in 1..Len(longer)}
                  = {list[i] : i \in 1..Len(list)} \union {d}
             /\ \A i, j \in 1..Len(longer) : longer[i] = longer[j] => i = j
<1> DEFINE longer == <<d>> \o list
           on == {list[i] : i \in 1..Len(list)}
           n == Len(list)
<1>1. <<d>> \in Seq(S) /\ Len(<<d>>) = 1 /\ <<d>>[1] = d
  OBVIOUS
<1>2. n \in Nat
  BY LenProperties, Zenon
<1>3. /\ longer \in Seq(S) /\ Len(longer) = 1 + n
      /\ \A i \in 1..(1 + n) : longer[i] = IF i <= 1 THEN d ELSE list[i - 1]
  <2>1. /\ longer \in Seq(S) /\ Len(longer) = 1 + n
        /\ \A i \in 1..(1 + n) : longer[i] = IF i <= 1 THEN <<d>>[i] ELSE list[i - 1]
    BY <1>1, ConcatProperties
  <2>2. \A i \in 1..(1 + n) : i <= 1 => i = 1
    BY <1>2
  <2>3. QED BY <1>1, <2>1, <2>2, Zenon
<1>4. longer # <<>> /\ Head(longer) = longer[1]
  <2>1. 1 + n # 0
    BY <1>2
  <2>2. longer # <<>>
    BY <1>3, <2>1, EmptySeq, Zenon
  <2>3. Head(longer) = longer[1]
    OBVIOUS
  <2>4. QED BY <2>2, <2>3
<1>5. /\ \A i \in 1..n : list[i] \in on
      /\ \A x \in on : \E i \in 1..n : list[i] = x
      /\ d \notin on
      /\ \A i, j \in 1..n : list[i] = list[j] => i = j
  OBVIOUS
<1> DEFINE all == {longer[i] : i \in 1..(1 + n)}
<1>6. /\ \A i \in 1..(1 + n) : longer[i] \in all
      /\ \A x \in all : \E i \in 1..(1 + n) : longer[i] = x
  OBVIOUS
<1> HIDE DEF n, longer, on, all
<1>7. all = on \union {d}
  <2>1. ASSUME NEW i \in 1..(1 + n) PROVE longer[i] \in on \union {d}
    BY <1>2, <1>3, <1>5
  <2>2. ASSUME NEW i \in 1..n PROVE list[i] = longer[i + 1] /\ i + 1 \in 1..(1 + n)
    BY <1>2, <1>3
  <2>3. d = longer[1] /\ 1 \in 1..(1 + n)
    BY <1>2, <1>3
  <2>4. all \subseteq on \union {d}
    BY <1>6, <2>1
  <2>5. on \subseteq all
    BY <1>5, <1>6, <2>2
  <2>6. QED BY <1>6, <2>3, <2>4, <2>5
<1>8. ASSUME NEW i \in 1..(1 + n), NEW j \in 1..(1 + n), longer[i] = longer[j]
      PROVE  i = j
  <2>1. \A k \in 1..(1 + n) : k = 1 \/ (k - 1 \in 1..n /\ longer[k] = list[k - 1])
    BY <1>2, <1>3
  <2>2. \A k \in 1..(1 + n) : k # 1 => longer[k] \in on
    BY <1>5, <2>1
  <2>3. longer[1] = d
    BY <1>2, <1>3
  <2>4. CASE i = 1 \/ j = 1
    BY <1>5, <1>8, <2>2, <2>3, <2>4
  <2>5. CASE i # 1 /\ j # 1
    <3>1. i - 1 = j - 1
      BY <1>5, <1>8, <2>1, <2>5
    <3>2. QED BY <3>1
  <2>6. QED BY <2>4, <2>5
<1>9. Head(longer) = d
  BY <1>2, <1>3, <1>4
<1>10. QED BY <1>3, <1>4, <1>7, <1>8, <1>9, Zenon DEF n, longer, on, all

\* The first binding taken off the list
LEMMA DropBinding ==
  ASSUME NEW S, NEW list \in Seq(S), list # <<>>,
         \A i, j \in 1..Len(list) : list[i] = list[j] => i = j
  PROVE  LET rest == Tail(list)
             on == {list[i] : i \in 1..Len(list)}
         IN  /\ rest \in Seq(S) /\ Head(list) \in on /\ Head(list) \in S
             /\ {rest[i] : i \in 1..Len(rest)} = on \ {Head(list)}
             /\ \A i, j \in 1..Len(rest) : rest[i] = rest[j] => i = j
<1> DEFINE rest == Tail(list)
           on == {list[i] : i \in 1..Len(list)}
           n == Len(list)
           m == Len(rest)
           left == {rest[i] : i \in 1..m}
<1>1. n \in Nat \ {0}
  BY EmptySeq, Zenon
<1>2. /\ rest \in Seq(S) /\ m = n - 1 /\ Head(list) \in S
      /\ \A i \in 1..m : rest[i] = list[i + 1]
  BY HeadTailProperties, Zenon
<1>3. Head(list) = list[1]
  OBVIOUS
<1>4. /\ \A i \in 1..n : list[i] \in on
      /\ \A x \in on : \E i \in 1..n : list[i] = x
      /\ \A i \in 1..m : rest[i] \in left
      /\ \A x \in left : \E i \in 1..m : rest[i] = x
  OBVIOUS
<1>5. \A i, j \in 1..n : list[i] = list[j] => i = j
  OBVIOUS
<1> HIDE DEF rest, on, n, m, left
<1>6. 1 \in 1..n /\ \A i \in 1..m : i + 1 \in 1..n /\ i + 1 # 1
  BY <1>1, <1>2
<1>7. list[1] \in on
  BY <1>4, <1>6
<1>8. left = on \ {list[1]}
  <2>1. ASSUME NEW i \in 1..m PROVE rest[i] \in on \ {list[1]}
    BY <1>2, <1>4, <1>5, <1>6
  <2>2. ASSUME NEW i \in 1..n, i # 1 PROVE list[i] \in left
    <3>1. i - 1 \in 1..m /\ (i - 1) + 1 = i
      BY <1>1, <1>2, <2>2
    <3>2. rest[i - 1] = list[i]
      BY <1>2, <3>1
    <3>3. QED BY <1>4, <3>1, <3>2
  <2>3. left \subseteq on \ {list[1]}
    BY <1>4, <2>1
  <2>4. on \ {list[1]} \subseteq left
    BY <1>4, <2>2
  <2>5. QED BY <2>3, <2>4
<1>9. ASSUME NEW i \in 1..m, NEW j \in 1..m, rest[i] = rest[j] PROVE i = j
  <2>1. i + 1 = j + 1
    BY <1>2, <1>5, <1>6, <1>9
  <2>2. i \in Int /\ j \in Int
    OBVIOUS
  <2>3. QED BY <2>1, <2>2
<1>10. QED BY <1>2, <1>3, <1>7, <1>8, <1>9, Zenon DEF rest, on, n, m, left

Gates   == {"new", "open", "shut", "gone"}
EvdevPcs == {"out", "scan", "register", "up", "unbind", "stop", "wait", "down"}

\* What a gate says of its listener
GateInv(d) == /\ gate[d] = "new" => pc[d] = "none"
              /\ gate[d] = "gone" => pc[d] \notin InCallback

\* The listeners that may call back are those with a binding and, while
\* framework_evthread_destroy works on it, the one that has just lost its
\* binding; no other is without a registered client, so that this is the one
\* that is stopped and freed.
EvdevInv ==
  /\ bindings \in Seq(Device)
  /\ \A i, j \in 1..Len(bindings) : bindings[i] = bindings[j] => i = j
  /\ gate \in [Device -> Gates] /\ pc \in [Device -> ListenerPcs \union InCallback]
  /\ epc \in EvdevPcs /\ next \in 1..(Len(Nodes) + 1)
  /\ \A d \in Device : GateInv(d)
  /\ \A d \in Bound : gate[d] = "open"
  /\ epc \notin {"stop", "wait"} => Live = Bound
  /\ epc = "stop" =>
       \E x \in Device \ Bound : gate[x] = "open" /\ Live = Bound \union {x}
  /\ epc = "wait" =>
       \E x \in Device \ Bound : gate[x] = "shut" /\ Live = Bound \union {x}
  /\ epc # "register" => registered = Bound
  /\ epc = "register" => bindings # <<>> /\ registered = Bound \ {Head(bindings)}
  /\ epc \in {"out", "down"} => bindings = <<>>
  /\ evlock \in {"raw", "up", "down"} /\ (evlock = "up" <=> epc \notin {"out", "down"})

LEMMA NodeDevice ==
  ASSUME NEW i \in 1..Len(Nodes)
  PROVE  Nodes[i].dev \in Device
<1>1. DOMAIN Nodes = 1..Len(Nodes)
  BY EvdevAssumption, LenProperties, Zenon
<1>2. QED BY <1>1 DEF Device

LEMMA NodesLength == Len(Nodes) \in Nat
BY EvdevAssumption, LenProperties, Zenon

LEMMA NoBinding == bindings = <<>> => Bound = {}
BY DEF Bound

LEMMA BoundDevices == bindings \in Seq(Device) => Bound \subseteq Device
BY ElementOfSeq DEF Bound

LEMMA EvdevInvInit == Init => EvdevInv
<1> SUFFICES ASSUME Init PROVE EvdevInv
  OBVIOUS
<1> USE DEF Init, EvdevInit
<1>1. bindings \in Seq(Device) /\ Len(bindings) = 0 /\ Bound = {}
  BY NoBinding
<1>2. Live = {}
  BY DEF Live
<1>3. next \in 1..(Len(Nodes) + 1)
  BY NodesLength
<1>4. \A i, j \in 1..Len(bindings) : bindings[i] = bindings[j] => i = j
  BY <1>1
<1>5. gate \in [Device -> Gates] /\ pc \in [Device -> ListenerPcs \union InCallback]
  BY DEF Gates, ListenerPcs
<1>6. QED BY <1>1, <1>2, <1>3, <1>4, <1>5 DEF EvdevInv, EvdevPcs, GateInv

\* A step that leaves the loader's part alone keeps the invariant when it keeps
\* the listeners in accord with their gates.
LEMMA ListenersOnly ==
  ASSUME EvdevInv, UNCHANGED <<bindings, evlock, registered, gate, epc, next>>,
         pc' \in [Device -> ListenerPcs \union InCallback],
         \A d \in Device : GateInv(d)'
  PROVE  EvdevInv'
BY DEF EvdevInv, Bound, Live

\* The steps of framework_evdev_init
LEMMA MatchStep == ASSUME EvdevInv, MatchDevice PROVE EvdevInv'
<1> USE DEF MatchDevice, clientVars
<1>1. next \in 1..Len(Nodes) /\ next' \in 1..(Len(Nodes) + 1)
  <2>1. next \in 1..(Len(Nodes) + 1) /\ next <= Len(Nodes) /\ next' = next + 1
    BY DEF EvdevInv
  <2>2. QED BY <2>1, NodesLength
<1>2. CASE ~Monitored(Nodes[next])
  <2>1. UNCHANGED <<bindings, evlock, registered, gate, pc, epc>>
    BY <1>2
  <2>2. QED BY <1>1, <2>1 DEF EvdevInv, Bound, Live, GateInv
<1>3. CASE Monitored(Nodes[next])
  <2> DEFINE d == Nodes[next].dev
  <2>1. d \in Device
    BY <1>1, NodeDevice
  <2>2. /\ pc' = [pc EXCEPT ![d] = "asleep"] /\ gate' = [gate EXCEPT ![d] = "open"]
        /\ gate[d] = "new" /\ bindings' = <<d>> \o bindings /\ epc' = "register"
        /\ registered' = registered /\ evlock' = evlock
    BY <1>3 DEF Contract!Open
  <2> HIDE DEF d
  <2>3. epc = "scan" /\ Live = Bound /\ registered = Bound /\ bindings \in Seq(Device)
    BY DEF EvdevInv
  <2>4. d \notin Bound
    <3>1. \A e \in Bound : gate[e] = "open"
      BY DEF EvdevInv
    <3>2. QED BY <2>2, <3>1
  <2>5. /\ bindings' \in Seq(Device) /\ bindings' # <<>> /\ Head(bindings') = d
        /\ Bound' = Bound \union {d}
        /\ \A i, j \in 1..Len(bindings') : bindings'[i] = bindings'[j] => i = j
    <3> DEFINE longer == <<d>> \o bindings
    <3>1. \A i, j \in 1..Len(bindings) : bindings[i] = bindings[j] => i = j
      BY DEF EvdevInv
    <3>2. /\ longer \in Seq(Device) /\ longer # <<>> /\ Head(longer) = d
          /\ {longer[i] : i \in 1..Len(longer)} = Bound \union {d}
          /\ \A i, j \in 1..Len(longer) : longer[i] = longer[j] => i = j
      BY <2>1, <2>3, <2>4, <3>1, AddBinding DEF Bound
    <3>3. bindings' = longer
      BY <2>2
    <3>4. Bound' = {longer[i] : i \in 1..Len(longer)}
      BY <3>3 DEF Bound
    <3> HIDE DEF longer
    <3>5. QED BY <3>1, <3>2, <3>3, <3>4, Zenon
  <2>6. gate' \in [Device -> Gates] /\ pc' \in [Device -> ListenerPcs \union InCallback]
    BY <2>1, <2>2 DEF EvdevInv, Gates, ListenerPcs
  <2>7. \A e \in Device : GateInv(e)'
    BY <2>1, <2>2 DEF EvdevInv, GateInv
  <2>8. \A e \in Bound' : gate'[e] = "open"
    BY <2>1, <2>2, <2>3, <2>5, BoundDevices DEF EvdevInv
  <2>9. Live' = Bound'
    BY <2>1, <2>2, <2>3, <2>5 DEF Live, EvdevInv
  <2>10. registered' = Bound' \ {Head(bindings')}
    BY <2>2, <2>3, <2>4, <2>5
  <2>11. QED BY <1>1, <2>2, <2>3, <2>5, <2>6, <2>7, <2>8, <2>9, <2>10
             DEF EvdevInv, EvdevPcs
<1>4. QED BY <1>2, <1>3

LEMMA EvdevInitStep ==
  ASSUME EvdevInv, ConnectorInit \/ MatchDevice \/ RegisterDevice \/ ScanDone
  PROVE  EvdevInv'
<1>1. CASE ConnectorInit
  <2>1. /\ UNCHANGED <<gate, pc, registered>> /\ bindings' = <<>> /\ bindings = <<>>
        /\ epc' = "scan" /\ next' = 1 /\ epc = "out" /\ evlock' = "up"
    BY <1>1 DEF ConnectorInit, clientVars, EvdevInv
  <2>2. Bound' = Bound /\ Live' = Live
    BY <2>1 DEF Bound, Live
  <2>3. next' \in 1..(Len(Nodes) + 1)
    BY <2>1, NodesLength
  <2>4. QED BY <2>1, <2>2, <2>3 DEF EvdevInv, EvdevPcs, GateInv
<1>2. CASE MatchDevice
  BY <1>2, MatchStep
<1>3. CASE RegisterDevice
  <2>1. /\ UNCHANGED <<gate, pc, bindings, evlock, next>>
        /\ epc = "register" /\ epc' = "scan"
        /\ registered' = registered \union {Head(bindings)}
    BY <1>3 DEF RegisterDevice, edataVars
  <2>2. Head(bindings) \in Bound
    BY <2>1, DropBinding DEF EvdevInv, Bound
  <2>3. registered' = Bound
    BY <2>1, <2>2 DEF EvdevInv
  <2>4. Bound' = Bound /\ Live' = Live
    BY <2>1 DEF Bound, Live
  <2>5. QED BY <2>1, <2>3, <2>4 DEF EvdevInv, EvdevPcs, GateInv
<1>4. CASE ScanDone
  <2>1. /\ UNCHANGED <<gate, pc, bindings, evlock, next, registered>>
        /\ epc = "scan" /\ epc' = "up"
    BY <1>4 DEF ScanDone, edataVars, clientVars
  <2>2. Bound' = Bound /\ Live' = Live
    BY <2>1 DEF Bound, Live
  <2>3. QED BY <2>1, <2>2 DEF EvdevInv, EvdevPcs, GateInv
<1>5. QED BY <1>1, <1>2, <1>3, <1>4

\* The steps of framework_evdev_destroy: a binding leaves the list and its
\* listener is the one that is stopped, waited for and freed.
LEMMA EvdevDestroyStep ==
  ASSUME EvdevInv, DestroyBegin \/ ConnectorDestroy
  PROVE  EvdevInv'
<1>1. CASE DestroyBegin
  <2>1. /\ UNCHANGED <<gate, pc, bindings, evlock, next, registered>>
        /\ epc = "up" /\ epc' = "unbind"
    BY <1>1 DEF DestroyBegin, clientVars
  <2>2. Bound' = Bound /\ Live' = Live
    BY <2>1 DEF Bound, Live
  <2>3. QED BY <2>1, <2>2 DEF EvdevInv, EvdevPcs, GateInv
<1>2. CASE Unbind
  <2> DEFINE d == Head(bindings)
  <2>1. /\ UNCHANGED <<gate, pc, evlock, next>> /\ epc = "unbind" /\ epc' = "stop"
        /\ bindings' = Tail(bindings) /\ registered' = registered \ {d}
        /\ bindings # <<>>
    BY <1>2 DEF Unbind
  <2>2. /\ bindings' \in Seq(Device) /\ d \in Bound /\ d \in Device
        /\ Bound' = Bound \ {d}
        /\ \A i, j \in 1..Len(bindings') : bindings'[i] = bindings'[j] => i = j
    <3>1. /\ bindings \in Seq(Device)
          /\ \A i, j \in 1..Len(bindings) : bindings[i] = bindings[j] => i = j
      BY DEF EvdevInv
    <3>2. QED BY <2>1, <3>1, DropBinding DEF Bound
  <2> HIDE DEF d
  <2>3. Live = Bound /\ registered = Bound /\ \A e \in Bound : gate[e] = "open"
    BY <2>1 DEF EvdevInv
  <2>4. Live' = Live
    BY <2>1 DEF Live
  <2>5. \E x \in Device \ Bound' : gate'[x] = "open" /\ Live' = Bound' \union {x}
    BY <2>1, <2>2, <2>3, <2>4
  <2>6. registered' = Bound' /\ \A e \in Bound' : gate'[e] = "open"
    BY <2>1, <2>2, <2>3
  <2>7. QED BY <2>1, <2>2, <2>5, <2>6 DEF EvdevInv, EvdevPcs, GateInv
<1>3. CASE StopListener
  <2>1. PICK d \in Device :
          /\ UNCHANGED <<bindings, pc, evlock, next, registered>>
          /\ epc = "stop" /\ epc' = "wait"
          /\ gate' = [gate EXCEPT ![d] = "shut"] /\ gate[d] = "open"
          /\ d \notin registered
    BY <1>3 DEF StopListener, edataVars, clientVars, Unbound, Contract!Shut
  <2>2. registered = Bound /\ gate \in [Device -> Gates]
        /\ \A e \in Bound : gate[e] = "open"
    BY <2>1 DEF EvdevInv
  <2>3. Live = Bound \union {d} /\ d \notin Bound
    <3>1. PICK x \in Device \ Bound : gate[x] = "open" /\ Live = Bound \union {x}
      BY <2>1 DEF EvdevInv
    <3>2. d \in Live
      BY <2>1 DEF Live
    <3>3. QED BY <2>1, <2>2, <3>1, <3>2
  <2>4. Bound' = Bound
    BY <2>1 DEF Bound
  <2>5. Live' = Live
    BY <2>1, <2>2 DEF Live
  <2>6. \E x \in Device \ Bound' : gate'[x] = "shut" /\ Live' = Bound' \union {x}
    BY <2>1, <2>2, <2>3, <2>4, <2>5
  <2>7. \A e \in Bound' : gate'[e] = "open"
    BY <2>1, <2>2, <2>3, <2>4
  <2>8. gate' \in [Device -> Gates] /\ \A e \in Device : GateInv(e)'
    BY <2>1, <2>2 DEF EvdevInv, Gates, GateInv
  <2>9. QED BY <2>1, <2>4, <2>6, <2>7, <2>8 DEF EvdevInv, EvdevPcs
<1>4. CASE FreeListener
  <2>1. PICK d \in Device :
          /\ UNCHANGED <<bindings, pc, evlock, next, registered>>
          /\ epc = "wait" /\ epc' = "unbind"
          /\ gate' = [gate EXCEPT ![d] = "gone"] /\ gate[d] = "shut"
          /\ pc[d] \notin InCallback /\ d \notin registered
    BY <1>4 DEF FreeListener, edataVars, clientVars, Unbound, Contract!Leave
  <2>2. registered = Bound /\ gate \in [Device -> Gates]
        /\ \A e \in Bound : gate[e] = "open"
    BY <2>1 DEF EvdevInv
  <2>3. Live = Bound \union {d} /\ d \notin Bound
    <3>1. PICK x \in Device \ Bound : gate[x] = "shut" /\ Live = Bound \union {x}
      BY <2>1 DEF EvdevInv
    <3>2. d \in Live
      BY <2>1 DEF Live
    <3>3. QED BY <2>1, <2>2, <3>1, <3>2
  <2>4. Bound' = Bound
    BY <2>1 DEF Bound
  <2>5. Live' = Live \ {d}
    BY <2>1, <2>2 DEF Live
  <2>6. Live' = Bound'
    BY <2>3, <2>4, <2>5
  <2>7. \A e \in Bound' : gate'[e] = "open"
    BY <2>1, <2>2, <2>3, <2>4
  <2>8. gate' \in [Device -> Gates] /\ \A e \in Device : GateInv(e)'
    BY <2>1, <2>2 DEF EvdevInv, Gates, GateInv
  <2>9. QED BY <2>1, <2>4, <2>6, <2>7, <2>8 DEF EvdevInv, EvdevPcs
<1>5. CASE DestroyDone
  <2>1. /\ UNCHANGED <<gate, pc, bindings, next, registered>> /\ bindings = <<>>
        /\ epc = "unbind" /\ epc' = "down" /\ evlock' = "down"
    BY <1>5 DEF DestroyDone, clientVars
  <2>2. Bound' = Bound /\ Live' = Live
    BY <2>1 DEF Bound, Live
  <2>3. QED BY <2>1, <2>2 DEF EvdevInv, EvdevPcs, GateInv
<1>6. QED BY <1>1, <1>2, <1>3, <1>4, <1>5 DEF ConnectorDestroy

\* A listener is in its callback only with its gate open or shut.
LEMMA ListenerEvdevStep ==
  ASSUME EvdevInv, NEW d \in Device, ListenerStep(d)
  PROVE  EvdevInv' /\ \A e \in Device \ {d} : pc'[e] = pc[e]
<1>1. /\ UNCHANGED <<bindings, evlock, registered, gate, epc, next>>
      /\ \E place \in {"asleep"} \union InCallback : pc' = [pc EXCEPT ![d] = place]
      /\ gate[d] = "open" \/ pc[d] \in InCallback
  BY DEF ListenerStep, ListenerNext, ListenerWakes, OnInput, OnInputLocked,
         IntrDrop, IntrLevel, IntrKey, IntrPanel, IntrGoto, CallbackReturns, edataVars,
         clientVars, InCallback, Contract!Call
<1>2. PICK place \in {"asleep"} \union InCallback : pc' = [pc EXCEPT ![d] = place]
  BY <1>1
<1>3. gate[d] \notin {"new", "gone"}
  BY <1>1 DEF EvdevInv, GateInv, InCallback
<1>4. pc' \in [Device -> ListenerPcs \union InCallback]
  BY <1>2 DEF EvdevInv, ListenerPcs
<1>5. \A e \in Device : GateInv(e)'
  BY <1>1, <1>2, <1>3 DEF EvdevInv, GateInv
<1>6. QED BY <1>1, <1>2, <1>4, <1>5, ListenersOnly DEF EvdevInv

LEMMA ReportEvdevStep ==
  ASSUME EvdevInv, NEW d \in Device, NEW kind, Push(d, kind)
  PROVE  EvdevInv'
<1>1. /\ UNCHANGED <<bindings, evlock, registered, gate, epc, next>>
      /\ pc' = [pc EXCEPT ![d] = IF @ = "asleep" THEN "woken" ELSE @]
  BY DEF Push, edataVars
<1>2. pc' \in [Device -> ListenerPcs \union InCallback]
  BY <1>1 DEF EvdevInv, ListenerPcs
<1>3. \A e \in Device : GateInv(e)'
  BY <1>1 DEF EvdevInv, GateInv, InCallback
<1>4. QED BY <1>1, <1>2, <1>3, ListenersOnly

LEMMA Monitors == MonitoredDevices \subseteq Device
BY DEF MonitoredDevices, Device

LEMMA EvdevStep == EvdevInv /\ [Next]_vars => EvdevInv'
<1> SUFFICES ASSUME EvdevInv, [Next]_vars PROVE EvdevInv'
  OBVIOUS
<1>1. ASSUME UNCHANGED <<bindings, evlock, registered, gate, epc, next, pc>>
      PROVE  EvdevInv'
  BY <1>1 DEF EvdevInv, Bound, Live, GateInv
<1>2. CASE InitComponent \/ InitSysctl \/ InitCallout \/ Unload
  BY <1>1, <1>2 DEF InitComponent, InitSysctl, InitCallout, Unload, evdevVars,
                    edataVars, clientVars
<1>3. CASE InitEvdev
  BY <1>3, EvdevInitStep DEF InitEvdev
<1>4. CASE DestroyComponent \/ RemoveTree \/ DestroySysctl
  BY <1>1, <1>4 DEF DestroyComponent, RemoveTree, DestroySysctl, evdevVars,
                    edataVars, clientVars
<1>5. CASE DestroyEvdev
  BY <1>5, EvdevDestroyStep DEF DestroyEvdev
<1>6. CASE \/ DestroyCalloutCallback \/ DestroyCalloutDrop \/ DestroyCalloutStop
           \/ DestroyCalloutFree
  BY <1>1, <1>6 DEF DestroyCalloutCallback, DestroyCalloutDrop,
       DestroyCalloutStop, DestroyCalloutFree, evdevVars, edataVars, clientVars
<1>7. CASE CalloutNext
  BY <1>1, <1>7 DEF CalloutNext, ThreadStart, ThreadUndrop, ThreadTop,
       ThreadIterate, ThreadEnd, evdevVars, edataVars, clientVars
<1>8. ASSUME NEW d \in MonitoredDevices, ListenerStep(d) PROVE EvdevInv'
  BY <1>8, Monitors, ListenerEvdevStep
<1>9. ASSUME NEW d \in MonitoredDevices, NEW kind, Report(d, kind) PROVE EvdevInv'
  BY <1>9, Monitors, ReportEvdevStep DEF Report
<1>10. CASE \E h \in Handlers : HandlerCall(h) \/ HandlerStep(h)
  BY <1>1, <1>10 DEF HandlerCall, HandlerStep, HandlerAsks,
         HandlerReturn, evdevVars, edataVars, clientVars
<1>11. CASE UNCHANGED vars
  BY <1>1, <1>11 DEF vars, evdevVars, edataVars, clientVars
<1>12. QED
  BY <1>2, <1>3, <1>4, <1>5, <1>6, <1>7, <1>8, <1>9, <1>10, <1>11
     DEF Next, InitNext, DestroyNext

(***************************************************************************)
(* The threads and what they use                                           *)
(***************************************************************************)

\* How far framework_evdev_init and framework_evdev_destroy are
PlaceInv ==
  /\ epc = "out" => comp["evdev"] = "raw"
  /\ epc \in {"scan", "register"} => Initialising("evdev") /\ comp["evdev"] = "raw"
  /\ epc \in {"up", "unbind", "stop", "wait"} => comp["evdev"] = "up"
  /\ epc = "down" => comp["evdev"] = "down"

\* The dimming thread runs only in a module whose callout is initialised, and
\* framework_callout_destroy goes on to free it only when the thread has left
\* its loop: woken by the thread, or because it found it inactive.
CalloutInv ==
  /\ comp["callout"] = "raw" => cpc = "none" /\ copc = "out"
  /\ cpc # "none" => comp["callout"] \in {"up", "down"}
  /\ comp["callout"] = "down" <=> copc = "done"
  /\ coactive => cpc \in {"start", "undrop", "top", "iterate"}
  /\ cpc \in {"start", "undrop", "top", "iterate"} /\ copc \in {"out", "drop", "stop"}
       => coactive
  /\ copc \in {"free", "done"} => cpc \in {"none", "end", "exited"}
  /\ copc \in {"out", "drop", "stop", "await", "free", "done"}
  /\ cpc \in {"none", "start", "undrop", "top", "iterate", "end", "exited"}

\* The tree, and processes in its handlers, are gone before the sysctl component.
SysctlInv == tree \/ handling # {} => comp["sysctl"] = "up"

\* Components are destroyed in an order that keeps up what was initialised
\* before and is destroyed after one that is up.
LEMMA UpOrder ==
  ASSUME LoaderInv, NEW c \in Components, comp[c] = "up", NEW e \in Components,
         InitPos[e] <= InitPos[c], DestroyPos[c] <= DestroyPos[e]
  PROVE  comp[e] = "up"
<1>1. /\ InitPos[e] \in 1..8 /\ InitPos[c] \in 1..8
      /\ DestroyPos[e] \in 1..8 /\ DestroyPos[c] \in 1..8
  BY Places
<1> DEFINE n == Len(todo)
<1>2. CASE phase = "loaded"
  BY <1>2 DEF LoaderInv
<1>3. CASE phase = "init"
  <2>1. n \in Nat /\ \A x \in Components :
          comp[x] = IF InitPos[x] + n <= 8 THEN "up" ELSE "raw"
    BY <1>3, LenProperties, Zenon DEF LoaderInv, EndOf
  <2> HIDE DEF n
  <2>2. QED BY <1>1, <2>1
<1>4. CASE phase \in {"undo", "unload"}
  <2>1. n \in Nat /\ \A x \in Components : comp[x] = "up" <=> DestroyPos[x] + n > 8
    BY <1>4, LenProperties, Zenon DEF LoaderInv, EndOf
  <2> HIDE DEF n
  <2>2. QED BY <1>1, <2>1
<1>5. QED BY <1>2, <1>3, <1>4 DEF LoaderInv

Early == {"state", "screen", "pwr", "keyhandler", "bl"}

\* Everything that listeners, the dimming thread and handlers reach is up as
\* long as one of evdev, sysctl and callout is.
LEMMA EarlyUp ==
  ASSUME LoaderInv, NEW c \in {"evdev", "sysctl", "callout"}, comp[c] = "up",
         NEW e \in Early
  PROVE  comp[e] = "up"
<1>1. c \in Components /\ e \in Components
  BY DEF Components, Early
<1>2. InitPos[e] <= InitPos[c] /\ DestroyPos[c] <= DestroyPos[e]
  BY DEF InitPos, DestroyPos, Early
<1>3. QED BY <1>1, <1>2, UpOrder

\* A callout that is up needs all the others.
LEMMA CalloutLast ==
  ASSUME LoaderInv, comp["callout"] = "up", NEW e \in Components
  PROVE  comp[e] = "up"
<1>1. InitPos[e] <= InitPos["callout"] /\ DestroyPos["callout"] <= DestroyPos[e]
  BY DEF InitPos, DestroyPos, Components
<1>2. QED BY <1>1, UpOrder DEF Components

\* While bindings are made, the call of framework_evdev_init is on its way.
LEMMA ScanUp ==
  ASSUME LoaderInv, Initialising("evdev"), NEW e \in Early
  PROVE  comp[e] = "up"
<1> DEFINE n == Len(todo)
<1>1. EndOf(InitOrder) /\ todo # <<>>
  BY DEF Initialising, LoaderInv
<1>2. n \in 1..8 /\ InitOrder[9 - n] = "evdev"
  BY <1>1, NextCall, Zenon DEF Initialising
<1>3. comp[e] = IF InitPos[e] + n <= 8 THEN "up" ELSE "raw"
  BY DEF LoaderInv, Initialising, Early, Components
<1> HIDE DEF n
<1>4. InitPos["evdev"] = 9 - n
  BY <1>2, Orders
<1>5. n = 2
  BY <1>2, <1>4 DEF InitPos
<1>6. InitPos[e] \in 1..5
  BY DEF InitPos, Early
<1>7. QED BY <1>3, <1>5, <1>6

LEMMA CallbackUp ==
  ASSUME LoaderInv, PlaceInv, EvdevInv, NEW d \in Device, pc[d] \in InCallback
  PROVE  evlock = "up" /\ \A e \in Early : comp[e] = "up"
<1>1. d \in Live
  BY DEF EvdevInv, GateInv, Live, Gates, InCallback
<1>2. epc \notin {"out", "down"}
  BY <1>1, NoBinding DEF EvdevInv
<1>3. epc \in {"scan", "register"} \/ comp["evdev"] = "up"
  BY <1>2 DEF PlaceInv, EvdevInv, EvdevPcs
<1>4. QED BY <1>2, <1>3, ScanUp, EarlyUp DEF PlaceInv, EvdevInv

LEMMA UsesUp == LoaderInv /\ EvdevInv /\ PlaceInv /\ CalloutInv /\ SysctlInv => UsedAreUp
<1> SUFFICES ASSUME LoaderInv, EvdevInv, PlaceInv, CalloutInv, SysctlInv
             PROVE  UsedAreUp
  OBVIOUS
<1>1. ASSUME NEW d \in Device, NEW c \in ListenerUses(pc[d])
      PROVE  comp[c] = "up" \/ (c = "evdev" /\ evlock = "up")
  <2>1. pc[d] \in InCallback /\ c \in Early \union {"evdev"}
    BY <1>1 DEF ListenerUses, InCallback, Early
  <2>2. QED BY <2>1, CallbackUp
<1>2. ASSUME NEW c \in CalloutUses(cpc) PROVE comp[c] = "up"
  <2>1. cpc \in {"start", "top", "iterate"} /\ c \in Components
    BY <1>2 DEF CalloutUses, Components
  <2>2. comp["callout"] = "up"
    BY <2>1 DEF CalloutInv
  <2>3. QED BY <2>1, <2>2, CalloutLast
<1>3. ASSUME NEW h \in handling, NEW c \in HandlerUses PROVE comp[c] = "up"
  <2>1. comp["sysctl"] = "up"
    BY <1>3 DEF SysctlInv
  <2>2. c \in Early \union {"sysctl"}
    BY <1>3 DEF HandlerUses, Early
  <2>3. QED BY <2>1, <2>2, EarlyUp
<1>4. ASSUME NEW c \in InUse
      PROVE  comp[c] = "up" \/ (c = "evdev" /\ evlock = "up")
  <2>1. \/ \E d \in Device : c \in ListenerUses(pc[d])
        \/ c \in CalloutUses(cpc)
        \/ \E h \in handling : c \in HandlerUses
    BY DEF InUse
  <2>2. QED BY <1>1, <1>2, <1>3, <2>1
<1>5. QED BY <1>4 DEF UsedAreUp

\* A component is raw until its init is called.
LEMMA InitRaw ==
  ASSUME LoaderInv, NEW c \in Components, Initialising(c)
  PROVE  comp[c] = "raw"
<1> DEFINE n == Len(todo)
<1>1. EndOf(InitOrder) /\ todo # <<>>
  BY DEF Initialising, LoaderInv
<1>2. n \in 1..8 /\ InitOrder[9 - n] = c
  BY <1>1, NextCall, Zenon DEF Initialising
<1>3. comp[c] = IF InitPos[c] + n <= 8 THEN "up" ELSE "raw"
  BY DEF LoaderInv, Initialising
<1> HIDE DEF n
<1>4. InitPos[c] = 9 - n
  BY <1>2, Orders
<1>5. QED BY <1>2, <1>3, <1>4

LEMMA PlaceInit == Init => PlaceInv
BY DEF Init, EvdevInit, PlaceInv, Components

LEMMA PlaceStep == LoaderInv /\ PlaceInv /\ [Next]_vars => PlaceInv'
<1> SUFFICES ASSUME LoaderInv, PlaceInv, [Next]_vars PROVE PlaceInv'
  OBVIOUS
<1> USE DEF evdevVars
<1>0. comp \in [Components -> CompStates] /\ "evdev" \in Components
  BY DEF LoaderInv, Components
<1>1. ASSUME UNCHANGED <<comp, phase, todo, epc>> PROVE PlaceInv'
  BY <1>1 DEF PlaceInv, Initialising
<1>2. ASSUME comp'["evdev"] = comp["evdev"], ~Initialising("evdev"), epc' = epc
      PROVE  PlaceInv'
  BY <1>2 DEF PlaceInv
<1>3. CASE InitComponent \/ InitSysctl \/ InitCallout
  <2>1. comp'["evdev"] = comp["evdev"] /\ epc' = epc
    BY <1>0, <1>3 DEF InitComponent, InitSysctl, InitCallout
  <2>2. ~Initialising("evdev")
    BY <1>3 DEF InitComponent, InitSysctl, InitCallout, Initialising
  <2>3. QED BY <1>2, <2>1, <2>2
<1>4. CASE InitEvdev
  <2>1. Initialising("evdev") /\ phase' = phase
    BY <1>4 DEF InitEvdev
  <2>2. comp["evdev"] = "raw"
    BY <1>0, <2>1, InitRaw
  <2>3. epc' \in {"scan", "register", "up"}
    BY <1>4 DEF InitEvdev, ConnectorInit, MatchDevice, RegisterDevice, ScanDone
  <2>4. CASE epc' = "up"
    BY <1>0, <1>4, <2>4 DEF InitEvdev, PlaceInv
  <2>5. CASE epc' # "up"
    BY <1>4, <2>1, <2>2, <2>3, <2>5 DEF InitEvdev, PlaceInv, Initialising
  <2>6. QED BY <2>4, <2>5
<1>5. CASE Unload
  <2>1. UNCHANGED <<comp, epc>> /\ ~Initialising("evdev")
    BY <1>5 DEF Unload, Initialising
  <2>2. QED BY <1>2, <2>1
<1>6. CASE DestroyComponent \/ DestroySysctl \/ DestroyCalloutFree
  <2>1. comp'["evdev"] = comp["evdev"] /\ epc' = epc
    BY <1>0, <1>6 DEF DestroyComponent, DestroySysctl, DestroyCalloutFree, Destroyed
  <2>2. ~Initialising("evdev")
    BY <1>6 DEF DestroyComponent, DestroySysctl, DestroyCalloutFree, Destroying,
         Initialising
  <2>3. QED BY <1>2, <2>1, <2>2
<1>7. CASE DestroyEvdev
  <2>1. comp["evdev"] = "up"
    BY <1>0, <1>7, DestroyCall DEF DestroyEvdev
  <2>2. epc' \in {"unbind", "stop", "wait", "down"}
    BY <1>7 DEF DestroyEvdev, DestroyBegin, ConnectorDestroy, Unbind,
         StopListener, FreeListener, DestroyDone
  <2>3. CASE epc' = "down"
    BY <1>0, <1>7, <2>1, <2>3 DEF DestroyEvdev, Destroyed, PlaceInv
  <2>4. CASE epc' # "down"
    BY <1>7, <2>1, <2>2, <2>4 DEF DestroyEvdev, PlaceInv
  <2>5. QED BY <2>3, <2>4
<1>8. CASE RemoveTree \/ DestroyCalloutCallback \/ DestroyCalloutDrop \/ DestroyCalloutStop
  BY <1>1, <1>8 DEF RemoveTree, DestroyCalloutCallback, DestroyCalloutDrop,
                    DestroyCalloutStop, loaderVars
<1>9. CASE \/ CalloutNext
           \/ \E d \in MonitoredDevices : ListenerStep(d)
           \/ \E d \in MonitoredDevices : \E kind : Report(d, kind)
           \/ \E h \in Handlers : HandlerCall(h) \/ HandlerStep(h)
           \/ UNCHANGED vars
  <2>1. UNCHANGED <<comp, phase, todo>>
    BY <1>9, OthersKeepLoader, Zenon
  <2>2. epc' = epc
    BY <1>9 DEF CalloutNext, ThreadStart, ThreadUndrop, ThreadTop, ThreadIterate,
         ThreadEnd, ListenerStep, ListenerNext, ListenerWakes, OnInput,
         OnInputLocked, IntrDrop, IntrLevel, IntrKey, IntrPanel, Report, Push,
         HandlerCall, HandlerStep, HandlerAsks,
         HandlerReturn, vars
  <2>3. QED BY <1>1, <2>1, <2>2
<1>10. QED
  BY <1>3, <1>4, <1>5, <1>6, <1>7, <1>8, <1>9 DEF Next, InitNext, DestroyNext

LEMMA CalloutInit == Init => CalloutInv
BY DEF Init, CalloutInv, Components

LEMMA CalloutStep == LoaderInv /\ CalloutInv /\ [Next]_vars => CalloutInv'
<1> SUFFICES ASSUME LoaderInv, CalloutInv, [Next]_vars PROVE CalloutInv'
  OBVIOUS
<1> USE DEF calloutVars, loaderVars
<1>0. comp \in [Components -> CompStates] /\ "callout" \in Components
  BY DEF LoaderInv, Components
<1>1. ASSUME comp'["callout"] = comp["callout"], UNCHANGED <<coactive, copc, cpc>>
      PROVE  CalloutInv'
  BY <1>1 DEF CalloutInv
<1>2. CASE InitComponent \/ InitSysctl \/ InitEvdev \/ Unload
  <2>1. comp'["callout"] = comp["callout"] /\ UNCHANGED <<coactive, copc, cpc>>
    BY <1>0, <1>2 DEF InitComponent, InitSysctl, InitEvdev, Unload
  <2>2. QED BY <1>1, <2>1
<1>3. CASE InitCallout
  <2>1. comp["callout"] = "raw"
    BY <1>0, <1>3, InitRaw DEF InitCallout
  <2>2. QED BY <1>0, <1>3, <2>1 DEF InitCallout, CalloutInv
<1>4. CASE DestroyComponent \/ RemoveTree \/ DestroySysctl \/ DestroyEvdev
  <2>1. comp'["callout"] = comp["callout"] /\ UNCHANGED <<coactive, copc, cpc>>
    BY <1>0, <1>4 DEF DestroyComponent, RemoveTree, DestroySysctl, DestroyEvdev,
         Destroyed
  <2>2. QED BY <1>1, <2>1
<1>5. CASE DestroyCalloutCallback \/ DestroyCalloutDrop \/ DestroyCalloutStop
  <2>1. comp["callout"] = "up"
    BY <1>0, <1>5, DestroyCall DEF DestroyCalloutCallback, DestroyCalloutDrop,
         DestroyCalloutStop
  <2>2. QED BY <1>5, <2>1 DEF DestroyCalloutCallback, DestroyCalloutDrop,
              DestroyCalloutStop, CalloutInv
<1>6. CASE DestroyCalloutFree
  <2>1. comp["callout"] = "up"
    BY <1>0, <1>6, DestroyCall DEF DestroyCalloutFree
  <2>2. QED BY <1>0, <1>6, <2>1 DEF DestroyCalloutFree, Destroyed, CalloutInv
<1>7. CASE CalloutNext
  <2>1. CASE ThreadStart \/ ThreadUndrop
    BY <2>1 DEF ThreadStart, ThreadUndrop, CalloutGoto, CalloutInv
  <2>2. CASE ThreadTop
    BY <2>2 DEF ThreadTop, CalloutGoto, CalloutInv
  <2>3. CASE ThreadIterate
    BY <2>3 DEF ThreadIterate, CalloutGoto, CalloutInv
  <2>4. CASE ThreadEnd
    BY <2>4 DEF ThreadEnd, CalloutGoto, CalloutInv
  <2>5. QED BY <1>7, <2>1, <2>2, <2>3, <2>4 DEF CalloutNext
<1>8. CASE \/ \E d \in MonitoredDevices : ListenerStep(d)
           \/ \E d \in MonitoredDevices : \E kind : Report(d, kind)
           \/ \E h \in Handlers : HandlerCall(h) \/ HandlerStep(h)
           \/ UNCHANGED vars
  <2>1. UNCHANGED <<comp, coactive, copc, cpc>>
    BY <1>8 DEF ListenerStep, IntrDrop, IntrLevel, IntrKey, IntrPanel, Report,
         HandlerCall, HandlerStep, HandlerAsks,
         HandlerReturn, vars
  <2>2. QED BY <1>1, <2>1
<1>9. QED
  BY <1>2, <1>3, <1>4, <1>5, <1>6, <1>7, <1>8 DEF Next, InitNext, DestroyNext

LEMMA SysctlInit == Init => SysctlInv
BY DEF Init, SysctlInv

LEMMA SysctlStep == LoaderInv /\ SysctlInv /\ [Next]_vars => SysctlInv'
<1> SUFFICES ASSUME LoaderInv, SysctlInv, [Next]_vars PROVE SysctlInv'
  OBVIOUS
<1> USE DEF sysctlVars, loaderVars, SysctlInv
<1>0. comp \in [Components -> CompStates] /\ "sysctl" \in Components
  BY DEF LoaderInv, Components
<1>1. CASE InitComponent \/ InitEvdev \/ InitCallout \/ Unload
  BY <1>0, <1>1 DEF InitComponent, InitEvdev, InitCallout, Unload
<1>2. CASE InitSysctl
  BY <1>0, <1>2 DEF InitSysctl
<1>3. CASE DestroyComponent \/ DestroyEvdev \/ DestroyCalloutFree
  BY <1>0, <1>3 DEF DestroyComponent, DestroyEvdev, DestroyCalloutFree, Destroyed
<1>4. CASE RemoveTree \/ DestroyCalloutCallback \/ DestroyCalloutDrop \/ DestroyCalloutStop
  BY <1>4 DEF RemoveTree, DestroyCalloutCallback, DestroyCalloutDrop,
              DestroyCalloutStop
<1>5. CASE DestroySysctl
  BY <1>5 DEF DestroySysctl
<1>6. CASE \/ CalloutNext
           \/ \E d \in MonitoredDevices : ListenerStep(d)
           \/ \E d \in MonitoredDevices : \E kind : Report(d, kind)
           \/ UNCHANGED vars
  <2>1. UNCHANGED <<comp, tree, handling>>
    BY <1>6 DEF CalloutNext, ThreadStart, ThreadUndrop, ThreadTop, ThreadIterate,
         ThreadEnd, ListenerStep, IntrDrop, IntrLevel, IntrKey, IntrPanel, Report, vars
  <2>2. QED BY <2>1
<1>7. CASE \E h \in Handlers : HandlerCall(h) \/ HandlerStep(h)
  BY <1>7 DEF HandlerCall, HandlerStep, HandlerAsks,
         HandlerReturn
<1>8. QED
  BY <1>1, <1>2, <1>3, <1>4, <1>5, <1>6, <1>7 DEF Next, InitNext, DestroyNext

\* However loading, unloading, input, the dimming thread and the handlers of
\* sysctls interleave, for any devices and any number of handlers, no step uses
\* a component that is not up.
THEOREM NoUseAfterDestroy == Spec => []UsedAreUp
BY LoaderInit, LoaderStep, EvdevInvInit, EvdevStep, PlaceInit, PlaceStep,
   CalloutInit, CalloutStep, SysctlInit, SysctlStep, UsesUp, PTL DEF Spec

(***************************************************************************)
(* Type correctness                                                        *)
(***************************************************************************)

Buffers ==
  /\ buffer \in [Device -> Seq(EventKinds)]
  /\ \A d \in Device : Len(buffer[d]) <= MaxReports[d]

\* The state no other invariant is about
DataInv ==
  /\ cbfunc \in BOOLEAN /\ evactive \in BOOLEAN /\ drop \in BOOLEAN
  /\ coactive \in BOOLEAN /\ tree \in BOOLEAN
  /\ key \in [Device -> BOOLEAN] /\ due \in [Device -> BOOLEAN]
  /\ Buffers

\* A device's buffer is changed to one that fits.
LEMMA BufferFits ==
  ASSUME Buffers, NEW d \in Device, NEW reports \in Seq(EventKinds),
         Len(reports) <= MaxReports[d], buffer' = [buffer EXCEPT ![d] = reports]
  PROVE  Buffers'
<1>1. buffer' \in [Device -> Seq(EventKinds)] /\ buffer'[d] = reports
  BY DEF Buffers
<1>2. \A e \in Device : e # d => buffer'[e] = buffer[e]
  BY DEF Buffers
<1>3. ASSUME NEW e \in Device PROVE Len(buffer'[e]) <= MaxReports[e]
  <2>1. CASE e = d
    BY <1>1, <2>1, Zenon
  <2>2. CASE e # d
    BY <1>2, <2>2, Zenon DEF Buffers
  <2>3. QED BY <2>1, <2>2
<1>4. QED BY <1>1, <1>3 DEF Buffers

LEMMA CapacityPositive == \A d \in Device : MaxReports[d] \in Nat \ {0}
BY EvdevAssumption

LEMMA BufferCleared ==
  ASSUME Buffers, NEW d \in Device, buffer' = [buffer EXCEPT ![d] = <<>>]
  PROVE  Buffers'
<1>1. <<>> \in Seq(EventKinds) /\ Len(<<>>) = 0
  BY EmptySeq
<1>2. Len(<<>>) <= MaxReports[d]
  BY <1>1, CapacityPositive
<1>3. QED BY <1>1, <1>2, BufferFits

\* evdev_client_push keeps to the size of the buffer.
LEMMA PushFits ==
  ASSUME Buffers, NEW d \in Device, NEW kind \in EventKinds, Push(d, kind)
  PROVE  Buffers'
<1>1. buffer[d] \in Seq(EventKinds) /\ MaxReports[d] \in Nat \ {0}
  BY CapacityPositive DEF Buffers
<1>2. CASE Len(buffer[d]) < MaxReports[d]
  <2>1. buffer' = [buffer EXCEPT ![d] = Append(buffer[d], kind)]
    BY <1>2 DEF Push
  <2>2. /\ Append(buffer[d], kind) \in Seq(EventKinds)
        /\ Len(Append(buffer[d], kind)) = Len(buffer[d]) + 1
    BY <1>1, AppendProperties, Zenon
  <2>3. Len(buffer[d]) \in Nat
    BY <1>1, LenProperties, Zenon
  <2>4. Len(Append(buffer[d], kind)) <= MaxReports[d]
    <3> DEFINE n == Len(buffer[d])
               m == MaxReports[d]
               k == Len(Append(buffer[d], kind))
    <3>1. n \in Nat /\ m \in Nat /\ n < m /\ k = n + 1
      BY <1>1, <1>2, <2>2, <2>3
    <3> HIDE DEF n, m, k
    <3>2. k <= m
      BY <3>1
    <3>3. QED BY <3>2 DEF k, m
  <2>5. QED BY <2>1, <2>2, <2>4, BufferFits, Zenon
<1>3. CASE ~(Len(buffer[d]) < MaxReports[d])
  <2>1. buffer' = [buffer EXCEPT ![d] = <<"other">>]
    BY <1>3 DEF Push
  <2>2. <<"other">> \in Seq(EventKinds) /\ Len(<<"other">>) = 1
    BY DEF EventKinds
  <2>3. Len(<<"other">>) <= MaxReports[d]
    BY <1>1, <2>2
  <2>4. QED BY <2>1, <2>2, <2>3, BufferFits, Zenon
<1>4. QED BY <1>2, <1>3

LEMMA DataInit == Init => DataInv
<1> SUFFICES ASSUME Init PROVE DataInv
  OBVIOUS
<1>1. Buffers
  <2>1. <<>> \in Seq(EventKinds) /\ Len(<<>>) = 0
    BY EmptySeq
  <2>2. QED BY <2>1, CapacityPositive DEF Init, EvdevInit, Buffers
<1>2. QED BY <1>1 DEF Init, EvdevInit, DataInv

\* A listener reads its buffer and clears it, or leaves all buffers alone.
LEMMA ListenerData ==
  ASSUME DataInv, NEW d \in Device, ListenerStep(d)
  PROVE  DataInv'
<1>1. UNCHANGED <<cbfunc, evactive, drop, coactive, tree>>
  BY DEF ListenerStep, ListenerNext, ListenerWakes, OnInput, OnInputLocked,
         IntrDrop, IntrLevel, IntrKey, IntrPanel, edataVars, calloutVars, sysctlVars
<1>2. due' \in [Device -> BOOLEAN]
  BY DEF DataInv, ListenerStep, IntrDrop, IntrLevel, IntrKey, IntrPanel
<1>3. key' \in [Device -> BOOLEAN]
  <2>1. key \in [Device -> BOOLEAN]
    BY DEF DataInv
  <2>2. CASE ListenerWakes(d)
    <3>1. PICK have \in IF buffer[d] # <<>> THEN {Head(buffer[d]) = "key"}
                        ELSE {k \in BOOLEAN : k => d \in Keyboards} :
            key' = [key EXCEPT ![d] = have]
      BY <2>2, Zenon DEF ListenerWakes
    <3>2. have \in BOOLEAN
      BY <3>1, Zenon
    <3>3. QED BY <2>1, <3>1, <3>2, Zenon
  <2>3. CASE ~ListenerWakes(d)
    BY <2>1, <2>3 DEF ListenerStep, ListenerNext, OnInput, OnInputLocked,
         IntrDrop, IntrLevel, IntrKey, IntrPanel, IntrGoto, CallbackReturns
  <2>4. QED BY <2>2, <2>3
<1>4. Buffers'
  <2>1. CASE ListenerWakes(d)
    BY <2>1, BufferCleared DEF ListenerWakes, DataInv
  <2>2. CASE ~ListenerWakes(d)
    <3>1. UNCHANGED buffer
      BY <2>2 DEF ListenerStep, ListenerNext, OnInput, OnInputLocked,
           IntrDrop, IntrLevel, IntrKey, IntrPanel, clientVars
    <3>2. QED BY <3>1 DEF DataInv, Buffers
  <2>3. QED BY <2>1, <2>2
<1>5. QED BY <1>1, <1>2, <1>3, <1>4 DEF DataInv

LEMMA ReportData ==
  ASSUME DataInv, NEW d \in Device, NEW kind \in EventKinds, Report(d, kind)
  PROVE  DataInv'
<1>1. UNCHANGED <<cbfunc, evactive, drop, coactive, tree, key>>
  BY DEF Report, Push, edataVars, calloutVars, sysctlVars
<1>2. due' \in [Device -> BOOLEAN]
  <2> DEFINE soon == \/ due[d] /\ (pc[d] = "woken" => Len(buffer[d]) < MaxReports[d])
                     \/ kind = "key" /\ pc[d] = "asleep" /\ buffer[d] = <<>>
                        /\ cbfunc /\ ~drop /\ phase = "loaded"
  <2>1. due' = [due EXCEPT ![d] = soon]
    BY Zenon DEF Report
  <2>2. soon \in BOOLEAN
    BY Zenon
  <2> HIDE DEF soon
  <2>3. QED BY <2>1, <2>2, Zenon DEF DataInv
<1>3. Buffers'
  BY PushFits DEF Report, DataInv
<1>4. QED BY <1>1, <1>2, <1>3 DEF DataInv

\* framework_power.lock is left held by the loader, the dimming thread, a
\* listener or a handler, and only handlers are about to ask for the power mode.
OwnerInv ==
  /\ pwrowner \in {"nobody", "loader", "thread"} \union Device \union Handlers
  /\ handling \subseteq Handlers /\ asking \subseteq handling

LEMMA OwnerInit == Init => OwnerInv
BY DEF Init, OwnerInv

LEMMA OwnerStep == OwnerInv /\ [Next]_vars => OwnerInv'
<1> SUFFICES ASSUME OwnerInv, [Next]_vars PROVE OwnerInv'
  OBVIOUS
<1> USE DEF sysctlVars
<1>1. ASSUME UNCHANGED <<handling, asking, pwrowner>> PROVE OwnerInv'
  BY <1>1 DEF OwnerInv
<1>2. ASSUME NEW self \in {"loader", "thread"} \union Device, PowerQuery(self),
             UNCHANGED <<handling, asking>>
      PROVE  OwnerInv'
  BY <1>2 DEF OwnerInv, PowerQuery
<1>3. CASE InitComponent
  <2>1. UNCHANGED <<handling, asking>> /\ (UNCHANGED pwrowner \/ PowerQuery("loader"))
    BY <1>3 DEF InitComponent
  <2>2. QED BY <1>1, <1>2, <2>1
<1>4. CASE InitSysctl \/ InitEvdev \/ Unload
  BY <1>1, <1>4 DEF InitSysctl, InitEvdev, Unload
<1>5. CASE InitCallout
  BY <1>2, <1>5 DEF InitCallout
<1>6. CASE DestroyNext
  BY <1>1, <1>6 DEF DestroyNext, DestroyComponent, RemoveTree, DestroySysctl,
       DestroyEvdev, DestroyCalloutCallback, DestroyCalloutDrop,
       DestroyCalloutStop, DestroyCalloutFree
<1>7. CASE ThreadStart \/ ThreadUndrop \/ ThreadTop \/ ThreadEnd
  BY <1>1, <1>7 DEF ThreadStart, ThreadUndrop, ThreadTop, ThreadEnd
<1>8. CASE ThreadIterate
  BY <1>2, <1>8 DEF ThreadIterate
<1>9. ASSUME NEW d \in MonitoredDevices, ListenerStep(d) PROVE OwnerInv'
  <2>1. d \in Device
    BY Monitors
  <2>2. CASE IntrLevel(d) \/ IntrKey(d)
    BY <1>2, <2>1, <2>2 DEF IntrLevel, IntrKey
  <2>3. CASE ~(IntrLevel(d) \/ IntrKey(d))
    BY <1>1, <1>9, <2>3 DEF ListenerStep, IntrDrop, IntrPanel
  <2>4. QED BY <2>2, <2>3
<1>10. ASSUME NEW d \in MonitoredDevices, NEW kind, Report(d, kind) PROVE OwnerInv'
  BY <1>1, <1>10 DEF Report
<1>11. ASSUME NEW h \in Handlers, HandlerCall(h) \/ HandlerStep(h) PROVE OwnerInv'
  BY <1>11 DEF HandlerCall, HandlerStep, HandlerAsks, HandlerReturn, PowerQuery,
               OwnerInv
<1>12. CASE UNCHANGED vars
  BY <1>1, <1>12 DEF vars
<1>13. QED
  BY <1>3, <1>4, <1>5, <1>6, <1>7, <1>8, <1>9, <1>10, <1>11, <1>12
     DEF Next, InitNext, CalloutNext

LEMMA DataStep == EvdevInv /\ DataInv /\ [Next]_vars => DataInv'
<1> SUFFICES ASSUME EvdevInv, DataInv, [Next]_vars PROVE DataInv'
  OBVIOUS
<1> USE DEF evdevVars, edataVars, clientVars, loaderVars, calloutVars, sysctlVars
<1>1. ASSUME UNCHANGED <<cbfunc, evactive, drop, coactive, tree, key, due>>,
             Buffers'
      PROVE  DataInv'
  BY <1>1 DEF DataInv
<1>2. ASSUME UNCHANGED buffer PROVE Buffers'
  BY <1>2 DEF DataInv, Buffers
<1>3. CASE InitComponent \/ InitSysctl \/ InitCallout \/ Unload
  BY <1>2, <1>3 DEF InitComponent, InitSysctl, InitCallout, Unload, DataInv
<1>4. CASE InitEvdev
  <2>1. UNCHANGED <<drop, coactive, tree, key, due, buffer>>
    BY <1>4 DEF InitEvdev, ConnectorInit, MatchDevice, RegisterDevice, ScanDone
  <2>2. cbfunc' \in BOOLEAN /\ evactive' \in BOOLEAN
    BY <1>4 DEF InitEvdev, ConnectorInit, MatchDevice, RegisterDevice, ScanDone,
                DataInv
  <2>3. QED BY <1>2, <2>1, <2>2 DEF DataInv
<1>5. CASE DestroyComponent \/ RemoveTree \/ DestroySysctl
  BY <1>2, <1>5 DEF DestroyComponent, RemoveTree, DestroySysctl, DataInv
<1>6. CASE DestroyEvdev
  <2>1. UNCHANGED <<drop, coactive, tree, key, due>>
    BY <1>6 DEF DestroyEvdev, DestroyBegin, ConnectorDestroy, Unbind,
         StopListener, FreeListener, DestroyDone
  <2>2. cbfunc' \in BOOLEAN /\ evactive' \in BOOLEAN
    BY <1>6 DEF DestroyEvdev, DestroyBegin, ConnectorDestroy, Unbind,
         StopListener, FreeListener, DestroyDone, DataInv
  <2>3. Buffers'
    <3>1. CASE Unbind
      <4>1. Head(bindings) \in Device
        BY <3>1, DropBinding DEF Unbind, EvdevInv
      <4>2. QED BY <3>1, <4>1, BufferCleared DEF Unbind, DataInv
    <3>2. CASE ~Unbind
      BY <1>2, <1>6, <3>2 DEF DestroyEvdev, DestroyBegin, ConnectorDestroy,
           StopListener, FreeListener, DestroyDone
    <3>3. QED BY <3>1, <3>2
  <2>4. QED BY <2>1, <2>2, <2>3 DEF DataInv
<1>7. CASE \/ DestroyCalloutCallback \/ DestroyCalloutDrop \/ DestroyCalloutStop
           \/ DestroyCalloutFree
  BY <1>2, <1>7 DEF DestroyCalloutCallback, DestroyCalloutDrop,
       DestroyCalloutStop, DestroyCalloutFree, DataInv
<1>8. CASE CalloutNext
  BY <1>2, <1>8 DEF CalloutNext, ThreadStart, ThreadUndrop, ThreadTop,
       ThreadIterate, ThreadEnd, DataInv
<1>9. ASSUME NEW d \in MonitoredDevices, ListenerStep(d) PROVE DataInv'
  BY <1>9, Monitors, ListenerData
<1>10. ASSUME NEW d \in MonitoredDevices, NEW kind \in EventKinds, Report(d, kind)
       PROVE  DataInv'
  BY <1>10, Monitors, ReportData
<1>11. CASE \E h \in Handlers : HandlerCall(h) \/ HandlerStep(h)
  BY <1>2, <1>11 DEF HandlerCall, HandlerStep, HandlerAsks,
         HandlerReturn, DataInv
<1>12. CASE UNCHANGED vars
  BY <1>1, <1>2, <1>12 DEF vars
<1>13. QED
  BY <1>3, <1>4, <1>5, <1>6, <1>7, <1>8, <1>9, <1>10, <1>11, <1>12
     DEF Next, InitNext, DestroyNext, EventKinds

\* Every variable of the connector, the loader and the threads has its type, and
\* no client buffer holds more than its size: for all devices and handlers.
THEOREM TypeCorrect == Spec => []TypeOK
<1>1. ASSUME LoaderInv, EvdevInv, CalloutInv, OwnerInv, DataInv PROVE TypeOK
  <2>1. registered \subseteq {bindings[i] : i \in DOMAIN bindings}
    <3>1. bindings \in Seq(Device) /\ registered \subseteq Bound
      BY <1>1 DEF EvdevInv
    <3>2. DOMAIN bindings = 1..Len(bindings)
      BY <3>1, LenProperties, Zenon
    <3>3. QED BY <3>1, <3>2, Zenon DEF Bound
  <2>2. EvdevTypeOK
    BY <1>1, <2>1 DEF EvdevTypeOK, EvdevInv, DataInv, Buffers, Gates, EvdevPcs
  <2>3. todo \in Seq(Components)
    <3>1. <<>> \in Seq(Components)
      BY EmptySeq
    <3>2. QED BY <1>1, <3>1 DEF LoaderInv, EndOf
  <2>4. QED BY <1>1, <2>2, <2>3 DEF TypeOK, LoaderInv, CompStates, CalloutInv,
                                 OwnerInv, DataInv
<1>2. QED BY LoaderInit, LoaderStep, EvdevInvInit, EvdevStep, CalloutInit,
             CalloutStep, OwnerInit, OwnerStep, DataInit, DataStep, <1>1, PTL DEF Spec
=============================================================================
