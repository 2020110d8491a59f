---------------------------- MODULE ScreenProofs ----------------------------
(***************************************************************************)
(* Proofs about Screen for any number of key threads and writers, all      *)
(* values they may write, all levels to start from, and every width of the *)
(* word that holds the sums: Screen implements BrightnessStore but for the *)
(* keys that are overtaken near an end of the scale.                       *)
(***************************************************************************)
EXTENDS Screen, TLAPS

(***************************************************************************)
(* Type correctness                                                        *)
(***************************************************************************)

\* Whatever was decided, the level that changebrightness assigns is a uint32_t.
LEMMA AssignedFits ==
  ASSUME NEW d \in {"keep", "bottom", "top", "add"}, NEW current \in Word,
         NEW r \in {IncrementLevel, -IncrementLevel}
  PROVE  ChangeApply(d, current, r) \in Word
<1>1. CASE d = "add"
  <2>1. current + r \in Int
    BY DEF Word, IncrementLevel
  <2>2. Wrap(current + r) \in Word
    BY <2>1, UInt32RangeAssumption DEF Wrap, Word
  <2>3. QED BY <1>1, <2>2 DEF ChangeApply
<1>2. CASE d # "add"
  BY <1>2, UInt32RangeAssumption DEF ChangeApply, MaxBrightness, Word
<1>3. QED BY <1>1, <1>2

LEMMA Decided ==
  ASSUME NEW read, NEW r
  PROVE  ChangeDecision(read, r) \in {"keep", "bottom", "top", "add"}
BY DEF ChangeDecision

LEMMA OneIncrement == ASSUME NEW k PROVE Relative(k) \in {IncrementLevel, -IncrementLevel}
BY DEF Relative

LEMMA TypeInit == Init => TypeOK
<1> SUFFICES ASSUME Init PROVE TypeOK
  OBVIOUS
<1> USE DEF Init
<1>1. low \in [Modes -> Word] /\ high \in [Modes -> Word]
  <2>1. 0..100 \subseteq Word /\ InitHigh \subseteq Word
    BY ScreenAssumption, UInt32RangeAssumption DEF Word, MaxBrightness
  <2>2. low \in [Modes -> Word]
    BY <2>1 DEF DefaultLow
  <2>3. \A m \in Modes : DefaultHigh[m] \in Word
    BY <2>1 DEF DefaultHigh
  <2>4. high \in [Modes -> InitHigh \union {DefaultHigh[m] : m \in Modes}]
    BY DEF InitialHigh
  <2>5. QED BY <2>1, <2>2, <2>3, <2>4
<1>2. 0 \in Word /\ 0 \in 0..MaxKeys
  BY ScreenAssumption, UInt32RangeAssumption DEF Word
<1>3. NoNode \in Nodes /\ "PWR" \in Modes
  BY DEF NoNode, Nodes, Modes
<1>4. QED BY <1>1, <1>2, <1>3 DEF TypeOK

LEMMA TypeNext == TypeOK /\ [Next]_vars => TypeOK'
<1> SUFFICES ASSUME TypeOK, [Next]_vars PROVE TypeOK'
  OBVIOUS
<1> USE DEF keyVars, writeVars
<1>1. ASSUME NEW k \in KeyThreads, KeyBegin(k) PROVE TypeOK'
  BY <1>1, ScreenAssumption DEF TypeOK, KeyBegin
<1>2. ASSUME NEW k \in KeyThreads, KeyRead(k) PROVE TypeOK'
  BY <1>2 DEF TypeOK, KeyRead
<1>3. ASSUME NEW k \in KeyThreads, KeyApply(k) PROVE TypeOK'
  <2> DEFINE m == kmode[k]
             r == Relative(key[k])
             d == ChangeDecision(kread[k], r)
  <2>1. m \in Modes /\ high[m] \in Word
    BY DEF TypeOK
  <2>2. ChangeApply(d, high[m], r) \in Word
    BY <2>1, AssignedFits, Decided, OneIncrement
  <2>3. high' = [high EXCEPT ![m] = ChangeApply(d, high[m], r)]
    BY <1>3 DEF KeyApply
  <2> HIDE DEF m, r, d
  <2>4. high' \in [Modes -> Word]
    BY <2>1, <2>2, <2>3 DEF TypeOK
  <2>5. QED BY <1>3, <2>4 DEF TypeOK, KeyApply
<1>4. ASSUME NEW w \in Writers, NEW m \in PowerModes, NEW level \in Writable,
             SysctlRead(w, m, level)
      PROVE  TypeOK'
  <2>1. [mode |-> m, level |-> level] \in Nodes
    BY ScreenAssumption DEF Nodes
  <2>2. (IF level = "low" THEN low[m] ELSE high[m]) \in Word
    BY ScreenAssumption DEF TypeOK
  <2>3. QED BY <1>4, <2>1, <2>2 DEF TypeOK, SysctlRead
<1>5. ASSUME NEW w \in Writers, NEW v \in Written, SysctlStore(w, v) PROVE TypeOK'
  <2>1. v \in Word /\ wnode[w].mode \in Modes
    BY ScreenAssumption DEF TypeOK, Word, Nodes
  <2>2. low' \in [Modes -> Word] /\ high' \in [Modes -> Word]
    BY <1>5, <2>1 DEF TypeOK, SysctlStore
  <2>3. QED BY <1>5, <2>2 DEF TypeOK, SysctlStore
<1>6. CASE UNCHANGED vars
  BY <1>6 DEF TypeOK, vars
<1>7. QED BY <1>1, <1>2, <1>3, <1>4, <1>5, <1>6 DEF Next

\* The levels, and the brightness a key has read, stay values of the word they
\* are kept in, whatever keys and sysctls do.
THEOREM TypeCorrect == Spec => []TypeOK
BY TypeInit, TypeNext, PTL DEF Spec

(***************************************************************************)
(* Refinement                                                              *)
(***************************************************************************)

\* A key that is not overtaken near an end adds its increment to the level it
\* finds and clamps the sum.
LEMMA PressClamps ==
  ASSUME NEW read \in Word, NEW current \in Word,
         NEW r \in {IncrementLevel, -IncrementLevel}, read <= MaxBrightness,
         read = current \/ {read, current} \subseteq
                             IncrementLevel..(MaxBrightness - IncrementLevel)
  PROVE  ChangeApply(ChangeDecision(read, r), current, r) = Store!Clamp(current + r)
<1> USE DEF IncrementLevel, MaxBrightness, Word
<1>1. /\ read \in 0..100 /\ current \in 0..100 /\ UInt32Range \in Nat /\ UInt32Range > 300
      /\ r = 10 \/ r = -10
      /\ read = current \/ (read \in 10..90 /\ current \in 10..90)
  BY UInt32RangeAssumption
<1>2. \A n \in 0..200 : Wrap(n) = n
  BY <1>1 DEF Wrap
<1>3. CASE r = 10
  <2>1. read + 10 \in 0..200 /\ current + 10 \in 0..200
    BY <1>1
  <2>2. Wrap(read + 10) = read + 10 /\ Wrap(current + 10) = current + 10
    BY <1>2, <2>1
  <2>3. QED BY <1>1, <1>3, <2>2 DEF ChangeDecision, ChangeApply, Store!Clamp
<1>4. CASE r = -10
  <2>1. -r = 10 /\ r < 0 /\ current + r = current - 10
    <3>1. \A x \in Int : x + 10 = 0 => -x = 10 /\ x < 0 /\ current + x = current - 10
      BY <1>1
    <3>2. r \in Int /\ r + 10 = 0
      BY <1>4
    <3>3. QED BY <3>1, <3>2, Zenon
  <2>2. CASE read < 10
    <3>1. read = current /\ (ChangeDecision(read, r) = "bottom"
                               \/ (ChangeDecision(read, r) = "keep" /\ read = 0))
      BY <1>1, <2>1, <2>2 DEF ChangeDecision
    <3>2. QED BY <1>1, <2>1, <2>2, <3>1 DEF ChangeApply, Store!Clamp
  <2>3. CASE read >= 10
    <3>1. ChangeDecision(read, r) = "add" /\ current >= 10
      BY <1>1, <2>1, <2>3 DEF ChangeDecision
    <3>2. Wrap(current + r) = current - 10
      BY <1>1, <1>2, <2>1, <3>1
    <3>3. QED BY <1>1, <2>1, <3>1, <3>2 DEF ChangeApply, Store!Clamp
  <2>4. QED BY <1>1, <2>2, <2>3
<1>5. QED BY <1>1, <1>3, <1>4

\* The second section of such a key is one press of BrightnessStore.
LEMMA KeyPresses ==
  ASSUME TypeOK, NEW k \in KeyThreads, KeyApply(k), ~OvertakenNearAnEnd(k)
  PROVE  Store!Press(kmode[k], Relative(key[k])) /\ kmode[k] \in Modes
<1> DEFINE m == kmode[k]
           r == Relative(key[k])
<1>1. m \in Modes /\ kread[k] \in Word /\ high[m] \in Word
  BY DEF TypeOK
<1>2. /\ high' = [high EXCEPT ![m] = ChangeApply(ChangeDecision(kread[k], r), high[m], r)]
      /\ low' = low
  BY DEF KeyApply
<1>3. kread[k] <= MaxBrightness
  BY <1>1 DEF OvertakenNearAnEnd, Word, MaxBrightness
<1>4. kread[k] = high[m] \/ {kread[k], high[m]} \subseteq
                              IncrementLevel..(MaxBrightness - IncrementLevel)
  BY DEF OvertakenNearAnEnd
<1>5. ChangeApply(ChangeDecision(kread[k], r), high[m], r) = Store!Clamp(high[m] + r)
  BY <1>1, <1>3, <1>4, PressClamps, OneIncrement
<1>6. QED BY <1>1, <1>2, <1>5 DEF Store!Press

\* A sysctl stores one value of the scale, or nothing.
LEMMA SysctlStores ==
  ASSUME TypeOK, NEW w \in Writers, NEW v \in Written, SysctlStore(w, v)
  PROVE  Store!Next \/ UNCHANGED <<low, high>>
<1> DEFINE m == wnode[w].mode
           stored == v # worig[w] /\ v <= MaxBrightness
           level == wnode[w].level
<1>1. m \in Modes
  BY DEF TypeOK, Nodes
<1>2. level \in {"low", "high"}
  BY DEF TypeOK, Nodes
<1>3. /\ low'  = IF stored /\ level = "low" THEN [low EXCEPT ![m] = v] ELSE low
      /\ high' = IF stored /\ level = "high" THEN [high EXCEPT ![m] = v] ELSE high
  BY DEF SysctlStore
<1>4. ASSUME stored PROVE v \in Store!Scale
  BY <1>4, ScreenAssumption DEF Store!Scale, MaxBrightness
<1> HIDE DEF m, stored, level
<1>5. CASE stored
  <2>1. Store!Store(m, v)
    BY <1>2, <1>3, <1>5 DEF Store!Store
  <2>2. QED BY <1>1, <1>4, <1>5, <2>1 DEF Store!Next
<1>6. CASE ~stored
  BY <1>3, <1>6
<1>7. QED BY <1>5, <1>6

LEMMA StoreInit == Init => Store!Init
BY DEF Init, Store!Init

LEMMA StoreStep ==
  TypeOK /\ [Next]_vars =>
    [(\E k \in KeyThreads : KeyDone(k) /\ OvertakenNearAnEnd(k))
     \/ Store!Next]_<<low, high>>
<1> SUFFICES ASSUME TypeOK, [Next]_vars
             PROVE  \/ \E k \in KeyThreads : KeyDone(k) /\ OvertakenNearAnEnd(k)
                    \/ Store!Next
                    \/ UNCHANGED <<low, high>>
  OBVIOUS
<1>1. ASSUME NEW k \in KeyThreads, KeyBegin(k) \/ KeyRead(k)
      PROVE  UNCHANGED <<low, high>>
  BY <1>1 DEF KeyBegin, KeyRead
<1>2. ASSUME NEW k \in KeyThreads, KeyApply(k), ~OvertakenNearAnEnd(k)
      PROVE  Store!Next
  <2>1. Store!Press(kmode[k], Relative(key[k])) /\ kmode[k] \in Modes
    BY <1>2, KeyPresses
  <2>2. QED BY <2>1, OneIncrement DEF Store!Next
<1>3. ASSUME NEW k \in KeyThreads, KeyApply(k) PROVE KeyDone(k)
  BY <1>3 DEF KeyApply, KeyDone, TypeOK
<1>4. ASSUME NEW w \in Writers, NEW m \in PowerModes, NEW level \in Writable,
             SysctlRead(w, m, level)
      PROVE  UNCHANGED <<low, high>>
  BY <1>4 DEF SysctlRead
<1>5. ASSUME NEW w \in Writers, NEW v \in Written, SysctlStore(w, v)
      PROVE  Store!Next \/ UNCHANGED <<low, high>>
  BY <1>5, SysctlStores
<1>6. CASE UNCHANGED vars
  BY <1>6 DEF vars
<1>7. QED BY <1>1, <1>2, <1>3, <1>4, <1>5, <1>6 DEF Next

\* Only the second section of its own key brings a key thread back to rest.
LEMMA PressStep ==
  TypeOK /\ [Next]_vars =>
    [\A k \in KeyThreads : KeyDone(k) /\ ~OvertakenNearAnEnd(k) =>
       Store!Press(kmode[k], Relative(key[k]))]_vars
<1> SUFFICES ASSUME TypeOK, Next, NEW k \in KeyThreads, KeyDone(k),
                    ~OvertakenNearAnEnd(k)
             PROVE  Store!Press(kmode[k], Relative(key[k]))
  OBVIOUS
<1>1. kpc \in [KeyThreads -> {"idle", "read", "apply"}] /\ kpc[k] = "apply"
      /\ kpc'[k] = "idle"
  BY DEF TypeOK, KeyDone
<1>2. ASSUME NEW j \in KeyThreads, KeyBegin(j) \/ KeyRead(j) PROVE FALSE
  BY <1>1, <1>2 DEF KeyBegin, KeyRead
<1>3. ASSUME NEW j \in KeyThreads, KeyApply(j) PROVE j = k
  BY <1>1, <1>3 DEF KeyApply
<1>4. ASSUME NEW w \in Writers,
             (\E m \in PowerModes, level \in Writable : SysctlRead(w, m, level))
             \/ \E v \in Written : SysctlStore(w, v)
      PROVE  FALSE
  BY <1>1, <1>4 DEF SysctlRead, SysctlStore, keyVars
<1>5. KeyApply(k)
  BY <1>2, <1>3, <1>4 DEF Next
<1>6. QED BY <1>5, KeyPresses

\* changebrightness and the sysctl handlers implement the atomic store: however
\* the sections of any number of keys and writers interleave, only a key that is
\* overtaken near an end of the scale does anything but one clamped increment.
THEOREM KeysImplementStore == Spec => KeysAreAtomic
BY TypeInit, TypeNext, StoreInit, StoreStep, PressStep, PTL DEF Spec, KeysAreAtomic
=============================================================================
