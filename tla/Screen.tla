------------------------------- MODULE Screen -------------------------------
(***************************************************************************)
(* The brightness levels of framework_screen.c under their writers:        *)
(*  - the listener threads, which run framework_keyhandler_handlekey;      *)
(*  - the administrator's processes, which run the sysctl handlers of      *)
(*    brightness_low and brightness_high (framework_sysctl.c).             *)
(* Every access to a level is a section under config->lock of its own, so  *)
(* one action is one section.                                              *)
(***************************************************************************)
EXTENDS ScreenConfig

CONSTANTS
  KeyThreads,   \* listener threads that deliver keys
  Writers,      \* processes that write sysctls
  Written,      \* values they write
  Writable,     \* the levels they write: subset of {"low", "high"}
  PowerModes,   \* power modes found by queries and written by sysctls
  InitHigh,     \* values of brightness_high to start from
  MaxKeys       \* bound on the keys pressed

ASSUME ScreenAssumption ==
  /\ Written \subseteq 0..(UInt32Range - 1)
  /\ Writable \subseteq {"low", "high"}
  /\ PowerModes \subseteq Modes
  /\ InitHigh \subseteq 0..MaxBrightness
  /\ MaxKeys \in Nat

VARIABLES
  low, high,    \* brightness_low and brightness_high of each mode
  kpc,          \* the key threads: "idle", "read" or "apply"
  key,          \* the key in work
  kmode,        \* screen_config, by mode
  kread,        \* the local brightness of changebrightness
  wpc,          \* the writers: "idle" or "store"
  wnode,        \* the sysctl in work: its mode and level
  worig,        \* orig_value
  keys          \* keys pressed

keyVars   == <<kpc, key, kmode, kread>>
writeVars == <<wpc, wnode, worig>>
vars      == <<low, high, keyVars, writeVars, keys>>

Word  == 0..(UInt32Range - 1)
Nodes == [mode : Modes, level : {"low", "high"}]
NoNode == [mode |-> "PWR", level |-> "low"]

TypeOK ==
  /\ low \in [Modes -> Word] /\ high \in [Modes -> Word]
  /\ kpc \in [KeyThreads -> {"idle", "read", "apply"}]
  /\ key \in [KeyThreads -> {"up", "down"}]
  /\ kmode \in [KeyThreads -> Modes] /\ kread \in [KeyThreads -> Word]
  /\ wpc \in [Writers -> {"idle", "store"}]
  /\ wnode \in [Writers -> Nodes] /\ worig \in [Writers -> Word]
  /\ keys \in 0..MaxKeys

InitialHigh == {h \in [Modes -> InitHigh \union {DefaultHigh[m] : m \in Modes}] :
                  \A m \in Modes \ PowerModes : h[m] = DefaultHigh[m]}

\* framework_screen_init, and whatever high levels were configured since
Init ==
  /\ low = DefaultLow /\ high \in InitialHigh
  /\ kpc = [k \in KeyThreads |-> "idle"]
  /\ key = [k \in KeyThreads |-> "up"]
  /\ kmode = [k \in KeyThreads |-> "PWR"]
  /\ kread = [k \in KeyThreads |-> 0]
  /\ wpc = [w \in Writers |-> "idle"]
  /\ wnode = [w \in Writers |-> NoNode]
  /\ worig = [w \in Writers |-> 0]
  /\ keys = 0

-----------------------------------------------------------------------------
(* framework_keyhandler_handlekey                                          *)

\* Key code 225 or 224, and the configuration of the current power mode
KeyBegin(k) ==
  /\ kpc[k] = "idle" /\ keys < MaxKeys
  /\ keys' = keys + 1
  /\ kpc' = [kpc EXCEPT ![k] = "read"]
  /\ \E c \in {"up", "down"} : key' = [key EXCEPT ![k] = c]
  /\ \E m \in PowerModes : kmode' = [kmode EXCEPT ![k] = m]
  /\ UNCHANGED <<low, high, kread, writeVars>>

KeyReadsAhead(k) ==
  /\ kpc[k] = "read"
  /\ kpc' = [kpc EXCEPT ![k] = "apply"]
  /\ kread' = [kread EXCEPT ![k] = high[kmode[k]] + Relative(key[k])]
  /\ UNCHANGED <<low, high, key, kmode, writeVars, keys>>

\* changebrightness: brightness = screen_config->brightness_high
KeyRead(k) ==
  /\ kpc[k] = "read"
  /\ kpc' = [kpc EXCEPT ![k] = "apply"]
  /\ kread' = [kread EXCEPT ![k] = high[kmode[k]]]
  /\ UNCHANGED <<low, high, key, kmode, writeVars, keys>>

KeyStoresLocal(k) ==
  /\ kpc[k] = "apply"
  /\ kpc' = [kpc EXCEPT ![k] = "idle"]
  /\ LET m == kmode[k]
         r == Relative(key[k])
         d == ChangeDecision(kread[k], r)
     IN  high' = [high EXCEPT ![m] = ChangeApply(d, kread[k], r)]
  /\ UNCHANGED <<low, key, kmode, kread, writeVars, keys>>

\* changebrightness: the decision on what was read, and the assignment
KeyApply(k) ==
  /\ kpc[k] = "apply"
  /\ kpc' = [kpc EXCEPT ![k] = "idle"]
  /\ LET m == kmode[k]
         r == Relative(key[k])
         d == ChangeDecision(kread[k], r)
     IN  high' = [high EXCEPT ![m] = ChangeApply(d, @, r)]
  /\ UNCHANGED <<low, key, kmode, kread, writeVars, keys>>

-----------------------------------------------------------------------------
(* framework_sysctl_screen_config_brightness_low and _high                 *)

SysctlRead(w, m, level) ==
  /\ wpc[w] = "idle"
  /\ wpc' = [wpc EXCEPT ![w] = "store"]
  /\ wnode' = [wnode EXCEPT ![w] = [mode |-> m, level |-> level]]
  /\ worig' = [worig EXCEPT ![w] = IF level = "low" THEN low[m] ELSE high[m]]
  /\ UNCHANGED <<low, high, keyVars, keys>>

\* A value that equals the one read, or above 100, is not stored.
SysctlStore(w, v) ==
  /\ wpc[w] = "store"
  /\ wpc' = [wpc EXCEPT ![w] = "idle"]
  /\ LET m == wnode[w].mode
         stored == v # worig[w] /\ v <= MaxBrightness
         level == wnode[w].level
     IN  /\ low'  = IF stored /\ level = "low" THEN [low EXCEPT ![m] = v] ELSE low
         /\ high' = IF stored /\ level = "high" THEN [high EXCEPT ![m] = v] ELSE high
  /\ UNCHANGED <<wnode, worig, keyVars, keys>>

Next ==
  \/ \E k \in KeyThreads : KeyBegin(k) \/ KeyRead(k) \/ KeyApply(k)
  \/ \E w \in Writers :
       \/ \E m \in PowerModes, level \in Writable : SysctlRead(w, m, level)
       \/ \E v \in Written : SysctlStore(w, v)

Spec == Init /\ [][Next]_vars

-----------------------------------------------------------------------------
(* Properties                                                              *)

Store == INSTANCE BrightnessStore WITH
           Top <- MaxBrightness, Increment <- IncrementLevel,
           InitLow <- DefaultLow, InitHigh <- InitialHigh

KeyDone(k) == kpc[k] = "apply" /\ kpc'[k] = "idle"

\* Between the two sections of the key somebody else changed the level, and it
\* was or is within an increment of an end of the scale; or the key began where
\* such a key had taken the level, out of the scale.
OvertakenNearAnEnd(k) ==
  \/ /\ kread[k] # high[kmode[k]]
     /\ ~({kread[k], high[kmode[k]]} \subseteq
            IncrementLevel..(MaxBrightness - IncrementLevel))
  \/ kread[k] > MaxBrightness

\* Keys of any number of listener threads and writes of both levels behave as
\* single steps, although each is two critical sections: a key moves the level
\* by an increment and is clamped at both ends, from every level, none is lost
\* to another key or a write, and a sysctl stores only values of the scale.
\* The exception is a key that is overtaken close to an end of the scale.
KeysAreAtomic ==
  /\ Store!Init
  /\ [][(\E k \in KeyThreads : KeyDone(k) /\ OvertakenNearAnEnd(k))
        \/ Store!Next]_<<low, high>>
  /\ [][\A k \in KeyThreads : KeyDone(k) /\ ~OvertakenNearAnEnd(k) =>
          Store!Press(kmode[k], Relative(key[k]))]_vars
=============================================================================
