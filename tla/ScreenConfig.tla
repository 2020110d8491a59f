---------------------------- MODULE ScreenConfig ----------------------------
(***************************************************************************)
(* The data of framework_screen.c: one configuration per power mode, and   *)
(* what framework_screen_config_changebrightness computes.  The function   *)
(* reads brightness_high in one critical section and writes it in another, *)
(* so the decision taken on the value read and the write applied to the    *)
(* value found are two operators; the modules that use them place them in  *)
(* two steps.                                                              *)
(***************************************************************************)
EXTENDS Integers

CONSTANT
  UInt32Range   \* the number of values of a uint32_t: 2^32 on the machine

\* All that the comparisons of the code rely on: 0..100, an increment below
\* 100 and their sums fit the word.
ASSUME UInt32RangeAssumption == UInt32Range \in Nat /\ UInt32Range > 300

Modes == {"BAT", "PWR"}

MaxBrightness  == 100
IncrementLevel == 10

\* A uint32_t holds the residue of what was assigned to it.
Wrap(n) == n % UInt32Range

\* brightness_low and brightness_high as framework_screen_init sets them.
DefaultLow  == [m \in Modes |-> IF m = "PWR" THEN 30 ELSE 3]
DefaultHigh == [m \in Modes |-> IF m = "PWR" THEN 100 ELSE 40]

\* The early returns and the clamps, decided on the value that was read.
ChangeDecision(read, relative) ==
  IF relative < 0
  THEN IF read = 0 THEN "keep"
       ELSE IF -relative > read THEN "bottom" ELSE "add"
  ELSE IF read = MaxBrightness THEN "keep"
       ELSE IF Wrap(read + relative) > MaxBrightness THEN "top" ELSE "add"

\* The assignment, applied to the value present when the lock is taken again.
ChangeApply(decision, current, relative) ==
  CASE decision = "keep"   -> current
    [] decision = "bottom" -> 0
    [] decision = "top"    -> MaxBrightness
    [] decision = "add"    -> Wrap(current + relative)

\* framework_keyhandler_changebrightness: up ? increment : -increment
Relative(key) == IF key = "up" THEN IncrementLevel ELSE -IncrementLevel
=============================================================================
