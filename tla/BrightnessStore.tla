-------------------------- MODULE BrightnessStore --------------------------
(***************************************************************************)
(* What framework_screen.c promises about the brightness levels: a key     *)
(* moves brightness_high by one increment and stops at the ends of the     *)
(* scale, a sysctl stores a value of the scale, and each does so at one    *)
(* instant.  Module Screen is the detailed specification.                  *)
(***************************************************************************)
EXTENDS Integers

CONSTANTS
  Modes,        \* the power modes
  Top,          \* the highest value of the scale
  Increment,    \* what one key adds or takes away
  InitLow,      \* the low levels to start from
  InitHigh      \* the high levels to start from

VARIABLES low, high

Scale == 0..Top

Init == low = InitLow /\ high \in InitHigh

\* The nearest value of the scale
Clamp(n) == IF n < 0 THEN 0 ELSE IF n > Top THEN Top ELSE n

Press(m, relative) ==
  /\ high' = [high EXCEPT ![m] = Clamp(@ + relative)]
  /\ UNCHANGED low

Store(m, v) ==
  \/ low' = [low EXCEPT ![m] = v] /\ UNCHANGED high
  \/ high' = [high EXCEPT ![m] = v] /\ UNCHANGED low

Next ==
  \E m \in Modes :
    \/ \E relative \in {-Increment, Increment} : Press(m, relative)
    \/ \E v \in Scale : Store(m, v)

Spec == Init /\ [][Next]_<<low, high>>
=============================================================================
