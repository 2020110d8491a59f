------------------------------ MODULE MCCallout ------------------------------
(* Callout on small instances; the listeners are interchangeable.          *)
EXTENDS Callout, TLC

ListenerSymmetry == Permutations(Listeners)
=============================================================================
