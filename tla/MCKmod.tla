------------------------------- MODULE MCKmod -------------------------------
(* Kmod with a keyboard that is monitored for its short name, a mouse that *)
(* is monitored for its full name, and a lid switch that is not.           *)
EXTENDS Kmod

CONSTANTS kbd, mouse, lid

MCNodes ==
  << [dev |-> kbd,   short |-> "kbdmux0", full |-> "System keyboard multiplexer"],
     [dev |-> lid,   short |-> "acpi_lid0", full |-> "Lid Switch"],
     [dev |-> mouse, short |-> "ums0", full |-> "mouse"] >>

MCBegins == {<<"kbdmux", "kbdmux0">>}
MCMaxReports == [d \in {kbd, mouse, lid} |-> IF d = kbd THEN 2 ELSE 1]
MCInside == {<<"mouse", "sysmouse">>}

-----------------------------------------------------------------------------
(* Two kinds of behaviours, whose product is too large: with input of both *)
(* devices and battery states the driver knows, so that no lock is left    *)
(* held and a handler that asks is as any other; and with any battery      *)
(* states while the mouse gives no input.                                  *)

VARIABLE knows  \* the first kind

MCInit == Init /\ knows \in BOOLEAN

MCNext ==
  /\ Next
  /\ IF knows THEN UNCHANGED <<pwrowner, asking>> ELSE buffer'[mouse] = <<>>
  /\ UNCHANGED knows

MCSpec == MCInit /\ [][MCNext]_<<vars, knows>> /\ Fairness
=============================================================================
