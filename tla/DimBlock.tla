------------------------------ MODULE DimBlock ------------------------------
(***************************************************************************)
(* The counter of dim blockers (framework_state.c) under its sysctl        *)
(* (framework_sysctl_dimblock), written by the players' scripts: one write *)
(* when a player starts, a write of 0 when it stops.  The handler reads    *)
(* the counter in one section and changes it in another.                   *)
(***************************************************************************)
EXTENDS Integers, FiniteSets

CONSTANTS
  Players,      \* processes that wrap a player
  StartValue,   \* what they write to start blocking: any value > 0
  Strays,       \* processes that write 0 without having started
  MaxCount      \* largest value of a uint32_t

ASSUME DimBlockAssumption ==
  /\ IsFiniteSet(Players) /\ Players \intersect Strays = {}
  /\ StartValue \in Nat \ {0}
  /\ MaxCount \in Nat /\ MaxCount > Cardinality(Players)

Processes == Players \union Strays

VARIABLES
  count,        \* state->block_dim_count
  pc,           \* a process: "off", "starting", "on", "stopping"
  counter       \* the local copy of the counter in its handler

vars == <<count, pc, counter>>

TypeOK ==
  /\ count \in 0..MaxCount
  /\ pc \in [Processes -> {"off", "starting", "on", "stopping"}]
  /\ counter \in [Processes -> 0..MaxCount]

Init ==
  /\ count = 0
  /\ pc = [p \in Processes |-> "off"]
  /\ counter = [p \in Processes |-> 0]

Goto(p, from, to) == pc[p] = from /\ pc' = [pc EXCEPT ![p] = to]

-----------------------------------------------------------------------------
(* framework_state_incdimcount and framework_state_decdimcount             *)

IncDimCount == count' = (count + 1) % (MaxCount + 1)

DecSigned == count' = count - 1

DecUnchecked == count' = (count + MaxCount) % (MaxCount + 1)

DecDimCount == count' = IF count = 0 THEN count ELSE count - 1

-----------------------------------------------------------------------------
(* framework_sysctl_dimblock                                               *)

\* framework_state_getdimcount
HandlerRead(p) ==
  /\ \/ p \in Players /\ Goto(p, "off", "starting")
     \/ p \in Players /\ Goto(p, "on", "stopping")
     \/ p \in Strays /\ Goto(p, "off", "stopping")
  /\ counter' = [counter EXCEPT ![p] = count]
  /\ UNCHANGED count

\* A value above 0 counts as one more blocker, unless it equals the counter.
HandlerStart(p) ==
  /\ Goto(p, "starting", "on")
  /\ IF StartValue # counter[p] THEN IncDimCount ELSE UNCHANGED count
  /\ counter' = [counter EXCEPT ![p] = 0]

\* 0 counts as one blocker less, unless the counter was 0.
HandlerStop(p) ==
  /\ Goto(p, "stopping", "off")
  /\ IF counter[p] # 0 THEN DecDimCount ELSE UNCHANGED count
  /\ counter' = [counter EXCEPT ![p] = 0]

Next == \E p \in Processes :
          HandlerRead(p) \/ HandlerStart(p) \/ HandlerStop(p)

Spec == Init /\ [][Next]_vars

-----------------------------------------------------------------------------
(* Properties                                                              *)

\* The players whose blocking is in effect
Blocking == {p \in Players : pc[p] \in {"on", "stopping"}}

\* The counter never exceeds the players that block: writes of 0 nobody is
\* entitled to, and handlers that overlap, never make it wrap below zero.
NeverMoreThanBlocking == count <= Cardinality(Blocking)
=============================================================================
