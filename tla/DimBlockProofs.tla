--------------------------- MODULE DimBlockProofs ---------------------------
(***************************************************************************)
(* Proofs about DimBlock for every number of players, of processes that    *)
(* write 0 without being entitled to, and every width of the counter that  *)
(* can count the players.                                                  *)
(***************************************************************************)
EXTENDS DimBlock, FiniteSetTheorems, TLAPS

LEMMA TypeInit == Init => TypeOK
BY DimBlockAssumption DEF Init, TypeOK

LEMMA TypeNext == TypeOK /\ [Next]_vars => TypeOK'
<1> SUFFICES ASSUME TypeOK, [Next]_vars PROVE TypeOK'
  OBVIOUS
<1> USE DimBlockAssumption DEF TypeOK, Goto
<1>1. ASSUME NEW p \in Processes, HandlerRead(p) PROVE TypeOK'
  BY <1>1 DEF HandlerRead
<1>2. ASSUME NEW p \in Processes, HandlerStart(p) PROVE TypeOK'
  <2>1. count' \in 0..MaxCount
    BY <1>2 DEF HandlerStart, IncDimCount
  <2>2. QED BY <1>2, <2>1 DEF HandlerStart
<1>3. ASSUME NEW p \in Processes, HandlerStop(p) PROVE TypeOK'
  <2>1. count' \in 0..MaxCount
    BY <1>3 DEF HandlerStop, DecDimCount
  <2>2. QED BY <1>3, <2>1 DEF HandlerStop
<1>4. CASE UNCHANGED vars
  BY <1>4 DEF vars
<1>5. QED BY <1>1, <1>2, <1>3, <1>4 DEF Next

\* The counter stays in its word and every handler at one of its steps.
THEOREM TypeCorrect == Spec => []TypeOK
BY TypeInit, TypeNext, PTL DEF Spec

-----------------------------------------------------------------------------

\* The players whose stop will take 1 away from the counter.  A player that
\* read 0 when it stopped no longer counts, although it still blocks:
\* NeverMoreThanBlocking alone is not inductive, since the stop of that player
\* takes a blocking player away and leaves the counter as it is.
Counted == {p \in Players : \/ pc[p] = "on"
                            \/ pc[p] = "stopping" /\ counter[p] # 0}

\* And whoever starts is a player.
CountInv ==
  /\ count <= Cardinality(Counted)
  /\ \A p \in Strays : pc[p] \in {"off", "stopping"}

LEMMA PlayersCardinality ==
  ASSUME NEW S \in SUBSET Players
  PROVE  /\ IsFiniteSet(S) /\ Cardinality(S) \in Nat
         /\ Cardinality(S) <= Cardinality(Players) /\ Cardinality(S) < MaxCount
<1>1. IsFiniteSet(S) /\ Cardinality(S) <= Cardinality(Players)
  BY DimBlockAssumption, FS_Subset
<1>2. Cardinality(S) \in Nat /\ Cardinality(Players) \in Nat
  BY <1>1, DimBlockAssumption, FS_CardinalityType
<1>3. QED BY <1>1, <1>2, DimBlockAssumption

\* As long as the counter is below its limit an increment does not wrap.
LEMMA NoWrap ==
  ASSUME NEW n \in Nat, n < MaxCount
  PROVE  (n + 1) % (MaxCount + 1) = n + 1
BY DimBlockAssumption

LEMMA CountInit == Init => CountInv
<1> SUFFICES ASSUME Init PROVE CountInv
  OBVIOUS
<1>1. Counted \in SUBSET Players
  BY DEF Counted
<1>2. Cardinality(Counted) \in Nat
  BY <1>1, PlayersCardinality
<1>3. QED BY <1>2 DEF Init, CountInv, Processes

LEMMA CountStep == TypeOK /\ CountInv /\ [Next]_vars => CountInv'
<1> SUFFICES ASSUME TypeOK, CountInv, [Next]_vars PROVE CountInv'
  OBVIOUS
<1> USE DEF TypeOK, CountInv, Goto
<1>1. Counted \in SUBSET Players /\ Counted' \in SUBSET Players
  BY DEF Counted
<1>2. /\ IsFiniteSet(Counted)
      /\ Cardinality(Counted) \in Nat /\ Cardinality(Counted') \in Nat
      /\ Cardinality(Counted) < MaxCount
  BY <1>1, PlayersCardinality
<1>3. count \in Nat /\ count < MaxCount
  BY <1>2, DimBlockAssumption
<1>4. \A q \in Strays : pc'[q] \in {"off", "stopping"}
  <2>1. ASSUME NEW p \in Processes, HandlerRead(p)
        PROVE  \A q \in Strays : pc'[q] \in {"off", "stopping"}
    BY <2>1, DimBlockAssumption DEF HandlerRead, Processes
  <2>2. ASSUME NEW p \in Processes, HandlerStart(p) \/ HandlerStop(p)
        PROVE  \A q \in Strays : pc'[q] \in {"off", "stopping"}
    BY <2>2 DEF HandlerStart, HandlerStop, Processes
  <2>3. QED BY <2>1, <2>2 DEF Next, vars
<1>5. ASSUME NEW p \in Processes, HandlerRead(p) PROVE (count <= Cardinality(Counted))'
  <2>1. CASE count = 0
    BY <1>2, <1>5, <2>1 DEF HandlerRead
  <2>2. CASE count # 0
    <3>1. Counted' = Counted
      BY <1>5, <2>2, DimBlockAssumption DEF HandlerRead, Counted, Processes
    <3>2. QED BY <1>5, <3>1 DEF HandlerRead
  <2>3. QED BY <2>1, <2>2
<1>6. ASSUME NEW p \in Processes, HandlerStart(p) PROVE (count <= Cardinality(Counted))'
  <2>1. count' \in {count, count + 1}
    BY <1>3, <1>6, NoWrap DEF HandlerStart, IncDimCount
  <2>2. CASE p \in Players
    <3>1. Counted' = Counted \union {p} /\ p \notin Counted
      BY <1>6, <2>2 DEF HandlerStart, Counted
    <3>2. Cardinality(Counted') = Cardinality(Counted) + 1
      BY <1>2, <3>1, FS_AddElement
    <3>3. QED BY <1>2, <1>3, <2>1, <3>2
  <2>3. CASE p \in Strays
    BY <1>6, <2>3 DEF HandlerStart
  <2>4. QED BY <2>2, <2>3 DEF Processes
<1>7. ASSUME NEW p \in Processes, HandlerStop(p) PROVE (count <= Cardinality(Counted))'
  <2>1. CASE p \in Counted
    <3>1. Counted' = Counted \ {p}
      BY <1>1, <1>7, <2>1 DEF HandlerStop, Counted
    <3>2. Cardinality(Counted') = Cardinality(Counted) - 1
      BY <1>2, <2>1, <3>1, FS_RemoveElement
    <3>3. counter[p] # 0
      BY <1>7, <2>1 DEF HandlerStop, Counted
    <3>4. QED BY <1>2, <1>3, <1>7, <3>2, <3>3 DEF HandlerStop, DecDimCount
  <2>2. CASE p \notin Counted
    <3>1. Counted' = Counted
      BY <1>7, <2>2 DEF HandlerStop, Counted
    <3>2. count' <= count
      BY <1>3, <1>7 DEF HandlerStop, DecDimCount
    <3>3. count' \in Int
      BY <1>3, <1>7 DEF HandlerStop, DecDimCount
    <3>4. QED BY <1>2, <1>3, <3>1, <3>2, <3>3
  <2>3. QED BY <2>1, <2>2
<1>8. ASSUME UNCHANGED vars PROVE (count <= Cardinality(Counted))'
  BY <1>8 DEF vars, Counted
<1>9. QED BY <1>4, <1>5, <1>6, <1>7, <1>8 DEF Next

\* The counter never exceeds the players that block, although the handlers of
\* players and strangers overlap between their two sections.
THEOREM CountBounded == Spec => []NeverMoreThanBlocking
<1>1. ASSUME TypeOK, CountInv PROVE NeverMoreThanBlocking
  <2>1. Counted \in SUBSET Blocking /\ Blocking \in SUBSET Players
    BY DEF Counted, Blocking
  <2>2. IsFiniteSet(Blocking) /\ Cardinality(Blocking) \in Nat
    BY <2>1, PlayersCardinality
  <2>3. Cardinality(Counted) <= Cardinality(Blocking) /\ Cardinality(Counted) \in Nat
    BY <2>1, <2>2, FS_Subset, FS_CardinalityType
  <2>4. QED BY <1>1, <2>2, <2>3 DEF TypeOK, CountInv, NeverMoreThanBlocking
<1>2. QED BY TypeCorrect, CountInit, CountStep, <1>1, PTL DEF Spec

=============================================================================
