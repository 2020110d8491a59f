---------------------------- MODULE PowerProofs ----------------------------
(***************************************************************************)
(* Proofs about Power for every set of callers, every battery of the known *)
(* states, and queries that fail or not.                                   *)
(***************************************************************************)
EXTENDS Power, TLAPS

\* A state of the battery has a mode.
LEMMA ModeType == ASSUME NEW s \in BattStates PROVE ModeOf(s) \in {"BAT", "PWR", "IVL"}
BY DEF BattStates, ModeOf

LEMMA TypeInit == Init => TypeOK
<1> SUFFICES ASSUME Init PROVE TypeOK
  OBVIOUS
<1>1. battery \in States /\ power_state \in {"BAT", "PWR"}
  BY PowerAssumption, ModeType DEF Init, Known
<1>2. local \in [Threads -> BattStates]
  BY DEF Init, BattStates
<1>3. QED BY <1>1, <1>2 DEF Init, TypeOK

LEMMA TypeNext == TypeOK /\ [Next]_vars => TypeOK'
<1> SUFFICES ASSUME TypeOK, [Next]_vars PROVE TypeOK'
  OBVIOUS
<1> USE PowerAssumption DEF TypeOK, Goto
<1>1. ModeOf(battery) \in {"BAT", "PWR", "IVL"}
  BY ModeType
<1>2. CASE BatteryChange
  <2>1. ModeOf(battery') \in {"BAT", "PWR", "IVL"}
    BY <1>2, ModeType DEF BatteryChange
  <2>2. QED BY <1>2, <2>1 DEF BatteryChange, queryVars
<1>3. ASSUME NEW t \in Threads, QueryBegin(t) PROVE TypeOK'
  BY <1>1, <1>3 DEF QueryBegin
<1>4. ASSUME NEW t \in Threads, QuerySample(t) PROVE TypeOK'
  BY <1>4 DEF QuerySample, BattStates
<1>5. ASSUME NEW t \in Threads, QueryStore(t) PROVE TypeOK'
  <2>1. ModeOf(local[t]) \in {"BAT", "PWR", "IVL"}
    BY ModeType
  <2>2. CASE ModeOf(local[t]) = "IVL"
    BY <1>5, <2>2 DEF QueryStore
  <2>3. CASE ModeOf(local[t]) # "IVL"
    BY <1>5, <2>1, <2>3 DEF QueryStore
  <2>4. QED BY <2>2, <2>3
<1>6. ASSUME NEW t \in Threads, QueryRead(t) PROVE TypeOK'
  BY <1>6 DEF QueryRead
<1>7. CASE UNCHANGED vars
  BY <1>7 DEF vars, queryVars
<1>8. QED BY <1>2, <1>3, <1>4, <1>5, <1>6, <1>7 DEF Next, QueryNext

\* The modes, the queries and the lock keep their types.
THEOREM TypeCorrect == Spec => []TypeOK
BY TypeInit, TypeNext, PTL DEF Spec

-----------------------------------------------------------------------------

\* While a query runs the history follows the battery; what a query has sampled
\* is in it, and so is the mode that any query would read.  The last holds of
\* every query at once, although power_state is whatever the last of them
\* stored: that is why the samples of the others have to be in the invariant.
RecentInv ==
  \A t \in Threads :
    /\ pc[t] # "idle" => ModeOf(battery) \in recent
    /\ pc[t] = "store" => ModeOf(local[t]) \in recent
    /\ pc[t] = "read" => power_state \in recent

LEMMA RecentInit == Init => RecentInv
BY DEF Init, RecentInv

LEMMA RecentStep == TypeOK /\ RecentInv /\ [Next]_vars => RecentInv'
<1> SUFFICES ASSUME TypeOK, RecentInv, [Next]_vars PROVE RecentInv'
  OBVIOUS
<1> USE DEF TypeOK, RecentInv, Goto
<1>1. CASE BatteryChange
  <2>1. CASE \A t \in Threads : pc[t] = "idle"
    BY <1>1, <2>1 DEF BatteryChange, queryVars
  <2>2. CASE ~\A t \in Threads : pc[t] = "idle"
    BY <1>1, <2>2 DEF BatteryChange, queryVars
  <2>3. QED BY <2>1, <2>2
<1>2. ASSUME NEW t \in Threads, QueryBegin(t) PROVE RecentInv'
  <2>1. CASE \A u \in Threads : pc[u] = "idle"
    BY <1>2, <2>1 DEF QueryBegin
  <2>2. CASE ~\A u \in Threads : pc[u] = "idle"
    BY <1>2, <2>2 DEF QueryBegin
  <2>3. QED BY <2>1, <2>2
<1>3. ASSUME NEW t \in Threads, QuerySample(t) PROVE RecentInv'
  <2>1. PICK fails \in QueryFails :
          /\ local' = [local EXCEPT ![t] = IF fails THEN "none" ELSE battery]
          /\ recent' = IF fails THEN recent \union {"PWR"} ELSE recent
    BY <1>3 DEF QuerySample
  <2>2. ModeOf("none") = "PWR"
    BY DEF ModeOf
  <2>3. ModeOf(local'[t]) \in recent'
    BY <1>3, <2>1, <2>2 DEF QuerySample
  <2>4. recent \subseteq recent'
    BY <2>1
  <2>5. QED BY <1>3, <2>1, <2>3, <2>4 DEF QuerySample
<1>4. ASSUME NEW t \in Threads, QueryStore(t) PROVE RecentInv'
  <2>1. CASE ModeOf(local[t]) = "IVL"
    BY <1>4, <2>1 DEF QueryStore
  <2>2. CASE ModeOf(local[t]) # "IVL"
    <3>1. power_state' \in recent
      BY <1>4, <2>2 DEF QueryStore
    <3>2. QED BY <1>4, <2>2, <3>1 DEF QueryStore
  <2>3. QED BY <2>1, <2>2
<1>5. ASSUME NEW t \in Threads, QueryRead(t) PROVE RecentInv'
  BY <1>5 DEF QueryRead
<1>6. CASE UNCHANGED vars
  BY <1>6 DEF vars, queryVars
<1>7. QED BY <1>1, <1>2, <1>3, <1>4, <1>5, <1>6 DEF Next, QueryNext

\* The mode a query is about to return is one the battery was in while queries
\* overlapped, for any number of callers.  The proof does not use the lock: the
\* two sections and the sample outside of them are enough.
THEOREM ModeIsRecent == Spec => []RecentMode
<1>1. RecentInv => RecentMode
  BY DEF RecentInv, RecentMode
<1>2. QED BY TypeCorrect, RecentInit, RecentStep, <1>1, PTL DEF Spec
=============================================================================
