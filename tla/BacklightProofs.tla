-------------------------- MODULE BacklightProofs --------------------------
(***************************************************************************)
(* Proofs about Backlight for every number of callers and readers, every   *)
(* set of levels, and queries and updates that fail or not.                *)
(***************************************************************************)
EXTENDS Backlight, TLAPS

LEMMA TypeInit == Init => TypeOK
BY BacklightAssumption DEF Init, TypeOK, Threads

\* What the arrival of a thread may add to the mishaps, and that none is
\* forgotten
LEMMA ArrivalAdds ==
  ASSUME NEW t, NEW failed, Arrives(t, failed)
  PROVE  /\ mishaps \subseteq mishaps'
         /\ mishaps' \subseteq mishaps \union {"setters", "reader", "failure"}
         /\ failed => "failure" \in mishaps'
BY DEF Arrives

LEMMA TypeNext == TypeOK /\ [Next]_vars => TypeOK'
<1> SUFFICES ASSUME TypeOK, [Next]_vars PROVE TypeOK'
  OBVIOUS
<1> USE DEF TypeOK, Goto, Threads
<1>1. ASSUME NEW t \in Setters, NEW b \in Levels, SetBegin(t, b) PROVE TypeOK'
  <2>1. PICK failed \in QueryFails :
          /\ Load(failed) /\ Arrives(t, failed)
          /\ Goto(t, "idle", IF failed THEN "failed" ELSE "loaded")
    BY <1>1 DEF SetBegin
  <2>2. mishaps' \subseteq {"setters", "reader", "failure"}
    BY <2>1, ArrivalAdds
  <2>3. QED BY <1>1, <2>1, <2>2 DEF SetBegin, Load
<1>2. ASSUME NEW t \in Setters, SetCompare(t) PROVE TypeOK'
  BY <1>2 DEF SetCompare
<1>3. ASSUME NEW t \in Setters, SetAssign(t) PROVE TypeOK'
  BY <1>3 DEF SetAssign
<1>4. ASSUME NEW t \in Setters, SetUpdate(t) PROVE TypeOK'
  BY <1>4 DEF SetUpdate
<1>5. ASSUME NEW t \in Setters, SetCache(t) PROVE TypeOK'
  BY <1>5 DEF SetCache
<1>6. ASSUME NEW t \in Readers, GetLoad(t) PROVE TypeOK'
  <2>1. PICK failed \in QueryFails :
          /\ Load(failed) /\ Arrives(t, failed)
          /\ Goto(t, "idle", IF failed THEN "failed" ELSE "loaded")
    BY <1>6 DEF GetLoad
  <2>2. mishaps' \subseteq {"setters", "reader", "failure"}
    BY <2>1, ArrivalAdds
  <2>3. QED BY <1>6, <2>1, <2>2 DEF GetLoad, Load
<1>7. ASSUME NEW t \in Readers, GetReturn(t) PROVE TypeOK'
  BY <1>7 DEF GetReturn
<1>8. CASE UNCHANGED vars
  BY <1>8 DEF vars
<1>9. QED BY <1>1, <1>2, <1>3, <1>4, <1>5, <1>6, <1>7, <1>8 DEF Next

\* The panel, the structure and the callers keep their types.
THEOREM TypeCorrect == Spec => []TypeOK
BY TypeInit, TypeNext, PTL DEF Spec

-----------------------------------------------------------------------------

\* The structure, the panel and every caller's argument are values asked for:
\* whoever updates the panel next, with whatever the structure holds by then,
\* writes one of them.
AskedInv == {hw, props} \union {want[t] : t \in Threads} \subseteq asked

LEMMA AskedInit == Init => AskedInv
BY DEF Init, AskedInv

LEMMA AskedStep == TypeOK /\ AskedInv /\ [Next]_vars => AskedInv'
<1> SUFFICES ASSUME TypeOK, AskedInv, [Next]_vars PROVE AskedInv'
  OBVIOUS
<1> USE DEF TypeOK, AskedInv, Threads
<1>1. ASSUME NEW t \in Setters, NEW b \in Levels, SetBegin(t, b) PROVE AskedInv'
  BY <1>1 DEF SetBegin, Load
<1>2. ASSUME NEW t \in Setters, SetCompare(t) PROVE AskedInv'
  BY <1>2 DEF SetCompare
<1>3. ASSUME NEW t \in Setters, SetAssign(t) PROVE AskedInv'
  BY <1>3 DEF SetAssign
<1>4. ASSUME NEW t \in Setters, SetUpdate(t) PROVE AskedInv'
  BY <1>4 DEF SetUpdate
<1>5. ASSUME NEW t \in Setters, SetCache(t) PROVE AskedInv'
  BY <1>5 DEF SetCache
<1>6. ASSUME NEW t \in Readers, GetLoad(t) PROVE AskedInv'
  BY <1>6 DEF GetLoad, Load
<1>7. ASSUME NEW t \in Readers, GetReturn(t) PROVE AskedInv'
  BY <1>7 DEF GetReturn
<1>8. CASE UNCHANGED vars
  BY <1>8 DEF vars
<1>9. QED BY <1>1, <1>2, <1>3, <1>4, <1>5, <1>6, <1>7, <1>8 DEF Next

\* The panel shows only a brightness that some caller asked for, whatever
\* overlaps and whatever fails.
THEOREM PanelRequested == Spec => []PanelShowsRequested
<1>1. AskedInv => PanelShowsRequested
  BY DEF AskedInv, PanelShowsRequested
<1>2. QED BY TypeCorrect, AskedInit, AskedStep, <1>1, PTL DEF Spec

-----------------------------------------------------------------------------

\* Threads in the structure, one at a time so far
Alone == \A t, u \in Threads : pc[t] # "idle" /\ pc[u] # "idle" => t = u

\* What the only thread in the structure knows at each of its places
Follows(t) ==
  /\ pc[t] \in {"loaded", "failed", "assign", "update"} => cached = hw
  /\ pc[t] = "update" => props = want[t]
  /\ pc[t] = "cache" => hw = want[t]

CacheInv ==
  mishaps \subseteq {"failure"} =>
    /\ Alone /\ \A t \in Threads : Follows(t)
    /\ Idle => cached = hw

\* One thread that arrives where another is leaves a mishap behind.
LEMMA ArrivalAlone ==
  ASSUME NEW t \in Threads, NEW failed, Arrives(t, failed),
         mishaps' \subseteq {"failure"}
  PROVE  mishaps \subseteq {"failure"} /\ \A u \in Threads \ {t} : pc[u] = "idle"
<1>1. mishaps \subseteq {"failure"}
  BY ArrivalAdds
<1>2. ASSUME NEW u \in Threads \ {t}, pc[u] # "idle" PROVE FALSE
  <2> DEFINE others == {v \in Threads \ {t} : pc[v] # "idle"}
  <2>1. u \in others
    BY <1>2
  <2>2. CASE t \in Readers \/ u \in Readers
    <3>1. "reader" \in mishaps'
      BY <2>1, <2>2 DEF Arrives
    <3>2. QED BY <3>1
  <2>3. CASE t \in Setters /\ u \in Setters
    <3>1. "setters" \in mishaps'
      BY <2>1, <2>3 DEF Arrives
    <3>2. QED BY <3>1
  <2>4. QED BY <2>2, <2>3 DEF Threads
<1>3. QED BY <1>1, <1>2

LEMMA CacheInit == Init => CacheInv
BY DEF Init, CacheInv, Alone, Follows

LEMMA CacheStep == TypeOK /\ CacheInv /\ [Next]_vars => CacheInv'
<1> SUFFICES ASSUME TypeOK, CacheInv, [Next]_vars, (mishaps \subseteq {"failure"})'
             PROVE  (/\ Alone /\ \A t \in Threads : Follows(t)
                     /\ Idle => cached = hw)'
  BY DEF CacheInv
<1> USE DEF TypeOK, Goto, Threads
\* A thread that arrives
<1>1. ASSUME NEW t \in Threads, NEW failed \in QueryFails,
             Load(failed), Arrives(t, failed), UNCHANGED <<hw, cached>>,
             Goto(t, "idle", IF failed THEN "failed" ELSE "loaded")
      PROVE  (/\ Alone /\ \A u \in Threads : Follows(u)
              /\ Idle => cached = hw)'
  <2>1. mishaps \subseteq {"failure"} /\ \A u \in Threads \ {t} : pc[u] = "idle"
    BY <1>1, ArrivalAlone
  <2>2. Idle
    BY <1>1, <2>1 DEF Idle
  <2>3. cached = hw
    BY <2>1, <2>2 DEF CacheInv
  <2>4. \A u \in Threads \ {t} : pc'[u] = "idle"
    BY <1>1, <2>1
  <2>5. pc'[t] \in {"failed", "loaded"}
    BY <1>1
  <2>6. QED BY <1>1, <2>3, <2>4, <2>5 DEF Alone, Follows, Idle
\* A step of the thread that is in the structure
<1>2. ASSUME NEW t \in Threads, pc[t] # "idle", mishaps \subseteq {"failure"},
             \A u \in Threads \ {t} : pc'[u] = pc[u],
             Follows(t)', pc'[t] = "idle" => cached' = hw'
      PROVE  (/\ Alone /\ \A u \in Threads : Follows(u)
              /\ Idle => cached = hw)'
  <2>1. \A u \in Threads \ {t} : pc'[u] = "idle"
    BY <1>2 DEF CacheInv, Alone
  <2>2. QED BY <1>2, <2>1 DEF Alone, Follows, Idle
<1>3. ASSUME NEW t \in Setters, NEW b \in Levels, SetBegin(t, b)
      PROVE  (/\ Alone /\ \A u \in Threads : Follows(u)
              /\ Idle => cached = hw)'
  BY <1>1, <1>3 DEF SetBegin
<1>4. ASSUME NEW t \in Setters, SetCompare(t)
      PROVE  (/\ Alone /\ \A u \in Threads : Follows(u)
              /\ Idle => cached = hw)'
  <2>1. cached = hw
    BY <1>4 DEF SetCompare, CacheInv, Follows
  <2>2. QED BY <1>2, <1>4, <2>1 DEF SetCompare, Follows
<1>5. ASSUME NEW t \in Setters, SetAssign(t)
      PROVE  (/\ Alone /\ \A u \in Threads : Follows(u)
              /\ Idle => cached = hw)'
  <2>1. cached = hw
    BY <1>5 DEF SetAssign, CacheInv, Follows
  <2>2. QED BY <1>2, <1>5, <2>1 DEF SetAssign, Follows
<1>6. ASSUME NEW t \in Setters, SetUpdate(t)
      PROVE  (/\ Alone /\ \A u \in Threads : Follows(u)
              /\ Idle => cached = hw)'
  <2>1. mishaps \subseteq {"failure"}
    BY <1>6 DEF SetUpdate
  <2>2. cached = hw /\ props = want[t]
    BY <1>6, <2>1 DEF SetUpdate, CacheInv, Follows
  <2>3. QED BY <1>2, <1>6, <2>1, <2>2 DEF SetUpdate, Follows
<1>7. ASSUME NEW t \in Setters, SetCache(t)
      PROVE  (/\ Alone /\ \A u \in Threads : Follows(u)
              /\ Idle => cached = hw)'
  <2>1. hw = want[t]
    BY <1>7 DEF SetCache, CacheInv, Follows
  <2>2. QED BY <1>2, <1>7, <2>1 DEF SetCache, Follows
<1>8. ASSUME NEW t \in Readers, GetLoad(t)
      PROVE  (/\ Alone /\ \A u \in Threads : Follows(u)
              /\ Idle => cached = hw)'
  BY <1>1, <1>8 DEF GetLoad
<1>9. ASSUME NEW t \in Readers, GetReturn(t)
      PROVE  (/\ Alone /\ \A u \in Threads : Follows(u)
              /\ Idle => cached = hw)'
  <2>1. cached = hw
    BY <1>9 DEF GetReturn, CacheInv, Follows
  <2>2. QED BY <1>2, <1>9, <2>1 DEF GetReturn, Follows
<1>10. CASE UNCHANGED vars
  BY <1>10 DEF vars, CacheInv, Alone, Follows, Idle
<1>11. QED BY <1>3, <1>4, <1>5, <1>6, <1>7, <1>8, <1>9, <1>10 DEF Next

\* Outside the functions the cached value is what the panel shows, when the
\* threads come one at a time, also after queries and updates that failed.
THEOREM CacheCorrect == Spec => []CacheFollowsPanel
<1>1. CacheInv => CacheFollowsPanel
  BY DEF CacheInv, CacheFollowsPanel
<1>2. QED BY TypeCorrect, CacheInit, CacheStep, <1>1, PTL DEF Spec

-----------------------------------------------------------------------------

Requested(b) == \E t \in Setters : want[t] = b

\* Callers alone share the structure and no call failed.  The structure differs
\* from the panel only while an update of it is on its way, and holds then what
\* somebody wants; and as long as the panel shows what nobody wants, somebody
\* will still assign, or an update is on its way with the structure right.
SettleInv ==
  mishaps \subseteq {"setters"} =>
    /\ \A t \in Threads : pc[t] # "failed"
    /\ \A t \in Readers : pc[t] \in {"idle", "loaded"}
    /\ props = hw \/ (Requested(props) /\ \E t \in Setters : pc[t] = "update")
    /\ \/ Requested(hw) \/ Requested(props)
       \/ \E t \in Setters : pc[t] \in {"loaded", "assign"}

\* A reader that arrives while a caller is in the structure leaves a mishap.
LEMMA ArrivalSettled ==
  ASSUME NEW t \in Threads, NEW failed, Arrives(t, failed),
         mishaps' \subseteq {"setters"}
  PROVE  /\ mishaps \subseteq {"setters"} /\ ~failed
         /\ t \in Readers => \A u \in Setters \ {t} : pc[u] = "idle"
<1>1. mishaps \subseteq {"setters"} /\ ~failed
  BY ArrivalAdds
<1>2. ASSUME t \in Readers, NEW u \in Setters \ {t}, pc[u] # "idle" PROVE FALSE
  <2>1. u \in {v \in Threads \ {t} : pc[v] # "idle"}
    BY <1>2 DEF Threads
  <2>2. "reader" \in mishaps'
    BY <1>2, <2>1 DEF Arrives
  <2>3. QED BY <2>2
<1>3. QED BY <1>1, <1>2

LEMMA SettleInit == Init => SettleInv
BY BacklightAssumption DEF Init, SettleInv, Requested, Threads

LEMMA SettleStep == TypeOK /\ SettleInv /\ [Next]_vars => SettleInv'
<1> SUFFICES ASSUME TypeOK, SettleInv, [Next]_vars PROVE SettleInv'
  OBVIOUS
<1> USE BacklightAssumption DEF TypeOK, Goto, Threads, SettleInv, Requested
<1>1. ASSUME NEW t \in Setters, NEW b \in Levels, SetBegin(t, b) PROVE SettleInv'
  <2> SUFFICES ASSUME mishaps' \subseteq {"setters"} PROVE SettleInv'
    OBVIOUS
  <2>1. PICK failed \in QueryFails :
          /\ Load(failed) /\ Arrives(t, failed)
          /\ Goto(t, "idle", IF failed THEN "failed" ELSE "loaded")
    BY <1>1 DEF SetBegin
  <2>2. mishaps \subseteq {"setters"} /\ ~failed
    BY <2>1, ArrivalSettled
  <2>3. props' = hw /\ hw' = hw /\ pc' = [pc EXCEPT ![t] = "loaded"]
    BY <1>1, <2>1, <2>2 DEF SetBegin, Load
  <2>4. QED BY <2>2, <2>3
<1>2. ASSUME NEW t \in Setters, SetCompare(t) PROVE SettleInv'
  <2> SUFFICES ASSUME mishaps' \subseteq {"setters"} PROVE SettleInv'
    OBVIOUS
  <2>1. pc' = [pc EXCEPT ![t] = IF want[t] = props THEN "idle" ELSE "assign"]
        /\ pc[t] = "loaded" /\ UNCHANGED <<hw, props, want, mishaps>>
    BY <1>2 DEF SetCompare
  <2>2. QED BY <2>1
<1>3. ASSUME NEW t \in Setters, SetAssign(t) PROVE SettleInv'
  BY <1>3 DEF SetAssign
<1>4. ASSUME NEW t \in Setters, SetUpdate(t) PROVE SettleInv'
  <2> SUFFICES ASSUME mishaps' \subseteq {"setters"} PROVE SettleInv'
    OBVIOUS
  <2>1. /\ pc[t] = "update" /\ pc' = [pc EXCEPT ![t] = "cache"]
        /\ hw' = props /\ UNCHANGED <<props, want, mishaps>>
    BY <1>4 DEF SetUpdate
  <2>2. QED BY <2>1
<1>5. ASSUME NEW t \in Setters, SetCache(t) PROVE SettleInv'
  BY <1>5 DEF SetCache
<1>6. ASSUME NEW t \in Readers, GetLoad(t) PROVE SettleInv'
  <2> SUFFICES ASSUME mishaps' \subseteq {"setters"} PROVE SettleInv'
    OBVIOUS
  <2>1. PICK failed \in QueryFails :
          /\ Load(failed) /\ Arrives(t, failed)
          /\ Goto(t, "idle", IF failed THEN "failed" ELSE "loaded")
    BY <1>6 DEF GetLoad
  <2>2. /\ mishaps \subseteq {"setters"} /\ ~failed
        /\ \A u \in Setters : pc[u] = "idle"
    BY <2>1, ArrivalSettled
  <2>3. props' = hw /\ hw' = hw /\ pc' = [pc EXCEPT ![t] = "loaded"]
    BY <1>6, <2>1, <2>2 DEF GetLoad, Load
  <2>4. Requested(hw)
    BY <2>2
  <2>5. QED BY <1>6, <2>2, <2>3, <2>4 DEF GetLoad
<1>7. ASSUME NEW t \in Readers, GetReturn(t) PROVE SettleInv'
  BY <1>7 DEF GetReturn
<1>8. CASE UNCHANGED vars
  BY <1>8 DEF vars
<1>9. QED BY <1>1, <1>2, <1>3, <1>4, <1>5, <1>6, <1>7, <1>8 DEF Next

\* However many callers overlap in the structure, and in whatever order their
\* queries, assignments and updates interleave, they leave the panel at a
\* brightness that one of them asked for last.
THEOREM PanelSettles == Spec => []SettlesOnRequest
<1>1. SettleInv => SettlesOnRequest
  BY DEF SettleInv, SettlesOnRequest, Idle, Requested, Threads
<1>2. QED BY TypeCorrect, SettleInit, SettleStep, <1>1, PTL DEF Spec
=============================================================================
