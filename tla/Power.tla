-------------------------------- MODULE Power --------------------------------
(***************************************************************************)
(* framework_power.c: framework_pwr_getpowermode under concurrent callers  *)
(* (callout thread, listeners, the sysctl powermode).  A query samples the *)
(* battery without the lock, classifies and stores the sample in a first   *)
(* section under framework_power.lock, and reads the mode back in a second.*)
(***************************************************************************)
EXTENDS FiniteSets

CONSTANTS
  Threads,      \* the callers
  States,       \* battery states that occur: subset of BattStates
  QueryFails    \* acpi_battery_get_battinfo may fail: subset of BOOLEAN

\* The bits of battinfo.state that occur: none, one, or CRITICAL together
\* with DISCHARG, which a battery that runs out reports.
BattStates == {"none", "charging", "discharging", "critical",
               "critical+discharging"}

ASSUME PowerAssumption ==
  States \subseteq BattStates /\ QueryFails \subseteq BOOLEAN
  /\ "nobody" \notin Threads

VARIABLES
  battery,      \* the state of the battery
  power_state,  \* framework_power.power_state
  owner,        \* holder of framework_power.lock between steps, or "nobody"
  pc,           \* "idle", "sample", "store" or "read"
  local,        \* local_battinfo.state
  result,       \* what the last query returned
  recent        \* history: modes the battery was in, or failed queries made up,
                \* since the last moment at which no query was running

queryVars == <<pc, local, result>>
vars      == <<battery, power_state, owner, queryVars, recent>>

\* The switch of framework_pwr_loadbattinfo
ModeOf(state) ==
  CASE state \in {"none", "charging"}          -> "PWR"
    [] state \in {"critical", "discharging"}   -> "BAT"
    [] state = "critical+discharging"          -> "IVL"

Known == {s \in States : ModeOf(s) # "IVL"}

TypeOK ==
  /\ battery \in States /\ power_state \in {"BAT", "PWR"}
  /\ owner \in Threads \union {"nobody"}
  /\ pc \in [Threads -> {"idle", "sample", "store", "read"}]
  /\ local \in [Threads -> BattStates]
  /\ result \in [Threads -> {"none", "BAT", "PWR", "IVL"}]
  /\ recent \subseteq {"BAT", "PWR", "IVL"}

\* framework_pwr_init has loaded the battery once.
Init ==
  /\ battery \in Known /\ power_state = ModeOf(battery)
  /\ owner = "nobody"
  /\ pc = [t \in Threads |-> "idle"]
  /\ local = [t \in Threads |-> "none"]
  /\ result = [t \in Threads |-> "none"]
  /\ recent = {}

Goto(t, from, to) == pc[t] = from /\ pc' = [pc EXCEPT ![t] = to]

\* A thread that holds the mutex may take it again: mtx_lock only counts it.
Lockable(t) == owner \in {"nobody", t}

\* A query begins.
QueryBegin(t) ==
  /\ Goto(t, "idle", "sample")
  /\ result' = [result EXCEPT ![t] = "none"]
  /\ recent' = (IF \A u \in Threads : pc[u] = "idle" THEN {} ELSE recent)
               \union {ModeOf(battery)}
  /\ UNCHANGED <<battery, power_state, owner, local>>

\* acpi_battery_get_battinfo; its error code is overwritten, and the zeroed
\* structure is used.
QuerySample(t) ==
  /\ Goto(t, "sample", "store")
  /\ \E fails \in QueryFails :
       /\ local' = [local EXCEPT ![t] = IF fails THEN "none" ELSE battery]
       /\ recent' = IF fails THEN recent \union {"PWR"} ELSE recent
  /\ UNCHANGED <<battery, power_state, owner, result>>

StoreKeepsLock(t) ==
  /\ Lockable(t)
  /\ Goto(t, "store", "read")
  /\ owner' = t
  /\ power_state' = ModeOf(local[t])
  /\ UNCHANGED <<battery, local, result, recent>>

StoreUnmapped(t) ==
  /\ Lockable(t)
  /\ Goto(t, "store", "read")
  /\ power_state' = local[t]
  /\ UNCHANGED <<battery, owner, local, result, recent>>

StoreOnceOnly(t) ==
  /\ Lockable(t)
  /\ Goto(t, "store", "read")
  /\ UNCHANGED <<battery, power_state, owner, local, result, recent>>

\* The first section.  The default case of the switch returns from inside it.
QueryStore(t) ==
  /\ Lockable(t)
  /\ IF ModeOf(local[t]) = "IVL"
     THEN /\ Goto(t, "store", "idle")
          /\ owner' = t
          /\ result' = [result EXCEPT ![t] = "IVL"]
          /\ UNCHANGED power_state
     ELSE /\ Goto(t, "store", "read")
          /\ power_state' = ModeOf(local[t])
          /\ UNCHANGED <<owner, result>>
  /\ UNCHANGED <<battery, local, recent>>

\* The second section
QueryRead(t) ==
  /\ Lockable(t)
  /\ Goto(t, "read", "idle")
  /\ result' = [result EXCEPT ![t] = power_state]
  /\ UNCHANGED <<battery, power_state, owner, local, recent>>

QueryNext(t) == QuerySample(t) \/ QueryStore(t) \/ QueryRead(t)

\* The charger is plugged or unplugged, the battery fills or runs out.
BatteryChange ==
  /\ battery' \in States \ {battery}
  /\ recent' = IF \A t \in Threads : pc[t] = "idle" THEN recent
               ELSE recent \union {ModeOf(battery')}
  /\ UNCHANGED <<power_state, owner, queryVars>>

Next == BatteryChange \/ \E t \in Threads : QueryBegin(t) \/ QueryNext(t)

Spec == Init /\ [][Next]_vars

\* A thread in a query goes on when the lock lets it.
FairSpec == Spec /\ \A t \in Threads : WF_vars(QueryNext(t))

-----------------------------------------------------------------------------
(* Properties                                                              *)

\* What a query is about to return was true at some time since the last moment
\* at which no query was in progress: however the sections of the callers
\* interleave, an answer is no older than the queries that overlap.  (A failed
\* query counts as having found PWR: framework_pwr_loadbattinfo forgets the
\* error.)
RecentMode == \A t \in Threads : pc[t] = "read" => power_state \in recent

\* Every query returns, whatever the others did to the lock.
\* framework_callout.c:88 "if we can't establish anything, go to full brightness"
QueriesReturn == \A t \in Threads : pc[t] = "sample" ~> pc[t] = "idle"
=============================================================================
