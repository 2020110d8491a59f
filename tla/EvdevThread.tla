---------------------------- MODULE EvdevThread ----------------------------
(***************************************************************************)
(* framework_evdev_thread.c: one listener thread and its evdev client.     *)
(*                                                                         *)
(* Processes                                                               *)
(*  - the listener (framework_evthread_func): sleeps on the client, and    *)
(*    for each wakeup clears the client's buffer and calls back;           *)
(*  - the loader: framework_evthread_init has run; it sets the callback,   *)
(*    registers the client, and on unload unregisters and destroys, in the *)
(*    order framework_evdev_matchdevs and framework_evdev_destroy have;    *)
(*  - evdev: a report is pushed into the buffer of a registered client     *)
(*    and, when the client is blocked, wakes whoever sleeps on it.         *)
(*                                                                         *)
(* Sections under the client's mutex (ec_buffer_mtx) and under the session *)
(* lock are one action each.  A session section nested in a client section *)
(* is merged with it: what runs between them under the session lock alone  *)
(* (DestroyDeactivate, ThreadShutdown) has the same effect before or after.*)
(***************************************************************************)
EXTENDS Integers

CONSTANTS
  MaxPending,   \* reports the client's ring buffer holds
  KthreadAdd,   \* outcomes of kthread_add: subset of BOOLEAN
  Register      \* outcomes of evdev_register_client: subset of BOOLEAN

ASSUME EvdevThreadAssumption ==
  MaxPending \in Nat \ {0} /\ KthreadAdd \subseteq BOOLEAN /\ Register \subseteq BOOLEAN

VARIABLES
  flags,        \* edata->flags without KQUEUE, which only destroy reads
  active,       \* edata->active
  cbset,        \* edata->cbfunc is not NULL
  blocked,      \* evdev_client->ec_blocked
  pending,      \* evdev_client->ec_buffer_ready
  registered,   \* the client is on the list of its device
  revoked,      \* evdev_client->ec_revoked
  freed,        \* client and edata were freed
  waited,       \* history: framework_evthread_destroy slept for the thread
  pc,           \* the listener
  lpc           \* the loader

clientVars == <<blocked, pending, registered, revoked>>
edataVars  == <<flags, active, cbset, freed, waited>>
vars       == <<clientVars, edataVars, pc, lpc>>

ThreadPcs == {"none", "start", "top", "asleep", "woken", "call", "incall",
              "check", "shutdown", "exit", "exited", "crashed"}
LoaderPcs == {"setcb", "register", "regflag", "loaded", "unclear", "unflag",
              "deactivate", "stop", "await", "dispose", "clear", "free", "done"}

TypeOK ==
  /\ flags \subseteq {"CLIENTREG", "THREAD", "SHUTDOWN"}
  /\ active \in BOOLEAN /\ cbset \in BOOLEAN
  /\ blocked \in BOOLEAN /\ pending \in 0..MaxPending
  /\ registered \in BOOLEAN /\ revoked \in BOOLEAN
  /\ freed \in BOOLEAN /\ waited \in BOOLEAN
  /\ pc \in ThreadPcs /\ lpc \in LoaderPcs

\* framework_evthread_init
Init ==
  /\ flags = {} /\ active = TRUE /\ cbset = FALSE
  /\ blocked = TRUE /\ pending = 0
  /\ registered = FALSE /\ revoked = FALSE
  /\ freed = FALSE /\ waited = FALSE
  /\ \E created \in KthreadAdd : pc = IF created THEN "start" ELSE "none"
  /\ lpc = "setcb"

-----------------------------------------------------------------------------
(* The listener.  Each of its steps up to "exited" dereferences edata, so  *)
(* with edata freed the kernel faults and the listener stays where it is.  *)

ThreadGoto(from, to) == ~freed /\ pc = from /\ pc' = to

\* add THREAD flag
ThreadStart ==
  /\ ThreadGoto("start", "top")
  /\ flags' = flags \union {"THREAD"}
  /\ UNCHANGED <<active, cbset, freed, waited, clientVars, lpc>>

TopKeepsBlocked ==
  /\ IF active THEN ThreadGoto("top", "asleep") ELSE ThreadGoto("top", "shutdown")
  /\ UNCHANGED <<pending, registered, revoked, blocked, edataVars, lpc>>

\* The top of the loop, in one hold of the client's mutex up to the msleep
\* that gives it up.
ThreadTop ==
  /\ IF active THEN ThreadGoto("top", "asleep") ELSE ThreadGoto("top", "shutdown")
  /\ blocked' = (active \/ blocked)
  /\ UNCHANGED <<pending, registered, revoked, edataVars, lpc>>

WokenTakesOne ==
  /\ ThreadGoto("woken", IF cbset THEN "call"
                         ELSE IF active THEN "top" ELSE "shutdown")
  /\ pending' = pending - 1
  /\ UNCHANGED <<blocked, registered, revoked, edataVars, lpc>>

\* From the return of msleep: the key of the first report is read, every
\* report is dropped and the callback is copied.  Without a callback the
\* thread keeps the mutex until it has read active.
ThreadWoken ==
  /\ ThreadGoto("woken", IF cbset THEN "call"
                         ELSE IF active THEN "top" ELSE "shutdown")
  /\ pending' = 0
  /\ UNCHANGED <<blocked, registered, revoked, edataVars, lpc>>

\* edata->cbfunc(...), without a lock and not through the copy: a pointer
\* that was cleared in between is called all the same.
ThreadCall ==
  /\ ThreadGoto("call", IF cbset THEN "incall" ELSE "crashed")
  /\ UNCHANGED <<clientVars, edataVars, lpc>>

\* the callback returns
ThreadReturn ==
  /\ ThreadGoto("incall", "check")
  /\ UNCHANGED <<clientVars, edataVars, lpc>>

\* local_active = edata->active
ThreadCheck ==
  /\ ThreadGoto("check", IF active THEN "top" ELSE "shutdown")
  /\ UNCHANGED <<clientVars, edataVars, lpc>>

\* adding SHUTDOWN flag
ThreadShutdown ==
  /\ ThreadGoto("shutdown", "exit")
  /\ flags' = flags \union {"SHUTDOWN"}
  /\ UNCHANGED <<active, cbset, freed, waited, clientVars, lpc>>

ExitSilently ==
  /\ ThreadGoto("exit", "exited")
  /\ flags' = flags \ {"THREAD"}
  /\ UNCHANGED <<active, cbset, freed, waited, clientVars, lpc>>

\* removing THREAD flag, wakeup on the client
ThreadExit ==
  /\ ThreadGoto("exit", "exited")
  /\ flags' = flags \ {"THREAD"}
  /\ lpc' = IF lpc = "await" THEN "dispose" ELSE lpc
  /\ UNCHANGED <<active, cbset, freed, waited, clientVars>>

ThreadNext ==
  \/ ThreadStart \/ ThreadTop \/ ThreadWoken \/ ThreadCall \/ ThreadReturn
  \/ ThreadCheck \/ ThreadShutdown \/ ThreadExit

-----------------------------------------------------------------------------
(* evdev_client_push and evdev_notify_event, external                      *)

\* A full buffer is emptied before the report is put into it; the listener is
\* signalled in any case.
Report ==
  /\ registered
  /\ pending' = IF pending < MaxPending THEN pending + 1 ELSE 1
  /\ blocked' = FALSE
  /\ pc'  = IF blocked /\ pc = "asleep" THEN "woken" ELSE pc
  /\ lpc' = IF blocked /\ lpc = "await" THEN "dispose" ELSE lpc
  /\ UNCHANGED <<registered, revoked, edataVars>>

-----------------------------------------------------------------------------
(* The loader                                                              *)

LoaderGoto(from, to) == lpc = from /\ lpc' = to

\* framework_evthread_setcb
SetCallback ==
  /\ LoaderGoto("setcb", "register")
  /\ cbset' = TRUE
  /\ UNCHANGED <<flags, active, freed, waited, clientVars, pc>>

\* evdev_register_client, which may fail
RegisterClient ==
  /\ LoaderGoto("register", "regflag")
  /\ \E ok \in Register : registered' = ok
  /\ UNCHANGED <<blocked, pending, revoked, edataVars, pc>>

\* the CLIENTREG flag, whatever evdev_register_client returned
RegisterFlag ==
  /\ LoaderGoto("regflag", "loaded")
  /\ flags' = flags \union {"CLIENTREG"}
  /\ UNCHANGED <<active, cbset, freed, waited, clientVars, pc>>

UnregisterForgetsDispose ==
  /\ LoaderGoto("loaded", "unclear")
  /\ revoked' = TRUE
  /\ UNCHANGED <<registered, blocked, pending, edataVars, pc>>

\* framework_evthread_unregisterclient: dispose and revoke the client.  To
\* dispose of a client that is on no list is a fault in evdev.
UnregisterClient ==
  /\ LoaderGoto("loaded", "unclear")
  /\ "CLIENTREG" \in flags /\ ~revoked /\ registered
  /\ registered' = FALSE /\ revoked' = TRUE
  /\ UNCHANGED <<blocked, pending, edataVars, pc>>

UnregisterClear ==
  /\ LoaderGoto("unclear", "unflag")
  /\ pending' = 0
  /\ UNCHANGED <<blocked, registered, revoked, edataVars, pc>>

UnregisterFlag ==
  /\ LoaderGoto("unflag", "deactivate")
  /\ flags' = flags \ {"CLIENTREG"}
  /\ UNCHANGED <<active, cbset, freed, waited, clientVars, pc>>

\* framework_evthread_destroy: active = false, cbfunc = NULL
DestroyDeactivate ==
  /\ LoaderGoto("deactivate", "stop")
  /\ active' = FALSE /\ cbset' = FALSE
  /\ UNCHANGED <<flags, freed, waited, clientVars, pc>>

StopNoWait ==
  /\ pc' = IF "THREAD" \in flags /\ pc = "asleep" THEN "woken" ELSE pc
  /\ LoaderGoto("stop", "dispose")
  /\ UNCHANGED <<edataVars, clientVars>>

StopWithoutWakeup ==
  /\ UNCHANGED pc
  /\ \/ /\ "THREAD" \in flags /\ "SHUTDOWN" \notin flags
        /\ LoaderGoto("stop", "await")
        /\ waited' = TRUE
     \/ /\ "THREAD" \notin flags \/ "SHUTDOWN" \in flags
        /\ LoaderGoto("stop", "dispose")
        /\ UNCHANGED waited
  /\ UNCHANGED <<flags, active, cbset, freed, clientVars>>

\* Under the client's mutex: a thread that has set THREAD is woken, and waited
\* for unless it has set SHUTDOWN.
DestroyStop ==
  /\ pc' = IF "THREAD" \in flags /\ pc = "asleep" THEN "woken" ELSE pc
  /\ \/ /\ "THREAD" \in flags /\ "SHUTDOWN" \notin flags
        /\ LoaderGoto("stop", "await")
        /\ waited' = TRUE
     \/ /\ "THREAD" \notin flags \/ "SHUTDOWN" \in flags
        /\ LoaderGoto("stop", "dispose")
        /\ UNCHANGED waited
  /\ UNCHANGED <<flags, active, cbset, freed, clientVars>>

\* A client that is still flagged is disposed of, and the flag removed.
DestroyDispose ==
  /\ LoaderGoto("dispose", "clear")
  /\ IF "CLIENTREG" \in flags
     THEN /\ ~revoked => registered
          /\ registered' = FALSE /\ revoked' = TRUE
          /\ flags' = flags \ {"CLIENTREG"}
     ELSE UNCHANGED <<registered, revoked, flags>>
  /\ UNCHANGED <<blocked, pending, active, cbset, freed, waited, pc>>

DestroyClear ==
  /\ LoaderGoto("clear", "free")
  /\ pending' = 0
  /\ UNCHANGED <<blocked, registered, revoked, edataVars, pc>>

\* mtx_destroy, free
DestroyFree ==
  /\ LoaderGoto("free", "done")
  /\ freed' = TRUE
  /\ UNCHANGED <<flags, active, cbset, waited, clientVars, pc>>

DestroyNext ==
  \/ UnregisterClear \/ UnregisterFlag \/ DestroyDeactivate \/ DestroyStop
  \/ DestroyDispose \/ DestroyClear \/ DestroyFree

LoaderNext ==
  \/ SetCallback \/ RegisterClient \/ RegisterFlag \/ UnregisterClient
  \/ DestroyNext

Next == ThreadNext \/ Report \/ LoaderNext

Spec == Init /\ [][Next]_vars

\* The kernel schedules both threads.  Input and the unload may never come.
Fairness == WF_vars(ThreadNext) /\ WF_vars(DestroyNext)

FairSpec == Spec /\ Fairness

-----------------------------------------------------------------------------
(* Properties                                                              *)

\* When framework_evthread_destroy sleeps for the listener, nothing but the
\* end of the listener wakes it: client and edata are freed only after the
\* listener's last access.  The wakeup in destroy itself, and reports, use the
\* same channel.
WaitedForThread == freed /\ waited => pc = "exited"

\* A listener asleep on a registered client can be woken by the next report.
\* framework_evdev_thread.c:161 "Need to reset blocked to ensure we are woken
\* up on next signal"
SleeperIsBlocked == pc = "asleep" => blocked

\* While framework_evthread_destroy sleeps, without a timeout, the listener has
\* started, does not sleep itself and has not ended: its wakeup is still to
\* come, for the flags and sleeps of both follow from each other in every order.
DestroyIsWoken == lpc = "await" => pc \notin {"none", "start", "asleep", "exited"}

\* framework_evthread_destroy returns, unless the listener brought the kernel
\* down: no interleaving of the two wakeups with the two sleeps on the client
\* leaves both asleep.
DestroyReturns == lpc = "deactivate" ~> (lpc = "done" \/ pc = "crashed")

\* The listener keeps what framework_evdev.c relies on: no callback before one
\* is set, none after framework_evthread_destroy withdrew it, and destroy goes
\* on to dispose and free only outside the callback, by whichever of its flags,
\* wakeups and sleeps it gets there.
Gate == IF lpc = "setcb" THEN "new"
        ELSE IF lpc \in {"stop", "await"} THEN "shut"
        ELSE IF lpc \in {"dispose", "clear", "free", "done"} THEN "gone"
        ELSE "open"
Promise == INSTANCE Listener WITH gate <- Gate, busy <- pc = "incall"
KeepsPromise == Promise!Spec
=============================================================================
