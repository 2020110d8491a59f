-------------------------------- MODULE Dbus --------------------------------
(***************************************************************************)
(* framework_debus.c: the program that listens to media players on the     *)
(* session bus and prints when a playback starts and stops.                *)
(*                                                                         *)
(* Processes                                                               *)
(*  - the main loop, connected and subscribed;                             *)
(*  - the bus, which queues messages: signals that properties changed, and *)
(*    others, as the one that announces the connection's own name;         *)
(*  - SIGINT and SIGTERM, handled between any two steps of the loop.       *)
(*                                                                         *)
(* Properties are a sequence of records: key, and value.  A value that is  *)
(* no string (metadata, a rate) is not in DOMAIN Upper.                    *)
(***************************************************************************)
EXTENDS Integers, SequencesExt

CONSTANTS
  Names,      \* interface names, the first argument of a change of properties
  Messages,   \* messages that may arrive: [member, name, props]
  Upper,      \* what makeupper does to a value, a function
  Malloc,     \* outcomes of malloc: subset of BOOLEAN
  MaxQueue    \* bound on the messages waiting

\* handler_map
HandlerMap == [PLAYING |-> "signal_start", PAUSED |-> "signal_stop",
               STOPPED |-> "signal_stop"]

\* A message without arguments has name "" and no properties.  PlaybackStatus is
\* one of the values that the players' interface gives it, and no other property
\* has such a value.
ASSUME DbusAssumption ==
  /\ "" \notin Names /\ Malloc \subseteq BOOLEAN /\ MaxQueue \in Nat \ {0}
  /\ \A m \in Messages :
       /\ m.name \in Names \/ (m.name = "" /\ m.props = <<>>)
       /\ m.props \in Seq([key : STRING, value : STRING])
  /\ \A m \in Messages : \A i \in DOMAIN m.props :
       LET p == m.props[i]
       IN  p.key = "PlaybackStatus" <=>
             p.value \in DOMAIN Upper /\ Upper[p.value] \in DOMAIN HandlerMap

VARIABLES
  active,    \* active
  queue,     \* messages that have arrived, oldest first
  parsed,    \* parsed_msg: name and playback_status
  players,   \* dbus_players, head first
  pc,        \* the main loop
  wants,     \* history, per name: the status last asked for, "" if it is unclear
  balance    \* history: starts printed less stops printed

vars == <<active, queue, parsed, players, pc, wants, balance>>

Zero == [name |-> "", status |-> ""]

Init ==
  /\ active = TRUE /\ queue = <<>> /\ parsed = Zero
  /\ players = <<>> /\ pc = "test"
  /\ wants = [n \in Names |-> "STOPPED"] /\ balance = 0

-----------------------------------------------------------------------------
(* The message                                                             *)

Strings(props) == {i \in DOMAIN props : props[i].value \in DOMAIN Upper}

\* parse_signal: the name is the first argument.  Every string value, of
\* whatever property, overwrites playback_status.
ParseSignal(msg, into) ==
  [name   |-> IF msg.name = "" THEN into.name ELSE msg.name,
   status |-> IF Strings(msg.props) = {} THEN into.status
              ELSE Upper[msg.props[Max(Strings(msg.props))].value]]

\* What the sender means: the value of PlaybackStatus.  It is unclear when
\* the value of another property hides it.
Meaning(msg, before) ==
  LET status == {i \in DOMAIN msg.props : msg.props[i].key = "PlaybackStatus"}
  IN  CASE status = {} -> before
        [] status # {} /\ Max(status) = Max(Strings(msg.props)) ->
             Upper[msg.props[Max(status)].value]
        [] OTHER -> ""

-----------------------------------------------------------------------------
(* The list of players                                                     *)

Known(name) == \E i \in DOMAIN players : players[i].name = name

\* LIST_FOREACH stops at the first entry of the name.
First(name, list) ==
  CHOOSE i \in DOMAIN list :
    list[i].name = name /\ \A j \in 1..(i - 1) : list[j].name # name

AlwaysAdds(name) == <<[name |-> name, state |-> 0]>> \o players

\* find_player: the list with the player on it
FindPlayer(name) ==
  IF Known(name) THEN players ELSE <<[name |-> name, state |-> 0]>> \o players

Playing(name) == \E i \in DOMAIN players : players[i] = [name |-> name, state |-> 1]

WithState(name, list, state) == [list EXCEPT ![First(name, list)].state = state]

\* rm_player
RmPlayer(name, list) == RemoveAt(list, First(name, list))

-----------------------------------------------------------------------------
(* The main loop                                                           *)

LoopGoto(from, to) == pc = from /\ pc' = to

TestWhenIdle ==
  /\ LoopGoto("test", IF active \/ queue # <<>> THEN "pop" ELSE "clear")
  /\ UNCHANGED <<active, queue, parsed, players, wants, balance>>

\* while (active)
Test ==
  /\ LoopGoto("test", IF active THEN "pop" ELSE "clear")
  /\ UNCHANGED <<active, queue, parsed, players, wants, balance>>

PopKeepsParsed ==
  /\ \/ /\ queue = <<>> /\ LoopGoto("pop", "sleep")
        /\ UNCHANGED <<queue, wants, parsed>>
     \/ /\ queue # <<>> /\ LoopGoto("pop", "choose")
        /\ queue' = Tail(queue)
        /\ LET msg == Head(queue)
           IN  IF msg.member = "PropertiesChanged"
               THEN /\ parsed' = ParseSignal(msg, parsed)
                    /\ wants' = [n \in Names |-> IF n = msg.name THEN Meaning(msg, wants[n])
                                                 ELSE wants[n]]
               ELSE UNCHANGED <<parsed, wants>>
  /\ UNCHANGED <<active, players, balance>>

\* parsed_msg is zeroed, a message is popped and, if properties changed, parsed.
Pop ==
  /\ \/ /\ queue = <<>> /\ LoopGoto("pop", "sleep")
        /\ parsed' = Zero /\ UNCHANGED <<queue, wants>>
     \/ /\ queue # <<>> /\ LoopGoto("pop", "choose")
        /\ queue' = Tail(queue)
        /\ LET msg == Head(queue)
           IN  IF msg.member = "PropertiesChanged"
               THEN /\ parsed' = ParseSignal(msg, Zero)
                    /\ wants' = [n \in Names |-> IF n = msg.name THEN Meaning(msg, wants[n])
                                                 ELSE wants[n]]
               ELSE parsed' = Zero /\ UNCHANGED wants
  /\ UNCHANGED <<active, players, balance>>

\* sleep(1) returns after a second or upon a signal
Sleep ==
  /\ LoopGoto("sleep", "test")
  /\ UNCHANGED <<active, queue, parsed, players, wants, balance>>

\* choose_handler finds no handler, then dbus_message_unref
ChooseNone ==
  /\ LoopGoto("choose", "test") /\ parsed.status \notin DOMAIN HandlerMap
  /\ UNCHANGED <<active, queue, parsed, players, wants, balance>>

\* choose_handler finds a handler, and find_player has or gets an entry
Handler(func) ==
  /\ LoopGoto("choose", "test")
  /\ parsed.status \in DOMAIN HandlerMap /\ HandlerMap[parsed.status] = func
  /\ Known(parsed.name) \/ TRUE \in Malloc
  /\ UNCHANGED <<active, queue, parsed, wants>>

\* err() in either handler
PlayerFails ==
  /\ LoopGoto("choose", "failed")
  /\ parsed.status \in DOMAIN HandlerMap
  /\ ~Known(parsed.name) /\ FALSE \in Malloc
  /\ UNCHANGED <<active, queue, parsed, players, wants, balance>>

SignalStart ==
  /\ Handler("signal_start")
  /\ players' = WithState(parsed.name, FindPlayer(parsed.name), 1)
  /\ balance' = IF Playing(parsed.name) THEN balance ELSE balance + 1

StopUnchecked ==
  /\ Handler("signal_stop")
  /\ players' = RmPlayer(parsed.name, FindPlayer(parsed.name))
  /\ balance' = balance - 1

\* A player that does not play stays on the list, or is put on it.
SignalStop ==
  /\ Handler("signal_stop")
  /\ IF Playing(parsed.name)
     THEN players' = RmPlayer(parsed.name, players) /\ balance' = balance - 1
     ELSE players' = FindPlayer(parsed.name) /\ UNCHANGED balance

\* clear_players, and the end of main
ClearPlayers ==
  /\ LoopGoto("clear", "ended")
  /\ players' = <<>>
  /\ UNCHANGED <<active, queue, parsed, wants, balance>>

MainNext ==
  \/ Test \/ Pop \/ Sleep \/ ChooseNone \/ PlayerFails \/ SignalStart
  \/ SignalStop \/ ClearPlayers

-----------------------------------------------------------------------------
(* The bus, external, and signals                                          *)

Arrive(msg) ==
  /\ Len(queue) < MaxQueue
  /\ queue' = Append(queue, msg)
  /\ UNCHANGED <<active, parsed, players, pc, wants, balance>>

\* sigfunc, for SIGINT and SIGTERM
Sigfunc ==
  /\ active' = FALSE
  /\ UNCHANGED <<queue, parsed, players, pc, wants, balance>>

Next == MainNext \/ (\E msg \in Messages : Arrive(msg)) \/ Sigfunc

\* The kernel schedules the program.  Messages and signals may never come.
Spec == Init /\ [][Next]_vars /\ WF_pc(MainNext)

-----------------------------------------------------------------------------
(* Properties                                                              *)

\* No name is twice on the list: of a player listed twice only one entry would
\* ever be stopped.
TypeOK ==
  /\ active \in BOOLEAN
  /\ queue \in Seq(Messages) /\ Len(queue) <= MaxQueue
  /\ parsed \in [name : Names \union {""}, status : Range(Upper) \union {""}]
  /\ players \in Seq([name : Names, state : {0, 1}])
  /\ \A i, j \in DOMAIN players : players[i].name = players[j].name => i = j
  /\ pc \in {"test", "pop", "sleep", "choose", "clear", "ended", "failed"}
  /\ wants \in [Names -> DOMAIN HandlerMap \union {""}]
  /\ balance \in Int

\* Whatever messages come between, of this name or of others, with properties
\* or without: a name is taken for playing exactly when the last PlaybackStatus
\* sent for it says so.  (Excepted is a status that the value of a property
\* behind it hides.)
FollowsLastStatus ==
  pc = "test" => \A n \in Names : wants[n] # "" => (Playing(n) <=> wants[n] = "PLAYING")

\* What is printed can drive a counter: there are as many starts without a stop
\* as names that play, so that a stop nobody is entitled to, or a second start,
\* is never printed.  (The players that play when the program ends are not
\* stopped.)
StartsMatchStops ==
  pc # "ended" => balance = Cardinality({n \in Names : Playing(n)})

\* A signal ends the program, although messages keep coming.
EndsOnSignal == ~active ~> pc \in {"ended", "failed"}
=============================================================================
