------------------------------- MODULE MCDbus -------------------------------
(* Dbus with the interface of MPRIS players, with a status before, behind  *)
(* and without another value, and a second interface at the same path that *)
(* has a PlaybackStatus, so that there are two names.                      *)
EXTENDS Dbus

Player == "org.mpris.MediaPlayer2.Player"
Other  == "org.mpris.MediaPlayer2.Other"

Status(v) == [key |-> "PlaybackStatus", value |-> v]
Loop      == [key |-> "LoopStatus", value |-> "None"]
Metadata  == [key |-> "Metadata", value |-> "an array"]

MCUpper == [Playing |-> "PLAYING", Paused |-> "PAUSED", Stopped |-> "STOPPED",
            None |-> "NONE"]

PlayerProps ==
  {<<Loop>>, <<Metadata>>, <<Status("Playing")>>, <<Status("Paused")>>,
   <<Status("Stopped")>>, <<Status("Playing"), Loop>>, <<Status("Paused"), Loop>>,
   <<Loop, Status("Playing")>>, <<Status("Paused"), Metadata>>}
OtherProps ==
  {<<Metadata>>, <<Status("Playing")>>, <<Status("Paused")>>}

Message(member, n, props) == [member |-> member, name |-> n, props |-> props]

MCMessages ==
  {Message("PropertiesChanged", Player, p) : p \in PlayerProps}
  \union {Message("PropertiesChanged", Other, p) : p \in OtherProps}
  \union {Message(m, "", <<>>) : m \in {"PropertiesChanged", "NameAcquired"}}

MCNames == {Player, Other}
=============================================================================
