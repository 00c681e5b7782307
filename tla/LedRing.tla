------------------------------- MODULE LedRing -------------------------------
(***************************************************************************)
(* The LED service of leds.py as a client of the voice process: the        *)
(* connection, the events that arrive over it, and the setup monitor.      *)
(* AnimationWorker renders Shows(led) over and over and keeps nothing.     *)
(*                                                                         *)
(* The voice process is not in this repository.  It is modelled by what    *)
(* leds.py relies on: it sends a snapshot to a new connection and then the *)
(* stage its pipeline is in, and an event for each later change.           *)
(***************************************************************************)
EXTENDS LedState, SequencesExt

CONSTANTS
  UsedStages,  \* the pipeline stages that occur
  News,        \* other events that occur, of which no snapshot tells
  MaxEvents    \* bound on the events under way

ASSUME RingAssumption ==
  /\ UsedStages \subseteq Stages
  /\ News \subseteq {"settings", "volume_changed", "volume_muted",
                   "timer_ticking", "timer_ringing"}
  /\ MaxEvents \in Nat /\ MaxEvents >= 2

VARIABLES
  stage,    \* where the voice process's pipeline is
  link,     \* the voice process is connected to Tater
  muted,    \* its microphone is muted
  hotspot,  \* the setup hotspot's file exists
  conn,     \* "down", "up", or "closing": lost with events still to read
  events,   \* sent and not yet read, oldest first
  led       \* the service's LedState

voice == <<stage, link, muted>>
world == <<voice, hotspot>>
vars  == <<world, conn, events, led>>

TypeOK ==
  /\ stage \in UsedStages \union {"idle"}
  /\ {link, muted, hotspot} \subseteq BOOLEAN
  /\ conn \in {"down", "up", "closing"}
  /\ events \in Seq(Events) /\ Len(events) <= MaxEvents
  /\ led \in LedStates

Init ==
  /\ stage = "idle"
  /\ link = FALSE
  /\ muted \in BOOLEAN
  /\ hotspot \in BOOLEAN
  /\ conn = "down"
  /\ events = <<>>
  /\ led = [NewState EXCEPT !.provisioning = hotspot]

-----------------------------------------------------------------------------
(* The voice process.                                                      *)

Event(name, on) == [event |-> name, on |-> on, link |-> FALSE]

\* Peripherals that are not connected are not told.
Tell(name, on) ==
  /\ IF conn = "up"
       THEN Len(events) < MaxEvents /\ events' = Append(events, Event(name, on))
       ELSE UNCHANGED events
  /\ UNCHANGED <<hotspot, conn, led>>

EnterStage ==
  /\ link
  /\ stage' \in UsedStages \ {stage}
  /\ Tell(stage', FALSE)
  /\ UNCHANGED <<link, muted>>

LeaveStage ==
  /\ stage # "idle"
  /\ stage' = "idle"
  /\ \E name \in {"idle", "tts_finished", "pipeline_error"} : Tell(name, FALSE)
  /\ UNCHANGED <<link, muted>>

LoseLink ==
  /\ link
  /\ link' = FALSE
  /\ \/ stage' = "idle" /\ Tell("disconnected", FALSE)
     \/ UNCHANGED stage /\ Tell("ha_disconnected", FALSE)
  /\ UNCHANGED <<muted>>

GetLink ==
  /\ ~link
  /\ link' = TRUE
  /\ Tell("connected", FALSE)
  /\ UNCHANGED <<stage, muted>>

MuteMicrophone ==
  /\ muted' = ~muted
  /\ Tell("muted", muted')
  /\ UNCHANGED <<stage, link>>

\* A timer that is cancelled is announced by another idle.
Announce ==
  /\ \/ \E name \in News, on \in BOOLEAN :
          (on => name = "volume_muted") /\ Tell(name, on)
     \/ stage = "idle" /\ Tell("idle", FALSE)
  /\ UNCHANGED voice

-----------------------------------------------------------------------------
(* run_peripheral_client.                                                  *)

Connect ==
  /\ conn = "down"
  /\ conn' = "up"
  /\ events' = <<[event |-> "snapshot", on |-> muted, link |-> link]>>
               \o (IF stage = "idle" THEN <<>> ELSE <<Event(stage, FALSE)>>)
  /\ led' = Connected(led)
  /\ UNCHANGED world

\* The connection breaks, with the events that have arrived still to be
\* read.  The voice process may have restarted.
Lose ==
  /\ conn = "up"
  /\ conn' = "closing"
  /\ events' \in Prefixes(events)
  /\ \/ UNCHANGED voice
     \/ /\ stage' = "idle"
        /\ link' = FALSE
        /\ muted' \in BOOLEAN
  /\ UNCHANGED <<hotspot, led>>

ReadEvent ==
  /\ events # <<>>
  /\ led' = ApplyEvent(led, Head(events))
  /\ events' = Tail(events)
  /\ UNCHANGED <<world, conn>>

\* The loop over the connection ends: set_lva_connected(False).
Disconnect ==
  /\ conn = "closing"
  /\ events = <<>>
  /\ conn' = "down"
  /\ led' = Disconnected(led)
  /\ UNCHANGED <<world, events>>

-----------------------------------------------------------------------------
\* run_setup_state_monitor
WatchHotspot ==
  /\ led.provisioning # hotspot
  /\ led' = [led EXCEPT !.provisioning = hotspot]
  /\ UNCHANGED <<world, conn, events>>

\* Two seconds pass after a volume change or an error.
Expire ==
  /\ \/ led.volume /\ led' = [led EXCEPT !.volume = FALSE]
     \/ led.error  /\ led' = [led EXCEPT !.error = FALSE]
  /\ UNCHANGED <<world, conn, events>>

ToggleHotspot ==
  /\ hotspot' = ~hotspot
  /\ UNCHANGED <<voice, conn, events, led>>

Next ==
  \/ EnterStage \/ LeaveStage \/ LoseLink \/ GetLink
  \/ MuteMicrophone \/ Announce
  \/ Connect \/ Lose \/ ReadEvent \/ Disconnect
  \/ WatchHotspot \/ Expire \/ ToggleHotspot

\* The tasks of the service run and time passes; the world need do nothing.
Fairness ==
  /\ WF_vars(Connect) /\ WF_vars(ReadEvent) /\ WF_vars(Disconnect)
  /\ WF_vars(WatchHotspot) /\ WF_vars(Expire)

Spec == Init /\ [][Next]_vars /\ Fairness

-----------------------------------------------------------------------------
(* Properties.                                                             *)

\* What the LED service will know once it has read the events under way is
\* what the voice process is in: after a reconnection no stale animation is
\* left (set_lva_connected, leds.py:172-176), and no event is overtaken.
RingTold ==
  conn = "up" =>
    LET known == FoldLeft(ApplyEvent, led, events)
    IN  /\ known.ha = link
        /\ known.mic = muted
        /\ known.phase = stage \/ (known.phase = "error" /\ stage = "idle")

Wanted ==
  CASE hotspot                            -> "provisioning"
    [] ~hotspot /\ ~link                  -> "disconnected"
    [] ~hotspot /\ link /\ stage # "idle" -> StagePhase[stage]
    [] ~hotspot /\ link /\ stage = "idle" ->
         IF muted \/ led.speaker THEN "muted" ELSE "idle"

\* A service that has read all it was told, and has nothing of its own to show,
\* shows just what the voice process is in; one without a connection shows
\* that, whatever was under way when it broke (LedState.snapshot).
CaughtUp ==
  /\ conn = "up" /\ events = <<>>
  /\ led.provisioning = hotspot
  /\ ~led.volume /\ ~led.error /\ led.timer = "none"

RingShows ==
  /\ CaughtUp => Shows(led) = Wanted
  /\ conn = "down" =>
       Shows(led) \in {"provisioning", "initializing", "disconnected"}

\* If the world comes to rest and the connection holds, the ring comes to
\* show it: setup before a lost link, before the pipeline, before mute
\* (LedState.snapshot).  Only a timer the service remembers hides some of
\* it, for no snapshot says whether there still is one.
RingSettles ==
  <>[][UNCHANGED world /\ Len(events') <= Len(events)]_vars /\ <>[](conn = "up") =>
    <>[](led.timer = "none" => Shows(led) = Wanted)
=============================================================================
