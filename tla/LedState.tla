------------------------------- MODULE LedState -------------------------------
(***************************************************************************)
(* LedState of leds.py: what the LED service knows of the voice process,   *)
(* how each peripheral event changes it, and the phase the ring shows.     *)
(* Each operation holds the lock for its whole body, so it is a function   *)
(* from states to states here.  Colours, levels, directions and counts are *)
(* left out: no phase depends on them.                                     *)
(*                                                                         *)
(* Some events stand for several of the code that do the same here:        *)
(* "pipeline_error" for any error but the loss of Tater, which is          *)
(* "ha_disconnected"; "timer_ticking" for timer_updated; "connected" for a *)
(* zeroconf event; "settings" for those that change no phase.              *)
(***************************************************************************)
EXTENDS Naturals, FiniteSetsExt

\* The states of the voice pipeline, named as the events that announce them.
Stages == {"wake_word_detected", "listening", "thinking", "tool_call",
           "tts_speaking"}

LedStates ==
  [ever         : BOOLEAN,  \* _ever_lva_connected
   lva          : BOOLEAN,  \* _lva_connected: to the voice process
   ha           : BOOLEAN,  \* _ha_connected: the voice process to Tater
   provisioning : BOOLEAN,  \* _provisioning
   phase        : Stages \union {"idle", "error"},  \* _pipeline_phase
   mic          : BOOLEAN,  \* _mic_muted
   speaker      : BOOLEAN,  \* _volume_muted
   timer        : {"none", "ticking", "ringing"},
   ticked       : BOOLEAN,  \* _last_event was a timer event that counts down
   volume       : BOOLEAN,  \* _volume_until lies ahead
   error        : BOOLEAN]  \* _error_until lies ahead

NewState ==
  [ever |-> FALSE, lva |-> FALSE, ha |-> FALSE, provisioning |-> FALSE,
   phase |-> "idle", mic |-> FALSE, speaker |-> FALSE, timer |-> "none",
   ticked |-> FALSE, volume |-> FALSE, error |-> FALSE]

\* Peripheral events; `on` is the value an event carries, `link` is in the
\* snapshot alone.
Events ==
  [event : Stages \union
           {"snapshot", "pipeline_error", "ha_disconnected", "tts_finished",
            "idle", "settings", "muted", "volume_muted", "volume_changed",
            "timer_ticking", "timer_ringing", "disconnected", "connected"},
   on    : BOOLEAN,
   link  : BOOLEAN]

Connected(s) == [s EXCEPT !.lva = TRUE, !.ever = TRUE]

\* Mutant: what the pipeline was doing outlives the connection.
DisconnectedOnly(s) == [s EXCEPT !.lva = FALSE, !.ha = FALSE]

Disconnected(s) == [s EXCEPT !.lva = FALSE, !.ha = FALSE, !.phase = "idle"]

\* An idle event ends a ringing timer, or one that was counting down until
\* just before.
TimerDone(s) == s.timer = "ringing" \/ (s.ticked /\ s.phase = "idle")

Effect(s, e) ==
  CASE e.event = "snapshot"        -> [s EXCEPT !.mic = e.on, !.ha = e.link]
    [] e.event \in Stages          -> [s EXCEPT !.phase = e.event]
    [] e.event = "pipeline_error"  -> [s EXCEPT !.phase = "error",
                                                !.error = TRUE]
    [] e.event = "ha_disconnected" -> [s EXCEPT !.ha = FALSE]
    [] e.event = "tts_finished"    -> [s EXCEPT !.phase = "idle"]
    [] e.event = "idle"            -> [s EXCEPT !.phase = "idle",
                                                !.timer = IF TimerDone(s)
                                                          THEN "none" ELSE @]
    [] e.event = "settings"        -> s
    [] e.event = "muted"           -> [s EXCEPT !.mic = e.on]
    [] e.event = "volume_muted"    -> [s EXCEPT !.speaker = e.on]
    [] e.event = "volume_changed"  -> [s EXCEPT !.volume = TRUE]
    [] e.event = "timer_ticking"   -> [s EXCEPT !.timer = "ticking"]
    [] e.event = "timer_ringing"   -> [s EXCEPT !.timer = "ringing"]
    [] e.event = "disconnected"    -> [s EXCEPT !.ha = FALSE, !.phase = "idle"]
    [] e.event = "connected"       -> [s EXCEPT !.ha = TRUE]

\* Mutant: an event that is no stage of the pipeline is taken for one.
ApplyEventToPhase(s, e) ==
  [Effect(s, e) EXCEPT !.ticked = FALSE, !.phase = e.event]

ApplyEvent(s, e) ==
  [Effect(s, e) EXCEPT !.ticked = (e.event = "timer_ticking")]

(***************************************************************************)
(* snapshot: of the phases a state has a claim to, the first one shows.    *)
(***************************************************************************)
\* Mutant: mute hides what the pipeline does.
PriorityMuteFirst ==
  <<"provisioning", "initializing", "disconnected", "volume",
    "timer_ringing", "muted", "waiting", "listening", "thinking", "tool_call",
    "replying", "error", "timer_ticking", "idle">>

Priority ==
  <<"provisioning", "initializing", "disconnected", "volume",
    "timer_ringing", "waiting", "listening", "thinking", "tool_call",
    "replying", "error", "timer_ticking", "muted", "idle">>

StagePhase ==
  [wake_word_detected |-> "waiting", listening |-> "listening",
   thinking |-> "thinking", tool_call |-> "tool_call",
   tts_speaking |-> "replying"]

\* Mutant: an error shows until the next event.
ClaimsForGood(s) ==
  [provisioning  |-> s.provisioning,
   initializing  |-> ~s.lva /\ ~s.ever,
   disconnected  |-> ~s.lva \/ ~s.ha,
   volume        |-> s.volume,
   timer_ringing |-> s.timer = "ringing",
   error         |-> s.phase = "error",
   timer_ticking |-> s.timer # "none",
   muted         |-> s.mic \/ s.speaker,
   idle          |-> TRUE]

Claims(s) ==
  [provisioning  |-> s.provisioning,
   initializing  |-> ~s.lva /\ ~s.ever,
   disconnected  |-> ~s.lva \/ ~s.ha,
   volume        |-> s.volume,
   timer_ringing |-> s.timer = "ringing",
   error         |-> s.phase = "error" /\ s.error,
   timer_ticking |-> s.timer # "none",
   muted         |-> s.mic \/ s.speaker,
   idle          |-> TRUE]

HasClaim(s, phase) ==
  \/ phase \in DOMAIN Claims(s) /\ Claims(s)[phase]
  \/ s.phase \in Stages /\ phase = StagePhase[s.phase]

Shows(s) == Priority[Min({i \in DOMAIN Priority : HasClaim(s, Priority[i])})]
=============================================================================
