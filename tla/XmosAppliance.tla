---------------------------- MODULE XmosAppliance ----------------------------
(***************************************************************************)
(* The units that use the XMOS, as systemd runs them: the check of the     *)
(* boot (tater-sat1-xmos.service), the same check again before PulseAudio  *)
(* (ExecStartPre of tater-sat1-audio.service), the LED service, which      *)
(* waits for a start job of the audio service and not for its success, and *)
(* the watchdog and the updater, which restart and stop them.              *)
(***************************************************************************)
EXTENDS XmosFirmware

CONSTANT MaxFaults  \* bound on what goes wrong or is done from outside

ASSUME FaultsAssumption == MaxFaults \in Nat

VARIABLES
  xmos,    \* the boot check: "queued", "check" or "done"
  audio,   \* the audio service; "check" is the check before its start
  missed,  \* in this boot the check of the audio service has failed
  late,    \* in it the watchdog has restarted audio under the updater
  stalled, \* the watchdog has found the microphone stalled
  update,  \* the updater has stopped the units
  faults   \* faults so far

outside == <<late, stalled, update>>
units   == <<xmos, audio, missed, outside>>
vars    == <<device, payload, led, check, units, faults>>

TypeOK ==
  /\ BusTypeOK
  /\ FirmwareTypeOK
  /\ xmos \in {"queued", "check", "done"}
  /\ audio \in {"queued", "check", "starting", "up", "retry", "stopped"}
  /\ missed \in BOOLEAN /\ late \in BOOLEAN
  /\ stalled \in BOOLEAN /\ update \in BOOLEAN
  /\ faults \in 0..MaxFaults

Init ==
  /\ version \in {"target", "other", "none"}
  /\ held \in BOOLEAN
  /\ payload = "none" /\ leds = "queued" /\ QuietThreads
  /\ tree = "target" /\ aim = "target" /\ marker = "none"
  /\ pc = "off" /\ wrote = FALSE /\ tries = 0
  /\ xmos = "queued" /\ audio = "queued" /\ missed = FALSE
  /\ late = FALSE /\ stalled = FALSE /\ update = FALSE
  /\ faults = 0

Fault == faults < MaxFaults /\ faults' = faults + 1
Well  == UNCHANGED faults

-----------------------------------------------------------------------------
(* The two units that run the check.                                       *)

StartXmos ==
  /\ xmos = "queued"
  /\ xmos' = "check"
  /\ BeginCheck
  /\ UNCHANGED <<audio, missed, outside, device, payload, led>>

XmosEnds ==
  /\ xmos = "check" /\ pc \in {"ok", "failed"}
  /\ xmos' = "done"
  /\ pc' = "off"
  /\ UNCHANGED <<audio, missed, outside, tree, marker, aim, wrote, tries, device, payload, led>>

\* The unit is ordered after the boot check, whatever that came to.
StartAudio ==
  /\ xmos = "done" /\ audio = "queued"
  /\ audio' = "check"
  /\ BeginCheck
  /\ UNCHANGED <<xmos, missed, outside, device, payload, led>>

AudioChecked ==
  /\ audio = "check" /\ pc \in {"ok", "failed"}
  /\ audio' = IF pc = "ok" THEN "starting" ELSE "retry"
  /\ missed' = (missed \/ pc = "failed")
  /\ pc' = "off"
  /\ UNCHANGED <<xmos, outside, tree, marker, aim, wrote, tries, device, payload, led>>

AudioTo(from, to) ==
  /\ audio = from
  /\ audio' = to
  /\ UNCHANGED <<xmos, missed, outside, check, device, payload, led>>

\* The codec is set up and PulseAudio is there; Restart=on-failure.
AudioUp      == AudioTo("starting", "up")
RetryAudio   == AudioTo("retry", "queued")
StartFails   == AudioTo("starting", "retry")
AudioStops   == AudioTo("up", "retry")

StopCheck == pc' = IF audio = "check" THEN "off" ELSE pc

\* tater-sat1-audio-watchdog finds the service active and its stream stalled,
\* and restarts it, whatever has become of it in between.
FindStalled ==
  /\ audio = "up" /\ ~stalled
  /\ stalled' = TRUE
  /\ UNCHANGED <<xmos, audio, missed, late, update, check, device, payload, led>>

RestartAudio ==
  /\ stalled
  /\ stalled' = FALSE
  /\ late' = (late \/ update)
  /\ audio' = "queued"
  /\ StopCheck
  /\ UNCHANGED <<xmos, missed, update, tree, marker, aim, wrote, tries>>
  /\ UNCHANGED <<device, payload, led>>

\* TimeoutStartSec: no finally clause runs.
CheckTimesOut ==
  /\ pc \notin Over
  /\ pc' = "failed"
  /\ UNCHANGED <<units, tree, marker, aim, wrote, tries, device, payload, led>>

-----------------------------------------------------------------------------
(* The LED service.                                                        *)

AudioJob == audio \in {"queued", "check", "starting"}

StartLeds ==
  /\ leds = "queued" /\ ~AudioJob
  /\ OpenSpi
  /\ UNCHANGED <<device, threads, check, units>>

StopThreads ==
  /\ lock' = None /\ poll' = None
  /\ job' = [t \in Threads |-> Idle]

LedsCrash ==
  /\ leds = "open"
  /\ leds' = "queued"
  /\ StopThreads
  /\ UNCHANGED <<device, payload, check, units>>

-----------------------------------------------------------------------------
(* The updater stops the units, which kills a check in the start of the    *)
(* audio service, puts another release in place, and reboots.  If it       *)
(* cannot, it restores the release and starts the units.  The boot check   *)
(* goes on meanwhile: nothing orders the two.                              *)

StopUnits ==
  /\ ~update
  /\ update' = TRUE
  /\ audio' = "stopped" /\ leds' = "stopped"
  /\ StopThreads
  /\ StopCheck
  /\ UNCHANGED <<xmos, missed, late, stalled, tree, marker, aim, wrote, tries, device, payload>>

Install(release) ==
  /\ update
  /\ tree # release
  /\ tree' = release
  /\ UNCHANGED <<units, marker, pc, aim, wrote, tries, device, payload, led>>

StartUnits ==
  /\ update /\ tree = "target"
  /\ update' = FALSE
  /\ audio' = IF audio \in {"stopped", "retry"} THEN "queued" ELSE audio
  /\ leds' = "queued"
  /\ UNCHANGED <<xmos, missed, late, stalled, check, device, payload, threads>>

\* /run is empty again, and the installed release is the one whose firmware
\* is the target.
Reboot ==
  /\ version' = CASE version = "none" -> "none"
                  [] version = tree   -> "target"
                  [] OTHER            -> "other"
  /\ held' \in {held, FALSE}
  /\ payload' = "none" /\ leds' = "queued" /\ StopThreads
  /\ tree' = "target" /\ aim' = "target" /\ marker' = "none"
  /\ pc' = "off" /\ wrote' = FALSE /\ tries' = 0
  /\ xmos' = "queued" /\ audio' = "queued" /\ missed' = FALSE
  /\ late' = FALSE /\ stalled' = FALSE /\ update' = FALSE

-----------------------------------------------------------------------------
UnitStep ==
  \/ StartXmos \/ XmosEnds \/ StartAudio \/ AudioChecked
  \/ AudioUp \/ RetryAudio \/ StartLeds \/ StartUnits \/ RestartAudio
  \/ Install("target")

Trouble ==
  \/ StartFails \/ AudioStops \/ FindStalled
  \/ CheckTimesOut \/ LedsCrash \/ StopUnits \/ Reboot
  \/ Install("other")
  \/ CheckFault /\ UNCHANGED units
  \/ (\E t \in Threads : Busy(t)) /\ UNCHANGED <<check, units>>

Next ==
  \/ BusStep /\ UNCHANGED <<check, units>> /\ Well
  \/ CheckStep /\ UNCHANGED units /\ Well
  \/ UnitStep /\ Well
  \/ Trouble /\ Fault

\* systemd runs its jobs and the check goes on; the rest may stop.
Fairness ==
  /\ WF_vars(CheckStep /\ UNCHANGED units /\ Well)
  /\ WF_vars(UnitStep /\ Well)

Spec == Init /\ [][Next]_vars /\ Fairness

-----------------------------------------------------------------------------
(* Properties.                                                             *)

ToolOnBus == pc \in Reading \union {"flash", "writing", "release"}

\* "a per-boot marker prevents an audio restart from reopening SPI after the
\* LED service owns it" (docs/ARCHITECTURE.md:85-87): the tool is never on
\* the bus of a running LED service.
SpiOwned == leds = "open" => ~ToolOnBus

\* It is so in a boot in which no check before the audio service has failed,
\* and the watchdog has not crossed the updater: LEDs and check exclude each
\* other through the start job and the marker alone, over restarts of both.
Orderly == ~missed /\ ~late

SpiOwnedOnceChecked == Orderly => SpiOwned

\* Then whoever waits for the answer to a request finds it: the threads of
\* the LED service, also one whose task was cancelled, and the tool.
AnswerKept ==
  Orderly =>
    /\ \A t \in Threads : job[t].step = "fetch" /\ Alive => payload = job[t].op
    /\ pc = "answer" /\ Alive => payload = "version"

\* PulseAudio runs only on an XMOS that runs the target firmware and is out
\* of reset, however many checks failed or were killed, in the middle of a
\* write too, and whatever a marker of the other release says.  Only the
\* watchdog could spoil it, by a restart of the audio service under the
\* updater.
AudioVerified ==
  ~late /\ audio \in {"starting", "up"} => version = "target" /\ ~held

\* "A matching device is left untouched" (docs/ARCHITECTURE.md:103): the
\* image is written over the target only when no read was answered.
MatchingUntouched ==
  [][pc = "flash" /\ pc' = "writing" /\ version = aim =>
       tries = InitialAttempts]_vars

\* The LEDs take the answer that the check waits for.
Stolen == pc = "answer" /\ pc' = pc /\ payload = "version" /\ payload' # payload

\* Unless that goes on for ever, an appliance that meets finitely many faults
\* comes to run its audio and its LEDs on the target firmware: a device left
\* in reset or half written by a check that was killed is repaired.
Settles ==
  \/ []<><<Stolen>>_vars
  \/ <>late
  \/ <>[](audio = "up" /\ leds = "open" /\ version = "target" /\ ~held)
=============================================================================
