---------------------------- MODULE XmosFirmware ----------------------------
(***************************************************************************)
(* The firmware check of xmos_firmware.py: it reads the version of the     *)
(* XMOS over the bus of XmosBus, writes the factory image if the version   *)
(* is not the one it aims at, and marks the check done for the rest of the *)
(* boot.  A step that runs the tool once is one action, the read of the    *)
(* version two, for it is a request and an answer on the bus.              *)
(***************************************************************************)
EXTENDS XmosBus

CONSTANTS
  InitialAttempts,  \* reads before the device counts as unavailable (12)
  VerifyAttempts    \* reads after a write (40)

ASSUME AttemptsAssumption ==
  InitialAttempts \in Nat \ {0} /\ VerifyAttempts \in Nat \ {0}

VARIABLES
  tree,    \* whose code and image are installed: the "target" or the "other"
  marker,  \* what the boot marker records as verified, or "none"
  pc,      \* where the check is
  aim,     \* the version and checksum its code is for
  wrote,   \* it has written the image: the reads verify
  tries    \* versions read in vain

check == <<tree, marker, pc, aim, wrote, tries>>
led   == <<leds, threads>>

Images  == {"target", "other"}
Reading == {"ask", "answer"}
Over    == {"off", "ok", "failed"}

FirmwareTypeOK ==
  /\ tree \in Images /\ aim \in Images
  /\ marker \in Images \union {"none"}
  /\ pc \in {"marker", "image", "flash", "writing", "release", "save"}
              \union Reading \union Over
  /\ wrote \in BOOLEAN
  /\ tries \in 0..(InitialAttempts + VerifyAttempts)

GoTo(step) ==
  /\ pc' = step
  /\ UNCHANGED <<tree, marker, aim, wrote, tries>>

\* Mutant: any marker of the boot is taken for the right one.
ReadAnyMarker ==
  /\ pc = "marker"
  /\ GoTo(IF marker # "none" THEN "ok" ELSE "image")
  /\ UNCHANGED <<device, payload, led>>

\* ensure_xmos_firmware_once
ReadMarker ==
  /\ pc = "marker"
  /\ GoTo(IF marker = aim THEN "ok" ELSE "image")
  /\ UNCHANGED <<device, payload, led>>

\* The image and the tool are there, and the checksum is right: an image
\* that an update has put in its place is refused.
CheckImage ==
  /\ pc = "image"
  /\ GoTo(IF tree = aim THEN "ask" ELSE "failed")
  /\ UNCHANGED <<device, payload, led>>

BadImage ==
  /\ pc = "image"
  /\ GoTo("failed")
  /\ UNCHANGED <<device, payload, led>>

\* read_version: the tool's request ...
Ask ==
  /\ pc = "ask"
  /\ Request("version")
  /\ GoTo("answer")
  /\ UNCHANGED <<device, led>>

Attempts == IF wrote THEN VerifyAttempts ELSE InitialAttempts

\* Mutant: a read without an answer is not repeated.
GiveUp ==
  /\ pc = "answer"
  /\ ClockOut
  /\ tries' = tries + 1
  /\ pc' = IF wrote THEN "failed" ELSE "flash"
  /\ UNCHANGED <<tree, marker, aim, wrote, device, led>>

\* ... and the answer, or what stands for one.
GetVersion ==
  /\ pc = "answer" /\ Answer = "version"
  /\ ClockOut
  /\ GoTo(CASE version = aim           -> "save"
            [] version # aim /\ ~wrote -> "flash"
            [] version # aim /\ wrote  -> "failed")
  /\ UNCHANGED <<device, led>>

NoVersion ==
  /\ pc = "answer"
  /\ ClockOut
  /\ tries' = tries + 1
  /\ pc' = CASE tries' < Attempts            -> "ask"
             [] tries' = Attempts /\ ~wrote  -> "flash"
             [] tries' = Attempts /\ wrote   -> "failed"
  /\ UNCHANGED <<tree, marker, aim, wrote, device, led>>

\* flash-firmware holds the XMOS in reset while it writes the file that is
\* there now.
Flash ==
  /\ pc = "flash"
  /\ version' = "none" /\ held' = TRUE
  /\ ClockOut
  /\ GoTo("writing")
  /\ UNCHANGED led

Written(result) ==
  /\ pc = "writing"
  /\ version' = result
  /\ GoTo("release")
  /\ UNCHANGED <<held, payload, led>>

\* The wrapper fails before it touches the device.
FlashFails ==
  /\ pc = "flash"
  /\ GoTo("release")
  /\ UNCHANGED <<device, payload, led>>

\* Mutant: reset is not released.
NoRelease(stillHeld) ==
  /\ pc = "release"
  /\ pc' = "ask" /\ wrote' = TRUE /\ tries' = 0
  /\ UNCHANGED <<tree, marker, aim, device, payload, led>>

\* The finally clause; the status of the tool is not looked at.
Release(stillHeld) ==
  /\ pc = "release"
  /\ held' = stillHeld
  /\ pc' = "ask" /\ wrote' = TRUE /\ tries' = 0
  /\ UNCHANGED <<tree, marker, aim, version, payload, led>>

\* Mutant: the check is not marked.
NoMarker ==
  /\ pc = "save"
  /\ GoTo("ok")
  /\ UNCHANGED <<device, payload, led>>

SaveMarker ==
  /\ pc = "save"
  /\ marker' = aim
  /\ pc' = "ok"
  /\ UNCHANGED <<tree, aim, wrote, tries, device, payload, led>>

\* A step that goes as the code means it to.
CheckStep ==
  \/ ReadMarker \/ CheckImage \/ Ask \/ GetVersion
  \/ (Answer # "version" /\ NoVersion)
  \/ Flash \/ Written(tree) \/ Release(FALSE) \/ SaveMarker

\* The tool, the image or the device fails.
CheckFault ==
  \/ BadImage \/ FlashFails \/ Written("none") \/ (held /\ Release(TRUE))
  \/ (Answer = "version" /\ NoVersion)

BeginCheck ==
  /\ pc' = "marker" /\ aim' = tree /\ wrote' = FALSE /\ tries' = 0
  /\ UNCHANGED <<tree, marker>>
=============================================================================
