---------------------------- MODULE XmosInvariant ----------------------------
(***************************************************************************)
(* The inductive invariant behind the safety properties of XmosAppliance.  *)
(* Nothing in the code excludes the LED service and the check from each    *)
(* other: it takes who may run when (Turns), what the marker of the boot   *)
(* is worth (Marked), how far a check has come (Checking), and where an    *)
(* answer can wait (Answers).                                              *)
(***************************************************************************)
EXTENDS XmosAppliance

\* A check that has not found the boot marker to be its own.
Working == pc \notin {"off", "marker", "ok", "failed"}

\* Who may run when.
Turns ==
  /\ pc # "off" => xmos = "check" \/ audio = "check"
  /\ xmos # "done" => audio \in {"queued", "stopped"} /\ ~stalled /\ leds # "open"
  /\ xmos = "queued" => marker = "none"
  /\ xmos = "check" /\ pc # "ok" => marker = "none"
  /\ tree = "other" => update
  /\ update => leds = "stopped"
  /\ audio = "stopped" => update
  /\ update /\ ~late => audio = "stopped"

\* A check and its marker.
Checking ==
  /\ Working => marker # aim
  /\ pc = "ok" => marker = aim
  /\ pc = "writing" => held
  /\ pc = "save" => version = aim /\ ~held
  /\ pc \in {"marker", "image"} \union Reading => tries < Attempts
  /\ pc = "flash" => (version = aim => tries = InitialAttempts)
  /\ audio = "check" /\ ~late => aim = "target"

\* What the marker of the target is worth.
Marked ==
  /\ marker = "target" /\ ~late => version = "target" /\ ~held
  /\ audio \in {"starting", "up"} /\ ~late => marker = "target"
  /\ audio = "retry" /\ Orderly => marker = "target"
  /\ leds = "open" /\ Orderly => marker = "target"

\* One thread at a time is on the bus, and an answer waits only for it.
Answers ==
  /\ payload # "none" => Alive
  /\ \A t \in Threads : job[t].step \in {"send", "fetch"} => lock = t /\ leds = "open"
  /\ \A t \in Threads : job[t].step = "fetch" => job[t].op = "doa"
  /\ AnswerKept

XmosInv == TypeOK /\ Turns /\ Checking /\ Marked /\ Answers
=============================================================================
