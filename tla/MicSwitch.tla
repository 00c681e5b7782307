------------------------------ MODULE MicSwitch ------------------------------
(***************************************************************************)
(* run_hardware_inputs of leds.py: the controls of the SAT1 are polled     *)
(* while the voice process is connected, and turned into commands to it.   *)
(* Each connection starts a new task with a new tracker.                   *)
(*                                                                         *)
(* The voice process is not in this repository: it does what the commands  *)
(* say, in their order, and may restart with its microphone in any state.  *)
(***************************************************************************)
EXTENDS ButtonTracker, SequencesExt

CONSTANT MaxCommands  \* bound on the commands under way

ASSUME SwitchAssumption ==
  /\ "mic" \in Controls
  /\ MaxCommands \in Nat /\ MaxCommands >= Cardinality(Controls)

VARIABLES
  controls,   \* what the inputs read now
  muted,      \* the voice process's microphone is muted
  connected,  \* the connection to the voice process holds
  commands,   \* sent and not yet handled, oldest first
  tracker,    \* the Sat1ButtonTracker of this connection
  sampled     \* history: the last sample of this connection

vars == <<controls, muted, connected, commands, tracker, sampled>>

TypeOK ==
  /\ controls \in Samples
  /\ muted \in BOOLEAN /\ connected \in BOOLEAN
  /\ commands \in Seq(AllCommands)
  /\ Len(commands) <= MaxCommands
  /\ tracker \in Trackers
  /\ sampled \in {NoSample} \union Samples

Init ==
  /\ controls \in Samples
  /\ muted \in BOOLEAN
  /\ connected = FALSE
  /\ commands = <<>>
  /\ tracker = NewTracker
  /\ sampled = NoSample

\* Mutant: one tracker serves all connections.
ConnectWithOldTracker ==
  /\ ~connected
  /\ connected' = TRUE
  /\ commands' = <<>>
  /\ UNCHANGED <<controls, muted, tracker, sampled>>

\* run_peripheral_client connects and starts run_hardware_inputs.
Connect ==
  /\ ~connected
  /\ connected' = TRUE
  /\ commands' = <<>>
  /\ tracker' = NewTracker
  /\ sampled' = NoSample
  /\ UNCHANGED <<controls, muted>>

\* The connection breaks: the commands under way are lost, or the last of
\* them, and the task is cancelled.  What it samples and fails to send until
\* then is forgotten with its tracker.
Lose ==
  /\ connected
  /\ connected' = FALSE
  /\ commands' \in Prefixes(commands)
  /\ muted' \in BOOLEAN
  /\ UNCHANGED <<controls, tracker, sampled>>

\* A sample is taken and the commands of the update sent.
Poll ==
  /\ connected
  /\ Len(commands) + Len(Commands(tracker, controls)) <= MaxCommands
  /\ commands' = commands \o Commands(tracker, controls)
  /\ tracker' = Update(tracker, controls)
  /\ sampled' = controls
  /\ UNCHANGED <<controls, muted, connected>>

HandleCommand ==
  /\ commands # <<>>
  /\ commands' = Tail(commands)
  /\ muted' = IF Head(commands) \in MicCommands
                THEN Head(commands) = "mute_mic" ELSE muted
  /\ UNCHANGED <<controls, connected, tracker, sampled>>

MoveControls ==
  /\ controls' \in Samples \ {controls}
  /\ UNCHANGED <<muted, connected, commands, tracker, sampled>>

Next == Connect \/ Lose \/ Poll \/ HandleCommand \/ MoveControls

\* The task polls every 25 ms and the voice process handles what it gets.
Spec ==
  /\ Init
  /\ [][Next]_vars
  /\ WF_vars(Connect) /\ WF_vars(Poll) /\ WF_vars(HandleCommand)

-----------------------------------------------------------------------------
(* Properties.                                                             *)

\* The commands under way bring the microphone to where the switch was last
\* believed to be, whatever was lost on earlier connections and whichever
\* state the voice process came back in: a task starts with a new tracker,
\* which sends the switch's position first (leds.py:1140, 1050-1053).
SwitchTold ==
  connected /\ tracker.stable # NoSample =>
    LET Asked == {i \in DOMAIN commands : commands[i] \in MicCommands}
    IN  /\ Asked = {} => (muted <=> "mic" \in tracker.stable)
        /\ \A i \in Asked :
             (\A j \in Asked : j <= i) => commands[i] = MicCommand(tracker.stable)

\* No control has an effect on the strength of one sample: two in a row agree
\* before a command is sent, whatever the debounce count (leds.py:1055-1060).
\* The first sample of a connection is excepted.
Debounced ==
  [][Len(commands') > Len(commands) => sampled \in {NoSample, controls}]_vars

\* If the controls rest and the connection holds, the microphone comes to
\* obey its switch.
SwitchObeyed ==
  <>[][UNCHANGED controls]_vars /\ <>[]connected =>
    <>[](muted <=> "mic" \in controls)
=============================================================================
