---------------------------- MODULE ButtonTracker ----------------------------
(***************************************************************************)
(* Sat1ButtonTracker of leds.py.  A sample of the XMOS input byte is the   *)
(* set of its inputs that read 1: a pressed volume button reads 0, a       *)
(* microphone switch set to mute 1.  "other" stands for the inputs that    *)
(* have no command, which take part in the comparison of samples.          *)
(***************************************************************************)
EXTENDS Integers, Sequences

CONSTANTS
  Controls,  \* the inputs that change
  Debounce,  \* how many equal samples are believed
  NoSample   \* _stable before the first sample

ASSUME TrackerAssumption ==
  /\ Controls \subseteq {"up", "down", "mic", "other"}
  /\ Debounce \in Nat \ {0}
  /\ \A s \in SUBSET Controls : s # NoSample

Samples == SUBSET Controls

\* Nothing reads a count above Debounce, which therefore stops there.
Trackers == [stable    : {NoSample} \union Samples,
             candidate : {NoSample} \union Samples,
             count     : 0 .. Debounce]

NewTracker == [stable |-> NoSample, candidate |-> NoSample, count |-> 0]

Min2(a, b) == IF a < b THEN a ELSE b

Counted(t, sample) ==
  IF sample # t.candidate THEN 1 ELSE Min2(t.count + 1, Debounce)

\* Mutant: the first sample of a value is believed.
BelievedAtOnce(t, sample) == sample # t.stable

\* The first sample always is; later ones when seen often enough in a row.
Believed(t, sample) ==
  \/ t.stable = NoSample
  \/ /\ sample = t.candidate
     /\ sample # t.stable
     /\ t.count + 1 >= Debounce

Update(t, sample) ==
  [stable    |-> IF Believed(t, sample) THEN sample ELSE t.stable,
   candidate |-> sample,
   count     |-> IF t.stable = NoSample THEN t.count ELSE Counted(t, sample)]

MicCommands == {"mute_mic", "unmute_mic"}
AllCommands == MicCommands \union {"volume_up", "volume_down"}

MicCommand(sample) == IF "mic" \in sample THEN "mute_mic" ELSE "unmute_mic"

When(condition, command) == IF condition THEN <<command>> ELSE <<>>

\* Mutant: the switch is read like a button, when it goes to 0.
CommandsOnPress(t, sample) ==
  CASE ~Believed(t, sample) -> <<>>
    [] Believed(t, sample) /\ t.stable = NoSample -> <<MicCommand(sample)>>
    [] OTHER ->
         When("up" \in t.stable \ sample, "volume_up")
         \o When("down" \in t.stable \ sample, "volume_down")
         \o When("mic" \in t.stable \ sample, MicCommand(sample))

\* The commands of the update: the buttons pressed and the switch moved.
Commands(t, sample) ==
  CASE ~Believed(t, sample) -> <<>>
    [] Believed(t, sample) /\ t.stable = NoSample -> <<MicCommand(sample)>>
    [] OTHER ->
         When("up" \in t.stable \ sample, "volume_up")
         \o When("down" \in t.stable \ sample, "volume_down")
         \o When(~("mic" \in t.stable <=> "mic" \in sample), MicCommand(sample))
=============================================================================
