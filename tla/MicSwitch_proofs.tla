--------------------------- MODULE MicSwitch_proofs ---------------------------
(***************************************************************************)
(* Theorems about MicSwitch for any controls and any debounce count.       *)
(***************************************************************************)
EXTENDS MicSwitch, SequenceTheorems, TLAPS

\* What an update of the tracker remembers.
LEMMA UpdateType ==
  ASSUME NEW t \in Trackers, NEW sample \in Samples
  PROVE  /\ Update(t, sample) \in Trackers
         /\ Update(t, sample).candidate = sample
         /\ Update(t, sample).stable # NoSample
  BY TrackerAssumption
     DEF Update, Trackers, Samples, Counted, Believed, Min2

LEMMA SingletonSeq ==
  ASSUME NEW S, NEW x \in S
  PROVE  <<x>> \in Seq(S) /\ Len(<<x>>) = 1 /\ <<x>>[1] = x
  OBVIOUS

LEMMA WhenSeq ==
  ASSUME NEW S, NEW x \in S, NEW condition
  PROVE  When(condition, x) \in Seq(S)
<1>1. <<x>> \in Seq(S) /\ <<>> \in Seq(S)
  BY SingletonSeq
<1>2. QED
  BY <1>1, Zenon DEF When

\* An update sends at most one command about the microphone, as its last, and
\* the right one; it does so when the believed position of the switch changes.
OneMicCommand(t, sample, c) ==
  LET believed == Update(t, sample).stable
  IN  /\ c \in Seq(AllCommands)
      /\ c # <<>> => Believed(t, sample)
      /\ \A i \in DOMAIN c :
           c[i] \in MicCommands => i = Len(c) /\ c[i] = MicCommand(believed)
      /\ \/ t.stable # NoSample /\ ("mic" \in believed <=> "mic" \in t.stable)
         \/ c # <<>> /\ c[Len(c)] \in MicCommands

LEMMA CommandFacts ==
  ASSUME NEW t \in Trackers, NEW sample \in Samples
  PROVE  OneMicCommand(t, sample, Commands(t, sample))
<1> DEFINE c == Commands(t, sample)
           up == When("up" \in t.stable \ sample, "volume_up")
           down == When("down" \in t.stable \ sample, "volume_down")
           mic == When(~("mic" \in t.stable <=> "mic" \in sample),
                       MicCommand(sample))
<1>1. CASE ~Believed(t, sample)
  <2>1. c = <<>> /\ t.stable # NoSample /\ Update(t, sample).stable = t.stable
    BY <1>1 DEF Commands, Update, Believed
  <2>2. QED
    BY <2>1 DEF OneMicCommand
<1>2. CASE Believed(t, sample) /\ t.stable = NoSample
  <2>1. c = <<MicCommand(sample)>> /\ Update(t, sample).stable = sample
    BY <1>2 DEF Commands, Update
  <2>2. MicCommand(sample) \in AllCommands \cap MicCommands
    BY DEF MicCommand, AllCommands, MicCommands
  <2>3. QED
    BY <1>2, <2>1, <2>2 DEF OneMicCommand
<1>3. CASE Believed(t, sample) /\ t.stable # NoSample
  <2> DEFINE first == up \o down
  <2>1. c = first \o mic
    BY <1>3 DEF Commands
  <2>2. Update(t, sample).stable = sample
    BY <1>3 DEF Update
  <2> DEFINE volume == {"volume_up", "volume_down"}
  <2>3. up \in Seq(volume) /\ down \in Seq(volume)
    BY WhenSeq
  <2>4. first \in Seq(volume)
    BY <2>3, ConcatProperties
  <2> HIDE DEF first, c
  <2>5. first \in Seq(AllCommands) /\ \A i \in DOMAIN first : first[i] \notin MicCommands
    BY <2>4 DEF AllCommands, MicCommands
  <2>6. CASE ~("mic" \in t.stable <=> "mic" \in sample)
    <3>1. mic = <<MicCommand(sample)>>
      BY <2>6 DEF When
    <3>2. MicCommand(sample) \in AllCommands \cap MicCommands
      BY DEF MicCommand, AllCommands, MicCommands
    <3>3. /\ c \in Seq(AllCommands)
          /\ Len(c) = Len(first) + 1
          /\ \A i \in 1 .. Len(first) : c[i] = first[i]
          /\ c[Len(c)] = MicCommand(sample)
      <4>1. mic \in Seq(AllCommands) /\ Len(mic) = 1 /\ mic[1] = MicCommand(sample)
        BY <3>1, <3>2, SingletonSeq
      <4> HIDE DEF mic
      <4>2. QED
        BY <2>1, <2>5, <4>1, ConcatProperties
    <3>4. QED
      BY <1>3, <2>2, <2>5, <3>2, <3>3 DEF OneMicCommand, c
  <2>7. CASE "mic" \in t.stable <=> "mic" \in sample
    <3>1. mic = <<>>
      BY <2>7 DEF When
    <3>2. c = first
      BY <2>1, <2>5, <3>1, ConcatEmptySeq
    <3>3. QED
      BY <1>3, <2>2, <2>5, <2>7, <3>2 DEF OneMicCommand, c
  <2>8. QED
    BY <2>6, <2>7
<1>4. QED
  BY <1>1, <1>2, <1>3

-----------------------------------------------------------------------------
\* What the tracker remembers of its connection's samples.
Remembered ==
  /\ tracker.stable = NoSample => sampled = NoSample
  /\ tracker.stable # NoSample => sampled = tracker.candidate

Inv == TypeOK /\ Remembered /\ SwitchTold

LEMMA InitInv == Init => Inv
<1> SUFFICES ASSUME Init PROVE Inv
  OBVIOUS
<1>1. NewTracker \in Trackers /\ NewTracker.stable = NoSample
  BY TrackerAssumption DEF NewTracker, Trackers
<1>2. TypeOK
  <2>1. <<>> \in Seq(AllCommands) /\ Len(<<>>) <= MaxCommands
    BY SwitchAssumption
  <2>2. QED
    BY <1>1, <2>1 DEF Init, TypeOK
<1>3. Remembered /\ SwitchTold
  BY <1>1 DEF Init, Remembered, SwitchTold
<1>4. QED
  BY <1>2, <1>3 DEF Inv

\* Commands keep their types, whatever a step appends or removes.
LEMMA TypeStep == TypeOK /\ [Next]_vars => TypeOK'
<1> SUFFICES ASSUME TypeOK, [Next]_vars PROVE TypeOK'
  OBVIOUS
<1> USE DEF TypeOK
<1>1. CASE Connect
  <2>1. NewTracker \in Trackers
    BY TrackerAssumption DEF NewTracker, Trackers
  <2>2. <<>> \in Seq(AllCommands) /\ Len(<<>>) <= MaxCommands
    BY SwitchAssumption
  <2>3. QED
    BY <1>1, <2>1, <2>2 DEF Connect
<1>2. CASE Lose
  <2>1. PICK l \in 0 .. Len(commands) : commands' = SubSeq(commands, 1, l)
    BY <1>2 DEF Lose, Prefixes
  <2>2. commands' \in Seq(AllCommands) /\ Len(commands') <= MaxCommands
    BY <2>1, SwitchAssumption, SubSeqProperties
  <2>3. QED
    BY <1>2, <2>2 DEF Lose
<1>3. CASE Poll
  <2> DEFINE c == Commands(tracker, controls)
  <2>1. c \in Seq(AllCommands)
    BY CommandFacts DEF OneMicCommand
  <2> HIDE DEF c
  <2>2. commands' \in Seq(AllCommands) /\ Len(commands') = Len(commands) + Len(c)
    BY <1>3, <2>1, ConcatProperties DEF Poll, c
  <2>3. tracker' \in Trackers
    BY <1>3, UpdateType DEF Poll
  <2>4. QED
    BY <1>3, <2>2, <2>3 DEF Poll, c
<1>4. CASE HandleCommand
  <2>1. commands' \in Seq(AllCommands) /\ Len(commands') = Len(commands) - 1
    BY <1>4 DEF HandleCommand
  <2>2. muted' \in BOOLEAN
    BY <1>4 DEF HandleCommand
  <2>3. QED
    BY <1>4, <2>1, <2>2, SwitchAssumption DEF HandleCommand
<1>5. CASE MoveControls
  BY <1>5 DEF MoveControls
<1>6. CASE UNCHANGED vars
  BY <1>6 DEF vars
<1>7. QED
  BY <1>1, <1>2, <1>3, <1>4, <1>5, <1>6 DEF Next

LEMMA RememberedStep == TypeOK /\ Remembered /\ [Next]_vars => Remembered'
<1> SUFFICES ASSUME TypeOK, Remembered, [Next]_vars PROVE Remembered'
  OBVIOUS
<1>1. CASE Connect
  BY <1>1 DEF Connect, Remembered, NewTracker
<1>2. CASE Poll
  BY <1>2, UpdateType DEF Poll, Remembered, TypeOK
<1>3. CASE Lose \/ HandleCommand \/ MoveControls \/ UNCHANGED vars
  BY <1>3 DEF Lose, HandleCommand, MoveControls, vars, Remembered
<1>4. QED
  BY <1>1, <1>2, <1>3 DEF Next

\* One poll: the commands it appends end with the switch's new position, or
\* it has not moved and they do not concern it.
LEMMA PollTold == TypeOK /\ SwitchTold /\ Poll => SwitchTold'
<1> SUFFICES ASSUME TypeOK, SwitchTold, Poll PROVE SwitchTold'
  OBVIOUS
<1> DEFINE c == Commands(tracker, controls)
           believed == Update(tracker, controls).stable
<1>1. /\ commands \in Seq(AllCommands)
      /\ tracker \in Trackers
      /\ controls \in Samples
  BY DEF TypeOK
<1>2. OneMicCommand(tracker, controls, c)
  BY <1>1, CommandFacts
<1>3. /\ connected /\ connected' /\ UNCHANGED muted
      /\ tracker'.stable = believed
      /\ commands' = commands \o c
  BY DEF Poll
<1> HIDE DEF c, believed
<1>4. c \in Seq(AllCommands)
  BY <1>2 DEF OneMicCommand
<1>5. /\ Len(commands') = Len(commands) + Len(c)
      /\ \A i \in 1 .. Len(commands) : commands'[i] = commands[i]
      /\ \A i \in 1 .. Len(c) : commands'[Len(commands) + i] = c[i]
      /\ commands' \in Seq(AllCommands)
  BY <1>1, <1>3, <1>4, ConcatProperties
<1>6. \A i \in 1 .. Len(c) :
        c[i] \in MicCommands => i = Len(c) /\ c[i] = MicCommand(believed)
  BY <1>2, <1>4 DEF OneMicCommand, believed
<1>7. CASE c # <<>> /\ c[Len(c)] \in MicCommands
  <2>1. Len(c) \in 1 .. Len(c)
    BY <1>4, <1>7
  <2>2. commands'[Len(commands')] = MicCommand(believed)
    BY <1>1, <1>4, <1>5, <1>6, <1>7, <2>1
  <2>3. /\ Len(commands') \in DOMAIN commands'
        /\ commands'[Len(commands')] \in MicCommands
    BY <1>1, <1>4, <1>5, <1>7, <2>1
  <2>4. QED
    BY <1>3, <1>5, <2>2, <2>3 DEF SwitchTold
<1>8. CASE ~(c # <<>> /\ c[Len(c)] \in MicCommands)
  <2>1. tracker.stable # NoSample /\ ("mic" \in believed <=> "mic" \in tracker.stable)
    BY <1>2, <1>8 DEF OneMicCommand, believed
  <2>2. \A i \in 1 .. Len(c) : c[i] \notin MicCommands
    BY <1>4, <1>6, <1>8
  <2>3. \A i \in DOMAIN commands' : commands'[i] \in MicCommands =>
          i \in DOMAIN commands /\ commands'[i] = commands[i]
    <3> SUFFICES ASSUME NEW i \in DOMAIN commands', commands'[i] \in MicCommands
                 PROVE  i \in DOMAIN commands /\ commands'[i] = commands[i]
      OBVIOUS
    <3>1. i \in 1 .. Len(commands) + Len(c)
      BY <1>5
    <3>2. CASE i > Len(commands)
      <4>1. i - Len(commands) \in 1 .. Len(c) /\ i = Len(commands) + (i - Len(commands))
        BY <1>1, <1>4, <3>1, <3>2
      <4>2. commands'[i] = c[i - Len(commands)]
        BY <1>5, <4>1
      <4>3. QED
        BY <2>2, <4>1, <4>2
    <3>3. CASE i <= Len(commands)
      BY <1>1, <1>5, <3>1, <3>3
    <3>4. QED
      BY <1>1, <3>1, <3>2, <3>3
  <2>4. \A i \in DOMAIN commands : i \in DOMAIN commands' /\ commands'[i] = commands[i]
    BY <1>1, <1>4, <1>5
  <2>5. MicCommand(believed) = MicCommand(tracker.stable)
    BY <2>1 DEF MicCommand
  <2>6. QED
    BY <1>3, <2>1, <2>3, <2>4, <2>5 DEF SwitchTold
<1>9. QED
  BY <1>7, <1>8

\* One command handled: it was the last about the microphone, or a later one
\* is still to come, or it is about the volume.
LEMMA HandleTold == TypeOK /\ SwitchTold /\ HandleCommand => SwitchTold'
<1> SUFFICES ASSUME TypeOK, SwitchTold, HandleCommand,
                    connected, tracker.stable # NoSample
             PROVE  SwitchTold'
  BY DEF SwitchTold, HandleCommand
<1> DEFINE Asked == {i \in DOMAIN commands : commands[i] \in MicCommands}
<1>1. /\ commands \in Seq(AllCommands) /\ commands # <<>>
      /\ muted \in BOOLEAN
      /\ UNCHANGED <<connected, tracker>>
      /\ muted' = IF commands[1] \in MicCommands THEN commands[1] = "mute_mic"
                  ELSE muted
  BY DEF TypeOK, HandleCommand
<1>2. /\ commands' \in Seq(AllCommands)
      /\ Len(commands') = Len(commands) - 1
      /\ \A i \in 1 .. Len(commands') : commands'[i] = commands[i + 1]
      /\ 1 \in DOMAIN commands
  BY <1>1 DEF HandleCommand
<1>3. \A i \in DOMAIN commands' :
        i + 1 \in DOMAIN commands /\ commands'[i] = commands[i + 1]
  BY <1>1, <1>2
<1>4. \A i \in DOMAIN commands :
        i # 1 => i - 1 \in DOMAIN commands' /\ commands'[i - 1] = commands[i]
  BY <1>1, <1>2
<1>5. /\ Asked = {} => (muted <=> "mic" \in tracker.stable)
      /\ \A i \in Asked :
           (\A j \in Asked : j <= i) => commands[i] = MicCommand(tracker.stable)
  BY DEF SwitchTold
<1>6. ASSUME \A i \in DOMAIN commands' : commands'[i] \notin MicCommands
      PROVE  muted' <=> "mic" \in tracker.stable
  <2>1. CASE commands[1] \in MicCommands
    <3>1. \A j \in Asked : j = 1
      BY <1>4, <1>6
    <3>2. commands[1] = MicCommand(tracker.stable)
      BY <1>2, <1>5, <2>1, <3>1
    <3>3. QED
      BY <1>1, <2>1, <3>2 DEF MicCommand
  <2>2. CASE commands[1] \notin MicCommands
    <3>1. Asked = {}
      BY <1>4, <1>6, <2>2
    <3>2. QED
      BY <1>1, <1>5, <2>2, <3>1
  <2>3. QED
    BY <2>1, <2>2
<1>7. ASSUME NEW i \in DOMAIN commands', commands'[i] \in MicCommands,
             \A j \in DOMAIN commands' : commands'[j] \in MicCommands => j <= i
      PROVE  commands'[i] = MicCommand(tracker.stable)
  <2>1. i + 1 \in Asked /\ commands'[i] = commands[i + 1]
    BY <1>3, <1>7
  <2>2. \A j \in Asked : j <= i + 1
    <3> SUFFICES ASSUME NEW j \in Asked PROVE j <= i + 1
      OBVIOUS
    <3>1. i \in Nat /\ j \in Nat /\ i >= 1
      BY <1>1, <1>2
    <3>2. j = 1 \/ j - 1 <= i
      BY <1>4, <1>7
    <3>3. QED
      BY <3>1, <3>2
  <2>3. QED
    BY <1>5, <2>1, <2>2
<1>8. QED
  BY <1>1, <1>6, <1>7 DEF SwitchTold

LEMMA ToldStep == TypeOK /\ SwitchTold /\ [Next]_vars => SwitchTold'
<1> SUFFICES ASSUME TypeOK, SwitchTold, [Next]_vars PROVE SwitchTold'
  OBVIOUS
<1>1. CASE Connect
  BY <1>1 DEF Connect, SwitchTold, NewTracker
<1>2. CASE Lose
  BY <1>2 DEF Lose, SwitchTold
<1>3. CASE MoveControls \/ UNCHANGED vars
  BY <1>3 DEF MoveControls, vars, SwitchTold
<1>4. QED
  BY <1>1, <1>2, <1>3, PollTold, HandleTold DEF Next

-----------------------------------------------------------------------------
\* TypeOK, SwitchTold and the memory of the tracker are inductive together.
THEOREM SwitchInvariant == Spec => []Inv
<1>1. Init => Inv
  BY InitInv
<1>2. Inv /\ [Next]_vars => Inv'
  BY TypeStep, RememberedStep, ToldStep DEF Inv
<1>3. QED
  BY <1>1, <1>2, PTL DEF Spec

\* The microphone is on its way to where the switch was last believed to be,
\* for any set of inputs, debounce count and number of commands under way.
THEOREM SwitchAlwaysTold == Spec => []SwitchTold
<1>1. Inv => SwitchTold
  BY DEF Inv
<1>2. QED
  BY <1>1, SwitchInvariant, PTL

\* No control has an effect that two samples in a row do not agree on.
THEOREM AlwaysDebounced == Spec => Debounced
<1> DEFINE Agreed == Len(commands') > Len(commands) =>
                       sampled \in {NoSample, controls}
<1>1. Inv /\ [Next]_vars => [Agreed]_vars
  <2> SUFFICES ASSUME Inv, Next, Len(commands') > Len(commands)
               PROVE  sampled \in {NoSample, controls}
    OBVIOUS
  <2>1. TypeOK /\ Remembered
    BY DEF Inv
  <2>2. CASE Poll
    <3>1. OneMicCommand(tracker, controls, Commands(tracker, controls))
      BY <2>1, CommandFacts DEF TypeOK
    <3>2. Commands(tracker, controls) # <<>>
      BY <2>1, <2>2, ConcatEmptySeq DEF Poll, TypeOK
    <3>3. Believed(tracker, controls)
      BY <3>1, <3>2 DEF OneMicCommand
    <3>4. QED
      BY <2>1, <3>3 DEF Believed, Remembered
  <2>3. ~Connect
    BY <2>1 DEF Connect, TypeOK
  <2>4. ~Lose
    <3> SUFFICES ASSUME Lose PROVE FALSE
      OBVIOUS
    <3>1. PICK l \in 0 .. Len(commands) : commands' = SubSeq(commands, 1, l)
      BY DEF Lose, Prefixes
    <3>2. Len(commands') <= Len(commands)
      BY <2>1, <3>1 DEF TypeOK
    <3>3. QED
      BY <2>1, <3>1, <3>2 DEF TypeOK
  <2>5. ~HandleCommand
    BY <2>1 DEF HandleCommand, TypeOK
  <2>6. ~MoveControls
    BY <2>1 DEF MoveControls, TypeOK
  <2>7. QED
    BY <2>2, <2>3, <2>4, <2>5, <2>6 DEF Next
<1>2. QED
  BY <1>1, SwitchInvariant, PTL DEF Spec, Debounced
=============================================================================
