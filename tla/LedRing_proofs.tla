---------------------------- MODULE LedRing_proofs ----------------------------
(***************************************************************************)
(* Theorems about LedRing, for any number of events under way.  RingTold   *)
(* folds over them: the first half of this module proves what such a fold  *)
(* does, by induction over a set of indices in place of a predicate.       *)
(***************************************************************************)
EXTENDS LedRing, WellFoundedInduction, TLAPS

(***************************************************************************)
(* Induction up to n.                                                      *)
(***************************************************************************)

\* The least index outside S would have a predecessor in S.
LEMMA UpTo ==
  ASSUME NEW n \in Nat, NEW S, 0 \in S,
         \A i \in 0 .. n - 1 : i \in S => i + 1 \in S
  PROVE  \A i \in 0 .. n : i \in S
<1> DEFINE R == OpToRel(<, Nat)
<1>1. \A i, j \in Nat : i < j => <<i, j>> \in R
  BY DEF OpToRel
<1>2. IsWellFoundedOn(R, Nat)
  BY NatLessThanWellFounded
<1> HIDE DEF R
<1> DEFINE T == {i \in 0 .. n : i \notin S}
<1>3. SUFFICES ASSUME T # {} PROVE FALSE
  OBVIOUS
<1>4. T \subseteq Nat
  OBVIOUS
<1>5. PICK m \in T : \A i \in T : <<i, m>> \notin R
  <2> HIDE DEF T
  <2>2. QED
    BY <1>2, <1>3, <1>4, WFMin
<1>6. m \in Nat /\ m <= n /\ m \notin S
  OBVIOUS
<1>7. m # 0 
  BY <1>6
<1>8. m - 1 \in Nat /\ m - 1 < m /\ m - 1 \in 0 .. n - 1 /\ (m - 1) + 1 = m
  BY <1>6, <1>7
<1>9. m - 1 \notin T
  BY <1>1, <1>5, <1>6, <1>8
<1>10. QED
  BY <1>6, <1>8, <1>9

-----------------------------------------------------------------------------
(***************************************************************************)
(* FoldLeft goes through the queue in order.                               *)
(***************************************************************************)

LEMMA MaxFacts ==
  /\ \A k \in Nat : \A t \in SUBSET (1 .. k + 1) : k + 1 \in t => Max(t) = k + 1
  /\ \A i \in Nat \ {0} : Max(1 .. i) = i
<1>1. ASSUME NEW m \in Nat, NEW t \in SUBSET (1 .. m), m \in t
      PROVE  Max(t) = m
  <2>1. \A x \in t : (\A y \in t : x >= y) => x = m
    BY <1>1
  <2>2. \A y \in t : m >= y
    BY <1>1
  <2>3. QED
    BY <1>1, <2>1, <2>2 DEF Max
<1>2. \A k \in Nat : \A t \in SUBSET (1 .. k + 1) : k + 1 \in t => Max(t) = k + 1
  BY <1>1
<1>3. \A i \in Nat \ {0} : Max(1 .. i) = i
  BY <1>1
<1>4. QED
  BY <1>2, <1>3

\* FoldLeft recurs over the sets of indices; the recursion has a solution.
LEMMA FoldUnfolds ==
  ASSUME NEW s, NEW q \in Seq(Events)
  PROVE  \E it :
    /\ it = [t \in SUBSET (1 .. Len(q)) |->
               IF t = {} THEN s
               ELSE ApplyEvent(it[t \ {Max(t)}], q[Max(t)])]
    /\ FoldLeft(ApplyEvent, s, q) = it[1 .. Len(q)]
<1> DEFINE Unfolds(it, k) ==
      it = [t \in SUBSET (1 .. k) |->
              IF t = {} THEN s ELSE ApplyEvent(it[t \ {Max(t)}], q[Max(t)])]
    D == {k \in 0 .. Len(q) : \E it : Unfolds(it, k)}
<1>0. Len(q) \in Nat /\ DOMAIN q = 1 .. Len(q)
  OBVIOUS
<1>1. 0 \in D
  <2> DEFINE none == [t \in SUBSET (1 .. 0) |-> s]
  <2>1. \A t \in SUBSET (1 .. 0) : t = {}
    OBVIOUS
  <2>2. none = [t \in SUBSET (1 .. 0) |->
              IF t = {} THEN s ELSE ApplyEvent(none[t \ {Max(t)}], q[Max(t)])]
    BY <2>1
  <2>3. QED
    BY <1>0, <2>2
<1>2. ASSUME NEW k \in 0 .. Len(q) - 1, k \in D
      PROVE  k + 1 \in D
  <2>1. PICK it : Unfolds(it, k)
    BY <1>2
  <2> DEFINE next == [t \in SUBSET (1 .. k + 1) |->
                IF k + 1 \in t THEN ApplyEvent(it[t \ {k + 1}], q[k + 1])
                ELSE it[t]]
  <2>2. \A t \in SUBSET (1 .. k) : next[t] = it[t]
    BY <1>0
  <2>3. \A t \in SUBSET (1 .. k) :
          it[t] = IF t = {} THEN s ELSE ApplyEvent(it[t \ {Max(t)}], q[Max(t)])
    BY <2>1, Zenon
  <2>4. ASSUME NEW t \in SUBSET (1 .. k + 1)
        PROVE  next[t] = IF t = {} THEN s
                         ELSE ApplyEvent(next[t \ {Max(t)}], q[Max(t)])
    <3>1. CASE k + 1 \in t
      <4>1. Max(t) = k + 1
        BY <3>1, <1>0, MaxFacts
      <4>2. t \ {k + 1} \in SUBSET (1 .. k)
        BY <1>0
      <4>3. next[t \ {k + 1}] = it[t \ {k + 1}]
        BY <2>2, <4>2
      <4>4. next[t] = ApplyEvent(it[t \ {k + 1}], q[k + 1])
        BY <3>1
      <4>5. t # {}
        BY <3>1
      <4> HIDE DEF next
      <4>6. QED
        BY <4>1, <4>3, <4>4, <4>5
    <3>2. CASE k + 1 \notin t
      <4>1. t \in SUBSET (1 .. k)
        BY <3>2, <1>0
      <4>2. t \ {Max(t)} \in SUBSET (1 .. k)
        BY <4>1
      <4> HIDE DEF next
      <4>3. next[t] = it[t] /\ next[t \ {Max(t)}] = it[t \ {Max(t)}]
        BY <2>2, <4>1, <4>2
      <4>4. it[t] = IF t = {} THEN s ELSE ApplyEvent(it[t \ {Max(t)}], q[Max(t)])
        BY <2>3, <4>1
      <4>5. QED
        BY <4>3, <4>4
    <3>3. QED
      BY <3>1, <3>2
  <2>5. Unfolds(next, k + 1)
    BY <2>4
  <2> HIDE DEF Unfolds, next
  <2>6. QED
    BY <1>0, <2>5
<1>3. \E it : Unfolds(it, Len(q))
  <2> HIDE DEF D
  <2>1. \A k \in 0 .. Len(q) - 1 : k \in D => k + 1 \in D
    BY <1>2
  <2>2. \A k \in 0 .. Len(q) : k \in D
    BY <1>0, <1>1, <2>1, UpTo
  <2>3. Len(q) \in D
    BY <1>0, <2>2
  <2>4. QED
    BY <2>3 DEF D
<1> DEFINE iter == CHOOSE it : Unfolds(it, Len(q))
<1>4. Unfolds(iter, Len(q))
  BY <1>3, Zenon
<1>5. FoldLeft(ApplyEvent, s, q) = iter[1 .. Len(q)]
  BY <1>0 DEF FoldLeft, MapThenFoldSet
<1> HIDE DEF iter
<1>6. QED
  BY <1>4, <1>5

\* The states the service goes through while it reads a queue.
IsRun(run, s, q) ==
  /\ run[0] = s
  /\ \A i \in 1 .. Len(q) : run[i] = ApplyEvent(run[i - 1], q[i])

\* Such a sequence exists, and FoldLeft gives its last state.
LEMMA FoldIsRun ==
  ASSUME NEW s, NEW q \in Seq(Events)
  PROVE  \E run : IsRun(run, s, q) /\ FoldLeft(ApplyEvent, s, q) = run[Len(q)]
<1>0. Len(q) \in Nat
  OBVIOUS
<1>1. PICK it :
        /\ it = [t \in SUBSET (1 .. Len(q)) |->
                   IF t = {} THEN s
                   ELSE ApplyEvent(it[t \ {Max(t)}], q[Max(t)])]
        /\ FoldLeft(ApplyEvent, s, q) = it[1 .. Len(q)]
  BY FoldUnfolds
<1>2. \A t \in SUBSET (1 .. Len(q)) :
        it[t] = IF t = {} THEN s ELSE ApplyEvent(it[t \ {Max(t)}], q[Max(t)])
  BY <1>1, Zenon
<1> DEFINE run == [i \in 0 .. Len(q) |-> it[1 .. i]]
<1>3. run[0] = s
  <2>1. 1 .. 0 = {} /\ {} \in SUBSET (1 .. Len(q))
    OBVIOUS
  <2>2. it[{}] = s
    BY <1>2, <2>1
  <2>3. run[0] = it[1 .. 0]
    BY <1>0
  <2>4. QED
    BY <2>1, <2>2, <2>3
<1>4. ASSUME NEW i \in 1 .. Len(q)
      PROVE  run[i] = ApplyEvent(run[i - 1], q[i])
  <2>1. i \in Nat \ {0} /\ i - 1 \in 0 .. Len(q) /\ i \in 0 .. Len(q)
    BY <1>0
  <2>2. 1 .. i \in SUBSET (1 .. Len(q)) /\ i \in 1 .. i
    BY <1>0
  <2>3. (1 .. i) \ {i} = 1 .. i - 1
    BY <1>0
  <2>4. Max(1 .. i) = i
    BY <2>1, MaxFacts
  <2>5. it[1 .. i] = ApplyEvent(it[1 .. i - 1], q[i])
    BY <1>2, <2>2, <2>3, <2>4
  <2>6. run[i] = it[1 .. i] /\ run[i - 1] = it[1 .. i - 1]
    BY <2>1
  <2>7. QED
    BY <2>5, <2>6
<1>5. run[Len(q)] = it[1 .. Len(q)]
  BY <1>0
<1> HIDE DEF run
<1>6. IsRun(run, s, q)
  BY <1>3, <1>4 DEF IsRun
<1>7. QED
  BY <1>1, <1>5, <1>6

-----------------------------------------------------------------------------
(***************************************************************************)
(* LedState.                                                               *)
(***************************************************************************)

\* What an event makes of the parts of the state that the properties are about.
NextHa(ha, e) ==
  CASE e.event = "snapshot" -> e.link
    [] e.event = "connected" -> TRUE
    [] e.event \in {"disconnected", "ha_disconnected"} -> FALSE
    [] OTHER -> ha

NextMic(mic, e) == IF e.event \in {"snapshot", "muted"} THEN e.on ELSE mic

NextPhase(phase, e) ==
  CASE e.event \in Stages -> e.event
    [] e.event = "pipeline_error" -> "error"
    [] e.event \in {"idle", "tts_finished", "disconnected"} -> "idle"
    [] OTHER -> phase

LEMMA EffectFields ==
  ASSUME NEW s \in LedStates, NEW e \in Events, NEW r, r = Effect(s, e)
  PROVE  /\ r \in LedStates
         /\ r.ha = NextHa(s.ha, e)
         /\ r.mic = NextMic(s.mic, e)
         /\ r.phase = NextPhase(s.phase, e)
         /\ r.lva = s.lva /\ r.ever = s.ever
<1>1. e.event \in Stages \union {"snapshot", "pipeline_error", "ha_disconnected", "tts_finished",
            "idle", "settings", "muted", "volume_muted", "volume_changed",
            "timer_ticking", "timer_ringing", "disconnected", "connected"} /\ e.on \in BOOLEAN /\ e.link \in BOOLEAN
  BY DEF Events
<1>2. CASE e.event \in Stages
  BY <1>1, <1>2 DEF Effect, LedStates, Stages, NextHa, NextMic, NextPhase
<1>3. CASE e.event \in {"snapshot", "muted", "connected", "ha_disconnected"}
  BY <1>1, <1>3 DEF Effect, LedStates, Stages, NextHa, NextMic, NextPhase
<1>4. CASE e.event \in {"idle", "tts_finished", "disconnected", "pipeline_error"}
  BY <1>1, <1>4 DEF Effect, LedStates, Stages, NextHa, NextMic, NextPhase
<1>5. CASE e.event \in {"settings", "volume_muted", "volume_changed",
                       "timer_ticking", "timer_ringing"}
  BY <1>1, <1>5 DEF Effect, LedStates, Stages, NextHa, NextMic, NextPhase
<1>6. QED
  BY <1>1, <1>2, <1>3, <1>4, <1>5

\* The same for the whole of apply_event.
LEMMA ApplyFields ==
  ASSUME NEW s \in LedStates, NEW e \in Events
  PROVE  /\ ApplyEvent(s, e) \in LedStates
         /\ ApplyEvent(s, e).ha = NextHa(s.ha, e)
         /\ ApplyEvent(s, e).mic = NextMic(s.mic, e)
         /\ ApplyEvent(s, e).phase = NextPhase(s.phase, e)
         /\ ApplyEvent(s, e).lva = s.lva
         /\ ApplyEvent(s, e).ever = s.ever
<1>1. ASSUME NEW r \in LedStates, NEW b \in BOOLEAN
      PROVE  LET ticked == [r EXCEPT !.ticked = b]
             IN  /\ ticked \in LedStates
                 /\ ticked.ha = r.ha /\ ticked.mic = r.mic
                 /\ ticked.phase = r.phase
                 /\ ticked.lva = r.lva /\ ticked.ever = r.ever
  BY DEF LedStates
<1>2. PICK r : r = Effect(s, e)
  OBVIOUS
<1>3. r \in LedStates
  BY <1>2, EffectFields
<1>4. /\ r.ha = NextHa(s.ha, e) /\ r.mic = NextMic(s.mic, e)
      /\ r.phase = NextPhase(s.phase, e) /\ r.lva = s.lva /\ r.ever = s.ever
  BY <1>2, EffectFields
<1>5. PICK b \in BOOLEAN : b = (e.event = "timer_ticking")
  OBVIOUS
<1>6. ApplyEvent(s, e) = [r EXCEPT !.ticked = b]
  BY <1>2, <1>5 DEF ApplyEvent
<1>7. QED
  BY <1>1, <1>3, <1>4, <1>6

\* The parts of a state that RingTold is about.
Alike(s, t) == s.ha = t.ha /\ s.mic = t.mic /\ s.phase = t.phase

\* They depend on nothing else.
LEMMA ApplyAlike ==
  ASSUME NEW s \in LedStates, NEW t \in LedStates, Alike(s, t), NEW e \in Events
  PROVE  Alike(ApplyEvent(s, e), ApplyEvent(t, e))
  BY ApplyFields DEF Alike

-----------------------------------------------------------------------------
(***************************************************************************)
(* What the service will know.                                             *)
(***************************************************************************)

Known(s, q) == FoldLeft(ApplyEvent, s, q)

LEMMA QueueFacts ==
  ASSUME NEW q \in Seq(Events)
  PROVE  /\ Len(q) \in Nat /\ DOMAIN q = 1 .. Len(q)
         /\ \A i \in 1 .. Len(q) : q[i] \in Events
  OBVIOUS

LEMMA RunType ==
  ASSUME NEW s \in LedStates, NEW q \in Seq(Events), NEW run, IsRun(run, s, q)
  PROVE  \A i \in 0 .. Len(q) : run[i] \in LedStates
<1> DEFINE D == {i \in 0 .. Len(q) : run[i] \in LedStates}
<1>1. Len(q) \in Nat
  BY QueueFacts
<1>2. 0 \in D
  BY <1>1 DEF IsRun
<1>3. \A i \in 0 .. Len(q) - 1 : i \in D => i + 1 \in D
  <2>1. SUFFICES ASSUME NEW i \in 0 .. Len(q) - 1, run[i] \in LedStates
                 PROVE  run[i + 1] \in LedStates
    BY <1>1
  <2>2. i + 1 \in 1 .. Len(q) /\ (i + 1) - 1 = i /\ q[i + 1] \in Events
    BY <1>1, QueueFacts
  <2>3. run[i + 1] = ApplyEvent(run[i], q[i + 1])
    BY <2>2 DEF IsRun
  <2>4. QED
    BY <2>1, <2>2, <2>3, ApplyFields
<1> HIDE DEF D
<1>4. \A i \in 0 .. Len(q) : i \in D
  BY <1>1, <1>2, <1>3, UpTo
<1>5. QED
  BY <1>4 DEF D

\* Two readings of the same events, one of them d events ahead, stay alike.
LEMMA RunsAlike ==
  ASSUME NEW s \in LedStates, NEW q \in Seq(Events), NEW r, IsRun(r, s, q),
         NEW t \in LedStates, NEW p \in Seq(Events), NEW o, IsRun(o, t, p),
         NEW d \in Nat, NEW n \in Nat, n <= Len(q), n + d <= Len(p),
         \A i \in 1 .. n : p[i + d] = q[i],
         Alike(r[0], o[d])
  PROVE  Alike(r[n], o[n + d])
<1> DEFINE D == {i \in 0 .. n : Alike(r[i], o[i + d])}
<1>1. 0 \in D
  OBVIOUS
<1>2. \A i \in 0 .. n - 1 : i \in D => i + 1 \in D
  <2>1. SUFFICES ASSUME NEW i \in 0 .. n - 1, Alike(r[i], o[i + d])
                 PROVE  Alike(r[i + 1], o[(i + 1) + d])
    OBVIOUS
  <2>2. /\ i + 1 \in 1 .. n /\ i + 1 \in 1 .. Len(q) /\ (i + 1) - 1 = i
        /\ (i + 1) + d \in 1 .. Len(p) /\ ((i + 1) + d) - 1 = i + d
        /\ i \in 0 .. Len(q) /\ i + d \in 0 .. Len(p)
    BY QueueFacts
  <2>3. r[i + 1] = ApplyEvent(r[i], q[i + 1]) /\ r[i] \in LedStates
    BY <2>2, RunType DEF IsRun
  <2>4. o[(i + 1) + d] = ApplyEvent(o[i + d], q[i + 1]) /\ o[i + d] \in LedStates
    BY <2>2, RunType DEF IsRun
  <2>5. q[i + 1] \in Events
    BY <2>2, QueueFacts
  <2>6. QED
    BY <2>1, <2>3, <2>4, <2>5, ApplyAlike
<1> HIDE DEF D
<1>3. \A i \in 0 .. n : i \in D
  BY <1>1, <1>2, UpTo
<1>4. n \in D
  BY <1>3
<1>5. QED
  BY <1>4 DEF D

LEMMA KnownType ==
  ASSUME NEW s \in LedStates, NEW q \in Seq(Events)
  PROVE  Known(s, q) \in LedStates
<1>1. PICK run : IsRun(run, s, q) /\ Known(s, q) = run[Len(q)]
  BY FoldIsRun DEF Known
<1>2. QED
  BY <1>1, RunType, QueueFacts

LEMMA KnownEmpty ==
  ASSUME NEW s
  PROVE  Known(s, <<>>) = s
<1>1. <<>> \in Seq(Events) /\ Len(<<>>) = 0
  OBVIOUS
<1>2. QED
  BY <1>1, FoldIsRun DEF Known, IsRun

\* An event that is sent is known last.
LEMMA KnownAppend ==
  ASSUME NEW s \in LedStates, NEW q \in Seq(Events), NEW e \in Events
  PROVE  Alike(Known(s, Append(q, e)), ApplyEvent(Known(s, q), e))
<1> DEFINE p == Append(q, e)
<1>1. /\ p \in Seq(Events) /\ Len(q) \in Nat /\ Len(p) = Len(q) + 1
      /\ p[Len(q) + 1] = e /\ \A i \in 1 .. Len(q) : p[i + 0] = q[i]
  OBVIOUS
<1> HIDE DEF p
<1>2. PICK r : IsRun(r, s, q) /\ Known(s, q) = r[Len(q)]
  BY FoldIsRun DEF Known
<1>3. PICK o : IsRun(o, s, p) /\ Known(s, p) = o[Len(p)]
  BY <1>1, FoldIsRun DEF Known
<1>4. Alike(r[0], o[0])
  BY <1>2, <1>3 DEF IsRun, Alike
<1>5. Alike(r[Len(q)], o[Len(q) + 0])
  <2>1. Len(q) <= Len(q) /\ Len(q) + 0 <= Len(p) /\ 0 \in Nat
    BY <1>1
  <2>2. QED
    BY <1>1, <1>2, <1>3, <1>4, <2>1, RunsAlike
<1>6. /\ Len(q) + 1 \in 1 .. Len(p) /\ (Len(q) + 1) - 1 = Len(q) /\ Len(q) + 0 = Len(q)
      /\ Len(q) \in 0 .. Len(q) /\ Len(q) \in 0 .. Len(p)
  BY <1>1
<1>7. o[Len(p)] = ApplyEvent(o[Len(q)], e)
  BY <1>1, <1>3, <1>6 DEF IsRun
<1>8. r[Len(q)] \in LedStates /\ o[Len(q)] \in LedStates
  BY <1>1, <1>2, <1>3, <1>6, RunType
<1>9. Alike(ApplyEvent(r[Len(q)], e), ApplyEvent(o[Len(q)], e))
  BY <1>5, <1>6, <1>8, ApplyAlike
<1>10. QED
  BY <1>2, <1>3, <1>7, <1>9 DEF Alike, p

\* Reading an event changes nothing of what will be known.
LEMMA KnownTail ==
  ASSUME NEW s \in LedStates, NEW q \in Seq(Events), q # <<>>
  PROVE  Alike(Known(ApplyEvent(s, Head(q)), Tail(q)), Known(s, q))
<1> DEFINE t == ApplyEvent(s, Head(q))
           p == Tail(q)
<1>1. /\ p \in Seq(Events) /\ Len(p) \in Nat /\ Len(q) = Len(p) + 1
      /\ Head(q) = q[1] /\ Head(q) \in Events /\ 1 \in 1 .. Len(q)
      /\ \A i \in 1 .. Len(p) : q[i + 1] = p[i]
  OBVIOUS
<1>2. t \in LedStates
  BY <1>1, ApplyFields
<1>3. t = ApplyEvent(s, q[1])
  BY <1>1
<1> HIDE DEF p, t
<1>4. PICK r : IsRun(r, t, p) /\ Known(t, p) = r[Len(p)]
  BY <1>1, FoldIsRun DEF Known
<1>5. PICK o : IsRun(o, s, q) /\ Known(s, q) = o[Len(q)]
  BY FoldIsRun DEF Known
<1>6. o[1] = t
  BY <1>1, <1>3, <1>5 DEF IsRun
<1>7. Alike(r[0], o[1])
  BY <1>4, <1>6 DEF IsRun, Alike
<1>8. Alike(r[Len(p)], o[Len(p) + 1])
  BY <1>1, <1>2, <1>4, <1>5, <1>7, RunsAlike
<1>9. QED
  BY <1>1, <1>4, <1>5, <1>8 DEF p, t

LEMMA KnownAlike ==
  ASSUME NEW s \in LedStates, NEW t \in LedStates, Alike(s, t), NEW q \in Seq(Events)
  PROVE  Alike(Known(s, q), Known(t, q))
<1>1. PICK r : IsRun(r, s, q) /\ Known(s, q) = r[Len(q)]
  BY FoldIsRun DEF Known
<1>2. PICK o : IsRun(o, t, q) /\ Known(t, q) = o[Len(q)]
  BY FoldIsRun DEF Known
<1>3. Alike(r[0], o[0])
  BY <1>1, <1>2 DEF IsRun
<1>4. Len(q) \in Nat /\ Len(q) + 0 = Len(q) /\ \A i \in 1 .. Len(q) : q[i + 0] = q[i]
  BY QueueFacts
<1>5. Alike(r[Len(q)], o[Len(q) + 0])
  BY <1>1, <1>2, <1>3, <1>4, RunsAlike
<1>6. QED
  BY <1>1, <1>2, <1>4, <1>5

-----------------------------------------------------------------------------
(***************************************************************************)
(* The invariant.                                                          *)
(***************************************************************************)

Fits(phase, at) == phase = at \/ (phase = "error" /\ at = "idle")

Told(s) == s.ha = link /\ s.mic = muted /\ Fits(s.phase, stage)

\* The service knows whether it is connected, and that it has been; a lost
\* connection has left no event and no stage of the pipeline behind.
Linked ==
  /\ led.lva <=> conn # "down"
  /\ led.lva => led.ever
  /\ conn = "down" => events = <<>> /\ led.phase = "idle"

RingInv == TypeOK /\ RingTold /\ Linked

LEMMA ToldOfKnown ==
  RingTold <=> (conn = "up" => Told(Known(led, events)))
  BY DEF RingTold, Told, Fits, Known

LEMMA AlikeTold ==
  ASSUME NEW s, NEW t, Alike(s, t)
  PROVE  Told(s) <=> Told(t)
  BY DEF Alike, Told

EventNames ==
  Stages \union
  {"pipeline_error", "ha_disconnected", "tts_finished", "idle", "settings",
   "muted", "volume_muted", "volume_changed", "timer_ticking",
   "timer_ringing", "disconnected", "connected"}

\* An event that says what has changed in the voice process keeps the service
\* informed, if it is connected.
LEMMA TellKeeps ==
  ASSUME RingInv, NEW name \in EventNames, NEW on \in BOOLEAN, Tell(name, on),
         stage' \in UsedStages \union {"idle"},
         link' \in BOOLEAN /\ link' = NextHa(link, Event(name, on)),
         muted' \in BOOLEAN /\ muted' = NextMic(muted, Event(name, on)),
         \A phase : Fits(phase, stage) =>
                      Fits(NextPhase(phase, Event(name, on)), stage')
  PROVE  RingInv'
<1> DEFINE e == Event(name, on)
<1>1. TypeOK /\ led \in LedStates /\ events \in Seq(Events)
  BY DEF RingInv, TypeOK
<1>2. e \in Events
  BY DEF Event, Events, EventNames
<1>3. UNCHANGED <<hotspot, conn, led>>
  BY DEF Tell
<1>4. Linked'
  BY <1>3 DEF RingInv, Linked, Tell
<1>5. CASE conn = "up"
  <2>1. Len(events) < MaxEvents /\ events' = Append(events, e)
    BY <1>5 DEF Tell
  <2>2. events' \in Seq(Events) /\ Len(events') <= MaxEvents
    BY <1>1, <1>2, <2>1, RingAssumption
  <2>3. TypeOK'
    BY <1>1, <1>3, <2>2 DEF TypeOK
  <2>4. PICK k : k = Known(led, events) /\ k \in LedStates
    BY <1>1, KnownType
  <2>5. Told(k)
    BY <1>5, <2>4, ToldOfKnown DEF RingInv
  <2>6. Alike(Known(led', events'), ApplyEvent(k, e))
    BY <1>1, <1>2, <1>3, <2>1, <2>4, KnownAppend
  <2> HIDE DEF e
  <2>7. /\ ApplyEvent(k, e).ha = NextHa(k.ha, e)
        /\ ApplyEvent(k, e).mic = NextMic(k.mic, e)
        /\ ApplyEvent(k, e).phase = NextPhase(k.phase, e)
    BY <1>2, <2>4, ApplyFields
  <2>8. /\ NextHa(k.ha, e) = link' /\ NextMic(k.mic, e) = muted'
        /\ Fits(NextPhase(k.phase, e), stage')
    BY <2>5 DEF Told, e
  <2>9. Told(Known(led, events))'
    BY <2>6, <2>7, <2>8 DEF Alike, Told
  <2>10. RingTold'
    BY <2>9, ToldOfKnown, PTL
  <2>11. QED
    BY <1>4, <2>3, <2>10 DEF RingInv
<1>6. CASE conn # "up"
  <2>1. UNCHANGED events
    BY <1>6 DEF Tell
  <2>2. TypeOK' /\ RingTold'
    BY <1>1, <1>3, <1>6, <2>1 DEF TypeOK, RingTold
  <2>3. QED
    BY <1>4, <2>2 DEF RingInv
<1>7. QED
  BY <1>5, <1>6

\* The voice process.
LEMMA VoiceKeeps ==
  ASSUME RingInv,
         EnterStage \/ LeaveStage \/ LoseLink \/ GetLink \/ MuteMicrophone \/ Announce
  PROVE  RingInv'
<1>1. /\ stage \in UsedStages \union {"idle"} /\ link \in BOOLEAN /\ muted \in BOOLEAN
      /\ UsedStages \subseteq EventNames /\ UsedStages \subseteq Stages
  BY RingAssumption DEF RingInv, TypeOK, EventNames
<1>2. CASE EnterStage
  <2>1. /\ stage' \in UsedStages /\ Tell(stage', FALSE)
        /\ UNCHANGED <<link, muted>>
    BY <1>2 DEF EnterStage
  <2>2. /\ NextHa(link, Event(stage', FALSE)) = link
        /\ NextMic(muted, Event(stage', FALSE)) = muted
        /\ \A phase : NextPhase(phase, Event(stage', FALSE)) = stage'
    BY <1>1, <2>1 DEF Event, Stages, NextHa, NextMic, NextPhase
  <2>3. QED
    BY <1>1, <2>1, <2>2, TellKeeps DEF Fits
<1>3. CASE LeaveStage
  <2>1. PICK name \in {"idle", "tts_finished", "pipeline_error"} : Tell(name, FALSE)
    BY <1>3 DEF LeaveStage
  <2>2. stage' = "idle" /\ UNCHANGED <<link, muted>> /\ name \in EventNames
    BY <1>3 DEF LeaveStage, EventNames
  <2>3. /\ NextHa(link, Event(name, FALSE)) = link
        /\ NextMic(muted, Event(name, FALSE)) = muted
        /\ \A phase : NextPhase(phase, Event(name, FALSE)) \in {"idle", "error"}
    BY DEF Event, Stages, NextHa, NextMic, NextPhase
  <2>4. QED
    BY <1>1, <2>1, <2>2, <2>3, TellKeeps DEF Fits
<1>4. CASE LoseLink
  <2>1. link' = FALSE /\ UNCHANGED muted
    BY <1>4 DEF LoseLink
  <2>2. CASE stage' = "idle" /\ Tell("disconnected", FALSE)
    <3>1. /\ NextHa(link, Event("disconnected", FALSE)) = FALSE
          /\ NextMic(muted, Event("disconnected", FALSE)) = muted
          /\ \A phase : NextPhase(phase, Event("disconnected", FALSE)) = "idle"
      BY DEF Event, Stages, NextHa, NextMic, NextPhase
    <3>2. "disconnected" \in EventNames
      BY DEF EventNames
    <3>3. QED
      BY <1>1, <2>1, <2>2, <3>1, <3>2, TellKeeps DEF Fits
  <2>3. CASE UNCHANGED stage /\ Tell("ha_disconnected", FALSE)
    <3>1. /\ NextHa(link, Event("ha_disconnected", FALSE)) = FALSE
          /\ NextMic(muted, Event("ha_disconnected", FALSE)) = muted
          /\ \A phase : NextPhase(phase, Event("ha_disconnected", FALSE)) = phase
      BY DEF Event, Stages, NextHa, NextMic, NextPhase
    <3>2. "ha_disconnected" \in EventNames
      BY DEF EventNames
    <3>3. QED
      BY <1>1, <2>1, <2>3, <3>1, <3>2, TellKeeps DEF Fits
  <2>4. QED
    BY <1>4, <2>2, <2>3 DEF LoseLink
<1>5. CASE GetLink
  <2>1. link' = TRUE /\ UNCHANGED <<stage, muted>> /\ Tell("connected", FALSE)
    BY <1>5 DEF GetLink
  <2>2. /\ NextHa(link, Event("connected", FALSE)) = TRUE
        /\ NextMic(muted, Event("connected", FALSE)) = muted
        /\ \A phase : NextPhase(phase, Event("connected", FALSE)) = phase
    BY DEF Event, Stages, NextHa, NextMic, NextPhase
  <2>3. "connected" \in EventNames
    BY DEF EventNames
  <2>4. QED
    BY <1>1, <2>1, <2>2, <2>3, TellKeeps DEF Fits
<1>6. CASE MuteMicrophone
  <2>1. muted' = ~muted /\ UNCHANGED <<stage, link>> /\ Tell("muted", muted')
    BY <1>6 DEF MuteMicrophone
  <2>2. /\ NextHa(link, Event("muted", muted')) = link
        /\ NextMic(muted, Event("muted", muted')) = muted'
        /\ \A phase : NextPhase(phase, Event("muted", muted')) = phase
    BY DEF Event, Stages, NextHa, NextMic, NextPhase
  <2>3. "muted" \in EventNames /\ muted' \in BOOLEAN
    BY <1>1, <2>1 DEF EventNames
  <2>4. QED
    BY <1>1, <2>1, <2>2, <2>3, TellKeeps DEF Fits
<1>7. CASE Announce
  <2>1. UNCHANGED <<stage, link, muted>>
    BY <1>7 DEF Announce, voice
  <2>2. CASE stage = "idle" /\ Tell("idle", FALSE)
    <3>1. /\ NextHa(link, Event("idle", FALSE)) = link
          /\ NextMic(muted, Event("idle", FALSE)) = muted
          /\ \A phase : NextPhase(phase, Event("idle", FALSE)) = "idle"
      BY DEF Event, Stages, NextHa, NextMic, NextPhase
    <3>2. "idle" \in EventNames
      BY DEF EventNames
    <3>3. QED
      BY <1>1, <2>1, <2>2, <3>1, <3>2, TellKeeps DEF Fits
  <2>3. ASSUME NEW name \in News, NEW on \in BOOLEAN, Tell(name, on)
        PROVE  RingInv'
    <3>1. name \in {"settings", "volume_changed", "volume_muted", "timer_ticking",
                    "timer_ringing"}
      BY RingAssumption
    <3>2. /\ NextHa(link, Event(name, on)) = link
          /\ NextMic(muted, Event(name, on)) = muted
          /\ \A phase : NextPhase(phase, Event(name, on)) = phase
      BY <3>1 DEF Event, Stages, NextHa, NextMic, NextPhase
    <3>3. name \in EventNames
      BY <3>1 DEF EventNames
    <3>4. QED
      BY <1>1, <2>1, <2>3, <3>2, <3>3, TellKeeps DEF Fits
  <2>4. QED
    BY <1>7, <2>2, <2>3 DEF Announce
<1>8. QED
  BY <1>2, <1>3, <1>4, <1>5, <1>6, <1>7

\* A new connection starts with a snapshot and the stage, and what an earlier
\* one left in the service is overwritten by it: the phase because it was set
\* back, the rest by the snapshot.
LEMMA ConnectKeeps ==
  ASSUME RingInv, Connect
  PROVE  RingInv'
<1>1. TypeOK /\ led \in LedStates /\ UsedStages \subseteq Stages
  BY RingAssumption DEF RingInv, TypeOK
<1>2. led.phase = "idle" /\ conn' = "up" /\ UNCHANGED world /\ led' = Connected(led)
  BY DEF Connect, RingInv, Linked
<1>3. /\ led' \in LedStates /\ led'.lva = TRUE /\ led'.ever = TRUE
      /\ led'.phase = "idle"
  BY <1>1, <1>2 DEF Connected, LedStates
<1> DEFINE first == [event |-> "snapshot", on |-> muted, link |-> link]
           second == Event(stage, FALSE)
           q == <<first>>
<1>4. first \in Events /\ q \in Seq(Events) /\ q = Append(<<>>, first) /\ Len(q) = 1
  BY <1>1 DEF TypeOK, Events
<1> HIDE DEF q
<1>5. PICK k : k = Known(led', q) /\ k \in LedStates
  BY <1>3, <1>4, KnownType
<1>6. k.ha = link /\ k.mic = muted /\ k.phase = "idle"
  <2>1. <<>> \in Seq(Events) /\ Known(led', <<>>) = led'
    BY KnownEmpty
  <2>2. Alike(Known(led', Append(<<>>, first)), ApplyEvent(Known(led', <<>>), first))
    BY <1>3, <1>4, <2>1, KnownAppend
  <2>3. Alike(k, ApplyEvent(led', first))
    BY <1>4, <1>5, <2>1, <2>2
  <2>4. /\ NextHa(led'.ha, first) = link /\ NextMic(led'.mic, first) = muted
        /\ NextPhase(led'.phase, first) = "idle"
    BY <1>3 DEF NextHa, NextMic, NextPhase, Stages
  <2>5. QED
    BY <1>3, <1>4, <2>3, <2>4, ApplyFields DEF Alike
<1>7. CASE stage = "idle"
  <2>1. events' = q
    BY <1>7 DEF Connect, q
  <2>2. Told(Known(led, events))'
    BY <1>2, <1>5, <1>6, <1>7, <2>1 DEF Told, Fits, world, voice
  <2>3. RingTold'
    BY <2>2, ToldOfKnown, PTL
  <2>4. TypeOK' /\ Linked'
    BY <1>1, <1>2, <1>3, <1>4, <2>1, RingAssumption DEF TypeOK, Linked, world, voice
  <2>5. QED
    BY <2>3, <2>4 DEF RingInv
<1>8. CASE stage # "idle"
  <2>1. events' = Append(q, second)
    <3>1. events' = q \o <<second>>
      BY <1>8 DEF Connect, q
    <3> HIDE DEF second
    <3>2. q \o <<second>> = Append(q, second)
      BY <1>4
    <3>3. QED
      BY <3>1, <3>2
  <2>2. stage \in Stages /\ second \in Events
    BY <1>1, <1>8 DEF TypeOK, Events, Event
  <2>3. Alike(Known(led', events'), ApplyEvent(k, second))
    BY <1>3, <1>4, <1>5, <2>1, <2>2, KnownAppend
  <2>4. /\ NextHa(k.ha, second) = k.ha /\ NextMic(k.mic, second) = k.mic
        /\ NextPhase(k.phase, second) = stage
    BY <2>2 DEF NextHa, NextMic, NextPhase, Event, Stages
  <2> HIDE DEF second
  <2>5. Told(Known(led, events))'
    BY <1>2, <1>5, <1>6, <2>2, <2>3, <2>4, ApplyFields DEF Alike, Told, Fits, world, voice
  <2>6. RingTold'
    BY <2>5, ToldOfKnown, PTL
  <2>7. events' \in Seq(Events) /\ Len(events') = 2
    BY <1>4, <2>1, <2>2
  <2>8. TypeOK' /\ Linked'
    BY <1>1, <1>2, <1>3, <2>7, RingAssumption DEF TypeOK, Linked, world, voice
  <2>9. QED
    BY <2>6, <2>8 DEF RingInv
<1>9. QED
  BY <1>7, <1>8

\* Without a connection nothing is promised of the events.
LEMMA LoseKeeps ==
  ASSUME RingInv, Lose
  PROVE  RingInv'
<1>1. conn = "up" /\ conn' = "closing" /\ UNCHANGED <<hotspot, led>>
  BY DEF Lose
<1>2. events' \in Seq(Events) /\ Len(events') <= MaxEvents
  <2>1. events \in Seq(Events) /\ Len(events) \in Nat /\ Len(events) <= MaxEvents
    BY DEF RingInv, TypeOK
  <2>2. events' \in Prefixes(events)
    BY DEF Lose
  <2>3. PICK n \in 0 .. Len(events) : events' = SubSeq(events, 1, n)
    BY <2>2 DEF Prefixes
  <2>4. events' \in Seq(Events) /\ Len(events') = n
    BY <2>1, <2>3
  <2>5. QED
    BY <2>1, <2>4, RingAssumption
<1>3. TypeOK'
  BY <1>1, <1>2, RingAssumption DEF RingInv, TypeOK, Lose, voice
<1>4. RingTold' /\ Linked'
  BY <1>1 DEF RingInv, RingTold, Linked
<1>5. QED
  BY <1>3, <1>4 DEF RingInv

LEMMA ReadKeeps ==
  ASSUME RingInv, ReadEvent
  PROVE  RingInv'
<1>1. /\ events # <<>> /\ events \in Seq(Events) /\ led \in LedStates
      /\ Len(events) <= MaxEvents /\ conn # "down"
  BY DEF RingInv, TypeOK, ReadEvent, Linked
<1>2. /\ led' = ApplyEvent(led, Head(events)) /\ events' = Tail(events)
      /\ UNCHANGED <<world, conn>>
  BY DEF ReadEvent
<1>3. /\ Head(events) \in Events /\ events' \in Seq(Events)
      /\ Len(events') <= MaxEvents
  BY <1>1, <1>2, RingAssumption
<1>4. led' \in LedStates /\ led'.lva = led.lva /\ led'.ever = led.ever
  BY <1>1, <1>2, <1>3, ApplyFields
<1>5. TypeOK'
  BY <1>2, <1>3, <1>4 DEF RingInv, TypeOK, world, voice
<1>6. Linked'
  BY <1>1, <1>2, <1>4 DEF RingInv, Linked
<1>7. RingTold'
  <2>1. Alike(Known(led', events'), Known(led, events))
    BY <1>1, <1>2, KnownTail
  <2>2. conn' = "up" => Told(Known(led, events))
    BY <1>2, ToldOfKnown DEF RingInv
  <2>3. (conn = "up" => Told(Known(led, events)))'
    BY <1>2, <2>1, <2>2 DEF Alike, Told, Fits, world, voice
  <2>4. QED
    BY <2>3, ToldOfKnown, PTL
<1>8. QED
  BY <1>5, <1>6, <1>7 DEF RingInv

\* Nothing that the service does on its own touches what it was told.
LEMMA ServiceKeeps ==
  ASSUME RingInv, WatchHotspot \/ Expire \/ ToggleHotspot \/ UNCHANGED vars
  PROVE  RingInv'
<1>1. UNCHANGED <<voice, conn, events>>
  BY DEF WatchHotspot, Expire, ToggleHotspot, vars, world
<1>2. /\ hotspot' \in BOOLEAN /\ led' \in LedStates /\ Alike(led', led)
      /\ led'.lva = led.lva /\ led'.ever = led.ever
  BY DEF RingInv, TypeOK, WatchHotspot, Expire, ToggleHotspot, vars, world, LedStates,
         Alike
<1>3. TypeOK' /\ Linked'
  BY <1>1, <1>2 DEF RingInv, TypeOK, Linked, voice, Alike
<1>4. RingTold'
  <2>1. events \in Seq(Events) /\ led \in LedStates
    BY DEF RingInv, TypeOK
  <2>2. Alike(Known(led', events), Known(led, events))
    BY <1>2, <2>1, KnownAlike
  <2>3. conn' = "up" => Told(Known(led, events))
    BY <1>1, ToldOfKnown DEF RingInv
  <2>4. (conn = "up" => Told(Known(led, events)))'
    BY <1>1, <2>2, <2>3 DEF Alike, Told, Fits, voice
  <2>5. QED
    BY <2>4, ToldOfKnown, PTL
<1>5. QED
  BY <1>3, <1>4 DEF RingInv

LEMMA DisconnectKeeps ==
  ASSUME RingInv, Disconnect
  PROVE  RingInv'
<1>1. /\ conn' = "down" /\ UNCHANGED <<world, events>> /\ events = <<>>
      /\ led' = Disconnected(led) /\ led \in LedStates
  BY DEF Disconnect, RingInv, TypeOK
<1>2. led' \in LedStates /\ led'.lva = FALSE /\ led'.phase = "idle"
  BY <1>1 DEF Disconnected, LedStates
<1>3. TypeOK' /\ RingTold' /\ Linked'
  BY <1>1, <1>2 DEF RingInv, TypeOK, RingTold, Linked, world, voice
<1>4. QED
  BY <1>3 DEF RingInv

LEMMA RingInit == Init => RingInv
<1> SUFFICES ASSUME Init PROVE RingInv
  OBVIOUS
<1>1. led \in LedStates /\ led.lva = FALSE /\ led.ever = FALSE /\ led.phase = "idle"
  BY DEF Init, NewState, LedStates
<1>2. <<>> \in Seq(Events) /\ Len(<<>>) <= MaxEvents
  BY RingAssumption
<1>3. QED
  BY <1>1, <1>2 DEF Init, RingInv, TypeOK, RingTold, Linked

-----------------------------------------------------------------------------
(***************************************************************************)
(* The theorems.                                                           *)
(***************************************************************************)

\* The invariant of the LED service: what it will know once it has read what
\* is under way, and what it knows of its connection (leds.py:160-235).
THEOREM RingInvariantHolds == Spec => []RingInv
<1>1. RingInv /\ [Next]_vars => RingInv'
  BY VoiceKeeps, ConnectKeeps, LoseKeeps, ReadKeeps, ServiceKeeps, DisconnectKeeps
     DEF Next
<1>2. QED
  BY <1>1, RingInit, PTL DEF Spec

\* Type correctness, for any stages and any number of events under way.
THEOREM RingTypes == Spec => []TypeOK
<1>1. RingInv => TypeOK
  BY DEF RingInv
<1>2. QED
  BY <1>1, RingInvariantHolds, PTL

\* Once the service has read what is under way, it knows the state the voice
\* process is in, however many events that are and whatever was lost with
\* earlier connections (leds.py:172-176).
THEOREM RingIsTold == Spec => []RingTold
<1>1. RingInv => RingTold
  BY DEF RingInv
<1>2. QED
  BY <1>1, RingInvariantHolds, PTL

-----------------------------------------------------------------------------
(***************************************************************************)
(* What shows.                                                             *)
(***************************************************************************)

LEMMA ShowsFirst ==
  ASSUME NEW s, NEW i \in 1 .. 14, HasClaim(s, Priority[i]),
         \A j \in 1 .. i - 1 : ~HasClaim(s, Priority[j])
  PROVE  Shows(s) = Priority[i]
<1> DEFINE T == {j \in DOMAIN Priority : HasClaim(s, Priority[j])}
<1>1. DOMAIN Priority = 1 .. 14
  BY DEF Priority
<1>2. i \in T /\ \A j \in T : i <= j
  BY <1>1
<1>3. T \subseteq Int
  BY <1>1
<1> HIDE DEF T
<1>4. \A j \in T : (\A k \in T : j <= k) => j = i
  BY <1>2, <1>3
<1>5. Min(T) = i
  BY <1>2, <1>4 DEF Min
<1>6. QED
  BY <1>5 DEF Shows, T

\* The claims, in the order of snapshot.
LEMMA ClaimFacts ==
  ASSUME NEW s \in LedStates
  PROVE  /\ HasClaim(s, "provisioning") <=> s.provisioning
         /\ HasClaim(s, "initializing") <=> ~s.lva /\ ~s.ever
         /\ HasClaim(s, "disconnected") <=> ~s.lva \/ ~s.ha
         /\ HasClaim(s, "volume") <=> s.volume
         /\ HasClaim(s, "timer_ringing") <=> s.timer = "ringing"
         /\ HasClaim(s, "waiting") <=> s.phase = "wake_word_detected"
         /\ HasClaim(s, "listening") <=> s.phase = "listening"
         /\ HasClaim(s, "thinking") <=> s.phase = "thinking"
         /\ HasClaim(s, "tool_call") <=> s.phase = "tool_call"
         /\ HasClaim(s, "replying") <=> s.phase = "tts_speaking"
         /\ HasClaim(s, "error") <=> s.phase = "error" /\ s.error
         /\ HasClaim(s, "timer_ticking") <=> s.timer # "none"
         /\ HasClaim(s, "muted") <=> s.mic \/ s.speaker
         /\ HasClaim(s, "idle")
<1>1. DOMAIN Claims(s) =
        {"provisioning", "initializing", "disconnected", "volume",
         "timer_ringing", "error", "timer_ticking", "muted", "idle"}
  BY DEF Claims
<1>2. /\ Claims(s)["provisioning"] = s.provisioning
      /\ Claims(s)["initializing"] = (~s.lva /\ ~s.ever)
      /\ Claims(s)["disconnected"] = (~s.lva \/ ~s.ha)
      /\ Claims(s)["volume"] = s.volume
      /\ Claims(s)["timer_ringing"] = (s.timer = "ringing")
      /\ Claims(s)["error"] = (s.phase = "error" /\ s.error)
      /\ Claims(s)["timer_ticking"] = (s.timer # "none")
      /\ Claims(s)["muted"] = (s.mic \/ s.speaker)
      /\ Claims(s)["idle"] = TRUE
  BY DEF Claims
<1>3. /\ StagePhase["wake_word_detected"] = "waiting"
      /\ StagePhase["listening"] = "listening"
      /\ StagePhase["thinking"] = "thinking"
      /\ StagePhase["tool_call"] = "tool_call"
      /\ StagePhase["tts_speaking"] = "replying"
  BY DEF StagePhase
<1>4. \A phase : (s.phase \in Stages /\ phase = StagePhase[s.phase]) <=>
        \/ s.phase = "wake_word_detected" /\ phase = "waiting"
        \/ s.phase = "listening" /\ phase = "listening"
        \/ s.phase = "thinking" /\ phase = "thinking"
        \/ s.phase = "tool_call" /\ phase = "tool_call"
        \/ s.phase = "tts_speaking" /\ phase = "replying"
  BY <1>3 DEF Stages
<1>5. QED
  BY <1>1, <1>2, <1>4 DEF HasClaim

\* What is behind nothing else shows.
LEMMA ShownPhase ==
  ASSUME NEW s \in LedStates
  PROVE  /\ s.provisioning => Shows(s) = "provisioning"
         /\ ~s.provisioning /\ ~s.lva =>
              Shows(s) \in {"initializing", "disconnected"}
         /\ ~s.provisioning /\ s.lva /\ ~s.ha => Shows(s) = "disconnected"
         /\ ~s.provisioning /\ s.lva /\ s.ha /\ ~s.volume /\ s.timer = "none" =>
              /\ s.phase \in Stages => Shows(s) = StagePhase[s.phase]
              /\ s.phase \notin Stages /\ ~s.error =>
                   Shows(s) = IF s.mic \/ s.speaker THEN "muted" ELSE "idle"
<1>1. s.provisioning => Shows(s) = "provisioning"
  <2>1. 1 \in 1 .. 14 /\ Priority[1] = "provisioning" /\ 1 .. 1 - 1 = {}
    BY DEF Priority
  <2>2. QED
    BY <2>1, ShowsFirst, ClaimFacts
<1>2. ASSUME ~s.provisioning, ~s.lva
      PROVE  Shows(s) \in {"initializing", "disconnected"}
  <2>1. /\ Priority[1] = "provisioning" /\ Priority[2] = "initializing"
        /\ Priority[3] = "disconnected"
    BY DEF Priority
  <2>2. CASE ~s.ever
    <3>1. HasClaim(s, Priority[2]) /\ \A j \in 1 .. 2 - 1 : ~HasClaim(s, Priority[j])
      BY <1>2, <2>1, <2>2, ClaimFacts
    <3>2. QED
      BY <2>1, <3>1, ShowsFirst
  <2>3. CASE s.ever
    <3>1. HasClaim(s, Priority[3]) /\ \A j \in 1 .. 3 - 1 : ~HasClaim(s, Priority[j])
      BY <1>2, <2>1, <2>3, ClaimFacts
    <3>2. QED
      BY <2>1, <3>1, ShowsFirst
  <2>4. QED
    BY <2>2, <2>3
<1>3. ASSUME ~s.provisioning, s.lva, ~s.ha
      PROVE  Shows(s) = "disconnected"
  <2>1. /\ Priority[1] = "provisioning" /\ Priority[2] = "initializing"
        /\ Priority[3] = "disconnected"
    BY DEF Priority
  <2>2. HasClaim(s, Priority[3]) /\ \A j \in 1 .. 3 - 1 : ~HasClaim(s, Priority[j])
    BY <1>3, <2>1, ClaimFacts
  <2>3. QED
    BY <2>1, <2>2, ShowsFirst
<1>4. ASSUME ~s.provisioning, s.lva, s.ha, ~s.volume, s.timer = "none"
      PROVE  /\ s.phase \in Stages => Shows(s) = StagePhase[s.phase]
             /\ s.phase \notin Stages /\ ~s.error =>
                  Shows(s) = IF s.mic \/ s.speaker THEN "muted" ELSE "idle"
  <2>1. /\ Priority[1] = "provisioning" /\ Priority[2] = "initializing"
        /\ Priority[3] = "disconnected" /\ Priority[4] = "volume"
        /\ Priority[5] = "timer_ringing"
    BY DEF Priority
  <2>2. \A j \in 1 .. 5 : ~HasClaim(s, Priority[j])
    BY <1>4, <2>1, ClaimFacts
  <2>3. /\ Priority[6] = "waiting" /\ Priority[7] = "listening"
        /\ Priority[8] = "thinking" /\ Priority[9] = "tool_call"
        /\ Priority[10] = "replying"
    BY DEF Priority
  <2>4. ASSUME s.phase \in Stages
        PROVE  Shows(s) = StagePhase[s.phase]
    <3>1. PICK i \in 6 .. 10 : Priority[i] = StagePhase[s.phase]
      BY <2>3, <2>4 DEF Stages, StagePhase
    <3>2. HasClaim(s, Priority[i])
      BY <2>4, <3>1 DEF HasClaim
    <3>3. \A j \in 6 .. i - 1 : ~HasClaim(s, Priority[j])
      BY <2>3, <3>1, <3>2, ClaimFacts
    <3>4. \A j \in 1 .. i - 1 : ~HasClaim(s, Priority[j])
      BY <2>2, <3>3
    <3>5. QED
      BY <3>1, <3>2, <3>4, ShowsFirst
  <2>5. ASSUME s.phase \notin Stages, ~s.error
        PROVE  Shows(s) = IF s.mic \/ s.speaker THEN "muted" ELSE "idle"
    <3>1. /\ Priority[11] = "error" /\ Priority[12] = "timer_ticking"
          /\ Priority[13] = "muted" /\ Priority[14] = "idle"
      BY DEF Priority
    <3>2. \A j \in 6 .. 10 : ~HasClaim(s, Priority[j])
      BY <2>3, <2>5, ClaimFacts DEF Stages
    <3>3. \A j \in 1 .. 12 : ~HasClaim(s, Priority[j])
      <4>1. ~HasClaim(s, Priority[11]) /\ ~HasClaim(s, Priority[12])
        BY <1>4, <2>5, <3>1, ClaimFacts
      <4>2. \A j \in 1 .. 12 : j \in 1 .. 5 \/ j \in 6 .. 10 \/ j = 11 \/ j = 12
        OBVIOUS
      <4>3. QED
        BY <2>2, <3>2, <4>1, <4>2
    <3>4. CASE s.mic \/ s.speaker
      <4>1. HasClaim(s, Priority[13]) /\ \A j \in 1 .. 13 - 1 : ~HasClaim(s, Priority[j])
        BY <3>1, <3>3, <3>4, ClaimFacts
      <4>2. QED
        BY <3>1, <3>4, <4>1, ShowsFirst
    <3>5. CASE ~(s.mic \/ s.speaker)
      <4>1. HasClaim(s, Priority[14]) /\ ~HasClaim(s, Priority[13])
        BY <3>1, <3>5, ClaimFacts
      <4>2. \A j \in 1 .. 14 - 1 : j \in 1 .. 12 \/ j = 13
        OBVIOUS
      <4>3. \A j \in 1 .. 14 - 1 : ~HasClaim(s, Priority[j])
        BY <3>3, <4>1, <4>2
      <4>4. QED
        BY <3>1, <3>5, <4>1, <4>3, ShowsFirst
    <3>6. QED
      BY <3>4, <3>5
  <2>6. QED
    BY <2>4, <2>5
<1>5. QED
  BY <1>1, <1>2, <1>3, <1>4

\* A service that has read all it was told shows the state the voice process is
\* in, and one without a connection shows that (leds.py:310-350).
THEOREM RingAlwaysShows == Spec => []RingShows
<1>1. ASSUME RingInv
      PROVE  RingShows
  <2>1. led \in LedStates /\ Linked
    BY <1>1 DEF RingInv, TypeOK
  <2>2. conn = "down" => Shows(led) \in {"provisioning", "initializing", "disconnected"}
    BY <2>1, ShownPhase DEF Linked
  <2>3. ASSUME CaughtUp
        PROVE  Shows(led) = Wanted
    <3>1. /\ led.ha = link /\ led.mic = muted /\ led.lva
          /\ led.phase = stage \/ (led.phase = "error" /\ stage = "idle")
      <4>1. Told(led)
        BY <1>1, <2>3, KnownEmpty, ToldOfKnown DEF RingInv, CaughtUp
      <4>2. QED
        BY <2>1, <2>3, <4>1 DEF Told, Fits, CaughtUp, Linked
    <3>2. stage # "idle" => led.phase \in Stages /\ led.phase = stage
      BY <1>1, <3>1, RingAssumption DEF RingInv, TypeOK
    <3>3. stage = "idle" => led.phase \notin Stages
      BY <3>1 DEF Stages
    <3>4. CASE hotspot
      BY <2>1, <2>3, <3>4, ShownPhase DEF CaughtUp, Wanted
    <3>5. CASE ~hotspot /\ ~link
      BY <2>1, <2>3, <3>1, <3>5, ShownPhase DEF CaughtUp, Wanted
    <3>6. CASE ~hotspot /\ link /\ stage # "idle"
      BY <2>1, <2>3, <3>1, <3>2, <3>6, ShownPhase DEF CaughtUp, Wanted
    <3>7. CASE ~hotspot /\ link /\ stage = "idle"
      BY <2>1, <2>3, <3>1, <3>3, <3>7, ShownPhase DEF CaughtUp, Wanted
    <3>8. QED
      BY <3>4, <3>5, <3>6, <3>7
  <2>4. QED
    BY <2>2, <2>3 DEF RingShows
<1>2. QED
  BY <1>1, RingInvariantHolds, PTL
=============================================================================
