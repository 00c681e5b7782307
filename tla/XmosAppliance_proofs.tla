------------------------ MODULE XmosAppliance_proofs ------------------------
(***************************************************************************)
(* Theorems about XmosAppliance for any threads, any numbers of attempts   *)
(* and transfers, and any number of faults.                                *)
(***************************************************************************)
EXTENDS XmosInvariant, TLAPS

USE BusAssumption, AttemptsAssumption, FaultsAssumption
USE DEF device, threads, led, check, outside, units, Well, Fault, Images, Reading, Over

\* The scalar parts of the invariant, which no thread disturbs.
Scalars == Turns /\ Checking /\ Marked

\* A check that works has the bus for itself in an orderly boot.
LEMMA BusFree ==
  ASSUME XmosInv, Working, Orderly
  PROVE  leds # "open"
  BY DEF XmosInv, Turns, Checking, Marked, Working, Orderly

\* Where a read without an answer leads.
LEMMA NoVersionLeads ==
  ASSUME XmosInv, NoVersion
  PROVE  pc' \in {"ask", "flash", "failed"}
<1>1. /\ tries \in Nat /\ Attempts \in Nat /\ tries < Attempts /\ wrote \in BOOLEAN
  BY DEF XmosInv, TypeOK, FirmwareTypeOK, Checking, NoVersion, Attempts
<1>2. CASE tries + 1 < Attempts
  BY <1>1, <1>2 DEF NoVersion
<1>3. CASE tries + 1 = Attempts
  BY <1>1, <1>3 DEF NoVersion
<1>4. QED
  BY <1>1, <1>2, <1>3

-----------------------------------------------------------------------------
(* The check.                                                              *)

LEMMA CheckTypes ==
  ASSUME XmosInv, CheckStep \/ CheckFault, UNCHANGED units, faults' \in 0..MaxFaults
  PROVE  TypeOK'
<1> USE DEF XmosInv, TypeOK, BusTypeOK, FirmwareTypeOK
<1>1. CASE ReadMarker
  BY <1>1 DEF ReadMarker, GoTo
<1>2a. CASE CheckImage
  BY <1>2a DEF CheckImage, GoTo
<1>2b. CASE BadImage
  BY <1>2b DEF BadImage, GoTo
<1>3. CASE Ask
  BY <1>3 DEF Ask, Request, GoTo
<1>4. CASE GetVersion
  BY <1>4 DEF GetVersion, ClockOut, GoTo
<1>5. CASE NoVersion
  BY <1>5 DEF NoVersion, ClockOut, Checking, Attempts
<1>6a. CASE Flash
  BY <1>6a DEF Flash, ClockOut, GoTo
<1>6b. CASE FlashFails
  BY <1>6b DEF FlashFails, GoTo
<1>7. CASE Written(tree) \/ Written("none")
  BY <1>7 DEF Written, GoTo
<1>8a. CASE Release(FALSE)
  <2>1. held' \in BOOLEAN /\ wrote' \in BOOLEAN
    BY <1>8a, Zenon DEF Release
  <2>2. UNCHANGED <<tree, marker, aim, version, payload, led>> /\ pc' = "ask" /\ tries' = 0
    BY <1>8a DEF Release
  <2>3. QED
    BY <2>1, <2>2
<1>8b. CASE Release(TRUE)
  BY <1>8b DEF Release
<1>9. CASE SaveMarker
  BY <1>9 DEF SaveMarker
<1>10. QED
  BY <1>1, <1>2a, <1>2b, <1>3, <1>4, <1>5, <1>6a, <1>6b, <1>7, <1>8a, <1>8b, <1>9
  DEF CheckStep, CheckFault

LEMMA CheckScalars ==
  ASSUME XmosInv, TypeOK', CheckStep \/ CheckFault, UNCHANGED units
  PROVE  Scalars'
<1> USE DEF XmosInv, TypeOK, BusTypeOK, FirmwareTypeOK, Scalars, Turns, Checking, Marked, Working, Orderly
<1>1. CASE ReadMarker
  BY <1>1 DEF ReadMarker, GoTo, Attempts
<1>2a. CASE CheckImage
  BY <1>2a DEF CheckImage, GoTo, Attempts
<1>2b. CASE BadImage
  BY <1>2b DEF BadImage, GoTo, Attempts
<1>3. CASE Ask
  BY <1>3 DEF Ask, Request, GoTo, Attempts
<1>4. CASE GetVersion
  BY <1>4 DEF GetVersion, ClockOut, GoTo, Attempts, Answers, Alive, Answer
<1>5. CASE NoVersion
  BY <1>5 DEF NoVersion, ClockOut, Attempts
<1>6a. CASE Flash
  BY <1>6a DEF Flash, ClockOut, GoTo, Attempts
<1>6b. CASE FlashFails
  BY <1>6b DEF FlashFails, GoTo, Attempts
<1>7. CASE Written(tree) \/ Written("none")
  BY <1>7 DEF Written, GoTo, Attempts
<1>8a. CASE Release(FALSE)
  BY <1>8a DEF Release, Attempts
<1>8b. CASE Release(TRUE)
  BY <1>8b DEF Release, Attempts
<1>9. CASE SaveMarker
  BY <1>9 DEF SaveMarker, Attempts
<1>10. QED
  BY <1>1, <1>2a, <1>2b, <1>3, <1>4, <1>5, <1>6a, <1>6b, <1>7, <1>8a, <1>8b, <1>9
  DEF CheckStep, CheckFault

LEMMA CheckAnswers ==
  ASSUME XmosInv, TypeOK', Scalars', CheckStep \/ CheckFault, UNCHANGED units
  PROVE  Answers'
<1> USE DEF XmosInv, TypeOK, BusTypeOK, FirmwareTypeOK, Turns, Checking, Marked, Working, Orderly,
            Answers, AnswerKept, Alive
<1>1. CASE ReadMarker
  BY <1>1 DEF ReadMarker, GoTo
<1>2a. CASE CheckImage
  BY <1>2a DEF CheckImage, GoTo
<1>2b. CASE BadImage
  BY <1>2b DEF BadImage, GoTo
<1>3. CASE Ask
  BY <1>3 DEF Ask, Request, GoTo
<1>4. CASE GetVersion
  BY <1>4 DEF GetVersion, ClockOut, GoTo
<1>5. CASE NoVersion
  <2>1. Working /\ payload' = "none" /\ pc' # "answer" /\ UNCHANGED <<version, held, led>>
    BY <1>5, NoVersionLeads DEF NoVersion, ClockOut
  <2>2. QED
    BY <2>1, BusFree
<1>6a. CASE Flash
  BY <1>6a DEF Flash, ClockOut, GoTo
<1>6b. CASE FlashFails
  BY <1>6b DEF FlashFails, GoTo
<1>7. CASE Written(tree) \/ Written("none")
  BY <1>7 DEF Written, GoTo
<1>8a. CASE Release(FALSE)
  BY <1>8a DEF Release
<1>8b. CASE held /\ Release(TRUE)
  BY <1>8b DEF Release
<1>9. CASE SaveMarker
  BY <1>9 DEF SaveMarker
<1>10. QED
  BY <1>1, <1>2a, <1>2b, <1>3, <1>4, <1>5, <1>6a, <1>6b, <1>7, <1>8a, <1>8b, <1>9
  DEF CheckStep, CheckFault

-----------------------------------------------------------------------------
(* The threads of the LED service.                                         *)

BusyThread == \E t \in Threads : Busy(t)

LEMMA JobFacts ==
  /\ Idle \in Jobs /\ Idle.step = "none"
  /\ DoaDue \in Jobs /\ DoaDue.step = "lock"
  /\ \A j \in Jobs : [j EXCEPT !.step = "fetch", !.tries = 0] \in Jobs
<1>1. 0 \in 0..(MaxTransfers - 1)
  OBVIOUS
<1>2. QED
  BY <1>1 DEF Idle, DoaDue, Jobs

LEMMA ThreadFacts == Pollers \subseteq Threads /\ Renderer \in Threads /\ None \notin Threads
  BY DEF Threads

\* The threads leave the scalar parts alone.
LEMMA BusScalars ==
  ASSUME XmosInv, BusStep \/ BusyThread, UNCHANGED <<check, units>>
  PROVE  Scalars'
<1>1. UNCHANGED <<device, leds>>
  BY DEF BusStep, BusyThread, WriteFrame, Disconnect, ReadInputs, ReadDoa, Connect, Transfer,
         SendRequest, FetchAnswer, Busy, Acquire
<1>2. QED
  BY <1>1 DEF XmosInv, Scalars, Turns, Checking, Marked, Working, Orderly, Attempts

LEMMA BusTypes ==
  ASSUME XmosInv, BusStep \/ BusyThread, UNCHANGED <<check, units>>, faults' \in 0..MaxFaults
  PROVE  TypeOK'
<1> USE DEF XmosInv, TypeOK, BusTypeOK, FirmwareTypeOK
<1>1. ASSUME NEW t \in Threads, NEW op \in {"write", "inputs", "doa"}, Acquire(t, op)
      PROVE  TypeOK'
  <2>1. Begun(op) \in Jobs
    BY DEF Begun, Jobs
  <2>2. QED
    BY <1>1, <2>1 DEF Acquire
<1>2. ASSUME NEW t \in Threads, Transfer(t)
      PROVE  TypeOK'
  <2>1. job' \in [Threads -> Jobs]
    BY <1>2, JobFacts, Zenon DEF Transfer, Leave
  <2>2. QED
    BY <1>2, <2>1 DEF Transfer, Leave, ClockOut
<1>3. ASSUME NEW t \in Threads, SendRequest(t)
      PROVE  TypeOK'
  <2>1. job' = [job EXCEPT ![t] = [job[t] EXCEPT !.step = "fetch", !.tries = 0]]
    BY <1>3 DEF SendRequest
  <2>2. job' \in [Threads -> Jobs]
    BY <2>1, JobFacts
  <2>3. QED
    BY <1>3, <2>2 DEF SendRequest, Request
<1>4. ASSUME NEW t \in Threads, FetchAnswer(t)
      PROVE  TypeOK'
  <2>1. job' \in [Threads -> Jobs]
    BY <1>4, JobFacts DEF FetchAnswer, Leave
  <2>2. QED
    BY <1>4, <2>1 DEF FetchAnswer, Leave, ClockOut
<1>5. ASSUME NEW t \in Threads, Busy(t)
      PROVE  TypeOK'
  <2>1. Idle \in Jobs
    BY DEF Idle, Jobs
  <2>2. job[t] \in Jobs
    OBVIOUS
  <2>3. job' \in [Threads -> Jobs]
    BY <1>5, <2>1, <2>2 DEF Busy, Leave, Jobs
  <2>4. QED
    BY <1>5, <2>3 DEF Busy, Leave
<1>6. CASE Disconnect
  BY <1>6 DEF Disconnect
<1>7. ASSUME NEW t \in Pollers, Connect(t)
      PROVE  TypeOK'
  BY <1>7 DEF Connect
<1>8. QED
  BY <1>1, <1>2, <1>3, <1>4, <1>5, <1>6, <1>7, ThreadFacts
  DEF BusStep, BusyThread, WriteFrame, ReadInputs, ReadDoa

LEMMA BusAnswers ==
  ASSUME XmosInv, TypeOK', BusStep \/ BusyThread, UNCHANGED <<check, units>>
  PROVE  Answers'
<1> USE DEF XmosInv, TypeOK, BusTypeOK
<1>0. /\ UNCHANGED <<device, leds, Orderly, Alive, pc>>
      /\ \A t \in Threads : job[t].step \in {"send", "fetch"} => lock = t /\ leds = "open"
      /\ \A t \in Threads : job[t].step = "fetch" => job[t].op = "doa"
      /\ payload # "none" => Alive
      /\ Orderly =>
           /\ \A t \in Threads : job[t].step = "fetch" /\ Alive => payload = job[t].op
           /\ pc = "answer" /\ Alive => payload = "version"
      /\ pc = "answer" /\ Orderly => leds # "open"
  BY BusFree DEF BusStep, BusyThread, WriteFrame, Disconnect, ReadInputs, ReadDoa, Connect, Transfer,
         SendRequest, FetchAnswer, Busy, Acquire, Answers, AnswerKept, Orderly, Alive, Working
<1> USE <1>0
<1>1. ASSUME NEW t \in Threads, NEW op \in {"write", "inputs", "doa"}, Acquire(t, op)
      PROVE  Answers'
  <2>1. /\ lock = None /\ lock' = t /\ payload' = payload
        /\ job' = [job EXCEPT ![t] = Begun(op)] /\ Begun(op).step = "send"
        /\ leds = "open"
    BY <1>1 DEF Acquire, Begun, Free
  <2>2. \A u \in Threads : job[u].step \notin {"send", "fetch"}
    BY <2>1, ThreadFacts
  <2>3. QED
    BY <2>1, <2>2 DEF Answers, AnswerKept
<1>2. ASSUME NEW t \in Threads, Transfer(t) \/ FetchAnswer(t)
      PROVE  Answers'
  <2>1. /\ lock = t /\ leds = "open" /\ payload' = "none"
    BY <1>2 DEF Transfer, FetchAnswer, ClockOut
  <2>2. \A u \in Threads \ {t} : job[u].step \notin {"send", "fetch"} /\ job'[u] = job[u]
    BY <1>2, <2>1 DEF Transfer, FetchAnswer, Leave
  <2>3. job'[t].step \in {"none", "lock"}
    BY <1>2, JobFacts DEF Transfer, FetchAnswer, Leave, Idle
  <2>4. QED
    BY <2>1, <2>2, <2>3 DEF Answers, AnswerKept
<1>3. ASSUME NEW t \in Threads, SendRequest(t)
      PROVE  Answers'
  <2>1. /\ lock = t /\ leds = "open" /\ lock' = lock
        /\ payload' = IF Alive THEN "doa" ELSE "none"
        /\ job'[t].op = "doa" /\ job'[t].step = "fetch"
    BY <1>3 DEF SendRequest, Request, Jobs
  <2>2. \A u \in Threads \ {t} : job[u].step \notin {"send", "fetch"} /\ job'[u] = job[u]
    BY <1>3, <2>1 DEF SendRequest
  <2>3. QED
    BY <2>1, <2>2 DEF Answers, AnswerKept
<1>4. ASSUME NEW t \in Threads, Busy(t)
      PROVE  Answers'
  <2>1. lock = t /\ leds = "open" /\ payload' = payload
    BY <1>4 DEF Busy
  <2>2. \A u \in Threads \ {t} : job[u].step \notin {"send", "fetch"} /\ job'[u] = job[u]
    BY <1>4, <2>1 DEF Busy, Leave
  <2>3. \/ lock' = t /\ job'[t].op = job[t].op /\ job'[t].step = job[t].step
        \/ job'[t].step = "none"
    BY <1>4 DEF Busy, Leave, Idle, Jobs
  <2>4. QED
    BY <2>1, <2>2, <2>3 DEF Answers, AnswerKept
<1>5. CASE Disconnect \/ \E t \in Pollers : Connect(t)
  <2>1. UNCHANGED <<payload, lock, job>>
    BY <1>5 DEF Disconnect, Connect
  <2>2. QED
    BY <2>1 DEF Answers, AnswerKept
<1>6. QED
  BY <1>1, <1>2, <1>3, <1>4, <1>5, ThreadFacts
  DEF BusStep, BusyThread, WriteFrame, ReadInputs, ReadDoa

-----------------------------------------------------------------------------
(* The units.                                                              *)

UnitTrouble ==
  \/ StartFails \/ AudioStops \/ FindStalled
  \/ CheckTimesOut \/ LedsCrash \/ StopUnits \/ Reboot
  \/ Install("other")

\* After their process has ended.
LEMMA StoppedThreads ==
  ASSUME StopThreads
  PROVE  /\ lock' \in Threads \union {None} /\ poll' \in Pollers \union {None}
         /\ job' \in [Threads -> Jobs]
         /\ \A t \in Threads : job'[t].step = "none"
  BY JobFacts DEF StopThreads

\* Types.
LEMMA UnitTypes ==
  ASSUME XmosInv, UnitStep \/ UnitTrouble, faults' \in 0..MaxFaults
  PROVE  TypeOK'
<1> USE DEF XmosInv, TypeOK, BusTypeOK, FirmwareTypeOK
<1>1. CASE StartXmos
  <2>1. wrote' \in BOOLEAN
    BY <1>1, Zenon DEF StartXmos, BeginCheck
  <2>2. QED
    BY <1>1, <2>1 DEF StartXmos, BeginCheck
<1>2. CASE XmosEnds
  BY <1>2 DEF XmosEnds
<1>3. CASE StartAudio
  <2>1. wrote' \in BOOLEAN
    BY <1>3, Zenon DEF StartAudio, BeginCheck
  <2>2. QED
    BY <1>3, <2>1 DEF StartAudio, BeginCheck
<1>4. CASE AudioChecked
  BY <1>4 DEF AudioChecked
<1>5. CASE AudioUp
  BY <1>5 DEF AudioUp, AudioTo
<1>6. CASE RetryAudio
  BY <1>6 DEF RetryAudio, AudioTo
<1>7. CASE StartLeds
  BY <1>7 DEF StartLeds, OpenSpi, ClockOut, AudioJob
<1>8. CASE StartUnits
  <2>1. update' \in BOOLEAN
    BY <1>8, Zenon DEF StartUnits
  <2>2. QED
    BY <1>8, <2>1 DEF StartUnits
<1>9. CASE RestartAudio
  <2>1. stalled' \in BOOLEAN /\ late' \in BOOLEAN
    BY <1>9, Zenon DEF RestartAudio
  <2>2. QED
    BY <1>9, <2>1 DEF RestartAudio, StopCheck
<1>10. CASE StartFails
  BY <1>10 DEF StartFails, AudioTo
<1>11. CASE AudioStops
  BY <1>11 DEF AudioStops, AudioTo
<1>12. CASE FindStalled
  BY <1>12 DEF FindStalled
<1>13. CASE CheckTimesOut
  BY <1>13 DEF CheckTimesOut
<1>14. CASE LedsCrash
  BY <1>14, StoppedThreads DEF LedsCrash, StopThreads
<1>15. CASE StopUnits
  BY <1>15, StoppedThreads DEF StopUnits, StopCheck, StopThreads
<1>16. CASE Reboot
  <2>1. /\ held' \in BOOLEAN /\ wrote' \in BOOLEAN /\ missed' \in BOOLEAN
        /\ late' \in BOOLEAN /\ stalled' \in BOOLEAN /\ update' \in BOOLEAN
    BY <1>16, Zenon DEF Reboot
  <2>2. QED
    BY <1>16, <2>1, StoppedThreads DEF Reboot, StopThreads
<1>17. CASE Install("target") \/ Install("other")
  BY <1>17 DEF Install
<1>18. QED
  BY <1>1, <1>2, <1>3, <1>4, <1>5, <1>6, <1>7, <1>8, <1>9, <1>10, <1>11, <1>12, <1>13, <1>14, <1>15, <1>16, <1>17
  DEF UnitTrouble, UnitStep

\* The scalar parts.
LEMMA UnitScalars ==
  ASSUME XmosInv, TypeOK', UnitStep \/ UnitTrouble
  PROVE  Scalars'
<1> USE DEF XmosInv, TypeOK, BusTypeOK, FirmwareTypeOK, Scalars, Turns, Checking, Marked, Working, Orderly, Attempts
<1>1. CASE StartXmos
  BY <1>1 DEF StartXmos, BeginCheck
<1>2. CASE XmosEnds
  BY <1>2 DEF XmosEnds
<1>3. CASE StartAudio
  BY <1>3 DEF StartAudio, BeginCheck
<1>4. CASE AudioChecked
  BY <1>4 DEF AudioChecked
<1>5. CASE AudioUp
  BY <1>5 DEF AudioUp, AudioTo
<1>6. CASE RetryAudio
  BY <1>6 DEF RetryAudio, AudioTo
<1>7. CASE StartLeds
  BY <1>7 DEF StartLeds, OpenSpi, ClockOut, AudioJob
<1>8. CASE StartUnits
  BY <1>8 DEF StartUnits
<1>9. CASE RestartAudio
  BY <1>9 DEF RestartAudio, StopCheck
<1>10. CASE StartFails
  BY <1>10 DEF StartFails, AudioTo
<1>11. CASE AudioStops
  BY <1>11 DEF AudioStops, AudioTo
<1>12. CASE FindStalled
  BY <1>12 DEF FindStalled
<1>13. CASE CheckTimesOut
  BY <1>13 DEF CheckTimesOut
<1>14. CASE LedsCrash
  BY <1>14 DEF LedsCrash, StopThreads
<1>15. CASE StopUnits
  BY <1>15 DEF StopUnits, StopCheck, StopThreads
<1>16. CASE Reboot
  BY <1>16 DEF Reboot, StopThreads
<1>17. CASE Install("target") \/ Install("other")
  BY <1>17 DEF Install
<1>18. QED
  BY <1>1, <1>2, <1>3, <1>4, <1>5, <1>6, <1>7, <1>8, <1>9, <1>10, <1>11, <1>12, <1>13, <1>14, <1>15, <1>16, <1>17
  DEF UnitTrouble, UnitStep

\* The answers.
LEMMA UnitAnswers ==
  ASSUME XmosInv, TypeOK', Scalars', UnitStep \/ UnitTrouble
  PROVE  Answers'
<1> USE DEF XmosInv, TypeOK, BusTypeOK, FirmwareTypeOK, Turns, Marked, Orderly, Answers, AnswerKept, Alive, Checking, Working
<1>1. CASE StartXmos
  BY <1>1 DEF StartXmos, BeginCheck
<1>2. CASE XmosEnds
  BY <1>2 DEF XmosEnds
<1>3. CASE StartAudio
  BY <1>3 DEF StartAudio, BeginCheck
<1>4. CASE AudioChecked
  BY <1>4 DEF AudioChecked
<1>5. CASE AudioUp
  BY <1>5 DEF AudioUp, AudioTo
<1>6. CASE RetryAudio
  BY <1>6 DEF RetryAudio, AudioTo
<1>7. CASE StartLeds
  BY <1>7 DEF StartLeds, OpenSpi, ClockOut, AudioJob
<1>8. CASE StartUnits
  BY <1>8 DEF StartUnits
<1>9. CASE RestartAudio
  BY <1>9 DEF RestartAudio, StopCheck
<1>10. CASE StartFails
  BY <1>10 DEF StartFails, AudioTo
<1>11. CASE AudioStops
  BY <1>11 DEF AudioStops, AudioTo
<1>12. CASE FindStalled
  BY <1>12 DEF FindStalled
<1>13. CASE CheckTimesOut
  BY <1>13 DEF CheckTimesOut
<1>14. CASE LedsCrash
  BY <1>14, StoppedThreads DEF LedsCrash, StopThreads
<1>15. CASE StopUnits
  BY <1>15, StoppedThreads DEF StopUnits, StopCheck, StopThreads
<1>16. CASE Reboot
  BY <1>16, StoppedThreads DEF Reboot, StopThreads
<1>17. CASE Install("target") \/ Install("other")
  BY <1>17 DEF Install
<1>18. QED
  BY <1>1, <1>2, <1>3, <1>4, <1>5, <1>6, <1>7, <1>8, <1>9, <1>10, <1>11, <1>12, <1>13, <1>14, <1>15, <1>16, <1>17
  DEF UnitTrouble, UnitStep


-----------------------------------------------------------------------------
(* The invariant and what follows from it.                                 *)

LEMMA InitInv == Init => XmosInv
<1> SUFFICES ASSUME Init PROVE XmosInv
  OBVIOUS
<1>1. TypeOK
  <2>1. BusTypeOK
    BY JobFacts DEF Init, QuietThreads, BusTypeOK
  <2>2. FirmwareTypeOK
    <3>1. wrote \in BOOLEAN
      BY Zenon DEF Init
    <3>2. QED
      BY <3>1 DEF Init, FirmwareTypeOK
  <2>3. missed \in BOOLEAN /\ late \in BOOLEAN /\ stalled \in BOOLEAN /\ update \in BOOLEAN
    BY Zenon DEF Init
  <2>4. QED
    BY <2>1, <2>2, <2>3 DEF Init, TypeOK
<1>2. Turns /\ Checking /\ Marked
  BY DEF Init, Turns, Checking, Marked, Working
<1>3. Answers
  BY JobFacts DEF Init, QuietThreads, Answers, AnswerKept
<1>4. QED
  BY <1>1, <1>2, <1>3 DEF XmosInv

LEMMA NextCases ==
  ASSUME TypeOK, Next
  PROVE  /\ faults' \in 0..MaxFaults
         /\ \/ (BusStep \/ BusyThread) /\ UNCHANGED <<check, units>>
            \/ (CheckStep \/ CheckFault) /\ UNCHANGED units
            \/ UnitStep \/ UnitTrouble
<1>1. faults' \in 0..MaxFaults
  BY DEF Next, TypeOK
<1>2. QED
  BY <1>1 DEF Next, Trouble, UnitTrouble, BusyThread

LEMMA StepInv == XmosInv /\ [Next]_vars => XmosInv'
<1> SUFFICES ASSUME XmosInv, [Next]_vars PROVE XmosInv'
  OBVIOUS
<1>1. CASE Next
  <2>1. TypeOK'
    BY <1>1, NextCases, BusTypes, CheckTypes, UnitTypes DEF XmosInv
  <2>2. Scalars'
    BY <1>1, <2>1, NextCases, BusScalars, CheckScalars, UnitScalars DEF XmosInv
  <2>3. Answers'
    BY <1>1, <2>1, <2>2, NextCases, BusAnswers, CheckAnswers, UnitAnswers DEF XmosInv
  <2>4. QED
    BY <2>1, <2>2, <2>3 DEF XmosInv, Scalars
<1>2. CASE UNCHANGED vars
  BY <1>2 DEF vars, XmosInv, TypeOK, BusTypeOK, FirmwareTypeOK, Turns, Checking, Marked, Answers,
              Attempts, Working, Orderly, Alive, AnswerKept
<1>3. QED
  BY <1>1, <1>2

\* Types and the invariant hold for any threads, attempts and faults.
THEOREM XmosInvariantHolds == Spec => []XmosInv
  BY InitInv, StepInv, PTL DEF Spec

THEOREM XmosTypes == Spec => []TypeOK
<1>1. XmosInv => TypeOK
  BY DEF XmosInv
<1>2. QED
  BY <1>1, XmosInvariantHolds, PTL

\* In an orderly boot the tool is never on the bus of a running LED service,
\* though no lock is held by both.
THEOREM SpiIsOwnedOnceChecked == Spec => []SpiOwnedOnceChecked
<1>1. ToolOnBus => Working
  BY DEF ToolOnBus, Working
<1>2. XmosInv => SpiOwnedOnceChecked
  BY <1>1, BusFree DEF SpiOwnedOnceChecked, SpiOwned
<1>3. QED
  BY <1>2, XmosInvariantHolds, PTL

\* Whoever waits for the answer to a request finds it.
THEOREM AnswerIsKept == Spec => []AnswerKept
<1>1. XmosInv => AnswerKept
  BY DEF XmosInv, Answers
<1>2. QED
  BY <1>1, XmosInvariantHolds, PTL

\* PulseAudio runs only on the target firmware, out of reset.
THEOREM AudioIsVerified == Spec => []AudioVerified
<1>1. XmosInv => AudioVerified
  BY DEF XmosInv, Marked, AudioVerified
<1>2. QED
  BY <1>1, XmosInvariantHolds, PTL

\* The image is written over the target only when no read was answered.
THEOREM MatchingIsUntouched == Spec => MatchingUntouched
<1>1. XmosInv => (pc = "flash" /\ version = aim => tries = InitialAttempts)
  BY DEF XmosInv, Checking
<1>2. XmosInv =>
        [pc = "flash" /\ pc' = "writing" /\ version = aim => tries = InitialAttempts]_vars
  BY <1>1
<1>3. QED
  BY <1>2, XmosInvariantHolds, PTL DEF MatchingUntouched
=============================================================================
