------------------------- MODULE OtaController_proofs -------------------------
(***************************************************************************)
(* Theorems about OtaController: types, what the status frames say, and    *)
(* what is staged and delivered, for any bundles and any bounds.           *)
(***************************************************************************)
EXTENDS ControllerInvariant, TLAPS

(***************************************************************************)
(* The queue.                                                              *)
(***************************************************************************)

\* The queue is a sequence of callbacks, and its first is one of them.
LEMMA QueueFacts ==
  ASSUME NEW q \in Seq(Callbacks)
  PROVE  /\ DOMAIN q = 1 .. Len(q) /\ Len(q) \in Nat
         /\ \A i \in 1 .. Len(q) : q[i] \in Callbacks
         /\ q # <<>> => Len(q) >= 1 /\ Head(q) = q[1] /\ Head(q) \in Callbacks
         /\ Len(q) = 0 => q = <<>>
  OBVIOUS

LEMMA EmptyQueue ==
  /\ <<>> \in Seq(Callbacks)
  /\ Len(<<>>) <= MaxQueue
  BY ControllerAssumption

\* What is left of a queue when its first callback has run.
LEMMA TailFacts ==
  ASSUME NEW q \in Seq(Callbacks), q # <<>>
  PROVE  /\ Tail(q) \in Seq(Callbacks)
         /\ Len(Tail(q)) = Len(q) - 1
         /\ \A i \in 1 .. Len(Tail(q)) : i + 1 \in 1 .. Len(q) /\ Tail(q)[i] = q[i + 1]
  OBVIOUS

\* A callback is queued behind the others.
LEMMA AppendFacts ==
  ASSUME NEW q \in Seq(Callbacks), NEW c \in Callbacks
  PROVE  /\ Append(q, c) \in Seq(Callbacks)
         /\ Append(q, c) # <<>>
         /\ Len(Append(q, c)) = Len(q) + 1
         /\ Append(q, c)[Len(q) + 1] = c
         /\ \A i \in 1 .. Len(q) : Append(q, c)[i] = q[i]
  OBVIOUS

\* The first callback is a result only if nothing else waits.
LEMMA ResultIsLast ==
  ASSUME TypeOK, Results, calls # <<>>, IsResult(Head(calls))
  PROVE  Len(calls) = 1 /\ worker = "idle" /\ Tail(calls) = <<>>
<1>1. calls \in Seq(Callbacks)
  BY DEF TypeOK
<1>2. 1 \in DOMAIN calls /\ Head(calls) = calls[1]
  BY <1>1, QueueFacts
<1>3. Len(calls) = 1 /\ worker = "idle"
  BY <1>2 DEF Results
<1>4. QED
  BY <1>1, <1>3, TailFacts, QueueFacts

-----------------------------------------------------------------------------
(***************************************************************************)
(* Types.                                                                  *)
(***************************************************************************)

\* The frames that are sent have their types, and `best` never goes down.
LEMMA SendFacts ==
  ASSUME TypeOK, NEW status \in {"downloading", "verifying", "rebooting", "error"},
         NEW progress \in 0 .. Percents + 2, Send(status, progress)
  PROVE  /\ frame' \in Frames /\ frame'.status = status /\ frame'.progress = progress
         /\ best' \in 0 .. Percents + 2
         /\ status = "error" => best' = best
         /\ status # "error" => best' = IF progress > best THEN progress ELSE best
  BY ControllerAssumption DEF TypeOK, Send, Frames

\* Announcements are such frames.
LEMMA AnnounceFacts ==
  ASSUME TypeOK, NEW status \in {"downloading", "verifying", "rebooting", "error"},
         Announce(status)
  PROVE  /\ frame' \in Frames /\ frame'.status = status /\ best' \in 0 .. Percents + 2
         /\ status = "error" => best' = best
         /\ status = "downloading" => best' = best /\ frame'.progress = 0
         /\ status = "verifying" =>
              /\ frame'.progress = Percents + 1
              /\ best' = IF Percents + 1 > best THEN Percents + 1 ELSE best
         /\ status = "rebooting" =>
              frame'.progress = Percents + 2 /\ best' = Percents + 2
<1> DEFINE p == Progress[status]
<1>1. /\ p \in 0 .. Percents + 2
      /\ status \in {"downloading", "error"} => p = 0
      /\ status = "verifying" => p = Percents + 1
      /\ status = "rebooting" => p = Percents + 2
  BY ControllerAssumption DEF Progress
<1>2. Send(status, p)
  BY DEF Announce
<1>3. best \in 0 .. Percents + 2
  BY DEF TypeOK
<1> HIDE DEF p
<1>4. QED
  BY <1>1, <1>2, <1>3, SendFacts, ControllerAssumption

-----------------------------------------------------------------------------
(***************************************************************************)
(* The steps of the event loop.                                            *)
(***************************************************************************)

LEMMA InitEstablishes == Init => ControllerInv
<1> SUFFICES ASSUME Init PROVE ControllerInv
  OBVIOUS
<1>1. TypeOK
  <2>1. closing \in BOOLEAN /\ delivered \in BOOLEAN
    BY Zenon DEF Init
  <2>2. calls \in Seq(Callbacks) /\ Len(calls) <= MaxQueue
    BY EmptyQueue DEF Init
  <2>3. QED
    BY <2>1, <2>2, ControllerAssumption DEF Init, TypeOK, Frames
<1>2. Results /\ Reports
  BY DEF Init, Results, Reports
<1>3. Stages /\ Bundled /\ Told
  BY DEF Init, Stages, Bundled, Told, LastWord, Active
<1>4. QED
  BY <1>1, <1>2, <1>3 DEF ControllerInv

LEMMA AcceptKeeps ==
  ASSUME ControllerInv, NEW r \in Bundles \union {Malformed}, Accept(r)
  PROVE  ControllerInv'
<1> USE DEF ControllerInv, files, thread, history
<1>1. worker = "idle" /\ calls = <<>>
  BY DEF Accept, Stages, Active
<1>2. TypeOK'
  <2>1. delivered' \in BOOLEAN
    BY Zenon DEF Accept
  <2>2. QED
    BY <2>1, ControllerAssumption DEF Accept, TypeOK
<1>3. Results' /\ Reports'
  BY <1>1 DEF Accept, Results, Reports
<1>4. Stages'
  BY <1>1, ControllerAssumption DEF Accept, Stages, Active
<1>5. Bundled'
  <2>1. task \in {"none", "done"}
    BY DEF Accept, Active, TypeOK
  <2>2. QED
    BY <2>1 DEF Accept, Bundled
<1>6. Told'
  BY DEF Accept, Told, LastWord
<1>7. QED
  BY <1>2, <1>3, <1>4, <1>5, <1>6

LEMMA RefuseKeeps ==
  ASSUME ControllerInv, Refuse
  PROVE  ControllerInv'
<1> USE DEF ControllerInv, files, thread, history
<1>1. frame' \in Frames /\ frame'.status = "error" /\ best' = best
  BY AnnounceFacts DEF Refuse
<1>2. TypeOK'
  BY <1>1 DEF Refuse, TypeOK
<1>3. Results' /\ Reports'
  BY <1>1 DEF Refuse, Results, Reports
<1>4. Stages' /\ Bundled'
  BY DEF Refuse, Stages, Bundled, Active
<1>5. Told'
  BY <1>1 DEF Refuse, Told, LastWord, Active
<1>6. QED
  BY <1>2, <1>3, <1>4, <1>5

\* An update that fails is over, whatever it was doing.
LEMMA FailKeeps ==
  ASSUME ControllerInv, Active, ~closing, Fail, worker = "idle", calls' = <<>>,
         UNCHANGED <<pending, request, worker, percent, last, closing, starts, delivered>>
  PROVE  ControllerInv'
<1> USE DEF ControllerInv, files, thread, history
<1>1. frame' \in Frames /\ frame'.status = "error" /\ best' = best
  BY AnnounceFacts DEF Fail
<1>2. TypeOK'
  BY <1>1, EmptyQueue DEF Fail, TypeOK
<1>3. Results' /\ Reports'
  BY DEF Fail, Results, Reports
<1>4. Stages'
  BY DEF Fail, Stages, Active
<1>5. Bundled'
  BY DEF Fail, Bundled
<1>6. Told'
  BY <1>1 DEF Fail, Told, LastWord, Active
<1>7. QED
  BY <1>2, <1>3, <1>4, <1>5, <1>6

LEMMA BeginKeeps ==
  ASSUME ControllerInv, Begin
  PROVE  ControllerInv'
<1> USE DEF ControllerInv, files, thread, history
<1>1. worker = "idle" /\ calls = <<>> /\ Active /\ best = 0
  BY DEF Begin, Stages, Active, Reports
<1>2. CASE pending # None \/ request = Malformed
  BY <1>1, <1>2, FailKeeps DEF Begin
<1>3. CASE ~(pending # None \/ request = Malformed)
  <2>1. /\ Announce("downloading") /\ UNCHANGED staged
        /\ task' = "downloading" /\ worker' = "download" /\ percent' = 0
    BY <1>3 DEF Begin
  <2>2. frame' \in Frames /\ frame'.status = "downloading" /\ best' = 0
    BY <1>1, <2>1, AnnounceFacts
  <2>3. TypeOK'
    BY <2>1, <2>2, ControllerAssumption DEF Begin, TypeOK
  <2>4. Results'
    BY <1>1 DEF Begin, Results
  <2>5. Reports'
    <3>1. calls' = <<>> /\ 0 <= last /\ UNCHANGED last
      BY <1>1 DEF Begin, TypeOK
    <3>2. QED
      BY <2>1, <2>2, <3>1 DEF Reports
  <2>6. Stages'
    BY <1>1, <1>3, <2>1 DEF Begin, Stages, Active, TypeOK
  <2>7. Bundled'
    BY <1>3, <2>1 DEF Begin, Bundled
  <2>8. Told'
    BY <1>1, <2>1 DEF Begin, Told, LastWord, Active
  <2>9. QED
    BY <2>3, <2>4, <2>5, <2>6, <2>7, <2>8
<1>4. QED
  BY <1>2, <1>3

\* A callback leaves the queue, and nothing comes in.
LEMMA PopFacts ==
  ASSUME ControllerInv, calls # <<>>, calls' = Tail(calls), UNCHANGED worker
  PROVE  /\ calls' \in Seq(Callbacks) /\ Len(calls') <= MaxQueue
         /\ Results'
         /\ \A i \in DOMAIN calls' : i + 1 \in DOMAIN calls /\ calls'[i] = calls[i + 1]
         /\ 1 \in DOMAIN calls /\ Head(calls) = calls[1] /\ Head(calls) \in Callbacks
<1>1. calls \in Seq(Callbacks) /\ Len(calls) <= MaxQueue
  BY DEF ControllerInv, TypeOK
<1>2. /\ DOMAIN calls = 1 .. Len(calls) /\ Len(calls) \in Nat /\ Len(calls) >= 1
      /\ Head(calls) = calls[1] /\ Head(calls) \in Callbacks
  BY <1>1, QueueFacts
<1>3. /\ calls' \in Seq(Callbacks) /\ Len(calls') = Len(calls) - 1
      /\ \A i \in 1 .. Len(calls') : i + 1 \in 1 .. Len(calls) /\ calls'[i] = calls[i + 1]
  BY <1>1, TailFacts
<1>4. DOMAIN calls' = 1 .. Len(calls')
  BY <1>3, QueueFacts
<1>5. \A i \in DOMAIN calls' : i + 1 \in DOMAIN calls /\ calls'[i] = calls[i + 1]
  BY <1>2, <1>3, <1>4
<1>6. Results'
  <2>1. ASSUME NEW i \in DOMAIN calls', IsResult(calls'[i])
        PROVE  i = Len(calls') /\ worker' = "idle"
    <3>1. i + 1 = Len(calls) /\ worker = "idle"
      BY <1>5, <2>1 DEF ControllerInv, Results
    <3>2. QED
      BY <1>2, <1>3, <1>4, <3>1
  <2>2. QED
    BY <2>1 DEF Results, IsResult
<1>7. Len(calls') <= MaxQueue
  BY <1>1, <1>2, <1>3, ControllerAssumption
<1>8. QED
  BY <1>2, <1>3, <1>5, <1>6, <1>7

\* Reports that still wait are as they were, if `best` is not above them.
LEMMA PopReports ==
  ASSUME ControllerInv, calls # <<>>, calls' = Tail(calls),
         UNCHANGED <<worker, task, last>>, task # "created",
         best' = best \/ (~IsResult(Head(calls)) /\ best' = Head(calls).percent)
  PROVE  Reports'
<1>1. \A i \in DOMAIN calls' : i + 1 \in DOMAIN calls /\ calls'[i] = calls[i + 1]
  BY PopFacts
<1>2. 1 \in DOMAIN calls /\ Head(calls) = calls[1]
  BY PopFacts
<1>3. DOMAIN calls \subseteq Nat /\ DOMAIN calls' \subseteq Nat \ {0}
  BY PopFacts, QueueFacts DEF ControllerInv, TypeOK
<1>4. Reports
  BY DEF ControllerInv
<1>5. ASSUME NEW i \in DOMAIN calls', ~IsResult(calls'[i])
      PROVE  best' <= calls'[i].percent /\ calls'[i].percent <= last'
  <2>1. 1 < i + 1 /\ i + 1 \in DOMAIN calls /\ ~IsResult(calls[i + 1])
    BY <1>1, <1>3, <1>5
  <2>2. QED
    BY <1>1, <1>2, <1>4, <2>1 DEF Reports
<1>6. ASSUME NEW i \in DOMAIN calls', NEW j \in DOMAIN calls', i < j,
             ~IsResult(calls'[i]), ~IsResult(calls'[j])
      PROVE  calls'[i].percent <= calls'[j].percent
  <2>1. i + 1 < j + 1 /\ i + 1 \in DOMAIN calls /\ j + 1 \in DOMAIN calls
    BY <1>1, <1>3, <1>6
  <2>2. QED
    BY <1>1, <1>4, <1>6, <2>1 DEF Reports
<1>7. best' <= last' \/ ~(worker' = "download" \/ task' = "downloading")
  BY <1>2, <1>4 DEF Reports
<1>8. QED
  BY <1>5, <1>6, <1>7 DEF Reports, IsResult

LEMMA ShowProgressKeeps ==
  ASSUME ControllerInv, ShowProgress
  PROVE  ControllerInv'
<1> USE DEF ControllerInv, files, thread, history
<1> DEFINE p == Head(calls).percent
<1>1. calls # <<>> /\ calls' = Tail(calls) /\ Head(calls).what = "progress"
  BY DEF ShowProgress, Due
<1>2. UNCHANGED <<worker, task, last, closing, starts, delivered, staged, pending, request>>
  BY DEF ShowProgress
<1>3. Head(calls) = calls[1] /\ 1 \in DOMAIN calls /\ ~IsResult(calls[1])
  BY <1>1, <1>2, PopFacts DEF IsResult
<1>4. p \in 0 .. Percents
  BY <1>1, <1>2, PopFacts DEF Callbacks
<1>5. closing \/ task = "downloading"
  BY <1>1, <1>3 DEF Stages
<1>6. frame' \in Frames /\ best' \in 0 .. Percents + 2 /\ best' = p
  <2>1. Send("downloading", p) /\ p \in 0 .. Percents + 2
    BY <1>4, ControllerAssumption DEF ShowProgress
  <2>2. best <= p /\ best \in Nat
    BY <1>3 DEF Reports, TypeOK
  <2> HIDE DEF p
  <2>3. QED
    BY <1>4, <2>1, <2>2, SendFacts
<1>7. TypeOK'
  BY <1>1, <1>2, <1>6, PopFacts DEF ShowProgress, TypeOK
<1>8. Results'
  BY <1>1, <1>2, PopFacts
<1>9. Reports'
  <2>1. task # "created"
    BY <1>5 DEF Stages, Active
  <2>2. QED
    BY <1>1, <1>2, <1>3, <1>6, <2>1, PopReports
<1>10. Stages'
  BY <1>2, <1>5 DEF Stages, Active
<1>11. Bundled' /\ Told'
  BY <1>2, <1>5 DEF Bundled, Told, Stages, Active, LastWord
<1>12. QED
  BY <1>7, <1>8, <1>9, <1>10, <1>11

LEMMA WakeUpKeeps ==
  ASSUME ControllerInv, WakeUp
  PROVE  ControllerInv'
<1> USE DEF ControllerInv, files, thread, history
<1>1. /\ ~closing
      /\ UNCHANGED <<pending, request, percent, last, closing, starts, delivered>>
  BY DEF WakeUp
<1>2. /\ calls # <<>> /\ calls' = Tail(calls)
      /\ Head(calls).what \in {"done", "failed"}
  BY DEF WakeUp, Due
<1>3. worker = "idle" /\ calls' = <<>>
  BY <1>2, ResultIsLast DEF IsResult
<1>4. task \in {"downloading", "verifying"} /\ Active
  BY <1>1, <1>2 DEF Stages, Active
<1>5. CASE Fail /\ UNCHANGED worker
  BY <1>1, <1>3, <1>4, <1>5, FailKeeps
<1>6. CASE /\ task = "downloading" /\ Announce("verifying") /\ task' = "verifying"
           /\ worker' = "verify" /\ UNCHANGED staged
  <2>1. frame' \in Frames /\ best' \in 0 .. Percents + 2
    BY <1>6, AnnounceFacts
  <2>2. TypeOK'
    BY <1>1, <1>3, <1>6, <2>1, EmptyQueue DEF TypeOK
  <2>3. Results' /\ Reports'
    BY <1>3, <1>6 DEF Results, Reports
  <2>4. Stages'
    BY <1>1, <1>3, <1>6 DEF Stages, Active
  <2>5. Bundled' /\ Told'
    BY <1>1, <1>3, <1>4, <1>6 DEF Bundled, Told, Active, LastWord
  <2>6. QED
    BY <2>2, <2>3, <2>4, <2>5
<1>7. CASE /\ task = "verifying" /\ Head(calls).what = "done"
           /\ Announce("rebooting") /\ task' = "announced" /\ UNCHANGED <<staged, worker>>
  <2>1. frame' \in Frames /\ best' \in 0 .. Percents + 2 /\ best' = Progress.rebooting
    BY <1>7, AnnounceFacts DEF Progress
  <2>2. TypeOK'
    BY <1>1, <1>3, <1>7, <2>1, EmptyQueue DEF TypeOK
  <2>3. Results' /\ Reports'
    BY <1>3, <1>7 DEF Results, Reports
  <2>4. Stages'
    BY <1>1, <1>3, <1>7 DEF Stages, Active
  <2>5. Bundled' /\ Told'
    BY <1>1, <1>2, <1>3, <1>4, <1>7, <2>1 DEF Bundled, Told, Active, LastWord, Progress
  <2>6. QED
    BY <2>2, <2>3, <2>4, <2>5
<1>8. QED
  BY <1>5, <1>6, <1>7 DEF WakeUp, Due

LEMMA DeliverKeeps ==
  ASSUME ControllerInv, Deliver
  PROVE  ControllerInv'
<1> USE DEF ControllerInv, files, thread, history
<1>1. task = "announced" /\ ~closing /\ worker = "idle" /\ calls = <<>> /\ Active
  BY DEF Deliver, Stages, Active
<1>2. CASE Fail /\ UNCHANGED <<pending, delivered>>
  BY <1>1, <1>2, FailKeeps DEF Deliver
<1>3. CASE ~(Fail /\ UNCHANGED <<pending, delivered>>)
  <2>1. /\ staged # None /\ pending' = staged /\ staged' = None
        /\ task' = "done" /\ delivered' = TRUE /\ UNCHANGED <<frame, best>>
    BY <1>3 DEF Deliver
  <2>2. UNCHANGED <<request, worker, percent, calls, last, closing, starts>>
    BY DEF Deliver
  <2>3. TypeOK'
    <3>1. delivered' \in BOOLEAN
      BY <2>1, Zenon
    <3>2. QED
      BY <2>1, <2>2, <3>1 DEF TypeOK
  <2>4. Results' /\ Reports'
    BY <1>1, <2>1, <2>2 DEF Results, Reports
  <2>5. Stages' /\ Bundled'
    BY <1>1, <2>1, <2>2 DEF Stages, Bundled, Active
  <2>6. Told'
    BY <1>1, <2>1, <2>2 DEF Told, LastWord, Active, Progress
  <2>7. QED
    BY <2>3, <2>4, <2>5, <2>6
<1>4. QED
  BY <1>2, <1>3

LEMMA CloseKeeps ==
  ASSUME ControllerInv, Close
  PROVE  ControllerInv'
<1> USE DEF ControllerInv, files, thread, history
<1>1. closing' = TRUE /\ task' \in {"none", "done"} /\ staged' \in {staged, None}
  BY DEF Close, Active, TypeOK
<1>2. UNCHANGED <<pending, request, worker, percent, calls, last, frame, starts, best, delivered>>
  BY DEF Close
<1>3. TypeOK'
  <2>1. closing' \in BOOLEAN
    BY <1>1, Zenon
  <2>2. QED
    BY <1>1, <1>2, <2>1 DEF TypeOK
<1>4. Results' /\ Reports'
  BY <1>1, <1>2 DEF Results, Reports
<1>5. Stages' /\ Bundled' /\ Told'
  BY <1>1, <1>2 DEF Stages, Bundled, Told, LastWord, Active
<1>6. QED
  BY <1>3, <1>4, <1>5

LEMMA IgnoreResultKeeps ==
  ASSUME ControllerInv, IgnoreResult
  PROVE  ControllerInv'
<1> USE DEF ControllerInv, files, thread, history
<1>1. closing /\ calls # <<>> /\ calls' = Tail(calls)
  BY DEF IgnoreResult, Due
<1>2. UNCHANGED <<staged, pending, task, request, worker, percent, last, frame, closing,
                  starts, best, delivered>>
  BY DEF IgnoreResult
<1>3. TypeOK' /\ Results'
  BY <1>1, <1>2, PopFacts DEF TypeOK
<1>4. Reports'
  BY <1>1, <1>2, PopReports DEF Stages, Active
<1>5. Stages' /\ Bundled' /\ Told'
  BY <1>1, <1>2 DEF Stages, Bundled, Told, LastWord, Active
<1>6. QED
  BY <1>3, <1>4, <1>5

-----------------------------------------------------------------------------
(***************************************************************************)
(* The steps of the thread.                                                *)
(***************************************************************************)

\* A callback joins the queue, and the thread has said nothing final before.
LEMMA CallFacts ==
  ASSUME ControllerInv, worker # "idle", Len(calls) < MaxQueue,
         NEW c \in Callbacks, calls' = Append(calls, c)
  PROVE  /\ calls' \in Seq(Callbacks) /\ Len(calls') <= MaxQueue /\ calls' # <<>>
         /\ DOMAIN calls' = DOMAIN calls \union {Len(calls')}
         /\ calls'[Len(calls')] = c
         /\ \A i \in DOMAIN calls : i < Len(calls') /\ calls'[i] = calls[i] /\ ~IsResult(calls[i])
         /\ calls = <<>> => Head(calls') = c
<1>1. calls \in Seq(Callbacks)
  BY DEF ControllerInv, TypeOK
<1>2. DOMAIN calls = 1 .. Len(calls) /\ Len(calls) \in Nat
  BY <1>1, QueueFacts
<1>3. /\ calls' \in Seq(Callbacks) /\ calls' # <<>> /\ Len(calls') = Len(calls) + 1
      /\ calls'[Len(calls) + 1] = c /\ \A i \in 1 .. Len(calls) : calls'[i] = calls[i]
  BY <1>1, AppendFacts
<1>4. DOMAIN calls' = 1 .. Len(calls') /\ Head(calls') = calls'[1]
  BY <1>3, QueueFacts
<1>5. \A i \in DOMAIN calls : ~IsResult(calls[i])
  BY DEF ControllerInv, Results
<1>6. Len(calls') <= MaxQueue
  BY <1>2, <1>3, ControllerAssumption
<1>7. calls = <<>> => Head(calls') = c
  BY <1>2, <1>3, <1>4
<1>8. QED
  BY <1>2, <1>3, <1>4, <1>5, <1>6, <1>7

\* Then a result may join it, if the thread ends with it.
LEMMA ResultKeeps ==
  ASSUME ControllerInv, worker # "idle", Len(calls) < MaxQueue,
         NEW c \in Callbacks, IsResult(c), calls' = Append(calls, c), worker' = "idle",
         UNCHANGED <<task, last, best>>
  PROVE  Results' /\ Reports'
<1>1. /\ DOMAIN calls' = DOMAIN calls \union {Len(calls')}
      /\ calls'[Len(calls')] = c
      /\ \A i \in DOMAIN calls : i < Len(calls') /\ calls'[i] = calls[i] /\ ~IsResult(calls[i])
  BY CallFacts
<1>2. ASSUME NEW i \in DOMAIN calls'
      PROVE  /\ IsResult(calls'[i]) => i = Len(calls')
             /\ ~IsResult(calls'[i]) => i \in DOMAIN calls /\ calls'[i] = calls[i]
  BY <1>1
<1>3. Results'
  BY <1>2 DEF Results, IsResult
<1>4. Reports'
  BY <1>2 DEF ControllerInv, Reports, IsResult
<1>5. QED
  BY <1>3, <1>4

\* A thread that works does so for the coroutine, or for one that was closed.
LEMMA WorkingFor ==
  ASSUME ControllerInv
  PROVE  /\ worker = "download" => closing \/ task = "downloading"
         /\ worker = "verify" => closing \/ task = "verifying"
         /\ closing => task \in {"none", "done"}
  BY DEF ControllerInv, Stages, Active, TypeOK

LEMMA ReceiveKeeps ==
  ASSUME ControllerInv, Receive
  PROVE  ControllerInv'
<1> USE DEF ControllerInv, files, thread, history
<1>1. /\ worker = "download"
      /\ UNCHANGED <<staged, pending, task, request, worker, frame, closing, starts, best, delivered>>
  BY DEF Receive
<1>2. closing \/ task = "downloading"
  BY <1>1, WorkingFor
<1>3. Stages /\ Bundled /\ Told /\ best <= last
  BY <1>1 DEF Reports
<1>4. PICK p \in percent + 1 .. Percents :
        /\ percent' = p
        /\ IF p <= last
             THEN UNCHANGED <<calls, last>>
             ELSE Len(calls) < MaxQueue - 1 /\ last' = p /\ Call("progress", p)
  BY DEF Receive
<1>5. p \in 0 .. Percents
  BY <1>4, ControllerAssumption DEF TypeOK
<1>6. CASE p <= last
  <2>1. UNCHANGED <<calls, last>>
    BY <1>4, <1>6
  <2>2. TypeOK'
    BY <1>1, <1>4, <1>5, <2>1 DEF TypeOK
  <2>3. QED
    BY <1>1, <2>1, <2>2 DEF Results, Reports, Stages, Bundled, Told, LastWord, Active
<1>7. CASE ~(p <= last)
  <2> DEFINE c == [what |-> "progress", percent |-> p]
  <2>1. Len(calls) < MaxQueue - 1 /\ last' = p /\ calls' = Append(calls, c)
    BY <1>4, <1>7 DEF Call
  <2>2. c \in Callbacks /\ ~IsResult(c) /\ c.percent = p
    BY <1>5 DEF Callbacks, IsResult
  <2>3. Len(calls) < MaxQueue
    BY <2>1, QueueFacts, ControllerAssumption DEF TypeOK
  <2> HIDE DEF c
  <2>4. /\ calls' \in Seq(Callbacks) /\ Len(calls') <= MaxQueue
        /\ DOMAIN calls' = DOMAIN calls \union {Len(calls')}
        /\ calls'[Len(calls')] = c
        /\ \A i \in DOMAIN calls : i < Len(calls') /\ calls'[i] = calls[i] /\ ~IsResult(calls[i])
    BY <1>1, <2>1, <2>2, <2>3, CallFacts
  <2>5. TypeOK'
    BY <1>1, <1>4, <1>5, <2>1, <2>4 DEF TypeOK
  <2>6. Results'
    BY <2>2, <2>4 DEF Results, IsResult
  <2>7. \A i \in DOMAIN calls : best <= calls[i].percent /\ calls[i].percent <= last
    BY <2>4 DEF Reports
  <2>8. last < p /\ best <= p /\ last \in Nat /\ best \in Nat
    BY <1>3, <1>5, <1>7 DEF TypeOK
  <2>9. Reports'
    <3>1. ASSUME NEW i \in DOMAIN calls'
          PROVE  best' <= calls'[i].percent /\ calls'[i].percent <= last'
      <4>1. CASE i = Len(calls')
        BY <1>1, <2>1, <2>2, <2>4, <2>8, <4>1
      <4>2. CASE i \in DOMAIN calls
        <5>1. calls[i].percent \in Nat
          <6>1. calls \in Seq(Callbacks)
            BY DEF TypeOK
          <6>2. calls[i] \in Callbacks
            BY <4>2, <6>1, QueueFacts
          <6>3. QED
            BY <6>2, ControllerAssumption DEF Callbacks
        <5>2. QED
          BY <1>1, <2>1, <2>4, <2>7, <2>8, <4>2, <5>1
      <4>3. QED
        BY <2>4, <4>1, <4>2
    <3>2. ASSUME NEW i \in DOMAIN calls', NEW j \in DOMAIN calls', i < j
          PROVE  calls'[i].percent <= calls'[j].percent
      <4>1. i \in DOMAIN calls /\ calls'[i] = calls[i]
        <5>1. DOMAIN calls' = 1 .. Len(calls')
          BY <2>4, QueueFacts
        <5>2. Len(calls') \in Nat
          BY <2>4, QueueFacts
        <5>3. i # Len(calls')
          BY <3>2, <5>1, <5>2
        <5>4. QED
          BY <2>4, <5>3
      <4>2. CASE j = Len(calls')
        BY <2>1, <2>2, <2>4, <3>1, <4>2
      <4>3. CASE j \in DOMAIN calls
        BY <2>4, <3>2, <4>1, <4>3 DEF Reports
      <4>4. QED
        BY <2>4, <4>2, <4>3
    <3>3. best' <= last'
      BY <1>1, <2>1, <2>8
    <3>4. task' # "created"
      BY <1>1, <1>2, WorkingFor
    <3>5. QED
      BY <3>1, <3>2, <3>3, <3>4 DEF Reports, IsResult
  <2>10. Stages' /\ Bundled' /\ Told'
    BY <1>1, <1>2, <1>3 DEF Stages, Bundled, Told, LastWord, Active
  <2>11. QED
    BY <2>5, <2>6, <2>9, <2>10
<1>8. QED
  BY <1>6, <1>7

LEMMA StageBundleKeeps ==
  ASSUME ControllerInv, StageBundle
  PROVE  ControllerInv'
<1> USE DEF ControllerInv, files, thread, history
<1> DEFINE c == [what |-> "done", percent |-> 0]
<1>1. /\ worker = "download" /\ worker' = "idle" /\ staged' = request
      /\ Len(calls) < MaxQueue /\ calls' = Append(calls, c)
      /\ UNCHANGED <<pending, task, request, percent, last, frame, closing, starts, best, delivered>>
  BY DEF StageBundle, Call
<1>2. c \in Callbacks /\ IsResult(c)
  BY ControllerAssumption DEF Callbacks, IsResult
<1> HIDE DEF c
<1>3. calls' \in Seq(Callbacks) /\ Len(calls') <= MaxQueue
  BY <1>1, <1>2, CallFacts
<1>4. closing \/ task = "downloading"
  BY <1>1, WorkingFor
<1>5. TypeOK'
  BY <1>1, <1>3 DEF TypeOK, Stages
<1>6. Results' /\ Reports'
  BY <1>1, <1>2, ResultKeeps
<1>7. Stages' /\ Bundled' /\ Told'
  BY <1>1, <1>4 DEF Stages, Bundled, Told, LastWord, Active
<1>8. QED
  BY <1>5, <1>6, <1>7

LEMMA LoseConnectionKeeps ==
  ASSUME ControllerInv, LoseConnection
  PROVE  ControllerInv'
<1> USE DEF ControllerInv, files, thread, history
<1> DEFINE c == [what |-> "failed", percent |-> 0]
<1>1. /\ worker = "download" /\ worker' = "idle"
      /\ Len(calls) < MaxQueue /\ calls' = Append(calls, c)
      /\ UNCHANGED <<staged, pending, task, request, percent, last, frame, closing, starts,
                     best, delivered>>
  BY DEF LoseConnection, Call
<1>2. c \in Callbacks /\ IsResult(c)
  BY ControllerAssumption DEF Callbacks, IsResult
<1> HIDE DEF c
<1>3. calls' \in Seq(Callbacks) /\ Len(calls') <= MaxQueue
  BY <1>1, <1>2, CallFacts
<1>4. closing \/ task = "downloading"
  BY <1>1, WorkingFor
<1>5. TypeOK'
  BY <1>1, <1>3 DEF TypeOK
<1>6. Results' /\ Reports'
  BY <1>1, <1>2, ResultKeeps
<1>7. Stages' /\ Bundled' /\ Told'
  BY <1>1, <1>4 DEF Stages, Bundled, Told, LastWord, Active
<1>8. QED
  BY <1>5, <1>6, <1>7

LEMMA VerifyStagedKeeps ==
  ASSUME ControllerInv, VerifyStaged
  PROVE  ControllerInv'
<1> USE DEF ControllerInv, files, thread, history
<1> DEFINE c == [what |-> IF staged \in Genuine THEN "done" ELSE "failed", percent |-> 0]
<1>1. /\ worker = "verify" /\ worker' = "idle"
      /\ Len(calls) < MaxQueue /\ calls' = Append(calls, c)
      /\ UNCHANGED <<staged, pending, task, request, percent, last, frame, closing, starts,
                     best, delivered>>
  BY DEF VerifyStaged, Call
<1>2. c \in Callbacks /\ IsResult(c) /\ (c.what = "done" => staged \in Genuine)
  BY ControllerAssumption DEF Callbacks, IsResult
<1> HIDE DEF c
<1>3. /\ calls' \in Seq(Callbacks) /\ Len(calls') <= MaxQueue
      /\ DOMAIN calls' = DOMAIN calls \union {Len(calls')}
      /\ calls'[Len(calls')] = c
      /\ \A i \in DOMAIN calls : calls'[i] = calls[i] /\ ~IsResult(calls[i])
      /\ calls = <<>> => Head(calls') = c
  BY <1>1, <1>2, CallFacts
<1>4. closing \/ task = "verifying"
  BY <1>1, WorkingFor
<1>5. task = "verifying" => calls = <<>>
  <2>1. task = "verifying" => DOMAIN calls = {}
    BY <1>3 DEF Stages
  <2>2. QED
    BY <2>1, QueueFacts DEF TypeOK
<1>6. TypeOK'
  BY <1>1, <1>3 DEF TypeOK
<1>7. Results' /\ Reports'
  BY <1>1, <1>2, ResultKeeps
<1>8. Stages'
  <2>1. task = "verifying" => \A i \in DOMAIN calls' : IsResult(calls'[i])
    BY <1>2, <1>3 DEF Stages
  <2>2. QED
    BY <1>1, <1>4, <2>1 DEF Stages, Active, IsResult
<1>9. Bundled'
  BY <1>1, <1>2, <1>3, <1>4, <1>5 DEF Bundled, Stages, Active
<1>10. Told'
  BY <1>1 DEF Told, LastWord, Active
<1>11. QED
  BY <1>6, <1>7, <1>8, <1>9, <1>10

-----------------------------------------------------------------------------
(***************************************************************************)
(* The steps around the process, and the theorems.                         *)
(***************************************************************************)

LEMMA TakePendingKeeps ==
  ASSUME ControllerInv, TakePending
  PROVE  ControllerInv'
<1> USE DEF ControllerInv, files, thread, history
<1>1. /\ pending' = None
      /\ UNCHANGED <<staged, task, request, worker, percent, calls, last, frame, closing, starts,
                     best, delivered>>
  BY DEF TakePending
<1>2. QED
  BY <1>1 DEF TypeOK, Results, Reports, Stages, Bundled, Told, LastWord, Active

LEMMA RestartKeeps ==
  ASSUME ControllerInv, Restart
  PROVE  ControllerInv'
<1> USE DEF ControllerInv, files, thread, history
<1>1. TypeOK'
  <2>1. closing' \in BOOLEAN /\ delivered' \in BOOLEAN
    BY Zenon DEF Restart
  <2>2. calls' \in Seq(Callbacks) /\ Len(calls') <= MaxQueue
    BY EmptyQueue DEF Restart
  <2>3. frame' \in Frames
    BY ControllerAssumption DEF Restart, Frames
  <2>4. starts' \in 1 .. MaxStarts
    BY ControllerAssumption DEF Restart, TypeOK
  <2>5. QED
    BY <2>1, <2>2, <2>3, <2>4, ControllerAssumption DEF Restart, TypeOK
<1>2. Results' /\ Reports' /\ Stages'
  BY DEF Restart, Results, Reports, Stages, Active
<1>3. starts' # 1
  BY DEF Restart, TypeOK
<1>4. Bundled' /\ Told'
  BY <1>3 DEF Restart, Bundled, Told, LastWord, Active
<1>5. QED
  BY <1>1, <1>2, <1>4

LEMMA StepKeeps ==
  ASSUME ControllerInv, [Step]_vars
  PROVE  ControllerInv'
<1>1. CASE UNCHANGED vars
  BY <1>1 DEF vars, files, thread, history, ControllerInv, TypeOK, Results, Reports, IsResult,
              Stages, Bundled, Told, LastWord, Active
<1>2. ASSUME NEW r \in Bundles \union {Malformed}, Accept(r)
      PROVE  ControllerInv'
  BY <1>2, AcceptKeeps
<1>3. CASE Refuse
  BY <1>3, RefuseKeeps
<1>4. CASE Run
  BY <1>4, BeginKeeps, WakeUpKeeps, DeliverKeeps DEF Run
<1>5. CASE Loop
  BY <1>5, ShowProgressKeeps, IgnoreResultKeeps DEF Loop
<1>6. CASE Work
  BY <1>6, ReceiveKeeps, StageBundleKeeps, LoseConnectionKeeps, VerifyStagedKeeps DEF Work
<1>7. CASE Close \/ TakePending \/ Restart
  BY <1>7, CloseKeeps, TakePendingKeeps, RestartKeeps
<1>8. QED
  BY <1>1, <1>2, <1>3, <1>4, <1>5, <1>6, <1>7 DEF Step

\* The invariant of the controller: what waits in the queue, what the thread
\* and the files are at each await of _run, and what was said (ota.py:106-199).
THEOREM ControllerInvariantHolds == Spec => []ControllerInv
<1>1. Init => ControllerInv
  BY InitEstablishes
<1>2. ControllerInv /\ [Step]_vars => ControllerInv'
  BY StepKeeps
<1>3. QED
  BY <1>1, <1>2, PTL DEF Spec

\* Type correctness, the bounds on the queue and on the frames included.
THEOREM ControllerTypes == Spec => []TypeOK
<1>1. ControllerInv => TypeOK
  BY DEF ControllerInv
<1>2. QED
  BY <1>1, ControllerInvariantHolds, PTL

\* What an update said last is what it did (ota.py:181-194).
THEOREM LastWordIsTrue == Spec => []LastWord
<1>1. ControllerInv => LastWord
  BY DEF ControllerInv, Told
<1>2. QED
  BY <1>1, ControllerInvariantHolds, PTL

\* An update that has ended leaves nothing staged (ota.py:189-194).
THEOREM NothingIsStaged == Spec => []NothingStaged
<1>1. ControllerInv => NothingStaged
  BY DEF ControllerInv, Bundled, NothingStaged
<1>2. QED
  BY <1>1, ControllerInvariantHolds, PTL

\* Only the verified bundle of an update that found nothing pending goes to the
\* installer, and only the installer takes it away (ota.py:145-187).
THEOREM PendingIsUntouched == Spec => PendingUntouched
<1>1. ASSUME ControllerInv, [Step]_vars, pending' # pending
      PROVE  pending' = None \/ (pending = None /\ pending' \in Genuine)
  <2>1. Deliver \/ TakePending
    BY <1>1 DEF Step, Run, Loop, Work, vars, files, thread, history, Accept, Refuse, Begin, WakeUp,
                ShowProgress, IgnoreResult, Close, Receive, StageBundle, LoseConnection,
                VerifyStaged, Restart
  <2>2. CASE Deliver
    <3>1. task = "announced" /\ pending' = staged
      BY <1>1, <2>2 DEF Deliver
    <3>2. QED
      BY <1>1, <3>1 DEF ControllerInv, Bundled
  <2>3. CASE TakePending
    BY <2>3 DEF TakePending
  <2>4. QED
    BY <2>1, <2>2, <2>3
<1>2. QED
  BY <1>1, ControllerInvariantHolds, PTL DEF Spec, PendingUntouched

\* The status frames of one request go up (ota.py:150-186).
THEOREM StatusAlwaysGoesUp == Spec => StatusGoesUp
<1>1. ASSUME ControllerInv, [Step]_vars, frame' # frame, frame'.status \notin {"none", "error"}
      PROVE  frame'.progress >= best
  <2>1. /\ TypeOK /\ best \in 0 .. Percents + 2 /\ last \in 0 .. Percents
        /\ calls \in Seq(Callbacks)
    BY <1>1 DEF ControllerInv, TypeOK
  <2>2. ~Announce("error") /\ ~Fail
    BY <1>1, <2>1, AnnounceFacts DEF Fail
  <2>3. Begin \/ WakeUp \/ ShowProgress
    BY <1>1, <2>2 DEF Step, Run, Loop, Work, vars, files, thread, history, Accept, Refuse, Deliver,
                IgnoreResult, Close, Receive, StageBundle, LoseConnection,
                VerifyStaged, TakePending, Restart
  <2>4. CASE Begin
    <3>1. task = "created" /\ Announce("downloading")
      BY <2>2, <2>4 DEF Begin
    <3>2. best = 0
      BY <1>1, <3>1 DEF ControllerInv, Reports
    <3>3. QED
      BY <2>1, <3>1, <3>2, AnnounceFacts
  <2>5. CASE WakeUp
    <3>1. \/ task = "downloading" /\ Announce("verifying")
          \/ task = "verifying" /\ Announce("rebooting")
      BY <2>2, <2>5 DEF WakeUp
    <3>2. task = "downloading" => best <= last
      BY <1>1 DEF ControllerInv, Reports
    <3>3. QED
      BY <2>1, <3>1, <3>2, AnnounceFacts, ControllerAssumption
  <2>6. CASE ShowProgress
    <3> DEFINE p == Head(calls).percent
    <3>1. calls # <<>> /\ Head(calls).what = "progress" /\ Send("downloading", p)
      BY <2>6 DEF ShowProgress, Due
    <3>2. Head(calls) \in Callbacks /\ Head(calls) = calls[1] /\ 1 \in DOMAIN calls
      BY <2>1, <3>1, QueueFacts
    <3>3. p \in 0 .. Percents + 2 /\ best <= p
      BY <1>1, <3>1, <3>2, ControllerAssumption DEF ControllerInv, Reports, IsResult, Callbacks
    <3> HIDE DEF p
    <3>4. frame'.progress = p
      BY <2>1, <3>1, <3>3, SendFacts
    <3>5. QED
      BY <2>1, <3>3, <3>4
  <2>7. QED
    BY <2>3, <2>4, <2>5, <2>6
<1>2. QED
  BY <1>1, ControllerInvariantHolds, PTL DEF Spec, StatusGoesUp


-----------------------------------------------------------------------------
(***************************************************************************)
(* The end of an update.                                                   *)
(***************************************************************************)

\* Whoever waits for the thread has its result coming.
LEMMA AwaitedKeeps ==
  ASSUME ControllerInv, ControllerInv', Awaited, [Step]_vars
  PROVE  Awaited'
<1> USE DEF files, thread, history
<1>1. CASE UNCHANGED <<task, worker, calls>>
  BY <1>1 DEF Awaited, IsResult
<1>2. CASE task' \notin {"downloading", "verifying"} \/ worker' # "idle"
  BY <1>2 DEF Awaited
<1>3. CASE ShowProgress
  <2>1. /\ calls # <<>> /\ calls' = Tail(calls) /\ ~IsResult(Head(calls))
        /\ UNCHANGED <<task, worker>>
    BY <1>3 DEF ShowProgress, Due, IsResult
  <2>2. calls \in Seq(Callbacks)
    BY DEF ControllerInv, TypeOK
  <2>3. /\ DOMAIN calls = 1 .. Len(calls) /\ Len(calls) \in Nat
        /\ Head(calls) = calls[1]
    BY <2>1, <2>2, QueueFacts
  <2>4. /\ calls' \in Seq(Callbacks) /\ Len(calls') = Len(calls) - 1
        /\ \A i \in 1 .. Len(calls') : calls'[i] = calls[i + 1]
    BY <2>1, <2>2, TailFacts
  <2>5. DOMAIN calls' = 1 .. Len(calls')
    BY <2>4, QueueFacts
  <2>6. ASSUME NEW i \in DOMAIN calls, IsResult(calls[i])
        PROVE  \E j \in DOMAIN calls' : IsResult(calls'[j])
    <3>1. i # 1
      BY <2>1, <2>3, <2>6
    <3>2. i - 1 \in 1 .. Len(calls') /\ (i - 1) + 1 = i
      BY <2>3, <2>4, <2>6, <3>1
    <3>3. calls'[i - 1] = calls[i]
      BY <2>4, <3>2
    <3>4. QED
      BY <2>5, <2>6, <3>2, <3>3
  <2>7. QED
    BY <2>1, <2>6 DEF Awaited
<1>4. ASSUME worker # "idle", NEW c \in Callbacks, IsResult(c),
             Len(calls) < MaxQueue, calls' = Append(calls, c)
      PROVE  Awaited'
  <2>1. Len(calls') \in DOMAIN calls' /\ calls'[Len(calls')] = c
    BY <1>4, CallFacts
  <2>2. IsResult(calls'[Len(calls')])
    BY <1>4, <2>1
  <2>3. QED
    BY <2>1, <2>2 DEF Awaited
<1>5. CASE StageBundle \/ LoseConnection \/ VerifyStaged
  <2>1. worker # "idle" /\ Len(calls) < MaxQueue
    BY <1>5 DEF StageBundle, LoseConnection, VerifyStaged
  <2>2. \E what \in {"done", "failed"} : Call(what, 0)
    BY <1>5 DEF StageBundle, LoseConnection, VerifyStaged
  <2>3. PICK what \in {"done", "failed"} : Call(what, 0)
    BY <2>2
  <2>4. [what |-> what, percent |-> 0] \in Callbacks
    BY ControllerAssumption DEF Callbacks
  <2>5. QED
    BY <1>4, <2>1, <2>3, <2>4 DEF Call, IsResult
<1>6. CASE UNCHANGED vars
  BY <1>1, <1>6 DEF vars
<1>7. CASE \E r \in Bundles \union {Malformed} : Accept(r)
  BY <1>2, <1>7 DEF Accept
<1>8. CASE Refuse \/ TakePending
  BY <1>1, <1>8 DEF Refuse, TakePending
<1>9. CASE Begin \/ WakeUp \/ Deliver
  BY <1>1, <1>2, <1>9 DEF Begin, WakeUp, Deliver, Fail, ControllerInv, Stages, Active
<1>10. CASE IgnoreResult \/ Close \/ Restart
  BY <1>2, <1>10
  DEF IgnoreResult, Close, Restart, ControllerInv, Stages, Active
<1>11. CASE Receive
  BY <1>2, <1>11 DEF Receive
<1>12. QED
  BY <1>3, <1>5, <1>6, <1>7, <1>8, <1>9, <1>10, <1>11 DEF Step, Run, Loop, Work

\* No result is lost between the thread and the coroutine that waits for it,
\* whatever is called in between (ota.py:150-178).
THEOREM ResultIsAwaited == Spec => []Awaited
<1>1. Init => Awaited
  BY DEF Init, Awaited
<1>2. ControllerInv /\ ControllerInv' /\ Awaited /\ [Step]_vars => Awaited'
  BY AwaitedKeeps
<1>3. QED
  BY <1>1, <1>2, ControllerInvariantHolds, PTL DEF Spec

\* An update never goes back to what it has done: each step of coroutine,
\* thread and callbacks leaves less to do, for any number of reports
\* (ota.py:134-199).
THEOREM UpdatesNearEnd == Spec => UpdateNearsEnd
<1>1. ASSUME ControllerInv, ControllerInv', Step, Active, Active'
      PROVE  \/ Falls(UpdateRank', UpdateRank)
             \/ UNCHANGED <<task, thread, calls>> /\ (Refuse \/ TakePending)
  <2> USE DEF files, thread, history
  <2>1. /\ percent \in Nat /\ percent' \in Nat /\ percent <= Percents
        /\ percent' <= Percents /\ Percents \in Nat
        /\ worker \in {"idle", "download", "verify"}
        /\ worker' \in {"idle", "download", "verify"}
        /\ calls \in Seq(Callbacks) /\ calls' \in Seq(Callbacks)
    BY <1>1, ControllerAssumption DEF ControllerInv, TypeOK
  <2>2. /\ worker = "download" => ThreadWork = Percents + 1 - percent
        /\ worker' = "download" => ThreadWork' = Percents + 1 - percent'
        /\ worker = "verify" => ThreadWork = 1
        /\ worker' = "idle" => ThreadWork' = 0
    BY DEF ThreadWork
  <2>3. ASSUME TaskStage[task'] < TaskStage[task]
        PROVE  Falls(UpdateRank', UpdateRank)
    BY <2>3 DEF Falls, UpdateRank
  <2>4. ASSUME task' = task, ThreadWork' < ThreadWork
        PROVE  Falls(UpdateRank', UpdateRank)
    BY <2>4 DEF Falls, UpdateRank
  <2>5. ASSUME task' = task, UNCHANGED <<worker, percent>>, Len(calls') < Len(calls)
        PROVE  Falls(UpdateRank', UpdateRank)
    <3>1. ThreadWork' = ThreadWork
      BY <2>5 DEF ThreadWork
    <3>2. QED
      BY <2>5, <3>1 DEF Falls, UpdateRank
  <2>6. CASE Begin \/ WakeUp \/ Deliver
    BY <1>1, <2>3, <2>6 DEF Begin, WakeUp, Deliver, Fail, Active, TaskStage
  <2>7. CASE ShowProgress
    BY <2>1, <2>5, <2>7, TailFacts, QueueFacts DEF ShowProgress, Due
  <2>8. CASE Receive \/ StageBundle \/ LoseConnection \/ VerifyStaged
    <3>1. task' = task
      BY <2>8 DEF Receive, StageBundle, LoseConnection, VerifyStaged
    <3>2. CASE Receive
      <4>1. /\ worker = "download" /\ worker' = "download"
            /\ \E p \in percent + 1 .. Percents : percent' = p
        BY <3>2 DEF Receive
      <4>2. ThreadWork' = Percents + 1 - percent' /\ ThreadWork = Percents + 1 - percent
        BY <2>2, <4>1
      <4>3. ThreadWork' < ThreadWork
        BY <2>1, <4>1, <4>2
      <4>4. QED
        BY <2>4, <3>1, <4>3
    <3>3. CASE StageBundle \/ LoseConnection \/ VerifyStaged
      <4>1. worker \in {"download", "verify"} /\ worker' = "idle"
        BY <3>3 DEF StageBundle, LoseConnection, VerifyStaged
      <4>2. QED
        BY <2>1, <2>2, <2>4, <3>1, <4>1
    <3>4. QED
      BY <2>8, <3>2, <3>3
  <2>9. CASE Refuse \/ TakePending
    BY <2>9 DEF Refuse, TakePending
  <2>10. CASE IgnoreResult
    BY <1>1, <2>10 DEF IgnoreResult, ControllerInv, Stages
  <2>11. CASE Close \/ Restart
    BY <1>1, <2>11 DEF Close, Restart, Active
  <2>12. CASE \E r \in Bundles \union {Malformed} : Accept(r)
    BY <1>1, <2>12 DEF Accept
  <2>13. QED
    BY <1>1, <2>6, <2>7, <2>8, <2>9, <2>10, <2>11, <2>12 DEF Step, Run, Loop, Work
<1>2. ASSUME ControllerInv, ControllerInv', [Step]_vars
      PROVE  [Active /\ Active' =>
                \/ Falls(UpdateRank', UpdateRank)
                \/ UNCHANGED <<task, thread, calls>> /\ (Refuse \/ TakePending)]_vars
  BY <1>1, <1>2
<1>3. QED
  BY <1>2, ControllerInvariantHolds, PTL DEF Spec, UpdateNearsEnd
=============================================================================
