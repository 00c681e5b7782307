------------------------- MODULE ControllerInvariant -------------------------
(***************************************************************************)
(* The inductive invariant behind the safety properties of OtaController.  *)
(* Everything hangs on the queue: a result is the last thing a thread puts *)
(* there (Results), reports wait in their order above what was sent        *)
(* (Reports), and an update that has ended has left neither a thread nor a *)
(* callback, unless the process is closing (Stages).                       *)
(***************************************************************************)
EXTENDS OtaController, Lexicographic

IsResult(call) == call.what \in {"done", "failed"}

\* The thread has one result, and says nothing after it.
Results ==
  \A i \in DOMAIN calls : IsResult(calls[i]) => i = Len(calls) /\ worker = "idle"

\* Reports wait in the order in which they were made.
Reports ==
  /\ \A i \in DOMAIN calls : ~IsResult(calls[i]) =>
       best <= calls[i].percent /\ calls[i].percent <= last
  /\ \A i, j \in DOMAIN calls :
       i < j /\ ~IsResult(calls[i]) /\ ~IsResult(calls[j]) =>
         calls[i].percent <= calls[j].percent
  /\ worker = "download" \/ task = "downloading" => best <= last
  /\ task = "created" => best = 0

\* What there is of thread and queue at each await of the coroutine.
Stages ==
  /\ closing => ~Active
  /\ ~closing /\ task \notin {"downloading", "verifying"} =>
       worker = "idle" /\ calls = <<>>
  /\ task = "downloading" => worker # "verify"
  /\ task = "verifying" =>
       worker # "download" /\ \A i \in DOMAIN calls : IsResult(calls[i])
  /\ worker = "download" => request \in Bundles
  /\ task = "created" => request # None

\* What is staged and pending.
Bundled ==
  /\ task = "verifying" /\ calls # <<>> /\ Head(calls).what = "done" => staged \in Genuine
  /\ task = "announced" => staged \in Genuine
  /\ task \in {"downloading", "verifying", "announced"} => pending = None
  /\ starts = 1 /\ ~closing /\ task \in {"none", "created", "done"} => staged = None

\* What was said of it.
Told ==
  /\ Active => ~delivered
  /\ task = "announced" => best = Progress.rebooting
  /\ LastWord

ControllerInv == TypeOK /\ Results /\ Reports /\ Stages /\ Bundled /\ Told

-----------------------------------------------------------------------------
(* The way to the end of an update.                                        *)

\* An update that waits for its thread has one that works, or its result in
\* the queue: no result is lost between thread and coroutine.
Awaited ==
  task \in {"downloading", "verifying"} =>
    worker # "idle" \/ \E i \in DOMAIN calls : IsResult(calls[i])

TaskStage == [created |-> 4, downloading |-> 3, verifying |-> 2, announced |-> 1,
              none |-> 0, done |-> 0]

ThreadWork ==
  CASE worker = "download" -> Percents + 1 - percent
    [] worker = "verify"   -> 1
    [] worker = "idle"     -> 0

\* What is left of an update: stages, work of the thread, callbacks.
UpdateRank == <<TaskStage[task], ThreadWork, Len(calls)>>

\* No step leads an update back: coroutine, thread and callbacks bring its end
\* nearer, and requests that are refused and the installer leave it where it
\* is (ota.py:134-199).
UpdateNearsEnd ==
  [][Active /\ Active' =>
       \/ Falls(UpdateRank', UpdateRank)
       \/ UNCHANGED <<task, thread, calls>> /\ (Refuse \/ TakePending)]_vars
=============================================================================
