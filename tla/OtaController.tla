---------------------------- MODULE OtaController ----------------------------
(***************************************************************************)
(* NativeOtaController of ota.py: the part of the voice process that is    *)
(* told of a release, downloads it, verifies it and leaves it where the    *)
(* installer looks for it.                                                 *)
(*                                                                         *)
(* Three parties share its state: the coroutine `_run`, which the event    *)
(* loop runs from one await to the next; the thread that asyncio.to_thread *)
(* starts for the download and for the verification, which no cancellation *)
(* stops; and the queue of callbacks through which that thread speaks to   *)
(* the event loop.  The files outlive the process.                         *)
(***************************************************************************)
EXTENDS Integers, Sequences

CONSTANTS
  Bundles,    \* what a request may name, apart from what does not parse
  Genuine,    \* the bundles that verify_bundle_archive passes
  Malformed,  \* a request whose URL, digest or size does not validate
  None,       \* no file, no request
  Percents,   \* the progress of a download is reported up to this number
  MaxQueue,   \* bound on the callbacks waiting for the event loop
  MaxStarts   \* bound on the starts of the process

ASSUME ControllerAssumption ==
  /\ Genuine \subseteq Bundles
  /\ {Malformed, None} \cap Bundles = {}
  /\ Malformed # None
  /\ Percents \in Nat \ {0}
  /\ MaxQueue \in Nat \ {0}
  /\ MaxStarts \in Nat \ {0}

VARIABLES
  staged,    \* staged.sat1-ota
  pending,   \* pending.sat1-ota
  task,      \* where the coroutine is
  request,   \* the message it works on
  worker,    \* what the thread does
  percent,   \* how far its download is
  calls,     \* callbacks for the event loop, oldest first
  last,      \* _last_progress, 0 for its initial -1
  frame,     \* the last ota.status frame
  closing,   \* close() has been called
  starts,    \* how often the process has started
  best,      \* history: the highest progress sent for this request
  delivered  \* history: this request's bundle went into pending

files   == <<staged, pending>>
thread  == <<worker, percent>>
history == <<best, delivered>>
vars == <<files, task, request, thread, calls, last, frame, closing, starts,
          history>>

Active == task \in {"created", "downloading", "verifying", "announced"}

\* The values _send is called with: downloads report 0 to 85, the later
\* stages 88 and 92.
Progress == [downloading |-> 0, verifying |-> Percents + 1,
             rebooting |-> Percents + 2, error |-> 0]
Frames == [status : {"none", "downloading", "verifying", "rebooting", "error"},
           progress : 0 .. Percents + 2]
Callbacks == [what : {"progress", "done", "failed"}, percent : 0 .. Percents]

TypeOK ==
  /\ staged \in Bundles \union {None}
  /\ pending \in Bundles \union {None}
  /\ task \in {"none", "created", "downloading", "verifying", "announced",
               "done"}
  /\ request \in Bundles \union {Malformed, None}
  /\ worker \in {"idle", "download", "verify"}
  /\ percent \in 0 .. Percents
  /\ calls \in Seq(Callbacks)
  /\ Len(calls) <= MaxQueue
  /\ last \in 0 .. Percents
  /\ frame \in Frames
  /\ closing \in BOOLEAN
  /\ starts \in 1 .. MaxStarts
  /\ best \in 0 .. Percents + 2
  /\ delivered \in BOOLEAN

Init ==
  /\ staged = None
  /\ pending = None
  /\ task = "none"
  /\ request = None
  /\ worker = "idle"
  /\ percent = 0
  /\ calls = <<>>
  /\ last = 0
  /\ frame = [status |-> "none", progress |-> 0]
  /\ closing = FALSE
  /\ starts = 1
  /\ best = 0
  /\ delivered = FALSE

-----------------------------------------------------------------------------
(* Event loop.                                                             *)

Send(status, progress) ==
  /\ frame' = [status |-> status, progress |-> progress]
  /\ best' = IF status # "error" /\ progress > best THEN progress ELSE best

Announce(status) == Send(status, Progress[status])

\* loop.call_soon_threadsafe, for a report or for the thread's result.
Call(what, p) == calls' = Append(calls, [what |-> what, percent |-> p])

\* handle_message: one task at a time.
Accept(r) ==
  /\ ~closing
  /\ ~Active
  /\ task' = "created"
  /\ request' = r
  /\ best' = 0
  /\ delivered' = FALSE
  /\ UNCHANGED <<files, thread, calls, last, frame, closing, starts>>

Refuse ==
  /\ ~closing
  /\ Active
  /\ Announce("error")
  /\ UNCHANGED <<files, task, request, thread, calls, last, closing, starts,
                 delivered>>

\* Mutant: a failed update is not reported.
FailSilently ==
  /\ staged' = None
  /\ task' = "done"
  /\ UNCHANGED <<frame, best>>

\* Mutant: a failed update leaves its download behind.
FailWithLeftover ==
  /\ Announce("error")
  /\ task' = "done"
  /\ UNCHANGED staged

\* The except clause of _run.
Fail ==
  /\ staged' = None
  /\ Announce("error")
  /\ task' = "done"

\* Mutant: a pending bundle is not looked for.
BeginAnyway ==
  /\ task = "created"
  /\ ~closing
  /\ IF request = Malformed
       THEN Fail /\ UNCHANGED <<thread>>
       ELSE /\ Announce("downloading")
            /\ task' = "downloading"
            /\ worker' = "download"
            /\ percent' = 0
            /\ UNCHANGED staged
  /\ UNCHANGED <<pending, request, calls, last, closing, starts, delivered>>

\* The coroutine up to its first await.
Begin ==
  /\ task = "created"
  /\ ~closing
  /\ IF pending # None \/ request = Malformed
       THEN Fail /\ UNCHANGED <<thread>>
       ELSE /\ Announce("downloading")
            /\ task' = "downloading"
            /\ worker' = "download"
            /\ percent' = 0
            /\ UNCHANGED staged
  /\ UNCHANGED <<pending, request, calls, last, closing, starts, delivered>>

Due(what) == calls # <<>> /\ Head(calls).what = what /\ calls' = Tail(calls)

\* loop.call_soon_threadsafe(self._send, ...)
ShowProgress ==
  /\ Due("progress")
  /\ Send("downloading", Head(calls).percent)
  /\ UNCHANGED <<files, task, request, thread, last, closing, starts, delivered>>

\* The thread's result wakes the coroutine, unless it has been cancelled.
WakeUp ==
  /\ ~closing
  /\ \/ /\ Due("failed")
        /\ Fail
        /\ UNCHANGED worker
     \/ /\ Due("done")
        /\ task = "downloading"
        /\ Announce("verifying")
        /\ task' = "verifying"
        /\ worker' = "verify"
        /\ UNCHANGED staged
     \/ /\ Due("done")
        /\ task = "verifying"
        /\ Announce("rebooting")
        /\ task' = "announced"
        /\ UNCHANGED <<staged, worker>>
  /\ UNCHANGED <<pending, request, percent, last, closing, starts, delivered>>

\* Half a second later: os.replace(staged, pending), which may fail.
Deliver ==
  /\ task = "announced"
  /\ ~closing
  /\ \/ /\ staged # None
        /\ pending' = staged
        /\ staged' = None
        /\ task' = "done"
        /\ delivered' = TRUE
        /\ UNCHANGED <<frame, best>>
     \/ Fail /\ UNCHANGED <<pending, delivered>>
  /\ UNCHANGED <<request, thread, calls, last, closing, starts>>

\* close(): the task is cancelled at its await; what has not begun never
\* reaches its try block.
Close ==
  /\ ~closing
  /\ closing' = TRUE
  /\ task' = IF Active THEN "done" ELSE task
  /\ staged' = IF Active /\ task # "created" THEN None ELSE staged
  /\ UNCHANGED <<pending, request, thread, calls, last, frame, starts, history>>

\* A result that comes after that finds its future cancelled.
IgnoreResult ==
  /\ closing
  /\ \/ Due("done")
     \/ Due("failed")
  /\ UNCHANGED <<files, task, request, thread, last, frame, closing, starts,
                 history>>

-----------------------------------------------------------------------------
(* The thread.                                                             *)

\* Mutant: a report is not capped.
ReceiveUncapped ==
  /\ worker = "download"
  /\ percent <= Percents
  /\ percent' = percent + 1
  /\ UNCHANGED <<calls, last>>
  /\ UNCHANGED <<files, task, request, worker, frame, closing, starts, history>>

\* A chunk has arrived; progress that is not above _last_progress is not
\* reported.  The queue keeps room for the thread's result.
Receive ==
  /\ worker = "download"
  /\ \E p \in percent + 1 .. Percents :
       /\ percent' = p
       /\ IF p <= last
            THEN UNCHANGED <<calls, last>>
            ELSE /\ Len(calls) < MaxQueue - 1
                 /\ last' = p
                 /\ Call("progress", p)
  /\ UNCHANGED <<files, task, request, worker, frame, closing, starts, history>>

\* Mutant: the result overtakes the progress that is still waiting.
StageBundleAtOnce ==
  /\ worker = "download"
  /\ percent = Percents
  /\ staged' = request
  /\ worker' = "idle"
  /\ Len(calls) < MaxQueue
  /\ calls' = <<[what |-> "done", percent |-> 0]>> \o calls
  /\ UNCHANGED <<pending, task, request, percent, last, frame, closing, starts,
                 history>>

\* All of the bundle is there, its size and digest are as announced.
StageBundle ==
  /\ worker = "download"
  /\ percent = Percents
  /\ staged' = request
  /\ worker' = "idle"
  /\ Len(calls) < MaxQueue
  /\ Call("done", 0)
  /\ UNCHANGED <<pending, task, request, percent, last, frame, closing, starts,
                 history>>

\* Mutant: the thread ends and nobody is told.
LoseConnectionSilently ==
  /\ worker = "download"
  /\ worker' = "idle"
  /\ UNCHANGED <<files, task, request, percent, calls, last, frame, closing,
                 starts, history>>

\* The connection breaks, or the bundle is not what was announced.
LoseConnection ==
  /\ worker = "download"
  /\ worker' = "idle"
  /\ Len(calls) < MaxQueue
  /\ Call("failed", 0)
  /\ UNCHANGED <<files, task, request, percent, last, frame, closing, starts,
                 history>>

\* Mutant: the signature is not looked at.
VerifyNothing ==
  /\ worker = "verify"
  /\ worker' = "idle"
  /\ Len(calls) < MaxQueue
  /\ Call("done", 0)
  /\ UNCHANGED <<files, task, request, percent, last, frame, closing, starts,
                 history>>

VerifyStaged ==
  /\ worker = "verify"
  /\ worker' = "idle"
  /\ Len(calls) < MaxQueue
  /\ Call(IF staged \in Genuine THEN "done" ELSE "failed", 0)
  /\ UNCHANGED <<files, task, request, percent, last, frame, closing, starts,
                 history>>

-----------------------------------------------------------------------------
(* Around the process.                                                     *)

\* The installer moves the bundle away (apply_pending).
TakePending ==
  /\ pending # None
  /\ pending' = None
  /\ UNCHANGED <<staged, task, request, thread, calls, last, frame, closing,
                 starts, history>>

\* The process ends, by itself when closed and its thread is through, or by
\* a crash, and systemd starts it again.
Restart ==
  /\ starts < MaxStarts
  /\ starts' = starts + 1
  /\ task' = "none"
  /\ request' = None
  /\ worker' = "idle"
  /\ percent' = 0
  /\ calls' = <<>>
  /\ last' = 0
  /\ frame' = [status |-> "none", progress |-> 0]
  /\ closing' = FALSE
  /\ best' = 0
  /\ delivered' = FALSE
  /\ UNCHANGED files

Run   == Begin \/ WakeUp \/ Deliver
Loop  == ShowProgress \/ IgnoreResult
Work  == Receive \/ StageBundle \/ LoseConnection \/ VerifyStaged

Step ==
  \/ \E r \in Bundles \union {Malformed} : Accept(r)
  \/ Refuse
  \/ Run
  \/ Loop
  \/ Close
  \/ Work
  \/ TakePending
  \/ Restart

Spec == Init /\ [][Step]_vars /\ WF_vars(Run) /\ WF_vars(Loop) /\ WF_vars(Work)

-----------------------------------------------------------------------------
(* Properties.                                                             *)

\* A bundle waits for the installer until the installer takes it, and was
\* verified before it got there: no later request, cancellation or restart
\* replaces it (ota.py:145-146).
PendingUntouched ==
  [][pending' # pending =>
       \/ pending' = None
       \/ pending = None /\ pending' \in Genuine]_vars

\* The status frames of one request go up, from the download through the
\* verification to the reboot; only an error breaks in.  The thread's reports
\* and its result take the same queue.
StatusGoesUp ==
  [][frame' # frame /\ frame'.status \notin {"none", "error"} =>
       frame'.progress >= best]_vars

\* What an update said is what it did: when it has ended, a reboot was
\* announced last only if the installer was given the bundle, and the
\* installer was given a bundle only if a reboot was announced.  (A refused
\* second request may have said "error" in between: ota.py:135-136.)
LastWord ==
  task = "done" /\ ~closing =>
    /\ frame.status = "rebooting" => delivered
    /\ delivered => best = Progress.rebooting

\* An update that has ended leaves nothing staged, unless the process was
\* closed or has died under it: then its thread may finish the download.
NothingStaged ==
  starts = 1 /\ ~closing /\ task \in {"none", "done"} => staged = None

\* Every update ends.
UpdateEnds == Active ~> ~Active
=============================================================================
