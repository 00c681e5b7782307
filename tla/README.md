# Tater SAT1: verification of the appliance

TLA+ models of the programs in this repository that run on a Tater SAT1 (a
Raspberry Pi voice satellite), TLC runs that check them on small instances, and
TLAPS proofs about them. All paths below are relative to the repository.

Four parts, each with its own composition, runs and proofs:

- **updates**: from the request that reaches the voice process to the verdict of
  the boot health check, the one part that can lose a device in the field;
- **LED service**: the ring that shows what the voice process does and the
  controls that steer it;
- **XMOS**: the firmware check, the audio service behind it, and the SPI bus that
  the LED service shares with them;
- **setup**: the Wi-Fi hotspot, the portal in it and what it saves.

## The system

| Component | State | Operations |
|---|---|---|
| **OTA controller** (`ota.py`), inside the voice process (`voice.py`) | `staged.sat1-ota`, `pending.sat1-ota`, the running task, `_last_progress` | `handle_message`, `_run`, `download_update` on a thread, `close` |
| **Update installer** (`update_installer.py`, `tater-sat1-update.{path,service}`) | managed directories and files, rollback directory with `metadata.json`, `health-pending.json` | `apply_pending`, `restore_backup` |
| **Boot health check** (`update_health.py`, `tater-sat1-update-health.service`) | the same, and `last-success.json`, `last-failure.json` | `run_health_check` |
| **XMOS firmware check** (`xmos_firmware.py`, `tater-sat1-{xmos,audio}.service`) | the XMOS's firmware and reset line, the per-boot marker | `ensure_xmos_firmware_once`, at boot and before audio starts |
| **LED and peripheral controller** (`leds.py`) | `LedState` under a lock, button tracker, connection, pixel driver with its lock | events, DoA samples, buttons, snapshots, frames |
| **Setup hotspot** (`script/setup-hotspot`, `tater-sat1-provisioning.service`) | owner of wlan0, hostapd, the file that tells the LED service | `ensure` in the unit, `stop` in its ExecStop and the exit trap |
| **Setup portal** (`setup_portal.py`, `provisioning.py`) | Wi-Fi profile, name, room, server address, pairing code | one thread per form: `save_configuration`, then `_finish_setup` |
| **Private token** (`runtime.py`) | the token file | `ensure_private_token` |
| **Audio watchdog** (`script/audio-watchdog`) | none | restarts the audio service |
| Configuration, command line, doctor, source import, image and release builds | none at run time | sequential |

How they interact:

- Tater sends `ota.url` over the voice connection. The **controller** downloads,
  verifies and renames the bundle to `pending.sat1-ota`; systemd's path unit sees
  that file and starts the **installer**.
- The installer verifies again, copies the managed files into the rollback
  directory, writes the health marker, stops the services, moves the managed
  directories into the rollback and the new ones into place, copies the new
  files, moves the bundle away and reboots.
- At boot the **health check** runs if the marker exists. It accepts the release
  and deletes the rollback, or calls the installer's `restore_backup` and reboots.
- The two processes share files and nothing else. The installer holds a lock that
  the health check does not take.
- Tater reads the verdict from the update directory after the reboot.
- The **LED service** is a WebSocket client of the voice process: events come in,
  commands of the buttons and the microphone switch go out. A file tells it that
  the setup hotspot is up.
- The **firmware check** runs as root in its own unit at boot, and again before
  every start of the audio service unless the marker under `/run` says it is
  done. It talks to the XMOS over the SPI bus that the LED service opens for its
  frames and reads. No lock spans the two processes: systemd's order of start
  jobs and the marker keep them apart. The **watchdog** restarts the audio
  service, the updater stops and starts it.
- The **hotspot** takes wlan0 from NetworkManager and runs the **portal** as its
  last command. A saved form makes the portal restart the very service it runs in
  and the voice service, which reads the files at its start.

Hard to test, and therefore what the properties are about: a power loss between
any two of some seventy file operations; exceptions in the middle of them; the
next boot taking up an interrupted rollback; two programs on one directory with
no common lock; a second bundle during a trial; and, in the controller, a thread
that no cancellation stops and that speaks through a queue of callbacks; in the
LED service, what is lost with a connection and what survives it; two readers on
one bus where a read is two transactions, and a check that is killed while it
holds the device in reset; a script whose exit trap and ExecStop clean up at
once, and forms saved command by command with the plug to be pulled in between.
The list with lines is `hazards` in `PROJECT.json`.

## Modules

| Module | Content |
|---|---|
| `Appliance` | the disk as the update programs see it; `Recovered`, the image a rollback would give |
| `RestoreBackup` | `restore_backup`, for either of the two processes |
| `UpdateInstaller` | `apply_pending` |
| `UpdateHealth` | `run_health_check` |
| `OtaAppliance` | both processes, deliveries, reboots, power losses, exceptions; the properties |
| `AtomicUpdate` | the promise: a committed image and at most one release on trial |
| `OtaInvariant` | the inductive invariants and the assumption `Careful` |
| `OtaAppliance_proofs` | type correctness, and that nothing unverified is installed |
| `OtaSafety_proofs` | the inductive invariant and what follows from it |
| `OtaProgress` | how far a trial is from its verdict |
| `OtaTrial_proofs` | that its result is true, and each of its steps a step towards it |
| `Lexicographic` | the order of the ranks, there and in `ControllerInvariant` |
| `OtaController` | the controller: coroutine, thread, callback queue, restarts |
| `ControllerInvariant`, `OtaController_proofs` | its inductive invariant and rank, and its safety proved |
| `LedState` | `LedState` as functions: events, the connection, the phase that shows |
| `LedRing` | the peripheral client, setup monitor and expiry around it, with the voice process at the other end |
| `LedRing_proofs` | what the LED service knows and shows, proved |
| `ButtonTracker` | `Sat1ButtonTracker` as functions: debouncing and commands |
| `MicSwitch` | the poll of the controls, its commands, lost connections |
| `MicSwitch_proofs` | the microphone switch and the debouncing, proved |
| `XmosBus` | the XMOS on its bus, and the threads of the LED service that use it |
| `XmosFirmware` | the firmware check over that bus |
| `XmosAppliance` | the units around both, watchdog, updater, reboots; the properties |
| `XmosInvariant`, `XmosAppliance_proofs` | its inductive invariant, and its safety proved |
| `SetupHotspot` | the script as main process and as ExecStop, its unit, NetworkManager |
| `SetupPortal` | a form's thread: four nmcli commands and up to four files |
| `SetupAppliance` | both with the voice service, people, failures, power losses; the properties |
| `SetupInvariant`, `SetupAppliance_proofs` | its inductive invariant, and its safety proved |
| `MCOtaAppliance`, `MCOtaController`, `MCLedRing`, `MCMicSwitch`, `MCXmosAppliance`, `MCSetupAppliance` | instances for TLC |

### Correspondence with the code

**Items.** `root` and `backup` map every managed item to the release its content
comes from, `None`, or `Torn` (partly there). Items are numbered in the order of
`managed_directories` and `managed_files`, so a loop variable `idx` stands for the
position in those tuples. A version stands for its payload: two bundles with the
same version and different content are not distinguished.

**Steps.** Each action is one change another process or a power loss can fall
behind: a rename is one step; `copy2` truncates in one (`OpenFile`, `OpenNewFile`)
and is complete in the next; `rmtree` removes any part of what is left in each
step (`RemoveSomeRollback`, `RemoveDirectory`). `pc` holds each process's place
with labels named after the code's phases. An exception in the part before `try`
is `AbortPreparation`, one inside it `FailInstallation`, one inside
`restore_backup` called by the installer `FailInstallerRestore`; an exception or
systemd's timeout in the health check is `StopHealthCheck`. Errors the state
itself forces (a rename onto a directory that is in place, a copy the other
process has taken) happen without being counted as faults.

**Bundles.** What signature, manifest, digest and payload checks compute is the
constant `Installable` (`Genuine` in `OtaController`). `verify_bundle` is called
by both programs with the same arguments, but a bundle may pass the first and
not the second, which the runs with the release `bad` include.

**Health.** `CanBeHealthy` is `appliance_healthy`: version file and service
states. It *may* then answer True. The constant `Tolerated` says what services can
come up on besides one whole release, which the code does not look at: `"mixture"`,
whole items of two releases; `"torn"`, items half written or half removed as well. The
runs that pass tolerate both, except `ota_restartable`, which tolerates neither;
`ota_restore_crash` has the mixture alone, and the other two violations need neither.

**Durability.** A completed step survives a power loss, in the order in which the
program made it. The code calls `sync` only at the end of an installation, so
real file systems can do worse; the JSON files are renamed into place without
`fsync`.

**Controller.** `task` is the await at which `_run` stands. `Begin`, `WakeUp` and
`Deliver` are the code between two awaits, which the event loop runs without
interruption. `calls` is the loop's queue: progress reports
(`call_soon_threadsafe`) and the thread's result travel through it in order.
`Close` cancels the task at its await and leaves the thread running. After
`close()` the client handles no messages (it is about to end). Percentages 0-85
are scaled to `0 .. Percents`, 88 and 92 follow.

**LED service.** Every method of `LedState` holds its lock from start to end and
every call of the tracker is between two awaits, so both are functions and the
actions of `LedRing` and `MicSwitch` apply them. The two modules share nothing but
the connection: the controls change what the voice process tells, and that may
change at any time in `LedRing`. Events that do the same are one (`LedState`
lists them). Deadlines are flags that `Expire` takes back. `Lose` keeps any prefix
of what was sent, for the client reads what has arrived before its loop ends;
`Disconnect` is the `finally` clause. `AnimationWorker` renders `Shows(led)` over
and over and has no state of its own. A sample is the set of inputs that read 1;
of the tracker's count only what the comparison with `debounce_samples` can see
is kept. The voice process is external: it sends a snapshot and, if its pipeline
is busy, the stage to a new connection (the comment at `leds.py:172-176` relies on
it), handles commands in order, and may restart between connections.

**XMOS.** `payload` is the one answer that waits in the device: a request puts it
there, any transaction clocks it out, and one that finds none gets the status.
The LED service's threads are the renderer and two pollers, for a connection that
is lost leaves a thread in its read while the next connection starts another. A
`job` is where a thread stands in `write`, `read_input_a` or `read_doa`; `Acquire`
and `Leave` are `with self._lock`. The check is one process at a time (systemd
orders the boot unit before the audio unit), so it has one `pc`. A run of the
vendor's tool is a step, the read of the version two. Versions are `"target"`,
`"other"` or `"none"` (nothing that answers); since code and image are replaced
by an update, `tree` says whose are installed and `aim` whose code the running
check is. `queued` is a unit with a start job: the LED unit starts when the audio
unit has none, whatever its start came to. A kill (`CheckTimesOut`, `StopUnits`,
`RestartAudio`, `Reboot`) runs no `finally` clause.

**Setup.** `main` and `stopper` are the two processes that run the script; each
step of `stop_services` is one of theirs. `unit` follows systemd: ExecStop first,
also after an exit of the script, then the signal. A form is named for the
network it asks for, and that name is the value of every file it writes and of
its password, so a mixture of two forms shows. A profile under the portal's
name may exist more than once, as `nmcli connection add` allows. `_write_private`
is two steps, for its temporary file has one name per target; the directory
and mode changes around them are left out. `stored` is what the card is sure to
have: `os.sync` sets it, and a power loss keeps of each later change all or
nothing. `settled` and `hasty` are history: the form last answered "Setup saved",
and whether another was under way with it. `StartVoice` reads the files the way
the voice service does at its start; the token of the standalone image is not a
file the portal writes and is left out.

## Runs

| Run | Question |
|---|---|
| `ota_safe` | Is an update atomic, does it end, and is its verdict told? Two faults, anywhere but in the windows of the violation runs. |
| `ota_restartable` | Is an interrupted rollback taken up again until the exact release is back? Three faults, also within rollbacks; no service tolerates a mixture; some bundles do not verify. |
| `ota_chaos` | With every fault and overlap, does only verified content get in? |
| `ota_controller` | Is one verified bundle delivered at a time, never over a waiting one, and are the status frames true and in order? |
| `ring` | Does the ring agree with the voice process across lost connections and restarts, and settle on the phase that comes first? |
| `controls` | Does the microphone obey its switch whatever is lost, and does no single sample have an effect? |
| `xmos` | Does audio run on verified firmware only, do check and LED service keep off each other's transactions, and does the appliance settle, whatever fails or is killed? |
| `setup` | Does a provisioning service that starts come to Wi-Fi or to the portal, does wlan0 have one owner, is what was saved whole, and does the appliance come to use it? |
| `ota_apply_crash`, `ota_restore_crash`, `ota_push_overlap`, `xmos_spi_reopened` | expected violations, see *Findings* |

**Properties.** `CommittedImage` is the centre: whether a trial runs or not, what
the appliance has or a rollback would restore is one whole release, the one
accepted last. `Implements` says the same as a refinement of `AtomicUpdate`, where
a trial ends in the whole new release or in the old one and no other step changes
the committed image. `RollbackExact` and `AcceptedComplete` are about the moments
of the verdict, `NeverTogether` about the missing lock, `PreviousKept` about the
only copy, `OnlyVerified` about what enters. `TrialEnds`, `PendingConsumed` and
`VerdictTold` are liveness: an open trial closes, a delivered bundle does not
block later ones, and the recorded verdict is that of the release on trial.
`ReportTrue` relates the last result to the image, also after a check that was cut
short between its result and the removal of the marker; `TrialNearsVerdict` is the
safety half of `TrialEnds`: no step of a trial but a fault leads back, so the
appliance cannot boot into the same installation again. For the controller: `PendingUntouched`, `StatusGoesUp`, `LastWord`, `NothingStaged`
and `UpdateEnds`. For the LED service: `RingTold` relates its state, with the events
under way applied, to the voice process; `RingShows` relates what it shows to the
voice process at each moment it has read everything, `RingSettles` once the world rests; `SwitchTold` relates the last commands under way to
the switch, `SwitchObeyed` is the liveness behind it, and `Debounced` what a single
sample may not do. For the XMOS: `AudioVerified` relates the audio service to the
device, `SpiOwnedOnceChecked` the check to the LED service, `AnswerKept` a pending
answer to whoever waits for it; `MatchingUntouched` is an action property about
what makes the check write; `Settles` is liveness out of any wreck a killed check
leaves. For setup: `NeverBoth` and `InterfaceReturned` are about wlan0 between the
two clean-ups, `SavedWhole` relates the answer "Setup saved" to profile and files
on the card; `SetupComes`, `Joins` and `VoiceTold` are liveness: a provisioning
service that starts comes to Wi-Fi or to a portal, and what was saved gets used.
`SavedWhole` claims nothing of forms that overlap or fail, only of the next one that
is answered.

**Bounds.** Two directories and two files with the version file first: enough for
every position of a loop (first, middle, last), for a directory before and a file
after the version file, as in the standalone flavor. Two releases suffice for an
update and an update back, three with one that does not verify. `MaxFaults` is the
number of power losses and exceptions in one behaviour: one is the fault, the
second hits its repair, the third the repair of that. `Attempts = 2` has a probe
that is not the last and one that is. `ota_chaos` has one directory and one file,
since its property is per item. For the controller, three progress values, a
queue of three (a report waiting, one more, the result), and three process
starts, so that a process meets what two others have left.

`ring` has two pipeline stages, so that one follows another without an idle in
between, a timer that ticks and rings, and two events under way, the number a
connection starts with; the speaker mute behaves as the microphone's and is left
to the constant `News`. `controls` has all three controls, the code's debounce of
two and three commands under way, the most one sample can send.

`xmos` has both pollers, two tries where the code has five, two reads before and
after a write where it has twelve and forty (one that is not the last, one that
is), and four faults: enough to fail the boot check, kill the next one in its
write, restart the LED service and stall the microphone in one boot, or to
interrupt an update and boot again. `setup` has a network with and one without a
password, so forms with four and with three commands, both image flavors (two
files and four), two forms, which may overlap, and two faults, the second of
which can hit the repair of the first.

**Deadlock** is checked in the OTA runs except `ota_chaos`, where the health check
may have ended with a trial open and nothing left to start it, and in
`ota_controller` it is off because a closed process at the bound on starts rests; in `setup`
because an appliance on Wi-Fi with the bounds used up rests.

**Fairness.** Weak fairness of each process's own steps: systemd runs the
services to their end, a requested reboot happens. `UpdateEnds` assumes it of the
event loop and of the thread; each read of the download has a timeout of 90 s
(`ota.py:62`) and the size is bounded. No fairness is assumed for deliveries,
faults, cancellation or restarts. `TrialEnds` needs that the health check is not
killed, so exceptions in it are allowed in `ota_chaos` only. For the LED service
its own tasks (asyncio and one thread, all periodic) and the passing of time are
fair, and in `controls` the voice process's handling of commands; `RingSettles`
and `SwitchObeyed` assume that the world comes to rest and the connection holds. In `xmos` the check
and systemd's jobs are fair and nothing on the bus is: the LED service owes the
check nothing, and `Settles` says that only it could starve the check. In `setup`
systemd, the script, the portal's threads and NetworkManager's autoconnect are
fair, each form's thread by itself; nobody has to send a form, and `Joins` assumes
that the network stays in reach.

## Proofs

`OtaAppliance_proofs` has no assumption about the environment:

- `TypeCorrect`: the types and the ranges of the loop variables;
- `NothingUnverified`: `OnlyVerified` for any constants. The property is
  inductive once the installer's version is known to have been verified
  (`Verified`) and every item either process writes to exists (`IndexOK`).

`OtaSafety_proofs` assumes `Careful`: no power loss between the marker and the move
of the bundle, no exception in the installer's own `restore_backup`, no bundle
during a trial and no installation before the boot check has looked, and, where
services tolerate mixtures, no interrupted rollback. Each of these is a real
limit of the code rather than a convenience: dropping one of the first, the third
or the last gives one of the violation runs.

None of the properties is inductive. `Inv` adds

- `Exclusion`: which phases of the two processes go together, and what the marker
  and the pending file say in each. It stands in for the missing lock;
- `Settled` and `RollbackComplete`: without a trial the root is whole; with one,
  every file is in the rollback and every directory is there or still in place;
- `BackupProgress`, `InstallProgress`, `RestoreProgress`: how far the loops are;
- `JudgedWhole`: what the health check looks at is all of the release on trial.

`InvariantHolds` proves `TypeInv /\ Inv` inductive, one lemma per group of actions;
`RecoveredGood` and `InvImplies` derive the properties from it: `ImageCommitted`,
`PreviousIsKept`, `RollbackIsExact`, `AcceptedIsComplete`, `MutualExclusion`.
`Refinement` proves `Spec => Atomic!Spec` with `TrialSteps`: under the invariant
every step is a start, an acceptance, a rollback or a stutter of `AtomicUpdate`.
All of this holds for any number of releases, directories, files and faults, and for
`ota_restartable` too, which therefore leaves `RollbackExact` to the theorem.

`OtaTrial_proofs` adds two results under `Careful`. `ReportIsTrue` needs `Prompt`:
power does not fail, and the check is not stopped, between a rollback and its
result (with `"verdict"` in `CrashIn` TLC finds `ReportTrue` violated). Its invariant
`Reported` says whose success the last result may tell of: of the release accepted
last; of the one on trial, whose check was cut short; or of one just taken back.
`TrialsNearVerdict` orders the states of a trial by stage, by probes or items left,
and by what is left to do to the item at hand (`TrialRank`), with one lemma for each
of rollback, installation, check and reboot. What it leaves to TLC of `TrialEnds` is
that a step is always possible and gets taken.

`MicSwitch_proofs` holds for any inputs, debounce count and number of commands
under way. `SwitchTold` says what the last microphone command under way is, or,
with none, what the microphone is; with `TypeOK` it is inductive
(`SwitchInvariant`). `CommandFacts` carries it: an update's commands contain at
most one for the microphone, as their last, and one whenever the believed
position changes. `Remembered`, that the tracker's candidate is the last sample,
gives `AlwaysDebounced`.

`XmosAppliance_proofs` holds for any pollers, attempts, tries and faults. No code
excludes the LED service and the check from each other, so `XmosInv` has to say
who may run when (`Turns`), what a check knows that has come so far (`Checking`),
what the marker is worth (`Marked`), and that an answer waits for the one thread
with the lock (`Answers`). `Marked` is the heart: until the watchdog has crossed
the updater, a marker of the target means target firmware out of reset, and
without a failed check an open LED service means such a marker, at which a check
ends before it is on the bus. `XmosInvariantHolds` proves it inductive, one lemma
per group of steps.

`SetupAppliance_proofs` holds for any networks, forms and faults. `Turns` orders
the two processes of the script, `Interface` says who has wlan0 in each of their
steps, `FormDone` what the thread of a lone form has done so far, and `Kept` that
what was answered is on the card and nobody is changing it.

`OtaController_proofs` holds for any bundles, number of progress values, queue
bound and number of starts. The coroutine believes what the queue says of the
thread, so `ControllerInv` is about the queue: a thread's result is the last
callback there and nothing runs behind it (`Results`); progress reports wait in
ascending order, between what was sent and what was reported last (`Reports`); the
thread and the callbacks belong to the await at which `_run` stands, and none is
left once it has ended, unless the process is closing (`Stages`); what is staged
while a result waits is genuine, and nothing is pending (`Bundled`). The invariant
gives `ControllerTypes`, `LastWordIsTrue` and `NothingIsStaged`;
`PendingIsUntouched` and `StatusAlwaysGoesUp` look at the steps that change the
pending bundle or send a frame. Two more theorems are what `UpdateEnds` needs besides
fairness: by `ResultIsAwaited` an update that waits for its thread has one that works,
or its result in the queue; by `UpdatesNearEnd` each step of coroutine, thread and
callbacks leaves less to do, and a refused request or the installer changes nothing
about that.

`LedRing_proofs` holds for any stages, other events and number of events under way.
`RingTold` folds over those events, so its proof needs two facts of `FoldLeft`, for a
queue of any length: the fold over an appended event is that event applied last
(`FoldAppended`), and the fold over the tail starts from the head applied
(`FoldOfTail`). The library's induction theorems take a predicate and cannot be
instantiated here; `UpTo` proves the same for a set of indices, from the
well-foundedness of `<` on the naturals. With it `FoldUnfolds` and `FoldIsRun` show that
the recursive function behind `FoldLeft` exists and is the run of states that the
events lead to one by one. `Linked` adds what the service knows of its own connection;
`RingInv` is inductive (`RingInvariantHolds`). `RingAlwaysShows` then needs only that
the first claim of a state shows (`Shows`), whatever else that state holds.

Only model-checked: the liveness properties, which rest on fairness and ENABLED.

## Findings

1. `ota_apply_crash`: `apply_pending` begins by deleting the rollback directory
   (`update_installer.py:415`). After a power loss between the move of the first
   directory and the move of the bundle the path unit starts it again, and it
   deletes the only copy of the previous release. `docs/OTA.md:33` promises that
   the previous payload is kept. If that second installation then fails, or its
   release is unhealthy, nothing is left to go back to.
2. `ota_restore_crash`: after a power loss during `restore_backup` the marker and
   the new version file are still there beside old directories;
   `appliance_healthy` (`update_health.py:34-45`) looks at the version file and at
   the services and can accept the mixture: in the run one directory of the previous
   release, whole, beside the rest of the new one.
3. `ota_push_overlap`: the controller refuses a new bundle only while one is
   pending (`ota.py:145`). The marker of a trial is not looked at, so a bundle that
   arrives between the reboot and the verdict makes the installer delete the
   rollback of the running trial.

4. `xmos_spi_reopened`: the marker is written only after a check that succeeded
   (`xmos_firmware.py:156-178`), and the LED service waits for the audio unit's
   start job, which a failed check ends. The restart of the audio service two
   seconds later then runs the tool on the bus of the running LED service, which
   `docs/ARCHITECTURE.md:85-87` and the comment at `tater-sat1-audio.service:19`
   rule out. `SpiOwnedOnceChecked` holds it to boots without a failed check.
Known limits that contradict no text, and are therefore excluded from the runs or
stated in the properties:

- a power loss between the removal of the marker (`update_installer.py:393`) and
  the write of `last-failure.json` (`update_health.py:102`) rolls back without a
  verdict: with `"verdict"` in `CrashIn`, `VerdictTold` and
  `ReportTrue` fail;
- a bundle that does not verify stays pending and blocks later updates;
- a killed health check leaves the trial open until somebody reboots;
- a refused second request sends an `error` frame that looks like the running
  update's own, and progress of a second download in one process is suppressed up
  to the highest of the first;
- neither a lost connection nor a snapshot corrects the timer or the speaker mute
  the LED service remembers (`leds.py:170`, `184-188`), and a cancelled timer is
  recognised only if no other event came between its last tick and the `idle`
  (`leds.py:216`): the ring can show a timer that no longer exists until a later
  one is cancelled or has rung. `RingSettles` excepts a remembered timer;
- the watchdog restarts the audio service long after it has looked at it
  (`audio-watchdog:10-29`), also one the updater has just stopped: a check of the
  new release can then flash in the boot of the old one. Without `late` in them
  `AudioVerified` and `SpiOwnedOnceChecked` fail;
- after a failed check the LED service may clock out the answer the next check
  waits for, again and again (`Stolen` in `Settles`);
- forms that overlap mix: `nmcli` goes by the name of the profile, the temporary
  files have one name, and the restart of the first form ends a second that is
  half saved and may have deleted the profile of the first, so that "Setup saved" is
  followed by the hotspot again; a form that fails has deleted the old profile already, though
  "Setup was not saved"; if the answer cannot be sent, or the portal dies in the
  two seconds, nothing is restarted;
- the provisioning service looks for Wi-Fi once: after it has ended, a Wi-Fi that is
  lost brings no hotspot until the service starts again, at the next boot
  (`docs/ARCHITECTURE.md:51` says "at boot"). `SetupComes` is about a start;
- the hotspot does not close by itself when a known network returns, and nobody
  watches hostapd once the portal runs;
- a power loss while the first boot creates the token leaves an empty file, at
  which `ensure_private_token` (`runtime.py:40-59`) raises for good.

## Plan

Done, in this order: the update machinery with its proofs and refinement, and the
controller with its proofs; the LED service; the XMOS check with the audio and LED units and its
proofs; setup with its proofs. Left:

1. a refinement from `OtaController` to the deliveries of `OtaAppliance`;
2. `ensure_private_token` with the first boot.

## Not modelled

Frame rendering, colours, direction and playback level (floating point, read by
the ring alone), configuration parsing, the command line, diagnostics and the
build scripts: sequential code on data, without hazards a model checker reaches.
The portal's page, and the field checks that come before anything is changed. The
private token: one unit at a time creates it. The Linux Voice Assistant client, Tater,
NetworkManager and systemd are external and appear only as the calls that reach
this code and the effects of the calls it makes.

## Running

    tlc -workers 2 -config ota_safe.cfg MCOtaAppliance
    tlc -workers 2 -config ota_controller.cfg MCOtaController
    tlc -workers 2 -config ring.cfg MCLedRing
    tlc -workers 2 -config controls.cfg MCMicSwitch
    tlc -workers 2 -config xmos.cfg MCXmosAppliance
    tlc -workers 2 -config setup.cfg MCSetupAppliance
    tlapm OtaAppliance_proofs.tla
    tlapm OtaSafety_proofs.tla
    tlapm OtaTrial_proofs.tla
    tlapm OtaController_proofs.tla
    tlapm LedRing_proofs.tla
    tlapm MicSwitch_proofs.tla
    tlapm XmosAppliance_proofs.tla
    tlapm SetupAppliance_proofs.tla
