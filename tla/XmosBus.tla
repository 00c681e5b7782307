------------------------------- MODULE XmosBus -------------------------------
(***************************************************************************)
(* The XMOS controller on its SPI bus, and the threads of the LED service  *)
(* that share it (XmosPixelDriver, leds.py).  A write is one transaction.  *)
(* A read is two, a request and the one that clocks its answer out, so the *)
(* driver holds its lock over both.  The lock is the LED process's own.    *)
(***************************************************************************)
EXTENDS Naturals

CONSTANTS
  Renderer,     \* the animation thread
  Pollers,      \* threads that run a read for run_hardware_inputs
  None,         \* nobody
  MaxTransfers  \* transactions tried while the device is busy (5)

ASSUME BusAssumption ==
  /\ Renderer \notin Pollers
  /\ None \notin Pollers \union {Renderer}
  /\ MaxTransfers \in Nat \ {0}

VARIABLES
  version,  \* the firmware in the XMOS: the "target", an "other", or "none"
  held,     \* the XMOS is held in reset for flashing
  payload,  \* the answer that waits to be clocked out
  leds,     \* the LED unit: "queued", "open" or "stopped"
  lock,     \* the thread that holds XmosPixelDriver._lock
  poll,     \* the thread of the hardware task
  job       \* what each thread is doing on the bus

device  == <<version, held>>
threads == <<lock, poll, job>>
Threads == Pollers \union {Renderer}

Idle      == [op |-> "idle", step |-> "none", tries |-> 0]
DoaDue    == [op |-> "doa", step |-> "lock", tries |-> 0]
Begun(op) == [op |-> op, step |-> "send", tries |-> 0]
Jobs      == [op : {"idle", "write", "inputs", "doa"},
              step : {"none", "lock", "send", "fetch"}, tries : 0..(MaxTransfers - 1)]

BusTypeOK ==
  /\ version \in {"target", "other", "none"}
  /\ held \in BOOLEAN
  /\ payload \in {"none", "doa", "version"}
  /\ leds \in {"queued", "open", "stopped"}
  /\ lock \in Threads \union {None}
  /\ poll \in Pollers \union {None}
  /\ job \in [Threads -> Jobs]

QuietThreads ==
  /\ lock = None
  /\ poll = None
  /\ job = [t \in Threads |-> Idle]

-----------------------------------------------------------------------------
(* The device, as its users rely on it.                                    *)

Alive == ~held /\ version # "none"

\* Every transaction clocks out what was waiting.
Answer == IF Alive /\ payload = "none" THEN "status" ELSE payload

Request(what) == payload' = IF Alive THEN what ELSE "none"
ClockOut      == payload' = "none"

-----------------------------------------------------------------------------
(* XmosPixelDriver, of which one call at a time has the lock.              *)

\* XmosPixelDriver.__init__, and the task of a new connection.
OpenSpi ==
  /\ leds' = "open"
  /\ ClockOut

\* Mutant: the driver has no lock.
NoLock == TRUE

Free == lock = None

Acquire(t, op) ==
  /\ leds = "open"
  /\ Free
  /\ lock' = t
  /\ job' = [job EXCEPT ![t] = Begun(op)]
  /\ UNCHANGED <<device, payload, leds, poll>>

WriteFrame == job[Renderer] = Idle /\ Acquire(Renderer, "write")

ReadInputs(t) == poll = t /\ job[t] = Idle /\ Acquire(t, "inputs")

ReadDoa(t) == job[t].step = "lock" /\ Acquire(t, "doa")

Leave(t, next) ==
  /\ lock' = None
  /\ job' = [job EXCEPT ![t] = next]

\* The answer to write and to read_input_a is the status.  The controls are
\* polled at every turn, the direction of the voice when it is due.
Transfer(t) ==
  /\ job[t].step = "send"
  /\ job[t].op \in {"write", "inputs"}
  /\ ClockOut
  /\ \/ Leave(t, Idle)
     \/ /\ job[t].op = "inputs" /\ poll = t
        /\ Answer = "status"
        /\ Leave(t, DoaDue)
  /\ UNCHANGED <<device, leds, poll>>

SendRequest(t) ==
  /\ job[t].step = "send" /\ job[t].op = "doa"
  /\ Request("doa")
  /\ job' = [job EXCEPT ![t].step = "fetch", ![t].tries = 0]
  /\ UNCHANGED <<device, leds, lock, poll>>

FetchAnswer(t) ==
  /\ job[t].step = "fetch"
  /\ ClockOut
  /\ Leave(t, Idle)
  /\ UNCHANGED <<device, leds, poll>>

\* Mutant: one transaction more is tried.
BusyOnceMore(t) ==
  /\ job[t].step \in {"send", "fetch"}
  /\ Alive
  /\ IF job[t].tries < MaxTransfers
       THEN job' = [job EXCEPT ![t].tries = @ + 1] /\ UNCHANGED lock
       ELSE Leave(t, Idle)
  /\ UNCHANGED <<device, payload, leds, poll>>

\* The device ignores a transaction.  It is tried again, and given up.
Busy(t) ==
  /\ job[t].step \in {"send", "fetch"}
  /\ Alive
  /\ IF job[t].tries + 1 < MaxTransfers
       THEN job' = [job EXCEPT ![t].tries = @ + 1] /\ UNCHANGED lock
       ELSE Leave(t, Idle)
  /\ UNCHANGED <<device, payload, leds, poll>>

\* A connection starts a hardware task; its loss cancels the task, but not
\* the thread that is in a read.
Connect(t) ==
  /\ leds = "open" /\ poll = None
  /\ job[t] = Idle
  /\ poll' = t
  /\ UNCHANGED <<device, payload, leds, lock, job>>

Disconnect ==
  /\ poll # None
  /\ poll' = None
  /\ UNCHANGED <<device, payload, leds, lock, job>>

BusStep ==
  \/ WriteFrame \/ Disconnect
  \/ \E t \in Pollers : ReadInputs(t) \/ ReadDoa(t) \/ Connect(t)
  \/ \E t \in Threads : Transfer(t) \/ SendRequest(t) \/ FetchAnswer(t)
=============================================================================
