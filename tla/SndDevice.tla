------------------------------ MODULE SndDevice -------------------------------
(***************************************************************************)
(* virtio-snd (src/virtio/snd.rs): a playback and a capture stream.  The       *)
(* control queue, on the vCPU's thread, flips a stream's running flag and      *)
(* signals its worker; the worker takes periods off the stream's ring as the   *)
(* endpoint or the clock asks, a period possibly over several ticks, and       *)
(* RELEASE gives all of them back.                                            *)
(*                                                                         *)
(* A period is PeriodFrames frames; their contents are left out.  Each tick    *)
(* holds the stream's lock, so it is one step; the check of the running flag   *)
(* before it is another.                                                      *)
(***************************************************************************)
EXTENDS Integers, FiniteSets

CONSTANTS Streams,        \* {"out", "in"}: the playback and the capture stream
          PeriodFrames,   \* frames of a period
          MaxTick,        \* frames one tick asks for
          MaxCatchup,     \* MAX_CATCHUP_FRAMES
          MaxPeriods,     \* bound on the periods posted to a stream
          MaxControls     \* bound on control requests

SndAssumption ==
  /\ Streams \subseteq {"out", "in"}
  /\ {PeriodFrames, MaxTick, MaxCatchup} \subseteq Nat \ {0}
  /\ {MaxPeriods, MaxControls} \subseteq Nat

VARIABLES
  running, wake, stopEvt,   \* play_running and cap_running, the workers' events
  posted, taken, done,      \* a stream's ring: periods posted, popped, completed
  left,                     \* frames left of the chain in hand; 0 is cur_valid = false
  lost,                     \* history: periods in hand at a snapshot, which no restore brings back
  ready, signal,            \* the queue is ready; its interrupt is pending
  worker, pace,             \* each worker's place, and its run: "device" or "clock"
  now, consumed,            \* the run's clock and the frames handed out (playback)
  ctrl, controls,           \* the control request in progress; how many were made
  believed,                 \* the streams the guest has started
  released,                 \* the streams whose RELEASE was answered, with nothing posted since
  vm                        \* "runs", "resets", "stopping", "off" (queues disabled)

ring == <<posted, taken, done, left, lost, ready>>
clock == <<now, consumed>>
guest == <<ctrl, controls, believed, released>>
vars == <<running, wake, stopEvt, ring, signal, worker, pace, clock, guest, vm>>

Idle == <<"none", "none">>

Init ==
  /\ running = [s \in Streams |-> FALSE] /\ wake = [s \in Streams |-> FALSE] /\ stopEvt = FALSE
  /\ posted = [s \in Streams |-> 0] /\ taken = [s \in Streams |-> 0] /\ done = [s \in Streams |-> 0]
  /\ left = [s \in Streams |-> 0] /\ lost = [s \in Streams |-> 0] /\ ready = [s \in Streams |-> TRUE]
  /\ signal = [s \in Streams |-> FALSE]
  /\ worker = [s \in Streams |-> "top"] /\ pace = [s \in Streams |-> "none"]
  /\ now = 0 /\ consumed = 0
  /\ ctrl = Idle /\ controls = 0 /\ believed = {} /\ released = {} /\ vm = "runs"

Goto(s, step) == worker' = [worker EXCEPT ![s] = step]

-----------------------------------------------------------------------------
(* Taking and completing periods, under the stream's lock                  *)

\* What taking n frames does to a stream: chains popped as they are needed, each
\* completed with its last frame.
Popped(s, n) == IF n <= left[s] THEN 0 ELSE (n - left[s] + PeriodFrames - 1) \div PeriodFrames
Available(s) == left[s] + PeriodFrames * (posted[s] - taken[s])
Take(s, n) ==
  LET k == Popped(s, n)
      rest == left[s] + k * PeriodFrames - n
      held == IF left[s] > 0 THEN 1 ELSE 0
      completed == held + k - (IF rest > 0 THEN 1 ELSE 0)
  IN /\ taken' = [taken EXCEPT ![s] = @ + k]
     /\ done' = [done EXCEPT ![s] = @ + completed]
     /\ left' = [left EXCEPT ![s] = rest]
     /\ signal' = [signal EXCEPT ![s] = @ \/ completed > 0]

Least(a, b) == IF a < b THEN a ELSE b
Most(a, b) == IF a > b THEN a ELSE b

\* Faulty: the chain in hand is used whatever became of the queue.
FillUnready(s, n) == Take(s, Least(n, Available(s)))

\* fill_playback and push_capture: as many frames as there are, up to n; nothing
\* of a queue that is not ready.  A capture packet's rest is dropped, a playback
\* buffer's is silence.
Fill(s, n) ==
  IF ready[s] THEN Take(s, Least(n, Available(s)))
  ELSE UNCHANGED <<taken, done, left, signal>>

\* fill_capture_silence: the rest of one period.
FillSilence(s) ==
  IF ready[s] /\ Available(s) > 0
  THEN Take(s, IF left[s] > 0 THEN left[s] ELSE PeriodFrames)
  ELSE UNCHANGED <<taken, done, left, signal>>

\* Faulty: the chain in hand is forgotten.
FlushRing(s) ==
  /\ done' = [done EXCEPT ![s] = @ + posted[s] - taken[s]]
  /\ taken' = [taken EXCEPT ![s] = posted[s]] /\ left' = [left EXCEPT ![s] = 0]
  /\ signal' = [signal EXCEPT ![s] = @ \/ posted[s] > taken[s]]

\* flush_pcm: the chain in hand, then everything posted.
Flush(s) ==
  /\ done' = [done EXCEPT ![s] = posted[s] - lost[s]] /\ taken' = [taken EXCEPT ![s] = posted[s]]
  /\ left' = [left EXCEPT ![s] = 0]
  /\ signal' = [signal EXCEPT ![s] = @ \/ done[s] < posted[s] - lost[s]]

-----------------------------------------------------------------------------
(* play_worker and cap_worker                                              *)

\* The flag is read with the device held; not running, the worker waits for ever.
Top(s) ==
  /\ worker[s] = "top"
  /\ Goto(s, IF running[s] THEN "open" ELSE "wait")
  /\ pace' = [pace EXCEPT ![s] = "none"]
  /\ UNCHANGED <<running, wake, stopEvt, ring, signal, clock, guest, vm>>

Wait(s) ==
  /\ worker[s] = "wait" /\ (stopEvt \/ wake[s])
  /\ IF stopEvt THEN Goto(s, "exit") /\ UNCHANGED wake
     ELSE Goto(s, "top") /\ wake' = [wake EXCEPT ![s] = FALSE]
  /\ UNCHANGED <<running, stopEvt, ring, signal, pace, clock, guest, vm>>

\* Endpoint::open: with one, playback fills its buffer before the clock starts.
OpenDevice(s) ==
  /\ worker[s] = "open"
  /\ pace' = [pace EXCEPT ![s] = "device"] /\ Goto(s, "paced")
  /\ IF s = "out" THEN Fill(s, MaxTick) ELSE UNCHANGED <<taken, done, left, signal>>
  /\ UNCHANGED <<running, wake, stopEvt, posted, lost, ready, clock, guest, vm>>
\* No endpoint, a tap, or a playback endpoint lost during the run.
OpenClock(s) ==
  /\ worker[s] = "open" \/ (worker[s] = "fill" /\ s = "out" /\ pace[s] = "device")
  /\ pace' = [pace EXCEPT ![s] = "clock"] /\ Goto(s, "paced")
  /\ IF s = "out" THEN now' = 0 /\ consumed' = 0 ELSE UNCHANGED clock
  /\ UNCHANGED <<running, wake, stopEvt, ring, signal, guest, vm>>

\* The endpoint's event, the timer or a wake: the flag is read again.
Paced(s) ==
  /\ worker[s] = "paced"
  /\ IF stopEvt THEN Goto(s, "exit") ELSE Goto(s, IF running[s] THEN "fill" ELSE "top")
  /\ wake' = [wake EXCEPT ![s] = IF stopEvt THEN @ ELSE FALSE]
  /\ UNCHANGED <<running, stopEvt, ring, signal, pace, clock, guest, vm>>

TickDevice(s, n) ==
  /\ worker[s] = "fill" /\ pace[s] = "device"
  /\ Fill(s, n) /\ Goto(s, "paced")
  /\ UNCHANGED <<running, wake, stopEvt, posted, lost, ready, pace, clock, guest, vm>>

\* clock_due: the frames since the last tick; after a stall the oldest are skipped.
TickClock ==
  /\ "out" \in Streams /\ worker["out"] = "fill" /\ pace["out"] = "clock"
  /\ LET first == Most(consumed, Most(0, now - MaxCatchup)) IN Fill("out", now - first)
  /\ consumed' = Most(consumed, now) /\ Goto("out", "paced")
  /\ UNCHANGED <<running, wake, stopEvt, posted, lost, ready, pace, now, guest, vm>>
TickSilence ==
  /\ "in" \in Streams /\ worker["in"] = "fill" /\ pace["in"] = "clock"
  /\ FillSilence("in") /\ Goto("in", "paced")
  /\ UNCHANGED <<running, wake, stopEvt, posted, lost, ready, pace, clock, guest, vm>>

Elapse ==
  /\ "out" \in Streams /\ worker["out"] = "paced" /\ pace["out"] = "clock" /\ now < MaxTick
  /\ now' = now + 1
  /\ UNCHANGED <<running, wake, stopEvt, ring, signal, worker, pace, consumed, guest, vm>>

-----------------------------------------------------------------------------
(* The control queue: process_ctrl                                         *)

Wake(s) == wake' = [wake EXCEPT ![s] = TRUE]

\* Faulty: the worker is not told.
StartSilent(s) ==
  /\ vm = "runs" /\ ctrl = Idle /\ controls < MaxControls
  /\ running' = [running EXCEPT ![s] = TRUE] /\ UNCHANGED wake
  /\ controls' = controls + 1 /\ believed' = believed \cup {s} /\ released' = released \ {s}
  /\ UNCHANGED <<stopEvt, ring, signal, worker, pace, clock, ctrl, vm>>

\* do_start.
Start(s) ==
  /\ vm = "runs" /\ ctrl = Idle /\ controls < MaxControls
  /\ running' = [running EXCEPT ![s] = TRUE] /\ Wake(s)
  /\ controls' = controls + 1 /\ believed' = believed \cup {s} /\ released' = released \ {s}
  /\ UNCHANGED <<stopEvt, ring, signal, worker, pace, clock, ctrl, vm>>
\* do_stop.
Stop(s) ==
  /\ vm = "runs" /\ ctrl = Idle /\ controls < MaxControls /\ s \in believed
  /\ running' = [running EXCEPT ![s] = FALSE] /\ Wake(s)
  /\ controls' = controls + 1 /\ believed' = believed \ {s}
  /\ UNCHANGED <<stopEvt, ring, signal, worker, pace, clock, ctrl, released, vm>>
\* do_release: the flag and the event, then flush_pcm and the answer.
Release(s) ==
  /\ vm = "runs" /\ ctrl = Idle /\ controls < MaxControls
  /\ running' = [running EXCEPT ![s] = FALSE] /\ Wake(s)
  /\ controls' = controls + 1 /\ believed' = believed \ {s} /\ ctrl' = <<"release", s>>
  /\ UNCHANGED <<stopEvt, ring, signal, worker, pace, clock, released, vm>>
ReleaseFlush(s) ==
  /\ ctrl = <<"release", s>>
  /\ Flush(s) /\ ctrl' = Idle /\ released' = released \cup {s}
  /\ UNCHANGED <<running, wake, stopEvt, posted, lost, ready, worker, pace, clock, controls, believed, vm>>

\* The guest (external) queues periods, before START too, and notifies.
PostPeriod(s) ==
  /\ vm = "runs" /\ ctrl = Idle /\ posted[s] < MaxPeriods /\ ready[s]
  /\ posted' = [posted EXCEPT ![s] = @ + 1] /\ Wake(s) /\ released' = released \ {s}
  /\ UNCHANGED <<running, stopEvt, taken, done, left, lost, ready, signal, worker, pace, clock,
                 ctrl, controls, believed, vm>>

-----------------------------------------------------------------------------
(* Reset, teardown, snapshot                                               *)

Reset ==
  /\ vm = "runs" /\ ctrl = Idle /\ controls < MaxControls
  /\ vm' = "resets" /\ controls' = controls + 1
  /\ running' = [s \in Streams |-> FALSE] /\ wake' = [s \in Streams |-> TRUE]
  /\ believed' = {} /\ released' = {}
  /\ UNCHANGED <<stopEvt, ring, signal, worker, pace, clock, ctrl>>

\* Each queue under its lock, the chain in hand with it.
ResetQueue(s) ==
  /\ vm = "resets" /\ ready[s]
  /\ ready' = [ready EXCEPT ![s] = FALSE]
  /\ posted' = [posted EXCEPT ![s] = 0] /\ taken' = [taken EXCEPT ![s] = 0] /\ lost' = [lost EXCEPT ![s] = 0]
  /\ done' = [done EXCEPT ![s] = 0] /\ left' = [left EXCEPT ![s] = 0]
  /\ UNCHANGED <<running, wake, stopEvt, signal, worker, pace, clock, guest, vm>>
Enable ==
  /\ vm = "resets" /\ \A s \in Streams: ~ready[s]
  /\ vm' = "runs" /\ ready' = [s \in Streams |-> TRUE]
  /\ UNCHANGED <<running, wake, stopEvt, posted, taken, done, left, lost, signal, worker, pace, clock, guest>>

\* PciTransport::stop disables the queues one by one; then guest RAM is freed.
\* The workers go on until the device is dropped.
Teardown ==
  /\ vm = "runs" /\ ctrl = Idle
  /\ vm' = "stopping"
  /\ UNCHANGED <<running, wake, stopEvt, ring, signal, worker, pace, clock, guest>>
DisableQueue(s) ==
  /\ vm = "stopping" /\ ready[s]
  /\ ready' = [ready EXCEPT ![s] = FALSE]
  /\ vm' = (IF \A r \in Streams \ {s}: ~ready[r] THEN "off" ELSE vm)
  /\ UNCHANGED <<running, wake, stopEvt, posted, taken, done, left, lost, signal, worker, pace, clock, guest>>
\* SndDevice::drop.
Drop ==
  /\ vm = "off" /\ ~stopEvt
  /\ stopEvt' = TRUE /\ wake' = [s \in Streams |-> TRUE]
  /\ UNCHANGED <<running, ring, signal, worker, pace, clock, guest, vm>>

\* capture_queue and apply_queue in another process: the rings' positions survive,
\* the chain in hand (cur_valid) and the running flags do not.
Restore ==
  /\ vm = "runs" /\ ctrl = Idle
  /\ lost' = [s \in Streams |-> lost[s] + IF left[s] > 0 THEN 1 ELSE 0]
  /\ left' = [s \in Streams |-> 0] /\ running' = [s \in Streams |-> FALSE]
  /\ wake' = [s \in Streams |-> FALSE]
  /\ worker' = [s \in Streams |-> "top"] /\ pace' = [s \in Streams |-> "none"]
  /\ UNCHANGED <<stopEvt, posted, taken, done, ready, signal, clock, guest, vm>>

\* The guest takes the interrupt.
TakeIrq(s) ==
  /\ signal[s] /\ signal' = [signal EXCEPT ![s] = FALSE]
  /\ UNCHANGED <<running, wake, stopEvt, ring, worker, pace, clock, guest, vm>>

-----------------------------------------------------------------------------
WorkerStep(s) == Top(s) \/ Wait(s) \/ OpenDevice(s) \/ OpenClock(s) \/ Paced(s)
                 \/ \E n \in 1..MaxTick: TickDevice(s, n)
Control(s) == Start(s) \/ Stop(s) \/ Release(s) \/ ReleaseFlush(s) \/ PostPeriod(s)
Next == \/ \E s \in Streams: WorkerStep(s) \/ Control(s) \/ ResetQueue(s) \/ DisableQueue(s) \/ TakeIrq(s)
        \/ TickClock \/ TickSilence \/ Elapse
        \/ Reset \/ Enable \/ Teardown \/ Drop \/ Restore

Spec == Init /\ [][Next]_vars

-----------------------------------------------------------------------------
(* Properties                                                              *)

TypeOK ==
  \A s \in Streams:
    /\ posted[s] \in 0..MaxPeriods /\ taken[s] \in 0..posted[s] /\ done[s] \in 0..taken[s]
    /\ left[s] \in 0..PeriodFrames

\* No worker sleeps through a START, and a RELEASE answers for every period: a
\* worker that waits for ever has its event set if its stream runs; a period taken
\* off the ring and not completed is the one in hand, or was when a snapshot was
\* taken; and a stream released holds no other, so that the guest's sync_stop ends
\* ("the device completes all pending I/O messages"), whatever the worker was doing
\* between its look at the flag and its tick.
StreamsAnswer ==
  \A s \in Streams:
    /\ worker[s] = "wait" /\ running[s] => wake[s]
    /\ taken[s] - done[s] = lost[s] + (IF left[s] > 0 THEN 1 ELSE 0)
    /\ s \in released => done[s] = posted[s] - lost[s]

\* Guest RAM is freed once the queues are disabled, though the workers still run
\* (ReleaseBeforeTeardown): no worker moves a period from then on.
OffStep == vm = "off" => UNCHANGED <<taken, done, left>>
OffIsUntouched == [][OffStep]_vars
=============================================================================
