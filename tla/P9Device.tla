------------------------------ MODULE P9Device -------------------------------
(***************************************************************************)
(* virtio-9p (src/virtio/p9.rs) as a queue of requests: the doorbell pump   *)
(* takes them off the ring into slots and runs a lone one itself, workers   *)
(* fed through a completion port run the others; against a reset, the       *)
(* snapshot that main.rs writes and the teardown that follows.              *)
(*                                                                         *)
(* A request is <<epoch, n>>: the n-th of the driver's life number epoch.   *)
(* What a request does is left out; notification suppression is in          *)
(* Virtqueue, so here every publish kicks and every reply interrupts.       *)
(***************************************************************************)
EXTENDS Integers, Sequences, FiniteSets

CONSTANTS Slots,      \* the pool, as many as the ring has entries
          Workers,    \* threads of the pool
          MaxPosts,   \* bound on the requests of a driver's life
          MaxIndex,   \* bound on the ring positions
          MaxResets,  \* bound on resets
          Patient     \* requests in flight end within quiesce's patience

\* What the constants stand for.
P9Assumption ==
  /\ IsFiniteSet(Slots) /\ Slots # {} /\ MaxPosts \in Nat /\ MaxResets \in Nat
  /\ MaxIndex \in Nat /\ MaxIndex >= MaxPosts /\ "pump" \notin Workers
  /\ "none" \notin Slots
  /\ Patient \in BOOLEAN

Pump == "pump"
Runners == Workers \cup {Pump}
NoSlot == "none"
\* The entry of a ring position that nobody has published in this life.
Garbage(e) == <<e, 0>>
NoRequest == <<0, 0>>

VARIABLES
  avail, used,                  \* guest RAM: requests published, the used ring
  reaped, irq,                  \* the driver: replies taken; an interrupt is pending
  drv, epoch,                   \* "ok", or "fresh" after a reset it has read as done
  ready, last_avail, last_used, \* struct Virtqueue
  event,                        \* the doorbell's auto-reset event
  chain,                        \* the request drain_chain holds
  free, slot, port,             \* the pool, the slots' requests, the completion port
  pc, at,                       \* per thread: its place, and the slot it owns
  exhausted,                    \* an acquire has failed
  vm

guest == <<avail, reaped, drv, epoch>>
queue == <<ready, last_avail, last_used>>
pool == <<free, slot, port>>
vars == <<guest, used, irq, queue, event, chain, pool, pc, at, exhausted, vm>>

Init ==
  /\ avail = 0 /\ used = <<>> /\ reaped = 0 /\ irq = FALSE
  /\ drv = "ok" /\ epoch = 0
  /\ ready = TRUE /\ last_avail = 0 /\ last_used = 0
  /\ event = FALSE /\ chain = NoRequest
  /\ free = Slots /\ slot = [s \in Slots |-> NoRequest] /\ port = <<>>
  /\ pc = [t \in Runners |-> "idle"] /\ at = [t \in Runners |-> NoSlot]
  /\ exhausted = FALSE /\ vm = "runs"

Goto(t, step) == pc' = [pc EXCEPT ![t] = step]

-----------------------------------------------------------------------------
(* The driver (external)                                                   *)

\* A request needs a free entry of the ring, which holds as many as the pool.
Post ==
  /\ vm = "runs" /\ drv = "ok"
  /\ avail < MaxPosts /\ avail - reaped < Cardinality(Slots)
  /\ avail' = avail + 1 /\ event' = TRUE
  /\ UNCHANGED <<used, reaped, irq, drv, epoch, queue, chain, pool, pc, at, exhausted, vm>>

TakeIrq ==
  /\ vm = "runs" /\ irq
  /\ irq' = FALSE
  /\ reaped' = IF drv = "ok" THEN Len(used) ELSE reaped
  /\ UNCHANGED <<avail, used, drv, epoch, queue, event, chain, pool, pc, at, exhausted, vm>>

\* P9Device::reset forgets the fids; the queue and what the workers do stay as
\* they are.  reset_pending is the trait's default, so the driver reads the reset
\* as done at once and takes its rings back, which then read as zeros.
Reset ==
  /\ vm = "runs" /\ drv = "ok" /\ epoch < MaxResets
  /\ drv' = "fresh" /\ epoch' = epoch + 1
  /\ avail' = 0 /\ used' = <<>> /\ reaped' = 0
  /\ UNCHANGED <<irq, queue, event, chain, pool, pc, at, exhausted, vm>>

\* enable_queue: new rings, the old positions.
EnableQueue ==
  /\ vm = "runs" /\ drv = "fresh"
  /\ drv' = "ok" /\ ready' = TRUE
  /\ used' = <<>>
  /\ UNCHANGED <<avail, reaped, irq, epoch, last_avail, last_used, event, chain, pool, pc, at, exhausted, vm>>

-----------------------------------------------------------------------------
(* drain and submit_available, on the doorbell pump                        *)

Wake ==
  /\ pc[Pump] = "idle" /\ event
  /\ event' = FALSE
  /\ Goto(Pump, "drain")
  /\ UNCHANGED <<guest, used, irq, queue, chain, pool, at, exhausted, vm>>

\* Under the queue lock.
Pop ==
  /\ pc[Pump] = "drain"
  /\ IF ready /\ last_avail # avail
     THEN /\ last_avail < MaxIndex
          /\ chain' = IF last_avail < avail THEN <<epoch, last_avail + 1>> ELSE Garbage(epoch)
          /\ last_avail' = last_avail + 1
          /\ Goto(Pump, "acquire")
     ELSE Goto(Pump, "poll") /\ UNCHANGED <<chain, last_avail>>
  /\ UNCHANGED <<guest, used, irq, ready, last_used, event, pool, at, exhausted, vm>>

\* PollWindow::poll: for a while after a drain the pump looks at the ring without
\* having been kicked.
Poll ==
  /\ pc[Pump] = "poll"
  /\ \/ ready /\ last_avail # avail /\ Goto(Pump, "drain")
     \/ Goto(Pump, "idle")
  /\ UNCHANGED <<guest, used, irq, queue, event, chain, pool, at, exhausted, vm>>

\* The chain is copied into the slot and not looked at again.
Fill(s) == /\ free' = free \ {s}
           /\ slot' = [slot EXCEPT ![s] = chain]
           /\ chain' = NoRequest

\* A lone request, or one that cannot be posted, is run on the pump.
Submit(s) ==
  /\ pc[Pump] = "acquire" /\ s \in free
  /\ Fill(s)
  /\ \/ Goto(Pump, "run") /\ at' = [at EXCEPT ![Pump] = s] /\ UNCHANGED port
     \/ Goto(Pump, "drain") /\ port' = Append(port, s) /\ UNCHANGED at
  /\ UNCHANGED <<guest, used, irq, queue, event, exhausted, vm>>

\* Faulty: the position in the used ring does not move on.
PushUsedInPlace(r) ==
  /\ used' = [i \in 1..(last_used + 1) |->
                IF i = last_used + 1 THEN r
                ELSE IF i <= Len(used) THEN used[i] ELSE Garbage(epoch)]
  /\ UNCHANGED last_used

\* Faulty: the element is counted twice.
PushUsedTwice(r) ==
  /\ used' = [i \in 1..(last_used + 2) |->
                IF i > last_used THEN r
                ELSE IF i <= Len(used) THEN used[i] ELSE Garbage(epoch)]
  /\ last_used' = last_used + 2

\* push: a ring position that the driver has not got to reads as garbage.
PushUsed(r) ==
  /\ used' = [i \in 1..(last_used + 1) |->
                IF i = last_used + 1 THEN r
                ELSE IF i <= Len(used) THEN used[i] ELSE Garbage(epoch)]
  /\ last_used' = last_used + 1

\* No slot is free: the request is retired unanswered and the drain ends, with
\* whatever else is on the ring left to the poll or to the next kick.
Exhausted ==
  /\ pc[Pump] = "acquire" /\ free = {}
  /\ PushUsed(chain)
  /\ chain' = NoRequest /\ exhausted' = TRUE
  /\ Goto(Pump, "giveup")
  /\ UNCHANGED <<guest, irq, ready, last_avail, event, pool, at, vm>>

GiveUp ==
  /\ pc[Pump] = "giveup"
  /\ irq' = TRUE
  /\ Goto(Pump, "poll")
  /\ UNCHANGED <<guest, used, queue, event, chain, pool, at, exhausted, vm>>

-----------------------------------------------------------------------------
(* complete_slot, on a worker or on the pump                               *)

Get(w) ==
  /\ pc[w] = "idle" /\ port # <<>>
  /\ at' = [at EXCEPT ![w] = Head(port)] /\ port' = Tail(port)
  /\ Goto(w, "run")
  /\ UNCHANGED <<guest, used, irq, queue, event, chain, free, slot, exhausted, vm>>

\* Faulty: the slot goes back to the pool before the reply is on the ring.
PushAfterRelease(t) ==
  /\ pc[t] = "run"
  /\ PushUsed(slot[at[t]])
  /\ free' = free \cup {at[t]}
  /\ Goto(t, "release")
  /\ UNCHANGED <<guest, irq, ready, last_avail, event, chain, slot, port, at, exhausted, vm>>

\* The handler has run and its reply is in the guest's buffers: the used ring,
\* under the queue lock.
Push(t) ==
  /\ pc[t] = "run"
  /\ PushUsed(slot[at[t]])
  /\ Goto(t, "release")
  /\ UNCHANGED <<guest, irq, ready, last_avail, event, chain, pool, at, exhausted, vm>>

Release(t) ==
  /\ pc[t] = "release"
  /\ free' = free \cup {at[t]}
  /\ slot' = [slot EXCEPT ![at[t]] = NoRequest]
  /\ at' = [at EXCEPT ![t] = NoSlot]
  /\ Goto(t, "raise")
  /\ UNCHANGED <<guest, used, irq, queue, event, chain, port, exhausted, vm>>

\* Faulty: the pump waits for the next doorbell once it has run a request.
RaiseAndWait(t) ==
  /\ pc[t] = "raise"
  /\ irq' = TRUE
  /\ Goto(t, "idle")
  /\ UNCHANGED <<guest, used, queue, event, chain, pool, at, exhausted, vm>>

Raise(t) ==
  /\ pc[t] = "raise"
  /\ irq' = TRUE
  /\ Goto(t, IF t = Pump THEN "drain" ELSE "idle")
  /\ UNCHANGED <<guest, used, queue, event, chain, pool, at, exhausted, vm>>

-----------------------------------------------------------------------------
(* Snapshot and teardown, on the main thread                               *)

Phase(from, to) == vm \in from /\ vm' = to
Still == UNCHANGED <<guest, used, irq, queue, event, chain, pool, pc, at, exhausted>>

JoinVcpus == Phase({"runs"}, "joined") /\ Still

\* P9Device::quiesce waits for the free list to fill up, or gives up; the
\* snapshot is written either way.
Quiesce == Phase({"joined"}, "quiesced") /\ (free = Slots \/ ~Patient) /\ Still

\* write_snapshot: the vCPUs with their APICs, the devices, and RAM last.
CaptureVcpus == Phase({"quiesced"}, "vcpus") /\ Still
CaptureDevice == Phase({"vcpus"}, "device") /\ Still
CaptureRam == Phase({"device"}, "saved") /\ Still

\* Faulty: the transport does not wait for its pump.
StopAtOnce ==
  /\ Phase({"joined", "saved"}, "stopped")
  /\ ready' = FALSE
  /\ UNCHANGED <<guest, used, irq, last_avail, last_used, event, chain, pool, pc, at, exhausted>>

\* ReleaseBeforeTeardown: PciTransport::stop joins the pump and disables the
\* queue.
StopTransport ==
  /\ Phase({"joined", "saved"}, "stopped") /\ pc[Pump] = "idle"
  /\ Goto(Pump, "ended") /\ ready' = FALSE
  /\ UNCHANGED <<guest, used, irq, last_avail, last_used, event, chain, pool, at, exhausted>>

\* RAM is freed only where quiesce saw every slot come back.
ReleaseRam == Phase({"stopped"}, "released") /\ free = Slots /\ Still
KeepRam == Phase({"stopped"}, "kept") /\ free # Slots /\ Still

-----------------------------------------------------------------------------
CompleteSlot(t) == Push(t) \/ Release(t) \/ Raise(t)
PumpStep == \/ Wake \/ Pop \/ Poll \/ (\E s \in Slots: Submit(s)) \/ Exhausted \/ GiveUp
            \/ CompleteSlot(Pump)
WorkerStep(w) == Get(w) \/ CompleteSlot(w)
Guest == Post \/ TakeIrq \/ Reset \/ EnableQueue
Main == \/ JoinVcpus \/ Quiesce \/ CaptureVcpus \/ CaptureDevice \/ CaptureRam
        \/ StopTransport \/ ReleaseRam \/ KeepRam

Next == PumpStep \/ (\E w \in Workers: WorkerStep(w)) \/ Guest \/ Main

Spec == Init /\ [][Next]_vars

-----------------------------------------------------------------------------
(* Properties                                                              *)

Requests == (0..MaxResets) \X (0..MaxPosts)

TypeOK ==
  /\ avail \in 0..MaxPosts /\ reaped \in 0..MaxIndex
  /\ Len(used) \in 0..MaxIndex /\ \A i \in 1..Len(used): used[i] \in Requests
  /\ {irq, ready, event, exhausted} \subseteq BOOLEAN
  /\ drv \in {"ok", "fresh"} /\ epoch \in 0..MaxResets
  /\ last_avail \in 0..MaxIndex /\ last_used \in 0..last_avail
  /\ chain \in Requests /\ slot \in [Slots -> Requests]
  /\ free \subseteq Slots /\ \A i \in 1..Len(port): port[i] \in Slots
  /\ at \in [Runners -> Slots \cup {NoSlot}]
  /\ \A w \in Workers: pc[w] \in {"idle", "run", "release", "raise"}
  /\ pc \in [Runners -> {"idle", "drain", "poll", "acquire", "giveup", "run", "release", "raise", "ended"}]
  /\ vm \in {"runs", "joined", "quiesced", "vcpus", "device", "saved", "stopped", "released", "kept"}

Owns(t) == IF at[t] = NoSlot THEN {} ELSE {at[t]}
Posted == {port[i]: i \in 1..Len(port)}

\* "No two threads ever touch the same slot at once" (P9Slot): a slot is free,
\* in the port or a thread's, exactly one of these, whatever the guest resets.
LinearOwnership ==
  /\ Cardinality(Posted) = Len(port)
  /\ free \cap Posted = {} /\ \A t \in Runners: Owns(t) \cap (free \cup Posted) = {}
  /\ \A t, u \in Runners: t # u => Owns(t) \cap Owns(u) = {}
  /\ Slots = free \cup Posted \cup UNION {Owns(t): t \in Runners}

Unanswered ==
  (IF pc[Pump] = "acquire" THEN {chain} ELSE {})
  \cup {slot[s]: s \in Posted}
  \cup {slot[at[t]]: t \in {u \in Runners: pc[u] = "run"}}
Answered == {used[i]: i \in 1..Len(used)}

\* Until the first reset, a request taken off the ring is in the device's hands
\* or on the used ring, never both, and is on the used ring once: replies are
\* neither lost nor repeated on any of the ways a request can take.
EachAnsweredOnce ==
  epoch = 0 =>
    /\ Unanswered \cap Answered = {}
    /\ Unanswered \cup Answered = {<<0, n>>: n \in 1..last_avail}
    /\ Cardinality(Answered) = Len(used)

\* Guest RAM is freed only when nothing is left that would write to it: no
\* request is held and no thread is on its way to take one
\* (ReleaseBeforeTeardown).
ReleasedIsUntouched ==
  vm = "released" => Unanswered = {} /\ pc[Pump] = "ended" /\ ~ready

\* The three together: what the pool and its threads promise.
P9Safe == TypeOK /\ LinearOwnership /\ EachAnsweredOnce /\ ReleasedIsUntouched

\* Nothing sweeps the ring or repeats an interrupt: until a reset or the pool
\* running dry, a pump that sleeps has left nothing on the ring it was not kicked
\* for since, and a reply the driver has not taken has an interrupt pending or a
\* thread about to raise it.
NothingStrands ==
  epoch = 0 /\ ~exhausted =>
    /\ pc[Pump] = "idle" /\ ~event => last_avail = avail
    /\ reaped < Len(used) => irq \/ \E t \in Runners: pc[t] \in {"release", "raise"}

\* "An acquire can never fail (the guest cannot have more requests in flight
\* than the ring holds)" (SlotPool).
AcquireNeverFails == ~exhausted

\* "A status write of 0 is a full reset", and the status keeps its old value
\* until requests in flight have settled (INTERNALS.md): a driver that reads the
\* reset as done finds the ring position reset and none of its old requests
\* running.
ResetIsFull == drv = "fresh" => last_avail = 0 /\ Unanswered = {}

\* "No late frame or 9p reply mutates a ring or guest RAM after it has been
\* captured" (INTERNALS.md): from the device's section to the end of RAM's, the
\* ring and the device's positions in it stay as they are.
CapturedIsStill ==
  [][vm = "device" => UNCHANGED <<used, last_avail, last_used>>]_vars
=============================================================================
