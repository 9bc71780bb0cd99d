----------------------------- MODULE Virtqueue ------------------------------
(***************************************************************************)
(* The split virtqueue of src/virtio/queue.rs and the doorbell pump that   *)
(* drains it (src/virtio/transport.rs), run against a Linux-style driver.  *)
(*                                                                         *)
(* Ring indices are unsigned and wrap at W (2^16 in the code).  The queue  *)
(* mutex is `lock'; a step of a device thread is one access to shared      *)
(* guest memory, or a block of accesses whose order nobody can observe.    *)
(* A store the device makes to avail_event or used.idx may linger in the   *)
(* store buffer of its CPU: storedEvent and storedUsed are the newest      *)
(* values stored, availEvent and usedIdx what the guest can read, and a    *)
(* full fence waits until they agree.  The driver executes a full barrier  *)
(* between its own store and load, so its stores are visible at once.      *)
(***************************************************************************)
EXTENDS Integers, Sequences, FiniteSets, TLC

CONSTANTS
  W,              \* index modulus
  Size,           \* queue size
  Threads,        \* host threads that retire requests (IOCP worker, pump, ...)
  MaxUnsignaled,  \* most used elements pushed between two interrupt decisions
  NoThread,
  Pump            \* the lock owner standing for the doorbell pump

ASSUME SizeAssumption == Size \in Nat \ {0} /\ W \in Nat /\ 2 * Size <= W
ASSUME RingAssumption == W % Size = 0     \* the transport takes powers of two only
ASSUME BatchAssumption == MaxUnsignaled \in 1..W
ASSUME ThreadAssumption == Pump \notin Threads /\ NoThread \notin Threads \cup {Pump}

Index == 0..(W - 1)
Slot == 0..(Size - 1)
Heads == 0..(Size - 1)

\* Faulty: the increment does not wrap.
IncNoWrap(i) == i + 1

\* u16::wrapping_add(1) and u16::wrapping_sub
Inc(i) == IF i = W - 1 THEN 0 ELSE i + 1
Sub(a, b) == IF a >= b THEN a - b ELSE a - b + W

VARIABLES
  \* guest memory
  availIdx, availRing, usedIdx, usedRing, availEvent, usedEvent, noInterrupt,
  \* struct Virtqueue, and the newest values it stored in guest memory
  last_avail, last_used_idx, last_used_signaled, event_idx, storedEvent, storedUsed,
  \* device threads
  lock, pump, thr, inflight, doorbell, irq,
  \* the driver: free heads, avail.idx at its last kick decision, the next
  \* used element to reap, and what its interrupt side is doing
  free, kickedAt, reaped, cb

memory == <<availIdx, availRing, usedIdx, usedRing, availEvent, usedEvent, noInterrupt>>
queue  == <<last_avail, last_used_idx, last_used_signaled, event_idx, storedEvent, storedUsed>>
device == <<lock, pump, thr, inflight, doorbell, irq>>
driver == <<free, kickedAt, reaped, cb>>
vars   == <<memory, queue, device, driver>>

Init ==
  /\ availIdx = 0 /\ usedIdx = 0 /\ availEvent = 0 /\ usedEvent = 0
  /\ availRing = [s \in Slot |-> 0]
  /\ usedRing = [s \in Slot |-> 0]
  /\ noInterrupt = FALSE
  /\ last_avail = 0 /\ last_used_idx = 0 /\ last_used_signaled = 0
  /\ event_idx \in BOOLEAN
  /\ storedEvent = 0 /\ storedUsed = 0
  /\ lock = NoThread /\ pump = "wait" /\ thr = [t \in Threads |-> "idle"]
  /\ inflight = {} /\ doorbell = FALSE /\ irq = FALSE
  /\ free = Heads /\ kickedAt = 0 /\ reaped = 0 /\ cb = "sleep"

-----------------------------------------------------------------------------
(* The device.                                                             *)

\* fence(SeqCst): both stores have left the store buffer.
Fenced == storedEvent = availEvent /\ storedUsed = usedIdx

\* The store buffer drains, one location at a time.  The used element itself
\* is written through: the release fence in publish_used keeps it ahead of
\* used.idx, the only way the driver learns of it.
DrainEvent ==
  /\ storedEvent # availEvent
  /\ availEvent' = storedEvent
  /\ UNCHANGED <<availIdx, availRing, usedIdx, usedRing, usedEvent, noInterrupt,
                 queue, device, driver>>

DrainUsed ==
  /\ storedUsed # usedIdx
  /\ usedIdx' = storedUsed
  /\ UNCHANGED <<availIdx, availRing, availEvent, usedRing, usedEvent, noInterrupt,
                 queue, device, driver>>

\* doorbell_pump: WaitForMultipleObjects consumes the auto-reset event.
Wake ==
  /\ pump = "wait"
  /\ doorbell
  /\ doorbell' = FALSE
  /\ pump' = "drain"
  /\ UNCHANGED <<lock, thr, inflight, irq, memory, queue, driver>>

\* The body of pop_into once avail.idx differs from last_avail: take the entry
\* at last_avail and publish the new avail_event.
TakeEntry ==
  LET head == availRing[last_avail % Size] IN
  /\ inflight' = inflight \cup {head}
  /\ last_avail' = Inc(last_avail)
  /\ storedEvent' = IF event_idx THEN Inc(last_avail) ELSE storedEvent
  /\ pump' = "drain"
  /\ lock' = NoThread

\* pop_into finds an entry.
PopTake ==
  /\ pump = "drain" /\ lock = NoThread
  /\ availIdx # last_avail
  /\ TakeEntry
  /\ UNCHANGED <<last_used_idx, last_used_signaled, event_idx, storedUsed,
                 thr, doorbell, irq, memory, driver>>

\* pop_into finds the ring empty.  With EVENT_IDX it stores avail_event and
\* keeps the lock for the re-check; without it the drain ends.
PopEmpty ==
  /\ pump = "drain" /\ lock = NoThread
  /\ availIdx = last_avail
  /\ IF event_idx
     THEN pump' = "arm" /\ lock' = Pump /\ storedEvent' = last_avail
     ELSE pump' = "poll" /\ UNCHANGED <<lock, storedEvent>>
  /\ UNCHANGED <<last_avail, last_used_idx, last_used_signaled, event_idx, storedUsed,
                 thr, inflight, doorbell, irq, memory, driver>>

\* Faulty: arm_kick_and_recheck without its fence.
RecheckUnfenced ==
  /\ pump = "arm"
  /\ IF availIdx = last_avail
     THEN pump' = "poll" /\ lock' = NoThread /\ UNCHANGED <<last_avail, storedEvent, inflight>>
     ELSE TakeEntry
  /\ UNCHANGED <<last_used_idx, last_used_signaled, event_idx, storedUsed,
                 thr, doorbell, irq, memory, driver>>

\* arm_kick_and_recheck after its fence: look at avail.idx again.
Recheck ==
  /\ pump = "arm"
  /\ Fenced
  /\ IF availIdx = last_avail
     THEN pump' = "poll" /\ lock' = NoThread /\ UNCHANGED <<last_avail, storedEvent, inflight>>
     ELSE TakeEntry
  /\ UNCHANGED <<last_used_idx, last_used_signaled, event_idx, storedUsed,
                 thr, doorbell, irq, memory, driver>>

\* PollWindow::poll: queue_has_work found an entry, or the queue lock taken by a
\* completion; or the window expired (at once when its length is zero).
PollHit ==
  /\ pump = "poll"
  /\ availIdx # last_avail \/ lock # NoThread
  /\ pump' = "drain"
  /\ UNCHANGED <<lock, thr, inflight, doorbell, irq, memory, queue, driver>>

PollExpire ==
  /\ pump = "poll"
  /\ pump' = "wait"
  /\ UNCHANGED <<lock, thr, inflight, doorbell, irq, memory, queue, driver>>

\* Faulty: the element goes where the published index points, not past the
\* elements already added.
AddUsedAtPublished(t, h) ==
  /\ h \in inflight
  /\ lock \in {NoThread, t} /\ (lock = t <=> thr[t] = "adding")
  /\ Sub(last_used_idx, last_used_signaled) < MaxUnsignaled
  /\ lock' = t
  /\ thr' = [thr EXCEPT ![t] = "adding"]
  /\ usedRing' = [usedRing EXCEPT ![storedUsed % Size] = h]
  /\ last_used_idx' = Inc(last_used_idx)
  /\ inflight' = inflight \ {h}
  /\ UNCHANGED <<availIdx, availRing, usedIdx, availEvent, usedEvent, noInterrupt,
                 last_avail, last_used_signaled, event_idx, storedEvent, storedUsed,
                 pump, doorbell, irq, driver>>

\* add_used: write an element, not visible yet.  A drain may retire many
\* requests before it decides about the interrupt.
AddUsed(t, h) ==
  /\ h \in inflight
  /\ lock \in {NoThread, t} /\ (lock = t <=> thr[t] = "adding")
  /\ Sub(last_used_idx, last_used_signaled) < MaxUnsignaled
  /\ lock' = t
  /\ thr' = [thr EXCEPT ![t] = "adding"]
  /\ usedRing' = [usedRing EXCEPT ![last_used_idx % Size] = h]
  /\ last_used_idx' = Inc(last_used_idx)
  /\ inflight' = inflight \ {h}
  /\ UNCHANGED <<availIdx, availRing, usedIdx, availEvent, usedEvent, noInterrupt,
                 last_avail, last_used_signaled, event_idx, storedEvent, storedUsed,
                 pump, doorbell, irq, driver>>

\* publish_used: store used.idx after the elements.
PublishUsed(t) ==
  /\ thr[t] = "adding"
  /\ storedUsed' = last_used_idx
  /\ thr' = [thr EXCEPT ![t] = "published"]
  /\ lock' = NoThread
  /\ UNCHANGED <<last_avail, last_used_idx, last_used_signaled, event_idx, storedEvent,
                 pump, inflight, doorbell, irq, memory, driver>>

vring_need_event(event, new, old) == Sub(Sub(new, event), 1) < Sub(new, old)

\* Faulty: should_interrupt_driver without its fence.
ShouldInterruptUnfenced(t) ==
  /\ thr[t] = "published" /\ lock = NoThread
  /\ last_used_signaled' = last_used_idx
  /\ irq' = \/ irq
            \/ IF event_idx
               THEN vring_need_event(usedEvent, last_used_idx, last_used_signaled)
               ELSE ~noInterrupt
  /\ thr' = [thr EXCEPT ![t] = "idle"]
  /\ UNCHANGED <<last_avail, last_used_idx, event_idx, storedEvent, storedUsed,
                 lock, pump, inflight, doorbell, memory, driver>>

\* should_interrupt_driver and, when it says so, the queue interrupt.
ShouldInterruptDriver(t) ==
  /\ thr[t] = "published" /\ lock = NoThread
  /\ Fenced
  /\ last_used_signaled' = last_used_idx
  /\ irq' = \/ irq
            \/ IF event_idx
               THEN vring_need_event(usedEvent, last_used_idx, last_used_signaled)
               ELSE ~noInterrupt
  /\ thr' = [thr EXCEPT ![t] = "idle"]
  /\ UNCHANGED <<last_avail, last_used_idx, event_idx, storedEvent, storedUsed,
                 lock, pump, inflight, doorbell, memory, driver>>

-----------------------------------------------------------------------------
(* The driver (external): Linux's virtio_ring, from how the comments and    *)
(* tests of queue.rs describe it.                                          *)

\* Publish a chain.  The driver decides about a kick before its batch can
\* wrap the index.
AddBuf(h) ==
  /\ h \in free
  /\ Sub(availIdx, kickedAt) < W - 1
  /\ free' = free \ {h}
  /\ availRing' = [availRing EXCEPT ![availIdx % Size] = h]
  /\ availIdx' = Inc(availIdx)
  /\ UNCHANGED <<usedIdx, usedRing, availEvent, usedEvent, noInterrupt,
                 queue, device, kickedAt, reaped, cb>>

\* virtqueue_kick_prepare after its barrier, and the kick.
KickPrepare ==
  /\ availIdx # kickedAt
  /\ kickedAt' = availIdx
  /\ doorbell' = (doorbell \/ ~event_idx \/ vring_need_event(availEvent, availIdx, kickedAt))
  /\ UNCHANGED <<lock, pump, thr, inflight, irq, memory, queue, free, reaped, cb>>

\* The interrupt handler disables callbacks and starts reaping.
TakeIrq ==
  /\ irq /\ cb = "sleep"
  /\ irq' = FALSE
  /\ cb' = "reap"
  /\ noInterrupt' = IF event_idx THEN noInterrupt ELSE TRUE
  /\ UNCHANGED <<availIdx, availRing, usedIdx, usedRing, availEvent, usedEvent,
                 lock, pump, thr, inflight, doorbell, queue, free, kickedAt, reaped>>

\* virtqueue_get_buf
GetBuf ==
  /\ cb = "reap" /\ usedIdx # reaped
  /\ free' = free \cup {usedRing[reaped % Size]}
  /\ reaped' = Inc(reaped)
  /\ UNCHANGED <<memory, queue, device, kickedAt, cb>>

\* virtqueue_enable_cb_prepare: re-enable interrupts ...
EnableCb ==
  /\ cb = "reap" /\ usedIdx = reaped
  /\ cb' = "armed"
  /\ IF event_idx
     THEN usedEvent' = reaped /\ UNCHANGED noInterrupt
     ELSE noInterrupt' = FALSE /\ UNCHANGED usedEvent
  /\ UNCHANGED <<availIdx, availRing, usedIdx, usedRing, availEvent,
                 queue, device, free, kickedAt, reaped>>

\* ... then, past its barrier, virtqueue_poll looks once more.
PollUsed ==
  /\ cb = "armed"
  /\ cb' = IF usedIdx = reaped THEN "sleep" ELSE "reap"
  /\ UNCHANGED <<memory, queue, device, free, kickedAt, reaped>>

-----------------------------------------------------------------------------
DriverNext == KickPrepare \/ TakeIrq \/ GetBuf \/ EnableCb \/ PollUsed
              \/ \E h \in Heads : AddBuf(h)
PumpNext == Wake \/ PopTake \/ PopEmpty \/ Recheck \/ PollHit \/ PollExpire
RetireNext(t) == PublishUsed(t) \/ ShouldInterruptDriver(t) \/ \E h \in Heads : AddUsed(t, h)

Next == DrainEvent \/ DrainUsed \/ PumpNext \/ DriverNext \/ \E t \in Threads : RetireNext(t)

\* Store buffers drain, and the pump, the retiring threads and the guest keep
\* running.  A step that has to acquire the queue mutex gets strong fairness: a
\* thread blocked in Mutex::lock is not overtaken forever.  The driver need not
\* publish anything new.
Fairness ==
  /\ WF_vars(DrainEvent) /\ WF_vars(DrainUsed)
  /\ WF_vars(Wake) /\ WF_vars(Recheck) /\ WF_vars(PollHit \/ PollExpire)
  /\ SF_vars(PopTake \/ PopEmpty)
  /\ \A t \in Threads : WF_vars(PublishUsed(t)) /\ SF_vars(ShouldInterruptDriver(t))
  /\ \A h \in Heads : SF_vars(\E t \in Threads : AddUsed(t, h))
  /\ WF_vars(KickPrepare) /\ WF_vars(TakeIrq) /\ WF_vars(GetBuf)
  /\ WF_vars(EnableCb) /\ WF_vars(PollUsed)

Spec == Init /\ [][Next]_vars
FairSpec == Spec /\ Fairness

-----------------------------------------------------------------------------
TypeOK ==
  /\ availIdx \in Index /\ usedIdx \in Index /\ availEvent \in Index /\ usedEvent \in Index
  /\ availRing \in [Slot -> Heads] /\ usedRing \in [Slot -> Heads]
  /\ noInterrupt \in BOOLEAN
  /\ last_avail \in Index /\ last_used_idx \in Index /\ last_used_signaled \in Index
  /\ event_idx \in BOOLEAN
  /\ storedEvent \in Index /\ storedUsed \in Index
  /\ lock \in Threads \cup {Pump, NoThread}
  /\ pump \in {"wait", "drain", "arm", "poll"}
  /\ thr \in [Threads -> {"idle", "adding", "published"}]
  /\ inflight \in SUBSET Heads /\ free \in SUBSET Heads
  /\ doorbell \in BOOLEAN /\ irq \in BOOLEAN
  /\ kickedAt \in Index /\ reaped \in Index
  /\ cb \in {"sleep", "reap", "armed"}

Retiring == \E t \in Threads : thr[t] # "idle"

(* The doorbell pump has no periodic sweep (SWEEP_MS = u32::MAX): whenever it
   waits with no doorbell event set, and the driver owes no kick decision,
   every published entry has been taken. *)
NoLostKick ==
  pump = "wait" /\ ~doorbell /\ availIdx = kickedAt => availIdx = last_avail

(* Once every retiring thread has decided about its interrupt, a driver that
   sleeps with no interrupt pending has nothing left to reap. *)
NoLostInterrupt ==
  cb = "sleep" /\ ~irq /\ ~Retiring => last_used_idx = reaped

\* Why NoLostKick holds: while the pump does not look at the ring, avail_event
\* is where the ring ran dry, and every entry published since then is one the
\* driver has still to decide about.
KickInv ==
  /\ pump \in {"arm", "poll", "wait"} /\ event_idx => storedEvent = last_avail
  /\ pump \in {"poll", "wait"} /\ event_idx => availEvent = last_avail
  /\ pump \in {"poll", "wait"} /\ ~doorbell
       => Sub(availIdx, last_avail) <= Sub(availIdx, kickedAt)

\* Why NoLostInterrupt holds: what was signaled is also visible, a sleeping
\* driver asked to be told of the next element, and every element it has not
\* seen is one some thread has still to decide about.
SignalInv ==
  /\ \A t \in Threads : thr[t] = "adding" <=> lock = t
  /\ pump = "arm" <=> lock = Pump
  /\ lock \notin Threads => storedUsed = last_used_idx
  /\ last_used_idx # last_used_signaled => Retiring
  /\ Sub(last_used_idx, last_used_signaled) <= MaxUnsignaled
  /\ Sub(last_used_idx, storedUsed) <= Sub(last_used_idx, last_used_signaled)
  /\ Sub(last_used_idx, usedIdx) <= Sub(last_used_idx, last_used_signaled)
  /\ cb \in {"armed", "sleep"} => IF event_idx THEN usedEvent = reaped ELSE ~noInterrupt
  /\ cb = "sleep" /\ ~irq
       => Sub(last_used_idx, reaped) <= Sub(last_used_idx, last_used_signaled)

\* The entries of a ring from index lo up to index hi.
Window(ring, lo, hi) == [i \in 1..Sub(hi, lo) |-> ring[(lo + i - 1) % Size]]

\* The heads published and not taken, and the heads retired and not reaped.
Submitted == Window(availRing, last_avail, availIdx)
Retired == Window(usedRing, reaped, last_used_idx)

Channel == INSTANCE RequestChannel
             WITH submitted <- Submitted, taken <- inflight, done <- Retired

Distinct(s) == \A i, j \in 1..Len(s) : s[i] = s[j] => i = j

\* Why ChannelSafety holds: a head is in one place at a time, so a ring never
\* holds more than Size live entries and the slot a producer writes is free.
RingInv ==
  /\ Sub(last_used_idx, storedUsed) <= Sub(last_used_idx, usedIdx)
  /\ Sub(last_used_idx, usedIdx) <= Sub(last_used_idx, reaped)
  /\ Distinct(Submitted) /\ Distinct(Retired)
  /\ free \cap Channel!Owned = {}
  /\ inflight \cap (Channel!Elems(Submitted) \cup Channel!Elems(Retired)) = {}
  /\ Channel!Elems(Submitted) \cap Channel!Elems(Retired) = {}

(* The rings implement the request channel: requests are taken in publication
   order, each is retired once, retirements are reaped in order, no ring slot
   is overwritten while its entry is live -- and everything published is
   taken, retired and reaped. *)
ImplementsChannel == Channel!Spec
ChannelSafety == Channel!Init /\ [][Channel!Next]_Channel!vars

\* For TLC: retiring threads are interchangeable in the safety properties.
ThreadSymmetry == Permutations(Threads)
=============================================================================
