------------------------------ MODULE BlkDevice ------------------------------
(***************************************************************************)
(* The virtio-blk device of src/virtio/blk.rs: requests are taken off the  *)
(* ring by a drain (doorbell pump, a vCPU's MMIO exit, or quiesce on the   *)
(* main thread), split into segment I/Os that the backend completes on the *)
(* IOCP worker or on the submitting thread, and finished by whoever        *)
(* completes the last segment, while the guest may reset the device at any *)
(* time.                                                                   *)
(*                                                                         *)
(* The ring is a set of heads here (its indices are Virtqueue.tla's): a    *)
(* request is known by the head of its chain.  A member of Reqs is one     *)
(* request the device has taken; its pool slots are kept apart from it, so *)
(* that a slot shared by two requests would show.                          *)
(***************************************************************************)
EXTENDS Integers, FiniteSets, TLC

CONSTANTS Heads, Reqs, Slots, SegSlots, BounceSlots,
          Drainers,      \* doorbell pump and vCPU threads that call notify_queue
          VcpuDrainers,  \* the ones among them that are vCPU threads
          Main, Worker,  \* the main thread (quiesce) and the IOCP worker
          MaxSegs,       \* most data segments of a request
          MaxEpoch,      \* bound on guest resets
          None

ASSUME ThreadAssumption ==
  /\ VcpuDrainers \subseteq Drainers /\ Main # Worker
  /\ {Main, Worker} \cap Drainers = {} /\ None \notin Heads \cup Reqs \cup Slots
       \cup SegSlots \cup BounceSlots \cup Drainers \cup {Main, Worker}
ASSUME BoundAssumption ==
  MaxSegs \in Nat \ {0} /\ MaxEpoch \in Nat /\ IsFiniteSet(Reqs) /\ IsFiniteSet(SegSlots)

Threads == Drainers \cup {Main, Worker}

VARIABLES
  \* the ring and the driver
  ready, avail, used, posted, drv, clean, vcpus,
  \* struct BlockDevice
  epoch, active, stopped, drain_chain, req, pool, seg, bounce_pool,
  \* each thread: where it is, and the request and segment it works on
  pc, cur, op

ring == <<ready, avail, used, posted, drv, clean, vcpus>>
vars == <<ring, epoch, active, stopped, drain_chain, req, pool, seg, bounce_pool, pc, cur, op>>

Idle == [live |-> FALSE, epoch |-> 0, head |-> None, slot |-> None, bounce_slot |-> None,
         todo |-> 0, outstanding |-> 0, failed |-> FALSE, pushed |-> FALSE]

Init ==
  /\ ready = TRUE /\ avail = {} /\ used = {} /\ posted = {}
  /\ drv = "ok" /\ clean = TRUE /\ vcpus = "run"
  /\ epoch = 0 /\ active = 0 /\ stopped = FALSE /\ drain_chain = None
  /\ req = [r \in Reqs |-> Idle]
  /\ pool = Slots /\ bounce_pool = BounceSlots
  /\ seg = [s \in SegSlots |-> [st |-> "free", parent |-> None]]
  /\ pc = [t \in Threads |-> "idle"]
  /\ cur = [t \in Threads |-> None]
  /\ op = [t \in Threads |-> None]

Goto(t, l) == pc' = [pc EXCEPT ![t] = l]
\* What a thread makes of the request it works on.
Update(t, q) == req' = [req EXCEPT ![cur[t]] = q]
WorkOn(t, r, s) == cur' = [cur EXCEPT ![t] = r] /\ op' = [op EXCEPT ![t] = s]

\* Where a thread continues once it has settled a request: the worker waits for
\* the next completion, a drain pops the next chain.
Continue(t) == IF t = Worker THEN "idle" ELSE "pop"
\* Where on_seg_complete returns to.
Return(t) == IF t = Worker THEN "idle" ELSE "submit"

-----------------------------------------------------------------------------
(* Taking requests.                                                        *)

\* notify_queue: drain takes drain_chain and looks at `stopped'.
Notify(t) ==
  /\ t \in Drainers /\ pc[t] = "idle"
  /\ t \in VcpuDrainers => vcpus = "run"
  /\ avail # {}
  /\ drain_chain = None
  /\ IF stopped THEN UNCHANGED <<drain_chain, pc>>
                ELSE drain_chain' = t /\ Goto(t, "pop")
  /\ UNCHANGED <<ring, epoch, active, stopped, req, pool, seg, bounce_pool, cur, op>>

\* quiesce, first half: the main thread drains with the vCPUs joined.
QuiesceDrain ==
  /\ pc[Main] = "idle" /\ vcpus = "joined"
  /\ drain_chain = None
  /\ drain_chain' = Main
  /\ Goto(Main, "pop")
  /\ UNCHANGED <<ring, epoch, active, stopped, req, pool, seg, bounce_pool, cur, op>>

\* Faulty: the request is not counted when it is taken.
TakeUncounted(t, h, r) ==
  /\ pc[t] = "pop"
  /\ ready /\ h \in avail
  /\ ~req[r].live
  /\ avail' = avail \ {h}
  /\ req' = [req EXCEPT ![r] = [Idle EXCEPT !.live = TRUE, !.epoch = epoch, !.head = h]]
  /\ WorkOn(t, r, None)
  /\ Goto(t, "parse")
  /\ UNCHANGED <<ready, used, posted, drv, clean, vcpus, epoch, active, stopped, drain_chain,
                 pool, seg, bounce_pool>>

\* drain_ring pops a chain under the queue lock, counts it and remembers the
\* epoch.
Take(t, h, r) ==
  /\ pc[t] = "pop"
  /\ ready /\ h \in avail
  /\ ~req[r].live
  /\ avail' = avail \ {h}
  /\ active' = active + 1
  /\ req' = [req EXCEPT ![r] = [Idle EXCEPT !.live = TRUE, !.epoch = epoch, !.head = h]]
  /\ WorkOn(t, r, None)
  /\ Goto(t, "parse")
  /\ UNCHANGED <<ready, used, posted, drv, clean, vcpus, epoch, stopped, drain_chain,
                 pool, seg, bounce_pool>>

\* pop_into returns false: the drain ends, and quiesce stops the device.
DrainDone(t) ==
  /\ pc[t] = "pop"
  /\ ~ready \/ avail = {}
  /\ drain_chain' = None
  /\ stopped' = (stopped \/ t = Main)
  /\ Goto(t, IF t = Main THEN "q_wait" ELSE "idle")
  /\ UNCHANGED <<ring, epoch, active, req, pool, seg, bounce_pool, cur, op>>

\* Faulty: a chain that is too short is skipped without being settled.
ParseForgets(t) ==
  /\ pc[t] = "parse"
  /\ \E l \in {"pop", "check", "acquire"} : Goto(t, l)
  /\ UNCHANGED <<ring, epoch, active, stopped, drain_chain, req, pool, seg, bounce_pool, cur, op>>

\* What drain_ring makes of the chain: fewer than two buffers, and it is
\* dropped without being retired; rejected, acknowledged or discarded inline;
\* or submitted.
Parse(t) ==
  /\ pc[t] = "parse"
  /\ \E l \in {"settle", "check", "acquire"} : Goto(t, l)
  /\ UNCHANGED <<ring, epoch, active, stopped, drain_chain, req, pool, seg, bounce_pool, cur, op>>

-----------------------------------------------------------------------------
(* Submitting segments.                                                    *)

\* submit_request takes a parent slot (no slot: the request is rejected) and
\* sets the submission guard.  It goes zero-copy with one op per segment, or
\* takes a bounce slot and issues one op.
AcquireSlot(t) ==
  /\ pc[t] = "acquire"
  /\ \/ /\ pool = {}
        /\ Goto(t, "check")
        /\ UNCHANGED <<req, pool, bounce_pool>>
     \/ \E p \in pool, n \in 1..MaxSegs, b \in bounce_pool \cup {None} :
          /\ b # None => n = 1
          /\ pool' = pool \ {p}
          /\ bounce_pool' = bounce_pool \ {b}
          /\ Update(t, [req[cur[t]] EXCEPT !.slot = p, !.bounce_slot = b, !.todo = n,
                                             !.outstanding = 1])
          /\ Goto(t, "submit")
  /\ UNCHANGED <<ring, epoch, active, stopped, drain_chain, seg, cur, op>>

\* submit_seg: take a segment slot and count it on the parent; with no slot
\* left the request fails.
SubmitSeg(t) ==
  /\ pc[t] = "submit" /\ req[cur[t]].todo > 0
  /\ LET free == {s \in SegSlots : seg[s].st = "free"} IN
     \/ /\ free = {}
        /\ Update(t, [req[cur[t]] EXCEPT !.failed = TRUE, !.todo = @ - 1])
        /\ UNCHANGED <<seg, pc, op>>
     \/ \E s \in free :
          /\ seg' = [seg EXCEPT ![s] = [st |-> "start", parent |-> cur[t]]]
          /\ Update(t, [req[cur[t]] EXCEPT !.outstanding = @ + 1, !.todo = @ - 1])
          /\ op' = [op EXCEPT ![t] = s]
          /\ Goto(t, "start")
  /\ UNCHANGED <<ring, epoch, active, stopped, drain_chain, pool, bounce_pool, cur>>

\* A segment outside the file fails the request and ends the loop.
OutOfBounds(t) ==
  /\ pc[t] = "submit" /\ req[cur[t]].todo > 0 /\ req[cur[t]].bounce_slot = None
  /\ Update(t, [req[cur[t]] EXCEPT !.failed = TRUE, !.todo = 0])
  /\ UNCHANGED <<ring, epoch, active, stopped, drain_chain, pool, seg, bounce_pool, pc, cur, op>>

\* Faulty: a refused op stays counted on its parent.
StartRefusedCounted(t) ==
  /\ pc[t] = "start"
  /\ req' = [req EXCEPT ![cur[t]].failed = TRUE]
  /\ seg' = [seg EXCEPT ![op[t]] = [st |-> "free", parent |-> None]]
  /\ op' = [op EXCEPT ![t] = None]
  /\ Goto(t, "submit")
  /\ UNCHANGED <<ring, epoch, active, stopped, drain_chain, pool, bounce_pool, cur>>

\* backend.submit / submit_sync refuses the op, leaves it pending, or has
\* completed it on this thread already.
StartRefused(t) ==
  /\ pc[t] = "start"
  /\ Update(t, [req[cur[t]] EXCEPT !.failed = TRUE, !.outstanding = @ - 1])
  /\ seg' = [seg EXCEPT ![op[t]] = [st |-> "free", parent |-> None]]
  /\ op' = [op EXCEPT ![t] = None]
  /\ Goto(t, "submit")
  /\ UNCHANGED <<ring, epoch, active, stopped, drain_chain, pool, bounce_pool, cur>>

StartPending(t) ==
  /\ pc[t] = "start"
  /\ seg' = [seg EXCEPT ![op[t]].st = "io"]
  /\ op' = [op EXCEPT ![t] = None]
  /\ Goto(t, "submit")
  /\ UNCHANGED <<ring, epoch, active, stopped, drain_chain, req, pool, bounce_pool, cur>>

StartDone(t) ==
  /\ pc[t] = "start"
  /\ seg' = [seg EXCEPT ![op[t]].st = "done"]
  /\ Goto(t, "complete")
  /\ UNCHANGED <<ring, epoch, active, stopped, drain_chain, req, pool, bounce_pool, cur, op>>

\* The end of submit_request drops the submission guard.
DropGuard(t) ==
  /\ pc[t] = "submit" /\ req[cur[t]].todo = 0
  /\ req' = [req EXCEPT ![cur[t]].outstanding = @ - 1]
  /\ IF req[cur[t]].outstanding = 1
     THEN Goto(t, "check") /\ UNCHANGED cur
     ELSE Goto(t, Continue(t)) /\ cur' = [cur EXCEPT ![t] = None]
  /\ UNCHANGED <<ring, epoch, active, stopped, drain_chain, pool, seg, bounce_pool, op>>

-----------------------------------------------------------------------------
(* Completing segments and finishing requests.                             *)

\* worker_loop: the I/O has finished and the worker dequeues it.
Dequeue(s) ==
  /\ pc[Worker] = "idle" /\ seg[s].st = "io"
  /\ seg' = [seg EXCEPT ![s].st = "done"]
  /\ WorkOn(Worker, seg[s].parent, s)
  /\ Goto(Worker, "complete")
  /\ UNCHANGED <<ring, epoch, active, stopped, drain_chain, req, pool, bounce_pool>>

\* on_seg_complete: a failed op fails the parent; a bounced read (which of the
\* bounced ops are reads is left open) that is not stale is copied to the guest
\* in the next step.
Complete(t) ==
  /\ pc[t] = "complete"
  /\ \/ req' = [req EXCEPT ![cur[t]].failed = TRUE] /\ Goto(t, "seg_end")
     \/ /\ \/ Goto(t, "seg_end")
           \/ req[cur[t]].bounce_slot # None /\ req[cur[t]].epoch = epoch /\ Goto(t, "scatter")
        /\ UNCHANGED req
  /\ UNCHANGED <<ring, epoch, active, stopped, drain_chain, pool, seg, bounce_pool, cur, op>>

\* The copy into the guest's buffers.
Scatter(t) ==
  /\ pc[t] = "scatter"
  /\ Goto(t, "seg_end")
  /\ UNCHANGED <<ring, epoch, active, stopped, drain_chain, req, pool, seg, bounce_pool, cur, op>>

\* release_seg, then the count: the last decrement finishes the request.
SegEnd(t) ==
  /\ pc[t] = "seg_end"
  /\ seg' = [seg EXCEPT ![op[t]] = [st |-> "free", parent |-> None]]
  /\ req' = [req EXCEPT ![cur[t]].outstanding = @ - 1]
  /\ op' = [op EXCEPT ![t] = None]
  /\ IF req[cur[t]].outstanding = 1
     THEN Goto(t, "check") /\ UNCHANGED cur
     ELSE /\ Goto(t, Return(t))
          /\ cur' = IF t = Worker THEN [cur EXCEPT ![t] = None] ELSE cur
  /\ UNCHANGED <<ring, epoch, active, stopped, drain_chain, pool, bounce_pool>>

\* finish_request and finish_inline: the epoch check before the status byte ...
CheckEpoch(t) ==
  /\ pc[t] = "check"
  /\ Goto(t, IF req[cur[t]].epoch = epoch THEN "status" ELSE "push")
  /\ UNCHANGED <<ring, epoch, active, stopped, drain_chain, req, pool, seg, bounce_pool, cur, op>>

\* ... and the status byte itself, a write to guest memory.
WriteStatus(t) ==
  /\ pc[t] = "status"
  /\ Goto(t, "push")
  /\ UNCHANGED <<ring, epoch, active, stopped, drain_chain, req, pool, seg, bounce_pool, cur, op>>

\* Faulty: push_used without the epoch check.
PushUsedStale(t) ==
  /\ pc[t] = "push"
  /\ used' = IF ready THEN used \cup {req[cur[t]].head} ELSE used
  /\ req' = [req EXCEPT ![cur[t]].pushed = TRUE]
  /\ Goto(t, "release")
  /\ UNCHANGED <<ready, avail, posted, drv, clean, vcpus, epoch, active, stopped, drain_chain,
                 pool, seg, bounce_pool, cur, op>>

\* push_used, under the queue lock.  Virtqueue::push ignores a queue that is
\* not ready.
PushUsed(t) ==
  /\ pc[t] = "push"
  /\ used' = IF req[cur[t]].epoch = epoch /\ ready THEN used \cup {req[cur[t]].head} ELSE used
  /\ req' = [req EXCEPT ![cur[t]].pushed = TRUE]
  /\ Goto(t, "release")
  /\ UNCHANGED <<ready, avail, posted, drv, clean, vcpus, epoch, active, stopped, drain_chain,
                 pool, seg, bounce_pool, cur, op>>

\* The bounce and parent slots return to their pools; an inline request has
\* none.
ReleaseSlots(t) ==
  /\ pc[t] = "release"
  /\ pool' = pool \cup ({req[cur[t]].slot} \ {None})
  /\ bounce_pool' = bounce_pool \cup ({req[cur[t]].bounce_slot} \ {None})
  /\ Update(t, [req[cur[t]] EXCEPT !.slot = None, !.bounce_slot = None])
  /\ Goto(t, "irq")
  /\ UNCHANGED <<ring, epoch, active, stopped, drain_chain, seg, cur, op>>

\* raise_irq_if_needed: decide under the queue lock, raise outside it.
DecideIrq(t) ==
  /\ pc[t] = "irq"
  /\ \/ req[cur[t]].epoch = epoch /\ ready /\ Goto(t, "raise")
     \/ Goto(t, "settle")
  /\ UNCHANGED <<ring, epoch, active, stopped, drain_chain, req, pool, seg, bounce_pool, cur, op>>

RaiseIrq(t) ==
  /\ pc[t] = "raise"
  /\ Goto(t, "settle")
  /\ UNCHANGED <<ring, epoch, active, stopped, drain_chain, req, pool, seg, bounce_pool, cur, op>>

Settle(t) ==
  /\ pc[t] = "settle"
  /\ active' = active - 1
  /\ req' = [req EXCEPT ![cur[t]] = Idle]
  /\ WorkOn(t, None, None)
  /\ Goto(t, Continue(t))
  /\ UNCHANGED <<ring, epoch, stopped, drain_chain, pool, seg, bounce_pool>>

\* Faulty: quiesce does not wait for what is in flight.
QuiesceDoneNow ==
  /\ pc[Main] = "q_wait"
  /\ Goto(Main, "quiesced")
  /\ UNCHANGED <<ring, epoch, active, stopped, drain_chain, req, pool, seg, bounce_pool, cur, op>>

\* quiesce, second half: sleep until nothing is active.
QuiesceDone ==
  /\ pc[Main] = "q_wait"
  /\ active = 0
  /\ Goto(Main, "quiesced")
  /\ UNCHANGED <<ring, epoch, active, stopped, drain_chain, req, pool, seg, bounce_pool, cur, op>>

-----------------------------------------------------------------------------
(* The guest.                                                              *)

Post(h) ==
  /\ vcpus = "run" /\ drv = "ok" /\ h \notin posted
  /\ posted' = posted \cup {h}
  /\ avail' = avail \cup {h}
  /\ UNCHANGED <<ready, used, drv, clean, vcpus, epoch, active, stopped, drain_chain,
                 req, pool, seg, bounce_pool, pc, cur, op>>

Reap(h) ==
  /\ vcpus = "run" /\ h \in used
  /\ used' = used \ {h}
  /\ posted' = posted \ {h}
  /\ UNCHANGED <<ready, avail, drv, clean, vcpus, epoch, active, stopped, drain_chain,
                 req, pool, seg, bounce_pool, pc, cur, op>>

\* Faulty: reset rebuilds the request pool.
ResetRefills ==
  /\ vcpus = "run" /\ drv = "ok" /\ epoch < MaxEpoch
  /\ epoch' = epoch + 1
  /\ ready' = FALSE /\ avail' = {} /\ used' = {} /\ posted' = {}
  /\ drv' = "resetting" /\ clean' = FALSE
  /\ pool' = Slots
  /\ UNCHANGED <<vcpus, active, stopped, drain_chain, req, seg, bounce_pool, pc, cur, op>>

\* The driver writes status 0: reset ends the epoch and resets the virtqueue
\* under the queue lock.
Reset ==
  /\ vcpus = "run" /\ drv = "ok" /\ epoch < MaxEpoch
  /\ epoch' = epoch + 1
  /\ ready' = FALSE /\ avail' = {} /\ used' = {} /\ posted' = {}
  /\ drv' = "resetting" /\ clean' = FALSE
  /\ UNCHANGED <<vcpus, active, stopped, drain_chain, req, pool, seg, bounce_pool, pc, cur, op>>

\* Faulty: the status reads 0 at once.
ReadStatusEarly ==
  /\ vcpus = "run" /\ drv = "resetting"
  /\ drv' = "fresh" /\ clean' = TRUE
  /\ UNCHANGED <<ready, avail, used, posted, vcpus, epoch, active, stopped, drain_chain,
                 req, pool, seg, bounce_pool, pc, cur, op>>

\* The driver reads status back as 0, which the transport returns only once
\* reset_pending is false: from here on the buffers are the driver's again.
ReadStatus ==
  /\ vcpus = "run" /\ drv = "resetting"
  /\ active = 0
  /\ drv' = "fresh" /\ clean' = TRUE
  /\ UNCHANGED <<ready, avail, used, posted, vcpus, epoch, active, stopped, drain_chain,
                 req, pool, seg, bounce_pool, pc, cur, op>>

\* enable_queue.  A driver that does not wait for the reset re-enables early.
EnableQueue ==
  /\ vcpus = "run" /\ drv \in {"resetting", "fresh"}
  /\ ready' = TRUE /\ drv' = "ok"
  /\ UNCHANGED <<avail, used, posted, clean, vcpus, epoch, active, stopped, drain_chain,
                 req, pool, seg, bounce_pool, pc, cur, op>>

\* The vCPUs stop and are joined; one that is draining finishes that first.
JoinVcpus ==
  /\ vcpus = "run" /\ \A t \in VcpuDrainers : pc[t] = "idle"
  /\ vcpus' = "joined"
  /\ UNCHANGED <<ready, avail, used, posted, drv, clean, epoch, active, stopped, drain_chain,
                 req, pool, seg, bounce_pool, pc, cur, op>>

-----------------------------------------------------------------------------
Submitting(t) == SubmitSeg(t) \/ OutOfBounds(t) \/ StartRefused(t) \/ StartPending(t)
                 \/ StartDone(t) \/ DropGuard(t)
Finishing(t) == Complete(t) \/ Scatter(t) \/ SegEnd(t) \/ CheckEpoch(t) \/ WriteStatus(t)
                \/ PushUsed(t) \/ ReleaseSlots(t) \/ DecideIrq(t) \/ RaiseIrq(t) \/ Settle(t)
DrainStep(t) == DrainDone(t) \/ Parse(t) \/ AcquireSlot(t)
                \/ \E h \in Heads, r \in Reqs : Take(t, h, r)
ThreadStep(t) == DrainStep(t) \/ Submitting(t) \/ Finishing(t)
GuestNext == Reset \/ ReadStatus \/ EnableQueue \/ \E h \in Heads : Post(h) \/ Reap(h)

Next ==
  \/ \E t \in Threads : Notify(t) \/ ThreadStep(t)
  \/ \E s \in SegSlots : Dequeue(s)
  \/ QuiesceDrain \/ QuiesceDone
  \/ GuestNext \/ JoinVcpus

Spec == Init /\ [][Next]_vars

\* Threads keep running once they have work, every I/O completes, and a driver
\* that resets keeps polling.  The worker is the only one to serve completions.
Fairness ==
  /\ \A t \in Threads : WF_vars(ThreadStep(t))
  /\ WF_vars(\E s \in SegSlots : Dequeue(s))
  /\ WF_vars(ReadStatus)
  /\ WF_vars(QuiesceDrain) /\ WF_vars(QuiesceDone)

FairSpec == Spec /\ Fairness

-----------------------------------------------------------------------------
TypeOK ==
  /\ ready \in BOOLEAN /\ avail \subseteq Heads /\ used \subseteq Heads /\ posted \subseteq Heads
  /\ drv \in {"ok", "resetting", "fresh"} /\ clean \in BOOLEAN /\ vcpus \in {"run", "joined"}
  /\ epoch \in 0..MaxEpoch /\ active \in Nat /\ stopped \in BOOLEAN
  /\ drain_chain \in Threads \cup {None}
  /\ req \in [Reqs -> [live : BOOLEAN, epoch : 0..MaxEpoch, head : Heads \cup {None},
                       slot : Slots \cup {None}, bounce_slot : BounceSlots \cup {None},
                       todo : 0..MaxSegs, outstanding : Nat, failed : BOOLEAN,
                       pushed : BOOLEAN]]
  /\ pool \subseteq Slots /\ bounce_pool \subseteq BounceSlots
  /\ seg \in [SegSlots -> [st : {"free", "start", "io", "done"}, parent : Reqs \cup {None}]]
  /\ pc \in [Threads -> {"idle", "pop", "parse", "acquire", "submit", "start", "complete",
                         "scatter", "seg_end", "check", "status", "push", "release", "irq",
                         "raise", "settle", "q_wait", "quiesced"}]
  /\ cur \in [Threads -> Reqs \cup {None}] /\ op \in [Threads -> SegSlots \cup {None}]

Live == {r \in Reqs : req[r].live}

(* After the driver has read the device status as 0, nothing taken before the
   reset is left in the device: no status byte, bounced or zero-copy read, used
   element or interrupt of it can still come. *)
NoTouchAfterReset == clean => \A r \in Live : req[r].epoch = epoch

(* Every head the driver has posted in this epoch is in one place: waiting in
   the ring, with one request of the device, or retired once.  Nothing is
   retired that this epoch's driver did not post. *)
Holding(h) == {r \in Live : req[r].epoch = epoch /\ req[r].head = h /\ ~req[r].pushed}
OneOwner ==
  /\ avail \cup used \subseteq posted
  /\ avail \cap used = {}
  /\ \A h \in Heads :
       /\ Cardinality(Holding(h)) <= 1
       /\ Holding(h) # {} => h \in posted \ (avail \cup used)

(* A pool slot belongs to one live request or is free, and so does a bounce
   buffer: a slot whose I/O is still outstanding is never handed out again. *)
NoSlotAliased ==
  /\ \A p \in Slots : Cardinality({r \in Reqs : req[r].slot = p}) = (IF p \in pool THEN 0 ELSE 1)
  /\ \A b \in BounceSlots :
       Cardinality({r \in Reqs : req[r].bounce_slot = b}) = (IF b \in bounce_pool THEN 0 ELSE 1)
  /\ \A s \in SegSlots : seg[s].st # "free" => req[seg[s].parent].slot # None

(* quiesce leaves the device still: every request settled, and nothing the
   guest published left behind in a live ring. *)
QuiescedIsStill ==
  pc[Main] = "quiesced" =>
    /\ Live = {} /\ \A t \in Threads \ {Main} : pc[t] = "idle"
    /\ ready => avail = {}

(* A reset the driver waits for ends, and quiesce returns. *)
Resetting == drv = "resetting"
Joined == vcpus = "joined"
Quiesced == pc[Main] = "quiesced"
ResetCompletes == Resetting ~> ~Resetting \/ Joined
QuiesceReturns == Joined ~> Quiesced

\* virtio-blk: a reset the driver polls for is seen to complete, and quiesce
\* returns, whichever error path each request takes.
BlkCompletes == ResetCompletes /\ QuiesceReturns

\* For TLC: requests, pool slots and heads are interchangeable in the safety
\* properties.
SlotSymmetry == Permutations(Reqs) \cup Permutations(Slots) \cup Permutations(SegSlots)
                \cup Permutations(Heads)
=============================================================================
