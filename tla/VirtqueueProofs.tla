-------------------------- MODULE VirtqueueProofs ---------------------------
(***************************************************************************)
(* Proofs about Virtqueue, for every index width W, queue size and set of  *)
(* retiring threads.                                                       *)
(***************************************************************************)
EXTENDS Virtqueue, SequenceTheorems, FiniteSetTheorems, TLAPS

-----------------------------------------------------------------------------
(* Index arithmetic.                                                       *)

\* A ring slot computed from an index is a slot of the ring.
LEMMA SlotOfIndex == \A i \in Index : i % Size \in Slot
  BY SizeAssumption DEF Index, Slot

\* Indices stay in range: wrapping_add and wrapping_sub are closed on Index.
LEMMA IndexClosed ==
  /\ 0 \in Index
  /\ \A i \in Index : Inc(i) \in Index
  /\ \A a, b \in Index : Sub(a, b) \in Index
  BY SizeAssumption DEF Index, Inc, Sub

\* Distances are natural numbers.
LEMMA IndexIsNat == \A a, b \in Index : Sub(a, b) \in Nat
  BY SizeAssumption DEF Index, Sub

\* A distance is zero exactly between equal indices.
LEMMA SubZero == \A a, b \in Index : Sub(a, b) = 0 <=> a = b
  BY SizeAssumption DEF Index, Sub

\* Moving the front index on grows a distance by one, short of a full turn.
LEMMA SubInc ==
  \A a, b \in Index : Sub(a, b) < W - 1 => Sub(Inc(a), b) = Sub(a, b) + 1
  BY SizeAssumption DEF Index, Inc, Sub

\* vring_need_event is exact as long as the waiter's event index is no further
\* behind than the last decision: it says no only if nothing is outstanding.
LEMMA NeedEventExact ==
  ASSUME NEW event \in Index, NEW new \in Index, NEW old \in Index,
         Sub(new, event) <= Sub(new, old),
         ~vring_need_event(event, new, old)
  PROVE  new = event
  BY SizeAssumption DEF Index, Sub, vring_need_event

-----------------------------------------------------------------------------
(* Type correctness.                                                       *)

\* TypeOK is an invariant: every index of the code stays a u16 and every head
\* the device takes from the ring is a descriptor of the queue.
THEOREM TypeCorrect == Spec => []TypeOK
<1>1. Init => TypeOK
  <2> SUFFICES ASSUME Init PROVE TypeOK
    OBVIOUS
  <2>1. 0 \in Index /\ 0 \in Heads
    BY SizeAssumption DEF Index, Heads
  <2>2. availRing \in [Slot -> Heads] /\ usedRing \in [Slot -> Heads]
    BY <2>1 DEF Init
  <2>3. thr \in [Threads -> {"idle", "adding", "published"}]
    BY DEF Init
  <2> QED
    BY <2>1, <2>2, <2>3 DEF Init, TypeOK
<1>2. TypeOK /\ [Next]_vars => TypeOK'
  <2> SUFFICES ASSUME TypeOK, [Next]_vars PROVE TypeOK'
    OBVIOUS
  <2> USE SizeAssumption, ThreadAssumption, IndexClosed, SlotOfIndex DEF TypeOK
  <2>1. CASE DrainEvent BY <2>1 DEF DrainEvent, queue, device, driver
  <2>2. CASE DrainUsed BY <2>2 DEF DrainUsed, queue, device, driver
  <2>3. CASE Wake BY <2>3 DEF Wake, memory, queue, driver
  <2>4. CASE PopTake BY <2>4 DEF PopTake, TakeEntry, memory, driver
  <2>5. CASE PopEmpty BY <2>5 DEF PopEmpty, memory, driver
  <2>6. CASE Recheck BY <2>6 DEF Recheck, TakeEntry, memory, driver
  <2>7. CASE PollHit BY <2>7 DEF PollHit, memory, queue, driver
  <2>8. CASE PollExpire BY <2>8 DEF PollExpire, memory, queue, driver
  <2>9. ASSUME NEW t \in Threads, NEW h \in Heads, AddUsed(t, h) PROVE TypeOK'
    BY <2>9 DEF AddUsed, driver
  <2>10. ASSUME NEW t \in Threads, PublishUsed(t) PROVE TypeOK'
    BY <2>10 DEF PublishUsed, memory, driver
  <2>11. ASSUME NEW t \in Threads, ShouldInterruptDriver(t) PROVE TypeOK'
    BY <2>11 DEF ShouldInterruptDriver, vring_need_event, memory, driver
  <2>12. ASSUME NEW h \in Heads, AddBuf(h) PROVE TypeOK'
    BY <2>12 DEF AddBuf, queue, device
  <2>13. CASE KickPrepare BY <2>13 DEF KickPrepare, vring_need_event, memory, queue
  <2>14. CASE TakeIrq BY <2>14 DEF TakeIrq, queue
  <2>15. CASE GetBuf BY <2>15 DEF GetBuf, memory, queue, device
  <2>16. CASE EnableCb BY ZenonT(60), <2>16 DEF EnableCb, queue, device
  <2>17. CASE PollUsed BY <2>17 DEF PollUsed, memory, queue, device
  <2>18. CASE UNCHANGED vars BY <2>18 DEF vars, memory, queue, device, driver
  <2> QED
    BY <2>1, <2>2, <2>3, <2>4, <2>5, <2>6, <2>7, <2>8, <2>9, <2>10, <2>11, <2>12,
       <2>13, <2>14, <2>15, <2>16, <2>17, <2>18
    DEF Next, PumpNext, DriverNext, RetireNext
<1> QED
  BY <1>1, <1>2, PTL DEF Spec

-----------------------------------------------------------------------------
(* No kick is lost.  The induction is over KickInv: what an unwoken pump   *)
(* has not seen, the driver has not decided about.                         *)

LEMMA KickInvInit == Init => KickInv
  BY IndexClosed, SubZero DEF Init, KickInv

LEMMA KickInvStep == TypeOK /\ KickInv /\ [Next]_vars => KickInv'
<1> SUFFICES ASSUME TypeOK, KickInv, [Next]_vars PROVE KickInv'
  OBVIOUS
<1> USE DEF KickInv
<1>1. CASE DrainEvent BY <1>1 DEF DrainEvent, queue, device, driver
<1>2. CASE DrainUsed BY <1>2 DEF DrainUsed, queue, device, driver
<1>3. CASE Wake BY <1>3 DEF Wake, memory, queue, driver
<1>4. CASE PopTake BY <1>4 DEF PopTake, TakeEntry, memory, driver
<1>5. CASE PopEmpty
  <2>1. Sub(availIdx, last_avail) = 0 /\ Sub(availIdx, kickedAt) \in Index
    BY <1>5, SubZero, IndexClosed DEF PopEmpty, TypeOK
  <2> QED
    BY <1>5, <2>1 DEF PopEmpty, memory, driver, Index
<1>6. CASE Recheck
  <2>1. CASE availIdx = last_avail
    <3>1. Sub(availIdx, last_avail) = 0 /\ Sub(availIdx, kickedAt) \in Index
      BY <2>1, SubZero, IndexClosed DEF TypeOK
    <3> QED
      BY <1>6, <2>1, <3>1 DEF Recheck, Fenced, memory, driver, Index
  <2>2. CASE availIdx # last_avail
    BY <1>6, <2>2 DEF Recheck, TakeEntry
  <2> QED
    BY <2>1, <2>2
<1>7. CASE PollHit BY <1>7 DEF PollHit, memory, queue, driver
<1>8. CASE PollExpire BY <1>8 DEF PollExpire, memory, queue, driver
<1>9. ASSUME NEW t \in Threads, NEW h \in Heads, AddUsed(t, h) PROVE KickInv'
  BY <1>9 DEF AddUsed, driver
<1>10. ASSUME NEW t \in Threads, PublishUsed(t) PROVE KickInv'
  BY <1>10 DEF PublishUsed, memory, driver
<1>11. ASSUME NEW t \in Threads, ShouldInterruptDriver(t) PROVE KickInv'
  BY <1>11 DEF ShouldInterruptDriver, memory, driver
<1>12. ASSUME NEW h \in Heads, AddBuf(h) PROVE KickInv'
  <2>1. /\ UNCHANGED <<availEvent, queue, device, kickedAt>>
        /\ availIdx' = Inc(availIdx) /\ Sub(availIdx, kickedAt) < W - 1
    BY <1>12 DEF AddBuf
  <2>2. Sub(Inc(availIdx), kickedAt) = Sub(availIdx, kickedAt) + 1
    BY <2>1, SubInc DEF TypeOK
  <2>3. ASSUME Sub(availIdx, last_avail) <= Sub(availIdx, kickedAt)
        PROVE  Sub(availIdx', last_avail) <= Sub(availIdx', kickedAt)
    <3>1. Sub(availIdx, last_avail) \in Int /\ Sub(availIdx, kickedAt) \in Int
      BY IndexClosed, SizeAssumption DEF TypeOK, Index
    <3>2. Sub(availIdx, last_avail) < W - 1
      BY <2>1, <2>3, <3>1, SizeAssumption
    <3>3. Sub(Inc(availIdx), last_avail) = Sub(availIdx, last_avail) + 1
      BY <3>2, SubInc DEF TypeOK
    <3> QED
      BY <2>1, <2>2, <2>3, <3>1, <3>3
  <2> QED
    BY <2>1, <2>3 DEF queue, device
<1>13. CASE KickPrepare
  <2>1. /\ UNCHANGED <<availIdx, availEvent, pump, queue>> /\ kickedAt' = availIdx
        /\ doorbell' = (doorbell \/ ~event_idx
                          \/ vring_need_event(availEvent, availIdx, kickedAt))
    BY <1>13 DEF KickPrepare, memory
  <2>2. ASSUME pump \in {"poll", "wait"}, ~doorbell'
        PROVE  availIdx = last_avail
    <3>1. event_idx /\ ~doorbell /\ ~vring_need_event(availEvent, availIdx, kickedAt)
      BY <2>1, <2>2
    <3>2. availEvent = last_avail /\ Sub(availIdx, availEvent) <= Sub(availIdx, kickedAt)
      BY <2>2, <3>1
    <3> QED
      BY <3>1, <3>2, NeedEventExact DEF TypeOK
  <2>3. availIdx = last_avail => Sub(availIdx, last_avail) <= Sub(availIdx, availIdx)
    BY SubZero DEF TypeOK
  <2> QED
    BY <2>1, <2>2, <2>3 DEF queue
<1>14. CASE TakeIrq BY <1>14 DEF TakeIrq, queue
<1>15. CASE GetBuf BY <1>15 DEF GetBuf, memory, queue, device
<1>16. CASE EnableCb BY <1>16 DEF EnableCb, queue, device
<1>17. CASE PollUsed BY <1>17 DEF PollUsed, memory, queue, device
<1>18. CASE UNCHANGED vars BY <1>18 DEF vars, memory, queue, device, driver
<1> QED
  BY <1>1, <1>2, <1>3, <1>4, <1>5, <1>6, <1>7, <1>8, <1>9, <1>10, <1>11, <1>12,
     <1>13, <1>14, <1>15, <1>16, <1>17, <1>18
  DEF Next, PumpNext, DriverNext, RetireNext

\* The kick protocol of queue.rs and doorbell_pump is complete: whatever the
\* index width, the queue size and the number of threads, a pump that waits
\* with no doorbell pending and no kick decision outstanding has taken every
\* published entry.
THEOREM KickNeverLost == Spec => []NoLostKick
<1>1. TypeOK /\ KickInv => NoLostKick
  <2> SUFFICES ASSUME TypeOK, KickInv, pump = "wait", ~doorbell, availIdx = kickedAt
               PROVE  availIdx = last_avail
    BY DEF NoLostKick
  <2>1. Sub(availIdx, last_avail) <= 0
    BY SubZero DEF KickInv, TypeOK
  <2>2. Sub(availIdx, last_avail) \in Nat
    BY IndexClosed, SizeAssumption DEF TypeOK, Index
  <2> QED
    BY <2>1, <2>2, SubZero DEF TypeOK
<1> QED
  BY TypeCorrect, KickInvInit, KickInvStep, <1>1, PTL DEF Spec

-----------------------------------------------------------------------------
(* No interrupt is lost, as long as fewer than W elements are pushed       *)
(* between two calls of should_interrupt_driver.                           *)

LEMMA SignalInvInit == Init => SignalInv
  BY IndexClosed, SubZero, BatchAssumption, ThreadAssumption DEF Init, SignalInv

\* What an element that is pushed does to each distance behind last_used_idx.
LEMMA PushGrows ==
  ASSUME NEW old \in Index, NEW low \in Index, NEW top \in Index,
         Sub(top, low) < W - 1, Sub(top, old) <= Sub(top, low)
  PROVE  /\ Sub(Inc(top), old) <= Sub(Inc(top), low)
         /\ Sub(Inc(top), low) = Sub(top, low) + 1
<1>1. Sub(top, old) \in Int /\ Sub(top, low) \in Int
  BY IndexClosed, SizeAssumption DEF Index
<1>2. Sub(top, old) < W - 1
  BY <1>1, SizeAssumption
<1> QED
  BY <1>1, <1>2, SubInc

LEMMA SignalInvStep ==
  ASSUME MaxUnsignaled < W
  PROVE  TypeOK /\ SignalInv /\ [Next]_vars => SignalInv'
<1> SUFFICES ASSUME TypeOK, SignalInv, [Next]_vars PROVE SignalInv'
  OBVIOUS
<1>1. CASE DrainEvent
  BY <1>1 DEF SignalInv, Retiring, DrainEvent, queue, device, driver
<1>2. CASE DrainUsed
  BY <1>2 DEF SignalInv, Retiring, DrainUsed, queue, device, driver
<1>3. CASE Wake
  BY <1>3 DEF SignalInv, Retiring, Wake, memory, queue, driver
<1>4. CASE PopTake
  BY <1>4, ThreadAssumption DEF SignalInv, Retiring, PopTake, TakeEntry, memory, driver
<1>5. CASE PopEmpty
  BY <1>5, ThreadAssumption DEF SignalInv, Retiring, PopEmpty, memory, driver
<1>6. CASE Recheck
  <2>1. UNCHANGED <<last_used_idx, last_used_signaled, event_idx, storedUsed, usedIdx,
                    usedEvent, noInterrupt, thr, irq, reaped, cb>>
    BY <1>6 DEF Recheck, memory, driver
  <2>2. lock \notin Threads
    BY <1>6, ThreadAssumption DEF Recheck, SignalInv
  <2>3. lock' = NoThread /\ pump' # "arm"
    BY <1>6 DEF Recheck, TakeEntry
  <2> QED
    BY <2>1, <2>2, <2>3, ThreadAssumption DEF SignalInv, Retiring
<1>7. CASE PollHit
  BY <1>7 DEF SignalInv, Retiring, PollHit, memory, queue, driver
<1>8. CASE PollExpire
  BY <1>8 DEF SignalInv, Retiring, PollExpire, memory, queue, driver
<1>9. ASSUME NEW t \in Threads, NEW h \in Heads, AddUsed(t, h) PROVE SignalInv'
  <2>1. /\ UNCHANGED <<last_used_signaled, event_idx, storedUsed, usedIdx,
                       usedEvent, noInterrupt, irq, reaped, cb, pump>>
        /\ last_used_idx' = Inc(last_used_idx)
        /\ Sub(last_used_idx, last_used_signaled) < MaxUnsignaled
        /\ lock \in {NoThread, t} /\ lock' = t
        /\ thr' = [thr EXCEPT ![t] = "adding"]
    BY <1>9 DEF AddUsed, driver
  <2>2. Sub(last_used_idx, last_used_signaled) \in Int
    BY IndexClosed, SizeAssumption DEF TypeOK, Index
  <2>3. Sub(last_used_idx, last_used_signaled) < W - 1
    BY <2>1, <2>2, BatchAssumption, SizeAssumption
  <2>4. ASSUME NEW i \in Index,
               Sub(last_used_idx, i) <= Sub(last_used_idx, last_used_signaled)
        PROVE  Sub(last_used_idx', i) <= Sub(last_used_idx', last_used_signaled')
    BY <2>1, <2>3, <2>4, PushGrows DEF TypeOK
  <2>5. Sub(last_used_idx', last_used_signaled') <= MaxUnsignaled
    BY <2>1, <2>2, <2>3, SubInc, BatchAssumption, SizeAssumption DEF TypeOK
  <2>6. Retiring' /\ \A u \in Threads : thr'[u] = "adding" <=> lock' = u
    BY <2>1, ThreadAssumption DEF SignalInv, TypeOK, Retiring
  <2> QED
    BY <2>1, <2>4, <2>5, <2>6, ThreadAssumption DEF SignalInv, TypeOK
<1>10. ASSUME NEW t \in Threads, PublishUsed(t) PROVE SignalInv'
  <2>1. /\ UNCHANGED <<last_used_idx, last_used_signaled, event_idx, usedIdx,
                       usedEvent, noInterrupt, irq, reaped, cb, pump>>
        /\ storedUsed' = last_used_idx
        /\ thr[t] = "adding" /\ lock' = NoThread
        /\ thr' = [thr EXCEPT ![t] = "published"]
    BY <1>10 DEF PublishUsed, memory, driver
  <2>2. Retiring' /\ \A u \in Threads : thr'[u] = "adding" <=> lock' = u
    BY <2>1, ThreadAssumption DEF SignalInv, TypeOK, Retiring
  <2>3. Sub(last_used_idx, last_used_idx) = 0 /\ Sub(last_used_idx, last_used_signaled) \in Nat
    BY SubZero, IndexClosed, SizeAssumption DEF TypeOK, Index
  <2> QED
    BY <2>1, <2>2, <2>3, ThreadAssumption DEF SignalInv
<1>11. ASSUME NEW t \in Threads, ShouldInterruptDriver(t) PROVE SignalInv'
  <2>1. /\ UNCHANGED <<last_used_idx, event_idx, storedUsed, usedIdx, usedEvent,
                       noInterrupt, reaped, cb, lock, pump>>
        /\ lock = NoThread /\ storedUsed = usedIdx
        /\ thr[t] = "published" /\ thr' = [thr EXCEPT ![t] = "idle"]
        /\ last_used_signaled' = last_used_idx
        /\ irq' = (irq \/ IF event_idx
                          THEN vring_need_event(usedEvent, last_used_idx, last_used_signaled)
                          ELSE ~noInterrupt)
    BY <1>11 DEF ShouldInterruptDriver, Fenced, memory, driver
  <2>2. storedUsed = last_used_idx
    BY <2>1, ThreadAssumption DEF SignalInv
  <2>3. Sub(last_used_idx, last_used_idx) = 0
    BY SubZero DEF TypeOK
  <2>4. \A u \in Threads : thr'[u] = "adding" <=> lock' = u
    BY <2>1, ThreadAssumption DEF SignalInv, TypeOK
  <2>5. ASSUME cb = "sleep", ~irq' PROVE last_used_idx = reaped
    <3>1. ~irq /\ event_idx /\ ~vring_need_event(usedEvent, last_used_idx, last_used_signaled)
      BY <2>1, <2>5 DEF SignalInv
    <3>2. /\ usedEvent = reaped
          /\ Sub(last_used_idx, usedEvent) <= Sub(last_used_idx, last_used_signaled)
      BY <2>5, <3>1 DEF SignalInv
    <3> QED
      BY <3>1, <3>2, NeedEventExact DEF TypeOK
  <2> QED
    BY <2>1, <2>2, <2>3, <2>4, <2>5, BatchAssumption DEF SignalInv
<1>12. ASSUME NEW h \in Heads, AddBuf(h) PROVE SignalInv'
  BY <1>12 DEF SignalInv, Retiring, AddBuf, queue, device
<1>13. CASE KickPrepare
  BY <1>13 DEF SignalInv, Retiring, KickPrepare, memory, queue
<1>14. CASE TakeIrq
  BY <1>14 DEF SignalInv, Retiring, TakeIrq, queue
<1>15. CASE GetBuf
  BY <1>15 DEF SignalInv, Retiring, GetBuf, memory, queue, device
<1>16. CASE EnableCb
  BY <1>16 DEF SignalInv, Retiring, EnableCb, queue, device
<1>17. CASE PollUsed
  BY <1>17 DEF SignalInv, Retiring, PollUsed, memory, queue, device
<1>18. CASE UNCHANGED vars
  BY <1>18 DEF SignalInv, Retiring, vars, memory, queue, device, driver
<1> QED
  BY <1>1, <1>2, <1>3, <1>4, <1>5, <1>6, <1>7, <1>8, <1>9, <1>10, <1>11, <1>12,
     <1>13, <1>14, <1>15, <1>16, <1>17, <1>18
  DEF Next, PumpNext, DriverNext, RetireNext

\* The interrupt protocol of push and should_interrupt_driver is complete while
\* fewer than W elements (2^16 in the code) are pushed between two decisions: a
\* driver that sleeps with no interrupt pending, while no thread still has to
\* decide, has reaped everything the device retired.
THEOREM InterruptNeverLost ==
  ASSUME MaxUnsignaled < W
  PROVE  Spec => []NoLostInterrupt
<1>1. TypeOK /\ SignalInv => NoLostInterrupt
  <2> SUFFICES ASSUME TypeOK, SignalInv, cb = "sleep", ~irq, ~Retiring
               PROVE  last_used_idx = reaped
    BY DEF NoLostInterrupt
  <2>1. Sub(last_used_idx, reaped) <= 0
    BY SubZero DEF SignalInv, TypeOK
  <2>2. Sub(last_used_idx, reaped) \in Nat
    BY IndexClosed, SizeAssumption DEF TypeOK, Index
  <2> QED
    BY <2>1, <2>2, SubZero DEF TypeOK
<1>2. TypeOK /\ SignalInv /\ [Next]_vars => SignalInv'
  BY SignalInvStep
<1> QED
  BY TypeCorrect, SignalInvInit, <1>1, <1>2, PTL DEF Spec

-----------------------------------------------------------------------------
(* Ring slots, and the part of a ring between two indices.                  *)

\* Division with remainder by the queue size.
LEMMA Division ==
  ASSUME NEW x \in Nat
  PROVE  x = Size * (x \div Size) + (x % Size) /\ x \div Size \in Nat /\ x % Size \in 0..(Size - 1)
  BY SizeAssumption, Z3

\* A positive multiple of n is at least n.
LEMMA Times ==
  ASSUME NEW k \in Int, NEW n \in Nat \ {0}, k >= 1
  PROVE  n * k >= n
  BY Z3

\* Numbers less than Size apart are in different slots.
LEMMA Apart ==
  ASSUME NEW x \in Nat, NEW y \in Nat, x < y, y < x + Size
  PROVE  x % Size # y % Size
<1> SUFFICES ASSUME x % Size = y % Size PROVE FALSE
  OBVIOUS
<1> DEFINE a == x \div Size
           b == y \div Size
<1>1. y - x = Size * (b - a)
  BY Division, SizeAssumption
<1>2. a \in Nat /\ b \in Nat
  BY Division
<1>3. b - a >= 1
  BY <1>1, <1>2, SizeAssumption
<1>4. Size * (b - a) >= Size
  BY <1>2, <1>3, SizeAssumption, Times
<1> QED
  BY <1>1, <1>4, SizeAssumption

\* The remainder is the only one.
LEMMA Remainder ==
  ASSUME NEW x \in Nat, NEW q \in Nat, NEW r \in 0..(Size - 1), x = Size * q + r
  PROVE  x % Size = r
<1> DEFINE p == x \div Size
           s == x % Size
<1>1. p \in Nat /\ s \in 0..(Size - 1) /\ x = Size * p + s
  BY Division
<1> HIDE DEF p, s
<1>2. Size * (q - p) = s - r /\ Size * (p - q) = r - s
  BY <1>1, SizeAssumption
<1>3. ~(q - p >= 1) /\ ~(p - q >= 1)
  BY <1>1, <1>2, Times, SizeAssumption
<1>4. p = q
  BY <1>1, <1>3
<1>5. s = r
  BY <1>1, <1>2, <1>4, SizeAssumption
<1> QED
  BY <1>5 DEF s

\* A full turn of the index comes back to the same slot: Size divides W.
LEMMA Turn ==
  ASSUME NEW x \in Nat
  PROVE  (x + W) % Size = x % Size
<1> DEFINE n == W \div Size
<1>1. n \in Nat /\ W = Size * n
  BY Division, RingAssumption, SizeAssumption
<1> HIDE DEF n
<1>2. x + W = Size * (x \div Size + n) + (x % Size)
  BY <1>1, Division, SizeAssumption
<1>3. x \div Size \in Nat /\ x % Size \in 0..(Size - 1)
  BY Division
<1>4. x + W \in Nat /\ x \div Size + n \in Nat
  BY <1>1, <1>3, SizeAssumption
<1> QED
  BY <1>2, <1>3, <1>4, Remainder

\* Moving the back index on shrinks a distance by one.
LEMMA SubDec ==
  \A a, b \in Index : a # b => Sub(a, Inc(b)) = Sub(a, b) - 1
  BY SizeAssumption DEF Index, Inc, Sub

\* The slot of the front index, from the back.
LEMMA FrontSlot ==
  ASSUME NEW lo \in Index, NEW hi \in Index
  PROVE  (lo + Sub(hi, lo)) % Size = hi % Size
<1>1. lo \in Nat /\ hi \in Nat
  BY SizeAssumption DEF Index
<1>2. CASE hi >= lo
  BY <1>1, <1>2 DEF Sub
<1>3. CASE ~(hi >= lo)
  BY <1>1, <1>3, Turn, SizeAssumption DEF Sub
<1> QED
  BY <1>2, <1>3

\* The slots ahead of the back index when it moves on.
LEMMA NextSlot ==
  ASSUME NEW lo \in Index, NEW i \in Nat
  PROVE  (Inc(lo) + i) % Size = (lo + i + 1) % Size
<1>1. lo \in Nat
  BY SizeAssumption DEF Index
<1>2. CASE lo = W - 1
  <2>1. lo + i + 1 = i + W /\ Inc(lo) + i = i
    BY <1>1, <1>2, SizeAssumption DEF Inc
  <2> QED
    BY <2>1, Turn
<1>3. CASE lo # W - 1
  BY <1>1, <1>3, SizeAssumption DEF Inc
<1> QED
  BY <1>2, <1>3

\* Up to Size entries in a row are in as many slots.
LEMMA SlotsApart ==
  ASSUME NEW lo \in Index, NEW i \in 0..(Size - 1), NEW j \in 0..(Size - 1), i # j
  PROVE  (lo + i) % Size # (lo + j) % Size
<1>1. lo \in Nat
  BY SizeAssumption DEF Index
<1>2. CASE i < j
  <2>1. lo + i \in Nat /\ lo + j \in Nat /\ lo + i < lo + j /\ lo + j < lo + i + Size
    BY <1>1, <1>2, SizeAssumption
  <2> QED
    BY <2>1, Apart
<1>3. CASE j < i
  <2>1. lo + i \in Nat /\ lo + j \in Nat /\ lo + j < lo + i /\ lo + i < lo + j + Size
    BY <1>1, <1>3, SizeAssumption
  <2> QED
    BY <2>1, Apart
<1> QED
  BY <1>2, <1>3, SizeAssumption

\* A window of a ring is a sequence of heads.
LEMMA WindowIsSeq ==
  ASSUME NEW ring \in [Slot -> Heads], NEW lo \in Index, NEW hi \in Index
  PROVE  /\ Window(ring, lo, hi) \in Seq(Heads)
         /\ Len(Window(ring, lo, hi)) = Sub(hi, lo)
         /\ \A i \in 1..Sub(hi, lo) : Window(ring, lo, hi)[i] = ring[(lo + i - 1) % Size]
<1>1. Sub(hi, lo) \in Nat
  BY IndexClosed, SizeAssumption DEF Index
<1>2. \A i \in 1..Sub(hi, lo) : ring[(lo + i - 1) % Size] \in Heads
  <2> TAKE i \in 1..Sub(hi, lo)
  <2>1. lo + i - 1 \in Nat
    BY <1>1, SizeAssumption DEF Index
  <2>2. (lo + i - 1) % Size \in Slot
    BY <2>1, Division DEF Slot
  <2> QED
    BY <2>2
<1>3. Window(ring, lo, hi) \in [1..Sub(hi, lo) -> Heads]
  BY <1>2 DEF Window
<1>4. Window(ring, lo, hi) \in Seq(Heads)
  BY <1>1, <1>3, SeqDef
<1>5. Len(Window(ring, lo, hi)) = Sub(hi, lo)
  <2>1. DOMAIN Window(ring, lo, hi) = 1..Len(Window(ring, lo, hi)) /\ Len(Window(ring, lo, hi)) \in Nat
    BY <1>4, LenProperties
  <2> QED
    BY <1>1, <1>3, <2>1
<1> QED
  BY <1>4, <1>5 DEF Window

\* A push at the front index appends to the window, as long as the ring is not
\* full: no slot of a live entry is overwritten.
LEMMA WindowPush ==
  ASSUME NEW ring \in [Slot -> Heads], NEW lo \in Index, NEW hi \in Index, NEW h \in Heads,
         Sub(hi, lo) < Size
  PROVE  Window([ring EXCEPT ![hi % Size] = h], lo, Inc(hi)) = Append(Window(ring, lo, hi), h)
<1> DEFINE new == [ring EXCEPT ![hi % Size] = h]
           n == Sub(hi, lo)
           s == Window(ring, lo, hi)
           t == Window(new, lo, Inc(hi))
<1>1. n \in Nat /\ lo \in Nat /\ hi \in Nat
  BY IndexClosed, SizeAssumption DEF Index
<1>2. Inc(hi) \in Index /\ Sub(Inc(hi), lo) = n + 1
  BY <1>1, IndexClosed, SubInc, SizeAssumption
<1>3. hi % Size \in Slot
  BY <1>1, Division DEF Slot
<1>4. new \in [Slot -> Heads]
  BY <1>3
<1>5. s \in Seq(Heads) /\ Len(s) = n /\ \A i \in 1..n : s[i] = ring[(lo + i - 1) % Size]
  BY WindowIsSeq
<1> HIDE DEF new, s, t, n
<1>6. t \in Seq(Heads) /\ Len(t) = n + 1 /\ \A i \in 1..(n + 1) : t[i] = new[(lo + i - 1) % Size]
  BY ZenonT(60), <1>2, <1>4, WindowIsSeq DEF t
<1>7. ASSUME NEW i \in 1..n PROVE t[i] = s[i]
  <2>1. i - 1 \in 0..(Size - 1) /\ n \in 0..(Size - 1) /\ i - 1 # n
    BY <1>1, SizeAssumption DEF n
  <2>2. (lo + (i - 1)) % Size # (lo + n) % Size
    BY <2>1, SlotsApart
  <2>3. (lo + n) % Size = hi % Size
    BY FrontSlot DEF n
  <2>4. lo + (i - 1) = lo + i - 1 /\ lo + i - 1 \in Nat
    BY <1>1
  <2>5. (lo + i - 1) % Size \in Slot
    BY <2>4, Division DEF Slot
  <2>6. new[(lo + i - 1) % Size] = ring[(lo + i - 1) % Size]
    BY <2>2, <2>3, <2>4, <2>5 DEF new
  <2> QED
    BY <1>1, <1>5, <1>6, <2>6
<1>8. t[n + 1] = h
  <2>1. lo + (n + 1) - 1 = lo + n
    BY <1>1
  <2>2. (lo + n) % Size = hi % Size
    BY FrontSlot DEF n
  <2>3. new[hi % Size] = h
    BY <1>3 DEF new
  <2> QED
    BY <1>1, <1>6, <2>1, <2>2, <2>3
<1>9. /\ Append(s, h) \in Seq(Heads) /\ Len(Append(s, h)) = n + 1
      /\ \A i \in 1..n : Append(s, h)[i] = s[i]
      /\ Append(s, h)[n + 1] = h
  BY <1>5, AppendProperties
<1>10. \A i \in 1..(n + 1) : t[i] = Append(s, h)[i]
  BY <1>1, <1>7, <1>8, <1>9
<1>11. t = Append(s, h)
  BY <1>6, <1>9, <1>10, SeqEqual
<1> QED
  BY <1>11 DEF t, s, new

\* Moving the back index on drops the first entry of the window.
LEMMA WindowPop ==
  ASSUME NEW ring \in [Slot -> Heads], NEW lo \in Index, NEW hi \in Index, lo # hi
  PROVE  /\ Window(ring, lo, hi) # <<>>
         /\ Head(Window(ring, lo, hi)) = ring[lo % Size]
         /\ Window(ring, Inc(lo), hi) = Tail(Window(ring, lo, hi))
<1> DEFINE n == Sub(hi, lo)
           s == Window(ring, lo, hi)
           t == Window(ring, Inc(lo), hi)
<1>1. n \in Nat \ {0} /\ lo \in Nat
  BY IndexClosed, SubZero, SizeAssumption DEF Index
<1>2. Inc(lo) \in Index /\ Sub(hi, Inc(lo)) = n - 1
  BY IndexClosed, SubDec
<1>3. s \in Seq(Heads) /\ Len(s) = n /\ \A i \in 1..n : s[i] = ring[(lo + i - 1) % Size]
  BY WindowIsSeq
<1> HIDE DEF s, t, n
<1>4. t \in Seq(Heads) /\ Len(t) = n - 1 /\ \A i \in 1..(n - 1) : t[i] = ring[(Inc(lo) + i - 1) % Size]
  BY ZenonT(60), <1>2, WindowIsSeq DEF t
<1>5. s # <<>>
  BY <1>1, <1>3, EmptySeq
<1>6. /\ Tail(s) \in Seq(Heads) /\ Len(Tail(s)) = n - 1
      /\ \A i \in 1..(n - 1) : Tail(s)[i] = s[i + 1]
  BY <1>3, <1>5, HeadTailProperties
<1>7. ASSUME NEW i \in 1..(n - 1) PROVE t[i] = s[i + 1]
  <2>1. i - 1 \in Nat /\ i + 1 \in 1..n
    BY <1>1
  <2>2. (Inc(lo) + (i - 1)) % Size = (lo + (i - 1) + 1) % Size
    BY <2>1, NextSlot
  <2>3. Inc(lo) + (i - 1) = Inc(lo) + i - 1 /\ lo + (i - 1) + 1 = lo + (i + 1) - 1
    BY <1>1, <1>2, SizeAssumption DEF Index
  <2> QED
    BY <1>3, <1>4, <2>1, <2>2, <2>3
<1>8. t = Tail(s)
  BY <1>4, <1>6, <1>7, SeqEqual
<1>9. Head(s) = ring[lo % Size]
  <2>1. s[1] = ring[(lo + 1 - 1) % Size]
    BY <1>1, <1>3
  <2>2. lo + 1 - 1 = lo
    BY <1>1
  <2> QED
    BY <2>1, <2>2 DEF Head
<1> QED
  BY <1>5, <1>8, <1>9 DEF s, t

\* An empty window is the empty sequence.
LEMMA WindowEmpty ==
  ASSUME NEW ring \in [Slot -> Heads], NEW lo \in Index
  PROVE  Window(ring, lo, lo) = <<>>
<1>1. Sub(lo, lo) = 0
  BY SubZero
<1>2. Window(ring, lo, lo) \in Seq(Heads) /\ Len(Window(ring, lo, lo)) = 0
  BY <1>1, WindowIsSeq
<1> QED
  BY <1>2, EmptySeq

\* Appending adds one element.
LEMMA Appended ==
  ASSUME NEW s \in Seq(Heads), NEW h \in Heads
  PROVE  /\ Channel!Elems(Append(s, h)) = Channel!Elems(s) \cup {h}
         /\ Distinct(s) /\ h \notin Channel!Elems(s) => Distinct(Append(s, h))
<1> DEFINE n == Len(s)
           t == Append(s, h)
<1>1. n \in Nat
  BY LenProperties
<1>2. Len(t) = n + 1 /\ t[n + 1] = h /\ \A i \in 1..n : t[i] = s[i]
  BY AppendProperties
<1> HIDE DEF t, n
<1>3. 1..(n + 1) = (1..n) \cup {n + 1} /\ n + 1 \notin 1..n
  BY <1>1
<1>4. {t[i] : i \in 1..(n + 1)} = {s[i] : i \in 1..n} \cup {h}
  BY <1>2, <1>3
<1>5. Channel!Elems(t) = Channel!Elems(s) \cup {h}
  BY <1>2, <1>4 DEF Channel!Elems, n
<1>6. ASSUME Distinct(s), h \notin Channel!Elems(s),
             NEW i \in 1..(n + 1), NEW j \in 1..(n + 1), t[i] = t[j]
      PROVE  i = j
  <2>1. \A k \in 1..n : t[k] # h
    BY <1>2, <1>6 DEF Channel!Elems, n
  <2>2. CASE i \in 1..n /\ j \in 1..n
    BY <1>2, <1>6, <2>2 DEF Distinct, n
  <2> QED
    BY <1>2, <1>3, <1>6, <2>1, <2>2
<1> QED
  BY <1>2, <1>5, <1>6 DEF Distinct, t

\* Taking the first element of a sequence without repetitions removes it.
LEMMA Removed ==
  ASSUME NEW s \in Seq(Heads), s # <<>>, Distinct(s)
  PROVE  /\ Channel!Elems(Tail(s)) = Channel!Elems(s) \ {Head(s)}
         /\ Head(s) \in Channel!Elems(s)
         /\ Distinct(Tail(s))
<1> DEFINE n == Len(s)
           t == Tail(s)
<1>1. n \in Nat \ {0}
  BY EmptySeq
<1>2. Len(t) = n - 1 /\ \A i \in 1..(n - 1) : t[i] = s[i + 1]
  BY HeadTailProperties
<1>3. Head(s) = s[1]
  BY DEF Head
<1> HIDE DEF t, n
<1>4. \A x : x \in {t[i] : i \in 1..(n - 1)} => x \in {s[i] : i \in 1..n} \ {s[1]}
  <2> SUFFICES ASSUME NEW i \in 1..(n - 1) PROVE t[i] \in {s[k] : k \in 1..n} \ {s[1]}
    OBVIOUS
  <2>1. i + 1 \in 1..n /\ 1 \in 1..n /\ i + 1 # 1
    BY <1>1
  <2>2. s[i + 1] # s[1]
    BY <2>1 DEF Distinct, n
  <2> QED
    BY <1>2, <2>1, <2>2
<1>5. \A x : x \in {s[i] : i \in 1..n} \ {s[1]} => x \in {t[i] : i \in 1..(n - 1)}
  <2> SUFFICES ASSUME NEW i \in 1..n, s[i] # s[1] PROVE s[i] \in {t[k] : k \in 1..(n - 1)}
    OBVIOUS
  <2>1. i # 1
    OBVIOUS
  <2>2. i - 1 \in 1..(n - 1) /\ (i - 1) + 1 = i
    BY <1>1, <2>1
  <2>3. t[i - 1] = s[i]
    BY <1>2, <2>2
  <2> QED
    BY <2>2, <2>3
<1>6. Channel!Elems(t) = Channel!Elems(s) \ {s[1]}
  BY <1>2, <1>4, <1>5 DEF Channel!Elems, n
<1>7. s[1] \in Channel!Elems(s)
  BY <1>1 DEF Channel!Elems, n
<1>8. ASSUME NEW i \in 1..(n - 1), NEW j \in 1..(n - 1), t[i] = t[j]
      PROVE  i = j
  <2>1. i + 1 \in 1..n /\ j + 1 \in 1..n
    BY <1>1
  <2>2. i + 1 = j + 1
    BY <1>2, <1>8, <2>1 DEF Distinct, n
  <2> QED
    BY <1>1, <2>2
<1> QED
  BY <1>2, <1>3, <1>6, <1>7, <1>8 DEF Distinct, t

\* A head outside a sequence without repetitions leaves room for it.
LEMMA Room ==
  ASSUME NEW s \in Seq(Heads), Distinct(s), NEW h \in Heads, h \notin Channel!Elems(s)
  PROVE  Len(s) < Size
<1> SUFFICES ASSUME ~(Len(s) < Size) PROVE FALSE
  OBVIOUS
<1> DEFINE n == Len(s)
           T == Heads \ {h}
<1>1. n \in Nat /\ s \in [1..n -> Heads]
  BY LenProperties
<1>2. \A i \in 1..n : s[i] \in T
  BY <1>1 DEF Channel!Elems
<1>3. s \in [1..n -> T]
  BY <1>1, <1>2
<1>4. IsFiniteSet(1..n) /\ Cardinality(1..n) = n
  <2>1. IsFiniteSet(1..n) /\ Cardinality(1..n) = IF 1 > n THEN 0 ELSE n - 1 + 1
    BY SMTT(60), <1>1, FS_Interval
  <2> QED
    BY <1>1, <2>1
<1>5. IsFiniteSet(Heads) /\ Cardinality(Heads) = Size
  <2>1. Size \in Nat \ {0} /\ 0 \in Int /\ Size - 1 \in Int
    BY SizeAssumption
  <2>2. /\ IsFiniteSet(0..(Size - 1))
        /\ Cardinality(0..(Size - 1)) = IF 0 > Size - 1 THEN 0 ELSE Size - 1 - 0 + 1
    BY <2>1, FS_Interval
  <2> QED
    BY <2>1, <2>2 DEF Heads
<1>6. IsFiniteSet(T) /\ Cardinality(T) = Size - 1
  BY <1>5, FS_RemoveElement
<1>7. Cardinality(T) < Cardinality(1..n)
  BY <1>1, <1>4, <1>6, SizeAssumption
<1> HIDE DEF T
<1>8. \E x, y \in 1..n : x # y /\ s[x] = s[y]
  BY <1>3, <1>4, <1>6, <1>7, FS_PigeonHole
<1> QED
  BY <1>8 DEF Distinct

-----------------------------------------------------------------------------
(* The rings implement the request channel.  The induction is over RingInv: *)
(* the free heads, the two windows and the requests in flight share none.   *)

\* The windows of the two rings are sequences of heads.
LEMMA RingsAreSeqs ==
  ASSUME TypeOK
  PROVE  /\ Submitted \in Seq(Heads) /\ Len(Submitted) = Sub(availIdx, last_avail)
         /\ Retired \in Seq(Heads) /\ Len(Retired) = Sub(last_used_idx, reaped)
  BY ZenonT(60), WindowIsSeq DEF TypeOK, Submitted, Retired

\* At the start both rings are empty and every head is free.
LEMMA RingInvInit == Init => RingInv /\ Channel!Init
<1> SUFFICES ASSUME Init PROVE RingInv /\ Channel!Init
  OBVIOUS
<1>1. 0 \in Index /\ 0 \in Heads
  BY SizeAssumption DEF Index, Heads
<1>2. availRing \in [Slot -> Heads] /\ usedRing \in [Slot -> Heads]
  BY <1>1 DEF Init
<1>3. Submitted = <<>> /\ Retired = <<>> /\ inflight = {}
  BY <1>1, <1>2, WindowEmpty DEF Init, Submitted, Retired
<1>4. Distinct(<<>>) /\ Channel!Elems(<<>>) = {}
  <2>1. Len(<<>>) = 0
    BY EmptySeq
  <2> QED
    BY <2>1 DEF Distinct, Channel!Elems
<1>5. Sub(0, 0) = 0
  BY <1>1, SubZero
<1> QED
  BY <1>3, <1>4, <1>5 DEF Init, RingInv, Channel!Init, Channel!Owned

\* The driver's push: the slot it writes is free, because a head is in one
\* place at a time.
LEMMA AddBufStep ==
  ASSUME TypeOK, RingInv, NEW h \in Heads, AddBuf(h)
  PROVE  RingInv' /\ Channel!Submit(h)
<1>1. /\ h \in free /\ free' = free \ {h}
      /\ availRing' = [availRing EXCEPT ![availIdx % Size] = h]
      /\ availIdx' = Inc(availIdx)
      /\ UNCHANGED <<usedIdx, usedRing, last_avail, last_used_idx, storedUsed, inflight, reaped>>
  BY DEF AddBuf, queue, device
<1>2. h \notin Channel!Owned
  BY <1>1 DEF RingInv
<1>3. Submitted \in Seq(Heads) /\ Len(Submitted) = Sub(availIdx, last_avail)
  BY RingsAreSeqs
<1>4. Sub(availIdx, last_avail) < Size
  BY <1>2, <1>3, Room DEF RingInv, Channel!Owned
<1>5. Submitted' = Append(Submitted, h)
  <2>1. /\ availRing \in [Slot -> Heads] /\ last_avail \in Index /\ availIdx \in Index
        /\ last_avail' = last_avail
    BY <1>1 DEF TypeOK
  <2>2. Window([availRing EXCEPT ![availIdx % Size] = h], last_avail, Inc(availIdx))
          = Append(Window(availRing, last_avail, availIdx), h)
    BY <1>4, <2>1, WindowPush
  <2> QED
    BY <1>1, <2>1, <2>2 DEF Submitted
<1>6. Retired' = Retired
  BY <1>1 DEF Retired
<1>7. Channel!Elems(Submitted') = Channel!Elems(Submitted) \cup {h} /\ Distinct(Submitted')
  BY <1>2, <1>3, <1>5, Appended DEF RingInv, Channel!Owned
<1>8. Channel!Owned' = Channel!Owned \cup {h}
  BY <1>1, <1>6, <1>7 DEF Channel!Owned
<1>9. RingInv'
  <2>1. Distinct(Submitted)' /\ Distinct(Retired)'
    BY <1>6, <1>7 DEF RingInv
  <2>2. (free \cap Channel!Owned = {})'
    BY <1>1, <1>8 DEF RingInv
  <2>3. (inflight \cap (Channel!Elems(Submitted) \cup Channel!Elems(Retired)) = {})'
    BY <1>1, <1>2, <1>6, <1>7 DEF RingInv, Channel!Owned
  <2>4. (Channel!Elems(Submitted) \cap Channel!Elems(Retired) = {})'
    BY <1>2, <1>6, <1>7 DEF RingInv, Channel!Owned
  <2> QED
    BY <1>1, <2>1, <2>2, <2>3, <2>4 DEF RingInv
<1> QED
  BY <1>1, <1>2, <1>5, <1>6, <1>9 DEF Channel!Submit

\* The pump's pop: it takes the oldest entry published.
LEMMA TakeStep ==
  ASSUME TypeOK, RingInv, availIdx # last_avail, TakeEntry,
         UNCHANGED <<memory, last_used_idx, storedUsed, driver>>
  PROVE  RingInv' /\ Channel!Take
<1> DEFINE head == availRing[last_avail % Size]
<1>1. /\ inflight' = inflight \cup {head}
      /\ last_avail' = Inc(last_avail)
      /\ UNCHANGED <<availIdx, availRing, usedIdx, usedRing, last_used_idx, storedUsed, free, reaped>>
  BY DEF TakeEntry, memory, driver
<1>2. Submitted \in Seq(Heads)
  BY RingsAreSeqs
<1>3. Submitted # <<>> /\ Head(Submitted) = head /\ Submitted' = Tail(Submitted)
  BY <1>1, WindowPop DEF TypeOK, Submitted
<1> HIDE DEF head
<1>4. Retired' = Retired
  BY <1>1 DEF Retired
<1>5. /\ Channel!Elems(Submitted') = Channel!Elems(Submitted) \ {head}
      /\ head \in Channel!Elems(Submitted)
      /\ Distinct(Submitted')
  BY <1>2, <1>3, Removed DEF RingInv
<1>6. Channel!Owned' = Channel!Owned
  BY <1>1, <1>4, <1>5 DEF Channel!Owned
<1>7. RingInv'
  <2>1. Distinct(Submitted)' /\ Distinct(Retired)'
    BY <1>4, <1>5 DEF RingInv
  <2>2. (free \cap Channel!Owned = {})'
    BY <1>1, <1>6 DEF RingInv
  <2>3. (inflight \cap (Channel!Elems(Submitted) \cup Channel!Elems(Retired)) = {})'
    BY <1>1, <1>4, <1>5 DEF RingInv
  <2>4. (Channel!Elems(Submitted) \cap Channel!Elems(Retired) = {})'
    BY <1>4, <1>5 DEF RingInv
  <2> QED
    BY <1>1, <2>1, <2>2, <2>3, <2>4 DEF RingInv
<1> QED
  BY <1>1, <1>3, <1>4, <1>7 DEF Channel!Take

\* The device's push: the element goes to a slot the driver has reaped.
LEMMA AddUsedStep ==
  ASSUME TypeOK, RingInv, NEW t \in Threads, NEW h \in Heads, AddUsed(t, h)
  PROVE  RingInv' /\ Channel!Complete(h)
<1>1. /\ h \in inflight /\ inflight' = inflight \ {h}
      /\ usedRing' = [usedRing EXCEPT ![last_used_idx % Size] = h]
      /\ last_used_idx' = Inc(last_used_idx)
      /\ UNCHANGED <<availIdx, availRing, usedIdx, last_avail, storedUsed, free, reaped>>
  BY DEF AddUsed, driver
<1>2. h \notin Channel!Elems(Submitted) /\ h \notin Channel!Elems(Retired)
  BY <1>1 DEF RingInv
<1>3. Retired \in Seq(Heads) /\ Len(Retired) = Sub(last_used_idx, reaped)
  BY RingsAreSeqs
<1>4. Sub(last_used_idx, reaped) < Size
  BY <1>2, <1>3, Room DEF RingInv
<1>5. Retired' = Append(Retired, h)
  <2>1. /\ usedRing \in [Slot -> Heads] /\ last_used_idx \in Index /\ reaped \in Index
        /\ reaped' = reaped
    BY <1>1 DEF TypeOK
  <2>2. Window([usedRing EXCEPT ![last_used_idx % Size] = h], reaped, Inc(last_used_idx))
          = Append(Window(usedRing, reaped, last_used_idx), h)
    BY <1>4, <2>1, WindowPush
  <2> QED
    BY <1>1, <2>1, <2>2 DEF Retired
<1>6. Submitted' = Submitted
  BY <1>1 DEF Submitted
<1>7. Channel!Elems(Retired') = Channel!Elems(Retired) \cup {h} /\ Distinct(Retired')
  BY <1>2, <1>3, <1>5, Appended DEF RingInv
<1>8. Channel!Owned' = Channel!Owned
  BY <1>1, <1>6, <1>7 DEF Channel!Owned
<1>9. /\ Sub(last_used_idx', storedUsed') <= Sub(last_used_idx', usedIdx')
      /\ Sub(last_used_idx', usedIdx') <= Sub(last_used_idx', reaped')
  <2>1. /\ Sub(last_used_idx, storedUsed) \in Nat /\ Sub(last_used_idx, usedIdx) \in Nat
        /\ Sub(last_used_idx, reaped) \in Nat
    BY IndexIsNat DEF TypeOK
  <2>2. /\ Sub(last_used_idx, storedUsed) < W - 1 /\ Sub(last_used_idx, usedIdx) < W - 1
        /\ Sub(last_used_idx, reaped) < W - 1
    BY <1>4, <2>1, SizeAssumption DEF RingInv
  <2>3. /\ Sub(last_used_idx', storedUsed) = Sub(last_used_idx, storedUsed) + 1
        /\ Sub(last_used_idx', usedIdx) = Sub(last_used_idx, usedIdx) + 1
        /\ Sub(last_used_idx', reaped) = Sub(last_used_idx, reaped) + 1
    BY <1>1, <2>2, SubInc DEF TypeOK
  <2> QED
    BY <1>1, <2>1, <2>3 DEF RingInv
<1>10. RingInv'
  <2>1. Distinct(Submitted)' /\ Distinct(Retired)'
    BY <1>6, <1>7 DEF RingInv
  <2>2. (free \cap Channel!Owned = {})'
    BY <1>1, <1>8 DEF RingInv
  <2>3. (inflight \cap (Channel!Elems(Submitted) \cup Channel!Elems(Retired)) = {})'
    BY <1>1, <1>6, <1>7 DEF RingInv
  <2>4. (Channel!Elems(Submitted) \cap Channel!Elems(Retired) = {})'
    BY <1>2, <1>6, <1>7 DEF RingInv
  <2> QED
    BY <1>9, <2>1, <2>2, <2>3, <2>4 DEF RingInv
<1> QED
  BY <1>1, <1>5, <1>6, <1>10 DEF Channel!Complete

\* The driver's pop: what it sees as used has been retired.
LEMMA GetBufStep ==
  ASSUME TypeOK, RingInv, GetBuf
  PROVE  RingInv' /\ Channel!Reap
<1> DEFINE head == usedRing[reaped % Size]
<1>1. /\ usedIdx # reaped
      /\ free' = free \cup {head}
      /\ reaped' = Inc(reaped)
      /\ UNCHANGED <<availIdx, availRing, usedIdx, usedRing, last_avail, last_used_idx,
                     storedUsed, inflight>>
  BY DEF GetBuf, memory, queue, device
<1>2. /\ Sub(last_used_idx, usedIdx) \in Nat /\ Sub(last_used_idx, reaped) \in Nat
      /\ Sub(last_used_idx, usedIdx) <= Sub(last_used_idx, reaped)
  BY IndexClosed, SizeAssumption DEF TypeOK, Index, RingInv
<1>3. Sub(last_used_idx, usedIdx) # Sub(last_used_idx, reaped)
  BY <1>1, SizeAssumption DEF TypeOK, Index, Sub
<1>4. reaped # last_used_idx
  BY <1>2, <1>3, SubZero DEF TypeOK
<1>5. Sub(last_used_idx, Inc(reaped)) = Sub(last_used_idx, reaped) - 1
  BY <1>4, SubDec DEF TypeOK
<1>6. Retired \in Seq(Heads)
  BY RingsAreSeqs
<1>7. Retired # <<>> /\ Head(Retired) = head /\ Retired' = Tail(Retired)
  BY <1>1, <1>4, WindowPop DEF TypeOK, Retired
<1> HIDE DEF head
<1>8. Submitted' = Submitted
  BY <1>1 DEF Submitted
<1>9. /\ Channel!Elems(Retired') = Channel!Elems(Retired) \ {head}
      /\ head \in Channel!Elems(Retired)
      /\ Distinct(Retired')
  BY <1>6, <1>7, Removed DEF RingInv
<1>10. Channel!Owned' = Channel!Owned \ {head}
  BY <1>1, <1>8, <1>9 DEF Channel!Owned, RingInv
<1>11. RingInv'
  <2>1. Distinct(Submitted)' /\ Distinct(Retired)'
    BY <1>8, <1>9 DEF RingInv
  <2>2. (free \cap Channel!Owned = {})'
    BY <1>1, <1>10 DEF RingInv
  <2>3. (inflight \cap (Channel!Elems(Submitted) \cup Channel!Elems(Retired)) = {})'
    BY <1>1, <1>8, <1>9 DEF RingInv
  <2>4. (Channel!Elems(Submitted) \cap Channel!Elems(Retired) = {})'
    BY <1>8, <1>9 DEF RingInv
  <2>5. /\ Sub(last_used_idx', storedUsed') <= Sub(last_used_idx', usedIdx')
        /\ Sub(last_used_idx', usedIdx') <= Sub(last_used_idx', reaped')
    BY <1>1, <1>2, <1>3, <1>5 DEF RingInv
  <2> QED
    BY <2>1, <2>2, <2>3, <2>4, <2>5 DEF RingInv
<1> QED
  BY <1>1, <1>7, <1>8, <1>11 DEF Channel!Reap

\* Every step keeps the heads apart and is a step of the channel, or none.
LEMMA RingStep ==
  TypeOK /\ RingInv /\ [Next]_vars => RingInv' /\ [Channel!Next]_(Channel!vars)
<1> SUFFICES ASSUME TypeOK, RingInv, [Next]_vars
             PROVE  RingInv' /\ [Channel!Next]_(Channel!vars)
  OBVIOUS
<1> DEFINE Goal == RingInv' /\ [Channel!Next]_(Channel!vars)
<1> SUFFICES Goal
  OBVIOUS
<1>0. ASSUME UNCHANGED <<availIdx, availRing, usedRing, last_avail, last_used_idx,
                         inflight, free, reaped>>,
             /\ Sub(last_used_idx, storedUsed') <= Sub(last_used_idx, usedIdx')
             /\ Sub(last_used_idx, usedIdx') <= Sub(last_used_idx, reaped)
      PROVE  Goal
  <2>1. Submitted' = Submitted /\ Retired' = Retired
    BY <1>0 DEF Submitted, Retired
  <2>2. Channel!Owned' = Channel!Owned
    BY <1>0, <2>1 DEF Channel!Owned
  <2> QED
    BY <1>0, <2>1, <2>2 DEF RingInv, Channel!vars
<1>1. CASE UNCHANGED <<availIdx, availRing, usedRing, last_avail, last_used_idx,
                       inflight, free, reaped, storedUsed, usedIdx>>
  BY <1>0, <1>1 DEF RingInv
<1> HIDE DEF Goal
<1>2. CASE DrainEvent BY <1>1, <1>2 DEF DrainEvent, queue, device, driver
<1>3. CASE DrainUsed
  <2>1. Sub(last_used_idx, storedUsed) \in Nat /\ Sub(last_used_idx, usedIdx) \in Nat
        /\ Sub(last_used_idx, reaped) \in Nat
    BY IndexIsNat DEF TypeOK
  <2>2. usedIdx' = storedUsed /\ storedUsed' = storedUsed
    BY <1>3 DEF DrainUsed, queue
  <2>3. /\ Sub(last_used_idx, storedUsed') <= Sub(last_used_idx, usedIdx')
        /\ Sub(last_used_idx, usedIdx') <= Sub(last_used_idx, reaped)
    BY <2>1, <2>2 DEF RingInv
  <2>4. UNCHANGED <<availIdx, availRing, usedRing, last_avail, last_used_idx,
                    inflight, free, reaped>>
    BY <1>3 DEF DrainUsed, queue, device, driver
  <2> QED
    BY <1>0, <2>3, <2>4
<1>4. CASE Wake BY <1>1, <1>4 DEF Wake, memory, queue, driver
<1>5. CASE PopTake
  <2>1. RingInv' /\ Channel!Take
    BY <1>5, TakeStep DEF PopTake
  <2> QED
    BY <2>1 DEF Goal, Channel!Next
<1>6. CASE PopEmpty BY <1>1, <1>6 DEF PopEmpty, memory, driver
<1>7. CASE Recheck
  <2>1. CASE availIdx = last_avail
    BY <1>1, <1>7, <2>1 DEF Recheck, memory, driver
  <2>2. CASE availIdx # last_avail
    <3>1. RingInv' /\ Channel!Take
      BY <1>7, <2>2, TakeStep DEF Recheck
    <3> QED
      BY <3>1 DEF Goal, Channel!Next
  <2> QED
    BY <2>1, <2>2
<1>8. CASE PollHit BY <1>1, <1>8 DEF PollHit, memory, queue, driver
<1>9. CASE PollExpire BY <1>1, <1>9 DEF PollExpire, memory, queue, driver
<1>10. ASSUME NEW t \in Threads, NEW h \in Heads, AddUsed(t, h) PROVE Goal
  BY <1>10, AddUsedStep DEF Goal, Channel!Next
<1>11. ASSUME NEW t \in Threads, PublishUsed(t) PROVE Goal
  <2>1. storedUsed' = last_used_idx /\ usedIdx' = usedIdx
    BY <1>11 DEF PublishUsed, memory
  <2>2. Sub(last_used_idx, last_used_idx) = 0 /\ Sub(last_used_idx, usedIdx) \in Nat
    BY SubZero, IndexIsNat DEF TypeOK
  <2>3. /\ Sub(last_used_idx, storedUsed') <= Sub(last_used_idx, usedIdx')
        /\ Sub(last_used_idx, usedIdx') <= Sub(last_used_idx, reaped)
    BY <2>1, <2>2 DEF RingInv
  <2> QED
    BY <1>0, <1>11, <2>3 DEF PublishUsed, memory, driver
<1>12. ASSUME NEW t \in Threads, ShouldInterruptDriver(t) PROVE Goal
  <2>1. UNCHANGED <<availIdx, availRing, usedRing, last_avail, last_used_idx,
                    inflight, free, reaped, storedUsed, usedIdx>>
    BY <1>12 DEF ShouldInterruptDriver, memory, driver
  <2> QED
    BY <1>1, <2>1
<1>13. ASSUME NEW h \in Heads, AddBuf(h) PROVE Goal
  BY <1>13, AddBufStep DEF Goal, Channel!Next
<1>14. CASE KickPrepare BY <1>1, <1>14 DEF KickPrepare, memory, queue
<1>15. CASE TakeIrq BY <1>1, <1>15 DEF TakeIrq, queue
<1>16. CASE GetBuf
  BY <1>16, GetBufStep DEF Goal, Channel!Next
<1>17. CASE EnableCb BY <1>1, <1>17 DEF EnableCb, queue, device
<1>18. CASE PollUsed BY <1>1, <1>18 DEF PollUsed, memory, queue, device
<1>19. CASE UNCHANGED vars BY <1>1, <1>19 DEF vars, memory, queue, device, driver
<1> QED
  BY <1>2, <1>3, <1>4, <1>5, <1>6, <1>7, <1>8, <1>9, <1>10, <1>11, <1>12,
     <1>13, <1>14, <1>15, <1>16, <1>17, <1>18, <1>19
  DEF Next, PumpNext, DriverNext, RetireNext

\* The two rings of queue.rs are a request channel: whatever the index width, the
\* queue size and the interleaving, requests are taken in the order they were
\* published, each is retired once, retirements are reaped in the order they were
\* made, and no slot is overwritten while its entry is live.
THEOREM RingsAreAChannel == Spec => ChannelSafety
  BY TypeCorrect, RingInvInit, RingStep, PTL DEF Spec, ChannelSafety
=============================================================================
