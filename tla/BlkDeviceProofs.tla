--------------------------- MODULE BlkDeviceProofs ---------------------------
(***************************************************************************)
(* Proofs about BlkDevice, for any number of drain threads, requests, pool *)
(* slots, segment slots and resets.                                        *)
(*                                                                         *)
(* The argument is one of ownership.  A request that is being taken apart  *)
(* or finished belongs to the one thread at work on it; in between, its    *)
(* `outstanding' counts the segments that still point at it and the        *)
(* submission guard, so the thread that takes the count to zero knows that *)
(* nobody else can reach the request any more.                             *)
(***************************************************************************)
EXTENDS BlkDevice, FiniteSetTheorems, TLAPS

-----------------------------------------------------------------------------
(* The inductive invariant.                                                *)

\* Where a thread has a request to itself: before the parent slot is taken, and
\* from the last decrement of `outstanding' on.
Early == {"parse", "acquire"}
Fin == {"check", "status", "push", "release", "irq", "raise", "settle"}
Sole == Early \cup Fin
\* Where a thread is in on_seg_complete, and where a drain holds the submission
\* guard.
InSeg == {"complete", "scatter", "seg_end"}
Guard == {"submit", "start"} \cup InSeg
Working == Sole \cup Guard
Draining == {"pop"} \cup Working
Waiting == {"q_wait", "quiesced"}
Callers == Threads \ {Worker}

\* A drain runs under drain_chain, the worker only completes and finishes, and
\* only quiesce waits.
ThreadInv ==
  /\ \A t \in Callers : pc[t] \in Draining => drain_chain = t
  /\ pc[Worker] \in {"idle"} \cup InSeg \cup Fin
  /\ \A t \in Threads : pc[t] \in Waiting => t = Main
  /\ \A t \in Threads : pc[t] \in Working <=> cur[t] # None
  /\ \A t \in Threads : pc[t] \in {"start"} \cup InSeg <=> op[t] # None

\* Who may work on what: a thread's request is live, a busy segment belongs to a
\* live request, a thread's segment is its own and of its request, and the
\* worker shares a request with a drain only as long as both count on it.
WorkInv ==
  /\ \A t \in Threads : cur[t] # None => req[cur[t]].live
  /\ \A s \in SegSlots : seg[s].st # "free" => seg[s].parent # None /\ req[seg[s].parent].live
  /\ \A t \in Threads : op[t] # None =>
       seg[op[t]].parent = cur[t] /\ seg[op[t]].st = IF pc[t] = "start" THEN "start" ELSE "done"
  /\ \A t \in Callers : op[t] # None => op[t] # op[Worker]
  /\ \A t \in Callers : cur[t] # None /\ cur[t] = cur[Worker] =>
       pc[t] \in Guard /\ pc[Worker] \in InSeg

\* What `active' and `outstanding' count; a request somebody has to himself has
\* no busy segment.
SegsOf(r) == {s \in SegSlots : seg[s].st # "free" /\ seg[s].parent = r}
Guarded(r) == \E t \in Callers : cur[t] = r /\ pc[t] \in Guard
ActiveInv == active = Cardinality(Live)
OutstandingInv ==
  \A r \in Live : req[r].outstanding = Cardinality(SegsOf(r)) + IF Guarded(r) THEN 1 ELSE 0
SoleInv ==
  \A t \in Threads : pc[t] \in Sole =>
    \A s \in SegSlots : seg[s].st # "free" => seg[s].parent # cur[t]
CountInv == ActiveInv /\ OutstandingInv /\ SoleInv

\* Which request has which slot.
SlotInv ==
  /\ \A r, q \in Reqs : req[r].slot = req[q].slot /\ req[r].slot # None => r = q
  /\ \A p \in Slots : p \in pool <=> \A r \in Reqs : req[r].slot # p
  /\ \A r \in Reqs : ~req[r].live => req[r].slot = None
  /\ \A t \in Threads : pc[t] \in Early \cup {"irq", "raise", "settle"} => req[cur[t]].slot = None
  /\ \A t \in Threads : pc[t] \in Guard => req[cur[t]].slot # None
  /\ \A s \in SegSlots : seg[s].st # "free" => req[seg[s].parent].slot # None
BounceInv ==
  /\ \A r, q \in Reqs :
       req[r].bounce_slot = req[q].bounce_slot /\ req[r].bounce_slot # None => r = q
  /\ \A b \in BounceSlots : b \in bounce_pool <=> \A r \in Reqs : req[r].bounce_slot # b
  /\ \A r \in Reqs : ~req[r].live => req[r].bounce_slot = None
  /\ \A t \in Threads :
       pc[t] \in Early \cup {"irq", "raise", "settle"} => req[cur[t]].bounce_slot = None

\* Who holds which head, and of which epoch a request is.
Unpushed == Early \cup Guard \cup {"check", "status", "push"}
Holds(r) == req[r].live /\ req[r].epoch = epoch /\ ~req[r].pushed
HeadInv ==
  /\ avail \cup used \subseteq posted /\ avail \cap used = {}
  /\ \A r \in Reqs : req[r].live => req[r].epoch <= epoch
  /\ clean => \A r \in Reqs : req[r].live => req[r].epoch = epoch
  /\ \A r \in Reqs : Holds(r) => req[r].head \in posted \ (avail \cup used)
  /\ \A r, q \in Reqs : Holds(r) /\ Holds(q) /\ req[r].head = req[q].head => r = q
  /\ \A t \in Threads : pc[t] \in Unpushed => ~req[cur[t]].pushed
  /\ \A s \in SegSlots : seg[s].st # "free" => ~req[seg[s].parent].pushed

\* What quiesce relies on.
QuiesceInv ==
  /\ pc[Main] # "idle" => vcpus = "joined"
  /\ pc[Main] \in Waiting => stopped /\ drain_chain = None /\ (ready => avail = {})
  /\ pc[Main] = "quiesced" => active = 0

IInv == TypeOK /\ ThreadInv /\ WorkInv /\ CountInv /\ SlotInv /\ BounceInv /\ HeadInv /\ QuiesceInv

-----------------------------------------------------------------------------
(* The records of the model.                                               *)

Request == [live : BOOLEAN, epoch : 0..MaxEpoch, head : Heads \cup {None},
            slot : Slots \cup {None}, bounce_slot : BounceSlots \cup {None},
            todo : 0..MaxSegs, outstanding : Nat, failed : BOOLEAN, pushed : BOOLEAN]

\* A request keeps its type when a field of it is replaced by a value of that
\* field's type.
LEMMA RequestFields ==
  ASSUME NEW q \in Request
  PROVE  /\ \A b \in BOOLEAN : [q EXCEPT !.failed = b] \in Request
         /\ \A b \in BOOLEAN : [q EXCEPT !.pushed = b] \in Request
         /\ \A n \in Nat : [q EXCEPT !.outstanding = n] \in Request
         /\ \A n \in 0..MaxSegs : [q EXCEPT !.todo = n] \in Request
         /\ \A p \in Slots \cup {None} : [q EXCEPT !.slot = p] \in Request
         /\ \A b \in BounceSlots \cup {None} : [q EXCEPT !.bounce_slot = b] \in Request
<1>1. \A b \in BOOLEAN : [q EXCEPT !.failed = b] \in Request
  BY DEF Request
<1>2. \A b \in BOOLEAN : [q EXCEPT !.pushed = b] \in Request
  BY DEF Request
<1>3. \A n \in Nat : [q EXCEPT !.outstanding = n] \in Request
  BY DEF Request
<1>4. \A n \in 0..MaxSegs : [q EXCEPT !.todo = n] \in Request
  BY DEF Request
<1>5. \A p \in Slots \cup {None} : [q EXCEPT !.slot = p] \in Request
  BY DEF Request
<1>6. \A b \in BounceSlots \cup {None} : [q EXCEPT !.bounce_slot = b] \in Request
  BY DEF Request
<1> QED
  BY <1>1, <1>2, <1>3, <1>4, <1>5, <1>6

\* An idle request, and one just taken, are requests.
LEMMA FreshRequest ==
  /\ Idle \in Request
  /\ \A e \in 0..MaxEpoch, h \in Heads :
       [Idle EXCEPT !.live = TRUE, !.epoch = e, !.head = h] \in Request
<1>1. Idle \in Request
  BY BoundAssumption DEF Idle, Request
<1>2. ASSUME NEW e \in 0..MaxEpoch, NEW h \in Heads
      PROVE  [Idle EXCEPT !.live = TRUE, !.epoch = e, !.head = h] \in Request
  <2>1. \A q \in Request : [q EXCEPT !.live = TRUE] \in Request
    BY DEF Request
  <2>2. \A q \in Request : [q EXCEPT !.epoch = e] \in Request
    BY DEF Request
  <2>3. \A q \in Request : [q EXCEPT !.head = h] \in Request
    BY DEF Request
  <2> QED
    BY <1>1, <2>1, <2>2, <2>3
<1> QED
  BY <1>1, <1>2

-----------------------------------------------------------------------------
(* What the counts say.                                                    *)

\* The counted sets are finite.
LEMMA Finite ==
  /\ IsFiniteSet(Live) /\ Cardinality(Live) \in Nat
  /\ \A r : IsFiniteSet(SegsOf(r)) /\ Cardinality(SegsOf(r)) \in Nat
<1>1. Live \subseteq Reqs
  BY DEF Live
<1>2. IsFiniteSet(Live) /\ Cardinality(Live) \in Nat
  BY <1>1, BoundAssumption, FS_Subset, FS_CardinalityType
<1>3. ASSUME NEW r PROVE IsFiniteSet(SegsOf(r)) /\ Cardinality(SegsOf(r)) \in Nat
  <2>1. SegsOf(r) \subseteq SegSlots
    BY DEF SegsOf
  <2> QED
    BY <2>1, BoundAssumption, FS_Subset, FS_CardinalityType
<1> QED
  BY <1>2, <1>3

\* A nonempty finite set counts at least one, and exactly one only if it is a
\* singleton.
LEMMA CountOfMember ==
  ASSUME NEW S, IsFiniteSet(S), NEW x \in S
  PROVE  /\ Cardinality(S) \in Nat /\ Cardinality(S) >= 1
         /\ Cardinality(S) = 1 => S = {x}
         /\ IsFiniteSet(S \ {x}) /\ Cardinality(S \ {x}) = Cardinality(S) - 1
<1>1. IsFiniteSet(S \ {x}) /\ Cardinality(S \ {x}) = Cardinality(S) - 1
  BY FS_RemoveElement
<1>2. Cardinality(S) \in Nat /\ Cardinality(S \ {x}) \in Nat
  BY <1>1, FS_CardinalityType
<1>3. Cardinality(S) = 1 => S \ {x} = {}
  BY <1>1, FS_EmptySet
<1> QED
  BY <1>1, <1>2, <1>3

\* A request that is being worked on is live, so something is active.
LEMMA ActivePositive ==
  ASSUME IInv, NEW t \in Threads, pc[t] \in Working
  PROVE  active \in Nat /\ active >= 1
<1>1. cur[t] \in Live
  BY DEF IInv, TypeOK, ThreadInv, WorkInv, Live
<1> QED
  BY <1>1, Finite, CountOfMember DEF IInv, CountInv, ActiveInv

\* A thread at work has a request.
LEMMA OwnRequest ==
  ASSUME IInv, NEW t \in Threads, pc[t] \in Working
  PROVE  req \in [Reqs -> Request] /\ cur[t] \in Reqs /\ req[cur[t]] \in Request
<1>1. req \in [Reqs -> Request]
  BY DEF IInv, TypeOK, Request
<1>2. cur[t] \in Reqs
  BY DEF IInv, TypeOK, ThreadInv
<1> QED
  BY <1>1, <1>2

\* The segment a thread completes is one of its request's.
LEMMA OwnSegment ==
  ASSUME IInv, NEW t \in Threads, pc[t] \in {"start"} \cup InSeg
  PROVE  cur[t] \in Live /\ op[t] \in SegsOf(cur[t])
<1>1. cur[t] # None /\ op[t] # None /\ cur[t] \in Reqs /\ op[t] \in SegSlots
  BY DEF IInv, TypeOK, ThreadInv, InSeg, Guard, Working
<1> QED
  BY <1>1 DEF IInv, WorkInv, Live, SegsOf

\* As long as a thread counts on a request, its count is positive.
LEMMA OutstandingPositive ==
  ASSUME IInv, NEW t \in Threads, pc[t] \in Guard
  PROVE  req[cur[t]].outstanding \in Nat /\ req[cur[t]].outstanding >= 1
<1>1. cur[t] \in Live
  BY DEF IInv, TypeOK, ThreadInv, WorkInv, Live, Working
<1>2. req[cur[t]].outstanding = Cardinality(SegsOf(cur[t])) + IF Guarded(cur[t]) THEN 1 ELSE 0
  BY <1>1 DEF IInv, CountInv, OutstandingInv
<1>3. CASE t = Worker
  <2>1. op[t] \in SegsOf(cur[t])
    BY <1>3, OwnSegment DEF IInv, ThreadInv, Guard, Fin
  <2>2. Cardinality(SegsOf(cur[t])) \in Nat /\ Cardinality(SegsOf(cur[t])) >= 1
    BY <2>1, Finite, CountOfMember
  <2> QED
    BY <1>2, <2>2
<1>4. CASE t # Worker
  <2>1. Guarded(cur[t])
    BY <1>4 DEF Guarded, Callers
  <2> QED
    BY <1>2, <2>1, Finite
<1> QED
  BY <1>3, <1>4

\* on_seg_complete takes the count to zero only for the last segment, and only
\* once the submission guard is gone: the request is then the worker's alone.
LEMMA LastSegment ==
  ASSUME IInv, NEW t \in Threads, pc[t] = "seg_end", req[cur[t]].outstanding = 1
  PROVE  SegsOf(cur[t]) = {op[t]} /\ ~Guarded(cur[t]) /\ t = Worker
<1>1. cur[t] \in Live /\ op[t] \in SegsOf(cur[t])
  BY OwnSegment DEF InSeg
<1>2. 1 = Cardinality(SegsOf(cur[t])) + IF Guarded(cur[t]) THEN 1 ELSE 0
  BY <1>1 DEF IInv, CountInv, OutstandingInv
<1>3. Cardinality(SegsOf(cur[t])) = 1 /\ ~Guarded(cur[t])
  <2>1. Cardinality(SegsOf(cur[t])) \in Nat /\ Cardinality(SegsOf(cur[t])) >= 1
    BY <1>1, Finite, CountOfMember
  <2> QED
    BY <1>2, <2>1
<1>4. t = Worker
  BY <1>3 DEF Guarded, Callers, Guard, InSeg
<1> QED
  BY <1>1, <1>3, <1>4, Finite, CountOfMember

\* The drain that drops the submission guard last leaves no segment behind.
LEMMA LastGuard ==
  ASSUME IInv, NEW t \in Threads, pc[t] = "submit", req[cur[t]].outstanding = 1
  PROVE  SegsOf(cur[t]) = {} /\ cur[Worker] # cur[t]
<1>1. t \in Callers /\ cur[t] \in Live /\ Guarded(cur[t])
  BY DEF IInv, TypeOK, ThreadInv, WorkInv, Live, Working, Guarded, Callers, Guard, InSeg, Fin
<1>2. Cardinality(SegsOf(cur[t])) = 0
  BY <1>1, Finite DEF IInv, CountInv, OutstandingInv
<1>3. SegsOf(cur[t]) = {}
  BY <1>2, Finite, FS_EmptySet
<1>4. ASSUME cur[Worker] = cur[t] PROVE FALSE
  <2>1. Worker \in Threads /\ pc[Worker] \in InSeg
    BY <1>1, <1>4 DEF IInv, WorkInv, Threads, TypeOK, ThreadInv, Working, Guard
  <2>2. op[Worker] \in SegsOf(cur[Worker])
    BY <2>1, OwnSegment
  <2> QED
    BY <1>3, <1>4, <2>2
<1> QED
  BY <1>3, <1>4

\* A thread that has a request to itself shares it with no thread and no segment.
LEMMA SoleOwner ==
  ASSUME IInv, NEW t \in Threads, pc[t] \in Sole
  PROVE  /\ cur[t] \in Reqs /\ req[cur[t]].live /\ op[t] = None
         /\ \A u \in Threads \ {t} : cur[u] # cur[t]
         /\ \A s \in SegSlots : seg[s].st # "free" => seg[s].parent # cur[t]
<1> USE ThreadAssumption DEF Threads, Callers, Early, Fin, Sole, InSeg, Guard, Working, Draining
<1>1. cur[t] \in Reqs /\ req[cur[t]].live /\ op[t] = None
  BY DEF IInv, TypeOK, ThreadInv, WorkInv
<1>2. \A s \in SegSlots : seg[s].st # "free" => seg[s].parent # cur[t]
  BY DEF IInv, CountInv, SoleInv
<1>3. \A u \in Threads \ {t} : cur[u] # cur[t]
  BY <1>1 DEF IInv, TypeOK, ThreadInv, WorkInv
<1> QED
  BY <1>1, <1>2, <1>3

\* The two ways submit_request goes: no parent slot is free, or one is taken.
NoSlot(t) ==
  /\ pc[t] = "acquire" /\ Goto(t, "check")
  /\ UNCHANGED <<ring, epoch, active, stopped, drain_chain, req, pool, bounce_pool, seg, cur, op>>
Acquired(t, p, n, b) ==
  /\ pc[t] = "acquire" /\ Goto(t, "submit")
  /\ pool' = pool \ {p} /\ bounce_pool' = bounce_pool \ {b}
  /\ Update(t, [req[cur[t]] EXCEPT !.slot = p, !.bounce_slot = b, !.todo = n,
                                   !.outstanding = 1])
  /\ UNCHANGED <<ring, epoch, active, stopped, drain_chain, seg, cur, op>>
LEMMA AcquireEffect ==
  ASSUME NEW t, AcquireSlot(t)
  PROVE  \/ NoSlot(t)
         \/ \E p \in pool, n \in 1..MaxSegs, b \in bounce_pool \cup {None} : Acquired(t, p, n, b)
BY Zenon DEF AcquireSlot, NoSlot, Acquired

\* The two ways submit_seg goes: no segment slot is free, or one is taken.
SegRefused(t) ==
  /\ pc[t] = "submit" /\ req[cur[t]].todo > 0
  /\ Update(t, [req[cur[t]] EXCEPT !.failed = TRUE, !.todo = @ - 1])
  /\ UNCHANGED <<ring, epoch, active, stopped, drain_chain, pool, bounce_pool, seg, pc, cur, op>>
SegTaken(t, s) ==
  /\ pc[t] = "submit" /\ Goto(t, "start") /\ req[cur[t]].todo > 0
  /\ seg[s].st = "free" /\ seg' = [seg EXCEPT ![s] = [st |-> "start", parent |-> cur[t]]]
  /\ Update(t, [req[cur[t]] EXCEPT !.outstanding = @ + 1, !.todo = @ - 1])
  /\ op' = [op EXCEPT ![t] = s]
  /\ UNCHANGED <<ring, epoch, active, stopped, drain_chain, pool, bounce_pool, cur>>
LEMMA SubmitEffect ==
  ASSUME NEW t, SubmitSeg(t)
  PROVE  SegRefused(t) \/ \E s \in SegSlots : SegTaken(t, s)
BY DEF SubmitSeg, SegRefused, SegTaken

-----------------------------------------------------------------------------
(* The invariant is inductive: one lemma for each of its parts.            *)

\* Every step keeps the types: the counts never go below zero, and only a head
\* the driver posted is put on the used ring.
LEMMA TypeOKStep == IInv /\ [Next]_vars => TypeOK'
<1> SUFFICES ASSUME IInv, [Next]_vars PROVE TypeOK'
  OBVIOUS
<1> USE ThreadAssumption
        DEF IInv, Threads, Goto, WorkOn, Continue, Return, ring
<1>1. ASSUME NEW t \in Threads, Notify(t) PROVE TypeOK' BY <1>1 DEF Notify, TypeOK
<1>2. ASSUME NEW t \in Threads, DrainDone(t) PROVE TypeOK' BY <1>2 DEF DrainDone, TypeOK
<1>3. ASSUME NEW t \in Threads, Parse(t) PROVE TypeOK' BY <1>3 DEF Parse, TypeOK
<1>4. ASSUME NEW t \in Threads, AcquireSlot(t) PROVE TypeOK'
  <2>1. CASE NoSlot(t)
    BY <2>1 DEF NoSlot, TypeOK
  <2>2. ASSUME NEW p \in pool, NEW n \in 1..MaxSegs, NEW b \in bounce_pool \cup {None},
               Acquired(t, p, n, b)
        PROVE  TypeOK'
    <3>1. req \in [Reqs -> Request] /\ cur[t] \in Reqs /\ req[cur[t]] \in Request
      BY <2>2, OwnRequest DEF Acquired, Working, Sole, Early
    <3>2. p \in Slots \cup {None} /\ b \in BounceSlots \cup {None} /\ n \in 0..MaxSegs /\ 1 \in Nat
      BY BoundAssumption DEF TypeOK
    <3>3. req' \in [Reqs -> Request]
      BY <2>2, <3>1, <3>2, RequestFields DEF Acquired, Update
    <3> QED
      BY <2>2, <3>3 DEF Acquired, TypeOK, Request
  <2> QED
    BY <1>4, <2>1, <2>2, AcquireEffect
<1>5. ASSUME NEW t \in Threads, SubmitSeg(t) PROVE TypeOK'
  <2>1. req \in [Reqs -> Request] /\ cur[t] \in Reqs /\ req[cur[t]] \in Request
    BY <1>5, OwnRequest DEF SubmitSeg, Working, Guard
  <2>2. req[cur[t]].todo - 1 \in 0..MaxSegs /\ req[cur[t]].outstanding + 1 \in Nat
    BY <1>5, <2>1, BoundAssumption DEF SubmitSeg, Request
  <2>3. CASE SegRefused(t)
    <3>1. req' \in [Reqs -> Request]
      BY <2>1, <2>2, <2>3, RequestFields DEF SegRefused, Update
    <3> QED
      BY <2>3, <3>1 DEF SegRefused, TypeOK, Request
  <2>4. ASSUME NEW s \in SegSlots, SegTaken(t, s) PROVE TypeOK'
    <3>1. req' \in [Reqs -> Request]
      BY <2>1, <2>2, <2>4, RequestFields DEF SegTaken, Update
    <3> QED
      BY <2>1, <2>4, <3>1 DEF SegTaken, TypeOK, Request
  <2> QED
    BY <1>5, <2>3, <2>4, SubmitEffect
<1>6. ASSUME NEW t \in Threads, OutOfBounds(t) PROVE TypeOK'
  <2>1. req \in [Reqs -> Request] /\ cur[t] \in Reqs /\ req[cur[t]] \in Request
    BY <1>6, OwnRequest DEF OutOfBounds, Working, Sole, Early, Fin, Guard, InSeg
  <2>2. 0 \in 0..MaxSegs
    BY BoundAssumption
  <2>3. req' \in [Reqs -> Request]
    BY <1>6, <2>1, <2>2, RequestFields DEF OutOfBounds, Update
  <2> QED
    BY <1>6, <2>3 DEF OutOfBounds, TypeOK, Request
<1>7. ASSUME NEW t \in Threads, StartRefused(t) PROVE TypeOK'
  <2>1. req \in [Reqs -> Request] /\ cur[t] \in Reqs /\ req[cur[t]] \in Request
    BY <1>7, OwnRequest DEF StartRefused, Working, Sole, Early, Fin, Guard, InSeg
  <2>2. req[cur[t]].outstanding - 1 \in Nat
    BY <1>7, OutstandingPositive DEF StartRefused, Guard, InSeg
  <2>3. req' \in [Reqs -> Request]
    BY <1>7, <2>1, <2>2, RequestFields DEF StartRefused, Update
  <2> QED
    BY ZenonT(60), <1>7, <2>3 DEF StartRefused, TypeOK, Request
<1>8. ASSUME NEW t \in Threads, StartPending(t) PROVE TypeOK'
  <2>1. op[t] \in SegSlots
    BY <1>8 DEF StartPending, ThreadInv, TypeOK
  <2> QED
    BY <1>8, <2>1 DEF StartPending, TypeOK
<1>9. ASSUME NEW t \in Threads, StartDone(t) PROVE TypeOK'
  <2>1. op[t] \in SegSlots
    BY <1>9 DEF StartDone, ThreadInv, TypeOK
  <2> QED
    BY <1>9, <2>1 DEF StartDone, TypeOK
<1>10. ASSUME NEW t \in Threads, DropGuard(t) PROVE TypeOK'
  <2>1. req \in [Reqs -> Request] /\ cur[t] \in Reqs /\ req[cur[t]] \in Request
    BY <1>10, OwnRequest DEF DropGuard, Working, Sole, Early, Fin, Guard, InSeg
  <2>2. req[cur[t]].outstanding - 1 \in Nat
    BY <1>10, OutstandingPositive DEF DropGuard, Guard, InSeg
  <2>3. req' \in [Reqs -> Request]
    BY <1>10, <2>1, <2>2, RequestFields DEF DropGuard
  <2> QED
    BY <1>10, <2>3 DEF DropGuard, TypeOK, Request
<1>11. ASSUME NEW t \in Threads, Complete(t) PROVE TypeOK'
  <2>1. req \in [Reqs -> Request] /\ cur[t] \in Reqs /\ req[cur[t]] \in Request
    BY <1>11, OwnRequest DEF Complete, Working, Sole, Early, Fin, Guard, InSeg
  <2>3. req' \in [Reqs -> Request]
    BY <1>11, <2>1, RequestFields DEF Complete
  <2> QED
    BY <1>11, <2>3 DEF Complete, TypeOK, Request
<1>12. ASSUME NEW t \in Threads, Scatter(t) PROVE TypeOK' BY <1>12 DEF Scatter, TypeOK
<1>13. ASSUME NEW t \in Threads, SegEnd(t) PROVE TypeOK'
  <2>1. req \in [Reqs -> Request] /\ cur[t] \in Reqs /\ req[cur[t]] \in Request
    BY <1>13, OwnRequest DEF SegEnd, Working, Sole, Early, Fin, Guard, InSeg
  <2>2. req[cur[t]].outstanding - 1 \in Nat
    BY <1>13, OutstandingPositive DEF SegEnd, Guard, InSeg
  <2>4. op[t] \in SegSlots
    BY <1>13 DEF SegEnd, ThreadInv, TypeOK, InSeg
  <2>3. req' \in [Reqs -> Request]
    BY <1>13, <2>1, <2>2, RequestFields DEF SegEnd
  <2> QED
    BY <1>13, <2>3, <2>4 DEF SegEnd, TypeOK, Request
<1>14. ASSUME NEW t \in Threads, CheckEpoch(t) PROVE TypeOK' BY <1>14 DEF CheckEpoch, TypeOK
<1>15. ASSUME NEW t \in Threads, WriteStatus(t) PROVE TypeOK' BY <1>15 DEF WriteStatus, TypeOK
<1>16. ASSUME NEW t \in Threads, PushUsed(t) PROVE TypeOK'
  <2>1. req \in [Reqs -> Request] /\ cur[t] \in Reqs /\ req[cur[t]] \in Request
    BY <1>16, OwnRequest DEF PushUsed, Working, Sole, Early, Fin, Guard, InSeg
  <2>2. req[cur[t]].epoch = epoch => req[cur[t]].head \in Heads
    BY <1>16, <2>1, SoleOwner DEF PushUsed, HeadInv, Holds, Unpushed, TypeOK, Sole, Fin
  <2>3. req' \in [Reqs -> Request]
    BY <1>16, <2>1, RequestFields DEF PushUsed
  <2> QED
    BY <1>16, <2>2, <2>3 DEF PushUsed, TypeOK, Request
<1>17. ASSUME NEW t \in Threads, ReleaseSlots(t) PROVE TypeOK'
  <2>1. req \in [Reqs -> Request] /\ cur[t] \in Reqs /\ req[cur[t]] \in Request
    BY <1>17, OwnRequest DEF ReleaseSlots, Working, Sole, Early, Fin, Guard, InSeg
  <2>2. pool' \subseteq Slots /\ bounce_pool' \subseteq BounceSlots
    BY <1>17, <2>1 DEF ReleaseSlots, Request, TypeOK
  <2>3. req' \in [Reqs -> Request]
    BY <1>17, <2>1, RequestFields DEF ReleaseSlots, Update
  <2> QED
    BY <1>17, <2>2, <2>3 DEF ReleaseSlots, TypeOK, Request
<1>18. ASSUME NEW t \in Threads, DecideIrq(t) PROVE TypeOK' BY <1>18 DEF DecideIrq, TypeOK
<1>19. ASSUME NEW t \in Threads, RaiseIrq(t) PROVE TypeOK' BY <1>19 DEF RaiseIrq, TypeOK
<1>20. ASSUME NEW t \in Threads, Settle(t) PROVE TypeOK'
  <2>1. req \in [Reqs -> Request] /\ cur[t] \in Reqs /\ req[cur[t]] \in Request
    BY <1>20, OwnRequest DEF Settle, Working, Sole, Early, Fin, Guard, InSeg
  <2>2. active - 1 \in Nat
    BY <1>20, ActivePositive DEF Settle, Working, Sole, Fin
  <2>3. req' \in [Reqs -> Request]
    BY <1>20, <2>1, FreshRequest DEF Settle
  <2> QED
    BY <1>20, <2>2, <2>3 DEF Settle, TypeOK, Request
<1>21. ASSUME NEW t \in Threads, NEW h \in Heads, NEW r \in Reqs, Take(t, h, r) PROVE TypeOK'
  <2>1. req \in [Reqs -> Request]
    BY DEF TypeOK, Request
  <2>2. req' \in [Reqs -> Request]
    BY <1>21, <2>1, FreshRequest DEF Take, TypeOK
  <2> QED
    BY <1>21, <2>2 DEF Take, TypeOK, Request
<1>22. ASSUME NEW s \in SegSlots, Dequeue(s) PROVE TypeOK' BY <1>22 DEF Dequeue, TypeOK
<1>23. ASSUME NEW h \in Heads, Post(h) PROVE TypeOK' BY <1>23 DEF Post, TypeOK
<1>24. ASSUME NEW h \in Heads, Reap(h) PROVE TypeOK' BY <1>24 DEF Reap, TypeOK
<1>25. CASE QuiesceDrain BY <1>25 DEF QuiesceDrain, TypeOK
<1>26. CASE QuiesceDone BY <1>26 DEF QuiesceDone, TypeOK
<1>27. CASE Reset
  <2>1. epoch' \in 0..MaxEpoch
    BY <1>27, BoundAssumption DEF Reset, TypeOK
  <2> QED
    BY <1>27, <2>1 DEF Reset, TypeOK
<1>28. CASE ReadStatus BY <1>28 DEF ReadStatus, TypeOK
<1>29. CASE EnableQueue BY <1>29 DEF EnableQueue, TypeOK
<1>30. CASE JoinVcpus BY <1>30 DEF JoinVcpus, TypeOK
<1>31. CASE UNCHANGED vars BY SMTT(60), <1>31 DEF vars, TypeOK
<1> QED
  BY <1>1, <1>2, <1>3, <1>4, <1>5, <1>6, <1>7, <1>8, <1>9, <1>10, <1>11, <1>12, <1>13,
     <1>14, <1>15, <1>16, <1>17, <1>18, <1>19, <1>20, <1>21, <1>22, <1>23, <1>24, <1>25,
     <1>26, <1>27, <1>28, <1>29, <1>30, <1>31
  DEF Next, ThreadStep, DrainStep, Submitting, Finishing, GuestNext

\* Every step keeps the threads in their places.
LEMMA ThreadInvStep == IInv /\ [Next]_vars => ThreadInv'
<1> SUFFICES ASSUME IInv, [Next]_vars PROVE ThreadInv'
  OBVIOUS
<1> USE ThreadAssumption
        DEF IInv, TypeOK, ThreadInv, Threads, Callers, Early, Fin, Sole, InSeg, Guard, Working,
            Draining, Waiting, Goto, WorkOn, Update, Continue, Return, ring
<1>1. ASSUME NEW t \in Threads, Notify(t) PROVE ThreadInv' BY <1>1 DEF Notify
<1>2. ASSUME NEW t \in Threads, DrainDone(t) PROVE ThreadInv' BY <1>2 DEF DrainDone
<1>3. ASSUME NEW t \in Threads, Parse(t) PROVE ThreadInv' BY <1>3 DEF Parse
<1>4. ASSUME NEW t \in Threads, AcquireSlot(t) PROVE ThreadInv'
  <2>1. CASE NoSlot(t)
    BY <2>1 DEF NoSlot
  <2>2. ASSUME NEW p \in pool, NEW n \in 1..MaxSegs, NEW b \in bounce_pool \cup {None},
               Acquired(t, p, n, b)
        PROVE  ThreadInv'
    BY <2>2 DEF Acquired
  <2> QED
    BY <1>4, <2>1, <2>2, AcquireEffect
<1>5. ASSUME NEW t \in Threads, SubmitSeg(t) PROVE ThreadInv' BY <1>5 DEF SubmitSeg
<1>6. ASSUME NEW t \in Threads, OutOfBounds(t) PROVE ThreadInv' BY <1>6 DEF OutOfBounds
<1>7. ASSUME NEW t \in Threads, StartRefused(t) PROVE ThreadInv' BY <1>7 DEF StartRefused
<1>8. ASSUME NEW t \in Threads, StartPending(t) PROVE ThreadInv' BY <1>8 DEF StartPending
<1>9. ASSUME NEW t \in Threads, StartDone(t) PROVE ThreadInv' BY <1>9 DEF StartDone
<1>10. ASSUME NEW t \in Threads, DropGuard(t) PROVE ThreadInv' BY <1>10 DEF DropGuard
<1>11. ASSUME NEW t \in Threads, Complete(t) PROVE ThreadInv' BY <1>11 DEF Complete
<1>12. ASSUME NEW t \in Threads, Scatter(t) PROVE ThreadInv' BY <1>12 DEF Scatter
<1>13. ASSUME NEW t \in Threads, SegEnd(t) PROVE ThreadInv' BY <1>13 DEF SegEnd
<1>14. ASSUME NEW t \in Threads, CheckEpoch(t) PROVE ThreadInv' BY <1>14 DEF CheckEpoch
<1>15. ASSUME NEW t \in Threads, WriteStatus(t) PROVE ThreadInv' BY <1>15 DEF WriteStatus
<1>16. ASSUME NEW t \in Threads, PushUsed(t) PROVE ThreadInv' BY <1>16 DEF PushUsed
<1>17. ASSUME NEW t \in Threads, ReleaseSlots(t) PROVE ThreadInv' BY <1>17 DEF ReleaseSlots
<1>18. ASSUME NEW t \in Threads, DecideIrq(t) PROVE ThreadInv' BY <1>18 DEF DecideIrq
<1>19. ASSUME NEW t \in Threads, RaiseIrq(t) PROVE ThreadInv' BY <1>19 DEF RaiseIrq
<1>20. ASSUME NEW t \in Threads, Settle(t) PROVE ThreadInv' BY <1>20 DEF Settle
<1>21. ASSUME NEW t \in Threads, NEW h \in Heads, NEW r \in Reqs, Take(t, h, r) PROVE ThreadInv'
  BY <1>21 DEF Take
<1>22. ASSUME NEW s \in SegSlots, Dequeue(s) PROVE ThreadInv' BY <1>22 DEF Dequeue, WorkInv
<1>23. ASSUME NEW h \in Heads, Post(h) PROVE ThreadInv' BY <1>23 DEF Post
<1>24. ASSUME NEW h \in Heads, Reap(h) PROVE ThreadInv' BY <1>24 DEF Reap
<1>25. CASE QuiesceDrain BY <1>25 DEF QuiesceDrain
<1>26. CASE QuiesceDone BY <1>26 DEF QuiesceDone
<1>27. CASE Reset BY <1>27 DEF Reset
<1>28. CASE ReadStatus BY <1>28 DEF ReadStatus
<1>29. CASE EnableQueue BY <1>29 DEF EnableQueue
<1>30. CASE JoinVcpus BY <1>30 DEF JoinVcpus
<1>31. CASE UNCHANGED vars BY SMTT(60), <1>31 DEF vars
<1> QED
  BY <1>1, <1>2, <1>3, <1>4, <1>5, <1>6, <1>7, <1>8, <1>9, <1>10, <1>11, <1>12, <1>13,
     <1>14, <1>15, <1>16, <1>17, <1>18, <1>19, <1>20, <1>21, <1>22, <1>23, <1>24, <1>25,
     <1>26, <1>27, <1>28, <1>29, <1>30, <1>31
  DEF Next, ThreadStep, DrainStep, Submitting, Finishing, GuestNext

\* Every step keeps each thread on a live request and on its own segment; the
\* last decrement is what lets a request change hands.
LEMMA WorkInvStep == IInv /\ [Next]_vars => WorkInv'
<1> SUFFICES ASSUME IInv, [Next]_vars PROVE WorkInv'
  OBVIOUS
<1> USE ThreadAssumption
        DEF IInv, TypeOK, ThreadInv, WorkInv, Threads, Callers, Early, Fin, Sole, InSeg, Guard,
            Working, Draining, Waiting, Goto, WorkOn, Update, Continue, Return, ring
<1>1. ASSUME NEW t \in Threads, Notify(t) PROVE WorkInv' BY <1>1 DEF Notify
<1>2. ASSUME NEW t \in Threads, DrainDone(t) PROVE WorkInv' BY <1>2 DEF DrainDone
<1>3. ASSUME NEW t \in Threads, Parse(t) PROVE WorkInv' BY <1>3 DEF Parse
<1>4. ASSUME NEW t \in Threads, AcquireSlot(t) PROVE WorkInv'
  <2>1. CASE NoSlot(t)
    BY <2>1 DEF NoSlot
  <2>2. ASSUME NEW p \in pool, NEW n \in 1..MaxSegs, NEW b \in bounce_pool \cup {None},
               Acquired(t, p, n, b)
        PROVE  WorkInv'
    BY <2>2 DEF Acquired
  <2> QED
    BY <1>4, <2>1, <2>2, AcquireEffect
<1>5. ASSUME NEW t \in Threads, SubmitSeg(t) PROVE WorkInv'
  <2>1. CASE SegRefused(t)
    BY <2>1 DEF SegRefused
  <2>2. ASSUME NEW s \in SegSlots, SegTaken(t, s) PROVE WorkInv'
    BY <2>2 DEF SegTaken
  <2> QED
    BY <1>5, <2>1, <2>2, SubmitEffect
<1>6. ASSUME NEW t \in Threads, OutOfBounds(t) PROVE WorkInv' BY <1>6 DEF OutOfBounds
<1>7. ASSUME NEW t \in Threads, StartRefused(t) PROVE WorkInv' BY <1>7 DEF StartRefused
<1>8. ASSUME NEW t \in Threads, StartPending(t) PROVE WorkInv' BY <1>8 DEF StartPending
<1>9. ASSUME NEW t \in Threads, StartDone(t) PROVE WorkInv' BY <1>9 DEF StartDone
<1>10. ASSUME NEW t \in Threads, DropGuard(t) PROVE WorkInv'
  <2>1. req[cur[t]].outstanding = 1 => cur[Worker] # cur[t]
    BY <1>10, LastGuard DEF DropGuard
  <2>2. CASE req[cur[t]].outstanding = 1
    BY <1>10, <2>1, <2>2 DEF DropGuard
  <2>3. CASE req[cur[t]].outstanding # 1
    BY <1>10, <2>3 DEF DropGuard
  <2> QED
    BY <2>2, <2>3
<1>11. ASSUME NEW t \in Threads, Complete(t) PROVE WorkInv' BY SMTT(60), <1>11 DEF Complete
<1>12. ASSUME NEW t \in Threads, Scatter(t) PROVE WorkInv' BY <1>12 DEF Scatter
<1>13. ASSUME NEW t \in Threads, SegEnd(t) PROVE WorkInv'
  <2>1. req[cur[t]].outstanding = 1 => ~Guarded(cur[t]) /\ t = Worker
    BY <1>13, LastSegment DEF SegEnd
  <2> QED
    BY <1>13, <2>1 DEF SegEnd, Guarded
<1>14. ASSUME NEW t \in Threads, CheckEpoch(t) PROVE WorkInv' BY <1>14 DEF CheckEpoch
<1>15. ASSUME NEW t \in Threads, WriteStatus(t) PROVE WorkInv' BY <1>15 DEF WriteStatus
<1>16. ASSUME NEW t \in Threads, PushUsed(t) PROVE WorkInv' BY <1>16 DEF PushUsed
<1>17. ASSUME NEW t \in Threads, ReleaseSlots(t) PROVE WorkInv' BY <1>17 DEF ReleaseSlots
<1>18. ASSUME NEW t \in Threads, DecideIrq(t) PROVE WorkInv' BY <1>18 DEF DecideIrq
<1>19. ASSUME NEW t \in Threads, RaiseIrq(t) PROVE WorkInv' BY <1>19 DEF RaiseIrq
<1>20. ASSUME NEW t \in Threads, Settle(t) PROVE WorkInv'
  <2>1. /\ \A u \in Threads \ {t} : cur[u] # cur[t]
        /\ \A s \in SegSlots : seg[s].st # "free" => seg[s].parent # cur[t]
    BY <1>20, SoleOwner DEF Settle
  <2> QED
    BY <1>20, <2>1 DEF Settle
<1>21. ASSUME NEW t \in Threads, NEW h \in Heads, NEW r \in Reqs, Take(t, h, r) PROVE WorkInv'
  BY <1>21 DEF Take
<1>22. ASSUME NEW s \in SegSlots, Dequeue(s) PROVE WorkInv'
  <2>1. \A t \in Threads : cur[t] = seg[s].parent => pc[t] \notin Sole
    BY <1>22, SoleOwner DEF Dequeue
  <2> QED
    BY <1>22, <2>1 DEF Dequeue
<1>23. ASSUME NEW h \in Heads, Post(h) PROVE WorkInv' BY <1>23 DEF Post
<1>24. ASSUME NEW h \in Heads, Reap(h) PROVE WorkInv' BY <1>24 DEF Reap
<1>25. CASE QuiesceDrain BY <1>25 DEF QuiesceDrain
<1>26. CASE QuiesceDone BY <1>26 DEF QuiesceDone
<1>27. CASE Reset BY <1>27 DEF Reset
<1>28. CASE ReadStatus BY <1>28 DEF ReadStatus
<1>29. CASE EnableQueue BY <1>29 DEF EnableQueue
<1>30. CASE JoinVcpus BY <1>30 DEF JoinVcpus
<1>31. CASE UNCHANGED vars BY <1>31 DEF vars
<1> QED
  BY <1>1, <1>2, <1>3, <1>4, <1>5, <1>6, <1>7, <1>8, <1>9, <1>10, <1>11, <1>12, <1>13,
     <1>14, <1>15, <1>16, <1>17, <1>18, <1>19, <1>20, <1>21, <1>22, <1>23, <1>24, <1>25,
     <1>26, <1>27, <1>28, <1>29, <1>30, <1>31
  DEF Next, ThreadStep, DrainStep, Submitting, Finishing, GuestNext

\* Every step keeps a request that somebody has to himself free of segments.
LEMMA SoleInvStep == IInv /\ [Next]_vars => SoleInv'
<1> SUFFICES ASSUME IInv, [Next]_vars PROVE SoleInv'
  OBVIOUS
<1> USE ThreadAssumption
        DEF IInv, TypeOK, ThreadInv, WorkInv, CountInv, SoleInv, Threads, Callers, Early, Fin,
            Sole, InSeg, Guard, Working, Draining, Waiting, Goto, WorkOn, Update, Continue,
            Return, ring
<1>1. ASSUME NEW t \in Threads, Notify(t) PROVE SoleInv' BY <1>1 DEF Notify
<1>2. ASSUME NEW t \in Threads, DrainDone(t) PROVE SoleInv' BY <1>2 DEF DrainDone
<1>3. ASSUME NEW t \in Threads, Parse(t) PROVE SoleInv' BY <1>3 DEF Parse
<1>4. ASSUME NEW t \in Threads, AcquireSlot(t) PROVE SoleInv'
  <2>1. CASE NoSlot(t)
    BY <2>1 DEF NoSlot
  <2>2. ASSUME NEW p \in pool, NEW n \in 1..MaxSegs, NEW b \in bounce_pool \cup {None},
               Acquired(t, p, n, b)
        PROVE  SoleInv'
    BY <2>2 DEF Acquired
  <2> QED
    BY <1>4, <2>1, <2>2, AcquireEffect
<1>5. ASSUME NEW t \in Threads, SubmitSeg(t) PROVE SoleInv'
  <2>1. CASE SegRefused(t)
    BY <2>1 DEF SegRefused
  <2>2. ASSUME NEW s \in SegSlots, SegTaken(t, s) PROVE SoleInv'
    BY <2>2 DEF SegTaken
  <2> QED
    BY <1>5, <2>1, <2>2, SubmitEffect
<1>6. ASSUME NEW t \in Threads, OutOfBounds(t) PROVE SoleInv' BY <1>6 DEF OutOfBounds
<1>7. ASSUME NEW t \in Threads, StartRefused(t) PROVE SoleInv' BY <1>7 DEF StartRefused
<1>8. ASSUME NEW t \in Threads, StartPending(t) PROVE SoleInv' BY <1>8 DEF StartPending
<1>9. ASSUME NEW t \in Threads, StartDone(t) PROVE SoleInv' BY <1>9 DEF StartDone
<1>10. ASSUME NEW t \in Threads, DropGuard(t) PROVE SoleInv'
  <2>1. req[cur[t]].outstanding = 1 => SegsOf(cur[t]) = {}
    BY <1>10, LastGuard DEF DropGuard
  <2> QED
    BY <1>10, <2>1 DEF DropGuard, SegsOf
<1>11. ASSUME NEW t \in Threads, Complete(t) PROVE SoleInv' BY <1>11 DEF Complete
<1>12. ASSUME NEW t \in Threads, Scatter(t) PROVE SoleInv' BY <1>12 DEF Scatter
<1>13. ASSUME NEW t \in Threads, SegEnd(t) PROVE SoleInv'
  <2>1. req[cur[t]].outstanding = 1 => SegsOf(cur[t]) = {op[t]}
    BY <1>13, LastSegment DEF SegEnd
  <2> QED
    BY <1>13, <2>1 DEF SegEnd, SegsOf
<1>14. ASSUME NEW t \in Threads, CheckEpoch(t) PROVE SoleInv' BY <1>14 DEF CheckEpoch
<1>15. ASSUME NEW t \in Threads, WriteStatus(t) PROVE SoleInv' BY <1>15 DEF WriteStatus
<1>16. ASSUME NEW t \in Threads, PushUsed(t) PROVE SoleInv' BY <1>16 DEF PushUsed
<1>17. ASSUME NEW t \in Threads, ReleaseSlots(t) PROVE SoleInv' BY <1>17 DEF ReleaseSlots
<1>18. ASSUME NEW t \in Threads, DecideIrq(t) PROVE SoleInv' BY <1>18 DEF DecideIrq
<1>19. ASSUME NEW t \in Threads, RaiseIrq(t) PROVE SoleInv' BY <1>19 DEF RaiseIrq
<1>20. ASSUME NEW t \in Threads, Settle(t) PROVE SoleInv' BY <1>20 DEF Settle
<1>21. ASSUME NEW t \in Threads, NEW h \in Heads, NEW r \in Reqs, Take(t, h, r) PROVE SoleInv'
  BY <1>21 DEF Take
<1>22. ASSUME NEW s \in SegSlots, Dequeue(s) PROVE SoleInv' BY <1>22 DEF Dequeue
<1>23. ASSUME NEW h \in Heads, Post(h) PROVE SoleInv' BY <1>23 DEF Post
<1>24. ASSUME NEW h \in Heads, Reap(h) PROVE SoleInv' BY <1>24 DEF Reap
<1>25. CASE QuiesceDrain BY <1>25 DEF QuiesceDrain
<1>26. CASE QuiesceDone BY <1>26 DEF QuiesceDone
<1>27. CASE Reset BY <1>27 DEF Reset
<1>28. CASE ReadStatus BY <1>28 DEF ReadStatus
<1>29. CASE EnableQueue BY <1>29 DEF EnableQueue
<1>30. CASE JoinVcpus BY <1>30 DEF JoinVcpus
<1>31. CASE UNCHANGED vars BY <1>31 DEF vars
<1> QED
  BY ZenonT(60), <1>1, <1>2, <1>3, <1>4, <1>5, <1>6, <1>7, <1>8, <1>9, <1>10, <1>11, <1>12, <1>13,
     <1>14, <1>15, <1>16, <1>17, <1>18, <1>19, <1>20, <1>21, <1>22, <1>23, <1>24, <1>25,
     <1>26, <1>27, <1>28, <1>29, <1>30, <1>31
  DEF Next, ThreadStep, DrainStep, Submitting, Finishing, GuestNext

\* What a step leaves alone if it counts nothing, and the steps that do count.
SameCounts ==
  /\ active' = active /\ Live' = Live
  /\ \A q \in Reqs : /\ SegsOf(q)' = SegsOf(q)
                     /\ Guarded(q)' <=> Guarded(q)
                     /\ req'[q].outstanding = req[q].outstanding
Counting(t) ==
  \/ \E h \in Heads, r \in Reqs : Take(t, h, r)
  \/ \E p \in pool, n \in 1..MaxSegs, b \in bounce_pool \cup {None} : Acquired(t, p, n, b)
  \/ \E s \in SegSlots : SegTaken(t, s)
  \/ StartRefused(t) \/ DropGuard(t) \/ SegEnd(t) \/ Settle(t)

\* Every step that does not count leaves both counts and what they count alone.
LEMMA QuietStep ==
  ASSUME IInv, [Next]_vars PROVE SameCounts \/ \E t \in Threads : Counting(t)
<1> USE ThreadAssumption
        DEF IInv, TypeOK, ThreadInv, WorkInv, SameCounts, SegsOf, Guarded, Live, Threads,
            Callers, Early, Fin, Sole, InSeg, Guard, Working, Draining, Waiting, Goto, WorkOn,
            Update, Continue, Return, ring
<1>1. ASSUME NEW t \in Threads, Notify(t) PROVE SameCounts BY <1>1 DEF Notify
<1>2. ASSUME NEW t \in Threads, DrainDone(t) PROVE SameCounts BY <1>2 DEF DrainDone
<1>3. ASSUME NEW t \in Threads, Parse(t) PROVE SameCounts BY <1>3 DEF Parse
<1>4. ASSUME NEW t \in Threads, NoSlot(t) PROVE SameCounts BY <1>4 DEF NoSlot
<1>5. ASSUME NEW t \in Threads, SegRefused(t) PROVE SameCounts BY <1>5 DEF SegRefused
<1>6. ASSUME NEW t \in Threads, OutOfBounds(t) PROVE SameCounts BY <1>6 DEF OutOfBounds
<1>7. ASSUME NEW t \in Threads, StartPending(t) PROVE SameCounts BY <1>7 DEF StartPending
<1>8. ASSUME NEW t \in Threads, StartDone(t) PROVE SameCounts BY <1>8 DEF StartDone
<1>9. ASSUME NEW t \in Threads, Complete(t) PROVE SameCounts
  <2>1. pc[t] = "complete" /\ cur[t] \in Reqs
    BY <1>9 DEF Complete
  <2>2. CASE req' = [req EXCEPT ![cur[t]].failed = TRUE] /\ Goto(t, "seg_end")
    BY <1>9, <2>1, <2>2 DEF Complete
  <2>3. CASE UNCHANGED req /\ (Goto(t, "seg_end") \/ Goto(t, "scatter"))
    BY <1>9, <2>1, <2>3 DEF Complete
  <2> QED
    BY <1>9, <2>2, <2>3 DEF Complete
<1>10. ASSUME NEW t \in Threads, Scatter(t) PROVE SameCounts BY <1>10 DEF Scatter
<1>11. ASSUME NEW t \in Threads, CheckEpoch(t) PROVE SameCounts BY <1>11 DEF CheckEpoch
<1>12. ASSUME NEW t \in Threads, WriteStatus(t) PROVE SameCounts BY <1>12 DEF WriteStatus
<1>13. ASSUME NEW t \in Threads, PushUsed(t) PROVE SameCounts BY <1>13 DEF PushUsed
<1>14. ASSUME NEW t \in Threads, ReleaseSlots(t) PROVE SameCounts BY <1>14 DEF ReleaseSlots
<1>15. ASSUME NEW t \in Threads, DecideIrq(t) PROVE SameCounts BY <1>15 DEF DecideIrq
<1>16. ASSUME NEW t \in Threads, RaiseIrq(t) PROVE SameCounts BY <1>16 DEF RaiseIrq
<1>17. ASSUME NEW s \in SegSlots, Dequeue(s) PROVE SameCounts BY <1>17 DEF Dequeue
<1>18. ASSUME NEW h \in Heads, Post(h) PROVE SameCounts BY <1>18 DEF Post
<1>19. ASSUME NEW h \in Heads, Reap(h) PROVE SameCounts BY <1>19 DEF Reap
<1>20. ASSUME QuiesceDrain PROVE SameCounts BY <1>20 DEF QuiesceDrain
<1>21. ASSUME QuiesceDone PROVE SameCounts BY <1>21 DEF QuiesceDone
<1>22. ASSUME Reset PROVE SameCounts BY <1>22 DEF Reset
<1>23. ASSUME ReadStatus PROVE SameCounts BY <1>23 DEF ReadStatus
<1>24. ASSUME EnableQueue PROVE SameCounts BY <1>24 DEF EnableQueue
<1>25. ASSUME JoinVcpus PROVE SameCounts BY <1>25 DEF JoinVcpus
<1>26. ASSUME UNCHANGED vars PROVE SameCounts BY <1>26 DEF vars
<1> HIDE DEF SameCounts
<1> QED
  BY <1>1, <1>2, <1>3, <1>4, <1>5, <1>6, <1>7, <1>8, <1>9, <1>10, <1>11, <1>12, <1>13,
     <1>14, <1>15, <1>16, <1>17, <1>18, <1>19, <1>20, <1>21, <1>22, <1>23, <1>24, <1>25,
     <1>26, AcquireEffect, SubmitEffect
  DEF Next, ThreadStep, DrainStep, Submitting, Finishing, GuestNext, Counting

\* Every step keeps `outstanding' the number of a request's busy segments and
\* of its submission guard.
LEMMA OutstandingInvStep == IInv /\ [Next]_vars => OutstandingInv'
<1> SUFFICES ASSUME IInv, [Next]_vars PROVE OutstandingInv'
  OBVIOUS
<1> USE ThreadAssumption
        DEF IInv, TypeOK, ThreadInv, WorkInv, CountInv, Threads, Callers, Early, Fin, Sole,
            InSeg, Guard, Working, Draining, Waiting, Goto, WorkOn, Update, Continue, Return,
            ring
<1>1. ASSUME NEW t \in Threads, NEW h \in Heads, NEW r \in Reqs, Take(t, h, r) PROVE OutstandingInv'
  <2> SUFFICES ASSUME NEW q \in Live'
               PROVE  req'[q].outstanding = Cardinality(SegsOf(q)') + IF Guarded(q)' THEN 1 ELSE 0
    BY DEF OutstandingInv
  <2>1. SegsOf(q)' = SegsOf(q)
    BY <1>1 DEF Take, SegsOf
  <2>2. CASE q = r
    <3>1. SegsOf(q) = {} /\ ~Guarded(q)'
      BY <1>1, <2>2 DEF Take, SegsOf, Guarded
    <3> QED
      BY <1>1, <2>1, <2>2, <3>1, FS_EmptySet DEF Take, Idle
  <2>3. CASE q # r
    <3>1. q \in Live /\ (Guarded(q)' <=> Guarded(q)) /\ req'[q] = req[q]
      BY <1>1, <2>3 DEF Take, Live, Guarded
    <3> QED
      BY <2>1, <3>1 DEF OutstandingInv
  <2> QED
    BY <2>2, <2>3
<1>2. ASSUME NEW t \in Threads, NEW p \in pool, NEW n \in 1..MaxSegs,
             NEW b \in bounce_pool \cup {None}, Acquired(t, p, n, b)
      PROVE  OutstandingInv'
  <2> SUFFICES ASSUME NEW q \in Live'
               PROVE  req'[q].outstanding = Cardinality(SegsOf(q)') + IF Guarded(q)' THEN 1 ELSE 0
    BY DEF OutstandingInv
  <2>1. q \in Live /\ cur[t] \in Reqs /\ t \in Callers /\ SegsOf(q)' = SegsOf(q)
    BY <1>2 DEF Acquired, Live, SegsOf
  <2>2. CASE q = cur[t]
    <3>1. SegsOf(q) = {}
      BY <1>2, <2>2, SoleOwner DEF Acquired, SegsOf
    <3>2. Guarded(q)' /\ req'[q].outstanding = 1
      BY <1>2, <2>1, <2>2 DEF Acquired, Guarded
    <3> QED
      BY <2>1, <3>1, <3>2, FS_EmptySet
  <2>3. CASE q # cur[t]
    <3>1. (Guarded(q)' <=> Guarded(q)) /\ req'[q].outstanding = req[q].outstanding
      BY <1>2, <2>1, <2>3 DEF Acquired, Guarded
    <3> QED
      BY <2>1, <3>1 DEF OutstandingInv
  <2> QED
    BY <2>2, <2>3
<1>3. ASSUME NEW t \in Threads, NEW s \in SegSlots, SegTaken(t, s) PROVE OutstandingInv'
  <2> SUFFICES ASSUME NEW q \in Live'
               PROVE  req'[q].outstanding = Cardinality(SegsOf(q)') + IF Guarded(q)' THEN 1 ELSE 0
    BY DEF OutstandingInv
  <2>1. q \in Live /\ (Guarded(q)' <=> Guarded(q))
    BY <1>3 DEF SegTaken, Live, Guarded
  <2>2. CASE q = cur[t]
    <3>1. s \notin SegsOf(q) /\ SegsOf(q)' = SegsOf(q) \cup {s}
      BY <1>3, <2>1, <2>2 DEF SegTaken, SegsOf
    <3>2. Cardinality(SegsOf(q) \cup {s}) = Cardinality(SegsOf(q)) + 1
      BY ZenonT(60), <3>1, Finite, FS_AddElement
    <3>3. req'[q].outstanding = req[q].outstanding + 1
      BY <1>3, <2>2 DEF SegTaken
    <3>4. req[q].outstanding = Cardinality(SegsOf(q)) + IF Guarded(q) THEN 1 ELSE 0
      BY <2>1 DEF OutstandingInv
    <3> QED
      BY <2>1, <3>1, <3>2, <3>3, <3>4, Finite
  <2>3. CASE q # cur[t]
    <3>1. SegsOf(q)' = SegsOf(q) /\ req'[q].outstanding = req[q].outstanding
      BY <1>3, <2>3 DEF SegTaken, SegsOf
    <3> QED
      BY <2>1, <3>1 DEF OutstandingInv
  <2> QED
    BY <2>2, <2>3
<1>4. ASSUME NEW t \in Threads, StartRefused(t) PROVE OutstandingInv'
  <2> SUFFICES ASSUME NEW q \in Live'
               PROVE  req'[q].outstanding = Cardinality(SegsOf(q)') + IF Guarded(q)' THEN 1 ELSE 0
    BY DEF OutstandingInv
  <2>1. q \in Live /\ (Guarded(q)' <=> Guarded(q))
    BY <1>4 DEF StartRefused, Live, Guarded
  <2>2. CASE q = cur[t]
    <3>1. op[t] \in SegsOf(q) /\ SegsOf(q)' = SegsOf(q) \ {op[t]}
      BY <1>4, <2>2, OwnSegment DEF StartRefused, SegsOf
    <3>2. Cardinality(SegsOf(q) \ {op[t]}) = Cardinality(SegsOf(q)) - 1
      BY <3>1, Finite, CountOfMember
    <3>3. req'[q].outstanding = req[q].outstanding - 1
      BY <1>4, <2>2 DEF StartRefused
    <3>4. req[q].outstanding = Cardinality(SegsOf(q)) + IF Guarded(q) THEN 1 ELSE 0
      BY <2>1 DEF OutstandingInv
    <3>5. Cardinality(SegsOf(q)) \in Nat /\ Cardinality(SegsOf(q)') = Cardinality(SegsOf(q)) - 1
      BY <3>1, <3>2, Finite
    <3> QED
      BY SMTT(60), <2>1, <3>3, <3>4, <3>5
  <2>3. CASE q # cur[t]
    <3>1. SegsOf(q)' = SegsOf(q) /\ req'[q].outstanding = req[q].outstanding
      BY <1>4, <2>3, OwnSegment DEF StartRefused, SegsOf
    <3> QED
      BY <2>1, <3>1 DEF OutstandingInv
  <2> QED
    BY <2>2, <2>3
<1>5. ASSUME NEW t \in Threads, DropGuard(t) PROVE OutstandingInv'
  <2> SUFFICES ASSUME NEW q \in Live'
               PROVE  req'[q].outstanding = Cardinality(SegsOf(q)') + IF Guarded(q)' THEN 1 ELSE 0
    BY DEF OutstandingInv
  <2>1. q \in Live /\ SegsOf(q)' = SegsOf(q) /\ t \in Callers
    BY <1>5 DEF DropGuard, Live, SegsOf
  <2>2. CASE q = cur[t]
    <3>1. Guarded(q) /\ ~Guarded(q)'
      BY <1>5, <2>1, <2>2 DEF DropGuard, Guarded
    <3>2. req'[q].outstanding = req[q].outstanding - 1
      BY <1>5, <2>2 DEF DropGuard
    <3>3. req[q].outstanding = Cardinality(SegsOf(q)) + 1
      BY <2>1, <3>1 DEF OutstandingInv
    <3> QED
      BY <2>1, <3>1, <3>2, <3>3, Finite
  <2>3. CASE q # cur[t]
    <3>1. Guarded(q)' <=> Guarded(q)
      BY <1>5, <2>3 DEF DropGuard, Guarded
    <3>2. req'[q].outstanding = req[q].outstanding
      BY <1>5, <2>3 DEF DropGuard
    <3> QED
      BY <2>1, <3>1, <3>2 DEF OutstandingInv
  <2> QED
    BY <2>2, <2>3
<1>6. ASSUME NEW t \in Threads, SegEnd(t) PROVE OutstandingInv'
  <2> SUFFICES ASSUME NEW q \in Live'
               PROVE  req'[q].outstanding = Cardinality(SegsOf(q)') + IF Guarded(q)' THEN 1 ELSE 0
    BY DEF OutstandingInv
  <2>1. q \in Live
    BY <1>6 DEF SegEnd, Live
  <2>4. Guarded(q)' <=> Guarded(q)
    <3>1. req[cur[t]].outstanding = 1 => ~Guarded(cur[t]) /\ t = Worker
      BY <1>6, LastSegment DEF SegEnd
    <3> QED
      BY <1>6, <3>1 DEF SegEnd, Guarded
  <2>2. CASE q = cur[t]
    <3>1. op[t] \in SegsOf(q) /\ SegsOf(q)' = SegsOf(q) \ {op[t]}
      BY <1>6, <2>2, OwnSegment DEF SegEnd, SegsOf
    <3>2. Cardinality(SegsOf(q) \ {op[t]}) = Cardinality(SegsOf(q)) - 1
      BY <3>1, Finite, CountOfMember
    <3>3. req'[q].outstanding = req[q].outstanding - 1
      BY <1>6, <2>2 DEF SegEnd
    <3>4. req[q].outstanding = Cardinality(SegsOf(q)) + IF Guarded(q) THEN 1 ELSE 0
      BY <2>1 DEF OutstandingInv
    <3>5. Cardinality(SegsOf(q)) \in Nat /\ Cardinality(SegsOf(q)') = Cardinality(SegsOf(q)) - 1
      BY <3>1, <3>2, Finite
    <3> QED
      BY SMTT(60), <2>1, <2>4, <3>3, <3>4, <3>5
  <2>3. CASE q # cur[t]
    <3>1. SegsOf(q)' = SegsOf(q) /\ req'[q].outstanding = req[q].outstanding
      BY <1>6, <2>3, OwnSegment DEF SegEnd, SegsOf
    <3> QED
      BY <2>1, <2>4, <3>1 DEF OutstandingInv
  <2> QED
    BY <2>2, <2>3
<1>7. ASSUME NEW t \in Threads, Settle(t) PROVE OutstandingInv'
  <2>1. ASSUME NEW q \in Live'
        PROVE  /\ q \in Live /\ req'[q].outstanding = req[q].outstanding
               /\ SegsOf(q)' = SegsOf(q) /\ (Guarded(q)' <=> Guarded(q))
    BY <1>7 DEF Settle, Live, Idle, SegsOf, Guarded
  <2> QED
    BY <2>1 DEF OutstandingInv
<1>8. CASE SameCounts
  BY <1>8 DEF SameCounts, OutstandingInv, Live
<1> QED
  BY ZenonT(60), <1>1, <1>2, <1>3, <1>4, <1>5, <1>6, <1>7, <1>8, QuietStep DEF Counting

\* Every step keeps `active' the number of live requests.
LEMMA ActiveInvStep == IInv /\ [Next]_vars => ActiveInv'
<1> SUFFICES ASSUME IInv, [Next]_vars PROVE ActiveInv'
  OBVIOUS
<1> USE ThreadAssumption
        DEF IInv, TypeOK, ThreadInv, CountInv, Threads, Callers, Early, Fin, Sole, InSeg, Guard,
            Working, Draining, Waiting, Goto, WorkOn, Update, Continue, Return, ring
<1>1. ASSUME NEW t \in Threads, NEW h \in Heads, NEW r \in Reqs, Take(t, h, r) PROVE ActiveInv'
  <2>1. r \notin Live /\ Live' = Live \cup {r}
    BY <1>1 DEF Take, Live, Idle
  <2> QED
    BY <1>1, <2>1, Finite, FS_AddElement DEF Take, ActiveInv
<1>2. ASSUME NEW t \in Threads, NEW p \in pool, NEW n \in 1..MaxSegs,
             NEW b \in bounce_pool \cup {None}, Acquired(t, p, n, b)
      PROVE  ActiveInv'
  <2>1. Live' = Live /\ active' = active
    BY <1>2 DEF Acquired, Live
  <2> QED
    BY <2>1 DEF ActiveInv
<1>3. ASSUME NEW t \in Threads, NEW s \in SegSlots, SegTaken(t, s) PROVE ActiveInv'
  <2>1. Live' = Live /\ active' = active
    BY <1>3 DEF SegTaken, Live
  <2> QED
    BY <2>1 DEF ActiveInv
<1>4. ASSUME NEW t \in Threads, StartRefused(t) PROVE ActiveInv'
  <2>1. Live' = Live /\ active' = active
    BY <1>4 DEF StartRefused, Live
  <2> QED
    BY <2>1 DEF ActiveInv
<1>5. ASSUME NEW t \in Threads, DropGuard(t) PROVE ActiveInv'
  <2>1. Live' = Live /\ active' = active
    BY <1>5 DEF DropGuard, Live
  <2> QED
    BY <2>1 DEF ActiveInv
<1>6. ASSUME NEW t \in Threads, SegEnd(t) PROVE ActiveInv'
  <2>1. Live' = Live /\ active' = active
    BY <1>6 DEF SegEnd, Live
  <2> QED
    BY <2>1 DEF ActiveInv
<1>7. ASSUME NEW t \in Threads, Settle(t) PROVE ActiveInv'
  <2>1. cur[t] \in Live /\ Live' = Live \ {cur[t]}
    BY <1>7 DEF Settle, Live, Idle, WorkInv
  <2> QED
    BY <1>7, <2>1, Finite, CountOfMember DEF Settle, ActiveInv
<1>8. CASE SameCounts
  BY SMTT(60), <1>8 DEF SameCounts, ActiveInv
<1> QED
  BY <1>1, <1>2, <1>3, <1>4, <1>5, <1>6, <1>7, <1>8, QuietStep DEF Counting

\* Every step keeps each parent slot with one request.
LEMMA SlotInvStep == IInv /\ [Next]_vars => SlotInv'
<1> SUFFICES ASSUME IInv, [Next]_vars PROVE SlotInv'
  OBVIOUS
<1> USE ThreadAssumption
        DEF IInv, TypeOK, ThreadInv, WorkInv, SlotInv, Threads, Callers, Early, Fin, Sole,
            InSeg, Guard, Working, Draining, Waiting, Goto, WorkOn, Update, Continue, Return,
            ring
<1>1. ASSUME NEW t \in Threads, Notify(t) PROVE SlotInv' BY <1>1 DEF Notify
<1>2. ASSUME NEW t \in Threads, DrainDone(t) PROVE SlotInv' BY <1>2 DEF DrainDone
<1>3. ASSUME NEW t \in Threads, Parse(t) PROVE SlotInv' BY <1>3 DEF Parse
<1>4. ASSUME NEW t \in Threads, AcquireSlot(t) PROVE SlotInv'
  <2>1. CASE NoSlot(t)
    BY SMTT(60), <2>1 DEF NoSlot
  <2>2. ASSUME NEW p \in pool, NEW n \in 1..MaxSegs, NEW b \in bounce_pool \cup {None},
               Acquired(t, p, n, b)
        PROVE  SlotInv'
    BY <2>2, SoleOwner DEF Acquired
  <2> QED
    BY <1>4, <2>1, <2>2, AcquireEffect
<1>5. ASSUME NEW t \in Threads, SubmitSeg(t) PROVE SlotInv'
  <2>1. CASE SegRefused(t)
    BY <2>1 DEF SegRefused
  <2>2. ASSUME NEW s \in SegSlots, SegTaken(t, s) PROVE SlotInv'
    BY <2>2 DEF SegTaken
  <2> QED
    BY <1>5, <2>1, <2>2, SubmitEffect
<1>6. ASSUME NEW t \in Threads, OutOfBounds(t) PROVE SlotInv' BY SMTT(60), <1>6 DEF OutOfBounds
<1>7. ASSUME NEW t \in Threads, StartRefused(t) PROVE SlotInv' BY <1>7 DEF StartRefused
<1>8. ASSUME NEW t \in Threads, StartPending(t) PROVE SlotInv' BY <1>8 DEF StartPending
<1>9. ASSUME NEW t \in Threads, StartDone(t) PROVE SlotInv' BY <1>9 DEF StartDone
<1>10. ASSUME NEW t \in Threads, DropGuard(t) PROVE SlotInv' BY <1>10 DEF DropGuard
<1>11. ASSUME NEW t \in Threads, Complete(t) PROVE SlotInv'
  <2>1. pc[t] = "complete" /\ cur[t] \in Reqs
    BY <1>11 DEF Complete
  <2>2. CASE req' = [req EXCEPT ![cur[t]].failed = TRUE] /\ Goto(t, "seg_end")
    BY <1>11, <2>1, <2>2 DEF Complete
  <2>3. CASE UNCHANGED req /\ (Goto(t, "seg_end") \/ Goto(t, "scatter"))
    BY <1>11, <2>1, <2>3 DEF Complete
  <2> QED
    BY <1>11, <2>2, <2>3 DEF Complete
<1>12. ASSUME NEW t \in Threads, Scatter(t) PROVE SlotInv' BY <1>12 DEF Scatter
<1>13. ASSUME NEW t \in Threads, SegEnd(t) PROVE SlotInv' BY <1>13 DEF SegEnd
<1>14. ASSUME NEW t \in Threads, CheckEpoch(t) PROVE SlotInv' BY <1>14 DEF CheckEpoch
<1>15. ASSUME NEW t \in Threads, WriteStatus(t) PROVE SlotInv' BY <1>15 DEF WriteStatus
<1>16. ASSUME NEW t \in Threads, PushUsed(t) PROVE SlotInv' BY <1>16 DEF PushUsed
<1>17. ASSUME NEW t \in Threads, ReleaseSlots(t) PROVE SlotInv'
  <2>1. /\ cur[t] \in Reqs
        /\ \A u \in Threads \ {t} : cur[u] # cur[t]
        /\ \A s \in SegSlots : seg[s].st # "free" => seg[s].parent # cur[t]
    BY <1>17, SoleOwner DEF ReleaseSlots
  <2> QED
    BY <1>17, <2>1 DEF ReleaseSlots
<1>18. ASSUME NEW t \in Threads, DecideIrq(t) PROVE SlotInv' BY <1>18 DEF DecideIrq
<1>19. ASSUME NEW t \in Threads, RaiseIrq(t) PROVE SlotInv' BY <1>19 DEF RaiseIrq
<1>20. ASSUME NEW t \in Threads, Settle(t) PROVE SlotInv'
  <2>1. /\ cur[t] \in Reqs
        /\ \A u \in Threads \ {t} : cur[u] # cur[t]
        /\ \A s \in SegSlots : seg[s].st # "free" => seg[s].parent # cur[t]
    BY <1>20, SoleOwner DEF Settle
  <2> QED
    BY <1>20, <2>1 DEF Settle, Idle
<1>21. ASSUME NEW t \in Threads, NEW h \in Heads, NEW r \in Reqs, Take(t, h, r) PROVE SlotInv'
  BY <1>21 DEF Take, Idle
<1>22. ASSUME NEW s \in SegSlots, Dequeue(s) PROVE SlotInv' BY <1>22 DEF Dequeue
<1>23. ASSUME NEW h \in Heads, Post(h) PROVE SlotInv' BY <1>23 DEF Post
<1>24. ASSUME NEW h \in Heads, Reap(h) PROVE SlotInv' BY <1>24 DEF Reap
<1>25. CASE QuiesceDrain BY <1>25 DEF QuiesceDrain
<1>26. CASE QuiesceDone BY <1>26 DEF QuiesceDone
<1>27. CASE Reset BY <1>27 DEF Reset
<1>28. CASE ReadStatus BY <1>28 DEF ReadStatus
<1>29. CASE EnableQueue BY <1>29 DEF EnableQueue
<1>30. CASE JoinVcpus BY <1>30 DEF JoinVcpus
<1>31. CASE UNCHANGED vars BY SMTT(60), <1>31 DEF vars
<1> QED
  BY <1>1, <1>2, <1>3, <1>4, <1>5, <1>6, <1>7, <1>8, <1>9, <1>10, <1>11, <1>12, <1>13,
     <1>14, <1>15, <1>16, <1>17, <1>18, <1>19, <1>20, <1>21, <1>22, <1>23, <1>24, <1>25,
     <1>26, <1>27, <1>28, <1>29, <1>30, <1>31
  DEF Next, ThreadStep, DrainStep, Submitting, Finishing, GuestNext

\* Every step keeps each bounce slot with one request.
LEMMA BounceInvStep == IInv /\ [Next]_vars => BounceInv'
<1> SUFFICES ASSUME IInv, [Next]_vars PROVE BounceInv'
  OBVIOUS
<1> USE ThreadAssumption
        DEF IInv, TypeOK, ThreadInv, WorkInv, BounceInv, Threads, Callers, Early, Fin, Sole,
            InSeg, Guard, Working, Draining, Waiting, Goto, WorkOn, Update, Continue, Return,
            ring
<1>1. ASSUME NEW t \in Threads, Notify(t) PROVE BounceInv' BY <1>1 DEF Notify
<1>2. ASSUME NEW t \in Threads, DrainDone(t) PROVE BounceInv' BY <1>2 DEF DrainDone
<1>3. ASSUME NEW t \in Threads, Parse(t) PROVE BounceInv' BY <1>3 DEF Parse
<1>4. ASSUME NEW t \in Threads, AcquireSlot(t) PROVE BounceInv'
  <2>1. CASE NoSlot(t)
    BY <2>1 DEF NoSlot
  <2>2. ASSUME NEW p \in pool, NEW n \in 1..MaxSegs, NEW b \in bounce_pool \cup {None},
               Acquired(t, p, n, b)
        PROVE  BounceInv'
    BY <2>2, SoleOwner DEF Acquired
  <2> QED
    BY <1>4, <2>1, <2>2, AcquireEffect
<1>5. ASSUME NEW t \in Threads, SubmitSeg(t) PROVE BounceInv'
  <2>1. CASE SegRefused(t)
    BY <2>1 DEF SegRefused
  <2>2. ASSUME NEW s \in SegSlots, SegTaken(t, s) PROVE BounceInv'
    BY <2>2 DEF SegTaken
  <2> QED
    BY <1>5, <2>1, <2>2, SubmitEffect
<1>6. ASSUME NEW t \in Threads, OutOfBounds(t) PROVE BounceInv' BY <1>6 DEF OutOfBounds
<1>7. ASSUME NEW t \in Threads, StartRefused(t) PROVE BounceInv' BY <1>7 DEF StartRefused
<1>8. ASSUME NEW t \in Threads, StartPending(t) PROVE BounceInv' BY <1>8 DEF StartPending
<1>9. ASSUME NEW t \in Threads, StartDone(t) PROVE BounceInv' BY <1>9 DEF StartDone
<1>10. ASSUME NEW t \in Threads, DropGuard(t) PROVE BounceInv' BY <1>10 DEF DropGuard
<1>11. ASSUME NEW t \in Threads, Complete(t) PROVE BounceInv'
  <2>1. pc[t] = "complete" /\ cur[t] \in Reqs
    BY <1>11 DEF Complete
  <2>2. CASE req' = [req EXCEPT ![cur[t]].failed = TRUE] /\ Goto(t, "seg_end")
    BY <1>11, <2>1, <2>2 DEF Complete
  <2>3. CASE UNCHANGED req /\ (Goto(t, "seg_end") \/ Goto(t, "scatter"))
    BY <1>11, <2>1, <2>3 DEF Complete
  <2> QED
    BY <1>11, <2>2, <2>3 DEF Complete
<1>12. ASSUME NEW t \in Threads, Scatter(t) PROVE BounceInv' BY <1>12 DEF Scatter
<1>13. ASSUME NEW t \in Threads, SegEnd(t) PROVE BounceInv' BY <1>13 DEF SegEnd
<1>14. ASSUME NEW t \in Threads, CheckEpoch(t) PROVE BounceInv' BY <1>14 DEF CheckEpoch
<1>15. ASSUME NEW t \in Threads, WriteStatus(t) PROVE BounceInv' BY <1>15 DEF WriteStatus
<1>16. ASSUME NEW t \in Threads, PushUsed(t) PROVE BounceInv' BY <1>16 DEF PushUsed
<1>17. ASSUME NEW t \in Threads, ReleaseSlots(t) PROVE BounceInv'
  <2>1. /\ cur[t] \in Reqs
        /\ \A u \in Threads \ {t} : cur[u] # cur[t]
        /\ \A s \in SegSlots : seg[s].st # "free" => seg[s].parent # cur[t]
    BY <1>17, SoleOwner DEF ReleaseSlots
  <2> QED
    BY <1>17, <2>1 DEF ReleaseSlots
<1>18. ASSUME NEW t \in Threads, DecideIrq(t) PROVE BounceInv' BY <1>18 DEF DecideIrq
<1>19. ASSUME NEW t \in Threads, RaiseIrq(t) PROVE BounceInv' BY <1>19 DEF RaiseIrq
<1>20. ASSUME NEW t \in Threads, Settle(t) PROVE BounceInv'
  <2>1. /\ cur[t] \in Reqs
        /\ \A u \in Threads \ {t} : cur[u] # cur[t]
        /\ \A s \in SegSlots : seg[s].st # "free" => seg[s].parent # cur[t]
    BY <1>20, SoleOwner DEF Settle
  <2> QED
    BY <1>20, <2>1 DEF Settle, Idle
<1>21. ASSUME NEW t \in Threads, NEW h \in Heads, NEW r \in Reqs, Take(t, h, r) PROVE BounceInv'
  BY <1>21 DEF Take, Idle
<1>22. ASSUME NEW s \in SegSlots, Dequeue(s) PROVE BounceInv' BY <1>22 DEF Dequeue
<1>23. ASSUME NEW h \in Heads, Post(h) PROVE BounceInv' BY <1>23 DEF Post
<1>24. ASSUME NEW h \in Heads, Reap(h) PROVE BounceInv' BY <1>24 DEF Reap
<1>25. CASE QuiesceDrain BY <1>25 DEF QuiesceDrain
<1>26. CASE QuiesceDone BY <1>26 DEF QuiesceDone
<1>27. CASE Reset BY <1>27 DEF Reset
<1>28. CASE ReadStatus BY <1>28 DEF ReadStatus
<1>29. CASE EnableQueue BY <1>29 DEF EnableQueue
<1>30. CASE JoinVcpus BY <1>30 DEF JoinVcpus
<1>31. CASE UNCHANGED vars BY SMTT(60), <1>31 DEF vars
<1> QED
  BY ZenonT(60), <1>1, <1>2, <1>3, <1>4, <1>5, <1>6, <1>7, <1>8, <1>9, <1>10, <1>11, <1>12, <1>13,
     <1>14, <1>15, <1>16, <1>17, <1>18, <1>19, <1>20, <1>21, <1>22, <1>23, <1>24, <1>25,
     <1>26, <1>27, <1>28, <1>29, <1>30, <1>31
  DEF Next, ThreadStep, DrainStep, Submitting, Finishing, GuestNext

\* Every step keeps each head with one owner, and a request taken before a reset
\* apart from those taken after it.
LEMMA HeadInvStep == IInv /\ [Next]_vars => HeadInv'
<1> SUFFICES ASSUME IInv, [Next]_vars PROVE HeadInv'
  OBVIOUS
<1> USE ThreadAssumption
        DEF IInv, TypeOK, ThreadInv, WorkInv, HeadInv, Holds, Unpushed, Threads, Callers, Early,
            Fin, Sole, InSeg, Guard, Working, Draining, Waiting, Goto, WorkOn, Update, Continue,
            Return, ring
<1>1. ASSUME NEW t \in Threads, Notify(t) PROVE HeadInv' BY <1>1 DEF Notify
<1>2. ASSUME NEW t \in Threads, DrainDone(t) PROVE HeadInv' BY <1>2 DEF DrainDone
<1>3. ASSUME NEW t \in Threads, Parse(t) PROVE HeadInv' BY <1>3 DEF Parse
<1>4. ASSUME NEW t \in Threads, AcquireSlot(t) PROVE HeadInv'
  <2>1. CASE NoSlot(t)
    BY <2>1 DEF NoSlot
  <2>2. ASSUME NEW p \in pool, NEW n \in 1..MaxSegs, NEW b \in bounce_pool \cup {None},
               Acquired(t, p, n, b)
        PROVE  HeadInv'
    BY <2>2 DEF Acquired
  <2> QED
    BY <1>4, <2>1, <2>2, AcquireEffect
<1>5. ASSUME NEW t \in Threads, SubmitSeg(t) PROVE HeadInv'
  <2>1. CASE SegRefused(t)
    BY SMTT(60), <2>1 DEF SegRefused
  <2>2. ASSUME NEW s \in SegSlots, SegTaken(t, s) PROVE HeadInv'
    <3> HIDE DEF WorkInv, ThreadInv
    <3> QED
      BY SMTT(60), <2>2 DEF SegTaken
  <2> QED
    BY SMTT(60), <1>5, <2>1, <2>2, SubmitEffect
<1>6. ASSUME NEW t \in Threads, OutOfBounds(t) PROVE HeadInv' BY SMTT(60), <1>6 DEF OutOfBounds
<1>7. ASSUME NEW t \in Threads, StartRefused(t) PROVE HeadInv'
  <2> HIDE DEF WorkInv, ThreadInv
  <2> QED
    BY SMTT(60), <1>7 DEF StartRefused
<1>8. ASSUME NEW t \in Threads, StartPending(t) PROVE HeadInv' BY <1>8 DEF StartPending
<1>9. ASSUME NEW t \in Threads, StartDone(t) PROVE HeadInv' BY SMTT(60), <1>9 DEF StartDone
<1>10. ASSUME NEW t \in Threads, DropGuard(t) PROVE HeadInv' BY SMTT(60), <1>10 DEF DropGuard
<1>11. ASSUME NEW t \in Threads, Complete(t) PROVE HeadInv'
  <2>1. pc[t] = "complete" /\ cur[t] \in Reqs
    BY SMTT(60), <1>11 DEF Complete
  <2>2. CASE req' = [req EXCEPT ![cur[t]].failed = TRUE] /\ Goto(t, "seg_end")
    BY <1>11, <2>1, <2>2 DEF Complete
  <2>3. CASE UNCHANGED req /\ (Goto(t, "seg_end") \/ Goto(t, "scatter"))
    BY <1>11, <2>1, <2>3 DEF Complete
  <2> QED
    BY <1>11, <2>2, <2>3 DEF Complete
<1>12. ASSUME NEW t \in Threads, Scatter(t) PROVE HeadInv' BY SMTT(60), <1>12 DEF Scatter
<1>13. ASSUME NEW t \in Threads, SegEnd(t) PROVE HeadInv'
  <2> HIDE DEF WorkInv, ThreadInv
  <2> QED
    BY SMTT(60), <1>13 DEF SegEnd
<1>14. ASSUME NEW t \in Threads, CheckEpoch(t) PROVE HeadInv' BY <1>14 DEF CheckEpoch
<1>15. ASSUME NEW t \in Threads, WriteStatus(t) PROVE HeadInv' BY SMTT(60), <1>15 DEF WriteStatus
<1>16. ASSUME NEW t \in Threads, PushUsed(t) PROVE HeadInv'
  <2>1. /\ cur[t] \in Reqs /\ req[cur[t]].live
        /\ \A u \in Threads \ {t} : cur[u] # cur[t]
        /\ \A s \in SegSlots : seg[s].st # "free" => seg[s].parent # cur[t]
    BY SMTT(60), <1>16, SoleOwner DEF PushUsed
  <2> QED
    <3> HIDE DEF WorkInv, ThreadInv
    <3> QED
      BY SMTT(60), <1>16, <2>1 DEF PushUsed
<1>17. ASSUME NEW t \in Threads, ReleaseSlots(t) PROVE HeadInv'
  <2> HIDE DEF WorkInv
  <2> QED
    BY SMTT(60), <1>17 DEF ReleaseSlots
<1>18. ASSUME NEW t \in Threads, DecideIrq(t) PROVE HeadInv' BY <1>18 DEF DecideIrq
<1>19. ASSUME NEW t \in Threads, RaiseIrq(t) PROVE HeadInv' BY <1>19 DEF RaiseIrq
<1>20. ASSUME NEW t \in Threads, Settle(t) PROVE HeadInv'
  <2>1. /\ cur[t] \in Reqs
        /\ \A u \in Threads \ {t} : cur[u] # cur[t]
        /\ \A s \in SegSlots : seg[s].st # "free" => seg[s].parent # cur[t]
    BY <1>20, SoleOwner DEF Settle
  <2> QED
    BY <1>20, <2>1 DEF Settle, Idle
<1>21. ASSUME NEW t \in Threads, NEW h \in Heads, NEW r \in Reqs, Take(t, h, r) PROVE HeadInv'
  BY <1>21 DEF Take, Idle
<1>22. ASSUME NEW s \in SegSlots, Dequeue(s) PROVE HeadInv' BY <1>22 DEF Dequeue
<1>23. ASSUME NEW h \in Heads, Post(h) PROVE HeadInv' BY <1>23 DEF Post
<1>24. ASSUME NEW h \in Heads, Reap(h) PROVE HeadInv' BY <1>24 DEF Reap
<1>25. CASE QuiesceDrain BY <1>25 DEF QuiesceDrain
<1>26. CASE QuiesceDone BY <1>26 DEF QuiesceDone
<1>27. CASE Reset BY <1>27 DEF Reset
<1>28. CASE ReadStatus
  <2>1. Live = {}
    BY <1>28, Finite, FS_EmptySet DEF ReadStatus, CountInv, ActiveInv
  <2> QED
    BY <1>28, <2>1 DEF ReadStatus, Live
<1>29. CASE EnableQueue BY <1>29 DEF EnableQueue
<1>30. CASE JoinVcpus BY <1>30 DEF JoinVcpus
<1>31. CASE UNCHANGED vars BY <1>31 DEF vars
<1> QED
  BY ZenonT(60), <1>1, <1>2, <1>3, <1>4, <1>5, <1>6, <1>7, <1>8, <1>9, <1>10, <1>11, <1>12, <1>13,
     <1>14, <1>15, <1>16, <1>17, <1>18, <1>19, <1>20, <1>21, <1>22, <1>23, <1>24, <1>25,
     <1>26, <1>27, <1>28, <1>29, <1>30, <1>31
  DEF Next, ThreadStep, DrainStep, Submitting, Finishing, GuestNext

\* Every step keeps what quiesce has established.
LEMMA QuiesceInvStep == IInv /\ [Next]_vars => QuiesceInv'
<1> SUFFICES ASSUME IInv, [Next]_vars PROVE QuiesceInv'
  OBVIOUS
<1> USE ThreadAssumption
        DEF IInv, TypeOK, ThreadInv, QuiesceInv, Threads, Callers, Early, Fin, Sole, InSeg,
            Guard, Working, Draining, Waiting, Goto, WorkOn, Update, Continue, Return, ring
<1>1. ASSUME NEW t \in Threads, Notify(t) PROVE QuiesceInv' BY <1>1 DEF Notify
<1>2. ASSUME NEW t \in Threads, DrainDone(t) PROVE QuiesceInv' BY <1>2 DEF DrainDone
<1>3. ASSUME NEW t \in Threads, Parse(t) PROVE QuiesceInv' BY <1>3 DEF Parse
<1>4. ASSUME NEW t \in Threads, AcquireSlot(t) PROVE QuiesceInv'
  <2>1. CASE NoSlot(t)
    BY <2>1 DEF NoSlot
  <2>2. ASSUME NEW p \in pool, NEW n \in 1..MaxSegs, NEW b \in bounce_pool \cup {None},
               Acquired(t, p, n, b)
        PROVE  QuiesceInv'
    BY <2>2 DEF Acquired
  <2> QED
    BY <1>4, <2>1, <2>2, AcquireEffect
<1>5. ASSUME NEW t \in Threads, SubmitSeg(t) PROVE QuiesceInv' BY <1>5 DEF SubmitSeg
<1>6. ASSUME NEW t \in Threads, OutOfBounds(t) PROVE QuiesceInv' BY <1>6 DEF OutOfBounds
<1>7. ASSUME NEW t \in Threads, StartRefused(t) PROVE QuiesceInv' BY <1>7 DEF StartRefused
<1>8. ASSUME NEW t \in Threads, StartPending(t) PROVE QuiesceInv' BY <1>8 DEF StartPending
<1>9. ASSUME NEW t \in Threads, StartDone(t) PROVE QuiesceInv' BY <1>9 DEF StartDone
<1>10. ASSUME NEW t \in Threads, DropGuard(t) PROVE QuiesceInv' BY <1>10 DEF DropGuard
<1>11. ASSUME NEW t \in Threads, Complete(t) PROVE QuiesceInv' BY <1>11 DEF Complete
<1>12. ASSUME NEW t \in Threads, Scatter(t) PROVE QuiesceInv' BY <1>12 DEF Scatter
<1>13. ASSUME NEW t \in Threads, SegEnd(t) PROVE QuiesceInv' BY <1>13 DEF SegEnd
<1>14. ASSUME NEW t \in Threads, CheckEpoch(t) PROVE QuiesceInv' BY <1>14 DEF CheckEpoch
<1>15. ASSUME NEW t \in Threads, WriteStatus(t) PROVE QuiesceInv' BY <1>15 DEF WriteStatus
<1>16. ASSUME NEW t \in Threads, PushUsed(t) PROVE QuiesceInv' BY <1>16 DEF PushUsed
<1>17. ASSUME NEW t \in Threads, ReleaseSlots(t) PROVE QuiesceInv' BY <1>17 DEF ReleaseSlots
<1>18. ASSUME NEW t \in Threads, DecideIrq(t) PROVE QuiesceInv' BY <1>18 DEF DecideIrq
<1>19. ASSUME NEW t \in Threads, RaiseIrq(t) PROVE QuiesceInv' BY <1>19 DEF RaiseIrq
<1>20. ASSUME NEW t \in Threads, Settle(t) PROVE QuiesceInv'
  <2>1. active # 0
    BY <1>20, ActivePositive DEF Settle
  <2> QED
    BY <1>20, <2>1 DEF Settle
<1>21. ASSUME NEW t \in Threads, NEW h \in Heads, NEW r \in Reqs, Take(t, h, r) PROVE QuiesceInv'
  BY <1>21 DEF Take
<1>22. ASSUME NEW s \in SegSlots, Dequeue(s) PROVE QuiesceInv' BY <1>22 DEF Dequeue
<1>23. ASSUME NEW h \in Heads, Post(h) PROVE QuiesceInv' BY <1>23 DEF Post
<1>24. ASSUME NEW h \in Heads, Reap(h) PROVE QuiesceInv' BY <1>24 DEF Reap
<1>25. CASE QuiesceDrain BY <1>25 DEF QuiesceDrain
<1>26. CASE QuiesceDone BY <1>26 DEF QuiesceDone
<1>27. CASE Reset BY <1>27 DEF Reset
<1>28. CASE ReadStatus BY <1>28 DEF ReadStatus
<1>29. CASE EnableQueue BY <1>29 DEF EnableQueue
<1>30. CASE JoinVcpus BY <1>30 DEF JoinVcpus
<1>31. CASE UNCHANGED vars BY <1>31 DEF vars
<1> QED
  BY <1>1, <1>2, <1>3, <1>4, <1>5, <1>6, <1>7, <1>8, <1>9, <1>10, <1>11, <1>12, <1>13,
     <1>14, <1>15, <1>16, <1>17, <1>18, <1>19, <1>20, <1>21, <1>22, <1>23, <1>24, <1>25,
     <1>26, <1>27, <1>28, <1>29, <1>30, <1>31
  DEF Next, ThreadStep, DrainStep, Submitting, Finishing, GuestNext

\* At the start the device holds nothing and nobody works.
LEMMA IInvInit == Init => IInv
<1> SUFFICES ASSUME Init PROVE IInv
  OBVIOUS
<1> USE ThreadAssumption, BoundAssumption DEF Init
<1>1. TypeOK
  <2>1. req \in [Reqs -> Request]
    BY FreshRequest
  <2>2. 0 \in 0..MaxEpoch
    OBVIOUS
  <2> QED
    BY <2>1, <2>2 DEF TypeOK, Request
<1>2. ThreadInv
  BY DEF ThreadInv, Threads, Callers, Draining, Working, Sole, Early, Fin, Guard, InSeg, Waiting
<1>3. WorkInv
  BY DEF WorkInv, Callers
<1>4. CountInv
  <2>1. Live = {}
    BY DEF Live, Idle
  <2> QED
    BY <2>1, FS_EmptySet
    DEF CountInv, ActiveInv, OutstandingInv, SoleInv, Sole, Early, Fin
<1>5. SlotInv /\ BounceInv
  BY DEF SlotInv, BounceInv, Idle, Early, Guard, InSeg
<1>6. HeadInv
  BY DEF HeadInv, Holds, Unpushed, Early, Guard, InSeg, Idle
<1>7. QuiesceInv
  BY DEF QuiesceInv, Waiting, Threads
<1> QED
  BY <1>1, <1>2, <1>3, <1>4, <1>5, <1>6, <1>7 DEF IInv

\* IInv is an invariant of the device.
THEOREM Invariance == Spec => []IInv
<1>1. IInv /\ [Next]_vars => IInv'
  BY TypeOKStep, ThreadInvStep, WorkInvStep, SoleInvStep, OutstandingInvStep, ActiveInvStep,
     SlotInvStep, BounceInvStep, HeadInvStep, QuiesceInvStep DEF IInv, CountInv
<1> QED
  BY <1>1, IInvInit, PTL DEF Spec

-----------------------------------------------------------------------------
(* The results.                                                            *)

\* A set without two different members counts at most one.
LEMMA AtMostOne ==
  ASSUME NEW S, IsFiniteSet(S), \A x, y \in S : x = y
  PROVE  Cardinality(S) <= 1
<1>1. CASE S = {}
  BY <1>1, FS_EmptySet
<1>2. ASSUME NEW x \in S PROVE Cardinality(S) = 1
  BY <1>2, FS_Singleton
<1> QED
  BY <1>1, <1>2

\* Every variable keeps its type: in particular `active' and `outstanding' never
\* go below zero, however completions, drains and resets interleave.
THEOREM TypeCorrect == Spec => []TypeOK
<1>1. IInv => TypeOK
  BY DEF IInv
<1> QED
  BY <1>1, Invariance, PTL

\* Once the driver has read the status as 0 after a reset, no request taken
\* before it is left in the device (NoTouchAfterReset), whatever the number of
\* threads, requests and resets: reset_pending and the transport's status read
\* are enough, although reset itself waits for nothing.
THEOREM ResetIsClean == Spec => []NoTouchAfterReset
<1>1. IInv => NoTouchAfterReset
  BY DEF IInv, HeadInv, NoTouchAfterReset, Live
<1> QED
  BY <1>1, Invariance, PTL

\* Every posted head has one owner (OneOwner): it waits in the ring, is with one
\* request, or has been retired once; the epoch check in push_used keeps a stale
\* request from retiring a head of the next epoch.
THEOREM HeadHasOneOwner == Spec => []OneOwner
<1>1. ASSUME IInv PROVE OneOwner
  <2>1. avail \cup used \subseteq posted /\ avail \cap used = {}
    BY <1>1 DEF IInv, HeadInv
  <2>2. ASSUME NEW h \in Heads
        PROVE  /\ Cardinality(Holding(h)) <= 1
               /\ Holding(h) # {} => h \in posted \ (avail \cup used)
    <3>1. \A r \in Holding(h) : r \in Live /\ Holds(r) /\ req[r].head = h
      BY DEF Holding, Live, Holds
    <3>2. \A r, q \in Holding(h) : r = q
      BY <1>1, <3>1 DEF IInv, HeadInv, Live
    <3>3. Holding(h) \subseteq Live
      BY DEF Holding
    <3>4. Cardinality(Holding(h)) <= 1
      BY <3>2, <3>3, Finite, FS_Subset, AtMostOne
    <3>5. Holding(h) # {} => h \in posted \ (avail \cup used)
      BY <1>1, <3>1 DEF IInv, HeadInv, Live
    <3> QED
      BY <3>4, <3>5
  <2> QED
    BY <2>1, <2>2 DEF OneOwner
<1> QED
  BY <1>1, Invariance, PTL

\* A parent slot or a bounce slot is free or belongs to exactly one request, and
\* a busy segment's request still has its parent slot (NoSlotAliased): no buffer
\* is handed out again while an I/O into it is outstanding.
THEOREM SlotsNotAliased == Spec => []NoSlotAliased
<1>1. ASSUME IInv PROVE NoSlotAliased
  <2>1. ASSUME NEW p \in Slots
        PROVE  Cardinality({r \in Reqs : req[r].slot = p}) = (IF p \in pool THEN 0 ELSE 1)
    <3>1. p # None
      BY ThreadAssumption
    <3>2. CASE p \in pool
      <4>1. {r \in Reqs : req[r].slot = p} = {}
        BY <1>1, <3>2 DEF IInv, SlotInv
      <4> QED
        BY <3>2, <4>1, FS_EmptySet
    <3>3. CASE p \notin pool
      <4>1. PICK q \in Reqs : req[q].slot = p
        BY <1>1, <3>3 DEF IInv, SlotInv
      <4>2. {r \in Reqs : req[r].slot = p} = {q}
        BY <1>1, <3>1, <4>1 DEF IInv, SlotInv
      <4> QED
        BY <3>3, <4>2, FS_Singleton
    <3> QED
      BY <3>2, <3>3
  <2>2. ASSUME NEW b \in BounceSlots
        PROVE  Cardinality({r \in Reqs : req[r].bounce_slot = b}) =
                 (IF b \in bounce_pool THEN 0 ELSE 1)
    <3>1. b # None
      BY ThreadAssumption
    <3>2. CASE b \in bounce_pool
      <4>1. {r \in Reqs : req[r].bounce_slot = b} = {}
        BY <1>1, <3>2 DEF IInv, BounceInv
      <4> QED
        BY <3>2, <4>1, FS_EmptySet
    <3>3. CASE b \notin bounce_pool
      <4>1. PICK q \in Reqs : req[q].bounce_slot = b
        BY <1>1, <3>3 DEF IInv, BounceInv
      <4>2. {r \in Reqs : req[r].bounce_slot = b} = {q}
        BY <1>1, <3>1, <4>1 DEF IInv, BounceInv
      <4> QED
        BY <3>3, <4>2, FS_Singleton
    <3> QED
      BY <3>2, <3>3
  <2>3. \A s \in SegSlots : seg[s].st # "free" => req[seg[s].parent].slot # None
    BY <1>1 DEF IInv, SlotInv
  <2> QED
    BY <2>1, <2>2, <2>3 DEF NoSlotAliased
<1> QED
  BY <1>1, Invariance, PTL

\* When quiesce has returned every request is settled, no thread is at work on
\* the device and nothing is left in a live ring (QuiescedIsStill): what the
\* snapshot then saves cannot change under it.
THEOREM QuiesceStills == Spec => []QuiescedIsStill
<1>1. ASSUME IInv, pc[Main] = "quiesced"
      PROVE  /\ Live = {} /\ \A t \in Threads \ {Main} : pc[t] = "idle"
             /\ ready => avail = {}
  <2>1. Live = {}
    BY <1>1, Finite, FS_EmptySet DEF IInv, QuiesceInv, CountInv, ActiveInv
  <2>2. ready => avail = {}
    BY <1>1 DEF IInv, QuiesceInv, Waiting
  <2>3. ASSUME NEW t \in Threads \ {Main} PROVE pc[t] = "idle"
    <3>1. pc[t] \notin Waiting
      BY <1>1 DEF IInv, ThreadInv
    <3>2. pc[t] \notin Working
      BY <1>1, <2>1, OwnRequest DEF IInv, ThreadInv, WorkInv, Live
    <3>3. t # Worker => pc[t] # "pop"
      BY <1>1, ThreadAssumption
      DEF IInv, QuiesceInv, ThreadInv, Callers, Draining, Waiting, Threads
    <3> QED
      BY <1>1, <3>1, <3>2, <3>3
      DEF IInv, TypeOK, ThreadInv, Waiting, Working, Sole, Early, Fin, Guard, InSeg
  <2> QED
    BY <2>1, <2>2, <2>3
<1>2. IInv => QuiescedIsStill
  BY <1>1 DEF QuiescedIsStill
<1> QED
  BY <1>2, Invariance, PTL
=============================================================================
