-------------------------- MODULE BlockFileProofs ---------------------------
(***************************************************************************)
(* Proofs about BlockFile, for any number of operations.                   *)
(***************************************************************************)
EXTENDS BlockFile, FiniteSetTheorems, TLAPS

-----------------------------------------------------------------------------
LEMMA TypedInvariant == Spec => []Typed
<1>1. Init => Typed
  <2> SUFFICES ASSUME Init PROVE Typed
    OBVIOUS
  <2>1. st \in [Ops -> States]
    BY DEF Init, States
  <2>2. closed = TRUE /\ shutdown = FALSE /\ inflight = 0
    BY DEF Init
  <2>3. closed \in BOOLEAN /\ shutdown \in BOOLEAN
    BY <2>2, Zenon
  <2>4. inflight \in Int
    BY <2>2
  <2>5. ctl = "none" /\ worker = NoOp
    BY DEF Init
  <2> QED
    BY <2>1, <2>3, <2>4, <2>5 DEF Typed
<1>2. Typed /\ [Next]_vars => Typed'
  <2> SUFFICES ASSUME Typed, [Next]_vars PROVE Typed'
    OBVIOUS
  <2>1. ASSUME NEW o \in Ops, Count(o) \/ OpStep(o) PROVE Typed'
    BY <2>1 DEF Typed, States, OpStep, Set, Count, CheckClosed, IoRefused, IoPending,
                IoDone, Fail, CallbackReturns, Uncount
  <2>2. ASSUME NEW o \in Ops, Dequeue(o) PROVE Typed'
    BY <2>2 DEF Typed, States, Set, Dequeue
  <2>3. CASE WorkerExit \/ Start \/ StopClose \/ StopDrained \/ StopJoin
    BY <2>3 DEF Typed, WorkerExit, Start, StopClose, StopDrained, StopJoin
  <2>4. CASE UNCHANGED vars
    BY <2>4 DEF Typed, vars
  <2> QED
    BY <2>1, <2>2, <2>3, <2>4 DEF Next
<1> QED
  BY <1>1, <1>2, PTL DEF Spec

-----------------------------------------------------------------------------
(* The count.                                                              *)

LEMMA CountedFinite == IsFiniteSet(Counted)
  BY OpsAssumption, FS_Subset DEF Counted

\* Counting an idle operation, and uncounting a busy one, moves the cardinality
\* by one.
LEMMA CountedGrows ==
  ASSUME Typed, NEW o \in Ops, NEW s \in States \ {"idle"}, st[o] = "idle", Set(o, s)
  PROVE  Cardinality(Counted') = Cardinality(Counted) + 1
<1>1. Counted' = Counted \cup {o} /\ o \notin Counted
  BY DEF Counted, Set, Typed
<1> QED
  BY <1>1, CountedFinite, FS_AddElement

LEMMA CountedShrinks ==
  ASSUME Typed, NEW o \in Ops, st[o] # "idle", Set(o, "idle")
  PROVE  Cardinality(Counted') = Cardinality(Counted) - 1
<1>1. Counted' = Counted \ {o} /\ o \in Counted
  BY DEF Counted, Set, Typed
<1> QED
  BY <1>1, CountedFinite, FS_RemoveElement

LEMMA CountedKept ==
  ASSUME Typed, NEW o \in Ops, NEW s \in States \ {"idle"}, st[o] # "idle", Set(o, s)
  PROVE  Counted' = Counted
  BY DEF Counted, Set, Typed

-----------------------------------------------------------------------------
LEMMA StopInvInit == Init => StopInv
<1> SUFFICES ASSUME Init PROVE StopInv
  OBVIOUS
<1>1. Counted = {}
  BY DEF Init, Counted
<1> QED
  BY <1>1, FS_EmptySet, OpsAssumption DEF Init, StopInv

LEMMA StopInvStep == Typed /\ StopInv /\ [Next]_vars => StopInv'
<1> SUFFICES ASSUME Typed, StopInv, [Next]_vars PROVE StopInv'
  OBVIOUS
<1>1. ASSUME NEW o \in Ops, Count(o) PROVE StopInv'
  <2>1. Cardinality(Counted') = Cardinality(Counted) + 1
    BY <1>1, CountedGrows DEF Count, States
  <2> QED
    BY <1>1, <2>1 DEF Count, Set, StopInv, Typed
<1>2. ASSUME NEW o \in Ops, CheckClosed(o) PROVE StopInv'
  <2>1. Counted' = Counted
    BY <1>2, CountedKept DEF CheckClosed, States
  <2> QED
    BY <1>2, <2>1 DEF CheckClosed, Set, StopInv, Typed
<1>3. ASSUME NEW o \in Ops, IoRefused(o) \/ IoPending(o) \/ IoDone(o) PROVE StopInv'
  <2>1. Counted' = Counted
    BY <1>3, CountedKept DEF IoRefused, IoPending, IoDone, States
  <2> QED
    BY <1>3, <2>1 DEF IoRefused, IoPending, IoDone, Set, StopInv, Typed
<1>4. ASSUME NEW o \in Ops, Fail(o) PROVE StopInv'
  <2>1. Cardinality(Counted') = Cardinality(Counted) - 1
    BY <1>4, CountedShrinks DEF Fail
  <2> QED
    BY <1>4, <2>1 DEF Fail, Set, StopInv, Typed
<1>5. ASSUME NEW o \in Ops, CallbackReturns(o) PROVE StopInv'
  <2>1. Counted' = Counted
    BY <1>5, CountedKept DEF CallbackReturns, States
  <2> QED
    BY <1>5, <2>1 DEF CallbackReturns, Set, StopInv, Typed
<1>6. ASSUME NEW o \in Ops, Uncount(o) PROVE StopInv'
  <2>1. Cardinality(Counted') = Cardinality(Counted) - 1
    BY <1>6, CountedShrinks DEF Uncount
  <2> QED
    BY <1>6, <2>1, OpsAssumption DEF Uncount, Set, StopInv, Typed
<1>7. ASSUME NEW o \in Ops, Dequeue(o) PROVE StopInv'
  <2>1. Counted' = Counted
    BY <1>7, CountedKept DEF Dequeue, States
  <2> QED
    BY <1>7, <2>1, OpsAssumption DEF Dequeue, Set, StopInv, Typed
<1>8. CASE WorkerExit \/ Start \/ StopClose \/ StopJoin
  <2>1. Counted' = Counted
    BY <1>8 DEF Counted, WorkerExit, Start, StopClose, StopJoin
  <2> QED
    BY <1>8, <2>1, OpsAssumption DEF StopInv, Typed, WorkerExit, Start, StopClose, StopJoin
<1>9. CASE StopDrained
  <2>1. Counted' = Counted /\ Counted = {}
    BY <1>9, CountedFinite, FS_EmptySet DEF Counted, StopDrained, StopInv
  <2>2. \A o \in Ops : st'[o] = "idle"
    BY <1>9, <2>1 DEF Counted, StopDrained
  <2> QED
    BY <1>9, <2>1, <2>2 DEF StopDrained, StopInv, Typed
<1>10. CASE UNCHANGED vars
  <2>1. Counted' = Counted
    BY <1>10 DEF Counted, vars
  <2> QED
    BY <1>10, <2>1 DEF StopInv, vars
<1> QED
  BY <1>1, <1>2, <1>3, <1>4, <1>5, <1>6, <1>7, <1>8, <1>9, <1>10 DEF Next, OpStep

\* Every variable keeps its type; in particular the count of operations in
\* flight, an unsigned integer that each operation raises once and lowers once,
\* never goes below zero.
THEOREM TypeCorrect == Spec => []TypeOK
<1>1. Cardinality(Counted) \in Nat
  BY CountedFinite, FS_CardinalityType
<1>2. Typed /\ StopInv => TypeOK
  BY <1>1 DEF StopInv, TypeOK
<1> QED
  BY TypedInvariant, StopInvInit, StopInvStep, <1>2, PTL DEF Spec

\* BlockFile::stop keeps its promise for any number of concurrent submitters:
\* begin counts before it looks at `closed', stop closes before it looks at the
\* count, so whatever order they meet in, a stopped backend runs nothing.
THEOREM StoppedRunsNothing == Spec => []StopMeansStopped
<1>1. Typed /\ StopInv => StopMeansStopped
  BY DEF StopInv, StopMeansStopped, Running, Typed
<1> QED
  BY TypedInvariant, StopInvInit, StopInvStep, <1>1, PTL DEF Spec

\* No operation is left pending without a worker to complete it.
THEOREM PendingHasWorker == Spec => []NeverOrphaned
<1>1. Typed /\ StopInv => NeverOrphaned
  BY DEF StopInv, NeverOrphaned, Typed
<1> QED
  BY TypedInvariant, StopInvInit, StopInvStep, <1>1, PTL DEF Spec
=============================================================================
