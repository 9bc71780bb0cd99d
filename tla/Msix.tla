-------------------------------- MODULE Msix ---------------------------------
(***************************************************************************)
(* The MSI-X table of a virtio function (src/pci/msix.rs) and the path of a *)
(* queue interrupt to it (raise_queue_interrupt in                          *)
(* src/virtio/transport.rs).                                                *)
(*                                                                         *)
(* Device threads raise interrupts while the guest's vCPUs mask, rewrite    *)
(* and unmask the entries and change the function's Message Control.        *)
(* trigger reads Message Control with no lock, looks at the entry's mask    *)
(* under the tables lock, and reads the message under that lock again; an   *)
(* unmask replays a pending vector.  Each lock-protected block is a step.   *)
(*                                                                         *)
(* An entry's message is the pair <<addr, data>>: the guest rewrites the    *)
(* two halves in two writes, from version n to version n + 1.               *)
(***************************************************************************)
EXTENDS Integers, TLAPS

CONSTANTS Vectors,      \* MSI-X vectors of the function
          Threads,      \* device threads that raise interrupts
          MaxRaises,    \* bound on the interrupts raised
          MaxWrites,    \* bound on the rewrites of a vector's message
          MaxControls   \* bound on changes of Message Control once queues have vectors

ASSUME MsixAssumption ==
  MaxRaises \in Nat /\ MaxWrites \in Nat /\ MaxControls \in Nat

NoVector == "0xFFFF"
ASSUME NoVectorAssumption == NoVector \notin Vectors

VARIABLES
  control,      \* Message Control: the enable and function-mask bits
  masked, pba,  \* per vector: the entry's mask bit and its pending bit
  addr, data,   \* per vector: the version of each half of the message
  assigned,     \* the guest has given the queues their vectors
  pc, at,       \* per device thread: its place in raise_queue_interrupt, its vector
  replay,       \* vectors whose unmask has yet to replay them (on a vCPU)
  rewriting,    \* vectors the guest is between masking and unmasking
  owed,         \* vectors triggered and not injected since
  raises, controls

table == <<masked, pba, addr, data>>
vars == <<control, table, assigned, pc, at, replay, rewriting, owed, raises, controls>>

Init ==
  /\ control = [enabled |-> FALSE, funcmask |-> FALSE]
  /\ masked = [v \in Vectors |-> TRUE]
  /\ pba = [v \in Vectors |-> FALSE]
  /\ addr = [v \in Vectors |-> 0] /\ data = [v \in Vectors |-> 0]
  /\ assigned = FALSE
  /\ pc = [t \in Threads |-> "idle"]
  /\ at = [t \in Threads |-> NoVector]
  /\ replay = {} /\ rewriting = {} /\ owed = {}
  /\ raises = 0 /\ controls = 0

-----------------------------------------------------------------------------
(* A device thread: raise_queue_interrupt and trigger                      *)

\* Faulty: a thread that is done keeps its vector.
IdleKeeps(t) == pc' = [pc EXCEPT ![t] = "idle"] /\ UNCHANGED at

\* trigger returns.
Idle(t) == /\ pc' = [pc EXCEPT ![t] = "idle"]
           /\ at' = [at EXCEPT ![t] = NoVector]

\* raise_queue_interrupt looks the queue's vector up under the common lock; a
\* queue with none raises nothing.
Raise(t) ==
  /\ pc[t] = "idle" /\ raises < MaxRaises
  /\ raises' = raises + 1
  /\ IF assigned
     THEN \E v \in Vectors:
            /\ pc' = [pc EXCEPT ![t] = "enabled"]
            /\ at' = [at EXCEPT ![t] = v]
            /\ owed' = owed \cup {v}
     ELSE UNCHANGED <<pc, at, owed>>
  /\ UNCHANGED <<control, table, assigned, replay, rewriting, controls>>

\* trigger loads Message Control once for the enable bit and once for the mask.
CheckEnabled(t) ==
  /\ pc[t] = "enabled"
  /\ pc' = [pc EXCEPT ![t] = IF control.enabled THEN "funcmask" ELSE "latch"]
  /\ UNCHANGED <<control, table, assigned, at, replay, rewriting, owed, raises, controls>>

CheckFuncMask(t) ==
  /\ pc[t] = "funcmask"
  /\ pc' = [pc EXCEPT ![t] = IF control.funcmask THEN "latch" ELSE "entry"]
  /\ UNCHANGED <<control, table, assigned, at, replay, rewriting, owed, raises, controls>>

Latch(t) ==
  /\ pc[t] = "latch"
  /\ pba' = [pba EXCEPT ![at[t]] = TRUE]
  /\ Idle(t)
  /\ UNCHANGED <<control, masked, addr, data, assigned, replay, rewriting, owed, raises, controls>>

\* Faulty: the mask is looked at and the pending bit set under two locks.
CheckEntryTwice(t) ==
  /\ pc[t] = "entry"
  /\ pc' = [pc EXCEPT ![t] = IF masked[at[t]] THEN "latch" ELSE "inject"]
  /\ UNCHANGED <<control, table, assigned, at, replay, rewriting, owed, raises, controls>>

\* Under the tables lock: a masked entry becomes pending.
CheckEntry(t) ==
  /\ pc[t] = "entry"
  /\ IF masked[at[t]]
     THEN /\ pba' = [pba EXCEPT ![at[t]] = TRUE]
          /\ Idle(t)
     ELSE /\ pc' = [pc EXCEPT ![t] = "inject"]
          /\ UNCHANGED <<pba, at>>
  /\ UNCHANGED <<control, masked, addr, data, assigned, replay, rewriting, owed, raises, controls>>

\* do_inject: the message is read and sent.
Inject(t) ==
  /\ pc[t] = "inject"
  /\ owed' = owed \ {at[t]}
  /\ Idle(t)
  /\ UNCHANGED <<control, table, assigned, replay, rewriting, raises, controls>>

-----------------------------------------------------------------------------
(* The guest                                                               *)

\* config_write pushes Message Control to the table helper (set_control); no
\* pending bit is looked at.  Linux enables MSI-X with every vector masked and
\* gives the queues their vectors afterwards.
SetControl(e, f) ==
  /\ control # [enabled |-> e, funcmask |-> f]
  /\ assigned => controls < MaxControls
  /\ control' = [enabled |-> e, funcmask |-> f]
  /\ controls' = IF assigned THEN controls + 1 ELSE controls
  /\ UNCHANGED <<table, assigned, pc, at, replay, rewriting, owed, raises>>

\* queue_msix_vector of every queue, once MSI-X is enabled.
AssignVectors ==
  /\ control.enabled /\ ~control.funcmask /\ ~assigned
  /\ assigned' = TRUE
  /\ UNCHANGED <<control, table, pc, at, replay, rewriting, owed, raises, controls>>

\* A write of the entry's control dword: handle_table, field 12.
WriteMasked(v) ==
  /\ ~masked[v] /\ v \notin replay
  /\ masked' = [masked EXCEPT ![v] = TRUE]
  /\ UNCHANGED <<control, pba, addr, data, assigned, pc, at, replay, rewriting, owed, raises, controls>>

\* Writes of the message, fields 0 and 4, then 8, while the entry is masked.
WriteAddr(v) ==
  /\ masked[v] /\ v \notin rewriting /\ addr[v] < MaxWrites
  /\ addr' = [addr EXCEPT ![v] = @ + 1]
  /\ rewriting' = rewriting \cup {v}
  /\ UNCHANGED <<control, masked, pba, data, assigned, pc, at, replay, owed, raises, controls>>

WriteData(v) ==
  /\ v \in rewriting
  /\ data' = [data EXCEPT ![v] = @ + 1]
  /\ rewriting' = rewriting \ {v}
  /\ UNCHANGED <<control, masked, pba, addr, assigned, pc, at, replay, owed, raises, controls>>

\* Faulty: the pending bit is cleared even where Message Control forbids the replay.
WriteUnmaskedClears(v) ==
  /\ masked[v] /\ v \notin rewriting
  /\ masked' = [masked EXCEPT ![v] = FALSE]
  /\ pba' = [pba EXCEPT ![v] = FALSE]
  /\ replay' = IF pba[v] /\ control.enabled /\ ~control.funcmask
               THEN replay \cup {v} ELSE replay
  /\ UNCHANGED <<control, addr, data, assigned, pc, at, rewriting, owed, raises, controls>>

\* The unmask of a pending vector clears its pending bit under the tables lock
\* and replays it afterwards, unless the function is masked or MSI-X is off.
WriteUnmasked(v) ==
  /\ masked[v] /\ v \notin rewriting
  /\ masked' = [masked EXCEPT ![v] = FALSE]
  /\ IF pba[v] /\ control.enabled /\ ~control.funcmask
     THEN /\ pba' = [pba EXCEPT ![v] = FALSE]
          /\ replay' = replay \cup {v}
     ELSE UNCHANGED <<pba, replay>>
  /\ UNCHANGED <<control, addr, data, assigned, pc, at, rewriting, owed, raises, controls>>

Replay(v) ==
  /\ v \in replay
  /\ replay' = replay \ {v}
  /\ owed' = owed \ {v}
  /\ UNCHANGED <<control, table, assigned, pc, at, rewriting, raises, controls>>

-----------------------------------------------------------------------------
Device(t) == \/ Raise(t) \/ CheckEnabled(t) \/ CheckFuncMask(t)
             \/ Latch(t) \/ CheckEntry(t) \/ Inject(t)
Guest(v) == WriteMasked(v) \/ WriteAddr(v) \/ WriteData(v) \/ WriteUnmasked(v) \/ Replay(v)

Next == \/ \E t \in Threads: Device(t)
        \/ \E e, f \in BOOLEAN: SetControl(e, f)
        \/ AssignVectors
        \/ \E v \in Vectors: Guest(v)

Spec == Init /\ [][Next]_vars

-----------------------------------------------------------------------------
(* Properties                                                              *)

TypeOK ==
  /\ control \in [enabled: BOOLEAN, funcmask: BOOLEAN]
  /\ masked \in [Vectors -> BOOLEAN] /\ pba \in [Vectors -> BOOLEAN]
  /\ addr \in [Vectors -> Nat] /\ data \in [Vectors -> Nat]
  /\ assigned \in BOOLEAN
  /\ pc \in [Threads -> {"idle", "enabled", "funcmask", "latch", "entry", "inject"}]
  /\ at \in [Threads -> Vectors \cup {NoVector}]
  /\ \A t \in Threads: pc[t] = "idle" <=> at[t] = NoVector
  /\ replay \subseteq Vectors /\ rewriting \subseteq Vectors /\ owed \subseteq Vectors
  /\ raises \in 0..MaxRaises /\ controls \in 0..MaxControls

\* Someone is still on the way to deliver or latch vector v.
OnTheWay(v) == v \in replay \/ \E t \in Threads: at[t] = v

\* An interrupt a device asked for is never forgotten: until it is injected it
\* is pending in the PBA or a thread still carries it.
NeverForgotten == \A v \in owed: pba[v] \/ OnTheWay(v)

Deliverable(v) == control.enabled /\ ~control.funcmask /\ ~masked[v]

\* "Unmasking a pending vector replays it" (INTERNALS.md): once nobody is busy
\* with a vector, it is not both pending and deliverable, or the guest would
\* wait for an interrupt that only an unrelated mask and unmask can free.  It
\* holds as long as Message Control is left alone once the queues have vectors,
\* as Linux does: set_control looks at no pending bit.
PendingIsReplayed ==
  controls = 0 => \A v \in Vectors: pba[v] /\ Deliverable(v) => OnTheWay(v)

\* A masked vector is latched, not sent (trigger's contract in msix.rs): the
\* message a thread sends is one the guest has written whole.
NoTornMessage ==
  \A v \in Vectors:
    (v \in replay \/ \E t \in Threads: at[t] = v /\ pc[t] = "inject") => addr[v] = data[v]

-----------------------------------------------------------------------------
(* Proofs, for any vectors, any device threads and any bounds: no interrupt  *)
(* is forgotten whatever the guest does, and a driver that settles Message   *)
(* Control before it gives the queues their vectors never leaves a pending   *)
(* vector deliverable.                                                       *)

\* Every variable keeps its type, and a thread has a vector exactly while it is
\* inside trigger.
THEOREM TypeCorrect == Spec => []TypeOK
<1>1. Init => TypeOK
  <2> SUFFICES ASSUME Init PROVE TypeOK
    OBVIOUS
  <2>1. control \in [enabled: BOOLEAN, funcmask: BOOLEAN]
    BY Zenon DEF Init
  <2>2. masked \in [Vectors -> BOOLEAN] /\ pba \in [Vectors -> BOOLEAN] /\ assigned \in BOOLEAN
    BY Zenon DEF Init
  <2> QED BY <2>1, <2>2, MsixAssumption, NoVectorAssumption DEF Init, TypeOK
<1>2. TypeOK /\ [Next]_vars => TypeOK'
  <2> SUFFICES ASSUME TypeOK, [Next]_vars PROVE TypeOK'
    OBVIOUS
  <2> USE MsixAssumption, NoVectorAssumption
  <2>1. ASSUME NEW t \in Threads, Device(t) PROVE TypeOK'
    <3>1. CASE Raise(t)
      BY <3>1 DEF Raise, TypeOK, table
    <3>2. CASE CheckEnabled(t)
      BY <3>2 DEF CheckEnabled, TypeOK, table
    <3>3. CASE CheckFuncMask(t)
      BY <3>3 DEF CheckFuncMask, TypeOK, table
    <3>4. CASE Latch(t)
      BY <3>4 DEF Latch, Idle, TypeOK
    <3>5. CASE CheckEntry(t)
      BY ZenonT(60), <3>5 DEF CheckEntry, Idle, TypeOK
    <3>6. CASE Inject(t)
      BY <3>6 DEF Inject, Idle, TypeOK, table
    <3> QED BY <2>1, <3>1, <3>2, <3>3, <3>4, <3>5, <3>6 DEF Device
  <2>2. ASSUME NEW e \in BOOLEAN, NEW f \in BOOLEAN, SetControl(e, f) PROVE TypeOK'
    <3>1. control' \in [enabled: BOOLEAN, funcmask: BOOLEAN]
      BY <2>2, Zenon DEF SetControl
    <3> QED BY <2>2, <3>1 DEF SetControl, TypeOK, table
  <2>3. CASE AssignVectors
    BY <2>3 DEF AssignVectors, TypeOK, table
  <2>4. ASSUME NEW v \in Vectors, Guest(v) PROVE TypeOK'
    <3>1. CASE WriteMasked(v)
      BY <3>1 DEF WriteMasked, TypeOK
    <3>2. CASE WriteAddr(v)
      BY <3>2 DEF WriteAddr, TypeOK
    <3>3. CASE WriteData(v)
      BY <3>3 DEF WriteData, TypeOK
    <3>4. CASE WriteUnmasked(v)
      BY ZenonT(60), <3>4 DEF WriteUnmasked, TypeOK
    <3>5. CASE Replay(v)
      BY <3>5 DEF Replay, TypeOK, table
    <3> QED BY <2>4, <3>1, <3>2, <3>3, <3>4, <3>5 DEF Guest
  <2>5. CASE UNCHANGED vars
    BY <2>5 DEF vars, table, TypeOK
  <2> QED BY <2>1, <2>2, <2>3, <2>4, <2>5 DEF Next
<1> QED BY <1>1, <1>2, PTL DEF Spec

\* An interrupt a device raised stays in the PBA or in some thread's hands until
\* it is injected, whatever the guest does to the table and to Message Control.
THEOREM InterruptsAreNeverForgotten == Spec => []NeverForgotten
<1>1. Init => NeverForgotten
  BY DEF Init, NeverForgotten
<1>2. TypeOK /\ NeverForgotten /\ [Next]_vars => NeverForgotten'
  <2> SUFFICES ASSUME TypeOK, NeverForgotten, [Next]_vars PROVE NeverForgotten'
    OBVIOUS
  <2> USE NoVectorAssumption DEF NeverForgotten, OnTheWay
  <2>1. ASSUME NEW t \in Threads, Device(t) PROVE NeverForgotten'
    <3>1. CASE Raise(t)
      BY <3>1 DEF Raise, TypeOK, table
    <3>2. CASE CheckEnabled(t)
      BY <3>2 DEF CheckEnabled, TypeOK, table
    <3>3. CASE CheckFuncMask(t)
      BY <3>3 DEF CheckFuncMask, TypeOK, table
    <3>4. CASE Latch(t)
      BY <3>4 DEF Latch, Idle, TypeOK
    <3>5. CASE CheckEntry(t)
      BY <3>5 DEF CheckEntry, Idle, TypeOK
    <3>6. CASE Inject(t)
      BY <3>6 DEF Inject, Idle, TypeOK, table
    <3> QED BY <2>1, <3>1, <3>2, <3>3, <3>4, <3>5, <3>6 DEF Device
  <2>2. ASSUME NEW e \in BOOLEAN, NEW f \in BOOLEAN, SetControl(e, f) PROVE NeverForgotten'
    BY <2>2 DEF SetControl, table
  <2>3. CASE AssignVectors
    BY <2>3 DEF AssignVectors, table
  <2>4. ASSUME NEW v \in Vectors, Guest(v) PROVE NeverForgotten'
    <3>1. CASE WriteMasked(v) \/ WriteAddr(v) \/ WriteData(v)
      BY <3>1 DEF WriteMasked, WriteAddr, WriteData
    <3>2. CASE WriteUnmasked(v)
      BY <3>2 DEF WriteUnmasked, TypeOK
    <3>3. CASE Replay(v)
      BY <3>3 DEF Replay, table
    <3> QED BY <2>4, <3>1, <3>2, <3>3 DEF Guest
  <2>5. CASE UNCHANGED vars
    BY <2>5 DEF vars, table
  <2> QED BY <2>1, <2>2, <2>3, <2>4, <2>5 DEF Next
<1> QED BY <1>1, <1>2, TypeCorrect, PTL DEF Spec

-----------------------------------------------------------------------------
\* While Message Control stays as it was when the vectors were assigned,
\* trigger always decides under the tables lock, and only a masked entry
\* becomes pending.
SettledInv ==
  controls = 0 =>
    /\ assigned => control.enabled /\ ~control.funcmask
    /\ \A t \in Threads: pc[t] # "latch" /\ (pc[t] # "idle" => assigned)
    /\ \A v \in Vectors: pba[v] => assigned /\ masked[v]

\* The inductive step of the next theorem.
LEMMA SettledStep ==
  ASSUME TypeOK, SettledInv, [Next]_vars
  PROVE  SettledInv'
<1> USE MsixAssumption, NoVectorAssumption DEF SettledInv
<1>1. ASSUME NEW t \in Threads, Device(t) PROVE SettledInv'
  <2>1. CASE Raise(t)
    BY <2>1 DEF Raise, TypeOK, table
  <2>2. CASE CheckEnabled(t)
    BY <2>2 DEF CheckEnabled, TypeOK, table
  <2>3. CASE CheckFuncMask(t)
    BY <2>3 DEF CheckFuncMask, TypeOK, table
  <2>4. CASE Latch(t)
    BY <2>4 DEF Latch
  <2>5. CASE CheckEntry(t)
    BY <2>5 DEF CheckEntry, Idle, TypeOK
  <2>6. CASE Inject(t)
    BY <2>6 DEF Inject, Idle, TypeOK, table
  <2> QED BY <1>1, <2>1, <2>2, <2>3, <2>4, <2>5, <2>6 DEF Device
<1>2. ASSUME NEW e \in BOOLEAN, NEW f \in BOOLEAN, SetControl(e, f) PROVE SettledInv'
  <2>1. CASE assigned
    BY <1>2, <2>1 DEF SetControl, TypeOK
  <2>2. CASE ~assigned
    BY <1>2, <2>2 DEF SetControl, table
  <2> QED BY <2>1, <2>2
<1>3. CASE AssignVectors
  BY <1>3 DEF AssignVectors, table
<1>4. ASSUME NEW v \in Vectors, Guest(v) PROVE SettledInv'
  <2>1. CASE WriteMasked(v) \/ WriteAddr(v) \/ WriteData(v) \/ Replay(v)
    BY <2>1 DEF WriteMasked, WriteAddr, WriteData, Replay, TypeOK, table
  <2>2. CASE WriteUnmasked(v)
    BY <2>2 DEF WriteUnmasked, TypeOK
  <2> QED BY <1>4, <2>1, <2>2 DEF Guest
<1>5. CASE UNCHANGED vars
  BY <1>5 DEF vars, table
<1> QED BY <1>1, <1>2, <1>3, <1>4, <1>5 DEF Next

\* A driver that settles Message Control first, as Linux does, is never left
\* with a vector that is pending though it could be delivered.
THEOREM SettledControlReplays == Spec => []PendingIsReplayed
<1>1. Init => SettledInv
  BY DEF Init, SettledInv
<1>2. TypeOK /\ SettledInv /\ [Next]_vars => SettledInv'
  BY SettledStep
<1>3. SettledInv => PendingIsReplayed
  BY DEF SettledInv, PendingIsReplayed, Deliverable
<1> QED BY <1>1, <1>2, <1>3, TypeCorrect, PTL DEF Spec
=============================================================================
