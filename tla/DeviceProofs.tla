----------------------------- MODULE DeviceProofs ----------------------------
(***************************************************************************)
(* Proofs about the devices: the 9p server's queue, the PCI transport, the *)
(* console, the sound device and the legacy interrupt controllers.         *)
(* The components share no state here: each section is about one instance, *)
(* for every value of its constants, and the constants and variables that  *)
(* two of them have by the same name are declared once.                    *)
(***************************************************************************)
EXTENDS Integers, FiniteSets, Sequences, FiniteSetTheorems, FunctionTheorems, SequenceTheorems,
        WellFoundedInduction, TLAPS

CONSTANTS Slots, Workers, MaxPosts, MaxIndex, MaxResets, Patient,  \* P9Device
          MaxRequests,                                             \* VirtioTransport
          Size, Room, MaxTyped, MaxPrints,                         \* ConsoleDevice
          Streams, PeriodFrames, MaxTick, MaxCatchup, MaxPeriods, MaxControls, \* SndDevice
          Lines, Com1, MaxWrites                                   \* LegacyIrq

VARIABLES avail, used, reaped, irq, drv, epoch, ready, last_avail, last_used, event, chain,
          free, slot, port, pc, at, exhausted, vm,
          common, qlock, status, reset_from, size, enable, live, stale, acc, bar, doorbell,
          stop_event, pump, worker,
          typed, forwarded, escape, stopping, pending, taken, availEvent, filled, armed, read,
          drvOk, kick, lock, any, prints, shown, txDone,
          running, wake, stopEvt, posted, done, left, lost, signal, pace, now, consumed, ctrl,
          controls, believed, released,
          irr, mask, step, ier, tx, kicked, window, bsp, ap, canTake, served, acked, restarted,
          writes

P9 == INSTANCE P9Device
Pci == INSTANCE VirtioTransport
Con == INSTANCE ConsoleDevice
Snd == INSTANCE SndDevice
Pic == INSTANCE LegacyIrq

\* The instance's own copies of the finite sets' operators are these.
LEMMA FinitenessIsShared ==
  ASSUME NEW S
  PROVE  (P9!IsFiniteSet(S) <=> IsFiniteSet(S)) /\ P9!Cardinality(S) = Cardinality(S)
  BY DEF IsFiniteSet, Cardinality, P9!IsFiniteSet, P9!Cardinality

-----------------------------------------------------------------------------
(* P9Device: a request taken off the ring is in one place, with the pump, in *)
(* a slot of the port, in a slot a thread runs, or on the used ring.  The    *)
(* slots that hold one (Held) are counted by the queue's two positions, and  *)
(* hold different requests; the pool keeps each of them with one owner.      *)

\* The slots whose request is not answered.
Running == {at[t] : t \in {u \in P9!Runners : pc[u] = "run"}}
Held == P9!Posted \cup Running

\* The two sequences are sequences, and a slot is in the port once.
SeqInv ==
  /\ used \in Seq(P9!Requests) /\ port \in Seq(Slots)
  /\ \A i, j \in 1..Len(port) : i # j => port[i] # port[j]

\* A thread has a slot exactly while it works on one, and no slot has two owners
\* or none.
OwnInv ==
  /\ \A t \in P9!Runners : at[t] # P9!NoSlot <=> pc[t] \in {"run", "release"}
  /\ \A t, u \in P9!Runners : t # u /\ at[t] # P9!NoSlot => at[t] # at[u]
  /\ \A t \in P9!Runners : at[t] \notin free /\ at[t] \notin P9!Posted
  /\ free \cap P9!Posted = {}
  /\ \A s \in Slots : s \in free \cup P9!Posted \/ \E t \in P9!Runners : at[t] = s

\* Requests taken off the ring and not answered.
P9CountInv ==
  last_avail = last_used + Cardinality(Held) + (IF pc[P9!Pump] = "acquire" THEN 1 ELSE 0)

\* Until the first reset: each request is in one place, and the ring has them all.
AnswerInv ==
  epoch = 0 =>
    /\ drv = "ok" /\ last_avail <= avail /\ Len(used) = last_used
    /\ \A s, r \in Held : s # r => slot[s] # slot[r]
    /\ pc[P9!Pump] = "acquire" => \A s \in Held : slot[s] # chain
    /\ \A i, j \in 1..Len(used) : i # j => used[i] # used[j]
    /\ P9!Unanswered \cap P9!Answered = {}
    /\ P9!Unanswered \cup P9!Answered = {<<0, n>> : n \in 1..last_avail}

\* Teardown: the queue is ready until the pump has been joined, and RAM goes only
\* with every slot free.
TearInv ==
  /\ pc[P9!Pump] # "ended" => ready
  /\ vm \in {"stopped", "released", "kept"} => pc[P9!Pump] = "ended" /\ ~ready
  /\ vm = "released" => free = Slots

\* Until the first reset or exhaustion: a pump that polls or sleeps was kicked for
\* what is on the ring, and a reply is raised or about to be.
StrandInv ==
  epoch = 0 /\ ~exhausted =>
    /\ pc[P9!Pump] \in {"poll", "idle"} /\ ~event => last_avail = avail
    /\ pc[P9!Pump] # "giveup"
    /\ reaped < Len(used) => irq \/ \E t \in P9!Runners : pc[t] \in {"release", "raise"}

P9Inv == P9!TypeOK /\ SeqInv /\ OwnInv /\ P9CountInv /\ AnswerInv /\ TearInv /\ StrandInv

-----------------------------------------------------------------------------
(* The port and the used ring as sequences.                                *)

\* A post adds a slot to the port.
LEMMA PortAppend ==
  ASSUME SeqInv, NEW s \in Slots, s \notin P9!Posted, port' = Append(port, s)
  PROVE  /\ port' \in Seq(Slots) /\ P9!Posted' = P9!Posted \cup {s}
         /\ \A i, j \in 1..Len(port') : i # j => port'[i] # port'[j]
<1>1. /\ port' \in Seq(Slots) /\ Len(port') = Len(port) + 1 /\ Len(port) \in Nat
      /\ \A i \in 1..Len(port) : port'[i] = port[i]
      /\ port'[Len(port) + 1] = s
  BY AppendProperties DEF SeqInv
<1>2. \A i \in 1..Len(port') : i \in 1..Len(port) \/ i = Len(port) + 1
  BY <1>1
<1>3. P9!Posted' = P9!Posted \cup {s}
  <2>1. ASSUME NEW x \in P9!Posted' PROVE x \in P9!Posted \cup {s}
    BY <1>1, <1>2, <2>1 DEF P9!Posted
  <2>2. ASSUME NEW x \in P9!Posted PROVE x \in P9!Posted'
    <3>1. PICK i \in 1..Len(port) : x = port[i]
      BY <2>2 DEF P9!Posted
    <3>2. i \in 1..Len(port') /\ port'[i] = x
      BY <1>1, <3>1
    <3> QED
      BY <3>2 DEF P9!Posted
  <2>3. s \in P9!Posted'
    <3>1. Len(port) + 1 \in 1..Len(port')
      BY <1>1
    <3> QED
      BY <1>1, <3>1 DEF P9!Posted
  <2> QED
    BY <2>1, <2>2, <2>3
<1>4. \A i, j \in 1..Len(port') : i # j => port'[i] # port'[j]
  <2>1. \A i \in 1..Len(port) : port[i] # s
    BY DEF P9!Posted
  <2> QED
    BY <1>1, <1>2, <2>1 DEF SeqInv
<1> QED
  BY <1>1, <1>3, <1>4

\* A worker takes the slot at the head of the port.
LEMMA PortTail ==
  ASSUME SeqInv, port # <<>>, port' = Tail(port)
  PROVE  /\ port' \in Seq(Slots) /\ Head(port) \in P9!Posted /\ Head(port) \in Slots
         /\ P9!Posted' = P9!Posted \ {Head(port)}
         /\ \A i, j \in 1..Len(port') : i # j => port'[i] # port'[j]
<1>1. /\ port' \in Seq(Slots) /\ Len(port') = Len(port) - 1 /\ Len(port) \in Nat \ {0}
      /\ \A i \in 1..Len(port') : port'[i] = port[i + 1] /\ i + 1 \in 2..Len(port)
      /\ Head(port) = port[1] /\ 1 \in 1..Len(port) /\ Head(port) \in Slots
  BY HeadTailProperties, LenProperties DEF SeqInv
<1>2. Head(port) \in P9!Posted
  BY <1>1 DEF P9!Posted
<1>3. P9!Posted' = P9!Posted \ {Head(port)}
  <2>1. ASSUME NEW x \in P9!Posted' PROVE x \in P9!Posted \ {Head(port)}
    <3>1. PICK i \in 1..Len(port') : x = port'[i]
      BY <2>1 DEF P9!Posted
    <3>2. i + 1 \in 1..Len(port) /\ i + 1 # 1 /\ x = port[i + 1]
      BY <1>1, <3>1
    <3> QED
      BY <1>1, <3>2 DEF P9!Posted, SeqInv
  <2>2. ASSUME NEW x \in P9!Posted, x # Head(port) PROVE x \in P9!Posted'
    <3>1. PICK i \in 1..Len(port) : x = port[i]
      BY DEF P9!Posted
    <3>2. i - 1 \in 1..Len(port') /\ (i - 1) + 1 = i
      BY <1>1, <2>2, <3>1
    <3>3. port'[i - 1] = x
      BY <1>1, <3>1, <3>2
    <3> QED
      BY <3>2, <3>3 DEF P9!Posted
  <2> QED
    BY <2>1, <2>2
<1>4. \A i, j \in 1..Len(port') : i # j => port'[i] # port'[j]
  <2> SUFFICES ASSUME NEW i \in 1..Len(port'), NEW j \in 1..Len(port'), i # j
               PROVE  port'[i] # port'[j]
    OBVIOUS
  <2>1. i + 1 \in 1..Len(port) /\ j + 1 \in 1..Len(port) /\ i + 1 # j + 1
    BY <1>1
  <2> QED
    BY <1>1, <2>1 DEF SeqInv
<1> QED
  BY <1>1, <1>2, <1>3, <1>4

\* A reply goes to the device's next position of the used ring; until the first
\* reset that is the end of it.
LEMMA PushEffect ==
  ASSUME P9!P9Assumption, P9!TypeOK, SeqInv, NEW r \in P9!Requests, P9!PushUsed(r)
  PROVE  /\ used' \in Seq(P9!Requests) /\ Len(used') = last_used + 1
         /\ last_used' = last_used + 1
         /\ used'[last_used + 1] = r
         /\ Len(used) = last_used => \A i \in 1..last_used : used'[i] = used[i]
<1>1. last_used \in Nat /\ P9!Garbage(epoch) \in P9!Requests /\ Len(used) \in Nat
  BY DEF P9!TypeOK, P9!Garbage, P9!Requests, P9!P9Assumption
<1>2. \A i \in 1..Len(used) : used[i] \in P9!Requests
  BY DEF P9!TypeOK
<1>3. used' = [i \in 1..(last_used + 1) |->
                 IF i = last_used + 1 THEN r
                 ELSE IF i <= Len(used) THEN used[i] ELSE P9!Garbage(epoch)]
  BY DEF P9!PushUsed
<1>4. \A i \in 1..(last_used + 1) : used'[i] \in P9!Requests
  BY <1>1, <1>2, <1>3
<1>5. used' \in Seq(P9!Requests) /\ Len(used') = last_used + 1
  <2>1. used' \in [1..(last_used + 1) -> P9!Requests]
    BY <1>3, <1>4
  <2>2. last_used + 1 \in Nat
    BY <1>1
  <2>3. used' \in Seq(P9!Requests)
    BY <2>1, <2>2, IsASeq
  <2>4. DOMAIN used' = 1..(last_used + 1)
    BY <1>3
  <2> QED
    BY <2>2, <2>3, <2>4, LenProperties
<1>6. used'[last_used + 1] = r
  <2>1. last_used + 1 \in 1..(last_used + 1)
    BY <1>1
  <2> QED
    BY <1>3, <2>1
<1>7. Len(used) = last_used => \A i \in 1..last_used : used'[i] = used[i]
  <2> SUFFICES ASSUME Len(used) = last_used, NEW i \in 1..last_used PROVE used'[i] = used[i]
    OBVIOUS
  <2>1. i \in 1..(last_used + 1) /\ i # last_used + 1 /\ i <= Len(used)
    BY <1>1
  <2> QED
    BY <1>3, <2>1
<1> QED
  BY <1>5, <1>6, <1>7 DEF P9!PushUsed

-----------------------------------------------------------------------------
(* The slots that hold a request, and the requests they hold.              *)

\* The pump is a thread of its own, and a slot is not the absence of one.
LEMMA Threads ==
  ASSUME P9!P9Assumption
  PROVE  /\ P9!Pump \in P9!Runners /\ P9!Pump \notin Workers /\ Workers \subseteq P9!Runners
         /\ P9!NoSlot \notin Slots
  BY DEF P9!P9Assumption, P9!Runners, P9!Pump, P9!NoSlot

LEMMA NoRequestType ==
  ASSUME P9!P9Assumption
  PROVE  P9!NoRequest \in P9!Requests
  BY DEF P9!P9Assumption, P9!NoRequest, P9!Requests

\* The requests that are not answered are the ones the held slots hold, and the
\* pump's.
LEMMA UnansweredIsHeld ==
  /\ P9!Unanswered = (IF pc[P9!Pump] = "acquire" THEN {chain} ELSE {}) \cup {slot[s] : s \in Held}
  /\ P9!Unanswered' = (IF pc'[P9!Pump] = "acquire" THEN {chain'} ELSE {}) \cup {slot'[s] : s \in Held'}
  BY DEF P9!Unanswered, Held, Running

\* Held slots are in the pool, are not free, and are finitely many.
LEMMA HeldCount ==
  ASSUME P9!P9Assumption, P9!TypeOK, SeqInv, OwnInv
  PROVE  /\ Held \subseteq Slots /\ Held \cap free = {}
         /\ IsFiniteSet(Held) /\ Cardinality(Held) \in Nat
         /\ Held # {} => Cardinality(Held) >= 1
<1>1. P9!Posted \subseteq Slots
  BY DEF P9!TypeOK, P9!Posted
<1>2. \A t \in P9!Runners : pc[t] = "run" => at[t] \in Slots /\ at[t] \notin free
  BY DEF P9!TypeOK, OwnInv
<1>3. Held \subseteq Slots /\ Held \cap free = {}
  BY <1>1, <1>2 DEF Held, Running, OwnInv
<1>4. IsFiniteSet(Held)
  BY <1>3, FS_Subset, FinitenessIsShared DEF P9!P9Assumption
<1>5. Cardinality(Held) \in Nat /\ (Cardinality(Held) = 0 <=> Held = {})
  BY <1>4, FS_CardinalityType, FS_EmptySet
<1> QED
  BY <1>3, <1>4, <1>5

\* A step that moves no thread into or out of a handler leaves them alone.
LEMMA HeldSame ==
  ASSUME UNCHANGED port,
         \A t \in P9!Runners : /\ pc'[t] = "run" <=> pc[t] = "run"
                               /\ pc[t] = "run" => at'[t] = at[t]
  PROVE  P9!Posted' = P9!Posted /\ Running' = Running /\ Held' = Held
<1>1. P9!Posted' = P9!Posted
  BY DEF P9!Posted
<1>2. Running' = Running
  BY DEF Running
<1> QED
  BY <1>1, <1>2 DEF Held

\* Submit fills a slot that was free.
LEMMA HeldSubmit ==
  ASSUME P9!P9Assumption, P9!TypeOK, SeqInv, OwnInv, NEW s \in Slots, P9!Submit(s)
  PROVE  /\ s \notin Held /\ Held' = Held \cup {s}
         /\ P9!Posted' \in {P9!Posted, P9!Posted \cup {s}}
<1>1. s \in free /\ s \notin P9!Posted /\ s \notin Held
  BY HeldCount DEF P9!Submit, OwnInv
<1>2. CASE P9!Goto(P9!Pump, "run") /\ at' = [at EXCEPT ![P9!Pump] = s] /\ UNCHANGED port
  <2>1. P9!Posted' = P9!Posted
    BY <1>2 DEF P9!Posted
  <2>2. Running' = Running \cup {s}
    BY <1>2, Threads DEF Running, P9!Submit, P9!Goto, OwnInv, P9!TypeOK
  <2> QED
    BY <1>1, <2>1, <2>2 DEF Held
<1>3. CASE P9!Goto(P9!Pump, "drain") /\ port' = Append(port, s) /\ UNCHANGED at
  <2>1. P9!Posted' = P9!Posted \cup {s}
    BY <1>1, <1>3, PortAppend
  <2>2. Running' = Running
    BY <1>3, Threads DEF Running, P9!Submit, P9!Goto, OwnInv, P9!TypeOK
  <2> QED
    BY <1>1, <2>1, <2>2 DEF Held
<1> QED
  BY <1>2, <1>3 DEF P9!Submit

\* Get moves a slot from the port to a worker.
LEMMA HeldGet ==
  ASSUME P9!P9Assumption, P9!TypeOK, SeqInv, OwnInv, NEW w \in Workers, P9!Get(w)
  PROVE  /\ Head(port) \in P9!Posted /\ Head(port) \in Slots
         /\ P9!Posted' = P9!Posted \ {Head(port)} /\ Held' = Held
<1>1. /\ Head(port) \in P9!Posted /\ Head(port) \in Slots
      /\ P9!Posted' = P9!Posted \ {Head(port)}
  BY PortTail DEF P9!Get
<1>2. Running' = Running \cup {Head(port)}
  BY Threads DEF Running, P9!Get, P9!Goto, OwnInv, P9!TypeOK
<1> QED
  BY <1>1, <1>2 DEF Held

\* Push answers the request of the slot its thread runs.
LEMMA HeldPush ==
  ASSUME P9!P9Assumption, P9!TypeOK, SeqInv, OwnInv, NEW t \in P9!Runners, P9!Push(t)
  PROVE  at[t] \in Held /\ P9!Posted' = P9!Posted /\ Held' = Held \ {at[t]}
<1>1. at[t] \in Running /\ at[t] \notin P9!Posted
  BY DEF Running, P9!Push, OwnInv
<1>2. P9!Posted' = P9!Posted
  BY DEF P9!Push, P9!pool, P9!Posted
<1>3. Running' = Running \ {at[t]}
  <2>1. \A u \in P9!Runners : pc'[u] = IF u = t THEN "release" ELSE pc[u]
    BY DEF P9!Push, P9!Goto, P9!TypeOK
  <2>2. \A u \in P9!Runners : u # t /\ pc[u] = "run" => at[u] # at[t]
    BY DEF OwnInv
  <2>3. UNCHANGED at
    BY DEF P9!Push
  <2> QED
    BY <2>1, <2>2, <2>3 DEF Running
<1> QED
  BY <1>1, <1>2, <1>3 DEF Held

\* There is a position of the used ring for what is about to be answered.
LEMMA FreeSlots ==
  ASSUME P9!P9Assumption, P9!TypeOK, SeqInv, OwnInv, P9CountInv,
         Held # {} \/ pc[P9!Pump] = "acquire"
  PROVE  last_used + 1 <= last_avail
<1>1. last_avail \in Nat /\ last_used \in Nat
  BY DEF P9!TypeOK, P9!P9Assumption
<1> QED
  BY <1>1, HeldCount DEF P9CountInv

-----------------------------------------------------------------------------
(* What each step keeps.                                                   *)

\* Every step keeps the state in its types.
LEMMA P9TypeStep ==
  ASSUME P9!P9Assumption, P9!TypeOK, SeqInv, OwnInv, P9CountInv, [P9!Next]_(P9!vars)
  PROVE  P9!TypeOK'
<1> USE Threads DEF P9!TypeOK, P9!guest, P9!queue, P9!pool, P9!Goto, P9!Phase
<1>1. ASSUME P9!Wake PROVE P9!TypeOK'
  BY <1>1 DEF P9!Wake
<1>2. ASSUME P9!Pop PROVE P9!TypeOK'
  <2>1. CASE ready /\ last_avail # avail
    <3>1. last_avail' \in 0..MaxIndex /\ last_used \in 0..last_avail'
      BY <1>2, <2>1 DEF P9!Pop, P9!P9Assumption
    <3>2. chain' \in P9!Requests
      BY <1>2, <2>1 DEF P9!Pop, P9!Garbage, P9!Requests, P9!P9Assumption
    <3> QED
      BY <1>2, <2>1, <3>1, <3>2 DEF P9!Pop
  <2>2. CASE ~(ready /\ last_avail # avail)
    BY <1>2, <2>2 DEF P9!Pop
  <2> QED
    BY <2>1, <2>2
<1>3. ASSUME P9!Poll PROVE P9!TypeOK'
  BY <1>3 DEF P9!Poll
<1>4. ASSUME NEW s \in Slots, P9!Submit(s) PROVE P9!TypeOK'
  <2>1. free' \subseteq Slots /\ slot' \in [Slots -> P9!Requests] /\ chain' \in P9!Requests
    BY <1>4, NoRequestType DEF P9!Submit, P9!Fill
  <2>2. port' \in Seq(Slots)
    BY <1>4, PortAppend DEF P9!Submit, OwnInv, SeqInv
  <2>3. \A i \in 1..Len(port') : port'[i] \in Slots
    BY <2>2, ElementOfSeq
  <2>4. at' \in [P9!Runners -> Slots \cup {P9!NoSlot}] /\ pc' = [pc EXCEPT ![P9!Pump] = pc'[P9!Pump]]
        /\ pc'[P9!Pump] \in {"run", "drain"}
    BY <1>4 DEF P9!Submit
  <2> QED
    BY <1>4, <2>1, <2>3, <2>4 DEF P9!Submit
<1>5. ASSUME P9!Exhausted PROVE P9!TypeOK'
  <2>1. chain \in P9!Requests /\ P9!PushUsed(chain)
    BY <1>5 DEF P9!Exhausted, OwnInv
  <2>2. last_used + 1 <= last_avail
    BY <1>5, FreeSlots, Threads DEF P9!Exhausted
  <2>3. /\ used' \in Seq(P9!Requests) /\ Len(used') = last_used + 1 /\ last_used' = last_used + 1
        /\ \A i \in 1..Len(used') : used'[i] \in P9!Requests
    BY <2>1, PushEffect, ElementOfSeq
  <2>4. last_used' \in 0..last_avail' /\ Len(used') \in 0..MaxIndex
    BY <1>5, <2>2, <2>3 DEF P9!Exhausted, P9!P9Assumption
  <2> QED
    BY <1>5, <2>3, <2>4, NoRequestType DEF P9!Exhausted
<1>6. ASSUME P9!GiveUp PROVE P9!TypeOK'
  BY <1>6 DEF P9!GiveUp
<1>7. ASSUME NEW t \in P9!Runners, P9!Push(t) PROVE P9!TypeOK'
  <2>1. slot[at[t]] \in P9!Requests /\ P9!PushUsed(slot[at[t]])
    BY <1>7 DEF P9!Push, OwnInv
  <2>2. last_used + 1 <= last_avail
    BY <1>7, FreeSlots, Threads, HeldPush DEF P9!Push
  <2>3. /\ used' \in Seq(P9!Requests) /\ Len(used') = last_used + 1 /\ last_used' = last_used + 1
        /\ \A i \in 1..Len(used') : used'[i] \in P9!Requests
    BY <2>1, PushEffect, ElementOfSeq
  <2>4. last_used' \in 0..last_avail' /\ Len(used') \in 0..MaxIndex
    BY <1>7, <2>2, <2>3 DEF P9!Push, P9!P9Assumption
  <2> QED
    BY <1>7, <2>3, <2>4, NoRequestType DEF P9!Push
<1>8. ASSUME NEW t \in P9!Runners, P9!Release(t) PROVE P9!TypeOK'
  <2>1. /\ free' \subseteq Slots /\ slot' \in [Slots -> P9!Requests]
        /\ at' \in [P9!Runners -> Slots \cup {P9!NoSlot}]
    BY <1>8 DEF P9!Release, P9!NoRequest, P9!Requests, P9!P9Assumption, OwnInv
  <2> QED
    BY <1>8, <2>1 DEF P9!Release
<1>9. ASSUME NEW t \in P9!Runners, P9!Raise(t) PROVE P9!TypeOK'
  BY <1>9 DEF P9!Raise
<1>10. ASSUME NEW w \in Workers, P9!Get(w) PROVE P9!TypeOK'
  BY <1>10, PortTail DEF P9!Get
<1>11. ASSUME P9!Post PROVE P9!TypeOK'
  <2>1. avail < MaxPosts /\ avail' = avail + 1 /\ event' = TRUE
    BY <1>11 DEF P9!Post
  <2>2. avail' \in 0..MaxPosts
    BY <2>1 DEF P9!P9Assumption
  <2> QED
    BY <1>11, <2>1, <2>2 DEF P9!Post
<1>12. ASSUME P9!TakeIrq PROVE P9!TypeOK'
  BY <1>12 DEF P9!TakeIrq
<1>13. ASSUME P9!Reset PROVE P9!TypeOK'
  <2>1. /\ avail' \in 0..MaxPosts /\ epoch' \in 0..MaxResets
        /\ reaped' \in 0..MaxIndex /\ Len(used') = 0
    BY <1>13 DEF P9!Reset, P9!P9Assumption
  <2> QED
    BY <1>13, <2>1 DEF P9!Reset
<1>14. ASSUME P9!EnableQueue PROVE P9!TypeOK'
  <2>1. Len(used') = 0 /\ 0 \in 0..MaxIndex
    BY <1>14 DEF P9!EnableQueue, P9!P9Assumption
  <2> QED
    BY <1>14, <2>1 DEF P9!EnableQueue
<1>15. ASSUME P9!StopTransport PROVE P9!TypeOK'
  BY <1>15 DEF P9!StopTransport
<1>16. ASSUME P9!Main /\ P9!Still PROVE P9!TypeOK'
  BY <1>16 DEF P9!Main, P9!Still, P9!Phase, P9!StopTransport,
         P9!JoinVcpus, P9!Quiesce, P9!CaptureVcpus, P9!CaptureDevice, P9!CaptureRam,
         P9!ReleaseRam, P9!KeepRam
<1>17. ASSUME UNCHANGED P9!vars PROVE P9!TypeOK'
  BY <1>17 DEF P9!vars, P9!Posted, Running, Held
<1>18. P9!Main => P9!StopTransport \/ (P9!Main /\ P9!Still)
  BY DEF P9!Main, P9!JoinVcpus, P9!Quiesce, P9!CaptureVcpus, P9!CaptureDevice, P9!CaptureRam,
     P9!ReleaseRam, P9!KeepRam
<1> QED
  BY <1>1, <1>2, <1>3, <1>4, <1>5, <1>6, <1>7, <1>8, <1>9, <1>10, <1>11,
     <1>12, <1>13, <1>14, <1>15, <1>16, <1>17, <1>18
     DEF P9!Next, P9!PumpStep, P9!WorkerStep, P9!CompleteSlot, P9!Guest, P9!Runners

\* Every step keeps the port and the used ring sequences.
LEMMA SeqStep ==
  ASSUME P9!P9Assumption, P9!TypeOK, SeqInv, OwnInv, [P9!Next]_(P9!vars)
  PROVE  SeqInv'
<1> USE DEF SeqInv, P9!guest, P9!queue, P9!pool, P9!Goto, P9!Phase
<1>1. ASSUME P9!Wake PROVE SeqInv'
  BY <1>1 DEF P9!Wake
<1>2. ASSUME P9!Pop PROVE SeqInv'
  BY <1>2 DEF P9!Pop
<1>3. ASSUME P9!Poll PROVE SeqInv'
  BY <1>3 DEF P9!Poll
<1>4. ASSUME NEW s \in Slots, P9!Submit(s) PROVE SeqInv'
  <2>1. s \notin P9!Posted /\ UNCHANGED used
    BY <1>4 DEF P9!Submit, OwnInv
  <2> QED
    BY <1>4, <2>1, PortAppend DEF P9!Submit
<1>5. ASSUME P9!Exhausted PROVE SeqInv'
  <2>1. chain \in P9!Requests /\ P9!PushUsed(chain)
    BY <1>5 DEF P9!Exhausted, P9!TypeOK, OwnInv
  <2>2. used' \in Seq(P9!Requests)
    BY <2>1, PushEffect
  <2> QED
    BY <1>5, <2>2 DEF P9!Exhausted
<1>6. ASSUME P9!GiveUp PROVE SeqInv'
  BY <1>6 DEF P9!GiveUp
<1>7. ASSUME NEW t \in P9!Runners, P9!Push(t) PROVE SeqInv'
  <2>1. slot[at[t]] \in P9!Requests /\ P9!PushUsed(slot[at[t]])
    BY <1>7 DEF P9!Push, P9!TypeOK, OwnInv
  <2>2. used' \in Seq(P9!Requests)
    BY <2>1, PushEffect
  <2> QED
    BY <1>7, <2>2 DEF P9!Push
<1>8. ASSUME NEW t \in P9!Runners, P9!Release(t) PROVE SeqInv'
  BY <1>8 DEF P9!Release
<1>9. ASSUME NEW t \in P9!Runners, P9!Raise(t) PROVE SeqInv'
  BY <1>9 DEF P9!Raise
<1>10. ASSUME NEW w \in Workers, P9!Get(w) PROVE SeqInv'
  BY <1>10, PortTail DEF P9!Get
<1>11. ASSUME P9!Post PROVE SeqInv'
  BY <1>11 DEF P9!Post
<1>12. ASSUME P9!TakeIrq PROVE SeqInv'
  BY <1>12 DEF P9!TakeIrq
<1>13. ASSUME P9!Reset PROVE SeqInv'
  BY <1>13 DEF P9!Reset
<1>14. ASSUME P9!EnableQueue PROVE SeqInv'
  BY <1>14 DEF P9!EnableQueue
<1>15. ASSUME P9!StopTransport PROVE SeqInv'
  BY <1>15 DEF P9!StopTransport
<1>16. ASSUME P9!Main /\ P9!Still PROVE SeqInv'
  BY <1>16 DEF P9!Still
<1>17. ASSUME UNCHANGED P9!vars PROVE SeqInv'
  BY <1>17 DEF P9!vars, P9!Posted, Running, Held
<1>18. P9!Main => P9!StopTransport \/ (P9!Main /\ P9!Still)
  BY DEF P9!Main, P9!JoinVcpus, P9!Quiesce, P9!CaptureVcpus, P9!CaptureDevice, P9!CaptureRam,
     P9!ReleaseRam, P9!KeepRam
<1> QED
  BY <1>1, <1>2, <1>3, <1>4, <1>5, <1>6, <1>7, <1>8, <1>9, <1>10, <1>11,
     <1>12, <1>13, <1>14, <1>15, <1>16, <1>17, <1>18
     DEF P9!Next, P9!PumpStep, P9!WorkerStep, P9!CompleteSlot, P9!Guest, P9!Runners

\* Every step keeps each slot with one owner.
LEMMA OwnStep ==
  ASSUME P9!P9Assumption, P9!TypeOK, SeqInv, OwnInv, [P9!Next]_(P9!vars)
  PROVE  OwnInv'
<1> USE Threads DEF P9!TypeOK, OwnInv, P9!guest, P9!queue, P9!pool, P9!Goto, P9!Phase
<1>1. ASSUME P9!Wake PROVE OwnInv'
  BY <1>1 DEF P9!Wake, P9!Posted
<1>2. ASSUME P9!Pop PROVE OwnInv'
  BY <1>2 DEF P9!Pop, P9!Posted
<1>3. ASSUME P9!Poll PROVE OwnInv'
  BY <1>3 DEF P9!Poll, P9!Posted
<1>4. ASSUME NEW s \in Slots, P9!Submit(s) PROVE OwnInv'
  <2>1. /\ s \in free /\ free' = free \ {s} /\ s \notin P9!Posted /\ s # P9!NoSlot
        /\ \A t \in P9!Runners : at[t] # s
    BY <1>4 DEF P9!Submit, P9!Fill
  <2>2. CASE P9!Goto(P9!Pump, "run") /\ at' = [at EXCEPT ![P9!Pump] = s] /\ UNCHANGED port
    <3>1. P9!Posted' = P9!Posted
      BY <2>2 DEF P9!Posted
    <3>2. \A t \in P9!Runners : at'[t] = IF t = P9!Pump THEN s ELSE at[t]
      BY <2>2
    <3>3. \A t \in P9!Runners : pc'[t] = IF t = P9!Pump THEN "run" ELSE pc[t]
      BY <2>2
    <3>4. at[P9!Pump] = P9!NoSlot
      BY <1>4 DEF P9!Submit
    <3> QED
      BY <2>1, <3>1, <3>2, <3>3, <3>4
  <2>3. CASE P9!Goto(P9!Pump, "drain") /\ port' = Append(port, s) /\ UNCHANGED at
    <3>1. P9!Posted' = P9!Posted \cup {s}
      BY <2>1, <2>3, PortAppend
    <3>2. \A t \in P9!Runners : pc'[t] = IF t = P9!Pump THEN "drain" ELSE pc[t]
      BY <2>3
    <3>3. at[P9!Pump] = P9!NoSlot
      BY <1>4 DEF P9!Submit
    <3> QED
      BY <2>1, <2>3, <3>1, <3>2, <3>3
  <2> QED
    BY <1>4, <2>2, <2>3 DEF P9!Submit
<1>5. ASSUME P9!Exhausted PROVE OwnInv'
  BY <1>5 DEF P9!Exhausted, P9!Posted
<1>6. ASSUME P9!GiveUp PROVE OwnInv'
  BY <1>6 DEF P9!GiveUp, P9!Posted
<1>7. ASSUME NEW t \in P9!Runners, P9!Push(t) PROVE OwnInv'
  BY <1>7 DEF P9!Push, P9!Posted
<1>8. ASSUME NEW t \in P9!Runners, P9!Release(t) PROVE OwnInv'
  <2>1. P9!Posted' = P9!Posted
    BY <1>8 DEF P9!Release, P9!Posted
  <2>2. /\ at[t] \in Slots /\ free' = free \cup {at[t]}
        /\ \A u \in P9!Runners : u # t => at[u] # at[t]
    BY <1>8 DEF P9!Release
  <2>3. \A u \in P9!Runners : at'[u] = IF u = t THEN P9!NoSlot ELSE at[u]
    BY <1>8 DEF P9!Release
  <2>4. \A u \in P9!Runners : pc'[u] = IF u = t THEN "raise" ELSE pc[u]
    BY <1>8 DEF P9!Release
  <2>5. P9!NoSlot \notin free' /\ P9!NoSlot \notin P9!Posted
    BY <2>2 DEF P9!Posted
  <2> QED
    BY <2>1, <2>2, <2>3, <2>4, <2>5
<1>9. ASSUME NEW t \in P9!Runners, P9!Raise(t) PROVE OwnInv'
  BY <1>9 DEF P9!Raise, P9!Posted
<1>10. ASSUME NEW w \in Workers, P9!Get(w) PROVE OwnInv'
  <2>1. Head(port) \in P9!Posted /\ Head(port) \in Slots /\ P9!Posted' = P9!Posted \ {Head(port)}
    BY <1>10, HeldGet
  <2>2. \A t \in P9!Runners : at'[t] = IF t = w THEN Head(port) ELSE at[t]
    BY <1>10 DEF P9!Get
  <2>3. \A t \in P9!Runners : pc'[t] = IF t = w THEN "run" ELSE pc[t]
    BY <1>10 DEF P9!Get
  <2>4. at[w] = P9!NoSlot /\ free' = free
    BY <1>10 DEF P9!Get
  <2> QED
    BY <2>1, <2>2, <2>3, <2>4
<1>11. ASSUME P9!Post PROVE OwnInv'
  BY <1>11 DEF P9!Post, P9!Posted
<1>12. ASSUME P9!TakeIrq PROVE OwnInv'
  BY <1>12 DEF P9!TakeIrq, P9!Posted
<1>13. ASSUME P9!Reset PROVE OwnInv'
  BY <1>13 DEF P9!Reset, P9!Posted
<1>14. ASSUME P9!EnableQueue PROVE OwnInv'
  BY <1>14 DEF P9!EnableQueue, P9!Posted
<1>15. ASSUME P9!StopTransport PROVE OwnInv'
  BY <1>15 DEF P9!StopTransport, P9!Posted
<1>16. ASSUME P9!Main /\ P9!Still PROVE OwnInv'
  BY <1>16 DEF P9!Still, P9!Posted
<1>17. ASSUME UNCHANGED P9!vars PROVE OwnInv'
  BY <1>17 DEF P9!vars, P9!Posted
<1>18. P9!Main => P9!StopTransport \/ (P9!Main /\ P9!Still)
  BY DEF P9!Main, P9!JoinVcpus, P9!Quiesce, P9!CaptureVcpus, P9!CaptureDevice, P9!CaptureRam,
     P9!ReleaseRam, P9!KeepRam
<1> QED
  BY <1>1, <1>2, <1>3, <1>4, <1>5, <1>6, <1>7, <1>8, <1>9, <1>10, <1>11,
     <1>12, <1>13, <1>14, <1>15, <1>16, <1>17, <1>18
     DEF P9!Next, P9!PumpStep, P9!WorkerStep, P9!CompleteSlot, P9!Guest, P9!Runners

\* Every step keeps the order of teardown.
LEMMA TearStep ==
  ASSUME P9!P9Assumption, P9!TypeOK, SeqInv, OwnInv, TearInv, [P9!Next]_(P9!vars)
  PROVE  TearInv'
<1> USE Threads DEF P9!TypeOK, OwnInv, TearInv, P9!guest, P9!queue, P9!pool, P9!Goto, P9!Phase
<1>1. ASSUME P9!Wake PROVE TearInv'
  BY <1>1 DEF P9!Wake
<1>2. ASSUME P9!Pop PROVE TearInv'
  BY <1>2 DEF P9!Pop
<1>3. ASSUME P9!Poll PROVE TearInv'
  BY <1>3 DEF P9!Poll
<1>4. ASSUME NEW s \in Slots, P9!Submit(s) PROVE TearInv'
  BY <1>4 DEF P9!Submit, P9!Fill
<1>5. ASSUME P9!Exhausted PROVE TearInv'
  BY <1>5 DEF P9!Exhausted
<1>6. ASSUME P9!GiveUp PROVE TearInv'
  BY <1>6 DEF P9!GiveUp
<1>7. ASSUME NEW t \in P9!Runners, P9!Push(t) PROVE TearInv'
  BY <1>7 DEF P9!Push
<1>8. ASSUME NEW t \in P9!Runners, P9!Release(t) PROVE TearInv'
  BY <1>8 DEF P9!Release
<1>9. ASSUME NEW t \in P9!Runners, P9!Raise(t) PROVE TearInv'
  BY <1>9 DEF P9!Raise
<1>10. ASSUME NEW w \in Workers, P9!Get(w) PROVE TearInv'
  BY <1>10 DEF P9!Get
<1>11. ASSUME P9!Post PROVE TearInv'
  BY <1>11 DEF P9!Post
<1>12. ASSUME P9!TakeIrq PROVE TearInv'
  BY <1>12 DEF P9!TakeIrq
<1>13. ASSUME P9!Reset PROVE TearInv'
  BY <1>13 DEF P9!Reset
<1>14. ASSUME P9!EnableQueue PROVE TearInv'
  BY <1>14 DEF P9!EnableQueue
<1>15. ASSUME P9!StopTransport PROVE TearInv'
  BY <1>15 DEF P9!StopTransport
<1>16. ASSUME P9!Main /\ P9!Still PROVE TearInv'
  BY <1>16 DEF P9!Main, P9!Still, P9!Phase, P9!StopTransport,
         P9!JoinVcpus, P9!Quiesce, P9!CaptureVcpus, P9!CaptureDevice, P9!CaptureRam,
         P9!ReleaseRam, P9!KeepRam
<1>17. ASSUME UNCHANGED P9!vars PROVE TearInv'
  BY <1>17 DEF P9!vars, P9!Posted, Running, Held
<1>18. P9!Main => P9!StopTransport \/ (P9!Main /\ P9!Still)
  BY DEF P9!Main, P9!JoinVcpus, P9!Quiesce, P9!CaptureVcpus, P9!CaptureDevice, P9!CaptureRam,
     P9!ReleaseRam, P9!KeepRam
<1> QED
  BY <1>1, <1>2, <1>3, <1>4, <1>5, <1>6, <1>7, <1>8, <1>9, <1>10, <1>11,
     <1>12, <1>13, <1>14, <1>15, <1>16, <1>17, <1>18
     DEF P9!Next, P9!PumpStep, P9!WorkerStep, P9!CompleteSlot, P9!Guest, P9!Runners

\* No step leaves a request or an interrupt behind.
LEMMA StrandStep ==
  ASSUME P9!P9Assumption, P9!TypeOK, SeqInv, OwnInv, AnswerInv, TearInv, StrandInv,
         [P9!Next]_(P9!vars)
  PROVE  StrandInv'
<1> USE Threads DEF P9!TypeOK, OwnInv, TearInv, AnswerInv, StrandInv, P9!guest, P9!queue, P9!pool,
                   P9!Goto, P9!Phase
<1>1. ASSUME P9!Wake PROVE StrandInv'
  BY <1>1 DEF P9!Wake
<1>2. ASSUME P9!Pop PROVE StrandInv'
  BY <1>2 DEF P9!Pop
<1>3. ASSUME P9!Poll PROVE StrandInv'
  BY <1>3 DEF P9!Poll
<1>4. ASSUME NEW s \in Slots, P9!Submit(s) PROVE StrandInv'
  BY <1>4 DEF P9!Submit, P9!Fill
<1>5. ASSUME P9!Exhausted PROVE StrandInv'
  BY <1>5 DEF P9!Exhausted
<1>6. ASSUME P9!GiveUp PROVE StrandInv'
  BY <1>6 DEF P9!GiveUp
<1>7. ASSUME NEW t \in P9!Runners, P9!Push(t) PROVE StrandInv'
  BY <1>7 DEF P9!Push
<1>8. ASSUME NEW t \in P9!Runners, P9!Release(t) PROVE StrandInv'
  BY <1>8 DEF P9!Release
<1>9. ASSUME NEW t \in P9!Runners, P9!Raise(t) PROVE StrandInv'
  BY <1>9 DEF P9!Raise
<1>10. ASSUME NEW w \in Workers, P9!Get(w) PROVE StrandInv'
  BY <1>10 DEF P9!Get
<1>11. ASSUME P9!Post PROVE StrandInv'
  BY <1>11 DEF P9!Post
<1>12. ASSUME P9!TakeIrq PROVE StrandInv'
  BY <1>12 DEF P9!TakeIrq
<1>13. ASSUME P9!Reset PROVE StrandInv'
  BY <1>13 DEF P9!Reset
<1>14. ASSUME P9!EnableQueue PROVE StrandInv'
  BY <1>14 DEF P9!EnableQueue
<1>15. ASSUME P9!StopTransport PROVE StrandInv'
  BY <1>15 DEF P9!StopTransport
<1>16. ASSUME P9!Main /\ P9!Still PROVE StrandInv'
  BY <1>16 DEF P9!Still
<1>17. ASSUME UNCHANGED P9!vars PROVE StrandInv'
  BY <1>17 DEF P9!vars, P9!Posted, Running, Held
<1>18. P9!Main => P9!StopTransport \/ (P9!Main /\ P9!Still)
  BY DEF P9!Main, P9!JoinVcpus, P9!Quiesce, P9!CaptureVcpus, P9!CaptureDevice, P9!CaptureRam,
     P9!ReleaseRam, P9!KeepRam
<1> QED
  BY <1>1, <1>2, <1>3, <1>4, <1>5, <1>6, <1>7, <1>8, <1>9, <1>10, <1>11,
     <1>12, <1>13, <1>14, <1>15, <1>16, <1>17, <1>18
     DEF P9!Next, P9!PumpStep, P9!WorkerStep, P9!CompleteSlot, P9!Guest, P9!Runners

\* Every step accounts for the requests between the queue's two positions.
LEMMA CountStep ==
  ASSUME P9!P9Assumption, P9!TypeOK, SeqInv, OwnInv, P9CountInv, [P9!Next]_(P9!vars)
  PROVE  P9CountInv'
<1> USE Threads DEF P9CountInv, P9!guest, P9!queue, P9!pool, P9!Goto, P9!Phase
<1>1. ASSUME P9!Wake PROVE P9CountInv'
  BY <1>1, HeldSame DEF P9!Wake, P9!TypeOK, OwnInv
<1>2. ASSUME P9!Pop PROVE P9CountInv'
  <2>1. Held' = Held /\ Cardinality(Held) \in Nat
    BY <1>2, HeldSame, HeldCount DEF P9!Pop, P9!TypeOK, OwnInv
  <2>2. /\ pc[P9!Pump] # "acquire" /\ last_used' = last_used
        /\ \/ last_avail' = last_avail + 1 /\ pc'[P9!Pump] = "acquire"
           \/ last_avail' = last_avail /\ pc'[P9!Pump] # "acquire"
    BY <1>2 DEF P9!Pop, P9!TypeOK
  <2>3. last_used \in Int /\ last_avail \in Int
    BY DEF P9!TypeOK
  <2> QED
    BY <2>1, <2>2, <2>3
<1>3. ASSUME P9!Poll PROVE P9CountInv'
  BY <1>3, HeldSame DEF P9!Poll, P9!TypeOK, OwnInv
<1>4. ASSUME NEW s \in Slots, P9!Submit(s) PROVE P9CountInv'
  <2>1. s \notin Held /\ Held' = Held \cup {s}
    BY <1>4, HeldSubmit
  <2>2. Cardinality(Held') = Cardinality(Held) + 1 /\ Cardinality(Held) \in Nat
    BY <2>1, HeldCount, FS_AddElement
  <2>3. pc[P9!Pump] = "acquire" /\ pc'[P9!Pump] # "acquire" /\ UNCHANGED <<last_avail, last_used>>
    BY <1>4 DEF P9!Submit, P9!TypeOK
  <2> QED
    BY <2>2, <2>3 DEF P9!TypeOK
<1>5. ASSUME P9!Exhausted PROVE P9CountInv'
  <2>1. Held' = Held /\ Cardinality(Held) \in Nat
    BY <1>5, HeldSame, HeldCount DEF P9!Exhausted, P9!TypeOK, OwnInv
  <2>2. last_used' = last_used + 1 /\ last_avail' = last_avail
    BY <1>5 DEF P9!Exhausted, P9!PushUsed
  <2>3. pc[P9!Pump] = "acquire" /\ pc'[P9!Pump] # "acquire"
    BY <1>5 DEF P9!Exhausted, P9!TypeOK
  <2>4. last_used \in Int /\ last_avail \in Int
    BY DEF P9!TypeOK
  <2> QED
    BY <2>1, <2>2, <2>3, <2>4
<1>6. ASSUME P9!GiveUp PROVE P9CountInv'
  BY <1>6, HeldSame DEF P9!GiveUp, P9!TypeOK, OwnInv
<1>7. ASSUME NEW t \in P9!Runners, P9!Push(t) PROVE P9CountInv'
  <2>1. at[t] \in Held /\ Held' = Held \ {at[t]}
    BY <1>7, HeldPush
  <2>2. Cardinality(Held') = Cardinality(Held) - 1 /\ Cardinality(Held) \in Nat
    BY <2>1, HeldCount, FS_RemoveElement
  <2>3. last_used' = last_used + 1 /\ last_avail' = last_avail
    BY <1>7 DEF P9!Push, P9!PushUsed
  <2>4. pc'[P9!Pump] = "acquire" <=> pc[P9!Pump] = "acquire"
    BY <1>7 DEF P9!Push, P9!TypeOK
  <2>5. last_used \in Int /\ last_avail \in Int
    BY DEF P9!TypeOK
  <2> QED
    BY <2>2, <2>3, <2>4, <2>5
<1>8. ASSUME NEW t \in P9!Runners, P9!Release(t) PROVE P9CountInv'
  BY <1>8, HeldSame DEF P9!Release, P9!TypeOK, OwnInv
<1>9. ASSUME NEW t \in P9!Runners, P9!Raise(t) PROVE P9CountInv'
  BY <1>9, HeldSame DEF P9!Raise, P9!TypeOK, OwnInv
<1>10. ASSUME NEW w \in Workers, P9!Get(w) PROVE P9CountInv'
  <2>1. Held' = Held
    BY <1>10, HeldGet
  <2>2. pc'[P9!Pump] = pc[P9!Pump] /\ UNCHANGED <<last_avail, last_used>>
    BY <1>10 DEF P9!Get, P9!TypeOK
  <2> QED
    BY <2>1, <2>2
<1>11. ASSUME P9!Post PROVE P9CountInv'
  BY <1>11, HeldSame DEF P9!Post, P9!TypeOK, OwnInv
<1>12. ASSUME P9!TakeIrq PROVE P9CountInv'
  BY <1>12, HeldSame DEF P9!TakeIrq, P9!TypeOK, OwnInv
<1>13. ASSUME P9!Reset PROVE P9CountInv'
  BY <1>13, HeldSame DEF P9!Reset, P9!TypeOK, OwnInv
<1>14. ASSUME P9!EnableQueue PROVE P9CountInv'
  BY <1>14, HeldSame DEF P9!EnableQueue, P9!TypeOK, OwnInv
<1>15. ASSUME P9!StopTransport PROVE P9CountInv'
  BY <1>15, HeldSame DEF P9!StopTransport, P9!TypeOK, OwnInv
<1>16. ASSUME P9!Main /\ P9!Still PROVE P9CountInv'
  BY <1>16, HeldSame DEF P9!Still, P9!TypeOK, OwnInv
<1>17. ASSUME UNCHANGED P9!vars PROVE P9CountInv'
  <2>1. Held' = Held
    BY <1>17, HeldSame DEF P9!vars
  <2> QED
    BY <1>17, <2>1 DEF P9!vars
<1>18. P9!Main => P9!StopTransport \/ (P9!Main /\ P9!Still)
  BY DEF P9!Main, P9!JoinVcpus, P9!Quiesce, P9!CaptureVcpus, P9!CaptureDevice, P9!CaptureRam,
     P9!ReleaseRam, P9!KeepRam
<1> QED
  BY <1>1, <1>2, <1>3, <1>4, <1>5, <1>6, <1>7, <1>8, <1>9, <1>10, <1>11,
     <1>12, <1>13, <1>14, <1>15, <1>16, <1>17, <1>18
     DEF P9!Next, P9!PumpStep, P9!WorkerStep, P9!CompleteSlot, P9!Guest, P9!Runners

\* A step that moves no request leaves them where they are.
LEMMA AnswerSame ==
  ASSUME P9!TypeOK, AnswerInv, Held' = Held, \A s \in Held : slot'[s] = slot[s],
         pc'[P9!Pump] = "acquire" <=> pc[P9!Pump] = "acquire",
         pc[P9!Pump] = "acquire" => chain' = chain,
         UNCHANGED <<epoch, drv, last_avail, last_used, used>>, avail' \in Int, avail' >= avail
  PROVE  AnswerInv'
<1> SUFFICES ASSUME epoch = 0 PROVE AnswerInv'
  BY DEF AnswerInv
<1>1. P9!Unanswered' = P9!Unanswered
  BY UnansweredIsHeld
<1>2. P9!Answered' = P9!Answered
  BY DEF P9!Answered
<1>3. last_avail <= avail'
  BY DEF AnswerInv, P9!TypeOK
<1> QED
  BY <1>1, <1>2, <1>3 DEF AnswerInv

\* Pop takes the next request off the ring.
LEMMA AnswerPop ==
  ASSUME P9!P9Assumption, P9!TypeOK, SeqInv, OwnInv, AnswerInv, P9!Pop
  PROVE  AnswerInv'
<1> USE Threads DEF P9!Goto, P9!guest, P9!pool
<1> SUFFICES ASSUME epoch = 0 PROVE AnswerInv'
  BY DEF AnswerInv, P9!Pop
<1>1. Held' = Held /\ UNCHANGED <<epoch, drv, avail, last_used, used, slot>>
  BY HeldSame DEF P9!Pop, P9!TypeOK, OwnInv
<1>2. P9!Answered' = P9!Answered
  BY <1>1 DEF P9!Answered
<1>3. CASE ready /\ last_avail # avail
  <2>1. last_avail < avail /\ last_avail \in Nat /\ avail \in Nat
    BY <1>3 DEF AnswerInv, P9!TypeOK
  <2>2. /\ chain' = <<0, last_avail + 1>> /\ last_avail' = last_avail + 1
        /\ pc[P9!Pump] # "acquire" /\ pc'[P9!Pump] = "acquire"
    BY <1>3, <2>1 DEF P9!Pop, P9!TypeOK
  <2>3. P9!Unanswered' = P9!Unanswered \cup {chain'}
    BY <1>1, <2>2, UnansweredIsHeld
  <2>4. chain' \notin P9!Unanswered \cup P9!Answered
    <3>1. \A n \in 1..last_avail : <<0, n>> # <<0, last_avail + 1>>
      BY <2>1
    <3> QED
      BY <2>2, <3>1 DEF AnswerInv
  <2>5. {<<0, n>> : n \in 1..last_avail'} = {<<0, n>> : n \in 1..last_avail} \cup {chain'}
    <3>1. 1..(last_avail + 1) = 1..last_avail \cup {last_avail + 1}
      BY <2>1
    <3> QED
      BY <2>2, <3>1
  <2>6. \A s \in Held : slot[s] # chain'
    BY <2>4, UnansweredIsHeld
  <2>7. last_avail' <= avail
    BY <2>1, <2>2
  <2> QED
    BY <1>1, <1>2, <2>2, <2>3, <2>4, <2>5, <2>6, <2>7 DEF AnswerInv
<1>4. CASE ~(ready /\ last_avail # avail)
  <2>1. UNCHANGED <<chain, last_avail>> /\ pc[P9!Pump] # "acquire" /\ pc'[P9!Pump] # "acquire"
    BY <1>4 DEF P9!Pop, P9!TypeOK
  <2> QED
    BY <1>1, <2>1, AnswerSame DEF P9!TypeOK
<1> QED
  BY <1>3, <1>4

\* Submit moves the pump's request into a slot.
LEMMA AnswerSubmit ==
  ASSUME P9!P9Assumption, P9!TypeOK, SeqInv, OwnInv, AnswerInv, NEW s \in Slots, P9!Submit(s)
  PROVE  AnswerInv'
<1> USE Threads DEF P9!Goto, P9!guest, P9!queue
<1> SUFFICES ASSUME epoch = 0 PROVE AnswerInv'
  BY DEF AnswerInv, P9!Submit
<1>1. s \notin Held /\ Held' = Held \cup {s} /\ Held \subseteq Slots
  BY HeldSubmit, HeldCount
<1>2. /\ UNCHANGED <<epoch, drv, avail, last_avail, last_used, used>>
      /\ pc[P9!Pump] = "acquire" /\ pc'[P9!Pump] # "acquire"
  BY DEF P9!Submit, P9!TypeOK
<1>3. slot'[s] = chain /\ \A r \in Held : slot'[r] = slot[r]
  BY <1>1 DEF P9!Submit, P9!Fill, P9!TypeOK
<1>4. P9!Unanswered' = P9!Unanswered
  BY <1>1, <1>2, <1>3, UnansweredIsHeld
<1>5. P9!Answered' = P9!Answered
  BY <1>2 DEF P9!Answered
<1>6. \A r, q \in Held' : r # q => slot'[r] # slot'[q]
  BY <1>1, <1>2, <1>3 DEF AnswerInv
<1> QED
  BY <1>2, <1>4, <1>5, <1>6 DEF AnswerInv

\* A reply moves one request from the device's hands to the end of the used ring.
LEMMA AnswerReply ==
  ASSUME P9!P9Assumption, P9!TypeOK, SeqInv, AnswerInv, epoch = 0, NEW r \in P9!Unanswered,
         P9!PushUsed(r),
         r \in P9!Requests, P9!Unanswered' = P9!Unanswered \ {r},
         UNCHANGED <<epoch, drv, avail, last_avail>>,
         \A s, q \in Held' : s # q => slot'[s] # slot'[q],
         pc'[P9!Pump] = "acquire" => \A s \in Held' : slot'[s] # chain'
  PROVE  AnswerInv'
<1>1. /\ Len(used) = last_used /\ last_used \in Nat /\ Len(used') = last_used + 1
      /\ last_used' = last_used + 1 /\ used'[last_used + 1] = r
      /\ \A i \in 1..last_used : used'[i] = used[i]
  BY PushEffect DEF AnswerInv, P9!TypeOK
<1>2. \A i \in 1..(last_used + 1) : i \in 1..last_used \/ i = last_used + 1
  BY <1>1
<1>3. r \notin P9!Answered
  BY DEF AnswerInv
<1>4. P9!Answered' = P9!Answered \cup {r}
  <2>1. ASSUME NEW x \in P9!Answered' PROVE x \in P9!Answered \cup {r}
    BY <1>1, <1>2, <2>1 DEF P9!Answered
  <2>2. ASSUME NEW x \in P9!Answered PROVE x \in P9!Answered'
    <3>1. PICK i \in 1..last_used : x = used[i]
      BY <1>1, <2>2 DEF P9!Answered
    <3>2. i \in 1..Len(used') /\ used'[i] = x
      BY <1>1, <3>1
    <3> QED
      BY <3>2 DEF P9!Answered
  <2>3. r \in P9!Answered'
    <3>1. last_used + 1 \in 1..Len(used')
      BY <1>1
    <3> QED
      BY <1>1, <3>1 DEF P9!Answered
  <2> QED
    BY <2>1, <2>2, <2>3
<1>5. \A i, j \in 1..Len(used') : i # j => used'[i] # used'[j]
  <2>1. \A i \in 1..last_used : used[i] # r
    BY <1>1, <1>3 DEF P9!Answered
  <2> QED
    BY <1>1, <1>2, <2>1 DEF AnswerInv
<1> QED
  BY <1>1, <1>4, <1>5 DEF AnswerInv

\* A request for which no slot is free is retired unanswered: it still goes to the
\* used ring, once.
LEMMA AnswerExhausted ==
  ASSUME P9!P9Assumption, P9!TypeOK, SeqInv, OwnInv, AnswerInv, P9!Exhausted
  PROVE  AnswerInv'
<1> USE Threads DEF P9!Goto, P9!guest, P9!pool
<1> SUFFICES ASSUME epoch = 0 PROVE AnswerInv'
  BY DEF AnswerInv, P9!Exhausted
<1>1. Held' = Held /\ UNCHANGED <<epoch, drv, avail, last_avail, slot>>
  BY HeldSame DEF P9!Exhausted, P9!TypeOK, OwnInv
<1>2. pc[P9!Pump] = "acquire" /\ pc'[P9!Pump] # "acquire" /\ P9!PushUsed(chain) /\ chain \in P9!Requests
  BY DEF P9!Exhausted, P9!TypeOK
<1>3. P9!Unanswered' = P9!Unanswered \ {chain} /\ chain \in P9!Unanswered
  BY <1>1, <1>2, UnansweredIsHeld DEF AnswerInv
<1> QED
  BY <1>1, <1>2, <1>3, AnswerReply DEF AnswerInv

\* A handler's reply.
LEMMA AnswerPush ==
  ASSUME P9!P9Assumption, P9!TypeOK, SeqInv, OwnInv, AnswerInv, NEW t \in P9!Runners, P9!Push(t)
  PROVE  AnswerInv'
<1> USE Threads DEF P9!Goto, P9!guest, P9!pool
<1> SUFFICES ASSUME epoch = 0 PROVE AnswerInv'
  BY DEF AnswerInv, P9!Push
<1>1. /\ at[t] \in Held /\ Held' = Held \ {at[t]}
      /\ UNCHANGED <<epoch, drv, avail, last_avail, slot, chain>>
  BY HeldPush DEF P9!Push
<1>2. pc'[P9!Pump] = "acquire" <=> pc[P9!Pump] = "acquire"
  BY DEF P9!Push, P9!TypeOK
<1>3. P9!PushUsed(slot[at[t]]) /\ slot[at[t]] \in P9!Requests
  BY <1>1, HeldCount DEF P9!Push, P9!TypeOK
<1>4. P9!Unanswered' = P9!Unanswered \ {slot[at[t]]} /\ slot[at[t]] \in P9!Unanswered
  BY <1>1, <1>2, UnansweredIsHeld DEF AnswerInv
<1> QED
  BY <1>1, <1>2, <1>3, <1>4, AnswerReply DEF AnswerInv

\* Every step keeps each request in one place.
LEMMA AnswerStep ==
  ASSUME P9!P9Assumption, P9!TypeOK, SeqInv, OwnInv, AnswerInv, [P9!Next]_(P9!vars)
  PROVE  AnswerInv'
<1> USE Threads DEF P9!guest, P9!queue, P9!pool, P9!Goto, P9!Phase
<1>1. ASSUME P9!Wake PROVE AnswerInv'
  BY <1>1, HeldSame, AnswerSame DEF P9!Wake, P9!TypeOK, OwnInv
<1>2. ASSUME P9!Pop PROVE AnswerInv'
  BY <1>2, AnswerPop
<1>3. ASSUME P9!Poll PROVE AnswerInv'
  BY <1>3, HeldSame, AnswerSame DEF P9!Poll, P9!TypeOK, OwnInv
<1>4. ASSUME NEW s \in Slots, P9!Submit(s) PROVE AnswerInv'
  BY <1>4, AnswerSubmit
<1>5. ASSUME P9!Exhausted PROVE AnswerInv'
  BY <1>5, AnswerExhausted
<1>6. ASSUME P9!GiveUp PROVE AnswerInv'
  BY <1>6, HeldSame, AnswerSame DEF P9!GiveUp, P9!TypeOK, OwnInv
<1>7. ASSUME NEW t \in P9!Runners, P9!Push(t) PROVE AnswerInv'
  BY <1>7, AnswerPush
<1>8. ASSUME NEW t \in P9!Runners, P9!Release(t) PROVE AnswerInv'
  <2>1. Held' = Held
    BY <1>8, HeldSame DEF P9!Release, P9!TypeOK, OwnInv
  <2>2. \A s \in Held : slot'[s] = slot[s]
    <3>1. at[t] \notin Held
      BY <1>8 DEF Held, Running, P9!Release, OwnInv
    <3> QED
      BY <1>8, <3>1, HeldCount DEF P9!Release, P9!TypeOK
  <2>3. (pc'[P9!Pump] = "acquire" <=> pc[P9!Pump] = "acquire") /\ (pc[P9!Pump] = "acquire" => chain' = chain)
    BY <1>8 DEF P9!Release, P9!TypeOK
  <2>4. UNCHANGED <<epoch, drv, last_avail, last_used, used>> /\ avail' \in Int /\ avail' >= avail
    BY <1>8 DEF P9!Release, P9!TypeOK
  <2> QED
    BY <2>1, <2>2, <2>3, <2>4, AnswerSame
<1>9. ASSUME NEW t \in P9!Runners, P9!Raise(t) PROVE AnswerInv'
  BY <1>9, HeldSame, AnswerSame DEF P9!Raise, P9!TypeOK, OwnInv
<1>10. ASSUME NEW w \in Workers, P9!Get(w) PROVE AnswerInv'
  <2>1. Held' = Held
    BY <1>10, HeldGet
  <2>2. \A s \in Held : slot'[s] = slot[s]
    BY <1>10 DEF P9!Get, P9!TypeOK
  <2>3. (pc'[P9!Pump] = "acquire" <=> pc[P9!Pump] = "acquire") /\ (pc[P9!Pump] = "acquire" => chain' = chain)
    BY <1>10 DEF P9!Get, P9!TypeOK
  <2>4. UNCHANGED <<epoch, drv, last_avail, last_used, used>> /\ avail' \in Int /\ avail' >= avail
    BY <1>10 DEF P9!Get, P9!TypeOK
  <2> QED
    BY <2>1, <2>2, <2>3, <2>4, AnswerSame
<1>11. ASSUME P9!Post PROVE AnswerInv'
  BY <1>11, HeldSame, AnswerSame DEF P9!Post, P9!TypeOK, OwnInv
<1>12. ASSUME P9!TakeIrq PROVE AnswerInv'
  BY <1>12, HeldSame, AnswerSame DEF P9!TakeIrq, P9!TypeOK, OwnInv
<1>13. ASSUME P9!Reset PROVE AnswerInv'
  BY <1>13 DEF P9!Reset, P9!TypeOK, AnswerInv
<1>14. ASSUME P9!EnableQueue PROVE AnswerInv'
  BY <1>14 DEF P9!EnableQueue, AnswerInv
<1>15. ASSUME P9!StopTransport PROVE AnswerInv'
  BY <1>15, HeldSame, AnswerSame DEF P9!StopTransport, P9!TypeOK, OwnInv
<1>16. ASSUME P9!Main /\ P9!Still PROVE AnswerInv'
  BY <1>16, HeldSame, AnswerSame DEF P9!Still, P9!TypeOK, OwnInv
<1>17. ASSUME UNCHANGED P9!vars PROVE AnswerInv'
  BY <1>17, HeldSame, AnswerSame DEF P9!vars, P9!TypeOK, OwnInv
<1>18. P9!Main => P9!StopTransport \/ (P9!Main /\ P9!Still)
  BY DEF P9!Main, P9!JoinVcpus, P9!Quiesce, P9!CaptureVcpus, P9!CaptureDevice, P9!CaptureRam,
     P9!ReleaseRam, P9!KeepRam
<1> QED
  BY <1>1, <1>2, <1>3, <1>4, <1>5, <1>6, <1>7, <1>8, <1>9, <1>10, <1>11,
     <1>12, <1>13, <1>14, <1>15, <1>16, <1>17, <1>18
     DEF P9!Next, P9!PumpStep, P9!WorkerStep, P9!CompleteSlot, P9!Guest, P9!Runners

-----------------------------------------------------------------------------
(* The theorems.                                                           *)

\* A sequence without repetitions has as many elements as positions.
LEMMA SequenceCardinality ==
  ASSUME NEW S, NEW q \in Seq(S), \A i, j \in 1..Len(q) : i # j => q[i] # q[j]
  PROVE  Cardinality({q[i] : i \in 1..Len(q)}) = Len(q)
<1> DEFINE D == 1..Len(q)
           R == {q[i] : i \in D}
<1>1. Len(q) \in Nat /\ q \in [D -> R]
  BY LenProperties
<1>2. q \in Bijection(D, R)
  <2>1. \A a, b \in D : q[a] = q[b] => a = b
    OBVIOUS
  <2>2. \A r \in R : \E a \in D : q[a] = r
    OBVIOUS
  <2> QED
    BY <1>1, <2>1, <2>2, Fun_IsBij
<1>3. ExistsBijection(D, R)
  BY <1>2, Fun_ExistsBij
<1>4. IsFiniteSet(D) /\ Cardinality(D) = Len(q)
  <2>1. 1 \in Int /\ Len(q) \in Int
    BY <1>1
  <2>2. IsFiniteSet(D) /\ Cardinality(D) = IF 1 > Len(q) THEN 0 ELSE Len(q) - 1 + 1
    BY <2>1, FS_Interval
  <2> QED
    BY <1>1, <2>2
<1> QED
  BY <1>3, <1>4, FS_Bijection

\* The parts are inductive together.
THEOREM P9Invariance ==
  ASSUME P9!P9Assumption
  PROVE  P9!Spec => []P9Inv
<1>1. P9!Init => P9Inv
  <2> SUFFICES ASSUME P9!Init PROVE P9Inv
    OBVIOUS
  <2> USE Threads DEF P9!Init
  <2>1. P9!TypeOK
    <3>1. /\ avail \in 0..MaxPosts /\ reaped \in 0..MaxIndex /\ epoch \in 0..MaxResets
          /\ last_avail \in 0..MaxIndex /\ last_used \in 0..last_avail
          /\ Len(used) \in 0..MaxIndex /\ Len(used) = 0 /\ Len(port) = 0
      BY DEF P9!P9Assumption
    <3>2. slot \in [Slots -> P9!Requests] /\ chain \in P9!Requests
      BY NoRequestType
    <3>3. {irq, ready, event, exhausted} \subseteq BOOLEAN
      BY Zenon
    <3>4. at \in [P9!Runners -> Slots \cup {P9!NoSlot}]
      OBVIOUS
    <3> QED
      BY <3>1, <3>2, <3>3, <3>4 DEF P9!TypeOK
  <2>2. P9!Posted = {} /\ Running = {} /\ Held = {} /\ P9!Answered = {} /\ P9!Unanswered = {}
    BY UnansweredIsHeld DEF P9!Posted, Running, Held, P9!Answered
  <2>3. SeqInv
    BY EmptySeq DEF SeqInv
  <2>4. OwnInv
    BY <2>2 DEF OwnInv
  <2>5. P9CountInv
    BY <2>2, FS_EmptySet DEF P9CountInv
  <2>6. AnswerInv
    BY <2>2 DEF AnswerInv
  <2>7. TearInv /\ StrandInv
    BY DEF TearInv, StrandInv
  <2> QED
    BY <2>1, <2>3, <2>4, <2>5, <2>6, <2>7 DEF P9Inv
<1>2. P9Inv /\ [P9!Next]_(P9!vars) => P9Inv'
  BY P9TypeStep, SeqStep, OwnStep, CountStep, AnswerStep, TearStep, StrandStep DEF P9Inv
<1> QED
  BY <1>1, <1>2, PTL DEF P9!Spec

\* P9Slot's "no two threads ever touch the same slot at once", one reply to each
\* request until a reset, and RAM freed only with nothing left to write to it:
\* whatever the guest resets, however many workers there are.
THEOREM P9IsSafe ==
  ASSUME P9!P9Assumption
  PROVE  P9!Spec => []P9!P9Safe
<1>1. P9Inv => P9!P9Safe
  <2> SUFFICES ASSUME P9Inv PROVE P9!P9Safe
    OBVIOUS
  <2> USE Threads DEF P9Inv
  <2>1. P9!LinearOwnership
    <3>1. Cardinality(P9!Posted) = Len(port)
      BY SequenceCardinality DEF SeqInv, P9!Posted
    <3>2. free \cap P9!Posted = {} /\ \A t \in P9!Runners : P9!Owns(t) \cap (free \cup P9!Posted) = {}
      BY DEF OwnInv, P9!Owns
    <3>3. \A t, u \in P9!Runners : t # u => P9!Owns(t) \cap P9!Owns(u) = {}
      BY DEF OwnInv, P9!Owns
    <3>4. P9!Posted \subseteq Slots /\ free \subseteq Slots
      BY DEF P9!TypeOK, P9!Posted
    <3>5. \A t \in P9!Runners : P9!Owns(t) \subseteq Slots
      BY DEF P9!TypeOK, P9!Owns
    <3>6. \A s \in Slots : s \in free \cup P9!Posted \/ \E t \in P9!Runners : s \in P9!Owns(t)
      BY DEF OwnInv, P9!Owns
    <3>7. Slots = free \cup P9!Posted \cup UNION {P9!Owns(t) : t \in P9!Runners}
      BY <3>4, <3>5, <3>6
    <3> QED
      BY <3>1, <3>2, <3>3, <3>7, FinitenessIsShared DEF P9!LinearOwnership
  <2>2. P9!EachAnsweredOnce
    <3> SUFFICES ASSUME epoch = 0 PROVE P9!EachAnsweredOnce
      BY DEF P9!EachAnsweredOnce
    <3>1. Cardinality(P9!Answered) = Len(used)
      BY SequenceCardinality DEF SeqInv, AnswerInv, P9!Answered
    <3> QED
      BY <3>1, FinitenessIsShared DEF AnswerInv, P9!EachAnsweredOnce
  <2>3. P9!ReleasedIsUntouched
    <3> SUFFICES ASSUME vm = "released" PROVE P9!Unanswered = {} /\ pc[P9!Pump] = "ended" /\ ~ready
      BY DEF P9!ReleasedIsUntouched
    <3>1. free = Slots /\ pc[P9!Pump] = "ended" /\ ~ready
      BY DEF TearInv
    <3>2. Held = {}
      BY <3>1, HeldCount
    <3> QED
      BY <3>1, <3>2, UnansweredIsHeld
  <2> QED
    BY <2>1, <2>2, <2>3 DEF P9!P9Safe
<1> QED
  BY <1>1, P9Invariance, PTL

\* Nothing sweeps the ring, and nothing needs to until a reset or an exhausted pool:
\* a sleeping pump owes the ring nothing, and no reply waits for an interrupt that
\* nobody will raise.
THEOREM P9NothingStrands ==
  ASSUME P9!P9Assumption
  PROVE  P9!Spec => []P9!NothingStrands
<1>1. P9Inv => P9!NothingStrands
  BY DEF P9Inv, StrandInv, P9!NothingStrands
<1> QED
  BY <1>1, P9Invariance, PTL

-----------------------------------------------------------------------------
(* VirtioTransport: the status register ties the driver to the device.  A    *)
(* reset that reads as done has nothing left to settle because reset_from    *)
(* withholds the 0 until then, and a queue is ready only under a status the  *)
(* driver wrote after that.                                                  *)

\* Requests posted, taken, and taken before a reset share the ring.
RingInv == avail + live + stale <= MaxRequests

\* Who holds which lock; that an access is in progress only while the VM runs; and
\* that an unmapped BAR has no pump once it is joined.
LockInv ==
  /\ common = Pci!NoOne <=> acc \notin {"reset", "enable", "disable"}
  /\ qlock = "vcpu" => acc = "drain"
  /\ qlock = "pump" => pump = "drain"
  /\ acc # "none" => vm = "runs"
  /\ ~bar /\ acc # "join" => pump = "none"

\* How far the driver's initialisation is shows in the status it wrote.
DriverInv ==
  /\ drv = "fresh" => status = "0"
  /\ drv = "features" => status = "features_ok"
  /\ drv = "failed" => status = "needs_reset"
  /\ drv = "ok" => status = "driver_ok"
  /\ acc \in {"enable", "disable"} => drv = "features"
  /\ acc = "reset" => drv = "reset" /\ status = "0"

\* What is left to settle keeps the status from reading 0.
ResetInv ==
  /\ acc = "reset" \/ stale > 0 => reset_from # "0"
  /\ drv # "reset" => stale = 0

\* A ready queue is enabled, unless the access that takes it down is in progress.
QueueInv ==
  /\ acc = "enable" => enable
  /\ ready => enable \/ acc \in {"reset", "disable"}
  /\ ready /\ (status = "0" \/ drv = "failed") => acc = "reset"

\* After stop the pump is gone, and so is the queue.
StopInv == vm = "stopped" => pump \in {"none", "ended"} /\ ~ready

TransportInv == Pci!TypeOK /\ RingInv /\ LockInv /\ DriverInv /\ ResetInv /\ QueueInv /\ StopInv

-----------------------------------------------------------------------------
(* What each step keeps.                                                   *)

(* Every step keeps the state in its types, and the requests within the ring. *)
LEMMA TransportTypeStep ==
  ASSUME Pci!TransportAssumption, Pci!TypeOK, RingInv, LockInv, [Pci!Next]_(Pci!vars)
  PROVE  (Pci!TypeOK /\ RingInv)'
<1> USE DEF Pci!TransportAssumption, Pci!TypeOK, RingInv, LockInv, Pci!Statuses, Pci!NoOne,
       Pci!Free, Pci!Access, Pci!Continue, Pci!Done, Pci!regs, Pci!dev, Pci!bell
<1>1. ASSUME Pci!WriteReset PROVE (Pci!TypeOK /\ RingInv)'
  BY ZenonT(60), <1>1 DEF Pci!WriteReset
<1>2. ASSUME Pci!ReadStatus PROVE (Pci!TypeOK /\ RingInv)'
  BY <1>2 DEF Pci!ReadStatus
<1>3. ASSUME Pci!WriteFeaturesOk PROVE (Pci!TypeOK /\ RingInv)'
  BY <1>3 DEF Pci!WriteFeaturesOk
<1>4. ASSUME Pci!WriteSize PROVE (Pci!TypeOK /\ RingInv)'
  BY <1>4 DEF Pci!WriteSize
<1>5. ASSUME Pci!WriteEnable PROVE (Pci!TypeOK /\ RingInv)'
  BY <1>5 DEF Pci!WriteEnable
<1>6. ASSUME Pci!WriteDisable PROVE (Pci!TypeOK /\ RingInv)'
  BY ZenonT(60), <1>6 DEF Pci!WriteDisable
<1>7. ASSUME Pci!WriteDriverOk PROVE (Pci!TypeOK /\ RingInv)'
  BY <1>7 DEF Pci!WriteDriverOk
<1>8. ASSUME Pci!Kick PROVE (Pci!TypeOK /\ RingInv)'
  <2>1. /\ avail' \in 0..MaxRequests /\ live' \in 0..MaxRequests /\ stale' \in 0..MaxRequests
        /\ avail' + live' + stale' <= MaxRequests
    BY <1>8 DEF Pci!Kick
  <2>2. Pci!TypeOK'
    BY ZenonT(60), <1>8, <2>1 DEF Pci!Kick
  <2> QED
    BY <2>1, <2>2
<1>9. ASSUME Pci!MapBar PROVE (Pci!TypeOK /\ RingInv)'
  BY ZenonT(60), <1>9 DEF Pci!MapBar
<1>10. ASSUME Pci!UnmapBar PROVE (Pci!TypeOK /\ RingInv)'
  BY <1>10 DEF Pci!UnmapBar
<1>11. ASSUME Pci!DeviceReset PROVE (Pci!TypeOK /\ RingInv)'
  <2>1. /\ avail' \in 0..MaxRequests /\ live' \in 0..MaxRequests /\ stale' \in 0..MaxRequests
        /\ avail' + live' + stale' <= MaxRequests
    BY <1>11 DEF Pci!DeviceReset
  <2>2. Pci!TypeOK'
    BY ZenonT(60), <1>11, <2>1 DEF Pci!DeviceReset
  <2> QED
    BY <2>1, <2>2
<1>12. ASSUME Pci!DeviceEnable PROVE (Pci!TypeOK /\ RingInv)'
  BY <1>12 DEF Pci!DeviceEnable
<1>13. ASSUME Pci!DeviceDisable PROVE (Pci!TypeOK /\ RingInv)'
  <2>1. /\ avail' \in 0..MaxRequests /\ live' \in 0..MaxRequests /\ stale' \in 0..MaxRequests
        /\ avail' + live' + stale' <= MaxRequests
    BY <1>13 DEF Pci!DeviceDisable
  <2>2. Pci!TypeOK'
    BY ZenonT(60), <1>13, <2>1 DEF Pci!DeviceDisable
  <2> QED
    BY <2>1, <2>2
<1>14. ASSUME Pci!JoinPump PROVE (Pci!TypeOK /\ RingInv)'
  BY <1>14 DEF Pci!JoinPump
<1>15. ASSUME Pci!PumpWake PROVE (Pci!TypeOK /\ RingInv)'
  <2>1. pump' \in {"ended", "drain"} /\ event' \in BOOLEAN
    BY <1>15 DEF Pci!PumpWake
  <2>2. UNCHANGED <<common, qlock, Pci!regs, Pci!dev, drv, acc, bar, doorbell, stop_event, worker, vm>>
    BY <1>15 DEF Pci!PumpWake
  <2> QED
    BY <2>1, <2>2
<1>16. ASSUME NEW p \in {"vcpu", "pump"}, Pci!DrainLock(p) PROVE (Pci!TypeOK /\ RingInv)'
  BY <1>16 DEF Pci!DrainLock
<1>17. ASSUME NEW p \in {"vcpu", "pump"}, Pci!DrainPop(p) PROVE (Pci!TypeOK /\ RingInv)'
  BY <1>17 DEF Pci!DrainPop
<1>18. ASSUME NEW p \in {"vcpu", "pump"}, Pci!Raise(p) PROVE (Pci!TypeOK /\ RingInv)'
  BY <1>18 DEF Pci!Raise
<1>19. ASSUME Pci!Finish PROVE (Pci!TypeOK /\ RingInv)'
  BY <1>19 DEF Pci!Finish
<1>20. ASSUME Pci!WorkerRaise PROVE (Pci!TypeOK /\ RingInv)'
  BY <1>20 DEF Pci!WorkerRaise
<1>21. ASSUME Pci!StopBegin PROVE (Pci!TypeOK /\ RingInv)'
  BY <1>21 DEF Pci!StopBegin
<1>22. ASSUME Pci!StopDisable PROVE (Pci!TypeOK /\ RingInv)'
  BY ZenonT(60), <1>22 DEF Pci!StopDisable
<1>23. ASSUME UNCHANGED Pci!vars PROVE (Pci!TypeOK /\ RingInv)'
  BY <1>23 DEF Pci!vars
<1> QED
  BY <1>1, <1>2, <1>3, <1>4, <1>5, <1>6, <1>7, <1>8, <1>9, <1>10, <1>11,
     <1>12, <1>13, <1>14, <1>15, <1>16, <1>17, <1>18, <1>19, <1>20, <1>21,
     <1>22, <1>23
     DEF Pci!Next, Pci!Driver, Pci!Vcpu, Pci!Pump

(* Every step keeps the locks with the access or the drain that took them. *)
LEMMA LockStep ==
  ASSUME Pci!TransportAssumption, Pci!TypeOK, LockInv, [Pci!Next]_(Pci!vars)
  PROVE  LockInv'
<1> USE DEF Pci!TransportAssumption, Pci!TypeOK, LockInv, Pci!NoOne, Pci!Free, Pci!Access,
       Pci!Continue, Pci!Done, Pci!regs, Pci!dev, Pci!bell
<1>1. ASSUME Pci!WriteReset PROVE LockInv'
  BY <1>1 DEF Pci!WriteReset
<1>2. ASSUME Pci!ReadStatus PROVE LockInv'
  BY <1>2 DEF Pci!ReadStatus
<1>3. ASSUME Pci!WriteFeaturesOk PROVE LockInv'
  BY <1>3 DEF Pci!WriteFeaturesOk
<1>4. ASSUME Pci!WriteSize PROVE LockInv'
  BY <1>4 DEF Pci!WriteSize
<1>5. ASSUME Pci!WriteEnable PROVE LockInv'
  BY <1>5 DEF Pci!WriteEnable
<1>6. ASSUME Pci!WriteDisable PROVE LockInv'
  BY <1>6 DEF Pci!WriteDisable
<1>7. ASSUME Pci!WriteDriverOk PROVE LockInv'
  BY <1>7 DEF Pci!WriteDriverOk
<1>8. ASSUME Pci!Kick PROVE LockInv'
  BY <1>8 DEF Pci!Kick
<1>9. ASSUME Pci!MapBar PROVE LockInv'
  BY <1>9 DEF Pci!MapBar
<1>10. ASSUME Pci!UnmapBar PROVE LockInv'
  BY <1>10 DEF Pci!UnmapBar
<1>11. ASSUME Pci!DeviceReset PROVE LockInv'
  BY <1>11 DEF Pci!DeviceReset
<1>12. ASSUME Pci!DeviceEnable PROVE LockInv'
  BY <1>12 DEF Pci!DeviceEnable
<1>13. ASSUME Pci!DeviceDisable PROVE LockInv'
  BY <1>13 DEF Pci!DeviceDisable
<1>14. ASSUME Pci!JoinPump PROVE LockInv'
  BY <1>14 DEF Pci!JoinPump
<1>15. ASSUME Pci!PumpWake PROVE LockInv'
  BY <1>15 DEF Pci!PumpWake
<1>16. ASSUME NEW p \in {"vcpu", "pump"}, Pci!DrainLock(p) PROVE LockInv'
  BY <1>16 DEF Pci!DrainLock
<1>17. ASSUME NEW p \in {"vcpu", "pump"}, Pci!DrainPop(p) PROVE LockInv'
  BY <1>17 DEF Pci!DrainPop
<1>18. ASSUME NEW p \in {"vcpu", "pump"}, Pci!Raise(p) PROVE LockInv'
  BY <1>18 DEF Pci!Raise
<1>19. ASSUME Pci!Finish PROVE LockInv'
  BY <1>19 DEF Pci!Finish
<1>20. ASSUME Pci!WorkerRaise PROVE LockInv'
  BY <1>20 DEF Pci!WorkerRaise
<1>21. ASSUME Pci!StopBegin PROVE LockInv'
  BY <1>21 DEF Pci!StopBegin
<1>22. ASSUME Pci!StopDisable PROVE LockInv'
  BY <1>22 DEF Pci!StopDisable
<1>23. ASSUME UNCHANGED Pci!vars PROVE LockInv'
  BY <1>23 DEF Pci!vars
<1> QED
  BY <1>1, <1>2, <1>3, <1>4, <1>5, <1>6, <1>7, <1>8, <1>9, <1>10, <1>11,
     <1>12, <1>13, <1>14, <1>15, <1>16, <1>17, <1>18, <1>19, <1>20, <1>21,
     <1>22, <1>23
     DEF Pci!Next, Pci!Driver, Pci!Vcpu, Pci!Pump

(* Every step keeps the driver in step with the status it wrote. *)
LEMMA DriverStep ==
  ASSUME Pci!TransportAssumption, Pci!TypeOK, LockInv, DriverInv, [Pci!Next]_(Pci!vars)
  PROVE  DriverInv'
<1> USE DEF Pci!TransportAssumption, Pci!TypeOK, LockInv, DriverInv, Pci!NoOne, Pci!Free,
       Pci!Access, Pci!Continue, Pci!Done, Pci!regs, Pci!dev, Pci!bell
<1>1. ASSUME Pci!WriteReset PROVE DriverInv'
  BY <1>1 DEF Pci!WriteReset
<1>2. ASSUME Pci!ReadStatus PROVE DriverInv'
  BY <1>2 DEF Pci!ReadStatus
<1>3. ASSUME Pci!WriteFeaturesOk PROVE DriverInv'
  BY <1>3 DEF Pci!WriteFeaturesOk
<1>4. ASSUME Pci!WriteSize PROVE DriverInv'
  BY <1>4 DEF Pci!WriteSize
<1>5. ASSUME Pci!WriteEnable PROVE DriverInv'
  BY <1>5 DEF Pci!WriteEnable
<1>6. ASSUME Pci!WriteDisable PROVE DriverInv'
  BY <1>6 DEF Pci!WriteDisable
<1>7. ASSUME Pci!WriteDriverOk PROVE DriverInv'
  BY <1>7 DEF Pci!WriteDriverOk
<1>8. ASSUME Pci!Kick PROVE DriverInv'
  BY <1>8 DEF Pci!Kick
<1>9. ASSUME Pci!MapBar PROVE DriverInv'
  BY <1>9 DEF Pci!MapBar
<1>10. ASSUME Pci!UnmapBar PROVE DriverInv'
  BY <1>10 DEF Pci!UnmapBar
<1>11. ASSUME Pci!DeviceReset PROVE DriverInv'
  BY <1>11 DEF Pci!DeviceReset
<1>12. ASSUME Pci!DeviceEnable PROVE DriverInv'
  BY <1>12 DEF Pci!DeviceEnable
<1>13. ASSUME Pci!DeviceDisable PROVE DriverInv'
  BY <1>13 DEF Pci!DeviceDisable
<1>14. ASSUME Pci!JoinPump PROVE DriverInv'
  BY <1>14 DEF Pci!JoinPump
<1>15. ASSUME Pci!PumpWake PROVE DriverInv'
  BY <1>15 DEF Pci!PumpWake
<1>16. ASSUME NEW p \in {"vcpu", "pump"}, Pci!DrainLock(p) PROVE DriverInv'
  BY <1>16 DEF Pci!DrainLock
<1>17. ASSUME NEW p \in {"vcpu", "pump"}, Pci!DrainPop(p) PROVE DriverInv'
  BY <1>17 DEF Pci!DrainPop
<1>18. ASSUME NEW p \in {"vcpu", "pump"}, Pci!Raise(p) PROVE DriverInv'
  BY <1>18 DEF Pci!Raise
<1>19. ASSUME Pci!Finish PROVE DriverInv'
  BY <1>19 DEF Pci!Finish
<1>20. ASSUME Pci!WorkerRaise PROVE DriverInv'
  BY <1>20 DEF Pci!WorkerRaise
<1>21. ASSUME Pci!StopBegin PROVE DriverInv'
  BY <1>21 DEF Pci!StopBegin
<1>22. ASSUME Pci!StopDisable PROVE DriverInv'
  BY <1>22 DEF Pci!StopDisable
<1>23. ASSUME UNCHANGED Pci!vars PROVE DriverInv'
  BY <1>23 DEF Pci!vars
<1> QED
  BY <1>1, <1>2, <1>3, <1>4, <1>5, <1>6, <1>7, <1>8, <1>9, <1>10, <1>11,
     <1>12, <1>13, <1>14, <1>15, <1>16, <1>17, <1>18, <1>19, <1>20, <1>21,
     <1>22, <1>23
     DEF Pci!Next, Pci!Driver, Pci!Vcpu, Pci!Pump

(* Every step withholds the 0 while requests from before the reset run. *)
LEMMA ResetStep ==
  ASSUME Pci!TransportAssumption, Pci!TypeOK, LockInv, DriverInv, ResetInv, [Pci!Next]_(Pci!vars)
  PROVE  ResetInv'
<1> USE DEF Pci!TransportAssumption, Pci!TypeOK, LockInv, DriverInv, ResetInv, Pci!NoOne,
       Pci!Free, Pci!Access, Pci!Continue, Pci!Done, Pci!regs, Pci!dev, Pci!bell
<1>1. ASSUME Pci!WriteReset PROVE ResetInv'
  BY <1>1 DEF Pci!WriteReset
<1>2. ASSUME Pci!ReadStatus PROVE ResetInv'
  BY <1>2 DEF Pci!ReadStatus
<1>3. ASSUME Pci!WriteFeaturesOk PROVE ResetInv'
  BY <1>3 DEF Pci!WriteFeaturesOk
<1>4. ASSUME Pci!WriteSize PROVE ResetInv'
  BY <1>4 DEF Pci!WriteSize
<1>5. ASSUME Pci!WriteEnable PROVE ResetInv'
  BY <1>5 DEF Pci!WriteEnable
<1>6. ASSUME Pci!WriteDisable PROVE ResetInv'
  BY <1>6 DEF Pci!WriteDisable
<1>7. ASSUME Pci!WriteDriverOk PROVE ResetInv'
  BY <1>7 DEF Pci!WriteDriverOk
<1>8. ASSUME Pci!Kick PROVE ResetInv'
  BY <1>8 DEF Pci!Kick
<1>9. ASSUME Pci!MapBar PROVE ResetInv'
  BY <1>9 DEF Pci!MapBar
<1>10. ASSUME Pci!UnmapBar PROVE ResetInv'
  BY <1>10 DEF Pci!UnmapBar
<1>11. ASSUME Pci!DeviceReset PROVE ResetInv'
  BY <1>11 DEF Pci!DeviceReset
<1>12. ASSUME Pci!DeviceEnable PROVE ResetInv'
  BY <1>12 DEF Pci!DeviceEnable
<1>13. ASSUME Pci!DeviceDisable PROVE ResetInv'
  BY <1>13 DEF Pci!DeviceDisable
<1>14. ASSUME Pci!JoinPump PROVE ResetInv'
  BY <1>14 DEF Pci!JoinPump
<1>15. ASSUME Pci!PumpWake PROVE ResetInv'
  BY <1>15 DEF Pci!PumpWake
<1>16. ASSUME NEW p \in {"vcpu", "pump"}, Pci!DrainLock(p) PROVE ResetInv'
  BY <1>16 DEF Pci!DrainLock
<1>17. ASSUME NEW p \in {"vcpu", "pump"}, Pci!DrainPop(p) PROVE ResetInv'
  BY <1>17 DEF Pci!DrainPop
<1>18. ASSUME NEW p \in {"vcpu", "pump"}, Pci!Raise(p) PROVE ResetInv'
  BY <1>18 DEF Pci!Raise
<1>19. ASSUME Pci!Finish PROVE ResetInv'
  BY <1>19 DEF Pci!Finish
<1>20. ASSUME Pci!WorkerRaise PROVE ResetInv'
  BY <1>20 DEF Pci!WorkerRaise
<1>21. ASSUME Pci!StopBegin PROVE ResetInv'
  BY <1>21 DEF Pci!StopBegin
<1>22. ASSUME Pci!StopDisable PROVE ResetInv'
  BY <1>22 DEF Pci!StopDisable
<1>23. ASSUME UNCHANGED Pci!vars PROVE ResetInv'
  BY <1>23 DEF Pci!vars
<1> QED
  BY <1>1, <1>2, <1>3, <1>4, <1>5, <1>6, <1>7, <1>8, <1>9, <1>10, <1>11,
     <1>12, <1>13, <1>14, <1>15, <1>16, <1>17, <1>18, <1>19, <1>20, <1>21,
     <1>22, <1>23
     DEF Pci!Next, Pci!Driver, Pci!Vcpu, Pci!Pump

(* Every step keeps a ready queue under registers that say so. *)
LEMMA QueueStep ==
  ASSUME Pci!TransportAssumption, Pci!TypeOK, LockInv, DriverInv, QueueInv, [Pci!Next]_(Pci!vars)
  PROVE  QueueInv'
<1> USE DEF Pci!TransportAssumption, Pci!TypeOK, LockInv, DriverInv, QueueInv, Pci!NoOne,
       Pci!Free, Pci!Access, Pci!Continue, Pci!Done, Pci!regs, Pci!dev, Pci!bell
<1>1. ASSUME Pci!WriteReset PROVE QueueInv'
  BY <1>1 DEF Pci!WriteReset
<1>2. ASSUME Pci!ReadStatus PROVE QueueInv'
  BY <1>2 DEF Pci!ReadStatus
<1>3. ASSUME Pci!WriteFeaturesOk PROVE QueueInv'
  BY <1>3 DEF Pci!WriteFeaturesOk
<1>4. ASSUME Pci!WriteSize PROVE QueueInv'
  BY <1>4 DEF Pci!WriteSize
<1>5. ASSUME Pci!WriteEnable PROVE QueueInv'
  BY <1>5 DEF Pci!WriteEnable
<1>6. ASSUME Pci!WriteDisable PROVE QueueInv'
  BY <1>6 DEF Pci!WriteDisable
<1>7. ASSUME Pci!WriteDriverOk PROVE QueueInv'
  BY <1>7 DEF Pci!WriteDriverOk
<1>8. ASSUME Pci!Kick PROVE QueueInv'
  BY <1>8 DEF Pci!Kick
<1>9. ASSUME Pci!MapBar PROVE QueueInv'
  BY <1>9 DEF Pci!MapBar
<1>10. ASSUME Pci!UnmapBar PROVE QueueInv'
  BY <1>10 DEF Pci!UnmapBar
<1>11. ASSUME Pci!DeviceReset PROVE QueueInv'
  BY <1>11 DEF Pci!DeviceReset
<1>12. ASSUME Pci!DeviceEnable PROVE QueueInv'
  BY <1>12 DEF Pci!DeviceEnable
<1>13. ASSUME Pci!DeviceDisable PROVE QueueInv'
  BY <1>13 DEF Pci!DeviceDisable
<1>14. ASSUME Pci!JoinPump PROVE QueueInv'
  BY <1>14 DEF Pci!JoinPump
<1>15. ASSUME Pci!PumpWake PROVE QueueInv'
  BY <1>15 DEF Pci!PumpWake
<1>16. ASSUME NEW p \in {"vcpu", "pump"}, Pci!DrainLock(p) PROVE QueueInv'
  BY <1>16 DEF Pci!DrainLock
<1>17. ASSUME NEW p \in {"vcpu", "pump"}, Pci!DrainPop(p) PROVE QueueInv'
  BY <1>17 DEF Pci!DrainPop
<1>18. ASSUME NEW p \in {"vcpu", "pump"}, Pci!Raise(p) PROVE QueueInv'
  BY <1>18 DEF Pci!Raise
<1>19. ASSUME Pci!Finish PROVE QueueInv'
  BY <1>19 DEF Pci!Finish
<1>20. ASSUME Pci!WorkerRaise PROVE QueueInv'
  BY <1>20 DEF Pci!WorkerRaise
<1>21. ASSUME Pci!StopBegin PROVE QueueInv'
  BY <1>21 DEF Pci!StopBegin
<1>22. ASSUME Pci!StopDisable PROVE QueueInv'
  BY <1>22 DEF Pci!StopDisable
<1>23. ASSUME UNCHANGED Pci!vars PROVE QueueInv'
  BY <1>23 DEF Pci!vars
<1> QED
  BY <1>1, <1>2, <1>3, <1>4, <1>5, <1>6, <1>7, <1>8, <1>9, <1>10, <1>11,
     <1>12, <1>13, <1>14, <1>15, <1>16, <1>17, <1>18, <1>19, <1>20, <1>21,
     <1>22, <1>23
     DEF Pci!Next, Pci!Driver, Pci!Vcpu, Pci!Pump

(* No step brings the pump or the queue back after stop. *)
LEMMA StopStep ==
  ASSUME Pci!TransportAssumption, Pci!TypeOK, LockInv, StopInv, [Pci!Next]_(Pci!vars)
  PROVE  StopInv'
<1> USE DEF Pci!TransportAssumption, Pci!TypeOK, LockInv, StopInv, Pci!NoOne, Pci!Free,
       Pci!Access, Pci!Continue, Pci!Done, Pci!regs, Pci!dev, Pci!bell
<1>1. ASSUME Pci!WriteReset PROVE StopInv'
  BY <1>1 DEF Pci!WriteReset
<1>2. ASSUME Pci!ReadStatus PROVE StopInv'
  BY <1>2 DEF Pci!ReadStatus
<1>3. ASSUME Pci!WriteFeaturesOk PROVE StopInv'
  BY <1>3 DEF Pci!WriteFeaturesOk
<1>4. ASSUME Pci!WriteSize PROVE StopInv'
  BY <1>4 DEF Pci!WriteSize
<1>5. ASSUME Pci!WriteEnable PROVE StopInv'
  BY <1>5 DEF Pci!WriteEnable
<1>6. ASSUME Pci!WriteDisable PROVE StopInv'
  BY <1>6 DEF Pci!WriteDisable
<1>7. ASSUME Pci!WriteDriverOk PROVE StopInv'
  BY <1>7 DEF Pci!WriteDriverOk
<1>8. ASSUME Pci!Kick PROVE StopInv'
  BY <1>8 DEF Pci!Kick
<1>9. ASSUME Pci!MapBar PROVE StopInv'
  BY <1>9 DEF Pci!MapBar
<1>10. ASSUME Pci!UnmapBar PROVE StopInv'
  BY <1>10 DEF Pci!UnmapBar
<1>11. ASSUME Pci!DeviceReset PROVE StopInv'
  BY <1>11 DEF Pci!DeviceReset
<1>12. ASSUME Pci!DeviceEnable PROVE StopInv'
  BY <1>12 DEF Pci!DeviceEnable
<1>13. ASSUME Pci!DeviceDisable PROVE StopInv'
  BY <1>13 DEF Pci!DeviceDisable
<1>14. ASSUME Pci!JoinPump PROVE StopInv'
  BY <1>14 DEF Pci!JoinPump
<1>15. ASSUME Pci!PumpWake PROVE StopInv'
  BY <1>15 DEF Pci!PumpWake
<1>16. ASSUME NEW p \in {"vcpu", "pump"}, Pci!DrainLock(p) PROVE StopInv'
  BY <1>16 DEF Pci!DrainLock
<1>17. ASSUME NEW p \in {"vcpu", "pump"}, Pci!DrainPop(p) PROVE StopInv'
  BY <1>17 DEF Pci!DrainPop
<1>18. ASSUME NEW p \in {"vcpu", "pump"}, Pci!Raise(p) PROVE StopInv'
  BY <1>18 DEF Pci!Raise
<1>19. ASSUME Pci!Finish PROVE StopInv'
  BY <1>19 DEF Pci!Finish
<1>20. ASSUME Pci!WorkerRaise PROVE StopInv'
  BY <1>20 DEF Pci!WorkerRaise
<1>21. ASSUME Pci!StopBegin PROVE StopInv'
  BY <1>21 DEF Pci!StopBegin
<1>22. ASSUME Pci!StopDisable PROVE StopInv'
  BY <1>22 DEF Pci!StopDisable
<1>23. ASSUME UNCHANGED Pci!vars PROVE StopInv'
  BY <1>23 DEF Pci!vars
<1> QED
  BY <1>1, <1>2, <1>3, <1>4, <1>5, <1>6, <1>7, <1>8, <1>9, <1>10, <1>11,
     <1>12, <1>13, <1>14, <1>15, <1>16, <1>17, <1>18, <1>19, <1>20, <1>21,
     <1>22, <1>23
     DEF Pci!Next, Pci!Driver, Pci!Vcpu, Pci!Pump

-----------------------------------------------------------------------------
\* The parts are inductive together.
THEOREM TransportInvariance ==
  ASSUME Pci!TransportAssumption
  PROVE  Pci!Spec => []TransportInv
<1>1. Pci!Init => TransportInv
  <2> SUFFICES ASSUME Pci!Init PROVE TransportInv
    OBVIOUS
  <2> USE DEF Pci!TransportAssumption, Pci!Init, Pci!NoOne
  <2>1. avail \in 0..MaxRequests /\ live \in 0..MaxRequests /\ stale \in 0..MaxRequests
    OBVIOUS
  <2>2. {size, enable, ready, bar, event, stop_event} \subseteq BOOLEAN
    BY Zenon
  <2>3. Pci!TypeOK
    BY <2>1, <2>2 DEF Pci!TypeOK, Pci!Statuses
  <2>4. RingInv /\ LockInv /\ DriverInv /\ ResetInv /\ QueueInv /\ StopInv
    BY DEF RingInv, LockInv, DriverInv, ResetInv, QueueInv, StopInv
  <2> QED
    BY <2>3, <2>4 DEF TransportInv
<1>2. TransportInv /\ [Pci!Next]_(Pci!vars) => TransportInv'
  BY TransportTypeStep, LockStep, DriverStep, ResetStep, QueueStep, StopStep DEF TransportInv
<1> QED
  BY <1>1, <1>2, PTL DEF Pci!Spec

\* A driver that reads its reset as done meets none of its old requests, a queue
\* the device serves is one its registers call enabled, and after
\* PciTransport::stop nothing it drives runs, however register accesses, drains
\* and the device's own thread interleave.
THEOREM TransportKeepsItsWord ==
  ASSUME Pci!TransportAssumption
  PROVE  Pci!Spec => []Pci!TransportSafe
<1>1. TransportInv => Pci!TransportSafe
  BY DEF TransportInv, Pci!TypeOK, LockInv, DriverInv, ResetInv, QueueInv, StopInv, Pci!NoOne,
         Pci!TransportSafe, Pci!ResetIsHonest, Pci!RegistersMatchDevice, Pci!StopIsFinal
<1> QED
  BY <1>1, TransportInvariance, PTL

-----------------------------------------------------------------------------
(* ConsoleDevice: the bytes the guest has read, the ones in its buffers and  *)
(* the ones pending are, in that order, the last ones the reader forwarded;  *)
(* bytes that a buffer could take have a drain at work or a kick set.        *)

Drains == {"pop", "recheck", "done"}

ConsoleType ==
  /\ avail \in Nat /\ avail <= MaxPosts /\ taken \in Nat /\ taken <= avail /\ availEvent = taken
  /\ pc \in [Con!ConsoleThreads -> {"idle", "raise"} \cup Drains]
  /\ lock \in Con!ConsoleThreads \cup {Con!Unlocked} /\ txDone \in Nat /\ prints \in Nat /\ txDone <= prints
  /\ drvOk \in {"ok", "posted", "cleared", "down"} /\ stopping \in {"no", "asked", "now"}
  /\ escape \in BOOLEAN /\ armed \in BOOLEAN /\ ready \in BOOLEAN /\ kick \in BOOLEAN
  /\ irq \in BOOLEAN /\ any \in BOOLEAN

\* A drain holds the locks throughout.
DrainInv == \A t \in Con!ConsoleThreads : pc[t] \in Drains <=> lock = t

\* The bytes of s are the last ones forwarded, in order.
Last(s, n) == \A i \in 1 .. Len(s) : s[i] = n - Len(s) + i
ByteInv ==
  /\ read \in Seq(Nat) /\ filled \in Seq(Nat) /\ pending \in Seq(Nat) /\ forwarded \in Nat
  /\ Last(pending, forwarded)
  /\ drvOk # "cleared" => Last((read \o filled) \o pending, forwarded)

\* Bytes that a buffer could take have a drain at work, or a kick set or about to be.
BufferInv ==
  /\ drvOk = "down" => avail = taken
  /\ pending # <<>> /\ ready /\ taken < avail /\ (\A t \in Con!ConsoleThreads : pc[t] \notin {"pop", "recheck"})
       => kick \/ (drvOk = "posted" /\ taken = avail - 1)

\* A used buffer has its interrupt raised, on its way, or due at the drain's end.
Raising == irq \/ \E t \in Con!ConsoleThreads : pc[t] = "raise"
ConsoleIrqInv ==
  /\ ~armed => Raising
  /\ filled # <<>> => Raising \/ (lock # Con!Unlocked /\ any)

ConsoleInv == ConsoleType /\ DrainInv /\ ByteInv /\ BufferInv /\ ConsoleIrqInv

-----------------------------------------------------------------------------
LEMMA ConsoleControl ==
  ASSUME Con!ConsoleAssumption, ConsoleType, DrainInv, [Con!Next]_(Con!vars)
  PROVE  ConsoleType' /\ DrainInv'
<1> USE DEF ConsoleType, DrainInv, Drains, Con!ConsoleThreads, Con!Unlocked, Con!At, Con!Goto,
       Con!rx, Con!host, Con!tx, Con!run
<1>0. MaxPosts \in Nat
  BY DEF Con!ConsoleAssumption
<1>1. CASE Con!TypeByte
  BY <1>1 DEF Con!TypeByte
<1>2. CASE Con!CtrlA
  BY <1>2 DEF Con!CtrlA
<1>3. CASE Con!LiteralCtrlA
  BY <1>3 DEF Con!LiteralCtrlA
<1>4. ASSUME NEW key, Con!HostKey(key) PROVE ConsoleType' /\ DrainInv'
  BY <1>4 DEF Con!HostKey
<1>5. CASE Con!Notify
  BY <1>5 DEF Con!Notify
<1>6. CASE Con!DrainTx
  BY <1>6 DEF Con!DrainTx
<1>7. CASE Con!Post
  BY <1>0, <1>7 DEF Con!Post
<1>8. CASE Con!Kick
  BY <1>8 DEF Con!Kick
<1>9. CASE Con!ReadAll
  BY <1>9 DEF Con!ReadAll
<1>10. CASE Con!PrintLine
  BY <1>10 DEF Con!PrintLine
<1>11. CASE Con!ResetPending
  BY <1>11 DEF Con!ResetPending
<1>12. CASE Con!ResetQueues
  <2>1. /\ drvOk' = "down" /\ ready' = FALSE /\ avail' = 0 /\ taken' = 0 /\ availEvent' = 0
        /\ armed' = TRUE /\ prints' = 0 /\ txDone' = 0
        /\ UNCHANGED <<pc, lock, stopping, escape, kick, irq, any>>
    BY <1>12 DEF Con!ResetQueues
  <2>2. armed' \in BOOLEAN /\ ready' \in BOOLEAN
    BY <2>1, Zenon
  <2>3. UNCHANGED <<pc, lock, stopping, escape, kick, irq, any>>
    BY <2>1
  <2>4. drvOk' = "down" /\ avail' = 0 /\ taken' = 0 /\ availEvent' = 0 /\ prints' = 0 /\ txDone' = 0
    BY <2>1
  <2> QED
    BY ONLY <1>0, <2>2, <2>3, <2>4, ConsoleType, DrainInv
<1>13. CASE Con!Enable
  BY <1>13 DEF Con!Enable
<1>14. ASSUME NEW t \in Con!ConsoleThreads, Con!DrainRx(t) PROVE ConsoleType' /\ DrainInv'
  BY <1>14 DEF Con!DrainRx
<1>15. ASSUME NEW t \in Con!ConsoleThreads, Con!DrainDry(t) PROVE ConsoleType' /\ DrainInv'
  BY <1>15 DEF Con!DrainDry
<1>16. ASSUME NEW t \in Con!ConsoleThreads, Con!DrainRecheck(t) \/ Con!DrainEmpty(t)
       PROVE  ConsoleType' /\ DrainInv'
  BY <1>16 DEF Con!DrainRecheck, Con!DrainEmpty
<1>17. ASSUME NEW t \in Con!ConsoleThreads, Con!DrainEnd(t) PROVE ConsoleType' /\ DrainInv'
  BY ZenonT(60), <1>17 DEF Con!DrainEnd
<1>18. ASSUME NEW t \in Con!ConsoleThreads, Con!Raise(t) PROVE ConsoleType' /\ DrainInv'
  BY <1>18 DEF Con!Raise
<1>19. CASE UNCHANGED Con!vars
  BY <1>19 DEF Con!vars
<1> QED
  BY <1>1, <1>2, <1>3, <1>4, <1>5, <1>6, <1>7, <1>8, <1>9, <1>10, <1>11, <1>12, <1>13, <1>14, <1>15,
     <1>16, <1>17, <1>18, <1>19 DEF Con!Next, Con!HostStep, Con!Driver, Con!DrainStep

-----------------------------------------------------------------------------
\* A byte more is the last one.
LEMMA LastAppend ==
  ASSUME NEW s \in Seq(Nat), NEW n \in Nat, Last(s, n)
  PROVE  Append(s, n + 1) \in Seq(Nat) /\ Last(Append(s, n + 1), n + 1)
<1> DEFINE x == Append(s, n + 1)
<1>1. x \in Seq(Nat) /\ Len(x) = Len(s) + 1 /\ (\A i \in 1 .. Len(s) : x[i] = s[i]) /\ x[Len(s) + 1] = n + 1
      /\ Len(s) \in Nat
  OBVIOUS
<1> HIDE DEF x
<1>2. ASSUME NEW i \in 1 .. Len(x) PROVE x[i] = (n + 1) - Len(x) + i
  <2>1. CASE i \in 1 .. Len(s)
    <3>1. s[i] = n - Len(s) + i
      BY <2>1 DEF Last
    <3> QED
      BY <1>1, <2>1, <3>1
  <2>2. CASE i = Len(s) + 1
    BY <1>1, <2>2
  <2> QED
    BY <1>1, <2>1, <2>2
<1> QED
  BY <1>1, <1>2 DEF Last, x

\* A sequence cut in two.
LEMMA Cut ==
  ASSUME NEW s \in Seq(Nat), NEW n \in 0 .. Len(s)
  PROVE  /\ SubSeq(s, 1, n) \in Seq(Nat) /\ SubSeq(s, n + 1, Len(s)) \in Seq(Nat)
         /\ SubSeq(s, 1, n) \o SubSeq(s, n + 1, Len(s)) = s
         /\ \A m \in Nat : Last(s, m) => Last(SubSeq(s, n + 1, Len(s)), m)
<1> DEFINE a == SubSeq(s, 1, n)
           b == SubSeq(s, n + 1, Len(s))
<1>1. Len(s) \in Nat /\ n \in Nat /\ n <= Len(s) /\ \A i \in 1 .. Len(s) : s[i] \in Nat
  OBVIOUS
<1>2. a \in Seq(Nat) /\ Len(a) = n /\ \A i \in 1 .. n : a[i] = s[i]
  <2>1. \A i \in 1 .. n : s[i] \in Nat
    BY <1>1
  <2>2. Len(a) = IF 1 <= n THEN n - 1 + 1 ELSE 0
    BY <2>1, <1>1, SubSeqProperties
  <2>3. \A i \in 1 .. n - 1 + 1 : a[i] = s[1 + i - 1]
    BY <2>1, <1>1, SubSeqProperties
  <2>4. a \in Seq(Nat)
    BY <2>1, <1>1, SubSeqProperties
  <2> QED
    BY <2>2, <2>3, <2>4, <1>1
<1>3. b \in Seq(Nat) /\ Len(b) = Len(s) - n /\ \A i \in 1 .. Len(s) - n : b[i] = s[n + i]
  <2>1. \A i \in n + 1 .. Len(s) : s[i] \in Nat
    BY <1>1
  <2>2. Len(b) = IF n + 1 <= Len(s) THEN Len(s) - (n + 1) + 1 ELSE 0
    BY <2>1, <1>1, SubSeqProperties
  <2>3. \A i \in 1 .. Len(s) - (n + 1) + 1 : b[i] = s[(n + 1) + i - 1]
    BY <2>1, <1>1, SubSeqProperties
  <2>4. b \in Seq(Nat)
    BY <2>1, <1>1, SubSeqProperties
  <2> QED
    BY <2>2, <2>3, <2>4, <1>1
<1> HIDE DEF a, b
<1>4. a \o b \in Seq(Nat) /\ Len(a \o b) = Len(s)
      /\ \A i \in 1 .. Len(s) : (a \o b)[i] = IF i <= n THEN a[i] ELSE b[i - n]
  BY SMTT(60), <1>1, <1>2, <1>3
<1>5. \A i \in 1 .. Len(s) : (a \o b)[i] = s[i]
  <2> SUFFICES ASSUME NEW i \in 1 .. Len(s) PROVE (a \o b)[i] = s[i]
    OBVIOUS
  <2>1. CASE i <= n
    BY <2>1, <1>1, <1>2, <1>4
  <2>2. CASE i > n
    <3>1. i - n \in 1 .. Len(s) - n /\ n + (i - n) = i
      BY <2>2, <1>1
    <3>2. b[i - n] = s[n + (i - n)]
      BY <3>1, <1>3
    <3> QED
      BY <2>2, <1>1, <1>4, <3>1, <3>2
  <2>3. i <= n \/ i > n
    BY <1>1
  <2> QED
    BY <2>1, <2>2, <2>3
<1>6. a \o b = s
  BY <1>4, <1>5, SeqEqual
<1>7. ASSUME NEW m \in Nat, Last(s, m) PROVE Last(b, m)
  <2> SUFFICES ASSUME NEW i \in 1 .. Len(b) PROVE b[i] = m - Len(b) + i
    BY DEF Last
  <2>1. n + i \in 1 .. Len(s) /\ b[i] = s[n + i]
    BY <1>1, <1>3
  <2>2. s[n + i] = m - Len(s) + (n + i)
    BY <1>7, <2>1 DEF Last
  <2> QED
    BY <2>1, <2>2, <1>1, <1>3
<1> QED
  BY <1>2, <1>3, <1>6, <1>7 DEF a, b

LEMMA ConsoleBytes ==
  ASSUME Con!ConsoleAssumption, ConsoleType, DrainInv, ByteInv, [Con!Next]_(Con!vars)
  PROVE  ByteInv'
<1> DEFINE all == (read \o filled) \o pending
<1>t. /\ read \in Seq(Nat) /\ filled \in Seq(Nat) /\ pending \in Seq(Nat) /\ forwarded \in Nat
      /\ all \in Seq(Nat) /\ read \o filled \in Seq(Nat) /\ Last(pending, forwarded)
      /\ (drvOk # "cleared" => Last(all, forwarded))
  BY DEF ByteInv
<1>e. \A s \in Seq(Nat) : s \o <<>> = s /\ <<>> \o s = s
  OBVIOUS
<1>0. ASSUME NEW a \in Seq(Nat), NEW b \in Seq(Nat), NEW c \in Seq(Nat)
      PROVE  (a \o b) \o c = a \o (b \o c)
  BY SMTT(60)
<1>1. CASE Con!TypeByte \/ Con!LiteralCtrlA
  <2>1. pending' = Append(pending, forwarded + 1) /\ forwarded' = forwarded + 1
        /\ UNCHANGED <<read, filled, drvOk>>
    BY <1>1 DEF Con!TypeByte, Con!LiteralCtrlA, Con!rx
  <2>2. pending' \in Seq(Nat) /\ Last(pending', forwarded')
    BY <2>1, <1>t, LastAppend
  <2>3. (read \o filled) \o pending' = Append(all, forwarded + 1)
    BY SMTT(60), <2>1, <1>t
  <2>4. drvOk # "cleared" => Last(Append(all, forwarded + 1), forwarded + 1)
    BY <1>t, LastAppend
  <2>5. drvOk' # "cleared" => Last((read' \o filled') \o pending', forwarded')
    BY <2>1, <2>3, <2>4
  <2> QED
    BY <2>1, <2>2, <2>5, <1>t DEF ByteInv
<1>2. ASSUME NEW t \in Con!ConsoleThreads, Con!DrainRx(t) PROVE ByteInv'
  <2> DEFINE n == Con!Min2(Room, Len(pending))
             x == SubSeq(pending, 1, n)
             y == SubSeq(pending, n + 1, Len(pending))
  <2>1. filled' = filled \o x /\ pending' = y /\ UNCHANGED <<read, forwarded, drvOk>>
    BY <1>2 DEF Con!DrainRx, Con!host
  <2>2. n \in 0 .. Len(pending)
    BY <1>t DEF Con!Min2, Con!ConsoleAssumption
  <2> HIDE DEF n
  <2>3. x \in Seq(Nat) /\ y \in Seq(Nat) /\ x \o y = pending /\ Last(y, forwarded)
    BY <1>t, <2>2, Cut
  <2> HIDE DEF x, y
  <2>4. filled \o x \in Seq(Nat)
    BY <1>t, <2>3
  <2>5. (read \o (filled \o x)) \o y = all
    <3> USE <1>t, <2>3
    <3>1. read \o (filled \o x) = (read \o filled) \o x
      BY ONLY SMTT(60), read \in Seq(Nat), filled \in Seq(Nat), x \in Seq(Nat), y \in Seq(Nat)
    <3>2. ((read \o filled) \o x) \o y = (read \o filled) \o (x \o y)
      BY ONLY SMTT(60), read \in Seq(Nat), filled \in Seq(Nat), x \in Seq(Nat), y \in Seq(Nat)
    <3> QED
      BY <3>1, <3>2, <2>3
  <2> QED
    BY <2>1, <2>3, <2>4, <2>5, <1>t DEF ByteInv
<1>3. CASE Con!ReadAll
  <2>1. drvOk = "ok" /\ read' = read \o filled /\ filled' = <<>> /\ UNCHANGED <<pending, forwarded, drvOk>>
    BY <1>3 DEF Con!ReadAll, Con!host
  <2>2. (read' \o filled') \o pending' = all
    BY <2>1, <1>t, <1>e
  <2> QED
    BY <2>1, <2>2, <1>t DEF ByteInv
<1>4. CASE Con!ResetPending
  BY <1>4, <1>t DEF Con!ResetPending, Con!rx, Con!host, ByteInv, Last
<1>5. CASE Con!ResetQueues
  <2>1. /\ read' = <<>> /\ filled' = <<>> /\ UNCHANGED <<pending, forwarded>>
    BY <1>5 DEF Con!ResetQueues, Con!host
  <2>2. (read' \o filled') \o pending' = pending
    BY <2>1, <1>t, <1>e
  <2> QED
    BY <2>1, <2>2, <1>t DEF ByteInv
<1>6. CASE Con!Kick \/ Con!Enable \/ Con!Post
  <2>1. drvOk # "cleared" /\ UNCHANGED <<read, filled, pending, forwarded>>
    BY <1>6 DEF Con!Kick, Con!Enable, Con!Post, Con!rx, Con!host
  <2> QED
    BY <2>1 DEF ByteInv
<1>7. CASE UNCHANGED <<read, filled, pending, forwarded, drvOk>>
  BY <1>7 DEF ByteInv
<1>8. \/ Con!TypeByte \/ Con!LiteralCtrlA \/ Con!ReadAll \/ Con!ResetPending \/ Con!ResetQueues \/ Con!Kick \/ Con!Enable \/ Con!Post
      \/ (\E t \in Con!ConsoleThreads : Con!DrainRx(t)) \/ UNCHANGED <<read, filled, pending, forwarded, drvOk>>
  BY DEF Con!Next, Con!HostStep, Con!Driver, Con!DrainStep, Con!CtrlA, Con!HostKey, Con!Notify,
     Con!DrainTx, Con!PrintLine, Con!DrainDry, Con!DrainRecheck,
         Con!DrainEmpty, Con!DrainEnd, Con!Raise, Con!vars, Con!rx, Con!host
<1> QED
  BY <1>1, <1>2, <1>3, <1>4, <1>5, <1>6, <1>7, <1>8

LEMMA ConsoleBuffers ==
  ASSUME Con!ConsoleAssumption, ConsoleType, DrainInv, BufferInv, ConsoleIrqInv, ConsoleType',
         DrainInv', [Con!Next]_(Con!vars)
  PROVE  BufferInv' /\ ConsoleIrqInv'
<1> USE DEF ConsoleType, DrainInv, BufferInv, ConsoleIrqInv, Raising, Drains, Con!ConsoleThreads,
       Con!Unlocked, Con!At, Con!Goto, Con!rx, Con!host, Con!tx, Con!run
<1>1. CASE Con!TypeByte
  BY <1>1 DEF Con!TypeByte
<1>2. CASE Con!CtrlA
  BY <1>2 DEF Con!CtrlA
<1>3. CASE Con!LiteralCtrlA
  BY <1>3 DEF Con!LiteralCtrlA
<1>4. ASSUME NEW key, Con!HostKey(key) PROVE BufferInv' /\ ConsoleIrqInv'
  BY <1>4 DEF Con!HostKey
<1>5. CASE Con!Notify
  BY <1>5 DEF Con!Notify
<1>6. CASE Con!DrainTx
  BY <1>6 DEF Con!DrainTx
<1>7. CASE Con!Post
  BY <1>7 DEF Con!Post
<1>8. CASE Con!Kick
  BY <1>8 DEF Con!Kick
<1>9. CASE Con!ReadAll
  BY <1>9 DEF Con!ReadAll
<1>10. CASE Con!PrintLine
  BY <1>10 DEF Con!PrintLine
<1>11. CASE Con!ResetPending
  BY <1>11 DEF Con!ResetPending
<1>12. CASE Con!ResetQueues
  BY <1>12 DEF Con!ResetQueues
<1>13. CASE Con!Enable
  BY <1>13 DEF Con!Enable
<1>14. ASSUME NEW t \in Con!ConsoleThreads, Con!DrainRx(t) PROVE BufferInv' /\ ConsoleIrqInv'
  BY <1>14 DEF Con!DrainRx
<1>15. ASSUME NEW t \in Con!ConsoleThreads, Con!DrainDry(t) PROVE BufferInv' /\ ConsoleIrqInv'
  BY <1>15 DEF Con!DrainDry
<1>16. ASSUME NEW t \in Con!ConsoleThreads, Con!DrainRecheck(t) \/ Con!DrainEmpty(t)
       PROVE  BufferInv' /\ ConsoleIrqInv'
  BY ZenonT(60), <1>16 DEF Con!DrainRecheck, Con!DrainEmpty
<1>17. ASSUME NEW t \in Con!ConsoleThreads, Con!DrainEnd(t) PROVE BufferInv' /\ ConsoleIrqInv'
  BY <1>17 DEF Con!DrainEnd
<1>18. ASSUME NEW t \in Con!ConsoleThreads, Con!Raise(t) PROVE BufferInv' /\ ConsoleIrqInv'
  BY <1>18 DEF Con!Raise
<1>19. CASE UNCHANGED Con!vars
  BY <1>19 DEF Con!vars
<1> QED
  BY <1>1, <1>2, <1>3, <1>4, <1>5, <1>6, <1>7, <1>8, <1>9, <1>10, <1>11, <1>12, <1>13, <1>14, <1>15,
     <1>16, <1>17, <1>18, <1>19 DEF Con!Next, Con!HostStep, Con!Driver, Con!DrainStep

\* What is typed at the console arrives: the bytes the guest reads are the ones
\* forwarded, in order and none twice, none waits beside a free buffer with no
\* drain and no kick to come, and every used buffer has its interrupt.
THEOREM TypedBytesArrive ==
  ASSUME Con!ConsoleAssumption
  PROVE  Con!Spec => [](Con!TypeOK /\ Con!TypedArrives)
<1>1. Con!Init => ConsoleInv
  <2> SUFFICES ASSUME Con!Init PROVE ConsoleInv
    OBVIOUS
  <2>0. MaxPosts \in Nat
    BY DEF Con!ConsoleAssumption
  <2>1. ConsoleType /\ DrainInv /\ BufferInv /\ ConsoleIrqInv
    <3> USE DEF Drains, Con!ConsoleThreads, Con!Unlocked
    <3>1. ConsoleType
      <4>1. escape \in BOOLEAN /\ armed \in BOOLEAN /\ ready \in BOOLEAN /\ kick \in BOOLEAN
            /\ irq \in BOOLEAN /\ any \in BOOLEAN
        BY Zenon DEF Con!Init
      <4>2. avail = 0 /\ taken = 0 /\ availEvent = 0 /\ prints = 0 /\ txDone = 0 /\ lock = "none"
            /\ stopping = "no" /\ drvOk = "ok" /\ pc = [t \in Con!ConsoleThreads |-> "idle"]
        BY DEF Con!Init
      <4> QED
        BY ONLY <2>0, <4>1, <4>2 DEF ConsoleType, Drains, Con!ConsoleThreads, Con!Unlocked
    <3>2. DrainInv /\ BufferInv /\ ConsoleIrqInv
      BY DEF Con!Init, DrainInv, BufferInv, ConsoleIrqInv, Raising
    <3> QED
      BY <3>1, <3>2
  <2>2. ByteInv
    <3>1. <<>> \in Seq(Nat) /\ Len(<<>>) = 0 /\ (<<>> \o <<>>) \o <<>> = <<>>
      OBVIOUS
    <3> QED
      BY <3>1 DEF Con!Init, ByteInv, Last
  <2> QED
    BY <2>1, <2>2 DEF ConsoleInv
<1>2. ConsoleInv /\ [Con!Next]_(Con!vars) => ConsoleInv'
  BY ConsoleControl, ConsoleBytes, ConsoleBuffers DEF ConsoleInv
<1>3. ConsoleInv => Con!TypeOK /\ Con!TypedArrives
  <2> SUFFICES ASSUME ConsoleInv PROVE Con!TypeOK /\ Con!TypedArrives
    OBVIOUS
  <2>1. Con!TypeOK
    BY DEF ConsoleInv, ConsoleType, Con!TypeOK
  <2>2. drvOk # "cleared" => LET all == read \o filled \o pending IN
                               \A i \in 1..Len(all): all[i] = forwarded - Len(all) + i
    BY DEF ConsoleInv, ByteInv, Last
  <2>3. (\A t \in Con!ConsoleThreads: Con!At(t, "idle")) /\ drvOk = "ok" /\ ~kick =>
          /\ pending # <<>> => ~ready \/ avail = taken
          /\ filled # <<>> => irq
    BY DEF ConsoleInv, ConsoleType, BufferInv, ConsoleIrqInv, Raising, DrainInv, Drains,
       Con!ConsoleThreads, Con!Unlocked, Con!At
  <2> QED
    BY <2>1, <2>2, <2>3 DEF Con!TypedArrives
<1> QED
  BY <1>1, <1>2, <1>3, PTL DEF Con!Spec

-----------------------------------------------------------------------------
(* SndDevice: a period that was taken and not completed is the one in the    *)
(* worker's hand, or was when a snapshot was taken; a worker that waits while *)
(* its stream runs has its wake set; a device that is off has no queue.      *)

SndState ==
  /\ running \in [Streams -> BOOLEAN] /\ wake \in [Streams -> BOOLEAN]
  /\ ready \in [Streams -> BOOLEAN] /\ signal \in [Streams -> BOOLEAN]
  /\ posted \in [Streams -> Nat] /\ taken \in [Streams -> Nat] /\ done \in [Streams -> Nat]
  /\ left \in [Streams -> Nat] /\ lost \in [Streams -> Nat]
  /\ worker \in [Streams -> {"top", "wait", "open", "paced", "fill", "exit"}]
  /\ now \in Nat /\ consumed \in Nat /\ consumed <= now

\* A period taken and not completed is the one in hand, or was at a snapshot.
Balanced(p, t, d, l, o) ==
  /\ p <= MaxPeriods /\ t <= p /\ d <= t /\ l <= PeriodFrames
  /\ t - d = o + (IF l > 0 THEN 1 ELSE 0)
PeriodInv ==
  \A s \in Streams :
    /\ Balanced(posted[s], taken[s], done[s], left[s], lost[s])
    /\ s \in released => done[s] = posted[s] - lost[s]
WakeInv == \A s \in Streams : worker[s] = "wait" /\ running[s] => wake[s]
OffInv ==
  /\ vm \in {"resets", "stopping", "off"} => ctrl = Snd!Idle
  /\ vm = "off" => \A s \in Streams : ~ready[s]

SndInv == SndState /\ PeriodInv /\ WakeInv /\ OffInv

-----------------------------------------------------------------------------
LEMMA Sizes ==
  ASSUME Snd!SndAssumption
  PROVE  /\ PeriodFrames \in Nat \ {0} /\ MaxTick \in Nat \ {0} /\ MaxCatchup \in Nat \ {0}
         /\ MaxPeriods \in Nat /\ MaxControls \in Nat
BY DEF Snd!SndAssumption

LEMMA Quotient ==
  ASSUME NEW P \in Nat \ {0}, NEW m \in Nat
  PROVE  m \div P \in Int /\ P * (m \div P) <= m /\ m < P * (m \div P) + P
OBVIOUS

\* The k periods that n frames need beyond the l at hand are among the q there are,
\* and leave less than one.
Needed(P, l, q, n, k) ==
  /\ P \in Nat \ {0} /\ l \in Nat /\ q \in Nat /\ n \in Nat /\ l <= P /\ n <= l + P * q
  /\ k = IF n <= l THEN 0 ELSE (n - l + P - 1) \div P
Enough(P, l, q, n, k) ==
  /\ k \in Nat /\ k <= q /\ l + k * P - n \in Nat /\ l + k * P - n <= P
  /\ k = 0 /\ l = 0 => n = 0
LEMMA PeriodsNeeded ==
  ASSUME NEW P, NEW l, NEW q, NEW n, NEW k, Needed(P, l, q, n, k)
  PROVE  Enough(P, l, q, n, k)
<1> USE DEF Needed, Enough
<1>1. CASE n <= l
  BY <1>1
<1>2. CASE ~(n <= l)
  <2> DEFINE m == n - l + P - 1
  <2>1. m \in Nat /\ k = m \div P /\ m >= P
    BY <1>2
  <2>2. k \in Int /\ P * k <= m /\ m < P * k + P
    <3> HIDE DEF m
    <3> QED  BY <2>1, Quotient
  <2>3. k >= 1
    <3>1. ASSUME k <= 0 PROVE FALSE
      <4>1. P * k <= 0
        BY <2>2, <3>1
      <4> QED  BY <4>1, <2>1, <2>2
    <3> QED  BY <3>1, <2>2
  <2>4. k <= q
    <3>1. ASSUME k >= q + 1 PROVE FALSE
      <4>1. P * k >= P * (q + 1)
        BY <2>2, <3>1
      <4>2. P * (q + 1) = P * q + P /\ P * q \in Nat
        OBVIOUS
      <4>3. P * k \in Int
        BY <2>2
      <4> HIDE DEF m
      <4>4. m <= P * q + P - 1
        BY <1>2, <4>2 DEF m
      <4> QED  BY <4>1, <4>2, <4>3, <4>4, <2>1, <2>2
    <3> QED  BY <3>1, <2>2
  <2>5. k * P = P * k /\ P * k \in Int
    BY <2>2
  <2> QED  BY <2>2, <2>3, <2>4, <2>5
<1> QED  BY <1>1, <1>2

\* Taking frames that are there leaves the stream's account in balance, and
\* leaves a released stream, which has none, alone.
LEMMA TakeOk ==
  ASSUME Snd!SndAssumption, SndState, PeriodInv, NEW s \in Streams, NEW n \in Nat,
         n <= Snd!Available(s), Snd!Take(s, n)
  PROVE  /\ taken' \in [Streams -> Nat] /\ done' \in [Streams -> Nat] /\ left' \in [Streams -> Nat]
         /\ signal' \in [Streams -> BOOLEAN]
         /\ \A r \in Streams : Balanced(posted[r], taken'[r], done'[r], left'[r], lost[r])
         /\ \A r \in Streams : r \in released => done'[r] = posted[r] - lost[r]
<1> DEFINE P == PeriodFrames
           k == Snd!Popped(s, n)
           rest == left[s] + k * P - n
           held == IF left[s] > 0 THEN 1 ELSE 0
           more == IF rest > 0 THEN 1 ELSE 0
           completed == held + k - more
           q == posted[s] - taken[s]
<1>1. P \in Nat \ {0} /\ left[s] \in Nat /\ left[s] <= P /\ q \in Nat /\ n <= left[s] + P * q
  BY Sizes DEF SndState, PeriodInv, Balanced, Snd!Available
<1>2. k = IF n <= left[s] THEN 0 ELSE (n - left[s] + P - 1) \div P
  BY DEF Snd!Popped
<1>3. /\ k \in Nat /\ k <= q /\ rest \in Nat /\ rest <= P
      /\ k = 0 /\ left[s] = 0 => n = 0
  <2> HIDE DEF P, k, q
  <2>1. Needed(P, left[s], q, n, k)
    BY <1>1, <1>2 DEF Needed
  <2>2. Enough(P, left[s], q, n, k)
    BY <2>1, PeriodsNeeded
  <2> QED  BY <2>2 DEF Enough
<1>4. /\ taken' = [taken EXCEPT ![s] = taken[s] + k] /\ done' = [done EXCEPT ![s] = done[s] + completed]
      /\ left' = [left EXCEPT ![s] = rest] /\ signal' = [signal EXCEPT ![s] = signal[s] \/ completed > 0]
  BY DEF Snd!Take
<1>5. signal' \in [Streams -> BOOLEAN]
  <2>1. (signal[s] \/ completed > 0) \in BOOLEAN
    OBVIOUS
  <2> HIDE DEF completed
  <2> QED  BY <1>4, <2>1 DEF SndState
<1>6. held \in {0, 1} /\ more \in {0, 1} /\ (held = 0 <=> left[s] = 0) /\ (more = 0 <=> rest = 0)
  BY <1>1, <1>3
<1>7. completed \in Nat
  <2>1. CASE held = 1
    <3> HIDE DEF held, more, rest, k
    <3> QED  BY <2>1, <1>3, <1>6
  <2>2. CASE held = 0 /\ k # 0
    <3> HIDE DEF held, more, rest, k
    <3> QED  BY <2>2, <1>3, <1>6
  <2>3. CASE held = 0 /\ k = 0
    <3>1. left[s] = 0 /\ n = 0
      BY <2>3, <1>3, <1>6
    <3>2. rest = 0
      <4> HIDE DEF k
      <4> QED  BY <2>3, <3>1, <1>1
    <3>3. more = 0
      BY <3>2, <1>6
    <3> HIDE DEF held, more, rest, k
    <3> QED  BY <2>3, <3>3
  <2> QED  BY <2>1, <2>2, <2>3, <1>3, <1>6
<1>8. taken[s] \in Nat /\ done[s] \in Nat /\ posted[s] \in Nat /\ lost[s] \in Nat /\ posted[s] <= MaxPeriods
      /\ MaxPeriods \in Nat /\ taken[s] <= posted[s] /\ taken[s] - done[s] = lost[s] + held
  BY Sizes DEF SndState, PeriodInv, Balanced
<1>9. Balanced(posted[s], taken[s] + k, done[s] + completed, rest, lost[s])
  <2>1. lost[s] + more = (taken[s] + k) - (done[s] + completed)
    <3> HIDE DEF held, more, rest, k
    <3> QED  BY <1>3, <1>6, <1>8
  <2>2. done[s] + completed <= taken[s] + k
    <3> HIDE DEF held, more, rest, k, completed
    <3> QED  BY <1>3, <1>6, <1>7, <1>8, <2>1
  <2>3. taken[s] + k <= posted[s]
    <3> HIDE DEF k
    <3> QED  BY <1>3, <1>8
  <2>4. (taken[s] + k) - (done[s] + completed) = lost[s] + (IF rest > 0 THEN 1 ELSE 0)
    BY <2>1
  <2> HIDE DEF k, completed, rest
  <2> QED  BY <1>3, <1>8, <2>2, <2>3, <2>4 DEF Balanced
<1>10. ASSUME s \in released PROVE completed = 0
  <2>1. held = 0 /\ q = 0
    <3>1. taken[s] = posted[s] + held
      <4> HIDE DEF held
      <4> QED  BY <1>6, <1>8, <1>10 DEF PeriodInv
    <3> HIDE DEF held
    <3> QED  BY <3>1, <1>6, <1>8
  <2>2. k = 0
    <3> HIDE DEF k, q
    <3> QED  BY <2>1, <1>3
  <2>3. n = 0 /\ left[s] = 0
    BY <2>1, <2>2, <1>3, <1>6
  <2>4. rest = 0
    <3> HIDE DEF k
    <3> QED  BY <2>2, <2>3, <1>1
  <2>5. more = 0
    BY <2>4
  <2> HIDE DEF held, more, k
  <2> QED  BY <2>1, <2>2, <2>5
<1>11. taken' \in [Streams -> Nat] /\ done' \in [Streams -> Nat] /\ left' \in [Streams -> Nat]
  <2>1. taken[s] + k \in Nat /\ done[s] + completed \in Nat
    <3> HIDE DEF k, completed
    <3> QED  BY <1>3, <1>7, <1>8
  <2> HIDE DEF k, completed, rest
  <2> QED  BY <2>1, <1>3, <1>4 DEF SndState
<1>12. ASSUME NEW r \in Streams
       PROVE  /\ Balanced(posted[r], taken'[r], done'[r], left'[r], lost[r])
              /\ r \in released => done'[r] = posted[r] - lost[r]
  <2> HIDE DEF k, completed, rest
  <2>1. CASE r = s
    <3>1. taken'[r] = taken[s] + k /\ done'[r] = done[s] + completed /\ left'[r] = rest
      BY <2>1, <1>4 DEF SndState
    <3> QED  BY <2>1, <3>1, <1>8, <1>9, <1>10 DEF PeriodInv
  <2>2. CASE r # s
    <3>1. taken'[r] = taken[r] /\ done'[r] = done[r] /\ left'[r] = left[r]
      BY <2>2, <1>4 DEF SndState
    <3> QED  BY <3>1 DEF PeriodInv
  <2> QED  BY <2>1, <2>2
<1> HIDE DEF k, completed, rest
<1> QED  BY <1>5, <1>11, <1>12

\* What fill_playback, push_capture and fill_capture_silence leave.
Filled ==
  /\ taken' \in [Streams -> Nat] /\ done' \in [Streams -> Nat] /\ left' \in [Streams -> Nat]
  /\ signal' \in [Streams -> BOOLEAN]
  /\ \A r \in Streams : Balanced(posted[r], taken'[r], done'[r], left'[r], lost[r])
  /\ \A r \in Streams : r \in released => done'[r] = posted[r] - lost[r]

LEMMA AvailableIsNat ==
  ASSUME Snd!SndAssumption, SndState, PeriodInv, NEW s \in Streams
  PROVE  Snd!Available(s) \in Nat
<1>1. PeriodFrames \in Nat /\ left[s] \in Nat /\ posted[s] - taken[s] \in Nat
  BY Sizes DEF SndState, PeriodInv, Balanced
<1>2. PeriodFrames * (posted[s] - taken[s]) \in Nat
  BY <1>1
<1> QED  BY <1>1, <1>2 DEF Snd!Available

LEMMA SameIsFilled ==
  ASSUME SndState, PeriodInv, UNCHANGED <<taken, done, left, signal>>
  PROVE  Filled
BY DEF SndState, PeriodInv, Filled

LEMMA FillOk ==
  ASSUME Snd!SndAssumption, SndState, PeriodInv, NEW s \in Streams, NEW n \in Nat, Snd!Fill(s, n)
  PROVE  Filled
<1>1. CASE ready[s]
  <2>1. Snd!Least(n, Snd!Available(s)) \in Nat /\ Snd!Least(n, Snd!Available(s)) <= Snd!Available(s)
    BY AvailableIsNat DEF Snd!Least
  <2>2. Snd!Take(s, Snd!Least(n, Snd!Available(s)))
    BY <1>1 DEF Snd!Fill
  <2> QED  BY <2>1, <2>2, TakeOk DEF Filled
<1>2. CASE ~ready[s]
  BY <1>2, SameIsFilled DEF Snd!Fill
<1> QED  BY <1>1, <1>2

LEMMA SilenceOk ==
  ASSUME Snd!SndAssumption, SndState, PeriodInv, NEW s \in Streams, Snd!FillSilence(s)
  PROVE  Filled
<1> DEFINE n == IF left[s] > 0 THEN left[s] ELSE PeriodFrames
<1>1. CASE ready[s] /\ Snd!Available(s) > 0
  <2>1. Snd!Take(s, n)
    BY <1>1 DEF Snd!FillSilence
  <2>2. n \in Nat /\ n <= Snd!Available(s)
    <3>1. PICK q \in Nat : q = posted[s] - taken[s]
      BY DEF SndState, PeriodInv, Balanced
    <3>2. PeriodFrames \in Nat /\ left[s] \in Nat /\ Snd!Available(s) = left[s] + PeriodFrames * q
      BY <3>1, Sizes DEF SndState, Snd!Available
    <3>3. PeriodFrames * q \in Nat /\ (q >= 1 => PeriodFrames * q >= PeriodFrames) /\ PeriodFrames * 0 = 0
      BY <3>2
    <3> QED  BY <1>1, <3>1, <3>2, <3>3
  <2> HIDE DEF n
  <2> QED  BY <2>1, <2>2, TakeOk DEF Filled
<1>2. CASE ~(ready[s] /\ Snd!Available(s) > 0)
  BY <1>2, SameIsFilled DEF Snd!FillSilence
<1> QED  BY <1>1, <1>2

\* A tick of a worker: periods move, its place changes, and nothing else.
LEMMA TickOk ==
  ASSUME Snd!SndAssumption, SndInv, NEW s \in Streams, Filled,
         worker' = [worker EXCEPT ![s] = "paced"],
         now' \in Nat, consumed' \in Nat, consumed' <= now',
         UNCHANGED <<running, wake, posted, lost, ready, ctrl, released, vm>>
  PROVE  SndInv'
BY DEF SndInv, SndState, PeriodInv, WakeInv, OffInv, Filled

LEMMA SndStep ==
  ASSUME Snd!SndAssumption, SndInv, [Snd!Next]_(Snd!vars)
  PROVE  SndInv'
<1> USE DEF Snd!Idle
<1>0. PeriodFrames \in Nat \ {0} /\ MaxTick \in Nat \ {0} /\ MaxCatchup \in Nat \ {0}
      /\ MaxPeriods \in Nat /\ MaxControls \in Nat
  BY Sizes
<1>1. ASSUME NEW s \in Streams, Snd!Top(s) PROVE SndInv'
  BY <1>1 DEF Snd!Top, Snd!Goto, Snd!ring, Snd!clock, Snd!guest, SndInv, SndState, PeriodInv,
     WakeInv, OffInv
<1>2. ASSUME NEW s \in Streams, Snd!Wait(s) PROVE SndInv'
  BY ZenonT(60), <1>2 DEF Snd!Wait, Snd!Goto, Snd!ring, Snd!clock, Snd!guest, SndInv, SndState, PeriodInv,
     WakeInv, OffInv
<1>3. ASSUME NEW s \in Streams, Snd!OpenDevice(s) PROVE SndInv'
  <2>1. Filled
    <3>1. CASE s = "out"
      BY <1>3, <3>1, <1>0, FillOk DEF Snd!OpenDevice, SndInv
    <3>2. CASE s # "out"
      BY <1>3, <3>2, SameIsFilled DEF Snd!OpenDevice, SndInv
    <3> QED  BY <3>1, <3>2
  <2> QED  BY <1>3, <2>1, TickOk DEF Snd!OpenDevice, Snd!Goto, Snd!clock, Snd!guest, SndInv,
              SndState
<1>4. ASSUME NEW s \in Streams, Snd!OpenClock(s) PROVE SndInv'
  BY <1>4 DEF Snd!OpenClock, Snd!Goto, Snd!ring, Snd!clock, Snd!guest, SndInv, SndState,
     PeriodInv, WakeInv, OffInv
<1>5. ASSUME NEW s \in Streams, Snd!Paced(s) PROVE SndInv'
  BY ZenonT(60), <1>5 DEF Snd!Paced, Snd!Goto, Snd!ring, Snd!clock, Snd!guest, SndInv, SndState, PeriodInv,
     WakeInv, OffInv
<1>6. ASSUME NEW s \in Streams, NEW n \in 1 .. MaxTick, Snd!TickDevice(s, n) PROVE SndInv'
  <2>1. Filled
    BY <1>6, FillOk DEF Snd!TickDevice, SndInv
  <2> QED  BY <1>6, <2>1, TickOk DEF Snd!TickDevice, Snd!Goto, Snd!clock, Snd!guest, SndInv,
              SndState
<1>7. CASE Snd!TickClock
  <2> DEFINE first == Snd!Most(consumed, Snd!Most(0, now - MaxCatchup))
  <2>1. now - first \in Nat
    BY <1>0 DEF Snd!Most, SndInv, SndState
  <2>2. "out" \in Streams /\ Snd!Fill("out", now - first)
    BY <1>7 DEF Snd!TickClock
  <2>3. Filled
    <3> HIDE DEF first
    <3> QED  BY <2>1, <2>2, FillOk DEF SndInv
  <2>4. now' \in Nat /\ consumed' \in Nat /\ consumed' <= now'
    BY <1>7 DEF Snd!TickClock, Snd!Most, SndInv, SndState
  <2> QED  BY <1>7, <2>2, <2>3, <2>4, TickOk DEF Snd!TickClock, Snd!Goto, Snd!guest
<1>8. CASE Snd!TickSilence
  <2>1. Filled
    BY <1>8, SilenceOk DEF Snd!TickSilence, SndInv
  <2> QED  BY <1>8, <2>1, TickOk DEF Snd!TickSilence, Snd!Goto, Snd!clock, Snd!guest, SndInv,
              SndState
<1>9. CASE Snd!Elapse
  BY <1>9 DEF Snd!Elapse, Snd!ring, Snd!guest, SndInv, SndState, PeriodInv, WakeInv, OffInv
<1>10. ASSUME NEW s \in Streams, Snd!Start(s) PROVE SndInv'
  BY <1>10 DEF Snd!Start, Snd!Wake, Snd!ring, Snd!clock, SndInv, SndState, PeriodInv, WakeInv,
     OffInv
<1>11. ASSUME NEW s \in Streams, Snd!Stop(s) PROVE SndInv'
  BY <1>11 DEF Snd!Stop, Snd!Wake, Snd!ring, Snd!clock, SndInv, SndState, PeriodInv, WakeInv, OffInv
<1>12. ASSUME NEW s \in Streams, Snd!Release(s) PROVE SndInv'
  BY <1>12 DEF Snd!Release, Snd!Wake, Snd!ring, Snd!clock, SndInv, SndState, PeriodInv, WakeInv,
     OffInv
<1>13. ASSUME NEW s \in Streams, Snd!ReleaseFlush(s) PROVE SndInv'
  <2>1. /\ posted[s] \in Nat /\ lost[s] \in Nat /\ lost[s] <= posted[s] /\ posted[s] <= MaxPeriods
    BY DEF SndInv, SndState, PeriodInv, Balanced
  <2>2. Balanced(posted[s], posted[s], posted[s] - lost[s], 0, lost[s])
    BY <1>0, <2>1 DEF Balanced
  <2>3. /\ done' = [done EXCEPT ![s] = posted[s] - lost[s]] /\ taken' = [taken EXCEPT ![s] = posted[s]]
        /\ left' = [left EXCEPT ![s] = 0]
        /\ signal' = [signal EXCEPT ![s] = signal[s] \/ done[s] < posted[s] - lost[s]]
    BY <1>13 DEF Snd!ReleaseFlush, Snd!Flush
  <2>4. PeriodInv'
    BY <1>13, <2>1, <2>2, <2>3 DEF Snd!ReleaseFlush, SndInv, SndState, PeriodInv
  <2>5. SndState'
    BY <1>13, <2>1, <2>3 DEF Snd!ReleaseFlush, Snd!clock, SndInv, SndState
  <2> QED  BY <1>13, <2>4, <2>5 DEF Snd!ReleaseFlush, SndInv, WakeInv, OffInv
<1>14. ASSUME NEW s \in Streams, Snd!PostPeriod(s) PROVE SndInv'
  BY <1>14, <1>0 DEF Snd!PostPeriod, Snd!Wake, Snd!clock, SndInv, SndState, PeriodInv, Balanced,
     WakeInv, OffInv
<1>15. CASE Snd!Reset
  BY <1>15 DEF Snd!Reset, Snd!ring, Snd!clock, SndInv, SndState, PeriodInv, WakeInv, OffInv
<1>16. ASSUME NEW s \in Streams, Snd!ResetQueue(s) PROVE SndInv'
  <2>1. Balanced(0, 0, 0, 0, 0)
    BY <1>0 DEF Balanced
  <2> QED  BY <1>16, <2>1 DEF Snd!ResetQueue, Snd!clock, Snd!guest, SndInv, SndState, PeriodInv,
              WakeInv, OffInv
<1>17. CASE Snd!Enable
  BY <1>17 DEF Snd!Enable, Snd!clock, Snd!guest, SndInv, SndState, PeriodInv, WakeInv, OffInv
<1>18. CASE Snd!Teardown
  BY <1>18 DEF Snd!Teardown, Snd!ring, Snd!clock, Snd!guest, SndInv, SndState, PeriodInv, WakeInv,
     OffInv
<1>19. ASSUME NEW s \in Streams, Snd!DisableQueue(s) PROVE SndInv'
  BY <1>19 DEF Snd!DisableQueue, Snd!clock, Snd!guest, SndInv, SndState, PeriodInv, WakeInv, OffInv
<1>20. CASE Snd!Drop
  BY <1>20 DEF Snd!Drop, Snd!ring, Snd!clock, Snd!guest, SndInv, SndState, PeriodInv, WakeInv,
     OffInv
<1>21. CASE Snd!Restore
  <2>1. ASSUME NEW s \in Streams
        PROVE  /\ Balanced(posted[s], taken[s], done[s], 0, lost[s] + (IF left[s] > 0 THEN 1 ELSE 0))
               /\ s \in released => left[s] = 0
    BY <1>0, <2>1 DEF SndInv, SndState, PeriodInv, Balanced
  <2>2. PeriodInv'
    BY <1>21, <2>1 DEF Snd!Restore, Snd!guest, SndInv, SndState, PeriodInv
  <2> QED  BY <1>21, <2>2 DEF Snd!Restore, Snd!clock, Snd!guest, SndInv, SndState, WakeInv, OffInv
<1>22. ASSUME NEW s \in Streams, Snd!TakeIrq(s) PROVE SndInv'
  BY <1>22 DEF Snd!TakeIrq, Snd!ring, Snd!clock, Snd!guest, SndInv, SndState, PeriodInv, WakeInv,
     OffInv
<1>23. CASE UNCHANGED Snd!vars
  BY <1>23 DEF Snd!vars, Snd!ring, Snd!clock, Snd!guest, SndInv, SndState, PeriodInv, WakeInv,
     OffInv
<1> QED
  BY <1>1, <1>2, <1>3, <1>4, <1>5, <1>6, <1>7, <1>8, <1>9, <1>10, <1>11, <1>12, <1>13, <1>14, <1>15,
     <1>16, <1>17, <1>18, <1>19, <1>20, <1>21, <1>22, <1>23 DEF Snd!Next, Snd!WorkerStep,
                                                               Snd!Control

LEMMA SndInvariance ==
  ASSUME Snd!SndAssumption
  PROVE  Snd!Spec => []SndInv
<1>1. Snd!Init => SndInv
  BY Sizes DEF Snd!Init, SndInv, SndState, PeriodInv, Balanced, WakeInv, OffInv, Snd!Idle
<1>2. SndInv /\ [Snd!Next]_(Snd!vars) => SndInv'
  BY SndStep
<1> QED  BY <1>1, <1>2, PTL DEF Snd!Spec

\* No worker sleeps through a START, and a RELEASE answers for every period: what
\* is taken off a ring and not completed is the period in hand, or was at a
\* snapshot, and a released stream has none.
THEOREM StreamsAreAnswered ==
  ASSUME Snd!SndAssumption
  PROVE  Snd!Spec => [](Snd!TypeOK /\ Snd!StreamsAnswer)
<1>1. SndInv => Snd!TypeOK /\ Snd!StreamsAnswer
  <2> SUFFICES ASSUME SndInv, NEW s \in Streams
               PROVE  /\ posted[s] \in 0..MaxPeriods /\ taken[s] \in 0..posted[s] /\ done[s] \in 0..taken[s]
                      /\ left[s] \in 0..PeriodFrames
                      /\ worker[s] = "wait" /\ running[s] => wake[s]
                      /\ taken[s] - done[s] = lost[s] + (IF left[s] > 0 THEN 1 ELSE 0)
                      /\ s \in released => done[s] = posted[s] - lost[s]
    BY DEF Snd!TypeOK, Snd!StreamsAnswer
  <2> QED  BY Sizes DEF SndInv, SndState, PeriodInv, Balanced, WakeInv
<1> QED  BY <1>1, SndInvariance, PTL

\* Once the queues are disabled, and guest RAM may be freed, no worker moves a
\* period, though the workers still run.
THEOREM SoundLeavesRamAlone ==
  ASSUME Snd!SndAssumption
  PROVE  Snd!Spec => Snd!OffIsUntouched
<1>1. SndInv /\ [Snd!Next]_(Snd!vars) => [Snd!OffStep]_(Snd!vars)
  <2> SUFFICES ASSUME SndInv, Snd!Next, vm = "off" PROVE UNCHANGED <<taken, done, left>>
    BY DEF Snd!OffStep
  <2>1. ctrl = Snd!Idle /\ \A s \in Streams : ~ready[s]
    BY DEF SndInv, OffInv
  <2>2. ASSUME NEW s \in Streams, Snd!WorkerStep(s) PROVE UNCHANGED <<taken, done, left>>
    BY <2>1, <2>2 DEF Snd!WorkerStep, Snd!Top, Snd!Wait, Snd!OpenDevice, Snd!OpenClock, Snd!Paced,
       Snd!TickDevice, Snd!Fill, Snd!ring
  <2>3. ASSUME NEW s \in Streams, Snd!Control(s) PROVE UNCHANGED <<taken, done, left>>
    BY <2>1, <2>3 DEF Snd!Control, Snd!Start, Snd!Stop, Snd!Release, Snd!ReleaseFlush,
       Snd!PostPeriod, Snd!Idle, Snd!ring
  <2>4. ASSUME NEW s \in Streams, Snd!ResetQueue(s) \/ Snd!DisableQueue(s) \/ Snd!TakeIrq(s) PROVE UNCHANGED <<taken, done, left>>
    BY <2>4 DEF Snd!ResetQueue, Snd!DisableQueue, Snd!TakeIrq, Snd!ring
  <2>5. CASE Snd!TickClock \/ Snd!TickSilence \/ Snd!Elapse
    BY <2>1, <2>5 DEF Snd!TickClock, Snd!TickSilence, Snd!Elapse, Snd!Fill, Snd!FillSilence,
       Snd!ring
  <2>6. CASE Snd!Reset \/ Snd!Enable \/ Snd!Teardown \/ Snd!Drop \/ Snd!Restore
    BY <2>6 DEF Snd!Reset, Snd!Enable, Snd!Teardown, Snd!Drop, Snd!Restore, Snd!ring
  <2> QED  BY <2>2, <2>3, <2>4, <2>5, <2>6 DEF Snd!Next
<1> QED  BY <1>1, SndInvariance, PTL DEF Snd!OffIsUntouched, Snd!Spec

-----------------------------------------------------------------------------
(* LegacyIrq: a vector in the event register waits for a guest that can take *)
(* it, a handler runs with interrupts off, and a line requested while the    *)
(* boot processor is in the guest has a kick or a window on its way.         *)

\* An injected vector waits for the guest outside of it, which can take it; a
\* handler runs with interrupts off.
VectorInv ==
  /\ event # -1 => bsp # "guest" /\ canTake /\ served = -1
  /\ served # -1 => ~canTake

IrqInv == Pic!TypeOK /\ VectorInv /\ Pic!RequestIsNoticed /\ Pic!TxIrqIsHeld

-----------------------------------------------------------------------------
\* The INTA cycle takes a line that is requested.
LEMMA HighestIsRequested ==
  ASSUME Pic!LegacyIrqAssumption, irr \subseteq Lines, Pic!Output(irr, mask)
  PROVE  Pic!Highest(irr, mask) \in Pic!Requests(irr, mask)
<1> DEFINE R == Pic!Requests(irr, mask)
           Ranks == {Pic!Rank(l) : l \in R}
<1>1. R # {} /\ R \subseteq irr /\ R \subseteq 0 .. 15
  BY DEF Pic!Output, Pic!Requests, Pic!LegacyIrqAssumption
<1>2. \A l \in R : Pic!Rank(l) \in Nat
  BY <1>1 DEF Pic!Rank, Pic!CascadeIrq
<1>3. Ranks \subseteq Nat /\ Ranks # {}
  BY <1>1, <1>2
<1>4. PICK n \in Ranks : \A m \in Ranks : ~(<<m, n>> \in OpToRel(<, Nat))
  <2> HIDE DEF Ranks
  <2> QED  BY <1>3, WFMin, NatLessThanWellFounded
<1>5. PICK l \in R : n = Pic!Rank(l)
  BY <1>4
<1>6. \A o \in R : Pic!Rank(l) <= Pic!Rank(o)
  <2> SUFFICES ASSUME NEW o \in R PROVE Pic!Rank(l) <= Pic!Rank(o)
    OBVIOUS
  <2>1. <<Pic!Rank(o), n>> \notin OpToRel(<, Nat)
    BY <1>4
  <2>2. ~(Pic!Rank(o) < n)
    BY <2>1, <1>2, <1>5 DEF OpToRel
  <2> QED  BY <2>2, <1>2, <1>5
<1> QED  BY <1>5, <1>6 DEF Pic!Highest

\* Fewer latched lines, or more masked ones, request no more.
LEMMA RequestsShrink ==
  ASSUME NEW i, NEW j, NEW k, NEW m, i \subseteq j, m \subseteq k, Pic!Output(i, k)
  PROVE  Pic!Output(j, m)
BY DEF Pic!Output, Pic!Requests

\* What an access and its notification leave behind: from another vCPU the BSP
\* is where it was, and an output now asserted has a cancel on its way.
LEMMA Notified ==
  ASSUME NEW v \in Pic!Cpus, NEW asserted \in BOOLEAN, Pic!TypeOK, MaxWrites \in Nat,
         Pic!Access(v), Pic!Notify(v, asserted)
  PROVE  /\ kicked' \in BOOLEAN /\ ap' \in {"run", "kick"} /\ bsp' \in {"top", bsp} /\ writes' \in 0 .. MaxWrites
         /\ kicked => kicked'
         /\ bsp' # "top" => ap = "run" /\ bsp' = bsp /\ (asserted => ap' = "kick")
<1>1. writes' \in 0 .. MaxWrites
  BY DEF Pic!Access, Pic!TypeOK
<1>2. kicked' \in BOOLEAN
  BY Zenon DEF Pic!Notify, Pic!TypeOK
<1>3. ap' \in {"run", "kick"}
  BY DEF Pic!Notify, Pic!TypeOK
<1>4. bsp' \in {"top", bsp}
  BY DEF Pic!Access
<1>5. kicked => kicked'
  BY Zenon DEF Pic!Notify
<1>6. bsp' # "top" => ap = "run" /\ bsp' = bsp /\ (asserted => ap' = "kick")
  BY DEF Pic!Access, Pic!Notify, Pic!Cpus
<1> QED  BY <1>1, <1>2, <1>3, <1>4, <1>5, <1>6

LEMMA Accessed ==
  ASSUME NEW v \in Pic!Cpus, Pic!TypeOK, MaxWrites \in Nat, Pic!Access(v)
  PROVE  bsp' \in {"top", bsp} /\ writes' \in 0 .. MaxWrites
<1>1. writes' \in 0 .. MaxWrites
  BY DEF Pic!Access, Pic!TypeOK
<1>2. bsp' \in {"top", bsp}
  BY DEF Pic!Access
<1> QED  BY <1>1, <1>2

LEMMA OutputIsBoolean == \A i, k : Pic!Output(i, k) \in BOOLEAN
BY DEF Pic!Output

LEMMA IrqStep ==
  ASSUME Pic!LegacyIrqAssumption, IrqInv, [Pic!Next]_(Pic!vars)
  PROVE  IrqInv'
<1>0. \A l \in Lines : l # -1
  BY DEF Pic!LegacyIrqAssumption
<1> USE Pic!LegacyIrqAssumption DEF IrqInv, VectorInv
<1>a. ASSUME NEW v \in Pic!Cpus, NEW enabled \in BOOLEAN, Pic!Access(v), Pic!MaybeRaiseTxIrq(v,
             enabled),
             UNCHANGED <<mask, step, Pic!loop>>, ier' \in BOOLEAN
      PROVE  IrqInv'
  <2>1. CASE enabled /\ ~tx
    <3>1. tx' = TRUE /\ restarted' = FALSE /\ irr' = irr \cup {Com1} /\ Pic!Notify(v, Pic!Output(irr \cup {Com1}, mask))
      BY <1>a, <2>1 DEF Pic!MaybeRaiseTxIrq, Pic!Raise
    <3>2. tx' \in BOOLEAN /\ restarted' \in BOOLEAN
      BY <3>1, Zenon
    <3>3. /\ kicked' \in BOOLEAN /\ ap' \in {"run", "kick"} /\ bsp' \in {"top", bsp} /\ writes' \in 0 .. MaxWrites
          /\ bsp' # "top" /\ Pic!Output(irr', mask') => ap' = "kick"
      BY <1>a, <3>1, Notified, OutputIsBoolean DEF Pic!LegacyIrqAssumption
    <3> QED  BY <1>a, <3>1, <3>2, <3>3 DEF Pic!TypeOK, Pic!RequestIsNoticed, Pic!TxIrqIsHeld,
                Pic!LegacyIrqAssumption, Pic!loop
  <2>2. CASE ~(enabled /\ ~tx)
    <3>1. UNCHANGED <<tx, restarted, irr, kicked, ap>>
      BY <1>a, <2>2 DEF Pic!MaybeRaiseTxIrq
    <3>2. bsp' \in {"top", bsp} /\ writes' \in 0 .. MaxWrites
      BY <1>a, Accessed DEF Pic!LegacyIrqAssumption
    <3> QED  BY <1>a, <3>1, <3>2 DEF Pic!TypeOK, Pic!RequestIsNoticed, Pic!TxIrqIsHeld, Pic!loop
  <2> QED  BY <2>1, <2>2
<1>1. ASSUME NEW v \in Pic!Cpus, Pic!WriteThr(v) PROVE IrqInv'
  BY <1>1, <1>a DEF Pic!WriteThr, Pic!TypeOK
<1>2. ASSUME NEW v \in Pic!Cpus, NEW on \in BOOLEAN, Pic!WriteIer(v, on) PROVE IrqInv'
  <2>1. CASE on /\ ~ier
    <3>1. Pic!Access(v) /\ Pic!MaybeRaiseTxIrq(v, TRUE) /\ UNCHANGED <<mask, step, Pic!loop>> /\ ier' = on
      BY <1>2, <2>1 DEF Pic!WriteIer
    <3> QED  BY <1>2, <3>1, <1>a
  <2>2. CASE ~(on /\ ~ier)
    <3>1. tx' \in BOOLEAN /\ (tx' => tx) /\ ier' \in BOOLEAN
      BY <1>2, <2>2, Zenon DEF Pic!WriteIer
    <3>2. bsp' \in {"top", bsp} /\ writes' \in 0 .. MaxWrites
      BY <1>2, Accessed DEF Pic!LegacyIrqAssumption, Pic!WriteIer
    <3>3. UNCHANGED <<restarted, irr, kicked, ap, mask, step, Pic!loop>>
      BY <1>2, <2>2 DEF Pic!WriteIer
    <3> QED  BY <3>1, <3>2, <3>3 DEF Pic!TypeOK, Pic!RequestIsNoticed, Pic!TxIrqIsHeld, Pic!loop
  <2> QED  BY <2>1, <2>2
<1>3. ASSUME NEW v \in Pic!Cpus, NEW c \in Pic!Chips, Pic!WriteIcw1(v, c) PROVE IrqInv'
  <2>1. Pic!Output(irr', mask') => Pic!Output(irr, mask)
    BY <1>3, RequestsShrink DEF Pic!WriteIcw1
  <2>2. restarted' \in BOOLEAN /\ (restarted => restarted') /\ (c = Pic!Of(Com1) => restarted')
    BY <1>3, Zenon DEF Pic!WriteIcw1
  <2>3. step' \in [Pic!Chips -> {"Idle", "Icw2", "Icw3", "Icw4"}]
    BY <1>3 DEF Pic!WriteIcw1, Pic!TypeOK
  <2>4. irr' \subseteq irr /\ (Com1 \in irr /\ c # Pic!Of(Com1) => Com1 \in irr')
    BY <1>3 DEF Pic!WriteIcw1
  <2>5. mask' \subseteq Lines \cup {Pic!CascadeIrq}
    BY <1>3 DEF Pic!WriteIcw1, Pic!TypeOK
  <2>6. bsp' \in {"top", bsp} /\ writes' \in 0 .. MaxWrites
    BY <1>3, Accessed DEF Pic!LegacyIrqAssumption, Pic!WriteIcw1
  <2>7. UNCHANGED <<ier, tx, kicked, ap, Pic!loop>>
    BY <1>3 DEF Pic!WriteIcw1
  <2> QED  BY <2>1, <2>2, <2>3, <2>4, <2>5, <2>6, <2>7 DEF Pic!TypeOK, Pic!RequestIsNoticed,
              Pic!TxIrqIsHeld, Pic!loop
<1>4. ASSUME NEW v \in Pic!Cpus, NEW c \in Pic!Chips, Pic!WriteIcw(v, c) PROVE IrqInv'
  BY <1>4 DEF Pic!WriteIcw, Pic!Access, Pic!TypeOK, Pic!RequestIsNoticed, Pic!TxIrqIsHeld,
              Pic!LegacyIrqAssumption, Pic!loop, Pic!uart, Pic!Chips, Pic!Cpus
<1>5. ASSUME NEW v \in Pic!Cpus, NEW l \in Lines \cup {Pic!CascadeIrq}, Pic!WriteMask(v, l)
      PROVE  IrqInv'
  <2>1. CASE l \in mask
    <3>1. mask' = mask \ {l} /\ mask \ (mask \ {l}) # {} /\ Pic!Notify(v, Pic!Unmasks(mask \ {l}))
      BY <1>5, <2>1 DEF Pic!WriteMask
    <3>2. Pic!Unmasks(mask \ {l}) \in BOOLEAN /\ (Pic!Output(irr, mask \ {l}) => Pic!Unmasks(mask \ {l}))
      BY <3>1 DEF Pic!Unmasks
    <3>3. /\ kicked' \in BOOLEAN /\ ap' \in {"run", "kick"} /\ bsp' \in {"top", bsp} /\ writes' \in 0 .. MaxWrites
          /\ bsp' # "top" /\ Pic!Unmasks(mask \ {l}) => ap' = "kick"
      BY <1>5, <3>1, <3>2, Notified DEF Pic!WriteMask, Pic!LegacyIrqAssumption
    <3>4. bsp' # "top" /\ Pic!Output(irr', mask') => ap' = "kick"
      BY <1>5, <3>1, <3>2, <3>3 DEF Pic!WriteMask
    <3> QED
      BY <1>5, <3>1, <3>3, <3>4 DEF Pic!WriteMask, Pic!TypeOK, Pic!RequestIsNoticed,
         Pic!TxIrqIsHeld, Pic!loop, Pic!uart
  <2>2. CASE l \notin mask
    <3>1. mask' = mask \cup {l} /\ irr' = irr /\ mask \ (mask \cup {l}) = {}
      BY <1>5, <2>2 DEF Pic!WriteMask
    <3>2. Pic!Output(irr', mask') => Pic!Output(irr, mask)
      BY <3>1, RequestsShrink
    <3>3. Pic!Notify(v, FALSE)
      BY <1>5, <2>2, <3>1 DEF Pic!WriteMask, Pic!Unmasks, Pic!Notify
    <3> QED
      BY <1>5, <3>1, <3>2, <3>3 DEF Pic!WriteMask, Pic!Access, Pic!Notify, Pic!TypeOK,
         Pic!RequestIsNoticed, Pic!TxIrqIsHeld,
              Pic!LegacyIrqAssumption, Pic!loop, Pic!uart, Pic!Cpus
  <2> QED  BY <2>1, <2>2
<1>6. CASE Pic!Kick
  BY <1>6 DEF Pic!Kick, Pic!TypeOK, Pic!RequestIsNoticed, Pic!TxIrqIsHeld, Pic!chips, Pic!uart,
     Pic!loop
<1>7. CASE Pic!ToggleIf
  BY <1>7 DEF Pic!ToggleIf, Pic!TypeOK, Pic!RequestIsNoticed, Pic!TxIrqIsHeld, Pic!chips,
     Pic!uart, Pic!LegacyIrqAssumption
<1>8. CASE Pic!Poll
  BY <1>8 DEF Pic!Poll, Pic!TypeOK, Pic!RequestIsNoticed, Pic!TxIrqIsHeld, Pic!chips, Pic!uart,
     Pic!loop
<1>9. CASE Pic!AskWindow
  BY <1>9 DEF Pic!AskWindow, Pic!TypeOK, Pic!RequestIsNoticed, Pic!TxIrqIsHeld, Pic!chips, Pic!uart
<1>10. CASE Pic!Acknowledge
  <2>1. CASE Pic!Output(irr, mask)
    <3>1. Pic!Highest(irr, mask) \in irr
      BY <2>1, HighestIsRequested DEF Pic!TypeOK, Pic!Requests
    <3>2. Pic!Highest(irr, mask) \in Lines /\ Pic!Highest(irr, mask) # -1
      BY <1>0, <3>1 DEF Pic!TypeOK
    <3> QED
      BY <1>10, <2>1, <3>1, <3>2 DEF Pic!Acknowledge, Pic!TypeOK, Pic!RequestIsNoticed,
         Pic!TxIrqIsHeld, Pic!uart
  <2>2. CASE ~Pic!Output(irr, mask)
    BY <1>10, <2>2 DEF Pic!Acknowledge, Pic!TypeOK, Pic!RequestIsNoticed, Pic!TxIrqIsHeld, Pic!uart
  <2> QED  BY <2>1, <2>2
<1>11. CASE Pic!Run
  BY ZenonT(60), <1>11 DEF Pic!Run, Pic!TypeOK, Pic!RequestIsNoticed, Pic!TxIrqIsHeld, Pic!chips, Pic!uart
<1>12. CASE Pic!Canceled
  BY ZenonT(60), <1>12 DEF Pic!Canceled, Pic!TypeOK, Pic!RequestIsNoticed, Pic!TxIrqIsHeld, Pic!chips,
     Pic!uart, Pic!loop
<1>13. CASE Pic!Eoi
  BY <1>13 DEF Pic!Eoi, Pic!TypeOK, Pic!RequestIsNoticed, Pic!TxIrqIsHeld, Pic!chips, Pic!uart
<1>14. CASE Pic!ReadIir
  BY <1>14 DEF Pic!ReadIir, Pic!TypeOK, Pic!RequestIsNoticed, Pic!TxIrqIsHeld, Pic!chips, Pic!loop
<1>15. CASE Pic!Iret
  BY <1>15 DEF Pic!Iret, Pic!TypeOK, Pic!RequestIsNoticed, Pic!TxIrqIsHeld, Pic!chips, Pic!uart,
     Pic!LegacyIrqAssumption
<1>16. CASE Pic!Restore
  BY <1>16 DEF Pic!Restore, Pic!TypeOK, Pic!RequestIsNoticed, Pic!TxIrqIsHeld, Pic!chips, Pic!uart
<1>17. CASE UNCHANGED Pic!vars
  BY <1>17 DEF Pic!TypeOK, Pic!RequestIsNoticed, Pic!TxIrqIsHeld, Pic!Output, Pic!Requests,
     Pic!vars, Pic!chips, Pic!uart, Pic!loop
<1> QED
  BY <1>1, <1>2, <1>3, <1>4, <1>5, <1>6, <1>7, <1>8, <1>9, <1>10, <1>11, <1>12, <1>13, <1>14,
     <1>15, <1>16, <1>17 DEF Pic!Next

\* A request the PIC pair asserts is never left with nobody to look: a cancel or
\* a window is on its way, or a vector whose acknowledgement exits; and the
\* UART's pending transmit condition always has its line, vector or handler.
THEOREM PicRequestsAreNoticed ==
  ASSUME Pic!LegacyIrqAssumption
  PROVE  Pic!Spec => [](Pic!TypeOK /\ Pic!RequestIsNoticed /\ Pic!TxIrqIsHeld)
<1>1. Pic!Init => IrqInv
  <2> SUFFICES ASSUME Pic!Init PROVE IrqInv
    OBVIOUS
  <2>1. ier \in BOOLEAN /\ tx \in BOOLEAN /\ kicked \in BOOLEAN /\ window \in BOOLEAN
        /\ canTake \in BOOLEAN /\ acked \in BOOLEAN /\ restarted \in BOOLEAN
    BY Zenon DEF Pic!Init
  <2>2. Pic!TypeOK
    BY <2>1 DEF Pic!Init, Pic!TypeOK, Pic!LegacyIrqAssumption
  <2> QED  BY <2>2 DEF Pic!Init, IrqInv, VectorInv, Pic!RequestIsNoticed, Pic!TxIrqIsHeld
<1>2. IrqInv /\ [Pic!Next]_(Pic!vars) => IrqInv'
  BY IrqStep
<1>3. IrqInv => Pic!TypeOK /\ Pic!RequestIsNoticed /\ Pic!TxIrqIsHeld
  BY DEF IrqInv
<1> QED  BY <1>1, <1>2, <1>3, PTL DEF Pic!Spec
=============================================================================
