---------------------------- MODULE NetworkProofs ----------------------------
(***************************************************************************)
(* Proofs about the frames' way to and from the guest: NatRouter, for any  *)
(* workers, flows, frame slots and frames, and NetDevice (Nic), for rings, *)
(* pools, batches and frames of any size.                                  *)
(*                                                                         *)
(* The router's table of owners: an entry is the flow's worker's, or the   *)
(* SYN it was made for is queued there or still in the hands of the thread *)
(* that made it.  The pool of frames: a thread's copy of the head is of an *)
(* older tag or is the head, so a swap that succeeds links or unlinks what *)
(* is there now, and the slots reached from the head, which an invariant   *)
(* numbers in list order, are held by nobody.                              *)
(***************************************************************************)
EXTENDS NatRouter, FiniteSetTheorems, SequenceTheorems, TLAPS

CONSTANTS Size, Pool, High, Low, Batch, Tries, MaxFrame, MaxInjects, MaxPosts, MaxResets

VARIABLES avail, availEvent, used, reaped, ready, asleep, due, driver, lastAvail, signaled, kick, irq,
          lock, loc, backlog, rxBacklog, rxWake, unsignaled, paused, woken, burst, injects, resets

Nic == INSTANCE NetDevice

Tagged == [tag : Nat, idx : 0 .. Slots]
Frame == [slot : 0 .. Slots - 1, key : Keys, syn : BOOLEAN]
Register == [h : Tagged, nxt : 0 .. Slots, slot : 0 .. Slots, key : Keys \cup {None},
             syn : BOOLEAN, to : Shards \cup {None}, assigned : BOOLEAN]
Reading == {"popNext", "popSwap", "pushLink", "pushSwap"}
Posting == {"route", "assign", "post"}
Pushing == {"pushLink", "pushSwap"}
Places == {"idle", "unassign"} \cup Reading \cup Posting

RouterType ==
    /\ owner \in [Keys -> Shards \cup {None}] /\ load \in [Shards -> Nat]
    /\ table \in [Shards -> SUBSET Keys] /\ queue \in [Shards -> Seq(Frame)]
    /\ head \in Tagged /\ next \in [0 .. Slots - 1 -> 0 .. Slots]
    /\ pc \in [Threads -> Places]
    /\ reg \in [Threads -> Register]

\* What a thread's registers hold where it is.
RegOk(t, p, r) ==
    /\ r.slot # Sentinel <=> p \in Posting \cup Pushing
    /\ p \in {"popNext", "popSwap"} \cup Posting => r.key # None
    /\ p = "post" => r.to # None
    /\ p = "popSwap" => r.h.idx # Sentinel
    /\ p = "assign" => r.syn
    /\ p = "unassign" => r.assigned
    /\ p = "idle" => r = Nothing
    /\ r.syn => t = "tx"
    /\ r.assigned => /\ r.syn /\ r.key # None /\ r.to # None
                     /\ p \in Pushing \cup {"post", "unassign"}
    /\ t \in Shards => p \in {"idle"} \cup Pushing

RegInv == \A t \in Threads : RegOk(t, pc[t], reg[t])

\* A SYN of k is in the queue q; an entry the SYN in x's hands was given.
SynIn(k, q) == \E i \in DOMAIN q : q[i].key = k /\ q[i].syn
OnTheWay(k, x) == reg[x].key = k /\ reg[x].assigned /\ reg[x].to = owner[k]
Stray(x) == reg[x].assigned /\ pc[x] \in Pushing \cup {"unassign"}

\* A flow in a worker's table is that worker's in the owner map.
TableOwned == \A s \in Shards : \A k \in table[s] : owner[k] = s
\* An entry of the owner map is in use, or its SYN is on its way to be.
OwnedIsUsed ==
    \A k \in Keys : owner[k] # None =>
      \/ k \in table[owner[k]]
      \/ SynIn(k, queue[owner[k]])
      \/ \E x \in Txs : OnTheWay(k, x)
\* A thread about to give its entry back is the only trace of it.
StrayIsAlone ==
    \A x \in Txs : Stray(x) => /\ reg[x].key \notin table[reg[x].to]
                              /\ ~SynIn(reg[x].key, queue[reg[x].to])
OwnerInv == TableOwned /\ OwnedIsUsed /\ StrayIsAlone

\* A worker's load is the number of entries that name it.
LoadInv == \A s \in Shards : load[s] = Cardinality({k \in Keys : owner[k] = s})

\* Two threads, a thread and a queue, or two places of queues never have one slot.
SlotInv ==
    /\ \A t, u \in Threads : t # u /\ reg[t].slot = reg[u].slot => reg[t].slot = Sentinel
    /\ \A t \in Threads, s \in Shards : \A j \in DOMAIN queue[s] : queue[s][j].slot # reg[t].slot
    /\ \A s, r \in Shards : \A i \in DOMAIN queue[s], j \in DOMAIN queue[r] :
         queue[s][i].slot = queue[r][j].slot => s = r /\ i = j

\* What a thread read of the head is older than the head, or is still true of it.
TagInv ==
    \A t \in Threads : pc[t] \in Reading =>
      /\ reg[t].h.tag <= head.tag
      /\ reg[t].h.tag = head.tag => reg[t].h = head
      /\ reg[t].h.tag = head.tag /\ pc[t] = "popSwap" => reg[t].nxt = next[head.idx]
      /\ pc[t] = "pushSwap" => next[reg[t].slot] = reg[t].h.idx

\* A thread has the slot, or a queued frame does.
Held(i) == \/ \E t \in Threads : reg[t].slot = i
           \/ \E s \in Shards : \E j \in DOMAIN queue[s] : queue[s][j].slot = i

\* place numbers the free slots from the end of the list up to the head: next leads
\* one down, no two slots share a number and none of them is held.
ListFrom(place) ==
    /\ place[Sentinel] = 0
    /\ \A i \in 0 .. Slots - 1 : place[i] > 0 =>
         /\ place[i] = place[next[i]] + 1
         /\ next[i] # Sentinel => place[next[i]] > 0
         /\ place[i] <= place[head.idx]
         /\ ~Held(i)
    /\ \A i, j \in 0 .. Slots - 1 : place[i] = place[j] /\ place[i] > 0 => i = j
    /\ head.idx # Sentinel => place[head.idx] > 0

FreeInv == \E place \in [0 .. Slots -> Nat] : ListFrom(place)

RouterInv == RouterType /\ RegInv /\ OwnerInv /\ LoadInv /\ SlotInv /\ TagInv /\ FreeInv

-----------------------------------------------------------------------------
LEMMA RouterConstants ==
  ASSUME NatRouterAssumption
  PROVE  /\ Sentinel \in 0 .. Slots /\ Sentinel \notin 0 .. Slots - 1 /\ 0 \in 0 .. Slots - 1
         /\ 0 .. Slots - 1 \subseteq 0 .. Slots /\ \A i \in 0 .. Slots : i # Sentinel => i \in 0 .. Slots - 1
         /\ Txs \subseteq Threads /\ Shards \subseteq Threads /\ Nothing \in Register
         /\ \A k \in Keys : Hash[k] \in Shards
         /\ None \notin Keys /\ None \notin Shards
         /\ \A x \in Txs : x \notin Shards
  BY DEF NatRouterAssumption, Sentinel, Txs, Threads, Nothing, Register, Tagged

LEMMA ReleaseType ==
  ASSUME NatRouterAssumption, RouterType, LoadInv, NEW k \in Keys, NEW s \in Shards, Release(k, s)
  PROVE  owner' \in [Keys -> Shards \cup {None}] /\ load' \in [Shards -> Nat]
<1> DEFINE Own == {j \in Keys : owner[j] = s}
<1>1. IsFiniteSet(Own)
  BY FS_Subset DEF NatRouterAssumption
<1>2. owner[k] = s => load[s] # 0
  BY <1>1, FS_EmptySet DEF LoadInv
<1> QED
  BY <1>2 DEF Release, Freed, Unloaded, RouterType

LEMMA RegisterUpdates ==
  ASSUME NatRouterAssumption, NEW r \in Register
  PROVE  /\ r.h \in Tagged /\ r.h.idx \in 0 .. Slots /\ r.nxt \in 0 .. Slots /\ r.slot \in 0 .. Slots
         /\ \A v \in Tagged : [r EXCEPT !.h = v] \in Register
         /\ \A i \in 0 .. Slots : [r EXCEPT !.nxt = i] \in Register /\ [r EXCEPT !.slot = i] \in Register
         /\ \A s \in Shards \cup {None} : [r EXCEPT !.to = s] \in Register
         /\ \A s \in Shards : [r EXCEPT !.to = s, !.assigned = TRUE] \in Register
  BY DEF Register, Tagged

LEMMA GoType ==
  ASSUME RouterType, NEW t \in Threads, NEW p \in Places, NEW r \in Register, Go(t, p, r)
  PROVE  pc' \in [Threads -> Places] /\ reg' \in [Threads -> Register]
  BY DEF RouterType, Go, Places

LEMMA RouterTypeStep ==
  ASSUME NatRouterAssumption, RouterType, RegInv, LoadInv, [Next]_vars
  PROVE  RouterType'
<1> USE RouterConstants DEF router, pool
<1>t. \A t \in Threads : reg[t] \in Register
  BY DEF RouterType
<1>p. {"idle", "unassign", "popNext", "popSwap", "pushLink", "pushSwap", "route", "assign", "post"} = Places
  BY DEF Places, Reading, Posting
<1>s. head \in Tagged /\ head.tag + 1 \in Nat
  BY DEF RouterType, Tagged
<1>1. ASSUME NEW x \in Txs, Acquire(x) PROVE RouterType'
  <2>1. PICK k \in Keys, syn \in {FALSE, x = "tx"} :
          Go(x, "popNext", [Nothing EXCEPT !.h = head, !.key = k, !.syn = syn])
    BY <1>1 DEF Acquire
  <2>2. [Nothing EXCEPT !.h = head, !.key = k, !.syn = syn] \in Register
    BY <1>s DEF Register, Nothing
  <2>3. pc' \in [Threads -> Places] /\ reg' \in [Threads -> Register]
    BY <1>p, <2>1, <2>2, GoType
  <2> QED
    BY SMTT(60), <1>1, <2>3 DEF Acquire, RouterType
<1>2. ASSUME NEW x \in Txs, AcquireNext(x) PROVE RouterType'
  <2>1. CASE reg[x].h.idx = Sentinel
    <3>1. Go(x, "idle", Nothing)
      BY <1>2, <2>1 DEF AcquireNext
    <3> QED
      BY <1>p, <1>2, <3>1, GoType DEF AcquireNext, RouterType
  <2>2. CASE reg[x].h.idx # Sentinel
    <3>1. next[reg[x].h.idx] \in 0 .. Slots
      BY <1>t, <2>2, RegisterUpdates DEF RouterType
    <3>2. [reg[x] EXCEPT !.nxt = next[reg[x].h.idx]] \in Register
      BY <1>t, <3>1, RegisterUpdates
    <3>3. Go(x, "popSwap", [reg[x] EXCEPT !.nxt = next[reg[x].h.idx]])
      BY <1>2, <2>2 DEF AcquireNext
    <3> QED
      BY <1>p, <1>2, <3>2, <3>3, GoType DEF AcquireNext, RouterType
  <2> QED
    BY <2>1, <2>2
<1>3. ASSUME NEW x \in Txs, AcquireSwap(x) PROVE RouterType'
  <2>1. [reg[x] EXCEPT !.slot = reg[x].h.idx] \in Register /\ [reg[x] EXCEPT !.h = head] \in Register
    BY <1>t, <1>s, RegisterUpdates
  <2>2. [tag |-> head.tag + 1, idx |-> reg[x].nxt] \in Tagged
    BY <1>t, <1>s, RegisterUpdates DEF Tagged
  <2>3. head' \in Tagged
    BY <1>3, <1>s, <2>2 DEF AcquireSwap
  <2>4. pc' \in [Threads -> Places] /\ reg' \in [Threads -> Register]
    BY <1>p, <1>3, <2>1, GoType DEF AcquireSwap
  <2> QED
    BY <1>3, <2>3, <2>4 DEF AcquireSwap, RouterType
<1>4. ASSUME NEW t \in Threads, ReleaseLink(t) PROVE RouterType'
  <2>1. reg[t] \in Register /\ reg[t].h.idx \in 0 .. Slots
    BY <1>t, RegisterUpdates
  <2>2. next' \in [0 .. Slots - 1 -> 0 .. Slots]
    BY <1>4, <2>1 DEF ReleaseLink, RouterType
  <2>3. pc' \in [Threads -> Places] /\ reg' \in [Threads -> Register]
    BY <1>p, <1>4, <2>1, GoType DEF ReleaseLink
  <2> QED
    BY <1>4, <2>2, <2>3 DEF ReleaseLink, RouterType
<1>5. ASSUME NEW t \in Threads, ReleaseSwap(t) PROVE RouterType'
  <2>1. [reg[t] EXCEPT !.slot = Sentinel] \in Register /\ [reg[t] EXCEPT !.h = head] \in Register
    BY <1>t, <1>s, RegisterUpdates
  <2>2. [tag |-> head.tag + 1, idx |-> reg[t].slot] \in Tagged
    BY <1>t, <1>s, RegisterUpdates DEF Tagged
  <2>3. head' \in Tagged
    BY <1>5, <1>s, <2>2 DEF ReleaseSwap
  <2>4. pc' \in [Threads -> Places] /\ reg' \in [Threads -> Register]
    BY <1>p, <1>5, <2>1, GoType DEF ReleaseSwap
  <2> QED
    BY <1>5, <2>3, <2>4 DEF ReleaseSwap, RouterType
<1>6. ASSUME NEW x \in Txs, Route(x) PROVE RouterType'
  <2>1. reg[x].key \in Keys
    BY <1>6, <1>t DEF Route, RegInv, RegOk, Register, Posting
  <2>2. /\ [reg[x] EXCEPT !.to = owner[reg[x].key]] \in Register
        /\ [reg[x] EXCEPT !.to = Hash[reg[x].key]] \in Register
    BY <1>t, <2>1, RegisterUpdates DEF RouterType
  <2>3. pc' \in [Threads -> Places] /\ reg' \in [Threads -> Register]
    <3>1. \E p \in Places, r \in Register : Go(x, p, r)
      BY <1>p, <1>t, <1>6, <2>2 DEF Route
    <3> QED
      BY <3>1, GoType
  <2> QED
    BY <1>6, <2>3 DEF Route, RouterType
<1>7. ASSUME NEW x \in Txs, RouteAssign(x) PROVE RouterType'
  <2>1. reg[x].key \in Keys
    BY <1>7, <1>t DEF RouteAssign, RegInv, RegOk, Register, Posting
  <2>2. CASE owner[reg[x].key] # None
    <3>1. [reg[x] EXCEPT !.to = owner[reg[x].key]] \in Register
      BY <1>t, <2>1, RegisterUpdates DEF RouterType
    <3>2. Go(x, "post", [reg[x] EXCEPT !.to = owner[reg[x].key]]) /\ UNCHANGED <<owner, load>>
      BY <1>7, <2>2 DEF RouteAssign
    <3>3. pc' \in [Threads -> Places] /\ reg' \in [Threads -> Register]
      BY <1>p, <3>1, <3>2, GoType
    <3> QED
      BY <1>7, <3>2, <3>3 DEF RouteAssign, RouterType
  <2>3. CASE owner[reg[x].key] = None
    <3>1. PICK s \in Shards :
            /\ owner' = [owner EXCEPT ![reg[x].key] = s]
            /\ load' = [load EXCEPT ![s] = @ + 1]
            /\ Go(x, "post", [reg[x] EXCEPT !.to = s, !.assigned = TRUE])
      BY <1>7, <2>3 DEF RouteAssign
    <3>2. [reg[x] EXCEPT !.to = s, !.assigned = TRUE] \in Register
      BY <1>t, RegisterUpdates
    <3>3. pc' \in [Threads -> Places] /\ reg' \in [Threads -> Register]
      BY <1>p, <3>1, <3>2, GoType
    <3>4. owner' = [owner EXCEPT ![reg[x].key] = s] /\ load' = [load EXCEPT ![s] = @ + 1]
      BY <3>1
    <3>5. owner' \in [Keys -> Shards \cup {None}]
      BY <3>4 DEF RouterType
    <3>6. load' \in [Shards -> Nat]
      BY <3>4 DEF RouterType
    <3> QED
      BY <1>7, <3>3, <3>5, <3>6 DEF RouteAssign, RouterType
  <2> QED
    BY <2>2, <2>3
<1>8. ASSUME NEW x \in Txs, Post(x) PROVE RouterType'
  <2>1. /\ pc[x] = "post" /\ reg[x].key \in Keys /\ reg[x].to \in Shards
        /\ reg[x].slot \in 0 .. Slots - 1 /\ reg[x].syn \in BOOLEAN
    BY <1>8, <1>t DEF Post, RegInv, RegOk, Register, Posting, Pushing
  <2>2. [slot |-> reg[x].slot, key |-> reg[x].key, syn |-> reg[x].syn] \in Frame
    BY <2>1 DEF Frame
  <2>3. [reg[x] EXCEPT !.h = head] \in Register
    BY <1>t, <1>s, RegisterUpdates
  <2>4. pc' \in [Threads -> Places] /\ reg' \in [Threads -> Register]
    BY <1>p, <1>8, <2>3, GoType DEF Post
  <2>5. queue' \in [Shards -> Seq(Frame)]
    <3> DEFINE f == [slot |-> reg[x].slot, key |-> reg[x].key, syn |-> reg[x].syn]
    <3>1. queue[reg[x].to] \in Seq(Frame) /\ Append(queue[reg[x].to], f) \in Seq(Frame)
      BY <2>1, <2>2 DEF RouterType
    <3>2. queue' = [queue EXCEPT ![reg[x].to] = Append(queue[reg[x].to], f)] \/ queue' = queue
      BY <1>8 DEF Post
    <3> HIDE DEF f
    <3>3. queue \in [Shards -> Seq(Frame)]
      BY DEF RouterType
    <3> QED
      BY ONLY <3>1, <3>2, <3>3, <2>1
  <2> QED
    BY <1>8, <2>4, <2>5 DEF Post, RouterType
<1>9. ASSUME NEW x \in Txs, Unassign(x) PROVE RouterType'
  <2>1. reg[x].key \in Keys /\ reg[x].to \in Shards
    BY <1>9, <1>t DEF Unassign, RegInv, RegOk, Register
  <2>2. owner' \in [Keys -> Shards \cup {None}] /\ load' \in [Shards -> Nat]
    BY <1>9, <2>1, ReleaseType DEF Unassign
  <2>3. pc' \in [Threads -> Places] /\ reg' \in [Threads -> Register]
    BY <1>p, <1>9, GoType DEF Unassign
  <2> QED
    BY <1>9, <2>2, <2>3 DEF Unassign, RouterType
<1>10. ASSUME NEW s \in Shards, HandleFrame(s) PROVE RouterType'
  <2>1. queue[s] # <<>> /\ queue[s] \in Seq(Frame)
    BY <1>10 DEF HandleFrame, RouterType
  <2>2. Head(queue[s]) \in Frame /\ Tail(queue[s]) \in Seq(Frame)
    BY <2>1
  <2>3. Head(queue[s]).slot \in 0 .. Slots /\ Head(queue[s]).key \in Keys
    BY <2>2 DEF Frame
  <2>4. [Nothing EXCEPT !.slot = Head(queue[s]).slot, !.h = head] \in Register
    BY <1>s, <2>3 DEF Register, Nothing
  <2>5. /\ owner' \in [Keys -> Shards \cup {None}] /\ load' \in [Shards -> Nat]
        /\ table' \in [Shards -> SUBSET Keys]
    <3>1. CASE Release(Head(queue[s]).key, s) /\ UNCHANGED table
      BY <2>3, <3>1, ReleaseType DEF RouterType
    <3>2. CASE Claimed(Head(queue[s]).key, s)
               /\ table' = [table EXCEPT ![s] = @ \cup {Head(queue[s]).key}]
      BY <2>3, <3>2 DEF Claimed, RouterType
    <3>3. CASE UNCHANGED router
      BY <3>3 DEF RouterType
    <3> QED
      BY <1>10, <3>1, <3>2, <3>3 DEF HandleFrame, HandleSyn
  <2>6. pc' \in [Threads -> Places] /\ reg' \in [Threads -> Register]
    BY <1>p, <1>10, <2>4, GoType DEF HandleFrame
  <2>7. queue' \in [Shards -> Seq(Frame)]
    BY <1>10, <2>2 DEF HandleFrame, RouterType
  <2> QED
    BY <1>10, <2>5, <2>6, <2>7 DEF HandleFrame, RouterType
<1>11. ASSUME NEW s \in Shards, Inbound(s) PROVE RouterType'
  BY <1>11 DEF Inbound, Claimed, RouterType
<1>12. ASSUME NEW s \in Shards, Reap(s) PROVE RouterType'
  <2>1. PICK k \in table[s] : table' = [table EXCEPT ![s] = @ \ {k}] /\ Release(k, s)
    BY <1>12 DEF Reap
  <2>2. owner' \in [Keys -> Shards \cup {None}] /\ load' \in [Shards -> Nat]
    BY <2>1, ReleaseType DEF RouterType
  <2> QED
    BY <1>12, <2>1, <2>2 DEF Reap, RouterType
<1>13. ASSUME UNCHANGED vars PROVE RouterType'
  BY <1>13 DEF vars, RouterType
<1> QED
  BY <1>1, <1>2, <1>3, <1>4, <1>5, <1>6, <1>7, <1>8, <1>9, <1>10, <1>11, <1>12, <1>13 DEF Next

LEMMA GoOnly ==
  ASSUME RouterType, NEW t \in Threads, NEW p, NEW r, Go(t, p, r)
  PROVE  /\ pc'[t] = p /\ reg'[t] = r
         /\ \A u \in Threads : u # t => pc'[u] = pc[u] /\ reg'[u] = reg[u]
  BY DEF RouterType, Go

LEMMA GoReg ==
  ASSUME RouterType, RegInv, NEW t \in Threads, NEW p, NEW r, Go(t, p, r), RegOk(t, p, r)
  PROVE  RegInv'
<1> SUFFICES ASSUME NEW u \in Threads PROVE RegOk(u, pc'[u], reg'[u])
  BY DEF RegInv, RegOk, Sentinel, Nothing, None
<1>1. CASE u = t
  BY <1>1, GoOnly
<1>2. CASE u # t
  BY <1>2, GoOnly DEF RegInv
<1> QED
  BY <1>1, <1>2

LEMMA RegStep ==
  ASSUME NatRouterAssumption, RouterType, RouterType', RegInv, SlotInv, [Next]_vars
  PROVE  RegInv'
<1> USE RouterConstants DEF Posting, Pushing
<1>t. \A t \in Threads : reg[t] \in Register /\ RegOk(t, pc[t], reg[t])
  BY DEF RouterType, RegInv
<1>n. \A t \in Threads : RegOk(t, "idle", Nothing)
  BY DEF RegOk, Nothing
<1>1. ASSUME NEW x \in Txs, Acquire(x) PROVE RegInv'
  <2>1. PICK k \in Keys, syn \in {FALSE, x = "tx"} :
          Go(x, "popNext", [Nothing EXCEPT !.h = head, !.key = k, !.syn = syn])
    BY <1>1 DEF Acquire
  <2>2. RegOk(x, "popNext", [Nothing EXCEPT !.h = head, !.key = k, !.syn = syn])
    BY DEF RegOk, Nothing
  <2> QED
    BY SMTT(60), <2>1, <2>2, GoReg
<1>2. ASSUME NEW x \in Txs, AcquireNext(x) PROVE RegInv'
  <2>1. CASE reg[x].h.idx = Sentinel
    BY <1>2, <1>n, <2>1, GoReg DEF AcquireNext
  <2>2. CASE reg[x].h.idx # Sentinel
    <3> DEFINE r == [reg[x] EXCEPT !.nxt = next[reg[x].h.idx]]
    <3>1. Go(x, "popSwap", r) /\ pc[x] = "popNext"
      BY <1>2, <2>2 DEF AcquireNext
    <3>2. RegOk(x, "popSwap", r)
      BY <1>t, <2>2, <3>1 DEF RegOk, Register
    <3> QED
      BY <3>1, <3>2, GoReg
  <2> QED
    BY <2>1, <2>2
<1>3. ASSUME NEW x \in Txs, AcquireSwap(x) PROVE RegInv'
  <2>1. pc[x] = "popSwap"
    BY <1>3 DEF AcquireSwap
  <2>2. RegOk(x, "route", [reg[x] EXCEPT !.slot = reg[x].h.idx])
    BY <1>t, <2>1 DEF RegOk, Register
  <2>3. RegOk(x, "popNext", [reg[x] EXCEPT !.h = head])
    BY <1>t, <2>1 DEF RegOk, Register
  <2> QED
    BY <1>3, <2>2, <2>3, GoReg DEF AcquireSwap
<1>4. ASSUME NEW t \in Threads, ReleaseLink(t) PROVE RegInv'
  <2>1. pc[t] = "pushLink" /\ Go(t, "pushSwap", reg[t])
    BY <1>4 DEF ReleaseLink
  <2>2. RegOk(t, "pushSwap", reg[t])
    BY <1>t, <2>1 DEF RegOk
  <2> QED
    BY <2>1, <2>2, GoReg
<1>5. ASSUME NEW t \in Threads, ReleaseSwap(t) PROVE RegInv'
  <2>1. pc[t] = "pushSwap"
    BY <1>5 DEF ReleaseSwap
  <2>2. reg[t].assigned => RegOk(t, "unassign", [reg[t] EXCEPT !.slot = Sentinel])
    BY <1>t, <2>1 DEF RegOk, Register, Txs
  <2>3. RegOk(t, "pushLink", [reg[t] EXCEPT !.h = head])
    BY <1>t, <2>1 DEF RegOk, Register
  <2> QED
    BY <1>5, <1>n, <2>2, <2>3, GoReg DEF ReleaseSwap
<1>6. ASSUME NEW x \in Txs, Route(x) PROVE RegInv'
  <2>1. pc[x] = "route" /\ reg[x].key \in Keys
    BY <1>6, <1>t DEF Route, RegOk, Register
  <2>2. \A s \in Shards : RegOk(x, "post", [reg[x] EXCEPT !.to = s])
    BY <1>t, <2>1 DEF RegOk, Register
  <2>3. reg[x].syn => RegOk(x, "assign", reg[x])
    BY <1>t, <2>1 DEF RegOk, Register
  <2>4. CASE owner[reg[x].key] # None
    <3>1. owner[reg[x].key] \in Shards /\ Go(x, "post", [reg[x] EXCEPT !.to = owner[reg[x].key]])
      BY <1>6, <2>1, <2>4 DEF Route, RouterType
    <3> QED
      BY <2>2, <3>1, GoReg
  <2>5. CASE owner[reg[x].key] = None /\ ~reg[x].syn
    <3>1. Go(x, "post", [reg[x] EXCEPT !.to = Hash[reg[x].key]])
      BY <1>6, <2>5 DEF Route
    <3> QED
      BY <2>1, <2>2, <3>1, GoReg
  <2>6. CASE owner[reg[x].key] = None /\ reg[x].syn
    BY <1>6, <2>3, <2>6, GoReg DEF Route
  <2> QED
    BY <2>4, <2>5, <2>6
<1>7. ASSUME NEW x \in Txs, RouteAssign(x) PROVE RegInv'
  <2>1. pc[x] = "assign" /\ reg[x].key \in Keys
    BY <1>7, <1>t DEF RouteAssign, RegOk, Register
  <2>2. \A s \in Shards : /\ RegOk(x, "post", [reg[x] EXCEPT !.to = s])
                          /\ RegOk(x, "post", [reg[x] EXCEPT !.to = s, !.assigned = TRUE])
    BY <1>t, <2>1 DEF RegOk, Register
  <2>3. CASE owner[reg[x].key] # None
    <3>1. owner[reg[x].key] \in Shards /\ Go(x, "post", [reg[x] EXCEPT !.to = owner[reg[x].key]])
      BY <1>7, <2>1, <2>3 DEF RouteAssign, RouterType
    <3> QED
      BY <2>2, <3>1, GoReg
  <2>4. CASE owner[reg[x].key] = None
    <3>1. PICK s \in Shards : Go(x, "post", [reg[x] EXCEPT !.to = s, !.assigned = TRUE])
      BY <1>7, <2>4 DEF RouteAssign
    <3> QED
      BY <2>2, <3>1, GoReg
  <2> QED
    BY SMTT(60), <2>3, <2>4
<1>8. ASSUME NEW x \in Txs, Post(x) PROVE RegInv'
  <2>1. pc[x] = "post"
    BY <1>8 DEF Post
  <2>2. RegOk(x, "pushLink", [reg[x] EXCEPT !.h = head])
    BY <1>t, <2>1 DEF RegOk, Register
  <2>3. Go(x, "idle", Nothing) \/ Go(x, "pushLink", [reg[x] EXCEPT !.h = head])
    BY <1>8 DEF Post
  <2> QED
    BY <1>n, <2>2, <2>3, GoReg
<1>9. ASSUME NEW x \in Txs, Unassign(x) PROVE RegInv'
  BY <1>9, <1>n, GoReg DEF Unassign
<1>10. ASSUME NEW s \in Shards, HandleFrame(s) PROVE RegInv'
  <2> DEFINE r == [Nothing EXCEPT !.slot = Head(queue[s]).slot, !.h = head]
  <2>1. Head(queue[s]) \in Frame
    BY <1>10 DEF HandleFrame, RouterType
  <2>2. RegOk(s, "pushLink", r)
    BY <2>1 DEF RegOk, Nothing, Frame, Sentinel
  <2>3. Go(s, "pushLink", r)
    BY <1>10 DEF HandleFrame
  <2> QED
    BY <2>2, <2>3, GoReg
<1>11. ASSUME UNCHANGED <<pc, reg>> PROVE RegInv'
  BY <1>11 DEF RegInv, RegOk, Sentinel, Nothing, None
<1> QED
  BY <1>1, <1>2, <1>3, <1>4, <1>5, <1>6, <1>7, <1>8, <1>9, <1>10, <1>11 DEF Next, Inbound, Reap,
     vars

LEMMA SynInTail ==
  ASSUME NEW q \in Seq(Frame), q # <<>>
  PROVE  /\ \A k : SynIn(k, Tail(q)) => SynIn(k, q)
         /\ \A k : SynIn(k, q) => SynIn(k, Tail(q)) \/ (Head(q).key = k /\ Head(q).syn)
         /\ \A k : Head(q).key = k /\ Head(q).syn => SynIn(k, q)
<1>1. /\ Tail(q) \in Seq(Frame) /\ Len(q) \in Nat \ {0} /\ Len(Tail(q)) = Len(q) - 1
      /\ \A i \in 1 .. Len(q) - 1 : Tail(q)[i] = q[i + 1]
      /\ Head(q) = q[1] /\ DOMAIN q = 1 .. Len(q) /\ DOMAIN Tail(q) = 1 .. Len(q) - 1
  OBVIOUS
<1>2. \A k : SynIn(k, Tail(q)) => SynIn(k, q)
  BY <1>1 DEF SynIn
<1>3. ASSUME NEW k, SynIn(k, q) PROVE SynIn(k, Tail(q)) \/ (Head(q).key = k /\ Head(q).syn)
  <2>1. PICK i \in 1 .. Len(q) : q[i].key = k /\ q[i].syn
    BY <1>1, <1>3 DEF SynIn
  <2>2. CASE i = 1
    BY <1>1, <2>1, <2>2
  <2>3. CASE i # 1
    <3>1. i - 1 \in 1 .. Len(q) - 1 /\ q[(i - 1) + 1] = q[i]
      BY <1>1, <2>1, <2>3
    <3> QED
      BY <1>1, <2>1, <3>1 DEF SynIn
  <2> QED
    BY <2>2, <2>3
<1>4. \A k : Head(q).key = k /\ Head(q).syn => SynIn(k, q)
  BY <1>1 DEF SynIn
<1> QED
  BY <1>2, <1>3, <1>4

LEMMA SynInAppend ==
  ASSUME NEW q \in Seq(Frame), NEW f \in Frame
  PROVE  \A k : SynIn(k, Append(q, f)) <=> SynIn(k, q) \/ (f.key = k /\ f.syn)
<1> DEFINE a == Append(q, f)
<1>1. /\ DOMAIN q = 1 .. Len(q) /\ DOMAIN a = 1 .. Len(q) + 1 /\ Len(q) \in Nat
      /\ \A i \in 1 .. Len(q) : a[i] = q[i]
      /\ a[Len(q) + 1] = f
  OBVIOUS
<1> HIDE DEF a
<1>2. \A k : SynIn(k, a) <=> SynIn(k, q) \/ (f.key = k /\ f.syn)
  BY <1>1 DEF SynIn
<1> QED
  BY <1>2 DEF a

Others(t) == \A u \in Threads : u # t => pc'[u] = pc[u] /\ reg'[u] = reg[u]
SameFrame(t) == /\ reg'[t].assigned = reg[t].assigned /\ reg'[t].key = reg[t].key
                /\ reg'[t].to = reg[t].to

LEMMA Updated ==
  ASSUME NEW r \in Register, NEW v
  PROVE  /\ LET q == [r EXCEPT !.h = v]
            IN /\ q.h = v /\ q.nxt = r.nxt /\ q.slot = r.slot /\ q.key = r.key
               /\ q.to = r.to /\ q.assigned = r.assigned
         /\ LET q == [r EXCEPT !.nxt = v]
            IN /\ q.h = r.h /\ q.nxt = v /\ q.slot = r.slot /\ q.key = r.key
               /\ q.to = r.to /\ q.assigned = r.assigned
         /\ LET q == [r EXCEPT !.slot = v]
            IN /\ q.h = r.h /\ q.slot = v /\ q.key = r.key
               /\ q.to = r.to /\ q.assigned = r.assigned
         /\ LET q == [r EXCEPT !.to = v]
            IN /\ q.h = r.h /\ q.slot = r.slot /\ q.key = r.key
               /\ q.to = v /\ q.assigned = r.assigned
         /\ LET q == [r EXCEPT !.to = v, !.assigned = TRUE]
            IN /\ q.h = r.h /\ q.slot = r.slot /\ q.key = r.key
               /\ q.to = v /\ q.assigned = TRUE
  BY DEF Register

LEMMA Acquires ==
  ASSUME NatRouterAssumption, RouterType, NEW x \in Txs, Acquire(x)
  PROVE  /\ pc[x] = "idle" /\ pc'[x] = "popNext" /\ Others(x)
         /\ reg'[x].h = head /\ reg'[x].slot = Sentinel /\ reg'[x].assigned = FALSE
         /\ UNCHANGED <<owner, load, table, queue, head, next>>
<1>1. PICK k \in Keys, syn \in {FALSE, x = "tx"} :
        Go(x, "popNext", [Nothing EXCEPT !.h = head, !.key = k, !.syn = syn])
  BY DEF Acquire
<1> DEFINE r == [Nothing EXCEPT !.h = head, !.key = k, !.syn = syn]
<1>2. r.h = head /\ r.slot = Sentinel /\ r.assigned = FALSE
  BY DEF Nothing
<1>3. Go(x, "popNext", r)
  BY <1>1
<1> HIDE DEF r
<1>4. pc'[x] = "popNext" /\ reg'[x] = r /\ Others(x)
  BY <1>3, RouterConstants, GoOnly DEF Others
<1> QED
  BY SMTT(60), <1>2, <1>4 DEF Acquire, router, pool

LEMMA AcquireReads ==
  ASSUME NatRouterAssumption, RouterType, NEW x \in Txs, AcquireNext(x)
  PROVE  /\ pc[x] = "popNext" /\ Others(x) /\ UNCHANGED <<owner, load, table, queue, head, next>>
         /\ \/ /\ pc'[x] = "idle" /\ reg'[x] = Nothing
            \/ /\ reg[x].h.idx # Sentinel /\ pc'[x] = "popSwap" /\ reg'[x].h = reg[x].h
               /\ reg'[x].nxt = next[reg[x].h.idx] /\ reg'[x].slot = reg[x].slot
               /\ SameFrame(x)
<1> DEFINE r == [reg[x] EXCEPT !.nxt = next[reg[x].h.idx]]
<1>1. reg[x] \in Register
  BY RouterConstants DEF RouterType
<1>2. /\ r.h = reg[x].h /\ r.nxt = next[reg[x].h.idx] /\ r.slot = reg[x].slot
      /\ r.assigned = reg[x].assigned /\ r.key = reg[x].key /\ r.to = reg[x].to
  BY <1>1, Updated
<1>3. \/ Go(x, "idle", Nothing)
      \/ reg[x].h.idx # Sentinel /\ Go(x, "popSwap", r)
  BY DEF AcquireNext
<1> HIDE DEF r
<1>4. /\ Others(x)
      /\ \/ pc'[x] = "idle" /\ reg'[x] = Nothing
         \/ reg[x].h.idx # Sentinel /\ pc'[x] = "popSwap" /\ reg'[x] = r
  BY <1>3, RouterConstants, GoOnly DEF Others
<1> QED
  BY <1>2, <1>4 DEF AcquireNext, router, pool, SameFrame

LEMMA AcquireSwaps ==
  ASSUME NatRouterAssumption, RouterType, NEW x \in Txs, AcquireSwap(x)
  PROVE  /\ pc[x] = "popSwap" /\ Others(x) /\ SameFrame(x)
         /\ UNCHANGED <<owner, load, table, queue, next>>
         /\ \/ /\ head = reg[x].h /\ head' = [tag |-> head.tag + 1, idx |-> reg[x].nxt]
               /\ pc'[x] = "route" /\ reg'[x].slot = head.idx
            \/ /\ head # reg[x].h /\ head' = head
               /\ pc'[x] = "popNext" /\ reg'[x].h = head /\ reg'[x].slot = reg[x].slot
<1> DEFINE r == [reg[x] EXCEPT !.slot = reg[x].h.idx]
           q == [reg[x] EXCEPT !.h = head]
<1>1. reg[x] \in Register
  BY RouterConstants DEF RouterType
<1>2. /\ r.slot = reg[x].h.idx
      /\ r.assigned = reg[x].assigned /\ r.key = reg[x].key /\ r.to = reg[x].to
      /\ q.h = head /\ q.slot = reg[x].slot
      /\ q.assigned = reg[x].assigned /\ q.key = reg[x].key /\ q.to = reg[x].to
  BY <1>1, Updated
<1>3. \/ /\ head = reg[x].h /\ head' = [tag |-> head.tag + 1, idx |-> reg[x].nxt]
         /\ Go(x, "route", r)
      \/ head # reg[x].h /\ head' = head /\ Go(x, "popNext", q)
  BY DEF AcquireSwap, SwapHolds
<1> HIDE DEF r, q
<1>4. /\ Others(x)
      /\ \/ /\ head = reg[x].h /\ head' = [tag |-> head.tag + 1, idx |-> reg[x].nxt]
            /\ pc'[x] = "route" /\ reg'[x] = r
         \/ head # reg[x].h /\ head' = head /\ pc'[x] = "popNext" /\ reg'[x] = q
  BY <1>3, RouterConstants, GoOnly DEF Others
<1> QED
  BY <1>2, <1>4 DEF AcquireSwap, router, SameFrame

LEMMA ReleaseLinks ==
  ASSUME NatRouterAssumption, RouterType, NEW t \in Threads, ReleaseLink(t)
  PROVE  /\ pc[t] = "pushLink" /\ pc'[t] = "pushSwap" /\ Others(t) /\ reg'[t] = reg[t]
         /\ UNCHANGED <<owner, load, table, queue, head>>
         /\ next' = [next EXCEPT ![reg[t].slot] = reg[t].h.idx]
  BY GoOnly DEF ReleaseLink, Others, router

LEMMA ReleaseSwaps ==
  ASSUME NatRouterAssumption, RouterType, NEW t \in Threads, ReleaseSwap(t)
  PROVE  /\ pc[t] = "pushSwap" /\ Others(t)
         /\ UNCHANGED <<owner, load, table, queue, next>>
         /\ reg'[t].assigned = reg[t].assigned
         /\ reg[t].assigned => SameFrame(t)
         /\ \/ /\ head = reg[t].h /\ head' = [tag |-> head.tag + 1, idx |-> reg[t].slot]
               /\ pc'[t] \in {"unassign", "idle"} /\ reg'[t].slot = Sentinel
            \/ /\ head # reg[t].h /\ head' = head
               /\ pc'[t] = "pushLink" /\ reg'[t].h = head /\ reg'[t].slot = reg[t].slot
<1> DEFINE r == [reg[t] EXCEPT !.slot = Sentinel]
           q == [reg[t] EXCEPT !.h = head]
<1>1. reg[t] \in Register /\ reg[t].assigned \in BOOLEAN
  BY RouterConstants DEF RouterType, Register
<1>2. /\ r.slot = Sentinel
      /\ r.assigned = reg[t].assigned /\ r.key = reg[t].key /\ r.to = reg[t].to
      /\ q.h = head /\ q.slot = reg[t].slot
      /\ q.assigned = reg[t].assigned /\ q.key = reg[t].key /\ q.to = reg[t].to
  BY <1>1, Updated
<1>3. \/ /\ head = reg[t].h /\ head' = [tag |-> head.tag + 1, idx |-> reg[t].slot]
         /\ \/ reg[t].assigned /\ Go(t, "unassign", r)
            \/ ~reg[t].assigned /\ Go(t, "idle", Nothing)
      \/ head # reg[t].h /\ head' = head /\ Go(t, "pushLink", q)
  BY DEF ReleaseSwap, SwapHolds
<1>4. Nothing.slot = Sentinel /\ Nothing.assigned = FALSE
  BY DEF Nothing
<1> HIDE DEF r, q
<1>5. /\ Others(t)
      /\ \/ /\ head = reg[t].h /\ head' = [tag |-> head.tag + 1, idx |-> reg[t].slot]
            /\ \/ reg[t].assigned /\ pc'[t] = "unassign" /\ reg'[t] = r
               \/ ~reg[t].assigned /\ pc'[t] = "idle" /\ reg'[t] = Nothing
         \/ head # reg[t].h /\ head' = head /\ pc'[t] = "pushLink" /\ reg'[t] = q
  BY <1>3, GoOnly DEF Others
<1>6. /\ reg'[t].assigned = reg[t].assigned
      /\ reg[t].assigned => SameFrame(t)
  BY <1>1, <1>2, <1>4, <1>5 DEF SameFrame
<1> QED
  BY <1>2, <1>4, <1>5, <1>6 DEF ReleaseSwap, router

LEMMA Routes ==
  ASSUME NatRouterAssumption, RouterType, NEW x \in Txs, Route(x)
  PROVE  /\ pc[x] = "route" /\ pc'[x] \in {"post", "assign"} /\ Others(x)
         /\ UNCHANGED <<owner, load, table, queue, head, next>>
         /\ reg'[x].assigned = reg[x].assigned /\ reg'[x].slot = reg[x].slot
<1>1. reg[x] \in Register
  BY RouterConstants DEF RouterType
<1>2. PICK r : /\ Go(x, "post", r) \/ Go(x, "assign", r)
               /\ r.assigned = reg[x].assigned /\ r.slot = reg[x].slot
  <2> DEFINE q(s) == [reg[x] EXCEPT !.to = s]
  <2>1. \A s : q(s).assigned = reg[x].assigned /\ q(s).slot = reg[x].slot
    BY <1>1, Updated
  <2>2. (\E s : Go(x, "post", q(s))) \/ Go(x, "assign", reg[x])
    BY DEF Route
  <2> HIDE DEF q
  <2> QED
    BY <2>1, <2>2
<1>3. Others(x) /\ pc'[x] \in {"post", "assign"} /\ reg'[x] = r
  BY <1>2, RouterConstants, GoOnly DEF Others
<1> QED
  BY <1>2, <1>3 DEF Route, router, pool

LEMMA Assigns ==
  ASSUME NatRouterAssumption, RouterType, NEW x \in Txs, RouteAssign(x)
  PROVE  /\ pc[x] = "assign" /\ pc'[x] = "post" /\ Others(x)
         /\ UNCHANGED <<table, queue, head, next>>
         /\ reg'[x].slot = reg[x].slot
         /\ \/ owner[reg[x].key] # None /\ UNCHANGED <<owner, load>> /\ reg'[x].assigned = reg[x].assigned
            \/ \E s \in Shards :
                 /\ owner[reg[x].key] = None /\ owner' = [owner EXCEPT ![reg[x].key] = s]
                 /\ load' = [load EXCEPT ![s] = load[s] + 1]
                 /\ reg'[x].key = reg[x].key /\ reg'[x].to = s /\ reg'[x].assigned = TRUE
<1>1. reg[x] \in Register
  BY RouterConstants DEF RouterType
<1>2. CASE owner[reg[x].key] # None
  <2> DEFINE r == [reg[x] EXCEPT !.to = owner[reg[x].key]]
  <2>1. Go(x, "post", r) /\ r.assigned = reg[x].assigned /\ r.slot = reg[x].slot
    BY <1>1, <1>2, Updated DEF RouteAssign
  <2> HIDE DEF r
  <2>2. Others(x) /\ pc'[x] = "post" /\ reg'[x] = r
    BY <2>1, RouterConstants, GoOnly DEF Others
  <2> QED
    BY <1>2, <2>1, <2>2 DEF RouteAssign, pool
<1>3. CASE owner[reg[x].key] = None
  <2>1. PICK s \in Shards :
          /\ owner' = [owner EXCEPT ![reg[x].key] = s]
          /\ load' = [load EXCEPT ![s] = load[s] + 1]
          /\ Go(x, "post", [reg[x] EXCEPT !.to = s, !.assigned = TRUE])
    BY <1>3 DEF RouteAssign
  <2> DEFINE r == [reg[x] EXCEPT !.to = s, !.assigned = TRUE]
  <2>2. r.slot = reg[x].slot /\ r.key = reg[x].key /\ r.to = s /\ r.assigned = TRUE
    BY <1>1, Updated
  <2>3. Go(x, "post", r) /\ owner' = [owner EXCEPT ![reg[x].key] = s]
        /\ load' = [load EXCEPT ![s] = load[s] + 1]
    BY <2>1
  <2> HIDE DEF r
  <2>4. Others(x) /\ pc'[x] = "post" /\ reg'[x] = r
    BY <2>3, RouterConstants, GoOnly DEF Others
  <2>5. pc[x] = "assign" /\ UNCHANGED <<table, queue, head, next>>
    BY ZenonT(60) DEF RouteAssign, pool
  <2> QED
    BY ZenonT(60), <1>3, <2>2, <2>3, <2>4, <2>5
<1> QED
  BY <1>2, <1>3

LEMMA Posts ==
  ASSUME NatRouterAssumption, RouterType, NEW x \in Txs, Post(x)
  PROVE  /\ pc[x] = "post" /\ Others(x) /\ UNCHANGED <<owner, load, table, head, next>>
         /\ \/ /\ queue' = [queue EXCEPT ![reg[x].to] =
                     Append(queue[reg[x].to], [slot |-> reg[x].slot, key |-> reg[x].key, syn |-> reg[x].syn])]
               /\ pc'[x] = "idle" /\ reg'[x] = Nothing
            \/ /\ reg[x].assigned => /\ reg[x].key \notin table[reg[x].to]
                                     /\ ~SynIn(reg[x].key, queue[reg[x].to])
               /\ UNCHANGED queue /\ SameFrame(x) /\ reg'[x].slot = reg[x].slot
               /\ pc'[x] = "pushLink" /\ reg'[x].h = head
<1>1. reg[x] \in Register
  BY RouterConstants DEF RouterType
<1> DEFINE Sent == /\ queue' = [queue EXCEPT ![reg[x].to] =
                        Append(queue[reg[x].to], [slot |-> reg[x].slot, key |-> reg[x].key, syn |-> reg[x].syn])]
                  /\ Go(x, "idle", Nothing)
           Spilled == /\ reg[x].assigned => /\ reg[x].key \notin table[reg[x].to]
                                            /\ \A i \in DOMAIN queue[reg[x].to] : queue[reg[x].to][i].key # reg[x].key
                     /\ Go(x, "pushLink", [reg[x] EXCEPT !.h = head])
                     /\ UNCHANGED queue
<1>2. CASE Sent
  BY <1>2, RouterConstants, GoOnly DEF Post, Others, router, pool
<1>3. CASE Spilled
  <2> DEFINE r == [reg[x] EXCEPT !.h = head]
  <2>1. r.h = head /\ r.slot = reg[x].slot
        /\ r.assigned = reg[x].assigned /\ r.key = reg[x].key /\ r.to = reg[x].to
    BY <1>1, Updated
  <2>2. Go(x, "pushLink", r)
    BY <1>3
  <2> HIDE DEF r
  <2>3. Others(x) /\ pc'[x] = "pushLink" /\ reg'[x] = r
    BY <2>2, RouterConstants, GoOnly DEF Others
  <2>4. reg[x].assigned => /\ reg[x].key \notin table[reg[x].to]
                           /\ ~SynIn(reg[x].key, queue[reg[x].to])
    BY <1>3 DEF SynIn
  <2>5. /\ pc[x] = "post" /\ UNCHANGED <<owner, load, table, head, next, queue>>
    BY <1>3 DEF Post, router, pool
  <2>6. SameFrame(x) /\ reg'[x].slot = reg[x].slot /\ reg'[x].h = head
    BY <2>1, <2>3 DEF SameFrame
  <2> QED
    BY <2>3, <2>4, <2>5, <2>6
<1>4. Sent \/ Spilled
  BY Zenon DEF Post
<1> QED
  <2> HIDE DEF Sent, Spilled
  <2> QED
    BY <1>2, <1>3, <1>4

LEMMA Unassigns ==
  ASSUME NatRouterAssumption, RouterType, NEW x \in Txs, Unassign(x)
  PROVE  /\ pc[x] = "unassign" /\ pc'[x] = "idle" /\ reg'[x] = Nothing /\ Others(x)
         /\ UNCHANGED <<table, queue, head, next>> /\ Release(reg[x].key, reg[x].to)
  BY RouterConstants, GoOnly DEF Unassign, Others, pool

LEMMA Handles ==
  ASSUME NatRouterAssumption, RouterType, NEW s \in Shards, HandleFrame(s)
  PROVE  /\ pc[s] = "idle" /\ pc'[s] = "pushLink" /\ Others(s) /\ UNCHANGED <<head, next>>
         /\ reg'[s].slot = Head(queue[s]).slot /\ reg'[s].h = head
         /\ queue[s] # <<>> /\ queue' = [queue EXCEPT ![s] = Tail(queue[s])]
<1> DEFINE r == [Nothing EXCEPT !.slot = Head(queue[s]).slot, !.h = head]
<1>1. r.slot = Head(queue[s]).slot /\ r.h = head
  BY DEF Nothing
<1>2. Go(s, "pushLink", r)
  BY DEF HandleFrame
<1> HIDE DEF r
<1>3. Others(s) /\ pc'[s] = "pushLink" /\ reg'[s] = r
  BY <1>2, RouterConstants, GoOnly DEF Others
<1>4. /\ pc[s] = "idle" /\ queue[s] # <<>> /\ UNCHANGED <<head, next>>
      /\ queue' = [queue EXCEPT ![s] = Tail(queue[s])]
  BY DEF HandleFrame, pool
<1> QED
  BY <1>1, <1>3, <1>4

LEMMA ReleaseOwner ==
  ASSUME RouterType, NEW k \in Keys, NEW s \in Shards, Release(k, s)
  PROVE  /\ \A j \in Keys : j # k => owner'[j] = owner[j]
         /\ owner[k] # s => owner'[k] = owner[k]
         /\ owner[k] = s => owner'[k] = None
  BY DEF Release, Freed, RouterType

LEMMA ClaimOwner ==
  ASSUME RouterType, NEW k \in Keys, NEW s \in Shards, Claimed(k, s)
  PROVE  owner'[k] = s /\ \A j \in Keys : j # k => owner'[j] = owner[j]
  BY DEF Claimed, RouterType

LEMMA OwnerStay ==
  ASSUME RouterType, RouterType', OwnerInv, UNCHANGED <<owner, table, queue>>,
         \A x \in Txs : /\ reg'[x].assigned => reg[x].assigned
                        /\ reg[x].assigned => /\ reg'[x].assigned /\ reg'[x].key = reg[x].key
                                             /\ reg'[x].to = reg[x].to,
         \A x \in Txs : Stray(x)' => Stray(x)
  PROVE  OwnerInv'
<1>1. TableOwned'
  BY DEF OwnerInv, TableOwned
<1>2. OwnedIsUsed'
  BY DEF OwnerInv, OwnedIsUsed, OnTheWay, SynIn, None
<1>3. StrayIsAlone'
  BY DEF OwnerInv, StrayIsAlone, Stray, SynIn
<1> QED
  BY <1>1, <1>2, <1>3 DEF OwnerInv

LEMMA OwnerStep ==
  ASSUME NatRouterAssumption, RouterType, RouterType', RegInv, OwnerInv, [Next]_vars
  PROVE  OwnerInv'
<1> USE RouterConstants DEF router, pool
<1>t. \A t \in Threads : reg[t] \in Register /\ RegOk(t, pc[t], reg[t])
  BY DEF RouterType, RegInv
<1>u. \A x \in Txs : reg[x].assigned => x = "tx" /\ pc[x] \in Pushing \cup {"post", "unassign"}
  BY <1>t DEF RegOk
<1>o. TableOwned /\ OwnedIsUsed /\ StrayIsAlone
  BY DEF OwnerInv
<1>q. \A s \in Shards : queue[s] \in Seq(Frame)
  BY DEF RouterType
<1>n. Nothing.assigned = FALSE
  BY DEF Nothing
<1>1. ASSUME NEW x \in Txs, Acquire(x) PROVE OwnerInv'
  <2>1. ~reg[x].assigned
    BY <1>1, <1>u, Acquires DEF Pushing
  <2> QED
    BY ZenonT(60), <1>1, <2>1, Acquires, OwnerStay DEF Stray, Others
<1>2. ASSUME NEW x \in Txs, AcquireNext(x) PROVE OwnerInv'
  <2>1. pc[x] = "popNext" /\ ~reg[x].assigned
    BY <1>2, <1>u, AcquireReads DEF Pushing
  <2>2. ~reg'[x].assigned
    BY <1>2, <1>n, <2>1, AcquireReads DEF SameFrame
  <2> QED
    BY <1>2, <2>1, <2>2, AcquireReads, OwnerStay DEF Stray, Others
<1>3. ASSUME NEW x \in Txs, AcquireSwap(x) PROVE OwnerInv'
  <2>1. ~reg[x].assigned
    BY <1>3, <1>u, AcquireSwaps DEF Pushing
  <2> QED
    BY <1>3, <2>1, AcquireSwaps, OwnerStay DEF Stray, Others, SameFrame
<1>4. ASSUME NEW t \in Threads, ReleaseLink(t) PROVE OwnerInv'
  BY <1>4, ReleaseLinks, OwnerStay DEF Stray, Pushing, Others
<1>5. ASSUME NEW t \in Threads, ReleaseSwap(t) PROVE OwnerInv'
  BY <1>5, ReleaseSwaps, OwnerStay DEF Stray, Pushing, Others, SameFrame
<1>6. ASSUME NEW x \in Txs, Route(x) PROVE OwnerInv'
  <2>1. ~reg[x].assigned
    BY <1>6, <1>u, Routes DEF Pushing
  <2> QED
    BY <1>6, <2>1, Routes, OwnerStay DEF Stray, Others
<1>7. ASSUME NEW x \in Txs, RouteAssign(x) PROVE OwnerInv'
  <2>1. pc[x] = "assign" /\ UNCHANGED <<table, queue>> /\ Others(x)
    BY <1>7, Assigns
  <2>2. ~reg[x].assigned /\ reg[x].key \in Keys
    BY <1>t, <1>u, <2>1 DEF Pushing, RegOk, Register, Posting
  <2>3. CASE UNCHANGED owner /\ reg'[x].assigned = reg[x].assigned
    BY <2>1, <2>2, <2>3, OwnerStay DEF Stray, Others
  <2>4. CASE \E s \in Shards :
              /\ owner[reg[x].key] = None /\ owner' = [owner EXCEPT ![reg[x].key] = s]
              /\ reg'[x].key = reg[x].key /\ reg'[x].to = s /\ reg'[x].assigned = TRUE
    <3>1. PICK s \in Shards :
              /\ owner[reg[x].key] = None /\ owner' = [owner EXCEPT ![reg[x].key] = s]
              /\ reg'[x].key = reg[x].key /\ reg'[x].to = s /\ reg'[x].assigned = TRUE
      BY <2>4
    <3>3. /\ reg'[x].key = reg[x].key /\ reg'[x].to = s /\ reg'[x].assigned /\ pc'[x] = "post"
          /\ \A u \in Txs : u # x => pc'[u] = pc[u] /\ reg'[u] = reg[u]
      BY <1>7, <2>1, <3>1, Assigns DEF Others
    <3>4. owner'[reg[x].key] = s /\ \A k \in Keys : k # reg[x].key => owner'[k] = owner[k]
      BY <2>2, <3>1 DEF RouterType
    <3>5. \A r \in Shards : table[r] \subseteq Keys /\ reg[x].key \notin table[r]
      BY <1>o, <3>1 DEF TableOwned, RouterType
    <3>6. TableOwned'
      BY <1>o, <2>1, <3>4, <3>5 DEF TableOwned
    <3>7. OwnedIsUsed'
      <4> SUFFICES ASSUME NEW k \in Keys, owner'[k] # None
                   PROVE  \/ k \in table[owner'[k]]
                          \/ SynIn(k, queue[owner'[k]])
                          \/ \E y \in Txs : OnTheWay(k, y)'
        BY <2>1 DEF OwnedIsUsed, SynIn, None
      <4>1. CASE k = reg[x].key
        BY <3>3, <3>4, <4>1 DEF OnTheWay
      <4>2. CASE k # reg[x].key
        BY <1>o, <2>2, <3>3, <3>4, <4>2 DEF OwnedIsUsed, OnTheWay
      <4> QED
        BY <4>1, <4>2
    <3>8. StrayIsAlone'
      BY <1>o, <2>1, <3>3 DEF StrayIsAlone, Stray, SynIn, Pushing
    <3> QED
      BY <3>6, <3>7, <3>8 DEF OwnerInv
  <2> QED
    <3>1. \/ UNCHANGED owner /\ reg'[x].assigned = reg[x].assigned
          \/ \E s \in Shards :
               /\ owner[reg[x].key] = None /\ owner' = [owner EXCEPT ![reg[x].key] = s]
               /\ load' = [load EXCEPT ![s] = load[s] + 1]
               /\ reg'[x].key = reg[x].key /\ reg'[x].to = s /\ reg'[x].assigned = TRUE
      BY <1>7, Assigns, Zenon
    <3> QED
      BY <2>3, <2>4, <3>1
<1>8. ASSUME NEW x \in Txs, Post(x) PROVE OwnerInv'
  <2> DEFINE k == reg[x].key
             r == reg[x].to
             f == [slot |-> reg[x].slot, key |-> reg[x].key, syn |-> reg[x].syn]
  <2>1. pc[x] = "post" /\ UNCHANGED <<owner, table>> /\ k \in Keys /\ r \in Shards
    BY <1>8, <1>t DEF Post, RegOk, Register, Posting
  <2>2. \A u \in Txs : u # x => pc'[u] = pc[u] /\ reg'[u] = reg[u]
    BY <1>8, Posts DEF Others
  <2>3. CASE queue' = [queue EXCEPT ![r] = Append(queue[r], f)] /\ reg'[x] = Nothing
    <3>1. f \in Frame /\ f.key = k /\ f.syn = reg[x].syn
      BY <1>t, <2>1 DEF Frame, Register, RegOk, Posting
    <3>2. \A s \in Shards : \A j : SynIn(j, queue'[s]) <=> SynIn(j, queue[s]) \/ (s = r /\ j = k /\ reg[x].syn)
      <4> HIDE DEF f
      <4> SUFFICES ASSUME NEW s \in Shards
                   PROVE  \A j : SynIn(j, queue'[s]) <=> SynIn(j, queue[s]) \/ (s = r /\ j = k /\ reg[x].syn)
        OBVIOUS
      <4>1. CASE s = r
        <5>1. queue'[s] = Append(queue[s], f)
          BY <2>1, <2>3, <4>1 DEF RouterType
        <5> QED
          BY <1>q, <3>1, <4>1, <5>1, SynInAppend
      <4>2. CASE s # r
        BY <2>1, <2>3, <4>2 DEF RouterType
      <4> QED
        BY <4>1, <4>2
    <3>3. ~reg'[x].assigned
      BY <1>n, <2>3
    <3>4. OwnedIsUsed'
      <4> SUFFICES ASSUME NEW j \in Keys, owner[j] # None
                   PROVE  \/ j \in table[owner[j]]
                          \/ SynIn(j, queue'[owner[j]])
                          \/ \E y \in Txs : OnTheWay(j, y)'
        BY <2>1 DEF OwnedIsUsed, SynIn, None
      <4>1. owner[j] \in Shards
        BY DEF RouterType
      <4>2. OnTheWay(j, x) => SynIn(j, queue'[owner[j]])
        BY <1>t, <3>2, <4>1 DEF OnTheWay, RegOk
      <4> QED
        BY <1>o, <2>1, <2>2, <3>2, <4>1, <4>2 DEF OwnedIsUsed, OnTheWay
    <3>5. StrayIsAlone'
      <4> SUFFICES ASSUME NEW y \in Txs, Stray(y)'
                   PROVE  /\ reg'[y].key \notin table[reg'[y].to]
                          /\ ~SynIn(reg'[y].key, queue'[reg'[y].to])
        BY <2>1 DEF StrayIsAlone, SynIn
      <4>1. y # x /\ reg'[y] = reg[y] /\ Stray(y)
        BY <2>2, <3>3 DEF Stray
      <4>2. ~reg[x].syn /\ reg[y].to \in Shards
        BY <1>t, <1>u, <4>1 DEF RegOk, Stray, Register
      <4> QED
        BY <1>o, <3>2, <4>1, <4>2 DEF StrayIsAlone
    <3>6. TableOwned'
      BY <1>o, <2>1 DEF TableOwned
    <3> QED
      BY <3>4, <3>5, <3>6 DEF OwnerInv
  <2>4. CASE /\ reg[x].assigned => k \notin table[r] /\ ~SynIn(k, queue[r])
             /\ SameFrame(x) /\ UNCHANGED queue
    <3>2. reg'[x].assigned = reg[x].assigned /\ reg'[x].key = k /\ reg'[x].to = r
      BY <2>4 DEF SameFrame
    <3>3. OwnedIsUsed'
      <4> SUFFICES ASSUME NEW j \in Keys, owner[j] # None
                   PROVE  \/ j \in table[owner[j]]
                          \/ SynIn(j, queue[owner[j]])
                          \/ \E y \in Txs : OnTheWay(j, y)'
        BY <2>1, <2>4 DEF OwnedIsUsed, SynIn, None
      <4>1. \A y \in Txs : OnTheWay(j, y) => OnTheWay(j, y)'
        BY <2>1, <2>2, <3>2 DEF OnTheWay
      <4> QED
        BY <1>o, <4>1 DEF OwnedIsUsed
    <3>4. StrayIsAlone'
      <4> SUFFICES ASSUME NEW y \in Txs, Stray(y)'
                   PROVE  /\ reg'[y].key \notin table[reg'[y].to]
                          /\ ~SynIn(reg'[y].key, queue[reg'[y].to])
        BY <2>1, <2>4 DEF StrayIsAlone, SynIn
      <4>1. CASE y = x
        BY <2>4, <3>2, <4>1 DEF Stray, SynIn
      <4>2. CASE y # x
        BY <1>o, <2>2, <4>2 DEF StrayIsAlone, Stray
      <4> QED
        BY <4>1, <4>2
    <3>5. TableOwned'
      BY <1>o, <2>1 DEF TableOwned
    <3> QED
      BY <3>3, <3>4, <3>5 DEF OwnerInv
  <2> QED
    BY <1>8, <2>3, <2>4, Posts
<1>9. ASSUME NEW x \in Txs, Unassign(x) PROVE OwnerInv'
  <2>1. /\ pc[x] = "unassign" /\ reg[x].assigned /\ UNCHANGED <<table, queue>>
        /\ reg[x].key \in Keys /\ reg[x].to \in Shards /\ Release(reg[x].key, reg[x].to)
    BY <1>9, <1>t DEF Unassign, RegOk, Register
  <2>2. /\ ~reg'[x].assigned
        /\ \A u \in Txs : u # x => pc'[u] = pc[u] /\ reg'[u] = reg[u]
    BY <1>9, <1>n, GoOnly DEF Unassign
  <2>3. reg[x].key \notin table[reg[x].to]
    BY <1>o, <2>1 DEF StrayIsAlone, Stray
  <2>4. TableOwned'
    <3> SUFFICES ASSUME NEW s \in Shards, NEW k \in table[s] PROVE owner'[k] = s
      BY <2>1 DEF TableOwned
    <3>1. k \in Keys /\ owner[k] = s
      BY <1>o DEF TableOwned, RouterType
    <3> QED
      BY <2>1, <2>3, <3>1, ReleaseOwner
  <2>5. OwnedIsUsed'
    <3> SUFFICES ASSUME NEW k \in Keys, owner'[k] # None
                 PROVE  \/ k \in table[owner'[k]]
                        \/ SynIn(k, queue[owner'[k]])
                        \/ \E y \in Txs : OnTheWay(k, y)'
      BY <2>1 DEF OwnedIsUsed, SynIn, None
    <3>1. owner'[k] = owner[k] /\ ~OnTheWay(k, x)
      BY <2>1, ReleaseOwner DEF OnTheWay
    <3> QED
      BY <1>o, <2>2, <3>1 DEF OwnedIsUsed, OnTheWay
  <2>6. StrayIsAlone'
    BY SMTT(60), <1>o, <2>1, <2>2 DEF StrayIsAlone, Stray, SynIn
  <2> QED
    BY <2>4, <2>5, <2>6 DEF OwnerInv
<1>10. ASSUME NEW s \in Shards, HandleFrame(s) PROVE OwnerInv'
  <2> DEFINE f == Head(queue[s])
  <2>1. queue[s] \in Seq(Frame) /\ queue[s] # <<>> /\ queue' = [queue EXCEPT ![s] = Tail(queue[s])]
    BY <1>10, <1>q DEF HandleFrame
  <2>2. f \in Frame /\ f.key \in Keys
    <3>1. f \in Frame
      BY <2>1
    <3> QED
      BY <3>1 DEF Frame
  <2>3. \A x \in Txs : pc'[x] = pc[x] /\ reg'[x] = reg[x]
    BY <1>10, GoOnly DEF HandleFrame
  <2>4. \A r \in Shards : r # s => queue'[r] = queue[r]
    BY <2>1 DEF RouterType
  <2>5. queue'[s] = Tail(queue[s])
    BY <2>1 DEF RouterType
  <2>6. /\ \A r \in Shards : \A k : SynIn(k, queue'[r]) => SynIn(k, queue[r])
        /\ \A r \in Shards : \A k : SynIn(k, queue[r]) =>
             SynIn(k, queue'[r]) \/ (r = s /\ k = f.key /\ f.syn)
        /\ f.syn => SynIn(f.key, queue[s])
    <3>1. /\ \A k : SynIn(k, Tail(queue[s])) => SynIn(k, queue[s])
          /\ \A k : SynIn(k, queue[s]) => SynIn(k, Tail(queue[s])) \/ (f.key = k /\ f.syn)
          /\ \A k : f.key = k /\ f.syn => SynIn(k, queue[s])
      BY <2>1, SynInTail
    <3> QED
      <4> HIDE DEF f
      <4>1. \A r \in Shards : r = s \/ queue'[r] = queue[r]
        BY <2>4
      <4>2. \A k : SynIn(k, queue'[s]) => SynIn(k, queue[s])
        BY <2>5, <3>1
      <4>3. \A k : SynIn(k, queue[s]) => SynIn(k, queue'[s]) \/ (k = f.key /\ f.syn)
        BY <2>5, <3>1
      <4> QED
        BY ONLY <3>1, <4>1, <4>2, <4>3
  <2> HIDE DEF f
  <2>7. \A x \in Txs : Stray(x) => reg[x].to \in Shards /\ reg[x].key \in Keys
    BY <1>t DEF Stray, RegOk, Register
  <2>8. CASE UNCHANGED router /\ (f.syn => f.key \in table[s])
    <3>1. TableOwned'
      BY <1>o, <2>8 DEF TableOwned
    <3>2. OwnedIsUsed'
      <4> SUFFICES ASSUME NEW k \in Keys, owner[k] # None
                   PROVE  \/ k \in table[owner[k]]
                          \/ SynIn(k, queue'[owner[k]])
                          \/ \E y \in Txs : OnTheWay(k, y)'
        BY <2>8 DEF OwnedIsUsed, SynIn, None
      <4>1. owner[k] \in Shards
        BY DEF RouterType
      <4> QED
        BY <1>o, <2>3, <2>6, <2>8, <4>1 DEF OwnedIsUsed, OnTheWay
    <3>3. StrayIsAlone'
      <4> SUFFICES ASSUME NEW y \in Txs, Stray(y)
                   PROVE  /\ reg[y].key \notin table[reg[y].to]
                          /\ ~SynIn(reg[y].key, queue'[reg[y].to])
        BY <2>3, <2>8 DEF StrayIsAlone, SynIn, Stray
      <4> QED
        BY <1>o, <2>6, <2>7 DEF StrayIsAlone
    <3> QED
      BY <3>1, <3>2, <3>3 DEF OwnerInv
  <2>9. CASE /\ f.syn /\ f.key \notin table[s] /\ MayClaim(f.key, s) /\ Claimed(f.key, s)
             /\ table' = [table EXCEPT ![s] = @ \cup {f.key}]
    <3>1. owner'[f.key] = s /\ \A k \in Keys : k # f.key => owner'[k] = owner[k]
      BY <2>2, <2>9, ClaimOwner
    <3>2. table'[s] = table[s] \cup {f.key} /\ \A r \in Shards : r # s => table'[r] = table[r]
      BY <2>9 DEF RouterType
    <3>3. TableOwned'
      <4> SUFFICES ASSUME NEW r \in Shards, NEW k \in table'[r] PROVE owner'[k] = r
        BY DEF TableOwned
      <4>1. CASE k = f.key
        <5>1. r # s => owner[k] = r
          BY <1>o, <3>2 DEF TableOwned
        <5> QED
          BY <2>9, <3>1, <4>1, <5>1 DEF MayClaim
      <4>2. CASE k # f.key
        BY <1>o, <3>1, <3>2, <4>2 DEF TableOwned, RouterType
      <4> QED
        BY <4>1, <4>2
    <3>4. OwnedIsUsed'
      <4> SUFFICES ASSUME NEW k \in Keys, owner'[k] # None
                   PROVE  \/ k \in table'[owner'[k]]
                          \/ SynIn(k, queue'[owner'[k]])
                          \/ \E y \in Txs : OnTheWay(k, y)'
        BY DEF OwnedIsUsed, SynIn, None
      <4>1. CASE k = f.key
        BY <3>1, <3>2, <4>1
      <4>2. CASE k # f.key
        <5>1. owner'[k] = owner[k] /\ owner[k] \in Shards
          BY <3>1, <4>2 DEF RouterType
        <5> QED
          BY <1>o, <2>3, <2>6, <3>2, <4>2, <5>1 DEF OwnedIsUsed, OnTheWay
      <4> QED
        BY <4>1, <4>2
    <3>5. StrayIsAlone'
      <4> SUFFICES ASSUME NEW y \in Txs, Stray(y)
                   PROVE  /\ reg[y].key \notin table'[reg[y].to]
                          /\ ~SynIn(reg[y].key, queue'[reg[y].to])
        BY <2>3 DEF StrayIsAlone, SynIn, Stray
      <4> QED
        BY <1>o, <2>6, <2>7, <2>9, <3>2 DEF StrayIsAlone
    <3> QED
      BY <3>3, <3>4, <3>5 DEF OwnerInv
  <2>10. CASE f.key \notin table[s] /\ Release(f.key, s) /\ UNCHANGED table
    <3>1. /\ \A k \in Keys : k # f.key => owner'[k] = owner[k]
          /\ owner'[f.key] # None => owner'[f.key] = owner[f.key] /\ owner[f.key] # s
      BY <2>2, <2>10, ReleaseOwner
    <3>2. TableOwned'
      <4> SUFFICES ASSUME NEW r \in Shards, NEW k \in table[r] PROVE owner'[k] = r
        BY <2>10 DEF TableOwned
      <4>1. k \in Keys /\ owner[k] = r
        BY <1>o DEF TableOwned, RouterType
      <4> QED
        BY <2>2, <2>10, <4>1, ReleaseOwner
    <3>3. OwnedIsUsed'
      <4> SUFFICES ASSUME NEW k \in Keys, owner'[k] # None
                   PROVE  \/ k \in table[owner'[k]]
                          \/ SynIn(k, queue'[owner'[k]])
                          \/ \E y \in Txs : OnTheWay(k, y)'
        BY <2>10 DEF OwnedIsUsed, SynIn, None
      <4>1. owner'[k] = owner[k] /\ owner[k] \in Shards /\ ~(owner[k] = s /\ k = f.key)
        BY <3>1 DEF RouterType
      <4> QED
        BY <1>o, <2>3, <2>6, <4>1 DEF OwnedIsUsed, OnTheWay
    <3>4. StrayIsAlone'
      <4> SUFFICES ASSUME NEW y \in Txs, Stray(y)
                   PROVE  /\ reg[y].key \notin table[reg[y].to]
                          /\ ~SynIn(reg[y].key, queue'[reg[y].to])
        BY <2>3, <2>10 DEF StrayIsAlone, SynIn, Stray
      <4> QED
        BY <1>o, <2>6, <2>7 DEF StrayIsAlone
    <3> QED
      BY <3>2, <3>3, <3>4 DEF OwnerInv
  <2> QED
    BY <1>10, <2>8, <2>9, <2>10 DEF HandleFrame, HandleSyn, f
<1>11. ASSUME NEW s \in Shards, Inbound(s) PROVE OwnerInv'
  <2>1. PICK k \in Keys :
          /\ k \notin table[s] /\ MayClaim(k, s) /\ Claimed(k, s)
          /\ \A x \in Txs : ~(reg[x].key = k /\ reg[x].assigned)
          /\ table' = [table EXCEPT ![s] = @ \cup {k}]
    BY <1>11 DEF Inbound
  <2>2. UNCHANGED <<queue, pc, reg>>
    BY <1>11 DEF Inbound
  <2>3. owner'[k] = s /\ \A j \in Keys : j # k => owner'[j] = owner[j]
    BY <2>1, ClaimOwner
  <2>4. table'[s] = table[s] \cup {k} /\ \A r \in Shards : r # s => table'[r] = table[r]
    BY <2>1 DEF RouterType
  <2>5. TableOwned'
    <3> SUFFICES ASSUME NEW r \in Shards, NEW j \in table'[r] PROVE owner'[j] = r
      BY DEF TableOwned
    <3>1. CASE j = k
      <4>1. r # s => owner[j] = r
        BY <1>o, <2>4 DEF TableOwned
      <4> QED
        BY <2>1, <2>3, <3>1, <4>1 DEF MayClaim
    <3>2. CASE j # k
      BY <1>o, <2>3, <2>4, <3>2 DEF TableOwned, RouterType
    <3> QED
      BY <3>1, <3>2
  <2>6. OwnedIsUsed'
    <3> SUFFICES ASSUME NEW j \in Keys, owner'[j] # None
                 PROVE  \/ j \in table'[owner'[j]]
                        \/ SynIn(j, queue[owner'[j]])
                        \/ \E y \in Txs : OnTheWay(j, y)'
      BY <2>2 DEF OwnedIsUsed, SynIn, None
    <3>1. CASE j = k
      BY <2>3, <2>4, <3>1
    <3>2. CASE j # k
      <4>1. owner'[j] = owner[j] /\ owner[j] \in Shards
        BY <2>3, <3>2 DEF RouterType
      <4> QED
        BY <1>o, <2>2, <2>4, <4>1 DEF OwnedIsUsed, OnTheWay
    <3> QED
      BY <3>1, <3>2
  <2>7. StrayIsAlone'
    <3> SUFFICES ASSUME NEW y \in Txs, Stray(y)
                 PROVE  /\ reg[y].key \notin table'[reg[y].to]
                        /\ ~SynIn(reg[y].key, queue[reg[y].to])
      BY <2>2 DEF StrayIsAlone, SynIn, Stray
    <3>1. reg[y].to \in Shards /\ reg[y].key # k
      BY <1>t, <2>1 DEF Stray, RegOk, Register
    <3> QED
      BY <1>o, <2>4, <3>1 DEF StrayIsAlone
  <2> QED
    BY <2>5, <2>6, <2>7 DEF OwnerInv
<1>12. ASSUME NEW s \in Shards, Reap(s) PROVE OwnerInv'
  <2>1. PICK k \in table[s] : table' = [table EXCEPT ![s] = @ \ {k}] /\ Release(k, s)
    BY <1>12 DEF Reap
  <2>2. k \in Keys /\ owner[k] = s /\ UNCHANGED <<queue, pc, reg>>
    BY <1>12, <1>o DEF Reap, TableOwned, RouterType
  <2>3. owner'[k] = None /\ \A j \in Keys : j # k => owner'[j] = owner[j]
    BY <2>1, <2>2, ReleaseOwner
  <2>4. table'[s] = table[s] \ {k} /\ \A r \in Shards : r # s => table'[r] = table[r]
    BY <2>1 DEF RouterType
  <2>5. TableOwned'
    <3> SUFFICES ASSUME NEW r \in Shards, NEW j \in table'[r] PROVE owner'[j] = r
      BY DEF TableOwned
    <3>1. j \in table[r] /\ (r = s => j # k)
      BY <2>4
    <3>2. j \in Keys /\ owner[j] = r
      BY <1>o, <3>1 DEF TableOwned, RouterType
    <3> QED
      BY <2>2, <2>3, <3>1, <3>2
  <2>6. OwnedIsUsed'
    <3> SUFFICES ASSUME NEW j \in Keys, owner'[j] # None
                 PROVE  \/ j \in table'[owner'[j]]
                        \/ SynIn(j, queue[owner'[j]])
                        \/ \E y \in Txs : OnTheWay(j, y)'
      BY <2>2 DEF OwnedIsUsed, SynIn, None
    <3>1. j # k /\ owner'[j] = owner[j] /\ owner[j] \in Shards
      BY <2>2, <2>3 DEF RouterType
    <3> QED
      BY <1>o, <2>2, <2>4, <3>1 DEF OwnedIsUsed, OnTheWay
  <2>7. StrayIsAlone'
    <3> SUFFICES ASSUME NEW y \in Txs, Stray(y)
                 PROVE  /\ reg[y].key \notin table'[reg[y].to]
                        /\ ~SynIn(reg[y].key, queue[reg[y].to])
      BY <2>2 DEF StrayIsAlone, SynIn, Stray
    <3>1. reg[y].to \in Shards
      BY <1>t DEF Stray, RegOk, Register
    <3> QED
      BY <1>o, <2>4, <3>1 DEF StrayIsAlone
  <2> QED
    BY <2>5, <2>6, <2>7 DEF OwnerInv
<1>13. ASSUME UNCHANGED vars PROVE OwnerInv'
  BY <1>13, OwnerStay DEF vars, Stray
<1> QED
  BY <1>1, <1>2, <1>3, <1>4, <1>5, <1>6, <1>7, <1>8, <1>9, <1>10, <1>11, <1>12, <1>13 DEF Next

LEMMA OwnIsFinite ==
  ASSUME NatRouterAssumption
  PROVE  \A s : IsFiniteSet({k \in Keys : owner[k] = s}) /\ IsFiniteSet({k \in Keys : owner'[k] = s})
<1> SUFFICES ASSUME NEW s
             PROVE  IsFiniteSet({k \in Keys : owner[k] = s}) /\ IsFiniteSet({k \in Keys : owner'[k] = s})
  OBVIOUS
<1>1. IsFiniteSet(Keys)
  BY DEF NatRouterAssumption
<1> QED
  BY <1>1, FS_Subset

LEMMA LoadRelease ==
  ASSUME NatRouterAssumption, RouterType, LoadInv, NEW k \in Keys, NEW s \in Shards, Release(k, s)
  PROVE  LoadInv'
<1> DEFINE Own(r) == {j \in Keys : owner[j] = r}
           OwnNext(r) == {j \in Keys : owner'[j] = r}
<1> SUFFICES ASSUME NEW r \in Shards PROVE load'[r] = Cardinality(OwnNext(r))
  BY DEF LoadInv
<1>1. load[r] = Cardinality(Own(r)) /\ IsFiniteSet(Own(r))
  BY OwnIsFinite DEF LoadInv
<1>2. CASE r = s /\ owner[k] = s
  <2>1. OwnNext(r) = Own(r) \ {k} /\ k \in Own(r)
    BY <1>2, ReleaseOwner, RouterConstants
  <2>2. Cardinality(OwnNext(r)) = Cardinality(Own(r)) - 1
    BY <1>1, <2>1, FS_RemoveElement
  <2>3. load'[r] = load[r] - 1
    BY <1>2 DEF Release, Unloaded, RouterType
  <2> QED
    BY <1>1, <2>2, <2>3
<1>3. CASE ~(r = s /\ owner[k] = s)
  <2>1. OwnNext(r) = Own(r)
    BY <1>3, ReleaseOwner, RouterConstants
  <2>2. load'[r] = load[r]
    BY <1>3 DEF Release, Unloaded, RouterType
  <2> QED
    BY <1>1, <2>1, <2>2
<1> QED
  BY <1>2, <1>3

LEMMA LoadTake ==
  ASSUME NatRouterAssumption, RouterType, LoadInv, NEW k \in Keys, NEW s \in Shards,
         owner[k] = None, owner' = [owner EXCEPT ![k] = s], load' = [load EXCEPT ![s] = load[s] + 1]
  PROVE  LoadInv'
<1> DEFINE Own(r) == {j \in Keys : owner[j] = r}
           OwnNext(r) == {j \in Keys : owner'[j] = r}
<1> SUFFICES ASSUME NEW r \in Shards PROVE load'[r] = Cardinality(OwnNext(r))
  BY DEF LoadInv
<1>1. load[r] = Cardinality(Own(r)) /\ IsFiniteSet(Own(r))
  BY OwnIsFinite DEF LoadInv
<1>o. owner'[k] = s /\ \A j \in Keys : j # k => owner'[j] = owner[j]
  BY DEF RouterType
<1>2. CASE r = s
  <2>1. OwnNext(r) = Own(r) \cup {k} /\ k \notin Own(r)
    BY <1>2, <1>o, RouterConstants
  <2>2. Cardinality(OwnNext(r)) = Cardinality(Own(r)) + 1
    BY <1>1, <2>1, FS_AddElement
  <2>3. load'[r] = load[r] + 1
    BY <1>2 DEF RouterType
  <2> QED
    BY <1>1, <2>2, <2>3
<1>3. CASE r # s
  <2>1. OwnNext(r) = Own(r)
    BY <1>3, <1>o, RouterConstants
  <2>2. load'[r] = load[r]
    BY <1>3 DEF RouterType
  <2> QED
    BY <1>1, <2>1, <2>2
<1> QED
  BY <1>2, <1>3

LEMMA LoadStay ==
  ASSUME LoadInv, UNCHANGED <<owner, load>>
  PROVE  LoadInv'
  BY DEF LoadInv

LEMMA LoadClaim ==
  ASSUME NatRouterAssumption, RouterType, LoadInv, NEW k \in Keys, NEW s \in Shards,
         MayClaim(k, s), Claimed(k, s)
  PROVE  LoadInv'
<1>1. CASE owner[k] = None
  BY <1>1, LoadTake DEF Claimed
<1>2. CASE owner[k] # None
  <2>1. UNCHANGED <<owner, load>>
    BY <1>2 DEF MayClaim, Claimed, RouterType
  <2> QED
    BY <2>1, LoadStay
<1> QED
  BY <1>1, <1>2

LEMMA LoadStep ==
  ASSUME NatRouterAssumption, RouterType, RegInv, LoadInv, [Next]_vars
  PROVE  LoadInv'
<1>t. \A t \in Threads : reg[t] \in Register /\ RegOk(t, pc[t], reg[t])
  BY SMTT(60) DEF RouterType, RegInv
<1>1. ASSUME NEW x \in Txs,
             Acquire(x) \/ AcquireNext(x) \/ AcquireSwap(x) \/ Route(x) \/ Post(x)
      PROVE  LoadInv'
  BY <1>1, LoadStay DEF Acquire, AcquireNext, AcquireSwap, Route, Post, router
<1>2. ASSUME NEW t \in Threads, ReleaseLink(t) \/ ReleaseSwap(t) PROVE LoadInv'
  BY <1>2, LoadStay DEF ReleaseLink, ReleaseSwap, router
<1>3. ASSUME NEW x \in Txs, RouteAssign(x) PROVE LoadInv'
  <2>1. reg[x].key \in Keys
    BY <1>3, <1>t, RouterConstants, Assigns DEF RegOk, Register, Posting
  <2>2. CASE UNCHANGED <<owner, load>>
    BY <2>2, LoadStay
  <2>3. CASE owner[reg[x].key] = None
    <3>1. PICK s \in Shards :
            /\ owner' = [owner EXCEPT ![reg[x].key] = s]
            /\ load' = [load EXCEPT ![s] = load[s] + 1]
      BY <1>3, <2>3 DEF RouteAssign
    <3> QED
      BY <2>1, <2>3, <3>1, LoadTake
  <2> QED
    BY <1>3, <2>2, <2>3 DEF RouteAssign
<1>4. ASSUME NEW x \in Txs, Unassign(x) PROVE LoadInv'
  <2>1. reg[x].key \in Keys /\ reg[x].to \in Shards
    BY <1>4, <1>t, RouterConstants, Unassigns DEF RegOk, Register
  <2> QED
    BY <1>4, <2>1, Unassigns, LoadRelease
<1>5. ASSUME NEW s \in Shards, HandleFrame(s) PROVE LoadInv'
  <2>1. Head(queue[s]) \in Frame
    BY <1>5 DEF HandleFrame, RouterType
  <2>2. Head(queue[s]).key \in Keys
    BY <2>1 DEF Frame
  <2>3. \/ UNCHANGED <<owner, load>>
        \/ Release(Head(queue[s]).key, s)
        \/ MayClaim(Head(queue[s]).key, s) /\ Claimed(Head(queue[s]).key, s)
    BY <1>5 DEF HandleFrame, HandleSyn, router
  <2> QED
    BY <2>2, <2>3, LoadStay, LoadRelease, LoadClaim
<1>6. ASSUME NEW s \in Shards, Inbound(s) PROVE LoadInv'
  BY <1>6, LoadClaim DEF Inbound
<1>7. ASSUME NEW s \in Shards, Reap(s) PROVE LoadInv'
  <2>1. \E k \in Keys : Release(k, s)
    BY <1>7 DEF Reap, RouterType
  <2> QED
    BY <2>1, LoadRelease
<1>8. ASSUME UNCHANGED vars PROVE LoadInv'
  BY <1>8, LoadStay DEF vars
<1> QED
  BY <1>1, <1>2, <1>3, <1>4, <1>5, <1>6, <1>7, <1>8 DEF Next


LEMMA SlotStay ==
  ASSUME NatRouterAssumption, RouterType, SlotInv, UNCHANGED queue,
         \A t \in Threads : reg'[t].slot \in {reg[t].slot, Sentinel}
  PROVE  SlotInv' /\ \A i \in 0 .. Slots - 1 : Held(i)' => Held(i)
<1>1. \A s \in Shards : \A j \in DOMAIN queue[s] : queue[s][j].slot # Sentinel
  <2> SUFFICES ASSUME NEW s \in Shards, NEW j \in DOMAIN queue[s] PROVE queue[s][j].slot # Sentinel
    OBVIOUS
  <2>1. queue[s][j] \in Frame
    BY DEF RouterType
  <2> QED
    BY <2>1, RouterConstants DEF Frame
<1>2. SlotInv'
  BY <1>1 DEF SlotInv, Sentinel
<1>3. \A i \in 0 .. Slots - 1 : Held(i)' => Held(i)
  BY RouterConstants DEF Held
<1> QED
  BY <1>2, <1>3

LEMMA SlotPops ==
  ASSUME NatRouterAssumption, RouterType, SlotInv, UNCHANGED queue,
         NEW x \in Threads, NEW i \in 0 .. Slots - 1, ~Held(i), reg'[x].slot = i,
         \A t \in Threads : t # x => reg'[t].slot = reg[t].slot
  PROVE  SlotInv' /\ \A j \in 0 .. Slots - 1 : Held(j)' => Held(j) \/ j = i
<1>1. \A t \in Threads : reg[t].slot # i
  BY DEF Held
<1>2. \A s \in Shards : \A j \in DOMAIN queue[s] : queue[s][j].slot # i
  BY DEF Held
<1>3. SlotInv'
  BY <1>1, <1>2 DEF SlotInv, Sentinel
<1>4. \A j \in 0 .. Slots - 1 : Held(j)' => Held(j) \/ j = i
  BY DEF Held
<1> QED
  BY <1>3, <1>4

LEMMA SlotPosts ==
  ASSUME NatRouterAssumption, RouterType, SlotInv, NEW x \in Threads, NEW r \in Shards,
         NEW f \in Frame,
         f.slot = reg[x].slot, queue' = [queue EXCEPT ![r] = Append(queue[r], f)],
         reg'[x].slot = Sentinel, \A t \in Threads : t # x => reg'[t].slot = reg[t].slot
  PROVE  SlotInv' /\ \A i \in 0 .. Slots - 1 : Held(i)' => Held(i)
<1> DEFINE n == Len(queue[r]) + 1
<1>1. queue[r] \in Seq(Frame) /\ \A s \in Shards : s # r => queue'[s] = queue[s]
  BY DEF RouterType
<1>2. queue'[r] = Append(queue[r], f)
  BY DEF RouterType
<1>3. /\ n \in Nat /\ n \notin DOMAIN queue[r] /\ DOMAIN queue'[r] = DOMAIN queue[r] \cup {n}
      /\ \A i \in DOMAIN queue[r] : queue'[r][i] = queue[r][i]
      /\ queue'[r][n] = f
  BY <1>1, <1>2
<1> HIDE DEF n
<1>s. f.slot # Sentinel /\ \A s \in Shards : \A j \in DOMAIN queue[s] : queue[s][j].slot # Sentinel
  <2> SUFFICES ASSUME NEW s \in Shards, NEW j \in DOMAIN queue[s]
               PROVE f.slot # Sentinel /\ queue[s][j].slot # Sentinel
    BY RouterConstants DEF Frame
  <2>1. queue[s][j] \in Frame
    BY DEF RouterType
  <2> QED
    BY <2>1, RouterConstants DEF Frame
<1>4. \A s \in Shards : \A j \in DOMAIN queue'[s] :
        \/ j \in DOMAIN queue[s] /\ queue'[s][j] = queue[s][j]
        \/ s = r /\ j = n /\ queue'[s][j] = f
  BY <1>1, <1>3
<1>5. \A t, u \in Threads : t # u /\ reg'[t].slot = reg'[u].slot => reg'[t].slot = Sentinel
  BY DEF SlotInv
<1>6. \A t \in Threads, s \in Shards : \A j \in DOMAIN queue'[s] : queue'[s][j].slot # reg'[t].slot
  <2> SUFFICES ASSUME NEW t \in Threads, NEW s \in Shards, NEW j \in DOMAIN queue'[s]
               PROVE  queue'[s][j].slot # reg'[t].slot
    OBVIOUS
  <2>1. CASE t = x
    BY <1>4, <1>s, <2>1
  <2>2. CASE t # x
    <3>1. reg[t].slot # reg[x].slot
      BY <1>s, <2>2 DEF SlotInv
    <3> QED
      BY <1>4, <2>2, <3>1 DEF SlotInv
  <2> QED
    BY <2>1, <2>2
<1>7. \A s, o \in Shards : \A i \in DOMAIN queue'[s], j \in DOMAIN queue'[o] :
        queue'[s][i].slot = queue'[o][j].slot => s = o /\ i = j
  <2> SUFFICES ASSUME NEW s \in Shards, NEW o \in Shards,
                      NEW i \in DOMAIN queue'[s], NEW j \in DOMAIN queue'[o],
                      queue'[s][i].slot = queue'[o][j].slot
               PROVE  s = o /\ i = j
    OBVIOUS
  <2>1. \A q \in Shards : \A k \in DOMAIN queue[q] : queue[q][k].slot # f.slot
    BY DEF SlotInv
  <2>2. CASE i \in DOMAIN queue[s] /\ queue'[s][i] = queue[s][i]
    BY <1>4, <2>1, <2>2 DEF SlotInv
  <2>3. CASE s = r /\ i = n /\ queue'[s][i] = f
    BY <1>4, <2>1, <2>3
  <2> QED
    BY <1>4, <2>2, <2>3
<1>8. SlotInv'
  BY <1>5, <1>6, <1>7 DEF SlotInv, Sentinel
<1>9. ASSUME NEW i \in 0 .. Slots - 1, Held(i)' PROVE Held(i)
  <2>1. CASE \E t \in Threads : reg'[t].slot = i
    BY <2>1, RouterConstants DEF Held
  <2>2. CASE \E s \in Shards : \E j \in DOMAIN queue'[s] : queue'[s][j].slot = i
    BY <1>4, <2>2 DEF Held
  <2> QED
    BY <1>9, <2>1, <2>2 DEF Held
<1> QED
  BY <1>8, <1>9

LEMMA SlotHandles ==
  ASSUME NatRouterAssumption, RouterType, SlotInv, NEW s \in Shards, queue[s] # <<>>,
         reg[s].slot = Sentinel, queue' = [queue EXCEPT ![s] = Tail(queue[s])],
         reg'[s].slot = Head(queue[s]).slot, \A t \in Threads : t # s => reg'[t].slot = reg[t].slot
  PROVE  SlotInv' /\ \A i \in 0 .. Slots - 1 : Held(i)' => Held(i)
<1>1. queue[s] \in Seq(Frame) /\ \A r \in Shards : r # s => queue'[r] = queue[r]
  BY DEF RouterType
<1>2. queue'[s] = Tail(queue[s])
  BY DEF RouterType
<1>3. /\ 1 \in DOMAIN queue[s] /\ Head(queue[s]) = queue[s][1]
      /\ \A i \in DOMAIN queue'[s] : i + 1 \in DOMAIN queue[s] /\ i + 1 # 1 /\ queue'[s][i] = queue[s][i + 1]
  <2> DEFINE q == queue[s]
  <2> HIDE DEF q
  <2>1. q \in Seq(Frame) /\ q # <<>>
    BY <1>1 DEF q
  <2>2. /\ Len(q) \in Nat \ {0} /\ DOMAIN q = 1 .. Len(q) /\ DOMAIN Tail(q) = 1 .. Len(q) - 1
        /\ \A i \in 1 .. Len(q) - 1 : Tail(q)[i] = q[i + 1]
        /\ Head(q) = q[1]
    BY <2>1
  <2>3. /\ 1 \in DOMAIN q /\ Head(q) = q[1]
        /\ \A i \in DOMAIN Tail(q) : i + 1 \in DOMAIN q /\ i + 1 # 1 /\ Tail(q)[i] = q[i + 1]
    BY <2>2
  <2> QED
    BY <1>2, <2>3 DEF q
<1>d. \A r \in Shards : DOMAIN queue[r] \subseteq Int /\ DOMAIN queue'[r] \subseteq Int
  BY <1>1, <1>2 DEF RouterType
<1> DEFINE At(r, i) == IF r = s THEN i + 1 ELSE i
<1>4. \A r \in Shards : \A i \in DOMAIN queue'[r] :
        At(r, i) \in DOMAIN queue[r] /\ queue'[r][i] = queue[r][At(r, i)]
  BY <1>1, <1>3
<1>5. \A i \in DOMAIN queue'[s] : At(s, i) # 1
  BY <1>3
<1>6. \A r \in Shards : \A i, j \in DOMAIN queue'[r] : At(r, i) = At(r, j) => i = j
  BY <1>d
<1> HIDE DEF At
<1>t. s \in Threads
  BY RouterConstants
<1>7. \A r \in Shards : \A i \in DOMAIN queue'[r] : queue'[r][i].slot # queue[s][1].slot
  BY <1>3, <1>4, <1>5 DEF SlotInv
<1>8. \A t, u \in Threads : t # u /\ reg'[t].slot = reg'[u].slot => reg'[t].slot = Sentinel
  BY <1>3, <1>t DEF SlotInv
<1>9. \A t \in Threads, r \in Shards : \A j \in DOMAIN queue'[r] : queue'[r][j].slot # reg'[t].slot
  BY <1>3, <1>4, <1>7 DEF SlotInv
<1>10. \A q, r \in Shards : \A i \in DOMAIN queue'[q], j \in DOMAIN queue'[r] :
         queue'[q][i].slot = queue'[r][j].slot => q = r /\ i = j
  <2> SUFFICES ASSUME NEW q \in Shards, NEW r \in Shards,
                      NEW i \in DOMAIN queue'[q], NEW j \in DOMAIN queue'[r],
                      queue'[q][i].slot = queue'[r][j].slot
               PROVE  q = r /\ i = j
    OBVIOUS
  <2>1. q = r /\ At(q, i) = At(r, j)
    BY <1>4 DEF SlotInv
  <2> QED
    BY <1>6, <2>1
<1>11. SlotInv'
  BY <1>8, <1>9, <1>10 DEF SlotInv, Sentinel
<1>12. ASSUME NEW i \in 0 .. Slots - 1, Held(i)' PROVE Held(i)
  <2>1. CASE \E t \in Threads : reg'[t].slot = i
    BY <1>3, <2>1 DEF Held
  <2>2. CASE \E r \in Shards : \E j \in DOMAIN queue'[r] : queue'[r][j].slot = i
    BY <1>4, <2>2 DEF Held
  <2> QED
    BY <1>12, <2>1, <2>2 DEF Held
<1> QED
  BY <1>11, <1>12

\* A step hands a slot on, puts one back, or takes the head of the list.
LEMMA SlotStep ==
  ASSUME NatRouterAssumption, RouterType, RegInv, SlotInv, FreeInv, [Next]_vars
  PROVE  /\ SlotInv'
         /\ \A i \in 0 .. Slots - 1 : Held(i)' =>
              Held(i) \/ (i = head.idx /\ \E x \in Txs : AcquireSwap(x) /\ head = reg[x].h)
<1> DEFINE Taken(i) == i = head.idx /\ \E x \in Txs : AcquireSwap(x) /\ head = reg[x].h
<1> SUFFICES SlotInv' /\ \A i \in 0 .. Slots - 1 : Held(i)' => Held(i) \/ Taken(i)
  OBVIOUS
<1> HIDE DEF Taken
<1>t. \A t \in Threads : reg[t] \in Register /\ RegOk(t, pc[t], reg[t])
  BY DEF RouterType, RegInv
<1>n. Nothing.slot = Sentinel
  BY DEF Nothing
<1>c. Txs \subseteq Threads /\ Shards \subseteq Threads
  BY RouterConstants
<1>1. ASSUME NEW x \in Txs,
             Acquire(x) \/ AcquireNext(x) \/ Route(x) \/ RouteAssign(x) \/ Unassign(x)
      PROVE  SlotInv' /\ \A i \in 0 .. Slots - 1 : Held(i)' => Held(i)
  <2>1. UNCHANGED queue /\ Others(x) /\ reg'[x].slot \in {reg[x].slot, Sentinel}
    BY <1>1, <1>n, Acquires, AcquireReads, Routes, Assigns, Unassigns
  <2> QED
    BY <2>1, SlotStay DEF Others
<1>2. ASSUME NEW x \in Txs, AcquireSwap(x)
      PROVE  SlotInv' /\ \A i \in 0 .. Slots - 1 : Held(i)' => Held(i) \/ Taken(i)
  <2>1. CASE head = reg[x].h
    <3>1. reg[x].h.idx # Sentinel /\ reg'[x].slot = head.idx /\ Others(x) /\ UNCHANGED queue
      BY <1>2, <1>c, <1>t, <2>1, AcquireSwaps DEF RegOk
    <3>2. head.idx \in 0 .. Slots - 1
      BY <1>c, <1>t, <2>1, <3>1, RegisterUpdates, RouterConstants
    <3>3. ~Held(head.idx)
      BY <2>1, <3>1, <3>2 DEF FreeInv, ListFrom
    <3>4. SlotInv' /\ \A i \in 0 .. Slots - 1 : Held(i)' => Held(i) \/ i = head.idx
      BY <1>c, <3>1, <3>2, <3>3, SlotPops DEF Others
    <3> QED
      BY <1>2, <2>1, <3>4 DEF Taken
  <2>2. CASE head # reg[x].h
    <3>1. UNCHANGED queue /\ Others(x) /\ reg'[x].slot = reg[x].slot
      BY <1>2, <2>2, AcquireSwaps
    <3> QED
      BY <3>1, SlotStay DEF Others
  <2> QED
    BY <2>1, <2>2
<1>3. ASSUME NEW t \in Threads, ReleaseLink(t) \/ ReleaseSwap(t)
      PROVE  SlotInv' /\ \A i \in 0 .. Slots - 1 : Held(i)' => Held(i)
  <2>1. UNCHANGED queue /\ Others(t) /\ reg'[t].slot \in {reg[t].slot, Sentinel}
    BY <1>3, ReleaseLinks, ReleaseSwaps
  <2> QED
    BY <2>1, SlotStay DEF Others
<1>4. ASSUME NEW x \in Txs, Post(x)
      PROVE  SlotInv' /\ \A i \in 0 .. Slots - 1 : Held(i)' => Held(i)
  <2> DEFINE f == [slot |-> reg[x].slot, key |-> reg[x].key, syn |-> reg[x].syn]
  <2>1. CASE queue' = [queue EXCEPT ![reg[x].to] = Append(queue[reg[x].to], f)] /\ reg'[x] = Nothing
    <3>1. f \in Frame /\ f.slot = reg[x].slot /\ reg[x].to \in Shards
      BY <1>4, <1>c, <1>t, Posts, RouterConstants DEF Frame, Register, RegOk, Posting
    <3> HIDE DEF f
    <3> QED
      BY ZenonT(60), <1>4, <1>c, <1>n, <2>1, <3>1, Posts, SlotPosts DEF Others
  <2>2. CASE UNCHANGED queue /\ reg'[x].slot = reg[x].slot
    BY <1>4, <2>2, Posts, SlotStay DEF Others
  <2> QED
    BY <1>4, <2>1, <2>2, Posts
<1>5. ASSUME NEW s \in Shards, HandleFrame(s)
      PROVE  SlotInv' /\ \A i \in 0 .. Slots - 1 : Held(i)' => Held(i)
  <2>1. reg[s].slot = Sentinel
    BY <1>5, <1>c, <1>t, Handles DEF RegOk, Posting, Pushing
  <2> QED
    BY <1>5, <2>1, Handles, SlotHandles DEF Others
<1>6. ASSUME UNCHANGED <<queue, reg>>
      PROVE  SlotInv' /\ \A i \in 0 .. Slots - 1 : Held(i)' => Held(i)
  BY <1>6, SlotStay
<1> QED
  BY <1>1, <1>2, <1>3, <1>4, <1>5, <1>6 DEF Next, vars, Inbound, Reap


LEMMA TagStep ==
  ASSUME NatRouterAssumption, RouterType, RouterType', RegInv, RegInv', SlotInv, TagInv, FreeInv,
         [Next]_vars
  PROVE  TagInv'
<1>t. \A t \in Threads : reg[t] \in Register /\ RegOk(t, pc[t], reg[t]) /\ reg[t].h \in Tagged
  BY RegisterUpdates DEF RouterType, RegInv
<1>h. head.tag \in Nat /\ \A t \in Threads : reg[t].h.tag \in Nat
  BY <1>t DEF RouterType, Tagged
<1>c. Txs \subseteq Threads /\ Shards \subseteq Threads
  BY RouterConstants
<1> DEFINE Good(t) == pc[t] \in Reading =>
                        /\ reg[t].h.tag <= head.tag
                        /\ reg[t].h.tag = head.tag => reg[t].h = head
                        /\ reg[t].h.tag = head.tag /\ pc[t] = "popSwap" => reg[t].nxt = next[head.idx]
                        /\ pc[t] = "pushSwap" => next[reg[t].slot] = reg[t].h.idx
           GoodNext(t) == pc'[t] \in Reading =>
                        /\ reg'[t].h.tag <= head'.tag
                        /\ reg'[t].h.tag = head'.tag => reg'[t].h = head'
                        /\ reg'[t].h.tag = head'.tag /\ pc'[t] = "popSwap" => reg'[t].nxt = next'[head'.idx]
                        /\ pc'[t] = "pushSwap" => next'[reg'[t].slot] = reg'[t].h.idx
<1>g. \A t \in Threads : Good(t)
  BY DEF TagInv
<1> SUFFICES ASSUME NEW u \in Threads PROVE GoodNext(u)
  BY DEF TagInv, Reading
\* A thread that did not move, while the head stayed or its tag grew.
<1>s. ASSUME pc'[u] = pc[u], reg'[u] = reg[u], UNCHANGED <<head, next>> PROVE GoodNext(u)
  BY <1>g, <1>s
<1>m. ASSUME pc'[u] = pc[u], reg'[u] = reg[u], UNCHANGED next, NEW i,
             head' = [tag |-> head.tag + 1, idx |-> i]
      PROVE  GoodNext(u)
  <2>1. head'.tag = head.tag + 1
    BY <1>m
  <2> QED
    BY <1>g, <1>h, <1>m, <2>1
<1>1. ASSUME NEW x \in Txs, Acquire(x) PROVE GoodNext(u)
  <2>1. CASE u = x
    <3>1. reg'[u].h = head /\ head' = head /\ pc'[u] = "popNext"
      BY <1>1, <2>1, Acquires
    <3> QED
      BY <1>h, <3>1
  <2> QED
    BY <1>1, <1>s, <2>1, Acquires DEF Others
<1>2. ASSUME NEW x \in Txs, AcquireNext(x) PROVE GoodNext(u)
  <2>1. CASE u = x
    BY <1>2, <1>g, <2>1, AcquireReads DEF Reading
  <2> QED
    BY <1>2, <1>s, <2>1, AcquireReads DEF Others
<1>3. ASSUME NEW x \in Txs, AcquireSwap(x) PROVE GoodNext(u)
  <2>1. CASE u = x
    BY <1>3, <1>h, <2>1, AcquireSwaps DEF Reading
  <2>2. CASE u # x
    BY <1>3, <1>s, <1>m, <2>2, AcquireSwaps DEF Others
  <2> QED
    BY <2>1, <2>2
<1>4. ASSUME NEW t \in Threads, ReleaseLink(t) PROVE GoodNext(u)
  <2>1. /\ pc[t] = "pushLink" /\ pc'[t] = "pushSwap" /\ reg'[u] = reg[u] /\ (u # t => pc'[u] = pc[u])
        /\ head' = head /\ next' = [next EXCEPT ![reg[t].slot] = reg[t].h.idx]
    BY <1>4, ReleaseLinks DEF Others
  <2>2. reg[t].slot # Sentinel /\ reg[t].slot \in 0 .. Slots - 1
    BY <1>t, <2>1, RegisterUpdates, RouterConstants DEF RegOk, Pushing
  <2>3. next'[reg[t].slot] = reg[t].h.idx
    BY <2>1, <2>2 DEF RouterType
  <2>4. CASE u = t
    BY <1>g, <2>1, <2>3, <2>4 DEF Reading
  <2>5. CASE u # t
    <3>1. \A i : i # reg[t].slot => next'[i] = next[i]
      BY <2>1 DEF RouterType
    <3>2. pc[u] = "pushSwap" => reg[u].slot # reg[t].slot
      BY <2>2, <2>5 DEF SlotInv
    <3>3. pc[u] = "popSwap" /\ reg[u].h = head => head.idx # reg[t].slot
      <4> SUFFICES ASSUME pc[u] = "popSwap", reg[u].h = head, head.idx = reg[t].slot PROVE FALSE
        OBVIOUS
      <4>1. Held(head.idx)
        BY DEF Held
      <4> QED
        BY <2>2, <4>1 DEF FreeInv, ListFrom
    <3> QED
      BY <1>g, <2>1, <2>5, <3>1, <3>2, <3>3 DEF Reading
  <2> QED
    BY <2>4, <2>5
<1>5. ASSUME NEW t \in Threads, ReleaseSwap(t) PROVE GoodNext(u)
  <2>1. CASE u = t
    BY <1>5, <1>h, <2>1, ReleaseSwaps DEF Reading
  <2>2. CASE u # t
    BY <1>5, <1>s, <1>m, <2>2, ReleaseSwaps DEF Others
  <2> QED
    BY <2>1, <2>2
<1>6. ASSUME NEW x \in Txs, Route(x) \/ RouteAssign(x) \/ Unassign(x) PROVE GoodNext(u)
  <2>1. /\ pc'[x] \notin Reading /\ UNCHANGED <<head, next>>
        /\ \A t \in Threads : t # x => pc'[t] = pc[t] /\ reg'[t] = reg[t]
    BY <1>6, Routes, Assigns, Unassigns DEF Reading, Others
  <2> QED
    BY <1>s, <2>1
<1>7. ASSUME NEW x \in Txs, Post(x) PROVE GoodNext(u)
  <2>1. CASE u = x
    <3>1. /\ head' = head
          /\ pc'[u] = "idle" \/ (pc'[u] = "pushLink" /\ reg'[u].h = head)
      BY <1>7, <2>1, Posts
    <3> QED
      BY <1>h, <3>1 DEF Reading
  <2> QED
    BY <1>7, <1>s, <2>1, Posts DEF Others
<1>8. ASSUME NEW s \in Shards, HandleFrame(s) PROVE GoodNext(u)
  <2>1. CASE u = s
    BY <1>8, <1>h, <2>1, Handles DEF Reading
  <2> QED
    BY <1>8, <1>s, <2>1, Handles DEF Others
<1>9. ASSUME UNCHANGED <<pc, reg, head, next>> PROVE GoodNext(u)
  BY <1>9, <1>s
<1> QED
  BY <1>1, <1>2, <1>3, <1>4, <1>5, <1>6, <1>7, <1>8, <1>9 DEF Next, vars, Inbound, Reap, pool

LEMMA ListStays ==
  ASSUME NatRouterAssumption, RouterType, FreeInv, UNCHANGED head,
         \A i \in 0 .. Slots - 1 : next'[i] = next[i] \/ Held(i),
         \A i \in 0 .. Slots - 1 : Held(i)' => Held(i)
  PROVE  FreeInv'
<1>1. PICK place \in [0 .. Slots -> Nat] : ListFrom(place)
  BY DEF FreeInv
<1>2. \A i \in 0 .. Slots - 1 : place[i] > 0 => next'[i] = next[i] /\ ~Held(i)'
  BY <1>1 DEF ListFrom
<1>3. ListFrom(place)'
  BY <1>1, <1>2 DEF ListFrom, Sentinel
<1> QED
  BY <1>3 DEF FreeInv, Sentinel

LEMMA ListPops ==
  ASSUME NatRouterAssumption, RouterType, FreeInv, UNCHANGED next, head.idx # Sentinel,
         head'.idx = next[head.idx],
         \A i \in 0 .. Slots - 1 : Held(i)' => Held(i) \/ i = head.idx
  PROVE  FreeInv'
<1>0. PICK h : h = head.idx
  OBVIOUS
<1>1. PICK place \in [0 .. Slots -> Nat] : ListFrom(place)
  BY DEF FreeInv
<1>h. h \in 0 .. Slots - 1 /\ h # Sentinel /\ next[h] \in 0 .. Slots
  <2>1. h \in 0 .. Slots
    BY <1>0 DEF RouterType, Tagged
  <2> QED
    BY <1>0, <2>1, RouterConstants DEF RouterType
<1> DEFINE left == [place EXCEPT ![h] = 0]
<1>2. /\ left \in [0 .. Slots -> Nat] /\ left[h] = 0
      /\ \A i \in 0 .. Slots : i # h => left[i] = place[i]
      /\ \A i \in 0 .. Slots : left[i] > 0 => i # h /\ left[i] = place[i]
  BY <1>h, RouterConstants
<1> HIDE DEF left
<1>p. \A i \in 0 .. Slots : place[i] \in Nat
  OBVIOUS
<1>3. /\ place[Sentinel] = 0 /\ place[h] > 0 /\ place[h] = place[next[h]] + 1
      /\ next[h] # Sentinel => place[next[h]] > 0
  BY <1>0, <1>1, <1>h DEF ListFrom
<1>4. next[h] # h
  BY <1>h, <1>p, <1>3
<1>5. ASSUME NEW i \in 0 .. Slots - 1, left[i] > 0
      PROVE  /\ left[i] = left[next[i]] + 1
             /\ next[i] # Sentinel => left[next[i]] > 0
             /\ left[i] <= left[next[h]] /\ ~Held(i)'
  <2>1. i # h /\ left[i] = place[i] /\ i \in 0 .. Slots /\ next[i] \in 0 .. Slots
    BY <1>2, <1>5, RouterConstants DEF RouterType
  <2>2. /\ place[i] = place[next[i]] + 1
        /\ next[i] # Sentinel => place[next[i]] > 0
        /\ place[i] <= place[h] /\ ~Held(i) /\ place[i] # place[h]
    BY <1>0, <1>1, <1>5, <1>h, <2>1 DEF ListFrom
  <2>3. next[i] # h
    BY <1>h, <1>p, <2>1, <2>2
  <2>4. left[next[i]] = place[next[i]] /\ left[next[h]] = place[next[h]]
    BY <1>2, <1>h, <1>4, <2>1, <2>3
  <2>5. left[i] <= left[next[h]]
    BY <1>h, <1>p, <1>3, <2>1, <2>2, <2>4
  <2>6. ~Held(i)'
    BY <1>0, <2>1, <2>2
  <2> QED
    BY <2>1, <2>2, <2>4, <2>5, <2>6
<1>6. \A i, j \in 0 .. Slots - 1 : left[i] = left[j] /\ left[i] > 0 => i = j
  BY ZenonT(60), <1>1, <1>2, RouterConstants DEF ListFrom
<1>7. next[h] # Sentinel => left[next[h]] > 0
  BY <1>2, <1>h, <1>3, <1>4
<1>8. left[Sentinel] = 0
  BY <1>2, <1>3, <1>h, RouterConstants
<1>9. head'.idx = next[h] /\ next' = next
  BY <1>0
<1>10. ListFrom(left)'
  BY <1>5, <1>6, <1>7, <1>8, <1>9 DEF ListFrom, Sentinel
<1> QED
  BY <1>2, <1>10 DEF FreeInv, Sentinel

LEMMA ListPushes ==
  ASSUME NatRouterAssumption, RouterType, FreeInv, UNCHANGED next, NEW s \in 0 .. Slots - 1,
         Held(s), ~Held(s)', next[s] = head.idx, head'.idx = s,
         \A i \in 0 .. Slots - 1 : Held(i)' => Held(i)
  PROVE  FreeInv'
<1>0. PICK h : h = head.idx
  OBVIOUS
<1>1. PICK place \in [0 .. Slots -> Nat] : ListFrom(place)
  BY DEF FreeInv
<1>h. h \in 0 .. Slots /\ s \in 0 .. Slots /\ s # Sentinel
  BY <1>0, RouterConstants DEF RouterType, Tagged
<1> DEFINE more == [place EXCEPT ![s] = place[h] + 1]
<1>2. /\ more \in [0 .. Slots -> Nat] /\ more[s] = place[h] + 1
      /\ \A i \in 0 .. Slots : i # s => more[i] = place[i]
  BY <1>h
<1> HIDE DEF more
<1>p. \A i \in 0 .. Slots : place[i] \in Nat
  OBVIOUS
<1>3. place[Sentinel] = 0 /\ place[s] = 0 /\ (h # Sentinel => place[h] > 0)
  BY <1>0, <1>1, <1>h, <1>p DEF ListFrom
<1>4. next[s] = h /\ h # s
  BY <1>0, <1>h, <1>3
<1>5. ASSUME NEW i \in 0 .. Slots - 1, more[i] > 0
      PROVE  /\ more[i] = more[next[i]] + 1
             /\ next[i] # Sentinel => more[next[i]] > 0
             /\ more[i] <= more[s] /\ ~Held(i)'
  <2>0. i \in 0 .. Slots /\ next[i] \in 0 .. Slots
    BY RouterConstants DEF RouterType
  <2>1. CASE i = s
    BY <1>2, <1>h, <1>p, <1>3, <1>4, <2>1
  <2>2. CASE i # s
    <3>1. more[i] = place[i] /\ place[i] > 0
      BY <1>2, <1>5, <2>0, <2>2
    <3>2. /\ place[i] = place[next[i]] + 1
          /\ next[i] # Sentinel => place[next[i]] > 0
          /\ place[i] <= place[h] /\ ~Held(i)
      BY <1>0, <1>1, <3>1 DEF ListFrom
    <3>3. next[i] # s
      BY <1>h, <1>3, <3>2
    <3>4. more[next[i]] = place[next[i]]
      BY <1>2, <2>0, <3>3
    <3>5. more[i] <= more[s]
      BY <1>2, <1>h, <1>p, <2>0, <3>1, <3>2
    <3> QED
      BY <3>1, <3>2, <3>4, <3>5
  <2> QED
    BY <2>1, <2>2
<1>6. \A i \in 0 .. Slots - 1 : more[i] > 0 /\ i # s => more[i] = place[i] /\ place[i] <= place[h]
  BY <1>0, <1>1, <1>2, RouterConstants DEF ListFrom
<1>7. \A i, j \in 0 .. Slots - 1 : more[i] = more[j] /\ more[i] > 0 => i = j
  <2> SUFFICES ASSUME NEW i \in 0 .. Slots - 1, NEW j \in 0 .. Slots - 1, more[i] = more[j],
                      more[i] > 0
               PROVE  i = j
    OBVIOUS
  <2>1. more[s] > place[h]
    BY <1>2, <1>h, <1>p
  <2>2. place[h] \in Nat /\ more[s] \in Nat
    BY <1>2, <1>h, <1>p
  <2>3. CASE i = s \/ j = s
    BY <1>6, <2>1, <2>2, <2>3
  <2>4. CASE i # s /\ j # s
    BY <1>1, <1>6, <2>4 DEF ListFrom
  <2> QED
    BY <2>3, <2>4
<1>8. more[Sentinel] = 0 /\ more[s] > 0
  BY <1>2, <1>h, <1>p, <1>3, RouterConstants
<1>9. head'.idx = s /\ next' = next
  OBVIOUS
<1>10. ListFrom(more)'
  BY <1>5, <1>7, <1>8, <1>9 DEF ListFrom, Sentinel
<1> QED
  BY <1>2, <1>10 DEF FreeInv, Sentinel

LEMMA FreeStep ==
  ASSUME NatRouterAssumption, RouterType, RegInv, SlotInv, TagInv, FreeInv, [Next]_vars
  PROVE  FreeInv'
<1>t. \A t \in Threads : reg[t] \in Register /\ RegOk(t, pc[t], reg[t])
  BY DEF RouterType, RegInv
<1>c. Txs \subseteq Threads /\ Shards \subseteq Threads
  BY RouterConstants
<1>l. \A i \in 0 .. Slots - 1 : Held(i)' =>
        Held(i) \/ (i = head.idx /\ \E x \in Txs : AcquireSwap(x) /\ head = reg[x].h)
  BY SlotStep
<1>1. CASE UNCHANGED <<head, next>>
  <2>1. ASSUME NEW x \in Txs, AcquireSwap(x), head = reg[x].h PROVE FALSE
    <3>1. head' = [tag |-> head.tag + 1, idx |-> reg[x].nxt]
      BY <2>1, AcquireSwaps
    <3>2. head'.tag = head.tag + 1
      BY <3>1
    <3>3. head' = head /\ head.tag \in Nat
      BY <1>1 DEF RouterType, Tagged
    <3> QED
      BY <3>2, <3>3
  <2> QED
    BY <1>1, <1>l, <2>1, ListStays
<1>2. ASSUME NEW x \in Txs, AcquireSwap(x), head = reg[x].h PROVE FreeInv'
  <2>1. /\ pc[x] = "popSwap" /\ UNCHANGED next /\ head'.idx = reg[x].nxt
    BY <1>2, AcquireSwaps
  <2>2. head.idx # Sentinel /\ reg[x].nxt = next[head.idx]
    BY <1>2, <1>c, <1>t, <2>1 DEF TagInv, Reading, RegOk
  <2> QED
    BY <1>l, <2>1, <2>2, ListPops
<1>3. ASSUME NEW t \in Threads, ReleaseLink(t) PROVE FreeInv'
  <2>1. UNCHANGED head /\ next' = [next EXCEPT ![reg[t].slot] = reg[t].h.idx] /\ UNCHANGED <<queue, head>>
        /\ \A u \in Threads : reg'[u] = reg[u]
    BY <1>3, ReleaseLinks DEF Others
  <2>2. \A i \in 0 .. Slots - 1 : next'[i] = next[i] \/ Held(i)
    BY <2>1 DEF Held, RouterType
  <2>3. \A i \in 0 .. Slots - 1 : Held(i)' => Held(i)
    BY <2>1, RouterConstants DEF Held
  <2> QED
    BY <2>1, <2>2, <2>3, ListStays
<1>4. ASSUME NEW t \in Threads, ReleaseSwap(t), head = reg[t].h PROVE FreeInv'
  <2>0. PICK s : s = reg[t].slot
    OBVIOUS
  <2>1. /\ pc[t] = "pushSwap" /\ Others(t) /\ UNCHANGED <<next, queue>> /\ head'.idx = s
        /\ reg'[t].slot = Sentinel
    <3>1. [tag |-> head.tag + 1, idx |-> reg[t].slot].idx = reg[t].slot
      OBVIOUS
    <3> QED
      BY <1>4, <2>0, <3>1, ReleaseSwaps
  <2>2. s # Sentinel /\ s \in 0 .. Slots - 1 /\ next[s] = head.idx
    <3>1. s # Sentinel /\ s \in 0 .. Slots
      <4>1. RegOk(t, "pushSwap", reg[t])
        BY <1>t, <2>1
      <4>2. reg[t].slot # Sentinel
        BY <4>1 DEF RegOk, Pushing
      <4>3. reg[t].slot \in 0 .. Slots
        BY <1>t, RegisterUpdates
      <4> QED
        BY <2>0, <4>2, <4>3
    <3>2. next[s] = reg[t].h.idx
      BY <2>0, <2>1 DEF TagInv, Reading
    <3> QED
      BY <1>4, <3>1, <3>2, RouterConstants
  <2>3. Held(s)
    BY <2>0 DEF Held
  <2>4. ~Held(s)'
    <3>1. \A u \in Threads : reg'[u].slot # s
      BY <2>0, <2>1, <2>2 DEF Others, SlotInv
    <3>2. \A r \in Shards : \A j \in DOMAIN queue[r] : queue[r][j].slot # s
      BY <2>0 DEF SlotInv
    <3> QED
      BY <2>1, <3>1, <3>2 DEF Held
  <2>5. \A i \in 0 .. Slots - 1 : Held(i)' => Held(i)
    BY <2>1, RouterConstants DEF Held, Others
  <2> QED
    BY <2>1, <2>2, <2>3, <2>4, <2>5, ListPushes
<1>5. ASSUME NEW x \in Txs, AcquireSwap(x), head # reg[x].h PROVE UNCHANGED <<head, next>>
  BY <1>5, AcquireSwaps
<1>6. ASSUME NEW t \in Threads, ReleaseSwap(t), head # reg[t].h PROVE UNCHANGED <<head, next>>
  BY SMTT(60), <1>6, ReleaseSwaps
<1>7. \/ UNCHANGED <<head, next>>
      \/ \E x \in Txs : AcquireSwap(x)
      \/ \E t \in Threads : ReleaseLink(t) \/ ReleaseSwap(t)
  BY DEF Next, vars, pool, Acquire, AcquireNext, Route, RouteAssign, Post, Unassign,
         HandleFrame, Inbound, Reap
<1> QED
  BY <1>1, <1>2, <1>3, <1>4, <1>5, <1>6, <1>7


LEMMA RouterInit ==
  ASSUME NatRouterAssumption, Init
  PROVE  RouterInv
<1> USE DEF Init
<1>1. RouterType
  <2>1. /\ owner \in [Keys -> Shards \cup {None}] /\ load \in [Shards -> Nat]
        /\ table \in [Shards -> SUBSET Keys]
    OBVIOUS
  <2>2. queue \in [Shards -> Seq(Frame)]
    OBVIOUS
  <2>3. head \in Tagged /\ next \in [0 .. Slots - 1 -> 0 .. Slots]
    BY RouterConstants DEF Tagged, NatRouterAssumption
  <2>4. pc \in [Threads -> Places] /\ reg \in [Threads -> Register]
    BY RouterConstants DEF Places
  <2> QED
    BY <2>1, <2>2, <2>3, <2>4 DEF RouterType
<1>2. RegInv
  BY DEF RegInv, RegOk, Nothing, Posting, Pushing
<1>3. OwnerInv
  <2>1. \A x \in Txs : ~reg[x].assigned
    BY RouterConstants DEF Nothing
  <2>2. StrayIsAlone
    BY <2>1 DEF StrayIsAlone, Stray
  <2>3. TableOwned /\ OwnedIsUsed
    BY DEF TableOwned, OwnedIsUsed
  <2> QED
    BY <2>2, <2>3 DEF OwnerInv
<1>4. LoadInv
  <2> SUFFICES ASSUME NEW s \in Shards PROVE Cardinality({k \in Keys : owner[k] = s}) = 0
    BY DEF LoadInv
  <2>1. {k \in Keys : owner[k] = s} = {}
    BY RouterConstants
  <2> QED
    BY <2>1, FS_EmptySet
<1>5. SlotInv
  <2>1. \A s \in Shards : DOMAIN queue[s] = {}
    OBVIOUS
  <2>2. \A t \in Threads : reg[t].slot = Sentinel
    BY DEF Nothing
  <2> QED
    BY <2>1, <2>2 DEF SlotInv
<1>6. TagInv
  BY DEF TagInv, Reading
<1>7. FreeInv
  <2> DEFINE place == [i \in 0 .. Slots |-> Slots - i]
  <2>1. Slots \in Nat \ {0}
    BY DEF NatRouterAssumption
  <2>2. \A i \in 0 .. Slots - 1 : ~Held(i)
    <3>1. \A s \in Shards : DOMAIN queue[s] = {}
      OBVIOUS
    <3>2. \A t \in Threads : reg[t].slot = Sentinel
      BY DEF Nothing
    <3> QED
      BY <3>1, <3>2, RouterConstants DEF Held
  <2>3. /\ place \in [0 .. Slots -> Nat] /\ \A i \in 0 .. Slots : place[i] = Slots - i
    BY <2>1
  <2> HIDE DEF place
  <2>4. ListFrom(place)
    <3>1. head.idx = 0 /\ \A i \in 0 .. Slots - 1 : next[i] = i + 1
      OBVIOUS
    <3>2. place[Sentinel] = 0
      BY <2>1, <2>3 DEF Sentinel
    <3>3. ASSUME NEW i \in 0 .. Slots - 1
          PROVE  /\ place[i] = place[next[i]] + 1
                 /\ next[i] # Sentinel => place[next[i]] > 0
                 /\ place[i] <= place[head.idx]
      <4>1. next[i] = i + 1 /\ i + 1 \in 0 .. Slots /\ i \in 0 .. Slots /\ 0 \in 0 .. Slots
        BY ONLY <2>1, <3>1, <3>3
      <4>2. place[i] = Slots - i /\ place[i + 1] = Slots - (i + 1) /\ place[head.idx] = Slots - 0
        BY ONLY <2>3, <3>1, <4>1
      <4> QED
        BY ONLY <2>1, <4>1, <4>2, <3>3 DEF Sentinel
    <3>4. \A i, j \in 0 .. Slots - 1 : place[i] = place[j] => i = j
      BY <2>1, <2>3
    <3>5. head.idx # Sentinel => place[head.idx] > 0
      BY <2>1, <2>3, <3>1
    <3> QED
      BY ONLY <2>2, <3>2, <3>3, <3>4, <3>5 DEF ListFrom
  <2> QED
    BY <2>3, <2>4 DEF FreeInv
<1> QED
  BY <1>1, <1>2, <1>3, <1>4, <1>5, <1>6, <1>7 DEF RouterInv

LEMMA RouterStep ==
  ASSUME NatRouterAssumption, RouterInv, [Next]_vars
  PROVE  RouterInv'
<1>1. RouterType /\ RegInv /\ OwnerInv /\ LoadInv /\ SlotInv /\ TagInv /\ FreeInv
  BY DEF RouterInv
<1>2. RouterType'
  BY <1>1, RouterTypeStep
<1>3. RegInv'
  BY <1>1, <1>2, RegStep
<1>4. OwnerInv'
  BY <1>1, <1>2, OwnerStep
<1>5. LoadInv'
  BY <1>1, LoadStep
<1>6. SlotInv'
  BY <1>1, SlotStep
<1>7. TagInv'
  BY <1>1, <1>2, <1>3, TagStep
<1>8. FreeInv'
  BY <1>1, FreeStep
<1> QED
  BY <1>2, <1>3, <1>4, <1>5, <1>6, <1>7, <1>8 DEF RouterInv

LEMMA RouterInvariance ==
  ASSUME NatRouterAssumption
  PROVE  Spec => []RouterInv
<1>1. Init => RouterInv
  BY RouterInit
<1>2. RouterInv /\ [Next]_vars => RouterInv'
  BY RouterStep
<1> QED
  BY <1>1, <1>2, PTL DEF Spec

\* A TCP flow is served by one worker at a time, and an owner entry outlives
\* neither its flow nor the SYN it was made for, whichever frames race, are
\* dropped or find the pool empty.
THEOREM FlowsKeepTheirShard ==
  ASSUME NatRouterAssumption
  PROVE  Spec => [](TypeOK /\ OneShardPerFlow)
<1>1. RouterInv => TypeOK
  BY DEF RouterInv, RouterType, TypeOK, Tagged
<1>2. RouterInv => OneShardPerFlow
  <2> SUFFICES ASSUME RouterInv PROVE OneShardPerFlow
    OBVIOUS
  <2>1. ASSUME NEW k \in Keys, owner[k] # None
        PROVE  \/ k \in table[owner[k]]
               \/ \E i \in DOMAIN queue[owner[k]] :
                    queue[owner[k]][i].key = k /\ queue[owner[k]][i].syn
               \/ \E x \in Txs : reg[x].key = k /\ reg[x].syn
    <3>1. \A x \in Txs : OnTheWay(k, x) => reg[x].key = k /\ reg[x].syn
      BY RouterConstants DEF OnTheWay, RouterInv, RegInv, RegOk
    <3> QED
      BY <2>1, <3>1 DEF RouterInv, OwnerInv, OwnedIsUsed, SynIn
  <2> QED
    BY <2>1 DEF OneShardPerFlow, RouterInv, OwnerInv, TableOwned, LoadInv
<1> QED
  BY <1>1, <1>2, RouterInvariance, PTL

\* What the walk meets has a place in the list.
LEMMA FreeIsPlaced ==
  ASSUME NatRouterAssumption, RouterType, NEW place \in [0 .. Slots -> Nat], ListFrom(place),
         NEW i \in Free
  PROVE  i \in 0 .. Slots - 1 /\ place[i] > 0
<1> DEFINE S == {j \in 0 .. Slots : j = Sentinel \/ place[j] > 0}
<1>1. head.idx \in S
  BY DEF RouterType, Tagged, ListFrom
<1>2. \A j \in S \ {Sentinel} : next[j] \in S
  <2> SUFFICES ASSUME NEW j \in S \ {Sentinel} PROVE next[j] \in S
    OBVIOUS
  <2>1. j \in 0 .. Slots - 1 /\ place[j] > 0
    BY RouterConstants
  <2>2. next[j] \in 0 .. Slots
    BY <2>1 DEF RouterType
  <2> QED
    BY <2>1, <2>2 DEF ListFrom
<1>3. S \in SUBSET (0 .. Slots)
  OBVIOUS
<1> HIDE DEF S
<1>4. i \in 0 .. Slots - 1 /\ i \in S
  BY <1>1, <1>2, <1>3 DEF Free
<1> QED
  BY <1>4, RouterConstants DEF S

LEMMA HoldersOfSlot ==
  ASSUME NatRouterAssumption, RouterType, SlotInv, NEW i \in 0 .. Slots - 1
  PROVE  /\ Cardinality(Holders(i)) <= 1
         /\ Holders(i) # {} => Held(i)
<1>1. \A a, b \in Holders(i) : a = b
  <2> SUFFICES ASSUME NEW a \in Holders(i), NEW b \in Holders(i) PROVE a = b
    OBVIOUS
  <2>1. CASE reg[a].slot = i /\ a \in Threads
    BY <2>1, RouterConstants DEF Holders, SlotInv
  <2>2. CASE a \in Shards /\ \E j \in DOMAIN queue[a] : queue[a][j].slot = i
    BY <2>2, RouterConstants DEF Holders, SlotInv
  <2> QED
    BY <2>1, <2>2 DEF Holders
<1>2. Cardinality(Holders(i)) <= 1
  <2>1. CASE Holders(i) = {}
    BY <2>1, FS_EmptySet
  <2>2. CASE Holders(i) # {}
    <3>1. PICK a : a \in Holders(i)
      BY <2>2
    <3>2. Holders(i) = {a}
      BY <1>1, <3>1
    <3> QED
      BY <3>2, FS_Singleton
  <2> QED
    BY <2>1, <2>2
<1>3. Holders(i) # {} => Held(i)
  BY DEF Holders, Held
<1> QED
  BY <1>2, <1>3

\* The lock-free pool of frames never hands a slot to two threads, and never
\* has a slot in its free list that a thread or a queued frame still uses.
THEOREM FrameSlotsHaveOneOwner ==
  ASSUME NatRouterAssumption
  PROVE  Spec => []SlotHasOneOwner
<1>1. RouterInv => SlotHasOneOwner
  <2> SUFFICES ASSUME RouterInv, NEW i \in 0 .. Slots - 1
               PROVE  /\ Cardinality(Holders(i)) <= 1
                      /\ i \in Free => Holders(i) = {}
    BY DEF SlotHasOneOwner
  <2>1. RouterType /\ SlotInv /\ FreeInv
    BY DEF RouterInv
  <2>2. PICK place \in [0 .. Slots -> Nat] : ListFrom(place)
    BY <2>1 DEF FreeInv
  <2>3. i \in Free => ~Held(i)
    BY <2>1, <2>2, FreeIsPlaced DEF ListFrom
  <2> QED
    BY <2>1, <2>3, HoldersOfSlot
<1> QED
  BY <1>1, RouterInvariance, PTL


-----------------------------------------------------------------------------
(* NetDevice: the thread that has the receive ring's lock holds the buffers past *)
(* the published ones.  The frame that waits first has a drain at work, a kick *)
(* set or to be decided, or an avail_event at the index its last look found, *)
(* with too few buffers; a frame published to a sleeping driver has its      *)
(* interrupt on its way or counts as new at the next decision.               *)

Locals == [frame : Nat, notify : BOOLEAN, drain : BOOLEAN, any : BOOLEAN,
           cursor : Nat, got : Nat, tries : Nat, left : Nat]

RingPlaces == {"pop", "arm", "recheck", "rewind", "publish"}
Holding == RingPlaces \cup {"queue", "left"}
NicPlaces == Holding \cup {"idle", "deliver", "raise", "wake", "count", "notify", "decide", "congested", "armed"}

CountType ==
  /\ avail \in Nat /\ avail <= MaxPosts /\ lastAvail \in Nat /\ lastAvail <= avail
  /\ availEvent \in Nat /\ availEvent <= avail /\ used \in Nat /\ used <= lastAvail
  /\ reaped \in Nat /\ reaped <= used /\ signaled \in Nat /\ signaled <= used
  /\ unsignaled \in Nat /\ injects \in Nat /\ injects <= MaxInjects
SeqType ==
  /\ backlog \in Seq(Nat \ {0}) /\ Len(backlog) <= Pool /\ rxBacklog \in Nat /\ rxBacklog <= Pool
CtrlType ==
  /\ driver \in {"ok", "cleared", "stored", "woken", "down"}
  /\ pc \in [Nic!NetThreads -> NicPlaces] /\ loc \in [Nic!NetThreads -> Locals]
  /\ lock \in Nic!NetThreads \cup {Nic!NoLock}
FlagType ==
  /\ asleep \in BOOLEAN /\ due \in BOOLEAN /\ ready \in BOOLEAN /\ kick \in BOOLEAN /\ irq \in BOOLEAN
  /\ rxWake \in BOOLEAN /\ paused \in BOOLEAN /\ woken \in BOOLEAN /\ burst \in BOOLEAN
NumType == CountType /\ SeqType /\ CtrlType
NetType == NumType /\ FlagType

\* A thread works on the ring and the backlog with the lock.
NicLockInv == \A t \in Nic!NetThreads : pc[t] \in Holding <=> lock = t

\* A queue that is not ready is empty, and its driver waits for nothing.
DownInv ==
  /\ ~ready <=> driver = "down"
  /\ ~ready => avail = 0 /\ reaped = 0 /\ ~asleep
  /\ driver # "ok" => ~due

\* What a thread has in hand: the buffers past the published ones.
GotInv ==
  /\ (\A t \in Nic!NetThreads : pc[t] \notin RingPlaces) => lastAvail = used
  /\ \A t \in Nic!NetThreads :
       /\ pc[t] \in RingPlaces =>
            ready /\ loc[t].cursor = used /\ lastAvail = used + loc[t].got /\ loc[t].frame >= 1
       /\ pc[t] \in {"pop", "arm", "recheck", "rewind"} => loc[t].got < loc[t].frame
       /\ pc[t] = "publish" => loc[t].got >= 1
       /\ pc[t] \in {"recheck", "rewind"} => availEvent = lastAvail
       /\ pc[t] = "rewind" => loc[t].got < Size
       /\ pc[t] = "queue" => loc[t].frame >= 1

\* It delivers the frame that waits first or, with none waiting, one of its own.
FrontInv ==
  \A t \in Nic!NetThreads : pc[t] \in RingPlaces =>
    IF loc[t].drain THEN backlog # <<>> /\ loc[t].frame = Head(backlog) ELSE backlog = <<>>

\* The pump raises its interrupts at once, and only the owner asks about congestion.
PlaceInv ==
  /\ \A t \in Nic!NetThreads :
       /\ pc[t] = "queue" => ~loc[t].drain
       /\ pc[t] \in {"left", "wake"} => loc[t].drain
       /\ pc[t] \in {"idle", "deliver", "count", "notify", "decide", "congested", "armed"} => ~loc[t].drain
  /\ pc["pump"] \notin {"count", "notify", "decide", "congested", "armed"}
  /\ pc["pump"] \in RingPlaces /\ ~loc["pump"].drain => loc["pump"].notify

HandInv == GotInv /\ FrontInv /\ PlaceInv

\* Someone will look at the backlog: the drain to come, or the pump when the kick
\* that the next buffer brings is decided.
Coming == kick \/ (due /\ availEvent = avail - 1) \/ \E t \in Nic!NetThreads : pc[t] = "deliver"
Trying == \E t \in Nic!NetThreads : pc[t] \in RingPlaces \ {"rewind"} /\ loc[t].drain
Dry == avail = availEvent /\ avail - lastAvail < Size /\ avail - lastAvail < Head(backlog)
Rewinding == \E t \in Nic!NetThreads : pc[t] = "rewind" /\ loc[t].drain
RewindInv == \A t \in Nic!NetThreads : pc[t] = "rewind" => avail = lastAvail \/ Coming
FrontSeen == backlog # <<>> /\ ready => Trying \/ Coming \/ Dry \/ Rewinding
NicStrandInv == RewindInv /\ FrontSeen

\* A frame published to a sleeping driver has its interrupt on its way, or will be
\* decided about and counts as new then.
Undecided ==
  \/ pc["owner"] \in {"count", "decide"}
  \/ unsignaled > 0 /\ (burst \/ pc["owner"] = "notify")
  \/ \E t \in Nic!NetThreads : loc[t].any /\ loc[t].drain /\ pc[t] \in RingPlaces \cup {"left"}
NicRaising == \E t \in Nic!NetThreads : pc[t] = "raise"
ToldInv == asleep /\ reaped < used => irq \/ NicRaising \/ (signaled <= reaped /\ Undecided)

\* The owner delivers within a burst, which ends in notify_rx, and counts each
\* frame at most once.
Delivering == pc["owner"] \in RingPlaces \cup {"count"} /\ ~loc["owner"].drain
BurstInv ==
  /\ Delivering => burst
  /\ unsignaled + (IF Delivering THEN 1 ELSE 0) <= injects
NicIrqInv == ToldInv /\ BurstInv

\* A backend that was told to stop is woken, or the flag is set and the backlog
\* deep, or someone who empties it will see the flag.
Draining == \E t \in Nic!NetThreads : loc[t].drain /\ pc[t] \in RingPlaces \cup {"left"}
Leaving == \E t \in Nic!NetThreads : pc[t] \in {"raise", "wake"} /\ loc[t].drain /\ loc[t].left <= Low
AskInv == (paused \/ pc["owner"] = "armed") /\ ~woken => rxWake
DepthInv == rxBacklog <= Len(backlog) \/ driver = "cleared" \/ Draining
PausedInv ==
  paused /\ ~woken => Len(backlog) > Low \/ driver \in {"cleared", "stored"} \/ Draining \/ Leaving
PauseInv == AskInv /\ DepthInv /\ PausedInv

NetInv == NetType /\ NicLockInv /\ DownInv /\ HandInv /\ NicStrandInv /\ NicIrqInv /\ PauseInv

-----------------------------------------------------------------------------
(* The threads' locals                                                     *)

LEMMA NoLocType ==
  /\ Nic!NoLoc \in Locals
  /\ Nic!NoLoc.frame = 0 /\ Nic!NoLoc.notify = FALSE /\ Nic!NoLoc.drain = FALSE /\ Nic!NoLoc.any = FALSE
  /\ Nic!NoLoc.cursor = 0 /\ Nic!NoLoc.got = 0 /\ Nic!NoLoc.tries = 0 /\ Nic!NoLoc.left = 0
<1>1. Nic!NoLoc \in Locals
  BY DEF Nic!NoLoc, Locals
<1>2. Nic!NoLoc.frame = 0 /\ Nic!NoLoc.cursor = 0 /\ Nic!NoLoc.got = 0 /\ Nic!NoLoc.tries = 0 /\ Nic!NoLoc.left = 0
  BY DEF Nic!NoLoc
<1>3. Nic!NoLoc.notify = FALSE /\ Nic!NoLoc.drain = FALSE /\ Nic!NoLoc.any = FALSE
  BY DEF Nic!NoLoc
<1> QED  BY <1>1, <1>2, <1>3

\* What a thread has after it took a buffer.
LEMMA GotOne ==
  ASSUME NEW l \in Locals, NEW m, m = [l EXCEPT !.got = @ + 1]
  PROVE  /\ m \in Locals /\ m.frame = l.frame /\ m.notify = l.notify /\ m.drain = l.drain /\ m.any = l.any
         /\ m.cursor = l.cursor /\ m.got = l.got + 1 /\ m.left = l.left
BY DEF Locals

\* ...after it gave its buffers back...
LEMMA GaveBack ==
  ASSUME NEW l \in Locals, NEW m, m = [l EXCEPT !.got = 0, !.tries = l.tries + 1]
  PROVE  /\ m \in Locals /\ m.frame = l.frame /\ m.notify = l.notify /\ m.drain = l.drain /\ m.any = l.any
         /\ m.cursor = l.cursor /\ m.got = 0 /\ m.left = l.left
<1>1. PICK n \in Nat : n = l.tries + 1
  BY DEF Locals
<1>2. PICK k : k = [l EXCEPT !.got = 0]
  OBVIOUS
<1>3. /\ k \in Locals /\ k.frame = l.frame /\ k.notify = l.notify /\ k.drain = l.drain /\ k.any = l.any
      /\ k.cursor = l.cursor /\ k.got = 0 /\ k.left = l.left
  BY <1>2 DEF Locals
<1>4. m = [k EXCEPT !.tries = n]
  BY <1>1, <1>2 DEF Locals
<1>5. /\ m \in Locals /\ m.frame = k.frame /\ m.notify = k.notify /\ m.drain = k.drain /\ m.any = k.any
      /\ m.cursor = k.cursor /\ m.got = k.got /\ m.left = k.left
  BY <1>3, <1>4 DEF Locals
<1> QED  BY <1>3, <1>5

\* ...and after it counted what the backlog has left.
LEMMA Counted ==
  ASSUME NEW l \in Locals, NEW n \in Nat, NEW m, m = [l EXCEPT !.left = n]
  PROVE  /\ m \in Locals /\ m.frame = l.frame /\ m.notify = l.notify /\ m.drain = l.drain /\ m.any = l.any
         /\ m.cursor = l.cursor /\ m.got = l.got /\ m.left = n
BY DEF Locals

\* The same, of the thread's place in loc.
OtherThreads(t) == \A u \in Nic!NetThreads \ {t} : loc'[u] = loc[u]

LEMMA LocPop ==
  ASSUME loc \in [Nic!NetThreads -> Locals], NEW t \in Nic!NetThreads,
         loc' = [loc EXCEPT ![t].got = @ + 1]
  PROVE  /\ loc' \in [Nic!NetThreads -> Locals] /\ OtherThreads(t)
         /\ loc'[t].frame = loc[t].frame /\ loc'[t].notify = loc[t].notify /\ loc'[t].drain = loc[t].drain
         /\ loc'[t].any = loc[t].any /\ loc'[t].cursor = loc[t].cursor /\ loc'[t].got = loc[t].got + 1
<1>1. loc'[t] = [loc[t] EXCEPT !.got = @ + 1] /\ OtherThreads(t) /\ loc[t] \in Locals
  BY DEF OtherThreads
<1>2. loc'[t] \in Locals
  BY <1>1, GotOne
<1>3. loc' \in [Nic!NetThreads -> Locals]
  BY <1>1, <1>2 DEF OtherThreads
<1> QED  BY <1>1, <1>3, GotOne

LEMMA LocRewind ==
  ASSUME loc \in [Nic!NetThreads -> Locals], NEW t \in Nic!NetThreads,
         loc' = [loc EXCEPT ![t].got = 0, ![t].tries = @ + 1]
  PROVE  /\ loc' \in [Nic!NetThreads -> Locals] /\ OtherThreads(t)
         /\ loc'[t].frame = loc[t].frame /\ loc'[t].notify = loc[t].notify /\ loc'[t].drain = loc[t].drain
         /\ loc'[t].any = loc[t].any /\ loc'[t].cursor = loc[t].cursor /\ loc'[t].got = 0
<1>1. loc'[t] = [loc[t] EXCEPT !.got = 0, !.tries = loc[t].tries + 1] /\ OtherThreads(t) /\ loc[t] \in Locals
  BY DEF OtherThreads, Locals
<1>2. PICK m : m = [loc[t] EXCEPT !.got = 0, !.tries = loc[t].tries + 1]
  OBVIOUS
<1>3. /\ m \in Locals /\ m.frame = loc[t].frame /\ m.notify = loc[t].notify /\ m.drain = loc[t].drain
      /\ m.any = loc[t].any /\ m.cursor = loc[t].cursor /\ m.got = 0
  BY ZenonT(60), <1>1, <1>2, GaveBack
<1>4. loc'[t] = m
  BY <1>1, <1>2
<1>5. loc' \in [Nic!NetThreads -> Locals]
  BY <1>1, <1>3, <1>4 DEF OtherThreads
<1> QED  BY <1>1, <1>5, <1>3, <1>4

LEMMA LocLeft ==
  ASSUME loc \in [Nic!NetThreads -> Locals], NEW t \in Nic!NetThreads, NEW n \in Nat,
         loc' = [loc EXCEPT ![t].left = n]
  PROVE  /\ loc' \in [Nic!NetThreads -> Locals] /\ OtherThreads(t)
         /\ loc'[t].drain = loc[t].drain /\ loc'[t].any = loc[t].any /\ loc'[t].left = n
<1>1. loc'[t] = [loc[t] EXCEPT !.left = n] /\ OtherThreads(t) /\ loc[t] \in Locals
  BY DEF OtherThreads
<1>2. loc'[t] \in Locals
  BY <1>1, Counted
<1>3. loc' \in [Nic!NetThreads -> Locals]
  BY <1>1, <1>2 DEF OtherThreads
<1> QED  BY <1>1, <1>3, Counted

LEMMA LocNew ==
  ASSUME loc \in [Nic!NetThreads -> Locals], NEW t \in Nic!NetThreads, NEW l \in Locals,
         loc' = [loc EXCEPT ![t] = l]
  PROVE  loc' \in [Nic!NetThreads -> Locals] /\ OtherThreads(t) /\ loc'[t] = l
BY DEF OtherThreads

\* What the assumption says of the constants, one by one.
LEMMA NicSizes ==
  ASSUME Nic!NetAssumption
  PROVE  /\ Size \in Nat \ {0} /\ Pool \in Nat \ {0} /\ High \in Nat \ {0} /\ Batch \in Nat \ {0} /\ Tries \in Nat \ {0}
         /\ MaxFrame \in Nat \ {0} /\ Low \in Nat /\ Low < High /\ High <= Pool
         /\ MaxInjects \in Nat /\ MaxPosts \in Nat /\ MaxResets \in Nat
BY DEF Nic!NetAssumption

Fields(l) == l.frame \in Nat /\ l.got \in Nat /\ l.cursor \in Nat /\ l.left \in Nat
LEMMA HeadOk ==
  ASSUME NEW s \in Seq(Nat \ {0}), s # <<>>
  PROVE  Head(s) \in Nat \ {0}
OBVIOUS

\* The fields of a thread's locals are numbers.
LEMMA FieldsOk ==
  ASSUME NumType, NEW t \in Nic!NetThreads
  PROVE  Fields(loc[t])
BY DEF NumType, CtrlType, Fields, Locals

\* What each step leaves in the locals of the thread that takes it.
LEMMA InjectLoc ==
  ASSUME NetType, NEW t \in Nic!NetThreads, NEW n \in Nat \ {0}, NEW notify \in BOOLEAN,
         Nic!InjectFrame(t, n, notify)
  PROVE  /\ loc' \in [Nic!NetThreads -> Locals] /\ OtherThreads(t)
         /\ loc'[t].frame = n /\ loc'[t].notify = notify /\ loc'[t].drain = FALSE /\ loc'[t].any = FALSE
         /\ loc'[t].cursor = lastAvail /\ loc'[t].got = 0
<1> DEFINE l == [Nic!NoLoc EXCEPT !.frame = n, !.notify = notify, !.cursor = lastAvail]
<1>1. loc' = [loc EXCEPT ![t] = l] /\ lastAvail \in Nat /\ loc \in [Nic!NetThreads -> Locals]
  BY DEF Nic!InjectFrame, NetType, NumType, CountType, CtrlType
<1>2. /\ l \in Locals /\ l.frame = n /\ l.notify = notify /\ l.drain = FALSE /\ l.any = FALSE
      /\ l.cursor = lastAvail /\ l.got = 0
  BY <1>1, NoLocType DEF Locals, Nic!NoLoc
<1> HIDE DEF l
<1>3. loc' \in [Nic!NetThreads -> Locals] /\ OtherThreads(t) /\ loc'[t] = l
  BY <1>1, <1>2, LocNew
<1> QED  BY <1>2, <1>3

LEMMA ForgetLoc ==
  ASSUME NetType, NEW t \in Nic!NetThreads, Nic!Forget(t)
  PROVE  /\ loc' \in [Nic!NetThreads -> Locals] /\ OtherThreads(t) /\ loc'[t].drain = FALSE /\ loc'[t].any = FALSE
<1>1. loc' = [loc EXCEPT ![t] = Nic!NoLoc] /\ loc \in [Nic!NetThreads -> Locals]
  BY DEF Nic!Forget, NetType, NumType, CtrlType
<1>2. loc' \in [Nic!NetThreads -> Locals] /\ OtherThreads(t) /\ loc'[t] = Nic!NoLoc
  BY <1>1, NoLocType, LocNew
<1> QED  BY <1>2, NoLocType

LEMMA QueueLoc ==
  ASSUME NetType, NEW t \in Nic!NetThreads, Nic!Queue(t)
  PROVE  /\ loc' \in [Nic!NetThreads -> Locals] /\ OtherThreads(t) /\ loc'[t].drain = FALSE /\ loc'[t].any = FALSE
BY ForgetLoc DEF Nic!Queue

LEMMA WakeLoc ==
  ASSUME NetType, NEW t \in Nic!NetThreads, Nic!Wake(t)
  PROVE  /\ loc' \in [Nic!NetThreads -> Locals] /\ OtherThreads(t) /\ loc'[t].drain = FALSE /\ loc'[t].any = FALSE
BY ForgetLoc DEF Nic!Wake

LEMMA PopLoc ==
  ASSUME NetType, NEW t \in Nic!NetThreads, Nic!Pop(t)
  PROVE  /\ loc' \in [Nic!NetThreads -> Locals] /\ OtherThreads(t)
         /\ loc'[t].frame = loc[t].frame /\ loc'[t].notify = loc[t].notify /\ loc'[t].drain = loc[t].drain
         /\ loc'[t].any = loc[t].any /\ loc'[t].cursor = loc[t].cursor
         /\ loc'[t].got = loc[t].got + (IF lastAvail < avail THEN 1 ELSE 0)
<1>1. loc \in [Nic!NetThreads -> Locals] /\ loc[t].got \in Nat
  BY DEF NetType, NumType, CountType, SeqType, CtrlType, FlagType, Locals
<1>2. CASE lastAvail < avail
  BY <1>1, <1>2, LocPop DEF Nic!Pop
<1>3. CASE ~(lastAvail < avail)
  BY <1>1, <1>3 DEF Nic!Pop, OtherThreads
<1> QED  BY <1>2, <1>3

LEMMA RewindLoc ==
  ASSUME NetType, NEW t \in Nic!NetThreads, Nic!Rewind(t)
  PROVE  /\ loc' \in [Nic!NetThreads -> Locals] /\ OtherThreads(t)
         /\ loc'[t].frame = loc[t].frame /\ loc'[t].notify = loc[t].notify /\ loc'[t].drain = loc[t].drain
         /\ loc'[t].any = loc[t].any /\ loc'[t].cursor = loc[t].cursor /\ loc'[t].got = 0
BY LocRewind DEF Nic!Rewind, NetType, NumType, CtrlType

LEMMA LeftLoc ==
  ASSUME NetType, NEW t \in Nic!NetThreads, Nic!Left(t)
  PROVE  /\ loc' \in [Nic!NetThreads -> Locals] /\ OtherThreads(t)
         /\ loc'[t].drain = loc[t].drain /\ loc'[t].any = loc[t].any /\ loc'[t].left = Len(backlog)
<1>1. Len(backlog) \in Nat /\ loc \in [Nic!NetThreads -> Locals]
  BY DEF NetType, NumType, CountType, SeqType, CtrlType, FlagType
<1>2. loc' = [loc EXCEPT ![t].left = Len(backlog)]
  BY DEF Nic!Left
<1> QED  BY <1>1, <1>2, LocLeft

LEMMA DeliverRxLoc ==
  ASSUME NetType, NEW t \in Nic!NetThreads, Nic!DeliverRx(t)
  PROVE  /\ loc' \in [Nic!NetThreads -> Locals] /\ OtherThreads(t) /\ loc'[t].drain = TRUE /\ loc'[t].any = FALSE
         /\ ready /\ backlog # <<>> =>
              loc'[t].frame = Head(backlog) /\ loc'[t].cursor = lastAvail /\ loc'[t].got = 0
<1>1. loc \in [Nic!NetThreads -> Locals] /\ lastAvail \in Nat
  BY DEF NetType, NumType, CountType, SeqType, CtrlType, FlagType
<1>2. CASE ready /\ backlog # <<>>
  <2> DEFINE l == [Nic!NoLoc EXCEPT !.frame = Head(backlog), !.drain = TRUE, !.cursor = lastAvail]
  <2>1. Head(backlog) \in Nat
    BY <1>2 DEF NetType, NumType, CountType, SeqType, CtrlType, FlagType
  <2>2. /\ l \in Locals /\ l.frame = Head(backlog) /\ l.drain = TRUE /\ l.any = FALSE
        /\ l.cursor = lastAvail /\ l.got = 0
    BY <1>1, <2>1, NoLocType DEF Locals, Nic!NoLoc
  <2>3. loc' = [loc EXCEPT ![t] = l]
    BY <1>2 DEF Nic!DeliverRx
  <2> HIDE DEF l
  <2>4. loc' \in [Nic!NetThreads -> Locals] /\ OtherThreads(t) /\ loc'[t] = l
    BY <1>1, <2>2, <2>3, LocNew
  <2> QED  BY <2>2, <2>4
<1>3. CASE ~(ready /\ backlog # <<>>)
  <2> DEFINE l == [Nic!NoLoc EXCEPT !.drain = TRUE]
  <2>2. l \in Locals /\ l.drain = TRUE /\ l.any = FALSE
    BY NoLocType DEF Locals, Nic!NoLoc
  <2>3. loc' = [loc EXCEPT ![t] = l]
    BY <1>3 DEF Nic!DeliverRx
  <2> HIDE DEF l
  <2>4. loc' \in [Nic!NetThreads -> Locals] /\ OtherThreads(t) /\ loc'[t] = l
    BY <1>1, <2>2, <2>3, LocNew
  <2> QED  BY <1>3, <2>2, <2>4
<1> QED  BY <1>2, <1>3

LEMMA PublishLoc ==
  ASSUME NetType, NEW t \in Nic!NetThreads, Nic!Publish(t)
  PROVE  /\ loc' \in [Nic!NetThreads -> Locals] /\ OtherThreads(t)
         /\ ~loc[t].drain => loc'[t].drain = FALSE /\ loc'[t].any = FALSE
         /\ loc[t].drain => loc'[t].drain = TRUE /\ loc'[t].any = TRUE
         /\ loc[t].drain /\ backlog # <<>> /\ Tail(backlog) # <<>> =>
              loc'[t].frame = Head(Tail(backlog)) /\ loc'[t].cursor = lastAvail /\ loc'[t].got = 0
<1>1. loc \in [Nic!NetThreads -> Locals] /\ lastAvail \in Nat
  BY DEF NetType, NumType, CountType, SeqType, CtrlType, FlagType
<1>2. CASE ~loc[t].drain
  BY <1>2, ForgetLoc DEF Nic!Publish
<1>3. CASE loc[t].drain
  <2> DEFINE f == IF Tail(backlog) = <<>> THEN 0 ELSE Head(Tail(backlog))
             l == [Nic!NoLoc EXCEPT !.drain = TRUE, !.any = TRUE, !.frame = f, !.cursor = lastAvail]
  <2>1. loc' = [loc EXCEPT ![t] = l]
    BY <1>3 DEF Nic!Publish
  <2>2. CASE f \in Nat
    <3> HIDE DEF f
    <3>1. l \in Locals /\ l.frame = f /\ l.drain = TRUE /\ l.any = TRUE /\ l.cursor = lastAvail /\ l.got = 0
      BY <1>1, <2>2, NoLocType DEF Locals, Nic!NoLoc
    <3> HIDE DEF l
    <3>2. loc' \in [Nic!NetThreads -> Locals] /\ OtherThreads(t) /\ loc'[t] = l
      BY <1>1, <2>1, <3>1, LocNew
    <3> QED  BY <1>3, <3>1, <3>2 DEF f
  <2>3. f \in Nat
    BY DEF NetType, NumType, CountType, SeqType, CtrlType, FlagType
  <2> QED  BY <2>2, <2>3
<1> QED  BY <1>2, <1>3

\* A frame is injected by the backend's thread, and looped back by the pump.
LEMMA InjectIsOwners ==
  ASSUME NetType, NEW n \in 1 .. MaxFrame, Nic!Inject(n)
  PROVE  /\ n \in Nat \ {0} /\ "owner" \in Nic!NetThreads /\ FALSE \in BOOLEAN /\ (FALSE <=> "owner" = "pump")
         /\ Nic!InjectFrame("owner", n, FALSE) /\ UNCHANGED <<paused, woken>> /\ burst' = (burst \/ "owner" = "owner")
<1>1. n \in Nat \ {0} /\ "owner" \in Nic!NetThreads /\ (FALSE <=> "owner" = "pump")
  BY DEF Nic!NetThreads
<1>2. Nic!InjectFrame("owner", n, FALSE) /\ UNCHANGED <<paused, woken>> /\ burst' = TRUE
  BY DEF Nic!Inject
<1>3. burst' = (burst \/ "owner" = "owner")
  BY <1>2, Zenon
<1> QED  BY <1>1, <1>2, <1>3

LEMMA LoopbackIsPumps ==
  ASSUME NetType, Nic!Loopback(1)
  PROVE  /\ 1 \in Nat \ {0} /\ "pump" \in Nic!NetThreads /\ TRUE \in BOOLEAN /\ (TRUE <=> "pump" = "pump")
         /\ Nic!InjectFrame("pump", 1, TRUE) /\ UNCHANGED <<paused, woken>> /\ burst' = (burst \/ "pump" = "owner")
<1>1. "pump" \in Nic!NetThreads /\ (TRUE <=> "pump" = "pump")
  BY DEF Nic!NetThreads
<1>2. Nic!InjectFrame("pump", 1, TRUE) /\ UNCHANGED <<paused, woken, burst>> /\ burst \in BOOLEAN
  BY DEF Nic!Loopback, Nic!owner, NetType, NumType, FlagType
<1>3. burst' = (burst \/ "pump" = "owner")
  BY <1>2
<1>4. 1 \in Nat \ {0}
  OBVIOUS
<1> QED  BY <1>1, <1>2, <1>3, <1>4, Zenon


Apart(t) == \A u \in Nic!NetThreads \ {t} : pc'[u] = pc[u] /\ loc'[u] = loc[u]
\* A step moves one thread.
LEMMA Went ==
  ASSUME NetType, NEW t \in Nic!NetThreads, NEW p \in NicPlaces, Nic!Goto(t, p), OtherThreads(t)
  PROVE  pc' \in [Nic!NetThreads -> NicPlaces] /\ pc'[t] = p /\ Apart(t)
BY DEF NetType, NumType, CtrlType, Nic!Goto, OtherThreads, Apart

\* Each step's effect, with the changed functions spelled out point by point.
LEMMA InjectEffect ==
  ASSUME NetType, NEW t \in Nic!NetThreads, NEW n \in Nat \ {0}, NEW notify \in BOOLEAN,
         Nic!InjectFrame(t, n, notify)
  PROVE  /\ loc' \in [Nic!NetThreads -> Locals] /\ pc' \in [Nic!NetThreads -> NicPlaces] /\ Apart(t)
         /\ loc'[t].frame = n /\ loc'[t].notify = notify /\ loc'[t].drain = FALSE /\ loc'[t].any = FALSE
         /\ loc'[t].cursor = lastAvail /\ loc'[t].got = 0
         /\ Nic!At(t, {"idle"}) /\ lock = Nic!NoLock /\ injects < MaxInjects /\ lock' = t /\ injects' = injects + 1
         /\ pc'[t] = (IF ready /\ backlog = <<>> THEN "pop" ELSE "queue") /\ UNCHANGED <<Nic!ring, kick, irq, Nic!flow, resets>>
<1>1. /\ loc' \in [Nic!NetThreads -> Locals] /\ OtherThreads(t)
      /\ loc'[t].frame = n /\ loc'[t].notify = notify /\ loc'[t].drain = FALSE /\ loc'[t].any = FALSE
      /\ loc'[t].cursor = lastAvail /\ loc'[t].got = 0
      /\ Nic!At(t, {"idle"}) /\ lock = Nic!NoLock /\ injects < MaxInjects /\ lock' = t /\ injects' = injects + 1
      /\ Nic!Goto(t, IF ready /\ backlog = <<>> THEN "pop" ELSE "queue") /\ UNCHANGED <<Nic!ring, kick, irq, Nic!flow, resets>>
  BY InjectLoc DEF Nic!InjectFrame, Nic!At
<1>2. \A p \in NicPlaces : Nic!Goto(t, p) => pc' \in [Nic!NetThreads -> NicPlaces] /\ pc'[t] = p /\ Apart(t)
  BY <1>1, Went
<1> QED  BY <1>1, <1>2 DEF NicPlaces, RingPlaces, Holding

LEMMA QueueEffect ==
  ASSUME NetType, NEW t \in Nic!NetThreads, Nic!Queue(t)
  PROVE  /\ loc' \in [Nic!NetThreads -> Locals] /\ pc' \in [Nic!NetThreads -> NicPlaces] /\ Apart(t) /\ loc'[t].drain = FALSE /\ loc'[t].any = FALSE
         /\ Nic!At(t, {"queue"}) /\ lock' = Nic!NoLock
         /\ IF Len(backlog) < Pool
            THEN backlog' = Append(backlog, loc[t].frame) /\ rxBacklog' = Len(backlog) + 1 /\ pc'[t] = "deliver"
            ELSE UNCHANGED <<backlog, rxBacklog>> /\ pc'[t] = "idle"
         /\ UNCHANGED <<Nic!ring, kick, irq, rxWake, unsignaled, Nic!owner, injects, resets>>
<1>1. /\ loc' \in [Nic!NetThreads -> Locals] /\ OtherThreads(t) /\ loc'[t].drain = FALSE /\ loc'[t].any = FALSE
      /\ Nic!At(t, {"queue"}) /\ lock' = Nic!NoLock
      /\ IF Len(backlog) < Pool
         THEN backlog' = Append(backlog, loc[t].frame) /\ rxBacklog' = Len(backlog) + 1 /\ Nic!Goto(t, "deliver")
         ELSE UNCHANGED <<backlog, rxBacklog>> /\ Nic!Goto(t, "idle")
      /\ UNCHANGED <<Nic!ring, kick, irq, rxWake, unsignaled, Nic!owner, injects, resets>>
  BY QueueLoc DEF Nic!Queue, Nic!At
<1>2. \A p \in NicPlaces : Nic!Goto(t, p) => pc' \in [Nic!NetThreads -> NicPlaces] /\ pc'[t] = p /\ Apart(t)
  BY <1>1, Went
<1> QED  BY <1>1, <1>2 DEF NicPlaces, RingPlaces, Holding

LEMMA DeliverRxEffect ==
  ASSUME NetType, NEW t \in Nic!NetThreads, Nic!DeliverRx(t)
  PROVE  /\ loc' \in [Nic!NetThreads -> Locals] /\ pc' \in [Nic!NetThreads -> NicPlaces] /\ Apart(t) /\ loc'[t].drain = TRUE /\ loc'[t].any = FALSE
         /\ ready /\ backlog # <<>> =>
              loc'[t].frame = Head(backlog) /\ loc'[t].cursor = lastAvail /\ loc'[t].got = 0
         /\ Nic!At(t, {"deliver"}) /\ lock = Nic!NoLock /\ lock' = t
         /\ pc'[t] = (IF ready /\ backlog # <<>> THEN "pop" ELSE "left")
         /\ UNCHANGED <<Nic!ring, kick, irq, Nic!flow, Nic!owner, injects, resets>>
<1>1. /\ loc' \in [Nic!NetThreads -> Locals] /\ OtherThreads(t) /\ loc'[t].drain = TRUE /\ loc'[t].any = FALSE
      /\ ready /\ backlog # <<>> =>
           loc'[t].frame = Head(backlog) /\ loc'[t].cursor = lastAvail /\ loc'[t].got = 0
      /\ Nic!At(t, {"deliver"}) /\ lock = Nic!NoLock /\ lock' = t
      /\ Nic!Goto(t, IF ready /\ backlog # <<>> THEN "pop" ELSE "left")
      /\ UNCHANGED <<Nic!ring, kick, irq, Nic!flow, Nic!owner, injects, resets>>
  BY DeliverRxLoc DEF Nic!DeliverRx, Nic!At
<1>2. \A p \in NicPlaces : Nic!Goto(t, p) => pc' \in [Nic!NetThreads -> NicPlaces] /\ pc'[t] = p /\ Apart(t)
  BY <1>1, Went
<1> QED  BY <1>1, <1>2 DEF NicPlaces, RingPlaces, Holding

LEMMA PopEffect ==
  ASSUME NetType, NEW t \in Nic!NetThreads, Nic!Pop(t)
  PROVE  /\ loc' \in [Nic!NetThreads -> Locals] /\ pc' \in [Nic!NetThreads -> NicPlaces] /\ Apart(t)
         /\ loc'[t].frame = loc[t].frame /\ loc'[t].notify = loc[t].notify /\ loc'[t].drain = loc[t].drain
         /\ loc'[t].any = loc[t].any /\ loc'[t].cursor = loc[t].cursor
         /\ loc'[t].got = loc[t].got + (IF lastAvail < avail THEN 1 ELSE 0)
         /\ Nic!At(t, {"pop"})
         /\ IF lastAvail < avail
            THEN /\ lastAvail' = lastAvail + 1 /\ availEvent' = lastAvail + 1
                 /\ pc'[t] = (IF loc[t].got + 1 = loc[t].frame THEN "publish" ELSE "pop")
            ELSE pc'[t] = "arm" /\ UNCHANGED <<lastAvail, availEvent>>
         /\ UNCHANGED <<avail, reaped, asleep, due, driver, used, ready, signaled, kick, irq, lock, Nic!flow, Nic!owner,
                        injects, resets>>
<1>1. /\ loc' \in [Nic!NetThreads -> Locals] /\ OtherThreads(t)
      /\ loc'[t].frame = loc[t].frame /\ loc'[t].notify = loc[t].notify /\ loc'[t].drain = loc[t].drain
      /\ loc'[t].any = loc[t].any /\ loc'[t].cursor = loc[t].cursor
      /\ loc'[t].got = loc[t].got + (IF lastAvail < avail THEN 1 ELSE 0)
      /\ Nic!At(t, {"pop"})
      /\ IF lastAvail < avail
         THEN /\ lastAvail' = lastAvail + 1 /\ availEvent' = lastAvail + 1
              /\ Nic!Goto(t, IF loc[t].got + 1 = loc[t].frame THEN "publish" ELSE "pop")
         ELSE Nic!Goto(t, "arm") /\ UNCHANGED <<lastAvail, availEvent>>
      /\ UNCHANGED <<avail, reaped, asleep, due, driver, used, ready, signaled, kick, irq, lock, Nic!flow, Nic!owner,
                     injects, resets>>
  BY PopLoc DEF Nic!Pop, Nic!At
<1>2. \A p \in NicPlaces : Nic!Goto(t, p) => pc' \in [Nic!NetThreads -> NicPlaces] /\ pc'[t] = p /\ Apart(t)
  BY <1>1, Went
<1> QED  BY <1>1, <1>2 DEF NicPlaces, RingPlaces, Holding

LEMMA RewindEffect ==
  ASSUME NetType, NEW t \in Nic!NetThreads, Nic!Rewind(t)
  PROVE  /\ loc' \in [Nic!NetThreads -> Locals] /\ pc' \in [Nic!NetThreads -> NicPlaces] /\ Apart(t)
         /\ loc'[t].frame = loc[t].frame /\ loc'[t].notify = loc[t].notify /\ loc'[t].drain = loc[t].drain
         /\ loc'[t].any = loc[t].any /\ loc'[t].cursor = loc[t].cursor /\ loc'[t].got = 0
         /\ Nic!At(t, {"rewind"}) /\ lastAvail' = loc[t].cursor
         /\ \/ avail # lastAvail /\ pc'[t] = "pop"
            \/ pc'[t] = (IF loc[t].drain THEN "left" ELSE "queue")
         /\ UNCHANGED <<avail, reaped, asleep, due, driver, availEvent, used, ready, signaled, kick, irq, lock, Nic!flow,
                        Nic!owner, injects, resets>>
<1>1. /\ loc' \in [Nic!NetThreads -> Locals] /\ OtherThreads(t)
      /\ loc'[t].frame = loc[t].frame /\ loc'[t].notify = loc[t].notify /\ loc'[t].drain = loc[t].drain
      /\ loc'[t].any = loc[t].any /\ loc'[t].cursor = loc[t].cursor /\ loc'[t].got = 0
      /\ Nic!At(t, {"rewind"}) /\ lastAvail' = loc[t].cursor
      /\ \/ avail # lastAvail /\ Nic!Goto(t, "pop")
         \/ Nic!Goto(t, IF loc[t].drain THEN "left" ELSE "queue")
      /\ UNCHANGED <<avail, reaped, asleep, due, driver, availEvent, used, ready, signaled, kick, irq, lock, Nic!flow,
                     Nic!owner, injects, resets>>
  BY RewindLoc DEF Nic!Rewind, Nic!At, Nic!Fail
<1>2. \A p \in NicPlaces : Nic!Goto(t, p) => pc' \in [Nic!NetThreads -> NicPlaces] /\ pc'[t] = p /\ Apart(t)
  BY <1>1, Went
<1> QED  BY <1>1, <1>2 DEF NicPlaces, RingPlaces, Holding

LEMMA PublishEffect ==
  ASSUME NetType, NEW t \in Nic!NetThreads, Nic!Publish(t)
  PROVE  /\ loc' \in [Nic!NetThreads -> Locals] /\ pc' \in [Nic!NetThreads -> NicPlaces] /\ Apart(t)
         /\ ~loc[t].drain => loc'[t].drain = FALSE /\ loc'[t].any = FALSE
         /\ loc[t].drain => loc'[t].drain = TRUE /\ loc'[t].any = TRUE
         /\ loc[t].drain /\ backlog # <<>> /\ Tail(backlog) # <<>> =>
              loc'[t].frame = Head(Tail(backlog)) /\ loc'[t].cursor = lastAvail /\ loc'[t].got = 0
         /\ Nic!At(t, {"publish"}) /\ used' = used + loc[t].got
         /\ IF loc[t].drain
            THEN /\ backlog' = Tail(backlog) /\ pc'[t] = (IF Tail(backlog) = <<>> THEN "left" ELSE "pop")
                 /\ UNCHANGED <<signaled, lock>>
            ELSE /\ lock' = Nic!NoLock /\ UNCHANGED backlog
                 /\ IF loc[t].notify
                    THEN signaled' = used' /\ pc'[t] = (IF Nic!Decide(used') THEN "raise" ELSE "idle")
                    ELSE pc'[t] = "count" /\ UNCHANGED signaled
         /\ UNCHANGED <<avail, reaped, asleep, due, driver, availEvent, ready, lastAvail, kick, irq, rxBacklog,
                        rxWake, unsignaled, Nic!owner, injects, resets>>
<1>1. /\ loc' \in [Nic!NetThreads -> Locals] /\ OtherThreads(t)
      /\ ~loc[t].drain => loc'[t].drain = FALSE /\ loc'[t].any = FALSE
      /\ loc[t].drain => loc'[t].drain = TRUE /\ loc'[t].any = TRUE
      /\ loc[t].drain /\ backlog # <<>> /\ Tail(backlog) # <<>> =>
           loc'[t].frame = Head(Tail(backlog)) /\ loc'[t].cursor = lastAvail /\ loc'[t].got = 0
      /\ Nic!At(t, {"publish"}) /\ used' = used + loc[t].got
      /\ IF loc[t].drain
         THEN /\ backlog' = Tail(backlog) /\ Nic!Goto(t, IF Tail(backlog) = <<>> THEN "left" ELSE "pop")
              /\ UNCHANGED <<signaled, lock>>
         ELSE /\ lock' = Nic!NoLock /\ UNCHANGED backlog
              /\ IF loc[t].notify
                 THEN signaled' = used' /\ Nic!Goto(t, IF Nic!Decide(used') THEN "raise" ELSE "idle")
                 ELSE Nic!Goto(t, "count") /\ UNCHANGED signaled
      /\ UNCHANGED <<avail, reaped, asleep, due, driver, availEvent, ready, lastAvail, kick, irq, rxBacklog,
                     rxWake, unsignaled, Nic!owner, injects, resets>>
  BY PublishLoc DEF Nic!Publish, Nic!At, Nic!Decide
<1>2. \A p \in NicPlaces : Nic!Goto(t, p) => pc' \in [Nic!NetThreads -> NicPlaces] /\ pc'[t] = p /\ Apart(t)
  BY <1>1, Went
<1> QED  BY SMTT(60), <1>1, <1>2 DEF NicPlaces, RingPlaces, Holding

LEMMA LeftEffect ==
  ASSUME NetType, NEW t \in Nic!NetThreads, Nic!Left(t)
  PROVE  /\ loc' \in [Nic!NetThreads -> Locals] /\ pc' \in [Nic!NetThreads -> NicPlaces] /\ Apart(t)
         /\ loc'[t].drain = loc[t].drain /\ loc'[t].any = loc[t].any /\ loc'[t].left = Len(backlog)
         /\ Nic!At(t, {"left"}) /\ lock' = Nic!NoLock /\ rxBacklog' = Len(backlog)
         /\ IF loc[t].any /\ ready
            THEN signaled' = used /\ pc'[t] = (IF Nic!Decide(used) THEN "raise" ELSE "wake")
            ELSE UNCHANGED signaled /\ pc'[t] = "wake"
         /\ UNCHANGED <<avail, reaped, asleep, due, driver, availEvent, used, ready, lastAvail, kick, irq, backlog,
                        rxWake, unsignaled, Nic!owner, injects, resets>>
<1>1. /\ loc' \in [Nic!NetThreads -> Locals] /\ OtherThreads(t)
      /\ loc'[t].drain = loc[t].drain /\ loc'[t].any = loc[t].any /\ loc'[t].left = Len(backlog)
      /\ Nic!At(t, {"left"}) /\ lock' = Nic!NoLock /\ rxBacklog' = Len(backlog)
      /\ IF loc[t].any /\ ready
         THEN signaled' = used /\ Nic!Goto(t, IF Nic!Decide(used) THEN "raise" ELSE "wake")
         ELSE UNCHANGED signaled /\ Nic!Goto(t, "wake")
      /\ UNCHANGED <<avail, reaped, asleep, due, driver, availEvent, used, ready, lastAvail, kick, irq, backlog,
                     rxWake, unsignaled, Nic!owner, injects, resets>>
  BY LeftLoc DEF Nic!Left, Nic!At
<1>2. \A p \in NicPlaces : Nic!Goto(t, p) => pc' \in [Nic!NetThreads -> NicPlaces] /\ pc'[t] = p /\ Apart(t)
  BY <1>1, Went
<1> QED  BY <1>1, <1>2 DEF NicPlaces, RingPlaces, Holding

LEMMA WakeEffect ==
  ASSUME NetType, NEW t \in Nic!NetThreads, Nic!Wake(t)
  PROVE  /\ loc' \in [Nic!NetThreads -> Locals] /\ pc' \in [Nic!NetThreads -> NicPlaces] /\ Apart(t) /\ loc'[t].drain = FALSE /\ loc'[t].any = FALSE
         /\ Nic!At(t, {"wake"}) /\ Nic!WakeBackend(loc[t].left) /\ pc'[t] = "idle"
         /\ UNCHANGED <<Nic!ring, kick, irq, lock, backlog, rxBacklog, unsignaled, paused, burst, injects, resets>>
<1>1. /\ loc' \in [Nic!NetThreads -> Locals] /\ OtherThreads(t) /\ loc'[t].drain = FALSE /\ loc'[t].any = FALSE
      /\ Nic!At(t, {"wake"}) /\ Nic!WakeBackend(loc[t].left) /\ Nic!Goto(t, "idle")
      /\ UNCHANGED <<Nic!ring, kick, irq, lock, backlog, rxBacklog, unsignaled, paused, burst, injects, resets>>
  BY WakeLoc DEF Nic!Wake, Nic!At
<1>2. \A p \in NicPlaces : Nic!Goto(t, p) => pc' \in [Nic!NetThreads -> NicPlaces] /\ pc'[t] = p /\ Apart(t)
  BY <1>1, Went
<1> QED  BY <1>1, <1>2 DEF NicPlaces, RingPlaces, Holding

\* The places and locals stay in range...
LEMMA CtrlStep ==
  ASSUME Nic!NetAssumption, NetType, [Nic!Next]_(Nic!vars)
  PROVE  CtrlType'
<1>0. \A t \in Nic!NetThreads : Fields(loc[t])
  BY FieldsOk DEF NetType
<1> USE NicSizes, <1>0 DEF Fields, NetType, NumType, CtrlType, Holding, RingPlaces, NicPlaces
<1>1. CASE Nic!Refill
  BY <1>1 DEF Nic!Refill, Apart, Nic!At, Nic!Goto, Nic!ring, Nic!flow, Nic!owner, Nic!NetThreads,
     Nic!NoLock
<1>2. CASE Nic!KickPrepare
  BY <1>2 DEF Nic!KickPrepare, Apart, Nic!At, Nic!Goto, Nic!ring, Nic!flow, Nic!owner,
     Nic!NetThreads, Nic!NoLock
<1>3. CASE Nic!NapiPoll
  BY <1>3 DEF Nic!NapiPoll, Apart, Nic!At, Nic!Goto, Nic!ring, Nic!flow, Nic!owner,
     Nic!NetThreads, Nic!NoLock
<1>4. CASE Nic!TakeIrq
  BY <1>4 DEF Nic!TakeIrq, Apart, Nic!At, Nic!Goto, Nic!ring, Nic!flow, Nic!owner, Nic!NetThreads,
     Nic!NoLock
<1>5. CASE Nic!ResetClear
  BY <1>5 DEF Nic!ResetClear, Apart, Nic!At, Nic!Goto, Nic!ring, Nic!flow, Nic!owner,
     Nic!NetThreads, Nic!NoLock
<1>6. CASE Nic!ResetStore
  BY <1>6 DEF Nic!ResetStore, Apart, Nic!At, Nic!Goto, Nic!ring, Nic!flow, Nic!owner,
     Nic!NetThreads, Nic!NoLock
<1>7. CASE Nic!ResetWake
  BY <1>7 DEF Nic!ResetWake, Nic!WakeBackend, Apart, Nic!At, Nic!Goto, Nic!ring, Nic!flow,
     Nic!owner, Nic!NetThreads, Nic!NoLock
<1>8. CASE Nic!ResetQueue
  BY <1>8 DEF Nic!ResetQueue, Nic!InRing, Apart, Nic!At, Nic!Goto, Nic!ring, Nic!flow, Nic!owner,
     Nic!NetThreads, Nic!NoLock
<1>9. CASE Nic!Enable
  BY <1>9 DEF Nic!Enable, Nic!InRing, Apart, Nic!At, Nic!Goto, Nic!ring, Nic!flow, Nic!owner,
     Nic!NetThreads, Nic!NoLock
<1>10. CASE Nic!PumpWake
  BY <1>10 DEF Nic!PumpWake, Apart, Nic!At, Nic!Goto, Nic!ring, Nic!flow, Nic!owner,
     Nic!NetThreads, Nic!NoLock
<1>11. CASE Nic!EndBurst
  BY <1>11 DEF Nic!EndBurst, Apart, Nic!At, Nic!Goto, Nic!ring, Nic!flow, Nic!owner,
     Nic!NetThreads, Nic!NoLock
<1>12. CASE Nic!AskCongested
  BY <1>12 DEF Nic!AskCongested, Apart, Nic!At, Nic!Goto, Nic!ring, Nic!flow, Nic!owner,
     Nic!NetThreads, Nic!NoLock
<1>13. CASE Nic!ArmWake
  BY <1>13 DEF Nic!ArmWake, Apart, Nic!At, Nic!Goto, Nic!ring, Nic!flow, Nic!owner,
     Nic!NetThreads, Nic!NoLock
<1>14. CASE Nic!Congested
  BY <1>14 DEF Nic!Congested, Apart, Nic!At, Nic!Goto, Nic!ring, Nic!flow, Nic!owner,
     Nic!NetThreads, Nic!NoLock
<1>15. CASE Nic!Resume
  BY <1>15 DEF Nic!Resume, Apart, Nic!At, Nic!Goto, Nic!ring, Nic!flow, Nic!owner, Nic!NetThreads,
     Nic!NoLock
<1>16. ASSUME NEW t \in Nic!NetThreads, NEW n \in Nat \ {0}, NEW notify \in BOOLEAN,
              Nic!InjectFrame(t, n, notify),
             notify <=> t = "pump", UNCHANGED <<paused, woken>>, burst' = (burst \/ t = "owner")
      PROVE  CtrlType'
  <2>1. /\ loc' \in [Nic!NetThreads -> Locals] /\ pc' \in [Nic!NetThreads -> NicPlaces] /\ Apart(t)
        /\ loc'[t].frame = n /\ loc'[t].notify = notify /\ loc'[t].drain = FALSE /\ loc'[t].any = FALSE
        /\ loc'[t].cursor = lastAvail /\ loc'[t].got = 0
        /\ Nic!At(t, {"idle"}) /\ lock = Nic!NoLock /\ injects < MaxInjects /\ lock' = t /\ injects' = injects + 1
        /\ pc'[t] = (IF ready /\ backlog = <<>> THEN "pop" ELSE "queue") /\ UNCHANGED <<Nic!ring, kick, irq, Nic!flow, resets>>
    <3> HIDE DEF NetType
    <3> QED  BY <1>16, InjectEffect
  <2> QED  BY <2>1, <1>16 DEF Apart, Nic!At, Nic!Goto, Nic!ring, Nic!flow, Nic!owner,
              Nic!NetThreads, Nic!NoLock
<1>17. ASSUME NEW t \in Nic!NetThreads, Nic!Queue(t) PROVE CtrlType'
  <2>1. /\ loc' \in [Nic!NetThreads -> Locals] /\ pc' \in [Nic!NetThreads -> NicPlaces] /\ Apart(t) /\ loc'[t].drain = FALSE /\ loc'[t].any = FALSE
        /\ Nic!At(t, {"queue"}) /\ lock' = Nic!NoLock
        /\ IF Len(backlog) < Pool
           THEN backlog' = Append(backlog, loc[t].frame) /\ rxBacklog' = Len(backlog) + 1 /\ pc'[t] = "deliver"
           ELSE UNCHANGED <<backlog, rxBacklog>> /\ pc'[t] = "idle"
        /\ UNCHANGED <<Nic!ring, kick, irq, rxWake, unsignaled, Nic!owner, injects, resets>>
    BY <1>17, QueueEffect
  <2> QED  BY <2>1 DEF Apart, Nic!At, Nic!Goto, Nic!ring, Nic!flow, Nic!owner, Nic!NetThreads,
              Nic!NoLock
<1>18. ASSUME NEW t \in Nic!NetThreads, Nic!DeliverRx(t) PROVE CtrlType'
  <2>1. /\ loc' \in [Nic!NetThreads -> Locals] /\ pc' \in [Nic!NetThreads -> NicPlaces] /\ Apart(t) /\ loc'[t].drain = TRUE /\ loc'[t].any = FALSE
        /\ ready /\ backlog # <<>> =>
             loc'[t].frame = Head(backlog) /\ loc'[t].cursor = lastAvail /\ loc'[t].got = 0
        /\ Nic!At(t, {"deliver"}) /\ lock = Nic!NoLock /\ lock' = t
        /\ pc'[t] = (IF ready /\ backlog # <<>> THEN "pop" ELSE "left")
        /\ UNCHANGED <<Nic!ring, kick, irq, Nic!flow, Nic!owner, injects, resets>>
    BY <1>18, DeliverRxEffect
  <2> QED  BY <2>1 DEF Apart, Nic!At, Nic!Goto, Nic!ring, Nic!flow, Nic!owner, Nic!NetThreads,
              Nic!NoLock
<1>19. ASSUME NEW t \in Nic!NetThreads, Nic!Pop(t) PROVE CtrlType'
  <2>1. /\ loc' \in [Nic!NetThreads -> Locals] /\ pc' \in [Nic!NetThreads -> NicPlaces] /\ Apart(t)
        /\ loc'[t].frame = loc[t].frame /\ loc'[t].notify = loc[t].notify /\ loc'[t].drain = loc[t].drain
        /\ loc'[t].any = loc[t].any /\ loc'[t].cursor = loc[t].cursor
        /\ loc'[t].got = loc[t].got + (IF lastAvail < avail THEN 1 ELSE 0)
        /\ Nic!At(t, {"pop"})
        /\ IF lastAvail < avail
           THEN /\ lastAvail' = lastAvail + 1 /\ availEvent' = lastAvail + 1
                /\ pc'[t] = (IF loc[t].got + 1 = loc[t].frame THEN "publish" ELSE "pop")
           ELSE pc'[t] = "arm" /\ UNCHANGED <<lastAvail, availEvent>>
        /\ UNCHANGED <<avail, reaped, asleep, due, driver, used, ready, signaled, kick, irq, lock, Nic!flow, Nic!owner,
                       injects, resets>>
    BY <1>19, PopEffect
  <2> QED  BY <2>1 DEF Apart, Nic!At, Nic!Goto, Nic!ring, Nic!flow, Nic!owner, Nic!NetThreads,
              Nic!NoLock
<1>20. ASSUME NEW t \in Nic!NetThreads, Nic!Arm(t) PROVE CtrlType'
  BY <1>20 DEF Nic!Arm, Apart, Nic!At, Nic!Goto, Nic!ring, Nic!flow, Nic!owner, Nic!NetThreads,
     Nic!NoLock
<1>21. ASSUME NEW t \in Nic!NetThreads, Nic!Recheck(t) PROVE CtrlType'
  BY <1>21 DEF Nic!Recheck, Nic!Fail, Apart, Nic!At, Nic!Goto, Nic!ring, Nic!flow, Nic!owner,
     Nic!NetThreads, Nic!NoLock
<1>22. ASSUME NEW t \in Nic!NetThreads, Nic!Rewind(t) PROVE CtrlType'
  <2>1. /\ loc' \in [Nic!NetThreads -> Locals] /\ pc' \in [Nic!NetThreads -> NicPlaces] /\ Apart(t)
        /\ loc'[t].frame = loc[t].frame /\ loc'[t].notify = loc[t].notify /\ loc'[t].drain = loc[t].drain
        /\ loc'[t].any = loc[t].any /\ loc'[t].cursor = loc[t].cursor /\ loc'[t].got = 0
        /\ Nic!At(t, {"rewind"}) /\ lastAvail' = loc[t].cursor
        /\ \/ avail # lastAvail /\ pc'[t] = "pop"
           \/ pc'[t] = (IF loc[t].drain THEN "left" ELSE "queue")
        /\ UNCHANGED <<avail, reaped, asleep, due, driver, availEvent, used, ready, signaled, kick, irq, lock, Nic!flow,
                       Nic!owner, injects, resets>>
    BY <1>22, RewindEffect
  <2> QED  BY <2>1 DEF Nic!Fail, Apart, Nic!At, Nic!Goto, Nic!ring, Nic!flow, Nic!owner,
              Nic!NetThreads, Nic!NoLock
<1>23. ASSUME NEW t \in Nic!NetThreads, Nic!Publish(t) PROVE CtrlType'
  <2>1. /\ loc' \in [Nic!NetThreads -> Locals] /\ pc' \in [Nic!NetThreads -> NicPlaces] /\ Apart(t)
        /\ ~loc[t].drain => loc'[t].drain = FALSE /\ loc'[t].any = FALSE
        /\ loc[t].drain => loc'[t].drain = TRUE /\ loc'[t].any = TRUE
        /\ loc[t].drain /\ backlog # <<>> /\ Tail(backlog) # <<>> =>
             loc'[t].frame = Head(Tail(backlog)) /\ loc'[t].cursor = lastAvail /\ loc'[t].got = 0
        /\ Nic!At(t, {"publish"}) /\ used' = used + loc[t].got
        /\ IF loc[t].drain
           THEN /\ backlog' = Tail(backlog) /\ pc'[t] = (IF Tail(backlog) = <<>> THEN "left" ELSE "pop")
                /\ UNCHANGED <<signaled, lock>>
           ELSE /\ lock' = Nic!NoLock /\ UNCHANGED backlog
                /\ IF loc[t].notify
                   THEN signaled' = used' /\ pc'[t] = (IF Nic!Decide(used') THEN "raise" ELSE "idle")
                   ELSE pc'[t] = "count" /\ UNCHANGED signaled
        /\ UNCHANGED <<avail, reaped, asleep, due, driver, availEvent, ready, lastAvail, kick, irq, rxBacklog,
                       rxWake, unsignaled, Nic!owner, injects, resets>>
    BY <1>23, PublishEffect
  <2>2. CASE loc[t].drain
    BY <2>1, <2>2 DEF Nic!Goto, Nic!NoLock
  <2>3. CASE ~loc[t].drain
    BY <2>1, <2>3 DEF Nic!Goto, Nic!NoLock
  <2> QED  BY <2>2, <2>3
<1>24. ASSUME NEW t \in Nic!NetThreads, Nic!Left(t) PROVE CtrlType'
  <2>1. /\ loc' \in [Nic!NetThreads -> Locals] /\ pc' \in [Nic!NetThreads -> NicPlaces] /\ Apart(t)
        /\ loc'[t].drain = loc[t].drain /\ loc'[t].any = loc[t].any /\ loc'[t].left = Len(backlog)
        /\ Nic!At(t, {"left"}) /\ lock' = Nic!NoLock /\ rxBacklog' = Len(backlog)
        /\ IF loc[t].any /\ ready
           THEN signaled' = used /\ pc'[t] = (IF Nic!Decide(used) THEN "raise" ELSE "wake")
           ELSE UNCHANGED signaled /\ pc'[t] = "wake"
        /\ UNCHANGED <<avail, reaped, asleep, due, driver, availEvent, used, ready, lastAvail, kick, irq, backlog,
                       rxWake, unsignaled, Nic!owner, injects, resets>>
    BY <1>24, LeftEffect
  <2> QED  BY <2>1 DEF Nic!Decide, Apart, Nic!At, Nic!Goto, Nic!ring, Nic!flow, Nic!owner,
              Nic!NetThreads, Nic!NoLock
<1>25. ASSUME NEW t \in Nic!NetThreads, Nic!Raise(t) PROVE CtrlType'
  BY <1>25 DEF Nic!Raise, Apart, Nic!At, Nic!Goto, Nic!ring, Nic!flow, Nic!owner, Nic!NetThreads,
     Nic!NoLock
<1>26. ASSUME NEW t \in Nic!NetThreads, Nic!Wake(t) PROVE CtrlType'
  <2>1. /\ loc' \in [Nic!NetThreads -> Locals] /\ pc' \in [Nic!NetThreads -> NicPlaces] /\ Apart(t) /\ loc'[t].drain = FALSE /\ loc'[t].any = FALSE
        /\ Nic!At(t, {"wake"}) /\ Nic!WakeBackend(loc[t].left) /\ pc'[t] = "idle"
        /\ UNCHANGED <<Nic!ring, kick, irq, lock, backlog, rxBacklog, unsignaled, paused, burst, injects, resets>>
    BY <1>26, WakeEffect
  <2> QED  BY <2>1 DEF Nic!WakeBackend, Apart, Nic!At, Nic!Goto, Nic!ring, Nic!flow, Nic!owner,
              Nic!NetThreads, Nic!NoLock
<1>27. ASSUME NEW t \in Nic!NetThreads, Nic!Count(t) PROVE CtrlType'
  BY <1>27 DEF Nic!Count, Apart, Nic!At, Nic!Goto, Nic!ring, Nic!flow, Nic!owner, Nic!NetThreads,
     Nic!NoLock
<1>28. ASSUME NEW t \in Nic!NetThreads, Nic!NotifyRx(t) PROVE CtrlType'
  BY <1>28 DEF Nic!NotifyRx, Apart, Nic!At, Nic!Goto, Nic!ring, Nic!flow, Nic!owner,
     Nic!NetThreads, Nic!NoLock
<1>29. ASSUME NEW t \in Nic!NetThreads, Nic!NotifyDecide(t) PROVE CtrlType'
  BY <1>29 DEF Nic!NotifyDecide, Nic!Decide, Nic!InRing, Apart, Nic!At, Nic!Goto, Nic!ring,
     Nic!flow, Nic!owner, Nic!NetThreads, Nic!NoLock
<1>30. CASE UNCHANGED Nic!vars
  BY <1>30 DEF Nic!vars, Apart, Nic!At, Nic!Goto, Nic!ring, Nic!flow, Nic!owner, Nic!NetThreads,
     Nic!NoLock
<1>31. ASSUME NEW n \in 1 .. MaxFrame, Nic!Inject(n) PROVE CtrlType'
  BY <1>31, <1>16, InjectIsOwners DEF NetType
<1>32. ASSUME Nic!Loopback(1) PROVE CtrlType'
  BY <1>32, <1>16, LoopbackIsPumps DEF NetType
<1> QED
  BY <1>1, <1>2, <1>3, <1>4, <1>5, <1>6, <1>7, <1>8, <1>9, <1>10, <1>11, <1>12, <1>13, <1>14,
     <1>15, <1>17, <1>18, <1>19, <1>20, <1>21, <1>22, <1>23, <1>24, <1>25, <1>26, <1>27, <1>28,
     <1>29, <1>30, <1>31, <1>32
  DEF Nic!Next, Nic!Driver, Nic!Reset, Nic!Owner, Nic!ThreadStep, Nic!DeliverFrame

\* ...the backlog within its pool...
LEMMA NicSeqStep ==
  ASSUME Nic!NetAssumption, NetType, HandInv, [Nic!Next]_(Nic!vars)
  PROVE  SeqType'
<1>0. \A t \in Nic!NetThreads : Fields(loc[t])
  BY FieldsOk DEF NetType
<1> USE NicSizes, <1>0 DEF Fields, NetType, NumType, SeqType
<1>1. CASE Nic!Refill
  BY <1>1 DEF Nic!Refill, Apart, Nic!At, Nic!Goto, Nic!ring, Nic!flow, Nic!owner, Nic!NetThreads,
     Nic!NoLock
<1>2. CASE Nic!KickPrepare
  BY <1>2 DEF Nic!KickPrepare, Apart, Nic!At, Nic!Goto, Nic!ring, Nic!flow, Nic!owner,
     Nic!NetThreads, Nic!NoLock
<1>3. CASE Nic!NapiPoll
  BY <1>3 DEF Nic!NapiPoll, Apart, Nic!At, Nic!Goto, Nic!ring, Nic!flow, Nic!owner,
     Nic!NetThreads, Nic!NoLock
<1>4. CASE Nic!TakeIrq
  BY <1>4 DEF Nic!TakeIrq, Apart, Nic!At, Nic!Goto, Nic!ring, Nic!flow, Nic!owner, Nic!NetThreads,
     Nic!NoLock
<1>5. CASE Nic!ResetClear
  BY <1>5 DEF Nic!ResetClear, Apart, Nic!At, Nic!Goto, Nic!ring, Nic!flow, Nic!owner,
     Nic!NetThreads, Nic!NoLock
<1>6. CASE Nic!ResetStore
  BY <1>6 DEF Nic!ResetStore, Apart, Nic!At, Nic!Goto, Nic!ring, Nic!flow, Nic!owner,
     Nic!NetThreads, Nic!NoLock
<1>7. CASE Nic!ResetWake
  BY <1>7 DEF Nic!ResetWake, Nic!WakeBackend, Apart, Nic!At, Nic!Goto, Nic!ring, Nic!flow,
     Nic!owner, Nic!NetThreads, Nic!NoLock
<1>8. CASE Nic!ResetQueue
  BY <1>8 DEF Nic!ResetQueue, Nic!InRing, Apart, Nic!At, Nic!Goto, Nic!ring, Nic!flow, Nic!owner,
     Nic!NetThreads, Nic!NoLock
<1>9. CASE Nic!Enable
  BY <1>9 DEF Nic!Enable, Nic!InRing, Apart, Nic!At, Nic!Goto, Nic!ring, Nic!flow, Nic!owner,
     Nic!NetThreads, Nic!NoLock
<1>10. CASE Nic!PumpWake
  BY <1>10 DEF Nic!PumpWake, Apart, Nic!At, Nic!Goto, Nic!ring, Nic!flow, Nic!owner,
     Nic!NetThreads, Nic!NoLock
<1>11. CASE Nic!EndBurst
  BY <1>11 DEF Nic!EndBurst, Apart, Nic!At, Nic!Goto, Nic!ring, Nic!flow, Nic!owner,
     Nic!NetThreads, Nic!NoLock
<1>12. CASE Nic!AskCongested
  BY <1>12 DEF Nic!AskCongested, Apart, Nic!At, Nic!Goto, Nic!ring, Nic!flow, Nic!owner,
     Nic!NetThreads, Nic!NoLock
<1>13. CASE Nic!ArmWake
  BY <1>13 DEF Nic!ArmWake, Apart, Nic!At, Nic!Goto, Nic!ring, Nic!flow, Nic!owner,
     Nic!NetThreads, Nic!NoLock
<1>14. CASE Nic!Congested
  BY <1>14 DEF Nic!Congested, Apart, Nic!At, Nic!Goto, Nic!ring, Nic!flow, Nic!owner,
     Nic!NetThreads, Nic!NoLock
<1>15. CASE Nic!Resume
  BY <1>15 DEF Nic!Resume, Apart, Nic!At, Nic!Goto, Nic!ring, Nic!flow, Nic!owner, Nic!NetThreads,
     Nic!NoLock
<1>16. ASSUME NEW t \in Nic!NetThreads, NEW n \in Nat \ {0}, NEW notify \in BOOLEAN,
              Nic!InjectFrame(t, n, notify),
             notify <=> t = "pump", UNCHANGED <<paused, woken>>, burst' = (burst \/ t = "owner")
      PROVE  SeqType'
  <2>1. /\ loc' \in [Nic!NetThreads -> Locals] /\ pc' \in [Nic!NetThreads -> NicPlaces] /\ Apart(t)
        /\ loc'[t].frame = n /\ loc'[t].notify = notify /\ loc'[t].drain = FALSE /\ loc'[t].any = FALSE
        /\ loc'[t].cursor = lastAvail /\ loc'[t].got = 0
        /\ Nic!At(t, {"idle"}) /\ lock = Nic!NoLock /\ injects < MaxInjects /\ lock' = t /\ injects' = injects + 1
        /\ pc'[t] = (IF ready /\ backlog = <<>> THEN "pop" ELSE "queue") /\ UNCHANGED <<Nic!ring, kick, irq, Nic!flow, resets>>
    <3> HIDE DEF NetType
    <3> QED  BY <1>16, InjectEffect
  <2> QED  BY <2>1, <1>16 DEF Apart, Nic!At, Nic!Goto, Nic!ring, Nic!flow, Nic!owner,
              Nic!NetThreads, Nic!NoLock
<1>17. ASSUME NEW t \in Nic!NetThreads, Nic!Queue(t) PROVE SeqType'
  <2>1. /\ loc' \in [Nic!NetThreads -> Locals] /\ pc' \in [Nic!NetThreads -> NicPlaces] /\ Apart(t) /\ loc'[t].drain = FALSE /\ loc'[t].any = FALSE
        /\ Nic!At(t, {"queue"}) /\ lock' = Nic!NoLock
        /\ IF Len(backlog) < Pool
           THEN backlog' = Append(backlog, loc[t].frame) /\ rxBacklog' = Len(backlog) + 1 /\ pc'[t] = "deliver"
           ELSE UNCHANGED <<backlog, rxBacklog>> /\ pc'[t] = "idle"
        /\ UNCHANGED <<Nic!ring, kick, irq, rxWake, unsignaled, Nic!owner, injects, resets>>
    BY <1>17, QueueEffect
  <2>2. loc[t].frame \in Nat \ {0}
    BY SMTT(60), <2>1 DEF Nic!At, HandInv, GotInv
  <2>3. /\ Append(backlog, loc[t].frame) \in Seq(Nat \ {0})
        /\ Len(Append(backlog, loc[t].frame)) = Len(backlog) + 1 /\ Len(backlog) \in Nat
    BY <2>2
  <2>4. \/ Len(backlog) < Pool /\ backlog' = Append(backlog, loc[t].frame) /\ rxBacklog' = Len(backlog) + 1
        \/ UNCHANGED <<backlog, rxBacklog>>
    BY <2>1
  <2>5. Pool \in Nat
    BY NicSizes
  <2>6. CASE Len(backlog) < Pool /\ backlog' = Append(backlog, loc[t].frame) /\ rxBacklog' = Len(backlog) + 1
    <3>1. backlog' \in Seq(Nat \ {0}) /\ Len(backlog') = Len(backlog) + 1
      BY <2>3, <2>6
    <3> QED  BY <3>1, <2>3, <2>5, <2>6
  <2>7. CASE UNCHANGED <<backlog, rxBacklog>>
    BY <2>7
  <2> QED  BY <2>4, <2>6, <2>7
<1>18. ASSUME NEW t \in Nic!NetThreads, Nic!DeliverRx(t) PROVE SeqType'
  <2>1. /\ loc' \in [Nic!NetThreads -> Locals] /\ pc' \in [Nic!NetThreads -> NicPlaces] /\ Apart(t) /\ loc'[t].drain = TRUE /\ loc'[t].any = FALSE
        /\ ready /\ backlog # <<>> =>
             loc'[t].frame = Head(backlog) /\ loc'[t].cursor = lastAvail /\ loc'[t].got = 0
        /\ Nic!At(t, {"deliver"}) /\ lock = Nic!NoLock /\ lock' = t
        /\ pc'[t] = (IF ready /\ backlog # <<>> THEN "pop" ELSE "left")
        /\ UNCHANGED <<Nic!ring, kick, irq, Nic!flow, Nic!owner, injects, resets>>
    BY <1>18, DeliverRxEffect
  <2> QED  BY <2>1 DEF Apart, Nic!At, Nic!Goto, Nic!ring, Nic!flow, Nic!owner, Nic!NetThreads,
              Nic!NoLock
<1>19. ASSUME NEW t \in Nic!NetThreads, Nic!Pop(t) PROVE SeqType'
  <2>1. /\ loc' \in [Nic!NetThreads -> Locals] /\ pc' \in [Nic!NetThreads -> NicPlaces] /\ Apart(t)
        /\ loc'[t].frame = loc[t].frame /\ loc'[t].notify = loc[t].notify /\ loc'[t].drain = loc[t].drain
        /\ loc'[t].any = loc[t].any /\ loc'[t].cursor = loc[t].cursor
        /\ loc'[t].got = loc[t].got + (IF lastAvail < avail THEN 1 ELSE 0)
        /\ Nic!At(t, {"pop"})
        /\ IF lastAvail < avail
           THEN /\ lastAvail' = lastAvail + 1 /\ availEvent' = lastAvail + 1
                /\ pc'[t] = (IF loc[t].got + 1 = loc[t].frame THEN "publish" ELSE "pop")
           ELSE pc'[t] = "arm" /\ UNCHANGED <<lastAvail, availEvent>>
        /\ UNCHANGED <<avail, reaped, asleep, due, driver, used, ready, signaled, kick, irq, lock, Nic!flow, Nic!owner,
                       injects, resets>>
    BY <1>19, PopEffect
  <2> QED  BY <2>1 DEF Apart, Nic!At, Nic!Goto, Nic!ring, Nic!flow, Nic!owner, Nic!NetThreads,
              Nic!NoLock
<1>20. ASSUME NEW t \in Nic!NetThreads, Nic!Arm(t) PROVE SeqType'
  BY <1>20 DEF Nic!Arm, Apart, Nic!At, Nic!Goto, Nic!ring, Nic!flow, Nic!owner, Nic!NetThreads,
     Nic!NoLock
<1>21. ASSUME NEW t \in Nic!NetThreads, Nic!Recheck(t) PROVE SeqType'
  BY <1>21 DEF Nic!Recheck, Nic!Fail, Apart, Nic!At, Nic!Goto, Nic!ring, Nic!flow, Nic!owner,
     Nic!NetThreads, Nic!NoLock
<1>22. ASSUME NEW t \in Nic!NetThreads, Nic!Rewind(t) PROVE SeqType'
  <2>1. /\ loc' \in [Nic!NetThreads -> Locals] /\ pc' \in [Nic!NetThreads -> NicPlaces] /\ Apart(t)
        /\ loc'[t].frame = loc[t].frame /\ loc'[t].notify = loc[t].notify /\ loc'[t].drain = loc[t].drain
        /\ loc'[t].any = loc[t].any /\ loc'[t].cursor = loc[t].cursor /\ loc'[t].got = 0
        /\ Nic!At(t, {"rewind"}) /\ lastAvail' = loc[t].cursor
        /\ \/ avail # lastAvail /\ pc'[t] = "pop"
           \/ pc'[t] = (IF loc[t].drain THEN "left" ELSE "queue")
        /\ UNCHANGED <<avail, reaped, asleep, due, driver, availEvent, used, ready, signaled, kick, irq, lock, Nic!flow,
                       Nic!owner, injects, resets>>
    BY <1>22, RewindEffect
  <2> QED  BY <2>1 DEF Nic!Fail, Apart, Nic!At, Nic!Goto, Nic!ring, Nic!flow, Nic!owner,
              Nic!NetThreads, Nic!NoLock
<1>23. ASSUME NEW t \in Nic!NetThreads, Nic!Publish(t) PROVE SeqType'
  <2>1. /\ loc' \in [Nic!NetThreads -> Locals] /\ pc' \in [Nic!NetThreads -> NicPlaces] /\ Apart(t)
        /\ ~loc[t].drain => loc'[t].drain = FALSE /\ loc'[t].any = FALSE
        /\ loc[t].drain => loc'[t].drain = TRUE /\ loc'[t].any = TRUE
        /\ loc[t].drain /\ backlog # <<>> /\ Tail(backlog) # <<>> =>
             loc'[t].frame = Head(Tail(backlog)) /\ loc'[t].cursor = lastAvail /\ loc'[t].got = 0
        /\ Nic!At(t, {"publish"}) /\ used' = used + loc[t].got
        /\ IF loc[t].drain
           THEN /\ backlog' = Tail(backlog) /\ pc'[t] = (IF Tail(backlog) = <<>> THEN "left" ELSE "pop")
                /\ UNCHANGED <<signaled, lock>>
           ELSE /\ lock' = Nic!NoLock /\ UNCHANGED backlog
                /\ IF loc[t].notify
                   THEN signaled' = used' /\ pc'[t] = (IF Nic!Decide(used') THEN "raise" ELSE "idle")
                   ELSE pc'[t] = "count" /\ UNCHANGED signaled
        /\ UNCHANGED <<avail, reaped, asleep, due, driver, availEvent, ready, lastAvail, kick, irq, rxBacklog,
                       rxWake, unsignaled, Nic!owner, injects, resets>>
    BY <1>23, PublishEffect
  <2>2. loc[t].drain => backlog # <<>>
    BY <2>1 DEF Nic!At, HandInv, GotInv, FrontInv, RingPlaces
  <2>3. backlog # <<>> => Tail(backlog) \in Seq(Nat \ {0}) /\ Len(Tail(backlog)) = Len(backlog) - 1
    OBVIOUS
  <2>4. backlog' = backlog \/ (loc[t].drain /\ backlog' = Tail(backlog))
    BY <2>1
  <2>5. UNCHANGED rxBacklog /\ Len(backlog) \in Nat
    BY <2>1
  <2>6. Pool \in Nat
    BY NicSizes
  <2>7. CASE backlog' = backlog
    BY <2>5, <2>7
  <2>8. CASE loc[t].drain /\ backlog' = Tail(backlog)
    <3>1. backlog' \in Seq(Nat \ {0}) /\ Len(backlog') = Len(backlog) - 1
      BY <2>2, <2>3, <2>8
    <3> QED  BY <3>1, <2>5, <2>6
  <2> QED  BY <2>4, <2>7, <2>8
<1>24. ASSUME NEW t \in Nic!NetThreads, Nic!Left(t) PROVE SeqType'
  <2>1. /\ loc' \in [Nic!NetThreads -> Locals] /\ pc' \in [Nic!NetThreads -> NicPlaces] /\ Apart(t)
        /\ loc'[t].drain = loc[t].drain /\ loc'[t].any = loc[t].any /\ loc'[t].left = Len(backlog)
        /\ Nic!At(t, {"left"}) /\ lock' = Nic!NoLock /\ rxBacklog' = Len(backlog)
        /\ IF loc[t].any /\ ready
           THEN signaled' = used /\ pc'[t] = (IF Nic!Decide(used) THEN "raise" ELSE "wake")
           ELSE UNCHANGED signaled /\ pc'[t] = "wake"
        /\ UNCHANGED <<avail, reaped, asleep, due, driver, availEvent, used, ready, lastAvail, kick, irq, backlog,
                       rxWake, unsignaled, Nic!owner, injects, resets>>
    BY <1>24, LeftEffect
  <2> QED  BY <2>1 DEF Nic!Decide, Apart, Nic!At, Nic!Goto, Nic!ring, Nic!flow, Nic!owner,
              Nic!NetThreads, Nic!NoLock
<1>25. ASSUME NEW t \in Nic!NetThreads, Nic!Raise(t) PROVE SeqType'
  BY <1>25 DEF Nic!Raise, Apart, Nic!At, Nic!Goto, Nic!ring, Nic!flow, Nic!owner, Nic!NetThreads,
     Nic!NoLock
<1>26. ASSUME NEW t \in Nic!NetThreads, Nic!Wake(t) PROVE SeqType'
  <2>1. /\ loc' \in [Nic!NetThreads -> Locals] /\ pc' \in [Nic!NetThreads -> NicPlaces] /\ Apart(t) /\ loc'[t].drain = FALSE /\ loc'[t].any = FALSE
        /\ Nic!At(t, {"wake"}) /\ Nic!WakeBackend(loc[t].left) /\ pc'[t] = "idle"
        /\ UNCHANGED <<Nic!ring, kick, irq, lock, backlog, rxBacklog, unsignaled, paused, burst, injects, resets>>
    BY <1>26, WakeEffect
  <2> QED  BY <2>1 DEF Nic!WakeBackend, Apart, Nic!At, Nic!Goto, Nic!ring, Nic!flow, Nic!owner,
              Nic!NetThreads, Nic!NoLock
<1>27. ASSUME NEW t \in Nic!NetThreads, Nic!Count(t) PROVE SeqType'
  BY <1>27 DEF Nic!Count, Apart, Nic!At, Nic!Goto, Nic!ring, Nic!flow, Nic!owner, Nic!NetThreads,
     Nic!NoLock
<1>28. ASSUME NEW t \in Nic!NetThreads, Nic!NotifyRx(t) PROVE SeqType'
  BY <1>28 DEF Nic!NotifyRx, Apart, Nic!At, Nic!Goto, Nic!ring, Nic!flow, Nic!owner,
     Nic!NetThreads, Nic!NoLock
<1>29. ASSUME NEW t \in Nic!NetThreads, Nic!NotifyDecide(t) PROVE SeqType'
  BY <1>29 DEF Nic!NotifyDecide, Nic!Decide, Nic!InRing, Apart, Nic!At, Nic!Goto, Nic!ring,
     Nic!flow, Nic!owner, Nic!NetThreads, Nic!NoLock
<1>30. CASE UNCHANGED Nic!vars
  BY <1>30 DEF Nic!vars, Apart, Nic!At, Nic!Goto, Nic!ring, Nic!flow, Nic!owner, Nic!NetThreads,
     Nic!NoLock
<1>31. ASSUME NEW n \in 1 .. MaxFrame, Nic!Inject(n) PROVE SeqType'
  BY <1>31, <1>16, InjectIsOwners DEF NetType
<1>32. ASSUME Nic!Loopback(1) PROVE SeqType'
  BY <1>32, <1>16, LoopbackIsPumps DEF NetType
<1> QED
  BY <1>1, <1>2, <1>3, <1>4, <1>5, <1>6, <1>7, <1>8, <1>9, <1>10, <1>11, <1>12, <1>13, <1>14,
     <1>15, <1>17, <1>18, <1>19, <1>20, <1>21, <1>22, <1>23, <1>24, <1>25, <1>26, <1>27, <1>28,
     <1>29, <1>30, <1>31, <1>32
  DEF Nic!Next, Nic!Driver, Nic!Reset, Nic!Owner, Nic!ThreadStep, Nic!DeliverFrame

\* ...the ring's positions in their order...
LEMMA NicCountStep ==
  ASSUME Nic!NetAssumption, NetType, HandInv, [Nic!Next]_(Nic!vars)
  PROVE  CountType'
<1>0. \A t \in Nic!NetThreads : Fields(loc[t])
  BY FieldsOk DEF NetType
<1> USE NicSizes, <1>0 DEF Fields, NetType, NumType, CountType
<1>1. CASE Nic!Refill
  BY <1>1 DEF Nic!Refill, Apart, Nic!At, Nic!Goto, Nic!ring, Nic!flow, Nic!owner, Nic!NetThreads,
     Nic!NoLock
<1>2. CASE Nic!KickPrepare
  BY <1>2 DEF Nic!KickPrepare, Apart, Nic!At, Nic!Goto, Nic!ring, Nic!flow, Nic!owner,
     Nic!NetThreads, Nic!NoLock
<1>3. CASE Nic!NapiPoll
  BY <1>3 DEF Nic!NapiPoll, Apart, Nic!At, Nic!Goto, Nic!ring, Nic!flow, Nic!owner,
     Nic!NetThreads, Nic!NoLock
<1>4. CASE Nic!TakeIrq
  BY <1>4 DEF Nic!TakeIrq, Apart, Nic!At, Nic!Goto, Nic!ring, Nic!flow, Nic!owner, Nic!NetThreads,
     Nic!NoLock
<1>5. CASE Nic!ResetClear
  BY <1>5 DEF Nic!ResetClear, Apart, Nic!At, Nic!Goto, Nic!ring, Nic!flow, Nic!owner,
     Nic!NetThreads, Nic!NoLock
<1>6. CASE Nic!ResetStore
  BY <1>6 DEF Nic!ResetStore, Apart, Nic!At, Nic!Goto, Nic!ring, Nic!flow, Nic!owner,
     Nic!NetThreads, Nic!NoLock
<1>7. CASE Nic!ResetWake
  BY <1>7 DEF Nic!ResetWake, Nic!WakeBackend, Apart, Nic!At, Nic!Goto, Nic!ring, Nic!flow,
     Nic!owner, Nic!NetThreads, Nic!NoLock
<1>8. CASE Nic!ResetQueue
  BY <1>8 DEF Nic!ResetQueue, Nic!InRing, Apart, Nic!At, Nic!Goto, Nic!ring, Nic!flow, Nic!owner,
     Nic!NetThreads, Nic!NoLock
<1>9. CASE Nic!Enable
  BY <1>9 DEF Nic!Enable, Nic!InRing, Apart, Nic!At, Nic!Goto, Nic!ring, Nic!flow, Nic!owner,
     Nic!NetThreads, Nic!NoLock
<1>10. CASE Nic!PumpWake
  BY <1>10 DEF Nic!PumpWake, Apart, Nic!At, Nic!Goto, Nic!ring, Nic!flow, Nic!owner,
     Nic!NetThreads, Nic!NoLock
<1>11. CASE Nic!EndBurst
  BY <1>11 DEF Nic!EndBurst, Apart, Nic!At, Nic!Goto, Nic!ring, Nic!flow, Nic!owner,
     Nic!NetThreads, Nic!NoLock
<1>12. CASE Nic!AskCongested
  BY <1>12 DEF Nic!AskCongested, Apart, Nic!At, Nic!Goto, Nic!ring, Nic!flow, Nic!owner,
     Nic!NetThreads, Nic!NoLock
<1>13. CASE Nic!ArmWake
  BY <1>13 DEF Nic!ArmWake, Apart, Nic!At, Nic!Goto, Nic!ring, Nic!flow, Nic!owner,
     Nic!NetThreads, Nic!NoLock
<1>14. CASE Nic!Congested
  BY <1>14 DEF Nic!Congested, Apart, Nic!At, Nic!Goto, Nic!ring, Nic!flow, Nic!owner,
     Nic!NetThreads, Nic!NoLock
<1>15. CASE Nic!Resume
  BY <1>15 DEF Nic!Resume, Apart, Nic!At, Nic!Goto, Nic!ring, Nic!flow, Nic!owner, Nic!NetThreads,
     Nic!NoLock
<1>16. ASSUME NEW t \in Nic!NetThreads, NEW n \in Nat \ {0}, NEW notify \in BOOLEAN,
              Nic!InjectFrame(t, n, notify),
             notify <=> t = "pump", UNCHANGED <<paused, woken>>, burst' = (burst \/ t = "owner")
      PROVE  CountType'
  <2>1. /\ loc' \in [Nic!NetThreads -> Locals] /\ pc' \in [Nic!NetThreads -> NicPlaces] /\ Apart(t)
        /\ loc'[t].frame = n /\ loc'[t].notify = notify /\ loc'[t].drain = FALSE /\ loc'[t].any = FALSE
        /\ loc'[t].cursor = lastAvail /\ loc'[t].got = 0
        /\ Nic!At(t, {"idle"}) /\ lock = Nic!NoLock /\ injects < MaxInjects /\ lock' = t /\ injects' = injects + 1
        /\ pc'[t] = (IF ready /\ backlog = <<>> THEN "pop" ELSE "queue") /\ UNCHANGED <<Nic!ring, kick, irq, Nic!flow, resets>>
    <3> HIDE DEF NetType
    <3> QED  BY <1>16, InjectEffect
  <2> QED  BY SMTT(60), <2>1, <1>16 DEF Apart, Nic!At, Nic!Goto, Nic!ring, Nic!flow, Nic!owner,
              Nic!NetThreads, Nic!NoLock
<1>17. ASSUME NEW t \in Nic!NetThreads, Nic!Queue(t) PROVE CountType'
  <2>1. /\ loc' \in [Nic!NetThreads -> Locals] /\ pc' \in [Nic!NetThreads -> NicPlaces] /\ Apart(t) /\ loc'[t].drain = FALSE /\ loc'[t].any = FALSE
        /\ Nic!At(t, {"queue"}) /\ lock' = Nic!NoLock
        /\ IF Len(backlog) < Pool
           THEN backlog' = Append(backlog, loc[t].frame) /\ rxBacklog' = Len(backlog) + 1 /\ pc'[t] = "deliver"
           ELSE UNCHANGED <<backlog, rxBacklog>> /\ pc'[t] = "idle"
        /\ UNCHANGED <<Nic!ring, kick, irq, rxWake, unsignaled, Nic!owner, injects, resets>>
    BY <1>17, QueueEffect
  <2> QED  BY <2>1 DEF Apart, Nic!At, Nic!Goto, Nic!ring, Nic!flow, Nic!owner, Nic!NetThreads,
              Nic!NoLock
<1>18. ASSUME NEW t \in Nic!NetThreads, Nic!DeliverRx(t) PROVE CountType'
  <2>1. /\ loc' \in [Nic!NetThreads -> Locals] /\ pc' \in [Nic!NetThreads -> NicPlaces] /\ Apart(t) /\ loc'[t].drain = TRUE /\ loc'[t].any = FALSE
        /\ ready /\ backlog # <<>> =>
             loc'[t].frame = Head(backlog) /\ loc'[t].cursor = lastAvail /\ loc'[t].got = 0
        /\ Nic!At(t, {"deliver"}) /\ lock = Nic!NoLock /\ lock' = t
        /\ pc'[t] = (IF ready /\ backlog # <<>> THEN "pop" ELSE "left")
        /\ UNCHANGED <<Nic!ring, kick, irq, Nic!flow, Nic!owner, injects, resets>>
    BY <1>18, DeliverRxEffect
  <2> QED  BY <2>1 DEF Apart, Nic!At, Nic!Goto, Nic!ring, Nic!flow, Nic!owner, Nic!NetThreads,
              Nic!NoLock
<1>19. ASSUME NEW t \in Nic!NetThreads, Nic!Pop(t) PROVE CountType'
  <2>1. /\ loc' \in [Nic!NetThreads -> Locals] /\ pc' \in [Nic!NetThreads -> NicPlaces] /\ Apart(t)
        /\ loc'[t].frame = loc[t].frame /\ loc'[t].notify = loc[t].notify /\ loc'[t].drain = loc[t].drain
        /\ loc'[t].any = loc[t].any /\ loc'[t].cursor = loc[t].cursor
        /\ loc'[t].got = loc[t].got + (IF lastAvail < avail THEN 1 ELSE 0)
        /\ Nic!At(t, {"pop"})
        /\ IF lastAvail < avail
           THEN /\ lastAvail' = lastAvail + 1 /\ availEvent' = lastAvail + 1
                /\ pc'[t] = (IF loc[t].got + 1 = loc[t].frame THEN "publish" ELSE "pop")
           ELSE pc'[t] = "arm" /\ UNCHANGED <<lastAvail, availEvent>>
        /\ UNCHANGED <<avail, reaped, asleep, due, driver, used, ready, signaled, kick, irq, lock, Nic!flow, Nic!owner,
                       injects, resets>>
    BY <1>19, PopEffect
  <2> QED  BY <2>1 DEF Apart, Nic!At, Nic!Goto, Nic!ring, Nic!flow, Nic!owner, Nic!NetThreads,
              Nic!NoLock
<1>20. ASSUME NEW t \in Nic!NetThreads, Nic!Arm(t) PROVE CountType'
  BY <1>20 DEF Nic!Arm, Apart, Nic!At, Nic!Goto, Nic!ring, Nic!flow, Nic!owner, Nic!NetThreads,
     Nic!NoLock
<1>21. ASSUME NEW t \in Nic!NetThreads, Nic!Recheck(t) PROVE CountType'
  BY <1>21 DEF Nic!Recheck, Nic!Fail, Apart, Nic!At, Nic!Goto, Nic!ring, Nic!flow, Nic!owner,
     Nic!NetThreads, Nic!NoLock
<1>22. ASSUME NEW t \in Nic!NetThreads, Nic!Rewind(t) PROVE CountType'
  <2>1. /\ loc' \in [Nic!NetThreads -> Locals] /\ pc' \in [Nic!NetThreads -> NicPlaces] /\ Apart(t)
        /\ loc'[t].frame = loc[t].frame /\ loc'[t].notify = loc[t].notify /\ loc'[t].drain = loc[t].drain
        /\ loc'[t].any = loc[t].any /\ loc'[t].cursor = loc[t].cursor /\ loc'[t].got = 0
        /\ Nic!At(t, {"rewind"}) /\ lastAvail' = loc[t].cursor
        /\ \/ avail # lastAvail /\ pc'[t] = "pop"
           \/ pc'[t] = (IF loc[t].drain THEN "left" ELSE "queue")
        /\ UNCHANGED <<avail, reaped, asleep, due, driver, availEvent, used, ready, signaled, kick, irq, lock, Nic!flow,
                       Nic!owner, injects, resets>>
    BY <1>22, RewindEffect
  <2>2. loc[t].cursor = used
    BY <2>1 DEF Nic!At, HandInv, GotInv, FrontInv, RingPlaces
  <2> QED  BY <2>1, <2>2 DEF Nic!flow
<1>23. ASSUME NEW t \in Nic!NetThreads, Nic!Publish(t) PROVE CountType'
  <2>1. /\ loc' \in [Nic!NetThreads -> Locals] /\ pc' \in [Nic!NetThreads -> NicPlaces] /\ Apart(t)
        /\ ~loc[t].drain => loc'[t].drain = FALSE /\ loc'[t].any = FALSE
        /\ loc[t].drain => loc'[t].drain = TRUE /\ loc'[t].any = TRUE
        /\ loc[t].drain /\ backlog # <<>> /\ Tail(backlog) # <<>> =>
             loc'[t].frame = Head(Tail(backlog)) /\ loc'[t].cursor = lastAvail /\ loc'[t].got = 0
        /\ Nic!At(t, {"publish"}) /\ used' = used + loc[t].got
        /\ IF loc[t].drain
           THEN /\ backlog' = Tail(backlog) /\ pc'[t] = (IF Tail(backlog) = <<>> THEN "left" ELSE "pop")
                /\ UNCHANGED <<signaled, lock>>
           ELSE /\ lock' = Nic!NoLock /\ UNCHANGED backlog
                /\ IF loc[t].notify
                   THEN signaled' = used' /\ pc'[t] = (IF Nic!Decide(used') THEN "raise" ELSE "idle")
                   ELSE pc'[t] = "count" /\ UNCHANGED signaled
        /\ UNCHANGED <<avail, reaped, asleep, due, driver, availEvent, ready, lastAvail, kick, irq, rxBacklog,
                       rxWake, unsignaled, Nic!owner, injects, resets>>
    BY <1>23, PublishEffect
  <2>2. lastAvail = used + loc[t].got
    BY <2>1 DEF Nic!At, HandInv, GotInv, FrontInv, RingPlaces
  <2>3. used' \in Nat /\ used' = lastAvail /\ used <= used' /\ signaled' \in {signaled, used'}
    BY <2>1, <2>2
  <2>4. UNCHANGED <<avail, reaped, availEvent, lastAvail, unsignaled, injects>>
    BY <2>1
  <2> HIDE <1>0
  <2> QED  BY <2>3, <2>4
<1>24. ASSUME NEW t \in Nic!NetThreads, Nic!Left(t) PROVE CountType'
  <2>1. /\ loc' \in [Nic!NetThreads -> Locals] /\ pc' \in [Nic!NetThreads -> NicPlaces] /\ Apart(t)
        /\ loc'[t].drain = loc[t].drain /\ loc'[t].any = loc[t].any /\ loc'[t].left = Len(backlog)
        /\ Nic!At(t, {"left"}) /\ lock' = Nic!NoLock /\ rxBacklog' = Len(backlog)
        /\ IF loc[t].any /\ ready
           THEN signaled' = used /\ pc'[t] = (IF Nic!Decide(used) THEN "raise" ELSE "wake")
           ELSE UNCHANGED signaled /\ pc'[t] = "wake"
        /\ UNCHANGED <<avail, reaped, asleep, due, driver, availEvent, used, ready, lastAvail, kick, irq, backlog,
                       rxWake, unsignaled, Nic!owner, injects, resets>>
    BY <1>24, LeftEffect
  <2>2. /\ signaled' \in {signaled, used} /\ used' = used
        /\ UNCHANGED <<avail, reaped, availEvent, lastAvail, unsignaled, injects>>
    BY <2>1
  <2> HIDE <1>0
  <2> QED  BY <2>2
<1>25. ASSUME NEW t \in Nic!NetThreads, Nic!Raise(t) PROVE CountType'
  BY <1>25 DEF Nic!Raise, Apart, Nic!At, Nic!Goto, Nic!ring, Nic!flow, Nic!owner, Nic!NetThreads,
     Nic!NoLock
<1>26. ASSUME NEW t \in Nic!NetThreads, Nic!Wake(t) PROVE CountType'
  <2>1. /\ loc' \in [Nic!NetThreads -> Locals] /\ pc' \in [Nic!NetThreads -> NicPlaces] /\ Apart(t) /\ loc'[t].drain = FALSE /\ loc'[t].any = FALSE
        /\ Nic!At(t, {"wake"}) /\ Nic!WakeBackend(loc[t].left) /\ pc'[t] = "idle"
        /\ UNCHANGED <<Nic!ring, kick, irq, lock, backlog, rxBacklog, unsignaled, paused, burst, injects, resets>>
    BY <1>26, WakeEffect
  <2> QED  BY <2>1 DEF Nic!WakeBackend, Apart, Nic!At, Nic!Goto, Nic!ring, Nic!flow, Nic!owner,
              Nic!NetThreads, Nic!NoLock
<1>27. ASSUME NEW t \in Nic!NetThreads, Nic!Count(t) PROVE CountType'
  BY <1>27 DEF Nic!Count, Apart, Nic!At, Nic!Goto, Nic!ring, Nic!flow, Nic!owner, Nic!NetThreads,
     Nic!NoLock
<1>28. ASSUME NEW t \in Nic!NetThreads, Nic!NotifyRx(t) PROVE CountType'
  BY <1>28 DEF Nic!NotifyRx, Apart, Nic!At, Nic!Goto, Nic!ring, Nic!flow, Nic!owner,
     Nic!NetThreads, Nic!NoLock
<1>29. ASSUME NEW t \in Nic!NetThreads, Nic!NotifyDecide(t) PROVE CountType'
  BY <1>29 DEF Nic!NotifyDecide, Nic!Decide, Nic!InRing, Apart, Nic!At, Nic!Goto, Nic!ring,
     Nic!flow, Nic!owner, Nic!NetThreads, Nic!NoLock
<1>30. CASE UNCHANGED Nic!vars
  BY <1>30 DEF Nic!vars, Apart, Nic!At, Nic!Goto, Nic!ring, Nic!flow, Nic!owner, Nic!NetThreads,
     Nic!NoLock
<1>31. ASSUME NEW n \in 1 .. MaxFrame, Nic!Inject(n) PROVE CountType'
  BY <1>31, <1>16, InjectIsOwners DEF NetType
<1>32. ASSUME Nic!Loopback(1) PROVE CountType'
  BY <1>32, <1>16, LoopbackIsPumps DEF NetType
<1> QED
  BY <1>1, <1>2, <1>3, <1>4, <1>5, <1>6, <1>7, <1>8, <1>9, <1>10, <1>11, <1>12, <1>13, <1>14,
     <1>15, <1>17, <1>18, <1>19, <1>20, <1>21, <1>22, <1>23, <1>24, <1>25, <1>26, <1>27, <1>28,
     <1>29, <1>30, <1>31, <1>32
  DEF Nic!Next, Nic!Driver, Nic!Reset, Nic!Owner, Nic!ThreadStep, Nic!DeliverFrame

\* ...and the flags Boolean.
LEMMA FlagStep ==
  ASSUME Nic!NetAssumption, NetType, [Nic!Next]_(Nic!vars)
  PROVE  FlagType'
<1>0. \A t \in Nic!NetThreads : Fields(loc[t])
  BY FieldsOk DEF NetType
<1> USE NicSizes, <1>0 DEF Fields, NetType, FlagType
<1>1. CASE Nic!Refill
  BY <1>1, Zenon DEF Nic!Refill, Apart, Nic!At, Nic!Goto, Nic!ring, Nic!flow, Nic!owner,
     Nic!NetThreads, Nic!NoLock
<1>2. CASE Nic!KickPrepare
  BY <1>2, Zenon DEF Nic!KickPrepare, Apart, Nic!At, Nic!Goto, Nic!ring, Nic!flow, Nic!owner,
     Nic!NetThreads, Nic!NoLock
<1>3. CASE Nic!NapiPoll
  BY <1>3, Zenon DEF Nic!NapiPoll, Apart, Nic!At, Nic!Goto, Nic!ring, Nic!flow, Nic!owner,
     Nic!NetThreads, Nic!NoLock
<1>4. CASE Nic!TakeIrq
  BY <1>4, Zenon DEF Nic!TakeIrq, Apart, Nic!At, Nic!Goto, Nic!ring, Nic!flow, Nic!owner,
     Nic!NetThreads, Nic!NoLock
<1>5. CASE Nic!ResetClear
  BY <1>5, Zenon DEF Nic!ResetClear, Apart, Nic!At, Nic!Goto, Nic!ring, Nic!flow, Nic!owner,
     Nic!NetThreads, Nic!NoLock
<1>6. CASE Nic!ResetStore
  BY <1>6, Zenon DEF Nic!ResetStore, Apart, Nic!At, Nic!Goto, Nic!ring, Nic!flow, Nic!owner,
     Nic!NetThreads, Nic!NoLock
<1>7. CASE Nic!ResetWake
  BY <1>7, Zenon DEF Nic!ResetWake, Nic!WakeBackend, Apart, Nic!At, Nic!Goto, Nic!ring, Nic!flow,
     Nic!owner, Nic!NetThreads, Nic!NoLock
<1>8. CASE Nic!ResetQueue
  BY <1>8, Zenon DEF Nic!ResetQueue, Nic!InRing, Apart, Nic!At, Nic!Goto, Nic!ring, Nic!flow,
     Nic!owner, Nic!NetThreads, Nic!NoLock
<1>9. CASE Nic!Enable
  BY <1>9, Zenon DEF Nic!Enable, Nic!InRing, Apart, Nic!At, Nic!Goto, Nic!ring, Nic!flow,
     Nic!owner, Nic!NetThreads, Nic!NoLock
<1>10. CASE Nic!PumpWake
  BY <1>10, Zenon DEF Nic!PumpWake, Apart, Nic!At, Nic!Goto, Nic!ring, Nic!flow, Nic!owner,
     Nic!NetThreads, Nic!NoLock
<1>11. CASE Nic!EndBurst
  BY <1>11, Zenon DEF Nic!EndBurst, Apart, Nic!At, Nic!Goto, Nic!ring, Nic!flow, Nic!owner,
     Nic!NetThreads, Nic!NoLock
<1>12. CASE Nic!AskCongested
  BY <1>12, Zenon DEF Nic!AskCongested, Apart, Nic!At, Nic!Goto, Nic!ring, Nic!flow, Nic!owner,
     Nic!NetThreads, Nic!NoLock
<1>13. CASE Nic!ArmWake
  BY <1>13, Zenon DEF Nic!ArmWake, Apart, Nic!At, Nic!Goto, Nic!ring, Nic!flow, Nic!owner,
     Nic!NetThreads, Nic!NoLock
<1>14. CASE Nic!Congested
  BY <1>14, NicSizes DEF Nic!Congested, NumType, SeqType, Nic!At, Nic!ring, Nic!flow, Nic!owner
<1>15. CASE Nic!Resume
  BY <1>15, Zenon DEF Nic!Resume, Apart, Nic!At, Nic!Goto, Nic!ring, Nic!flow, Nic!owner,
     Nic!NetThreads, Nic!NoLock
<1>16. ASSUME NEW t \in Nic!NetThreads, NEW n \in Nat \ {0}, NEW notify \in BOOLEAN,
              Nic!InjectFrame(t, n, notify),
             notify <=> t = "pump", UNCHANGED <<paused, woken>>, burst' = (burst \/ t = "owner")
      PROVE  FlagType'
  <2>1. /\ loc' \in [Nic!NetThreads -> Locals] /\ pc' \in [Nic!NetThreads -> NicPlaces] /\ Apart(t)
        /\ loc'[t].frame = n /\ loc'[t].notify = notify /\ loc'[t].drain = FALSE /\ loc'[t].any = FALSE
        /\ loc'[t].cursor = lastAvail /\ loc'[t].got = 0
        /\ Nic!At(t, {"idle"}) /\ lock = Nic!NoLock /\ injects < MaxInjects /\ lock' = t /\ injects' = injects + 1
        /\ pc'[t] = (IF ready /\ backlog = <<>> THEN "pop" ELSE "queue") /\ UNCHANGED <<Nic!ring, kick, irq, Nic!flow, resets>>
    <3> HIDE DEF NetType
    <3> QED  BY <1>16, InjectEffect
  <2> QED  BY <2>1, <1>16, Zenon DEF Apart, Nic!At, Nic!Goto, Nic!ring, Nic!flow, Nic!owner,
              Nic!NetThreads, Nic!NoLock
<1>17. ASSUME NEW t \in Nic!NetThreads, Nic!Queue(t) PROVE FlagType'
  <2>1. /\ loc' \in [Nic!NetThreads -> Locals] /\ pc' \in [Nic!NetThreads -> NicPlaces] /\ Apart(t) /\ loc'[t].drain = FALSE /\ loc'[t].any = FALSE
        /\ Nic!At(t, {"queue"}) /\ lock' = Nic!NoLock
        /\ IF Len(backlog) < Pool
           THEN backlog' = Append(backlog, loc[t].frame) /\ rxBacklog' = Len(backlog) + 1 /\ pc'[t] = "deliver"
           ELSE UNCHANGED <<backlog, rxBacklog>> /\ pc'[t] = "idle"
        /\ UNCHANGED <<Nic!ring, kick, irq, rxWake, unsignaled, Nic!owner, injects, resets>>
    BY <1>17, QueueEffect
  <2> QED  BY <2>1, Zenon DEF Apart, Nic!At, Nic!Goto, Nic!ring, Nic!flow, Nic!owner,
              Nic!NetThreads, Nic!NoLock
<1>18. ASSUME NEW t \in Nic!NetThreads, Nic!DeliverRx(t) PROVE FlagType'
  <2>1. /\ loc' \in [Nic!NetThreads -> Locals] /\ pc' \in [Nic!NetThreads -> NicPlaces] /\ Apart(t) /\ loc'[t].drain = TRUE /\ loc'[t].any = FALSE
        /\ ready /\ backlog # <<>> =>
             loc'[t].frame = Head(backlog) /\ loc'[t].cursor = lastAvail /\ loc'[t].got = 0
        /\ Nic!At(t, {"deliver"}) /\ lock = Nic!NoLock /\ lock' = t
        /\ pc'[t] = (IF ready /\ backlog # <<>> THEN "pop" ELSE "left")
        /\ UNCHANGED <<Nic!ring, kick, irq, Nic!flow, Nic!owner, injects, resets>>
    BY <1>18, DeliverRxEffect
  <2> QED  BY <2>1, Zenon DEF Apart, Nic!At, Nic!Goto, Nic!ring, Nic!flow, Nic!owner,
              Nic!NetThreads, Nic!NoLock
<1>19. ASSUME NEW t \in Nic!NetThreads, Nic!Pop(t) PROVE FlagType'
  <2>1. /\ loc' \in [Nic!NetThreads -> Locals] /\ pc' \in [Nic!NetThreads -> NicPlaces] /\ Apart(t)
        /\ loc'[t].frame = loc[t].frame /\ loc'[t].notify = loc[t].notify /\ loc'[t].drain = loc[t].drain
        /\ loc'[t].any = loc[t].any /\ loc'[t].cursor = loc[t].cursor
        /\ loc'[t].got = loc[t].got + (IF lastAvail < avail THEN 1 ELSE 0)
        /\ Nic!At(t, {"pop"})
        /\ IF lastAvail < avail
           THEN /\ lastAvail' = lastAvail + 1 /\ availEvent' = lastAvail + 1
                /\ pc'[t] = (IF loc[t].got + 1 = loc[t].frame THEN "publish" ELSE "pop")
           ELSE pc'[t] = "arm" /\ UNCHANGED <<lastAvail, availEvent>>
        /\ UNCHANGED <<avail, reaped, asleep, due, driver, used, ready, signaled, kick, irq, lock, Nic!flow, Nic!owner,
                       injects, resets>>
    BY <1>19, PopEffect
  <2> QED  BY <2>1, Zenon DEF Apart, Nic!At, Nic!Goto, Nic!ring, Nic!flow, Nic!owner,
              Nic!NetThreads, Nic!NoLock
<1>20. ASSUME NEW t \in Nic!NetThreads, Nic!Arm(t) PROVE FlagType'
  BY <1>20, Zenon DEF Nic!Arm, Apart, Nic!At, Nic!Goto, Nic!ring, Nic!flow, Nic!owner,
     Nic!NetThreads, Nic!NoLock
<1>21. ASSUME NEW t \in Nic!NetThreads, Nic!Recheck(t) PROVE FlagType'
  BY <1>21, Zenon DEF Nic!Recheck, Nic!Fail, Apart, Nic!At, Nic!Goto, Nic!ring, Nic!flow,
     Nic!owner, Nic!NetThreads, Nic!NoLock
<1>22. ASSUME NEW t \in Nic!NetThreads, Nic!Rewind(t) PROVE FlagType'
  <2>1. /\ loc' \in [Nic!NetThreads -> Locals] /\ pc' \in [Nic!NetThreads -> NicPlaces] /\ Apart(t)
        /\ loc'[t].frame = loc[t].frame /\ loc'[t].notify = loc[t].notify /\ loc'[t].drain = loc[t].drain
        /\ loc'[t].any = loc[t].any /\ loc'[t].cursor = loc[t].cursor /\ loc'[t].got = 0
        /\ Nic!At(t, {"rewind"}) /\ lastAvail' = loc[t].cursor
        /\ \/ avail # lastAvail /\ pc'[t] = "pop"
           \/ pc'[t] = (IF loc[t].drain THEN "left" ELSE "queue")
        /\ UNCHANGED <<avail, reaped, asleep, due, driver, availEvent, used, ready, signaled, kick, irq, lock, Nic!flow,
                       Nic!owner, injects, resets>>
    BY <1>22, RewindEffect
  <2> QED  BY <2>1, Zenon DEF Nic!Fail, Apart, Nic!At, Nic!Goto, Nic!ring, Nic!flow, Nic!owner,
              Nic!NetThreads, Nic!NoLock
<1>23. ASSUME NEW t \in Nic!NetThreads, Nic!Publish(t) PROVE FlagType'
  <2>1. /\ loc' \in [Nic!NetThreads -> Locals] /\ pc' \in [Nic!NetThreads -> NicPlaces] /\ Apart(t)
        /\ ~loc[t].drain => loc'[t].drain = FALSE /\ loc'[t].any = FALSE
        /\ loc[t].drain => loc'[t].drain = TRUE /\ loc'[t].any = TRUE
        /\ loc[t].drain /\ backlog # <<>> /\ Tail(backlog) # <<>> =>
             loc'[t].frame = Head(Tail(backlog)) /\ loc'[t].cursor = lastAvail /\ loc'[t].got = 0
        /\ Nic!At(t, {"publish"}) /\ used' = used + loc[t].got
        /\ IF loc[t].drain
           THEN /\ backlog' = Tail(backlog) /\ pc'[t] = (IF Tail(backlog) = <<>> THEN "left" ELSE "pop")
                /\ UNCHANGED <<signaled, lock>>
           ELSE /\ lock' = Nic!NoLock /\ UNCHANGED backlog
                /\ IF loc[t].notify
                   THEN signaled' = used' /\ pc'[t] = (IF Nic!Decide(used') THEN "raise" ELSE "idle")
                   ELSE pc'[t] = "count" /\ UNCHANGED signaled
        /\ UNCHANGED <<avail, reaped, asleep, due, driver, availEvent, ready, lastAvail, kick, irq, rxBacklog,
                       rxWake, unsignaled, Nic!owner, injects, resets>>
    BY <1>23, PublishEffect
  <2> QED  BY <2>1, Zenon DEF Nic!Decide, Apart, Nic!At, Nic!Goto, Nic!ring, Nic!flow, Nic!owner,
              Nic!NetThreads, Nic!NoLock
<1>24. ASSUME NEW t \in Nic!NetThreads, Nic!Left(t) PROVE FlagType'
  <2>1. /\ loc' \in [Nic!NetThreads -> Locals] /\ pc' \in [Nic!NetThreads -> NicPlaces] /\ Apart(t)
        /\ loc'[t].drain = loc[t].drain /\ loc'[t].any = loc[t].any /\ loc'[t].left = Len(backlog)
        /\ Nic!At(t, {"left"}) /\ lock' = Nic!NoLock /\ rxBacklog' = Len(backlog)
        /\ IF loc[t].any /\ ready
           THEN signaled' = used /\ pc'[t] = (IF Nic!Decide(used) THEN "raise" ELSE "wake")
           ELSE UNCHANGED signaled /\ pc'[t] = "wake"
        /\ UNCHANGED <<avail, reaped, asleep, due, driver, availEvent, used, ready, lastAvail, kick, irq, backlog,
                       rxWake, unsignaled, Nic!owner, injects, resets>>
    BY <1>24, LeftEffect
  <2> QED  BY <2>1, Zenon DEF Nic!Decide, Apart, Nic!At, Nic!Goto, Nic!ring, Nic!flow, Nic!owner,
              Nic!NetThreads, Nic!NoLock
<1>25. ASSUME NEW t \in Nic!NetThreads, Nic!Raise(t) PROVE FlagType'
  BY <1>25, Zenon DEF Nic!Raise, Apart, Nic!At, Nic!Goto, Nic!ring, Nic!flow, Nic!owner,
     Nic!NetThreads, Nic!NoLock
<1>26. ASSUME NEW t \in Nic!NetThreads, Nic!Wake(t) PROVE FlagType'
  <2>1. /\ loc' \in [Nic!NetThreads -> Locals] /\ pc' \in [Nic!NetThreads -> NicPlaces] /\ Apart(t) /\ loc'[t].drain = FALSE /\ loc'[t].any = FALSE
        /\ Nic!At(t, {"wake"}) /\ Nic!WakeBackend(loc[t].left) /\ pc'[t] = "idle"
        /\ UNCHANGED <<Nic!ring, kick, irq, lock, backlog, rxBacklog, unsignaled, paused, burst, injects, resets>>
    BY <1>26, WakeEffect
  <2> QED  BY <2>1, Zenon DEF Nic!WakeBackend, Apart, Nic!At, Nic!Goto, Nic!ring, Nic!flow,
              Nic!owner, Nic!NetThreads, Nic!NoLock
<1>27. ASSUME NEW t \in Nic!NetThreads, Nic!Count(t) PROVE FlagType'
  BY <1>27, Zenon DEF Nic!Count, Apart, Nic!At, Nic!Goto, Nic!ring, Nic!flow, Nic!owner,
     Nic!NetThreads, Nic!NoLock
<1>28. ASSUME NEW t \in Nic!NetThreads, Nic!NotifyRx(t) PROVE FlagType'
  BY <1>28, Zenon DEF Nic!NotifyRx, Apart, Nic!At, Nic!Goto, Nic!ring, Nic!flow, Nic!owner,
     Nic!NetThreads, Nic!NoLock
<1>29. ASSUME NEW t \in Nic!NetThreads, Nic!NotifyDecide(t) PROVE FlagType'
  BY <1>29, Zenon DEF Nic!NotifyDecide, Nic!Decide, Nic!InRing, Apart, Nic!At, Nic!Goto, Nic!ring,
     Nic!flow, Nic!owner, Nic!NetThreads, Nic!NoLock
<1>30. CASE UNCHANGED Nic!vars
  BY <1>30, Zenon DEF Nic!vars, Apart, Nic!At, Nic!Goto, Nic!ring, Nic!flow, Nic!owner,
     Nic!NetThreads, Nic!NoLock
<1>31. ASSUME NEW n \in 1 .. MaxFrame, Nic!Inject(n) PROVE FlagType'
  BY <1>31, <1>16, InjectIsOwners DEF NetType
<1>32. ASSUME Nic!Loopback(1) PROVE FlagType'
  BY <1>32, <1>16, LoopbackIsPumps DEF NetType
<1> QED
  BY <1>1, <1>2, <1>3, <1>4, <1>5, <1>6, <1>7, <1>8, <1>9, <1>10, <1>11, <1>12, <1>13, <1>14,
     <1>15, <1>17, <1>18, <1>19, <1>20, <1>21, <1>22, <1>23, <1>24, <1>25, <1>26, <1>27, <1>28,
     <1>29, <1>30, <1>31, <1>32
  DEF Nic!Next, Nic!Driver, Nic!Reset, Nic!Owner, Nic!ThreadStep, Nic!DeliverFrame

\* One thread at a time is inside.
LEMMA NicLockStep ==
  ASSUME Nic!NetAssumption, NetType, NicLockInv, [Nic!Next]_(Nic!vars)
  PROVE  NicLockInv'
<1>0. \A t \in Nic!NetThreads : Fields(loc[t])
  BY FieldsOk DEF NetType
<1> USE NicSizes, <1>0 DEF Fields, NetType, NumType, CtrlType, NicLockInv, Holding, RingPlaces,
                          NicPlaces
<1>1. CASE Nic!Refill
  BY <1>1 DEF Nic!Refill, Apart, Nic!At, Nic!Goto, Nic!ring, Nic!flow, Nic!owner, Nic!NetThreads,
     Nic!NoLock
<1>2. CASE Nic!KickPrepare
  BY <1>2 DEF Nic!KickPrepare, Apart, Nic!At, Nic!Goto, Nic!ring, Nic!flow, Nic!owner,
     Nic!NetThreads, Nic!NoLock
<1>3. CASE Nic!NapiPoll
  BY <1>3 DEF Nic!NapiPoll, Apart, Nic!At, Nic!Goto, Nic!ring, Nic!flow, Nic!owner,
     Nic!NetThreads, Nic!NoLock
<1>4. CASE Nic!TakeIrq
  BY <1>4 DEF Nic!TakeIrq, Apart, Nic!At, Nic!Goto, Nic!ring, Nic!flow, Nic!owner, Nic!NetThreads,
     Nic!NoLock
<1>5. CASE Nic!ResetClear
  BY <1>5 DEF Nic!ResetClear, Apart, Nic!At, Nic!Goto, Nic!ring, Nic!flow, Nic!owner,
     Nic!NetThreads, Nic!NoLock
<1>6. CASE Nic!ResetStore
  BY <1>6 DEF Nic!ResetStore, Apart, Nic!At, Nic!Goto, Nic!ring, Nic!flow, Nic!owner,
     Nic!NetThreads, Nic!NoLock
<1>7. CASE Nic!ResetWake
  BY <1>7 DEF Nic!ResetWake, Nic!WakeBackend, Apart, Nic!At, Nic!Goto, Nic!ring, Nic!flow,
     Nic!owner, Nic!NetThreads, Nic!NoLock
<1>8. CASE Nic!ResetQueue
  BY <1>8 DEF Nic!ResetQueue, Nic!InRing, Apart, Nic!At, Nic!Goto, Nic!ring, Nic!flow, Nic!owner,
     Nic!NetThreads, Nic!NoLock
<1>9. CASE Nic!Enable
  BY <1>9 DEF Nic!Enable, Nic!InRing, Apart, Nic!At, Nic!Goto, Nic!ring, Nic!flow, Nic!owner,
     Nic!NetThreads, Nic!NoLock
<1>10. CASE Nic!PumpWake
  BY <1>10 DEF Nic!PumpWake, Apart, Nic!At, Nic!Goto, Nic!ring, Nic!flow, Nic!owner,
     Nic!NetThreads, Nic!NoLock
<1>11. CASE Nic!EndBurst
  BY <1>11 DEF Nic!EndBurst, Apart, Nic!At, Nic!Goto, Nic!ring, Nic!flow, Nic!owner,
     Nic!NetThreads, Nic!NoLock
<1>12. CASE Nic!AskCongested
  BY <1>12 DEF Nic!AskCongested, Apart, Nic!At, Nic!Goto, Nic!ring, Nic!flow, Nic!owner,
     Nic!NetThreads, Nic!NoLock
<1>13. CASE Nic!ArmWake
  BY <1>13 DEF Nic!ArmWake, Apart, Nic!At, Nic!Goto, Nic!ring, Nic!flow, Nic!owner,
     Nic!NetThreads, Nic!NoLock
<1>14. CASE Nic!Congested
  BY <1>14 DEF Nic!Congested, Apart, Nic!At, Nic!Goto, Nic!ring, Nic!flow, Nic!owner,
     Nic!NetThreads, Nic!NoLock
<1>15. CASE Nic!Resume
  BY <1>15 DEF Nic!Resume, Apart, Nic!At, Nic!Goto, Nic!ring, Nic!flow, Nic!owner, Nic!NetThreads,
     Nic!NoLock
<1>16. ASSUME NEW t \in Nic!NetThreads, NEW n \in Nat \ {0}, NEW notify \in BOOLEAN,
              Nic!InjectFrame(t, n, notify),
             notify <=> t = "pump", UNCHANGED <<paused, woken>>, burst' = (burst \/ t = "owner")
      PROVE  NicLockInv'
  <2>1. /\ loc' \in [Nic!NetThreads -> Locals] /\ pc' \in [Nic!NetThreads -> NicPlaces] /\ Apart(t)
        /\ loc'[t].frame = n /\ loc'[t].notify = notify /\ loc'[t].drain = FALSE /\ loc'[t].any = FALSE
        /\ loc'[t].cursor = lastAvail /\ loc'[t].got = 0
        /\ Nic!At(t, {"idle"}) /\ lock = Nic!NoLock /\ injects < MaxInjects /\ lock' = t /\ injects' = injects + 1
        /\ pc'[t] = (IF ready /\ backlog = <<>> THEN "pop" ELSE "queue") /\ UNCHANGED <<Nic!ring, kick, irq, Nic!flow, resets>>
    <3> HIDE DEF NetType
    <3> QED  BY ZenonT(60), <1>16, InjectEffect
  <2> QED  BY <2>1, <1>16 DEF Apart, Nic!At, Nic!Goto, Nic!ring, Nic!flow, Nic!owner,
              Nic!NetThreads, Nic!NoLock
<1>17. ASSUME NEW t \in Nic!NetThreads, Nic!Queue(t) PROVE NicLockInv'
  <2>1. /\ loc' \in [Nic!NetThreads -> Locals] /\ pc' \in [Nic!NetThreads -> NicPlaces] /\ Apart(t) /\ loc'[t].drain = FALSE /\ loc'[t].any = FALSE
        /\ Nic!At(t, {"queue"}) /\ lock' = Nic!NoLock
        /\ IF Len(backlog) < Pool
           THEN backlog' = Append(backlog, loc[t].frame) /\ rxBacklog' = Len(backlog) + 1 /\ pc'[t] = "deliver"
           ELSE UNCHANGED <<backlog, rxBacklog>> /\ pc'[t] = "idle"
        /\ UNCHANGED <<Nic!ring, kick, irq, rxWake, unsignaled, Nic!owner, injects, resets>>
    BY <1>17, QueueEffect
  <2> QED  BY <2>1 DEF Apart, Nic!At, Nic!Goto, Nic!ring, Nic!flow, Nic!owner, Nic!NetThreads,
              Nic!NoLock
<1>18. ASSUME NEW t \in Nic!NetThreads, Nic!DeliverRx(t) PROVE NicLockInv'
  <2>1. /\ loc' \in [Nic!NetThreads -> Locals] /\ pc' \in [Nic!NetThreads -> NicPlaces] /\ Apart(t) /\ loc'[t].drain = TRUE /\ loc'[t].any = FALSE
        /\ ready /\ backlog # <<>> =>
             loc'[t].frame = Head(backlog) /\ loc'[t].cursor = lastAvail /\ loc'[t].got = 0
        /\ Nic!At(t, {"deliver"}) /\ lock = Nic!NoLock /\ lock' = t
        /\ pc'[t] = (IF ready /\ backlog # <<>> THEN "pop" ELSE "left")
        /\ UNCHANGED <<Nic!ring, kick, irq, Nic!flow, Nic!owner, injects, resets>>
    BY <1>18, DeliverRxEffect
  <2> QED  BY <2>1 DEF Apart, Nic!At, Nic!Goto, Nic!ring, Nic!flow, Nic!owner, Nic!NetThreads,
              Nic!NoLock
<1>19. ASSUME NEW t \in Nic!NetThreads, Nic!Pop(t) PROVE NicLockInv'
  <2>1. /\ loc' \in [Nic!NetThreads -> Locals] /\ pc' \in [Nic!NetThreads -> NicPlaces] /\ Apart(t)
        /\ loc'[t].frame = loc[t].frame /\ loc'[t].notify = loc[t].notify /\ loc'[t].drain = loc[t].drain
        /\ loc'[t].any = loc[t].any /\ loc'[t].cursor = loc[t].cursor
        /\ loc'[t].got = loc[t].got + (IF lastAvail < avail THEN 1 ELSE 0)
        /\ Nic!At(t, {"pop"})
        /\ IF lastAvail < avail
           THEN /\ lastAvail' = lastAvail + 1 /\ availEvent' = lastAvail + 1
                /\ pc'[t] = (IF loc[t].got + 1 = loc[t].frame THEN "publish" ELSE "pop")
           ELSE pc'[t] = "arm" /\ UNCHANGED <<lastAvail, availEvent>>
        /\ UNCHANGED <<avail, reaped, asleep, due, driver, used, ready, signaled, kick, irq, lock, Nic!flow, Nic!owner,
                       injects, resets>>
    BY <1>19, PopEffect
  <2> QED  BY <2>1 DEF Apart, Nic!At, Nic!Goto, Nic!ring, Nic!flow, Nic!owner, Nic!NetThreads,
              Nic!NoLock
<1>20. ASSUME NEW t \in Nic!NetThreads, Nic!Arm(t) PROVE NicLockInv'
  BY <1>20 DEF Nic!Arm, Apart, Nic!At, Nic!Goto, Nic!ring, Nic!flow, Nic!owner, Nic!NetThreads,
     Nic!NoLock
<1>21. ASSUME NEW t \in Nic!NetThreads, Nic!Recheck(t) PROVE NicLockInv'
  BY <1>21 DEF Nic!Recheck, Nic!Fail, Apart, Nic!At, Nic!Goto, Nic!ring, Nic!flow, Nic!owner,
     Nic!NetThreads, Nic!NoLock
<1>22. ASSUME NEW t \in Nic!NetThreads, Nic!Rewind(t) PROVE NicLockInv'
  <2>1. /\ loc' \in [Nic!NetThreads -> Locals] /\ pc' \in [Nic!NetThreads -> NicPlaces] /\ Apart(t)
        /\ loc'[t].frame = loc[t].frame /\ loc'[t].notify = loc[t].notify /\ loc'[t].drain = loc[t].drain
        /\ loc'[t].any = loc[t].any /\ loc'[t].cursor = loc[t].cursor /\ loc'[t].got = 0
        /\ Nic!At(t, {"rewind"}) /\ lastAvail' = loc[t].cursor
        /\ \/ avail # lastAvail /\ pc'[t] = "pop"
           \/ pc'[t] = (IF loc[t].drain THEN "left" ELSE "queue")
        /\ UNCHANGED <<avail, reaped, asleep, due, driver, availEvent, used, ready, signaled, kick, irq, lock, Nic!flow,
                       Nic!owner, injects, resets>>
    BY <1>22, RewindEffect
  <2> QED  BY <2>1 DEF Nic!Fail, Apart, Nic!At, Nic!Goto, Nic!ring, Nic!flow, Nic!owner,
              Nic!NetThreads, Nic!NoLock
<1>23. ASSUME NEW t \in Nic!NetThreads, Nic!Publish(t) PROVE NicLockInv'
  <2>1. /\ loc' \in [Nic!NetThreads -> Locals] /\ pc' \in [Nic!NetThreads -> NicPlaces] /\ Apart(t)
        /\ ~loc[t].drain => loc'[t].drain = FALSE /\ loc'[t].any = FALSE
        /\ loc[t].drain => loc'[t].drain = TRUE /\ loc'[t].any = TRUE
        /\ loc[t].drain /\ backlog # <<>> /\ Tail(backlog) # <<>> =>
             loc'[t].frame = Head(Tail(backlog)) /\ loc'[t].cursor = lastAvail /\ loc'[t].got = 0
        /\ Nic!At(t, {"publish"}) /\ used' = used + loc[t].got
        /\ IF loc[t].drain
           THEN /\ backlog' = Tail(backlog) /\ pc'[t] = (IF Tail(backlog) = <<>> THEN "left" ELSE "pop")
                /\ UNCHANGED <<signaled, lock>>
           ELSE /\ lock' = Nic!NoLock /\ UNCHANGED backlog
                /\ IF loc[t].notify
                   THEN signaled' = used' /\ pc'[t] = (IF Nic!Decide(used') THEN "raise" ELSE "idle")
                   ELSE pc'[t] = "count" /\ UNCHANGED signaled
        /\ UNCHANGED <<avail, reaped, asleep, due, driver, availEvent, ready, lastAvail, kick, irq, rxBacklog,
                       rxWake, unsignaled, Nic!owner, injects, resets>>
    BY <1>23, PublishEffect
  <2> QED  BY <2>1 DEF Nic!Decide, Apart, Nic!At, Nic!Goto, Nic!ring, Nic!flow, Nic!owner,
              Nic!NetThreads, Nic!NoLock
<1>24. ASSUME NEW t \in Nic!NetThreads, Nic!Left(t) PROVE NicLockInv'
  <2>1. /\ loc' \in [Nic!NetThreads -> Locals] /\ pc' \in [Nic!NetThreads -> NicPlaces] /\ Apart(t)
        /\ loc'[t].drain = loc[t].drain /\ loc'[t].any = loc[t].any /\ loc'[t].left = Len(backlog)
        /\ Nic!At(t, {"left"}) /\ lock' = Nic!NoLock /\ rxBacklog' = Len(backlog)
        /\ IF loc[t].any /\ ready
           THEN signaled' = used /\ pc'[t] = (IF Nic!Decide(used) THEN "raise" ELSE "wake")
           ELSE UNCHANGED signaled /\ pc'[t] = "wake"
        /\ UNCHANGED <<avail, reaped, asleep, due, driver, availEvent, used, ready, lastAvail, kick, irq, backlog,
                       rxWake, unsignaled, Nic!owner, injects, resets>>
    BY <1>24, LeftEffect
  <2> QED  BY <2>1 DEF Nic!Decide, Apart, Nic!At, Nic!Goto, Nic!ring, Nic!flow, Nic!owner,
              Nic!NetThreads, Nic!NoLock
<1>25. ASSUME NEW t \in Nic!NetThreads, Nic!Raise(t) PROVE NicLockInv'
  BY <1>25 DEF Nic!Raise, Apart, Nic!At, Nic!Goto, Nic!ring, Nic!flow, Nic!owner, Nic!NetThreads,
     Nic!NoLock
<1>26. ASSUME NEW t \in Nic!NetThreads, Nic!Wake(t) PROVE NicLockInv'
  <2>1. /\ loc' \in [Nic!NetThreads -> Locals] /\ pc' \in [Nic!NetThreads -> NicPlaces] /\ Apart(t) /\ loc'[t].drain = FALSE /\ loc'[t].any = FALSE
        /\ Nic!At(t, {"wake"}) /\ Nic!WakeBackend(loc[t].left) /\ pc'[t] = "idle"
        /\ UNCHANGED <<Nic!ring, kick, irq, lock, backlog, rxBacklog, unsignaled, paused, burst, injects, resets>>
    BY <1>26, WakeEffect
  <2> QED  BY <2>1 DEF Nic!WakeBackend, Apart, Nic!At, Nic!Goto, Nic!ring, Nic!flow, Nic!owner,
              Nic!NetThreads, Nic!NoLock
<1>27. ASSUME NEW t \in Nic!NetThreads, Nic!Count(t) PROVE NicLockInv'
  BY <1>27 DEF Nic!Count, Apart, Nic!At, Nic!Goto, Nic!ring, Nic!flow, Nic!owner, Nic!NetThreads,
     Nic!NoLock
<1>28. ASSUME NEW t \in Nic!NetThreads, Nic!NotifyRx(t) PROVE NicLockInv'
  BY <1>28 DEF Nic!NotifyRx, Apart, Nic!At, Nic!Goto, Nic!ring, Nic!flow, Nic!owner,
     Nic!NetThreads, Nic!NoLock
<1>29. ASSUME NEW t \in Nic!NetThreads, Nic!NotifyDecide(t) PROVE NicLockInv'
  BY <1>29 DEF Nic!NotifyDecide, Nic!Decide, Nic!InRing, Apart, Nic!At, Nic!Goto, Nic!ring,
     Nic!flow, Nic!owner, Nic!NetThreads, Nic!NoLock
<1>30. CASE UNCHANGED Nic!vars
  BY <1>30 DEF Nic!vars, Apart, Nic!At, Nic!Goto, Nic!ring, Nic!flow, Nic!owner, Nic!NetThreads,
     Nic!NoLock
<1>31. ASSUME NEW n \in 1 .. MaxFrame, Nic!Inject(n) PROVE NicLockInv'
  BY <1>31, <1>16, InjectIsOwners DEF NetType
<1>32. ASSUME Nic!Loopback(1) PROVE NicLockInv'
  BY <1>32, <1>16, LoopbackIsPumps DEF NetType
<1> QED
  BY <1>1, <1>2, <1>3, <1>4, <1>5, <1>6, <1>7, <1>8, <1>9, <1>10, <1>11, <1>12, <1>13, <1>14,
     <1>15, <1>17, <1>18, <1>19, <1>20, <1>21, <1>22, <1>23, <1>24, <1>25, <1>26, <1>27, <1>28,
     <1>29, <1>30, <1>31, <1>32
  DEF Nic!Next, Nic!Driver, Nic!Reset, Nic!Owner, Nic!ThreadStep, Nic!DeliverFrame

\* A reset leaves an empty ring.
LEMMA DownStep ==
  ASSUME Nic!NetAssumption, NetType, DownInv, [Nic!Next]_(Nic!vars)
  PROVE  DownInv'
<1>0. \A t \in Nic!NetThreads : Fields(loc[t])
  BY FieldsOk DEF NetType
<1> USE NicSizes, <1>0 DEF Fields, NetType, NumType, CtrlType, FlagType, DownInv
<1>1. CASE Nic!Refill
  BY <1>1 DEF Nic!Refill, Apart, Nic!At, Nic!Goto, Nic!ring, Nic!flow, Nic!owner, Nic!NetThreads,
     Nic!NoLock
<1>2. CASE Nic!KickPrepare
  BY <1>2 DEF Nic!KickPrepare, Apart, Nic!At, Nic!Goto, Nic!ring, Nic!flow, Nic!owner,
     Nic!NetThreads, Nic!NoLock
<1>3. CASE Nic!NapiPoll
  BY <1>3 DEF Nic!NapiPoll, Apart, Nic!At, Nic!Goto, Nic!ring, Nic!flow, Nic!owner,
     Nic!NetThreads, Nic!NoLock
<1>4. CASE Nic!TakeIrq
  BY <1>4 DEF Nic!TakeIrq, Apart, Nic!At, Nic!Goto, Nic!ring, Nic!flow, Nic!owner, Nic!NetThreads,
     Nic!NoLock
<1>5. CASE Nic!ResetClear
  BY <1>5 DEF Nic!ResetClear, Apart, Nic!At, Nic!Goto, Nic!ring, Nic!flow, Nic!owner,
     Nic!NetThreads, Nic!NoLock
<1>6. CASE Nic!ResetStore
  BY <1>6 DEF Nic!ResetStore, Apart, Nic!At, Nic!Goto, Nic!ring, Nic!flow, Nic!owner,
     Nic!NetThreads, Nic!NoLock
<1>7. CASE Nic!ResetWake
  BY <1>7 DEF Nic!ResetWake, Nic!WakeBackend, Apart, Nic!At, Nic!Goto, Nic!ring, Nic!flow,
     Nic!owner, Nic!NetThreads, Nic!NoLock
<1>8. CASE Nic!ResetQueue
  BY <1>8 DEF Nic!ResetQueue, Nic!InRing, Apart, Nic!At, Nic!Goto, Nic!ring, Nic!flow, Nic!owner,
     Nic!NetThreads, Nic!NoLock
<1>9. CASE Nic!Enable
  BY <1>9 DEF Nic!Enable, Nic!InRing, Apart, Nic!At, Nic!Goto, Nic!ring, Nic!flow, Nic!owner,
     Nic!NetThreads, Nic!NoLock
<1>10. CASE Nic!PumpWake
  BY <1>10 DEF Nic!PumpWake, Apart, Nic!At, Nic!Goto, Nic!ring, Nic!flow, Nic!owner,
     Nic!NetThreads, Nic!NoLock
<1>11. CASE Nic!EndBurst
  BY <1>11 DEF Nic!EndBurst, Apart, Nic!At, Nic!Goto, Nic!ring, Nic!flow, Nic!owner,
     Nic!NetThreads, Nic!NoLock
<1>12. CASE Nic!AskCongested
  BY <1>12 DEF Nic!AskCongested, Apart, Nic!At, Nic!Goto, Nic!ring, Nic!flow, Nic!owner,
     Nic!NetThreads, Nic!NoLock
<1>13. CASE Nic!ArmWake
  BY <1>13 DEF Nic!ArmWake, Apart, Nic!At, Nic!Goto, Nic!ring, Nic!flow, Nic!owner,
     Nic!NetThreads, Nic!NoLock
<1>14. CASE Nic!Congested
  BY <1>14 DEF Nic!Congested, Apart, Nic!At, Nic!Goto, Nic!ring, Nic!flow, Nic!owner,
     Nic!NetThreads, Nic!NoLock
<1>15. CASE Nic!Resume
  BY <1>15 DEF Nic!Resume, Apart, Nic!At, Nic!Goto, Nic!ring, Nic!flow, Nic!owner, Nic!NetThreads,
     Nic!NoLock
<1>16. ASSUME NEW t \in Nic!NetThreads, NEW n \in Nat \ {0}, NEW notify \in BOOLEAN,
              Nic!InjectFrame(t, n, notify),
             notify <=> t = "pump", UNCHANGED <<paused, woken>>, burst' = (burst \/ t = "owner")
      PROVE  DownInv'
  <2>1. /\ loc' \in [Nic!NetThreads -> Locals] /\ pc' \in [Nic!NetThreads -> NicPlaces] /\ Apart(t)
        /\ loc'[t].frame = n /\ loc'[t].notify = notify /\ loc'[t].drain = FALSE /\ loc'[t].any = FALSE
        /\ loc'[t].cursor = lastAvail /\ loc'[t].got = 0
        /\ Nic!At(t, {"idle"}) /\ lock = Nic!NoLock /\ injects < MaxInjects /\ lock' = t /\ injects' = injects + 1
        /\ pc'[t] = (IF ready /\ backlog = <<>> THEN "pop" ELSE "queue") /\ UNCHANGED <<Nic!ring, kick, irq, Nic!flow, resets>>
    <3> HIDE DEF NetType
    <3> QED  BY <1>16, InjectEffect
  <2> QED  BY <2>1, <1>16 DEF Apart, Nic!At, Nic!Goto, Nic!ring, Nic!flow, Nic!owner,
              Nic!NetThreads, Nic!NoLock
<1>17. ASSUME NEW t \in Nic!NetThreads, Nic!Queue(t) PROVE DownInv'
  <2>1. /\ loc' \in [Nic!NetThreads -> Locals] /\ pc' \in [Nic!NetThreads -> NicPlaces] /\ Apart(t) /\ loc'[t].drain = FALSE /\ loc'[t].any = FALSE
        /\ Nic!At(t, {"queue"}) /\ lock' = Nic!NoLock
        /\ IF Len(backlog) < Pool
           THEN backlog' = Append(backlog, loc[t].frame) /\ rxBacklog' = Len(backlog) + 1 /\ pc'[t] = "deliver"
           ELSE UNCHANGED <<backlog, rxBacklog>> /\ pc'[t] = "idle"
        /\ UNCHANGED <<Nic!ring, kick, irq, rxWake, unsignaled, Nic!owner, injects, resets>>
    BY <1>17, QueueEffect
  <2> QED  BY <2>1 DEF Apart, Nic!At, Nic!Goto, Nic!ring, Nic!flow, Nic!owner, Nic!NetThreads,
              Nic!NoLock
<1>18. ASSUME NEW t \in Nic!NetThreads, Nic!DeliverRx(t) PROVE DownInv'
  <2>1. /\ loc' \in [Nic!NetThreads -> Locals] /\ pc' \in [Nic!NetThreads -> NicPlaces] /\ Apart(t) /\ loc'[t].drain = TRUE /\ loc'[t].any = FALSE
        /\ ready /\ backlog # <<>> =>
             loc'[t].frame = Head(backlog) /\ loc'[t].cursor = lastAvail /\ loc'[t].got = 0
        /\ Nic!At(t, {"deliver"}) /\ lock = Nic!NoLock /\ lock' = t
        /\ pc'[t] = (IF ready /\ backlog # <<>> THEN "pop" ELSE "left")
        /\ UNCHANGED <<Nic!ring, kick, irq, Nic!flow, Nic!owner, injects, resets>>
    BY <1>18, DeliverRxEffect
  <2> QED  BY <2>1 DEF Apart, Nic!At, Nic!Goto, Nic!ring, Nic!flow, Nic!owner, Nic!NetThreads,
              Nic!NoLock
<1>19. ASSUME NEW t \in Nic!NetThreads, Nic!Pop(t) PROVE DownInv'
  <2>1. /\ loc' \in [Nic!NetThreads -> Locals] /\ pc' \in [Nic!NetThreads -> NicPlaces] /\ Apart(t)
        /\ loc'[t].frame = loc[t].frame /\ loc'[t].notify = loc[t].notify /\ loc'[t].drain = loc[t].drain
        /\ loc'[t].any = loc[t].any /\ loc'[t].cursor = loc[t].cursor
        /\ loc'[t].got = loc[t].got + (IF lastAvail < avail THEN 1 ELSE 0)
        /\ Nic!At(t, {"pop"})
        /\ IF lastAvail < avail
           THEN /\ lastAvail' = lastAvail + 1 /\ availEvent' = lastAvail + 1
                /\ pc'[t] = (IF loc[t].got + 1 = loc[t].frame THEN "publish" ELSE "pop")
           ELSE pc'[t] = "arm" /\ UNCHANGED <<lastAvail, availEvent>>
        /\ UNCHANGED <<avail, reaped, asleep, due, driver, used, ready, signaled, kick, irq, lock, Nic!flow, Nic!owner,
                       injects, resets>>
    BY <1>19, PopEffect
  <2> QED  BY <2>1 DEF Apart, Nic!At, Nic!Goto, Nic!ring, Nic!flow, Nic!owner, Nic!NetThreads,
              Nic!NoLock
<1>20. ASSUME NEW t \in Nic!NetThreads, Nic!Arm(t) PROVE DownInv'
  BY <1>20 DEF Nic!Arm, Apart, Nic!At, Nic!Goto, Nic!ring, Nic!flow, Nic!owner, Nic!NetThreads,
     Nic!NoLock
<1>21. ASSUME NEW t \in Nic!NetThreads, Nic!Recheck(t) PROVE DownInv'
  BY <1>21 DEF Nic!Recheck, Nic!Fail, Apart, Nic!At, Nic!Goto, Nic!ring, Nic!flow, Nic!owner,
     Nic!NetThreads, Nic!NoLock
<1>22. ASSUME NEW t \in Nic!NetThreads, Nic!Rewind(t) PROVE DownInv'
  <2>1. /\ loc' \in [Nic!NetThreads -> Locals] /\ pc' \in [Nic!NetThreads -> NicPlaces] /\ Apart(t)
        /\ loc'[t].frame = loc[t].frame /\ loc'[t].notify = loc[t].notify /\ loc'[t].drain = loc[t].drain
        /\ loc'[t].any = loc[t].any /\ loc'[t].cursor = loc[t].cursor /\ loc'[t].got = 0
        /\ Nic!At(t, {"rewind"}) /\ lastAvail' = loc[t].cursor
        /\ \/ avail # lastAvail /\ pc'[t] = "pop"
           \/ pc'[t] = (IF loc[t].drain THEN "left" ELSE "queue")
        /\ UNCHANGED <<avail, reaped, asleep, due, driver, availEvent, used, ready, signaled, kick, irq, lock, Nic!flow,
                       Nic!owner, injects, resets>>
    BY <1>22, RewindEffect
  <2> QED  BY <2>1 DEF Nic!Fail, Apart, Nic!At, Nic!Goto, Nic!ring, Nic!flow, Nic!owner,
              Nic!NetThreads, Nic!NoLock
<1>23. ASSUME NEW t \in Nic!NetThreads, Nic!Publish(t) PROVE DownInv'
  <2>1. /\ loc' \in [Nic!NetThreads -> Locals] /\ pc' \in [Nic!NetThreads -> NicPlaces] /\ Apart(t)
        /\ ~loc[t].drain => loc'[t].drain = FALSE /\ loc'[t].any = FALSE
        /\ loc[t].drain => loc'[t].drain = TRUE /\ loc'[t].any = TRUE
        /\ loc[t].drain /\ backlog # <<>> /\ Tail(backlog) # <<>> =>
             loc'[t].frame = Head(Tail(backlog)) /\ loc'[t].cursor = lastAvail /\ loc'[t].got = 0
        /\ Nic!At(t, {"publish"}) /\ used' = used + loc[t].got
        /\ IF loc[t].drain
           THEN /\ backlog' = Tail(backlog) /\ pc'[t] = (IF Tail(backlog) = <<>> THEN "left" ELSE "pop")
                /\ UNCHANGED <<signaled, lock>>
           ELSE /\ lock' = Nic!NoLock /\ UNCHANGED backlog
                /\ IF loc[t].notify
                   THEN signaled' = used' /\ pc'[t] = (IF Nic!Decide(used') THEN "raise" ELSE "idle")
                   ELSE pc'[t] = "count" /\ UNCHANGED signaled
        /\ UNCHANGED <<avail, reaped, asleep, due, driver, availEvent, ready, lastAvail, kick, irq, rxBacklog,
                       rxWake, unsignaled, Nic!owner, injects, resets>>
    BY <1>23, PublishEffect
  <2> QED  BY <2>1 DEF Nic!Decide, Apart, Nic!At, Nic!Goto, Nic!ring, Nic!flow, Nic!owner,
              Nic!NetThreads, Nic!NoLock
<1>24. ASSUME NEW t \in Nic!NetThreads, Nic!Left(t) PROVE DownInv'
  <2>1. /\ loc' \in [Nic!NetThreads -> Locals] /\ pc' \in [Nic!NetThreads -> NicPlaces] /\ Apart(t)
        /\ loc'[t].drain = loc[t].drain /\ loc'[t].any = loc[t].any /\ loc'[t].left = Len(backlog)
        /\ Nic!At(t, {"left"}) /\ lock' = Nic!NoLock /\ rxBacklog' = Len(backlog)
        /\ IF loc[t].any /\ ready
           THEN signaled' = used /\ pc'[t] = (IF Nic!Decide(used) THEN "raise" ELSE "wake")
           ELSE UNCHANGED signaled /\ pc'[t] = "wake"
        /\ UNCHANGED <<avail, reaped, asleep, due, driver, availEvent, used, ready, lastAvail, kick, irq, backlog,
                       rxWake, unsignaled, Nic!owner, injects, resets>>
    BY <1>24, LeftEffect
  <2> QED  BY <2>1 DEF Nic!Decide, Apart, Nic!At, Nic!Goto, Nic!ring, Nic!flow, Nic!owner,
              Nic!NetThreads, Nic!NoLock
<1>25. ASSUME NEW t \in Nic!NetThreads, Nic!Raise(t) PROVE DownInv'
  BY <1>25 DEF Nic!Raise, Apart, Nic!At, Nic!Goto, Nic!ring, Nic!flow, Nic!owner, Nic!NetThreads,
     Nic!NoLock
<1>26. ASSUME NEW t \in Nic!NetThreads, Nic!Wake(t) PROVE DownInv'
  <2>1. /\ loc' \in [Nic!NetThreads -> Locals] /\ pc' \in [Nic!NetThreads -> NicPlaces] /\ Apart(t) /\ loc'[t].drain = FALSE /\ loc'[t].any = FALSE
        /\ Nic!At(t, {"wake"}) /\ Nic!WakeBackend(loc[t].left) /\ pc'[t] = "idle"
        /\ UNCHANGED <<Nic!ring, kick, irq, lock, backlog, rxBacklog, unsignaled, paused, burst, injects, resets>>
    BY <1>26, WakeEffect
  <2> QED  BY <2>1 DEF Nic!WakeBackend, Apart, Nic!At, Nic!Goto, Nic!ring, Nic!flow, Nic!owner,
              Nic!NetThreads, Nic!NoLock
<1>27. ASSUME NEW t \in Nic!NetThreads, Nic!Count(t) PROVE DownInv'
  BY <1>27 DEF Nic!Count, Apart, Nic!At, Nic!Goto, Nic!ring, Nic!flow, Nic!owner, Nic!NetThreads,
     Nic!NoLock
<1>28. ASSUME NEW t \in Nic!NetThreads, Nic!NotifyRx(t) PROVE DownInv'
  BY <1>28 DEF Nic!NotifyRx, Apart, Nic!At, Nic!Goto, Nic!ring, Nic!flow, Nic!owner,
     Nic!NetThreads, Nic!NoLock
<1>29. ASSUME NEW t \in Nic!NetThreads, Nic!NotifyDecide(t) PROVE DownInv'
  BY <1>29 DEF Nic!NotifyDecide, Nic!Decide, Nic!InRing, Apart, Nic!At, Nic!Goto, Nic!ring,
     Nic!flow, Nic!owner, Nic!NetThreads, Nic!NoLock
<1>30. CASE UNCHANGED Nic!vars
  BY <1>30 DEF Nic!vars, Apart, Nic!At, Nic!Goto, Nic!ring, Nic!flow, Nic!owner, Nic!NetThreads,
     Nic!NoLock
<1>31. ASSUME NEW n \in 1 .. MaxFrame, Nic!Inject(n) PROVE DownInv'
  BY <1>31, <1>16, InjectIsOwners DEF NetType
<1>32. ASSUME Nic!Loopback(1) PROVE DownInv'
  BY ZenonT(60), <1>32, <1>16, LoopbackIsPumps DEF NetType
<1> QED
  BY <1>1, <1>2, <1>3, <1>4, <1>5, <1>6, <1>7, <1>8, <1>9, <1>10, <1>11, <1>12, <1>13, <1>14,
     <1>15, <1>17, <1>18, <1>19, <1>20, <1>21, <1>22, <1>23, <1>24, <1>25, <1>26, <1>27, <1>28,
     <1>29, <1>30, <1>31, <1>32
  DEF Nic!Next, Nic!Driver, Nic!Reset, Nic!Owner, Nic!ThreadStep, Nic!DeliverFrame

\* What a thread has popped is what the ring misses.
LEMMA GotStep ==
  ASSUME Nic!NetAssumption, NetType, NicLockInv, DownInv, HandInv, [Nic!Next]_(Nic!vars)
  PROVE  GotInv'
<1>0. \A t \in Nic!NetThreads : Fields(loc[t])
  BY FieldsOk DEF NetType
<1> USE NicSizes, <1>0 DEF Fields, NetType, NumType, CountType, CtrlType, NicLockInv, HandInv,
                          GotInv, Holding, RingPlaces
<1>1. CASE Nic!Refill
  BY <1>1 DEF Nic!Refill, Apart, Nic!At, Nic!Goto, Nic!ring, Nic!flow, Nic!owner, Nic!NetThreads,
     Nic!NoLock
<1>2. CASE Nic!KickPrepare
  BY <1>2 DEF Nic!KickPrepare, Apart, Nic!At, Nic!Goto, Nic!ring, Nic!flow, Nic!owner,
     Nic!NetThreads, Nic!NoLock
<1>3. CASE Nic!NapiPoll
  BY <1>3 DEF Nic!NapiPoll, Apart, Nic!At, Nic!Goto, Nic!ring, Nic!flow, Nic!owner,
     Nic!NetThreads, Nic!NoLock
<1>4. CASE Nic!TakeIrq
  BY <1>4 DEF Nic!TakeIrq, Apart, Nic!At, Nic!Goto, Nic!ring, Nic!flow, Nic!owner, Nic!NetThreads,
     Nic!NoLock
<1>5. CASE Nic!ResetClear
  BY <1>5 DEF Nic!ResetClear, Apart, Nic!At, Nic!Goto, Nic!ring, Nic!flow, Nic!owner,
     Nic!NetThreads, Nic!NoLock
<1>6. CASE Nic!ResetStore
  BY <1>6 DEF Nic!ResetStore, Apart, Nic!At, Nic!Goto, Nic!ring, Nic!flow, Nic!owner,
     Nic!NetThreads, Nic!NoLock
<1>7. CASE Nic!ResetWake
  BY <1>7 DEF Nic!ResetWake, Nic!WakeBackend, Apart, Nic!At, Nic!Goto, Nic!ring, Nic!flow,
     Nic!owner, Nic!NetThreads, Nic!NoLock
<1>8. CASE Nic!ResetQueue
  BY <1>8 DEF Nic!ResetQueue, Nic!InRing, Apart, Nic!At, Nic!Goto, Nic!ring, Nic!flow, Nic!owner,
     Nic!NetThreads, Nic!NoLock
<1>9. CASE Nic!Enable
  BY <1>9 DEF Nic!Enable, Nic!InRing, Apart, Nic!At, Nic!Goto, Nic!ring, Nic!flow, Nic!owner,
     Nic!NetThreads, Nic!NoLock
<1>10. CASE Nic!PumpWake
  BY <1>10 DEF Nic!PumpWake, Apart, Nic!At, Nic!Goto, Nic!ring, Nic!flow, Nic!owner,
     Nic!NetThreads, Nic!NoLock
<1>11. CASE Nic!EndBurst
  BY <1>11 DEF Nic!EndBurst, Apart, Nic!At, Nic!Goto, Nic!ring, Nic!flow, Nic!owner,
     Nic!NetThreads, Nic!NoLock
<1>12. CASE Nic!AskCongested
  BY <1>12 DEF Nic!AskCongested, Apart, Nic!At, Nic!Goto, Nic!ring, Nic!flow, Nic!owner,
     Nic!NetThreads, Nic!NoLock
<1>13. CASE Nic!ArmWake
  BY <1>13 DEF Nic!ArmWake, Apart, Nic!At, Nic!Goto, Nic!ring, Nic!flow, Nic!owner,
     Nic!NetThreads, Nic!NoLock
<1>14. CASE Nic!Congested
  BY <1>14 DEF Nic!Congested, Apart, Nic!At, Nic!Goto, Nic!ring, Nic!flow, Nic!owner,
     Nic!NetThreads, Nic!NoLock
<1>15. CASE Nic!Resume
  BY <1>15 DEF Nic!Resume, Apart, Nic!At, Nic!Goto, Nic!ring, Nic!flow, Nic!owner, Nic!NetThreads,
     Nic!NoLock
<1>16. ASSUME NEW t \in Nic!NetThreads, NEW n \in Nat \ {0}, NEW notify \in BOOLEAN,
              Nic!InjectFrame(t, n, notify),
             notify <=> t = "pump", UNCHANGED <<paused, woken>>, burst' = (burst \/ t = "owner")
      PROVE  GotInv'
  <2>1. /\ loc' \in [Nic!NetThreads -> Locals] /\ pc' \in [Nic!NetThreads -> NicPlaces] /\ Apart(t)
        /\ loc'[t].frame = n /\ loc'[t].notify = notify /\ loc'[t].drain = FALSE /\ loc'[t].any = FALSE
        /\ loc'[t].cursor = lastAvail /\ loc'[t].got = 0
        /\ Nic!At(t, {"idle"}) /\ lock = Nic!NoLock /\ injects < MaxInjects /\ lock' = t /\ injects' = injects + 1
        /\ pc'[t] = (IF ready /\ backlog = <<>> THEN "pop" ELSE "queue") /\ UNCHANGED <<Nic!ring, kick, irq, Nic!flow, resets>>
    <3> HIDE DEF NetType
    <3> QED  BY ZenonT(60), <1>16, InjectEffect
  <2>2. \A u \in Nic!NetThreads : pc[u] \notin Holding
    BY <2>1 DEF Nic!NetThreads, Nic!NoLock
  <2>3. lastAvail' = lastAvail /\ used' = used /\ lastAvail = used /\ ready' = ready
    BY <2>1, <2>2 DEF Nic!ring
  <2>4. \A u \in Nic!NetThreads \ {t} : pc'[u] \notin Holding
    BY <2>1, <2>2 DEF Apart
  <2>5. /\ pc'[t] \in {"pop", "queue"} /\ (pc'[t] = "pop" => ready) /\ n >= 1
        /\ loc'[t].frame = n /\ loc'[t].cursor = used /\ loc'[t].got = 0
    BY <2>1, <2>3, <1>16
  <2> HIDE <1>0
  <2> QED  BY <2>3, <2>4, <2>5
<1>17. ASSUME NEW t \in Nic!NetThreads, Nic!Queue(t) PROVE GotInv'
  <2>1. /\ loc' \in [Nic!NetThreads -> Locals] /\ pc' \in [Nic!NetThreads -> NicPlaces] /\ Apart(t) /\ loc'[t].drain = FALSE /\ loc'[t].any = FALSE
        /\ Nic!At(t, {"queue"}) /\ lock' = Nic!NoLock
        /\ IF Len(backlog) < Pool
           THEN backlog' = Append(backlog, loc[t].frame) /\ rxBacklog' = Len(backlog) + 1 /\ pc'[t] = "deliver"
           ELSE UNCHANGED <<backlog, rxBacklog>> /\ pc'[t] = "idle"
        /\ UNCHANGED <<Nic!ring, kick, irq, rxWake, unsignaled, Nic!owner, injects, resets>>
    BY <1>17, QueueEffect
  <2> QED  BY ZenonT(60), <2>1 DEF Apart, Nic!At, Nic!Goto, Nic!ring, Nic!flow, Nic!owner, Nic!NetThreads,
              Nic!NoLock
<1>18. ASSUME NEW t \in Nic!NetThreads, Nic!DeliverRx(t) PROVE GotInv'
  <2>1. /\ loc' \in [Nic!NetThreads -> Locals] /\ pc' \in [Nic!NetThreads -> NicPlaces] /\ Apart(t) /\ loc'[t].drain = TRUE /\ loc'[t].any = FALSE
        /\ ready /\ backlog # <<>> =>
             loc'[t].frame = Head(backlog) /\ loc'[t].cursor = lastAvail /\ loc'[t].got = 0
        /\ Nic!At(t, {"deliver"}) /\ lock = Nic!NoLock /\ lock' = t
        /\ pc'[t] = (IF ready /\ backlog # <<>> THEN "pop" ELSE "left")
        /\ UNCHANGED <<Nic!ring, kick, irq, Nic!flow, Nic!owner, injects, resets>>
    BY <1>18, DeliverRxEffect
  <2>2. \A u \in Nic!NetThreads : pc[u] \notin Holding
    BY <2>1 DEF Nic!NetThreads, Nic!NoLock
  <2>3. lastAvail' = lastAvail /\ used' = used /\ lastAvail = used /\ ready' = ready
    BY <2>1, <2>2 DEF Nic!ring
  <2>4. \A u \in Nic!NetThreads \ {t} : pc'[u] \notin Holding
    BY <2>1, <2>2 DEF Apart
  <2>5. pc'[t] \in {"pop", "left"} /\ (pc'[t] = "pop" => ready /\ backlog # <<>>)
    BY <2>1
  <2>6. pc'[t] = "pop" => loc'[t].frame \in Nat \ {0} /\ loc'[t].cursor = used /\ loc'[t].got = 0
    BY <2>1, <2>3, <2>5, HeadOk DEF SeqType
  <2> HIDE <1>0
  <2>7. CASE pc'[t] = "pop"
    <3>1. loc'[t].frame \in Nat /\ loc'[t].frame >= 1 /\ loc'[t].cursor = used' /\ loc'[t].got = 0 /\ ready'
      BY SMTT(60), <2>3, <2>5, <2>6, <2>7
    <3>2. lastAvail' = used' /\ used' \in Nat
      BY <2>3
    <3> QED  BY ONLY <3>1, <3>2, <2>4, <2>7 DEF GotInv, RingPlaces, Holding
  <2>8. CASE pc'[t] = "left"
    BY <2>3, <2>4, <2>8
  <2> QED  BY <2>5, <2>7, <2>8
<1>19. ASSUME NEW t \in Nic!NetThreads, Nic!Pop(t) PROVE GotInv'
  <2>1. /\ loc' \in [Nic!NetThreads -> Locals] /\ pc' \in [Nic!NetThreads -> NicPlaces] /\ Apart(t)
        /\ loc'[t].frame = loc[t].frame /\ loc'[t].notify = loc[t].notify /\ loc'[t].drain = loc[t].drain
        /\ loc'[t].any = loc[t].any /\ loc'[t].cursor = loc[t].cursor
        /\ loc'[t].got = loc[t].got + (IF lastAvail < avail THEN 1 ELSE 0)
        /\ Nic!At(t, {"pop"})
        /\ IF lastAvail < avail
           THEN /\ lastAvail' = lastAvail + 1 /\ availEvent' = lastAvail + 1
                /\ pc'[t] = (IF loc[t].got + 1 = loc[t].frame THEN "publish" ELSE "pop")
           ELSE pc'[t] = "arm" /\ UNCHANGED <<lastAvail, availEvent>>
        /\ UNCHANGED <<avail, reaped, asleep, due, driver, used, ready, signaled, kick, irq, lock, Nic!flow, Nic!owner,
                       injects, resets>>
    BY <1>19, PopEffect
  <2> QED  BY <2>1 DEF Apart, Nic!At, Nic!Goto, Nic!ring, Nic!flow, Nic!owner, Nic!NetThreads,
              Nic!NoLock
<1>20. ASSUME NEW t \in Nic!NetThreads, Nic!Arm(t) PROVE GotInv'
  BY <1>20 DEF Nic!Arm, Apart, Nic!At, Nic!Goto, Nic!ring, Nic!flow, Nic!owner, Nic!NetThreads,
     Nic!NoLock
<1>21. ASSUME NEW t \in Nic!NetThreads, Nic!Recheck(t) PROVE GotInv'
  BY <1>21 DEF Nic!Recheck, Nic!Fail, Apart, Nic!At, Nic!Goto, Nic!ring, Nic!flow, Nic!owner,
     Nic!NetThreads, Nic!NoLock
<1>22. ASSUME NEW t \in Nic!NetThreads, Nic!Rewind(t) PROVE GotInv'
  <2>1. /\ loc' \in [Nic!NetThreads -> Locals] /\ pc' \in [Nic!NetThreads -> NicPlaces] /\ Apart(t)
        /\ loc'[t].frame = loc[t].frame /\ loc'[t].notify = loc[t].notify /\ loc'[t].drain = loc[t].drain
        /\ loc'[t].any = loc[t].any /\ loc'[t].cursor = loc[t].cursor /\ loc'[t].got = 0
        /\ Nic!At(t, {"rewind"}) /\ lastAvail' = loc[t].cursor
        /\ \/ avail # lastAvail /\ pc'[t] = "pop"
           \/ pc'[t] = (IF loc[t].drain THEN "left" ELSE "queue")
        /\ UNCHANGED <<avail, reaped, asleep, due, driver, availEvent, used, ready, signaled, kick, irq, lock, Nic!flow,
                       Nic!owner, injects, resets>>
    BY <1>22, RewindEffect
  <2> QED  BY <2>1 DEF Nic!Fail, Apart, Nic!At, Nic!Goto, Nic!ring, Nic!flow, Nic!owner,
              Nic!NetThreads, Nic!NoLock
<1>23. ASSUME NEW t \in Nic!NetThreads, Nic!Publish(t) PROVE GotInv'
  <2>1. /\ loc' \in [Nic!NetThreads -> Locals] /\ pc' \in [Nic!NetThreads -> NicPlaces] /\ Apart(t)
        /\ ~loc[t].drain => loc'[t].drain = FALSE /\ loc'[t].any = FALSE
        /\ loc[t].drain => loc'[t].drain = TRUE /\ loc'[t].any = TRUE
        /\ loc[t].drain /\ backlog # <<>> /\ Tail(backlog) # <<>> =>
             loc'[t].frame = Head(Tail(backlog)) /\ loc'[t].cursor = lastAvail /\ loc'[t].got = 0
        /\ Nic!At(t, {"publish"}) /\ used' = used + loc[t].got
        /\ IF loc[t].drain
           THEN /\ backlog' = Tail(backlog) /\ pc'[t] = (IF Tail(backlog) = <<>> THEN "left" ELSE "pop")
                /\ UNCHANGED <<signaled, lock>>
           ELSE /\ lock' = Nic!NoLock /\ UNCHANGED backlog
                /\ IF loc[t].notify
                   THEN signaled' = used' /\ pc'[t] = (IF Nic!Decide(used') THEN "raise" ELSE "idle")
                   ELSE pc'[t] = "count" /\ UNCHANGED signaled
        /\ UNCHANGED <<avail, reaped, asleep, due, driver, availEvent, ready, lastAvail, kick, irq, rxBacklog,
                       rxWake, unsignaled, Nic!owner, injects, resets>>
    BY <1>23, PublishEffect
  <2>2. pc[t] = "publish" /\ lock = t /\ lastAvail = used + loc[t].got /\ ready
    BY <2>1 DEF Nic!At
  <2>3. lastAvail' = lastAvail /\ used' = lastAvail /\ ready' = ready
    BY <2>1, <2>2
  <2>4. \A u \in Nic!NetThreads \ {t} : pc'[u] \notin Holding
    BY <2>1, <2>2 DEF Apart
  <2>5. /\ pc'[t] \in {"pop", "left", "raise", "idle", "count"}
        /\ pc'[t] = "pop" => loc[t].drain /\ Tail(backlog) # <<>>
    BY <2>1
  <2>6. loc[t].drain => backlog # <<>>
    BY <2>2 DEF FrontInv
  <2>7. pc'[t] = "pop" => loc'[t].frame \in Nat \ {0} /\ loc'[t].cursor = lastAvail /\ loc'[t].got = 0
    <3> SUFFICES ASSUME pc'[t] = "pop"
                 PROVE  loc'[t].frame \in Nat \ {0} /\ loc'[t].cursor = lastAvail /\ loc'[t].got = 0
      OBVIOUS
    <3>1. loc'[t].frame = Head(Tail(backlog)) /\ loc'[t].cursor = lastAvail /\ loc'[t].got = 0
      BY <2>1, <2>5, <2>6
    <3>2. Tail(backlog) \in Seq(Nat \ {0}) /\ Tail(backlog) # <<>>
      BY SMTT(60), <2>5, <2>6 DEF SeqType
    <3> QED  BY ONLY <3>1, <3>2, HeadOk
  <2> HIDE <1>0
  <2>8. CASE pc'[t] = "pop"
    BY <2>2, <2>3, <2>4, <2>7, <2>8
  <2>9. CASE pc'[t] \in {"left", "raise", "idle", "count"}
    BY <2>2, <2>3, <2>4, <2>9
  <2> QED  BY <2>5, <2>8, <2>9
<1>24. ASSUME NEW t \in Nic!NetThreads, Nic!Left(t) PROVE GotInv'
  <2>1. /\ loc' \in [Nic!NetThreads -> Locals] /\ pc' \in [Nic!NetThreads -> NicPlaces] /\ Apart(t)
        /\ loc'[t].drain = loc[t].drain /\ loc'[t].any = loc[t].any /\ loc'[t].left = Len(backlog)
        /\ Nic!At(t, {"left"}) /\ lock' = Nic!NoLock /\ rxBacklog' = Len(backlog)
        /\ IF loc[t].any /\ ready
           THEN signaled' = used /\ pc'[t] = (IF Nic!Decide(used) THEN "raise" ELSE "wake")
           ELSE UNCHANGED signaled /\ pc'[t] = "wake"
        /\ UNCHANGED <<avail, reaped, asleep, due, driver, availEvent, used, ready, lastAvail, kick, irq, backlog,
                       rxWake, unsignaled, Nic!owner, injects, resets>>
    BY <1>24, LeftEffect
  <2> QED  BY ZenonT(60), <2>1 DEF Nic!Decide, Apart, Nic!At, Nic!Goto, Nic!ring, Nic!flow, Nic!owner,
              Nic!NetThreads, Nic!NoLock
<1>25. ASSUME NEW t \in Nic!NetThreads, Nic!Raise(t) PROVE GotInv'
  BY <1>25 DEF Nic!Raise, Apart, Nic!At, Nic!Goto, Nic!ring, Nic!flow, Nic!owner, Nic!NetThreads,
     Nic!NoLock
<1>26. ASSUME NEW t \in Nic!NetThreads, Nic!Wake(t) PROVE GotInv'
  <2>1. /\ loc' \in [Nic!NetThreads -> Locals] /\ pc' \in [Nic!NetThreads -> NicPlaces] /\ Apart(t) /\ loc'[t].drain = FALSE /\ loc'[t].any = FALSE
        /\ Nic!At(t, {"wake"}) /\ Nic!WakeBackend(loc[t].left) /\ pc'[t] = "idle"
        /\ UNCHANGED <<Nic!ring, kick, irq, lock, backlog, rxBacklog, unsignaled, paused, burst, injects, resets>>
    BY <1>26, WakeEffect
  <2> QED  BY <2>1 DEF Nic!WakeBackend, Apart, Nic!At, Nic!Goto, Nic!ring, Nic!flow, Nic!owner,
              Nic!NetThreads, Nic!NoLock
<1>27. ASSUME NEW t \in Nic!NetThreads, Nic!Count(t) PROVE GotInv'
  BY <1>27 DEF Nic!Count, Apart, Nic!At, Nic!Goto, Nic!ring, Nic!flow, Nic!owner, Nic!NetThreads,
     Nic!NoLock
<1>28. ASSUME NEW t \in Nic!NetThreads, Nic!NotifyRx(t) PROVE GotInv'
  BY <1>28 DEF Nic!NotifyRx, Apart, Nic!At, Nic!Goto, Nic!ring, Nic!flow, Nic!owner,
     Nic!NetThreads, Nic!NoLock
<1>29. ASSUME NEW t \in Nic!NetThreads, Nic!NotifyDecide(t) PROVE GotInv'
  BY <1>29 DEF Nic!NotifyDecide, Nic!Decide, Nic!InRing, Apart, Nic!At, Nic!Goto, Nic!ring,
     Nic!flow, Nic!owner, Nic!NetThreads, Nic!NoLock
<1>30. CASE UNCHANGED Nic!vars
  BY <1>30 DEF Nic!vars, Apart, Nic!At, Nic!Goto, Nic!ring, Nic!flow, Nic!owner, Nic!NetThreads,
     Nic!NoLock
<1>31. ASSUME NEW n \in 1 .. MaxFrame, Nic!Inject(n) PROVE GotInv'
  BY <1>31, <1>16, InjectIsOwners DEF NetType
<1>32. ASSUME Nic!Loopback(1) PROVE GotInv'
  BY <1>32, <1>16, LoopbackIsPumps DEF NetType
<1> QED
  BY <1>1, <1>2, <1>3, <1>4, <1>5, <1>6, <1>7, <1>8, <1>9, <1>10, <1>11, <1>12, <1>13, <1>14,
     <1>15, <1>17, <1>18, <1>19, <1>20, <1>21, <1>22, <1>23, <1>24, <1>25, <1>26, <1>27, <1>28,
     <1>29, <1>30, <1>31, <1>32
  DEF Nic!Next, Nic!Driver, Nic!Reset, Nic!Owner, Nic!ThreadStep, Nic!DeliverFrame

\* A fresh frame never overtakes one that waits.
LEMMA FrontStep ==
  ASSUME Nic!NetAssumption, NetType, NicLockInv, DownInv, HandInv, [Nic!Next]_(Nic!vars)
  PROVE  FrontInv'
<1>0. \A t \in Nic!NetThreads : Fields(loc[t])
  BY FieldsOk DEF NetType
<1> USE NicSizes, <1>0 DEF Fields, NetType, NumType, SeqType, CtrlType, NicLockInv, HandInv,
                          FrontInv, Holding, RingPlaces
<1>1. CASE Nic!Refill
  BY <1>1 DEF Nic!Refill, Apart, Nic!At, Nic!Goto, Nic!ring, Nic!flow, Nic!owner, Nic!NetThreads,
     Nic!NoLock
<1>2. CASE Nic!KickPrepare
  BY <1>2 DEF Nic!KickPrepare, Apart, Nic!At, Nic!Goto, Nic!ring, Nic!flow, Nic!owner,
     Nic!NetThreads, Nic!NoLock
<1>3. CASE Nic!NapiPoll
  BY <1>3 DEF Nic!NapiPoll, Apart, Nic!At, Nic!Goto, Nic!ring, Nic!flow, Nic!owner,
     Nic!NetThreads, Nic!NoLock
<1>4. CASE Nic!TakeIrq
  BY <1>4 DEF Nic!TakeIrq, Apart, Nic!At, Nic!Goto, Nic!ring, Nic!flow, Nic!owner, Nic!NetThreads,
     Nic!NoLock
<1>5. CASE Nic!ResetClear
  BY <1>5 DEF Nic!ResetClear, Apart, Nic!At, Nic!Goto, Nic!ring, Nic!flow, Nic!owner,
     Nic!NetThreads, Nic!NoLock
<1>6. CASE Nic!ResetStore
  BY <1>6 DEF Nic!ResetStore, Apart, Nic!At, Nic!Goto, Nic!ring, Nic!flow, Nic!owner,
     Nic!NetThreads, Nic!NoLock
<1>7. CASE Nic!ResetWake
  BY <1>7 DEF Nic!ResetWake, Nic!WakeBackend, Apart, Nic!At, Nic!Goto, Nic!ring, Nic!flow,
     Nic!owner, Nic!NetThreads, Nic!NoLock
<1>8. CASE Nic!ResetQueue
  BY <1>8 DEF Nic!ResetQueue, Nic!InRing, Apart, Nic!At, Nic!Goto, Nic!ring, Nic!flow, Nic!owner,
     Nic!NetThreads, Nic!NoLock
<1>9. CASE Nic!Enable
  BY <1>9 DEF Nic!Enable, Nic!InRing, Apart, Nic!At, Nic!Goto, Nic!ring, Nic!flow, Nic!owner,
     Nic!NetThreads, Nic!NoLock
<1>10. CASE Nic!PumpWake
  BY <1>10 DEF Nic!PumpWake, Apart, Nic!At, Nic!Goto, Nic!ring, Nic!flow, Nic!owner,
     Nic!NetThreads, Nic!NoLock
<1>11. CASE Nic!EndBurst
  BY <1>11 DEF Nic!EndBurst, Apart, Nic!At, Nic!Goto, Nic!ring, Nic!flow, Nic!owner,
     Nic!NetThreads, Nic!NoLock
<1>12. CASE Nic!AskCongested
  BY <1>12 DEF Nic!AskCongested, Apart, Nic!At, Nic!Goto, Nic!ring, Nic!flow, Nic!owner,
     Nic!NetThreads, Nic!NoLock
<1>13. CASE Nic!ArmWake
  BY <1>13 DEF Nic!ArmWake, Apart, Nic!At, Nic!Goto, Nic!ring, Nic!flow, Nic!owner,
     Nic!NetThreads, Nic!NoLock
<1>14. CASE Nic!Congested
  BY <1>14 DEF Nic!Congested, Apart, Nic!At, Nic!Goto, Nic!ring, Nic!flow, Nic!owner,
     Nic!NetThreads, Nic!NoLock
<1>15. CASE Nic!Resume
  BY <1>15 DEF Nic!Resume, Apart, Nic!At, Nic!Goto, Nic!ring, Nic!flow, Nic!owner, Nic!NetThreads,
     Nic!NoLock
<1>16. ASSUME NEW t \in Nic!NetThreads, NEW n \in Nat \ {0}, NEW notify \in BOOLEAN,
              Nic!InjectFrame(t, n, notify),
             notify <=> t = "pump", UNCHANGED <<paused, woken>>, burst' = (burst \/ t = "owner")
      PROVE  FrontInv'
  <2>1. /\ loc' \in [Nic!NetThreads -> Locals] /\ pc' \in [Nic!NetThreads -> NicPlaces] /\ Apart(t)
        /\ loc'[t].frame = n /\ loc'[t].notify = notify /\ loc'[t].drain = FALSE /\ loc'[t].any = FALSE
        /\ loc'[t].cursor = lastAvail /\ loc'[t].got = 0
        /\ Nic!At(t, {"idle"}) /\ lock = Nic!NoLock /\ injects < MaxInjects /\ lock' = t /\ injects' = injects + 1
        /\ pc'[t] = (IF ready /\ backlog = <<>> THEN "pop" ELSE "queue") /\ UNCHANGED <<Nic!ring, kick, irq, Nic!flow, resets>>
    <3> HIDE DEF NetType
    <3> QED  BY ZenonT(60), <1>16, InjectEffect
  <2> QED  BY <2>1, <1>16 DEF Apart, Nic!At, Nic!Goto, Nic!ring, Nic!flow, Nic!owner,
              Nic!NetThreads, Nic!NoLock
<1>17. ASSUME NEW t \in Nic!NetThreads, Nic!Queue(t) PROVE FrontInv'
  <2>1. /\ loc' \in [Nic!NetThreads -> Locals] /\ pc' \in [Nic!NetThreads -> NicPlaces] /\ Apart(t) /\ loc'[t].drain = FALSE /\ loc'[t].any = FALSE
        /\ Nic!At(t, {"queue"}) /\ lock' = Nic!NoLock
        /\ IF Len(backlog) < Pool
           THEN backlog' = Append(backlog, loc[t].frame) /\ rxBacklog' = Len(backlog) + 1 /\ pc'[t] = "deliver"
           ELSE UNCHANGED <<backlog, rxBacklog>> /\ pc'[t] = "idle"
        /\ UNCHANGED <<Nic!ring, kick, irq, rxWake, unsignaled, Nic!owner, injects, resets>>
    BY <1>17, QueueEffect
  <2> QED  BY <2>1 DEF Apart, Nic!At, Nic!Goto, Nic!ring, Nic!flow, Nic!owner, Nic!NetThreads,
              Nic!NoLock
<1>18. ASSUME NEW t \in Nic!NetThreads, Nic!DeliverRx(t) PROVE FrontInv'
  <2>1. /\ loc' \in [Nic!NetThreads -> Locals] /\ pc' \in [Nic!NetThreads -> NicPlaces] /\ Apart(t) /\ loc'[t].drain = TRUE /\ loc'[t].any = FALSE
        /\ ready /\ backlog # <<>> =>
             loc'[t].frame = Head(backlog) /\ loc'[t].cursor = lastAvail /\ loc'[t].got = 0
        /\ Nic!At(t, {"deliver"}) /\ lock = Nic!NoLock /\ lock' = t
        /\ pc'[t] = (IF ready /\ backlog # <<>> THEN "pop" ELSE "left")
        /\ UNCHANGED <<Nic!ring, kick, irq, Nic!flow, Nic!owner, injects, resets>>
    BY <1>18, DeliverRxEffect
  <2> QED  BY <2>1 DEF Apart, Nic!At, Nic!Goto, Nic!ring, Nic!flow, Nic!owner, Nic!NetThreads,
              Nic!NoLock
<1>19. ASSUME NEW t \in Nic!NetThreads, Nic!Pop(t) PROVE FrontInv'
  <2>1. /\ loc' \in [Nic!NetThreads -> Locals] /\ pc' \in [Nic!NetThreads -> NicPlaces] /\ Apart(t)
        /\ loc'[t].frame = loc[t].frame /\ loc'[t].notify = loc[t].notify /\ loc'[t].drain = loc[t].drain
        /\ loc'[t].any = loc[t].any /\ loc'[t].cursor = loc[t].cursor
        /\ loc'[t].got = loc[t].got + (IF lastAvail < avail THEN 1 ELSE 0)
        /\ Nic!At(t, {"pop"})
        /\ IF lastAvail < avail
           THEN /\ lastAvail' = lastAvail + 1 /\ availEvent' = lastAvail + 1
                /\ pc'[t] = (IF loc[t].got + 1 = loc[t].frame THEN "publish" ELSE "pop")
           ELSE pc'[t] = "arm" /\ UNCHANGED <<lastAvail, availEvent>>
        /\ UNCHANGED <<avail, reaped, asleep, due, driver, used, ready, signaled, kick, irq, lock, Nic!flow, Nic!owner,
                       injects, resets>>
    BY <1>19, PopEffect
  <2> QED  BY ZenonT(60), <2>1 DEF Apart, Nic!At, Nic!Goto, Nic!ring, Nic!flow, Nic!owner, Nic!NetThreads,
              Nic!NoLock
<1>20. ASSUME NEW t \in Nic!NetThreads, Nic!Arm(t) PROVE FrontInv'
  BY <1>20 DEF Nic!Arm, Apart, Nic!At, Nic!Goto, Nic!ring, Nic!flow, Nic!owner, Nic!NetThreads,
     Nic!NoLock
<1>21. ASSUME NEW t \in Nic!NetThreads, Nic!Recheck(t) PROVE FrontInv'
  BY <1>21 DEF Nic!Recheck, Nic!Fail, Apart, Nic!At, Nic!Goto, Nic!ring, Nic!flow, Nic!owner,
     Nic!NetThreads, Nic!NoLock
<1>22. ASSUME NEW t \in Nic!NetThreads, Nic!Rewind(t) PROVE FrontInv'
  <2>1. /\ loc' \in [Nic!NetThreads -> Locals] /\ pc' \in [Nic!NetThreads -> NicPlaces] /\ Apart(t)
        /\ loc'[t].frame = loc[t].frame /\ loc'[t].notify = loc[t].notify /\ loc'[t].drain = loc[t].drain
        /\ loc'[t].any = loc[t].any /\ loc'[t].cursor = loc[t].cursor /\ loc'[t].got = 0
        /\ Nic!At(t, {"rewind"}) /\ lastAvail' = loc[t].cursor
        /\ \/ avail # lastAvail /\ pc'[t] = "pop"
           \/ pc'[t] = (IF loc[t].drain THEN "left" ELSE "queue")
        /\ UNCHANGED <<avail, reaped, asleep, due, driver, availEvent, used, ready, signaled, kick, irq, lock, Nic!flow,
                       Nic!owner, injects, resets>>
    BY <1>22, RewindEffect
  <2> QED  BY ZenonT(60), <2>1 DEF Nic!Fail, Apart, Nic!At, Nic!Goto, Nic!ring, Nic!flow, Nic!owner,
              Nic!NetThreads, Nic!NoLock
<1>23. ASSUME NEW t \in Nic!NetThreads, Nic!Publish(t) PROVE FrontInv'
  <2>1. /\ loc' \in [Nic!NetThreads -> Locals] /\ pc' \in [Nic!NetThreads -> NicPlaces] /\ Apart(t)
        /\ ~loc[t].drain => loc'[t].drain = FALSE /\ loc'[t].any = FALSE
        /\ loc[t].drain => loc'[t].drain = TRUE /\ loc'[t].any = TRUE
        /\ loc[t].drain /\ backlog # <<>> /\ Tail(backlog) # <<>> =>
             loc'[t].frame = Head(Tail(backlog)) /\ loc'[t].cursor = lastAvail /\ loc'[t].got = 0
        /\ Nic!At(t, {"publish"}) /\ used' = used + loc[t].got
        /\ IF loc[t].drain
           THEN /\ backlog' = Tail(backlog) /\ pc'[t] = (IF Tail(backlog) = <<>> THEN "left" ELSE "pop")
                /\ UNCHANGED <<signaled, lock>>
           ELSE /\ lock' = Nic!NoLock /\ UNCHANGED backlog
                /\ IF loc[t].notify
                   THEN signaled' = used' /\ pc'[t] = (IF Nic!Decide(used') THEN "raise" ELSE "idle")
                   ELSE pc'[t] = "count" /\ UNCHANGED signaled
        /\ UNCHANGED <<avail, reaped, asleep, due, driver, availEvent, ready, lastAvail, kick, irq, rxBacklog,
                       rxWake, unsignaled, Nic!owner, injects, resets>>
    BY <1>23, PublishEffect
  <2> QED  BY ZenonT(60), <2>1 DEF Nic!Decide, Apart, Nic!At, Nic!Goto, Nic!ring, Nic!flow, Nic!owner,
              Nic!NetThreads, Nic!NoLock
<1>24. ASSUME NEW t \in Nic!NetThreads, Nic!Left(t) PROVE FrontInv'
  <2>1. /\ loc' \in [Nic!NetThreads -> Locals] /\ pc' \in [Nic!NetThreads -> NicPlaces] /\ Apart(t)
        /\ loc'[t].drain = loc[t].drain /\ loc'[t].any = loc[t].any /\ loc'[t].left = Len(backlog)
        /\ Nic!At(t, {"left"}) /\ lock' = Nic!NoLock /\ rxBacklog' = Len(backlog)
        /\ IF loc[t].any /\ ready
           THEN signaled' = used /\ pc'[t] = (IF Nic!Decide(used) THEN "raise" ELSE "wake")
           ELSE UNCHANGED signaled /\ pc'[t] = "wake"
        /\ UNCHANGED <<avail, reaped, asleep, due, driver, availEvent, used, ready, lastAvail, kick, irq, backlog,
                       rxWake, unsignaled, Nic!owner, injects, resets>>
    BY <1>24, LeftEffect
  <2> QED  BY <2>1 DEF Nic!Decide, Apart, Nic!At, Nic!Goto, Nic!ring, Nic!flow, Nic!owner,
              Nic!NetThreads, Nic!NoLock
<1>25. ASSUME NEW t \in Nic!NetThreads, Nic!Raise(t) PROVE FrontInv'
  BY <1>25 DEF Nic!Raise, Apart, Nic!At, Nic!Goto, Nic!ring, Nic!flow, Nic!owner, Nic!NetThreads,
     Nic!NoLock
<1>26. ASSUME NEW t \in Nic!NetThreads, Nic!Wake(t) PROVE FrontInv'
  <2>1. /\ loc' \in [Nic!NetThreads -> Locals] /\ pc' \in [Nic!NetThreads -> NicPlaces] /\ Apart(t) /\ loc'[t].drain = FALSE /\ loc'[t].any = FALSE
        /\ Nic!At(t, {"wake"}) /\ Nic!WakeBackend(loc[t].left) /\ pc'[t] = "idle"
        /\ UNCHANGED <<Nic!ring, kick, irq, lock, backlog, rxBacklog, unsignaled, paused, burst, injects, resets>>
    BY <1>26, WakeEffect
  <2> QED  BY <2>1 DEF Nic!WakeBackend, Apart, Nic!At, Nic!Goto, Nic!ring, Nic!flow, Nic!owner,
              Nic!NetThreads, Nic!NoLock
<1>27. ASSUME NEW t \in Nic!NetThreads, Nic!Count(t) PROVE FrontInv'
  BY <1>27 DEF Nic!Count, Apart, Nic!At, Nic!Goto, Nic!ring, Nic!flow, Nic!owner, Nic!NetThreads,
     Nic!NoLock
<1>28. ASSUME NEW t \in Nic!NetThreads, Nic!NotifyRx(t) PROVE FrontInv'
  BY <1>28 DEF Nic!NotifyRx, Apart, Nic!At, Nic!Goto, Nic!ring, Nic!flow, Nic!owner,
     Nic!NetThreads, Nic!NoLock
<1>29. ASSUME NEW t \in Nic!NetThreads, Nic!NotifyDecide(t) PROVE FrontInv'
  BY <1>29 DEF Nic!NotifyDecide, Nic!Decide, Nic!InRing, Apart, Nic!At, Nic!Goto, Nic!ring,
     Nic!flow, Nic!owner, Nic!NetThreads, Nic!NoLock
<1>30. CASE UNCHANGED Nic!vars
  BY <1>30 DEF Nic!vars, Apart, Nic!At, Nic!Goto, Nic!ring, Nic!flow, Nic!owner, Nic!NetThreads,
     Nic!NoLock
<1>31. ASSUME NEW n \in 1 .. MaxFrame, Nic!Inject(n) PROVE FrontInv'
  BY <1>31, <1>16, InjectIsOwners DEF NetType
<1>32. ASSUME Nic!Loopback(1) PROVE FrontInv'
  BY <1>32, <1>16, LoopbackIsPumps DEF NetType
<1> QED
  BY <1>1, <1>2, <1>3, <1>4, <1>5, <1>6, <1>7, <1>8, <1>9, <1>10, <1>11, <1>12, <1>13, <1>14,
     <1>15, <1>17, <1>18, <1>19, <1>20, <1>21, <1>22, <1>23, <1>24, <1>25, <1>26, <1>27, <1>28,
     <1>29, <1>30, <1>31, <1>32
  DEF Nic!Next, Nic!Driver, Nic!Reset, Nic!Owner, Nic!ThreadStep, Nic!DeliverFrame

\* Each thread stays in its part of the code.
LEMMA PlaceStep ==
  ASSUME Nic!NetAssumption, NetType, NicLockInv, DownInv, HandInv, [Nic!Next]_(Nic!vars)
  PROVE  PlaceInv'
<1>0. \A t \in Nic!NetThreads : Fields(loc[t])
  BY FieldsOk DEF NetType
<1> USE NicSizes, <1>0 DEF Fields, NetType, NumType, CtrlType, HandInv, PlaceInv, RingPlaces
<1>1. CASE Nic!Refill
  BY <1>1 DEF Nic!Refill, Apart, Nic!At, Nic!Goto, Nic!ring, Nic!flow, Nic!owner, Nic!NetThreads,
     Nic!NoLock
<1>2. CASE Nic!KickPrepare
  BY <1>2 DEF Nic!KickPrepare, Apart, Nic!At, Nic!Goto, Nic!ring, Nic!flow, Nic!owner,
     Nic!NetThreads, Nic!NoLock
<1>3. CASE Nic!NapiPoll
  BY <1>3 DEF Nic!NapiPoll, Apart, Nic!At, Nic!Goto, Nic!ring, Nic!flow, Nic!owner,
     Nic!NetThreads, Nic!NoLock
<1>4. CASE Nic!TakeIrq
  BY <1>4 DEF Nic!TakeIrq, Apart, Nic!At, Nic!Goto, Nic!ring, Nic!flow, Nic!owner, Nic!NetThreads,
     Nic!NoLock
<1>5. CASE Nic!ResetClear
  BY <1>5 DEF Nic!ResetClear, Apart, Nic!At, Nic!Goto, Nic!ring, Nic!flow, Nic!owner,
     Nic!NetThreads, Nic!NoLock
<1>6. CASE Nic!ResetStore
  BY <1>6 DEF Nic!ResetStore, Apart, Nic!At, Nic!Goto, Nic!ring, Nic!flow, Nic!owner,
     Nic!NetThreads, Nic!NoLock
<1>7. CASE Nic!ResetWake
  BY <1>7 DEF Nic!ResetWake, Nic!WakeBackend, Apart, Nic!At, Nic!Goto, Nic!ring, Nic!flow,
     Nic!owner, Nic!NetThreads, Nic!NoLock
<1>8. CASE Nic!ResetQueue
  BY <1>8 DEF Nic!ResetQueue, Nic!InRing, Apart, Nic!At, Nic!Goto, Nic!ring, Nic!flow, Nic!owner,
     Nic!NetThreads, Nic!NoLock
<1>9. CASE Nic!Enable
  BY <1>9 DEF Nic!Enable, Nic!InRing, Apart, Nic!At, Nic!Goto, Nic!ring, Nic!flow, Nic!owner,
     Nic!NetThreads, Nic!NoLock
<1>10. CASE Nic!PumpWake
  BY <1>10 DEF Nic!PumpWake, Apart, Nic!At, Nic!Goto, Nic!ring, Nic!flow, Nic!owner,
     Nic!NetThreads, Nic!NoLock
<1>11. CASE Nic!EndBurst
  BY <1>11 DEF Nic!EndBurst, Apart, Nic!At, Nic!Goto, Nic!ring, Nic!flow, Nic!owner,
     Nic!NetThreads, Nic!NoLock
<1>12. CASE Nic!AskCongested
  BY <1>12 DEF Nic!AskCongested, Apart, Nic!At, Nic!Goto, Nic!ring, Nic!flow, Nic!owner,
     Nic!NetThreads, Nic!NoLock
<1>13. CASE Nic!ArmWake
  BY <1>13 DEF Nic!ArmWake, Apart, Nic!At, Nic!Goto, Nic!ring, Nic!flow, Nic!owner,
     Nic!NetThreads, Nic!NoLock
<1>14. CASE Nic!Congested
  BY <1>14 DEF Nic!Congested, Apart, Nic!At, Nic!Goto, Nic!ring, Nic!flow, Nic!owner,
     Nic!NetThreads, Nic!NoLock
<1>15. CASE Nic!Resume
  BY <1>15 DEF Nic!Resume, Apart, Nic!At, Nic!Goto, Nic!ring, Nic!flow, Nic!owner, Nic!NetThreads,
     Nic!NoLock
<1>16. ASSUME NEW t \in Nic!NetThreads, NEW n \in Nat \ {0}, NEW notify \in BOOLEAN,
              Nic!InjectFrame(t, n, notify),
             notify <=> t = "pump", UNCHANGED <<paused, woken>>, burst' = (burst \/ t = "owner")
      PROVE  PlaceInv'
  <2>1. /\ loc' \in [Nic!NetThreads -> Locals] /\ pc' \in [Nic!NetThreads -> NicPlaces] /\ Apart(t)
        /\ loc'[t].frame = n /\ loc'[t].notify = notify /\ loc'[t].drain = FALSE /\ loc'[t].any = FALSE
        /\ loc'[t].cursor = lastAvail /\ loc'[t].got = 0
        /\ Nic!At(t, {"idle"}) /\ lock = Nic!NoLock /\ injects < MaxInjects /\ lock' = t /\ injects' = injects + 1
        /\ pc'[t] = (IF ready /\ backlog = <<>> THEN "pop" ELSE "queue") /\ UNCHANGED <<Nic!ring, kick, irq, Nic!flow, resets>>
    <3> HIDE DEF NetType
    <3> QED  BY <1>16, InjectEffect
  <2> QED  BY ZenonT(60), <2>1, <1>16 DEF Apart, Nic!At, Nic!Goto, Nic!ring, Nic!flow, Nic!owner,
              Nic!NetThreads, Nic!NoLock
<1>17. ASSUME NEW t \in Nic!NetThreads, Nic!Queue(t) PROVE PlaceInv'
  <2>1. /\ loc' \in [Nic!NetThreads -> Locals] /\ pc' \in [Nic!NetThreads -> NicPlaces] /\ Apart(t) /\ loc'[t].drain = FALSE /\ loc'[t].any = FALSE
        /\ Nic!At(t, {"queue"}) /\ lock' = Nic!NoLock
        /\ IF Len(backlog) < Pool
           THEN backlog' = Append(backlog, loc[t].frame) /\ rxBacklog' = Len(backlog) + 1 /\ pc'[t] = "deliver"
           ELSE UNCHANGED <<backlog, rxBacklog>> /\ pc'[t] = "idle"
        /\ UNCHANGED <<Nic!ring, kick, irq, rxWake, unsignaled, Nic!owner, injects, resets>>
    BY <1>17, QueueEffect
  <2> QED  BY ZenonT(60), <2>1 DEF Apart, Nic!At, Nic!Goto, Nic!ring, Nic!flow, Nic!owner, Nic!NetThreads,
              Nic!NoLock
<1>18. ASSUME NEW t \in Nic!NetThreads, Nic!DeliverRx(t) PROVE PlaceInv'
  <2>1. /\ loc' \in [Nic!NetThreads -> Locals] /\ pc' \in [Nic!NetThreads -> NicPlaces] /\ Apart(t) /\ loc'[t].drain = TRUE /\ loc'[t].any = FALSE
        /\ ready /\ backlog # <<>> =>
             loc'[t].frame = Head(backlog) /\ loc'[t].cursor = lastAvail /\ loc'[t].got = 0
        /\ Nic!At(t, {"deliver"}) /\ lock = Nic!NoLock /\ lock' = t
        /\ pc'[t] = (IF ready /\ backlog # <<>> THEN "pop" ELSE "left")
        /\ UNCHANGED <<Nic!ring, kick, irq, Nic!flow, Nic!owner, injects, resets>>
    BY <1>18, DeliverRxEffect
  <2> QED  BY ZenonT(60), <2>1 DEF Apart, Nic!At, Nic!Goto, Nic!ring, Nic!flow, Nic!owner, Nic!NetThreads,
              Nic!NoLock
<1>19. ASSUME NEW t \in Nic!NetThreads, Nic!Pop(t) PROVE PlaceInv'
  <2>1. /\ loc' \in [Nic!NetThreads -> Locals] /\ pc' \in [Nic!NetThreads -> NicPlaces] /\ Apart(t)
        /\ loc'[t].frame = loc[t].frame /\ loc'[t].notify = loc[t].notify /\ loc'[t].drain = loc[t].drain
        /\ loc'[t].any = loc[t].any /\ loc'[t].cursor = loc[t].cursor
        /\ loc'[t].got = loc[t].got + (IF lastAvail < avail THEN 1 ELSE 0)
        /\ Nic!At(t, {"pop"})
        /\ IF lastAvail < avail
           THEN /\ lastAvail' = lastAvail + 1 /\ availEvent' = lastAvail + 1
                /\ pc'[t] = (IF loc[t].got + 1 = loc[t].frame THEN "publish" ELSE "pop")
           ELSE pc'[t] = "arm" /\ UNCHANGED <<lastAvail, availEvent>>
        /\ UNCHANGED <<avail, reaped, asleep, due, driver, used, ready, signaled, kick, irq, lock, Nic!flow, Nic!owner,
                       injects, resets>>
    BY <1>19, PopEffect
  <2> QED  BY <2>1 DEF Apart, Nic!At, Nic!Goto, Nic!ring, Nic!flow, Nic!owner, Nic!NetThreads,
              Nic!NoLock
<1>20. ASSUME NEW t \in Nic!NetThreads, Nic!Arm(t) PROVE PlaceInv'
  BY <1>20 DEF Nic!Arm, Apart, Nic!At, Nic!Goto, Nic!ring, Nic!flow, Nic!owner, Nic!NetThreads,
     Nic!NoLock
<1>21. ASSUME NEW t \in Nic!NetThreads, Nic!Recheck(t) PROVE PlaceInv'
  BY <1>21 DEF Nic!Recheck, Nic!Fail, Apart, Nic!At, Nic!Goto, Nic!ring, Nic!flow, Nic!owner,
     Nic!NetThreads, Nic!NoLock
<1>22. ASSUME NEW t \in Nic!NetThreads, Nic!Rewind(t) PROVE PlaceInv'
  <2>1. /\ loc' \in [Nic!NetThreads -> Locals] /\ pc' \in [Nic!NetThreads -> NicPlaces] /\ Apart(t)
        /\ loc'[t].frame = loc[t].frame /\ loc'[t].notify = loc[t].notify /\ loc'[t].drain = loc[t].drain
        /\ loc'[t].any = loc[t].any /\ loc'[t].cursor = loc[t].cursor /\ loc'[t].got = 0
        /\ Nic!At(t, {"rewind"}) /\ lastAvail' = loc[t].cursor
        /\ \/ avail # lastAvail /\ pc'[t] = "pop"
           \/ pc'[t] = (IF loc[t].drain THEN "left" ELSE "queue")
        /\ UNCHANGED <<avail, reaped, asleep, due, driver, availEvent, used, ready, signaled, kick, irq, lock, Nic!flow,
                       Nic!owner, injects, resets>>
    BY <1>22, RewindEffect
  <2> QED  BY <2>1 DEF Nic!Fail, Apart, Nic!At, Nic!Goto, Nic!ring, Nic!flow, Nic!owner,
              Nic!NetThreads, Nic!NoLock
<1>23. ASSUME NEW t \in Nic!NetThreads, Nic!Publish(t) PROVE PlaceInv'
  <2>1. /\ loc' \in [Nic!NetThreads -> Locals] /\ pc' \in [Nic!NetThreads -> NicPlaces] /\ Apart(t)
        /\ ~loc[t].drain => loc'[t].drain = FALSE /\ loc'[t].any = FALSE
        /\ loc[t].drain => loc'[t].drain = TRUE /\ loc'[t].any = TRUE
        /\ loc[t].drain /\ backlog # <<>> /\ Tail(backlog) # <<>> =>
             loc'[t].frame = Head(Tail(backlog)) /\ loc'[t].cursor = lastAvail /\ loc'[t].got = 0
        /\ Nic!At(t, {"publish"}) /\ used' = used + loc[t].got
        /\ IF loc[t].drain
           THEN /\ backlog' = Tail(backlog) /\ pc'[t] = (IF Tail(backlog) = <<>> THEN "left" ELSE "pop")
                /\ UNCHANGED <<signaled, lock>>
           ELSE /\ lock' = Nic!NoLock /\ UNCHANGED backlog
                /\ IF loc[t].notify
                   THEN signaled' = used' /\ pc'[t] = (IF Nic!Decide(used') THEN "raise" ELSE "idle")
                   ELSE pc'[t] = "count" /\ UNCHANGED signaled
        /\ UNCHANGED <<avail, reaped, asleep, due, driver, availEvent, ready, lastAvail, kick, irq, rxBacklog,
                       rxWake, unsignaled, Nic!owner, injects, resets>>
    BY <1>23, PublishEffect
  <2> QED  BY ZenonT(60), <2>1 DEF Nic!Decide, Apart, Nic!At, Nic!Goto, Nic!ring, Nic!flow, Nic!owner,
              Nic!NetThreads, Nic!NoLock
<1>24. ASSUME NEW t \in Nic!NetThreads, Nic!Left(t) PROVE PlaceInv'
  <2>1. /\ loc' \in [Nic!NetThreads -> Locals] /\ pc' \in [Nic!NetThreads -> NicPlaces] /\ Apart(t)
        /\ loc'[t].drain = loc[t].drain /\ loc'[t].any = loc[t].any /\ loc'[t].left = Len(backlog)
        /\ Nic!At(t, {"left"}) /\ lock' = Nic!NoLock /\ rxBacklog' = Len(backlog)
        /\ IF loc[t].any /\ ready
           THEN signaled' = used /\ pc'[t] = (IF Nic!Decide(used) THEN "raise" ELSE "wake")
           ELSE UNCHANGED signaled /\ pc'[t] = "wake"
        /\ UNCHANGED <<avail, reaped, asleep, due, driver, availEvent, used, ready, lastAvail, kick, irq, backlog,
                       rxWake, unsignaled, Nic!owner, injects, resets>>
    BY <1>24, LeftEffect
  <2> QED  BY ZenonT(60), <2>1 DEF Nic!Decide, Apart, Nic!At, Nic!Goto, Nic!ring, Nic!flow, Nic!owner,
              Nic!NetThreads, Nic!NoLock
<1>25. ASSUME NEW t \in Nic!NetThreads, Nic!Raise(t) PROVE PlaceInv'
  BY <1>25 DEF Nic!Raise, Apart, Nic!At, Nic!Goto, Nic!ring, Nic!flow, Nic!owner, Nic!NetThreads,
     Nic!NoLock
<1>26. ASSUME NEW t \in Nic!NetThreads, Nic!Wake(t) PROVE PlaceInv'
  <2>1. /\ loc' \in [Nic!NetThreads -> Locals] /\ pc' \in [Nic!NetThreads -> NicPlaces] /\ Apart(t) /\ loc'[t].drain = FALSE /\ loc'[t].any = FALSE
        /\ Nic!At(t, {"wake"}) /\ Nic!WakeBackend(loc[t].left) /\ pc'[t] = "idle"
        /\ UNCHANGED <<Nic!ring, kick, irq, lock, backlog, rxBacklog, unsignaled, paused, burst, injects, resets>>
    BY <1>26, WakeEffect
  <2> QED  BY <2>1 DEF Nic!WakeBackend, Apart, Nic!At, Nic!Goto, Nic!ring, Nic!flow, Nic!owner,
              Nic!NetThreads, Nic!NoLock
<1>27. ASSUME NEW t \in Nic!NetThreads, Nic!Count(t) PROVE PlaceInv'
  BY <1>27 DEF Nic!Count, Apart, Nic!At, Nic!Goto, Nic!ring, Nic!flow, Nic!owner, Nic!NetThreads,
     Nic!NoLock
<1>28. ASSUME NEW t \in Nic!NetThreads, Nic!NotifyRx(t) PROVE PlaceInv'
  BY <1>28 DEF Nic!NotifyRx, Apart, Nic!At, Nic!Goto, Nic!ring, Nic!flow, Nic!owner,
     Nic!NetThreads, Nic!NoLock
<1>29. ASSUME NEW t \in Nic!NetThreads, Nic!NotifyDecide(t) PROVE PlaceInv'
  BY <1>29 DEF Nic!NotifyDecide, Nic!Decide, Nic!InRing, Apart, Nic!At, Nic!Goto, Nic!ring,
     Nic!flow, Nic!owner, Nic!NetThreads, Nic!NoLock
<1>30. CASE UNCHANGED Nic!vars
  BY <1>30 DEF Nic!vars, Apart, Nic!At, Nic!Goto, Nic!ring, Nic!flow, Nic!owner, Nic!NetThreads,
     Nic!NoLock
<1>31. ASSUME NEW n \in 1 .. MaxFrame, Nic!Inject(n) PROVE PlaceInv'
  BY <1>31, <1>16, InjectIsOwners DEF NetType
<1>32. ASSUME Nic!Loopback(1) PROVE PlaceInv'
  BY <1>32, <1>16, LoopbackIsPumps DEF NetType
<1> QED
  BY <1>1, <1>2, <1>3, <1>4, <1>5, <1>6, <1>7, <1>8, <1>9, <1>10, <1>11, <1>12, <1>13, <1>14,
     <1>15, <1>17, <1>18, <1>19, <1>20, <1>21, <1>22, <1>23, <1>24, <1>25, <1>26, <1>27, <1>28,
     <1>29, <1>30, <1>31, <1>32
  DEF Nic!Next, Nic!Driver, Nic!Reset, Nic!Owner, Nic!ThreadStep, Nic!DeliverFrame

\* A frame that waits is looked at again, or lacks buffers.
LEMMA NicStrandStep ==
  ASSUME Nic!NetAssumption, NetType, NicLockInv, DownInv, HandInv, NicStrandInv,
         [Nic!Next]_(Nic!vars)
  PROVE  NicStrandInv'
<1>0. \A t \in Nic!NetThreads : Fields(loc[t])
  BY FieldsOk DEF NetType
<1> USE NicSizes, <1>0 DEF Fields, NicStrandInv
<1>1. CASE Nic!Refill
  <2>1. /\ ~due /\ avail' = avail + 1 /\ due' = TRUE
        /\ UNCHANGED <<kick, pc, loc, lastAvail, availEvent, backlog, ready>>
    BY <1>1 DEF Nic!Refill, Nic!flow
  <2>2. Coming => Coming'
    BY <2>1 DEF Coming
  <2>3. avail = availEvent => Coming'
    BY <2>1 DEF Coming, NetType, NumType, CountType
  <2>4. \A t \in Nic!NetThreads : pc[t] = "rewind" => availEvent = lastAvail
    BY DEF HandInv, GotInv
  <2>5. RewindInv'
    BY <2>1, <2>2, <2>3, <2>4 DEF RewindInv
  <2>6. Trying' = Trying /\ Rewinding' = Rewinding
    BY <2>1 DEF Trying, Rewinding
  <2>7. FrontSeen'
    BY <2>1, <2>2, <2>3, <2>6 DEF FrontSeen, Dry
  <2> QED  BY <2>5, <2>7
<1>2. CASE Nic!KickPrepare
  BY <1>2 DEF Nic!KickPrepare, Apart, Nic!At, Nic!Goto, Nic!ring, Nic!flow, Nic!owner,
     Nic!NetThreads, Nic!NoLock, NetType, NumType, CountType, SeqType, CtrlType, FlagType, Coming,
     Trying, Dry, Rewinding, RewindInv, FrontSeen, RingPlaces, Holding
<1>3. CASE Nic!NapiPoll
  BY <1>3 DEF Nic!NapiPoll, Apart, Nic!At, Nic!Goto, Nic!ring, Nic!flow, Nic!owner,
     Nic!NetThreads, Nic!NoLock, NetType, NumType, CountType, SeqType, CtrlType, FlagType, Coming,
     Trying, Dry, Rewinding, RewindInv, FrontSeen, RingPlaces, Holding
<1>4. CASE Nic!TakeIrq
  BY <1>4 DEF Nic!TakeIrq, Apart, Nic!At, Nic!Goto, Nic!ring, Nic!flow, Nic!owner, Nic!NetThreads,
     Nic!NoLock, NetType, NumType, CountType, SeqType, CtrlType, FlagType, Coming, Trying, Dry,
     Rewinding, RewindInv, FrontSeen, RingPlaces, Holding
<1>5. CASE Nic!ResetClear
  BY <1>5 DEF Nic!ResetClear, Apart, Nic!At, Nic!Goto, Nic!ring, Nic!flow, Nic!owner,
     Nic!NetThreads, Nic!NoLock, NetType, NumType, CountType, SeqType, CtrlType, FlagType, Coming,
     Trying, Dry, Rewinding, RewindInv, FrontSeen, RingPlaces, Holding
<1>6. CASE Nic!ResetStore
  BY <1>6 DEF Nic!ResetStore, Apart, Nic!At, Nic!Goto, Nic!ring, Nic!flow, Nic!owner,
     Nic!NetThreads, Nic!NoLock, NetType, NumType, CountType, SeqType, CtrlType, FlagType, Coming,
     Trying, Dry, Rewinding, RewindInv, FrontSeen, RingPlaces, Holding
<1>7. CASE Nic!ResetWake
  BY <1>7 DEF Nic!ResetWake, Nic!WakeBackend, Apart, Nic!At, Nic!Goto, Nic!ring, Nic!flow,
     Nic!owner, Nic!NetThreads, Nic!NoLock, NetType, NumType, CountType, SeqType, CtrlType,
     FlagType, Coming, Trying, Dry, Rewinding, RewindInv, FrontSeen, RingPlaces, Holding
<1>8. CASE Nic!ResetQueue
  BY <1>8 DEF Nic!ResetQueue, Nic!InRing, Apart, Nic!At, Nic!Goto, Nic!ring, Nic!flow, Nic!owner,
     Nic!NetThreads, Nic!NoLock, NetType, NumType, CountType, SeqType, CtrlType, FlagType, Coming,
     Trying, Dry, Rewinding, RewindInv, FrontSeen, RingPlaces, Holding
<1>9. CASE Nic!Enable
  <2>1. ~ready /\ avail = 0 /\ ~Nic!InRing /\ UNCHANGED <<avail, lastAvail, availEvent, backlog, pc>>
    BY <1>9 DEF Nic!Enable, Nic!flow, DownInv
  <2>2. avail = availEvent /\ avail - lastAvail = 0
    BY <2>1 DEF NetType, NumType, CountType
  <2>3. backlog # <<>> => 0 < Head(backlog)
    BY HeadOk DEF NetType, NumType, SeqType
  <2>4. FrontSeen'
    BY <2>1, <2>2, <2>3 DEF FrontSeen, Dry
  <2>5. RewindInv'
    BY <2>1 DEF RewindInv, Nic!InRing, Nic!At
  <2> QED  BY <2>4, <2>5
<1>10. CASE Nic!PumpWake
  BY <1>10 DEF Nic!PumpWake, Apart, Nic!At, Nic!Goto, Nic!ring, Nic!flow, Nic!owner,
     Nic!NetThreads, Nic!NoLock, NetType, NumType, CountType, SeqType, CtrlType, FlagType, Coming,
     Trying, Dry, Rewinding, RewindInv, FrontSeen, RingPlaces, Holding
<1>11. CASE Nic!EndBurst
  BY <1>11 DEF Nic!EndBurst, Apart, Nic!At, Nic!Goto, Nic!ring, Nic!flow, Nic!owner,
     Nic!NetThreads, Nic!NoLock, NetType, NumType, CountType, SeqType, CtrlType, FlagType, Coming,
     Trying, Dry, Rewinding, RewindInv, FrontSeen, RingPlaces, Holding
<1>12. CASE Nic!AskCongested
  BY <1>12 DEF Nic!AskCongested, Apart, Nic!At, Nic!Goto, Nic!ring, Nic!flow, Nic!owner,
     Nic!NetThreads, Nic!NoLock, NetType, NumType, CountType, SeqType, CtrlType, FlagType, Coming,
     Trying, Dry, Rewinding, RewindInv, FrontSeen, RingPlaces, Holding
<1>13. CASE Nic!ArmWake
  BY <1>13 DEF Nic!ArmWake, Apart, Nic!At, Nic!Goto, Nic!ring, Nic!flow, Nic!owner,
     Nic!NetThreads, Nic!NoLock, NetType, NumType, CountType, SeqType, CtrlType, FlagType, Coming,
     Trying, Dry, Rewinding, RewindInv, FrontSeen, RingPlaces, Holding
<1>14. CASE Nic!Congested
  BY <1>14 DEF Nic!Congested, Apart, Nic!At, Nic!Goto, Nic!ring, Nic!flow, Nic!owner,
     Nic!NetThreads, Nic!NoLock, NetType, NumType, CountType, SeqType, CtrlType, FlagType, Coming,
     Trying, Dry, Rewinding, RewindInv, FrontSeen, RingPlaces, Holding
<1>15. CASE Nic!Resume
  BY <1>15 DEF Nic!Resume, Apart, Nic!At, Nic!Goto, Nic!ring, Nic!flow, Nic!owner, Nic!NetThreads,
     Nic!NoLock, NetType, NumType, CountType, SeqType, CtrlType, FlagType, Coming, Trying, Dry,
     Rewinding, RewindInv, FrontSeen, RingPlaces, Holding
<1>16. ASSUME NEW t \in Nic!NetThreads, NEW n \in Nat \ {0}, NEW notify \in BOOLEAN,
              Nic!InjectFrame(t, n, notify),
             notify <=> t = "pump", UNCHANGED <<paused, woken>>, burst' = (burst \/ t = "owner")
      PROVE  NicStrandInv'
  <2>1. /\ loc' \in [Nic!NetThreads -> Locals] /\ pc' \in [Nic!NetThreads -> NicPlaces] /\ Apart(t)
        /\ loc'[t].frame = n /\ loc'[t].notify = notify /\ loc'[t].drain = FALSE /\ loc'[t].any = FALSE
        /\ loc'[t].cursor = lastAvail /\ loc'[t].got = 0
        /\ Nic!At(t, {"idle"}) /\ lock = Nic!NoLock /\ injects < MaxInjects /\ lock' = t /\ injects' = injects + 1
        /\ pc'[t] = (IF ready /\ backlog = <<>> THEN "pop" ELSE "queue") /\ UNCHANGED <<Nic!ring, kick, irq, Nic!flow, resets>>
    <3> HIDE DEF NetType
    <3> QED  BY <1>16, InjectEffect
  <2> QED  BY ZenonT(60), <2>1, <1>16 DEF Apart, Nic!At, Nic!Goto, Nic!ring, Nic!flow, Nic!owner,
              Nic!NetThreads, Nic!NoLock, NetType, NumType, CountType, SeqType, CtrlType,
              FlagType, Coming, Trying, Dry, Rewinding, RewindInv, FrontSeen, RingPlaces, Holding
<1>17. ASSUME NEW t \in Nic!NetThreads, Nic!Queue(t) PROVE NicStrandInv'
  <2>1. /\ loc' \in [Nic!NetThreads -> Locals] /\ pc' \in [Nic!NetThreads -> NicPlaces] /\ Apart(t) /\ loc'[t].drain = FALSE /\ loc'[t].any = FALSE
        /\ Nic!At(t, {"queue"}) /\ lock' = Nic!NoLock
        /\ IF Len(backlog) < Pool
           THEN backlog' = Append(backlog, loc[t].frame) /\ rxBacklog' = Len(backlog) + 1 /\ pc'[t] = "deliver"
           ELSE UNCHANGED <<backlog, rxBacklog>> /\ pc'[t] = "idle"
        /\ UNCHANGED <<Nic!ring, kick, irq, rxWake, unsignaled, Nic!owner, injects, resets>>
    BY <1>17, QueueEffect
  <2>2. pc[t] = "queue" /\ UNCHANGED <<avail, due, availEvent, lastAvail, ready, kick>>
    BY <2>1 DEF Nic!At, Nic!ring
  <2>3. pc'[t] = "deliver" \/ (pc'[t] = "idle" /\ UNCHANGED backlog)
    BY <2>1
  <2>4. pc'[t] = "deliver" => Coming'
    BY <2>1 DEF Coming
  <2>5. (Coming => Coming') /\ (Trying => Trying') /\ (Rewinding => Rewinding')
    <3>1. \A u \in Nic!NetThreads : pc[u] # "queue" => pc'[u] = pc[u] /\ loc'[u] = loc[u]
      BY <2>1, <2>2 DEF Apart
    <3>2. Coming => Coming'
      BY <2>2, <3>1 DEF Coming
    <3>3. Trying => Trying'
      BY <3>1 DEF Trying, RingPlaces
    <3>4. Rewinding => Rewinding'
      BY <3>1 DEF Rewinding
    <3> QED  BY <3>2, <3>3, <3>4
  <2>6. RewindInv'
    BY <2>1, <2>2, <2>3, <2>5 DEF RewindInv, Apart
  <2>7. FrontSeen'
    BY <2>2, <2>3, <2>4, <2>5 DEF FrontSeen, Dry
  <2> QED  BY <2>6, <2>7
<1>18. ASSUME NEW t \in Nic!NetThreads, Nic!DeliverRx(t) PROVE NicStrandInv'
  <2>1. /\ loc' \in [Nic!NetThreads -> Locals] /\ pc' \in [Nic!NetThreads -> NicPlaces] /\ Apart(t) /\ loc'[t].drain = TRUE /\ loc'[t].any = FALSE
        /\ ready /\ backlog # <<>> =>
             loc'[t].frame = Head(backlog) /\ loc'[t].cursor = lastAvail /\ loc'[t].got = 0
        /\ Nic!At(t, {"deliver"}) /\ lock = Nic!NoLock /\ lock' = t
        /\ pc'[t] = (IF ready /\ backlog # <<>> THEN "pop" ELSE "left")
        /\ UNCHANGED <<Nic!ring, kick, irq, Nic!flow, Nic!owner, injects, resets>>
    BY <1>18, DeliverRxEffect
  <2>2. /\ pc'[t] \in {"pop", "left"} /\ (pc'[t] = "left" => ~ready \/ backlog = <<>>)
        /\ UNCHANGED <<backlog, ready>>
    BY <2>1 DEF Nic!flow, Nic!ring
  <2>3. \A u \in Nic!NetThreads \ {t} : pc'[u] # "rewind"
    BY <2>1 DEF Apart, NicLockInv, Holding, RingPlaces, Nic!NoLock, Nic!NetThreads
  <2>4. RewindInv'
    BY <2>2, <2>3 DEF RewindInv
  <2>5. pc'[t] = "pop" => Trying'
    BY <2>1 DEF Trying, RingPlaces
  <2>6. FrontSeen'
    BY <2>2, <2>5 DEF FrontSeen
  <2> QED  BY <2>4, <2>6
<1>19. ASSUME NEW t \in Nic!NetThreads, Nic!Pop(t) PROVE NicStrandInv'
  <2>1. /\ loc' \in [Nic!NetThreads -> Locals] /\ pc' \in [Nic!NetThreads -> NicPlaces] /\ Apart(t)
        /\ loc'[t].frame = loc[t].frame /\ loc'[t].notify = loc[t].notify /\ loc'[t].drain = loc[t].drain
        /\ loc'[t].any = loc[t].any /\ loc'[t].cursor = loc[t].cursor
        /\ loc'[t].got = loc[t].got + (IF lastAvail < avail THEN 1 ELSE 0)
        /\ Nic!At(t, {"pop"})
        /\ IF lastAvail < avail
           THEN /\ lastAvail' = lastAvail + 1 /\ availEvent' = lastAvail + 1
                /\ pc'[t] = (IF loc[t].got + 1 = loc[t].frame THEN "publish" ELSE "pop")
           ELSE pc'[t] = "arm" /\ UNCHANGED <<lastAvail, availEvent>>
        /\ UNCHANGED <<avail, reaped, asleep, due, driver, used, ready, signaled, kick, irq, lock, Nic!flow, Nic!owner,
                       injects, resets>>
    BY <1>19, PopEffect
  <2>2. pc[t] = "pop" /\ pc'[t] \in {"pop", "publish", "arm"} /\ UNCHANGED <<backlog, ready>>
    BY <2>1 DEF Nic!At, Nic!flow
  <2>3. lock = t /\ (~loc[t].drain => backlog = <<>>)
    BY <2>2 DEF NicLockInv, Holding, RingPlaces, HandInv, FrontInv
  <2>4. \A u \in Nic!NetThreads \ {t} : pc'[u] = pc[u] /\ pc[u] # "rewind"
    BY <2>1, <2>3 DEF NicLockInv, Holding, RingPlaces, Apart
  <2>5. RewindInv'
    BY <2>2, <2>4 DEF RewindInv
  <2>6. loc[t].drain => Trying'
    BY <2>1, <2>2 DEF Trying, RingPlaces
  <2>7. FrontSeen'
    BY <2>2, <2>3, <2>6 DEF FrontSeen
  <2> QED  BY <2>5, <2>7
<1>20. ASSUME NEW t \in Nic!NetThreads, Nic!Arm(t) PROVE NicStrandInv'
  <2>1. /\ pc[t] = "arm" /\ pc' = [pc EXCEPT ![t] = "recheck"] /\ UNCHANGED <<loc, backlog, ready>>
    BY <1>20 DEF Nic!Arm, Nic!At, Nic!Goto, Nic!flow, Nic!ring
  <2>2. lock = t /\ (~loc[t].drain => backlog = <<>>)
    BY <2>1 DEF NicLockInv, Holding, RingPlaces, HandInv, FrontInv
  <2>3. pc'[t] = "recheck" /\ \A u \in Nic!NetThreads \ {t} : pc'[u] = pc[u] /\ pc[u] # "rewind"
    BY <2>1, <2>2 DEF NicLockInv, Holding, RingPlaces, NetType, NumType, CtrlType
  <2>4. RewindInv'
    BY <2>3 DEF RewindInv
  <2>5. loc[t].drain => Trying'
    BY <2>1, <2>3 DEF Trying, RingPlaces
  <2>6. FrontSeen'
    BY <2>1, <2>2, <2>5 DEF FrontSeen
  <2> QED  BY <2>4, <2>6
<1>21. ASSUME NEW t \in Nic!NetThreads, Nic!Recheck(t) PROVE NicStrandInv'
  <2>1. /\ pc[t] = "recheck" /\ UNCHANGED <<loc, backlog, ready, avail, lastAvail, availEvent>>
        /\ \/ Nic!Goto(t, "pop") \/ Nic!Goto(t, "publish")
           \/ avail = lastAvail /\ Nic!Goto(t, IF loc[t].drain THEN "left" ELSE "queue")
           \/ avail = lastAvail /\ Nic!Goto(t, "rewind")
    BY <1>21 DEF Nic!Recheck, Nic!Fail, Nic!At, Nic!flow, Nic!ring, NetType, NumType, CountType
  <2>2. /\ lock = t /\ (~loc[t].drain => backlog = <<>>) /\ availEvent = lastAvail
    BY <2>1 DEF NicLockInv, Holding, RingPlaces, HandInv, FrontInv, GotInv
  <2>3. /\ \A u \in Nic!NetThreads \ {t} : pc'[u] = pc[u] /\ pc[u] # "rewind"
        /\ \/ pc'[t] \in {"pop", "publish"}
           \/ avail = lastAvail /\ pc'[t] \in {"left", "queue", "rewind"}
    <3>1. \A u \in Nic!NetThreads \ {t} : pc'[u] = pc[u]
      BY <2>1 DEF NetType, NumType, CtrlType, Nic!Goto
    <3>2. \A u \in Nic!NetThreads \ {t} : pc[u] # "rewind"
      BY <2>2 DEF NicLockInv, Holding, RingPlaces
    <3>4. \A p \in NicPlaces : Nic!Goto(t, p) => pc'[t] = p
      BY DEF NetType, NumType, CtrlType, Nic!Goto
    <3>3. pc'[t] \in {"pop", "publish"} \/ (avail = lastAvail /\ pc'[t] \in {"left", "queue", "rewind"})
      BY <2>1, <3>4 DEF NicPlaces, Holding, RingPlaces
    <3> QED  BY <3>1, <3>2, <3>3
  <2>4. RewindInv'
    BY <2>1, <2>3 DEF RewindInv
  <2>5. loc[t].drain /\ pc'[t] \in {"pop", "publish"} => Trying'
    BY <2>1 DEF Trying, RingPlaces
  <2>6. avail = lastAvail /\ backlog # <<>> => Dry'
    <3>1. backlog # <<>> => 0 < Head(backlog)
      BY HeadOk DEF NetType, NumType, SeqType
    <3>2. avail \in Nat
      BY DEF NetType, NumType, CountType
    <3> QED  BY <2>1, <2>2, <3>1, <3>2 DEF Dry
  <2>7. FrontSeen'
    BY <2>1, <2>2, <2>3, <2>5, <2>6 DEF FrontSeen
  <2> QED  BY <2>4, <2>7
<1>22. ASSUME NEW t \in Nic!NetThreads, Nic!Rewind(t) PROVE NicStrandInv'
  <2>1. /\ loc' \in [Nic!NetThreads -> Locals] /\ pc' \in [Nic!NetThreads -> NicPlaces] /\ Apart(t)
        /\ loc'[t].frame = loc[t].frame /\ loc'[t].notify = loc[t].notify /\ loc'[t].drain = loc[t].drain
        /\ loc'[t].any = loc[t].any /\ loc'[t].cursor = loc[t].cursor /\ loc'[t].got = 0
        /\ Nic!At(t, {"rewind"}) /\ lastAvail' = loc[t].cursor
        /\ \/ avail # lastAvail /\ pc'[t] = "pop"
           \/ pc'[t] = (IF loc[t].drain THEN "left" ELSE "queue")
        /\ UNCHANGED <<avail, reaped, asleep, due, driver, availEvent, used, ready, signaled, kick, irq, lock, Nic!flow,
                       Nic!owner, injects, resets>>
    BY <1>22, RewindEffect
  <2>2. /\ pc[t] = "rewind" /\ UNCHANGED <<backlog, ready, avail, availEvent, due, kick>> /\ lastAvail' = used
        /\ pc'[t] \in {"pop", "left", "queue"}
    BY <2>1 DEF Nic!At, Nic!flow, HandInv, GotInv, RingPlaces
  <2>3. /\ lock = t /\ availEvent = lastAvail /\ lastAvail = used + loc[t].got
        /\ loc[t].got < loc[t].frame /\ loc[t].got < Size
        /\ IF loc[t].drain THEN backlog # <<>> /\ loc[t].frame = Head(backlog) ELSE backlog = <<>>
    BY <2>2 DEF NicLockInv, Holding, RingPlaces, HandInv, FrontInv, GotInv
  <2>4. \A u \in Nic!NetThreads \ {t} : pc'[u] = pc[u] /\ pc[u] # "rewind"
    BY <2>1, <2>3 DEF NicLockInv, Holding, RingPlaces, Apart
  <2>5. RewindInv'
    BY <2>2, <2>4 DEF RewindInv
  <2>6. Coming => Coming'
    BY <2>2, <2>4 DEF Coming
  <2>7. avail = lastAvail /\ loc[t].drain => Dry'
    <3>0. used \in Nat /\ lastAvail \in Nat /\ loc[t].got \in Nat
      BY DEF NetType, NumType, CountType
    <3>1. lastAvail - used = loc[t].got
      BY ONLY <2>3, <3>0
    <3> QED  BY <2>2, <2>3, <3>1 DEF Dry
  <2>8. avail = lastAvail \/ Coming
    BY <2>2 DEF RewindInv
  <2>9. FrontSeen'
    BY <2>2, <2>3, <2>6, <2>7, <2>8 DEF FrontSeen
  <2> QED  BY <2>5, <2>9
<1>23. ASSUME NEW t \in Nic!NetThreads, Nic!Publish(t) PROVE NicStrandInv'
  <2>1. /\ loc' \in [Nic!NetThreads -> Locals] /\ pc' \in [Nic!NetThreads -> NicPlaces] /\ Apart(t)
        /\ ~loc[t].drain => loc'[t].drain = FALSE /\ loc'[t].any = FALSE
        /\ loc[t].drain => loc'[t].drain = TRUE /\ loc'[t].any = TRUE
        /\ loc[t].drain /\ backlog # <<>> /\ Tail(backlog) # <<>> =>
             loc'[t].frame = Head(Tail(backlog)) /\ loc'[t].cursor = lastAvail /\ loc'[t].got = 0
        /\ Nic!At(t, {"publish"}) /\ used' = used + loc[t].got
        /\ IF loc[t].drain
           THEN /\ backlog' = Tail(backlog) /\ pc'[t] = (IF Tail(backlog) = <<>> THEN "left" ELSE "pop")
                /\ UNCHANGED <<signaled, lock>>
           ELSE /\ lock' = Nic!NoLock /\ UNCHANGED backlog
                /\ IF loc[t].notify
                   THEN signaled' = used' /\ pc'[t] = (IF Nic!Decide(used') THEN "raise" ELSE "idle")
                   ELSE pc'[t] = "count" /\ UNCHANGED signaled
        /\ UNCHANGED <<avail, reaped, asleep, due, driver, availEvent, ready, lastAvail, kick, irq, rxBacklog,
                       rxWake, unsignaled, Nic!owner, injects, resets>>
    BY <1>23, PublishEffect
  <2> QED  BY ZenonT(60), <2>1 DEF Nic!Decide, Apart, Nic!At, Nic!Goto, Nic!ring, Nic!flow, Nic!owner,
              Nic!NetThreads, Nic!NoLock, NetType, NumType, CountType, SeqType, CtrlType,
              FlagType, Coming, Trying, Dry, Rewinding, RewindInv, FrontSeen, RingPlaces, Holding
<1>24. ASSUME NEW t \in Nic!NetThreads, Nic!Left(t) PROVE NicStrandInv'
  <2>1. /\ loc' \in [Nic!NetThreads -> Locals] /\ pc' \in [Nic!NetThreads -> NicPlaces] /\ Apart(t)
        /\ loc'[t].drain = loc[t].drain /\ loc'[t].any = loc[t].any /\ loc'[t].left = Len(backlog)
        /\ Nic!At(t, {"left"}) /\ lock' = Nic!NoLock /\ rxBacklog' = Len(backlog)
        /\ IF loc[t].any /\ ready
           THEN signaled' = used /\ pc'[t] = (IF Nic!Decide(used) THEN "raise" ELSE "wake")
           ELSE UNCHANGED signaled /\ pc'[t] = "wake"
        /\ UNCHANGED <<avail, reaped, asleep, due, driver, availEvent, used, ready, lastAvail, kick, irq, backlog,
                       rxWake, unsignaled, Nic!owner, injects, resets>>
    BY <1>24, LeftEffect
  <2> QED  BY ZenonT(60), <2>1 DEF Nic!Decide, Apart, Nic!At, Nic!Goto, Nic!ring, Nic!flow, Nic!owner,
              Nic!NetThreads, Nic!NoLock, NetType, NumType, CountType, SeqType, CtrlType,
              FlagType, Coming, Trying, Dry, Rewinding, RewindInv, FrontSeen, RingPlaces, Holding
<1>25. ASSUME NEW t \in Nic!NetThreads, Nic!Raise(t) PROVE NicStrandInv'
  BY <1>25 DEF Nic!Raise, Apart, Nic!At, Nic!Goto, Nic!ring, Nic!flow, Nic!owner, Nic!NetThreads,
     Nic!NoLock, NetType, NumType, CountType, SeqType, CtrlType, FlagType, Coming, Trying, Dry,
     Rewinding, RewindInv, FrontSeen, RingPlaces, Holding
<1>26. ASSUME NEW t \in Nic!NetThreads, Nic!Wake(t) PROVE NicStrandInv'
  <2>1. /\ loc' \in [Nic!NetThreads -> Locals] /\ pc' \in [Nic!NetThreads -> NicPlaces] /\ Apart(t) /\ loc'[t].drain = FALSE /\ loc'[t].any = FALSE
        /\ Nic!At(t, {"wake"}) /\ Nic!WakeBackend(loc[t].left) /\ pc'[t] = "idle"
        /\ UNCHANGED <<Nic!ring, kick, irq, lock, backlog, rxBacklog, unsignaled, paused, burst, injects, resets>>
    BY <1>26, WakeEffect
  <2> QED  BY ZenonT(60), <2>1 DEF Nic!WakeBackend, Apart, Nic!At, Nic!Goto, Nic!ring, Nic!flow, Nic!owner,
              Nic!NetThreads, Nic!NoLock, NetType, NumType, CountType, SeqType, CtrlType,
              FlagType, Coming, Trying, Dry, Rewinding, RewindInv, FrontSeen, RingPlaces, Holding
<1>27. ASSUME NEW t \in Nic!NetThreads, Nic!Count(t) PROVE NicStrandInv'
  BY <1>27 DEF Nic!Count, Apart, Nic!At, Nic!Goto, Nic!ring, Nic!flow, Nic!owner, Nic!NetThreads,
     Nic!NoLock, NetType, NumType, CountType, SeqType, CtrlType, FlagType, Coming, Trying, Dry,
     Rewinding, RewindInv, FrontSeen, RingPlaces, Holding
<1>28. ASSUME NEW t \in Nic!NetThreads, Nic!NotifyRx(t) PROVE NicStrandInv'
  BY <1>28 DEF Nic!NotifyRx, Apart, Nic!At, Nic!Goto, Nic!ring, Nic!flow, Nic!owner,
     Nic!NetThreads, Nic!NoLock, NetType, NumType, CountType, SeqType, CtrlType, FlagType, Coming,
     Trying, Dry, Rewinding, RewindInv, FrontSeen, RingPlaces, Holding
<1>29. ASSUME NEW t \in Nic!NetThreads, Nic!NotifyDecide(t) PROVE NicStrandInv'
  BY <1>29 DEF Nic!NotifyDecide, Nic!Decide, Nic!InRing, Apart, Nic!At, Nic!Goto, Nic!ring,
     Nic!flow, Nic!owner, Nic!NetThreads, Nic!NoLock, NetType, NumType, CountType, SeqType,
     CtrlType, FlagType, Coming, Trying, Dry, Rewinding, RewindInv, FrontSeen, RingPlaces, Holding
<1>30. CASE UNCHANGED Nic!vars
  BY <1>30 DEF Nic!vars, Apart, Nic!At, Nic!Goto, Nic!ring, Nic!flow, Nic!owner, Nic!NetThreads,
     Nic!NoLock, NetType, NumType, CountType, SeqType, CtrlType, FlagType, Coming, Trying, Dry,
     Rewinding, RewindInv, FrontSeen, RingPlaces, Holding
<1>31. ASSUME NEW n \in 1 .. MaxFrame, Nic!Inject(n) PROVE NicStrandInv'
  BY <1>31, <1>16, InjectIsOwners DEF NetType
<1>32. ASSUME Nic!Loopback(1) PROVE NicStrandInv'
  BY <1>32, <1>16, LoopbackIsPumps DEF NetType
<1> QED
  BY <1>1, <1>2, <1>3, <1>4, <1>5, <1>6, <1>7, <1>8, <1>9, <1>10, <1>11, <1>12, <1>13, <1>14,
     <1>15, <1>17, <1>18, <1>19, <1>20, <1>21, <1>22, <1>23, <1>24, <1>25, <1>26, <1>27, <1>28,
     <1>29, <1>30, <1>31, <1>32
  DEF Nic!Next, Nic!Driver, Nic!Reset, Nic!Owner, Nic!ThreadStep, Nic!DeliverFrame

\* A used buffer's interrupt is decided about.
LEMMA NicIrqStep ==
  ASSUME Nic!NetAssumption, NetType, NicLockInv, DownInv, HandInv, NicIrqInv, [Nic!Next]_(Nic!vars)
  PROVE  NicIrqInv'
<1>0. \A t \in Nic!NetThreads : Fields(loc[t])
  BY FieldsOk DEF NetType
<1> USE NicSizes, <1>0 DEF Fields, NicIrqInv
<1>1. CASE Nic!Refill
  BY <1>1 DEF Nic!Refill, Apart, Nic!At, Nic!Goto, Nic!ring, Nic!flow, Nic!owner, Nic!NetThreads,
     Nic!NoLock, NetType, NumType, CountType, CtrlType, FlagType, ToldInv, BurstInv, NicRaising,
     Delivering, Undecided, RingPlaces
<1>2. CASE Nic!KickPrepare
  BY <1>2 DEF Nic!KickPrepare, Apart, Nic!At, Nic!Goto, Nic!ring, Nic!flow, Nic!owner,
     Nic!NetThreads, Nic!NoLock, NetType, NumType, CountType, CtrlType, FlagType, ToldInv,
     BurstInv, NicRaising, Delivering, Undecided, RingPlaces
<1>3. CASE Nic!NapiPoll
  BY <1>3 DEF Nic!NapiPoll, Apart, Nic!At, Nic!Goto, Nic!ring, Nic!flow, Nic!owner,
     Nic!NetThreads, Nic!NoLock, NetType, NumType, CountType, CtrlType, FlagType, ToldInv,
     BurstInv, NicRaising, Delivering, Undecided, RingPlaces
<1>4. CASE Nic!TakeIrq
  BY <1>4 DEF Nic!TakeIrq, Apart, Nic!At, Nic!Goto, Nic!ring, Nic!flow, Nic!owner, Nic!NetThreads,
     Nic!NoLock, NetType, NumType, CountType, CtrlType, FlagType, ToldInv, BurstInv, NicRaising,
     Delivering, Undecided, RingPlaces
<1>5. CASE Nic!ResetClear
  BY <1>5 DEF Nic!ResetClear, Apart, Nic!At, Nic!Goto, Nic!ring, Nic!flow, Nic!owner,
     Nic!NetThreads, Nic!NoLock, NetType, NumType, CountType, CtrlType, FlagType, ToldInv,
     BurstInv, NicRaising, Delivering, Undecided, RingPlaces
<1>6. CASE Nic!ResetStore
  BY <1>6 DEF Nic!ResetStore, Apart, Nic!At, Nic!Goto, Nic!ring, Nic!flow, Nic!owner,
     Nic!NetThreads, Nic!NoLock, NetType, NumType, CountType, CtrlType, FlagType, ToldInv,
     BurstInv, NicRaising, Delivering, Undecided, RingPlaces
<1>7. CASE Nic!ResetWake
  BY <1>7 DEF Nic!ResetWake, Nic!WakeBackend, Apart, Nic!At, Nic!Goto, Nic!ring, Nic!flow,
     Nic!owner, Nic!NetThreads, Nic!NoLock, NetType, NumType, CountType, CtrlType, FlagType,
     ToldInv, BurstInv, NicRaising, Delivering, Undecided, RingPlaces
<1>8. CASE Nic!ResetQueue
  BY <1>8 DEF Nic!ResetQueue, Nic!InRing, Apart, Nic!At, Nic!Goto, Nic!ring, Nic!flow, Nic!owner,
     Nic!NetThreads, Nic!NoLock, NetType, NumType, CountType, CtrlType, FlagType, ToldInv,
     BurstInv, NicRaising, Delivering, Undecided, RingPlaces
<1>9. CASE Nic!Enable
  BY <1>9 DEF Nic!Enable, Nic!InRing, Apart, Nic!At, Nic!Goto, Nic!ring, Nic!flow, Nic!owner,
     Nic!NetThreads, Nic!NoLock, NetType, NumType, CountType, CtrlType, FlagType, ToldInv,
     BurstInv, NicRaising, Delivering, Undecided, RingPlaces
<1>10. CASE Nic!PumpWake
  BY <1>10 DEF Nic!PumpWake, Apart, Nic!At, Nic!Goto, Nic!ring, Nic!flow, Nic!owner,
     Nic!NetThreads, Nic!NoLock, NetType, NumType, CountType, CtrlType, FlagType, ToldInv,
     BurstInv, NicRaising, Delivering, Undecided, RingPlaces
<1>11. CASE Nic!EndBurst
  BY <1>11 DEF Nic!EndBurst, Apart, Nic!At, Nic!Goto, Nic!ring, Nic!flow, Nic!owner,
     Nic!NetThreads, Nic!NoLock, NetType, NumType, CountType, CtrlType, FlagType, ToldInv,
     BurstInv, NicRaising, Delivering, Undecided, RingPlaces
<1>12. CASE Nic!AskCongested
  BY <1>12 DEF Nic!AskCongested, Apart, Nic!At, Nic!Goto, Nic!ring, Nic!flow, Nic!owner,
     Nic!NetThreads, Nic!NoLock, NetType, NumType, CountType, CtrlType, FlagType, ToldInv,
     BurstInv, NicRaising, Delivering, Undecided, RingPlaces
<1>13. CASE Nic!ArmWake
  BY <1>13 DEF Nic!ArmWake, Apart, Nic!At, Nic!Goto, Nic!ring, Nic!flow, Nic!owner,
     Nic!NetThreads, Nic!NoLock, NetType, NumType, CountType, CtrlType, FlagType, ToldInv,
     BurstInv, NicRaising, Delivering, Undecided, RingPlaces
<1>14. CASE Nic!Congested
  BY <1>14 DEF Nic!Congested, Apart, Nic!At, Nic!Goto, Nic!ring, Nic!flow, Nic!owner,
     Nic!NetThreads, Nic!NoLock, NetType, NumType, CountType, CtrlType, FlagType, ToldInv,
     BurstInv, NicRaising, Delivering, Undecided, RingPlaces
<1>15. CASE Nic!Resume
  BY <1>15 DEF Nic!Resume, Apart, Nic!At, Nic!Goto, Nic!ring, Nic!flow, Nic!owner, Nic!NetThreads,
     Nic!NoLock, NetType, NumType, CountType, CtrlType, FlagType, ToldInv, BurstInv, NicRaising,
     Delivering, Undecided, RingPlaces
<1>16. ASSUME NEW t \in Nic!NetThreads, NEW n \in Nat \ {0}, NEW notify \in BOOLEAN,
              Nic!InjectFrame(t, n, notify),
             notify <=> t = "pump", UNCHANGED <<paused, woken>>, burst' = (burst \/ t = "owner")
      PROVE  NicIrqInv'
  <2>1. /\ loc' \in [Nic!NetThreads -> Locals] /\ pc' \in [Nic!NetThreads -> NicPlaces] /\ Apart(t)
        /\ loc'[t].frame = n /\ loc'[t].notify = notify /\ loc'[t].drain = FALSE /\ loc'[t].any = FALSE
        /\ loc'[t].cursor = lastAvail /\ loc'[t].got = 0
        /\ Nic!At(t, {"idle"}) /\ lock = Nic!NoLock /\ injects < MaxInjects /\ lock' = t /\ injects' = injects + 1
        /\ pc'[t] = (IF ready /\ backlog = <<>> THEN "pop" ELSE "queue") /\ UNCHANGED <<Nic!ring, kick, irq, Nic!flow, resets>>
    <3> HIDE DEF NetType
    <3> QED  BY <1>16, InjectEffect
  <2>2. /\ pc[t] = "idle" /\ pc'[t] \in {"pop", "queue"} /\ injects' = injects + 1
        /\ UNCHANGED <<asleep, reaped, used, irq, signaled, unsignaled>> /\ (burst => burst')
        /\ (t = "owner" => burst') /\ ~loc'[t].drain
    BY <2>1, <1>16 DEF Nic!At, Nic!ring, Nic!flow
  <2>3. \A u \in Nic!NetThreads \ {t} : pc'[u] = pc[u] /\ loc'[u] = loc[u]
    BY <2>1 DEF Apart
  <2>4. BurstInv'
    <3>1. ~Delivering \/ t # "owner"
      BY <2>2 DEF Delivering, RingPlaces
    <3>2. t # "owner" => Delivering' = Delivering
      BY <2>3 DEF Delivering, Nic!NetThreads
    <3>3. unsignaled \in Nat /\ injects \in Nat
      BY DEF NetType, NumType, CountType
    <3> QED  BY <2>2, <3>1, <3>2, <3>3 DEF BurstInv
  <2>5. Undecided => Undecided'
    <3>1. pc["owner"] \in {"count", "decide", "notify"} => pc'["owner"] = pc["owner"]
      BY <2>2, <2>3 DEF Nic!NetThreads
    <3> QED  BY <2>2, <2>3, <3>1 DEF Undecided, RingPlaces
  <2>6. NicRaising => NicRaising'
    BY <2>2, <2>3 DEF NicRaising
  <2>7. ToldInv'
    BY <2>2, <2>5, <2>6 DEF ToldInv
  <2> QED  BY <2>4, <2>7
<1>17. ASSUME NEW t \in Nic!NetThreads, Nic!Queue(t) PROVE NicIrqInv'
  <2>1. /\ loc' \in [Nic!NetThreads -> Locals] /\ pc' \in [Nic!NetThreads -> NicPlaces] /\ Apart(t) /\ loc'[t].drain = FALSE /\ loc'[t].any = FALSE
        /\ Nic!At(t, {"queue"}) /\ lock' = Nic!NoLock
        /\ IF Len(backlog) < Pool
           THEN backlog' = Append(backlog, loc[t].frame) /\ rxBacklog' = Len(backlog) + 1 /\ pc'[t] = "deliver"
           ELSE UNCHANGED <<backlog, rxBacklog>> /\ pc'[t] = "idle"
        /\ UNCHANGED <<Nic!ring, kick, irq, rxWake, unsignaled, Nic!owner, injects, resets>>
    BY <1>17, QueueEffect
  <2> QED  BY ZenonT(60), <2>1 DEF Apart, Nic!At, Nic!Goto, Nic!ring, Nic!flow, Nic!owner, Nic!NetThreads,
              Nic!NoLock, NetType, NumType, CountType, CtrlType, FlagType, ToldInv, BurstInv,
              NicRaising, Delivering, Undecided, RingPlaces
<1>18. ASSUME NEW t \in Nic!NetThreads, Nic!DeliverRx(t) PROVE NicIrqInv'
  <2>1. /\ loc' \in [Nic!NetThreads -> Locals] /\ pc' \in [Nic!NetThreads -> NicPlaces] /\ Apart(t) /\ loc'[t].drain = TRUE /\ loc'[t].any = FALSE
        /\ ready /\ backlog # <<>> =>
             loc'[t].frame = Head(backlog) /\ loc'[t].cursor = lastAvail /\ loc'[t].got = 0
        /\ Nic!At(t, {"deliver"}) /\ lock = Nic!NoLock /\ lock' = t
        /\ pc'[t] = (IF ready /\ backlog # <<>> THEN "pop" ELSE "left")
        /\ UNCHANGED <<Nic!ring, kick, irq, Nic!flow, Nic!owner, injects, resets>>
    BY <1>18, DeliverRxEffect
  <2> QED  BY ZenonT(60), <2>1 DEF Apart, Nic!At, Nic!Goto, Nic!ring, Nic!flow, Nic!owner, Nic!NetThreads,
              Nic!NoLock, NetType, NumType, CountType, CtrlType, FlagType, ToldInv, BurstInv,
              NicRaising, Delivering, Undecided, RingPlaces
<1>19. ASSUME NEW t \in Nic!NetThreads, Nic!Pop(t) PROVE NicIrqInv'
  <2>1. /\ loc' \in [Nic!NetThreads -> Locals] /\ pc' \in [Nic!NetThreads -> NicPlaces] /\ Apart(t)
        /\ loc'[t].frame = loc[t].frame /\ loc'[t].notify = loc[t].notify /\ loc'[t].drain = loc[t].drain
        /\ loc'[t].any = loc[t].any /\ loc'[t].cursor = loc[t].cursor
        /\ loc'[t].got = loc[t].got + (IF lastAvail < avail THEN 1 ELSE 0)
        /\ Nic!At(t, {"pop"})
        /\ IF lastAvail < avail
           THEN /\ lastAvail' = lastAvail + 1 /\ availEvent' = lastAvail + 1
                /\ pc'[t] = (IF loc[t].got + 1 = loc[t].frame THEN "publish" ELSE "pop")
           ELSE pc'[t] = "arm" /\ UNCHANGED <<lastAvail, availEvent>>
        /\ UNCHANGED <<avail, reaped, asleep, due, driver, used, ready, signaled, kick, irq, lock, Nic!flow, Nic!owner,
                       injects, resets>>
    BY <1>19, PopEffect
  <2> QED  BY <2>1 DEF Apart, Nic!At, Nic!Goto, Nic!ring, Nic!flow, Nic!owner, Nic!NetThreads,
              Nic!NoLock, NetType, NumType, CountType, CtrlType, FlagType, ToldInv, BurstInv,
              NicRaising, Delivering, Undecided, RingPlaces
<1>20. ASSUME NEW t \in Nic!NetThreads, Nic!Arm(t) PROVE NicIrqInv'
  BY <1>20 DEF Nic!Arm, Apart, Nic!At, Nic!Goto, Nic!ring, Nic!flow, Nic!owner, Nic!NetThreads,
     Nic!NoLock, NetType, NumType, CountType, CtrlType, FlagType, ToldInv, BurstInv, NicRaising,
     Delivering, Undecided, RingPlaces
<1>21. ASSUME NEW t \in Nic!NetThreads, Nic!Recheck(t) PROVE NicIrqInv'
  BY <1>21 DEF Nic!Recheck, Nic!Fail, Apart, Nic!At, Nic!Goto, Nic!ring, Nic!flow, Nic!owner,
     Nic!NetThreads, Nic!NoLock, NetType, NumType, CountType, CtrlType, FlagType, ToldInv,
     BurstInv, NicRaising, Delivering, Undecided, RingPlaces
<1>22. ASSUME NEW t \in Nic!NetThreads, Nic!Rewind(t) PROVE NicIrqInv'
  <2>1. /\ loc' \in [Nic!NetThreads -> Locals] /\ pc' \in [Nic!NetThreads -> NicPlaces] /\ Apart(t)
        /\ loc'[t].frame = loc[t].frame /\ loc'[t].notify = loc[t].notify /\ loc'[t].drain = loc[t].drain
        /\ loc'[t].any = loc[t].any /\ loc'[t].cursor = loc[t].cursor /\ loc'[t].got = 0
        /\ Nic!At(t, {"rewind"}) /\ lastAvail' = loc[t].cursor
        /\ \/ avail # lastAvail /\ pc'[t] = "pop"
           \/ pc'[t] = (IF loc[t].drain THEN "left" ELSE "queue")
        /\ UNCHANGED <<avail, reaped, asleep, due, driver, availEvent, used, ready, signaled, kick, irq, lock, Nic!flow,
                       Nic!owner, injects, resets>>
    BY <1>22, RewindEffect
  <2> QED  BY <2>1 DEF Nic!Fail, Apart, Nic!At, Nic!Goto, Nic!ring, Nic!flow, Nic!owner,
              Nic!NetThreads, Nic!NoLock, NetType, NumType, CountType, CtrlType, FlagType,
              ToldInv, BurstInv, NicRaising, Delivering, Undecided, RingPlaces
<1>23. ASSUME NEW t \in Nic!NetThreads, Nic!Publish(t) PROVE NicIrqInv'
  <2>1. /\ loc' \in [Nic!NetThreads -> Locals] /\ pc' \in [Nic!NetThreads -> NicPlaces] /\ Apart(t)
        /\ ~loc[t].drain => loc'[t].drain = FALSE /\ loc'[t].any = FALSE
        /\ loc[t].drain => loc'[t].drain = TRUE /\ loc'[t].any = TRUE
        /\ loc[t].drain /\ backlog # <<>> /\ Tail(backlog) # <<>> =>
             loc'[t].frame = Head(Tail(backlog)) /\ loc'[t].cursor = lastAvail /\ loc'[t].got = 0
        /\ Nic!At(t, {"publish"}) /\ used' = used + loc[t].got
        /\ IF loc[t].drain
           THEN /\ backlog' = Tail(backlog) /\ pc'[t] = (IF Tail(backlog) = <<>> THEN "left" ELSE "pop")
                /\ UNCHANGED <<signaled, lock>>
           ELSE /\ lock' = Nic!NoLock /\ UNCHANGED backlog
                /\ IF loc[t].notify
                   THEN signaled' = used' /\ pc'[t] = (IF Nic!Decide(used') THEN "raise" ELSE "idle")
                   ELSE pc'[t] = "count" /\ UNCHANGED signaled
        /\ UNCHANGED <<avail, reaped, asleep, due, driver, availEvent, ready, lastAvail, kick, irq, rxBacklog,
                       rxWake, unsignaled, Nic!owner, injects, resets>>
    BY <1>23, PublishEffect
  <2>2. /\ pc[t] = "publish" /\ loc[t].got >= 1 /\ UNCHANGED <<asleep, reaped, irq, unsignaled, burst, injects>>
        /\ used' = used + loc[t].got /\ (~loc[t].drain => loc[t].notify \/ t = "owner")
    BY <2>1 DEF Nic!At, Nic!owner, HandInv, GotInv, PlaceInv, RingPlaces, Nic!NetThreads
  <2>3. /\ reaped \in Nat /\ used \in Nat /\ signaled \in Nat /\ reaped <= used /\ signaled <= used
        /\ used < used' /\ used' \in Nat
    BY <2>2 DEF NetType, NumType, CountType
  <2>4. \A u \in Nic!NetThreads \ {t} : pc'[u] = pc[u] /\ loc'[u] = loc[u]
    BY <2>1 DEF Apart
  <2>5. \/ /\ loc[t].drain /\ loc'[t].drain /\ loc'[t].any /\ pc'[t] \in {"left", "pop"} /\ signaled' = signaled
        \/ /\ ~loc[t].drain /\ pc'[t] = "raise"
        \/ ~loc[t].drain /\ pc'[t] = "idle" /\ ~Nic!Decide(used')
        \/ ~loc[t].drain /\ t = "owner" /\ pc'[t] = "count" /\ ~loc'[t].drain /\ signaled' = signaled
    BY <2>1, <2>2
  <2>6. BurstInv'
    <3>1. Delivering' => Delivering
      BY <2>2, <2>4, <2>5 DEF Delivering, RingPlaces, Nic!NetThreads
    <3>2. unsignaled \in Nat /\ injects \in Nat
      BY DEF NetType, NumType, CountType
    <3> QED  BY <2>2, <3>1, <3>2 DEF BurstInv
  <2>7. NicRaising => NicRaising'
    BY <2>2, <2>4 DEF NicRaising
  <2>8. asleep => irq \/ NicRaising \/ signaled <= reaped
    BY <2>3 DEF ToldInv
  <2>9. loc'[t].drain /\ loc'[t].any /\ pc'[t] \in {"left", "pop"} => Undecided'
    BY DEF Undecided, RingPlaces
  <2>10. t = "owner" /\ pc'[t] = "count" => Undecided'
    BY DEF Undecided
  <2>11. pc'[t] = "raise" => NicRaising'
    BY DEF NicRaising
  <2>12. asleep /\ ~Nic!Decide(used') /\ reaped < used' => ~(signaled <= reaped)
    BY DEF Nic!Decide
  <2>13. ToldInv'
    BY <2>2, <2>5, <2>7, <2>8, <2>9, <2>10, <2>11, <2>12 DEF ToldInv
  <2> QED  BY <2>6, <2>13
<1>24. ASSUME NEW t \in Nic!NetThreads, Nic!Left(t) PROVE NicIrqInv'
  <2>1. /\ loc' \in [Nic!NetThreads -> Locals] /\ pc' \in [Nic!NetThreads -> NicPlaces] /\ Apart(t)
        /\ loc'[t].drain = loc[t].drain /\ loc'[t].any = loc[t].any /\ loc'[t].left = Len(backlog)
        /\ Nic!At(t, {"left"}) /\ lock' = Nic!NoLock /\ rxBacklog' = Len(backlog)
        /\ IF loc[t].any /\ ready
           THEN signaled' = used /\ pc'[t] = (IF Nic!Decide(used) THEN "raise" ELSE "wake")
           ELSE UNCHANGED signaled /\ pc'[t] = "wake"
        /\ UNCHANGED <<avail, reaped, asleep, due, driver, availEvent, used, ready, lastAvail, kick, irq, backlog,
                       rxWake, unsignaled, Nic!owner, injects, resets>>
    BY <1>24, LeftEffect
  <2>2. /\ pc[t] = "left" /\ loc[t].drain /\ loc'[t].drain
        /\ UNCHANGED <<asleep, reaped, used, irq, unsignaled, burst, injects>> /\ pc'[t] \in {"raise", "wake"}
    BY <2>1 DEF Nic!At, Nic!owner, HandInv, PlaceInv
  <2>3. \A u \in Nic!NetThreads \ {t} : pc'[u] = pc[u] /\ loc'[u] = loc[u]
    BY <2>1 DEF Apart
  <2>4. \/ pc'[t] = "raise"
        \/ loc[t].any /\ ready /\ ~Nic!Decide(used)
        \/ (~loc[t].any \/ ~ready) /\ signaled' = signaled
    BY <2>1
  <2>5. BurstInv'
    <3>1. Delivering' => Delivering
      BY <2>2, <2>3 DEF Delivering, Nic!NetThreads
    <3>2. unsignaled \in Nat /\ injects \in Nat
      BY DEF NetType, NumType, CountType
    <3> QED  BY <2>2, <3>1, <3>2 DEF BurstInv
  <2>6. NicRaising => NicRaising'
    BY <2>2, <2>3 DEF NicRaising
  <2>7. Undecided /\ ~loc[t].any => Undecided'
    <3>1. pc["owner"] \in {"count", "decide", "notify"} => pc'["owner"] = pc["owner"]
      BY <2>2, <2>3 DEF Nic!NetThreads
    <3> QED  BY <2>2, <2>3, <3>1 DEF Undecided
  <2>8. asleep => ready
    BY DEF DownInv
  <2>9. pc'[t] = "raise" => NicRaising'
    BY DEF NicRaising
  <2>10. asleep /\ ~Nic!Decide(used) /\ reaped < used => ~(signaled <= reaped)
    BY DEF Nic!Decide
  <2>11. ToldInv'
    BY <2>2, <2>4, <2>6, <2>7, <2>8, <2>9, <2>10 DEF ToldInv
  <2> QED  BY <2>5, <2>11
<1>25. ASSUME NEW t \in Nic!NetThreads, Nic!Raise(t) PROVE NicIrqInv'
  BY <1>25 DEF Nic!Raise, Apart, Nic!At, Nic!Goto, Nic!ring, Nic!flow, Nic!owner, Nic!NetThreads,
     Nic!NoLock, NetType, NumType, CountType, CtrlType, FlagType, ToldInv, BurstInv, NicRaising,
     Delivering, Undecided, RingPlaces
<1>26. ASSUME NEW t \in Nic!NetThreads, Nic!Wake(t) PROVE NicIrqInv'
  <2>1. /\ loc' \in [Nic!NetThreads -> Locals] /\ pc' \in [Nic!NetThreads -> NicPlaces] /\ Apart(t) /\ loc'[t].drain = FALSE /\ loc'[t].any = FALSE
        /\ Nic!At(t, {"wake"}) /\ Nic!WakeBackend(loc[t].left) /\ pc'[t] = "idle"
        /\ UNCHANGED <<Nic!ring, kick, irq, lock, backlog, rxBacklog, unsignaled, paused, burst, injects, resets>>
    BY <1>26, WakeEffect
  <2> QED  BY <2>1 DEF Nic!WakeBackend, Apart, Nic!At, Nic!Goto, Nic!ring, Nic!flow, Nic!owner,
              Nic!NetThreads, Nic!NoLock, NetType, NumType, CountType, CtrlType, FlagType,
              ToldInv, BurstInv, NicRaising, Delivering, Undecided, RingPlaces
<1>27. ASSUME NEW t \in Nic!NetThreads, Nic!Count(t) PROVE NicIrqInv'
  <2>1. t = "owner" /\ pc["owner"] = "count" /\ ~loc["owner"].drain
    BY <1>27 DEF Nic!Count, Nic!At, Nic!NetThreads, HandInv, PlaceInv
  <2>2. /\ unsignaled' = unsignaled + 1 /\ UNCHANGED <<asleep, reaped, used, irq, signaled, burst, loc, injects>>
        /\ \/ pc' = [pc EXCEPT !["owner"] = "notify"] \/ pc' = [pc EXCEPT !["owner"] = "idle"]
    BY <1>27, <2>1 DEF Nic!Count, Nic!Goto, Nic!ring, Nic!owner
  <2>3. /\ pc'["owner"] \in {"notify", "idle"} /\ unsignaled \in Nat /\ injects \in Nat
        /\ \A u \in Nic!NetThreads \ {"owner"} : pc'[u] = pc[u]
    BY <2>2 DEF NetType, NumType, CtrlType, CountType, Nic!NetThreads
  <2>4. Delivering /\ ~Delivering'
    BY <2>1, <2>3 DEF Delivering, RingPlaces
  <2>5. BurstInv' /\ burst
    BY <2>2, <2>3, <2>4 DEF BurstInv
  <2>6. Undecided'
    BY <2>2, <2>3, <2>5 DEF Undecided
  <2>7. NicRaising => NicRaising'
    BY <2>1, <2>3 DEF NicRaising
  <2>8. ToldInv'
    BY <2>2, <2>6, <2>7 DEF ToldInv
  <2> QED  BY <2>5, <2>8
<1>28. ASSUME NEW t \in Nic!NetThreads, Nic!NotifyRx(t) PROVE NicIrqInv'
  <2>1. t = "owner" /\ pc["owner"] = "notify" /\ ~loc["owner"].drain
    BY <1>28 DEF Nic!NotifyRx, Nic!At, Nic!NetThreads, HandInv, PlaceInv
  <2>2. /\ unsignaled' = 0 /\ UNCHANGED <<asleep, reaped, used, irq, signaled, burst, loc, injects>>
        /\ pc' = [pc EXCEPT !["owner"] = IF unsignaled = 0 THEN "idle" ELSE "decide"]
    BY <1>28, <2>1 DEF Nic!NotifyRx, Nic!Goto, Nic!ring, Nic!owner
  <2>3. /\ pc'["owner"] = (IF unsignaled = 0 THEN "idle" ELSE "decide") /\ unsignaled \in Nat /\ injects \in Nat
        /\ \A u \in Nic!NetThreads \ {"owner"} : pc'[u] = pc[u]
    BY <2>2 DEF NetType, NumType, CtrlType, CountType, Nic!NetThreads
  <2>4. ~Delivering'
    BY <2>3 DEF Delivering, RingPlaces
  <2>5. BurstInv'
    BY <2>2, <2>3, <2>4 DEF BurstInv
  <2>6. Undecided => Undecided'
    BY <2>1, <2>2, <2>3 DEF Undecided, RingPlaces
  <2>7. NicRaising => NicRaising'
    BY <2>1, <2>3 DEF NicRaising
  <2>8. ToldInv'
    BY <2>2, <2>6, <2>7 DEF ToldInv
  <2> QED  BY <2>5, <2>8
<1>29. ASSUME NEW t \in Nic!NetThreads, Nic!NotifyDecide(t) PROVE NicIrqInv'
  <2>1. t = "owner" /\ pc["owner"] = "decide" /\ ~loc["owner"].drain
    BY <1>29 DEF Nic!NotifyDecide, Nic!At, Nic!NetThreads, HandInv, PlaceInv
  <2>2. /\ UNCHANGED <<asleep, reaped, used, irq, unsignaled, burst, loc, injects>>
        /\ pc' = [pc EXCEPT !["owner"] = IF ready /\ Nic!Decide(used) THEN "raise" ELSE "idle"]
    BY <1>29, <2>1 DEF Nic!NotifyDecide, Nic!Goto, Nic!flow, Nic!owner
  <2>3. /\ pc'["owner"] = (IF ready /\ Nic!Decide(used) THEN "raise" ELSE "idle")
        /\ \A u \in Nic!NetThreads \ {"owner"} : pc'[u] = pc[u]
    BY <2>2 DEF NetType, NumType, CtrlType, Nic!NetThreads
  <2>4. ~Delivering'
    BY <2>3 DEF Delivering, RingPlaces
  <2>5. BurstInv'
    BY <2>2, <2>4 DEF BurstInv, NetType, NumType, CountType
  <2>6. asleep /\ reaped < used /\ signaled <= reaped => NicRaising'
    BY <2>3 DEF NicRaising, Nic!Decide, DownInv, Nic!NetThreads
  <2>7. NicRaising => NicRaising'
    BY <2>1, <2>3 DEF NicRaising
  <2>8. ToldInv'
    BY <2>2, <2>6, <2>7 DEF ToldInv
  <2> QED  BY <2>5, <2>8
<1>30. CASE UNCHANGED Nic!vars
  BY <1>30 DEF Nic!vars, Apart, Nic!At, Nic!Goto, Nic!ring, Nic!flow, Nic!owner, Nic!NetThreads,
     Nic!NoLock, NetType, NumType, CountType, CtrlType, FlagType, ToldInv, BurstInv, NicRaising,
     Delivering, Undecided, RingPlaces
<1>31. ASSUME NEW n \in 1 .. MaxFrame, Nic!Inject(n) PROVE NicIrqInv'
  BY <1>31, <1>16, InjectIsOwners DEF NetType
<1>32. ASSUME Nic!Loopback(1) PROVE NicIrqInv'
  BY <1>32, <1>16, LoopbackIsPumps DEF NetType
<1> QED
  BY <1>1, <1>2, <1>3, <1>4, <1>5, <1>6, <1>7, <1>8, <1>9, <1>10, <1>11, <1>12, <1>13, <1>14,
     <1>15, <1>17, <1>18, <1>19, <1>20, <1>21, <1>22, <1>23, <1>24, <1>25, <1>26, <1>27, <1>28,
     <1>29, <1>30, <1>31, <1>32
  DEF Nic!Next, Nic!Driver, Nic!Reset, Nic!Owner, Nic!ThreadStep, Nic!DeliverFrame

\* A backend that was told to stop is told to go on.
LEMMA PauseStep ==
  ASSUME Nic!NetAssumption, NetType, NicLockInv, DownInv, HandInv, PauseInv, [Nic!Next]_(Nic!vars)
  PROVE  PauseInv'
<1>0. \A t \in Nic!NetThreads : Fields(loc[t])
  BY FieldsOk DEF NetType
<1> USE NicSizes, <1>0 DEF Fields, PauseInv
<1>1. CASE Nic!Refill
  BY <1>1 DEF Nic!Refill, Apart, Nic!At, Nic!Goto, Nic!ring, Nic!flow, Nic!owner, Nic!NetThreads,
     Nic!NoLock, NetType, NumType, CountType, SeqType, CtrlType, FlagType, AskInv, DepthInv,
     PausedInv, Leaving, Draining, RingPlaces
<1>2. CASE Nic!KickPrepare
  BY <1>2 DEF Nic!KickPrepare, Apart, Nic!At, Nic!Goto, Nic!ring, Nic!flow, Nic!owner,
     Nic!NetThreads, Nic!NoLock, NetType, NumType, CountType, SeqType, CtrlType, FlagType, AskInv,
     DepthInv, PausedInv, Leaving, Draining, RingPlaces
<1>3. CASE Nic!NapiPoll
  BY <1>3 DEF Nic!NapiPoll, Apart, Nic!At, Nic!Goto, Nic!ring, Nic!flow, Nic!owner,
     Nic!NetThreads, Nic!NoLock, NetType, NumType, CountType, SeqType, CtrlType, FlagType, AskInv,
     DepthInv, PausedInv, Leaving, Draining, RingPlaces
<1>4. CASE Nic!TakeIrq
  BY <1>4 DEF Nic!TakeIrq, Apart, Nic!At, Nic!Goto, Nic!ring, Nic!flow, Nic!owner, Nic!NetThreads,
     Nic!NoLock, NetType, NumType, CountType, SeqType, CtrlType, FlagType, AskInv, DepthInv,
     PausedInv, Leaving, Draining, RingPlaces
<1>5. CASE Nic!ResetClear
  BY <1>5 DEF Nic!ResetClear, Apart, Nic!At, Nic!Goto, Nic!ring, Nic!flow, Nic!owner,
     Nic!NetThreads, Nic!NoLock, NetType, NumType, CountType, SeqType, CtrlType, FlagType, AskInv,
     DepthInv, PausedInv, Leaving, Draining, RingPlaces
<1>6. CASE Nic!ResetStore
  BY <1>6 DEF Nic!ResetStore, Apart, Nic!At, Nic!Goto, Nic!ring, Nic!flow, Nic!owner,
     Nic!NetThreads, Nic!NoLock, NetType, NumType, CountType, SeqType, CtrlType, FlagType, AskInv,
     DepthInv, PausedInv, Leaving, Draining, RingPlaces
<1>7. CASE Nic!ResetWake
  BY <1>7 DEF Nic!ResetWake, Nic!WakeBackend, Apart, Nic!At, Nic!Goto, Nic!ring, Nic!flow,
     Nic!owner, Nic!NetThreads, Nic!NoLock, NetType, NumType, CountType, SeqType, CtrlType,
     FlagType, AskInv, DepthInv, PausedInv, Leaving, Draining, RingPlaces
<1>8. CASE Nic!ResetQueue
  BY <1>8 DEF Nic!ResetQueue, Nic!InRing, Apart, Nic!At, Nic!Goto, Nic!ring, Nic!flow, Nic!owner,
     Nic!NetThreads, Nic!NoLock, NetType, NumType, CountType, SeqType, CtrlType, FlagType, AskInv,
     DepthInv, PausedInv, Leaving, Draining, RingPlaces
<1>9. CASE Nic!Enable
  BY <1>9 DEF Nic!Enable, Nic!InRing, Apart, Nic!At, Nic!Goto, Nic!ring, Nic!flow, Nic!owner,
     Nic!NetThreads, Nic!NoLock, NetType, NumType, CountType, SeqType, CtrlType, FlagType, AskInv,
     DepthInv, PausedInv, Leaving, Draining, RingPlaces
<1>10. CASE Nic!PumpWake
  BY <1>10 DEF Nic!PumpWake, Apart, Nic!At, Nic!Goto, Nic!ring, Nic!flow, Nic!owner,
     Nic!NetThreads, Nic!NoLock, NetType, NumType, CountType, SeqType, CtrlType, FlagType, AskInv,
     DepthInv, PausedInv, Leaving, Draining, RingPlaces
<1>11. CASE Nic!EndBurst
  BY <1>11 DEF Nic!EndBurst, Apart, Nic!At, Nic!Goto, Nic!ring, Nic!flow, Nic!owner,
     Nic!NetThreads, Nic!NoLock, NetType, NumType, CountType, SeqType, CtrlType, FlagType, AskInv,
     DepthInv, PausedInv, Leaving, Draining, RingPlaces
<1>12. CASE Nic!AskCongested
  BY <1>12 DEF Nic!AskCongested, Apart, Nic!At, Nic!Goto, Nic!ring, Nic!flow, Nic!owner,
     Nic!NetThreads, Nic!NoLock, NetType, NumType, CountType, SeqType, CtrlType, FlagType, AskInv,
     DepthInv, PausedInv, Leaving, Draining, RingPlaces
<1>13. CASE Nic!ArmWake
  BY <1>13 DEF Nic!ArmWake, Apart, Nic!At, Nic!Goto, Nic!ring, Nic!flow, Nic!owner,
     Nic!NetThreads, Nic!NoLock, NetType, NumType, CountType, SeqType, CtrlType, FlagType, AskInv,
     DepthInv, PausedInv, Leaving, Draining, RingPlaces
<1>14. CASE Nic!Congested
  <2>1. /\ pc["owner"] = "armed" /\ pc' = [pc EXCEPT !["owner"] = "idle"] /\ (paused' <=> rxBacklog >= High)
        /\ UNCHANGED <<woken, rxWake, backlog, rxBacklog, driver, loc>>
    BY <1>14 DEF Nic!Congested, Nic!At, Nic!Goto, Nic!ring, Nic!flow
  <2>2. AskInv'
    BY <2>1 DEF AskInv
  <2>3. loc["owner"].drain = FALSE
    BY <2>1 DEF HandInv, PlaceInv, Nic!NetThreads, NetType, NumType, CtrlType, Locals
  <2>4. pc'["owner"] = "idle" /\ \A u \in Nic!NetThreads \ {"owner"} : pc'[u] = pc[u]
    BY <2>1 DEF NetType, NumType, CtrlType, Nic!NetThreads
  <2>5. Draining => Draining'
    BY <2>1, <2>3, <2>4 DEF Draining
  <2>6. DepthInv'
    BY <2>1, <2>5 DEF DepthInv
  <2>7. rxBacklog >= High /\ rxBacklog <= Len(backlog) => Len(backlog) > Low
    BY DEF NetType, NumType, SeqType
  <2>8. PausedInv'
    BY <2>1, <2>5, <2>7 DEF PausedInv, DepthInv
  <2> QED  BY <2>2, <2>6, <2>8
<1>15. CASE Nic!Resume
  BY <1>15 DEF Nic!Resume, Apart, Nic!At, Nic!Goto, Nic!ring, Nic!flow, Nic!owner, Nic!NetThreads,
     Nic!NoLock, NetType, NumType, CountType, SeqType, CtrlType, FlagType, AskInv, DepthInv,
     PausedInv, Leaving, Draining, RingPlaces
<1>16. ASSUME NEW t \in Nic!NetThreads, NEW n \in Nat \ {0}, NEW notify \in BOOLEAN,
              Nic!InjectFrame(t, n, notify),
             notify <=> t = "pump", UNCHANGED <<paused, woken>>, burst' = (burst \/ t = "owner")
      PROVE  PauseInv'
  <2>1. /\ loc' \in [Nic!NetThreads -> Locals] /\ pc' \in [Nic!NetThreads -> NicPlaces] /\ Apart(t)
        /\ loc'[t].frame = n /\ loc'[t].notify = notify /\ loc'[t].drain = FALSE /\ loc'[t].any = FALSE
        /\ loc'[t].cursor = lastAvail /\ loc'[t].got = 0
        /\ Nic!At(t, {"idle"}) /\ lock = Nic!NoLock /\ injects < MaxInjects /\ lock' = t /\ injects' = injects + 1
        /\ pc'[t] = (IF ready /\ backlog = <<>> THEN "pop" ELSE "queue") /\ UNCHANGED <<Nic!ring, kick, irq, Nic!flow, resets>>
    <3> HIDE DEF NetType
    <3> QED  BY <1>16, InjectEffect
  <2> QED  BY ZenonT(60), <2>1, <1>16 DEF Apart, Nic!At, Nic!Goto, Nic!ring, Nic!flow, Nic!owner,
              Nic!NetThreads, Nic!NoLock, NetType, NumType, CountType, SeqType, CtrlType,
              FlagType, AskInv, DepthInv, PausedInv, Leaving, Draining, RingPlaces
<1>17. ASSUME NEW t \in Nic!NetThreads, Nic!Queue(t) PROVE PauseInv'
  <2>1. /\ loc' \in [Nic!NetThreads -> Locals] /\ pc' \in [Nic!NetThreads -> NicPlaces] /\ Apart(t) /\ loc'[t].drain = FALSE /\ loc'[t].any = FALSE
        /\ Nic!At(t, {"queue"}) /\ lock' = Nic!NoLock
        /\ IF Len(backlog) < Pool
           THEN backlog' = Append(backlog, loc[t].frame) /\ rxBacklog' = Len(backlog) + 1 /\ pc'[t] = "deliver"
           ELSE UNCHANGED <<backlog, rxBacklog>> /\ pc'[t] = "idle"
        /\ UNCHANGED <<Nic!ring, kick, irq, rxWake, unsignaled, Nic!owner, injects, resets>>
    BY <1>17, QueueEffect
  <2>2. /\ pc[t] = "queue" /\ ~loc[t].drain /\ UNCHANGED <<paused, woken, rxWake, driver>>
        /\ pc'[t] \in {"deliver", "idle"}
    BY <2>1 DEF Nic!At, Nic!ring, Nic!owner, HandInv, PlaceInv
  <2>3. \A u \in Nic!NetThreads \ {t} : pc'[u] = pc[u] /\ loc'[u] = loc[u]
    BY <2>1 DEF Apart
  <2>4. /\ Len(backlog) \in Nat /\ Len(backlog) <= Len(backlog')
        /\ \/ rxBacklog' = Len(backlog') /\ rxBacklog' \in Nat
           \/ UNCHANGED <<backlog, rxBacklog>>
    <3>1. loc[t].frame \in Nat \ {0}
      BY <2>2 DEF HandInv, GotInv
    <3>2. Len(backlog) \in Nat /\ Len(Append(backlog, loc[t].frame)) = Len(backlog) + 1
      BY <3>1 DEF NetType, NumType, SeqType
    <3> QED  BY SMTT(60), <2>1, <3>2
  <2>5. AskInv'
    BY <2>2, <2>3 DEF AskInv, Nic!NetThreads
  <2>6. (Draining => Draining') /\ (Leaving => Leaving')
    BY <2>2, <2>3 DEF Draining, Leaving
  <2>7. DepthInv'
    BY <2>2, <2>4, <2>6 DEF DepthInv
  <2>8. Len(backlog) > Low => Len(backlog') > Low
    BY <2>4
  <2>9. PausedInv'
    BY <2>2, <2>6, <2>8 DEF PausedInv
  <2> QED  BY <2>5, <2>7, <2>9
<1>18. ASSUME NEW t \in Nic!NetThreads, Nic!DeliverRx(t) PROVE PauseInv'
  <2>1. /\ loc' \in [Nic!NetThreads -> Locals] /\ pc' \in [Nic!NetThreads -> NicPlaces] /\ Apart(t) /\ loc'[t].drain = TRUE /\ loc'[t].any = FALSE
        /\ ready /\ backlog # <<>> =>
             loc'[t].frame = Head(backlog) /\ loc'[t].cursor = lastAvail /\ loc'[t].got = 0
        /\ Nic!At(t, {"deliver"}) /\ lock = Nic!NoLock /\ lock' = t
        /\ pc'[t] = (IF ready /\ backlog # <<>> THEN "pop" ELSE "left")
        /\ UNCHANGED <<Nic!ring, kick, irq, Nic!flow, Nic!owner, injects, resets>>
    BY <1>18, DeliverRxEffect
  <2> QED  BY <2>1 DEF Apart, Nic!At, Nic!Goto, Nic!ring, Nic!flow, Nic!owner, Nic!NetThreads,
              Nic!NoLock, NetType, NumType, CountType, SeqType, CtrlType, FlagType, AskInv,
              DepthInv, PausedInv, Leaving, Draining, RingPlaces
<1>19. ASSUME NEW t \in Nic!NetThreads, Nic!Pop(t) PROVE PauseInv'
  <2>1. /\ loc' \in [Nic!NetThreads -> Locals] /\ pc' \in [Nic!NetThreads -> NicPlaces] /\ Apart(t)
        /\ loc'[t].frame = loc[t].frame /\ loc'[t].notify = loc[t].notify /\ loc'[t].drain = loc[t].drain
        /\ loc'[t].any = loc[t].any /\ loc'[t].cursor = loc[t].cursor
        /\ loc'[t].got = loc[t].got + (IF lastAvail < avail THEN 1 ELSE 0)
        /\ Nic!At(t, {"pop"})
        /\ IF lastAvail < avail
           THEN /\ lastAvail' = lastAvail + 1 /\ availEvent' = lastAvail + 1
                /\ pc'[t] = (IF loc[t].got + 1 = loc[t].frame THEN "publish" ELSE "pop")
           ELSE pc'[t] = "arm" /\ UNCHANGED <<lastAvail, availEvent>>
        /\ UNCHANGED <<avail, reaped, asleep, due, driver, used, ready, signaled, kick, irq, lock, Nic!flow, Nic!owner,
                       injects, resets>>
    BY <1>19, PopEffect
  <2> QED  BY ZenonT(60), <2>1 DEF Apart, Nic!At, Nic!Goto, Nic!ring, Nic!flow, Nic!owner, Nic!NetThreads,
              Nic!NoLock, NetType, NumType, CountType, SeqType, CtrlType, FlagType, AskInv,
              DepthInv, PausedInv, Leaving, Draining, RingPlaces
<1>20. ASSUME NEW t \in Nic!NetThreads, Nic!Arm(t) PROVE PauseInv'
  BY <1>20 DEF Nic!Arm, Apart, Nic!At, Nic!Goto, Nic!ring, Nic!flow, Nic!owner, Nic!NetThreads,
     Nic!NoLock, NetType, NumType, CountType, SeqType, CtrlType, FlagType, AskInv, DepthInv,
     PausedInv, Leaving, Draining, RingPlaces
<1>21. ASSUME NEW t \in Nic!NetThreads, Nic!Recheck(t) PROVE PauseInv'
  BY ZenonT(60), <1>21 DEF Nic!Recheck, Nic!Fail, Apart, Nic!At, Nic!Goto, Nic!ring, Nic!flow, Nic!owner,
     Nic!NetThreads, Nic!NoLock, NetType, NumType, CountType, SeqType, CtrlType, FlagType, AskInv,
     DepthInv, PausedInv, Leaving, Draining, RingPlaces
<1>22. ASSUME NEW t \in Nic!NetThreads, Nic!Rewind(t) PROVE PauseInv'
  <2>1. /\ loc' \in [Nic!NetThreads -> Locals] /\ pc' \in [Nic!NetThreads -> NicPlaces] /\ Apart(t)
        /\ loc'[t].frame = loc[t].frame /\ loc'[t].notify = loc[t].notify /\ loc'[t].drain = loc[t].drain
        /\ loc'[t].any = loc[t].any /\ loc'[t].cursor = loc[t].cursor /\ loc'[t].got = 0
        /\ Nic!At(t, {"rewind"}) /\ lastAvail' = loc[t].cursor
        /\ \/ avail # lastAvail /\ pc'[t] = "pop"
           \/ pc'[t] = (IF loc[t].drain THEN "left" ELSE "queue")
        /\ UNCHANGED <<avail, reaped, asleep, due, driver, availEvent, used, ready, signaled, kick, irq, lock, Nic!flow,
                       Nic!owner, injects, resets>>
    BY <1>22, RewindEffect
  <2> QED  BY ZenonT(60), <2>1 DEF Nic!Fail, Apart, Nic!At, Nic!Goto, Nic!ring, Nic!flow, Nic!owner,
              Nic!NetThreads, Nic!NoLock, NetType, NumType, CountType, SeqType, CtrlType,
              FlagType, AskInv, DepthInv, PausedInv, Leaving, Draining, RingPlaces
<1>23. ASSUME NEW t \in Nic!NetThreads, Nic!Publish(t) PROVE PauseInv'
  <2>1. /\ loc' \in [Nic!NetThreads -> Locals] /\ pc' \in [Nic!NetThreads -> NicPlaces] /\ Apart(t)
        /\ ~loc[t].drain => loc'[t].drain = FALSE /\ loc'[t].any = FALSE
        /\ loc[t].drain => loc'[t].drain = TRUE /\ loc'[t].any = TRUE
        /\ loc[t].drain /\ backlog # <<>> /\ Tail(backlog) # <<>> =>
             loc'[t].frame = Head(Tail(backlog)) /\ loc'[t].cursor = lastAvail /\ loc'[t].got = 0
        /\ Nic!At(t, {"publish"}) /\ used' = used + loc[t].got
        /\ IF loc[t].drain
           THEN /\ backlog' = Tail(backlog) /\ pc'[t] = (IF Tail(backlog) = <<>> THEN "left" ELSE "pop")
                /\ UNCHANGED <<signaled, lock>>
           ELSE /\ lock' = Nic!NoLock /\ UNCHANGED backlog
                /\ IF loc[t].notify
                   THEN signaled' = used' /\ pc'[t] = (IF Nic!Decide(used') THEN "raise" ELSE "idle")
                   ELSE pc'[t] = "count" /\ UNCHANGED signaled
        /\ UNCHANGED <<avail, reaped, asleep, due, driver, availEvent, ready, lastAvail, kick, irq, rxBacklog,
                       rxWake, unsignaled, Nic!owner, injects, resets>>
    BY <1>23, PublishEffect
  <2> QED  BY <2>1 DEF Nic!Decide, Apart, Nic!At, Nic!Goto, Nic!ring, Nic!flow, Nic!owner,
              Nic!NetThreads, Nic!NoLock, NetType, NumType, CountType, SeqType, CtrlType,
              FlagType, AskInv, DepthInv, PausedInv, Leaving, Draining, RingPlaces
<1>24. ASSUME NEW t \in Nic!NetThreads, Nic!Left(t) PROVE PauseInv'
  <2>1. /\ loc' \in [Nic!NetThreads -> Locals] /\ pc' \in [Nic!NetThreads -> NicPlaces] /\ Apart(t)
        /\ loc'[t].drain = loc[t].drain /\ loc'[t].any = loc[t].any /\ loc'[t].left = Len(backlog)
        /\ Nic!At(t, {"left"}) /\ lock' = Nic!NoLock /\ rxBacklog' = Len(backlog)
        /\ IF loc[t].any /\ ready
           THEN signaled' = used /\ pc'[t] = (IF Nic!Decide(used) THEN "raise" ELSE "wake")
           ELSE UNCHANGED signaled /\ pc'[t] = "wake"
        /\ UNCHANGED <<avail, reaped, asleep, due, driver, availEvent, used, ready, lastAvail, kick, irq, backlog,
                       rxWake, unsignaled, Nic!owner, injects, resets>>
    BY <1>24, LeftEffect
  <2>2. /\ pc[t] = "left" /\ loc'[t].drain /\ UNCHANGED <<paused, woken, rxWake, driver, backlog>>
        /\ pc'[t] \in {"raise", "wake"} /\ loc'[t].left = Len(backlog) /\ rxBacklog' = Len(backlog)
    BY <2>1 DEF Nic!At, Nic!owner, HandInv, PlaceInv
  <2>3. \A u \in Nic!NetThreads \ {t} : pc'[u] = pc[u] /\ loc'[u] = loc[u]
    BY <2>1 DEF Apart
  <2>4. Len(backlog) \in Nat
    BY DEF NetType, NumType, SeqType
  <2>5. AskInv'
    BY <2>2, <2>3 DEF AskInv, Nic!NetThreads
  <2>6. DepthInv'
    BY <2>2, <2>4 DEF DepthInv
  <2>7. Len(backlog') > Low \/ Leaving'
    BY SMTT(60), <2>2, <2>4 DEF Leaving
  <2>8. PausedInv'
    BY <2>7 DEF PausedInv
  <2> QED  BY <2>5, <2>6, <2>8
<1>25. ASSUME NEW t \in Nic!NetThreads, Nic!Raise(t) PROVE PauseInv'
  BY <1>25 DEF Nic!Raise, Apart, Nic!At, Nic!Goto, Nic!ring, Nic!flow, Nic!owner, Nic!NetThreads,
     Nic!NoLock, NetType, NumType, CountType, SeqType, CtrlType, FlagType, AskInv, DepthInv,
     PausedInv, Leaving, Draining, RingPlaces
<1>26. ASSUME NEW t \in Nic!NetThreads, Nic!Wake(t) PROVE PauseInv'
  <2>1. /\ loc' \in [Nic!NetThreads -> Locals] /\ pc' \in [Nic!NetThreads -> NicPlaces] /\ Apart(t) /\ loc'[t].drain = FALSE /\ loc'[t].any = FALSE
        /\ Nic!At(t, {"wake"}) /\ Nic!WakeBackend(loc[t].left) /\ pc'[t] = "idle"
        /\ UNCHANGED <<Nic!ring, kick, irq, lock, backlog, rxBacklog, unsignaled, paused, burst, injects, resets>>
    BY <1>26, WakeEffect
  <2> QED  BY <2>1 DEF Nic!WakeBackend, Apart, Nic!At, Nic!Goto, Nic!ring, Nic!flow, Nic!owner,
              Nic!NetThreads, Nic!NoLock, NetType, NumType, CountType, SeqType, CtrlType,
              FlagType, AskInv, DepthInv, PausedInv, Leaving, Draining, RingPlaces
<1>27. ASSUME NEW t \in Nic!NetThreads, Nic!Count(t) PROVE PauseInv'
  BY <1>27 DEF Nic!Count, Apart, Nic!At, Nic!Goto, Nic!ring, Nic!flow, Nic!owner, Nic!NetThreads,
     Nic!NoLock, NetType, NumType, CountType, SeqType, CtrlType, FlagType, AskInv, DepthInv,
     PausedInv, Leaving, Draining, RingPlaces
<1>28. ASSUME NEW t \in Nic!NetThreads, Nic!NotifyRx(t) PROVE PauseInv'
  BY <1>28 DEF Nic!NotifyRx, Apart, Nic!At, Nic!Goto, Nic!ring, Nic!flow, Nic!owner,
     Nic!NetThreads, Nic!NoLock, NetType, NumType, CountType, SeqType, CtrlType, FlagType, AskInv,
     DepthInv, PausedInv, Leaving, Draining, RingPlaces
<1>29. ASSUME NEW t \in Nic!NetThreads, Nic!NotifyDecide(t) PROVE PauseInv'
  BY <1>29 DEF Nic!NotifyDecide, Nic!Decide, Nic!InRing, Apart, Nic!At, Nic!Goto, Nic!ring,
     Nic!flow, Nic!owner, Nic!NetThreads, Nic!NoLock, NetType, NumType, CountType, SeqType,
     CtrlType, FlagType, AskInv, DepthInv, PausedInv, Leaving, Draining, RingPlaces
<1>30. CASE UNCHANGED Nic!vars
  BY <1>30 DEF Nic!vars, Apart, Nic!At, Nic!Goto, Nic!ring, Nic!flow, Nic!owner, Nic!NetThreads,
     Nic!NoLock, NetType, NumType, CountType, SeqType, CtrlType, FlagType, AskInv, DepthInv,
     PausedInv, Leaving, Draining, RingPlaces
<1>31. ASSUME NEW n \in 1 .. MaxFrame, Nic!Inject(n) PROVE PauseInv'
  BY <1>31, <1>16, InjectIsOwners DEF NetType
<1>32. ASSUME Nic!Loopback(1) PROVE PauseInv'
  BY <1>32, <1>16, LoopbackIsPumps DEF NetType
<1> QED
  BY <1>1, <1>2, <1>3, <1>4, <1>5, <1>6, <1>7, <1>8, <1>9, <1>10, <1>11, <1>12, <1>13, <1>14,
     <1>15, <1>17, <1>18, <1>19, <1>20, <1>21, <1>22, <1>23, <1>24, <1>25, <1>26, <1>27, <1>28,
     <1>29, <1>30, <1>31, <1>32
  DEF Nic!Next, Nic!Driver, Nic!Reset, Nic!Owner, Nic!ThreadStep, Nic!DeliverFrame


\* A quiet receive path owes nothing: the frame that waits first lacks buffers,
\* a driver that sleeps without an interrupt has taken every used buffer, and a
\* backend told to stop waits behind a deep backlog with its wake still set.
THEOREM NetStrandsNothing ==
  ASSUME Nic!NetAssumption
  PROVE  Nic!Spec => [](Nic!TypeOK /\ Nic!RxNothingStrands /\ Nic!SenderIsWoken)
<1>1. Nic!Init => NetInv
  <2> SUFFICES ASSUME Nic!Init PROVE NetInv
    OBVIOUS
  <2> USE NicSizes DEF Nic!Init, Nic!NetThreads, Nic!NoLock
  <2>1. CountType /\ SeqType
    BY DEF CountType, SeqType
  <2>2. FlagType
    BY Zenon DEF FlagType
  <2>3. CtrlType
    BY NoLocType DEF CtrlType, NicPlaces
  <2>4. NicLockInv /\ DownInv
    BY DEF NicLockInv, DownInv, Holding, RingPlaces
  <2>5. \A t \in Nic!NetThreads : ~loc[t].drain
    BY NoLocType
  <2>6. HandInv
    BY <2>5 DEF HandInv, GotInv, FrontInv, PlaceInv, RingPlaces
  <2>7. NicStrandInv
    BY DEF NicStrandInv, RewindInv, FrontSeen
  <2>8. NicIrqInv
    BY DEF NicIrqInv, ToldInv, BurstInv, Delivering, RingPlaces
  <2>9. PauseInv
    BY DEF PauseInv, AskInv, DepthInv, PausedInv
  <2> QED  BY <2>1, <2>2, <2>3, <2>4, <2>6, <2>7, <2>8, <2>9 DEF NetInv, NetType, NumType
<1>2. NetInv /\ [Nic!Next]_(Nic!vars) => NetInv'
  <2> SUFFICES ASSUME NetInv, [Nic!Next]_(Nic!vars) PROVE NetInv'
    OBVIOUS
  <2>1. CountType' /\ SeqType' /\ CtrlType' /\ FlagType'
    BY NicCountStep, NicSeqStep, CtrlStep, FlagStep DEF NetInv
  <2>2. NicLockInv' /\ DownInv'
    BY NicLockStep, DownStep DEF NetInv
  <2>3. GotInv' /\ FrontInv' /\ PlaceInv'
    BY GotStep, FrontStep, PlaceStep DEF NetInv
  <2>4. NicStrandInv' /\ NicIrqInv' /\ PauseInv'
    BY NicStrandStep, NicIrqStep, PauseStep DEF NetInv
  <2> QED  BY <2>1, <2>2, <2>3, <2>4 DEF NetInv, NetType, NumType, HandInv
<1>3. NetInv => Nic!TypeOK /\ Nic!RxNothingStrands /\ Nic!SenderIsWoken
  <2> SUFFICES ASSUME NetInv PROVE Nic!TypeOK /\ Nic!RxNothingStrands /\ Nic!SenderIsWoken
    OBVIOUS
  <2>1. Nic!TypeOK
    <3>1. unsignaled <= MaxInjects
      BY NicSizes DEF NetInv, NetType, NumType, CountType, NicIrqInv, BurstInv
    <3>2. {asleep, due, ready, kick, irq, rxWake, paused, woken, burst} \subseteq BOOLEAN
      BY Zenon DEF NetInv, NetType, FlagType
    <3>3. Len(backlog) \in Nat
      BY DEF NetInv, NetType, NumType, SeqType
    <3> QED  BY <3>1, <3>2, <3>3, NicSizes DEF Nic!TypeOK, NetInv, NetType, NumType, CountType,
                SeqType, CtrlType
  <2>2. Nic!RxNothingStrands
    <3> SUFFICES ASSUME Nic!Quiet
                 PROVE  /\ backlog # <<>> => avail - lastAvail < Size /\ avail - lastAvail < Head(backlog)
                        /\ asleep /\ ~irq => reaped = used
      BY DEF Nic!RxNothingStrands
    <3>1. \A t \in Nic!NetThreads : pc[t] = "idle"
      BY DEF Nic!Quiet
    <3>2. ready /\ ~kick /\ ~due /\ ~burst
      BY DEF Nic!Quiet, NetInv, DownInv
    <3>3. ~Trying /\ ~Coming /\ ~Rewinding
      BY <3>1, <3>2 DEF Trying, Coming, Rewinding, RingPlaces
    <3>4. ~NicRaising /\ ~Undecided
      BY <3>1, <3>2 DEF NicRaising, Undecided, RingPlaces, Nic!NetThreads
    <3>5. reaped \in Nat /\ used \in Nat /\ reaped <= used
      BY DEF NetInv, NetType, NumType, CountType
    <3> QED  BY <3>2, <3>3, <3>4, <3>5 DEF NetInv, NicStrandInv, FrontSeen, Dry, NicIrqInv, ToldInv
  <2>3. Nic!SenderIsWoken
    <3> SUFFICES ASSUME \A t \in Nic!NetThreads : pc[t] = "idle", driver \in {"ok", "down"},
                        paused, ~woken
                 PROVE  rxWake /\ Len(backlog) > Low
      BY DEF Nic!SenderIsWoken
    <3>1. ~Draining /\ ~Leaving
      BY DEF Draining, Leaving, RingPlaces
    <3> QED  BY <3>1 DEF NetInv, PauseInv, AskInv, PausedInv
  <2> QED  BY <2>1, <2>2, <2>3
<1> QED  BY <1>1, <1>2, <1>3, PTL DEF Nic!Spec

==============================================================================
