----------------------------- MODULE NatRouter -----------------------------
(***************************************************************************)
(* How a guest TCP frame reaches the one NAT worker that owns its flow     *)
(* (src/net/nat.rs): FlowRouter's ownership table, the frame slots that    *)
(* carry a frame to a worker (FramePool's lock-free free list), and the    *)
(* workers that claim a key before they create a flow and release it when  *)
(* the flow, or the SYN, comes to nothing.                                 *)
(*                                                                         *)
(* The guest's transmit path and the workers are concurrent.  Each lock    *)
(* hold and each atomic access of the free list is a step of its own; a    *)
(* worker's handling of one dequeued frame is split only where another     *)
(* thread can see the difference (the slot goes back last).                *)
(***************************************************************************)
EXTENDS Naturals, Sequences, FiniteSets

CONSTANTS Shards,   \* the workers
          Keys,     \* TCP 4-tuples
          Hash,     \* shard_of: the worker of a tuple nobody owns
          Slots,    \* frame slots, 0 .. Slots - 1
          MaxFrames \* frames the guest sends

None == "none"
Sentinel == Slots
\* The threads that post frames: the guest's transmit path, and the first
\* worker when it passes on a datagram it reassembled (never a SYN).
Txs == {"tx", "reassembled"}
Threads == Shards \cup Txs

NatRouterAssumption ==
    /\ Hash \in [Keys -> Shards] /\ IsFiniteSet(Keys)
    /\ None \notin Keys \cup Shards /\ Shards \cap Txs = {}
    /\ Slots \in Nat \ {0}
    /\ MaxFrames \in Nat

VARIABLES owner,  \* FlowRouter.owner
          load,   \* FlowRouter.load
          table,  \* the workers' flow tables
          queue,  \* frames posted to the workers' completion ports
          head,   \* FramePool.head: tag and index
          next,   \* FramePool.next
          pc,     \* where each thread is
          reg,    \* its registers: the head and next it read, slot, frame
          sent    \* frames sent

vars == <<owner, load, table, queue, head, next, pc, reg, sent>>

Nothing == [h |-> [tag |-> 0, idx |-> Sentinel], nxt |-> Sentinel, slot |-> Sentinel,
            key |-> None, syn |-> FALSE, to |-> None, assigned |-> FALSE]

Init ==
    /\ owner = [k \in Keys |-> None]
    /\ load = [s \in Shards |-> 0]
    /\ table = [s \in Shards |-> {}]
    /\ queue = [s \in Shards |-> <<>>]
    /\ head = [tag |-> 0, idx |-> 0]
    /\ next = [i \in 0 .. Slots - 1 |-> i + 1]
    /\ pc = [t \in Threads |-> "idle"]
    /\ reg = [t \in Threads |-> Nothing]
    /\ sent = 0

Go(t, where, r) == pc' = [pc EXCEPT ![t] = where] /\ reg' = [reg EXCEPT ![t] = r]

router == <<owner, load, table>>
pool == <<head, next>>

-----------------------------------------------------------------------------
(* FramePool: acquire and release, one atomic access at a time.            *)

\* on_guest_frame: the frame to send, and the free list's head.
Acquire(x) ==
    /\ pc[x] = "idle" /\ sent < MaxFrames
    /\ \E k \in Keys, syn \in {FALSE, x = "tx"} :
         Go(x, "popNext", [Nothing EXCEPT !.h = head, !.key = k, !.syn = syn])
    /\ sent' = sent + 1
    /\ UNCHANGED <<router, queue, pool>>

\* An empty list drops the frame; else read the first slot's successor.
AcquireNext(x) ==
    /\ pc[x] = "popNext"
    /\ IF reg[x].h.idx = Sentinel THEN Go(x, "idle", Nothing)
       ELSE Go(x, "popSwap", [reg[x] EXCEPT !.nxt = next[reg[x].h.idx]])
    /\ UNCHANGED <<router, queue, pool, sent>>

\* Faulty: the compare-and-swap looks at the index without its tag.
SwapsIndex(h) == head.idx = h.idx

\* The compare-and-swap of the head that was read, tag included.
SwapHolds(h) == head = h

AcquireSwap(x) ==
    /\ pc[x] = "popSwap"
    /\ IF SwapHolds(reg[x].h)
       THEN /\ head' = [tag |-> head.tag + 1, idx |-> reg[x].nxt]
            /\ Go(x, "route", [reg[x] EXCEPT !.slot = reg[x].h.idx])
       ELSE /\ Go(x, "popNext", [reg[x] EXCEPT !.h = head])
            /\ UNCHANGED head
    /\ UNCHANGED <<router, queue, next, sent>>

\* release, by the worker that handled the frame, or after a failed post.
ReleaseLink(t) ==
    /\ pc[t] = "pushLink"
    /\ next' = [next EXCEPT ![reg[t].slot] = reg[t].h.idx]
    /\ Go(t, "pushSwap", reg[t])
    /\ UNCHANGED <<router, queue, head, sent>>

ReleaseSwap(t) ==
    /\ pc[t] = "pushSwap"
    /\ IF SwapHolds(reg[t].h)
       THEN /\ head' = [tag |-> head.tag + 1, idx |-> reg[t].slot]
            /\ IF reg[t].assigned THEN Go(t, "unassign", [reg[t] EXCEPT !.slot = Sentinel])
               ELSE Go(t, "idle", Nothing)
       ELSE /\ Go(t, "pushLink", [reg[t] EXCEPT !.h = head])
            /\ UNCHANGED head
    /\ UNCHANGED <<router, queue, next, sent>>

-----------------------------------------------------------------------------
(* FlowRouter, and its callers.                                            *)

\* release: drop the entry if the shard still owns it.
Freed(o, k, s) == IF o[k] = s THEN [o EXCEPT ![k] = None] ELSE o
Unloaded(k, s) == IF owner[k] = s THEN [load EXCEPT ![s] = @ - 1] ELSE load
Release(k, s) == owner' = Freed(owner, k, s) /\ load' = Unloaded(k, s)

\* route, the read-locked lookup: an owner, the hash for anything but a SYN,
\* or on to the write lock.
Route(x) ==
    /\ pc[x] = "route"
    /\ LET r == reg[x]
       IN CASE owner[r.key] # None -> Go(x, "post", [r EXCEPT !.to = owner[r.key]])
            [] owner[r.key] = None /\ ~r.syn -> Go(x, "post", [r EXCEPT !.to = Hash[r.key]])
            [] OTHER -> Go(x, "assign", r)
    /\ UNCHANGED <<router, queue, pool, sent>>

\* route, under the write lock: looked up again, then the least loaded.
RouteAssign(x) ==
    /\ pc[x] = "assign"
    /\ LET r == reg[x]
       IN IF owner[r.key] # None
          THEN Go(x, "post", [r EXCEPT !.to = owner[r.key]]) /\ UNCHANGED <<owner, load>>
          ELSE \E s \in Shards :
                 /\ \A o \in Shards : load[s] <= load[o]
                 /\ owner' = [owner EXCEPT ![r.key] = s]
                 /\ load' = [load EXCEPT ![s] = @ + 1]
                 /\ Go(x, "post", [r EXCEPT !.to = s, !.assigned = TRUE])
    /\ UNCHANGED <<table, queue, pool, sent>>

\* post_frame: the slot is posted to the worker, or comes back, with the
\* entry the SYN was given.  The failure of an assigned SYN's post is taken
\* not to coincide with an older SYN of its key at that worker, which may
\* make a flow of that one: the failure would drop that flow's entry.
Post(x) ==
    /\ pc[x] = "post"
    /\ LET r == reg[x]
       IN \/ /\ queue' = [queue EXCEPT ![r.to] = Append(@, [slot |-> r.slot, key |-> r.key, syn |-> r.syn])]
             /\ Go(x, "idle", Nothing)
          \/ /\ r.assigned => /\ r.key \notin table[r.to]
                              /\ \A i \in DOMAIN queue[r.to] : queue[r.to][i].key # r.key
             /\ Go(x, "pushLink", [r EXCEPT !.h = head])
             /\ UNCHANGED queue
    /\ UNCHANGED <<router, pool, sent>>

Unassign(x) ==
    /\ pc[x] = "unassign"
    /\ Release(reg[x].key, reg[x].to)
    /\ Go(x, "idle", Nothing)
    /\ UNCHANGED <<table, queue, pool, sent>>

\* Faulty: a key another shard owns may be claimed.
ClaimAnything(k, s) == TRUE

\* claim: free, or already this shard's.
MayClaim(k, s) == owner[k] \in {None, s}
Claimed(k, s) ==
    /\ owner' = [owner EXCEPT ![k] = s]
    /\ load' = IF owner[k] = None THEN [load EXCEPT ![s] = @ + 1] ELSE load

\* handle_tcp for a SYN without a flow: open_tcp_flow claims the key and
\* makes the flow, or refuses and releases; settle_route then drops the entry
\* of a SYN that left no flow here.
HandleSyn(s, k) ==
    \/ /\ MayClaim(k, s)
       /\ Claimed(k, s)
       /\ table' = [table EXCEPT ![s] = @ \cup {k}]
    \/ \* refused after the claim, malformed, or owned elsewhere
       /\ Release(k, s)
       /\ UNCHANGED table

HandleFrame(s) ==
    /\ pc[s] = "idle" /\ queue[s] # <<>>
    /\ LET f == Head(queue[s])
       IN /\ IF f.syn /\ f.key \notin table[s] THEN HandleSyn(s, f.key)
             ELSE UNCHANGED router
          /\ Go(s, "pushLink", [Nothing EXCEPT !.slot = f.slot, !.h = head])
    /\ queue' = [queue EXCEPT ![s] = Tail(@)]
    /\ UNCHANGED <<pool, sent>>

\* new_inbound_flow: an ephemeral port whose key this shard can claim.  The
\* port is one of 16384 drawn at random: taken not to be one the transmit
\* path has just been assigned a stray SYN for.
Inbound(s) ==
    /\ pc[s] = "idle"
    /\ \E k \in Keys :
         /\ k \notin table[s] /\ MayClaim(k, s)
         /\ \A x \in Txs : ~(reg[x].key = k /\ reg[x].assigned)
         /\ Claimed(k, s)
         /\ table' = [table EXCEPT ![s] = @ \cup {k}]
    /\ UNCHANGED <<queue, pool, pc, reg, sent>>

\* reap_if_idle: the flow goes, and its entry with it.
Reap(s) ==
    /\ pc[s] = "idle"
    /\ \E k \in table[s] :
         /\ table' = [table EXCEPT ![s] = @ \ {k}]
         /\ Release(k, s)
    /\ UNCHANGED <<queue, pool, pc, reg, sent>>

Next ==
    \/ \E x \in Txs : \/ Acquire(x) \/ AcquireNext(x) \/ AcquireSwap(x)
                      \/ Route(x) \/ RouteAssign(x) \/ Post(x) \/ Unassign(x)
    \/ \E t \in Threads : ReleaseLink(t) \/ ReleaseSwap(t)
    \/ \E s \in Shards : HandleFrame(s) \/ Inbound(s) \/ Reap(s)

Spec == Init /\ [][Next]_vars

-----------------------------------------------------------------------------
TypeOK ==
    /\ owner \in [Keys -> Shards \cup {None}]
    /\ load \in [Shards -> Nat]
    /\ table \in [Shards -> SUBSET Keys]
    /\ next \in [0 .. Slots - 1 -> 0 .. Slots]
    /\ head.idx \in 0 .. Slots

\* Every segment of a flow reaches the worker that has it: a flow's key is
\* owned by its worker, so no two workers hold flows for one tuple; the load
\* is the number of keys owned, and no entry outlives both the flow and the
\* SYN on its way to becoming one.
OneShardPerFlow ==
    /\ \A s \in Shards : \A k \in table[s] : owner[k] = s
    /\ \A s \in Shards : load[s] = Cardinality({k \in Keys : owner[k] = s})
    /\ \A k \in Keys : owner[k] # None =>
         \/ k \in table[owner[k]]
         \/ \E i \in DOMAIN queue[owner[k]] :
              queue[owner[k]][i].key = k /\ queue[owner[k]][i].syn
         \/ \E x \in Txs : reg[x].key = k /\ reg[x].syn

\* The slots a walk of the free list from its head meets.
Free == {i \in 0 .. Slots - 1 :
           \A S \in SUBSET (0 .. Slots) :
             head.idx \in S /\ (\A j \in S \ {Sentinel} : next[j] \in S) => i \in S}

Holders(i) ==
    {t \in Threads : reg[t].slot = i}
      \cup {s \in Shards : \E j \in DOMAIN queue[s] : queue[s][j].slot = i}

\* A frame slot is never in two hands: not held by two threads, not in a
\* worker's queue and in another's, not free while in use, however the pops
\* and pushes of the free list interleave (its tag rules out ABA).
SlotHasOneOwner ==
    \A i \in 0 .. Slots - 1 :
      /\ Cardinality(Holders(i)) <= 1
      /\ i \in Free => Holders(i) = {}
=============================================================================
