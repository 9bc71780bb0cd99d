------------------------------- MODULE NatUdp -------------------------------
(***************************************************************************)
(* The NAT's UDP flows (src/net/nat.rs): a table of 4-tuples at its cap,   *)
(* one pooled op per flow with at most one overlapped receive, receives    *)
(* that complete inline, the yield through the completion port after a     *)
(* full pass, and the ways a flow dies (idle, evicted, failed) while the   *)
(* kernel or the port still points at its op.                              *)
(***************************************************************************)
EXTENDS Naturals, FiniteSets

CONSTANTS Keys,     \* 4-tuples the guest sends from
          MaxUdp,   \* MAX_UDP_FLOWS
          MaxSends  \* datagrams the guest sends

NatUdpAssumption == IsFiniteSet(Keys) /\ MaxUdp \in Nat \ {0} /\ MaxSends \in Nat

VARIABLES flow,   \* per key: none, live or dead
          used,   \* last_use, as an order
          op,     \* where the flow's op is
          io,     \* what still points at the op: none, recv (the kernel),
                  \* done (a completion queued), more (a yield queued)
          skip,   \* skip_on_success of the flow's socket
          count,  \* FlowCounts.udp
          clock

vars == <<flow, used, op, io, skip, count, clock>>

Init ==
    /\ flow = [k \in Keys |-> "none"]
    /\ used = [k \in Keys |-> 0]
    /\ op = [k \in Keys |-> "pool"]
    /\ io = [k \in Keys |-> "none"]
    /\ skip = [k \in Keys |-> FALSE]
    /\ count = 0
    /\ clock = 0

\* reap_udp: the flow goes, its op returns to the pool.
Reaped(s, k) == [s EXCEPT !.flow[k] = "none", !.op[k] = "pool", !.count = @ - 1]

\* Faulty: the entry goes at once, its receive still with the kernel.
KillAndReap(s, k) == Reaped(s, k)

\* kill_udp: mark it dead and close its socket; the receive the kernel holds
\* is aborted, which still comes through the port.
Killed(s, k) ==
    [s EXCEPT !.flow[k] = "dead"]

State == [flow |-> flow, op |-> op, io |-> io, count |-> count]
Become(s) ==
    /\ flow' = s.flow /\ op' = s.op /\ io' = s.io /\ count' = s.count

\* udp_pump, called with no receive in flight: datagrams found queued are
\* delivered inline up to a limit (one while the NIC is congested), then the
\* flow yields; otherwise a receive is left pending, or fails.
Pump(s, k, taken, sk) ==
    {[s EXCEPT !.io[k] = "recv"]}
      \cup (IF sk THEN {} ELSE {[s EXCEPT !.io[k] = "done"]})
      \cup {Reaped(s, k)}
      \cup (IF sk \/ taken > 0 THEN {[s EXCEPT !.io[k] = "more"]} ELSE {})

\* The least recently used of this worker's live flows.
Lru(k) == flow[k] = "live" /\ \A j \in Keys : flow[j] = "live" => used[k] <= used[j]

\* handle_udp through ensure_udp_flow: a known tuple is refreshed (on a dead
\* entry the datagram goes to a closed socket); a new one gets a socket and
\* an op, evicting at the cap; the first receive is posted.
GuestSends(k) ==
    /\ clock < MaxSends
    /\ clock' = clock + 1
    /\ used' = [used EXCEPT ![k] = clock + 1]
    /\ IF flow[k] # "none" THEN UNCHANGED <<flow, op, io, skip, count>>
       ELSE \E victim \in IF count < MaxUdp THEN {k} ELSE {j \in Keys : Lru(j)}, sk \in BOOLEAN :
              LET v == IF victim = k THEN State ELSE Killed(State, victim)
                  s == [v EXCEPT !.flow[k] = "live", !.op[k] = "flow", !.count = @ + 1]
              IN /\ skip' = [skip EXCEPT ![k] = sk]
                 /\ \E t \in Pump(s, k, 0, sk) : Become(t)

\* The socket could not be made, or no live flow is left to evict.
GuestSendFails(k) ==
    /\ clock < MaxSends /\ flow[k] = "none"
    /\ clock' = clock + 1
    /\ UNCHANGED <<flow, used, op, io, skip, count>>

\* expire_idle
Expire(k) ==
    /\ flow[k] = "live"
    /\ Become(Killed(State, k))
    /\ UNCHANGED <<used, skip, clock>>

\* The kernel finishes a receive, with a datagram, an error or the abort of a
\* closed socket: a completion is queued.
RecvFinishes(k) ==
    /\ io[k] = "recv"
    /\ io' = [io EXCEPT ![k] = "done"]
    /\ UNCHANGED <<flow, used, op, skip, count, clock>>

\* on_udp_recv
OnUdpRecv(k, ok) ==
    /\ io[k] = "done"
    /\ LET s == [State EXCEPT !.io[k] = "none"]
       IN IF flow[k] # "live" \/ ~ok THEN Become(Reaped(s, k))
          ELSE \E t \in Pump(s, k, 1, skip[k]) : Become(t)
    /\ UNCHANGED <<used, skip, clock>>

\* on_udp_more
OnUdpMore(k) ==
    /\ io[k] = "more"
    /\ LET s == [State EXCEPT !.io[k] = "none"]
       IN IF flow[k] # "live" THEN Become(Reaped(s, k))
          ELSE \E t \in Pump(s, k, 0, skip[k]) : Become(t)
    /\ UNCHANGED <<used, skip, clock>>

Next ==
    \E k \in Keys :
      \/ GuestSends(k) \/ GuestSendFails(k) \/ Expire(k) \/ RecvFinishes(k)
      \/ \E ok \in BOOLEAN : OnUdpRecv(k, ok)
      \/ OnUdpMore(k)

Spec == Init /\ [][Next]_vars

-----------------------------------------------------------------------------
TypeOK ==
    /\ flow \in [Keys -> {"none", "live", "dead"}]
    /\ op \in [Keys -> {"pool", "flow"}]
    /\ io \in [Keys -> {"none", "recv", "done", "more"}]
    /\ count \in Nat

\* An op goes back to the pool only when nothing points at it: no receive
\* the kernel may still fill, no completion and no yield in the port.  Every
\* flow in the table has one of them under way, so a dead flow is always
\* reaped; the cap holds for the live ones, and the shared count is exact.
UdpOpsDrain ==
    /\ \A k \in Keys : op[k] = "pool" <=> flow[k] = "none"
    /\ \A k \in Keys : io[k] # "none" <=> flow[k] # "none"
    /\ count = Cardinality({k \in Keys : flow[k] # "none"})
    /\ Cardinality({k \in Keys : flow[k] = "live"}) <= MaxUdp
=============================================================================
