--------------------------- MODULE WintunBackend ---------------------------
(***************************************************************************)
(* The WinTun backend of a NIC (src/net/wintun.rs): a worker moves packets *)
(* from the session's ring to the guest, the transport's pump sends the    *)
(* guest's into it, and stop tears the session and the adapter down.       *)
(* wintun.dll is external (crates/winsys/src/wintun.rs binds it): a        *)
(* session may be used until WintunEndSession, which frees it.             *)
(***************************************************************************)
EXTENDS Integers

CONSTANTS MaxPackets, MaxSent   \* packets from the host, frames from the guest

WintunAssumption == {MaxPackets, MaxSent} \subseteq Nat

VARIABLES
    running, stopEvt,  \* running; the event: clear, set or closed
    session, adapter,  \* none, live or gone
    ring,              \* packets in the session's receive ring
    worker,            \* none, top, receive, packet, wait or gone
    pump,              \* idle, ip, filled or arp: on_guest_frame on a pump's thread
    detached,          \* NetDevice.backend_detached
    stopper,           \* idle, event, end, join, close or done
    injected, packets, sent

io == <<ring, injected, packets>>
own == <<session, adapter>>
st == <<running, stopEvt, stopper, detached>>
vars == <<io, own, st, worker, pump, sent>>

Init ==
    /\ running = FALSE /\ stopEvt = "clear" /\ session = "none" /\ adapter = "none"
    /\ ring = 0 /\ worker = "none" /\ pump = "idle" /\ detached = FALSE /\ stopper = "idle"
    /\ injected = 0 /\ packets = 0 /\ sent = 0

---------------------------------------------------------------------------
\* new: the library and the adapter, its address, the session, the worker.
\* A step that fails undoes the ones before it.
Create ==
    /\ adapter = "none" /\ stopper = "idle"
    /\ \/ adapter' = "live" /\ UNCHANGED stopper
       \/ stopper' = "done" /\ UNCHANGED adapter
    /\ UNCHANGED <<io, session, running, stopEvt, detached, worker, pump, sent>>
Begin ==
    /\ adapter = "live" /\ session = "none" /\ stopper = "idle"
    /\ \/ /\ session' = "live" /\ running' = TRUE /\ worker' = "top"
          /\ UNCHANGED <<adapter, stopper>>
       \/ /\ adapter' = "gone" /\ stopper' = "done"
          /\ UNCHANGED <<session, running, worker>>
    /\ UNCHANGED <<io, stopEvt, detached, pump, sent>>

\* The host's stack routes a packet to the adapter.
HostPacket ==
    /\ session = "live" /\ packets < MaxPackets
    /\ packets' = packets + 1 /\ ring' = ring + 1
    /\ UNCHANGED <<injected, own, st, worker, pump, sent>>

\* rx_worker: both running checks, the receive, the inject and release, the wait.
Top ==
    /\ worker = "top" /\ worker' = IF running THEN "receive" ELSE "gone"
    /\ UNCHANGED <<io, own, st, pump, sent>>
Receive ==
    /\ worker = "receive"
    /\ IF ring > 0 THEN ring' = ring - 1 /\ worker' = "packet"
       ELSE worker' = "wait" /\ UNCHANGED ring
    /\ UNCHANGED <<injected, packets, own, st, pump, sent>>
\* An IPv4 packet that fits is framed and injected; the others are dropped.
InjectRelease ==
    /\ worker = "packet"
    /\ injected' \in {injected, injected + 1}
    /\ worker' = "top"
    /\ UNCHANGED <<ring, packets, own, st, pump, sent>>
Wait ==
    /\ worker = "wait"
    /\ worker' = IF stopEvt = "set" THEN "gone" ELSE "top"
    /\ UNCHANGED <<io, own, st, pump, sent>>

\* on_guest_frame: an IPv4 packet into the send ring, an ARP answered here.
OnGuestFrame ==
    /\ running /\ ~detached /\ pump = "idle" /\ sent < MaxSent /\ sent' = sent + 1
    /\ pump' \in {"ip", "arp"}
    /\ UNCHANGED <<io, own, st, worker>>
AllocateSend ==
    /\ pump = "ip" /\ pump' \in {"filled", "idle"}
    /\ UNCHANGED <<io, own, st, worker, sent>>
SendPacket ==
    /\ pump = "filled" /\ pump' = "idle"
    /\ UNCHANGED <<io, own, st, worker, sent>>
HandleArp ==
    /\ pump = "arp" /\ pump' = "idle" /\ injected' = injected + 1
    /\ UNCHANGED <<ring, packets, own, st, worker, sent>>

---------------------------------------------------------------------------
\* quiesce_backend, then stop: the second caller of either returns at once.
Quiesce ==
    /\ running /\ ~detached /\ stopper = "idle"
    /\ detached' = TRUE /\ running' = FALSE /\ stopper' = "event"
    /\ UNCHANGED <<io, own, stopEvt, worker, pump, sent>>
SetStop ==
    /\ stopper = "event" /\ stopEvt' = "set" /\ stopper' = "end"
    /\ UNCHANGED <<io, own, running, detached, worker, pump, sent>>
EndSession ==
    /\ stopper = "end" /\ session' = "gone" /\ stopper' = "join"
    /\ UNCHANGED <<io, adapter, running, stopEvt, detached, worker, pump, sent>>

\* Faulty: the worker is not joined.
JoinNobody ==
    /\ stopper = "join" /\ stopper' = "close"
    /\ UNCHANGED <<io, own, running, stopEvt, detached, worker, pump, sent>>

Join ==
    /\ stopper = "join" /\ worker = "gone" /\ stopper' = "close"
    /\ UNCHANGED <<io, own, running, stopEvt, detached, worker, pump, sent>>
Close ==
    /\ stopper = "close" /\ adapter' = "gone" /\ stopEvt' = "closed" /\ stopper' = "done"
    /\ UNCHANGED <<io, session, running, detached, worker, pump, sent>>

Next ==
    \/ Create \/ Begin \/ HostPacket \/ Top \/ Receive \/ InjectRelease \/ Wait
    \/ OnGuestFrame \/ AllocateSend \/ SendPacket \/ HandleArp
    \/ Quiesce \/ SetStop \/ EndSession \/ Join \/ Close
Spec == Init /\ [][Next]_vars

TypeOK ==
    /\ running \in BOOLEAN /\ detached \in BOOLEAN /\ stopEvt \in {"clear", "set", "closed"}
    /\ {session, adapter} \subseteq {"none", "live", "gone"}
    /\ ring \in 0..MaxPackets /\ injected \in 0..(MaxPackets + MaxSent)
    /\ worker \in {"none", "top", "receive", "packet", "wait", "gone"}
    /\ pump \in {"idle", "ip", "filled", "arp"}
    /\ stopper \in {"idle", "event", "end", "join", "close", "done"}

\* The worker never outlives the adapter or the event it waits on: both are
\* let go after the join. The session is not (EndedSessionIsUnused).
HandlesOutliveWorker ==
    adapter = "gone" \/ stopEvt = "closed" => worker \in {"none", "gone"}

\* "the adapter + session are only torn down in stop()/drop AFTER the worker
\* thread joins": no thread is about to call WinTun on a session that ended. It is
\* refuted: stop ends the session and then joins.
EndedSessionIsUnused ==
    session = "gone" => worker \notin {"receive", "packet"} /\ pump \notin {"ip", "filled"}
=============================================================================
