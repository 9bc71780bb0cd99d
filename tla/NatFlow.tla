------------------------------ MODULE NatFlow ------------------------------
(***************************************************************************)
(* The life of one TCP flow of the user-mode NAT (src/net/nat.rs), through *)
(* its incarnations on one 4-tuple: the guest-facing TCB, the host socket, *)
(* the overlapped connect, receive and send that the kernel holds, the     *)
(* pooled boxes they write to, the guest-to-host queue, and the pause on   *)
(* the NIC's RX backlog.  One worker thread owns the flow, so a handler    *)
(* (one dequeued completion) is one action; what interleaves is the order  *)
(* of completions, guest segments, watchdogs and the NIC's wakeups.        *)
(*                                                                         *)
(* The TCB (tcp-sans-io, or smoltcp behind the same trait) is external: it *)
(* is the TCP state, the receive ring, the bytes and FIN waiting to be     *)
(* staged, and the segments already staged for egress.                     *)
(***************************************************************************)
EXTENDS Naturals, Sequences

CONSTANTS MaxSent,   \* bytes one guest connection sends
          MaxHost,   \* bytes the host sends, over all connections
          MaxConns,  \* connections opened on the tuple
          MaxFull,   \* times the NIC's RX backlog fills
          Cap,       \* TO_HOST_CAP
          Chunk,     \* TCP_BUF: what one host send takes
          Ring       \* the TCB's rings

NatFlowAssumption ==
    /\ {MaxSent, MaxHost, MaxConns, MaxFull} \subseteq Nat
    /\ {Cap, Chunk, Ring} \subseteq Nat \ {0}

VARIABLES flow,    \* the flow table's entry
          tcb,     \* the guest-facing TCB (external)
          boxes,   \* where the entry's pooled boxes are
          kernel,  \* overlapped operations the kernel still holds
          host,    \* the host socket's peer
          guest,   \* the guest's end of the connection
          nic,     \* the NIC's RX backlog, and its wakeup for this worker
          stopped  \* the worker has shut down

vars == <<flow, tcb, boxes, kernel, host, guest, nic, stopped>>

TcbStates == {"Listen", "SynSent", "SynRcvd", "Established", "FinWait",
              "CloseWait", "LastAck", "TimeWait", "Closed"}
Homes == {"pool", "flow", "leaked"}
State == [flow |-> flow, tcb |-> tcb, boxes |-> boxes, kernel |-> kernel,
          host |-> host, guest |-> guest, nic |-> nic]

NoFlow == [st |-> "none", connected |-> FALSE, queue |-> <<>>,
           inflight |-> <<>>, closing |-> FALSE, want |-> FALSE,
           done |-> FALSE, syn |-> FALSE, blocked |-> FALSE]

FreshTcb(st) == [st |-> st, taken |-> 0, in |-> <<>>, peerFin |-> FALSE,
                 out |-> 0, fin |-> "none", staged |-> {}, reset |-> FALSE]

Init ==
    /\ flow = NoFlow
    /\ tcb = FreshTcb("Closed")
    /\ boxes = [b \in {"tcb", "op", "sendOp"} |-> "pool"]
    /\ kernel = {}
    /\ host = [st |-> "none", sent |-> 0, got |-> <<>>, shut |-> FALSE]
    /\ guest = [st |-> "idle", conns |-> 0, lost |-> FALSE]
    /\ nic = [full |-> FALSE, fills |-> 0, listed |-> FALSE, wake |-> FALSE]
    /\ stopped = FALSE

Become(s) ==
    /\ flow' = s.flow
    /\ tcb' = s.tcb
    /\ boxes' = s.boxes
    /\ kernel' = s.kernel
    /\ host' = s.host
    /\ guest' = s.guest
    /\ nic' = s.nic

-----------------------------------------------------------------------------
(* What the handlers call, as functions of the state they are called in.   *)

\* A RST reaches the guest.
RstToGuest(g) == IF g.st \in {"syn", "open"} THEN [g EXCEPT !.st = "reset", !.lost = FALSE] ELSE g

\* Faulty: a connect in flight does not keep the entry.
ReapUnlessMoving(s) ==
    IF s.flow.st = "dead" /\ {"recv", "send"} \cap s.kernel = {}
    THEN [s EXCEPT !.flow = NoFlow,
                   !.boxes = [b \in DOMAIN s.boxes |-> "pool"]]
    ELSE s

\* reap_if_idle: only an entry with no operation in flight is removed, and
\* its boxes go back to their pools.
ReapIfIdle(s) ==
    IF s.flow.st = "dead" /\ s.kernel = {}
    THEN [s EXCEPT !.flow = NoFlow,
                   !.boxes = [b \in DOMAIN s.boxes |-> "pool"]]
    ELSE s

\* begin_teardown: the host socket is closed once, with a reset if the
\* guest's connection ended in one.
BeginTeardown(s) ==
    ReapIfIdle(
      IF s.flow.st = "live"
      THEN [s EXCEPT !.flow.st = "dead",
                     !.host.st = IF s.tcb.reset THEN "reset" ELSE "closed"]
      ELSE s)

\* tcp_drive: the TCB's receive ring goes to the guest-to-host queue, up to
\* the cap.
Drain(s) ==
    LET room == IF Len(s.flow.queue) < Cap THEN Cap - Len(s.flow.queue) ELSE 0
        n == IF Len(s.tcb.in) < room THEN Len(s.tcb.in) ELSE room
    IN [s EXCEPT !.flow.queue = @ \o SubSeq(s.tcb.in, 1, n),
                 !.tcb.in = SubSeq(@, n + 1, Len(@))]

\* What is staged reaches the guest whatever the backlog.
Deliver(s) ==
    LET g == IF "synack" \in s.tcb.staged THEN [s.guest EXCEPT !.lost = FALSE] ELSE s.guest
    IN [s EXCEPT !.tcb.staged = {},
                 !.guest = IF "rst" \in s.tcb.staged THEN RstToGuest(g) ELSE g]

\* A full backlog pauses the TCB and lists the flow for the NIC's wakeup.
Pause(s) == [s EXCEPT !.flow.blocked = TRUE,
                      !.nic.listed = IF s.flow.blocked THEN @ ELSE TRUE]

\* The ticks stage everything that waits, unless the backlog fills on the way.
Stage(s) == [s EXCEPT !.tcb.out = 0,
                      !.tcb.fin = IF @ = "queued" THEN "sent" ELSE @]
StageSome(s) == [s EXCEPT !.tcb.out = @ - 1, !.nic.full = TRUE, !.nic.fills = @ + 1]

\* Faulty: a full NIC pauses before what is staged is delivered.
EgressOnlyWhenClear(s, fills) ==
    IF s.nic.full THEN Pause(s)
    ELSE IF fills /\ s.tcb.out > 0 THEN Pause(StageSome(Deliver(s)))
    ELSE Stage(Deliver(s))

Egress(s, fills) ==
    LET d == Deliver(s)
    IN IF d.nic.full THEN Pause(d)
       ELSE IF fills /\ d.tcb.out > 0 THEN Pause(StageSome(d))
       ELSE Stage(d)

PeerClosed(s) == s.tcb.st \in {"CloseWait", "LastAck", "TimeWait"}

\* release_send_op
ReleaseSendOp(s) ==
    IF s.flow.inflight = <<>> /\ ~s.flow.syn /\ s.flow.queue = <<>>
    THEN [s EXCEPT !.boxes["sendOp"] = "pool"] ELSE s

\* Faulty: the half-close overtakes the queue.
PumpSendEager(s) ==
    IF ~s.flow.connected THEN s
    ELSE IF s.flow.want
    THEN [s EXCEPT !.flow.want = FALSE, !.flow.done = TRUE, !.host.shut = TRUE]
    ELSE IF s.flow.inflight # <<>> \/ s.flow.queue = <<>> THEN s
    ELSE LET n == IF Len(s.flow.queue) < Chunk THEN Len(s.flow.queue) ELSE Chunk
         IN [s EXCEPT !.flow.inflight = SubSeq(s.flow.queue, 1, n),
                      !.flow.queue = SubSeq(@, n + 1, Len(@)),
                      !.boxes["sendOp"] = "flow",
                      !.kernel = @ \cup {"send"}]

\* pump_send: one send in flight; the half-close waits for the queue.
PumpSend(s) ==
    IF ~s.flow.connected \/ s.flow.inflight # <<>> THEN s
    ELSE IF s.flow.queue = <<>>
    THEN IF s.flow.want
         THEN [s EXCEPT !.flow.want = FALSE, !.flow.done = TRUE, !.host.shut = TRUE]
         ELSE s
    ELSE LET n == IF Len(s.flow.queue) < Chunk THEN Len(s.flow.queue) ELSE Chunk
         IN [s EXCEPT !.flow.inflight = SubSeq(s.flow.queue, 1, n),
                      !.flow.queue = SubSeq(@, n + 1, Len(@)),
                      !.boxes["sendOp"] = "flow",
                      !.kernel = @ \cup {"send"}]

WouldSend(s) == s.flow.connected /\ s.flow.inflight = <<>> /\ s.flow.queue # <<>>

\* maybe_post_recv, straight into the free space of the TCB's send ring.
WouldRecv(s) ==
    /\ s.flow.connected
    /\ "recv" \notin s.kernel
    /\ ~s.flow.closing
    /\ s.tcb.st \in {"Established", "CloseWait"}
    /\ s.tcb.out < Ring
MaybePostRecv(s) == IF WouldRecv(s) THEN [s EXCEPT !.kernel = @ \cup {"recv"}] ELSE s

\* lingering: finished both ways, only TIME_WAIT left.
Lingering(s) ==
    /\ s.flow.done
    /\ {"recv", "send"} \cap s.kernel = {}
    /\ s.flow.queue = <<>>
    /\ s.tcb.st = "TimeWait"
    /\ s.tcb.in = <<>>

\* abort_flow: a SYN still waiting is refused; an open connection gets the
\* RST that abort() stages, and the drive that delivers it tears down.
AbortFlow(s) ==
    IF s.flow.st # "live" THEN s
    ELSE IF s.flow.syn
    THEN BeginTeardown([s EXCEPT !.flow.syn = FALSE, !.guest = RstToGuest(@)])
    ELSE BeginTeardown(Egress(Drain(
           [s EXCEPT !.tcb = [@ EXCEPT !.st = "Closed", !.reset = TRUE,
                                       !.out = 0, !.fin = "none",
                                       !.staged = {"rst"}]]), FALSE))

\* tcp_drive.  c says which of this drive's system calls fail at once, and
\* whether the backlog fills while it delivers.
TcpDrive(s, c) ==
    IF s.flow.st # "live" THEN s
    ELSE LET e == Egress(Drain(s), c = "fills")
             w == IF PeerClosed(e) /\ ~e.flow.done THEN [e EXCEPT !.flow.want = TRUE] ELSE e
             p == PumpSend(w)
             r == MaybePostRecv(p)
         IN IF e.tcb.st = "Closed" THEN BeginTeardown(w)
            ELSE IF c = "send" /\ WouldSend(w) THEN AbortFlow(w)
            ELSE IF c = "recv" /\ WouldRecv(p) THEN AbortFlow(p)
            ELSE IF Lingering(r) THEN BeginTeardown(r)
            ELSE r

Choices == {"ok", "fills", "send", "recv"}

\* Take a step that leaves the state s and then drives the flow.
Drive(s) ==
    /\ \E c \in Choices :
         /\ c = "fills" => s.nic.fills < MaxFull
         /\ Become(TcpDrive(s, c))
    /\ UNCHANGED stopped

\* A step that ends in a state s without driving the flow.
Rest(s) == Become(s) /\ UNCHANGED stopped

-----------------------------------------------------------------------------
(* Guest segments: handle_tcp.                                             *)

Running == ~stopped

\* A SYN for a tuple without a flow: the flow is made and the host connect
\* started, with the SYN kept in the send op; or the SYN is refused.
OpenTcpFlow(s) ==
    [s EXCEPT !.flow = [NoFlow EXCEPT !.st = "live", !.syn = TRUE],
              !.tcb = FreshTcb("Listen"),
              !.boxes = [b \in DOMAIN boxes |-> "flow"],
              !.kernel = @ \cup {"connect"},
              !.host = [@ EXCEPT !.st = "dialing", !.got = <<>>, !.shut = FALSE]]

\* The guest starts a connection or retransmits its SYN.  A SYN for a tuple
\* that has a flow is kept if one waits there, is lost on a dead entry, and
\* else goes to the TCB, which ignores it.
GuestSyn ==
    /\ Running
    /\ guest.st # "open"
    /\ guest.st # "syn" => guest.conns < MaxConns
    /\ LET kept == flow.st = "live" /\ (flow.syn \/ tcb.st = "SynRcvd")
           s == [State EXCEPT
                   !.guest = [st |-> "syn",
                              conns |-> IF @.st = "syn" THEN @.conns ELSE @.conns + 1,
                              lost |-> flow.st # "none" /\ ~kept]]
       IN CASE flow.st = "none" -> Rest(OpenTcpFlow(s))
            [] flow.st = "live" /\ ~flow.syn -> Drive(s)
            [] OTHER -> Rest(s)

\* Not reachable, at capacity, or the socket could not be set up.
RefuseSyn ==
    /\ Running
    /\ flow.st = "none"
    /\ guest.st # "open"
    /\ guest.conns < MaxConns
    /\ Rest([State EXCEPT !.guest = [st |-> "reset", conns |-> @.conns + 1, lost |-> FALSE]])

\* The guest gives up on the connection: its RST ends a flow whose SYN is
\* still waiting at once, any other through the TCB.
GuestRst ==
    /\ Running
    /\ guest.st \in {"syn", "open"}
    /\ LET s == [State EXCEPT !.guest = [@ EXCEPT !.st = "idle", !.lost = FALSE]]
       IN IF flow.syn THEN Rest(BeginTeardown(s))
          ELSE IF tcb.st \in {"Closed", "TimeWait", "Listen"}
          THEN Rest(s)
          ELSE Drive([s EXCEPT !.tcb = [@ EXCEPT !.st = "Closed", !.reset = TRUE, !.out = 0,
                                                 !.fin = "none", !.staged = {}]])

\* The guest's ACK of the SYN-ACK, or its SYN-ACK to the NAT's own SYN.
GuestEstablishes ==
    /\ Running
    /\ flow.st = "live"
    /\ \/ tcb.st = "SynRcvd" /\ tcb.staged = {} /\ guest.st = "syn"
       \/ tcb.st = "SynSent" /\ guest.st = "idle"
    /\ Drive([State EXCEPT !.tcb.st = "Established", !.guest.st = "open"])

GuestData ==
    /\ Running
    /\ guest.st = "open" /\ ~tcb.peerFin /\ tcb.taken < MaxSent
    /\ flow.st = "live" /\ tcb.st \in {"Established", "FinWait"}
    /\ Len(tcb.in) < Ring
    /\ Drive([State EXCEPT !.tcb.in = Append(@, tcb.taken + 1),
                           !.tcb.taken = @ + 1])

\* The guest's FIN; the TCB acknowledges it at once.
GuestFin ==
    /\ Running
    /\ guest.st = "open" /\ ~tcb.peerFin
    /\ flow.st = "live" /\ tcb.st \in {"Established", "FinWait"}
    /\ tcb.st = "FinWait" => tcb.fin = "sent"
    /\ Drive([State EXCEPT
                !.tcb.st = IF @ = "FinWait" THEN "TimeWait" ELSE "CloseWait",
                !.tcb.peerFin = TRUE,
                !.guest.st = IF tcb.st = "FinWait" THEN "done" ELSE @])

\* The guest acknowledges the TCB's FIN after its own.
GuestAcksFin ==
    /\ Running
    /\ flow.st = "live" /\ tcb.st = "LastAck" /\ tcb.fin = "sent"
    /\ Drive([State EXCEPT !.tcb.st = "Closed", !.guest.st = "done"])

\* A segment of a connection the NAT no longer has: swallowed while the dead
\* entry waits for the kernel, else answered with a RST.
ResetStray ==
    /\ Running
    /\ guest.st = "open" /\ flow.st # "live"
    /\ Rest([State EXCEPT !.guest = IF flow.st = "none" THEN RstToGuest(@)
                                    ELSE [@ EXCEPT !.lost = TRUE]])

-----------------------------------------------------------------------------
(* Host completions.                                                       *)

\* new_inbound_flow: a client the listener accepted.
NewInboundFlow ==
    /\ Running
    /\ flow.st = "none"
    /\ guest.st \notin {"syn", "open"}
    /\ guest.conns < MaxConns
    /\ Drive([State EXCEPT
         !.flow = [NoFlow EXCEPT !.st = "live", !.connected = TRUE],
         !.tcb = FreshTcb("SynSent"),
         !.boxes = [b \in DOMAIN boxes |-> IF b = "sendOp" THEN "pool" ELSE "flow"],
         !.host = [@ EXCEPT !.st = "open", !.got = <<>>, !.shut = FALSE],
         !.guest = [st |-> "idle", conns |-> @.conns + 1, lost |-> FALSE]])

\* on_tcp_connect.  A dead entry is reaped; a failure refuses the waiting
\* SYN; a success injects it, which stages the SYN-ACK.
OnTcpConnect(ok) ==
    /\ Running
    /\ "connect" \in kernel
    /\ LET s == [State EXCEPT !.kernel = @ \ {"connect"}]
       IN IF flow.st = "dead" THEN Rest(ReapIfIdle(s))
          ELSE IF ~ok
          THEN Rest(BeginTeardown([s EXCEPT !.flow.syn = FALSE, !.guest = RstToGuest(@)]))
              
          ELSE Drive(ReleaseSendOp(
                 [s EXCEPT !.flow.connected = TRUE, !.flow.syn = FALSE,
                           !.tcb.st = "SynRcvd", !.tcb.staged = {"synack"},
                           !.host.st = "open"]))

\* on_tcp_recv: data, the host's FIN, or a failure, which resets the guest.
OnTcpRecv(what) ==
    /\ Running
    /\ "recv" \in kernel
    /\ LET s == [State EXCEPT !.kernel = @ \ {"recv"}]
       IN IF flow.st = "dead" THEN Rest(ReapIfIdle(s))
          ELSE CASE what = "fail" -> Rest(AbortFlow(s))
                 [] what = "eof" ->
                      Drive([s EXCEPT !.flow.closing = TRUE,
                               !.tcb = [@ EXCEPT !.fin = "queued",
                                          !.st = IF tcb.st = "CloseWait" THEN "LastAck" ELSE "FinWait"]])
                 [] what = "data" ->
                      /\ host.sent < MaxHost
                      /\ Drive([s EXCEPT !.tcb.out = @ + 1, !.host.sent = @ + 1])

\* Faulty: a short send's tail goes to the back of the queue.
SendDoneAtBack(s, n) ==
    ReleaseSendOp([s EXCEPT !.flow.queue = @ \o SubSeq(s.flow.inflight, n + 1, Len(s.flow.inflight)),
                            !.flow.inflight = <<>>])

\* on_tcp_send and send_done: a short send's tail goes back to the front.
SendDone(s, n) ==
    ReleaseSendOp([s EXCEPT !.flow.queue = SubSeq(s.flow.inflight, n + 1, Len(s.flow.inflight)) \o @,
                            !.flow.inflight = <<>>])

OnTcpSend(ok, n) ==
    /\ Running
    /\ "send" \in kernel
    /\ n <= Len(flow.inflight)
    /\ ok => n > 0
    /\ LET s == [State EXCEPT !.kernel = @ \ {"send"},
                              !.host.got = @ \o SubSeq(flow.inflight, 1, n)]
       IN IF flow.st = "dead" THEN Rest(ReapIfIdle([s EXCEPT !.flow.inflight = <<>>]))
          ELSE IF ~ok THEN Rest(AbortFlow([s EXCEPT !.flow.inflight = <<>>]))
          ELSE Drive(SendDone(s, n))

-----------------------------------------------------------------------------
(* Timers, the NIC, and the end.                                           *)

\* expire_idle: an establishing, half-closed or idle flow that outstays its
\* deadline.
Watchdog ==
    /\ Running
    /\ flow.st = "live"
    /\ Rest(AbortFlow(State))
   

TcpTick ==
    /\ Running
    /\ flow.st = "live"
    /\ Drive(State)

NicFills ==
    /\ ~nic.full /\ nic.fills < MaxFull
    /\ Rest([State EXCEPT !.nic.full = TRUE, !.nic.fills = @ + 1])

\* The guest takes the backlog; the NIC posts KEY_RX_SPACE to a worker that
\* paused on it.
NicDrains ==
    /\ nic.full
    /\ Rest([State EXCEPT !.nic.full = FALSE, !.nic.wake = @ \/ nic.listed])

\* Faulty: the flags are cleared after the drive, which may have paused again.
ResumeRxBlockedLate ==
    /\ Running
    /\ nic.wake
    /\ \E c \in {"ok", "fills"} :
         LET t == TcpDrive([State EXCEPT !.nic.wake = FALSE, !.nic.listed = FALSE], c)
         IN Rest([t EXCEPT !.flow.blocked = FALSE])

\* resume_rx_blocked takes the list and clears the flags, then drives.
ResumeRxBlocked ==
    /\ Running
    /\ nic.wake
    /\ Drive([State EXCEPT !.nic.wake = FALSE, !.nic.listed = FALSE, !.flow.blocked = FALSE])

\* shutdown: the boxes of a flow with an operation in flight are leaked.
Shutdown ==
    /\ Running
    /\ stopped' = TRUE
    /\ flow' = NoFlow
    /\ boxes' = IF kernel # {} THEN [b \in DOMAIN boxes |-> IF boxes[b] = "flow" THEN "leaked" ELSE boxes[b]]
                ELSE [b \in DOMAIN boxes |-> "pool"]
    /\ host' = IF flow.st = "live" THEN [host EXCEPT !.st = "closed"] ELSE host
    /\ UNCHANGED <<tcb, kernel, guest, nic>>

Next ==
    \/ GuestSyn \/ RefuseSyn \/ GuestRst \/ GuestEstablishes \/ GuestData
    \/ GuestFin \/ GuestAcksFin \/ ResetStray
    \/ NewInboundFlow
    \/ \E ok \in BOOLEAN : OnTcpConnect(ok)
    \/ \E what \in {"data", "eof", "fail"} : OnTcpRecv(what)
    \/ \E ok \in BOOLEAN, n \in 0 .. Chunk : OnTcpSend(ok, n)
    \/ Watchdog \/ TcpTick
    \/ NicFills \/ NicDrains \/ ResumeRxBlocked
    \/ Shutdown

Spec == Init /\ [][Next]_vars

-----------------------------------------------------------------------------
Bytes == Seq(1 .. MaxSent)

\* The entry, the TCB and the peers have the shapes the code gives them.
TypeOK ==
    /\ flow.st \in {"none", "live", "dead"}
    /\ flow.queue \in Bytes /\ flow.inflight \in Bytes
    /\ tcb.st \in TcbStates
    /\ boxes \in [{"tcb", "op", "sendOp"} -> Homes]
    /\ kernel \subseteq {"connect", "recv", "send"}
    /\ host.got \in Bytes
    /\ guest.st \in {"idle", "syn", "open", "reset", "done"}

\* The kernel never writes to a box that a later flow may have been given:
\* until an overlapped operation's completion is dequeued, the op, the send
\* op or the TCB whose ring it fills is neither in its pool nor freed,
\* however the flow came to its end (begin_teardown, reap_if_idle,
\* release_send_op, shutdown).
OpsKeepTheirBoxes ==
    /\ "connect" \in kernel => boxes["op"] # "pool"
    /\ "recv" \in kernel => boxes["op"] # "pool" /\ boxes["tcb"] # "pool"
    /\ "send" \in kernel => boxes["sendOp"] # "pool"

\* The host reads the guest's bytes in order, each once, across short sends,
\* and an end of stream (the send-side shutdown) only after all of them.
HostSeesTheStream ==
    /\ \A i \in 1 .. Len(host.got) : host.got[i] = i
    /\ host.shut => tcb.peerFin /\ Len(host.got) = tcb.taken

\* No connection the guest still believes in is dropped in silence: when the
\* flow is gone, the guest has been answered (a RST, or the close it took
\* part in), or the last segment it sent went to a dead entry and will be
\* retransmitted.
GuestIsTold ==
    Running /\ guest.st \in {"syn", "open"} /\ flow.st # "live" => guest.lost

\* A flow left with something to send, because it paused on the NIC's
\* backlog, is on the list the NIC's wakeup drives, and that wakeup is due or
\* on its way: a pause during the resume itself included (otherwise the
\* stream waits for the next timer sweep).
PausedIsWoken ==
    Running /\ flow.st = "live" /\ (tcb.out > 0 \/ tcb.fin = "queued")
        => nic.listed /\ (nic.full \/ nic.wake)

\* "closed gracefully, the host would see a clean end of a stream that was
\* cut short": a clean close never stands for a stream the NAT cut short.
CleanCloseIsWhole ==
    Running /\ flow.st = "dead" /\ host.st = "closed" => flow.queue = <<>> /\ tcb.in = <<>>
=============================================================================
