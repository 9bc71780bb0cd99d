---------------------------- MODULE SlirpBackend ----------------------------
(***************************************************************************)
(* The libslirp backend of a NIC (src/net/slirp.rs), and the turn of       *)
(* libslirp's loop it drives (crates/winsys/src/slirp.rs).                 *)
(*                                                                         *)
(* vCPU and pump threads queue guest frames and wake the worker through a  *)
(* datagram; the worker alone owns libslirp, and holds the frames libslirp *)
(* builds while the guest's RX backlog is deep. libslirp is external: at   *)
(* any call it may build a frame. NetDevice has the backlog in detail.     *)
(***************************************************************************)
EXTENDS Integers, Sequences

CONSTANTS Senders,    \* threads that bring guest frames
          QueueMax,   \* TX_QUEUE_MAX
          HoldMax,    \* RX_HOLD_MAX
          High, Low,  \* RX_BACKLOG_HIGH and RX_BACKLOG_LOW of the NIC
          MaxFrames,  \* frames the guest sends
          MaxBuilt    \* frames libslirp builds

SlirpAssumption ==
    /\ {QueueMax, HoldMax, High} \subseteq Nat \ {0} /\ {Low, MaxFrames, MaxBuilt} \subseteq Nat
    /\ Low < High

VARIABLES
    up,       \* the backend: starting, up, failed or stopped
    frames,   \* FrameQueue.frames, a count
    armed,    \* wake_armed
    sock,     \* wake datagrams in the worker's socket
    sender,   \* per sender, and for the guest's "drain": idle, wake or send
    stop,     \* stop; the stopper then sends, then joins
    stopper,
    worker,   \* new, top, poll, drain, disarm, take, input, flush or gone
    idle,     \* it polls with the idle timeout
    batch,    \* frames it took
    held,     \* Host.held: frame numbers
    backlog,  \* the NIC's, frame numbers
    rxWake,   \* rx_wake: the guest's drain will call on_rx_space
    got,      \* frames the guest received
    built, sent

tx == <<frames, armed, sock, sender, sent>>
life == <<up, stop, stopper>>
rx == <<held, backlog, rxWake, built>>
wk == <<worker, idle, batch>>
vars == <<tx, life, rx, wk, got>>
Threads == Senders \cup {"drain"}

Init ==
    /\ up = "starting" /\ frames = 0 /\ armed = FALSE /\ sock = 0
    /\ sender = [t \in Threads |-> "idle"]
    /\ stop = FALSE /\ stopper = "idle" /\ worker = "new" /\ idle = FALSE /\ batch = 0
    /\ held = <<>> /\ backlog = <<>> /\ rxWake = FALSE /\ got = <<>>
    /\ built = 0 /\ sent = 0

---------------------------------------------------------------------------
\* new, and run up to its loop: libslirp is loaded and started on the worker,
\* whose failure ends it and the start.
Start ==
    /\ worker = "new"
    /\ \/ worker' = "top" /\ up' = "up"
       \/ worker' = "gone" /\ up' = "failed"
    /\ UNCHANGED <<tx, stop, stopper, rx, idle, batch, got>>

\* on_guest_frame: dropped when the queue is full, else queued, then wake.
OnGuestFrame(t) ==
    /\ up = "up" /\ sender[t] = "idle" /\ sent < MaxFrames
    /\ sent' = sent + 1
    /\ IF frames >= QueueMax THEN UNCHANGED <<frames, sender>>
       ELSE frames' = frames + 1 /\ sender' = [sender EXCEPT ![t] = "wake"]
    /\ UNCHANGED <<armed, sock, life, rx, wk, got>>

\* Shared::wake: the swap, then the datagram.
Wake(t) ==
    /\ sender[t] = "wake"
    /\ sender' = [sender EXCEPT ![t] = IF armed THEN "idle" ELSE "send"]
    /\ armed' = TRUE
    /\ UNCHANGED <<frames, sock, sent, life, rx, wk, got>>
SendDatagram(t) ==
    /\ sender[t] = "send"
    /\ sender' = [sender EXCEPT ![t] = "idle"] /\ sock' = sock + 1
    /\ UNCHANGED <<frames, armed, sent, life, rx, wk, got>>

\* The guest takes a frame; once few are left an armed rx_wake calls
\* on_rx_space on the draining thread.
GuestTakes ==
    /\ backlog # <<>> /\ sender["drain"] = "idle"
    /\ got' = Append(got, Head(backlog)) /\ backlog' = Tail(backlog)
    /\ IF Len(backlog) - 1 <= Low /\ rxWake
       THEN rxWake' = FALSE /\ sender' = [sender EXCEPT !["drain"] = "wake"]
       ELSE UNCHANGED <<rxWake, sender>>
    /\ UNCHANGED <<frames, armed, sock, sent, life, held, built, wk>>

---------------------------------------------------------------------------
\* Host::send_packet, for a frame libslirp builds within a call of the worker.
Congested == Len(backlog) >= High

\* Faulty: a frame overtakes those that are held.
DirectWhenRoom == ~Congested

Direct == held = <<>> /\ ~Congested
SendPacket ==
    /\ built < MaxBuilt /\ built' = built + 1
    /\ IF Direct THEN backlog' = Append(backlog, built) /\ UNCHANGED <<held, rxWake>>
       ELSE /\ rxWake' = (rxWake \/ held = <<>>)
            /\ held' = IF Len(held) >= HoldMax THEN held ELSE Append(held, built)
            /\ UNCHANGED backlog
MaySend == SendPacket \/ UNCHANGED rx

\* run's loop: the stop check and the timeout.
Timeout == held = <<>>
Top ==
    /\ worker = "top"
    /\ IF stop THEN worker' = "gone" /\ UNCHANGED idle
       ELSE worker' = "poll" /\ idle' = Timeout
    /\ UNCHANGED <<tx, life, rx, batch, got>>

\* Slirp::poll: returns for a datagram, one of libslirp's own sockets or
\* timers, which it serves, or the timeout. Several passes may go by.
Poll ==
    /\ worker = "poll" /\ worker' = IF sock > 0 THEN "drain" ELSE "disarm"
    /\ MaySend
    /\ UNCHANGED <<tx, life, idle, batch, got>>
Drain ==
    /\ worker = "drain" /\ worker' = "disarm" /\ sock' = 0
    /\ UNCHANGED <<frames, armed, sender, sent, life, rx, idle, batch, got>>

\* Faulty: the wake stays armed.
DisarmNever ==
    /\ worker = "disarm" /\ worker' = "take"
    /\ UNCHANGED <<tx, life, rx, idle, batch, got>>

\* "Disarm before taking the queue".
Disarm ==
    /\ worker = "disarm" /\ worker' = "take" /\ armed' = FALSE
    /\ UNCHANGED <<frames, sock, sender, sent, life, rx, idle, batch, got>>
Take ==
    /\ worker = "take" /\ worker' = "input" /\ batch' = frames /\ frames' = 0
    /\ UNCHANGED <<armed, sock, sender, sent, life, rx, idle, got>>
Input ==
    /\ worker = "input"
    /\ IF batch > 0 THEN batch' = batch - 1 /\ MaySend /\ UNCHANGED worker
       ELSE worker' = "flush" /\ UNCHANGED <<batch, rx>>
    /\ UNCHANGED <<tx, life, idle, got>>

\* Host::flush
Flush ==
    /\ worker = "flush"
    /\ IF held # <<>> /\ ~Congested
       THEN backlog' = Append(backlog, Head(held)) /\ held' = Tail(held) /\ UNCHANGED <<worker, rxWake>>
       ELSE rxWake' = (rxWake \/ held # <<>>) /\ worker' = "top" /\ UNCHANGED <<backlog, held>>
    /\ UNCHANGED <<tx, life, built, idle, batch, got>>

---------------------------------------------------------------------------
\* stop: the flag, a datagram whether or not one is armed, the join.
StopFlag ==
    /\ up = "up" /\ ~stop /\ stop' = TRUE /\ stopper' = "send"
    /\ UNCHANGED <<tx, up, rx, wk, got>>
StopSend ==
    /\ stopper = "send" /\ stopper' = "join" /\ sock' = sock + 1
    /\ UNCHANGED <<frames, armed, sender, sent, up, stop, rx, wk, got>>
StopJoin ==
    /\ stopper = "join" /\ worker = "gone" /\ stopper' = "done" /\ up' = "stopped"
    /\ UNCHANGED <<tx, stop, rx, wk, got>>

Worker == Top \/ Poll \/ Drain \/ Disarm \/ Take \/ Input \/ Flush
Next == \/ Start \/ (\E t \in Senders : OnGuestFrame(t)) \/ (\E t \in Threads : Wake(t) \/ SendDatagram(t))
        \/ GuestTakes \/ Worker \/ StopFlag \/ StopSend \/ StopJoin
Spec == Init /\ [][Next]_vars

TypeOK ==
    /\ up \in {"starting", "up", "failed", "stopped"} /\ frames \in 0..QueueMax /\ sock \in Nat
    /\ armed \in BOOLEAN /\ stop \in BOOLEAN /\ idle \in BOOLEAN /\ rxWake \in BOOLEAN
    /\ sender \in [Threads -> {"idle", "wake", "send"}]
    /\ stopper \in {"idle", "send", "join", "done"}
    /\ worker \in {"new", "top", "poll", "drain", "disarm", "take", "input", "flush", "gone"}
    /\ batch \in 0..QueueMax /\ Len(held) <= HoldMax /\ Len(backlog) <= High

\* While the worker sleeps for up to the idle timeout, nothing waits for it:
\* neither a guest frame ("never left waiting for the idle timeout"), nor a
\* stop, nor frames held for a guest that has room -- or the datagram that
\* ends the sleep is there or about to be sent.
SleepIsSafe ==
    worker = "poll" /\ idle /\ (frames > 0 \/ stop \/ held # <<>>) =>
        \/ sock > 0 \/ stopper = "send"
        \/ \E t \in Threads : sender[t] \in {"wake", "send"}

\* The guest gets libslirp's frames in the order they were built, those held
\* while its backlog was deep included.
FramesInOrder ==
    LET all == got \o backlog \o held
    IN \A i, j \in DOMAIN all : i < j => all[i] < all[j]
=============================================================================
