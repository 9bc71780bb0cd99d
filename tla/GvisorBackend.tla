--------------------------- MODULE GvisorBackend ---------------------------
(***************************************************************************)
(* The gVisor backend of a NIC (src/net/gvisor.rs), the handle it drives   *)
(* the Go stack through (crates/winsys/src/gvisor.rs) and that stack's own *)
(* link endpoint (gvisor/main.go).                                         *)
(*                                                                         *)
(* Go threads call back with frames for the guest, the vCPU brings frames  *)
(* for the stack and has DHCP answered, a flusher thread delivers what was *)
(* held while the guest's RX backlog was deep. A mutex's critical section  *)
(* is one step; NetDevice has rx_congested and the backlog in detail.      *)
(***************************************************************************)
EXTENDS Integers, Sequences, FiniteSets

CONSTANTS Gos,        \* Go threads that send
          HoldMax,    \* RX_HOLD_MAX
          High, Low,  \* RX_BACKLOG_HIGH and RX_BACKLOG_LOW of the NIC
          MaxSegs,    \* segments one offloaded frame is finished into
          MaxSends, MaxInputs

Vcpu == "vcpu"
Threads == Gos \cup {Vcpu}

GvisorAssumption ==
    /\ IsFiniteSet(Gos) /\ Vcpu \notin Gos
    /\ {HoldMax, High, MaxSegs} \subseteq Nat \ {0} /\ {Low, MaxSends, MaxInputs} \subseteq Nat
    /\ Low < High

VARIABLES
    handle,   \* Gvisor.handle: "live" or "none"
    closed,   \* linkEP.closed
    ctx,      \* the Arc<Host> the callbacks use is alive
    thread,   \* per thread: [at: idle, callback, inject or input, left: segments]
    held,     \* Host.held, a count
    backlog,  \* the NIC's, a count
    rxWake,   \* the guest's drain will call on_rx_space
    drain,    \* idle, or poke (about to)
    poke,
    flusher,  \* check, wait, flush, inject or gone
    stop,
    stopper,  \* idle, close, flag, poke, join, drop or done
    sends, inputs

rx == <<held, backlog, rxWake>>
go == <<handle, closed, ctx>>
fl == <<poke, flusher>>
st == <<stop, stopper>>
vars == <<rx, go, fl, st, thread, drain, sends, inputs>>

Idle == [at |-> "idle", left |-> 0]

Init ==
    /\ handle = "live" /\ closed = FALSE /\ ctx = TRUE
    /\ thread = [t \in Threads |-> Idle]
    /\ held = 0 /\ backlog = 0 /\ rxWake = FALSE /\ drain = "idle"
    /\ poke = FALSE /\ flusher = "check" /\ stop = FALSE /\ stopper = "idle"
    /\ sends = 0 /\ inputs = 0

Congested == backlog >= High
Poked == poke' = TRUE /\ flusher' = IF flusher = "wait" THEN "check" ELSE flusher

---------------------------------------------------------------------------
\* WritePackets: nothing once closed, else the callback runs under the
\* endpoint's lock; GvisorHost::send finishes an offload the guest did not
\* negotiate into segments.
WritePackets(t) ==
    /\ t \in Gos /\ thread[t].at = "idle" /\ ~closed /\ sends < MaxSends
    /\ sends' = sends + 1
    /\ \E n \in 1..MaxSegs : thread' = [thread EXCEPT ![t] = [at |-> "callback", left |-> n]]
    /\ UNCHANGED <<rx, go, fl, st, drain, inputs>>

\* intercept: a DHCP request is answered on the vCPU's thread.
AnswerDhcp ==
    /\ thread[Vcpu].at = "idle" /\ inputs < MaxInputs /\ inputs' = inputs + 1
    /\ thread' = [thread EXCEPT ![Vcpu] = [at |-> "callback", left |-> 1]]
    /\ UNCHANGED <<rx, go, fl, st, drain, sends>>

\* Gvisor::input, under the handle's read lock; then tvg_input's queueing.
Input ==
    /\ thread[Vcpu].at = "idle" /\ handle = "live" /\ inputs < MaxInputs /\ inputs' = inputs + 1
    /\ thread' = [thread EXCEPT ![Vcpu].at = "input"]
    /\ UNCHANGED <<rx, go, fl, st, drain, sends>>
InputDone ==
    /\ thread[Vcpu].at = "input" /\ thread' = [thread EXCEPT ![Vcpu] = Idle]
    /\ UNCHANGED <<rx, go, fl, st, drain, sends, inputs>>

\* Faulty: a frame is held and the wake-up not armed.
DeliverUnarmed(t) ==
    /\ thread[t].at = "callback" /\ thread[t].left > 0
    /\ IF held = 0 /\ ~Congested THEN thread' = [thread EXCEPT ![t].at = "inject"] /\ UNCHANGED held
       ELSE /\ held' = IF held < HoldMax THEN held + 1 ELSE held
            /\ thread' = [thread EXCEPT ![t].left = @ - 1]
    /\ UNCHANGED <<rxWake, backlog, go, fl, st, drain, sends, inputs>>

\* Host::deliver: the test and the push under held's lock; an inject after it.
Deliver(t) ==
    /\ thread[t].at = "callback" /\ thread[t].left > 0
    /\ IF held = 0 /\ ~Congested
       THEN thread' = [thread EXCEPT ![t].at = "inject"] /\ UNCHANGED <<held, rxWake>>
       ELSE /\ rxWake' = (rxWake \/ held = 0)
            /\ held' = IF held < HoldMax THEN held + 1 ELSE held
            /\ thread' = [thread EXCEPT ![t].left = @ - 1]
    /\ UNCHANGED <<backlog, go, fl, st, drain, sends, inputs>>
Inject(t) ==
    /\ thread[t].at = "inject" /\ backlog' = backlog + 1
    /\ thread' = [thread EXCEPT ![t] = [at |-> "callback", left |-> @.left - 1]]
    /\ UNCHANGED <<held, rxWake, go, fl, st, drain, sends, inputs>>
Return(t) ==
    /\ thread[t].at = "callback" /\ thread[t].left = 0
    /\ thread' = [thread EXCEPT ![t] = Idle]
    /\ UNCHANGED <<rx, go, fl, st, drain, sends, inputs>>

\* The guest's drain, and on_rx_space.
GuestTakes ==
    /\ backlog > 0 /\ drain = "idle" /\ backlog' = backlog - 1
    /\ IF backlog - 1 <= Low /\ rxWake THEN rxWake' = FALSE /\ drain' = "poke"
       ELSE UNCHANGED <<rxWake, drain>>
    /\ UNCHANGED <<held, go, fl, st, thread, sends, inputs>>
OnRxSpace ==
    /\ drain = "poke" /\ drain' = "idle" /\ Poked
    /\ UNCHANGED <<rx, go, st, thread, sends, inputs>>

---------------------------------------------------------------------------
\* The flusher: the outer stop check and the wait, under poke's lock.
Check ==
    /\ flusher = "check"
    /\ \/ stop /\ flusher' = "gone" /\ UNCHANGED poke
       \/ (poke \/ stop) /\ poke' = FALSE /\ flusher' = "flush"
       \/ ~poke /\ ~stop /\ flusher' = "wait" /\ UNCHANGED poke
    /\ UNCHANGED <<rx, go, st, thread, drain, sends, inputs>>

\* Host::flush
FlushPop ==
    /\ flusher = "flush" /\ held > 0 /\ ~Congested
    /\ held' = held - 1 /\ flusher' = "inject"
    /\ UNCHANGED <<backlog, rxWake, go, poke, st, thread, drain, sends, inputs>>
FlushInject ==
    /\ flusher = "inject" /\ flusher' = "flush" /\ backlog' = backlog + 1
    /\ UNCHANGED <<held, rxWake, go, poke, st, thread, drain, sends, inputs>>
FlushEnd ==
    /\ flusher = "flush" /\ (held = 0 \/ Congested)
    /\ rxWake' = (rxWake \/ held > 0) /\ flusher' = "check"
    /\ UNCHANGED <<held, backlog, go, poke, st, thread, drain, sends, inputs>>

---------------------------------------------------------------------------
\* stop. Gvisor::close takes the handle's lock for writing, so no input is
\* inside, and tvg_close the endpoint's, so no callback is.
Stop ==
    /\ stopper = "idle" /\ stopper' = "close"
    /\ UNCHANGED <<rx, go, fl, stop, thread, drain, sends, inputs>>

\* Faulty: close does not wait for an input in progress.
CloseUnderRead ==
    /\ stopper = "close"
    /\ \A t \in Gos : thread[t].at = "idle"
    /\ handle' = "none" /\ closed' = TRUE /\ stopper' = "flag"
    /\ UNCHANGED <<rx, ctx, fl, stop, thread, drain, sends, inputs>>

Close ==
    /\ stopper = "close" /\ thread[Vcpu].at # "input"
    /\ \A t \in Gos : thread[t].at = "idle"
    /\ handle' = "none" /\ closed' = TRUE /\ stopper' = "flag"
    /\ UNCHANGED <<rx, ctx, fl, stop, thread, drain, sends, inputs>>
StopFlag ==
    /\ stopper = "flag" /\ stop' = TRUE /\ stopper' = "poke"
    /\ UNCHANGED <<rx, go, fl, thread, drain, sends, inputs>>
StopPoke ==
    /\ stopper = "poke" /\ Poked /\ stopper' = "join"
    /\ UNCHANGED <<rx, go, stop, thread, drain, sends, inputs>>
StopJoin ==
    /\ stopper = "join" /\ flusher = "gone" /\ stopper' = "drop"
    /\ UNCHANGED <<rx, go, fl, stop, thread, drain, sends, inputs>>
\* The last reference to the backend goes: Gvisor's drop frees the context.
DropHost ==
    /\ stopper = "drop" /\ thread[Vcpu].at = "idle" /\ ctx' = FALSE /\ stopper' = "done"
    /\ UNCHANGED <<rx, handle, closed, fl, stop, thread, drain, sends, inputs>>

Next ==
    \/ (\E t \in Threads : WritePackets(t) \/ Deliver(t) \/ Inject(t) \/ Return(t))
    \/ (ctx /\ (AnswerDhcp \/ Input)) \/ InputDone \/ GuestTakes \/ OnRxSpace
    \/ Check \/ FlushPop \/ FlushInject \/ FlushEnd
    \/ Stop \/ Close \/ StopFlag \/ StopPoke \/ StopJoin \/ DropHost
Spec == Init /\ [][Next]_vars

TypeOK ==
    /\ handle \in {"live", "none"} /\ {closed, ctx, rxWake, poke, stop} \subseteq BOOLEAN
    /\ thread \in [Threads -> [at : {"idle", "callback", "inject", "input"}, left : 0..MaxSegs]]
    /\ held \in 0..HoldMax /\ backlog \in 0..(High + Cardinality(Threads)) /\ drain \in {"idle", "poke"}
    /\ flusher \in {"check", "wait", "flush", "inject", "gone"}
    /\ stopper \in {"idle", "close", "flag", "poke", "join", "drop", "done"}

\* The flusher never sleeps through its work: while it waits, frames are held
\* only for a guest that is to call on_rx_space, and a stop is not yet
\* announced -- or the poke that wakes it is about to come.
FlusherIsWoken ==
    flusher = "wait" =>
        /\ held > 0 => rxWake \/ drain = "poke" \/ stopper = "poke"
        /\ stop => stopper = "poke"

\* "Once this returns no send callback runs", and "no input races tvg_close":
\* past the close no thread is inside the Go stack or called back from it, so
\* the context it calls back with can be freed.
QuietAfterClose ==
    handle = "none" =>
        /\ \A t \in Gos : thread[t].at = "idle"
        /\ thread[Vcpu].at # "input"
=============================================================================
