------------------------------- MODULE VmStop --------------------------------
(***************************************************************************)
(* How a VM stops: the vCPU run loops (src/whp/run_loop.rs), the stop_all   *)
(* closure and the teardown that follows the BSP's return (src/main.rs),    *)
(* the snapshot trigger (src/whp/snapshot.rs), the guest's power-off        *)
(* (src/devices/power.rs) and the user's graceful stop (src/stop.rs).       *)
(*                                                                         *)
(* stop_all walks the vCPUs in order, setting each one's flag and then      *)
(* cancelling its WHvRunVirtualProcessor.  Any number of threads walk at    *)
(* once; walk[c] is how many of its 2 * N steps caller c has done, and      *)
(* 2 * N while it is not in stop_all.  A cancel is sticky: it ends the run  *)
(* in progress, or the next one.                                           *)
(***************************************************************************)
EXTENDS Integers

CONSTANTS N,         \* number of vCPUs; 0 is the BSP, on the main thread
          MaxAsks,   \* bound on the times the user asks to stop
          Save,      \* --save was given: the snapshot trigger is armed
          Stoppers   \* of "watchdog" (configured) and "sentinel" (the guest may print it)

VmAssumption ==
  /\ N \in Nat \ {0} /\ MaxAsks \in Nat /\ Save \in BOOLEAN
  /\ Stoppers \subseteq {"watchdog", "sentinel"}

Vcpus == 0..(N - 1)
APs == 1..(N - 1)
\* StopReason; is_fatal's three (an unhandled exit, an emulation failure, a
\* crash the guest reports) are one here.
Reasons == {"Fatal", "GuestHalted", "Cancelled", "SnapshotRequested"}

\* Who calls stop_all: a vCPU's thread (power-off, an AP that cannot go on, the
\* main thread after the BSP), the watchdog, the console's sentinel watcher,
\* the graceful-stop thread and the thread the user asks on.  The vCPUs are
\* numbered, and the others after them.
Watchdog == N
Sentinel == N + 1
Graceful == N + 2
Asker == N + 3
Callers == Vcpus \cup {Watchdog, Sentinel, Graceful, Asker}
NoOne == -1

VARIABLES
  flag, cancel, vcpu, reason,   \* per vCPU: stop flag, sticky cancel, thread, result
  walk,                         \* per caller: progress through stop_all
  main,                         \* the main thread once the BSP has returned
  armed,                        \* GracefulStop's stop_all has not been taken
  holder,                       \* owner of the mutex around it
  begun, graceful, asks, asker, \* GracefulStop
  watchdog, sentinel,           \* the other threads that may stop the VM
  saved

loop == <<flag, cancel, vcpu, reason>>
user == <<armed, holder, begun, graceful, asks, asker>>
vars == <<loop, walk, main, user, watchdog, sentinel, saved>>

Init ==
  /\ flag = [v \in Vcpus |-> FALSE]
  /\ cancel = [v \in Vcpus |-> FALSE]
  /\ vcpu = [v \in Vcpus |-> "top"]
  /\ reason = [v \in Vcpus |-> "none"]
  /\ walk = [c \in Callers |-> 2 * N]
  /\ main = "bsp" /\ armed = TRUE /\ holder = NoOne
  /\ begun = FALSE /\ graceful = "none" /\ asks = 0 /\ asker = "idle"
  /\ watchdog = IF "watchdog" \in Stoppers THEN "wait" ELSE "none"
  /\ sentinel = "watch"
  /\ saved = FALSE

-----------------------------------------------------------------------------
(* stop_all                                                                *)

Walking(c) == walk[c] < 2 * N
Call(c) == walk' = [walk EXCEPT ![c] = 0]

WalkFlag(c, v) ==
  /\ walk[c] = 2 * v
  /\ flag' = [flag EXCEPT ![v] = TRUE]
  /\ walk' = [walk EXCEPT ![c] = @ + 1]
  /\ UNCHANGED <<cancel, vcpu, reason, main, user, watchdog, sentinel, saved>>

\* Faulty: the walk steps past the next vCPU's flag.
WalkCancelSkips(c, v) ==
  /\ walk[c] = 2 * v + 1
  /\ cancel' = [cancel EXCEPT ![v] = TRUE]
  /\ walk' = [walk EXCEPT ![c] = @ + 2]
  /\ UNCHANGED <<flag, vcpu, reason, main, user, watchdog, sentinel, saved>>

WalkCancel(c, v) ==
  /\ walk[c] = 2 * v + 1
  /\ cancel' = [cancel EXCEPT ![v] = TRUE]
  /\ walk' = [walk EXCEPT ![c] = @ + 1]
  /\ UNCHANGED <<flag, vcpu, reason, main, user, watchdog, sentinel, saved>>

-----------------------------------------------------------------------------
(* RunLoop::run                                                            *)

\* The top of the loop looks at the stop flag.
CheckStop(v) ==
  /\ vcpu[v] = "top" /\ ~Walking(v)
  /\ IF flag[v]
     THEN /\ vcpu' = [vcpu EXCEPT ![v] = "returned"]
          /\ reason' = [reason EXCEPT ![v] = "Cancelled"]
     ELSE /\ vcpu' = [vcpu EXCEPT ![v] = "run"]
          /\ UNCHANGED reason
  /\ UNCHANGED <<flag, cancel, walk, main, user, watchdog, sentinel, saved>>

\* Faulty: a Canceled exit runs the vCPU again without looking at its flag.
CanceledRunsOn(v) ==
  /\ vcpu[v] = "run" /\ cancel[v]
  /\ cancel' = [cancel EXCEPT ![v] = FALSE]
  /\ UNCHANGED <<flag, vcpu, reason, walk, main, user, watchdog, sentinel, saved>>

\* WHvRunVirtualProcessor returns Canceled and consumes the cancel.
Canceled(v) ==
  /\ vcpu[v] = "run" /\ cancel[v]
  /\ cancel' = [cancel EXCEPT ![v] = FALSE]
  /\ vcpu' = [vcpu EXCEPT ![v] = "top"]
  /\ UNCHANGED <<flag, reason, walk, main, user, watchdog, sentinel, saved>>

\* An exit the loop handles and goes on from: MMIO, port I/O, CPUID, MSR, HLT
\* with interrupts on, hypercalls.  An unarmed snapshot leaf is one of them.
HandledExit(v) ==
  /\ vcpu[v] = "run"
  /\ vcpu' = [vcpu EXCEPT ![v] = "top"]
  /\ UNCHANGED <<flag, cancel, reason, walk, main, user, watchdog, sentinel, saved>>

\* The guest powers off or reboots: PowerDevice::raise calls stop_all on this
\* vCPU's thread, and the loop goes on to its top.
PowerOff(v) ==
  /\ vcpu[v] = "run"
  /\ vcpu' = [vcpu EXCEPT ![v] = "top"]
  /\ Call(v)
  /\ UNCHANGED <<flag, cancel, reason, main, user, watchdog, sentinel, saved>>

\* An exit that ends this vCPU: HLT with interrupts off, a failure, a crash the
\* guest reports, or the armed snapshot trigger.
FinalExit(v) ==
  /\ vcpu[v] = "run"
  /\ \E r \in Reasons \ {"Cancelled"} :
       /\ r = "SnapshotRequested" => Save
       /\ reason' = [reason EXCEPT ![v] = r]
  /\ vcpu' = [vcpu EXCEPT ![v] = "returned"]
  /\ UNCHANGED <<flag, cancel, walk, main, user, watchdog, sentinel, saved>>

\* The AP's thread stops the others unless the guest merely halted or it was
\* stopped itself; then the thread ends.
ApEnds(v) ==
  /\ v \in APs /\ vcpu[v] = "returned"
  /\ vcpu' = [vcpu EXCEPT ![v] = "ending"]
  /\ IF reason[v] \in {"Fatal", "SnapshotRequested"} THEN Call(v) ELSE UNCHANGED walk
  /\ UNCHANGED <<flag, cancel, reason, main, user, watchdog, sentinel, saved>>

-----------------------------------------------------------------------------
(* Teardown on the main thread, once bsp.run() has returned.               *)

MainStops ==
  /\ main = "bsp" /\ vcpu[0] = "returned"
  /\ Call(0)
  /\ main' = "disarm"
  /\ UNCHANGED <<loop, user, watchdog, sentinel, saved>>

\* Faulty: disarm leaves stop_all where it is.
DisarmNothing ==
  /\ main = "disarm" /\ ~Walking(0) /\ holder = NoOne
  /\ main' = "join"
  /\ UNCHANGED <<loop, walk, user, watchdog, sentinel, saved>>

\* GracefulStop::disarm takes stop_all out of its mutex, then the watchdog's
\* channel is dropped.
Disarm ==
  /\ main = "disarm" /\ ~Walking(0) /\ holder = NoOne
  /\ armed' = FALSE
  /\ main' = "join"
  /\ UNCHANGED <<loop, walk, holder, begun, graceful, asks, asker, watchdog, sentinel, saved>>

\* Faulty: the APs' threads are not joined.
JoinNothing ==
  /\ main = "join"
  /\ main' = "joined"
  /\ UNCHANGED <<loop, walk, user, watchdog, sentinel, saved>>

JoinVcpus ==
  /\ main = "join"
  /\ \A v \in APs : vcpu[v] = "ending" /\ ~Walking(v)
  /\ main' = "joined"
  /\ UNCHANGED <<loop, walk, user, watchdog, sentinel, saved>>

\* Faulty: only the BSP's reason is looked at.
SnapshotAskedByBsp == Save /\ reason[0] = "SnapshotRequested"

\* The watchdog thread is joined, blk and VMBus are quiesced, and the snapshot
\* is written if any vCPU asked for it.
SnapshotAsked == Save /\ \E v \in Vcpus : reason[v] = "SnapshotRequested"
Capture ==
  /\ main = "joined" /\ watchdog \in {"none", "ended"}
  /\ saved' = SnapshotAsked
  /\ main' = "release"
  /\ UNCHANGED <<loop, walk, user, watchdog, sentinel>>

\* ReleaseBeforeTeardown stops every transport, which joins the console's pump;
\* then the partition is deleted.
Release ==
  /\ main = "release" /\ ~Walking(Sentinel)
  /\ sentinel' = "stopped"
  /\ main' = "deleted"
  /\ UNCHANGED <<loop, walk, user, watchdog, saved>>

-----------------------------------------------------------------------------
(* Watchdog, sentinel, and the user.                                       *)

WatchdogFires ==
  /\ watchdog = "wait"
  /\ watchdog' = "fired"
  /\ Call(Watchdog)
  /\ UNCHANGED <<loop, main, user, sentinel, saved>>

\* The dropped channel wakes it, or stop_all has returned.
WatchdogEnds ==
  /\ \/ watchdog = "wait" /\ main \notin {"bsp", "disarm"}
     \/ watchdog = "fired" /\ ~Walking(Watchdog)
  /\ watchdog' = "ended"
  /\ UNCHANGED <<loop, walk, main, user, sentinel, saved>>

\* The console's TX drain meets the shutdown marker.
SentinelSeen ==
  /\ sentinel = "watch" /\ "sentinel" \in Stoppers
  /\ sentinel' = "fired"
  /\ Call(Sentinel)
  /\ UNCHANGED <<loop, main, user, watchdog, saved>>

Stopping == \E v \in Vcpus : flag[v]

\* GracefulStop::start, on the thread of a window close, Ctrl+C or Ctrl+A S:
\* once a flag is set there is nothing to do; the first ask spawns the
\* graceful-stop thread, or fails to and says nothing; a later one goes on to
\* now().  Ctrl+A X goes straight to now().
Ask ==
  /\ asks < MaxAsks /\ asker = "idle"
  /\ asks' = asks + 1
  /\ IF Stopping THEN UNCHANGED <<begun, graceful, asker>>
     ELSE \/ begun /\ asker' = "now" /\ UNCHANGED <<begun, graceful>>
          \/ ~begun /\ begun' = TRUE /\ graceful' \in {"request", "none"} /\ UNCHANGED asker
  /\ UNCHANGED <<loop, walk, main, armed, holder, watchdog, sentinel, saved>>

AskNow ==
  /\ asks < MaxAsks /\ asker = "idle"
  /\ asks' = asks + 1
  /\ asker' = "now"
  /\ UNCHANGED <<loop, walk, main, armed, holder, begun, graceful, watchdog, sentinel, saved>>

\* now(): lock stop_all, and run it unless teardown has taken it.
AskerNow ==
  /\ asker = "now" /\ holder = NoOne
  /\ IF armed THEN holder' = Asker /\ Call(Asker) /\ asker' = "stop"
              ELSE asker' = "idle" /\ UNCHANGED <<holder, walk>>
  /\ UNCHANGED <<loop, main, armed, begun, graceful, asks, watchdog, sentinel, saved>>

\* The shutdown IC: the guest took the request, or it did not or could not be
\* asked.
RequestShutdown ==
  /\ graceful = "request"
  /\ graceful' \in {"patience", "sysrq"}
  /\ UNCHANGED <<loop, walk, main, armed, holder, begun, asks, asker, watchdog, sentinel, saved>>

\* Wait for the guest to stop, at most patience.stop.
Patience ==
  /\ graceful = "patience"
  /\ graceful' = IF Stopping THEN "end" ELSE "sysrq"
  /\ UNCHANGED <<loop, walk, main, armed, holder, begun, asks, asker, watchdog, sentinel, saved>>

\* SysRq, wait for the disks to settle, then now().
GracefulNow ==
  /\ graceful = "sysrq" /\ holder = NoOne
  /\ IF armed THEN holder' = Graceful /\ Call(Graceful) /\ graceful' = "now"
              ELSE graceful' = "end" /\ UNCHANGED <<holder, walk>>
  /\ UNCHANGED <<loop, main, armed, begun, asks, asker, watchdog, sentinel, saved>>

\* now() returns and drops the mutex.
NowReturns ==
  /\ holder \in {Graceful, Asker} /\ ~Walking(holder)
  /\ graceful' = IF holder = Graceful THEN "end" ELSE graceful
  /\ asker' = IF holder = Asker THEN "idle" ELSE asker
  /\ holder' = NoOne
  /\ UNCHANGED <<loop, walk, main, armed, begun, asks, watchdog, sentinel, saved>>

-----------------------------------------------------------------------------
Walk(c) == \E v \in Vcpus : WalkFlag(c, v) \/ WalkCancel(c, v)
VcpuNext(v) == CheckStop(v) \/ Canceled(v) \/ HandledExit(v) \/ PowerOff(v) \/ FinalExit(v)
               \/ ApEnds(v)
MainNext == MainStops \/ Disarm \/ JoinVcpus \/ Capture \/ Release
UserNext == Ask \/ AskNow \/ AskerNow \/ RequestShutdown \/ Patience \/ GracefulNow \/ NowReturns

Next ==
  \/ \E c \in Callers : Walk(c)
  \/ \E v \in Vcpus : VcpuNext(v)
  \/ MainNext \/ UserNext
  \/ WatchdogFires \/ WatchdogEnds \/ SentinelSeen

Spec == Init /\ [][Next]_vars

\* Every host thread keeps running.  The guest owes nothing: a vCPU leaves
\* WHvRunVirtualProcessor for certain only when it is cancelled.
Fairness ==
  /\ \A c \in Callers : WF_vars(Walk(c))
  /\ \A v \in Vcpus : WF_vars(CheckStop(v)) /\ WF_vars(ApEnds(v)) /\ WF_vars(Canceled(v))
  /\ WF_vars(MainStops) /\ WF_vars(Disarm) /\ WF_vars(JoinVcpus) /\ WF_vars(Capture)
  /\ WF_vars(Release)
  /\ WF_vars(RequestShutdown) /\ WF_vars(Patience) /\ WF_vars(GracefulNow)
  /\ WF_vars(AskerNow) /\ WF_vars(NowReturns)
  /\ WF_vars(WatchdogEnds)

FairSpec == Spec /\ Fairness

-----------------------------------------------------------------------------
TypeOK ==
  /\ flag \in [Vcpus -> BOOLEAN] /\ cancel \in [Vcpus -> BOOLEAN]
  /\ vcpu \in [Vcpus -> {"top", "run", "returned", "ending"}]
  /\ reason \in [Vcpus -> Reasons \cup {"none"}]
  /\ walk \in [Callers -> 0..(2 * N)]
  /\ main \in {"bsp", "disarm", "join", "joined", "release", "deleted"}
  /\ armed \in BOOLEAN /\ holder \in {NoOne, Graceful, Asker}
  /\ begun \in BOOLEAN /\ asks \in 0..MaxAsks /\ asker \in {"idle", "now", "stop"}
  /\ graceful \in {"none", "request", "patience", "sysrq", "now", "end"}
  /\ watchdog \in {"none", "wait", "fired", "ended"}
  /\ sentinel \in {"watch", "fired", "stopped"}
  /\ saved \in BOOLEAN

(* Nothing stops a deleted partition: once the main thread deletes it, no
   thread is inside stop_all or can enter it again. *)
NoStopAfterDelete ==
  main = "deleted" => \A c \in Callers : ~Walking(c) /\ watchdog \notin {"wait", "fired"}

(* While the main thread tears devices down, no vCPU thread is left running
   and none will be stopped: the machine a snapshot captures does not move. *)
VcpusStillAtCapture ==
  main \in {"joined", "release", "deleted"} =>
    \A v \in Vcpus : vcpu[v] \in {"returned", "ending"} /\ (v \in APs => ~Walking(v))

(* Teardown is safe: the two together, in states of the right type. *)
StopSafe == TypeOK /\ NoStopAfterDelete /\ VcpusStillAtCapture

(* Whatever asks the VM to stop stops all of it: a flag set by anyone, a vCPU
   that cannot go on, a user whose guest ignores the request, or one who asks
   again after an ask whose thread did not start; whichever instruction of its
   run loop each vCPU is at, the main thread comes to delete the partition. *)
MustStop ==
  \/ Stopping \/ \E v \in Vcpus : reason[v] = "Fatal"
  \/ graceful # "none" \/ asker # "idle" \/ asks > 1
Deleted == main = "deleted"
StopIsNeverLost == MustStop ~> Deleted

(* The armed trigger is never lost: whichever vCPU fires it, and whoever else
   stops the VM meanwhile, the snapshot is written. *)
Triggered == \E v \in Vcpus : reason[v] = "SnapshotRequested"
Saved == saved
TriggerSaves == Triggered ~> Saved
=============================================================================
