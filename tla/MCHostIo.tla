------------------------------ MODULE MCHostIo -------------------------------
(***************************************************************************)
(* What must eventually happen, one component at a time: the block backend, *)
(* the virtio transport, the stop of the VM, the guest's answer to a        *)
(* shutdown request, the guest's init and its SSH sessions.  Each is fair   *)
(* as its own module says.                                                  *)
(***************************************************************************)
EXTENDS BlockFile, MCFocus

Transport == INSTANCE VirtioTransport WITH
    MaxRequests <- 3,
    common <- x1, qlock <- x2, status <- x3, reset_from <- x4, size <- x5, enable <- x6,
    ready <- x7, avail <- x8, live <- x9, stale <- x10, drv <- x11, acc <- x12, bar <- x13,
    doorbell <- x14, event <- x15, stop_event <- x16, pump <- x17, worker <- x18, vm <- x19
Vm == INSTANCE VmStop WITH
    N <- 2, MaxAsks <- 2, Save <- TRUE, Stoppers <- {},
    flag <- x1, cancel <- x2, vcpu <- x3, reason <- x4, walk <- x5, main <- x6, armed <- x7,
    holder <- x8, begun <- x9, graceful <- x10, asks <- x11, asker <- x12, watchdog <- x13,
    sentinel <- x14, saved <- x15
Ic == INSTANCE VmbusIc WITH
    Room <- 1, MaxOpens <- 2, MaxAsks <- 2,
    opens <- x1, channel <- x2, generation <- x3, woken <- x4, stop <- x5, freed <- x6,
    seen <- x7, mine <- x8, phase <- x9, pc <- x10, ticking <- x11, versions <- x12, ask <- x13,
    asker <- x14, asks <- x15, got <- x16, late <- x17, out <- x18, in <- x19, took <- x20
Guest == INSTANCE TinyInit WITH
    Frames <- 3, Workers <- {"w1", "w2"}, Shares <- {<<"srv">>, <<"srv", "data">>, <<"mnt">>},
    Services <- {"app", "sshd"}, Sshd <- "sshd", Others <- {"o1"}, MaxBytes <- 2, MaxOut <- 5,
    at <- x1, next <- x2, failure <- x3, claim <- x4, extracted <- x5, mounted <- x6,
    hidden <- x7, table <- x8, proc <- x9, blocked <- x10, pending <- x11, cmdSet <- x12,
    asked <- x13, out <- x14, cur <- x15, old <- x16
Ssh == INSTANCE SshSession WITH
    Ids <- {1, 2}, MaxChannels <- 1, MaxOut <- 1,
    conn <- x1, user <- x2, chan <- x3, pty <- x4, cancel <- x5, task <- x6, shell <- x7,
    job <- x8, unsent <- x9, cut <- x10, told <- x11

ASSUME HostIoAssumption ==
    /\ Transport!TransportAssumption
    /\ Vm!VmAssumption
    /\ Ic!VmbusIcAssumption
    /\ Guest!TinyInitAssumption
    /\ Ssh!SshAssumption

HostIoInit ==
    /\ Init
    /\ \/ focus = "file" /\ x1 = 0 /\ Blank2
       \/ focus = "transport" /\ Transport!Init /\ Blank20
       \/ focus = "stop" /\ Vm!Init /\ Blank16
       \/ focus = "ic" /\ Ic!Init /\ Blank21
       \/ focus = "init" /\ Guest!Init /\ Blank17
       \/ focus = "ssh" /\ Ssh!Init /\ Blank12

HostIoNext ==
    \/ focus = "file" /\ Next /\ UNCHANGED <<focus, x1, From2>>
    \/ focus = "transport" /\ Transport!Next /\ UNCHANGED <<focus, vars, From20>>
    \/ focus = "stop" /\ Vm!Next /\ UNCHANGED <<focus, vars, From16>>
    \/ focus = "ic" /\ Ic!Next /\ UNCHANGED <<focus, vars, From21>>
    \/ focus = "init" /\ Guest!Next /\ UNCHANGED <<focus, vars, From17>>
    \/ focus = "ssh" /\ Ssh!Next /\ UNCHANGED <<focus, vars, From12>>

-----------------------------------------------------------------------------
(* The components' fairness: a component that is not in focus takes no step  *)
(* and is owed none.                                                       *)

transportVars == <<x1, x2, x3, x4, x5, x6, x7, x8, x9, x10, x11, x12, x13, x14, x15, x16, x17, x18, x19>>
stopVars == <<x1, x2, x3, x4, x5, x6, x7, x8, x9, x10, x11, x12, x13, x14, x15>>
icVars == <<x1, x2, x3, x4, x5, x6, x7, x8, x9, x10, x11, x12, x13, x14, x15, x16, x17, x18, x19, x20>>
initVars == <<x1, x2, x3, x4, x5, x6, x7, x8, x9, x10, x11, x12, x13, x14, x15, x16>>
sshVars == <<x1, x2, x3, x4, x5, x6, x7, x8, x9, x10, x11>>

In(component, action) == focus = component /\ action

\* Operations are alike: one stands for all.
anOp == CHOOSE o \in Ops : TRUE

FileFair ==
    /\ \A o \in Ops : WF_vars(In("file", OpStep(o)))
    /\ SF_vars(In("file", Dequeue(anOp))) /\ WF_vars(In("file", \E o \in Ops : Dequeue(o)))
    /\ WF_vars(In("file", WorkerExit)) /\ WF_vars(In("file", StopDrained))
    /\ WF_vars(In("file", StopJoin))
TransportFair ==
    /\ WF_transportVars(In("transport", Transport!Vcpu)) /\ WF_transportVars(In("transport", Transport!Pump))
    /\ WF_transportVars(In("transport", Transport!WorkerRaise)) /\ WF_transportVars(In("transport", Transport!Finish))
    /\ WF_transportVars(In("transport", Transport!StopDisable))
VmFair ==
    /\ \A c \in 0..5 : WF_stopVars(In("stop", Vm!Walk(c)))
    /\ \A v \in 0..1 : /\ WF_stopVars(In("stop", Vm!CheckStop(v))) /\ WF_stopVars(In("stop", Vm!ApEnds(v)))
                       /\ WF_stopVars(In("stop", Vm!Canceled(v)))
    /\ WF_stopVars(In("stop", Vm!MainStops)) /\ WF_stopVars(In("stop", Vm!Disarm))
    /\ WF_stopVars(In("stop", Vm!JoinVcpus)) /\ WF_stopVars(In("stop", Vm!Capture))
    /\ WF_stopVars(In("stop", Vm!Release)) /\ WF_stopVars(In("stop", Vm!RequestShutdown))
    /\ WF_stopVars(In("stop", Vm!Patience)) /\ WF_stopVars(In("stop", Vm!GracefulNow))
    /\ WF_stopVars(In("stop", Vm!AskerNow)) /\ WF_stopVars(In("stop", Vm!NowReturns))
    /\ WF_stopVars(In("stop", Vm!WatchdogEnds))
IcFair ==
    /\ WF_icVars(In("ic", Ic!WakeStop)) /\ WF_icVars(In("ic", Ic!WakeReopen))
    /\ WF_icVars(In("ic", Ic!WakePass))
    /\ WF_icVars(In("ic", Ic!Negotiate)) /\ WF_icVars(In("ic", Ic!RecvVersions \/ Ic!Recv \/ Ic!RecvEnds))
    /\ WF_icVars(In("ic", Ic!Tick)) /\ WF_icVars(In("ic", Ic!RequestWakes))
    /\ WF_icVars(In("ic", Ic!RequestReturns)) /\ WF_icVars(In("ic", Ic!GuestAnswers))
GuestFair ==
    /\ WF_initVars(In("init", Guest!Pid1)) /\ WF_initVars(In("init", Guest!Worker))
    /\ \A i \in {1, 2} : WF_sshVars(In("ssh", Ssh!Serve(i)))

HostIoSpec ==
    /\ HostIoInit /\ [][HostIoNext]_<<vars, all>>
    /\ FileFair /\ TransportFair /\ VmFair /\ IcFair /\ GuestFair

-----------------------------------------------------------------------------
(* The components' properties; each module states them.                    *)

\* The transport: a reset read as done has left no older request, a queue the
\* device serves is one the registers call enabled, and after PciTransport::stop
\* nothing it drives runs.
TransportSafe ==
    focus = "transport" => Transport!TransportSafe

\* The guest's side: a shutdown request that was taken is this one; PID 1 boots
\* its services only on a whole root, sees each mount and each exit, and keeps the
\* tail of a log; an SSH session's processes end with it, and its output is read.
GuestCorrect ==
    /\ focus = "ic" => Ic!TypeOK /\ Ic!TookIsThisOne
    /\ focus = "init" => /\ Guest!TypeOK /\ Guest!RootIsWhole /\ Guest!SharesAreSeen
                         /\ Guest!NoExitMissed /\ Guest!LogsKeepTheTail
    /\ focus = "ssh" => Ssh!TypeOK /\ Ssh!SessionsEnd /\ Ssh!EofIsReached
\* What was asked for is done: the block backend answers every operation it
\* accepted, a request the driver kicked for is taken by the pump or the MMIO
\* fallback, and a request to shut the guest down returns.
RequestsAreServed ==
    \/ In("file", st[anOp] = "accepted")
    \/ In("transport", Transport!Kicked)
    \/ In("ic", Ic!Asking)
    ~> \/ In("file", st[anOp] = "idle")
       \/ In("transport", Transport!Served)
       \/ In("ic", Ic!AskOver)

\* What was told to stop stops: the block backend once its callers stop
\* submitting, the VM whoever asks, the guest once a service has ended, and an
\* SSH session (sessions are alike: the first stands for all).
StopsComplete ==
    /\ StopEnds
    /\ \/ In("stop", Vm!MustStop)
       \/ In("init", Guest!ServiceEnded)
       \/ In("ssh", Ssh!Ending(1))
       ~> \/ In("stop", Vm!Deleted)
          \/ In("init", Guest!Off)
          \/ In("ssh", Ssh!Over(1))

\* Nothing hangs on the way: no lock order and no join of the transport holds a
\* vCPU for ever, an armed snapshot trigger saves, and PID 1 boots or gives up.
NothingHangs ==
    \/ In("transport", Transport!InAccess)
    \/ In("stop", Vm!Triggered)
    \/ In("init", Guest!Booting)
    ~> \/ In("transport", ~Transport!InAccess)
       \/ In("stop", Vm!Saved)
       \/ In("init", Guest!Booted)
=============================================================================
