---------------------------- MODULE ServicesProofs ---------------------------
(***************************************************************************)
(* Proofs about the services around the devices: the stop and teardown of  *)
(* the VM, the NAT's flows and its reassembly, the Slirp, gVisor and Wintun *)
(* backends, the VMBus host, and the guest's init and ssh server.          *)
(* The components share no state here: each section is about one instance, *)
(* for every value of its constants, and the constants and variables that  *)
(* two of them have by the same name are declared once.                    *)
(***************************************************************************)
EXTENDS Integers, FiniteSets, Sequences, FiniteSetTheorems, SequenceTheorems,
        WellFoundedInduction, TLAPS

CONSTANTS N, MaxAsks, Save, Stoppers,                              \* VmStop
          Keys, MaxUdp, MaxSends,                                  \* NatUdp
          Senders, QueueMax, HoldMax, High, Low, MaxFrames, MaxBuilt, \* SlirpBackend
          Gos, MaxSegs, MaxInputs,                                 \* GvisorBackend
          MaxPackets, MaxSent,                                     \* WintunBackend
          MaxHost, MaxConns, MaxFull, Cap, Chunk, Ring,            \* NatFlow
          Vps, Targets, Gpadls, MaxOutbox, MaxGpadls, MaxPosts, MaxSaves, \* VmbusHost
          Ids, Units, MaxPending, MaxFrags,                        \* Reassembly
          Frames, Workers, Shares, Services, Sshd, Others, MaxBytes, MaxOut, \* TinyInit
          MaxChannels                                              \* SshSession

VARIABLES flag, cancel, vcpu, reason, walk, main, armed, holder, begun, graceful, asks, asker,
          watchdog, sentinel, saved,
          flow, used, op, io, skip, count, clock,
          tcb, boxes, kernel, host, guest, nic, stopped,
          up, frames, sock, sender, stop, stopper, worker, idle, batch, held, backlog, rxWake,
          got, built, sent,
          handle, closed, ctx, thread, drain, poke, flusher, sends, inputs,
          running, stopEvt, session, adapter, ring, pump, detached, injected, packets,
          connected, target, outbox, slotBusy, gpadls, open, outboxReady, slot, notify, due,
          kicked, aim, asked, posts, saves,
          pending, out, seen,
          at, next, failure, claim, extracted, mounted, hidden, table, proc, blocked, cmdSet,
          cur, old,
          conn, user, chan, pty, task, shell, job, unsent, cut, told

Vm == INSTANCE VmStop
Udp == INSTANCE NatUdp
Tcp == INSTANCE NatFlow
Slirp == INSTANCE SlirpBackend
Gvisor == INSTANCE GvisorBackend
Wintun == INSTANCE WintunBackend
Vmbus == INSTANCE VmbusHost
Frag == INSTANCE Reassembly
Guest == INSTANCE TinyInit
Ssh == INSTANCE SshSession

\* The instances' own copies of the finite sets' operators are these.
LEMMA FinitenessIsShared ==
  ASSUME NEW S
  PROVE  /\ (Udp!IsFiniteSet(S) <=> IsFiniteSet(S)) /\ Udp!Cardinality(S) = Cardinality(S)
         /\ (Gvisor!IsFiniteSet(S) <=> IsFiniteSet(S)) /\ Gvisor!Cardinality(S) = Cardinality(S)
         /\ (Frag!IsFiniteSet(S) <=> IsFiniteSet(S)) /\ Frag!Cardinality(S) = Cardinality(S)
  BY DEF IsFiniteSet, Cardinality, Udp!IsFiniteSet, Udp!Cardinality, Gvisor!IsFiniteSet,
         Gvisor!Cardinality, Frag!IsFiniteSet, Frag!Cardinality

-----------------------------------------------------------------------------
(* VmStop: every thread that can be inside stop_all is one the main thread   *)
(* has accounted for: itself, an AP it joins, the holder of the mutex that   *)
(* disarm takes stop_all out of, the watchdog it joins, or the console's     *)
(* pump, which release_backing_memory joins.                                 *)

\* Where each vCPU's thread is when it is inside stop_all, and what the main
\* thread knows of the vCPUs it has waited for.
VcpuInv ==
  /\ \A v \in Vm!Vcpus : Vm!Walking(v) => vcpu[v] \in {"top", "ending"} \/ (v = 0 /\ main = "disarm")
  /\ vcpu[0] # "ending"
  /\ main # "bsp" => vcpu[0] = "returned"
  /\ main \in {"joined", "release", "deleted"} => \A v \in Vm!APs : vcpu[v] = "ending" /\ ~Vm!Walking(v)

\* now() runs stop_all under its mutex, and only while it is armed; disarm takes
\* the mutex.
UserInv ==
  /\ Vm!Walking(Vm!Graceful) => holder = Vm!Graceful
  /\ Vm!Walking(Vm!Asker) => holder = Vm!Asker
  /\ holder # Vm!NoOne => armed
  /\ main \notin {"bsp", "disarm"} => ~armed /\ ~Vm!Walking(0)

\* The watchdog and the sentinel call stop_all once, and are joined.
OthersInv ==
  /\ Vm!Walking(Vm!Watchdog) => watchdog = "fired"
  /\ Vm!Walking(Vm!Sentinel) => sentinel = "fired"
  /\ main \in {"release", "deleted"} => watchdog \in {"none", "ended"}
  /\ main = "deleted" => sentinel = "stopped"

VmInv == Vm!TypeOK /\ VcpuInv /\ UserInv /\ OthersInv

-----------------------------------------------------------------------------
(* Who can be inside stop_all.                                             *)

(* The callers of stop_all are distinct, and the vCPUs are among them. *)
LEMMA CallersApart ==
  ASSUME Vm!VmAssumption
  PROVE  /\ 0 \in Vm!Vcpus /\ Vm!Vcpus \subseteq Vm!Callers /\ Vm!APs \subseteq Vm!Vcpus
         /\ \A v \in Vm!Vcpus : v \in Int /\ (v \in Vm!APs <=> v # 0)
         /\ {Vm!Watchdog, Vm!Sentinel, Vm!Graceful, Vm!Asker} \subseteq Vm!Callers
         /\ Vm!Watchdog \notin Vm!Vcpus /\ Vm!Sentinel \notin Vm!Vcpus
         /\ Vm!Graceful \notin Vm!Vcpus /\ Vm!Asker \notin Vm!Vcpus
         /\ Vm!Watchdog # Vm!Sentinel /\ Vm!Watchdog # Vm!Graceful /\ Vm!Watchdog # Vm!Asker
         /\ Vm!Sentinel # Vm!Graceful /\ Vm!Sentinel # Vm!Asker /\ Vm!Graceful # Vm!Asker
         /\ Vm!NoOne # Vm!Graceful /\ Vm!NoOne # Vm!Asker
         /\ \A c \in Vm!Callers : c \in Int
         /\ 2 * N \in Nat
  BY DEF Vm!VmAssumption, Vm!Vcpus, Vm!APs, Vm!Callers, Vm!Watchdog, Vm!Sentinel, Vm!Graceful,
     Vm!Asker, Vm!NoOne

(* A walk past vCPU v stays within its 2 * N steps. *)
LEMMA WalkBound ==
  ASSUME Vm!VmAssumption, NEW c \in Vm!Callers, NEW v \in Vm!Vcpus, walk[c] \in {2 * v, 2 * v + 1}
  PROVE  walk[c] + 1 \in 0..(2 * N)
  BY DEF Vm!VmAssumption, Vm!Vcpus

-----------------------------------------------------------------------------
(* What each step keeps.                                                   *)

(* Every step keeps the state in its types. *)
LEMMA VmTypeStep ==
  ASSUME Vm!VmAssumption, Vm!TypeOK, [Vm!Next]_(Vm!vars)
  PROVE  Vm!TypeOK'
<1> USE CallersApart DEF Vm!TypeOK, Vm!Call, Vm!Walking, Vm!Reasons
<1>1. ASSUME NEW c \in Vm!Callers, NEW v \in Vm!Vcpus, Vm!WalkFlag(c, v) PROVE Vm!TypeOK'
  BY <1>1, WalkBound DEF Vm!WalkFlag, Vm!loop, Vm!user
<1>2. ASSUME NEW c \in Vm!Callers, NEW v \in Vm!Vcpus, Vm!WalkCancel(c, v) PROVE Vm!TypeOK'
  BY <1>2, WalkBound DEF Vm!WalkCancel, Vm!loop, Vm!user
<1>3. ASSUME NEW v \in Vm!Vcpus, Vm!CheckStop(v) PROVE Vm!TypeOK'
  BY <1>3 DEF Vm!CheckStop, Vm!loop, Vm!user
<1>4. ASSUME NEW v \in Vm!Vcpus, Vm!Canceled(v) PROVE Vm!TypeOK'
  BY <1>4 DEF Vm!Canceled, Vm!loop, Vm!user
<1>5. ASSUME NEW v \in Vm!Vcpus, Vm!HandledExit(v) PROVE Vm!TypeOK'
  BY <1>5 DEF Vm!HandledExit, Vm!loop, Vm!user
<1>6. ASSUME NEW v \in Vm!Vcpus, Vm!PowerOff(v) PROVE Vm!TypeOK'
  BY <1>6 DEF Vm!PowerOff, Vm!loop, Vm!user
<1>7. ASSUME NEW v \in Vm!Vcpus, Vm!FinalExit(v) PROVE Vm!TypeOK'
  BY <1>7 DEF Vm!FinalExit, Vm!loop, Vm!user
<1>8. ASSUME NEW v \in Vm!Vcpus, Vm!ApEnds(v) PROVE Vm!TypeOK'
  BY <1>8 DEF Vm!ApEnds, Vm!loop, Vm!user
<1>9. ASSUME Vm!MainStops PROVE Vm!TypeOK'
  BY <1>9 DEF Vm!MainStops, Vm!loop, Vm!user
<1>10. ASSUME Vm!Disarm PROVE Vm!TypeOK'
  BY ZenonT(60), <1>10 DEF Vm!Disarm, Vm!loop, Vm!user
<1>11. ASSUME Vm!JoinVcpus PROVE Vm!TypeOK'
  BY <1>11 DEF Vm!JoinVcpus, Vm!loop, Vm!user
<1>12. ASSUME Vm!Capture PROVE Vm!TypeOK'
  BY <1>12 DEF Vm!Capture, Vm!loop, Vm!user, Vm!SnapshotAsked
<1>13. ASSUME Vm!Release PROVE Vm!TypeOK'
  BY <1>13 DEF Vm!Release, Vm!loop, Vm!user
<1>14. ASSUME Vm!Ask PROVE Vm!TypeOK'
  <2>1. asks' \in 0..MaxAsks
    BY <1>14 DEF Vm!Ask, Vm!VmAssumption
  <2>2. begun' \in BOOLEAN /\ asker' \in {"idle", "now", "stop"}
    BY <1>14 DEF Vm!Ask
  <2>3. graceful' \in {"none", "request", "patience", "sysrq", "now", "end"}
    BY <1>14 DEF Vm!Ask
  <2> QED
    BY <1>14, <2>1, <2>2, <2>3 DEF Vm!Ask, Vm!loop
<1>15. ASSUME Vm!AskNow PROVE Vm!TypeOK'
  BY <1>15 DEF Vm!AskNow, Vm!loop, Vm!user, Vm!VmAssumption
<1>16. ASSUME Vm!AskerNow PROVE Vm!TypeOK'
  BY <1>16 DEF Vm!AskerNow, Vm!loop, Vm!user
<1>17. ASSUME Vm!RequestShutdown PROVE Vm!TypeOK'
  BY <1>17 DEF Vm!RequestShutdown, Vm!loop, Vm!user
<1>18. ASSUME Vm!Patience PROVE Vm!TypeOK'
  BY <1>18 DEF Vm!Patience, Vm!loop, Vm!user, Vm!Stopping
<1>19. ASSUME Vm!GracefulNow PROVE Vm!TypeOK'
  BY <1>19 DEF Vm!GracefulNow, Vm!loop, Vm!user
<1>20. ASSUME Vm!NowReturns PROVE Vm!TypeOK'
  BY <1>20 DEF Vm!NowReturns, Vm!loop, Vm!user
<1>21. ASSUME Vm!WatchdogFires PROVE Vm!TypeOK'
  BY <1>21 DEF Vm!WatchdogFires, Vm!loop, Vm!user
<1>22. ASSUME Vm!WatchdogEnds PROVE Vm!TypeOK'
  BY <1>22 DEF Vm!WatchdogEnds, Vm!loop, Vm!user
<1>23. ASSUME Vm!SentinelSeen PROVE Vm!TypeOK'
  BY <1>23 DEF Vm!SentinelSeen, Vm!loop, Vm!user
<1>24. ASSUME UNCHANGED Vm!vars PROVE Vm!TypeOK'
  BY <1>24 DEF Vm!vars, Vm!loop, Vm!user
<1> QED
  BY <1>1, <1>2, <1>3, <1>4, <1>5, <1>6, <1>7, <1>8, <1>9, <1>10, <1>11,
        <1>12, <1>13, <1>14, <1>15, <1>16, <1>17, <1>18, <1>19, <1>20, <1>21,
        <1>22, <1>23, <1>24
     DEF Vm!Next, Vm!Walk, Vm!VcpuNext, Vm!MainNext, Vm!UserNext

(* Every step keeps the vCPU threads where the main thread believes them to be. *)
LEMMA VcpuStep ==
  ASSUME Vm!VmAssumption, Vm!TypeOK, VcpuInv, UserInv, [Vm!Next]_(Vm!vars)
  PROVE  VcpuInv'
<1> USE CallersApart DEF Vm!TypeOK, VcpuInv, UserInv, Vm!Call, Vm!Walking
<1>1. ASSUME NEW c \in Vm!Callers, NEW v \in Vm!Vcpus, Vm!WalkFlag(c, v) PROVE VcpuInv'
  BY <1>1 DEF Vm!WalkFlag, Vm!loop, Vm!user
<1>2. ASSUME NEW c \in Vm!Callers, NEW v \in Vm!Vcpus, Vm!WalkCancel(c, v) PROVE VcpuInv'
  BY <1>2 DEF Vm!WalkCancel, Vm!loop, Vm!user
<1>3. ASSUME NEW v \in Vm!Vcpus, Vm!CheckStop(v) PROVE VcpuInv'
  BY <1>3 DEF Vm!CheckStop, Vm!loop, Vm!user
<1>4. ASSUME NEW v \in Vm!Vcpus, Vm!Canceled(v) PROVE VcpuInv'
  BY <1>4 DEF Vm!Canceled, Vm!loop, Vm!user
<1>5. ASSUME NEW v \in Vm!Vcpus, Vm!HandledExit(v) PROVE VcpuInv'
  BY <1>5 DEF Vm!HandledExit, Vm!loop, Vm!user
<1>6. ASSUME NEW v \in Vm!Vcpus, Vm!PowerOff(v) PROVE VcpuInv'
  BY <1>6 DEF Vm!PowerOff, Vm!loop, Vm!user
<1>7. ASSUME NEW v \in Vm!Vcpus, Vm!FinalExit(v) PROVE VcpuInv'
  BY <1>7 DEF Vm!FinalExit, Vm!loop, Vm!user
<1>8. ASSUME NEW v \in Vm!Vcpus, Vm!ApEnds(v) PROVE VcpuInv'
  BY <1>8 DEF Vm!ApEnds, Vm!loop, Vm!user
<1>9. ASSUME Vm!MainStops PROVE VcpuInv'
  BY <1>9 DEF Vm!MainStops, Vm!loop, Vm!user
<1>10. ASSUME Vm!Disarm PROVE VcpuInv'
  BY <1>10 DEF Vm!Disarm, Vm!loop, Vm!user
<1>11. ASSUME Vm!JoinVcpus PROVE VcpuInv'
  BY <1>11 DEF Vm!JoinVcpus, Vm!loop, Vm!user
<1>12. ASSUME Vm!Capture PROVE VcpuInv'
  BY <1>12 DEF Vm!Capture, Vm!loop, Vm!user, Vm!SnapshotAsked
<1>13. ASSUME Vm!Release PROVE VcpuInv'
  BY <1>13 DEF Vm!Release, Vm!loop, Vm!user
<1>14. ASSUME Vm!Ask PROVE VcpuInv'
  BY <1>14 DEF Vm!Ask, Vm!loop, Vm!user
<1>15. ASSUME Vm!AskNow PROVE VcpuInv'
  BY <1>15 DEF Vm!AskNow, Vm!loop, Vm!user
<1>16. ASSUME Vm!AskerNow PROVE VcpuInv'
  BY <1>16 DEF Vm!AskerNow, Vm!loop, Vm!user
<1>17. ASSUME Vm!RequestShutdown PROVE VcpuInv'
  BY <1>17 DEF Vm!RequestShutdown, Vm!loop, Vm!user
<1>18. ASSUME Vm!Patience PROVE VcpuInv'
  BY <1>18 DEF Vm!Patience, Vm!loop, Vm!user, Vm!Stopping
<1>19. ASSUME Vm!GracefulNow PROVE VcpuInv'
  BY <1>19 DEF Vm!GracefulNow, Vm!loop, Vm!user
<1>20. ASSUME Vm!NowReturns PROVE VcpuInv'
  BY <1>20 DEF Vm!NowReturns, Vm!loop, Vm!user
<1>21. ASSUME Vm!WatchdogFires PROVE VcpuInv'
  BY <1>21 DEF Vm!WatchdogFires, Vm!loop, Vm!user
<1>22. ASSUME Vm!WatchdogEnds PROVE VcpuInv'
  BY <1>22 DEF Vm!WatchdogEnds, Vm!loop, Vm!user
<1>23. ASSUME Vm!SentinelSeen PROVE VcpuInv'
  BY <1>23 DEF Vm!SentinelSeen, Vm!loop, Vm!user
<1>24. ASSUME UNCHANGED Vm!vars PROVE VcpuInv'
  BY <1>24 DEF Vm!vars, Vm!loop, Vm!user
<1> QED
  BY <1>1, <1>2, <1>3, <1>4, <1>5, <1>6, <1>7, <1>8, <1>9, <1>10, <1>11,
        <1>12, <1>13, <1>14, <1>15, <1>16, <1>17, <1>18, <1>19, <1>20, <1>21,
        <1>22, <1>23, <1>24
     DEF Vm!Next, Vm!Walk, Vm!VcpuNext, Vm!MainNext, Vm!UserNext

(* Every step keeps the mutex around the walks of now(). *)
LEMMA UserStep ==
  ASSUME Vm!VmAssumption, Vm!TypeOK, VcpuInv, UserInv, [Vm!Next]_(Vm!vars)
  PROVE  UserInv'
<1> USE CallersApart DEF Vm!TypeOK, VcpuInv, UserInv, Vm!Call, Vm!Walking
<1>1. ASSUME NEW c \in Vm!Callers, NEW v \in Vm!Vcpus, Vm!WalkFlag(c, v) PROVE UserInv'
  BY <1>1 DEF Vm!WalkFlag, Vm!loop, Vm!user
<1>2. ASSUME NEW c \in Vm!Callers, NEW v \in Vm!Vcpus, Vm!WalkCancel(c, v) PROVE UserInv'
  BY <1>2 DEF Vm!WalkCancel, Vm!loop, Vm!user
<1>3. ASSUME NEW v \in Vm!Vcpus, Vm!CheckStop(v) PROVE UserInv'
  BY <1>3 DEF Vm!CheckStop, Vm!loop, Vm!user
<1>4. ASSUME NEW v \in Vm!Vcpus, Vm!Canceled(v) PROVE UserInv'
  BY <1>4 DEF Vm!Canceled, Vm!loop, Vm!user
<1>5. ASSUME NEW v \in Vm!Vcpus, Vm!HandledExit(v) PROVE UserInv'
  BY <1>5 DEF Vm!HandledExit, Vm!loop, Vm!user
<1>6. ASSUME NEW v \in Vm!Vcpus, Vm!PowerOff(v) PROVE UserInv'
  BY <1>6 DEF Vm!PowerOff, Vm!loop, Vm!user
<1>7. ASSUME NEW v \in Vm!Vcpus, Vm!FinalExit(v) PROVE UserInv'
  BY <1>7 DEF Vm!FinalExit, Vm!loop, Vm!user
<1>8. ASSUME NEW v \in Vm!Vcpus, Vm!ApEnds(v) PROVE UserInv'
  BY <1>8 DEF Vm!ApEnds, Vm!loop, Vm!user
<1>9. ASSUME Vm!MainStops PROVE UserInv'
  BY <1>9 DEF Vm!MainStops, Vm!loop, Vm!user
<1>10. ASSUME Vm!Disarm PROVE UserInv'
  BY <1>10 DEF Vm!Disarm, Vm!loop, Vm!user
<1>11. ASSUME Vm!JoinVcpus PROVE UserInv'
  BY <1>11 DEF Vm!JoinVcpus, Vm!loop, Vm!user
<1>12. ASSUME Vm!Capture PROVE UserInv'
  BY <1>12 DEF Vm!Capture, Vm!loop, Vm!user, Vm!SnapshotAsked
<1>13. ASSUME Vm!Release PROVE UserInv'
  BY <1>13 DEF Vm!Release, Vm!loop, Vm!user
<1>14. ASSUME Vm!Ask PROVE UserInv'
  BY <1>14 DEF Vm!Ask, Vm!loop, Vm!user
<1>15. ASSUME Vm!AskNow PROVE UserInv'
  BY <1>15 DEF Vm!AskNow, Vm!loop, Vm!user
<1>16. ASSUME Vm!AskerNow PROVE UserInv'
  BY <1>16 DEF Vm!AskerNow, Vm!loop, Vm!user
<1>17. ASSUME Vm!RequestShutdown PROVE UserInv'
  BY <1>17 DEF Vm!RequestShutdown, Vm!loop, Vm!user
<1>18. ASSUME Vm!Patience PROVE UserInv'
  BY <1>18 DEF Vm!Patience, Vm!loop, Vm!user, Vm!Stopping
<1>19. ASSUME Vm!GracefulNow PROVE UserInv'
  BY <1>19 DEF Vm!GracefulNow, Vm!loop, Vm!user
<1>20. ASSUME Vm!NowReturns PROVE UserInv'
  BY <1>20 DEF Vm!NowReturns, Vm!loop, Vm!user
<1>21. ASSUME Vm!WatchdogFires PROVE UserInv'
  BY <1>21 DEF Vm!WatchdogFires, Vm!loop, Vm!user
<1>22. ASSUME Vm!WatchdogEnds PROVE UserInv'
  BY <1>22 DEF Vm!WatchdogEnds, Vm!loop, Vm!user
<1>23. ASSUME Vm!SentinelSeen PROVE UserInv'
  BY <1>23 DEF Vm!SentinelSeen, Vm!loop, Vm!user
<1>24. ASSUME UNCHANGED Vm!vars PROVE UserInv'
  BY <1>24 DEF Vm!vars, Vm!loop, Vm!user
<1> QED
  BY <1>1, <1>2, <1>3, <1>4, <1>5, <1>6, <1>7, <1>8, <1>9, <1>10, <1>11,
        <1>12, <1>13, <1>14, <1>15, <1>16, <1>17, <1>18, <1>19, <1>20, <1>21,
        <1>22, <1>23, <1>24
     DEF Vm!Next, Vm!Walk, Vm!VcpuNext, Vm!MainNext, Vm!UserNext

(* Every step keeps account of the watchdog and the sentinel. *)
LEMMA OthersStep ==
  ASSUME Vm!VmAssumption, Vm!TypeOK, OthersInv, [Vm!Next]_(Vm!vars)
  PROVE  OthersInv'
<1> USE CallersApart DEF Vm!TypeOK, OthersInv, Vm!Call, Vm!Walking
<1>1. ASSUME NEW c \in Vm!Callers, NEW v \in Vm!Vcpus, Vm!WalkFlag(c, v) PROVE OthersInv'
  BY <1>1 DEF Vm!WalkFlag, Vm!loop, Vm!user
<1>2. ASSUME NEW c \in Vm!Callers, NEW v \in Vm!Vcpus, Vm!WalkCancel(c, v) PROVE OthersInv'
  BY <1>2 DEF Vm!WalkCancel, Vm!loop, Vm!user
<1>3. ASSUME NEW v \in Vm!Vcpus, Vm!CheckStop(v) PROVE OthersInv'
  BY <1>3 DEF Vm!CheckStop, Vm!loop, Vm!user
<1>4. ASSUME NEW v \in Vm!Vcpus, Vm!Canceled(v) PROVE OthersInv'
  BY <1>4 DEF Vm!Canceled, Vm!loop, Vm!user
<1>5. ASSUME NEW v \in Vm!Vcpus, Vm!HandledExit(v) PROVE OthersInv'
  BY <1>5 DEF Vm!HandledExit, Vm!loop, Vm!user
<1>6. ASSUME NEW v \in Vm!Vcpus, Vm!PowerOff(v) PROVE OthersInv'
  BY <1>6 DEF Vm!PowerOff, Vm!loop, Vm!user
<1>7. ASSUME NEW v \in Vm!Vcpus, Vm!FinalExit(v) PROVE OthersInv'
  BY <1>7 DEF Vm!FinalExit, Vm!loop, Vm!user
<1>8. ASSUME NEW v \in Vm!Vcpus, Vm!ApEnds(v) PROVE OthersInv'
  BY <1>8 DEF Vm!ApEnds, Vm!loop, Vm!user
<1>9. ASSUME Vm!MainStops PROVE OthersInv'
  BY <1>9 DEF Vm!MainStops, Vm!loop, Vm!user
<1>10. ASSUME Vm!Disarm PROVE OthersInv'
  BY <1>10 DEF Vm!Disarm, Vm!loop, Vm!user
<1>11. ASSUME Vm!JoinVcpus PROVE OthersInv'
  BY <1>11 DEF Vm!JoinVcpus, Vm!loop, Vm!user
<1>12. ASSUME Vm!Capture PROVE OthersInv'
  BY <1>12 DEF Vm!Capture, Vm!loop, Vm!user, Vm!SnapshotAsked
<1>13. ASSUME Vm!Release PROVE OthersInv'
  BY <1>13 DEF Vm!Release, Vm!loop, Vm!user
<1>14. ASSUME Vm!Ask PROVE OthersInv'
  BY <1>14 DEF Vm!Ask, Vm!loop, Vm!user
<1>15. ASSUME Vm!AskNow PROVE OthersInv'
  BY <1>15 DEF Vm!AskNow, Vm!loop, Vm!user
<1>16. ASSUME Vm!AskerNow PROVE OthersInv'
  BY <1>16 DEF Vm!AskerNow, Vm!loop, Vm!user
<1>17. ASSUME Vm!RequestShutdown PROVE OthersInv'
  BY <1>17 DEF Vm!RequestShutdown, Vm!loop, Vm!user
<1>18. ASSUME Vm!Patience PROVE OthersInv'
  BY <1>18 DEF Vm!Patience, Vm!loop, Vm!user, Vm!Stopping
<1>19. ASSUME Vm!GracefulNow PROVE OthersInv'
  BY <1>19 DEF Vm!GracefulNow, Vm!loop, Vm!user
<1>20. ASSUME Vm!NowReturns PROVE OthersInv'
  BY <1>20 DEF Vm!NowReturns, Vm!loop, Vm!user
<1>21. ASSUME Vm!WatchdogFires PROVE OthersInv'
  BY <1>21 DEF Vm!WatchdogFires, Vm!loop, Vm!user
<1>22. ASSUME Vm!WatchdogEnds PROVE OthersInv'
  BY <1>22 DEF Vm!WatchdogEnds, Vm!loop, Vm!user
<1>23. ASSUME Vm!SentinelSeen PROVE OthersInv'
  BY <1>23 DEF Vm!SentinelSeen, Vm!loop, Vm!user
<1>24. ASSUME UNCHANGED Vm!vars PROVE OthersInv'
  BY <1>24 DEF Vm!vars, Vm!loop, Vm!user
<1> QED
  BY <1>1, <1>2, <1>3, <1>4, <1>5, <1>6, <1>7, <1>8, <1>9, <1>10, <1>11,
        <1>12, <1>13, <1>14, <1>15, <1>16, <1>17, <1>18, <1>19, <1>20, <1>21,
        <1>22, <1>23, <1>24
     DEF Vm!Next, Vm!Walk, Vm!VcpuNext, Vm!MainNext, Vm!UserNext

-----------------------------------------------------------------------------
(* Teardown is safe.                                                       *)

\* The four parts are inductive together.
THEOREM VmInvariance ==
  ASSUME Vm!VmAssumption
  PROVE  Vm!Spec => []VmInv
<1>1. Vm!Init => VmInv
  <2> SUFFICES ASSUME Vm!Init PROVE VmInv
    OBVIOUS
  <2> USE CallersApart DEF Vm!Init, Vm!Walking
  <2>1. MaxAsks \in Nat /\ watchdog \in {"none", "wait", "fired", "ended"}
    BY DEF Vm!VmAssumption
  <2>2. walk \in [Vm!Callers -> 0..(2 * N)]
    OBVIOUS
  <2>3. asks \in 0..MaxAsks
    BY <2>1
  <2>4. flag \in [Vm!Vcpus -> BOOLEAN] /\ cancel \in [Vm!Vcpus -> BOOLEAN]
    OBVIOUS
  <2>5. /\ vcpu \in [Vm!Vcpus -> {"top", "run", "returned", "ending"}]
        /\ reason \in [Vm!Vcpus -> Vm!Reasons \cup {"none"}]
    OBVIOUS
  <2>6. Vm!TypeOK
    BY <2>1, <2>2, <2>3, <2>4, <2>5 DEF Vm!TypeOK
  <2>7. VcpuInv /\ UserInv /\ OthersInv
    BY DEF VcpuInv, UserInv, OthersInv
  <2> QED
    BY <2>6, <2>7 DEF VmInv
<1>2. VmInv /\ [Vm!Next]_(Vm!vars) => VmInv'
  BY VmTypeStep, VcpuStep, UserStep, OthersStep DEF VmInv
<1> QED
  BY <1>1, <1>2, PTL DEF Vm!Spec

\* Once the partition is deleted no thread is inside stop_all or can enter it,
\* and from the join of the APs' threads on no vCPU moves: main.rs's teardown
\* order is safe whoever stops the VM, and however many of them at once.
THEOREM TeardownIsSafe ==
  ASSUME Vm!VmAssumption
  PROVE  Vm!Spec => []Vm!StopSafe
<1>1. VmInv => Vm!StopSafe
  <2> SUFFICES ASSUME VmInv PROVE Vm!StopSafe
    OBVIOUS
  <2> USE CallersApart DEF VmInv, VcpuInv, UserInv, OthersInv
  <2>1. Vm!NoStopAfterDelete
    <3> SUFFICES ASSUME main = "deleted", NEW c \in Vm!Callers
                 PROVE  ~Vm!Walking(c) /\ watchdog \notin {"wait", "fired"}
      BY DEF Vm!NoStopAfterDelete
    <3> QED
      BY DEF Vm!Callers
  <2>2. Vm!VcpusStillAtCapture
    BY DEF Vm!VcpusStillAtCapture
  <2> QED
    BY <2>1, <2>2 DEF Vm!StopSafe
<1> QED
  BY <1>1, VmInvariance, PTL

-----------------------------------------------------------------------------
(* NatUdp: a flow in a worker's table always has something under way, a      *)
(* receive, its completion or a yield, so whoever serves that finds the flow *)
(* and either puts something else under way or reaps it with its op.         *)

\* The flows, their ops and what points at them, as the steps pass them on.
UdpState ==
    [flow : [Keys -> {"none", "live", "dead"}], op : [Keys -> {"pool", "flow"}],
     io : [Keys -> {"none", "recv", "done", "more"}], count : Nat]
InTable(f) == {k \in Keys : f[k] # "none"}
LiveFlows(f) == {k \in Keys : f[k] = "live"}

\* A state with nothing under way for the flows of hole, which a worker is at.
UdpOk(s, hole) ==
    /\ s \in UdpState
    /\ \A k \in Keys : s.op[k] = "pool" <=> s.flow[k] = "none"
    /\ \A k \in Keys \ hole : s.io[k] # "none" <=> s.flow[k] # "none"
    /\ \A k \in hole : s.io[k] = "none" /\ s.flow[k] # "none"
    /\ s.count = Cardinality(InTable(s.flow))
    /\ Cardinality(LiveFlows(s.flow)) <= MaxUdp

UdpInv == UdpOk(Udp!State, {}) /\ skip \in [Keys -> BOOLEAN] /\ used \in [Keys -> Nat] /\ clock \in Nat

-----------------------------------------------------------------------------
LEMMA TableSets ==
  ASSUME Udp!NatUdpAssumption, NEW f, NEW g, NEW k \in Keys, \A j \in Keys \ {k} : g[j] = f[j]
  PROVE  /\ IsFiniteSet(InTable(f)) /\ IsFiniteSet(LiveFlows(f))
         /\ Cardinality(InTable(f)) \in Nat /\ Cardinality(LiveFlows(f)) \in Nat
         /\ f[k] = "none" /\ g[k] # "none" => Cardinality(InTable(g)) = Cardinality(InTable(f)) + 1
         /\ f[k] # "none" /\ g[k] = "none" => Cardinality(InTable(g)) = Cardinality(InTable(f)) - 1
         /\ (f[k] = "none" <=> g[k] = "none") => Cardinality(InTable(g)) = Cardinality(InTable(f))
         /\ f[k] # "live" /\ g[k] = "live" => Cardinality(LiveFlows(g)) = Cardinality(LiveFlows(f)) + 1
         /\ f[k] = "live" /\ g[k] # "live" => Cardinality(LiveFlows(g)) = Cardinality(LiveFlows(f)) - 1
         /\ (f[k] = "live" <=> g[k] = "live") => Cardinality(LiveFlows(g)) = Cardinality(LiveFlows(f))
         /\ Cardinality(LiveFlows(f)) <= Cardinality(InTable(f))
<1>1. IsFiniteSet(InTable(f)) /\ IsFiniteSet(LiveFlows(f)) /\ LiveFlows(f) \subseteq InTable(f)
  BY FS_Subset, FinitenessIsShared DEF Udp!NatUdpAssumption, InTable, LiveFlows
<1>2. Cardinality(InTable(f)) \in Nat /\ Cardinality(LiveFlows(f)) \in Nat
  BY <1>1, FS_CardinalityType
<1>3. Cardinality(LiveFlows(f)) <= Cardinality(InTable(f))
  BY <1>1, FS_Subset
<1>4. ASSUME f[k] = "none", g[k] # "none"
      PROVE  Cardinality(InTable(g)) = Cardinality(InTable(f)) + 1
  <2>1. InTable(g) = InTable(f) \cup {k} /\ k \notin InTable(f)
    BY <1>4 DEF InTable
  <2> QED
    BY SMTT(60), <1>1, <2>1, FS_AddElement
<1>5. ASSUME f[k] # "none", g[k] = "none"
      PROVE  Cardinality(InTable(g)) = Cardinality(InTable(f)) - 1
  <2>1. InTable(g) = InTable(f) \ {k} /\ k \in InTable(f)
    BY <1>5 DEF InTable
  <2> QED
    BY <1>1, <2>1, FS_RemoveElement
<1>6. ASSUME f[k] = "none" <=> g[k] = "none" PROVE InTable(g) = InTable(f)
  BY <1>6 DEF InTable
<1>7. ASSUME f[k] # "live", g[k] = "live"
      PROVE  Cardinality(LiveFlows(g)) = Cardinality(LiveFlows(f)) + 1
  <2>1. LiveFlows(g) = LiveFlows(f) \cup {k} /\ k \notin LiveFlows(f)
    BY <1>7 DEF LiveFlows
  <2> QED
    BY <1>1, <2>1, FS_AddElement
<1>8. ASSUME f[k] = "live", g[k] # "live"
      PROVE  Cardinality(LiveFlows(g)) = Cardinality(LiveFlows(f)) - 1
  <2>1. LiveFlows(g) = LiveFlows(f) \ {k} /\ k \in LiveFlows(f)
    BY <1>8 DEF LiveFlows
  <2> QED
    BY <1>1, <2>1, FS_RemoveElement
<1>9. ASSUME f[k] = "live" <=> g[k] = "live" PROVE LiveFlows(g) = LiveFlows(f)
  BY <1>9 DEF LiveFlows
<1> QED
  BY <1>1, <1>2, <1>3, <1>4, <1>5, <1>6, <1>7, <1>8, <1>9

LEMMA ReapServed ==
  ASSUME Udp!NatUdpAssumption, NEW s, NEW k \in Keys, UdpOk(s, {k})
  PROVE  UdpOk(Udp!Reaped(s, k), {})
<1> DEFINE r == Udp!Reaped(s, k)
<1>1. s \in UdpState
  BY DEF UdpOk
<1>2. r = [flow |-> [s.flow EXCEPT ![k] = "none"], op |-> [s.op EXCEPT ![k] = "pool"],
           io |-> s.io, count |-> s.count - 1]
  <2> DEFINE a == [s EXCEPT !.flow[k] = "none"]
             b == [a EXCEPT !.op[k] = "pool"]
  <2>1. s = [flow |-> s.flow, op |-> s.op, io |-> s.io, count |-> s.count]
    BY <1>1 DEF UdpState
  <2>2. a = [flow |-> [s.flow EXCEPT ![k] = "none"], op |-> s.op, io |-> s.io, count |-> s.count]
    BY <2>1
  <2>3. r = [b EXCEPT !.count = @ - 1]
    BY DEF Udp!Reaped
  <2> HIDE DEF r, a
  <2>4. a.flow = [s.flow EXCEPT ![k] = "none"] /\ a.op = s.op /\ a.io = s.io /\ a.count = s.count
        /\ a = [flow |-> a.flow, op |-> a.op, io |-> a.io, count |-> a.count]
    BY <2>2
  <2>5. b = [flow |-> a.flow, op |-> [a.op EXCEPT ![k] = "pool"], io |-> a.io, count |-> a.count]
    BY <2>4
  <2> HIDE DEF b
  <2>6. b.flow = a.flow /\ b.op = [a.op EXCEPT ![k] = "pool"] /\ b.io = a.io /\ b.count = a.count
    BY <2>5
  <2>7. r = [flow |-> b.flow, op |-> b.op, io |-> b.io, count |-> b.count - 1]
    BY <2>3, <2>5
  <2> QED
    BY <2>4, <2>6, <2>7
<1>3. /\ r.flow = [s.flow EXCEPT ![k] = "none"] /\ r.op = [s.op EXCEPT ![k] = "pool"]
      /\ r.io = s.io /\ r.count = s.count - 1
  BY <1>2
<1> HIDE DEF r
<1>4. s.flow[k] # "none" /\ s.io[k] = "none"
  BY DEF UdpOk
<1>5. /\ r.count = Cardinality(InTable(r.flow)) /\ r.count \in Nat
      /\ Cardinality(LiveFlows(r.flow)) <= MaxUdp
  <2>1. r.flow[k] = "none" /\ \A j \in Keys \ {k} : r.flow[j] = s.flow[j]
    BY <1>1, <1>3 DEF UdpState
  <2>2. MaxUdp \in Nat
    BY DEF Udp!NatUdpAssumption
  <2>3. Cardinality(InTable(r.flow)) = Cardinality(InTable(s.flow)) - 1
    BY <1>4, <2>1, TableSets
  <2>4. \A j \in Keys \ {k} : s.flow[j] = r.flow[j]
    BY <2>1
  <2>5. Cardinality(InTable(r.flow)) \in Nat /\ Cardinality(LiveFlows(r.flow)) \in Nat
        /\ Cardinality(LiveFlows(s.flow)) \in Nat
    BY <2>1, <2>4, TableSets
  <2>6. \/ Cardinality(LiveFlows(r.flow)) = Cardinality(LiveFlows(s.flow)) - 1
        \/ Cardinality(LiveFlows(r.flow)) = Cardinality(LiveFlows(s.flow))
    <3>1. CASE s.flow[k] = "live"
      BY <3>1, <2>1, TableSets
    <3>2. CASE s.flow[k] # "live"
      BY <3>2, <2>1, TableSets
    <3> QED
      BY <3>1, <3>2
  <2> QED
    BY <1>3, <2>2, <2>3, <2>5, <2>6 DEF UdpOk
<1>6. r \in UdpState
  BY <1>1, <1>2, <1>3, <1>5 DEF UdpState, r
<1>7. \A j \in Keys : (r.op[j] = "pool" <=> r.flow[j] = "none") /\ (r.io[j] # "none" <=> r.flow[j] # "none")
  BY <1>1, <1>3, <1>4 DEF UdpOk, UdpState
<1> QED
  BY <1>5, <1>6, <1>7 DEF UdpOk, r

\* udp_pump leaves the flow with something under way, or reaps it.
LEMMA PumpServes ==
  ASSUME Udp!NatUdpAssumption, NEW s, NEW k \in Keys, UdpOk(s, {k}), NEW n, NEW sk,
         NEW t \in Udp!Pump(s, k, n, sk)
  PROVE  UdpOk(t, {})
<1>0. s \in UdpState
  BY DEF UdpOk
<1>1. ASSUME NEW x \in {"recv", "done", "more"}, t = [s EXCEPT !.io[k] = x]
      PROVE  UdpOk(t, {})
  <2>1. t = [flow |-> s.flow, op |-> s.op, io |-> [s.io EXCEPT ![k] = x], count |-> s.count]
    BY <1>0, <1>1 DEF UdpState
  <2>2. t.flow = s.flow /\ t.op = s.op /\ t.count = s.count /\ t.io = [s.io EXCEPT ![k] = x]
    BY <2>1
  <2>3. t \in UdpState
    BY <1>0, <2>1 DEF UdpState
  <2>4. \A j \in Keys : t.io[j] # "none" <=> t.flow[j] # "none"
    BY <1>0, <2>2 DEF UdpOk, UdpState
  <2> QED
    BY <2>2, <2>3, <2>4 DEF UdpOk
<1>2. t = Udp!Reaped(s, k) \/ \E x \in {"recv", "done", "more"} : t = [s EXCEPT !.io[k] = x]
  BY DEF Udp!Pump
<1> QED
  BY <1>1, <1>2, ReapServed

\* on_udp_recv and on_udp_more take what was under way.
LEMMA Serving ==
  ASSUME UdpInv, NEW k \in Keys, io[k] # "none"
  PROVE  UdpOk([Udp!State EXCEPT !.io[k] = "none"], {k})
<1> DEFINE s == [Udp!State EXCEPT !.io[k] = "none"]
<1>1. Udp!State \in UdpState
  BY DEF UdpInv, UdpOk
<1>2. s = [flow |-> flow, op |-> op, io |-> [io EXCEPT ![k] = "none"], count |-> count]
  BY DEF Udp!State
<1> HIDE DEF s
<1>3. s.flow = flow /\ s.op = op /\ s.count = count /\ s.io = [io EXCEPT ![k] = "none"]
  BY <1>2
<1>4. Udp!State.flow = flow /\ Udp!State.op = op /\ Udp!State.io = io /\ Udp!State.count = count
  BY DEF Udp!State
<1>5. flow \in [Keys -> {"none", "live", "dead"}] /\ op \in [Keys -> {"pool", "flow"}]
      /\ io \in [Keys -> {"none", "recv", "done", "more"}] /\ count \in Nat
  BY <1>1, <1>4 DEF UdpState
<1>6. s \in UdpState
  BY <1>2, <1>5 DEF UdpState
<1>7. \A j \in Keys : io[j] # "none" <=> flow[j] # "none"
  BY <1>4 DEF UdpInv, UdpOk
<1>8. /\ \A j \in Keys \ {k} : s.io[j] # "none" <=> s.flow[j] # "none"
      /\ s.io[k] = "none" /\ s.flow[k] # "none"
  BY <1>3, <1>5, <1>7
<1>9. UdpOk(s, {k})
  BY <1>3, <1>4, <1>6, <1>8 DEF UdpInv, UdpOk
<1> QED
  BY <1>9 DEF s

LEMMA Becoming ==
  ASSUME NEW t, t \in UdpState, Udp!Become(t)
  PROVE  Udp!State' = t
BY DEF Udp!State, Udp!Become, UdpState

\* A flow is marked dead; what is under way for it stays.
LEMMA KillKeeps ==
  ASSUME Udp!NatUdpAssumption, UdpInv, NEW j \in Keys, flow[j] = "live"
  PROVE  /\ UdpOk(Udp!Killed(Udp!State, j), {})
         /\ Udp!Killed(Udp!State, j).flow = [flow EXCEPT ![j] = "dead"]
         /\ Cardinality(LiveFlows(Udp!Killed(Udp!State, j).flow)) < MaxUdp
<1> DEFINE r == Udp!Killed(Udp!State, j)
<1>1. Udp!State \in UdpState /\ Udp!State.flow = flow /\ Udp!State.op = op /\ Udp!State.io = io /\ Udp!State.count = count
  BY DEF UdpInv, UdpOk, Udp!State
<1>2. r = [flow |-> [flow EXCEPT ![j] = "dead"], op |-> op, io |-> io, count |-> count]
  BY DEF Udp!Killed, Udp!State
<1> HIDE DEF r
<1>3. r.flow = [flow EXCEPT ![j] = "dead"] /\ r.op = op /\ r.io = io /\ r.count = count
  BY <1>2
<1>4. flow \in [Keys -> {"none", "live", "dead"}] /\ op \in [Keys -> {"pool", "flow"}]
      /\ io \in [Keys -> {"none", "recv", "done", "more"}] /\ count \in Nat
  BY <1>1 DEF UdpState
<1>5. r \in UdpState
  BY <1>2, <1>4 DEF UdpState
<1>6. r.flow[j] = "dead" /\ \A i \in Keys \ {j} : r.flow[i] = flow[i]
  BY <1>3, <1>4
<1>7. Cardinality(InTable(r.flow)) = Cardinality(InTable(flow))
  BY <1>6, TableSets
<1>8. Cardinality(LiveFlows(r.flow)) = Cardinality(LiveFlows(flow)) - 1 /\ Cardinality(LiveFlows(flow)) \in Nat
  BY <1>6, TableSets
<1>9. Cardinality(LiveFlows(flow)) <= MaxUdp /\ MaxUdp \in Nat /\ count = Cardinality(InTable(flow))
  BY <1>1 DEF UdpInv, UdpOk, Udp!NatUdpAssumption
<1>10. \A i \in Keys : (r.op[i] = "pool" <=> r.flow[i] = "none") /\ (r.io[i] # "none" <=> r.flow[i] # "none")
  <2>1. \A i \in Keys : (op[i] = "pool" <=> flow[i] = "none") /\ (io[i] # "none" <=> flow[i] # "none")
    BY <1>1 DEF UdpInv, UdpOk
  <2> QED
    BY <1>3, <1>6, <2>1
<1>11. UdpOk(r, {})
  BY <1>3, <1>5, <1>7, <1>8, <1>9, <1>10 DEF UdpOk
<1>12. Cardinality(LiveFlows(r.flow)) < MaxUdp
  BY <1>8, <1>9
<1> QED
  BY <1>3, <1>11, <1>12 DEF r

\* ensure_udp_flow: below the cap, or past an eviction, there is room for one.
LEMMA NewFlow ==
  ASSUME Udp!NatUdpAssumption, NEW v, UdpOk(v, {}), NEW k \in Keys, v.flow[k] = "none",
         Cardinality(LiveFlows(v.flow)) < MaxUdp,
         NEW s, s = [v EXCEPT !.flow[k] = "live", !.op[k] = "flow", !.count = @ + 1]
  PROVE  UdpOk(s, {k})
<1>1. v \in UdpState
  BY DEF UdpOk
<1>2. s = [flow |-> [v.flow EXCEPT ![k] = "live"], op |-> [v.op EXCEPT ![k] = "flow"],
           io |-> v.io, count |-> v.count + 1]
  BY <1>1 DEF UdpState
<1>3. /\ s.flow = [v.flow EXCEPT ![k] = "live"] /\ s.op = [v.op EXCEPT ![k] = "flow"]
      /\ s.io = v.io /\ s.count = v.count + 1
  BY <1>2
<1>4. s \in UdpState
  BY <1>1, <1>2 DEF UdpState
<1>5. s.flow[k] = "live" /\ \A j \in Keys \ {k} : s.flow[j] = v.flow[j]
  BY <1>1, <1>3 DEF UdpState
<1>6. /\ Cardinality(InTable(s.flow)) = Cardinality(InTable(v.flow)) + 1
      /\ Cardinality(LiveFlows(s.flow)) = Cardinality(LiveFlows(v.flow)) + 1
      /\ Cardinality(LiveFlows(v.flow)) \in Nat
  BY <1>5, TableSets
<1>7. s.count = Cardinality(InTable(s.flow)) /\ Cardinality(LiveFlows(s.flow)) <= MaxUdp
  BY <1>3, <1>6 DEF UdpOk, Udp!NatUdpAssumption
<1>8. \A j \in Keys : s.op[j] = "pool" <=> s.flow[j] = "none"
  BY <1>1, <1>3 DEF UdpOk, UdpState
<1>9. \A j \in Keys \ {k} : s.io[j] # "none" <=> s.flow[j] # "none"
  BY <1>3, <1>5 DEF UdpOk
<1>10. s.io[k] = "none" /\ s.flow[k] # "none"
  BY <1>3, <1>5 DEF UdpOk
<1> QED
  BY <1>4, <1>7, <1>8, <1>9, <1>10 DEF UdpOk

LEMMA UdpStep ==
  ASSUME Udp!NatUdpAssumption, UdpInv, [Udp!Next]_(Udp!vars)
  PROVE  UdpInv'
<1>f. Udp!State.flow = flow /\ Udp!State.op = op /\ Udp!State.io = io /\ Udp!State.count = count
  BY DEF Udp!State
<1>t. flow \in [Keys -> {"none", "live", "dead"}]
  BY <1>f DEF UdpInv, UdpOk, UdpState
<1>r. /\ skip \in [Keys -> BOOLEAN] /\ used \in [Keys -> Nat] /\ clock \in Nat
      /\ UdpOk(Udp!State, {})
  BY DEF UdpInv
<1>b. ASSUME NEW t, UdpOk(t, {}), Udp!Become(t) PROVE UdpOk(Udp!State, {})'
  <2>1. Udp!State' = t
    BY <1>b, Becoming DEF UdpOk
  <2> QED
    BY <1>b, <2>1 DEF UdpOk, UdpState, InTable, LiveFlows
<1>s. ASSUME UNCHANGED <<flow, op, io, count>> PROVE UdpOk(Udp!State, {})'
  <2>1. Udp!State' = Udp!State
    BY <1>s DEF Udp!State
  <2> QED
    BY <1>r, <2>1 DEF UdpOk, UdpState, InTable, LiveFlows
<1>1. ASSUME NEW k \in Keys, Udp!GuestSends(k) PROVE UdpInv'
  <2>a. clock + 1 \in Nat
    BY <1>r
  <2>b. clock' = clock + 1 /\ used' = [used EXCEPT ![k] = clock + 1]
    BY <1>1, Zenon DEF Udp!GuestSends
  <2>1. clock' \in Nat /\ used' \in [Keys -> Nat]
    BY <2>a, <2>b, <1>r
  <2>2. CASE flow[k] # "none"
    BY <1>1, <1>r, <1>s, <2>1, <2>2 DEF Udp!GuestSends, UdpInv
  <2>3. CASE flow[k] = "none"
    <3>1. PICK victim \in IF count < MaxUdp THEN {k} ELSE {j \in Keys : Udp!Lru(j)}, sk \in BOOLEAN :
              LET v == IF victim = k THEN Udp!State ELSE Udp!Killed(Udp!State, victim)
                  s == [v EXCEPT !.flow[k] = "live", !.op[k] = "flow", !.count = @ + 1]
              IN /\ skip' = [skip EXCEPT ![k] = sk]
                 /\ \E t \in Udp!Pump(s, k, 0, sk) : Udp!Become(t)
      BY <1>1, <2>3 DEF Udp!GuestSends
    <3> DEFINE v == IF victim = k THEN Udp!State ELSE Udp!Killed(Udp!State, victim)
               s == [v EXCEPT !.flow[k] = "live", !.op[k] = "flow", !.count = @ + 1]
    <3>2. skip' = [skip EXCEPT ![k] = sk] /\ \E t \in Udp!Pump(s, k, 0, sk) : Udp!Become(t)
      BY <3>1
    <3>3. UdpOk(v, {}) /\ v.flow[k] = "none" /\ Cardinality(LiveFlows(v.flow)) < MaxUdp
      <4>1. CASE count < MaxUdp
        <5>1. v = Udp!State
          BY <4>1
        <5>2. Cardinality(LiveFlows(flow)) <= Cardinality(InTable(flow))
              /\ Cardinality(LiveFlows(flow)) \in Nat /\ Cardinality(InTable(flow)) \in Nat
          BY TableSets
        <5>3. count = Cardinality(InTable(flow)) /\ MaxUdp \in Nat
          BY <1>r, <1>f DEF UdpOk, Udp!NatUdpAssumption
        <5>4. Cardinality(LiveFlows(flow)) < MaxUdp
          BY <4>1, <5>2, <5>3
        <5> QED
          BY <1>r, <1>f, <2>3, <5>1, <5>4
      <4>2. CASE ~(count < MaxUdp)
        <5>1. victim \in Keys /\ flow[victim] = "live"
          BY <4>2 DEF Udp!Lru
        <5>2. v = Udp!Killed(Udp!State, victim) /\ victim # k
          BY <2>3, <5>1
        <5>3. v.flow = [flow EXCEPT ![victim] = "dead"]
          BY <5>1, <5>2, KillKeeps
        <5>4. v.flow[k] = "none"
          BY <1>t, <2>3, <5>2, <5>3
        <5> QED
          BY <5>1, <5>2, <5>4, KillKeeps
      <4> QED
        BY <4>1, <4>2
    <3> HIDE DEF v
    <3>4. UdpOk(s, {k})
      BY <3>3, NewFlow
    <3> HIDE DEF s
    <3>5. PICK t \in Udp!Pump(s, k, 0, sk) : Udp!Become(t)
      BY <3>2
    <3>6. UdpOk(Udp!State, {})'
      BY <1>b, <3>4, <3>5, PumpServes
    <3> QED
      BY <1>r, <2>1, <3>2, <3>6 DEF UdpInv
  <2> QED
    BY <2>2, <2>3
<1>2. ASSUME NEW k \in Keys, Udp!GuestSendFails(k) PROVE UdpInv'
  BY <1>2, <1>r, <1>s DEF Udp!GuestSendFails, UdpInv
<1>3. ASSUME NEW k \in Keys, Udp!Expire(k) PROVE UdpInv'
  BY <1>3, <1>r, <1>b, KillKeeps DEF Udp!Expire, UdpInv
<1>4. ASSUME NEW k \in Keys, Udp!RecvFinishes(k) PROVE UdpInv'
  <2>1. Udp!State' = [flow |-> flow, op |-> op, io |-> [io EXCEPT ![k] = "done"], count |-> count]
    BY <1>4 DEF Udp!RecvFinishes, Udp!State
  <2>2. /\ Udp!State'.flow = flow /\ Udp!State'.op = op /\ Udp!State'.count = count
        /\ Udp!State'.io = [io EXCEPT ![k] = "done"]
    BY <2>1
  <2>3. Udp!State' \in UdpState
    BY <1>r, <1>f, <2>1 DEF UdpOk, UdpState
  <2>4. flow[k] # "none"
    BY <1>4, <1>r, <1>f DEF Udp!RecvFinishes, UdpOk
  <2>5. io \in [Keys -> {"none", "recv", "done", "more"}]
    BY <1>r, <1>f DEF UdpOk, UdpState
  <2>6. \A j \in Keys : Udp!State'.io[j] # "none" <=> Udp!State'.flow[j] # "none"
    BY <1>r, <1>f, <2>2, <2>4, <2>5 DEF UdpOk
  <2>7. UdpOk(Udp!State, {})'
    BY <1>r, <1>f, <2>2, <2>3, <2>6 DEF UdpOk, UdpState, InTable, LiveFlows
  <2> QED
    BY <1>4, <1>r, <2>7 DEF Udp!RecvFinishes, UdpInv
<1>5. ASSUME NEW k \in Keys, NEW ok \in BOOLEAN, Udp!OnUdpRecv(k, ok) PROVE UdpInv'
  <2> DEFINE s == [Udp!State EXCEPT !.io[k] = "none"]
  <2>1. UdpOk(s, {k})
    BY <1>5, Serving DEF Udp!OnUdpRecv
  <2>2. Udp!Become(Udp!Reaped(s, k)) \/ \E t \in Udp!Pump(s, k, 1, skip[k]) : Udp!Become(t)
    BY <1>5 DEF Udp!OnUdpRecv
  <2> HIDE DEF s
  <2>3. UdpOk(Udp!State, {})'
    BY <1>b, <2>1, <2>2, ReapServed, PumpServes
  <2> QED
    BY <1>5, <1>r, <2>3 DEF Udp!OnUdpRecv, UdpInv
<1>6. ASSUME NEW k \in Keys, Udp!OnUdpMore(k) PROVE UdpInv'
  <2> DEFINE s == [Udp!State EXCEPT !.io[k] = "none"]
  <2>1. UdpOk(s, {k})
    BY <1>6, Serving DEF Udp!OnUdpMore
  <2>2. Udp!Become(Udp!Reaped(s, k)) \/ \E t \in Udp!Pump(s, k, 0, skip[k]) : Udp!Become(t)
    BY <1>6 DEF Udp!OnUdpMore
  <2> HIDE DEF s
  <2>3. UdpOk(Udp!State, {})'
    BY <1>b, <2>1, <2>2, ReapServed, PumpServes
  <2> QED
    BY <1>6, <1>r, <2>3 DEF Udp!OnUdpMore, UdpInv
<1>7. CASE UNCHANGED Udp!vars
  BY <1>7, <1>r, <1>s DEF Udp!vars, UdpInv
<1> QED
  BY <1>1, <1>2, <1>3, <1>4, <1>5, <1>6, <1>7 DEF Udp!Next

\* Every op of a UDP flow is in the pool or has something under way that will
\* bring its worker back to it, the count is that of the table, and the cap on
\* live flows holds: dispatch, eviction and reaping lose and reuse no op.
THEOREM UdpOpsAreNeverLost ==
  ASSUME Udp!NatUdpAssumption
  PROVE  Udp!Spec => [](Udp!TypeOK /\ Udp!UdpOpsDrain)
<1>1. Udp!Init => UdpInv
  <2> SUFFICES ASSUME Udp!Init PROVE UdpInv
    OBVIOUS
  <2> USE DEF Udp!Init
  <2>1. Udp!State = [flow |-> flow, op |-> op, io |-> io, count |-> count] /\ Udp!State.flow = flow /\ Udp!State.op = op
        /\ Udp!State.io = io /\ Udp!State.count = count
    BY DEF Udp!State
  <2>2. Udp!State \in UdpState
    BY <2>1 DEF UdpState
  <2>3. InTable(flow) = {} /\ LiveFlows(flow) = {}
    BY DEF InTable, LiveFlows
  <2>4. Cardinality({}) = 0 /\ 0 <= MaxUdp
    BY FS_EmptySet DEF Udp!NatUdpAssumption
  <2>5. UdpOk(Udp!State, {})
    BY <2>1, <2>2, <2>3, <2>4 DEF UdpOk
  <2> QED
    BY <2>5 DEF UdpInv
<1>2. UdpInv /\ [Udp!Next]_(Udp!vars) => UdpInv'
  BY UdpStep
<1>3. UdpInv => Udp!TypeOK /\ Udp!UdpOpsDrain
  <2> SUFFICES ASSUME UdpInv PROVE Udp!TypeOK /\ Udp!UdpOpsDrain
    OBVIOUS
  <2>1. Udp!State.flow = flow /\ Udp!State.op = op /\ Udp!State.io = io /\ Udp!State.count = count
    BY DEF Udp!State
  <2> QED
    BY <2>1, FinitenessIsShared DEF UdpInv, UdpOk, UdpState, Udp!TypeOK, Udp!UdpOpsDrain, InTable,
       LiveFlows
<1> QED
  BY <1>1, <1>2, <1>3, PTL DEF Udp!Spec

-----------------------------------------------------------------------------
(* SlirpBackend: a frame in the queue has its wake datagram sent, on its way *)
(* or owed by the sender that queued it, unless the worker has yet to take   *)
(* the queue; the frames the guest has, the NIC's backlog and the frames     *)
(* held back are, in that order, in the order libslirp built them.           *)

SlirpType ==
    /\ up \in {"starting", "up", "failed", "stopped"} /\ frames \in 0 .. QueueMax /\ sock \in Nat
    /\ armed \in BOOLEAN /\ stop \in BOOLEAN /\ idle \in BOOLEAN /\ rxWake \in BOOLEAN
    /\ sender \in [Slirp!Threads -> {"idle", "wake", "send"}]
    /\ stopper \in {"idle", "send", "join", "done"}
    /\ worker \in {"new", "top", "poll", "drain", "disarm", "take", "input", "flush", "gone"}
    /\ batch \in 0 .. QueueMax

\* The held frames and the backlog stay within their bounds.
FrameInv ==
    /\ held \in Seq(Nat) /\ backlog \in Seq(Nat) /\ got \in Seq(Nat) /\ built \in Nat
    /\ Len(held) <= HoldMax /\ Len(backlog) <= High

\* Every frame the guest has or will have, in its order, is an earlier one.
Rising(s, n) ==
    /\ \A i \in 1 .. Len(s) : s[i] < n
    /\ \A i, j \in 1 .. Len(s) : i < j => s[i] < s[j]
OrderInv == Rising(got \o (backlog \o held), built)

\* Where the worker is past the queue it took, or has not come to it.
Before == worker \in {"new", "top", "poll", "input", "flush"}
Signalled == sock > 0 \/ \E t \in Slirp!Threads : sender[t] = "send"
WakeInv ==
    /\ armed /\ (Before \/ worker = "take") => Signalled
    /\ frames > 0 /\ Before => Signalled \/ \E t \in Slirp!Threads : sender[t] = "wake"

\* The stop's datagram, whether or not a wake is armed; and the timeout the
\* worker chose still fits what it holds.
StopInv ==
    /\ stop => stopper # "idle"
    /\ stop /\ worker = "poll" => stopper = "send" \/ sock > 0
    /\ worker = "poll" /\ idle => held = <<>>

SlirpInv == SlirpType /\ FrameInv /\ OrderInv /\ WakeInv /\ StopInv

-----------------------------------------------------------------------------
LEMMA SlirpConstants ==
  ASSUME Slirp!SlirpAssumption
  PROVE  /\ QueueMax \in Nat /\ QueueMax > 0 /\ HoldMax \in Nat /\ HoldMax > 0
         /\ High \in Nat /\ High > 0 /\ Low \in Nat
BY DEF Slirp!SlirpAssumption

LEMMA SlirpTypeStep ==
  ASSUME Slirp!SlirpAssumption, SlirpType, [Slirp!Next]_(Slirp!vars)
  PROVE  SlirpType'
<1> USE SlirpConstants DEF Slirp!tx, Slirp!life, Slirp!rx, Slirp!wk, SlirpType
<1>1. CASE Slirp!Start
  BY <1>1 DEF Slirp!Start
<1>2. ASSUME NEW t \in Senders, Slirp!OnGuestFrame(t) PROVE SlirpType'
  <2>1. CASE frames >= QueueMax
    BY <1>2, <2>1 DEF Slirp!OnGuestFrame
  <2>2. CASE ~(frames >= QueueMax)
    <3>1. frames' \in 0 .. QueueMax
      BY <1>2, <2>2 DEF Slirp!OnGuestFrame
    <3>2. sender' \in [Slirp!Threads -> {"idle", "wake", "send"}]
      BY <1>2, <2>2 DEF Slirp!OnGuestFrame
    <3> QED
      BY <1>2, <3>1, <3>2 DEF Slirp!OnGuestFrame
  <2> QED
    BY <2>1, <2>2
<1>3. ASSUME NEW t \in Slirp!Threads, Slirp!Wake(t) PROVE SlirpType'
  BY <1>3 DEF Slirp!Wake
<1>4. ASSUME NEW t \in Slirp!Threads, Slirp!SendDatagram(t) PROVE SlirpType'
  <2>1. sock' \in Nat
    BY <1>4 DEF Slirp!SendDatagram
  <2>2. sender' \in [Slirp!Threads -> {"idle", "wake", "send"}]
    BY <1>4 DEF Slirp!SendDatagram
  <2> QED
    BY <1>4, <2>1, <2>2 DEF Slirp!SendDatagram
<1>5. CASE Slirp!GuestTakes
  <2>1. rxWake' \in BOOLEAN /\ sender' \in [Slirp!Threads -> {"idle", "wake", "send"}]
    BY <1>5, Zenon DEF Slirp!GuestTakes, Slirp!Threads
  <2> QED
    BY <1>5, <2>1 DEF Slirp!GuestTakes
<1>6. CASE Slirp!Top
  <2>1. idle' \in BOOLEAN
    BY <1>6, Zenon DEF Slirp!Top, Slirp!Timeout
  <2> QED
    BY <1>6, <2>1 DEF Slirp!Top
<1>7. Slirp!MaySend => rxWake' \in BOOLEAN
  <2>1. Slirp!SendPacket => rxWake' \in BOOLEAN
    BY Zenon DEF Slirp!SendPacket
  <2> QED
    BY <2>1 DEF Slirp!MaySend
<1>8. CASE Slirp!Poll
  BY <1>7, <1>8 DEF Slirp!Poll
<1>9. CASE Slirp!Drain
  BY <1>9 DEF Slirp!Drain
<1>10. CASE Slirp!Disarm
  BY <1>10 DEF Slirp!Disarm
<1>11. CASE Slirp!Take
  BY <1>11 DEF Slirp!Take
<1>12. CASE Slirp!Input
  <2>1. CASE batch > 0
    <3>1. batch' \in 0 .. QueueMax
      BY <1>12, <2>1 DEF Slirp!Input
    <3> QED
      BY <1>7, <1>12, <2>1, <3>1 DEF Slirp!Input
  <2>2. CASE ~(batch > 0)
    BY <1>12, <2>2 DEF Slirp!Input
  <2> QED
    BY <2>1, <2>2
<1>13. CASE Slirp!Flush
  <2>1. rxWake' \in BOOLEAN
    BY <1>13, Zenon DEF Slirp!Flush
  <2> QED
    BY <1>13, <2>1 DEF Slirp!Flush
<1>14. CASE Slirp!StopFlag
  BY <1>14 DEF Slirp!StopFlag
<1>15. CASE Slirp!StopSend
  BY <1>15 DEF Slirp!StopSend
<1>16. CASE Slirp!StopJoin
  BY <1>16 DEF Slirp!StopJoin
<1>17. CASE UNCHANGED Slirp!vars
  BY <1>17 DEF Slirp!vars
<1> QED
  BY <1>1, <1>2, <1>3, <1>4, <1>5, <1>6, <1>8, <1>9, <1>10, <1>11, <1>12, <1>13, <1>14, <1>15,
     <1>16,
     <1>17 DEF Slirp!Next, Slirp!Worker

\* What can change the frames: libslirp builds one, the guest takes one, or
\* the worker delivers one that was held.
LEMMA FrameMoves ==
  ASSUME [Slirp!Next]_(Slirp!vars)
  PROVE  \/ Slirp!SendPacket /\ UNCHANGED got
         \/ Slirp!GuestTakes
         \/ held # <<>> /\ ~Slirp!Congested /\ backlog' = Append(backlog, Head(held)) /\ held' = Tail(held)
            /\ UNCHANGED <<built, got>>
         \/ UNCHANGED <<held, backlog, got, built>>
<1>1. CASE Slirp!Worker
  BY <1>1 DEF Slirp!Worker, Slirp!Top, Slirp!Poll, Slirp!Drain, Slirp!Disarm, Slirp!Take,
     Slirp!Input, Slirp!Flush, Slirp!MaySend, Slirp!rx
<1> QED
  BY <1>1 DEF Slirp!Next, Slirp!vars, Slirp!rx, Slirp!Start, Slirp!OnGuestFrame, Slirp!Wake,
     Slirp!SendDatagram, Slirp!StopFlag, Slirp!StopSend, Slirp!StopJoin

LEMMA Reassociated ==
  ASSUME NEW a \in Seq(Nat), NEW b \in Seq(Nat), NEW c \in Seq(Nat)
  PROVE  (a \o b) \o c = a \o (b \o c)
OBVIOUS

\* A frame taken from the front of one queue to the end of the one before it.
LEMMA Shifted ==
  ASSUME NEW a \in Seq(Nat), NEW b \in Seq(Nat), b # <<>>
  PROVE  /\ Append(a, Head(b)) \o Tail(b) = a \o b
         /\ Append(a, Head(b)) \in Seq(Nat) /\ Tail(b) \in Seq(Nat)
         /\ Len(Append(a, Head(b))) = Len(a) + 1 /\ Len(Tail(b)) = Len(b) - 1
<1> DEFINE x == Append(a, Head(b))
           y == Tail(b)
<1>1. Head(b) \in Nat /\ Head(b) = b[1] /\ y \in Seq(Nat) /\ Len(y) = Len(b) - 1
      /\ \A i \in 1 .. Len(y) : y[i] = b[i + 1]
  BY HeadTailProperties
<1>2. x \in Seq(Nat) /\ Len(x) = Len(a) + 1 /\ (\A i \in 1 .. Len(a) : x[i] = a[i]) /\ x[Len(a) + 1] = Head(b)
  BY <1>1, AppendProperties
<1> HIDE DEF x, y
<1>3. x \o y \in Seq(Nat) /\ Len(x \o y) = Len(x) + Len(y)
      /\ \A i \in 1 .. Len(x) + Len(y) : (x \o y)[i] = IF i <= Len(x) THEN x[i] ELSE y[i - Len(x)]
  BY <1>1, <1>2, ConcatProperties
<1>4. a \o b \in Seq(Nat) /\ Len(a \o b) = Len(a) + Len(b)
      /\ \A i \in 1 .. Len(a) + Len(b) : (a \o b)[i] = IF i <= Len(a) THEN a[i] ELSE b[i - Len(a)]
  BY ConcatProperties
<1>5. Len(a) \in Nat /\ Len(b) \in Nat
  BY LenProperties
<1>6. Len(x \o y) = Len(a \o b)
  BY <1>1, <1>2, <1>3, <1>4, <1>5
<1>7. \A i \in 1 .. Len(x \o y) : (x \o y)[i] = (a \o b)[i]
  <2> SUFFICES ASSUME NEW i \in 1 .. Len(x \o y) PROVE (x \o y)[i] = (a \o b)[i]
    OBVIOUS
  <2>1. i \in 1 .. Len(a) + Len(b) /\ i \in 1 .. Len(x) + Len(y)
    BY <1>3, <1>4, <1>6
  <2>2. CASE i <= Len(a)
    BY <1>2, <1>3, <1>4, <1>5, <2>1, <2>2
  <2>3. CASE i = Len(a) + 1
    BY <1>1, <1>2, <1>3, <1>4, <1>5, <2>1, <2>3
  <2>4. CASE i > Len(a) + 1
    <3>1. i - Len(x) \in 1 .. Len(y) /\ (i - Len(x)) + 1 = i - Len(a)
      BY <1>1, <1>2, <1>5, <2>1, <2>4
    <3>2. (x \o y)[i] = y[i - Len(x)]
      <4>1. ~(i <= Len(x))
        BY <1>2, <1>5, <2>1, <2>4
      <4>2. (x \o y)[i] = IF i <= Len(x) THEN x[i] ELSE y[i - Len(x)]
        BY ONLY <1>3, <2>1
      <4> QED
        BY <4>1, <4>2
    <3>3. y[i - Len(x)] = b[i - Len(a)]
      BY <1>1, <3>1
    <3>4. (a \o b)[i] = b[i - Len(a)]
      BY <1>4, <1>5, <2>1, <2>4
    <3> QED
      BY <3>2, <3>3, <3>4
  <2>5. i <= Len(a) \/ i = Len(a) + 1 \/ i > Len(a) + 1
    BY <1>5, <2>1
  <2> QED
    BY <2>2, <2>3, <2>4, <2>5
<1>8. x \o y = a \o b
  BY <1>3, <1>4, <1>6, <1>7, SeqEqual
<1> QED
  BY <1>1, <1>2, <1>8 DEF x, y

LEMMA FrameStep ==
  ASSUME Slirp!SlirpAssumption, FrameInv, [Slirp!Next]_(Slirp!vars)
  PROVE  FrameInv'
<1> USE SlirpConstants DEF FrameInv
<1>l. Len(held) \in Nat /\ Len(backlog) \in Nat
  BY LenProperties
<1>1. CASE Slirp!SendPacket /\ UNCHANGED got
  <2>0. built \in Nat /\ built' = built + 1
    BY <1>1 DEF Slirp!SendPacket
  <2>1. CASE Slirp!Direct
    <3>1. backlog' = Append(backlog, built) /\ held' = held
      BY <1>1, <2>1 DEF Slirp!SendPacket
    <3>2. backlog' \in Seq(Nat) /\ Len(backlog') = Len(backlog) + 1
      BY <2>0, <3>1, AppendProperties
    <3> QED
      BY <1>1, <1>l, <2>0, <2>1, <3>1, <3>2 DEF Slirp!Direct, Slirp!Congested
  <2>2. CASE ~Slirp!Direct
    <3>1. held' = IF Len(held) >= HoldMax THEN held ELSE Append(held, built)
      BY <1>1, <2>2 DEF Slirp!SendPacket
    <3>2. Append(held, built) \in Seq(Nat) /\ Len(Append(held, built)) = Len(held) + 1
      BY <2>0, AppendProperties
    <3>3. held' \in Seq(Nat) /\ Len(held') <= HoldMax
      BY <1>l, <3>1, <3>2
    <3> QED
      BY <1>1, <2>0, <2>2, <3>3 DEF Slirp!SendPacket
  <2> QED
    BY <2>1, <2>2
<1>2. CASE Slirp!GuestTakes
  <2>1. got' = Append(got, Head(backlog)) /\ backlog' = Tail(backlog) /\ backlog # <<>>
        /\ UNCHANGED <<held, built>>
    BY <1>2 DEF Slirp!GuestTakes
  <2>2. got' \in Seq(Nat) /\ backlog' \in Seq(Nat) /\ Len(backlog') = Len(backlog) - 1
    BY <2>1, Shifted
  <2> QED
    BY <1>l, <2>1, <2>2
<1>3. CASE held # <<>> /\ ~Slirp!Congested /\ backlog' = Append(backlog, Head(held)) /\ held' = Tail(held)
           /\ UNCHANGED <<built, got>>
  <2>1. backlog' \in Seq(Nat) /\ held' \in Seq(Nat) /\ Len(backlog') = Len(backlog) + 1
        /\ Len(held') = Len(held) - 1
    BY <1>3, Shifted
  <2> QED
    BY <1>3, <1>l, <2>1 DEF Slirp!Congested
<1>4. CASE UNCHANGED <<held, backlog, got, built>>
  BY <1>4
<1> QED
  BY <1>1, <1>2, <1>3, <1>4, FrameMoves

\* A new frame is later than every one there is.
LEMMA RisingAppend ==
  ASSUME NEW s \in Seq(Nat), NEW n \in Nat, Rising(s, n)
  PROVE  Rising(Append(s, n), n + 1) /\ Rising(s, n + 1)
<1> DEFINE x == Append(s, n)
<1>1. x \in Seq(Nat) /\ Len(x) = Len(s) + 1 /\ (\A i \in 1 .. Len(s) : x[i] = s[i]) /\ x[Len(s) + 1] = n
  BY AppendProperties
<1>2. Len(s) \in Nat /\ \A i \in 1 .. Len(s) : s[i] \in Nat
  BY LenProperties, ElementOfSeq
<1> HIDE DEF x
<1>3. \A i \in 1 .. Len(x) : x[i] < n + 1
  BY SMTT(60), <1>1, <1>2 DEF Rising
<1>4. \A i, j \in 1 .. Len(x) : i < j => x[i] < x[j]
  <2> SUFFICES ASSUME NEW i \in 1 .. Len(x), NEW j \in 1 .. Len(x), i < j PROVE x[i] < x[j]
    OBVIOUS
  <2>1. i \in 1 .. Len(s) /\ x[i] = s[i]
    BY SMTT(60), <1>1, <1>2
  <2>2. CASE j = Len(s) + 1
    BY <1>1, <2>1, <2>2 DEF Rising
  <2>3. CASE j # Len(s) + 1
    <3>1. j \in 1 .. Len(s)
      <4>1. Len(x) = Len(s) + 1 /\ Len(s) \in Nat
        BY <1>1, <1>2
      <4> QED
        BY <2>3, <4>1
    <3> QED
      BY <1>1, <2>1, <3>1 DEF Rising
  <2> QED
    BY <2>2, <2>3
<1>5. Rising(s, n + 1)
  BY <1>2 DEF Rising
<1> QED
  BY <1>3, <1>4, <1>5 DEF Rising, x

LEMMA OrderStep ==
  ASSUME Slirp!SlirpAssumption, FrameInv, OrderInv, [Slirp!Next]_(Slirp!vars)
  PROVE  OrderInv'
<1> DEFINE all == got \o (backlog \o held)
<1>0. backlog \o held \in Seq(Nat) /\ all \in Seq(Nat) /\ held \in Seq(Nat) /\ backlog \in Seq(Nat)
      /\ got \in Seq(Nat) /\ built \in Nat
  BY ConcatProperties DEF FrameInv
<1>1. CASE Slirp!SendPacket /\ UNCHANGED got
  <2>0. built' = built + 1 /\ got' = got
    BY <1>1 DEF Slirp!SendPacket
  <2>1. Append(all, built) = all \o <<built>> /\ <<built>> \in Seq(Nat)
    BY <1>0, AppendIsConcat
  <2>2. Rising(Append(all, built), built + 1) /\ Rising(all, built + 1)
    BY <1>0, RisingAppend DEF OrderInv
  <2>3. all \o <<built>> = got \o ((backlog \o held) \o <<built>>)
    BY ZenonT(60), <1>0, <2>1, Reassociated
  <2>4. (backlog \o held) \o <<built>> = backlog \o (held \o <<built>>)
    BY SMTT(60), <1>0, <2>1, Reassociated
  <2>5. held \o <<built>> = Append(held, built) /\ Append(backlog, built) = backlog \o <<built>>
    BY <1>0, AppendIsConcat
  <2>6. CASE Slirp!Direct
    <3>1. backlog' = Append(backlog, built) /\ held' = held /\ held = <<>>
      BY <1>1, <2>6 DEF Slirp!SendPacket, Slirp!Direct
    <3>2. backlog' \o held' = Append(backlog, built) /\ backlog \o held = backlog
      <4>1. Append(backlog, built) \in Seq(Nat)
        BY <1>0, AppendProperties
      <4> QED
        BY <1>0, <3>1, <4>1, ConcatEmptySeq
    <3>3. got' \o (backlog' \o held') = Append(all, built)
      BY <2>0, <2>1, <2>3, <2>5, <3>2
    <3> QED
      BY <2>0, <2>2, <3>3 DEF OrderInv
  <2>7. CASE ~Slirp!Direct
    <3>1. /\ backlog' = backlog
          /\ held' = IF Len(held) >= HoldMax THEN held ELSE Append(held, built)
      BY <1>1, <2>7 DEF Slirp!SendPacket
    <3>2. CASE held' = held
      BY <2>0, <2>2, <3>1, <3>2 DEF OrderInv
    <3>3. CASE held' = Append(held, built)
      <4>1. got' \o (backlog' \o held') = Append(all, built)
        BY <2>0, <2>1, <2>3, <2>4, <2>5, <3>1, <3>3
      <4> QED
        BY <2>0, <2>2, <4>1 DEF OrderInv
    <3> QED
      BY <3>1, <3>2, <3>3
  <2> QED
    BY <2>6, <2>7
<1>2. CASE Slirp!GuestTakes
  <2>1. got' = Append(got, Head(backlog)) /\ backlog' = Tail(backlog) /\ backlog # <<>>
        /\ UNCHANGED <<held, built>>
    BY <1>2 DEF Slirp!GuestTakes
  <2>2. got' \in Seq(Nat) /\ backlog' \in Seq(Nat) /\ got' \o backlog' = got \o backlog
    BY <1>0, <2>1, Shifted
  <2>3. got' \o (backlog' \o held) = (got' \o backlog') \o held
    <3> DEFINE a == got'
               b == backlog'
    <3>1. a \in Seq(Nat) /\ b \in Seq(Nat) /\ held \in Seq(Nat)
      BY <1>0, <2>2
    <3> HIDE DEF a, b
    <3>2. (a \o b) \o held = a \o (b \o held)
      BY ONLY <3>1, Reassociated
    <3> QED
      BY <3>2 DEF a, b
  <2>4. got \o (backlog \o held) = (got \o backlog) \o held
    BY ZenonT(60), <1>0, Reassociated
  <2> QED
    BY <2>1, <2>2, <2>3, <2>4 DEF OrderInv
<1>3. CASE held # <<>> /\ ~Slirp!Congested /\ backlog' = Append(backlog, Head(held)) /\ held' = Tail(held)
           /\ UNCHANGED <<built, got>>
  <2>1. backlog' \o held' = backlog \o held
    BY <1>0, <1>3, Shifted
  <2> QED
    BY <1>3, <2>1 DEF OrderInv
<1>4. CASE UNCHANGED <<held, backlog, got, built>>
  BY <1>4 DEF OrderInv
<1> QED
  BY <1>1, <1>2, <1>3, <1>4, FrameMoves

LEMMA WakeStep ==
  ASSUME Slirp!SlirpAssumption, SlirpType, WakeInv, [Slirp!Next]_(Slirp!vars)
  PROVE  WakeInv'
<1> USE DEF WakeInv, Before, Signalled, Slirp!tx, Slirp!life, Slirp!rx, Slirp!wk
<1>t. sender \in [Slirp!Threads -> {"idle", "wake", "send"}] /\ sock \in Nat /\ frames \in Nat /\ Senders \subseteq Slirp!Threads
  BY SlirpConstants DEF SlirpType, Slirp!Threads
<1>1. CASE Slirp!Start
  BY <1>1 DEF Slirp!Start
<1>2. ASSUME NEW t \in Senders, Slirp!OnGuestFrame(t) PROVE WakeInv'
  <2>1. CASE frames >= QueueMax
    BY <1>2, <2>1 DEF Slirp!OnGuestFrame
  <2>2. CASE ~(frames >= QueueMax)
    <3>1. sender' = [sender EXCEPT ![t] = "wake"] /\ sender[t] = "idle" /\ UNCHANGED <<armed, sock, worker>>
      BY <1>2, <2>2 DEF Slirp!OnGuestFrame
    <3>2. t \in Slirp!Threads /\ sender'[t] = "wake" /\ \A u \in Slirp!Threads : sender[u] = "send" => sender'[u] = "send"
      BY <1>t, <3>1
    <3> QED
      BY <3>1, <3>2
  <2> QED
    BY <2>1, <2>2
<1>3. ASSUME NEW t \in Slirp!Threads, Slirp!Wake(t) PROVE WakeInv'
  <2>1. sender' = [sender EXCEPT ![t] = IF armed THEN "idle" ELSE "send"] /\ sender[t] = "wake"
        /\ UNCHANGED <<frames, sock, worker>>
    BY <1>3 DEF Slirp!Wake
  <2>2. CASE armed
    <3>1. \A u \in Slirp!Threads : sender[u] = "send" => sender'[u] = "send"
      BY <1>t, <2>1
    <3>2. Before => Signalled
      BY <2>2
    <3> QED
      BY <2>1, <2>2, <3>1, <3>2
  <2>3. CASE ~armed
    <3>1. sender'[t] = "send"
      BY <1>t, <2>1, <2>3
    <3> QED
      BY <2>1, <3>1
  <2> QED
    BY <2>2, <2>3
<1>4. ASSUME NEW t \in Slirp!Threads, Slirp!SendDatagram(t) PROVE WakeInv'
  <2>1. sock' > 0
    BY <1>4, <1>t DEF Slirp!SendDatagram
  <2> QED
    BY <2>1
<1>5. CASE Slirp!GuestTakes
  <2>1. \A u \in Slirp!Threads : sender[u] # "idle" => sender'[u] = sender[u]
    BY <1>5, <1>t DEF Slirp!GuestTakes, Slirp!Threads
  <2>2. UNCHANGED <<armed, frames, sock, worker>>
    BY <1>5 DEF Slirp!GuestTakes
  <2> QED
    BY <2>1, <2>2
<1>6. CASE Slirp!Top
  BY <1>6 DEF Slirp!Top
<1>7. CASE Slirp!Poll
  BY <1>7 DEF Slirp!Poll
<1>8. CASE Slirp!Drain
  BY <1>8 DEF Slirp!Drain
<1>9. CASE Slirp!Disarm
  BY <1>9 DEF Slirp!Disarm
<1>10. CASE Slirp!Take
  BY <1>10, <1>t DEF Slirp!Take
<1>11. CASE Slirp!Input
  BY <1>11 DEF Slirp!Input
<1>12. CASE Slirp!Flush
  BY <1>12 DEF Slirp!Flush
<1>13. CASE Slirp!StopFlag
  BY <1>13 DEF Slirp!StopFlag
<1>14. CASE Slirp!StopSend
  BY <1>14, <1>t DEF Slirp!StopSend
<1>15. CASE Slirp!StopJoin
  BY <1>15 DEF Slirp!StopJoin
<1>16. CASE UNCHANGED Slirp!vars
  BY <1>16 DEF Slirp!vars
<1> QED
  BY <1>1, <1>2, <1>3, <1>4, <1>5, <1>6, <1>7, <1>8, <1>9, <1>10, <1>11, <1>12, <1>13, <1>14, <1>15,
     <1>16 DEF Slirp!Next, Slirp!Worker

LEMMA StopStep ==
  ASSUME Slirp!SlirpAssumption, SlirpType, StopInv, [Slirp!Next]_(Slirp!vars)
  PROVE  StopInv'
<1> USE DEF StopInv, Slirp!tx, Slirp!life, Slirp!rx, Slirp!wk
<1>t. sock \in Nat /\ stop \in BOOLEAN
  BY DEF SlirpType
<1>1. CASE Slirp!Start
  BY <1>1 DEF Slirp!Start
<1>2. ASSUME NEW t \in Senders, Slirp!OnGuestFrame(t) PROVE StopInv'
  BY <1>2 DEF Slirp!OnGuestFrame
<1>3. ASSUME NEW t \in Slirp!Threads, Slirp!Wake(t) PROVE StopInv'
  BY <1>3 DEF Slirp!Wake
<1>4. ASSUME NEW t \in Slirp!Threads, Slirp!SendDatagram(t) PROVE StopInv'
  BY <1>4, <1>t DEF Slirp!SendDatagram
<1>5. CASE Slirp!GuestTakes
  BY <1>5 DEF Slirp!GuestTakes
<1>6. CASE Slirp!Top
  BY <1>6, <1>t DEF Slirp!Top, Slirp!Timeout
<1>7. CASE Slirp!Poll
  BY <1>7 DEF Slirp!Poll
<1>8. CASE Slirp!Drain
  BY <1>8 DEF Slirp!Drain
<1>9. CASE Slirp!Disarm
  BY <1>9 DEF Slirp!Disarm
<1>10. CASE Slirp!Take
  BY <1>10 DEF Slirp!Take
<1>11. CASE Slirp!Input
  BY <1>11 DEF Slirp!Input
<1>12. CASE Slirp!Flush
  BY <1>12 DEF Slirp!Flush
<1>13. CASE Slirp!StopFlag
  BY <1>13 DEF Slirp!StopFlag
<1>14. CASE Slirp!StopSend
  BY <1>14, <1>t DEF Slirp!StopSend
<1>15. CASE Slirp!StopJoin
  BY <1>15 DEF Slirp!StopJoin
<1>16. CASE UNCHANGED Slirp!vars
  BY <1>16 DEF Slirp!vars
<1> QED
  BY <1>1, <1>2, <1>3, <1>4, <1>5, <1>6, <1>7, <1>8, <1>9, <1>10, <1>11, <1>12, <1>13, <1>14, <1>15,
     <1>16 DEF Slirp!Next, Slirp!Worker

\* The Slirp worker never sleeps over a queued frame, a stop or frames it holds
\* back, and the guest gets libslirp's frames in the order they were built,
\* past queue limits and congestion of the NIC.
THEOREM SlirpSleepsSafelyInOrder ==
  ASSUME Slirp!SlirpAssumption
  PROVE  Slirp!Spec => [](Slirp!TypeOK /\ Slirp!SleepIsSafe /\ Slirp!FramesInOrder)
<1>1. Slirp!Init => SlirpInv
  <2> SUFFICES ASSUME Slirp!Init PROVE SlirpInv
    OBVIOUS
  <2> USE SlirpConstants DEF Slirp!Init
  <2>1. SlirpType
    <3>1. 0 \in 0 .. QueueMax /\ 0 \in Nat
      BY SlirpConstants
    <3>2. sender \in [Slirp!Threads -> {"idle", "wake", "send"}]
      OBVIOUS
    <3> QED
      BY ONLY Slirp!Init, <3>1, <3>2 DEF Slirp!Init, SlirpType
  <2>2. <<>> \in Seq(Nat) /\ Len(<<>>) = 0
    BY EmptySeq
  <2>3. FrameInv
    BY <2>2 DEF FrameInv
  <2>4. got \o (backlog \o held) = <<>>
    BY <2>2, ConcatEmptySeq
  <2>5. OrderInv
    BY <2>2, <2>4 DEF OrderInv, Rising
  <2> QED
    BY <2>1, <2>3, <2>5 DEF SlirpInv, WakeInv, StopInv
<1>2. SlirpInv /\ [Slirp!Next]_(Slirp!vars) => SlirpInv'
  BY SlirpTypeStep, FrameStep, OrderStep, WakeStep, StopStep DEF SlirpInv
<1>3. SlirpInv => Slirp!TypeOK /\ Slirp!SleepIsSafe /\ Slirp!FramesInOrder
  <2> SUFFICES ASSUME SlirpInv PROVE Slirp!TypeOK /\ Slirp!SleepIsSafe /\ Slirp!FramesInOrder
    OBVIOUS
  <2>1. Slirp!TypeOK
    BY DEF SlirpInv, SlirpType, FrameInv, Slirp!TypeOK
  <2>2. Slirp!SleepIsSafe
    <3>1. sock \in Nat /\ stop \in BOOLEAN /\ frames \in Nat
      BY SlirpConstants DEF SlirpInv, SlirpType
    <3> QED
      BY <3>1 DEF SlirpInv, Slirp!SleepIsSafe, WakeInv, StopInv, Before, Signalled
  <2>3. Slirp!FramesInOrder
    <3>1. got \in Seq(Nat) /\ backlog \in Seq(Nat) /\ held \in Seq(Nat)
      BY DEF SlirpInv, FrameInv
    <3>2. (got \o backlog) \o held = got \o (backlog \o held)
      BY <3>1, Reassociated
    <3>3. got \o (backlog \o held) \in Seq(Nat)
      BY <3>1, ConcatProperties
    <3>4. DOMAIN (got \o (backlog \o held)) = 1 .. Len(got \o (backlog \o held))
      BY <3>3, LenProperties
    <3> QED
      BY <3>2, <3>4 DEF SlirpInv, OrderInv, Rising, Slirp!FramesInOrder
  <2> QED
    BY <2>1, <2>2, <2>3
<1> QED
  BY <1>1, <1>2, <1>3, PTL DEF Slirp!Spec

-----------------------------------------------------------------------------
(* GvisorBackend: a held frame has a drain that will poke the flusher, or the *)
(* flusher is about to look; a thread past the test for congestion carries   *)
(* the frame it is counted for; once the handle is gone no callback is in.   *)

ThreadState == [at : {"idle", "callback", "inject", "input"}, left : 0 .. MaxSegs]
Injecting == {t \in Gvisor!Threads : thread[t].at = "inject"}

GvisorType ==
    /\ handle \in {"live", "none"} /\ closed \in BOOLEAN /\ ctx \in BOOLEAN /\ rxWake \in BOOLEAN
    /\ poke \in BOOLEAN /\ stop \in BOOLEAN
    /\ thread \in [Gvisor!Threads -> ThreadState]
    /\ held \in 0 .. HoldMax /\ backlog \in Nat /\ drain \in {"idle", "poke"}
    /\ flusher \in {"check", "wait", "flush", "inject", "gone"}
    /\ stopper \in {"idle", "close", "flag", "poke", "join", "drop", "done"}

\* A frame injected after the test for congestion is one its thread carries.
BacklogInv ==
    backlog + Cardinality(Injecting) + (IF flusher = "inject" THEN 1 ELSE 0)
      <= High + Cardinality(Gvisor!Threads)

\* An inject has a segment left to count down.
SegInv == \A t \in Gvisor!Threads : thread[t].at = "inject" => thread[t].left > 0

HeldIsSeen ==
    held > 0 =>
      /\ flusher = "check" => rxWake \/ drain = "poke" \/ poke \/ stop
      /\ flusher = "wait" => rxWake \/ drain = "poke" \/ stopper = "poke"
FlusherInv ==
    /\ HeldIsSeen
    /\ flusher = "wait" /\ stop => stopper = "poke"
    /\ stop => stopper \in {"poke", "join", "drop", "done"}

CloseInv == (closed <=> handle = "none") /\ Gvisor!QuietAfterClose

GvisorInv == GvisorType /\ BacklogInv /\ SegInv /\ FlusherInv /\ CloseInv

-----------------------------------------------------------------------------
LEMMA GvisorConstants ==
  ASSUME Gvisor!GvisorAssumption
  PROVE  /\ HoldMax \in Nat /\ HoldMax > 0 /\ High \in Nat /\ High > 0 /\ MaxSegs \in Nat /\ MaxSegs > 0
         /\ Low \in Nat /\ Low < High /\ Gvisor!Vcpu \in Gvisor!Threads /\ Gos \subseteq Gvisor!Threads
         /\ IsFiniteSet(Gvisor!Threads) /\ Cardinality(Gvisor!Threads) \in Nat
         /\ \A s : IsFiniteSet({t \in Gvisor!Threads : s[t].at = "inject"})
<1>1. IsFiniteSet(Gvisor!Threads)
  BY FS_AddElement, FinitenessIsShared DEF Gvisor!GvisorAssumption, Gvisor!Threads
<1>2. \A s : IsFiniteSet({t \in Gvisor!Threads : s[t].at = "inject"})
  BY <1>1, FS_Subset
<1> QED
  BY <1>1, <1>2, FS_CardinalityType DEF Gvisor!GvisorAssumption, Gvisor!Threads

LEMMA GvisorTypeStep ==
  ASSUME Gvisor!GvisorAssumption, GvisorType, SegInv, [Gvisor!Next]_(Gvisor!vars)
  PROVE  GvisorType'
<1> USE GvisorConstants DEF Gvisor!rx, Gvisor!go, Gvisor!fl, Gvisor!st
<1>t. \A t \in Gvisor!Threads : thread[t] \in ThreadState
  BY DEF GvisorType
<1>i. Gvisor!Idle \in ThreadState
  BY DEF Gvisor!Idle, ThreadState
<1>e. \A r \in ThreadState : \A a \in {"idle", "callback", "inject", "input"} :
        /\ [r EXCEPT !.at = a] \in ThreadState
        /\ r.left > 0 => [r EXCEPT !.left = @ - 1] \in ThreadState /\ [at |-> a, left |-> r.left - 1] \in ThreadState
  BY DEF ThreadState
<1>1. ASSUME NEW t \in Gvisor!Threads, Gvisor!WritePackets(t) PROVE GvisorType'
  <2>1. PICK n \in 1 .. MaxSegs : thread' = [thread EXCEPT ![t] = [at |-> "callback", left |-> n]]
    BY <1>1 DEF Gvisor!WritePackets
  <2>2. [at |-> "callback", left |-> n] \in ThreadState
    BY DEF ThreadState
  <2>3. thread' \in [Gvisor!Threads -> ThreadState]
    BY <2>1, <2>2 DEF GvisorType
  <2> QED
    BY <1>1, <2>3 DEF Gvisor!WritePackets, GvisorType
<1>2. ASSUME Gvisor!AnswerDhcp PROVE GvisorType'
  <2>1. [at |-> "callback", left |-> 1] \in ThreadState
    BY DEF ThreadState
  <2>2. thread' = [thread EXCEPT ![Gvisor!Vcpu] = [at |-> "callback", left |-> 1]]
    BY <1>2 DEF Gvisor!AnswerDhcp
  <2>3. thread' \in [Gvisor!Threads -> ThreadState]
    BY <2>1, <2>2 DEF GvisorType
  <2> QED
    BY <1>2, <2>3 DEF Gvisor!AnswerDhcp, GvisorType
<1>3. ASSUME Gvisor!Input PROVE GvisorType'
  <2>1. thread' = [thread EXCEPT ![Gvisor!Vcpu] = [thread[Gvisor!Vcpu] EXCEPT !.at = "input"]]
    BY <1>3 DEF Gvisor!Input, GvisorType
  <2>2. thread' \in [Gvisor!Threads -> ThreadState]
    BY <1>t, <1>e, <2>1 DEF GvisorType
  <2> QED
    BY <1>3, <2>2 DEF Gvisor!Input, GvisorType
<1>4. ASSUME Gvisor!InputDone PROVE GvisorType'
  <2>1. thread' \in [Gvisor!Threads -> ThreadState]
    BY <1>4, <1>i DEF Gvisor!InputDone, GvisorType
  <2> QED
    BY <1>4, <2>1 DEF Gvisor!InputDone, GvisorType
<1>5. ASSUME NEW t \in Gvisor!Threads, Gvisor!Deliver(t) PROVE GvisorType'
  <2>1. CASE held = 0 /\ ~Gvisor!Congested
    <3>1. thread' = [thread EXCEPT ![t] = [thread[t] EXCEPT !.at = "inject"]]
      BY <1>5, <2>1 DEF Gvisor!Deliver, GvisorType
    <3>2. thread' \in [Gvisor!Threads -> ThreadState]
      BY <1>t, <1>e, <3>1 DEF GvisorType
    <3> QED
      BY <1>5, <2>1, <3>2 DEF Gvisor!Deliver, GvisorType
  <2>2. CASE ~(held = 0 /\ ~Gvisor!Congested)
    <3>1. thread' = [thread EXCEPT ![t] = [thread[t] EXCEPT !.left = @ - 1]] /\ thread[t].left > 0
      BY <1>5, <2>2 DEF Gvisor!Deliver, GvisorType
    <3>2. thread' \in [Gvisor!Threads -> ThreadState]
      BY <1>t, <1>e, <3>1 DEF GvisorType
    <3>3. held' \in 0 .. HoldMax /\ rxWake' \in BOOLEAN
      <4>1. held' = IF held < HoldMax THEN held + 1 ELSE held
        BY <1>5, <2>2 DEF Gvisor!Deliver
      <4>2. rxWake' = (rxWake \/ held = 0)
        BY <1>5, <2>2 DEF Gvisor!Deliver
      <4>3. held \in 0 .. HoldMax /\ rxWake \in BOOLEAN
        BY DEF GvisorType
      <4> QED
        BY <4>1, <4>2, <4>3
    <3> QED
      BY <1>5, <2>2, <3>2, <3>3 DEF Gvisor!Deliver, GvisorType
  <2> QED
    BY <2>1, <2>2
<1>6. ASSUME NEW t \in Gvisor!Threads, Gvisor!Inject(t) PROVE GvisorType'
  <2>1. thread' = [thread EXCEPT ![t] = [at |-> "callback", left |-> thread[t].left - 1]]
    BY <1>6 DEF Gvisor!Inject, GvisorType
  <2>2. [at |-> "callback", left |-> thread[t].left - 1] \in ThreadState
    BY <1>6, <1>t, <1>e DEF Gvisor!Inject, SegInv
  <2>3. thread' \in [Gvisor!Threads -> ThreadState]
    BY <2>1, <2>2 DEF GvisorType
  <2> QED
    BY <1>6, <2>3 DEF Gvisor!Inject, GvisorType
<1>7. ASSUME NEW t \in Gvisor!Threads, Gvisor!Return(t) PROVE GvisorType'
  <2>1. thread' \in [Gvisor!Threads -> ThreadState]
    BY <1>7, <1>i DEF Gvisor!Return, GvisorType
  <2> QED
    BY <1>7, <2>1 DEF Gvisor!Return, GvisorType
<1>8. CASE Gvisor!GuestTakes \/ Gvisor!OnRxSpace \/ Gvisor!Check \/ Gvisor!FlushPop \/ Gvisor!FlushInject \/ Gvisor!FlushEnd
  <2>1. CASE Gvisor!GuestTakes
    <3>1. backlog' \in Nat
      BY <2>1 DEF Gvisor!GuestTakes, GvisorType
    <3>2. rxWake' \in BOOLEAN /\ drain' \in {"idle", "poke"}
      <4>1. CASE backlog - 1 <= Low /\ rxWake
        BY <2>1, <4>1 DEF Gvisor!GuestTakes
      <4>2. CASE ~(backlog - 1 <= Low /\ rxWake)
        BY <2>1, <4>2 DEF Gvisor!GuestTakes, GvisorType
      <4> QED
        BY <4>1, <4>2
    <3> QED
      BY <2>1, <3>1, <3>2 DEF Gvisor!GuestTakes, GvisorType
  <2>2. CASE Gvisor!OnRxSpace
    BY <2>2 DEF Gvisor!OnRxSpace, Gvisor!Poked, GvisorType
  <2>3. CASE Gvisor!Check
    BY ZenonT(60), <2>3 DEF Gvisor!Check, GvisorType
  <2>4. CASE Gvisor!FlushPop
    BY <2>4 DEF Gvisor!FlushPop, GvisorType
  <2>5. CASE Gvisor!FlushInject
    BY <2>5 DEF Gvisor!FlushInject, GvisorType
  <2>6. CASE Gvisor!FlushEnd
    BY <2>6 DEF Gvisor!FlushEnd, GvisorType
  <2> QED
    BY <1>8, <2>1, <2>2, <2>3, <2>4, <2>5, <2>6
<1>9. CASE Gvisor!Stop \/ Gvisor!Close \/ Gvisor!StopFlag \/ Gvisor!StopPoke \/ Gvisor!StopJoin \/ Gvisor!DropHost
  BY ZenonT(60), <1>9 DEF Gvisor!Stop, Gvisor!Close, Gvisor!StopFlag, Gvisor!StopPoke, Gvisor!StopJoin,
     Gvisor!DropHost, Gvisor!Poked, GvisorType
<1>10. CASE UNCHANGED Gvisor!vars
  BY <1>10 DEF Gvisor!vars, GvisorType
<1> QED
  BY <1>1, <1>2, <1>3, <1>4, <1>5, <1>6, <1>7, <1>8, <1>9, <1>10 DEF Gvisor!Next

\* What a step does to the states of the threads.
LEMMA ThreadMoves ==
  ASSUME Gvisor!GvisorAssumption, GvisorType, NEW t \in Gvisor!Threads
  PROVE  /\ Gvisor!WritePackets(t) => t \in Gos /\ thread[t].at = "idle" /\ thread'[t].at = "callback"
         /\ Gvisor!Deliver(t) => /\ thread[t].at = "callback"
                                 /\ \/ thread'[t].at = "inject" /\ thread'[t].left > 0 /\ held = 0 /\ backlog < High
                                    \/ thread'[t].at = "callback"
         /\ Gvisor!Inject(t) => thread[t].at = "inject" /\ thread'[t].at = "callback"
         /\ Gvisor!Return(t) => thread[t].at = "callback" /\ thread'[t].at = "idle"
         /\ t = Gvisor!Vcpu /\ Gvisor!AnswerDhcp => thread[t].at = "idle" /\ thread'[t].at = "callback"
         /\ t = Gvisor!Vcpu /\ Gvisor!Input => thread[t].at = "idle" /\ thread'[t].at = "input" /\ handle = "live"
         /\ t = Gvisor!Vcpu /\ Gvisor!InputDone => thread[t].at = "input" /\ thread'[t].at = "idle"
         /\ Gvisor!WritePackets(t) \/ Gvisor!Deliver(t) \/ Gvisor!Inject(t) \/ Gvisor!Return(t)
              \/ (t = Gvisor!Vcpu /\ (Gvisor!AnswerDhcp \/ Gvisor!Input \/ Gvisor!InputDone))
            => \A u \in Gvisor!Threads : u # t => thread'[u] = thread[u]
<1>t. thread[t] \in ThreadState
  BY DEF GvisorType
<1>1. Gvisor!Deliver(t) => /\ thread[t].at = "callback"
                           /\ \/ thread'[t].at = "inject" /\ thread'[t].left > 0 /\ held = 0 /\ backlog < High
                              \/ thread'[t].at = "callback"
  <2> SUFFICES ASSUME Gvisor!Deliver(t)
               PROVE  \/ thread'[t].at = "inject" /\ thread'[t].left > 0 /\ held = 0 /\ backlog < High
                      \/ thread'[t].at = "callback"
    BY DEF Gvisor!Deliver
  <2>1. CASE held = 0 /\ ~Gvisor!Congested
    <3>1. thread' = [thread EXCEPT ![t] = [thread[t] EXCEPT !.at = "inject"]]
      BY <2>1 DEF Gvisor!Deliver, GvisorType
    <3>2. thread'[t] = [thread[t] EXCEPT !.at = "inject"]
      BY <3>1 DEF GvisorType
    <3>3. thread'[t].at = "inject" /\ thread'[t].left = thread[t].left
      BY <1>t, <3>2 DEF ThreadState
    <3> QED
      BY <2>1, <3>3, GvisorConstants DEF Gvisor!Congested, Gvisor!Deliver, GvisorType
  <2>2. CASE ~(held = 0 /\ ~Gvisor!Congested)
    <3>1. thread' = [thread EXCEPT ![t] = [thread[t] EXCEPT !.left = @ - 1]]
      BY <2>2 DEF Gvisor!Deliver, GvisorType
    <3>2. thread'[t] = [thread[t] EXCEPT !.left = @ - 1]
      BY <3>1 DEF GvisorType
    <3>3. thread'[t].at = thread[t].at
      BY <1>t, <3>2 DEF ThreadState
    <3> QED
      BY <3>3 DEF Gvisor!Deliver
  <2> QED
    BY <2>1, <2>2
<1>2. t = Gvisor!Vcpu /\ Gvisor!Input => thread[t].at = "idle" /\ thread'[t].at = "input" /\ handle = "live"
  <2> SUFFICES ASSUME t = Gvisor!Vcpu, Gvisor!Input PROVE thread'[t].at = "input"
    BY DEF Gvisor!Input
  <2>1. thread' = [thread EXCEPT ![t] = [thread[t] EXCEPT !.at = "input"]]
    BY DEF Gvisor!Input, GvisorType
  <2>2. thread'[t] = [thread[t] EXCEPT !.at = "input"]
    BY <2>1 DEF GvisorType
  <2> QED
    BY <1>t, <2>2 DEF ThreadState
<1>3. Gvisor!WritePackets(t) => t \in Gos /\ thread[t].at = "idle" /\ thread'[t].at = "callback"
  BY DEF Gvisor!WritePackets, GvisorType
<1>4. Gvisor!Inject(t) => thread[t].at = "inject" /\ thread'[t].at = "callback"
  BY DEF Gvisor!Inject, GvisorType
<1>5. /\ Gvisor!Return(t) => thread[t].at = "callback" /\ thread'[t].at = "idle"
      /\ t = Gvisor!Vcpu /\ Gvisor!AnswerDhcp => thread[t].at = "idle" /\ thread'[t].at = "callback"
      /\ t = Gvisor!Vcpu /\ Gvisor!InputDone => thread[t].at = "input" /\ thread'[t].at = "idle"
  BY DEF Gvisor!Return, Gvisor!AnswerDhcp, Gvisor!InputDone, GvisorType, Gvisor!Idle
<1>6. Gvisor!WritePackets(t) \/ Gvisor!Deliver(t) \/ Gvisor!Inject(t) \/ Gvisor!Return(t)
        \/ (t = Gvisor!Vcpu /\ (Gvisor!AnswerDhcp \/ Gvisor!Input \/ Gvisor!InputDone))
      => \E r : thread' = [thread EXCEPT ![t] = r]
  BY DEF Gvisor!WritePackets, Gvisor!Deliver, Gvisor!Inject, Gvisor!Return, Gvisor!AnswerDhcp,
     Gvisor!Input, Gvisor!InputDone
<1>7. \A r : thread' = [thread EXCEPT ![t] = r] => \A u \in Gvisor!Threads : u # t => thread'[u] = thread[u]
  BY DEF GvisorType
<1> QED
  BY <1>1, <1>2, <1>3, <1>4, <1>5, <1>6, <1>7

LEMMA BacklogStep ==
  ASSUME Gvisor!GvisorAssumption, GvisorType, GvisorType', BacklogInv, SegInv,
         [Gvisor!Next]_(Gvisor!vars)
  PROVE  BacklogInv' /\ SegInv'
<1> USE GvisorConstants
<1> DEFINE Now == {t \in Gvisor!Threads : thread[t].at = "inject"}
           After == {t \in Gvisor!Threads : thread'[t].at = "inject"}
           n == Cardinality(Now)
           m == Cardinality(After)
           f == IF flusher = "inject" THEN 1 ELSE 0
           g == IF flusher' = "inject" THEN 1 ELSE 0
<1>f. /\ IsFiniteSet(Now) /\ IsFiniteSet(After) /\ n \in Nat /\ m \in Nat
      /\ n <= Cardinality(Gvisor!Threads) /\ m <= Cardinality(Gvisor!Threads)
  <2>1. IsFiniteSet(Now) /\ IsFiniteSet(After) /\ Now \subseteq Gvisor!Threads /\ After \subseteq Gvisor!Threads
    OBVIOUS
  <2> QED
    BY <2>1, FS_CardinalityType, FS_Subset
<1>b. backlog \in Nat /\ backlog' \in Nat /\ f \in {0, 1} /\ g \in {0, 1} /\ Cardinality(Gvisor!Threads) \in Nat
  BY DEF GvisorType
<1>i. backlog + n + f <= High + Cardinality(Gvisor!Threads)
  BY DEF BacklogInv, Injecting
<1> SUFFICES backlog' + m + g <= High + Cardinality(Gvisor!Threads) /\ SegInv'
  BY DEF BacklogInv, Injecting
<1>1. ASSUME NEW t \in Gvisor!Threads, Gvisor!WritePackets(t) \/ Gvisor!Return(t) \/ (t = Gvisor!Vcpu /\ (Gvisor!AnswerDhcp \/ Gvisor!Input \/ Gvisor!InputDone))
      PROVE  backlog' + m + g <= High + Cardinality(Gvisor!Threads) /\ SegInv'
  <2>1. /\ thread[t].at # "inject" /\ thread'[t].at # "inject"
        /\ \A u \in Gvisor!Threads : u # t => thread'[u] = thread[u]
    BY <1>1, ThreadMoves
  <2>2. After = Now /\ SegInv'
    BY <2>1 DEF SegInv
  <2>3. UNCHANGED <<backlog, flusher>>
    BY <1>1 DEF Gvisor!WritePackets, Gvisor!Return, Gvisor!AnswerDhcp, Gvisor!Input,
       Gvisor!InputDone, Gvisor!rx, Gvisor!fl
  <2> QED
    BY <1>i, <2>2, <2>3
<1>2. ASSUME NEW t \in Gvisor!Threads, Gvisor!Deliver(t)
      PROVE  backlog' + m + g <= High + Cardinality(Gvisor!Threads) /\ SegInv'
  <2>1. /\ thread[t].at = "callback" /\ \A u \in Gvisor!Threads : u # t => thread'[u] = thread[u]
        /\ UNCHANGED <<backlog, flusher>>
    BY <1>2, ThreadMoves DEF Gvisor!Deliver, Gvisor!fl
  <2>2. CASE thread'[t].at = "inject" /\ thread'[t].left > 0 /\ backlog < High
    <3>1. SegInv'
      BY <2>1, <2>2 DEF SegInv
    <3> QED
      BY <1>f, <1>b, <2>1, <2>2, <3>1
  <2>3. CASE thread'[t].at = "callback"
    <3>1. After = Now /\ SegInv'
      BY <2>1, <2>3 DEF SegInv
    <3> QED
      BY <1>i, <2>1, <3>1
  <2> QED
    BY <1>2, <2>2, <2>3, ThreadMoves
<1>3. ASSUME NEW t \in Gvisor!Threads, Gvisor!Inject(t)
      PROVE  backlog' + m + g <= High + Cardinality(Gvisor!Threads) /\ SegInv'
  <2>1. /\ thread[t].at = "inject" /\ thread'[t].at = "callback"
        /\ \A u \in Gvisor!Threads : u # t => thread'[u] = thread[u]
        /\ backlog' = backlog + 1 /\ UNCHANGED flusher
    BY <1>3, ThreadMoves DEF Gvisor!Inject, Gvisor!fl
  <2>2. After = Now \ {t} /\ t \in Now /\ SegInv'
    BY <2>1 DEF SegInv
  <2>3. m = n - 1
    BY ZenonT(60), <1>f, <2>2, FS_RemoveElement
  <2> QED
    BY <1>f, <1>b, <1>i, <2>1, <2>2, <2>3
<1>4. CASE UNCHANGED thread
  <2>1. After = Now /\ SegInv' /\ m = n
    BY <1>4 DEF SegInv
  <2> HIDE DEF After, Now, n, m
  <2>2. CASE UNCHANGED <<backlog, flusher>>
    BY <1>i, <2>1, <2>2
  <2>3. CASE Gvisor!FlushPop
    <3>1. backlog < High /\ flusher' = "inject" /\ UNCHANGED backlog
      BY <2>3, <1>b DEF Gvisor!FlushPop, Gvisor!Congested
    <3> QED
      BY <1>f, <1>b, <2>1, <3>1
  <2>4. CASE Gvisor!FlushInject
    BY <1>f, <1>b, <1>i, <2>1, <2>4 DEF Gvisor!FlushInject
  <2>5. CASE backlog' <= backlog /\ flusher' # "inject"
    BY <1>f, <1>b, <1>i, <2>1, <2>5
  <2>6. \/ UNCHANGED <<backlog, flusher>> \/ Gvisor!FlushPop \/ Gvisor!FlushInject
        \/ (backlog' <= backlog /\ flusher' # "inject") \/ (backlog' <= backlog /\ UNCHANGED flusher)
        \/ \E t \in Gvisor!Threads : Gvisor!WritePackets(t) \/ Gvisor!Deliver(t) \/ Gvisor!Inject(t) \/ Gvisor!Return(t)
        \/ Gvisor!AnswerDhcp \/ Gvisor!Input \/ Gvisor!InputDone
    BY <1>b DEF Gvisor!Next, Gvisor!vars, Gvisor!GuestTakes, Gvisor!OnRxSpace, Gvisor!Check,
       Gvisor!FlushEnd, Gvisor!Stop, Gvisor!Close, Gvisor!StopFlag, Gvisor!StopPoke,
           Gvisor!StopJoin, Gvisor!DropHost, Gvisor!Poked, Gvisor!rx, Gvisor!go, Gvisor!fl, Gvisor!st
  <2>7. CASE backlog' <= backlog /\ UNCHANGED flusher
    BY <1>f, <1>b, <1>i, <2>1, <2>7
  <2> QED
    BY <1>1, <1>2, <1>3, <2>2, <2>3, <2>4, <2>5, <2>6, <2>7
<1>5. \/ UNCHANGED thread
      \/ \E t \in Gvisor!Threads : Gvisor!WritePackets(t) \/ Gvisor!Deliver(t) \/ Gvisor!Inject(t) \/ Gvisor!Return(t)
      \/ Gvisor!AnswerDhcp \/ Gvisor!Input \/ Gvisor!InputDone
  BY DEF Gvisor!Next, Gvisor!vars, Gvisor!GuestTakes, Gvisor!OnRxSpace, Gvisor!Check,
     Gvisor!FlushPop, Gvisor!FlushInject, Gvisor!FlushEnd, Gvisor!Stop, Gvisor!Close,
         Gvisor!StopFlag, Gvisor!StopPoke, Gvisor!StopJoin, Gvisor!DropHost
<1> QED
  BY <1>1, <1>2, <1>3, <1>4, <1>5

LEMMA FlusherStep ==
  ASSUME Gvisor!GvisorAssumption, GvisorType, GvisorType', FlusherInv, [Gvisor!Next]_(Gvisor!vars)
  PROVE  FlusherInv'
<1> USE GvisorConstants DEF FlusherInv, HeldIsSeen, Gvisor!rx, Gvisor!go, Gvisor!fl, Gvisor!st
<1>1. ASSUME NEW t \in Gvisor!Threads,
             Gvisor!WritePackets(t) \/ Gvisor!Inject(t) \/ Gvisor!Return(t)
      PROVE  FlusherInv'
  BY <1>1 DEF Gvisor!WritePackets, Gvisor!Inject, Gvisor!Return
<1>2. ASSUME NEW t \in Gvisor!Threads, Gvisor!Deliver(t) PROVE FlusherInv'
  BY <1>2 DEF Gvisor!Deliver, GvisorType
<1>3. CASE Gvisor!AnswerDhcp \/ Gvisor!Input \/ Gvisor!InputDone
  BY <1>3 DEF Gvisor!AnswerDhcp, Gvisor!Input, Gvisor!InputDone
<1>4. CASE Gvisor!GuestTakes
  BY <1>4 DEF Gvisor!GuestTakes
<1>5. CASE Gvisor!OnRxSpace
  BY <1>5 DEF Gvisor!OnRxSpace, Gvisor!Poked
<1>6. CASE Gvisor!Check
  BY <1>6 DEF Gvisor!Check
<1>7. CASE Gvisor!FlushPop \/ Gvisor!FlushInject
  BY <1>7 DEF Gvisor!FlushPop, Gvisor!FlushInject
<1>8. CASE Gvisor!FlushEnd
  BY <1>8 DEF Gvisor!FlushEnd
<1>9. CASE Gvisor!Stop \/ Gvisor!Close
  BY <1>9 DEF Gvisor!Stop, Gvisor!Close
<1>10. CASE Gvisor!StopFlag
  BY <1>10 DEF Gvisor!StopFlag
<1>11. CASE Gvisor!StopPoke
  BY <1>11 DEF Gvisor!StopPoke, Gvisor!Poked
<1>12. CASE Gvisor!StopJoin \/ Gvisor!DropHost
  BY <1>12 DEF Gvisor!StopJoin, Gvisor!DropHost
<1>13. CASE UNCHANGED Gvisor!vars
  BY <1>13 DEF Gvisor!vars
<1> QED
  BY <1>1, <1>2, <1>3, <1>4, <1>5, <1>6, <1>7, <1>8, <1>9, <1>10, <1>11, <1>12,
     <1>13 DEF Gvisor!Next

LEMMA CloseStep ==
  ASSUME Gvisor!GvisorAssumption, GvisorType, CloseInv, [Gvisor!Next]_(Gvisor!vars)
  PROVE  CloseInv'
<1> USE GvisorConstants DEF CloseInv, Gvisor!QuietAfterClose, Gvisor!rx, Gvisor!go, Gvisor!fl,
                           Gvisor!st
<1>1. ASSUME NEW t \in Gvisor!Threads, Gvisor!WritePackets(t) PROVE CloseInv'
  BY <1>1, ThreadMoves DEF Gvisor!WritePackets, Gvisor!GvisorAssumption
<1>2. ASSUME NEW t \in Gvisor!Threads, Gvisor!Deliver(t) PROVE CloseInv'
  BY <1>2, ThreadMoves DEF Gvisor!Deliver, Gvisor!GvisorAssumption
<1>3. ASSUME NEW t \in Gvisor!Threads, Gvisor!Inject(t) PROVE CloseInv'
  BY <1>3, ThreadMoves DEF Gvisor!Inject, Gvisor!GvisorAssumption
<1>4. ASSUME NEW t \in Gvisor!Threads, Gvisor!Return(t) PROVE CloseInv'
  BY ZenonT(60), <1>4, ThreadMoves DEF Gvisor!Return, Gvisor!GvisorAssumption
<1>5. CASE Gvisor!AnswerDhcp \/ Gvisor!Input \/ Gvisor!InputDone
  BY <1>5, ThreadMoves DEF Gvisor!AnswerDhcp, Gvisor!Input, Gvisor!InputDone,
     Gvisor!GvisorAssumption
<1>6. CASE Gvisor!Close
  BY <1>6 DEF Gvisor!Close
<1>7. CASE UNCHANGED <<handle, closed, thread>>
  BY <1>7
<1>8. \/ Gvisor!Close \/ UNCHANGED <<handle, closed, thread>>
      \/ \E t \in Gvisor!Threads : Gvisor!WritePackets(t) \/ Gvisor!Deliver(t) \/ Gvisor!Inject(t) \/ Gvisor!Return(t)
      \/ Gvisor!AnswerDhcp \/ Gvisor!Input \/ Gvisor!InputDone
  BY DEF Gvisor!Next, Gvisor!vars, Gvisor!GuestTakes, Gvisor!OnRxSpace, Gvisor!Check,
     Gvisor!FlushPop, Gvisor!FlushInject, Gvisor!FlushEnd, Gvisor!Stop,
         Gvisor!StopFlag, Gvisor!StopPoke, Gvisor!StopJoin, Gvisor!DropHost
<1> QED
  BY <1>1, <1>2, <1>3, <1>4, <1>5, <1>6, <1>7, <1>8

\* The gVisor flusher never sleeps over a held frame with nobody to poke it,
\* and no Go thread is in a callback or an inject once close has returned.
THEOREM GvisorSleepsAndClosesSafely ==
  ASSUME Gvisor!GvisorAssumption
  PROVE  Gvisor!Spec => [](Gvisor!TypeOK /\ Gvisor!FlusherIsWoken /\ Gvisor!QuietAfterClose)
<1>1. Gvisor!Init => GvisorInv
  <2> SUFFICES ASSUME Gvisor!Init PROVE GvisorInv
    OBVIOUS
  <2> USE GvisorConstants DEF Gvisor!Init
  <2>1. GvisorType
    <3>1. Gvisor!Idle \in ThreadState
      BY DEF Gvisor!Idle, ThreadState
    <3>2. thread \in [Gvisor!Threads -> ThreadState]
      BY <3>1
    <3>3. 0 \in 0 .. HoldMax /\ 0 \in Nat
      BY GvisorConstants
    <3>4. closed \in BOOLEAN /\ ctx \in BOOLEAN /\ rxWake \in BOOLEAN /\ poke \in BOOLEAN /\ stop \in BOOLEAN
      OBVIOUS
    <3> QED
      BY <3>2, <3>3, <3>4 DEF GvisorType
  <2>2. BacklogInv /\ SegInv
    <3>1. Injecting = {}
      BY DEF Injecting, Gvisor!Idle
    <3> QED
      BY <3>1, FS_EmptySet DEF BacklogInv, SegInv, Gvisor!Idle
  <2>3. FlusherInv /\ CloseInv
    BY DEF FlusherInv, HeldIsSeen, CloseInv, Gvisor!QuietAfterClose
  <2> QED
    BY <2>1, <2>2, <2>3 DEF GvisorInv
<1>2. GvisorInv /\ [Gvisor!Next]_(Gvisor!vars) => GvisorInv'
  <2> SUFFICES ASSUME GvisorInv, [Gvisor!Next]_(Gvisor!vars) PROVE GvisorInv'
    OBVIOUS
  <2>1. GvisorType'
    BY GvisorTypeStep DEF GvisorInv
  <2> QED
    BY <2>1, BacklogStep, FlusherStep, CloseStep DEF GvisorInv
<1>3. GvisorInv => Gvisor!TypeOK /\ Gvisor!FlusherIsWoken /\ Gvisor!QuietAfterClose
  <2> SUFFICES ASSUME GvisorInv
               PROVE  Gvisor!TypeOK /\ Gvisor!FlusherIsWoken /\ Gvisor!QuietAfterClose
    OBVIOUS
  <2>1. backlog \in 0 .. (High + Cardinality(Gvisor!Threads))
    <3>1. IsFiniteSet(Injecting)
      BY GvisorConstants DEF Injecting
    <3> QED
      BY <3>1, GvisorConstants, FS_CardinalityType DEF GvisorInv, GvisorType, BacklogInv
  <2> QED
    BY <2>1, FinitenessIsShared DEF GvisorInv, GvisorType, ThreadState, Gvisor!TypeOK, FlusherInv,
       HeldIsSeen, Gvisor!FlusherIsWoken, CloseInv
<1> QED
  BY <1>1, <1>2, <1>3, PTL DEF Gvisor!Spec

-----------------------------------------------------------------------------
(* WintunBackend: the adapter and the event are closed only when the worker  *)
(* has been joined, and a worker never runs without its session.             *)

WintunInv ==
    /\ running \in BOOLEAN /\ detached \in BOOLEAN /\ stopEvt \in {"clear", "set", "closed"}
    /\ session \in {"none", "live", "gone"} /\ adapter \in {"none", "live", "gone"}
    /\ worker \in {"none", "top", "receive", "packet", "wait", "gone"}
    /\ pump \in {"idle", "ip", "filled", "arp"}
    /\ stopper \in {"idle", "event", "end", "join", "close", "done"}
    /\ packets \in Nat /\ sent \in Nat /\ ring \in Nat /\ injected \in Nat
    /\ packets <= MaxPackets /\ sent <= MaxSent /\ ring <= packets
    /\ ring + injected + (IF worker = "packet" THEN 1 ELSE 0) + (IF pump = "idle" THEN 0 ELSE 1)
         <= packets + sent
    /\ worker = "none" <=> session = "none"
    /\ session = "none" => ~running /\ stopper \notin {"event", "end", "join"}
    /\ adapter = "none" => session = "none"
    /\ stopper = "close" => worker = "gone"
    /\ stopper = "done" => worker \in {"none", "gone"}
    /\ adapter = "gone" \/ stopEvt = "closed" => stopper = "done"

LEMMA WintunStep ==
  ASSUME Wintun!WintunAssumption, WintunInv, [Wintun!Next]_(Wintun!vars)
  PROVE  WintunInv'
<1>a. MaxPackets \in Nat /\ MaxSent \in Nat
  BY DEF Wintun!WintunAssumption
<1> USE <1>a DEF WintunInv, Wintun!io, Wintun!own, Wintun!st
<1>1. CASE Wintun!Create
  <2>1. CASE adapter' = "live" /\ UNCHANGED stopper
    BY <1>1, <2>1 DEF Wintun!Create
  <2>2. CASE stopper' = "done" /\ UNCHANGED adapter
    BY <1>1, <2>2 DEF Wintun!Create
  <2> QED
    BY <1>1, <2>1, <2>2 DEF Wintun!Create
<1>2. CASE Wintun!Begin
  <2>1. CASE session' = "live" /\ running' = TRUE /\ worker' = "top" /\ UNCHANGED <<adapter, stopper>>
    BY <1>2, <2>1 DEF Wintun!Begin
  <2>2. CASE adapter' = "gone" /\ stopper' = "done" /\ UNCHANGED <<session, running, worker>>
    BY <1>2, <2>2 DEF Wintun!Begin
  <2> QED
    BY <1>2, <2>1, <2>2 DEF Wintun!Begin
<1>3. CASE Wintun!HostPacket
  BY <1>3 DEF Wintun!HostPacket
<1>4. CASE Wintun!Top
  BY <1>4 DEF Wintun!Top
<1>5. CASE Wintun!Receive
  BY <1>5 DEF Wintun!Receive
<1>6. CASE Wintun!InjectRelease
  <2>1. CASE injected' = injected
    BY <1>6, <2>1 DEF Wintun!InjectRelease
  <2>2. CASE injected' = injected + 1
    BY <1>6, <2>2 DEF Wintun!InjectRelease
  <2> QED
    BY <1>6, <2>1, <2>2 DEF Wintun!InjectRelease
<1>7. CASE Wintun!Wait
  BY <1>7 DEF Wintun!Wait
<1>8. CASE Wintun!OnGuestFrame
  BY <1>8 DEF Wintun!OnGuestFrame
<1>9. CASE Wintun!AllocateSend
  BY <1>9 DEF Wintun!AllocateSend
<1>10. CASE Wintun!SendPacket
  BY <1>10 DEF Wintun!SendPacket
<1>11. CASE Wintun!HandleArp
  BY <1>11 DEF Wintun!HandleArp
<1>12. CASE Wintun!Quiesce
  BY <1>12 DEF Wintun!Quiesce
<1>13. CASE Wintun!SetStop
  BY <1>13 DEF Wintun!SetStop
<1>14. CASE Wintun!EndSession
  BY <1>14 DEF Wintun!EndSession
<1>15. CASE Wintun!Join
  BY <1>15 DEF Wintun!Join
<1>16. CASE Wintun!Close
  BY <1>16 DEF Wintun!Close
<1>17. CASE UNCHANGED Wintun!vars
  BY <1>17 DEF Wintun!vars
<1> QED
  BY <1>1, <1>2, <1>3, <1>4, <1>5, <1>6, <1>7, <1>8, <1>9, <1>10, <1>11, <1>12, <1>13, <1>14,
     <1>15, <1>16, <1>17 DEF Wintun!Next

\* The WinTun adapter and the stop event are closed after the worker that uses
\* them has been joined, in whatever order stop, packets and frames meet. The
\* session is not: EndedSessionIsUnused is refuted.
THEOREM WintunHandlesOutliveWorker ==
  ASSUME Wintun!WintunAssumption
  PROVE  Wintun!Spec => [](Wintun!TypeOK /\ Wintun!HandlesOutliveWorker)
<1>1. Wintun!Init => WintunInv
  <2>1. MaxPackets \in Nat /\ MaxSent \in Nat
    BY DEF Wintun!WintunAssumption
  <2> SUFFICES ASSUME Wintun!Init PROVE WintunInv
    OBVIOUS
  <2>2. running \in BOOLEAN /\ detached \in BOOLEAN /\ running = FALSE
    BY DEF Wintun!Init
  <2> QED
    BY <2>1, <2>2 DEF Wintun!Init, WintunInv
<1>2. WintunInv /\ [Wintun!Next]_(Wintun!vars) => WintunInv'
  BY WintunStep
<1>3. WintunInv => Wintun!TypeOK /\ Wintun!HandlesOutliveWorker
  <2> SUFFICES ASSUME WintunInv PROVE Wintun!TypeOK /\ Wintun!HandlesOutliveWorker
    OBVIOUS
  <2>1. ring \in 0 .. MaxPackets /\ injected \in 0 .. (MaxPackets + MaxSent)
    BY DEF WintunInv, Wintun!WintunAssumption
  <2> QED
    BY <2>1 DEF WintunInv, Wintun!TypeOK, Wintun!HandlesOutliveWorker
<1> QED
  BY <1>1, <1>2, <1>3, PTL DEF Wintun!Spec

-----------------------------------------------------------------------------
(* VmbusHost: what the guest waits for is in the outbox; a busy slot owes the *)
(* target an exit, and a free one has the target on its way to flush.        *)

Pages == [Gpadls -> {Vmbus!Absent, "partial", "whole"}]
InBox(q, k) == \E i \in 1 .. Len(q) : q[i] = k

VmbusType ==
    /\ connected \in BOOLEAN /\ target \in Targets /\ outbox \in Seq(Vmbus!Kinds)
    /\ Len(outbox) <= MaxOutbox + 1 /\ slotBusy \in BOOLEAN /\ outboxReady \in BOOLEAN
    /\ gpadls \in Pages /\ open \in Gpadls \cup {Vmbus!NoGpadl}
    /\ slot \in [Vps -> BOOLEAN] /\ notify \in [Vps -> BOOLEAN]
    /\ due \in [Vps -> BOOLEAN] /\ kicked \in [Vps -> BOOLEAN]
    /\ vcpu \in [Vps -> {"guest", "top", "enter", "kick"}]
    /\ aim \in [Vps -> Vps] /\ asked \subseteq Vmbus!Kinds /\ posts \in 0 .. MaxPosts /\ saves \in 0 .. MaxSaves

\* What the guest waits for is in the outbox, and a free slot's outbox announced.
OutboxInv ==
    /\ \A k \in asked : InBox(outbox, k)
    /\ outbox # <<>> /\ ~slotBusy => outboxReady

VmbusInv == VmbusType /\ OutboxInv /\ Vmbus!OpenIsBacked

\* A full slot's exit is owed to the target; a free one's target comes round.
ComesRound ==
    \/ vcpu[target] = "top" \/ vcpu[target] = "kick" \/ kicked[target]
    \/ \E v \in Vps : vcpu[v] = "kick" /\ aim[v] = target
TurnInv ==
    /\ slotBusy => due[target] \/ (notify[target] /\ slot[target])
    /\ outbox # <<>> /\ ~slotBusy => ComesRound

-----------------------------------------------------------------------------
LEMMA VmbusConstants ==
  ASSUME Vmbus!VmbusHostAssumption
  PROVE  /\ Targets \subseteq Vps /\ Vmbus!Boot \in Targets
         /\ MaxOutbox \in Nat /\ MaxPosts \in Nat /\ MaxSaves \in Nat
BY DEF Vmbus!VmbusHostAssumption, Vmbus!Boot

\* queue: a message at the end of the outbox, the earlier ones before it.
LEMMA Queued ==
  ASSUME NEW o \in Seq(Vmbus!Kinds), NEW m \in Vmbus!Kinds
  PROVE  /\ Append(o, m) \in Seq(Vmbus!Kinds) /\ Len(Append(o, m)) = Len(o) + 1 /\ Len(o) \in Nat
         /\ InBox(Append(o, m), m)
         /\ \A k : InBox(o, k) => InBox(Append(o, m), k)
<1>1. Len(o) \in Nat
  BY LenProperties
<1> DEFINE q == Append(o, m)
<1>2. q \in Seq(Vmbus!Kinds) /\ Len(q) = Len(o) + 1 /\ (\A i \in 1 .. Len(o) : q[i] = o[i]) /\ q[Len(o) + 1] = m
  BY AppendProperties
<1> HIDE DEF q
<1>3. InBox(q, m)
  <2>1. Len(o) + 1 \in 1 .. Len(q)
    BY <1>1, <1>2
  <2> QED
    BY <1>2, <2>1 DEF InBox
<1>4. \A k : InBox(o, k) => InBox(q, k)
  <2>1. \A i \in 1 .. Len(o) : i \in 1 .. Len(q)
    BY <1>1, <1>2
  <2> QED
    BY <1>2, <2>1 DEF InBox
<1> QED
  BY <1>1, <1>2, <1>3, <1>4 DEF q

\* handle answers what it says the guest waits for and keeps the rest, unless
\* a new kernel starts over; an open channel stays over a whole GPADL.
LEMMA Handles ==
  ASSUME Vmbus!VmbusHostAssumption, VmbusInv, NEW w \in Vmbus!Kinds \cup {Vmbus!None},
         Vmbus!Handle(w), UNCHANGED slotBusy
  PROVE  /\ connected' \in BOOLEAN /\ target' \in Targets /\ outbox' \in Seq(Vmbus!Kinds)
         /\ Len(outbox') <= Len(outbox) + 2 /\ outboxReady' \in BOOLEAN
         /\ gpadls' \in Pages /\ open' \in Gpadls \cup {Vmbus!NoGpadl}
         /\ w # Vmbus!None => InBox(outbox', w)
         /\ w \in {"version", "unloaded"} \/ \A k : InBox(outbox, k) => InBox(outbox', k)
         /\ outbox' # <<>> /\ ~slotBusy => outboxReady'
         /\ Vmbus!OpenIsBacked'
<1>t. /\ connected \in BOOLEAN /\ target \in Targets /\ outbox \in Seq(Vmbus!Kinds)
      /\ slotBusy \in BOOLEAN /\ outboxReady \in BOOLEAN
      /\ gpadls \in Pages /\ open \in Gpadls \cup {Vmbus!NoGpadl} /\ Len(outbox) \in Nat
      /\ (outbox # <<>> /\ ~slotBusy => outboxReady)
      /\ (open # Vmbus!NoGpadl => gpadls[open] = "whole")
  BY LenProperties DEF VmbusInv, VmbusType, OutboxInv, Vmbus!OpenIsBacked
<1>l. Len(outbox) \in Nat
  BY <1>t
<1>e. <<>> \in Seq(Vmbus!Kinds) /\ Len(<<>>) = 0
  BY EmptySeq
<1>k. /\ "version" \in Vmbus!Kinds /\ "offers" \in Vmbus!Kinds /\ "created" \in Vmbus!Kinds /\ "opened" \in Vmbus!Kinds
      /\ "torndown" \in Vmbus!Kinds /\ "modified" \in Vmbus!Kinds /\ "unloaded" \in Vmbus!Kinds
  BY DEF Vmbus!Kinds
<1> DEFINE Typed == /\ outbox' \in Seq(Vmbus!Kinds) /\ Len(outbox') <= Len(outbox) + 2 /\ outboxReady' \in BOOLEAN
                    /\ (w # Vmbus!None => InBox(outbox', w))
                    /\ (w \in {"version", "unloaded"} \/ \A k : InBox(outbox, k) => InBox(outbox', k))
                    /\ (outbox' # <<>> /\ ~slotBusy => outboxReady')
<1>q. ASSUME NEW m \in Vmbus!Kinds, Vmbus!Queue(outbox, m), w \in {Vmbus!None, m} PROVE Typed
  <2>1. outbox' = Append(outbox, m) /\ outboxReady' = (outboxReady \/ ~slotBusy)
    BY <1>q DEF Vmbus!Queue
  <2>2. outboxReady' \in BOOLEAN /\ (~slotBusy => outboxReady')
    BY <1>t, <2>1, Zenon
  <2>3. /\ outbox' \in Seq(Vmbus!Kinds) /\ Len(outbox') = Len(outbox) + 1
        /\ InBox(outbox', m) /\ \A k : InBox(outbox, k) => InBox(outbox', k)
    BY <1>t, <2>1, Queued
  <2>4. Len(outbox') <= Len(outbox) + 2
    BY <1>l, <2>3
  <2> QED
    BY <1>q, <2>2, <2>3, <2>4
<1>z. ASSUME NEW m \in {"version", "unloaded"}, Vmbus!Queue(<<>>, m), w = m PROVE Typed
  <2>1. outbox' = Append(<<>>, m) /\ outboxReady' = (outboxReady \/ ~slotBusy)
    BY <1>z DEF Vmbus!Queue
  <2>2. outboxReady' \in BOOLEAN /\ (~slotBusy => outboxReady')
    BY <1>t, <2>1, Zenon
  <2>3. /\ outbox' \in Seq(Vmbus!Kinds) /\ Len(outbox') = Len(<<>>) + 1 /\ InBox(outbox', m)
    BY <1>e, <1>k, <2>1, Queued
  <2>4. Len(outbox') <= Len(outbox) + 2
    BY <1>l, <1>e, <2>3
  <2> QED
    BY <1>z, <2>2, <2>3, <2>4
<1>n. ASSUME Vmbus!NoAnswer, w = Vmbus!None PROVE Typed
  <2>1. outbox' = outbox /\ outboxReady' = outboxReady
    BY <1>n DEF Vmbus!NoAnswer
  <2>2. Len(outbox) <= Len(outbox) + 2
    BY <1>l
  <2> QED
    BY <1>n, <1>t, <2>1, <2>2
<1>r. Vmbus!Reset => gpadls' \in Pages /\ open' = Vmbus!NoGpadl
  BY DEF Vmbus!Reset, Pages
<1> DEFINE Rest == /\ connected' \in BOOLEAN /\ target' \in Targets
                   /\ gpadls' \in Pages /\ open' \in Gpadls \cup {Vmbus!NoGpadl}
                   /\ (open' # Vmbus!NoGpadl => gpadls'[open'] = "whole")
<1> HIDE DEF Typed
<1>1. ASSUME w = "version", NEW t \in Targets, NEW ok \in BOOLEAN, Vmbus!InitiateContact(t, ok)
      PROVE  Typed /\ Rest
  <2>1. CASE connected
    BY <1>1, <1>r, <1>z, <2>1 DEF Vmbus!InitiateContact
  <2>2. CASE ~connected
    <3>1. Typed
      BY <1>1, <1>q, <1>k, <2>2 DEF Vmbus!InitiateContact
    <3> QED
      BY <1>1, <1>t, <2>2, <3>1 DEF Vmbus!InitiateContact
  <2> QED
    BY <2>1, <2>2
<1>2. ASSUME w = "unloaded", Vmbus!Unload PROVE Typed /\ Rest
  BY <1>2, <1>t, <1>r, <1>z DEF Vmbus!Unload
<1>3. ASSUME w = "torndown", NEW g \in Gpadls, Vmbus!GpadlTeardown(g) PROVE Typed /\ Rest
  <2>1. Typed
    BY <1>3, <1>q, <1>k DEF Vmbus!GpadlTeardown
  <2>2. gpadls' = [gpadls EXCEPT ![g] = Vmbus!Absent] /\ open' = IF open = g THEN Vmbus!NoGpadl ELSE open
    BY <1>3 DEF Vmbus!GpadlTeardown
  <2>3. gpadls' \in Pages
    BY <1>t, <2>2 DEF Pages
  <2>4. open' # Vmbus!NoGpadl => open' = open /\ open # g
    BY <2>2
  <2>5. open' \in Gpadls \cup {Vmbus!NoGpadl} /\ (open' # Vmbus!NoGpadl => gpadls'[open'] = "whole")
    BY <1>t, <2>2, <2>4 DEF Pages
  <2> QED
    BY <1>3, <1>t, <2>1, <2>3, <2>5 DEF Vmbus!GpadlTeardown
<1>4. ASSUME w = Vmbus!None, Vmbus!CloseChannel PROVE Typed /\ Rest
  BY <1>4, <1>t, <1>n DEF Vmbus!CloseChannel
<1>5. ASSUME w = "offers", Vmbus!RequestOffers PROVE Typed /\ Rest
  <2> DEFINE o1 == Append(outbox, "offers")
  <2>1. outbox' = Append(o1, "offers") /\ outboxReady' = (outboxReady \/ ~slotBusy)
        /\ UNCHANGED <<connected, target, gpadls, open>>
    BY <1>5 DEF Vmbus!RequestOffers, Vmbus!Queue, Vmbus!conn
  <2>2. outboxReady' \in BOOLEAN /\ (~slotBusy => outboxReady')
    BY <1>t, <2>1, Zenon
  <2>3. o1 \in Seq(Vmbus!Kinds) /\ Len(o1) = Len(outbox) + 1 /\ \A k : InBox(outbox, k) => InBox(o1, k)
    BY <1>t, <1>k, Queued
  <2> HIDE DEF o1
  <2>4. /\ outbox' \in Seq(Vmbus!Kinds) /\ Len(outbox') = Len(o1) + 1
        /\ InBox(outbox', "offers") /\ \A k : InBox(o1, k) => InBox(outbox', k)
    BY <1>k, <2>1, <2>3, Queued
  <2>5. Len(outbox') <= Len(outbox) + 2
    BY <1>l, <2>3, <2>4
  <2> QED
    BY <1>5, <1>t, <2>1, <2>2, <2>3, <2>4, <2>5 DEF Typed
<1>6. ASSUME w = "modified", Vmbus!ModifyChannel PROVE Typed /\ Rest
  <2>1. Typed
    BY <1>6, <1>q, <1>k DEF Vmbus!ModifyChannel
  <2> QED
    BY <1>6, <1>t, <2>1 DEF Vmbus!ModifyChannel, Vmbus!conn
<1>7. ASSUME NEW g \in Gpadls, NEW h \in BOOLEAN, w = (IF h THEN "created" ELSE Vmbus!None),
             Vmbus!GpadlHeader(g, h)
      PROVE  Typed /\ Rest
  <2>0. w \in {Vmbus!None, "created"} /\ UNCHANGED <<connected, target, open>>
    BY <1>7 DEF Vmbus!GpadlHeader
  <2>1. Vmbus!Queue(outbox, "created") \/ (Vmbus!NoAnswer /\ w = Vmbus!None)
    BY <1>7 DEF Vmbus!GpadlHeader
  <2>2. Typed
    BY <1>q, <1>n, <1>k, <2>0, <2>1
  <2>3. CASE gpadls' = gpadls
    BY <1>t, <2>0, <2>2, <2>3
  <2>4. CASE gpadls[g] = Vmbus!Absent /\ gpadls' = [gpadls EXCEPT ![g] = IF h THEN "whole" ELSE "partial"]
    <3>1. gpadls' \in Pages /\ (open # Vmbus!NoGpadl => gpadls'[open] = "whole")
      BY <1>t, <2>4 DEF Pages, Vmbus!Absent
    <3> QED
      BY <1>t, <2>0, <2>2, <3>1
  <2>5. \/ gpadls' = gpadls
        \/ gpadls[g] = Vmbus!Absent /\ gpadls' = [gpadls EXCEPT ![g] = IF h THEN "whole" ELSE "partial"]
    BY <1>7, Zenon DEF Vmbus!GpadlHeader
  <2> QED
    BY <2>3, <2>4, <2>5
<1>8. ASSUME NEW g \in Gpadls, w = (IF gpadls[g] = "partial" THEN "created" ELSE Vmbus!None),
             Vmbus!GpadlBody(g)
      PROVE  Typed /\ Rest
  <2>1. CASE gpadls[g] = "partial"
    <3>1. Vmbus!Queue(outbox, "created") /\ w = "created" /\ gpadls' = [gpadls EXCEPT ![g] = "whole"]
          /\ UNCHANGED <<connected, target, open>>
      BY <1>8, <2>1 DEF Vmbus!GpadlBody
    <3>2. Typed
      BY <1>q, <1>k, <3>1
    <3>3. gpadls' \in Pages /\ (open # Vmbus!NoGpadl => gpadls'[open] = "whole")
      BY <1>t, <3>1 DEF Pages
    <3> QED
      BY <1>t, <3>1, <3>2, <3>3
  <2>2. CASE gpadls[g] # "partial"
    <3>1. Vmbus!NoAnswer /\ w = Vmbus!None /\ gpadls' = gpadls /\ UNCHANGED <<connected, target, open>>
      BY <1>8, <2>2 DEF Vmbus!GpadlBody
    <3> QED
      BY <1>n, <1>t, <3>1
  <2> QED
    BY <2>1, <2>2
<1>9. ASSUME NEW g \in Gpadls, w = "opened", Vmbus!OpenChannel(g) PROVE Typed /\ Rest
  <2>1. Typed
    BY <1>9, <1>q, <1>k DEF Vmbus!OpenChannel
  <2> QED
    BY <1>9, <1>t, <2>1 DEF Vmbus!OpenChannel
<1>10. Typed /\ Rest
  BY <1>1, <1>2, <1>3, <1>4, <1>5, <1>6, <1>7, <1>8, <1>9 DEF Vmbus!Handle
<1> QED
  BY <1>10 DEF Typed, Vmbus!OpenIsBacked

LEMMA VmbusStep ==
  ASSUME Vmbus!VmbusHostAssumption, VmbusInv, [Vmbus!Next]_(Vmbus!vars)
  PROVE  VmbusInv'
<1> USE VmbusConstants
<1>t. VmbusType /\ OutboxInv /\ Vmbus!OpenIsBacked
  BY DEF VmbusInv
<1>1. ASSUME NEW v \in Vps, Vmbus!PostMessage(v) PROVE VmbusInv'
  <2>1. PICK w \in Vmbus!Kinds \cup {Vmbus!None} : Vmbus!Handle(w) /\ asked' = Vmbus!Waits(w)
    BY <1>1 DEF Vmbus!PostMessage
  <2>2. /\ UNCHANGED <<slotBusy, slot, notify, due, kicked, saves>> /\ posts < MaxPosts /\ posts' = posts + 1
        /\ vcpu' = [vcpu EXCEPT ![v] = "kick"] /\ aim' = [aim EXCEPT ![v] = target'] /\ Len(outbox) < MaxOutbox
    BY <1>1 DEF Vmbus!PostMessage, Vmbus!synic
  <2>3. /\ connected' \in BOOLEAN /\ target' \in Targets /\ outbox' \in Seq(Vmbus!Kinds)
        /\ Len(outbox') <= Len(outbox) + 2 /\ outboxReady' \in BOOLEAN
        /\ gpadls' \in Pages /\ open' \in Gpadls \cup {Vmbus!NoGpadl}
        /\ w # Vmbus!None => InBox(outbox', w)
        /\ w \in {"version", "unloaded"} \/ \A k : InBox(outbox, k) => InBox(outbox', k)
        /\ outbox' # <<>> /\ ~slotBusy => outboxReady'
        /\ Vmbus!OpenIsBacked'
    BY <2>1, <2>2, Handles
  <2>4. Len(outbox') <= MaxOutbox + 1
    <3>1. Len(outbox) \in Nat /\ Len(outbox') \in Nat
      BY <1>t, <2>3, LenProperties DEF VmbusType
    <3> QED
      BY <2>2, <2>3, <3>1
  <2>5. asked' \subseteq Vmbus!Kinds
    BY <1>t, <2>1 DEF Vmbus!Waits, VmbusType, Vmbus!Kinds
  <2>6. \A k \in asked' : InBox(outbox', k)
    <3>1. CASE w \in {"version", "unloaded"}
      BY <2>1, <2>3, <3>1 DEF Vmbus!Waits, Vmbus!None
    <3>2. CASE w \notin {"version", "unloaded"}
      <4>1. asked' = asked \cup ({w} \ {Vmbus!None})
        BY <2>1, <3>2 DEF Vmbus!Waits
      <4> QED
        BY <1>t, <2>3, <3>2, <4>1 DEF OutboxInv
    <3> QED
      BY <3>1, <3>2
  <2>7. posts' \in 0 .. MaxPosts
    <3>1. posts \in 0 .. MaxPosts /\ MaxPosts \in Nat
      BY <1>t, VmbusConstants DEF VmbusType
    <3> QED
      BY <2>2, <3>1
  <2>8. vcpu' \in [Vps -> {"guest", "top", "enter", "kick"}] /\ aim' \in [Vps -> Vps]
    BY <1>t, <2>2, <2>3 DEF VmbusType
  <2>9. VmbusType'
    BY <1>t, <2>2, <2>3, <2>4, <2>5, <2>7, <2>8 DEF VmbusType
  <2> QED
    BY <2>2, <2>3, <2>6, <2>9 DEF VmbusInv, OutboxInv
<1>k. ASSUME UNCHANGED Vmbus!host, UNCHANGED asked PROVE OutboxInv' /\ Vmbus!OpenIsBacked'
  BY <1>t, <1>k DEF Vmbus!host, OutboxInv, Vmbus!OpenIsBacked, InBox
<1>2. ASSUME NEW v \in Vps,
             Vmbus!PostRefused(v) \/ Vmbus!Kick(v) \/ Vmbus!Enter(v) \/ Vmbus!Canceled(v) \/ Vmbus!TakeMessage(v)
      PROVE  VmbusInv'
  <2>0. UNCHANGED Vmbus!host /\ UNCHANGED asked
    BY <1>2 DEF Vmbus!PostRefused, Vmbus!Kick, Vmbus!Enter, Vmbus!Canceled, Vmbus!TakeMessage
  <2>a. VmbusType'
    <3>1. CASE Vmbus!PostRefused(v)
      BY <1>t, <3>1 DEF Vmbus!PostRefused, VmbusType, Vmbus!host, Vmbus!synic
    <3>2. CASE Vmbus!Kick(v)
      <4>1. kicked' \in [Vps -> BOOLEAN]
        BY <1>t, <3>2, Zenon DEF Vmbus!Kick, VmbusType
      <4>2. vcpu' \in [Vps -> {"guest", "top", "enter", "kick"}]
        BY <1>t, <3>2 DEF Vmbus!Kick, VmbusType
      <4> QED
        BY <1>t, <3>2, <4>1, <4>2 DEF Vmbus!Kick, VmbusType, Vmbus!host
    <3>3. CASE Vmbus!Enter(v)
      BY <1>t, <3>3 DEF Vmbus!Enter, VmbusType, Vmbus!host
    <3>4. CASE Vmbus!Canceled(v)
      BY <1>t, <3>4 DEF Vmbus!Canceled, VmbusType, Vmbus!host
    <3>5. CASE Vmbus!TakeMessage(v)
      <4>1. due' = [due EXCEPT ![v] = due[v] \/ notify[v]]
        BY <3>5 DEF Vmbus!TakeMessage
      <4>2. (due[v] \/ notify[v]) \in BOOLEAN
        OBVIOUS
      <4>3. due' \in [Vps -> BOOLEAN]
        BY <1>t, <4>1, <4>2, Zenon DEF VmbusType
      <4> QED
        BY <1>t, <3>5, <4>3 DEF Vmbus!TakeMessage, VmbusType, Vmbus!host
    <3> QED
      BY <1>2, <3>1, <3>2, <3>3, <3>4, <3>5
  <2> QED
    BY <1>k, <2>0, <2>a DEF VmbusInv
<1>3. ASSUME NEW v \in Vps, Vmbus!Flush(v) PROVE VmbusInv'
  <2>1. /\ UNCHANGED <<connected, target, gpadls, open, due, kicked, aim, posts, saves>>
        /\ vcpu' = [vcpu EXCEPT ![v] = "enter"]
    BY <1>3 DEF Vmbus!Flush
  <2>2. Vmbus!OpenIsBacked' /\ vcpu' \in [Vps -> {"guest", "top", "enter", "kick"}]
    BY <1>t, <2>1 DEF Vmbus!OpenIsBacked, VmbusType
  <2>3. CASE ~(outboxReady /\ v = target /\ ~slotBusy)
    <3>1. UNCHANGED <<outbox, slotBusy, outboxReady, slot, notify, asked>>
      BY <1>3, <2>3 DEF Vmbus!Flush
    <3> QED
      BY <1>t, <2>1, <2>2, <3>1 DEF VmbusInv, VmbusType, OutboxInv, InBox
  <2>4. CASE (outboxReady /\ v = target /\ ~slotBusy) /\ outbox = <<>>
    <3>1. UNCHANGED <<outbox, slotBusy, slot, notify, asked>> /\ outboxReady' = FALSE
      BY <1>3, <2>4 DEF Vmbus!Flush
    <3> QED
      BY <1>t, <2>1, <2>2, <2>4, <3>1 DEF VmbusInv, VmbusType, OutboxInv, InBox
  <2>5. CASE (outboxReady /\ v = target /\ ~slotBusy) /\ outbox # <<>>
    <3>1. /\ Vmbus!FlushBusy(v) /\ slot' = [slot EXCEPT ![v] = TRUE] /\ outboxReady' = FALSE
          /\ IF slot[v] THEN UNCHANGED <<outbox, asked>>
             ELSE outbox' = Tail(outbox) /\ asked' = asked \ {Head(outbox)}
      BY <1>3, <2>5 DEF Vmbus!Flush
    <3>2. slotBusy' \in BOOLEAN /\ notify' \in [Vps -> BOOLEAN] /\ slot' \in [Vps -> BOOLEAN]
      BY <1>t, <3>1 DEF Vmbus!FlushBusy, VmbusType
    <3>3. CASE slot[v]
      <4>1. slotBusy' = TRUE
        BY <3>1, <3>3 DEF Vmbus!FlushBusy
      <4>2. UNCHANGED <<outbox, asked>>
        BY <3>1, <3>3
      <4> QED
        BY <1>t, <2>1, <2>2, <3>1, <3>2, <4>1, <4>2 DEF VmbusInv, VmbusType, OutboxInv, InBox
    <3>4. CASE ~slot[v]
      <4>1. outbox' = Tail(outbox) /\ asked' = asked \ {Head(outbox)} /\ outbox \in Seq(Vmbus!Kinds)
        BY <1>t, <3>1, <3>4 DEF VmbusType
      <4>2. /\ outbox' \in Seq(Vmbus!Kinds) /\ Len(outbox') = Len(outbox) - 1 /\ Len(outbox) \in Nat /\ Head(outbox) = outbox[1]
            /\ \A i \in 1 .. Len(outbox') : outbox'[i] = outbox[i + 1]
        BY <2>5, <4>1, HeadTailProperties, LenProperties
      <4>3. \A k \in asked' : InBox(outbox', k)
        <5> SUFFICES ASSUME NEW k \in asked' PROVE InBox(outbox', k)
          OBVIOUS
        <5>1. k \in asked /\ k # outbox[1]
          BY <4>1, <4>2
        <5>2. PICK i \in 1 .. Len(outbox) : outbox[i] = k
          BY <1>t, <5>1 DEF OutboxInv, InBox
        <5>3. i # 1
          BY <5>1, <5>2
        <5>4. i - 1 \in 1 .. Len(outbox') /\ (i - 1) + 1 = i
          BY <4>2, <5>3
        <5>5. outbox'[i - 1] = k
          BY <4>2, <5>2, <5>4
        <5> QED
          BY <5>4, <5>5 DEF InBox
      <4>4. outbox' # <<>> => slotBusy' = TRUE
        <5>1. outbox' # <<>> => Len(outbox') > 0
          BY <4>2, EmptySeq
        <5>2. outbox' # <<>> => Len(outbox) > 1
          BY <4>2, <5>1
        <5> QED
          BY <3>1, <5>2 DEF Vmbus!FlushBusy
      <4>5. Len(outbox') <= MaxOutbox + 1
        BY <1>t, <4>2 DEF VmbusType
      <4>6. asked' \subseteq Vmbus!Kinds
        BY <1>t, <4>1 DEF VmbusType
      <4>7. VmbusType'
        BY <1>t, <2>1, <2>2, <3>1, <3>2, <4>2, <4>5, <4>6 DEF VmbusType
      <4>8. OutboxInv'
        BY <4>3, <4>4 DEF OutboxInv
      <4> QED
        BY <2>2, <4>7, <4>8 DEF VmbusInv
    <3> QED
      BY <3>3, <3>4
  <2> QED
    BY <2>3, <2>4, <2>5
<1>4. ASSUME NEW v \in Vps, Vmbus!SintsDeliverable(v) PROVE VmbusInv'
  <2>1. /\ UNCHANGED <<connected, target, outbox, gpadls, open, slot, notify, kicked, aim, asked, posts, saves>>
        /\ due' = [due EXCEPT ![v] = FALSE] /\ vcpu' = [vcpu EXCEPT ![v] = "top"]
    BY <1>4 DEF Vmbus!SintsDeliverable
  <2>2. /\ slotBusy' \in BOOLEAN /\ outboxReady' \in BOOLEAN
        /\ outbox # <<>> /\ ~slotBusy' => outboxReady'
    <3>1. CASE v = target /\ slotBusy
      BY <1>4, <3>1, Zenon DEF Vmbus!SintsDeliverable
    <3>2. CASE ~(v = target /\ slotBusy)
      BY <1>4, <1>t, <3>2 DEF Vmbus!SintsDeliverable, VmbusType, OutboxInv
    <3> QED
      BY <3>1, <3>2
  <2>3. VmbusType'
    BY <1>t, <2>1, <2>2 DEF VmbusType
  <2> QED
    BY <1>t, <2>1, <2>2, <2>3 DEF VmbusInv, OutboxInv, Vmbus!OpenIsBacked, InBox
<1>5. CASE Vmbus!SaveRestore
  <2>1. /\ UNCHANGED <<connected, target, outbox, gpadls, open, slot, aim, asked, posts>>
        /\ slotBusy' = FALSE /\ outboxReady' = (outbox # <<>>) /\ saves < MaxSaves /\ saves' = saves + 1
        /\ notify' = [v \in Vps |-> FALSE] /\ due' = [v \in Vps |-> FALSE]
        /\ kicked' = [v \in Vps |-> FALSE] /\ vcpu' = [v \in Vps |-> "top"]
    BY <1>5 DEF Vmbus!SaveRestore, Vmbus!RestoreReady
  <2>2. outboxReady' \in BOOLEAN /\ (outbox # <<>> => outboxReady')
    BY <2>1, Zenon
  <2>3. saves' \in 0 .. MaxSaves
    BY <1>t, <2>1 DEF VmbusType
  <2>4. VmbusType'
    BY <1>t, <2>1, <2>2, <2>3 DEF VmbusType
  <2> QED
    BY <1>t, <2>1, <2>2, <2>4 DEF VmbusInv, OutboxInv, Vmbus!OpenIsBacked, InBox
<1>6. CASE UNCHANGED Vmbus!vars
  BY <1>t, <1>6 DEF Vmbus!vars, Vmbus!host, Vmbus!synic, VmbusInv, VmbusType, OutboxInv,
     Vmbus!OpenIsBacked, InBox
<1> QED
  BY <1>1, <1>2, <1>3, <1>4, <1>5, <1>6 DEF Vmbus!Next

LEMMA VmbusInit ==
  ASSUME Vmbus!VmbusHostAssumption, Vmbus!Init
  PROVE  VmbusInv
<1> USE VmbusConstants DEF Vmbus!Init
<1>1. <<>> \in Seq(Vmbus!Kinds) /\ Len(<<>>) = 0
  BY EmptySeq
<1>2. gpadls \in Pages
  BY DEF Pages
<1>3. Vmbus!Boot \in Vps
  BY VmbusConstants
<1>4. 0 \in 0 .. MaxPosts /\ 0 \in 0 .. MaxSaves /\ 0 <= MaxOutbox + 1
  BY VmbusConstants
<1>5. /\ slot \in [Vps -> BOOLEAN] /\ notify \in [Vps -> BOOLEAN] /\ due \in [Vps -> BOOLEAN]
      /\ kicked \in [Vps -> BOOLEAN] /\ vcpu \in [Vps -> {"guest", "top", "enter", "kick"}]
      /\ aim \in [Vps -> Vps]
  BY <1>3
<1>6. VmbusType
  BY <1>1, <1>2, <1>4, <1>5 DEF VmbusType
<1> QED
  BY <1>6 DEF VmbusInv, OutboxInv, Vmbus!OpenIsBacked

\* An open VMBus channel's ring is a whole GPADL: no order of headers, bodies,
\* teardowns, closes, new kernels, unloads and restores leaves it on another.
THEOREM OpenChannelsAreBacked ==
  ASSUME Vmbus!VmbusHostAssumption
  PROVE  Vmbus!Spec => [](Vmbus!TypeOK /\ Vmbus!OpenIsBacked)
<1>1. VmbusInv => Vmbus!TypeOK /\ Vmbus!OpenIsBacked
  BY VmbusConstants DEF VmbusInv, VmbusType, Vmbus!TypeOK, Pages
<1> QED
  BY VmbusInit, VmbusStep, <1>1, PTL DEF Vmbus!Spec

LEMMA TurnStep ==
  ASSUME Vmbus!VmbusHostAssumption, NEW only, Targets = {only}, VmbusInv, VmbusInv', TurnInv,
         [Vmbus!Next]_(Vmbus!vars)
  PROVE  TurnInv'
<1>t. /\ VmbusType /\ OutboxInv /\ target = only /\ target' = only /\ only \in Vps
      /\ slotBusy \in BOOLEAN
  BY VmbusConstants DEF VmbusInv, VmbusType
<1> USE DEF TurnInv, ComesRound
<1>1. ASSUME NEW v \in Vps, Vmbus!PostMessage(v) PROVE TurnInv'
  <2>1. /\ UNCHANGED <<slotBusy, slot, notify, due, kicked>>
        /\ vcpu' = [vcpu EXCEPT ![v] = "kick"] /\ aim' = [aim EXCEPT ![v] = target']
    BY <1>1 DEF Vmbus!PostMessage, Vmbus!synic
  <2>2. vcpu'[v] = "kick" /\ aim'[v] = target'
    BY <1>t, <2>1 DEF VmbusType
  <2> QED
    BY <1>t, <2>1, <2>2
<1>2. ASSUME NEW v \in Vps, Vmbus!PostRefused(v) PROVE TurnInv'
  BY <1>2, <1>t DEF Vmbus!PostRefused, Vmbus!host, Vmbus!synic, VmbusType
<1>3. ASSUME NEW v \in Vps, Vmbus!Kick(v) PROVE TurnInv'
  <2>1. /\ UNCHANGED <<target, outbox, slotBusy, outboxReady, slot, notify, due, aim>> /\ vcpu[v] = "kick"
        /\ vcpu' = [vcpu EXCEPT ![v] = "top"]
        /\ kicked' = IF aim[v] # v /\ outboxReady THEN [kicked EXCEPT ![aim[v]] = TRUE] ELSE kicked
    BY <1>3 DEF Vmbus!Kick, Vmbus!host
  <2>2. CASE outbox # <<>> /\ ~slotBusy
    <3>1. outboxReady
      BY <1>t, <2>2 DEF OutboxInv
    <3>2. kicked[target] => kicked'[target]
      BY <1>t, <2>1 DEF VmbusType
    <3>3. vcpu'[v] = "top" /\ \A u \in Vps \ {v} : vcpu'[u] = vcpu[u]
      BY <1>t, <2>1 DEF VmbusType
    <3>4. aim[v] = target => v = target \/ kicked'[target]
      BY <1>t, <2>1, <3>1 DEF VmbusType
    <3>5. ComesRound'
      BY <1>t, <2>1, <2>2, <3>2, <3>3, <3>4
    <3> QED
      BY <2>1, <2>2, <3>5
  <2>3. CASE ~(outbox # <<>> /\ ~slotBusy)
    BY <2>1, <2>3
  <2> QED
    BY <2>2, <2>3
<1>4. ASSUME NEW v \in Vps, Vmbus!Flush(v) PROVE TurnInv'
  <2>1. UNCHANGED <<target, due, kicked, aim>> /\ vcpu' = [vcpu EXCEPT ![v] = "enter"] /\ vcpu[v] = "top"
    BY <1>4 DEF Vmbus!Flush
  <2>2. CASE ~(outboxReady /\ v = target /\ ~slotBusy)
    <3>1. UNCHANGED <<outbox, slotBusy, outboxReady, slot, notify>>
      BY <1>4, <2>2 DEF Vmbus!Flush
    <3>2. outbox # <<>> /\ ~slotBusy => v # target
      BY <1>t, <2>2 DEF OutboxInv
    <3>3. \A u \in Vps \ {v} : vcpu'[u] = vcpu[u]
      BY <1>t, <2>1 DEF VmbusType
    <3> QED
      BY <1>t, <2>1, <3>1, <3>2, <3>3
  <2>3. CASE (outboxReady /\ v = target /\ ~slotBusy) /\ outbox = <<>>
    BY <1>4, <2>1, <2>3 DEF Vmbus!Flush
  <2>4. CASE (outboxReady /\ v = target /\ ~slotBusy) /\ outbox # <<>>
    <3>1. /\ Vmbus!FlushBusy(v) /\ slot' = [slot EXCEPT ![v] = TRUE]
          /\ IF slot[v] THEN UNCHANGED <<outbox, asked>>
             ELSE outbox' = Tail(outbox) /\ asked' = asked \ {Head(outbox)}
      BY <1>4, <2>4 DEF Vmbus!Flush
    <3>2. slot'[target] = TRUE
      BY <1>t, <2>4, <3>1 DEF VmbusType
    <3>3. CASE slot[v] \/ Len(outbox) > 1
      <4>1. slotBusy' = TRUE /\ notify' = [notify EXCEPT ![v] = TRUE]
        BY <3>1, <3>3 DEF Vmbus!FlushBusy
      <4>2. notify'[target] = TRUE
        BY <1>t, <2>4, <4>1 DEF VmbusType
      <4> QED
        BY <2>1, <3>2, <4>1, <4>2
    <3>4. CASE ~(slot[v] \/ Len(outbox) > 1)
      <4>1. slotBusy' = slotBusy /\ outbox' = Tail(outbox)
        BY <3>1, <3>4 DEF Vmbus!FlushBusy
      <4>2. outbox' = <<>>
        <5>0. outbox \in Seq(Vmbus!Kinds)
          BY <1>t DEF VmbusType
        <5>a. Len(outbox) \in Nat \ {0}
          BY <2>4, <5>0, EmptySeq
        <5>1. outbox \in Seq(Vmbus!Kinds) /\ Len(outbox) \in Nat /\ Len(outbox) = 1
          <6>1. ~(Len(outbox) > 1)
            BY <3>4
          <6>2. PICK n : n = Len(outbox)
            OBVIOUS
          <6>3. n \in Nat \ {0} /\ ~(n > 1)
            BY <5>a, <6>1, <6>2
          <6>4. n = 1
            BY ONLY <6>3
          <6> QED
            BY <5>0, <6>2, <6>4
        <5>2. Tail(outbox) \in Seq(Vmbus!Kinds) /\ Len(Tail(outbox)) = 0
          BY <2>4, <5>1, HeadTailProperties
        <5> QED
          BY <4>1, <5>2, EmptySeq
      <4> QED
        BY <2>4, <4>1, <4>2
    <3> QED
      BY <3>3, <3>4
  <2> QED
    BY <2>2, <2>3, <2>4
<1>5. ASSUME NEW v \in Vps, Vmbus!Enter(v) PROVE TurnInv'
  <2>1. /\ UNCHANGED <<target, outbox, slotBusy, slot, notify, due, aim>> /\ vcpu[v] = "enter"
        /\ vcpu' = [vcpu EXCEPT ![v] = IF kicked[v] THEN "top" ELSE "guest"]
        /\ kicked' = [kicked EXCEPT ![v] = FALSE]
    BY <1>5 DEF Vmbus!Enter, Vmbus!host
  <2>2. \A u \in Vps \ {v} : vcpu'[u] = vcpu[u] /\ kicked'[u] = kicked[u]
    BY <1>t, <2>1 DEF VmbusType
  <2>3. kicked[v] => vcpu'[v] = "top"
    BY <1>t, <2>1 DEF VmbusType
  <2> QED
    BY <1>t, <2>1, <2>2, <2>3
<1>6. ASSUME NEW v \in Vps, Vmbus!Canceled(v) PROVE TurnInv'
  <2>1. /\ UNCHANGED <<target, outbox, slotBusy, slot, notify, due, aim>> /\ vcpu[v] = "guest"
        /\ vcpu' = [vcpu EXCEPT ![v] = "top"] /\ kicked' = [kicked EXCEPT ![v] = FALSE]
    BY <1>6 DEF Vmbus!Canceled, Vmbus!host
  <2>2. \A u \in Vps \ {v} : vcpu'[u] = vcpu[u] /\ kicked'[u] = kicked[u]
    BY <1>t, <2>1 DEF VmbusType
  <2>3. vcpu'[v] = "top"
    BY <1>t, <2>1 DEF VmbusType
  <2> QED
    BY <1>t, <2>1, <2>2, <2>3
<1>7. ASSUME NEW v \in Vps, Vmbus!TakeMessage(v) PROVE TurnInv'
  <2>1. /\ UNCHANGED <<target, outbox, slotBusy, kicked, vcpu, aim>>
        /\ slot' = [slot EXCEPT ![v] = FALSE] /\ due' = [due EXCEPT ![v] = due[v] \/ notify[v]]
        /\ notify' = [notify EXCEPT ![v] = FALSE]
    BY <1>7 DEF Vmbus!TakeMessage, Vmbus!host
  <2>2. \A u \in Vps \ {v} : due'[u] = due[u] /\ notify'[u] = notify[u] /\ slot'[u] = slot[u]
    BY <1>t, <2>1 DEF VmbusType
  <2>3. due[v] \/ notify[v] => due'[v]
    BY <1>t, <2>1, Zenon DEF VmbusType
  <2> QED
    BY <1>t, <2>1, <2>2, <2>3
<1>8. ASSUME NEW v \in Vps, Vmbus!SintsDeliverable(v) PROVE TurnInv'
  <2>1. /\ UNCHANGED <<target, outbox, slot, notify, kicked, aim>> /\ vcpu[v] = "guest"
        /\ due' = [due EXCEPT ![v] = FALSE] /\ vcpu' = [vcpu EXCEPT ![v] = "top"]
    BY <1>8 DEF Vmbus!SintsDeliverable
  <2>2. /\ vcpu'[v] = "top"
        /\ \A u \in Vps \ {v} : due'[u] = due[u] /\ vcpu'[u] = vcpu[u]
    BY <1>t, <2>1 DEF VmbusType
  <2>3. CASE v = target /\ slotBusy
    <3>1. slotBusy' = FALSE
      BY <1>8, <2>3 DEF Vmbus!SintsDeliverable
    <3> QED
      BY <2>1, <2>2, <2>3, <3>1
  <2>4. CASE ~(v = target /\ slotBusy)
    <3>1. slotBusy' = slotBusy
      BY <1>8, <2>4 DEF Vmbus!SintsDeliverable
    <3> QED
      BY <1>t, <2>1, <2>2, <2>4, <3>1
  <2> QED
    BY <2>3, <2>4
<1>9. CASE Vmbus!SaveRestore
  <2>1. slotBusy' = FALSE /\ vcpu' = [v \in Vps |-> "top"]
    BY <1>9 DEF Vmbus!SaveRestore
  <2> QED
    BY <1>t, <2>1
<1>10. CASE UNCHANGED Vmbus!vars
  BY <1>10 DEF Vmbus!vars, Vmbus!host, Vmbus!synic
<1> QED
  BY <1>1, <1>2, <1>3, <1>4, <1>5, <1>6, <1>7, <1>8, <1>9, <1>10 DEF Vmbus!Next

\* While the guest takes its messages on one vCPU, an answer it waits for is
\* always on its way: in the outbox, with the slot busy and the target owed an
\* exit, or the target about to flush.
THEOREM GuestIsAnswered ==
  ASSUME Vmbus!VmbusHostAssumption, NEW only, Targets = {only}
  PROVE  Vmbus!Spec => []Vmbus!AnswersAreOnTheirWay
<1>1. Vmbus!Init => VmbusInv /\ TurnInv
  <2>1. Vmbus!Init => TurnInv
    BY DEF Vmbus!Init, TurnInv
  <2> QED
    BY <2>1, VmbusInit
<1>2. (VmbusInv /\ TurnInv) /\ [Vmbus!Next]_(Vmbus!vars) => (VmbusInv /\ TurnInv)'
  BY VmbusStep, TurnStep
<1>3. VmbusInv /\ TurnInv => Vmbus!AnswersAreOnTheirWay
  <2> SUFFICES ASSUME VmbusInv, TurnInv PROVE Vmbus!AnswersAreOnTheirWay
    OBVIOUS
  <2>1. slotBusy \in BOOLEAN /\ OutboxInv
    BY DEF VmbusInv, VmbusType
  <2> QED
    BY <2>1 DEF TurnInv, ComesRound, OutboxInv, InBox, Vmbus!AnswersAreOnTheirWay
<1> QED
  BY <1>1, <1>2, <1>3, PTL DEF Vmbus!Spec

-----------------------------------------------------------------------------
(* Reassembly: a block whose bit is set was written by a fragment of that    *)
(* datagram, the payload reaches to the furthest of them, and it is made of  *)
(* whole blocks until the last fragment has come.                            *)

Datagram == [id : Ids, payload : Seq(Ids \cup {Frag!Hole}), have : SUBSET Nat, len : Int,
             ends : SUBSET Nat, since : Nat]

\* A block whose bit is set was written by a fragment; the payload reaches to
\* the furthest of them, which are whole blocks until the last one has come.
DatagramOk(r) ==
    /\ r \in Datagram
    /\ Len(r.payload) <= Units
    /\ \A e \in r.ends : e <= Len(r.payload)
    /\ r.len # -1 => r.len = Len(r.payload)
    /\ r.len = -1 => Len(r.payload) % 2 = 0
    /\ \A b \in r.have : 2 * b < Len(r.payload)
    /\ \A b \in r.have : \A j \in 1 .. Len(r.payload) :
         j = 2 * b + 1 \/ j = 2 * b + 2 => r.payload[j] = r.id

PendingInv ==
    /\ seen \in Nat /\ IsFiniteSet(pending) /\ Cardinality(pending) <= MaxPending
    /\ \A r \in pending : DatagramOk(r) /\ r.since < seen
    /\ \A q, r \in pending : q.since = r.since => q = r

-----------------------------------------------------------------------------
LEMMA NatMin ==
  ASSUME NEW S, S \subseteq Nat, S # {}
  PROVE  Frag!Min(S) \in S /\ \A n \in S : Frag!Min(S) <= n
<1> DEFINE R == OpToRel(<, Nat)
<1>1. PICK n \in S : \A m \in S : ~(<<m, n>> \in R)
  BY NatLessThanWellFounded, WFMin
<1>2. ASSUME NEW m \in S PROVE n <= m
  <2>1. ~(<<m, n>> \in R)
    BY <1>1
  <2>2. m < n => <<m, n>> \in R
    BY DEF OpToRel
  <2>3. ~(m < n)
    BY <2>1, <2>2, Zenon
  <2> QED
    BY <2>3
<1> QED
  BY <1>2 DEF Frag!Min

LEMMA FreshOk ==
  ASSUME Frag!ReassemblyAssumption, seen \in Nat, NEW f \in Frag!Fragments
  PROVE  DatagramOk(Frag!Fresh(f)) /\ Frag!Fresh(f).since = seen /\ Frag!Fresh(f).id = f.id
<1>1. f.id \in Ids
  BY DEF Frag!Fragments
<1>2. <<>> \in Seq(Ids \cup {Frag!Hole}) /\ Len(<<>>) = 0
  OBVIOUS
<1>3. Units \in Nat
  BY DEF Frag!ReassemblyAssumption
<1> QED
  BY <1>1, <1>2, <1>3 DEF Frag!Fresh, DatagramOk, Datagram

\* A fragment that does not contradict its datagram leaves it as it should be.
LEMMA AddedOk ==
  ASSUME Frag!ReassemblyAssumption, NEW f \in Frag!Fragments, Frag!Valid(f), NEW r, DatagramOk(r),
         r.id = f.id,
         ~Frag!Contradicts(r, f)
  PROVE  DatagramOk(Frag!Added(r, f)) /\ Frag!Added(r, f).since = r.since /\ Frag!Added(r, f).id = f.id
<1> DEFINE l == Len(r.payload)
           n == IF l < f.end THEN f.end ELSE l
           p == [j \in 1 .. n |-> IF f.off < j /\ j <= f.end THEN f.id
                                  ELSE IF j <= l THEN r.payload[j] ELSE Frag!Hole]
           h == r.have \cup (f.off \div 2 .. (f.end + 1) \div 2 - 1)
           e == r.ends \cup {f.end}
           k == IF f.more THEN r.len ELSE f.end
           a == Frag!Added(r, f)
<1>1. f.id \in Ids /\ f.off \in 0 .. Units - 1 /\ f.end \in 1 .. Units /\ f.more \in BOOLEAN
  BY DEF Frag!Fragments
<1>2. Units \in Nat /\ r \in Datagram /\ l \in Nat /\ l <= Units /\ r.len \in Int /\ r.have \subseteq Nat
      /\ r.ends \subseteq Nat /\ r.payload \in Seq(Ids \cup {Frag!Hole}) /\ r.since \in Nat /\ r.id \in Ids
  BY DEF Frag!ReassemblyAssumption, DatagramOk, Datagram
<1>3. a = [r EXCEPT !.payload = p, !.have = h, !.ends = e, !.len = k]
  BY DEF Frag!Added
<1>4. a.payload = p /\ a.have = h /\ a.ends = e /\ a.len = k /\ a.id = r.id /\ a.since = r.since
  BY <1>2, <1>3 DEF Datagram
<1> HIDE DEF a
<1>5. n \in Nat /\ n <= Units /\ f.end <= n /\ l <= n /\ (n = f.end \/ n = l)
  BY <1>1, <1>2
<1>6. p \in Seq(Ids \cup {Frag!Hole}) /\ Len(p) = n
  <2>1. \A j \in 1 .. l : r.payload[j] \in Ids \cup {Frag!Hole}
    BY <1>2
  <2>2. \A j \in 1 .. n : p[j] \in Ids \cup {Frag!Hole}
    BY <1>1, <1>2, <2>1
  <2>3. p \in [1 .. n -> Ids \cup {Frag!Hole}]
    BY <2>2
  <2> HIDE DEF p
  <2> QED
    BY <2>3, <1>5
<1>7. h \subseteq Nat
  BY <1>1, <1>2
<1>8. a \in Datagram
  <2> HIDE DEF p, h, e, k
  <2>1. k \in Int /\ e \subseteq Nat
    BY <1>1, <1>2 DEF k, e
  <2> QED
    BY <1>2, <1>3, <1>6, <1>7, <2>1 DEF Datagram
<1>9. /\ Frag!Even(f.off) /\ f.off < f.end /\ (f.more => Frag!Even(f.end))
  BY DEF Frag!Valid
<1>10. k # -1 => k = n
  BY <1>1, <1>2 DEF Frag!Contradicts, DatagramOk
<1>11. k = -1 => n % 2 = 0
  <2>1. ASSUME k = -1 PROVE f.more /\ r.len = -1
    BY <2>1, <1>1
  <2>2. ASSUME f.more, r.len = -1 PROVE f.end % 2 = 0 /\ l % 2 = 0
    BY <2>2, <1>9 DEF DatagramOk, Frag!Even
  <2> QED
    BY <2>1, <2>2
<1>12. r.len = -1 \/ f.end <= l
  BY <1>1, <1>2 DEF Frag!Contradicts, DatagramOk
<1>13. ASSUME NEW b \in h, NEW j \in 1 .. n, j = 2 * b + 1 \/ j = 2 * b + 2 PROVE p[j] = r.id
  <2>0. b \in Nat
    BY <1>7
  <2>1. CASE f.off < j /\ j <= f.end
    BY <2>1
  <2>2. CASE b \in r.have /\ j <= l
    <3>1. r.payload[j] = r.id
      <4>1. j \in 1 .. l
        BY <2>2, <1>2, <1>5
      <4>2. \A c \in r.have : \A i \in 1 .. l : i = 2 * c + 1 \/ i = 2 * c + 2 => r.payload[i] = r.id
        BY DEF DatagramOk
      <4> HIDE DEF l, h, p
      <4> QED
        BY <4>1, <4>2, <2>2, <1>13
    <3> QED
      BY <2>2, <3>1
  <2>3. CASE b \in f.off \div 2 .. (f.end + 1) \div 2 - 1 /\ ~(f.off < j /\ j <= f.end)
    <3>a. f.off \in Nat /\ f.off % 2 = 0
      BY <1>1, <1>9 DEF Frag!Even
    <3>b. f.off \div 2 \in Nat /\ f.off = 2 * (f.off \div 2)
      BY ONLY <3>a
    <3>1. PICK o \in Nat : f.off = 2 * o
      BY <3>b
    <3>2. f.off \div 2 = o
      BY <3>1
    <3>3. j > f.off
      BY <2>3, <3>1, <3>2, <1>13, <2>0
    <3>4. 2 * b + 2 <= f.end + 1
      BY <2>3, <2>0, <1>1
    <3>5. j = f.end + 1 /\ j = 2 * b + 2
      BY <3>3, <3>4, <2>3, <1>13, <1>1, <2>0
    <3>6. ~f.more
      <4>1. f.end = 2 * b + 1
        BY <3>5, <2>0, <1>1
      <4>2. f.end % 2 # 0
        BY <4>1, <2>0
      <4> QED
        BY <4>2, <1>9 DEF Frag!Even
    <3>7. n = f.end
      BY <3>6, <1>10, <1>1
    <3> QED
      BY <3>5, <3>7, <1>5, <1>1
  <2>4. CASE b \in r.have /\ j > l /\ ~(f.off < j /\ j <= f.end)
    <3>1. n = f.end /\ l < f.end
      BY <2>4, <1>5, <1>1, <1>2
    <3>2. l % 2 = 0
      <4>1. r.len = -1
        BY <3>1, <1>12, <1>1, <1>2
      <4> QED
        BY <4>1 DEF DatagramOk
    <3>3. 2 * b < l
      BY <2>4 DEF DatagramOk
    <3> HIDE DEF l, n, h, p
    <3>4. 2 * b + 2 <= l
      BY <3>2, <3>3, <2>0, <1>2
    <3> QED
      BY <3>4, <2>4, <1>13, <2>0, <1>2, <1>5
  <2> QED
    BY <2>1, <2>2, <2>3, <2>4, <1>2
<1>14. \A x \in e : x <= n
  BY <1>2, <1>5 DEF DatagramOk
<1>15. ASSUME NEW b \in h PROVE 2 * b < n
  <2>1. CASE b \in r.have
    <3>1. 2 * b < l /\ b \in Nat
      BY <2>1, <1>2 DEF DatagramOk
    <3> QED
      BY <3>1, <1>2, <1>5
  <2>2. CASE b \in f.off \div 2 .. (f.end + 1) \div 2 - 1
    <3>1. b \in Nat /\ 2 * b < f.end
      BY <2>2, <1>1, <1>7
    <3> QED
      BY <3>1, <1>1, <1>5
  <2> QED
    BY <2>1, <2>2
<1> HIDE DEF l, n, p, h, e, k
<1>16. Len(a.payload) = n
  BY <1>4, <1>6
<1>17. DatagramOk(a)
  BY <1>4, <1>5, <1>8, <1>10, <1>11, <1>13, <1>14, <1>15, <1>16 DEF DatagramOk
<1> QED
  BY <1>4, <1>17 DEF a

\* What is delivered is the datagram's own bytes, to its end.
LEMMA DeliveredIsWhole ==
  ASSUME Frag!ReassemblyAssumption, NEW a, DatagramOk(a), Frag!Complete(a),
         out' = [units |-> SubSeq(a.payload, 1, a.len), ends |-> a.ends, done |-> TRUE]
  PROVE  Frag!WholeDatagram'
<1> DEFINE p == a.payload
           u == SubSeq(p, 1, Len(p))
<1>1. p \in Seq(Ids \cup {Frag!Hole}) /\ Len(p) \in Nat /\ a.len = Len(p) /\ a.id \in Ids
      /\ 0 .. (Len(p) + 1) \div 2 - 1 \subseteq a.have
  BY DEF DatagramOk, Datagram, Frag!Complete
<1>2. out'.units = u /\ out'.ends = a.ends
  BY <1>1
<1>3. Len(u) = Len(p) /\ DOMAIN u = 1 .. Len(p) /\ \A j \in 1 .. Len(p) : u[j] = p[j]
  <2>1. p \in Seq(Ids \cup {Frag!Hole}) /\ Len(p) \in Nat
    BY <1>1
  <2> HIDE DEF p
  <2> QED
    BY <2>1, SubSeqProperties
<1>4. ASSUME NEW j \in 1 .. Len(p) PROVE p[j] = a.id
  <2> DEFINE b == (j - 1) \div 2
  <2>1. b \in 0 .. (Len(p) + 1) \div 2 - 1 /\ b \in Nat /\ (j = 2 * b + 1 \/ j = 2 * b + 2)
    <3>1. PICK n \in Nat : n = Len(p)
      BY <1>1
    <3>2. j \in 1 .. n
      BY <3>1
    <3>3. b \in 0 .. (n + 1) \div 2 - 1 /\ b \in Nat /\ (j = 2 * b + 1 \/ j = 2 * b + 2)
      BY ONLY <3>2, n \in Nat
    <3> QED
      BY <3>1, <3>3
  <2>2. b \in a.have
    BY <2>1, <1>1
  <2>3. \A c \in a.have : \A i \in 1 .. Len(p) : i = 2 * c + 1 \/ i = 2 * c + 2 => p[i] = a.id
    BY DEF DatagramOk
  <2> HIDE DEF b, p
  <2> QED
    BY <2>1, <2>2, <2>3
<1>5. a.id # Frag!Hole
  BY <1>1 DEF Frag!ReassemblyAssumption
<1>6. \A x \in a.ends : x <= Len(p)
  BY DEF DatagramOk
<1> HIDE DEF p, u
<1>7. \A j \in DOMAIN out'.units : out'.units[j] = out'.units[1] /\ out'.units[j] # Frag!Hole
  <2> SUFFICES ASSUME NEW j \in 1 .. Len(p) PROVE u[j] = u[1] /\ u[j] # Frag!Hole
    BY <1>2, <1>3
  <2>1. 1 \in 1 .. Len(p)
    BY <1>1
  <2> QED
    BY <1>3, <1>4, <1>5, <2>1
<1>8. \A x \in out'.ends : x <= Len(out'.units)
  BY <1>2, <1>3, <1>6
<1> QED
  BY <1>7, <1>8 DEF Frag!WholeDatagram

LEMMA AddStep ==
  ASSUME Frag!ReassemblyAssumption, PendingInv, NEW f \in Frag!Fragments, Frag!Valid(f),
         Frag!Add(f), seen' = seen + 1
  PROVE  PendingInv' /\ Frag!WholeDatagram'
<1> DEFINE known == {q \in pending : Frag!Matches(q, f)}
           first == Frag!Min({q.since : q \in pending})
           kept == IF known = {} /\ Cardinality(pending) >= MaxPending
                   THEN {q \in pending : q.since # first} ELSE pending
           r == IF known = {} THEN Frag!Fresh(f) ELSE CHOOSE q \in known : TRUE
           a == Frag!Added(r, f)
           rest == kept \ {r}
<1>1. \/ pending' = rest /\ out' = Frag!NoOut
      \/ /\ ~Frag!Contradicts(r, f) /\ Frag!Complete(a) /\ pending' = rest
         /\ out' = [units |-> SubSeq(a.payload, 1, a.len), ends |-> a.ends, done |-> TRUE]
      \/ ~Frag!Contradicts(r, f) /\ pending' = rest \cup {a} /\ out' = Frag!NoOut
  BY FinitenessIsShared DEF Frag!Add
<1>2. /\ seen \in Nat /\ IsFiniteSet(pending) /\ Cardinality(pending) \in Nat
      /\ Cardinality(pending) <= MaxPending /\ MaxPending \in Nat /\ MaxPending > 0
      /\ \A q \in pending : DatagramOk(q) /\ q.since < seen /\ q.since \in Nat
      /\ \A q, o \in pending : q.since = o.since => q = o
  <2>1. \A q \in pending : q.since \in Nat
    BY DEF PendingInv, DatagramOk, Datagram
  <2>2. MaxPending \in Nat /\ MaxPending > 0
    BY DEF Frag!ReassemblyAssumption
  <2>3. IsFiniteSet(pending) /\ Cardinality(pending) \in Nat
    BY FS_CardinalityType DEF PendingInv
  <2> QED
    BY <2>1, <2>2, <2>3 DEF PendingInv
<1>3. DatagramOk(r) /\ r.id = f.id /\ r.since \in Nat /\ r.since <= seen
      /\ (known = {} => r.since = seen) /\ (known # {} => r \in pending)
  <2>1. CASE known = {}
    BY <2>1, <1>2, FreshOk
  <2>2. CASE known # {}
    BY <2>2, <1>2 DEF Frag!Matches
  <2> QED
    BY <2>1, <2>2
<1>4. rest \subseteq pending /\ \A q \in rest : q.since # r.since
  BY <1>2, <1>3
<1>5. IsFiniteSet(rest) /\ Cardinality(rest) \in Nat /\ Cardinality(rest) < MaxPending
  <2>1. \A q \in pending : Cardinality(pending \ {q}) = Cardinality(pending) - 1
    BY <1>2, FS_RemoveElement
  <2>s. ASSUME NEW A, NEW B, IsFiniteSet(B), A \subseteq B
        PROVE  IsFiniteSet(A) /\ Cardinality(A) \in Nat /\ Cardinality(B) \in Nat
               /\ Cardinality(A) <= Cardinality(B)
    BY <2>s, FS_Subset, FS_CardinalityType
  <2>2. CASE known # {}
    <3>1. rest = pending \ {r} /\ r \in pending
      BY <2>2, <1>3
    <3>2. IsFiniteSet(pending \ {r}) /\ Cardinality(pending \ {r}) \in Nat
      BY <2>s, <1>2
    <3> HIDE DEF rest, r
    <3>3. Cardinality(rest) = Cardinality(pending) - 1
      BY <3>1, <2>1
    <3> QED
      BY <3>1, <3>2, <3>3, <1>2
  <2>3. CASE known = {} /\ Cardinality(pending) < MaxPending
    <3>1. IsFiniteSet(rest) /\ Cardinality(rest) \in Nat /\ Cardinality(rest) <= Cardinality(pending)
      BY <2>s, <1>2, <1>4
    <3> QED
      BY ONLY <3>1, <2>3, <1>2
  <2>4. CASE known = {} /\ Cardinality(pending) >= MaxPending
    <3> DEFINE S == {q.since : q \in pending}
    <3>1. pending # {}
      BY <2>4, <1>2, FS_EmptySet
    <3>2. S \subseteq Nat /\ S # {}
      BY <3>1, <1>2
    <3>3. first \in S
      BY <3>2, NatMin
    <3>4. PICK q \in pending : q.since = first
      BY <3>3
    <3>5. rest \subseteq pending \ {q}
      BY <2>4, <3>4
    <3>6. IsFiniteSet(pending \ {q}) /\ Cardinality(pending \ {q}) < MaxPending
      BY <2>1, <1>2, FS_Subset
    <3> QED
      <4>1. IsFiniteSet(rest) /\ Cardinality(rest) \in Nat
            /\ Cardinality(rest) <= Cardinality(pending \ {q}) /\ Cardinality(pending \ {q}) \in Nat
        BY <2>s, <3>5, <3>6
      <4> QED
        BY ONLY <4>1, <3>6, <1>2
  <2> QED
    BY <2>2, <2>3, <2>4, <1>2
<1> HIDE DEF rest, kept, r, a, known, first
<1>6. CASE pending' = rest
  <2>1. PendingInv'
    BY <1>2, <1>4, <1>5, <1>6 DEF PendingInv
  <2>2. CASE out' = Frag!NoOut
    BY <2>1, <2>2 DEF Frag!WholeDatagram, Frag!NoOut
  <2>3. CASE /\ ~Frag!Contradicts(r, f) /\ Frag!Complete(a)
             /\ out' = [units |-> SubSeq(a.payload, 1, a.len), ends |-> a.ends, done |-> TRUE]
    <3>1. DatagramOk(a)
      BY <2>3, <1>3, AddedOk DEF a
    <3> QED
      BY <2>1, <2>3, <3>1, DeliveredIsWhole
  <2>4. CASE pending' = rest \cup {a} /\ out' = Frag!NoOut
    BY <2>1, <2>4 DEF Frag!WholeDatagram, Frag!NoOut
  <2> QED
    BY <1>1, <2>2, <2>3, <2>4
<1>7. CASE ~Frag!Contradicts(r, f) /\ pending' = rest \cup {a} /\ out' = Frag!NoOut
  <2>1. DatagramOk(a) /\ a.since = r.since
    BY <1>7, <1>3, AddedOk DEF a
  <2>2. IsFiniteSet(pending') /\ Cardinality(pending') <= MaxPending
    <3>1. IsFiniteSet(rest \cup {a})
          /\ Cardinality(rest \cup {a}) = IF a \in rest THEN Cardinality(rest) ELSE Cardinality(rest) + 1
      BY <1>5, FS_AddElement
    <3> QED
      BY ONLY <3>1, <1>7, <1>5, <1>2
  <2>3. \A q \in pending' : DatagramOk(q) /\ q.since < seen'
    BY <1>2, <1>3, <1>4, <1>7, <2>1
  <2>4. \A q, o \in pending' : q.since = o.since => q = o
    BY <1>2, <1>4, <1>7, <2>1
  <2> QED
    BY <2>2, <2>3, <2>4, <1>2, <1>7 DEF PendingInv, Frag!WholeDatagram, Frag!NoOut
<1> QED
  BY <1>1, <1>6, <1>7

\* The NAT forwards a fragmented datagram only when every byte of it came in a
\* fragment of that datagram, whatever order, overlap, loss or eviction the
\* fragments meet, and it holds no more of them than its cap.
THEOREM DatagramsAreWhole ==
  ASSUME Frag!ReassemblyAssumption
  PROVE  Frag!Spec => [](Frag!TypeOK /\ Frag!WholeDatagram)
<1>1. Frag!Init => PendingInv /\ Frag!WholeDatagram
  BY FS_EmptySet DEF Frag!Init, PendingInv, Frag!WholeDatagram, Frag!NoOut,
     Frag!ReassemblyAssumption
<1>2. PendingInv /\ Frag!WholeDatagram /\ [Frag!Next]_(Frag!vars) => (PendingInv /\ Frag!WholeDatagram)'
  <2> SUFFICES ASSUME PendingInv, Frag!WholeDatagram, [Frag!Next]_(Frag!vars)
               PROVE  (PendingInv /\ Frag!WholeDatagram)'
    OBVIOUS
  <2>1. CASE Frag!TakeFragment
    BY <2>1, AddStep DEF Frag!TakeFragment
  <2>2. CASE Frag!Expire
    <3>1. PICK r \in pending : pending' = pending \ {r}
      BY <2>2 DEF Frag!Expire
    <3>2. IsFiniteSet(pending') /\ Cardinality(pending') <= Cardinality(pending)
      BY <3>1, FS_Subset DEF PendingInv
    <3>3. Cardinality(pending) \in Nat /\ Cardinality(pending') \in Nat
      BY <3>2, FS_CardinalityType DEF PendingInv
    <3> QED
      BY <2>2, <3>1, <3>2, <3>3 DEF Frag!Expire, PendingInv, Frag!WholeDatagram,
         Frag!ReassemblyAssumption
  <2>3. CASE UNCHANGED Frag!vars
    BY <2>3 DEF Frag!vars, PendingInv, Frag!WholeDatagram
  <2> QED
    BY <2>1, <2>2, <2>3 DEF Frag!Next
<1>3. PendingInv => Frag!TypeOK
  <2> SUFFICES ASSUME PendingInv, NEW r \in pending
               PROVE  r.len \in -1 .. Units /\ Len(r.payload) <= Units
    BY FinitenessIsShared DEF PendingInv, Frag!TypeOK
  <2>1. /\ r \in Datagram /\ Len(r.payload) <= Units /\ Units \in Nat
        /\ r.len # -1 => r.len = Len(r.payload)
    BY DEF PendingInv, DatagramOk, Frag!ReassemblyAssumption
  <2>2. Len(r.payload) \in Nat
    BY <2>1 DEF Datagram
  <2> QED
    BY <2>1, <2>2
<1> QED
  BY <1>1, <1>2, <1>3, PTL DEF Frag!Spec

-----------------------------------------------------------------------------
(* TinyInit: a frame that was taken is unpacked, in a worker's hands or lost *)
(* to a failure that is kept; shares are mounted by the length of their      *)
(* targets; the end of a service is still to be reaped and is signalled.     *)

\* Past the unpack and not stopping.
Booted0 == at \notin {"start", "unpack", "term", "grace", "sync", "off"}

\* A frame that was taken is unpacked, in a worker's hands, or lost to a failure
\* that is kept; a worker ends only when there is none left to take.
UnpackInv ==
  /\ next \in Nat /\ extracted \subseteq 1 .. Frames /\ claim \in [Workers -> Int]
  /\ at # "start" \/ next = 1
  /\ failure \/ \A f \in 1 .. Frames : f < next => f \in extracted \/ \E w \in Workers : claim[w] = f
  /\ \A w \in Workers : claim[w] = Guest!Done => next > Frames
  /\ Booted0 => extracted = 1 .. Frames

\* Shares are mounted by the length of their targets.
ShareInv ==
  /\ mounted \subseteq Shares /\ hidden = {}
  /\ \A q \in mounted, p \in Shares \ mounted : Len(q) <= Len(p)

\* While PID 1 supervises, a service's end is still to be reaped and, once it
\* waits, signalled.
ReapInv ==
  /\ table \subseteq Services /\ proc \in [Guest!Procs -> {"none", "live", "zombie", "gone"}]
  /\ at \in {"services", "reap", "wait"} => blocked
  /\ at \notin {"services", "reap", "wait", "drain", "term", "grace", "sync", "off"} => table = {}
  /\ at \in {"services", "reap", "wait"} => \A s \in table : proc[s] \in {"live", "zombie"}
  /\ at = "wait" => \A s \in table : proc[s] = "live" \/ "CHLD" \in pending

LogInv ==
  /\ out \in Nat /\ cur \in Nat /\ old \in Nat /\ cur <= MaxBytes /\ old <= MaxBytes
  /\ Guest!LogsKeepTheTail

TinyInv == UnpackInv /\ ShareInv /\ ReapInv /\ LogInv

-----------------------------------------------------------------------------
LEMMA UnpackStep ==
  ASSUME Guest!TinyInitAssumption, UnpackInv, [Guest!Next]_(Guest!vars)
  PROVE  UnpackInv'
<1>0. Frames \in Nat \ {0} /\ Workers # {} /\ Guest!Done \notin 1 .. Frames /\ Guest!Idle \notin 1 .. Frames /\ Guest!Done # Guest!Idle
      /\ Guest!Done \in Int /\ Guest!Idle \in Int /\ Guest!Done \notin Nat
  BY DEF Guest!TinyInitAssumption, Guest!Done, Guest!Idle
<1> USE DEF UnpackInv, Booted0
<1>1. ASSUME NEW w \in Workers, Guest!Claim(w) PROVE UnpackInv'
  <2>1. CASE next <= Frames
    <3>1. claim' = [claim EXCEPT ![w] = next] /\ next' = next + 1
      BY <1>1, <2>1 DEF Guest!Claim
    <3>2. claim'[w] = next /\ \A v \in Workers : v # w => claim'[v] = claim[v]
      BY <3>1
    <3>3. \A v \in Workers : claim'[v] = Guest!Done => FALSE
      BY <1>0, <2>1, <3>2
    <3>4. failure \/ \A f \in 1 .. Frames : f < next' => f \in extracted \/ \E v \in Workers : claim'[v] = f
      <4> SUFFICES ASSUME ~failure, NEW f \in 1 .. Frames, f < next + 1, f \notin extracted
                   PROVE  \E v \in Workers : claim'[v] = f
        BY <3>1
      <4>1. CASE f = next
        BY <4>1, <3>2
      <4>2. CASE f # next
        <5>1. PICK v \in Workers : claim[v] = f
          BY <4>2
        <5>2. v # w
          BY <5>1, <1>1, <1>0 DEF Guest!Claim
        <5> QED  BY <5>1, <5>2, <3>2
      <4> QED  BY <4>1, <4>2
    <3> QED  BY <1>1, <3>1, <3>3, <3>4 DEF Guest!Claim
  <2>2. CASE ~(next <= Frames)
    <3>1. claim' = [claim EXCEPT ![w] = Guest!Done] /\ next' = next + 1 /\ claim[w] = Guest!Idle
      BY <1>1, <2>2 DEF Guest!Claim
    <3>2. \A v \in Workers : v # w => claim'[v] = claim[v]
      BY <3>1
    <3>3. failure \/ \A f \in 1 .. Frames : f \in extracted \/ \E v \in Workers : claim'[v] = f
      BY <1>0, <2>2, <3>1, <3>2
    <3>4. next' > Frames /\ next' \in Nat
      BY <1>0, <2>2, <3>1
    <3>5. claim' \in [Workers -> Int]
      BY <1>0, <3>1
    <3> QED  BY <1>1, <3>3, <3>4, <3>5 DEF Guest!Claim
  <2> QED  BY <2>1, <2>2
<1>2. ASSUME NEW w \in Workers, Guest!ExtractFrame(w) PROVE UnpackInv'
  <2>1. claim' = [claim EXCEPT ![w] = Guest!Idle] /\ extracted' = extracted \cup {claim[w]} /\ claim[w] \in 1 .. Frames
    BY <1>2 DEF Guest!ExtractFrame
  <2>2. \A v \in Workers : v # w => claim'[v] = claim[v]
    BY <2>1
  <2>3. claim'[w] = Guest!Idle /\ claim' \in [Workers -> Int]
    BY <1>0, <2>1
  <2>4. failure \/ \A f \in 1 .. Frames : f < next => f \in extracted' \/ \E v \in Workers : claim'[v] = f
    BY <2>1, <2>2
  <2>5. \A v \in Workers : claim'[v] = Guest!Done => next > Frames
    BY <1>0, <2>2, <2>3
  <2>6. at' = "unpack" /\ next' = next /\ failure' = failure /\ extracted' \subseteq 1 .. Frames
    BY <1>2, <2>1 DEF Guest!ExtractFrame
  <2> QED  BY <2>3, <2>4, <2>5, <2>6
<1>3. ASSUME NEW w \in Workers, Guest!ExtractFails(w) PROVE UnpackInv'
  BY <1>0, <1>3 DEF Guest!ExtractFails
<1>4. CASE Guest!Unpacked
  <2>1. ASSUME ~failure PROVE extracted = 1 .. Frames
    <3>1. PICK w \in Workers : TRUE
      BY <1>0
    <3>2. next > Frames
      BY <1>4, <3>1 DEF Guest!Unpacked
    <3>3. \A f \in 1 .. Frames : f < next
      BY <1>0, <3>2
    <3>4. \A f \in 1 .. Frames : f \in extracted
      BY <1>0, <1>4, <2>1, <3>3 DEF Guest!Unpacked
    <3> QED  BY <3>4
  <2> QED  BY <1>4, <2>1 DEF Guest!Unpacked, Guest!unpackVars
<1>5. CASE Guest!RootMount \/ Guest!SwitchRoot \/ Guest!Prepare \/ Guest!Configure \/ Guest!Identify \/ Guest!BlockSignals
  BY <1>5 DEF Guest!RootMount, Guest!SwitchRoot, Guest!Prepare, Guest!Configure, Guest!Identify,
     Guest!BlockSignals, Guest!Stage, Guest!unpackVars
<1>6. CASE Guest!PoweroffCommand \/ Guest!MountShare \/ Guest!SupervisorReady
  BY <1>6 DEF Guest!PoweroffCommand, Guest!MountShare, Guest!SupervisorReady, Guest!unpackVars
<1>7. ASSUME NEW s \in Services, Guest!StartService(s) PROVE UnpackInv'
  BY <1>7 DEF Guest!StartService, Guest!unpackVars
<1>8. CASE Guest!Reap \/ Guest!DrainLog \/ Guest!SigWait \/ Guest!Terminate \/ Guest!KillAll \/ Guest!PowerOff \/ Guest!GraceReap
  BY <1>8 DEF Guest!Reap, Guest!DrainLog, Guest!SigWait, Guest!Terminate, Guest!KillAll,
     Guest!PowerOff, Guest!GraceReap, Guest!unpackVars
<1>9. CASE Guest!PumpLog \/ Guest!Poweroff
  BY <1>9 DEF Guest!PumpLog, Guest!Poweroff, Guest!unpackVars
<1>10. ASSUME NEW p \in Guest!Procs, Guest!Exits(p) \/ Guest!Inherit(p) PROVE UnpackInv'
  BY <1>10 DEF Guest!Exits, Guest!Inherit, Guest!unpackVars
<1>11. CASE UNCHANGED Guest!vars
  BY <1>11 DEF Guest!vars, Guest!unpackVars
<1> QED
  BY <1>1, <1>2, <1>3, <1>4, <1>5, <1>6, <1>7, <1>8, <1>9, <1>10, <1>11 DEF Guest!Next,
     Guest!Pid1, Guest!Worker

LEMMA ShareStep ==
  ASSUME Guest!TinyInitAssumption, ShareInv, [Guest!Next]_(Guest!vars)
  PROVE  ShareInv'
<1> USE DEF ShareInv
<1>1. CASE Guest!MountShare
  <2>1. CASE UNCHANGED Guest!shareVars
    BY <2>1 DEF Guest!shareVars
  <2>2. CASE ~UNCHANGED Guest!shareVars
    <3>1. PICK p \in Guest!MountNextOf(Shares \ mounted) :
            mounted' = mounted \cup {p} /\ hidden' = hidden \cup {q \in mounted : Guest!Under(q, p)}
      BY <1>1, <2>2 DEF Guest!MountShare
    <3>2. \A q \in Shares : Len(q) \in Nat
      BY DEF Guest!TinyInitAssumption
    <3>3. p \in Shares \ mounted /\ \A q \in Shares \ mounted : Len(p) <= Len(q)
      BY <3>1 DEF Guest!MountNextOf
    <3>4. {q \in mounted : Guest!Under(q, p)} = {}
      BY <3>2, <3>3 DEF Guest!Under
    <3> QED  BY <3>1, <3>2, <3>3, <3>4
  <2> QED  BY <2>1, <2>2
<1>2. CASE Guest!RootMount \/ Guest!SwitchRoot \/ Guest!Prepare \/ Guest!Configure \/ Guest!Identify \/ Guest!BlockSignals
  BY <1>2 DEF Guest!RootMount, Guest!SwitchRoot, Guest!Prepare, Guest!Configure, Guest!Identify,
     Guest!BlockSignals, Guest!shareVars
<1>3. CASE Guest!PoweroffCommand \/ Guest!SupervisorReady \/ Guest!Unpacked \/ Guest!Worker
  BY <1>3 DEF Guest!PoweroffCommand, Guest!SupervisorReady, Guest!Unpacked, Guest!Worker,
     Guest!Claim, Guest!ExtractFrame, Guest!ExtractFails, Guest!shareVars
<1>4. CASE \E s \in Services : Guest!StartService(s)
  BY <1>4 DEF Guest!StartService, Guest!shareVars
<1>5. CASE Guest!Reap \/ Guest!DrainLog \/ Guest!SigWait \/ Guest!Terminate \/ Guest!KillAll \/ Guest!PowerOff \/ Guest!GraceReap
  BY <1>5 DEF Guest!Reap, Guest!DrainLog, Guest!SigWait, Guest!Terminate, Guest!KillAll,
     Guest!PowerOff, Guest!GraceReap, Guest!shareVars
<1>6. CASE Guest!PumpLog \/ Guest!Poweroff \/ \E p \in Guest!Procs : Guest!Exits(p) \/ Guest!Inherit(p)
  BY <1>6 DEF Guest!PumpLog, Guest!Poweroff, Guest!Exits, Guest!Inherit, Guest!shareVars
<1>7. CASE UNCHANGED Guest!vars
  BY <1>7 DEF Guest!vars, Guest!shareVars
<1> QED  BY <1>1, <1>2, <1>3, <1>4, <1>5, <1>6, <1>7 DEF Guest!Next, Guest!Pid1

LEMMA ReapStep ==
  ASSUME Guest!TinyInitAssumption, ReapInv, [Guest!Next]_(Guest!vars)
  PROVE  ReapInv'
<1> USE DEF ReapInv
<1>0. Services \subseteq Guest!Procs
  BY DEF Guest!Procs
<1>1. CASE Guest!RootMount \/ Guest!SwitchRoot \/ Guest!Prepare \/ Guest!Configure \/ Guest!Identify
  BY <1>1 DEF Guest!RootMount, Guest!SwitchRoot, Guest!Prepare, Guest!Configure, Guest!Identify,
     Guest!Stage, Guest!procVars, Guest!sigVars
<1>2. CASE Guest!BlockSignals
  <2>1. at' \in {"services", "term"} /\ UNCHANGED <<Guest!procVars, pending>> /\ at = "signals"
    BY <1>2 DEF Guest!BlockSignals, Guest!Stage
  <2>2. at' = "services" => blocked'
    BY <1>2, Zenon DEF Guest!BlockSignals
  <2> QED  BY <2>1, <2>2 DEF Guest!procVars
<1>3. CASE Guest!PoweroffCommand \/ Guest!SupervisorReady \/ Guest!Unpacked
  BY <1>3 DEF Guest!PoweroffCommand, Guest!SupervisorReady, Guest!Unpacked, Guest!procVars,
     Guest!sigVars
<1>4. CASE Guest!Worker
  BY <1>4 DEF Guest!Worker, Guest!Claim, Guest!ExtractFrame, Guest!ExtractFails, Guest!procVars,
     Guest!sigVars
<1>5. CASE Guest!MountShare
  BY <1>5 DEF Guest!MountShare, Guest!procVars, Guest!sigVars
<1>6. ASSUME NEW s \in Services, Guest!StartService(s) PROVE ReapInv'
  <2>1. CASE proc' = proc
    BY <1>6, <2>1, <1>0 DEF Guest!StartService, Guest!procVars, Guest!sigVars
  <2>2. CASE proc' = [proc EXCEPT ![s] = "live"]
    BY <1>6, <2>2, <1>0 DEF Guest!StartService, Guest!procVars, Guest!sigVars
  <2> QED  BY <1>6, <2>1, <2>2 DEF Guest!StartService, Guest!procVars
<1>7. CASE Guest!Reap
  <2>1. CASE Guest!Zombies = {}
    <3>1. \A s \in table : proc[s] = "live"
      BY <1>7, <2>1, <1>0 DEF Guest!Reap, Guest!Zombies
    <3> QED  BY <1>7, <2>1, <3>1 DEF Guest!Reap, Guest!sigVars
  <2>2. CASE Guest!Zombies # {}
    <3>1. PICK p \in Guest!Zombies : proc' = [proc EXCEPT ![p] = "gone"] /\ at' = IF p \in table THEN "drain" ELSE "reap"
      BY <1>7, <2>2 DEF Guest!Reap
    <3> QED  BY <1>7, <3>1, <1>0 DEF Guest!Reap, Guest!Zombies, Guest!sigVars
  <2> QED  BY <2>1, <2>2
<1>8. CASE Guest!DrainLog \/ Guest!Terminate \/ Guest!PowerOff
  BY <1>8 DEF Guest!DrainLog, Guest!Terminate, Guest!PowerOff, Guest!procVars, Guest!sigVars
<1>9. CASE Guest!SigWait
  BY <1>9 DEF Guest!SigWait, Guest!procVars
<1>10. CASE Guest!KillAll \/ Guest!GraceReap
  BY <1>10 DEF Guest!KillAll, Guest!GraceReap, Guest!sigVars
<1>11. CASE Guest!PumpLog
  BY <1>11 DEF Guest!PumpLog, Guest!procVars, Guest!sigVars
<1>12. CASE Guest!Poweroff
  BY <1>12 DEF Guest!Poweroff, Guest!Signal, Guest!procVars
<1>13. ASSUME NEW p \in Guest!Procs, Guest!Exits(p) PROVE ReapInv'
  BY <1>13, <1>0 DEF Guest!Exits, Guest!Signal
<1>14. ASSUME NEW p \in Guest!Procs, Guest!Inherit(p) PROVE ReapInv'
  BY <1>14, <1>0 DEF Guest!Inherit, Guest!sigVars
<1>15. CASE UNCHANGED Guest!vars
  BY <1>15 DEF Guest!vars, Guest!procVars, Guest!sigVars
<1> QED
  BY <1>1, <1>2, <1>3, <1>4, <1>5, <1>6, <1>7, <1>8, <1>9, <1>10, <1>11, <1>12, <1>13, <1>14, <1>15
  DEF Guest!Next, Guest!Pid1

LEMMA LogStep ==
  ASSUME Guest!TinyInitAssumption, LogInv, [Guest!Next]_(Guest!vars)
  PROVE  LogInv'
<1> USE DEF LogInv, Guest!LogsKeepTheTail
<1>0. MaxBytes \in Nat \ {0}
  BY DEF Guest!TinyInitAssumption
<1>1. CASE Guest!PumpLog
  BY <1>0, <1>1 DEF Guest!PumpLog
<1>2. CASE Guest!RootMount \/ Guest!SwitchRoot \/ Guest!Prepare \/ Guest!Configure \/ Guest!Identify \/ Guest!BlockSignals
  BY <1>2 DEF Guest!RootMount, Guest!SwitchRoot, Guest!Prepare, Guest!Configure, Guest!Identify,
     Guest!BlockSignals, Guest!logVars
<1>3. CASE Guest!PoweroffCommand \/ Guest!SupervisorReady \/ Guest!Unpacked \/ Guest!Worker \/ Guest!MountShare
  BY <1>3 DEF Guest!PoweroffCommand, Guest!SupervisorReady, Guest!Unpacked, Guest!Worker,
     Guest!Claim, Guest!ExtractFrame, Guest!ExtractFails, Guest!MountShare,
              Guest!logVars
<1>4. CASE \E s \in Services : Guest!StartService(s)
  BY <1>4 DEF Guest!StartService, Guest!logVars
<1>5. CASE Guest!Reap \/ Guest!DrainLog \/ Guest!SigWait \/ Guest!Terminate \/ Guest!KillAll \/ Guest!PowerOff \/ Guest!GraceReap
  BY <1>5 DEF Guest!Reap, Guest!DrainLog, Guest!SigWait, Guest!Terminate, Guest!KillAll,
     Guest!PowerOff, Guest!GraceReap, Guest!logVars
<1>6. CASE Guest!Poweroff \/ \E p \in Guest!Procs : Guest!Exits(p) \/ Guest!Inherit(p)
  BY <1>6 DEF Guest!Poweroff, Guest!Exits, Guest!Inherit, Guest!logVars
<1>7. CASE UNCHANGED Guest!vars
  BY <1>7 DEF Guest!vars, Guest!logVars
<1> QED  BY <1>1, <1>2, <1>3, <1>4, <1>5, <1>6, <1>7 DEF Guest!Next, Guest!Pid1

\* PID 1 goes past the parallel unpack only with every file extracted, hides no
\* share under another, sleeps through no service's end, and keeps the newest
\* bytes of the log, whatever fails and whoever ends in between.
THEOREM GuestInitIsSafe ==
  ASSUME Guest!TinyInitAssumption
  PROVE  Guest!Spec => [](Guest!RootIsWhole /\ Guest!SharesAreSeen /\ Guest!NoExitMissed /\ Guest!LogsKeepTheTail)
<1>1. Guest!Init => TinyInv
  BY DEF Guest!Init, Guest!TinyInitAssumption, TinyInv, UnpackInv, Booted0, ShareInv, ReapInv,
     LogInv, Guest!LogsKeepTheTail,
         Guest!Procs, Guest!Idle, Guest!Done
<1>2. TinyInv /\ [Guest!Next]_(Guest!vars) => TinyInv'
  BY UnpackStep, ShareStep, ReapStep, LogStep DEF TinyInv
<1>3. TinyInv => Guest!RootIsWhole /\ Guest!SharesAreSeen /\ Guest!NoExitMissed /\ Guest!LogsKeepTheTail
  BY DEF TinyInv, UnpackInv, Booted0, ShareInv, ReapInv, LogInv, Guest!RootIsWhole,
     Guest!SharesAreSeen, Guest!NoExitMissed
<1> QED  BY <1>1, <1>2, <1>3, PTL DEF Guest!Spec

-----------------------------------------------------------------------------
(* SshSession: how far a session is shows in its shell, its terminal and its *)
(* cancellation, and a task that is done has left no job behind.             *)

\* How far a session is shows in its shell, its terminal and its cancellation.
SessionOk(i) ==
  /\ chan[i] = "open" => task[i] = "none" /\ cancel[i] = "none"
  /\ chan[i] = "started" => task[i] # "none" /\ cancel[i] = "armed"
  /\ chan[i] = "none" /\ task[i] # "none" => cancel[i] = "sent"
  /\ task[i] = "none" => cancel[i] = "none" /\ shell[i] \in {"none", "dead"}
  /\ task[i] = "select" => shell[i] \in {"live", "zombie"}
  /\ task[i] = "killed" => shell[i] = "zombie"
  /\ task[i] \in {"drain", "end", "done"} => shell[i] = "dead"
  /\ task[i] # "none" => pty[i] # "both"
  /\ task[i] = "done" => job[i] # "live"

SshInv == Ssh!TypeOK /\ \A i \in Ids : SessionOk(i)

-----------------------------------------------------------------------------
LEMMA DroppedOk ==
  ASSUME SshInv, NEW gone, Ssh!Dropped(gone),
         UNCHANGED <<task, job, unsent, cut, told>>, shell' \in [Ids -> {"none", "live", "zombie", "dead"}],
         \A i \in Ids : shell'[i] = shell[i] \/ (task[i] = "none" /\ shell'[i] = "dead"),
         conn' \in BOOLEAN, user' \in BOOLEAN
  PROVE  SshInv'
<1>1. /\ cancel' \in [Ids -> {"none", "armed", "sent"}] /\ chan' \in [Ids -> {"none", "open", "started"}]
      /\ pty' \in [Ids -> {"none", "both", "master"}]
  BY DEF Ssh!Dropped, Ssh!Drop, SshInv, Ssh!TypeOK
<1>2. Ssh!TypeOK'
  BY <1>1 DEF SshInv, Ssh!TypeOK
<1>3. ASSUME NEW i \in Ids PROVE SessionOk(i)'
  <2>1. /\ cancel'[i] = IF i \in gone /\ cancel[i] = "armed" THEN "sent" ELSE cancel[i]
        /\ chan'[i] = IF i \in gone THEN "none" ELSE chan[i]
        /\ pty'[i] = IF i \in gone /\ pty[i] = "both" THEN "none" ELSE pty[i]
    BY DEF Ssh!Dropped, Ssh!Drop
  <2>2. SessionOk(i) /\ chan[i] \in {"none", "open", "started"}
    BY DEF SshInv, Ssh!TypeOK
  <2> QED  BY <2>1, <2>2 DEF SessionOk
<1> QED  BY <1>2, <1>3 DEF SshInv

LEMMA SshStep ==
  ASSUME Ssh!SshAssumption, SshInv, [Ssh!Next]_(Ssh!vars)
  PROVE  SshInv'
<1> USE DEF SshInv
<1>0. MaxOut \in Nat
  BY DEF Ssh!SshAssumption
<1>1. CASE Ssh!AuthPublickey
  BY <1>1 DEF Ssh!AuthPublickey, Ssh!TypeOK, SessionOk, Ssh!procs
<1>2. CASE Ssh!ConnectionEnds
  <2>1. conn' \in BOOLEAN /\ user' \in BOOLEAN
    BY <1>2, Zenon DEF Ssh!ConnectionEnds, Ssh!TypeOK
  <2> QED  BY <1>2, <2>1, DroppedOk DEF Ssh!ConnectionEnds, Ssh!TypeOK, Ssh!procs
<1>3. ASSUME NEW i \in Ids, Ssh!ChannelOpenSession(i) PROVE SshInv'
  BY <1>3 DEF Ssh!ChannelOpenSession, Ssh!TypeOK, SessionOk, Ssh!procs, Ssh!link
<1>4. ASSUME NEW i \in Ids, Ssh!PtyRequest(i) PROVE SshInv'
  BY <1>4 DEF Ssh!PtyRequest, Ssh!TypeOK, SessionOk, Ssh!procs, Ssh!link
<1>5. ASSUME NEW i \in Ids, Ssh!Start(i) PROVE SshInv'
  <2>1. Ssh!SlaveAfterStart(i) \in {"none", "master"}
    BY DEF Ssh!SlaveAfterStart, Ssh!TypeOK
  <2> QED  BY <1>5, <2>1 DEF Ssh!Start, Ssh!TypeOK, SessionOk, Ssh!link
<1>6. ASSUME NEW i \in Ids, Ssh!StartFails(i) PROVE SshInv'
  <2>1. conn' \in BOOLEAN /\ user' \in BOOLEAN
    BY <1>6, Zenon DEF Ssh!StartFails, Ssh!TypeOK
  <2>2. task[i] = "none" /\ shell' = [shell EXCEPT ![i] = "dead"]
    BY <1>6 DEF Ssh!StartFails, SessionOk
  <2>3. /\ shell' \in [Ids -> {"none", "live", "zombie", "dead"}]
        /\ \A j \in Ids : shell'[j] = shell[j] \/ (task[j] = "none" /\ shell'[j] = "dead")
    BY <2>2 DEF Ssh!TypeOK
  <2> QED  BY <1>6, <2>1, <2>3, DroppedOk DEF Ssh!StartFails
<1>7. ASSUME NEW i \in Ids, Ssh!ChannelClose(i) PROVE SshInv'
  BY <1>7, DroppedOk DEF Ssh!ChannelClose, Ssh!TypeOK, Ssh!procs, Ssh!link
<1>8. ASSUME NEW i \in Ids, Ssh!Background(i) PROVE SshInv'
  BY <1>8 DEF Ssh!Background, Ssh!TypeOK, SessionOk, Ssh!link
<1>9. ASSUME NEW i \in Ids, Ssh!Output(i) PROVE SshInv'
  BY <1>9, <1>0 DEF Ssh!Output, Ssh!TypeOK, SessionOk, Ssh!link
<1>10. ASSUME NEW i \in Ids, Ssh!Exits(i) PROVE SshInv'
  BY <1>10 DEF Ssh!Exits, Ssh!TypeOK, SessionOk, Ssh!link
<1>11. ASSUME NEW i \in Ids, Ssh!Forward(i) PROVE SshInv'
  BY <1>11, <1>0 DEF Ssh!Forward, Ssh!TypeOK, SessionOk, Ssh!link
<1>12. ASSUME NEW i \in Ids, Ssh!WaitedFor(i) PROVE SshInv'
  BY <1>12 DEF Ssh!WaitedFor, Ssh!TypeOK, SessionOk, Ssh!link
<1>13. ASSUME NEW i \in Ids, Ssh!CancelChanged(i) PROVE SshInv'
  BY <1>13 DEF Ssh!CancelChanged, Ssh!KillGroup, Ssh!TypeOK, SessionOk, Ssh!link
<1>14. ASSUME NEW i \in Ids, Ssh!WaitedKilled(i) PROVE SshInv'
  BY <1>14 DEF Ssh!WaitedKilled, Ssh!TypeOK, SessionOk, Ssh!link
<1>15. ASSUME NEW i \in Ids, Ssh!Drain(i) PROVE SshInv'
  <2>1. (~Ssh!Eof(i)) \in BOOLEAN
    BY DEF Ssh!Eof
  <2>2. cut' \in [Ids -> BOOLEAN]
    BY <1>15, <2>1 DEF Ssh!Drain, Ssh!TypeOK
  <2> QED  BY <1>15, <2>2 DEF Ssh!Drain, Ssh!TypeOK, SessionOk, Ssh!procs, Ssh!link
<1>16. ASSUME NEW i \in Ids, Ssh!ServeEnds(i) PROVE SshInv'
  BY <1>16 DEF Ssh!ServeEnds, Ssh!EndGroup, Ssh!KillGroup, Ssh!TypeOK, SessionOk, Ssh!link
<1>17. CASE UNCHANGED Ssh!vars
  BY <1>17 DEF Ssh!vars, Ssh!link, Ssh!procs, Ssh!TypeOK, SessionOk
<1> QED
  BY <1>1, <1>2, <1>3, <1>4, <1>5, <1>6, <1>7, <1>8, <1>9, <1>10, <1>11, <1>12, <1>13, <1>14,
     <1>15, <1>16,
     <1>17 DEF Ssh!Next, Ssh!Client, Ssh!Guest, Ssh!Serve

\* No process of a session's group outlives the session, a running session whose
\* channel or connection is gone has been told, and nothing the server holds
\* keeps a session from its end, however closes, failures and exits meet.
THEOREM SshSessionsEnd ==
  ASSUME Ssh!SshAssumption
  PROVE  Ssh!Spec => [](Ssh!TypeOK /\ Ssh!SessionsEnd /\ Ssh!EofIsReached)
<1>1. Ssh!Init => SshInv
  <2> SUFFICES ASSUME Ssh!Init PROVE SshInv
    OBVIOUS
  <2>1. conn \in BOOLEAN /\ user \in BOOLEAN
    BY Zenon DEF Ssh!Init
  <2>2. MaxOut \in Nat
    BY DEF Ssh!SshAssumption
  <2>3. Ssh!TypeOK
    BY <2>1, <2>2 DEF Ssh!Init, Ssh!All, Ssh!TypeOK
  <2> QED  BY <2>3 DEF Ssh!Init, Ssh!All, SshInv, SessionOk
<1>2. SshInv /\ [Ssh!Next]_(Ssh!vars) => SshInv'
  BY SshStep
<1>3. SshInv => Ssh!TypeOK /\ Ssh!SessionsEnd /\ Ssh!EofIsReached
  <2> SUFFICES ASSUME SshInv, NEW i \in Ids
               PROVE  /\ task[i] = "done" => shell[i] = "dead" /\ job[i] # "live"
                      /\ shell[i] = "live" /\ chan[i] = "none" => cancel[i] = "sent"
                      /\ task[i] = "drain" /\ unsent[i] = 0 /\ job[i] \notin {"live", "escaped"} => Ssh!Eof(i)
    BY DEF SshInv, Ssh!SessionsEnd, Ssh!EofIsReached
  <2> QED  BY DEF SshInv, Ssh!TypeOK, SessionOk, Ssh!Eof
<1> QED  BY <1>1, <1>2, <1>3, PTL DEF Ssh!Spec

-----------------------------------------------------------------------------
(* NatFlow: it writes what nat.rs's handlers call as functions of the        *)
(* worker's state, and the proof follows them: a lemma per function says what *)
(* it keeps of a state s, and a handler's step is the composition.  Sound is *)
(* kept from call to call within a handler, Whole holds where a handler      *)
(* drives the flow, and Settled is what every handler leaves behind.  The    *)
(* guest's bytes are numbered 1, 2, ...; at every moment the host has a      *)
(* prefix, the send in flight the bytes after it, the queue the next ones,   *)
(* and the TCB's ring the rest.                                              *)

Flows == [st : {"none", "live", "dead"}, connected : BOOLEAN, queue : Tcp!Bytes, inflight : Tcp!Bytes,
          closing : BOOLEAN, want : BOOLEAN, done : BOOLEAN, syn : BOOLEAN, blocked : BOOLEAN]
Tcbs == [st : Tcp!TcbStates, taken : Nat, in : Tcp!Bytes, peerFin : BOOLEAN, out : Nat,
         fin : {"none", "queued", "sent"}, staged : SUBSET {"synack", "rst"}, reset : BOOLEAN]
Boxes == [{"tcb", "op", "sendOp"} -> Tcp!Homes]
Ops == {"connect", "recv", "send"}
Hosts == [st : {"none", "dialing", "open", "closed", "reset"}, sent : Nat, got : Tcp!Bytes, shut : BOOLEAN]
Guests == [st : {"idle", "syn", "open", "reset", "done"}, conns : Nat, lost : BOOLEAN]
Nics == [full : BOOLEAN, fills : Nat, listed : BOOLEAN, wake : BOOLEAN]
States == [flow : Flows, tcb : Tcbs, boxes : Boxes, kernel : SUBSET Ops, host : Hosts,
           guest : Guests, nic : Nics]

\* The numbers from k + 1 on.
Run(q, k) == \A i \in 1 .. Len(q) : q[i] = k + i

\* An operation in flight has its box with the entry; one send is in flight
\* exactly while bytes are.
BoxInv(s) ==
  /\ s.flow.st = "none" => s.kernel = {} /\ s.flow = Tcp!NoFlow
  /\ s.flow.st # "none" => s.boxes["tcb"] = "flow" /\ s.boxes["op"] = "flow"
  /\ "send" \in s.kernel <=> s.flow.inflight # <<>>
  /\ "send" \in s.kernel => s.boxes["sendOp"] = "flow"

\* The bytes the guest sent, 1 to n: the host got some, a send has the next ones
\* in flight, ...
Held(had, inflight, n) ==
  Run(had, 0) /\ Run(inflight, Len(had)) /\ Len(had) + Len(inflight) <= n
\* ... the queue and the TCB's ring have the rest.
Covered(had, inflight, queue, in, n) ==
  LET k == Len(had) + Len(inflight)
  IN Run(queue, k) /\ Run(in, k + Len(queue)) /\ k + Len(queue) + Len(in) = n

\* The host's stream ends only when all is there.
GotInv(s) ==
  /\ Held(s.host.got, s.flow.inflight, s.tcb.taken) /\ s.tcb.taken <= MaxSent
  /\ s.host.shut => s.tcb.peerFin /\ Len(s.host.got) = s.tcb.taken
RestInv(s) ==
  s.flow.st = "live" => Covered(s.host.got, s.flow.inflight, s.flow.queue, s.tcb.in, s.tcb.taken)

\* A SYN that waits for the connect has a TCB that nothing has touched.
KeptInv(s) ==
  s.flow.st = "live" /\ s.flow.syn => s.tcb.st = "Listen" /\ ~s.flow.connected /\ s.kernel \subseteq {"connect"}
FinInv(s) == s.flow.want \/ Tcp!PeerClosed(s) => s.tcb.peerFin
ListInv(s) == s.flow.blocked => s.nic.listed
ToldInv(s) == s.guest.st \in {"syn", "open"} /\ s.flow.st # "live" => s.guest.lost
EndInv(s) ==
  s.flow.st = "live" /\ s.tcb.st \in {"Closed", "TimeWait"} /\ s.guest.st \in {"syn", "open"} => s.guest.lost
SynInv(s) == "synack" \in s.tcb.staged => s.tcb.st = "SynRcvd"
WokenInv(s) ==
  s.flow.st = "live" =>
    /\ s.tcb.st # "Closed" /\ s.tcb.staged = {}
    /\ s.tcb.out > 0 \/ s.tcb.fin = "queued" => s.nic.listed /\ (s.nic.full \/ s.nic.wake)

Sound(s) == s \in States /\ BoxInv(s) /\ GotInv(s) /\ FinInv(s) /\ ListInv(s) /\ KeptInv(s)
Whole(s) == Sound(s) /\ RestInv(s) /\ ToldInv(s) /\ EndInv(s) /\ SynInv(s)
\* What a handler leaves behind.
Settled(s) == Whole(s) /\ WokenInv(s)
FlowInv ==
  IF stopped
  THEN Tcp!State \in States /\ Tcp!OpsKeepTheirBoxes /\ Tcp!HostSeesTheStream
  ELSE Settled(Tcp!State)
-----------------------------------------------------------------------------
(* Sequences of consecutive numbers                                        *)

LEMMA Elements ==
  ASSUME NEW S, NEW q \in Seq(S)
  PROVE  Len(q) \in Nat /\ \A i \in 1 .. Len(q) : q[i] \in S
OBVIOUS

LEMMA TakeSome ==
  ASSUME NEW q \in Tcp!Bytes, NEW k \in Nat, NEW n \in 0 .. Len(q)
  PROVE  /\ SubSeq(q, 1, n) \in Tcp!Bytes /\ Len(SubSeq(q, 1, n)) = n
         /\ SubSeq(q, n + 1, Len(q)) \in Tcp!Bytes /\ Len(SubSeq(q, n + 1, Len(q))) = Len(q) - n
         /\ Run(q, k) => Run(SubSeq(q, 1, n), k) /\ Run(SubSeq(q, n + 1, Len(q)), k + n)
<1>1. Len(q) \in Nat /\ \A i \in 1 .. Len(q) : q[i] \in 1 .. MaxSent
  <2>1. q \in Seq(1 .. MaxSent)
    BY DEF Tcp!Bytes
  <2> QED  BY <2>1, Elements
<1>2. SubSeq(q, 1, n) = [i \in 1 .. n |-> q[i]]
  BY <1>1 DEF Tcp!Bytes
<1>3. SubSeq(q, n + 1, Len(q)) = [i \in 1 .. Len(q) - n |-> q[n + i]]
  BY <1>1 DEF Tcp!Bytes
<1>4. /\ SubSeq(q, 1, n) \in Tcp!Bytes /\ Len(SubSeq(q, 1, n)) = n
      /\ SubSeq(q, n + 1, Len(q)) \in Tcp!Bytes /\ Len(SubSeq(q, n + 1, Len(q))) = Len(q) - n
  BY <1>1, <1>2, <1>3 DEF Tcp!Bytes
<1>5. ASSUME Run(q, k) PROVE Run(SubSeq(q, 1, n), k) /\ Run(SubSeq(q, n + 1, Len(q)), k + n)
  BY <1>1, <1>2, <1>3, <1>4, <1>5 DEF Run
<1> QED  BY <1>4, <1>5

LEMMA Join ==
  ASSUME NEW a \in Tcp!Bytes, NEW b \in Tcp!Bytes, NEW k \in Nat
  PROVE  /\ a \o b \in Tcp!Bytes /\ Len(a \o b) = Len(a) + Len(b)
         /\ Run(a, k) /\ Run(b, k + Len(a)) => Run(a \o b, k)
BY DEF Tcp!Bytes, Run

LEMMA Nothing == <<>> \in Tcp!Bytes /\ Len(<<>>) = 0 /\ \A k : Run(<<>>, k)
<1>1. <<>> \in Seq(1 .. MaxSent) /\ Len(<<>>) = 0
  OBVIOUS
<1> QED  BY <1>1 DEF Tcp!Bytes, Run

LEMMA Lengths == \A q \in Tcp!Bytes : Len(q) \in Nat /\ (q = <<>> <=> Len(q) = 0)
BY DEF Tcp!Bytes

LEMMA BytesQueued ==
  ASSUME NEW had \in Tcp!Bytes, NEW inf \in Tcp!Bytes, NEW queue \in Tcp!Bytes,
         NEW in \in Tcp!Bytes,
         NEW t \in Nat, NEW n \in 0 .. Len(in), Covered(had, inf, queue, in, t)
  PROVE  Covered(had, inf, queue \o SubSeq(in, 1, n), SubSeq(in, n + 1, Len(in)), t)
<1> DEFINE k == Len(had) + Len(inf)
           j == k + Len(queue)
           a == SubSeq(in, 1, n)
           b == SubSeq(in, n + 1, Len(in))
<1>1. /\ Len(in) \in Nat /\ Len(queue) \in Nat /\ k \in Nat /\ j \in Nat /\ n \in Nat
      /\ Run(queue, k) /\ Run(in, j) /\ j + Len(in) = t
  BY Lengths DEF Covered
<1>2. a \in Tcp!Bytes /\ Len(a) = n /\ b \in Tcp!Bytes /\ Len(b) = Len(in) - n /\ Run(a, j) /\ Run(b, j + n)
  BY <1>1, TakeSome
<1> HIDE DEF a, b
<1>3. Len(queue \o a) = Len(queue) + n /\ Run(queue \o a, k)
  BY <1>1, <1>2, Join
<1>4. k + Len(queue \o a) = j + n /\ j + n + Len(b) = t
  BY <1>1, <1>2, <1>3
<1> QED  BY <1>2, <1>3, <1>4 DEF Covered, a, b

LEMMA Posted ==
  ASSUME NEW had \in Tcp!Bytes, NEW queue \in Tcp!Bytes, NEW in \in Tcp!Bytes,
         NEW t \in Nat, NEW n \in 0 .. Len(queue), Held(had, <<>>, t), Covered(had, <<>>, queue, in, t)
  PROVE  /\ Held(had, SubSeq(queue, 1, n), t)
         /\ Covered(had, SubSeq(queue, 1, n), SubSeq(queue, n + 1, Len(queue)), in, t)
<1> DEFINE a == SubSeq(queue, 1, n)
           b == SubSeq(queue, n + 1, Len(queue))
<1>1. /\ Len(in) \in Nat /\ Len(queue) \in Nat /\ Len(had) \in Nat /\ n \in Nat /\ n <= Len(queue)
      /\ Run(had, 0) /\ Run(queue, Len(had)) /\ Run(in, Len(had) + Len(queue))
      /\ Len(had) + Len(queue) + Len(in) = t
  BY Lengths, Nothing DEF Covered, Held
<1>2. /\ a \in Tcp!Bytes /\ Len(a) = n /\ b \in Tcp!Bytes /\ Len(b) = Len(queue) - n
      /\ Run(a, Len(had)) /\ Run(b, Len(had) + n)
  BY <1>1, TakeSome
<1> HIDE DEF a, b
<1>3. Len(had) + Len(a) <= t /\ Len(had) + Len(a) = Len(had) + n
      /\ Len(had) + n + Len(b) = Len(had) + Len(queue)
  BY <1>1, <1>2
<1> QED  BY <1>1, <1>2, <1>3 DEF Covered, Held, a, b

LEMMA Arrived ==
  ASSUME NEW had \in Tcp!Bytes, NEW inf \in Tcp!Bytes, NEW t \in Nat, NEW n \in 0 .. Len(inf),
         Held(had,
         inf, t)
  PROVE  /\ Held(had \o SubSeq(inf, 1, n), <<>>, t) /\ had \o SubSeq(inf, 1, n) \in Tcp!Bytes
         /\ SubSeq(inf, n + 1, Len(inf)) \in Tcp!Bytes
         /\ Len(had) = t => had \o SubSeq(inf, 1, n) = had
         /\ \A queue, in \in Tcp!Bytes : Covered(had, inf, queue, in, t) =>
              Covered(had \o SubSeq(inf, 1, n), <<>>, SubSeq(inf, n + 1, Len(inf)) \o queue, in, t)
<1> DEFINE a == SubSeq(inf, 1, n)
           b == SubSeq(inf, n + 1, Len(inf))
<1>1. /\ Len(inf) \in Nat /\ Len(had) \in Nat /\ n \in Nat /\ n <= Len(inf)
      /\ Run(had, 0) /\ Run(inf, Len(had)) /\ Len(had) + Len(inf) <= t
  BY Lengths DEF Held
<1>2. /\ a \in Tcp!Bytes /\ Len(a) = n /\ b \in Tcp!Bytes /\ Len(b) = Len(inf) - n
      /\ Run(a, Len(had)) /\ Run(b, Len(had) + n)
  BY <1>1, TakeSome
<1>3. Len(had) = t => had \o a = had
  <2> SUFFICES ASSUME Len(had) = t PROVE had \o a = had
    OBVIOUS
  <2>1. Len(a) = 0
    BY <1>1, <1>2
  <2>2. a = <<>>
    BY <1>2, <2>1, Lengths
  <2> HIDE DEF a
  <2> QED  BY <2>2 DEF Tcp!Bytes
<1> HIDE DEF a, b
<1>4. had \o a \in Tcp!Bytes /\ Len(had \o a) = Len(had) + n /\ Run(had \o a, 0)
  <2>1. 0 + Len(had) = Len(had) /\ 0 \in Nat
    BY <1>1
  <2> HIDE DEF Run
  <2> QED  BY <1>1, <1>2, <2>1, Join
<1>5. Held(had \o a, <<>>, t)
  BY <1>1, <1>4, Nothing DEF Held
<1>6. ASSUME NEW queue \in Tcp!Bytes, NEW in \in Tcp!Bytes, Covered(had, inf, queue, in, t)
      PROVE  Covered(had \o a, <<>>, b \o queue, in, t)
  <2>1. /\ Len(in) \in Nat /\ Len(queue) \in Nat /\ Run(queue, Len(had) + Len(inf))
        /\ Run(in, Len(had) + Len(inf) + Len(queue)) /\ Len(had) + Len(inf) + Len(queue) + Len(in) = t
    BY <1>6, Lengths DEF Covered
  <2>2. Len(had) + n + Len(b) = Len(had) + Len(inf) /\ Len(had) + n \in Nat
    BY <1>1, <1>2
  <2>3. Len(b \o queue) = Len(b) + Len(queue) /\ Run(b \o queue, Len(had) + n)
    BY <1>2, <2>1, <2>2, Join
  <2>4. /\ Len(had \o a) + Len(<<>>) = Len(had) + n
        /\ Len(had) + n + Len(b \o queue) = Len(had) + Len(inf) + Len(queue)
    BY <1>1, <1>2, <1>4, <2>1, <2>3, Nothing
  <2> QED  BY <2>1, <2>3, <2>4 DEF Covered
<1> QED  BY <1>2, <1>3, <1>4, <1>5, <1>6 DEF a, b

LEMMA Received ==
  ASSUME NEW had \in Tcp!Bytes, NEW inf \in Tcp!Bytes, NEW queue \in Tcp!Bytes,
         NEW in \in Tcp!Bytes,
         NEW t \in Nat, t + 1 <= MaxSent, Covered(had, inf, queue, in, t), MaxSent \in Nat
  PROVE  Append(in, t + 1) \in Tcp!Bytes /\ Covered(had, inf, queue, Append(in, t + 1), t + 1)
<1> DEFINE j == Len(had) + Len(inf) + Len(queue)
<1>1. Len(in) \in Nat /\ j \in Nat /\ Run(in, j) /\ j + Len(in) = t
  BY Lengths DEF Covered
<1>2. Append(in, t + 1) \in Tcp!Bytes /\ Len(Append(in, t + 1)) = Len(in) + 1
  BY DEF Tcp!Bytes
<1>3. Run(Append(in, t + 1), j)
  <2> SUFFICES ASSUME NEW i \in 1 .. Len(in) + 1 PROVE Append(in, t + 1)[i] = j + i
    BY <1>2 DEF Run
  <2> HIDE DEF j
  <2>1. CASE i \in 1 .. Len(in)
    BY <1>1, <2>1 DEF Run, Tcp!Bytes
  <2>2. CASE i = Len(in) + 1
    <3>1. in \in Seq(1 .. MaxSent) /\ Append(in, t + 1)[Len(in) + 1] = t + 1
      BY DEF Tcp!Bytes
    <3>2. t + 1 = j + (Len(in) + 1)
      BY <1>1
    <3> QED  BY <2>2, <3>1, <3>2
  <2> QED  BY <1>1, <2>1, <2>2
<1>4. j + (Len(in) + 1) = t + 1
  BY <1>1
<1> QED  BY <1>2, <1>3, <1>4 DEF Covered

-----------------------------------------------------------------------------
(* The handlers' steps, as functions of the state                          *)

LEMMA DrainIs ==
  ASSUME Tcp!NatFlowAssumption, NEW s \in States
  PROVE  /\ Tcp!Drain(s) \in States
         /\ \E n \in 0 .. Len(s.tcb.in) :
              /\ Tcp!Drain(s).flow.queue = s.flow.queue \o SubSeq(s.tcb.in, 1, n)
              /\ Tcp!Drain(s).tcb.in = SubSeq(s.tcb.in, n + 1, Len(s.tcb.in))
              /\ s.flow.queue = <<>> /\ n = 0 => s.tcb.in = <<>>
         /\ Tcp!Drain(s).flow = [s.flow EXCEPT !.queue = Tcp!Drain(s).flow.queue]
         /\ Tcp!Drain(s).tcb = [s.tcb EXCEPT !.in = Tcp!Drain(s).tcb.in]
         /\ Tcp!Drain(s).boxes = s.boxes /\ Tcp!Drain(s).kernel = s.kernel /\ Tcp!Drain(s).host = s.host
         /\ Tcp!Drain(s).guest = s.guest /\ Tcp!Drain(s).nic = s.nic
<1> DEFINE room == IF Len(s.flow.queue) < Cap THEN Cap - Len(s.flow.queue) ELSE 0
           n == IF Len(s.tcb.in) < room THEN Len(s.tcb.in) ELSE room
           q == s.flow.queue \o SubSeq(s.tcb.in, 1, n)
           r == SubSeq(s.tcb.in, n + 1, Len(s.tcb.in))
<1>1. s.flow \in Flows /\ s.tcb \in Tcbs /\ s.flow.queue \in Tcp!Bytes /\ s.tcb.in \in Tcp!Bytes
  BY DEF States, Flows, Tcbs
<1>2. n \in 0 .. Len(s.tcb.in) /\ (s.flow.queue = <<>> /\ n = 0 => s.tcb.in = <<>>)
  <2>1. /\ Len(s.flow.queue) \in Nat /\ (s.flow.queue = <<>> <=> Len(s.flow.queue) = 0)
        /\ Len(s.tcb.in) \in Nat /\ (s.tcb.in = <<>> <=> Len(s.tcb.in) = 0) /\ Cap \in Nat \ {0}
    BY <1>1, Lengths DEF Tcp!NatFlowAssumption
  <2> QED  BY <2>1
<1>3. Tcp!Drain(s) = [s EXCEPT !.flow.queue = q, !.tcb.in = r]
  BY DEF Tcp!Drain
<1> HIDE DEF n
<1>4. q \in Tcp!Bytes /\ r \in Tcp!Bytes
  <2> DEFINE x == s.flow.queue
             y == s.tcb.in
             a == SubSeq(y, 1, n)
             b == SubSeq(y, n + 1, Len(y))
  <2>1. x \in Tcp!Bytes /\ y \in Tcp!Bytes /\ n \in 0 .. Len(y)
    BY <1>1, <1>2
  <2> HIDE DEF x, y
  <2>2. a \in Tcp!Bytes /\ b \in Tcp!Bytes
    BY <2>1, TakeSome, 0 \in Nat
  <2> HIDE DEF a
  <2>3. x \o a \in Tcp!Bytes
    BY <2>1, <2>2, Join
  <2> QED  BY <2>2, <2>3 DEF x, y, a
<1> HIDE DEF q, r
<1>5. /\ Tcp!Drain(s).flow = [s.flow EXCEPT !.queue = q] /\ Tcp!Drain(s).tcb = [s.tcb EXCEPT !.in = r]
      /\ Tcp!Drain(s).boxes = s.boxes /\ Tcp!Drain(s).kernel = s.kernel /\ Tcp!Drain(s).host = s.host
      /\ Tcp!Drain(s).guest = s.guest /\ Tcp!Drain(s).nic = s.nic
  BY <1>1, <1>3 DEF States
<1>6. Tcp!Drain(s).flow \in Flows /\ Tcp!Drain(s).tcb \in Tcbs /\ Tcp!Drain(s).flow.queue = q /\ Tcp!Drain(s).tcb.in = r
  BY <1>1, <1>4, <1>5 DEF Flows, Tcbs
<1>7. Tcp!Drain(s) \in States
  BY <1>1, <1>3, <1>6 DEF States
<1> QED  BY <1>2, <1>5, <1>6, <1>7 DEF q, r

\* What a step that only moves data leaves alone.
Calm(r, s) ==
  /\ r.flow.st = s.flow.st /\ r.flow.connected = s.flow.connected /\ r.flow.inflight = s.flow.inflight
  /\ r.flow.closing = s.flow.closing /\ r.flow.want = s.flow.want /\ r.flow.done = s.flow.done
  /\ r.flow.syn = s.flow.syn
  /\ r.tcb.st = s.tcb.st /\ r.tcb.taken = s.tcb.taken /\ r.tcb.peerFin = s.tcb.peerFin
  /\ r.boxes = s.boxes /\ r.kernel = s.kernel /\ r.host = s.host

LEMMA DrainKeeps ==
  ASSUME Tcp!NatFlowAssumption, NEW s \in States, Sound(s), s.flow.st = "live",
         NEW r, r = Tcp!Drain(s)
  PROVE  /\ Sound(r) /\ Calm(r, s) /\ (RestInv(s) => RestInv(r))
         /\ (r.flow.queue = <<>> => r.tcb.in = <<>>)
         /\ r.flow.blocked = s.flow.blocked /\ r.guest = s.guest /\ r.nic = s.nic
         /\ r.tcb.out = s.tcb.out /\ r.tcb.fin = s.tcb.fin /\ r.tcb.staged = s.tcb.staged
         /\ r.tcb.reset = s.tcb.reset
<1>1. PICK n \in 0 .. Len(s.tcb.in) :
         /\ r.flow.queue = s.flow.queue \o SubSeq(s.tcb.in, 1, n)
         /\ r.tcb.in = SubSeq(s.tcb.in, n + 1, Len(s.tcb.in))
         /\ s.flow.queue = <<>> /\ n = 0 => s.tcb.in = <<>>
  BY DrainIs
<1>2. /\ r \in States /\ r.flow = [s.flow EXCEPT !.queue = r.flow.queue]
      /\ r.tcb = [s.tcb EXCEPT !.in = r.tcb.in]
      /\ r.boxes = s.boxes /\ r.kernel = s.kernel /\ r.host = s.host /\ r.guest = s.guest /\ r.nic = s.nic
  BY DrainIs
<1>3. s.flow \in Flows /\ s.tcb \in Tcbs /\ s.host \in Hosts
  BY DEF States
<1>4. /\ s.flow.queue \in Tcp!Bytes /\ s.tcb.in \in Tcp!Bytes /\ s.flow.inflight \in Tcp!Bytes /\ s.host.got \in Tcp!Bytes
      /\ s.tcb.taken \in Nat
  BY <1>3 DEF Flows, Tcbs, Hosts
<1>5. /\ Calm(r, s) /\ r.flow.blocked = s.flow.blocked /\ r.tcb.out = s.tcb.out /\ r.tcb.fin = s.tcb.fin
      /\ r.tcb.staged = s.tcb.staged /\ r.tcb.reset = s.tcb.reset
  BY <1>2, <1>3 DEF Calm, Flows, Tcbs
<1>6. Sound(r)
  <2>1. BoxInv(r)
    BY <1>5 DEF BoxInv, Sound, Calm
  <2>2. GotInv(r) /\ FinInv(r) /\ ListInv(r)
    BY <1>2, <1>5 DEF GotInv, FinInv, ListInv, Sound, Calm, Tcp!PeerClosed
  <2>3. KeptInv(r)
    BY <1>5 DEF KeptInv, Sound, Calm
  <2> QED  BY <1>2, <2>1, <2>2, <2>3 DEF Sound
<1>7. RestInv(s) => RestInv(r)
  BY SMTT(60), <1>1, <1>4, <1>5, BytesQueued DEF RestInv, Calm
<1>8. r.flow.queue = <<>> => r.tcb.in = <<>>
  <2> SUFFICES ASSUME r.flow.queue = <<>> PROVE r.tcb.in = <<>>
    OBVIOUS
  <2>1. PICK q, i : q = s.flow.queue /\ i = s.tcb.in
    OBVIOUS
  <2>2. /\ q \in Tcp!Bytes /\ i \in Tcp!Bytes /\ Len(q) \in Nat /\ Len(i) \in Nat
        /\ SubSeq(i, 1, n) \in Tcp!Bytes /\ Len(SubSeq(i, 1, n)) = n
    BY <1>1, <1>4, <2>1, Lengths, TakeSome
  <2>3. Len(q \o SubSeq(i, 1, n)) = Len(q) + n
    BY <2>2, Join
  <2>4. Len(q) + n = 0
    BY <1>1, <2>1, <2>3, Nothing
  <2>5. Len(q) = 0 /\ n = 0
    BY <2>1, <2>2, <2>4
  <2>6. i = <<>>
    BY <1>1, <2>1, <2>2, <2>5, Lengths
  <2>7. r.tcb.in = SubSeq(i, 1, Len(i)) /\ i \in Seq(1 .. MaxSent)
    BY <1>1, <2>1, <2>2, <2>5 DEF Tcp!Bytes
  <2> QED  BY <2>6, <2>7
<1> QED  BY <1>2, <1>5, <1>6, <1>7, <1>8

LEMMA FieldsOk ==
  ASSUME NEW s \in States
  PROVE  /\ s.flow \in Flows /\ s.tcb \in Tcbs /\ s.host \in Hosts /\ s.guest \in Guests /\ s.nic \in Nics
         /\ s.boxes \in Boxes /\ s.kernel \in SUBSET Ops
         /\ s.flow.queue \in Tcp!Bytes /\ s.tcb.in \in Tcp!Bytes /\ s.flow.inflight \in Tcp!Bytes /\ s.host.got \in Tcp!Bytes
         /\ s.tcb.taken \in Nat
BY DEF States, Flows, Tcbs, Hosts

LEMMA RstIs ==
  ASSUME NEW g \in Guests
  PROVE  Tcp!RstToGuest(g) \in Guests /\ Tcp!RstToGuest(g).st \notin {"syn", "open"}
BY DEF Tcp!RstToGuest, Guests

\* The guest is told of a reset; nothing else turns a known answer into none.
Answered(r, s) ==
  r.guest.st \in {"syn", "open"} =>
    /\ "rst" \notin s.tcb.staged /\ r.guest.st = s.guest.st
    /\ r.guest.lost = s.guest.lost \/ "synack" \in s.tcb.staged

LEMMA DeliverIs ==
  ASSUME NEW s \in States, NEW r, r = Tcp!Deliver(s)
  PROVE  /\ r \in States /\ r.flow = s.flow /\ r.tcb = [s.tcb EXCEPT !.staged = {}] /\ r.tcb.staged = {}
         /\ r.boxes = s.boxes /\ r.kernel = s.kernel /\ r.host = s.host /\ r.nic = s.nic
         /\ Answered(r, s)
<1> DEFINE h == IF "synack" \in s.tcb.staged THEN [s.guest EXCEPT !.lost = FALSE] ELSE s.guest
           g == IF "rst" \in s.tcb.staged THEN Tcp!RstToGuest(h) ELSE h
           t == [s.tcb EXCEPT !.staged = {}]
<1>1. h \in Guests /\ h.st = s.guest.st /\ (h.lost = s.guest.lost \/ "synack" \in s.tcb.staged)
  BY FieldsOk DEF Guests
<1> HIDE DEF h
<1>2. /\ g \in Guests
      /\ g.st \in {"syn", "open"} => "rst" \notin s.tcb.staged /\ g = h
  BY <1>1, RstIs
<1> HIDE DEF g
<1>3. t \in Tcbs /\ t.staged = {}
  BY FieldsOk DEF Tcbs
<1>4. r = [s EXCEPT !.tcb = t, !.guest = g]
  BY DEF Tcp!Deliver, g, h
<1> HIDE DEF t
<1>5. /\ r \in States /\ r.flow = s.flow /\ r.tcb = t /\ r.boxes = s.boxes /\ r.kernel = s.kernel
      /\ r.host = s.host /\ r.nic = s.nic /\ r.guest = g
  BY <1>2, <1>3, <1>4 DEF States
<1> QED  BY <1>1, <1>2, <1>3, <1>5 DEF t, Answered

LEMMA PauseIs ==
  ASSUME NEW s \in States, NEW r, r = Tcp!Pause(s)
  PROVE  /\ r \in States /\ r.flow = [s.flow EXCEPT !.blocked = TRUE] /\ r.tcb = s.tcb
         /\ r.boxes = s.boxes /\ r.kernel = s.kernel /\ r.host = s.host /\ r.guest = s.guest
         /\ r.nic.full = s.nic.full /\ ((s.flow.blocked => s.nic.listed) => r.nic.listed)
<1> DEFINE f == [s.flow EXCEPT !.blocked = TRUE]
           n == [s.nic EXCEPT !.listed = IF s.flow.blocked THEN @ ELSE TRUE]
<1>1. f \in Flows /\ n \in Nics /\ n.full = s.nic.full /\ n.listed = (IF s.flow.blocked THEN s.nic.listed ELSE TRUE)
  BY ZenonT(60), FieldsOk DEF Flows, Nics
<1>2. r = [s EXCEPT !.flow = f, !.nic = n]
  BY FieldsOk DEF Tcp!Pause, States
<1> HIDE DEF f, n
<1>3. /\ r \in States /\ r.flow = f /\ r.nic = n /\ r.tcb = s.tcb
      /\ r.boxes = s.boxes /\ r.kernel = s.kernel /\ r.host = s.host /\ r.guest = s.guest
  BY <1>1, <1>2 DEF States
<1> QED  BY <1>1, <1>3 DEF f

LEMMA StageIs ==
  ASSUME NEW s \in States, NEW r, r = Tcp!Stage(s)
  PROVE  /\ r \in States /\ r.tcb.out = 0 /\ r.tcb.fin # "queued"
         /\ r.tcb = [s.tcb EXCEPT !.out = 0, !.fin = r.tcb.fin]
         /\ r.flow = s.flow /\ r.boxes = s.boxes /\ r.kernel = s.kernel /\ r.host = s.host
         /\ r.guest = s.guest /\ r.nic = s.nic
<1> DEFINE x == IF s.tcb.fin = "queued" THEN "sent" ELSE s.tcb.fin
           t == [s.tcb EXCEPT !.out = 0, !.fin = x]
<1>1. x \in {"none", "queued", "sent"} /\ x # "queued"
  BY FieldsOk DEF Tcbs
<1>2. r = [s EXCEPT !.tcb = t]
  BY FieldsOk DEF Tcp!Stage, States
<1> HIDE DEF x
<1>3. t \in Tcbs /\ t.out = 0 /\ t.fin = x
  BY <1>1, FieldsOk DEF Tcbs
<1> HIDE DEF t
<1>4. /\ r \in States /\ r.tcb = t /\ r.flow = s.flow /\ r.boxes = s.boxes /\ r.kernel = s.kernel
      /\ r.host = s.host /\ r.guest = s.guest /\ r.nic = s.nic
  BY <1>2, <1>3 DEF States
<1> QED  BY <1>1, <1>3, <1>4 DEF t

LEMMA StageSomeIs ==
  ASSUME NEW s \in States, NEW r, r = Tcp!StageSome(s), s.tcb.out > 0
  PROVE  /\ r \in States /\ r.nic.full /\ r.nic.listed = s.nic.listed
         /\ r.tcb = [s.tcb EXCEPT !.out = r.tcb.out]
         /\ r.flow = s.flow /\ r.boxes = s.boxes /\ r.kernel = s.kernel /\ r.host = s.host
         /\ r.guest = s.guest
<1>1. s.tcb.out \in Nat /\ s.nic.fills \in Nat
  BY FieldsOk DEF Tcbs, Nics
<1>2. PICK o \in Nat, f \in Nat : o = s.tcb.out - 1 /\ f = s.nic.fills + 1
  BY <1>1
<1> DEFINE t == [s.tcb EXCEPT !.out = o]
           n == [s.nic EXCEPT !.full = TRUE, !.fills = f]
<1>3. t \in Tcbs /\ n \in Nics /\ n.full = TRUE /\ n.listed = s.nic.listed
  BY ZenonT(60), FieldsOk DEF Tcbs, Nics
<1>4. r = [s EXCEPT !.tcb = t, !.nic = n]
  BY <1>2, FieldsOk DEF Tcp!StageSome, States
<1> HIDE DEF t, n
<1>5. /\ r \in States /\ r.tcb = t /\ r.nic = n /\ r.flow = s.flow /\ r.boxes = s.boxes
      /\ r.kernel = s.kernel /\ r.host = s.host /\ r.guest = s.guest
  BY <1>3, <1>4 DEF States
<1> QED  BY <1>3, <1>5 DEF t

LEMMA CalmKeeps ==
  ASSUME NEW s, NEW r \in States, Sound(s), s.flow.st = "live", Calm(r, s), ListInv(r)
  PROVE  /\ Sound(r)
         /\ RestInv(s) /\ r.flow.queue = s.flow.queue /\ r.tcb.in = s.tcb.in => RestInv(r)
<1>1. BoxInv(r)
  BY DEF BoxInv, Sound, Calm
<1>2. GotInv(r) /\ FinInv(r)
  BY DEF GotInv, FinInv, Sound, Calm, Tcp!PeerClosed
<1>3. KeptInv(r)
  BY DEF KeptInv, Sound, Calm
<1> QED  BY <1>1, <1>2, <1>3 DEF Sound, RestInv, Calm

\* egress: afterwards nothing is staged, and what still waits has paused.
LEMMA EgressKeeps ==
  ASSUME NEW s, Sound(s), s.flow.st = "live", NEW fills, NEW r, r = Tcp!Egress(s, fills)
  PROVE  /\ Sound(r) /\ Calm(r, s) /\ (RestInv(s) => RestInv(r))
         /\ r.flow.queue = s.flow.queue /\ r.tcb.in = s.tcb.in /\ r.tcb.staged = {} /\ r.tcb.reset = s.tcb.reset
         /\ Answered(r, s)
         /\ r.tcb.out > 0 \/ r.tcb.fin = "queued" => r.nic.listed /\ r.nic.full
<1>1. s \in States /\ ListInv(s)
  BY DEF Sound
<1>2. PICK d : d = Tcp!Deliver(s)
  OBVIOUS
<1>3. /\ d \in States /\ d.flow = s.flow /\ d.tcb = [s.tcb EXCEPT !.staged = {}] /\ d.tcb.staged = {}
      /\ d.boxes = s.boxes /\ d.kernel = s.kernel /\ d.host = s.host /\ d.nic = s.nic
      /\ Answered(d, s)
  BY <1>1, <1>2, DeliverIs
<1>4. r = IF d.nic.full THEN Tcp!Pause(d) ELSE IF fills /\ d.tcb.out > 0 THEN Tcp!Pause(Tcp!StageSome(d)) ELSE Tcp!Stage(d)
  BY <1>2 DEF Tcp!Egress
<1>5. d.flow.blocked => d.nic.listed
  BY <1>1, <1>3 DEF ListInv
<1> DEFINE Kept(x) == /\ x \in States /\ x.guest = d.guest /\ x.boxes = s.boxes /\ x.kernel = s.kernel /\ x.host = s.host
                      /\ x.flow = [s.flow EXCEPT !.blocked = x.flow.blocked]
                      /\ x.tcb = [d.tcb EXCEPT !.out = x.tcb.out, !.fin = x.tcb.fin]
           Due(x) == x.tcb.out > 0 \/ x.tcb.fin = "queued" => x.nic.listed /\ x.nic.full
<1> HIDE DEF Kept, Due
<1>6. Kept(d)
  <2>1. d.flow \in Flows /\ d.tcb \in Tcbs
    BY <1>3, FieldsOk
  <2>2. d.flow = [s.flow EXCEPT !.blocked = d.flow.blocked] /\ d.tcb = [d.tcb EXCEPT !.out = d.tcb.out, !.fin = d.tcb.fin]
    BY <1>3, <2>1 DEF Flows, Tcbs
  <2> QED  BY <1>3, <2>2 DEF Kept
<1>7. Kept(r) /\ ListInv(r) /\ Due(r)
  <2>1. CASE d.nic.full
    <3>1. /\ r \in States /\ r.flow = [d.flow EXCEPT !.blocked = TRUE] /\ r.tcb = d.tcb
          /\ r.boxes = d.boxes /\ r.kernel = d.kernel /\ r.host = d.host /\ r.guest = d.guest
          /\ r.nic.full = d.nic.full /\ r.nic.listed
      BY <1>3, <1>4, <1>5, <2>1, PauseIs
    <3>2. r.flow = [s.flow EXCEPT !.blocked = r.flow.blocked] /\ r.flow.blocked = TRUE
      BY <1>3, <3>1, FieldsOk DEF Flows
    <3>3. r.tcb = [d.tcb EXCEPT !.out = r.tcb.out, !.fin = r.tcb.fin]
      BY <1>6, <3>1 DEF Kept
    <3> QED  BY <1>3, <2>1, <3>1, <3>2, <3>3 DEF ListInv, Kept, Due
  <2>2. CASE ~d.nic.full /\ fills /\ d.tcb.out > 0
    <3>1. PICK e : e = Tcp!StageSome(d)
      OBVIOUS
    <3>2. /\ e \in States /\ e.nic.full /\ e.nic.listed = d.nic.listed /\ e.tcb = [d.tcb EXCEPT !.out = e.tcb.out]
          /\ e.flow = d.flow /\ e.boxes = d.boxes /\ e.kernel = d.kernel /\ e.host = d.host /\ e.guest = d.guest
      <4>1. d \in States /\ d.tcb.out > 0
        BY <1>3, <2>2
      <4> QED  BY <3>1, <4>1, StageSomeIs
    <3>3. r = Tcp!Pause(e) /\ (e.flow.blocked => e.nic.listed)
      BY <1>4, <1>5, <2>2, <3>1, <3>2
    <3>4. /\ r \in States /\ r.flow = [e.flow EXCEPT !.blocked = TRUE] /\ r.tcb = e.tcb
          /\ r.boxes = e.boxes /\ r.kernel = e.kernel /\ r.host = e.host /\ r.guest = e.guest
          /\ r.nic.full = e.nic.full /\ r.nic.listed
      BY <3>2, <3>3, PauseIs
    <3>5. r.flow = [s.flow EXCEPT !.blocked = r.flow.blocked] /\ r.flow.blocked = TRUE
      BY <1>3, <3>2, <3>4, FieldsOk DEF Flows
    <3>6. d.tcb \in Tcbs
      BY <1>3, FieldsOk
    <3>7. r.tcb = [d.tcb EXCEPT !.out = r.tcb.out, !.fin = r.tcb.fin]
      BY ZenonT(60), <3>2, <3>4, <3>6 DEF Tcbs
    <3> QED  BY <1>3, <3>2, <3>4, <3>5, <3>7 DEF ListInv, Kept, Due
  <2>3. CASE ~d.nic.full /\ ~(fills /\ d.tcb.out > 0)
    <3>1. r = Tcp!Stage(d)
      BY <1>4, <2>3
    <3>2. /\ r \in States /\ r.tcb.out = 0 /\ r.tcb.fin # "queued"
          /\ r.tcb = [d.tcb EXCEPT !.out = 0, !.fin = r.tcb.fin]
          /\ r.flow = d.flow /\ r.boxes = d.boxes /\ r.kernel = d.kernel /\ r.host = d.host
          /\ r.guest = d.guest /\ r.nic = d.nic
      BY <1>3, <3>1, StageIs
    <3>3. Due(r) /\ r.tcb = [d.tcb EXCEPT !.out = r.tcb.out, !.fin = r.tcb.fin]
      BY <3>2 DEF Due
    <3>4. r.flow = [s.flow EXCEPT !.blocked = r.flow.blocked]
      BY <1>6, <3>2 DEF Kept
    <3> QED  BY <1>3, <1>5, <3>2, <3>3, <3>4 DEF ListInv, Kept
  <2> QED  BY <2>1, <2>2, <2>3
<1>8. /\ r.flow = [s.flow EXCEPT !.blocked = r.flow.blocked]
      /\ r.tcb = [d.tcb EXCEPT !.out = r.tcb.out, !.fin = r.tcb.fin]
  BY <1>7 DEF Kept
<1>9. s.flow \in Flows /\ s.tcb \in Tcbs
  BY <1>1, FieldsOk
<1>x. r \in States /\ r.guest = d.guest /\ r.boxes = s.boxes /\ r.kernel = s.kernel /\ r.host = s.host
       /\ (r.tcb.out > 0 \/ r.tcb.fin = "queued" => r.nic.listed /\ r.nic.full)
  BY <1>7 DEF Kept, Due
<1>y. d.tcb \in Tcbs /\ d.tcb.in = s.tcb.in /\ d.tcb.st = s.tcb.st /\ d.tcb.taken = s.tcb.taken
      /\ d.tcb.peerFin = s.tcb.peerFin /\ d.tcb.reset = s.tcb.reset
  BY <1>3, <1>9, FieldsOk DEF Tcbs
<1>10. /\ Calm(r, s) /\ r.flow.queue = s.flow.queue /\ r.tcb.in = s.tcb.in
       /\ r.tcb.staged = {} /\ r.tcb.reset = s.tcb.reset
  BY ZenonT(60), <1>3, <1>x, <1>y, <1>8, <1>9 DEF Calm, Flows, Tcbs
<1>11. Answered(r, s)
  BY <1>3, <1>x DEF Answered
<1> QED  BY <1>7, <1>x, <1>10, <1>11, CalmKeeps

LEMMA ReapSettles ==
  ASSUME NEW s, Sound(s), s.flow.st = "dead", SynInv(s), ToldInv(s), NEW r, r = Tcp!ReapIfIdle(s)
  PROVE  Settled(r)
<1> DEFINE b == [x \in DOMAIN s.boxes |-> "pool"]
<1>1. s \in States /\ BoxInv(s) /\ GotInv(s) /\ FinInv(s)
  BY DEF Sound
<1>2. CASE r = s
  BY <1>2 DEF Settled, Whole, RestInv, EndInv, WokenInv
<1>3. CASE s.kernel = {} /\ r = [s EXCEPT !.flow = Tcp!NoFlow, !.boxes = b]
  <2>1. s.flow.inflight = <<>>
    BY <1>1, <1>3 DEF BoxInv
  <2>2. Tcp!NoFlow \in Flows /\ Tcp!NoFlow.st = "none" /\ Tcp!NoFlow.inflight = <<>> /\ Tcp!NoFlow.want = FALSE /\ Tcp!NoFlow.blocked = FALSE
    <3>1. Tcp!NoFlow.queue \in Tcp!Bytes /\ Tcp!NoFlow.inflight \in Tcp!Bytes
      BY Nothing DEF Tcp!NoFlow
    <3> QED  BY <3>1 DEF Tcp!NoFlow, Flows
  <2>3. b \in Boxes
    BY <1>1, FieldsOk DEF Boxes, Tcp!Homes
  <2> HIDE DEF b, Tcp!NoFlow
  <2>4. /\ r \in States /\ r.flow = Tcp!NoFlow /\ r.boxes = b /\ r.kernel = {} /\ r.tcb = s.tcb /\ r.host = s.host
        /\ r.guest = s.guest /\ r.nic = s.nic
    BY <1>1, <1>3, <2>2, <2>3 DEF States
  <2>5. BoxInv(r)
    BY <2>2, <2>4 DEF BoxInv
  <2>6. GotInv(r)
    BY <1>1, <2>1, <2>2, <2>4 DEF GotInv
  <2>7. FinInv(r) /\ ListInv(r) /\ ToldInv(r) /\ SynInv(r)
    BY <1>1, <2>2, <2>4 DEF FinInv, ListInv, ToldInv, SynInv, Tcp!PeerClosed
  <2> QED  BY <2>2, <2>4, <2>5, <2>6, <2>7 DEF Settled, Whole, Sound, RestInv, EndInv, WokenInv,
              KeptInv
<1> QED  BY <1>2, <1>3 DEF Tcp!ReapIfIdle

\* begin_teardown of a flow whose guest has been told.
LEMMA TeardownSettles ==
  ASSUME NEW s, Sound(s), s.flow.st # "none", SynInv(s),
         s.guest.st \in {"syn", "open"} => s.guest.lost,
         NEW r, r = Tcp!BeginTeardown(s)
  PROVE  Settled(r)
<1>1. CASE s.flow.st = "live"
  <2> DEFINE f == [s.flow EXCEPT !.st = "dead"]
             h == [s.host EXCEPT !.st = IF s.tcb.reset THEN "reset" ELSE "closed"]
             t == [s EXCEPT !.flow = f, !.host = h]
  <2>1. /\ f \in Flows /\ h \in Hosts /\ h.got = s.host.got /\ h.shut = s.host.shut
        /\ f.st = "dead" /\ f.inflight = s.flow.inflight /\ f.want = s.flow.want /\ f.blocked = s.flow.blocked
    BY FieldsOk DEF Sound, Flows, Hosts
  <2>2. s \in States
    BY DEF Sound
  <2>3. r = Tcp!ReapIfIdle(t)
    <3>1. t = [s EXCEPT !.flow.st = "dead", !.host.st = IF s.tcb.reset THEN "reset" ELSE "closed"]
      BY <2>2 DEF States
    <3> HIDE DEF t
    <3> QED  BY <1>1, <3>1 DEF Tcp!BeginTeardown
  <2> HIDE DEF f, h
  <2>4. /\ t \in States /\ t.flow = f /\ t.host = h /\ t.boxes = s.boxes /\ t.kernel = s.kernel
        /\ t.tcb = s.tcb /\ t.guest = s.guest /\ t.nic = s.nic
    BY <2>1, <2>2 DEF States
  <2> HIDE DEF t
  <2>5. Sound(t)
    BY <1>1, <2>1, <2>4 DEF Sound, BoxInv, GotInv, FinInv, ListInv, KeptInv, Tcp!PeerClosed
  <2>6. SynInv(t) /\ ToldInv(t)
    BY <2>4 DEF SynInv, ToldInv
  <2> QED  BY <2>1, <2>3, <2>4, <2>5, <2>6, ReapSettles
<1>2. CASE s.flow.st = "dead"
  <2>1. r = Tcp!ReapIfIdle(s)
    BY <1>2 DEF Tcp!BeginTeardown
  <2> QED  BY <1>2, <2>1, ReapSettles DEF ToldInv
<1> QED  BY <1>1, <1>2, FieldsOk DEF Sound, Flows

\* abort_flow settles whatever the handler did before it.
LEMMA AbortSettles ==
  ASSUME Tcp!NatFlowAssumption, NEW s, Sound(s), s.flow.st = "live", SynInv(s), NEW r,
         r = Tcp!AbortFlow(s)
  PROVE  Settled(r)
<1>1. s \in States /\ BoxInv(s) /\ GotInv(s) /\ FinInv(s) /\ ListInv(s)
  BY DEF Sound
<1>2. CASE s.flow.syn
  <2> DEFINE f == [s.flow EXCEPT !.syn = FALSE]
             g == Tcp!RstToGuest(s.guest)
             t == [s EXCEPT !.flow = f, !.guest = g]
  <2>1. f \in Flows /\ f = [s.flow EXCEPT !.syn = FALSE]
    BY <1>1, FieldsOk DEF Flows
  <2>2. g \in Guests /\ g.st \notin {"syn", "open"}
    BY <1>1, FieldsOk, RstIs
  <2>3. r = Tcp!BeginTeardown(t)
    <3>1. t = [s EXCEPT !.flow.syn = FALSE, !.guest = Tcp!RstToGuest(@)]
      BY <1>1 DEF States
    <3> HIDE DEF t
    <3> QED  BY <1>2, <3>1 DEF Tcp!AbortFlow
  <2>4. /\ f.st = s.flow.st /\ f.inflight = s.flow.inflight /\ f.want = s.flow.want /\ f.blocked = s.flow.blocked
        /\ f.syn = FALSE
    BY <1>1, FieldsOk DEF Flows
  <2> HIDE DEF f, g
  <2>5. /\ t \in States /\ t.flow = f /\ t.guest = g /\ t.boxes = s.boxes /\ t.kernel = s.kernel
        /\ t.tcb = s.tcb /\ t.host = s.host /\ t.nic = s.nic
    BY <1>1, <2>1, <2>2 DEF States
  <2> HIDE DEF t
  <2>6. Sound(t) /\ SynInv(t)
    BY <1>1, <2>4, <2>5 DEF Sound, BoxInv, GotInv, FinInv, ListInv, KeptInv, Tcp!PeerClosed, SynInv
  <2> QED  BY <2>2, <2>3, <2>4, <2>5, <2>6, TeardownSettles
<1>3. CASE ~s.flow.syn
  <2> DEFINE c == [s.tcb EXCEPT !.st = "Closed", !.reset = TRUE, !.out = 0, !.fin = "none", !.staged = {"rst"}]
             t == [s EXCEPT !.tcb = c]
  <2>1. /\ c \in Tcbs /\ c.st = "Closed" /\ c.taken = s.tcb.taken /\ c.peerFin = s.tcb.peerFin /\ c.staged = {"rst"}
        /\ c.in = s.tcb.in
    BY ZenonT(60), <1>1, FieldsOk DEF Tcbs, Tcp!TcbStates
  <2>2. PICK d, e : d = Tcp!Drain(t) /\ e = Tcp!Egress(d, FALSE)
    OBVIOUS
  <2>3. r = Tcp!BeginTeardown(e)
    BY <1>3, <2>2 DEF Tcp!AbortFlow
  <2> HIDE DEF c
  <2>4. /\ t \in States /\ t.tcb = c /\ t.flow = s.flow /\ t.guest = s.guest /\ t.boxes = s.boxes
        /\ t.kernel = s.kernel /\ t.host = s.host /\ t.nic = s.nic
    BY <1>1, <2>1 DEF States
  <2> HIDE DEF t
  <2>5. Sound(t)
    BY <1>1, <1>3, <2>1, <2>4 DEF Sound, BoxInv, GotInv, FinInv, ListInv, KeptInv, Tcp!PeerClosed
  <2>6. Sound(d) /\ Calm(d, t) /\ d.tcb.staged = {"rst"}
    BY <2>1, <2>2, <2>4, <2>5, DrainKeeps
  <2>7. d.flow.st = "live"
    BY <2>4, <2>6 DEF Calm
  <2>8. Sound(e) /\ Calm(e, d) /\ Answered(e, d) /\ e.tcb.staged = {}
    BY <2>2, <2>6, <2>7, EgressKeeps
  <2>9. e.flow.st = "live" /\ SynInv(e) /\ e.guest.st \notin {"syn", "open"}
    BY <2>6, <2>7, <2>8 DEF Calm, SynInv, Answered
  <2> QED  BY <2>3, <2>8, <2>9, TeardownSettles
<1> QED  BY <1>2, <1>3

\* pump_send: the queue's front goes into flight, or the stream ends when all
\* of it went.
LEMMA PumpKeeps ==
  ASSUME Tcp!NatFlowAssumption, NEW s, Sound(s), s.flow.st = "live", RestInv(s),
         s.flow.queue = <<>> => s.tcb.in = <<>>, NEW r, r = Tcp!PumpSend(s)
  PROVE  /\ Sound(r) /\ RestInv(r) /\ r.flow.st = "live"
         /\ r.tcb = s.tcb /\ r.guest = s.guest /\ r.nic = s.nic
<1>1. s \in States /\ BoxInv(s) /\ GotInv(s) /\ FinInv(s) /\ ListInv(s) /\ (s.flow.connected => ~s.flow.syn)
  BY DEF Sound, KeptInv
<1>2. CASE r = s
  BY <1>2
<1>3. CASE s.flow.connected /\ s.flow.inflight = <<>> /\ s.flow.queue = <<>> /\ s.flow.want
           /\ r = [s EXCEPT !.flow.want = FALSE, !.flow.done = TRUE, !.host.shut = TRUE]
  <2> DEFINE f == [s.flow EXCEPT !.want = FALSE, !.done = TRUE]
             h == [s.host EXCEPT !.shut = TRUE]
  <2>1. /\ f \in Flows /\ f.st = "live" /\ f.inflight = <<>> /\ f.queue = <<>> /\ f.want = FALSE
        /\ f.blocked = s.flow.blocked /\ f.syn = s.flow.syn
    BY <1>1, <1>3, FieldsOk DEF Flows
  <2>2. h \in Hosts /\ h.got = s.host.got
    BY <1>1, FieldsOk DEF Hosts
  <2>3. r = [s EXCEPT !.flow = f, !.host = h]
    BY <1>1, <1>3 DEF States
  <2> HIDE DEF f, h
  <2>4. /\ r \in States /\ r.flow = f /\ r.host = h /\ r.boxes = s.boxes /\ r.kernel = s.kernel
        /\ r.tcb = s.tcb /\ r.guest = s.guest /\ r.nic = s.nic
    BY <1>1, <2>1, <2>2, <2>3 DEF States
  <2>5. Len(s.host.got) = s.tcb.taken
    <3>1. PICK had, t : had = s.host.got /\ t = s.tcb.taken
      OBVIOUS
    <3>2. had \in Tcp!Bytes /\ t \in Nat /\ Covered(had, <<>>, <<>>, <<>>, t)
      BY <1>1, <1>3, <3>1, FieldsOk DEF RestInv
    <3>3. Len(had) \in Nat /\ Len(<<>>) = 0
      BY <3>2, Lengths, Nothing
    <3>4. Len(had) = t
      BY <3>2, <3>3 DEF Covered
    <3> QED  BY <3>1, <3>4
  <2>6. s.tcb.peerFin
    BY <1>1, <1>3 DEF FinInv
  <2>7. BoxInv(r)
    BY <1>1, <1>3, <2>1, <2>4 DEF BoxInv
  <2>8. GotInv(r) /\ RestInv(r)
    BY <1>1, <1>3, <2>1, <2>2, <2>4, <2>5, <2>6 DEF GotInv, RestInv
  <2>9. FinInv(r) /\ ListInv(r) /\ KeptInv(r)
    BY <1>1, <1>3, <2>1, <2>4, <2>6 DEF FinInv, ListInv, KeptInv
  <2> QED  BY <2>1, <2>4, <2>7, <2>8, <2>9 DEF Sound
<1> DEFINE n == IF Len(s.flow.queue) < Chunk THEN Len(s.flow.queue) ELSE Chunk
           a == SubSeq(s.flow.queue, 1, n)
           b == SubSeq(s.flow.queue, n + 1, Len(s.flow.queue))
<1>4. CASE s.flow.connected /\ s.flow.inflight = <<>> /\ s.flow.queue # <<>>
           /\ r = [s EXCEPT !.flow.inflight = a, !.flow.queue = b, !.boxes["sendOp"] = "flow",
                            !.kernel = @ \cup {"send"}]
  <2> DEFINE f == [s.flow EXCEPT !.inflight = a, !.queue = b]
             x == [s.boxes EXCEPT !["sendOp"] = "flow"]
             k == s.kernel \cup {"send"}
  <2>1. s.flow.queue \in Tcp!Bytes /\ Len(s.flow.queue) \in Nat /\ Len(s.flow.queue) # 0 /\ Chunk \in Nat /\ Chunk # 0
    BY <1>1, <1>4, FieldsOk, Lengths DEF Tcp!NatFlowAssumption
  <2>2. n \in 0 .. Len(s.flow.queue) /\ n # 0
    BY <2>1
  <2> HIDE DEF n
  <2>3. a \in Tcp!Bytes /\ b \in Tcp!Bytes /\ Len(a) = n
    BY <2>1, <2>2, TakeSome
  <2>4. a # <<>>
    BY <2>2, <2>3, Lengths
  <2>5. Held(s.host.got, a, s.tcb.taken) /\ Covered(s.host.got, a, b, s.tcb.in, s.tcb.taken)
    <3>1. PICK had, queue, in, t : had = s.host.got /\ queue = s.flow.queue /\ in = s.tcb.in /\ t = s.tcb.taken
      OBVIOUS
    <3>2. /\ had \in Tcp!Bytes /\ queue \in Tcp!Bytes /\ in \in Tcp!Bytes /\ t \in Nat /\ n \in 0 .. Len(queue)
          /\ Held(had, <<>>, t) /\ Covered(had, <<>>, queue, in, t)
      BY <1>1, <1>4, <2>2, <3>1, FieldsOk DEF GotInv, RestInv
    <3>3. /\ Held(had, SubSeq(queue, 1, n), t)
          /\ Covered(had, SubSeq(queue, 1, n), SubSeq(queue, n + 1, Len(queue)), in, t)
      BY <3>2, Posted
    <3> QED  BY <3>1, <3>3
  <2>6. r = [s EXCEPT !.flow = f, !.boxes = x, !.kernel = k]
    <3> HIDE DEF a, b
    <3> QED  BY <1>1, <1>4 DEF States
  <2> HIDE DEF a, b
  <2>7. /\ f \in Flows /\ f.st = "live" /\ f.inflight = a /\ f.queue = b /\ f.want = s.flow.want
        /\ f.blocked = s.flow.blocked /\ f.syn = s.flow.syn
    BY <1>1, <2>3, FieldsOk DEF Flows
  <2>8. x \in Boxes /\ x["sendOp"] = "flow" /\ x["tcb"] = s.boxes["tcb"] /\ x["op"] = s.boxes["op"]
    BY <1>1, FieldsOk DEF Boxes, Tcp!Homes
  <2>9. k \in SUBSET Ops /\ "send" \in k
    BY <1>1, FieldsOk DEF Ops
  <2> HIDE DEF f, x, k
  <2>10. /\ r \in States /\ r.flow = f /\ r.boxes = x /\ r.kernel = k /\ r.tcb = s.tcb /\ r.guest = s.guest
         /\ r.nic = s.nic /\ r.host = s.host
    BY <1>1, <2>6, <2>7, <2>8, <2>9 DEF States
  <2>11. BoxInv(r)
    BY <1>1, <2>4, <2>7, <2>8, <2>9, <2>10 DEF BoxInv
  <2>12. GotInv(r) /\ RestInv(r)
    BY <1>1, <2>5, <2>7, <2>10 DEF GotInv, RestInv
  <2>13. FinInv(r) /\ ListInv(r) /\ KeptInv(r)
    BY <1>1, <1>4, <2>7, <2>10 DEF FinInv, ListInv, KeptInv, Tcp!PeerClosed
  <2> QED  BY <2>7, <2>10, <2>11, <2>12, <2>13 DEF Sound
<1> QED  BY <1>2, <1>3, <1>4 DEF Tcp!PumpSend

LEMMA PostKeeps ==
  ASSUME NEW s, Sound(s), s.flow.st = "live", RestInv(s), NEW r, r = Tcp!MaybePostRecv(s)
  PROVE  /\ Sound(r) /\ RestInv(r) /\ r.flow.st = "live"
         /\ r.tcb = s.tcb /\ r.guest = s.guest /\ r.nic = s.nic
<1>1. s \in States /\ BoxInv(s) /\ GotInv(s) /\ FinInv(s) /\ ListInv(s) /\ (s.flow.connected => ~s.flow.syn)
  BY DEF Sound, KeptInv
<1>2. CASE r = s
  BY <1>2
<1>3. CASE s.flow.connected /\ r = [s EXCEPT !.kernel = @ \cup {"recv"}]
  <2>1. s.kernel \cup {"recv"} \in SUBSET Ops
    BY <1>1, FieldsOk DEF Ops
  <2>2. /\ r \in States /\ r.flow = s.flow /\ r.boxes = s.boxes /\ r.kernel = s.kernel \cup {"recv"}
        /\ r.tcb = s.tcb /\ r.guest = s.guest /\ r.nic = s.nic /\ r.host = s.host
    BY <1>1, <1>3, <2>1 DEF States
  <2> QED  BY <1>1, <1>3, <2>2 DEF Sound, BoxInv, GotInv, FinInv, ListInv, KeptInv, Tcp!PeerClosed,
              RestInv
<1> QED  BY <1>2, <1>3 DEF Tcp!MaybePostRecv, Tcp!WouldRecv

\* tcp_drive.
LEMMA DriveSettles ==
  ASSUME Tcp!NatFlowAssumption, NEW s, Sound(s), RestInv(s), ToldInv(s), EndInv(s), SynInv(s),
         NEW c, NEW r, r = Tcp!TcpDrive(s, c)
  PROVE  Settled(r)
<1>1. CASE s.flow.st # "live"
  <2>1. r = s
    BY <1>1 DEF Tcp!TcpDrive
  <2> QED  BY <1>1, <2>1 DEF Settled, Whole, WokenInv
<1>2. CASE s.flow.st = "live"
  <2>1. PICK d, e : d = Tcp!Drain(s) /\ e = Tcp!Egress(d, c = "fills")
    OBVIOUS
  <2>2. PICK w : w = IF Tcp!PeerClosed(e) /\ ~e.flow.done THEN [e EXCEPT !.flow.want = TRUE] ELSE e
    OBVIOUS
  <2>3. PICK p, q : p = Tcp!PumpSend(w) /\ q = Tcp!MaybePostRecv(p)
    OBVIOUS
  <2>4. r = IF e.tcb.st = "Closed" THEN Tcp!BeginTeardown(w)
            ELSE IF c = "send" /\ Tcp!WouldSend(w) THEN Tcp!AbortFlow(w)
            ELSE IF c = "recv" /\ Tcp!WouldRecv(p) THEN Tcp!AbortFlow(p)
            ELSE IF Tcp!Lingering(q) THEN Tcp!BeginTeardown(q)
            ELSE q
    BY <1>2, <2>1, <2>2, <2>3 DEF Tcp!TcpDrive
  <2>5. s \in States
    BY DEF Sound
  <2>6. /\ Sound(d) /\ Calm(d, s) /\ RestInv(d) /\ d.guest = s.guest /\ d.tcb.staged = s.tcb.staged
        /\ (d.flow.queue = <<>> => d.tcb.in = <<>>)
    BY <1>2, <2>1, <2>5, DrainKeeps
  <2>7. d.flow.st = "live"
    BY <1>2, <2>6 DEF Calm
  <2>8. /\ Sound(e) /\ Calm(e, d) /\ RestInv(e) /\ Answered(e, d) /\ e.tcb.staged = {}
        /\ e.flow.queue = d.flow.queue /\ e.tcb.in = d.tcb.in
        /\ (e.tcb.out > 0 \/ e.tcb.fin = "queued" => e.nic.listed /\ e.nic.full)
    BY <2>1, <2>6, <2>7, EgressKeeps
  <2>9. e.flow.st = "live" /\ e.tcb.st = s.tcb.st
    BY <2>6, <2>7, <2>8 DEF Calm
  <2>10. e.tcb.st \in {"Closed", "TimeWait"} /\ e.guest.st \in {"syn", "open"} => e.guest.lost
    <3> SUFFICES ASSUME e.tcb.st \in {"Closed", "TimeWait"}, e.guest.st \in {"syn", "open"}
                 PROVE  e.guest.lost
      OBVIOUS
    <3>1. e.guest.st = s.guest.st /\ (e.guest.lost = s.guest.lost \/ "synack" \in s.tcb.staged)
      BY <2>6, <2>8 DEF Answered
    <3>2. "synack" \notin s.tcb.staged
      BY <2>9 DEF SynInv
    <3>3. s.guest.lost
      BY <1>2, <2>9, <3>1 DEF EndInv
    <3> QED  BY <3>1, <3>2, <3>3
  <2>11. /\ Sound(w) /\ RestInv(w) /\ w.flow.st = "live" /\ w.flow.queue = e.flow.queue
         /\ w.tcb = e.tcb /\ w.guest = e.guest /\ w.nic = e.nic
    <3>1. e \in States /\ BoxInv(e) /\ GotInv(e) /\ FinInv(e) /\ ListInv(e) /\ KeptInv(e)
      BY <2>8 DEF Sound
    <3>2. CASE w = e
      BY <2>8, <2>9, <3>2
    <3>3. CASE Tcp!PeerClosed(e) /\ w = [e EXCEPT !.flow.want = TRUE]
      <4> DEFINE f == [e.flow EXCEPT !.want = TRUE]
      <4>1. /\ f \in Flows /\ f.st = "live" /\ f.inflight = e.flow.inflight /\ f.queue = e.flow.queue
            /\ f.blocked = e.flow.blocked /\ f.syn = e.flow.syn /\ f.connected = e.flow.connected
        BY <2>9, <3>1, FieldsOk DEF Flows
      <4>2. w = [e EXCEPT !.flow = f]
        BY <3>1, <3>3 DEF States
      <4> HIDE DEF f
      <4>3. /\ w \in States /\ w.flow = f /\ w.boxes = e.boxes /\ w.kernel = e.kernel /\ w.host = e.host
            /\ w.tcb = e.tcb /\ w.guest = e.guest /\ w.nic = e.nic
        BY <3>1, <4>1, <4>2 DEF States
      <4>4. BoxInv(w)
        BY <2>9, <3>1, <4>1, <4>3 DEF BoxInv
      <4>5. GotInv(w) /\ RestInv(w)
        BY <2>8, <2>9, <3>1, <4>1, <4>3 DEF GotInv, RestInv
      <4>6. FinInv(w) /\ ListInv(w)
        BY <3>1, <3>3, <4>1, <4>3 DEF FinInv, ListInv
      <4>7. KeptInv(w)
        BY <2>9, <3>1, <4>1, <4>3 DEF KeptInv
      <4> QED  BY <4>1, <4>3, <4>4, <4>5, <4>6, <4>7 DEF Sound
    <3> QED  BY <2>2, <3>2, <3>3
  <2>12. CASE e.tcb.st = "Closed"
    <3>1. r = Tcp!BeginTeardown(w) /\ SynInv(w) /\ (w.guest.st \in {"syn", "open"} => w.guest.lost)
      BY <2>4, <2>8, <2>10, <2>11, <2>12 DEF SynInv
    <3> QED  BY <2>11, <3>1, TeardownSettles
  <2>13. CASE e.tcb.st # "Closed"
    <3>1. SynInv(w)
      BY <2>8, <2>11 DEF SynInv
    <3>2. CASE r = Tcp!AbortFlow(w)
      BY <2>11, <3>1, <3>2, AbortSettles
    <3>3. w.flow.queue = <<>> => w.tcb.in = <<>>
      BY <2>6, <2>8, <2>11
    <3>4. /\ Sound(p) /\ RestInv(p) /\ p.flow.st = "live" /\ p.tcb = w.tcb /\ p.guest = w.guest /\ p.nic = w.nic
      BY <2>3, <2>11, <3>3, PumpKeeps
    <3>5. CASE r = Tcp!AbortFlow(p)
      BY <3>1, <3>4, <3>5, AbortSettles DEF SynInv
    <3>6. /\ Sound(q) /\ RestInv(q) /\ q.flow.st = "live" /\ q.tcb = e.tcb /\ q.guest = e.guest /\ q.nic = e.nic
      BY <2>3, <2>11, <3>4, PostKeeps
    <3>7. SynInv(q)
      BY <2>8, <3>6 DEF SynInv
    <3>8. CASE Tcp!Lingering(q) /\ r = Tcp!BeginTeardown(q)
      <4>1. q.tcb.st = "TimeWait"
        BY <3>8 DEF Tcp!Lingering
      <4>2. q.guest.st \in {"syn", "open"} => q.guest.lost
        BY <2>10, <3>6, <4>1
      <4> QED  BY <3>6, <3>7, <3>8, <4>2, TeardownSettles
    <3>9. CASE r = q
      <4>1. ToldInv(q) /\ EndInv(q)
        BY <2>10, <3>6 DEF ToldInv, EndInv
      <4>2. WokenInv(q)
        BY <2>8, <2>13, <3>6 DEF WokenInv
      <4> QED  BY <3>6, <3>7, <3>9, <4>1, <4>2 DEF Settled, Whole
    <3> QED  BY <2>4, <2>13, <3>2, <3>5, <3>8, <3>9
  <2> QED  BY <2>12, <2>13
<1> QED  BY <1>1, <1>2

-----------------------------------------------------------------------------
(* From the state a step hands over to the next state                      *)

LEMMA BecomeIs ==
  ASSUME NEW s \in States, Tcp!Become(s)
  PROVE  Tcp!State' = s
BY DEF Tcp!Become, Tcp!State, States

LEMMA StateIs ==
  /\ Tcp!State.flow = flow /\ Tcp!State.tcb = tcb /\ Tcp!State.boxes = boxes /\ Tcp!State.kernel = kernel
  /\ Tcp!State.host = host /\ Tcp!State.guest = guest /\ Tcp!State.nic = nic
BY DEF Tcp!State

LEMMA RestStep ==
  ASSUME ~stopped, NEW s, Settled(s), Tcp!Rest(s)
  PROVE  FlowInv'
<1>1. s \in States /\ Tcp!Become(s) /\ stopped' = stopped
  BY DEF Settled, Whole, Sound, Tcp!Rest
<1>2. Tcp!State' = s
  BY <1>1, BecomeIs
<1>3. Settled(Tcp!State)'
  BY <1>2
<1> QED  BY <1>1, <1>3 DEF FlowInv

LEMMA DriveStep ==
  ASSUME Tcp!NatFlowAssumption, ~stopped, NEW s, Whole(s), Tcp!Drive(s)
  PROVE  FlowInv'
<1>1. PICK c : Tcp!Become(Tcp!TcpDrive(s, c)) /\ stopped' = stopped
  BY DEF Tcp!Drive
<1>2. PICK r : r = Tcp!TcpDrive(s, c)
  OBVIOUS
<1>3. Settled(r)
  BY <1>2, DriveSettles DEF Whole
<1>4. Tcp!Rest(r)
  BY <1>1, <1>2 DEF Tcp!Rest
<1> QED  BY <1>3, <1>4, RestStep

LEMMA PartsAre ==
  ASSUME NEW f \in Flows, NEW c \in Tcbs, NEW b \in Boxes, NEW k \in SUBSET Ops, NEW h \in Hosts,
         NEW g \in Guests, NEW n \in Nics,
         NEW s, s = [flow |-> f, tcb |-> c, boxes |-> b, kernel |-> k, host |-> h, guest |-> g, nic |-> n]
  PROVE  /\ s \in States /\ s.flow = f /\ s.tcb = c /\ s.boxes = b /\ s.kernel = k /\ s.host = h
         /\ s.guest = g /\ s.nic = n
BY DEF States

\* A step of the guest or of its TCB that moves no bytes.
With(z, c, g) == [z EXCEPT !.tcb = c, !.guest = g]
Fits(z, c, g) ==
  /\ c.taken = z.tcb.taken /\ c.in = z.tcb.in /\ (z.tcb.peerFin => c.peerFin)
  /\ c.st \in {"CloseWait", "LastAck", "TimeWait"} => c.peerFin
  /\ "synack" \in c.staged => c.st = "SynRcvd"
  /\ z.flow.st = "live" => c.st = z.tcb.st \/ ~z.flow.syn
  /\ g.st \in {"syn", "open"} /\ (z.flow.st # "live" \/ c.st \in {"Closed", "TimeWait"}) => g.lost

LEMMA WithIs ==
  ASSUME NEW z \in States, NEW c \in Tcbs, NEW g \in Guests, NEW s, s = With(z, c, g)
  PROVE  /\ s \in States /\ s.flow = z.flow /\ s.tcb = c /\ s.guest = g /\ s.nic = z.nic
         /\ s.boxes = z.boxes /\ s.kernel = z.kernel /\ s.host = z.host
BY DEF States, With

LEMMA TcbGuest ==
  ASSUME NEW z, Whole(z), NEW c \in Tcbs, NEW g \in Guests, NEW s, s = With(z, c, g),
         Fits(z, c, g)
  PROVE  Whole(s)
<1>1. z \in States /\ BoxInv(z) /\ GotInv(z) /\ FinInv(z) /\ ListInv(z) /\ KeptInv(z) /\ RestInv(z)
  BY DEF Whole, Sound
<1>2. /\ s \in States /\ s.flow = z.flow /\ s.tcb = c /\ s.guest = g /\ s.nic = z.nic
      /\ s.boxes = z.boxes /\ s.kernel = z.kernel /\ s.host = z.host
  BY <1>1, WithIs
<1>3. BoxInv(s) /\ ListInv(s) /\ KeptInv(s)
  BY <1>1, <1>2 DEF BoxInv, ListInv, KeptInv, Fits
<1>4. GotInv(s) /\ RestInv(s)
  BY <1>1, <1>2 DEF GotInv, RestInv, Fits
<1>5. FinInv(s) /\ SynInv(s) /\ ToldInv(s) /\ EndInv(s)
  BY <1>1, <1>2 DEF Fits, FinInv, SynInv, ToldInv, EndInv, Tcp!PeerClosed
<1> QED  BY <1>2, <1>3, <1>4, <1>5 DEF Whole, Sound

LEMMA GuestOnly ==
  ASSUME NEW z, Whole(z), NEW g \in Guests, NEW s, s = [z EXCEPT !.guest = g],
         g.st \in {"syn", "open"} /\ (z.flow.st # "live" \/ z.tcb.st \in {"Closed", "TimeWait"}) => g.lost
  PROVE  Whole(s) /\ s.flow = z.flow /\ s.tcb = z.tcb /\ s.guest = g /\ s.nic = z.nic
<1>1. z \in States /\ FinInv(z) /\ SynInv(z)
  BY DEF Whole, Sound
<1>2. PICK c : c = z.tcb
  OBVIOUS
<1>3. c \in Tcbs /\ s = With(z, c, g)
  BY <1>1, <1>2, FieldsOk DEF States, With
<1>4. Fits(z, c, g)
  BY <1>1, <1>2 DEF Fits, FinInv, SynInv, Tcp!PeerClosed
<1>5. g \in Guests /\ Whole(z)
  OBVIOUS
<1>6. Whole(s) /\ s.flow = z.flow /\ s.tcb = c /\ s.guest = g /\ s.nic = z.nic
  BY ONLY <1>1, <1>3, <1>4, <1>5, TcbGuest, WithIs
<1> QED  BY ONLY <1>2, <1>6

LEMMA Dequeued ==
  ASSUME NEW z, Whole(z), NEW o \in {"connect", "recv"}, NEW s, s = [z EXCEPT !.kernel = @ \ {o}]
  PROVE  /\ Whole(s) /\ s.flow = z.flow /\ s.tcb = z.tcb /\ s.guest = z.guest /\ s.nic = z.nic
         /\ s.host = z.host /\ s.boxes = z.boxes /\ s.kernel = z.kernel \ {o}
<1>1. z \in States /\ BoxInv(z) /\ GotInv(z) /\ FinInv(z) /\ ListInv(z) /\ KeptInv(z) /\ RestInv(z)
  BY DEF Whole, Sound
<1>2. z.kernel \ {o} \in SUBSET Ops
  BY <1>1, FieldsOk
<1>3. /\ s \in States /\ s.flow = z.flow /\ s.tcb = z.tcb /\ s.guest = z.guest /\ s.nic = z.nic
      /\ s.boxes = z.boxes /\ s.kernel = z.kernel \ {o} /\ s.host = z.host
  BY <1>1, <1>2 DEF States
<1>4. BoxInv(s) /\ ListInv(s) /\ KeptInv(s)
  BY <1>1, <1>3 DEF BoxInv, ListInv, KeptInv
<1>5. GotInv(s) /\ RestInv(s) /\ FinInv(s) /\ SynInv(s) /\ ToldInv(s) /\ EndInv(s)
  BY <1>1, <1>3 DEF GotInv, RestInv, FinInv, SynInv, ToldInv, EndInv, Tcp!PeerClosed, Whole
<1> QED  BY <1>3, <1>4, <1>5 DEF Whole, Sound

-----------------------------------------------------------------------------
(* The guest's steps                                                       *)

LEMMA Unpacked ==
  ASSUME FlowInv, ~stopped, NEW z, z = Tcp!State
  PROVE  /\ Settled(z) /\ Whole(z) /\ Sound(z) /\ z \in States /\ BoxInv(z) /\ GotInv(z) /\ FinInv(z)
         /\ ListInv(z) /\ KeptInv(z) /\ RestInv(z) /\ ToldInv(z) /\ EndInv(z) /\ SynInv(z) /\ WokenInv(z)
         /\ z.flow = flow /\ z.tcb = tcb /\ z.boxes = boxes /\ z.kernel = kernel
         /\ z.host = host /\ z.guest = guest /\ z.nic = nic
         /\ flow \in Flows /\ tcb \in Tcbs /\ guest \in Guests /\ host \in Hosts /\ nic \in Nics
         /\ boxes \in Boxes /\ kernel \in SUBSET Ops
<1>1. Settled(z) /\ Whole(z) /\ Sound(z) /\ z \in States
  BY DEF FlowInv, Settled, Whole, Sound
<1>2. /\ z.flow = flow /\ z.tcb = tcb /\ z.boxes = boxes /\ z.kernel = kernel
      /\ z.host = host /\ z.guest = guest /\ z.nic = nic
  BY StateIs
<1> QED  BY <1>1, <1>2, FieldsOk DEF Settled, Whole, Sound

LEMMA Fresh ==
  ASSUME NEW st \in Tcp!TcbStates, Tcp!NatFlowAssumption
  PROVE  /\ Tcp!FreshTcb(st) \in Tcbs /\ Tcp!FreshTcb(st).st = st /\ Tcp!FreshTcb(st).taken = 0 /\ Tcp!FreshTcb(st).in = <<>>
         /\ Tcp!FreshTcb(st).peerFin = FALSE /\ Tcp!FreshTcb(st).out = 0 /\ Tcp!FreshTcb(st).fin = "none"
         /\ Tcp!FreshTcb(st).staged = {}
         /\ Held(<<>>, <<>>, 0) /\ Covered(<<>>, <<>>, <<>>, <<>>, 0) /\ 0 <= MaxSent
<1>1. <<>> \in Tcp!Bytes /\ Len(<<>>) = 0 /\ \A k : Run(<<>>, k)
  BY Nothing
<1>2. Held(<<>>, <<>>, 0) /\ Covered(<<>>, <<>>, <<>>, <<>>, 0) /\ 0 <= MaxSent
  BY <1>1 DEF Held, Covered, Tcp!NatFlowAssumption
<1>3. Tcp!FreshTcb(st) = [st |-> st, taken |-> 0, in |-> <<>>, peerFin |-> FALSE,
                      out |-> 0, fin |-> "none", staged |-> {}, reset |-> FALSE]
  BY DEF Tcp!FreshTcb
<1>4. Tcp!FreshTcb(st) \in Tcbs
  BY <1>1, <1>3 DEF Tcbs
<1> QED  BY <1>2, <1>3, <1>4

LEMMA SynStep ==
  ASSUME Tcp!NatFlowAssumption, FlowInv, ~stopped, Tcp!GuestSyn
  PROVE  FlowInv'
<1>1. PICK z : z = Tcp!State
  OBVIOUS
<1> DEFINE kept == flow.st = "live" /\ (flow.syn \/ tcb.st = "SynRcvd")
           g == [st |-> "syn", conns |-> IF guest.st = "syn" THEN guest.conns ELSE guest.conns + 1,
                 lost |-> flow.st # "none" /\ ~kept]
           s == [Tcp!State EXCEPT !.guest = [st |-> "syn", conns |-> IF @.st = "syn" THEN @.conns ELSE @.conns + 1,
                                         lost |-> flow.st # "none" /\ ~kept]]
<1>2. g \in Guests /\ g.st = "syn" /\ (g.lost <=> flow.st # "none" /\ ~kept)
  <2>1. guest.conns \in Nat
    BY <1>1, Unpacked DEF Guests
  <2>2. (flow.st # "none" /\ ~kept) \in BOOLEAN
    BY Zenon
  <2> HIDE DEF kept
  <2>3. (IF guest.st = "syn" THEN guest.conns ELSE guest.conns + 1) \in Nat
    BY <2>1
  <2> QED  BY <2>2, <2>3 DEF Guests
<1>3. s = [z EXCEPT !.guest = g]
  BY <1>1, Unpacked DEF States
<1>4. IF flow.st = "none" THEN Tcp!Rest(Tcp!OpenTcpFlow(s))
      ELSE IF flow.st = "live" /\ ~flow.syn THEN Tcp!Drive(s) ELSE Tcp!Rest(s)
  BY DEF Tcp!GuestSyn
<1> HIDE DEF g, s
<1>5. /\ Settled(z) /\ Whole(z) /\ z \in States /\ BoxInv(z) /\ KeptInv(z) /\ WokenInv(z) /\ ListInv(z)
      /\ z.flow = flow /\ z.tcb = tcb /\ z.boxes = boxes /\ z.kernel = kernel /\ z.host = host /\ z.nic = nic
      /\ flow \in Flows /\ tcb \in Tcbs /\ host \in Hosts /\ nic \in Nics /\ boxes \in Boxes
  BY <1>1, Unpacked
<1>6. CASE flow.st = "none"
  <2> DEFINE f == [Tcp!NoFlow EXCEPT !.st = "live", !.syn = TRUE]
             c == Tcp!FreshTcb("Listen")
             b == [x \in DOMAIN boxes |-> "flow"]
             k == kernel \cup {"connect"}
             h == [host EXCEPT !.st = "dialing", !.got = <<>>, !.shut = FALSE]
             t == Tcp!OpenTcpFlow(s)
  <2>1. Tcp!Rest(t)
    BY <1>4, <1>6
  <2>2. kernel = {}
    BY <1>5, <1>6 DEF BoxInv
  <2>3. /\ f \in Flows /\ f.st = "live" /\ f.queue = <<>> /\ f.inflight = <<>> /\ f.want = FALSE
        /\ f.blocked = FALSE /\ f.connected = FALSE /\ f.syn = TRUE
    BY Nothing DEF Tcp!NoFlow, Flows
  <2>4. /\ c \in Tcbs /\ c.st = "Listen" /\ c.taken = 0 /\ c.in = <<>> /\ c.peerFin = FALSE /\ c.out = 0
        /\ c.fin = "none" /\ c.staged = {}
        /\ Held(<<>>, <<>>, 0) /\ Covered(<<>>, <<>>, <<>>, <<>>, 0) /\ 0 <= MaxSent
    BY Fresh DEF Tcp!TcbStates
  <2>5. b \in Boxes /\ b["tcb"] = "flow" /\ b["op"] = "flow"
    BY <1>5 DEF Boxes, Tcp!Homes
  <2>6. k \in SUBSET Ops /\ k = {"connect"}
    BY <2>2 DEF Ops
  <2>7. h \in Hosts /\ h.got = <<>> /\ h.shut = FALSE
    BY <1>5, Nothing DEF Hosts
  <2>8. t = [flow |-> f, tcb |-> c, boxes |-> b, kernel |-> k, host |-> h, guest |-> g, nic |-> nic]
    <3>1. s = [flow |-> flow, tcb |-> tcb, boxes |-> boxes, kernel |-> kernel, host |-> host, guest |-> g, nic |-> nic]
      BY <1>3, <1>5 DEF States
    <3>2. s.kernel = kernel /\ s.host = host
      BY <3>1
    <3>3. t = [s EXCEPT !.flow = f, !.tcb = c, !.boxes = b, !.kernel = k, !.host = h]
      BY <3>2 DEF Tcp!OpenTcpFlow
    <3> HIDE DEF f, c, b, k, h, t
    <3> QED  BY <3>1, <3>3
  <2> HIDE DEF f, c, b, k, h, t
  <2>9. /\ t \in States /\ t.flow = f /\ t.tcb = c /\ t.boxes = b /\ t.kernel = k /\ t.host = h /\ t.nic = nic
    BY <1>2, <1>5, <2>3, <2>4, <2>5, <2>6, <2>7, <2>8, PartsAre
  <2>10. BoxInv(t) /\ ListInv(t) /\ KeptInv(t) /\ FinInv(t)
    BY <2>3, <2>4, <2>5, <2>6, <2>9 DEF BoxInv, ListInv, KeptInv, FinInv, Tcp!PeerClosed
  <2>11. GotInv(t) /\ RestInv(t)
    BY <2>3, <2>4, <2>7, <2>9 DEF GotInv, RestInv
  <2>12. SynInv(t) /\ ToldInv(t) /\ EndInv(t)
    BY <2>3, <2>4, <2>9 DEF SynInv, ToldInv, EndInv
  <2>13. WokenInv(t)
    BY <2>4, <2>9 DEF WokenInv
  <2>14. Settled(t)
    BY <2>9, <2>10, <2>11, <2>12, <2>13 DEF Settled, Whole, Sound
  <2> QED  BY <2>1, <2>14, RestStep
<1>7. CASE flow.st # "none"
  <2>1. g.st \in {"syn", "open"} /\ (z.flow.st # "live" \/ z.tcb.st \in {"Closed", "TimeWait"}) => g.lost
    BY <1>2, <1>5, <1>7 DEF KeptInv
  <2>2. Whole(s) /\ s.flow = z.flow /\ s.tcb = z.tcb /\ s.nic = z.nic
    BY <1>2, <1>3, <1>5, <2>1, GuestOnly
  <2>3. WokenInv(s)
    BY <1>5, <2>2 DEF WokenInv
  <2>4. Tcp!Drive(s) \/ Tcp!Rest(s)
    BY <1>4, <1>7
  <2> QED  BY <2>2, <2>3, <2>4, DriveStep, RestStep DEF Settled
<1> QED  BY <1>6, <1>7

LEMMA RefuseStep ==
  ASSUME Tcp!NatFlowAssumption, FlowInv, ~stopped, Tcp!RefuseSyn
  PROVE  FlowInv'
<1>1. PICK z : z = Tcp!State
  OBVIOUS
<1> DEFINE g == [st |-> "reset", conns |-> guest.conns + 1, lost |-> FALSE]
           s == [Tcp!State EXCEPT !.guest = [st |-> "reset", conns |-> @.conns + 1, lost |-> FALSE]]
<1>2. g \in Guests /\ g.st = "reset"
  BY <1>1, Unpacked DEF Guests
<1>3. s = [z EXCEPT !.guest = g]
  BY <1>1, Unpacked DEF States
<1>4. Tcp!Rest(s)
  BY DEF Tcp!RefuseSyn
<1> HIDE DEF g, s
<1>5. Whole(s) /\ s.flow = z.flow /\ s.tcb = z.tcb /\ s.nic = z.nic
  BY <1>1, <1>2, <1>3, Unpacked, GuestOnly
<1>6. WokenInv(s)
  BY <1>1, <1>5, Unpacked DEF WokenInv
<1> QED  BY <1>4, <1>5, <1>6, RestStep DEF Settled

LEMMA RstStep ==
  ASSUME Tcp!NatFlowAssumption, FlowInv, ~stopped, Tcp!GuestRst
  PROVE  FlowInv'
<1>1. PICK z : z = Tcp!State
  OBVIOUS
<1> DEFINE g == [guest EXCEPT !.st = "idle", !.lost = FALSE]
           c == [tcb EXCEPT !.st = "Closed", !.reset = TRUE, !.out = 0, !.fin = "none", !.staged = {}]
           s == [Tcp!State EXCEPT !.guest = [@ EXCEPT !.st = "idle", !.lost = FALSE]]
           t == [s EXCEPT !.tcb = [@ EXCEPT !.st = "Closed", !.reset = TRUE, !.out = 0, !.fin = "none", !.staged = {}]]
<1>2. g \in Guests /\ g.st = "idle"
  BY <1>1, Unpacked DEF Guests
<1>3. /\ c \in Tcbs /\ c.st = "Closed" /\ c.taken = tcb.taken /\ c.in = tcb.in /\ c.peerFin = tcb.peerFin
      /\ c.staged = {}
  BY <1>1, Unpacked DEF Tcbs, Tcp!TcbStates
<1>4. s = [z EXCEPT !.guest = g] /\ t = With(z, c, g)
  BY <1>1, Unpacked DEF States, With
<1>5. IF flow.syn THEN Tcp!Rest(Tcp!BeginTeardown(s))
      ELSE IF tcb.st \in {"Closed", "TimeWait", "Listen"} THEN Tcp!Rest(s) ELSE Tcp!Drive(t)
  BY DEF Tcp!GuestRst
<1> HIDE DEF g, c, s, t
<1>6. /\ Whole(z) /\ BoxInv(z) /\ WokenInv(z) /\ z.flow = flow /\ z.tcb = tcb /\ z.nic = nic /\ flow \in Flows
  BY <1>1, Unpacked
<1>7. Whole(s) /\ s.flow = z.flow /\ s.tcb = z.tcb /\ s.guest = g /\ s.nic = z.nic
  BY <1>2, <1>4, <1>6, GuestOnly
<1>8. CASE flow.syn
  <2>1. s.flow.st # "none"
    BY <1>6, <1>7, <1>8 DEF BoxInv, Tcp!NoFlow
  <2>2. PICK r : r = Tcp!BeginTeardown(s)
    OBVIOUS
  <2>3. Settled(r)
    BY <1>2, <1>7, <2>1, <2>2, TeardownSettles DEF Whole
  <2> QED  BY <1>5, <1>8, <2>2, <2>3, RestStep
<1>9. CASE ~flow.syn /\ tcb.st \in {"Closed", "TimeWait", "Listen"}
  <2>1. Settled(s)
    BY <1>6, <1>7 DEF Settled, WokenInv
  <2> QED  BY <1>5, <1>9, <2>1, RestStep
<1>10. CASE ~flow.syn /\ tcb.st \notin {"Closed", "TimeWait", "Listen"}
  <2>1. Fits(z, c, g)
    BY <1>2, <1>3, <1>6, <1>10 DEF Fits
  <2>2. Whole(t)
    BY <1>2, <1>3, <1>4, <1>6, <2>1, TcbGuest
  <2> QED  BY <1>5, <1>10, <2>2, DriveStep
<1> QED  BY <1>8, <1>9, <1>10

LEMMA EstablishStep ==
  ASSUME Tcp!NatFlowAssumption, FlowInv, ~stopped, Tcp!GuestEstablishes
  PROVE  FlowInv'
<1>1. PICK z : z = Tcp!State
  OBVIOUS
<1> DEFINE c == [tcb EXCEPT !.st = "Established"]
           g == [guest EXCEPT !.st = "open"]
           s == [Tcp!State EXCEPT !.tcb.st = "Established", !.guest.st = "open"]
<1>2. /\ Whole(z) /\ KeptInv(z) /\ WokenInv(z) /\ z.flow = flow /\ z.tcb = tcb
      /\ z \in States /\ tcb \in Tcbs /\ guest \in Guests
  BY <1>1, Unpacked
<1>3. flow.st = "live" /\ tcb.st \in {"SynRcvd", "SynSent"} /\ Tcp!Drive(s)
  BY DEF Tcp!GuestEstablishes
<1>4. /\ c \in Tcbs /\ c.st = "Established" /\ c.taken = tcb.taken /\ c.in = tcb.in /\ c.peerFin = tcb.peerFin
      /\ c.staged = tcb.staged
  BY <1>2 DEF Tcbs, Tcp!TcbStates
<1>5. g \in Guests
  BY <1>2 DEF Guests
<1>6. s = With(z, c, g)
  BY <1>1, <1>2, StateIs DEF States, With
<1> HIDE DEF c, g, s
<1>7. Fits(z, c, g)
  BY <1>2, <1>3, <1>4 DEF Fits, KeptInv, WokenInv
<1>8. Whole(s)
  BY <1>2, <1>4, <1>5, <1>6, <1>7, TcbGuest
<1> QED  BY <1>3, <1>8, DriveStep

LEMMA FinStep ==
  ASSUME Tcp!NatFlowAssumption, FlowInv, ~stopped, Tcp!GuestFin
  PROVE  FlowInv'
<1>1. PICK z : z = Tcp!State
  OBVIOUS
<1> DEFINE c == [tcb EXCEPT !.st = IF tcb.st = "FinWait" THEN "TimeWait" ELSE "CloseWait", !.peerFin = TRUE]
           g == [guest EXCEPT !.st = IF tcb.st = "FinWait" THEN "done" ELSE guest.st]
           s == [Tcp!State EXCEPT !.tcb.st = IF @ = "FinWait" THEN "TimeWait" ELSE "CloseWait",
                              !.tcb.peerFin = TRUE,
                              !.guest.st = IF tcb.st = "FinWait" THEN "done" ELSE @]
<1>2. /\ Whole(z) /\ KeptInv(z) /\ WokenInv(z) /\ z.flow = flow /\ z.tcb = tcb
      /\ z \in States /\ tcb \in Tcbs /\ guest \in Guests
  BY <1>1, Unpacked
<1>3. flow.st = "live" /\ tcb.st \in {"Established", "FinWait"} /\ Tcp!Drive(s)
  BY DEF Tcp!GuestFin
<1>4. /\ c \in Tcbs /\ c.st \in {"TimeWait", "CloseWait"} /\ (c.st = "TimeWait" <=> tcb.st = "FinWait")
      /\ c.taken = tcb.taken /\ c.in = tcb.in /\ c.peerFin = TRUE /\ c.staged = tcb.staged
  BY <1>2 DEF Tcbs, Tcp!TcbStates
<1>5. g \in Guests /\ (tcb.st = "FinWait" => g.st = "done")
  BY <1>2 DEF Guests
<1>6. s = With(z, c, g)
  <2>1. PICK x, y : x = (IF tcb.st = "FinWait" THEN "TimeWait" ELSE "CloseWait")
                    /\ y = (IF tcb.st = "FinWait" THEN "done" ELSE guest.st)
    OBVIOUS
  <2>2. z.tcb = tcb /\ z.guest = guest
    BY <1>1, StateIs
  <2>3. s = [z EXCEPT !.tcb.st = x, !.tcb.peerFin = TRUE, !.guest.st = y]
    BY <1>1, <2>1, <2>2
  <2>4. c = [tcb EXCEPT !.st = x, !.peerFin = TRUE] /\ g = [guest EXCEPT !.st = y]
    BY <2>1
  <2> HIDE DEF s, c, g
  <2> QED  BY <1>2, <2>2, <2>3, <2>4 DEF States, With
<1> HIDE DEF c, g, s
<1>7. Fits(z, c, g)
  BY <1>2, <1>3, <1>4, <1>5 DEF Fits, KeptInv, WokenInv
<1>8. Whole(s)
  BY <1>2, <1>4, <1>5, <1>6, <1>7, TcbGuest
<1> QED  BY <1>3, <1>8, DriveStep

LEMMA AcksFinStep ==
  ASSUME Tcp!NatFlowAssumption, FlowInv, ~stopped, Tcp!GuestAcksFin
  PROVE  FlowInv'
<1>1. PICK z : z = Tcp!State
  OBVIOUS
<1> DEFINE c == [tcb EXCEPT !.st = "Closed"]
           g == [guest EXCEPT !.st = "done"]
           s == [Tcp!State EXCEPT !.tcb.st = "Closed", !.guest.st = "done"]
<1>2. /\ Whole(z) /\ KeptInv(z) /\ WokenInv(z) /\ z.flow = flow /\ z.tcb = tcb
      /\ z \in States /\ tcb \in Tcbs /\ guest \in Guests
  BY <1>1, Unpacked
<1>3. flow.st = "live" /\ tcb.st = "LastAck" /\ Tcp!Drive(s)
  BY DEF Tcp!GuestAcksFin
<1>4. /\ c \in Tcbs /\ c.st = "Closed" /\ c.taken = tcb.taken /\ c.in = tcb.in /\ c.peerFin = tcb.peerFin
      /\ c.staged = tcb.staged
  BY <1>2 DEF Tcbs, Tcp!TcbStates
<1>5. g \in Guests /\ g.st = "done"
  BY <1>2 DEF Guests
<1>6. s = With(z, c, g)
  BY <1>1, <1>2, StateIs DEF States, With
<1> HIDE DEF c, g, s
<1>7. Fits(z, c, g)
  BY <1>2, <1>3, <1>4, <1>5 DEF Fits, KeptInv, WokenInv
<1>8. Whole(s)
  BY <1>2, <1>4, <1>5, <1>6, <1>7, TcbGuest
<1> QED  BY <1>3, <1>8, DriveStep

LEMMA StrayStep ==
  ASSUME Tcp!NatFlowAssumption, FlowInv, ~stopped, Tcp!ResetStray
  PROVE  FlowInv'
<1>1. PICK z : z = Tcp!State
  OBVIOUS
<1> DEFINE g == IF flow.st = "none" THEN Tcp!RstToGuest(guest) ELSE [guest EXCEPT !.lost = TRUE]
           s == [Tcp!State EXCEPT !.guest = IF flow.st = "none" THEN Tcp!RstToGuest(@) ELSE [@ EXCEPT !.lost = TRUE]]
<1>2. /\ Whole(z) /\ z.flow = flow /\ z.tcb = tcb /\ z.nic = nic /\ z \in States /\ guest \in Guests
  BY <1>1, Unpacked
<1>3. flow.st # "live" /\ Tcp!Rest(s)
  BY DEF Tcp!ResetStray
<1>4. [guest EXCEPT !.lost = TRUE] \in Guests /\ [guest EXCEPT !.lost = TRUE].lost = TRUE
  BY <1>2 DEF Guests
<1>5. g \in Guests /\ (g.st \in {"syn", "open"} => g.lost)
  BY <1>2, <1>4, RstIs
<1>6. s = [z EXCEPT !.guest = g]
  BY <1>1, <1>2, StateIs DEF States
<1> HIDE DEF g, s
<1>7. Whole(s) /\ s.flow = z.flow
  BY <1>2, <1>5, <1>6, GuestOnly
<1>8. WokenInv(s)
  BY <1>2, <1>3, <1>7 DEF WokenInv
<1> QED  BY <1>3, <1>7, <1>8, RestStep DEF Settled

LEMMA DataStep ==
  ASSUME Tcp!NatFlowAssumption, FlowInv, ~stopped, Tcp!GuestData
  PROVE  FlowInv'
<1>1. PICK z : z = Tcp!State
  OBVIOUS
<1> DEFINE i == Append(tcb.in, tcb.taken + 1)
           c == [tcb EXCEPT !.in = i, !.taken = tcb.taken + 1]
           s == [Tcp!State EXCEPT !.tcb.in = Append(@, tcb.taken + 1), !.tcb.taken = @ + 1]
<1>2. /\ Whole(z) /\ KeptInv(z) /\ BoxInv(z) /\ GotInv(z) /\ FinInv(z) /\ ListInv(z) /\ RestInv(z)
      /\ ToldInv(z) /\ EndInv(z) /\ SynInv(z) /\ z.flow = flow /\ z.tcb = tcb /\ z.guest = guest
      /\ z \in States /\ tcb \in Tcbs /\ z.host = host /\ host \in Hosts
  BY <1>1, Unpacked
<1>3. flow.st = "live" /\ ~tcb.peerFin /\ tcb.taken < MaxSent /\ Tcp!Drive(s)
  BY DEF Tcp!GuestData
<1>4. tcb.taken \in Nat /\ MaxSent \in Nat /\ tcb.in \in Tcp!Bytes
  BY <1>2 DEF Tcbs, Tcp!NatFlowAssumption
<1>5. i \in Tcp!Bytes /\ Held(z.host.got, z.flow.inflight, tcb.taken + 1)
      /\ Covered(z.host.got, z.flow.inflight, z.flow.queue, i, tcb.taken + 1)
  <2>1. PICK had, inf, queue, in, t : had = z.host.got /\ inf = z.flow.inflight /\ queue = z.flow.queue
          /\ in = tcb.in /\ t = tcb.taken
    OBVIOUS
  <2>2. had \in Tcp!Bytes /\ inf \in Tcp!Bytes /\ queue \in Tcp!Bytes /\ in \in Tcp!Bytes /\ t \in Nat
    BY <1>2, <1>4, <2>1, FieldsOk
  <2>3. Held(had, inf, t) /\ Covered(had, inf, queue, in, t) /\ t + 1 <= MaxSent
    BY <1>2, <1>3, <1>4, <2>1 DEF GotInv, RestInv
  <2>4. Append(in, t + 1) \in Tcp!Bytes /\ Covered(had, inf, queue, Append(in, t + 1), t + 1)
    BY <1>4, <2>2, <2>3, Received
  <2>5. Held(had, inf, t + 1)
    BY <2>2, <2>3, Lengths DEF Held
  <2> QED  BY <2>1, <2>4, <2>5
<1>6. s = [z EXCEPT !.tcb = c]
  BY <1>1, <1>2, StateIs DEF States
<1> HIDE DEF i
<1>7. /\ c \in Tcbs /\ c.st = tcb.st /\ c.taken = tcb.taken + 1 /\ c.in = i /\ c.peerFin = tcb.peerFin
      /\ c.staged = tcb.staged
  <2>1. PICK n \in Nat : n = tcb.taken + 1
    BY <1>4
  <2>2. c = [tcb EXCEPT !.in = i, !.taken = n]
    BY <2>1
  <2> HIDE DEF c
  <2> QED  BY <1>2, <1>5, <2>1, <2>2 DEF Tcbs
<1> HIDE DEF c, s
<1>8. /\ s \in States /\ s.flow = flow /\ s.tcb = c /\ s.guest = z.guest /\ s.nic = z.nic
      /\ s.boxes = z.boxes /\ s.kernel = z.kernel /\ s.host = z.host
  BY <1>2, <1>6, <1>7 DEF States
<1>9. BoxInv(s) /\ ListInv(s) /\ KeptInv(s)
  BY <1>2, <1>7, <1>8 DEF BoxInv, ListInv, KeptInv
<1>10. GotInv(s) /\ RestInv(s)
  <2>1. ~z.host.shut
    BY <1>2, <1>3 DEF GotInv
  <2>2. tcb.taken + 1 <= MaxSent
    BY <1>3, <1>4
  <2> QED  BY <1>2, <1>5, <1>7, <1>8, <2>1, <2>2 DEF GotInv, RestInv
<1>11. FinInv(s) /\ SynInv(s) /\ ToldInv(s) /\ EndInv(s)
  BY <1>2, <1>7, <1>8 DEF FinInv, SynInv, ToldInv, EndInv, Tcp!PeerClosed
<1>12. Whole(s)
  BY <1>8, <1>9, <1>10, <1>11 DEF Whole, Sound
<1> QED  BY <1>3, <1>12, DriveStep

-----------------------------------------------------------------------------
(* The host's completions                                                  *)

LEMMA InboundStep ==
  ASSUME Tcp!NatFlowAssumption, FlowInv, ~stopped, Tcp!NewInboundFlow
  PROVE  FlowInv'
<1>1. PICK z : z = Tcp!State
  OBVIOUS
<1> DEFINE f == [Tcp!NoFlow EXCEPT !.st = "live", !.connected = TRUE]
           c == Tcp!FreshTcb("SynSent")
           b == [x \in DOMAIN boxes |-> IF x = "sendOp" THEN "pool" ELSE "flow"]
           h == [host EXCEPT !.st = "open", !.got = <<>>, !.shut = FALSE]
           g == [st |-> "idle", conns |-> guest.conns + 1, lost |-> FALSE]
           s == [Tcp!State EXCEPT
                  !.flow = [Tcp!NoFlow EXCEPT !.st = "live", !.connected = TRUE],
                  !.tcb = Tcp!FreshTcb("SynSent"),
                  !.boxes = [x \in DOMAIN boxes |-> IF x = "sendOp" THEN "pool" ELSE "flow"],
                  !.host = [@ EXCEPT !.st = "open", !.got = <<>>, !.shut = FALSE],
                  !.guest = [st |-> "idle", conns |-> @.conns + 1, lost |-> FALSE]]
<1>2. /\ z \in States /\ BoxInv(z) /\ ListInv(z) /\ z.flow = flow /\ z.tcb = tcb /\ z.boxes = boxes /\ z.kernel = kernel
      /\ z.host = host /\ z.guest = guest /\ z.nic = nic /\ guest \in Guests /\ host \in Hosts /\ boxes \in Boxes
      /\ nic \in Nics
  BY <1>1, Unpacked
<1>3. flow.st = "none" /\ Tcp!Drive(s)
  BY DEF Tcp!NewInboundFlow
<1>4. kernel = {} /\ kernel \in SUBSET Ops
  BY <1>2, <1>3 DEF BoxInv
<1>5. /\ f \in Flows /\ f.st = "live" /\ f.queue = <<>> /\ f.inflight = <<>> /\ f.want = FALSE
      /\ f.blocked = FALSE /\ f.connected = TRUE /\ f.syn = FALSE
  BY Nothing DEF Tcp!NoFlow, Flows
<1>6. /\ c \in Tcbs /\ c.st = "SynSent" /\ c.taken = 0 /\ c.in = <<>> /\ c.peerFin = FALSE /\ c.staged = {}
      /\ Held(<<>>, <<>>, 0) /\ Covered(<<>>, <<>>, <<>>, <<>>, 0) /\ 0 <= MaxSent
  BY Fresh DEF Tcp!TcbStates
<1>7. b \in Boxes /\ b["tcb"] = "flow" /\ b["op"] = "flow"
  BY <1>2 DEF Boxes, Tcp!Homes
<1>8. h \in Hosts /\ h.got = <<>> /\ h.shut = FALSE
  BY <1>2, Nothing DEF Hosts
<1>9. g \in Guests
  <2>1. PICK n \in Nat : n = guest.conns + 1
    BY <1>2 DEF Guests
  <2> QED  BY <2>1 DEF Guests
<1>10. s = [flow |-> f, tcb |-> c, boxes |-> b, kernel |-> kernel, host |-> h, guest |-> g, nic |-> nic]
  <2>1. s = [Tcp!State EXCEPT !.flow = f, !.tcb = c, !.boxes = b, !.host = h, !.guest = g]
    BY <1>1, <1>2
  <2> HIDE DEF f, c, b, h, g, s
  <2> QED  BY <2>1 DEF Tcp!State
<1> HIDE DEF f, c, b, h, g, s
<1>11. /\ s \in States /\ s.flow = f /\ s.tcb = c /\ s.boxes = b /\ s.kernel = kernel /\ s.host = h
       /\ s.guest = g /\ s.nic = nic
  BY <1>2, <1>4, <1>5, <1>6, <1>7, <1>8, <1>9, <1>10, PartsAre
<1>12. BoxInv(s) /\ ListInv(s) /\ KeptInv(s) /\ FinInv(s)
  BY <1>4, <1>5, <1>6, <1>7, <1>11 DEF BoxInv, ListInv, KeptInv, FinInv, Tcp!PeerClosed
<1>13. GotInv(s) /\ RestInv(s)
  BY <1>5, <1>6, <1>8, <1>11 DEF GotInv, RestInv
<1>14. SynInv(s) /\ ToldInv(s) /\ EndInv(s)
  BY <1>5, <1>6, <1>11 DEF SynInv, ToldInv, EndInv
<1>15. Whole(s)
  BY <1>11, <1>12, <1>13, <1>14 DEF Whole, Sound
<1> QED  BY <1>3, <1>15, DriveStep

LEMMA ReleaseKeeps ==
  ASSUME NEW s, Whole(s), NEW r, r = Tcp!ReleaseSendOp(s)
  PROVE  Whole(r)
<1>1. /\ s \in States /\ BoxInv(s) /\ GotInv(s) /\ FinInv(s) /\ ListInv(s) /\ KeptInv(s) /\ RestInv(s)
      /\ ToldInv(s) /\ EndInv(s) /\ SynInv(s)
  BY DEF Whole, Sound
<1>2. CASE r = s
  BY <1>2
<1>3. CASE s.flow.inflight = <<>> /\ r = [s EXCEPT !.boxes["sendOp"] = "pool"]
  <2> DEFINE b == [s.boxes EXCEPT !["sendOp"] = "pool"]
  <2>1. b \in Boxes /\ b["tcb"] = s.boxes["tcb"] /\ b["op"] = s.boxes["op"]
    BY <1>1, FieldsOk DEF Boxes, Tcp!Homes
  <2>2. r = [s EXCEPT !.boxes = b]
    BY <1>1, <1>3 DEF States
  <2> HIDE DEF b
  <2>3. /\ r \in States /\ r.flow = s.flow /\ r.tcb = s.tcb /\ r.boxes = b /\ r.kernel = s.kernel
        /\ r.host = s.host /\ r.guest = s.guest /\ r.nic = s.nic
    BY <1>1, <2>1, <2>2 DEF States
  <2>4. BoxInv(r)
    BY <1>1, <1>3, <2>1, <2>3 DEF BoxInv
  <2>5. GotInv(r) /\ FinInv(r) /\ ListInv(r) /\ KeptInv(r) /\ RestInv(r) /\ ToldInv(r) /\ EndInv(r) /\ SynInv(r)
    BY <1>1, <2>3 DEF GotInv, FinInv, ListInv, KeptInv, RestInv, ToldInv, EndInv, SynInv,
       Tcp!PeerClosed
  <2> QED  BY <2>3, <2>4, <2>5 DEF Whole, Sound
<1> QED  BY <1>2, <1>3 DEF Tcp!ReleaseSendOp

LEMMA ConnectStep ==
  ASSUME Tcp!NatFlowAssumption, FlowInv, ~stopped, NEW ok \in BOOLEAN, Tcp!OnTcpConnect(ok)
  PROVE  FlowInv'
<1>1. PICK z : z = Tcp!State
  OBVIOUS
<1> DEFINE s == [Tcp!State EXCEPT !.kernel = @ \ {"connect"}]
           f == [flow EXCEPT !.syn = FALSE]
           t == [s EXCEPT !.flow.syn = FALSE, !.guest = Tcp!RstToGuest(@)]
           u == [s EXCEPT !.flow.connected = TRUE, !.flow.syn = FALSE,
                          !.tcb.st = "SynRcvd", !.tcb.staged = {"synack"}, !.host.st = "open"]
<1>2. /\ Whole(z) /\ BoxInv(z) /\ z.flow = flow /\ z.tcb = tcb /\ z.boxes = boxes /\ z.kernel = kernel
      /\ z.host = host /\ z.guest = guest /\ z.nic = nic /\ flow \in Flows /\ tcb \in Tcbs /\ host \in Hosts
      /\ guest \in Guests
  BY <1>1, Unpacked
<1>3. /\ "connect" \in kernel
      /\ IF flow.st = "dead" THEN Tcp!Rest(Tcp!ReapIfIdle(s))
         ELSE IF ~ok THEN Tcp!Rest(Tcp!BeginTeardown(t)) ELSE Tcp!Drive(Tcp!ReleaseSendOp(u))
  BY DEF Tcp!OnTcpConnect
<1>4. flow.st # "none"
  BY <1>2, <1>3 DEF BoxInv
<1>5. s = [z EXCEPT !.kernel = @ \ {"connect"}]
  BY <1>1
<1> HIDE DEF s
<1>6. /\ Whole(s) /\ s.flow = flow /\ s.tcb = tcb /\ s.guest = guest /\ s.nic = nic
      /\ s.host = host /\ s.boxes = boxes /\ s.kernel = kernel \ {"connect"}
  BY <1>2, <1>5, Dequeued
<1>7. /\ s \in States /\ BoxInv(s) /\ GotInv(s) /\ FinInv(s) /\ ListInv(s) /\ KeptInv(s) /\ RestInv(s)
      /\ ToldInv(s) /\ EndInv(s) /\ SynInv(s) /\ Sound(s)
  BY <1>6 DEF Whole, Sound
<1>8. CASE flow.st = "dead"
  <2>1. PICK r : r = Tcp!ReapIfIdle(s)
    OBVIOUS
  <2>2. Settled(r)
    BY <1>6, <1>7, <1>8, <2>1, ReapSettles
  <2> QED  BY <1>3, <1>8, <2>1, <2>2, RestStep
<1>9. CASE flow.st # "dead" /\ ~ok
  <2>1. f \in Flows /\ f.st = flow.st /\ f.inflight = flow.inflight /\ f.want = flow.want /\ f.blocked = flow.blocked
        /\ f.syn = FALSE
    BY <1>2 DEF Flows
  <2>2. PICK g : g = Tcp!RstToGuest(guest)
    OBVIOUS
  <2>3. g \in Guests /\ g.st \notin {"syn", "open"}
    BY <1>2, <2>2, RstIs
  <2>4. t = [s EXCEPT !.flow = f, !.guest = g]
    BY <1>6, <1>7, <2>2 DEF States
  <2> HIDE DEF f, t
  <2>5. /\ t \in States /\ t.flow = f /\ t.guest = g /\ t.tcb = tcb /\ t.boxes = boxes /\ t.kernel = s.kernel
        /\ t.host = host /\ t.nic = nic
    BY <1>6, <1>7, <2>1, <2>3, <2>4 DEF States
  <2>6. Sound(t) /\ SynInv(t)
    BY <1>4, <1>6, <1>7, <2>1, <2>5 DEF Sound, BoxInv, GotInv, FinInv, ListInv, KeptInv, SynInv,
       Tcp!PeerClosed
  <2>7. PICK r : r = Tcp!BeginTeardown(t)
    OBVIOUS
  <2>8. Settled(r)
    BY <1>4, <2>1, <2>3, <2>5, <2>6, <2>7, TeardownSettles
  <2> QED  BY <1>3, <1>9, <2>7, <2>8, RestStep
<1>10. CASE flow.st # "dead" /\ ok
  <2> DEFINE e == [flow EXCEPT !.connected = TRUE, !.syn = FALSE]
             c == [tcb EXCEPT !.st = "SynRcvd", !.staged = {"synack"}]
             h == [host EXCEPT !.st = "open"]
  <2>1. /\ e \in Flows /\ e.st = flow.st /\ e.inflight = flow.inflight /\ e.queue = flow.queue /\ e.want = flow.want
        /\ e.blocked = flow.blocked /\ e.syn = FALSE
    BY <1>2 DEF Flows
  <2>2. /\ c \in Tcbs /\ c.st = "SynRcvd" /\ c.taken = tcb.taken /\ c.in = tcb.in /\ c.peerFin = tcb.peerFin
    BY <1>2 DEF Tcbs, Tcp!TcbStates
  <2>3. h \in Hosts /\ h.got = host.got /\ h.shut = host.shut
    BY <1>2 DEF Hosts
  <2>4. u = [s EXCEPT !.flow = e, !.tcb = c, !.host = h]
    BY <1>6, <1>7 DEF States
  <2> HIDE DEF e, c, h, u
  <2>5. /\ u \in States /\ u.flow = e /\ u.tcb = c /\ u.host = h /\ u.guest = guest /\ u.boxes = boxes
        /\ u.kernel = s.kernel /\ u.nic = nic
    BY <1>6, <1>7, <2>1, <2>2, <2>3, <2>4 DEF States
  <2>6. flow.st = "live"
    BY <1>2, <1>4, <1>10 DEF Flows
  <2>7. BoxInv(u) /\ ListInv(u) /\ KeptInv(u)
    BY <1>4, <1>6, <1>7, <2>1, <2>5 DEF BoxInv, ListInv, KeptInv
  <2>8. GotInv(u) /\ RestInv(u)
    BY <1>6, <1>7, <2>1, <2>2, <2>3, <2>5 DEF GotInv, RestInv
  <2>9. FinInv(u) /\ SynInv(u) /\ ToldInv(u) /\ EndInv(u)
    BY <1>6, <1>7, <2>1, <2>2, <2>5, <2>6 DEF FinInv, SynInv, ToldInv, EndInv, Tcp!PeerClosed
  <2>10. Whole(u)
    BY <2>5, <2>7, <2>8, <2>9 DEF Whole, Sound
  <2>11. PICK r : r = Tcp!ReleaseSendOp(u)
    OBVIOUS
  <2>12. Whole(r)
    BY <2>10, <2>11, ReleaseKeeps
  <2> QED  BY <1>3, <1>10, <2>11, <2>12, DriveStep
<1> QED  BY <1>8, <1>9, <1>10

LEMMA RecvStep ==
  ASSUME Tcp!NatFlowAssumption, FlowInv, ~stopped, NEW what \in {"data", "eof", "fail"},
         Tcp!OnTcpRecv(what)
  PROVE  FlowInv'
<1>1. PICK z : z = Tcp!State
  OBVIOUS
<1> DEFINE s == [Tcp!State EXCEPT !.kernel = @ \ {"recv"}]
           t == [s EXCEPT !.flow.closing = TRUE,
                          !.tcb = [@ EXCEPT !.fin = "queued",
                                            !.st = IF tcb.st = "CloseWait" THEN "LastAck" ELSE "FinWait"]]
           u == [s EXCEPT !.tcb.out = @ + 1, !.host.sent = @ + 1]
<1>2. /\ Whole(z) /\ BoxInv(z) /\ KeptInv(z) /\ WokenInv(z) /\ z.flow = flow /\ z.tcb = tcb /\ z.boxes = boxes
      /\ z.kernel = kernel /\ z.host = host /\ z.guest = guest /\ z.nic = nic /\ flow \in Flows /\ tcb \in Tcbs
      /\ host \in Hosts /\ guest \in Guests
  BY <1>1, Unpacked
<1>3. /\ "recv" \in kernel
      /\ IF flow.st = "dead" THEN Tcp!Rest(Tcp!ReapIfIdle(s))
         ELSE IF what = "fail" THEN Tcp!Rest(Tcp!AbortFlow(s)) ELSE IF what = "eof" THEN Tcp!Drive(t) ELSE Tcp!Drive(u)
  BY DEF Tcp!OnTcpRecv
<1>4. flow.st # "none" /\ (flow.st = "live" => ~flow.syn)
  BY <1>2, <1>3 DEF BoxInv, KeptInv
<1>5. s = [z EXCEPT !.kernel = @ \ {"recv"}]
  BY <1>1
<1> HIDE DEF s
<1>6. /\ Whole(s) /\ s.flow = flow /\ s.tcb = tcb /\ s.guest = guest /\ s.nic = nic
      /\ s.host = host /\ s.boxes = boxes /\ s.kernel = kernel \ {"recv"}
  BY <1>2, <1>5, Dequeued
<1>7. /\ s \in States /\ BoxInv(s) /\ GotInv(s) /\ FinInv(s) /\ ListInv(s) /\ KeptInv(s) /\ RestInv(s)
      /\ ToldInv(s) /\ EndInv(s) /\ SynInv(s) /\ Sound(s)
  BY <1>6 DEF Whole, Sound
<1>8. CASE flow.st = "dead"
  <2>1. PICK r : r = Tcp!ReapIfIdle(s)
    OBVIOUS
  <2>2. Settled(r)
    BY <1>6, <1>7, <1>8, <2>1, ReapSettles
  <2> QED  BY <1>3, <1>8, <2>1, <2>2, RestStep
<1>9. flow.st # "dead" => flow.st = "live"
  BY <1>2, <1>4 DEF Flows
<1>10. CASE flow.st # "dead" /\ what = "fail"
  <2>1. PICK r : r = Tcp!AbortFlow(s)
    OBVIOUS
  <2>2. Settled(r)
    BY <1>6, <1>7, <1>9, <1>10, <2>1, AbortSettles
  <2> QED  BY <1>3, <1>10, <2>1, <2>2, RestStep
<1>11. CASE flow.st # "dead" /\ what = "eof"
  <2> DEFINE f == [flow EXCEPT !.closing = TRUE]
             c == [tcb EXCEPT !.fin = "queued", !.st = IF tcb.st = "CloseWait" THEN "LastAck" ELSE "FinWait"]
  <2>1. /\ f \in Flows /\ f.st = flow.st /\ f.inflight = flow.inflight /\ f.queue = flow.queue /\ f.want = flow.want
        /\ f.blocked = flow.blocked /\ f.syn = flow.syn
    BY <1>2 DEF Flows
  <2>2. /\ c \in Tcbs /\ c.st \in {"LastAck", "FinWait"} /\ (c.st = "LastAck" <=> tcb.st = "CloseWait")
        /\ c.taken = tcb.taken /\ c.in = tcb.in /\ c.peerFin = tcb.peerFin /\ c.staged = tcb.staged
    BY <1>2 DEF Tcbs, Tcp!TcbStates
  <2>3. t = [s EXCEPT !.flow = f, !.tcb = c]
    <3>1. t = [s EXCEPT !.flow.closing = TRUE, !.tcb = c]
      BY <1>6
    <3> HIDE DEF c, t
    <3> QED  BY <1>6, <1>7, <3>1 DEF States
  <2> HIDE DEF f, c, t
  <2>4. /\ t \in States /\ t.flow = f /\ t.tcb = c /\ t.host = host /\ t.guest = guest /\ t.boxes = boxes
        /\ t.kernel = s.kernel /\ t.nic = nic
    BY <1>6, <1>7, <2>1, <2>2, <2>3 DEF States
  <2>5. BoxInv(t) /\ ListInv(t) /\ KeptInv(t)
    BY <1>4, <1>6, <1>7, <2>1, <2>4 DEF BoxInv, ListInv, KeptInv
  <2>6. GotInv(t) /\ RestInv(t)
    BY <1>6, <1>7, <2>1, <2>2, <2>4 DEF GotInv, RestInv
  <2>7. c.staged = {}
    BY <1>2, <1>9, <1>11, <2>2 DEF WokenInv
  <2>8. FinInv(t) /\ SynInv(t) /\ ToldInv(t) /\ EndInv(t)
    BY <1>6, <1>7, <1>9, <1>11, <2>1, <2>2, <2>4, <2>7 DEF FinInv, SynInv, ToldInv, EndInv,
       Tcp!PeerClosed
  <2>9. Whole(t)
    BY <2>4, <2>5, <2>6, <2>8 DEF Whole, Sound
  <2> QED  BY <1>3, <1>11, <2>9, DriveStep
<1>12. CASE flow.st # "dead" /\ what = "data"
  <2>1. PICK o \in Nat, n \in Nat : o = tcb.out + 1 /\ n = host.sent + 1
    BY <1>2 DEF Tcbs, Hosts
  <2> DEFINE c == [tcb EXCEPT !.out = o]
             h == [host EXCEPT !.sent = n]
  <2>2. /\ c \in Tcbs /\ c.st = tcb.st /\ c.taken = tcb.taken /\ c.in = tcb.in /\ c.peerFin = tcb.peerFin
        /\ c.staged = tcb.staged
    BY <1>2 DEF Tcbs
  <2>3. h \in Hosts /\ h.got = host.got /\ h.shut = host.shut
    BY <1>2 DEF Hosts
  <2>4. u = [s EXCEPT !.tcb = c, !.host = h]
    BY <1>6, <1>7, <2>1 DEF States
  <2> HIDE DEF c, h, u
  <2>5. /\ u \in States /\ u.flow = flow /\ u.tcb = c /\ u.host = h /\ u.guest = guest /\ u.boxes = boxes
        /\ u.kernel = s.kernel /\ u.nic = nic
    BY <1>6, <1>7, <2>2, <2>3, <2>4 DEF States
  <2>6. BoxInv(u) /\ ListInv(u) /\ KeptInv(u)
    BY <1>6, <1>7, <2>2, <2>5 DEF BoxInv, ListInv, KeptInv
  <2>7. GotInv(u) /\ RestInv(u)
    BY <1>6, <1>7, <2>2, <2>3, <2>5 DEF GotInv, RestInv
  <2>8. FinInv(u) /\ SynInv(u) /\ ToldInv(u) /\ EndInv(u)
    BY <1>6, <1>7, <2>2, <2>5 DEF FinInv, SynInv, ToldInv, EndInv, Tcp!PeerClosed
  <2>9. Whole(u)
    BY <2>5, <2>6, <2>7, <2>8 DEF Whole, Sound
  <2> QED  BY <1>3, <1>12, <2>9, DriveStep
<1> QED  BY <1>8, <1>10, <1>11, <1>12

LEMMA SendStep ==
  ASSUME Tcp!NatFlowAssumption, FlowInv, ~stopped, NEW ok \in BOOLEAN, NEW n \in 0 .. Chunk,
         Tcp!OnTcpSend(ok, n)
  PROVE  FlowInv'
<1>1. PICK z : z = Tcp!State
  OBVIOUS
<1> DEFINE x == host.got \o SubSeq(flow.inflight, 1, n)
           q == SubSeq(flow.inflight, n + 1, Len(flow.inflight))
           h == [host EXCEPT !.got = x]
           s == [Tcp!State EXCEPT !.kernel = @ \ {"send"}, !.host.got = @ \o SubSeq(flow.inflight, 1, n)]
           f == [flow EXCEPT !.inflight = <<>>]
           e == [flow EXCEPT !.queue = q \o flow.queue, !.inflight = <<>>]
           t == [s EXCEPT !.flow.inflight = <<>>]
           u == [s EXCEPT !.flow.queue = SubSeq(s.flow.inflight, n + 1, Len(s.flow.inflight)) \o @,
                          !.flow.inflight = <<>>]
<1>2. /\ Whole(z) /\ BoxInv(z) /\ KeptInv(z) /\ GotInv(z) /\ FinInv(z) /\ ListInv(z) /\ RestInv(z) /\ ToldInv(z)
      /\ EndInv(z) /\ SynInv(z) /\ z.flow = flow /\ z.tcb = tcb /\ z.boxes = boxes
      /\ z.kernel = kernel /\ z.host = host /\ z.guest = guest /\ z.nic = nic /\ flow \in Flows /\ tcb \in Tcbs
      /\ host \in Hosts /\ guest \in Guests /\ kernel \in SUBSET Ops /\ z \in States
  BY <1>1, Unpacked
<1>3. /\ "send" \in kernel /\ n <= Len(flow.inflight)
      /\ IF flow.st = "dead" THEN Tcp!Rest(Tcp!ReapIfIdle(t))
         ELSE IF ~ok THEN Tcp!Rest(Tcp!AbortFlow(t)) ELSE Tcp!Drive(Tcp!ReleaseSendOp(u))
  BY DEF Tcp!OnTcpSend, Tcp!SendDone
<1>4. flow.st # "none" /\ (flow.st = "live" => ~flow.syn)
  BY <1>2, <1>3 DEF BoxInv, KeptInv
<1>5. flow.queue \in Tcp!Bytes /\ flow.inflight \in Tcp!Bytes /\ tcb.in \in Tcp!Bytes /\ host.got \in Tcp!Bytes /\ tcb.taken \in Nat
  BY <1>2 DEF Flows, Tcbs, Hosts
<1>6. n \in 0 .. Len(flow.inflight) /\ Held(host.got, flow.inflight, tcb.taken)
  <2>1. Len(flow.inflight) \in Nat
    BY <1>5, Lengths
  <2> QED  BY <1>2, <1>3, <2>1 DEF GotInv, Tcp!NatFlowAssumption
<1>7. /\ Held(x, <<>>, tcb.taken) /\ x \in Tcp!Bytes /\ q \in Tcp!Bytes /\ (Len(host.got) = tcb.taken => x = host.got)
      /\ Covered(host.got, flow.inflight, flow.queue, tcb.in, tcb.taken) =>
           Covered(x, <<>>, q \o flow.queue, tcb.in, tcb.taken)
  BY <1>5, <1>6, Arrived
<1>8. q \o flow.queue \in Tcp!Bytes
  BY <1>5, <1>7, Join
<1>9. h \in Hosts /\ h.got = x /\ h.shut = host.shut /\ h = [host EXCEPT !.got = x]
  <2> HIDE DEF x
  <2> QED  BY <1>2, <1>7 DEF Hosts
<1>10. s = [z EXCEPT !.kernel = kernel \ {"send"}, !.host = h]
  <2>1. s = [z EXCEPT !.kernel = kernel \ {"send"}, !.host.got = x]
    BY <1>1, <1>2
  <2> HIDE DEF s, x
  <2> QED  BY <1>2, <2>1 DEF States
<1>11. kernel \ {"send"} \in SUBSET Ops
  BY <1>2
<1> HIDE DEF s, h, x
<1>12. /\ s \in States /\ s.flow = flow /\ s.tcb = tcb /\ s.guest = guest /\ s.nic = nic
       /\ s.host = h /\ s.boxes = boxes /\ s.kernel = kernel \ {"send"}
  BY <1>2, <1>9, <1>10, <1>11 DEF States
<1>13. flow.st # "dead" => flow.st = "live"
  BY <1>2, <1>4 DEF Flows
<1>14. /\ f \in Flows /\ f.st = flow.st /\ f.inflight = <<>> /\ f.want = flow.want /\ f.blocked = flow.blocked
       /\ f.syn = flow.syn
  BY <1>2, Nothing DEF Flows
<1>15. /\ e \in Flows /\ e.st = flow.st /\ e.inflight = <<>> /\ e.want = flow.want /\ e.blocked = flow.blocked
       /\ e.syn = flow.syn /\ e.queue = q \o flow.queue
  <2>1. PICK j : j = q \o flow.queue
    OBVIOUS
  <2>2. e = [flow EXCEPT !.queue = j, !.inflight = <<>>] /\ j \in Tcp!Bytes
    BY <1>8, <2>1
  <2> HIDE DEF e, q
  <2> QED  BY <1>2, <2>1, <2>2, Nothing DEF Flows
<1>16. t = [s EXCEPT !.flow = f]
  BY <1>12 DEF States
<1>17. u = [s EXCEPT !.flow = e]
  <2>1. u = [s EXCEPT !.flow.queue = q \o flow.queue, !.flow.inflight = <<>>]
    BY <1>12
  <2> HIDE DEF u, q
  <2> QED  BY <1>12, <2>1 DEF States
<1> HIDE DEF f, e, t, u, q
<1>18. /\ t \in States /\ t.flow = f /\ t.tcb = tcb /\ t.guest = guest /\ t.nic = nic
       /\ t.host = h /\ t.boxes = boxes /\ t.kernel = kernel \ {"send"}
  BY <1>12, <1>14, <1>16 DEF States
<1>19. /\ u \in States /\ u.flow = e /\ u.tcb = tcb /\ u.guest = guest /\ u.nic = nic
       /\ u.host = h /\ u.boxes = boxes /\ u.kernel = kernel \ {"send"}
  BY <1>12, <1>15, <1>17 DEF States
<1>20. Sound(t)
  <2>1. BoxInv(t) /\ ListInv(t) /\ KeptInv(t)
    BY <1>2, <1>4, <1>14, <1>18 DEF BoxInv, ListInv, KeptInv
  <2>2. GotInv(t) /\ FinInv(t)
    BY <1>2, <1>7, <1>9, <1>14, <1>18 DEF GotInv, FinInv, Tcp!PeerClosed
  <2> QED  BY <1>18, <2>1, <2>2 DEF Sound
<1>21. SynInv(t) /\ (flow.st = "dead" => ToldInv(t))
  BY <1>2, <1>14, <1>18 DEF SynInv, ToldInv
<1>22. CASE flow.st = "dead"
  <2>1. PICK r : r = Tcp!ReapIfIdle(t)
    OBVIOUS
  <2>2. Settled(r)
    BY <1>14, <1>18, <1>20, <1>21, <1>22, <2>1, ReapSettles
  <2> QED  BY <1>3, <1>22, <2>1, <2>2, RestStep
<1>23. CASE flow.st # "dead" /\ ~ok
  <2>1. PICK r : r = Tcp!AbortFlow(t)
    OBVIOUS
  <2>2. Settled(r)
    BY <1>13, <1>14, <1>18, <1>20, <1>21, <1>23, <2>1, AbortSettles
  <2> QED  BY <1>3, <1>23, <2>1, <2>2, RestStep
<1>24. CASE flow.st # "dead" /\ ok
  <2>1. BoxInv(u) /\ ListInv(u) /\ KeptInv(u)
    BY <1>2, <1>4, <1>15, <1>19 DEF BoxInv, ListInv, KeptInv
  <2>2. GotInv(u) /\ FinInv(u)
    BY <1>2, <1>7, <1>9, <1>15, <1>19 DEF GotInv, FinInv, Tcp!PeerClosed
  <2>3. RestInv(u)
    BY <1>2, <1>7, <1>9, <1>15, <1>19 DEF RestInv
  <2>4. SynInv(u) /\ ToldInv(u) /\ EndInv(u)
    BY <1>2, <1>15, <1>19 DEF SynInv, ToldInv, EndInv
  <2>5. Whole(u)
    BY <1>19, <2>1, <2>2, <2>3, <2>4 DEF Whole, Sound
  <2>6. PICK r : r = Tcp!ReleaseSendOp(u)
    OBVIOUS
  <2>7. Whole(r)
    BY <2>5, <2>6, ReleaseKeeps
  <2> QED  BY <1>3, <1>24, <2>6, <2>7, DriveStep
<1> QED  BY <1>22, <1>23, <1>24

-----------------------------------------------------------------------------
(* Timers, the NIC, and the end                                            *)

LEMMA WatchdogStep ==
  ASSUME Tcp!NatFlowAssumption, FlowInv, ~stopped, Tcp!Watchdog
  PROVE  FlowInv'
<1>1. PICK z, r : z = Tcp!State /\ r = Tcp!AbortFlow(z)
  OBVIOUS
<1>2. Sound(z) /\ SynInv(z) /\ z.flow = flow
  BY <1>1, Unpacked
<1>3. z.flow.st = "live" /\ Tcp!Rest(r)
  BY <1>1, <1>2 DEF Tcp!Watchdog
<1>4. Settled(r)
  BY <1>1, <1>2, <1>3, AbortSettles
<1> QED  BY <1>3, <1>4, RestStep

LEMMA TickStep ==
  ASSUME Tcp!NatFlowAssumption, FlowInv, ~stopped, Tcp!TcpTick
  PROVE  FlowInv'
<1>1. PICK z : z = Tcp!State
  OBVIOUS
<1>2. Whole(z)
  BY <1>1, Unpacked
<1>3. Tcp!Drive(z)
  BY <1>1 DEF Tcp!TcpTick
<1> QED  BY <1>2, <1>3, DriveStep

\* Steps of the NIC, which go on when the worker has stopped.
NicStep(z, n, s) ==
  /\ s = [z EXCEPT !.nic = n]
  /\ n \in Nics
  /\ z.nic.listed => n.listed
  /\ z.nic.listed /\ (z.nic.full \/ z.nic.wake) => n.full \/ n.wake

LEMMA NicOnly ==
  ASSUME FlowInv, NEW z, z = Tcp!State, NEW n, NEW s, NicStep(z, n, s), Tcp!Rest(s)
  PROVE  FlowInv'
<1>1. z \in States
  BY DEF FlowInv, Settled, Whole, Sound
<1>2. /\ s \in States /\ s.flow = z.flow /\ s.tcb = z.tcb /\ s.guest = z.guest /\ s.nic = n
      /\ s.boxes = z.boxes /\ s.kernel = z.kernel /\ s.host = z.host
  BY <1>1 DEF States, NicStep
<1>3. CASE stopped
  <2>1. Tcp!Become(s) /\ stopped' = stopped
    BY DEF Tcp!Rest
  <2>2. Tcp!State' = s
    BY <1>2, <2>1, BecomeIs
  <2>3. boxes' = boxes /\ kernel' = kernel /\ host' = host /\ tcb' = tcb
    BY <1>2, <2>1, StateIs DEF Tcp!Become
  <2>4. Tcp!OpsKeepTheirBoxes' /\ Tcp!HostSeesTheStream'
    BY <1>3, <2>3 DEF FlowInv, Tcp!OpsKeepTheirBoxes, Tcp!HostSeesTheStream
  <2>5. Tcp!State' \in States
    BY <1>2, <2>2
  <2> QED  BY <1>3, <2>1, <2>4, <2>5 DEF FlowInv
<1>4. CASE ~stopped
  <2>1. /\ BoxInv(z) /\ GotInv(z) /\ FinInv(z) /\ ListInv(z) /\ KeptInv(z) /\ RestInv(z)
        /\ ToldInv(z) /\ EndInv(z) /\ SynInv(z) /\ WokenInv(z)
    BY <1>4, Unpacked
  <2>2. BoxInv(s) /\ GotInv(s) /\ FinInv(s) /\ KeptInv(s) /\ RestInv(s) /\ ToldInv(s) /\ EndInv(s) /\ SynInv(s)
    BY <1>2, <2>1 DEF BoxInv, GotInv, FinInv, KeptInv, RestInv, ToldInv, EndInv, SynInv,
       Tcp!PeerClosed
  <2>3. ListInv(s) /\ WokenInv(s)
    BY <1>2, <2>1 DEF ListInv, WokenInv, NicStep
  <2> QED  BY <1>2, <1>4, <2>2, <2>3, RestStep DEF Settled, Whole, Sound
<1> QED  BY <1>3, <1>4

LEMMA FillsStep ==
  ASSUME FlowInv, Tcp!NicFills
  PROVE  FlowInv'
<1>1. PICK z : z = Tcp!State
  OBVIOUS
<1>2. z \in States /\ z.nic = nic
  BY <1>1, StateIs DEF FlowInv, Settled, Whole, Sound
<1>3. nic \in Nics
  BY <1>2, FieldsOk
<1>4. PICK k \in Nat : k = nic.fills + 1
  BY <1>3 DEF Nics
<1> DEFINE n == [nic EXCEPT !.full = TRUE, !.fills = k]
           s == [Tcp!State EXCEPT !.nic.full = TRUE, !.nic.fills = @ + 1]
<1>5. n \in Nics /\ n.full = TRUE /\ n.listed = nic.listed
  BY <1>3 DEF Nics
<1>6. s = [z EXCEPT !.nic = n]
  BY <1>1, <1>2, <1>4 DEF States
<1>7. Tcp!Rest(s)
  BY DEF Tcp!NicFills
<1> HIDE DEF n, s
<1>8. NicStep(z, n, s)
  BY <1>2, <1>5, <1>6 DEF NicStep
<1> QED  BY <1>1, <1>7, <1>8, NicOnly

LEMMA DrainsStep ==
  ASSUME FlowInv, Tcp!NicDrains
  PROVE  FlowInv'
<1>1. PICK z : z = Tcp!State
  OBVIOUS
<1>2. z \in States /\ z.nic = nic
  BY <1>1, StateIs DEF FlowInv, Settled, Whole, Sound
<1>3. nic \in Nics
  BY <1>2, FieldsOk
<1> DEFINE w == nic.wake \/ nic.listed
           n == [nic EXCEPT !.full = FALSE, !.wake = w]
           s == [Tcp!State EXCEPT !.nic.full = FALSE, !.nic.wake = @ \/ nic.listed]
<1>4. w \in BOOLEAN
  OBVIOUS
<1>5. n \in Nics /\ n.wake = w /\ n.listed = nic.listed
  <2> HIDE DEF w
  <2> QED  BY <1>3, <1>4 DEF Nics
<1>6. s = [z EXCEPT !.nic = n]
  <2>1. s = [z EXCEPT !.nic.full = FALSE, !.nic.wake = w]
    BY <1>1, <1>2
  <2> HIDE DEF s, w
  <2> QED  BY <1>2, <2>1 DEF States
<1>7. Tcp!Rest(s)
  BY DEF Tcp!NicDrains
<1> HIDE DEF n, s
<1>8. NicStep(z, n, s)
  BY <1>2, <1>5, <1>6 DEF NicStep
<1> QED  BY <1>1, <1>7, <1>8, NicOnly

\* resume_rx_blocked forgets who is listed before it drives: nothing is owed the
\* wakeup it has taken.
LEMMA ResumeStep ==
  ASSUME Tcp!NatFlowAssumption, FlowInv, ~stopped, Tcp!ResumeRxBlocked
  PROVE  FlowInv'
<1>1. PICK z : z = Tcp!State
  OBVIOUS
<1> DEFINE f == [flow EXCEPT !.blocked = FALSE]
           n == [nic EXCEPT !.wake = FALSE, !.listed = FALSE]
           s == [Tcp!State EXCEPT !.nic.wake = FALSE, !.nic.listed = FALSE, !.flow.blocked = FALSE]
<1>2. /\ BoxInv(z) /\ KeptInv(z) /\ GotInv(z) /\ FinInv(z) /\ RestInv(z) /\ ToldInv(z)
      /\ EndInv(z) /\ SynInv(z) /\ z.flow = flow /\ z.nic = nic /\ flow \in Flows /\ nic \in Nics /\ z \in States
  BY <1>1, Unpacked
<1>3. Tcp!Drive(s)
  BY DEF Tcp!ResumeRxBlocked
<1>4. /\ f \in Flows /\ f.st = flow.st /\ f.connected = flow.connected /\ f.queue = flow.queue
      /\ f.inflight = flow.inflight /\ f.closing = flow.closing /\ f.want = flow.want /\ f.done = flow.done
      /\ f.syn = flow.syn /\ f.blocked = FALSE
  BY <1>2 DEF Flows
<1>5. n \in Nics
  BY <1>2 DEF Nics
<1>6. s = [z EXCEPT !.flow = f, !.nic = n]
  BY <1>1, <1>2 DEF States
<1>7. flow.st = "none" => f = Tcp!NoFlow
  <2>1. flow.st = "none" => flow = Tcp!NoFlow
    BY <1>2 DEF BoxInv
  <2>2. Tcp!NoFlow.blocked = FALSE
    BY DEF Tcp!NoFlow
  <2>3. flow.blocked = FALSE => f = flow
    BY <1>2 DEF Flows
  <2> QED  BY <2>1, <2>2, <2>3
<1> HIDE DEF f, n, s
<1>8. /\ s \in States /\ s.flow = f /\ s.tcb = z.tcb /\ s.guest = z.guest /\ s.nic = n
      /\ s.boxes = z.boxes /\ s.kernel = z.kernel /\ s.host = z.host
  BY <1>2, <1>4, <1>5, <1>6 DEF States
<1>9. BoxInv(s) /\ GotInv(s) /\ FinInv(s) /\ KeptInv(s) /\ ListInv(s)
  BY <1>2, <1>4, <1>7, <1>8 DEF BoxInv, GotInv, FinInv, KeptInv, ListInv, Tcp!PeerClosed
<1>10. RestInv(s) /\ ToldInv(s) /\ EndInv(s) /\ SynInv(s)
  BY <1>2, <1>4, <1>8 DEF RestInv, ToldInv, EndInv, SynInv
<1>11. Whole(s)
  BY <1>8, <1>9, <1>10 DEF Whole, Sound
<1> QED  BY <1>3, <1>11, DriveStep

LEMMA Kept ==
  ASSUME NEW z \in States, BoxInv(z), GotInv(z)
  PROVE  /\ "connect" \in z.kernel => z.boxes["op"] # "pool"
         /\ "recv" \in z.kernel => z.boxes["op"] # "pool" /\ z.boxes["tcb"] # "pool"
         /\ "send" \in z.kernel => z.boxes["sendOp"] # "pool"
         /\ z.kernel # {} => z.boxes["op"] = "flow" /\ z.boxes["tcb"] = "flow"
         /\ "send" \in z.kernel => z.boxes["sendOp"] = "flow"
         /\ \A i \in 1 .. Len(z.host.got) : z.host.got[i] = i
         /\ z.host.shut => z.tcb.peerFin /\ Len(z.host.got) = z.tcb.taken
<1>1. "pool" # "flow"
  OBVIOUS
<1>2. z.kernel # {} => z.flow.st # "none"
  BY DEF BoxInv
<1>3. \A i \in 1 .. Len(z.host.got) : z.host.got[i] = i
  <2>1. PICK l : l = Len(z.host.got)
    OBVIOUS
  <2>2. l \in Nat
    BY <2>1, FieldsOk, Lengths
  <2>3. \A i \in 1 .. l : z.host.got[i] = 0 + i
    BY <2>1 DEF GotInv, Held, Run
  <2> QED  BY <2>1, <2>2, <2>3
<1> QED  BY <1>1, <1>2, <1>3 DEF BoxInv, GotInv

LEMMA ShutdownStep ==
  ASSUME Tcp!NatFlowAssumption, FlowInv, ~stopped, Tcp!Shutdown
  PROVE  FlowInv'
<1>1. PICK z : z = Tcp!State
  OBVIOUS
<1> DEFINE b == IF kernel # {} THEN [x \in DOMAIN boxes |-> IF boxes[x] = "flow" THEN "leaked" ELSE boxes[x]]
                ELSE [x \in DOMAIN boxes |-> "pool"]
           h == IF flow.st = "live" THEN [host EXCEPT !.st = "closed"] ELSE host
<1>2. /\ z \in States /\ BoxInv(z) /\ GotInv(z) /\ z.tcb = tcb /\ z.boxes = boxes
      /\ z.kernel = kernel /\ z.host = host /\ tcb \in Tcbs /\ host \in Hosts /\ boxes \in Boxes
      /\ kernel \in SUBSET Ops /\ guest \in Guests /\ nic \in Nics
  BY <1>1, Unpacked
<1>3. /\ stopped' = TRUE /\ flow' = Tcp!NoFlow /\ boxes' = b /\ host' = h
      /\ tcb' = tcb /\ kernel' = kernel /\ guest' = guest /\ nic' = nic
  BY DEF Tcp!Shutdown
<1>4. b \in Boxes
  BY <1>2 DEF Boxes, Tcp!Homes
<1>5. h \in Hosts /\ h.got = host.got /\ h.shut = host.shut
  BY <1>2 DEF Hosts
<1>6. kernel # {} => \A x \in {"tcb", "op", "sendOp"} : boxes[x] = "flow" => b[x] = "leaked"
  BY <1>2 DEF Boxes
<1> HIDE DEF b, h
<1>7. Tcp!OpsKeepTheirBoxes'
  <2>1. "leaked" # "pool"
    OBVIOUS
  <2>2. /\ kernel # {} => boxes["op"] = "flow" /\ boxes["tcb"] = "flow"
        /\ "send" \in kernel => boxes["sendOp"] = "flow"
    BY <1>2, Kept
  <2> QED  BY <1>3, <1>6, <2>1, <2>2 DEF Tcp!OpsKeepTheirBoxes
<1>8. Tcp!HostSeesTheStream'
  <2>1. /\ \A i \in 1 .. Len(host.got) : host.got[i] = i
        /\ host.shut => tcb.peerFin /\ Len(host.got) = tcb.taken
    BY <1>2, Kept
  <2> QED  BY <1>3, <1>5, <2>1 DEF Tcp!HostSeesTheStream
<1>9. Tcp!NoFlow \in Flows
  BY Nothing DEF Tcp!NoFlow, Flows
<1>10. PICK s : s = [flow |-> Tcp!NoFlow, tcb |-> tcb, boxes |-> b, kernel |-> kernel, host |-> h,
                     guest |-> guest, nic |-> nic]
  OBVIOUS
<1>11. s \in States
  BY <1>2, <1>4, <1>5, <1>9, <1>10, PartsAre
<1>12. Tcp!State' = s
  BY <1>3, <1>10 DEF Tcp!State
<1> QED  BY <1>3, <1>7, <1>8, <1>11, <1>12 DEF FlowInv

LEMMA FlowInit ==
  ASSUME Tcp!NatFlowAssumption, Tcp!Init
  PROVE  FlowInv
<1>1. PICK s : s = Tcp!State
  OBVIOUS
<1>2. Tcp!NoFlow \in Flows /\ Tcp!NoFlow.st = "none" /\ Tcp!NoFlow.want = FALSE /\ Tcp!NoFlow.blocked = FALSE /\ Tcp!NoFlow.inflight = <<>>
  BY Nothing DEF Tcp!NoFlow, Flows
<1>3. /\ tcb \in Tcbs /\ tcb.taken = 0 /\ tcb.st = "Closed" /\ tcb.staged = {} /\ Held(<<>>, <<>>, 0) /\ 0 <= MaxSent
  BY Fresh DEF Tcp!Init, Tcp!TcbStates
<1>4. boxes \in Boxes
  BY DEF Tcp!Init, Boxes, Tcp!Homes
<1>5. host \in Hosts /\ host.got = <<>> /\ host.shut = FALSE
  BY Nothing DEF Tcp!Init, Hosts
<1>6. guest \in Guests /\ guest.st = "idle" /\ nic \in Nics /\ kernel \in SUBSET Ops
  BY DEF Tcp!Init, Guests, Nics
<1>7. flow = Tcp!NoFlow /\ kernel = {} /\ ~stopped
  BY DEF Tcp!Init
<1>8. /\ s \in States /\ s.flow = flow /\ s.tcb = tcb /\ s.boxes = boxes /\ s.kernel = kernel /\ s.host = host
      /\ s.guest = guest /\ s.nic = nic
  BY <1>1, <1>2, <1>3, <1>4, <1>5, <1>6, <1>7, PartsAre DEF Tcp!State
<1>9. BoxInv(s) /\ GotInv(s) /\ FinInv(s) /\ ListInv(s) /\ KeptInv(s) /\ RestInv(s)
  BY <1>2, <1>3, <1>5, <1>7, <1>8 DEF BoxInv, GotInv, FinInv, ListInv, KeptInv, RestInv,
     Tcp!PeerClosed
<1>10. ToldInv(s) /\ EndInv(s) /\ SynInv(s) /\ WokenInv(s)
  BY <1>2, <1>3, <1>6, <1>7, <1>8 DEF ToldInv, EndInv, SynInv, WokenInv
<1> QED  BY <1>1, <1>7, <1>8, <1>9, <1>10 DEF FlowInv, Settled, Whole, Sound

LEMMA FlowNext ==
  ASSUME Tcp!NatFlowAssumption, FlowInv, [Tcp!Next]_(Tcp!vars)
  PROVE  FlowInv'
<1>1. CASE UNCHANGED Tcp!vars
  <2>1. Tcp!State' = Tcp!State /\ stopped' = stopped /\ Tcp!OpsKeepTheirBoxes' = Tcp!OpsKeepTheirBoxes
        /\ Tcp!HostSeesTheStream' = Tcp!HostSeesTheStream
    BY <1>1 DEF Tcp!vars, Tcp!State, Tcp!OpsKeepTheirBoxes, Tcp!HostSeesTheStream
  <2> QED  BY <2>1 DEF FlowInv
<1>2. CASE Tcp!NicFills
  BY <1>2, FillsStep
<1>3. CASE Tcp!NicDrains
  BY <1>3, DrainsStep
<1>4. CASE Tcp!GuestSyn
  BY <1>4, SynStep DEF Tcp!GuestSyn, Tcp!Running
<1>5. CASE Tcp!RefuseSyn
  BY <1>5, RefuseStep DEF Tcp!RefuseSyn, Tcp!Running
<1>6. CASE Tcp!GuestRst
  BY <1>6, RstStep DEF Tcp!GuestRst, Tcp!Running
<1>7. CASE Tcp!GuestEstablishes
  BY <1>7, EstablishStep DEF Tcp!GuestEstablishes, Tcp!Running
<1>8. CASE Tcp!GuestData
  BY <1>8, DataStep DEF Tcp!GuestData, Tcp!Running
<1>9. CASE Tcp!GuestFin
  BY <1>9, FinStep DEF Tcp!GuestFin, Tcp!Running
<1>10. CASE Tcp!GuestAcksFin
  BY <1>10, AcksFinStep DEF Tcp!GuestAcksFin, Tcp!Running
<1>11. CASE Tcp!ResetStray
  BY <1>11, StrayStep DEF Tcp!ResetStray, Tcp!Running
<1>12. CASE Tcp!NewInboundFlow
  BY <1>12, InboundStep DEF Tcp!NewInboundFlow, Tcp!Running
<1>13. ASSUME NEW ok \in BOOLEAN, Tcp!OnTcpConnect(ok) PROVE FlowInv'
  BY <1>13, ConnectStep DEF Tcp!OnTcpConnect, Tcp!Running
<1>14. ASSUME NEW what \in {"data", "eof", "fail"}, Tcp!OnTcpRecv(what) PROVE FlowInv'
  <2>1. ~stopped
    BY <1>14 DEF Tcp!OnTcpRecv, Tcp!Running
  <2> QED  BY <1>14, <2>1, RecvStep
<1>15. ASSUME NEW ok \in BOOLEAN, NEW n \in 0 .. Chunk, Tcp!OnTcpSend(ok, n) PROVE FlowInv'
  <2>1. ~stopped
    BY <1>15 DEF Tcp!OnTcpSend, Tcp!Running
  <2> QED  BY <1>15, <2>1, SendStep
<1>16. CASE Tcp!Watchdog
  BY <1>16, WatchdogStep DEF Tcp!Watchdog, Tcp!Running
<1>17. CASE Tcp!TcpTick
  BY <1>17, TickStep DEF Tcp!TcpTick, Tcp!Running
<1>18. CASE Tcp!ResumeRxBlocked
  BY <1>18, ResumeStep DEF Tcp!ResumeRxBlocked, Tcp!Running
<1>19. CASE Tcp!Shutdown
  BY <1>19, ShutdownStep DEF Tcp!Shutdown, Tcp!Running
<1> QED
  BY <1>1, <1>2, <1>3, <1>4, <1>5, <1>6, <1>7, <1>8, <1>9, <1>10, <1>11, <1>12, <1>13, <1>14, <1>15,
     <1>16, <1>17, <1>18, <1>19 DEF Tcp!Next

LEMMA FlowImplies ==
  ASSUME FlowInv
  PROVE  Tcp!TypeOK /\ Tcp!OpsKeepTheirBoxes /\ Tcp!HostSeesTheStream /\ Tcp!GuestIsTold /\ Tcp!PausedIsWoken
<1>1. PICK z : z = Tcp!State
  OBVIOUS
<1>2. /\ z \in States /\ z.flow = flow /\ z.tcb = tcb /\ z.boxes = boxes /\ z.kernel = kernel /\ z.host = host
      /\ z.guest = guest /\ z.nic = nic
  BY <1>1, StateIs DEF FlowInv, Settled, Whole, Sound
<1>3. Tcp!TypeOK
  <2>1. flow \in Flows /\ tcb \in Tcbs /\ boxes \in Boxes /\ host \in Hosts /\ guest \in Guests
    BY <1>2, FieldsOk
  <2>2. kernel \subseteq {"connect", "recv", "send"}
    BY <1>2, FieldsOk DEF Ops
  <2> QED  BY <2>1, <2>2 DEF Tcp!TypeOK, Flows, Tcbs, Boxes, Hosts, Guests
<1>4. CASE stopped
  BY <1>3, <1>4 DEF FlowInv, Tcp!GuestIsTold, Tcp!PausedIsWoken, Tcp!Running
<1>5. CASE ~stopped
  <2>1. BoxInv(z) /\ GotInv(z) /\ ToldInv(z) /\ WokenInv(z)
    BY <1>1, <1>5, Unpacked
  <2>2. Tcp!OpsKeepTheirBoxes
    BY <1>2, <2>1, Kept DEF Tcp!OpsKeepTheirBoxes
  <2>3. Tcp!HostSeesTheStream
    BY <1>2, <2>1, Kept DEF Tcp!HostSeesTheStream
  <2>4. Tcp!GuestIsTold /\ Tcp!PausedIsWoken
    BY <1>2, <2>1 DEF Tcp!GuestIsTold, Tcp!PausedIsWoken, ToldInv, WokenInv
  <2> QED  BY <1>3, <2>2, <2>3, <2>4
<1> QED  BY <1>4, <1>5

\* Whatever the lengths of the streams, the caps and the rings, and whatever the
\* order of completions, segments, watchdogs and wakeups: an overlapped operation
\* keeps its boxes until its completion is dequeued (reap_if_idle, release_send_op,
\* shutdown), the host reads the guest's bytes in order and its end of stream after
\* all of them (pump_send, send_done), the guest of a flow that is gone has been
\* answered (abort_flow, begin_teardown), and a flow that paused on the NIC's
\* backlog is due the wakeup (resume_rx_blocked).
THEOREM FlowsAreSound ==
  ASSUME Tcp!NatFlowAssumption
  PROVE  Tcp!Spec => [](Tcp!TypeOK /\ Tcp!OpsKeepTheirBoxes /\ Tcp!HostSeesTheStream /\ Tcp!GuestIsTold /\ Tcp!PausedIsWoken)
<1>1. FlowInv => Tcp!TypeOK /\ Tcp!OpsKeepTheirBoxes /\ Tcp!HostSeesTheStream /\ Tcp!GuestIsTold /\ Tcp!PausedIsWoken
  BY FlowImplies
<1>2. Tcp!Init => FlowInv
  BY FlowInit
<1>3. FlowInv /\ [Tcp!Next]_(Tcp!vars) => FlowInv'
  BY FlowNext
<1> QED  BY <1>1, <1>2, <1>3, PTL DEF Tcp!Spec

==============================================================================
