------------------------------ MODULE TinyInit ------------------------------
(***************************************************************************)
(* tinyinit as the guest's PID 1 (tinyinit/src/boot.rs, rootfs.rs): unpack *)
(* the root on every CPU, set the guest up stage by stage, start the       *)
(* essential services, then reap children until one of them exits or a     *)
(* signal asks PID 1 to stop, and shut down.                               *)
(*                                                                         *)
(* The kernel is external: its signals (one pending bit each, discarded    *)
(* while PID 1 neither blocks nor handles them), its processes and mounts. *)
(***************************************************************************)
EXTENDS Integers, FiniteSets, Sequences

CONSTANTS Frames,   \* file frames of the root's pack: 1..Frames
          Workers,  \* threads that extract them
          Shares,   \* mount targets, each a sequence of names
          Services, \* the configured apps, and sshd
          Sshd,     \* the service started last
          Others,   \* processes PID 1 only inherits
          MaxBytes, \* logs.max_bytes
          MaxOut    \* bytes a service writes

TinyInitAssumption ==
    /\ {Frames, MaxBytes} \subseteq Nat \ {0} /\ MaxOut \in Nat
    /\ Workers # {} /\ Sshd \in Services /\ Shares # {} /\ Services \cap Others = {}
    /\ \A p \in Shares : p \in Seq(STRING)

VARIABLES
    at,        \* where PID 1 is
    next, failure, claim, extracted, \* for_each_parallel; frames unpacked so far
    mounted, hidden, \* shares mounted, and those a later mount covers
    table,     \* services: the processes start() recorded
    proc,      \* none, live, zombie or gone
    blocked, pending, \* PID 1's mask holds the four signals; those that wait
    cmdSet,    \* kernel.poweroff_cmd names tinyinit's poweroff
    asked,     \* a poweroff command ran: it signalled PID 1 and reported success
    out, cur, old   \* pump_log: bytes read, in the log, in the rotated log

unpackVars == <<next, failure, claim, extracted>>
shareVars == <<mounted, hidden>>
procVars == <<table, proc>>
sigVars == <<blocked, pending, cmdSet, asked>>
logVars == <<out, cur, old>>
vars == <<at, unpackVars, shareVars, procVars, sigVars, logVars>>

Procs == Services \cup Others
Idle == 0
Done == -1

Init ==
    /\ at = "start" /\ next = 1 /\ failure = FALSE
    /\ claim = [w \in Workers |-> Idle] /\ extracted = {}
    /\ mounted = {} /\ hidden = {}
    /\ table = {} /\ proc = [p \in Procs |-> "none"]
    /\ blocked = FALSE /\ pending = {} /\ cmdSet = FALSE /\ asked = FALSE
    /\ out = 0 /\ cur = 0 /\ old = 0

\* step: a boot stage either completes or fails, and a failure makes main
\* shut the guest down.
Stage(from, to) == at = from /\ at' \in {to, "term"}

---------------------------------------------------------------------------
\* The boot arguments, the new root, and the skeleton frame of the pack.
RootMount ==
    /\ Stage("start", "unpack")
    /\ UNCHANGED <<unpackVars, shareVars, procVars, sigVars, logVars>>

\* for_each_parallel: a worker takes the next item while there is one.
Claim(w) ==
    /\ at = "unpack" /\ claim[w] = Idle
    /\ next' = next + 1
    /\ claim' = [claim EXCEPT ![w] = IF next <= Frames THEN next ELSE Done]
    /\ UNCHANGED <<at, failure, extracted, shareVars, procVars, sigVars, logVars>>
ExtractFrame(w) ==
    /\ at = "unpack" /\ claim[w] \in 1..Frames
    /\ extracted' = extracted \cup {claim[w]}
    /\ claim' = [claim EXCEPT ![w] = Idle]
    /\ UNCHANGED <<at, next, failure, shareVars, procVars, sigVars, logVars>>

\* Faulty: the failure is not kept.
ExtractFailsQuietly(w) ==
    /\ at = "unpack" /\ claim[w] \in 1..Frames
    /\ next' = Frames + 1 /\ claim' = [claim EXCEPT ![w] = Idle]
    /\ UNCHANGED <<at, failure, extracted, shareVars, procVars, sigVars, logVars>>

\* A failure leaves nothing to take and is kept for the caller.
ExtractFails(w) ==
    /\ at = "unpack" /\ claim[w] \in 1..Frames
    /\ next' = Frames + 1 /\ failure' = TRUE
    /\ claim' = [claim EXCEPT ![w] = Idle]
    /\ UNCHANGED <<at, extracted, shareVars, procVars, sigVars, logVars>>
Unpacked ==
    /\ at = "unpack" /\ \A w \in Workers : claim[w] = Done
    /\ at' = IF failure THEN "term" ELSE "bind"
    /\ UNCHANGED <<unpackVars, shareVars, procVars, sigVars, logVars>>

\* The overlay, tinyinit bound into the new root, and the switch to it.
SwitchRoot ==
    /\ Stage("bind", "mounts")
    /\ UNCHANGED <<unpackVars, shareVars, procVars, sigVars, logVars>>
\* The kernel's mounts, the console, cgroups and applet links.
Prepare ==
    /\ Stage("mounts", "command")
    /\ UNCHANGED <<unpackVars, shareVars, procVars, sigVars, logVars>>
\* Best effort: the boot goes on without it.
PoweroffCommand ==
    /\ at = "command" /\ at' = "config"
    /\ cmdSet' \in BOOLEAN
    /\ UNCHANGED <<unpackVars, shareVars, procVars, blocked, pending, asked, logVars>>
\* The bootstrap share, the configuration, tmpfs limits and sysctls.
Configure ==
    /\ Stage("config", "shares")
    /\ UNCHANGED <<unpackVars, shareVars, procVars, sigVars, logVars>>

Under(p, q) == Len(q) < Len(p) /\ SubSeq(p, 1, Len(q)) = q

\* Faulty: shares are mounted in any order.
MountAnyOf(left) == left

\* Shares are mounted parents first: by the number of names in the target.
MountNextOf(left) == {p \in left : \A q \in left : Len(p) <= Len(q)}
\* mount_share retries for five seconds, then fails.
MountShare ==
    /\ at = "shares" /\ mounted # Shares
    /\ \/ /\ \E p \in MountNextOf(Shares \ mounted) :
             /\ mounted' = mounted \cup {p}
             /\ hidden' = hidden \cup {q \in mounted : Under(q, p)}
          /\ UNCHANGED at
       \/ at' = "term" /\ UNCHANGED shareVars
    /\ UNCHANGED <<unpackVars, procVars, sigVars, logVars>>

\* SSH keys, identities, the network and the saved configuration.
Identify ==
    /\ mounted = Shares /\ Stage("shares", "signals")
    /\ UNCHANGED <<unpackVars, shareVars, procVars, sigVars, logVars>>
BlockSignals ==
    /\ Stage("signals", "services")
    /\ blocked' = (at' = "services")
    /\ UNCHANGED <<unpackVars, shareVars, procVars, pending, cmdSet, asked, logVars>>

\* start: spawn, then the log's thread, then the table. Either may fail, the
\* second with the child already running.
StartService(s) ==
    /\ at = "services" /\ proc[s] = "none"
    /\ s = Sshd => table = Services \ {Sshd}
    /\ \/ /\ proc' = [proc EXCEPT ![s] = "live"]
          /\ \/ table' = table \cup {s} /\ UNCHANGED at
             \/ at' = "term" /\ UNCHANGED table
       \/ at' = "term" /\ UNCHANGED procVars
    /\ UNCHANGED <<unpackVars, shareVars, sigVars, logVars>>
SupervisorReady ==
    /\ at = "services" /\ table = Services
    /\ at' = "reap"
    /\ UNCHANGED <<unpackVars, shareVars, procVars, sigVars, logVars>>

---------------------------------------------------------------------------
Signal(sig) == pending' = IF blocked THEN pending \cup {sig} ELSE pending

\* The kernel: a service's or a session's process ends, or a process whose
\* parent is gone becomes PID 1's.
Exits(p) ==
    /\ at # "off" /\ proc[p] = "live" /\ proc' = [proc EXCEPT ![p] = "zombie"]
    /\ Signal("CHLD")
    /\ UNCHANGED <<at, unpackVars, shareVars, table, blocked, cmdSet, asked, logVars>>
Inherit(p) ==
    /\ p \in Others /\ proc[p] = "none" /\ \E s \in table : proc[s] = "live"
    /\ proc' = [proc EXCEPT ![p] = "live"]
    /\ UNCHANGED <<at, unpackVars, shareVars, table, sigVars, logVars>>

\* main, as poweroff: run by the kernel when the host asks it to shut down,
\* or by a service or session.
Poweroff ==
    /\ at # "off" /\ ~asked
    /\ cmdSet \/ \E p \in Procs : proc[p] = "live"
    /\ asked' = TRUE /\ Signal("TERM")
    /\ UNCHANGED <<at, unpackVars, shareVars, procVars, blocked, cmdSet, logVars>>

Zombies == {p \in Procs : proc[p] = "zombie"}

\* Faulty: one child per signal.
ReapOnce ==
    /\ at = "reap"
    /\ IF Zombies = {} THEN at' = "wait" /\ UNCHANGED proc
       ELSE \E p \in Zombies :
              /\ proc' = [proc EXCEPT ![p] = "gone"]
              /\ at' = IF p \in table THEN "drain" ELSE "wait"
    /\ UNCHANGED <<unpackVars, shareVars, table, sigVars, logVars>>

\* The loop: every child that ended, then one signal. A service among them
\* ends the guest.
Reap ==
    /\ at = "reap"
    /\ IF Zombies = {} THEN at' = "wait" /\ UNCHANGED proc
       ELSE \E p \in Zombies :
              /\ proc' = [proc EXCEPT ![p] = "gone"]
              /\ at' = IF p \in table THEN "drain" ELSE "reap"
    /\ UNCHANGED <<unpackVars, shareVars, table, sigVars, logVars>>
\* At most a second for the log's pump to finish, and the log's tail.
DrainLog ==
    /\ at = "drain" /\ at' = "term"
    /\ UNCHANGED <<unpackVars, shareVars, procVars, sigVars, logVars>>
\* sigwaitinfo takes the lowest signal: TERM before CHLD.
SigWait ==
    /\ at = "wait" /\ pending # {}
    /\ IF "TERM" \in pending THEN at' = "term" /\ pending' = pending \ {"TERM"}
       ELSE at' = "reap" /\ pending' = {}
    /\ UNCHANGED <<unpackVars, shareVars, procVars, blocked, cmdSet, asked, logVars>>

\* Faulty: the log is rotated with the byte that fills it lost.
PumpLogLate ==
    /\ \E s \in table : proc[s] \in {"live", "zombie", "gone"}
    /\ at # "off" /\ out < MaxOut /\ out' = out + 1
    /\ IF cur + 1 >= MaxBytes THEN cur' = 0 /\ old' = cur
       ELSE cur' = cur + 1 /\ UNCHANGED old
    /\ UNCHANGED <<at, unpackVars, shareVars, procVars, sigVars>>

\* pump_log, a byte at a time: the log is rotated when it is full.
PumpLog ==
    /\ \E s \in table : proc[s] \in {"live", "zombie", "gone"}
    /\ at # "off" /\ out < MaxOut /\ out' = out + 1
    /\ IF cur >= MaxBytes THEN cur' = 1 /\ old' = cur
       ELSE cur' = cur + 1 /\ UNCHANGED old
    /\ UNCHANGED <<at, unpackVars, shareVars, procVars, sigVars>>

---------------------------------------------------------------------------
\* shutdown: TERM to everyone, a second of reaping, KILL, sync, power off.
Terminate ==
    /\ at = "term" /\ at' = "grace"
    /\ UNCHANGED <<unpackVars, shareVars, procVars, sigVars, logVars>>
GraceReap ==
    /\ at = "grace" /\ Zombies # {}
    /\ proc' = [p \in Procs |-> IF p \in Zombies THEN "gone" ELSE proc[p]]
    /\ UNCHANGED <<at, unpackVars, shareVars, table, sigVars, logVars>>
KillAll ==
    /\ at = "grace" /\ at' = "sync"
    /\ proc' = [p \in Procs |-> IF proc[p] = "live" THEN "zombie" ELSE proc[p]]
    /\ UNCHANGED <<unpackVars, shareVars, table, sigVars, logVars>>
PowerOff ==
    /\ at = "sync" /\ at' = "off"
    /\ UNCHANGED <<unpackVars, shareVars, procVars, sigVars, logVars>>

Pid1 ==
    \/ RootMount \/ Unpacked \/ SwitchRoot \/ Prepare \/ PoweroffCommand \/ Configure
    \/ MountShare \/ Identify \/ BlockSignals
    \/ \E s \in Services : StartService(s)
    \/ SupervisorReady \/ Reap \/ DrainLog \/ SigWait
    \/ Terminate \/ KillAll \/ PowerOff
Worker == \E w \in Workers : Claim(w) \/ ExtractFrame(w) \/ ExtractFails(w)
Next ==
    \/ Pid1 \/ Worker \/ GraceReap \/ PumpLog \/ Poweroff
    \/ \E p \in Procs : Exits(p) \/ Inherit(p)
Spec == Init /\ [][Next]_vars
\* Linux schedules PID 1 and its workers, and wakes it for a pending signal.
FairSpec == Spec /\ WF_vars(Pid1) /\ WF_vars(Worker)

TypeOK ==
    /\ at \in {"start", "unpack", "bind", "mounts", "command", "config", "shares", "signals",
               "services", "reap", "drain", "wait", "term", "grace", "sync", "off"}
    /\ next \in 1..(Frames + 2 * Cardinality(Workers) + 1) /\ failure \in BOOLEAN
    /\ claim \in [Workers -> Done..Frames] /\ extracted \subseteq 1..Frames
    /\ mounted \subseteq Shares /\ hidden \subseteq Shares /\ table \subseteq Services
    /\ proc \in [Procs -> {"none", "live", "zombie", "gone"}]
    /\ {blocked, cmdSet, asked} \subseteq BOOLEAN /\ pending \subseteq {"CHLD", "TERM"}
    /\ out \in 0..MaxOut /\ cur \in 0..MaxBytes /\ old \in 0..MaxBytes

\* PID 1 never runs its services on a root with a file missing: it goes past
\* the parallel unpack only when every frame was extracted, whichever worker
\* failed and whatever the others were doing.
RootIsWhole == at \notin {"start", "unpack", "term", "grace", "sync", "off"}
                   => extracted = 1..Frames

\* Every configured share is seen by the services: none is covered by a
\* share mounted over one of its parents.
SharesAreSeen == hidden = {}

\* PID 1 never sleeps through the end of an essential service: while it waits
\* for a signal, a service that ended has one pending, although the ends of
\* several children leave a single SIGCHLD.
NoExitMissed ==
    at = "wait" => \A s \in table : proc[s] = "live" \/ "CHLD" \in pending

\* The log and its rotated copy are the newest bytes of the output, without a
\* gap, each within the cap.
LogsKeepTheTail == out = cur + old \/ (old = MaxBytes /\ out > cur + old)

\* The guest stops once a boot stage failed, a service ended, or a process
\* asked PID 1 to after it was ready.
ServiceEnded == \E s \in table : proc[s] \in {"zombie", "gone"}
Booting == at = "start"
Off == at = "off"
StopsAfterExit == ServiceEnded ~> Off
Booted == at = "wait" \/ Off
BootEnds == Booting ~> Booted

\* "has PID 1 stop every process, sync and power off": a poweroff that
\* reported success is waiting for PID 1, or PID 1 is stopping.
PoweroffIsHeeded ==
    asked => "TERM" \in pending \/ at \in {"drain", "term", "grace", "sync", "off"}
=============================================================================
