------------------------------ MODULE BlockFile ------------------------------
(***************************************************************************)
(* The block backend of crates/winsys/src/host/block_file.rs: operations   *)
(* submitted from any thread, completed on the IOCP worker or on the       *)
(* submitting thread, against start, stop and drop of the backend.         *)
(*                                                                         *)
(* An operation is a member of Ops: a caller-owned Request, used again     *)
(* once its completion callback has returned or its submit was refused.    *)
(***************************************************************************)
EXTENDS Integers, FiniteSets

CONSTANTS Ops, NoOp

ASSUME OpsAssumption == IsFiniteSet(Ops) /\ NoOp \notin Ops \cup {"wait"} /\ "wait" \notin Ops

VARIABLES
  st,         \* what became of each operation's latest submission
  closed, inflight,
  ctl,        \* the owner of the `worker' mutex: none, running, closing, posted
  worker,     \* "none", "wait", or the operation whose callback it runs
  shutdown    \* the SHUTDOWN_KEY packet is in the completion port

vars == <<st, closed, inflight, ctl, worker, shutdown>>

Init ==
  /\ st = [o \in Ops |-> "idle"]
  /\ closed = TRUE /\ inflight = 0
  /\ ctl = "none" /\ worker = NoOp /\ shutdown = FALSE

Set(o, s) == st' = [st EXCEPT ![o] = s]

-----------------------------------------------------------------------------
(* begin: count the operation, then look at `closed'.                      *)
\* Faulty: begin counts nothing.
CountNothing(o) ==
  /\ st[o] = "idle"
  /\ Set(o, "counted")
  /\ UNCHANGED <<closed, inflight, ctl, worker, shutdown>>

Count(o) ==
  /\ st[o] = "idle"
  /\ Set(o, "counted")
  /\ inflight' = inflight + 1
  /\ UNCHANGED <<closed, ctl, worker, shutdown>>

\* Faulty: begin does not look at `closed'.
CheckNothing(o) ==
  /\ st[o] = "counted"
  /\ Set(o, "accepted")
  /\ UNCHANGED <<closed, inflight, ctl, worker, shutdown>>

\* The backend is closed (fail), or the operation goes on to ReadFile,
\* WriteFile or the flush packet.
CheckClosed(o) ==
  /\ st[o] = "counted"
  /\ Set(o, IF closed THEN "failed" ELSE "accepted")
  /\ UNCHANGED <<closed, inflight, ctl, worker, shutdown>>

\* The operating system refuses the I/O or leaves it pending on the port.
IoRefused(o) ==
  /\ st[o] = "accepted"
  /\ Set(o, "failed")
  /\ UNCHANGED <<closed, inflight, ctl, worker, shutdown>>

IoPending(o) ==
  /\ st[o] = "accepted"
  /\ Set(o, "pending")
  /\ UNCHANGED <<closed, inflight, ctl, worker, shutdown>>

\* Completed synchronously (FILE_SKIP_COMPLETION_PORT_ON_SUCCESS, or
\* submit_sync): the submitting thread runs the callback.
IoDone(o) ==
  /\ st[o] = "accepted"
  /\ Set(o, "callback")
  /\ UNCHANGED <<closed, inflight, ctl, worker, shutdown>>

\* Faulty: a failed submission stays counted.
FailCounted(o) ==
  /\ st[o] = "failed"
  /\ Set(o, "idle")
  /\ UNCHANGED <<closed, inflight, ctl, worker, shutdown>>

\* fail
Fail(o) ==
  /\ st[o] = "failed"
  /\ Set(o, "idle")
  /\ inflight' = inflight - 1
  /\ UNCHANGED <<closed, ctl, worker, shutdown>>

\* finish: the callback returns, and only then is the operation uncounted.
CallbackReturns(o) ==
  /\ st[o] = "callback"
  /\ Set(o, "returned")
  /\ UNCHANGED <<closed, inflight, ctl, worker, shutdown>>

Uncount(o) ==
  /\ st[o] = "returned"
  /\ Set(o, "idle")
  /\ inflight' = inflight - 1
  /\ worker' = IF worker = o THEN "wait" ELSE worker
  /\ UNCHANGED <<closed, ctl, shutdown>>

\* Faulty: the worker serves no completion of a closed backend.
DequeueOpen(o) ==
  /\ worker = "wait" /\ st[o] = "pending" /\ ~closed
  /\ Set(o, "callback")
  /\ worker' = o
  /\ UNCHANGED <<closed, inflight, ctl, shutdown>>

\* worker_loop
Dequeue(o) ==
  /\ worker = "wait" /\ st[o] = "pending"
  /\ Set(o, "callback")
  /\ worker' = o
  /\ UNCHANGED <<closed, inflight, ctl, shutdown>>

WorkerExit ==
  /\ worker = "wait" /\ shutdown
  /\ shutdown' = FALSE
  /\ worker' = NoOp
  /\ UNCHANGED <<st, closed, inflight, ctl>>

-----------------------------------------------------------------------------
(* start and stop hold the `worker' mutex from end to end.                 *)
Start ==
  /\ ctl = "none"
  /\ worker' = "wait"
  /\ closed' = FALSE
  /\ ctl' = "running"
  /\ UNCHANGED <<st, inflight, shutdown>>

StopClose ==
  /\ ctl = "running"
  /\ closed' = TRUE
  /\ ctl' = "closing"
  /\ UNCHANGED <<st, inflight, worker, shutdown>>

\* Faulty: stop does not wait for the operations in flight.
StopUndrained ==
  /\ ctl = "closing"
  /\ shutdown' = TRUE
  /\ ctl' = "posted"
  /\ UNCHANGED <<st, closed, inflight, worker>>

StopDrained ==
  /\ ctl = "closing" /\ inflight = 0
  /\ shutdown' = TRUE
  /\ ctl' = "posted"
  /\ UNCHANGED <<st, closed, inflight, worker>>

StopJoin ==
  /\ ctl = "posted" /\ worker = NoOp
  /\ ctl' = "none"
  /\ UNCHANGED <<st, closed, inflight, worker, shutdown>>

-----------------------------------------------------------------------------
OpStep(o) == CheckClosed(o) \/ IoRefused(o) \/ IoPending(o) \/ IoDone(o) \/ Fail(o)
             \/ CallbackReturns(o) \/ Uncount(o)
Next == \/ \E o \in Ops : Count(o) \/ OpStep(o) \/ Dequeue(o)
        \/ WorkerExit \/ Start \/ StopClose \/ StopDrained \/ StopJoin

Spec == Init /\ [][Next]_vars

\* Submitting threads and callbacks run on, the worker serves every packet, and
\* a stop keeps polling the count.  Nobody has to submit, start or stop.
Fairness ==
  /\ \A o \in Ops : WF_vars(OpStep(o)) /\ SF_vars(Dequeue(o))
  /\ WF_vars(WorkerExit) /\ WF_vars(StopDrained) /\ WF_vars(StopJoin)

FairSpec == Spec /\ Fairness

-----------------------------------------------------------------------------
States == {"idle", "counted", "accepted", "failed", "pending", "callback", "returned"}

Typed ==
  /\ st \in [Ops -> States]
  /\ closed \in BOOLEAN /\ inflight \in Int /\ shutdown \in BOOLEAN
  /\ ctl \in {"none", "running", "closing", "posted"}
  /\ worker \in Ops \cup {NoOp, "wait"}
TypeOK == Typed /\ inflight \in Nat

Counted == {o \in Ops : st[o] # "idle"}
Running == {o \in Ops : st[o] \in {"accepted", "pending", "callback", "returned"}}

(* stop returns with nothing the backend started still running: no I/O pending
   and no callback that has not returned, and none to come until start. *)
StopMeansStopped == ctl \in {"none", "posted"} => closed /\ Running = {}

(* A pending operation always has a live worker that will complete it. *)
NeverOrphaned == (\E o \in Ops : st[o] = "pending") => worker # NoOp /\ ~shutdown

\* Why they hold: the count is exact, a backend that is not running is closed,
\* and once stop has seen the count at zero nothing can be accepted.
StopInv ==
  /\ inflight = Cardinality(Counted)
  /\ ctl # "running" => closed
  /\ ctl \in {"none", "posted"} => \A o \in Ops : st[o] \in {"idle", "counted", "failed"}
  /\ ctl \in {"running", "closing"} => worker # NoOp /\ ~shutdown
  /\ ctl = "posted" /\ worker = NoOp => ~shutdown
  /\ ctl = "none" => worker = NoOp /\ ~shutdown
  /\ worker \in Ops => st[worker] \in {"callback", "returned"}

(* Every accepted operation completes, and a stop ends once callers stop
   submitting. *)
OpsComplete == \A o \in Ops : st[o] = "accepted" ~> st[o] = "idle"
StopEnds ==
  <>[](\A o \in Ops : st[o] # "counted") => (ctl = "closing" ~> ctl = "none")
=============================================================================
