------------------------------ MODULE VmbusIc ------------------------------
(***************************************************************************)
(* An integration component on its bus channel (src/vmbus/ic.rs) running   *)
(* the shutdown service (src/vmbus/shutdown.rs): the host opens and closes *)
(* the channel under the runner's feet, the runner's thread negotiates and *)
(* then sends and reads on the copy of the channel it last took, and a     *)
(* host thread asks for a shutdown and waits, with a timeout, for the      *)
(* guest's answer.                                                         *)
(*                                                                         *)
(* Rings are sequences of messages; a request is numbered by the asker's   *)
(* call it was sent for, 0 is the negotiation's, and an answer also says   *)
(* whether the guest agrees. The guest is external.                        *)
(***************************************************************************)
EXTENDS Naturals, Sequences

CONSTANTS Room,     \* messages a ring holds
          MaxOpens, \* times the guest opens the channel
          MaxAsks   \* shutdown requests the host makes

VmbusIcAssumption == Room \in Nat \ {0} /\ {MaxOpens, MaxAsks} \subseteq Nat

VARIABLES opens,      \* channel instances opened so far
          channel,    \* RunState.channel: 0, or the open instance
          generation, woken, stop,  \* the rest of RunState
          freed,      \* instances whose pages the guest has back
          seen, mine, phase, pc,  \* the thread: generation, channel, phase, place
          ticking,    \* a tick deadline is due (negotiation poll)
          versions,   \* State.versions is Some
          ask,        \* State.ask
          asker,      \* idle, set (Wanted, not yet woken), waiting, gone
          asks,       \* requests made so far
          got,        \* what the current request returned: none, true, false
          late,       \* a request timed out after it was sent
          out,        \* host-to-guest ring of the open instance
          in,         \* guest-to-host ring: a message and whether it agrees
          took        \* requests the guest took

run == <<channel, generation, woken, stop>>
thread == <<seen, mine, phase, pc, ticking>>
service == <<versions, ask>>
vars == <<opens, run, freed, thread, service, asker, asks, got, late, out, in, took>>

Init ==
    /\ opens = 0 /\ channel = 0 /\ generation = 0 /\ woken = FALSE /\ stop = FALSE
    /\ freed = {}
    /\ seen = 0 /\ mine = 0 /\ phase = "Idle" /\ pc = "wait" /\ ticking = FALSE
    /\ versions = FALSE /\ ask = "None"
    /\ asker = "idle" /\ asks = 0 /\ got = "none" /\ late = FALSE
    /\ out = <<>> /\ in = <<>> /\ took = {}

\* Device::open and close, called by the host under its own lock.
Open ==
    /\ channel = 0 /\ opens < MaxOpens /\ ~stop
    /\ opens' = opens + 1 /\ channel' = opens + 1
    /\ generation' = generation + 1
    /\ out' = <<>> /\ in' = <<>>
    /\ UNCHANGED <<woken, stop, freed, thread, service, asker, asks, got, late, took>>

Close ==
    /\ channel # 0
    /\ channel' = 0 /\ generation' = generation + 1
    /\ UNCHANGED <<opens, woken, stop, freed, thread, service, asker, asks, got, late,
                   out, in, took>>

\* The GPADL's teardown is answered: the closed instance's pages are the
\* guest's again.
TornDown ==
    /\ channel = 0 /\ opens > 0
    /\ freed' = freed \cup {opens}
    /\ UNCHANGED <<opens, run, thread, service, asker, asks, got, late, out, in, took>>

\* Host::stop, once the vCPUs are stopped: set the flag, then join the thread.
Stop ==
    /\ ~stop /\ stop' = TRUE
    /\ UNCHANGED <<opens, channel, generation, woken, freed, thread, service,
                   asker, asks, got, late, out, in, took>>

\* Faulty: a request in flight is forgotten.
DownForgets(a) == a

\* Service::down: the versions go; a request in flight is answered no.
Down(a) == IF a \in {"Wanted", "Sent"} THEN "Refused" ELSE a

\* RunShared::wait: stop before a generation change, before a pass. Leaving a
\* ready channel takes the service down first.
WakeStop ==
    /\ pc = "wait" /\ stop
    /\ pc' = "ended"
    /\ IF phase = "Ready" THEN versions' = FALSE /\ ask' = Down(ask) ELSE UNCHANGED service
    /\ UNCHANGED <<opens, run, freed, seen, mine, phase, ticking, asker, asks, got, late,
                   out, in, took>>

WakeReopen ==
    /\ pc = "wait" /\ ~stop /\ generation # seen
    /\ seen' = generation /\ mine' = channel
    /\ IF phase = "Ready" THEN versions' = FALSE /\ ask' = Down(ask) ELSE UNCHANGED service
    /\ pc' = IF channel = 0 THEN "wait" ELSE "negotiate"
    /\ phase' = "Idle" /\ ticking' = FALSE
    /\ UNCHANGED <<opens, run, freed, asker, asks, got, late, out, in, took>>

WakePass ==
    /\ pc = "wait" /\ ~stop /\ generation = seen /\ (woken \/ ticking)
    /\ woken' = IF woken THEN FALSE ELSE woken
    /\ pc' = IF mine # 0 /\ phase # "Idle" THEN "recv" ELSE "wait"
    /\ UNCHANGED <<opens, channel, generation, stop, freed, seen, mine, phase, ticking,
                   service, asker, asks, got, late, out, in, took>>

\* Writing or reading the rings of the instance the thread holds. Its pages
\* may no longer be a channel's: then nobody reads what is written.
Live == mine = channel
Sent(m) == IF Live THEN out' = Append(out, m) ELSE UNCHANGED out
Full == Live /\ Len(out) >= Room

\* The negotiation request, on a channel just opened.
Negotiate ==
    /\ pc = "negotiate" /\ pc' = "wait"
    /\ IF Full THEN phase' = "Idle" /\ UNCHANGED <<out, ticking>>
       ELSE Sent(0) /\ phase' = "Negotiating" /\ ticking' = TRUE
    /\ UNCHANGED <<opens, run, freed, seen, mine, service, asker, asks, got, late, in, took>>

\* pass: one packet of the guest's. The answer to the negotiation offers versions; the
\* runner gives the channel up when it speaks none of them.
RecvVersions ==
    /\ pc = "recv" /\ Live /\ phase = "Negotiating" /\ in # <<>> /\ Head(in)[1] = 0
    /\ in' = Tail(in)
    /\ IF Head(in)[2] THEN phase' = "Ready" /\ versions' = TRUE /\ UNCHANGED <<pc, ticking>>
       ELSE phase' = "Idle" /\ pc' = "wait" /\ ticking' = FALSE /\ UNCHANGED versions
    /\ UNCHANGED <<opens, run, freed, seen, mine, ask, asker, asks, got, late, out, took>>

\* Any other packet matters only as the answer to a request that was sent.
Recv ==
    /\ pc = "recv" /\ Live /\ in # <<>> /\ ~(phase = "Negotiating" /\ Head(in)[1] = 0)
    /\ in' = Tail(in)
    /\ ask' = IF phase # "Ready" \/ Head(in)[1] = 0 \/ ask # "Sent" THEN ask
              ELSE IF Head(in)[2] THEN "Took" ELSE "Refused"
    /\ UNCHANGED <<opens, run, freed, thread, versions, asker, asks, got, late, out, took>>

RecvEnds ==
    /\ pc = "recv" /\ (~Live \/ in = <<>>)
    /\ pc' = IF phase = "Ready" THEN "tick" ELSE "wait"
    /\ ticking' = (phase = "Negotiating")
    /\ UNCHANGED <<opens, run, freed, seen, mine, phase, service, asker, asks, got, late,
                   out, in, took>>

\* A ring that is broken, by the guest or because its closed instance's pages now hold
\* something else.
RecvBroken ==
    /\ pc = "recv"
    /\ pc' = "wait" /\ phase' = "Idle" /\ ticking' = FALSE
    /\ IF phase = "Ready" THEN versions' = FALSE /\ ask' = Down(ask) ELSE UNCHANGED service
    /\ UNCHANGED <<opens, run, freed, seen, mine, asker, asks, got, late, out, in, took>>

\* Faulty: a full ring is taken for a request delivered.
TickOptimistic ==
    /\ pc = "tick" /\ pc' = "wait"
    /\ IF ask = "Wanted" /\ versions
       THEN IF Full THEN ask' = "Took" /\ UNCHANGED out
            ELSE Sent(asks) /\ ask' = "Sent"
       ELSE UNCHANGED <<ask, out>>
    /\ UNCHANGED <<opens, run, freed, seen, mine, phase, ticking, versions, asker, asks,
                   got, late, in, took>>

\* The shutdown service's tick: send a wanted request, or say it failed.
Tick ==
    /\ pc = "tick" /\ pc' = "wait"
    /\ IF ask = "Wanted" /\ versions
       THEN IF Full THEN ask' = "Refused" /\ UNCHANGED out
            ELSE Sent(asks) /\ ask' = "Sent"
       ELSE UNCHANGED <<ask, out>>
    /\ UNCHANGED <<opens, run, freed, seen, mine, phase, ticking, versions, asker, asks,
                   got, late, in, took>>

\* Shutdown::request: refused at once while the guest has no channel up; else
\* Wanted, then (after the unlock) the runner is woken.
Request ==
    /\ asker = "idle" /\ asks < MaxAsks
    /\ asks' = asks + 1
    /\ IF versions THEN ask' = "Wanted" /\ asker' = "set" /\ got' = "none"
       ELSE got' = "false" /\ UNCHANGED <<ask, asker>>
    /\ UNCHANGED <<opens, run, freed, thread, versions, late, out, in, took>>

RequestWakes ==
    /\ asker = "set"
    /\ woken' = TRUE /\ asker' = "waiting"
    /\ UNCHANGED <<opens, channel, generation, stop, freed, thread, service, asks, got, late,
                   out, in, took>>

\* The wait ends with an answer, or with the timeout; either way the slate is
\* wiped for the next asker.
RequestReturns ==
    /\ asker = "waiting" /\ ask \in {"Took", "Refused"}
    /\ got' = IF ask = "Took" THEN "true" ELSE "false"
    /\ ask' = "None" /\ asker' = "idle"
    /\ UNCHANGED <<opens, run, freed, thread, versions, asks, late, out, in, took>>

RequestTimesOut ==
    /\ asker = "waiting" /\ ask \notin {"Took", "Refused"}
    /\ got' = "false" /\ late' = (late \/ ask = "Sent")
    /\ ask' = "None" /\ asker' = "idle"
    /\ UNCHANGED <<opens, run, freed, thread, versions, asks, out, in, took>>

\* The guest's hv_utils reads its ring and answers yes or no; a request it takes
\* starts its power-off, which comes later.
GuestAnswers ==
    /\ channel # 0 /\ out # <<>> /\ Len(in) < Room
    /\ out' = Tail(out)
    /\ \E agrees \in BOOLEAN:
         /\ in' = Append(in, <<Head(out), agrees>>)
         /\ took' = IF agrees THEN took \cup ({Head(out)} \ {0}) ELSE took
    /\ woken' = TRUE
    /\ UNCHANGED <<opens, channel, generation, stop, freed, thread, service, asker, asks, got, late>>

Next ==
    \/ Open \/ Close \/ TornDown \/ Stop
    \/ WakeStop \/ WakeReopen \/ WakePass \/ Negotiate
    \/ RecvVersions \/ Recv \/ RecvEnds \/ RecvBroken \/ Tick
    \/ Request \/ RequestWakes \/ RequestReturns \/ RequestTimesOut
    \/ GuestAnswers

\* The runner's thread and the asker are OS threads; the guest answers what it
\* reads while it keeps the channel open. The timeout is not relied on.
Fairness ==
    /\ WF_vars(WakeStop) /\ WF_vars(WakeReopen) /\ WF_vars(WakePass)
    /\ WF_vars(Negotiate) /\ WF_vars(RecvVersions \/ Recv \/ RecvEnds) /\ WF_vars(Tick)
    /\ WF_vars(RequestWakes) /\ WF_vars(RequestReturns) /\ WF_vars(GuestAnswers)

Spec == Init /\ [][Next]_vars
FairSpec == Spec /\ Fairness

TypeOK ==
    /\ opens \in 0..MaxOpens /\ channel \in 0..MaxOpens /\ generation \in Nat
    /\ woken \in BOOLEAN /\ stop \in BOOLEAN /\ freed \subseteq 1..MaxOpens
    /\ seen \in 0..generation /\ mine \in 0..MaxOpens
    /\ phase \in {"Idle", "Negotiating", "Ready"}
    /\ pc \in {"wait", "negotiate", "recv", "tick", "ended"} /\ ticking \in BOOLEAN
    /\ versions \in BOOLEAN /\ ask \in {"None", "Wanted", "Sent", "Took", "Refused"}
    /\ asker \in {"idle", "set", "waiting"} /\ asks \in 0..MaxAsks
    /\ got \in {"none", "true", "false"} /\ late \in BOOLEAN
    /\ out \in Seq(0..MaxAsks) /\ in \in Seq((0..MaxAsks) \X BOOLEAN) /\ took \subseteq 1..MaxAsks

\* request() says the guest took the request only if it took one, and THIS one
\* unless an earlier call gave up waiting on a request already sent: no answer
\* is credited to a later call across any closing and reopening.
TookIsThisOne ==
    got = "true" /\ asker = "idle" => took # {} /\ (late \/ asks \in took)

\* Without its timeout an asker still gets an answer: whatever the guest does
\* with the channel, the runner answers it or takes it down.
Asking == asker = "waiting"
AskOver == asker = "idle"
AskEnds == Asking ~> AskOver

\* The runner's thread touches no pages the guest has been told are its own
\* again: "if it didn't, stop using the pages it is taking back".
PagesLetGo == pc \in {"negotiate", "recv", "tick"} => mine \notin freed
=============================================================================
