----------------------------- MODULE VmbusHost -----------------------------
(***************************************************************************)
(* The VMBus host (src/vmbus/mod.rs) and the part of the run loop that     *)
(* serves it: the guest posts control messages by hypercall on any vCPU,   *)
(* the answers queue in the outbox, and the vCPU the guest takes messages  *)
(* on posts them one at a time into its SynIC message slot, asking WHP for *)
(* a deliverability exit whenever the slot is still full.                  *)
(*                                                                         *)
(* One channel and its GPADLs stand for the devices. The guest, its        *)
(* message slots and WHP's exits are external.                             *)
(***************************************************************************)
EXTENDS Integers, Sequences, FiniteSets

CONSTANTS Vps,       \* the vCPUs
          Targets,   \* the vCPUs the guest's kernels take messages on
          Gpadls,    \* GPADL ids the guest uses
          MaxOutbox, \* MAX_OUTBOX
          MaxGpadls, \* MAX_GPADLS
          MaxPosts,  \* messages the guest posts
          MaxSaves   \* snapshots taken and restored

VmbusHostAssumption ==
    /\ Targets \subseteq Vps /\ Targets # {}
    /\ {MaxOutbox, MaxGpadls} \subseteq Nat \ {0}
    /\ {MaxPosts, MaxSaves} \subseteq Nat

VARIABLES connected, target, outbox, slotBusy, gpadls, open, \* State
          outboxReady,
          slot,     \* per vCPU: whether its message slot is full
          notify,   \* per vCPU: a deliverability exit is asked for
          due,      \* per vCPU: that exit is pending
          kicked,   \* per vCPU: a cancel waits for the next run
          vcpu,     \* per vCPU: guest, top (about to flush), enter (flushed),
                    \* or kick (a hypercall about to kick the target)
          aim,      \* per vCPU: the target its hypercall read under the lock
          asked,    \* answers the guest waits for
          posts, saves

host == <<connected, target, outbox, slotBusy, gpadls, open, outboxReady>>
synic == <<slot, notify, due, kicked>>
vars == <<host, synic, vcpu, aim, asked, posts, saves>>

Boot == CHOOSE v \in Targets : TRUE
NoGpadl == "none"
Kinds == {"version", "offers", "created", "opened", "torndown", "modified", "unloaded"}
Absent == "absent"
None == "unanswered"

Init ==
    /\ connected = FALSE /\ target = Boot /\ outbox = <<>> /\ slotBusy = FALSE
    /\ gpadls = [g \in Gpadls |-> Absent] /\ open = NoGpadl
    /\ outboxReady = FALSE
    /\ slot = [v \in Vps |-> FALSE] /\ notify = [v \in Vps |-> FALSE]
    /\ due = [v \in Vps |-> FALSE] /\ kicked = [v \in Vps |-> FALSE]
    /\ vcpu = [v \in Vps |-> "top"] /\ aim = [v \in Vps |-> Boot]
    /\ asked = {} /\ posts = 0 /\ saves = 0

conn == <<connected, target, gpadls, open>>

\* Faulty: the outbox is never announced.
QueueAlways(box, m) == outbox' = Append(box, m) /\ UNCHANGED outboxReady

\* queue, after what box holds: ready unless the head waits for the slot.
Queue(box, m) == outbox' = Append(box, m) /\ outboxReady' = (outboxReady \/ ~slotBusy)
NoAnswer == UNCHANGED <<outbox, outboxReady>>

\* reset: every channel closed; the connection goes too, and the outbox.
Reset == open' = NoGpadl /\ gpadls' = [g \in Gpadls |-> Absent]

\* initiate_contact: a known or unknown version, from a vCPU that exists.
InitiateContact(t, ok) ==
    /\ target' = t /\ connected' = ok
    /\ IF connected THEN Reset /\ Queue(<<>>, "version")
       ELSE UNCHANGED <<gpadls, open>> /\ Queue(outbox, "version")

RequestOffers == Queue(Append(outbox, "offers"), "offers") /\ UNCHANGED conn

\* gpadl_header: refused when the id is in use or the table is full; complete
\* at once, or once the body brings the rest of its pages.
GpadlHeader(g, whole) ==
    /\ IF gpadls[g] = Absent /\ Cardinality({h \in Gpadls : gpadls[h] # Absent}) < MaxGpadls
       THEN /\ gpadls' = [gpadls EXCEPT ![g] = IF whole THEN "whole" ELSE "partial"]
            /\ IF whole THEN Queue(outbox, "created") ELSE NoAnswer
       ELSE UNCHANGED gpadls /\ Queue(outbox, "created")
    /\ UNCHANGED <<connected, target, open>>

GpadlBody(g) ==
    /\ IF gpadls[g] = "partial"
       THEN gpadls' = [gpadls EXCEPT ![g] = "whole"] /\ Queue(outbox, "created")
       ELSE UNCHANGED gpadls /\ NoAnswer
    /\ UNCHANGED <<connected, target, open>>

\* open_channel: answered either way; open only over a whole GPADL.
OpenChannel(g) ==
    /\ Queue(outbox, "opened")
    /\ open' = IF open = NoGpadl /\ gpadls[g] = "whole" THEN g ELSE open
    /\ UNCHANGED <<connected, target, gpadls>>

CloseChannel == open' = NoGpadl /\ NoAnswer /\ UNCHANGED <<connected, target, gpadls>>

\* Faulty: the channel stays open over it.
GpadlTeardownKeepsOpen(g) ==
    /\ gpadls' = [gpadls EXCEPT ![g] = Absent]
    /\ Queue(outbox, "torndown") /\ UNCHANGED <<connected, target, open>>

\* GPADL_TEARDOWN: a channel still open over it is closed first.
GpadlTeardown(g) ==
    /\ open' = IF open = g THEN NoGpadl ELSE open
    /\ gpadls' = [gpadls EXCEPT ![g] = Absent]
    /\ Queue(outbox, "torndown") /\ UNCHANGED <<connected, target>>

\* modify_channel: the channel's own target moves; only 5.3 answers.
ModifyChannel == Queue(outbox, "modified") /\ UNCHANGED conn

Unload == connected' = FALSE /\ Reset /\ Queue(<<>>, "unloaded") /\ UNCHANGED target

\* handle: what each message does, and the answer the guest then waits for
\* (None where there is none).
Handle(wants) ==
    \/ wants = "version" /\ \E t \in Targets, ok \in BOOLEAN : InitiateContact(t, ok)
    \/ wants = "unloaded" /\ Unload
    \/ wants = "torndown" /\ \E g \in Gpadls : GpadlTeardown(g)
    \/ wants = None /\ CloseChannel
    \/ wants = "offers" /\ connected /\ RequestOffers
    \/ wants = "modified" /\ connected /\ ModifyChannel
    \/ \E g \in Gpadls :
         /\ connected
         /\ \/ \E w \in BOOLEAN : wants = (IF w THEN "created" ELSE None) /\ GpadlHeader(g, w)
            \/ wants = (IF gpadls[g] = "partial" THEN "created" ELSE None) /\ GpadlBody(g)
            \/ wants = "opened" /\ OpenChannel(g)

\* A new kernel or an unload no longer waits for what the old one asked.
Waits(wants) ==
    IF wants \in {"version", "unloaded"} THEN {wants}
    ELSE asked \cup ({wants} \ {None})

\* post_message on vCPU v: refused while the outbox is full (the guest posts
\* again), else handled under the lock; the target is kicked afterwards.
PostMessage(v) ==
    /\ vcpu[v] = "guest" /\ posts < MaxPosts
    /\ Len(outbox) < MaxOutbox
    /\ posts' = posts + 1
    /\ \E w \in Kinds \cup {None} : Handle(w) /\ asked' = Waits(w)
    /\ vcpu' = [vcpu EXCEPT ![v] = "kick"]
    /\ aim' = [aim EXCEPT ![v] = target']
    /\ UNCHANGED <<slotBusy, synic, saves>>

\* Refused with INSUFFICIENT_BUFFERS.
PostRefused(v) ==
    /\ vcpu[v] = "guest" /\ Len(outbox) >= MaxOutbox /\ posts < MaxPosts
    /\ vcpu' = [vcpu EXCEPT ![v] = "top"]
    /\ UNCHANGED <<host, synic, aim, asked, posts, saves>>

\* After the unlock: the target as it was under the lock, if still needed.
Kick(v) ==
    /\ vcpu[v] = "kick"
    /\ vcpu' = [vcpu EXCEPT ![v] = "top"]
    /\ kicked' = IF aim[v] # v /\ outboxReady THEN [kicked EXCEPT ![aim[v]] = TRUE]
                 ELSE kicked
    /\ UNCHANGED <<host, slot, notify, due, aim, asked, posts, saves>>

\* Faulty: a full slot is not remembered.
FlushForgets(v) ==
    IF slot[v] \/ Len(outbox) > 1
    THEN /\ slotBusy' = FALSE /\ notify' = [notify EXCEPT ![v] = TRUE]
    ELSE UNCHANGED <<slotBusy, notify>>

\* flush: a free slot takes the first message; at the next the slot is full,
\* so the target waits for WHP to say it is free again.
FlushBusy(v) ==
    IF slot[v] \/ Len(outbox) > 1
    THEN /\ slotBusy' = TRUE /\ notify' = [notify EXCEPT ![v] = TRUE]
    ELSE UNCHANGED <<slotBusy, notify>>

Flush(v) ==
    /\ vcpu[v] = "top"
    /\ vcpu' = [vcpu EXCEPT ![v] = "enter"]
    /\ IF outboxReady /\ v = target /\ ~slotBusy
       THEN /\ IF outbox = <<>> THEN UNCHANGED <<slotBusy, notify, outbox, slot, asked>>
               ELSE /\ FlushBusy(v)
                    /\ slot' = [slot EXCEPT ![v] = TRUE]
                    /\ IF slot[v] THEN UNCHANGED <<outbox, asked>>
                       ELSE outbox' = Tail(outbox) /\ asked' = asked \ {Head(outbox)}
            /\ outboxReady' = FALSE
       ELSE UNCHANGED <<outbox, slotBusy, outboxReady, slot, notify, asked>>
    /\ UNCHANGED <<connected, target, gpadls, open, due, kicked, aim, posts, saves>>

\* run_exit: WHvRunVirtualProcessor enters the guest, or returns at once for
\* a cancel that came before it.
Enter(v) ==
    /\ vcpu[v] = "enter"
    /\ vcpu' = [vcpu EXCEPT ![v] = IF kicked[v] THEN "top" ELSE "guest"]
    /\ kicked' = [kicked EXCEPT ![v] = FALSE]
    /\ UNCHANGED <<host, slot, notify, due, aim, asked, posts, saves>>

\* A cancel reaches a vCPU running the guest.
Canceled(v) ==
    /\ vcpu[v] = "guest" /\ kicked[v]
    /\ vcpu' = [vcpu EXCEPT ![v] = "top"]
    /\ kicked' = [kicked EXCEPT ![v] = FALSE]
    /\ UNCHANGED <<host, slot, notify, due, aim, asked, posts, saves>>

\* The guest empties its slot (EOM); WHP owes an exit if one was asked for.
TakeMessage(v) ==
    /\ vcpu[v] = "guest" /\ slot[v]
    /\ slot' = [slot EXCEPT ![v] = FALSE]
    /\ due' = [due EXCEPT ![v] = @ \/ notify[v]]
    /\ notify' = [notify EXCEPT ![v] = FALSE]
    /\ UNCHANGED <<host, kicked, vcpu, aim, asked, posts, saves>>

\* sints_deliverable, on the exit.
SintsDeliverable(v) ==
    /\ vcpu[v] = "guest" /\ due[v]
    /\ due' = [due EXCEPT ![v] = FALSE]
    /\ vcpu' = [vcpu EXCEPT ![v] = "top"]
    /\ IF v = target /\ slotBusy
       THEN slotBusy' = FALSE /\ outboxReady' = (outbox # <<>>)
       ELSE UNCHANGED <<slotBusy, outboxReady>>
    /\ UNCHANGED <<connected, target, outbox, gpadls, open, slot, notify, kicked,
                   aim, asked, posts, saves>>

\* Faulty: the restored outbox is not announced.
RestoreIdle == FALSE

\* save with the vCPUs stopped, and restore into a new process: the outbox
\* and the slots come back, slot_busy and WHP's requests do not. An outbox that the
\* answers to one message took past MAX_OUTBOX is saved, and then refused.
RestoreReady == outbox # <<>>
SaveRestore ==
    /\ saves < MaxSaves /\ Len(outbox) <= MaxOutbox
    /\ \A v \in Vps : vcpu[v] # "kick"
    /\ saves' = saves + 1
    /\ slotBusy' = FALSE /\ outboxReady' = RestoreReady
    /\ notify' = [v \in Vps |-> FALSE] /\ due' = [v \in Vps |-> FALSE]
    /\ kicked' = [v \in Vps |-> FALSE] /\ vcpu' = [v \in Vps |-> "top"]
    /\ UNCHANGED <<connected, target, outbox, gpadls, open, slot, aim, asked, posts>>

Next ==
    \/ \E v \in Vps : \/ PostMessage(v) \/ PostRefused(v) \/ Kick(v) \/ Flush(v)
                      \/ Enter(v) \/ Canceled(v) \/ TakeMessage(v) \/ SintsDeliverable(v)
    \/ SaveRestore

Spec == Init /\ [][Next]_vars

TypeOK ==
    /\ connected \in BOOLEAN /\ target \in Vps /\ outbox \in Seq(Kinds)
    /\ Len(outbox) <= MaxOutbox + 1 /\ slotBusy \in BOOLEAN /\ outboxReady \in BOOLEAN
    /\ gpadls \in [Gpadls -> {Absent, "partial", "whole"}]
    /\ open \in Gpadls \cup {NoGpadl}
    /\ slot \in [Vps -> BOOLEAN] /\ notify \in [Vps -> BOOLEAN]
    /\ due \in [Vps -> BOOLEAN] /\ kicked \in [Vps -> BOOLEAN]
    /\ vcpu \in [Vps -> {"guest", "top", "enter", "kick"}]
    /\ aim \in [Vps -> Vps] /\ asked \subseteq Kinds /\ posts \in 0..MaxPosts /\ saves \in 0..MaxSaves

\* Every answer the guest waits for is on its way ("It always answers, since
\* Linux waits for most answers without a timeout"): an answer still asked for
\* is in the outbox, and a vCPU that will post it is bound to come round -- at
\* the top of its loop, kicked or about to be, or woken by the deliverability
\* exit it asked for or that is pending.
AnswersAreOnTheirWay ==
    /\ \A k \in asked : \E i \in 1..Len(outbox) : outbox[i] = k
    /\ outbox # <<>> =>
         \/ /\ outboxReady /\ ~slotBusy
            /\ \/ vcpu[target] \in {"top", "kick"} \/ kicked[target]
               \/ \E v \in Vps : vcpu[v] = "kick" /\ aim[v] = target
         \/ /\ slotBusy
            /\ due[target] \/ (notify[target] /\ slot[target])

\* An open channel always lies over a whole GPADL the guest has not taken back.
OpenIsBacked == open # NoGpadl => gpadls[open] = "whole"
=============================================================================
