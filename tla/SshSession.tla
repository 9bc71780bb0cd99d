----------------------------- MODULE SshSession -----------------------------
(***************************************************************************)
(* One connection to tinyinit's SSH server (tinyinit/src/ssh.rs): the      *)
(* handlers that open channels, give them a terminal and start a shell,    *)
(* and the task that serves each shell until it ends or its channel goes.  *)
(*                                                                         *)
(* russh, tokio and the kernel are external. A shell may leave a job in    *)
(* its process group, or one in a session of its own ("escaped").          *)
(***************************************************************************)
EXTENDS Naturals, FiniteSets

CONSTANTS Ids,         \* channel ids the client uses
          MaxChannels, \* channels a connection may hold
          MaxOut       \* output a shell writes

SshAssumption == {MaxChannels, MaxOut} \subseteq Nat \ {0}

VARIABLES
    conn, user,  \* the connection is up; its authenticated user
    chan,        \* per channel: none, open, started (its Channel was taken)
    pty,         \* per channel: none, both (slave held here too), master
    cancel,      \* per channel's task: none, armed, sent
    task,        \* serve_process: none, select, killed, drain, end, done
    shell, job,  \* none, live, zombie (shell), escaped (job), dead
    unsent,      \* output written and not yet sent to the client
    cut,         \* the task gave up on the output after two seconds
    told         \* exit status, EOF and close were sent

link == <<conn, user>>
procs == <<shell, job, unsent>>
vars == <<link, chan, pty, cancel, task, procs, cut, told>>

All(v) == [i \in Ids |-> v]
Init ==
    /\ conn = TRUE /\ user = FALSE
    /\ chan = All("none") /\ pty = All("none") /\ cancel = All("none")
    /\ task = All("none") /\ shell = All("none") /\ job = All("none")
    /\ unsent = All(0) /\ cut = All(FALSE) /\ told = All(FALSE)

---------------------------------------------------------------------------
\* auth_publickey: the name and the key must match one login.
AuthPublickey ==
    /\ conn /\ ~user /\ user' \in BOOLEAN
    /\ UNCHANGED <<conn, chan, pty, cancel, task, procs, cut, told>>

\* channel_open_session; an id is used once.
ChannelOpenSession(i) ==
    /\ conn /\ user /\ chan[i] = "none" /\ task[i] = "none" /\ cancel[i] = "none"
    /\ Cardinality({j \in Ids : chan[j] # "none"}) < MaxChannels
    /\ chan' = [chan EXCEPT ![i] = "open"]
    /\ UNCHANGED <<link, pty, cancel, task, procs, cut, told>>

\* pty_request: once, and before the shell starts.
PtyRequest(i) ==
    /\ conn /\ chan[i] = "open" /\ pty[i] = "none"
    /\ pty' = [pty EXCEPT ![i] = "both"]
    /\ UNCHANGED <<link, chan, cancel, task, procs, cut, told>>

\* Faulty: the server keeps the slave open.
SlaveAfterStartKept(i) == pty[i]

\* start, for a shell or a command: a channel starts one. Only the child
\* keeps the terminal's slave.
SlaveAfterStart(i) == IF pty[i] = "both" THEN "master" ELSE pty[i]
Start(i) ==
    /\ conn /\ chan[i] = "open"
    /\ chan' = [chan EXCEPT ![i] = "started"]
    /\ shell' = [shell EXCEPT ![i] = "live"]
    /\ pty' = [pty EXCEPT ![i] = SlaveAfterStart(i)]
    /\ cancel' = [cancel EXCEPT ![i] = "armed"]
    /\ task' = [task EXCEPT ![i] = "select"]
    /\ UNCHANGED <<link, job, unsent, cut, told>>

\* Faulty: the task is not told.
DropQuietly(gone) == cancel

\* A ChannelState that is dropped tells its task. What follows is the drop of
\* one channel, or of a connection with all of them.
Drop(gone) ==
    [i \in Ids |-> IF i \in gone /\ cancel[i] = "armed" THEN "sent" ELSE cancel[i]]
Dropped(gone) ==
    /\ cancel' = Drop(gone)
    /\ chan' = [i \in Ids |-> IF i \in gone THEN "none" ELSE chan[i]]
    /\ pty' = [i \in Ids |-> IF i \in gone /\ pty[i] = "both" THEN "none" ELSE pty[i]]
ChannelClose(i) ==
    /\ conn /\ chan[i] # "none"
    /\ Dropped({i})
    /\ UNCHANGED <<link, task, procs, cut, told>>
\* The client goes away, or a handler failed (a spawn, say): the connection
\* ends with all its channels.
ConnectionEnds ==
    /\ conn /\ conn' = FALSE
    /\ Dropped({i \in Ids : chan[i] # "none"})
    /\ UNCHANGED <<user, task, procs, cut, told>>
\* start failed after the spawn: kill_on_drop kills the child.
StartFails(i) ==
    /\ conn /\ chan[i] = "open"
    /\ conn' = FALSE
    /\ Dropped({j \in Ids : chan[j] # "none"})
    /\ shell' = [shell EXCEPT ![i] = "dead"]
    /\ UNCHANGED <<user, task, job, unsent, cut, told>>

---------------------------------------------------------------------------
\* The shell: it leaves a job behind, writes, ends.
Background(i) ==
    /\ shell[i] = "live" /\ job[i] = "none"
    /\ \E j \in {"live", "escaped"} : job' = [job EXCEPT ![i] = j]
    /\ UNCHANGED <<link, chan, pty, cancel, task, shell, unsent, cut, told>>
Output(i) ==
    /\ shell[i] = "live" /\ unsent[i] < MaxOut
    /\ unsent' = [unsent EXCEPT ![i] = @ + 1]
    /\ UNCHANGED <<link, chan, pty, cancel, task, shell, job, cut, told>>
Exits(i) ==
    /\ \/ shell[i] = "live" /\ shell' = [shell EXCEPT ![i] = "zombie"] /\ UNCHANGED job
       \/ job[i] \in {"live", "escaped"} /\ job' = [job EXCEPT ![i] = "dead"] /\ UNCHANGED shell
    /\ UNCHANGED <<link, chan, pty, cancel, task, unsent, cut, told>>

\* drop of ProcessGroup: SIGKILL to the group.
KillGroup(i) ==
    /\ shell' = [shell EXCEPT ![i] = IF @ = "live" THEN "zombie" ELSE @]
    /\ job' = [job EXCEPT ![i] = IF @ = "live" THEN "dead" ELSE @]

\* The output tasks of channel i.
Forward(i) ==
    /\ task[i] \in {"select", "killed", "drain"} /\ unsent[i] > 0
    /\ unsent' = [unsent EXCEPT ![i] = @ - 1]
    /\ UNCHANGED <<link, chan, pty, cancel, task, shell, job, cut, told>>
Eof(i) ==
    /\ unsent[i] = 0 /\ shell[i] # "live" /\ job[i] \notin {"live", "escaped"}
    /\ pty[i] # "both"

\* serve_process: the shell's end, or the channel's, which kills the group.
WaitedFor(i) ==
    /\ task[i] = "select" /\ shell[i] = "zombie"
    /\ shell' = [shell EXCEPT ![i] = "dead"] /\ task' = [task EXCEPT ![i] = "drain"]
    /\ UNCHANGED <<link, chan, pty, cancel, job, unsent, cut, told>>
CancelChanged(i) ==
    /\ task[i] = "select" /\ cancel[i] = "sent"
    /\ KillGroup(i) /\ task' = [task EXCEPT ![i] = "killed"]
    /\ UNCHANGED <<link, chan, pty, cancel, unsent, cut, told>>
WaitedKilled(i) ==
    /\ task[i] = "killed" /\ shell[i] = "zombie"
    /\ shell' = [shell EXCEPT ![i] = "dead"] /\ task' = [task EXCEPT ![i] = "drain"]
    /\ UNCHANGED <<link, chan, pty, cancel, job, unsent, cut, told>>
\* All the output, or two seconds of it.
Drain(i) ==
    /\ task[i] = "drain"
    /\ cut' = [cut EXCEPT ![i] = ~Eof(i)] /\ task' = [task EXCEPT ![i] = "end"]
    /\ UNCHANGED <<link, chan, pty, cancel, procs, told>>

\* Faulty: the group is left running.
EndGroupLeft(i) == UNCHANGED <<shell, job>>

\* The exit status, EOF and close; then the group, dropped with the task if
\* the channel's end had not dropped it (then nothing of it is left).
EndGroup(i) == KillGroup(i)
ServeEnds(i) ==
    /\ task[i] = "end" /\ task' = [task EXCEPT ![i] = "done"]
    /\ told' = [told EXCEPT ![i] = TRUE]
    /\ EndGroup(i)
    /\ pty' = [pty EXCEPT ![i] = IF @ = "master" THEN "none" ELSE @]
    /\ UNCHANGED <<link, chan, cancel, unsent, cut>>

Serve(i) == WaitedFor(i) \/ CancelChanged(i) \/ WaitedKilled(i) \/ Drain(i) \/ ServeEnds(i)
Client(i) == ChannelOpenSession(i) \/ PtyRequest(i) \/ Start(i) \/ StartFails(i) \/ ChannelClose(i)
Guest(i) == Background(i) \/ Output(i) \/ Exits(i) \/ Forward(i)
Next == AuthPublickey \/ ConnectionEnds \/ \E i \in Ids : Client(i) \/ Guest(i) \/ Serve(i)
Spec == Init /\ [][Next]_vars
\* tokio polls a task that is ready, and its timers expire.
FairSpec == Spec /\ \A i \in Ids : WF_vars(Serve(i))

TypeOK ==
    /\ {conn, user} \subseteq BOOLEAN
    /\ chan \in [Ids -> {"none", "open", "started"}] /\ pty \in [Ids -> {"none", "both", "master"}]
    /\ cancel \in [Ids -> {"none", "armed", "sent"}]
    /\ task \in [Ids -> {"none", "select", "killed", "drain", "end", "done"}]
    /\ shell \in [Ids -> {"none", "live", "zombie", "dead"}]
    /\ job \in [Ids -> {"none", "live", "escaped", "dead"}]
    /\ unsent \in [Ids -> 0..MaxOut] /\ cut \in [Ids -> BOOLEAN] /\ told \in [Ids -> BOOLEAN]

\* "Killing the session's original process group also cleans up ordinary
\* shell children": once a session is over no process of its group runs, and
\* a running session whose channel or connection is gone has been told.
SessionsEnd ==
    \A i \in Ids :
        /\ task[i] = "done" => shell[i] = "dead" /\ job[i] # "live"
        /\ shell[i] = "live" /\ chan[i] = "none" => cancel[i] = "sent"

\* "Only the child should hold the slave; otherwise the master never reaches
\* EOF": once the output is sent, nothing but a process still running keeps a
\* session from its end.
EofIsReached ==
    \A i \in Ids :
        task[i] = "drain" /\ unsent[i] = 0 /\ job[i] \notin {"live", "escaped"} => Eof(i)

\* A session whose channel closed, or whose shell ended, is over in the end.
Ending(i) == task[i] = "select" /\ (cancel[i] = "sent" \/ shell[i] = "zombie")
Over(i) == task[i] = "done"
SessionIsOver == \A i \in Ids : Ending(i) ~> Over(i)
=============================================================================
