--------------------------- MODULE RequestChannel ---------------------------
(***************************************************************************)
(* What a split virtqueue promises, with no ring, index or notification in *)
(* it: requests are taken in the order they were submitted, a taken        *)
(* request is completed once, and completions reach the driver in the      *)
(* order the device made them.  Virtqueue.tla is shown to implement this.  *)
(***************************************************************************)
EXTENDS Naturals, Sequences, FiniteSets

CONSTANT Heads          \* request identities: descriptor-chain heads

VARIABLES submitted,    \* sequence of heads the device has not taken yet
          taken,        \* set of heads the device is working on
          done          \* sequence of heads completed and not yet reaped

vars == <<submitted, taken, done>>

Elems(s) == {s[i] : i \in 1..Len(s)}
Owned == Elems(submitted) \cup taken \cup Elems(done)

Init == submitted = <<>> /\ taken = {} /\ done = <<>>

Submit(h) ==
  /\ h \notin Owned
  /\ submitted' = Append(submitted, h)
  /\ UNCHANGED <<taken, done>>

Take ==
  /\ submitted # <<>>
  /\ taken' = taken \cup {Head(submitted)}
  /\ submitted' = Tail(submitted)
  /\ UNCHANGED done

Complete(h) ==
  /\ h \in taken
  /\ taken' = taken \ {h}
  /\ done' = Append(done, h)
  /\ UNCHANGED submitted

Reap ==
  /\ done # <<>>
  /\ done' = Tail(done)
  /\ UNCHANGED <<submitted, taken>>

Next == Take \/ Reap \/ \E h \in Heads : Submit(h) \/ Complete(h)

\* The device always gets to the next request, finishes what it took, and the
\* driver always learns of it.
Fairness ==
  /\ WF_vars(Take)
  /\ WF_vars(Reap)
  /\ \A h \in Heads : WF_vars(Complete(h))

Spec == Init /\ [][Next]_vars /\ Fairness
=============================================================================
