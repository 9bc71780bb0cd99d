----------------------------- MODULE Reassembly -----------------------------
(***************************************************************************)
(* The NAT's reassembly of the guest's fragmented datagrams (Reassembler,  *)
(* src/net/nat.rs).  Lengths are counted in half blocks (4 bytes), so a    *)
(* fragment starts on an even unit and only the last one may end on an odd *)
(* one.  A fragment's bytes are known by the datagram they belong to.      *)
(***************************************************************************)
EXTENDS Integers, Sequences, FiniteSets, FiniteSetsExt

CONSTANTS Ids,       \* identifications (the rest of a datagram's key is one)
          Units,     \* the longest payload, in half blocks
          MaxPending,\* MAX_REASSEMBLIES
          MaxFrags   \* fragments the guest sends

\* What resizing the payload puts where no fragment has written.
Hole == "hole"

ReassemblyAssumption ==
    {Units, MaxPending} \subseteq Nat \ {0} /\ MaxFrags \in Nat /\ Hole \notin Ids

VARIABLES pending, \* the datagrams being put together, oldest known by since
          out,     \* the datagram last delivered
          seen     \* fragments taken, which is also the time

vars == <<pending, out, seen>>

NoOut == [units |-> <<>>, ends |-> {}, done |-> FALSE]

Init == pending = {} /\ out = NoOut /\ seen = 0

Even(n) == n % 2 = 0

\* A well-formed fragment: it carries something, and all but the last are
\* whole blocks.
Fragments ==
    {[id |-> i, off |-> o, end |-> e, more |-> m] :
        i \in Ids, o \in 0 .. Units - 1, e \in 1 .. Units, m \in BOOLEAN}
Valid(f) == Even(f.off) /\ f.off < f.end /\ (f.more => Even(f.end))

Fresh(f) == [id |-> f.id, payload |-> <<>>, have |-> {}, len |-> -1, ends |-> {}, since |-> seen]

\* Faulty: the datagram's id is not compared.
SameAddresses(r, f) == TRUE

\* The datagram a fragment belongs to.
Matches(r, f) == r.id = f.id

\* Faulty: a last fragment may be shorter than what has arrived.
ContradictsKnown(r, f) == r.len # -1 /\ (f.end > r.len \/ (~f.more /\ f.end # r.len))

\* Its fragments disagree on where it ends.
Contradicts(r, f) ==
    IF r.len # -1 THEN f.end > r.len \/ (~f.more /\ f.end # r.len)
    ELSE ~f.more /\ Len(r.payload) > f.end

\* The fragment's bytes, its blocks' bits, and the length if it is the last.
Added(r, f) ==
    LET n == IF Len(r.payload) < f.end THEN f.end ELSE Len(r.payload)
        at(j) == IF f.off < j /\ j <= f.end THEN f.id
                 ELSE IF j <= Len(r.payload) THEN r.payload[j] ELSE Hole
    IN [r EXCEPT !.payload = [j \in 1 .. n |-> at(j)],
                 !.have = @ \cup (f.off \div 2 .. (f.end + 1) \div 2 - 1),
                 !.ends = @ \cup {f.end},
                 !.len = IF f.more THEN @ ELSE f.end]

\* Faulty: blocks are counted without asking which they are.
CompleteByCount(r) == r.len # -1 /\ Cardinality(r.have) * 2 >= r.len - 1

Complete(r) == r.len # -1 /\ 0 .. (r.len + 1) \div 2 - 1 \subseteq r.have

\* add: find or start the datagram (the oldest goes when the table is full),
\* drop it if contradicted, else put the fragment in and deliver it if whole.
Add(f) ==
    LET known == {r \in pending : Matches(r, f)}
        kept == IF known = {} /\ Cardinality(pending) >= MaxPending
                THEN {r \in pending : r.since # Min({q.since : q \in pending})}
                ELSE pending
        r == IF known = {} THEN Fresh(f) ELSE CHOOSE q \in known : TRUE
        a == Added(r, f)
    IN CASE Contradicts(r, f) -> pending' = kept \ {r} /\ out' = NoOut
         [] ~Contradicts(r, f) /\ Complete(a) ->
              /\ pending' = kept \ {r}
              /\ out' = [units |-> SubSeq(a.payload, 1, a.len), ends |-> a.ends, done |-> TRUE]
         [] OTHER -> pending' = (kept \ {r}) \cup {a} /\ out' = NoOut

TakeFragment ==
    /\ seen < MaxFrags
    /\ \E f \in {g \in Fragments : Valid(g)} : Add(f)
    /\ seen' = seen + 1

\* expire: its missing fragments never came.
Expire ==
    /\ \E r \in pending : pending' = pending \ {r}
    /\ UNCHANGED <<out, seen>>

Next == TakeFragment \/ Expire

Spec == Init /\ [][Next]_vars

-----------------------------------------------------------------------------
TypeOK ==
    /\ Cardinality(pending) <= MaxPending
    /\ \A r \in pending : r.len \in -1 .. Units /\ Len(r.payload) <= Units

\* What is delivered is one datagram, whole: every byte came in a fragment
\* of that identification, none is a hole left by resizing, and no fragment
\* reached past its end, in whatever order fragments came, overlapped,
\* repeated or contradicted each other.
WholeDatagram ==
    out.done =>
      /\ \A j \in DOMAIN out.units : out.units[j] = out.units[1] /\ out.units[j] # Hole
      /\ \A e \in out.ends : e <= Len(out.units)
=============================================================================
