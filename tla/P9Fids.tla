------------------------------- MODULE P9Fids --------------------------------
(***************************************************************************)
(* The fid table of virtio-9p (src/virtio/p9.rs): the handlers of the        *)
(* requests that P9Device moves about.  A handler looks its fid up under the *)
(* fids lock, lets go of it for the host's file system, and takes it again   *)
(* to store what it got; any other handler may run in between, on the same   *)
(* fid.  The guest may send anything at any time.                            *)
(*                                                                         *)
(* The share is one directory of files.  A file is a number, given out when  *)
(* it is created; 0 is the directory itself.  A host handle has one file     *)
(* open, and its value is handed out again once it is closed.               *)
(***************************************************************************)
EXTENDS Integers, FiniteSets, FiniteSetsExt

CONSTANTS Fids,       \* fid numbers the guest uses
          Names,      \* names in the directory
          Handles,    \* values of host handles, numbers
          Runners,    \* threads that run handlers: the workers and the pump
          MaxFids,    \* MAX_FIDS
          Budget,     \* DIR_CACHE_BUDGET, in entries
          MaxFiles,   \* bound on the files created
          MaxAsks     \* bound on the requests

FidsAssumption ==
  /\ IsFiniteSet(Fids) /\ IsFiniteSet(Names) /\ IsFiniteSet(Handles) /\ Handles \subseteq Nat
  /\ MaxFids \in Nat /\ Budget \in Nat /\ MaxFiles \in Nat /\ MaxAsks \in Nat
  /\ Cardinality(Handles) >= Cardinality(Fids) + Cardinality(Runners)

None == 0 - 2         \* no handle, no name, no fid
Dir == "dir"          \* the empty path: the share's root
Closed == 0 - 1       \* the handle is closed; the name is free
Rels == Names \cup {Dir}
Free == [rel |-> "free", of |-> Closed, handle |-> None, listing |-> 0]   \* no such fid

VARIABLES
  tree,     \* the host's directory: the file of each name
  file,     \* the file each handle has open
  fids,     \* struct Fids: fid -> FidEntry
  job,      \* per runner: the handler it is in and that handler's locals
  files,    \* files created so far
  asked     \* requests so far

vars == <<tree, file, fids, job, files, asked>>

\* FidEntry::new: rel, not open, no listing.  `of' is a history variable, the
\* file that rel named when the fid got it.
Entry(rel, of) == [rel |-> rel, of |-> of, handle |-> None, listing |-> 0]
NoJob == [op |-> "idle", fid |-> None, arg |-> None, rel |-> Dir, handle |-> None,
          held |-> FALSE, want |-> Closed]

FileAt(rel) == IF rel = Dir THEN 0 ELSE tree[rel]

Init ==
  /\ tree \in [Names -> {Closed, 1}] /\ \E n \in Names: \A m \in Names: tree[m] = 1 <=> m = n
  /\ files = 1 /\ asked = 0 /\ file = [h \in Handles |-> Closed]
  /\ fids = [f \in Fids |-> Free] /\ job = [r \in Runners |-> NoJob]

Used == {f \in Fids: fids[f] # Free}
Opened(f) == fids[f].handle # None

\* Drop for OwnedHandle: a handle is closed with the last Arc that holds it, in
\* the table or in a handler.
HeldIn(newFids, newJob) ==
  {newFids[f].handle: f \in {g \in Fids: newFids[g] # Free}}
  \cup {newJob[r].handle: r \in {q \in Runners: newJob[q].held}}
Commit(newFids, newJob, newFile) ==
  /\ fids' = newFids /\ job' = newJob
  /\ file' = [h \in Handles |-> IF h \in HeldIn(newFids, newJob) THEN newFile[h] ELSE Closed]

SetFids(newFids) == Commit(newFids, job, file)
End(r) == [job EXCEPT ![r] = NoJob]
GiveUp(r) == Commit(fids, End(r), file)

\* The first half of a handler: what it has read under the lock.
Begin(r, op, f, arg) ==
  /\ job[r].op = "idle" /\ f \in Used
  /\ job' = [job EXCEPT ![r] = [NoJob EXCEPT !.op = op, !.fid = f, !.arg = arg,
                                             !.rel = fids[f].rel]]
  /\ UNCHANGED <<tree, file, fids, files>>

-----------------------------------------------------------------------------
(* Requests that are one step: h_version and reset, h_attach, h_clunk.     *)

Clear == SetFids([f \in Fids |-> Free]) /\ UNCHANGED <<tree, files>>

Attach(f) ==
  /\ f \in Used \/ Cardinality(Used) < MaxFids
  /\ SetFids([fids EXCEPT ![f] = Entry(Dir, 0)])
  /\ UNCHANGED <<tree, files>>

Clunk(f) == f \in Used /\ SetFids([fids EXCEPT ![f] = Free]) /\ UNCHANGED <<tree, files>>

-----------------------------------------------------------------------------
(* h_walk                                                                  *)

\* Faulty: the cap is left to Tattach.
WalkUncapped(r, f, new) ==
  /\ f \in Used /\ ~Opened(f)
  /\ new # f => new \notin Used
  /\ Begin(r, "walk", f, new)

Walk(r, f, new) ==
  /\ f \in Used /\ ~Opened(f)
  /\ new # f => new \notin Used /\ Cardinality(Used) < MaxFids
  /\ Begin(r, "walk", f, new)

\* stat_rel of each name, then the insert, which asks for nothing again.  No
\* names clones the fid; `..' of the root is the root.
WalkTo(r) ==
  /\ job[r].op = "walk"
  /\ \/ \E rel \in {job[r].rel} \cup (IF job[r].rel = Dir THEN Rels ELSE {Dir}):
          /\ rel = job[r].rel \/ FileAt(rel) # Closed
          /\ Commit([fids EXCEPT ![job[r].arg] = Entry(rel, FileAt(rel))], End(r), file)
     \/ GiveUp(r)
  /\ UNCHANGED <<tree, files>>

-----------------------------------------------------------------------------
(* h_lopen and h_lcreate: the handle is the handler's until it is stored.  *)

Lopen(r, f) == f \in Used /\ ~Opened(f) /\ Begin(r, "lopen", f, None)
Lcreate(r, f, n) ==
  f \in Used /\ fids[f].rel = Dir /\ ~Opened(f) /\ Begin(r, "lcreate", f, n)

\* open_rel: the host hands out the lowest value that is free.
OpenAs(r, rel, of, op) ==
  LET h == Min({k \in Handles: file[k] = Closed}) IN
    Commit(fids, [job EXCEPT ![r].op = op, ![r].rel = rel, ![r].handle = h, ![r].held = TRUE,
                             ![r].want = of],
           [file EXCEPT ![h] = of])

LopenHost(r) ==
  /\ job[r].op = "lopen"
  /\ IF FileAt(job[r].rel) # Closed
     THEN OpenAs(r, job[r].rel, FileAt(job[r].rel), "lopened") ELSE GiveUp(r)
  /\ UNCHANGED <<tree, files>>

\* Create::OpenOrNew, or Create::New where O_EXCL refuses a name that is taken.
LcreateHost(r) ==
  /\ job[r].op = "lcreate"
  /\ LET n == job[r].arg IN
     \/ tree[n] # Closed /\ OpenAs(r, n, tree[n], "lcreated") /\ UNCHANGED <<tree, files>>
     \/ tree[n] # Closed /\ GiveUp(r) /\ UNCHANGED <<tree, files>>
     \/ /\ tree[n] = Closed /\ files < MaxFiles
        /\ files' = files + 1 /\ tree' = [tree EXCEPT ![n] = files + 1]
        /\ OpenAs(r, n, files + 1, "lcreated")

\* h_mkdir creates a name and keeps nothing open.
Mkdir(r, f, n) == f \in Used /\ fids[f].rel = Dir /\ Begin(r, "mkdir", f, n)
MkdirHost(r) ==
  /\ job[r].op = "mkdir"
  /\ IF tree[job[r].arg] = Closed /\ files < MaxFiles
     THEN files' = files + 1 /\ tree' = [tree EXCEPT ![job[r].arg] = files + 1]
     ELSE UNCHANGED <<tree, files>>
  /\ GiveUp(r)

\* The fid may be gone or have been opened meanwhile.
LopenStore(r) ==
  /\ job[r].op = "lopened"
  /\ LET f == job[r].fid IN
     IF f \in Used /\ ~Opened(f)
     THEN Commit([fids EXCEPT ![f].handle = job[r].handle], End(r), file)
     ELSE GiveUp(r)
  /\ UNCHANGED <<tree, files>>

\* Only that the fid is there is looked at again: what it has open is replaced.
LcreateStore(r) ==
  /\ job[r].op = "lcreated"
  /\ LET f == job[r].fid IN
     IF f \in Used
     THEN Commit([fids EXCEPT ![f].rel = job[r].rel, ![f].of = job[r].want,
                              ![f].handle = job[r].handle], End(r), file)
     ELSE GiveUp(r)
  /\ UNCHANGED <<tree, files>>

-----------------------------------------------------------------------------
(* h_read, h_write, h_fsync, and h_getattr and h_setattr of an open fid    *)

\* Faulty: the handle's value is taken and not the Arc.
UseUnheld(r, f) ==
  /\ job[r].op = "idle" /\ f \in Used /\ Opened(f)
  /\ job' = [job EXCEPT ![r] = [NoJob EXCEPT !.op = "use", !.fid = f, !.handle = fids[f].handle,
                                             !.want = file[fids[f].handle]]]
  /\ UNCHANGED <<tree, file, fids, files>>

\* readable_handle, writable_handle: a clone of the Arc.
Use(r, f) ==
  /\ job[r].op = "idle" /\ f \in Used /\ Opened(f)
  /\ job' = [job EXCEPT ![r] = [NoJob EXCEPT !.op = "use", !.fid = f, !.handle = fids[f].handle,
                                             !.held = TRUE, !.want = file[fids[f].handle]]]
  /\ UNCHANGED <<tree, file, fids, files>>

\* h_getattr and h_setattr of a fid that is not open: a handle of their own.
Stat(r, f) == f \in Used /\ ~Opened(f) /\ Begin(r, "stat", f, None)
StatHost(r) ==
  /\ job[r].op = "stat"
  /\ IF FileAt(job[r].rel) # Closed
     THEN OpenAs(r, job[r].rel, FileAt(job[r].rel), "use") ELSE GiveUp(r)
  /\ UNCHANGED <<tree, files>>

UseDone(r) == job[r].op = "use" /\ GiveUp(r) /\ UNCHANGED <<tree, files>>

-----------------------------------------------------------------------------
(* h_readdir                                                               *)

Listing == 1 + Cardinality({n \in Names: tree[n] # Closed})
Listed(t) == {f \in Fids: t[f] # Free /\ t[f].listing > 0}
Bytes(t, S) == MapThenSumSet(LAMBDA f: t[f].listing, S)

\* Faulty: the listing to be stored is not counted when the others are looked at.
EvictLate(t, f, size) ==
  {E \in SUBSET (Listed(t) \ {f}):
     LET rest(S) == Bytes(t, Listed(t) \ ({f} \cup S)) IN
     /\ rest(E) <= Budget \/ E = Listed(t) \ {f}
     /\ E # {} => \E e \in E: rest(E \ {e}) > Budget}

\* set_dir_cache_within: the listings that go, in any order, until the rest and
\* the new one are within the budget.
Evict(t, f, size) ==
  {E \in SUBSET (Listed(t) \ {f}):
     LET rest(S) == Bytes(t, Listed(t) \ ({f} \cup S)) + size IN
     /\ rest(E) <= Budget \/ E = Listed(t) \ {f}
     /\ E # {} => \E e \in E: rest(E \ {e}) > Budget}

\* From offset 0, or where the budget has dropped the listing, the directory is
\* listed again through a clone of the handle.  A chunk of a listing that is
\* there changes nothing.
Readdir(r, f) ==
  /\ job[r].op = "idle" /\ f \in Used /\ Opened(f) /\ fids[f].rel = Dir
  /\ job' = [job EXCEPT ![r] = [NoJob EXCEPT !.op = "readdir", !.fid = f,
               !.handle = fids[f].handle, !.held = TRUE, !.want = file[fids[f].handle]]]
  /\ UNCHANGED <<tree, file, fids, files>>

ReaddirStore(r) ==
  /\ job[r].op = "readdir"
  /\ LET f == job[r].fid IN
     IF f \in Used
     THEN \E E \in Evict(fids, f, Listing):
            Commit([g \in Fids |-> IF g = f THEN [fids[g] EXCEPT !.listing = Listing]
                                   ELSE IF g \in E THEN [fids[g] EXCEPT !.listing = 0]
                                   ELSE fids[g]], End(r), file)
     ELSE GiveUp(r)
  /\ UNCHANGED <<tree, files>>

-----------------------------------------------------------------------------
(* Names: h_remove, h_unlinkat, h_rename, h_renameat                       *)

\* h_remove takes the fid away first, whatever becomes of the file.
Remove(r, f) ==
  /\ job[r].op = "idle" /\ f \in Used
  /\ Commit([fids EXCEPT ![f] = Free],
            IF fids[f].rel = Dir THEN job
            ELSE [job EXCEPT ![r] = [NoJob EXCEPT !.op = "delete", !.rel = fids[f].rel]], file)
  /\ UNCHANGED <<tree, files>>
Unlinkat(r, f, n) ==
  /\ job[r].op = "idle" /\ f \in Used /\ fids[f].rel = Dir
  /\ job' = [job EXCEPT ![r] = [NoJob EXCEPT !.op = "delete", !.rel = n]]
  /\ UNCHANGED <<tree, file, fids, files>>

\* delete_entry: the name goes, handles keep the file.
DeleteHost(r) ==
  /\ job[r].op = "delete"
  /\ tree' = [tree EXCEPT ![job[r].rel] = Closed]
  /\ GiveUp(r) /\ UNCHANGED files

\* Trename names the file by its fid, Trenameat by its name.
Rename(r, f, n) == f \in Used /\ fids[f].rel # Dir /\ Begin(r, "rename", f, n)
Renameat(r, old, n) ==
  /\ job[r].op = "idle" /\ \E f \in Used: fids[f].rel = Dir
  /\ job' = [job EXCEPT ![r] = [NoJob EXCEPT !.op = "renameat", !.rel = old, !.arg = n]]
  /\ UNCHANGED <<tree, file, fids, files>>

\* rename_entry replaces the target, even one that is open.
RenameHost(r) ==
  /\ job[r].op \in {"rename", "renameat"}
  /\ LET old == job[r].rel  new == job[r].arg IN
     IF tree[old] = Closed THEN GiveUp(r) /\ UNCHANGED tree
     ELSE /\ tree' = [m \in Names |-> IF m = new THEN tree[old]
                                      ELSE IF m = old THEN Closed ELSE tree[m]]
          /\ IF job[r].op = "renameat" THEN GiveUp(r)
             ELSE Commit(fids, [job EXCEPT ![r].op = "renamed"], file)
  /\ UNCHANGED files

RenameStore(r) ==
  /\ job[r].op = "renamed"
  /\ LET f == job[r].fid IN
     IF f \in Used THEN Commit([fids EXCEPT ![f].rel = job[r].arg], End(r), file)
     ELSE GiveUp(r)
  /\ UNCHANGED <<tree, files>>

-----------------------------------------------------------------------------
\* apply_device_state: the table comes from a snapshot, and what was open is
\* opened again by its path, or left closed where the path names nothing.
Restore ==
  /\ \A r \in Runners: job[r].op = "idle"
  /\ LET again(f) == fids[f] # Free /\ Opened(f) /\ FileAt(fids[f].rel) # Closed IN
     Commit([f \in Fids |-> IF fids[f] = Free THEN Free
                            ELSE [fids[f] EXCEPT !.handle = IF again(f) THEN fids[f].handle ELSE None,
                                                 !.listing = 0]],
            job,
            [h \in Handles |->
               IF \E f \in Used: again(f) /\ fids[f].handle = h
               THEN FileAt(fids[CHOOSE f \in Used: fids[f].handle = h].rel) ELSE Closed])
  /\ UNCHANGED <<tree, files>>

Ask(r) ==
  \/ \E f \in Fids: \/ Lopen(r, f) \/ Use(r, f) \/ Stat(r, f) \/ Readdir(r, f) \/ Remove(r, f)
                    \/ \E g \in Fids: Walk(r, f, g)
                    \/ \E n \in Names: Lcreate(r, f, n) \/ Mkdir(r, f, n) \/ Unlinkat(r, f, n) \/ Rename(r, f, n)
  \/ \E n, m \in Names: Renameat(r, n, m)
Work(r) ==
  \/ WalkTo(r) \/ LopenHost(r) \/ LopenStore(r) \/ LcreateHost(r) \/ LcreateStore(r)
  \/ MkdirHost(r) \/ StatHost(r) \/ UseDone(r) \/ ReaddirStore(r) \/ DeleteHost(r) \/ RenameHost(r)
  \/ RenameStore(r)

Request ==
  \/ /\ \E r \in Runners: job[r].op = "idle"
     /\ Clear \/ \E f \in Fids: Attach(f) \/ Clunk(f)
  \/ \E r \in Runners: Ask(r)

Next == \/ asked < MaxAsks /\ asked' = asked + 1 /\ Request
        \/ UNCHANGED asked /\ (Restore \/ \E r \in Runners: Work(r))

Spec == Init /\ [][Next]_vars

-----------------------------------------------------------------------------
(* Properties                                                              *)

TypeOK ==
  /\ tree \in [Names -> {Closed} \cup 1..MaxFiles] /\ files \in 0..MaxFiles
  /\ file \in [Handles -> {Closed} \cup 0..MaxFiles]
  /\ \A f \in Used: /\ fids[f].rel \in Rels /\ fids[f].of \in {Closed} \cup 0..MaxFiles
                    /\ fids[f].handle \in Handles \cup {None}
                    /\ fids[f].listing \in 0..(1 + Cardinality(Names))
  /\ \A r \in Runners: job[r].handle \in Handles \cup {None} /\ job[r].rel \in Rels

Sharers(h) == {f \in Used: fids[f].handle = h}

\* "The real CloseHandle is deferred until the last in-flight user drops its
\* clone" (OwnedHandle): whatever is clunked, removed, reopened or reset while a
\* handler is in the host's file system, the handle it uses is open and is still
\* that of the file it was given for; a handle is closed once nobody has it, and
\* no two fids share one.
IoHitsItsFile ==
  /\ \A r \in Runners: job[r].handle # None => file[job[r].handle] = job[r].want
  /\ \A h \in Handles: file[h] # Closed <=> h \in HeldIn(fids, job)
  /\ \A h \in Handles: Cardinality(Sharers(h)) <= 1

\* MAX_FIDS "can overshoot only by the worker count" (h_walk): the workers and
\* the pump; and the listings of all fids together stay within DIR_CACHE_BUDGET
\* unless a single one is larger (set_dir_cache).
TableBounded ==
  /\ Cardinality(Used) <= MaxFids + Cardinality(Runners) - 1
  /\ Bytes(fids, Listed(fids)) <= Budget \/ Cardinality(Listed(fids)) = 1

\* "The file's path below the share root" (FidEntry::rel): whenever no request is
\* under way, a fid whose file has a name has it as its rel.
RelIsThePath ==
  (\A r \in Runners: job[r].op = "idle") =>
  \A f \in Used: (\E n \in Names: tree[n] = fids[f].of) => FileAt(fids[f].rel) = fids[f].of
=============================================================================
