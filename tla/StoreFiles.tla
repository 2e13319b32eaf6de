----------------------------- MODULE StoreFiles -----------------------------
(***************************************************************************)
(* The filesystem store, one (namespace, name) directory of it.  A Put     *)
(* streams into <rev>.tar.gz.tmp and renames it; Prune and Delete remove   *)
(* files one by one; the sweep goroutine removes the temporary files a     *)
(* dead process left.  They share a per-key mutex.  Readers (the artifact  *)
(* server, the MCP diff) take no lock and see every intermediate state.    *)
(* The process may die between any two steps; the directory survives.      *)
(***************************************************************************)
EXTENDS ArtifactGC

CONSTANTS
  Revisions,   \* content-addressed: one revision, one content
  GCGrace,     \* --artifact-gc-grace, in clock units
  MaxTmpAge,   \* --storage-sweep-max-tmp-age, in clock units
  Chunks,      \* writes a tarball takes
  MaxTime,     \* bound on the clock
  MaxFaults    \* bound on I/O errors and crashes

ASSUME StoreConstants ==
  /\ Revisions # {} /\ IsFiniteSet(Revisions)
  /\ GCGrace \in Nat /\ MaxTmpAge \in Nat /\ Chunks \in Nat \ {0}
  /\ MaxTime \in Nat /\ MaxFaults \in Nat

VARIABLES
  files,      \* <rev>.tar.gz: its mtime
  size,       \* <rev>.tar.gz: how much of the tarball it holds
  tmp,        \* <rev>.tar.gz.tmp: its mtime
  written,    \* <rev>.tar.gz.tmp: how much of the tarball it holds
  now,
  lock,       \* the per-key mutex
  pc,         \* what the reconcile's goroutine is doing in the store
  rev,        \* the revision it puts
  victims,    \* the files it has yet to remove
  unread,     \* the files its Prune could not Stat
  withdrawn,  \* it has begun a Delete since its last Put
  sweep,      \* what the sweep goroutine is doing
  cutoff,     \* the age limit it computed
  todo,       \* the names it has yet to look at
  budget      \* faults left

disk == <<files, size, tmp, written>>
worker == <<pc, rev, victims, unread, withdrawn>>
sweeper == <<sweep, cutoff, todo>>
vars == <<files, size, tmp, written, now, lock, pc, rev, victims, unread, withdrawn,
          sweep, cutoff, todo, budget>>

NoRev == CHOOSE r \in Revisions : TRUE

(* The type invariant: no tarball, temporary or final, ever holds more     *)
(* than was put into it, and every mtime is one the clock has shown.       *)
TypeOK ==
  /\ files \in [Revisions -> Nat \cup {NotStored}]
  /\ tmp \in [Revisions -> Nat \cup {NotStored}]
  /\ size \in [Revisions -> 0..Chunks] /\ written \in [Revisions -> 0..Chunks]
  /\ now \in Nat
  /\ lock \in {"none", "worker", "sweeper"}
  /\ pc \in {"idle", "write", "evict", "wipe"}
  /\ rev \in Revisions /\ victims \subseteq Revisions /\ unread \subseteq Revisions
  /\ withdrawn \in BOOLEAN
  /\ sweep \in {"idle", "lock", "clean"}
  /\ cutoff \in Int /\ todo \subseteq Revisions
  /\ budget \in Nat

Init ==
  /\ files = [r \in Revisions |-> NotStored] /\ size = [r \in Revisions |-> 0]
  /\ tmp = [r \in Revisions |-> NotStored] /\ written = [r \in Revisions |-> 0]
  /\ now = 0
  /\ lock = "none"
  /\ pc = "idle" /\ rev = NoRev /\ victims = {} /\ unread = {} /\ withdrawn = FALSE
  /\ sweep = "idle" /\ cutoff = 0 /\ todo = {}
  /\ budget = MaxFaults

Fault == budget > 0 /\ budget' = budget - 1
NoFault == UNCHANGED budget

(* The goroutine leaves the store. *)
Unlock ==
  /\ lock' = "none" /\ pc' = "idle" /\ rev' = NoRev
  /\ victims' = {} /\ unread' = {}

-----------------------------------------------------------------------------
(* Put of a revision that is on disk: the file is hashed, and its mtime    *)
(* bumped when a newer sibling makes this a revert.  A failing hash is an  *)
(* error; a failing Chtimes, listing or Stat of a sibling goes unnoticed.   *)
PutExisting(r) ==
  /\ pc = "idle" /\ lock = "none"
  /\ r \in Stored(files)
  /\ withdrawn' = FALSE
  /\ \/ files' = PutRevision(files, r, now) /\ NoFault
     \/ Fault /\ UNCHANGED files
  /\ UNCHANGED <<size, tmp, written, now, lock, pc, rev, victims, unread, sweeper>>

(* Put of a new one, or of one whose Stat fails: create (or truncate) the  *)
(* temporary file.                                                         *)
PutCreate(r) ==
  /\ pc = "idle" /\ lock = "none"
  /\ \/ r \notin Stored(files) /\ NoFault
     \/ r \in Stored(files) /\ Fault
  /\ lock' = "worker" /\ pc' = "write" /\ rev' = r
  /\ tmp' = [tmp EXCEPT ![r] = now] /\ written' = [written EXCEPT ![r] = 0]
  /\ UNCHANGED <<files, size, now, victims, unread, withdrawn, sweeper>>

(* Mutant: the last block and its Close are not waited for. *)
FlushedEarly == written[rev] + 1 >= Chunks

Flushed == written[rev] = Chunks

PutWrite ==
  /\ pc = "write" /\ ~Flushed
  /\ tmp' = IF tmp[rev] = NotStored THEN tmp ELSE [tmp EXCEPT ![rev] = now]
  /\ written' = [written EXCEPT ![rev] = @ + 1]
  /\ UNCHANGED <<files, size, now, lock, worker, sweeper, budget>>

(* Create, Write, Close or Rename fails: remove the temporary file if that *)
(* works, and give up.                                                     *)
PutFails ==
  /\ pc = "write"
  /\ Fault
  /\ tmp' \in {tmp, [tmp EXCEPT ![rev] = NotStored]}
  /\ Unlock
  /\ UNCHANGED <<files, size, written, now, withdrawn, sweeper>>

PutRename ==
  /\ pc = "write" /\ Flushed
  /\ tmp[rev] # NotStored
  /\ files' = [files EXCEPT ![rev] = tmp[rev]]
  /\ size' = [size EXCEPT ![rev] = written[rev]]
  /\ tmp' = [tmp EXCEPT ![rev] = NotStored]
  /\ withdrawn' = FALSE
  /\ Unlock
  /\ UNCHANGED <<written, now, sweeper, budget>>

-----------------------------------------------------------------------------
(* Mutant: a revision is taken to be superseded when it was written. *)
VictimsByAge(found, keep) ==
  {r \in Stored(found) \ keep : keep # {} /\ now - found[r] >= GCGrace}

Victims(found, keep) == PruneVictims(found, keep, now, GCGrace)

(* Prune decides under the lock, then removes in directory order.  A file  *)
(* whose Stat fails is silently passed over: it is no victim, and the      *)
(* others are judged as if it were not there.                              *)
PruneSelect ==
  /\ pc = "idle" /\ lock = "none"
  /\ \/ unread' = {} /\ NoFault
     \/ unread' \in (SUBSET Stored(files)) \ {{}} /\ Fault
  /\ \E keep \in SUBSET Revisions :
       /\ victims' = Victims(Remove(files, unread'), keep)
       /\ victims' # {}
  /\ lock' = "worker" /\ pc' = "evict"
  /\ UNCHANGED <<disk, now, rev, withdrawn, sweeper>>

PruneRemove ==
  /\ pc = "evict" /\ victims # {}
  /\ \E r \in victims :
       /\ files' = [files EXCEPT ![r] = NotStored]
       /\ victims' = victims \ {r}
  /\ UNCHANGED <<size, tmp, written, now, lock, pc, rev, unread, withdrawn, sweeper, budget>>

PruneEnds ==
  /\ pc = "evict"
  /\ \/ victims = {} /\ NoFault
     \/ Fault
  /\ Unlock
  /\ UNCHANGED <<disk, now, withdrawn, sweeper>>

(* Delete is a RemoveAll: both kinds of file, in any order. *)
DeleteStart ==
  /\ pc = "idle" /\ lock = "none"
  /\ lock' = "worker" /\ pc' = "wipe"
  /\ victims' = Revisions /\ withdrawn' = TRUE
  /\ UNCHANGED <<disk, now, rev, unread, sweeper, budget>>

DeleteRemove ==
  /\ pc = "wipe" /\ victims # {}
  /\ \E r \in victims :
       /\ victims' = victims \ {r}
       /\ files' = [files EXCEPT ![r] = NotStored]
       /\ tmp' = [tmp EXCEPT ![r] = NotStored]
  /\ UNCHANGED <<size, written, now, lock, pc, rev, unread, withdrawn, sweeper, budget>>

DeleteEnds ==
  /\ pc = "wipe"
  /\ \/ victims = {} /\ NoFault
     \/ Fault
  /\ Unlock
  /\ UNCHANGED <<disk, now, withdrawn, sweeper>>

-----------------------------------------------------------------------------
(* The sweep: the cutoff is computed before the lock is waited for. *)
SweepStart ==
  /\ sweep = "idle"
  /\ \E r \in Revisions : tmp[r] # NotStored
  /\ cutoff' = now - MaxTmpAge
  /\ sweep' = "lock"
  /\ UNCHANGED <<disk, now, lock, worker, todo, budget>>

(* Mutant: the age limit alone protects a Put under way. *)
NoExclusion == TRUE

SweepMayEnter == lock = "none"

(* Mutant: the filter of Prune, which passes over temporary files. *)
SweepNothing == {}

SweepNames == Stored(tmp)

SweepEnter ==
  /\ sweep = "lock" /\ SweepMayEnter
  /\ lock' = IF lock = "none" THEN "sweeper" ELSE lock
  /\ sweep' = "clean" /\ todo' = SweepNames
  /\ UNCHANGED <<disk, now, worker, cutoff, budget>>

(* A file that cannot be removed is reported and passed over. *)
SweepOne ==
  /\ sweep = "clean"
  /\ \E r \in todo :
       /\ todo' = todo \ {r}
       /\ \/ /\ tmp[r] # NotStored /\ tmp[r] <= cutoff
             /\ tmp' = [tmp EXCEPT ![r] = NotStored]
             /\ NoFault
          \/ /\ tmp[r] # NotStored /\ tmp[r] <= cutoff
             /\ Fault /\ UNCHANGED tmp
          \/ /\ tmp[r] = NotStored \/ tmp[r] > cutoff
             /\ UNCHANGED <<tmp, budget>>
  /\ UNCHANGED <<files, size, written, now, lock, worker, sweep, cutoff>>

SweepEnds ==
  /\ sweep = "clean" /\ todo = {}
  /\ sweep' = "idle" /\ cutoff' = 0
  /\ lock' = IF lock = "sweeper" THEN "none" ELSE lock
  /\ UNCHANGED <<disk, now, worker, todo, budget>>

-----------------------------------------------------------------------------
(* The process dies; the files stay as they are. *)
Crash ==
  /\ pc # "idle" \/ sweep # "idle"
  /\ Fault
  /\ Unlock
  /\ sweep' = "idle" /\ cutoff' = 0 /\ todo' = {}
  /\ UNCHANGED <<disk, now, withdrawn>>

(* The Rename follows the last write within the resolution of the clock. *)
Tick ==
  /\ now < MaxTime
  /\ ~(pc = "write" /\ Flushed)
  /\ now' = now + 1
  /\ UNCHANGED <<disk, lock, worker, sweeper, budget>>

Work ==
  \/ PutWrite \/ PutFails \/ PutRename
  \/ PruneRemove \/ PruneEnds \/ DeleteRemove \/ DeleteEnds

Sweep == SweepStart \/ SweepEnter \/ SweepOne \/ SweepEnds

Next ==
  \/ \E r \in Revisions : PutExisting(r) \/ PutCreate(r)
  \/ PruneSelect \/ DeleteStart
  \/ Work \/ Sweep \/ Crash \/ Tick

Spec == Init /\ [][Next]_vars

(* A sync.Mutex does not starve a waiter: past 1 ms it is handed over. *)
Fairness ==
  /\ WF_vars(Work) /\ WF_vars(SweepStart) /\ SF_vars(SweepEnter)
  /\ WF_vars(SweepOne \/ SweepEnds) /\ SF_vars(Tick)

FairSpec == Spec /\ Fairness

-----------------------------------------------------------------------------
(* A reader finds a whole tarball or none, at every instant. *)
TarballsComplete == \A r \in Stored(files) : size[r] = Chunks

(* The sweep never takes away the file a Put is writing, however long the  *)
(* Put takes: the Rename at its end cannot miss its file.                  *)
InFlightKept == pc = "write" => tmp[rev] # NotStored

Store == INSTANCE RevisionStore WITH
  files <- files, now <- now, withdrawn <- withdrawn, unread <- unread

(* What a dead process left goes away once it is old enough, unless a      *)
(* later Put takes it over.                                                *)
ResidueReclaimed ==
  \A r \in Revisions :
    tmp[r] # NotStored /\ tmp[r] + MaxTmpAge <= MaxTime /\ budget = 0
      ~> tmp[r] = NotStored \/ tmp[r] + MaxTmpAge > MaxTime
=============================================================================
