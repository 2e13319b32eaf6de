----------------------------- MODULE ArtifactGC -----------------------------
(***************************************************************************)
(* The retention rules of the artifact store, as operators: which stored   *)
(* revisions a Put stamps, which ones a Prune removes, and which ones a    *)
(* snippet asks to keep.  internal/storage shares selectPruneVictims       *)
(* between the filesystem store and the S3 backend; internal/operator      *)
(* computes the keep-set and the history the status records.               *)
(*                                                                         *)
(* A store is a function from revisions to modification times, NotStored   *)
(* for a revision that has no tarball.  The clock is coarse on purpose:    *)
(* two writes in one unit carry the same mtime, as they do on a filesystem *)
(* or in a bucket with one-second timestamps.                              *)
(***************************************************************************)
EXTENDS Integers, Sequences, FiniteSets

NotStored == -1

Stored(files) == {r \in DOMAIN files : files[r] # NotStored}

(* hasNewerSibling: some other tarball was written strictly later. *)
HasNewerSibling(files, rev) ==
  \E r \in Stored(files) \ {rev} : files[r] > files[rev]

(* Mutant: a tarball that is already there is always left alone. *)
PutRevisionNoBump(files, rev, now) ==
  IF rev \in Stored(files) THEN files ELSE [files EXCEPT ![rev] = now]

(* Put of a revision.  A tarball that is already there is left alone,      *)
(* unless the Put revives it behind a newer sibling (a revert): then its   *)
(* mtime is bumped so that the displaced revisions get a fresh anchor.     *)
PutRevision(files, rev, now) ==
  IF rev \in Stored(files) /\ ~HasNewerSibling(files, rev)
    THEN files
    ELSE [files EXCEPT ![rev] = now]

(* What a Put that succeeds may leave when metadata cannot be read or set   *)
(* and nobody notices: a failing Stat of the tarball has it written again,  *)
(* a failing listing, Stat of a sibling or Chtimes leaves a revert with its *)
(* old mtime.                                                               *)
PutMisread(files, rev, now) ==
  {[files EXCEPT ![rev] = t] : t \in {now} \cup ({files[rev]} \ {NotStored})}

(* S3Backend.Put: an object that is already there is left alone, revert or *)
(* not; a bucket's LastModified cannot be set.                             *)
PutObject(files, rev, now) ==
  IF rev \in Stored(files) THEN files ELSE [files EXCEPT ![rev] = now]

Remove(files, victims) ==
  [r \in DOMAIN files |-> IF r \in victims THEN NotStored ELSE files[r]]

Newer(files, rev) == {r \in Stored(files) : files[r] > files[rev]}

(* The instant a revision is taken to be superseded: the earliest mtime    *)
(* strictly after its own, its own when nothing is newer.                  *)
SupersededAt(files, rev) ==
  IF Newer(files, rev) = {}
    THEN files[rev]
    ELSE CHOOSE t \in {files[r] : r \in Newer(files, rev)} :
           \A r \in Newer(files, rev) : t <= files[r]

(* selectPruneVictims, and the empty keep-set that makes Prune a no-op. *)
PruneVictims(files, keep, now, grace) ==
  {r \in Stored(files) \ keep :
      /\ keep # {}
      /\ grace > 0 => now - SupersededAt(files, r) >= grace}

(* max(int(history), 1) *)
Limit(history) == IF history < 1 THEN 1 ELSE history

(* buildKeepRevisions: the first Limit(history) distinct revisions of the  *)
(* new one followed by the recorded ones.                                  *)
BuildKeepRevisions(new, prior, history) ==
  LET s == <<new>> \o prior
      Before(i) == {s[j] : j \in 1..(i - 1)}
  IN  {s[i] : i \in {j \in 1..Len(s) : Cardinality(Before(j)) < Limit(history)}}

Truncate(s, n) == SubSeq(s, 1, IF Len(s) < n THEN Len(s) ELSE n)

(* updateRevisionHistory: a republished head is not recorded twice. *)
UpdateRevisionHistory(prior, rev, history) ==
  IF prior # <<>> /\ prior[1] = rev
    THEN Truncate(prior, Limit(history))
    ELSE Truncate(<<rev>> \o prior, Limit(history))

(* historyRevisions, as the set Prune turns it into. *)
HistoryRevisions(history) == {history[i] : i \in 1..Len(history)}
=============================================================================
