---------------------------- MODULE Stores_proofs ----------------------------
(***************************************************************************)
(* Both stores keep the promise of RevisionStore, for every set of         *)
(* revisions, grace, tarball size, batch size, and number of faults.       *)
(***************************************************************************)
EXTENDS S3Store, ArtifactGC_proofs

(* One directory or prefix, as the retention rules see it. *)
Files == [Revisions -> Nat \cup {NotStored}]

-----------------------------------------------------------------------------
(* A Prune that has removed one of its victims may still remove another,   *)
(* though the first was what the other's grace had been measured by.       *)
LEMMA VictimsStayVictims ==
  ASSUME NEW f \in Files, NEW keep, NEW t \in Nat, NEW grace \in Nat,
         NEW u \in PruneVictims(f, keep, t, grace),
         NEW v \in PruneVictims(f, keep, t, grace), u # v,
         NEW g \in Files, g = [f EXCEPT ![u] = NotStored]
  PROVE  v \in PruneVictims(g, keep, t, grace)
<1>1. /\ u \in Stored(f) /\ v \in Stored(f) /\ keep # {} /\ u \notin keep /\ v \notin keep
      /\ u \in Revisions /\ v \in Revisions /\ f[u] \in Nat /\ f[v] \in Nat
      /\ g[v] = f[v]
  BY DEF PruneVictims, Files, Stored, NotStored
<1>2. Newer(g, v) = Newer(f, v) \ {u}
  BY <1>1 DEF Newer, Stored, Files, NotStored
<1>3. SUFFICES ASSUME grace > 0 PROVE t - SupersededAt(g, v) >= grace
  BY <1>1 DEF PruneVictims, Stored, Files
<1>4. t - SupersededAt(f, u) >= grace /\ t - SupersededAt(f, v) >= grace
  BY <1>3 DEF PruneVictims
<1>5. \A x \in {u, v} : SupersededAt(f, x) \in Nat /\ f[x] <= SupersededAt(f, x)
  <2> TAKE x \in {u, v}
  <2>1. CASE Newer(f, x) = {}
    BY <1>1, <2>1 DEF SupersededAt
  <2>2. CASE Newer(f, x) # {}
    BY <1>1, <2>2, SupersededAtOldest DEF Newer, Stored, Files, NotStored
  <2> QED
    BY <2>1, <2>2
<1>6. SUFFICES \/ SupersededAt(g, v) \in Nat /\ SupersededAt(g, v) <= SupersededAt(f, u)
               \/ SupersededAt(g, v) \in Nat /\ SupersededAt(g, v) <= SupersededAt(f, v)
  <2>1. SupersededAt(f, u) \in Nat /\ SupersededAt(f, v) \in Nat
    BY <1>5
  <2> QED
    BY <1>4, <2>1
<1>7. CASE Newer(g, v) = {}
  BY <1>1, <1>5, <1>7 DEF SupersededAt
<1>8. CASE Newer(g, v) # {}
  <2>1. PICK w \in Newer(g, v) : /\ SupersededAt(g, v) = g[w]
                                 /\ \A r \in Newer(g, v) : g[w] <= g[r]
    BY <1>1, <1>8, SupersededAtOldest DEF Files
  <2>2. \A r \in Newer(g, v) : r \in Revisions /\ g[r] = f[r] /\ f[r] \in Nat
    BY <1>2 DEF Newer, Stored, Files, NotStored
  <2>3. PICK x \in Newer(f, v) : SupersededAt(f, v) = f[x]
    <3>1. Newer(f, v) # {}
      BY <1>2, <1>8
    <3>2. f \in [Revisions -> Nat \cup {NotStored}]
      BY DEF Files
    <3> QED
      BY <1>1, <3>1, <3>2, SupersededAtOldest
  <2>4. CASE x # u
    BY <1>2, <2>1, <2>2, <2>3, <2>4
  <2>5. CASE x = u /\ Newer(f, u) = {}
    <3>1. f[w] <= f[u]
      BY <1>1, <1>2, <2>1, <2>2, <2>5 DEF Newer, Stored
    <3>2. SupersededAt(f, u) = f[u]
      BY <2>5 DEF SupersededAt
    <3> QED
      BY <2>1, <2>2, <3>1, <3>2
  <2>6. CASE x = u /\ Newer(f, u) # {}
    <3>1. PICK y \in Newer(f, u) : SupersededAt(f, u) = f[y]
      BY <1>1, <2>6, SupersededAtOldest DEF Files
    <3>2. y \in Newer(g, v) /\ g[w] <= g[y]
      BY <1>1, <1>2, <2>1, <2>3, <2>6, <3>1 DEF Newer, Stored, Files, NotStored
    <3> QED
      BY <2>1, <2>2, <3>1, <3>2
  <2> QED
    BY <2>4, <2>5, <2>6
<1> QED
  BY <1>7, <1>8

(* A victim stays one as time passes. *)
LEMMA VictimsAge ==
  ASSUME NEW f \in Files, NEW keep, NEW t \in Nat, NEW grace \in Nat
  PROVE  PruneVictims(f, keep, t, grace) \subseteq PruneVictims(f, keep, t + 1, grace)
<1> SUFFICES ASSUME NEW v \in PruneVictims(f, keep, t, grace)
             PROVE  v \in PruneVictims(f, keep, t + 1, grace)
  OBVIOUS
<1>1. v \in Revisions /\ f[v] \in Nat
  BY DEF PruneVictims, Stored, Files, NotStored
<1>2. SupersededAt(f, v) \in Nat
  <2>1. CASE Newer(f, v) = {}
    BY <1>1, <2>1 DEF SupersededAt
  <2>2. CASE Newer(f, v) # {}
    BY <1>1, <2>2, SupersededAtOldest DEF Newer, Stored, Files, NotStored
  <2> QED
    BY <2>1, <2>2
<1> QED
  BY <1>2 DEF PruneVictims

-----------------------------------------------------------------------------
(* The types hold whatever either store does. *)
BackendTypes == TypeOK /\ S3TypeOK

(* The directory's steps keep its types.                                   *)
LEMMA LocalTypes ==
  ASSUME TypeOK, Next
  PROVE  TypeOK'
<1> USE StoreConstants DEF TypeOK, Fault, NoFault, Unlock, disk, worker, sweeper, NotStored
<1>0. NoRev \in Revisions
  BY DEF NoRev
<1>1. ASSUME NEW r \in Revisions, PutExisting(r) PROVE TypeOK'
  <2>1. PutRevision(files, r, now) \in {files, [files EXCEPT ![r] = now]}
    BY DEF PutRevision
  <2>2. files' \in [Revisions -> Nat \cup {NotStored}] /\ budget' \in Nat
    BY <1>1, <2>1 DEF PutExisting
  <2>3. /\ withdrawn' = FALSE
        /\ UNCHANGED <<size, tmp, written, now, lock, pc, rev, victims, unread, sweep, cutoff, todo>>
    BY <1>1 DEF PutExisting
  <2> QED
    BY <2>2, <2>3
<1>2. ASSUME NEW r \in Revisions, PutCreate(r) PROVE TypeOK'
  BY <1>2 DEF PutCreate
<1>3. CASE PruneSelect
  <2>1. unread' \subseteq Revisions /\ budget' \in Nat
    BY <1>3 DEF PruneSelect, Stored
  <2>2. victims' \subseteq Revisions
    BY <1>3 DEF PruneSelect, Victims, PruneVictims, Stored, Remove
  <2> QED
    BY <1>3, <2>1, <2>2 DEF PruneSelect
<1>4. CASE DeleteStart
  BY <1>4 DEF DeleteStart
<1>5. CASE PutWrite
  BY <1>5 DEF PutWrite, Flushed
<1>6. CASE PutFails
  BY <1>0, <1>6 DEF PutFails
<1>7. CASE PutRename
  BY <1>0, <1>7 DEF PutRename
<1>8. CASE PruneRemove
  BY <1>8 DEF PruneRemove
<1>9. CASE PruneEnds
  BY <1>0, <1>9 DEF PruneEnds
<1>10. CASE DeleteRemove
  BY <1>10 DEF DeleteRemove
<1>11. CASE DeleteEnds
  BY <1>0, <1>11 DEF DeleteEnds
<1>12. CASE Sweep
  BY <1>12 DEF Sweep, SweepStart, SweepEnter, SweepMayEnter, SweepNames, SweepOne,
               SweepEnds, Stored
<1>13. CASE Crash
  BY <1>0, <1>13 DEF Crash
<1>14. CASE Tick
  BY <1>14 DEF Tick
<1> QED
  BY <1>1, <1>2, <1>3, <1>4, <1>5, <1>6, <1>7, <1>8, <1>9, <1>10, <1>11, <1>12, <1>13,
     <1>14 DEF Next, Work

(* A request never holds more than its batch. *)
LEMMA BatchGrows ==
  ASSUME S3TypeOK, NEW r \in Revisions, ~Full
  PROVE  Cardinality(batch \cup {r}) <= BatchSize
<1>1. IsFiniteSet(batch) /\ Cardinality(batch) \in Nat
  BY StoreConstants, FS_Subset, FS_CardinalityType DEF S3TypeOK
<1>2. Cardinality(batch) < BatchSize
  BY <1>1, S3Constants DEF S3TypeOK, Full
<1>3. \/ Cardinality(batch \cup {r}) = Cardinality(batch)
      \/ Cardinality(batch \cup {r}) = Cardinality(batch) + 1
  BY <1>1, FS_AddElement
<1> QED
  BY <1>1, <1>2, <1>3, S3Constants

(* Whoever leaves the bucket leaves its locals in their types. *)
LEMMA LeaveTypes ==
  ASSUME Leave
  PROVE  /\ step' = "idle" /\ uploading' \in Revisions /\ sent' \in 0..Chunks
         /\ seen' \in 0..sent' /\ quiet' \in 0..(StallTicks - 1)
         /\ doomed' \subseteq Revisions /\ lister' = "off" /\ listing' \subseteq Revisions
         /\ listErr' = FALSE /\ expired' = FALSE
         /\ batch' \subseteq Revisions /\ Cardinality(batch') <= BatchSize
<1>1. NoRev \in Revisions
  BY StoreConstants DEF NoRev
<1>2. Cardinality({}) <= BatchSize
  BY FS_EmptySet, S3Constants
<1>3. 0 \in 0..Chunks /\ 0 \in 0..0 /\ 0 \in 0..(StallTicks - 1)
  BY StoreConstants, S3Constants
<1> QED
  BY <1>1, <1>2, <1>3 DEF Leave

(* The bucket's steps keep theirs and the directory's.                     *)
LEMMA BucketTypes ==
  ASSUME BackendTypes, S3Next
  PROVE  BackendTypes'
<1> USE StoreConstants, S3Constants
    DEF BackendTypes, TypeOK, S3TypeOK, Fault, NoFault, LocalOnly, disk, worker,
        sweeper, upload, removal, NotStored
<1>0. NoRev \in Revisions /\ Cardinality({}) = 0
  BY FS_EmptySet DEF NoRev
<1>1. ASSUME NEW r \in Revisions, PutSkips(r) PROVE BackendTypes'
  <2>1. files' \in [Revisions -> Nat \cup {NotStored}]
    BY <1>1 DEF PutSkips, PutObject
  <2>2. TypeOK'
    BY <1>1, <2>1 DEF PutSkips
  <2>3. S3TypeOK'
    BY <1>1 DEF PutSkips
  <2> QED
    BY <2>2, <2>3
<1>2. ASSUME NEW r \in Revisions, PutUploads(r) PROVE BackendTypes'
  BY <1>2 DEF PutUploads
<1>3. CASE UploadFlows
  BY <1>3 DEF UploadFlows
<1>4. CASE UploadCompletes
  BY <1>4, LeaveTypes DEF UploadCompletes, Whole
<1>5. CASE UploadFails
  BY <1>5, LeaveTypes DEF UploadFails
<1>6. CASE MonitorTicks
  <2>1. CASE Headway
    BY <1>6, <2>1 DEF MonitorTicks
  <2>2. CASE ~Headway /\ quiet + 1 < StallTicks
    BY <1>6, <2>2 DEF MonitorTicks
  <2>3. CASE ~Headway /\ quiet + 1 >= StallTicks
    <3>1. Leave /\ UNCHANGED <<files, size, now, budget, deleted>> /\ LocalOnly
      BY <1>6, <2>3 DEF MonitorTicks
    <3> QED
      BY <3>1, LeaveTypes
  <2> QED
    BY <2>1, <2>2, <2>3
<1>7. CASE PruneLists
  BY <1>7 DEF PruneLists, Victims, PruneVictims, Stored
<1>8. CASE PruneRemoves
  BY <1>8 DEF PruneRemoves, Remove
<1>9. CASE PruneLeaves
  BY <1>9, LeaveTypes DEF PruneLeaves
<1>10. CASE DeleteBegins
  BY <1>10 DEF DeleteBegins
<1>11. CASE DeleteLists
  <2>1. Stored(files) \subseteq Revisions
    BY DEF Stored
  <2>2. CASE lister' = "sending"
    BY <1>11, <2>1, <2>2 DEF DeleteLists
  <2>3. CASE lister' = "off"
    BY <1>11, <2>3 DEF DeleteLists
  <2> QED
    BY <1>11, <2>2, <2>3 DEF DeleteLists
<1>12. CASE DeleteHandsOver
  BY <1>12, BatchGrows DEF DeleteHandsOver
<1>13. CASE ListerLeaves
  BY <1>13 DEF ListerLeaves
<1>14. CASE DeadlinePasses
  BY <1>14 DEF DeadlinePasses
<1>15. CASE DeleteRemoves
  BY <1>0, <1>15 DEF DeleteRemoves, Remove
<1>16. CASE DeleteFails
  BY <1>16, LeaveTypes DEF DeleteFails, Remove
<1>17. CASE DeleteReturns
  BY <1>17, LeaveTypes DEF DeleteReturns, Reported
<1>18. CASE S3Crash
  BY <1>18, LeaveTypes DEF S3Crash
<1> QED
  BY <1>1, <1>2, <1>3, <1>4, <1>5, <1>6, <1>7, <1>8, <1>9, <1>10, <1>11, <1>12, <1>13,
     <1>14, <1>15, <1>16, <1>17, <1>18 DEF S3Next, Upload, Removal

-----------------------------------------------------------------------------
(* What makes the promise inductive: who is in which store, that a final   *)
(* name is given to a whole tarball of this instant, and that whatever is  *)
(* still to be removed may still be removed, by what its Prune could read. *)
Prunable(gone, hidden) ==
  \E keep \in SUBSET Revisions :
    gone \subseteq PruneVictims(Remove(files, hidden), keep, now, GCGrace)

LocalInv ==
  /\ lock = "worker" <=> pc # "idle"
  /\ lock = "sweeper" <=> sweep = "clean"
  /\ InFlightKept
  /\ pc = "write" /\ Flushed => tmp[rev] = now
  /\ pc = "evict" => Prunable(victims, unread)
  /\ pc # "evict" => unread = {}
  /\ pc = "wipe" => withdrawn

BucketInv ==
  /\ step = "evict" => Prunable(doomed, {})
  /\ step = "wipe" => withdrawn

BackendInv ==
  /\ BackendTypes
  /\ TarballsComplete
  /\ LocalInv /\ BucketInv
  /\ backend = "local" => step = "idle"
  /\ backend = "s3" => pc = "idle" /\ sweep = "idle"

(* Removing one of them leaves the others removable, and so does a tick. *)
LEMMA PrunableAfterRemoval ==
  ASSUME files \in Files, now \in Nat, NEW gone, NEW hidden, Prunable(gone, hidden),
         NEW r \in gone, files' = [files EXCEPT ![r] = NotStored], UNCHANGED now
  PROVE  \E keep \in SUBSET Revisions :
           gone \ {r} \subseteq PruneVictims(Remove(files', hidden), keep, now', GCGrace)
<1> DEFINE f == Remove(files, hidden)
           g == Remove(files', hidden)
<1>1. PICK keep \in SUBSET Revisions : gone \subseteq PruneVictims(f, keep, now, GCGrace)
  BY DEF Prunable
<1>2. f \in Files /\ g \in Files
  BY DEF Files, Remove, NotStored
<1>3. g = [f EXCEPT ![r] = NotStored]
  BY DEF Files, Remove
<1>4. gone \ {r} \subseteq PruneVictims(g, keep, now, GCGrace)
  <2> SUFFICES ASSUME NEW v \in gone \ {r}
               PROVE  v \in PruneVictims(g, keep, now, GCGrace)
    OBVIOUS
  <2> HIDE DEF f, g
  <2> QED
    BY <1>1, <1>2, <1>3, StoreConstants, VictimsStayVictims
<1> QED
  BY <1>4

(* What may be pruned may still be a moment later.                         *)
LEMMA PrunableAfterTick ==
  ASSUME files \in Files, now \in Nat, NEW gone, NEW hidden, Prunable(gone, hidden),
         UNCHANGED files, now' = now + 1
  PROVE  \E keep \in SUBSET Revisions :
           gone \subseteq PruneVictims(Remove(files', hidden), keep, now', GCGrace)
<1>1. PICK keep \in SUBSET Revisions :
        gone \subseteq PruneVictims(Remove(files, hidden), keep, now, GCGrace)
  BY DEF Prunable
<1>2. Remove(files, hidden) \in Files
  BY DEF Files, Remove, NotStored
<1>3. gone \subseteq PruneVictims(Remove(files', hidden), keep, now', GCGrace)
  BY <1>1, <1>2, StoreConstants, VictimsAge
<1> QED
  BY <1>3

(* Without an I/O error every stored revision is judged.                   *)
LEMMA NothingHidden ==
  ASSUME NEW f \in Files
  PROVE  Remove(f, {}) = f
BY DEF Remove, Files

(* Removing one tarball forgets its mtime only.                            *)
LEMMA RemoveOne ==
  ASSUME NEW f \in Files, NEW r \in Revisions
  PROVE  Remove(f, {r}) = [f EXCEPT ![r] = NotStored]
BY DEF Remove, Files

-----------------------------------------------------------------------------
(* Every step of the directory keeps the invariant of both backends.       *)
LEMMA LocalKeepsInv ==
  ASSUME BackendInv, Next, backend = "local", UNCHANGED bucketVars
  PROVE  BackendInv'
<1> USE DEF disk, worker, sweeper, Fault, NoFault
<1>1. BackendTypes'
  <2>1. TypeOK'
    BY LocalTypes DEF BackendInv, BackendTypes
  <2>2. S3TypeOK'
    BY DEF BackendInv, BackendTypes, S3TypeOK, bucketVars
  <2> QED
    BY <2>1, <2>2 DEF BackendTypes
<1>2. /\ backend' = "local" /\ step = "idle" /\ step' = "idle"
  BY DEF BackendInv, bucketVars
<1>3. TypeOK /\ TypeOK' /\ TarballsComplete /\ LocalInv /\ files \in Files
  BY <1>1 DEF BackendInv, BackendTypes, TypeOK, Files
<1>4. SUFFICES TarballsComplete' /\ LocalInv'
  BY <1>1, <1>2 DEF BackendInv, BucketInv
<1> HIDE DEF BackendInv
<1>5. ASSUME NEW r \in Revisions, PutExisting(r) PROVE TarballsComplete' /\ LocalInv'
  <2>1. Stored(files)' = Stored(files)
    BY <1>3, <1>5 DEF PutExisting, PutRevision, Stored, TypeOK, NotStored
  <2> QED
    BY <1>3, <1>5, <2>1 DEF PutExisting, TarballsComplete, LocalInv, InFlightKept
<1>6. ASSUME NEW r \in Revisions, PutCreate(r) PROVE TarballsComplete' /\ LocalInv'
  BY <1>3, <1>6, StoreConstants DEF PutCreate, TarballsComplete, LocalInv, InFlightKept, Stored,
       Flushed, TypeOK, NotStored
<1>7. CASE PruneSelect
  <2>1. Prunable(victims, unread)'
    BY <1>7 DEF PruneSelect, Victims, Prunable
  <2> QED
    BY <1>3, <1>7, <2>1 DEF PruneSelect, TarballsComplete, LocalInv, InFlightKept, Stored
<1>8. CASE DeleteStart
  BY <1>3, <1>8 DEF DeleteStart, TarballsComplete, LocalInv, InFlightKept, Stored
<1>9. CASE PutWrite
  BY <1>3, <1>9 DEF PutWrite, TarballsComplete, LocalInv, InFlightKept, Stored, Flushed, TypeOK,
       NotStored
<1>10. CASE PutFails
  BY <1>3, <1>10 DEF PutFails, Unlock, TarballsComplete, LocalInv, InFlightKept, Stored
<1>11. CASE PutRename
  BY <1>3, <1>11 DEF PutRename, Unlock, TarballsComplete, LocalInv, InFlightKept, Stored,
       Flushed, TypeOK
<1>12. CASE PruneRemove
  <2>1. PICK r \in victims : files' = [files EXCEPT ![r] = NotStored] /\ victims' = victims \ {r}
    BY <1>12 DEF PruneRemove
  <2>2. Prunable(victims, unread) /\ r \in victims /\ now' = now /\ now \in Nat /\ unread' = unread
    BY <1>3, <1>12, <2>1 DEF PruneRemove, LocalInv, TypeOK
  <2>3. Prunable(victims, unread)'
    <3>1. \E keep \in SUBSET Revisions :
            victims \ {r} \subseteq PruneVictims(Remove(files', unread), keep, now', GCGrace)
      BY <1>3, <2>1, <2>2, PrunableAfterRemoval
    <3> QED
      BY <2>1, <2>2, <3>1 DEF Prunable
  <2>4. TarballsComplete'
    BY <1>3, <1>12, <2>1 DEF PruneRemove, TarballsComplete, Stored, TypeOK
  <2> QED
    BY <1>3, <1>12, <2>3, <2>4 DEF PruneRemove, LocalInv, InFlightKept
<1>13. CASE PruneEnds
  BY <1>3, <1>13 DEF PruneEnds, Unlock, TarballsComplete, LocalInv, InFlightKept, Stored
<1>14. CASE DeleteRemove
  BY <1>3, <1>14 DEF DeleteRemove, TarballsComplete, LocalInv, InFlightKept, Stored, TypeOK
<1>15. CASE DeleteEnds
  BY <1>3, <1>15 DEF DeleteEnds, Unlock, TarballsComplete, LocalInv, InFlightKept, Stored
<1>16. CASE SweepStart
  BY <1>3, <1>16 DEF SweepStart, TarballsComplete, LocalInv, InFlightKept, Stored, Flushed,
       Prunable
<1>17. CASE SweepEnter
  BY <1>3, <1>17 DEF SweepEnter, SweepMayEnter, TarballsComplete, LocalInv, InFlightKept, Stored,
       Flushed, Prunable
<1>18. CASE SweepOne
  BY <1>3, <1>18 DEF SweepOne, TarballsComplete, LocalInv, InFlightKept, Stored, Flushed,
       Prunable
<1>19. CASE SweepEnds
  BY <1>3, <1>19 DEF SweepEnds, TarballsComplete, LocalInv, InFlightKept, Stored, Flushed,
       Prunable
<1>20. CASE Crash
  BY <1>3, <1>20 DEF Crash, Unlock, TarballsComplete, LocalInv, InFlightKept, Stored
<1>21. CASE Tick
  <2>0. UNCHANGED <<files, victims, unread, pc>> /\ now \in Nat /\ now' = now + 1
    BY <1>3, <1>21 DEF Tick, TypeOK
  <2>1. pc = "evict" => Prunable(victims, unread)'
    <3> SUFFICES ASSUME pc = "evict" PROVE Prunable(victims, unread)'
      OBVIOUS
    <3>1. Prunable(victims, unread)
      BY <1>3 DEF LocalInv
    <3>2. \E keep \in SUBSET Revisions :
            victims \subseteq PruneVictims(Remove(files', unread), keep, now', GCGrace)
      BY <1>3, <2>0, <3>1, PrunableAfterTick
    <3> QED
      BY <2>0, <3>2 DEF Prunable
  <2> QED
    BY <1>3, <1>21, <2>1 DEF Tick, TarballsComplete, LocalInv, InFlightKept, Stored, Flushed,
         Prunable
<1> QED
  BY <1>5, <1>6, <1>7, <1>8, <1>9, <1>10, <1>11, <1>12, <1>13, <1>14, <1>15, <1>16, <1>17,
     <1>18, <1>19, <1>20, <1>21 DEF Next, Work, Sweep

(* So does every step of the bucket.                                       *)
LEMMA BucketKeepsInv ==
  ASSUME BackendInv, S3Next, backend = "s3"
  PROVE  BackendInv'
<1> USE DEF disk, worker, sweeper, Fault, NoFault, upload, removal, LocalOnly
<1>1. BackendTypes'
  BY BucketTypes DEF BackendInv
<1>2. UNCHANGED <<tmp, written, now, lock, pc, rev, victims, unread, sweep, cutoff, todo, backend>>
  BY DEF S3Next, PutSkips, PutUploads, Upload, UploadFlows, UploadCompletes, UploadFails,
         MonitorTicks, PruneLists, DeleteBegins, DeadlinePasses, Removal, PruneRemoves,
         PruneLeaves, DeleteLists, DeleteHandsOver, ListerLeaves, DeleteRemoves, DeleteFails,
         DeleteReturns, S3Crash
<1>3. /\ BackendTypes /\ TarballsComplete /\ LocalInv /\ BucketInv /\ files \in Files
      /\ pc = "idle" /\ sweep = "idle"
  BY DEF BackendInv, BackendTypes, TypeOK, Files
<1>4. SUFFICES TarballsComplete' /\ BucketInv'
  BY <1>1, <1>2, <1>3 DEF BackendInv, LocalInv, InFlightKept
<1> HIDE DEF BackendInv
<1>5. ASSUME NEW r \in Revisions, PutSkips(r) PROVE TarballsComplete' /\ BucketInv'
  BY <1>3, <1>5 DEF PutSkips, PutObject, TarballsComplete, BucketInv
<1>6. ASSUME NEW r \in Revisions, PutUploads(r) PROVE TarballsComplete' /\ BucketInv'
  BY <1>3, <1>6 DEF PutUploads, TarballsComplete, BucketInv, Stored
<1>7. CASE UploadFlows
  BY <1>3, <1>7 DEF UploadFlows, TarballsComplete, BucketInv, Stored
<1>8. CASE UploadCompletes
  BY <1>3, <1>8 DEF UploadCompletes, Whole, Leave, TarballsComplete, BucketInv, Stored, TypeOK,
       BackendTypes
<1>9. CASE UploadFails \/ PruneLeaves \/ DeleteReturns \/ S3Crash
  BY <1>3, <1>9 DEF UploadFails, PruneLeaves, DeleteReturns, S3Crash, Leave, TarballsComplete,
       BucketInv, Stored
<1>10. CASE MonitorTicks
  BY <1>3, <1>10 DEF MonitorTicks, Leave, TarballsComplete, BucketInv, Stored
<1>11. CASE PruneLists
  <2>1. files' = files /\ now' = now /\ Remove(files, {}) = files
    BY <1>3, <1>11, NothingHidden DEF PruneLists
  <2>2. Prunable(doomed, {})'
    BY <1>11, <2>1 DEF PruneLists, Victims, Prunable
  <2> QED
    BY <1>3, <1>11, <2>2 DEF PruneLists, TarballsComplete, BucketInv, Stored
<1>12. CASE PruneRemoves
  <2>1. PICK r \in doomed : files' = Remove(files, {r}) /\ doomed' = doomed \ {r}
    BY <1>12 DEF PruneRemoves
  <2>2. files' = [files EXCEPT ![r] = NotStored]
    BY <1>3, <2>1, RemoveOne DEF BackendTypes, S3TypeOK
  <2>3. Prunable(doomed, {}) /\ now' = now /\ now \in Nat
    BY <1>2, <1>3, <1>12 DEF PruneRemoves, BucketInv, BackendTypes, TypeOK
  <2>4. Prunable(doomed, {})'
    <3>1. \E keep \in SUBSET Revisions :
            doomed \ {r} \subseteq PruneVictims(Remove(files', {}), keep, now', GCGrace)
      BY <1>3, <2>1, <2>2, <2>3, PrunableAfterRemoval
    <3> QED
      BY <2>1, <3>1 DEF Prunable
  <2>5. TarballsComplete'
    BY <1>3, <1>12, <2>2 DEF PruneRemoves, TarballsComplete, Stored, Files
  <2> QED
    BY <1>12, <2>4, <2>5 DEF PruneRemoves, BucketInv
<1>13. CASE DeleteBegins
  BY <1>3, <1>13 DEF DeleteBegins, TarballsComplete, BucketInv, Stored
<1>14. CASE DeadlinePasses \/ DeleteLists \/ DeleteHandsOver \/ ListerLeaves
  BY <1>3, <1>14 DEF DeadlinePasses, DeleteLists, DeleteHandsOver, ListerLeaves,
       TarballsComplete, BucketInv, Stored
<1>15. CASE DeleteRemoves
  BY <1>3, <1>15 DEF DeleteRemoves, Remove, TarballsComplete, BucketInv, Stored
<1>16. CASE DeleteFails
  BY <1>3, <1>16 DEF DeleteFails, Leave, Remove, TarballsComplete, BucketInv, Stored
<1> QED
  BY <1>5, <1>6, <1>7, <1>8, <1>9, <1>10, <1>11, <1>12, <1>13, <1>14, <1>15, <1>16
     DEF S3Next, Upload, Removal

(* Whichever backend is configured, the invariant holds throughout.        *)
LEMMA BackendInvInductive == BackendSpec => []BackendInv
<1>1. S3Init => BackendInv
  <2> SUFFICES ASSUME S3Init PROVE BackendInv
    OBVIOUS
  <2>1. NoRev \in Revisions /\ Cardinality({}) = 0
    BY StoreConstants, FS_EmptySet DEF NoRev
  <2>0. 0 \in 0..Chunks /\ 0 \in 0..0 /\ 0 \in 0..(StallTicks - 1) /\ 0 <= BatchSize
    BY StoreConstants, S3Constants
  <2>2. TypeOK
    <3>1. /\ files = [r \in Revisions |-> NotStored] /\ tmp = [r \in Revisions |-> NotStored]
          /\ size = [r \in Revisions |-> 0] /\ written = [r \in Revisions |-> 0]
      BY DEF S3Init, Init
    <3>2. /\ files \in [Revisions -> Nat \cup {NotStored}]
          /\ tmp \in [Revisions -> Nat \cup {NotStored}]
          /\ size \in [Revisions -> 0..Chunks] /\ written \in [Revisions -> 0..Chunks]
      BY <2>0, <3>1
    <3>3. now \in Nat /\ cutoff \in Int /\ budget \in Nat
      BY StoreConstants DEF S3Init, Init
    <3>4. /\ lock = "none" /\ pc = "idle" /\ rev \in Revisions /\ victims = {}
          /\ unread = {} /\ withdrawn = FALSE /\ sweep = "idle" /\ todo = {}
      BY <2>1 DEF S3Init, Init
    <3> QED
      BY <3>2, <3>3, <3>4 DEF TypeOK
  <2>3. S3TypeOK
    BY <2>0, <2>1 DEF S3Init, S3TypeOK
  <2> QED
    BY <2>2, <2>3 DEF S3Init, Init, BackendInv, BackendTypes, TarballsComplete, LocalInv,
         BucketInv, InFlightKept, Stored
<1>2. BackendInv /\ [BackendNext]_s3vars => BackendInv'
  <2> SUFFICES ASSUME BackendInv, [BackendNext]_s3vars PROVE BackendInv'
    OBVIOUS
  <2>1. CASE backend = "local" /\ Next /\ UNCHANGED bucketVars
    BY <2>1, LocalKeepsInv
  <2>2. CASE backend = "s3" /\ S3Next
    BY <2>2, BucketKeepsInv
  <2>3. CASE backend = "s3" /\ Tick /\ UNCHANGED bucketVars
    <3>1. BackendTypes'
      <4>1. TypeOK'
        BY <2>3, LocalTypes DEF BackendInv, BackendTypes, Next
      <4> QED
        BY <2>3, <4>1 DEF BackendInv, BackendTypes, S3TypeOK, bucketVars
    <3>2. step = "evict" => Prunable(doomed, {})'
      <4> SUFFICES ASSUME step = "evict" PROVE Prunable(doomed, {})'
        OBVIOUS
      <4>1. Prunable(doomed, {})
        BY DEF BackendInv, BucketInv
      <4>2. files \in Files /\ now \in Nat /\ UNCHANGED <<files, doomed>> /\ now' = now + 1
        BY <2>3 DEF BackendInv, BackendTypes, TypeOK, Files, Tick, disk, bucketVars
      <4>3. \E keep \in SUBSET Revisions :
              doomed \subseteq PruneVictims(Remove(files', {}), keep, now', GCGrace)
        BY <4>1, <4>2, PrunableAfterTick
      <4> QED
        BY <4>2, <4>3 DEF Prunable
    <3> QED
      BY <2>3, <3>1, <3>2 DEF BackendInv, TarballsComplete, LocalInv, BucketInv, InFlightKept,
           Stored, Tick, disk, worker, sweeper, bucketVars
  <2>4. CASE UNCHANGED s3vars
    BY <2>4 DEF BackendInv, BackendTypes, TypeOK, S3TypeOK, TarballsComplete, LocalInv, BucketInv,
         InFlightKept, Stored, Flushed, Prunable, s3vars, vars, bucketVars
  <2> QED
    BY <2>1, <2>2, <2>3, <2>4 DEF BackendNext
<1> QED
  BY <1>1, <1>2, PTL DEF BackendSpec

-----------------------------------------------------------------------------
(* The types of both stores, for every size of tarball and of a request.   *)
THEOREM BackendTypeCorrect == BackendSpec => []BackendTypes
<1>1. BackendInv => BackendTypes
  BY DEF BackendInv
<1> QED
  BY <1>1, BackendInvInductive, PTL

(* A reader of either store never meets half a tarball (Store.Put and its  *)
(* rename, S3Backend.Put and its one PutObject).                           *)
THEOREM TarballsAlwaysComplete == BackendSpec => []TarballsComplete
<1>1. BackendInv => TarballsComplete
  BY DEF BackendInv
<1> QED
  BY <1>1, BackendInvInductive, PTL

(* The sweep never takes the file of a Put under way, however old the age  *)
(* limit it computed before it waited (Store.Sweep, sweepKey).             *)
THEOREM InFlightAlwaysKept == BackendSpec => []InFlightKept
<1>1. BackendInv => InFlightKept
  BY DEF BackendInv, LocalInv
<1> QED
  BY <1>1, BackendInvInductive, PTL

-----------------------------------------------------------------------------
(* What makes Delete's report of a success true, though the end of the     *)
(* channel says nothing of how the listing ended: until the deadline, an   *)
(* object is in the bucket only while it is with the lister or in the      *)
(* batch; and nothing fills the prefix again without a call of its own.    *)
WipeInv ==
  backend = "s3" =>
    /\ deleted # "no" => step = "idle"
    /\ deleted = "clean" => Stored(files) = {}
    /\ step = "wipe" /\ ~ expired /\ ~ listErr /\ lister # "listing" =>
         /\ Stored(files) \subseteq listing \cup batch
         /\ lister = "off" => listing = {}

(* Every step of the two backends keeps the wipe sound.                    *)
LEMMA BucketKeepsWipe ==
  ASSUME BackendTypes, WipeInv, S3Next, backend = "s3"
  PROVE  WipeInv'
<1> USE DEF Fault, NoFault, upload, removal, disk, worker, sweeper, LocalOnly, WipeInv
<1>1. /\ files \in Files /\ listErr \in BOOLEAN /\ expired \in BOOLEAN
      /\ batch \subseteq Revisions /\ listing \subseteq Revisions /\ now \in Nat
  BY DEF BackendTypes, TypeOK, S3TypeOK, Files
<1>2. ASSUME NEW r \in Revisions, PutSkips(r) \/ PutUploads(r) PROVE WipeInv'
  BY <1>2 DEF PutSkips, PutUploads
<1>3. CASE UploadFlows \/ UploadCompletes \/ UploadFails \/ MonitorTicks
  BY <1>3 DEF UploadFlows, UploadCompletes, UploadFails, MonitorTicks, Leave
<1>4. CASE PruneLists \/ PruneRemoves \/ PruneLeaves
  BY <1>4 DEF PruneLists, PruneRemoves, PruneLeaves, Leave
<1>5. CASE DeleteBegins \/ DeleteLists \/ DeadlinePasses \/ S3Crash
  BY <1>5 DEF DeleteBegins, DeleteLists, DeadlinePasses, S3Crash, Leave
<1>6. CASE DeleteHandsOver
  <2>1. listing' \cup batch' = listing \cup batch
    BY <1>6 DEF DeleteHandsOver
  <2> QED
    BY <1>6, <2>1 DEF DeleteHandsOver, Stored
<1>7. CASE ListerLeaves
  BY <1>7 DEF ListerLeaves, Stored
<1>8. CASE DeleteRemoves
  <2>1. Stored(files)' = Stored(files) \ batch
    BY <1>1, <1>8 DEF DeleteRemoves, Remove, Stored, Files, NotStored
  <2> QED
    BY <1>8, <2>1 DEF DeleteRemoves
<1>9. CASE DeleteFails
  BY <1>9 DEF DeleteFails, Leave
<1>10. CASE DeleteReturns
  <2>1. deleted' = "clean" => ~ listErr /\ ~ expired
    BY <1>10 DEF DeleteReturns, Reported
  <2> QED
    BY <1>10, <2>1 DEF DeleteReturns, Leave, Stored
<1> QED
  BY <1>2, <1>3, <1>4, <1>5, <1>6, <1>7, <1>8, <1>9, <1>10 DEF S3Next, Upload, Removal

(* A Delete of the bucket's prefix that returns success before its         *)
(* deadline has left nothing there (S3Backend.Delete: its lister, channel  *)
(* and batches), for every number of objects and size of a batch.          *)
THEOREM DeletedAlwaysGone == BackendSpec => []DeletedMeansGone
<1>1. S3Init => WipeInv
  BY DEF S3Init, WipeInv
<1>2. BackendInv /\ WipeInv /\ [BackendNext]_s3vars => WipeInv'
  <2> SUFFICES ASSUME BackendInv, WipeInv, [BackendNext]_s3vars PROVE WipeInv'
    OBVIOUS
  <2>1. CASE backend = "local" /\ UNCHANGED bucketVars
    BY <2>1 DEF WipeInv, bucketVars
  <2>2. CASE backend = "s3" /\ S3Next
    BY <2>2, BucketKeepsWipe DEF BackendInv
  <2>3. CASE backend = "s3" /\ Tick /\ UNCHANGED bucketVars
    BY <2>3 DEF WipeInv, bucketVars, Tick, disk, Stored
  <2>4. CASE UNCHANGED s3vars
    BY <2>4 DEF WipeInv, s3vars, vars, bucketVars, Stored
  <2> QED
    BY <2>1, <2>2, <2>3, <2>4 DEF BackendNext
<1>3. WipeInv => DeletedMeansGone
  BY DEF WipeInv, DeletedMeansGone
<1> QED
  BY <1>1, <1>2, <1>3, BackendInvInductive, PTL DEF BackendSpec

-----------------------------------------------------------------------------
(* The refinement: each step is one of RevisionStore's, or a stutter.      *)
abstract == <<files, now, withdrawn, unread>>

(* One removal of a prune is an eviction of the abstract store.            *)
LEMMA EvictsOne ==
  ASSUME files \in Files, NEW gone, Prunable(gone, unread), NEW r \in gone,
         files' = [files EXCEPT ![r] = NotStored], UNCHANGED <<now, withdrawn, unread>>
  PROVE  Store!Evict
<1>1. PICK keep \in SUBSET Revisions :
        r \in PruneVictims(Remove(files, unread), keep, now, GCGrace)
  BY DEF Prunable
<1>2. r \in Store!PruneVictims(Store!Remove(files, unread), keep, now, GCGrace)
  BY <1>1 DEF PruneVictims, Store!PruneVictims, Stored, Store!Stored, SupersededAt,
              Store!SupersededAt, Newer, Store!Newer, NotStored, Store!NotStored,
              Remove, Store!Remove
<1>3. files' = Store!Remove(files, {r})
  BY DEF Files, Store!Remove, NotStored, Store!NotStored
<1> QED
  BY <1>2, <1>3 DEF Store!Evict

(* A removal of a deletion is a withdrawal of it.                          *)
LEMMA WithdrawsSome ==
  ASSUME files \in Files, NEW gone, files' = Remove(files, gone), withdrawn', UNCHANGED now,
         withdrawn' \in BOOLEAN, UNCHANGED unread
  PROVE  Store!Withdraw
<1>1. files' = Store!Remove(files, gone \cap Store!Stored(files))
  BY DEF Files, Remove, Store!Remove, Store!Stored, NotStored, Store!NotStored
<1> QED
  BY <1>1 DEF Store!Withdraw

(* A rename, or an upload that lands, is a publish.                        *)
LEMMA Publishes ==
  ASSUME NEW r \in Revisions, files' = [files EXCEPT ![r] = now], withdrawn' = FALSE,
         UNCHANGED <<now, unread>>
  PROVE  Store!Next
BY DEF Store!Next, Store!Publish

(* Finding the tarball there already is a republish.                       *)
LEMMA Republishes ==
  ASSUME NEW r \in Stored(files), UNCHANGED <<files, now, unread>>, withdrawn' = FALSE
  PROVE  Store!Next
BY DEF Store!Next, Store!Republish, Store!Stored, Stored, NotStored, Store!NotStored

(* Every step of the directory is a step of the abstract store, or none.   *)
LEMMA LocalImplements ==
  ASSUME BackendInv, Next
  PROVE  [Store!Next]_abstract
<1> USE DEF abstract, disk, worker
<1>1. TypeOK /\ files \in Files /\ LocalInv
  BY DEF BackendInv, BackendTypes, TypeOK, Files
<1> HIDE DEF BackendInv
<1>2. ASSUME NEW r \in Revisions, PutExisting(r) PROVE [Store!Next]_abstract
  <2>1. CASE UNCHANGED files
    BY <1>2, <2>1, Republishes DEF PutExisting
  <2>2. CASE files' = [files EXCEPT ![r] = now]
    BY <1>2, <2>2, Publishes DEF PutExisting
  <2> QED
    BY <1>2, <2>1, <2>2 DEF PutExisting, PutRevision
<1>3. ASSUME NEW r \in Revisions, PutCreate(r) PROVE [Store!Next]_abstract
  BY <1>3 DEF PutCreate
<1>4. CASE PutWrite \/ PutFails \/ DeleteEnds \/ Sweep
  BY <1>1, <1>4 DEF PutWrite, PutFails, DeleteEnds, Sweep, SweepStart, SweepEnter, SweepOne,
                    SweepEnds, Unlock, LocalInv
<1>10. CASE PruneSelect \/ PruneEnds \/ Crash
  <2>1. unread' \in SUBSET Revisions /\ UNCHANGED <<files, now, withdrawn>>
    BY <1>1, <1>10 DEF PruneSelect, PruneEnds, Crash, Unlock, Stored, TypeOK, disk
  <2> QED
    BY <2>1 DEF Store!Next, Store!Hide
<1>5. CASE PutRename
  <2>1. files' = [files EXCEPT ![rev] = now]
    BY <1>1, <1>5 DEF PutRename, LocalInv
  <2> QED
    BY <1>1, <1>5, <2>1, Publishes DEF PutRename, Unlock, LocalInv, TypeOK
<1>6. CASE PruneRemove
  <2>1. PICK r \in victims : files' = [files EXCEPT ![r] = NotStored]
    BY <1>6 DEF PruneRemove
  <2>2. Store!Evict
    BY <1>1, <1>6, <2>1, EvictsOne DEF PruneRemove, LocalInv
  <2> QED
    BY <2>2 DEF Store!Next
<1>7. CASE DeleteStart
  <2>1. files' = Remove(files, {})
    BY <1>1, <1>7 DEF DeleteStart, Remove, Files
  <2>2. Store!Withdraw
    BY <1>1, <1>7, <2>1, WithdrawsSome DEF DeleteStart
  <2> QED
    BY <2>2 DEF Store!Next
<1>8. CASE DeleteRemove
  <2>1. PICK r \in victims : files' = [files EXCEPT ![r] = NotStored]
    BY <1>8 DEF DeleteRemove
  <2>2. files' = Remove(files, {r})
    BY <1>1, <2>1, RemoveOne DEF TypeOK
  <2>3. Store!Withdraw
    BY <1>1, <1>8, <2>2, WithdrawsSome DEF DeleteRemove, LocalInv, TypeOK
  <2> QED
    BY <2>3 DEF Store!Next
<1>9. CASE Tick
  BY <1>9 DEF Tick, Store!Next, Store!Tick
<1> QED
  BY <1>2, <1>3, <1>4, <1>5, <1>6, <1>7, <1>8, <1>9, <1>10 DEF Next, Work

(* So is every step of the bucket.                                         *)
LEMMA BucketImplements ==
  ASSUME BackendInv, S3Next, backend = "s3"
  PROVE  [Store!Next]_abstract
<1> USE DEF abstract, disk, LocalOnly, worker
<1>1. /\ TypeOK /\ S3TypeOK /\ files \in Files /\ BucketInv
      /\ unread = {}
  BY DEF BackendInv, BackendTypes, TypeOK, Files, LocalInv
<1> HIDE DEF BackendInv
<1>2. ASSUME NEW r \in Revisions, PutSkips(r) PROVE [Store!Next]_abstract
  BY <1>2, Republishes DEF PutSkips, PutObject
<1>3. ASSUME NEW r \in Revisions, PutUploads(r) PROVE [Store!Next]_abstract
  BY <1>3 DEF PutUploads
<1>4. CASE UploadFlows \/ UploadFails \/ MonitorTicks \/ PruneLists \/ PruneLeaves \/ DeadlinePasses
           \/ DeleteLists \/ DeleteHandsOver \/ ListerLeaves \/ DeleteReturns \/ S3Crash
  BY <1>4 DEF UploadFlows, UploadFails, MonitorTicks, PruneLists, PruneLeaves, DeadlinePasses,
              DeleteLists, DeleteHandsOver, ListerLeaves, DeleteReturns, S3Crash
<1>5. CASE UploadCompletes
  BY <1>1, <1>5, Publishes DEF UploadCompletes, S3TypeOK
<1>6. CASE PruneRemoves
  <2>1. PICK r \in doomed : files' = Remove(files, {r})
    BY <1>6 DEF PruneRemoves
  <2>2. files' = [files EXCEPT ![r] = NotStored]
    BY <1>1, <2>1, RemoveOne DEF S3TypeOK
  <2>3. Prunable(doomed, unread) /\ UNCHANGED <<now, withdrawn, unread>>
    BY <1>1, <1>6 DEF PruneRemoves, BucketInv
  <2>4. Store!Evict
    BY <1>1, <2>1, <2>2, <2>3, EvictsOne
  <2> QED
    BY <2>4 DEF Store!Next
<1>7. CASE DeleteBegins
  <2>1. files' = Remove(files, {})
    BY <1>1, <1>7 DEF DeleteBegins, Remove, Files
  <2>2. Store!Withdraw
    BY <1>1, <1>7, <2>1, WithdrawsSome DEF DeleteBegins
  <2> QED
    BY <2>2 DEF Store!Next
<1>8. CASE DeleteRemoves
  <2>1. Store!Withdraw
    BY <1>1, <1>8, WithdrawsSome DEF DeleteRemoves, BucketInv, TypeOK
  <2> QED
    BY <2>1 DEF Store!Next
<1>9. CASE DeleteFails
  <2>1. CASE UNCHANGED files
    BY <1>9, <2>1 DEF DeleteFails
  <2>2. CASE \E gone \in SUBSET batch : files' = Remove(files, gone)
    <3>1. Store!Withdraw
      BY <1>1, <1>9, <2>2, WithdrawsSome DEF DeleteFails, BucketInv, TypeOK
    <3> QED
      BY <3>1 DEF Store!Next
  <2> QED
    BY <1>9, <2>1, <2>2 DEF DeleteFails
<1> QED
  BY <1>2, <1>3, <1>4, <1>5, <1>6, <1>7, <1>8, <1>9 DEF S3Next, Upload, Removal

(* Both backends implement storage.Backend as RevisionStore states it: no  *)
(* revision a keep-set names goes, none goes before it has been superseded *)
(* for the grace, however a Prune or a Delete is cut short.  In the        *)
(* directory superseded means by a file whose Stat succeeded: Store.Prune  *)
(* passes over the others, so a revision that only an unreadable file had  *)
(* displaced goes by its own age.                                          *)
THEOREM BackendImplementsStore == BackendSpec => BackendKeepsPromise
<1>1. S3Init => Store!Init
  BY DEF S3Init, Init, Store!Init, NotStored, Store!NotStored
<1>2. BackendInv /\ [BackendNext]_s3vars => [Store!Next]_abstract
  <2> SUFFICES ASSUME BackendInv, [BackendNext]_s3vars PROVE [Store!Next]_abstract
    OBVIOUS
  <2>1. CASE backend = "local" /\ Next /\ UNCHANGED bucketVars
    BY <2>1, LocalImplements
  <2>2. CASE backend = "s3" /\ S3Next
    BY <2>2, BucketImplements
  <2>3. CASE backend = "s3" /\ Tick /\ UNCHANGED bucketVars
    BY <2>3, LocalImplements DEF Next
  <2>4. CASE UNCHANGED s3vars
    BY <2>4 DEF abstract, s3vars, vars
  <2> QED
    BY <2>1, <2>2, <2>3, <2>4 DEF BackendNext
<1> QED
  BY <1>1, <1>2, BackendInvInductive, PTL
     DEF BackendSpec, BackendKeepsPromise, Store!Spec, abstract
=============================================================================
