------------------------------ MODULE S3Store ------------------------------
(***************************************************************************)
(* The other backend: one (namespace, name) prefix of a bucket, written by *)
(* the leader's reconcile.  An upload appears whole when it is completed;  *)
(* a monitor goroutine gives it up when no bytes flow.  Prune lists and    *)
(* then removes; Delete removes in batches what a second goroutine lists,  *)
(* under a deadline of its own.  --storage-backend chooses between this    *)
(* store and the directory of StoreFiles once and for all.                 *)
(***************************************************************************)
EXTENDS StoreFiles

CONSTANTS
  StallTicks,  \* silent ticks of the monitor after which an upload is given up
  BatchSize    \* objects in one RemoveObjects request

ASSUME S3Constants == StallTicks \in Nat \ {0} /\ BatchSize \in Nat \ {0}

VARIABLES
  backend,     \* "local" or "s3"
  step,        \* what the reconcile's goroutine is doing in the bucket
  uploading,   \* the revision it uploads
  sent,        \* how much of the tarball has flowed
  seen, quiet, \* the monitor: progress it saw last, ticks without any since
  doomed,      \* the objects Prune has yet to remove
  lister,      \* Delete's second goroutine
  listing,     \* the objects it has yet to hand over
  listErr,     \* its listing failed
  batch,       \* the objects handed over and not removed
  expired,     \* Delete's deadline has passed
  deleted      \* what the last Delete reported, if nothing came after it

upload == <<uploading, sent, seen, quiet>>
removal == <<lister, listing, listErr, batch, expired>>
bucketVars == <<backend, step, uploading, sent, seen, quiet, doomed, lister,
                listing, listErr, batch, expired, deleted>>
s3vars == <<vars, bucketVars>>

(* What the bucket's writer leaves alone. *)
LocalOnly == UNCHANGED <<tmp, written, lock, worker, sweeper, backend>>

(* The type invariant: an upload counts no byte twice, the monitor no tick *)
(* beyond its limit, and a batch never outgrows one request.               *)
S3TypeOK ==
  /\ backend \in {"local", "s3"}
  /\ step \in {"idle", "upload", "evict", "wipe"}
  /\ uploading \in Revisions /\ sent \in 0..Chunks
  /\ seen \in 0..sent /\ quiet \in 0..(StallTicks - 1)
  /\ doomed \subseteq Revisions
  /\ lister \in {"off", "listing", "sending"}
  /\ listing \subseteq Revisions /\ listErr \in BOOLEAN
  /\ batch \subseteq Revisions /\ Cardinality(batch) <= BatchSize
  /\ expired \in BOOLEAN /\ deleted \in {"no", "clean", "late"}

S3Init ==
  /\ Init
  /\ backend \in {"local", "s3"}
  /\ step = "idle" /\ doomed = {} /\ deleted = "no"
  /\ uploading = NoRev /\ sent = 0 /\ seen = 0 /\ quiet = 0
  /\ lister = "off" /\ listing = {} /\ listErr = FALSE /\ batch = {} /\ expired = FALSE

(* The call returns; its goroutines are gone with it. *)
Leave ==
  /\ step' = "idle" /\ doomed' = {}
  /\ uploading' = NoRev /\ sent' = 0 /\ seen' = 0 /\ quiet' = 0
  /\ lister' = "off" /\ listing' = {} /\ listErr' = FALSE /\ batch' = {} /\ expired' = FALSE

-----------------------------------------------------------------------------
(* Put of an object the Stat finds: nothing is uploaded.  A failing hash   *)
(* of the entries is an error that changes nothing.                        *)
PutSkips(r) ==
  /\ step = "idle" /\ r \in Stored(files)
  /\ files' = PutObject(files, r, now) /\ deleted' = "no"
  /\ withdrawn' = FALSE
  /\ UNCHANGED <<size, tmp, written, now, lock, pc, rev, victims, unread, sweeper,
                 backend, step, upload, doomed, removal, budget>>

(* Put of one it does not find, or could not look for. *)
PutUploads(r) ==
  /\ step = "idle"
  /\ \/ r \notin Stored(files) /\ NoFault
     \/ r \in Stored(files) /\ Fault
  /\ step' = "upload" /\ uploading' = r /\ deleted' = "no"
  /\ UNCHANGED <<files, size, now, sent, seen, quiet, doomed, removal>> /\ LocalOnly

UploadFlows ==
  /\ step = "upload" /\ sent < Chunks
  /\ sent' = sent + 1
  /\ UNCHANGED <<files, size, now, budget, step, uploading, seen, quiet, doomed,
                 removal, deleted>>
  /\ LocalOnly

Whole == sent = Chunks

UploadCompletes ==
  /\ step = "upload" /\ Whole
  /\ files' = [files EXCEPT ![uploading] = now]
  /\ size' = [size EXCEPT ![uploading] = sent]
  /\ withdrawn' = FALSE
  /\ Leave
  /\ UNCHANGED <<tmp, written, now, lock, pc, rev, victims, unread, sweeper, budget, backend, deleted>>

(* PutObject fails, or the tarball cannot be built. *)
UploadFails ==
  /\ step = "upload" /\ Fault
  /\ Leave
  /\ UNCHANGED <<files, size, now, deleted>> /\ LocalOnly

(* Mutant: every tick is taken for headway. *)
AlwaysHeadway == TRUE

Headway == sent > seen

(* watchUploadStall: headway resets the count, the last silent tick cancels. *)
MonitorTicks ==
  /\ step = "upload"
  /\ IF Headway
       THEN /\ seen' = sent /\ quiet' = 0
            /\ UNCHANGED <<step, uploading, sent, doomed, removal>>
       ELSE \/ /\ quiet + 1 < StallTicks
               /\ quiet' = quiet + 1
               /\ UNCHANGED <<step, uploading, sent, seen, doomed, removal>>
            \/ quiet + 1 >= StallTicks /\ Leave
  /\ UNCHANGED <<files, size, now, budget, deleted>> /\ LocalOnly

-----------------------------------------------------------------------------
PruneLists ==
  /\ step = "idle"
  /\ \E keep \in SUBSET Revisions : Victims(files, keep) # {} /\ doomed' = Victims(files, keep)
  /\ step' = "evict" /\ deleted' = "no"
  /\ UNCHANGED <<files, size, now, budget, upload, removal>> /\ LocalOnly

PruneRemoves ==
  /\ step = "evict"
  /\ \E r \in doomed :
       /\ files' = Remove(files, {r})
       /\ doomed' = doomed \ {r}
  /\ UNCHANGED <<size, now, budget, step, upload, removal, deleted>> /\ LocalOnly

PruneLeaves ==
  /\ step = "evict"
  /\ \/ doomed = {} /\ NoFault
     \/ Fault
  /\ Leave
  /\ UNCHANGED <<files, size, now, deleted>> /\ LocalOnly

-----------------------------------------------------------------------------
DeleteBegins ==
  /\ step = "idle"
  /\ step' = "wipe" /\ lister' = "listing" /\ withdrawn' = TRUE /\ deleted' = "no"
  /\ UNCHANGED <<disk, now, lock, pc, rev, victims, unread, sweeper, backend, upload, doomed,
                 listing, listErr, batch, expired, budget>>

(* The listing arrives, or fails. *)
DeleteLists ==
  /\ step = "wipe" /\ lister = "listing"
  /\ \/ lister' = "sending" /\ listing' = Stored(files) /\ NoFault /\ UNCHANGED listErr
     \/ lister' = "off" /\ listErr' = TRUE /\ Fault /\ UNCHANGED listing
  /\ UNCHANGED <<files, size, now, step, upload, doomed, batch, expired, deleted>> /\ LocalOnly

Full == Cardinality(batch) = BatchSize

(* The remover takes an object off the channel while its batch has room. *)
DeleteHandsOver ==
  /\ step = "wipe" /\ lister = "sending" /\ ~Full
  /\ \E r \in listing : listing' = listing \ {r} /\ batch' = batch \cup {r}
  /\ UNCHANGED <<files, size, now, budget, step, upload, doomed, lister, listErr,
                 expired, deleted>>
  /\ LocalOnly

(* The lister is through, or its select takes the cancelled context: it    *)
(* closes the channel either way, and says nothing.                        *)
ListerLeaves ==
  /\ step = "wipe" /\ lister = "sending"
  /\ listing = {} \/ expired
  /\ lister' = "off" /\ listing' = {}
  /\ UNCHANGED <<files, size, now, budget, step, upload, doomed, listErr, batch,
                 expired, deleted>>
  /\ LocalOnly

DeadlinePasses ==
  /\ step = "wipe" /\ ~expired /\ Fault
  /\ expired' = TRUE
  /\ UNCHANGED <<files, size, now, step, upload, doomed, lister, listing, listErr,
                 batch, deleted>>
  /\ LocalOnly

(* One RemoveObjects request: all of the batch, or a part and an error. *)
DeleteRemoves ==
  /\ step = "wipe" /\ batch # {} /\ (Full \/ lister = "off")
  /\ ~expired
  /\ files' = Remove(files, batch) /\ batch' = {}
  /\ UNCHANGED <<size, now, budget, step, upload, doomed, lister, listing, listErr,
                 expired, deleted>>
  /\ LocalOnly

DeleteFails ==
  /\ step = "wipe" /\ batch # {} /\ (Full \/ lister = "off")
  /\ \/ expired /\ NoFault /\ UNCHANGED files
     \/ ~expired /\ Fault /\ \E gone \in SUBSET batch : files' = Remove(files, gone)
  /\ Leave
  /\ UNCHANGED <<size, now, deleted>> /\ LocalOnly

(* Mutant: the end of the channel is taken for the end of the listing. *)
EndOfChannel == "clean"

Reported ==
  IF listErr THEN "no" ELSE IF expired THEN "late" ELSE "clean"

DeleteReturns ==
  /\ step = "wipe" /\ lister = "off" /\ batch = {}
  /\ deleted' = Reported
  /\ Leave
  /\ UNCHANGED <<files, size, now, budget>> /\ LocalOnly

-----------------------------------------------------------------------------
(* The process dies, or loses the lease and with it every context. *)
S3Crash ==
  /\ step # "idle" /\ Fault
  /\ Leave
  /\ UNCHANGED <<files, size, now, deleted>> /\ LocalOnly

Upload == UploadFlows \/ UploadCompletes \/ UploadFails

Removal ==
  \/ PruneRemoves \/ PruneLeaves
  \/ DeleteLists \/ DeleteHandsOver \/ ListerLeaves
  \/ DeleteRemoves \/ DeleteFails \/ DeleteReturns

S3Next ==
  \/ \E r \in Revisions : PutSkips(r) \/ PutUploads(r)
  \/ Upload \/ MonitorTicks
  \/ PruneLists \/ DeleteBegins \/ DeadlinePasses \/ Removal
  \/ S3Crash

BackendNext ==
  \/ backend = "local" /\ Next /\ UNCHANGED bucketVars
  \/ backend = "s3" /\ S3Next
  \/ backend = "s3" /\ Tick /\ UNCHANGED bucketVars

BackendSpec == S3Init /\ [][BackendNext]_s3vars

(* The directory's goroutines as before.  A ticker fires; requests for a   *)
(* listing or a removal end, by an answer or by their deadline.  Nothing   *)
(* makes an upload's bytes flow.                                           *)
BackendFairness ==
  /\ Fairness
  /\ WF_s3vars(MonitorTicks /\ backend = "s3") /\ WF_s3vars(Removal /\ backend = "s3")

FairBackendSpec == BackendSpec /\ BackendFairness

-----------------------------------------------------------------------------
(* Neither backend breaks the promise: what disappears from the bucket was *)
(* unnamed and superseded for the grace, or is being withdrawn, however    *)
(* the removal loops and batches are cut short.                            *)
BackendKeepsPromise == Store!Spec

(* A Delete that reports success within its deadline has left nothing in   *)
(* the bucket.  (One that reports it after the deadline may have.)         *)
DeletedMeansGone == backend = "s3" /\ deleted = "clean" => Stored(files) = {}

(* A stuck upload does not hold its reconcile: it ends, whether or not its *)
(* bytes ever flow again.                                                  *)
UploadEnds == step = "upload" ~> step = "idle"
=============================================================================
