-------------------------- MODULE SnippetLifecycle --------------------------
(***************************************************************************)
(* The life of one JsonnetSnippet in operator mode, from its creation to   *)
(* the removal of its finalizer: the API object, the lagging informer      *)
(* cache, the workqueue, the reconcile that renders, publishes and records *)
(* a revision, the ExternalArtifact consumers read, and the tarballs.      *)
(*                                                                         *)
(* A reconcile is a sequence of steps, one per call that reads or writes   *)
(* state shared with somebody else: pc names the step that comes next, and *)
(* the environment (spec edits, upstream changes, deletion, cache syncs,   *)
(* the clock, a crash) moves between any two of them.  controller-runtime  *)
(* never runs two reconciles of one key at a time, so one pc is enough.    *)
(***************************************************************************)
EXTENDS ArtifactGC

CONSTANTS
  Contents,         \* source trees; a revision is the hash of what one becomes
  BadContents,      \* the ones that do not evaluate (or are over a size cap)
  Ref,              \* spec.sourceRef: the source tree is read from upstream
  Sources,          \* what a spec edit may set the source to
  Outputs,          \* spec.output: "rendered", "source"
  Histories,        \* spec.history values an edit may choose
  Suspends,         \* spec.suspend values an edit may choose
  Deletable,        \* may the snippet be deleted
  Periodic,         \* spec.interval is set, or somebody runs flux reconcile
  Backend,          \* --storage-backend: "local", "s3"
  GCGrace,          \* --artifact-gc-grace, in clock units
  MaxWithdrawWait,  \* --max-withdraw-wait, in clock units
  Faults,           \* kinds of failures that happen now and then
  Outages,          \* kinds of calls an outage takes down for good
  SlowSteps,        \* the steps of a reconcile before which time may pass
  MaxGeneration,    \* bound on spec edits
  MaxTime,          \* bound on the clock
  MaxFaults         \* bound on failures

(* "stat" is a failure to read or set a file's metadata that the store does *)
(* not report, "partial" the loss of one of the two patches of the status.  *)
FaultKinds == {"api", "tenant", "denied", "store", "stat", "partial", "crash"}

Steps == {"idle", "finalizer", "suspend", "render", "gate", "put", "upsert",
          "prune", "sync", "patch", "fail",
          "withdraw", "delete", "salvage", "unfinalize", "announce"}

ASSUME ConstantsAssumption ==
  /\ BadContents \subseteq Contents
  /\ Ref \notin Contents
  /\ Contents # {} /\ Sources # {} /\ Sources \subseteq Contents \cup {Ref}
  /\ Outputs # {} /\ Outputs \subseteq {"rendered", "source"}
  /\ Histories # {} /\ Histories \subseteq Nat \ {0}
  /\ Suspends # {} /\ Suspends \subseteq BOOLEAN
  /\ Backend \in {"local", "s3"}
  /\ Deletable \in BOOLEAN /\ Periodic \in BOOLEAN
  /\ GCGrace \in Nat /\ MaxWithdrawWait \in Nat \ {0}
  /\ Faults \subseteq FaultKinds
  /\ Outages \subseteq {"tenant", "store"}
  /\ SlowSteps \subseteq Steps
  /\ MaxGeneration \in Nat /\ MaxTime \in Nat /\ MaxFaults \in Nat

(* A revision is the hash of the rendered output or of the source tree. *)
Revisions == {"rendered", "source"} \X Contents
NoRevision == <<>>
Reasons == {"Pending", "Synced", "Suspended", "Failed"}
NotDeleted == -1

VARIABLES
  obj,       \* the JsonnetSnippet in the API server
  cache,     \* the informer's copy
  upstream,  \* the source tree the referenced Flux source serves
  ea,        \* the ExternalArtifact
  files,     \* the tarballs and their mtimes
  now,       \* the clock
  queued,    \* the key waits in the workqueue
  pc,        \* the next step of the reconcile
  snip,      \* the copy of the snippet the reconcile works on
  content,   \* the source tree it resolved
  keep,      \* the keep-set it computed
  reason,    \* the condition it is about to write
  forced,    \* whether the withdrawal is being given up, and how clean
  drop,      \* a forced drop: what it left behind, and the event that says so
  down,      \* kinds of calls that no longer succeed
  budget     \* failures left

shared == <<obj, cache, upstream, ea, files, now>>
local == <<snip, content, keep, reason, forced>>
vars == <<obj, cache, upstream, ea, files, now, queued, pc,
          snip, content, keep, reason, forced, drop, down, budget>>

Snippets ==
  [present: BOOLEAN, generation: Nat,
   source: Sources, output: Outputs, history: Histories, suspend: Suspends,
   deletionTimestamp: Nat \cup {NotDeleted}, finalizer: BOOLEAN,
   ready: Reasons, observedGeneration: Nat,
   revision: Revisions \cup {NoRevision}, revisions: Seq(Revisions)]

(* The type invariant: whatever is recorded, pruned or published names a   *)
(* revision the snippet could have been rendered to.                       *)
TypeOK ==
  /\ obj \in Snippets /\ cache \in Snippets /\ snip \in Snippets
  /\ upstream \in Contents /\ content \in Contents
  /\ ea \in [present: BOOLEAN, rev: Revisions \cup {NoRevision}]
  /\ files \in [Revisions -> Nat \cup {NotStored}]
  /\ now \in Nat
  /\ queued \in BOOLEAN
  /\ pc \in Steps
  /\ keep \subseteq Revisions
  /\ reason \in Reasons
  /\ forced \in {"no", "yes", "salvaged", "orphaned"}
  /\ drop \in [left: {"none", "salvaged", "orphaned"},
              event: {"none", "salvaged", "orphaned", "lost"}]
  /\ down \subseteq FaultKinds
  /\ budget \in Nat

Created(source, output, history, suspend) ==
  [present |-> TRUE, generation |-> 1,
   source |-> source, output |-> output, history |-> history, suspend |-> suspend,
   deletionTimestamp |-> NotDeleted, finalizer |-> FALSE,
   ready |-> "Pending", observedGeneration |-> 0,
   revision |-> NoRevision, revisions |-> <<>>]

(* What the reconcile's locals hold while no reconcile runs. *)
Blank == Created(CHOOSE s \in Sources : TRUE, CHOOSE o \in Outputs : TRUE,
                 CHOOSE h \in Histories : TRUE, CHOOSE p \in Suspends : TRUE)
NoContent == CHOOSE c \in Contents : TRUE

ClearLocals ==
  /\ snip' = Blank /\ content' = NoContent
  /\ keep' = {} /\ reason' = "Pending" /\ forced' = "no"

Init ==
  /\ \E s \in Sources, o \in Outputs, h \in Histories, p \in Suspends :
        obj = Created(s, o, h, p)
  /\ cache = obj /\ snip = Blank
  /\ upstream \in Contents /\ content = NoContent
  /\ ea = [present |-> FALSE, rev |-> NoRevision]
  /\ files = [r \in Revisions |-> NotStored]
  /\ now = 0
  /\ queued = TRUE
  /\ pc = "idle"
  /\ keep = {} /\ reason = "Pending" /\ forced = "no"
  /\ drop = [left |-> "none", event |-> "none"]
  /\ down = {}
  /\ budget = MaxFaults

-----------------------------------------------------------------------------
(* Outcomes of the calls a step makes.  A write of the API server that      *)
(* answers an error may have been carried out all the same.                 *)

Works(kind) == kind \notin down /\ UNCHANGED budget

Fails(kind) ==
  \/ kind \in down /\ UNCHANGED budget
  \/ kind \in Faults /\ budget > 0 /\ budget' = budget - 1

(* Mutant: a key that arrives while it is being reconciled is dropped. *)
ReturnDropsDirty(again) == pc' = "idle" /\ queued' = again /\ ClearLocals

(* The reconcile returns; an error or a RequeueAfter puts the key back. *)
Return(again) ==
  /\ pc' = "idle"
  /\ queued' = (queued \/ again)
  /\ ClearLocals

(* A failure nobody notices; only a directory has metadata to fail on.      *)
Misread == Backend = "local" /\ "store" \notin down /\ Fails("stat")

Goto(step) == pc' = step /\ UNCHANGED <<queued, snip>>

-----------------------------------------------------------------------------
(* Mutant: the recorded condition, not the spec, decides the suspension. *)
BranchOnCondition(s) ==
  CASE ~s.present -> "idle"
    [] s.present /\ s.deletionTimestamp # NotDeleted ->
         IF s.finalizer THEN "withdraw" ELSE "idle"
    [] s.present /\ s.deletionTimestamp = NotDeleted ->
         IF ~s.finalizer THEN "finalizer"
         ELSE IF s.suspend \/ s.ready = "Suspended" THEN "suspend" ELSE "render"

Branch(s) ==
  CASE ~s.present                                        -> "idle"
    [] s.present /\ s.deletionTimestamp # NotDeleted     ->
         IF s.finalizer THEN "withdraw" ELSE "idle"
    [] s.present /\ s.deletionTimestamp = NotDeleted     ->
         IF ~s.finalizer THEN "finalizer" ELSE IF s.suspend THEN "suspend" ELSE "render"

(* Reconcile: take the key off the queue, read the snippet through the     *)
(* cache and choose the branch.                                            *)
Reconcile ==
  /\ pc = "idle" /\ queued
  /\ queued' = FALSE
  /\ pc' = Branch(cache)
  /\ snip' = IF Branch(cache) = "idle" THEN Blank ELSE cache
  /\ UNCHANGED <<shared, content, keep, reason, forced, drop, down, budget>>

(* An Update carries the resourceVersion the snippet was read at. *)
NoConflict == obj = snip

(* Add the finalizer; the event that follows is filtered (the generation   *)
(* does not move), so the key is put back explicitly.                      *)
AddFinalizer ==
  /\ pc = "finalizer"
  /\ \/ /\ NoConflict
        /\ Works("api") \/ Fails("api")
        /\ obj' = [obj EXCEPT !.finalizer = TRUE]
     \/ /\ \/ ~NoConflict /\ UNCHANGED budget
           \/ Fails("api")
        /\ UNCHANGED obj
  /\ Return(TRUE)
  /\ UNCHANGED <<cache, upstream, ea, files, now, drop, down>>

(* Store.Prune of everything outside kept and past its grace.  A tarball    *)
(* whose Stat fails is passed over, as a victim and as a successor.         *)
PruneWorks(kept) ==
  \/ Works("store") /\ files' = Remove(files, PruneVictims(files, kept, now, GCGrace))
  \/ /\ Misread
     /\ \E unread \in SUBSET Stored(files) :
          files' = Remove(files, PruneVictims(Remove(files, unread), kept, now, GCGrace))

(* One that fails has removed some of its victims.                          *)
PruneFails(kept) ==
  /\ Fails("store")
  /\ \E gone \in SUBSET PruneVictims(files, kept, now, GCGrace) : files' = Remove(files, gone)

(* Suspended: prune what the recorded history does not keep (a failing     *)
(* Prune is only logged), then report Ready=False/Suspended.               *)
Suspended ==
  /\ pc = "suspend"
  /\ LET kept == HistoryRevisions(snip.revisions) IN PruneWorks(kept) \/ PruneFails(kept)
  /\ reason' = "Suspended"
  /\ Goto("fail")
  /\ UNCHANGED <<obj, cache, upstream, ea, now, content, keep, forced, drop, down>>

(* Everything between the spec checks and the rendered output: cycle       *)
(* verdict, rate limit, tenant client, source, libraries, evaluation.  The *)
(* source of a sourceRef is fetched now; a bad one ends in failReady; a    *)
(* backpressure or transient failure requeues, with or without a status.   *)
Render ==
  /\ pc = "render"
  /\ LET tree == IF snip.source = Ref THEN upstream ELSE snip.source IN
     \/ /\ Works("tenant")
        /\ content' = tree
        /\ IF tree \in BadContents
             THEN reason' = "Failed" /\ Goto("fail")
             ELSE Goto("gate") /\ UNCHANGED reason
        /\ UNCHANGED <<keep, forced>>
     \/ /\ Fails("tenant") \/ Fails("denied")
        /\ reason' = "Failed" /\ Goto("fail")
        /\ UNCHANGED <<content, keep, forced>>
     \/ Fails("tenant") /\ Return(TRUE)
  /\ UNCHANGED <<shared, drop, down>>

(* Mutant: the gates only check that the snippet is still there. *)
SpecPresent == obj.present

(* Both staleness gates compare the generation judged with the fresh one. *)
SpecUnmoved == obj.present /\ obj.generation = snip.generation

(* Mutants: the history of the lagging cache; the head counted twice, with *)
(* no filter for the revision of a snippet that never published.           *)
KeepPriorCached == snip.revisions
KeepPriorUnfiltered == <<obj.revision>> \o obj.revisions

(* The history the keep-set is derived from: the gate's own read. *)
KeepPrior == obj.revisions

(* publishConsistencyGate: an uncached read; the spec must not have moved. *)
(* The keep-set comes from the same read, and from the rendered output     *)
(* whatever the output mode is.                                            *)
Gate ==
  /\ pc = "gate"
  /\ \/ /\ Works("api")
        /\ \/ /\ SpecUnmoved
              /\ keep' = BuildKeepRevisions(<<"rendered", content>>, KeepPrior, obj.history)
              /\ Goto("put")
              /\ UNCHANGED <<content, reason, forced>>
           \/ ~SpecUnmoved /\ Return(FALSE)
     \/ Fails("api") /\ Return(TRUE)
  /\ UNCHANGED <<shared, drop, down>>

Revision == <<snip.output, content>>

StorePut == IF Backend = "s3" THEN PutObject(files, Revision, now)
                              ELSE PutRevision(files, Revision, now)

(* Publish, first part: Store.Put.  An upload that answers an error may     *)
(* have reached the bucket; a rename that does has not been carried out.    *)
Put ==
  /\ pc = "put"
  /\ \/ /\ \/ Works("store") /\ files' = StorePut
           \/ Misread /\ files' \in PutMisread(files, Revision, now)
        /\ Goto("upsert") /\ UNCHANGED <<content, keep, reason, forced>>
     \/ /\ Fails("store") /\ Return(TRUE)
        /\ files' \in IF Backend = "s3" THEN {files, StorePut} ELSE {files}
  /\ UNCHANGED <<obj, cache, upstream, ea, now, drop, down>>

(* Publish, second part: create or update the ExternalArtifact, then patch *)
(* its status.  A transient error requeues, a denial ends in failReady;    *)
(* both can strike before the first call or between the two, and an error  *)
(* may hide that both were carried out.                                    *)
Upsert ==
  /\ pc = "upsert"
  /\ \/ /\ Works("tenant")
        /\ ea' = [present |-> TRUE, rev |-> Revision]
        /\ Goto("prune") /\ UNCHANGED <<content, keep, reason, forced>>
     \/ /\ Fails("tenant") /\ Return(TRUE)
        /\ ea' \in {ea, [ea EXCEPT !.present = TRUE], [present |-> TRUE, rev |-> Revision]}
     \/ /\ Fails("denied")
        /\ ea' \in {ea, [ea EXCEPT !.present = TRUE]}
        /\ reason' = "Failed" /\ Goto("fail")
        /\ UNCHANGED <<content, keep, forced>>
  /\ UNCHANGED <<obj, cache, upstream, files, now, drop, down>>

(* Mutant: only what the status records is kept, as on the suspend path. *)
PruneKeepRecorded == HistoryRevisions(snip.revisions)

PruneKeep == keep \cup {Revision}

(* Publish, third part: Prune everything outside the keep-set, to which    *)
(* the published revision is added when the caller forgot it.  A failing   *)
(* Prune fails the Publish.                                                *)
Prune ==
  /\ pc = "prune"
  /\ \/ PruneWorks(PruneKeep) /\ Goto("sync") /\ UNCHANGED <<content, keep, reason, forced>>
     \/ PruneFails(PruneKeep) /\ Return(TRUE)
  /\ UNCHANGED <<obj, cache, upstream, ea, now, drop, down>>

(* markSynced, the second staleness gate: an uncached read, whose          *)
(* generation is the one the status will be stamped with.                  *)
Sync ==
  /\ pc = "sync"
  /\ \/ /\ Works("api")
        /\ \/ /\ SpecUnmoved
              /\ pc' = "patch"
              /\ snip' = [snip EXCEPT !.generation = obj.generation]
              /\ UNCHANGED <<queued, content, keep, reason, forced>>
           \/ ~SpecUnmoved /\ Return(FALSE)
     \/ Fails("api") /\ Return(TRUE)
  /\ UNCHANGED <<shared, drop, down>>

(* The patch helper writes the Ready condition and the plain status fields *)
(* with two patches; either may be lost.                                   *)
Recorded(condition, fields) ==
  [obj EXCEPT
     !.ready = IF condition THEN "Synced" ELSE @,
     !.observedGeneration = IF fields THEN snip.generation ELSE @,
     !.revision = IF fields THEN Revision ELSE @,
     !.revisions = IF fields THEN UpdateRevisionHistory(@, Revision, snip.history) ELSE @]

(* markSynced, the write: nobody else writes the status, so what it was    *)
(* read as just before is what it still is, the generation excepted.       *)
Patch ==
  /\ pc = "patch"
  /\ \/ Works("api") /\ obj' = Recorded(TRUE, TRUE) /\ Return(FALSE)
     \/ Fails("api") /\ obj' \in {obj, Recorded(TRUE, TRUE)} /\ Return(TRUE)
     \/ /\ Fails("partial")
        /\ obj' \in {Recorded(TRUE, FALSE), Recorded(FALSE, TRUE)}
        /\ Return(TRUE)
  /\ UNCHANGED <<cache, upstream, ea, files, now, drop, down>>

(* failReady: the patches carry the difference to the copy the reconcile   *)
(* read from the cache, so a condition that copy already shows is not      *)
(* written.  Suspended is a state to stay in; a failure is retried.        *)
Failed ==
  [obj EXCEPT
     !.ready = IF snip.ready # reason THEN reason ELSE @,
     !.observedGeneration = IF snip.observedGeneration # snip.generation
                              THEN snip.generation ELSE @]

FailReady ==
  /\ pc = "fail"
  /\ \/ Works("api") /\ obj' = Failed /\ Return(reason # "Suspended")
     \/ Fails("api") /\ obj' \in {obj, Failed} /\ Return(TRUE)
  /\ UNCHANGED <<cache, upstream, ea, files, now, drop, down>>

-----------------------------------------------------------------------------
(* The deletion path. *)

(* Mutants: the wait has no end; the drop skips the storage salvage. *)
NeverTimedOut == FALSE

WithdrawTimedOut == now - snip.deletionTimestamp >= MaxWithdrawWait

WithdrawFailedNoSalvage(permanent) ==
  IF now - snip.deletionTimestamp >= MaxWithdrawWait \/ permanent
    THEN Goto("unfinalize") /\ forced' = "salvaged" /\ UNCHANGED <<content, keep, reason>>
    ELSE Return(TRUE)

(* classifyWithdrawFailure: force the drop past MaxWithdrawWait, or at     *)
(* once when no retry can help; otherwise requeue.                         *)
WithdrawFailed(permanent) ==
  IF WithdrawTimedOut \/ permanent
    THEN Goto("salvage") /\ forced' = "yes" /\ UNCHANGED <<content, keep, reason>>
    ELSE Return(TRUE)

(* Withdraw, first half: delete the ExternalArtifact as the tenant. *)
Withdraw ==
  /\ pc = "withdraw"
  /\ \/ /\ Works("tenant")
        /\ ea' = [present |-> FALSE, rev |-> NoRevision]
        /\ Goto("delete") /\ UNCHANGED <<content, keep, reason, forced>>
     \/ /\ Fails("tenant") /\ WithdrawFailed(FALSE)
        /\ ea' \in {ea, [present |-> FALSE, rev |-> NoRevision]}
     \/ Fails("denied") /\ WithdrawFailed(TRUE) /\ UNCHANGED ea
  /\ UNCHANGED <<obj, cache, upstream, files, now, drop, down>>

(* Withdraw, second half: delete the tarballs. *)
DeleteStored ==
  /\ pc = "delete"
  /\ \/ /\ Works("store")
        /\ files' = Remove(files, Revisions)
        /\ Goto("unfinalize") /\ UNCHANGED <<content, keep, reason, forced>>
     \/ /\ Fails("store")
        /\ \E gone \in SUBSET Stored(files) : files' = Remove(files, gone)
        /\ WithdrawFailed(FALSE)
  /\ UNCHANGED <<obj, cache, upstream, ea, now, drop, down>>

(* The storage-only salvage before a forced drop. *)
Salvage ==
  /\ pc = "salvage"
  /\ \/ /\ Works("store")
        /\ files' = Remove(files, Revisions)
        /\ forced' = "salvaged"
     \/ /\ Fails("store")
        /\ \E gone \in SUBSET Stored(files) : files' = Remove(files, gone)
        /\ forced' = "orphaned"
  /\ Goto("unfinalize")
  /\ UNCHANGED <<obj, cache, upstream, ea, now, content, keep, reason, drop, down>>

(* Remove the finalizer; the API server then drops the object.  A forced    *)
(* drop is announced once the Update is known to have landed: after an      *)
(* Update that landed and answered an error the retry finds no snippet, and *)
(* the event is lost.                                                       *)
RemoveFinalizer ==
  /\ pc = "unfinalize"
  /\ \/ /\ NoConflict
        /\ obj' = [obj EXCEPT !.finalizer = FALSE, !.present = FALSE]
        /\ \/ /\ Works("api")
              /\ IF forced = "no"
                   THEN UNCHANGED drop /\ Return(FALSE)
                   ELSE /\ drop' = [drop EXCEPT !.left = forced]
                        /\ Goto("announce") /\ UNCHANGED <<content, keep, reason, forced>>
           \/ /\ Fails("api")
              /\ drop' = IF forced = "no" THEN drop ELSE [left |-> forced, event |-> "lost"]
              /\ Return(TRUE)
     \/ /\ \/ ~NoConflict /\ UNCHANGED budget
           \/ Fails("api")
        /\ UNCHANGED <<obj, drop>>
        /\ Return(TRUE)
  /\ UNCHANGED <<cache, upstream, ea, files, now, down>>

(* forceDropFinalizer: the WithdrawForced event.                            *)
Announce ==
  /\ pc = "announce"
  /\ drop' = [drop EXCEPT !.event = forced]
  /\ Return(FALSE)
  /\ UNCHANGED <<shared, down, budget>>

-----------------------------------------------------------------------------
(* The environment. *)

(* An edit of the spec bumps the generation. *)
EditSpec ==
  /\ obj.present /\ obj.generation < MaxGeneration
  /\ \E s \in Sources, o \in Outputs, h \in Histories, p \in Suspends :
       /\ <<s, o, h, p>> # <<obj.source, obj.output, obj.history, obj.suspend>>
       /\ obj' = [obj EXCEPT !.source = s, !.output = o, !.history = h,
                             !.suspend = p, !.generation = @ + 1]
  /\ UNCHANGED <<cache, upstream, ea, files, now, queued, pc, local, drop, down, budget>>

(* The Flux source republishes; mapFluxSource enqueues the snippet. *)
SourceChanges ==
  /\ obj.present /\ Ref \in Sources
  /\ \E c \in Contents \ {upstream} : upstream' = c
  /\ queued' = (queued \/ (cache.present /\ cache.source = Ref))
  /\ UNCHANGED <<obj, cache, ea, files, now, pc, local, drop, down, budget>>

(* A delete request: the API server stamps the object and bumps its        *)
(* generation while a finalizer holds it, and removes it otherwise.        *)
RequestDelete ==
  /\ Deletable
  /\ obj.present /\ obj.deletionTimestamp = NotDeleted
  /\ now + MaxWithdrawWait <= MaxTime
  /\ obj' = IF obj.finalizer
              THEN [obj EXCEPT !.deletionTimestamp = now, !.generation = @ + 1]
              ELSE [obj EXCEPT !.present = FALSE]
  /\ UNCHANGED <<cache, upstream, ea, files, now, queued, pc, local, drop, down, budget>>

(* The informer catches up.  Only a change of the generation (or the       *)
(* object's disappearance) passes the predicates and enqueues the key.     *)
CacheSync ==
  /\ cache # obj
  /\ cache' = obj
  /\ queued' = (queued \/ cache.generation # obj.generation
                       \/ cache.present # obj.present)
  /\ UNCHANGED <<obj, upstream, ea, files, now, pc, local, drop, down, budget>>

(* spec.interval, or a reconcile.fluxcd.io/requestedAt annotation. *)
Poke ==
  /\ Periodic /\ obj.present /\ ~queued
  /\ queued' = TRUE
  /\ UNCHANGED <<shared, pc, local, drop, down, budget>>

(* The operator dies anywhere in a reconcile and comes back: the informer  *)
(* lists everything again and enqueues it.  A drop that was about to be     *)
(* announced stays unannounced.                                             *)
Crash ==
  /\ pc # "idle"
  /\ "crash" \in Faults /\ budget > 0 /\ budget' = budget - 1
  /\ cache' = obj
  /\ pc' = "idle" /\ queued' = TRUE
  /\ ClearLocals
  /\ drop' = [drop EXCEPT !.event = IF pc = "announce" THEN "lost" ELSE @]
  /\ UNCHANGED <<obj, upstream, ea, files, now, down>>

(* A backend goes away and never comes back. *)
Outage ==
  /\ \E kind \in Outages \ down : down' = down \cup {kind}
  /\ UNCHANGED <<shared, queued, pc, local, drop, budget>>

(* One unit of time is long against the lag of the informer. *)
Tick ==
  /\ now < MaxTime
  /\ cache = obj
  /\ pc \in SlowSteps
  /\ now' = now + 1
  /\ UNCHANGED <<obj, cache, upstream, ea, files, queued, pc, local, drop, down, budget>>

Operator ==
  \/ Reconcile \/ AddFinalizer \/ Suspended \/ Render \/ Gate
  \/ Put \/ Upsert \/ Prune \/ Sync \/ Patch \/ FailReady
  \/ Withdraw \/ DeleteStored \/ Salvage \/ RemoveFinalizer \/ Announce

Environment ==
  \/ EditSpec \/ SourceChanges \/ RequestDelete \/ CacheSync
  \/ Poke \/ Crash \/ Outage \/ Tick

Next == Operator \/ Environment

Spec == Init /\ [][Next]_vars

(* Go schedules the worker and the informer delivers.  Time passes however *)
(* often the worker is busy: the workqueue backs off between two retries,  *)
(* so Tick, enabled between reconciles only, is strongly fair.             *)
Fairness == WF_vars(Operator) /\ WF_vars(CacheSync) /\ SF_vars(Tick)

FairSpec == Spec /\ Fairness

-----------------------------------------------------------------------------
(* Properties. *)

Live == obj.present /\ obj.deletionTimestamp = NotDeleted

Target == <<obj.output, IF obj.source = Ref THEN upstream ELSE obj.source>>

Quiescent == pc = "idle" /\ ~queued /\ cache = obj

(* The artifact never dangles: while the snippet lives, the revision its   *)
(* ExternalArtifact names has a tarball.  Publish upserts before it prunes *)
(* for this, whatever fails in between.                                    *)
ArtifactServed ==
  Live /\ ea.rev # NoRevision => ea.rev \in Stored(files)

(* What markSynced records is what Prune was told to retain: the keep-set  *)
(* and the new history are derived from the same fresh status.             *)
HistoryWithinKeep ==
  [][obj'.revisions # obj.revisions /\ snip.output = "rendered"
       => HistoryRevisions(obj'.revisions) \subseteq keep]_vars

(* Every revision status.history lists has a tarball, once everything is   *)
(* delivered and nothing is left to do.                                    *)
HistoryRetained ==
  Quiescent /\ Live => HistoryRevisions(obj.revisions) \subseteq Stored(files)

(* The revision markSynced stamps for the current generation is the one    *)
(* of the current spec, however the edits raced the publish.               *)
RecordsCurrent ==
  [][obj'.revision # obj.revision /\ obj'.observedGeneration = obj'.generation
       /\ obj'.source # Ref => obj'.revision = <<obj'.output, obj'.source>>]_vars

(* Nothing is forgotten: when the queue is empty and the cache is current, *)
(* an active snippet has published and recorded what it should.            *)
Settled ==
  Quiescent /\ Live /\ ~obj.suspend =>
    /\ ea.present /\ ea.rev = Target /\ obj.revision = Target
    /\ obj.ready = "Synced" /\ obj.observedGeneration = obj.generation

(* A snippet that is gone leaves no tarball and no ExternalArtifact, unless *)
(* a forced drop gave them up, and the WithdrawForced event says truly what *)
(* may remain; it is missing only when a crash or a lost answer fell        *)
(* between the drop and its event.                                          *)
NoOrphans ==
  ~obj.present =>
    /\ Stored(files) # {} => drop.left = "orphaned"
    /\ ea.present => drop.left # "none"
    /\ pc # "announce" => drop.event \in {drop.left, "lost"}

(* Once the edits and the source's republishes stop, the snippet is        *)
(* published in the end, in spite of the failures.                         *)
EventuallyPublished ==
  <>[][upstream' = upstream]_vars =>
  <>[](Live /\ ~obj.suspend /\ down = {} /\ Target[2] \notin BadContents =>
         ea.rev = Target /\ obj.revision = Target /\ obj.ready = "Synced")

(* A deletion terminates even if a backend never comes back.               *)
DeletionCompletes == obj.deletionTimestamp # NotDeleted ~> ~obj.present
=============================================================================
