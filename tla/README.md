# A TLA+ model of JaaS

JaaS renders [Jsonnet](https://jsonnet.org): over HTTP, as an MCP server, and
as a Flux-style Kubernetes operator that evaluates `JsonnetSnippet` objects and
publishes the output as tarballs behind an `ExternalArtifact`. This directory
holds TLA+ specifications of the parts of it that keep state, the TLC
configurations that check them on small instances, and TLAPS proofs of the
properties that matter most.

Paths below are relative to the repository root; `PROJECT.json` maps every
definition to the lines it models.

## 1. The system

| Part | State it keeps | Operations | Works with |
|---|---|---|---|
| Snippet reconciler (`internal/operator/reconciler.go`) | none of its own between reconciles; reads and writes the `JsonnetSnippet`, its status and finalizer | `Reconcile`, `reconcileSpec`, `reconcileDelete`, `markSynced`, `failReady`, watch handlers | informer cache, workqueue, publisher, cycle cache, tenant clients |
| Publisher (`publisher.go`) | none; the `ExternalArtifact` and the store are its state | `Publish` (Put, upsert, Prune), `PruneStored`, `Withdraw`, `deleteStorageOnly` | store backend, tenant client |
| Artifact retention (`internal/storage/store.go`, `reconciler.go`) | mtimes of the tarballs, `status.history` | `selectPruneVictims`, `hasNewerSibling`, `buildKeepRevisions`, `updateRevisionHistory` | both backends |
| Filesystem store (`store.go`) | one directory per snippet, one mutex per directory | `Put`, `Prune`, `Delete`, `Sweep`, readers | reconciler, sweep goroutine, artifact server, MCP diff |
| S3 store (`s3.go`) | bucket objects | `Put` with its stall monitor, `Prune`, `Delete` with its listing goroutine; no sweep | reconciler, presigned reads |
| Cycle detection (`cycle.go`, `reconciler.go`) | verdict per snippet, one counter | `Lookup`, `Store`, `Forget`, graph walk | watch handlers |
| Evaluation gate (`internal/eval`) | `inFlightEvals`, `leakedEvals`, the limit | `tryAcquireEvalSlot`, `evaluateWithDeadline`, drain | reconciler, HTTP, MCP |
| Webhook certificates (`internal/webhook/selfsigned`, `main.go`) | files `tls.key`/`tls.crt`, `CurrentCA`, the shared `caBundle` | bootstrap stamp, `UpdateVWCCABundle`, `renewOnce`, reload | API server, other replicas |
| Tenant access (`token.go`, `clientcache.go`, `authretry.go`) | minted tokens, cached clients, a counter of evictions each | mint (single flight), forget, retry after a 401 | reconciler, publisher |
| Source fetcher (`internal/sources`) | download slots, temporary files | read the source's status, download, verify, unpack within caps | reconciler, Flux's source-controller |
| Manager supervision (`supervisor.go`, `manager.go`, `internal/opstate`) | is a manager there, its backoff, availability | build, run, back off, shut down | everything in operator mode |
| Flux CRD watcher (`crdwatcher.go`) | engaged kinds, pending retries, timers | engage the watch of a CRD that appears late | controller |
| Process (`main.go`, `internal/handler/health.go`) | listeners, readiness and its drain latch, the goroutines to await | start, drain, shut down, exit | supervisor, sweep, renewer |
| Rate limiter, admission webhook, HTTP renderer, MCP server, observability | per-snippet token buckets; nothing; the loaded libraries; sessions; counters | see the notes in `PROJECT.json` | |

What makes these parts hard to get right:

* the reconcile reads a lagging cache and an API server that moves on while a
  publish is under way; the finalizer, the artifact, the tarballs and the
  status are four separate writes, any of which can fail or be the last one
  before the process dies;
* the garbage collector works beside consumers that pinned a revision a moment
  ago, with modification times as its only memory;
* verdicts are cached while the watch handlers that evict them run beside
  the walk that computes them;
* evaluations cannot be interrupted, so the deadline of a caller and the end of
  its evaluation are different events;
* several replicas rewrite one `caBundle` while the API server verifies against
  it, each on a clock of its own;
* credentials are cached by a name while what they are bound to is a UID, and
  evicted while a mint is under way;
* the supervisor, the manager's goroutine, its readiness runnable and `main`
  each hold a part of the truth about whether the operator runs, and a signal
  may reach them in any phase.

What makes each of them correct:

* **Reconciler and publisher**: the artifact never dangles; the status names
  what the spec asks for; nothing is forgotten in the queue; a deletion ends and
  leaves nothing behind but what a forced drop gave up.
* **Retention**: what is recorded is kept; what a consumer pinned is fetchable
  for the grace.
* **Store**: readers see whole tarballs; a removal is always one the retention
  rules allow; what a dead process leaves is reclaimed.
* **Cycles**: a loop is refused, whatever closed it; a refusal has a cause; the
  re-renders that publishes trigger come to an end.
* **Gate**: the cap bounds what really runs; nobody is turned away for
  nothing; an abandoned evaluation is forgotten when it ends.
* **Certificates**: what a replica serves verifies at every instant; the
  bundle converges to the CAs in use.
* **Tenant access**: an evicted credential stays out; a final refusal has a
  cause; the last snippet leaves nothing behind; access recovers.
* **Fetcher**: slots and files are given back on every path; an archive is
  refused for its shape exactly if it exceeds a cap; a glitch is not the end.
* **Supervision and watcher**: failures back off and end; a late kind is
  watched, once.
* **Process**: a shutdown is orderly, ends, and tells a hang from a slow drain.

## 2. The modules

```
ArtifactGC ------ SnippetLifecycle ------ ConsumerPins
    |  |                                       |
    |  +-- ArtifactGC_proofs -- SnippetLifecycle_proofs
    |              |
    |              +------------------------ Stores_proofs
    |                                              |
    +-- RevisionStore  <== implemented by ==  StoreFiles <-- S3Store

Supervision <-- CrdWatch <-- Process --- Operator_proofs
TenantAccess --- TenantAccess_proofs    SourceFetch --- SourceFetch_proofs
DependencyCycles --- Render_proofs --- EvalGate
WebhookCA --- WebhookCA_proofs
```

`Render_proofs` holds the theorems about the two guards a render has to pass, the
loop check and the gate on evaluations; `ArtifactGC_proofs` the lemmas about the
retention rules that the snippet's and the stores' proofs share.

`MC*` modules declare the model values of the configurations and the small sets
some constants are given. Operators whose comment begins with "Mutant:" are
deliberately wrong variants of the definition that follows; no specification
uses them. Replacing the definition by its variant makes the property
`PROJECT.json` pairs it with fail, so each property is known to depend on the
code it is about.

### ArtifactGC: the retention rules

Operators only: a store is a function from revisions to mtimes. `PutRevision` is
the choice of the mtime in `Store.Put` (a revision that is already there is
re-stamped only behind a newer sibling), `PutMisread` what a Put that succeeds
leaves when a Stat, a listing or a Chtimes fails and nobody notices, `PutObject`
the S3 counterpart, `PruneVictims` is `selectPruneVictims`, `BuildKeepRevisions`
and `UpdateRevisionHistory` are the functions of the same names. The clock is
coarse: two writes in one unit tie, and the strict comparisons of the code are
strict here.

### SnippetLifecycle: one snippet, from creation to the end of its finalizer

| State | In the code |
|---|---|
| `obj`, `cache` | the `JsonnetSnippet` in the API server, the informer's copy |
| `upstream` | the tree the referenced Flux source serves |
| `ea`, `files`, `now` | the `ExternalArtifact`, the tarballs' mtimes, the clock |
| `queued`, `pc` | the key in the workqueue, the next step of the reconcile |
| `snip`, `content`, `keep`, `reason`, `forced` | the reconcile's locals |
| `drop` | a finalizer dropped by force: what the drop left behind, and what its `WithdrawForced` event says (or that it was lost) |
| `down`, `budget` | environment: outages, failures left |

One action per call that touches shared state: `Reconcile` (cached read and
branch), `AddFinalizer`, `Suspended`, `Render`, `Gate`
(`publishConsistencyGate`, `buildKeepRevisions`), `Put`, `Upsert`, `Prune` (the
three parts of `Publish`), `Sync` and `Patch` (the fresh read and the two
patches of `markSynced`), `FailReady`, `Withdraw`, `DeleteStored`, `Salvage`,
`RemoveFinalizer` (the Update), `Announce` (`forceDropFinalizer`). The
environment edits the spec, changes the source, deletes the snippet, delivers
cache updates, pokes the key (`spec.interval`, `flux reconcile`), crashes the
process and lets time pass between any two of them. One `pc` is enough:
controller-runtime never runs two reconciles of one key at once.

Failures come in kinds: `api` (the operator's own client), `tenant` (a
transient tenant call), `denied` (a permanent one), `store`, `stat` (a file's
metadata cannot be read or set, and the store reports no error), `partial` (one
of the two status patches is lost), `crash`. `down` holds the kinds an outage
takes away for good. A write of the API server that answers an error, and an
upload to the bucket that does, may have been carried out all the same.

A content stands for a source tree; a revision is the pair of the output mode
and the content, because the code derives it by hashing one or the other. The
checks before the render that cannot publish anything (spec, cycle verdict,
rate limit, tenant client, source, libraries, evaluation) are the outcomes of
one action: a result, a failure that ends in `failReady`, a requeue.

### ConsumerPins: a consumer beside it

Adds a consumer that reads the `ExternalArtifact` at any moment and remembers
what it named and when. Tarballs may carry the same mtime; `TiedReverts` says
whether a revert may be to one that ties with another. `misjudged` records that
an unnoticed metadata failure has kept a revert from being stamped, or has made a
Prune take what was not due.

### RevisionStore and StoreFiles: the promise and the directory

`RevisionStore` is what `storage.Backend` promises of one snippet: a revision
appears whole; an eviction takes only what the retention rules let go of at that
instant, judged by the revisions whose metadata can be read (`Hide` chooses
those that cannot); everything else goes only in a withdrawal. `StoreFiles` is
the filesystem store at the grain of file operations: the temporary file, its
writes, the rename, the removals one by one, the per-key mutex, the sweep that
computes its age limit before it waits for that mutex, I/O errors and process
deaths between any two of them. A failing Stat makes `Put` write the file again
and `Prune` pass it over, as victim and as successor of others (`unread`).
Readers take no lock, so the refinement is about the directory at every instant,
not between calls. The mapping is the identity on `files`, `now`, `withdrawn`
and `unread`.

### S3Store: the bucket, and the choice between the two

Extends StoreFiles by the second backend; `backend` is chosen at the start and
never again, as `--storage-backend` is. `PutSkips` is the Stat that finds the
object, `PutUploads` to `UploadCompletes` the streamed upload, `MonitorTicks`
the goroutine of `watchUploadStall`; an object appears only when its upload is
complete. `Prune` lists first and removes one object after the other. `Delete`
has a goroutine that lists, a channel, batches of one request each and a
deadline (`expired`); the channel closes the same way whether the listing was
complete, failed or was cut off by the context, and `Reported` is what the call
makes of it. The bucket has one writer, the leader's single worker; that an
upload or a removal of a dead process still lands later is left out.

### DependencyCycles: the graph and its cached verdicts

Several snippets and libraries. A reconcile is `Lookup`, the expansions of the
walk one snippet at a time, `Store` with its bounded retries, `Render`,
`Publish`. The watch handlers are three steps (list, evict, enqueue) beside it.
The counter of the cache is unbounded; `overtaken` records what its comparison
tells, namely whether it has moved since a snippet's `Lookup`. The counter is one
for all snippets (`cycle.go:47`), although comments in that file call it
per-UID; the model follows the code.

### EvalGate: the cap on evaluations

The load and the compare-and-swap of `tryAcquireEvalSlot` are separate steps.
A call and its evaluation are separate goroutines with a one-place channel
between them; the deadline hands the channel to a drain goroutine.

### WebhookCA: rotating certificates under one caBundle

Each replica stamps its first CA (with the retry in the background that
`main.go` starts), then rotates: widen the bundle, write the key, write the
certificate, sleep, take the old CA out. The sleep (`GuardDelay`) looks at
nothing; that the listener has reloaded when it ends is the constant
`PromptReload`. `UpdateVWCCABundle` is a
read and an update under optimistic concurrency with a bounded number of
attempts; an update may be carried out although its answer is an error. A CA is
an owner, a serial and an expiry; `outdated` stands for the resourceVersion
comparison.

### TenantAccess: credentials of a tenant

Two caches, each with the counter that tells a writer of an eviction since its
read (modelled by the flags `flight.intact` and `epoch`), the single flight of
the mint, and reconciles that look up a token, get or build a client, call, and
after a 401 evict, mint and call once more. The environment deletes the
ServiceAccount and creates it again under the same name (`account.uid`), lets
tokens age, deletes snippets and fails calls. On the deletion path a call that
worked, or one whose failure forces the deletion (`classifyWithdrawFailure`), is
followed by `RemoveFinalizer`, the Update, which may land with its answer lost;
only after an answer comes `ForgetSnippet`, which evicts if no other live snippet
uses the account. `skipped` says that the latest eviction was passed over.

### SourceFetch: one source, several readers

`Get` is the status with its Ready condition and URL, `Acquire` the slot,
`Request`, `Copy`, `CopyEnds`, `Verify` the download into a temporary file and
its digest, `Read`, `Header`, `Body`, `Unpacked` the tar reader over the reader
that counts decompressed bytes (`cappedReader`). `Ends` is every return with its
deferred removal. The source publishes, turns ready and unready, and its
controller deletes tarballs of older revisions; a body may arrive corrupted.

### Supervision, CrdWatch and Process: the operator in its process

`Supervision` is `Supervise` beside the manager it starts: built, waiting for
caches, on standby, leading, draining or failing, stopped. The readiness
runnable is a goroutine of its own (`OnReady`), and the availability it raises
is what the supervisor later reads to decide whether to wait (`SeesShutdown`).
A lost lease stops the manager without a drain and may leave a reconcile behind
(`straggler`). `reachable` stands for all the manager needs of its cluster.

`CrdWatch` adds the leader's watcher on late CRDs: `Check` and `Attempt` are
what the informer's handler does under the mutex, `Engages` and `EngageFails`
what comes back from the engagement outside it, `TimerFires` a scheduled retry.
The maps die with the manager, and the next one starts from its own discovery.

`Process` adds `run()` of `main.go`: bind, serve, drain, shut the servers down,
cancel, await, exit; `hung` and `exitCode` are what it reports.

## 3. What the runs show

Each passing run is exhaustive within its bounds.

| Run | Module, configuration | Shows |
|---|---|---|
| `pins` | MCConsumerPins, `pins.cfg` | `TypeOK`, `ArtifactServed`, `HistoryWithinKeep`, `RecordsCurrent` and `PinThenFetch`: across an edit, upstream reverts, a reconcile in which time passes and one failure, the named tarball is there, the records are those of the current spec, and what a consumer read is fetchable for the grace unless a revision was misjudged |
| `teardown` | MCSnippetLifecycle, `teardown.cfg` | `Settled`, `NoOrphans`, `DeletionCompletes`, `EventuallyPublished` with a passing failure or crash and with outages of the tenant API and the storage that never end, with suspension |
| `store` | MCStores, `store.cfg` | on either backend `TarballsComplete` and `BackendKeepsPromise` (the refinement of `RevisionStore`); `InFlightKept` and `ResidueReclaimed` of the directory; `DeletedMeansGone` and `UploadEnds` of the bucket |
| `evalgate` | MCEvalGate, `evalgate.cfg` | `CapHolds`, `RejectedOnlyWhenFull`, `LeaksDrain` for a gate that is off, of one and of two |
| `cycles` | MCDependencyCycles, `cycles.cfg` | `CyclesRefused`, `RefusedForCause`, `RenderLoopsEnd` |
| `webhookca` | MCWebhookCA, `webhookca.cfg` | `ServedTrusted`, `ServedFresh`, `Converged`, `EventuallyTrusted` with two replicas, a pod that is replaced and a call that fails |
| `crdwatch` | MCCrdWatch, `crdwatch.cfg` | `BackoffGrows`, `Recovers` of the supervisor; `OneWatch`, `NotStranded` of the watcher, across outages, lost leases and restarts of the manager |
| `process` | MCProcess, `process.cfg` | `NotReadyWhileDraining`, `OperatorNeverHangs`, `CleanExit`, `Terminates` with signals, a server that fails and goroutines that hang |
| `tenant` | MCTenantAccess, `tenant.cfg` | `NoResurrection`, `NothingLeft`, `RefusedForCause`, `AccessRecovers` while the account comes and goes |
| `fetch` | MCSourceFetch, `fetch.cfg` | `ResourcesOwned`, `JudgedRight`, `Converges` for archives below, at and beyond each cap |

Two more runs end in a counterexample, on purpose: the property is what a
comment or a page of the documentation says, and the trace is what the code
does. Section 7 tells them.

Some properties deserve a word about what they do and do not say.

* `RecordsCurrent` is about the spec, not about an upstream that has moved
  since; a source reference is resolved when the reconcile reads it.
* `Settled` speaks of an empty queue. A failure that requeues keeps the queue
  non-empty, so a quiet system is one in which the last reconcile succeeded,
  was suspended, or stepped aside for an edit whose event must still be there.
* `PinThenFetch` ends where an unnoticed failure of a Stat, a listing or a
  Chtimes has misjudged a revision's age (`misjudged`); until then, and whatever
  else fails, the grace holds (section 7).
* `NoOrphans` allows a force-dropped finalizer to leave an `ExternalArtifact`,
  and tarballs when the salvage failed too. The event then says which of the two,
  and is missing only if a crash or a lost answer fell between the Update and it.
* `BackendKeepsPromise` judges a Prune by the files it could Stat: a revision
  whose successor could not be read goes by a later one's mtime or its own. With
  no such failure this is the retention rule itself (`NothingHidden`).
* `RefusedForCause` is what the cached verdict really promises: a refusal may
  outlive its loop, but only while something upstream is itself unpublished. That
  only snippets on a cycle are refused does not hold (section 7).
* `CyclesRefused` promises that *some* member of each loop is refused. A member
  that fails to render for another reason is not told that it is on a loop.
* `ServedFresh` tolerates one failed rotation per certificate: rotations are a
  third of the validity apart, so a second one comes before the expiry.
* `Converged` is about rotations that went well. A CA left behind by a replaced
  pod or a failed trim stays in the bundle until it expires.
* `DeletedMeansGone` is about a `Delete` that reports success within its
  deadline. One that reports it afterwards may have left objects (section 7).
* `RefusedForCause` of TenantAccess is about one worker, which is what runs
  today. With more a retry may join a mint that began before its eviction.
* `ServedTrusted`, `ServedFresh` and `Converged` are about a reload that is over
  when `GuardDelay` is (`PromptReload`); without it the first fails (section 7).
* `NothingLeft` is about an eviction that took place: one whose List failed, or
  that the handler never came to because the finalizer's Update answered an error
  after it had landed, is excused until the next one.
* `CleanExit` is about what `main` awaits. It excepts a reconcile of a manager
  that had not reported its caches when the shutdown reached it, which the
  supervisor leaves alone, and one that outlives its manager (`straggler`): that
  takes a drain window that has run out, or a lost lease or failed runnable.
* `OperatorNeverHangs` assumes that goroutines that can run do so within a unit
  of the clock, and that the manager's `Start` returns when its drain window is
  over: it is about the two windows fitting into each other.
* `JudgedRight` and `Consumable` say of the archive as a whole what the
  extractor decides entry by entry and chunk by chunk. The size of several
  entries is the number of their units, one pair of an entry and a position for
  each: a definition that needs no recursion, so that the same formula is checked
  and proved.

## 4. The bounds, and why they are enough

* `pins`: two contents, one of them inline too, so a revert exists by an edit
  and by the upstream; two generations, so a publish can be overtaken; a history
  of two; one failure of the API, the storage, a file's metadata or one of the two
  status patches.
  A grace of two units and a clock of four, so a pin can be taken before, at and
  after a supersession and be older than it; time passes between reconciles,
  before the Put, and before the steps that follow an upsert or a prune
  (`SlowSteps`). Time between the Put and the upsert is left out: there the
  grace can be used up (section 7).
* `teardown`: two generations with and without suspension, a content that does
  not evaluate, deletion at any moment, an outage of either backend at any
  moment and a passing failure or a crash beside it; after a failure the
  reconcile starts over from persistent state, so failures in a row compose. The
  clock reaches the bounded wait from any deletion (`RequestDelete` is disabled
  when the bound on the clock would not let it).
* `store`: three revisions, the least with which a partial prune can remove the
  middle one; one block per tarball besides the empty file; one fault. A
  process death is a fault, so the states after a death are those without
  further faults. Batches of one, so a `Delete` takes several requests; two
  silent ticks of the monitor, so that one may be followed by headway. A Stat that
  fails is the one fault, and hides any set of the files from that Prune.
* `evalgate`: four calls against a cap of two: two that hold a slot and two
  that race for one.
* `cycles`: two snippets and a library close every loop the code distinguishes:
  direct, mutual, through a library. Three edits build one and open or move it.
  The retry bound is two (ten in the code): one lost verdict that is retried, and
  one that gives up. `RenderLoopsEnd` is checked with one worker, which is what
  the operator runs: it never sets `MaxConcurrentReconciles`.
* `webhookca`: a validity of three units, so one unit is the renewal
  interval; the horizon is one validity, in which each replica rotates twice
  and once past a failure. Two replicas cannot use up four attempts by
  conflicts alone; giving in is allowed on any failure. `PromptReload` holds.
* `crdwatch`: one kind, since the maps are per kind and only the handler is
  shared (the proofs have any number of kinds). Two retries are one that is
  scheduled and one that gives up; two events are one that finds an engagement
  under way and one that comes after giving up; a backoff of three steps, two
  outages, so that the delay has grown when it is reset or reaches its cap.
* `process`: two servers, bound in one order and shut down in the other, as the
  management server is bound before the renderer's and shut down after it; the
  sweep in the background (the renewer is another goroutine of the same kind),
  two signals, one outage and one failing server or bind. No late CRDs:
  `crdwatch` has them. A drain window of one unit and a slack of one.
* `tenant`: two snippets, so that the last one and an earlier one are deleted
  and so that, with two workers, an eviction meets the other's mint or build;
  two accounts of the name, which is one recreation; one failing call, the
  finalizer's Update included. A
  token lives for one unit and is refreshed when it expires: the margin, which
  only moves the refresh, is in the proofs.
* `fetch`: two snippets against one slot; caps of one, one, two and five units,
  with an archive exactly at every cap and one beyond each; a first revision of
  any shape and a good second one; one failure. Two workers, more than the
  controller has today: the cap of the `Fetcher` is there for them.

Symmetry is not used: the runs that are large check liveness or name their
model values apart in the configuration.

Every bound (`MaxGeneration`, `MaxTime`, `MaxFaults`, `MaxEdits`,
`MaxRestarts`, `MaxAttempt`, `MaxOutages`, `MaxEvents`, `MaxUid`) is a constant
with a guard; none is a state constraint. Deadlock checking is off where the
bounded environment does stop: a system at rest with no edits left is a legal
end, and so is a process that has exited. It is on in `store` and
`evalgate`, which never stop.

Time is counted in units that are long against what is not being asked. In
SnippetLifecycle a unit passes only when the informer has caught up, in
WebhookCA (weeks) only between rotations.

## 5. Fairness

* `SnippetLifecycle`: weak fairness of the operator's step and of the
  informer, which are goroutines that run whenever they can; strong fairness of
  `Tick`, because time passes however busy the worker is: the workqueue backs
  off between two attempts of one key. Edits, deletions, pokes, failures and
  outages are under no fairness.
* `StoreFiles`: weak fairness of the worker's and the sweep's steps and of the
  periodic start of the sweep; strong fairness of the sweep's entry, since a Go
  mutex is handed over to a waiter that has waited for 1 ms.
* `S3Store`: weak fairness of the monitor, which has a ticker, and of listings
  and removals, which have a deadline. None of the upload's bytes: `UploadEnds`
  has to hold without it.
* `EvalGate`: weak fairness of the goroutines that can run. Nothing is assumed
  of the evaluation (it may never end) nor of the deadlines.
* `DependencyCycles`: weak fairness of workers, informers and handlers; strong
  fairness of taking a key, the queue being first in, first out.
* `WebhookCA`: weak fairness of each replica's goroutine and of the reload.
* `CrdWatch`: weak fairness of the supervisor, of building a manager and of its
  goroutines, of the watcher, and of `Repair`: `Recovers` is about an operator
  whose cluster comes back. None of a reconcile, nor of the lease.
* `Process`: weak fairness of `main`, of timers, of the supervisor and of the
  manager's own goroutines. None of a build, a request, a reconcile, the sweep
  or the renewer: `Terminates` holds when any of them hangs.
* `TenantAccess`: weak fairness of a reconcile's steps and of the mint, which has
  a timeout; strong fairness of taking a key, the queue being first in, first
  out, and a reconcile being repeated by its interval or its retry.
* `SourceFetch`: weak fairness of taking a due key and of a fetch's steps (the
  HTTP client has a timeout); strong fairness of the slot, since senders blocked
  on a Go channel are served in turn.

## 6. What is proved

Unless a hypothesis is named below, the proofs need the constants' assumptions
only, which TLC evaluates on every run: any contents, histories, grace, backend,
failures, outages, any bounds; any finite number of calls, snippets, kinds,
servers, workers, and any limits.

**The snippet** (SnippetLifecycle_proofs)

* `TypeCorrect`: `TypeOK`. The strengthening is that a withdrawal being given
  up is undecided at the salvage only (`ForcedIsSettled`); the rest is one
  step per action, with lemmas on what `Put`, `Remove` and the history
  operators return.
* `ArtifactAlwaysServed`: `ArtifactServed`, when no edit suspends the snippet
  (run `suspend` shows why that is needed). The invariant adds two facts.
  `DeletionRecorded`: whatever copy says that the snippet is deleted, the API
  server says so too, and a withdrawal step works on such a copy; so tarballs
  are wiped of a dying snippet only. `PublishedHeld`: at the upsert the
  revision is stored, and at the prune the artifact names it; so the prune,
  which always keeps it, cannot take it.
* `RecordedWithinKeep`: `HistoryWithinKeep`, in rendered mode. The heart is
  the lemma `RecordedIsKept` of ArtifactGC_proofs: for every history, limit and
  new revision, what `UpdateRevisionHistory` records is within what
  `BuildKeepRevisions` kept. Both deduplicate differently (one compares the head
  only, the other counts distinct values), so this is a counting argument over
  the positions of the list. The rest says that between `Gate` and `Patch`
  nobody moves the history that was read, and that the history limit both steps
  use is the same.
* `RecordsAreCurrent`: `RecordsCurrent`. The invariant `RecordInv` says that
  every copy was seen before: its generation is at most the object's, and when
  it is equal the spec is the same. The second staleness gate then makes the
  content rendered the content of the current spec.
* `AlwaysSettled`: `Settled`. `SettledInv` says what a reconcile owes when no
  key is waiting: it works on the spec the informer has and on the tree the
  source still serves, past the upsert the artifact names its revision, and an
  idle queue with a caught-up cache means that all is up to date. Every step that
  could break it either puts the key back, leaves the cache behind the object
  (so an event is still to come), or finishes the work.
* `NeverOrphans`: `NoOrphans`. `OrphanInv` follows the finalizer: a snippet
  without it has published nothing yet, in any of its copies (`Unpublished`); it
  is taken off only after what it guards is gone or given up (`Withdrawn`), and
  until then nothing is given up (`Undropped`); the Update and the event are two
  steps, with a crash or a lost answer between them; and once the object is gone
  no copy can start a publish, since a cached copy with the finalizer shows the
  deletion (`StaysGone`).
* `PinsAlwaysFetch`: `PinThenFetch`, for the local backend, no revert to a
  tarball that ties with another, no suspension and an upsert that follows its
  Put within the instant and succeeds (`PromptUpserts`). Each hypothesis keeps
  out something section 7 tells of; mtimes may tie in every other way. `PinInv`:
  for the grace after the pin, nothing newer than the pinned tarball is older
  than the pin, so the instant it was superseded, which is the mtime of the
  oldest newer one, is not before the pin; and what was published since, if it
  ties with the pinned one, was written no earlier than the pin either, so that
  something newer than both will be. `StampedInv`: what is about to
  replace the published revision carries this instant. `NewestInv`: nothing is
  newer than the published tarball but one put this instant. All three are
  claimed as long as nothing was misjudged: a Stat, listing or Chtimes may fail
  in any Put or Prune, and one that changes what is stamped or taken ends the
  promise, as it does in the code.

**The guards of a render** (Render_proofs)

* `CyclesAlwaysRefused`: `CyclesRefused`, for finitely many snippets. A `Loop` is
  a set in which everybody reads a member and no proper part is closed; every
  finite set of snippets that read one another contains one (well-founded
  induction on inclusion, `LoopWithin`). `LoopInv`: some member of each loop
  will be refused (`ToRefuse`): an event is on its way to it, or nothing says
  that it is on no loop (`Unrefuted`) and it is queued, about to look up, walking
  where it has not lost the loop (`Explores`), or refused. The witness may
  change only when an edit makes the loop, and the edited snippet or the readers
  of the edited library then have an event coming. `ExplorationFinds` is the
  graph argument: a walk that ends without finding itself would have visited a
  closed part of the loop.
* `RefusalsAlwaysCaused`: `RefusedForCause`. `CauseInv`: whoever believes in a
  loop (a cached verdict, a refusal, or a walk in places that are no longer
  upstream, unless it is overtaken and queued) is on one, has an event coming, or
  has something upstream that is not settled. Upstream is the least closed set,
  so a walk of the current spec stays within it (`UpstreamClosed`); a publish
  settles a member only by creating an event to one of its readers, which is
  upstream too (`UpstreamReader`); and an edit that is not upstream leaves
  upstream as it was (`UpstreamKept`).
* `CapAlwaysHolds`: `CapHolds`. `GateInv`: the counter equals the number of
  calls that hold a slot, holders are exactly the running evaluations while the
  gate is on, and a call about to swap has read a number below the limit. A
  swap succeeds only on the number it read, so it never exceeds the limit.
* `RejectsOnlyWhenFull`: `RejectedOnlyWhenFull`, from the same invariant: a load
  that finds the counter at the limit has found that many evaluations running.

**The stores** (Stores_proofs)

* `BackendImplementsStore`: both backends implement `RevisionStore`, step by
  step. `BackendInv` says who is in which store, that a final name is only given
  to a whole tarball of this instant, and, the point of it, that whatever a
  `Prune` has still to remove may still be removed (`Prunable`), by the files it
  could read (`unread` is the rest, in both specifications; `NothingHidden`:
  without a failing Stat there is none). The victims
  were computed once, by the mtimes of newer siblings, and the siblings
  disappear one by one. `SupersededAtOldest`: the instant a revision was
  superseded is the mtime of the oldest newer one. `VictimsStayVictims`: if
  that one goes it was a victim itself, so it was superseded by a revision of
  which the grace is over as well. `VictimsAge`: time only helps.
* `TarballsAlwaysComplete`, `InFlightAlwaysKept`, `BackendTypeCorrect`: from
  the same invariant; the sweep removes a temporary file only under the lock
  that a `Put` holds for as long as it has one.
* `DeletedAlwaysGone`: `DeletedMeansGone`, which is about the bucket. `WipeInv`: once the
  listing has ended, within the deadline and without an error, what is still
  stored is among what it listed or in the batch under way; so a success leaves
  nothing, although the channel closes the same way however the listing ended.

**The certificates** (WebhookCA_proofs)

* `ServedAlwaysTrusted`: `ServedTrusted`, when `PromptReload`, as the next two
  require as well. `ReplicaInv`: a
  read that nobody overtook is the bundle, and what it shows of the reader's own
  CAs is true even when it was overtaken, since nobody else takes those out;
  from the moment the union has landed until the trim both the served and the
  fresh CA are in the bundle; the trim runs only after the files, and so the
  listener, are at the fresh one.
* `ServedAlwaysFresh`: `ServedFresh`, when `Validity >= 3` (so that the renewal
  interval, a third of it, is not zero) and the attempts outnumber the conflicts
  of one instant, `2 * (Cardinality(Replicas) - 1) + MaxRestarts < Attempts`. A
  replica lands two updates per rotation, so `TriesInv` charges every
  failed attempt to a landing of somebody else, a restart or a fault; `AgeInv`
  then bounds how far the served certificate may lag behind the ticker, by one
  interval more after a fault.
* `AlwaysConverged`: `Converged`, when `Validity >= 3` and
  `2 * (Cardinality(Replicas) - 1) < Attempts`. `BundleInv`: the bundle's CAs of a
  replica are exactly those its rotation calls for at this stage. The hypothesis is
  tight: with three replicas and the code's four attempts it fails (section 7).
* `TypesCorrect`: the types.

**The fetcher, the credentials, the operator**

* `ResourcesAlwaysOwned`: `ResourcesOwned`, as its own invariant with the types
  of the jobs: a fetch holds a slot exactly at its request and its copy, and
  the set of those gains or loses a member with every step of `slots`.
* `AlwaysJudgedRight`: `JudgedRight`, for every archive, cap and chunk. `JudgeInv`
  keeps an account of the stream: what the reader has left, plus the entries
  read so far, less what is wanted of the one at hand, is the cap
  (`Unpacking`); what is kept so far is what the archive holds up to there, each
  name once, within the caps (`Accepted`). A refusal is then an entry that the
  rest of the archive cannot make up for (`RefusedMeansUnfit`), a tripped reader
  a stream that is longer than the cap and not as long as the cap
  (`TripMeansTooLong`), and the end of the stream an archive that fits
  (`EndMeansFit`). Sizes grow with the entries (`SizeAdds`, `SizeGrows`,
  `OneEntryMore`) by counting disjoint sets of units, without induction.
* `EvictedStaysOut`: `NoResurrection`. A flight whose token is older than the
  last eviction is not `intact`, and uids only grow.
* `CachesLeftEmpty`: `NothingLeft`. Each cache is empty, or the latest eviction
  was skipped, or some snippet is live or in a reconcile that still ends in an
  eviction, and what is under way then will not be written.
* `RefusalsHaveACause`: `RefusedForCause`. With one worker nobody else is in
  the flight, so a retry's token was minted after its first 401; if it is of an
  account that is no more, that account went away since.
* `TenantTypeCorrect`: with the arithmetic of `refreshMarginFor`: the refresh
  falls strictly after the mint and not after the expiry.
* `NeverWatchedTwice`, `NeverStranded`: `WatchInv`. `engaging` agrees with the
  calls under way, of which there is one per kind at most; a kind that is
  missing has no watch; events and timers are only about kinds that were missing
  when this manager was built.
* `BackoffAlwaysGrows`: `SupInv` relates the index into the backoff to the
  number of quick failures in a row in each phase of the supervisor.
* `OperatorTypeCorrect`: the types of the supervisor and the watcher.
* `NeverReadyWhileDraining`, `OperatorGoneInTime`, `ExitsClean`: `ProcessInv`.
  The supervisor waits for a manager only if it has synced, so the manager's
  drain window is all it waits for; what `main` has ticked off was gone or is in
  the exit code. For `ExitsClean` also `StragglerInv`: a reconcile outlives its
  manager only when the drain window is over, or when the cluster broke under a
  manager that had synced.

Only model-checked:

* every liveness property (`DeletionCompletes`, `EventuallyPublished`,
  `ResidueReclaimed`, `UploadEnds`, `LeaksDrain`, `RenderLoopsEnd`,
  `EventuallyTrusted`, `Recovers`, `Terminates`, `AccessRecovers`, `Converges`):
  they rest on fairness, which is out of the prover's reach.

Every invariant and every action property that a passing run checks is a
theorem, some under the hypotheses named above.

## 7. Where code and documentation disagree

* **Suspension can lose the published artifact** (`suspend`). The suspend
  branch prunes by `status.history` alone (`reconciler.go:617`). When the
  suspending edit lands between a publish and its `markSynced`, the published
  revision is in no history, and a later reconcile of the suspended snippet
  removes it. The comment at `reconciler.go:598` and `operator-mode.md:136` say
  that suspension leaves the artifact in place.
* **Source mode keeps one revision less than it lists** (`source_history`). The
  keep-set is derived from the rendered hash in either output mode
  (`reconciler.go:842`), which in source mode is no revision of the artifact and
  takes the place of one. At rest the status lists a revision that was pruned
  (`HistoryRetained`), while `storage-recovery.md:216` says that `Prune` only
  deletes revisions which `status.history` no longer references.

Others, without a run of their own; the ones marked with a property can be seen
by checking it with the bounds given:

* **The grace runs from the Put, not from the upsert.** `publisher.go:75`
  describes `GCGrace` as the minimum time an evicted revision remains fetchable.
  An upsert that keeps failing for longer than the grace (`publisher.go:170`)
  uses it up before consumers are pointed to the new revision. `PinThenFetch`,
  `pins.cfg` with `"denied"` among the faults and `"upsert"` among `SlowSteps`.
* **The history can list what is gone in rendered mode, too.** `Publish` prunes
  before `markSynced` records, and when an edit has landed meanwhile `markSynced`
  steps aside (`reconciler.go:1720`): what was pruned goes on being listed.
  Usually the next publish pushes it off the list; when the edit was a revert to
  the head of the history, the list stays as it was. `RecordedWithinKeep` is not
  at odds with this: every record is within the keep-set of its own publish, but
  not of one that is never recorded. `source_history.cfg` with rendered outputs,
  three contents, four generations and `MaxTime = 3`.
* **A revert on S3 re-stamps nothing** (`s3.go:250`), unlike on the filesystem
  (`store.go:171`), although `backend.go:31` says that the contract holds across
  both: the displaced revision loses its grace. `PinThenFetch` with
  `Backend = "s3"`.
* **A verdict can outlive its loop** (`reconciler.go:1067` against
  `jsonnetsnippet.md:123`). An upstream edit that publishes nothing evicts
  nobody's verdict, so a snippet reports `DependencyCycle` that is on no cycle.
  `cycles.cfg` with
  `AtRest => \A s \in Snippets : outcome[s] = "cycle" => OnCycle(s)`.
* **A forced drop may go unreported.** The comments at `reconciler.go:387-389`,
  `412-415` and `511-513` have the event and the metric fire once per actual drop.
  When the process dies between the Update and `forceDropFinalizer`, or the Update
  lands and answers an error, the next Get finds no snippet
  (`reconciler.go:297-300`) and neither ever fires. `teardown.cfg` with
  `NoOrphans` without `"lost"`.
* **A forgone bump is not harmless.** The comment of `hasNewerSibling`
  (`store.go:233-234`) says that a missed newer sibling only forgoes the revert
  bump. So do a failing listing and a failing Chtimes (`store.go:183, 236-238`), all
  without an error; the displaced revision is then judged by its own mtime and
  pruned within its grace. `pins.cfg` with `PinThenFetch` without `misjudged`.
* **An unreadable file shortens the grace of others.** The comment of `Prune`
  (`store.go:359-363`) measures the grace from the earliest newer mtime. Candidates
  whose Stat fails are dropped (`store.go:397-400`), so a revision that only such a
  file had displaced is judged by a later one or by its own mtime. None goes that
  is itself younger than the grace.
* **The last tenant's credentials can stay cached.** When the Update that removes
  the finalizer lands and answers an error, `reconcileDelete` returns before
  `forgetPerSnippetCaches` (`reconciler.go:385-391`) and no retry finds the
  snippet, although the comment at `458-464` has every exit evict that lets the
  snippet go. The token expires by itself. `tenant.cfg` with `NothingLeft` where
  `RemoveFinalizer` leaves `skipped` alone.
* **The trim waits for a time, not for the reload.** `renewOnce` sleeps five
  seconds (`renewer.go:26, 241-242`). A certwatcher that has not reloaded by then
  serves a certificate whose CA has been taken out. `webhookca.cfg` with
  `PromptReload = FALSE` and `ServedTrusted`.
* **The retries of a late CRD's watch end sooner than their comment says.**
  `crdwatcher.go:23-29` counts six attempts as 1+2+4+8+16+32, about 63 seconds; the
  sixth failure gives up at once (`crdwatcher.go:154`), so the waits are
  1+2+4+8+16, about 31. `GivesUp` follows the code.
* **A finalizer dropped by force for a reason that has passed.**
  `reconciler.go:420-425` takes a 401 on the deletion path for proof that the
  account is gone. When the refresh after the first 401 fails to mint because of
  a passing error, the 401 stays at the head of the chain and the drop is just
  as final, while `authretry.go` calls only the second answer of the API server
  final. In TenantAccess it is the `MintFails` of a retry.
* **A `Delete` on S3 past its deadline can report success.** The lister leaves
  its select through the cancelled context without an error (`s3.go:516`), and if
  the remover had nothing pending the call returns nil with objects left:
  `deleted = "late"`.
* **`MaxConcurrentReconciles` is 5** says `docs/runbooks/workqueue-saturation.md:55`;
  no option is set (`reconciler.go:1902`), so there is one worker.
* **"exactly one manager is live at a time"** (`manager.go:90`): after a lost
  lease a reconcile of the old manager may outlive it into the next one's life.
* **A manager that is not yet available at shutdown is abandoned**
  (`supervisor.go:102-113`, "nothing to drain"), but its readiness runnable may
  simply not have run yet: a reconcile can be under way when the store closes. So
  can one that outlives the manager's drain window, or a manager that lost its
  lease, with exit code 0: the supervisor has returned by then
  (`supervisor.go:111-120`). What `main.go:655-657` says of the sweep, that the
  store must not be closed under it, is not so for these; `CleanExit` names both.
* **"200 means reconciling"** (`internal/handler/operator.go:32`): availability is
  raised on every replica once its caches have synced (`manager.go:56-64`), so a
  standby answers 200 as well.
* **"recovers within this long at worst"** (`supervisor.go:22-26`): the jitter
  adds up to a fifth.
* **Past its deadline `awaitGoroutines` may report a goroutine that has
  stopped**, since its select takes either of two ready cases.
* **`ErrDigestMismatch` is transient** says `sources.go:95-97`; `classifyFetchError`
  makes it terminal, and its comment leaves the snippet to the next watch event.
  What retries it is `failReady`'s requeue after a minute (`reconciler.go:1627`),
  on which `Converges` rests.
* **A duplicate entry and unreadable gzip have no sentinel** (`sources.go:860`), so
  they are retried as transient, which `sources.go:100-105` means to avoid.
* **Four attempts are few for three replicas.** `patcher.go:36-44` says that
  re-applying the mutation against the winner's object converges. The attempts are
  those of `retry.DefaultBackoff` (`patcher.go:53`), four; two peers that rotate
  at the same moment land four updates, so a trim can lose all its attempts to
  conflicts. Nothing becomes untrusted: the superseded CA stays in the bundle until
  it expires. `webhookca.cfg` with a third replica and `Converged`; with
  `Attempts = 5` it holds, as `AlwaysConverged` says.
* **Publishable is not consumable.** `spec.files` may hold `main.jsonnet` and
  `./main.jsonnet`: both pass `SafeEntryName`, both normalise to one name, and
  every consumer refuses the archive as having a duplicate entry, which
  `sources.go:962-964` rules out.
* With more than one worker a retry after a 401 can join a mint that began
  before its eviction (`token.go:86-92`) and is refused again: `RefusedForCause`
  without its first conjunct.
* Where mtimes tie, as on filesystems and buckets with one-second timestamps,
  a revert to one of two tied tarballs finds no newer sibling and is not stamped
  again, so the displaced one is pruned by its own age. `pins.cfg` with
  `TiedReverts = TRUE` shows it; ties that no revert follows are harmless.
* `externalartifact.md:85-87` says that a revision out of the keep-set is
  collected after the grace. It is collected by the first reconcile after it;
  nothing schedules one.
* `storage-and-ha.md:139` and the help of `--artifact-gc-grace` measure
  the grace from the moment a revision leaves the keep-set, the code from the
  moment the next revision was written; with `spec.history` above one these are
  different moments.
* `store.go:63-66` says that Sweep takes no key lock; it takes the lock of each
  directory it looks into, which is what `InFlightKept` rests on.

## 8. What is not modelled, and why

* **Bytes**: Jsonnet, tar, gzip, PEM, X.509, JSON, metrics, log lines and the
  texts of conditions. No property here is about them.
* **Pure request handlers**: the admission webhook, HTTP routing, `urlguard`.
  They keep no state; what they call is in `EvalGate`.
* **The rate limiter**: one `golang.org/x/time/rate` bucket per snippet, evicted
  with it. A refusal requeues, which is one of `Render`'s outcomes.
* **Start-up**: flags and their validation, OCI libraries, start-up checks. They
  run once, before anything else does.
* **Power loss** below the filesystem: `Put` renames without an fsync. The
  crashes here are deaths of the process.
* **Two writers of one store**: a straggler of a lost lease, or a request of a
  dead process that the bucket carries out later, beside the next manager. The
  stores have one writer; Supervision says when there may be two.
* **Compositions**: the certificate files of `WebhookCA` with the managers that
  `Supervision` starts on them; `TenantAccess` and `SourceFetch` inside
  `SnippetLifecycle`, where their results are outcomes of a step.

## 9. What is left

In this order:

1. The hand-over between two managers: a straggler's `Put`, `Prune` or `Delete`
   beside the next worker's, on either backend.
2. The certificate files with a manager that is restarted on a mismatched pair.
3. The rate limiter's buckets and their eviction; `EvalGate` with its callers.
