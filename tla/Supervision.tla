----------------------------- MODULE Supervision -----------------------------
(***************************************************************************)
(* The operator inside the process: Supervise starts a controller manager, *)
(* waits for it, backs off and starts the next one, for as long as the     *)
(* context lives.  The manager builds its clients and watches, waits for   *)
(* its caches and for the lease, reconciles, and drains when it is told to *)
(* stop.  Its readiness runnable, a goroutine of its own, raises the pod's *)
(* readiness and the operator's availability once the caches have synced.  *)
(***************************************************************************)
EXTENDS Naturals, FiniteSets

CONSTANTS
  MaxAttempt,              \* from this attempt on the backoff is at its cap
  GracefulShutdownTimeout, \* the manager's drain window, in clock units
  MaxOutages               \* bound on what breaks the manager

ASSUME SupervisionConstants ==
  /\ MaxAttempt \in Nat \ {0}
  /\ GracefulShutdownTimeout \in Nat \ {0}
  /\ MaxOutages \in Nat

VARIABLES
  sup,        \* where Supervise is
  attempt,    \* its index into the backoff
  quick,      \* failures in a row of managers that did not last
  lasted,     \* this manager was started superviseHealthyRun ago or earlier
  mgr,        \* what the manager's goroutine is doing
  signalled,  \* its readiness runnable has run
  working,    \* one of its reconciles is under way
  straggler,  \* a reconcile outlived its manager
  available,  \* opstate: what /operator and the gauge report
  ready,      \* what the readiness probe reports
  draining,   \* the probe's latch
  cancelled,  \* the context of the process is cancelled
  clock,      \* time since then
  reachable,  \* API server, RBAC and CRDs are what the manager needs
  outages     \* outages left

supervisor == <<sup, attempt, quick, lasted>>
manager == <<mgr, signalled, working, straggler>>
health == <<ready, draining>>
ctx == <<cancelled, clock>>
cluster == <<reachable, outages>>
svars == <<sup, attempt, quick, lasted, mgr, signalled, working, straggler, available,
           ready, draining, cancelled, clock, reachable, outages>>

(* A manager whose caches are synced and which has not been stopped. *)
Synced == mgr \in {"standby", "leading"}
Stopping == mgr \in {"draining", "failing"}

(* The type invariant. *)
SupervisionTypeOK ==
  /\ sup \in {"off", "spawn", "wait", "drain", "backoff", "done", "abandoned"}
  /\ attempt \in 1..MaxAttempt /\ quick \in 0..MaxAttempt /\ lasted \in BOOLEAN
  /\ mgr \in {"none", "building", "caches", "standby", "leading",
              "draining", "failing", "stopped"}
  /\ signalled \in BOOLEAN /\ working \in BOOLEAN /\ straggler \in BOOLEAN
  /\ available \in BOOLEAN /\ ready \in BOOLEAN /\ draining \in BOOLEAN
  /\ cancelled \in BOOLEAN /\ reachable \in BOOLEAN
  /\ clock \in Nat /\ outages \in 0..MaxOutages

SupervisionInit ==
  /\ sup = "off" /\ attempt = 1 /\ quick = 0 /\ lasted = FALSE
  /\ mgr = "none" /\ signalled = FALSE /\ working = FALSE /\ straggler = FALSE
  /\ available = FALSE /\ ready = FALSE /\ draining = FALSE
  /\ cancelled = FALSE /\ clock = 0
  /\ reachable \in BOOLEAN /\ outages = MaxOutages

AtMostCap(n) == IF n > MaxAttempt THEN MaxAttempt ELSE n

-----------------------------------------------------------------------------
(* The probe.  Once draining, readiness only goes down. *)

(* Mutant: the last writer wins. *)
SetReadyUnlatched(r) == ready' = r

SetReady(r) == ready' = IF ~draining \/ ~r THEN r ELSE ready

MarkDraining == draining' = TRUE /\ ready' = FALSE

-----------------------------------------------------------------------------
(* Supervise. *)

(* RecordAttempt, and a goroutine for the manager. *)
Spawn ==
  /\ sup = "spawn"
  /\ sup' = "wait" /\ lasted' = FALSE
  /\ mgr' = "building" /\ signalled' = FALSE
  /\ UNCHANGED <<attempt, quick, working, straggler, available, health, ctx, cluster>>

(* superviseHealthyRun passes, which matters after a failure only. *)
Lasts ==
  /\ sup = "wait" /\ attempt > 1 /\ ~lasted /\ lasted' = TRUE
  /\ UNCHANGED <<sup, attempt, quick, manager, available, health, ctx, cluster>>

MarkUnavailable == available' = FALSE

(* Mutant: a manager that synced its caches counts as a fresh start. *)
FreshWhenAvailable == lasted \/ available

Fresh == lasted

(* The manager's goroutine has returned while nobody is shutting down. *)
Failed ==
  /\ sup = "wait" /\ mgr = "stopped" /\ ~cancelled
  /\ MarkUnavailable
  /\ attempt' = IF Fresh THEN 1 ELSE attempt
  /\ quick' = IF lasted THEN 1 ELSE AtMostCap(quick + 1)
  /\ sup' = "backoff" /\ mgr' = "none"
  /\ UNCHANGED <<lasted, signalled, working, straggler, health, ctx, cluster>>

(* Mutant: a manager that stopped stays stopped, as log.Fatal would have it. *)
NoRestart == FALSE

(* The delay is over. *)
Restart ==
  /\ sup = "backoff" /\ ~cancelled
  /\ sup' = "spawn" /\ attempt' = AtMostCap(attempt + 1)
  /\ UNCHANGED <<quick, lasted, manager, available, health, ctx, cluster>>

(* Mutant: whatever the manager is doing, it is waited for. *)
AlwaysAwaited == TRUE

Awaited == available

(* Shutdown: a manager that synced is awaited, one that is still being     *)
(* built is left to itself.                                                *)
SeesShutdown ==
  /\ sup = "wait" /\ cancelled /\ mgr # "stopped"
  /\ sup' = IF Awaited THEN "drain" ELSE "abandoned"
  /\ UNCHANGED <<attempt, quick, lasted, manager, available, health, ctx, cluster>>

Leaves ==
  /\ cancelled
  /\ \/ sup \in {"wait", "drain"} /\ mgr = "stopped"
     \/ sup = "backoff"
  /\ sup' = "done"
  /\ UNCHANGED <<attempt, quick, lasted, manager, available, health, ctx, cluster>>

(* Supervise has returned. *)
Returned == sup \in {"done", "abandoned"}

Supervise == Spawn \/ Failed \/ Restart \/ SeesShutdown \/ Leaves

-----------------------------------------------------------------------------
(* The manager. *)

(* NewManager, the reconciler, its watches: needs the API server, and does *)
(* not look at the context.                                                *)
Build ==
  /\ mgr = "building"
  /\ mgr' = IF reachable THEN "caches" ELSE "stopped"
  /\ UNCHANGED <<supervisor, signalled, working, straggler, available, health, ctx, cluster>>

(* The informers sync, however long that takes. *)
CachesSync ==
  /\ mgr = "caches" /\ reachable /\ ~cancelled
  /\ mgr' = "standby"
  /\ UNCHANGED <<supervisor, signalled, working, straggler, available, health, ctx, cluster>>

(* readinessSignal.Start: it calls onReady before it looks at its context, *)
(* on every replica, leader or not.                                        *)
OnReady ==
  /\ (Synced \/ Stopping) /\ ~signalled
  /\ signalled' = TRUE
  /\ SetReady(TRUE)
  /\ available' = TRUE
  /\ UNCHANGED <<supervisor, mgr, working, straggler, draining, ctx, cluster>>

(* The lease is acquired and the controllers start. *)
Elect ==
  /\ mgr = "standby" /\ reachable /\ ~cancelled
  /\ mgr' = "leading"
  /\ UNCHANGED <<supervisor, signalled, working, straggler, available, health, ctx, cluster>>

StartReconcile ==
  /\ mgr = "leading" /\ ~working /\ working' = TRUE
  /\ UNCHANGED <<supervisor, mgr, signalled, straggler, available, health, ctx, cluster>>

FinishReconcile ==
  /\ \/ working /\ working' = FALSE /\ UNCHANGED straggler
     \/ straggler /\ straggler' = FALSE /\ UNCHANGED working
  /\ UNCHANGED <<supervisor, mgr, signalled, available, health, ctx, cluster>>

(* A runnable returns an error, such as a webhook server without its       *)
(* certificate: the rest is drained.                                       *)
RunnableFails ==
  /\ Synced /\ ~reachable /\ ~cancelled
  /\ mgr' = "failing"
  /\ UNCHANGED <<supervisor, signalled, working, straggler, available, health, ctx, cluster>>

(* The lease is lost: the manager returns at once, without a drain.  It    *)
(* takes longer to lose a lease than to start a goroutine.                 *)
LoseLease ==
  /\ mgr = "leading" /\ signalled /\ ~reachable /\ ~cancelled
  /\ mgr' = "stopped"
  /\ working' = FALSE /\ straggler' = (straggler \/ working)
  /\ UNCHANGED <<supervisor, signalled, available, health, ctx, cluster>>

(* The context is cancelled. *)
StartDrain ==
  /\ cancelled
  /\ \/ mgr = "caches" /\ mgr' = "stopped"
     \/ Synced /\ mgr' = "draining"
  /\ UNCHANGED <<supervisor, signalled, working, straggler, available, health, ctx, cluster>>

(* Every runnable has returned. *)
Drained ==
  /\ Stopping /\ signalled /\ ~working
  /\ mgr' = "stopped"
  /\ UNCHANGED <<supervisor, signalled, working, straggler, available, health, ctx, cluster>>

(* Or the window is over, and Start returns without the reconcile.         *)
DrainTimesOut ==
  /\ \/ mgr = "failing" /\ signalled
     \/ mgr = "draining" /\ signalled /\ clock >= GracefulShutdownTimeout
  /\ working
  /\ mgr' = "stopped"
  /\ working' = FALSE /\ straggler' = TRUE
  /\ UNCHANGED <<supervisor, signalled, available, health, ctx, cluster>>

Manage == CachesSync \/ OnReady \/ StartDrain \/ Drained

-----------------------------------------------------------------------------
(* The cluster. *)

Break ==
  /\ reachable /\ outages > 0
  /\ reachable' = FALSE /\ outages' = outages - 1
  /\ UNCHANGED <<supervisor, manager, available, health, ctx>>

Repair ==
  /\ ~reachable /\ reachable' = TRUE
  /\ UNCHANGED <<supervisor, manager, available, health, ctx, outages>>

(* The steps that concern neither the watches nor the lease. *)
Runs ==
  \/ Supervise \/ Manage \/ DrainTimesOut
  \/ Lasts \/ StartReconcile \/ FinishReconcile \/ RunnableFails \/ LoseLease
  \/ Break \/ Repair

-----------------------------------------------------------------------------
(* Managers that keep failing soon after they sync do not hammer the API   *)
(* server: k failures in a row wait for at least the k-th delay.           *)
BackoffGrows == sup = "backoff" => attempt >= quick

(* The probe that is down for the shutdown stays down, though a manager    *)
(* may sync its caches during the drain delay.                             *)
NotReadyWhileDraining == draining => ~ready
=============================================================================
