---------------------------- MODULE Operator_proofs ----------------------------
(***************************************************************************)
(* The supervised operator, its CRD watcher, and the process around them:  *)
(* for every number of kinds, retries, servers and background goroutines,  *)
(* every drain window and any number of outages and signals.               *)
(***************************************************************************)
EXTENDS Process, TLAPS

-----------------------------------------------------------------------------
(* The CRD watcher. *)

CrdShape ==
  /\ missing \subseteq Kinds /\ event \subseteq Kinds /\ checked \subseteq Kinds
  /\ watches \in [Kinds -> Nat] /\ attempts \in [Kinds -> Nat] /\ timers \in [Kinds -> Nat]
  /\ calls \in [Kinds -> SUBSET Callers]

(* What is attempted, or will be, is a kind the manager did not watch when *)
(* it was built; the flags and the calls under way agree.                  *)
WatchInv ==
  /\ CrdShape
  /\ \A k, l \in checked : k = l
  /\ engaged \cap missing = {}
  /\ \A k \in Kinds :
       /\ watches[k] <= 1
       /\ k \in missing => watches[k] = 0
       /\ calls[k] # {} <=> k \in engaging
       /\ k \in engaging => k \notin engaged
       /\ "handler" \notin calls[k] \/ "timer" \notin calls[k]
       /\ k \in event \cup checked \cup engaging => k \in missing \cup engaged
       /\ timers[k] > 0 => k \in missing \cup engaged

CrdInv == WatchInv /\ NotStranded

(* Without a watcher nothing is scheduled.                                 *)
LEMMA NoWatcherKeepsInv ==
  ASSUME WatchInv, NoWatcher, UNCHANGED <<missing, watches>>
  PROVE  WatchInv'
BY DEF WatchInv, CrdShape, NoWatcher, None, NoKind

(* A manager under construction watches the kinds that are there, ...      *)
LEMMA SetupKeepsInv == ASSUME CrdInv, SetupWatches PROVE CrdInv'
<1>1. ~Watching'
  BY DEF SetupWatches, Build, Watching
<1>2. CASE UNCHANGED <<missing, watches>>
  BY <1>1, <1>2, NoWatcherKeepsInv DEF SetupWatches, CrdInv, NotStranded
<1>3. CASE /\ missing' = Kinds \ installed
           /\ watches' = [k \in Kinds |-> IF k \in installed THEN 1 ELSE 0]
  BY <1>1, <1>3
     DEF SetupWatches, NoWatcher, None, NoKind, CrdInv, WatchInv, CrdShape, NotStranded
<1> QED
  BY <1>2, <1>3 DEF SetupWatches

(* ... its watcher starts on the ones that are not, ...                    *)
LEMMA StartWatcherKeepsInv == ASSUME CrdInv, StartWatcher PROVE CrdInv'
BY DEF StartWatcher, Elect, crds, CrdInv, WatchInv, CrdShape, NotStranded

(* Nothing but the election starts the watcher. *)
LEMMA RunsStartNoWatcher == ASSUME Runs, Watching' PROVE Watching
<1>1. mgr' = "leading" => mgr = "leading"
  <2>1. CASE Supervise \/ Lasts
    BY <2>1 DEF Supervise, Spawn, Failed, Restart, SeesShutdown, Leaves, Lasts, manager
  <2>2. CASE Manage \/ DrainTimesOut
    BY <2>2 DEF Manage, CachesSync, OnReady, StartDrain, Drained, DrainTimesOut
  <2>3. CASE StartReconcile \/ FinishReconcile \/ RunnableFails \/ LoseLease
    BY <2>3 DEF StartReconcile, FinishReconcile, RunnableFails, LoseLease
  <2>4. CASE Break \/ Repair
    BY <2>4 DEF Break, Repair, manager
  <2> QED
    BY <2>1, <2>2, <2>3, <2>4 DEF Runs
<1>2. cancelled' = cancelled
  BY DEF Runs, Supervise, Spawn, Failed, Restart, SeesShutdown, Leaves, Manage, CachesSync,
         OnReady, StartDrain, Drained, DrainTimesOut, Lasts, StartReconcile, FinishReconcile,
         RunnableFails, LoseLease, Break, Repair, ctx
<1> QED
  BY <1>1, <1>2 DEF Watching

(* ... and goes when the manager is cancelled.                             *)
LEMMA SupervisionStepKeepsInv ==
  ASSUME CrdInv, \/ SupervisionStep
                 \/ /\ UNCHANGED <<crds, mgr>> /\ cancelled'
                    /\ IF WatcherStops THEN NoWatcher /\ UNCHANGED <<missing, watches>>
                                       ELSE UNCHANGED watcher
  PROVE  CrdInv'
<1>1. Watching' => Watching
  BY RunsStartNoWatcher DEF SupervisionStep, Watching
<1>2. CASE WatcherStops
  BY <1>2, NoWatcherKeepsInv DEF SupervisionStep, WatcherStops, CrdInv, NotStranded
<1>3. CASE ~WatcherStops
  BY <1>1, <1>3 DEF SupervisionStep, watcher, crds, CrdInv, WatchInv, CrdShape, NotStranded
<1> QED
  BY <1>2, <1>3

(* The handler's look at the map keeps the invariant.                      *)
LEMMA CheckKeepsInv == ASSUME CrdInv, NEW k \in Kinds, Check(k) PROVE CrdInv'
<1>1. CASE k \in engaged
  BY <1>1 DEF Check, svars, crds, CrdInv, WatchInv, CrdShape, NotStranded, Watching
<1>2. CASE k \notin engaged
  BY <1>2 DEF Check, HandlerIdle, NoKind, svars, crds, CrdInv, WatchInv, CrdShape,
              NotStranded, Watching
<1> QED
  BY <1>1, <1>2

(* So does an attempt, from an event or from a timer.                      *)
LEMMA AttemptKeepsInv ==
  ASSUME CrdInv, NEW k \in Kinds, NEW c \in Callers, Attempt(k, c),
         k \in missing \cup engaged,
         UNCHANGED <<mgr, cancelled, installed, missing, watches, engaged, attempts, event>>,
         \/ checked' = {} /\ checked \subseteq {k} /\ UNCHANGED timers
         \/ timers' = [timers EXCEPT ![k] = @ - 1] /\ timers[k] > 0 /\ UNCHANGED checked
  PROVE  CrdInv'
<1>1. timers' \in [Kinds -> Nat] /\ \A l \in Kinds \ {k} : timers'[l] = timers[l]
  BY DEF CrdInv, WatchInv, CrdShape
<1>2. CASE Free(k)
  <2>1. engaging' = engaging \cup {k} /\ calls' = [calls EXCEPT ![k] = @ \cup {c}]
    BY <1>2 DEF Attempt
  <2>2. WatchInv'
    BY <1>1, <1>2, <2>1 DEF Free, CrdInv, WatchInv, CrdShape, Callers
  <2>3. NotStranded'
    BY <1>1, <1>2, <2>1 DEF Free, CrdInv, WatchInv, CrdShape, NotStranded, Watching, Callers
  <2> QED
    BY <2>2, <2>3 DEF CrdInv
<1>3. CASE ~Free(k)
  <2>1. UNCHANGED <<engaging, calls>> /\ (k \in engaged \/ calls[k] # {})
    BY <1>3 DEF Attempt, Free, CrdInv, WatchInv
  <2>2. WatchInv'
    BY <1>1, <2>1 DEF CrdInv, WatchInv, CrdShape
  <2>3. NotStranded'
    BY <1>1, <2>1 DEF CrdInv, WatchInv, CrdShape, NotStranded, Watching
  <2> QED
    BY <2>2, <2>3 DEF CrdInv
<1> QED
  BY <1>2, <1>3

(* An engagement that succeeds adds the one watch.                         *)
LEMMA EngagesKeepsInv ==
  ASSUME CrdInv, NEW k \in Kinds, NEW c \in Callers, Engages(k, c)
  PROVE  CrdInv'
<1>1. calls'[k] = {} /\ calls' \in [Kinds -> SUBSET Callers] /\ k \in engaging
  BY DEF Engages, CrdInv, WatchInv, CrdShape, Callers
<1>2. WatchInv'
  BY <1>1 DEF Engages, svars, crds, CrdInv, WatchInv, CrdShape
<1>3. NotStranded'
  BY <1>1 DEF Engages, svars, crds, CrdInv, WatchInv, CrdShape, NotStranded, Watching
<1> QED
  BY <1>2, <1>3 DEF CrdInv

(* One that fails is scheduled again, or has used up its retries.          *)
LEMMA EngageFailsKeepsInv ==
  ASSUME CrdInv, NEW k \in Kinds, NEW c \in Callers, EngageFails(k, c)
  PROVE  CrdInv'
<1>1. calls'[k] = {} /\ calls' \in [Kinds -> SUBSET Callers] /\ k \in engaging
  BY DEF EngageFails, CrdInv, WatchInv, CrdShape, Callers
<1>2. /\ timers' \in [Kinds -> Nat] /\ \A l \in Kinds \ {k} : timers'[l] = timers[l]
      /\ timers'[k] > 0 \/ attempts'[k] >= crdWatchMaxRetries
  BY CrdWatchConstants DEF EngageFails, GivesUp, CrdInv, WatchInv, CrdShape
<1>3. WatchInv'
  BY <1>1, <1>2 DEF EngageFails, svars, crds, CrdInv, WatchInv, CrdShape
<1>4. NotStranded'
  BY <1>1, <1>2 DEF EngageFails, svars, crds, CrdInv, WatchInv, CrdShape, NotStranded, Watching
<1> QED
  BY <1>3, <1>4 DEF CrdInv

(* The invariant of the watcher is inductive.                              *)
LEMMA CrdInvInductive ==
  /\ CrdInit => CrdInv
  /\ CrdInv /\ [CrdNext]_cvars => CrdInv'
<1>1. CrdInit => CrdInv
  BY DEF CrdInit, SupervisionInit, CrdInv, WatchInv, CrdShape, NotStranded, Watching, None, NoKind
<1>2. ASSUME CrdInv, [CrdNext]_cvars PROVE CrdInv'
  <2>1. CASE Engagement
    <3>1. CASE HandlerAttempts
      <4>1. PICK k \in checked : Attempt(k, "handler")
        BY <3>1 DEF HandlerAttempts
      <4>2. k \in Kinds
        BY <1>2 DEF CrdInv, WatchInv, CrdShape
      <4> QED
        BY <1>2, <3>1, <4>1, <4>2, AttemptKeepsInv
           DEF HandlerAttempts, Callers, NoKind, svars, crds, CrdInv, WatchInv
    <3>2. ASSUME NEW k \in Kinds, TimerFires(k) PROVE CrdInv'
      BY <1>2, <3>2, AttemptKeepsInv DEF TimerFires, Callers, svars, crds, CrdInv, WatchInv
    <3> QED
      BY <1>2, <2>1, <3>1, <3>2, CheckKeepsInv, EngagesKeepsInv, EngageFailsKeepsInv
         DEF Engagement
  <2>2. ASSUME NEW k \in Kinds, Install(k) \/ Update(k) PROVE CrdInv'
    BY <1>2, <2>2 DEF Install, Update, svars, CrdInv, WatchInv, CrdShape, NotStranded, Watching
  <2>3. CASE Go \/ UNCHANGED cvars
    BY <1>2, <2>3 DEF Go, cvars, svars, manager, ctx, watcher, crds, CrdInv, WatchInv, CrdShape,
                     NotStranded, Watching
  <2>4. CASE Shutdown
    BY <1>2, <2>4, SupervisionStepKeepsInv DEF Shutdown, manager
  <2> QED
    BY <1>2, <2>1, <2>2, <2>3, <2>4, SetupKeepsInv, StartWatcherKeepsInv,
       SupervisionStepKeepsInv DEF CrdNext
<1> QED
  BY <1>1, <1>2

(* A kind never has two watches in one manager, however events, timers and *)
(* engagements interleave: crdWatcher.attempt's flag and its maps.         *)
THEOREM NeverWatchedTwice == CrdSpec => []OneWatch
<1>1. CrdInv => OneWatch
  BY DEF CrdInv, WatchInv, OneWatch
<1> QED
  BY <1>1, CrdInvInductive, PTL DEF CrdSpec

(* A kind whose CRD is there and which nobody watches has an attempt under *)
(* way, one to come, or no retries left.                                   *)
THEOREM NeverStranded == CrdSpec => []NotStranded
<1>1. CrdInv => NotStranded
  BY DEF CrdInv
<1> QED
  BY <1>1, CrdInvInductive, PTL DEF CrdSpec

-----------------------------------------------------------------------------
(* The supervisor. *)

(* Where each of Supervise's stages finds the manager; k failures in a row *)
(* have moved the index into the backoff to k at least.                    *)
SupInv ==
  /\ attempt \in 1..MaxAttempt /\ quick \in 0..MaxAttempt
  /\ sup \in {"off", "spawn", "wait"} => attempt >= AtMostCap(quick + 1)
  /\ sup = "backoff" => attempt >= quick
  /\ sup \in {"off", "spawn", "backoff"} => mgr = "none"
  /\ sup = "done" => mgr \in {"none", "stopped"}
  /\ sup \in {"off", "spawn"} => ~available
  /\ sup = "backoff" => ~available
  /\ sup = "wait" /\ available => mgr \notin {"building", "caches"}
  /\ sup = "drain" => mgr \notin {"building", "caches"}
  /\ working => mgr \in {"leading", "draining", "failing"}

(* The supervisor starts without failures to count.                        *)
LEMMA SupInit == SupervisionInit => SupInv
BY SupervisionConstants DEF SupervisionInit, SupInv, AtMostCap

(* The supervisor's steps keep its invariant, ...                          *)
LEMMA SuperviseKeepsInv == ASSUME SupInv, Supervise PROVE SupInv'
<1> USE SupervisionConstants DEF SupInv, AtMostCap
<1>1. CASE Spawn
  BY <1>1 DEF Spawn
<1>2. CASE Failed
  BY <1>2 DEF Failed, MarkUnavailable, Fresh
<1>3. CASE Restart
  BY <1>3 DEF Restart, manager
<1>4. CASE SeesShutdown
  BY <1>4 DEF SeesShutdown, Awaited, manager
<1>5. CASE Leaves
  BY <1>5 DEF Leaves, manager
<1> QED
  BY <1>1, <1>2, <1>3, <1>4, <1>5 DEF Supervise

(* ... and so do those of the manager's run, ...                           *)
LEMMA RunsKeepsInv == ASSUME SupInv, Runs PROVE SupInv'
<1> USE DEF SupInv, AtMostCap, supervisor, Synced, Stopping
<1>1. CASE Supervise
  BY <1>1, SuperviseKeepsInv
<1>2. CASE CachesSync \/ StartDrain
  BY <1>2 DEF CachesSync, StartDrain
<1>7. CASE OnReady
  <2>1. mgr \notin {"none", "building", "caches", "stopped"}
    BY <1>7 DEF OnReady
  <2> QED
    BY <1>7, <2>1 DEF OnReady
<1>3. CASE Drained \/ DrainTimesOut
  BY <1>3 DEF Drained, DrainTimesOut
<1>4. CASE Lasts \/ Break \/ Repair
  BY <1>4 DEF Lasts, Break, Repair, manager
<1>5. CASE StartReconcile \/ FinishReconcile
  BY <1>5 DEF StartReconcile, FinishReconcile
<1>6. CASE RunnableFails \/ LoseLease
  BY <1>6 DEF RunnableFails, LoseLease
<1> QED
  BY <1>1, <1>2, <1>3, <1>4, <1>5, <1>6, <1>7 DEF Runs, Manage

(* ... whatever the watcher does beside it.                                *)
LEMMA ManagerKeepsInv ==
  ASSUME SupInv, SetupWatches \/ StartWatcher \/ SupervisionStep \/ UNCHANGED svars
  PROVE  SupInv'
<1>1. CASE SetupWatches
  BY <1>1 DEF SetupWatches, Build, SupInv, AtMostCap, supervisor
<1>2. CASE StartWatcher
  BY <1>2 DEF StartWatcher, Elect, SupInv, AtMostCap, supervisor
<1>3. CASE SupervisionStep
  BY <1>3, RunsKeepsInv DEF SupervisionStep
<1>4. CASE UNCHANGED svars
  BY <1>4 DEF svars, SupInv, AtMostCap
<1> QED
  BY <1>1, <1>2, <1>3, <1>4

(* The watcher changes nothing of the supervisor.                          *)
LEMMA WatcherLeavesSupervisor ==
  ASSUME Engagement \/ \E k \in Kinds : Install(k) \/ Update(k)
  PROVE  UNCHANGED svars
BY DEF Engagement, HandlerAttempts, Check, TimerFires, Engages, EngageFails, Install, Update

(* Managers that fail one after the other wait longer and longer, up to    *)
(* the cap, whatever they reached before they failed: Supervise and        *)
(* superviseHealthyRun.                                                    *)
THEOREM BackoffAlwaysGrows == CrdSpec => []BackoffGrows
<1>1. CrdInit => SupInv
  BY SupInit DEF CrdInit
<1>2. ASSUME SupInv, [CrdNext]_cvars PROVE SupInv'
  <2>1. CASE Go \/ Shutdown
    BY <1>2, <2>1 DEF Go, Shutdown, SupInv, AtMostCap, supervisor, manager
  <2> QED
    BY <1>2, <2>1, ManagerKeepsInv, WatcherLeavesSupervisor DEF CrdNext, cvars
<1>3. SupInv => BackoffGrows
  BY DEF SupInv, BackoffGrows
<1> QED
  BY <1>1, <1>2, <1>3, PTL DEF CrdSpec

-----------------------------------------------------------------------------
(* Types. *)

Flags ==
  /\ signalled \in BOOLEAN /\ working \in BOOLEAN /\ straggler \in BOOLEAN
  /\ available \in BOOLEAN /\ ready \in BOOLEAN /\ draining \in BOOLEAN
  /\ cancelled \in BOOLEAN /\ reachable \in BOOLEAN /\ lasted \in BOOLEAN

Stages ==
  /\ sup \in {"off", "spawn", "wait", "drain", "backoff", "done", "abandoned"}
  /\ attempt \in 1..MaxAttempt /\ quick \in 0..MaxAttempt
  /\ mgr \in {"none", "building", "caches", "standby", "leading",
              "draining", "failing", "stopped"}
  /\ clock \in Nat /\ outages \in 0..MaxOutages

(* The two readiness flags keep their types.                               *)
LEMMA FlagsStep == ASSUME Flags, Runs PROVE Flags'
<1> USE DEF Flags, supervisor, manager, health, ctx, cluster
<1>1. CASE Spawn \/ Restart \/ SeesShutdown \/ Leaves
  BY <1>1, Zenon DEF Spawn, Restart, SeesShutdown, Leaves
<1>2. CASE Failed
  BY <1>2, Zenon DEF Failed, MarkUnavailable
<1>3. CASE CachesSync \/ StartDrain \/ Drained \/ DrainTimesOut
  BY <1>3, Zenon DEF CachesSync, StartDrain, Drained, DrainTimesOut
<1>4. CASE OnReady
  BY <1>4, Zenon DEF OnReady, SetReady
<1>5. CASE Lasts \/ Break \/ Repair
  BY <1>5, Zenon DEF Lasts, Break, Repair
<1>6. CASE StartReconcile \/ FinishReconcile \/ RunnableFails
  BY <1>6, Zenon DEF StartReconcile, FinishReconcile, RunnableFails
<1>7. CASE LoseLease
  BY <1>7, Zenon DEF LoseLease
<1> QED
  BY <1>1, <1>2, <1>3, <1>4, <1>5, <1>6, <1>7 DEF Runs, Supervise, Manage

(* So do the stages.                                                       *)
LEMMA StagesStep == ASSUME Stages, Runs PROVE Stages'
<1> USE SupervisionConstants DEF Stages, AtMostCap, supervisor, manager, ctx, cluster
<1>1. CASE Spawn \/ Restart \/ SeesShutdown \/ Leaves
  BY <1>1 DEF Spawn, Restart, SeesShutdown, Leaves
<1>2. CASE Failed
  BY <1>2 DEF Failed
<1>3. CASE CachesSync \/ StartDrain \/ Drained \/ DrainTimesOut
  BY <1>3 DEF CachesSync, StartDrain, Drained, DrainTimesOut
<1>4. CASE OnReady \/ Lasts
  BY <1>4 DEF OnReady, Lasts
<1>6. CASE Break \/ Repair
  BY <1>6 DEF Break, Repair
<1>5. CASE StartReconcile \/ FinishReconcile \/ RunnableFails \/ LoseLease
  BY <1>5 DEF StartReconcile, FinishReconcile, RunnableFails, LoseLease
<1> QED
  BY <1>1, <1>2, <1>3, <1>4, <1>5, <1>6 DEF Runs, Supervise, Manage

CrdTypes ==
  /\ CrdShape
  /\ installed \subseteq Kinds /\ engaged \subseteq Kinds /\ engaging \subseteq Kinds
  /\ events \in 0..MaxEvents

(* Types: every stage, flag, map and counter of the operator. *)
THEOREM OperatorTypeCorrect == CrdSpec => []CrdTypeOK
<1> DEFINE Inv == Flags /\ Stages /\ CrdTypes
<1>1. CrdInit => Inv
  <2> SUFFICES ASSUME CrdInit PROVE Inv
    OBVIOUS
  <2>1. Flags
    BY Zenon DEF CrdInit, SupervisionInit, Flags
  <2>2. Stages /\ CrdTypes
    BY SupervisionConstants, CrdWatchConstants
       DEF CrdInit, SupervisionInit, Stages, CrdTypes, CrdShape, None, NoKind
  <2> QED
    BY <2>1, <2>2
<1>2. ASSUME Inv, [CrdNext]_cvars PROVE Inv'
  <2>1. CASE SetupWatches
    <3>1. Flags'
      BY <1>2, <2>1, Zenon DEF SetupWatches, Build, Flags, supervisor, health, ctx, cluster
    <3>2. Stages'
      BY <1>2, <2>1 DEF SetupWatches, Build, Stages, supervisor, ctx, cluster
    <3>3. CrdTypes'
      BY <1>2, <2>1 DEF SetupWatches, NoWatcher, None, NoKind, crds, CrdTypes, CrdShape
    <3> QED
      BY <3>1, <3>2, <3>3
  <2>2. CASE StartWatcher
    <3>1. Flags'
      BY <1>2, <2>2, Zenon DEF StartWatcher, Elect, Flags, supervisor, health, ctx, cluster
    <3>2. Stages' /\ CrdTypes'
      BY <1>2, <2>2
         DEF StartWatcher, Elect, Stages, supervisor, ctx, cluster, crds, CrdTypes, CrdShape
    <3> QED
      BY <3>1, <3>2
  <2>3. CASE SupervisionStep
    <3>1. Flags' /\ Stages'
      BY <1>2, <2>3, FlagsStep, StagesStep DEF SupervisionStep
    <3>2. CrdTypes'
      BY <1>2, <2>3
         DEF SupervisionStep, NoWatcher, None, NoKind, watcher, crds, CrdTypes, CrdShape
    <3> QED
      BY <3>1, <3>2
  <2>4. CASE Go \/ Shutdown
    <3>1. Flags'
      BY <1>2, <2>4, Zenon DEF Go, Shutdown, Flags, supervisor, manager, health, ctx, cluster
    <3>2. Stages'
      BY <1>2, <2>4 DEF Go, Shutdown, Stages, supervisor, manager, ctx, cluster
    <3>3. CrdTypes'
      BY <1>2, <2>4 DEF Go, Shutdown, NoWatcher, None, NoKind, watcher, crds, CrdTypes, CrdShape
    <3> QED
      BY <3>1, <3>2, <3>3
  <2>5. CASE \/ Engagement \/ UNCHANGED cvars
             \/ \E k \in Kinds : Install(k) \/ Update(k)
    <3>0. UNCHANGED svars
      BY <2>5, WatcherLeavesSupervisor DEF cvars
    <3>1. Flags'
      BY <1>2, <3>0, Zenon DEF svars, Flags
    <3>2. Stages'
      BY <1>2, <3>0 DEF svars, Stages
    <3>3. ASSUME NEW k \in Kinds, NEW c \in Callers, Attempt(k, c)
          PROVE  engaging' \subseteq Kinds /\ calls' \in [Kinds -> SUBSET Callers]
      BY <1>2, <3>3 DEF Attempt, CrdTypes, CrdShape
    <3>4. ASSUME HandlerAttempts \/ \E k \in Kinds : TimerFires(k) PROVE CrdTypes'
      <4>1. checked' \subseteq Kinds /\ timers' \in [Kinds -> Nat]
        BY <1>2, <3>4 DEF HandlerAttempts, TimerFires, NoKind, CrdTypes, CrdShape
      <4>2. engaging' \subseteq Kinds /\ calls' \in [Kinds -> SUBSET Callers]
        BY <1>2, <3>3, <3>4 DEF HandlerAttempts, TimerFires, Callers, CrdTypes, CrdShape
      <4>3. UNCHANGED <<missing, watches, engaged, attempts, event, installed, events>>
        BY <3>4 DEF HandlerAttempts, TimerFires, crds
      <4> QED
        BY <1>2, <4>1, <4>2, <4>3 DEF CrdTypes, CrdShape
    <3>5. ASSUME NEW k \in Kinds, Check(k) \/ \E c \in Callers : Engages(k, c) \/ EngageFails(k, c)
          PROVE  CrdTypes'
      BY <1>2, <3>5 DEF Check, Engages, EngageFails, crds, CrdTypes, CrdShape
    <3>6. ASSUME NEW k \in Kinds, Install(k) \/ Update(k) PROVE CrdTypes'
      BY <1>2, <3>6, CrdWatchConstants DEF Install, Update, CrdTypes, CrdShape
    <3>7. ASSUME UNCHANGED cvars PROVE CrdTypes'
      BY <1>2, <3>7 DEF cvars, CrdTypes, CrdShape
    <3>8. CrdTypes'
      BY <2>5, <3>4, <3>5, <3>6, <3>7 DEF Engagement
    <3> QED
      BY <3>1, <3>2, <3>8
  <2> QED
    BY <1>2, <2>1, <2>2, <2>3, <2>4, <2>5 DEF CrdNext
<1>3. Inv => CrdTypeOK
  BY Zenon DEF Flags, Stages, CrdTypes, CrdShape, CrdTypeOK, SupervisionTypeOK
<1> QED
  BY <1>1, <1>2, <1>3, PTL DEF CrdSpec

-----------------------------------------------------------------------------
(* The process. *)

(* What the operator's goroutines leave alone. *)
LeavesMainAlone ==
  /\ clock' = clock /\ draining' = draining
  /\ draining => ready' = ready
  /\ Returned => Returned'

(* The operator's steps are none of main's, and what has returned stays    *)
(* returned.                                                               *)
LEMMA OperatorLeavesMainAlone ==
  ASSUME SupInv, SetupWatches \/ StartWatcher \/ SupervisionStep \/ UNCHANGED svars
  PROVE  LeavesMainAlone
<1> USE DEF LeavesMainAlone, Returned, health, ctx, supervisor
<1>1. CASE SetupWatches \/ StartWatcher
  BY <1>1 DEF SetupWatches, Build, StartWatcher, Elect
<1>2. CASE Supervise
  BY <1>2 DEF Supervise, Spawn, Failed, Restart, SeesShutdown, Leaves
<1>3. CASE CachesSync \/ StartDrain \/ Drained \/ DrainTimesOut \/ Lasts
  BY <1>3 DEF CachesSync, StartDrain, Drained, DrainTimesOut, Lasts
<1>4. CASE OnReady
  BY <1>4 DEF OnReady, SetReady
<1>5. CASE StartReconcile \/ FinishReconcile \/ RunnableFails \/ LoseLease
  BY <1>5 DEF StartReconcile, FinishReconcile, RunnableFails, LoseLease
<1>6. CASE Break \/ Repair
  BY <1>6 DEF Break, Repair
<1>7. CASE UNCHANGED svars
  BY <1>7 DEF svars
<1> QED
  BY <1>1, <1>2, <1>3, <1>4, <1>5, <1>6, <1>7 DEF SupervisionStep, Runs, Manage

(* A reconcile outlives its manager only when the drain window is over, or *)
(* when the cluster has broken under a manager that had synced.            *)
StragglerInv ==
  /\ outages \in 0..MaxOutages /\ clock \in Nat
  /\ Synced /\ ~reachable => outages < MaxOutages
  /\ mgr = "failing" => outages < MaxOutages
  /\ straggler => clock >= GracefulShutdownTimeout \/ outages < MaxOutages

LEMMA StragglerStep ==
  ASSUME StragglerInv, SetupWatches \/ StartWatcher \/ SupervisionStep \/ UNCHANGED svars
  PROVE  StragglerInv'
<1> USE SupervisionConstants DEF StragglerInv, Synced, supervisor, manager, ctx, cluster
<1>1. CASE SetupWatches \/ StartWatcher
  BY <1>1 DEF SetupWatches, Build, StartWatcher, Elect
<1>2. CASE Supervise
  BY <1>2 DEF Supervise, Spawn, Failed, Restart, SeesShutdown, Leaves
<1>3. CASE CachesSync
  BY <1>3 DEF CachesSync
<1>9. CASE OnReady
  BY <1>9 DEF OnReady
<1>10. CASE StartDrain \/ Drained
  BY <1>10 DEF StartDrain, Drained
<1>4. CASE DrainTimesOut
  BY <1>4 DEF DrainTimesOut
<1>5. CASE Lasts \/ StartReconcile \/ FinishReconcile \/ RunnableFails
  BY <1>5 DEF Lasts, StartReconcile, FinishReconcile, RunnableFails
<1>6. CASE LoseLease
  BY <1>6 DEF LoseLease
<1>7. CASE Break \/ Repair
  BY <1>7 DEF Break, Repair
<1>8. CASE UNCHANGED svars
  BY <1>8 DEF svars
<1> QED
  BY <1>1, <1>2, <1>3, <1>4, <1>5, <1>6, <1>7, <1>8, <1>9, <1>10
     DEF SupervisionStep, Runs, Manage

(* main has ticked past the drain window only once the operator was gone,  *)
(* and has ticked off only goroutines that were gone, unless it says so.   *)
ProcessInv ==
  /\ SupInv
  /\ main = "bind" => sup = "off"
  /\ draining => ~ready
  /\ clock \in Nat /\ (~Returned => clock <= GracefulShutdownTimeout)
  /\ bg \in [Background -> {"off", "idle", "busy", "done"}]
  /\ main = "await" => \A g \in Goroutines \ awaiting : Done(g) \/ exitCode = 1
  /\ main = "exit" => (\A g \in Goroutines : Done(g)) \/ exitCode = 1

(* main's steps, and those of its servers, keep the invariant, ...         *)
LEMMA MainKeepsInv ==
  ASSUME ProcessInv, UNCHANGED cvars,
         \/ BindNext \/ BindFails \/ Signal \/ DrainEnds \/ ShutListener \/ ShutDown \/ Expire
         \/ Exit
         \/ \E g \in Goroutines : Await(g)
         \/ \E s \in Servers : ServeFails(s) \/ Request(s)
  PROVE  ProcessInv'
<1> USE DEF Done, Returned
<1>1. SupInv' /\ UNCHANGED <<sup, draining, ready, clock>>
  BY ManagerKeepsInv DEF ProcessInv, cvars, svars
<1>2. bg' = bg
  BY DEF BindNext, BindFails, Signal, DrainEnds, ShutListener, ShutDown, Expire, Exit, Await,
         ServeFails, Request
<1>3. CASE BindNext \/ Signal \/ DrainEnds \/ ShutListener \/ ShutDown \/ Expire
  BY <1>1, <1>2, <1>3
     DEF ProcessInv, BindNext, Signal, DrainEnds, ShutListener, ShutDown, Expire
<1>4. CASE BindFails
  BY <1>1, <1>2, <1>4 DEF ProcessInv, BindFails
<1>5. CASE Exit
  BY <1>1, <1>2, <1>5 DEF ProcessInv, Exit
<1>6. ASSUME NEW g \in Goroutines, Await(g) PROVE ProcessInv'
  BY <1>1, <1>2, <1>6 DEF ProcessInv, Await
<1>7. ASSUME NEW s \in Servers, ServeFails(s) \/ Request(s) PROVE ProcessInv'
  BY <1>1, <1>2, <1>7 DEF ProcessInv, ServeFails, Request
<1> QED
  BY <1>3, <1>4, <1>5, <1>6, <1>7

(* ... the sweep and the renewer keep it, ...                              *)
LEMMA BackgroundKeepsInv ==
  ASSUME ProcessInv, NEW g \in Background, BackgroundStarts(g) \/ BackgroundReturns(g)
  PROVE  ProcessInv'
<1>1. SupInv' /\ UNCHANGED <<sup, draining, ready, clock, main, awaiting, exitCode>>
  BY ManagerKeepsInv DEF ProcessInv, cvars, svars, BackgroundStarts, BackgroundReturns
<1>2. /\ bg' \in [Background -> {"off", "idle", "busy", "done"}]
      /\ \A b \in Background : bg[b] = "done" => bg'[b] = "done"
  BY DEF ProcessInv, BackgroundStarts, BackgroundReturns
<1> QED
  BY <1>1, <1>2 DEF ProcessInv, Done, Returned, Goroutines

(* ... and the operator does.                                              *)
LEMMA OperatorStepKeepsInv == ASSUME ProcessInv, OperatorStep PROVE ProcessInv'
<1>1. SetupWatches \/ StartWatcher \/ SupervisionStep \/ UNCHANGED svars
  BY WatcherLeavesSupervisor DEF OperatorStep
<1>2. SupInv' /\ LeavesMainAlone
  BY <1>1, ManagerKeepsInv, OperatorLeavesMainAlone DEF ProcessInv
<1>3. sup = "off" => sup' = "off"
  BY <1>1 DEF SetupWatches, Build, StartWatcher, Elect, SupervisionStep, Runs, Supervise, Spawn,
              Failed, Restart, SeesShutdown, Leaves, Manage, CachesSync, OnReady, StartDrain,
              Drained, DrainTimesOut, Lasts, StartReconcile, FinishReconcile, RunnableFails,
              LoseLease, Break, Repair, supervisor, svars
<1>4. UNCHANGED <<main, awaiting, exitCode, bg>>
  BY DEF OperatorStep, pvars
<1> QED
  BY <1>2, <1>3, <1>4 DEF ProcessInv, LeavesMainAlone, Done

(* The invariant of the whole process is inductive.                        *)
LEMMA ProcessInvInductive ==
  /\ ProcessInit => ProcessInv
  /\ ProcessInv /\ [Next]_vars => ProcessInv'
<1> USE DEF Done, Returned
<1>1. ProcessInit => ProcessInv
  BY SupInit, SupervisionConstants DEF ProcessInit, CrdInit, SupervisionInit, ProcessInv
<1>2. ASSUME ProcessInv, [Next]_vars PROVE ProcessInv'
  <2>1. CASE StartAll
    BY <1>2, <2>1 DEF StartAll, SetReady, ProcessInv, SupInv, AtMostCap, manager, ctx
  <2>2. CASE Stop
    BY <1>2, <2>2 DEF Stop, MarkDraining, ProcessInv, SupInv, AtMostCap, supervisor, manager, ctx
  <2>3. CASE Cancel
    BY <1>2, <2>3
       DEF Cancel, Shutdown, Awaitable, ProcessInv, SupInv, AtMostCap, supervisor, manager, health
  <2>4. CASE Tick
    <3>1. clock' = clock + 1 /\ Punctual /\ UNCHANGED <<supervisor, manager, available, health, pvars>>
      BY <2>4 DEF Tick
    <3>2. ~Returned => clock < GracefulShutdownTimeout
      BY <1>2, <3>1 DEF Punctual, ProcessInv, SupInv
    <3> QED
      BY <1>2, <3>1, <3>2, SupervisionConstants
         DEF ProcessInv, SupInv, AtMostCap, supervisor, manager, health, pvars
  <2>5. CASE BindNext \/ BindFails \/ Signal \/ DrainEnds \/ ShutListener \/ ShutDown \/ Expire
    BY <1>2, <2>5, MainKeepsInv
       DEF BindNext, BindFails, Signal, DrainEnds, ShutListener, ShutDown, Expire
  <2>6. CASE Exit \/ \E g \in Goroutines : Await(g)
    BY <1>2, <2>6, MainKeepsInv DEF Exit, Await
  <2>7. ASSUME NEW s \in Servers, ServeFails(s) \/ Request(s) PROVE ProcessInv'
    BY <1>2, <2>7, MainKeepsInv DEF ServeFails, Request
  <2>8. CASE UNCHANGED vars
    BY <1>2, <2>8 DEF vars, cvars, svars, ProcessInv, SupInv, AtMostCap
  <2> QED
    BY <1>2, <2>1, <2>2, <2>3, <2>4, <2>5, <2>6, <2>7, <2>8, BackgroundKeepsInv,
       OperatorStepKeepsInv DEF Next, Run
<1> QED
  BY <1>1, <1>2

(* The readiness probe that went down for the shutdown stays down, though  *)
(* a manager's caches may sync during the drain delay.                     *)
THEOREM NeverReadyWhileDraining == Spec => []NotReadyWhileDraining
<1>1. ProcessInv => NotReadyWhileDraining
  BY DEF ProcessInv, NotReadyWhileDraining
<1> QED
  BY <1>1, ProcessInvInductive, PTL DEF Spec

(* By main's deadline the operator's goroutine is gone, if a manager that  *)
(* drains keeps to its window: operatorAwaitTimeout is longer, and a       *)
(* manager that is still being built is not waited for.                    *)
THEOREM OperatorGoneInTime == Spec => []OperatorNeverHangs
<1>1. ProcessInv => OperatorNeverHangs
  BY SupervisionConstants, ProcessConstants
     DEF ProcessInv, OperatorNeverHangs, Deadline, OperatorAwaitTimeout
<1> QED
  BY <1>1, ProcessInvInductive, PTL DEF Spec

(* main and its servers leave what the stragglers depend on alone, but for *)
(* the clock, which only advances.                                         *)
LEMMA StragglerInductive ==
  /\ ProcessInit => StragglerInv
  /\ StragglerInv /\ [Next]_vars => StragglerInv'
<1>1. ProcessInit => StragglerInv
  BY SupervisionConstants DEF ProcessInit, CrdInit, SupervisionInit, StragglerInv, Synced
<1>2. ASSUME StragglerInv, [Next]_vars PROVE StragglerInv'
  <2>1. CASE OperatorStep
    BY <1>2, <2>1, StragglerStep, WatcherLeavesSupervisor DEF OperatorStep
  <2>2. CASE Tick
    BY <1>2, <2>2, SupervisionConstants DEF Tick, StragglerInv, Synced, manager, cluster
  <2>3. CASE StartAll \/ Stop \/ Cancel
    <3>1. UNCHANGED <<mgr, straggler, clock, reachable, outages>>
      BY <2>3 DEF StartAll, Stop, Cancel, Shutdown, ctx, manager, cluster
    <3> QED
      BY <1>2, <3>1 DEF StragglerInv, Synced
  <2>4. ASSUME UNCHANGED cvars PROVE StragglerInv'
    BY <1>2, <2>4 DEF cvars, svars, StragglerInv, Synced
  <2>5. CASE BindNext \/ BindFails \/ Signal \/ DrainEnds \/ ShutListener \/ ShutDown \/ Expire \/ Exit
    BY <2>4, <2>5 DEF BindNext, BindFails, Signal, DrainEnds, ShutListener, ShutDown, Expire, Exit
  <2>6. ASSUME NEW g \in Goroutines, Await(g) PROVE StragglerInv'
    BY <2>4, <2>6 DEF Await
  <2>7. ASSUME NEW s \in Servers, ServeFails(s) \/ Request(s) PROVE StragglerInv'
    BY <2>4, <2>7 DEF ServeFails, Request
  <2>8. ASSUME NEW g \in Background, BackgroundStarts(g) \/ BackgroundReturns(g)
        PROVE  StragglerInv'
    BY <2>4, <2>8 DEF BackgroundStarts, BackgroundReturns
  <2>9. CASE UNCHANGED vars
    BY <2>4, <2>9 DEF vars
  <2> QED
    BY <1>2, <2>1, <2>2, <2>3, <2>5, <2>6, <2>7, <2>8, <2>9 DEF Next, Run
<1> QED
  BY <1>1, <1>2

(* In an exit without an error the store is closed under the feet of no    *)
(* goroutine of the background, and of no reconcile but of one the         *)
(* operator has given up: run's deferred close against awaitGoroutines,    *)
(* supervise's wait and the manager's drain window.                        *)
THEOREM ExitsClean == Spec => []CleanExit
<1>1. ASSUME ProcessInv, main = "exit", exitCode = 0
      PROVE  (\A g \in Background : bg[g] = "done") /\ (working => sup = "abandoned")
  <2>1. \A g \in Goroutines : Done(g)
    BY <1>1 DEF ProcessInv
  <2>2. \A g \in Background : bg[g] = "done"
    BY <2>1, ProcessConstants DEF Goroutines, Done
  <2>3. Returned
    BY <2>1 DEF Goroutines, Done
  <2> QED
    BY <1>1, <2>2, <2>3 DEF ProcessInv, SupInv, Returned
<1>2. ProcessInv /\ StragglerInv => CleanExit
  BY <1>1 DEF CleanExit, StragglerInv
<1> QED
  BY <1>2, ProcessInvInductive, StragglerInductive, PTL DEF Spec
=============================================================================
