------------------------------ MODULE CrdWatch ------------------------------
(***************************************************************************)
(* Watches on Flux source kinds whose CRD is installed after the operator. *)
(* A manager watches the kinds it finds when it is built; for the others   *)
(* the leader's crdWatcher follows the CRDs and engages a watch on the     *)
(* live controller, again after a delay if that fails.  The informer's     *)
(* handler and the retry timers share three maps under a mutex, which is   *)
(* not held during the engagement.                                         *)
(***************************************************************************)
EXTENDS Supervision

CONSTANTS
  Kinds,               \* FluxSourceKinds
  crdWatchMaxRetries,
  MaxEvents            \* bound on updates of established CRDs

ASSUME CrdWatchConstants ==
  /\ IsFiniteSet(Kinds)
  /\ crdWatchMaxRetries \in Nat \ {0} /\ MaxEvents \in Nat

VARIABLES
  installed,  \* the CRDs that are Established
  missing,    \* missingFluxKinds
  watches,    \* the watches of a kind the controller has
  engaged, engaging, attempts,   \* the watcher's maps
  event,      \* kinds with an undelivered CRD event
  checked,    \* the kind the informer's handler has checked and not attempted yet
  calls,      \* who is inside EngageFluxWatch, by kind
  timers,     \* retries that are scheduled, by kind
  events      \* CRD updates left

watcher == <<missing, watches, engaged, engaging, attempts, event, checked, calls, timers>>
crds == <<installed, events>>
cvars == <<svars, installed, missing, watches, engaged, engaging, attempts, event,
           checked, calls, timers, events>>

NoKind == {}
Callers == {"handler", "timer"}

(* The type invariant. *)
CrdTypeOK ==
  /\ SupervisionTypeOK
  /\ installed \subseteq Kinds /\ missing \subseteq Kinds
  /\ watches \in [Kinds -> Nat]
  /\ engaged \subseteq Kinds /\ engaging \subseteq Kinds
  /\ attempts \in [Kinds -> Nat] /\ timers \in [Kinds -> Nat]
  /\ event \subseteq Kinds /\ checked \subseteq Kinds
  /\ calls \in [Kinds -> SUBSET Callers]
  /\ events \in 0..MaxEvents

None == [k \in Kinds |-> 0]

NoWatcher ==
  /\ engaged' = {} /\ engaging' = {} /\ attempts' = None
  /\ event' = {} /\ checked' = NoKind
  /\ calls' = [k \in Kinds |-> {}] /\ timers' = None

CrdInit ==
  /\ SupervisionInit
  /\ installed \in SUBSET Kinds
  /\ missing = {} /\ watches = None
  /\ engaged = {} /\ engaging = {} /\ attempts = None
  /\ event = {} /\ checked = NoKind
  /\ calls = [k \in Kinds |-> {}] /\ timers = None
  /\ events = MaxEvents

-----------------------------------------------------------------------------
(* SetupWithManager: the kinds the RESTMapper resolves are watched, the    *)
(* others are noted.                                                       *)
SetupWatches ==
  /\ Build
  /\ IF reachable
       THEN /\ missing' = Kinds \ installed
            /\ watches' = [k \in Kinds |-> IF k \in installed THEN 1 ELSE 0]
       ELSE UNCHANGED <<missing, watches>>
  /\ NoWatcher
  /\ UNCHANGED crds

(* crdWatcher.Start, on the leader: the informer's initial list delivers   *)
(* what has been installed since SetupWithManager.                         *)
StartWatcher ==
  /\ Elect
  /\ event' = installed \cap missing
  /\ UNCHANGED <<missing, watches, engaged, engaging, attempts, checked, calls, timers, crds>>

Watching == mgr = "leading" /\ ~cancelled

(* Whether the manager stops with this step: its watcher dies with it.     *)
WatcherStops == Watching /\ ~Watching'

SupervisionStep ==
  /\ Runs
  /\ IF WatcherStops THEN NoWatcher /\ UNCHANGED <<missing, watches>>
                     ELSE UNCHANGED watcher
  /\ UNCHANGED crds

-----------------------------------------------------------------------------
(* The handler of the informer: serial, and busy while it engages.         *)
HandlerIdle == checked = NoKind /\ \A k \in Kinds : "handler" \notin calls[k]

(* check: one event, up to the unlock; it renews the budget of retries. *)
Check(k) ==
  /\ Watching /\ HandlerIdle /\ k \in event
  /\ event' = event \ {k}
  /\ IF k \in engaged
       THEN UNCHANGED <<attempts, checked>>
       ELSE attempts' = [attempts EXCEPT ![k] = 0] /\ checked' = {k}
  /\ UNCHANGED <<svars, missing, watches, engaged, engaging, calls, timers, crds>>

(* Mutant: the flag that single-flights the engagement is not looked at.   *)
FreeUnlessEngaged(k) == k \notin engaged

Free(k) == k \notin engaged \cup engaging

(* attempt, up to the unlock before EngageFluxWatch. *)
Attempt(k, caller) ==
  IF Free(k)
    THEN engaging' = engaging \cup {k} /\ calls' = [calls EXCEPT ![k] = @ \cup {caller}]
    ELSE UNCHANGED <<engaging, calls>>

HandlerAttempts ==
  /\ Watching
  /\ \E k \in checked : Attempt(k, "handler")
  /\ checked' = NoKind
  /\ UNCHANGED <<svars, missing, watches, engaged, attempts, event, timers, crds>>

TimerFires(k) ==
  /\ Watching /\ timers[k] > 0
  /\ timers' = [timers EXCEPT ![k] = @ - 1]
  /\ Attempt(k, "timer")
  /\ UNCHANGED <<svars, missing, watches, engaged, attempts, event, checked, crds>>

(* EngageFluxWatch returns: the controller has the watch. *)
Engages(k, caller) ==
  /\ Watching /\ caller \in calls[k] /\ reachable
  /\ watches' = [watches EXCEPT ![k] = @ + 1]
  /\ missing' = missing \ {k}
  /\ engaged' = engaged \cup {k} /\ engaging' = engaging \ {k}
  /\ attempts' = [attempts EXCEPT ![k] = 0]
  /\ calls' = [calls EXCEPT ![k] = @ \ {caller}]
  /\ UNCHANGED <<svars, event, checked, timers, crds>>

(* Mutant: off by one, the last retry is never scheduled. *)
NoRetryLeft(n) == n >= crdWatchMaxRetries - 1

GivesUp(n) == n >= crdWatchMaxRetries

(* Or it fails: another attempt after a delay, or none until an event.     *)
EngageFails(k, caller) ==
  /\ Watching /\ caller \in calls[k] /\ ~reachable
  /\ engaging' = engaging \ {k}
  /\ attempts' = [attempts EXCEPT ![k] = @ + 1]
  /\ timers' = IF GivesUp(attempts[k] + 1) THEN timers ELSE [timers EXCEPT ![k] = @ + 1]
  /\ calls' = [calls EXCEPT ![k] = @ \ {caller}]
  /\ UNCHANGED <<svars, missing, watches, engaged, event, checked, crds>>

(* Somebody installs a source controller, or touches its CRDs. *)
Install(k) ==
  /\ k \notin installed
  /\ installed' = installed \cup {k}
  /\ event' = IF Watching /\ k \in missing THEN event \cup {k} ELSE event
  /\ UNCHANGED <<svars, missing, watches, engaged, engaging, attempts, checked, calls,
                 timers, events>>

Update(k) ==
  /\ Watching /\ k \in installed /\ k \in missing \cup engaged
  /\ events > 0 /\ events' = events - 1
  /\ event' = event \cup {k}
  /\ UNCHANGED <<svars, installed, missing, watches, engaged, engaging, attempts, checked,
                 calls, timers>>

Engagement ==
  \/ HandlerAttempts
  \/ \E k \in Kinds :
       \/ Check(k) \/ TimerFires(k)
       \/ \E c \in Callers : Engages(k, c) \/ EngageFails(k, c)

(* Stands for main.go, which starts the supervisor and cancels its context. *)
Go == sup = "off" /\ sup' = "spawn"
      /\ UNCHANGED <<attempt, quick, lasted, manager, available, health, ctx, cluster,
                     watcher, crds>>

Shutdown ==
  /\ sup # "off" /\ ~cancelled
  /\ cancelled' = TRUE
  /\ UNCHANGED <<supervisor, manager, available, health, clock, cluster, crds>>
  /\ IF WatcherStops THEN NoWatcher /\ UNCHANGED <<missing, watches>>
                     ELSE UNCHANGED watcher

CrdNext ==
  \/ SetupWatches \/ StartWatcher \/ SupervisionStep
  \/ Engagement
  \/ \E k \in Kinds : Install(k) \/ Update(k)
  \/ Go \/ Shutdown

CrdSpec == CrdInit /\ [][CrdNext]_cvars

(* As OperatorFairness, with the steps of the watcher beside the others.   *)
CrdFairness ==
  /\ WF_cvars(SupervisionStep /\ Supervise) /\ WF_cvars(SetupWatches)
  /\ WF_cvars(SupervisionStep /\ Manage)
  /\ WF_cvars(Repair /\ SupervisionStep) /\ WF_cvars(Go)
  /\ WF_cvars(Engagement)

FairCrdSpec == CrdSpec /\ CrdFairness

-----------------------------------------------------------------------------
(* A kind has one watch per manager, though a timer and an event may try   *)
(* to engage it together: a second one would enqueue everything twice.     *)
OneWatch == \A k \in Kinds : watches[k] <= 1

(* A late CRD is never stranded: as long as its kind is not engaged, some  *)
(* attempt is under way or scheduled, or the budget of retries that the    *)
(* last event granted has been used up.                                    *)
NotStranded ==
  Watching =>
    \A k \in installed \cap missing :
      \/ k \in event \cup checked
      \/ calls[k] # {} \/ timers[k] > 0
      \/ attempts[k] >= crdWatchMaxRetries

(* The operator comes up by itself once what kept it down is gone.         *)
Recovers == <>[](available \/ cancelled)
=============================================================================
