------------------------------- MODULE Process -------------------------------
(***************************************************************************)
(* run() of main.go in operator mode: it binds its listeners, serves, and  *)
(* on a signal or a server's failure takes the pod out of its endpoints,   *)
(* shuts the servers down one after the other, cancels the context and     *)
(* waits for the operator, the storage sweep and the certificate renewer   *)
(* before it closes the store and exits.                                   *)
(***************************************************************************)
EXTENDS CrdWatch, Sequences, SequencesExt

CONSTANTS
  BindOrder,            \* the servers, in the order their listeners are bound
  ShutdownOrder,        \* the servers, in the order they are shut down
  Background,           \* the goroutines beside the operator: sweep, renewer
  ReadinessRequiresOperator,  \* --readiness-requires-operator is not "never"
  ShutdownDelay,        \* --shutdown-delay is positive
  AwaitSlack,           \* what the await adds to the manager's drain window
  MaxFaults             \* bound on failing binds and servers

ASSUME ProcessConstants ==
  /\ Range(BindOrder) = Range(ShutdownOrder) /\ IsInjective(BindOrder)
  /\ Len(BindOrder) = Len(ShutdownOrder) /\ Len(BindOrder) > 0
  /\ "operator" \notin Background
  /\ ReadinessRequiresOperator \in BOOLEAN /\ ShutdownDelay \in BOOLEAN
  /\ AwaitSlack \in Nat \ {0} /\ MaxFaults \in Nat

Servers == Range(BindOrder)
Goroutines == {"operator"} \cup Background

VARIABLES
  main,      \* where run is
  listener,  \* the state of each server's listener
  todo,      \* the servers left to bind, or to shut down
  busy,      \* servers with a request in flight
  sigs,      \* a signal is pending (the channel holds one)
  signals,   \* signals the kubelet or a user still sends
  errs,      \* serve errors in the channel
  expired,   \* the context of the servers' shutdown has expired
  bg,        \* the background goroutines
  hung,      \* goroutines that awaitGoroutines reported
  awaiting,  \* goroutines it has yet to wait for
  exitCode, closed, faults

pvars == <<main, listener, todo, busy, sigs, signals, errs, expired, bg, hung, awaiting,
           exitCode, closed, faults>>
vars == <<cvars, main, listener, todo, busy, sigs, signals, errs, expired, bg, hung,
          awaiting, exitCode, closed, faults>>

ProcessInit ==
  /\ CrdInit
  /\ main = "bind" /\ todo = BindOrder
  /\ listener = [s \in Servers |-> "unbound"] /\ busy = {}
  /\ sigs = FALSE /\ signals = 2 /\ errs = 0 /\ expired = FALSE
  /\ bg = [g \in Background |-> "off"]
  /\ hung = {} /\ awaiting = {} /\ exitCode = 0 /\ closed = FALSE
  /\ faults = MaxFaults

-----------------------------------------------------------------------------
(* Start. *)

BindNext ==
  /\ main = "bind" /\ todo # <<>>
  /\ listener' = [listener EXCEPT ![Head(todo)] = "open"]
  /\ todo' = Tail(todo)
  /\ UNCHANGED <<cvars, main, busy, sigs, signals, errs, expired, bg, hung, awaiting,
                 exitCode, closed, faults>>

CloseBound ==
  listener' = [s \in Servers |-> IF listener[s] = "open" THEN "closed" ELSE listener[s]]

(* A bind fails: close what is bound, and the deferred Close of the store. *)
BindFails ==
  /\ main = "bind" /\ todo # <<>> /\ faults > 0
  /\ faults' = faults - 1
  /\ CloseBound
  /\ main' = "exit" /\ exitCode' = 1 /\ closed' = TRUE
  /\ UNCHANGED <<cvars, todo, busy, sigs, signals, errs, expired, bg, hung, awaiting>>

StartAll ==
  /\ main = "bind" /\ todo = <<>>
  /\ main' = "serve"
  /\ sup' = "spawn"
  /\ bg' = [g \in Background |-> "idle"]
  /\ IF ReadinessRequiresOperator THEN UNCHANGED ready ELSE SetReady(TRUE)
  /\ UNCHANGED <<attempt, quick, lasted, manager, available, draining, ctx, cluster,
                 watcher, crds, listener, todo, busy, sigs, signals, errs, expired, hung,
                 awaiting, exitCode, closed, faults>>

-----------------------------------------------------------------------------
(* What happens around it. *)

Signal ==
  /\ signals > 0 /\ ~sigs /\ main \in {"bind", "serve", "drain"}
  /\ signals' = signals - 1 /\ sigs' = TRUE
  /\ UNCHANGED <<cvars, main, listener, todo, busy, errs, expired, bg, hung, awaiting,
                 exitCode, closed, faults>>

ServeFails(s) ==
  /\ main \in {"serve", "drain"} /\ listener[s] = "open" /\ faults > 0
  /\ faults' = faults - 1
  /\ listener' = [listener EXCEPT ![s] = "failed"]
  /\ errs' = errs + 1
  /\ UNCHANGED <<cvars, main, todo, busy, sigs, signals, expired, bg, hung, awaiting,
                 exitCode, closed>>

(* Requests and passes of the background goroutines that begin and end      *)
(* before the shutdown make no difference to it.                            *)
Request(s) ==
  /\ \/ listener[s] = "open" /\ main \in {"drain", "shutdown"}
        /\ s \notin busy /\ busy' = busy \cup {s}
     \/ s \in busy /\ busy' = busy \ {s}
  /\ UNCHANGED <<cvars, main, listener, todo, sigs, signals, errs, expired, bg, hung,
                 awaiting, exitCode, closed, faults>>

(* A pass of the sweep, a rotation of the certificate.  The ticker and the *)
(* cancelled context may be ready together, and Go picks either.           *)
BackgroundStarts(g) ==
  /\ bg[g] = "idle" /\ main \in {"shutdown", "await"} /\ clock = 0
  /\ bg' = [bg EXCEPT ![g] = "busy"]
  /\ UNCHANGED <<cvars, main, listener, todo, busy, sigs, signals, errs, expired, hung,
                 awaiting, exitCode, closed, faults>>

BackgroundReturns(g) ==
  /\ \/ bg[g] = "busy" /\ bg' = [bg EXCEPT ![g] = "idle"]
     \/ bg[g] = "idle" /\ cancelled /\ bg' = [bg EXCEPT ![g] = "done"]
  /\ UNCHANGED <<cvars, main, listener, todo, busy, sigs, signals, errs, expired, hung,
                 awaiting, exitCode, closed, faults>>

-----------------------------------------------------------------------------
(* Shutdown. *)

(* The select of run, then drainBeforeShutdown up to its wait. *)
Stop ==
  /\ main = "serve"
  /\ \/ sigs /\ sigs' = FALSE /\ UNCHANGED <<errs, exitCode>>
     \/ errs > 0 /\ errs' = errs - 1 /\ exitCode' = 1 /\ UNCHANGED sigs
  /\ MarkDraining
  /\ main' = "drain"
  /\ UNCHANGED <<supervisor, manager, available, ctx, cluster, watcher, crds, listener,
                 todo, busy, signals, expired, bg, hung, awaiting, closed, faults>>

(* The delay passes, or a second signal cuts it short. *)
DrainEnds ==
  /\ main = "drain"
  /\ \/ UNCHANGED sigs
     \/ ShutdownDelay /\ sigs /\ sigs' = FALSE
  /\ main' = "shutdown" /\ todo' = ShutdownOrder
  /\ UNCHANGED <<cvars, listener, busy, signals, errs, expired, bg, hung, awaiting,
                 exitCode, closed, faults>>

(* http.Server.Shutdown: close the listener, *)
ShutListener ==
  /\ main = "shutdown" /\ todo # <<>> /\ listener[Head(todo)] = "open"
  /\ listener' = [listener EXCEPT ![Head(todo)] = "closed"]
  /\ UNCHANGED <<cvars, main, todo, busy, sigs, signals, errs, expired, bg, hung, awaiting,
                 exitCode, closed, faults>>

ShutdownResult(s) == IF s \in busy THEN 1 ELSE exitCode

(* and wait until the server is idle or the context expires. *)
ShutDown ==
  /\ main = "shutdown" /\ todo # <<>> /\ listener[Head(todo)] # "open"
  /\ Head(todo) \notin busy \/ expired
  /\ exitCode' = ShutdownResult(Head(todo))
  /\ todo' = Tail(todo)
  /\ UNCHANGED <<cvars, main, listener, busy, sigs, signals, errs, expired, bg, hung,
                 awaiting, closed, faults>>

(* Mutant: Shutdown is given a context without a deadline. *)
NeverExpires == FALSE

Expire ==
  /\ main = "shutdown" /\ busy # {} /\ ~expired
  /\ expired' = TRUE
  /\ UNCHANGED <<cvars, main, listener, todo, busy, sigs, signals, errs, bg, hung,
                 awaiting, exitCode, closed, faults>>

(* Mutant: the background goroutines are left to the deferred cancel. *)
AwaitOperator == {"operator"}

Awaitable == Goroutines

(* cancel(): the supervisor's context, the manager's and its watcher's. *)
Cancel ==
  /\ main = "shutdown" /\ todo = <<>>
  /\ main' = "await" /\ awaiting' = Awaitable
  /\ Shutdown
  /\ UNCHANGED <<listener, todo, busy, sigs, signals, errs, expired, bg, hung, exitCode,
                 closed, faults>>

OperatorAwaitTimeout == GracefulShutdownTimeout + AwaitSlack

Deadline == clock >= OperatorAwaitTimeout

Done(g) == IF g = "operator" THEN Returned ELSE bg[g] = "done"

(* Past the deadline the select may take either of two ready cases.        *)
Await(g) ==
  /\ main = "await" /\ g \in awaiting
  /\ awaiting' = awaiting \ {g}
  /\ \/ Done(g) /\ UNCHANGED <<hung, exitCode>>
     \/ Deadline /\ hung' = hung \cup {g} /\ exitCode' = 1
  /\ UNCHANGED <<cvars, main, listener, todo, busy, sigs, signals, errs, expired, bg,
                 closed, faults>>

(* The deferred calls, and os.Exit. *)
Exit ==
  /\ main = "await" /\ awaiting = {}
  /\ main' = "exit" /\ closed' = TRUE
  /\ UNCHANGED <<cvars, listener, todo, busy, sigs, signals, errs, expired, bg, hung,
                 awaiting, exitCode, faults>>

(* A unit of time is long against what a goroutine that is ready to run    *)
(* takes, and the manager's drain ends with its window.                    *)
Punctual ==
  \/ Returned
  \/ /\ sup = "drain"
     /\ \/ Stopping /\ clock < GracefulShutdownTimeout
        \/ mgr = "building"

Tick ==
  /\ main = "await" /\ ~Deadline
  /\ Punctual
  /\ clock' = clock + 1
  /\ UNCHANGED <<supervisor, manager, available, health, cancelled, cluster, watcher, crds,
                 pvars>>

Running == main # "exit"

OperatorStep ==
  /\ Running
  /\ \/ SetupWatches \/ StartWatcher \/ SupervisionStep \/ Engagement
     \/ \E k \in Kinds : Install(k) \/ Update(k)
  /\ UNCHANGED pvars

Run ==
  \/ BindNext \/ StartAll \/ Stop \/ DrainEnds \/ ShutListener \/ ShutDown \/ Expire
  \/ Cancel \/ (\E g \in Goroutines : Await(g)) \/ Exit

Next ==
  \/ Run \/ OperatorStep \/ Tick
  \/ BindFails \/ Signal
  \/ \E s \in Servers : ServeFails(s) \/ Request(s)
  \/ \E g \in Background : Running /\ (BackgroundStarts(g) \/ BackgroundReturns(g))

Spec == ProcessInit /\ [][Next]_vars

(* main runs; timers fire; the operator's goroutines run.  A build, a       *)
(* request, a reconcile or a background goroutine may hang for ever.        *)
Fairness ==
  /\ WF_vars(Run) /\ WF_vars(Tick)
  /\ WF_vars(OperatorStep /\ (Supervise \/ Manage \/ DrainTimesOut))

FairSpec == Spec /\ Fairness

-----------------------------------------------------------------------------
(* A shutdown that is slow but correct is not reported as a hang: while    *)
(* the manager drains within its window, or a build hangs on the API       *)
(* server, the operator's goroutine is gone before main's deadline.        *)
OperatorNeverHangs == Deadline /\ main = "await" => Returned

(* The store is closed under nobody's feet but those of a reconcile the    *)
(* operator has given up: an exit without an error finds the sweep and the *)
(* renewer gone, a manager's reconcile under way only if the manager was   *)
(* left alone because its caches had not been reported, and one without a  *)
(* manager only if the drain window has run out or the cluster had broken  *)
(* under a manager that had synced (a lost lease, a failed runnable).      *)
CleanExit ==
  main = "exit" /\ exitCode = 0 =>
    /\ \A g \in Background : bg[g] = "done"
    /\ working => sup = "abandoned"
    /\ straggler => clock >= GracefulShutdownTimeout \/ outages < MaxOutages

(* A process that was told to stop stops, whatever hangs in it.            *)
Terminates == sigs ~> main = "exit"
=============================================================================
