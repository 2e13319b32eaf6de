------------------------------ MODULE EvalGate ------------------------------
(***************************************************************************)
(* The process-wide gate on Jsonnet evaluations.  A call reserves a slot   *)
(* with a compare-and-swap loop, evaluates in a goroutine of its own and   *)
(* waits for the result or for its deadline.  go-jsonnet cannot be         *)
(* interrupted: past the deadline the caller leaves and the evaluation     *)
(* runs on, its slot with it, until it returns or panics.                  *)
(***************************************************************************)
EXTENDS Integers, FiniteSets

CONSTANTS
  Calls,    \* evaluations that may be under way at once, waited for or not
  Limits    \* values of --max-concurrent-evals; 0 disables the gate

ASSUME GateConstants == IsFiniteSet(Calls) /\ Limits \subseteq Nat

VARIABLES
  limit,      \* concurrencyLimit, set once at startup
  inFlight,   \* inFlightEvals
  leaked,     \* leakedEvals
  stage,      \* where each call is, its drain goroutine included
  seen,       \* the inFlightEvals it read
  eval,       \* where its evaluation goroutine is
  slot        \* its release has yet to decrement inFlightEvals

gateVars == <<limit, inFlight, leaked, stage, seen, eval, slot>>

(* The type invariant. *)
TypeOK ==
  /\ limit \in Limits /\ inFlight \in Int /\ leaked \in Int
  /\ stage \in [Calls -> {"free", "load", "swap", "waiting", "draining"}]
  /\ seen \in [Calls -> Int]
  /\ eval \in [Calls -> {"none", "running", "released", "sent"}]
  /\ slot \in [Calls -> BOOLEAN]

GateInit ==
  /\ limit \in Limits /\ inFlight = 0 /\ leaked = 0
  /\ stage = [e \in Calls |-> "free"] /\ seen = [e \in Calls |-> 0]
  /\ eval = [e \in Calls |-> "none"] /\ slot = [e \in Calls |-> FALSE]

Enter(e, s) == stage' = [stage EXCEPT ![e] = s]

(* evaluateWithDeadline starts the goroutine and waits in its select. *)
Start(e) == Enter(e, "waiting") /\ eval' = [eval EXCEPT ![e] = "running"]

(* A disabled gate lets everybody in, with a release that does nothing. *)
Call(e) ==
  /\ stage[e] = "free"
  /\ \/ limit = 0 /\ Start(e)
     \/ limit > 0 /\ Enter(e, "load") /\ UNCHANGED eval
  /\ UNCHANGED <<limit, inFlight, leaked, seen, slot>>

(* One load decides the rejection; the caller gets ErrEvalUnavailable. *)
Load(e) ==
  /\ stage[e] = "load"
  /\ \/ inFlight >= limit /\ Enter(e, "free") /\ UNCHANGED seen
     \/ /\ inFlight < limit
        /\ Enter(e, "swap") /\ seen' = [seen EXCEPT ![e] = inFlight]
  /\ UNCHANGED <<limit, inFlight, leaked, eval, slot>>

(* CompareAndSwap; another try from the load when somebody was faster. *)
Swap(e) ==
  /\ stage[e] = "swap"
  /\ \/ /\ inFlight = seen[e]
        /\ inFlight' = seen[e] + 1 /\ slot' = [slot EXCEPT ![e] = TRUE]
        /\ Start(e)
     \/ inFlight # seen[e] /\ Enter(e, "load") /\ UNCHANGED <<inFlight, eval, slot>>
  /\ seen' = [seen EXCEPT ![e] = 0]
  /\ UNCHANGED <<limit, leaked>>

(* Mutant: the slot goes back only if somebody still waits for the result. *)
ReleaseWhenWaited(e) ==
  IF slot[e] /\ stage[e] = "waiting"
    THEN inFlight' = inFlight - 1 /\ slot' = [slot EXCEPT ![e] = FALSE]
    ELSE UNCHANGED inFlight /\ slot' = [slot EXCEPT ![e] = FALSE]

(* The release closure: a sync.Once around the decrement. *)
Release(e) ==
  /\ inFlight' = IF slot[e] THEN inFlight - 1 ELSE inFlight
  /\ slot' = [slot EXCEPT ![e] = FALSE]

(* The evaluation returns, fails or panics; release is deferred in it. *)
Finish(e) ==
  /\ eval[e] = "running"
  /\ Release(e)
  /\ eval' = [eval EXCEPT ![e] = "released"]
  /\ UNCHANGED <<limit, leaked, stage, seen>>

(* Mutant: an unbuffered channel that only the caller reads. *)
CallerWaits(e) == eval[e] = "released" /\ stage[e] = "waiting"

(* The channel has room for the one result. *)
Room(e) == eval[e] = "released"

Send(e) ==
  /\ Room(e)
  /\ eval' = [eval EXCEPT ![e] = "sent"]
  /\ UNCHANGED <<limit, inFlight, leaked, stage, seen, slot>>

Receive(e) ==
  /\ stage[e] = "waiting" /\ eval[e] = "sent"
  /\ Enter(e, "free") /\ eval' = [eval EXCEPT ![e] = "none"]
  /\ UNCHANGED <<limit, inFlight, leaked, seen, slot>>

(* Mutant: release deferred by the caller, not by the evaluation. *)
ReleaseOnReturn(e) == Release(e)

KeepSlot(e) == UNCHANGED <<inFlight, slot>>

(* The deadline or the caller's context fires, even against a result that  *)
(* is there: select picks either.  A drain goroutine takes over.           *)
TimeOut(e) ==
  /\ stage[e] = "waiting"
  /\ Enter(e, "draining") /\ leaked' = leaked + 1
  /\ KeepSlot(e)
  /\ UNCHANGED <<limit, seen, eval>>

Drain(e) ==
  /\ stage[e] = "draining" /\ eval[e] = "sent"
  /\ Enter(e, "free") /\ eval' = [eval EXCEPT ![e] = "none"]
  /\ leaked' = leaked - 1
  /\ UNCHANGED <<limit, inFlight, seen, slot>>

GateNext ==
  \E e \in Calls :
    \/ Call(e) \/ Load(e) \/ Swap(e) \/ Finish(e) \/ Send(e)
    \/ Receive(e) \/ TimeOut(e) \/ Drain(e)

GateSpec == GateInit /\ [][GateNext]_gateVars

(* Go runs every goroutine that can run.  Nothing is assumed of Finish (an  *)
(* evaluation may never end) nor of the deadlines.                         *)
GateFairness ==
  \A e \in Calls :
    /\ WF_gateVars(Load(e)) /\ WF_gateVars(Swap(e)) /\ WF_gateVars(Send(e))
    /\ WF_gateVars(Receive(e)) /\ WF_gateVars(Drain(e))

FairGateSpec == GateSpec /\ GateFairness

-----------------------------------------------------------------------------
Running == {e \in Calls : eval[e] = "running"}

(* The cap bounds the evaluations that really run: the ones whose caller   *)
(* timed out count, and no interleaving of the reservations lets one more  *)
(* in.                                                                     *)
CapHolds == limit > 0 => Cardinality(Running) <= limit

(* A call is turned away only while as many evaluations as the cap allows  *)
(* hold a slot: neither a rejected call nor a finished one is counted.     *)
RejectedOnlyWhenFull ==
  [][\A e \in Calls : stage[e] = "load" /\ stage'[e] = "free"
       => Cardinality(Running) >= limit]_gateVars

(* A timed-out evaluation that ends at last is no longer counted as        *)
(* outstanding, although its caller is gone: no goroutine stays behind.    *)
LeaksDrain ==
  \A e \in Calls :
    stage[e] = "draining" /\ eval[e] # "running" ~> stage[e] = "free"
=============================================================================
