------------------------------ MODULE WebhookCA ------------------------------
(***************************************************************************)
(* The self-signed certificates of the admission webhook.  Every replica   *)
(* makes a CA of its own, serves a certificate signed by it, and rotates   *)
(* both; all of them share one ValidatingWebhookConfiguration, whose       *)
(* caBundle the API server trusts.  A rotation first widens the bundle,    *)
(* then swaps the files, sleeps while the server picks them up, and only   *)
(* then takes its old CA out.  The writes are read-modify-writes under     *)
(* optimistic concurrency, retried on a conflict.                          *)
(***************************************************************************)
EXTENDS Integers, FiniteSets

CONSTANTS
  Replicas,
  Validity,      \* of a CA and its serving certificate, in clock units
  Attempts,      \* retry.DefaultBackoff.Steps
  PromptReload,  \* certwatcher reloads the files within GuardDelay
  MaxRestarts,   \* bound on pods replaced
  MaxFaults,     \* bound on calls and writes that fail
  MaxTime        \* bound on the clock

ASSUME WebhookConstants ==
  /\ IsFiniteSet(Replicas)
  /\ Validity \in Nat \ {0} /\ Attempts \in Nat \ {0} /\ PromptReload \in BOOLEAN
  /\ MaxRestarts \in Nat /\ MaxFaults \in Nat /\ MaxTime \in Nat

VARIABLES
  caBundle,   \* what the API server trusts
  now,
  stage,      \* what each replica's goroutine does next
  goal,       \* what its UpdateVWCCABundle is for
  read,       \* the caBundle it read
  outdated,   \* ... which somebody has replaced since
  tries,      \* attempts that failed
  CurrentCA,  \* the Renewer's own idea of the CA in use
  fresh,      \* the CA it is rotating to
  disk,       \* the CAs of tls.key and tls.crt
  served,     \* the CA of the certificate the webhook server holds
  due,        \* the next tick of the Renewer
  serial,     \* CAs generated so far
  restarts, budget

object == <<caBundle, outdated>>
update == <<goal, read, tries>>
files == <<disk, served>>
vars == <<caBundle, now, stage, goal, read, outdated, tries, CurrentCA, fresh,
          disk, served, due, serial, restarts, budget>>

Generate(r, n) == [owner |-> r, serial |-> n, notAfter |-> now + Validity]

(* Mutant: one rotation per validity. *)
OncePerValidity == Validity

Interval == Validity \div 3

(* provisionSelfSignedWebhookCert: the files are written before anything   *)
(* else, and the server starts on them whether the stamp lands or not.     *)
Init ==
  /\ now = 0
  /\ caBundle = {}
  /\ serial = [r \in Replicas |-> 0]
  /\ fresh = [r \in Replicas |-> Generate(r, 0)] /\ CurrentCA = fresh
  /\ disk = [r \in Replicas |-> [key |-> fresh[r], crt |-> fresh[r]]]
  /\ served = fresh
  /\ stage = [r \in Replicas |-> "get"] /\ goal = [r \in Replicas |-> "stamp"]
  /\ read = [r \in Replicas |-> {}] /\ outdated = {}
  /\ tries = [r \in Replicas |-> 0]
  /\ due = [r \in Replicas |-> Interval]
  /\ restarts = 0 /\ budget = MaxFaults

Fault == budget > 0 /\ budget' = budget - 1
NoFault == UNCHANGED budget

Goto(r, s) == stage' = [stage EXCEPT ![r] = s]

-----------------------------------------------------------------------------
(* UpdateVWCCABundle. *)

StartUpdate(r, g) == Goto(r, "get") /\ goal' = [goal EXCEPT ![r] = g]

ClearUpdate(r) ==
  /\ read' = [read EXCEPT ![r] = {}]
  /\ tries' = [tries EXCEPT ![r] = 0]

(* Mutant: the old CA is never taken out. *)
AddOnly(current, add, remove) == {ca \in current : ca.notAfter > now} \cup {add}

(* mergeCABundle: everything that is valid stays, but for this replica's   *)
(* own superseded CA.                                                      *)
mergeCABundle(current, add, remove) ==
  {ca \in current \ remove : ca.notAfter > now} \cup {add}

Superseded(r) == IF goal[r] = "trim" THEN {CurrentCA[r]} ELSE {}

Merged(r) == mergeCABundle(read[r], fresh[r], Superseded(r))

(* The update has landed: what follows it. *)
Landed(r) ==
  /\ ClearUpdate(r)
  /\ \/ goal[r] = "stamp" /\ Goto(r, "wait")
        /\ due' = [due EXCEPT ![r] = now + Interval] /\ UNCHANGED <<goal, CurrentCA>>
     \/ goal[r] = "union" /\ Goto(r, "key") /\ UNCHANGED <<goal, due, CurrentCA>>
     \/ goal[r] = "trim" /\ Goto(r, "wait")
        /\ CurrentCA' = [CurrentCA EXCEPT ![r] = fresh[r]] /\ UNCHANGED <<goal, due>>

(* Mutant: a failed stamp is not tried again. *)
GivesUp(r) == ClearUpdate(r) /\ Goto(r, "wait")

(* ... it has failed for good: a stamp is retried in the background, a     *)
(* rotation waits for the next tick.                                       *)
GivesIn(r) ==
  /\ ClearUpdate(r)
  /\ Goto(r, IF goal[r] = "stamp" THEN "get" ELSE "wait")

AttemptsLeft(r) == tries[r] + 1 < Attempts

(* retry.OnError: a retriable error goes round again, from the read. *)
Again(r) ==
  \/ /\ AttemptsLeft(r)
     /\ tries' = [tries EXCEPT ![r] = @ + 1] /\ read' = [read EXCEPT ![r] = {}]
     /\ Goto(r, "get")
  \/ ~AttemptsLeft(r) /\ GivesIn(r)

Get(r) ==
  /\ stage[r] = "get"
  /\ \/ /\ NoFault
        /\ read' = [read EXCEPT ![r] = caBundle] /\ outdated' = outdated \ {r}
        /\ Goto(r, "update") /\ UNCHANGED tries
     \/ Fault /\ (Again(r) \/ GivesIn(r)) /\ UNCHANGED outdated
  /\ UNCHANGED <<caBundle, now, goal, CurrentCA, fresh, files, due, serial, restarts>>

(* Mutant: last write wins. *)
NoConflict(r) == FALSE

Conflict(r) == r \in outdated

(* The Update is refused when the object has moved since it was read; it   *)
(* is not sent when it would change nothing; and it may be carried out     *)
(* although its answer is an error.                                        *)
Update(r) ==
  /\ stage[r] = "update"
  /\ \/ Merged(r) = read[r] /\ NoFault /\ Landed(r) /\ UNCHANGED object
     \/ /\ Merged(r) # read[r]
        /\ \/ Conflict(r) /\ NoFault /\ Again(r) /\ UNCHANGED <<object, goal, due, CurrentCA>>
           \/ /\ ~Conflict(r)
              /\ caBundle' = Merged(r) /\ outdated' = Replicas \ {r}
              /\ \/ NoFault /\ Landed(r)
                 \/ Fault /\ (Again(r) \/ GivesIn(r)) /\ UNCHANGED <<goal, due, CurrentCA>>
           \/ /\ Fault /\ (Again(r) \/ GivesIn(r))
              /\ UNCHANGED <<object, goal, due, CurrentCA>>
  /\ UNCHANGED <<now, fresh, files, serial, restarts>>

-----------------------------------------------------------------------------
(* Renewer.renewOnce. *)

Renew(r) ==
  /\ stage[r] = "wait" /\ due[r] <= now
  /\ due' = [due EXCEPT ![r] = now + Interval]
  /\ serial' = [serial EXCEPT ![r] = @ + 1]
  /\ fresh' = [fresh EXCEPT ![r] = Generate(r, serial[r] + 1)]
  /\ StartUpdate(r, "union")
  /\ UNCHANGED <<object, now, read, tries, CurrentCA, files, restarts, budget>>

(* Bundle.WriteTo: the key first; an error ends the rotation. *)
WriteKey(r) ==
  /\ stage[r] = "key"
  /\ \/ NoFault /\ disk' = [disk EXCEPT ![r].key = fresh[r]] /\ Goto(r, "cert")
     \/ Fault /\ UNCHANGED disk /\ Goto(r, "wait")
  /\ UNCHANGED <<object, now, update, CurrentCA, fresh, served, due, serial, restarts>>

WriteCert(r) ==
  /\ stage[r] = "cert"
  /\ \/ NoFault /\ disk' = [disk EXCEPT ![r].crt = fresh[r]] /\ Goto(r, "guard")
     \/ Fault /\ UNCHANGED disk /\ Goto(r, "wait")
  /\ UNCHANGED <<object, now, update, CurrentCA, fresh, served, due, serial, restarts>>

(* certwatcher loads the pair when it matches. *)
Reloadable(r) == disk[r].key = disk[r].crt /\ served[r] # disk[r].crt

Reload(r) ==
  /\ Reloadable(r)
  /\ served' = [served EXCEPT ![r] = disk[r].crt]
  /\ UNCHANGED <<object, now, stage, update, CurrentCA, fresh, disk, due, serial, restarts, budget>>

(* The goroutine sleeps GuardDelay and looks at nothing: that the reload   *)
(* is over by then is what PromptReload says.                              *)
GuardElapsed(r) == PromptReload => served[r] = fresh[r]

Guard(r) ==
  /\ stage[r] = "guard" /\ GuardElapsed(r)
  /\ StartUpdate(r, "trim")
  /\ UNCHANGED <<object, now, read, tries, CurrentCA, fresh, files, due, serial, restarts, budget>>

-----------------------------------------------------------------------------
(* The pod is replaced, whatever it was doing: a new CA from the start. *)
Restart(r) ==
  /\ restarts < MaxRestarts /\ restarts' = restarts + 1
  /\ serial' = [serial EXCEPT ![r] = @ + 1]
  /\ LET ca == Generate(r, serial[r] + 1) IN
       /\ fresh' = [fresh EXCEPT ![r] = ca] /\ CurrentCA' = [CurrentCA EXCEPT ![r] = ca]
       /\ disk' = [disk EXCEPT ![r] = [key |-> ca, crt |-> ca]]
       /\ served' = [served EXCEPT ![r] = ca]
  /\ due' = [due EXCEPT ![r] = now + Interval]
  /\ StartUpdate(r, "stamp") /\ ClearUpdate(r)
  /\ UNCHANGED <<object, now, budget>>

(* A unit is weeks or months, a rotation takes seconds. *)
Tick ==
  /\ now < MaxTime
  /\ \A r \in Replicas : stage[r] = "wait" /\ due[r] > now /\ ~Reloadable(r)
  /\ now' = now + 1
  /\ UNCHANGED <<object, stage, update, CurrentCA, fresh, files, due, serial, restarts, budget>>

Worker(r) == Get(r) \/ Update(r) \/ Renew(r) \/ WriteKey(r) \/ WriteCert(r) \/ Guard(r)

Next ==
  \/ \E r \in Replicas : Worker(r) \/ Reload(r) \/ Restart(r)
  \/ Tick

Spec == Init /\ [][Next]_vars

(* Goroutines run; the API server answers. *)
Fairness == \A r \in Replicas : WF_vars(Worker(r)) /\ WF_vars(Reload(r))

FairSpec == Spec /\ Fairness

-----------------------------------------------------------------------------
(* Admission works: the certificate a replica serves verifies at every     *)
(* instant of everybody's rotations, once its bootstrap has been stamped.  *)
(* It needs PromptReload: a server that still serves the old certificate   *)
(* when the old CA is taken out is not trusted until it has reloaded.      *)
ServedTrusted ==
  \A r \in Replicas :
    ~(stage[r] \in {"get", "update"} /\ goal[r] = "stamp") /\ served[r].notAfter > now
      => served[r] \in caBundle

(* One failed rotation is made up for before the certificate expires.      *)
ServedFresh ==
  budget + 1 >= MaxFaults => \A r \in Replicas : served[r].notAfter > now

(* The replicas converge: when every rotation has gone well and everybody  *)
(* waits, the bundle is the CAs in use, each replica having taken its own  *)
(* superseded ones out and nobody else's.                                  *)
Converged ==
  (\A r \in Replicas : stage[r] = "wait") /\ budget = MaxFaults /\ restarts = 0
    => caBundle = {served[r] : r \in Replicas}

(* A replica that comes up is trusted in the end, whatever its first       *)
(* stamps met.                                                             *)
EventuallyTrusted ==
  \A r \in Replicas : stage[r] = "get" /\ goal[r] = "stamp" ~> served[r] \in caBundle
=============================================================================
