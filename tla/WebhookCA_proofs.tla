-------------------------- MODULE WebhookCA_proofs --------------------------
(***************************************************************************)
(* Theorems about the webhook's certificates, for every number of replicas *)
(* and every validity.                                                     *)
(***************************************************************************)
EXTENDS WebhookCA, FiniteSetTheorems, TLAPS

CAs == [owner: Replicas, serial: Nat, notAfter: Nat]

Stages == {"wait", "get", "update", "key", "cert", "guard"}

Types ==
  /\ caBundle \subseteq CAs /\ now \in Nat
  /\ stage \in [Replicas -> Stages]
  /\ goal \in [Replicas -> {"stamp", "union", "trim"}]
  /\ read \in [Replicas -> SUBSET CAs] /\ outdated \subseteq Replicas
  /\ tries \in [Replicas -> Nat]
  /\ CurrentCA \in [Replicas -> CAs] /\ fresh \in [Replicas -> CAs]
  /\ disk \in [Replicas -> [key: CAs, crt: CAs]] /\ served \in [Replicas -> CAs]
  /\ due \in [Replicas -> Nat] /\ serial \in [Replicas -> Nat]
  /\ restarts \in 0..MaxRestarts /\ budget \in 0..MaxFaults

(* Three rotations fall into one validity.                                 *)
LEMMA IntervalType == Interval \in Nat /\ 3 * Interval <= Validity /\ Validity \in Nat \ {0}
BY WebhookConstants DEF Interval

(* A generated CA is one.                                                  *)
LEMMA GenerateType ==
  ASSUME Types, NEW r \in Replicas, NEW n \in Nat
  PROVE  Generate(r, n) \in CAs
BY WebhookConstants DEF Types, Generate, CAs

(* What an action writes at one replica is of the type of the rest.        *)
LEMMA PointTypes ==
  ASSUME Types, NEW r \in Replicas
  PROVE  /\ \A s \in Stages : [stage EXCEPT ![r] = s] \in [Replicas -> Stages]
         /\ \A g \in {"stamp", "union", "trim"} :
              [goal EXCEPT ![r] = g] \in [Replicas -> {"stamp", "union", "trim"}]
         /\ [read EXCEPT ![r] = {}] \in [Replicas -> SUBSET CAs]
         /\ [read EXCEPT ![r] = caBundle] \in [Replicas -> SUBSET CAs]
         /\ [tries EXCEPT ![r] = 0] \in [Replicas -> Nat]
         /\ [tries EXCEPT ![r] = @ + 1] \in [Replicas -> Nat]
         /\ [serial EXCEPT ![r] = @ + 1] \in [Replicas -> Nat]
         /\ [due EXCEPT ![r] = now + Interval] \in [Replicas -> Nat]
<1>1. \A s \in Stages : [stage EXCEPT ![r] = s] \in [Replicas -> Stages]
  BY DEF Types
<1>2. \A g \in {"stamp", "union", "trim"} :
        [goal EXCEPT ![r] = g] \in [Replicas -> {"stamp", "union", "trim"}]
  BY DEF Types
<1>3. [read EXCEPT ![r] = {}] \in [Replicas -> SUBSET CAs]
  <2>1. {} \in SUBSET CAs /\ read \in [Replicas -> SUBSET CAs]
    BY DEF Types
  <2> QED
    BY <2>1
<1>4. [read EXCEPT ![r] = caBundle] \in [Replicas -> SUBSET CAs]
  <2>1. caBundle \in SUBSET CAs /\ read \in [Replicas -> SUBSET CAs]
    BY DEF Types
  <2> QED
    BY <2>1
<1>5. /\ [tries EXCEPT ![r] = 0] \in [Replicas -> Nat]
      /\ [tries EXCEPT ![r] = @ + 1] \in [Replicas -> Nat]
      /\ [serial EXCEPT ![r] = @ + 1] \in [Replicas -> Nat]
      /\ [due EXCEPT ![r] = now + Interval] \in [Replicas -> Nat]
  BY IntervalType DEF Types
<1> QED
  BY <1>1, <1>2, <1>3, <1>4, <1>5

(* So is a CA it puts somewhere.                                           *)
LEMMA PointCAs ==
  ASSUME Types, NEW r \in Replicas, NEW ca \in CAs
  PROVE  /\ [CurrentCA EXCEPT ![r] = ca] \in [Replicas -> CAs]
         /\ [fresh EXCEPT ![r] = ca] \in [Replicas -> CAs]
         /\ [served EXCEPT ![r] = ca] \in [Replicas -> CAs]
         /\ [disk EXCEPT ![r] = [key |-> ca, crt |-> ca]] \in [Replicas -> [key: CAs, crt: CAs]]
         /\ [disk EXCEPT ![r].key = ca] \in [Replicas -> [key: CAs, crt: CAs]]
         /\ [disk EXCEPT ![r].crt = ca] \in [Replicas -> [key: CAs, crt: CAs]]
<1>1. /\ CurrentCA \in [Replicas -> CAs] /\ fresh \in [Replicas -> CAs]
      /\ served \in [Replicas -> CAs] /\ disk \in [Replicas -> [key: CAs, crt: CAs]]
  BY DEF Types
<1> QED
  BY <1>1

(* A fault never overdraws the budget.                                     *)
LEMMA BudgetType ==
  ASSUME Types, Fault \/ NoFault
  PROVE  budget' \in 0..MaxFaults
BY WebhookConstants DEF Types, Fault, NoFault

(* The steps of an update keep the types.                                  *)
LEMMA UpdateTypes ==
  ASSUME Types, NEW r \in Replicas, Get(r) \/ Update(r)
  PROVE  Types'
<1> USE DEF Fault, NoFault, Goto, object, files
<1>1. Merged(r) \subseteq CAs
  <2>1. read[r] \subseteq CAs /\ fresh[r] \in CAs
    BY DEF Types
  <2> QED
    BY <2>1 DEF Merged, mergeCABundle
<1>2. ASSUME Landed(r)
      PROVE  /\ stage' \in [Replicas -> Stages] /\ goal' = goal
             /\ read' \in [Replicas -> SUBSET CAs] /\ tries' \in [Replicas -> Nat]
             /\ due' \in [Replicas -> Nat] /\ CurrentCA' \in [Replicas -> CAs]
  <2>1. /\ due \in [Replicas -> Nat] /\ CurrentCA \in [Replicas -> CAs] /\ fresh[r] \in CAs
        /\ "wait" \in Stages /\ "key" \in Stages
    BY DEF Types, Stages
  <2>2. read' \in [Replicas -> SUBSET CAs] /\ tries' \in [Replicas -> Nat]
    BY <1>2, PointTypes DEF Landed, ClearUpdate
  <2>3. stage' \in [Replicas -> Stages] /\ goal' = goal
    BY <1>2, <2>1, PointTypes DEF Landed
  <2>4. due' \in [Replicas -> Nat]
    BY <1>2, <2>1, PointTypes DEF Landed
  <2>5. CurrentCA' \in [Replicas -> CAs]
    BY <1>2, <2>1, PointCAs DEF Landed
  <2> QED
    BY <2>2, <2>3, <2>4, <2>5
<1>3. ASSUME Again(r) \/ GivesIn(r)
      PROVE  /\ stage' \in [Replicas -> Stages]
             /\ read' \in [Replicas -> SUBSET CAs] /\ tries' \in [Replicas -> Nat]
  <2>1. "wait" \in Stages /\ "get" \in Stages
    BY DEF Stages
  <2> QED
    BY <1>3, <2>1, PointTypes DEF Again, GivesIn, ClearUpdate
<1>4. CASE Get(r)
  <2>0. budget' \in 0..MaxFaults
    BY <1>4, BudgetType DEF Get
  <2>1. /\ outdated' \subseteq Replicas /\ budget' \in 0..MaxFaults
        /\ UNCHANGED <<caBundle, now, goal, CurrentCA, fresh, disk, served, due, serial, restarts>>
    BY <1>4, <2>0 DEF Types, Get
  <2>2. CASE Again(r) \/ GivesIn(r)
    BY <1>3, <2>1, <2>2 DEF Types
  <2>3. CASE ~ (Again(r) \/ GivesIn(r))
    <3>1. "update" \in Stages /\ tries' = tries /\ tries \in [Replicas -> Nat]
      BY <1>4, <2>3 DEF Get, Stages, Types
    <3>2. stage' \in [Replicas -> Stages] /\ read' \in [Replicas -> SUBSET CAs]
      BY <1>4, <2>3, <3>1, PointTypes DEF Get
    <3> QED
      BY <2>1, <3>1, <3>2 DEF Types
  <2> QED
    BY <2>2, <2>3
<1>5. CASE Update(r)
  <2>0. budget' \in 0..MaxFaults
    BY <1>5, BudgetType DEF Update
  <2>1. /\ caBundle' \subseteq CAs /\ outdated' \subseteq Replicas /\ budget' \in 0..MaxFaults
        /\ UNCHANGED <<now, fresh, disk, served, serial, restarts>>
    BY <1>1, <1>5, <2>0 DEF Types, Update
  <2>2. CASE Landed(r)
    BY <1>2, <2>1, <2>2 DEF Types
  <2>3. CASE (Again(r) \/ GivesIn(r)) /\ UNCHANGED <<goal, due, CurrentCA>>
    BY <1>3, <2>1, <2>3 DEF Types
  <2> QED
    BY <1>5, <2>2, <2>3 DEF Update
<1> QED
  BY <1>4, <1>5

(* So do all others.                                                       *)
LEMMA TypesStep ==
  ASSUME Types, [Next]_vars
  PROVE  Types'
<1> USE DEF Fault, NoFault, Goto, object, files, update, StartUpdate
<1>0. /\ \A s \in {"wait", "get", "update", "key", "cert", "guard"} : s \in Stages
      /\ \A r \in Replicas : /\ fresh[r] \in CAs /\ disk[r].crt \in CAs
                             /\ serial[r] + 1 \in Nat
  BY DEF Types, Stages
<1>1. ASSUME NEW r \in Replicas, Renew(r) PROVE Types'
  <2>1. Generate(r, serial[r] + 1) \in CAs
    BY <1>0, GenerateType
  <2>2. /\ due' \in [Replicas -> Nat] /\ serial' \in [Replicas -> Nat]
        /\ fresh' \in [Replicas -> CAs] /\ stage' \in [Replicas -> Stages]
        /\ goal' \in [Replicas -> {"stamp", "union", "trim"}]
    BY <1>0, <1>1, <2>1, PointTypes, PointCAs DEF Renew
  <2> QED
    BY <1>1, <2>2 DEF Renew, Types
<1>2. ASSUME NEW r \in Replicas, WriteKey(r) \/ WriteCert(r) PROVE Types'
  <2>1. stage' \in [Replicas -> Stages]
    BY <1>0, <1>2, PointTypes DEF WriteKey, WriteCert
  <2>2. disk' \in [Replicas -> [key: CAs, crt: CAs]]
    BY <1>0, <1>2, PointCAs DEF WriteKey, WriteCert, Types
  <2>3. budget' \in 0..MaxFaults
    BY <1>2, BudgetType DEF WriteKey, WriteCert
  <2> QED
    BY <1>2, <2>1, <2>2, <2>3 DEF WriteKey, WriteCert, Types
<1>3. ASSUME NEW r \in Replicas, Guard(r) PROVE Types'
  <2>1. stage' \in [Replicas -> Stages] /\ goal' \in [Replicas -> {"stamp", "union", "trim"}]
    BY <1>0, <1>3, PointTypes DEF Guard
  <2> QED
    BY <1>3, <2>1 DEF Guard, Types
<1>4. ASSUME NEW r \in Replicas, Reload(r) PROVE Types'
  <2>1. served' \in [Replicas -> CAs]
    BY <1>0, <1>4, PointCAs DEF Reload
  <2> QED
    BY <1>4, <2>1 DEF Reload, Types
<1>5. ASSUME NEW r \in Replicas, Restart(r) PROVE Types'
  <2>1. Generate(r, serial[r] + 1) \in CAs
    BY <1>0, GenerateType
  <2>2. /\ due' \in [Replicas -> Nat] /\ serial' \in [Replicas -> Nat]
        /\ stage' \in [Replicas -> Stages] /\ goal' \in [Replicas -> {"stamp", "union", "trim"}]
        /\ read' \in [Replicas -> SUBSET CAs] /\ tries' \in [Replicas -> Nat]
    BY <1>0, <1>5, PointTypes DEF Restart, ClearUpdate
  <2>3. /\ fresh' \in [Replicas -> CAs] /\ CurrentCA' \in [Replicas -> CAs]
        /\ served' \in [Replicas -> CAs] /\ disk' \in [Replicas -> [key: CAs, crt: CAs]]
    BY <1>5, <2>1, PointCAs DEF Restart
  <2>4. restarts' \in 0..MaxRestarts /\ UNCHANGED <<caBundle, now, outdated, budget>>
    BY <1>5, WebhookConstants DEF Restart, Types
  <2> QED
    BY <2>2, <2>3, <2>4 DEF Types
<1>6. CASE Tick
  BY <1>6 DEF Tick, Types
<1>7. CASE UNCHANGED vars
  BY <1>7 DEF vars, Types
<1> QED
  BY <1>1, <1>2, <1>3, <1>4, <1>5, <1>6, <1>7, UpdateTypes DEF Next, Worker

(* The initial states are well typed.                                      *)
LEMMA TypesInit == Init => Types
<1> SUFFICES ASSUME Init PROVE Types
  OBVIOUS
<1>1. now \in Nat /\ fresh \in [Replicas -> CAs]
  BY WebhookConstants DEF Init, Generate, CAs
<1> QED
  BY <1>1, IntervalType, WebhookConstants DEF Init, Types, Stages

(* The types hold whatever the replicas do.                                *)
THEOREM TypesCorrect == Spec => []Types
BY TypesInit, TypesStep, PTL DEF Spec

-----------------------------------------------------------------------------
(* What one replica's step does to the others.                             *)

Acts(r) == Worker(r) \/ Reload(r) \/ Restart(r)

Unmoved(e) ==
  /\ stage'[e] = stage[e] /\ goal'[e] = goal[e] /\ read'[e] = read[e] /\ tries'[e] = tries[e]
  /\ CurrentCA'[e] = CurrentCA[e] /\ fresh'[e] = fresh[e]
  /\ disk'[e] = disk[e] /\ served'[e] = served[e] /\ due'[e] = due[e]

Writes(r) ==
  /\ stage[r] = "update" /\ r \notin outdated
  /\ caBundle' = Merged(r) /\ outdated' = Replicas \ {r}

(* It moves nothing of theirs.                                             *)
LEMMA OthersUnmoved ==
  ASSUME Types, NEW r \in Replicas, Acts(r), NEW e \in Replicas, e # r
  PROVE  Unmoved(e) /\ now' = now
<1> USE DEF Goto, files, update, StartUpdate, Unmoved
<1>0. /\ stage \in [Replicas -> Stages] /\ goal \in [Replicas -> {"stamp", "union", "trim"}]
      /\ DOMAIN read = Replicas /\ DOMAIN tries = Replicas
      /\ DOMAIN CurrentCA = Replicas /\ DOMAIN fresh = Replicas
      /\ DOMAIN disk = Replicas /\ DOMAIN served = Replicas /\ DOMAIN due = Replicas
  BY DEF Types
<1>1. CASE Get(r)
  BY <1>0, <1>1 DEF Get, Again, GivesIn, ClearUpdate
<1>2. CASE Update(r)
  BY <1>0, <1>2 DEF Update, Landed, Again, GivesIn, ClearUpdate
<1>3. CASE Renew(r) \/ WriteKey(r) \/ WriteCert(r)
  BY <1>0, <1>3 DEF Renew, WriteKey, WriteCert
<1>4. CASE Guard(r) \/ Reload(r) \/ Restart(r)
  BY <1>0, <1>4 DEF Guard, Reload, Restart, ClearUpdate
<1> QED
  BY <1>1, <1>2, <1>3, <1>4 DEF Acts, Worker

(* The shared object is left alone, or replaced by what the replica merged *)
(* into the version of it that is current.                                 *)
LEMMA ObjectMoves ==
  ASSUME NEW r \in Replicas, Acts(r)
  PROVE  \/ Writes(r)
         \/ caBundle' = caBundle /\ outdated' \in {outdated, outdated \ {r}}
BY DEF Acts, Worker, Get, Update, Renew, WriteKey, WriteCert, Guard, Reload, Restart, object,
   Writes, Conflict

-----------------------------------------------------------------------------
(* Trust: a replica takes no CA out of the bundle but its own superseded   *)
(* one, and that one only while it serves another.                         *)

Updating(r) == stage[r] \in {"get", "update"}
Stamping(r) == Updating(r) /\ goal[r] = "stamp"
Trimming(r) == Updating(r) /\ goal[r] = "trim"

Trusts(ca) == ca.notAfter > now => ca \in caBundle

Own(r) == CurrentCA[r].owner = r /\ fresh[r].owner = r /\ served[r].owner = r

(* A read that nobody overtook is the bundle; what it shows of the         *)
(* reader's own CAs is true even when it was overtaken.                    *)
ReadInv(r) ==
  stage[r] = "update" =>
    /\ r \notin outdated => read[r] = caBundle
    /\ \A ca \in read[r] : ca.owner = r => Trusts(ca)

FilesInv(r) ==
  /\ stage[r] # "guard" => served[r] = disk[r].crt
  /\ stage[r] = "guard" \/ Stamping(r) \/ Trimming(r)
       => disk[r].key = fresh[r] /\ disk[r].crt = fresh[r]
  /\ stage[r] = "cert" => disk[r].key = fresh[r]
  /\ stage[r] \in {"key", "cert", "guard"} => goal[r] = "union"

TrustInv(r) ==
  /\ ~Stamping(r) => Trusts(served[r])
  /\ stage[r] \in {"key", "cert", "guard"} => Trusts(fresh[r])

ReplicaInv(r) == Own(r) /\ ReadInv(r) /\ FilesInv(r) /\ TrustInv(r)

(* What a write keeps in the bundle, of others and of its own.             *)
LEMMA WriteKeepsTrust ==
  ASSUME Types, NEW r \in Replicas, Own(r), ReadInv(r), Writes(r), now' = now
  PROVE  /\ \A ca \in CAs : ca.owner # r /\ Trusts(ca) => Trusts(ca)'
         /\ goal[r] # "trim" => \A ca \in CAs : Trusts(ca) => Trusts(ca)'
         /\ fresh[r] \in caBundle'
<1>1. caBundle' = {ca \in caBundle \ Superseded(r) : ca.notAfter > now} \cup {fresh[r]}
  BY DEF Writes, ReadInv, Merged, mergeCABundle
<1>2. Superseded(r) = IF goal[r] = "trim" THEN {CurrentCA[r]} ELSE {}
  BY DEF Superseded
<1> QED
  BY <1>1, <1>2 DEF Trusts, Own

(* A replica that does not act keeps its part.                             *)
LEMMA BystanderKeepsTrust ==
  ASSUME Types, NEW r \in Replicas, ReplicaInv(r), Acts(r),
         NEW e \in Replicas, e # r, ReplicaInv(e)
  PROVE  ReplicaInv(e)'
<1>1. Unmoved(e) /\ now' = now
  BY OthersUnmoved
<1>2. \A ca \in CAs : ca.owner = e /\ Trusts(ca) => Trusts(ca)'
  <2>1. CASE Writes(r)
    BY <1>1, <2>1, WriteKeepsTrust DEF ReplicaInv
  <2>2. CASE caBundle' = caBundle
    BY <1>1, <2>2 DEF Trusts
  <2> QED
    BY <2>1, <2>2, ObjectMoves
<1>3. /\ read[e] \subseteq CAs /\ served[e] \in CAs /\ fresh[e] \in CAs
  BY DEF Types
<1>4. e \notin outdated' => e \notin outdated /\ caBundle' = caBundle
  BY ObjectMoves DEF Writes
<1>5. ReadInv(e)'
  BY <1>1, <1>2, <1>3, <1>4 DEF ReplicaInv, ReadInv, Unmoved
<1>6. Own(e)' /\ FilesInv(e)'
  BY <1>1 DEF ReplicaInv, Own, FilesInv, Unmoved, Stamping, Trimming, Updating
<1>7. TrustInv(e)'
  <2>1. served[e].owner = e /\ fresh[e].owner = e
    BY DEF ReplicaInv, Own
  <2>2. served'[e] = served[e] /\ fresh'[e] = fresh[e] /\ stage'[e] = stage[e] /\ goal'[e] = goal[e]
    BY <1>1 DEF Unmoved
  <2>3. (Trusts(served[e]) => Trusts(served[e])') /\ (Trusts(fresh[e]) => Trusts(fresh[e])')
    BY <1>2, <1>3, <2>1, <2>2
  <2> QED
    BY <2>2, <2>3 DEF ReplicaInv, TrustInv, Stamping, Updating
<1> QED
  BY <1>5, <1>6, <1>7 DEF ReplicaInv

(* An update that has not landed goes round again or is given up; a stamp  *)
(* never is.                                                               *)
Retreats(r) ==
  /\ goal'[r] = goal[r] /\ due'[r] = due[r] /\ CurrentCA'[r] = CurrentCA[r]
  /\ \/ stage'[r] = "get"
     \/ stage'[r] = "wait" /\ goal[r] # "stamp"

(* That is what the two ways to end an attempt do.                         *)
LEMMA RetreatMoves ==
  ASSUME Types, NEW r \in Replicas, Again(r) \/ GivesIn(r), UNCHANGED <<goal, due, CurrentCA>>
  PROVE  Retreats(r)
BY DEF Types, Again, GivesIn, Goto, Retreats, Stages

(* The CAs of the acting replica are its own.                              *)
LEMMA OwnStep ==
  ASSUME Types, NEW r \in Replicas, Acts(r), Own(r), disk[r].crt.owner = r
  PROVE  Own(r)'
<1>0. /\ DOMAIN CurrentCA = Replicas /\ DOMAIN fresh = Replicas /\ DOMAIN served = Replicas
  BY DEF Types
<1>1. CASE Get(r) \/ WriteKey(r) \/ WriteCert(r) \/ Guard(r)
  BY <1>1 DEF Get, WriteKey, WriteCert, Guard, files, Own
<1>2. CASE Update(r)
  BY <1>0, <1>2 DEF Update, Landed, files, Own
<1>3. CASE Renew(r) \/ Reload(r) \/ Restart(r)
  BY <1>0, <1>3 DEF Renew, Reload, Restart, Generate, files, Own
<1> QED
  BY <1>1, <1>2, <1>3 DEF Acts, Worker

(* An update keeps the acting replica's part, however it ends.             *)
LEMMA UpdateKeepsTrust ==
  ASSUME Types, NEW r \in Replicas, ReplicaInv(r), Get(r) \/ Update(r)
  PROVE  ReplicaInv(r)'
<1> USE DEF Updating, Stamping, Trimming
<1>0. /\ stage \in [Replicas -> Stages] /\ goal \in [Replicas -> {"stamp", "union", "trim"}]
      /\ DOMAIN read = Replicas /\ DOMAIN CurrentCA = Replicas
      /\ fresh[r] \in CAs /\ served[r] \in CAs /\ read[r] \subseteq CAs
  BY DEF Types
<1>1. /\ Own(r) /\ ReadInv(r) /\ FilesInv(r) /\ TrustInv(r)
      /\ Acts(r) /\ stage[r] \in {"get", "update"}
      /\ UNCHANGED <<now, fresh, disk, served>>
  BY DEF ReplicaInv, Acts, Worker, Get, Update, files
<1>2. Own(r)'
  <2>1. disk[r].crt.owner = r
    BY <1>1 DEF Own, FilesInv
  <2> QED
    BY <1>1, <2>1, OwnStep
<1>3. /\ goal[r] # "trim" => (Trusts(served[r]) => Trusts(served[r])')
      /\ Trimming(r) => Trusts(served[r])'
  <2>1. CASE Writes(r)
    <3>1. fresh[r] \in caBundle'
      BY <1>1, <2>1, WriteKeepsTrust
    <3>2. Trimming(r) => served[r] = fresh[r]
      BY <1>1 DEF FilesInv
    <3> QED
      BY <1>0, <1>1, <2>1, <3>1, <3>2, WriteKeepsTrust DEF Trusts
  <2>2. CASE caBundle' = caBundle
    BY <1>1, <2>2 DEF Trusts, TrustInv
  <2> QED
    BY <1>1, <2>1, <2>2, ObjectMoves
<1>4. CASE Retreats(r)
  <2>1. ~ Stamping(r)' => ~ Stamping(r)
    BY <1>1, <1>4 DEF Retreats
  <2>2. FilesInv(r)'
    BY <1>1, <1>4 DEF FilesInv, Retreats
  <2>3. TrustInv(r)'
    BY <1>0, <1>1, <1>3, <1>4, <2>1 DEF TrustInv, Retreats
  <2> QED
    BY <1>2, <1>4, <2>2, <2>3 DEF ReplicaInv, ReadInv, Retreats
<1>5. CASE Get(r) /\ ~ (Again(r) \/ GivesIn(r))
  <2>1. /\ stage'[r] = "update" /\ goal' = goal /\ read'[r] = caBundle /\ UNCHANGED caBundle
    BY <1>0, <1>5 DEF Get, Goto
  <2>2. ReadInv(r)'
    BY <1>1, <2>1 DEF ReadInv, Trusts
  <2>3. FilesInv(r)' /\ TrustInv(r)'
    BY <1>1, <2>1 DEF FilesInv, TrustInv, Trusts
  <2> QED
    BY <1>2, <2>2, <2>3 DEF ReplicaInv
<1>6. CASE /\ Update(r) /\ Landed(r)
           /\ (Merged(r) = read[r] /\ UNCHANGED caBundle) \/ Writes(r)
  <2>1. /\ goal' = goal /\ stage[r] = "update"
        /\ \/ goal[r] \in {"stamp", "trim"} /\ stage'[r] = "wait"
           \/ goal[r] = "union" /\ stage'[r] = "key"
    BY <1>0, <1>6 DEF Landed, Goto, Update
  <2>2. Trusts(fresh[r])'
    <3>1. CASE Merged(r) = read[r] /\ UNCHANGED caBundle
      <4>1. fresh[r] \in read[r]
        BY <3>1 DEF Merged, mergeCABundle
      <4>2. Trusts(fresh[r])
        BY <1>1, <2>1, <4>1 DEF ReadInv, Own
      <4> QED
        BY <1>1, <3>1, <4>2 DEF Trusts
    <3>2. CASE Writes(r)
      BY <1>1, <3>2, WriteKeepsTrust DEF Trusts
    <3> QED
      BY <1>6, <3>1, <3>2
  <2>3. goal[r] \in {"stamp", "trim"} => served[r] = fresh[r]
    BY <1>1, <2>1 DEF FilesInv
  <2>4. goal[r] = "union" => Trusts(served[r])'
    BY <1>1, <1>3, <2>1 DEF TrustInv
  <2>5. TrustInv(r)'
    BY <1>1, <2>1, <2>2, <2>3, <2>4 DEF TrustInv
  <2>6. FilesInv(r)'
    BY <1>1, <2>1 DEF FilesInv
  <2> QED
    BY <1>2, <2>1, <2>5, <2>6 DEF ReplicaInv, ReadInv
<1>7. Update(r) => \/ /\ Landed(r)
                      /\ (Merged(r) = read[r] /\ UNCHANGED caBundle) \/ Writes(r)
                   \/ (Again(r) \/ GivesIn(r)) /\ UNCHANGED <<goal, due, CurrentCA>>
  BY DEF Update, Writes, Conflict, object
<1>8. Get(r) => UNCHANGED <<goal, due, CurrentCA>>
  BY DEF Get
<1> QED
  BY <1>4, <1>5, <1>6, <1>7, <1>8, RetreatMoves

(* So do the steps of a rotation, a reload and a restart.                  *)
LEMMA RotationKeepsTrust ==
  ASSUME Types, PromptReload, NEW r \in Replicas, ReplicaInv(r),
         \/ Renew(r) \/ WriteKey(r) \/ WriteCert(r) \/ Guard(r)
         \/ Reload(r) \/ Restart(r)
  PROVE  ReplicaInv(r)'
<1> USE DEF Updating, Stamping, Trimming, Goto, object, files, update, StartUpdate
<1>0. /\ stage \in [Replicas -> Stages] /\ goal \in [Replicas -> {"stamp", "union", "trim"}]
      /\ fresh \in [Replicas -> CAs] /\ served \in [Replicas -> CAs]
      /\ CurrentCA \in [Replicas -> CAs]
      /\ disk \in [Replicas -> [key: CAs, crt: CAs]]
  BY DEF Types
<1>1. /\ Own(r) /\ ReadInv(r) /\ FilesInv(r) /\ TrustInv(r) /\ Acts(r)
      /\ UNCHANGED <<now, caBundle>>
  BY DEF ReplicaInv, Acts, Worker, Renew, WriteKey, WriteCert, Guard, Reload, Restart
<1>2. Own(r)'
  <2>1. disk[r].crt.owner = r
    BY <1>1 DEF Own, FilesInv
  <2> QED
    BY <1>1, <2>1, OwnStep
<1>3. CASE Renew(r)
  BY <1>0, <1>1, <1>2, <1>3 DEF Renew, ReplicaInv, ReadInv, FilesInv, TrustInv, Trusts
<1>4. CASE WriteKey(r)
  BY <1>0, <1>1, <1>2, <1>4 DEF WriteKey, ReplicaInv, ReadInv, FilesInv, TrustInv, Trusts
<1>5. CASE WriteCert(r)
  BY <1>0, <1>1, <1>2, <1>5 DEF WriteCert, ReplicaInv, ReadInv, FilesInv, TrustInv, Trusts
<1>6. CASE Guard(r)
  BY <1>0, <1>1, <1>2, <1>6 DEF Guard, GuardElapsed, ReplicaInv, ReadInv, FilesInv, TrustInv, Trusts
<1>7. CASE Reload(r)
  BY <1>0, <1>1, <1>2, <1>7 DEF Reload, Reloadable, ReplicaInv, ReadInv, FilesInv, TrustInv, Trusts
<1>8. CASE Restart(r)
  BY <1>0, <1>1, <1>2, <1>8 DEF Restart, ReplicaInv, ReadInv, FilesInv, TrustInv, Trusts
<1> QED
  BY <1>3, <1>4, <1>5, <1>6, <1>7, <1>8

TrustedInv == \A r \in Replicas : ReplicaInv(r)

(* No step breaks the trust in anybody.                                    *)
LEMMA TrustedStep ==
  ASSUME Types, PromptReload, TrustedInv, [Next]_vars
  PROVE  TrustedInv'
<1> USE DEF TrustedInv
<1>1. ASSUME NEW r \in Replicas, Acts(r) PROVE TrustedInv'
  <2> SUFFICES ASSUME NEW e \in Replicas PROVE ReplicaInv(e)'
    OBVIOUS
  <2>1. CASE e = r
    BY <1>1, <2>1, UpdateKeepsTrust, RotationKeepsTrust DEF Acts, Worker
  <2>2. CASE e # r
    BY <1>1, <2>2, BystanderKeepsTrust
  <2> QED
    BY <2>1, <2>2
<1>2. CASE Tick
  <2>1. /\ UNCHANGED <<caBundle, outdated, stage, goal, read, CurrentCA, fresh, disk, served>>
        /\ now' = now + 1 /\ now \in Nat
        /\ \A r \in Replicas : stage[r] = "wait"
    BY <1>2 DEF Tick, object, update, files, Types
  <2>2. \A r \in Replicas : served[r].notAfter \in Nat
    BY DEF Types, CAs
  <2> QED
    BY <2>1, <2>2 DEF ReplicaInv, Own, ReadInv, FilesInv, TrustInv, Trusts, Stamping, Trimming, Updating
<1>3. CASE UNCHANGED vars
  BY <1>3 DEF vars, ReplicaInv, Own, ReadInv, FilesInv, TrustInv, Trusts, Stamping, Trimming, Updating
<1> QED
  BY <1>1, <1>2, <1>3 DEF Next, Acts

(* The replicas start on a CA of their own, unstamped.                     *)
LEMMA TrustedInit == Init => TrustedInv
BY DEF Init, Generate, TrustedInv, ReplicaInv, Own, ReadInv, FilesInv, TrustInv, Stamping, Trimming,
   Updating

(* A replica's serving certificate is trusted at every instant of          *)
(* everybody's rotations, conflicts, failed and ambiguous writes and       *)
(* restarts, once its bootstrap has been stamped (UpdateVWCCABundle,       *)
(* Renewer.renewOnce, mergeCABundle), for any number of replicas, when     *)
(* GuardDelay covers the reload.                                           *)
THEOREM ServedAlwaysTrusted ==
  ASSUME PromptReload
  PROVE  Spec => []ServedTrusted
<1>1. Init => Types /\ TrustedInv
  BY TypesInit, TrustedInit
<1>2. Types /\ TrustedInv /\ [Next]_vars => (Types /\ TrustedInv)'
  BY TypesStep, TrustedStep
<1>3. TrustedInv => ServedTrusted
  BY DEF TrustedInv, ReplicaInv, TrustInv, Trusts, Stamping, Updating, ServedTrusted
<1> QED
  BY <1>1, <1>2, <1>3, PTL DEF Spec

-----------------------------------------------------------------------------
(* The instant a rotation happens at.                                      *)

DueInv(r) ==
  /\ stage[r] = "wait" => due[r] >= now
  /\ stage[r] # "wait" => due[r] = now + Interval /\ fresh[r].notAfter = now + Validity

(* Nobody's clock moves before everybody waits.                            *)
LEMMA DueStep ==
  ASSUME Types, [Next]_vars, \A r \in Replicas : DueInv(r)
  PROVE  \A r \in Replicas : DueInv(r)'
<1> USE DEF Goto, files, update, StartUpdate, DueInv
<1> SUFFICES ASSUME NEW r \in Replicas PROVE DueInv(r)'
  OBVIOUS
<1>0. /\ stage \in [Replicas -> Stages] /\ DOMAIN due = Replicas /\ DOMAIN fresh = Replicas
      /\ now \in Nat /\ Interval \in Nat /\ due[r] \in Nat /\ DueInv(r)
  BY IntervalType DEF Types
<1>1. CASE Get(r)
  BY <1>0, <1>1 DEF Get, Again, GivesIn
<1>2. CASE Update(r)
  BY <1>0, <1>2 DEF Update, Landed, Again, GivesIn
<1>3. CASE Renew(r) \/ WriteKey(r) \/ WriteCert(r)
  BY <1>0, <1>3 DEF Renew, Generate, WriteKey, WriteCert
<1>4. CASE Guard(r) \/ Reload(r) \/ Restart(r)
  BY <1>0, <1>4 DEF Guard, Reload, Restart, Generate
<1>5. ASSUME NEW e \in Replicas, Acts(e), e # r PROVE DueInv(r)'
  <2>1. Unmoved(r) /\ now' = now
    BY <1>5, OthersUnmoved
  <2> QED
    BY <1>0, <2>1 DEF Unmoved
<1>6. CASE Tick
  BY <1>0, <1>6 DEF Tick
<1>7. CASE UNCHANGED vars
  BY <1>0, <1>7 DEF vars
<1> QED
  BY <1>1, <1>2, <1>3, <1>4, <1>5, <1>6, <1>7 DEF Next, Acts, Worker

-----------------------------------------------------------------------------
(* Patience: within one instant every other replica lands two updates at   *)
(* most, and one more for each restart; only those, and faults, cost an    *)
(* attempt.                                                                *)

Landings == {"union", "trim"}

(* The landings of a replica there is no more to fear at this instant.     *)
Done(e) ==
  IF stage[e] = "wait" THEN IF due[e] > now THEN Landings ELSE {}
  ELSE IF Updating(e) /\ goal[e] = "union" THEN {} ELSE {"union"}

DoneByOthers(r) == {w \in (Replicas \ {r}) \X Landings : w[2] \in Done(w[1])}

Setbacks(r) == tries[r] + (IF stage[r] = "update" /\ r \in outdated THEN 1 ELSE 0)

Excused(r, faults) == Setbacks(r) <= Cardinality(DoneByOthers(r)) + restarts + faults

TriesInv(r) == (~Updating(r) => tries[r] = 0) /\ Excused(r, MaxFaults - budget)

Patient == 2 * (Cardinality(Replicas) - 1) + restarts < Attempts

(* There are two landings for each of the others.                          *)
LEMMA DoneCount ==
  ASSUME NEW r \in Replicas, NEW D \in SUBSET ((Replicas \ {r}) \X Landings)
  PROVE  /\ IsFiniteSet(D) /\ Cardinality(D) \in Nat
         /\ Cardinality(Replicas) \in Nat
         /\ Cardinality(D) <= 2 * (Cardinality(Replicas) - 1)
<1>1. IsFiniteSet(Landings) /\ Cardinality(Landings) = 2
  <2>1. IsFiniteSet({"union"}) /\ Cardinality({"union"}) = 1
    BY FS_Singleton
  <2>2. Landings = {"union"} \cup {"trim"} /\ "trim" \notin {"union"}
    BY DEF Landings
  <2> QED
    BY <2>1, <2>2, FS_AddElement
<1>2. /\ IsFiniteSet(Replicas \ {r}) /\ Cardinality(Replicas) \in Nat
      /\ Cardinality(Replicas \ {r}) = Cardinality(Replicas) - 1
  BY FS_RemoveElement, FS_CardinalityType, WebhookConstants
<1>3. /\ IsFiniteSet((Replicas \ {r}) \X Landings)
      /\ Cardinality((Replicas \ {r}) \X Landings) = (Cardinality(Replicas) - 1) * 2
  BY <1>1, <1>2, FS_Product
<1>4. /\ IsFiniteSet(D)
      /\ Cardinality(D) <= Cardinality((Replicas \ {r}) \X Landings)
  BY <1>3, FS_Subset
<1>5. Cardinality(D) \in Nat
  BY <1>4, FS_CardinalityType
<1> QED
  BY <1>2, <1>3, <1>4, <1>5

(* What the acting replica has done only grows, by one with each landing;  *)
(* a restart may owe one landing again.                                    *)
LEMMA DoneStep ==
  ASSUME Types, Validity >= 3, NEW a \in Replicas, Acts(a), DueInv(a), FilesInv(a)
  PROVE  /\ ~ Restart(a) => Done(a) \subseteq Done(a)'
         /\ Done(a) \subseteq Done(a)' \cup {"trim"}
         /\ Update(a) /\ Landed(a) => \E x \in Landings : x \in Done(a)' \ Done(a)
<1> USE DEF Goto, files, update, StartUpdate, Done, Landings, Updating
<1>0. /\ stage \in [Replicas -> Stages] /\ goal \in [Replicas -> {"stamp", "union", "trim"}]
      /\ due \in [Replicas -> Nat] /\ now \in Nat /\ Interval \in Nat \ {0}
  BY IntervalType DEF Types, Interval
<1>1. CASE Get(a)
  BY <1>0, <1>1 DEF Get, Again, GivesIn, DueInv, Update
<1>2. CASE Update(a)
  <2>1. CASE Landed(a)
    BY <1>0, <1>2, <2>1 DEF Update, Landed, DueInv
  <2>2. CASE ~ Landed(a)
    BY <1>0, <1>2, <2>2 DEF Update, Again, GivesIn, DueInv
  <2> QED
    BY <2>1, <2>2
<1>3. CASE Renew(a)
  BY <1>0, <1>3 DEF Renew, Update
<1>4. CASE WriteKey(a) \/ WriteCert(a) \/ Guard(a)
  BY <1>0, <1>4 DEF WriteKey, WriteCert, Guard, DueInv, FilesInv, Update
<1>5. CASE Reload(a)
  BY <1>0, <1>5 DEF Reload, Update, Landed, ClearUpdate
<1>6. CASE Restart(a)
  BY <1>0, <1>6 DEF Restart, Update, Landed
<1> QED
  BY <1>1, <1>2, <1>3, <1>4, <1>5, <1>6 DEF Acts, Worker

(* ... and so does what the others have done, for a replica that watches.  *)
LEMMA DoneByOthersStep ==
  ASSUME Types, Validity >= 3, NEW a \in Replicas, Acts(a), DueInv(a), FilesInv(a),
         NEW r \in Replicas, r # a
  PROVE  LET before == Cardinality(DoneByOthers(r))
             after == Cardinality(DoneByOthers(r)')
         IN  /\ before \in Nat /\ after \in Nat
             /\ ~ Restart(a) => after >= before
             /\ after + 1 >= before
             /\ Update(a) /\ Landed(a) => after >= before + 1
<1> DEFINE D == DoneByOthers(r)
           E == DoneByOthers(r)'
<1>1. /\ D \in SUBSET ((Replicas \ {r}) \X Landings)
      /\ E \in SUBSET ((Replicas \ {r}) \X Landings)
  BY DEF DoneByOthers, Landings
<1> HIDE DEF D, E
<1>2. /\ IsFiniteSet(D) /\ Cardinality(D) \in Nat
      /\ IsFiniteSet(E) /\ Cardinality(E) \in Nat
  BY <1>1, DoneCount
<1>3. ASSUME NEW e \in Replicas, e # a PROVE Done(e)' = Done(e)
  <2>1. Unmoved(e) /\ now' = now
    BY <1>3, OthersUnmoved
  <2> QED
    BY <2>1 DEF Unmoved, Done, Updating
<1>4. Done(a) \subseteq Done(a)' => D \subseteq E
  BY <1>3 DEF D, E, DoneByOthers, Landings
<1>5. D \subseteq E \cup {<<a, "trim">>}
  <2> SUFFICES ASSUME NEW w \in D, w # <<a, "trim">> PROVE w \in E
    OBVIOUS
  <2>1. PICK e \in Replicas \ {r}, l \in Landings : w = <<e, l>>
    BY <1>1
  <2>2. l \in Done(e)
    BY <2>1 DEF D, DoneByOthers
  <2>3. l \in Done(e)'
    BY <1>3, <2>1, <2>2, DoneStep
  <2> QED
    BY <2>1, <2>3 DEF E, DoneByOthers
<1>6. ASSUME NEW x \in Landings, x \in Done(a)' \ Done(a)
      PROVE  <<a, x>> \in E /\ <<a, x>> \notin D
  BY <1>6 DEF D, E, DoneByOthers
<1>7. ~ Restart(a) => Cardinality(E) >= Cardinality(D)
  BY <1>2, <1>4, DoneStep, FS_Subset
<1>8. Cardinality(E) + 1 >= Cardinality(D)
  <2>1. /\ IsFiniteSet(E \cup {<<a, "trim">>})
        /\ Cardinality(E \cup {<<a, "trim">>}) <= Cardinality(E) + 1
    <3> DEFINE w == <<a, "trim">>
    <3> HIDE DEF w
    <3>1. /\ IsFiniteSet(E \cup {w})
          /\ Cardinality(E \cup {w}) = IF w \in E THEN Cardinality(E) ELSE Cardinality(E) + 1
      BY <1>2, FS_AddElement
    <3>2. Cardinality(E \cup {w}) <= Cardinality(E) + 1
      BY <1>2, <3>1
    <3> QED
      BY <3>1, <3>2 DEF w
  <2>2. Cardinality(D) <= Cardinality(E \cup {<<a, "trim">>})
    BY <1>5, <2>1, FS_Subset
  <2>3. Cardinality(E \cup {<<a, "trim">>}) \in Nat
    BY <2>1, FS_CardinalityType
  <2> QED
    BY <1>2, <2>1, <2>2, <2>3
<1>9. ASSUME Update(a), Landed(a) PROVE Cardinality(E) >= Cardinality(D) + 1
  <2>1. PICK x \in Landings : x \in Done(a)' \ Done(a)
    BY <1>9, DoneStep
  <2>2. ~ Restart(a)
    BY <1>9, WebhookConstants DEF Update, Restart, Types
  <2>3. D \cup {<<a, x>>} \subseteq E
    BY <1>4, <1>6, <2>1, <2>2, DoneStep
  <2>4. Cardinality(D \cup {<<a, x>>}) = Cardinality(D) + 1
    BY <1>2, <1>6, <2>1, FS_AddElement
  <2> QED
    BY <1>2, <2>3, <2>4, FS_Subset
<1> QED
  BY <1>2, <1>7, <1>8, <1>9 DEF D, E

(* Nothing comes back: a fault or a restart is spent, and a replica is     *)
(* overtaken only by a landing, or by a write whose answer was an error.   *)
LEMMA Costs ==
  ASSUME Types, NEW a \in Replicas, Acts(a)
  PROVE  /\ budget' \in 0..budget /\ restarts' \in Nat /\ restarts' >= restarts
         /\ Restart(a) => restarts' = restarts + 1
         /\ \/ outdated' \subseteq outdated
            \/ Update(a) /\ (Landed(a) \/ budget' = budget - 1)
<1> USE DEF Fault, NoFault, object
<1>0. /\ budget \in 0..MaxFaults /\ restarts \in Nat /\ MaxFaults \in Nat
      /\ Restart(a) => restarts' = restarts + 1
  BY WebhookConstants DEF Types, Restart
<1>1. CASE Get(a)
  BY <1>0, <1>1 DEF Get
<1>2. CASE Update(a)
  BY <1>0, <1>2 DEF Update
<1>3. CASE Renew(a) \/ WriteKey(a) \/ WriteCert(a) \/ Guard(a) \/ Reload(a)
  BY <1>0, <1>3 DEF Renew, WriteKey, WriteCert, Guard, Reload
<1>4. CASE Restart(a)
  BY <1>0, <1>4 DEF Restart
<1> QED
  BY <1>1, <1>2, <1>3, <1>4 DEF Acts, Worker

(* For the acting replica, a lost attempt is a conflict already counted,   *)
(* or a fault.                                                             *)
LEMMA ActorTries ==
  ASSUME Types, NEW a \in Replicas, Acts(a), TriesInv(a), FilesInv(a),
         NEW f \in Nat, NEW g \in Nat, Excused(a, f), g = f + (budget - budget')
  PROVE  (~Updating(a)' => tries'[a] = 0) /\ Excused(a, g)'
<1> USE DEF Goto, files, update, StartUpdate, Updating
<1>1. DoneByOthers(a)' = DoneByOthers(a)
  <2>1. ASSUME NEW e \in Replicas \ {a} PROVE Done(e)' = Done(e)
    <3>1. Unmoved(e) /\ now' = now
      BY OthersUnmoved
    <3> QED
      BY <3>1 DEF Unmoved, Done
  <2> QED
    BY <2>1 DEF DoneByOthers
<1>2. Cardinality(DoneByOthers(a)) \in Nat
  BY DoneCount DEF DoneByOthers
<1>3. /\ stage \in [Replicas -> Stages] /\ DOMAIN read = Replicas
      /\ tries \in [Replicas -> Nat] /\ DOMAIN goal = Replicas
      /\ restarts \in Nat /\ budget \in Nat /\ MaxFaults \in Nat /\ budget <= MaxFaults
  BY WebhookConstants DEF Types
<1>4. /\ budget' \in Nat /\ budget' <= budget /\ restarts' \in Nat /\ restarts' >= restarts
  BY <1>3, Costs
<1>5. /\ ~ Updating(a)' => tries'[a] = 0
      /\ \/ Setbacks(a)' <= Setbacks(a)
         \/ Setbacks(a)' <= tries[a] + 1 /\ budget' = budget - 1
         \/ Setbacks(a)' = 0
  <2>1. CASE Get(a)
    BY <1>3, <2>1 DEF Get, Again, GivesIn, ClearUpdate, Setbacks, TriesInv, Fault
  <2>2. CASE Update(a)
    <3>1. CASE Landed(a)
      BY <1>3, <2>2, <3>1 DEF Update, Landed, ClearUpdate, Setbacks
    <3>2. CASE (Again(a) \/ GivesIn(a)) /\ a \in outdated
      BY <1>3, <2>2, <3>2 DEF Update, Again, GivesIn, ClearUpdate, Setbacks
    <3>3. CASE (Again(a) \/ GivesIn(a)) /\ budget' = budget - 1
      BY <1>3, <2>2, <3>3 DEF Update, Again, GivesIn, ClearUpdate, Setbacks
    <3> QED
      BY <2>2, <3>1, <3>2, <3>3 DEF Update, Conflict, Fault
  <2>3. CASE Renew(a) \/ WriteKey(a) \/ WriteCert(a)
    BY <1>3, <2>3 DEF Renew, WriteKey, WriteCert, Setbacks, TriesInv
  <2>4. CASE Guard(a) \/ Restart(a)
    BY <1>3, <2>4 DEF Guard, Restart, ClearUpdate, Setbacks, TriesInv
  <2>5. CASE Reload(a)
    BY <1>3, <2>5 DEF Reload, object, Setbacks, TriesInv
  <2> QED
    BY <2>1, <2>2, <2>3, <2>4, <2>5 DEF Acts, Worker
<1>6. Setbacks(a) \in Nat /\ tries[a] <= Setbacks(a) /\ Setbacks(a)' \in Nat
  <2>1. tries'[a] \in Nat
    BY TypesStep DEF Next, Acts, Types
  <2> QED
    BY <1>3, <2>1 DEF Setbacks
<1>7. Setbacks(a)' <= Cardinality(DoneByOthers(a)) + restarts' + g
  BY <1>2, <1>3, <1>4, <1>5, <1>6 DEF Excused
<1> QED
  BY <1>1, <1>5, <1>7 DEF Excused

(* For the others, it is one more of the acting replica's landings.        *)
LEMMA BystanderTries ==
  ASSUME Types, Validity >= 3, NEW a \in Replicas, Acts(a), DueInv(a), FilesInv(a),
         NEW r \in Replicas, r # a,
         NEW f \in Nat, NEW g \in Nat, Excused(r, f), g = f + (budget - budget')
  PROVE  Excused(r, g)'
<1> DEFINE before == Cardinality(DoneByOthers(r))
           after == Cardinality(DoneByOthers(r)')
<1>1. Unmoved(r)
  BY OthersUnmoved
<1>2. /\ before \in Nat /\ after \in Nat
      /\ ~ Restart(a) => after >= before
      /\ after + 1 >= before
      /\ Update(a) /\ Landed(a) => after >= before + 1
  BY DoneByOthersStep
<1>3. /\ tries[r] \in Nat /\ restarts \in Nat /\ budget \in Nat /\ MaxFaults \in Nat
      /\ budget <= MaxFaults
  BY WebhookConstants DEF Types
<1>4. /\ budget' \in Nat /\ budget' <= budget /\ restarts' \in Nat /\ restarts' >= restarts
      /\ Restart(a) => restarts' = restarts + 1
      /\ \/ outdated' \subseteq outdated
         \/ Update(a) /\ (Landed(a) \/ budget' = budget - 1)
      /\ ~ (Update(a) /\ Restart(a))
  BY <1>3, Costs DEF Update, Restart
<1> HIDE DEF before, after
<1>5. Setbacks(r) \in Nat /\ Setbacks(r)' \in Nat /\ Setbacks(r)' <= Setbacks(r) + 1
  BY <1>1, <1>3 DEF Setbacks, Unmoved
<1>6. outdated' \subseteq outdated => Setbacks(r)' <= Setbacks(r)
  BY <1>1, <1>3 DEF Setbacks, Unmoved
<1>7. Setbacks(r) <= before + restarts + f
  BY DEF Excused, before
<1>8. Setbacks(r)' <= after + restarts' + g
  BY <1>2, <1>3, <1>4, <1>5, <1>6, <1>7
<1> QED
  BY <1>8 DEF Excused, after

(* No replica loses more attempts than the others and the faults cost it.  *)
LEMMA ExcusedStep ==
  ASSUME Types, Validity >= 3, [Next]_vars,
         \A r \in Replicas : DueInv(r) /\ FilesInv(r) /\ TriesInv(r),
         NEW r \in Replicas,
         NEW f \in Nat, NEW g \in Nat, Excused(r, f), g = f + (budget - budget')
  PROVE  (~Updating(r)' => tries'[r] = 0) /\ Excused(r, g)'
<1>1. ASSUME NEW a \in Replicas, Acts(a), a = r
      PROVE  (~Updating(r)' => tries'[r] = 0) /\ Excused(r, g)'
  BY <1>1, ActorTries
<1>2. ASSUME NEW a \in Replicas, Acts(a), a # r
      PROVE  (~Updating(r)' => tries'[r] = 0) /\ Excused(r, g)'
  <2>1. Unmoved(r)
    BY <1>2, OthersUnmoved
  <2> QED
    BY <1>2, <2>1, BystanderTries DEF TriesInv, Unmoved, Updating
<1>3. CASE Tick
  <2>1. /\ stage' = stage /\ tries' = tries /\ stage[r] = "wait"
        /\ restarts' = restarts /\ budget' = budget
    BY <1>3 DEF Tick, update
  <2>2. Setbacks(r)' = 0
    BY <2>1 DEF TriesInv, Updating, Setbacks
  <2>3. Cardinality(DoneByOthers(r)') \in Nat
    <3>1. DoneByOthers(r)' \in SUBSET ((Replicas \ {r}) \X Landings)
      BY DEF DoneByOthers, Landings
    <3> QED
      BY <3>1, DoneCount
  <2>4. restarts \in Nat
    BY WebhookConstants DEF Types
  <2> QED
    BY <2>1, <2>2, <2>3, <2>4 DEF TriesInv, Updating, Excused
<1>4. CASE UNCHANGED vars
  <2>1. DoneByOthers(r)' = DoneByOthers(r)
    BY <1>4 DEF vars, DoneByOthers, Done, Updating
  <2>2. budget \in Nat
    BY WebhookConstants DEF Types
  <2> QED
    BY <1>4, <2>1, <2>2 DEF vars, TriesInv, Setbacks, Updating, Excused
<1> QED
  BY <1>1, <1>2, <1>3, <1>4 DEF Next, Acts

(* In particular none loses more than all the faults there were.           *)
LEMMA TriesStep ==
  ASSUME Types, Validity >= 3, [Next]_vars,
         \A r \in Replicas : DueInv(r) /\ FilesInv(r) /\ TriesInv(r)
  PROVE  \A r \in Replicas : TriesInv(r)'
<1> SUFFICES ASSUME NEW r \in Replicas PROVE TriesInv(r)'
  OBVIOUS
<1>0. budget \in 0..MaxFaults /\ budget' \in 0..MaxFaults /\ MaxFaults \in Nat
  BY TypesStep, WebhookConstants DEF Types
<1>1. /\ budget \in Nat /\ budget' \in Nat /\ MaxFaults \in Nat
      /\ MaxFaults - budget \in Nat /\ MaxFaults - budget' \in Nat
  <2>1. \A b \in 0..MaxFaults : b \in Nat /\ MaxFaults - b \in Nat
    BY WebhookConstants
  <2> QED
    BY <1>0, <2>1
<1>2. PICK f \in Nat : f = MaxFaults - budget
  BY <1>1, Zenon
<1>3. PICK g \in Nat : g = MaxFaults - budget'
  BY <1>1, Zenon
<1>4. g = f + (budget - budget')
  BY <1>1, <1>2, <1>3
<1>5. Excused(r, f)
  BY <1>2 DEF TriesInv
<1>6. (~Updating(r)' => tries'[r] = 0) /\ Excused(r, g)'
  BY <1>4, <1>5, ExcusedStep
<1> QED
  BY <1>3, <1>6 DEF TriesInv, Excused

(* While they are few, only a fault can exhaust the attempts.              *)
LEMMA PatientRetries ==
  ASSUME Types, NEW r \in Replicas, Excused(r, 0), Patient, stage[r] = "update", r \in outdated
  PROVE  AttemptsLeft(r)
<1>1. /\ Cardinality(DoneByOthers(r)) \in Nat /\ Cardinality(Replicas) \in Nat
      /\ Cardinality(DoneByOthers(r)) <= 2 * (Cardinality(Replicas) - 1)
  BY DoneCount DEF DoneByOthers
<1>2. /\ tries[r] \in Nat /\ restarts \in Nat /\ Attempts \in Nat
  BY WebhookConstants DEF Types
<1> QED
  BY <1>1, <1>2 DEF Excused, Setbacks, Patient, AttemptsLeft

(* What has been spent stays spent.                                        *)
LEMMA PatientBefore ==
  ASSUME Types, [Next]_vars, Patient'
  PROVE  /\ Patient /\ budget' <= budget /\ budget \in Nat /\ budget' \in Nat
         /\ restarts' >= restarts /\ restarts \in Nat /\ restarts' \in Nat
<1>1. /\ budget' \in Nat /\ budget' <= budget /\ restarts' \in Nat /\ restarts' >= restarts
      /\ budget \in Nat /\ restarts \in Nat
  <2>0. budget \in Nat /\ restarts \in Nat
    BY WebhookConstants DEF Types
  <2>1. CASE \E a \in Replicas : Acts(a)
    BY <2>0, <2>1, Costs
  <2>2. CASE Tick \/ UNCHANGED vars
    BY <2>0, <2>2 DEF Tick, vars
  <2> QED
    BY <2>1, <2>2 DEF Next, Acts
<1>2. MaxFaults \in Nat /\ Attempts \in Nat /\ Cardinality(Replicas) \in Nat
  BY WebhookConstants, FS_CardinalityType
<1> QED
  BY <1>1, <1>2 DEF Patient

-----------------------------------------------------------------------------
(* Age: how long before the next tick a replica's serving certificate was  *)
(* made.  A rotation under way is one interval later than a finished one,  *)
(* and so is one that failed.                                              *)

Lag(r) ==
  IF stage[r] = "wait" \/ (Updating(r) /\ goal[r] # "union") THEN Interval ELSE Interval + Interval

Behind(r, d) == served[r].notAfter + d = due[r] + Validity

AgeInv(r) ==
  budget + 1 >= MaxFaults /\ Patient =>
    \/ Behind(r, Lag(r))
    \/ budget < MaxFaults /\ Behind(r, Lag(r) + Interval) /\ Excused(r, 0)
    \/ stage[r] = "guard" /\ Behind(r, Interval)

(* A replica that is excused stays so while nothing fails, and is whenever *)
(* no update of its is under way.                                          *)
LEMMA ExcusedKept ==
  ASSUME Types, Validity >= 3, [Next]_vars,
         \A r \in Replicas : DueInv(r) /\ FilesInv(r) /\ TriesInv(r),
         NEW r \in Replicas
  PROVE  /\ Excused(r, 0) /\ budget' = budget => Excused(r, 0)'
         /\ ~ Updating(r) => Excused(r, 0)
         /\ ~ Updating(r)' => Excused(r, 0)'
<1>1. budget \in Nat /\ restarts \in Nat /\ restarts' \in Nat
  BY TypesStep, WebhookConstants DEF Types
<1>2. Cardinality(DoneByOthers(r)) \in Nat /\ Cardinality(DoneByOthers(r)') \in Nat
  <2>1. /\ DoneByOthers(r) \in SUBSET ((Replicas \ {r}) \X Landings)
        /\ DoneByOthers(r)' \in SUBSET ((Replicas \ {r}) \X Landings)
    BY DEF DoneByOthers, Landings
  <2> QED
    BY <2>1, DoneCount
<1>3. ASSUME Excused(r, 0), budget' = budget PROVE Excused(r, 0)'
  <2>1. 0 \in Nat /\ 0 = 0 + (budget - budget')
    BY <1>1, <1>3
  <2> QED
    BY <1>3, <2>1, ExcusedStep
<1>4. ~ Updating(r) => Excused(r, 0)
  BY <1>1, <1>2 DEF TriesInv, Excused, Setbacks, Updating
<1>5. ~ Updating(r)' => Excused(r, 0)'
  <2>1. TriesInv(r)'
    BY TriesStep
  <2> QED
    BY <1>1, <1>2, <2>1 DEF TriesInv, Excused, Setbacks, Updating
<1> QED
  BY <1>3, <1>4, <1>5

(* An attempt that fails costs one interval, and the budget; a conflict    *)
(* costs neither.                                                          *)
LEMMA AgeUpdate ==
  ASSUME Types, Patient, Patient', NEW r \in Replicas, Get(r) \/ Update(r),
         DueInv(r), TriesInv(r), AgeInv(r),
         Excused(r, 0) /\ budget' = budget => Excused(r, 0)',
         ~ Updating(r)' => Excused(r, 0)'
  PROVE  AgeInv(r)'
<1> USE DEF Updating, Fault, NoFault, Goto
<1>0. /\ stage \in [Replicas -> Stages] /\ goal \in [Replicas -> {"stamp", "union", "trim"}]
      /\ DOMAIN due = Replicas /\ due[r] \in Nat /\ served[r].notAfter \in Nat
      /\ budget \in Nat /\ MaxFaults \in Nat /\ budget <= MaxFaults
      /\ Interval \in Nat /\ Validity \in Nat /\ now \in Nat
  BY IntervalType, WebhookConstants DEF Types, CAs
<1>1. /\ served' = served /\ stage[r] \in {"get", "update"}
      /\ budget' = budget \/ budget' = budget - 1
  BY DEF Get, Update, files
<1>2. CASE /\ goal' = goal /\ due' = due
           /\ \/ stage'[r] \in {"get", "update"}
              \/ stage'[r] = "wait" /\ (budget' = budget - 1 \/ goal[r] # "union")
              \/ stage'[r] = "wait" /\ budget < MaxFaults /\ ~ Excused(r, 0)
              \/ stage'[r] = "key" /\ goal[r] = "union"
  BY <1>0, <1>1, <1>2 DEF AgeInv, Lag, Behind
<1>3. CASE stage'[r] = "wait" /\ goal[r] # "union" /\ due'[r] = now + Interval
  BY <1>0, <1>1, <1>3 DEF AgeInv, Lag, Behind, DueInv
<1>4. Get(r) => \/ goal' = goal /\ due' = due /\ stage'[r] \in {"get", "update"}
                \/ goal' = goal /\ due' = due /\ stage'[r] = "wait" /\ budget' = budget - 1
  BY <1>0 DEF Get, Again, GivesIn
<1>5. Update(r) /\ Landed(r)
        => \/ stage'[r] = "wait" /\ goal[r] # "union" /\ due'[r] = now + Interval
           \/ goal' = goal /\ due' = due /\ stage'[r] = "key" /\ goal[r] = "union"
           \/ goal' = goal /\ due' = due /\ stage'[r] = "wait" /\ goal[r] # "union"
  BY <1>0 DEF Landed
<1>6. Update(r) /\ ~ Landed(r)
        => /\ goal' = goal /\ due' = due
           /\ \/ stage'[r] = "get"
              \/ stage'[r] = "wait" /\ budget' = budget - 1
              \/ stage'[r] = "wait" /\ budget < MaxFaults /\ ~ Excused(r, 0)
  <2>1. Update(r) /\ Conflict(r) => AttemptsLeft(r) \/ (budget < MaxFaults /\ ~ Excused(r, 0))
    <3>1. Update(r) /\ Conflict(r) /\ Excused(r, 0) => AttemptsLeft(r)
      BY PatientRetries DEF Update, Conflict
    <3>2. budget = MaxFaults => Excused(r, 0)
      BY <1>0 DEF TriesInv, Excused
    <3> QED
      BY <1>0, <3>1, <3>2
  <2> QED
    BY <1>0, <2>1 DEF Update, Again, GivesIn
<1> QED
  BY <1>2, <1>3, <1>4, <1>5, <1>6

(* A rotation starts one interval later, and ends where the last one did.  *)
LEMMA AgeRotation ==
  ASSUME Types, PromptReload, Patient, Patient', NEW r \in Replicas, DueInv(r), FilesInv(r), AgeInv(r),
         Excused(r, 0) /\ budget' = budget => Excused(r, 0)',
         ~ Updating(r)' => Excused(r, 0)',
         ~ Updating(r) => Excused(r, 0),
         \/ Renew(r) \/ WriteKey(r) \/ WriteCert(r) \/ Guard(r)
         \/ Reload(r) \/ Restart(r)
  PROVE  AgeInv(r)'
<1> USE DEF Updating, Fault, NoFault, Goto, files, update, StartUpdate, AgeInv, Lag, Behind
<1>0. /\ stage \in [Replicas -> Stages] /\ goal \in [Replicas -> {"stamp", "union", "trim"}]
      /\ DOMAIN due = Replicas /\ DOMAIN served = Replicas
      /\ due[r] \in Nat /\ served[r].notAfter \in Nat
      /\ budget \in Nat /\ MaxFaults \in Nat /\ budget <= MaxFaults
      /\ Interval \in Nat /\ Validity \in Nat /\ now \in Nat
  BY IntervalType, WebhookConstants DEF Types, CAs
<1>1. CASE Renew(r)
  BY <1>0, <1>1 DEF Renew, DueInv
<1>2. CASE WriteKey(r)
  BY <1>0, <1>2 DEF WriteKey
<1>3. CASE WriteCert(r)
  BY <1>0, <1>3 DEF WriteCert
<1>4. CASE Guard(r)
  BY <1>0, <1>4 DEF Guard, GuardElapsed, DueInv
<1>5. CASE Reload(r)
  <2>1. stage[r] = "guard" /\ served'[r] = fresh[r]
    BY <1>0, <1>5 DEF Reload, Reloadable, FilesInv
  <2> QED
    BY <1>0, <1>5, <2>1 DEF Reload, DueInv
<1>6. CASE Restart(r)
  BY <1>0, <1>6 DEF Restart, Generate
<1> QED
  BY <1>1, <1>2, <1>3, <1>4, <1>5, <1>6

(* Nor do the steps of others, or the clock, make a replica late.          *)
LEMMA AgeStep ==
  ASSUME Types, PromptReload, Validity >= 3, [Next]_vars,
         \A r \in Replicas : DueInv(r) /\ FilesInv(r) /\ TriesInv(r) /\ AgeInv(r)
  PROVE  \A r \in Replicas : AgeInv(r)'
<1> SUFFICES ASSUME NEW r \in Replicas PROVE AgeInv(r)'
  OBVIOUS
<1>1. SUFFICES ASSUME Patient' PROVE AgeInv(r)'
  BY DEF AgeInv
<1>2. Patient /\ budget' <= budget /\ budget \in Nat /\ budget' \in Nat
  BY <1>1, PatientBefore
<1>3. /\ Excused(r, 0) /\ budget' = budget => Excused(r, 0)'
      /\ ~ Updating(r) => Excused(r, 0)
      /\ ~ Updating(r)' => Excused(r, 0)'
  BY ExcusedKept
<1>4. ASSUME Acts(r) PROVE AgeInv(r)'
  BY <1>1, <1>2, <1>3, <1>4, AgeUpdate, AgeRotation DEF Acts, Worker
<1>5. CASE UNCHANGED <<stage, goal, due, served>> \/ \E e \in Replicas : Acts(e) /\ e # r
  <2>1. /\ stage'[r] = stage[r] /\ goal'[r] = goal[r] /\ due'[r] = due[r] /\ served'[r] = served[r]
    BY <1>5, OthersUnmoved DEF Unmoved
  <2>2. MaxFaults \in Nat /\ budget <= MaxFaults
    BY WebhookConstants DEF Types
  <2>3. budget < MaxFaults /\ budget' + 1 >= MaxFaults => budget' = budget
    <3>1. \A b, c, m \in Nat : c <= b /\ b < m /\ c + 1 >= m => c = b
      OBVIOUS
    <3> QED
      BY <1>2, <2>2, <3>1
  <2>4. budget' + 1 >= MaxFaults => budget + 1 >= MaxFaults
    <3>1. \A b, c, m \in Nat : c <= b /\ c + 1 >= m => b + 1 >= m
      OBVIOUS
    <3> QED
      BY <1>2, <2>2, <3>1
  <2>5. budget < MaxFaults => budget' < MaxFaults
    <3>1. \A b, c, m \in Nat : c <= b /\ b < m => c < m
      OBVIOUS
    <3> QED
      BY <1>2, <2>2, <3>1
  <2>6. Lag(r)' = Lag(r)
    BY <2>1 DEF Lag, Updating
  <2>7. /\ Behind(r, Lag(r)) => Behind(r, Lag(r))'
        /\ Behind(r, Lag(r) + Interval) => Behind(r, Lag(r) + Interval)'
        /\ Behind(r, Interval) => Behind(r, Interval)'
    BY <2>1, <2>6 DEF Behind
  <2>8. ASSUME budget' + 1 >= MaxFaults
        PROVE  \/ Behind(r, Lag(r))'
               \/ budget' < MaxFaults /\ Behind(r, Lag(r) + Interval)' /\ Excused(r, 0)'
               \/ stage'[r] = "guard" /\ Behind(r, Interval)'
    <3>1. CASE Behind(r, Lag(r))
      BY <2>7, <3>1
    <3>2. CASE budget < MaxFaults /\ Behind(r, Lag(r) + Interval) /\ Excused(r, 0)
      BY <1>3, <2>3, <2>5, <2>7, <2>8, <3>2
    <3>3. CASE stage[r] = "guard" /\ Behind(r, Interval)
      BY <2>1, <2>7, <3>3
    <3> QED
      BY <1>2, <2>4, <2>8, <3>1, <3>2, <3>3 DEF AgeInv
  <2> QED
    BY <2>8 DEF AgeInv
<1>6. [Next]_vars => \/ Acts(r) \/ \E e \in Replicas : Acts(e) /\ e # r
                     \/ UNCHANGED <<stage, goal, due, served>>
  BY DEF Next, Acts, Tick, vars, update, files
<1> QED
  BY <1>4, <1>5, <1>6

(* A certificate two intervals behind, three within a rotation, is valid.  *)
LEMMA AgeFresh ==
  ASSUME Types, Patient, budget + 1 >= MaxFaults,
         NEW r \in Replicas, DueInv(r), AgeInv(r)
  PROVE  served[r].notAfter > now
<1>1. /\ due[r] \in Nat /\ served[r].notAfter \in Nat /\ now \in Nat
      /\ Interval \in Nat /\ 3 * Interval <= Validity /\ Validity \in Nat \ {0}
  BY IntervalType DEF Types, CAs
<1>2. CASE stage[r] = "wait"
  BY <1>1, <1>2 DEF AgeInv, Lag, Behind, DueInv
<1>3. CASE stage[r] # "wait"
  BY <1>1, <1>3 DEF AgeInv, Lag, Behind, DueInv
<1> QED
  BY <1>2, <1>3

RenewalInv ==
  /\ Types /\ TrustedInv
  /\ \A r \in Replicas : DueInv(r) /\ TriesInv(r) /\ AgeInv(r)

(* The replicas start in time, and stay so.                                *)
LEMMA RenewalInit == Init => RenewalInv
<1> SUFFICES ASSUME Init PROVE RenewalInv
  OBVIOUS
<1>1. Types /\ TrustedInv
  BY TypesInit, TrustedInit
<1>2. ASSUME NEW r \in Replicas PROVE DueInv(r) /\ TriesInv(r) /\ AgeInv(r)
  <2>1. Cardinality(DoneByOthers(r)) \in Nat
    BY DoneCount DEF DoneByOthers, Landings
  <2>2. Interval \in Nat /\ Validity \in Nat /\ MaxFaults \in Nat
    BY IntervalType, WebhookConstants
  <2>3. /\ stage[r] = "get" /\ goal[r] = "stamp" /\ tries[r] = 0 /\ now = 0 /\ due[r] = Interval
        /\ served[r].notAfter = 0 + Validity /\ fresh[r].notAfter = 0 + Validity
        /\ budget = MaxFaults /\ restarts = 0
    BY DEF Init, Generate
  <2>4. DueInv(r) /\ AgeInv(r)
    BY <2>2, <2>3 DEF DueInv, AgeInv, Lag, Behind, Updating
  <2>5. TriesInv(r)
    BY <2>1, <2>2, <2>3 DEF TriesInv, Setbacks, Excused
  <2> QED
    BY <2>4, <2>5
<1> QED
  BY <1>1, <1>2 DEF RenewalInv

(* Every step of an interval of at least one unit keeps it.                *)
LEMMA RenewalStep ==
  ASSUME PromptReload, Validity >= 3, RenewalInv, [Next]_vars
  PROVE  RenewalInv'
<1>1. /\ Types /\ TrustedInv
      /\ \A r \in Replicas : DueInv(r) /\ FilesInv(r) /\ TriesInv(r) /\ AgeInv(r)
  BY DEF RenewalInv, TrustedInv, ReplicaInv
<1>2. Types' /\ TrustedInv'
  BY <1>1, TypesStep, TrustedStep
<1>3. \A r \in Replicas : DueInv(r)' /\ TriesInv(r)' /\ AgeInv(r)'
  BY <1>1, DueStep, TriesStep, AgeStep
<1> QED
  BY <1>2, <1>3 DEF RenewalInv

(* One failed rotation is made up for before the certificate expires       *)
(* (Renewer.Run's ticker at a third of the validity, retry.OnError), when  *)
(* the attempts outnumber the landings that can conflict within one        *)
(* instant: two of every other replica's, and one more for each restart.   *)
THEOREM ServedAlwaysFresh ==
  ASSUME PromptReload, Validity >= 3, 2 * (Cardinality(Replicas) - 1) + MaxRestarts < Attempts
  PROVE  Spec => []ServedFresh
<1>1. Init => RenewalInv
  BY RenewalInit
<1>2. RenewalInv /\ [Next]_vars => RenewalInv'
  BY RenewalStep
<1>3. RenewalInv => ServedFresh
  <2> SUFFICES ASSUME RenewalInv, budget + 1 >= MaxFaults, NEW r \in Replicas
               PROVE  served[r].notAfter > now
    BY DEF ServedFresh
  <2>1. Cardinality(Replicas) \in Nat /\ MaxRestarts \in Nat /\ Attempts \in Nat
    BY WebhookConstants, FS_CardinalityType
  <2>2. restarts \in 0..MaxRestarts
    BY DEF RenewalInv, Types
  <2>3. Patient
    BY <2>1, <2>2 DEF Patient
  <2> QED
    BY <2>3, AgeFresh DEF RenewalInv
<1> QED
  BY <1>1, <1>2, <1>3, PTL DEF Spec

-----------------------------------------------------------------------------
(* Convergence: while nothing fails, the bundle holds of every replica the *)
(* CAs that its place in the rotation calls for, and no other.             *)

Clean == budget = MaxFaults /\ restarts = 0 /\ Patient

Has(r) == {ca \in caBundle : ca.owner = r}

Calls(r) ==
  IF Stamping(r) THEN {}
  ELSE IF stage[r] = "wait" \/ (Updating(r) /\ goal[r] = "union") THEN {CurrentCA[r]}
  ELSE {CurrentCA[r], fresh[r]}

BundleInv(r) ==
  Clean =>
    /\ Has(r) = Calls(r)
    /\ stage[r] = "update" => {ca \in read[r] : ca.owner = r} = Has(r)
    /\ Stamping(r) => CurrentCA[r] = fresh[r]
    /\ stage[r] = "wait" => served[r] = CurrentCA[r]
    /\ stage[r] # "wait" => CurrentCA[r].notAfter > now

(* None of them has expired, so that no merge drops one.                   *)
LEMMA HasUnexpired ==
  ASSUME Types, Clean, NEW r \in Replicas, DueInv(r), AgeInv(r), BundleInv(r)
  PROVE  \A ca \in Has(r) : ca.notAfter > now
<1>1. served[r].notAfter > now
  <2>1. budget + 1 >= MaxFaults
    BY WebhookConstants DEF Types, Clean
  <2> QED
    BY <2>1, AgeFresh DEF Clean
<1>2. stage[r] # "wait" => fresh[r].notAfter > now
  BY WebhookConstants DEF Types, DueInv
<1>3. Has(r) = Calls(r)
  BY DEF BundleInv
<1> QED
  BY <1>1, <1>2, <1>3 DEF BundleInv, Calls, Stamping, Updating

(* A replica's write takes none of another's CAs out and puts none in.     *)
LEMMA OthersHave ==
  ASSUME Types, NEW r \in Replicas, Acts(r), Own(r), ReadInv(r),
         NEW e \in Replicas, e # r, \A ca \in Has(e) : ca.notAfter > now
  PROVE  Has(e)' = Has(e)
<1>1. CASE Writes(r)
  <2>1. caBundle' = {ca \in caBundle \ Superseded(r) : ca.notAfter > now} \cup {fresh[r]}
    BY <1>1 DEF Writes, ReadInv, Merged, mergeCABundle
  <2>2. \A ca \in Superseded(r) : ca.owner = r
    BY DEF Superseded, Own
  <2> QED
    BY <2>1, <2>2 DEF Has, Own
<1>2. CASE caBundle' = caBundle
  BY <1>2 DEF Has
<1> QED
  BY <1>1, <1>2, ObjectMoves

(* A landed update has taken the superseded CA out and put the fresh one   *)
(* in, whether it was sent or there was nothing to send.                   *)
LEMMA LandedHas ==
  ASSUME Types, NEW r \in Replicas, Own(r), \A ca \in Has(r) : ca.notAfter > now,
         {ca \in read[r] : ca.owner = r} = Has(r),
         caBundle' = Merged(r) \/ (Merged(r) = read[r] /\ caBundle' = caBundle)
  PROVE  Has(r)' = (Has(r) \ Superseded(r)) \cup {fresh[r]}
<1>1. Merged(r) = {ca \in read[r] \ Superseded(r) : ca.notAfter > now} \cup {fresh[r]}
  BY DEF Merged, mergeCABundle
<1>2. {ca \in Merged(r) : ca.owner = r} = (Has(r) \ Superseded(r)) \cup {fresh[r]}
  <2>1. /\ \A ca \in read[r] : ca.owner = r => ca \in Has(r)
        /\ \A ca \in Has(r) : ca \in read[r] /\ ca.owner = r /\ ca.notAfter > now
    OBVIOUS
  <2> QED
    BY <1>1, <2>1 DEF Own
<1>3. CASE caBundle' = Merged(r)
  BY <1>2, <1>3 DEF Has
<1>4. CASE Merged(r) = read[r] /\ caBundle' = caBundle
  BY <1>2, <1>4 DEF Has
<1> QED
  BY <1>3, <1>4

(* While nothing fails, an update lands or goes round again.               *)
LEMMA CleanUpdate ==
  ASSUME Types, Clean, Clean', NEW r \in Replicas, Update(r), TriesInv(r)
  PROVE  \/ /\ Landed(r)
            /\ caBundle' = Merged(r) \/ (Merged(r) = read[r] /\ caBundle' = caBundle)
         \/ /\ stage'[r] = "get" /\ caBundle' = caBundle
            /\ goal' = goal /\ CurrentCA' = CurrentCA
<1>1. budget' = budget /\ budget \in Nat /\ budget = MaxFaults
  BY WebhookConstants DEF Clean
<1>2. Conflict(r) => AttemptsLeft(r)
  <2>1. stage[r] = "update"
    BY DEF Update
  <2>2. Excused(r, 0)
    BY <1>1 DEF TriesInv, Excused
  <2> QED
    BY <2>1, <2>2, PatientRetries DEF Clean, Conflict
<1>3. DOMAIN stage = Replicas
  BY DEF Types
<1> QED
  BY <1>1, <1>2, <1>3 DEF Update, Fault, Again, Goto, object

(* Each step of a clean rotation leaves what the next stage calls for.     *)
LEMMA BundleActor ==
  ASSUME Types, Clean, Clean', NEW r \in Replicas, Acts(r), ReplicaInv(r),
         DueInv(r), TriesInv(r), AgeInv(r), BundleInv(r)
  PROVE  BundleInv(r)'
<1> USE DEF Updating, Stamping, Goto, object, files, update, StartUpdate, Calls
<1>0. /\ stage \in [Replicas -> Stages] /\ goal \in [Replicas -> {"stamp", "union", "trim"}]
      /\ DOMAIN read = Replicas /\ DOMAIN CurrentCA = Replicas /\ DOMAIN fresh = Replicas
      /\ DOMAIN served = Replicas
      /\ now' = now
  BY DEF Types, Acts, Worker, Get, Update, Renew, WriteKey, WriteCert, Guard, Reload, Restart
<1>1. /\ Has(r) = Calls(r)
      /\ stage[r] = "update" => {ca \in read[r] : ca.owner = r} = Has(r)
      /\ Stamping(r) => CurrentCA[r] = fresh[r]
      /\ stage[r] = "wait" => served[r] = CurrentCA[r]
      /\ stage[r] # "wait" => CurrentCA[r].notAfter > now
      /\ Own(r) /\ FilesInv(r)
  BY DEF BundleInv, ReplicaInv
<1>2. ~ Fault /\ ~ Restart(r)
  BY WebhookConstants DEF Clean, Fault, Restart
<1>3. \A ca \in Has(r) : ca.notAfter > now
  BY HasUnexpired
<1>4. CASE Get(r)
  <2>1. /\ stage'[r] = "update" /\ goal' = goal /\ read'[r] = caBundle /\ stage[r] = "get"
        /\ UNCHANGED <<caBundle, CurrentCA, fresh, served>>
    BY <1>0, <1>2, <1>4 DEF Get
  <2> QED
    BY <1>0, <1>1, <2>1 DEF BundleInv, Has
<1>5. CASE Update(r)
  <2>0. stage[r] = "update" /\ fresh' = fresh /\ served' = served
    BY <1>5 DEF Update
  <2>1. CASE /\ stage'[r] = "get" /\ caBundle' = caBundle
             /\ goal' = goal /\ CurrentCA' = CurrentCA
    BY <1>0, <1>1, <2>0, <2>1 DEF BundleInv, Has
  <2>2. CASE /\ Landed(r)
             /\ caBundle' = Merged(r) \/ (Merged(r) = read[r] /\ caBundle' = caBundle)
    <3>1. Has(r)' = (Has(r) \ Superseded(r)) \cup {fresh[r]}
      BY <1>1, <1>3, <2>0, <2>2, LandedHas
    <3>2. goal[r] # "union" => served[r] = fresh[r]
      BY <1>0, <1>1, <2>0 DEF FilesInv, Trimming
    <3>3. CASE goal[r] = "stamp"
      <4>1. stage'[r] = "wait" /\ CurrentCA' = CurrentCA
        BY <1>0, <2>2, <3>3 DEF Landed
      <4> QED
        BY <1>0, <1>1, <2>0, <3>1, <3>2, <3>3, <4>1 DEF BundleInv, Superseded
    <3>4. CASE goal[r] = "union"
      <4>1. stage'[r] = "key" /\ CurrentCA' = CurrentCA
        BY <1>0, <2>2, <3>4 DEF Landed
      <4> QED
        BY <1>0, <1>1, <2>0, <3>1, <3>4, <4>1 DEF BundleInv, Superseded
    <3>5. CASE goal[r] = "trim"
      <4>1. stage'[r] = "wait" /\ CurrentCA'[r] = fresh[r]
        BY <1>0, <2>2, <3>5 DEF Landed
      <4> QED
        BY <1>0, <1>1, <2>0, <3>1, <3>2, <3>5, <4>1 DEF BundleInv, Superseded
    <3> QED
      BY <1>0, <3>3, <3>4, <3>5
  <2> QED
    BY <1>5, <2>1, <2>2, CleanUpdate
<1>6. CASE Renew(r)
  <2>1. /\ stage[r] = "wait" /\ stage'[r] = "get" /\ goal'[r] = "union"
        /\ UNCHANGED <<caBundle, CurrentCA>>
    BY <1>0, <1>6 DEF Renew
  <2>2. Has(r) = {CurrentCA[r]}
    BY <1>1, <2>1
  <2>3. CurrentCA[r].notAfter > now
    BY <1>3, <2>2
  <2> QED
    BY <1>0, <2>1, <2>2, <2>3 DEF BundleInv, Has
<1>7. CASE WriteKey(r) \/ WriteCert(r) \/ Guard(r)
  <2>1. /\ stage[r] \in {"key", "cert", "guard"}
        /\ stage'[r] \in {"cert", "guard"} \/ (stage'[r] = "get" /\ goal'[r] = "trim")
        /\ UNCHANGED <<caBundle, CurrentCA, fresh>>
    BY <1>0, <1>2, <1>7 DEF WriteKey, WriteCert, Guard
  <2> QED
    BY <1>0, <1>1, <2>1 DEF BundleInv, Has
<1>8. CASE Reload(r)
  <2>1. /\ stage[r] = "guard" /\ UNCHANGED <<caBundle, CurrentCA, fresh, stage, goal>>
    BY <1>0, <1>1, <1>8 DEF Reload, Reloadable, FilesInv
  <2> QED
    BY <1>0, <1>1, <2>1 DEF BundleInv, Has
<1> QED
  BY <1>2, <1>4, <1>5, <1>6, <1>7, <1>8 DEF Acts, Worker

(* The steps of others and the clock change nothing of it.                 *)
LEMMA BundleStep ==
  ASSUME PromptReload, Validity >= 3, RenewalInv, [Next]_vars, \A r \in Replicas : BundleInv(r)
  PROVE  \A r \in Replicas : BundleInv(r)'
<1>0. /\ Types
      /\ \A r \in Replicas : ReplicaInv(r) /\ DueInv(r) /\ TriesInv(r) /\ AgeInv(r)
  BY DEF RenewalInv, TrustedInv
<1> SUFFICES ASSUME NEW r \in Replicas, Clean' PROVE BundleInv(r)'
  BY DEF BundleInv
<1>1. Clean
  <2>1. /\ Patient /\ budget' <= budget /\ budget \in Nat /\ budget' \in Nat
        /\ restarts' >= restarts /\ restarts \in Nat /\ restarts' \in Nat
    BY <1>0, PatientBefore DEF Clean
  <2>2. budget <= MaxFaults /\ MaxFaults \in Nat /\ budget' = MaxFaults /\ restarts' = 0
    BY <1>0, WebhookConstants DEF Types, Clean
  <2>3. \A b, c \in Nat : c <= b /\ b <= c => b = c
    OBVIOUS
  <2> QED
    BY <2>1, <2>2, <2>3 DEF Clean
<1>2. ASSUME NEW a \in Replicas, Acts(a) PROVE BundleInv(r)'
  <2>1. CASE a = r
    BY <1>0, <1>1, <1>2, <2>1, BundleActor
  <2>2. CASE a # r
    <3>1. Unmoved(r) /\ now' = now
      BY <1>0, <1>2, <2>2, OthersUnmoved
    <3>2. \A ca \in Has(r) : ca.notAfter > now
      BY <1>0, <1>1, HasUnexpired
    <3>3. Has(r)' = Has(r)
      BY <1>0, <1>2, <2>2, <3>2, OthersHave DEF ReplicaInv
    <3> QED
      BY <1>1, <3>1, <3>3 DEF BundleInv, Unmoved, Calls, Stamping, Updating
  <2> QED
    BY <2>1, <2>2
<1>3. CASE Tick \/ UNCHANGED vars
  <2>1. /\ UNCHANGED <<caBundle, stage, goal, read, CurrentCA, fresh, served>>
        /\ now' = now \/ stage[r] = "wait"
    BY <1>3 DEF Tick, vars, object, update, files
  <2> QED
    BY <1>1, <2>1 DEF BundleInv, Has, Calls, Stamping, Updating
<1> QED
  BY <1>2, <1>3 DEF Next, Acts

(* When nothing has failed and everybody waits, the bundle is exactly the  *)
(* CAs in use: each replica has taken its own superseded ones out and      *)
(* nobody else's (mergeCABundle, Renewer.renewOnce).  The attempts must    *)
(* outnumber the others' landings within one instant: two of each.         *)
THEOREM AlwaysConverged ==
  ASSUME PromptReload, Validity >= 3, 2 * (Cardinality(Replicas) - 1) < Attempts
  PROVE  Spec => []Converged
<1> DEFINE Inv == RenewalInv /\ \A r \in Replicas : BundleInv(r)
<1>1. Init => Inv
  <2>1. ASSUME Init, NEW r \in Replicas PROVE BundleInv(r)
    <3>1. /\ stage[r] = "get" /\ goal[r] = "stamp" /\ caBundle = {} /\ CurrentCA = fresh
          /\ now = 0 /\ CurrentCA[r].notAfter = 0 + Validity
      BY <2>1 DEF Init, Generate
    <3>2. CurrentCA[r].notAfter > now
      BY <3>1, WebhookConstants
    <3> QED
      BY <3>1, <3>2 DEF BundleInv, Has, Calls, Stamping, Updating
  <2> QED
    BY <2>1, RenewalInit
<1>2. Inv /\ [Next]_vars => Inv'
  BY RenewalStep, BundleStep
<1>3. Inv => Converged
  <2> SUFFICES ASSUME Inv, \A r \in Replicas : stage[r] = "wait", budget = MaxFaults, restarts = 0
               PROVE  caBundle = {served[r] : r \in Replicas}
    BY DEF Converged
  <2>1. Clean
    <3>1. Cardinality(Replicas) \in Nat /\ Attempts \in Nat
      BY WebhookConstants, FS_CardinalityType
    <3> QED
      BY <3>1 DEF Clean, Patient
  <2>2. \A r \in Replicas : Has(r) = {served[r]}
    BY <2>1 DEF BundleInv, Calls, Stamping, Updating
  <2>3. \A ca \in caBundle : ca.owner \in Replicas
    BY DEF RenewalInv, Types, CAs
  <2> QED
    BY <2>2, <2>3 DEF Has
<1> HIDE DEF Inv
<1> QED
  BY <1>1, <1>2, <1>3, PTL DEF Spec

=============================================================================
