-------------------------- MODULE TenantAccess_proofs --------------------------
(***************************************************************************)
(* A credential that was evicted does not come back: for every number of   *)
(* snippets and workers, every lifetime and margin, and any number of      *)
(* recreations of the account and of failing calls.                        *)
(***************************************************************************)
EXTENDS TenantAccess, FiniteSetTheorems, TLAPS

Tokens == [uid : Nat, age : Nat]

IsEntry(c) == c = [token |-> c.token, refreshAge |-> c.refreshAge] /\ c.token \in Tokens
IsFlight(f) ==
  f = [phase |-> f.phase, token |-> f.token, intact |-> f.intact] /\ f.token \in Tokens
IsAccount(a) ==
  a = [uid |-> a.uid, exists |-> a.exists] /\ a.uid \in Nat \ {0} /\ a.exists \in BOOLEAN

(* The accounts that come after the last eviction. *)
Successor == IF account.exists THEN account.uid ELSE account.uid + 1

(* What the eviction left in charge is no later than the account that is   *)
(* there or comes next, so whatever is signed after it is not of an        *)
(* earlier one; a mint that was answered before it has lost its flag.      *)
TenantInv ==
  /\ IsAccount(account) /\ IsEntry(cached) /\ IsFlight(flight)
  /\ evicted \in Nat /\ evicted <= Successor
  /\ flight.phase = "answered" =>
       flight.token.uid > 0 /\ (flight.intact => flight.token.uid >= evicted)
  /\ cached = NoEntry \/ (cached.token.uid > 0 /\ cached.token.uid >= evicted)

(* An older token is a token of the same account.                          *)
LEMMA OlderSameAccount ==
  ASSUME NEW token \in Tokens
  PROVE  Older(token) \in Tokens /\ Older(token).uid = token.uid
BY DEF Older, Tokens

(* The empty entry and the idle flight are well formed.                    *)
LEMMA InitEntries == IsEntry(NoEntry) /\ IsFlight(NoFlight) /\ NoToken \in Tokens
BY DEF IsEntry, IsFlight, NoEntry, NoFlight, NoToken, Tokens

(* A lookup keeps the invariant, ...                                       *)
LEMMA LookupKeepsInv == ASSUME TenantInv, NEW s, Lookup(s) PROVE TenantInv'
<1>1. flight' = flight \/ flight' = [phase |-> "asked", token |-> NoToken, intact |-> TRUE]
  BY DEF Lookup
<1>2. IsFlight(flight') /\ (flight'.phase = "answered" => flight' = flight)
  BY <1>1, InitEntries DEF TenantInv, IsFlight
<1>3. UNCHANGED <<account, cached, evicted>>
  BY DEF Lookup
<1> QED
  BY <1>2, <1>3 DEF TenantInv, Successor

(* ... so does a mint, whichever calls share it, ...                       *)
LEMMA MintKeepsInv == ASSUME TenantInv, Mint PROVE TenantInv'
<1>1. CASE MintAnswers
  <2>1. PICK t : t = [uid |-> account.uid, age |-> 0]
    OBVIOUS
  <2>2. t \in Tokens /\ t.uid = account.uid /\ t.uid > 0
    BY <2>1 DEF TenantInv, IsAccount, Tokens
  <2>3. PICK f : f = [flight EXCEPT !.phase = "answered", !.token = t]
    OBVIOUS
  <2>4. IsFlight(f) /\ f.token = t
    BY <2>2, <2>3 DEF TenantInv, IsFlight
  <2>5. flight' = f /\ account.exists /\ UNCHANGED <<account, cached, evicted>>
    BY <1>1, <2>1, <2>3 DEF MintAnswers
  <2>6. t.uid >= evicted
    BY <2>2, <2>5 DEF TenantInv, Successor
  <2> QED
    BY <2>2, <2>4, <2>5, <2>6 DEF TenantInv, Successor
<1>2. CASE MintFails
  <2>1. flight' = NoFlight /\ NoFlight.phase = "none" /\ UNCHANGED <<account, cached, evicted>>
    BY <1>2 DEF MintFails, NoFlight
  <2> QED
    BY <2>1, InitEntries DEF TenantInv, Successor
<1>3. CASE MintLands
  <2>1. flight' = NoFlight /\ NoFlight.phase = "none" /\ UNCHANGED <<account, evicted>>
    BY <1>3 DEF MintLands, NoFlight
  <2>2. CASE cached' = cached
    BY <2>1, <2>2, InitEntries DEF TenantInv, Successor
  <2>3. ASSUME cached' # cached PROVE TenantInv'
    <3>1. PICK a : cached' = [token |-> flight.token, refreshAge |-> a] /\ Writes
      BY <1>3, <2>3 DEF MintLands
    <3>2. IsEntry(cached') /\ cached'.token = flight.token
      BY <3>1 DEF IsEntry, TenantInv, IsFlight
    <3>3. flight.phase = "answered" /\ flight.intact
      BY <1>3, <3>1 DEF MintLands, Writes
    <3> QED
      BY <2>1, <3>2, <3>3, InitEntries DEF TenantInv, Successor
  <2> QED
    BY <2>2, <2>3
<1> QED
  BY <1>1, <1>2, <1>3 DEF Mint

(* ... an eviction, which the counter tells a mint under way about, ...    *)
LEMMA ForgetKeepsInv == ASSUME TenantInv, NEW s, Forget(s) PROVE TenantInv'
<1>1. PICK f : f = [flight EXCEPT !.intact = FALSE]
  OBVIOUS
<1>2. IsFlight(f) /\ ~f.intact /\ f.phase = flight.phase /\ f.token = flight.token
  BY <1>1 DEF TenantInv, IsFlight
<1>3. cached' = NoEntry /\ flight' = f /\ evicted' = Successor /\ UNCHANGED account
  BY <1>1 DEF Forget, EntryAfterForget, Successor
<1>4. Successor \in Nat
  BY DEF TenantInv, IsAccount, Successor
<1> QED
  BY <1>2, <1>3, <1>4, InitEntries DEF TenantInv, Successor

(* ... a ServiceAccount that goes or comes back, ...                       *)
LEMMA AccountKeepsInv ==
  ASSUME TenantInv, DeleteAccount \/ RecreateAccount
  PROVE  TenantInv'
<1>1. UNCHANGED <<cached, flight, evicted>>
  BY DEF DeleteAccount, RecreateAccount, caches
<1>2. IsAccount(account') /\ Successor' >= Successor /\ Successor' \in Nat
  <2>1. CASE DeleteAccount
    <3>1. PICK a : a = [account EXCEPT !.exists = FALSE]
      OBVIOUS
    <3>2. IsAccount(a) /\ a.uid = account.uid /\ ~a.exists
      BY <3>1 DEF TenantInv, IsAccount
    <3> QED
      BY <2>1, <3>1, <3>2 DEF DeleteAccount, Successor, TenantInv, IsAccount
  <2>2. CASE RecreateAccount
    <3>1. account' = [uid |-> account.uid + 1, exists |-> TRUE] /\ ~account.exists
      BY <2>2 DEF RecreateAccount
    <3> QED
      BY <3>1 DEF Successor, TenantInv, IsAccount
  <2> QED
    BY <2>1, <2>2
<1>3. Successor \in Nat
  BY DEF TenantInv, IsAccount, Successor
<1> QED
  BY <1>1, <1>2, <1>3 DEF TenantInv

(* ... and the time that ages every token.                                 *)
LEMMA TimeKeepsInv == ASSUME TenantInv, TimePasses PROVE TenantInv'
<1>1. PICK c : c = [cached EXCEPT !.token = Older(cached.token)]
  OBVIOUS
<1>2. PICK f : f = [flight EXCEPT !.token = Older(flight.token)]
  OBVIOUS
<1>3. cached' = c /\ flight' = f /\ UNCHANGED <<account, evicted>>
  BY <1>1, <1>2 DEF TimePasses
<1>4. IsEntry(c) /\ c.token = Older(cached.token) /\ c.refreshAge = cached.refreshAge
  BY <1>1, OlderSameAccount DEF TenantInv, IsEntry
<1>5. /\ IsFlight(f) /\ f.token = Older(flight.token)
      /\ f.phase = flight.phase /\ f.intact = flight.intact
  BY <1>2, OlderSameAccount DEF TenantInv, IsFlight
<1>6. cached = NoEntry => c = NoEntry
  BY <1>4 DEF IsEntry, NoEntry, Older
<1>7. c.token.uid = cached.token.uid /\ f.token.uid = flight.token.uid
  BY <1>4, <1>5, OlderSameAccount DEF TenantInv, IsEntry, IsFlight
<1> QED
  BY <1>3, <1>4, <1>5, <1>6, <1>7 DEF TenantInv, Successor

(* The invariant behind the eviction theorem is inductive.                 *)
LEMMA TenantInvInductive ==
  /\ TenantInit => TenantInv
  /\ TenantInv /\ [TenantNext]_tenantVars => TenantInv'
<1>1. TenantInit => TenantInv
  BY InitEntries DEF TenantInit, TenantInv, IsAccount, Successor, NoFlight
<1>2. TenantInv /\ [TenantNext]_tenantVars => TenantInv'
  <2> SUFFICES ASSUME TenantInv, [TenantNext]_tenantVars PROVE TenantInv'
    OBVIOUS
  <2>1. CASE UNCHANGED <<account, cached, flight, evicted>>
    BY <2>1 DEF TenantInv, Successor
  <2>2. ASSUME NEW s \in Snippets, Begin(s) \/ ReconcileStep(s) \/ DeleteSnippet(s)
        PROVE  TenantInv'
    <3>1. CASE Lookup(s)
      BY <3>1, LookupKeepsInv
    <3>2. CASE Forget(s)
      BY <3>2, ForgetKeepsInv
    <3>3. CASE ~Lookup(s) /\ ~Forget(s)
      BY <2>1, <2>2, <3>3
         DEF Begin, ReconcileStep, DeleteSnippet, GetClient, PutClient, CallWorks, CallFails,
             CallUnauthorized, RemoveFinalizer, ForgetClient, ForgetSnippet, caches
    <3> QED
      BY <3>1, <3>2, <3>3
  <2> QED
    BY <2>1, <2>2, MintKeepsInv, AccountKeepsInv, TimeKeepsInv DEF TenantNext, tenantVars
<1> QED
  BY <1>1, <1>2

(* No token of an account from before the last eviction is ever cached:    *)
(* tokenCache's Forget against a mint under way, and the recreation of the *)
(* ServiceAccount against both.                                            *)
THEOREM EvictedStaysOut == TenantSpec => []NoResurrection
<1>1. TenantInv => NoResurrection
  BY DEF TenantInv, NoResurrection
<1> QED
  BY <1>1, TenantInvInductive, PTL DEF TenantSpec

-----------------------------------------------------------------------------
(* The caches are empty in the end. *)

Shape ==
  /\ pc \in [Snippets -> Stages]
  /\ life \in [Snippets -> {"live", "deleting", "gone"}]
  /\ task \in [Snippets -> {"render", "delete"}]
  /\ outcome \in [Snippets -> {"none", "ok", "refused"}]
  /\ retried \in [Snippets -> BOOLEAN] /\ excused \in [Snippets -> BOOLEAN]
  /\ epoch \in [Snippets -> BOOLEAN]

Alive(s) == life[s] \in {"live", "deleting"}
Calling(s) == pc[s] \in {"token", "wait", "client", "build", "call"}
WillEvict(s) == pc[s] \in {"forget", "evict"}
WillEvictClient(s) == WillEvict(s) \/ pc[s] = "evictclient"

(* As long as there is something to evict, somebody is there to do it: a   *)
(* snippet with its finalizer, or one that is about to evict.              *)
LeftInv ==
  /\ Shape
  /\ \A s \in Snippets : Calling(s) => Alive(s)
  /\ flight.phase # "none" => \E s \in Snippets : pc[s] = "wait"
  /\ \/ skipped \/ cached = NoEntry
     \/ \E s \in Snippets : Alive(s) \/ WillEvict(s)
  /\ \/ skipped \/ client = NoToken
     \/ \E s \in Snippets : Alive(s) \/ WillEvictClient(s)

(* Every step keeps the shape of the calls under way.                      *)
LEMMA ShapeStep == ASSUME Shape, [TenantNext]_tenantVars PROVE Shape'
<1> USE DEF Goto, Stages
<1>1. ASSUME NEW s \in Snippets, Begin(s) \/ DeleteSnippet(s) PROVE Shape'
  BY <1>1 DEF Shape, Begin, DeleteSnippet
<1>2. ASSUME NEW s \in Snippets, NEW r \in {"none", "ok", "refused"}, NEW g, Ends(s, r, g),
             UNCHANGED <<life, epoch>>
      PROVE  Shape'
  BY <1>2 DEF Shape, Ends
<1>3. ASSUME NEW s \in Snippets, ReconcileStep(s) PROVE Shape'
  <2>1. CASE Lookup(s) \/ GetClient(s) \/ PutClient(s)
    BY <2>1 DEF Shape, Lookup, GetClient, PutClient
  <2>2. CASE CallWorks(s) \/ CallFails(s)
    BY <1>2, <2>2 DEF CallWorks, CallFails
  <2>3. CASE CallUnauthorized(s)
    <3>1. CASE Ends(s, "refused", task[s] = "delete")
      BY <1>2, <2>3, <3>1 DEF CallUnauthorized
    <3>2. CASE ~Ends(s, "refused", task[s] = "delete")
      <4>1. account.exists \in BOOLEAN \/ account.exists \notin BOOLEAN
        OBVIOUS
      <4> QED
        BY <2>3, <3>2 DEF CallUnauthorized, Shape
    <3> QED
      BY <3>1, <3>2
  <2>4. CASE RemoveFinalizer(s) \/ Forget(s) \/ ForgetClient(s) \/ ForgetSnippet(s)
    BY <2>4 DEF Shape, RemoveFinalizer, Forget, ForgetClient, ForgetSnippet
  <2> QED
    BY <1>3, <2>1, <2>2, <2>3, <2>4 DEF ReconcileStep
<1>4. CASE MintAnswers \/ MintLands
  BY <1>4 DEF MintAnswers, MintLands, Shape, Waiting
<1>5. CASE MintFails
  <2>1. excused' \in [Snippets -> BOOLEAN]
    BY <1>5, Zenon DEF MintFails
  <2>2. retried' \in [Snippets -> BOOLEAN]
    BY <1>5, Zenon DEF MintFails
  <2>3. pc' \in [Snippets -> Stages]
    BY <1>5 DEF MintFails, Shape
  <2>4. life' \in [Snippets -> {"live", "deleting", "gone"}]
    BY <1>5 DEF MintFails, Shape
  <2>5. /\ task' \in [Snippets -> {"render", "delete"}]
        /\ outcome' \in [Snippets -> {"none", "ok", "refused"}]
        /\ UNCHANGED epoch
    BY <1>5 DEF MintFails, Shape
  <2> QED
    BY <2>1, <2>2, <2>3, <2>4, <2>5 DEF Shape
<1>6. CASE RecreateAccount \/ TimePasses \/ UNCHANGED tenantVars
  BY <1>6 DEF RecreateAccount, TimePasses, tenantVars, Shape
<1>7. CASE DeleteAccount
  <2>1. excused' \in [Snippets -> BOOLEAN]
    BY <1>7, Zenon DEF DeleteAccount
  <2> QED
    BY <1>7, <2>1 DEF DeleteAccount, Shape
<1> QED
  BY <1>1, <1>3, <1>4, <1>5, <1>6, <1>7 DEF TenantNext, Mint

(* No step leaves a cache filled with nobody left to empty it.             *)
LEMMA LeftStep == ASSUME TenantInv, LeftInv, [TenantNext]_tenantVars PROVE LeftInv'
<1> USE DEF Goto, Stages, Calling, WillEvict, WillEvictClient, Alive
<1>0. Shape'
  BY ShapeStep DEF LeftInv
<1>1. ASSUME NEW s \in Snippets, Begin(s) \/ DeleteSnippet(s) PROVE LeftInv'
  BY <1>0, <1>1 DEF LeftInv, Shape, Begin, DeleteSnippet, caches
<1>2. ASSUME NEW s \in Snippets, Lookup(s) PROVE LeftInv'
  BY <1>0, <1>2 DEF LeftInv, Shape, Lookup
<1>3. ASSUME NEW s \in Snippets, GetClient(s) \/ PutClient(s) PROVE LeftInv'
  BY <1>0, <1>3 DEF LeftInv, Shape, GetClient, PutClient, caches
<1>4. ASSUME NEW s \in Snippets, NEW r, NEW g, Ends(s, r, g), pc[s] = "call",
             UNCHANGED <<caches, life, skipped>>
      PROVE  LeftInv'
  BY <1>0, <1>4 DEF LeftInv, Shape, Ends, caches
<1>5. ASSUME NEW s \in Snippets, CallWorks(s) \/ CallFails(s) \/ CallUnauthorized(s)
      PROVE  LeftInv'
  <2>1. CASE CallWorks(s) \/ CallFails(s)
    BY <1>4, <2>1 DEF CallWorks, CallFails
  <2>2. CASE CallUnauthorized(s)
    <3>1. CASE Ends(s, "refused", task[s] = "delete")
      BY <1>4, <2>2, <3>1 DEF CallUnauthorized
    <3>2. CASE ~ Ends(s, "refused", task[s] = "delete")
      <4>1. pc' = [pc EXCEPT ![s] = "evict"] /\ pc[s] = "call" /\ UNCHANGED <<caches, life, skipped>>
        BY <2>2, <3>2 DEF CallUnauthorized
      <4> QED
        BY <1>0, <4>1 DEF LeftInv, Shape, caches
    <3> QED
      BY <3>1, <3>2
  <2> QED
    BY <1>5, <2>1, <2>2
<1>6. ASSUME NEW s \in Snippets, Forget(s) PROVE LeftInv'
  BY <1>0, <1>6 DEF LeftInv, Shape, Forget, EntryAfterForget, TenantInv, IsFlight
<1>7. ASSUME NEW s \in Snippets, ForgetClient(s) PROVE LeftInv'
  BY <1>0, <1>7 DEF LeftInv, Shape, ForgetClient, ClientAfterForget
<1>8. ASSUME NEW s \in Snippets, ForgetSnippet(s) PROVE LeftInv'
  BY <1>0, <1>8 DEF LeftInv, Shape, ForgetSnippet, LastUser, caches
<1>14. ASSUME NEW s \in Snippets, RemoveFinalizer(s) PROVE LeftInv'
  BY <1>0, <1>14 DEF LeftInv, Shape, RemoveFinalizer, caches
<1>9. CASE MintAnswers
  BY <1>0, <1>9 DEF LeftInv, Shape, MintAnswers, TenantInv, IsFlight
<1>10. CASE MintFails
  BY <1>0, <1>10 DEF LeftInv, Shape, MintFails, Waiting, NoFlight
<1>11. CASE MintLands
  BY <1>0, <1>11 DEF LeftInv, Shape, MintLands, Waiting, NoFlight
<1>12. CASE DeleteAccount \/ RecreateAccount \/ UNCHANGED tenantVars
  BY <1>0, <1>12 DEF LeftInv, DeleteAccount, RecreateAccount, tenantVars, caches
<1>13. CASE TimePasses
  BY <1>0, <1>13 DEF LeftInv, TimePasses, TenantInv, IsFlight, IsEntry, Older, NoEntry
<1> QED
  BY <1>1, <1>2, <1>3, <1>5, <1>6, <1>7, <1>8, <1>9, <1>10, <1>11, <1>12, <1>13,
     <1>14 DEF TenantNext, ReconcileStep, Mint

(* At first the caches are empty.                                          *)
LEMMA LeftInit == TenantInit => LeftInv
<1> SUFFICES ASSUME TenantInit PROVE LeftInv
  OBVIOUS
<1>1. Shape
  BY DEF TenantInit, Shape, Stages
<1>2. \A s \in Snippets : ~Calling(s)
  BY DEF TenantInit, Calling
<1>3. flight.phase = "none" /\ cached = NoEntry /\ client = NoToken
  BY DEF TenantInit, NoFlight
<1> QED
  BY <1>1, <1>2, <1>3 DEF LeftInv

(* After the last snippet of a tenant is gone, the caches hold nothing of  *)
(* it, unless the eviction was skipped: isLastSnippetUsingSA is asked by   *)
(* every snippet whose finalizer's Update is answered, and no reconcile    *)
(* fills the caches behind the last one's back.                            *)
THEOREM CachesLeftEmpty == TenantSpec => []NothingLeft
<1>1. LeftInv => NothingLeft
  BY DEF LeftInv, NothingLeft, Alive, WillEvict, WillEvictClient
<1> QED
  BY <1>1, TenantInvInductive, LeftInit, LeftStep, PTL DEF TenantSpec

-----------------------------------------------------------------------------
(* One worker: a call is refused for good for a cause only. *)

Retries(s) == retried[s] \/ (pc[s] \in {"evict", "evictclient"} /\ Alive(s))

CauseInv ==
  /\ TenantInv /\ LeftInv
  /\ held \in [Snippets -> Tokens] /\ lifetime \in Nat \ {0}
  /\ \A s, t \in Snippets : pc[s] # "idle" /\ pc[t] # "idle" => s = t
  /\ \A s \in Snippets :
       /\ retried[s] => Calling(s)
       /\ Retries(s) => excused[s] \/ account.exists
       /\ pc[s] = "forget" => ~Alive(s)
       /\ Calling(s) \/ Retries(s) => outcome[s] = "none"
       /\ pc[s] = "evictclient" => cached = NoEntry
       /\ retried[s] /\ pc[s] = "token" => cached = NoEntry
       /\ retried[s] /\ pc[s] = "wait" /\ flight.phase = "answered"
            => excused[s] \/ Authenticates(flight.token)
       /\ retried[s] /\ pc[s] \in {"client", "build", "call"}
            => excused[s] \/ Authenticates(held[s])
       /\ outcome[s] = "refused" => excused[s]

(* With one worker, no step refuses a call that has no cause.              *)
LEMMA CauseStep ==
  ASSUME CauseInv, workers = 1, [TenantNext]_tenantVars
  PROVE  CauseInv'
<1> USE DEF Goto, Stages, Calling, Alive, Retries, Authenticates
<1>0. TenantInv' /\ LeftInv' /\ Shape'
  BY TenantInvInductive, LeftStep, ShapeStep DEF CauseInv, LeftInv
<1>a. Shape /\ IsFlight(flight)
  BY DEF CauseInv, LeftInv, TenantInv
<1>1. ASSUME NEW s \in Snippets, Begin(s) PROVE CauseInv'
  <2>1. Busy = {}
    <3>1. IsFiniteSet(Busy) /\ Cardinality(Busy) \in Nat /\ Cardinality(Busy) < 1
      BY <1>1, TenantConstants, FS_Subset, FS_CardinalityType DEF Busy, Begin
    <3> QED
      BY <3>1, FS_EmptySet
  <2>2. \A t \in Snippets : pc[t] = "idle"
    BY <2>1 DEF Busy
  <2> QED
    BY <1>0, <1>a, <1>1, <2>2 DEF CauseInv, Shape, Begin, caches, world
<1>2. ASSUME NEW s \in Snippets, DeleteSnippet(s) PROVE CauseInv'
  BY <1>0, <1>a, <1>2 DEF CauseInv, Shape, DeleteSnippet, caches, world
<1>3. ASSUME NEW s \in Snippets, Lookup(s) PROVE CauseInv'
  BY <1>0, <1>a, <1>3 DEF CauseInv, Shape, Lookup, Hit, TenantInv, IsEntry, world, LeftInv
<1>4. ASSUME NEW s \in Snippets, GetClient(s) \/ PutClient(s) PROVE CauseInv'
  BY <1>0, <1>a, <1>4 DEF CauseInv, Shape, GetClient, PutClient, caches, world
<1>5. ASSUME NEW s \in Snippets, CallWorks(s) \/ CallFails(s) PROVE CauseInv'
  BY <1>0, <1>a, <1>5, InitEntries DEF CauseInv, Shape, CallWorks, CallFails, Ends, caches, world
<1>6. ASSUME NEW s \in Snippets, CallUnauthorized(s) PROVE CauseInv'
  BY <1>0, <1>a, <1>6, InitEntries DEF CauseInv, Shape, CallUnauthorized, Ends, caches, world
<1>7. ASSUME NEW s \in Snippets, Forget(s) PROVE CauseInv'
  BY <1>0, <1>a, <1>7 DEF CauseInv, Shape, Forget, EntryAfterForget, world
<1>8. ASSUME NEW s \in Snippets, ForgetClient(s) PROVE CauseInv'
  BY <1>0, <1>a, <1>8 DEF CauseInv, Shape, ForgetClient, world
<1>9. ASSUME NEW s \in Snippets, ForgetSnippet(s) PROVE CauseInv'
  BY <1>0, <1>a, <1>9 DEF CauseInv, Shape, ForgetSnippet, caches, world
<1>17. ASSUME NEW s \in Snippets, RemoveFinalizer(s) PROVE CauseInv'
  BY <1>0, <1>a, <1>17 DEF CauseInv, Shape, RemoveFinalizer, caches, world
<1>10. CASE MintAnswers
  BY <1>0, <1>a, <1>10 DEF CauseInv, Shape, MintAnswers, IsFlight, world
<1>11. CASE MintFails
  <2>1. PICK w \in Snippets : pc[w] = "wait" /\ \A s \in Snippets \ {w} : pc[s] = "idle"
    BY <1>11 DEF CauseInv, LeftInv, MintFails
  <2>2. \A s \in Snippets \ {w} :
          pc'[s] = "idle" /\ ~retried'[s] /\ outcome'[s] = outcome[s] /\ (excused[s] => excused'[s])
    <3>1. \A s \in Snippets \ {w} : ~retried[s]
      BY <2>1 DEF CauseInv
    <3> QED
      BY <1>11, <2>1, <3>1 DEF MintFails, Waiting
  <2>3. pc'[w] \in {"idle", "finalizer"} /\ ~retried'[w] /\ outcome'[w] = "none"
    BY <1>11, <2>1 DEF MintFails, Waiting
  <2>4. held' \in [Snippets -> Tokens] /\ UNCHANGED lifetime
    BY <1>11, InitEntries DEF CauseInv, MintFails, world
  <2> QED
    BY <1>0, <2>2, <2>3, <2>4 DEF CauseInv
<1>12. CASE MintLands
  BY <1>0, <1>a, <1>12 DEF CauseInv, Shape, MintLands, Waiting, NoFlight, IsFlight, world, LeftInv
<1>13. CASE DeleteAccount
  BY <1>0, <1>a, <1>13 DEF CauseInv, Shape, DeleteAccount, Retrying, caches, world, TenantInv, IsAccount
<1>14. CASE RecreateAccount
  BY <1>0, <1>a, <1>14 DEF CauseInv, Shape, RecreateAccount, caches, world
<1>15. CASE TimePasses
  <2>1. held' \in [Snippets -> Tokens]
    BY <1>15, OlderSameAccount DEF CauseInv, TimePasses
  <2>2. \A s \in Snippets : excused'[s] = excused[s] /\ retried'[s] = retried[s] /\ pc'[s] = pc[s]
    BY <1>15 DEF TimePasses
  <2>3. ASSUME NEW token \in Tokens, token.age + 1 < lifetime, Authenticates(token)
        PROVE  account.exists /\ Older(token).uid = account.uid /\ Older(token).age < lifetime
    BY <2>3 DEF Older, Tokens, CauseInv
  <2>4. ASSUME NEW s \in Snippets, retried[s], pc[s] = "wait", flight.phase = "answered"
        PROVE  excused[s] \/ Authenticates(flight.token)'
    BY <1>a, <1>15, <2>3, <2>4 DEF CauseInv, TimePasses, Prompt, IsFlight, world
  <2>5. ASSUME NEW s \in Snippets, retried[s], pc[s] \in {"client", "build", "call"}
        PROVE  excused[s] \/ Authenticates(held[s])'
    BY <1>a, <1>15, <2>3, <2>5 DEF CauseInv, TimePasses, Prompt, world
  <2>6. flight'.phase = flight.phase /\ (cached = NoEntry => cached' = NoEntry)
    <3>1. PICK c : c = [cached EXCEPT !.token = Older(cached.token)]
      OBVIOUS
    <3>2. cached = NoEntry => c = NoEntry
      BY <3>1 DEF NoEntry, Older
    <3> QED
      BY <1>a, <1>15, <3>1, <3>2 DEF TimePasses, IsFlight
  <2> QED
    BY <1>0, <1>15, <2>1, <2>4, <2>5, <2>6 DEF CauseInv, TimePasses, world
<1>16. CASE UNCHANGED tenantVars
  BY <1>0, <1>16 DEF CauseInv, tenantVars
<1> QED
  BY <1>1, <1>2, <1>3, <1>4, <1>5, <1>6, <1>7, <1>8, <1>9, <1>10, <1>11, <1>12, <1>13,
     <1>14, <1>15, <1>16, <1>17 DEF TenantNext, ReconcileStep, Mint

(* With one worker a tenant call is refused for good, which on the         *)
(* deletion path drops the finalizer by force, only if the ServiceAccount  *)
(* was away after the call's first 401: the retry runs with a token minted *)
(* after it, however the mint, the caches and the account have raced.      *)
THEOREM RefusalsHaveACause == TenantSpec => []RefusedForCause
<1> DEFINE Inv == workers = 1 => CauseInv
<1>1. TenantInit => Inv
  <2> SUFFICES ASSUME TenantInit PROVE CauseInv
    OBVIOUS
  <2>1. TenantInv /\ LeftInv
    BY TenantInvInductive, LeftInit
  <2>2. held \in [Snippets -> Tokens] /\ lifetime \in Nat \ {0}
    BY InitEntries, TenantConstants DEF TenantInit
  <2>3. \A s \in Snippets : pc[s] = "idle" /\ ~retried[s] /\ outcome[s] = "none"
    BY DEF TenantInit
  <2> QED
    BY <2>1, <2>2, <2>3 DEF CauseInv, Calling, Retries
<1>2. Inv /\ [TenantNext]_tenantVars => Inv'
  <2>1. [TenantNext]_tenantVars => workers' = workers
    BY DEF TenantNext, tenantVars, world, Begin, ReconcileStep, DeleteSnippet, Lookup, GetClient,
           PutClient, CallWorks, CallFails, CallUnauthorized, RemoveFinalizer, Forget, ForgetClient,
           ForgetSnippet, Mint, MintAnswers, MintFails, MintLands, DeleteAccount, RecreateAccount, TimePasses
  <2> QED
    BY <2>1, CauseStep
<1>3. Inv => RefusedForCause
  BY DEF CauseInv, RefusedForCause
<1> QED
  BY <1>1, <1>2, <1>3, PTL DEF TenantSpec

-----------------------------------------------------------------------------
(* The type invariant. *)

TypeInv ==
  /\ TenantTypeOK
  /\ flight.phase = "answered" => flight.token.age < lifetime

(* Tokens age, and stay fresh while they are younger than their lifetime.  *)
LEMMA TokenTypes ==
  ASSUME lifetime \in Nat \ {0}
  PROVE  /\ NoToken \in Token
         /\ \A u \in 0..MaxUid : [uid |-> u, age |-> 0] \in Token
         /\ \A t \in Token : Older(t) \in Token /\ (t.age + 1 < lifetime => Older(t).age < lifetime)
BY TenantConstants DEF NoToken, Token, Older

(* refreshMarginFor leaves every token a time in which it is served. *)
LEMMA MarginLeavesTime ==
  ASSUME NEW remaining \in Nat \ {0}, NEW l \in Nat, remaining <= l
  PROVE  l - refreshMarginFor(remaining) \in 1..l
<1>1. remaining \div 3 \in Nat /\ remaining \div 3 < remaining
  OBVIOUS
<1>2. refreshMarginFor(remaining) \in Nat /\ refreshMarginFor(remaining) <= remaining \div 3
  BY <1>1, TenantConstants DEF refreshMarginFor
<1> QED
  BY <1>1, <1>2

(* Every step keeps the types.                                             *)
LEMMA TypeStep == ASSUME TypeInv, [TenantNext]_tenantVars PROVE TypeInv'
<1> USE DEF Goto, Stages
<1>0. Shape /\ lifetime \in Nat \ {0}
  BY TenantConstants DEF TypeInv, TenantTypeOK, Shape, Stages
<1>a. Shape'
  BY <1>0, ShapeStep
<1>b. CASE UNCHANGED <<world, account, caches, held>> /\ skipped' \in BOOLEAN /\ budget' \in 0..MaxFaults
  BY <1>a, <1>b DEF TypeInv, TenantTypeOK, Shape, Token, world, caches
<1>1. ASSUME NEW s \in Snippets, Begin(s) \/ DeleteSnippet(s) PROVE TypeInv'
  BY <1>1, <1>b DEF TypeInv, TenantTypeOK, Begin, DeleteSnippet
<1>2. ASSUME NEW s \in Snippets, Lookup(s) PROVE TypeInv'
  <2>1. held' \in [Snippets -> Token] /\ UNCHANGED world
    BY <1>0, <1>2 DEF TypeInv, TenantTypeOK, Lookup, Hit
  <2>2. flight' = flight \/ flight' = [phase |-> "asked", token |-> NoToken, intact |-> TRUE]
    BY <1>2 DEF Lookup
  <2>3. UNCHANGED <<account, cached, client, evicted, skipped, budget>>
    BY <1>2 DEF Lookup
  <2>4. /\ flight' \in [phase : {"none", "asked", "answered"}, token : Token', intact : BOOLEAN]
        /\ flight'.phase = "answered" => flight'.token.age < lifetime'
    <3>1. CASE flight' = flight
      BY <2>1, <3>1 DEF TypeInv, TenantTypeOK, Token, world
    <3>2. CASE flight' # flight
      <4>1. NoToken \in Token'
        BY <1>0, <2>1, TokenTypes DEF Token, world
      <4>2. flight' = [phase |-> "asked", token |-> NoToken, intact |-> TRUE]
        BY <2>2, <3>2
      <4> QED
        BY <4>1, <4>2
    <3> QED
      BY <3>1, <3>2
  <2> QED
    BY <1>a, <2>1, <2>3, <2>4 DEF TypeInv, TenantTypeOK, Shape, Token, world
<1>3. ASSUME NEW s \in Snippets, GetClient(s) \/ PutClient(s) PROVE TypeInv'
  <2>1. client' \in Token /\ UNCHANGED <<world, account, cached, flight, evicted, held, skipped, budget>>
    BY <1>3 DEF TypeInv, TenantTypeOK, GetClient, PutClient, caches
  <2> QED
    BY <1>a, <2>1 DEF TypeInv, TenantTypeOK, Shape, Token, world
<1>4. ASSUME NEW s \in Snippets, CallWorks(s) \/ CallFails(s) \/ CallUnauthorized(s) PROVE TypeInv'
  <2>1. held' \in [Snippets -> Token]
    BY <1>0, <1>4, TokenTypes DEF CallWorks, CallFails, CallUnauthorized, Ends, TypeInv, TenantTypeOK
  <2>2. UNCHANGED <<world, account, caches, skipped>> /\ budget' \in 0..MaxFaults
    BY <1>4, TenantConstants
       DEF CallWorks, CallFails, CallUnauthorized, MintFault, TypeInv, TenantTypeOK
  <2> QED
    BY <1>a, <2>1, <2>2 DEF TypeInv, TenantTypeOK, Shape, Token, world, caches
<1>5. ASSUME NEW s \in Snippets, Forget(s) PROVE TypeInv'
  <2>1. /\ UNCHANGED <<world, account, client, held, budget>> /\ cached' = NoEntry
        /\ skipped' \in BOOLEAN
    BY <1>5 DEF Forget, EntryAfterForget
  <2>2. PICK f : f = [flight EXCEPT !.intact = FALSE]
    OBVIOUS
  <2>3. /\ f \in [phase : {"none", "asked", "answered"}, token : Token, intact : BOOLEAN]
        /\ f.phase = flight.phase /\ f.token = flight.token /\ flight' = f
    BY <1>5, <2>2 DEF Forget, TypeInv, TenantTypeOK
  <2>4. evicted' \in 0..(MaxUid + 1)
    BY <1>5, TenantConstants DEF Forget, TypeInv, TenantTypeOK
  <2> QED
    BY <1>a, <2>1, <2>3, <2>4 DEF TypeInv, TenantTypeOK, Shape, Token, world
<1>6. ASSUME NEW s \in Snippets, ForgetClient(s) PROVE TypeInv'
  <2>1. client' \in Token /\ UNCHANGED <<world, account, cached, flight, evicted, held, skipped, budget>>
    BY <1>0, <1>6, TokenTypes DEF ForgetClient, ClientAfterForget
  <2> QED
    BY <1>a, <2>1 DEF TypeInv, TenantTypeOK, Shape, Token, world
<1>7. ASSUME NEW s \in Snippets, ForgetSnippet(s) PROVE TypeInv'
  <2>1. UNCHANGED <<world, account, caches, held>> /\ skipped' \in BOOLEAN
    BY <1>7 DEF ForgetSnippet, TypeInv, TenantTypeOK
  <2>2. budget' \in 0..MaxFaults
    BY <1>7, TenantConstants DEF ForgetSnippet, MintFault, NoMintFault, TypeInv, TenantTypeOK
  <2> QED
    BY <1>b, <2>1, <2>2
<1>14. ASSUME NEW s \in Snippets, RemoveFinalizer(s) PROVE TypeInv'
  <2>1. UNCHANGED <<world, account, caches, held>> /\ skipped' \in BOOLEAN
    BY <1>14 DEF RemoveFinalizer, TypeInv, TenantTypeOK
  <2>2. budget' \in 0..MaxFaults
    BY <1>14, TenantConstants DEF RemoveFinalizer, MintFault, NoMintFault, TypeInv, TenantTypeOK
  <2> QED
    BY <1>b, <2>1, <2>2
<1>8. CASE MintAnswers
  <2>1. PICK t : t = [uid |-> account.uid, age |-> 0]
    OBVIOUS
  <2>2. t \in Token /\ t.age < lifetime
    BY <1>0, <2>1, TokenTypes, TenantConstants DEF TypeInv, TenantTypeOK
  <2>3. PICK f : f = [flight EXCEPT !.phase = "answered", !.token = t]
    OBVIOUS
  <2>4. /\ f \in [phase : {"none", "asked", "answered"}, token : Token, intact : BOOLEAN]
        /\ f.token = t /\ flight' = f
    BY <1>8, <2>1, <2>2, <2>3 DEF MintAnswers, TypeInv, TenantTypeOK
  <2>5. UNCHANGED <<world, account, cached, client, evicted, held, skipped, budget>>
    BY <1>8 DEF MintAnswers
  <2> QED
    BY <1>a, <2>2, <2>4, <2>5 DEF TypeInv, TenantTypeOK, Shape, Token, world
<1>9. CASE MintFails
  <2>1. held' \in [Snippets -> Token] /\ UNCHANGED <<world, account, cached, client, evicted, skipped>>
    BY <1>0, <1>9, TokenTypes DEF MintFails, TypeInv, TenantTypeOK
  <2>2. flight' = NoFlight /\ budget' \in 0..MaxFaults
    BY <1>9, TenantConstants DEF MintFails, MintFault, NoMintFault, TypeInv, TenantTypeOK
  <2> QED
    BY <1>0, <1>a, <2>1, <2>2, TokenTypes DEF TypeInv, TenantTypeOK, Shape, Token, world, NoFlight
<1>10. CASE MintLands
  <2>1. flight.token \in Token /\ flight.token.age < lifetime /\ flight.token.age \in Nat
    BY <1>10 DEF MintLands, TypeInv, TenantTypeOK, Token
  <2>2. held' \in [Snippets -> Token]
    BY <1>10, <2>1 DEF MintLands, TypeInv, TenantTypeOK
  <2>3. lifetime - refreshMarginFor(lifetime - flight.token.age) \in 1..lifetime
    BY <1>0, <2>1, MarginLeavesTime
  <2>4. cached' = NoEntry \/ cached' \in [token : Token, refreshAge : 1..lifetime]
    BY <1>10, <2>1, <2>3 DEF MintLands, TypeInv, TenantTypeOK
  <2>5. flight' = NoFlight /\ UNCHANGED <<world, account, client, evicted, skipped, budget>>
    BY <1>10 DEF MintLands
  <2> QED
    BY <1>0, <1>a, <2>2, <2>4, <2>5, TokenTypes
       DEF TypeInv, TenantTypeOK, Shape, Token, world, NoFlight
<1>11. CASE DeleteAccount \/ RecreateAccount
  <2>1. UNCHANGED <<world, caches, held, skipped, budget>>
    BY <1>11 DEF DeleteAccount, RecreateAccount
  <2>2. account' \in [uid : 1..MaxUid, exists : BOOLEAN]
    <3>1. account.uid \in 1..MaxUid /\ account \in [uid : 1..MaxUid, exists : BOOLEAN]
      BY DEF TypeInv, TenantTypeOK
    <3>2. CASE DeleteAccount
      BY <3>1, <3>2 DEF DeleteAccount
    <3>3. CASE RecreateAccount
      <4>1. account.uid + 1 \in 1..MaxUid
        BY <3>1, <3>3, TenantConstants DEF RecreateAccount
      <4> QED
        BY <3>3, <4>1 DEF RecreateAccount
    <3> QED
      BY <1>11, <3>2, <3>3
  <2> QED
    BY <1>a, <2>1, <2>2 DEF TypeInv, TenantTypeOK, Shape, Token, world, caches
<1>12. CASE TimePasses
  <2>1. held' \in [Snippets -> Token] /\ client' \in Token
    BY <1>0, <1>12, TokenTypes DEF TimePasses, TypeInv, TenantTypeOK
  <2>2. PICK f : f = [flight EXCEPT !.token = Older(flight.token)]
    OBVIOUS
  <2>3. /\ f \in [phase : {"none", "asked", "answered"}, token : Token, intact : BOOLEAN]
        /\ f.phase = flight.phase /\ f.token = Older(flight.token) /\ flight' = f
    BY <1>0, <1>12, <2>2, TokenTypes DEF TimePasses, TypeInv, TenantTypeOK
  <2>4. PICK c : c = [cached EXCEPT !.token = Older(cached.token)]
    OBVIOUS
  <2>5. cached = NoEntry => c = NoEntry
    BY <2>4 DEF NoEntry, Older
  <2>6. cached # NoEntry => c \in [token : Token, refreshAge : 1..lifetime]
    BY <1>0, <2>4, TokenTypes DEF TypeInv, TenantTypeOK
  <2>7. f.phase = "answered" => f.token.age < lifetime
    BY <1>0, <1>12, <2>3, TokenTypes DEF TimePasses, Prompt, TypeInv, TenantTypeOK
  <2>8. cached' = c /\ UNCHANGED <<world, account, evicted, skipped, budget>>
    BY <1>12, <2>4 DEF TimePasses
  <2> QED
    BY <1>a, <2>1, <2>3, <2>5, <2>6, <2>7, <2>8 DEF TypeInv, TenantTypeOK, Shape, Token, world
<1>13. CASE UNCHANGED tenantVars
  BY <1>13, <1>b DEF tenantVars, world, caches, TypeInv, TenantTypeOK
<1> QED
  BY <1>1, <1>2, <1>3, <1>4, <1>5, <1>6, <1>7, <1>8, <1>9, <1>10, <1>11, <1>12, <1>13,
     <1>14 DEF TenantNext, ReconcileStep, Mint

(* Types; and whatever lifetime the API server grants, every token that is *)
(* cached is fresh for some time, and due before it expires:               *)
(* refreshMarginFor.                                                       *)
THEOREM TenantTypeCorrect == TenantSpec => []TenantTypeOK
<1>1. TenantInit => TypeInv
  <2> SUFFICES ASSUME TenantInit PROVE TypeInv
    OBVIOUS
  <2>1. lifetime \in Nat \ {0}
    BY TenantConstants DEF TenantInit
  <2>2. NoToken \in Token
    BY <2>1, TokenTypes
  <2> QED
    <3>1. Shape
      BY DEF TenantInit, Shape, Stages
    <3>2. held \in [Snippets -> Token] /\ client \in Token
      BY <2>2 DEF TenantInit
    <3>3. /\ flight \in [phase : {"none", "asked", "answered"}, token : Token, intact : BOOLEAN]
          /\ flight.phase = "none"
      BY <2>2 DEF TenantInit, NoFlight
    <3>4. account \in [uid : 1..MaxUid, exists : BOOLEAN] /\ evicted \in 0..(MaxUid + 1)
      BY TenantConstants DEF TenantInit
    <3>5. /\ workers \in WorkerCounts /\ lifetime \in Lifetimes /\ cached = NoEntry
          /\ budget \in 0..MaxFaults
      BY TenantConstants DEF TenantInit
    <3>7. skipped \in BOOLEAN
      BY DEF TenantInit
    <3>6. TenantTypeOK
      BY <3>1, <3>2, <3>3, <3>4, <3>5, <3>7, Zenon DEF TenantTypeOK, Shape
    <3> QED
      BY <3>3, <3>6 DEF TypeInv
<1>2. TypeInv => TenantTypeOK
  BY DEF TypeInv
<1> QED
  BY <1>1, <1>2, TypeStep, PTL DEF TenantSpec
=============================================================================
