---------------------------- MODULE TenantAccess ----------------------------
(***************************************************************************)
(* How reconciles act as their tenant: the token cache with its single     *)
(* flight, the client cache beside it, the one retry after a 401, and the  *)
(* eviction when the last snippet of a ServiceAccount goes.  A token is    *)
(* bound to the UID of the account, the caches are keyed by its name, and  *)
(* the account may be deleted and created again.                           *)
(*                                                                         *)
(* The snippets all use one ServiceAccount.  The controller is built with  *)
(* controller-runtime's default of one worker; the caches claim to be      *)
(* right for any number, so the number is chosen at the start.  A counter  *)
(* read before a call and compared after it is modelled by a flag that     *)
(* every increment clears.  Tokens minted for one account within a unit of *)
(* time are interchangeable, and a reconcile's tenant calls are one call.  *)
(***************************************************************************)
EXTENDS Integers, FiniteSets

CONSTANTS
  Snippets,
  WorkerCounts,  \* MaxConcurrentReconciles
  Lifetimes,     \* of a token, in clock units, as the API server grants it
  Margin,        \* refreshMargin
  MaxUid,        \* bound on the accounts of that name
  MaxFaults      \* bound on failing calls

ASSUME TenantConstants ==
  /\ IsFiniteSet(Snippets) /\ Snippets # {}
  /\ WorkerCounts \subseteq Nat \ {0} /\ WorkerCounts # {}
  /\ Lifetimes \subseteq Nat \ {0} /\ Lifetimes # {}
  /\ Margin \in Nat /\ MaxUid \in Nat \ {0} /\ MaxFaults \in Nat

VARIABLES
  workers,   \* the number of workers
  lifetime,  \* the lifetime the API server grants
  account,   \* the ServiceAccount: its UID, and whether it is there
  cached,    \* the entry of tokenCache
  flight,    \* the mint under way
  client,    \* the entry of tenantClientCache: the token it was built with
  life,      \* of each snippet: live, deleting, or without its finalizer
  pc,        \* what its reconcile does next
  task,      \* ... on the strength of which state of the snippet
  held,      \* the token its client carries
  retried,   \* the call runs for the second time
  epoch,     \* the client cache was not evicted since this reconcile's Get
  outcome,   \* how its last call ended
  excused,   \* the account was away at some time since the call's first 401
  skipped,   \* the last eviction was skipped: its List failed, or the answer
             \* to the finalizer's Update was lost
  evicted,   \* the account the last eviction left in charge
  budget     \* failures left

caches == <<cached, flight, client, evicted>>
world == <<workers, lifetime>>
tenantVars == <<workers, lifetime, account, cached, flight, client, life, pc, task,
                held, retried, epoch, outcome, excused, skipped, evicted, budget>>

Token == [uid : 0..MaxUid, age : 0..lifetime]
NoToken == [uid |-> 0, age |-> 0]
NoEntry == [token |-> NoToken, refreshAge |-> 0]
NoFlight == [phase |-> "none", token |-> NoToken, intact |-> FALSE]

Stages == {"idle", "token", "wait", "client", "build", "call",
           "finalizer", "forget", "evict", "evictclient"}

(* The type invariant: however short the life the API server grants, a     *)
(* fresh token is served from the cache, and no expired one is.            *)
TenantTypeOK ==
  /\ workers \in WorkerCounts /\ lifetime \in Lifetimes
  /\ account \in [uid : 1..MaxUid, exists : BOOLEAN]
  /\ cached = NoEntry \/ cached \in [token : Token, refreshAge : 1..lifetime]
  /\ flight \in [phase : {"none", "asked", "answered"}, token : Token, intact : BOOLEAN]
  /\ client \in Token
  /\ life \in [Snippets -> {"live", "deleting", "gone"}]
  /\ pc \in [Snippets -> Stages]
  /\ task \in [Snippets -> {"render", "delete"}]
  /\ held \in [Snippets -> Token]
  /\ retried \in [Snippets -> BOOLEAN] /\ epoch \in [Snippets -> BOOLEAN]
  /\ outcome \in [Snippets -> {"none", "ok", "refused"}]
  /\ excused \in [Snippets -> BOOLEAN] /\ skipped \in BOOLEAN
  /\ evicted \in 0..(MaxUid + 1)
  /\ budget \in 0..MaxFaults

TenantInit ==
  /\ workers \in WorkerCounts /\ lifetime \in Lifetimes
  /\ account = [uid |-> 1, exists |-> TRUE]
  /\ cached = NoEntry /\ flight = NoFlight /\ client = NoToken
  /\ life = [s \in Snippets |-> "live"]
  /\ pc = [s \in Snippets |-> "idle"]
  /\ task = [s \in Snippets |-> "render"]
  /\ held = [s \in Snippets |-> NoToken]
  /\ retried = [s \in Snippets |-> FALSE] /\ epoch = [s \in Snippets |-> FALSE]
  /\ outcome = [s \in Snippets |-> "none"]
  /\ excused = [s \in Snippets |-> FALSE] /\ skipped = FALSE
  /\ evicted = 0
  /\ budget = MaxFaults

MintFault == budget > 0 /\ budget' = budget - 1
NoMintFault == UNCHANGED budget

Goto(s, stage) == pc' = [pc EXCEPT ![s] = stage]

Busy == {s \in Snippets : pc[s] # "idle"}

(* A worker takes the snippet's key off the queue. *)
Begin(s) ==
  /\ pc[s] = "idle" /\ life[s] \in {"live", "deleting"}
  /\ Cardinality(Busy) < workers
  /\ Goto(s, "token")
  /\ task' = [task EXCEPT ![s] = IF life[s] = "live" THEN "render" ELSE "delete"]
  /\ excused' = [excused EXCEPT ![s] = FALSE]
  /\ outcome' = [outcome EXCEPT ![s] = "none"]
  /\ UNCHANGED <<world, account, caches, life, held, retried, epoch, skipped, budget>>

-----------------------------------------------------------------------------
(* A third of what remains of a token's life, when that is less. *)
refreshMarginFor(remaining) ==
  IF remaining > 0 /\ remaining \div 3 < Margin THEN remaining \div 3 ELSE Margin

Hit == cached # NoEntry /\ cached.token.age < cached.refreshAge

(* The lookup before the flight and the one inside it are one step: what   *)
(* lands between a miss and the flight, the second lookup finds.           *)
Lookup(s) ==
  /\ pc[s] = "token"
  /\ \/ Hit /\ held' = [held EXCEPT ![s] = cached.token] /\ Goto(s, "client")
        /\ UNCHANGED flight
     \/ ~Hit /\ Goto(s, "wait") /\ UNCHANGED held
        /\ flight' = IF flight = NoFlight
                        THEN [phase |-> "asked", token |-> NoToken, intact |-> TRUE]
                        ELSE flight
  /\ UNCHANGED <<world, account, cached, client, evicted, life, task, retried, epoch,
                 outcome, excused, skipped, budget>>

Waiting == {s \in Snippets : pc[s] = "wait"}

(* The API server signs a token for the account that is there. *)
MintAnswers ==
  /\ flight.phase = "asked" /\ account.exists
  /\ flight' = [flight EXCEPT !.phase = "answered",
                              !.token = [uid |-> account.uid, age |-> 0]]
  /\ UNCHANGED <<world, account, cached, client, evicted, life, pc, task, held,
                 retried, epoch, outcome, excused, skipped, budget>>

(* It refuses, or the request fails: every waiter gets the error.  On the  *)
(* deletion path the wait may have run out, or the error be permanent; in  *)
(* a retry it is, for the 401 stays at the head of the chain.              *)
MintFails ==
  /\ flight.phase = "asked"
  /\ \/ ~account.exists /\ NoMintFault
     \/ MintFault
  /\ flight' = NoFlight
  /\ \E forced \in SUBSET {s \in Waiting : task[s] = "delete"} :
       /\ \A s \in Waiting : retried[s] /\ task[s] = "delete" => s \in forced
       /\ pc' = [s \in Snippets |-> IF s \in forced THEN "finalizer"
                                    ELSE IF s \in Waiting THEN "idle" ELSE pc[s]]
  /\ outcome' = [s \in Snippets |-> IF s \in Waiting THEN "none" ELSE outcome[s]]
  /\ excused' = [s \in Snippets |-> excused[s] /\ s \notin Waiting]
  /\ held' = [s \in Snippets |-> IF s \in Waiting THEN NoToken ELSE held[s]]
  /\ retried' = [s \in Snippets |-> retried[s] /\ s \notin Waiting]
  /\ task' = [s \in Snippets |-> IF s \in Waiting THEN "render" ELSE task[s]]
  /\ UNCHANGED <<world, account, cached, client, evicted, life, epoch, skipped>>

(* Mutant: the write does not look whether an eviction came in between. *)
AlwaysWrites == TRUE

Writes == flight.intact

(* The write is dropped when an eviction came in between; the waiters get  *)
(* the token all the same.                                                 *)
MintLands ==
  /\ flight.phase = "answered"
  /\ cached' = IF Writes
                 THEN [token |-> flight.token,
                       refreshAge |-> lifetime - refreshMarginFor(lifetime - flight.token.age)]
                 ELSE cached
  /\ held' = [s \in Snippets |-> IF s \in Waiting THEN flight.token ELSE held[s]]
  /\ pc' = [s \in Snippets |-> IF s \in Waiting THEN "client" ELSE pc[s]]
  /\ flight' = NoFlight
  /\ UNCHANGED <<world, account, client, evicted, life, task, retried, epoch,
                 outcome, excused, skipped, budget>>

-----------------------------------------------------------------------------
(* tenantClientCache.Get: a hit only for a client built with this token. *)
GetClient(s) ==
  /\ pc[s] = "client"
  /\ \/ client = held[s] /\ Goto(s, "call") /\ UNCHANGED epoch
     \/ client # held[s] /\ Goto(s, "build") /\ epoch' = [epoch EXCEPT ![s] = TRUE]
  /\ UNCHANGED <<world, account, caches, life, task, held, retried, outcome, excused,
                 skipped, budget>>

PutClient(s) ==
  /\ pc[s] = "build"
  /\ client' = IF epoch[s] THEN held[s] ELSE client
  /\ epoch' = [epoch EXCEPT ![s] = FALSE]
  /\ Goto(s, "call")
  /\ UNCHANGED <<world, account, cached, flight, evicted, life, task, held, retried,
                 outcome, excused, skipped, budget>>

Authenticates(token) ==
  account.exists /\ token.uid = account.uid /\ token.age < lifetime

(* The call ends the reconcile, or, on the deletion path, lets the         *)
(* finalizer go.                                                           *)
Ends(s, result, letsGo) ==
  /\ Goto(s, IF letsGo THEN "finalizer" ELSE "idle")
  /\ held' = [held EXCEPT ![s] = NoToken]
  /\ retried' = [retried EXCEPT ![s] = FALSE]
  /\ task' = [task EXCEPT ![s] = "render"]
  /\ excused' = [excused EXCEPT ![s] = @ /\ result = "refused"]
  /\ outcome' = [outcome EXCEPT ![s] = result]

(* The tenant call gets through. *)
CallWorks(s) ==
  /\ pc[s] = "call" /\ Authenticates(held[s])
  /\ Ends(s, "ok", task[s] = "delete")
  /\ UNCHANGED <<world, account, caches, life, epoch, skipped, budget>>

(* Any error but a 401 is returned as it is.  classifyWithdrawFailure: one *)
(* that is permanent, or comes when the wait is over, forces the deletion. *)
CallFails(s) ==
  /\ pc[s] = "call" /\ MintFault
  /\ \E forced \in BOOLEAN : Ends(s, "none", forced /\ task[s] = "delete")
  /\ UNCHANGED <<world, account, caches, life, epoch, skipped>>

(* A 401: refresh once, then give up. *)
CallUnauthorized(s) ==
  /\ pc[s] = "call" /\ ~Authenticates(held[s])
  /\ \/ /\ ~retried[s]
        /\ Goto(s, "evict")
        /\ excused' = [excused EXCEPT ![s] = ~account.exists]
        /\ UNCHANGED <<task, held, retried, outcome>>
     \/ retried[s] /\ Ends(s, "refused", task[s] = "delete")
  /\ UNCHANGED <<world, account, caches, life, epoch, skipped, budget>>

(* The Update that removes the finalizer.  After an error the handler      *)
(* returns without evicting; had the Update landed, no retry finds the     *)
(* snippet again.                                                          *)
RemoveFinalizer(s) ==
  /\ pc[s] = "finalizer"
  /\ \/ /\ Goto(s, "forget") /\ NoMintFault /\ UNCHANGED skipped
        /\ life' = [life EXCEPT ![s] = "gone"]
     \/ /\ Goto(s, "idle") /\ MintFault /\ skipped' = TRUE
        /\ life' = [life EXCEPT ![s] = "gone"]
     \/ Goto(s, "idle") /\ MintFault /\ UNCHANGED <<life, skipped>>
  /\ UNCHANGED <<world, account, caches, task, held, retried, epoch, outcome, excused>>

-----------------------------------------------------------------------------
(* Mutant: the counter moves and the entry stays. *)
KeepsEntry == cached

EntryAfterForget == NoEntry

(* forgetTenant: tokenCache.Forget, then tenantClientCache.Forget. *)
Forget(s) ==
  /\ pc[s] = "evict"
  /\ cached' = EntryAfterForget
  /\ flight' = [flight EXCEPT !.intact = FALSE]
  /\ evicted' = IF account.exists THEN account.uid ELSE account.uid + 1
  /\ skipped' = FALSE
  /\ Goto(s, "evictclient")
  /\ UNCHANGED <<world, account, client, life, task, held, retried, epoch, outcome, excused,
                 budget>>

(* Mutant: the client built around the token is left where it is. *)
KeepsClient == client

ClientAfterForget == NoToken

ForgetClient(s) ==
  /\ pc[s] = "evictclient"
  /\ client' = ClientAfterForget
  /\ epoch' = [o \in Snippets |-> FALSE]
  /\ \/ /\ life[s] \in {"live", "deleting"} /\ Goto(s, "token")
        /\ retried' = [retried EXCEPT ![s] = TRUE]
     \/ life[s] = "gone" /\ Goto(s, "idle") /\ UNCHANGED retried
  /\ UNCHANGED <<world, account, cached, flight, evicted, life, task, held, outcome,
                 excused, skipped, budget>>

(* isLastSnippetUsingSA: snippets on their way out do not count. *)
LastUser(s) == \A o \in Snippets \ {s} : life[o] # "live"

(* forgetPerSnippetCaches: nothing is evicted when the List fails. *)
ForgetSnippet(s) ==
  /\ pc[s] = "forget"
  /\ \/ LastUser(s) /\ Goto(s, "evict") /\ NoMintFault /\ UNCHANGED skipped
     \/ ~LastUser(s) /\ Goto(s, "idle") /\ NoMintFault /\ UNCHANGED skipped
     \/ MintFault /\ Goto(s, "idle") /\ skipped' = TRUE
  /\ UNCHANGED <<world, account, caches, life, task, held, retried, epoch, outcome, excused>>

-----------------------------------------------------------------------------
DeleteSnippet(s) ==
  /\ life[s] = "live"
  /\ life' = [life EXCEPT ![s] = "deleting"]
  /\ UNCHANGED <<world, account, caches, pc, task, held, retried, epoch, outcome, excused,
                 skipped, budget>>

Retrying(s) == retried[s] \/ pc[s] \in {"evict", "evictclient"}

DeleteAccount ==
  /\ account.exists
  /\ account' = [account EXCEPT !.exists = FALSE]
  /\ excused' = [s \in Snippets |-> excused[s] \/ Retrying(s)]
  /\ UNCHANGED <<world, caches, life, pc, task, held, retried, epoch, outcome, skipped, budget>>

RecreateAccount ==
  /\ ~account.exists /\ account.uid < MaxUid
  /\ account' = [uid |-> account.uid + 1, exists |-> TRUE]
  /\ UNCHANGED <<world, caches, life, pc, task, held, retried, epoch, outcome, excused,
                 skipped, budget>>

Older(token) ==
  IF token = NoToken \/ token.age = lifetime THEN token ELSE [token EXCEPT !.age = @ + 1]

(* The API server grants at least ten minutes, so a token does not expire  *)
(* on its way from the mint, nor before the call it is minted for.         *)
Prompt ==
  /\ flight.phase = "answered" => flight.token.age + 1 < lifetime
  /\ \A s \in Snippets : retried[s] /\ pc[s] \in {"client", "build", "call"}
                           => held[s].age + 1 < lifetime

TimePasses ==
  /\ Prompt
  /\ cached' = [cached EXCEPT !.token = Older(@)]
  /\ flight' = [flight EXCEPT !.token = Older(@)]
  /\ client' = Older(client)
  /\ held' = [s \in Snippets |-> Older(held[s])]
  /\ UNCHANGED <<world, account, evicted, life, pc, task, retried, epoch, outcome, excused,
                 skipped, budget>>

ReconcileStep(s) ==
  \/ Lookup(s) \/ GetClient(s) \/ PutClient(s)
  \/ CallWorks(s) \/ CallFails(s) \/ CallUnauthorized(s) \/ RemoveFinalizer(s)
  \/ Forget(s) \/ ForgetClient(s) \/ ForgetSnippet(s)

Mint == MintAnswers \/ MintFails \/ MintLands

TenantNext ==
  \/ \E s \in Snippets : Begin(s) \/ ReconcileStep(s) \/ DeleteSnippet(s)
  \/ Mint \/ DeleteAccount \/ RecreateAccount \/ TimePasses

TenantSpec == TenantInit /\ [][TenantNext]_tenantVars

(* The workqueue is first in, first out, and a reconcile is repeated; the  *)
(* mint has a timeout of its own.                                          *)
TenantFairness ==
  /\ \A s \in Snippets : SF_tenantVars(Begin(s)) /\ WF_tenantVars(ReconcileStep(s))
  /\ WF_tenantVars(Mint)

FairTenantSpec == TenantSpec /\ TenantFairness

-----------------------------------------------------------------------------
(* An evicted credential stays out: no mint that was under way when it was *)
(* evicted puts a token of an earlier account back.                        *)
NoResurrection == cached # NoEntry => cached.token.uid >= evicted

(* When the last snippet is gone, nothing of the tenant is left in the     *)
(* caches, unless an eviction was skipped and none has come since: the     *)
(* List that decides about it failed, or the finalizer went by an Update   *)
(* that answered with an error.                                            *)
NothingLeft ==
  (\A s \in Snippets : life[s] = "gone" /\ pc[s] = "idle") /\ ~skipped
    => cached = NoEntry /\ client = NoToken

(* With one worker a call is refused for good only if the account was away *)
(* after its first 401: the retry runs with a token minted after it.       *)
RefusedForCause ==
  workers = 1 => \A s \in Snippets : outcome[s] = "refused" => excused[s]

(* While the account stays, calls as the tenant keep getting through,      *)
(* however dead the cached credential was.                                 *)
AccessRecovers ==
  \A s \in Snippets :
    <>[](account.exists /\ life[s] = "live") => []<>(outcome[s] = "ok")

=============================================================================
