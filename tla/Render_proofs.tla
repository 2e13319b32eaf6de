---------------------------- MODULE Render_proofs ----------------------------
(***************************************************************************)
(* The two guards on a render, for any number of snippets, libraries,      *)
(* workers, edits and retries, of concurrent calls and any cap:            *)
(*   - the loop check of the reconciler: no loop of snippets goes          *)
(*     unnoticed and no refusal goes without a cause;                      *)
(*   - the gate on evaluations: the cap holds, and turns nobody away       *)
(*     before it is reached.                                               *)
(***************************************************************************)
EXTENDS DependencyCycles, EvalGate, FiniteSetTheorems, WellFoundedInduction, TLAPS

-----------------------------------------------------------------------------
(* The loop check: types and copies.                                       *)

Specs == [source : Snippets \cup {None}, libraries : SUBSET Libraries,
          good : BOOLEAN, generation : Nat]
Phases == {"idle", "lookup", "walk", "found", "store", "render", "publish"}

(* What a reconcile keeps per snippet, and what everybody shares.          *)
RowTypes ==
  /\ pc \in [Snippets -> Phases] /\ snip \in [Snippets -> Specs]
  /\ frontier \in [Snippets -> SUBSET Snippets] /\ visited \in [Snippets -> SUBSET Snippets]
  /\ tries \in [Snippets -> Nat]
  /\ entries \in [Snippets -> [generation : Nat, hasCycle : BOOLEAN]]
  /\ outcome \in [Snippets -> {"none", "cycle", "failed", "synced"}]

SharedTypes ==
  /\ spec \in [Snippets -> Specs] /\ cached \in [Snippets -> Specs]
  /\ libs \in [Libraries -> Snippets \cup {None}]
  /\ cachedLibs \in [Libraries -> Snippets \cup {None}]
  /\ eaEvents \subseteq Snippets

CycleTypes == RowTypes /\ SharedTypes

(* A copy lags behind the API server and differs from it only if its       *)
(* generation does; whoever works on an old one is queued again.           *)
KeepsUp(s) ==
  /\ spec[s].generation = 0 => spec[s] = Absent
  /\ cached[s].generation <= spec[s].generation
  /\ cached[s].generation = spec[s].generation => cached[s] = spec[s]
  /\ snip[s].generation <= cached[s].generation
  /\ pc[s] # "idle" =>
       IF snip[s].generation = cached[s].generation THEN snip[s] = cached[s] ELSE s \in queued
  /\ entries[s].generation <= cached[s].generation
  /\ frontier[s] \subseteq visited[s]

LibrariesKeepUp == \A l \in Libraries : cachedLibs[l] # libs[l] => l \in libEvents

KindInv == CycleTypes /\ LibrariesKeepUp /\ \A s \in Snippets : KeepsUp(s)

-----------------------------------------------------------------------------
(* What a worker's step does to the snippet it works on, and to no other.  *)

OthersKept(s) ==
  \A t \in Snippets \ {s} :
    /\ pc'[t] = pc[t] /\ snip'[t] = snip[t] /\ entries'[t] = entries[t]
    /\ frontier'[t] = frontier[t] /\ visited'[t] = visited[t]
    /\ tries'[t] = tries[t] /\ outcome'[t] = outcome[t]

Given(s, hasCycle) ==
  IF hasCycle THEN pc'[s] = "idle" /\ snip'[s] = Absent /\ outcome'[s] = "cycle"
              ELSE pc'[s] = "render" /\ snip'[s] = snip[s] /\ outcome'[s] = outcome[s]

TakesUp(s) ==
  /\ pc[s] = "idle" /\ s \in queued /\ queued' = queued \ {s}
  /\ pc'[s] = "lookup" /\ snip'[s] = cached[s] /\ entries'[s] = entries[s]
  /\ UNCHANGED <<overtaken, eaEvents, frontier, visited>>

Hits(s) ==
  /\ pc[s] = "lookup" /\ entries[s].generation = snip[s].generation
  /\ Given(s, entries[s].hasCycle) /\ entries'[s] = entries[s]
  /\ UNCHANGED <<queued, overtaken, eaEvents, frontier, visited>>

WalksAfresh(s) ==
  /\ pc[s] \in {"lookup", "found", "store"} /\ pc'[s] = "walk"
  /\ snip'[s] = snip[s] /\ entries'[s] = entries[s] /\ outcome'[s] = outcome[s]
  /\ frontier'[s] = {s} /\ visited'[s] = {s}
  /\ overtaken' \in {overtaken, overtaken \ {s}}
  /\ UNCHANGED <<queued, eaEvents>>

Expands(s) ==
  /\ pc[s] = "walk"
  /\ snip'[s] = snip[s] /\ entries'[s] = entries[s] /\ outcome'[s] = outcome[s]
  /\ UNCHANGED <<queued, overtaken, eaEvents>>
  /\ \E cur \in frontier[s] :
       LET deps == Fetched(IF cur = s THEN snip[s] ELSE spec[cur])
           rest == (frontier[s] \ {cur})
                     \cup {d \in deps \ visited[s] : spec[d].generation > 0}
       IN  \/ s \in deps /\ pc'[s] = "found" /\ frontier'[s] = {}
           \/ /\ s \notin deps /\ pc'[s] = "walk"
              /\ frontier'[s] = rest /\ visited'[s] = visited[s] \cup deps
           \/ s \notin deps /\ rest = {} /\ pc'[s] = "store" /\ frontier'[s] = {}

Concludes(s) ==
  /\ pc[s] \in {"store", "found"} /\ Given(s, pc[s] = "found")
  /\ \/ entries'[s] = entries[s]
     \/ /\ s \notin overtaken
        /\ entries'[s] = [generation |-> snip[s].generation, hasCycle |-> pc[s] = "found"]
  /\ UNCHANGED <<queued, overtaken, eaEvents, frontier, visited>>

LooksAgain(s) ==
  /\ pc[s] \in {"store", "found"} /\ pc'[s] = "lookup"
  /\ snip'[s] = snip[s] /\ entries'[s] = entries[s] /\ outcome'[s] = outcome[s]
  /\ UNCHANGED <<queued, overtaken, eaEvents, frontier, visited>>

Renders(s) ==
  /\ pc[s] = "render" /\ entries'[s] = entries[s]
  /\ \/ pc'[s] = "publish" /\ snip'[s] = snip[s] /\ outcome'[s] = outcome[s]
     \/ pc'[s] = "idle" /\ snip'[s] = Absent /\ outcome'[s] = "failed"
  /\ UNCHANGED <<queued, overtaken, eaEvents, frontier, visited>>

Publishes(s) ==
  /\ pc[s] = "publish" /\ pc'[s] = "idle" /\ snip'[s] = Absent /\ entries'[s] = entries[s]
  /\ \/ outcome'[s] = "synced" /\ eaEvents' = eaEvents \cup {s}
     \/ /\ spec[s].generation # snip[s].generation
        /\ outcome'[s] = outcome[s] /\ eaEvents' = eaEvents
  /\ UNCHANGED <<queued, overtaken, frontier, visited>>

WorkerStep(s) ==
  /\ RowTypes' /\ OthersKept(s)
  /\ UNCHANGED <<spec, libs, cached, cachedLibs, libEvents, toForget, toEnqueue>>
  /\ \/ TakesUp(s) \/ Hits(s) \/ WalksAfresh(s) \/ Expands(s)
     \/ Concludes(s) \/ LooksAgain(s) \/ Renders(s) \/ Publishes(s)

(* From one step of the reconcile to the next.                             *)
LEMMA GotoSteps ==
  ASSUME RowTypes, NEW s \in Snippets, NEW p \in Phases, Goto(s, p)
  PROVE  pc' \in [Snippets -> Phases] /\ pc'[s] = p
BY DEF RowTypes, Goto

(* The end of a reconcile.                                                 *)
LEMMA DoneClears ==
  ASSUME RowTypes, NEW s \in Snippets, Done(s)
  PROVE  /\ pc' \in [Snippets -> Phases] /\ snip' \in [Snippets -> Specs]
         /\ tries' \in [Snippets -> Nat]
         /\ pc'[s] = "idle" /\ snip'[s] = Absent
<1>1. Absent \in Specs
  BY DEF Absent, Specs
<1>2. pc' \in [Snippets -> Phases] /\ pc'[s] = "idle"
  BY DEF RowTypes, Done, Goto, Phases
<1> QED
  BY <1>1, <1>2 DEF RowTypes, Done

(* A verdict is a refusal or the way to the render.                        *)
LEMMA JudgeGives ==
  ASSUME RowTypes, NEW s \in Snippets, NEW hasCycle \in BOOLEAN, Judge(s, hasCycle)
  PROVE  /\ pc' \in [Snippets -> Phases] /\ snip' \in [Snippets -> Specs]
         /\ tries' \in [Snippets -> Nat]
         /\ outcome' \in [Snippets -> {"none", "cycle", "failed", "synced"}]
         /\ Given(s, hasCycle)
<1>1. CASE hasCycle
  <2>1. Done(s) /\ outcome' = [outcome EXCEPT ![s] = "cycle"]
    BY <1>1 DEF Judge
  <2>2. outcome' \in [Snippets -> {"none", "cycle", "failed", "synced"}] /\ outcome'[s] = "cycle"
    BY <2>1 DEF RowTypes
  <2> QED
    BY <1>1, <2>1, <2>2, DoneClears DEF Given
<1>2. CASE ~hasCycle
  <2>1. Goto(s, "render") /\ UNCHANGED <<snip, tries, outcome>>
    BY <1>2 DEF Judge
  <2> QED
    BY <1>2, <2>1, GotoSteps DEF RowTypes, Phases, Given
<1> QED
  BY <1>1, <1>2

(* A walk starts over from the snippet itself, ...                         *)
LEMMA StartWalkSets ==
  ASSUME RowTypes, NEW s \in Snippets, StartWalk(s)
  PROVE  /\ frontier' \in [Snippets -> SUBSET Snippets]
         /\ visited' \in [Snippets -> SUBSET Snippets]
         /\ frontier'[s] = {s} /\ visited'[s] = {s}
BY DEF RowTypes, StartWalk

(* ... and leaves nothing behind.                                          *)
LEMMA ClearWalkSets ==
  ASSUME RowTypes, NEW s \in Snippets, ClearWalk(s)
  PROVE  /\ frontier' \in [Snippets -> SUBSET Snippets]
         /\ visited' \in [Snippets -> SUBSET Snippets]
         /\ frontier'[s] = {} /\ visited'[s] = {}
BY DEF RowTypes, ClearWalk

(* What a snippet is made of are snippets, and the walk looks at all of it.*)
LEMMA DependenciesAreSnippets ==
  ASSUME SharedTypes, NEW x \in Specs
  PROVE  Fetched(x) \subseteq Snippets /\ SnippetDependencies(x) = Fetched(x)
BY DEF SharedTypes, Specs, Fetched, SnippetDependencies

(* Lookup: a hit or a fresh walk.                                          *)
LEMMA LookupStep ==
  ASSUME CycleTypes, NEW s \in Snippets, Lookup(s)
  PROVE  RowTypes' /\ (Hits(s) \/ WalksAfresh(s))
<1>0. RowTypes /\ pc[s] = "lookup" /\ UNCHANGED <<queued, eaEvents, entries>>
      /\ entries[s].hasCycle \in BOOLEAN
  BY DEF CycleTypes, RowTypes, Lookup, events
<1>1. CASE /\ entries[s].generation = snip[s].generation /\ Judge(s, entries[s].hasCycle)
           /\ UNCHANGED <<walk, overtaken>>
  BY <1>0, <1>1, JudgeGives DEF RowTypes, Hits, walk
<1>2. CASE /\ StartWalk(s) /\ Goto(s, "walk") /\ overtaken' = overtaken \ {s}
           /\ UNCHANGED <<snip, tries, outcome>>
  BY <1>0, <1>2, StartWalkSets, GotoSteps DEF RowTypes, Phases, WalksAfresh
<1> QED
  BY <1>1, <1>2 DEF Lookup

(* The expansion of one snippet.                                           *)
LEMMA WalkStep ==
  ASSUME CycleTypes, NEW s \in Snippets, Walk(s)
  PROVE  RowTypes' /\ Expands(s)
<1>0. /\ RowTypes /\ SharedTypes /\ pc[s] = "walk"
      /\ UNCHANGED <<queued, eaEvents, overtaken, entries, snip, tries, outcome>>
  BY DEF CycleTypes, Walk, events
<1>1. PICK cur \in frontier[s] :
        LET deps == SnippetDependencies(IF cur = s THEN snip[s] ELSE spec[cur])
            new  == {d \in deps \ visited[s] : spec[d].generation > 0}
            rest == (frontier[s] \ {cur}) \cup new
        IN  \/ s \in deps /\ ClearWalk(s) /\ Goto(s, "found")
            \/ /\ s \notin deps /\ rest # {}
               /\ frontier' = [frontier EXCEPT ![s] = rest]
               /\ visited' = [visited EXCEPT ![s] = @ \cup deps]
               /\ UNCHANGED pc
            \/ s \notin deps /\ rest = {} /\ ClearWalk(s) /\ Goto(s, "store")
  BY DEF Walk
<1> DEFINE x == IF cur = s THEN snip[s] ELSE spec[cur]
           deps == Fetched(x)
           rest == (frontier[s] \ {cur}) \cup {d \in deps \ visited[s] : spec[d].generation > 0}
<1>2. x \in Specs
  BY <1>0 DEF RowTypes, SharedTypes
<1>3. deps \subseteq Snippets /\ SnippetDependencies(x) = deps
  BY <1>0, <1>2, DependenciesAreSnippets
<1>4. frontier[s] \subseteq Snippets /\ visited[s] \subseteq Snippets /\ rest \subseteq Snippets
  BY <1>0, <1>3 DEF RowTypes
<1> HIDE DEF deps, rest
<1>5. \/ s \in deps /\ ClearWalk(s) /\ Goto(s, "found")
      \/ /\ s \notin deps
         /\ frontier' = [frontier EXCEPT ![s] = rest]
         /\ visited' = [visited EXCEPT ![s] = @ \cup deps]
         /\ UNCHANGED pc
      \/ s \notin deps /\ rest = {} /\ ClearWalk(s) /\ Goto(s, "store")
  BY <1>1, <1>3 DEF rest
<1>6. CASE s \in deps /\ ClearWalk(s) /\ Goto(s, "found")
  BY <1>0, <1>6, ClearWalkSets, GotoSteps DEF RowTypes, Phases, Expands, deps
<1>7. CASE /\ s \notin deps
           /\ frontier' = [frontier EXCEPT ![s] = rest]
           /\ visited' = [visited EXCEPT ![s] = @ \cup deps]
           /\ UNCHANGED pc
  <2>1. /\ frontier' \in [Snippets -> SUBSET Snippets] /\ visited' \in [Snippets -> SUBSET Snippets]
        /\ frontier'[s] = rest /\ visited'[s] = visited[s] \cup deps
    BY <1>0, <1>3, <1>4, <1>7 DEF RowTypes
  <2>2. RowTypes'
    BY <1>0, <1>7, <2>1 DEF RowTypes
  <2>3. Expands(s)
    BY <1>0, <1>7, <2>1 DEF Expands, deps, rest
  <2> QED
    BY <2>2, <2>3
<1>8. CASE s \notin deps /\ rest = {} /\ ClearWalk(s) /\ Goto(s, "store")
  BY <1>0, <1>8, ClearWalkSets, GotoSteps DEF RowTypes, Phases, Expands, deps, rest
<1> QED
  BY <1>5, <1>6, <1>7, <1>8

(* Store: the verdict counts, or the walk is done again.                   *)
LEMMA StoreStep ==
  ASSUME CycleTypes, NEW s \in Snippets, Store(s)
  PROVE  RowTypes' /\ (Concludes(s) \/ LooksAgain(s) \/ WalksAfresh(s))
<1>0. RowTypes /\ pc[s] \in {"store", "found"} /\ UNCHANGED <<queued, eaEvents, overtaken>>
      /\ (pc[s] = "found") \in BOOLEAN
  BY DEF CycleTypes, Store, events
<1>1. CASE /\ Stores(s)
           /\ entries' = [entries EXCEPT ![s] = [generation |-> snip[s].generation,
                                                 hasCycle |-> pc[s] = "found"]]
           /\ Judge(s, pc[s] = "found") /\ UNCHANGED walk
  <2>1. [generation |-> snip[s].generation, hasCycle |-> pc[s] = "found"]
          \in [generation : Nat, hasCycle : BOOLEAN]
    BY <1>0 DEF RowTypes, Specs
  <2>2. /\ entries' \in [Snippets -> [generation : Nat, hasCycle : BOOLEAN]]
        /\ entries'[s] = [generation |-> snip[s].generation, hasCycle |-> pc[s] = "found"]
    BY <1>0, <1>1, <2>1 DEF RowTypes
  <2>3. s \notin overtaken
    BY <1>1 DEF Stores
  <2> QED
    BY <1>0, <1>1, <2>2, <2>3, JudgeGives DEF RowTypes, Concludes, walk
<1>2. CASE Judge(s, pc[s] = "found") /\ UNCHANGED <<entries, walk>>
  BY <1>0, <1>2, JudgeGives DEF RowTypes, Concludes, walk
<1>3. CASE /\ tries' = [tries EXCEPT ![s] = @ + 1]
           /\ IF tries[s] + 1 < Verdicts
                THEN Goto(s, "lookup") /\ UNCHANGED walk
                ELSE Goto(s, "walk") /\ StartWalk(s)
           /\ UNCHANGED <<entries, snip, outcome>>
  <2>1. tries' \in [Snippets -> Nat]
    BY <1>0, <1>3 DEF RowTypes
  <2>2. CASE Goto(s, "lookup") /\ UNCHANGED walk
    BY <1>0, <1>3, <2>1, <2>2, GotoSteps DEF RowTypes, Phases, LooksAgain, walk
  <2>3. CASE Goto(s, "walk") /\ StartWalk(s)
    BY <1>0, <1>3, <2>1, <2>3, GotoSteps, StartWalkSets DEF RowTypes, Phases, WalksAfresh
  <2> QED
    BY <1>3, <2>2, <2>3
<1> QED
  BY <1>1, <1>2, <1>3 DEF Store

(* Every step of a worker is one of these.                                 *)
LEMMA WorkerSteps ==
  ASSUME CycleTypes, NEW s \in Snippets, Worker(s)
  PROVE  WorkerStep(s) /\ eaEvents' \subseteq Snippets
<1>0. RowTypes /\ SharedTypes
  BY DEF CycleTypes
<1> USE DEF WorkerStep
<1>1. CASE Reconcile(s)
  <2>1. Goto(s, "lookup") /\ s \in queued /\ pc[s] = "idle"
        /\ snip' = [snip EXCEPT ![s] = cached[s]] /\ queued' = queued \ {s}
        /\ UNCHANGED <<eaEvents, frontier, visited, tries, entries, outcome, overtaken>>
        /\ UNCHANGED <<spec, libs, cached, cachedLibs, libEvents, toForget, toEnqueue>>
    BY <1>1 DEF Reconcile, Busy, api, caches, events, walk
  <2>2. snip' \in [Snippets -> Specs] /\ snip'[s] = cached[s]
    BY <1>0, <2>1 DEF RowTypes, SharedTypes
  <2>3. RowTypes' /\ TakesUp(s)
    BY <1>0, <2>1, <2>2, GotoSteps DEF RowTypes, Phases, TakesUp
  <2>4. OthersKept(s)
    BY <1>0, <2>1 DEF RowTypes, OthersKept, Goto
  <2> QED
    BY <1>0, <2>1, <2>3, <2>4 DEF SharedTypes
<1>2. CASE Lookup(s)
  <2>1. OthersKept(s)
    BY <1>0, <1>2 DEF Lookup, Judge, Done, StartWalk, Goto, RowTypes, OthersKept, walk
  <2> QED
    BY <1>0, <1>2, <2>1, LookupStep DEF Lookup, api, caches, events, SharedTypes
<1>3. CASE Walk(s)
  <2>1. OthersKept(s)
    BY <1>0, <1>3 DEF Walk, ClearWalk, Goto, RowTypes, OthersKept
  <2> QED
    BY <1>0, <1>3, <2>1, WalkStep DEF Walk, api, caches, events, SharedTypes
<1>4. CASE Store(s)
  <2>1. OthersKept(s)
    BY <1>0, <1>4 DEF Store, Judge, Done, StartWalk, Goto, RowTypes, OthersKept, walk
  <2> QED
    BY <1>0, <1>4, <2>1, StoreStep DEF Store, api, caches, events, SharedTypes
<1>5. CASE Render(s)
  <2>1. OthersKept(s)
    BY <1>0, <1>5 DEF Render, Done, Goto, RowTypes, OthersKept, walk
  <2>2. RowTypes' /\ Renders(s)
    <3>1. CASE Goto(s, "publish") /\ UNCHANGED <<snip, tries, outcome>>
      BY <1>0, <1>5, <3>1, GotoSteps DEF Render, RowTypes, Phases, Renders, walk, events
    <3>2. CASE Done(s) /\ outcome' = [outcome EXCEPT ![s] = "failed"]
      BY <1>0, <1>5, <3>2, DoneClears DEF Render, RowTypes, Renders, walk, events
    <3> QED
      BY <1>5, <3>1, <3>2 DEF Render
  <2> QED
    BY <1>0, <1>5, <2>1, <2>2 DEF Render, api, caches, events, SharedTypes
<1>6. CASE Publish(s)
  <2>1. OthersKept(s)
    BY <1>0, <1>6 DEF Publish, Done, Goto, RowTypes, OthersKept, walk
  <2>2. RowTypes' /\ Publishes(s)
    BY <1>0, <1>6, DoneClears DEF Publish, RowTypes, Publishes, walk
  <2> QED
    BY <1>0, <1>6, <2>1, <2>2 DEF Publish, api, caches, SharedTypes
<1> QED
  BY <1>1, <1>2, <1>3, <1>4, <1>5, <1>6 DEF Worker

-----------------------------------------------------------------------------
(* Types and copies.                                                       *)

(* The initial states are well typed.                                      *)
LEMMA KindInit == Init => KindInv
<1> SUFFICES ASSUME Init PROVE KindInv
  OBVIOUS
<1>1. Absent \in Specs /\ Absent.generation = 0
  BY DEF Absent, Specs
<1>2. CycleTypes
  BY <1>1 DEF Init, CycleTypes, RowTypes, SharedTypes, Phases, NoEntry
<1>3. LibrariesKeepUp /\ \A s \in Snippets : KeepsUp(s)
  BY <1>1 DEF Init, LibrariesKeepUp, KeepsUp, NoEntry
<1> QED
  BY <1>2, <1>3 DEF KindInv

(* A worker keeps them, ...                                                *)
LEMMA WorkerKind ==
  ASSUME KindInv, NEW s \in Snippets, Worker(s)
  PROVE  KindInv'
<1>0. CycleTypes /\ WorkerStep(s) /\ eaEvents' \subseteq Snippets
  BY WorkerSteps DEF KindInv
<1>1. CycleTypes' /\ LibrariesKeepUp'
  BY <1>0 DEF KindInv, CycleTypes, SharedTypes, WorkerStep, LibrariesKeepUp
<1>2. ASSUME NEW t \in Snippets \ {s} PROVE KeepsUp(t)'
  <2>1. t \in queued' <=> t \in queued
    BY <1>0, <1>2 DEF WorkerStep, TakesUp, Hits, WalksAfresh, Expands, Concludes, LooksAgain,
       Renders, Publishes
  <2> QED
    BY <1>0, <1>2, <2>1 DEF KindInv, KeepsUp, WorkerStep, OthersKept
<1>3. KeepsUp(s)'
  <2>0. /\ KeepsUp(s) /\ spec' = spec /\ cached' = cached
        /\ spec[s].generation \in Nat /\ cached[s].generation \in Nat /\ snip[s].generation \in Nat
        /\ Absent.generation = 0
    BY <1>0 DEF KindInv, WorkerStep, CycleTypes, RowTypes, SharedTypes, Specs, Absent
  <2>1. CASE TakesUp(s)
    BY <2>0, <2>1 DEF TakesUp, KeepsUp
  <2>2. CASE Hits(s)
    BY <2>0, <2>2 DEF Hits, Given, KeepsUp
  <2>3. CASE WalksAfresh(s) \/ LooksAgain(s)
    BY <2>0, <2>3 DEF WalksAfresh, LooksAgain, KeepsUp
  <2>4. CASE Expands(s)
    BY <2>0, <2>4 DEF Expands, KeepsUp
  <2>5. CASE Concludes(s)
    BY <2>0, <2>5 DEF Concludes, Given, KeepsUp
  <2>6. CASE Renders(s) \/ Publishes(s)
    BY <2>0, <2>6 DEF Renders, Publishes, KeepsUp
  <2> QED
    BY <1>0, <2>1, <2>2, <2>3, <2>4, <2>5, <2>6 DEF WorkerStep
<1> QED
  BY <1>1, <1>2, <1>3 DEF KindInv

(* ... so do the watch handlers, ...                                       *)
LEMMA WatchKind ==
  ASSUME KindInv, NEW s \in Snippets, Watch(s) \/ Retry(s)
  PROVE  KindInv'
<1>0. CycleTypes /\ LibrariesKeepUp /\ \A t \in Snippets : KeepsUp(t)
  BY DEF KindInv
<1>1. CASE Forget(s)
  <2>1. /\ UNCHANGED <<spec, libs, cached, cachedLibs, eaEvents, libEvents, queued, pc, snip>>
        /\ UNCHANGED <<frontier, visited, tries, outcome>>
        /\ entries' = [entries EXCEPT ![s] = NoEntry]
    BY <1>1 DEF Forget, Evict, api, caches, walk
  <2>2. entries' \in [Snippets -> [generation : Nat, hasCycle : BOOLEAN]]
    BY <1>0, <2>1 DEF CycleTypes, RowTypes, NoEntry
  <2>3. \A t \in Snippets : entries'[t] \in {entries[t], NoEntry}
    BY <1>0, <2>1 DEF CycleTypes, RowTypes
  <2>4. ASSUME NEW t \in Snippets PROVE KeepsUp(t)'
    BY <1>0, <2>1, <2>3 DEF KeepsUp, NoEntry, CycleTypes, SharedTypes, Specs
  <2> QED
    BY <1>0, <2>1, <2>2, <2>4 DEF KindInv, CycleTypes, RowTypes, SharedTypes, LibrariesKeepUp
<1>2. CASE Enqueue(s) \/ Retry(s) \/ ArtifactEvent(s)
  <2>1. /\ UNCHANGED <<spec, libs, cached, cachedLibs, libEvents, pc, snip, entries>>
        /\ UNCHANGED <<frontier, visited, tries, outcome>>
        /\ queued \subseteq queued' /\ eaEvents' \subseteq eaEvents
    BY <1>2 DEF Enqueue, Retry, ArtifactEvent, api, caches, events, walk
  <2>2. \A t \in Snippets : KeepsUp(t)'
    BY <1>0, <2>1 DEF KeepsUp
  <2> QED
    BY <1>0, <2>1, <2>2 DEF KindInv, CycleTypes, RowTypes, SharedTypes, LibrariesKeepUp
<1>3. CASE SnippetEvent(s)
  <2>1. /\ UNCHANGED <<spec, libs, cachedLibs, eaEvents, libEvents, pc, snip, entries>>
        /\ UNCHANGED <<frontier, visited, tries, outcome>>
        /\ queued' = queued \cup {s} /\ cached' = [cached EXCEPT ![s] = spec[s]]
    BY <1>3 DEF SnippetEvent, api, events, walk
  <2>2. cached' \in [Snippets -> Specs] /\ cached'[s] = spec[s]
        /\ \A t \in Snippets \ {s} : cached'[t] = cached[t]
    BY <1>0, <2>1 DEF CycleTypes, SharedTypes
  <2>3. ASSUME NEW t \in Snippets PROVE KeepsUp(t)'
    <3>1. CASE t # s
      BY <1>0, <2>1, <2>2, <3>1 DEF KeepsUp
    <3>2. CASE t = s
      <4>1. /\ KeepsUp(s) /\ cached[s] # spec[s]
            /\ spec[s].generation \in Nat /\ cached[s].generation \in Nat
            /\ snip[s].generation \in Nat /\ entries[s].generation \in Nat
        BY <1>0, <1>3 DEF SnippetEvent, CycleTypes, RowTypes, SharedTypes, Specs
      <4> QED
        BY <2>1, <2>2, <3>2, <4>1 DEF KeepsUp
    <3> QED
      BY <3>1, <3>2
  <2> QED
    BY <1>0, <2>1, <2>2, <2>3 DEF KindInv, CycleTypes, RowTypes, SharedTypes, LibrariesKeepUp
<1> QED
  BY <1>1, <1>2, <1>3 DEF Watch

(* An edit of a snippet moves its generation.                              *)
LEMMA EditedSpec ==
  ASSUME CycleTypes, NEW s \in Snippets, EditSnippet(s)
  PROVE  /\ spec' \in [Snippets -> Specs]
         /\ spec'[s].generation = spec[s].generation + 1
         /\ \A t \in Snippets \ {s} : spec'[t] = spec[t]
         /\ UNCHANGED <<libs, cached, cachedLibs, ea, eaEvents, libEvents, toForget, toEnqueue>>
         /\ UNCHANGED <<queued, pc, snip, frontier, visited, tries, entries, overtaken, outcome>>
<1>0. spec \in [Snippets -> Specs]
  BY DEF CycleTypes, SharedTypes
<1>1. PICK choice \in Choices :
        spec' = [spec EXCEPT ![s] = Specified(choice, spec[s].generation + 1)]
  BY <1>0 DEF EditSnippet
<1> DEFINE new == Specified(choice, spec[s].generation + 1)
<1>2. new \in Specs /\ new.generation = spec[s].generation + 1
  <2>1. /\ choice[1] \in Snippets \cup {None} /\ choice[2] \in SUBSET Libraries
        /\ choice[3] \in BOOLEAN
    BY CycleConstants
  <2>2. spec[s].generation \in Nat
    BY <1>0 DEF Specs
  <2> QED
    BY <2>1, <2>2 DEF Specified, Specs
<1> HIDE DEF new
<1>3. spec' = [spec EXCEPT ![s] = new]
  BY <1>1 DEF new
<1> QED
  BY <1>0, <1>2, <1>3 DEF EditSnippet, caches, events, walk

(* ... the edits, and the delivery of a library.                           *)
LEMMA EditsKind ==
  ASSUME KindInv
  PROVE  /\ \A s \in Snippets : EditSnippet(s) => KindInv'
         /\ \A l \in Libraries : LibraryEvent(l) \/ EditLibrary(l) => KindInv'
<1>0. CycleTypes /\ LibrariesKeepUp /\ \A t \in Snippets : KeepsUp(t)
  BY DEF KindInv
<1>1. ASSUME NEW s \in Snippets, EditSnippet(s) PROVE KindInv'
  <2>1. ASSUME NEW t \in Snippets PROVE KeepsUp(t)'
    <3>1. /\ spec[t].generation \in Nat /\ cached[t].generation \in Nat
          /\ cached[t].generation <= spec[t].generation
      BY <1>0 DEF CycleTypes, SharedTypes, Specs, KeepsUp
    <3>2. CASE t = s
      BY <1>0, <1>1, <3>1, <3>2, EditedSpec DEF KeepsUp
    <3>3. CASE t # s
      BY <1>0, <1>1, <3>3, EditedSpec DEF KeepsUp
    <3> QED
      BY <3>2, <3>3
  <2>2. CycleTypes' /\ LibrariesKeepUp'
    BY <1>0, <1>1, EditedSpec DEF CycleTypes, RowTypes, SharedTypes, LibrariesKeepUp
  <2> QED
    BY <2>1, <2>2 DEF KindInv
<1>2. ASSUME NEW l \in Libraries, LibraryEvent(l) \/ EditLibrary(l) PROVE KindInv'
  <2>1. /\ UNCHANGED <<spec, cached, eaEvents, queued, pc, snip, entries, frontier, visited>>
        /\ UNCHANGED <<tries, outcome>>
    BY <1>2 DEF LibraryEvent, EditLibrary, api, caches, walk
  <2>2. \A t \in Snippets : KeepsUp(t)'
    BY <1>0, <2>1 DEF KeepsUp
  <2>3. /\ libs' \in [Libraries -> Snippets \cup {None}]
        /\ cachedLibs' \in [Libraries -> Snippets \cup {None}]
        /\ LibrariesKeepUp'
    <3>1. CASE LibraryEvent(l)
      BY <1>0, <3>1 DEF LibraryEvent, CycleTypes, SharedTypes, LibrariesKeepUp, api
    <3>2. CASE EditLibrary(l)
      BY <1>0, <3>2 DEF EditLibrary, CycleTypes, SharedTypes, LibrariesKeepUp, caches
    <3> QED
      BY <1>2, <3>1, <3>2
  <2> QED
    BY <1>0, <2>1, <2>2, <2>3 DEF KindInv, CycleTypes, RowTypes, SharedTypes
<1> QED
  BY <1>1, <1>2

(* Every step keeps the types and the copies.                              *)
LEMMA KindNext == KindInv /\ [Next]_vars => KindInv'
<1> SUFFICES ASSUME KindInv, [Next]_vars PROVE KindInv'
  OBVIOUS
<1>1. CASE UNCHANGED vars
  BY <1>1 DEF vars, KindInv, CycleTypes, RowTypes, SharedTypes, LibrariesKeepUp, KeepsUp
<1> QED
  BY <1>1, WorkerKind, WatchKind, EditsKind DEF Next

-----------------------------------------------------------------------------
(* Loops.                                                                  *)

(* A loop: its members read one another, and no part of it is closed.      *)
Loop(C) ==
  /\ C # {}
  /\ \A c \in C : Fetched(spec[c]) \cap C # {}
  /\ \A D \in SUBSET C :
       D # {} /\ D # C => \E d \in D : Fetched(spec[d]) \cap (C \ D) # {}

(* An event is on its way to s that will evict its verdict.                *)
Announced(s) ==
  cached[s] # spec[s] \/ s \in toForget \/ cached[s].libraries \cap libEvents # {}

(* The walk of s sees the loop as it is now, and has not lost it.          *)
Explores(s, C) ==
  /\ pc[s] = "walk" /\ snip[s] = spec[s] /\ s \in visited[s]
  /\ \A c \in (visited[s] \ frontier[s]) \cap C :
       Fetched(spec[c]) \cap C \subseteq visited[s] \ {s}

(* Nothing says that s is on no loop, and nothing under way will.          *)
Unrefuted(s, C) ==
  /\ entries[s] # [generation |-> spec[s].generation, hasCycle |-> FALSE]
  /\ pc[s] \in {"walk", "store"} /\ snip[s].generation = spec[s].generation
       /\ s \notin overtaken => Explores(s, C)

(* s is refused, or it will be judged again and refused then.              *)
ToRefuse(s, C) ==
  \/ Announced(s)
  \/ /\ Unrefuted(s, C)
     /\ \/ s \in toEnqueue \cup queued
        \/ pc[s] \in {"lookup", "found"} /\ snip[s] = spec[s]
        \/ Explores(s, C)
        \/ pc[s] = "idle" /\ outcome[s] = "cycle"

LoopInv == \A C \in SUBSET Snippets : Loop(C) => \E s \in C : ToRefuse(s, C)

(* The members of a loop are there.                                        *)
LEMMA LoopMembersExist ==
  ASSUME KindInv, NEW C \in SUBSET Snippets, Loop(C), NEW c \in C
  PROVE  spec[c].generation \in Nat \ {0}
<1>1. Fetched(Absent) = {}
  BY DEF Fetched, Absent
<1>2. spec[c] # Absent
  BY <1>1 DEF Loop
<1> QED
  BY <1>2 DEF KindInv, KeepsUp, CycleTypes, SharedTypes, Specs

(* A walk that explores a loop finds it.                                   *)
LEMMA ExplorationFinds ==
  ASSUME KindInv, NEW C \in SUBSET Snippets, Loop(C), NEW s \in C, Explores(s, C),
         Expands(s), UNCHANGED <<spec, libs>>
  PROVE  pc'[s] = "found" \/ Explores(s, C)'
<1>1. PICK cur \in frontier[s] :
       LET deps == Fetched(IF cur = s THEN snip[s] ELSE spec[cur])
           rest == (frontier[s] \ {cur})
                     \cup {d \in deps \ visited[s] : spec[d].generation > 0}
       IN  \/ s \in deps /\ pc'[s] = "found" /\ frontier'[s] = {}
           \/ /\ s \notin deps /\ pc'[s] = "walk"
              /\ frontier'[s] = rest /\ visited'[s] = visited[s] \cup deps
           \/ s \notin deps /\ rest = {} /\ pc'[s] = "store" /\ frontier'[s] = {}
  BY DEF Expands
<1> DEFINE deps == Fetched(spec[cur])
           rest == (frontier[s] \ {cur}) \cup {d \in deps \ visited[s] : spec[d].generation > 0}
<1>2. (IF cur = s THEN snip[s] ELSE spec[cur]) = spec[cur] /\ snip'[s] = spec'[s]
  BY DEF Explores, Expands
<1>3. \/ s \in deps /\ pc'[s] = "found"
      \/ /\ s \notin deps /\ pc'[s] = "walk"
         /\ frontier'[s] = rest /\ visited'[s] = visited[s] \cup deps
      \/ s \notin deps /\ rest = {}
  BY <1>1, <1>2
<1>4. \A d \in C : spec[d].generation > 0
  BY LoopMembersExist
<1>5. \A c \in (visited[s] \ frontier[s]) \cap C : Fetched(spec[c]) \cap C \subseteq visited[s] \ {s}
  BY DEF Explores
<1>6. \A x : Fetched(x)' = Fetched(x)
  BY DEF Fetched
<1>7. CASE /\ s \notin deps /\ pc'[s] = "walk"
           /\ frontier'[s] = rest /\ visited'[s] = visited[s] \cup deps
  <2>1. ASSUME NEW c \in (visited'[s] \ frontier'[s]) \cap C
        PROVE  Fetched(spec[c]) \cap C \subseteq visited'[s] \ {s}
    <3>1. c \in (visited[s] \ frontier[s]) \/ c = cur
      BY <1>4, <1>7, <2>1
    <3>2. CASE c = cur
      BY <1>7, <3>2
    <3> QED
      BY <1>5, <1>7, <2>1, <3>1, <3>2
  <2> QED
    BY <1>2, <1>7, <2>1 DEF Explores, Fetched
<1>8. ~ (s \notin deps /\ rest = {})
  <2> SUFFICES ASSUME s \notin deps, rest = {} PROVE FALSE
    OBVIOUS
  <2> DEFINE D == visited[s] \cap C
  <2>1. ASSUME NEW c \in D PROVE Fetched(spec[c]) \cap C \subseteq D \ {s}
    <3>1. CASE c = cur
      BY <1>4, <2>1, <3>1
    <3>2. CASE c # cur
      BY <1>5, <2>1, <3>2
    <3> QED
      BY <3>1, <3>2
  <2>2. s \in D
    BY DEF Explores
  <2>3. D = C
    BY <2>1, <2>2 DEF Loop
  <2>4. C \ {s} = {}
    <3> SUFFICES ASSUME C \ {s} # {} PROVE FALSE
      OBVIOUS
    <3>1. PICK d \in C \ {s} : Fetched(spec[d]) \cap (C \ (C \ {s})) # {}
      <4>1. C \ {s} \in SUBSET C /\ C \ {s} # C
        OBVIOUS
      <4> QED
        BY <4>1 DEF Loop
    <3> QED
      BY <2>1, <2>3, <3>1
  <2> QED
    BY <2>1, <2>2, <2>3, <2>4 DEF Loop
<1> QED
  BY <1>3, <1>7, <1>8

(* A worker refuses what it has to, or leaves it for later.                *)
LEMMA WorkerRefuses ==
  ASSUME KindInv, NEW s \in Snippets, Worker(s), NEW C \in SUBSET Snippets, Loop(C),
         NEW t \in C, ToRefuse(t, C)
  PROVE  ToRefuse(t, C)'
<1>0. CycleTypes /\ WorkerStep(s) /\ KeepsUp(s) /\ KeepsUp(t)
  BY WorkerSteps DEF KindInv
<1>1. UNCHANGED <<spec, libs, cached, cachedLibs, libEvents, toForget, toEnqueue>>
  BY <1>0 DEF WorkerStep
<1>2. Announced(t)' <=> Announced(t)
  BY <1>1 DEF Announced
<1>3. \A x : Fetched(x)' = Fetched(x)
  BY <1>1 DEF Fetched
<1> SUFFICES ASSUME ~ Announced(t) PROVE ToRefuse(t, C)'
  BY <1>2 DEF ToRefuse
<1>4. cached[t] = spec[t] /\ Unrefuted(t, C)
  BY DEF Announced, ToRefuse
<1>5. CASE t # s
  <2>1. /\ t \in queued' <=> t \in queued
        /\ t \in overtaken' <=> t \in overtaken
    BY <1>0, <1>5 DEF WorkerStep, TakesUp, Hits, WalksAfresh, Expands, Concludes, LooksAgain,
       Renders, Publishes
  <2>2. /\ pc'[t] = pc[t] /\ snip'[t] = snip[t] /\ entries'[t] = entries[t]
        /\ frontier'[t] = frontier[t] /\ visited'[t] = visited[t] /\ outcome'[t] = outcome[t]
    BY <1>0, <1>5 DEF WorkerStep, OthersKept
  <2>3. Explores(t, C)' <=> Explores(t, C)
    BY <1>1, <2>2 DEF Explores, Fetched
  <2>4. Unrefuted(t, C)' <=> Unrefuted(t, C)
    BY <1>1, <2>1, <2>2, <2>3 DEF Unrefuted
  <2> QED
    BY <1>1, <1>4, <2>1, <2>2, <2>3, <2>4 DEF ToRefuse
<1>6. CASE t = s
  <2>0. /\ spec' = spec /\ toEnqueue' = toEnqueue /\ cached[s] = spec[s]
        /\ Unrefuted(s, C) /\ s \in C
    BY <1>1, <1>4, <1>6
  <2> SUFFICES ToRefuse(s, C)'
    BY <1>6
  <2>1. CASE TakesUp(s)
    <3>1. pc'[s] = "lookup" /\ snip'[s] = spec'[s] /\ entries'[s] = entries[s]
      BY <2>0, <2>1 DEF TakesUp
    <3> QED
      BY <2>0, <3>1 DEF Unrefuted, ToRefuse
  <2>2. CASE Hits(s)
    <3>1. pc'[s] \in {"idle", "render"} /\ entries'[s] = entries[s] /\ queued' = queued
      BY <2>2 DEF Hits, Given
    <3>2. Unrefuted(s, C)'
      BY <2>0, <3>1 DEF Unrefuted
    <3>3. CASE s \in toEnqueue \cup queued
      BY <2>0, <3>1, <3>2, <3>3 DEF ToRefuse
    <3>4. CASE s \notin toEnqueue \cup queued
      <4>1. snip[s] = spec[s] /\ entries[s].generation = spec[s].generation
        BY <1>6, <2>2, <3>4 DEF Hits, ToRefuse, Announced, Explores
      <4>2. entries[s] \in [generation : Nat, hasCycle : BOOLEAN]
        BY <1>0 DEF CycleTypes, RowTypes
      <4>3. entries[s].hasCycle
        BY <2>0, <4>1, <4>2 DEF Unrefuted
      <4> QED
        BY <2>2, <3>2, <4>3 DEF Hits, Given, ToRefuse
    <3> QED
      BY <3>3, <3>4
  <2>3. CASE WalksAfresh(s)
    <3>1. /\ pc'[s] = "walk" /\ entries'[s] = entries[s] /\ queued' = queued
          /\ frontier'[s] = {s} /\ visited'[s] = {s} /\ snip'[s] = snip[s]
      BY <2>3 DEF WalksAfresh
    <3>2. snip[s].generation = spec[s].generation => snip[s] = spec[s] /\ Explores(s, C)'
      <4>1. snip[s].generation = spec[s].generation => snip[s] = spec[s]
        BY <1>0, <2>0, <2>3 DEF KeepsUp, WalksAfresh
      <4> QED
        BY <2>0, <3>1, <4>1 DEF Explores
    <3>3. Unrefuted(s, C)'
      BY <2>0, <3>1, <3>2 DEF Unrefuted
    <3>4. s \in toEnqueue \cup queued \/ snip[s] = spec[s]
      BY <1>6, <2>3 DEF ToRefuse, Announced, Explores, WalksAfresh
    <3> QED
      BY <2>0, <3>1, <3>2, <3>3, <3>4 DEF ToRefuse
  <2>4. CASE Expands(s)
    <3>1. /\ pc[s] = "walk" /\ pc'[s] \in {"walk", "found", "store"} /\ snip'[s] = snip[s]
          /\ entries'[s] = entries[s] /\ queued' = queued /\ overtaken' = overtaken
      BY <2>4 DEF Expands
    <3>2. CASE Explores(s, C)
      <4>1. pc'[s] = "found" \/ Explores(s, C)'
        BY <1>1, <2>0, <2>4, <3>2, ExplorationFinds
      <4>2. snip[s] = spec[s] /\ Unrefuted(s, C)'
        BY <2>0, <3>1, <3>2, <4>1 DEF Unrefuted, Explores
      <4> QED
        BY <2>0, <3>1, <4>1, <4>2 DEF ToRefuse
    <3>3. CASE ~ Explores(s, C)
      <4>1. Unrefuted(s, C)' /\ s \in toEnqueue \cup queued
        BY <1>6, <2>0, <3>1, <3>3 DEF Unrefuted, ToRefuse, Announced
      <4> QED
        BY <2>0, <3>1, <4>1 DEF ToRefuse
    <3> QED
      BY <3>2, <3>3
  <2>5. CASE Concludes(s)
    <3>1. /\ pc[s] \in {"store", "found"} /\ pc'[s] \in {"idle", "render"} /\ queued' = queued
          /\ pc[s] = "found" => pc'[s] = "idle" /\ outcome'[s] = "cycle"
      BY <2>5 DEF Concludes, Given
    <3>2. entries'[s] # [generation |-> spec[s].generation, hasCycle |-> FALSE]
      <4>1. CASE entries'[s] = entries[s]
        BY <2>0, <4>1 DEF Unrefuted
      <4>2. CASE /\ s \notin overtaken
                 /\ entries'[s] = [generation |-> snip[s].generation, hasCycle |-> pc[s] = "found"]
        <5>1. pc[s] = "found" \/ snip[s].generation # spec[s].generation
          BY <2>0, <3>1, <4>2 DEF Unrefuted, Explores
        <5>2. entries'[s].generation = snip[s].generation /\ entries'[s].hasCycle = (pc[s] = "found")
          BY <4>2
        <5>3. CASE pc[s] = "found"
          <6>1. entries'[s].hasCycle = TRUE
            BY <5>2, <5>3
          <6>2. [generation |-> spec[s].generation, hasCycle |-> FALSE].hasCycle = FALSE
            OBVIOUS
          <6> QED
            BY <6>1, <6>2, Zenon
        <5>4. CASE snip[s].generation # spec[s].generation
          BY <5>2, <5>4
        <5> QED
          BY <5>1, <5>3, <5>4
      <4> QED
        BY <2>5, <4>1, <4>2 DEF Concludes
    <3>3. Unrefuted(s, C)'
      BY <2>0, <3>1, <3>2 DEF Unrefuted
    <3>4. s \in toEnqueue \cup queued \/ pc[s] = "found"
      BY <1>6, <3>1 DEF ToRefuse, Announced, Explores
    <3> QED
      BY <2>0, <3>1, <3>3, <3>4 DEF ToRefuse
  <2>6. CASE LooksAgain(s)
    <3>1. /\ pc[s] \in {"store", "found"} /\ pc'[s] = "lookup" /\ queued' = queued
          /\ snip'[s] = snip[s] /\ entries'[s] = entries[s]
      BY <2>6 DEF LooksAgain
    <3>2. Unrefuted(s, C)'
      BY <2>0, <3>1 DEF Unrefuted
    <3>3. s \in toEnqueue \cup queued \/ snip[s] = spec[s]
      BY <1>6, <3>1 DEF ToRefuse, Announced, Explores
    <3> QED
      BY <2>0, <3>1, <3>2, <3>3 DEF ToRefuse
  <2>7. CASE Renders(s) \/ Publishes(s)
    <3>1. /\ pc[s] \in {"render", "publish"} /\ pc'[s] \in {"idle", "publish"} /\ queued' = queued
          /\ entries'[s] = entries[s]
      BY <2>7 DEF Renders, Publishes
    <3>2. Unrefuted(s, C)'
      BY <2>0, <3>1 DEF Unrefuted
    <3>3. s \in toEnqueue \cup queued
      BY <1>6, <3>1 DEF ToRefuse, Announced, Explores
    <3> QED
      BY <2>0, <3>1, <3>2, <3>3 DEF ToRefuse
  <2> QED
    BY <1>0, <2>1, <2>2, <2>3, <2>4, <2>5, <2>6, <2>7 DEF WorkerStep
<1> QED
  BY <1>5, <1>6

(* What the handlers evict is judged again.                                *)
LEMMA WatchRefuses ==
  ASSUME KindInv, NEW s \in Snippets, Watch(s) \/ Retry(s), NEW C \in SUBSET Snippets, Loop(C),
         NEW t \in C, ToRefuse(t, C)
  PROVE  ToRefuse(t, C)'
<1>0. /\ CycleTypes /\ KeepsUp(t) /\ t \in Snippets
      /\ spec[t].generation \in Nat \ {0}
  BY LoopMembersExist DEF KindInv
<1>1. CASE Forget(s)
  <2>1. /\ UNCHANGED <<spec, libs, cached, cachedLibs, eaEvents, libEvents, queued, pc, snip>>
        /\ UNCHANGED <<frontier, visited, tries, outcome>>
        /\ toForget' = toForget \ {s} /\ toEnqueue' = toEnqueue \cup {s}
        /\ overtaken' = {u \in Snippets : pc[u] \in {"walk", "store", "found"}} \cup overtaken
        /\ entries' = [entries EXCEPT ![s] = NoEntry]
    BY <1>1 DEF Forget, Evict, api, caches, walk
  <2>2. Explores(t, C)' <=> Explores(t, C)
    BY <2>1 DEF Explores, Fetched
  <2>3. CASE t = s
    <3>1. entries'[s] = NoEntry /\ NoEntry.generation = 0
      BY <1>0, <2>1, <2>3 DEF CycleTypes, RowTypes, NoEntry
    <3>2. entries'[s] # [generation |-> spec[s].generation, hasCycle |-> FALSE]
      BY <1>0, <2>3, <3>1
    <3> QED
      BY <1>0, <2>1, <2>3, <3>2 DEF ToRefuse, Unrefuted
  <2>4. CASE t # s
    <3>1. entries'[t] = entries[t]
      BY <1>0, <2>1, <2>4 DEF CycleTypes, RowTypes
    <3>2. Unrefuted(t, C) => Unrefuted(t, C)'
      BY <2>1, <2>2, <3>1 DEF Unrefuted
    <3> QED
      BY <2>1, <2>2, <2>4, <3>2 DEF ToRefuse, Announced
  <2> QED
    BY <2>3, <2>4
<1>2. CASE Enqueue(s) \/ Retry(s) \/ ArtifactEvent(s)
  <2>1. /\ UNCHANGED <<spec, libs, cached, libEvents, pc, snip, entries, overtaken>>
        /\ UNCHANGED <<frontier, visited, outcome>>
        /\ toEnqueue \cup queued \subseteq toEnqueue' \cup queued' /\ toForget \subseteq toForget'
    BY <1>2 DEF Enqueue, Retry, ArtifactEvent, api, caches, events, walk
  <2>2. Explores(t, C)' <=> Explores(t, C)
    BY <2>1 DEF Explores, Fetched
  <2>3. Unrefuted(t, C)' <=> Unrefuted(t, C)
    BY <2>1, <2>2 DEF Unrefuted
  <2> QED
    BY <2>1, <2>2, <2>3 DEF ToRefuse, Announced
<1>3. CASE SnippetEvent(s)
  <2>1. /\ UNCHANGED <<spec, libs, libEvents, toForget, toEnqueue, pc, snip, entries, overtaken>>
        /\ UNCHANGED <<frontier, visited, outcome>>
        /\ queued' = queued \cup {s} /\ cached' = [cached EXCEPT ![s] = spec[s]]
    BY <1>3 DEF SnippetEvent, api, events, walk
  <2>2. Explores(t, C)' <=> Explores(t, C)
    BY <2>1 DEF Explores, Fetched
  <2>3. Unrefuted(t, C)' <=> Unrefuted(t, C)
    BY <2>1, <2>2 DEF Unrefuted
  <2>4. CASE t # s
    <3>1. cached'[t] = cached[t]
      BY <1>0, <2>1, <2>4 DEF CycleTypes, SharedTypes
    <3> QED
      BY <2>1, <2>2, <2>3, <3>1 DEF ToRefuse, Announced
  <2>5. CASE t = s
    <3>1. /\ cached[s] # spec[s]
          /\ cached[s].generation \in Nat /\ snip[s].generation \in Nat
          /\ entries[s].generation \in Nat
      BY <1>0, <1>3, <2>5 DEF SnippetEvent, CycleTypes, RowTypes, SharedTypes, Specs
    <3>2. snip[s].generation # spec[s].generation /\ entries[s].generation # spec[s].generation
      BY <1>0, <2>5, <3>1 DEF KeepsUp
    <3>3. Unrefuted(s, C)'
      BY <2>1, <3>2 DEF Unrefuted
    <3> QED
      BY <2>1, <2>5, <3>3 DEF ToRefuse
  <2> QED
    BY <2>4, <2>5
<1> QED
  BY <1>1, <1>2, <1>3 DEF Watch

(* Whatever edit closes a loop announces itself to a member.               *)
LEMMA EditsRefuse ==
  ASSUME KindInv, LoopInv, NEW C \in SUBSET Snippets, Loop(C)'
  PROVE  /\ \A s \in Snippets : EditSnippet(s) => \E t \in C : ToRefuse(t, C)'
         /\ \A l \in Libraries : LibraryEvent(l) \/ EditLibrary(l) => \E t \in C : ToRefuse(t, C)'
<1>0. CycleTypes /\ LibrariesKeepUp /\ \A t \in Snippets : KeepsUp(t)
  BY DEF KindInv
<1>1. ASSUME NEW s \in Snippets, EditSnippet(s) PROVE \E t \in C : ToRefuse(t, C)'
  <2>1. CASE s \in C
    <3>1. cached[s].generation # spec'[s].generation
      <4>1. cached[s].generation \in Nat /\ spec[s].generation \in Nat
        BY <1>0 DEF CycleTypes, SharedTypes, Specs
      <4> QED
        BY <1>0, <1>1, <4>1, EditedSpec DEF KeepsUp
    <3>2. cached' = cached
      BY <1>0, <1>1, EditedSpec
    <3> QED
      BY <2>1, <3>1, <3>2 DEF ToRefuse, Announced
  <2>2. CASE s \notin C
    <3>0. \A c \in C : spec'[c] = spec[c]
      BY <1>0, <1>1, <2>2, EditedSpec
    <3>1. \A c \in C : Fetched(spec[c])' = Fetched(spec[c])
      BY <1>0, <1>1, <3>0, EditedSpec DEF Fetched
    <3>2. Loop(C)
      BY <3>1 DEF Loop
    <3>3. PICK t \in C : ToRefuse(t, C)
      BY <3>2 DEF LoopInv
    <3>4. /\ UNCHANGED <<cached, libEvents, toForget, toEnqueue, queued, pc, snip, entries>>
          /\ UNCHANGED <<frontier, visited, overtaken, outcome>>
          /\ spec'[t] = spec[t]
      BY <1>0, <1>1, <3>0, EditedSpec
    <3>5. Explores(t, C)' <=> Explores(t, C)
      BY <3>1, <3>4 DEF Explores
    <3>6. Unrefuted(t, C)' <=> Unrefuted(t, C)
      BY <3>4, <3>5 DEF Unrefuted
    <3> QED
      BY <3>3, <3>4, <3>5, <3>6 DEF ToRefuse, Announced
  <2> QED
    BY <2>1, <2>2
<1>2. ASSUME NEW l \in Libraries, EditLibrary(l) PROVE \E t \in C : ToRefuse(t, C)'
  <2>1. /\ UNCHANGED <<spec, cached, toForget, toEnqueue, queued, pc, snip, entries>>
        /\ UNCHANGED <<frontier, visited, overtaken, outcome>>
        /\ libEvents' = libEvents \cup {l}
        /\ \A k \in Libraries \ {l} : libs'[k] = libs[k]
    BY <1>0, <1>2 DEF EditLibrary, CycleTypes, SharedTypes, caches, walk
  <2>2. CASE \E c \in C : l \in spec[c].libraries
    <3>1. PICK c \in C : l \in spec[c].libraries
      BY <2>2
    <3>2. Announced(c)'
      BY <2>1, <3>1 DEF Announced
    <3> QED
      BY <3>2 DEF ToRefuse
  <2>3. CASE \A c \in C : l \notin spec[c].libraries
    <3>0. \A c \in C : spec[c].libraries \subseteq Libraries \ {l}
      BY <1>0, <2>3 DEF CycleTypes, SharedTypes, Specs
    <3>1. \A c \in C : Fetched(spec[c])' = Fetched(spec[c])
      BY <2>1, <3>0 DEF Fetched
    <3>2. Loop(C)
      BY <3>1 DEF Loop
    <3>3. PICK t \in C : ToRefuse(t, C)
      BY <3>2 DEF LoopInv
    <3>5. Explores(t, C)' <=> Explores(t, C)
      BY <2>1, <3>1 DEF Explores
    <3>6. Unrefuted(t, C)' <=> Unrefuted(t, C)
      BY <2>1, <3>5 DEF Unrefuted
    <3> QED
      BY <2>1, <3>3, <3>5, <3>6 DEF ToRefuse, Announced
  <2> QED
    BY <2>2, <2>3
<1>3. ASSUME NEW l \in Libraries, LibraryEvent(l) PROVE \E t \in C : ToRefuse(t, C)'
  <2>1. /\ UNCHANGED <<spec, libs, cached, toEnqueue, queued, pc, snip, entries>>
        /\ UNCHANGED <<frontier, visited, overtaken, outcome>>
        /\ libEvents' = libEvents \ {l} /\ toForget' = toForget \cup Importers(l)
    BY <1>3 DEF LibraryEvent, api, walk
  <2>2. Loop(C)
    BY <2>1 DEF Loop, Fetched
  <2>3. PICK t \in C : ToRefuse(t, C)
    BY <2>2 DEF LoopInv
  <2>4. Explores(t, C)' <=> Explores(t, C)
    BY <2>1 DEF Explores, Fetched
  <2>5. Unrefuted(t, C)' <=> Unrefuted(t, C)
    BY <2>1, <2>4 DEF Unrefuted
  <2>6. Announced(t) => Announced(t)'
    BY <2>1 DEF Announced, Importers
  <2> QED
    BY <2>1, <2>3, <2>4, <2>5, <2>6 DEF ToRefuse
<1> QED
  BY <1>1, <1>2, <1>3

(* Every step keeps the invariant of the loops.                            *)
LEMMA LoopNext == KindInv /\ LoopInv /\ [Next]_vars => LoopInv'
<1> SUFFICES ASSUME KindInv, LoopInv, [Next]_vars, NEW C \in SUBSET Snippets, Loop(C)'
             PROVE  \E t \in C : ToRefuse(t, C)'
  BY DEF LoopInv
<1>1. ASSUME NEW s \in Snippets, Worker(s) \/ Watch(s) \/ Retry(s)
      PROVE  \E t \in C : ToRefuse(t, C)'
  <2>1. UNCHANGED <<spec, libs>>
    BY <1>1 DEF Worker, Watch, Reconcile, Lookup, Walk, Store, Render, Publish, Forget, Enqueue,
       ArtifactEvent, SnippetEvent, Retry, api
  <2>2. Loop(C)
    BY <2>1 DEF Loop, Fetched
  <2>3. PICK t \in C : ToRefuse(t, C)
    BY <2>2 DEF LoopInv
  <2>4. ToRefuse(t, C)'
    BY <1>1, <2>2, <2>3, WorkerRefuses, WatchRefuses
  <2> QED
    BY <2>4
<1>2. CASE UNCHANGED vars
  <2>1. Loop(C)
    BY <1>2 DEF Loop, Fetched, vars
  <2>2. PICK t \in C : ToRefuse(t, C)
    BY <2>1 DEF LoopInv
  <2>3. Explores(t, C)' <=> Explores(t, C)
    BY <1>2 DEF Explores, Fetched, vars
  <2>4. Unrefuted(t, C)' <=> Unrefuted(t, C)
    BY <1>2, <2>3 DEF Unrefuted, vars
  <2> QED
    BY <1>2, <2>2, <2>3, <2>4 DEF ToRefuse, Announced, vars
<1> QED
  BY <1>1, <1>2, EditsRefuse DEF Next

(* Among finitely many snippets that read one another there is a loop.     *)
LEMMA LoopWithin ==
  ASSUME IsFiniteSet(Snippets), NEW S \in SUBSET Snippets,
         S # {}, \A s \in S : Fetched(spec[s]) \cap S # {}
  PROVE  \E C \in SUBSET S : Loop(C)
<1> DEFINE F == {C \in SUBSET S : C # {} /\ \A c \in C : Fetched(spec[c]) \cap C # {}}
           R == StrictSubsetOrdering(Snippets)
<1>1. IsWellFoundedOn(R, SUBSET Snippets)
  BY FS_StrictSubsetOrderingWellFounded, FS_FiniteSubsetsOfFinite
<1>2. F \subseteq SUBSET Snippets /\ F # {}
  <2>1. S \in F
    OBVIOUS
  <2> QED
    BY <2>1
<1> HIDE DEF R
<1>3. PICK C \in F : \A D \in F : ~ (<<D, C>> \in R)
  <2> HIDE DEF F
  <2> QED
    BY <1>1, <1>2, WFMin, Zenon
<1>4. \A D \in F : D \subseteq C => D = C
  BY <1>2, <1>3 DEF R, StrictSubsetOrdering
<1>5. ASSUME NEW D \in SUBSET C, D # {}, D # C
      PROVE  \E d \in D : Fetched(spec[d]) \cap (C \ D) # {}
  <2> SUFFICES ASSUME \A d \in D : Fetched(spec[d]) \cap (C \ D) = {} PROVE FALSE
    OBVIOUS
  <2>1. \A d \in D : Fetched(spec[d]) \cap D # {}
    <3>1. \A d \in D : Fetched(spec[d]) \cap C # {}
      BY <1>5
    <3> QED
      BY <1>5, <3>1
  <2>2. D \in F
    BY <1>5, <2>1
  <2> QED
    BY <1>4, <1>5, <2>2
<1> QED
  BY <1>5 DEF Loop

(* No loop of snippets goes unnoticed: once everything is delivered some   *)
(* member of each has been refused, whichever edits closed it and whatever *)
(* walks, evictions and cached verdicts they crossed (detectSourceRefCycle,*)
(* the cache's Forget and Store, and the order of the watch handlers).     *)
THEOREM CyclesAlwaysRefused ==
  ASSUME IsFiniteSet(Snippets)
  PROVE  Spec => []CyclesRefused
<1>1. Init => LoopInv
  <2> SUFFICES ASSUME Init, NEW C \in SUBSET Snippets, Loop(C) PROVE FALSE
    BY DEF LoopInv
  <2>1. \A c \in C : Fetched(spec[c]) = {}
    BY DEF Init, Fetched, Absent
  <2> QED
    BY <2>1 DEF Loop
<1>2. LoopInv => CyclesRefused
  <2> SUFFICES ASSUME LoopInv, AtRest, NEW S \in SUBSET Snippets,
                      S # {}, \A s \in S : Fetched(spec[s]) \cap S # {}
               PROVE  \E s \in S : outcome[s] = "cycle"
    BY DEF CyclesRefused
  <2>1. PICK C \in SUBSET S : Loop(C)
    BY LoopWithin
  <2>2. PICK s \in C : ToRefuse(s, C)
    BY <2>1 DEF LoopInv
  <2>3. pc[s] = "idle"
    BY DEF AtRest, Busy
  <2>4. outcome[s] = "cycle"
    BY <2>2, <2>3 DEF AtRest, ToRefuse, Announced, Explores
  <2> QED
    BY <2>4
<1> QED
  BY <1>1, <1>2, KindInit, KindNext, LoopNext, PTL DEF Spec

-----------------------------------------------------------------------------
(* Causes.                                                                 *)

(* An event is on its way to s that will evict its verdict, or a publish   *)
(* of what it reads is.                                                    *)
Outdated(s) == Announced(s) \/ Fetched(spec[s]) \cap eaEvents # {}

Unsettled(t) ==
  Outdated(t) \/ t \in toEnqueue \cup queued \/ pc[t] # "idle" \/ outcome[t] # "synced"

(* The walk of s has been where s no longer leads.                         *)
Astray(s) ==
  \/ pc[s] = "found"
  \/ pc[s] = "walk" /\ ~ (visited[s] \subseteq Upstream(s) \cup {s})

(* s counts as a member of a loop, or will without being judged again.     *)
Believed(s) ==
  \/ entries[s] = [generation |-> spec[s].generation, hasCycle |-> TRUE]
  \/ pc[s] = "idle" /\ outcome[s] = "cycle" /\ s \notin toEnqueue \cup queued
  \/ /\ Astray(s) /\ snip[s].generation = spec[s].generation
     /\ s \notin overtaken \/ s \notin toEnqueue \cup queued

HasCause(s) == OnCycle(s) \/ Outdated(s) \/ \E t \in Upstream(s) \ {s} : Unsettled(t)

CauseInv == \A s \in Snippets : Believed(s) => HasCause(s)

(* Upstream is closed, ...                                                 *)
LEMMA UpstreamClosed ==
  ASSUME CycleTypes, NEW s \in Snippets
  PROVE  /\ Fetched(spec[s]) \subseteq Upstream(s)
         /\ \A t \in Upstream(s) : Fetched(spec[t]) \subseteq Upstream(s)
<1>1. \A x \in Snippets : Fetched(spec[x]) \subseteq Snippets
  BY DependenciesAreSnippets DEF CycleTypes, SharedTypes
<1>2. Fetched(spec[s]) \subseteq Upstream(s)
  BY <1>1 DEF Upstream
<1>3. ASSUME NEW t \in Upstream(s), NEW d \in Fetched(spec[t]) PROVE d \in Upstream(s)
  <2>1. t \in Snippets /\ d \in Snippets
    BY <1>1, <1>3 DEF Upstream
  <2>2. ASSUME NEW C \in SUBSET Snippets,
               Fetched(spec[s]) \cup UNION {Fetched(spec[c]) : c \in C} \subseteq C
        PROVE  d \in C
    <3>1. t \in C
      BY <1>3, <2>2 DEF Upstream
    <3> QED
      BY <1>3, <2>2, <3>1
  <2> QED
    BY <2>1, <2>2 DEF Upstream
<1> QED
  BY <1>2, <1>3

(* ... and the least such set: ...                                         *)
LEMMA UpstreamLeast ==
  ASSUME NEW s \in Snippets, NEW C \in SUBSET Snippets,
         Fetched(spec[s]) \subseteq C, \A c \in C : Fetched(spec[c]) \subseteq C
  PROVE  Upstream(s) \subseteq C
BY DEF Upstream

(* ... each of its members is read by another, or by s.                    *)
LEMMA UpstreamReader ==
  ASSUME CycleTypes, NEW s \in Snippets, NEW t \in Upstream(s)
  PROVE  \E r \in Upstream(s) \cup {s} : t \in Fetched(spec[r])
<1> SUFFICES ASSUME \A r \in Upstream(s) \cup {s} : t \notin Fetched(spec[r]) PROVE FALSE
  OBVIOUS
<1> DEFINE C == Upstream(s) \ {t}
<1>1. C \in SUBSET Snippets
  BY DEF Upstream
<1>2. Fetched(spec[s]) \subseteq C /\ \A c \in C : Fetched(spec[c]) \subseteq C
  BY UpstreamClosed
<1> HIDE DEF C
<1>3. Upstream(s) \subseteq C
  BY <1>1, <1>2, UpstreamLeast
<1> QED
  BY <1>3 DEF C

(* An edit of what is not upstream leaves upstream as it was.              *)
LEMMA UpstreamKept ==
  ASSUME CycleTypes, CycleTypes', NEW s \in Snippets, NEW E,
         \A x \in Snippets \ E : Fetched(spec[x])' = Fetched(spec[x]),
         E \cap (Upstream(s)' \cup {s}) = {}
  PROVE  Upstream(s)' = Upstream(s)
<1>1. Upstream(s) \subseteq Snippets /\ Upstream(s)' \subseteq Snippets
  BY DEF Upstream
<1>2. /\ Fetched(spec[s])' \subseteq Upstream(s)'
      /\ \A t \in Upstream(s)' : Fetched(spec[t])' \subseteq Upstream(s)'
  <2>1. \A x \in Snippets : Fetched(spec[x])' \subseteq Snippets
    BY DEF CycleTypes, SharedTypes, Fetched, Specs
  <2>2. Fetched(spec[s])' \subseteq Upstream(s)'
    BY <2>1 DEF Upstream
  <2>3. ASSUME NEW t \in Upstream(s)', NEW d \in Fetched(spec[t])' PROVE d \in Upstream(s)'
    <3>1. t \in Snippets /\ d \in Snippets
      BY <2>1, <2>3 DEF Upstream
    <3>2. ASSUME NEW C \in SUBSET Snippets,
                 (Fetched(spec[s]) \cup UNION {Fetched(spec[c]) : c \in C})' \subseteq C
          PROVE  d \in C
      <4>1. t \in C
        BY <2>3, <3>2 DEF Upstream
      <4> QED
        BY <2>3, <3>2, <4>1
    <3> QED
      BY <3>1, <3>2 DEF Upstream
  <2> QED
    BY <2>2, <2>3
<1>3. /\ Fetched(spec[s]) \subseteq Upstream(s)'
      /\ \A t \in Upstream(s)' : Fetched(spec[t]) \subseteq Upstream(s)'
  BY <1>1, <1>2
<1>4. Upstream(s) \subseteq Upstream(s)'
  BY <1>1, <1>3, UpstreamLeast
<1>5. /\ Fetched(spec[s])' \subseteq Upstream(s)
      /\ \A t \in Upstream(s) : Fetched(spec[t])' \subseteq Upstream(s)
  BY <1>1, <1>4, UpstreamClosed
<1>6. Upstream(s)' \subseteq Upstream(s)
  <2> DEFINE U == Upstream(s)
  <2>1. ASSUME NEW C \in SUBSET Snippets, NEW t \in Upstream(s)',
               Fetched(spec[s])' \subseteq C, \A c \in C : Fetched(spec[c])' \subseteq C
        PROVE  t \in C
    <3>1. (Fetched(spec[s]) \cup UNION {Fetched(spec[c]) : c \in C})' \subseteq C
      BY <2>1
    <3> QED
      BY <2>1, <3>1 DEF Upstream
  <2> SUFFICES ASSUME NEW t \in Upstream(s)' PROVE t \in Upstream(s)
    OBVIOUS
  <2>2. U \in SUBSET Snippets /\ Fetched(spec[s])' \subseteq U
        /\ \A c \in U : Fetched(spec[c])' \subseteq U
    BY <1>1, <1>5
  <2> HIDE DEF U
  <2>3. t \in U
    BY <2>1, <2>2
  <2> QED
    BY <2>3 DEF U
<1> QED
  BY <1>4, <1>6

(* Only an edit moves the graph.                                           *)
LEMMA GraphKept ==
  ASSUME UNCHANGED <<spec, libs>>
  PROVE  /\ \A s : Fetched(spec[s])' = Fetched(spec[s])
         /\ \A s : Upstream(s)' = Upstream(s)
         /\ \A s : OnCycle(s)' <=> OnCycle(s)
<1>1. \A s : Fetched(spec[s])' = Fetched(spec[s])
  BY DEF Fetched
<1>2. \A s : Upstream(s)' = Upstream(s)
  BY DEF Upstream, Fetched
<1> QED
  BY <1>1, <1>2 DEF OnCycle

(* Whoever works on an old copy has an event to come, or is queued.        *)
LEMMA OldCopy ==
  ASSUME CycleTypes, NEW s \in Snippets, KeepsUp(s), pc[s] # "idle"
  PROVE  IF snip[s].generation = spec[s].generation
           THEN snip[s] = spec[s] ELSE cached[s] # spec[s] \/ s \in queued
<1>1. /\ spec[s].generation \in Nat /\ cached[s].generation \in Nat /\ snip[s].generation \in Nat
  BY DEF CycleTypes, RowTypes, SharedTypes, Specs
<1> QED
  BY <1>1 DEF KeepsUp

(* What has a cause keeps it, as long as the graph and what is under way   *)
(* upstream do.                                                            *)
LEMMA CauseKept ==
  ASSUME NEW s \in Snippets, HasCause(s), UNCHANGED <<spec, libs>>,
         Outdated(s) => Outdated(s)',
         \A t \in Upstream(s) \ {s} : Unsettled(t) => Unsettled(t)'
  PROVE  HasCause(s)'
<1>1. Upstream(s)' = Upstream(s) /\ (OnCycle(s)' <=> OnCycle(s))
  BY GraphKept
<1> QED
  BY <1>1 DEF HasCause

(* A publish is an event to the readers; a worker settles nothing else.    *)
LEMMA WorkerKeepsCause ==
  ASSUME KindInv, NEW w \in Snippets, Worker(w), NEW s \in Snippets, HasCause(s)
  PROVE  HasCause(s)'
<1>0. CycleTypes /\ WorkerStep(w) /\ KeepsUp(w)
  BY WorkerSteps DEF KindInv
<1>1. UNCHANGED <<spec, libs, cached, cachedLibs, libEvents, toForget, toEnqueue>>
  BY <1>0 DEF WorkerStep
<1>2. eaEvents \subseteq eaEvents'
  BY <1>0 DEF WorkerStep, TakesUp, Hits, WalksAfresh, Expands, Concludes, LooksAgain, Renders,
     Publishes
<1>3. \A t \in Snippets : Outdated(t) => Outdated(t)'
  BY <1>1, <1>2 DEF Outdated, Announced, Fetched
<1>4. ASSUME NEW t \in Snippets \ {w}, Unsettled(t) PROVE Unsettled(t)'
  <2>1. /\ t \in queued' <=> t \in queued
        /\ pc'[t] = pc[t] /\ outcome'[t] = outcome[t]
    BY <1>0, <1>4 DEF WorkerStep, OthersKept, TakesUp, Hits, WalksAfresh, Expands, Concludes,
       LooksAgain, Renders, Publishes
  <2> QED
    BY <1>1, <1>3, <1>4, <2>1 DEF Unsettled
<1>5. Unsettled(w)' \/ w \in eaEvents'
  <2>1. CASE TakesUp(w) \/ WalksAfresh(w) \/ Expands(w) \/ LooksAgain(w) \/ Renders(w)
    BY <2>1 DEF TakesUp, WalksAfresh, Expands, LooksAgain, Renders, Unsettled
  <2>2. CASE Hits(w) \/ Concludes(w)
    BY <2>2 DEF Hits, Concludes, Given, Unsettled
  <2>3. CASE Publishes(w)
    <3>1. CASE eaEvents' = eaEvents \cup {w}
      BY <3>1
    <3>2. CASE spec[w].generation # snip[w].generation
      <4>1. pc[w] # "idle" /\ queued' = queued
        BY <2>3 DEF Publishes
      <4>2. cached[w] # spec[w] \/ w \in queued
        BY <1>0, <3>2, <4>1, OldCopy
      <4> QED
        BY <1>1, <4>1, <4>2 DEF Unsettled, Outdated, Announced
    <3> QED
      BY <2>3, <3>1, <3>2 DEF Publishes
  <2> QED
    BY <1>0, <2>1, <2>2, <2>3 DEF WorkerStep
<1>6. CASE w \in Upstream(s) \ {s} /\ w \in eaEvents'
  <2>1. PICK r \in Upstream(s) \cup {s} : w \in Fetched(spec[r])
    BY <1>0, <1>6, UpstreamReader
  <2>2. Outdated(r)'
    BY <1>1, <1>6, <2>1 DEF Outdated, Fetched
  <2>3. r = s \/ r \in Upstream(s)' \ {s}
    BY <1>1, <2>1, GraphKept
  <2> QED
    BY <2>2, <2>3 DEF HasCause, Unsettled
<1>7. CASE ~ (w \in Upstream(s) \ {s} /\ w \in eaEvents')
  <2>1. \A t \in Upstream(s) \ {s} : t \in Snippets
    BY DEF Upstream
  <2>2. \A t \in Upstream(s) \ {s} : Unsettled(t) => Unsettled(t)'
    BY <1>4, <1>5, <1>7, <2>1
  <2> QED
    BY <1>1, <1>3, <2>2, CauseKept
<1> QED
  BY <1>6, <1>7

(* A worker comes to believe in a loop only for a cause: a walk of the     *)
(* snippet as it is goes nowhere but upstream.                             *)
LEMMA WalkBelief ==
  ASSUME KindInv, NEW s \in Snippets, Worker(s), Expands(s), Believed(s)'
  PROVE  Believed(s) \/ HasCause(s)'
<1>0. CycleTypes /\ WorkerStep(s) /\ KeepsUp(s)
  BY WorkerSteps DEF KindInv
<1>1. UNCHANGED <<spec, libs, cached, cachedLibs, libEvents, toForget, toEnqueue>>
  BY <1>0 DEF WorkerStep
<1>2. /\ pc[s] = "walk" /\ snip'[s] = snip[s] /\ entries'[s] = entries[s]
      /\ pc'[s] # "idle" /\ UNCHANGED <<queued, overtaken>>
  BY DEF Expands
<1>3. Upstream(s)' = Upstream(s) /\ (OnCycle(s)' <=> OnCycle(s))
  BY <1>1, GraphKept
<1>4. CASE Announced(s)' \/ Astray(s)
  BY <1>1, <1>2, <1>4 DEF Believed, HasCause, Outdated, Astray
<1>5. CASE snip[s].generation # spec[s].generation
  BY <1>1, <1>2, <1>5 DEF Believed
<1>6. CASE ~ Astray(s) /\ ~ Announced(s)' /\ snip[s].generation = spec[s].generation
  <2>1. snip[s] = spec[s]
    BY <1>0, <1>2, <1>6, OldCopy
  <2>2. visited[s] \subseteq Upstream(s) \cup {s} /\ frontier[s] \subseteq visited[s]
    BY <1>0, <1>2, <1>6 DEF Astray, KeepsUp
  <2>3. PICK cur \in frontier[s] :
         LET deps == Fetched(IF cur = s THEN snip[s] ELSE spec[cur])
             rest == (frontier[s] \ {cur})
                       \cup {d \in deps \ visited[s] : spec[d].generation > 0}
         IN  \/ s \in deps /\ pc'[s] = "found" /\ frontier'[s] = {}
             \/ /\ s \notin deps /\ pc'[s] = "walk"
                /\ frontier'[s] = rest /\ visited'[s] = visited[s] \cup deps
             \/ s \notin deps /\ rest = {} /\ pc'[s] = "store" /\ frontier'[s] = {}
    BY DEF Expands
  <2> DEFINE deps == Fetched(spec[cur])
  <2>4. \/ s \in deps /\ pc'[s] = "found"
        \/ pc'[s] = "walk" /\ visited'[s] = visited[s] \cup deps
        \/ pc'[s] = "store"
    BY <2>1, <2>3
  <2>5. deps \subseteq Upstream(s)
    BY <1>0, <2>2, UpstreamClosed
  <2>6. CASE s \in deps
    BY <1>3, <2>5, <2>6 DEF HasCause, OnCycle
  <2>7. CASE pc'[s] = "walk" /\ visited'[s] = visited[s] \cup deps
    <3>1. ~ Astray(s)'
      BY <1>3, <2>2, <2>5, <2>7 DEF Astray
    <3> QED
      BY <1>1, <1>2, <2>7, <3>1 DEF Believed
  <2>8. CASE pc'[s] = "store"
    BY <1>1, <1>2, <2>8 DEF Believed, Astray
  <2> QED
    BY <2>4, <2>6, <2>7, <2>8
<1> QED
  BY <1>4, <1>5, <1>6

(* The other steps only pass a belief on.                                  *)
LEMMA WorkerBelief ==
  ASSUME KindInv, NEW w \in Snippets, Worker(w), NEW s \in Snippets, Believed(s)'
  PROVE  Believed(s) \/ HasCause(s)'
<1>0. CycleTypes /\ WorkerStep(w) /\ KeepsUp(w)
  BY WorkerSteps DEF KindInv
<1>1. UNCHANGED <<spec, libs, cached, cachedLibs, libEvents, toForget, toEnqueue>>
  BY <1>0 DEF WorkerStep
<1>2. Upstream(s)' = Upstream(s)
  BY <1>1, GraphKept
<1>3. CASE s # w
  <2>1. /\ s \in queued' <=> s \in queued
        /\ s \in overtaken' <=> s \in overtaken
    BY <1>0, <1>3 DEF WorkerStep, TakesUp, Hits, WalksAfresh, Expands, Concludes, LooksAgain,
       Renders, Publishes
  <2>2. /\ pc'[s] = pc[s] /\ snip'[s] = snip[s] /\ entries'[s] = entries[s]
        /\ visited'[s] = visited[s] /\ outcome'[s] = outcome[s]
    BY <1>0, <1>3 DEF WorkerStep, OthersKept
  <2> QED
    BY <1>1, <1>2, <2>1, <2>2 DEF Believed, Astray
<1>4. CASE s = w
  <2>0. /\ KeepsUp(s) /\ spec' = spec /\ toEnqueue' = toEnqueue
        /\ (cached[s] # spec[s] => HasCause(s)')
    BY <1>0, <1>1, <1>4 DEF HasCause, Outdated, Announced
  <2>1. CASE Expands(s)
    BY <1>4, <2>1, WalkBelief
  <2>2. CASE TakesUp(s) \/ WalksAfresh(s) \/ LooksAgain(s)
    <3>1. entries'[s] = entries[s] /\ pc'[s] # "idle" /\ ~ Astray(s)'
      BY <2>2 DEF TakesUp, WalksAfresh, LooksAgain, Astray
    <3> QED
      BY <2>0, <3>1 DEF Believed
  <2>3. CASE Hits(s)
    <3>1. /\ pc[s] = "lookup" /\ pc'[s] \in {"idle", "render"} /\ entries'[s] = entries[s]
          /\ queued' = queued /\ entries[s].generation = snip[s].generation
          /\ pc'[s] = "idle" => entries[s].hasCycle
      BY <2>3 DEF Hits, Given
    <3>2. CASE pc'[s] = "idle" /\ snip[s].generation = spec[s].generation
      <4>1. entries[s] = [generation |-> spec[s].generation, hasCycle |-> TRUE]
        BY <1>0, <3>1, <3>2 DEF CycleTypes, RowTypes
      <4> QED
        BY <4>1 DEF Believed
    <3>3. CASE pc'[s] = "idle" /\ snip[s].generation # spec[s].generation
      <4>1. cached[s] # spec[s] \/ s \in queued
        BY <1>0, <2>0, <3>1, <3>3, OldCopy
      <4> QED
        BY <2>0, <3>1, <3>3, <4>1 DEF Believed, Astray
    <3>4. CASE pc'[s] = "render"
      BY <2>0, <3>1, <3>4 DEF Believed, Astray
    <3> QED
      BY <3>1, <3>2, <3>3, <3>4
  <2>4. CASE Concludes(s)
    <3>1. /\ pc[s] \in {"store", "found"} /\ pc'[s] \in {"idle", "render"} /\ queued' = queued
          /\ pc'[s] = "idle" <=> pc[s] = "found"
      BY <2>4 DEF Concludes, Given
    <3>2. CASE cached[s] # spec[s] \/ Believed(s)
      BY <2>0, <3>2
    <3>3. CASE cached[s] = spec[s] /\ ~ Believed(s)
      <4>1. snip[s].generation # spec[s].generation => s \in queued
        BY <1>0, <2>0, <3>1, <3>3, OldCopy
      <4>2. pc[s] = "found" /\ snip[s].generation = spec[s].generation
              => s \in overtaken /\ s \in toEnqueue \cup queued
        BY <3>3 DEF Believed, Astray
      <4>3. entries'[s] # [generation |-> spec[s].generation, hasCycle |-> TRUE]
        <5>1. CASE entries'[s] = entries[s]
          BY <3>3, <5>1 DEF Believed
        <5>2. CASE /\ s \notin overtaken
                   /\ entries'[s] = [generation |-> snip[s].generation, hasCycle |-> pc[s] = "found"]
          <6>1. pc[s] # "found" \/ snip[s].generation # spec[s].generation
            BY <4>2, <5>2
          <6>2. entries'[s].generation = snip[s].generation
                /\ entries'[s].hasCycle = (pc[s] = "found")
            BY <5>2
          <6>3. CASE pc[s] # "found"
            <7>1. entries'[s].hasCycle = FALSE
              BY <6>2, <6>3
            <7>2. [generation |-> spec[s].generation, hasCycle |-> TRUE].hasCycle = TRUE
              OBVIOUS
            <7> QED
              BY <7>1, <7>2, Zenon
          <6>4. CASE snip[s].generation # spec[s].generation
            BY <6>2, <6>4
          <6> QED
            BY <6>1, <6>3, <6>4
        <5> QED
          BY <2>4, <5>1, <5>2 DEF Concludes
      <4>4. ~ (pc'[s] = "idle" /\ s \notin toEnqueue \cup queued)
        BY <3>1, <4>1, <4>2
      <4>5. ~ Astray(s)'
        BY <3>1 DEF Astray
      <4> QED
        BY <2>0, <3>1, <4>3, <4>4, <4>5 DEF Believed
    <3> QED
      BY <3>2, <3>3
  <2>5. CASE Renders(s) \/ Publishes(s)
    <3>1. /\ pc[s] # "idle" /\ pc'[s] \in {"idle", "publish"} /\ entries'[s] = entries[s]
          /\ queued' = queued
          /\ pc'[s] = "idle" /\ outcome'[s] = "cycle" => spec[s].generation # snip[s].generation
      BY <2>5 DEF Renders, Publishes
    <3>2. spec[s].generation # snip[s].generation => cached[s] # spec[s] \/ s \in queued
      BY <1>0, <2>0, <3>1, OldCopy
    <3> QED
      BY <2>0, <3>1, <3>2 DEF Believed, Astray
  <2> QED
    BY <1>0, <1>4, <2>1, <2>2, <2>3, <2>4, <2>5 DEF WorkerStep
<1> QED
  BY <1>3, <1>4

(* A handler takes back a belief before it lets go of what gave the cause. *)
LEMMA WatchCause ==
  ASSUME KindInv, CauseInv, NEW e \in Snippets, Watch(e) \/ Retry(e)
  PROVE  CauseInv'
<1> SUFFICES ASSUME NEW s \in Snippets, Believed(s)' PROVE HasCause(s)'
  BY DEF CauseInv
<1>0. /\ CycleTypes /\ LibrariesKeepUp /\ KeepsUp(s)
      /\ \A t \in Upstream(s) : t \in Snippets
  BY DEF KindInv, Upstream
<1>1. CASE Forget(e)
  <2>1. /\ UNCHANGED <<spec, libs, cached, cachedLibs, eaEvents, libEvents, queued, pc, snip>>
        /\ UNCHANGED <<frontier, visited, outcome>>
        /\ toForget' = toForget \ {e} /\ toEnqueue' = toEnqueue \cup {e}
        /\ overtaken' = {u \in Snippets : pc[u] \in {"walk", "store", "found"}} \cup overtaken
        /\ entries' = [entries EXCEPT ![e] = NoEntry]
    BY <1>1 DEF Forget, Evict, api, caches, walk
  <2>2. Upstream(s)' = Upstream(s)
    BY <2>1, GraphKept
  <2>3. s # e
    <3> SUFFICES ASSUME s = e PROVE FALSE
      OBVIOUS
    <3>1. entries'[s] = NoEntry /\ NoEntry.hasCycle = FALSE
      BY <1>0, <2>1 DEF CycleTypes, RowTypes, NoEntry
    <3>2. entries'[s] # [generation |-> spec'[s].generation, hasCycle |-> TRUE]
      BY <3>1
    <3> QED
      BY <2>1, <3>2 DEF Believed, Astray
  <2>4. Believed(s)
    <3>1. entries'[s] = entries[s]
      BY <1>0, <2>1, <2>3 DEF CycleTypes, RowTypes
    <3> QED
      BY <2>1, <2>2, <2>3, <3>1 DEF Believed, Astray
  <2>5. Outdated(s) => Outdated(s)'
    BY <2>1, <2>3 DEF Outdated, Announced, Fetched
  <2>6. \A t \in Upstream(s) \ {s} : Unsettled(t) => Unsettled(t)'
    BY <1>0, <2>1 DEF Unsettled, Outdated, Announced, Fetched
  <2> QED
    BY <2>1, <2>4, <2>5, <2>6, CauseKept DEF CauseInv
<1>2. CASE Enqueue(e) \/ Retry(e) \/ ArtifactEvent(e)
  <2>1. /\ UNCHANGED <<spec, libs, cached, cachedLibs, libEvents, pc, snip, entries, overtaken>>
        /\ UNCHANGED <<visited, outcome>>
        /\ toEnqueue \cup queued \subseteq toEnqueue' \cup queued'
    BY <1>2 DEF Enqueue, Retry, ArtifactEvent, api, caches, events, walk
  <2>2. Upstream(s)' = Upstream(s)
    BY <2>1, GraphKept
  <2>3. Believed(s)
    BY <2>1, <2>2 DEF Believed, Astray
  <2>4. ASSUME NEW t \in Snippets, Outdated(t) PROVE Outdated(t)'
    <3>1. CASE Enqueue(e) \/ Retry(e)
      BY <2>1, <2>4, <3>1 DEF Enqueue, Retry, events, Outdated, Announced, Fetched
    <3>2. CASE ArtifactEvent(e)
      <4>1. eaEvents' = eaEvents \ {e} /\ toForget' = toForget \cup Readers(e)
        BY <3>2 DEF ArtifactEvent
      <4>2. CASE Announced(t)
        BY <2>1, <4>1, <4>2 DEF Outdated, Announced
      <4>3. CASE ~ Announced(t) /\ e \in Fetched(spec[t])
        <5>1. cached[t] = spec[t] /\ cached[t].libraries \subseteq Libraries
              /\ \A l \in cached[t].libraries : cachedLibs[l] = libs[l]
          BY <1>0, <4>3 DEF CycleTypes, SharedTypes, Specs, LibrariesKeepUp, Announced
        <5>2. t \in Readers(e)
          BY <4>3, <5>1 DEF Fetched, Readers
        <5> QED
          BY <4>1, <5>2 DEF Outdated, Announced
      <4>4. CASE ~ Announced(t) /\ e \notin Fetched(spec[t])
        BY <2>1, <2>4, <4>1, <4>4 DEF Outdated, Fetched
      <4> QED
        BY <4>2, <4>3, <4>4
    <3> QED
      BY <1>2, <3>1, <3>2
  <2>5. \A t \in Upstream(s) \ {s} : Unsettled(t) => Unsettled(t)'
    BY <1>0, <2>1, <2>4 DEF Unsettled
  <2> QED
    BY <2>1, <2>3, <2>4, <2>5, CauseKept DEF CauseInv
<1>3. CASE SnippetEvent(e)
  <2>1. /\ UNCHANGED <<spec, libs, cachedLibs, eaEvents, libEvents, toForget, toEnqueue>>
        /\ UNCHANGED <<pc, snip, entries, overtaken, visited, outcome>>
        /\ queued' = queued \cup {e} /\ cached' = [cached EXCEPT ![e] = spec[e]]
        /\ cached[e] # spec[e]
    BY <1>3 DEF SnippetEvent, api, events, walk
  <2>2. \A t \in Snippets \ {e} : cached'[t] = cached[t]
    BY <1>0, <2>1 DEF CycleTypes, SharedTypes
  <2>3. Upstream(s)' = Upstream(s)
    BY <2>1, GraphKept
  <2>4. s # e
    <3> SUFFICES ASSUME s = e PROVE FALSE
      OBVIOUS
    <3>1. /\ spec[s].generation \in Nat /\ cached[s].generation \in Nat
          /\ snip[s].generation \in Nat /\ entries[s].generation \in Nat
      BY <1>0 DEF CycleTypes, RowTypes, SharedTypes, Specs
    <3>2. entries[s].generation # spec[s].generation /\ snip[s].generation # spec[s].generation
      BY <1>0, <2>1, <3>1 DEF KeepsUp
    <3> QED
      BY <2>1, <3>2 DEF Believed
  <2>5. Believed(s)
    BY <2>1, <2>3, <2>4 DEF Believed, Astray
  <2>6. Outdated(s) => Outdated(s)'
    BY <2>1, <2>2, <2>4 DEF Outdated, Announced, Fetched
  <2>7. \A t \in Upstream(s) \ {s} : Unsettled(t) => Unsettled(t)'
    BY <1>0, <2>1, <2>2 DEF Unsettled, Outdated, Announced, Fetched
  <2> QED
    BY <2>1, <2>5, <2>6, <2>7, CauseKept DEF CauseInv
<1> QED
  BY <1>1, <1>2, <1>3 DEF Watch

(* An edit upstream is a cause; any other leaves s as it was.              *)
LEMMA EditCause ==
  ASSUME KindInv, KindInv', CauseInv, NEW E,
         \A x \in Snippets \ E : Fetched(spec[x])' = Fetched(spec[x]) /\ spec'[x] = spec[x],
         \A x \in E \cap Snippets : Announced(x)',
         \A x \in Snippets : Announced(x) => Announced(x)',
         UNCHANGED <<eaEvents, toEnqueue, queued, pc, snip, visited, entries, overtaken, outcome>>
  PROVE  CauseInv'
<1> SUFFICES ASSUME NEW s \in Snippets, Believed(s)' PROVE HasCause(s)'
  BY DEF CauseInv
<1>0. CycleTypes /\ CycleTypes'
  BY DEF KindInv
<1>1. CASE \E x \in E : x \in Upstream(s)' \cup {s}
  <2>1. PICK x \in E : x \in Upstream(s)' \cup {s}
    BY <1>1
  <2>2. x \in Snippets
    BY <2>1 DEF Upstream
  <2>3. Outdated(x)'
    BY <2>1, <2>2 DEF Outdated
  <2> QED
    BY <2>1, <2>3 DEF HasCause, Unsettled
<1>2. CASE E \cap (Upstream(s)' \cup {s}) = {}
  <2>1. Upstream(s)' = Upstream(s)
    BY <1>0, <1>2, UpstreamKept
  <2>2. Believed(s)
    BY <1>2, <2>1 DEF Believed, Astray
  <2>3. \A t \in Upstream(s) \cup {s} : t \in Snippets /\ t \notin E
    BY <1>2, <2>1 DEF Upstream
  <2>4. \A t \in Upstream(s) \cup {s} : Outdated(t) => Outdated(t)'
    BY <2>3 DEF Outdated
  <2>5. \A t \in Upstream(s) : Unsettled(t) => Unsettled(t)'
    BY <2>4 DEF Unsettled
  <2> QED
    BY <2>1, <2>2, <2>4, <2>5 DEF CauseInv, HasCause, OnCycle
<1> QED
  BY <1>1, <1>2

(* The edits, and the delivery of a library.                               *)
LEMMA EditsCause ==
  ASSUME KindInv, KindInv', CauseInv
  PROVE  /\ \A w \in Snippets : EditSnippet(w) => CauseInv'
         /\ \A l \in Libraries : LibraryEvent(l) \/ EditLibrary(l) => CauseInv'
<1>0. CycleTypes /\ CycleTypes' /\ \A t \in Snippets : KeepsUp(t)
  BY DEF KindInv
<1>1. ASSUME NEW w \in Snippets, EditSnippet(w) PROVE CauseInv'
  <2>1. /\ spec'[w].generation = spec[w].generation + 1
        /\ \A x \in Snippets \ {w} : spec'[x] = spec[x]
        /\ UNCHANGED <<libs, cached, cachedLibs, ea, eaEvents, libEvents, toForget, toEnqueue>>
        /\ UNCHANGED <<queued, pc, snip, frontier, visited, tries, entries, overtaken, outcome>>
    BY <1>0, <1>1, EditedSpec
  <2>2. Announced(w)'
    <3>1. /\ spec[w].generation \in Nat /\ cached[w].generation \in Nat
          /\ cached[w].generation <= spec[w].generation
      BY <1>0 DEF CycleTypes, SharedTypes, Specs, KeepsUp
    <3>2. cached'[w] # spec'[w]
      BY <2>1, <3>1
    <3> QED
      BY <3>2 DEF Announced
  <2>3. \A x \in Snippets : Announced(x) => Announced(x)'
    BY <2>1, <2>2 DEF Announced
  <2>4. PICK E : E = {w}
    OBVIOUS
  <2>5. \A x \in Snippets \ E : Fetched(spec[x])' = Fetched(spec[x]) /\ spec'[x] = spec[x]
    BY <2>1, <2>4 DEF Fetched
  <2>6. \A x \in E \cap Snippets : Announced(x)'
    BY <2>2, <2>4
  <2> QED
    BY <2>1, <2>3, <2>5, <2>6, EditCause
<1>2. ASSUME NEW l \in Libraries, LibraryEvent(l) PROVE CauseInv'
  <2>1. /\ UNCHANGED <<spec, libs, cached, eaEvents, toEnqueue, queued, pc, snip, entries>>
        /\ UNCHANGED <<visited, overtaken, outcome>>
        /\ libEvents' = libEvents \ {l} /\ toForget' = toForget \cup Importers(l)
    BY <1>2 DEF LibraryEvent, api, walk
  <2>2. \A x \in Snippets : Announced(x) => Announced(x)'
    BY <2>1 DEF Announced, Importers
  <2>3. PICK E : E = {}
    OBVIOUS
  <2>4. \A x \in Snippets \ E : Fetched(spec[x])' = Fetched(spec[x]) /\ spec'[x] = spec[x]
    BY <2>1 DEF Fetched
  <2>5. \A x \in E \cap Snippets : Announced(x)'
    BY <2>3
  <2> QED
    BY <2>1, <2>2, <2>4, <2>5, EditCause
<1>3. ASSUME NEW l \in Libraries, EditLibrary(l) PROVE CauseInv'
  <2>1. /\ UNCHANGED <<spec, cached, eaEvents, toForget, toEnqueue, queued, pc, snip, entries>>
        /\ UNCHANGED <<visited, overtaken, outcome>>
        /\ libEvents' = libEvents \cup {l}
        /\ \A k \in Libraries \ {l} : libs'[k] = libs[k]
    BY <1>0, <1>3 DEF EditLibrary, caches, walk, CycleTypes, SharedTypes
  <2>2. PICK E : E = {x \in Snippets : l \in spec[x].libraries}
    OBVIOUS
  <2>3. \A x \in Snippets : Announced(x) => Announced(x)'
    BY <2>1 DEF Announced
  <2>4. \A x \in E \cap Snippets : Announced(x)'
    BY <2>1, <2>2 DEF Announced
  <2>5. \A x \in Snippets \ E : Fetched(spec[x])' = Fetched(spec[x]) /\ spec'[x] = spec[x]
    BY <1>0, <2>1, <2>2 DEF Fetched, CycleTypes, SharedTypes, Specs
  <2> QED
    BY <2>1, <2>3, <2>4, <2>5, EditCause
<1> QED
  BY <1>1, <1>2, <1>3

(* No step leaves a belief without a cause.                                *)
LEMMA CauseNext == KindInv /\ KindInv' /\ CauseInv /\ [Next]_vars => CauseInv'
<1> SUFFICES ASSUME KindInv, KindInv', CauseInv, [Next]_vars PROVE CauseInv'
  OBVIOUS
<1>1. CASE UNCHANGED vars
  <2>1. PICK E : E = {}
    OBVIOUS
  <2>2. \A x \in Snippets \ E : Fetched(spec[x])' = Fetched(spec[x]) /\ spec'[x] = spec[x]
    BY <1>1 DEF vars, Fetched
  <2>3. \A x \in Snippets : Announced(x) => Announced(x)'
    BY <1>1 DEF vars, Announced
  <2>4. \A x \in E \cap Snippets : Announced(x)'
    BY <2>1
  <2> QED
    BY <1>1, <2>2, <2>3, <2>4, EditCause DEF vars
<1>2. ASSUME NEW w \in Snippets, Worker(w) PROVE CauseInv'
  BY <1>2, WorkerBelief, WorkerKeepsCause DEF CauseInv
<1> QED
  BY <1>1, <1>2, WatchCause, EditsCause DEF Next

(* A refused snippet is on a loop, or something upstream of it is not      *)
(* published: a verdict that an edit has overtaken is evicted, even while  *)
(* the walk it comes from is still under way.                              *)
THEOREM RefusalsAlwaysCaused == Spec => []RefusedForCause
<1>1. Init => KindInv /\ CauseInv
  <2>1. Init => CauseInv
    <3> SUFFICES ASSUME Init, NEW s \in Snippets PROVE ~ Believed(s)
      BY DEF CauseInv
    <3>1. entries[s] = NoEntry /\ NoEntry.hasCycle = FALSE
      BY DEF Init, NoEntry
    <3>2. entries[s] # [generation |-> spec[s].generation, hasCycle |-> TRUE]
      BY <3>1
    <3> QED
      BY <3>2 DEF Init, Believed, Astray
  <2> QED
    BY <2>1, KindInit
<1>2. KindInv /\ CauseInv /\ [Next]_vars => (KindInv /\ CauseInv)'
  BY KindNext, CauseNext
<1>3. KindInv /\ CauseInv => RefusedForCause
  <2> SUFFICES ASSUME KindInv, CauseInv, AtRest, NEW s \in Snippets, outcome[s] = "cycle"
               PROVE  OnCycle(s) \/ \E t \in Upstream(s) : outcome[t] # "synced"
    BY DEF RefusedForCause
  <2>1. \A t \in Snippets : ~ Outdated(t) /\ pc[t] = "idle" /\ t \notin toEnqueue \cup queued
    BY DEF AtRest, Outdated, Announced, Busy
  <2>2. HasCause(s)
    BY <2>1 DEF CauseInv, Believed
  <2>3. \A t \in Upstream(s) : t \in Snippets
    BY DEF Upstream
  <2> QED
    BY <2>1, <2>2, <2>3 DEF HasCause, Unsettled
<1> QED
  BY <1>1, <1>2, <1>3, PTL DEF Spec

-----------------------------------------------------------------------------
(* The gate on evaluations.                                                *)

Holders == {e \in Calls : slot[e]}

(* inFlightEvals counts the slots that are held, never more than the cap;  *)
(* a held slot and a running evaluation are the same thing when the gate   *)
(* is on, and a call that is about to swap has read a count with room.     *)
GateInv ==
  /\ TypeOK
  /\ inFlight = Cardinality(Holders)
  /\ limit > 0 => inFlight <= limit
  /\ \A e \in Calls :
       /\ slot[e] => eval[e] = "running"
       /\ limit > 0 /\ eval[e] = "running" => slot[e]
       /\ stage[e] \in {"load", "swap"} => eval[e] = "none" /\ limit > 0
       /\ stage[e] = "free" => eval[e] = "none"
       /\ stage[e] = "swap" => seen[e] < limit

(* Taking a slot makes one holder more, ...                                *)
LEMMA TakeSlot ==
  ASSUME TypeOK, NEW e \in Calls, ~slot[e], slot' = [slot EXCEPT ![e] = TRUE]
  PROVE  Cardinality(Holders') = Cardinality(Holders) + 1
<1>1. Holders' = Holders \cup {e} /\ e \notin Holders
  BY DEF TypeOK, Holders
<1>2. IsFiniteSet(Holders)
  BY FS_Subset, GateConstants DEF Holders
<1> QED BY <1>1, <1>2, FS_AddElement

(* ... giving it back one less.                                            *)
LEMMA GiveSlotBack ==
  ASSUME TypeOK, NEW e \in Calls, slot[e], slot' = [slot EXCEPT ![e] = FALSE]
  PROVE  Cardinality(Holders') = Cardinality(Holders) - 1
<1>1. Holders' = Holders \ {e} /\ e \in Holders
  BY DEF TypeOK, Holders
<1>2. IsFiniteSet(Holders)
  BY FS_Subset, GateConstants DEF Holders
<1> QED BY <1>1, <1>2, FS_RemoveElement

(* Initially nobody holds a slot. *)
LEMMA GateStarts == GateInit => GateInv
<1> SUFFICES ASSUME GateInit PROVE GateInv
  OBVIOUS
<1>1. Holders = {}
  BY DEF GateInit, Holders
<1>2. Cardinality(Holders) = 0
  BY <1>1, FS_EmptySet
<1>3. limit \in Nat
  BY GateConstants DEF GateInit
<1> QED BY <1>2, <1>3 DEF GateInit, GateInv, TypeOK

(* Every step keeps the count equal to the holders. *)
LEMMA GateKeeps == GateInv /\ [GateNext]_gateVars => GateInv'
<1> SUFFICES ASSUME GateInv, [GateNext]_gateVars PROVE GateInv'
  OBVIOUS
<1>0. limit \in Nat /\ Cardinality(Holders) \in Nat /\ inFlight \in Nat
  <2>1. IsFiniteSet(Holders)
    BY FS_Subset, GateConstants DEF Holders
  <2> QED BY <2>1, FS_CardinalityType, GateConstants DEF GateInv, TypeOK
<1>t. TypeOK /\ inFlight = Cardinality(Holders)
  BY DEF GateInv
<1>1. ASSUME UNCHANGED gateVars PROVE GateInv'
  <2>1. Holders' = Holders
    BY <1>1 DEF gateVars, Holders
  <2> QED BY <1>1, <2>1 DEF gateVars, GateInv, TypeOK
<1>2. ASSUME slot' = slot, inFlight' = inFlight, NEW e \in Calls,
             Call(e) \/ Load(e) \/ Send(e) \/ Receive(e) \/ TimeOut(e) \/ Drain(e)
      PROVE  GateInv'
  <2>1. Holders' = Holders
    BY <1>2 DEF Holders
  <2>2. CASE Call(e)
    BY <1>0, <1>2, <2>1, <2>2 DEF Call, Start, Enter, GateInv, TypeOK
  <2>3. CASE Load(e)
    BY <1>0, <1>2, <2>1, <2>3 DEF Load, Enter, GateInv, TypeOK
  <2>4. CASE Send(e)
    BY <1>0, <1>2, <2>1, <2>4 DEF Send, Room, GateInv, TypeOK
  <2>5. CASE Receive(e)
    BY <1>0, <1>2, <2>1, <2>5 DEF Receive, Enter, GateInv, TypeOK
  <2>6. CASE TimeOut(e)
    BY <1>0, <1>2, <2>1, <2>6 DEF TimeOut, KeepSlot, Enter, GateInv, TypeOK
  <2>7. CASE Drain(e)
    BY <1>0, <1>2, <2>1, <2>7 DEF Drain, Enter, GateInv, TypeOK
  <2> QED BY <1>2, <2>2, <2>3, <2>4, <2>5, <2>6, <2>7
<1>3. ASSUME NEW e \in Calls, Swap(e) PROVE GateInv'
  <2>1. CASE inFlight = seen[e]
    <3>1. ~slot[e]
      BY <1>3 DEF Swap, GateInv
    <3>2. /\ inFlight' = inFlight + 1
          /\ slot' = [slot EXCEPT ![e] = TRUE]
          /\ stage' = [stage EXCEPT ![e] = "waiting"]
          /\ eval' = [eval EXCEPT ![e] = "running"]
          /\ seen' = [seen EXCEPT ![e] = 0]
          /\ limit' = limit /\ leaked' = leaked
      BY <1>3, <2>1 DEF Swap, Start, Enter
    <3>3. Cardinality(Holders') = Cardinality(Holders) + 1
      BY <1>t, <3>1, <3>2, TakeSlot
    <3>4. inFlight' = Cardinality(Holders') /\ inFlight' <= limit
      <4>1. seen[e] < limit
        BY <1>3 DEF GateInv, Swap
      <4>2. inFlight' = inFlight + 1 /\ limit > inFlight
        BY <1>0, <2>1, <3>2, <4>1
      <4>3. inFlight' = Cardinality(Holders')
        BY <1>t, <3>3, <4>2
      <4>4. inFlight' <= limit
        BY <1>0, <4>2
      <4> QED BY <4>3, <4>4
    <3> QED BY <1>0, <3>2, <3>4 DEF GateInv, TypeOK
  <2>2. CASE inFlight # seen[e]
    <3>1. Holders' = Holders
      BY <1>3, <2>2 DEF Swap, Holders
    <3> QED BY <1>0, <1>3, <2>2, <3>1 DEF Swap, Enter, GateInv, TypeOK
  <2> QED BY <2>1, <2>2
<1>4. ASSUME NEW e \in Calls, Finish(e) PROVE GateInv'
  <2>0. /\ eval[e] = "running" /\ eval' = [eval EXCEPT ![e] = "released"]
        /\ slot' = [slot EXCEPT ![e] = FALSE]
        /\ inFlight' = IF slot[e] THEN inFlight - 1 ELSE inFlight
        /\ limit' = limit /\ leaked' = leaked /\ stage' = stage /\ seen' = seen
    BY <1>4 DEF Finish, Release
  <2>1. inFlight' = Cardinality(Holders') /\ inFlight' \in Int /\ inFlight' <= inFlight
    <3>1. CASE slot[e]
      <4>1. Cardinality(Holders') = Cardinality(Holders) - 1
        BY <1>t, <2>0, <3>1, GiveSlotBack
      <4> QED BY <1>0, <2>0, <3>1, <4>1 DEF GateInv
    <3>2. CASE ~slot[e]
      <4>1. Holders' = Holders
        BY <2>0, <3>2 DEF Holders, GateInv, TypeOK
      <4> QED BY <1>0, <2>0, <3>2, <4>1 DEF GateInv
    <3> QED BY <3>1, <3>2
  <2> QED BY <1>0, <2>0, <2>1 DEF GateInv, TypeOK
<1> QED BY <1>1, <1>2, <1>3, <1>4
    DEF GateNext, Call, Load, Send, Receive, TimeOut, KeepSlot, Drain

(* For every cap and every number of concurrent calls: the evaluations     *)
(* that run, abandoned ones included, never exceed --max-concurrent-evals. *)
THEOREM CapAlwaysHolds == GateSpec => []CapHolds
<1>1. GateInv => CapHolds
  <2> SUFFICES ASSUME GateInv, limit > 0 PROVE Cardinality(Running) <= limit
    BY DEF CapHolds
  <2>1. Running = Holders
    BY DEF GateInv, Running, Holders
  <2> QED BY <2>1 DEF GateInv
<1>2. GateSpec => []GateInv
  BY GateStarts, GateKeeps, PTL DEF GateSpec
<1> QED BY <1>1, <1>2, PTL

(* A rejection is justified: ErrEvalUnavailable is only ever returned      *)
(* while as many evaluations run as --max-concurrent-evals allows.         *)
THEOREM RejectsOnlyWhenFull == GateSpec => RejectedOnlyWhenFull
<1> DEFINE Justified == \A e \in Calls : stage[e] = "load" /\ stage'[e] = "free"
                                        => Cardinality(Running) >= limit
<1>1. GateInv /\ [GateNext]_gateVars => [Justified]_gateVars
  <2> SUFFICES ASSUME GateInv, GateNext, NEW e \in Calls, stage[e] = "load", stage'[e] = "free"
               PROVE  Cardinality(Running) >= limit
    OBVIOUS
  <2>1. inFlight >= limit
    <3>1. stage \in [Calls -> {"free", "load", "swap", "waiting", "draining"}]
      BY DEF GateInv, TypeOK
    <3>2. PICK c \in Calls : \/ Call(c) \/ Load(c) \/ Swap(c) \/ Finish(c) \/ Send(c)
                            \/ Receive(c) \/ TimeOut(c) \/ Drain(c)
      BY DEF GateNext
    <3>3. Load(e)
      BY <3>1, <3>2 DEF Call, Load, Swap, Finish, Send, Receive, TimeOut, Drain, Enter, Start
    <3> QED BY <3>1, <3>3 DEF Load, Enter
  <2>2. Running = Holders
    BY DEF GateInv, Running, Holders
  <2> QED BY <2>1, <2>2 DEF GateInv
<1>2. GateSpec => []GateInv
  BY GateStarts, GateKeeps, PTL DEF GateSpec
<1>3. RejectedOnlyWhenFull <=> [][Justified]_gateVars
  BY DEF RejectedOnlyWhenFull
<1> HIDE DEF Justified
<1> QED BY <1>1, <1>2, <1>3, PTL DEF GateSpec
=============================================================================
