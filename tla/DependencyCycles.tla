--------------------------- MODULE DependencyCycles ---------------------------
(***************************************************************************)
(* Snippets that read one another's ExternalArtifacts, directly or through *)
(* a JsonnetLibrary.  Every publish wakes the dependents, so a loop in the *)
(* graph would render for ever; a reconcile therefore walks the graph      *)
(* first and refuses a snippet that reaches itself.  The verdict is cached *)
(* per snippet; watch handlers evict it, maybe while a walk is under way.  *)
(*                                                                         *)
(* The walk reads the API server while the watch handlers work from the    *)
(* informers' copies.  The workqueue has one worker (the default, never    *)
(* raised), but the handlers run beside it.  SnippetLifecycle has the rest *)
(* of the reconcile; here its render and its publish are one step each.    *)
(***************************************************************************)
EXTENDS Integers, FiniteSets

CONSTANTS
  Snippets,
  Libraries,
  None,           \* inline files, or a source that is no ExternalArtifact
  Choices,        \* <<source, libraries, good>> an edit may set; good: it evaluates
  Verdicts,       \* maxCycleVerdictRetries
  MaxConcurrentReconciles,
  MaxEdits        \* bound on the edits of snippets and libraries

ASSUME CycleConstants ==
  /\ None \notin Snippets
  /\ Choices \subseteq (Snippets \cup {None}) \X (SUBSET Libraries) \X BOOLEAN
  /\ Verdicts \in Nat \ {0} /\ MaxConcurrentReconciles \in Nat \ {0}
  /\ MaxEdits \in Nat

VARIABLES
  spec,       \* the snippets in the API server
  cached,     \* the informer's copies
  libs,       \* spec.sourceRef of each library
  cachedLibs, \* the informer's copies
  ea,         \* the snippets that have an ExternalArtifact
  eaEvents,   \* ExternalArtifact events to deliver
  libEvents,  \* library events to deliver
  toForget,   \* snippets a watch handler has listed
  toEnqueue,  \* ... whose verdict it has evicted
  queued,     \* the workqueue
  pc,         \* the next step of each snippet's reconcile
  snip,       \* the copy it works on
  frontier,   \* the walk: snippets to expand
  visited,    \* the walk: snippets seen
  tries,      \* walks whose verdict could not be stored
  entries,    \* the cached verdicts
  overtaken,  \* the cache's counter has moved since this snippet's Lookup
  outcome,    \* what its last reconcile reported
  edits

api == <<spec, libs>>
caches == <<cached, cachedLibs>>
events == <<eaEvents, libEvents, toForget, toEnqueue>>
walk == <<frontier, visited>>
vars == <<spec, cached, libs, cachedLibs, ea, eaEvents, libEvents, toForget,
          toEnqueue, queued, pc, snip, frontier, visited, tries, entries,
          overtaken, outcome, edits>>

Absent == [source |-> None, libraries |-> {}, good |-> FALSE, generation |-> 0]
NoEntry == [generation |-> 0, hasCycle |-> FALSE]

Specified(choice, n) ==
  [source |-> choice[1], libraries |-> choice[2], good |-> choice[3], generation |-> n]

(* The operator starts on an empty cluster; everything else is an edit. *)
Init ==
  /\ spec = [s \in Snippets |-> Absent] /\ cached = spec /\ snip = spec
  /\ libs = [x \in Libraries |-> None] /\ cachedLibs = libs
  /\ ea = {} /\ eaEvents = {} /\ libEvents = {}
  /\ queued = {} /\ toForget = {} /\ toEnqueue = {}
  /\ pc = [s \in Snippets |-> "idle"]
  /\ frontier = [s \in Snippets |-> {}] /\ visited = [s \in Snippets |-> {}]
  /\ tries = [s \in Snippets |-> 0]
  /\ entries = [s \in Snippets |-> NoEntry]
  /\ overtaken = {}
  /\ outcome = [s \in Snippets |-> "none"]
  /\ edits = 0

-----------------------------------------------------------------------------
(* The edges. *)

(* What a render fetches: the source, and the sources of the libraries. *)
Fetched(s) == ({s.source} \cup {libs[l] : l \in s.libraries}) \ {None}

(* Mutant: the walk does not look into the libraries. *)
DirectDependency(s) == {s.source} \ {None}

(* snippetDependencies: the edges the walk follows. *)
SnippetDependencies(s) == ({s.source} \cup {libs[l] : l \in s.libraries}) \ {None}

(* mapJsonnetLibrary: the snippets known to import the library. *)
Importers(l) == {s \in Snippets : l \in cached[s].libraries}

(* mapFluxSource: those known to read the artifact, through a library too. *)
Readers(t) ==
  {s \in Snippets : cached[s].source = t
                      \/ \E l \in cached[s].libraries : cachedLibs[l] = t}

-----------------------------------------------------------------------------
(* A reconcile of s. *)

Goto(s, step) == pc' = [pc EXCEPT ![s] = step]

Done(s) ==
  /\ Goto(s, "idle")
  /\ snip' = [snip EXCEPT ![s] = Absent]
  /\ tries' = [tries EXCEPT ![s] = 0]

Busy == {s \in Snippets : pc[s] # "idle"}

(* A worker takes the snippet off the queue; no two work on the same one.  *)
Reconcile(s) ==
  /\ s \in queued /\ s \notin Busy
  /\ Cardinality(Busy) < MaxConcurrentReconciles
  /\ queued' = queued \ {s}
  /\ snip' = [snip EXCEPT ![s] = cached[s]]
  /\ Goto(s, "lookup")
  /\ UNCHANGED <<api, caches, ea, events, walk, tries, entries, overtaken, outcome, edits>>

(* What the verdict leads to: a refusal, or the render. *)
Judge(s, hasCycle) ==
  IF hasCycle
    THEN Done(s) /\ outcome' = [outcome EXCEPT ![s] = "cycle"]
    ELSE Goto(s, "render") /\ UNCHANGED <<snip, tries, outcome>>

(* Every walk starts over from the snippet itself. *)
StartWalk(s) ==
  /\ frontier' = [frontier EXCEPT ![s] = {s}]
  /\ visited' = [visited EXCEPT ![s] = {s}]

ClearWalk(s) ==
  /\ frontier' = [frontier EXCEPT ![s] = {}]
  /\ visited' = [visited EXCEPT ![s] = {}]

(* Lookup: a hit needs the generation; a miss hands out the counter. *)
Lookup(s) ==
  /\ pc[s] = "lookup"
  /\ \/ /\ entries[s].generation = snip[s].generation
        /\ Judge(s, entries[s].hasCycle)
        /\ UNCHANGED <<walk, overtaken>>
     \/ /\ entries[s].generation # snip[s].generation
        /\ StartWalk(s) /\ Goto(s, "walk")
        /\ overtaken' = overtaken \ {s}
        /\ UNCHANGED <<snip, tries, outcome>>
  /\ UNCHANGED <<api, caches, ea, events, queued, entries, edits>>

(* detectSourceRefCycle, the expansion of one snippet.  The walk goes from *)
(* the reconcile's own copy; whatever else it reads is current.  A name    *)
(* without a snippet is a leaf.                                            *)
Walk(s) ==
  /\ pc[s] = "walk"
  /\ \E cur \in frontier[s] :
       LET deps == SnippetDependencies(IF cur = s THEN snip[s] ELSE spec[cur])
           new  == {d \in deps \ visited[s] : spec[d].generation > 0}
           rest == (frontier[s] \ {cur}) \cup new
       IN  \/ /\ s \in deps
              /\ ClearWalk(s) /\ Goto(s, "found")
           \/ /\ s \notin deps /\ rest # {}
              /\ frontier' = [frontier EXCEPT ![s] = rest]
              /\ visited' = [visited EXCEPT ![s] = @ \cup deps]
              /\ UNCHANGED pc
           \/ /\ s \notin deps /\ rest = {}
              /\ ClearWalk(s) /\ Goto(s, "store")
  /\ UNCHANGED <<api, caches, ea, events, queued, snip, tries, entries, overtaken,
                 outcome, edits>>

RetriesLeft(s) == tries[s] < Verdicts

(* Mutant: the verdict of a walk is always stored. *)
AlwaysStores(s) == RetriesLeft(s)

Stores(s) == RetriesLeft(s) /\ s \notin overtaken

(* Store.  A verdict some Forget has overtaken is dropped and the walk     *)
(* done again; the one after the last retry counts without being stored.   *)
Store(s) ==
  /\ pc[s] \in {"store", "found"}
  /\ \/ /\ Stores(s)
        /\ entries' = [entries EXCEPT ![s] = [generation |-> snip[s].generation,
                                              hasCycle |-> pc[s] = "found"]]
        /\ Judge(s, pc[s] = "found")
        /\ UNCHANGED walk
     \/ /\ ~RetriesLeft(s)
        /\ Judge(s, pc[s] = "found")
        /\ UNCHANGED <<entries, walk>>
     \/ /\ ~Stores(s) /\ RetriesLeft(s)
        /\ tries' = [tries EXCEPT ![s] = @ + 1]
        /\ IF tries[s] + 1 < Verdicts
             THEN Goto(s, "lookup") /\ UNCHANGED walk
             ELSE Goto(s, "walk") /\ StartWalk(s)
        /\ UNCHANGED <<entries, snip, outcome>>
  /\ UNCHANGED <<api, caches, ea, events, queued, overtaken, edits>>

(* The tenant's reads: every artifact the snippet is made of must be there *)
(* and the whole must evaluate.                                            *)
Render(s) ==
  /\ pc[s] = "render"
  /\ \/ /\ snip[s].good /\ Fetched(snip[s]) \subseteq ea
        /\ Goto(s, "publish") /\ UNCHANGED <<snip, tries, outcome>>
     \/ /\ ~snip[s].good \/ ~(Fetched(snip[s]) \subseteq ea)
        /\ Done(s) /\ outcome' = [outcome EXCEPT ![s] = "failed"]
  /\ UNCHANGED <<api, caches, ea, events, queued, walk, entries, overtaken, edits>>

(* Publish, behind the gate on the generation.  lastUpdateTime makes every *)
(* publish an event, the revision changed or not.                          *)
Publish(s) ==
  /\ pc[s] = "publish"
  /\ \/ /\ spec[s].generation = snip[s].generation
        /\ ea' = ea \cup {s} /\ eaEvents' = eaEvents \cup {s}
        /\ outcome' = [outcome EXCEPT ![s] = "synced"]
     \/ /\ spec[s].generation # snip[s].generation
        /\ UNCHANGED <<ea, eaEvents, outcome>>
  /\ Done(s)
  /\ UNCHANGED <<api, caches, libEvents, toForget, toEnqueue, queued, walk, entries, overtaken, edits>>

-----------------------------------------------------------------------------
(* Events and edits. *)

(* Mutant: a Forget only stops the walks under way. *)
KeepEntry(s) == UNCHANGED entries

Evict(s) == entries' = [entries EXCEPT ![s] = NoEntry]

(* Forget: the entry goes, and whoever walks right now is overtaken. *)
Forget(s) ==
  /\ s \in toForget
  /\ toForget' = toForget \ {s} /\ toEnqueue' = toEnqueue \cup {s}
  /\ Evict(s)
  /\ overtaken' = {t \in Snippets : pc[t] \in {"walk", "store", "found"}} \cup overtaken
  /\ UNCHANGED <<api, caches, ea, eaEvents, libEvents, queued, pc, snip, walk, tries, outcome,
                 edits>>

(* The handler returns its requests. *)
Enqueue(s) ==
  /\ s \in toEnqueue
  /\ toEnqueue' = toEnqueue \ {s} /\ queued' = queued \cup {s}
  /\ UNCHANGED <<api, caches, ea, eaEvents, libEvents, toForget, pc, snip, walk, tries,
                 entries, overtaken, outcome, edits>>

(* The informer delivers a library; its handler lists the importers. *)
LibraryEvent(l) ==
  /\ l \in libEvents
  /\ libEvents' = libEvents \ {l}
  /\ cachedLibs' = [cachedLibs EXCEPT ![l] = libs[l]]
  /\ toForget' = toForget \cup Importers(l)
  /\ UNCHANGED <<api, cached, ea, eaEvents, toEnqueue, queued, pc, snip, walk, tries,
                 entries, overtaken, outcome, edits>>

(* Likewise for an ExternalArtifact. *)
ArtifactEvent(t) ==
  /\ t \in eaEvents
  /\ eaEvents' = eaEvents \ {t}
  /\ toForget' = toForget \cup Readers(t)
  /\ UNCHANGED <<api, caches, ea, libEvents, toEnqueue, queued, pc, snip, walk, tries, entries,
                 overtaken, outcome, edits>>

(* The informer delivers a snippet: its generation has moved. *)
SnippetEvent(s) ==
  /\ cached[s] # spec[s]
  /\ cached' = [cached EXCEPT ![s] = spec[s]]
  /\ queued' = queued \cup {s}
  /\ UNCHANGED <<api, cachedLibs, ea, events, pc, snip, walk, tries, entries,
                 overtaken, outcome, edits>>

(* A refused or failed snippet is looked at again after a minute. *)
Retry(s) ==
  /\ pc[s] = "idle" /\ outcome[s] \in {"cycle", "failed"}
  /\ s \notin queued
  /\ queued' = queued \cup {s}
  /\ UNCHANGED <<api, caches, ea, events, pc, snip, walk, tries, entries, overtaken,
                 outcome, edits>>

(* A snippet is created or edited.  Nobody validates: the webhook is       *)
(* optional, and a loop closed through a library is not its to see.        *)
EditSnippet(s) ==
  /\ edits < MaxEdits /\ edits' = edits + 1
  /\ \E choice \in Choices :
       /\ spec[s] # Specified(choice, spec[s].generation)
       /\ spec' = [spec EXCEPT ![s] = Specified(choice, @.generation + 1)]
  /\ UNCHANGED <<libs, caches, ea, events, queued, pc, snip, walk, tries, entries,
                 overtaken, outcome>>

EditLibrary(l) ==
  /\ edits < MaxEdits /\ edits' = edits + 1
  /\ \E source \in (Snippets \cup {None}) \ {libs[l]} :
       libs' = [libs EXCEPT ![l] = source]
  /\ libEvents' = libEvents \cup {l}
  /\ UNCHANGED <<spec, caches, ea, eaEvents, toForget, toEnqueue, queued, pc, snip,
                 walk, tries, entries, overtaken, outcome>>

Worker(s) ==
  Reconcile(s) \/ Lookup(s) \/ Walk(s) \/ Store(s) \/ Render(s) \/ Publish(s)

Watch(s) == Forget(s) \/ Enqueue(s) \/ ArtifactEvent(s) \/ SnippetEvent(s)

Next ==
  \/ \E s \in Snippets : Worker(s) \/ Watch(s) \/ Retry(s) \/ EditSnippet(s)
  \/ \E l \in Libraries : LibraryEvent(l) \/ EditLibrary(l)

Spec == Init /\ [][Next]_vars

(* Workers, informers and handlers are goroutines that always get to run;  *)
(* the queue is first in, first out, so whoever waits gets a worker.       *)
Fairness ==
  /\ \A s \in Snippets : /\ WF_vars(Worker(s)) /\ SF_vars(Reconcile(s))
                         /\ WF_vars(Forget(s)) /\ WF_vars(Enqueue(s))
                         /\ WF_vars(ArtifactEvent(s)) /\ WF_vars(SnippetEvent(s))
  /\ \A l \in Libraries : WF_vars(LibraryEvent(l))

FairSpec == Spec /\ Fairness

-----------------------------------------------------------------------------
(* Properties. *)

AtRest ==
  /\ Busy = {} /\ queued = {} /\ toForget = {} /\ toEnqueue = {} /\ eaEvents = {} /\ libEvents = {}
  /\ cached = spec

Upstream(s) ==
  {t \in Snippets :
     \A C \in SUBSET Snippets :
       Fetched(spec[s]) \cup UNION {Fetched(spec[c]) : c \in C} \subseteq C => t \in C}

OnCycle(s) == s \in Upstream(s)

(* No loop of snippets goes unnoticed: once everything is delivered, some  *)
(* member of each has been refused, whichever edits closed it and whatever *)
(* walks, evictions and cached verdicts they crossed.                      *)
CyclesRefused ==
  AtRest =>
    \A S \in SUBSET Snippets :
      S # {} /\ (\A s \in S : Fetched(spec[s]) \cap S # {})
        => \E s \in S : outcome[s] = "cycle"

(* A refusal that has become wrong lasts only while something the snippet  *)
(* is made of is itself not published: verdicts are cached, but a publish  *)
(* upstream evicts them all the way down.                                  *)
RefusedForCause ==
  AtRest =>
    \A s \in Snippets :
      outcome[s] = "cycle" =>
        OnCycle(s) \/ \E t \in Upstream(s) : outcome[t] # "synced"

(* No endless re-render loop: the publishes that trigger one another stop. *)
RenderLoopsEnd == <>[](eaEvents = {})
=============================================================================
