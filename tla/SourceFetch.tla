----------------------------- MODULE SourceFetch -----------------------------
(***************************************************************************)
(* Reconciles fetch the artifact of the Flux source they all read.  A      *)
(* fetch reads the source's status, waits for one of the download slots,   *)
(* copies the body to a temporary file, compares its digest with the       *)
(* declared one, and only then unpacks it, through a reader that counts    *)
(* what the gzip stream yields.  Meanwhile the source publishes and its    *)
(* controller deletes older tarballs.                                      *)
(*                                                                         *)
(* The Fetcher allows for any number of workers, and so does this module.  *)
(* Sizes are in units; an entry takes a unit for its header.  An archive   *)
(* has a body of some size, regular entries, an end marker or not, a       *)
(* declared digest or not, and a URL that validateURL lets through or not. *)
(***************************************************************************)
EXTENDS Naturals, FiniteSets, Sequences

CONSTANTS
  Snippets,
  Workers,                 \* MaxConcurrentReconciles
  MaxConcurrentDownloads,
  MaxArchiveBytes,         \* of the body,
  MaxPerEntryBytes,        \* of one entry,
  MaxExtractedBytes,       \* of the entries kept,
  MaxDecompressedBytes,    \* of the stream
  Archives,                \* what each revision of the source may be
  MaxFaults                \* bound on failures

Tarballs ==
  [body : Nat, entries : Seq([name : STRING, size : Nat]), marker : 0..1,
   digest : {"declared", "absent", "malformed"}, reachable : BOOLEAN]

ASSUME FetchConstants ==
  /\ IsFiniteSet(Snippets)
  /\ {Workers, MaxConcurrentDownloads} \subseteq Nat \ {0}
  /\ {MaxArchiveBytes, MaxPerEntryBytes, MaxExtractedBytes, MaxDecompressedBytes} \subseteq Nat
  /\ MaxFaults \in Nat

ASSUME ArchivesAreTarballs == Archives \in Seq(SUBSET Tarballs)

VARIABLES
  ready,      \* the source's Ready condition
  published,  \* its artifacts, by revision
  served,     \* the revisions whose tarball can be downloaded
  queued,     \* snippets with a reconcile due
  job,        \* what each reconcile is at
  slots,      \* slots taken
  temps,      \* snippets with a temporary file on the disk
  result,     \* how each snippet's last fetch ended
  faults

fetchVars == <<ready, published, served, queued, job, slots, temps, result, faults>>

Dropped == ""        \* the name of an entry that normaliseEntry refuses

NoJob == [pc |-> "idle", rev |-> 0, copied |-> 0, corrupt |-> FALSE, entry |-> 1,
          want |-> 0, left |-> 0, total |-> 0, files |-> {}]
NoResult == [outcome |-> "none", rev |-> 0, corrupt |-> FALSE, files |-> {}]

Init ==
  /\ ready \in BOOLEAN /\ published = <<>> /\ served = {}
  /\ queued = Snippets
  /\ job = [s \in Snippets |-> NoJob]
  /\ slots = 0 /\ temps = {}
  /\ result = [s \in Snippets |-> NoResult]
  /\ faults = MaxFaults

Archive(s) == published[job[s].rev]
Upstream == <<ready, published, served>>
Fault == faults > 0 /\ faults' = faults - 1

-----------------------------------------------------------------------------
(* Mutant: a failure that a retry cannot mend waits for an event, as the   *)
(* comment on classifyFetchError has it.                                   *)
RetriedIfTransient(outcome) ==
  outcome \in {"notready", "api", "cancelled", "network", "duplicate", "gzip"}

(* A transient failure is returned, for the workqueue's backoff; any other *)
(* one is tried again after permanentRetryInterval.                        *)
Retried(outcome) == outcome # "ok"

(* Fetch returns, and with it its deferred removal of the file. *)
Ends(s, outcome) ==
  /\ result' = [result EXCEPT ![s] =
                  [outcome |-> outcome, rev |-> job[s].rev, corrupt |-> job[s].corrupt,
                   files |-> IF outcome = "ok" THEN job[s].files ELSE {}]]
  /\ queued' = IF Retried(outcome) THEN queued \cup {s} ELSE queued
  /\ job' = [job EXCEPT ![s] = NoJob]
  /\ temps' = temps \ {s}
  /\ UNCHANGED Upstream

Moves(s, j) ==
  /\ job' = [job EXCEPT ![s] = j]
  /\ UNCHANGED <<Upstream, queued, result>>

Busy == {s \in Snippets : job[s].pc # "idle"}

Begin(s) ==
  /\ s \in queued /\ job[s].pc = "idle" /\ Cardinality(Busy) < Workers
  /\ queued' = queued \ {s}
  /\ job' = [job EXCEPT ![s].pc = "get"]
  /\ result' = [result EXCEPT ![s] = NoResult]
  /\ UNCHANGED <<Upstream, slots, temps, faults>>

(* The Get, readyState, readArtifact and the check of the URL. *)
Get(s) ==
  LET rev == Len(published)
  IN  /\ job[s].pc = "get"
      /\ \/ Ends(s, "api") /\ Fault
         \/ (~ready \/ rev = 0) /\ Ends(s, "notready") /\ UNCHANGED faults
         \/ /\ ready /\ rev > 0 /\ ~published[rev].reachable
            /\ Ends(s, "url") /\ UNCHANGED faults
         \/ /\ ready /\ rev > 0 /\ published[rev].reachable
            /\ Moves(s, [job[s] EXCEPT !.pc = "acquire", !.rev = rev])
            /\ UNCHANGED <<temps, faults>>
      /\ UNCHANGED slots

-----------------------------------------------------------------------------
(* The download. *)

Acquire(s) ==
  /\ job[s].pc = "acquire" /\ slots < MaxConcurrentDownloads
  /\ slots' = slots + 1
  /\ Moves(s, [job[s] EXCEPT !.pc = "request"])
  /\ UNCHANGED <<temps, faults>>

(* Mutant: the release is deferred before the error is looked at. *)
ReleasedByCancel == IF slots > 0 THEN slots - 1 ELSE slots

SlotsAfterCancel == slots

(* The context ends while the fetch waits for its slot. *)
Cancelled(s) ==
  /\ job[s].pc = "acquire" /\ Fault
  /\ Ends(s, "cancelled")
  /\ slots' = SlotsAfterCancel

Release == slots' = slots - 1

(* A tarball that is gone is a permanent 404; a request may also fail. *)
Request(s) ==
  /\ job[s].pc = "request"
  /\ \/ /\ job[s].rev \in served
        /\ Moves(s, [job[s] EXCEPT !.pc = "copy"])
        /\ temps' = temps \cup {s}
        /\ UNCHANGED <<slots, faults>>
     \/ job[s].rev \notin served /\ Ends(s, "gone") /\ Release /\ UNCHANGED faults
     \/ Ends(s, "network") /\ Release /\ Fault

(* The limited reader yields one unit more than allowed, and then no more. *)
Limit(a) == IF a.body > MaxArchiveBytes THEN MaxArchiveBytes + 1 ELSE a.body

Copy(s) ==
  /\ job[s].pc = "copy" /\ job[s].copied < Limit(Archive(s))
  /\ \/ Moves(s, [job[s] EXCEPT !.copied = @ + 1]) /\ UNCHANGED faults
     \/ Moves(s, [job[s] EXCEPT !.copied = @ + 1, !.corrupt = TRUE]) /\ Fault
  /\ UNCHANGED <<slots, temps>>

CopyFails(s) ==
  /\ job[s].pc = "copy" /\ Fault
  /\ Ends(s, "network") /\ Release

CopyEnds(s) ==
  /\ job[s].pc = "copy" /\ job[s].copied = Limit(Archive(s))
  /\ IF job[s].copied > MaxArchiveBytes
       THEN Ends(s, "body")
       ELSE Moves(s, [job[s] EXCEPT !.pc = "verify"]) /\ UNCHANGED temps
  /\ Release /\ UNCHANGED faults

DigestMatches(s) ==
  \/ Archive(s).digest = "absent"
  \/ Archive(s).digest = "declared" /\ ~job[s].corrupt

Verify(s) ==
  /\ job[s].pc = "verify"
  /\ IF DigestMatches(s)
       THEN /\ Moves(s, [job[s] EXCEPT !.pc = "header", !.want = 1,
                                       !.left = MaxDecompressedBytes])
            /\ UNCHANGED temps
       ELSE Ends(s, "digest")
  /\ UNCHANGED <<slots, faults>>

-----------------------------------------------------------------------------
(* Unpacking. *)

More(s) == job[s].entry <= Len(Archive(s).entries) \/ Archive(s).marker = 1

(* Mutant: a reader that has nothing left to give refuses, without a look  *)
(* whether there would have been anything.                                 *)
TripsAtCap(s) == job[s].left = 0

Trips(s) == job[s].left = 0 /\ More(s)

(* cappedReader.Read, in chunks of any size. *)
Read(s) ==
  /\ job[s].pc \in {"header", "body"} /\ job[s].want > 0
  /\ \/ Trips(s) /\ Ends(s, "shape")
     \/ /\ job[s].left > 0 /\ More(s)
        /\ \E n \in 1..job[s].want :
             n <= job[s].left
             /\ Moves(s, [job[s] EXCEPT !.want = @ - n, !.left = @ - n])
        /\ UNCHANGED temps
  /\ UNCHANGED <<slots, faults>>

(* Corrupt gzip data that no digest caught may be caught here. *)
Unreadable(s) ==
  /\ job[s].pc \in {"header", "body"} /\ job[s].corrupt
  /\ Ends(s, "gzip")
  /\ UNCHANGED <<slots, faults>>

(* One header has been read: the entry's name, then its size. *)
Header(s) ==
  LET e == Archive(s).entries[job[s].entry]
      body == [job[s] EXCEPT !.pc = "body", !.want = e.size]
  IN  /\ job[s].pc = "header" /\ job[s].want = 0
      /\ job[s].entry <= Len(Archive(s).entries)
      /\ \/ e.name = Dropped /\ Moves(s, body) /\ UNCHANGED temps
         \/ e.name \in job[s].files /\ Ends(s, "duplicate")
         \/ /\ e.name \notin job[s].files \cup {Dropped}
            /\ IF e.size <= MaxPerEntryBytes /\ e.size <= MaxExtractedBytes - job[s].total
                 THEN Moves(s, body) /\ UNCHANGED temps
                 ELSE Ends(s, "shape")
      /\ UNCHANGED <<slots, faults>>

(* Its body has been read, or skipped, which decompresses it as well.      *)
Body(s) ==
  LET e == Archive(s).entries[job[s].entry]
      next == [job[s] EXCEPT !.pc = "header", !.want = 1, !.entry = @ + 1]
  IN  /\ job[s].pc = "body" /\ job[s].want = 0
      /\ Moves(s, IF e.name = Dropped THEN next
                  ELSE [next EXCEPT !.total = @ + e.size, !.files = @ \cup {e.name}])
      /\ UNCHANGED <<slots, temps, faults>>

(* The end marker has been read, or the stream ends without one.  A tree   *)
(* with nothing in it is refused by the reconcile.                         *)
Unpacked(s) ==
  /\ job[s].pc = "header" /\ job[s].entry > Len(Archive(s).entries)
  /\ job[s].want = 0 \/ Archive(s).marker = 0
  /\ Ends(s, IF job[s].files = {} THEN "empty" ELSE "ok")
  /\ UNCHANGED <<slots, faults>>

-----------------------------------------------------------------------------
(* The source.  Whatever happens to its status is an event for them all.   *)
Publish ==
  /\ Len(published) < Len(Archives)
  /\ \E a \in Archives[Len(published) + 1] : published' = Append(published, a)
  /\ served' = served \cup {Len(published) + 1}
  /\ queued' = Snippets
  /\ UNCHANGED <<ready, job, slots, temps, result, faults>>

Collect ==
  /\ \E r \in served : r < Len(published) /\ served' = served \ {r}
  /\ UNCHANGED <<ready, published, queued, job, slots, temps, result, faults>>

ReadyChanges ==
  /\ \/ ready /\ Fault
     \/ ~ready /\ UNCHANGED faults
  /\ ready' = ~ready
  /\ queued' = Snippets
  /\ UNCHANGED <<published, served, job, slots, temps, result>>

Step(s) ==
  \/ Get(s) \/ Request(s) \/ Copy(s) \/ CopyEnds(s) \/ Verify(s)
  \/ Read(s) \/ Header(s) \/ Body(s) \/ Unpacked(s)

Next ==
  \/ \E s \in Snippets :
       Begin(s) \/ Acquire(s) \/ Cancelled(s) \/ CopyFails(s) \/ Unreadable(s) \/ Step(s)
  \/ Publish \/ Collect \/ ReadyChanges

Spec == Init /\ [][Next]_fetchVars

(* A free worker takes a key that is due, the senders on a channel get     *)
(* their turns, and a download moves on until the client's timeout ends it. *)
Fairness ==
  \A s \in Snippets :
    WF_fetchVars(Begin(s)) /\ SF_fetchVars(Acquire(s)) /\ WF_fetchVars(Step(s))

FairSpec == Spec /\ Fairness

-----------------------------------------------------------------------------
(* What the extractor promises, said of the archive as a whole.  A unit of *)
(* its bodies is an entry and a position in it.                            *)
Units(a, I) == UNION {{i} \X (1 .. a.entries[i].size) : i \in I}
SizeOf(a, I) == Cardinality(Units(a, I))
NamesAt(a, I) == {a.entries[i].name : i \in I}

Kept(a) == {i \in DOMAIN a.entries : a.entries[i].name # Dropped}
Names(a) == NamesAt(a, Kept(a))
StreamLength(a) == Len(a.entries) + SizeOf(a, DOMAIN a.entries) + a.marker

Consumable(a) ==
  /\ a.body <= MaxArchiveBytes
  /\ \A i \in Kept(a) : a.entries[i].size <= MaxPerEntryBytes
  /\ SizeOf(a, Kept(a)) <= MaxExtractedBytes
  /\ StreamLength(a) <= MaxDecompressedBytes
  /\ \A i, k \in Kept(a) : a.entries[i].name = a.entries[k].name => i = k

(* Slots and temporary files belong to fetches under way, on every path    *)
(* out of them: no slot is lost, none is given back twice, and at most     *)
(* MaxConcurrentDownloads bodies are on the wire.                          *)
ResourcesOwned ==
  /\ slots = Cardinality({s \in Snippets : job[s].pc \in {"request", "copy"}})
  /\ slots <= MaxConcurrentDownloads
  /\ \A s \in temps : job[s].pc \in {"copy", "verify", "header", "body"}

(* A tree is what its revision's archive holds, all of it and nothing but  *)
(* it, and an archive is refused for its shape exactly if it exceeds a     *)
(* cap, whatever the chunks it arrives in.                                 *)
JudgedRight ==
  \A s \in Snippets :
    LET r == result[s] IN
    /\ r.outcome = "ok" =>
         LET a == published[r.rev] IN
         Consumable(a) /\ r.files = Names(a) /\ (r.corrupt => a.digest = "absent")
    /\ r.outcome \in {"body", "shape", "duplicate"} => ~Consumable(published[r.rev])

(* Once the source stays ready with an artifact that can be consumed, each *)
(* snippet ends up with that one, whatever its fetches met before.         *)
Current == published[Len(published)]

Settles ==
  /\ ready /\ published # <<>>
  /\ Consumable(Current) /\ Current.reachable /\ Current.digest # "malformed"
  /\ Names(Current) # {}

Converges ==
  \A s \in Snippets :
    <>[]Settles => <>[](result[s].outcome = "ok" /\ result[s].rev = Len(published))
=============================================================================
