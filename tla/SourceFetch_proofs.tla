-------------------------- MODULE SourceFetch_proofs --------------------------
(***************************************************************************)
(* No path out of a fetch loses a download slot, gives one back twice, or  *)
(* leaves a temporary file behind: for every number of snippets, workers   *)
(* and slots, every archive and every failure.  And every archive is       *)
(* judged right, whatever the caps and the chunks it is read in.           *)
(***************************************************************************)
EXTENDS SourceFetch, FiniteSetTheorems, TLAPS

(* The fields of a job; what they hold does not matter here. *)
IsJob(j) ==
  j = [pc |-> j.pc, rev |-> j.rev, copied |-> j.copied, corrupt |-> j.corrupt,
       entry |-> j.entry, want |-> j.want, left |-> j.left, total |-> j.total,
       files |-> j.files]

HoldsSlot(j) == j.pc \in {"request", "copy"}
HoldsFile(j) == j.pc \in {"copy", "verify", "header", "body"}
Downloading == {s \in Snippets : HoldsSlot(job[s])}

FetchInv ==
  /\ job = [s \in Snippets |-> job[s]]
  /\ \A s \in Snippets : IsJob(job[s])
  /\ temps \subseteq Snippets
  /\ slots = Cardinality(Downloading)
  /\ slots <= MaxConcurrentDownloads
  /\ \A s \in temps : HoldsFile(job[s])

(* The slots counted are those of the downloads, the files those of the    *)
(* fetches.                                                                *)
LEMMA InvMeansOwned == FetchInv => ResourcesOwned
<1>1. Downloading = {s \in Snippets : job[s].pc \in {"request", "copy"}}
  BY DEF Downloading, HoldsSlot
<1> QED
  BY <1>1 DEF FetchInv, ResourcesOwned, HoldsFile

(* The downloads under way are finitely many, and their count is a number. *)
LEMMA SlotsType ==
  ASSUME FetchInv
  PROVE  IsFiniteSet(Downloading) /\ slots \in Nat
<1>1. Downloading \in SUBSET Snippets
  BY DEF Downloading
<1>2. IsFiniteSet(Downloading)
  BY <1>1, FetchConstants, FS_Subset
<1> QED
  BY <1>2, FS_CardinalityType DEF FetchInv

(* One job changes: what that means for the set of those on the wire. *)
LEMMA OneJobChanges ==
  ASSUME FetchInv, NEW s \in Snippets, NEW j, IsJob(j), job' = [job EXCEPT ![s] = j]
  PROVE  /\ job' = [x \in Snippets |-> job'[x]]
         /\ \A x \in Snippets : IsJob(job'[x])
         /\ job'[s] = j
         /\ \A x \in Snippets \ {s} : job'[x] = job[x]
         /\ HoldsSlot(j) => Downloading' = Downloading \cup {s}
         /\ ~HoldsSlot(j) => Downloading' = Downloading \ {s}
<1>1. job'[s] = j /\ \A x \in Snippets \ {s} : job'[x] = job[x]
  BY DEF FetchInv
<1>2. job' = [x \in Snippets |-> job'[x]]
  BY DEF FetchInv
<1>3. \A x \in Snippets : IsJob(job'[x])
  BY <1>1 DEF FetchInv
<1>4. \A x \in Snippets : HoldsSlot(job'[x]) <=> IF x = s THEN HoldsSlot(j) ELSE HoldsSlot(job[x])
  BY <1>1
<1>5. HoldsSlot(j) => Downloading' = Downloading \cup {s}
  BY <1>4 DEF Downloading
<1>6. ~HoldsSlot(j) => Downloading' = Downloading \ {s}
  BY <1>4 DEF Downloading
<1> QED
  BY <1>1, <1>2, <1>3, <1>5, <1>6

-----------------------------------------------------------------------------
(* A step inside a fetch that takes no slot and gives none back.           *)
LEMMA MoveKeepsInv ==
  ASSUME FetchInv, NEW s \in Snippets, NEW j, IsJob(j), job' = [job EXCEPT ![s] = j],
         HoldsSlot(j) <=> HoldsSlot(job[s]), HoldsFile(job[s]) => HoldsFile(j),
         UNCHANGED <<slots, temps>>
  PROVE  FetchInv'
<1>1. Downloading' = Downloading
  BY OneJobChanges DEF Downloading
<1> QED
  BY <1>1, OneJobChanges DEF FetchInv

(* The slot is taken: there was one. *)
LEMMA TakeKeepsInv ==
  ASSUME FetchInv, NEW s \in Snippets, NEW j, IsJob(j), job' = [job EXCEPT ![s] = j],
         HoldsSlot(j), ~HoldsSlot(job[s]), ~HoldsFile(job[s]),
         slots < MaxConcurrentDownloads, slots' = slots + 1, UNCHANGED temps
  PROVE  FetchInv'
<1>1. Downloading' = Downloading \cup {s} /\ s \notin Downloading
  BY OneJobChanges DEF Downloading
<1>2. Cardinality(Downloading') = slots + 1
  BY <1>1, SlotsType, FS_AddElement DEF FetchInv
<1>3. s \notin temps
  BY DEF FetchInv
<1> QED
  BY <1>2, <1>3, SlotsType, FetchConstants, OneJobChanges DEF FetchInv

(* A fetch that holds a slot gives it back, and is through or goes on.     *)
LEMMA GiveBackKeepsInv ==
  ASSUME FetchInv, NEW s \in Snippets, NEW j, IsJob(j), job' = [job EXCEPT ![s] = j],
         ~HoldsSlot(j), HoldsSlot(job[s]), slots' = slots - 1,
         \/ temps' = temps \ {s}
         \/ UNCHANGED temps /\ HoldsFile(j)
  PROVE  FetchInv'
<1>1. Downloading' = Downloading \ {s} /\ s \in Downloading
  BY OneJobChanges DEF Downloading
<1>2. Cardinality(Downloading') = slots - 1
  BY <1>1, SlotsType, FS_RemoveElement DEF FetchInv
<1>3. slots' = Cardinality(Downloading') /\ slots' <= MaxConcurrentDownloads
  BY <1>2, SlotsType, FetchConstants DEF FetchInv
<1>4. temps' \subseteq Snippets /\ \A x \in temps' : HoldsFile(job'[x])
  BY OneJobChanges DEF FetchInv
<1> QED
  BY <1>3, <1>4, OneJobChanges DEF FetchInv

(* A fetch that holds none ends. *)
LEMMA EndKeepsInv ==
  ASSUME FetchInv, NEW s \in Snippets, NEW outcome, Ends(s, outcome),
         ~HoldsSlot(job[s]), UNCHANGED slots
  PROVE  FetchInv'
<1>1. IsJob(NoJob) /\ ~HoldsSlot(NoJob) /\ job' = [job EXCEPT ![s] = NoJob]
  BY DEF IsJob, NoJob, HoldsSlot, Ends
<1>2. Downloading' = Downloading
  BY <1>1, OneJobChanges DEF Downloading
<1>3. temps' = temps \ {s}
  BY DEF Ends
<1> QED
  BY <1>1, <1>2, <1>3, OneJobChanges DEF FetchInv

(* A way out that runs the deferred release gives the slot back.           *)
LEMMA EndGivesBack ==
  ASSUME FetchInv, NEW s \in Snippets, NEW outcome, Ends(s, outcome),
         HoldsSlot(job[s]), Release
  PROVE  FetchInv'
<1>1. IsJob(NoJob) /\ ~HoldsSlot(NoJob) /\ job' = [job EXCEPT ![s] = NoJob]
  BY DEF IsJob, NoJob, HoldsSlot, Ends
<1> QED
  BY <1>1, GiveBackKeepsInv DEF Ends, Release

-----------------------------------------------------------------------------
(* Every step of a fetch keeps slots and files with their owners.          *)
LEMMA FetchStep ==
  ASSUME FetchInv, NEW s \in Snippets,
         Begin(s) \/ Acquire(s) \/ Cancelled(s) \/ CopyFails(s) \/ Unreadable(s) \/ Step(s)
  PROVE  FetchInv'
<1> USE DEF HoldsSlot, HoldsFile, Moves
<1>0. IsJob(job[s])
  BY DEF FetchInv
<1>1. CASE Begin(s)
  <2>1. PICK k : k = [job[s] EXCEPT !.pc = "get"]
    OBVIOUS
  <2>2. IsJob(k) /\ k.pc = "get"
    BY <1>0, <2>1 DEF IsJob
  <2>3. job' = [job EXCEPT ![s] = k] /\ job[s].pc = "idle" /\ UNCHANGED <<slots, temps>>
    BY <1>1, <2>1 DEF Begin
  <2> QED
    BY <2>2, <2>3, MoveKeepsInv
<1>2. CASE Get(s)
  <2>1. ASSUME NEW outcome, Ends(s, outcome) PROVE FetchInv'
    BY <1>2, <2>1, EndKeepsInv DEF Get
  <2>2. ASSUME Moves(s, [job[s] EXCEPT !.pc = "acquire", !.rev = Len(published)]),
               UNCHANGED temps
        PROVE  FetchInv'
    <3>1. PICK k : k = [job[s] EXCEPT !.pc = "acquire", !.rev = Len(published)]
      OBVIOUS
    <3>2. IsJob(k) /\ k.pc = "acquire"
      BY <1>0, <3>1 DEF IsJob
    <3> QED
      BY <1>2, <2>2, <3>1, <3>2, MoveKeepsInv DEF Get
  <2> QED
    BY <1>2, <2>1, <2>2 DEF Get
<1>3. CASE Acquire(s)
  <2>1. PICK k : k = [job[s] EXCEPT !.pc = "request"]
    OBVIOUS
  <2>2. IsJob(k) /\ k.pc = "request"
    BY <1>0, <2>1 DEF IsJob
  <2> QED
    BY <1>3, <2>1, <2>2, TakeKeepsInv DEF Acquire
<1>4. CASE Cancelled(s)
  BY <1>4, EndKeepsInv DEF Cancelled, SlotsAfterCancel
<1>5. CASE Request(s)
  <2>1. ASSUME NEW outcome, Ends(s, outcome), Release PROVE FetchInv'
    BY <1>5, <2>1, EndGivesBack DEF Request
  <2>2. CASE /\ Moves(s, [job[s] EXCEPT !.pc = "copy"])
             /\ temps' = temps \cup {s} /\ UNCHANGED slots
    <3>0. PICK k : k = [job[s] EXCEPT !.pc = "copy"]
      OBVIOUS
    <3>1. IsJob(k) /\ k.pc = "copy" /\ job' = [job EXCEPT ![s] = k]
      BY <1>0, <2>2, <3>0 DEF IsJob
    <3>2. Downloading' = Downloading
      BY <1>5, <2>2, <3>1, OneJobChanges DEF Downloading, Request
    <3>3. /\ job' = [x \in Snippets |-> job'[x]]
          /\ \A x \in Snippets : IsJob(job'[x])
          /\ job'[s] = k /\ \A x \in Snippets \ {s} : job'[x] = job[x]
      BY <3>1, OneJobChanges
    <3>4. temps' \subseteq Snippets /\ \A x \in temps' : HoldsFile(job'[x])
      BY <2>2, <3>1, <3>3 DEF FetchInv
    <3> QED
      BY <2>2, <3>2, <3>3, <3>4 DEF FetchInv
  <2> QED
    BY <1>5, <2>1, <2>2 DEF Request
<1>6. CASE Copy(s)
  <2>1. PICK k \in {[job[s] EXCEPT !.copied = @ + 1],
                   [job[s] EXCEPT !.copied = @ + 1, !.corrupt = TRUE]} : Moves(s, k)
    BY <1>6 DEF Copy
  <2>2. IsJob(k) /\ k.pc = job[s].pc
    BY <1>0, <2>1 DEF IsJob
  <2> QED
    BY <1>6, <2>1, <2>2, MoveKeepsInv DEF Copy
<1>7. CASE CopyFails(s)
  BY <1>7, EndGivesBack DEF CopyFails
<1>8. CASE CopyEnds(s)
  <2>1. CASE Ends(s, "body")
    BY <1>8, <2>1, EndGivesBack DEF CopyEnds
  <2>2. CASE Moves(s, [job[s] EXCEPT !.pc = "verify"]) /\ UNCHANGED temps
    <3>1. PICK k : k = [job[s] EXCEPT !.pc = "verify"]
      OBVIOUS
    <3>2. IsJob(k) /\ k.pc = "verify"
      BY <1>0, <3>1 DEF IsJob
    <3> QED
      BY <1>8, <2>2, <3>1, <3>2, GiveBackKeepsInv DEF CopyEnds, Release
  <2> QED
    BY <1>8, <2>1, <2>2 DEF CopyEnds
<1>9. CASE Verify(s)
  <2>1. CASE Ends(s, "digest")
    BY <1>9, <2>1, EndKeepsInv DEF Verify
  <2>2. CASE ~Ends(s, "digest")
    <3>1. PICK k : k = [job[s] EXCEPT !.pc = "header", !.want = 1,
                                      !.left = MaxDecompressedBytes]
      OBVIOUS
    <3>2. IsJob(k) /\ k.pc = "header"
      BY <1>0, <3>1 DEF IsJob
    <3> QED
      BY <1>9, <2>2, <3>1, <3>2, MoveKeepsInv DEF Verify
  <2> QED
    BY <2>1, <2>2
<1>10. CASE Read(s)
  <2>1. CASE Ends(s, "shape")
    BY <1>10, <2>1, EndKeepsInv DEF Read
  <2>2. ASSUME NEW n, Moves(s, [job[s] EXCEPT !.want = @ - n, !.left = @ - n]), UNCHANGED temps
        PROVE  FetchInv'
    <3>1. PICK k : k = [job[s] EXCEPT !.want = @ - n, !.left = @ - n]
      OBVIOUS
    <3>2. IsJob(k) /\ k.pc = job[s].pc
      BY <1>0, <3>1 DEF IsJob
    <3> QED
      BY <1>10, <2>2, <3>1, <3>2, MoveKeepsInv DEF Read
  <2> QED
    BY <1>10, <2>1, <2>2 DEF Read
<1>11. CASE Unreadable(s)
  BY <1>11, EndKeepsInv DEF Unreadable
<1>12. CASE Header(s)
  <2> DEFINE e == Archive(s).entries[job[s].entry]
  <2>1. ASSUME NEW outcome, Ends(s, outcome) PROVE FetchInv'
    BY <1>12, <2>1, EndKeepsInv DEF Header
  <2>2. CASE Moves(s, [job[s] EXCEPT !.pc = "body", !.want = e.size]) /\ UNCHANGED temps
    <3>1. PICK k : k = [job[s] EXCEPT !.pc = "body", !.want = e.size]
      OBVIOUS
    <3>2. IsJob(k) /\ k.pc = "body"
      BY <1>0, <3>1 DEF IsJob
    <3> QED
      BY <1>12, <2>2, <3>1, <3>2, MoveKeepsInv DEF Header
  <2> QED
    BY <1>12, <2>1, <2>2 DEF Header
<1>13. CASE Body(s)
  <2> DEFINE e == Archive(s).entries[job[s].entry]
             Kept1(k) == [k EXCEPT !.total = @ + e.size, !.files = @ \cup {e.name}]
  <2>1. PICK k : k = [job[s] EXCEPT !.pc = "header", !.want = 1, !.entry = @ + 1]
    OBVIOUS
  <2>2. PICK l : l = Kept1(k)
    OBVIOUS
  <2>3. Moves(s, k) \/ Moves(s, l)
    BY <1>13, <2>1, <2>2 DEF Body
  <2>4. IsJob(k) /\ k.pc = "header"
    BY <1>0, <2>1 DEF IsJob
  <2>5. IsJob(l) /\ l.pc = k.pc
    BY <2>2, <2>4 DEF IsJob
  <2> QED
    BY <1>13, <2>3, <2>4, <2>5, MoveKeepsInv DEF Body
<1>14. CASE Unpacked(s)
  <2>1. PICK outcome \in {"empty", "ok"} : Ends(s, outcome)
    BY <1>14 DEF Unpacked
  <2> QED
    BY <1>14, <2>1, EndKeepsInv DEF Unpacked
<1> QED
  BY <1>1, <1>2, <1>3, <1>4, <1>5, <1>6, <1>7, <1>8, <1>9, <1>10, <1>11, <1>12, <1>13, <1>14
     DEF Step

(* At first nothing is taken. *)
LEMMA InitOwned == Init => FetchInv
<1> SUFFICES ASSUME Init PROVE FetchInv
  OBVIOUS
<1>1. Downloading = {}
  BY DEF Init, Downloading, HoldsSlot, NoJob
<1>2. slots = Cardinality(Downloading) /\ slots <= MaxConcurrentDownloads
  BY <1>1, FS_EmptySet, FetchConstants DEF Init
<1>3. \A s \in Snippets : job[s] = NoJob /\ IsJob(NoJob)
  BY DEF Init, IsJob, NoJob
<1> QED
  BY <1>2, <1>3 DEF Init, FetchInv

(* No step changes who owns what; those of the source touch none of it.   *)
LEMMA NextOwned ==
  ASSUME FetchInv, [Next]_fetchVars
  PROVE  FetchInv'
<1>1. CASE UNCHANGED <<job, slots, temps>>
  BY <1>1 DEF FetchInv, Downloading
<1>2. CASE Publish \/ Collect \/ ReadyChanges \/ UNCHANGED fetchVars
  BY <1>1, <1>2 DEF Publish, Collect, ReadyChanges, fetchVars
<1> QED
  BY <1>2, FetchStep DEF Next

(* Fetcher.acquire and release, and the deferred removal of the temporary  *)
(* file, on every path of Fetch and downloadToTemp.                        *)
THEOREM ResourcesAlwaysOwned == Spec => []ResourcesOwned
  BY InitOwned, NextOwned, InvMeansOwned, PTL DEF Spec

-----------------------------------------------------------------------------
(* The verdict on an archive.  What is in a sequence over a set is in that *)
(* set.                                                                    *)
LEMMA SeqElement ==
  ASSUME NEW S, NEW q \in Seq(S), NEW i \in 1 .. Len(q)
  PROVE  q[i] \in S
OBVIOUS

(* A tarball's entries, and how many there are. *)
LEMMA TarballType ==
  ASSUME NEW a \in Tarballs
  PROVE  /\ Len(a.entries) \in Nat /\ DOMAIN a.entries = 1 .. Len(a.entries)
         /\ \A i \in DOMAIN a.entries : a.entries[i].size \in Nat
         /\ a.body \in Nat /\ a.marker \in 0 .. 1
<1>1. a.entries \in Seq([name : STRING, size : Nat]) /\ a.body \in Nat /\ a.marker \in 0 .. 1
  BY DEF Tarballs
<1>2. ASSUME NEW i \in 1 .. Len(a.entries) PROVE a.entries[i].size \in Nat
  <2>1. a.entries[i] \in [name : STRING, size : Nat]
    BY <1>1, SeqElement
  <2> QED
    BY <2>1
<1>3. Len(a.entries) \in Nat /\ DOMAIN a.entries = 1 .. Len(a.entries)
  BY <1>1
<1> QED
  BY <1>1, <1>2, <1>3

(* The units of one entry's body are as many as its size. *)
LEMMA UnitsOfOne ==
  ASSUME NEW i, NEW n \in Nat
  PROVE  IsFiniteSet({i} \X (1 .. n)) /\ Cardinality({i} \X (1 .. n)) = n
<1> DEFINE V == {i} \X (1 .. n)
           h == [k \in 1 .. n |-> <<i, k>>]
<1>1. h \in Bijection(1 .. n, V)
  <2>1. h \in [1 .. n -> V]
    OBVIOUS
  <2>2. \A x, y \in 1 .. n : h[x] = h[y] => x = y
    OBVIOUS
  <2>3. \A v \in V : \E k \in 1 .. n : h[k] = v
    OBVIOUS
  <2> HIDE DEF V, h
  <2> QED
    BY <2>1, <2>2, <2>3 DEF Bijection, Injection, Surjection, IsInjective
<1>2. ExistsBijection(1 .. n, V)
  BY <1>1 DEF ExistsBijection
<1>3. IsFiniteSet(1 .. n)
  BY FS_Interval
<1> HIDE DEF V
<1>4. IsFiniteSet(V) /\ Cardinality(V) = n
  BY <1>2, <1>3, FS_Bijection, FS_CountingElements
<1> QED
  BY <1>4 DEF V

(* Finitely many entries have finitely many units, so a size is a number.  *)
LEMMA SizeType ==
  ASSUME NEW a \in Tarballs, NEW I \in SUBSET (DOMAIN a.entries)
  PROVE  IsFiniteSet(I) /\ IsFiniteSet(Units(a, I)) /\ SizeOf(a, I) \in Nat
<1> DEFINE Of(i) == {i} \X (1 .. a.entries[i].size)
           T == {Of(i) : i \in I}
           h == [i \in I |-> Of(i)]
<1>1. IsFiniteSet(I)
  BY TarballType, FS_Interval, FS_Subset
<1>2. h \in Surjection(I, T)
  BY DEF Surjection
<1>3. IsFiniteSet(T)
  <2> HIDE DEF h, T
  <2> QED
    BY <1>1, <1>2, FS_Surjection
<1>4. \A X \in T : IsFiniteSet(X)
  <2> SUFFICES ASSUME NEW i \in I PROVE IsFiniteSet(Of(i))
    OBVIOUS
  <2>1. a.entries[i].size \in Nat
    BY TarballType
  <2> QED
    BY <2>1, UnitsOfOne
<1>5. IsFiniteSet(UNION T)
  <2> HIDE DEF T
  <2> QED
    BY <1>3, <1>4, FS_UNION
<1> QED
  BY <1>1, <1>5, FS_CardinalityType DEF Units, SizeOf

(* Of no entries, nothing. *)
LEMMA SizeOfNone ==
  ASSUME NEW a
  PROVE  SizeOf(a, {}) = 0
<1>1. Units(a, {}) = {}
  BY DEF Units
<1> QED
  BY <1>1, FS_EmptySet DEF SizeOf

(* One entry more adds its size. *)
LEMMA SizeAdds ==
  ASSUME NEW a \in Tarballs, NEW I \in SUBSET (DOMAIN a.entries),
         NEW i \in (DOMAIN a.entries) \ I
  PROVE  SizeOf(a, I \cup {i}) = SizeOf(a, I) + a.entries[i].size
<1> DEFINE U == Units(a, I)
           V == {i} \X (1 .. a.entries[i].size)
<1>1. Units(a, I \cup {i}) = U \cup V
  BY DEF Units
<1>2. U \cap V = {}
  BY DEF Units
<1>3. IsFiniteSet(U) /\ Cardinality(U) \in Nat
  BY SizeType DEF SizeOf
<1>4. IsFiniteSet(V) /\ Cardinality(V) = a.entries[i].size /\ a.entries[i].size \in Nat
  BY UnitsOfOne, TarballType
<1>5. Cardinality(U \cup V) = Cardinality(U) + Cardinality(V)
  <2>1. Cardinality(U \cap V) = 0
    BY <1>2, FS_EmptySet
  <2> HIDE DEF U, V
  <2>2. Cardinality(U \cup V) = Cardinality(U) + Cardinality(V) - Cardinality(U \cap V)
    BY <1>3, <1>4, FS_Union
  <2> QED
    BY <2>1, <2>2, <1>3, <1>4
<1> QED
  BY <1>1, <1>4, <1>5 DEF SizeOf

(* More entries are no smaller. *)
LEMMA SizeGrows ==
  ASSUME NEW a \in Tarballs, NEW K \in SUBSET (DOMAIN a.entries), NEW I \in SUBSET K
  PROVE  SizeOf(a, I) <= SizeOf(a, K)
<1>1. Units(a, I) \in SUBSET Units(a, K)
  BY DEF Units
<1> QED
  BY <1>1, SizeType, FS_Subset DEF SizeOf

(* An archive is read in its order: what is kept of the first entries, and *)
(* what of the stream they and their headers take.                         *)
First(n) == 1 .. n
KeptOf(a, n) == Kept(a) \cap First(n)
StreamTo(a, n) == n + SizeOf(a, First(n))

(* The entries read are within the caps and hold what has been unpacked.   *)
Accepted(j, a) ==
  LET kept == KeptOf(a, j.entry - 1)
  IN  /\ j.total = SizeOf(a, kept) /\ j.total <= MaxExtractedBytes
      /\ j.files = NamesAt(a, kept)
      /\ \A i \in kept : a.entries[i].size <= MaxPerEntryBytes
      /\ \A i, k \in kept : a.entries[i].name = a.entries[k].name => i = k

(* The entry at hand, once its header has passed. *)
Admitted(j, a) ==
  LET e == a.entries[j.entry]
  IN  /\ j.entry <= Len(a.entries) /\ j.want <= e.size
      /\ e.name # Dropped =>
           /\ e.name \notin j.files /\ e.size <= MaxPerEntryBytes
           /\ j.total + e.size <= MaxExtractedBytes

(* What is left to the reader is what the stream has not taken. *)
Unpacking(j, a) ==
  /\ j.entry \in 1 .. Len(a.entries) + 1 /\ j.want \in Nat /\ j.left \in Nat
  /\ a.body <= MaxArchiveBytes /\ (j.corrupt => a.digest = "absent")
  /\ Accepted(j, a)
  /\ \/ /\ j.pc = "header" /\ j.want <= 1
        /\ j.left + StreamTo(a, j.entry - 1) + 1 - j.want = MaxDecompressedBytes
     \/ /\ j.pc = "body" /\ Admitted(j, a)
        /\ j.left + StreamTo(a, j.entry) - j.want = MaxDecompressedBytes

Packed(j) == j.entry = 1 /\ j.total = 0 /\ j.files = {}
Untouched(j) == j.copied = 0 /\ ~j.corrupt /\ Packed(j)

Underway(j, a) ==
  \/ j.pc \in {"acquire", "request"} /\ Untouched(j)
  \/ j.pc = "copy" /\ Packed(j) /\ j.copied \in 0 .. Limit(a)
  \/ j.pc = "verify" /\ Packed(j) /\ a.body <= MaxArchiveBytes
  \/ Unpacking(j, a)

JobRight(j) ==
  \/ j.pc \in {"idle", "get"} /\ Untouched(j)
  \/ j.rev \in DOMAIN published /\ Underway(j, published[j.rev])

Verdict(outcome, a, j) ==
  /\ outcome = "ok" =>
       Consumable(a) /\ j.files = Names(a) /\ (j.corrupt => a.digest = "absent")
  /\ outcome \in {"body", "shape", "duplicate"} => ~Consumable(a)

ResultRight(r) ==
  r.outcome \in {"ok", "body", "shape", "duplicate"} =>
    r.rev \in DOMAIN published /\ Verdict(r.outcome, published[r.rev], r)

JudgeInv ==
  /\ published \in Seq(Tarballs)
  /\ result = [s \in Snippets |-> result[s]]
  /\ \A s \in Snippets : JobRight(job[s]) /\ ResultRight(result[s])

-----------------------------------------------------------------------------
(* One entry further: what that adds to the stream and to what is kept.    *)
LEMMA OneEntryMore ==
  ASSUME NEW a \in Tarballs, NEW n \in 1 .. Len(a.entries)
  PROVE  LET e == a.entries[n] IN
         /\ StreamTo(a, n) = StreamTo(a, n - 1) + 1 + e.size
         /\ e.name = Dropped => KeptOf(a, n) = KeptOf(a, n - 1)
         /\ e.name # Dropped =>
              /\ KeptOf(a, n) = KeptOf(a, n - 1) \cup {n}
              /\ SizeOf(a, KeptOf(a, n)) = SizeOf(a, KeptOf(a, n - 1)) + e.size
              /\ NamesAt(a, KeptOf(a, n)) = NamesAt(a, KeptOf(a, n - 1)) \cup {e.name}
<1> DEFINE e == a.entries[n]
<1>1. n \in DOMAIN a.entries /\ Len(a.entries) \in Nat /\ e.size \in Nat
  BY TarballType
<1>2. First(n) = First(n - 1) \cup {n} /\ n \notin First(n - 1)
  BY <1>1 DEF First
<1>3. First(n - 1) \in SUBSET (DOMAIN a.entries)
  BY TarballType DEF First
<1>4. SizeOf(a, First(n)) = SizeOf(a, First(n - 1)) + e.size
  BY <1>1, <1>2, <1>3, SizeAdds
<1>5. StreamTo(a, n) = StreamTo(a, n - 1) + 1 + e.size
  BY <1>1, <1>3, <1>4, SizeType DEF StreamTo
<1>6. e.name = Dropped => KeptOf(a, n) = KeptOf(a, n - 1)
  BY <1>2 DEF KeptOf, Kept
<1>7. ASSUME e.name # Dropped
      PROVE  /\ KeptOf(a, n) = KeptOf(a, n - 1) \cup {n}
             /\ SizeOf(a, KeptOf(a, n)) = SizeOf(a, KeptOf(a, n - 1)) + e.size
             /\ NamesAt(a, KeptOf(a, n)) = NamesAt(a, KeptOf(a, n - 1)) \cup {e.name}
  <2>1. KeptOf(a, n) = KeptOf(a, n - 1) \cup {n}
    BY <1>1, <1>2, <1>7 DEF KeptOf, Kept
  <2>2. KeptOf(a, n - 1) \in SUBSET (DOMAIN a.entries) /\ n \notin KeptOf(a, n - 1)
    BY <1>2 DEF KeptOf, Kept
  <2>3. SizeOf(a, KeptOf(a, n)) = SizeOf(a, KeptOf(a, n - 1)) + e.size
    BY <1>1, <2>1, <2>2, SizeAdds
  <2>4. NamesAt(a, KeptOf(a, n)) = NamesAt(a, KeptOf(a, n - 1)) \cup {e.name}
    BY <2>1 DEF NamesAt
  <2> QED
    BY <2>1, <2>3, <2>4
<1> QED
  BY <1>5, <1>6, <1>7

(* No part of the stream is longer than the stream, no part of what is     *)
(* kept is larger than all of it, and the last entry is the end of both.   *)
LEMMA PartsOfWhole ==
  ASSUME NEW a \in Tarballs, NEW n \in 0 .. Len(a.entries)
  PROVE  /\ StreamTo(a, n) \in Nat /\ StreamTo(a, n) + a.marker <= StreamLength(a)
         /\ n = Len(a.entries) => StreamTo(a, n) + a.marker = StreamLength(a)
         /\ KeptOf(a, n) \in SUBSET Kept(a) /\ SizeOf(a, KeptOf(a, n)) \in Nat
         /\ SizeOf(a, KeptOf(a, n)) <= SizeOf(a, Kept(a)) /\ SizeOf(a, Kept(a)) \in Nat
         /\ n = Len(a.entries) => KeptOf(a, n) = Kept(a)
<1>1. Len(a.entries) \in Nat /\ DOMAIN a.entries = 1 .. Len(a.entries) /\ a.marker \in Nat
  BY TarballType
<1>2. First(n) \in SUBSET (DOMAIN a.entries)
  BY <1>1 DEF First
<1>3. n = Len(a.entries) => First(n) = DOMAIN a.entries
  BY <1>1 DEF First
<1>4. /\ SizeOf(a, First(n)) \in Nat /\ SizeOf(a, DOMAIN a.entries) \in Nat
      /\ SizeOf(a, First(n)) <= SizeOf(a, DOMAIN a.entries)
  BY <1>2, SizeType, SizeGrows
<1>5. /\ StreamTo(a, n) \in Nat /\ StreamTo(a, n) + a.marker <= StreamLength(a)
      /\ n = Len(a.entries) => StreamTo(a, n) + a.marker = StreamLength(a)
  <2>1. n \in Nat /\ n <= Len(a.entries)
    BY <1>1
  <2>2. /\ StreamTo(a, n) = n + SizeOf(a, First(n))
        /\ StreamLength(a) = Len(a.entries) + SizeOf(a, DOMAIN a.entries) + a.marker
    BY DEF StreamTo, StreamLength
  <2> QED
    BY <1>1, <1>3, <1>4, <2>1, <2>2
<1>6. KeptOf(a, n) \in SUBSET Kept(a) /\ Kept(a) \in SUBSET (DOMAIN a.entries)
  BY DEF KeptOf, Kept
<1>7. n = Len(a.entries) => KeptOf(a, n) = Kept(a)
  BY <1>3, <1>6 DEF KeptOf
<1>8. /\ SizeOf(a, KeptOf(a, n)) \in Nat /\ SizeOf(a, Kept(a)) \in Nat
      /\ SizeOf(a, KeptOf(a, n)) <= SizeOf(a, Kept(a))
  BY <1>6, SizeType, SizeGrows
<1> QED
  BY <1>5, <1>6, <1>7, <1>8

(* How much of the stream ends with an entry, or before it. *)
LEMMA StreamType ==
  ASSUME NEW a \in Tarballs, NEW i \in 1 .. Len(a.entries) + 1
  PROVE  StreamTo(a, i - 1) \in Nat /\ (i <= Len(a.entries) => StreamTo(a, i) \in Nat)
<1>1. Len(a.entries) \in Nat
  BY TarballType
<1>2. i - 1 \in 0 .. Len(a.entries) /\ (i <= Len(a.entries) => i \in 0 .. Len(a.entries))
  BY <1>1
<1> QED
  BY <1>2, PartsOfWhole

(* The caps are numbers. *)
LEMMA CapsType ==
  /\ MaxArchiveBytes \in Nat /\ MaxPerEntryBytes \in Nat
  /\ MaxExtractedBytes \in Nat /\ MaxDecompressedBytes \in Nat
BY FetchConstants

(* cappedReader: with nothing left to give and something asked of it that  *)
(* the stream does hold, the stream is longer than the cap.                *)
LEMMA TripMeansTooLong ==
  ASSUME NEW a \in Tarballs, NEW j, Unpacking(j, a), j.left = 0, j.want > 0,
         j.entry <= Len(a.entries) \/ a.marker = 1
  PROVE  ~Consumable(a)
<1>1. /\ Len(a.entries) \in Nat /\ a.marker \in Nat
      /\ j.entry \in 1 .. Len(a.entries) + 1 /\ j.want \in Nat
  BY TarballType DEF Unpacking
<1>2. StreamLength(a) \in Nat
  <2>1. SizeOf(a, DOMAIN a.entries) \in Nat
    BY SizeType
  <2> QED
    BY <1>1, <2>1 DEF StreamLength
<1>3. StreamLength(a) > MaxDecompressedBytes
  <2>1. CASE j.entry <= Len(a.entries)
    <3>1. /\ StreamTo(a, j.entry) \in Nat /\ StreamTo(a, j.entry) + a.marker <= StreamLength(a)
          /\ StreamTo(a, j.entry - 1) \in Nat
      <4>1. j.entry \in 0 .. Len(a.entries) /\ j.entry - 1 \in 0 .. Len(a.entries)
        BY <1>1, <2>1
      <4>2. StreamTo(a, j.entry) \in Nat /\ StreamTo(a, j.entry) + a.marker <= StreamLength(a)
        BY <4>1, PartsOfWhole, Zenon
      <4>3. StreamTo(a, j.entry - 1) \in Nat
        BY <4>1, PartsOfWhole, Zenon
      <4> QED
        BY <4>2, <4>3
    <3>2. /\ a.entries[j.entry].size \in Nat
          /\ StreamTo(a, j.entry) = StreamTo(a, j.entry - 1) + 1 + a.entries[j.entry].size
      BY <1>1, <2>1, OneEntryMore, TarballType
    <3>3. CASE j.want <= 1 /\ j.left + StreamTo(a, j.entry - 1) + 1 - j.want = MaxDecompressedBytes
      <4>1. j.want = 1
        BY <1>1, <3>3
      <4>2. StreamTo(a, j.entry - 1) = MaxDecompressedBytes
        BY <3>1, <3>3, <4>1, CapsType
      <4>3. StreamTo(a, j.entry) > MaxDecompressedBytes
        BY <3>1, <3>2, <4>2, CapsType
      <4>4. StreamLength(a) >= StreamTo(a, j.entry)
        BY <1>1, <1>2, <3>1
      <4> QED
        BY <1>2, <3>1, <4>3, <4>4, CapsType
    <3>4. CASE j.left + StreamTo(a, j.entry) - j.want = MaxDecompressedBytes
      BY <1>1, <1>2, <3>1, <3>2, <3>4, CapsType, SMTT(30)
    <3> QED
      BY <3>3, <3>4 DEF Unpacking
  <2>2. CASE j.entry = Len(a.entries) + 1 /\ a.marker = 1
    <3>1. StreamTo(a, j.entry - 1) \in Nat /\ StreamTo(a, j.entry - 1) + 1 = StreamLength(a)
      BY <1>1, <2>2, PartsOfWhole
    <3>2. j.want = 1 /\ j.left + StreamTo(a, j.entry - 1) + 1 - j.want = MaxDecompressedBytes
      BY <1>1, <2>2 DEF Unpacking, Admitted
    <3> QED
      BY <1>1, <3>1, <3>2, CapsType
  <2> QED
    BY <1>1, <2>1, <2>2
<1> QED
  BY <1>2, <1>3, CapsType DEF Consumable

(* untar: a name that is there already, or a size beyond what is allowed,  *)
(* is what the archive as a whole is refused for.                          *)
LEMMA RefusedMeansUnfit ==
  ASSUME NEW a \in Tarballs, NEW j, Unpacking(j, a), j.entry <= Len(a.entries),
         LET e == a.entries[j.entry]
         IN  \/ e.name \in j.files
             \/ /\ e.name # Dropped
                /\ ~(e.size <= MaxPerEntryBytes /\ e.size <= MaxExtractedBytes - j.total)
  PROVE  ~Consumable(a)
<1> DEFINE n == j.entry
           e == a.entries[n]
           kept == KeptOf(a, n - 1)
<1>1. /\ Len(a.entries) \in Nat /\ n \in 1 .. Len(a.entries) /\ n \in DOMAIN a.entries
      /\ e.size \in Nat
  BY TarballType DEF Unpacking
<1>2. Accepted(j, a)
  BY DEF Unpacking
<1>3. kept \in SUBSET Kept(a) /\ SizeOf(a, kept) \in Nat /\ n \notin kept
  BY <1>1, PartsOfWhole DEF KeptOf, First
<1>4. CASE e.name \in j.files
  <2>1. PICK i \in kept : a.entries[i].name = e.name
    BY <1>2, <1>4 DEF Accepted, NamesAt
  <2>2. i \in Kept(a) /\ n \in Kept(a) /\ i # n
    BY <1>1, <1>3, <2>1 DEF Kept
  <2> QED
    BY <2>1, <2>2 DEF Consumable
<1>5. CASE e.name # Dropped /\ ~(e.size <= MaxPerEntryBytes)
  <2>1. n \in Kept(a)
    BY <1>1, <1>5 DEF Kept
  <2> QED
    BY <1>5, <2>1 DEF Consumable
<1>6. CASE e.name # Dropped /\ ~(e.size <= MaxExtractedBytes - j.total)
  <2>1. SizeOf(a, KeptOf(a, n)) = j.total + e.size
    BY <1>1, <1>2, <1>6, OneEntryMore DEF Accepted
  <2>2. SizeOf(a, KeptOf(a, n)) <= SizeOf(a, Kept(a)) /\ SizeOf(a, Kept(a)) \in Nat
    BY <1>1, PartsOfWhole
  <2>3. j.total \in Nat
    BY <1>2, <1>3 DEF Accepted
  <2>4. SizeOf(a, Kept(a)) > MaxExtractedBytes
    BY <1>1, <1>6, <2>1, <2>2, <2>3, CapsType
  <2> QED
    BY <2>2, <2>4, CapsType DEF Consumable
<1> QED
  BY <1>4, <1>5, <1>6

(* At the end of the stream every entry has been looked at, so what has    *)
(* been unpacked is the archive's, and the archive is within its caps.     *)
LEMMA EndMeansFit ==
  ASSUME NEW a \in Tarballs, NEW j, Unpacking(j, a), j.pc = "header",
         j.entry > Len(a.entries), j.want = 0 \/ a.marker = 0
  PROVE  Consumable(a) /\ j.files = Names(a)
<1>1. /\ Len(a.entries) \in Nat /\ a.marker \in 0 .. 1 /\ j.want \in Nat /\ j.left \in Nat
      /\ j.entry - 1 = Len(a.entries) /\ j.entry - 1 \in 0 .. Len(a.entries)
  BY TarballType DEF Unpacking
<1>2. /\ KeptOf(a, j.entry - 1) = Kept(a) /\ StreamTo(a, j.entry - 1) \in Nat
      /\ StreamTo(a, j.entry - 1) + a.marker = StreamLength(a)
  BY <1>1, PartsOfWhole
<1>3. j.want <= 1 /\ j.left + StreamTo(a, j.entry - 1) + 1 - j.want = MaxDecompressedBytes
  BY DEF Unpacking
<1>4. StreamLength(a) <= MaxDecompressedBytes
  BY <1>1, <1>2, <1>3, CapsType
<1>5. Accepted(j, a) /\ a.body <= MaxArchiveBytes
  BY DEF Unpacking
<1> QED
  BY <1>2, <1>4, <1>5 DEF Accepted, Consumable, Names

-----------------------------------------------------------------------------
(* Unpacking starts with nothing read, and nothing kept. *)
LEMMA UnpackingStarts ==
  ASSUME NEW a \in Tarballs, NEW j, Packed(j), a.body <= MaxArchiveBytes,
         j.corrupt => a.digest = "absent",
         NEW k, k.pc = "header", k.entry = j.entry, k.total = j.total, k.files = j.files,
         k.corrupt = j.corrupt, k.want = 1, k.left = MaxDecompressedBytes
  PROVE  Unpacking(k, a)
<1>1. First(0) = {} /\ KeptOf(a, 0) = {} /\ StreamTo(a, 0) = 0
  BY SizeOfNone DEF First, KeptOf, StreamTo
<1>2. SizeOf(a, KeptOf(a, 0)) = 0 /\ NamesAt(a, KeptOf(a, 0)) = {}
  BY <1>1, SizeOfNone DEF NamesAt
<1>3. k.entry - 1 = 0 /\ k.entry \in 1 .. Len(a.entries) + 1
  BY TarballType DEF Packed
<1>4. Accepted(k, a)
  BY <1>1, <1>2, <1>3, CapsType DEF Accepted, Packed
<1>5. k.left + StreamTo(a, k.entry - 1) + 1 - k.want = MaxDecompressedBytes
  BY <1>1, <1>3, CapsType
<1> QED
  BY <1>3, <1>4, <1>5, CapsType DEF Unpacking

(* A chunk moves from what is left to what has been read. *)
LEMMA ChunkKeepsAccount ==
  ASSUME NEW a \in Tarballs, NEW j, Unpacking(j, a), NEW n \in 1 .. j.want, n <= j.left,
         NEW k, k.pc = j.pc, k.entry = j.entry, k.total = j.total, k.files = j.files,
         k.corrupt = j.corrupt, k.want = j.want - n, k.left = j.left - n
  PROVE  Unpacking(k, a)
<1>1. /\ j.want \in Nat /\ j.left \in Nat /\ k.want \in Nat /\ k.left \in Nat
      /\ k.entry \in 1 .. Len(a.entries) + 1 /\ a.body <= MaxArchiveBytes
      /\ k.corrupt => a.digest = "absent"
  BY DEF Unpacking
<1>2. Accepted(k, a)
  BY DEF Unpacking, Accepted
<1>3. CASE /\ j.pc = "header" /\ j.want <= 1
           /\ j.left + StreamTo(a, j.entry - 1) + 1 - j.want = MaxDecompressedBytes
  <2>1. StreamTo(a, j.entry - 1) \in Nat
    BY <1>1, StreamType
  <2>2. k.want <= 1 /\ k.left + StreamTo(a, k.entry - 1) + 1 - k.want = MaxDecompressedBytes
    BY <1>1, <1>3, <2>1, CapsType
  <2> QED
    BY <1>1, <1>2, <1>3, <2>2 DEF Unpacking
<1>4. CASE /\ j.pc = "body" /\ Admitted(j, a)
           /\ j.left + StreamTo(a, j.entry) - j.want = MaxDecompressedBytes
  <2>0. j.entry <= Len(a.entries)
    BY <1>4 DEF Admitted
  <2>1. StreamTo(a, j.entry) \in Nat /\ a.entries[j.entry].size \in Nat
    <3>1. j.entry \in 1 .. Len(a.entries)
      BY <1>1, <2>0, TarballType
    <3> QED
      BY <1>1, <2>0, <3>1, StreamType, TarballType
  <2>2. k.left + StreamTo(a, k.entry) - k.want = MaxDecompressedBytes
    BY <1>1, <1>4, <2>1, CapsType, SMTT(30)
  <2>3. j.want <= a.entries[j.entry].size /\ k.want <= j.want
    BY <1>1, <1>4 DEF Admitted
  <2>4. k.want <= a.entries[k.entry].size
    BY <1>1, <2>1, <2>3, SMTT(30)
  <2>5. Admitted(k, a)
    BY <1>4, <2>4 DEF Admitted
  <2> QED
    BY <1>1, <1>2, <1>4, <2>2, <2>5 DEF Unpacking
<1> QED
  BY <1>3, <1>4 DEF Unpacking

(* A header has passed: the entry's body is next. *)
LEMMA HeaderKeepsAccount ==
  ASSUME NEW a \in Tarballs, NEW j, Unpacking(j, a), j.pc = "header", j.want = 0,
         j.entry <= Len(a.entries),
         LET e == a.entries[j.entry]
         IN  e.name # Dropped =>
               /\ e.name \notin j.files /\ e.size <= MaxPerEntryBytes
               /\ e.size <= MaxExtractedBytes - j.total,
         NEW k, k.pc = "body", k.entry = j.entry, k.total = j.total, k.files = j.files,
         k.corrupt = j.corrupt, k.want = a.entries[j.entry].size, k.left = j.left
  PROVE  Unpacking(k, a)
<1>1. /\ j.entry \in 1 .. Len(a.entries) /\ a.entries[j.entry].size \in Nat
      /\ Len(a.entries) \in Nat /\ j.left \in Nat
  BY TarballType DEF Unpacking
<1>2. Accepted(k, a) /\ k.total \in Nat
  BY <1>1, PartsOfWhole DEF Unpacking, Accepted
<1>3. Admitted(k, a)
  BY <1>1, <1>2, CapsType DEF Admitted
<1>4. /\ StreamTo(a, j.entry - 1) \in Nat
      /\ StreamTo(a, j.entry) = StreamTo(a, j.entry - 1) + 1 + a.entries[j.entry].size
  <2>1. StreamTo(a, j.entry - 1) \in Nat
    BY <1>1, PartsOfWhole
  <2>2. StreamTo(a, j.entry) = StreamTo(a, j.entry - 1) + 1 + a.entries[j.entry].size
    BY <1>1, OneEntryMore
  <2> QED
    BY <2>1, <2>2
<1>5. j.left + StreamTo(a, j.entry - 1) + 1 = MaxDecompressedBytes
  <2>1. j.left + StreamTo(a, j.entry - 1) + 1 - j.want = MaxDecompressedBytes
    BY DEF Unpacking
  <2> QED
    BY <1>1, <1>4, <2>1
<1>6. k.left + StreamTo(a, k.entry) - k.want = MaxDecompressedBytes
  BY <1>1, <1>4, <1>5, SMTT(30)
<1> QED
  BY <1>1, <1>2, <1>3, <1>6 DEF Unpacking

(* A body has been read: the entry is kept, unless its name was refused.   *)
LEMMA BodyKeepsAccount ==
  ASSUME NEW a \in Tarballs, NEW j, Unpacking(j, a), j.pc = "body", j.want = 0,
         NEW k, k.pc = "header", k.want = 1, k.left = j.left, k.corrupt = j.corrupt,
         k.entry = j.entry + 1,
         LET e == a.entries[j.entry]
         IN  IF e.name = Dropped THEN k.total = j.total /\ k.files = j.files
             ELSE k.total = j.total + e.size /\ k.files = j.files \cup {e.name}
  PROVE  Unpacking(k, a)
<1> DEFINE n == j.entry
           e == a.entries[n]
<1>1. /\ n \in 1 .. Len(a.entries) /\ e.size \in Nat /\ Len(a.entries) \in Nat
      /\ j.left \in Nat /\ n \in DOMAIN a.entries
  BY TarballType DEF Unpacking, Admitted
<1>2. k.entry - 1 = n /\ k.entry \in 1 .. Len(a.entries) + 1
  BY <1>1
<1>3. Accepted(j, a) /\ Admitted(j, a)
  BY DEF Unpacking
<1>4. CASE e.name = Dropped
  <2>1. KeptOf(a, n) = KeptOf(a, n - 1)
    BY <1>1, <1>4, OneEntryMore
  <2> QED
    <3>1. Accepted(k, a)
      BY <1>2, <1>3, <1>4, <2>1 DEF Accepted
    <3>2. j.left + StreamTo(a, n) - j.want = MaxDecompressedBytes /\ StreamTo(a, n) \in Nat
      BY <1>1, PartsOfWhole DEF Unpacking
    <3>3. k.left + StreamTo(a, k.entry - 1) + 1 - k.want = MaxDecompressedBytes
      BY <1>1, <1>2, <3>2
    <3> QED
      BY <1>1, <1>2, <3>1, <3>3 DEF Unpacking
<1>5. CASE e.name # Dropped
  <2> DEFINE old == KeptOf(a, n - 1)
             new == KeptOf(a, n)
  <2>1. /\ new = old \cup {n} /\ SizeOf(a, new) = SizeOf(a, old) + e.size
        /\ NamesAt(a, new) = NamesAt(a, old) \cup {e.name}
    BY <1>1, <1>5, OneEntryMore
  <2>2. \A i \in old : a.entries[i].name # e.name
    BY <1>3, <1>5 DEF Accepted, Admitted, NamesAt
  <2>3. \A i, m \in new : a.entries[i].name = a.entries[m].name => i = m
    BY <1>3, <2>1, <2>2 DEF Accepted
  <2>4. \A i \in new : a.entries[i].size <= MaxPerEntryBytes
    BY <1>3, <1>5, <2>1 DEF Accepted, Admitted
  <2>5. k.total = SizeOf(a, new) /\ k.total <= MaxExtractedBytes /\ k.files = NamesAt(a, new)
    BY <1>3, <1>5, <2>1 DEF Accepted, Admitted
  <2>6. Accepted(k, a)
    BY <1>2, <2>3, <2>4, <2>5 DEF Accepted
  <2>7. j.left + StreamTo(a, n) - j.want = MaxDecompressedBytes /\ StreamTo(a, n) \in Nat
    BY <1>1, PartsOfWhole DEF Unpacking
  <2>8. k.left + StreamTo(a, k.entry - 1) + 1 - k.want = MaxDecompressedBytes
    BY <1>1, <1>2, <2>7
  <2> QED
    BY <1>1, <1>2, <2>6, <2>8 DEF Unpacking
<1> QED
  BY <1>4, <1>5

-----------------------------------------------------------------------------
(* A fetch goes on, and its job is still right. *)
LEMMA MoveKeepsVerdicts ==
  ASSUME FetchInv, JudgeInv, NEW s \in Snippets, NEW k, Moves(s, k), JobRight(k)
  PROVE  JudgeInv'
<1>1. job'[s] = k /\ \A x \in Snippets \ {s} : job'[x] = job[x]
  BY DEF FetchInv, Moves
<1>2. published' = published /\ result' = result
  BY DEF Moves, Upstream
<1>3. \A x \in Snippets : JobRight(job'[x])
  BY <1>1 DEF JudgeInv
<1>4. \A x \in Snippets : JobRight(job[x])'
  BY <1>2, <1>3 DEF JobRight
<1>5. \A x \in Snippets : ResultRight(result[x])'
  BY <1>2 DEF JudgeInv, ResultRight
<1> QED
  BY <1>2, <1>4, <1>5 DEF JudgeInv

(* A fetch ends, with a verdict the archive bears out. *)
LEMMA EndKeepsVerdicts ==
  ASSUME FetchInv, JudgeInv, NEW s \in Snippets, NEW outcome, Ends(s, outcome),
         outcome \in {"ok", "body", "shape", "duplicate"} =>
           job[s].rev \in DOMAIN published /\ Verdict(outcome, Archive(s), job[s])
  PROVE  JudgeInv'
<1> DEFINE r == [outcome |-> outcome, rev |-> job[s].rev, corrupt |-> job[s].corrupt,
                 files |-> IF outcome = "ok" THEN job[s].files ELSE {}]
<1>1. published' = published
  BY DEF Ends, Upstream
<1>2. job'[s] = NoJob /\ \A x \in Snippets \ {s} : job'[x] = job[x]
  BY DEF FetchInv, Ends
<1>3. result' = [result EXCEPT ![s] = r]
  BY DEF Ends
<1>4. /\ result' = [x \in Snippets |-> result'[x]] /\ result'[s] = r
      /\ \A x \in Snippets \ {s} : result'[x] = result[x]
  <2> HIDE DEF r
  <2> QED
    BY <1>3 DEF JudgeInv
<1>5. JobRight(NoJob)
  BY DEF JobRight, NoJob, Untouched, Packed
<1>6. \A x \in Snippets : JobRight(job[x])'
  BY <1>1, <1>2, <1>5 DEF JobRight, JudgeInv
<1>7. ResultRight(r)
  BY DEF ResultRight, Verdict, Archive
<1>8. \A x \in Snippets : ResultRight(result[x])'
  <2> HIDE DEF r
  <2> QED
    BY <1>1, <1>4, <1>7 DEF ResultRight, JudgeInv
<1> QED
  BY <1>1, <1>4, <1>6, <1>8 DEF JudgeInv

(* What has been published stays, so later revisions change no verdict.    *)
LEMMA PublishKeepsVerdicts ==
  ASSUME JudgeInv, Publish
  PROVE  JudgeInv'
<1>1. PICK a \in Archives[Len(published) + 1] : published' = Append(published, a)
  BY DEF Publish
<1>2. published \in Seq(Tarballs) /\ Len(published) \in Nat /\ Len(published) < Len(Archives)
  BY DEF JudgeInv, Publish
<1>3. a \in Tarballs
  <2>1. Len(published) + 1 \in 1 .. Len(Archives)
    BY <1>2, ArchivesAreTarballs
  <2>2. Archives[Len(published) + 1] \in SUBSET Tarballs
    BY <2>1, ArchivesAreTarballs, SeqElement
  <2> QED
    BY <2>2
<1>4. published' \in Seq(Tarballs)
  BY <1>1, <1>2, <1>3
<1>5. \A r \in DOMAIN published : r \in DOMAIN published' /\ published'[r] = published[r]
  BY <1>1, <1>2, <1>3
<1>6. UNCHANGED <<job, result>>
  BY DEF Publish
<1>7. \A x \in Snippets : JobRight(job[x])'
  BY <1>5, <1>6 DEF JobRight, JudgeInv
<1>8. \A x \in Snippets : ResultRight(result[x])'
  BY <1>5, <1>6 DEF ResultRight, JudgeInv
<1> QED
  BY <1>4, <1>6, <1>7, <1>8 DEF JudgeInv

(* A fetch under way is about a revision there is. *)
LEMMA UnderwayArchive ==
  ASSUME JudgeInv, NEW s \in Snippets, job[s].pc \notin {"idle", "get"}
  PROVE  /\ job[s].rev \in DOMAIN published /\ Archive(s) \in Tarballs
         /\ Underway(job[s], Archive(s))
<1>1. job[s].rev \in DOMAIN published /\ Underway(job[s], Archive(s))
  BY DEF JudgeInv, JobRight, Archive
<1>2. published \in Seq(Tarballs) /\ DOMAIN published = 1 .. Len(published)
  BY DEF JudgeInv
<1> QED
  BY <1>1, <1>2, SeqElement DEF Archive

(* Before a byte has been unpacked: the key is taken, the status read, the *)
(* slot waited for, the body copied and its digest compared.               *)
LEMMA DownloadKeepsVerdicts ==
  ASSUME FetchInv, JudgeInv, NEW s \in Snippets,
         \/ Begin(s) \/ Get(s) \/ Acquire(s) \/ Cancelled(s) \/ Request(s) \/ Copy(s)
         \/ CopyFails(s) \/ CopyEnds(s) \/ Verify(s)
  PROVE  JudgeInv'
<1> DEFINE a == Archive(s)
<1>0. IsJob(job[s]) /\ JobRight(job[s])
  BY DEF FetchInv, JudgeInv
<1>a. ASSUME job[s].pc \notin {"idle", "get"}
      PROVE  job[s].rev \in DOMAIN published /\ a \in Tarballs /\ Underway(job[s], a)
  BY <1>a, UnderwayArchive
<1>b. ASSUME NEW outcome, Ends(s, outcome), outcome \notin {"ok", "body", "shape", "duplicate"}
      PROVE  JudgeInv'
  BY <1>b, EndKeepsVerdicts
<1>1. CASE Begin(s)
  <2>1. PICK k : k = [job[s] EXCEPT !.pc = "get"]
    OBVIOUS
  <2>2. JobRight(k)
    <3>1. Untouched(job[s])
      BY <1>0, <1>1 DEF Begin, JobRight, Underway, Unpacking
    <3>2. k.pc = "get" /\ Untouched(k)
      BY <1>0, <2>1, <3>1 DEF IsJob, Untouched, Packed
    <3> QED
      BY <3>2 DEF JobRight
  <2>3. job' = [job EXCEPT ![s] = k] /\ UNCHANGED published
    BY <1>1, <2>1 DEF Begin, Upstream
  <2> QED
    <3>1. job'[s] = k /\ \A x \in Snippets \ {s} : job'[x] = job[x]
      BY <2>3 DEF FetchInv
    <3>2. \A x \in Snippets : JobRight(job[x])'
      BY <2>2, <2>3, <3>1 DEF JobRight, JudgeInv
    <3>3. ResultRight(NoResult)
      BY DEF ResultRight, NoResult
    <3>4. result' = [result EXCEPT ![s] = NoResult]
      BY <1>1 DEF Begin
    <3>5. /\ result' = [x \in Snippets |-> result'[x]] /\ result'[s] = NoResult
          /\ \A x \in Snippets \ {s} : result'[x] = result[x]
      BY <3>4 DEF JudgeInv
    <3>6. \A x \in Snippets : ResultRight(result[x])'
      BY <2>3, <3>3, <3>5 DEF ResultRight, JudgeInv
    <3> QED
      BY <2>3, <3>2, <3>5, <3>6 DEF JudgeInv
<1>2. CASE Get(s)
  <2>1. CASE Moves(s, [job[s] EXCEPT !.pc = "acquire", !.rev = Len(published)])
             /\ Len(published) > 0
    <3>1. PICK k : k = [job[s] EXCEPT !.pc = "acquire", !.rev = Len(published)]
      OBVIOUS
    <3>2. Untouched(job[s])
      BY <1>0, <1>2 DEF Get, JobRight, Underway, Unpacking
    <3>3. k.pc = "acquire" /\ k.rev = Len(published) /\ Untouched(k)
      BY <1>0, <3>1, <3>2 DEF IsJob, Untouched, Packed
    <3>4. Len(published) \in DOMAIN published
      BY <2>1 DEF JudgeInv
    <3>5. JobRight(k)
      BY <3>3, <3>4 DEF JobRight, Underway
    <3> QED
      BY <2>1, <3>1, <3>5, MoveKeepsVerdicts
  <2>2. CASE Ends(s, "api") \/ Ends(s, "notready") \/ Ends(s, "url")
    BY <2>2, <1>b
  <2>3. Len(published) \in Nat
    BY DEF JudgeInv
  <2> QED
    BY <1>2, <2>1, <2>2, <2>3 DEF Get
<1>3. CASE Acquire(s)
  <2>1. PICK k : k = [job[s] EXCEPT !.pc = "request"]
    OBVIOUS
  <2>2. job[s].rev \in DOMAIN published /\ Untouched(job[s])
    BY <1>3, <1>a DEF Acquire, Underway, Unpacking
  <2>3. k.pc = "request" /\ k.rev = job[s].rev /\ Untouched(k)
    BY <1>0, <2>1, <2>2 DEF IsJob, Untouched, Packed
  <2>4. JobRight(k)
    BY <2>2, <2>3 DEF JobRight, Underway
  <2> QED
    BY <1>3, <2>1, <2>4, MoveKeepsVerdicts DEF Acquire
<1>4. CASE Cancelled(s)
  BY <1>4, <1>b DEF Cancelled
<1>5. CASE Request(s)
  <2>1. CASE Moves(s, [job[s] EXCEPT !.pc = "copy"])
    <3>1. PICK k : k = [job[s] EXCEPT !.pc = "copy"]
      OBVIOUS
    <3>2. job[s].rev \in DOMAIN published /\ a \in Tarballs /\ Untouched(job[s])
      BY <1>5, <1>a DEF Request, Underway, Unpacking
    <3>3. k.pc = "copy" /\ k.rev = job[s].rev /\ k.copied = 0 /\ Packed(k)
      BY <1>0, <3>1, <3>2 DEF IsJob, Untouched, Packed
    <3>4. 0 \in 0 .. Limit(a)
      BY <3>2, TarballType, CapsType DEF Limit
    <3>5. JobRight(k)
      BY <3>2, <3>3, <3>4 DEF JobRight, Underway, Archive
    <3> QED
      BY <2>1, <3>1, <3>5, MoveKeepsVerdicts
  <2>2. CASE Ends(s, "gone") \/ Ends(s, "network")
    BY <2>2, <1>b
  <2> QED
    BY <1>5, <2>1, <2>2 DEF Request
<1>6. CASE Copy(s)
  <2>1. PICK k \in {[job[s] EXCEPT !.copied = @ + 1],
                   [job[s] EXCEPT !.copied = @ + 1, !.corrupt = TRUE]} : Moves(s, k)
    BY <1>6 DEF Copy
  <2>2. /\ job[s].rev \in DOMAIN published /\ a \in Tarballs
        /\ Packed(job[s]) /\ job[s].copied \in 0 .. Limit(a)
    BY <1>6, <1>a DEF Copy, Underway, Unpacking
  <2>3. k.pc = "copy" /\ k.rev = job[s].rev /\ k.copied = job[s].copied + 1 /\ Packed(k)
    BY <1>0, <1>6, <2>1, <2>2 DEF Copy, IsJob, Packed
  <2>4. k.copied \in 0 .. Limit(a)
    <3>1. Limit(a) \in Nat /\ job[s].copied < Limit(a)
      BY <1>6, <2>2, TarballType, CapsType DEF Copy, Limit
    <3> QED
      BY <2>2, <2>3, <3>1
  <2>5. JobRight(k)
    BY <2>2, <2>3, <2>4 DEF JobRight, Underway, Archive
  <2> QED
    BY <2>1, <2>5, MoveKeepsVerdicts
<1>7. CASE CopyFails(s)
  BY <1>7, <1>b DEF CopyFails
<1>8. CASE CopyEnds(s)
  <2>1. /\ job[s].rev \in DOMAIN published /\ a \in Tarballs
        /\ Packed(job[s]) /\ job[s].copied = Limit(a)
    BY <1>8, <1>a DEF CopyEnds, Underway, Unpacking
  <2>2. job[s].copied > MaxArchiveBytes <=> a.body > MaxArchiveBytes
    BY <2>1, TarballType, CapsType DEF Limit
  <2>3. CASE job[s].copied > MaxArchiveBytes
    <3>1. ~Consumable(a)
      BY <2>1, <2>2, <2>3, TarballType, CapsType DEF Consumable
    <3> QED
      BY <1>8, <2>1, <2>3, <3>1, EndKeepsVerdicts DEF CopyEnds, Verdict
  <2>4. CASE ~(job[s].copied > MaxArchiveBytes)
    <3>1. PICK k : k = [job[s] EXCEPT !.pc = "verify"]
      OBVIOUS
    <3>2. k.pc = "verify" /\ k.rev = job[s].rev /\ Packed(k)
      BY <1>0, <2>1, <3>1 DEF IsJob, Packed
    <3>3. a.body <= MaxArchiveBytes
      BY <2>1, <2>2, <2>4, TarballType, CapsType
    <3>4. JobRight(k)
      BY <2>1, <3>2, <3>3 DEF JobRight, Underway, Archive
    <3> QED
      BY <1>8, <2>4, <3>1, <3>4, MoveKeepsVerdicts DEF CopyEnds
  <2> QED
    BY <2>3, <2>4
<1>9. CASE Verify(s)
  <2>1. CASE Ends(s, "digest")
    BY <2>1, <1>b
  <2>2. CASE ~Ends(s, "digest")
    <3>1. PICK k : k = [job[s] EXCEPT !.pc = "header", !.want = 1,
                                      !.left = MaxDecompressedBytes]
      OBVIOUS
    <3>2. /\ job[s].rev \in DOMAIN published /\ a \in Tarballs
          /\ Packed(job[s]) /\ a.body <= MaxArchiveBytes
      BY <1>9, <1>a DEF Verify, Underway, Unpacking
    <3>3. job[s].corrupt => a.digest = "absent"
      BY <1>9, <2>2 DEF Verify, DigestMatches
    <3>4. /\ k.pc = "header" /\ k.entry = job[s].entry /\ k.total = job[s].total
          /\ k.files = job[s].files /\ k.corrupt = job[s].corrupt
          /\ k.want = 1 /\ k.left = MaxDecompressedBytes /\ k.rev = job[s].rev
      BY <1>0, <3>1 DEF IsJob
    <3>5. Unpacking(k, a)
      BY <3>2, <3>3, <3>4, UnpackingStarts
    <3>6. JobRight(k)
      BY <3>2, <3>4, <3>5 DEF JobRight, Underway, Archive
    <3> QED
      BY <1>9, <2>2, <3>1, <3>6, MoveKeepsVerdicts DEF Verify
  <2> QED
    BY <2>1, <2>2
<1> QED
  BY <1>1, <1>2, <1>3, <1>4, <1>5, <1>6, <1>7, <1>8, <1>9

(* While it unpacks. *)
LEMMA UnpackingKeepsVerdicts ==
  ASSUME FetchInv, JudgeInv, NEW s \in Snippets,
         Read(s) \/ Unreadable(s) \/ Header(s) \/ Body(s) \/ Unpacked(s)
  PROVE  JudgeInv'
<1> DEFINE a == Archive(s)
           j == job[s]
<1>0. IsJob(j) /\ j.pc \in {"header", "body"}
  BY DEF FetchInv, Read, Unreadable, Header, Body, Unpacked
<1>1. j.rev \in DOMAIN published /\ a \in Tarballs /\ Unpacking(j, a)
  BY <1>0, UnderwayArchive DEF Underway
<1>2. Len(a.entries) \in Nat /\ a.marker \in 0 .. 1 /\ j.entry \in 1 .. Len(a.entries) + 1
      /\ j.want \in Nat /\ j.left \in Nat
  BY <1>1, TarballType DEF Unpacking
<1>3. ASSUME NEW k, Moves(s, k), k.rev = j.rev, Unpacking(k, a) PROVE JudgeInv'
  <2>1. JobRight(k)
    BY <1>1, <1>3 DEF JobRight, Underway, Archive
  <2> QED
    BY <1>3, <2>1, MoveKeepsVerdicts
<1>4. ASSUME NEW outcome \in {"shape", "duplicate"}, Ends(s, outcome), ~Consumable(a)
      PROVE  JudgeInv'
  BY <1>1, <1>4, EndKeepsVerdicts DEF Verdict
<1>5. CASE Read(s)
  <2>1. CASE Trips(s) /\ Ends(s, "shape")
    <3>1. ~Consumable(a)
      BY <1>1, <1>5, <2>1, TripMeansTooLong DEF Read, Trips, More
    <3> QED
      BY <1>4, <2>1, <3>1
  <2>2. ASSUME NEW n \in 1 .. j.want, n <= j.left,
               Moves(s, [j EXCEPT !.want = @ - n, !.left = @ - n])
        PROVE  JudgeInv'
    <3>1. PICK k : k = [j EXCEPT !.want = @ - n, !.left = @ - n]
      OBVIOUS
    <3>2. /\ k.pc = j.pc /\ k.entry = j.entry /\ k.total = j.total /\ k.files = j.files
          /\ k.corrupt = j.corrupt /\ k.rev = j.rev
          /\ k.want = j.want - n /\ k.left = j.left - n
      BY <1>0, <3>1 DEF IsJob
    <3>3. Unpacking(k, a)
      BY <1>1, <2>2, <3>2, ChunkKeepsAccount
    <3> QED
      BY <1>3, <2>2, <3>1, <3>2, <3>3
  <2> QED
    BY <1>5, <2>1, <2>2 DEF Read
<1>6. CASE Unreadable(s)
  BY <1>6, EndKeepsVerdicts DEF Unreadable
<1>7. CASE Header(s)
  <2> DEFINE e == a.entries[j.entry]
  <2>1. j.pc = "header" /\ j.want = 0 /\ j.entry <= Len(a.entries)
    BY <1>7 DEF Header
  <2>2. ASSUME Moves(s, [j EXCEPT !.pc = "body", !.want = e.size]),
               e.name # Dropped =>
                 /\ e.name \notin j.files /\ e.size <= MaxPerEntryBytes
                 /\ e.size <= MaxExtractedBytes - j.total
        PROVE  JudgeInv'
    <3>1. PICK k : k = [j EXCEPT !.pc = "body", !.want = e.size]
      OBVIOUS
    <3>2. /\ k.pc = "body" /\ k.entry = j.entry /\ k.total = j.total /\ k.files = j.files
          /\ k.corrupt = j.corrupt /\ k.rev = j.rev /\ k.want = e.size /\ k.left = j.left
      BY <1>0, <3>1 DEF IsJob
    <3>3. Unpacking(k, a)
      BY <1>1, <2>1, <2>2, <3>2, HeaderKeepsAccount
    <3> QED
      BY <1>3, <2>2, <3>1, <3>2, <3>3
  <2>3. CASE e.name \in j.files /\ Ends(s, "duplicate")
    <3>1. ~Consumable(a)
      BY <1>1, <2>1, <2>3, RefusedMeansUnfit
    <3> QED
      BY <1>4, <2>3, <3>1
  <2>4. CASE /\ e.name # Dropped /\ Ends(s, "shape")
             /\ ~(e.size <= MaxPerEntryBytes /\ e.size <= MaxExtractedBytes - j.total)
    <3>1. ~Consumable(a)
      BY <1>1, <2>1, <2>4, RefusedMeansUnfit
    <3> QED
      BY <1>4, <2>4, <3>1
  <2> QED
    BY <1>7, <2>2, <2>3, <2>4 DEF Header
<1>8. CASE Body(s)
  <2> DEFINE e == a.entries[j.entry]
             k1 == [j EXCEPT !.pc = "header", !.want = 1, !.entry = @ + 1]
  <2>1. PICK k : k = IF e.name = Dropped THEN k1
                     ELSE [k1 EXCEPT !.total = @ + e.size, !.files = @ \cup {e.name}]
    OBVIOUS
  <2>2. PICK l : l = k1
    OBVIOUS
  <2>3. /\ l.pc = "header" /\ l.want = 1 /\ l.left = j.left /\ l.corrupt = j.corrupt
        /\ l.entry = j.entry + 1 /\ l.total = j.total /\ l.files = j.files /\ l.rev = j.rev
        /\ IsJob(l)
    BY <1>0, <2>2 DEF IsJob
  <2>4. /\ k.pc = "header" /\ k.want = 1 /\ k.left = j.left /\ k.corrupt = j.corrupt
        /\ k.entry = j.entry + 1 /\ k.rev = j.rev
        /\ IF e.name = Dropped THEN k.total = j.total /\ k.files = j.files
           ELSE k.total = j.total + e.size /\ k.files = j.files \cup {e.name}
    <3> HIDE DEF k1, e
    <3>1. k = IF e.name = Dropped THEN l
              ELSE [l EXCEPT !.total = @ + e.size, !.files = @ \cup {e.name}]
      BY <2>1, <2>2
    <3> QED
      BY <2>3, <3>1 DEF IsJob
  <2>5. j.pc = "body" /\ j.want = 0 /\ Moves(s, k)
    BY <1>8, <2>1 DEF Body
  <2>6. Unpacking(k, a)
    BY <1>1, <2>4, <2>5, BodyKeepsAccount
  <2> QED
    BY <1>3, <2>4, <2>5, <2>6
<1>9. CASE Unpacked(s)
  <2>1. j.pc = "header" /\ j.entry > Len(a.entries) /\ (j.want = 0 \/ a.marker = 0)
    BY <1>9 DEF Unpacked
  <2>2. Consumable(a) /\ j.files = Names(a)
    BY <1>1, <2>1, EndMeansFit
  <2>3. j.corrupt => a.digest = "absent"
    BY <1>1 DEF Unpacking
  <2>4. PICK outcome \in {"empty", "ok"} : Ends(s, outcome)
    BY <1>9 DEF Unpacked
  <2> QED
    BY <1>1, <2>2, <2>3, <2>4, EndKeepsVerdicts DEF Verdict
<1> QED
  BY <1>5, <1>6, <1>7, <1>8, <1>9

(* Fetch and untar judge the archive right, for every archive, all caps    *)
(* and whatever chunks it is read in: a tree holds what the archive holds, *)
(* and an archive is refused for its shape only if it exceeds a cap.       *)
THEOREM AlwaysJudgedRight == Spec => []JudgedRight
<1>1. Init => FetchInv /\ JudgeInv
  <2> SUFFICES ASSUME Init PROVE FetchInv /\ JudgeInv
    OBVIOUS
  <2>1. published \in Seq(Tarballs)
    BY DEF Init
  <2>2. JobRight(NoJob) /\ ResultRight(NoResult)
    BY DEF JobRight, NoJob, Untouched, Packed, ResultRight, NoResult
  <2>3. \A s \in Snippets : job[s] = NoJob /\ result[s] = NoResult
    BY DEF Init
  <2>4. result = [s \in Snippets |-> result[s]]
    BY DEF Init
  <2>5. JudgeInv
    BY <2>1, <2>2, <2>3, <2>4 DEF JudgeInv
  <2> QED
    BY <2>5, InitOwned
<1>2. FetchInv /\ JudgeInv /\ [Next]_fetchVars => FetchInv' /\ JudgeInv'
  <2> SUFFICES ASSUME FetchInv, JudgeInv, [Next]_fetchVars PROVE FetchInv' /\ JudgeInv'
    OBVIOUS
  <2>1. FetchInv'
    BY NextOwned
  <2>2. CASE UNCHANGED <<published, job, result>>
    BY <2>1, <2>2 DEF JudgeInv, JobRight, ResultRight
  <2>3. CASE Collect \/ ReadyChanges \/ UNCHANGED fetchVars
    BY <2>2, <2>3 DEF Collect, ReadyChanges, fetchVars
  <2>4. CASE Publish
    BY <2>1, <2>4, PublishKeepsVerdicts
  <2>5. ASSUME NEW s \in Snippets,
               Begin(s) \/ Acquire(s) \/ Cancelled(s) \/ CopyFails(s) \/ Unreadable(s) \/ Step(s)
        PROVE  JudgeInv'
    BY <2>5, DownloadKeepsVerdicts, UnpackingKeepsVerdicts DEF Step
  <2> QED
    BY <2>1, <2>3, <2>4, <2>5 DEF Next
<1>3. JudgeInv => JudgedRight
  BY DEF JudgeInv, ResultRight, Verdict, JudgedRight
<1> QED
  BY <1>1, <1>2, <1>3, PTL DEF Spec
=============================================================================
