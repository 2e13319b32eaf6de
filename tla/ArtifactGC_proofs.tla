-------------------------- MODULE ArtifactGC_proofs --------------------------
(***************************************************************************)
(* What the retention operators return, for every store and every history. *)
(***************************************************************************)
EXTENDS ArtifactGC, FiniteSetTheorems, FunctionTheorems, WellFoundedInduction, TLAPS

(* The natural numbers are well founded. *)
LEMMA NatSetHasMin ==
  ASSUME NEW T \in SUBSET Nat, T # {}
  PROVE  \E t \in T : \A u \in T : t <= u
<1> DEFINE R == {ss \in Nat \X Nat : ss[1] < ss[2]}
<1>1. IsWellFoundedOn(R, Nat)
  BY NatLessThanWellFounded DEF OpToRel
<1>2. PICK t \in T : \A u \in T : ~ (<<u, t>> \in R)
  BY <1>1, WFMin, Zenon
<1>3. \A u \in T : ~ (u < t)
  BY <1>2
<1> QED
  BY <1>3

(* The instant a revision was superseded is the mtime of the oldest of the *)
(* newer ones.                                                             *)
LEMMA SupersededAtOldest ==
  ASSUME NEW S, NEW f \in [S -> Nat \cup {NotStored}], NEW v \in S, Newer(f, v) # {}
  PROVE  \E w \in Newer(f, v) :
           /\ SupersededAt(f, v) = f[w]
           /\ \A r \in Newer(f, v) : f[w] <= f[r]
<1> DEFINE T == {f[r] : r \in Newer(f, v)}
<1>1. \A r \in Newer(f, v) : r \in S /\ f[r] \in Nat
  BY DEF Newer, Stored, NotStored
<1>2. T \in SUBSET Nat /\ T # {}
  BY <1>1
<1>3. PICK t \in T : \A u \in T : t <= u
  BY <1>2, NatSetHasMin
<1>4. /\ SupersededAt(f, v) \in T
      /\ \A r \in Newer(f, v) : SupersededAt(f, v) <= f[r]
  <2>1. \A r \in Newer(f, v) : t <= f[r]
    BY <1>3
  <2>2. SupersededAt(f, v) = CHOOSE x \in T : \A r \in Newer(f, v) : x <= f[r]
    BY DEF SupersededAt
  <2> QED
    BY <2>1, <2>2, Zenon
<1> QED
  BY <1>4

(* A window of a sequence has at most as many elements as positions. *)
LEMMA WindowCardinality ==
  ASSUME NEW S, NEW s \in Seq(S), NEW n \in Nat, n <= Len(s)
  PROVE  /\ Cardinality({s[j] : j \in 1..n}) \in Nat
         /\ Cardinality({s[j] : j \in 1..n}) <= n
<1> DEFINE T == {s[j] : j \in 1..n}
           f == [j \in 1..n |-> s[j]]
<1>1. f \in [1..n -> T]
  OBVIOUS
<1>2. \A t \in T : \E j \in 1..n : f[j] = t
  OBVIOUS
<1>3. f \in Surjection(1..n, T)
  BY <1>1, <1>2, Fun_IsSurj
<1>4. IsFiniteSet(1..n)
  BY FS_Interval
<1>5. Cardinality(T) \in Nat
  BY <1>3, <1>4, FS_Surjection, FS_CardinalityType
<1>6. Cardinality(T) <= n
  BY <1>3, FS_SurjCardinalityBound DEF ExistsSurjection
<1> QED
  BY <1>5, <1>6

(* At least one revision is retained, whatever spec.history says.          *)
LEMMA LimitType ==
  ASSUME NEW h \in Nat
  PROVE  Limit(h) \in Nat \ {0}
BY DEF Limit

(* A truncated history is a history, and what it lists was listed. *)
LEMMA TruncateProperties ==
  ASSUME NEW S, NEW s \in Seq(S), NEW n \in Nat
  PROVE  /\ Truncate(s, n) \in Seq(S)
         /\ Len(Truncate(s, n)) <= n
         /\ Len(Truncate(s, n)) <= Len(s)
         /\ \A i \in 1..Len(Truncate(s, n)) : Truncate(s, n)[i] = s[i]
BY DEF Truncate

(* What a truncated history lists comes from its first entries.            *)
LEMMA TruncateWindow ==
  ASSUME NEW S, NEW s \in Seq(S), NEW n \in Nat,
         NEW k \in 1..Len(Truncate(s, n))
  PROVE  k \in 1..Len(s) /\ k <= n /\ Truncate(s, n)[k] = s[k]
<1>1. Truncate(s, n) \in Seq(S)
  BY TruncateProperties
<1>2. Len(Truncate(s, n)) \in Nat
  BY <1>1
<1> QED
  BY <1>2, TruncateProperties

(* A new history is a history of the same kind of revisions.               *)
LEMMA UpdateRevisionHistoryType ==
  ASSUME NEW S, NEW prior \in Seq(S), NEW rev \in S, NEW h \in Nat
  PROVE  UpdateRevisionHistory(prior, rev, h) \in Seq(S)
<1>1. <<rev>> \o prior \in Seq(S)
  OBVIOUS
<1> QED
  BY <1>1, TruncateProperties, LimitType DEF UpdateRevisionHistory

(* A keep-set holds only the new revision and recorded ones.               *)
LEMMA BuildKeepRevisionsType ==
  ASSUME NEW S, NEW prior \in Seq(S), NEW rev \in S, NEW h \in Nat
  PROVE  BuildKeepRevisions(rev, prior, h) \subseteq S
<1> DEFINE s == <<rev>> \o prior
<1>1. s \in Seq(S)
  OBVIOUS
<1>2. \A i \in 1..Len(s) : s[i] \in S
  BY <1>1
<1> QED
  BY <1>2 DEF BuildKeepRevisions

(* The elements before a position, as BuildKeepRevisions counts them. *)
LEMMA KeptWhenFewBefore ==
  ASSUME NEW prior, NEW rev, NEW h,
         NEW i \in 1..Len(<<rev>> \o prior),
         Cardinality({(<<rev>> \o prior)[j] : j \in 1..(i - 1)}) < Limit(h)
  PROVE  (<<rev>> \o prior)[i] \in BuildKeepRevisions(rev, prior, h)
BY DEF BuildKeepRevisions

(* The first Limit(h) positions are kept. *)
LEMMA EarlyIsKept ==
  ASSUME NEW S, NEW s \in Seq(S), NEW h \in Nat,
         NEW i \in 1..Len(s), i <= Limit(h)
  PROVE  Cardinality({s[j] : j \in 1..(i - 1)}) < Limit(h)
<1>1. i \in Nat /\ i - 1 \in Nat /\ i - 1 <= Len(s)
  OBVIOUS
<1>2. /\ Cardinality({s[j] : j \in 1..(i - 1)}) \in Nat
      /\ Cardinality({s[j] : j \in 1..(i - 1)}) <= i - 1
  BY <1>1, WindowCardinality
<1> QED
  BY <1>1, <1>2, LimitType

(* With a head that repeats, one position more. *)
LEMMA RepeatedIsKept ==
  ASSUME NEW S, NEW prior \in Seq(S), NEW rev \in S, NEW h \in Nat,
         prior[1] = rev, NEW k \in 1..Len(prior), k > 1, k <= Limit(h)
  PROVE  (<<rev>> \o prior)[k + 1] \in BuildKeepRevisions(rev, prior, h)
<1>1. k \in Nat /\ k >= 2 /\ Len(prior) \in Nat
  OBVIOUS
<1>2. \A j \in 1..k : \E i \in 1..(k - 1) : (<<rev>> \o prior)[j] = prior[i]
  <2> TAKE j \in 1..k
  <2>1. CASE j = 1
    <3>1. 1 \in 1..(k - 1) /\ (<<rev>> \o prior)[1] = prior[1]
      BY <1>1
    <3> QED
      BY <2>1, <3>1
  <2>2. CASE j # 1
    <3>1. j - 1 \in 1..(k - 1) /\ (<<rev>> \o prior)[j] = prior[j - 1]
      BY <1>1, <2>2
    <3> QED
      BY <3>1
  <2> QED
    BY <2>1, <2>2
<1>3. \A i \in 1..(k - 1) : \E j \in 1..k : (<<rev>> \o prior)[j] = prior[i]
  <2> TAKE i \in 1..(k - 1)
  <2>1. i + 1 \in 1..k /\ (<<rev>> \o prior)[i + 1] = prior[i]
    BY <1>1
  <2> QED
    BY <2>1
<1>4. {(<<rev>> \o prior)[j] : j \in 1..k} \subseteq {prior[j] : j \in 1..(k - 1)}
  BY <1>2, Zenon
<1>5. {prior[j] : j \in 1..(k - 1)} \subseteq {(<<rev>> \o prior)[j] : j \in 1..k}
  BY <1>3
<1>6. {(<<rev>> \o prior)[j] : j \in 1..k} = {prior[j] : j \in 1..(k - 1)}
  BY <1>4, <1>5, Zenon
<1>7. Cardinality({prior[j] : j \in 1..(k - 1)}) < Limit(h)
  BY EarlyIsKept
<1>8. Cardinality({(<<rev>> \o prior)[j] : j \in 1..k}) < Limit(h)
  BY <1>6, <1>7
<1>9. (k + 1) - 1 = k /\ k + 1 \in 1..Len(<<rev>> \o prior)
  BY <1>1
<1>10. Cardinality({(<<rev>> \o prior)[j] : j \in 1..((k + 1) - 1)}) < Limit(h)
  BY <1>8, <1>9
<1> QED
  BY <1>9, <1>10, KeptWhenFewBefore

(* What the status is about to record never exceeds what Prune was told to *)
(* keep, provided both start from the same history.                        *)
LEMMA RecordedIsKept ==
  ASSUME NEW S, NEW prior \in Seq(S), NEW rev \in S, NEW h \in Nat
  PROVE  HistoryRevisions(UpdateRevisionHistory(prior, rev, h))
           \subseteq BuildKeepRevisions(rev, prior, h)
<1>1. <<rev>> \o prior \in Seq(S) /\ Len(<<rev>> \o prior) = Len(prior) + 1
  OBVIOUS
<1>2. Limit(h) \in Nat /\ Limit(h) >= 1
  BY LimitType
<1>3. CASE prior # <<>> /\ prior[1] = rev
  <2>1. SUFFICES ASSUME NEW k \in 1..Len(Truncate(prior, Limit(h)))
                 PROVE  Truncate(prior, Limit(h))[k] \in BuildKeepRevisions(rev, prior, h)
    BY <1>3 DEF HistoryRevisions, UpdateRevisionHistory
  <2>2. /\ k \in 1..Len(prior) /\ k <= Limit(h)
        /\ Truncate(prior, Limit(h))[k] = prior[k]
    BY <1>2, TruncateWindow
  <2>3. CASE k = 1
    <3>1. k \in 1..Len(<<rev>> \o prior)
      BY <1>1, <2>2
    <3>2. Cardinality({(<<rev>> \o prior)[j] : j \in 1..(k - 1)}) < Limit(h)
      BY <1>1, <2>2, <3>1, EarlyIsKept, ZenonT(30)
    <3>3. (<<rev>> \o prior)[k] \in BuildKeepRevisions(rev, prior, h)
      BY <3>1, <3>2, KeptWhenFewBefore, ZenonT(30)
    <3>4. (<<rev>> \o prior)[k] = prior[k]
      BY <1>3, <2>3
    <3> QED
      BY <2>2, <3>3, <3>4
  <2>4. CASE k # 1
    <3>1. k > 1
      BY <2>2, <2>4
    <3>2. (<<rev>> \o prior)[k + 1] \in BuildKeepRevisions(rev, prior, h)
      BY <1>3, <2>2, <3>1, RepeatedIsKept
    <3>3. (<<rev>> \o prior)[k + 1] = prior[k]
      BY <2>2
    <3> QED
      BY <2>2, <3>2, <3>3
  <2> QED
    BY <2>3, <2>4
<1>4. CASE ~(prior # <<>> /\ prior[1] = rev)
  <2>1. SUFFICES ASSUME NEW k \in 1..Len(Truncate(<<rev>> \o prior, Limit(h)))
                 PROVE  Truncate(<<rev>> \o prior, Limit(h))[k]
                          \in BuildKeepRevisions(rev, prior, h)
    BY <1>4 DEF HistoryRevisions, UpdateRevisionHistory
  <2>2. /\ k \in 1..Len(<<rev>> \o prior) /\ k <= Limit(h)
        /\ Truncate(<<rev>> \o prior, Limit(h))[k] = (<<rev>> \o prior)[k]
    BY <1>1, <1>2, TruncateWindow, ZenonT(30)
  <2>3. Cardinality({(<<rev>> \o prior)[j] : j \in 1..(k - 1)}) < Limit(h)
    BY <1>1, <2>2, EarlyIsKept
  <2> QED
    BY <2>2, <2>3, KeptWhenFewBefore
<1> QED
  BY <1>3, <1>4
=============================================================================
