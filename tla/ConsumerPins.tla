---------------------------- MODULE ConsumerPins ----------------------------
(***************************************************************************)
(* A consumer of the artifact beside the life of the snippet.  Flux reads  *)
(* the ExternalArtifact, pins the revision it names, and fetches that      *)
(* tarball from the storage server some time later.  --artifact-gc-grace   *)
(* is what makes the later fetch work when the operator publishes and      *)
(* prunes in between.                                                      *)
(***************************************************************************)
EXTENDS SnippetLifecycle

CONSTANT TiedReverts   \* two tarballs with one mtime, and a revert between them

ASSUME TiedRevertsAssumption == TiedReverts \in BOOLEAN

VARIABLES
  pin,       \* the revision the consumer pinned, and when
  misjudged  \* metadata that could not be read has cost a revision its grace

NoPin == [rev |-> NoRevision, at |-> 0]

pinVars == <<vars, pin, misjudged>>

PinInit == Init /\ pin = NoPin /\ misjudged = FALSE

(* The consumer reads the ExternalArtifact, at any moment. *)
Pin ==
  /\ ea.present /\ ea.rev # NoRevision
  /\ pin' = [rev |-> ea.rev, at |-> now]
  /\ pin' # pin
  /\ UNCHANGED <<vars, misjudged>>

(* A revert to a tarball that was written in the same instant as another   *)
(* one is not stamped again, unless a third is newer.                      *)
TiedRevert ==
  /\ pc = "put" /\ pc' = "upsert" /\ Revision # ea.rev
  /\ Revision \in Stored(files) /\ ~HasNewerSibling(files, Revision)
  /\ \E r \in Stored(files) \ {Revision} : files[r] = files[Revision]

(* A failing Stat, listing or Chtimes that nobody notices has left a revert *)
(* without the stamp the displaced revisions' grace starts from, or had a   *)
(* revision pruned before its time.                                         *)
Misjudged ==
  \/ pc = "put" /\ pc' = "upsert" /\ files' = files /\ files # StorePut
  \/ /\ pc = "prune"
     /\ ~(Stored(files) \ Stored(files') \subseteq PruneVictims(files, PruneKeep, now, GCGrace))

OperatorStep ==
  /\ Next
  /\ TiedReverts \/ ~TiedRevert
  /\ misjudged' = (misjudged \/ Misjudged)
  /\ UNCHANGED pin

PinNext == OperatorStep \/ Pin

PinSpec == PinInit /\ [][PinNext]_pinVars

(* For GCGrace after a consumer read the ExternalArtifact it can fetch     *)
(* what it read, whatever is published, reverted or pruned meanwhile, as   *)
(* long as the store has not misjudged a revision's age.                   *)
PinThenFetch ==
  pin # NoPin /\ Live /\ now - pin.at < GCGrace /\ ~misjudged => pin.rev \in Stored(files)
=============================================================================
