---------------------------- MODULE RevisionStore ----------------------------
(***************************************************************************)
(* What storage.Backend promises for one (namespace, name): a revision     *)
(* appears whole, a revision the keep-set does not name goes only once it  *)
(* has been superseded for the grace, and nothing else ever goes unless    *)
(* the artifact is being withdrawn.  Superseded by a revision whose        *)
(* modification time could be read, that is: while some cannot, the others *)
(* are judged without them, each by its own time at worst.                 *)
(***************************************************************************)
EXTENDS ArtifactGC

CONSTANTS Revisions, GCGrace

VARIABLES
  files,      \* the fetchable revisions and their modification times
  now,        \* the clock
  withdrawn,  \* a Delete has begun since the last Put
  unread      \* the revisions an I/O error hides from the Prune under way

(* Publishing a revision that is already there may leave it as it is, or   *)
(* stamp it again; only a new one has to be stamped.                       *)
Publish(r) ==
  /\ files' \in {PutRevision(files, r, now), [files EXCEPT ![r] = now]}
  /\ withdrawn' = FALSE
  /\ UNCHANGED <<now, unread>>

Republish ==
  /\ Stored(files) # {} /\ withdrawn' = FALSE /\ UNCHANGED <<files, now, unread>>

(* An I/O error begins or ends to hide some of the revisions.              *)
Hide == unread' \in SUBSET Revisions /\ UNCHANGED <<files, now, withdrawn>>

Evict ==
  /\ \E keep \in SUBSET Revisions :
       \E gone \in SUBSET PruneVictims(Remove(files, unread), keep, now, GCGrace) :
         files' = Remove(files, gone)
  /\ UNCHANGED <<now, withdrawn, unread>>

Withdraw ==
  /\ \E gone \in SUBSET Stored(files) : files' = Remove(files, gone)
  /\ withdrawn' = TRUE
  /\ UNCHANGED <<now, unread>>

Tick == now' = now + 1 /\ UNCHANGED <<files, withdrawn, unread>>

Init ==
  /\ files = [r \in Revisions |-> NotStored]
  /\ now = 0
  /\ withdrawn = FALSE
  /\ unread = {}

Next ==
  \/ \E r \in Revisions : Publish(r)
  \/ Republish \/ Hide \/ Evict \/ Withdraw \/ Tick

Spec == Init /\ [][Next]_<<files, now, withdrawn, unread>>
=============================================================================
