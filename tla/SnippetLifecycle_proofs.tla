----------------------- MODULE SnippetLifecycle_proofs -----------------------
(***************************************************************************)
(* Theorems about the life of a snippet, for every value of the constants. *)
(***************************************************************************)
EXTENDS ConsumerPins, ArtifactGC_proofs

-----------------------------------------------------------------------------
(* The retention operators on this model's revisions. *)

(* A Put keeps every tarball there is and adds its own.                    *)
LEMMA StorePutType ==
  ASSUME files \in [Revisions -> Nat \cup {NotStored}], Revision \in Revisions, now \in Nat
  PROVE  /\ StorePut \in [Revisions -> Nat \cup {NotStored}]
         /\ Stored(files) \cup {Revision} \subseteq Stored(StorePut)
BY DEF StorePut, PutRevision, PutObject, Stored, NotStored

(* So does a Put that could not read the metadata it went by.              *)
LEMMA PutMisreadType ==
  ASSUME files \in [Revisions -> Nat \cup {NotStored}], Revision \in Revisions, now \in Nat,
         NEW f \in PutMisread(files, Revision, now)
  PROVE  /\ f \in [Revisions -> Nat \cup {NotStored}]
         /\ Stored(files) \cup {Revision} \subseteq Stored(f)
<1>1. PICK t \in {now} \cup ({files[Revision]} \ {NotStored}) : f = [files EXCEPT ![Revision] = t]
  BY DEF PutMisread
<1>2. t \in Nat
  BY <1>1
<1> QED
  BY <1>1, <1>2 DEF Stored, NotStored

(* A removal takes its victims and nothing else.                           *)
LEMMA RemoveType ==
  ASSUME NEW f \in [Revisions -> Nat \cup {NotStored}], NEW victims
  PROVE  /\ Remove(f, victims) \in [Revisions -> Nat \cup {NotStored}]
         /\ Stored(Remove(f, victims)) = Stored(f) \ victims
BY DEF Remove, Stored, NotStored

(* A Prune, whether it fails or reads only part of what there is, removes  *)
(* nothing it was told to keep.                                            *)
LEMMA PruneRemoves ==
  ASSUME files \in [Revisions -> Nat \cup {NotStored}],
         NEW kept, PruneWorks(kept) \/ PruneFails(kept)
  PROVE  \E gone \in SUBSET (Stored(files) \ kept) : files' = Remove(files, gone)
<1>1. CASE \E victims \in SUBSET PruneVictims(files, kept, now, GCGrace) : files' = Remove(files, victims)
  <2>1. PruneVictims(files, kept, now, GCGrace) \subseteq Stored(files) \ kept
    BY DEF PruneVictims
  <2> QED
    BY <1>1, <2>1
<1>2. CASE \E unread : files' = Remove(files, PruneVictims(Remove(files, unread), kept, now, GCGrace))
  <2>1. PICK unread : files' = Remove(files, PruneVictims(Remove(files, unread), kept, now, GCGrace))
    BY <1>2
  <2>2. PruneVictims(Remove(files, unread), kept, now, GCGrace) \subseteq Stored(files) \ kept
    BY RemoveType DEF PruneVictims
  <2> QED
    BY <2>1, <2>2
<1> QED
  BY <1>1, <1>2 DEF PruneWorks, PruneFails

(* The values the locals hold between two reconciles are legal ones.       *)
LEMMA BlankType == Blank \in Snippets /\ NoContent \in Contents
BY ConstantsAssumption DEF Blank, NoContent, Created, Snippets, Reasons, NoRevision, NotDeleted

(* Clearing the locals leaves legal ones.                                  *)
LEMMA ClearLocalsType ==
  ASSUME ClearLocals
  PROVE  /\ snip' \in Snippets /\ content' \in Contents
         /\ keep' \subseteq Revisions /\ reason' \in Reasons
         /\ forced' \in {"no", "yes", "salvaged", "orphaned"}
BY BlankType DEF ClearLocals, Reasons

(* A call never overdraws the failures that are left.                      *)
LEMMA BudgetType ==
  ASSUME budget \in Nat, NEW kind, Works(kind) \/ Fails(kind)
  PROVE  budget' \in Nat
BY DEF Works, Fails

(* An edited snippet is a snippet.                                         *)
LEMMA SpecEditType ==
  ASSUME NEW x \in Snippets, NEW s \in Sources, NEW o \in Outputs,
         NEW h \in Histories, NEW p \in Suspends, NEW n \in Nat
  PROVE  [x EXCEPT !.source = s, !.output = o, !.history = h,
                   !.suspend = p, !.generation = n] \in Snippets
BY DEF Snippets

(* So is one that is being deleted, and one that is gone.                  *)
LEMMA DeleteRequestType ==
  ASSUME NEW x \in Snippets, NEW t \in Nat, NEW n \in Nat
  PROVE  /\ [x EXCEPT !.deletionTimestamp = t, !.generation = n] \in Snippets
         /\ [x EXCEPT !.present = FALSE] \in Snippets
BY DEF Snippets

(* A generation can always be bumped.                                      *)
LEMMA GenerationType ==
  ASSUME NEW x \in Snippets
  PROVE  x.generation + 1 \in Nat
BY DEF Snippets

(* An upsert, half done or not, leaves an ExternalArtifact.                *)
LEMMA ArtifactType ==
  ASSUME NEW x \in [present: BOOLEAN, rev: Revisions \cup {NoRevision}],
         NEW b \in BOOLEAN, NEW r \in Revisions \cup {NoRevision}
  PROVE  /\ [x EXCEPT !.present = TRUE] \in [present: BOOLEAN, rev: Revisions \cup {NoRevision}]
         /\ [present |-> b, rev |-> r] \in [present: BOOLEAN, rev: Revisions \cup {NoRevision}]
OBVIOUS

(* A snippet with or without its finalizer is a snippet.                   *)
LEMMA FinalizerType ==
  ASSUME NEW o \in Snippets, NEW x \in BOOLEAN, NEW y \in BOOLEAN
  PROVE  [o EXCEPT !.finalizer = x, !.present = y] \in Snippets
BY DEF Snippets

-----------------------------------------------------------------------------
(* Type correctness. *)

(* "yes" is what forced holds between the decision and the salvage. *)
ForcedIsSettled ==
  /\ forced = "yes" => pc = "salvage"
  /\ pc = "announce" => forced # "no"

TypeInv == TypeOK /\ ForcedIsSettled

(* The initial states are well typed.                                      *)
LEMMA InitType == Init => TypeInv
<1> SUFFICES ASSUME Init PROVE TypeInv
  OBVIOUS
<1>1. obj \in Snippets
  BY ConstantsAssumption DEF Init, Created, Snippets, Reasons, NoRevision, NotDeleted
<1> QED
  BY <1>1, BlankType, ConstantsAssumption
  DEF Init, TypeInv, ForcedIsSettled, TypeOK, Revisions, Steps, Reasons, NotStored, NoRevision

(* Every step keeps the undecided withdrawal at the salvage.               *)
LEMMA NextForced == TypeInv /\ [Next]_vars => ForcedIsSettled'
<1> SUFFICES ASSUME TypeInv, [Next]_vars PROVE ForcedIsSettled'
  OBVIOUS
<1> USE DEF TypeInv, ForcedIsSettled, Goto, Return, ClearLocals
<1>1. CASE Reconcile \/ AddFinalizer \/ Suspended \/ Render \/ Gate \/ Put
  BY <1>1 DEF Reconcile, Branch, AddFinalizer, Suspended, Render, Gate, Put
<1>2. CASE Upsert \/ Prune \/ Sync \/ Patch \/ FailReady
  BY <1>2 DEF Upsert, Prune, Sync, Patch, FailReady
<1>3. CASE Withdraw \/ DeleteStored
  BY <1>3 DEF Withdraw, DeleteStored, WithdrawFailed
<1>4. CASE Salvage \/ RemoveFinalizer \/ Announce
  BY <1>4 DEF Salvage, RemoveFinalizer, Announce
<1>5. CASE Crash
  BY <1>5 DEF Crash
<1>6. CASE \/ EditSpec \/ SourceChanges \/ RequestDelete \/ CacheSync
           \/ Poke \/ Outage \/ Tick \/ UNCHANGED vars
  <2>1. UNCHANGED <<pc, forced>>
    BY <1>6 DEF EditSpec, SourceChanges, RequestDelete, CacheSync, Poke, Outage, Tick, vars, local
  <2> QED
    BY <2>1
<1> QED
  BY <1>1, <1>2, <1>3, <1>4, <1>5, <1>6 DEF Next, Operator, Environment

(* What a reconcile keeps for itself, and its place in the queue. *)
LocalTypes ==
  /\ pc \in Steps /\ queued \in BOOLEAN /\ snip \in Snippets
  /\ content \in Contents /\ keep \subseteq Revisions /\ reason \in Reasons
  /\ forced \in {"no", "yes", "salvaged", "orphaned"}

(* A reconcile that returns leaves them in their types, ... *)
LEMMA ReturnTypes ==
  ASSUME TypeOK, NEW again \in BOOLEAN, Return(again)
  PROVE  LocalTypes'
<1>1. pc' \in Steps /\ queued' \in BOOLEAN
  BY DEF Return, TypeOK, Steps
<1>2. ClearLocals
  BY DEF Return
<1> QED
  BY <1>1, <1>2, ClearLocalsType DEF LocalTypes

(* ... and so does one that goes on to its next step. *)
LEMMA GotoTypes ==
  ASSUME TypeOK, NEW step \in Steps, Goto(step), UNCHANGED <<content, keep, forced>>,
         reason' \in Reasons
  PROVE  LocalTypes'
BY DEF LocalTypes, Goto, TypeOK

(* Every step keeps the types, action by action.                           *)
LEMMA NextType == TypeInv /\ [Next]_vars => TypeOK'
<1> SUFFICES ASSUME TypeOK, ForcedIsSettled, [Next]_vars PROVE TypeOK'
  BY DEF TypeInv
<1>0. /\ obj \in Snippets /\ budget \in Nat /\ now \in Nat
      /\ files \in [Revisions -> Nat \cup {NotStored}]
      /\ ea \in [present: BOOLEAN, rev: Revisions \cup {NoRevision}]
  BY DEF TypeOK
<1>1. CASE Reconcile
  <2>1. snip' \in Snippets /\ pc' \in Steps
    BY <1>1, BlankType DEF TypeOK, Reconcile, Branch, Steps
  <2> QED
    BY <1>1, <2>1 DEF TypeOK, Reconcile, shared
<1>2. CASE AddFinalizer
  <2>0. budget' \in Nat
    BY <1>0, <1>2 DEF AddFinalizer, Works, Fails
  <2>1. obj' \in {obj, [obj EXCEPT !.finalizer = TRUE]}
    BY <1>2 DEF AddFinalizer
  <2>2. obj' \in Snippets
    BY <1>0, <2>1 DEF Snippets
  <2> QED
    BY <1>2, <2>0, <2>2, ClearLocalsType DEF TypeOK, AddFinalizer, Return, Steps
<1>3. CASE Suspended
  <2>0. budget' \in Nat
    BY <1>0, <1>3 DEF Suspended, PruneWorks, PruneFails, Misread, Works, Fails
  <2>1. files' \in [Revisions -> Nat \cup {NotStored}]
    BY <1>0, <1>3, PruneRemoves, RemoveType DEF Suspended
  <2> QED
    BY <1>3, <2>0, <2>1 DEF TypeOK, Suspended, Goto, Steps, Reasons
<1>4. CASE Render
  <2>1. budget' \in Nat
    BY <1>4, BudgetType DEF TypeOK, Render
  <2>2. (IF snip.source = Ref THEN upstream ELSE snip.source) \in Contents
    BY ConstantsAssumption DEF TypeOK, Snippets
  <2>3. content' \in Contents /\ reason' \in Reasons
    BY <1>4, <2>2, ClearLocalsType DEF TypeOK, Render, Goto, Return, Reasons
  <2>4. /\ pc' \in Steps /\ snip' \in Snippets /\ queued' \in BOOLEAN
        /\ keep' \subseteq Revisions
        /\ forced' \in {"no", "yes", "salvaged", "orphaned"}
    BY <1>4, ClearLocalsType DEF TypeOK, Render, Goto, Return, Steps
  <2> QED
    BY <1>4, <2>1, <2>3, <2>4 DEF TypeOK, Render, shared
<1>5. CASE Gate
  <2>1. budget' \in Nat
    BY <1>5, BudgetType DEF TypeOK, Gate
  <2>2. /\ <<"rendered", content>> \in Revisions
        /\ obj.revisions \in Seq(Revisions) /\ obj.history \in Nat
    BY ConstantsAssumption DEF TypeOK, Snippets, Revisions
  <2>3. BuildKeepRevisions(<<"rendered", content>>, KeepPrior, obj.history) \subseteq Revisions
    BY <2>2, BuildKeepRevisionsType DEF KeepPrior
  <2>4. CASE Return(FALSE) \/ Return(TRUE)
    BY <1>5, <2>1, <2>4, ClearLocalsType DEF TypeOK, Gate, Return, Steps, shared
  <2>5. CASE /\ Goto("put") /\ UNCHANGED <<content, reason, forced>>
             /\ keep' = BuildKeepRevisions(<<"rendered", content>>, KeepPrior, obj.history)
    BY <1>5, <2>1, <2>3, <2>5 DEF TypeOK, Gate, Goto, Steps, shared
  <2> QED
    BY <1>5, <2>4, <2>5 DEF Gate
<1>6. CASE Put
  <2>1. Revision \in Revisions
    BY ConstantsAssumption DEF TypeOK, Revision, Revisions, Snippets
  <2>0. budget' \in Nat
    BY <1>0, <1>6 DEF Put, Misread, Works, Fails, Goto, Return
  <2>2. files' \in [Revisions -> Nat \cup {NotStored}]
    BY <1>0, <1>6, <2>1, StorePutType, PutMisreadType DEF Put, Goto, Return
  <2>3. LocalTypes'
    <3>1. "upsert" \in Steps /\ reason \in Reasons
      BY DEF Steps, TypeOK
    <3> QED
      BY <1>6, <3>1, ReturnTypes, GotoTypes DEF Put
  <2> QED
    BY <1>6, <2>0, <2>2, <2>3 DEF TypeOK, Put, LocalTypes
<1>7. CASE Upsert
  <2>1. Revision \in Revisions
    BY ConstantsAssumption DEF TypeOK, Revision, Revisions, Snippets
  <2>0. budget' \in Nat
    BY <1>0, <1>7 DEF Upsert, Works, Fails, Goto, Return
  <2>2. ea' \in [present: BOOLEAN, rev: Revisions \cup {NoRevision}]
    BY <1>0, <1>7, <2>1, ArtifactType DEF Upsert, Goto, Return
  <2>3. LocalTypes'
    <3>1. {"prune", "fail"} \subseteq Steps /\ reason \in Reasons /\ "Failed" \in Reasons
      BY DEF Steps, Reasons, TypeOK
    <3> QED
      BY <1>7, <3>1, ReturnTypes, GotoTypes DEF Upsert
  <2> QED
    BY <1>7, <2>0, <2>2, <2>3 DEF TypeOK, Upsert, LocalTypes
<1>8. CASE Prune
  <2>0. budget' \in Nat
    BY <1>0, <1>8 DEF Prune, PruneWorks, PruneFails, Misread, Works, Fails, Goto, Return
  <2>1. files' \in [Revisions -> Nat \cup {NotStored}]
    BY <1>0, <1>8, PruneRemoves, RemoveType DEF Prune, Goto, Return
  <2>2. LocalTypes'
    <3>1. "sync" \in Steps /\ reason \in Reasons
      BY DEF Steps, TypeOK
    <3> QED
      BY <1>8, <3>1, ReturnTypes, GotoTypes DEF Prune
  <2> QED
    BY <1>8, <2>0, <2>1, <2>2 DEF TypeOK, Prune, LocalTypes
<1>9. CASE Sync
  <2>1. budget' \in Nat
    BY <1>9, BudgetType DEF TypeOK, Sync
  <2>2. snip' \in Snippets
    <3>1. obj.generation \in Nat /\ snip \in Snippets
      BY DEF TypeOK, Snippets
    <3>2. [snip EXCEPT !.generation = obj.generation] \in Snippets
      BY <3>1 DEF Snippets
    <3> QED
      BY <1>9, <3>2, ClearLocalsType DEF Sync, Return
  <2>3. LocalTypes'
    <3>1. CASE Return(TRUE) \/ Return(FALSE)
      BY <3>1, ReturnTypes
    <3>2. CASE pc' = "patch" /\ UNCHANGED <<queued, content, keep, reason, forced>>
      BY <2>2, <3>2 DEF LocalTypes, TypeOK, Steps
    <3> QED
      BY <1>9, <3>1, <3>2 DEF Sync
  <2> QED
    BY <1>9, <2>1, <2>3 DEF TypeOK, Sync, LocalTypes, shared
<1>10. CASE Patch
  <2>1. budget' \in Nat
    BY <1>10, BudgetType DEF TypeOK, Patch
  <2>2. UpdateRevisionHistory(obj.revisions, Revision, snip.history) \in Seq(Revisions)
        /\ Revision \in Revisions
    <3>1. /\ Revision \in Revisions /\ obj.revisions \in Seq(Revisions)
          /\ snip.history \in Nat
      BY ConstantsAssumption DEF TypeOK, Revision, Revisions, Snippets
    <3> QED
      BY <3>1, UpdateRevisionHistoryType
  <2>3. \A p, q \in BOOLEAN : Recorded(p, q) \in Snippets
    BY <2>2 DEF TypeOK, Recorded, Snippets, Reasons
  <2>4. obj' \in Snippets
    BY <1>10, <2>3 DEF TypeOK, Patch
  <2> QED
    BY <1>10, <2>1, <2>4, ClearLocalsType DEF TypeOK, Patch, Return, Steps
<1>11. CASE FailReady
  <2>1. obj' \in Snippets
    <3>1. Failed \in Snippets
      BY DEF TypeOK, Failed, Snippets
    <3> QED
      BY <1>11, <3>1 DEF TypeOK, FailReady
  <2>2. budget' \in Nat
    BY <1>11, BudgetType DEF TypeOK, FailReady
  <2> QED
    BY <1>11, <2>1, <2>2, ClearLocalsType DEF TypeOK, FailReady, Return, Steps
<1>12. CASE Withdraw
  <2>0. budget' \in Nat
    BY <1>0, <1>12 DEF Withdraw, Works, Fails, WithdrawFailed, Goto, Return
  <2>1. ea' \in [present: BOOLEAN, rev: Revisions \cup {NoRevision}]
    BY <1>0, <1>12, ArtifactType DEF Withdraw, WithdrawFailed, Goto, Return
  <2> QED
    BY <1>12, <2>0, <2>1, ClearLocalsType DEF TypeOK, Withdraw, WithdrawFailed, Goto, Return, Steps
<1>13. CASE DeleteStored
  <2>0. budget' \in Nat
    BY <1>0, <1>13 DEF DeleteStored, Works, Fails, WithdrawFailed, Goto, Return
  <2>1. files' \in [Revisions -> Nat \cup {NotStored}]
    BY <1>0, <1>13, RemoveType DEF DeleteStored, WithdrawFailed, Goto, Return
  <2>2. CASE Return(TRUE)
    BY <1>13, <2>0, <2>1, <2>2, ClearLocalsType DEF TypeOK, DeleteStored, Return, Steps
  <2>3. CASE /\ Goto("unfinalize") \/ Goto("salvage")
             /\ UNCHANGED <<content, keep, reason>> /\ forced' \in {forced, "yes"}
    BY <1>13, <2>0, <2>1, <2>3 DEF TypeOK, DeleteStored, Goto, Steps
  <2> QED
    BY <1>13, <2>2, <2>3 DEF DeleteStored, WithdrawFailed
<1>14. CASE Salvage
  <2>0. budget' \in Nat
    BY <1>0, <1>14 DEF Salvage, Works, Fails
  <2>1. files' \in [Revisions -> Nat \cup {NotStored}]
    BY <1>0, <1>14, RemoveType DEF Salvage
  <2> QED
    BY <1>14, <2>0, <2>1 DEF TypeOK, Salvage, Goto, Steps
<1>15. CASE RemoveFinalizer
  <2>0. budget' \in Nat
    BY <1>0, <1>15 DEF RemoveFinalizer, Works, Fails, Goto, Return
  <2>1. obj' \in Snippets
    BY <1>15, FinalizerType DEF TypeOK, RemoveFinalizer
  <2>2. drop' \in [left: {"none", "salvaged", "orphaned"},
                   event: {"none", "salvaged", "orphaned", "lost"}]
    <3>1. forced \in {"no", "salvaged", "orphaned"}
      BY <1>15 DEF TypeOK, ForcedIsSettled, RemoveFinalizer
    <3>2. \/ drop' = drop
          \/ forced # "no" /\ drop' = [drop EXCEPT !.left = forced]
          \/ forced # "no" /\ drop' = [left |-> forced, event |-> "lost"]
      BY <1>15 DEF RemoveFinalizer
    <3> QED
      BY <3>1, <3>2 DEF TypeOK
  <2> QED
    BY <1>15, <2>0, <2>1, <2>2, ClearLocalsType DEF TypeOK, RemoveFinalizer, Goto, Return, Steps
<1>16. CASE EditSpec
  <2>1. PICK s \in Sources, o \in Outputs, h \in Histories, p \in Suspends :
          obj' = [obj EXCEPT !.source = s, !.output = o, !.history = h,
                             !.suspend = p, !.generation = @ + 1]
    BY <1>16 DEF EditSpec
  <2>2. obj' \in Snippets
    BY <1>0, <2>1, GenerationType, SpecEditType
  <2> QED
    BY <1>16, <2>2 DEF TypeOK, EditSpec, local
<1>17. CASE SourceChanges
  BY <1>17 DEF TypeOK, SourceChanges, local
<1>18. CASE RequestDelete
  <2>1. /\ [obj EXCEPT !.deletionTimestamp = now, !.generation = @ + 1] \in Snippets
        /\ [obj EXCEPT !.present = FALSE] \in Snippets
    BY <1>0, GenerationType, DeleteRequestType
  <2> QED
    BY <1>18, <2>1 DEF TypeOK, RequestDelete, local
<1>19. CASE CacheSync
  BY <1>19 DEF TypeOK, CacheSync, local
<1>20. CASE Poke
  BY <1>20 DEF TypeOK, Poke, local, shared
<1>21. CASE Crash
  BY <1>21, ClearLocalsType DEF TypeOK, Crash, Steps
<1>25. CASE Announce
  <2>1. forced \in {"no", "salvaged", "orphaned"} /\ forced # "no"
    BY <1>25 DEF TypeOK, ForcedIsSettled, Announce
  <2> QED
    BY <1>25, <2>1, ClearLocalsType DEF TypeOK, Announce, Return, Steps, shared
<1>22. CASE Outage
  BY <1>22, ConstantsAssumption DEF TypeOK, Outage, local, shared, FaultKinds
<1>23. CASE Tick
  BY <1>23 DEF TypeOK, Tick, local
<1>24. CASE UNCHANGED vars
  BY <1>24 DEF TypeOK, vars
<1> QED
  BY <1>1, <1>2, <1>3, <1>4, <1>5, <1>6, <1>7, <1>8, <1>9, <1>10, <1>11, <1>12,
     <1>13, <1>14, <1>15, <1>16, <1>17, <1>18, <1>19, <1>20, <1>21, <1>22, <1>23, <1>24, <1>25
  DEF Next, Operator, Environment

(* Every variable keeps its type, whatever the constants. *)
THEOREM TypeCorrect == Spec => []TypeOK
<1>1. Init => TypeInv
  BY InitType
<1>2. TypeInv /\ [Next]_vars => TypeInv'
  BY NextType, NextForced DEF TypeInv
<1>3. TypeInv => TypeOK
  BY DEF TypeInv
<1> QED
  BY <1>1, <1>2, <1>3, PTL DEF Spec

(* The strengthened type invariant holds throughout.                       *)
LEMMA TypeInvInvariant == Spec => []TypeInv
<1>1. Init => TypeInv
  BY InitType
<1>2. TypeInv /\ [Next]_vars => TypeInv'
  BY NextType, NextForced DEF TypeInv
<1> QED
  BY <1>1, <1>2, PTL DEF Spec

-----------------------------------------------------------------------------
(* The artifact is served, as long as nobody suspends the snippet.         *)
(*                                                                         *)
(* A withdrawal only runs once the deletion is on record, and between the  *)
(* Put and the Prune the reconcile holds on to the revision it publishes.  *)

WithdrawalSteps == {"withdraw", "delete", "salvage", "unfinalize", "announce"}

Deleted(s) == s.deletionTimestamp # NotDeleted

DeletionRecorded ==
  /\ pc # "suspend"
  /\ Deleted(cache) => Deleted(obj)
  /\ Deleted(snip) => Deleted(obj)
  /\ pc \in WithdrawalSteps => Deleted(snip)

PublishedHeld ==
  /\ pc = "upsert" => Revision \in Stored(files)
  /\ pc = "prune" => ea.rev = Revision
  /\ ArtifactServed

(* Every step keeps the record of a deletion the reconcile acts on.        *)
LEMMA DeletionRecordedStep ==
  ASSUME Suspends = {FALSE}, TypeOK, DeletionRecorded, [Next]_vars
  PROVE  DeletionRecorded'
<1>0. ~cache.suspend /\ Blank.deletionTimestamp = NotDeleted /\ now # NotDeleted
  <2>1. cache.suspend \in Suspends
    BY DEF TypeOK, Snippets
  <2>2. ~cache.suspend
    BY <2>1
  <2>3. Blank.deletionTimestamp = NotDeleted
    BY DEF Blank, Created
  <2>4. now # NotDeleted
    BY DEF TypeOK, NotDeleted
  <2> QED
    BY <2>2, <2>3, <2>4
<1>1. CASE Reconcile
  BY <1>0, <1>1 DEF DeletionRecorded, WithdrawalSteps, Deleted, Reconcile, Branch, shared
<1>2. CASE AddFinalizer
  BY <1>0, <1>2 DEF DeletionRecorded, WithdrawalSteps, Deleted, AddFinalizer, NoConflict,
     Return, ClearLocals, TypeOK, Snippets
<1>3. CASE Suspended
  BY <1>3 DEF DeletionRecorded, Suspended
<1>4. CASE Render \/ Gate
  BY <1>0, <1>4 DEF DeletionRecorded, WithdrawalSteps, Deleted, Render, Gate, Goto,
     Return, ClearLocals, shared
<1>5. CASE Put \/ Upsert \/ Prune
  BY <1>0, <1>5 DEF DeletionRecorded, WithdrawalSteps, Deleted, Put, Upsert, Prune, Goto,
     Return, ClearLocals
<1>6. CASE Sync
  <2>1. snip'.deletionTimestamp \in {snip.deletionTimestamp, NotDeleted}
    BY <1>0, <1>6 DEF Sync, Return, ClearLocals, TypeOK, Snippets
  <2> QED
    BY <1>6, <2>1 DEF DeletionRecorded, WithdrawalSteps, Deleted, Sync, Return, shared
<1>7. CASE Patch \/ FailReady
  <2>1. obj'.deletionTimestamp = obj.deletionTimestamp
    BY <1>7 DEF Patch, FailReady, Failed, Recorded, TypeOK, Snippets
  <2> QED
    BY <1>0, <1>7, <2>1 DEF DeletionRecorded, WithdrawalSteps, Deleted, Patch, FailReady,
       Return, ClearLocals
<1>8. CASE Withdraw \/ DeleteStored \/ Salvage
  BY <1>0, <1>8 DEF DeletionRecorded, WithdrawalSteps, Deleted, Withdraw, DeleteStored, Salvage,
     WithdrawFailed, Goto, Return, ClearLocals
<1>9. CASE RemoveFinalizer
  <2>1. obj'.deletionTimestamp = obj.deletionTimestamp
    BY <1>9 DEF RemoveFinalizer, TypeOK, Snippets
  <2> QED
    BY <1>0, <1>9, <2>1 DEF DeletionRecorded, WithdrawalSteps, Deleted, RemoveFinalizer,
       Goto, Return, ClearLocals
<1>15. CASE Announce
  BY <1>0, <1>15 DEF DeletionRecorded, WithdrawalSteps, Deleted, Announce, Return, ClearLocals, shared
<1>10. CASE EditSpec
  <2>1. obj'.deletionTimestamp = obj.deletionTimestamp
    BY <1>10 DEF EditSpec, TypeOK, Snippets
  <2> QED
    BY <1>10, <2>1 DEF DeletionRecorded, Deleted, EditSpec, local
<1>11. CASE RequestDelete
  <2>1. ~Deleted(obj)
    BY <1>11 DEF RequestDelete, Deleted
  <2> QED
    BY <1>11, <2>1 DEF DeletionRecorded, Deleted, RequestDelete, local
<1>12. CASE CacheSync
  BY <1>12 DEF DeletionRecorded, Deleted, CacheSync, local
<1>13. CASE Crash
  BY <1>0, <1>13 DEF DeletionRecorded, WithdrawalSteps, Deleted, Crash, ClearLocals
<1>14. CASE SourceChanges \/ Poke \/ Outage \/ Tick \/ UNCHANGED vars
  BY <1>14 DEF DeletionRecorded, Deleted, SourceChanges, Poke, Outage, Tick, vars, shared, local
<1> QED
  BY <1>1, <1>2, <1>3, <1>4, <1>5, <1>6, <1>7, <1>8, <1>9, <1>10, <1>11, <1>12, <1>13, <1>14, <1>15
  DEF Next, Operator, Environment

(* Without suspensions, every step keeps the published revision stored.    *)
LEMMA PublishedHeldStep ==
  ASSUME TypeOK, DeletionRecorded, PublishedHeld, [Next]_vars
  PROVE  PublishedHeld'
<1>0. /\ Revision \in Revisions
      /\ files \in [Revisions -> Nat \cup {NotStored}] /\ now \in Nat
  BY ConstantsAssumption DEF TypeOK, Snippets, Revision, Revisions
<1>1. CASE Reconcile
  BY <1>1 DEF PublishedHeld, ArtifactServed, Live, Reconcile, Branch, shared
<1>2. CASE AddFinalizer
  <2>1. Live' => Live
    BY <1>2 DEF AddFinalizer, Live, TypeOK, Snippets
  <2> QED
    BY <1>2, <2>1 DEF PublishedHeld, ArtifactServed, AddFinalizer, Return
<1>3. CASE Suspended
  BY <1>3 DEF DeletionRecorded, Suspended
<1>4. CASE Render \/ Gate \/ Sync
  BY <1>4 DEF PublishedHeld, ArtifactServed, Live, Render, Gate, Sync, Goto, Return, shared
<1>5. CASE Put
  <2>1. \A f \in {StorePut} \cup PutMisread(files, Revision, now) :
          Stored(files) \cup {Revision} \subseteq Stored(f)
    BY <1>0, StorePutType, PutMisreadType
  <2>2. files' \in {files, StorePut} \cup PutMisread(files, Revision, now)
        /\ (pc' = "upsert" => files' \in {StorePut} \cup PutMisread(files, Revision, now))
    BY <1>5 DEF Put, Goto, Return
  <2>3. /\ Stored(files) \subseteq Stored(files')
        /\ pc' = "upsert" => Revision' = Revision /\ Revision \in Stored(files')
    BY <1>5, <2>1, <2>2 DEF Put, Goto, Return, Revision
  <2>4. pc' # "prune" /\ UNCHANGED <<obj, ea>>
    BY <1>5 DEF Put, Goto, Return
  <2> QED
    BY <2>3, <2>4 DEF PublishedHeld, ArtifactServed, Live
<1>6. CASE Upsert
  <2>1. /\ pc' = "prune" => Revision' = Revision
        /\ ea'.rev \in {ea.rev, Revision}
        /\ pc' = "prune" => ea'.rev = Revision
    BY <1>6 DEF Upsert, Goto, Return, Revision, TypeOK
  <2>2. pc = "upsert" /\ pc' # "upsert" /\ UNCHANGED <<obj, files>>
    BY <1>6 DEF Upsert, Goto, Return
  <2> QED
    BY <2>1, <2>2 DEF PublishedHeld, ArtifactServed, Live
<1>7. CASE Prune
  <2>1. ea.rev = Revision /\ Revision \in PruneKeep
    BY <1>7 DEF Prune, PublishedHeld, PruneKeep
  <2>2. PICK gone \in SUBSET (Stored(files) \ PruneKeep) : files' = Remove(files, gone)
    BY <1>0, <1>7, PruneRemoves DEF Prune
  <2>3. Revision \notin gone
    BY <2>1, <2>2
  <2>4. Stored(files') = Stored(files) \ gone
    BY <1>0, <2>2, RemoveType
  <2>5. pc' \notin {"upsert", "prune"} /\ UNCHANGED <<obj, ea>>
    BY <1>7 DEF Prune, Goto, Return
  <2> QED
    BY <2>1, <2>3, <2>4, <2>5 DEF PublishedHeld, ArtifactServed, Live
<1>8. CASE Patch \/ FailReady
  <2>1. Live' => Live
    BY <1>8, ZenonT(60) DEF Patch, FailReady, Failed, Recorded, Live, TypeOK, Snippets
  <2> QED
    BY <1>8, <2>1 DEF PublishedHeld, ArtifactServed, Patch, FailReady, Return
<1>9. CASE Withdraw \/ DeleteStored \/ Salvage
  <2>1. ~Live' /\ pc' \notin {"upsert", "prune"}
    BY <1>9 DEF Withdraw, DeleteStored, Salvage, WithdrawFailed, Goto, Return,
       DeletionRecorded, WithdrawalSteps, Deleted, Live
  <2> QED
    BY <2>1 DEF PublishedHeld, ArtifactServed
<1>10. CASE RemoveFinalizer
  <2>1. Live' => Live
    BY <1>10 DEF RemoveFinalizer, Live, TypeOK, Snippets
  <2> QED
    BY <1>10, <2>1 DEF PublishedHeld, ArtifactServed, RemoveFinalizer, Goto, Return
<1>15. CASE Announce
  BY <1>15 DEF PublishedHeld, ArtifactServed, Live, Announce, Return, shared
<1>11. CASE EditSpec
  <2>1. Live' => Live
    BY <1>11 DEF EditSpec, Live, TypeOK, Snippets
  <2> QED
    BY <1>11, <2>1 DEF PublishedHeld, ArtifactServed, Revision, EditSpec, local
<1>12. CASE RequestDelete
  <2>1. Live' => Live
    BY <1>12 DEF RequestDelete, Live
  <2> QED
    BY <1>12, <2>1 DEF PublishedHeld, ArtifactServed, Revision, RequestDelete, local
<1>13. CASE Crash
  BY <1>13 DEF PublishedHeld, ArtifactServed, Live, Crash
<1>14. CASE SourceChanges \/ CacheSync \/ Poke \/ Outage \/ Tick \/ UNCHANGED vars
  BY <1>14 DEF PublishedHeld, ArtifactServed, Live, Revision, SourceChanges, CacheSync, Poke,
     Outage, Tick, vars, shared, local
<1> QED
  BY <1>1, <1>2, <1>3, <1>4, <1>5, <1>6, <1>7, <1>8, <1>9, <1>10, <1>11, <1>12, <1>13, <1>14, <1>15
  DEF Next, Operator, Environment

(* While the snippet lives, the ExternalArtifact never names a revision    *)
(* without a tarball, for any number of contents, edits, failures and any  *)
(* grace, provided no edit suspends the snippet.                           *)
THEOREM ArtifactAlwaysServed ==
  ASSUME Suspends = {FALSE}
  PROVE  Spec => []ArtifactServed
<1> DEFINE IInv == TypeInv /\ DeletionRecorded /\ PublishedHeld
<1>1. Init => IInv
  <2> SUFFICES ASSUME Init PROVE IInv
    OBVIOUS
  <2>1. TypeInv
    BY InitType
  <2>2. DeletionRecorded /\ PublishedHeld
    BY DEF Init, DeletionRecorded, PublishedHeld, ArtifactServed, WithdrawalSteps, Deleted,
       Blank, Created
  <2> QED
    BY <2>1, <2>2
<1>2. IInv /\ [Next]_vars => IInv'
  BY NextType, NextForced, DeletionRecordedStep, PublishedHeldStep DEF TypeInv
<1>3. IInv => ArtifactServed
  BY DEF PublishedHeld
<1> QED
  BY <1>1, <1>2, <1>3, PTL DEF Spec

-----------------------------------------------------------------------------
(* What markSynced records.                                                *)
(*                                                                         *)
(* A copy of the snippet is one of an earlier generation, or it has the    *)
(* spec of the current one; from the gate to the patch nobody else writes  *)
(* the history the keep-set was computed from.                             *)

SameSpec(s, o) ==
  /\ s.source = o.source /\ s.output = o.output
  /\ s.history = o.history /\ s.suspend = o.suspend

SeenBefore(s, o) ==
  /\ s.generation <= o.generation
  /\ s.generation = o.generation => SameSpec(s, o)

Publishing == {"put", "upsert", "prune", "sync", "patch"}

KeepDerived ==
  keep = BuildKeepRevisions(<<"rendered", content>>, obj.revisions, snip.history)

RecordInv ==
  /\ SeenBefore(cache, obj)
  /\ pc # "idle" => SeenBefore(snip, obj)
  /\ pc \in Publishing \cup {"gate"} => (snip.source # Ref => content = snip.source)
  /\ pc \in Publishing => KeepDerived

(* A change of the object the copies and the keep-set survive. *)
Compatible(o, p) ==
  /\ p.revisions = o.revisions
  /\ \/ p.generation > o.generation
     \/ p.generation = o.generation /\ SameSpec(o, p)

(* A copy that was of the current spec, or of an earlier generation, still *)
(* is after a change that bumps the generation or leaves the spec alone.   *)
LEMMA CompatibleKeepsSeen ==
  ASSUME NEW s \in Snippets, NEW o \in Snippets, NEW p \in Snippets,
         SeenBefore(s, o), Compatible(o, p)
  PROVE  SeenBefore(s, p)
<1>1. s.generation \in Nat /\ o.generation \in Nat /\ p.generation \in Nat
  BY DEF Snippets
<1> QED
  BY <1>1 DEF SeenBefore, Compatible, SameSpec

(* Every step keeps what the final patch relies on.                        *)
LEMMA RecordInvStep ==
  ASSUME TypeOK, TypeOK', RecordInv, [Next]_vars
  PROVE  RecordInv'
<1>0. /\ obj \in Snippets /\ obj' \in Snippets /\ cache \in Snippets /\ snip \in Snippets
      /\ obj.generation \in Nat
  BY DEF TypeOK, Snippets
<1>1. CASE Reconcile
  BY <1>1 DEF RecordInv, Publishing, Reconcile, Branch, shared
<1>2. CASE AddFinalizer
  <2>1. obj' = obj \/ obj' = [obj EXCEPT !.finalizer = TRUE]
    BY <1>2 DEF AddFinalizer
  <2>2. Compatible(obj, obj')
    BY <1>0, <2>1 DEF Compatible, SameSpec, Snippets
  <2>3. cache' = cache /\ pc' = "idle"
    BY <1>2 DEF AddFinalizer, Return
  <2> QED
    BY <1>0, <2>2, <2>3, CompatibleKeepsSeen DEF RecordInv, Publishing
<1>3. CASE Suspended
  BY <1>3 DEF RecordInv, Publishing, Suspended, Goto
<1>4. CASE Render
  <2>1. /\ pc' \in {"idle", "fail", "gate"} /\ UNCHANGED <<obj, cache>>
        /\ pc' # "idle" => snip' = snip
        /\ pc' = "gate" => (snip.source # Ref => content' = snip.source)
    BY <1>4 DEF Render, Goto, Return, shared
  <2> QED
    BY <1>4, <2>1 DEF RecordInv, Publishing, Render
<1>5. CASE Gate
  <2>1. pc' \in {"idle", "put"} /\ UNCHANGED <<obj, cache>>
    BY <1>5 DEF Gate, Goto, Return, shared
  <2>2. CASE pc' = "put"
    <3>1. /\ SpecUnmoved /\ UNCHANGED <<snip, content>>
          /\ keep' = BuildKeepRevisions(<<"rendered", content>>, KeepPrior, obj.history)
      BY <1>5, <2>2 DEF Gate, Goto, Return
    <3>2. SeenBefore(snip, obj) /\ snip.history = obj.history
      BY <1>5, <3>1 DEF Gate, RecordInv, SeenBefore, SameSpec, SpecUnmoved
    <3>3. KeepDerived'
      BY <2>1, <3>1, <3>2 DEF KeepDerived, KeepPrior
    <3>4. snip.source # Ref => content = snip.source
      BY <1>5 DEF Gate, RecordInv
    <3> QED
      BY <2>1, <3>1, <3>2, <3>3, <3>4 DEF RecordInv
  <2>3. CASE pc' = "idle"
    BY <2>1, <2>3 DEF RecordInv, Publishing
  <2> QED
    BY <2>1, <2>2, <2>3
<1>6. CASE Put \/ Upsert \/ Prune
  <2>1. /\ pc' \in {"idle", "upsert", "prune", "sync", "fail"} /\ UNCHANGED <<obj, cache>>
        /\ pc \in Publishing
        /\ pc' # "idle" => snip' = snip
        /\ pc' \in Publishing => UNCHANGED <<snip, content, keep>>
    BY <1>6 DEF Put, Upsert, Prune, Goto, Return, Publishing
  <2> QED
    BY <2>1 DEF RecordInv, KeepDerived, Publishing
<1>7. CASE Sync
  <2>1. pc' \in {"idle", "patch"} /\ UNCHANGED <<obj, cache>> /\ pc = "sync"
    BY <1>7 DEF Sync, Return, shared
  <2>2. CASE pc' = "patch"
    <3>1. /\ SpecUnmoved /\ UNCHANGED <<content, keep>>
          /\ snip' = [snip EXCEPT !.generation = obj.generation]
      BY <1>7, <2>2 DEF Sync, Return
    <3>2. snip' = snip
      BY <1>0, <3>1 DEF SpecUnmoved, Snippets
    <3> QED
      BY <2>1, <3>1, <3>2 DEF RecordInv, KeepDerived, Publishing
  <2>3. CASE pc' = "idle"
    BY <2>1, <2>3 DEF RecordInv, Publishing
  <2> QED
    BY <2>1, <2>2, <2>3
<1>8. CASE Patch
  <2>1. /\ obj'.generation = obj.generation /\ SameSpec(obj, obj')
        /\ cache' = cache /\ pc' = "idle"
    BY <1>8, ZenonT(60) DEF Patch, Recorded, Return, SameSpec, TypeOK, Snippets
  <2>2. SeenBefore(cache, obj')
    BY <2>1 DEF RecordInv, SeenBefore, SameSpec
  <2> QED
    BY <2>1, <2>2 DEF RecordInv, Publishing
<1>9. CASE FailReady
  <2>1. Compatible(obj, obj') /\ cache' = cache /\ pc' = "idle"
    BY <1>9 DEF FailReady, Failed, Return, Compatible, SameSpec, TypeOK, Snippets
  <2> QED
    BY <1>0, <2>1, CompatibleKeepsSeen DEF RecordInv, Publishing
<1>10. CASE Withdraw \/ DeleteStored \/ Salvage
  <2>1. /\ pc # "idle" /\ pc' \in {"idle", "delete", "salvage", "unfinalize"}
        /\ UNCHANGED <<obj, cache>>
        /\ pc' # "idle" => snip' = snip
    BY <1>10 DEF Withdraw, DeleteStored, Salvage, WithdrawFailed, Goto, Return
  <2>2. SeenBefore(cache', obj') /\ (pc' # "idle" => SeenBefore(snip', obj'))
    BY <2>1 DEF RecordInv
  <2>3. pc' \notin Publishing \cup {"gate"}
    BY <2>1 DEF Publishing
  <2> QED
    BY <2>2, <2>3 DEF RecordInv
<1>11. CASE RemoveFinalizer
  <2>0. obj' \in {obj, [obj EXCEPT !.finalizer = FALSE, !.present = FALSE]} /\ cache' = cache
    BY <1>11 DEF RemoveFinalizer
  <2>1. Compatible(obj, obj')
    BY <1>0, <2>0 DEF Compatible, SameSpec, Snippets
  <2>2. pc # "idle" /\ (pc' = "idle" \/ (pc' = "announce" /\ snip' = snip))
    <3>1. CASE pc' = "idle"
      BY <1>11, <3>1 DEF RemoveFinalizer
    <3>2. CASE pc' # "idle"
      <4>1. Goto("announce") /\ pc = "unfinalize"
        BY <1>11, <3>2 DEF RemoveFinalizer, Return
      <4> QED
        BY <4>1 DEF Goto
    <3> QED
      BY <3>1, <3>2
  <2> QED
    BY <1>0, <2>0, <2>1, <2>2, CompatibleKeepsSeen DEF RecordInv, Publishing
<1>15. CASE Announce
  BY <1>15 DEF RecordInv, Publishing, Announce, Return, shared
<1>12. CASE EditSpec \/ RequestDelete
  <2>1. Compatible(obj, obj')
    <3>1. CASE EditSpec
      <4>1. obj'.generation = obj.generation + 1 /\ obj'.revisions = obj.revisions
        BY <1>0, <3>1 DEF EditSpec, Snippets
      <4> QED
        BY <1>0, <4>1 DEF Compatible
    <3>2. CASE RequestDelete
      <4>1. obj'.revisions = obj.revisions /\ SameSpec(obj, obj')
            /\ obj'.generation \in {obj.generation, obj.generation + 1}
        BY <1>0, <3>2 DEF RequestDelete, Snippets, SameSpec
      <4> QED
        BY <1>0, <4>1 DEF Compatible
    <3> QED
      BY <1>12, <3>1, <3>2
  <2>2. UNCHANGED <<cache, pc, snip, content, keep>>
    BY <1>12 DEF EditSpec, RequestDelete, local
  <2>3. SeenBefore(cache, obj') /\ (pc # "idle" => SeenBefore(snip, obj'))
    BY <1>0, <2>1, CompatibleKeepsSeen DEF RecordInv
  <2>4. obj'.revisions = obj.revisions
    BY <2>1 DEF Compatible
  <2>5. pc' \in Publishing => KeepDerived'
    BY <2>2, <2>4 DEF RecordInv, KeepDerived
  <2>6. SeenBefore(cache', obj') /\ (pc' # "idle" => SeenBefore(snip', obj'))
    BY <2>2, <2>3
  <2>7. pc' \in Publishing \cup {"gate"} => (snip'.source # Ref => content' = snip'.source)
    BY <2>2 DEF RecordInv
  <2> QED
    BY <2>5, <2>6, <2>7 DEF RecordInv
<1>13. CASE CacheSync \/ Crash
  <2>1. /\ cache' = obj /\ obj' = obj
        /\ pc' = "idle" \/ UNCHANGED <<pc, snip, content, keep>>
    BY <1>13 DEF CacheSync, Crash, local
  <2>2. SeenBefore(obj, obj)
    BY <1>0 DEF SeenBefore, SameSpec
  <2> QED
    BY <2>1, <2>2 DEF RecordInv, KeepDerived, Publishing
<1>14. CASE SourceChanges \/ Poke \/ Outage \/ Tick \/ UNCHANGED vars
  <2>1. UNCHANGED <<obj, cache, pc, snip, content, keep>>
    BY <1>14 DEF SourceChanges, Poke, Outage, Tick, vars, shared, local
  <2> QED
    BY <2>1 DEF RecordInv, KeepDerived
<1> QED
  BY <1>1, <1>2, <1>3, <1>4, <1>5, <1>6, <1>7, <1>8, <1>9, <1>10, <1>11, <1>12, <1>13, <1>14, <1>15
  DEF Next, Operator, Environment

(* What the final patch relies on holds throughout.                        *)
LEMMA RecordInvInvariant == Spec => [](TypeInv /\ RecordInv)
<1>1. Init => RecordInv
  BY DEF Init, RecordInv, SeenBefore, SameSpec, Publishing, Created
<1>2. TypeInv /\ RecordInv /\ [Next]_vars => (TypeInv /\ RecordInv)'
  BY NextType, NextForced, RecordInvStep DEF TypeInv
<1> QED
  BY <1>1, <1>2, InitType, PTL DEF Spec

(* Only the patch of markSynced touches what the status records. *)
LEMMA OnlyPatchRecords ==
  ASSUME TypeOK, [Next]_vars,
         obj'.revisions # obj.revisions \/ obj'.revision # obj.revision
  PROVE  Patch
<1>0. obj \in Snippets /\ obj' # obj
  BY DEF TypeOK
<1>1. ~ (Reconcile \/ Suspended \/ Render \/ Gate \/ Put \/ Upsert \/ Prune \/ Sync)
  BY <1>0 DEF Reconcile, Suspended, Render, Gate, Put, Upsert, Prune, Sync, shared
<1>2. ~ (Withdraw \/ DeleteStored \/ Salvage \/ Announce)
  BY <1>0 DEF Withdraw, DeleteStored, Salvage, Announce, shared
<1>3. ~ (AddFinalizer \/ RemoveFinalizer \/ FailReady)
  <2>1. ASSUME AddFinalizer \/ RemoveFinalizer \/ FailReady
        PROVE  obj' \in {[obj EXCEPT !.finalizer = TRUE],
                         [obj EXCEPT !.finalizer = FALSE, !.present = FALSE], Failed}
    BY <1>0, <2>1 DEF AddFinalizer, RemoveFinalizer, FailReady
  <2> QED
    BY <1>0, <2>1 DEF Snippets, Failed
<1>4. ~ (EditSpec \/ RequestDelete)
  BY <1>0 DEF Snippets, EditSpec, RequestDelete
<1>5. ~ (SourceChanges \/ CacheSync \/ Poke \/ Crash \/ Outage \/ Tick \/ UNCHANGED vars)
  BY <1>0 DEF SourceChanges, CacheSync, Poke, Crash, Outage, Tick, vars, shared
<1> QED
  BY <1>1, <1>2, <1>3, <1>4, <1>5 DEF Next, Operator, Environment

(* The history a publish records is part of the keep-set its Prune was     *)
(* given, whatever edits, deletions and crashes raced it.                  *)
THEOREM RecordedWithinKeep == Spec => HistoryWithinKeep
<1>1. ASSUME TypeInv, RecordInv, [Next]_vars,
             obj'.revisions # obj.revisions, snip.output = "rendered"
      PROVE  HistoryRevisions(obj'.revisions) \subseteq keep
  <2>1. Patch /\ TypeOK
    BY <1>1, OnlyPatchRecords DEF TypeInv
  <2>2. obj'.revisions = UpdateRevisionHistory(obj.revisions, Revision, snip.history)
    BY <1>1, <2>1 DEF Patch, Recorded, TypeOK, Snippets
  <2>3. Revision = <<"rendered", content>>
    BY <1>1 DEF Revision
  <2>4. keep = BuildKeepRevisions(<<"rendered", content>>, obj.revisions, snip.history)
    BY <1>1, <2>1 DEF RecordInv, Patch, Publishing, KeepDerived
  <2>5. /\ obj.revisions \in Seq(Revisions) /\ snip.history \in Nat
        /\ <<"rendered", content>> \in Revisions
    BY <2>1, ConstantsAssumption DEF TypeOK, Snippets, Revisions
  <2> QED
    BY <2>2, <2>3, <2>4, <2>5, RecordedIsKept
<1>2. TypeInv /\ RecordInv /\ [Next]_vars
        => [obj'.revisions # obj.revisions /\ snip.output = "rendered"
              => HistoryRevisions(obj'.revisions) \subseteq keep]_vars
  BY <1>1
<1> QED
  BY <1>2, RecordInvInvariant, PTL DEF Spec, HistoryWithinKeep

(* A status stamped with the current generation never names a revision of  *)
(* an earlier spec.                                                        *)
THEOREM RecordsAreCurrent == Spec => RecordsCurrent
<1>1. ASSUME TypeInv, RecordInv, [Next]_vars,
             obj'.revision # obj.revision,
             obj'.observedGeneration = obj'.generation, obj'.source # Ref
      PROVE  obj'.revision = <<obj'.output, obj'.source>>
  <2>1. Patch /\ TypeOK
    BY <1>1, OnlyPatchRecords DEF TypeInv
  <2>2. /\ obj'.revision = Revision /\ obj'.observedGeneration = snip.generation
        /\ obj'.generation = obj.generation /\ SameSpec(obj, obj')
    <3>1. PICK p, q \in BOOLEAN : obj' = Recorded(p, q)
      BY <1>1, <2>1 DEF Patch
    <3>2. obj'.generation = obj.generation /\ SameSpec(obj, obj') /\ (~q => obj'.revision = obj.revision)
      BY <2>1, <3>1 DEF Recorded, TypeOK, Snippets, SameSpec
    <3>3. q
      BY <1>1, <3>2
    <3> QED
      BY <2>1, <3>1, <3>2, <3>3 DEF Recorded, TypeOK, Snippets
  <2>3. SameSpec(snip, obj)
    BY <1>1, <2>1, <2>2 DEF RecordInv, Patch, SeenBefore
  <2>4. snip.source # Ref => content = snip.source
    BY <1>1, <2>1 DEF RecordInv, Patch, Publishing
  <2> QED
    BY <1>1, <2>2, <2>3, <2>4 DEF SameSpec, Revision
<1>2. TypeInv /\ RecordInv /\ [Next]_vars
        => [obj'.revision # obj.revision /\ obj'.observedGeneration = obj'.generation
              /\ obj'.source # Ref => obj'.revision = <<obj'.output, obj'.source>>]_vars
  BY <1>1
<1> QED
  BY <1>2, RecordInvInvariant, PTL DEF Spec, RecordsCurrent
-----------------------------------------------------------------------------
(* Nothing is forgotten: whatever changes under a running reconcile has    *)
(* put the key back, or is an event the informer has yet to deliver.  With *)
(* no key waiting, the reconcile works on the cache's spec and on the tree *)
(* the source still serves.                                                *)

Resolved(s) == IF s.source = Ref THEN upstream ELSE s.source

UpToDate ==
  /\ ea.present /\ ea.rev = Target /\ obj.revision = Target
  /\ obj.ready = "Synced" /\ obj.observedGeneration = obj.generation

SettledInv ==
  /\ obj.present => cache.present
  /\ Deleted(cache) => Deleted(obj)
  /\ ~queued /\ pc # "idle" => snip.generation = cache.generation /\ SameSpec(snip, cache)
  /\ pc = "suspend" \/ (pc = "fail" /\ reason = "Suspended") => snip.suspend
  /\ ~queued /\ pc \in Publishing \cup {"gate"} => content = Resolved(snip)
  /\ pc \in {"prune", "sync", "patch"} => ea.present /\ ea.rev = Revision
  /\ pc = "announce" => ~ obj.present
  /\ pc = "idle" /\ ~queued /\ cache.generation = obj.generation /\ Live /\ ~obj.suspend
       => UpToDate

(* A reconcile that puts its key back owes nothing yet.                    *)
LEMMA RequeuedOwes ==
  ASSUME SettledInv, queued', pc' = "idle", cache' = cache,
         obj'.present => obj.present, Deleted(obj) => Deleted(obj')
  PROVE  SettledInv'
BY DEF SettledInv, Publishing, Deleted

(* Every step of the operator keeps the debt on record.                    *)
LEMMA OperatorKeepsSettled ==
  ASSUME TypeOK, TypeOK', RecordInv, SettledInv, Operator
  PROVE  SettledInv'
<1> USE DEF Publishing
<1>0. /\ obj \in Snippets /\ cache \in Snippets /\ snip \in Snippets
      /\ obj.generation \in Nat /\ cache.generation \in Nat /\ snip.generation \in Nat
  BY DEF TypeOK, Snippets
<1>a. SeenBefore(cache, obj) /\ (pc # "idle" => SeenBefore(snip, obj))
  BY DEF RecordInv
<1>1. CASE Reconcile
  BY <1>1 DEF SettledInv, Reconcile, Branch, shared, Live, SameSpec, Deleted
<1>2. CASE AddFinalizer
  <2>1. obj'.present = obj.present /\ obj'.deletionTimestamp = obj.deletionTimestamp
    BY <1>0, <1>2 DEF AddFinalizer, Snippets
  <2> QED
    BY <1>2, <2>1, RequeuedOwes DEF AddFinalizer, Return, Deleted
<1>3. CASE Suspended
  BY <1>3 DEF SettledInv, Suspended, Goto, Live, Deleted, SameSpec
<1>4. CASE Render
  <2>1. CASE Return(TRUE)
    BY <1>4, <2>1, RequeuedOwes DEF Render, Return, shared
  <2>2. CASE ~ Return(TRUE)
    <3>1. /\ UNCHANGED <<shared, queued, snip>>
          /\ \/ pc' = "gate" /\ content' = Resolved(snip)
             \/ pc' = "fail" /\ reason' = "Failed"
      BY <1>4, <2>2 DEF Render, Goto, Resolved
    <3> QED
      BY <1>4, <3>1 DEF Render, SettledInv, shared, Deleted, SameSpec, Resolved
  <2> QED
    BY <2>1, <2>2
<1>5. CASE Gate
  <2>1. CASE queued' /\ pc' = "idle"
    BY <1>5, <2>1, RequeuedOwes DEF Gate, shared
  <2>2. CASE pc' = "put"
    BY <1>5, <2>2 DEF Gate, Goto, Return, SettledInv, shared, Deleted, SameSpec, Resolved
  <2>3. CASE ~ queued' /\ pc' = "idle"
    <3>1. ~ SpecUnmoved /\ ~ queued /\ UNCHANGED <<obj, cache>>
      BY <1>5, <2>3 DEF Gate, Goto, Return, shared
    <3>2. ~ (cache.generation = obj.generation /\ Live)
      BY <1>5, <3>1 DEF Gate, SpecUnmoved, SettledInv, Live
    <3> QED
      BY <2>3, <3>1, <3>2 DEF SettledInv, Live, Deleted
  <2> QED
    BY <1>5, <2>1, <2>2, <2>3 DEF Gate, Goto, Return
<1>6. CASE Put
  <2>1. CASE Return(TRUE)
    BY <1>6, <2>1, RequeuedOwes DEF Put, Return
  <2>2. CASE pc' = "upsert"
    BY <1>6, <2>2 DEF Put, Goto, Return, SettledInv, Deleted, SameSpec, Resolved
  <2> QED
    BY <1>6, <2>1, <2>2 DEF Put, Goto
<1>7. CASE Upsert
  <2>1. CASE Return(TRUE)
    BY <1>7, <2>1, RequeuedOwes DEF Upsert, Return
  <2>2. CASE pc' = "prune"
    <3>1. ea'.present /\ ea'.rev = Revision /\ Revision' = Revision
      BY <1>7, <2>2 DEF Upsert, Goto, Return, Revision
    <3> QED
      BY <1>7, <2>2, <3>1 DEF Upsert, Goto, SettledInv, Deleted, SameSpec, Resolved, Return
  <2>3. CASE pc' = "fail"
    BY <1>7, <2>3 DEF Upsert, Goto, Return, SettledInv, Deleted, SameSpec, Resolved
  <2> QED
    BY <1>7, <2>1, <2>2, <2>3 DEF Upsert, Goto
<1>8. CASE Prune
  <2>1. CASE Return(TRUE)
    BY <1>8, <2>1, RequeuedOwes DEF Prune, Return
  <2>2. CASE pc' = "sync"
    BY <1>8, <2>2 DEF Prune, Goto, Return, SettledInv, Deleted, SameSpec, Resolved, Revision
  <2> QED
    BY <1>8, <2>1, <2>2 DEF Prune, Goto
<1>9. CASE Sync
  <2>1. CASE queued' /\ pc' = "idle"
    BY <1>9, <2>1, RequeuedOwes DEF Sync, shared
  <2>2. CASE pc' = "patch"
    <3>1. snip' = snip
      BY <1>0, <1>9, <2>2 DEF Sync, Return, SpecUnmoved, Snippets
    <3> QED
      BY <1>9, <2>2, <3>1 DEF Sync, Return, SettledInv, shared, Deleted, SameSpec, Resolved,
         Revision
  <2>3. CASE ~ queued' /\ pc' = "idle"
    <3>1. ~ SpecUnmoved /\ ~ queued /\ UNCHANGED <<obj, cache>>
      BY <1>9, <2>3 DEF Sync, Return, shared
    <3>2. ~ (cache.generation = obj.generation /\ Live)
      BY <1>9, <3>1 DEF Sync, SpecUnmoved, SettledInv, Live
    <3> QED
      BY <2>3, <3>1, <3>2 DEF SettledInv, Live, Deleted
  <2> QED
    BY <1>9, <2>1, <2>2, <2>3 DEF Sync, Return
<1>10. CASE Patch
  <2>1. /\ obj'.present = obj.present /\ obj'.deletionTimestamp = obj.deletionTimestamp
        /\ obj'.generation = obj.generation /\ obj'.suspend = obj.suspend
        /\ obj'.source = obj.source /\ obj'.output = obj.output
        /\ pc' = "idle" /\ UNCHANGED <<cache, upstream, ea>>
    BY <1>0, <1>10 DEF Patch, Recorded, Return, Snippets
  <2>2. CASE queued'
    BY <2>1, <2>2, RequeuedOwes DEF Deleted
  <2>3. CASE ~ queued'
    <3>1. ~ queued /\ obj' = Recorded(TRUE, TRUE)
      BY <1>10, <2>3 DEF Patch, Return
    <3>2. /\ obj'.ready = "Synced" /\ obj'.observedGeneration = snip.generation
          /\ obj'.revision = Revision
      BY <1>0, <3>1 DEF Recorded, Snippets
    <3>3. ASSUME cache.generation = obj.generation
          PROVE  snip.generation = obj.generation /\ Target' = Revision
      <4>1. snip.generation = obj.generation /\ SameSpec(snip, obj)
        BY <1>a, <1>10, <3>1, <3>3 DEF Patch, SettledInv, SeenBefore
      <4>2. content = Resolved(snip)
        BY <1>10, <3>1 DEF Patch, SettledInv
      <4> QED
        BY <2>1, <4>1, <4>2 DEF Target, Revision, SameSpec, Resolved
    <3>4. ea.present /\ ea.rev = Revision
      BY <1>10 DEF Patch, SettledInv
    <3> QED
      BY <2>1, <2>3, <3>2, <3>3, <3>4 DEF SettledInv, UpToDate, Deleted
  <2> QED
    BY <2>2, <2>3
<1>11. CASE FailReady
  <2>1. /\ obj'.present = obj.present /\ obj'.deletionTimestamp = obj.deletionTimestamp
        /\ obj'.generation = obj.generation /\ obj'.suspend = obj.suspend
        /\ pc' = "idle" /\ cache' = cache
    BY <1>0, <1>11 DEF FailReady, Failed, Return, Snippets
  <2>2. CASE queued'
    BY <2>1, <2>2, RequeuedOwes DEF Deleted
  <2>3. CASE ~ queued'
    <3>1. ~ queued /\ reason = "Suspended"
      BY <1>11, <2>3 DEF FailReady, Return
    <3>2. cache.generation = obj.generation => obj.suspend
      BY <1>a, <1>11, <3>1 DEF FailReady, SettledInv, SeenBefore, SameSpec
    <3> QED
      BY <2>1, <2>3, <3>2 DEF SettledInv, Deleted
  <2> QED
    BY <2>2, <2>3
<1>12. CASE Withdraw \/ DeleteStored \/ Salvage
  <2>1. CASE Return(TRUE)
    BY <1>12, <2>1, RequeuedOwes DEF Withdraw, DeleteStored, Salvage, Return
  <2>2. CASE ~ Return(TRUE)
    <3>1. /\ pc # "idle" /\ pc' \in {"delete", "salvage", "unfinalize"}
          /\ UNCHANGED <<obj, cache, queued, snip>>
      BY <1>12, <2>2 DEF Withdraw, DeleteStored, Salvage, WithdrawFailed, Goto
    <3> QED
      BY <3>1 DEF SettledInv, Deleted, SameSpec
  <2> QED
    BY <2>1, <2>2
<1>13. CASE RemoveFinalizer
  <2>1. /\ obj'.deletionTimestamp = obj.deletionTimestamp /\ cache' = cache
        /\ obj' = obj \/ ~ obj'.present
    BY <1>0, <1>13 DEF RemoveFinalizer, Snippets
  <2>2. CASE queued' /\ pc' = "idle"
    BY <2>1, <2>2, RequeuedOwes DEF Deleted, RemoveFinalizer
  <2>3. CASE ~ queued' /\ pc' = "idle"
    <3>1. ~ obj'.present
      BY <1>0, <1>13, <2>3 DEF RemoveFinalizer, Goto, Return, Snippets
    <3> QED
      BY <2>1, <2>3, <3>1 DEF SettledInv, Live, Deleted
  <2>4. CASE pc' = "announce"
    <3>1. /\ UNCHANGED <<queued, snip>> /\ pc = "unfinalize" /\ ~ obj'.present
      BY <1>0, <1>13, <2>4 DEF RemoveFinalizer, Goto, Return, Snippets
    <3> QED
      BY <2>1, <2>4, <3>1 DEF SettledInv, Deleted, SameSpec
  <2> QED
    BY <1>13, <2>2, <2>3, <2>4 DEF RemoveFinalizer, Goto, Return
<1>14. CASE Announce
  <2>1. /\ pc = "announce" /\ pc' = "idle" /\ queued' = (queued \/ FALSE)
        /\ UNCHANGED <<obj, cache>>
    BY <1>14 DEF Announce, Return, shared
  <2> QED
    BY <2>1 DEF SettledInv, Live, Deleted
<1> QED
  BY <1>1, <1>2, <1>3, <1>4, <1>5, <1>6, <1>7, <1>8, <1>9, <1>10, <1>11, <1>12, <1>13, <1>14
  DEF Operator

(* So does every step of everybody else.                                   *)
LEMMA EnvironmentKeepsSettled ==
  ASSUME TypeOK, TypeOK', RecordInv, SettledInv, Environment \/ UNCHANGED vars
  PROVE  SettledInv'
<1> USE DEF Publishing
<1>0. /\ obj \in Snippets /\ cache \in Snippets /\ snip \in Snippets
      /\ obj.generation \in Nat /\ cache.generation \in Nat /\ snip.generation \in Nat
  BY DEF TypeOK, Snippets
<1>a. SeenBefore(cache, obj) /\ (pc # "idle" => SeenBefore(snip, obj))
  BY DEF RecordInv
<1>1. CASE EditSpec
  <2>1. /\ obj'.generation = obj.generation + 1
        /\ obj'.present = obj.present /\ obj'.deletionTimestamp = obj.deletionTimestamp
    BY <1>0, <1>1 DEF EditSpec, Snippets
  <2>2. cache.generation # obj'.generation
    BY <1>0, <1>a, <2>1 DEF SeenBefore
  <2> QED
    BY <1>1, <2>1, <2>2 DEF EditSpec, SettledInv, Deleted, SameSpec, Resolved, Revision, local
<1>2. CASE SourceChanges
  <2>1. UNCHANGED <<obj, cache, ea, pc, snip, content, reason>> /\ cache.present
        /\ (~ queued' => ~ queued /\ cache.source # Ref)
    BY <1>2 DEF SourceChanges, SettledInv, local
  <2>2. ~ queued' /\ pc \in Publishing \cup {"gate"} => content = Resolved(snip)'
    BY <2>1 DEF SettledInv, SameSpec, Resolved
  <2>3. ~ queued' /\ cache.generation = obj.generation => Target' = Target
    BY <1>a, <2>1 DEF SeenBefore, SameSpec, Target
  <2> QED
    BY <2>1, <2>2, <2>3 DEF SettledInv, Deleted, SameSpec, Revision, UpToDate, Live
<1>3. CASE RequestDelete
  <2>1. /\ ~ Deleted(obj) /\ (Deleted(obj') \/ ~ obj'.present)
        /\ obj'.present => obj.present
        /\ UNCHANGED <<cache, upstream, ea, queued, pc, local>>
    BY <1>0, <1>3 DEF RequestDelete, Deleted, Snippets, TypeOK, NotDeleted
  <2> QED
    BY <2>1 DEF SettledInv, Deleted, Live, SameSpec, Resolved, Revision, local
<1>4. CASE CacheSync
  <2>1. /\ cache' = obj /\ UNCHANGED <<obj, upstream, ea, pc, local>>
        /\ (~ queued' => ~ queued /\ cache.generation = obj.generation)
    BY <1>4 DEF CacheSync
  <2>2. ~ queued' => SameSpec(cache, obj)
    BY <1>a, <2>1 DEF SeenBefore
  <2> QED
    BY <2>1, <2>2 DEF SettledInv, Deleted, Live, SameSpec, Resolved, Revision, local, UpToDate, Target
<1>5. CASE Crash
  BY <1>5 DEF Crash, SettledInv, Deleted
<1>6. CASE Poke
  BY <1>6 DEF Poke, SettledInv, shared, local, Revision, Deleted
<1>7. CASE Outage \/ Tick \/ UNCHANGED vars
  <2>1. UNCHANGED <<obj, cache, upstream, ea, queued, pc, snip, content, reason>>
    BY <1>7 DEF Outage, Tick, vars, shared, local
  <2> QED
    BY <2>1 DEF SettledInv, Deleted, Live, SameSpec, Resolved, Revision, UpToDate, Target
<1> QED
  BY <1>1, <1>2, <1>3, <1>4, <1>5, <1>6, <1>7 DEF Environment

(* Whenever nothing is left to do, an active snippet has published and     *)
(* recorded what its spec and its source say, whatever edits, deletions,   *)
(* republishes, failures and crashes its reconciles met on the way         *)
(* (Reconcile, its two staleness gates, the watch predicates and requeues). *)
THEOREM AlwaysSettled == Spec => []Settled
<1>1. Init => SettledInv
  BY DEF Init, SettledInv, Publishing, Deleted, Created
<1>2. (TypeInv /\ RecordInv) /\ (TypeInv /\ RecordInv)' /\ SettledInv /\ [Next]_vars => SettledInv'
  BY OperatorKeepsSettled, EnvironmentKeepsSettled DEF TypeInv, Next
<1>3. SettledInv => Settled
  BY DEF SettledInv, Settled, Quiescent, UpToDate
<1> QED
  BY <1>1, <1>2, <1>3, RecordInvInvariant, PTL DEF Spec
-----------------------------------------------------------------------------
(* Nothing is left behind: a snippet without its finalizer has never       *)
(* published, its finalizer goes only with what it published, and once it  *)
(* is gone no copy of it can start a publish.                              *)

RunsOnBranch ==
  /\ pc \in {"idle", "finalizer"} <=> ~snip.finalizer
  /\ pc # "idle" => snip.present
  /\ pc \in WithdrawalSteps <=> Deleted(snip)
  /\ Deleted(snip) => Deleted(cache)
  /\ Deleted(cache) => Deleted(obj)

Unpublished ==
  obj.present /\ ~obj.finalizer =>
    /\ ~Deleted(obj) /\ ~cache.finalizer /\ ~snip.finalizer
    /\ ~ea.present /\ Stored(files) = {}

Withdrawn ==
  /\ pc = "delete" => ~ea.present /\ forced = "no"
  /\ pc = "unfinalize" /\ forced = "no" => ~ea.present /\ Stored(files) = {}
  /\ pc = "unfinalize" /\ forced = "salvaged" => Stored(files) = {}
  /\ pc = "announce" => ~obj.present /\ forced = drop.left
  /\ forced # "no" => pc \in {"salvage", "unfinalize", "announce"}

StaysGone ==
  ~obj.present =>
    /\ pc \in WithdrawalSteps \cup {"idle", "finalizer"}
    /\ cache.present /\ cache.finalizer => Deleted(cache)

(* Nothing is given up before the finalizer is gone.                       *)
Undropped == obj.present => drop = [left |-> "none", event |-> "none"]

OrphanInv == RunsOnBranch /\ Unpublished /\ Withdrawn /\ StaysGone /\ Undropped /\ NoOrphans

(* A step that leaves the object and what was published alone keeps all    *)
(* that, if the reconcile returns or goes on along its branch.             *)
LEMMA ReturnKeepsOrphanInv ==
  ASSUME OrphanInv, ClearLocals, pc # "announce", pc' = "idle", UNCHANGED <<cache, drop>>,
         ea'.present => ea.present, obj'.present = obj.present, obj'.deletionTimestamp = obj.deletionTimestamp,
         obj'.finalizer = obj.finalizer, Stored(files') \subseteq Stored(files)
  PROVE  OrphanInv'
BY DEF OrphanInv, RunsOnBranch, Unpublished, Withdrawn, StaysGone, Undropped, NoOrphans, WithdrawalSteps,
   Deleted, ClearLocals, Blank, Created, Stored

(* Every step of the operator keeps the account of what may remain.        *)
LEMMA OperatorKeepsOrphanInv ==
  ASSUME TypeInv, OrphanInv, Operator
  PROVE  OrphanInv'
<1> USE DEF WithdrawalSteps
<1>0. /\ obj \in Snippets /\ cache \in Snippets /\ snip \in Snippets
      /\ files \in [Revisions -> Nat \cup {NotStored}]
      /\ obj.present \in BOOLEAN /\ obj.finalizer \in BOOLEAN
      /\ cache.present \in BOOLEAN /\ cache.finalizer \in BOOLEAN
      /\ ea.present \in BOOLEAN
  BY DEF TypeInv, TypeOK, Snippets
<1>a. \A gone : Stored(Remove(files, gone)) = Stored(files) \ gone
  BY <1>0, RemoveType
<1>d. Stored(Remove(files, Revisions)) = {}
  <2>1. Stored(files) \subseteq Revisions
    BY <1>0 DEF Stored
  <2> QED
    BY <1>a, <2>1
<1>b. /\ RunsOnBranch /\ Unpublished /\ Withdrawn /\ StaysGone /\ Undropped /\ NoOrphans
      /\ ForcedIsSettled
  BY DEF OrphanInv, TypeInv
<1>c. Blank.deletionTimestamp = NotDeleted /\ Blank.finalizer = FALSE
  BY DEF Blank, Created
<1>1. CASE Reconcile
  <2>1. /\ UNCHANGED <<obj, cache, ea, files, forced, drop>> /\ pc = "idle"
        /\ pc' = Branch(cache) /\ snip' = IF Branch(cache) = "idle" THEN Blank ELSE cache
    BY <1>1 DEF Reconcile, shared
  <2>2. RunsOnBranch'
    BY <1>0, <1>b, <1>c, <2>1 DEF RunsOnBranch, Branch, Deleted
  <2>3. Unpublished'
    BY <1>0, <1>b, <1>c, <2>1 DEF Unpublished, Deleted
  <2>4. Withdrawn' /\ Undropped' /\ NoOrphans'
    BY <1>b, <2>1 DEF Withdrawn, Undropped, NoOrphans, Branch
  <2>5. StaysGone'
    BY <1>b, <2>1 DEF StaysGone, Branch, Deleted
  <2> QED
    BY <2>2, <2>3, <2>4, <2>5 DEF OrphanInv
<1>2. CASE AddFinalizer
  <2>1. CASE obj' = obj
    BY <1>2, <2>1, ReturnKeepsOrphanInv DEF AddFinalizer, Return
  <2>2. CASE obj' = [obj EXCEPT !.finalizer = TRUE] /\ NoConflict
    <3>1. /\ obj'.present = obj.present /\ obj.present /\ obj'.finalizer
          /\ obj'.deletionTimestamp = obj.deletionTimestamp
          /\ pc' = "idle" /\ ClearLocals /\ UNCHANGED <<cache, ea, files, drop>>
      BY <1>0, <1>2, <1>b, <2>2
         DEF AddFinalizer, NoConflict, RunsOnBranch, Return, Snippets
    <3>2. RunsOnBranch'
      BY <1>b, <1>c, <3>1 DEF RunsOnBranch, ClearLocals, Deleted
    <3> QED
      BY <3>1, <3>2 DEF OrphanInv, Unpublished, Withdrawn, StaysGone, Undropped, NoOrphans, ClearLocals
  <2> QED
    BY <1>2, <2>1, <2>2 DEF AddFinalizer
<1>3. CASE Suspended \/ Render \/ Gate \/ Put \/ Upsert \/ Prune \/ Sync
  <2>1. /\ obj' = obj /\ cache' = cache /\ drop' = drop
        /\ pc \in {"suspend", "render", "gate", "put", "upsert", "prune", "sync"}
    BY <1>3 DEF Suspended, Render, Gate, Put, Upsert, Prune, Sync, shared
  <2>2. obj.present /\ obj.finalizer
    BY <1>0, <1>b, <2>1 DEF RunsOnBranch, Unpublished, StaysGone
  <2>3. CASE pc' = "idle" /\ ClearLocals
    <3>1. RunsOnBranch'
      BY <1>b, <1>c, <2>1, <2>3 DEF RunsOnBranch, ClearLocals, Deleted
    <3> QED
      BY <2>1, <2>2, <2>3, <3>1
         DEF OrphanInv, Unpublished, Withdrawn, StaysGone, Undropped, NoOrphans, ClearLocals
  <2>4. CASE /\ pc' \in {"gate", "put", "upsert", "prune", "sync", "patch", "fail"}
             /\ UNCHANGED forced
             /\ snip' = snip \/ snip' = [snip EXCEPT !.generation = obj.generation]
    <3>1. /\ snip'.present = snip.present /\ snip'.finalizer = snip.finalizer
          /\ snip'.deletionTimestamp = snip.deletionTimestamp
      BY <1>0, <2>4 DEF Snippets
    <3>2. RunsOnBranch'
      BY <1>b, <2>1, <2>4, <3>1 DEF RunsOnBranch, Deleted
    <3> QED
      BY <1>b, <2>1, <2>2, <2>4, <3>2
         DEF OrphanInv, Unpublished, Withdrawn, StaysGone, Undropped, NoOrphans
  <2> QED
    BY <1>3, <2>3, <2>4 DEF Suspended, Render, Gate, Put, Upsert, Prune, Sync, Goto, Return
<1>4. CASE Patch \/ FailReady
  <2>1. /\ obj'.present = obj.present /\ obj'.deletionTimestamp = obj.deletionTimestamp
        /\ obj'.finalizer = obj.finalizer
    BY <1>0, <1>4 DEF Patch, FailReady, Failed, Recorded, Snippets
  <2> QED
    BY <1>4, <2>1, ReturnKeepsOrphanInv DEF Patch, FailReady, Return, Stored
<1>5. CASE Withdraw
  <2>0. ea' \in {ea, [present |-> FALSE, rev |-> NoRevision]}
    BY <1>5 DEF Withdraw
  <2>1. CASE pc' = "idle" /\ ClearLocals /\ UNCHANGED files
    BY <1>5, <2>0, <2>1, ReturnKeepsOrphanInv DEF Withdraw
  <2>2. CASE /\ pc' \in {"delete", "salvage"} /\ UNCHANGED <<snip, files>>
             /\ pc' = "delete" => ~ea'.present /\ forced' = forced
             /\ ea'.present => ea.present
             /\ forced' # "no" => pc' = "salvage"
    BY <1>5, <1>b, <2>2
       DEF Withdraw, OrphanInv, RunsOnBranch, Unpublished, Withdrawn, StaysGone, Undropped, NoOrphans, Deleted
  <2> QED
    BY <1>5, <1>b, <2>0, <2>1, <2>2 DEF Withdraw, WithdrawFailed, Goto, Return, Withdrawn
<1>6. CASE DeleteStored
  <2>1. Stored(files') \subseteq Stored(files)
    BY <1>6, <1>a DEF DeleteStored
  <2>2. CASE pc' = "idle" /\ ClearLocals
    BY <1>6, <2>1, <2>2, ReturnKeepsOrphanInv DEF DeleteStored
  <2>3. CASE /\ pc' \in {"unfinalize", "salvage"} /\ UNCHANGED snip
             /\ pc' = "unfinalize" => Stored(files') = {} /\ forced' = forced
    <3>1. UNCHANGED <<obj, cache, ea, drop>> /\ pc = "delete"
      BY <1>6 DEF DeleteStored
    <3>2. Unpublished' /\ Undropped' /\ NoOrphans'
      BY <1>b, <2>1, <2>3, <3>1 DEF Unpublished, Undropped, NoOrphans, Deleted, Stored
    <3>3. Withdrawn'
      BY <1>b, <2>3, <3>1 DEF Withdrawn, Stored
    <3> QED
      BY <1>b, <2>3, <3>1, <3>2, <3>3 DEF OrphanInv, RunsOnBranch, StaysGone, Deleted
  <2> QED
    BY <1>6, <1>d, <2>2, <2>3 DEF DeleteStored, WithdrawFailed, Goto, Return
<1>7. CASE Salvage
  <2>1. /\ Stored(files') \subseteq Stored(files)
        /\ \/ forced' = "salvaged" /\ Stored(files') = {}
           \/ forced' = "orphaned"
    BY <1>7, <1>a, <1>d DEF Salvage
  <2>2. UNCHANGED <<obj, cache, ea, snip, drop>> /\ pc = "salvage" /\ pc' = "unfinalize"
    BY <1>7 DEF Salvage, Goto
  <2>3. Unpublished' /\ Undropped' /\ NoOrphans'
    BY <1>b, <2>1, <2>2 DEF Unpublished, Undropped, NoOrphans, Deleted, Stored
  <2>4. Withdrawn'
    BY <2>1, <2>2 DEF Withdrawn, Stored
  <2> QED
    BY <1>b, <2>2, <2>3, <2>4 DEF OrphanInv, RunsOnBranch, StaysGone, Deleted
<1>8. CASE RemoveFinalizer
  <2>1. CASE UNCHANGED <<obj, drop>> /\ pc' = "idle" /\ ClearLocals
    BY <1>8, <2>1, ReturnKeepsOrphanInv DEF RemoveFinalizer, Stored
  <2>2. CASE NoConflict /\ obj' = [obj EXCEPT !.finalizer = FALSE, !.present = FALSE]
    <3>1. /\ ~obj'.present /\ obj'.deletionTimestamp = obj.deletionTimestamp
          /\ pc = "unfinalize" /\ UNCHANGED <<cache, ea, files>>
      BY <1>0, <1>8, <2>2 DEF RemoveFinalizer, Snippets
    <3>2. /\ forced \in {"no", "salvaged", "orphaned"}
          /\ forced = "no" => ~ea.present /\ Stored(files) = {}
          /\ forced = "salvaged" => Stored(files) = {}
          /\ drop = [left |-> "none", event |-> "none"]
      BY <1>b, <2>2, <3>1 DEF TypeInv, TypeOK, ForcedIsSettled, Withdrawn, Undropped, NoConflict,
         RunsOnBranch
    <3>3. \/ pc' = "idle" /\ ClearLocals
          \/ pc' = "announce" /\ forced # "no" /\ UNCHANGED <<snip, forced>>
      BY <1>8, <2>2 DEF RemoveFinalizer, Goto, Return
    <3>4. \/ drop' = drop /\ forced = "no"
          \/ drop'.left = forced /\ forced # "no" /\ (pc' = "idle" => drop'.event = "lost")
      <4>1. \/ forced = "no" /\ drop' = drop
            \/ forced # "no" /\ pc' = "announce" /\ drop' = [drop EXCEPT !.left = forced]
            \/ forced # "no" /\ drop' = [left |-> forced, event |-> "lost"]
        <5>1. CASE forced = "no"
          BY <1>0, <1>8, <2>2, <3>1, <5>1 DEF RemoveFinalizer, Snippets
        <5>2. CASE forced # "no"
          <6>1. \/ drop' = [drop EXCEPT !.left = forced] /\ Goto("announce")
                \/ drop' = [left |-> forced, event |-> "lost"]
                \/ obj' = obj
            BY <1>8, <5>2 DEF RemoveFinalizer
          <6>2. obj' # obj
            BY <1>b, <3>1, <2>2 DEF NoConflict, RunsOnBranch, Branch
          <6> QED
            BY <5>2, <6>1, <6>2 DEF Goto
        <5> QED
          BY <5>1, <5>2
      <4> QED
        BY <3>2, <4>1
    <3>5. RunsOnBranch'
      BY <1>b, <1>c, <3>1, <3>3 DEF RunsOnBranch, ClearLocals, Deleted
    <3>6. Deleted(cache)
      BY <1>b, <3>1 DEF RunsOnBranch
    <3>7. NoOrphans' /\ Withdrawn' /\ Undropped'
      BY <3>1, <3>2, <3>3, <3>4 DEF NoOrphans, Withdrawn, Undropped, Stored, ClearLocals
    <3> QED
      BY <3>1, <3>3, <3>5, <3>6, <3>7 DEF OrphanInv, Unpublished, StaysGone, Deleted
  <2> QED
    BY <1>8, <2>1, <2>2 DEF RemoveFinalizer, Return
<1>9. CASE Announce
  <2>1. /\ UNCHANGED <<obj, cache, ea, files>> /\ pc = "announce" /\ pc' = "idle" /\ ClearLocals
        /\ drop' = [drop EXCEPT !.event = forced]
    BY <1>9 DEF Announce, Return, shared
  <2>2. ~obj.present /\ drop'.left = drop.left /\ drop'.event = drop.left
    BY <1>b, <2>1 DEF Withdrawn, TypeInv, TypeOK
  <2>3. RunsOnBranch'
    BY <1>b, <1>c, <2>1 DEF RunsOnBranch, ClearLocals, Deleted
  <2> QED
    BY <1>b, <2>1, <2>2, <2>3 DEF OrphanInv, Unpublished, Withdrawn, StaysGone, Undropped, NoOrphans,
       ClearLocals, Stored
<1> QED
  BY <1>1, <1>2, <1>3, <1>4, <1>5, <1>6, <1>7, <1>8, <1>9 DEF Operator

(* So does every step of everybody else.                                   *)
LEMMA EnvironmentKeepsOrphanInv ==
  ASSUME TypeInv, OrphanInv, Environment \/ UNCHANGED vars
  PROVE  OrphanInv'
<1> USE DEF WithdrawalSteps, OrphanInv
<1>0. obj \in Snippets /\ obj.present \in BOOLEAN /\ obj.finalizer \in BOOLEAN /\ now # NotDeleted
  BY DEF TypeInv, TypeOK, Snippets, NotDeleted
<1>1. CASE EditSpec
  <2>1. /\ obj'.present = obj.present /\ obj'.deletionTimestamp = obj.deletionTimestamp
        /\ obj'.finalizer = obj.finalizer
    BY <1>0, <1>1 DEF EditSpec, Snippets
  <2> QED
    BY <1>1, <2>1 DEF EditSpec, local, RunsOnBranch, Unpublished, Withdrawn, StaysGone, Undropped, NoOrphans,
       Deleted, Stored
<1>2. CASE RequestDelete
  <2>1. /\ UNCHANGED <<cache, ea, files, pc, snip, forced, drop>>
        /\ obj.present /\ ~Deleted(obj)
    BY <1>2 DEF RequestDelete, local, Deleted
  <2>2. CASE obj.finalizer
    <3>1. obj'.present /\ obj'.finalizer /\ Deleted(obj')
      BY <1>0, <1>2, <2>1, <2>2 DEF RequestDelete, Deleted, Snippets
    <3> QED
      BY <2>1, <3>1 DEF RunsOnBranch, Unpublished, Withdrawn, StaysGone, Undropped, NoOrphans, Deleted
  <2>3. CASE ~obj.finalizer
    <3>1. ~obj'.present /\ ~obj'.finalizer /\ obj'.deletionTimestamp = obj.deletionTimestamp
      BY <1>0, <1>2, <2>3 DEF RequestDelete, Snippets
    <3> QED
      BY <2>1, <2>3, <3>1 DEF RunsOnBranch, Unpublished, Withdrawn, StaysGone, Undropped, NoOrphans, Deleted,
         Stored
  <2> QED
    BY <1>0, <2>2, <2>3
<1>3. CASE CacheSync
  BY <1>3 DEF CacheSync, local, RunsOnBranch, Unpublished, Withdrawn, StaysGone, Undropped, NoOrphans, Deleted,
     Stored
<1>4. CASE Crash
  <2>1. Blank.deletionTimestamp = NotDeleted /\ Blank.finalizer = FALSE
    BY DEF Blank, Created
  <2> QED
    BY <1>0, <1>4, <2>1 DEF Crash, TypeInv, TypeOK, ClearLocals, RunsOnBranch, Unpublished, Withdrawn, StaysGone, Undropped, NoOrphans,
       Deleted, Stored
<1>5. CASE SourceChanges \/ Poke \/ Outage \/ Tick \/ UNCHANGED vars
  <2>1. UNCHANGED <<obj, cache, ea, files, pc, snip, forced, drop>>
    BY <1>5 DEF SourceChanges, Poke, Outage, Tick, vars, shared, local
  <2> QED
    BY <2>1 DEF RunsOnBranch, Unpublished, Withdrawn, StaysGone, Undropped, NoOrphans, Deleted, Stored
<1> QED
  BY <1>1, <1>2, <1>3, <1>4, <1>5 DEF Environment

(* A snippet that is gone leaves no tarball and no ExternalArtifact except *)
(* what a forced drop gave up, and unless a crash or a lost answer came    *)
(* between, the WithdrawForced event reports just that, however failures,  *)
(* conflicts, crashes and a stale cache cut the withdrawal short           *)
(* (reconcileDelete, forceDropFinalizer, and the finalizer's own order).   *)
THEOREM NeverOrphans == Spec => []NoOrphans
<1>1. Init => OrphanInv
  <2> SUFFICES ASSUME Init PROVE OrphanInv
    OBVIOUS
  <2>1. Stored(files) = {}
    BY DEF Init, Stored
  <2> QED
    BY <2>1 DEF Init, Created, Blank, OrphanInv, RunsOnBranch, Unpublished, Withdrawn, StaysGone,
       Undropped, NoOrphans, WithdrawalSteps, Deleted
<1>2. TypeInv /\ OrphanInv /\ [Next]_vars => OrphanInv'
  BY OperatorKeepsOrphanInv, EnvironmentKeepsOrphanInv DEF Next
<1>3. OrphanInv => NoOrphans
  BY DEF OrphanInv
<1> QED
  BY <1>1, <1>2, <1>3, TypeInvInvariant, PTL DEF Spec

-----------------------------------------------------------------------------
(* The grace a consumer has.                                               *)
(*                                                                         *)
(* It is measured from the Put of the next revision, so it is the whole    *)
(* grace only if the ExternalArtifact moves with the Put: no time between  *)
(* the two, and an upsert that goes through.                               *)

PromptUpserts ==
  /\ Faults \cap {"tenant", "denied", "crash"} = {} /\ "tenant" \notin Outages
  /\ "upsert" \notin SlowSteps

ClockInv ==
  /\ down \subseteq {"store"}
  /\ Live => \A r \in Revisions : files[r] <= now

(* The published tarball is the newest, but for one that is about to be    *)
(* published and was written this instant.                                 *)
NewestInv ==
  /\ Live /\ pc = "upsert" => \A r \in Stored(files) : files[r] <= files[Revision]
  /\ Live /\ ea.rev # NoRevision =>
       \A r \in Stored(files) : files[r] > files[ea.rev] => pc = "upsert" /\ files[r] = now

(* What is about to take the place of another revision was written this    *)
(* instant: it is new, or was stamped again.                               *)
StampedInv ==
  Live /\ pc = "upsert" /\ ea.rev \notin {NoRevision, Revision} => files[Revision] = now

(* Nothing newer than the pinned revision was written before the pin, and  *)
(* nothing that was published since and is not newer.                      *)
PinInv ==
  pin # NoPin =>
    /\ pin.rev \in Revisions /\ pin.at \in Nat /\ pin.at <= now
    /\ Live => ea.rev # NoRevision
    /\ Live /\ now - pin.at < GCGrace =>
         /\ pin.rev \in Stored(files)
         /\ \A r \in Stored(files) : files[r] > files[pin.rev] => files[r] >= pin.at
         /\ ea.rev # pin.rev /\ files[ea.rev] = files[pin.rev] => files[ea.rev] >= pin.at

(* What a step can do to the tarballs and to what consumers are shown.     *)
PutStep ==
  /\ files' \in {PutRevision(files, Revision, now), [files EXCEPT ![Revision] = now]}
  /\ pc = "put" /\ pc' = "upsert" /\ Revision' = Revision /\ UNCHANGED <<ea, now>>

UpsertStep ==
  /\ pc = "upsert" /\ pc' # "upsert" /\ ea'.rev = Revision /\ UNCHANGED <<files, now>>

PruneStep ==
  /\ pc = "prune" /\ pc' # "upsert" /\ UNCHANGED <<ea, now>>
  /\ \E gone \in SUBSET PruneVictims(files, PruneKeep, now, GCGrace) : files' = Remove(files, gone)

OtherStep ==
  /\ UNCHANGED <<files, ea>> /\ now' \in {now, now + 1}
  /\ pc = "upsert" => now' = now
  /\ pc = "upsert" \/ pc' = "upsert" => pc' = pc /\ Revision' = Revision

(* While the snippet lives, the upserts go through and no age is misjudged, *)
(* there is no other.                                                      *)
LEMMA StepKinds ==
  ASSUME Backend = "local", PromptUpserts, TypeOK, DeletionRecorded, ClockInv, [Next]_vars,
         ~Misjudged
  PROVE  /\ down' \subseteq {"store"} /\ (Live' => Live)
         /\ ~ Live' \/ PutStep \/ UpsertStep \/ PruneStep \/ OtherStep
<1> USE DEF Revision, Goto, Return
<1>0. /\ obj \in Snippets /\ ~ Fails("tenant") /\ ~ Fails("denied") /\ pc # "suspend"
      /\ down \subseteq {"store"}
  BY DEF TypeOK, ClockInv, Fails, PromptUpserts, DeletionRecorded
<1>1. CASE Reconcile
  BY <1>0, <1>1 DEF Reconcile, Branch, shared, Live, OtherStep
<1>2. CASE AddFinalizer \/ RemoveFinalizer
  BY <1>0, <1>2 DEF AddFinalizer, RemoveFinalizer, Live, OtherStep, Snippets
<1>16. CASE Announce
  BY <1>0, <1>16 DEF Announce, shared, Live, OtherStep
<1>3. CASE Suspended
  BY <1>0, <1>3 DEF Suspended
<1>4. CASE Render \/ Gate \/ Sync
  BY <1>0, <1>4 DEF Render, Gate, Sync, shared, Live, OtherStep
<1>5. CASE Put
  <2>1. UNCHANGED <<obj, down, ea, now>> /\ pc = "put"
    BY <1>5 DEF Put
  <2>2. CASE /\ files' \in {StorePut} \cup PutMisread(files, Revision, now)
             /\ pc' = "upsert" /\ UNCHANGED <<snip, content>>
    <3>1. files' \in {files, StorePut, [files EXCEPT ![Revision] = now]}
      BY <2>2 DEF PutMisread, TypeOK
    <3>2. files' = files => files = StorePut
      BY <2>1, <2>2 DEF Misjudged
    <3> QED
      BY <1>0, <2>1, <2>2, <3>1, <3>2 DEF StorePut, PutStep, Live
  <2>3. CASE UNCHANGED files /\ pc' = "idle"
    BY <1>0, <2>1, <2>3 DEF OtherStep, Live
  <2> QED
    BY <1>5, <2>2, <2>3 DEF Put
<1>6. CASE Upsert
  <2>1. pc = "upsert" /\ pc' = "prune" /\ ea'.rev = Revision /\ UNCHANGED <<obj, files, now, down>>
    BY <1>0, <1>6 DEF Upsert
  <2> QED
    BY <1>0, <2>1 DEF UpsertStep, Live
<1>7. CASE Prune
  <2>1. pc = "prune" /\ pc' \in {"sync", "idle"} /\ UNCHANGED <<obj, ea, now, down>>
    BY <1>7 DEF Prune
  <2>2. \E gone \in SUBSET PruneVictims(files, PruneKeep, now, GCGrace) :
          files' = Remove(files, gone)
    <3>1. PICK gone \in SUBSET (Stored(files) \ PruneKeep) : files' = Remove(files, gone)
      BY <1>7, PruneRemoves DEF Prune, TypeOK
    <3>2. gone = Stored(files) \ Stored(files')
      BY <3>1, RemoveType DEF TypeOK
    <3>3. gone \subseteq PruneVictims(files, PruneKeep, now, GCGrace)
      BY <2>1, <3>2 DEF Misjudged
    <3> QED
      BY <3>1, <3>3
  <2> QED
    BY <1>0, <2>1, <2>2 DEF PruneStep, Live
<1>8. CASE Patch \/ FailReady
  BY <1>0, <1>8 DEF Patch, FailReady, Failed, Recorded, Live, OtherStep, Snippets
<1>9. CASE Withdraw \/ DeleteStored \/ Salvage
  BY <1>0, <1>9 DEF Withdraw, DeleteStored, Salvage, DeletionRecorded, WithdrawalSteps, Deleted, Live
<1>10. CASE EditSpec
  BY <1>0, <1>10 DEF EditSpec, Live, OtherStep, local, Snippets
<1>11. CASE RequestDelete
  BY <1>0, <1>11 DEF RequestDelete, Live, OtherStep, local
<1>12. CASE Crash
  BY <1>12 DEF Crash, PromptUpserts
<1>13. CASE Outage
  BY <1>0, <1>13, ConstantsAssumption DEF Outage, PromptUpserts, shared, local, Live, OtherStep
<1>14. CASE Tick
  BY <1>0, <1>14 DEF Tick, PromptUpserts, local, Live, OtherStep
<1>15. CASE SourceChanges \/ CacheSync \/ Poke \/ UNCHANGED vars
  BY <1>0, <1>15 DEF SourceChanges, CacheSync, Poke, vars, shared, local, Live, OtherStep
<1> QED
  BY <1>1, <1>2, <1>3, <1>4, <1>5, <1>6, <1>7, <1>8, <1>9, <1>10, <1>11, <1>12, <1>13, <1>14, <1>15, <1>16
  DEF Next, Operator, Environment

(* Only the clock moves the clock.                                         *)
LEMMA NextClock == [Next]_vars => now' \in {now, now + 1}
BY DEF Next, Operator, Environment, vars, shared, Reconcile, AddFinalizer, Suspended, Render,
   Gate, Put, Upsert, Prune, Sync, Patch, FailReady, Withdraw, DeleteStored, Salvage,
   RemoveFinalizer, Announce, EditSpec, SourceChanges, RequestDelete, CacheSync, Poke, Crash, Outage, Tick

(* Removed tarballs are gone, the others keep their mtime.                 *)
LEMMA RemoveKeepsTimes ==
  ASSUME TypeOK, NEW gone, files' = Remove(files, gone)
  PROVE  /\ Stored(files') = Stored(files) \ gone
         /\ \A r \in Revisions : files'[r] = IF r \in gone THEN NotStored ELSE files[r]
BY DEF TypeOK, Remove, Stored

(* A Put stamps its revision with the present, or leaves the newest.       *)
LEMMA PutTimes ==
  ASSUME TypeOK, Revision \in Revisions,
         files' \in {PutRevision(files, Revision, now), [files EXCEPT ![Revision] = now]}
  PROVE  /\ \A r \in Revisions \ {Revision} : files'[r] = files[r]
         /\ Stored(files') = Stored(files) \cup {Revision}
         /\ \/ files'[Revision] = now
            \/ /\ files' = files /\ Revision \in Stored(files)
               /\ \A r \in Stored(files) : files[r] <= files[Revision]
<1>1. now \in Nat /\ files \in [Revisions -> Nat \cup {NotStored}]
  BY DEF TypeOK
<1>2. CASE /\ files' = PutRevision(files, Revision, now)
           /\ Revision \in Stored(files) /\ ~ HasNewerSibling(files, Revision)
  <2>1. files' = files
    BY <1>2 DEF PutRevision
  <2>2. \A r \in Stored(files) : files[r] <= files[Revision]
    <3>1. \A r \in Stored(files) : files[r] \in Nat /\ r \in Revisions
      BY <1>1 DEF Stored
    <3>2. \A r \in Stored(files) \ {Revision} : ~ (files[r] > files[Revision])
      BY <1>2 DEF HasNewerSibling
    <3> QED
      BY <1>2, <3>1, <3>2
  <2> QED
    BY <1>2, <2>1, <2>2
<1>3. CASE ~ (/\ files' = PutRevision(files, Revision, now)
              /\ Revision \in Stored(files) /\ ~ HasNewerSibling(files, Revision))
  <2>1. files' = [files EXCEPT ![Revision] = now]
    BY <1>3 DEF PutRevision
  <2> QED
    BY <1>1, <2>1 DEF Stored, NotStored
<1> QED
  BY <1>2, <1>3

(* No tarball is younger than the clock.                                   *)
LEMMA ClockStep ==
  ASSUME Backend = "local", PromptUpserts, TypeOK, DeletionRecorded, ClockInv, [Next]_vars,
         ~Misjudged
  PROVE  ClockInv'
<1> SUFFICES ASSUME Live' PROVE \A r \in Revisions : files'[r] <= now'
  BY StepKinds DEF ClockInv
<1>0. /\ now \in Nat /\ files \in [Revisions -> Nat \cup {NotStored}] /\ Revision \in Revisions
      /\ \A r \in Revisions : files[r] <= now
  BY ConstantsAssumption, StepKinds DEF TypeOK, Snippets, Revision, Revisions, ClockInv
<1>1. CASE PutStep
  BY <1>0, <1>1, PutTimes DEF PutStep
<1>2. CASE PruneStep
  <2>1. PICK gone : files' = Remove(files, gone)
    BY <1>2 DEF PruneStep
  <2> QED
    BY <1>0, <1>2, <2>1, RemoveKeepsTimes DEF PruneStep, NotStored
<1>3. CASE UpsertStep \/ OtherStep
  <2>1. files' = files /\ now' \in {now, now + 1}
    BY <1>3 DEF UpsertStep, OtherStep
  <2> QED
    BY <1>0, <2>1 DEF NotStored
<1> QED
  BY <1>1, <1>2, <1>3, StepKinds

(* The published tarball stays the newest.                                 *)
LEMMA NewestStep ==
  ASSUME Backend = "local", PromptUpserts, TypeOK, DeletionRecorded, PublishedHeld,
         ClockInv, NewestInv, [Next]_vars, ~Misjudged
  PROVE  NewestInv'
<1> SUFFICES ASSUME Live' PROVE NewestInv'
  BY DEF NewestInv
<1>0. /\ now \in Nat /\ files \in [Revisions -> Nat \cup {NotStored}] /\ Revision \in Revisions
      /\ \A r \in Revisions : files[r] <= now
      /\ Live
      /\ \A f : Stored(f) \subseteq DOMAIN f
  BY ConstantsAssumption, StepKinds DEF TypeOK, Snippets, Revision, Revisions, ClockInv, Stored
<1>1. /\ ea.rev # NoRevision => ea.rev \in Stored(files)
      /\ ea.rev # NoRevision =>
           \A r \in Stored(files) : files[r] > files[ea.rev] => pc = "upsert" /\ files[r] = now
  BY <1>0 DEF PublishedHeld, ArtifactServed, NewestInv
<1>2. CASE PutStep
  <2>0. /\ pc = "put" /\ pc' = "upsert" /\ Revision' = Revision /\ UNCHANGED <<ea, now>>
        /\ Stored(files') = Stored(files) \cup {Revision} /\ Stored(files) \subseteq Revisions
        /\ \A r \in Revisions \ {Revision} : files'[r] = files[r]
        /\ \/ files'[Revision] = now
           \/ /\ files' = files
              /\ \A r \in Stored(files) : files[r] <= files[Revision]
    BY <1>0, <1>2, PutTimes DEF PutStep
  <2>1. \A r \in Stored(files') : files'[r] <= files'[Revision]
    BY <1>0, <2>0
  <2>2. ASSUME ea.rev # NoRevision, NEW r \in Stored(files'), files'[r] > files'[ea.rev]
        PROVE  files'[r] = now
    <3>1. /\ ea.rev \in Stored(files) /\ ea.rev \in Revisions
          /\ \A q \in Stored(files) : ~ (files[q] > files[ea.rev])
      BY <1>1, <2>0, <2>2
    <3>2. CASE files' = files
      BY <1>0, <2>0, <2>2, <3>1, <3>2
    <3>3. CASE files'[Revision] = now
      <4>1. CASE r = Revision
        BY <3>3, <4>1
      <4>2. ~ (r # Revision /\ ea.rev # Revision)
        <5> SUFFICES ASSUME r # Revision, ea.rev # Revision PROVE FALSE
          OBVIOUS
        <5>1. r \in Stored(files) /\ r \in Revisions
          BY <2>0
        <5>2. files'[r] = files[r] /\ files'[ea.rev] = files[ea.rev]
          BY <2>0, <3>1, <5>1
        <5> QED
          BY <2>2, <3>1, <5>1, <5>2
      <4>3. CASE r # Revision /\ ea.rev = Revision
        <5>1. r \in Revisions /\ files'[r] = files[r] /\ files[r] <= now
          BY <1>0, <2>0, <4>3
        <5>2. now \in Int /\ files[r] \in Int
          BY <1>0, <5>1 DEF NotStored
        <5>3. ~ (files[r] > now)
          BY <5>1, <5>2
        <5> QED
          BY <2>2, <3>3, <4>3, <5>1, <5>3
      <4> QED
        BY <4>1, <4>2, <4>3
    <3> QED
      BY <2>0, <3>2, <3>3
  <2> QED
    BY <2>0, <2>1, <2>2 DEF NewestInv
<1>3. CASE UpsertStep
  <2>1. \A r \in Stored(files) : files[r] <= files[Revision]
    BY <1>0, <1>3 DEF UpsertStep, NewestInv
  <2>2. \A r \in Stored(files) : files[r] \in Nat /\ files[Revision] \in Int
    BY <1>0 DEF Stored, NotStored
  <2>3. \A r \in Stored(files) : ~ (files[r] > files[Revision])
    BY <2>1, <2>2
  <2> QED
    BY <1>3, <2>3 DEF UpsertStep, NewestInv
<1>4. CASE PruneStep
  <2>1. pc = "prune" /\ pc' # "upsert" /\ ea' = ea
    BY <1>4 DEF PruneStep
  <2>2. PICK gone \in SUBSET PruneVictims(files, PruneKeep, now, GCGrace) : files' = Remove(files, gone)
    BY <1>4 DEF PruneStep
  <2>3. ea.rev \notin gone
    BY <2>1, <2>2 DEF PublishedHeld, PruneVictims, PruneKeep
  <2>4. /\ Stored(files') \subseteq Stored(files)
        /\ \A r \in Stored(files') : files'[r] = files[r]
        /\ ea.rev # NoRevision => files'[ea.rev] = files[ea.rev]
    BY <1>0, <1>1, <2>2, <2>3, RemoveKeepsTimes
  <2>5. ea.rev # NoRevision => \A r \in Stored(files) : ~ (files[r] > files[ea.rev])
    BY <1>1, <2>1
  <2> QED
    BY <2>1, <2>4, <2>5 DEF NewestInv
<1>5. CASE OtherStep
  <2>1. /\ UNCHANGED <<files, ea>>
        /\ pc = "upsert" => now' = now
        /\ pc = "upsert" \/ pc' = "upsert" => pc' = pc /\ Revision' = Revision
    BY <1>5 DEF OtherStep
  <2> QED
    BY <1>0, <2>1 DEF NewestInv
<1> QED
  BY <1>2, <1>3, <1>4, <1>5, StepKinds

(* A revision that takes another's place has been stamped: were it left as *)
(* it is, it would tie with the one it replaces.                           *)
LEMMA StampedStep ==
  ASSUME Backend = "local", PromptUpserts, TypeOK, DeletionRecorded, PublishedHeld,
         ClockInv, NewestInv, StampedInv, [Next]_vars, ~TiedRevert, ~Misjudged
  PROVE  StampedInv'
<1> SUFFICES ASSUME Live', pc' = "upsert", ea'.rev # NoRevision, ea'.rev # Revision'
             PROVE  files'[Revision'] = now'
  BY DEF StampedInv
<1>0. Live /\ Revision \in Revisions /\ files \in [Revisions -> Nat \cup {NotStored}]
  BY ConstantsAssumption, StepKinds DEF TypeOK, Snippets, Revision, Revisions
<1>1. CASE PutStep
  <2>1. /\ pc = "put" /\ pc' = "upsert" /\ Revision' = Revision /\ UNCHANGED <<ea, now>>
        /\ \/ files'[Revision] = now
           \/ /\ files' = files /\ Revision \in Stored(files)
              /\ \A r \in Stored(files) : files[r] <= files[Revision]
    BY <1>0, <1>1, PutTimes DEF PutStep
  <2>2. ~ (/\ Revision \in Stored(files)
           /\ \A r \in Stored(files) : files[r] <= files[Revision])
    <3> SUFFICES ASSUME Revision \in Stored(files),
                        \A r \in Stored(files) : files[r] <= files[Revision]
                 PROVE  FALSE
      OBVIOUS
    <3>1. \A r \in Stored(files) : files[r] \in Nat
      BY <1>0 DEF Stored
    <3>2. ea.rev \in Stored(files) /\ ~ (files[Revision] > files[ea.rev])
      BY <1>0, <2>1 DEF PublishedHeld, ArtifactServed, NewestInv
    <3>3. files[ea.rev] = files[Revision]
      BY <3>1, <3>2
    <3>4. ~ HasNewerSibling(files, Revision)
      BY <3>1 DEF HasNewerSibling
    <3> QED
      BY <2>1, <3>2, <3>3, <3>4 DEF TiedRevert
  <2> QED
    BY <2>1, <2>2
<1>2. CASE OtherStep
  BY <1>0, <1>2 DEF OtherStep, StampedInv
<1>3. CASE UpsertStep \/ PruneStep
  BY <1>3 DEF UpsertStep, PruneStep
<1> QED
  BY <1>1, <1>2, <1>3, StepKinds

(* Neither a bump nor a Prune takes a pinned revision from its consumer.   *)
LEMMA PinStep ==
  ASSUME Backend = "local", PromptUpserts, TypeOK, DeletionRecorded, PublishedHeld,
         ClockInv, NewestInv, StampedInv, PinInv, [Next]_vars, ~Misjudged, pin' = pin
  PROVE  PinInv'
<1> SUFFICES ASSUME pin # NoPin PROVE PinInv'
  BY DEF PinInv
<1>0. /\ now \in Nat /\ now' \in Nat /\ now <= now'
      /\ files \in [Revisions -> Nat \cup {NotStored}] /\ Revision \in Revisions
      /\ GCGrace \in Nat
      /\ pin.rev \in Revisions /\ pin.at \in Nat /\ pin.at <= now
  <2>1. now \in Nat /\ now' \in {now, now + 1}
    BY NextClock DEF TypeOK
  <2>2. now' \in Nat /\ now <= now'
    BY <2>1
  <2>3. files \in [Revisions -> Nat \cup {NotStored}] /\ Revision \in Revisions
    BY ConstantsAssumption DEF TypeOK, Snippets, Revision, Revisions
  <2>4. pin.rev \in Revisions /\ pin.at \in Nat /\ pin.at <= now
    BY DEF PinInv
  <2> QED
    BY <2>1, <2>2, <2>3, <2>4, ConstantsAssumption
<1>1. pin.at <= now'
  BY <1>0
<1>a. ASSUME Live'
      PROVE  Live /\ ea.rev # NoRevision /\ ea'.rev # NoRevision
             /\ (ea'.rev = ea.rev \/ UpsertStep)
  <2>1. Live /\ ea.rev # NoRevision /\ Revision # NoRevision
    BY <1>a, StepKinds DEF PinInv, Revision, NoRevision
  <2> QED
    BY <1>a, <2>1, StepKinds DEF PutStep, UpsertStep, PruneStep, OtherStep
<1> SUFFICES ASSUME Live', now' - pin.at < GCGrace
             PROVE  /\ pin.rev \in Stored(files')
                    /\ \A r \in Stored(files') : files'[r] > files'[pin.rev] => files'[r] >= pin.at
                    /\ ea'.rev # pin.rev /\ files'[ea'.rev] = files'[pin.rev] =>
                         files'[ea'.rev] >= pin.at
  BY <1>0, <1>1, <1>a DEF PinInv
<1>2. Live /\ now - pin.at < GCGrace
  <2>1. \A a, b, c, g \in Nat : a <= b /\ b - c < g => a - c < g
    OBVIOUS
  <2> QED
    BY <1>0, <2>1, StepKinds
<1>3. /\ pin.rev \in Stored(files)
      /\ \A r \in Stored(files) : files[r] > files[pin.rev] => files[r] >= pin.at
      /\ \A r \in Revisions : files[r] <= now
      /\ ea.rev # pin.rev /\ files[ea.rev] = files[pin.rev] => files[ea.rev] >= pin.at
      /\ ea.rev \in Stored(files)
  BY <1>2, <1>a DEF PinInv, ClockInv, PublishedHeld, ArtifactServed
<1>4. \A r \in Stored(files) : r \in Revisions /\ files[r] \in Nat
  BY <1>0 DEF Stored
<1>5. CASE PutStep
  <2>0. /\ Stored(files') = Stored(files) \cup {Revision}
        /\ \A r \in Revisions \ {Revision} : files'[r] = files[r]
        /\ files'[Revision] = now \/ files' = files
        /\ ea' = ea
    BY <1>0, <1>5, PutTimes DEF PutStep
  <2>1. CASE files' = files
    BY <1>3, <2>0, <2>1
  <2>2. CASE files'[Revision] = now
    <3>1. ASSUME NEW r \in Stored(files'), files'[r] > files'[pin.rev]
          PROVE  files'[r] >= pin.at
      <4>1. CASE r = Revision
        BY <1>0, <2>2, <4>1
      <4>2. CASE r # Revision
        <5>1. r \in Stored(files) /\ files'[r] = files[r] /\ files[r] \in Nat /\ files[r] <= now
          BY <1>3, <1>4, <2>0, <4>2
        <5>2. pin.rev # Revision
          BY <1>0, <2>2, <3>1, <5>1
        <5>3. files'[pin.rev] = files[pin.rev]
          BY <1>0, <2>0, <5>2
        <5> QED
          BY <1>3, <3>1, <5>1, <5>3
      <4> QED
        BY <4>1, <4>2
    <3>2. ASSUME ea.rev # pin.rev, files'[ea.rev] = files'[pin.rev]
          PROVE  files'[ea.rev] >= pin.at
      <4>1. CASE ea.rev = Revision \/ pin.rev = Revision
        BY <1>0, <2>2, <3>2, <4>1
      <4>2. CASE ea.rev # Revision /\ pin.rev # Revision
        BY <1>0, <1>3, <1>4, <2>0, <3>2, <4>2
      <4> QED
        BY <4>1, <4>2
    <3> QED
      BY <1>3, <2>0, <3>1, <3>2
  <2> QED
    BY <2>0, <2>1, <2>2
<1>6. CASE PruneStep
  <2>1. PICK gone \in SUBSET PruneVictims(files, PruneKeep, now, GCGrace) : files' = Remove(files, gone)
    BY <1>6 DEF PruneStep
  <2>2. pin.rev \notin gone
    <3> SUFFICES ASSUME pin.rev \in gone PROVE FALSE
      OBVIOUS
    <3>1. /\ pin.rev \notin PruneKeep
          /\ GCGrace > 0 => now - SupersededAt(files, pin.rev) >= GCGrace
      BY <2>1 DEF PruneVictims
    <3>2. GCGrace > 0
      BY <1>0, <1>2
    <3>3. /\ ea.rev # NoRevision /\ ea.rev \in Stored(files) /\ ea.rev # pin.rev
      <4>1. ea.rev = Revision /\ Revision \in PruneKeep /\ Revision # NoRevision
        BY <1>6 DEF PruneStep, PublishedHeld, PruneKeep, Revision, NoRevision
      <4> QED
        BY <1>2, <3>1, <4>1 DEF PublishedHeld, ArtifactServed
    <3>4. ~ (files[pin.rev] > files[ea.rev])
      BY <1>2, <1>3, <1>6, <3>3 DEF PruneStep, NewestInv
    <3>5. PICK t \in Nat : SupersededAt(files, pin.rev) = t /\ t >= pin.at
      <4>1. CASE files[ea.rev] = files[pin.rev]
        <5>1. \A r \in Stored(files) : ~ (files[r] > files[pin.rev])
          BY <1>2, <1>6, <3>3, <4>1 DEF PruneStep, NewestInv
        <5>2. SupersededAt(files, pin.rev) = files[pin.rev]
          BY <5>1 DEF SupersededAt, Newer
        <5> QED
          BY <1>3, <1>4, <3>3, <4>1, <5>2
      <4>2. CASE files[ea.rev] # files[pin.rev]
        <5>1. files[ea.rev] > files[pin.rev]
          BY <1>3, <1>4, <3>3, <3>4, <4>2
        <5>2. ea.rev \in Newer(files, pin.rev)
          BY <3>3, <5>1 DEF Newer
        <5>3. PICK w \in Newer(files, pin.rev) : SupersededAt(files, pin.rev) = files[w]
          BY <1>0, <1>3, <5>2, SupersededAtOldest
        <5>4. files[w] \in Nat /\ files[w] >= pin.at
          BY <1>3, <1>4, <5>3 DEF Newer
        <5> QED
          BY <5>3, <5>4
      <4> QED
        BY <4>1, <4>2
    <3>6. \A a, b, c, g \in Nat : b >= c /\ a - c < g => ~ (a - b >= g)
      OBVIOUS
    <3> QED
      BY <1>0, <1>2, <3>1, <3>2, <3>5, <3>6
  <2>3. /\ Stored(files') = Stored(files) \ gone
        /\ \A r \in Revisions \ gone : files'[r] = files[r]
        /\ ea' = ea
    BY <1>6, <2>1, RemoveKeepsTimes DEF PruneStep
  <2>4. ea.rev \notin gone
    BY <1>6, <2>1 DEF PruneStep, PublishedHeld, PruneVictims, PruneKeep
  <2>5. files'[ea.rev] = files[ea.rev] /\ files'[pin.rev] = files[pin.rev]
    BY <1>0, <1>3, <1>4, <2>2, <2>3, <2>4
  <2> QED
    BY <1>0, <1>3, <1>4, <2>2, <2>3, <2>5
<1>7. CASE UpsertStep
  <2>1. files' = files /\ now' = now /\ ea'.rev = Revision /\ pc = "upsert"
    BY <1>7 DEF UpsertStep
  <2>2. ASSUME Revision # ea.rev PROVE files[Revision] >= pin.at
    <3>1. files[Revision] = now
      BY <1>2, <1>a, <2>1, <2>2 DEF StampedInv
    <3> QED
      BY <1>0, <3>1
  <2> QED
    BY <1>3, <2>1, <2>2
<1>8. CASE OtherStep
  BY <1>3, <1>8 DEF OtherStep
<1> QED
  BY <1>5, <1>6, <1>7, <1>8, StepKinds

(* What a consumer pins is the newest tarball, this instant's excepted.    *)
LEMMA PinPins ==
  ASSUME TypeOK, PublishedHeld, NewestInv, Pin
  PROVE  PinInv'
<1>1. /\ ea.rev \in Revisions /\ now \in Nat
      /\ pin' = [rev |-> ea.rev, at |-> now] /\ UNCHANGED vars /\ ea.rev # NoRevision
      /\ files \in [Revisions -> Nat \cup {NotStored}]
  BY DEF TypeOK, Pin
<1>2. Live => /\ ea.rev \in Stored(files)
              /\ \A r \in Stored(files) : files[r] > files[ea.rev] => files[r] >= now
  BY <1>1 DEF PublishedHeld, ArtifactServed, NewestInv
<1>3. /\ files' = files /\ now' = now /\ ea' = ea /\ (Live' <=> Live)
      /\ Stored(files)' = Stored(files)
      /\ pin'.rev = ea.rev /\ pin'.at = now
  BY <1>1 DEF vars, shared, Live, Stored
<1>4. now' - pin'.at = 0 /\ pin'.at <= now'
  BY <1>1, <1>3
<1>5. Live' => /\ pin'.rev \in Stored(files)'
               /\ \A r \in Stored(files)' : files'[r] > files'[pin'.rev] => files'[r] >= pin'.at
  BY <1>2, <1>3
<1> QED
  BY <1>1, <1>3, <1>4, <1>5 DEF PinInv

(* A consumer that fetches within --artifact-gc-grace of reading the       *)
(* ExternalArtifact gets the tarball it read about (SupersededAt, the bump *)
(* of a revert, and Publish's order), as long as no revert is to a tarball *)
(* that ties with another, no suspension prunes on the recorded history    *)
(* alone, the upsert follows its Put at once, and no unnoticed failure to  *)
(* read or set an mtime has misjudged a revision's age (store.go:183, 238  *)
(* and 398).  Mtimes may tie else.                                         *)
THEOREM PinsAlwaysFetch ==
  ASSUME Backend = "local", ~TiedReverts, Suspends = {FALSE}, PromptUpserts
  PROVE  PinSpec => []PinThenFetch
<1> DEFINE IInv == /\ TypeInv /\ DeletionRecorded /\ PublishedHeld
                   /\ misjudged \/ (ClockInv /\ NewestInv /\ StampedInv /\ PinInv)
<1>1. PinInit => IInv
  <2> SUFFICES ASSUME PinInit PROVE IInv
    OBVIOUS
  <2>1. TypeInv
    BY InitType DEF PinInit
  <2>2. /\ Stored(files) = {} /\ down = {} /\ now = 0 /\ pc = "idle" /\ ea.rev = NoRevision
        /\ \A r \in Revisions : files[r] = -1
    BY DEF PinInit, Init, Stored, NotStored
  <2>3. DeletionRecorded
    BY DEF PinInit, Init, DeletionRecorded, Blank, Created, WithdrawalSteps, Deleted
  <2>4. PublishedHeld /\ NewestInv /\ StampedInv
    BY <2>2 DEF PublishedHeld, ArtifactServed, NewestInv, StampedInv
  <2>5. ClockInv /\ PinInv
    BY <2>2 DEF ClockInv, PinInv, PinInit
  <2> QED
    BY <2>1, <2>3, <2>4, <2>5
<1>2. IInv /\ [PinNext]_pinVars => IInv'
  <2> SUFFICES ASSUME IInv, [PinNext]_pinVars PROVE IInv'
    OBVIOUS
  <2>0. TypeOK
    BY DEF TypeInv
  <2>1. [Next]_vars
    BY DEF PinNext, OperatorStep, Pin, pinVars
  <2>2. TypeInv' /\ DeletionRecorded' /\ PublishedHeld'
    BY <2>0, <2>1, NextType, NextForced, DeletionRecordedStep, PublishedHeldStep DEF TypeInv
  <2> SUFFICES ASSUME ~misjudged'
               PROVE  (ClockInv /\ NewestInv /\ StampedInv /\ PinInv)'
    BY <2>2
  <2>3. ~misjudged /\ ~Misjudged
    <3>1. CASE OperatorStep
      BY <3>1, Zenon DEF OperatorStep
    <3>2. CASE UNCHANGED <<vars, misjudged>>
      BY <3>2 DEF Misjudged, vars, Stored
    <3> QED
      BY <3>1, <3>2 DEF PinNext, Pin, pinVars
  <2>4. ClockInv /\ NewestInv /\ StampedInv /\ PinInv
    BY <2>3
  <2>5. ClockInv' /\ NewestInv'
    BY <2>0, <2>1, <2>3, <2>4, ClockStep, NewestStep
  <2>6. StampedInv'
    <3>1. CASE OperatorStep
      BY <2>0, <2>1, <2>3, <2>4, <3>1, StampedStep DEF OperatorStep
    <3>2. CASE UNCHANGED vars
      BY <2>4, <3>2 DEF StampedInv, Live, Revision, vars
    <3> QED
      BY <3>1, <3>2 DEF PinNext, Pin, pinVars
  <2>7. PinInv'
    <3>1. CASE pin' = pin
      BY <2>0, <2>1, <2>3, <2>4, <3>1, PinStep
    <3>2. CASE Pin
      BY <2>0, <2>4, <3>2, PinPins
    <3> QED
      BY <3>1, <3>2 DEF PinNext, OperatorStep, pinVars
  <2> QED
    BY <2>5, <2>6, <2>7
<1>3. IInv => PinThenFetch
  BY DEF PinInv, PinThenFetch
<1> QED
  BY <1>1, <1>2, <1>3, PTL DEF PinSpec
=============================================================================
